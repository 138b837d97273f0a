-------------------------------- MODULE Nat --------------------------------
(***************************************************************************)
(* The address translation of 08-nat/nat.c: the packet thread translates   *)
(* TCP packets through the mapping table and the port pool, the timeout    *)
(* thread sweeps the table; both hold nat.lock for a whole step.           *)
(*                                                                         *)
(* An endpoint (address and port) is one value; the address of the         *)
(* external interface is implied.  The table is searched only in the       *)
(* bucket of the remote endpoint and by one endpoint, never by both.       *)
(***************************************************************************)
EXTENDS Integers, FiniteSets

CONSTANTS
    Internal,   \* endpoints of the private network
    Remote,     \* endpoints of the public network
    HashSize,   \* HASH_8BITS: buckets of nat_mapping_list
    Hash,       \* Hash[r]: the bucket of a remote endpoint
    PortMin,    \* NAT_PORT_MIN
    PortMax,    \* NAT_PORT_MAX, the first port above the pool
    Rules,      \* the dnat rules: external port -> internal endpoint
    MaxSeq,     \* bound: sequence numbers are 1..MaxSeq
    Flags,      \* flag bytes of the packets: subset of AllFlags
    Timeout     \* TCP_ESTABLISHED_TIMEOUT, in ticks

AllFlags == {"SYN", "ACK", "FIN", "FINACK"}

Buckets == 0..(HashSize - 1)

Pool == PortMin..(PortMax - 1)

ASSUME NatAssumption ==
    /\ HashSize \in Nat \ {0} /\ Hash \in [Remote -> Buckets]
    /\ PortMin \in Nat \ {0} /\ PortMax \in Nat /\ PortMin < PortMax
    /\ Rules \in [DOMAIN Rules -> Internal] /\ DOMAIN Rules \subseteq Nat \ {0}
    /\ MaxSeq \in Nat \ {0} /\ Flags \subseteq AllFlags /\ Timeout \in Nat \ {0}

VARIABLES
    table,      \* the mappings of all buckets
    assigned    \* the ports whose assigned_ports byte is 1

vars == <<table, assigned>>

Seqs == 0..MaxSeq   \* 0: nothing seen yet (memset)

(* A mapping and its nat_connection.  age: the ticks since update_time.    *)
Mapping ==
    [bucket : Buckets, int : Internal, ext : Nat, age : 0..(Timeout + 1),
     ifin : BOOLEAN, efin : BOOLEAN, iseq : Seqs, eseq : Seqs,
     iack : Seqs, eack : Seqs]

Packet == [flags : Flags, seq : Seqs \ {0}, ack : Seqs \ {0}]

NewMapping(b, int, ext) ==
    [bucket |-> b, int |-> int, ext |-> ext, age |-> 0,
     ifin |-> FALSE, efin |-> FALSE, iseq |-> 0, eseq |-> 0,
     iack |-> 0, eack |-> 0]
-----------------------------------------------------------------------------
(* Names ending in _bug are mutations: the definition of the same name     *)
(* with one plausible mistake, substituted to show that a property notices *)
(* it.  No specification uses them.                                        *)
Larger(a, b) == IF a > b THEN a ELSE b

(* The statistics of do_translation, DIR_IN and DIR_OUT.  The flag byte is *)
(* compared with TCP_FIN and TCP_ACK as a whole.                           *)
CountIn(m, pkt) ==
    [m EXCEPT !.efin = pkt.flags = "FIN",
              !.eseq = Larger(@, pkt.seq),
              !.eack = IF pkt.flags = "ACK" THEN Larger(@, pkt.ack) ELSE @]

CountOut(m, pkt) ==
    [m EXCEPT !.ifin = @ \/ pkt.flags = "FIN",
              !.iseq = Larger(@, pkt.seq),
              !.iack = IF pkt.flags = "ACK" THEN Larger(@, pkt.ack) ELSE @]

IsFlowFinished(m) ==
    /\ m.ifin /\ m.efin
    /\ m.iack >= m.eseq
    /\ m.eack >= m.iseq

(* alloc_port: the lowest free port of the pool, 0 when there is none.     *)
FreePorts == Pool \ assigned

AllocPort_bug == {PortMin}  \* does not look at assigned_ports

AllocPort ==
    IF FreePorts = {} THEN {0}
    ELSE {p \in FreePorts : \A q \in FreePorts : p <= q}

(* The mappings do_translation can find; it takes the first of its bucket. *)
MatchOut(b, int) == {m \in table : m.bucket = b /\ m.int = int}

MatchIn(b, ext) == {m \in table : m.bucket = b /\ m.ext = ext}

Replace(m, n) == table' = (table \ {m}) \cup {n}
-----------------------------------------------------------------------------
Init == table = {} /\ assigned = {}

(* DIR_OUT, the connection has a mapping.                                  *)
OutKnown(int, r, pkt) ==
    /\ \E m \in MatchOut(Hash[r], int) : Replace(m, CountOut(m, pkt))
    /\ UNCHANGED assigned

(* DIR_OUT, a new mapping with a port of the pool.                         *)
OutNew(int, r, pkt) ==
    /\ MatchOut(Hash[r], int) = {}
    /\ \E p \in AllocPort :
         /\ table' = table \cup {CountOut(NewMapping(Hash[r], int, p), pkt)}
         /\ assigned' = assigned \cup ({p} \ {0})

(* DIR_IN, the external port has a mapping.                                *)
InKnown(r, ext, pkt) ==
    /\ \E m \in MatchIn(Hash[r], ext) : Replace(m, CountIn(m, pkt))
    /\ UNCHANGED assigned

InRule_swap_bug(r, ext, pkt) ==  \* takes the remote for the internal endpoint
    /\ MatchIn(Hash[r], ext) = {}
    /\ ext \in DOMAIN Rules
    /\ table' = table \cup {CountIn(NewMapping(Hash[r], r, ext), pkt)}
    /\ UNCHANGED assigned

(* DIR_IN, a new mapping from a dnat rule; its port is not taken from the  *)
(* pool.  Without a rule the packet is dropped, and nothing changes.       *)
InRule(r, ext, pkt) ==
    /\ MatchIn(Hash[r], ext) = {}
    /\ ext \in DOMAIN Rules
    /\ table' = table \cup {CountIn(NewMapping(Hash[r], Rules[ext], ext), pkt)}
    /\ UNCHANGED assigned

(* One round of nat_timeout: finished and old mappings go, their ports are *)
(* free.                                                                   *)
Expired_bug(m) == IsFlowFinished(m)

Expired(m) == IsFlowFinished(m) \/ m.age > Timeout

Sweep_leak_bug ==  \* does not free the ports
    /\ \E m \in table : Expired(m)
    /\ table' = {m \in table : ~Expired(m)}
    /\ UNCHANGED assigned

Sweep_bug ==  \* frees the whole bucket
    /\ \E m \in table : Expired(m)
    /\ table' = {m \in table : \A n \in table : n.bucket = m.bucket => ~Expired(n)}
    /\ assigned' = {p \in assigned : \E m \in table' : m.ext = p}

Sweep ==
    /\ \E m \in table : Expired(m)
    /\ table' = {m \in table : ~Expired(m)}
    /\ assigned' = assigned \ {m.ext : m \in {n \in table : Expired(n)}}

(* A second passes.  Ages stop at Timeout + 1: older is not told apart.    *)
Older(t) == IF t > Timeout THEN t ELSE t + 1

Tick ==
    /\ table' = {[m EXCEPT !.age = Older(@)] : m \in table}
    /\ UNCHANGED assigned

Translate ==
    \E pkt \in Packet, r \in Remote :
        \/ \E int \in Internal : OutKnown(int, r, pkt) \/ OutNew(int, r, pkt)
        \/ \E ext \in Pool \cup DOMAIN Rules \cup {0} :
             InKnown(r, ext, pkt) \/ InRule(r, ext, pkt)

Next == Translate \/ Sweep \/ Tick

Spec == Init /\ [][Next]_vars

(* Time passes and the timeout thread runs every second.                   *)
FairSpec == Spec /\ WF_vars(Tick) /\ WF_vars(Sweep)
-----------------------------------------------------------------------------
TypeOK == table \subseteq Mapping /\ assigned \subseteq Nat

(* parse_config takes a rule for any port, also for one alloc_port hands   *)
(* out: a connection of the rule then uses it without marking it.          *)
Shared == Pool \cap DOMAIN Rules

(* nat.h: assigned_ports "indicates whether a port is assigned".  No port  *)
(* stays marked when its connection is gone, whatever the rules; and a     *)
(* pool port no rule names is marked while a mapping uses it, and used by  *)
(* one mapping only, whatever happens to the shared ports.                 *)
PoolAccurate ==
    /\ \A p \in Pool \cap assigned : \E m \in table : m.ext = p
    /\ \A m, n \in table : m.ext \in Pool \ Shared =>
          /\ m.ext \in assigned
          /\ m.ext = n.ext => m = n

(* What a remote endpoint answers to the port it sees reaches the endpoint *)
(* that used this port towards it, if the port is not a shared one and not *)
(* the 0 of an exhausted pool: in these two cases the code gives one port  *)
(* to several connections.                                                 *)
AnswersReachSender ==
    \A m, n \in table :
        /\ m.bucket = n.bucket /\ m.ext = n.ext
        /\ m.ext \notin Shared \cup {0}
        => m.int = n.int

Kept(m) == \E n \in table' : n.bucket = m.bucket /\ n.int = m.int /\ n.ext = m.ext

(* A connection keeps its external port for as long as it has a mapping.   *)
StableTranslation == [][\A m \in table : Expired(m) \/ Kept(m)]_vars

(* A packet of a known connection that uses port p.                        *)
Transmits(p) ==
    \E pkt \in Packet, r \in Remote :
        \/ InKnown(r, p, pkt)
        \/ \E int \in Internal : /\ \E m \in MatchOut(Hash[r], int) : m.ext = p
                                 /\ OutKnown(int, r, pkt)

Finished(p) == \E m \in table : m.ext = p /\ IsFlowFinished(m)

(* nat.h: a connection that transmits nothing for TCP_ESTABLISHED_TIMEOUT, *)
(* or whose both sides have closed, is finished, and nat_timeout frees its *)
(* port.  A port whose connections have all fallen silent comes back, also *)
(* when a FIN was lost, and one whose connection stays finished comes back *)
(* though its inner side goes on sending.                                  *)
PortsReclaimed ==
    \A p \in Pool :
        /\ <>[][~Transmits(p)]_vars => []<>(p \notin assigned)
        /\ []<>~(p \in assigned /\ Finished(p))
=============================================================================
