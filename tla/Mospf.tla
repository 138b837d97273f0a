------------------------------- MODULE Mospf -------------------------------
(***************************************************************************)
(* The link state routing of 07-mospf/mospf_daemon.c: routers find their   *)
(* neighbours by hellos, announce them in numbered updates (LSUs), flood   *)
(* the updates of others and keep the newest of every router in a          *)
(* database.  Five threads per router: the packet thread, which runs the   *)
(* two handlers; the threads that check the neighbours and send updates    *)
(* periodically; one that ages the database; one that sends hellos.        *)
(*                                                                         *)
(* send_mospf_lsu builds and numbers the update under mospf_lock and sends *)
(* it after the unlock, so the updates of two threads can overtake each    *)
(* other: Pend and Broadcast are two steps.  The packet thread's own sends *)
(* belong to its step.  A hello is heard as long as its sender runs.       *)
(* The ttl of an update is left out: it is 255 and a router forwards an    *)
(* update once, so it ends only in networks of more than 255 routers.      *)
(***************************************************************************)
EXTENDS Integers, Sequences

CONSTANTS
    Router,     \* router ids
    Net,        \* networks
    Attached,   \* Attached[n]: the routers with an interface in network n
    SeqLimit,   \* sequence numbers are 0..(SeqLimit - 1): 2^16, a u16
    QueueLen    \* bound: updates a receiver's buffer holds for one sender

ASSUME MospfAssumption ==
    /\ Attached \in [Net -> SUBSET Router]
    /\ SeqLimit \in Nat \ {0, 1} /\ QueueLen \in Nat \ {0}

VARIABLES
    on,     \* the routers that run
    nbrs,   \* nbrs[r]: the neighbours of all nbr_lists, each with its network
    seq,    \* seq[r]: instance->sequence_num
    db,     \* db[r]: mospf_db, a set of updates
    out,    \* out[r][t]: the update thread t has built and not yet sent
    wire    \* wire[<<q, r, n>>]: updates from q that r has not read yet

vars == <<on, nbrs, seq, db, out, wire>>

Seqs == 0..(SeqLimit - 1)

Thread == {"lsu", "nbr"}

Channel ==
    {c \in Router \X Router \X Net : c[1] # c[2] /\ {c[1], c[2]} \subseteq Attached[c[3]]}

(* The links of an update.  An interface without neighbours is announced   *)
(* with router id 0: it is an attached network missing from the links.     *)
Lsu == [rid : Router, seq : Seqs, links : SUBSET (Router \X Net)]
-----------------------------------------------------------------------------
(* Names ending in _bug are mutations: the definition of the same name     *)
(* with one plausible mistake.  No specification uses them.                *)

NextSeq_bug(k) == k + 1  \* does not wrap

NextSeq(k) == IF k + 1 < SeqLimit THEN k + 1 ELSE 0

LsuOf(r, ns) == [rid |-> r, seq |-> seq[r], links |-> ns]

(* broadcast_lsu: to every neighbour but the router m comes from.  Frames  *)
(* for a full buffer or a router that does not run are lost.               *)
Hears_bug(c, m, r, ns) ==  \* also back to where m comes from
    /\ c[1] = r /\ <<c[2], c[3]>> \in ns

Hears(c, m, r, ns) ==
    /\ c[1] = r /\ <<c[2], c[3]>> \in ns
    /\ c[2] # m.rid

Flood(net, m, r, ns) ==
    [c \in Channel |->
        IF Hears(c, m, r, ns) /\ c[2] \in on /\ Len(net[c]) < QueueLen
        THEN Append(net[c], m)
        ELSE net[c]]

(* handle_mospf_lsu knows an update of this router at least as new.        *)
Superseded_bug(r, m) ==  \* only a copy is not taken
    \E e \in db[r] : e = m

Superseded(r, m) == \E e \in db[r] : e.rid = m.rid /\ e.seq >= m.seq
-----------------------------------------------------------------------------
(* mospf_init of every router.                                             *)
Init ==
    /\ on = Router
    /\ nbrs = [r \in Router |-> {}]
    /\ seq = [r \in Router |-> 0]
    /\ db = [r \in Router |-> {}]
    /\ out = [r \in Router |-> [t \in Thread |-> {}]]
    /\ wire = [c \in Channel |-> <<>>]

(* handle_mospf_hello from a router that is not in the list: added, and    *)
(* announced by the packet thread.                                         *)
HearHello(c) ==
    LET q == c[1]
        r == c[2]
        ns == nbrs[r] \cup {<<q, c[3]>>}
    IN /\ q \in on /\ r \in on
       /\ <<q, c[3]>> \notin nbrs[r]
       /\ nbrs' = [nbrs EXCEPT ![r] = ns]
       /\ seq' = [seq EXCEPT ![r] = NextSeq(@)]
       /\ wire' = Flood(wire, LsuOf(r, ns), r, ns)
       /\ UNCHANGED <<on, db, out>>

(* The locked part of send_mospf_lsu in thread t.                          *)
Pend(r, t, ns) ==
    /\ out[r][t] = {}
    /\ out' = [out EXCEPT ![r][t] = {LsuOf(r, ns)}]
    /\ seq' = [seq EXCEPT ![r] = NextSeq(@)]

(* One round of checking_nbr_thread drops the neighbours D.                *)
CheckNbr(r, D) ==
    /\ r \in on /\ D # {}
    /\ nbrs' = [nbrs EXCEPT ![r] = @ \ D]
    /\ Pend(r, "nbr", nbrs[r] \ D)
    /\ UNCHANGED <<on, db, wire>>

(* sending_mospf_lsu_thread, every MOSPF_DEFAULT_LSUINT.                   *)
LsuTimer(r) ==
    /\ r \in on
    /\ Pend(r, "lsu", nbrs[r])
    /\ UNCHANGED <<on, nbrs, db, wire>>

(* The rest of send_mospf_lsu: broadcast_lsu to the neighbours of now.     *)
Broadcast(r, t) ==
    /\ \E m \in out[r][t] : wire' = Flood(wire, m, r, nbrs[r])
    /\ out' = [out EXCEPT ![r][t] = {}]
    /\ UNCHANGED <<on, nbrs, seq, db>>

(* handle_mospf_lsu with a new update: stored and forwarded.               *)
Learn_bug(c) ==  \* adds an entry always
    LET r == c[2]
        m == Head(wire[c])
    IN /\ r \in on /\ wire[c] # <<>>
       /\ ~Superseded(r, m)
       /\ db' = [db EXCEPT ![r] = @ \cup {m}]
       /\ wire' = Flood([wire EXCEPT ![c] = Tail(@)], m, r, nbrs[r])
       /\ UNCHANGED <<on, nbrs, seq, out>>

Learn(c) ==
    LET r == c[2]
        m == Head(wire[c])
    IN /\ r \in on /\ wire[c] # <<>>
       /\ ~Superseded(r, m)
       /\ db' = [db EXCEPT ![r] = {e \in @ : e.rid # m.rid} \cup {m}]
       /\ wire' = Flood([wire EXCEPT ![c] = Tail(@)], m, r, nbrs[r])
       /\ UNCHANGED <<on, nbrs, seq, out>>

(* handle_mospf_lsu with an update that is not newer.                      *)
Ignore(c) ==
    /\ c[2] \in on /\ wire[c] # <<>>
    /\ Superseded(c[2], Head(wire[c]))
    /\ wire' = [wire EXCEPT ![c] = Tail(@)]
    /\ UNCHANGED <<on, nbrs, seq, db, out>>

(* One round of checking_database_thread drops the entries E.              *)
CheckDb(r, E) ==
    /\ r \in on /\ E # {}
    /\ db' = [db EXCEPT ![r] = @ \ E]
    /\ UNCHANGED <<on, nbrs, seq, out, wire>>

(* The process of r ends; what it knew and what it had not read is gone.   *)
Crash(r) ==
    /\ r \in on
    /\ on' = on \ {r}
    /\ nbrs' = [nbrs EXCEPT ![r] = {}]
    /\ seq' = [seq EXCEPT ![r] = 0]
    /\ db' = [db EXCEPT ![r] = {}]
    /\ out' = [out EXCEPT ![r] = [t \in Thread |-> {}]]
    /\ wire' = [c \in Channel |-> IF c[2] = r THEN <<>> ELSE wire[c]]

(* main of r runs again, and mospf_init begins at number 0.                *)
Restart(r) ==
    /\ r \notin on
    /\ on' = on \cup {r}
    /\ UNCHANGED <<nbrs, seq, db, out, wire>>

LoseFrame(c) ==
    /\ wire[c] # <<>>
    /\ wire' = [wire EXCEPT ![c] = Tail(@)]
    /\ UNCHANGED <<on, nbrs, seq, db, out>>

ChannelStep(c) == HearHello(c) \/ Learn(c) \/ Ignore(c) \/ LoseFrame(c)

RouterStep(r) ==
    \/ \E D \in SUBSET nbrs[r] : CheckNbr(r, D)
    \/ \E E \in SUBSET db[r] : CheckDb(r, E)
    \/ LsuTimer(r)
    \/ \E t \in Thread : Broadcast(r, t)
    \/ Crash(r) \/ Restart(r)

Next == (\E c \in Channel : ChannelStep(c)) \/ (\E r \in Router : RouterStep(r))

(* Neighbours and entries may time out at any moment, since hellos and     *)
(* updates may be lost.                                                    *)
Spec == Init /\ [][Next]_vars
-----------------------------------------------------------------------------
TypeOK ==
    /\ on \subseteq Router
    /\ nbrs \in [Router -> SUBSET (Router \X Net)]
    /\ seq \in [Router -> Seqs]
    /\ db \in [Router -> SUBSET Lsu]
    /\ out \in [Router -> [Thread -> SUBSET Lsu]]
    /\ wire \in [Channel -> Seq(Lsu)]

(* handle_mospf_lsu keeps one entry per router however often its updates   *)
(* arrive, so update_rtable has no two nodes for a router.                 *)
OneEntryPerOrigin ==
    \A r \in Router : \A e, f \in db[r] : e.rid = f.rid => e = f

(* Flooding never brings a router its own update back, on whatever way:    *)
(* broadcast_lsu leaves out its originator.  So update_rtable computes no  *)
(* routes through the router itself.  A run without restarts checks it,    *)
(* MospfProofs proves it with them.                                        *)
NoOwnEntry == \A r \in Router : \A e \in db[r] : e.rid # r
=============================================================================
