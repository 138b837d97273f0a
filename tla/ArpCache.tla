------------------------------ MODULE ArpCache ------------------------------
(***************************************************************************)
(* The ARP cache of 06-router (arpcache.c, arp.c) and the two threads that *)
(* share it: the packet thread, which looks addresses up, makes packets    *)
(* wait for an address and takes the ARP replies in, and the sweeping      *)
(* thread, which ages the entries and repeats or gives up the requests.    *)
(* Every operation holds arpcache.lock from its first to its last access,  *)
(* but a lookup that fails and the append that follows take it apart.      *)
(*                                                                         *)
(* Hardware addresses are left out: an entry is the host it is for.  Times *)
(* are ages in seconds.                                                    *)
(***************************************************************************)
EXTENDS Integers, Sequences

CONSTANTS
    Ip,             \* next hops: hosts and gateways
    Iface,          \* interfaces of the router
    Packet,         \* packets the packet thread may get to send
    Size,           \* MAX_ARP_SIZE
    EntryTimeout,   \* ARP_ENTRY_TIMEOUT
    MaxRetries      \* ARP_REQUEST_MAX_RETRIES

ASSUME ArpAssumption ==
    Size \in Nat \ {0} /\ EntryTimeout \in Nat /\ MaxRetries \in Nat \ {0}

VARIABLES
    entries,    \* the valid entries: a function on some of the slots
    reqs,       \* req_list
    hand        \* the packet between arpcache_lookup and arpcache_append_packet

vars == <<entries, reqs, hand>>

Slots == 0..(Size - 1)

(* An entry and the time since added; ages stop where no test tells more.  *)
Entry == [ip : Ip, age : 0..(EntryTimeout + 1)]

(* A request, its waiting packets, and the time since sent.                *)
Request ==
    [iface : Iface, ip : Ip, pkts : Seq(Packet), retries : Nat, age : 0..2]

Job == [iface : Iface, ip : Ip, pkt : Packet]

Known(ip) == \E s \in DOMAIN entries : entries[s].ip = ip

Waiting(p) == \E q \in reqs : \E i \in 1..Len(q.pkts) : q.pkts[i] = p

SameTarget(q, j) == q.iface = j.iface /\ q.ip = j.ip
-----------------------------------------------------------------------------
(* Names ending in _bug are mutations: the definition of the same name     *)
(* with one plausible mistake.  No specification uses them.                *)

(* The slot arpcache_insert takes: the one of this address, else the last  *)
(* free one, else any.                                                     *)
FreeSlots == Slots \ DOMAIN entries

SlotFor_bug(ip) ==  \* does not look for the address
    IF FreeSlots # {} THEN {s \in FreeSlots : \A t \in FreeSlots : t <= s}
    ELSE Slots

SlotFor_off_bug(ip) ==  \* one too far when the table is full
    IF FreeSlots # {} THEN {s \in FreeSlots : \A t \in FreeSlots : t <= s}
    ELSE {Size}

SlotFor(ip) ==
    IF Known(ip) THEN {s \in DOMAIN entries : entries[s].ip = ip}
    ELSE IF FreeSlots # {} THEN {s \in FreeSlots : \A t \in FreeSlots : t <= s}
    ELSE Slots

NewRequest(j) ==
    [iface |-> j.iface, ip |-> j.ip, pkts |-> <<j.pkt>>, retries |-> 1, age |-> 0]

(* A request is sent for every packet, also for one that joins others.     *)
Joined(q, j) ==
    [iface |-> q.iface, ip |-> q.ip, pkts |-> Append(q.pkts, j.pkt),
     retries |-> q.retries + 1, age |-> 0]

Expired(e) == e.age > EntryTimeout

Unanswered(q) == q.retries >= MaxRetries

Late(q) == q.age > 1

(* A request repeated by the sweep keeps its time of sending.              *)
Repeated_bug(q) ==  \* takes the time anew and counts only the late ones
    IF Late(q) THEN [q EXCEPT !.age = 0] ELSE q

Repeated(q) == IF Late(q) THEN [q EXCEPT !.retries = @ + 1] ELSE q

Older(age, top) == IF age < top THEN age + 1 ELSE age
-----------------------------------------------------------------------------
Init == entries = <<>> /\ reqs = {} /\ hand = {}

(* iface_send_packet_by_arp, the address is not in the cache.  When it is, *)
(* the packet leaves at once and nothing changes.                          *)
Miss(j) ==
    /\ hand = {} /\ ~Waiting(j.pkt)
    /\ ~Known(j.ip)
    /\ hand' = {j}
    /\ UNCHANGED <<entries, reqs>>

(* arpcache_append_packet.                                                 *)
AppendPacket_bug(j) ==  \* does not look for the request of this target
    /\ j \in hand
    /\ reqs' = reqs \cup {NewRequest(j)}
    /\ hand' = {}
    /\ UNCHANGED entries

AppendPacket(j) ==
    /\ j \in hand
    /\ \/ /\ ~\E q \in reqs : SameTarget(q, j)
          /\ reqs' = reqs \cup {NewRequest(j)}
       \/ \E q \in reqs :
            /\ SameTarget(q, j)
            /\ reqs' = (reqs \ {q}) \cup {Joined(q, j)}
    /\ hand' = {}
    /\ UNCHANGED entries

(* handle_arp_packet with a reply: arpcache_insert.                        *)
Insert_bug(ip) ==  \* keeps the requests
    /\ hand = {}
    /\ \E s \in SlotFor(ip) :
         entries' = [t \in DOMAIN entries \cup {s} |->
                       IF t = s THEN [ip |-> ip, age |-> 0] ELSE entries[t]]
    /\ UNCHANGED <<reqs, hand>>

Insert(ip) ==
    /\ hand = {}
    /\ \E s \in SlotFor(ip) :
         entries' = [t \in DOMAIN entries \cup {s} |->
                       IF t = s THEN [ip |-> ip, age |-> 0] ELSE entries[t]]
    /\ reqs' = {q \in reqs : q.ip # ip}
    /\ UNCHANGED hand

(* One round of arpcache_sweep.                                            *)
Sweep ==
    /\ entries' = [s \in {t \in DOMAIN entries : ~Expired(entries[t])} |-> entries[s]]
    /\ reqs' = {Repeated(q) : q \in {r \in reqs : ~Unanswered(r)}}
    /\ UNCHANGED hand

(* A second passes.                                                        *)
Tick ==
    /\ entries' = [s \in DOMAIN entries |->
                     [entries[s] EXCEPT !.age = Older(@, EntryTimeout + 1)]]
    /\ reqs' = {[q EXCEPT !.age = Older(@, 2)] : q \in reqs}
    /\ UNCHANGED hand

PacketThread ==
    \/ \E j \in Job : Miss(j) \/ AppendPacket(j)
    \/ \E ip \in Ip : Insert(ip)

Next == PacketThread \/ Sweep \/ Tick

Spec == Init /\ [][Next]_vars
-----------------------------------------------------------------------------
TypeOK ==
    /\ DOMAIN entries \subseteq Slots
    /\ \A s \in DOMAIN entries : entries[s] \in Entry
    /\ reqs \subseteq Request
    /\ hand \subseteq Job

(* The slots arpcache_insert overwrites and the entries a sweep drops      *)
(* never leave two entries for one address, so a lookup finds the newest.  *)
OneEntryPerHost ==
    \A s, t \in DOMAIN entries : entries[s].ip = entries[t].ip => s = t

(* arpcache.c:71: packets for one address and interface wait in one entry. *)
OneRequestPerTarget ==
    \A q, r \in reqs : SameTarget(q, r) => q = r

(* No packet waits for an address the cache knows, and none is about to:   *)
(* so no packet overtakes an earlier one to the same next hop, and the     *)
(* sweep reports no host unreachable that it could send to.                *)
PendingMeansUnknown ==
    /\ \A q \in reqs : ~Known(q.ip)
    /\ \A j \in hand : ~Known(j.ip)

(* Every waiting packet is sent or reported in the end, whether the next   *)
(* hop answers or not and however many packets join it.                    *)
PendingLeaves == \A p \in Packet : Waiting(p) ~> ~Waiting(p)
=============================================================================
