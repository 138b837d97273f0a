---------------------------- MODULE RouterProofs ----------------------------
(***************************************************************************)
(* Theorems about the ARP cache and the router, for any number of hosts,   *)
(* packets, routes and slots.                                              *)
(*                                                                         *)
(* The cache: its inductive invariant is the conjunction of its properties:*)
(* that no packet waits for a known address needs that a lookup which      *)
(* missed still holds at the append (its hand part), and that a reply frees*)
(* the only slot of its address needs OneEntryPerHost.                     *)
(*                                                                         *)
(* The router uses the cache as ArpCache says it is used, so what is proved*)
(* of the cache holds in the router.  To it come the routes the packets    *)
(* wait for and the order in which they came.                              *)
(***************************************************************************)
EXTENDS Router, Induction

ArpInv ==
    TypeOK /\ OneEntryPerHost /\ OneRequestPerTarget /\ PendingMeansUnknown

(* The slot an insertion takes is a slot of the table, and the only one of *)
(* the address when it has one.                                            *)
LEMMA SlotForSlot ==
    ASSUME TypeOK, NEW ip \in Ip, NEW s \in SlotFor(ip)
    PROVE  s \in Slots /\ (Known(ip) => s \in DOMAIN entries /\ entries[s].ip = ip)
  BY DEF TypeOK, SlotFor, FreeSlots, Known

(* A request stays a request of its target when it is repeated or joined.  *)
LEMMA RepeatedType ==
    ASSUME NEW q \in Request
    PROVE  /\ Repeated(q) \in Request
           /\ SameTarget(Repeated(q), q)
           /\ Repeated(q).pkts = q.pkts
<1>1. CASE q.age > 1
  <2>1. Repeated(q) = [q EXCEPT !.retries = q.retries + 1]
    BY <1>1 DEF Repeated, Late
  <2> QED  BY <2>1 DEF Request, SameTarget
<1>2. CASE ~(q.age > 1)
  BY <1>2 DEF Repeated, Late, SameTarget
<1> QED  BY <1>1, <1>2

LEMMA JoinedType ==
    ASSUME NEW q \in Request, NEW j \in Job
    PROVE  /\ Joined(q, j) \in Request
           /\ SameTarget(Joined(q, j), q)
<1>1. q.pkts \in Seq(Packet) /\ j.pkt \in Packet
  BY DEF Request, Job
<1>2. Append(q.pkts, j.pkt) \in Seq(Packet)
  BY <1>1
<1>3. q.iface \in Iface /\ q.ip \in Ip /\ q.retries + 1 \in Nat
  BY DEF Request
<1>4. Joined(q, j) \in Request
  BY <1>2, <1>3 DEF Request, Joined
<1> QED  BY <1>2, <1>4 DEF Joined, SameTarget

LEMMA NewRequestType ==
    ASSUME NEW j \in Job
    PROVE  /\ NewRequest(j) \in Request
           /\ SameTarget(NewRequest(j), j)
  BY DEF Request, NewRequest, SameTarget, Job
-----------------------------------------------------------------------------
(* A lookup that misses puts the packet in hand for an unknown address.    *)
LEMMA MissInv ==
    ASSUME ArpInv, NEW j \in Job, Miss(j)
    PROVE  ArpInv'
  BY DEF ArpInv, Miss, TypeOK, OneEntryPerHost, OneRequestPerTarget,
         PendingMeansUnknown, Known

(* An append starts a request or joins the one of its target.              *)
LEMMA AppendInv ==
    ASSUME ArpInv, NEW j \in Job, AppendPacket(j)
    PROVE  ArpInv'
<1> USE ArpAssumption DEF ArpInv
<1>1. CASE ~(\E q \in reqs : SameTarget(q, j)) /\ reqs' = reqs \cup {NewRequest(j)}
  <2>1. TypeOK'
    <3>1. NewRequest(j) \in Request
      BY NewRequestType
    <3> QED  BY <1>1, <3>1 DEF TypeOK, AppendPacket
  <2>2. OneEntryPerHost'
    BY DEF OneEntryPerHost, AppendPacket
  <2>3. OneRequestPerTarget'
    BY <1>1, NewRequestType DEF OneRequestPerTarget, SameTarget
  <2>4. PendingMeansUnknown'
    BY <1>1, NewRequestType DEF PendingMeansUnknown, SameTarget, AppendPacket, Known
  <2> QED  BY <2>1, <2>2, <2>3, <2>4
<1>2. ASSUME NEW q \in reqs, SameTarget(q, j),
             reqs' = (reqs \ {q}) \cup {Joined(q, j)}
      PROVE  ArpInv'
  <2>0. q \in Request
    BY DEF TypeOK
  <2>1. TypeOK'
    BY <1>2, <2>0, JoinedType DEF TypeOK, AppendPacket
  <2>2. OneEntryPerHost'
    BY DEF OneEntryPerHost, AppendPacket
  <2>3. OneRequestPerTarget'
    BY <1>2, <2>0, JoinedType DEF OneRequestPerTarget, SameTarget
  <2>4. PendingMeansUnknown'
    BY <1>2, <2>0, JoinedType DEF PendingMeansUnknown, SameTarget, AppendPacket, Known
  <2> QED  BY <2>1, <2>2, <2>3, <2>4
<1> QED  BY <1>1, <1>2 DEF AppendPacket

(* A reply enters its address and ends all requests for it.                *)
LEMMA InsertInv ==
    ASSUME ArpInv, NEW ip \in Ip, Insert(ip)
    PROVE  ArpInv'
<1> USE ArpAssumption DEF ArpInv
<1>1. PICK s \in SlotFor(ip) :
        entries' = [t \in DOMAIN entries \cup {s} |->
                      IF t = s THEN [ip |-> ip, age |-> 0] ELSE entries[t]]
  BY DEF Insert
<1>2. s \in Slots /\ (Known(ip) => s \in DOMAIN entries /\ entries[s].ip = ip)
  BY SlotForSlot
<1>3. TypeOK'
  BY <1>1, <1>2 DEF TypeOK, Insert, Entry
<1>4. OneEntryPerHost'
  BY <1>1, <1>2 DEF OneEntryPerHost, Known, TypeOK, Entry
<1>5. OneRequestPerTarget'
  BY DEF OneRequestPerTarget, Insert
<1>6. PendingMeansUnknown'
  <2>1. \A jp \in Ip : Known(jp)' => jp = ip \/ Known(jp)
    BY <1>1 DEF Known, TypeOK, Entry
  <2>2. \A q \in reqs' : q \in reqs /\ q.ip \in Ip /\ q.ip # ip
    BY DEF Insert, TypeOK, Request
  <2>3. \A q \in reqs' : ~Known(q.ip)'
    BY <2>1, <2>2 DEF PendingMeansUnknown
  <2>4. hand' = {}
    BY DEF Insert
  <2> QED  BY <2>3, <2>4 DEF PendingMeansUnknown
<1> QED  BY <1>3, <1>4, <1>5, <1>6

(* A sweep only drops entries and requests and repeats requests.           *)
LEMMA SweepInv ==
    ASSUME ArpInv, Sweep
    PROVE  ArpInv'
<1> USE ArpAssumption DEF ArpInv
<1>1. \A r \in reqs' : \E q \in reqs : r = Repeated(q) /\ q \in Request /\ ~Unanswered(q)
  BY DEF Sweep, TypeOK
<1>2. TypeOK'
  BY <1>1, RepeatedType DEF TypeOK, Sweep
<1>3. OneEntryPerHost'
  BY DEF OneEntryPerHost, Sweep
<1>4. OneRequestPerTarget'
  BY <1>1, RepeatedType DEF OneRequestPerTarget, SameTarget
<1>5. PendingMeansUnknown'
  BY <1>1, RepeatedType DEF PendingMeansUnknown, SameTarget, Known, Sweep
<1> QED  BY <1>2, <1>3, <1>4, <1>5

(* A second changes nothing but the ages.                                  *)
LEMMA TickInv ==
    ASSUME ArpInv, Tick
    PROVE  ArpInv'
<1> USE ArpAssumption DEF ArpInv
<1>1. \A q \in Request : [q EXCEPT !.age = Older(@, 2)] \in Request
  BY DEF Request, Older
<1>2. \A r \in reqs' : \E q \in reqs :
        q \in Request /\ r = [q EXCEPT !.age = Older(@, 2)]
  BY DEF Tick, TypeOK
<1>3. \A r \in reqs' : \E q \in reqs :
        /\ q \in Request /\ r = [q EXCEPT !.age = Older(@, 2)]
        /\ r.iface = q.iface /\ r.ip = q.ip
        /\ r.pkts = q.pkts /\ r.retries = q.retries
  BY <1>2 DEF Request
<1>4. \A e \in Entry : /\ [e EXCEPT !.age = Older(@, EntryTimeout + 1)] \in Entry
                       /\ [e EXCEPT !.age = Older(@, EntryTimeout + 1)].ip = e.ip
  BY DEF Entry, Older
<1>5. /\ DOMAIN entries' = DOMAIN entries
      /\ \A s \in DOMAIN entries : entries'[s] \in Entry /\ entries'[s].ip = entries[s].ip
  BY <1>4 DEF Tick, TypeOK
<1>6. TypeOK'
  BY <1>1, <1>3, <1>5 DEF TypeOK, Tick
<1>7. OneEntryPerHost'
  BY <1>5 DEF OneEntryPerHost
<1>8. OneRequestPerTarget'
  BY <1>3 DEF OneRequestPerTarget, SameTarget
<1>9. PendingMeansUnknown'
  <2>1. \A ip : Known(ip)' => Known(ip)
    BY <1>5 DEF Known
  <2> QED  BY <1>3, <2>1 DEF PendingMeansUnknown, Tick
<1> QED  BY <1>6, <1>7, <1>8, <1>9

LEMMA InitArpInv == Init => ArpInv
  BY DEF Init, ArpInv, TypeOK, OneEntryPerHost, OneRequestPerTarget,
         PendingMeansUnknown

LEMMA ArpInvStep == ArpInv /\ [Next]_vars => ArpInv'
<1> SUFFICES ASSUME ArpInv, [Next]_vars
             PROVE  ArpInv'
  OBVIOUS
<1>1. CASE UNCHANGED vars
  BY <1>1 DEF vars, ArpInv, TypeOK, OneEntryPerHost, OneRequestPerTarget,
              PendingMeansUnknown, Known
<1>2. CASE PacketThread
  BY <1>2, MissInv, AppendInv, InsertInv DEF PacketThread
<1> QED  BY <1>1, <1>2, SweepInv, TickInv DEF Next

LEMMA SpecArpInv == Spec => []ArpInv
  BY InitArpInv, ArpInvStep, PTL DEF Spec
-----------------------------------------------------------------------------
(* Type correctness.                                                       *)
THEOREM SpecTypeOK == Spec => []TypeOK
  BY SpecArpInv, PTL DEF ArpInv

(* The cache never holds two entries for one address.                      *)
THEOREM SpecOneEntryPerHost == Spec => []OneEntryPerHost
  BY SpecArpInv, PTL DEF ArpInv

(* There is at most one request for each address and interface.            *)
THEOREM SpecOneRequestPerTarget == Spec => []OneRequestPerTarget
  BY SpecArpInv, PTL DEF ArpInv

(* No packet waits, or is about to wait, for an address the cache knows.   *)
THEOREM SpecPendingMeansUnknown == Spec => []PendingMeansUnknown
  BY SpecArpInv, PTL DEF ArpInv
-----------------------------------------------------------------------------
(* Each step of the router is one of the cache or leaves it alone.         *)
LEMMA StepOfCache ==
    ASSUME hand \subseteq Job, [RNext]_rvars
    PROVE  [Next]_vars /\ hand' \subseteq Job
<1>1. ASSUME NEW p \in Packet, HandlePacket(p)
      PROVE  [Next]_vars /\ hand' \subseteq Job
  <2>1. CASE HandleLocal(p) \/ TimeExceeded(p) \/ NetUnreachable(p)
    BY <2>1 DEF HandleLocal, TimeExceeded, NetUnreachable, vars
  <2>2. ASSUME NEW r \in longest_prefix_match(p.dst), ForwardNow(p, r)
        PROVE  [Next]_vars /\ hand' \subseteq Job
    BY <2>2 DEF ForwardNow, vars
  <2>3. ASSUME NEW r \in longest_prefix_match(p.dst), ForwardLater(p, r)
        PROVE  [Next]_vars /\ hand' \subseteq Job
    <3>1. JobOf(p, r) \in Job /\ Miss(JobOf(p, r))
      BY <2>3, RouteAssumption DEF ForwardLater, Routed
    <3> QED BY <3>1 DEF Next, PacketThread, Miss
  <2> QED BY <1>1, <2>1, <2>2, <2>3 DEF HandlePacket
<1>2. CASE Pend
  <2>1. PICK j \in hand : AppendPacket(j)
    BY <1>2 DEF Pend
  <2> QED BY <2>1 DEF Next, PacketThread, AppendPacket
<1>3. ASSUME NEW ip \in Neighbour, ArpReply(ip)
      PROVE  [Next]_vars /\ hand' \subseteq Job
  BY <1>3, RouterAssumption DEF ArpReply, Next, PacketThread, Insert
<1>4. ASSUME NEW ip \in Neighbour, NEW i \in Iface, ArpRequest(i, ip)
      PROVE  [Next]_vars /\ hand' \subseteq Job
  BY <1>4 DEF ArpRequest, vars
<1>5. CASE RSweep
  BY <1>5 DEF RSweep, Next, Sweep
<1>6. CASE RTick
  BY <1>6 DEF RTick, Next, Tick
<1>7. CASE UNCHANGED rvars
  BY <1>7 DEF rvars, vars
<1> QED BY <1>1, <1>2, <1>3, <1>4, <1>5, <1>6, <1>7 DEF RNext

(* The router implements the specification of its cache.                   *)
THEOREM RouterImplementsArpCache == RSpec => Spec
<1>1. RInit => Init /\ hand \subseteq Job
  BY DEF RInit, Init
<1>2. hand \subseteq Job /\ [RNext]_rvars => (hand \subseteq Job)'
  BY StepOfCache
<1>3. hand \subseteq Job /\ [RNext]_rvars => [Next]_vars
  BY StepOfCache
<1> QED BY <1>1, <1>2, <1>3, PTL DEF RSpec, Spec

(* In the router no packet waits, or is about to wait, for an address the  *)
(* cache knows: whatever routes it has and whatever comes in.              *)
THEOREM RouterPendingMeansUnknown == RSpec => []PendingMeansUnknown
  BY RouterImplementsArpCache, SpecPendingMeansUnknown, PTL

(* The requests of the router are shared by packets for one next hop.      *)
THEOREM RouterOneRequestPerTarget == RSpec => []OneRequestPerTarget
  BY RouterImplementsArpCache, SpecOneRequestPerTarget, PTL
-----------------------------------------------------------------------------
(* The walk over the routing table, a step at a time.                      *)
LEMMA WalkSteps ==
    ASSUME NEW dst
    PROVE  /\ Walk(dst)[0] = {}
           /\ \A n \in Nat :
                Walk(dst)[n + 1] = IF Better(n + 1, dst, Walk(dst)[n]) THEN {rtable[n + 1]}
                                   ELSE Walk(dst)[n]
<1> DEFINE S == SUBSET Range(rtable)
           F == [x \in Nat \X S |->
                   IF Better(x[1] + 1, dst, x[2]) THEN {rtable[x[1] + 1]} ELSE x[2]]
<1>1. F \in [Nat \X S -> S]
  BY DEF Better, Range
<1>2. PICK f : Iterates(f, S, {}, F)
  <2> {} \in S
    OBVIOUS
  <2> HIDE DEF F, S
  <2> QED BY <1>1, Iteration, Zenon
<1>3. \A n \in Nat : f[n + 1] = IF Better(n + 1, dst, f[n]) THEN {rtable[n + 1]} ELSE f[n]
  BY <1>2 DEF Iterates
<1> DEFINE G(g) == [n \in Nat |-> IF n = 0 THEN {}
                                  ELSE IF Better(n, dst, g[n - 1]) THEN {rtable[n]} ELSE g[n - 1]]
<1>4. f = G(f)
  <2>1. ASSUME NEW n \in Nat PROVE f[n] = G(f)[n]
    <3>1. CASE n = 0
      BY <3>1, <1>2 DEF Iterates
    <3>2. CASE n # 0
      <4>1. n - 1 \in Nat /\ (n - 1) + 1 = n
        BY <3>2
      <4>2. f[n] = IF Better(n, dst, f[n - 1]) THEN {rtable[n]} ELSE f[n - 1]
        BY <1>3, <4>1
      <4> QED BY <4>2, <3>2
    <3> QED BY <3>1, <3>2
  <2> QED BY <2>1, <1>2 DEF Iterates
<1>5. Walk(dst) = G(Walk(dst))
  BY <1>4 DEF Walk
<1> HIDE DEF G
<1>6. Walk(dst)[0] = {}
  BY <1>5 DEF G
<1>7. ASSUME NEW n \in Nat
      PROVE Walk(dst)[n + 1] = IF Better(n + 1, dst, Walk(dst)[n]) THEN {rtable[n + 1]}
                                   ELSE Walk(dst)[n]
  <2>1. (n + 1) - 1 = n /\ n + 1 \in Nat /\ n + 1 # 0
    OBVIOUS
  <2>2. G(Walk(dst))[n + 1] =  IF Better(n + 1, dst, Walk(dst)[n + 1 - 1]) THEN {rtable[n + 1]}
                                   ELSE Walk(dst)[n + 1 - 1]
    BY <2>1 DEF G
  <2> QED BY <1>5, <2>1, <2>2
<1> QED BY <1>6, <1>7

(* What the walk has found is the longest match so far.                    *)
LongestSoFar(dst, n, found) ==
    /\ \A r, s \in found : r = s
    /\ \A r \in found : r \in Range(rtable) /\ Matches(r, dst)
    /\ \A k \in DOMAIN rtable : k <= n /\ Matches(rtable[k], dst) =>
          \E r \in found : rtable[k].mask <= r.mask

LEMMA Masks == \A r \in Range(rtable) : r.mask \in Int
<1>1. ASSUME NEW n \in DOMAIN rtable PROVE rtable[n].mask \in Int
  <2>1. n \in DOMAIN Kernel /\ rtable[n] = new_rt_entry(Kernel[n])
    BY DEF rtable, parse_routing_info
  <2>2. Kernel[n].len \in Int
    BY <2>1, RouterAssumption
  <2> QED BY <2>1, <2>2 DEF new_rt_entry
<1> QED BY <1>1 DEF Range

LEMMA WalkLongest ==
    ASSUME NEW dst
    PROVE  \A n \in Nat : LongestSoFar(dst, n, Walk(dst)[n])
<1> DEFINE T == {n \in Nat : LongestSoFar(dst, n, Walk(dst)[n])}
<1>1. 0 \in T
  <2>1. \A k \in DOMAIN rtable : k \in Nat /\ k > 0
    BY RouterAssumption DEF rtable, parse_routing_info
  <2>2. Walk(dst)[0] = {}
    BY WalkSteps
  <2> QED BY <2>1, <2>2 DEF LongestSoFar
<1>2. ASSUME NEW n \in Nat, n \in T PROVE n + 1 \in T
  <2> DEFINE found == Walk(dst)[n]
             next == Walk(dst)[n + 1]
  <2>1. LongestSoFar(dst, n, found)
    BY <1>2
  <2>2. next = IF Better(n + 1, dst, found) THEN {rtable[n + 1]} ELSE found
    BY WalkSteps
  <2>3. \A k \in DOMAIN rtable : k \in Int
    BY RouterAssumption DEF rtable, parse_routing_info
  <2>4. \A k \in DOMAIN rtable : rtable[k] \in Range(rtable) /\ rtable[k].mask \in Int
    BY Masks DEF Range
  <2> HIDE DEF found, next
  <2>5. CASE Better(n + 1, dst, found)
    <3>1. /\ next = {rtable[n + 1]} /\ n + 1 \in DOMAIN rtable /\ Matches(rtable[n + 1], dst)
          /\ \A r \in found : r.mask < rtable[n + 1].mask
      BY <2>5, <2>2 DEF Better
    <3>2. ASSUME NEW k \in DOMAIN rtable, k <= n + 1, Matches(rtable[k], dst)
          PROVE  rtable[k].mask <= rtable[n + 1].mask
      <4>1. CASE k = n + 1
        BY <4>1, <3>1, <2>4
      <4>2. CASE k <= n
        <5>1. PICK r \in found : rtable[k].mask <= r.mask
          BY <4>2, <3>2, <2>1 DEF LongestSoFar
        <5>2. r.mask \in Int
          BY <2>1, Masks DEF LongestSoFar
        <5> QED BY <5>1, <5>2, <3>1, <2>4
      <4> QED BY <4>1, <4>2, <3>2, <2>3
    <3>3. LongestSoFar(dst, n + 1, next)
      BY <3>1, <3>2, <2>4 DEF LongestSoFar
    <3> QED BY <3>3 DEF next
  <2>6. CASE ~Better(n + 1, dst, found)
    <3>1. next = found
      BY <2>6, <2>2
    <3>2. ASSUME NEW k \in DOMAIN rtable, k <= n + 1, Matches(rtable[k], dst)
          PROVE  \E r \in found : rtable[k].mask <= r.mask
      <4>1. CASE k = n + 1
        <5>1. PICK r \in found : ~(r.mask < rtable[k].mask)
          BY <4>1, <3>2, <2>6 DEF Better
        <5>2. r.mask \in Int
          BY <2>1, Masks DEF LongestSoFar
        <5> QED BY <5>1, <5>2, <2>4
      <4>2. CASE k <= n
        BY <4>2, <3>2, <2>1 DEF LongestSoFar
      <4> QED BY <4>1, <4>2, <3>2, <2>3
    <3>3. LongestSoFar(dst, n + 1, next)
      BY <3>1, <3>2, <2>1 DEF LongestSoFar
    <3> QED BY <3>3 DEF next
  <2> QED BY <2>5, <2>6
<1>3. \A n \in Nat : n \in T
  <2> HIDE DEF T
  <2> QED BY <1>1, <1>2, Successors
<1> QED BY <1>3

(* The route a lookup finds is the best of the table, and it finds one     *)
(* whenever one matches: the words of ip_base.c:26 for every table.        *)
THEOREM LongestPrefixMatch ==
    ASSUME NEW dst
    PROVE  /\ \A r \in longest_prefix_match(dst) : BestRoute(r, dst)
           /\ longest_prefix_match(dst) = {} => ~\E r \in Range(rtable) : Matches(r, dst)
<1> DEFINE found == longest_prefix_match(dst)
<1>1. Len(Kernel) \in Nat
  BY RouterAssumption
<1>1a. LongestSoFar(dst, Len(Kernel), found)
  BY <1>1, WalkLongest DEF longest_prefix_match
<1>2. \A s \in Range(rtable) : \E k \in DOMAIN rtable : s = rtable[k] /\ k <= Len(Kernel)
  BY RouterAssumption DEF rtable, parse_routing_info, Range
<1>3. \A s \in Range(rtable) : Matches(s, dst) => \E r \in found : s.mask <= r.mask
  BY <1>1a, <1>2 DEF LongestSoFar
<1>4. \A r, s \in found : r = s
  BY <1>1a DEF LongestSoFar
<1>5. \A r \in found : r \in Range(rtable) /\ Matches(r, dst)
  BY <1>1a DEF LongestSoFar
<1> HIDE DEF found
<1>6. \A r \in found : BestRoute(r, dst)
  BY <1>3, <1>4, <1>5 DEF BestRoute
<1>7. found = {} => ~\E r \in Range(rtable) : Matches(r, dst)
  BY <1>3
<1> QED BY <1>6, <1>7 DEF found
-----------------------------------------------------------------------------
(* A packet that waits, or is in hand, goes where the best route says, and *)
(* is one the router forwards.                                             *)
GoesRight(iface, ip, p) ==
    /\ ~p.local /\ p.ttl \in {0} \cup (2..255)
    /\ \E r \in Range(rtable) :
          BestRoute(r, p.dst) /\ iface = r.iface /\ ip = NextHop(r, p.dst)

WaitRight ==
    /\ \A j \in hand : GoesRight(j.iface, j.ip, j.pkt)
    /\ \A q \in reqs : \A i \in DOMAIN q.pkts : GoesRight(q.iface, q.ip, q.pkts[i])

(* The packets of a request stand in the order in which they came, and the *)
(* packet in hand came last.                                               *)
InOrder ==
    /\ arrivals \subseteq Packet \X Packet
    /\ \A q \in reqs : \A i, k \in DOMAIN q.pkts :
          i < k => <<q.pkts[i], q.pkts[k]>> \in arrivals
    /\ \A j \in hand : \A p \in Packet : Came(p) => <<p, j.pkt>> \in arrivals
    /\ \A i, j \in hand : i = j

RInv == ArpInv /\ BuffersAccounted /\ WaitRight /\ InOrder

Has(q, p) == \E i \in DOMAIN q.pkts : q.pkts[i] = p

LEMMA RequestPackets ==
    ASSUME NEW q \in Request
    PROVE  /\ q.pkts \in Seq(Packet) /\ DOMAIN q.pkts = 1..Len(q.pkts)
           /\ \A i \in DOMAIN q.pkts : q.pkts[i] \in Packet
<1>1. q.pkts \in Seq(Packet)
  BY DEF Request
<1> QED BY <1>1

LEMMA WaitingHas ==
    ASSUME reqs \subseteq Request
    PROVE  \A p : Waiting(p) <=> \E q \in reqs : Has(q, p)
<1>1. \A q \in reqs : DOMAIN q.pkts = 1..Len(q.pkts)
  BY RequestPackets
<1> QED BY <1>1 DEF Waiting, Has

(* The requests of K stay with their packets, the others end and theirs are*)
(* the buffers that are freed.                                             *)
LEMMA KeptRequests ==
    ASSUME RInv, TypeOK', OneRequestPerTarget', NEW K \in SUBSET reqs, NEW freed,
           \A r \in reqs' : \E q \in K : SameTarget(r, q) /\ r.pkts = q.pkts,
           \A q \in K : \E r \in reqs' : r.pkts = q.pkts,
           hand' = hand, Free(freed),
           \A p \in Packet : p \in freed <=> \E q \in reqs \ K : Has(q, p)
    PROVE  BuffersAccounted' /\ WaitRight' /\ InOrder'
<1> USE DEF RInv
<1>1. /\ reqs \subseteq Request /\ reqs' \subseteq Request /\ hand \subseteq Job
  BY DEF ArpInv, TypeOK
<1>2. \A p : Waiting(p)' <=> \E q \in K : Has(q, p)
  <2>1. \A p : Waiting(p)' <=> \E r \in reqs' : Has(r, p)
    <3>1. \A q \in reqs' : DOMAIN q.pkts = 1..Len(q.pkts)
      BY <1>1, RequestPackets
    <3> QED BY <3>1 DEF Waiting, Has
  <2> QED BY <2>1 DEF Has
<1>3. \A p \in Packet : Came(p)' <=> Came(p) /\ ~\E q \in reqs \ K : Has(q, p)
  <2>1. \A p : Came(p)' <=> Came(p) /\ p \notin freed
    BY DEF Came, Free
  <2> QED BY <2>1
<1>4. \A p \in Packet : Held(p)' <=> Held(p) /\ ~\E q \in reqs \ K : Has(q, p)
  <2> SUFFICES ASSUME NEW p \in Packet
               PROVE  Held(p)' <=> Held(p) /\ ~\E q \in reqs \ K : Has(q, p)
    OBVIOUS
  <2>1. Waiting(p) <=> \E q \in reqs : Has(q, p)
    BY <1>1, WaitingHas
  <2>2. ASSUME NEW q \in reqs, NEW r \in reqs, Has(q, p), Has(r, p) PROVE q = r
    BY <2>2 DEF Has, BuffersAccounted
  <2>3. (\E j \in hand : j.pkt = p) => ~Waiting(p)
    BY DEF BuffersAccounted
  <2>4. Held(p)' <=> (\E q \in K : Has(q, p)) \/ \E j \in hand : j.pkt = p
    BY <1>2 DEF Held
  <2> QED BY <2>1, <2>2, <2>3, <2>4 DEF Held
<1>5. BuffersAccounted'
  <2>1. ASSUME NEW q \in reqs', NEW r \in reqs',
               NEW i \in DOMAIN q.pkts, NEW k \in DOMAIN r.pkts, q.pkts[i] = r.pkts[k]
        PROVE  q = r /\ i = k
    <3>1. PICK q0 \in K : SameTarget(q, q0) /\ q.pkts = q0.pkts
      OBVIOUS
    <3>2. PICK r0 \in K : SameTarget(r, r0) /\ r.pkts = r0.pkts
      OBVIOUS
    <3>3. q0 = r0 /\ i = k
      BY <2>1, <3>1, <3>2 DEF BuffersAccounted
    <3>4. SameTarget(q, r)
      BY <3>1, <3>2, <3>3 DEF SameTarget
    <3> QED BY <3>3, <3>4 DEF OneRequestPerTarget
  <2>2. \A j \in hand' : ~Waiting(j.pkt)'
    <3>1. \A p : (\E q \in K : Has(q, p)) => Waiting(p)
      BY <1>1, WaitingHas
    <3> QED BY <1>2, <3>1 DEF BuffersAccounted
  <2>3. \A p \in Packet : Held(p)' <=> Came(p)'
    BY <1>3, <1>4 DEF BuffersAccounted
  <2> QED BY <2>1, <2>2, <2>3 DEF BuffersAccounted
<1>6. WaitRight'
  <2>1. ASSUME NEW r \in reqs', NEW i \in DOMAIN r.pkts
        PROVE  GoesRight(r.iface, r.ip, r.pkts[i])
    <3>1. PICK q \in K : SameTarget(r, q) /\ r.pkts = q.pkts
      OBVIOUS
    <3> QED BY <3>1 DEF WaitRight, SameTarget
  <2> QED BY <2>1 DEF WaitRight
<1>7. InOrder'
  <2>1. arrivals' \subseteq arrivals
    BY DEF Free
  <2>2. ASSUME NEW p \in Packet, NEW q \in Packet, <<p, q>> \in arrivals,
               ~\E r \in reqs \ K : Has(r, p) \/ Has(r, q)
        PROVE  <<p, q>> \in arrivals'
    <3>1. p \notin freed /\ q \notin freed
      BY <2>2
    <3> QED BY <2>2, <3>1 DEF Free
  <2>3. ASSUME NEW r \in reqs', NEW i \in DOMAIN r.pkts, NEW k \in DOMAIN r.pkts, i < k
        PROVE  <<r.pkts[i], r.pkts[k]>> \in arrivals'
    <3>1. PICK q \in K : SameTarget(r, q) /\ r.pkts = q.pkts
      OBVIOUS
    <3>2. q.pkts[i] \in Packet /\ q.pkts[k] \in Packet
      BY <1>1, <3>1, RequestPackets
    <3>3. <<q.pkts[i], q.pkts[k]>> \in arrivals
      BY <2>3, <3>1 DEF InOrder
    <3>4. \A s \in reqs \ K : ~Has(s, q.pkts[i]) /\ ~Has(s, q.pkts[k])
      BY <3>1 DEF Has, BuffersAccounted
    <3> QED BY <2>2, <3>1, <3>2, <3>3, <3>4
  <2>4. ASSUME NEW j \in hand', NEW p \in Packet, Came(p)'
        PROVE  <<p, j.pkt>> \in arrivals'
    <3>1. j.pkt \in Packet /\ j \in hand
      BY <1>1 DEF Job
    <3>2. <<p, j.pkt>> \in arrivals
      BY <1>3, <2>4, <3>1 DEF InOrder
    <3>3. \A r \in reqs \ K : ~Has(r, j.pkt)
      BY <1>1, <3>1, WaitingHas DEF BuffersAccounted
    <3> QED BY <1>3, <2>2, <2>4, <3>1, <3>2, <3>3
  <2> QED BY <2>1, <2>3, <2>4 DEF InOrder
<1> QED BY <1>5, <1>6, <1>7

(* Nothing waits or stops waiting: the packet thread has answered a packet *)
(* or sent it on.                                                          *)
LEMMA SameBuffers ==
    ASSUME RInv, UNCHANGED <<vars, arrivals>>
    PROVE  BuffersAccounted' /\ WaitRight' /\ InOrder'
<1>1. reqs' = reqs /\ hand' = hand /\ arrivals' = arrivals
  BY DEF vars
<1>2. BuffersAccounted'
  BY <1>1 DEF RInv, BuffersAccounted, Held, Came, Waiting
<1>3. WaitRight'
  BY <1>1 DEF RInv, WaitRight
<1>4. InOrder'
  BY <1>1 DEF RInv, InOrder, Came
<1> QED BY <1>2, <1>3, <1>4

LEMMA TtlOne ==
    ASSUME NEW p \in Packet
    PROVE  /\ Ttl(p) = 0 <=> p.ttl = 1
           /\ Ttl(p) # 0 <=> p.ttl \in {0} \cup (2..255)
<1>1. p.ttl \in 0..255
  BY RouterAssumption
<1> DEFINE t == p.ttl
<1>2. t \in 0..255
  BY <1>1
<1> HIDE DEF t
<1>3. (t - 1) % 256 = 0 <=> t = 1
  BY <1>2
<1>4. t # 1 <=> t \in {0} \cup (2..255)
  BY <1>2
<1> QED BY <1>3, <1>4 DEF Ttl, t

LEMMA RoutedRight ==
    ASSUME NEW p \in Packet, NEW r, Routed(p, r)
    PROVE  LET j == JobOf(p, r) IN j \in Job /\ GoesRight(j.iface, j.ip, j.pkt)
<1>1. ~p.local /\ p.ttl \in {0} \cup (2..255) /\ r \in longest_prefix_match(p.dst)
  BY TtlOne DEF Routed
<1>2. BestRoute(r, p.dst)
  BY <1>1, LongestPrefixMatch
<1>3. JobOf(p, r) \in Job
  BY <1>1, RouteAssumption
<1>4. r \in Range(rtable)
  BY <1>2 DEF BestRoute
<1> QED BY <1>1, <1>2, <1>3, <1>4 DEF GoesRight, JobOf

(* A packet is put in hand: it came after all that are held.               *)
LEMMA ForwardLaterKeeps ==
    ASSUME RInv, NEW p \in Packet, NEW r, ForwardLater(p, r)
    PROVE  BuffersAccounted' /\ WaitRight' /\ InOrder'
<1> DEFINE j == JobOf(p, r)
<1>1. /\ hand = {} /\ hand' = {j} /\ reqs' = reqs /\ ~Waiting(p) /\ sent' = {}
      /\ arrivals' = arrivals \cup {<<q, p>> : q \in {x \in Packet : Came(x)} \cup {p}}
  BY DEF ForwardLater, Miss, JobOf
<1>2. j.pkt = p /\ j \in Job /\ GoesRight(j.iface, j.ip, j.pkt)
  BY RoutedRight DEF ForwardLater, JobOf
<1> HIDE DEF j
<1>3. ~Held(p) /\ ~Came(p)
  BY <1>1 DEF Held, RInv, BuffersAccounted
<1>4. \A q \in Packet : Came(q)' <=> Came(q) \/ q = p
  BY <1>1 DEF Came
<1>5. \A q : Held(q)' <=> Held(q) \/ q = p
  BY <1>1, <1>2 DEF Held, Waiting
<1>6. BuffersAccounted'
  <2>1. \A q \in Packet : Held(q)' <=> Came(q)'
    BY <1>4, <1>5 DEF RInv, BuffersAccounted
  <2>2. \A k \in hand' : ~Waiting(k.pkt)'
    BY <1>1, <1>2 DEF Waiting
  <2> QED BY <1>1, <2>1, <2>2 DEF RInv, BuffersAccounted
<1>7. WaitRight'
  BY <1>1, <1>2 DEF RInv, WaitRight
<1>8. InOrder'
  <2>1. arrivals' \subseteq Packet \X Packet /\ arrivals \subseteq arrivals'
    BY <1>1 DEF RInv, InOrder
  <2>2. \A k \in hand' : \A q \in Packet : Came(q)' => <<q, k.pkt>> \in arrivals'
    BY <1>1, <1>2, <1>4
  <2> QED BY <1>1, <2>1, <2>2 DEF RInv, InOrder
<1> QED BY <1>6, <1>7, <1>8

(* The packet in hand becomes the last of its request.                     *)
LEMMA PendKeeps ==
    ASSUME RInv, Pend
    PROVE  BuffersAccounted' /\ WaitRight' /\ InOrder'
<1>1. PICK j \in hand : AppendPacket(j) /\ arrivals' = arrivals
  BY DEF Pend
<1>2. reqs \subseteq Request /\ hand \subseteq Job /\ j \in Job /\ j.pkt \in Packet /\ hand' = {}
  BY <1>1 DEF RInv, ArpInv, TypeOK, AppendPacket, Job
<1>3. /\ \A p : Waiting(p) => p # j.pkt
      /\ \A q \in reqs : ~Has(q, j.pkt)
  BY <1>1, <1>2, WaitingHas DEF RInv, BuffersAccounted
<1> USE DEF RInv
<1>4. \A i \in hand : i = j
  BY <1>1 DEF InOrder
<1>5. GoesRight(j.iface, j.ip, j.pkt)
  BY <1>1 DEF WaitRight
<1>6. \A p \in Packet : Held(p) <=> p = j.pkt \/ \E q \in reqs : Has(q, p)
  BY <1>1, <1>2, <1>4, WaitingHas DEF Held
<1>7. j.pkt \in Packet /\ \A p \in Packet : Came(p) => <<p, j.pkt>> \in arrivals
  BY <1>1, <1>2 DEF InOrder
<1>8. \A q \in reqs : \A i \in DOMAIN q.pkts : q.pkts[i] \in Packet /\ Came(q.pkts[i])
  <2>1. \A q \in reqs : \A i \in DOMAIN q.pkts : q.pkts[i] \in Packet
    BY <1>2, RequestPackets
  <2> QED BY <1>6, <2>1 DEF Has, BuffersAccounted
(* The request the packet ends up in, and what is in it.                   *)
<1> DEFINE Ends(K, r) ==
             /\ r \notin K /\ K \subseteq reqs /\ reqs' = K \cup {r}
             /\ r.iface = j.iface /\ r.ip = j.ip
             /\ \E n \in Nat :
                  /\ DOMAIN r.pkts = 1..(n + 1) /\ r.pkts[n + 1] = j.pkt
                  /\ \/ n = 0 /\ K = reqs
                     \/ \E q \in reqs :
                          /\ K = reqs \ {q} /\ SameTarget(q, j) /\ DOMAIN q.pkts = 1..n
                          /\ \A i \in 1..n : r.pkts[i] = q.pkts[i]
<1>9. \E K, r : Ends(K, r)
  <2>1. CASE ~(\E q \in reqs : SameTarget(q, j)) /\ reqs' = reqs \cup {NewRequest(j)}
    <3> DEFINE r == NewRequest(j)
    <3>1. /\ r.iface = j.iface /\ r.ip = j.ip
          /\ DOMAIN r.pkts = 1..(0 + 1) /\ r.pkts[0 + 1] = j.pkt
      BY DEF NewRequest
    <3>2. r \notin reqs
      BY <2>1, <3>1 DEF SameTarget
    <3> HIDE DEF r
    <3> QED BY <2>1, <3>1, <3>2 DEF r
  <2>2. ASSUME NEW q \in reqs, SameTarget(q, j), reqs' = (reqs \ {q}) \cup {Joined(q, j)}
        PROVE  \E K, r : Ends(K, r)
    <3> DEFINE r == Joined(q, j)
               n == Len(q.pkts)
    <3>1. q.pkts \in Seq(Packet) /\ n \in Nat /\ DOMAIN q.pkts = 1..n
      BY <1>2, RequestPackets
    <3>2. /\ r.iface = j.iface /\ r.ip = j.ip /\ r.pkts = Append(q.pkts, j.pkt)
      BY <2>2 DEF Joined, SameTarget
    <3>3. /\ DOMAIN r.pkts = 1..(n + 1) /\ r.pkts[n + 1] = j.pkt
          /\ \A i \in 1..n : r.pkts[i] = q.pkts[i]
      BY <3>1, <3>2, <1>2
    <3>4. r \notin reqs \ {q}
      <4>1. Has(r, j.pkt)
        BY <3>1, <3>3 DEF Has
      <4> QED BY <1>3, <4>1
    <3> HIDE DEF r, n
    <3>5. Ends(reqs \ {q}, r)
      BY <2>2, <3>1, <3>2, <3>3, <3>4 DEF r
    <3> HIDE DEF Ends
    <3> QED BY <3>5
  <2> QED BY <1>1, <2>1, <2>2 DEF AppendPacket
<1>10. PICK K, r : Ends(K, r)
  BY <1>9
<1>11. PICK n \in Nat :
        /\ DOMAIN r.pkts = 1..(n + 1) /\ r.pkts[n + 1] = j.pkt
        /\ \/ n = 0 /\ K = reqs
           \/ \E q \in reqs :
                /\ K = reqs \ {q} /\ SameTarget(q, j) /\ DOMAIN q.pkts = 1..n
                /\ \A i \in 1..n : r.pkts[i] = q.pkts[i]
  BY <1>10
<1>12. r \notin K /\ K \subseteq reqs /\ reqs' = K \cup {r} /\ r.iface = j.iface /\ r.ip = j.ip
  BY <1>10
<1> HIDE DEF Ends
<1>13. \A i \in DOMAIN r.pkts :
         \/ i = n + 1 /\ r.pkts[i] = j.pkt
         \/ i \in 1..n /\ \E q \in reqs :
              /\ K = reqs \ {q} /\ SameTarget(q, j) /\ i \in DOMAIN q.pkts /\ r.pkts[i] = q.pkts[i]
  BY <1>11
<1>14. \A p : Has(r, p) <=> p = j.pkt \/ \E q \in reqs \ K : Has(q, p)
  <2>1. n + 1 \in DOMAIN r.pkts
    BY <1>11
  <2>2. \A p : Has(r, p) => p = j.pkt \/ \E q \in reqs \ K : Has(q, p)
    BY <1>13 DEF Has
  <2>3. \A q \in reqs \ K : \A p : Has(q, p) => Has(r, p)
    BY <1>11 DEF Has
  <2> QED BY <1>11, <2>1, <2>2, <2>3 DEF Has
<1>15. \A p \in Packet : Waiting(p)' <=> p = j.pkt \/ \E q \in reqs : Has(q, p)
  <2>1. \A q \in reqs' : DOMAIN q.pkts = 1..Len(q.pkts)
    <3>1. reqs' \subseteq Request
      BY <1>1, <1>2, AppendInv DEF ArpInv, TypeOK
    <3> QED BY <3>1, RequestPackets
  <2>2. \A p : Waiting(p)' <=> \E q \in reqs' : Has(q, p)
    BY <2>1 DEF Waiting, Has
  <2> QED BY <1>12, <1>14, <2>2
<1>16. BuffersAccounted'
  <2>1. ASSUME NEW q \in reqs', NEW s \in reqs',
               NEW i \in DOMAIN q.pkts, NEW k \in DOMAIN s.pkts, q.pkts[i] = s.pkts[k]
        PROVE  q = s /\ i = k
    <3>1. ASSUME NEW a \in K, NEW x \in DOMAIN a.pkts, NEW y \in DOMAIN r.pkts
          PROVE  a.pkts[x] # r.pkts[y]
      <4>1. a \in reqs /\ a.pkts[x] # j.pkt
        BY <1>3, <1>12, <3>1 DEF Has
      <4> QED BY <1>13, <4>1 DEF BuffersAccounted
    <3>2. ASSUME NEW x \in DOMAIN r.pkts, NEW y \in DOMAIN r.pkts, r.pkts[x] = r.pkts[y]
          PROVE  x = y
      <4>1. \A z \in DOMAIN r.pkts : r.pkts[z] = j.pkt => z = n + 1
        BY <1>3, <1>13 DEF Has
      <4> QED BY <1>13, <3>2, <4>1 DEF BuffersAccounted
    <3>3. CASE q = r /\ s = r
      BY <2>1, <3>2, <3>3
    <3>4. CASE q \in K /\ s \in K
      BY <2>1, <3>4, <1>12 DEF BuffersAccounted
    <3>5. CASE q \in K /\ s = r
      BY <2>1, <3>1, <3>5
    <3>6. CASE q = r /\ s \in K
      BY <2>1, <3>1, <3>6
    <3> QED BY <1>12, <3>3, <3>4, <3>5, <3>6
  <2>2. \A p \in Packet : Held(p)' <=> Came(p)'
    <3>1. \A p \in Packet : Held(p)' <=> Held(p)
      BY <1>2, <1>6, <1>15 DEF Held
    <3> QED BY <1>1, <3>1 DEF BuffersAccounted, Came
  <2> QED BY <1>2, <2>1, <2>2 DEF BuffersAccounted
<1>17. WaitRight'
  <2>1. ASSUME NEW i \in DOMAIN r.pkts PROVE GoesRight(r.iface, r.ip, r.pkts[i])
    <3>1. CASE r.pkts[i] = j.pkt
      BY <1>5, <1>12, <3>1
    <3>2. ASSUME NEW q \in reqs, SameTarget(q, j), i \in DOMAIN q.pkts, r.pkts[i] = q.pkts[i]
          PROVE  GoesRight(r.iface, r.ip, r.pkts[i])
      BY <1>12, <3>2 DEF WaitRight, SameTarget
    <3> QED BY <1>13, <3>1, <3>2
  <2> QED BY <1>2, <1>12, <2>1 DEF WaitRight
<1>18. InOrder'
  <2>1. ASSUME NEW i \in DOMAIN r.pkts, NEW k \in DOMAIN r.pkts, i < k
        PROVE  <<r.pkts[i], r.pkts[k]>> \in arrivals
    <3>1. i \in 1..n
      BY <1>11, <2>1
    <3>2. PICK q \in reqs :
            /\ K = reqs \ {q} /\ DOMAIN q.pkts = 1..n
            /\ \A x \in 1..n : r.pkts[x] = q.pkts[x]
      BY <1>11, <3>1
    <3>3. CASE k = n + 1
      BY <1>7, <1>8, <1>11, <3>1, <3>2, <3>3
    <3>4. CASE k \in 1..n
      BY <2>1, <3>1, <3>2, <3>4 DEF InOrder
    <3> QED BY <1>11, <3>3, <3>4
  <2> QED BY <1>1, <1>2, <1>12, <2>1 DEF InOrder
<1> QED BY <1>16, <1>17, <1>18
-----------------------------------------------------------------------------
(* A frame that a step puts out goes the right way.                        *)
FrameRight(f) ==
    /\ f.kind = "forward" => GoesRight(f.iface, f.to, f.pkt)
    /\ f.kind = "reply" => f.pkt.local /\ f.pkt.echo
    /\ f.kind = "time" => ~f.pkt.local /\ f.pkt.ttl = 1
    /\ f.kind = "net" => ~\E r \in Range(rtable) : Matches(r, f.pkt.dst)
    /\ f.kind \in {"net", "host"} => ~f.pkt.local /\ f.pkt.ttl \in {0} \cup (2..255)
    /\ f.kind \in {"reply", "time", "net"} => f.iface = f.pkt.iface
    /\ f.kind = "host" => Mac[f.iface] = f.pkt.dhost
    /\ f.kind \in {"reply", "time", "net", "host"} => f.to = f.pkt.from

(* The frames for the packets of a request.                                *)
LEMMA FlushFrames ==
    ASSUME NEW q
    PROVE  /\ \A f \in Flush(q) : \E i \in DOMAIN q.pkts :
                 /\ f.kind = "forward" /\ f.iface = q.iface /\ f.to = q.ip
                 /\ f.pkt = q.pkts[i] /\ f.place = i
           /\ \A p : (\E f \in Flush(q) : f.pkt = p) <=> Has(q, p)
<1> DEFINE F(i) == Forwarded([iface |-> q.iface, ip |-> q.ip, pkt |-> q.pkts[i]], i)
<1>1. \A i : /\ F(i).kind = "forward" /\ F(i).iface = q.iface /\ F(i).to = q.ip
             /\ F(i).pkt = q.pkts[i] /\ F(i).place = i
  BY DEF Forwarded
<1>2. Flush(q) = {F(i) : i \in DOMAIN q.pkts}
  BY DEF Flush
<1> HIDE DEF F
<1> QED BY <1>1, <1>2 DEF Has

LEMMA ReportFrames ==
    ASSUME NEW q
    PROVE  /\ \A f \in Reports(q) :
                 /\ f.kind = "host" /\ Mac[f.iface] = f.pkt.dhost /\ f.to = f.pkt.from
                 /\ \E n \in DOMAIN q.pkts : f.pkt = q.pkts[n]
           /\ \A i \in Iface : \A p : Has(q, p) /\ Mac[i] = p.dhost =>
                 \E f \in Reports(q) : /\ f.pkt = p /\ f.kind = "host"
                                       /\ f.iface = i /\ f.to = p.from
<1> DEFINE F(i, n) == icmp_send_packet(i, q.pkts[n], "host", n)
           G(n) == {F(i, n) : i \in ReportIface(q, q.pkts[n])}
<1>1. \A i, n : /\ F(i, n).kind = "host" /\ F(i, n).pkt = q.pkts[n]
                /\ F(i, n).iface = i /\ F(i, n).to = q.pkts[n].from
  BY DEF icmp_send_packet
<1>2. Reports(q) = UNION {G(n) : n \in DOMAIN q.pkts}
  BY DEF Reports
<1>3. \A p : ReportIface(q, p) = {i \in Iface : Mac[i] = p.dhost}
  BY DEF ReportIface
<1> HIDE DEF F
<1>4. ASSUME NEW f \in Reports(q)
      PROVE  \E n \in DOMAIN q.pkts : \E i \in ReportIface(q, q.pkts[n]) : f = F(i, n)
  BY <1>2, <1>4
<1>5. \A n \in DOMAIN q.pkts : \A i \in ReportIface(q, q.pkts[n]) : F(i, n) \in Reports(q)
  BY <1>2
<1>6. ASSUME NEW i \in Iface, NEW p, Has(q, p), Mac[i] = p.dhost
      PROVE  \E f \in Reports(q) : /\ f.pkt = p /\ f.kind = "host"
                                    /\ f.iface = i /\ f.to = p.from
  <2>1. PICK n \in DOMAIN q.pkts : q.pkts[n] = p
    BY <1>6 DEF Has
  <2>2. F(i, n) \in Reports(q)
    BY <1>3, <1>5, <1>6, <2>1
  <2> QED BY <1>1, <2>1, <2>2
<1> HIDE DEF G
<1> QED BY <1>1, <1>3, <1>4, <1>6

LEMMA AskFrame ==
    ASSUME NEW q
    PROVE  LET f == arp_send_request(q)
           IN /\ f.kind = "ask" /\ f.iface = q.iface /\ f.to = q.ip /\ f.pkt = NoPacket
              /\ FrameRight(f)
  BY DEF arp_send_request, FrameRight

LEMMA SweepFrames ==
    ASSUME RSweep
    PROVE  /\ \A f \in sent' : \/ \E q \in reqs : Unanswered(q) /\ f \in Reports(q)
                              \/ \E q \in reqs : ~Unanswered(q) /\ f = arp_send_request(q)
           /\ \A q \in reqs : Unanswered(q) => Reports(q) \subseteq sent'
<1> DEFINE R == UNION {Reports(q) : q \in {r \in reqs : Unanswered(r)}}
           A == {arp_send_request(q) : q \in {r \in reqs : ~Unanswered(r) /\ Late(r)}}
<1>1. sent' = R \cup A
  BY DEF RSweep
<1>2. \A f \in R : \E q \in reqs : Unanswered(q) /\ f \in Reports(q)
  OBVIOUS
<1>3. \A f \in A : \E q \in reqs : ~Unanswered(q) /\ f = arp_send_request(q)
  OBVIOUS
<1>4. \A q \in reqs : Unanswered(q) => Reports(q) \subseteq R
  OBVIOUS
<1> HIDE DEF R, A
<1> QED BY <1>1, <1>2, <1>3, <1>4

(* A reply ends the requests of its address, and puts their packets out.   *)
LEMMA ReplyKeeps ==
    ASSUME RInv, ArpInv', NEW ip \in Neighbour, ArpReply(ip)
    PROVE  BuffersAccounted' /\ WaitRight' /\ InOrder'
<1> DEFINE K == {q \in reqs : q.ip # ip}
           freed == {f.pkt : f \in sent'}
<1>1. reqs' = K /\ hand' = hand /\ Free(freed)
  BY DEF ArpReply, Insert
<1>2. sent' = UNION {Flush(q) : q \in reqs \ K}
  BY DEF ArpReply
<1>3. \A p : p \in freed <=> \E q \in reqs \ K : Has(q, p)
  <2>1. \A p : (\E f \in sent' : f.pkt = p) <=> \E q \in reqs \ K : Has(q, p)
    <3> HIDE DEF K
    <3> QED BY <1>2, FlushFrames
  <2> HIDE DEF K
  <2> QED BY <2>1
<1>4. /\ \A r \in reqs' : \E q \in K : SameTarget(r, q) /\ r.pkts = q.pkts
      /\ \A q \in K : \E r \in reqs' : r.pkts = q.pkts
  BY <1>1 DEF SameTarget
<1>5. TypeOK' /\ OneRequestPerTarget' /\ K \in SUBSET reqs
  BY DEF ArpInv
<1> HIDE DEF K, freed
<1> QED BY <1>1, <1>3, <1>4, <1>5, KeptRequests

(* A sweep gives the unanswered requests up and frees their packets.       *)
LEMMA SweepKeeps ==
    ASSUME RInv, ArpInv', RSweep
    PROVE  BuffersAccounted' /\ WaitRight' /\ InOrder'
<1> DEFINE K == {q \in reqs : ~Unanswered(q)}
           freed == UNION {Dropped(q) : q \in {r \in reqs : Unanswered(r)}}
<1>1. reqs' = {Repeated(q) : q \in K} /\ hand' = hand /\ Free(freed)
  BY DEF RSweep, Sweep
<1>2. \A q \in reqs : q \in K <=> ~Unanswered(q)
  OBVIOUS
<1>3. \A p : p \in freed <=> \E q \in reqs \ K : Has(q, p)
  <2>1. \A q : \A p : p \in Dropped(q) <=> Has(q, p)
    BY DEF Dropped, Range, Has
  <2> QED BY <1>2, <2>1
<1>4. \A q \in reqs : SameTarget(Repeated(q), q) /\ Repeated(q).pkts = q.pkts
  BY RepeatedType DEF RInv, ArpInv, TypeOK
<1>5. /\ \A r \in reqs' : \E q \in K : SameTarget(r, q) /\ r.pkts = q.pkts
      /\ \A q \in K : \E r \in reqs' : r.pkts = q.pkts
  BY <1>1, <1>4
<1>6. TypeOK' /\ OneRequestPerTarget' /\ K \in SUBSET reqs
  BY DEF ArpInv
<1> HIDE DEF K, freed
<1> QED BY <1>1, <1>3, <1>5, <1>6, KeptRequests

LEMMA TickKeeps ==
    ASSUME RInv, ArpInv', RTick
    PROVE  BuffersAccounted' /\ WaitRight' /\ InOrder'
<1>1. /\ reqs' = {[q EXCEPT !.age = Older(@, 2)] : q \in reqs} /\ hand' = hand
      /\ sent' = {} /\ arrivals' = arrivals
  BY DEF RTick, Tick
<1>2. \A q \in reqs : /\ SameTarget([q EXCEPT !.age = Older(@, 2)], q)
                      /\ [q EXCEPT !.age = Older(@, 2)].pkts = q.pkts
  BY DEF RInv, ArpInv, TypeOK, Request, SameTarget
<1>3. /\ \A r \in reqs' : \E q \in reqs : SameTarget(r, q) /\ r.pkts = q.pkts
      /\ \A q \in reqs : \E r \in reqs' : r.pkts = q.pkts
  BY <1>1, <1>2
<1>4. Free({})
  BY <1>1 DEF Free
<1>5. TypeOK' /\ OneRequestPerTarget'
  BY DEF ArpInv
<1> DEFINE freed == {}
           K == reqs
<1>6. \A p \in Packet : p \in freed <=> \E q \in reqs \ K : Has(q, p)
  OBVIOUS
<1>7. /\ Free(freed) /\ K \in SUBSET reqs
      /\ \A r \in reqs' : \E q \in K : SameTarget(r, q) /\ r.pkts = q.pkts
      /\ \A q \in K : \E r \in reqs' : r.pkts = q.pkts
  BY <1>3, <1>4
<1> HIDE DEF freed, K
<1> QED BY <1>1, <1>5, <1>6, <1>7, KeptRequests

LEMMA RInvStep ==
    ASSUME RInv, [RNext]_rvars
    PROVE  RInv'
<1>1. ArpInv'
  <2>1. [Next]_vars
    BY StepOfCache DEF RInv, ArpInv, TypeOK
  <2> QED BY <2>1, ArpInvStep DEF RInv
<1>2. ASSUME NEW p \in Packet, HandlePacket(p)
      PROVE  BuffersAccounted' /\ WaitRight' /\ InOrder'
  <2>1. CASE HandleLocal(p) \/ TimeExceeded(p) \/ NetUnreachable(p)
    BY <2>1, SameBuffers DEF HandleLocal, TimeExceeded, NetUnreachable
  <2>2. ASSUME NEW r \in longest_prefix_match(p.dst), ForwardNow(p, r)
        PROVE  BuffersAccounted' /\ WaitRight' /\ InOrder'
    BY <2>2, SameBuffers DEF ForwardNow
  <2>3. ASSUME NEW r \in longest_prefix_match(p.dst), ForwardLater(p, r)
        PROVE  BuffersAccounted' /\ WaitRight' /\ InOrder'
    BY <2>3, ForwardLaterKeeps
  <2> QED BY <1>2, <2>1, <2>2, <2>3 DEF HandlePacket
<1>3. ASSUME NEW ip \in Neighbour, NEW i \in Iface, ArpRequest(i, ip)
      PROVE  BuffersAccounted' /\ WaitRight' /\ InOrder'
  BY <1>3, SameBuffers DEF ArpRequest
<1>4. ASSUME UNCHANGED rvars PROVE BuffersAccounted' /\ WaitRight' /\ InOrder'
  <2>1. UNCHANGED <<vars, arrivals>>
    BY <1>4 DEF rvars, vars
  <2> QED BY <2>1, SameBuffers
<1>5. ASSUME Pend PROVE BuffersAccounted' /\ WaitRight' /\ InOrder'
  BY <1>5, PendKeeps
<1>6. ASSUME NEW ip \in Neighbour, ArpReply(ip)
      PROVE  BuffersAccounted' /\ WaitRight' /\ InOrder'
  BY <1>1, <1>6, ReplyKeeps
<1>7. ASSUME RSweep PROVE BuffersAccounted' /\ WaitRight' /\ InOrder'
  BY <1>1, <1>7, SweepKeeps
<1>8. ASSUME RTick PROVE BuffersAccounted' /\ WaitRight' /\ InOrder'
  BY <1>1, <1>8, TickKeeps
<1>9. BuffersAccounted' /\ WaitRight' /\ InOrder'
  BY <1>2, <1>3, <1>4, <1>5, <1>6, <1>7, <1>8 DEF RNext
<1> QED BY <1>1, <1>9 DEF RInv

LEMMA SpecRInv == RSpec => []RInv
<1>1. RInit => RInv
  <2> SUFFICES ASSUME RInit PROVE RInv
    OBVIOUS
  <2>1. reqs = {} /\ hand = {} /\ arrivals = {} /\ Init
    BY DEF RInit, Init
  <2>2. ArpInv
    BY <2>1, InitArpInv
  <2>3. BuffersAccounted
    BY <2>1 DEF BuffersAccounted, Held, Waiting, Came
  <2>4. WaitRight /\ InOrder
    BY <2>1 DEF WaitRight, InOrder
  <2> QED BY <2>2, <2>3, <2>4 DEF RInv
<1>2. RInv /\ [RNext]_rvars => RInv'
  BY RInvStep
<1> QED BY <1>1, <1>2, PTL DEF RSpec

(* Every buffer the packet thread got is in one place, and nothing that is *)
(* held has been freed.                                                    *)
THEOREM RouterBuffersAccounted == RSpec => []BuffersAccounted
  BY SpecRInv, PTL DEF RInv
-----------------------------------------------------------------------------
LEMMA StepRight ==
    ASSUME RInv, RNext
    PROVE  /\ \A f \in sent' : FrameRight(f)
           /\ \A f \in sent' : f.kind = "ask" => \E q \in reqs' : q.iface = f.iface /\ q.ip = f.to
<1> DEFINE Asked(f) == \E q \in reqs' : q.iface = f.iface /\ q.ip = f.to
           Right == \A f \in sent' : FrameRight(f) /\ (f.kind = "ask" => Asked(f))
<1>1. ASSUME NEW p \in Packet, HandlePacket(p) PROVE Right
  <2>1. CASE HandleLocal(p)
    BY <2>1 DEF HandleLocal, icmp_send_packet, FrameRight
  <2>2. CASE TimeExceeded(p)
    BY <2>2, TtlOne DEF TimeExceeded, icmp_send_packet, FrameRight
  <2>3. CASE NetUnreachable(p)
    BY <2>3, TtlOne, LongestPrefixMatch DEF NetUnreachable, icmp_send_packet, FrameRight
  <2>4. ASSUME NEW r \in longest_prefix_match(p.dst), ForwardNow(p, r) PROVE Right
    <3>1. sent' = {Forwarded(JobOf(p, r), 1)}
      BY <2>4 DEF ForwardNow
    <3>2. LET j == JobOf(p, r) IN GoesRight(j.iface, j.ip, j.pkt)
      BY <2>4, RoutedRight DEF ForwardNow
    <3> QED BY <3>1, <3>2 DEF Forwarded, FrameRight
  <2>5. ASSUME NEW r \in longest_prefix_match(p.dst), ForwardLater(p, r) PROVE Right
    BY <2>5 DEF ForwardLater
  <2> QED BY <1>1, <2>1, <2>2, <2>3, <2>4, <2>5 DEF HandlePacket
<1>2. CASE Pend
  <2>1. PICK j \in hand : AppendPacket(j) /\ sent' = {arp_send_request(j)}
    BY <1>2 DEF Pend
  <2>2. /\ NewRequest(j).iface = j.iface /\ NewRequest(j).ip = j.ip
        /\ \A q : SameTarget(q, j) => Joined(q, j).iface = j.iface /\ Joined(q, j).ip = j.ip
    BY DEF NewRequest, Joined, SameTarget
  <2>3. NewRequest(j) \in reqs' \/ \E q : SameTarget(q, j) /\ Joined(q, j) \in reqs'
    BY <2>1 DEF AppendPacket
  <2>4. \E q \in reqs' : q.iface = j.iface /\ q.ip = j.ip
    BY <2>2, <2>3
  <2> QED BY <2>1, <2>4, AskFrame
<1>3. ASSUME NEW ip \in Neighbour, ArpReply(ip) PROVE Right
  <2>1. \A q \in reqs : \A f \in Flush(q) : FrameRight(f) /\ f.kind = "forward"
    BY FlushFrames DEF FrameRight, RInv, WaitRight
  <2> QED BY <1>3, <2>1 DEF ArpReply
<1>4. ASSUME NEW ip \in Neighbour, NEW i \in Iface, ArpRequest(i, ip) PROVE Right
  BY <1>4 DEF ArpRequest, arp_send_reply, FrameRight
<1>5. CASE RSweep
  <2>1. \A q \in reqs : \A f \in Reports(q) : FrameRight(f) /\ f.kind = "host"
    <3>1. \A q \in reqs : \A i \in DOMAIN q.pkts :
            ~q.pkts[i].local /\ q.pkts[i].ttl \in {0} \cup (2..255)
      BY DEF RInv, WaitRight, GoesRight
    <3> QED BY <3>1, ReportFrames DEF FrameRight
  <2>2. ASSUME NEW q \in reqs, ~Unanswered(q)
        PROVE  FrameRight(arp_send_request(q)) /\ Asked(arp_send_request(q))
    <3>1. Repeated(q) \in reqs'
      BY <1>5, <2>2 DEF RSweep, Sweep
    <3>2. SameTarget(Repeated(q), q)
      BY RepeatedType DEF RInv, ArpInv, TypeOK
    <3> QED BY <3>1, <3>2, AskFrame DEF SameTarget
  <2> QED BY <1>5, <2>1, <2>2, SweepFrames
<1>6. CASE RTick
  BY <1>6 DEF RTick
<1> QED BY <1>1, <1>2, <1>3, <1>4, <1>5, <1>6 DEF RNext

(* A packet is forwarded to where the longest prefix says, however long it *)
(* waited and whatever was learned meanwhile, and an answer is the one its *)
(* header calls for, to the station it came from.                          *)
THEOREM RouterRightWay == RSpec => []RightWay
<1>1. RInit => RightWay
  BY DEF RInit, RightWay
<1>2. RInv /\ RightWay /\ [RNext]_rvars => RightWay'
  <2>1. ASSUME RInv, RNext PROVE RightWay'
    <3> SUFFICES ASSUME NEW f \in sent'
                 PROVE  /\ f.kind = "forward" => \E r \in Range(rtable) :
                              BestRoute(r, f.pkt.dst) /\ f.iface = r.iface /\ f.to = NextHop(r, f.pkt.dst)
                        /\ f.kind = "reply" => f.pkt.local /\ f.pkt.echo
                        /\ f.kind = "time" => ~f.pkt.local /\ f.pkt.ttl = 1
                        /\ f.kind = "net" => ~\E r \in Range(rtable) : Matches(r, f.pkt.dst)
                        /\ f.kind \in {"forward", "net", "host"} =>
                              ~f.pkt.local /\ f.pkt.ttl \in {0} \cup (2..255)
                        /\ f.kind \in {"reply", "time", "net"} => f.iface = f.pkt.iface
                        /\ f.kind = "host" => Mac[f.iface] = f.pkt.dhost
                        /\ f.kind \in {"reply", "time", "net", "host"} => f.to = f.pkt.from
                        /\ f.kind = "ask" => \E q \in reqs' : q.iface = f.iface /\ q.ip = f.to
      BY DEF RightWay
    <3>1. FrameRight(f) /\ (f.kind = "ask" => \E q \in reqs' : q.iface = f.iface /\ q.ip = f.to)
      BY <2>1, StepRight
    <3> QED BY <3>1 DEF FrameRight, GoesRight
  <2>2. ASSUME RightWay, UNCHANGED rvars PROVE RightWay'
    BY <2>2 DEF rvars, RightWay
  <2> QED BY <2>1, <2>2
<1> QED BY <1>1, <1>2, SpecRInv, PTL DEF RSpec
-----------------------------------------------------------------------------
(* What NoOvertaking says of a step.                                       *)
InTurn ==
    /\ \A f, g \in sent' : Earlier(f, g) => Before(f.pkt, g.pkt)
    /\ \A f \in sent', q \in reqs' :
          f.kind = "forward" /\ f.iface = q.iface /\ f.to = q.ip
            => \A p \in Range(q.pkts) : Before(f.pkt, p)

LEMMA ReplyInTurn ==
    ASSUME RInv, NEW ip \in Neighbour, ArpReply(ip)
    PROVE  InTurn
<1>1. sent' = UNION {Flush(q) : q \in {r \in reqs : r.ip = ip}} /\ reqs' = {q \in reqs : q.ip # ip}
  BY DEF ArpReply, Insert
<1>2. \A f \in sent' : \E q \in reqs : \E i \in DOMAIN q.pkts :
        q.ip = ip /\ f.iface = q.iface /\ f.to = q.ip /\ f.pkt = q.pkts[i] /\ f.place = i
  BY <1>1, FlushFrames
<1>3. ASSUME NEW f \in sent', NEW g \in sent', Earlier(f, g)
      PROVE  Before(f.pkt, g.pkt)
  <2>1. PICK q \in reqs : \E i \in DOMAIN q.pkts :
          f.iface = q.iface /\ f.to = q.ip /\ f.pkt = q.pkts[i] /\ f.place = i
    BY <1>2
  <2>2. PICK r \in reqs : \E k \in DOMAIN r.pkts :
          g.iface = r.iface /\ g.to = r.ip /\ g.pkt = r.pkts[k] /\ g.place = k
    BY <1>2
  <2>2a. PICK i \in DOMAIN q.pkts :
          f.iface = q.iface /\ f.to = q.ip /\ f.pkt = q.pkts[i] /\ f.place = i
    BY <2>1
  <2>2b. PICK k \in DOMAIN r.pkts :
          g.iface = r.iface /\ g.to = r.ip /\ g.pkt = r.pkts[k] /\ g.place = k
    BY <2>2
  <2>3. q = r /\ i < k
    BY <1>3, <2>2a, <2>2b DEF Earlier, RInv, ArpInv, OneRequestPerTarget, SameTarget
  <2>4. <<f.pkt, g.pkt>> \in arrivals
    BY <2>2a, <2>2b, <2>3 DEF RInv, InOrder
  <2>5. DOMAIN q.pkts = 1..Len(q.pkts) /\ q.pkts[i] \in Packet /\ Len(q.pkts) \in Nat
    BY <2>2a, RequestPackets DEF RInv, ArpInv, TypeOK
  <2>6. i # k
    BY <2>2b, <2>3, <2>5
  <2>7. f.pkt # g.pkt
    BY <2>2a, <2>2b, <2>3, <2>6 DEF RInv, BuffersAccounted
  <2>8. Came(f.pkt)
    <3>1. Has(q, f.pkt) /\ f.pkt \in Packet
      BY <2>2a, <2>5 DEF Has
    <3>2. Held(f.pkt)
      BY <3>1, WaitingHas DEF Held, RInv, ArpInv, TypeOK
    <3> QED BY <3>1, <3>2 DEF RInv, BuffersAccounted
  <2> QED BY <2>4, <2>7, <2>8 DEF Before
<1>4. \A f \in sent', q \in reqs' : f.to # q.ip
  BY <1>1, <1>2
<1> QED BY <1>3, <1>4 DEF InTurn

LEMMA ForwardInTurn ==
    ASSUME RInv, NEW p \in Packet, NEW r, ForwardNow(p, r)
    PROVE  InTurn
<1>1. sent' = {Forwarded(JobOf(p, r), 1)} /\ reqs' = reqs /\ Known(JobOf(p, r).ip)
  BY DEF ForwardNow, vars
<1>2. \A f \in sent' : f.place = 1 /\ f.to = JobOf(p, r).ip
  BY <1>1 DEF Forwarded
<1>3. \A f, g \in sent' : ~Earlier(f, g)
  BY <1>2 DEF Earlier
<1>4. \A f \in sent', q \in reqs' : f.to # q.ip
  BY <1>1, <1>2 DEF RInv, ArpInv, PendingMeansUnknown
<1> QED BY <1>3, <1>4 DEF InTurn

LEMMA NothingForwarded ==
    ASSUME \A f \in sent' : f.kind # "forward"
    PROVE  InTurn
  BY DEF InTurn, Earlier

LEMMA StepInTurn ==
    ASSUME RInv, RNext
    PROVE  InTurn
<1>1. ASSUME NEW p \in Packet, HandlePacket(p) PROVE InTurn
  <2>1. CASE HandleLocal(p)
    BY <2>1, NothingForwarded DEF HandleLocal, icmp_send_packet
  <2>2. CASE TimeExceeded(p)
    BY <2>2, NothingForwarded DEF TimeExceeded, icmp_send_packet
  <2>3. CASE NetUnreachable(p)
    BY <2>3, NothingForwarded DEF NetUnreachable, icmp_send_packet
  <2>4. ASSUME NEW r \in longest_prefix_match(p.dst), ForwardLater(p, r) PROVE InTurn
    BY <2>4, NothingForwarded DEF ForwardLater
  <2> QED BY <1>1, <2>1, <2>2, <2>3, <2>4, ForwardInTurn DEF HandlePacket
<1>2. CASE Pend
  BY <1>2, NothingForwarded DEF Pend, arp_send_request
<1>3. ASSUME NEW ip \in Neighbour, NEW i \in Iface, ArpRequest(i, ip) PROVE InTurn
  BY <1>3, NothingForwarded DEF ArpRequest, arp_send_reply
<1>4. CASE RSweep
  <2>1. \A f \in sent' : f.kind # "forward"
    <3>1. \A q : \A f \in Reports(q) : f.kind # "forward"
      BY ReportFrames
    <3>2. \A q : arp_send_request(q).kind # "forward"
      BY AskFrame
    <3> QED BY <1>4, <3>1, <3>2, SweepFrames
  <2> QED BY <2>1, NothingForwarded
<1>5. CASE RTick
  BY <1>5, NothingForwarded DEF RTick
<1> QED BY <1>1, <1>2, <1>3, <1>4, <1>5, ReplyInTurn DEF RNext

(* No packet to a next hop overtakes another that waits for it, and those  *)
(* that waited leave in the order they came.                               *)
THEOREM RouterNoOvertaking == RSpec => NoOvertaking
<1>1. RInv /\ [RNext]_rvars => (InTurn \/ UNCHANGED rvars)
  BY StepInTurn
<1>2. [][InTurn]_rvars => NoOvertaking
  <2>1. [InTurn]_rvars => [/\ \A f, g \in sent' : Earlier(f, g) => Before(f.pkt, g.pkt)
       /\ \A f \in sent', q \in reqs' :
             f.kind = "forward" /\ f.iface = q.iface /\ f.to = q.ip
               => \A p \in Range(q.pkts) : Before(f.pkt, p)]_rvars
    BY DEF InTurn
  <2> QED BY <2>1, PTL DEF NoOvertaking
<1> QED BY <1>1, <1>2, SpecRInv, PTL DEF RSpec
-----------------------------------------------------------------------------
(* What NoneLostInSilence says of a step.                                  *)
NotSilent ==
    \A q \in reqs : \A p \in Range(q.pkts) :
       p.dhost = Mac[p.iface] /\ ~Waiting(p)' => Left(p, q) \/ Told(p)

(* The packets that wait, by the requests of the next state.               *)
LEMMA WaitsOn ==
    ASSUME TypeOK', NEW r \in reqs', NEW p, Has(r, p)
    PROVE  Waiting(p)'
<1>1. DOMAIN r.pkts = 1..Len(r.pkts)
  BY RequestPackets DEF TypeOK
<1> QED BY <1>1 DEF Waiting, Has

(* A step that keeps the requests with their packets.                      *)
LEMMA AllWaitOn ==
    ASSUME TypeOK', \A q \in reqs : \A p \in Range(q.pkts) : \E r \in reqs' : Has(r, p)
    PROVE  NotSilent
  BY WaitsOn DEF NotSilent

LEMMA SameRequests ==
    ASSUME TypeOK', reqs' = reqs
    PROVE  NotSilent
  BY AllWaitOn DEF Has, Range

LEMMA StepNotSilent ==
    ASSUME RInv, ArpInv', RNext
    PROVE  NotSilent
<1>1. TypeOK' /\ TypeOK
  BY DEF ArpInv, RInv
<1>2. ASSUME NEW p \in Packet, HandlePacket(p) PROVE NotSilent
  <2>1. reqs' = reqs
    BY <1>2 DEF HandlePacket, HandleLocal, TimeExceeded, NetUnreachable, ForwardNow,
                ForwardLater, Miss, vars
  <2> QED BY <1>1, <2>1, SameRequests
<1>3. CASE Pend
  <2>1. PICK j \in hand : AppendPacket(j)
    BY <1>3 DEF Pend
  <2>2. CASE reqs' = reqs \cup {NewRequest(j)}
    <3>1. \A q \in reqs : \A p \in Range(q.pkts) : q \in reqs' /\ Has(q, p)
      BY <2>2 DEF Has, Range
    <3> QED BY <1>1, <3>1, AllWaitOn
  <2>3. ASSUME NEW q \in reqs, reqs' = (reqs \ {q}) \cup {Joined(q, j)} PROVE NotSilent
    <3>1. q.pkts \in Seq(Packet) /\ j.pkt \in Packet /\ DOMAIN q.pkts = 1..Len(q.pkts)
      BY <1>1, <2>1, RequestPackets DEF TypeOK, Job
    <3>2. /\ DOMAIN Append(q.pkts, j.pkt) = 1..(Len(q.pkts) + 1)
          /\ \A i \in DOMAIN q.pkts : /\ i \in 1..(Len(q.pkts) + 1)
                                      /\ Append(q.pkts, j.pkt)[i] = q.pkts[i]
      BY <3>1
    <3>3. Joined(q, j).pkts = Append(q.pkts, j.pkt)
      BY DEF Joined
    <3>4. \A p \in Range(q.pkts) : Has(Joined(q, j), p)
      BY <3>2, <3>3 DEF Has, Range
    <3>5. \A s \in reqs \ {q} : \A p \in Range(s.pkts) : s \in reqs' /\ Has(s, p)
      BY <2>3 DEF Has, Range
    <3> QED BY <1>1, <2>3, <3>4, <3>5, AllWaitOn
  <2> QED BY <2>1, <2>2, <2>3 DEF AppendPacket
<1>4. ASSUME NEW ip \in Neighbour, ArpReply(ip) PROVE NotSilent
  <2> SUFFICES ASSUME NEW q \in reqs, NEW p \in Range(q.pkts), ~Waiting(p)'
               PROVE  Left(p, q)
    BY DEF NotSilent
  <2>1. Has(q, p)
    BY DEF Has, Range
  <2>2. q.ip = ip
    <3>1. q \notin reqs'
      BY <1>1, <2>1, WaitsOn
    <3> QED BY <1>4, <3>1 DEF ArpReply, Insert
  <2>3. Flush(q) \subseteq sent'
    BY <1>4, <2>2 DEF ArpReply
  <2> QED BY <2>1, <2>3, FlushFrames DEF Left
<1>5. ASSUME NEW ip \in Neighbour, NEW i \in Iface, ArpRequest(i, ip) PROVE NotSilent
  <2>1. reqs' = reqs
    BY <1>5 DEF ArpRequest, vars
  <2> QED BY <1>1, <2>1, SameRequests
<1>6. CASE RSweep
  <2> SUFFICES ASSUME NEW q \in reqs, NEW p \in Range(q.pkts),
                      p.dhost = Mac[p.iface], ~Waiting(p)'
               PROVE  Told(p)
    BY DEF NotSilent
  <2>1. Has(q, p) /\ q \in Request
    BY <1>1 DEF Has, Range, TypeOK
  <2>2. Unanswered(q)
    <3> SUFFICES ASSUME ~Unanswered(q) PROVE FALSE
      OBVIOUS
    <3>1. Repeated(q) \in reqs'
      BY <1>6 DEF RSweep, Sweep
    <3>2. Has(Repeated(q), p)
      BY <2>1, RepeatedType DEF Has
    <3> QED BY <1>1, <3>1, <3>2, WaitsOn
  <2>3. p.iface \in Iface
    <3>1. p \in Packet
      BY <2>1, RequestPackets DEF Has
    <3> QED BY <3>1, RouterAssumption
  <2>4. PICK f \in Reports(q) : /\ f.pkt = p /\ f.kind = "host"
                                /\ f.iface = p.iface /\ f.to = p.from
    BY <2>1, <2>3, ReportFrames
  <2>5. f \in sent'
    BY <1>6, <2>2, <2>4, SweepFrames
  <2> QED BY <2>4, <2>5 DEF Told
<1>7. CASE RTick
  <2>1. \A q \in reqs : /\ [q EXCEPT !.age = Older(@, 2)] \in reqs'
                         /\ [q EXCEPT !.age = Older(@, 2)].pkts = q.pkts
    BY <1>1, <1>7 DEF RTick, Tick, TypeOK, Request
  <2>2. \A q \in reqs : \A p \in Range(q.pkts) : Has([q EXCEPT !.age = Older(@, 2)], p)
    BY <2>1 DEF Has, Range
  <2> QED BY <1>1, <2>1, <2>2, AllWaitOn
<1> QED BY <1>2, <1>3, <1>4, <1>5, <1>6, <1>7 DEF RNext

(* No packet that waited is lost in silence when its frame was for the     *)
(* interface it came in on: it leaves for its next hop, or its sender is   *)
(* told that nobody answered.                                              *)
THEOREM RouterNoneLostInSilence == RSpec => NoneLostInSilence
<1>1. RInv /\ [RNext]_rvars => (NotSilent \/ UNCHANGED rvars)
  <2> SUFFICES ASSUME RInv, RNext PROVE NotSilent
    OBVIOUS
  <2>1. RInv'
    BY RInvStep
  <2> QED BY <2>1, StepNotSilent DEF RInv
<1>2. [][NotSilent]_rvars => NoneLostInSilence
  <2>1. [NotSilent]_rvars =>
          [\A q \in reqs : \A p \in Range(q.pkts) :
             p.dhost = Mac[p.iface] /\ ~Waiting(p)' => Left(p, q) \/ Told(p)]_rvars
    BY DEF NotSilent
  <2> QED BY <2>1, PTL DEF NoneLostInSilence
<1> QED BY <1>1, <1>2, SpecRInv, PTL DEF RSpec
=============================================================================
