---------------------------- MODULE MospfProofs ----------------------------
(***************************************************************************)
(* For any network, range of numbers and buffer length: types, one entry   *)
(* per router and none of one's own under Spec, and, while the numbers     *)
(* count up, that flooding implements MospfDb.                             *)
(***************************************************************************)
EXTENDS MospfHistory, SequenceTheorems, TLAPS

(* What may be in the buffer of a channel: no update of its receiver.      *)
Allowed(c) == {m \in Lsu : m.rid # c[2]}

(* What a thread of r may have built.                                      *)
Own(r) == {m \in Lsu : m.rid = r}

IInv ==
    /\ on \subseteq Router
    /\ nbrs \in [Router -> SUBSET (Router \X Net)]
    /\ seq \in [Router -> Seqs]
    /\ db \in [Router -> SUBSET Lsu]
    /\ NoOwnEntry
    /\ out \in [Router -> [Thread -> SUBSET Lsu]]
    /\ \A r \in Router, t \in Thread : out[r][t] \subseteq Own(r)
    /\ wire \in [Channel -> Seq(Lsu)]
    /\ \A c \in Channel : wire[c] \in Seq(Allowed(c))

-----------------------------------------------------------------------------
(* Channels have a sender, a receiver and a network.                       *)
LEMMA ChannelType ==
    ASSUME NEW c \in Channel
    PROVE  /\ c[1] \in Router /\ c[2] \in Router /\ c[3] \in Net
           /\ c = <<c[1], c[2], c[3]>>
BY DEF Channel

(* NextSeq counts and stays in range.                                      *)
LEMMA NextSeqType ==
    ASSUME NEW k \in Seqs
    PROVE  NextSeq(k) \in Seqs /\ (NextSeq(k) >= k => NextSeq(k) = k + 1)
BY MospfAssumption DEF NextSeq, Seqs

(* An update made of the present state of a router is one of its own.      *)
LEMMA LsuOfType ==
    ASSUME NEW r \in Router, NEW ns \in SUBSET (Router \X Net),
           seq \in [Router -> Seqs]
    PROVE  LsuOf(r, ns) \in Own(r)
BY DEF LsuOf, Own, Lsu

(* The rest of a buffer holds what the buffer held.                        *)
LEMMA TailType ==
    ASSUME NEW S, NEW s \in Seq(S), s # <<>>
    PROVE  Head(s) \in S /\ Tail(s) \in Seq(S)
BY HeadTailProperties

(* Flooding an update leaves every buffer allowed: it goes to no receiver  *)
(* that it comes from.                                                     *)
LEMMA FloodType ==
    ASSUME NEW net, NEW m \in Lsu, NEW r, NEW ns,
           net \in [Channel -> Seq(Lsu)],
           \A c \in Channel : net[c] \in Seq(Allowed(c))
    PROVE  /\ Flood(net, m, r, ns) \in [Channel -> Seq(Lsu)]
           /\ \A c \in Channel : Flood(net, m, r, ns)[c] \in Seq(Allowed(c))
<1> DEFINE W == Flood(net, m, r, ns)
<1>1. W = [c \in Channel |-> W[c]]
  BY DEF Flood
<1>2. ASSUME NEW c \in Channel
      PROVE  W[c] \in Seq(Lsu) /\ W[c] \in Seq(Allowed(c))
  <2>1. CASE Hears(c, m, r, ns) /\ c[2] \in on /\ Len(net[c]) < QueueLen
    <3>1. W[c] = Append(net[c], m)
      BY <2>1 DEF Flood
    <3>2. m \in Allowed(c)
      BY <2>1 DEF Hears, Allowed
    <3> QED
      BY <3>1, <3>2, AppendProperties
  <2>2. CASE ~(Hears(c, m, r, ns) /\ c[2] \in on /\ Len(net[c]) < QueueLen)
    <3>1. W[c] = net[c]
      BY <2>2 DEF Flood
    <3> QED
      BY <3>1
  <2> QED
    BY <2>1, <2>2
<1> HIDE DEF W
<1>3. W \in [Channel -> Seq(Lsu)]
  BY <1>1, <1>2
<1> QED
  BY <1>2, <1>3 DEF W

(* Reading from a buffer leaves every buffer allowed.                      *)
LEMMA ReadType ==
    ASSUME NEW c \in Channel, wire[c] # <<>>,
           wire \in [Channel -> Seq(Lsu)],
           \A d \in Channel : wire[d] \in Seq(Allowed(d))
    PROVE  /\ [wire EXCEPT ![c] = Tail(@)] \in [Channel -> Seq(Lsu)]
           /\ \A d \in Channel :
                [wire EXCEPT ![c] = Tail(@)][d] \in Seq(Allowed(d))
           /\ Head(wire[c]) \in Allowed(c)
<1>1. Tail(wire[c]) \in Seq(Lsu)
  BY TailType
<1>2. Tail(wire[c]) \in Seq(Allowed(c)) /\ Head(wire[c]) \in Allowed(c)
  BY TailType
<1> QED
  BY <1>1, <1>2
-----------------------------------------------------------------------------
LEMMA InitIInv == Init => IInv
<1> SUFFICES ASSUME Init PROVE IInv
  OBVIOUS
<1>1. seq \in [Router -> Seqs]
  BY MospfAssumption DEF Init, Seqs
<1>2. wire \in [Channel -> Seq(Lsu)] /\ \A c \in Channel : wire[c] \in Seq(Allowed(c))
  BY EmptySeq DEF Init
<1>3. out \in [Router -> [Thread -> SUBSET Lsu]]
  BY DEF Init
<1>4. \A r \in Router, t \in Thread : out[r][t] \subseteq Own(r)
  BY DEF Init
<1> QED
  BY <1>1, <1>2, <1>3, <1>4 DEF Init, IInv, NoOwnEntry

(* A router that announces: the update is its own, the number in range.    *)
LEMMA PendIInv ==
    ASSUME IInv, NEW r \in Router, NEW t \in Thread,
           NEW ns \in SUBSET (Router \X Net), Pend(r, t, ns)
    PROVE  /\ seq' \in [Router -> Seqs]
           /\ out' \in [Router -> [Thread -> SUBSET Lsu]]
           /\ \A q \in Router, u \in Thread : out'[q][u] \subseteq Own(q)
<1> DEFINE m == LsuOf(r, ns)
<1>1. m \in Own(r)
  BY LsuOfType DEF IInv
<1>2. NextSeq(seq[r]) \in Seqs
  BY NextSeqType DEF IInv
<1>3. seq' \in [Router -> Seqs]
  BY <1>2 DEF Pend, IInv
<1>4. out' = [out EXCEPT ![r] = [out[r] EXCEPT ![t] = {m}]]
  BY DEF Pend, IInv
<1>5. {m} \subseteq Lsu /\ {m} \subseteq Own(r)
  BY <1>1 DEF Own
<1> HIDE DEF m
<1>6. [out[r] EXCEPT ![t] = {m}] \in [Thread -> SUBSET Lsu]
  BY <1>5 DEF IInv
<1>7. out' \in [Router -> [Thread -> SUBSET Lsu]]
  BY <1>4, <1>6 DEF IInv
<1>8. \A q \in Router, u \in Thread : out'[q][u] \subseteq Own(q)
  BY <1>4, <1>5 DEF IInv
<1> QED
  BY <1>3, <1>7, <1>8

LEMMA NextIInv == IInv /\ [Next]_vars => IInv'
<1> SUFFICES ASSUME IInv, [Next]_vars PROVE IInv'
  OBVIOUS
<1> USE DEF IInv
<1>1. ASSUME NEW c \in Channel, HearHello(c)
      PROVE  IInv'
  <2> DEFINE q == c[1]
             r == c[2]
             ns == nbrs[r] \cup {<<q, c[3]>>}
             m == LsuOf(r, ns)
  <2>1. q \in Router /\ r \in Router /\ c[3] \in Net
    BY ChannelType
  <2>2. ns \in SUBSET (Router \X Net)
    BY <2>1
  <2>3. m \in Lsu
    BY <2>1, <2>2, LsuOfType DEF Own
  <2>4. nbrs' = [nbrs EXCEPT ![r] = ns] /\ seq' = [seq EXCEPT ![r] = NextSeq(@)]
        /\ wire' = Flood(wire, m, r, ns) /\ UNCHANGED <<on, db, out>>
    BY <1>1 DEF HearHello
  <2> HIDE DEF m, ns, q, r
  <2>5. wire' \in [Channel -> Seq(Lsu)]
        /\ \A d \in Channel : wire'[d] \in Seq(Allowed(d))
    BY <2>3, <2>4, FloodType
  <2>6. nbrs' \in [Router -> SUBSET (Router \X Net)]
    BY <2>2, <2>4
  <2>7. seq' \in [Router -> Seqs]
    BY <2>1, <2>4, NextSeqType
  <2> QED
    BY <2>4, <2>5, <2>6, <2>7 DEF NoOwnEntry
<1>2. ASSUME NEW c \in Channel, Learn(c)
      PROVE  IInv'
  <2> DEFINE r == c[2]
             m == Head(wire[c])
             net == [wire EXCEPT ![c] = Tail(@)]
             D == {e \in db[r] : e.rid # m.rid} \cup {m}
  <2>1. r \in Router /\ wire[c] # <<>>
    BY <1>2, ChannelType DEF Learn
  <2>2. /\ net \in [Channel -> Seq(Lsu)]
        /\ \A d \in Channel : net[d] \in Seq(Allowed(d))
        /\ m \in Allowed(c)
    BY <2>1, ReadType
  <2>3. m \in Lsu /\ m.rid # r
    BY <2>2 DEF Allowed
  <2>4. D \subseteq Lsu /\ \A e \in D : e.rid # r
    BY <2>1, <2>3 DEF NoOwnEntry
  <2>5. db' = [db EXCEPT ![r] = D] /\ wire' = Flood(net, m, r, nbrs[r])
        /\ UNCHANGED <<on, nbrs, seq, out>>
    BY <1>2 DEF Learn
  <2> HIDE DEF m, net, D, r
  <2>6. wire' \in [Channel -> Seq(Lsu)]
        /\ \A d \in Channel : wire'[d] \in Seq(Allowed(d))
    BY <2>2, <2>3, <2>5, FloodType
  <2>7. db' \in [Router -> SUBSET Lsu]
    BY <2>4, <2>5
  <2>8. NoOwnEntry'
    BY <2>1, <2>4, <2>5 DEF NoOwnEntry
  <2> QED
    BY <2>5, <2>6, <2>7, <2>8
<1>3. ASSUME NEW c \in Channel, Ignore(c) \/ LoseFrame(c)
      PROVE  IInv'
  <2>1. wire[c] # <<>> /\ wire' = [wire EXCEPT ![c] = Tail(@)]
        /\ UNCHANGED <<on, nbrs, seq, db, out>>
    BY <1>3 DEF Ignore, LoseFrame
  <2>2. wire' \in [Channel -> Seq(Lsu)]
        /\ \A d \in Channel : wire'[d] \in Seq(Allowed(d))
    BY <2>1, ReadType
  <2> QED
    BY <2>1, <2>2 DEF NoOwnEntry
<1>4. ASSUME NEW r \in Router, NEW D \in SUBSET nbrs[r], CheckNbr(r, D)
      PROVE  IInv'
  <2>1. nbrs' = [nbrs EXCEPT ![r] = @ \ D] /\ UNCHANGED <<on, db, wire>>
        /\ Pend(r, "nbr", nbrs[r] \ D)
    BY <1>4 DEF CheckNbr
  <2>2. nbrs' \in [Router -> SUBSET (Router \X Net)]
    BY <2>1
  <2>3. nbrs[r] \ D \in SUBSET (Router \X Net) /\ "nbr" \in Thread
    BY DEF Thread
  <2> QED
    BY <2>1, <2>2, <2>3, PendIInv DEF NoOwnEntry
<1>5. ASSUME NEW r \in Router, LsuTimer(r)
      PROVE  IInv'
  <2>1. UNCHANGED <<on, nbrs, db, wire>> /\ Pend(r, "lsu", nbrs[r])
    BY <1>5 DEF LsuTimer
  <2>2. nbrs[r] \in SUBSET (Router \X Net) /\ "lsu" \in Thread
    BY DEF Thread
  <2> QED
    BY <2>1, <2>2, PendIInv DEF NoOwnEntry
<1>6. ASSUME NEW r \in Router, NEW t \in Thread, Broadcast(r, t)
      PROVE  IInv'
  <2>1. PICK m \in out[r][t] : wire' = Flood(wire, m, r, nbrs[r])
    BY <1>6 DEF Broadcast
  <2>2. out' = [out EXCEPT ![r] = [out[r] EXCEPT ![t] = {}]]
        /\ UNCHANGED <<on, nbrs, seq, db>>
    BY <1>6 DEF Broadcast
  <2>3. m \in Lsu
    BY <2>1
  <2>4. wire' \in [Channel -> Seq(Lsu)]
        /\ \A d \in Channel : wire'[d] \in Seq(Allowed(d))
    BY <2>1, <2>3, FloodType
  <2>5. [out[r] EXCEPT ![t] = {}] \in [Thread -> SUBSET Lsu]
    OBVIOUS
  <2>6. out' \in [Router -> [Thread -> SUBSET Lsu]]
    BY <2>2, <2>5
  <2>7. \A q \in Router, u \in Thread : out'[q][u] \subseteq Own(q)
    BY <2>2
  <2> QED
    BY <2>2, <2>4, <2>6, <2>7 DEF NoOwnEntry
<1>7. ASSUME NEW r \in Router, NEW E \in SUBSET db[r], CheckDb(r, E)
      PROVE  IInv'
  <2>1. db' = [db EXCEPT ![r] = @ \ E] /\ UNCHANGED <<on, nbrs, seq, out, wire>>
    BY <1>7 DEF CheckDb
  <2>2. db' \in [Router -> SUBSET Lsu]
    BY <2>1
  <2>3. NoOwnEntry'
    BY <2>1 DEF NoOwnEntry
  <2> QED
    BY <2>1, <2>2, <2>3
<1>8. ASSUME NEW r \in Router, Crash(r)
      PROVE  IInv'
  <2>1. on' \subseteq Router /\ nbrs' \in [Router -> SUBSET (Router \X Net)]
    BY <1>8 DEF Crash
  <2>2. seq' \in [Router -> Seqs]
    BY <1>8, MospfAssumption DEF Crash, Seqs
  <2>3. db' \in [Router -> SUBSET Lsu] /\ NoOwnEntry'
    BY <1>8 DEF Crash, NoOwnEntry
  <2>4. out' \in [Router -> [Thread -> SUBSET Lsu]]
    BY <1>8 DEF Crash
  <2>5. \A q \in Router, t \in Thread : out'[q][t] \subseteq Own(q)
    BY <1>8 DEF Crash
  <2>6. \A d \in Channel : wire'[d] \in Seq(Lsu) /\ wire'[d] \in Seq(Allowed(d))
    BY <1>8, EmptySeq DEF Crash
  <2>7. wire' \in [Channel -> Seq(Lsu)]
    BY <1>8, <2>6 DEF Crash
  <2> QED
    BY <2>1, <2>2, <2>3, <2>4, <2>5, <2>6, <2>7
<1>9. ASSUME NEW r \in Router, Restart(r)
      PROVE  IInv'
  BY <1>9 DEF Restart, NoOwnEntry
<1>10. CASE UNCHANGED vars
  BY <1>10 DEF vars, NoOwnEntry
<1> QED
  BY <1>1, <1>2, <1>3, <1>4, <1>5, <1>6, <1>7, <1>8, <1>9, <1>10
     DEF Next, ChannelStep, RouterStep
-----------------------------------------------------------------------------
(* The strengthened invariant: besides the types, what the buffers and the *)
(* unsent updates hold, which NoOwnEntry rests on.                         *)
THEOREM Inductive == Spec => []IInv
BY InitIInv, NextIInv, PTL DEF Spec

(* Every variable of a router, of send_mospf_lsu and of the links between  *)
(* routers keeps its type, the sequence number its 16 bits.                *)
THEOREM TypeCorrect == Spec => []TypeOK
<1>1. IInv => TypeOK
  BY DEF IInv, TypeOK
<1> QED
  BY <1>1, Inductive, PTL

(* No router ever stores an update of its own, restarts included.          *)
THEOREM NeverOwn == Spec => []NoOwnEntry
<1>1. IInv => NoOwnEntry
  BY DEF IInv
<1> QED
  BY <1>1, Inductive, PTL

(* The database never has two entries for one router.                      *)
THEOREM OneEntry == Spec => []OneEntryPerOrigin
<1>1. Init => OneEntryPerOrigin
  BY DEF Init, OneEntryPerOrigin
<1>2. IInv /\ OneEntryPerOrigin /\ [Next]_vars => OneEntryPerOrigin'
  <2> SUFFICES ASSUME IInv, OneEntryPerOrigin, [Next]_vars
               PROVE  OneEntryPerOrigin'
    OBVIOUS
  <2> USE DEF IInv
  <2>1. ASSUME NEW c \in Channel, Learn(c)
        PROVE  OneEntryPerOrigin'
    <3>1. c[2] \in Router
      BY ChannelType
    <3>2. db' = [db EXCEPT ![c[2]] =
                   {e \in @ : e.rid # Head(wire[c]).rid} \cup {Head(wire[c])}]
      BY <2>1 DEF Learn
    <3> QED
      BY <3>1, <3>2 DEF OneEntryPerOrigin
  <2>2. ASSUME NEW r \in Router, NEW E \in SUBSET db[r], CheckDb(r, E)
        PROVE  OneEntryPerOrigin'
    BY <2>2 DEF CheckDb, OneEntryPerOrigin
  <2>3. ASSUME NEW r \in Router, Crash(r)
        PROVE  OneEntryPerOrigin'
    BY <2>3 DEF Crash, OneEntryPerOrigin
  <2>4. CASE UNCHANGED db
    BY <2>4 DEF OneEntryPerOrigin
  <2> QED
    BY <2>1, <2>2, <2>3, <2>4
       DEF Next, ChannelStep, RouterStep, HearHello, Ignore, LoseFrame,
           CheckNbr, LsuTimer, Broadcast, Restart, vars
<1> QED
  BY <1>1, <1>2, Inductive, PTL DEF Spec
-----------------------------------------------------------------------------
(* Everything on its way or stored was announced, and a router that runs   *)
(* has counted past all it announced.                                      *)
Sent ==
    /\ \A c \in Channel : wire[c] \in Seq(said)
    /\ \A r \in Router, t \in Thread : out[r][t] \subseteq said
    /\ \A r \in Router : db[r] \subseteq said

Counted == \A m \in said : m.rid \in on => m.seq < seq[m.rid]

HInv == IInv /\ said \subseteq Lsu /\ Sent /\ Counted

(* Flooding one of S among S, and reading.                                 *)
LEMMA FloodIn ==
    ASSUME NEW S, NEW net, NEW m \in S, NEW r, NEW ns, NEW c \in Channel,
           net[c] \in Seq(S)
    PROVE  Flood(net, m, r, ns)[c] \in Seq(S)
<1>1. Append(net[c], m) \in Seq(S)
  BY AppendProperties
<1> QED
  BY <1>1 DEF Flood

LEMMA ReadIn ==
    ASSUME NEW S, NEW c \in Channel, NEW d \in Channel, wire[c] # <<>>,
           wire \in [Channel -> Seq(Lsu)],
           wire[c] \in Seq(S), wire[d] \in Seq(S)
    PROVE  /\ Head(wire[c]) \in S
           /\ [wire EXCEPT ![c] = Tail(@)][d] \in Seq(S)
BY TailType

(* More may have been announced.                                           *)
LEMMA SeqGrows ==
    ASSUME NEW S, NEW T, S \subseteq T, NEW s \in Seq(S)
    PROVE  s \in Seq(T)
BY SeqDef

(* A step that counts for r and no other: what it announces is new.        *)
LEMMA Announces ==
    ASSUME HInv, HNext, NEW r \in on, on' = on,
           seq' = [seq EXCEPT ![r] = NextSeq(@)]
    PROVE  /\ Announced = {[rid |-> r, seq |-> seq[r], links |-> nbrs'[r]]}
           /\ \A e \in said : e.rid = r => e.seq < seq[r]
           /\ nbrs' \in [Router -> SUBSET (Router \X Net)] =>
                 Announced \subseteq Lsu
           /\ Counted'
<1> DEFINE m == [rid |-> r, seq |-> seq[r], links |-> nbrs'[r]]
<1>1. r \in Router /\ seq \in [Router -> Seqs] /\ on \subseteq Router
  BY DEF HInv, IInv
<1>2. seq'[r] = NextSeq(seq[r]) /\ seq'[r] >= seq[r]
  BY <1>1 DEF HNext
<1>3. seq[r] \in Nat /\ seq'[r] = seq[r] + 1
  BY <1>1, <1>2, NextSeqType DEF Seqs
<1>4. {q \in on' : seq'[q] # seq[q]} = {r}
  BY <1>1, <1>3
<1>5. Announced = {m}
  BY <1>4 DEF Announced
<1>6. \A e \in said : e.rid = r => e.seq < seq[r]
  BY DEF HInv, Counted
<1>7. nbrs' \in [Router -> SUBSET (Router \X Net)] => m \in Lsu
  BY <1>1 DEF Lsu
<1>8. Counted'
  <2> SUFFICES ASSUME NEW e \in said', e.rid \in on
               PROVE  e.seq < seq'[e.rid]
    BY DEF Counted
  <2>1. CASE e = m
    BY <1>3, <2>1
  <2>2. CASE e \in said
    <3>1. e.seq < seq[e.rid] /\ e.seq \in Seqs /\ e.rid \in Router
      BY <2>2 DEF HInv, Counted, Lsu
    <3>2. CASE e.rid = r
      BY <1>1, <1>3, <3>1, <3>2 DEF Seqs
    <3>3. CASE e.rid # r
      BY <1>1, <3>1, <3>3
    <3> QED
      BY <3>2, <3>3
  <2> QED
    BY <1>5, <2>1, <2>2 DEF HNext
<1> QED
  BY <1>5, <1>6, <1>7, <1>8

(* A step that counts for none: nothing is announced.                      *)
LEMMA Silent ==
    ASSUME HInv, HNext, \A q \in on' : seq'[q] = seq[q]
    PROVE  said' = said /\ Counted'
<1>1. Announced = {}
  BY DEF Announced
<1>2. said' = said /\ on' \subseteq on
  BY <1>1 DEF HNext
<1> QED
  BY <1>2 DEF HInv, Counted

LEMMA InitHInv == HInit => HInv
<1> SUFFICES ASSUME HInit PROVE HInv
  OBVIOUS
<1>1. IInv
  BY InitIInv DEF HInit
<1>2. Sent
  BY EmptySeq DEF HInit, Init, Sent
<1> QED
  BY <1>1, <1>2 DEF HInit, HInv, Counted

(* One step keeps HInv, and is a step of MospfDb or none of its business.  *)
LEMMA NextHInv ==
    HInv /\ [HNext]_hvars => HInv' /\ [Db!Next]_<<said, db>>
<1> SUFFICES ASSUME HInv, [HNext]_hvars
             PROVE  HInv' /\ [Db!Next]_<<said, db>>
  OBVIOUS
<1>0. CASE UNCHANGED hvars
  BY <1>0 DEF hvars, vars, HInv, IInv, Sent, Counted, NoOwnEntry
<1> SUFFICES ASSUME HNext
             PROVE  HInv' /\ [Db!Next]_<<said, db>>
  BY <1>0
<1> USE DEF HInv, IInv
<1>i. IInv'
  BY NextIInv DEF HNext
<1>s. said \subseteq said'
  BY DEF HNext
<1>1. ASSUME NEW r \in on, on' = on, seq' = [seq EXCEPT ![r] = NextSeq(@)],
             UNCHANGED db, Sent'
      PROVE  HInv' /\ [Db!Next]_<<said, db>>
  <2> DEFINE m == [rid |-> r, seq |-> seq[r], links |-> nbrs'[r]]
  <2>1. /\ Announced = {m} /\ Announced \subseteq Lsu /\ Counted'
        /\ \A e \in said : e.rid = r => e.seq < seq[r]
    BY <1>1, <1>i, Announces
  <2>2. m \in Lsu /\ said' = said \cup {m} /\ m.rid = r /\ m.seq = seq[r]
    BY <2>1 DEF HNext
  <2> HIDE DEF m
  <2>3. Db!Announce(m)
    BY <1>1, <2>1, <2>2 DEF Db!Announce
  <2>4. Db!Next
    BY <2>2, <2>3 DEF Db!Next
  <2> QED
    BY <1>1, <1>i, <2>1, <2>2, <2>4
<1>2. ASSUME NEW c \in Channel, HearHello(c)
      PROVE  HInv' /\ [Db!Next]_<<said, db>>
  <2> DEFINE r == c[2]
             ns == nbrs[r] \cup {<<c[1], c[3]>>}
             m == LsuOf(r, ns)
  <2>1. r \in on /\ r \in Router
    BY <1>2, ChannelType DEF HearHello
  <2>2. /\ nbrs' = [nbrs EXCEPT ![r] = ns]
        /\ seq' = [seq EXCEPT ![r] = NextSeq(@)]
        /\ wire' = Flood(wire, m, r, ns) /\ UNCHANGED <<on, db, out>>
    BY <1>2 DEF HearHello
  <2>3. m \in said'
    <3>1. Announced = {[rid |-> r, seq |-> seq[r], links |-> nbrs'[r]]}
      BY <2>1, <2>2, Announces
    <3> QED
      BY <2>1, <2>2, <3>1 DEF HNext, LsuOf
  <2> HIDE DEF m, ns
  <2>4. ASSUME NEW d \in Channel
        PROVE  wire'[d] \in Seq(said')
    <3>1. wire[d] \in Seq(said')
      BY <1>s, SeqGrows DEF Sent
    <3> QED
      BY <2>2, <2>3, <3>1, FloodIn
  <2>5. Sent'
    BY <1>s, <2>2, <2>4 DEF Sent
  <2> QED
    BY <1>1, <2>1, <2>2, <2>5
<1>3. ASSUME NEW r \in Router, r \in on, NEW t \in Thread,
             NEW ns \in SUBSET nbrs[r], Pend(r, t, ns),
             nbrs'[r] = ns, UNCHANGED <<on, db, wire>>
      PROVE  HInv' /\ [Db!Next]_<<said, db>>
  <2> DEFINE m == LsuOf(r, ns)
  <2>1. /\ seq' = [seq EXCEPT ![r] = NextSeq(@)]
        /\ out' = [out EXCEPT ![r] = [out[r] EXCEPT ![t] = {m}]]
    BY <1>3 DEF Pend
  <2>2. m \in said'
    <3>1. Announced = {[rid |-> r, seq |-> seq[r], links |-> nbrs'[r]]}
      BY <1>3, <2>1, Announces
    <3> QED
      BY <1>3, <3>1 DEF HNext, LsuOf
  <2> HIDE DEF m
  <2>3. \A q \in Router, u \in Thread : out'[q][u] \subseteq said'
    BY <1>s, <2>1, <2>2 DEF Sent
  <2>4. \A d \in Channel : wire'[d] \in Seq(said')
    BY <1>3, <1>s, SeqGrows DEF Sent
  <2>5. Sent'
    BY <1>3, <1>s, <2>3, <2>4 DEF Sent
  <2> QED
    BY <1>3, <1>1, <2>1, <2>5
<1>4. ASSUME NEW c \in Channel, Learn(c)
      PROVE  HInv' /\ [Db!Next]_<<said, db>>
  <2> DEFINE r == c[2]
             m == Head(wire[c])
             net == [wire EXCEPT ![c] = Tail(@)]
  <2>1. r \in Router /\ wire[c] # <<>> /\ ~Superseded(r, m)
    BY <1>4, ChannelType DEF Learn
  <2>2. /\ db' = [db EXCEPT ![r] = {e \in @ : e.rid # m.rid} \cup {m}]
        /\ wire' = Flood(net, m, r, nbrs[r]) /\ UNCHANGED <<on, nbrs, seq, out>>
    BY <1>4 DEF Learn
  <2>3. said' = said /\ Counted'
    BY <2>2, Silent
  <2>4. m \in said /\ m \in Allowed(c)
    BY <2>1, ReadIn, ReadType DEF Sent
  <2>5. ASSUME NEW d \in Channel
        PROVE  wire'[d] \in Seq(said)
    <3>1. net[d] \in Seq(said)
      BY <2>1, ReadIn DEF Sent
    <3> HIDE DEF net, m
    <3> QED
      BY <2>2, <2>4, <3>1, FloodIn
  <2>6. m \in Lsu /\ m.rid # r
    BY <2>4 DEF Allowed
  <2> HIDE DEF m, net, r
  <2>7. Sent'
    BY <2>1, <2>2, <2>3, <2>4, <2>5 DEF Sent
  <2>8. \A e \in db[r] : e.rid = m.rid => e.seq < m.seq
    <3> SUFFICES ASSUME NEW e \in db[r], e.rid = m.rid
                 PROVE  e.seq < m.seq
      OBVIOUS
    <3>1. e \in Lsu
      BY <2>1
    <3>2. e.seq \in Nat /\ m.seq \in Nat
      BY <2>6, <3>1, MospfAssumption DEF Lsu, Seqs
    <3>3. ~(e.seq >= m.seq)
      BY <2>1 DEF Superseded
    <3> QED
      BY <3>2, <3>3
  <2>9. Db!Learn(r, m)
    BY <2>2, <2>3, <2>6, <2>8 DEF Db!Learn
  <2> QED
    BY <1>i, <2>1, <2>3, <2>4, <2>7, <2>9 DEF Db!Next
<1>5. ASSUME NEW c \in Channel, Ignore(c) \/ LoseFrame(c)
      PROVE  HInv' /\ [Db!Next]_<<said, db>>
  <2>1. /\ wire[c] # <<>> /\ wire' = [wire EXCEPT ![c] = Tail(@)]
        /\ UNCHANGED <<on, nbrs, seq, db, out>>
    BY <1>5 DEF Ignore, LoseFrame
  <2>2. said' = said /\ Counted'
    BY <2>1, Silent
  <2>3. \A d \in Channel : wire'[d] \in Seq(said)
    BY <2>1, ReadIn DEF Sent
  <2>4. Sent'
    BY <2>1, <2>2, <2>3 DEF Sent
  <2> QED
    BY <1>i, <2>1, <2>2, <2>4
<1>6. ASSUME NEW r \in Router, NEW t \in Thread, Broadcast(r, t)
      PROVE  HInv' /\ [Db!Next]_<<said, db>>
  <2>1. PICK m \in out[r][t] : wire' = Flood(wire, m, r, nbrs[r])
    BY <1>6 DEF Broadcast
  <2>2. /\ out' = [out EXCEPT ![r] = [out[r] EXCEPT ![t] = {}]]
        /\ UNCHANGED <<on, nbrs, seq, db>>
    BY <1>6 DEF Broadcast
  <2>3. said' = said /\ Counted'
    BY <2>2, Silent
  <2>4. m \in said
    BY <2>1 DEF Sent
  <2>5. \A d \in Channel : wire'[d] \in Seq(said)
    BY <2>1, <2>4, FloodIn DEF Sent
  <2>6. \A q \in Router, u \in Thread : out'[q][u] \subseteq said
    BY <2>2 DEF Sent
  <2>7. Sent'
    BY <2>2, <2>3, <2>5, <2>6 DEF Sent
  <2> QED
    BY <1>i, <2>2, <2>3, <2>7
<1>7. ASSUME NEW r \in Router, NEW E \in SUBSET db[r], CheckDb(r, E)
      PROVE  HInv' /\ [Db!Next]_<<said, db>>
  <2>1. db' = [db EXCEPT ![r] = @ \ E] /\ UNCHANGED <<on, nbrs, seq, out, wire>>
    BY <1>7 DEF CheckDb
  <2>2. said' = said /\ Counted'
    BY <2>1, Silent
  <2>3. Sent'
    BY <2>1, <2>2 DEF Sent
  <2>4. Db!Forget(r, E)
    BY <2>1, <2>2 DEF Db!Forget
  <2> QED
    BY <1>i, <2>2, <2>3, <2>4 DEF Db!Next
<1>8. ASSUME NEW r \in Router, Crash(r)
      PROVE  HInv' /\ [Db!Next]_<<said, db>>
  <2>1. /\ on' = on \ {r}
        /\ seq' = [seq EXCEPT ![r] = 0]
        /\ db' = [db EXCEPT ![r] = {}]
        /\ out' = [out EXCEPT ![r] = [t \in Thread |-> {}]]
        /\ wire' = [c \in Channel |-> IF c[2] = r THEN <<>> ELSE wire[c]]
    BY <1>8 DEF Crash
  <2>2. \A q \in on' : seq'[q] = seq[q]
    BY <2>1
  <2>3. said' = said /\ Counted'
    BY <2>2, Silent
  <2>4. \A d \in Channel : wire'[d] \in Seq(said)
    BY <2>1, EmptySeq DEF Sent
  <2>5. \A q \in Router, u \in Thread : out'[q][u] \subseteq said
    BY <2>1 DEF Sent
  <2>6. Sent'
    BY <2>1, <2>3, <2>4, <2>5 DEF Sent
  <2>7. db' = [db EXCEPT ![r] = @ \ db[r]]
    BY <2>1
  <2>8. Db!Forget(r, db[r])
    BY <2>3, <2>7 DEF Db!Forget
  <2> QED
    BY <1>i, <2>3, <2>6, <2>8 DEF Db!Next
<1>9. ASSUME NEW r \in Router, Restart(r)
      PROVE  FALSE
  BY <1>9 DEF Restart, HNext
<1>10. ASSUME NEW r \in Router, NEW D \in SUBSET nbrs[r], CheckNbr(r, D)
       PROVE  HInv' /\ [Db!Next]_<<said, db>>
  <2>1. nbrs'[r] = nbrs[r] \ D /\ "nbr" \in Thread
    BY <1>10 DEF CheckNbr, Thread
  <2> QED
    BY <1>3, <1>10, <2>1 DEF CheckNbr
<1>11. ASSUME NEW r \in Router, LsuTimer(r)
       PROVE  HInv' /\ [Db!Next]_<<said, db>>
  <2>1. nbrs'[r] = nbrs[r] /\ "lsu" \in Thread
    BY <1>11 DEF LsuTimer, Thread
  <2> QED
    BY <1>3, <1>11, <2>1 DEF LsuTimer
<1> QED
  BY <1>2, <1>4, <1>5, <1>6, <1>7, <1>8, <1>9, <1>10, <1>11
     DEF HNext, Next, ChannelStep, RouterStep

(* Flooding implements MospfDb while numbers count up: a router holds only *)
(* what was announced, and newer replaces older, never the reverse.        *)
THEOREM FloodingIsOrdered == HSpec => ImplementsDb
<1>1. HInit => Db!Init
  BY DEF HInit, Init, Db!Init
<1> QED
  BY <1>1, InitHInv, NextHInv, PTL DEF HSpec, ImplementsDb, Db!Spec
=============================================================================
