----------------------------- MODULE NatProofs -----------------------------
(***************************************************************************)
(* What TLAPS proves of Nat, for every pool, table and hash function: a    *)
(* connection keeps its translation, and the port pool and the mapping     *)
(* table agree.  Nothing is assumed of the dnat rules: they may name ports *)
(* of the pool.                                                            *)
(***************************************************************************)
EXTENDS Nat, TLAPS

(* The inductive invariant.                                                *)
NatInv == TypeOK /\ PoolAccurate /\ AnswersReachSender

(* Counting a packet leaves the translation of a mapping alone.            *)
LEMMA CountKeeps ==
    ASSUME NEW m \in Mapping, NEW pkt \in Packet
    PROVE  /\ CountIn(m, pkt) \in Mapping /\ CountOut(m, pkt) \in Mapping
           /\ CountIn(m, pkt).bucket = m.bucket /\ CountOut(m, pkt).bucket = m.bucket
           /\ CountIn(m, pkt).int = m.int /\ CountOut(m, pkt).int = m.int
           /\ CountIn(m, pkt).ext = m.ext /\ CountOut(m, pkt).ext = m.ext
<1>1. pkt.seq \in Seqs /\ pkt.ack \in Seqs
  BY DEF Packet
<1>2. \A a, b \in Seqs : Larger(a, b) \in Seqs
  BY DEF Larger
<1>3. m.eseq \in Seqs /\ m.iseq \in Seqs /\ m.eack \in Seqs /\ m.iack \in Seqs /\ m.ifin \in BOOLEAN
  BY DEF Mapping
<1> DEFINE fin == pkt.flags = "FIN"
           isAck == pkt.flags = "ACK"
           es == Larger(m.eseq, pkt.seq)
           is == Larger(m.iseq, pkt.seq)
           ea == IF isAck THEN Larger(m.eack, pkt.ack) ELSE m.eack
           ia == IF isAck THEN Larger(m.iack, pkt.ack) ELSE m.iack
           ifin == m.ifin \/ fin
<1>4. es \in Seqs /\ is \in Seqs /\ ea \in Seqs /\ ia \in Seqs
  BY <1>1, <1>2, <1>3
<1>5. fin \in BOOLEAN /\ ifin \in BOOLEAN
  BY <1>3
<1>6. /\ CountIn(m, pkt) = [m EXCEPT !.efin = fin, !.eseq = es, !.eack = ea]
      /\ CountOut(m, pkt) = [m EXCEPT !.ifin = ifin, !.iseq = is, !.iack = ia]
  BY DEF CountIn, CountOut
<1> HIDE DEF fin, isAck, es, is, ea, ia, ifin
<1> QED BY <1>4, <1>5, <1>6 DEF Mapping

LEMMA NewMappingType ==
    ASSUME NEW b \in Buckets, NEW int \in Internal, NEW ext \in Nat
    PROVE  /\ NewMapping(b, int, ext) \in Mapping
           /\ NewMapping(b, int, ext).bucket = b
           /\ NewMapping(b, int, ext).int = int
           /\ NewMapping(b, int, ext).ext = ext
<1>1. 0 \in Seqs /\ 0 \in 0..(Timeout + 1)
  BY NatAssumption DEF Seqs
<1> QED BY <1>1 DEF NewMapping, Mapping

(* A packet of a known connection.                                         *)
LEMMA ReplaceInv ==
    ASSUME NatInv, NEW m \in table, NEW n \in Mapping, UNCHANGED assigned,
           Replace(m, n), n.bucket = m.bucket, n.int = m.int, n.ext = m.ext
    PROVE  NatInv'
<1>1. table' = (table \ {m}) \cup {n} /\ assigned' = assigned
  BY DEF Replace
<1>2. TypeOK'
  BY <1>1 DEF NatInv, TypeOK
<1>3. PoolAccurate'
  BY <1>1 DEF NatInv, PoolAccurate
<1>4. AnswersReachSender'
  BY <1>1 DEF NatInv, AnswersReachSender
<1> QED BY <1>2, <1>3, <1>4 DEF NatInv

(* A packet that makes a mapping.  Nobody uses its port yet, unless the    *)
(* port is shared with a rule or is the 0 of an exhausted pool.            *)
LEMMA AddInv ==
    ASSUME NatInv, NEW n \in Mapping, table' = table \cup {n},
           \/ n.ext \in Pool /\ assigned' = assigned \cup {n.ext}
           \/ n.ext \notin Pool \ Shared /\ assigned' = assigned,
           n.ext \in Pool \ Shared => \A m \in table : m.ext # n.ext,
           n.ext \notin Shared \cup {0} => \A m \in table : m.bucket = n.bucket => m.ext # n.ext
    PROVE  NatInv'
<1>1. TypeOK'
  BY DEF NatInv, TypeOK, Mapping
<1>2. ASSUME NEW p \in Pool \cap assigned' PROVE \E k \in table' : k.ext = p
  <2>1. CASE p = n.ext
    BY <2>1
  <2>2. CASE p # n.ext
    BY <1>2, <2>2 DEF NatInv, PoolAccurate
  <2> QED BY <2>1, <2>2
<1>3. ASSUME NEW k \in table', NEW l \in table', k.ext \in Pool \ Shared
      PROVE  k.ext \in assigned' /\ (k.ext = l.ext => k = l)
  <2>1. CASE k \in table /\ l \in table
    BY <1>3, <2>1 DEF NatInv, PoolAccurate
  <2>2. CASE k = n
    BY <1>3, <2>2 DEF NatInv, PoolAccurate
  <2>3. CASE k \in table /\ l = n
    BY <1>3, <2>3 DEF NatInv, PoolAccurate
  <2> QED BY <2>1, <2>2, <2>3
<1>4. AnswersReachSender'
  BY DEF NatInv, AnswersReachSender
<1> QED BY <1>1, <1>2, <1>3, <1>4 DEF NatInv, PoolAccurate

LEMMA SweepInv ==
    ASSUME NatInv, Sweep
    PROVE  NatInv'
<1>1. /\ table' = {m \in table : ~Expired(m)}
      /\ assigned' = assigned \ {m.ext : m \in {n \in table : Expired(n)}}
  BY DEF Sweep
<1>2. table' \subseteq table /\ assigned' \subseteq assigned
  BY <1>1
<1>3. TypeOK'
  BY <1>2 DEF NatInv, TypeOK
<1>4. PoolAccurate'
  <2>1. \A k : k \in table' <=> k \in table /\ ~Expired(k)
    BY <1>1
  <2>2. ASSUME NEW p \in Pool \cap assigned' PROVE \E k \in table' : k.ext = p
    <3>1. PICK k \in table : k.ext = p
      BY <1>2 DEF NatInv, PoolAccurate
    <3>2. ~Expired(k)
      BY <1>1, <3>1
    <3> QED BY <2>1, <3>1, <3>2
  <2>3. ASSUME NEW k \in table', k.ext \in Pool \ Shared PROVE k.ext \in assigned'
    <3>1. k \in table /\ k.ext \in assigned /\ ~Expired(k)
      BY <2>1, <2>3 DEF NatInv, PoolAccurate
    <3>2. \A m \in table : Expired(m) => m.ext # k.ext
      BY <2>3, <3>1 DEF NatInv, PoolAccurate
    <3> QED BY <1>1, <3>1, <3>2
  <2>4. \A k, l \in table' : k.ext \in Pool \ Shared /\ k.ext = l.ext => k = l
    BY <1>2 DEF NatInv, PoolAccurate
  <2> QED BY <2>2, <2>3, <2>4 DEF PoolAccurate
<1>5. AnswersReachSender'
  BY <1>2 DEF NatInv, AnswersReachSender
<1> QED BY <1>3, <1>4, <1>5 DEF NatInv

(* A second makes a mapping older and leaves its translation alone.        *)
LEMMA AgeKeeps ==
    ASSUME NEW m \in Mapping
    PROVE  /\ [m EXCEPT !.age = Older(@)] \in Mapping
           /\ [m EXCEPT !.age = Older(@)].bucket = m.bucket
           /\ [m EXCEPT !.age = Older(@)].int = m.int
           /\ [m EXCEPT !.age = Older(@)].ext = m.ext
<1>1. m.age \in 0..(Timeout + 1) /\ Timeout \in Nat
  BY NatAssumption DEF Mapping
<1>2. Older(m.age) \in 0..(Timeout + 1)
  BY <1>1 DEF Older
<1> QED BY <1>2 DEF Mapping

LEMMA TickInv ==
    ASSUME NatInv, Tick
    PROVE  NatInv'
<1> DEFINE aged(m) == [m EXCEPT !.age = Older(@)]
<1>1. table' = {aged(m) : m \in table} /\ assigned' = assigned
  BY DEF Tick
<1>2. ASSUME NEW m \in table
      PROVE  /\ aged(m) \in Mapping /\ aged(m).bucket = m.bucket
             /\ aged(m).int = m.int /\ aged(m).ext = m.ext
  <2>1. m \in Mapping
    BY DEF NatInv, TypeOK
  <2> QED BY <2>1, AgeKeeps
<1> HIDE DEF aged
<1>3. TypeOK'
  BY <1>1, <1>2 DEF NatInv, TypeOK
<1>4. PoolAccurate'
  <2>1. \A k \in table' : \E m \in table : k = aged(m) /\ k.ext = m.ext
    BY <1>1, <1>2
  <2>2. \A m \in table : aged(m) \in table' /\ aged(m).ext = m.ext
    BY <1>1, <1>2
  <2>3. ASSUME NEW p \in Pool \cap assigned' PROVE \E k \in table' : k.ext = p
    BY <1>1, <2>2 DEF NatInv, PoolAccurate
  <2>4. ASSUME NEW k \in table', NEW l \in table', k.ext \in Pool \ Shared
        PROVE  k.ext \in assigned' /\ (k.ext = l.ext => k = l)
    <3>1. PICK m \in table : k = aged(m) /\ k.ext = m.ext
      BY <2>1
    <3>2. PICK n \in table : l = aged(n) /\ l.ext = n.ext
      BY <2>1
    <3> QED BY <1>1, <2>4, <3>1, <3>2 DEF NatInv, PoolAccurate
  <2> QED BY <2>3, <2>4 DEF PoolAccurate
<1>5. ASSUME NEW k \in table', NEW l \in table',
             k.bucket = l.bucket, k.ext = l.ext, k.ext \notin Shared \cup {0}
      PROVE  k.int = l.int
  <2>1. PICK m \in table : k.bucket = m.bucket /\ k.int = m.int /\ k.ext = m.ext
    BY <1>1, <1>2
  <2>2. PICK n \in table : l.bucket = n.bucket /\ l.int = n.int /\ l.ext = n.ext
    BY <1>1, <1>2
  <2> QED BY <1>5, <2>1, <2>2 DEF NatInv, AnswersReachSender
<1> QED BY <1>3, <1>4, <1>5 DEF NatInv, AnswersReachSender

LEMMA TranslateInv ==
    ASSUME NatInv, Translate
    PROVE  NatInv'
<1>1. PICK pkt \in Packet, r \in Remote :
        \/ \E int \in Internal : OutKnown(int, r, pkt) \/ OutNew(int, r, pkt)
        \/ \E ext \in Pool \cup DOMAIN Rules \cup {0} :
             InKnown(r, ext, pkt) \/ InRule(r, ext, pkt)
  BY DEF Translate
<1>2. Hash[r] \in Buckets
  BY NatAssumption
<1>3. ASSUME NEW int \in Internal, OutKnown(int, r, pkt) PROVE NatInv'
  <2>1. PICK m \in table : Replace(m, CountOut(m, pkt)) /\ UNCHANGED assigned
    BY <1>3 DEF OutKnown, MatchOut
  <2>2. m \in Mapping
    BY DEF NatInv, TypeOK
  <2> QED BY <2>1, <2>2, CountKeeps, ReplaceInv
<1>4. ASSUME NEW ext \in Pool \cup DOMAIN Rules \cup {0}, InKnown(r, ext, pkt) PROVE NatInv'
  <2>1. PICK m \in table : Replace(m, CountIn(m, pkt)) /\ UNCHANGED assigned
    BY <1>4 DEF InKnown, MatchIn
  <2>2. m \in Mapping
    BY DEF NatInv, TypeOK
  <2> QED BY <2>1, <2>2, CountKeeps, ReplaceInv
<1>5. ASSUME NEW int \in Internal, OutNew(int, r, pkt) PROVE NatInv'
  <2>1. PICK p \in AllocPort :
          /\ table' = table \cup {CountOut(NewMapping(Hash[r], int, p), pkt)}
          /\ assigned' = assigned \cup ({p} \ {0})
    BY <1>5 DEF OutNew
  <2> DEFINE n == CountOut(NewMapping(Hash[r], int, p), pkt)
  <2>2. p = 0 \/ (p \in Pool /\ p \notin assigned /\ p # 0)
    BY NatAssumption DEF AllocPort, FreePorts, Pool
  <2>3. p \in Nat /\ (p = 0 => p \notin Pool)
    BY <2>2, NatAssumption DEF Pool
  <2>4. n \in Mapping /\ n.ext = p
    BY <1>2, <2>3, NewMappingType, CountKeeps
  <2>5. p \in Pool \ Shared => \A m \in table : m.ext # p
    <3>1. \A m \in table : m.ext \in Pool \ Shared => m.ext \in assigned
      BY DEF NatInv, PoolAccurate
    <3>2. p \in Pool => p \notin assigned
      BY <2>2, <2>3
    <3> QED BY <3>1, <3>2
  <2> HIDE DEF n
  <2>6. \/ n.ext \in Pool /\ assigned' = assigned \cup {n.ext}
        \/ n.ext \notin Pool \ Shared /\ assigned' = assigned
    BY <2>1, <2>2, <2>3, <2>4
  <2>7. table' = table \cup {n}
    BY <2>1 DEF n
  <2> QED BY <2>2, <2>4, <2>5, <2>6, <2>7, AddInv
<1>6. ASSUME NEW ext \in Pool \cup DOMAIN Rules \cup {0}, InRule(r, ext, pkt) PROVE NatInv'
  <2> DEFINE n == CountIn(NewMapping(Hash[r], Rules[ext], ext), pkt)
  <2>1. /\ \A m \in table : m.bucket = Hash[r] => m.ext # ext
        /\ ext \in DOMAIN Rules /\ table' = table \cup {n} /\ assigned' = assigned
    BY <1>6 DEF InRule, MatchIn
  <2>2. ext \in Nat /\ ext \notin Pool \ Shared /\ Rules[ext] \in Internal
    BY <2>1, NatAssumption DEF Shared
  <2>3. n \in Mapping /\ n.ext = ext /\ n.bucket = Hash[r]
    BY <1>2, <2>2, NewMappingType, CountKeeps
  <2> HIDE DEF n
  <2> QED BY <2>1, <2>2, <2>3, AddInv
<1> QED BY <1>1, <1>3, <1>4, <1>5, <1>6

(* Every step preserves the invariant.                                     *)
LEMMA NextNatInv ==
    ASSUME NatInv, [Next]_vars
    PROVE  NatInv'
<1>1. CASE UNCHANGED vars
  BY <1>1 DEF vars, NatInv, TypeOK, PoolAccurate, AnswersReachSender
<1> QED BY <1>1, TranslateInv, SweepInv, TickInv DEF Next

LEMMA SpecNatInv == Spec => []NatInv
<1>1. Init => NatInv
  BY DEF Init, NatInv, TypeOK, PoolAccurate, AnswersReachSender
<1>2. NatInv /\ [Next]_vars => NatInv'
  BY NextNatInv
<1> QED BY <1>1, <1>2, PTL DEF Spec

(* A step keeps the types; it keeps each mapping, with its endpoint and    *)
(* its port, in the table, or the sweep found the mapping expired.         *)
LEMMA ReplaceKeeps ==
    ASSUME TypeOK, NEW m \in table, NEW n \in Mapping, UNCHANGED assigned,
           Replace(m, n), n.bucket = m.bucket, n.int = m.int, n.ext = m.ext
    PROVE  TypeOK' /\ \A k \in table : Kept(k)
<1>1. table' = (table \ {m}) \cup {n} /\ assigned' = assigned
  BY DEF Replace
<1> QED BY <1>1 DEF TypeOK, Kept

LEMMA AddKeeps ==
    ASSUME TypeOK, NEW n \in Mapping, table' = table \cup {n},
           assigned' \subseteq assigned \cup {n.ext}
    PROVE  TypeOK' /\ \A k \in table : Kept(k)
  BY DEF TypeOK, Kept, Mapping

LEMMA TranslateKeeps ==
    ASSUME TypeOK, Translate
    PROVE  TypeOK' /\ \A m \in table : Kept(m)
<1> DEFINE Goal == TypeOK' /\ \A m \in table : Kept(m)
<1>1. PICK pkt \in Packet, r \in Remote :
        \/ \E int \in Internal : OutKnown(int, r, pkt) \/ OutNew(int, r, pkt)
        \/ \E ext \in Pool \cup DOMAIN Rules \cup {0} :
             InKnown(r, ext, pkt) \/ InRule(r, ext, pkt)
  BY DEF Translate
<1>2. Hash[r] \in Buckets
  BY NatAssumption
<1>3. ASSUME NEW int \in Internal, OutKnown(int, r, pkt) PROVE Goal
  <2>1. PICK m \in table : Replace(m, CountOut(m, pkt)) /\ UNCHANGED assigned
    BY <1>3 DEF OutKnown, MatchOut
  <2>2. m \in Mapping
    BY DEF TypeOK
  <2> QED BY <2>1, <2>2, CountKeeps, ReplaceKeeps
<1>4. ASSUME NEW ext \in Pool \cup DOMAIN Rules \cup {0}, InKnown(r, ext, pkt) PROVE Goal
  <2>1. PICK m \in table : Replace(m, CountIn(m, pkt)) /\ UNCHANGED assigned
    BY <1>4 DEF InKnown, MatchIn
  <2>2. m \in Mapping
    BY DEF TypeOK
  <2> QED BY <2>1, <2>2, CountKeeps, ReplaceKeeps
<1>5. ASSUME NEW int \in Internal, OutNew(int, r, pkt) PROVE Goal
  <2>1. PICK p \in AllocPort :
          /\ table' = table \cup {CountOut(NewMapping(Hash[r], int, p), pkt)}
          /\ assigned' = assigned \cup ({p} \ {0})
    BY <1>5 DEF OutNew
  <2>2. p \in Nat
    BY NatAssumption DEF AllocPort, FreePorts, Pool
  <2> DEFINE n == CountOut(NewMapping(Hash[r], int, p), pkt)
  <2>3. n \in Mapping /\ n.ext = p
    BY <1>2, <2>2, NewMappingType, CountKeeps
  <2>4. table' = table \cup {n} /\ assigned' \subseteq assigned \cup {p}
    BY <2>1
  <2> HIDE DEF n
  <2> QED BY <2>3, <2>4, AddKeeps
<1>6. ASSUME NEW ext \in Pool \cup DOMAIN Rules \cup {0}, InRule(r, ext, pkt) PROVE Goal
  <2> DEFINE n == CountIn(NewMapping(Hash[r], Rules[ext], ext), pkt)
  <2>1. ext \in DOMAIN Rules /\ table' = table \cup {n} /\ assigned' = assigned
    BY <1>6 DEF InRule
  <2>2. ext \in Nat /\ Rules[ext] \in Internal
    BY <2>1, NatAssumption
  <2>3. n \in Mapping
    BY <1>2, <2>2, NewMappingType, CountKeeps
  <2> HIDE DEF n
  <2> QED BY <2>1, <2>3, AddKeeps
<1> QED BY <1>1, <1>3, <1>4, <1>5, <1>6

LEMMA NextKeeps ==
    ASSUME TypeOK, [Next]_vars
    PROVE  TypeOK' /\ \A m \in table : Expired(m) \/ Kept(m)
<1>1. CASE UNCHANGED vars
  BY <1>1 DEF vars, TypeOK, Kept
<1>2. CASE Sweep
  BY <1>2 DEF Sweep, TypeOK, Kept
<1>3. CASE Tick
  <2> DEFINE aged(m) == [m EXCEPT !.age = Older(@)]
  <2>1. table' = {aged(m) : m \in table} /\ assigned' = assigned
    BY <1>3 DEF Tick
  <2>2. ASSUME NEW m \in table
        PROVE  /\ aged(m) \in Mapping /\ aged(m).bucket = m.bucket
               /\ aged(m).int = m.int /\ aged(m).ext = m.ext
    <3>1. m \in Mapping
      BY DEF TypeOK
    <3> QED BY <3>1, AgeKeeps
  <2> HIDE DEF aged
  <2> QED BY <2>1, <2>2 DEF TypeOK, Kept
<1> QED BY <1>1, <1>2, <1>3, TranslateKeeps DEF Next

(* The table holds mappings and the pool ports, whatever the dnat rules.   *)
THEOREM SpecTypeOK == Spec => []TypeOK
<1>1. Init => TypeOK
  BY DEF Init, TypeOK
<1>2. TypeOK /\ [Next]_vars => TypeOK'
  BY NextKeeps
<1> QED BY <1>1, <1>2, PTL DEF Spec

(* A connection keeps its translation, through packets of both directions, *)
(* other connections and the sweep, until its own mapping has expired.     *)
THEOREM SpecStableTranslation == Spec => StableTranslation
<1>1. ASSUME TypeOK, [Next]_vars
      PROVE  [\A m \in table : Expired(m) \/ Kept(m)]_vars
  BY <1>1, NextKeeps
<1> QED BY <1>1, SpecTypeOK, PTL DEF Spec, StableTranslation

(* Whatever the dnat rules, no pool port stays marked without a mapping,   *)
(* and a pool port that no rule names is marked while a mapping uses it    *)
(* and used by one mapping only.                                           *)
THEOREM SpecPoolAccurate == Spec => []PoolAccurate
<1>1. NatInv => PoolAccurate
  BY DEF NatInv
<1> QED BY <1>1, SpecNatInv, PTL

(* Answers to a port reach the endpoint that uses it, unless the port is   *)
(* one a rule shares with the pool or the 0 of an exhausted pool.          *)
THEOREM SpecAnswersReachSender == Spec => []AnswersReachSender
<1>1. NatInv => AnswersReachSender
  BY DEF NatInv
<1> QED BY <1>1, SpecNatInv, PTL
=============================================================================
