-------------------------- MODULE LinkedListProofs --------------------------
(***************************************************************************)
(* The operations of list.h do to the list what their names say, and what  *)
(* list_empty tells of a node that was taken out of its list.              *)
(***************************************************************************)
EXTENDS LinkedList, TLAPS

(* init_list_head makes an empty list.                                     *)
THEOREM InitHolds ==
    ASSUME NEW h \in Memory, NEW head \in Node
    PROVE  Holds(init_list_head(h, head), head, <<>>)
BY DEF Holds, init_list_head, Memory, At

(* list_empty of a head is true just when its list has no entry.           *)
THEOREM EmptyHolds ==
    ASSUME NEW h, NEW head, NEW s, Holds(h, head, s)
    PROVE  list_empty(h, head) <=> s = <<>>
<1>1. h.next[head] = At(head, s, 1) /\ Len(s) \in Nat
  BY DEF Holds, At
<1>2. CASE s = <<>>
  BY <1>1, <1>2 DEF At, list_empty
<1>3. CASE s # <<>>
  BY <1>1, <1>3 DEF At, list_empty, Holds
<1> QED BY <1>2, <1>3

(* list_add_tail puts the node after all entries.                          *)
THEOREM AddTailHolds ==
    ASSUME NEW h, NEW head, NEW s, NEW new \in Node \ {head}, Holds(h, head, s),
           \A i \in 1..Len(s) : s[i] # new
    PROVE  Holds(list_add_tail(h, new, head), head, Append(s, new))
<1> DEFINE n == Len(s)
           t == Append(s, new)
           g == list_add_tail(h, new, head)
           last == At(head, s, n)
<1>1. /\ n \in Nat /\ t \in Seq(Node \ {head}) /\ Len(t) = n + 1
      /\ \A i \in 1..n : t[i] = s[i]
      /\ t[n + 1] = new
  BY DEF Holds
<1>2. /\ h.prev[head] = last /\ last \in Node /\ head \in Node /\ last # new
      /\ h.next \in [Node -> Node] /\ h.prev \in [Node -> Node]
  BY <1>1 DEF Holds, At, Memory
<1>3. /\ g.next = [h.next EXCEPT ![last] = new, ![new] = head]
      /\ g.prev = [h.prev EXCEPT ![head] = new, ![new] = last]
  BY <1>2 DEF list_add_tail, list_insert
<1>4. g \in Memory
  BY <1>2, <1>3 DEF Memory, list_add_tail, list_insert
<1>5. \A i, k \in 1..Len(t) : t[i] = t[k] => i = k
  <2> TAKE i, k \in 1..Len(t)
  <2> HAVE t[i] = t[k]
  <2>1. CASE i = n + 1 \/ k = n + 1
    BY <2>1, <1>1
  <2>2. CASE i \in 1..n /\ k \in 1..n
    BY <2>2, <1>1 DEF Holds
  <2> QED BY <2>1, <2>2, <1>1
<1>6. /\ \A i \in 0..n : At(head, t, i) = At(head, s, i)
      /\ At(head, t, n + 1) = new /\ At(head, t, n + 2) = head
  BY <1>1 DEF At
<1>7. ASSUME NEW i \in 0..(n + 1)
      PROVE  /\ g.next[At(head, t, i)] = At(head, t, i + 1)
             /\ g.prev[At(head, t, i + 1)] = At(head, t, i)
  <2>1. CASE i = n + 1
    BY <2>1, <1>1, <1>2, <1>3, <1>6
  <2>2. CASE i = n
    <3>1. At(head, t, i) = last /\ At(head, t, i + 1) = new
      BY <2>2, <1>1, <1>6
    <3> QED BY <3>1, <1>2, <1>3
  <2>3. CASE i < n
    <3>1. At(head, t, i) = At(head, s, i) /\ At(head, t, i + 1) = s[i + 1]
      BY <2>3, <1>1, <1>6 DEF At
    <3>2. At(head, s, i) # last
      BY <2>3, <1>1 DEF Holds, At
    <3>3. At(head, s, i) \in Node /\ At(head, s, i) # new
      BY <1>1, <1>2 DEF Holds, At
    <3>4. s[i + 1] \in Node /\ s[i + 1] # head /\ s[i + 1] # new
      BY <2>3, <1>1 DEF Holds
    <3>5. h.next[At(head, s, i)] = s[i + 1] /\ h.prev[s[i + 1]] = At(head, s, i)
      BY <2>3, <1>1 DEF Holds, At
    <3> QED BY <3>1, <3>2, <3>3, <3>4, <3>5, <1>2, <1>3
  <2> QED BY <2>1, <2>2, <2>3, <1>1
<1>8. SUFFICES Holds(g, head, t)
  OBVIOUS
<1> HIDE DEF g, t
<1> QED BY <1>1, <1>2, <1>4, <1>5, <1>7 DEF Holds

(* list_add_head puts it before them.                                      *)
THEOREM AddHeadHolds ==
    ASSUME NEW h, NEW head, NEW s, NEW new \in Node \ {head}, Holds(h, head, s),
           \A i \in 1..Len(s) : s[i] # new
    PROVE  Holds(list_add_head(h, new, head), head, <<new>> \o s)
<1> DEFINE n == Len(s)
           t == <<new>> \o s
           g == list_add_head(h, new, head)
           first == At(head, s, 1)
<1>1. /\ n \in Nat /\ t \in Seq(Node \ {head}) /\ Len(t) = n + 1
      /\ \A i \in 1..n : t[i + 1] = s[i]
      /\ t[1] = new
  BY DEF Holds
<1>2. /\ h.next[head] = first /\ first \in Node /\ head \in Node /\ first # new
      /\ h.next \in [Node -> Node] /\ h.prev \in [Node -> Node]
  BY <1>1 DEF Holds, At, Memory
<1>3. /\ g.next = [h.next EXCEPT ![head] = new, ![new] = first]
      /\ g.prev = [h.prev EXCEPT ![first] = new, ![new] = head]
  BY <1>2 DEF list_add_head, list_insert
<1>4. g \in Memory
  BY <1>2, <1>3 DEF Memory, list_add_head, list_insert
<1>5. \A i, k \in 1..Len(t) : t[i] = t[k] => i = k
  <2> TAKE i, k \in 1..Len(t)
  <2> HAVE t[i] = t[k]
  <2>0. /\ i # 1 => i - 1 \in 1..n /\ t[i] = s[i - 1]
        /\ k # 1 => k - 1 \in 1..n /\ t[k] = s[k - 1]
    BY <1>1
  <2>1. CASE i = 1 \/ k = 1
    BY <2>0, <2>1, <1>1
  <2>2. CASE i # 1 /\ k # 1
    BY <2>0, <2>2, <1>1 DEF Holds
  <2> QED BY <2>1, <2>2
<1>6. /\ At(head, t, 0) = head /\ At(head, t, 1) = new
      /\ \A i \in 1..(n + 1) : At(head, t, i + 1) = At(head, s, i)
  <2>1. ASSUME NEW i \in 1..(n + 1) PROVE At(head, t, i + 1) = At(head, s, i)
    BY <1>1 DEF At
  <2> QED BY <2>1, <1>1 DEF At
<1>7. ASSUME NEW i \in 0..(n + 1)
      PROVE  /\ g.next[At(head, t, i)] = At(head, t, i + 1)
             /\ g.prev[At(head, t, i + 1)] = At(head, t, i)
  <2>1. CASE i = 0
    BY <2>1, <1>1, <1>2, <1>3, <1>6
  <2>2. CASE i = 1
    <3>1. At(head, t, i) = new /\ At(head, t, i + 1) = first
      BY <2>2, <1>1, <1>6
    <3> QED BY <3>1, <1>2, <1>3
  <2>3. CASE i > 1
    <3>1. At(head, t, i) = s[i - 1] /\ At(head, t, i + 1) = At(head, s, i)
      BY <2>3, <1>1, <1>6 DEF At
    <3>2. At(head, s, i) # first
      BY <2>3, <1>1 DEF Holds, At
    <3>3. At(head, s, i) \in Node /\ At(head, s, i) # new
      BY <2>3, <1>1, <1>2 DEF Holds, At
    <3>4. s[i - 1] \in Node /\ s[i - 1] # head /\ s[i - 1] # new
      BY <2>3, <1>1 DEF Holds
    <3>5. h.next[s[i - 1]] = At(head, s, i) /\ h.prev[At(head, s, i)] = s[i - 1]
      BY <2>3, <1>1 DEF Holds, At
    <3> QED BY <3>1, <3>2, <3>3, <3>4, <3>5, <1>2, <1>3
  <2> QED BY <2>1, <2>2, <2>3, <1>1
<1>8. SUFFICES Holds(g, head, t)
  OBVIOUS
<1> HIDE DEF g, t
<1> QED BY <1>1, <1>2, <1>4, <1>5, <1>7 DEF Holds

(* An entry and its two neighbours, which are others.                      *)
LEMMA Neighbours ==
    ASSUME NEW h, NEW head, NEW s, Holds(h, head, s), NEW d \in 1..Len(s)
    PROVE  /\ Len(s) \in Nat /\ d \in Int /\ head \in Node /\ s[d] \in Node
           /\ h.next \in [Node -> Node] /\ h.prev \in [Node -> Node]
           /\ h.next[s[d]] = At(head, s, d + 1) /\ h.prev[s[d]] = At(head, s, d - 1)
           /\ At(head, s, d + 1) \in Node \ {s[d]} /\ At(head, s, d - 1) \in Node \ {s[d]}
<1>1. /\ Len(s) \in Nat /\ d \in Int /\ head \in Node /\ s[d] # head
      /\ \A i \in 1..Len(s) : s[i] \in Node
      /\ h.next \in [Node -> Node] /\ h.prev \in [Node -> Node]
  BY DEF Holds, Memory
<1>2. At(head, s, d) = s[d] /\ (d - 1) + 1 = d /\ d \in 0..Len(s) /\ d - 1 \in 0..Len(s)
  BY <1>1 DEF At
<1>3. h.next[s[d]] = At(head, s, d + 1) /\ h.prev[s[d]] = At(head, s, d - 1)
  BY <1>2 DEF Holds
<1>4. At(head, s, d + 1) \in Node \ {s[d]} /\ At(head, s, d - 1) \in Node \ {s[d]}
  BY <1>1 DEF Holds, At
<1> QED BY <1>1, <1>3, <1>4

(* list_delete_entry takes an entry out of its list, wherever it is.       *)
THEOREM DeleteHolds ==
    ASSUME NEW h, NEW head, NEW s, Holds(h, head, s), NEW d \in 1..Len(s)
    PROVE  Holds(list_delete_entry(h, s[d]), head, [i \in 1..(Len(s) - 1) |->
                                                     IF i < d THEN s[i] ELSE s[i + 1]])
<1> DEFINE n == Len(s)
           t == [i \in 1..(Len(s) - 1) |-> IF i < d THEN s[i] ELSE s[i + 1]]
           g == list_delete_entry(h, s[d])
           before == At(head, s, d - 1)
           after == At(head, s, d + 1)
<1>1. /\ n \in Nat /\ t \in Seq(Node \ {head}) /\ Len(t) = n - 1
      /\ \A i \in 1..n : s[i] \in Node /\ s[i] # head
      /\ d \in Int
  BY DEF Holds
<1>2. /\ h.next[s[d]] = after /\ h.prev[s[d]] = before
      /\ before \in Node /\ after \in Node /\ before # s[d] /\ after # s[d]
      /\ h.next \in [Node -> Node] /\ h.prev \in [Node -> Node] /\ head \in Node
  BY <1>1, Neighbours
<1>3. /\ g.next = [h.next EXCEPT ![before] = after]
      /\ g.prev = [h.prev EXCEPT ![after] = before]
  BY <1>1, <1>2 DEF list_delete_entry
<1>4. g \in Memory
  BY <1>2, <1>3 DEF Memory, list_delete_entry
<1>5. \A i, k \in 1..Len(t) : t[i] = t[k] => i = k
  <2> TAKE i, k \in 1..Len(t)
  <2> HAVE t[i] = t[k]
  <2> DEFINE was(j) == IF j < d THEN j ELSE j + 1
  <2>1. ASSUME NEW j \in 1..Len(t) PROVE was(j) \in 1..n /\ t[j] = s[was(j)]
    BY <1>1
  <2>2. was(i) = was(k)
    <3>1. s[was(i)] = s[was(k)] /\ was(i) \in 1..n /\ was(k) \in 1..n
      BY <2>1
    <3> HIDE DEF was
    <3> QED BY <3>1 DEF Holds
  <2> QED BY <2>2, <1>1
<1>6. ASSUME NEW i \in 0..n
      PROVE  At(head, t, i) = IF i < d THEN At(head, s, i) ELSE At(head, s, i + 1)
  BY <1>1 DEF At
<1>7. ASSUME NEW i \in 0..n, NEW k \in 1..(n + 1), i # k, ~(i = 0 /\ k = n + 1)
      PROVE  At(head, s, i) # At(head, s, k)
  BY <1>1, <1>7 DEF Holds, At
<1>8. ASSUME NEW i \in 0..(n - 1)
      PROVE  /\ g.next[At(head, t, i)] = At(head, t, i + 1)
             /\ g.prev[At(head, t, i + 1)] = At(head, t, i)
  <2>1. /\ At(head, t, i) = IF i < d THEN At(head, s, i) ELSE At(head, s, i + 1)
        /\ At(head, t, i + 1) = IF i + 1 < d THEN At(head, s, i + 1) ELSE At(head, s, i + 2)
    BY <1>6, <1>1
  <2>2. CASE i = d - 1
    BY <2>1, <2>2, <1>1, <1>2, <1>3
  <2>3. CASE i < d - 1
    <3>1. At(head, t, i) = At(head, s, i) /\ At(head, t, i + 1) = At(head, s, i + 1)
      BY <2>1, <2>3, <1>1
    <3>2. At(head, s, i) # before
      BY <1>7, <2>3, <1>1
    <3>3. At(head, s, i + 1) # after
      BY <1>7, <2>3, <1>1
    <3>4. /\ At(head, s, i) \in Node /\ At(head, s, i + 1) \in Node
          /\ h.next[At(head, s, i)] = At(head, s, i + 1)
          /\ h.prev[At(head, s, i + 1)] = At(head, s, i)
      BY <1>1, <1>2 DEF Holds, At
    <3> QED BY <3>1, <3>2, <3>3, <3>4, <1>2, <1>3
  <2>4. CASE i > d - 1
    <3>1. At(head, t, i) = At(head, s, i + 1) /\ At(head, t, i + 1) = At(head, s, i + 2)
      BY <2>1, <2>4, <1>1
    <3>2. At(head, s, i + 1) # before
      BY <1>7, <2>4, <1>1
    <3>3. At(head, s, i + 2) # after
      BY <1>7, <2>4, <1>1
    <3>4. /\ At(head, s, i + 1) \in Node /\ At(head, s, i + 2) \in Node
          /\ h.next[At(head, s, i + 1)] = At(head, s, i + 2)
          /\ h.prev[At(head, s, i + 2)] = At(head, s, i + 1)
      BY <2>4, <1>1, <1>2 DEF Holds, At
    <3> QED BY <3>1, <3>2, <3>3, <3>4, <1>2, <1>3
  <2> QED BY <2>2, <2>3, <2>4, <1>1
<1>9. SUFFICES Holds(g, head, t)
  OBVIOUS
<1> HIDE DEF g, t
<1> QED BY <1>1, <1>2, <1>4, <1>5, <1>8 DEF Holds

(* The node that was taken out still points into the list: list_empty says *)
(* that it is in one.                                                      *)
THEOREM DeletedNotEmpty ==
    ASSUME NEW h, NEW head, NEW s, Holds(h, head, s), NEW d \in 1..Len(s)
    PROVE  ~list_empty(list_delete_entry(h, s[d]), s[d])
<1> DEFINE before == At(head, s, d - 1)
           after == At(head, s, d + 1)
<1>1. /\ h.next[s[d]] = after /\ h.prev[s[d]] = before
      /\ before # s[d] /\ after # s[d] /\ s[d] \in Node
      /\ h.next \in [Node -> Node] /\ h.prev \in [Node -> Node]
  BY Neighbours
<1>2. list_delete_entry(h, s[d]).next = [h.next EXCEPT ![before] = after]
  BY <1>1 DEF list_delete_entry
<1> QED BY <1>1, <1>2 DEF list_empty
=============================================================================
