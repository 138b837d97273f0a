----------------------------- MODULE LinkedList -----------------------------
(***************************************************************************)
(* include/list.h, the doubly linked lists that hold every table, queue    *)
(* and buffer of the program: what its operations do to the memory, and    *)
(* which sequence of nodes a list stands for.  The other modules take such *)
(* a list for that sequence.                                               *)
(***************************************************************************)
EXTENDS Integers, Sequences, SequencesExt

CONSTANT Node   \* the struct list_head in memory

Memory == [next : [Node -> Node], prev : [Node -> Node]]

list_empty(h, list) == h.next[list] = list

init_list_head(h, list) ==
    [next |-> [h.next EXCEPT ![list] = list], prev |-> [h.prev EXCEPT ![list] = list]]

(* Four assignments; new is neither of its neighbours.                     *)
list_insert(h, new, prev, next) ==
    [next |-> [h.next EXCEPT ![prev] = new, ![new] = next],
     prev |-> [h.prev EXCEPT ![next] = new, ![new] = prev]]

list_add_head(h, new, head) == list_insert(h, new, head, h.next[head])

list_add_tail(h, new, head) == list_insert(h, new, h.prev[head], head)

(* The second assignment reads what the first may have written, if the     *)
(* entry is linked to itself.                                              *)
list_delete_entry(h, entry) ==
    LET prev == [h.prev EXCEPT ![h.next[entry]] = h.prev[entry]]
    IN [next |-> [h.next EXCEPT ![prev[entry]] = h.next[entry]], prev |-> prev]
-----------------------------------------------------------------------------
(* The nodes on the way round: the head, the entries, the head again.      *)
At(head, s, i) == IF i \in 1..Len(s) THEN s[i] ELSE head

(* The list at head holds the entries s, in this order and once each.      *)
Holds(h, head, s) ==
    /\ h \in Memory /\ head \in Node /\ s \in Seq(Node \ {head})
    /\ \A i, k \in 1..Len(s) : s[i] = s[k] => i = k
    /\ \A i \in 0..Len(s) : /\ h.next[At(head, s, i)] = At(head, s, i + 1)
                            /\ h.prev[At(head, s, i + 1)] = At(head, s, i)
=============================================================================
