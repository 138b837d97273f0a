----------------------------- MODULE RingBuffer -----------------------------
(***************************************************************************)
(* ring_buffer.h: the bytes a TCP sock has received in order and the       *)
(* application has not read yet, in an array with one cell more than it    *)
(* may hold.  A buffer is read from head and written from tail; cells are  *)
(* counted from 0 as in the code.                                          *)
(***************************************************************************)
EXTENDS Integers, Sequences

CONSTANTS
    Byte,
    Zero,     \* what memset puts into the cells
    Capacity  \* the argument of alloc_ring_buffer, TCP_DEFAULT_WINDOW

ASSUME RingAssumption == Capacity \in Nat \ {0} /\ Zero \notin Byte

Size == Capacity + 1

Ring == [head : 0..Capacity, tail : 0..Capacity, buf : [0..Capacity -> Byte \cup {Zero}]]

alloc_ring_buffer == [head |-> 0, tail |-> 0, buf |-> [k \in 0..Capacity |-> Zero]]

ring_buffer_used(r) == (r.tail - r.head + Size) % Size

ring_buffer_free_bug(r) == Size - ring_buffer_used(r)  \* the spare cell is used

ring_buffer_free(r) == Size - ring_buffer_used(r) - 1

ring_buffer_empty(r) == ring_buffer_used(r) = 0

(* The n bytes from head on: both memcpy calls of read_ring_buffer.        *)
FromHead(r, n) == [i \in 1..n |-> r.buf[(r.head + i - 1) % Size]]

Contents(r) == FromHead(r, ring_buffer_used(r))

(* read_ring_buffer once the bytes are copied.                             *)
Advance_bug(r, n) == [r EXCEPT !.head = @ + n]  \* does not wrap around

Advance(r, n) == [r EXCEPT !.head = (@ + n) % Size]

(* The assertion of write_ring_buffer; the process ends when it fails.     *)
Fits(r, data) == Len(data) > 0 /\ Len(data) <= ring_buffer_free(r)

write_ring_buffer(r, data) ==
    [head |-> r.head,
     tail |-> (r.tail + Len(data)) % Size,
     buf |-> [k \in 0..Capacity |->
                IF (k - r.tail + Size) % Size < Len(data)
                THEN data[((k - r.tail + Size) % Size) + 1] ELSE r.buf[k]]]

=============================================================================
