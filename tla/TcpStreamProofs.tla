-------------------------- MODULE TcpStreamProofs --------------------------
(***************************************************************************)
(* Theorems about the data of a TCP connection, for every size of the ring *)
(* buffer, of the segments, of what is written and of what is read at once.*)
(*                                                                         *)
(* First the ring buffer: remainders are settled once, as ways around the  *)
(* array; what remains is linear arithmetic on places.  Then the stream:   *)
(* every piece on its way or kept at either end is a part of what was      *)
(* written, and what the receiver has, read or not, is what was written up *)
(* to rcv_nxt.                                                             *)
(***************************************************************************)
EXTENDS TcpStream, SequenceTheorems, Induction

(* Places are numbers below Size.  From place h to place t, going up and   *)
(* around, it is Way(h, t); Around(x) is the place x steps from place 0,   *)
(* for x less than twice around.                                           *)
Way(h, t) == IF t >= h THEN t - h ELSE t - h + Size

Around(x) == IF x < Size THEN x ELSE x - Size

Place == {k \in Nat : k < Size}

LEMMA Sizes == /\ Capacity \in Nat \ {0} /\ Size = Capacity + 1 /\ Size \in Nat
               /\ 0..Capacity = Place
<1>1. Capacity \in Nat \ {0} /\ Size = Capacity + 1 /\ Size \in Nat
  BY RingAssumption DEF Size
<1> QED BY <1>1 DEF Place

LEMMA WayIsPlace ==
    ASSUME NEW h \in Place, NEW t \in Place
    PROVE  Way(h, t) \in Place /\ Way(h, t) \in Nat
  BY Sizes DEF Way, Place

LEMMA AroundIsPlace ==
    ASSUME NEW x \in Nat, NEW y \in Place, NEW z \in Nat, x = y + z, z <= Size
    PROVE  Around(x) \in Place
  BY Sizes DEF Around, Place

(* The remainders the code takes.                                          *)
LEMMA WayRemainder ==
    ASSUME NEW h \in Place, NEW t \in Place
    PROVE  (t - h + Size) % Size = Way(h, t)
<1>1. h \in Nat /\ t \in Nat /\ h < Size /\ t < Size /\ Size \in Nat
  BY Sizes DEF Place
<1>2. CASE t >= h
  BY <1>1, <1>2 DEF Way
<1>3. CASE t < h
  BY <1>1, <1>3 DEF Way
<1> QED BY <1>1, <1>2, <1>3

LEMMA AroundRemainder ==
    ASSUME NEW h \in Place, NEW l \in Nat, l <= Size
    PROVE  (h + l) % Size = Around(h + l)
<1>1. h \in Nat /\ h < Size /\ Size \in Nat
  BY Sizes DEF Place
<1>2. CASE h + l < Size
  BY <1>1, <1>2 DEF Around
<1>3. CASE h + l >= Size
  BY <1>1, <1>3 DEF Around
<1> QED BY <1>1, <1>2, <1>3

(* What a write of l bytes, and a read, do to the way from head to tail;   *)
(* that a write goes to cells behind the old bytes, and in order.          *)
LEMMA UsedGrows ==
    ASSUME NEW h \in Place, NEW t \in Place, NEW l \in Nat, Way(h, t) + l < Size
    PROVE  Way(h, Around(t + l)) = Way(h, t) + l
  BY Sizes DEF Way, Around, Place

LEMMA UsedShrinks ==
    ASSUME NEW h \in Place, NEW t \in Place, NEW l \in Nat, l <= Way(h, t)
    PROVE  Way(Around(h + l), t) = Way(h, t) - l
  BY Sizes DEF Way, Around, Place

LEMMA OldPlace ==
    ASSUME NEW h \in Place, NEW t \in Place, NEW l \in Nat, Way(h, t) + l < Size,
           NEW i \in Nat, i < Way(h, t)
    PROVE  ~(Way(t, Around(h + i)) < l)
  BY Sizes DEF Way, Around, Place

LEMMA NewPlace ==
    ASSUME NEW h \in Place, NEW t \in Place, NEW l \in Nat, Way(h, t) + l < Size,
           NEW i \in Nat, i < l
    PROVE  Way(t, Around(h + (Way(h, t) + i))) = i
  BY Sizes DEF Way, Around, Place

LEMMA AroundTwice ==
    ASSUME NEW h \in Place, NEW l \in Nat, NEW i \in Nat, l + i < Size
    PROVE  Around(Around(h + l) + i) = Around(h + (l + i))
  BY Sizes DEF Around, Place
-----------------------------------------------------------------------------
(* The fields of a buffer, the bytes in it and their cells.                *)
LEMMA Fields ==
    ASSUME NEW r \in Ring
    PROVE  /\ r.head \in Place /\ r.tail \in Place /\ r.head \in Nat /\ r.tail \in Nat
           /\ r.buf \in [Place -> Byte \cup {Zero}]
           /\ ring_buffer_used(r) = Way(r.head, r.tail)
           /\ ring_buffer_used(r) \in Nat /\ ring_buffer_used(r) < Size
<1>1. /\ r.head \in Place /\ r.tail \in Place
      /\ r.buf \in [Place -> Byte \cup {Zero}]
  BY Sizes DEF Ring
<1>2. ring_buffer_used(r) = Way(r.head, r.tail)
  BY <1>1, WayRemainder DEF ring_buffer_used
<1>3. Way(r.head, r.tail) \in Place
  BY <1>1, WayIsPlace
<1> QED BY <1>1, <1>2, <1>3 DEF Place

(* The cells FromHead reads.                                               *)
LEMMA Cells ==
    ASSUME NEW r \in Ring, NEW n \in Nat, n < Size
    PROVE  /\ FromHead(r, n) = [i \in 1..n |-> r.buf[Around(r.head + (i - 1))]]
           /\ \A i \in 1..n : r.buf[Around(r.head + (i - 1))] \in Byte \cup {Zero}
           /\ FromHead(r, n) \in Seq(Byte \cup {Zero})
           /\ Len(FromHead(r, n)) = n
<1>1. ASSUME NEW i \in 1..n
      PROVE  (r.head + i - 1) % Size = Around(r.head + (i - 1))
  <2>1. i - 1 \in Nat /\ i - 1 <= Size
    BY Sizes
  <2>2. (r.head + (i - 1)) % Size = Around(r.head + (i - 1))
    BY <2>1, Fields, AroundRemainder
  <2>3. r.head + i - 1 = r.head + (i - 1)
    BY Fields
  <2> QED BY <2>2, <2>3
<1>2. ASSUME NEW i \in 1..n PROVE Around(r.head + (i - 1)) \in Place
  <2>1. i - 1 \in Nat /\ i - 1 <= Size /\ r.head + (i - 1) \in Nat
    BY Sizes, Fields
  <2> QED BY <2>1, Fields, AroundIsPlace
<1>3. FromHead(r, n) = [i \in 1..n |-> r.buf[Around(r.head + (i - 1))]]
  BY <1>1 DEF FromHead
<1>4. \A i \in 1..n : r.buf[Around(r.head + (i - 1))] \in Byte \cup {Zero}
  BY <1>2, Fields
<1> QED BY <1>3, <1>4

(* A sequence that starts as a does and goes on as b does is both joined.  *)
LEMMA Joined ==
    ASSUME NEW S, NEW a \in Seq(S), NEW b \in Seq(S), NEW c \in Seq(S),
           Len(c) = Len(a) + Len(b),
           \A i \in 1..Len(a) : c[i] = a[i],
           \A i \in 1..Len(b) : c[Len(a) + i] = b[i]
    PROVE  c = a \o b
<1>1. /\ a \o b \in Seq(S) /\ Len(a \o b) = Len(a) + Len(b)
      /\ \A i \in 1..(Len(a) + Len(b)) :
           (a \o b)[i] = IF i <= Len(a) THEN a[i] ELSE b[i - Len(a)]
  BY ConcatProperties
<1>2. ASSUME NEW i \in 1..Len(c) PROVE c[i] = (a \o b)[i]
  <2>1. CASE i <= Len(a)
    <3>1. i \in 1..Len(a)
      BY <2>1
    <3> QED BY <1>1, <2>1, <3>1
  <2>2. CASE ~(i <= Len(a))
    <3>1. i - Len(a) \in 1..Len(b) /\ Len(a) + (i - Len(a)) = i
      BY <2>2
    <3>2. c[i] = b[i - Len(a)]
      BY <3>1
    <3> QED BY <1>1, <2>2, <3>2
  <2> QED BY <2>1, <2>2
<1> QED BY <1>1, <1>2, SeqEqual

(* alloc_ring_buffer: a new buffer is empty.                               *)
THEOREM AllocEmpty == alloc_ring_buffer \in Ring /\ Contents(alloc_ring_buffer) = <<>>
<1>1. alloc_ring_buffer \in Ring
  BY Sizes DEF alloc_ring_buffer, Ring
<1>2. ring_buffer_used(alloc_ring_buffer) = 0
  BY <1>1, Fields DEF alloc_ring_buffer, Way
<1> QED BY <1>1, <1>2 DEF Contents, FromHead

(* What a write that fits leaves alone and what it puts where.             *)
LEMMA Written ==
    ASSUME NEW r \in Ring, NEW bytes \in Seq(Byte), Fits(r, bytes)
    PROVE  LET w == write_ring_buffer(r, bytes)
               u == ring_buffer_used(r)
           IN /\ w \in Ring /\ w.head = r.head
              /\ u + Len(bytes) < Size
              /\ ring_buffer_used(w) = u + Len(bytes)
              /\ \A j \in Nat : j < u =>
                   w.buf[Around(r.head + j)] = r.buf[Around(r.head + j)]
              /\ \A j \in Nat : j < Len(bytes) =>
                   w.buf[Around(r.head + (u + j))] = bytes[j + 1]
<1> DEFINE w == write_ring_buffer(r, bytes)
           u == ring_buffer_used(r)
           L == Len(bytes)
<1>1. L \in Nat /\ u + L < Size
  <2>1. L \in Nat
    OBVIOUS
  <2>2. L <= Size - u - 1
    BY DEF Fits, ring_buffer_free
  <2>3. u \in Nat /\ Size \in Nat
    BY Fields, Sizes
  <2> HIDE DEF u, L
  <2> QED BY <2>1, <2>2, <2>3
<1>2. /\ w = [head |-> w.head, tail |-> w.tail, buf |-> w.buf]
      /\ w.head = r.head
  BY DEF write_ring_buffer
<1>3. w.tail = Around(r.tail + L)
  <2>1. w.tail = (r.tail + L) % Size
    BY DEF write_ring_buffer
  <2>2. L <= Size
    BY <1>1, Fields, Sizes
  <2>3. (r.tail + L) % Size = Around(r.tail + L)
    BY <1>1, <2>2, Fields, AroundRemainder
  <2> QED BY <2>1, <2>3
<1>4. w.buf = [k \in Place |-> IF Way(r.tail, k) < L THEN bytes[Way(r.tail, k) + 1]
                               ELSE r.buf[k]]
  <2>1. w.buf = [k \in Place |-> IF (k - r.tail + Size) % Size < L
                                 THEN bytes[((k - r.tail + Size) % Size) + 1] ELSE r.buf[k]]
    BY Sizes DEF write_ring_buffer
  <2>2. ASSUME NEW k \in Place PROVE (k - r.tail + Size) % Size = Way(r.tail, k)
    BY Fields, WayRemainder
  <2> QED BY <2>1, <2>2
<1> HIDE DEF w
<1>5. w \in Ring
  <2>1. w.tail \in Place
    <3>1. L <= Size /\ r.tail + L \in Nat
      BY <1>1, Fields, Sizes
    <3> QED BY <3>1, <1>1, <1>3, Fields, AroundIsPlace
  <2>2. ASSUME NEW k \in Place, Way(r.tail, k) < L PROVE bytes[Way(r.tail, k) + 1] \in Byte
    <3>1. Way(r.tail, k) \in Nat
      BY Fields, WayIsPlace
    <3>2. Way(r.tail, k) + 1 \in 1..L
      BY <1>1, <2>2, <3>1
    <3> QED BY <3>2
  <2>3. w.buf \in [Place -> Byte \cup {Zero}]
    BY <1>4, <2>2, Fields
  <2> QED BY <1>2, <2>1, <2>3, Fields, Sizes DEF Ring
<1>6. ring_buffer_used(w) = u + L
  <2>1. ring_buffer_used(w) = Way(r.head, Around(r.tail + L))
    BY <1>2, <1>3, <1>5, Fields
  <2>2. u = Way(r.head, r.tail)
    BY Fields
  <2>3. Way(r.head, Around(r.tail + L)) = Way(r.head, r.tail) + L
    BY <1>1, <2>2, Fields, UsedGrows
  <2> QED BY <2>1, <2>2, <2>3
<1>7. ASSUME NEW j \in Nat, j < u
      PROVE  w.buf[Around(r.head + j)] = r.buf[Around(r.head + j)]
  <2>1. Around(r.head + j) \in Place
    <3>1. j <= Size /\ r.head + j \in Nat
      BY <1>7, Fields, Sizes
    <3> QED BY <3>1, Fields, AroundIsPlace
  <2>2. ~(Way(r.tail, Around(r.head + j)) < L)
    BY <1>1, <1>7, Fields, OldPlace
  <2> QED BY <1>4, <2>1, <2>2
<1>8. ASSUME NEW j \in Nat, j < L
      PROVE  w.buf[Around(r.head + (u + j))] = bytes[j + 1]
  <2>1. Around(r.head + (u + j)) \in Place
    <3>1. u + j \in Nat /\ u + j <= Size /\ r.head + (u + j) \in Nat
      BY <1>1, <1>8, Fields, Sizes
    <3> QED BY <3>1, Fields, AroundIsPlace
  <2>2. Way(r.tail, Around(r.head + (u + j))) = j
    BY <1>1, <1>8, Fields, NewPlace
  <2> QED BY <1>4, <1>8, <2>1, <2>2
<1> QED BY <1>1, <1>2, <1>5, <1>6, <1>7, <1>8 DEF w

(* write_ring_buffer: whatever head and tail are, and also where the array *)
(* wraps, a write that passes the assertion appends its bytes to those     *)
(* that wait and disturbs none of them.                                    *)
THEOREM WriteAppends ==
    ASSUME NEW r \in Ring, NEW bytes \in Seq(Byte), Fits(r, bytes)
    PROVE  /\ write_ring_buffer(r, bytes) \in Ring
           /\ Contents(write_ring_buffer(r, bytes)) = Contents(r) \o bytes
<1> DEFINE w == write_ring_buffer(r, bytes)
           u == ring_buffer_used(r)
           L == Len(bytes)
<1>1. /\ w \in Ring /\ w.head = r.head
      /\ u + L < Size
      /\ ring_buffer_used(w) = u + L
      /\ \A j \in Nat : j < u => w.buf[Around(r.head + j)] = r.buf[Around(r.head + j)]
      /\ \A j \in Nat : j < L => w.buf[Around(r.head + (u + j))] = bytes[j + 1]
  BY Written
<1>2. u \in Nat /\ u < Size /\ L \in Nat /\ u + L \in Nat
  BY Fields
<1>3. bytes \in Seq(Byte \cup {Zero}) /\ Len(bytes) = L
  OBVIOUS
<1> HIDE DEF w, u, L
<1>4. Contents(r) = [i \in 1..u |-> r.buf[Around(r.head + (i - 1))]]
  BY <1>2, Cells DEF Contents, u
<1>5. Contents(r) \in Seq(Byte \cup {Zero}) /\ Len(Contents(r)) = u
  BY <1>2, Cells DEF Contents, u
<1>6. Contents(w) = [i \in 1..(u + L) |-> w.buf[Around(r.head + (i - 1))]]
  <2>1. Contents(w) = FromHead(w, u + L)
    BY <1>1 DEF Contents
  <2>2. FromHead(w, u + L) = [i \in 1..(u + L) |-> w.buf[Around(w.head + (i - 1))]]
    BY <1>1, <1>2, Cells
  <2> QED BY <1>1, <2>1, <2>2
<1>7. Contents(w) \in Seq(Byte \cup {Zero}) /\ Len(Contents(w)) = u + L
  BY <1>1, <1>2, Cells DEF Contents
<1>8. ASSUME NEW i \in 1..u PROVE Contents(w)[i] = Contents(r)[i]
  <2>1. i \in 1..(u + L) /\ i - 1 \in Nat /\ i - 1 < u
    BY <1>2
  <2> QED BY <1>1, <1>4, <1>6, <2>1
<1>9. ASSUME NEW i \in 1..L PROVE Contents(w)[u + i] = bytes[i]
  <2>1. /\ u + i \in 1..(u + L) /\ i - 1 \in Nat /\ i - 1 < L
        /\ (u + i) - 1 = u + (i - 1) /\ (i - 1) + 1 = i
    BY <1>2
  <2>2. Contents(w)[u + i] = w.buf[Around(r.head + (u + (i - 1)))]
    BY <1>6, <2>1
  <2>3. w.buf[Around(r.head + (u + (i - 1)))] = bytes[(i - 1) + 1]
    BY <1>1, <2>1
  <2> QED BY <2>1, <2>2, <2>3
<1>10. Contents(w) = Contents(r) \o bytes
  <2>1. Len(Contents(w)) = Len(Contents(r)) + Len(bytes)
    BY <1>3, <1>5, <1>7
  <2>2. \A i \in 1..Len(Contents(r)) : Contents(w)[i] = Contents(r)[i]
    BY <1>5, <1>8
  <2>3. \A i \in 1..Len(bytes) : Contents(w)[Len(Contents(r)) + i] = bytes[i]
    BY <1>3, <1>5, <1>9
  <2>4. /\ Contents(r) \in Seq(Byte \cup {Zero})
        /\ Contents(w) \in Seq(Byte \cup {Zero})
        /\ bytes \in Seq(Byte \cup {Zero})
    BY <1>3, <1>5, <1>7
  <2> QED BY <2>1, <2>2, <2>3, <2>4, Joined, Zenon
<1> QED BY <1>1, <1>10 DEF w

(* The packet thread may write between the moment tcp_sock_read has seen   *)
(* how much there is and its copy in read_ring_buffer: the bytes it has    *)
(* counted are still the same.                                             *)
THEOREM ReadBesideWrite ==
    ASSUME NEW r \in Ring, NEW bytes \in Seq(Byte), Fits(r, bytes),
           NEW n \in 0..ring_buffer_used(r)
    PROVE  FromHead(write_ring_buffer(r, bytes), n) = FromHead(r, n)
<1> DEFINE w == write_ring_buffer(r, bytes)
           u == ring_buffer_used(r)
<1>1. /\ w \in Ring /\ w.head = r.head
      /\ \A j \in Nat : j < u => w.buf[Around(r.head + j)] = r.buf[Around(r.head + j)]
  BY Written
<1>2. u \in Nat /\ n \in Nat /\ n <= u /\ n < Size
  BY Fields, Sizes
<1> HIDE DEF w, u
<1>3. /\ FromHead(r, n) = [i \in 1..n |-> r.buf[Around(r.head + (i - 1))]]
      /\ FromHead(w, n) = [i \in 1..n |-> w.buf[Around(r.head + (i - 1))]]
  BY <1>1, <1>2, Cells
<1>4. ASSUME NEW i \in 1..n
      PROVE  w.buf[Around(r.head + (i - 1))] = r.buf[Around(r.head + (i - 1))]
  <2>1. i - 1 \in Nat /\ i - 1 < u
    BY <1>2
  <2> QED BY <1>1, <2>1
<1> QED BY <1>3, <1>4 DEF w

(* read_ring_buffer: a read of at most what is there returns the first     *)
(* bytes and leaves the others, in order.                                  *)
THEOREM ReadTakes ==
    ASSUME NEW r \in Ring, NEW n \in 0..ring_buffer_used(r)
    PROVE  /\ Advance(r, n) \in Ring
           /\ FromHead(r, n) \o Contents(Advance(r, n)) = Contents(r)
<1> DEFINE a == Advance(r, n)
           u == ring_buffer_used(r)
<1>1. /\ u \in Nat /\ n \in Nat /\ n <= u /\ u < Size /\ n < Size
      /\ u - n \in Nat /\ u - n < Size
  BY Fields, Sizes
<1>2. a.tail = r.tail /\ a.buf = r.buf /\ a = [head |-> a.head, tail |-> a.tail, buf |-> a.buf]
  BY DEF Advance, Ring
<1>3. a.head = Around(r.head + n)
  <2>1. a.head = (r.head + n) % Size
    BY DEF Advance, Ring
  <2>2. n <= Size
    BY <1>1, Sizes
  <2>3. (r.head + n) % Size = Around(r.head + n)
    BY <1>1, <2>2, Fields, AroundRemainder
  <2> QED BY <2>1, <2>3
<1> HIDE DEF a
<1>4. a \in Ring
  <2>1. n <= Size /\ r.head + n \in Nat
    BY <1>1, Fields, Sizes
  <2>2. a.head \in Place
    BY <1>1, <1>3, <2>1, Fields, AroundIsPlace
  <2> QED BY <1>2, <2>2, Fields, Sizes DEF Ring
<1>5. ring_buffer_used(a) = u - n
  <2>1. ring_buffer_used(a) = Way(Around(r.head + n), r.tail)
    BY <1>2, <1>3, <1>4, Fields
  <2>2. u = Way(r.head, r.tail)
    BY Fields
  <2>3. Way(Around(r.head + n), r.tail) = Way(r.head, r.tail) - n
    BY <1>1, <2>2, Fields, UsedShrinks
  <2> QED BY <2>1, <2>2, <2>3
<1> HIDE DEF u
<1>6. Contents(r) = [i \in 1..u |-> r.buf[Around(r.head + (i - 1))]]
  BY <1>1, Cells DEF Contents, u
<1>7. Contents(r) \in Seq(Byte \cup {Zero}) /\ Len(Contents(r)) = u
  BY <1>1, Cells DEF Contents, u
<1>8. FromHead(r, n) = [i \in 1..n |-> r.buf[Around(r.head + (i - 1))]]
  BY <1>1, Cells
<1>9. FromHead(r, n) \in Seq(Byte \cup {Zero}) /\ Len(FromHead(r, n)) = n
  BY <1>1, Cells
<1>10. Contents(a) = FromHead(a, u - n)
  BY <1>5 DEF Contents
<1>11. FromHead(a, u - n) = [i \in 1..(u - n) |-> a.buf[Around(a.head + (i - 1))]]
  BY <1>1, <1>4, Cells
<1>12. Contents(a) \in Seq(Byte \cup {Zero}) /\ Len(Contents(a)) = u - n
  BY <1>1, <1>4, <1>10, Cells
<1>13. ASSUME NEW i \in 1..n PROVE Contents(r)[i] = FromHead(r, n)[i]
  <2>1. i \in 1..u
    BY <1>1
  <2> QED BY <1>6, <1>8, <2>1
<1>14. ASSUME NEW i \in 1..(u - n) PROVE Contents(r)[n + i] = Contents(a)[i]
  <2>1. i \in Nat /\ i - 1 \in Nat
    BY <1>1
  <2>2. n + i \in 1..u /\ (n + i) - 1 = n + (i - 1) /\ n + (i - 1) < Size
    <3>1. Size \in Nat
      BY Sizes
    <3> QED BY <1>1, <2>1, <3>1
  <2>3. Contents(a)[i] = r.buf[Around(Around(r.head + n) + (i - 1))]
    BY <1>2, <1>3, <1>10, <1>11
  <2>4. Around(Around(r.head + n) + (i - 1)) = Around(r.head + (n + (i - 1)))
    BY <1>1, <2>1, <2>2, Fields, AroundTwice
  <2>5. Contents(r)[n + i] = r.buf[Around(r.head + (n + (i - 1)))]
    BY <1>6, <2>2
  <2> QED BY <2>3, <2>4, <2>5
<1>15. Len(Contents(r)) = n + (u - n)
  BY <1>1, <1>7
<1>16. Contents(r) = FromHead(r, n) \o Contents(a)
  <2>1. Len(Contents(r)) = Len(FromHead(r, n)) + Len(Contents(a))
    BY <1>9, <1>12, <1>15
  <2>2. \A i \in 1..Len(FromHead(r, n)) : Contents(r)[i] = FromHead(r, n)[i]
    BY <1>9, <1>13
  <2>3. \A i \in 1..Len(Contents(a)) : Contents(r)[Len(FromHead(r, n)) + i] = Contents(a)[i]
    BY <1>9, <1>12, <1>14
  <2>4. /\ FromHead(r, n) \in Seq(Byte \cup {Zero})
        /\ Contents(a) \in Seq(Byte \cup {Zero})
        /\ Contents(r) \in Seq(Byte \cup {Zero})
    BY <1>7, <1>9, <1>12
  <2> QED BY <2>1, <2>2, <2>3, <2>4, Joined, Zenon
<1> QED BY <1>4, <1>16 DEF a
-----------------------------------------------------------------------------
(* What was written from place a to place b.                               *)
Part(a, b) == SubSeq(Data, a + 1, b)

LEMMA DataLen == Data \in Seq(Byte) /\ Len(Data) \in Nat
  BY StreamAssumption

LEMMA PartBytes ==
    ASSUME NEW a \in Nat, NEW b \in Nat, a <= b, b <= Len(Data)
    PROVE  /\ Part(a, b) \in Seq(Byte) /\ Len(Part(a, b)) = b - a
           /\ \A i \in 1..(b - a) : Part(a, b)[i] = Data[a + i]
<1>1. \A i \in (a + 1)..b : Data[i] \in Byte
  BY DataLen
<1>2. a + 1 \in Int /\ b \in Int /\ (a + 1 <= b => b - (a + 1) + 1 = b - a) /\ b - (a + 1) + 1 = b - a
  OBVIOUS
<1>3. /\ Part(a, b) \in Seq(Byte)
      /\ Len(Part(a, b)) = IF a + 1 <= b THEN b - (a + 1) + 1 ELSE 0
      /\ \A i \in 1..(b - (a + 1) + 1) : Part(a, b)[i] = Data[(a + 1) + i - 1]
  BY <1>1, <1>2, SubSeqProperties DEF Part
<1>4. ~(a + 1 <= b) => b - a = 0
  OBVIOUS
<1>5. \A i \in 1..(b - a) : (a + 1) + i - 1 = a + i
  OBVIOUS
<1> QED BY <1>2, <1>3, <1>4, <1>5

(* Parts that meet make one part.                                          *)
LEMMA PartsJoined ==
    ASSUME NEW a \in Nat, NEW b \in Nat, a <= b, b <= Len(Data)
    PROVE  Part(0, a) \o Part(a, b) = Part(0, b)
<1>1. /\ Part(0, a) \in Seq(Byte) /\ Len(Part(0, a)) = a
      /\ \A i \in 1..a : Part(0, a)[i] = Data[i]
  <2>1. 0 \in Nat /\ 0 <= a /\ a <= Len(Data)
    BY DataLen
  <2>2. /\ Part(0, a) \in Seq(Byte) /\ Len(Part(0, a)) = a - 0
        /\ \A i \in 1..(a - 0) : Part(0, a)[i] = Data[0 + i]
    BY <2>1, PartBytes
  <2>3. a - 0 = a /\ \A i \in 1..a : 0 + i = i
    OBVIOUS
  <2> QED BY <2>2, <2>3
<1>2. /\ Part(0, b) \in Seq(Byte) /\ Len(Part(0, b)) = b
      /\ \A i \in 1..b : Part(0, b)[i] = Data[i]
  <2>1. 0 \in Nat /\ 0 <= b
    OBVIOUS
  <2>2. /\ Part(0, b) \in Seq(Byte) /\ Len(Part(0, b)) = b - 0
        /\ \A i \in 1..(b - 0) : Part(0, b)[i] = Data[0 + i]
    BY <2>1, PartBytes
  <2>3. b - 0 = b /\ \A i \in 1..b : 0 + i = i
    OBVIOUS
  <2> QED BY <2>2, <2>3
<1>3. /\ Part(a, b) \in Seq(Byte) /\ Len(Part(a, b)) = b - a
      /\ \A i \in 1..(b - a) : Part(a, b)[i] = Data[a + i]
  BY PartBytes
<1>4. /\ Len(Part(0, b)) = Len(Part(0, a)) + Len(Part(a, b))
      /\ \A i \in 1..Len(Part(0, a)) : Part(0, b)[i] = Part(0, a)[i]
      /\ \A i \in 1..Len(Part(a, b)) : Part(0, b)[Len(Part(0, a)) + i] = Part(a, b)[i]
  <2>1. \A i \in 1..(b - a) : a + i \in 1..b
    OBVIOUS
  <2>2. \A i \in 1..(b - a) : Part(0, b)[a + i] = Part(a, b)[i]
    BY <1>2, <1>3, <2>1
  <2>3. \A i \in 1..a : i \in 1..b
    OBVIOUS
  <2>4. \A i \in 1..a : Part(0, b)[i] = Part(0, a)[i]
    BY <1>1, <1>2, <2>3
  <2>5. b = a + (b - a)
    OBVIOUS
  <2> QED BY <1>1, <1>2, <1>3, <2>2, <2>4, <2>5
<1> QED BY <1>1, <1>2, <1>3, <1>4, Joined, Zenon

(* A sequence is a prefix of what it is continued to.                      *)
LEMMA Continued ==
    ASSUME NEW S, NEW s \in Seq(S), NEW t \in Seq(S)
    PROVE  IsPrefix(s, s \o t) /\ (t # <<>> => s # s \o t)
<1>1. /\ s \o t \in Seq(S) /\ Len(s \o t) = Len(s) + Len(t)
      /\ Len(s) \in Nat /\ Len(t) \in Nat
      /\ \A i \in 1..Len(s) : (s \o t)[i] = s[i]
  BY ConcatProperties
<1>2. SubSeq(s, 1, Len(s)) = s
  BY SubSeqFull
<1> DEFINE u == SubSeq(s \o t, 1, Len(s))
<1>3. u \in Seq(S) /\ Len(u) = Len(s) /\ \A i \in 1..Len(s) : u[i] = s[i]
  BY <1>1
<1> HIDE DEF u
<1>4. u = s
  BY <1>3, SeqEqual
<1>5. Len(s) <= Len(s \o t)
  BY <1>1
<1>6. IsPrefix(s, s \o t)
  BY <1>2, <1>4, <1>5 DEF IsPrefix, u
<1>7. t # <<>> => Len(t) # 0
  OBVIOUS
<1> QED BY <1>1, <1>6, <1>7

(* What comes first is longer or shorter, and is in the whole.             *)
LEMMA PartsExtend ==
    ASSUME NEW a \in Nat, NEW b \in Nat, a < b, b <= Len(Data)
    PROVE  Stream!Extends(Part(0, a), Part(0, b), Data)
<1>1. Part(a, b) \in Seq(Byte) /\ Len(Part(a, b)) = b - a /\ b - a # 0 /\ a <= b
  <2>1. a <= b /\ b - a # 0
    OBVIOUS
  <2> QED BY <2>1, PartBytes
<1>2. Part(0, a) \in Seq(Byte) /\ Part(b, Len(Data)) \in Seq(Byte) /\ Part(0, b) \in Seq(Byte)
  <2>1. 0 \in Nat /\ 0 <= a /\ 0 <= b /\ a <= Len(Data) /\ Len(Data) \in Nat
    BY DataLen
  <2> QED BY <2>1, PartBytes
<1>3. Part(a, b) # <<>>
  BY <1>1
<1>4. Part(0, b) = Part(0, a) \o Part(a, b)
  BY <1>1, PartsJoined
<1>5. IsStrictPrefix(Part(0, a), Part(0, b))
  BY <1>1, <1>2, <1>3, <1>4, Continued DEF IsStrictPrefix
<1>6. Data = Part(0, b) \o Part(b, Len(Data))
  <2>1. Part(0, Len(Data)) = Data
    BY DataLen, SubSeqFull DEF Part
  <2>2. Part(0, b) \o Part(b, Len(Data)) = Part(0, Len(Data))
    <3>1. Len(Data) \in Nat /\ Len(Data) <= Len(Data)
      BY DataLen
    <3> QED BY <3>1, PartsJoined
  <2> QED BY <2>1, <2>2
<1>7. IsPrefix(Part(0, b), Data)
  <2>1. IsPrefix(Part(0, b), Part(0, b) \o Part(b, Len(Data)))
    BY <1>2, Continued
  <2> QED BY <1>6, <2>1
<1> QED BY <1>5, <1>7
    DEF Stream!Extends, Stream!IsStrictPrefix, Stream!IsPrefix, IsStrictPrefix, IsPrefix
-----------------------------------------------------------------------------
(* Every piece, wherever it is, is a part of what was written, and every   *)
(* acknowledgement is for what has come in order.  With them what has come *)
(* is what was written up to rcv_nxt.                                      *)
Pieces ==
    {p \in Piece : p.bytes # <<>> /\ end(p) <= snd_nxt /\ p.bytes = Part(p.seq, end(p))}

Kind == [piece : Pieces, number : 0..3]

SenderOK ==
    /\ snd_nxt \in 0..Len(Data) /\ timeout \in 0..(8 * Interval) /\ exited \in BOOLEAN
    /\ send_buf \in Seq(Kind)
    /\ timeout = 0 <=> send_buf = <<>>

LinkOK ==
    /\ data \in Seq(Pieces) /\ rcv_ofo_buf \in Seq(Pieces)
    /\ acks \in Seq(0..rcv_nxt) /\ rcv_nxt <= snd_nxt

ReceiverOK ==
    /\ rcv_nxt \in Nat /\ aborted \in BOOLEAN
    /\ rcv_buf \in Ring /\ wait_recv \in WaitStruct
    /\ reader \in {"look", "sleep", "asleep", "read", "again", "copy"}
    /\ length \in 0..Capacity /\ got \in Seq(Byte)
    /\ got \o Contents(rcv_buf) = Part(0, rcv_nxt)
    /\ reader = "copy" => length <= ring_buffer_used(rcv_buf)

StreamInv == SenderOK /\ LinkOK /\ ReceiverOK /\ UnackedKept

LEMMA PieceFields ==
    ASSUME NEW p \in Pieces
    PROVE  /\ p.seq \in Nat /\ p.bytes \in Seq(Byte) /\ Len(p.bytes) \in Nat /\ Len(p.bytes) # 0
           /\ end(p) = p.seq + Len(p.bytes) /\ end(p) \in Nat /\ p.seq < end(p)
           /\ end(p) <= snd_nxt /\ p.bytes = Part(p.seq, end(p))
<1>1. /\ p \in Piece /\ p.bytes # <<>> /\ end(p) <= snd_nxt /\ p.bytes = Part(p.seq, end(p))
  BY DEF Pieces
<1>2. p.seq \in Nat /\ p.bytes \in Seq(Byte)
  BY <1>1 DEF Piece
<1>3. Len(p.bytes) \in Nat /\ Len(p.bytes) # 0
  BY <1>1, <1>2
<1>4. end(p) = p.seq + Len(p.bytes)
  BY DEF end
<1> QED BY <1>1, <1>2, <1>3, <1>4

LEMMA BytesInCells == \A s \in Seq(Byte) : s \in Seq(Byte \cup {Zero})
<1>1. Byte \subseteq Byte \cup {Zero}
  OBVIOUS
<1> QED BY <1>1, SeqMonotonic

LEMMA ContentsBytes ==
    ASSUME NEW r \in Ring
    PROVE  /\ Contents(r) \in Seq(Byte \cup {Zero}) /\ Len(Contents(r)) = ring_buffer_used(r)
           /\ ring_buffer_used(r) \in Nat /\ ring_buffer_used(r) <= Capacity
<1>1. ring_buffer_used(r) \in Nat /\ ring_buffer_used(r) < Size
  BY Fields
<1> QED BY <1>1, Cells, Sizes DEF Contents

(* The receiver between two pieces it stores: it goes on as it was, or has *)
(* come further.                                                           *)
Stages ==
    {st \in [ring : Ring, nxt : Nat, ofo : Seq(Pieces), ok : BOOLEAN] :
        /\ got \o Contents(st.ring) = Part(0, st.nxt)
        /\ rcv_nxt <= st.nxt /\ st.nxt <= snd_nxt
        /\ ring_buffer_used(rcv_buf) <= ring_buffer_used(st.ring)
        /\ st.nxt = rcv_nxt => st.ring = rcv_buf}

LEMMA StoreStage ==
    ASSUME StreamInv, NEW st \in Stages, NEW p \in Pieces, p.seq = st.nxt
    PROVE  Store(st, p) \in Stages
<1>1. /\ st \in [ring : Ring, nxt : Nat, ofo : Seq(Pieces), ok : BOOLEAN]
      /\ got \o Contents(st.ring) = Part(0, st.nxt)
      /\ rcv_nxt <= st.nxt /\ st.nxt <= snd_nxt
      /\ ring_buffer_used(rcv_buf) <= ring_buffer_used(st.ring)
      /\ st.nxt = rcv_nxt => st.ring = rcv_buf
  BY DEF Stages
<1>2. /\ p.bytes \in Seq(Byte) /\ Len(p.bytes) \in Nat /\ Len(p.bytes) # 0
      /\ end(p) = st.nxt + Len(p.bytes) /\ end(p) \in Nat /\ end(p) <= snd_nxt
      /\ p.bytes = Part(st.nxt, end(p))
  BY PieceFields
<1>3. CASE ~Fits(st.ring, p.bytes)
  <2> DEFINE t == [st EXCEPT !.ok = FALSE]
  <2>1. Store(st, p) = t
    BY <1>3 DEF Store
  <2>2. t \in [ring : Ring, nxt : Nat, ofo : Seq(Pieces), ok : BOOLEAN]
        /\ t.ring = st.ring /\ t.nxt = st.nxt
    BY <1>1
  <2> HIDE DEF t
  <2> QED BY <1>1, <2>1, <2>2 DEF Stages
<1>4. CASE Fits(st.ring, p.bytes)
  <2> DEFINE w == write_ring_buffer(st.ring, p.bytes)
             t == [st EXCEPT !.ring = w, !.nxt = st.nxt + Len(p.bytes)]
  <2>1. Store(st, p) = t
    BY <1>4 DEF Store
  <2>2. st.ring \in Ring /\ st.nxt \in Nat
    BY <1>1
  <2>3. w \in Ring /\ Contents(w) = Contents(st.ring) \o p.bytes
    BY <1>2, <1>4, <2>2, WriteAppends
  <2>4. ring_buffer_used(w) = ring_buffer_used(st.ring) + Len(p.bytes)
    BY <1>2, <1>4, <2>2, Written
  <2> HIDE DEF w
  <2>5. /\ t \in [ring : Ring, nxt : Nat, ofo : Seq(Pieces), ok : BOOLEAN]
        /\ t.ring = w /\ t.nxt = end(p)
    BY <1>1, <1>2, <2>3
  <2> HIDE DEF t
  <2>6. got \o Contents(w) = Part(0, end(p))
    <3> DEFINE S == Byte \cup {Zero}
    <3>1. got \in Seq(S) /\ Contents(st.ring) \in Seq(S) /\ p.bytes \in Seq(S)
      <4>1. got \in Seq(Byte)
        BY DEF StreamInv, ReceiverOK
      <4> QED BY <1>2, <2>2, <4>1, ContentsBytes, BytesInCells
    <3>2. (got \o Contents(st.ring)) \o p.bytes = got \o (Contents(st.ring) \o p.bytes)
      <4> DEFINE c == Contents(st.ring)
                 b == p.bytes
      <4> HIDE DEF S, c, b
      <4>1. got \in Seq(S) /\ c \in Seq(S) /\ b \in Seq(S)
        BY <3>1 DEF c, b
      <4>2. (got \o c) \o b = got \o (c \o b)
        BY <4>1, ConcatAssociative
      <4> QED BY <4>2 DEF c, b
    <3>3. st.nxt \in Nat /\ end(p) \in Nat /\ st.nxt <= end(p) /\ end(p) <= Len(Data)
      <4>1. snd_nxt \in 0..Len(Data)
        BY DEF StreamInv, SenderOK
      <4> QED BY <1>2, <2>2, <4>1, DataLen
    <3>4. Part(0, st.nxt) \o Part(st.nxt, end(p)) = Part(0, end(p))
      BY <3>3, PartsJoined
    <3> QED BY <1>1, <1>2, <2>3, <3>2, <3>4
  <2>7. /\ rcv_nxt <= end(p) /\ end(p) # rcv_nxt
        /\ ring_buffer_used(rcv_buf) <= ring_buffer_used(w)
    <3>1. /\ rcv_nxt \in Nat /\ ring_buffer_used(rcv_buf) \in Nat
          /\ ring_buffer_used(st.ring) \in Nat
      BY <2>2, ContentsBytes DEF StreamInv, ReceiverOK
    <3> QED BY <1>1, <1>2, <2>2, <2>4, <3>1
  <2> QED BY <1>2, <2>1, <2>5, <2>6, <2>7 DEF Stages
<1> QED BY <1>3, <1>4

LEMMA Removed ==
    ASSUME NEW S, NEW s \in Seq(S), NEW i \in DOMAIN s
    PROVE  RemoveAt(s, i) \in Seq(S)
<1>1. i \in 1..Len(s) /\ Len(s) \in Nat /\ \A k \in 1..Len(s) : s[k] \in S
  OBVIOUS
<1>2. SubSeq(s, 1, i - 1) \in Seq(S) /\ SubSeq(s, i + 1, Len(s)) \in Seq(S)
  BY <1>1, SubSeqProperties
<1> QED BY <1>2, ConcatProperties DEF RemoveAt

LEMMA DrainStage ==
    ASSUME StreamInv, NEW st \in Stages
    PROVE  Drain(st) \in Stages
<1>1. /\ st \in [ring : Ring, nxt : Nat, ofo : Seq(Pieces), ok : BOOLEAN]
      /\ got \o Contents(st.ring) = Part(0, st.nxt)
      /\ rcv_nxt <= st.nxt /\ st.nxt <= snd_nxt
      /\ ring_buffer_used(rcv_buf) <= ring_buffer_used(st.ring)
      /\ st.nxt = rcv_nxt => st.ring = rcv_buf
  BY DEF Stages
<1> DEFINE first == CHOOSE i \in Due(st) : \A k \in Due(st) : i <= k
           t == [st EXCEPT !.ofo = RemoveAt(st.ofo, first)]
<1>2. CASE ~st.ok \/ Due(st) = {}
  BY <1>2 DEF Drain
<1>3. CASE ~(~st.ok \/ Due(st) = {})
  <2>1. Drain(st) = Store(t, st.ofo[first])
    BY <1>3 DEF Drain
  <2>2. st.ofo \in Seq(Pieces) /\ DOMAIN st.ofo \subseteq Nat
    BY <1>1
  <2>3. Due(st) \in SUBSET Nat
    BY <2>2 DEF Due
  <2>4. \E i \in Due(st) : \A k \in Due(st) : i <= k
    BY <1>3, <2>3, Least
  <2>5. first \in Due(st)
    BY <2>4
  <2> HIDE DEF first
  <2>6. first \in DOMAIN st.ofo /\ st.ofo[first].seq = st.nxt
    BY <2>5 DEF Due
  <2>7. st.ofo[first] \in Pieces /\ RemoveAt(st.ofo, first) \in Seq(Pieces)
    BY <2>2, <2>6, Removed
  <2>8. /\ t \in [ring : Ring, nxt : Nat, ofo : Seq(Pieces), ok : BOOLEAN]
        /\ t.ring = st.ring /\ t.nxt = st.nxt
    BY <1>1, <2>7
  <2> HIDE DEF t
  <2>9. t \in Stages
    BY <1>1, <2>8 DEF Stages
  <2> QED BY <2>1, <2>6, <2>7, <2>8, <2>9, StoreStage
<1> QED BY <1>2, <1>3

(* The rounds of handle_rcv_data, one after another.                       *)
LEMMA RoundsStages ==
    ASSUME StreamInv, NEW p \in Pieces, p.seq = rcv_nxt
    PROVE  \A n \in Nat : Rounds(p)[n] \in Stages
<1> DEFINE begin == [ring |-> rcv_buf, nxt |-> rcv_nxt, ofo |-> rcv_ofo_buf, ok |-> TRUE]
           F == [x \in Nat \X Stages |-> Drain(x[2])]
           s == Store(begin, p)
<1>1. s \in Stages
  <2>1. begin \in Stages
    <3>1. /\ rcv_buf \in Ring /\ rcv_nxt \in Nat /\ rcv_ofo_buf \in Seq(Pieces)
          /\ got \o Contents(rcv_buf) = Part(0, rcv_nxt) /\ rcv_nxt <= snd_nxt
      BY DEF StreamInv, LinkOK, ReceiverOK
    <3>2. ring_buffer_used(rcv_buf) <= ring_buffer_used(rcv_buf) /\ rcv_nxt <= rcv_nxt
      BY <3>1, ContentsBytes
    <3> QED BY <3>1, <3>2 DEF Stages
  <2>2. begin.nxt = rcv_nxt
    OBVIOUS
  <2> HIDE DEF begin
  <2> QED BY <2>1, <2>2, StoreStage
<1> HIDE DEF s
<1>2. F \in [Nat \X Stages -> Stages]
  BY DrainStage
<1>3. PICK f : Iterates(f, Stages, s, F)
  <2> HIDE DEF F
  <2> QED BY <1>1, <1>2, Iteration, Zenon
<1>4. f \in [Nat -> Stages] /\ f[0] = s /\ \A n \in Nat : f[n + 1] = Drain(f[n])
  BY <1>3 DEF Iterates
<1> DEFINE G(g) == [n \in Nat |-> IF n = 0 THEN s ELSE Drain(g[n - 1])]
<1>5. f = G(f)
  <2>1. ASSUME NEW n \in Nat PROVE f[n] = G(f)[n]
    <3>1. CASE n = 0
      BY <3>1, <1>4
    <3>2. CASE n # 0
      <4>1. n - 1 \in Nat /\ (n - 1) + 1 = n
        BY <3>2
      <4>2. f[n] = Drain(f[n - 1])
        BY <1>4, <4>1
      <4> QED BY <4>2, <3>2
    <3> QED BY <3>1, <3>2
  <2> QED BY <2>1, <1>4
<1>6. Rounds(p) = G(Rounds(p))
  BY <1>5 DEF Rounds, s
<1> HIDE DEF F
<1> DEFINE T == {n \in Nat : Rounds(p)[n] \in Stages}
<1>7. 0 \in T
  BY <1>1, <1>6
<1>8. ASSUME NEW n \in Nat, n \in T PROVE n + 1 \in T
  <2>1. (n + 1) - 1 = n /\ n + 1 \in Nat /\ n + 1 # 0
    OBVIOUS
  <2>2. G(Rounds(p))[n + 1] = Drain(Rounds(p)[(n + 1) - 1])
    BY <2>1
  <2> HIDE DEF G
  <2>3. Rounds(p)[n + 1] = Drain(Rounds(p)[n])
    BY <1>6, <2>1, <2>2
  <2>4. Drain(Rounds(p)[n]) \in Stages
    BY <1>8, DrainStage
  <2> QED BY <2>1, <2>3, <2>4
<1>9. \A n \in Nat : n \in T
  <2> HIDE DEF T
  <2> QED BY <1>7, <1>8, Successors
<1> QED BY <1>9

(* The pieces that an acknowledgement does not cover are kept, each as it  *)
(* was.                                                                    *)
LEMMA KeptSteps ==
    ASSUME NEW ack
    PROVE  /\ Kept(ack)[0] = <<>>
           /\ \A n \in Nat :
                Kept(ack)[n + 1] = IF end(send_buf[n + 1].piece) > ack
                                   THEN Append(Kept(ack)[n], send_buf[n + 1])
                                   ELSE Kept(ack)[n]
<1> DEFINE B == {send_buf[i] : i \in Nat}
           S == Seq(B)
           Round(n, x) == IF end(send_buf[n].piece) > ack THEN Append(x, send_buf[n]) ELSE x
           F == [x \in Nat \X S |-> Round(x[1] + 1, x[2])]
<1>1. F \in [Nat \X S -> S]
  <2>1. ASSUME NEW n \in Nat, NEW x \in S PROVE Round(n + 1, x) \in S
    <3>1. send_buf[n + 1] \in B
      OBVIOUS
    <3> HIDE DEF B
    <3> QED BY <3>1, AppendProperties
  <2> HIDE DEF Round, S
  <2> QED BY <2>1
<1>2. <<>> \in S
  <2> HIDE DEF B
  <2> QED OBVIOUS
<1> HIDE DEF Round, B
<1>3. PICK f : Iterates(f, S, <<>>, F)
  <2> HIDE DEF F, S
  <2> QED BY <1>1, <1>2, Iteration, Zenon
<1>4. f \in [Nat -> S] /\ f[0] = <<>> /\ \A n \in Nat : f[n + 1] = Round(n + 1, f[n])
  <2>1. f \in [Nat -> S] /\ f[0] = <<>> /\ \A n \in Nat : f[n + 1] = F[<<n, f[n]>>]
    <3> HIDE DEF F, S
    <3> QED BY <1>3 DEF Iterates
  <2> HIDE DEF S
  <2> QED BY <2>1
<1> DEFINE G(g) == [n \in Nat |-> IF n = 0 THEN <<>> ELSE Round(n, g[n - 1])]
<1>5. f = G(f)
  <2>1. ASSUME NEW n \in Nat PROVE f[n] = G(f)[n]
    <3>1. CASE n = 0
      BY <3>1, <1>4
    <3>2. CASE n # 0
      <4>1. n - 1 \in Nat /\ (n - 1) + 1 = n
        BY <3>2
      <4>2. f[n] = Round(n, f[n - 1])
        BY <1>4, <4>1
      <4> QED BY <4>2, <3>2
    <3> QED BY <3>1, <3>2
  <2> HIDE DEF S
  <2> QED BY <2>1, <1>4
<1>6. Kept(ack) = G(Kept(ack))
  BY <1>5 DEF Kept, Round
<1>7. Kept(ack)[0] = <<>>
  BY <1>6
<1>8. ASSUME NEW n \in Nat PROVE Kept(ack)[n + 1] = Round(n + 1, Kept(ack)[n])
  <2>1. (n + 1) - 1 = n /\ n + 1 \in Nat /\ n + 1 # 0
    OBVIOUS
  <2>2. G(Kept(ack))[n + 1] = Round(n + 1, Kept(ack)[(n + 1) - 1])
    BY <2>1
  <2> HIDE DEF G
  <2> QED BY <1>6, <2>1, <2>2
<1> QED BY <1>7, <1>8 DEF Round

LEMMA RangeGrows ==
    ASSUME NEW S, NEW s \in Seq(S), NEW e \in S
    PROVE  Append(s, e) \in Seq(S) /\ Range(Append(s, e)) = Range(s) \cup {e}
<1>1. /\ Append(s, e) \in Seq(S) /\ Len(Append(s, e)) = Len(s) + 1 /\ Len(s) \in Nat
      /\ \A i \in 1..Len(s) : Append(s, e)[i] = s[i]
      /\ Append(s, e)[Len(s) + 1] = e
  BY AppendProperties
<1>2. DOMAIN s = 1..Len(s) /\ DOMAIN Append(s, e) = 1..(Len(s) + 1)
  BY <1>1
<1> QED BY <1>1, <1>2 DEF Range

LEMMA UnackedAre ==
    ASSUME NEW S, send_buf \in Seq(S), NEW ack
    PROVE  /\ Unacked(ack) \in Seq(S)
           /\ \A b \in Range(send_buf) : end(b.piece) > ack => b \in Range(Unacked(ack))
<1> DEFINE T == {n \in 0..Len(send_buf) :
                   /\ Kept(ack)[n] \in Seq(S)
                   /\ \A i \in 1..n : end(send_buf[i].piece) > ack =>
                         send_buf[i] \in Range(Kept(ack)[n])}
<1>1. Len(send_buf) \in Nat /\ DOMAIN send_buf = 1..Len(send_buf)
  OBVIOUS
<1>2. 0 \in T
  <2>1. Kept(ack)[0] = <<>>
    BY KeptSteps
  <2>2. <<>> \in Seq(S) /\ 0 \in 0..Len(send_buf) /\ \A i \in 1..0 : FALSE
    BY <1>1
  <2> QED BY <2>1, <2>2
<1>3. ASSUME NEW n \in 0..(Len(send_buf) - 1), n \in T PROVE n + 1 \in T
  <2> DEFINE k == Kept(ack)[n]
             b == send_buf[n + 1]
             m == Kept(ack)[n + 1]
  <2>1. n + 1 \in 1..Len(send_buf) /\ b \in S /\ n \in Nat /\ n + 1 \in 0..Len(send_buf)
    BY <1>1
  <2>2. m = IF end(b.piece) > ack THEN Append(k, b) ELSE k
    BY <2>1, KeptSteps
  <2>3. k \in Seq(S) /\ \A i \in 1..n : end(send_buf[i].piece) > ack => send_buf[i] \in Range(k)
    BY <1>3
  <2> HIDE DEF k, b, m
  <2>4. Append(k, b) \in Seq(S) /\ Range(Append(k, b)) = Range(k) \cup {b}
    BY <2>1, <2>3, RangeGrows
  <2>5. m \in Seq(S)
    BY <2>2, <2>3, <2>4
  <2>6. ASSUME NEW i \in 1..(n + 1), end(send_buf[i].piece) > ack PROVE send_buf[i] \in Range(m)
    <3>1. CASE i \in 1..n
      BY <2>2, <2>3, <2>4, <2>6, <3>1
    <3>2. CASE i = n + 1
      BY <2>2, <2>4, <2>6, <3>2 DEF b
    <3> QED BY <2>1, <3>1, <3>2
  <2> QED BY <2>1, <2>5, <2>6 DEF m
<1>4. \A n \in 0..Len(send_buf) : n \in T
  <2> HIDE DEF T
  <2> QED BY <1>1, <1>2, <1>3, SuccessorsUpTo
<1>5. Len(send_buf) \in T
  BY <1>1, <1>4
<1> QED BY <1>1, <1>5 DEF Unacked, Range
-----------------------------------------------------------------------------
(* The invariant through every step: first what a step leaves alone.       *)
LEMMA PiecesSame ==
    ASSUME snd_nxt' = snd_nxt
    PROVE  Pieces' = Pieces /\ Kind' = Kind
<1>1. Pieces' = Pieces
  BY DEF Pieces
<1> QED BY <1>1 DEF Kind

LEMMA SenderSame ==
    ASSUME SenderOK, UNCHANGED sender
    PROVE  SenderOK'
<1>1. UNCHANGED <<snd_nxt, send_buf, timeout, exited>>
  BY DEF sender
<1>2. Kind' = Kind
  BY <1>1, PiecesSame
<1> QED BY <1>1, <1>2 DEF SenderOK

LEMMA ReceiverSame ==
    ASSUME ReceiverOK, UNCHANGED <<rcv_nxt, aborted, rcv_buf, wait_recv, reading>>
    PROVE  ReceiverOK'
  BY DEF ReceiverOK, reading

LEMMA LinkSame ==
    ASSUME LinkOK, UNCHANGED <<snd_nxt, data, acks, rcv_nxt, rcv_ofo_buf>>
    PROVE  LinkOK'
<1>1. Pieces' = Pieces
  BY PiecesSame
<1> QED BY <1>1 DEF LinkOK

LEMMA UnackedSame ==
    ASSUME UnackedKept, UNCHANGED <<snd_nxt, send_buf, rcv_nxt>>
    PROVE  UnackedKept'
  BY DEF UnackedKept

(* A piece of send_buf.                                                    *)
LEMMA KindFields ==
    ASSUME NEW b \in Kind
    PROVE  b.piece \in Pieces /\ b.number \in 0..3 /\ b = [piece |-> b.piece, number |-> b.number]
  BY DEF Kind

(* tcp_sock_write: what is sent is a part of the data, and is kept.        *)
LEMMA WriteInv ==
    ASSUME StreamInv, Write
    PROVE  StreamInv'
<1> DEFINE n == IF Left > Mss THEN Mss ELSE Left
           p == [seq |-> snd_nxt, bytes |-> SubSeq(Data, snd_nxt + 1, snd_nxt + n)]
           b == [piece |-> p, number |-> 0]
<1>1. /\ Left > 0 /\ snd_nxt' = end(p)
      /\ send_buf' = Append(send_buf, b)
      /\ timeout' = IF timeout = 0 THEN Interval ELSE timeout
      /\ data' = Append(data, p)
      /\ UNCHANGED <<exited, acks, receiver, rcv_buf, wait_recv, reading>>
  BY DEF Write, tcp_send_packet, tcp_sndbuf_push
<1>2. /\ snd_nxt \in Nat /\ snd_nxt <= Len(Data) /\ n \in Nat /\ n # 0
      /\ snd_nxt + n \in Nat /\ snd_nxt + n <= Len(Data) /\ snd_nxt <= snd_nxt + n
  <2>1. snd_nxt \in 0..Len(Data)
    BY DEF StreamInv, SenderOK
  <2>2. Mss \in Nat \ {0} /\ Len(Data) \in Nat
    BY StreamAssumption
  <2> QED BY <1>1, <2>1, <2>2 DEF Left
<1> HIDE DEF n
<1>3. p.seq = snd_nxt /\ p.bytes = Part(snd_nxt, snd_nxt + n)
  BY DEF Part
<1>4. p.bytes \in Seq(Byte) /\ Len(p.bytes) = n
  <2>1. Part(snd_nxt, snd_nxt + n) \in Seq(Byte)
        /\ Len(Part(snd_nxt, snd_nxt + n)) = (snd_nxt + n) - snd_nxt
    BY <1>2, PartBytes
  <2>2. (snd_nxt + n) - snd_nxt = n
    BY <1>2
  <2> QED BY <1>3, <2>1, <2>2
<1>5. end(p) = snd_nxt + n
  BY <1>3, <1>4 DEF end
<1>6. p \in Piece
  BY <1>2, <1>4 DEF Piece
<1> HIDE DEF p
<1>7. p.bytes # <<>>
  BY <1>2, <1>4
<1>8. p \in Pieces'
  <2>1. end(p) <= snd_nxt'
    BY <1>1, <1>2, <1>5
  <2> QED BY <1>3, <1>5, <1>6, <1>7, <2>1 DEF Pieces
<1>9. Pieces \subseteq Pieces'
  <2>1. ASSUME NEW q \in Pieces PROVE q \in Pieces'
    <3>1. end(q) \in Nat /\ end(q) <= snd_nxt
      BY PieceFields
    <3>2. end(q) <= snd_nxt'
      BY <1>1, <1>2, <1>5, <3>1
    <3> QED BY <3>2 DEF Pieces
  <2> QED BY <2>1
<1>10. Kind \subseteq Kind' /\ b \in Kind'
  BY <1>8, <1>9 DEF Kind
<1> HIDE DEF b
<1>11. send_buf \in Seq(Kind') /\ send_buf' \in Seq(Kind') /\ send_buf' # <<>>
       /\ Range(send_buf') = Range(send_buf) \cup {b}
  <2>1. send_buf \in Seq(Kind')
    BY <1>10, SeqMonotonic DEF StreamInv, SenderOK
  <2> QED BY <1>1, <1>10, <2>1, RangeGrows, AppendProperties
<1>12. data' \in Seq(Pieces') /\ rcv_ofo_buf' \in Seq(Pieces')
  <2>1. data \in Seq(Pieces') /\ rcv_ofo_buf \in Seq(Pieces')
    BY <1>9, SeqMonotonic DEF StreamInv, LinkOK
  <2> QED BY <1>1, <1>8, <2>1, AppendProperties DEF receiver
<1>13. SenderOK'
  <2>1. snd_nxt' \in 0..Len(Data)
    BY <1>1, <1>2, <1>5, DataLen
  <2>2. timeout' \in 0..(8 * Interval) /\ timeout' # 0 /\ exited' \in BOOLEAN
    <3>1. timeout \in 0..(8 * Interval) /\ exited \in BOOLEAN
      BY DEF StreamInv, SenderOK
    <3>2. Interval \in Nat \ {0}
      BY StreamAssumption
    <3> QED BY <1>1, <3>1, <3>2
  <2> QED BY <1>11, <2>1, <2>2 DEF SenderOK
<1>14. LinkOK'
  <2>1. rcv_nxt \in Nat /\ rcv_nxt <= snd_nxt /\ acks \in Seq(0..rcv_nxt)
    BY DEF StreamInv, LinkOK, ReceiverOK
  <2>2. rcv_nxt' = rcv_nxt /\ acks' = acks
    BY <1>1 DEF receiver
  <2>3. rcv_nxt' <= snd_nxt'
    BY <1>1, <1>2, <1>5, <2>1, <2>2
  <2> QED BY <1>12, <2>1, <2>2, <2>3 DEF LinkOK
<1>15. ReceiverOK'
  BY <1>1, ReceiverSame DEF StreamInv, receiver
<1>16. UnackedKept'
  <2> SUFFICES ASSUME NEW i \in (rcv_nxt + 1)..(snd_nxt + n)
               PROVE  \E c \in Range(send_buf) \cup {b} : Covers(c.piece, i)
    BY <1>1, <1>5, <1>11 DEF UnackedKept, receiver
  <2>1. rcv_nxt \in Nat
    BY DEF StreamInv, ReceiverOK
  <2>2. CASE i <= snd_nxt
    <3>1. i \in (rcv_nxt + 1)..snd_nxt
      BY <1>2, <2>1, <2>2
    <3> QED BY <3>1 DEF StreamInv, UnackedKept
  <2>3. CASE ~(i <= snd_nxt)
    <3>1. i \in (snd_nxt + 1)..(snd_nxt + n)
      BY <1>2, <2>1, <2>3
    <3>2. b.piece = p
      BY DEF b
    <3> QED BY <1>3, <1>5, <3>1, <3>2 DEF Covers
  <2> QED BY <2>2, <2>3
<1> QED BY <1>13, <1>14, <1>15, <1>16 DEF StreamInv

(* delete_send_buf: what is not acknowledged stays, and an acknowledgement *)
(* is never for what has not come.                                         *)
LEMMA AckInv ==
    ASSUME StreamInv, delete_send_buf
    PROVE  StreamInv'
<1> DEFINE rest == Unacked(Head(acks))
<1>1. /\ acks # <<>> /\ acks' = Tail(acks) /\ send_buf' = rest
      /\ timeout' = CASE rest = <<>> -> 0
                      [] rest # <<>> /\ rest # send_buf -> Interval
                      [] OTHER -> timeout
      /\ UNCHANGED <<snd_nxt, exited, data, receiver, rcv_buf, wait_recv, reading>>
  BY DEF delete_send_buf
<1>2. /\ send_buf \in Seq(Kind) /\ timeout \in 0..(8 * Interval) /\ exited \in BOOLEAN
      /\ snd_nxt \in 0..Len(Data) /\ (timeout = 0 <=> send_buf = <<>>)
      /\ rcv_nxt \in Nat /\ acks \in Seq(0..rcv_nxt)
  BY DEF StreamInv, SenderOK, LinkOK, ReceiverOK
<1>3. Head(acks) \in 0..rcv_nxt /\ Tail(acks) \in Seq(0..rcv_nxt)
  BY <1>1, <1>2, HeadTailProperties
<1>4. /\ rest \in Seq(Kind)
      /\ \A b \in Range(send_buf) : end(b.piece) > Head(acks) => b \in Range(rest)
  BY <1>2, UnackedAre
<1> HIDE DEF rest
<1>5. Pieces' = Pieces /\ Kind' = Kind
  BY <1>1, PiecesSame
<1>6. SenderOK'
  <2>1. Interval \in Nat \ {0}
    BY StreamAssumption
  <2>2. timeout' \in 0..(8 * Interval) /\ (timeout' = 0 <=> rest = <<>>)
    BY <1>1, <1>2, <2>1
  <2> QED BY <1>1, <1>2, <1>4, <1>5, <2>2 DEF SenderOK
<1>7. LinkOK'
  BY <1>1, <1>3, <1>5 DEF StreamInv, LinkOK, receiver
<1>8. ReceiverOK'
  BY <1>1, ReceiverSame DEF StreamInv, receiver
<1>9. UnackedKept'
  <2> SUFFICES ASSUME NEW i \in (rcv_nxt + 1)..snd_nxt
               PROVE  \E b \in Range(rest) : Covers(b.piece, i)
    BY <1>1 DEF UnackedKept, receiver
  <2>1. PICK b \in Range(send_buf) : Covers(b.piece, i)
    BY DEF StreamInv, UnackedKept
  <2>2. b \in Kind
    BY <1>2 DEF Range
  <2>3. end(b.piece) \in Nat
    BY <2>2, KindFields, PieceFields
  <2>4. end(b.piece) > Head(acks)
    <3>1. i <= end(b.piece)
      <4>1. b.piece.seq \in Nat
        BY <2>2, KindFields, PieceFields
      <4> QED BY <2>1, <2>3, <4>1 DEF Covers
    <3>2. i > rcv_nxt
      BY <1>2
    <3> QED BY <1>2, <1>3, <2>3, <3>1, <3>2
  <2> QED BY <1>4, <2>1, <2>4
<1> QED BY <1>6, <1>7, <1>8, <1>9 DEF StreamInv

(* The timer.  A piece that is sent again stays where it is.               *)
LEMMA TickInv ==
    ASSUME StreamInv, Tick
    PROVE  StreamInv'
<1>1. /\ timeout > 1 /\ timeout' = timeout - 1
      /\ UNCHANGED <<snd_nxt, send_buf, exited, data, acks, receiver, rcv_buf, wait_recv,
                     reading>>
  BY DEF Tick
<1>2. SenderOK'
  <2>1. timeout \in 0..(8 * Interval) /\ exited \in BOOLEAN /\ (timeout = 0 <=> send_buf = <<>>)
        /\ snd_nxt \in 0..Len(Data) /\ send_buf \in Seq(Kind)
    BY DEF StreamInv, SenderOK
  <2>2. Interval \in Nat
    BY StreamAssumption
  <2>3. timeout' \in 0..(8 * Interval) /\ timeout' # 0 /\ timeout # 0
    BY <1>1, <2>1, <2>2
  <2> QED BY <1>1, <2>1, <2>3, PiecesSame DEF SenderOK
<1> QED BY <1>1, <1>2, LinkSame, ReceiverSame, UnackedSame DEF StreamInv, receiver

LEMMA GiveUpInv ==
    ASSUME StreamInv, GiveUp
    PROVE  StreamInv'
<1>1. /\ exited' = TRUE
      /\ UNCHANGED <<snd_nxt, send_buf, timeout, data, acks, receiver, rcv_buf, wait_recv,
                     reading>>
  BY DEF GiveUp
<1>2. SenderOK'
  BY <1>1, PiecesSame DEF StreamInv, SenderOK
<1> QED BY <1>1, <1>2, LinkSame, ReceiverSame, UnackedSame DEF StreamInv, receiver

LEMMA RetransmitInv ==
    ASSUME StreamInv, Retransmit
    PROVE  StreamInv'
<1> DEFINE h == Head(send_buf)
           first == Again(h)
<1>1. /\ timeout = 1 /\ h.number < 3
      /\ send_buf' = [send_buf EXCEPT ![1] = first]
      /\ timeout' = Interval * 2 ^ first.number
      /\ data' = Append(data, first.piece)
      /\ UNCHANGED <<snd_nxt, exited, acks, receiver, rcv_buf, wait_recv, reading>>
  BY DEF Retransmit
<1>2. send_buf \in Seq(Kind) /\ send_buf # <<>>
  BY <1>1 DEF StreamInv, SenderOK
<1>3. h \in Kind /\ 1 \in 1..Len(send_buf) /\ h = send_buf[1]
  BY <1>2
<1> HIDE DEF h
<1>4. /\ first \in Kind /\ first.piece = h.piece
      /\ first.number \in {1, 2, 3}
  <2>1. /\ h.number \in 0..3 /\ h.number + 1 \in {1, 2, 3} /\ h.number + 1 \in 0..3
        /\ h.piece \in Pieces
    BY <1>1, <1>3, KindFields
  <2>2. first = [piece |-> h.piece, number |-> h.number + 1]
    BY <1>3, KindFields DEF Again
  <2> HIDE DEF first
  <2> QED BY <2>1, <2>2 DEF Kind
<1> HIDE DEF first
<1>5. timeout' \in 0..(8 * Interval) /\ timeout' # 0
  <2>1. 2 ^ 1 = 2 /\ 2 ^ 2 = 4 /\ 2 ^ 3 = 8
    OBVIOUS
  <2>2. 2 ^ first.number \in {2, 4, 8}
    BY <1>4, <2>1
  <2>3. Interval \in Nat \ {0}
    BY StreamAssumption
  <2> QED BY <1>1, <2>2, <2>3
<1>6. /\ send_buf' \in Seq(Kind) /\ send_buf' # <<>>
      /\ \A b \in Range(send_buf) : \E c \in Range(send_buf') : c.piece = b.piece
  <2>1. /\ send_buf' \in Seq(Kind) /\ Len(send_buf') = Len(send_buf)
        /\ \A i \in 1..Len(send_buf) : send_buf'[i] = IF i = 1 THEN first ELSE send_buf[i]
    BY <1>1, <1>2, <1>3, <1>4, ExceptSeq
  <2>2. send_buf' # <<>>
    BY <1>2, <2>1
  <2>3. DOMAIN send_buf = 1..Len(send_buf) /\ DOMAIN send_buf' = 1..Len(send_buf)
    BY <1>2, <2>1
  <2>4. ASSUME NEW i \in 1..Len(send_buf) PROVE send_buf'[i].piece = send_buf[i].piece
    BY <1>3, <1>4, <2>1
  <2> QED BY <2>1, <2>2, <2>3, <2>4 DEF Range
<1>7. Pieces' = Pieces /\ Kind' = Kind
  BY <1>1, PiecesSame
<1>8. SenderOK'
  <2>1. snd_nxt \in 0..Len(Data) /\ exited \in BOOLEAN
    BY DEF StreamInv, SenderOK
  <2> QED BY <1>1, <1>5, <1>6, <1>7, <2>1 DEF SenderOK
<1>9. LinkOK'
  <2>1. first.piece \in Pieces
    BY <1>4, KindFields
  <2>2. data' \in Seq(Pieces)
    BY <1>1, <2>1, AppendProperties DEF StreamInv, LinkOK
  <2> QED BY <1>1, <1>7, <2>2 DEF StreamInv, LinkOK, receiver
<1>10. ReceiverOK'
  BY <1>1, ReceiverSame DEF StreamInv, receiver
<1>11. UnackedKept'
  <2> SUFFICES ASSUME NEW i \in (rcv_nxt + 1)..snd_nxt
               PROVE  \E c \in Range(send_buf') : Covers(c.piece, i)
    BY <1>1 DEF UnackedKept, receiver
  <2>1. PICK b \in Range(send_buf) : Covers(b.piece, i)
    BY DEF StreamInv, UnackedKept
  <2>2. PICK c \in Range(send_buf') : c.piece = b.piece
    BY <1>6
  <2> QED BY <2>1, <2>2
<1> QED BY <1>8, <1>9, <1>10, <1>11 DEF StreamInv

(* The receiver's packet thread.                                           *)
LEMMA ArrivesPiece ==
    ASSUME LinkOK, Arrives
    PROVE  Head(data) \in Pieces /\ data' \in Seq(Pieces)
<1>1. data \in Seq(Pieces) /\ data # <<>> /\ data' = Tail(data)
  BY DEF LinkOK, Arrives
<1> QED BY <1>1, HeadTailProperties

LEMMA WaitStructs ==
    ASSUME NEW w \in WaitStruct
    PROVE  /\ wake_up(w) \in WaitStruct /\ EnterSleep(w) \in WaitStruct
           /\ LeaveSleep(w) \in WaitStruct
  BY DEF WaitStruct, wake_up, EnterSleep, LeaveSleep

LEMMA InOrderStage ==
    ASSUME StreamInv, RcvInOrder
    PROVE  InOrder(Head(data)) \in Stages
<1>1. Head(data) \in Pieces /\ Head(data).seq = rcv_nxt
  BY ArrivesPiece DEF StreamInv, RcvInOrder
<1>2. Len(rcv_ofo_buf) \in Nat
  BY DEF StreamInv, LinkOK
<1> QED BY <1>1, <1>2, RoundsStages DEF InOrder

LEMMA RcvInOrderInv ==
    ASSUME StreamInv, RcvInOrder
    PROVE  StreamInv'
<1> DEFINE st == InOrder(Head(data))
<1>1. /\ Arrives
      /\ rcv_buf' = st.ring /\ rcv_nxt' = st.nxt /\ rcv_ofo_buf' = st.ofo
      /\ aborted' = ~st.ok
      /\ IF st.ok THEN SendAck(st.nxt) ELSE UNCHANGED acks
      /\ wait_recv' = IF st.ok /\ wait_recv.sleep THEN wake_up(wait_recv) ELSE wait_recv
      /\ UNCHANGED <<sender, reading>>
  BY DEF RcvInOrder
<1>2. st \in Stages
  BY InOrderStage
<1> HIDE DEF st
<1>3. /\ st.ring \in Ring /\ st.nxt \in Nat /\ st.ofo \in Seq(Pieces)
      /\ got \o Contents(st.ring) = Part(0, st.nxt)
      /\ rcv_nxt <= st.nxt /\ st.nxt <= snd_nxt
      /\ ring_buffer_used(rcv_buf) <= ring_buffer_used(st.ring)
  BY <1>2 DEF Stages
<1>4. UNCHANGED <<snd_nxt, send_buf, timeout, exited>> /\ UNCHANGED <<reader, length, got>>
  BY <1>1 DEF sender, reading
<1>5. SenderOK'
  BY <1>1, SenderSame DEF StreamInv
<1>6. LinkOK'
  <2>1. data' \in Seq(Pieces) /\ Pieces' = Pieces
    BY <1>1, <1>4, ArrivesPiece, PiecesSame DEF StreamInv
  <2>2. acks' \in Seq(0..st.nxt)
    <3>1. rcv_nxt \in Nat /\ acks \in Seq(0..rcv_nxt)
      BY DEF StreamInv, LinkOK, ReceiverOK
    <3>2. 0..rcv_nxt \subseteq 0..st.nxt /\ st.nxt \in 0..st.nxt
      BY <1>3, <3>1
    <3>3. acks \in Seq(0..st.nxt)
      BY <3>1, <3>2, SeqMonotonic
    <3>4. Append(acks, st.nxt) \in Seq(0..st.nxt)
      BY <3>2, <3>3, AppendProperties
    <3> QED BY <1>1, <3>3, <3>4 DEF SendAck
  <2> QED BY <1>1, <1>3, <1>4, <2>1, <2>2 DEF LinkOK
<1>7. ReceiverOK'
  <2>1. wait_recv' \in WaitStruct
    BY <1>1, WaitStructs DEF StreamInv, ReceiverOK
  <2>2. reader' = "copy" => length' <= ring_buffer_used(rcv_buf')
    <3>1. /\ ring_buffer_used(rcv_buf) \in Nat /\ ring_buffer_used(st.ring) \in Nat
          /\ length \in 0..Capacity /\ Capacity \in Nat
          /\ reader = "copy" => length <= ring_buffer_used(rcv_buf)
      BY <1>3, ContentsBytes, Sizes DEF StreamInv, ReceiverOK
    <3> QED BY <1>1, <1>3, <1>4, <3>1
  <2>3. /\ reader \in {"look", "sleep", "asleep", "read", "again", "copy"}
        /\ length \in 0..Capacity /\ got \in Seq(Byte)
    BY DEF StreamInv, ReceiverOK
  <2>4. aborted' \in BOOLEAN
    BY <1>1
  <2> QED BY <1>1, <1>3, <1>4, <2>1, <2>2, <2>3, <2>4 DEF ReceiverOK
<1>8. UnackedKept'
  <2> SUFFICES ASSUME NEW i \in (st.nxt + 1)..snd_nxt
               PROVE  \E b \in Range(send_buf) : Covers(b.piece, i)
    BY <1>1, <1>4 DEF UnackedKept
  <2>1. i \in (rcv_nxt + 1)..snd_nxt
    <3>1. rcv_nxt \in Nat /\ snd_nxt \in Nat
      BY DEF StreamInv, SenderOK, ReceiverOK
    <3> QED BY <1>3, <3>1
  <2> QED BY <2>1 DEF StreamInv, UnackedKept
<1> QED BY <1>5, <1>6, <1>7, <1>8 DEF StreamInv

LEMMA RcvLaterInv ==
    ASSUME StreamInv, RcvLater
    PROVE  StreamInv'
<1>1. /\ Arrives /\ rcv_ofo_buf' = Append(rcv_ofo_buf, Head(data))
      /\ UNCHANGED <<sender, acks, rcv_nxt, aborted, rcv_buf, wait_recv, reading>>
  BY DEF RcvLater
<1>2. LinkOK'
  <2>1. Head(data) \in Pieces /\ data' \in Seq(Pieces) /\ Pieces' = Pieces
    BY <1>1, ArrivesPiece, PiecesSame DEF StreamInv, sender
  <2>2. rcv_ofo_buf' \in Seq(Pieces)
    BY <1>1, <2>1, AppendProperties DEF StreamInv, LinkOK
  <2> QED BY <1>1, <2>1, <2>2 DEF StreamInv, LinkOK, sender
<1> QED BY <1>1, <1>2, SenderSame, ReceiverSame, UnackedSame DEF StreamInv, sender

LEMMA RcvAgainInv ==
    ASSUME StreamInv, RcvAgain
    PROVE  StreamInv'
<1>1. /\ Arrives /\ acks' = Append(acks, rcv_nxt)
      /\ UNCHANGED <<sender, receiver, rcv_buf, wait_recv, reading>>
  BY DEF RcvAgain, SendAck
<1>2. LinkOK'
  <2>1. data' \in Seq(Pieces) /\ Pieces' = Pieces
    BY <1>1, ArrivesPiece, PiecesSame DEF StreamInv, sender
  <2>2. rcv_nxt \in 0..rcv_nxt /\ acks \in Seq(0..rcv_nxt)
    BY DEF StreamInv, LinkOK, ReceiverOK
  <2>3. acks' \in Seq(0..rcv_nxt)
    BY <1>1, <2>2, AppendProperties
  <2> QED BY <1>1, <2>1, <2>3 DEF StreamInv, LinkOK, sender, receiver
<1> QED BY <1>1, <1>2, SenderSame, ReceiverSame, UnackedSame DEF StreamInv, sender, receiver

(* What is left when the end of a sequence is cut off has the same values. *)
LEMMA FrontValues ==
    ASSUME NEW S, NEW T, S \subseteq T, NEW s \in Seq(T), NEW t \in Seq(T), s \o t \in Seq(S)
    PROVE  s \in Seq(S)
<1>1. /\ Len(s) \in Nat /\ Len(s \o t) = Len(s) + Len(t) /\ Len(t) \in Nat
      /\ \A i \in 1..Len(s) : (s \o t)[i] = s[i]
  BY ConcatProperties
<1>2. \A i \in 1..Len(s) : i \in 1..Len(s \o t)
  BY <1>1
<1>3. \A i \in 1..Len(s) : s[i] \in S
  BY <1>1, <1>2, ElementOfSeq
<1>4. s = [i \in 1..Len(s) |-> s[i]]
  OBVIOUS
<1> QED BY <1>1, <1>3, <1>4, IsASeq

(* tcp_sock_read: the bytes go from the buffer to the application.         *)
LEMMA ReadMoves ==
    ASSUME StreamInv, ReadEnd
    PROVE  /\ Advance(rcv_buf, length) \in Ring /\ got' \in Seq(Byte)
           /\ FromHead(rcv_buf, length) \in Seq(Byte \cup {Zero})
           /\ got' \o Contents(Advance(rcv_buf, length)) = Part(0, rcv_nxt)
<1> DEFINE S == Byte \cup {Zero}
           f == FromHead(rcv_buf, length)
           a == Advance(rcv_buf, length)
           c == Contents(a)
           n == length
<1>1. /\ reader = "copy" /\ got' = got \o f
  BY DEF ReadEnd
<1>2. /\ rcv_buf \in Ring /\ n \in Nat /\ n <= ring_buffer_used(rcv_buf)
      /\ got \in Seq(Byte) /\ got \o Contents(rcv_buf) = Part(0, rcv_nxt)
      /\ rcv_nxt \in Nat /\ rcv_nxt <= Len(Data)
  <2>1. snd_nxt \in 0..Len(Data) /\ rcv_nxt \in Nat /\ rcv_nxt <= snd_nxt
    BY DEF StreamInv, SenderOK, LinkOK, ReceiverOK
  <2>2. Capacity \in Nat
    BY Sizes
  <2> QED BY <1>1, <2>1, <2>2, DataLen DEF StreamInv, ReceiverOK
<1>3. n < Size /\ n \in 0..ring_buffer_used(rcv_buf)
  BY <1>2, Fields, Sizes
<1>4. f \in Seq(S)
  BY <1>2, <1>3, Cells
<1>5. a \in Ring /\ f \o c = Contents(rcv_buf)
  BY <1>2, <1>3, ReadTakes
<1>6. c \in Seq(S) /\ got \in Seq(S)
  BY <1>2, <1>5, ContentsBytes, BytesInCells
<1> HIDE DEF S, f, a, c
<1>7. (got \o f) \o c = got \o (f \o c)
  BY <1>4, <1>6, ConcatAssociative
<1>8. got' \o c = Part(0, rcv_nxt)
  BY <1>1, <1>2, <1>5, <1>7
<1>9. got' \in Seq(S)
  BY <1>1, <1>4, <1>6, ConcatProperties
<1>10. got' \in Seq(Byte)
  <2>1. got' \o c \in Seq(Byte)
    <3>1. 0 \in Nat /\ 0 <= rcv_nxt
      BY <1>2
    <3> QED BY <1>2, <1>8, <3>1, PartBytes
  <2>2. Byte \subseteq S
    BY DEF S
  <2> QED BY <1>6, <1>9, <2>1, <2>2, FrontValues
<1> QED BY <1>4, <1>5, <1>8, <1>10 DEF S, f, a, c

LEMMA ReadInv ==
    ASSUME StreamInv, ReadLook \/ ReadSleep \/ ReadWake \/ ReadBegin \/ ReadAgain \/ ReadEnd
    PROVE  StreamInv'
<1>1. /\ UNCHANGED <<sender, receiver, data, acks>>
      /\ UNCHANGED <<snd_nxt, send_buf, timeout, exited, rcv_nxt, rcv_ofo_buf, aborted>>
  BY DEF ReadLook, ReadSleep, ReadWake, ReadBegin, ReadAgain, ReadEnd, sender, receiver
<1>2. SenderOK' /\ LinkOK' /\ UnackedKept'
  BY <1>1, SenderSame, LinkSame, UnackedSame DEF StreamInv
<1>3. /\ rcv_nxt \in Nat /\ aborted \in BOOLEAN
      /\ rcv_buf \in Ring /\ wait_recv \in WaitStruct
      /\ reader \in {"look", "sleep", "asleep", "read", "again", "copy"}
      /\ length \in 0..Capacity /\ got \in Seq(Byte)
      /\ got \o Contents(rcv_buf) = Part(0, rcv_nxt)
      /\ reader = "copy" => length <= ring_buffer_used(rcv_buf)
  BY DEF StreamInv, ReceiverOK
<1>4. ASSUME ReadLook \/ ReadSleep \/ ReadWake PROVE ReceiverOK'
  <2>1. /\ wait_recv' \in {wait_recv, EnterSleep(wait_recv), LeaveSleep(wait_recv)}
        /\ reader' \in {"look", "sleep", "asleep", "read"}
        /\ UNCHANGED <<rcv_buf, length, got>>
    BY <1>4 DEF ReadLook, ReadSleep, ReadWake
  <2>2. wait_recv' \in WaitStruct
    BY <1>3, <2>1, WaitStructs
  <2>3. reader' # "copy" /\ reader' \in {"look", "sleep", "asleep", "read", "again", "copy"}
    BY <2>1
  <2> QED BY <1>1, <1>3, <2>1, <2>2, <2>3 DEF ReceiverOK
<1>5. ASSUME ReadBegin \/ ReadAgain PROVE ReceiverOK'
  <2>1. /\ UNCHANGED <<rcv_buf, wait_recv, got>>
        /\ reader' \in {"again", "copy"}
        /\ \/ length' = length /\ reader' # "copy"
           \/ length' = ReadSize /\ ring_buffer_used(rcv_buf) >= ReadSize
           \/ length' = ring_buffer_used(rcv_buf)
    BY <1>5 DEF ReadBegin, ReadAgain
  <2>2. /\ ring_buffer_used(rcv_buf) \in Nat /\ ring_buffer_used(rcv_buf) <= Capacity
        /\ Capacity \in Nat /\ ReadSize \in Nat
    BY <1>3, ContentsBytes, Sizes, StreamAssumption
  <2>3. length' \in 0..Capacity /\ (reader' = "copy" => length' <= ring_buffer_used(rcv_buf))
    BY <1>3, <2>1, <2>2
  <2>4. reader' \in {"look", "sleep", "asleep", "read", "again", "copy"}
    BY <2>1
  <2> QED BY <1>1, <1>3, <2>1, <2>3, <2>4 DEF ReceiverOK
<1>6. ASSUME ReadEnd PROVE ReceiverOK'
  <2>1. /\ reader' = "look" /\ length' = 0 /\ rcv_buf' = Advance(rcv_buf, length)
        /\ wait_recv' = wake_up(wait_recv)
    BY <1>6 DEF ReadEnd
  <2>2. /\ rcv_buf' \in Ring /\ got' \in Seq(Byte)
        /\ got' \o Contents(rcv_buf') = Part(0, rcv_nxt)
    BY <1>6, <2>1, ReadMoves
  <2>3. wait_recv' \in WaitStruct /\ length' \in 0..Capacity
    BY <1>3, <2>1, WaitStructs, Sizes
  <2> QED BY <1>1, <1>3, <2>1, <2>2, <2>3 DEF ReceiverOK
<1>7. ReceiverOK'
  BY <1>4, <1>5, <1>6
<1> QED BY <1>2, <1>7 DEF StreamInv

(* The link.                                                               *)
LEMMA LoseInv ==
    ASSUME StreamInv, LoseData \/ LoseAck
    PROVE  StreamInv'
<1>1. /\ UNCHANGED <<sender, receiver, rcv_buf, wait_recv, reading>>
      /\ UNCHANGED <<snd_nxt, send_buf, rcv_nxt, rcv_ofo_buf, aborted>>
      /\ \/ data # <<>> /\ data' = Tail(data) /\ acks' = acks
         \/ acks # <<>> /\ acks' = Tail(acks) /\ data' = data
  BY DEF LoseData, LoseAck, sender, receiver
<1>2. LinkOK'
  <2>1. data' \in Seq(Pieces) /\ acks' \in Seq(0..rcv_nxt)
    BY <1>1, HeadTailProperties DEF StreamInv, LinkOK
  <2> QED BY <1>1, <2>1, PiecesSame DEF StreamInv, LinkOK
<1> QED BY <1>1, <1>2, SenderSame, ReceiverSame, UnackedSame DEF StreamInv

LEMMA StreamInvInit == Init => StreamInv
<1> SUFFICES ASSUME Init PROVE StreamInv
  OBVIOUS
<1>1. /\ snd_nxt = 0 /\ send_buf = <<>> /\ timeout = 0 /\ exited = FALSE
      /\ data = <<>> /\ acks = <<>>
      /\ rcv_nxt = 0 /\ rcv_ofo_buf = <<>> /\ aborted = FALSE
      /\ rcv_buf = alloc_ring_buffer
      /\ wait_recv = alloc_wait_struct
      /\ reader = "look" /\ length = 0 /\ got = <<>>
  BY DEF Init
<1>2. Interval \in Nat /\ Capacity \in Nat
  BY StreamAssumption, Sizes
<1>3. SenderOK
  <2>1. 0 \in 0..Len(Data) /\ 0 \in 0..(8 * Interval) /\ FALSE \in BOOLEAN
    BY <1>2, DataLen
  <2>2. send_buf \in Seq(Kind) /\ (timeout = 0 <=> send_buf = <<>>)
    <3>1. <<>> \in Seq(Kind)
      OBVIOUS
    <3> QED BY <1>1, <3>1
  <2>3. snd_nxt \in 0..Len(Data) /\ timeout \in 0..(8 * Interval) /\ exited \in BOOLEAN
    BY <1>1, <2>1
  <2> QED BY <2>2, <2>3 DEF SenderOK
<1>4. LinkOK
  BY <1>1 DEF LinkOK
<1>5. ReceiverOK
  <2>1. got \o Contents(rcv_buf) = Part(0, rcv_nxt)
    <3>1. Part(0, 0) \in Seq(Byte) /\ Len(Part(0, 0)) = 0 - 0
      BY DataLen, PartBytes
    <3>2. Part(0, 0) = <<>>
      BY <3>1
    <3> QED BY <1>1, <3>2, AllocEmpty
  <2>2. wait_recv \in WaitStruct
    BY <1>1 DEF alloc_wait_struct, WaitStruct
  <2>3. rcv_buf \in Ring /\ reader # "copy" /\ length \in 0..Capacity /\ got \in Seq(Byte)
    BY <1>1, <1>2, AllocEmpty
  <2> QED BY <1>1, <2>1, <2>2, <2>3 DEF ReceiverOK
<1>6. UnackedKept
  BY <1>1 DEF UnackedKept
<1> QED BY <1>3, <1>4, <1>5, <1>6 DEF StreamInv

LEMMA StreamInvNext == StreamInv /\ [Next]_vars => StreamInv'
<1> SUFFICES ASSUME StreamInv, [Next]_vars PROVE StreamInv'
  OBVIOUS
<1>1. CASE Write
  BY <1>1, WriteInv
<1>2. CASE delete_send_buf
  BY <1>2, AckInv
<1>3. CASE Scan
  BY <1>3, TickInv, RetransmitInv, GiveUpInv DEF Scan
<1>4. CASE RcvInOrder \/ RcvLater \/ RcvAgain
  BY <1>4, RcvInOrderInv, RcvLaterInv, RcvAgainInv
<1>5. CASE ReadLook \/ ReadSleep \/ ReadWake \/ ReadBegin \/ ReadAgain \/ ReadEnd
  BY <1>5, ReadInv
<1>6. CASE LoseData \/ LoseAck
  BY <1>6, LoseInv
<1>7. CASE UNCHANGED vars
  <2>1. UNCHANGED <<sender, data, acks, receiver, rcv_buf, wait_recv, reading>>
    BY <1>7 DEF vars
  <2>2. UNCHANGED <<snd_nxt, send_buf, rcv_nxt, rcv_ofo_buf, aborted>>
    BY <2>1 DEF sender, receiver
  <2> QED BY <2>1, <2>2, SenderSame, LinkSame, ReceiverSame, UnackedSame DEF StreamInv
<1> QED BY <1>1, <1>2, <1>3, <1>4, <1>5, <1>6, <1>7 DEF Next

THEOREM StreamInvariant == Spec => []StreamInv
  BY StreamInvInit, StreamInvNext, PTL DEF Spec

LEMMA InvTypes == StreamInv => TypeOK
<1> SUFFICES ASSUME StreamInv PROVE TypeOK
  OBVIOUS
<1>1. Pieces \subseteq Piece /\ Kind \subseteq [piece : Piece, number : 0..3]
      /\ 0..rcv_nxt \subseteq Nat
  BY DEF Pieces, Kind
<1>2. /\ send_buf \in Seq([piece : Piece, number : 0..3])
      /\ data \in Seq(Piece) /\ rcv_ofo_buf \in Seq(Piece) /\ acks \in Seq(Nat)
  BY <1>1, SeqMonotonic DEF StreamInv, SenderOK, LinkOK
<1> QED BY <1>2 DEF StreamInv, SenderOK, LinkOK, ReceiverOK, TypeOK

(* Every variable keeps its type; a timer waits exactly while something is *)
(* unacknowledged, and never for more than eight intervals.                *)
THEOREM StreamTypes == Spec => []TypeOK
  BY StreamInvariant, InvTypes, PTL

(* Whatever the link loses, however often a piece is sent again and in     *)
(* whatever order the pieces come: a byte that was written and has not     *)
(* come in order is still in send_buf.                                     *)
THEOREM StreamUnackedKept == Spec => []UnackedKept
<1>1. StreamInv => UnackedKept
  BY DEF StreamInv
<1> QED BY <1>1, StreamInvariant, PTL

(* The abstract stream: each step brings more of what was written, or      *)
(* reads more of what has come, or is none of its business.                *)
received == got \o Contents(rcv_buf)

LEMMA ReceivedPart == StreamInv => received = Part(0, rcv_nxt)
  BY DEF StreamInv, ReceiverOK, received

LEMMA RefinesInit == Init => Stream!StreamInit
  BY AllocEmpty DEF Init, Stream!StreamInit

LEMMA RefinesCome ==
    ASSUME StreamInv, RcvInOrder
    PROVE  Stream!Come \/ UNCHANGED <<received, got>>
<1> DEFINE st == InOrder(Head(data))
<1>1. rcv_buf' = st.ring /\ got' = got
  BY DEF RcvInOrder, reading
<1>2. st \in Stages
  BY InOrderStage
<1> HIDE DEF st
<1>3. /\ got \o Contents(st.ring) = Part(0, st.nxt) /\ st.nxt \in Nat
      /\ rcv_nxt <= st.nxt /\ st.nxt <= snd_nxt
      /\ st.nxt = rcv_nxt => st.ring = rcv_buf
  BY <1>2 DEF Stages
<1>4. received' = Part(0, st.nxt)
  BY <1>1, <1>3 DEF received
<1>5. CASE st.nxt = rcv_nxt
  BY <1>1, <1>3, <1>4, <1>5 DEF received
<1>6. CASE st.nxt # rcv_nxt
  <2>1. rcv_nxt \in Nat /\ rcv_nxt < st.nxt /\ st.nxt <= Len(Data)
    <3>1. snd_nxt \in 0..Len(Data) /\ rcv_nxt \in Nat
      BY DEF StreamInv, SenderOK, ReceiverOK
    <3> QED BY <1>3, <1>6, <3>1, DataLen
  <2>2. Stream!Extends(Part(0, rcv_nxt), Part(0, st.nxt), Data)
    BY <1>3, <2>1, PartsExtend
  <2>3. Stream!Extends(received, received', Data)
    BY <1>4, <2>2, ReceivedPart
  <2> QED BY <1>1, <2>3 DEF Stream!Come, received
<1> QED BY <1>5, <1>6

LEMMA RefinesRead ==
    ASSUME StreamInv, ReadEnd
    PROVE  Stream!Read \/ UNCHANGED <<received, got>>
<1> DEFINE S == Byte \cup {Zero}
           f == FromHead(rcv_buf, length)
<1>1. got' = got \o f /\ rcv_buf' = Advance(rcv_buf, length)
  BY DEF ReadEnd
<1>2. /\ rcv_buf' \in Ring /\ f \in Seq(S) /\ got' \in Seq(Byte)
      /\ got' \o Contents(rcv_buf') = Part(0, rcv_nxt)
  BY <1>1, ReadMoves
<1>3. received' = received
  BY <1>2, ReceivedPart DEF received
<1>4. got \in Seq(S) /\ got' \in Seq(S) /\ Contents(rcv_buf') \in Seq(S)
  BY <1>2, ContentsBytes, BytesInCells DEF StreamInv, ReceiverOK
<1> HIDE DEF S, f
<1>5. CASE f = <<>>
  <2>1. got' = got
    BY <1>1, <1>4, <1>5
  <2> QED BY <1>3, <2>1
<1>6. CASE f # <<>>
  <2>1. IsStrictPrefix(got, got')
    BY <1>1, <1>2, <1>4, <1>6, Continued DEF IsStrictPrefix
  <2>2. IsPrefix(got', received)
    <3>1. received = got' \o Contents(rcv_buf')
      BY <1>3 DEF received
    <3> DEFINE c == Contents(rcv_buf')
    <3>2. received = got' \o c /\ c \in Seq(S)
      BY <3>1, <1>4
    <3> HIDE DEF c
    <3> QED BY <1>4, <3>2, Continued
  <2>3. Stream!Extends(got, got', received)
    BY <2>1, <2>2
       DEF Stream!Extends, Stream!IsStrictPrefix, Stream!IsPrefix, IsStrictPrefix, IsPrefix
  <2> QED BY <1>3, <2>3 DEF Stream!Read, received
<1> QED BY <1>5, <1>6

LEMMA RefinesNext ==
    StreamInv /\ [Next]_vars => [Stream!Come \/ Stream!Read]_<<received, got>>
<1> SUFFICES ASSUME StreamInv, [Next]_vars
             PROVE  Stream!Come \/ Stream!Read \/ UNCHANGED <<received, got>>
  OBVIOUS
<1>1. CASE RcvInOrder
  BY <1>1, RefinesCome
<1>2. CASE ReadEnd
  BY <1>2, RefinesRead
<1>3. ASSUME \/ Write \/ delete_send_buf \/ Scan \/ RcvLater \/ RcvAgain
             \/ ReadLook \/ ReadSleep \/ ReadWake \/ ReadBegin \/ ReadAgain
             \/ LoseData \/ LoseAck \/ UNCHANGED vars
      PROVE  UNCHANGED <<rcv_buf, got>>
  BY <1>3 DEF Write, delete_send_buf, Scan, Tick, Retransmit, GiveUp, RcvLater, RcvAgain,
              ReadLook, ReadSleep, ReadWake, ReadBegin, ReadAgain, LoseData, LoseAck, vars,
              reading
<1>4. UNCHANGED <<rcv_buf, got>> => UNCHANGED <<received, got>>
  BY DEF received
<1> QED BY <1>1, <1>2, <1>3, <1>4 DEF Next

(* Through losses, retransmissions, pieces before their turn and the wrap  *)
(* of the ring buffer, the receiver has a prefix of what was written, and  *)
(* its application reads it in order, each byte once.                      *)
THEOREM StreamImplementsByteStream == Spec => ImplementsStream
<1>1. Init => Stream!StreamInit
  BY RefinesInit
<1>2. StreamInv /\ [Next]_vars
      => [Stream!Come \/ Stream!Read]_<<got \o Contents(rcv_buf), got>>
  BY RefinesNext DEF received
<1> QED BY <1>1, <1>2, StreamInvariant, PTL DEF Spec, ImplementsStream, Stream!StreamSpec
=============================================================================
