----------------------------- MODULE TcpStream -----------------------------
(***************************************************************************)
(* The data of a connection in 12-tcp_stack, in one direction: tcp_sock.c's*)
(* write and read, handle_rcv_data with the ring buffer and rcv_ofo_buf,   *)
(* and the retransmission timer.  The connection is ESTABLISHED; sequence  *)
(* numbers count from its first byte.                                      *)
(*                                                                         *)
(* The directory does not compile as it is: tcp_sndbuf_push,               *)
(* delete_send_buf and the functions that set the timer are called or      *)
(* declared and not defined, the scan assigns sock where it uses s, and    *)
(* nothing calls handle_rcv_data.  They are taken as their calls and       *)
(* 12-TCP_STACK.md say: a segment with a payload is given to               *)
(* handle_rcv_data, an acknowledgement to delete_send_buf.                 *)
(***************************************************************************)
EXTENDS Integers, Sequences, SequencesExt, SynchWait, RingBuffer

CONSTANTS
    Data,      \* what tcp_sock_write is called with
    Mss,       \* data_len
    ReadSize,  \* the argument of tcp_sock_read
    Interval   \* TCP_RETRANS_INTERVAL_INITIAL in scans of the timer

ASSUME StreamAssumption ==
    /\ Data \in Seq(Byte) /\ Data # <<>> /\ Mss \in Nat \ {0} /\ ReadSize \in Nat \ {0}
    /\ Interval \in Nat \ {0}

VARIABLES
    snd_nxt,    \* of the sender
    send_buf,
    timeout,    \* of retrans_timer, 0 when it is not in timer_list
    exited,     \* the sender has given up
    data, acks, \* the segments on their way in each direction
    rcv_nxt,    \* of the receiver
    rcv_ofo_buf,
    rcv_buf,
    wait_recv,
    aborted,    \* an assertion has ended the receiver
    reader,     \* where its application is
    length,     \* len of read_ring_buffer
    got         \* what tcp_sock_read has returned so far

sender == <<snd_nxt, send_buf, timeout, exited>>
receiver == <<rcv_nxt, rcv_ofo_buf, aborted>>
reading == <<reader, length, got>>
vars == <<sender, data, acks, receiver, rcv_buf, wait_recv, reading>>

Piece == [seq : Nat, bytes : Seq(Byte)]

end(p) == p.seq + Len(p.bytes)

Init ==
    /\ snd_nxt = 0 /\ send_buf = <<>> /\ timeout = 0 /\ exited = FALSE
    /\ data = <<>> /\ acks = <<>>
    /\ rcv_nxt = 0 /\ rcv_ofo_buf = <<>> /\ aborted = FALSE
    /\ rcv_buf = alloc_ring_buffer
    /\ wait_recv = alloc_wait_struct
    /\ reader = "look" /\ length = 0 /\ got = <<>>
-----------------------------------------------------------------------------
(* The sender.  A piece is kept with the number of times it was sent again.*)

tcp_sndbuf_push(p) ==
    /\ send_buf' = Append(send_buf, [piece |-> p, number |-> 0])
    /\ timeout' = IF timeout = 0 THEN Interval ELSE timeout

Left == Len(Data) - snd_nxt

(* The window is counted down here and never looked at.                    *)
tcp_send_packet(p) ==
    /\ snd_nxt' = end(p)
    /\ tcp_sndbuf_push(p)
    /\ data' = Append(data, p)

(* One round of tcp_sock_write.                                            *)
Write ==
    LET n == IF Left > Mss THEN Mss ELSE Left
    IN /\ ~exited /\ Left > 0
       /\ tcp_send_packet([seq |-> snd_nxt, bytes |-> SubSeq(Data, snd_nxt + 1, snd_nxt + n)])
       /\ UNCHANGED <<exited, acks, receiver, rcv_buf, wait_recv, reading>>

(* Of the first pieces of send_buf those that end behind ack.              *)
Kept(ack) ==
    LET kept[n \in Nat] ==
          IF n = 0 THEN <<>>
          ELSE IF end(send_buf[n].piece) > ack THEN Append(kept[n - 1], send_buf[n])
          ELSE kept[n - 1]
    IN kept

Unacked(ack) == Kept(ack)[Len(send_buf)]

(* An acknowledgement; the timer starts anew when it was for something.    *)
delete_send_buf ==
    LET rest == Unacked(Head(acks))
    IN /\ acks # <<>> /\ ~exited
       /\ acks' = Tail(acks)
       /\ send_buf' = rest
       /\ timeout' = CASE rest = <<>> -> 0
                       [] rest # <<>> /\ rest # send_buf -> Interval
                       [] OTHER -> timeout
       /\ UNCHANGED <<snd_nxt, exited, data, receiver, rcv_buf, wait_recv, reading>>

(* tcp_scan_timer_list: the timer runs.                                    *)
Tick ==
    /\ ~exited /\ timeout > 1
    /\ timeout' = timeout - 1
    /\ UNCHANGED <<snd_nxt, send_buf, exited, data, acks, receiver, rcv_buf, wait_recv,
                   reading>>

Again_bug(b) == b  \* the retries are not counted

Again(b) == [b EXCEPT !.number = @ + 1]

(* It has run out: the first piece is sent again, at intervals that double,*)
Retransmit ==
    LET first == Again(Head(send_buf))
    IN /\ ~exited /\ timeout = 1 /\ Head(send_buf).number < 3
       /\ send_buf' = [send_buf EXCEPT ![1] = first]
       /\ timeout' = Interval * 2 ^ first.number
       /\ data' = Append(data, first.piece)
       /\ UNCHANGED <<snd_nxt, exited, acks, receiver, rcv_buf, wait_recv, reading>>

(* and after three times the process ends, with a reset to the peer.       *)
GiveUp ==
    /\ ~exited /\ timeout = 1 /\ Head(send_buf).number >= 3
    /\ exited' = TRUE
    /\ UNCHANGED <<snd_nxt, send_buf, timeout, data, acks, receiver, rcv_buf, wait_recv,
                   reading>>
-----------------------------------------------------------------------------
(* The receiver's packet thread.                                           *)

(* An acknowledgement is a control packet of its own and is not kept.      *)
SendAck(nxt) == acks' = Append(acks, nxt)

(* Bytes that come in order: into the ring buffer, unless it is full.      *)
Store(st, p) ==
    IF Fits(st.ring, p.bytes)
    THEN [st EXCEPT !.ring = write_ring_buffer(@, p.bytes), !.nxt = @ + Len(p.bytes)]
    ELSE [st EXCEPT !.ok = FALSE]

(* A round of the loop in handle_rcv_data: the first piece of rcv_ofo_buf  *)
(* whose turn it is.                                                       *)
Due(st) == {i \in DOMAIN st.ofo : st.ofo[i].seq = st.nxt}

Drain(st) ==
    LET first == CHOOSE i \in Due(st) : \A k \in Due(st) : i <= k
    IN IF ~st.ok \/ Due(st) = {} THEN st
       ELSE Store([st EXCEPT !.ofo = RemoveAt(@, first)], st.ofo[first])

Rounds(p) ==
    LET after[n \in Nat] ==
          IF n = 0
          THEN Store([ring |-> rcv_buf, nxt |-> rcv_nxt, ofo |-> rcv_ofo_buf, ok |-> TRUE], p)
          ELSE Drain(after[n - 1])
    IN after

InOrder(p) == Rounds(p)[Len(rcv_ofo_buf)]

Arrives == data # <<>> /\ ~aborted /\ data' = Tail(data)

(* handle_rcv_data.  The reader is woken only when it is seen to sleep.    *)
RcvInOrder ==
    LET st == InOrder(Head(data))
    IN /\ Arrives /\ Head(data).seq = rcv_nxt
       /\ rcv_buf' = st.ring /\ rcv_nxt' = st.nxt /\ rcv_ofo_buf' = st.ofo
       /\ aborted' = ~st.ok
       /\ IF st.ok THEN SendAck(st.nxt) ELSE UNCHANGED acks
       /\ wait_recv' = IF st.ok /\ wait_recv.sleep THEN wake_up(wait_recv) ELSE wait_recv
       /\ UNCHANGED <<sender, reading>>

RcvLater_bug ==  \* acknowledges what it puts aside
    /\ Arrives /\ Head(data).seq > rcv_nxt
    /\ rcv_ofo_buf' = Append(rcv_ofo_buf, Head(data))
    /\ SendAck(end(Head(data)))
    /\ UNCHANGED <<sender, rcv_nxt, aborted, rcv_buf, wait_recv, reading>>

RcvLater ==
    /\ Arrives /\ Head(data).seq > rcv_nxt
    /\ rcv_ofo_buf' = Append(rcv_ofo_buf, Head(data))
    /\ UNCHANGED <<sender, acks, rcv_nxt, aborted, rcv_buf, wait_recv, reading>>

RcvAgain ==
    /\ Arrives /\ Head(data).seq < rcv_nxt
    /\ SendAck(rcv_nxt)
    /\ UNCHANGED <<sender, receiver, rcv_buf, wait_recv, reading>>
-----------------------------------------------------------------------------
(* The receiver's application in tcp_sock_read, which it calls over and    *)
(* over.  It takes no lock: the length is read first, the head moved last. *)
(* min is a macro: a length below the size asked for is read once more, and*)
(* may have become more than that.                                         *)

ReadLook ==
    /\ reader = "look" /\ ~aborted
    /\ reader' = IF ring_buffer_empty(rcv_buf) THEN "sleep" ELSE "read"
    /\ UNCHANGED <<sender, data, acks, receiver, rcv_buf, wait_recv, length, got>>

ReadSleep ==
    /\ reader = "sleep" /\ ~aborted
    /\ wait_recv' = EnterSleep(wait_recv)
    /\ reader' = IF wait_recv'.sleep THEN "asleep" ELSE "look"
    /\ UNCHANGED <<sender, data, acks, receiver, rcv_buf, length, got>>

ReadWake ==
    /\ reader = "asleep" /\ MayLeave(wait_recv) /\ ~aborted
    /\ wait_recv' = LeaveSleep(wait_recv)
    /\ reader' = "look"
    /\ UNCHANGED <<sender, data, acks, receiver, rcv_buf, length, got>>

ReadBegin ==
    /\ reader = "read" /\ ~aborted
    /\ \/ /\ ring_buffer_used(rcv_buf) < ReadSize
          /\ reader' = "again" /\ UNCHANGED length
       \/ /\ ring_buffer_used(rcv_buf) >= ReadSize
          /\ reader' = "copy" /\ length' = ReadSize
    /\ UNCHANGED <<sender, data, acks, receiver, rcv_buf, wait_recv, got>>

ReadAgain ==
    /\ reader = "again" /\ ~aborted
    /\ reader' = "copy" /\ length' = ring_buffer_used(rcv_buf)
    /\ UNCHANGED <<sender, data, acks, receiver, rcv_buf, wait_recv, got>>

ReadEnd ==
    /\ reader = "copy" /\ ~aborted
    /\ reader' = "look" /\ length' = 0
    /\ got' = got \o FromHead(rcv_buf, length)
    /\ rcv_buf' = Advance(rcv_buf, length)
    /\ wait_recv' = wake_up(wait_recv)
    /\ UNCHANGED <<sender, data, acks, receiver>>
-----------------------------------------------------------------------------
(* The link loses what it carries.                                         *)
LoseData ==
    /\ data # <<>> /\ data' = Tail(data)
    /\ UNCHANGED <<sender, acks, receiver, rcv_buf, wait_recv, reading>>

LoseAck ==
    /\ acks # <<>> /\ acks' = Tail(acks)
    /\ UNCHANGED <<sender, data, receiver, rcv_buf, wait_recv, reading>>

Scan == Tick \/ Retransmit \/ GiveUp

Next ==
    \/ Write \/ delete_send_buf \/ Scan
    \/ RcvInOrder \/ RcvLater \/ RcvAgain
    \/ ReadLook \/ ReadSleep \/ ReadWake \/ ReadBegin \/ ReadAgain \/ ReadEnd
    \/ LoseData \/ LoseAck

(* The timer thread runs: it sleeps between two scans and does nothing     *)
(* else.                                                                   *)
Spec == Init /\ [][Next]_vars /\ WF_vars(Scan)
-----------------------------------------------------------------------------
TypeOK ==
    /\ snd_nxt \in 0..Len(Data) /\ timeout \in 0..(8 * Interval) /\ exited \in BOOLEAN
    /\ send_buf \in Seq([piece : Piece, number : 0..3])
    /\ data \in Seq(Piece) /\ acks \in Seq(Nat)
    /\ rcv_nxt \in Nat /\ rcv_ofo_buf \in Seq(Piece) /\ aborted \in BOOLEAN
    /\ rcv_buf \in Ring /\ wait_recv \in WaitStruct
    /\ reader \in {"look", "sleep", "asleep", "read", "again", "copy"}
    /\ length \in 0..Capacity /\ got \in Seq(Byte)
    /\ timeout = 0 <=> send_buf = <<>>

Covers(p, i) == i \in (p.seq + 1)..end(p)

(* A byte that was written and has not come in order yet can be sent       *)
(* again: it is in send_buf, whatever was lost, acknowledged or sent twice.*)
UnackedKept ==
    \A i \in (rcv_nxt + 1)..snd_nxt : \E b \in Range(send_buf) : Covers(b.piece, i)

Stream == INSTANCE ByteStream WITH received <- got \o Contents(rcv_buf), delivered <- got

(* Through losses, retransmissions, pieces that come before their turn and *)
(* the wrap of the ring buffer, the receiver has a prefix of what was      *)
(* written, and its application reads it in order, each byte once.         *)
ImplementsStream == Stream!StreamSpec

(* The sender gets rid of what it has written, whatever the link does: it  *)
(* is acknowledged, or the process gives up.                               *)
TransferEnds == send_buf # <<>> ~> send_buf = <<>> \/ exited
=============================================================================
