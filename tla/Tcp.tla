-------------------------------- MODULE Tcp --------------------------------
(***************************************************************************)
(* The connections of 10-tcp_stack and, with the same code, 12-tcp_stack:  *)
(* processes that run tcp_client (connect, close) and one that runs        *)
(* tcp_server (listen, accept once, close), each client joined to the      *)
(* server by a link in each direction.                                     *)
(* In each process the packet thread handles one segment after the other   *)
(* (tcp_process, the actions Rcv...), while the application thread calls   *)
(* tcp_sock.c; no lock keeps the two apart, so an operation is split into  *)
(* actions where the other thread may come between.                        *)
(*                                                                         *)
(* An end of a connection is a client or the child the server has for it;  *)
(* Listener is the server's other sock.  tcp_sock_table holds a sock at    *)
(* most once for each 4-tuple (for each port, for Listener): hashed and    *)
(* bound stand for it.  Memory that was freed is read as it was left, until*)
(* the next child of the same client takes it.                             *)
(***************************************************************************)
EXTENDS Integers, Sequences, FiniteSets, SynchWait

CONSTANTS
    Client,      \* the clients, a process each
    Listener,    \* the server's listening sock
    Iss,         \* what tcp_new_iss may return
    Window,      \* TCP_DEFAULT_WINDOW
    Backlog,     \* the argument of tcp_sock_listen
    MaxFaults    \* bound: segments lost, and processes killed and run again

Child(c) == <<"child", c>>

ASSUME TcpAssumption ==
    /\ Iss \subseteq Nat /\ Window \in Nat /\ Backlog \in Nat \ {0}
    /\ MaxFaults \in Nat
    /\ Listener \notin Client
    /\ \A c, d \in Client : Child(c) \notin Client \cup {Listener}

VARIABLES
    sock,           \* the socks
    pc,             \* where the application threads are
    wait_connect,   \* of the clients
    wait_accept,    \* of Listener
    accept_queue,   \* of Listener
    accept_backlog, \* of Listener
    csk,            \* what tcp_sock_accept has taken from the queue
    seen,           \* the length of accept_queue when it did
    wire,           \* the segments on their way to an end
    lost, restarts  \* how many of the faults have happened

vars == <<sock, pc, wait_connect, wait_accept, accept_queue, accept_backlog,
          csk, seen, wire, lost, restarts>>

App == Client \cup {Listener}

Children == {Child(c) : c \in Client}

End == Client \cup Children

Sock == End \cup {Listener}

Peer(e) == IF e \in Client THEN Child(e) ELSE e[2]

State ==
    {"CLOSED", "LISTEN", "SYN_RECV", "SYN_SENT", "ESTABLISHED", "CLOSE_WAIT",
     "LAST_ACK", "FIN_WAIT_1", "FIN_WAIT_2", "TIME_WAIT"}

(* The part of struct tcp_sock that the handlers use; live until the last  *)
(* reference is given back.  ref_cnt is an int that is counted down by     *)
(* whoever lets go, also when the sock is freed already.                   *)
TcpSock ==
    [state : State, hashed : BOOLEAN, bound : BOOLEAN, ref_cnt : Int, live : BOOLEAN,
     snd_nxt : Nat, snd_una : Nat, rcv_nxt : Nat]

(* struct tcp_cb, without the addresses that the wire stands for.          *)
Segment ==
    [flags : SUBSET {"SYN", "ACK", "FIN", "RST"}, seq : Nat, ack : Nat]

(* The sequence numbers that a segment without a payload takes.            *)
Length(flags) == IF flags \cap {"SYN", "FIN"} # {} THEN 1 ELSE 0

seq_end(m) == m.seq + Length(m.flags)

is_tcp_seq_valid(t, m) == m.seq < t.rcv_nxt + Window /\ t.rcv_nxt <= seq_end(m)
-----------------------------------------------------------------------------
(* tcp_sock.c: allocation, references and the hash tables.                 *)

alloc_tcp_sock ==
    [state |-> "CLOSED", hashed |-> FALSE, bound |-> FALSE, ref_cnt |-> 0,
     live |-> TRUE, snd_nxt |-> 0, snd_una |-> 0, rcv_nxt |-> 0]

free_tcp_sock(t) == [t EXCEPT !.ref_cnt = @ - 1, !.live = t.live /\ t.ref_cnt > 1]

tcp_bind_hash(t) == [t EXCEPT !.bound = TRUE, !.ref_cnt = @ + 1]

tcp_bind_unhash_bug(t) ==  \* does not look whether it is bound
    free_tcp_sock([t EXCEPT !.bound = FALSE])

tcp_bind_unhash(t) ==
    IF t.bound THEN free_tcp_sock([t EXCEPT !.bound = FALSE]) ELSE t

(* What a segment for end e finds: the established table, then the listen  *)
(* table.                                                                  *)
tcp_sock_lookup(e) ==
    IF sock[e].hashed THEN {e}
    ELSE {s \in {Listener} : e \in Children /\ sock[s].hashed}

tcp_hash_bug(t) ==  \* takes no reference
    IF t.hashed \/ t.state = "CLOSED" THEN t ELSE [t EXCEPT !.hashed = TRUE]

tcp_hash(t) ==
    IF t.hashed \/ t.state = "CLOSED" THEN t
    ELSE [t EXCEPT !.hashed = TRUE, !.ref_cnt = @ + 1]

tcp_unhash(t) == IF t.hashed THEN free_tcp_sock([t EXCEPT !.hashed = FALSE]) ELSE t

Release(t) == tcp_bind_unhash(tcp_unhash([t EXCEPT !.state = "CLOSED"]))
-----------------------------------------------------------------------------
(* tcp_out.c.                                                              *)

ControlPacket_bug(t, flags) ==  \* acknowledges what comes next
    [flags |-> flags, seq |-> t.snd_nxt, ack |-> t.rcv_nxt + 1]

ControlPacket_off_bug(t, flags) ==  \* numbered one too low
    [flags |-> flags, seq |-> t.snd_nxt - 1, ack |-> t.rcv_nxt]

ControlPacket(t, flags) ==
    [flags |-> flags, seq |-> t.snd_nxt, ack |-> t.rcv_nxt]

Sent(t, m) == [t EXCEPT !.snd_nxt = @ + Length(m.flags)]

ResetPacket(m) ==
    [flags |-> {"RST", "ACK"}, seq |-> 0, ack |-> seq_end(m)]

Send(e, m) == wire' = [wire EXCEPT ![Peer(e)] = Append(@, m)]

(* The first segment for e is handled and out goes back.                   *)
Handle(e, out) ==
    wire' = [wire EXCEPT ![e] = Tail(@), ![Peer(e)] = @ \o out]
-----------------------------------------------------------------------------
Init ==
    /\ sock = [s \in Sock |-> alloc_tcp_sock]
    /\ pc = [a \in App |-> "start"]
    /\ wait_connect = [c \in Client |-> alloc_wait_struct]
    /\ wait_accept = alloc_wait_struct
    /\ accept_queue = <<>> /\ accept_backlog = 0
    /\ csk = Listener /\ seen = 0
    /\ wire = [e \in End |-> <<>>]
    /\ lost = 0 /\ restarts = 0

faults == <<lost, restarts>>

Goto(a, label) == pc' = [pc EXCEPT ![a] = label]

accepting == <<wait_accept, accept_queue, accept_backlog, csk, seen>>
-----------------------------------------------------------------------------
(* The packet thread: tcp_process on the first segment for end e, which    *)
(* belongs to sock t.  A process that has died handles nothing.            *)

Running(e) == e \in Children => pc[Listener] # "dead"

Arrives(e, t) ==
    wire[e] # <<>> /\ Running(e) /\ t \in tcp_sock_lookup(e)

NoSock(e) ==
    /\ wire[e] # <<>> /\ Running(e) /\ tcp_sock_lookup(e) = {}
    /\ Handle(e, <<ResetPacket(Head(wire[e]))>>)
    /\ UNCHANGED <<sock, pc, wait_connect, accepting, faults>>

RcvRst(e, t) ==
    /\ Arrives(e, t) /\ "RST" \in Head(wire[e]).flags
    /\ sock' = [sock EXCEPT ![t] = Release(@)]
    /\ Handle(e, <<>>)
    /\ UNCHANGED <<pc, wait_connect, accepting, faults>>

(* A segment in one of the states that handle it, with the flags it must   *)
(* have for that.                                                          *)
Expects(e, t, state, flags) ==
    /\ Arrives(e, t) /\ sock[t].state = state
    /\ Head(wire[e]).flags = flags

(* A SYN to Listener: the child is put into the established table, and     *)
(* keeps a reference of its parent that is never given back.               *)
RcvListen(e) == \E iss \in Iss :
    LET child == tcp_hash([alloc_tcp_sock EXCEPT
                     !.state = "SYN_RECV", !.snd_nxt = iss,
                     !.rcv_nxt = seq_end(Head(wire[e]))])
        reply == ControlPacket(child, {"SYN", "ACK"})
    IN /\ Expects(e, Listener, "LISTEN", {"SYN"})
       /\ sock' = [sock EXCEPT ![e] = Sent(child, reply), ![Listener].ref_cnt = @ + 1]
       /\ Handle(e, <<reply>>)
       /\ UNCHANGED <<pc, wait_connect, accepting, faults>>

Acked(t, m) == [sock[t] EXCEPT !.rcv_nxt = seq_end(m), !.snd_una = m.ack]

tcp_sock_accept_queue_full == accept_backlog >= Backlog

tcp_sock_accept_enqueue(e) ==
    /\ accept_queue' = Append(accept_queue, e)
    /\ accept_backlog' = accept_backlog + 1

(* The third segment of the handshake.                                     *)
RcvSynRecv(e) ==
    LET m == Head(wire[e])
    IN /\ Expects(e, e, "SYN_RECV", {"ACK"}) /\ is_tcp_seq_valid(sock[e], m)
       /\ ~tcp_sock_accept_queue_full
       /\ sock' = [sock EXCEPT ![e] = [Acked(e, m) EXCEPT !.state = "ESTABLISHED"]]
       /\ tcp_sock_accept_enqueue(e)
       /\ wait_accept' = wake_up(wait_accept)
       /\ Handle(e, <<>>)
       /\ UNCHANGED <<pc, wait_connect, csk, seen, faults>>

(* The same with a full accept queue.  tcp_unhash gives the only reference *)
(* back and free_tcp_sock frees the memory once more: the C library may    *)
(* stop the process for that.                                              *)
RcvSynRecvFull(e) ==
    LET m == Head(wire[e])
    IN /\ Expects(e, e, "SYN_RECV", {"ACK"}) /\ is_tcp_seq_valid(sock[e], m)
       /\ tcp_sock_accept_queue_full
       /\ sock' = [sock EXCEPT ![e] = free_tcp_sock(Release(Acked(e, m)))]
       /\ Handle(e, <<ControlPacket(Acked(e, m), {"RST"})>>)
       /\ \/ pc' = pc
          \/ Goto(Listener, "dead")
       /\ UNCHANGED <<wait_connect, accepting, faults>>

(* The second segment of the handshake; its ack is not compared.           *)
RcvSynSent(e) ==
    LET m == Head(wire[e])
    IN /\ Expects(e, e, "SYN_SENT", {"SYN", "ACK"})
       /\ sock' = [sock EXCEPT ![e] = [Acked(e, m) EXCEPT !.state = "ESTABLISHED"]]
       /\ wait_connect' = [wait_connect EXCEPT ![e] = wake_up(@)]
       /\ Handle(e, <<ControlPacket(Acked(e, m), {"ACK"})>>)
       /\ UNCHANGED <<pc, accepting, faults>>

(* The timer is linked and takes a reference.  Its field enable stays 0, so*)
(* that tcp_scan_timer_list passes it over: TIME_WAIT lasts.               *)
tcp_set_timewait_timer(t) == [t EXCEPT !.ref_cnt = @ + 1]

RcvFinWait1(e) ==
    LET m == Head(wire[e])
        both == m.flags = {"FIN", "ACK"}  \* both ends have closed at once
    IN /\ Arrives(e, e) /\ sock[e].state = "FIN_WAIT_1"
       /\ m.flags = {"ACK"} \/ both
       /\ is_tcp_seq_valid(sock[e], m)
       /\ sock' = [sock EXCEPT ![e] =
                     IF both THEN tcp_set_timewait_timer([Acked(e, m) EXCEPT !.state = "TIME_WAIT"])
                             ELSE [Acked(e, m) EXCEPT !.state = "FIN_WAIT_2"]]
       /\ Handle(e, IF both THEN <<ControlPacket(Acked(e, m), {"ACK"})>> ELSE <<>>)
       /\ UNCHANGED <<pc, wait_connect, accepting, faults>>

(* Anything valid is taken, with what may be missing before it.            *)
RcvEstablished(e) ==
    LET m   == Head(wire[e])
        fin == "FIN" \in m.flags
        una == IF "ACK" \in m.flags THEN m.ack ELSE sock[e].snd_una
    IN /\ Arrives(e, e) /\ sock[e].state = "ESTABLISHED" /\ "RST" \notin m.flags
       /\ is_tcp_seq_valid(sock[e], m)
       /\ sock' = [sock EXCEPT ![e].rcv_nxt = seq_end(m), ![e].snd_una = una,
                               ![e].state = IF fin THEN "CLOSE_WAIT" ELSE @]
       /\ Handle(e, IF fin THEN <<ControlPacket(Acked(e, m), {"ACK"})>> ELSE <<>>)
       /\ UNCHANGED <<pc, wait_connect, accepting, faults>>

RcvLastAck(e) ==
    LET m == Head(wire[e])
    IN /\ Expects(e, e, "LAST_ACK", {"ACK"}) /\ is_tcp_seq_valid(sock[e], m)
       /\ sock' = [sock EXCEPT ![e] = Release(Acked(e, m))]
       /\ Handle(e, <<>>)
       /\ UNCHANGED <<pc, wait_connect, accepting, faults>>

(* No branch of tcp_process takes the segment: FIN_WAIT_2, TIME_WAIT and   *)
(* CLOSE_WAIT have none, and the others only for the flags above.  Clients *)
(* send no SYN to clients and no sock sends a FIN without an ACK, so the   *)
(* branches for those, and for the state CLOSING, are never taken.         *)
Taken(t, m) ==
    \/ "RST" \in m.flags
    \/ sock[t].state = "LISTEN" /\ m.flags = {"SYN"}
    \/ sock[t].state = "SYN_SENT" /\ m.flags = {"SYN", "ACK"}
    \/ is_tcp_seq_valid(sock[t], m) /\
         \/ sock[t].state \in {"SYN_RECV", "LAST_ACK", "FIN_WAIT_1"} /\ m.flags = {"ACK"}
         \/ sock[t].state = "FIN_WAIT_1" /\ m.flags = {"FIN", "ACK"}
         \/ sock[t].state = "ESTABLISHED"

Ignore(e, t) ==
    /\ Arrives(e, t) /\ ~Taken(t, Head(wire[e]))
    /\ sock' = [sock EXCEPT ![t] = IF @.state = "CLOSED" THEN Release(@) ELSE @]
    /\ Handle(e, <<>>)
    /\ UNCHANGED <<pc, wait_connect, accepting, faults>>

Receive(e) ==
    \/ NoSock(e) \/ RcvListen(e) \/ RcvSynRecv(e) \/ RcvSynRecvFull(e)
    \/ RcvSynSent(e) \/ RcvFinWait1(e) \/ RcvEstablished(e) \/ RcvLastAck(e)
    \/ \E t \in Sock : RcvRst(e, t) \/ Ignore(e, t)
-----------------------------------------------------------------------------
(* tcp_client.  In tcp_sock_connect the port is bound and the SYN is out   *)
(* before the sock can be found by the answer.                             *)

ConnectSend(c) ==
    LET t == tcp_bind_hash(sock[c])
        m == ControlPacket(t, {"SYN"})
    IN /\ pc[c] = "start"
       /\ Goto(c, "hash")
       /\ sock' = [sock EXCEPT ![c] = Sent(t, m)]
       /\ Send(c, m)
       /\ UNCHANGED <<wait_connect, accepting, faults>>

ConnectHash(c) ==
    /\ pc[c] = "hash"
    /\ Goto(c, "sleep")
    /\ sock' = [sock EXCEPT ![c] = tcp_hash([@ EXCEPT !.state = "SYN_SENT"])]
    /\ UNCHANGED <<wait_connect, accepting, wire, faults>>

ConnectSleep(c) ==
    /\ pc[c] = "sleep"
    /\ wait_connect' = [wait_connect EXCEPT ![c] = EnterSleep(@)]
    /\ Goto(c, IF wait_connect'[c].sleep THEN "asleep" ELSE "connected")
    /\ UNCHANGED <<sock, accepting, wire, faults>>

(* connect returns, whatever has ended the wait.                           *)
ConnectReturn(c) ==
    /\ pc[c] = "asleep"
    /\ wait_connect' = [wait_connect EXCEPT ![c] = LeaveSleep(@)]
    /\ Goto(c, "connected")
    /\ UNCHANGED <<sock, accepting, wire, faults>>
-----------------------------------------------------------------------------
(* tcp_server.                                                             *)

Listen ==
    /\ pc[Listener] = "start"
    /\ Goto(Listener, "accept")
    /\ sock' = [sock EXCEPT ![Listener] = tcp_hash([tcp_bind_hash(@) EXCEPT !.state = "LISTEN"])]
    /\ UNCHANGED <<wait_connect, accepting, wire, faults>>

(* The condition of the loop in tcp_sock_accept.                           *)
AcceptLook ==
    /\ pc[Listener] = "accept"
    /\ Goto(Listener, IF accept_queue = <<>> THEN "sleep" ELSE "dequeue")
    /\ UNCHANGED <<sock, wait_connect, accepting, wire, faults>>

AcceptSleep ==
    /\ pc[Listener] = "sleep"
    /\ wait_accept' = EnterSleep(wait_accept)
    /\ Goto(Listener, IF wait_accept'.sleep THEN "asleep" ELSE "accept")
    /\ UNCHANGED <<sock, wait_connect, accept_queue, accept_backlog, csk, seen, wire,
                   faults>>

AcceptWake ==
    /\ pc[Listener] = "asleep"
    /\ wait_accept' = LeaveSleep(wait_accept)
    /\ Goto(Listener, "accept")
    /\ UNCHANGED <<sock, wait_connect, accept_queue, accept_backlog, csk, seen, wire,
                   faults>>

(* tcp_sock_accept_dequeue reads the links of the first sock and the count *)
Dequeue ==
    /\ pc[Listener] = "dequeue"
    /\ Goto(Listener, "unlink")
    /\ csk' = Head(accept_queue)
    /\ seen' = Len(accept_queue)
    /\ UNCHANGED <<sock, wait_connect, wait_accept, accept_queue, accept_backlog, wire,
                   faults>>

(* and writes them back, over what the packet thread has enqueued since.   *)
Unlink ==
    LET raced == Len(accept_queue) > seen
    IN /\ pc[Listener] = "unlink"
       /\ Goto(Listener, "connected")
       /\ accept_queue' \in {Tail(accept_queue)} \cup
                              (IF raced /\ seen = 1 THEN {<<>>} ELSE {})
       /\ accept_backlog' \in {accept_backlog - 1} \cup
                              (IF raced THEN {accept_backlog, accept_backlog - 2} ELSE {})
       /\ sock' = [sock EXCEPT ![csk] = tcp_hash([@ EXCEPT !.state = "ESTABLISHED"])]
       /\ UNCHANGED <<wait_connect, wait_accept, csk, seen, wire, faults>>
-----------------------------------------------------------------------------
(* tcp_sock_close of the sock that thread a holds: the FIN is out before   *)
(* the state changes, whatever it has become in between.                   *)

Held(a) == IF a = Listener THEN csk ELSE a

AfterFin(state) == IF state = "ESTABLISHED" THEN "FIN_WAIT_1" ELSE "LAST_ACK"

CloseSend(a) ==
    LET e == Held(a)
        m == ControlPacket(sock[e], {"FIN", "ACK"})
    IN /\ pc[a] = "connected"
       /\ sock[e].state \in {"ESTABLISHED", "CLOSE_WAIT"}
       /\ Goto(a, AfterFin(sock[e].state))
       /\ sock' = [sock EXCEPT ![e] = Sent(@, m)]
       /\ Send(e, m)
       /\ UNCHANGED <<wait_connect, accepting, faults>>

CloseSet(a) ==
    /\ pc[a] \in State
    /\ Goto(a, "done")
    /\ sock' = [sock EXCEPT ![Held(a)].state = pc[a]]
    /\ UNCHANGED <<wait_connect, accepting, wire, faults>>

CloseNothing(a) ==
    /\ pc[a] = "connected"
    /\ sock[Held(a)].state \notin {"ESTABLISHED", "CLOSE_WAIT"}
    /\ Goto(a, "done")
    /\ UNCHANGED <<sock, wait_connect, accepting, wire, faults>>

Close(a) == CloseSend(a) \/ CloseSet(a) \/ CloseNothing(a)
-----------------------------------------------------------------------------
(* A segment is lost; a process is killed, and run again when what was on  *)
(* its way from it has arrived.  What came for it in between is lost.      *)

Lose(e) ==
    /\ wire[e] # <<>> /\ lost + restarts < MaxFaults
    /\ lost' = lost + 1
    /\ wire' = [wire EXCEPT ![e] = Tail(@)]
    /\ UNCHANGED <<sock, pc, wait_connect, accepting, restarts>>

RestartClient(c) ==
    /\ lost + restarts < MaxFaults /\ pc[c] # "start"
    /\ restarts' = restarts + 1
    /\ Goto(c, "start")
    /\ sock' = [sock EXCEPT ![c] = alloc_tcp_sock]
    /\ wait_connect' = [wait_connect EXCEPT ![c] = alloc_wait_struct]
    /\ wire[Child(c)] = <<>> /\ wire' = [wire EXCEPT ![c] = <<>>]
    /\ UNCHANGED <<accepting, lost>>

RestartServer ==
    /\ lost + restarts < MaxFaults /\ pc[Listener] # "start"
    /\ restarts' = restarts + 1
    /\ Goto(Listener, "start")
    /\ sock' = [s \in Sock |-> IF s \in Client THEN sock[s] ELSE alloc_tcp_sock]
    /\ wait_accept' = alloc_wait_struct
    /\ accept_queue' = <<>> /\ accept_backlog' = 0
    /\ csk' = Listener /\ seen' = 0
    /\ \A c \in Client : wire[c] = <<>>
    /\ wire' = [e \in End |-> IF e \in Client THEN wire[e] ELSE <<>>]
    /\ UNCHANGED <<wait_connect, lost>>
-----------------------------------------------------------------------------
Connect(c) == ConnectSend(c) \/ ConnectHash(c) \/ ConnectSleep(c) \/ ConnectReturn(c)

Accept == Listen \/ AcceptLook \/ AcceptSleep \/ AcceptWake \/ Dequeue \/ Unlink

Work ==
    \/ \E e \in End : Receive(e)
    \/ \E c \in Client : Connect(c)
    \/ Accept
    \/ \E a \in App : Close(a)

Fault ==
    \/ \E e \in End : Lose(e)
    \/ \E c \in Client : RestartClient(c)
    \/ RestartServer

Next == Work \/ Fault

(* The server's application thread is scheduled, and pthread_cond_wait     *)
(* returns for a signal; that it may return without one is not relied on.  *)
AcceptRuns == Accept /\ (pc[Listener] = "asleep" => MustLeave(wait_accept))

Spec == Init /\ [][Next]_vars /\ WF_vars(AcceptRuns)
-----------------------------------------------------------------------------
TypeOK ==
    /\ sock \in [Sock -> TcpSock]
    /\ pc \in [App -> {"start", "hash", "accept", "sleep", "asleep", "dequeue", "unlink",
                       "connected", "FIN_WAIT_1", "LAST_ACK", "done", "dead"}]
    /\ wait_connect \in [Client -> WaitStruct] /\ wait_accept \in WaitStruct
    /\ accept_queue \in Seq(Children) /\ accept_backlog \in Int
    /\ csk \in Children \cup {Listener} /\ seen \in Nat
    /\ \A e \in End : wire[e] \in Seq(Segment)
    /\ lost \in 0..MaxFaults /\ restarts \in 0..MaxFaults

(* A thread waits without a signal on its way only for what has not        *)
(* happened yet: tcp_sock_accept with an empty queue, tcp_sock_connect     *)
(* before its sock is connected.  The condition is read, and the sock put  *)
(* into the table, before sleep_on takes the lock; only the flag notified  *)
(* of synch_wait.h keeps the wake-up of a segment that comes in between.   *)
NoLostWakeup ==
    /\ wait_accept.thread = "waiting" => accept_queue = <<>>
    /\ \A c \in Client :
          wait_connect[c].thread = "waiting" => sock[c].state \in {"SYN_SENT", "CLOSED"}

Synchronised(e) == sock[e].state \notin {"CLOSED", "LISTEN", "SYN_SENT"}

(* While no process has been run again, neither end of a connection        *)
(* believes to have got what the other has not sent, a child that was      *)
(* accepted has a client that knows it, and an end gets to FIN_WAIT_2 only *)
(* when the other end has taken its FIN.                                   *)
SeqAgree ==
    restarts = 0 => \A e \in End :
        /\ Synchronised(e) => sock[e].rcv_nxt <= sock[Peer(e)].snd_nxt
        /\ e \in Children /\ sock[e].state = "ESTABLISHED" => Synchronised(Peer(e))
        /\ sock[e].state = "FIN_WAIT_2" =>
              /\ sock[e].snd_una = sock[e].snd_nxt
              /\ sock[Peer(e)].rcv_nxt = sock[e].snd_nxt

(* tcp_sock.c:71-74: the tables' references keep a sock until all are given*)
(* back, so what a lookup finds has not been freed, whichever of the two   *)
(* threads hashes, closes and releases the sock and whatever reset crosses *)
(* that.  While no process has been run again.                             *)
References(t) == (IF t.hashed THEN 1 ELSE 0) + (IF t.bound THEN 1 ELSE 0)

TablesHoldLive ==
    restarts = 0 => \A s \in Sock :
        References(sock[s]) > 0 =>
            sock[s].live /\ References(sock[s]) <= sock[s].ref_cnt

(* No reference is given back twice, but in one place: a child that a full *)
(* accept queue turns away is freed by tcp_unhash, and then once more      *)
(* (tcp_in.c:113-116).  While no process has been run again.               *)
GivenBackOnce ==
    [][restarts = 0 => \A s \in Sock :
          sock'[s].ref_cnt < 0 /\ sock[s].ref_cnt >= 0 =>
              /\ s \in Children /\ sock[s].state = "SYN_RECV"
              /\ tcp_sock_accept_queue_full]_vars

(* accept returns when a connection is in the queue: the wake-up of the    *)
(* packet thread reaches the server's thread, whenever it comes.           *)
AcceptReturns ==
    accept_queue # <<>> /\ pc[Listener] \in {"accept", "sleep", "asleep"}
      ~> pc[Listener] \notin {"accept", "sleep", "asleep"}
=============================================================================
