----------------------------- MODULE TcpProofs -----------------------------
(***************************************************************************)
(* Tcp for any number of clients, any backlog and any number of faults.    *)
(*                                                                         *)
(* First NoLostWakeup, which is not inductive: what a thread is about to   *)
(* do when it has looked and has not slept yet counts too, and who may     *)
(* change a client's sock while its thread sleeps.                         *)
(*                                                                         *)
(* Then SeqAgree.  A connection is looked at as one record, its view, made *)
(* of both socks, both wires and what the server's thread has done with    *)
(* the child; every step changes one view or none.  So there are lemmas    *)
(* about views, without actions or primes, one for each thing that can     *)
(* happen to a connection, and one lemma per action that says which of     *)
(* them it is.                                                             *)
(*                                                                         *)
(* Last TypeOK, with a bound on the reference counts.                      *)
(***************************************************************************)
EXTENDS Tcp, TLAPS

Labels == {"start", "hash", "accept", "sleep", "asleep", "dequeue", "unlink",
           "connected", "FIN_WAIT_1", "LAST_ACK", "done", "dead"}

Types ==
    /\ sock \in [Sock -> TcpSock] /\ pc \in [App -> Labels]
    /\ wait_connect \in [Client -> WaitStruct] /\ wait_accept \in WaitStruct
    /\ accept_queue \in Seq(Children) /\ csk \in Children \cup {Listener}
    /\ wire \in [End -> Seq(Segment)]

(* Who waits has said so, and was not told anything since.                 *)
Unaware(w) == w.thread = "waiting" => w.sleep /\ ~w.notified

(* The thread of tcp_server waits in the queue's emptiness, and whoever    *)
(* enqueues after it has looked leaves a note.                             *)
Holding == {"unlink", "connected", "FIN_WAIT_1", "LAST_ACK"}

AcceptWaits ==
    /\ Unaware(wait_accept)
    /\ wait_accept.thread = "waiting" =>
          accept_queue = <<>> /\ pc[Listener] \in {"asleep", "dead"}
    /\ pc[Listener] = "sleep" /\ accept_queue # <<>> => wait_accept.notified
    /\ pc[Listener] \in {"dequeue", "unlink"} => accept_queue # <<>>
    /\ pc[Listener] \in Holding => csk \in Children

Early == {"SYN_SENT", "CLOSED"}

ConnectWaits(c) ==
    /\ Unaware(wait_connect[c])
    /\ wait_connect[c].thread = "waiting" => sock[c].state \in Early /\ pc[c] = "asleep"
    /\ pc[c] = "sleep" => sock[c].state \in Early \/ wait_connect[c].notified
    /\ sock[c].state # "SYN_RECV"

WInv == Types /\ AcceptWaits /\ \A c \in Client : ConnectWaits(c)
-----------------------------------------------------------------------------
(* The ends of the connections.                                            *)
LEMMA Ends ==
    /\ Client \cap Children = {} /\ Listener \notin End
    /\ \A c \in Client : c \in End /\ c \in App /\ c \in Sock /\ c # Listener /\ Child(c) \in End
    /\ \A e \in End : Peer(e) \in End \ {e} /\ e \in Sock
    /\ Listener \in Sock /\ Listener \in App
<1>1. Client \cap Children = {} /\ Listener \notin End
  BY TcpAssumption DEF Children, End
<1>2. ASSUME NEW e \in End PROVE Peer(e) \in End \ {e}
  <2>1. CASE e \in Client
    BY <2>1, TcpAssumption DEF Peer, End, Children
  <2>2. CASE e \notin Client
    <3>1. PICK c \in Client : e = <<"child", c>>
      BY <2>2 DEF End, Children, Child
    <3> QED BY <2>2, <3>1 DEF Peer, End
  <2> QED BY <2>1, <2>2
<1> QED BY <1>1, <1>2, TcpAssumption DEF End, Sock, App, Children

(* What the helpers of tcp_sock.c make of a sock: its state stays, or is   *)
(* CLOSED.                                                                 *)
LEMMA Helpers ==
    ASSUME NEW t \in TcpSock
    PROVE  /\ free_tcp_sock(t) \in TcpSock /\ free_tcp_sock(t).state = t.state
           /\ tcp_bind_hash(t) \in TcpSock /\ tcp_bind_hash(t).state = t.state
           /\ tcp_hash(t) \in TcpSock /\ tcp_hash(t).state = t.state
           /\ tcp_unhash(t) \in TcpSock /\ tcp_unhash(t).state = t.state
           /\ tcp_bind_unhash(t) \in TcpSock /\ tcp_bind_unhash(t).state = t.state
           /\ tcp_set_timewait_timer(t) \in TcpSock /\ tcp_set_timewait_timer(t).state = t.state
<1>1. ASSUME NEW u \in TcpSock PROVE free_tcp_sock(u) \in TcpSock /\ free_tcp_sock(u).state = u.state
  <2> DEFINE less == u.ref_cnt - 1
             alive == u.live /\ u.ref_cnt > 1
  <2>1. less \in Int
    BY DEF TcpSock
  <2>2. alive \in BOOLEAN
    OBVIOUS
  <2>3. \A k \in Int, b \in BOOLEAN : /\ [u EXCEPT !.ref_cnt = k, !.live = b] \in TcpSock
                                     /\ [u EXCEPT !.ref_cnt = k, !.live = b].state = u.state
    BY DEF TcpSock
  <2>4. free_tcp_sock(u) = [u EXCEPT !.ref_cnt = less, !.live = alive]
    BY DEF free_tcp_sock
  <2> HIDE DEF less, alive
  <2>5. /\ [u EXCEPT !.ref_cnt = less, !.live = alive] \in TcpSock
        /\ [u EXCEPT !.ref_cnt = less, !.live = alive].state = u.state
    BY <2>1, <2>2, <2>3, Zenon
  <2> QED BY <2>4, <2>5, Zenon
<1>0. t.ref_cnt + 1 \in Int
  BY DEF TcpSock
<1>2. tcp_bind_hash(t) \in TcpSock /\ tcp_bind_hash(t).state = t.state
  BY <1>0 DEF tcp_bind_hash, TcpSock
<1>3. tcp_hash(t) \in TcpSock /\ tcp_hash(t).state = t.state
  BY <1>0 DEF tcp_hash, TcpSock
<1>4. tcp_unhash(t) \in TcpSock /\ tcp_unhash(t).state = t.state
  <2>1. [t EXCEPT !.hashed = FALSE] \in TcpSock /\ [t EXCEPT !.hashed = FALSE].state = t.state
    BY DEF TcpSock
  <2> QED BY <2>1, <1>1 DEF tcp_unhash
<1>5. tcp_bind_unhash(t) \in TcpSock /\ tcp_bind_unhash(t).state = t.state
  <2>1. [t EXCEPT !.bound = FALSE] \in TcpSock /\ [t EXCEPT !.bound = FALSE].state = t.state
    BY DEF TcpSock
  <2> QED BY <2>1, <1>1 DEF tcp_bind_unhash
<1>6. tcp_set_timewait_timer(t) \in TcpSock /\ tcp_set_timewait_timer(t).state = t.state
  BY DEF tcp_set_timewait_timer, TcpSock
<1> QED BY <1>1, <1>2, <1>3, <1>4, <1>5, <1>6

LEMMA ReleaseCloses ==
    ASSUME NEW t \in TcpSock
    PROVE  Release(t) \in TcpSock /\ Release(t).state = "CLOSED"
<1>1. [t EXCEPT !.state = "CLOSED"] \in TcpSock /\ [t EXCEPT !.state = "CLOSED"].state = "CLOSED"
  BY DEF TcpSock, State
<1>2. /\ tcp_unhash([t EXCEPT !.state = "CLOSED"]) \in TcpSock
      /\ tcp_unhash([t EXCEPT !.state = "CLOSED"]).state = "CLOSED"
  BY <1>1, Helpers
<1> QED BY <1>2, Helpers DEF Release

LEMMA SegmentTypes ==
    ASSUME NEW t \in TcpSock
    PROVE  /\ \A m \in Segment : /\ seq_end(m) \in Nat /\ ResetPacket(m) \in Segment
                                 /\ Sent(t, m) \in TcpSock /\ Sent(t, m).state = t.state
           /\ \A f \in SUBSET {"SYN", "ACK", "FIN", "RST"} : ControlPacket(t, f) \in Segment
  BY DEF TcpSock, Segment, seq_end, Length, ResetPacket, Sent, ControlPacket

LEMMA AckedType ==
    ASSUME Types, NEW e \in Sock, NEW m \in Segment, NEW s \in State
    PROVE  /\ Acked(e, m) \in TcpSock /\ Acked(e, m).state = sock[e].state
           /\ [Acked(e, m) EXCEPT !.state = s] \in TcpSock
           /\ [Acked(e, m) EXCEPT !.state = s].state = s
<1>1. sock[e] \in TcpSock /\ seq_end(m) \in Nat /\ m.ack \in Nat
  BY SegmentTypes DEF Types, Segment
<1> QED BY <1>1 DEF Acked, TcpSock

(* The thread that is told, or comes to, or goes to sleep.                 *)
LEMMA Waiting ==
    ASSUME NEW w \in WaitStruct, Unaware(w)
    PROVE  /\ wake_up(w) \in WaitStruct /\ wake_up(w).notified
           /\ wake_up(w).thread # "waiting"
           /\ LeaveSleep(w) \in WaitStruct /\ LeaveSleep(w).thread = "out"
           /\ EnterSleep(w) \in WaitStruct
           /\ w.notified => ~EnterSleep(w).sleep /\ EnterSleep(w).thread = w.thread
           /\ ~w.notified => EnterSleep(w).sleep /\ ~EnterSleep(w).notified
  BY DEF WaitStruct, wake_up, LeaveSleep, EnterSleep, Unaware

(* Segments that are handled and sent.                                     *)
LEMMA Wires ==
    ASSUME Types, NEW e \in End
    PROVE  /\ wire[e] # <<>> => /\ Head(wire[e]) \in Segment
                                /\ \A out \in Seq(Segment) :
                                      Handle(e, out) => wire' \in [End -> Seq(Segment)]
           /\ \A m \in Segment : Send(e, m) => wire' \in [End -> Seq(Segment)]
<1>1. /\ e \in End /\ Peer(e) \in End \ {e} /\ wire \in [End -> Seq(Segment)]
      /\ wire[e] \in Seq(Segment)
  BY Ends DEF Types
<1>2. ASSUME wire[e] # <<>>
      PROVE  Head(wire[e]) \in Segment /\ Tail(wire[e]) \in Seq(Segment)
  BY <1>1, <1>2
<1>3. ASSUME wire[e] # <<>>, NEW out \in Seq(Segment), Handle(e, out)
      PROVE  wire' \in [End -> Seq(Segment)]
  <2> DEFINE rest == [wire EXCEPT ![e] = Tail(wire[e])]
  <2>1. rest \in [End -> Seq(Segment)]
    BY <1>1, <1>2, <1>3
  <2>2. wire[Peer(e)] \o out \in Seq(Segment)
    BY <1>1, <1>3
  <2>3. wire' = [rest EXCEPT ![Peer(e)] = wire[Peer(e)] \o out]
    BY <1>1, <1>3 DEF Handle
  <2> HIDE DEF rest
  <2> QED BY <2>1, <2>2, <2>3
<1>4. ASSUME NEW m \in Segment, Send(e, m)
      PROVE  wire' \in [End -> Seq(Segment)]
  <2>1. wire[Peer(e)] \in Seq(Segment)
    BY <1>1
  <2>2. Append(wire[Peer(e)], m) \in Seq(Segment)
    BY <2>1
  <2> QED BY <1>1, <1>4, <2>2 DEF Send
<1> QED BY <1>2, <1>3, <1>4
-----------------------------------------------------------------------------
(* Steps that do not touch the waiting, or only of threads that are awake. *)
AFrame ==
    /\ UNCHANGED <<wait_accept, accept_queue, csk>>
    /\ \/ pc'[Listener] = pc[Listener] \/ pc'[Listener] = "dead"
       \/ /\ pc[Listener] \notin {"asleep", "dead"}
          /\ pc'[Listener] \notin {"sleep", "dequeue", "unlink"}
          /\ pc'[Listener] \in Holding => csk \in Children

CFrame(c) ==
    /\ wait_connect'[c] = wait_connect[c]
    /\ sock'[c].state # "SYN_RECV"
    /\ \/ pc[c] # "asleep" /\ pc'[c] # "sleep"
       \/ /\ pc'[c] = pc[c]
          /\ sock'[c].state \in {sock[c].state, "CLOSED"} \/ sock[c].state \notin Early

LEMMA AStays ==
    ASSUME AcceptWaits, AFrame
    PROVE  AcceptWaits'
  BY DEF AcceptWaits, AFrame, Unaware, Holding

LEMMA CStays ==
    ASSUME NEW c \in Client, ConnectWaits(c), CFrame(c)
    PROVE  ConnectWaits(c)'
  BY DEF ConnectWaits, CFrame, Unaware, Early

(* A segment changes one sock, to CLOSED or when it is past the handshake, *)
(* and no thread is told of it.                                            *)
LEMMA QuietSegment ==
    ASSUME WInv, NEW e \in End, wire[e] # <<>>, NEW t \in Sock, NEW u \in TcpSock,
           sock' = [sock EXCEPT ![t] = u],
           t \in Client => \/ u.state \in {sock[t].state, "CLOSED"}
                           \/ sock[t].state \notin Early /\ u.state # "SYN_RECV",
           NEW out \in Seq(Segment), Handle(e, out),
           UNCHANGED <<pc, wait_connect, accepting, faults>>
    PROVE  WInv'
<1>1. Types'
  <2>1. wire' \in [End -> Seq(Segment)]
    BY Wires DEF WInv
  <2>2. sock' \in [Sock -> TcpSock]
    BY DEF WInv, Types
  <2> QED BY <2>1, <2>2 DEF WInv, Types, accepting
<1>2. AcceptWaits'
  BY AStays DEF WInv, AFrame, accepting
<1>3. ASSUME NEW c \in Client PROVE ConnectWaits(c)'
  <2>1. sock'[c] = IF c = t THEN u ELSE sock[c]
    BY Ends DEF WInv, Types
  <2>2. CFrame(c)
    BY <2>1 DEF CFrame, WInv, ConnectWaits
  <2> QED BY <2>2, CStays DEF WInv
<1> QED BY <1>1, <1>2, <1>3 DEF WInv

LEMMA Arrived ==
    ASSUME WInv, NEW e \in End, wire[e] # <<>>
    PROVE  /\ Head(wire[e]) \in Segment /\ sock[e] \in TcpSock
           /\ \A t \in tcp_sock_lookup(e) :
                 t \in Sock /\ sock[t] \in TcpSock /\ (t = e \/ (t = Listener /\ e \in Children))
           /\ <<>> \in Seq(Segment) /\ \A m \in Segment : <<m>> \in Seq(Segment)
<1>1. /\ Head(wire[e]) \in Segment /\ e \in Sock /\ Listener \in Sock
      /\ \A t \in Sock : sock[t] \in TcpSock
  BY Wires, Ends DEF WInv, Types
<1>2. \A t \in tcp_sock_lookup(e) : t = e \/ (t = Listener /\ e \in Children)
  <2>1. CASE sock[e].hashed
    <3>1. tcp_sock_lookup(e) = {e}
      BY <2>1 DEF tcp_sock_lookup
    <3> QED BY <3>1, Zenon
  <2>2. CASE ~sock[e].hashed
    BY <2>2, Zenon DEF tcp_sock_lookup
  <2> QED BY <2>1, <2>2
<1>3. <<>> \in Seq(Segment) /\ \A m \in Segment : <<m>> \in Seq(Segment)
  OBVIOUS
<1> QED BY <1>1, <1>2, <1>3

LEMMA NoSockInv ==
    ASSUME WInv, NEW e \in End, NoSock(e)
    PROVE  WInv'
<1>1. wire[e] # <<>> /\ <<ResetPacket(Head(wire[e]))>> \in Seq(Segment) /\ sock[e] \in TcpSock
  BY Arrived, SegmentTypes DEF NoSock
<1>2. sock' = [sock EXCEPT ![e] = sock[e]]
  BY DEF NoSock, WInv, Types
<1> QED BY <1>1, <1>2, Ends, QuietSegment DEF NoSock

LEMMA RcvRstInv ==
    ASSUME WInv, NEW e \in End, NEW t \in Sock, RcvRst(e, t) \/ Ignore(e, t)
    PROVE  WInv'
<1>1. wire[e] # <<>> /\ t \in tcp_sock_lookup(e) /\ Handle(e, <<>>)
  BY DEF RcvRst, Ignore, Arrives
<1>2. sock[t] \in TcpSock /\ Release(sock[t]) \in TcpSock /\ Release(sock[t]).state = "CLOSED"
  BY <1>1, Arrived, ReleaseCloses
<1>3. /\ \/ sock' = [sock EXCEPT ![t] = Release(sock[t])]
         \/ sock' = [sock EXCEPT ![t] = sock[t]]
      /\ UNCHANGED <<pc, wait_connect, accepting, faults>>
  BY DEF RcvRst, Ignore
<1> QED BY <1>1, <1>2, <1>3, Arrived, QuietSegment

LEMMA RcvListenInv ==
    ASSUME WInv, NEW e \in End, RcvListen(e)
    PROVE  WInv'
<1>1. PICK iss \in Iss :
        LET child == tcp_hash([alloc_tcp_sock EXCEPT
                         !.state = "SYN_RECV", !.snd_nxt = iss,
                         !.rcv_nxt = seq_end(Head(wire[e]))])
            reply == ControlPacket(child, {"SYN", "ACK"})
        IN /\ Expects(e, Listener, "LISTEN", {"SYN"})
           /\ sock' = [sock EXCEPT ![e] = Sent(child, reply), ![Listener].ref_cnt = @ + 1]
           /\ Handle(e, <<reply>>)
           /\ UNCHANGED <<pc, wait_connect, accepting, faults>>
  BY DEF RcvListen
<1> DEFINE new == [alloc_tcp_sock EXCEPT !.state = "SYN_RECV", !.snd_nxt = iss,
                                         !.rcv_nxt = seq_end(Head(wire[e]))]
           child == tcp_hash(new)
           reply == ControlPacket(child, {"SYN", "ACK"})
           parent == [sock[Listener] EXCEPT !.ref_cnt = sock[Listener].ref_cnt + 1]
<1>2. wire[e] # <<>> /\ Listener \in tcp_sock_lookup(e)
  BY <1>1 DEF Expects, Arrives
<1>3. e \in Children /\ e # Listener /\ e \in Sock /\ Listener \in Sock
  BY <1>2, Arrived, Ends
<1>4. seq_end(Head(wire[e])) \in Nat /\ iss \in Nat
  BY <1>2, Arrived, SegmentTypes, TcpAssumption
<1>5. new \in TcpSock
  <2>1. alloc_tcp_sock \in TcpSock
    BY DEF alloc_tcp_sock, TcpSock, State
  <2>2. \A t \in TcpSock, a, b \in Nat :
           [t EXCEPT !.state = "SYN_RECV", !.snd_nxt = a, !.rcv_nxt = b] \in TcpSock
    BY DEF TcpSock, State
  <2> QED BY <2>1, <2>2, <1>4
<1>6. child \in TcpSock
  BY <1>5, Helpers
<1>7. reply \in Segment /\ Sent(child, reply) \in TcpSock
  BY <1>6, SegmentTypes
<1>8. parent \in TcpSock
  <2>1. sock[Listener] \in TcpSock
    BY <1>3 DEF WInv, Types
  <2> QED BY <2>1 DEF TcpSock
<1>9. /\ sock' = [sock EXCEPT ![e] = Sent(child, reply), ![Listener] = parent]
      /\ Handle(e, <<reply>>)
      /\ UNCHANGED <<pc, wait_connect, accepting, faults>>
  BY <1>1, <1>3
<1> HIDE DEF child, reply, parent
<1>10. Types'
  <2>1. wire' \in [End -> Seq(Segment)]
    <3>1. <<reply>> \in Seq(Segment)
      BY <1>7
    <3> QED BY <3>1, <1>2, <1>9, Wires DEF WInv
  <2>2. sock' \in [Sock -> TcpSock]
    BY <1>7, <1>8, <1>9 DEF WInv, Types
  <2> QED BY <2>1, <2>2, <1>9 DEF WInv, Types, accepting
<1>11. AcceptWaits'
  BY <1>9, AStays DEF WInv, AFrame, accepting
<1>12. ASSUME NEW c \in Client PROVE ConnectWaits(c)'
  <2>1. sock'[c] = sock[c]
    BY <1>3, <1>9, Ends DEF WInv, Types
  <2> QED BY <2>1, <1>9, CStays DEF CFrame, WInv, ConnectWaits
<1> QED BY <1>10, <1>11, <1>12 DEF WInv

(* A segment that completes the handshake of a child is the only one that  *)
(* the server's thread is told of.                                         *)
LEMMA RcvSynRecvInv ==
    ASSUME WInv, NEW e \in End, RcvSynRecv(e)
    PROVE  WInv'
<1> DEFINE m == Head(wire[e])
           u == [Acked(e, m) EXCEPT !.state = "ESTABLISHED"]
<1>1. /\ wire[e] # <<>> /\ sock[e].state = "SYN_RECV"
      /\ sock' = [sock EXCEPT ![e] = u]
      /\ accept_queue' = Append(accept_queue, e)
      /\ wait_accept' = wake_up(wait_accept)
      /\ Handle(e, <<>>)
      /\ UNCHANGED <<pc, wait_connect, csk, seen, faults>>
  BY DEF RcvSynRecv, Expects, Arrives, tcp_sock_accept_enqueue
<1>2. e \in Children /\ e \in Sock
  BY <1>1, Ends DEF WInv, ConnectWaits, End
<1>3. u \in TcpSock
  BY <1>1, <1>2, Arrived, AckedType DEF WInv, State
<1>4. /\ wake_up(wait_accept) \in WaitStruct /\ wake_up(wait_accept).notified
      /\ wake_up(wait_accept).thread # "waiting"
  BY Waiting DEF WInv, Types, AcceptWaits
<1> HIDE DEF u
<1>5. Types'
  <2>1. wire' \in [End -> Seq(Segment)]
    BY <1>1, Arrived, Wires DEF WInv
  <2>2. sock' \in [Sock -> TcpSock] /\ accept_queue' \in Seq(Children)
    BY <1>1, <1>2, <1>3 DEF WInv, Types
  <2> QED BY <2>1, <2>2, <1>1, <1>4 DEF WInv, Types
<1>6. AcceptWaits'
  BY <1>1, <1>4 DEF WInv, AcceptWaits, Unaware, Holding
<1>7. ASSUME NEW c \in Client PROVE ConnectWaits(c)'
  <2>1. sock'[c] = sock[c]
    BY <1>1, <1>2, Ends DEF WInv, Types
  <2> QED BY <2>1, <1>1, CStays DEF CFrame, WInv, ConnectWaits
<1> QED BY <1>5, <1>6, <1>7 DEF WInv

LEMMA RcvSynRecvFullInv ==
    ASSUME WInv, NEW e \in End, RcvSynRecvFull(e)
    PROVE  WInv'
<1> DEFINE m == Head(wire[e])
           u == free_tcp_sock(Release(Acked(e, m)))
           out == ControlPacket(Acked(e, m), {"RST"})
<1>1. /\ wire[e] # <<>>
      /\ sock' = [sock EXCEPT ![e] = u]
      /\ Handle(e, <<out>>)
      /\ pc' = pc \/ pc' = [pc EXCEPT ![Listener] = "dead"]
      /\ UNCHANGED <<wait_connect, accepting, faults>>
  BY DEF RcvSynRecvFull, Expects, Arrives, Goto
<1>2. e \in Sock /\ m \in Segment /\ "CLOSED" \in State
  BY <1>1, Ends, Arrived DEF State
<1>3. Acked(e, m) \in TcpSock
  BY <1>2, AckedType DEF WInv
<1>4. u \in TcpSock /\ u.state = "CLOSED" /\ out \in Segment
  BY <1>3, ReleaseCloses, Helpers, SegmentTypes
<1> HIDE DEF u, out
<1>5. Types'
  <2>1. <<out>> \in Seq(Segment)
    BY <1>4
  <2>2. wire' \in [End -> Seq(Segment)]
    BY <2>1, <1>1, Wires DEF WInv
  <2>3. sock' \in [Sock -> TcpSock]
    BY <1>1, <1>4 DEF WInv, Types
  <2>4. pc' \in [App -> Labels]
    BY <1>1 DEF WInv, Types, Labels
  <2> QED BY <2>2, <2>3, <2>4, <1>1 DEF WInv, Types, accepting
<1>6. AcceptWaits'
  <2>1. pc'[Listener] = pc[Listener] \/ pc'[Listener] = "dead"
    BY <1>1, Ends DEF WInv, Types
  <2> QED BY <2>1, <1>1, AStays DEF WInv, AFrame, accepting
<1>7. ASSUME NEW c \in Client PROVE ConnectWaits(c)'
  <2>1. sock'[c].state \in {sock[c].state, "CLOSED"}
    BY <1>1, <1>4, Ends DEF WInv, Types
  <2>2. pc'[c] = pc[c]
    BY <1>1, Ends DEF WInv, Types
  <2> QED BY <2>1, <2>2, <1>1, CStays DEF CFrame, WInv, ConnectWaits
<1> QED BY <1>5, <1>6, <1>7 DEF WInv

(* The segment that tells a client's thread.                               *)
LEMMA RcvSynSentInv ==
    ASSUME WInv, NEW e \in End, RcvSynSent(e)
    PROVE  WInv'
<1> DEFINE m == Head(wire[e])
           u == [Acked(e, m) EXCEPT !.state = "ESTABLISHED"]
           out == ControlPacket(Acked(e, m), {"ACK"})
<1>1. /\ wire[e] # <<>>
      /\ sock' = [sock EXCEPT ![e] = u]
      /\ wait_connect' = [wait_connect EXCEPT ![e] = wake_up(wait_connect[e])]
      /\ Handle(e, <<out>>)
      /\ UNCHANGED <<pc, accepting, faults>>
  BY DEF RcvSynSent, Expects, Arrives
<1>2. e \in Sock /\ m \in Segment /\ "ESTABLISHED" \in State
  BY <1>1, Ends, Arrived DEF State
<1>3. Acked(e, m) \in TcpSock /\ u \in TcpSock /\ u.state = "ESTABLISHED"
  BY <1>2, AckedType DEF WInv
<1>4. out \in Segment
  BY <1>3, SegmentTypes
<1>5. CASE e \notin Client
  <2>1. wait_connect' = wait_connect
    BY <1>1, <1>5 DEF WInv, Types
  <2>2. <<out>> \in Seq(Segment)
    BY <1>4
  <2> HIDE DEF u, out
  <2> QED BY <2>1, <2>2, <1>1, <1>2, <1>3, <1>5, QuietSegment
<1>6. CASE e \in Client
  <2>1. /\ wake_up(wait_connect[e]) \in WaitStruct /\ wake_up(wait_connect[e]).notified
        /\ wake_up(wait_connect[e]).thread # "waiting"
    <3>1. wait_connect[e] \in WaitStruct /\ Unaware(wait_connect[e])
      BY <1>6 DEF WInv, Types, ConnectWaits
    <3> QED BY <3>1, Waiting
  <2> HIDE DEF u, out
  <2>2. Types'
    <3>1. <<out>> \in Seq(Segment)
      BY <1>4
    <3>2. wire' \in [End -> Seq(Segment)]
      BY <3>1, <1>1, Wires DEF WInv
    <3>3. sock' \in [Sock -> TcpSock] /\ wait_connect' \in [Client -> WaitStruct]
      BY <1>1, <1>3, <2>1 DEF WInv, Types
    <3> QED BY <3>2, <3>3, <1>1 DEF WInv, Types, accepting
  <2>3. AcceptWaits'
    BY <1>1, AStays DEF WInv, AFrame, accepting
  <2>4. ASSUME NEW c \in Client PROVE ConnectWaits(c)'
    <3>1. CASE c = e
      <4>1. sock'[c] = u /\ wait_connect'[c] = wake_up(wait_connect[e])
        BY <3>1, <1>1, <1>2 DEF WInv, Types
      <4> QED BY <3>1, <4>1, <1>3, <2>1 DEF ConnectWaits, Unaware
    <3>2. CASE c # e
      <4>1. sock'[c] = sock[c] /\ wait_connect'[c] = wait_connect[c]
        BY <3>2, <1>1, Ends DEF WInv, Types
      <4> QED BY <4>1, <1>1, CStays DEF CFrame, WInv, ConnectWaits
    <3> QED BY <3>1, <3>2
  <2> QED BY <2>2, <2>3, <2>4 DEF WInv
<1> QED BY <1>5, <1>6

LEMMA RcvFinWait1Inv ==
    ASSUME WInv, NEW e \in End, RcvFinWait1(e)
    PROVE  WInv'
<1> DEFINE m == Head(wire[e])
           late == [Acked(e, m) EXCEPT !.state = "TIME_WAIT"]
           half == [Acked(e, m) EXCEPT !.state = "FIN_WAIT_2"]
           out == ControlPacket(Acked(e, m), {"ACK"})
<1>1. /\ wire[e] # <<>> /\ sock[e].state = "FIN_WAIT_1"
      /\ \/ sock' = [sock EXCEPT ![e] = tcp_set_timewait_timer(late)]
         \/ sock' = [sock EXCEPT ![e] = half]
      /\ Handle(e, <<out>>) \/ Handle(e, <<>>)
      /\ UNCHANGED <<pc, wait_connect, accepting, faults>>
  BY DEF RcvFinWait1, Arrives
<1>2. e \in Sock /\ m \in Segment /\ {"TIME_WAIT", "FIN_WAIT_2"} \subseteq State
  BY <1>1, Ends, Arrived DEF State
<1>3. /\ Acked(e, m) \in TcpSock
      /\ late \in TcpSock /\ late.state = "TIME_WAIT"
      /\ half \in TcpSock /\ half.state = "FIN_WAIT_2"
  BY <1>2, AckedType DEF WInv
<1> HIDE DEF late, half
<1>4. /\ tcp_set_timewait_timer(late) \in TcpSock
      /\ tcp_set_timewait_timer(late).state = "TIME_WAIT"
      /\ out \in Segment
  BY <1>3, Helpers, SegmentTypes
<1> HIDE DEF out
<1>5. <<out>> \in Seq(Segment) /\ <<>> \in Seq(Segment)
  BY <1>4
<1>6. \E u \in TcpSock, o \in Seq(Segment) :
         sock' = [sock EXCEPT ![e] = u] /\ u.state \in {"TIME_WAIT", "FIN_WAIT_2"} /\ Handle(e, o)
  BY <1>1, <1>3, <1>4, <1>5
<1> QED BY <1>1, <1>2, <1>6, QuietSegment DEF Early

LEMMA RcvEstablishedInv ==
    ASSUME WInv, NEW e \in End, RcvEstablished(e)
    PROVE  WInv'
<1> DEFINE m == Head(wire[e])
           una == IF "ACK" \in m.flags THEN m.ack ELSE sock[e].snd_una
           next == IF "FIN" \in m.flags THEN "CLOSE_WAIT" ELSE sock[e].state
           u == [sock[e] EXCEPT !.rcv_nxt = seq_end(m), !.snd_una = una, !.state = next]
           out == ControlPacket(Acked(e, m), {"ACK"})
<1>1. wire[e] # <<>> /\ e \in Sock
  BY Ends DEF RcvEstablished, Arrives
<1>2. /\ m \in Segment /\ sock[e] \in TcpSock /\ seq_end(m) \in Nat /\ m.ack \in Nat
      /\ "CLOSE_WAIT" \in State
  BY <1>1, Arrived, SegmentTypes DEF Segment, State
<1>3. una \in Nat /\ next \in State
  BY <1>2 DEF TcpSock
<1>4. /\ sock[e].state = "ESTABLISHED"
      /\ sock' = [sock EXCEPT ![e] = u]
      /\ Handle(e, <<out>>) \/ Handle(e, <<>>)
      /\ UNCHANGED <<pc, wait_connect, accepting, faults>>
  BY <1>1 DEF RcvEstablished, Arrives, WInv, Types
<1> HIDE DEF una, m
<1>5. u \in TcpSock /\ u.state = next
  <2> HIDE DEF next
  <2> QED BY <1>2, <1>3 DEF TcpSock
<1> HIDE DEF u
<1>6. next # "SYN_RECV"
  BY <1>4
<1>7. Acked(e, m) \in TcpSock
  BY <1>1, <1>2, AckedType DEF WInv
<1>8. <<out>> \in Seq(Segment) /\ <<>> \in Seq(Segment)
  <2>1. out \in Segment
    BY <1>7, SegmentTypes
  <2> QED BY <2>1
<1> HIDE DEF out, next
<1> QED BY <1>1, <1>4, <1>5, <1>6, <1>8, QuietSegment DEF Early

LEMMA RcvLastAckInv ==
    ASSUME WInv, NEW e \in End, RcvLastAck(e)
    PROVE  WInv'
<1> DEFINE m == Head(wire[e])
           u == Release(Acked(e, m))
<1>1. /\ wire[e] # <<>> /\ sock' = [sock EXCEPT ![e] = u] /\ Handle(e, <<>>)
      /\ UNCHANGED <<pc, wait_connect, accepting, faults>>
  BY DEF RcvLastAck, Expects, Arrives
<1>2. e \in Sock /\ m \in Segment /\ "CLOSED" \in State /\ <<>> \in Seq(Segment)
  BY <1>1, Ends, Arrived DEF State
<1>3. Acked(e, m) \in TcpSock
  BY <1>2, AckedType DEF WInv
<1>4. u \in TcpSock /\ u.state = "CLOSED"
  BY <1>3, ReleaseCloses
<1> HIDE DEF u
<1> QED BY <1>1, <1>2, <1>4, QuietSegment

LEMMA ReceiveInv ==
    ASSUME WInv, NEW e \in End, Receive(e)
    PROVE  WInv'
  BY NoSockInv, RcvListenInv, RcvSynRecvInv, RcvSynRecvFullInv, RcvSynSentInv,
     RcvFinWait1Inv,
     RcvEstablishedInv, RcvLastAckInv, RcvRstInv DEF Receive
-----------------------------------------------------------------------------
(* The application threads.  One sock is changed, by the thread that holds *)
(* it, while it is awake.                                                  *)
LEMMA AwakeStep ==
    ASSUME WInv, NEW a \in App, NEW t \in Sock, NEW u \in TcpSock, NEW label \in Labels,
           pc[a] \notin {"asleep", "dead"}, label \notin {"sleep", "dequeue", "unlink"},
           t \in Client => t = a, a = Listener /\ label \in Holding => csk \in Children,
           u.state # "SYN_RECV" \/ t \notin Client,
           sock' = [sock EXCEPT ![t] = u], pc' = [pc EXCEPT ![a] = label],
           wire' \in [End -> Seq(Segment)],
           UNCHANGED <<wait_connect, accepting, faults>>
    PROVE  WInv'
<1>1. Types'
  BY DEF WInv, Types, accepting
<1>2. AcceptWaits'
  <2>1. AFrame
    BY Ends DEF WInv, Types, AFrame, accepting
  <2> QED BY <2>1, AStays DEF WInv
<1>3. ASSUME NEW c \in Client PROVE ConnectWaits(c)'
  <2>1. /\ pc'[c] = IF c = a THEN label ELSE pc[c]
        /\ sock'[c] = IF c = t THEN u ELSE sock[c]
    BY Ends DEF WInv, Types
  <2>2. CFrame(c)
    BY <2>1 DEF CFrame, WInv, ConnectWaits
  <2> QED BY <2>2, CStays DEF WInv
<1> QED BY <1>1, <1>2, <1>3 DEF WInv

LEMMA ConnectSendInv ==
    ASSUME WInv, NEW c \in Client, ConnectSend(c)
    PROVE  WInv'
<1> DEFINE t == tcp_bind_hash(sock[c])
           m == ControlPacket(t, {"SYN"})
<1>1. /\ pc[c] = "start" /\ pc' = [pc EXCEPT ![c] = "hash"]
      /\ sock' = [sock EXCEPT ![c] = Sent(t, m)] /\ Send(c, m)
      /\ UNCHANGED <<wait_connect, accepting, faults>>
  BY DEF ConnectSend, Goto
<1>2. sock[c] \in TcpSock /\ c \in App /\ c \in End /\ c \in Sock /\ sock[c].state # "SYN_RECV"
  BY Ends DEF WInv, Types, ConnectWaits
<1>3. t \in TcpSock /\ t.state = sock[c].state
  BY <1>2, Helpers
<1>4. m \in Segment /\ Sent(t, m) \in TcpSock /\ Sent(t, m).state = t.state
  BY <1>3, SegmentTypes
<1>5. wire' \in [End -> Seq(Segment)]
  BY <1>1, <1>2, <1>4, Wires DEF WInv
<1> HIDE DEF t, m
<1> QED BY <1>1, <1>2, <1>3, <1>4, <1>5, Ends, AwakeStep DEF Labels

LEMMA ConnectHashInv ==
    ASSUME WInv, NEW c \in Client, ConnectHash(c)
    PROVE  WInv'
<1> DEFINE u == tcp_hash([sock[c] EXCEPT !.state = "SYN_SENT"])
<1>1. /\ pc[c] = "hash" /\ pc' = [pc EXCEPT ![c] = "sleep"]
      /\ sock' = [sock EXCEPT ![c] = u]
      /\ UNCHANGED <<wait_connect, accepting, wire, faults>>
  BY DEF ConnectHash, Goto
<1>2. sock[c] \in TcpSock /\ c \in App /\ c \in Sock
  BY Ends DEF WInv, Types
<1>3. /\ [sock[c] EXCEPT !.state = "SYN_SENT"] \in TcpSock
      /\ [sock[c] EXCEPT !.state = "SYN_SENT"].state = "SYN_SENT"
  BY <1>2 DEF TcpSock, State
<1>4. u \in TcpSock /\ u.state = "SYN_SENT"
  BY <1>3, Helpers
<1> HIDE DEF u
<1>5. Types'
  BY <1>1, <1>4 DEF WInv, Types, accepting, Labels
<1>6. AcceptWaits'
  <2>1. AFrame
    BY <1>1, Ends DEF WInv, Types, AFrame, accepting
  <2> QED BY <2>1, AStays DEF WInv
<1>7. ASSUME NEW d \in Client PROVE ConnectWaits(d)'
  <2>1. CASE d = c
    <3>1. sock'[d] = u /\ pc'[d] = "sleep" /\ wait_connect'[d] = wait_connect[d]
      BY <2>1, <1>1, <1>2 DEF WInv, Types
    <3>2. Unaware(wait_connect[d]) /\ wait_connect[d].thread # "waiting"
      BY <2>1, <1>1 DEF WInv, ConnectWaits
    <3> QED BY <3>1, <3>2, <1>4 DEF ConnectWaits, Unaware, Early
  <2>2. CASE d # c
    <3>1. sock'[d] = sock[d] /\ pc'[d] = pc[d]
      BY <2>2, <1>1, Ends DEF WInv, Types
    <3> QED BY <3>1, <1>1, CStays DEF CFrame, WInv, ConnectWaits
  <2> QED BY <2>1, <2>2
<1> QED BY <1>5, <1>6, <1>7 DEF WInv

(* A client's thread goes to sleep, or comes from it.                      *)
LEMMA ConnectSleepInv ==
    ASSUME WInv, NEW c \in Client, ConnectSleep(c) \/ ConnectReturn(c)
    PROVE  WInv'
<1> DEFINE w == wait_connect[c]
<1>1. /\ w \in WaitStruct /\ Unaware(w) /\ c \in App /\ c \in Sock /\ c # Listener
      /\ ConnectWaits(c)
  BY Ends DEF WInv, Types, ConnectWaits
<1>2. PICK v \in WaitStruct, label \in Labels :
        /\ wait_connect' = [wait_connect EXCEPT ![c] = v]
        /\ pc' = [pc EXCEPT ![c] = label]
        /\ label # "sleep"
        /\ v.thread = "waiting" =>
              label = "asleep" /\ v.sleep /\ ~v.notified /\ sock[c].state \in Early
        /\ UNCHANGED <<sock, accepting, wire, faults>>
  <2>1. CASE ConnectReturn(c)
    BY <2>1, <1>1, Waiting DEF ConnectReturn, Goto, Labels
  <2>2. CASE ConnectSleep(c)
    <3>1. /\ wait_connect' = [wait_connect EXCEPT ![c] = EnterSleep(w)]
          /\ wait_connect'[c] = EnterSleep(w)
          /\ pc[c] = "sleep"
          /\ UNCHANGED <<sock, accepting, wire, faults>>
      BY <2>2 DEF ConnectSleep, WInv, Types
    <3>2. CASE w.notified
      <4>1. EnterSleep(w).thread # "waiting" /\ ~EnterSleep(w).sleep
        BY <3>1, <3>2, <1>1, Waiting DEF ConnectWaits
      <4> QED BY <4>1, <3>1, <2>2, <1>1, Waiting DEF ConnectSleep, Goto, Labels
    <3>3. CASE ~w.notified
      <4>1. /\ EnterSleep(w).sleep /\ ~EnterSleep(w).notified
            /\ sock[c].state \in Early
        BY <3>1, <3>3, <1>1, Waiting DEF ConnectWaits
      <4>2. pc' = [pc EXCEPT ![c] = "asleep"]
        BY <4>1, <3>1, <2>2 DEF ConnectSleep, Goto
      <4> QED BY <4>1, <4>2, <3>1, <1>1, Waiting DEF Labels
    <3> QED BY <3>2, <3>3
  <2> QED BY <2>1, <2>2
<1>3. Types'
  BY <1>2 DEF WInv, Types, accepting
<1>4. AcceptWaits'
  <2>1. AFrame
    BY <1>1, <1>2 DEF WInv, Types, AFrame, accepting
  <2> QED BY <2>1, AStays DEF WInv
<1>5. ASSUME NEW d \in Client PROVE ConnectWaits(d)'
  <2>1. CASE d = c
    <3>1. sock'[d] = sock[d] /\ pc'[d] = label /\ wait_connect'[d] = v
      BY <2>1, <1>1, <1>2 DEF WInv, Types
    <3>2. sock[d].state # "SYN_RECV"
      BY <2>1, <1>1 DEF ConnectWaits
    <3> QED BY <3>1, <3>2, <2>1, <1>2 DEF ConnectWaits, Unaware
  <2>2. CASE d # c
    <3>1. sock'[d] = sock[d] /\ pc'[d] = pc[d] /\ wait_connect'[d] = wait_connect[d]
      BY <2>2, <1>2, Ends DEF WInv, Types
    <3> QED BY <3>1, CStays DEF CFrame, WInv, ConnectWaits
  <2> QED BY <2>1, <2>2
<1> QED BY <1>3, <1>4, <1>5 DEF WInv

(* Steps of the server's thread in tcp_sock_accept.                        *)
LEMMA AcceptStep ==
    ASSUME WInv, NEW label \in Labels, pc' = [pc EXCEPT ![Listener] = label],
           NEW t \in Children \cup {Listener}, NEW u \in TcpSock, sock' = [sock EXCEPT ![t] = u],
           wait_accept' \in WaitStruct, accept_queue' \in Seq(Children),
           csk' \in Children \cup {Listener}, AcceptWaits',
           UNCHANGED <<wait_connect, wire>>
    PROVE  WInv'
<1>1. Types'
  BY Ends DEF WInv, Types, End, Sock
<1>2. ASSUME NEW c \in Client PROVE ConnectWaits(c)'
  <2>1. sock'[c] = sock[c] /\ pc'[c] = pc[c]
    BY Ends DEF WInv, Types
  <2> QED BY <2>1, CStays DEF CFrame, WInv, ConnectWaits
<1> QED BY <1>1, <1>2 DEF WInv

LEMMA AcceptInv ==
    ASSUME WInv, Accept
    PROVE  WInv'
<1> DEFINE w == wait_accept
<1>1. /\ w \in WaitStruct /\ Unaware(w) /\ AcceptWaits /\ Listener \in App /\ Listener \in Sock
      /\ accept_queue \in Seq(Children) /\ csk \in Children \cup {Listener}
      /\ sock[Listener] \in TcpSock /\ sock = [sock EXCEPT ![Listener] = sock[Listener]]
  BY Ends DEF WInv, Types, AcceptWaits
<1>2. ASSUME NEW label \in Labels, pc' = [pc EXCEPT ![Listener] = label]
      PROVE  pc'[Listener] = label
  BY <1>1, <1>2 DEF WInv, Types
<1>3. CASE Listen
  <2> DEFINE t == tcp_bind_hash(sock[Listener])
             u == tcp_hash([t EXCEPT !.state = "LISTEN"])
  <2>1. t \in TcpSock
    BY <1>1, Helpers
  <2>2. [t EXCEPT !.state = "LISTEN"] \in TcpSock
    BY <2>1 DEF TcpSock, State
  <2>3. u \in TcpSock
    BY <2>2, Helpers
  <2>4. /\ pc[Listener] = "start" /\ pc' = [pc EXCEPT ![Listener] = "accept"]
        /\ sock' = [sock EXCEPT ![Listener] = u]
        /\ UNCHANGED <<wait_connect, accepting, wire, faults>>
    BY <1>3 DEF Listen, Goto
  <2>5. wire' \in [End -> Seq(Segment)]
    BY <2>4 DEF WInv, Types
  <2> HIDE DEF u
  <2> QED BY <1>1, <2>3, <2>4, <2>5, Ends, AwakeStep DEF Labels, Holding
<1>4. CASE AcceptLook
  <2>1. PICK label \in {"sleep", "dequeue"} :
          /\ pc' = [pc EXCEPT ![Listener] = label]
          /\ label = "sleep" <=> accept_queue = <<>>
    BY <1>4 DEF AcceptLook, Goto
  <2>2. /\ pc[Listener] = "accept"
        /\ UNCHANGED <<sock, wait_connect, accepting, wire>>
    BY <1>4 DEF AcceptLook
  <2>3. AcceptWaits'
    BY <1>1, <1>2, <2>1, <2>2 DEF AcceptWaits, Unaware, accepting, Labels,
       Holding
  <2> QED BY <1>1, <2>1, <2>2, <2>3, AcceptStep DEF accepting, Labels
<1>5. CASE AcceptSleep
  <2>1. /\ pc[Listener] = "sleep" /\ wait_accept' = EnterSleep(w)
        /\ UNCHANGED <<sock, wait_connect, accept_queue, csk, wire>>
    BY <1>5 DEF AcceptSleep
  <2>2. CASE w.notified
    <3>1. EnterSleep(w) \in WaitStruct /\ ~EnterSleep(w).sleep /\ EnterSleep(w).thread # "waiting"
      BY <2>1, <2>2, <1>1, Waiting DEF AcceptWaits
    <3>2. pc' = [pc EXCEPT ![Listener] = "accept"]
      BY <3>1, <2>1, <1>5 DEF AcceptSleep, Goto
    <3>3. AcceptWaits'
      BY <1>1, <1>2, <2>1, <3>1, <3>2 DEF AcceptWaits, Unaware, Labels, Holding
    <3> QED BY <1>1, <2>1, <3>1, <3>2, <3>3, AcceptStep DEF Labels
  <2>3. CASE ~w.notified
    <3>1. EnterSleep(w) \in WaitStruct /\ EnterSleep(w).sleep /\ ~EnterSleep(w).notified
      BY <2>3, <1>1, Waiting
    <3>2. pc' = [pc EXCEPT ![Listener] = "asleep"]
      BY <3>1, <2>1, <1>5 DEF AcceptSleep, Goto
    <3>3. accept_queue = <<>>
      BY <2>1, <2>3, <1>1 DEF AcceptWaits
    <3>4. AcceptWaits'
      BY <1>1, <1>2, <2>1, <3>1, <3>2, <3>3 DEF AcceptWaits, Unaware, Labels,
         Holding
    <3> QED BY <1>1, <2>1, <3>1, <3>2, <3>4, AcceptStep DEF Labels
  <2> QED BY <2>2, <2>3
<1>6. CASE AcceptWake
  <2>1. /\ wait_accept' = LeaveSleep(w) /\ pc' = [pc EXCEPT ![Listener] = "accept"]
        /\ UNCHANGED <<sock, wait_connect, accept_queue, csk, wire>>
    BY <1>6 DEF AcceptWake, Goto
  <2>2. LeaveSleep(w) \in WaitStruct /\ LeaveSleep(w).thread = "out"
    BY <1>1, Waiting
  <2>3. AcceptWaits'
    BY <1>1, <1>2, <2>1, <2>2 DEF AcceptWaits, Unaware, Labels, Holding
  <2> QED BY <1>1, <2>1, <2>2, <2>3, AcceptStep DEF Labels
<1>7. CASE Dequeue
  <2>1. /\ pc[Listener] = "dequeue" /\ pc' = [pc EXCEPT ![Listener] = "unlink"]
        /\ csk' = Head(accept_queue)
        /\ UNCHANGED <<sock, wait_connect, wait_accept, accept_queue, wire>>
    BY <1>7 DEF Dequeue, Goto
  <2>2. accept_queue # <<>>
    BY <2>1, <1>1 DEF AcceptWaits
  <2>3. csk' \in Children
    BY <2>1, <2>2, <1>1
  <2>4. AcceptWaits'
    BY <1>1, <1>2, <2>1, <2>2 DEF AcceptWaits, Unaware, Labels, Holding
  <2> QED BY <1>1, <2>1, <2>3, <2>4, AcceptStep DEF Labels
<1>8. CASE Unlink
  <2> DEFINE u == tcp_hash([sock[csk] EXCEPT !.state = "ESTABLISHED"])
  <2>1. /\ pc[Listener] = "unlink" /\ pc' = [pc EXCEPT ![Listener] = "connected"]
        /\ accept_queue' = Tail(accept_queue) \/ accept_queue' = <<>>
        /\ sock' = [sock EXCEPT ![csk] = u]
        /\ UNCHANGED <<wait_connect, wait_accept, csk, wire>>
    BY <1>8 DEF Unlink, Goto
  <2>2. accept_queue' \in Seq(Children)
    <3>1. accept_queue # <<>>
      BY <2>1, <1>1 DEF AcceptWaits
    <3>2. Tail(accept_queue) \in Seq(Children) /\ <<>> \in Seq(Children)
      BY <3>1, <1>1
    <3> QED BY <3>2, <2>1
  <2>3. u \in TcpSock
    <3>1. sock[csk] \in TcpSock
      BY <1>1 DEF WInv, Types, Sock, End
    <3>2. [sock[csk] EXCEPT !.state = "ESTABLISHED"] \in TcpSock
      BY <3>1 DEF TcpSock, State
    <3> QED BY <3>2, Helpers
  <2> HIDE DEF u
  <2>4. AcceptWaits'
    BY <1>1, <1>2, <2>1 DEF AcceptWaits, Unaware, Labels, Holding
  <2> QED BY <1>1, <2>1, <2>2, <2>3, <2>4, AcceptStep DEF Labels
<1> QED BY <1>3, <1>4, <1>5, <1>6, <1>7, <1>8 DEF Accept

LEMMA CloseInv ==
    ASSUME WInv, NEW a \in App, Close(a)
    PROVE  WInv'
<1> DEFINE e == Held(a)
<1>1. e \in Sock /\ sock[e] \in TcpSock /\ (e \in Client => e = a)
  <2>1. csk \in Children \cup {Listener}
    BY DEF WInv, Types
  <2> QED BY <2>1, Ends DEF Held, WInv, Types, App, Sock, End
<1>2. pc[a] \in Holding => e \in End /\ (a = Listener => csk \in Children)
  BY Ends DEF WInv, AcceptWaits, Held, App, End
<1>3. sock[e].state # "SYN_RECV" \/ e \notin Client
  BY DEF WInv, ConnectWaits
<1> HIDE DEF e
<1>4. CASE CloseSend(a)
  <2> DEFINE m == ControlPacket(sock[e], {"FIN", "ACK"})
             u == Sent(sock[e], m)
             label == AfterFin(sock[e].state)
  <2>1. /\ pc[a] = "connected"
        /\ pc' = [pc EXCEPT ![a] = label] /\ sock' = [sock EXCEPT ![e] = u]
        /\ Send(e, m) /\ UNCHANGED <<wait_connect, accepting, faults>>
    BY <1>4 DEF CloseSend, Goto, e
  <2>2. m \in Segment /\ u \in TcpSock /\ u.state = sock[e].state
    BY <1>1, SegmentTypes
  <2>3. label \in {"FIN_WAIT_1", "LAST_ACK"}
    BY DEF AfterFin
  <2>4. wire' \in [End -> Seq(Segment)]
    BY <1>2, <2>1, <2>2, Wires DEF WInv, Holding
  <2>5. a = Listener => csk \in Children
    BY <1>2, <2>1 DEF Holding
  <2> HIDE DEF u, label, m
  <2> QED BY <1>1, <1>3, <2>1, <2>2, <2>3, <2>4, <2>5, AwakeStep DEF Labels
<1>5. CASE CloseSet(a)
  <2> DEFINE u == [sock[e] EXCEPT !.state = pc[a]]
  <2>1. /\ pc[a] \in State /\ pc' = [pc EXCEPT ![a] = "done"]
        /\ sock' = [sock EXCEPT ![e] = u] /\ UNCHANGED <<wait_connect, accepting, wire, faults>>
    BY <1>1, <1>5 DEF CloseSet, Goto, e, WInv, Types
  <2>2. pc[a] \in {"FIN_WAIT_1", "LAST_ACK"}
    BY <2>1 DEF WInv, Types, Labels, State
  <2>3. u \in TcpSock /\ u.state = pc[a]
    BY <1>1, <2>1 DEF TcpSock
  <2> HIDE DEF u
  <2>4. wire' \in [End -> Seq(Segment)]
    BY <2>1 DEF WInv, Types
  <2> QED BY <1>1, <2>1, <2>2, <2>3, <2>4, AwakeStep DEF Labels, Holding
<1>6. CASE CloseNothing(a)
  <2>1. /\ pc[a] = "connected" /\ pc' = [pc EXCEPT ![a] = "done"]
        /\ sock' = [sock EXCEPT ![e] = sock[e]]
        /\ UNCHANGED <<wait_connect, accepting, wire, faults>>
    BY <1>6 DEF CloseNothing, Goto, WInv, Types
  <2>2. wire' \in [End -> Seq(Segment)]
    BY <2>1 DEF WInv, Types
  <2> QED BY <1>1, <1>3, <2>1, <2>2, AwakeStep DEF Labels, Holding
<1> QED BY <1>4, <1>5, <1>6 DEF Close
-----------------------------------------------------------------------------
(* A segment is lost; a process starts anew, and nobody waits in it.       *)
LEMMA LoseInv ==
    ASSUME WInv, NEW e \in End, Lose(e)
    PROVE  WInv'
<1>1. wire[e] \in Seq(Segment) /\ wire[e] # <<>>
  BY DEF WInv, Types, Lose
<1>2. Tail(wire[e]) \in Seq(Segment)
  BY <1>1
<1>3. wire' \in [End -> Seq(Segment)]
  BY <1>2 DEF WInv, Types, Lose
<1>4. Types'
  BY <1>3 DEF WInv, Types, Lose, accepting
<1>5. AcceptWaits'
  BY AStays DEF WInv, AFrame, Lose, accepting
<1>6. ASSUME NEW c \in Client PROVE ConnectWaits(c)'
  BY CStays DEF CFrame, WInv, ConnectWaits, Lose
<1> QED BY <1>4, <1>5, <1>6 DEF WInv

LEMMA Fresh ==
    /\ alloc_tcp_sock \in TcpSock /\ alloc_tcp_sock.state = "CLOSED"
    /\ alloc_wait_struct \in WaitStruct /\ alloc_wait_struct.thread = "out"
    /\ <<>> \in Seq(Segment) /\ <<>> \in Seq(Children)
  BY DEF alloc_tcp_sock, TcpSock, State, alloc_wait_struct, WaitStruct

LEMMA RestartClientInv ==
    ASSUME WInv, NEW c \in Client, RestartClient(c)
    PROVE  WInv'
<1>1. /\ pc' = [pc EXCEPT ![c] = "start"] /\ sock' = [sock EXCEPT ![c] = alloc_tcp_sock]
      /\ wait_connect' = [wait_connect EXCEPT ![c] = alloc_wait_struct]
      /\ wire' = [wire EXCEPT ![c] = <<>>] /\ UNCHANGED accepting
      /\ c \in App /\ c \in Sock /\ c # Listener
  BY Ends DEF RestartClient, Goto
<1>2. Types'
  BY <1>1, Fresh DEF WInv, Types, accepting, Labels
<1>3. AcceptWaits'
  <2>1. AFrame
    BY <1>1 DEF WInv, Types, AFrame, accepting
  <2> QED BY <2>1, AStays DEF WInv
<1>4. ASSUME NEW d \in Client PROVE ConnectWaits(d)'
  <2>1. CASE d = c
    <3>1. /\ sock'[d] = alloc_tcp_sock /\ pc'[d] = "start"
          /\ wait_connect'[d] = alloc_wait_struct
      BY <2>1, <1>1 DEF WInv, Types
    <3> QED BY <3>1, Fresh DEF ConnectWaits, Unaware
  <2>2. CASE d # c
    <3>1. sock'[d] = sock[d] /\ pc'[d] = pc[d] /\ wait_connect'[d] = wait_connect[d]
      BY <2>2, <1>1, Ends DEF WInv, Types
    <3> QED BY <3>1, CStays DEF CFrame, WInv, ConnectWaits
  <2> QED BY <2>1, <2>2
<1> QED BY <1>2, <1>3, <1>4 DEF WInv

LEMMA RestartServerInv ==
    ASSUME WInv, RestartServer
    PROVE  WInv'
<1>1. /\ pc' = [pc EXCEPT ![Listener] = "start"]
      /\ sock' = [s \in Sock |-> IF s \in Client THEN sock[s] ELSE alloc_tcp_sock]
      /\ wait_accept' = alloc_wait_struct /\ accept_queue' = <<>> /\ csk' = Listener
      /\ wire' = [e \in End |-> IF e \in Client THEN wire[e] ELSE <<>>]
      /\ UNCHANGED wait_connect /\ Listener \in App
  BY Ends DEF RestartServer, Goto
<1>2. Types'
  BY <1>1, Fresh DEF WInv, Types, Labels
<1>3. AcceptWaits'
  <2>1. pc'[Listener] = "start"
    BY <1>1 DEF WInv, Types
  <2> QED BY <2>1, <1>1, Fresh DEF AcceptWaits, Unaware, Holding
<1>4. ASSUME NEW c \in Client PROVE ConnectWaits(c)'
  <2>1. sock'[c] = sock[c] /\ pc'[c] = pc[c]
    BY <1>1, Ends DEF WInv, Types
  <2> QED BY <2>1, <1>1, CStays DEF CFrame, WInv, ConnectWaits
<1> QED BY <1>2, <1>3, <1>4 DEF WInv
-----------------------------------------------------------------------------
LEMMA InitWInv == Init => WInv
<1> SUFFICES ASSUME Init PROVE WInv
  OBVIOUS
<1>1. Types
  BY Fresh DEF Init, Types, Labels
<1>2. AcceptWaits
  BY Fresh, Ends DEF Init, AcceptWaits, Unaware, Holding
<1>3. ASSUME NEW c \in Client PROVE ConnectWaits(c)
  BY Fresh, Ends DEF Init, ConnectWaits, Unaware
<1> QED BY <1>1, <1>2, <1>3 DEF WInv

LEMMA NextWInv == WInv /\ [Next]_vars => WInv'
<1> SUFFICES ASSUME WInv, [Next]_vars PROVE WInv'
  OBVIOUS
<1>1. CASE Work
  <2>1. ASSUME NEW c \in Client, Connect(c) PROVE WInv'
    BY <2>1, ConnectSendInv, ConnectHashInv, ConnectSleepInv DEF Connect
  <2> QED BY <1>1, <2>1, ReceiveInv, AcceptInv, CloseInv DEF Work
<1>2. CASE Fault
  BY <1>2, LoseInv, RestartClientInv, RestartServerInv DEF Fault
<1>3. CASE UNCHANGED vars
  BY <1>3 DEF vars, WInv, Types, AcceptWaits, ConnectWaits, Unaware
<1> QED BY <1>1, <1>2, <1>3 DEF Next

LEMMA SpecWInv == Spec => []WInv
  BY InitWInv, NextWInv, PTL DEF Spec

(* No wake-up is lost, of however many clients: a thread waits without a   *)
(* signal on its way only for what has not happened yet.                   *)
THEOREM SpecNoLostWakeup == Spec => []NoLostWakeup
<1>1. WInv => NoLostWakeup
  BY DEF WInv, AcceptWaits, ConnectWaits, NoLostWakeup, Early
<1> QED BY <1>1, SpecWInv, PTL

(* The server's thread gives back and closes only children it has taken    *)
(* from the queue.                                                         *)
THEOREM SpecHolding == Spec => [](pc[Listener] \in Holding => csk \in Children)
<1>1. WInv => (pc[Listener] \in Holding => csk \in Children)
  BY DEF WInv, AcceptWaits
<1> QED BY <1>1, SpecWInv, PTL
-----------------------------------------------------------------------------
(* The members of a queue, and those behind the first.                     *)
Members(q) == {q[i] : i \in DOMAIN q}

Later(q) == {q[i] : i \in DOMAIN q \ {1}}

(* Where the server's thread is before it takes a child from the queue,    *)
(* and before it closes the one it took.                                   *)
Looking == {"start", "accept", "sleep", "asleep", "dequeue"}

Before == Looking \cup {"unlink", "connected"}

(* The connection of client c: s and t are the client's sock and the       *)
(* child, p is where the client's thread is; wc and wk are the segments on *)
(* their way to the client and to the child, rc and rk those of them that  *)
(* are not the next to arrive.  The child has been put into the queue      *)
(* (joined), waits in it or has just been taken from it (pending), or is   *)
(* being closed or closed by the server's thread (open).                   *)
View(c) ==
    [s |-> sock[c], t |-> sock[Child(c)], p |-> pc[c],
     wc |-> Members(wire[c]), rc |-> Later(wire[c]),
     wk |-> Members(wire[Child(c)]), rk |-> Later(wire[Child(c)]),
     joined |-> csk = Child(c) \/ Child(c) \in Members(accept_queue),
     pending |-> \/ pc[Listener] \in Looking /\ Child(c) \in Members(accept_queue)
                 \/ pc[Listener] = "unlink" /\ csk = Child(c),
     open |-> csk = Child(c) /\ pc[Listener] \notin Before]

(* The kinds of segments.                                                  *)
IsAck(m) == m.flags = {"ACK"}
IsSyn(m) == "SYN" \in m.flags
IsFin(m) == "FIN" \in m.flags
IsRst(m) == "RST" \in m.flags

(* The client's thread has closed its sock.                                *)
Gone == {"FIN_WAIT_1", "LAST_ACK", "done"}

(* The child has not been made; the client has not been answered; the      *)
(* child has got, or is about to get, the last segment of the handshake.   *)
Unmade(v) == v.t.state = "CLOSED" /\ v.t.snd_nxt = 0 /\ ~v.joined /\ ~v.pending

Opening(v) == v.s.state \in Early /\ v.p \notin {"FIN_WAIT_1", "LAST_ACK", "start"}

Alive(v) ==
    \/ v.t.state = "ESTABLISHED" \/ v.pending
    \/ v.t.state = "SYN_RECV" /\ \E m \in v.wk : IsAck(m)

(* Nobody has got, or is about to get, what the other end has not sent.    *)
Numbers(v) ==
    /\ \A m \in v.wk : seq_end(m) <= v.s.snd_nxt
    /\ \A m \in v.wc : seq_end(m) <= v.t.snd_nxt
    /\ v.s.rcv_nxt <= v.t.snd_nxt /\ v.t.rcv_nxt <= v.s.snd_nxt

(* The order of the handshake: a SYN is alone on the wires, the first one  *)
(* before there is a child and the second one before the client is         *)
(* synchronised; only a child that answered the client can be enqueued.    *)
Handshake(v) ==
    /\ v.p = "start" => v.wc = {} /\ v.wk = {} /\ Unmade(v)
    /\ v.p \in {"start", "hash"} => v.s.state = "CLOSED"
    /\ \A m \in v.wk : IsSyn(m) => v.rk = {} /\ v.wc = {} /\ Unmade(v) /\ Opening(v)
    /\ \A m \in v.wc : IsSyn(m) => v.rc = {} /\ v.wk = {} /\ v.t.state = "SYN_RECV" /\ Opening(v)
    /\ v.s.state \notin {"SYN_RECV", "LISTEN"} /\ v.t.state \notin {"SYN_SENT", "LISTEN"}
    /\ v.t.state = "SYN_RECV" =>
          v.t.hashed /\ ~v.joined /\ ~v.pending /\ \A m \in v.rk : ~IsAck(m)
    /\ v.open => v.joined
    /\ v.pending => v.joined /\ ~v.open

(* An accepted child, or one about to be, has a client that knows it, and  *)
(* no reset is on its way to either end.                                   *)
Known(v) ==
    Alive(v) =>
      /\ v.s.state \notin Early /\ v.s.hashed /\ v.t.hashed
      /\ \A m \in v.wc \cup v.wk : ~IsRst(m)
      /\ v.p = "LAST_ACK" => v.s.state = "CLOSE_WAIT"
      /\ v.t.state \in {"SYN_RECV", "ESTABLISHED", "CLOSE_WAIT"}

(* The server's FIN is sent by its close, the client's by its own; a FIN   *)
(* is the last thing of its sender, and comes before no acknowledgement of *)
(* an older number.                                                        *)
Fins(v) ==
    /\ ~v.open => /\ \A m \in v.wc : ~IsFin(m)
                  /\ v.s.state \notin {"CLOSE_WAIT", "LAST_ACK"} /\ v.p # "LAST_ACK"
    /\ \A m \in v.wc : IsFin(m) => seq_end(m) = v.t.snd_nxt
    /\ \A m \in v.wk : IsFin(m) => seq_end(m) = v.s.snd_nxt /\ v.p \in Gone
    /\ v.t.state = "ESTABLISHED" =>
         /\ \A m, n \in v.wc : IsFin(m) /\ IsAck(n) => seq_end(n) < seq_end(m)
         /\ v.s.state \in {"CLOSE_WAIT", "LAST_ACK"} =>
              \A m \in v.wc : IsAck(m) => seq_end(m) < v.s.rcv_nxt

(* An acknowledgement on its way is for all that was sent, so who takes it *)
(* in FIN_WAIT_1 is right to believe that its FIN has arrived.             *)
Acks(v) ==
    /\ \A m \in v.wc : IsAck(m) =>
          m.ack = v.s.snd_nxt /\ v.t.rcv_nxt = v.s.snd_nxt /\ v.p \in Gone
    /\ \A m \in v.wk : IsAck(m) =>
          \/ v.t.state \in {"SYN_RECV", "CLOSED"} /\ ~v.joined
          \/ m.ack = v.t.snd_nxt /\ v.s.rcv_nxt = v.t.snd_nxt /\ v.open
    /\ v.s.state = "FIN_WAIT_2" => v.s.snd_una = v.s.snd_nxt /\ v.t.rcv_nxt = v.s.snd_nxt
    /\ v.t.state = "FIN_WAIT_2" => v.t.snd_una = v.t.snd_nxt /\ v.s.rcv_nxt = v.t.snd_nxt

(* What is true of every connection while no process has been run again.   *)
Agreed(v) == Numbers(v) /\ Handshake(v) /\ Known(v) /\ Fins(v) /\ Acks(v)

(* The types of a view.                                                    *)
Fit(v) ==
    /\ v.s \in TcpSock /\ v.t \in TcpSock
    /\ v.wc \subseteq Segment /\ v.wk \subseteq Segment
    /\ v.rc \subseteq v.wc /\ v.rk \subseteq v.wk

AllAgree == \A c \in Client : Agreed(View(c))
-----------------------------------------------------------------------------
LEMMA SegmentFacts ==
    ASSUME NEW m \in Segment
    PROVE  /\ seq_end(m) \in Nat /\ m.seq \in Nat /\ m.ack \in Nat
           /\ IsAck(m) => ~IsSyn(m) /\ ~IsFin(m) /\ ~IsRst(m) /\ seq_end(m) = m.seq
           /\ IsFin(m) => seq_end(m) = m.seq + 1
  BY DEF Segment, seq_end, Length, IsAck, IsSyn, IsFin, IsRst

(* Nothing of the connection changes, or the server's thread does a step   *)
(* with another one.                                                       *)
Frame(v, w) ==
    /\ w.s = v.s /\ w.t = v.t /\ w.p = v.p
    /\ w.wc = v.wc /\ w.wk = v.wk /\ w.rc = v.rc /\ w.rk = v.rk
    /\ w.joined => v.joined
    /\ v.open => w.open
    /\ w.open => w.joined
    /\ w.pending => v.pending /\ w.joined /\ ~w.open

LEMMA FrameAgrees ==
    ASSUME NEW v, NEW w, Agreed(v), Fit(v), Frame(v, w)
    PROVE  Agreed(w)
<1>1. Numbers(w)
  BY DEF Frame, Agreed, Numbers
<1>2. Handshake(w)
  BY DEF Frame, Agreed, Handshake, Unmade, Opening
<1>3. Known(w)
  BY DEF Frame, Agreed, Known, Alive
<1>4. Fins(w)
  BY DEF Frame, Agreed, Fins
<1>5. Acks(w)
  BY DEF Frame, Agreed, Acks
<1> QED BY <1>1, <1>2, <1>3, <1>4, <1>5 DEF Agreed

(* A segment m is taken from the wire to the server, and out sent back.    *)
AtServer(v, w, m, out) ==
    /\ m \in v.wk /\ v.wk \subseteq {m} \cup v.rk
    /\ w.wk = v.rk /\ w.rk \subseteq v.rk
    /\ w.wc = v.wc \cup out /\ w.rc \subseteq v.rc \cup out
    /\ v.wc = {} => w.rc = {}

AtClient(v, w, m, out) ==
    /\ m \in v.wc /\ v.wc \subseteq {m} \cup v.rc
    /\ w.wc = v.rc /\ w.rc \subseteq v.rc
    /\ w.wk = v.wk \cup out /\ w.rk \subseteq v.rk \cup out
    /\ v.wk = {} => w.rk = {}

SameServer(v, w) == w.joined = v.joined /\ w.pending = v.pending /\ w.open = v.open

Reset(m, n) ==
    m \in Segment /\ IsRst(m) /\ ~IsAck(m) /\ ~IsSyn(m) /\ ~IsFin(m) /\ seq_end(m) <= n

Acking(m, n, next) ==
    m \in Segment /\ IsAck(m) /\ m.ack = n /\ seq_end(m) = next

Finning(m, next) ==
    /\ m \in Segment /\ IsFin(m) /\ ~IsAck(m) /\ ~IsSyn(m) /\ ~IsRst(m)
    /\ seq_end(m) = next

(* What one end keeps when only its state changes, and what it does with a *)
(* segment it takes.                                                       *)
Keeps(s, u) == u \in TcpSock /\ u.snd_nxt = s.snd_nxt /\ u.snd_una = s.snd_una /\ u.rcv_nxt = s.rcv_nxt

Takes(s, u, m) ==
    /\ u \in TcpSock /\ u.snd_nxt = s.snd_nxt /\ u.rcv_nxt = seq_end(m) /\ s.rcv_nxt <= seq_end(m)

SameClient(v, w) == w.s = v.s /\ w.p = v.p

SameWires(v, w) == w.wc = v.wc /\ w.rc = v.rc /\ w.wk = v.wk /\ w.rk = v.rk

(* A segment m is sent by the client, or by the server.                    *)
ToServer(v, w, m) ==
    /\ w.wk = v.wk \cup {m} /\ w.rk \subseteq v.rk \cup {m} /\ (v.wk = {} => w.rk = {})
    /\ w.wc = v.wc /\ w.rc = v.rc

ToClient(v, w, m) ==
    /\ w.wc = v.wc \cup {m} /\ w.rc \subseteq v.rc \cup {m} /\ (v.wc = {} => w.rc = {})
    /\ w.wk = v.wk /\ w.rk = v.rk

(* A segment to the server comes to a child out of the table: no sock      *)
(* takes it, and a reset goes back.                                        *)
LEMMA ServerRejects ==
    ASSUME NEW v, NEW w, Agreed(v), Fit(v), NEW m \in Segment, NEW out,
           AtServer(v, w, m, out),
           ~v.t.hashed,
           \A n \in out : Reset(n, v.t.snd_nxt),
           w.t = v.t,
           SameClient(v, w),
           SameServer(v, w)
    PROVE  Agreed(w)
<1>1. Numbers(w)
  BY DEF Agreed, Fit, AtServer, SameClient, Reset, Numbers
<1>2. Handshake(w)
  BY DEF Agreed, Fit, AtServer, SameServer, SameClient, Reset, Handshake
<1>3. Known(w)
  BY DEF Agreed, Fit, AtServer, SameServer, Known, Alive
<1>4. Fins(w)
  BY DEF Agreed, Fit, AtServer, SameServer, SameClient, Reset, Fins
<1>5. Acks(w)
  BY DEF Agreed, Fit, AtServer, SameServer, SameClient, Reset, Acks
<1> QED BY <1>1, <1>2, <1>3, <1>4, <1>5 DEF Agreed

(* A segment to the server is ignored, or lost.                            *)
LEMMA ServerIgnores ==
    ASSUME NEW v, NEW w, Agreed(v), Fit(v), NEW m \in Segment, NEW out,
           AtServer(v, w, m, out),
           out = {},
           w.t = v.t,
           SameClient(v, w),
           SameServer(v, w)
    PROVE  Agreed(w)
<1>1. Numbers(w)
  BY DEF Agreed, Fit, AtServer, SameClient, Numbers
<1>2. Handshake(w)
  BY DEF Agreed, Fit, AtServer, SameServer, SameClient, Handshake
<1>3. Known(w)
  BY DEF Agreed, Fit, AtServer, SameServer, SameClient, Known, Alive
<1>4. Fins(w)
  BY DEF Agreed, Fit, AtServer, SameServer, SameClient, Fins
<1>5. Acks(w)
  BY DEF Agreed, Fit, AtServer, SameServer, SameClient, Acks
<1> QED BY <1>1, <1>2, <1>3, <1>4, <1>5 DEF Agreed

(* A reset closes the child.                                               *)
LEMMA ServerCloses ==
    ASSUME NEW v, NEW w, Agreed(v), Fit(v), NEW m \in Segment, NEW out,
           AtServer(v, w, m, out),
           out = {},
           Keeps(v.t, w.t),
           w.t.state = "CLOSED",
           IsRst(m) \/ v.t.state = "CLOSED",
           SameClient(v, w),
           SameServer(v, w)
    PROVE  Agreed(w)
<1>1. Numbers(w)
  BY DEF Agreed, Fit, AtServer, SameClient, Keeps, Numbers
<1>2. Handshake(w)
  BY DEF Agreed, Fit, AtServer, SameServer, SameClient, Handshake
<1>3. Known(w)
  BY DEF Agreed, AtServer, SameServer, Known, Alive
<1>4. Fins(w)
  BY DEF Agreed, Fit, AtServer, SameServer, SameClient, Keeps, Fins
<1>5. Acks(w)
  BY DEF Agreed, Fit, AtServer, SameServer, SameClient, Keeps, Acks
<1> QED BY <1>1, <1>2, <1>3, <1>4, <1>5 DEF Agreed

(* The SYN comes to the listener: the child is made and answers.           *)
LEMMA ServerMakes ==
    ASSUME NEW v, NEW w, Agreed(v), Fit(v), NEW m \in Segment, NEW out,
           AtServer(v, w, m, out),
           IsSyn(m),
           NEW r \in Segment,
           out = {r},
           IsSyn(r),
           ~IsAck(r),
           ~IsFin(r),
           seq_end(r) = w.t.snd_nxt,
           w.t \in TcpSock,
           w.t.state = "SYN_RECV",
           w.t.hashed,
           w.t.rcv_nxt = seq_end(m),
           SameClient(v, w),
           SameServer(v, w)
    PROVE  Agreed(w)
<1>1. Numbers(w)
  BY DEF Agreed, Fit, AtServer, SameClient, Numbers, Handshake, Unmade, TcpSock
<1>2. Handshake(w)
  BY DEF Agreed, AtServer, SameServer, SameClient, Handshake, Unmade, Opening
<1>3. Known(w)
  BY DEF Agreed, AtServer, SameServer, Handshake, Known, Alive, Unmade
<1>4. Fins(w)
  BY DEF Agreed, AtServer, SameServer, SameClient, Handshake, Fins
<1>5. Acks(w)
  BY DEF Agreed, AtServer, SameClient, Handshake, Acks, Opening, Early
<1> QED BY <1>1, <1>2, <1>3, <1>4, <1>5 DEF Agreed

(* The third segment completes the handshake: the child is enqueued.       *)
LEMMA ServerAccepts ==
    ASSUME NEW v, NEW w, Agreed(v), Fit(v), NEW m \in Segment, NEW out,
           AtServer(v, w, m, out),
           out = {},
           IsAck(m),
           v.t.state = "SYN_RECV",
           Takes(v.t, w.t, m),
           w.t.state = "ESTABLISHED",
           w.t.hashed = v.t.hashed,
           SameClient(v, w),
           w.joined,
           w.open = v.open
    PROVE  Agreed(w)
<1>1. Numbers(w)
  BY DEF Agreed, Fit, AtServer, SameClient, Takes, Numbers
<1>2. Handshake(w)
  BY DEF Agreed, Fit, AtServer, SameClient, Handshake
<1>3. Known(w)
  BY DEF Agreed, Fit, AtServer, SameClient, Known, Alive
<1>4. Fins(w)
  BY DEF Agreed, Fit, AtServer, SameClient, Handshake, Fins
<1>5. Acks(w)
  BY DEF Agreed, Fit, AtServer, SameClient, Takes, Numbers, Handshake, Acks,
     TcpSock
<1> QED BY <1>1, <1>2, <1>3, <1>4, <1>5 DEF Agreed

(* The third segment meets a full queue: the child is released, and the    *)
(* client is told.                                                         *)
LEMMA ServerDrops ==
    ASSUME NEW v, NEW w, Agreed(v), Fit(v), NEW m \in Segment, NEW out,
           AtServer(v, w, m, out),
           NEW r,
           out = {r},
           Reset(r, v.t.snd_nxt),
           v.t.state = "SYN_RECV",
           Takes(v.t, w.t, m),
           w.t.state = "CLOSED",
           SameClient(v, w),
           w.joined = v.joined,
           w.pending => v.pending,
           w.open => w.joined,
           v.open => w.open
    PROVE  Agreed(w)
<1>1. Numbers(w)
  BY DEF Agreed, Fit, AtServer, SameClient, Takes, Reset, Numbers
<1>2. Handshake(w)
  BY DEF Agreed, Fit, AtServer, SameClient, Reset, Handshake
<1>3. Known(w)
  BY DEF Agreed, Handshake, Known, Alive
<1>4. Fins(w)
  BY DEF Agreed, Fit, AtServer, SameClient, Takes, Reset, Fins
<1>5. Acks(w)
  BY DEF Agreed, Fit, AtServer, SameClient, Takes, Reset, Numbers, Acks, TcpSock
<1> QED BY <1>1, <1>2, <1>3, <1>4, <1>5 DEF Agreed

(* The child takes a segment in ESTABLISHED.                               *)
LEMMA ServerTakes ==
    ASSUME NEW v, NEW w, Agreed(v), Fit(v), NEW m \in Segment, NEW out,
           AtServer(v, w, m, out),
           v.t.state = "ESTABLISHED",
           Takes(v.t, w.t, m),
           w.t.hashed = v.t.hashed,
           \/ w.t.state = "ESTABLISHED" /\ out = {}
           \/ /\ w.t.state = "CLOSE_WAIT" /\ IsFin(m)
              /\ \A a \in out : Acking(a, seq_end(m), v.t.snd_nxt),
           SameClient(v, w),
           SameServer(v, w)
    PROVE  Agreed(w)
<1>1. Numbers(w)
  BY DEF Agreed, Fit, AtServer, SameClient, Takes, Acking, Numbers, TcpSock
<1>2. Handshake(w)
  BY SegmentFacts DEF Agreed, Fit, AtServer, SameServer, SameClient, Acking,
     Handshake
<1>3. Known(w)
  BY SegmentFacts DEF Agreed, Fit, AtServer, SameClient, Acking, Known, Alive
<1>4. Fins(w)
  BY SegmentFacts DEF Agreed, Fit, AtServer, SameServer, SameClient, Takes,
     Acking, Fins
<1>5. Acks(w)
  BY DEF Agreed, Fit, AtServer, SameServer, SameClient, Takes, Acking, Numbers,
     Fins, Acks, TcpSock
<1> QED BY <1>1, <1>2, <1>3, <1>4, <1>5 DEF Agreed

(* The child takes a segment in FIN_WAIT_1.                                *)
LEMMA ServerEnds ==
    ASSUME NEW v, NEW w, Agreed(v), Fit(v), NEW m \in Segment, NEW out,
           AtServer(v, w, m, out),
           v.t.state = "FIN_WAIT_1",
           Takes(v.t, w.t, m),
           \/ w.t.state = "FIN_WAIT_2" /\ out = {} /\ IsAck(m) /\ w.t.snd_una = m.ack
           \/ /\ w.t.state = "TIME_WAIT" /\ IsFin(m)
              /\ \A a \in out : Acking(a, seq_end(m), v.t.snd_nxt),
           SameClient(v, w),
           SameServer(v, w)
    PROVE  Agreed(w)
<1>1. Numbers(w)
  BY DEF Agreed, Fit, AtServer, SameClient, Takes, Acking, Numbers, TcpSock
<1>2. Handshake(w)
  BY SegmentFacts DEF Agreed, Fit, AtServer, SameServer, SameClient, Acking,
     Handshake
<1>3. Known(w)
  BY DEF Agreed, SameServer, Known, Alive
<1>4. Fins(w)
  BY SegmentFacts DEF Agreed, Fit, AtServer, SameServer, SameClient, Takes,
     Acking, Fins
<1>5. Acks(w)
  BY DEF Agreed, Fit, AtServer, SameServer, SameClient, Takes, Acking, Numbers,
     Fins, Acks, TcpSock
<1> QED BY <1>1, <1>2, <1>3, <1>4, <1>5 DEF Agreed

(* The child takes a segment in LAST_ACK.                                  *)
LEMMA ServerLast ==
    ASSUME NEW v, NEW w, Agreed(v), Fit(v), NEW m \in Segment, NEW out,
           AtServer(v, w, m, out),
           out = {},
           v.t.state = "LAST_ACK",
           Takes(v.t, w.t, m),
           w.t.state = "CLOSED",
           SameClient(v, w),
           SameServer(v, w)
    PROVE  Agreed(w)
<1>1. Numbers(w)
  BY DEF Agreed, Fit, AtServer, SameClient, Takes, Numbers
<1>2. Handshake(w)
  BY DEF Agreed, Fit, AtServer, SameServer, SameClient, Handshake
<1>3. Known(w)
  BY DEF Agreed, SameServer, Known, Alive
<1>4. Fins(w)
  BY DEF Agreed, Fit, AtServer, SameServer, SameClient, Takes, Fins
<1>5. Acks(w)
  BY DEF Agreed, Fit, AtServer, SameServer, SameClient, Takes, Numbers, Acks,
     TcpSock
<1> QED BY <1>1, <1>2, <1>3, <1>4, <1>5 DEF Agreed

(* A segment to the client comes to a sock out of the table.               *)
LEMMA ClientRejects ==
    ASSUME NEW v, NEW w, Agreed(v), Fit(v), NEW m \in Segment, NEW out,
           AtClient(v, w, m, out),
           ~v.s.hashed,
           \A n \in out : Reset(n, v.s.snd_nxt),
           w.s = v.s,
           w.t = v.t,
           w.p = v.p,
           SameServer(v, w)
    PROVE  Agreed(w)
<1>1. Numbers(w)
  BY DEF Agreed, Fit, AtClient, Reset, Numbers
<1>2. Handshake(w)
  BY DEF Agreed, Fit, AtClient, SameServer, Reset, Handshake
<1>3. Known(w)
  BY DEF Agreed, AtClient, SameServer, Reset, Known, Alive
<1>4. Fins(w)
  BY DEF Agreed, Fit, AtClient, SameServer, Reset, Fins
<1>5. Acks(w)
  BY DEF Agreed, Fit, AtClient, SameServer, Reset, Acks
<1> QED BY <1>1, <1>2, <1>3, <1>4, <1>5 DEF Agreed

(* A segment to the client is ignored, or lost.                            *)
LEMMA ClientIgnores ==
    ASSUME NEW v, NEW w, Agreed(v), Fit(v), NEW m \in Segment, NEW out,
           AtClient(v, w, m, out),
           out = {},
           w.s = v.s,
           w.t = v.t,
           w.p = v.p,
           SameServer(v, w)
    PROVE  Agreed(w)
<1>1. Numbers(w)
  BY DEF Agreed, Fit, AtClient, Numbers
<1>2. Handshake(w)
  BY DEF Agreed, Fit, AtClient, SameServer, Handshake
<1>3. Known(w)
  BY DEF Agreed, Fit, AtClient, SameServer, Known, Alive
<1>4. Fins(w)
  BY DEF Agreed, Fit, AtClient, SameServer, Fins
<1>5. Acks(w)
  BY DEF Agreed, Fit, AtClient, SameServer, Acks
<1> QED BY <1>1, <1>2, <1>3, <1>4, <1>5 DEF Agreed

(* A reset closes the client's sock.                                       *)
LEMMA ClientCloses ==
    ASSUME NEW v, NEW w, Agreed(v), Fit(v), NEW m \in Segment, NEW out,
           AtClient(v, w, m, out),
           out = {},
           Keeps(v.s, w.s),
           w.s.state = "CLOSED",
           IsRst(m) \/ v.s.state = "CLOSED",
           w.t = v.t,
           w.p = v.p,
           SameServer(v, w)
    PROVE  Agreed(w)
<1>1. Numbers(w)
  BY DEF Agreed, Fit, AtClient, Keeps, Numbers
<1>2. Handshake(w)
  BY DEF Agreed, Fit, AtClient, SameServer, Handshake
<1>3. Known(w)
  BY DEF Agreed, AtClient, SameServer, Known, Alive, Early
<1>4. Fins(w)
  BY DEF Agreed, Fit, AtClient, SameServer, Keeps, Fins
<1>5. Acks(w)
  BY DEF Agreed, Fit, AtClient, SameServer, Keeps, Acks
<1> QED BY <1>1, <1>2, <1>3, <1>4, <1>5 DEF Agreed

(* The second segment of the handshake comes to the client.                *)
LEMMA ClientConnects ==
    ASSUME NEW v, NEW w, Agreed(v), Fit(v), NEW m \in Segment, NEW out,
           AtClient(v, w, m, out),
           IsSyn(m),
           v.s.state = "SYN_SENT",
           v.s.hashed,
           NEW a,
           out = {a},
           Acking(a, seq_end(m), v.s.snd_nxt),
           w.s \in TcpSock,
           w.s.snd_nxt = v.s.snd_nxt,
           w.s.rcv_nxt = seq_end(m),
           w.s.state = "ESTABLISHED",
           w.s.hashed,
           w.t = v.t,
           w.p = v.p,
           SameServer(v, w)
    PROVE  Agreed(w)
<1>1. Numbers(w)
  BY DEF Agreed, Fit, AtClient, Acking, Numbers, TcpSock
<1>2. Handshake(w)
  BY SegmentFacts DEF Agreed, AtClient, SameServer, Acking, Handshake
<1>3. Known(w)
  BY SegmentFacts DEF Agreed, AtClient, Acking, Handshake, Known, Fins, Early
<1>4. Fins(w)
  BY SegmentFacts DEF Agreed, Fit, AtClient, SameServer, Acking, Fins
<1>5. Acks(w)
  BY DEF Agreed, AtClient, SameServer, Handshake, Acks
<1> QED BY <1>1, <1>2, <1>3, <1>4, <1>5 DEF Agreed

(* The client takes a segment in ESTABLISHED.                              *)
LEMMA ClientTakes ==
    ASSUME NEW v, NEW w, Agreed(v), Fit(v), NEW m \in Segment, NEW out,
           AtClient(v, w, m, out),
           v.s.state = "ESTABLISHED",
           Takes(v.s, w.s, m),
           w.s.hashed = v.s.hashed,
           \/ w.s.state = "ESTABLISHED" /\ out = {}
           \/ /\ w.s.state = "CLOSE_WAIT" /\ IsFin(m)
              /\ \A a \in out : Acking(a, seq_end(m), v.s.snd_nxt),
           w.t = v.t,
           w.p = v.p,
           SameServer(v, w)
    PROVE  Agreed(w)
<1>1. Numbers(w)
  BY DEF Agreed, Fit, AtClient, Takes, Acking, Numbers, TcpSock
<1>2. Handshake(w)
  BY SegmentFacts DEF Agreed, Fit, AtClient, SameServer, Acking, Handshake, Fins
<1>3. Known(w)
  BY SegmentFacts DEF Agreed, Fit, AtClient, SameServer, Acking, Handshake,
     Known, Alive, Fins, Early
<1>4. Fins(w)
  BY SegmentFacts DEF Agreed, Fit, AtClient, SameServer, Takes, Acking, Fins
<1>5. Acks(w)
  BY DEF Agreed, Fit, AtClient, SameServer, Takes, Acking, Numbers, Fins, Acks,
     TcpSock
<1> QED BY <1>1, <1>2, <1>3, <1>4, <1>5 DEF Agreed

(* The client takes a segment in FIN_WAIT_1.                               *)
LEMMA ClientEnds ==
    ASSUME NEW v, NEW w, Agreed(v), Fit(v), NEW m \in Segment, NEW out,
           AtClient(v, w, m, out),
           v.s.state = "FIN_WAIT_1",
           Takes(v.s, w.s, m),
           w.s.hashed = v.s.hashed,
           \/ w.s.state = "FIN_WAIT_2" /\ out = {} /\ IsAck(m) /\ w.s.snd_una = m.ack
           \/ /\ w.s.state = "TIME_WAIT" /\ IsFin(m)
              /\ \A a \in out : Acking(a, seq_end(m), v.s.snd_nxt),
           w.t = v.t,
           w.p = v.p,
           SameServer(v, w)
    PROVE  Agreed(w)
<1>1. Numbers(w)
  BY DEF Agreed, Fit, AtClient, Takes, Acking, Numbers, TcpSock
<1>2. Handshake(w)
  BY SegmentFacts DEF Agreed, Fit, AtClient, SameServer, Acking, Handshake, Fins
<1>3. Known(w)
  BY SegmentFacts DEF Agreed, Fit, AtClient, SameServer, Acking, Handshake,
     Known, Alive, Fins, Early
<1>4. Fins(w)
  BY SegmentFacts DEF Agreed, Fit, AtClient, SameServer, Takes, Acking, Fins
<1>5. Acks(w)
  BY DEF Agreed, Fit, AtClient, SameServer, Takes, Acking, Numbers, Fins, Acks,
     TcpSock
<1> QED BY <1>1, <1>2, <1>3, <1>4, <1>5 DEF Agreed

(* The client takes a segment in LAST_ACK.                                 *)
LEMMA ClientLast ==
    ASSUME NEW v, NEW w, Agreed(v), Fit(v), NEW m \in Segment, NEW out,
           AtClient(v, w, m, out),
           out = {},
           IsAck(m),
           v.s.state = "LAST_ACK",
           Takes(v.s, w.s, m),
           w.s.state = "CLOSED",
           w.t = v.t,
           w.p = v.p,
           SameServer(v, w)
    PROVE  Agreed(w)
<1>1. Numbers(w)
  BY DEF Agreed, Fit, AtClient, Takes, Numbers
<1>2. Handshake(w)
  BY DEF Agreed, Fit, AtClient, SameServer, Handshake
<1>3. Known(w)
  BY DEF Agreed, Fit, AtClient, SameServer, Takes, Handshake, Known, Alive,
     Fins, TcpSock
<1>4. Fins(w)
  BY DEF Agreed, AtClient, SameServer, Takes, Fins
<1>5. Acks(w)
  BY DEF Agreed, Fit, AtClient, Takes, Handshake, Fins, Acks
<1> QED BY <1>1, <1>2, <1>3, <1>4, <1>5 DEF Agreed

(* tcp_sock_connect: the SYN is sent,                                      *)
LEMMA ClientSends ==
    ASSUME NEW v, NEW w, Agreed(v), Fit(v),
           NEW m \in Segment,
           IsSyn(m),
           ~IsAck(m),
           ~IsFin(m),
           seq_end(m) = w.s.snd_nxt,
           ToServer(v, w, m),
           v.p = "start",
           w.p = "hash",
           w.s \in TcpSock,
           w.s.state = v.s.state,
           w.s.snd_nxt >= v.s.snd_nxt,
           w.s.rcv_nxt = v.s.rcv_nxt,
           w.t = v.t,
           SameServer(v, w)
    PROVE  Agreed(w)
<1>1. Numbers(w)
  BY DEF Agreed, Fit, ToServer, Numbers, Handshake, TcpSock
<1>2. Handshake(w)
  BY DEF Agreed, Fit, ToServer, Handshake, Unmade, Opening, Early
<1>3. Known(w)
  BY DEF Agreed, SameServer, Handshake, Known, Alive, Unmade
<1>4. Fins(w)
  BY DEF Agreed, ToServer, Handshake, Fins
<1>5. Acks(w)
  BY DEF Agreed, ToServer, Handshake, Acks
<1> QED BY <1>1, <1>2, <1>3, <1>4, <1>5 DEF Agreed

(* the sock is put into the table,                                         *)
LEMMA ClientHashes ==
    ASSUME NEW v, NEW w, Agreed(v), Fit(v),
           SameWires(v, w),
           v.p = "hash",
           w.p = "sleep",
           Keeps(v.s, w.s),
           w.s.state = "SYN_SENT",
           w.t = v.t,
           SameServer(v, w)
    PROVE  Agreed(w)
<1>1. Numbers(w)
  BY DEF Agreed, SameWires, Keeps, Numbers
<1>2. Handshake(w)
  BY DEF Agreed, SameWires, SameServer, Handshake, Unmade, Opening, Early
<1>3. Known(w)
  BY DEF Agreed, SameWires, SameServer, Handshake, Known, Alive, Early
<1>4. Fins(w)
  BY DEF Agreed, SameWires, SameServer, Fins, Gone
<1>5. Acks(w)
  BY DEF Agreed, SameWires, SameServer, Keeps, Acks, Gone
<1> QED BY <1>1, <1>2, <1>3, <1>4, <1>5 DEF Agreed

(* and the thread goes on.                                                 *)
LEMMA ClientMoves ==
    ASSUME NEW v, NEW w, Agreed(v), Fit(v),
           SameWires(v, w),
           v.p \in {"sleep", "asleep", "connected"},
           w.p \in {"asleep", "connected", "done"},
           w.s = v.s,
           w.t = v.t,
           SameServer(v, w)
    PROVE  Agreed(w)
<1>1. Numbers(w)
  BY DEF Agreed, SameWires, Numbers
<1>2. Handshake(w)
  BY DEF Agreed, SameWires, SameServer, Handshake, Unmade, Opening
<1>3. Known(w)
  BY DEF Agreed, SameWires, SameServer, Known, Alive
<1>4. Fins(w)
  BY DEF Agreed, SameWires, SameServer, Fins, Gone
<1>5. Acks(w)
  BY DEF Agreed, SameWires, SameServer, Acks, Gone
<1> QED BY <1>1, <1>2, <1>3, <1>4, <1>5 DEF Agreed

(* tcp_sock_close of a client.                                             *)
LEMMA ClientFin ==
    ASSUME NEW v, NEW w, Agreed(v), Fit(v),
           NEW m,
           Finning(m, w.s.snd_nxt),
           ToServer(v, w, m),
           v.p = "connected",
           v.s.state \in {"ESTABLISHED", "CLOSE_WAIT"},
           w.p = AfterFin(v.s.state),
           w.s \in TcpSock,
           w.s.state = v.s.state,
           w.s.hashed = v.s.hashed,
           w.s.snd_nxt = v.s.snd_nxt + 1,
           w.s.rcv_nxt = v.s.rcv_nxt,
           w.t = v.t,
           SameServer(v, w)
    PROVE  Agreed(w)
<1>1. Numbers(w)
  BY SegmentFacts DEF Agreed, Fit, ToServer, Finning, Numbers, TcpSock
<1>2. Handshake(w)
  BY DEF Agreed, ToServer, SameServer, Finning, AfterFin, Handshake, Opening,
     Early
<1>3. Known(w)
  BY DEF Agreed, ToServer, SameServer, Finning, AfterFin, Known, Alive
<1>4. Fins(w)
  BY DEF Agreed, ToServer, SameServer, Finning, AfterFin, Fins, Gone
<1>5. Acks(w)
  BY DEF Agreed, ToServer, SameServer, Finning, Acks, Gone
<1> QED BY <1>1, <1>2, <1>3, <1>4, <1>5 DEF Agreed

LEMMA ClientSet ==
    ASSUME NEW v, NEW w, Agreed(v), Fit(v),
           SameWires(v, w),
           v.p \in {"FIN_WAIT_1", "LAST_ACK"},
           w.p = "done",
           Keeps(v.s, w.s),
           w.s.state = v.p,
           w.s.hashed = v.s.hashed,
           w.t = v.t,
           SameServer(v, w)
    PROVE  Agreed(w)
<1>1. Numbers(w)
  BY DEF Agreed, SameWires, Keeps, Numbers
<1>2. Handshake(w)
  BY DEF Agreed, SameWires, SameServer, Handshake, Opening
<1>3. Known(w)
  BY DEF Agreed, SameWires, SameServer, Known, Alive, Early
<1>4. Fins(w)
  BY DEF Agreed, SameWires, SameServer, Keeps, Known, Alive, Fins, Gone
<1>5. Acks(w)
  BY DEF Agreed, SameWires, SameServer, Keeps, Acks, Gone
<1> QED BY <1>1, <1>2, <1>3, <1>4, <1>5 DEF Agreed

(* The server's thread takes the child from the queue                      *)
LEMMA ServerUnlinks ==
    ASSUME NEW v, NEW w, Agreed(v), Fit(v),
           SameWires(v, w),
           SameClient(v, w),
           v.pending,
           Keeps(v.t, w.t),
           w.t.state = "ESTABLISHED",
           w.t.hashed,
           ~w.pending,
           ~w.open,
           w.joined
    PROVE  Agreed(w)
<1>1. Numbers(w)
  BY DEF Agreed, SameWires, SameClient, Keeps, Numbers
<1>2. Handshake(w)
  BY DEF Agreed, SameWires, SameClient, Handshake, Unmade
<1>3. Known(w)
  BY DEF Agreed, SameWires, SameClient, Known, Alive
<1>4. Fins(w)
  BY DEF Agreed, SameWires, SameClient, Handshake, Fins
<1>5. Acks(w)
  BY DEF Agreed, SameWires, SameClient, Keeps, Handshake, Acks
<1> QED BY <1>1, <1>2, <1>3, <1>4, <1>5 DEF Agreed

(* and closes it.                                                          *)
LEMMA ServerFin ==
    ASSUME NEW v, NEW w, Agreed(v), Fit(v),
           NEW m,
           Finning(m, w.t.snd_nxt),
           ToClient(v, w, m),
           SameClient(v, w),
           v.t.state \in {"ESTABLISHED", "CLOSE_WAIT"},
           w.t \in TcpSock,
           w.t.state = v.t.state,
           w.t.hashed = v.t.hashed,
           w.t.snd_nxt = v.t.snd_nxt + 1,
           w.t.rcv_nxt = v.t.rcv_nxt,
           ~v.open,
           ~v.pending,
           ~w.pending,
           w.open,
           w.joined
    PROVE  Agreed(w)
<1>1. Numbers(w)
  BY SegmentFacts DEF Agreed, Fit, ToClient, SameClient, Finning, Numbers, TcpSock
<1>2. Handshake(w)
  BY DEF Agreed, ToClient, SameClient, Finning, Handshake, Unmade
<1>3. Known(w)
  BY DEF Agreed, ToClient, SameClient, Finning, Known, Alive
<1>4. Fins(w)
  BY SegmentFacts DEF Agreed, Fit, ToClient, SameClient, Finning, Numbers,
     Fins, TcpSock
<1>5. Acks(w)
  BY DEF Agreed, ToClient, SameClient, Finning, Acks
<1> QED BY <1>1, <1>2, <1>3, <1>4, <1>5 DEF Agreed

LEMMA ServerSet ==
    ASSUME NEW v, NEW w, Agreed(v), Fit(v),
           SameWires(v, w),
           SameClient(v, w),
           Keeps(v.t, w.t),
           w.t.state \in {"FIN_WAIT_1", "LAST_ACK"},
           v.open,
           w.open,
           ~w.pending,
           v.joined,
           w.joined
    PROVE  Agreed(w)
<1>1. Numbers(w)
  BY DEF Agreed, SameWires, SameClient, Keeps, Numbers
<1>2. Handshake(w)
  BY DEF Agreed, SameWires, SameClient, Handshake, Unmade
<1>3. Known(w)
  BY DEF Known, Alive
<1>4. Fins(w)
  BY DEF Agreed, SameWires, SameClient, Keeps, Fins
<1>5. Acks(w)
  BY DEF Agreed, SameWires, SameClient, Keeps, Acks
<1> QED BY <1>1, <1>2, <1>3, <1>4, <1>5 DEF Agreed
-----------------------------------------------------------------------------
(* What the head, the tail and an append do to the members of a queue.     *)
LEMMA QueueFacts ==
    ASSUME NEW S, NEW q \in Seq(S)
    PROVE  /\ Members(q) \subseteq S /\ Later(q) \subseteq Members(q)
           /\ q # <<>> => /\ Head(q) \in Members(q) /\ Members(q) \subseteq {Head(q)} \cup Later(q)
                          /\ Members(Tail(q)) = Later(q) /\ Later(Tail(q)) \subseteq Later(q)
           /\ \A m \in S : /\ Members(Append(q, m)) = Members(q) \cup {m}
                           /\ Later(Append(q, m)) \subseteq Later(q) \cup {m}
                           /\ Members(q) = {} => Later(Append(q, m)) = {}
<1>1. Members(q) \subseteq S /\ Later(q) \subseteq Members(q)
  BY DEF Members, Later
<1>2. ASSUME q # <<>>
      PROVE  /\ Head(q) \in Members(q) /\ Members(q) \subseteq {Head(q)} \cup Later(q)
             /\ Members(Tail(q)) = Later(q) /\ Later(Tail(q)) \subseteq Later(q)
  <2>1. Len(q) \in Nat \ {0} /\ DOMAIN q = 1..Len(q) /\ Head(q) = q[1]
    BY <1>2
  <2>2. Head(q) \in Members(q) /\ Members(q) \subseteq {Head(q)} \cup Later(q)
    BY <2>1 DEF Members, Later
  <2>3. /\ DOMAIN Tail(q) = 1..(Len(q) - 1)
        /\ \A i \in 1..(Len(q) - 1) : Tail(q)[i] = q[i + 1]
    BY <1>2, <2>1
  <2>4. Members(Tail(q)) = Later(q)
    <3>1. \A i \in 1..(Len(q) - 1) : i + 1 \in DOMAIN q \ {1}
      BY <2>1
    <3>2. \A j \in DOMAIN q \ {1} : j - 1 \in 1..(Len(q) - 1) /\ (j - 1) + 1 = j
      BY <2>1
    <3> QED BY <3>1, <3>2, <2>3 DEF Members, Later
  <2>5. Later(Tail(q)) \subseteq Members(Tail(q))
    BY DEF Members, Later
  <2> QED BY <2>2, <2>4, <2>5
<1>3. ASSUME NEW m \in S
      PROVE  /\ Members(Append(q, m)) = Members(q) \cup {m}
             /\ Later(Append(q, m)) \subseteq Later(q) \cup {m}
             /\ Members(q) = {} => Later(Append(q, m)) = {}
  <2> DEFINE r == Append(q, m)
  <2>1. /\ Len(q) \in Nat /\ DOMAIN q = 1..Len(q) /\ DOMAIN r = 1..(Len(q) + 1)
        /\ \A i \in 1..Len(q) : r[i] = q[i]
        /\ r[Len(q) + 1] = m
    OBVIOUS
  <2> HIDE DEF r
  <2>2. Members(r) = Members(q) \cup {m}
    <3>1. \A i \in DOMAIN r : i \in DOMAIN q \/ i = Len(q) + 1
      BY <2>1
    <3>2. \A i \in DOMAIN q : i \in DOMAIN r
      BY <2>1
    <3>3. Len(q) + 1 \in DOMAIN r
      BY <2>1
    <3> QED BY <2>1, <3>1, <3>2, <3>3 DEF Members
  <2>3. Later(r) \subseteq Later(q) \cup {m}
    <3>1. \A i \in DOMAIN r \ {1} : i \in DOMAIN q \ {1} \/ i = Len(q) + 1
      BY <2>1
    <3> QED BY <2>1, <3>1 DEF Later
  <2>4. ASSUME Members(q) = {} PROVE Later(r) = {}
    <3>1. 1 \notin DOMAIN q
      BY <2>4 DEF Members
    <3>2. DOMAIN r = {1}
      BY <3>1, <2>1
    <3> QED BY <3>2 DEF Later
  <2> QED BY <2>2, <2>3, <2>4 DEF r
<1> QED BY <1>1, <1>2, <1>3

(* What is sent back at once: nothing, or one segment.                     *)
Reply == {<<>>} \cup {<<r>> : r \in Segment}

LEMMA ReplyFacts ==
    ASSUME NEW q \in Seq(Segment), NEW out \in Reply
    PROVE  /\ out \in Seq(Segment)
           /\ Members(q \o out) = Members(q) \cup Members(out)
           /\ Later(q \o out) \subseteq Later(q) \cup Members(out)
           /\ Members(q) = {} => Later(q \o out) = {}
<1>1. CASE out = <<>>
  <2>1. q \o out = q /\ Members(out) = {} /\ out \in Seq(Segment)
    BY <1>1 DEF Members
  <2> QED BY <2>1 DEF Members, Later
<1>2. ASSUME NEW r \in Segment, out = <<r>>
      PROVE  /\ out \in Seq(Segment)
             /\ Members(q \o out) = Members(q) \cup Members(out)
             /\ Later(q \o out) \subseteq Later(q) \cup Members(out)
             /\ Members(q) = {} => Later(q \o out) = {}
  <2>1. q \o out = Append(q, r) /\ out \in Seq(Segment)
    BY <1>2
  <2>2. Members(out) = {r}
    BY <1>2 DEF Members
  <2> QED BY <2>1, <2>2, QueueFacts
<1> QED BY <1>1, <1>2 DEF Reply

(* The ends of different connections are different.                        *)
LEMMA Apart ==
    ASSUME NEW c \in Client
    PROVE  /\ Peer(c) = Child(c) /\ Peer(Child(c)) = c /\ c # Child(c)
           /\ Child(c) \in Children /\ Child(c) # Listener /\ c # Listener
           /\ c \in Sock /\ Child(c) \in Sock /\ c \in End /\ Child(c) \in End /\ c \in App
           /\ \A d \in Client \ {c} : /\ Child(d) # Child(c) /\ Child(d) # c /\ d # Child(c)
<1>1. \A d \in Client : Child(d)[2] = d /\ Child(d) \notin Client
  BY TcpAssumption DEF Child
<1>2. Peer(c) = Child(c) /\ Peer(Child(c)) = c
  <2>1. Child(c) \notin Client
    BY <1>1
  <2> QED BY <2>1, <1>1 DEF Peer
<1> QED BY <1>1, <1>2, Ends, TcpAssumption DEF Children, App, Sock, End

(* The types of a view follow from the types of the variables.             *)
LEMMA ViewFits ==
    ASSUME Types, NEW c \in Client
    PROVE  /\ Fit(View(c)) /\ sock[c] \in TcpSock /\ sock[Child(c)] \in TcpSock
           /\ View(c).s = sock[c] /\ View(c).t = sock[Child(c)] /\ View(c).p = pc[c]
           /\ wire[c] \in Seq(Segment) /\ wire[Child(c)] \in Seq(Segment)
<1>1. /\ sock[c] \in TcpSock /\ sock[Child(c)] \in TcpSock
      /\ wire[c] \in Seq(Segment) /\ wire[Child(c)] \in Seq(Segment)
  BY Apart DEF Types
<1>2. /\ Members(wire[c]) \subseteq Segment /\ Later(wire[c]) \subseteq Members(wire[c])
      /\ Members(wire[Child(c)]) \subseteq Segment
      /\ Later(wire[Child(c)]) \subseteq Members(wire[Child(c)])
  BY <1>1, QueueFacts
<1> QED BY <1>1, <1>2 DEF Fit, View

(* What becomes of the server's side of a connection.                      *)
ServerRests == accept_queue' = accept_queue /\ csk' = csk /\ pc'[Listener] = pc[Listener]

LEMMA ServerViews ==
    ASSUME NEW c \in Client
    PROVE  /\ View(c)'.open => View(c)'.joined
           /\ View(c)'.pending => View(c)'.joined /\ ~View(c)'.open
           /\ ServerRests => SameServer(View(c), View(c)')
  BY DEF View, Looking, Before, ServerRests, SameServer

(* A segment is taken by one end and answered: what becomes of the view of *)
(* its connection, and of the others.                                      *)
LEMMA HandledViews ==
    ASSUME Types, NEW c \in Client, NEW e \in {c, Child(c)}, wire[e] # <<>>,
           NEW out \in Reply, Handle(e, out)
    PROVE  /\ e = Child(c) => AtServer(View(c), View(c)', Head(wire[e]), Members(out))
           /\ e = c => AtClient(View(c), View(c)', Head(wire[e]), Members(out))
           /\ \A d \in Client \ {c} : SameWires(View(d), View(d)')
<1>1. wire[c] \in Seq(Segment) /\ wire[Child(c)] \in Seq(Segment)
  BY ViewFits
<1>2. ASSUME NEW d \in Client \ {c} PROVE SameWires(View(d), View(d)')
  <2>1. wire'[d] = wire[d] /\ wire'[Child(d)] = wire[Child(d)]
    BY Apart DEF Handle, Types
  <2> QED BY <2>1 DEF View, SameWires
<1>3. CASE e = Child(c)
  <2>1. wire'[Child(c)] = Tail(wire[Child(c)]) /\ wire'[c] = wire[c] \o out
    BY <1>3, Apart DEF Handle, Types
  <2> DEFINE m == Head(wire[Child(c)])
  <2>2. /\ m \in Members(wire[Child(c)])
        /\ Members(wire[Child(c)]) \subseteq {m} \cup Later(wire[Child(c)])
        /\ Members(wire'[Child(c)]) = Later(wire[Child(c)])
        /\ Later(wire'[Child(c)]) \subseteq Later(wire[Child(c)])
    BY <2>1, <1>1, <1>3, QueueFacts
  <2>3. /\ Members(wire'[c]) = Members(wire[c]) \cup Members(out)
        /\ Later(wire'[c]) \subseteq Later(wire[c]) \cup Members(out)
        /\ Members(wire[c]) = {} => Later(wire'[c]) = {}
    BY <2>1, <1>1, ReplyFacts
  <2>4. AtServer(View(c), View(c)', m, Members(out))
    BY <2>2, <2>3 DEF View, AtServer
  <2> QED BY <2>4, <1>2, <1>3, Apart
<1>4. CASE e = c
  <2>1. wire'[c] = Tail(wire[c]) /\ wire'[Child(c)] = wire[Child(c)] \o out
    BY <1>4, Apart DEF Handle, Types
  <2> DEFINE m == Head(wire[c])
  <2>2. /\ m \in Members(wire[c])
        /\ Members(wire[c]) \subseteq {m} \cup Later(wire[c])
        /\ Members(wire'[c]) = Later(wire[c])
        /\ Later(wire'[c]) \subseteq Later(wire[c])
    BY <2>1, <1>1, <1>4, QueueFacts
  <2>3. /\ Members(wire'[Child(c)]) = Members(wire[Child(c)]) \cup Members(out)
        /\ Later(wire'[Child(c)]) \subseteq Later(wire[Child(c)]) \cup Members(out)
        /\ Members(wire[Child(c)]) = {} => Later(wire'[Child(c)]) = {}
    BY <2>1, <1>1, ReplyFacts
  <2>4. AtClient(View(c), View(c)', m, Members(out))
    BY <2>2, <2>3 DEF View, AtClient
  <2> QED BY <2>4, <1>2, <1>4, Apart
<1> QED BY <1>3, <1>4

(* A thread sends one segment: what becomes of the views.                  *)
LEMMA SentViews ==
    ASSUME Types, NEW c \in Client, NEW e \in {c, Child(c)}, NEW m \in Segment, Send(e, m)
    PROVE  /\ e = c => ToServer(View(c), View(c)', m)
           /\ e = Child(c) => ToClient(View(c), View(c)', m)
           /\ \A d \in Client \ {c} : SameWires(View(d), View(d)')
<1>1. wire[c] \in Seq(Segment) /\ wire[Child(c)] \in Seq(Segment)
  BY ViewFits
<1>2. ASSUME NEW d \in Client \ {c} PROVE SameWires(View(d), View(d)')
  <2>1. wire'[d] = wire[d] /\ wire'[Child(d)] = wire[Child(d)]
    BY Apart DEF Send, Types
  <2> QED BY <2>1 DEF View, SameWires
<1>3. CASE e = c
  <2>1. wire'[c] = wire[c] /\ wire'[Child(c)] = Append(wire[Child(c)], m)
    BY <1>3, Apart DEF Send, Types
  <2>2. /\ Members(wire'[Child(c)]) = Members(wire[Child(c)]) \cup {m}
        /\ Later(wire'[Child(c)]) \subseteq Later(wire[Child(c)]) \cup {m}
        /\ Members(wire[Child(c)]) = {} => Later(wire'[Child(c)]) = {}
    BY <2>1, <1>1, QueueFacts
  <2> QED BY <2>1, <2>2, <1>2, <1>3, Apart DEF View, ToServer
<1>4. CASE e = Child(c)
  <2>1. wire'[Child(c)] = wire[Child(c)] /\ wire'[c] = Append(wire[c], m)
    BY <1>4, Apart DEF Send, Types
  <2>2. /\ Members(wire'[c]) = Members(wire[c]) \cup {m}
        /\ Later(wire'[c]) \subseteq Later(wire[c]) \cup {m}
        /\ Members(wire[c]) = {} => Later(wire'[c]) = {}
    BY <2>1, <1>1, QueueFacts
  <2> QED BY <2>1, <2>2, <1>2, <1>4, Apart DEF View, ToClient
<1> QED BY <1>3, <1>4

(* What the helpers leave alone, and what a segment that is taken leaves.  *)
LEMMA HelpersKeep ==
    ASSUME NEW t \in TcpSock
    PROVE  /\ Keeps(t, free_tcp_sock(t)) /\ Keeps(t, tcp_unhash(t)) /\ Keeps(t, tcp_bind_unhash(t))
           /\ Keeps(t, tcp_bind_hash(t)) /\ tcp_bind_hash(t).hashed = t.hashed
           /\ Keeps(t, tcp_hash(t)) /\ (t.state # "CLOSED" => tcp_hash(t).hashed)
           /\ Keeps(t, tcp_set_timewait_timer(t)) /\ tcp_set_timewait_timer(t).hashed = t.hashed
           /\ Keeps(t, Release(t))
<1>1. ASSUME NEW u \in TcpSock PROVE Keeps(u, free_tcp_sock(u))
  BY Helpers DEF Keeps, free_tcp_sock, TcpSock
<1>2. ASSUME NEW u \in TcpSock PROVE Keeps(u, tcp_unhash(u))
  <2>1. [u EXCEPT !.hashed = FALSE] \in TcpSock /\ Keeps(u, [u EXCEPT !.hashed = FALSE])
    BY DEF TcpSock, Keeps
  <2> QED BY <2>1, <1>1, Helpers DEF tcp_unhash, Keeps
<1>3. ASSUME NEW u \in TcpSock PROVE Keeps(u, tcp_bind_unhash(u))
  <2>1. [u EXCEPT !.bound = FALSE] \in TcpSock /\ Keeps(u, [u EXCEPT !.bound = FALSE])
    BY DEF TcpSock, Keeps
  <2> QED BY <2>1, <1>1, Helpers DEF tcp_bind_unhash, Keeps
<1>4. Keeps(t, tcp_bind_hash(t)) /\ tcp_bind_hash(t).hashed = t.hashed
  BY Helpers DEF tcp_bind_hash, TcpSock, Keeps
<1>5. Keeps(t, tcp_hash(t)) /\ (t.state # "CLOSED" => tcp_hash(t).hashed)
  BY Helpers DEF tcp_hash, TcpSock, Keeps
<1>6. Keeps(t, tcp_set_timewait_timer(t)) /\ tcp_set_timewait_timer(t).hashed = t.hashed
  BY Helpers DEF tcp_set_timewait_timer, TcpSock, Keeps
<1>7. Keeps(t, Release(t))
  <2> DEFINE closed == [t EXCEPT !.state = "CLOSED"]
             out == tcp_unhash(closed)
  <2>1. closed \in TcpSock /\ Keeps(t, closed)
    BY DEF TcpSock, State, Keeps
  <2>2. out \in TcpSock /\ Keeps(closed, out)
    BY <2>1, <1>2, Helpers
  <2>3. Keeps(out, tcp_bind_unhash(out)) /\ Release(t) = tcp_bind_unhash(out)
    BY <2>2, <1>3 DEF Release
  <2> HIDE DEF closed, out
  <2> QED BY <2>1, <2>2, <2>3 DEF Keeps
<1> QED BY <1>1, <1>2, <1>3, <1>4, <1>5, <1>6, <1>7

LEMMA AckedTakes ==
    ASSUME Types, NEW e \in Sock, NEW m \in Segment, NEW state \in State
    PROVE  LET u == Acked(e, m)
               v == [u EXCEPT !.state = state]
           IN /\ u \in TcpSock /\ v \in TcpSock /\ v.state = state /\ u.state = sock[e].state
              /\ u.hashed = sock[e].hashed /\ v.hashed = sock[e].hashed
              /\ u.snd_una = m.ack /\ v.snd_una = m.ack
              /\ u.snd_nxt = sock[e].snd_nxt /\ u.rcv_nxt = seq_end(m)
              /\ is_tcp_seq_valid(sock[e], m) => Takes(sock[e], u, m) /\ Takes(sock[e], v, m)
              /\ v.snd_nxt = sock[e].snd_nxt /\ v.rcv_nxt = seq_end(m)
<1>1. sock[e] \in TcpSock /\ seq_end(m) \in Nat /\ m.ack \in Nat
  BY SegmentTypes DEF Types, Segment
<1>2. is_tcp_seq_valid(sock[e], m) => sock[e].rcv_nxt <= seq_end(m)
  BY DEF is_tcp_seq_valid
<1> QED BY <1>1, <1>2, AckedType DEF Acked, TcpSock, Takes

(* The kinds of the segments that are sent.                                *)
LEMMA Packets ==
    ASSUME NEW u \in TcpSock
    PROVE  /\ Acking(ControlPacket(u, {"ACK"}), u.rcv_nxt, u.snd_nxt)
           /\ Reset(ControlPacket(u, {"RST"}), u.snd_nxt)
           /\ \A m \in Segment, n \in Nat : Reset(ResetPacket(m), n)
           /\ LET m == ControlPacket(u, {"SYN", "ACK"})
              IN /\ m \in Segment /\ IsSyn(m) /\ ~IsAck(m) /\ ~IsFin(m)
                 /\ seq_end(m) = Sent(u, m).snd_nxt
                 /\ Sent(u, m) \in TcpSock /\ Sent(u, m).snd_nxt = u.snd_nxt + 1
                 /\ Sent(u, m).rcv_nxt = u.rcv_nxt
                 /\ Sent(u, m).hashed = u.hashed /\ Sent(u, m).state = u.state
           /\ LET m == ControlPacket(u, {"SYN"})
              IN /\ m \in Segment /\ IsSyn(m) /\ ~IsAck(m) /\ ~IsFin(m)
                 /\ seq_end(m) = Sent(u, m).snd_nxt
                 /\ Sent(u, m) \in TcpSock /\ Sent(u, m).snd_nxt = u.snd_nxt + 1
                 /\ Sent(u, m).rcv_nxt = u.rcv_nxt
                 /\ Sent(u, m).hashed = u.hashed /\ Sent(u, m).state = u.state
           /\ LET m == ControlPacket(u, {"FIN", "ACK"})
              IN /\ Finning(m, Sent(u, m).snd_nxt)
                 /\ Sent(u, m) \in TcpSock /\ Sent(u, m).snd_nxt = u.snd_nxt + 1
                 /\ Sent(u, m).rcv_nxt = u.rcv_nxt
                 /\ Sent(u, m).hashed = u.hashed /\ Sent(u, m).state = u.state
<1>1. /\ Length({"ACK"}) = 0 /\ Length({"RST"}) = 0 /\ Length({"RST", "ACK"}) = 0
      /\ Length({"SYN", "ACK"}) = 1 /\ Length({"SYN"}) = 1 /\ Length({"FIN", "ACK"}) = 1
  BY DEF Length
<1>2. \A f \in SUBSET {"SYN", "ACK", "FIN", "RST"} :
        /\ ControlPacket(u, f) \in Segment /\ ControlPacket(u, f).flags = f
        /\ ControlPacket(u, f).seq = u.snd_nxt /\ ControlPacket(u, f).ack = u.rcv_nxt
        /\ seq_end(ControlPacket(u, f)) = u.snd_nxt + Length(f)
        /\ LET w == Sent(u, ControlPacket(u, f))
           IN /\ w \in TcpSock /\ w.snd_nxt = u.snd_nxt + Length(f) /\ w.rcv_nxt = u.rcv_nxt
              /\ w.hashed = u.hashed /\ w.state = u.state
  BY SegmentTypes DEF ControlPacket, seq_end, Sent, TcpSock
<1>3. \A m \in Segment : /\ ResetPacket(m) \in Segment /\ ResetPacket(m).flags = {"RST", "ACK"}
                         /\ seq_end(ResetPacket(m)) = 0
  BY <1>1, SegmentTypes DEF ResetPacket, seq_end
<1>4. \A m \in Segment, n \in Nat : Reset(ResetPacket(m), n)
  BY <1>3 DEF Reset, IsRst, IsAck, IsSyn, IsFin
<1>5. u.snd_nxt \in Nat /\ u.rcv_nxt \in Nat
  BY DEF TcpSock
<1>6. Acking(ControlPacket(u, {"ACK"}), u.rcv_nxt, u.snd_nxt)
  BY <1>1, <1>2, <1>5 DEF Acking, IsAck
<1>7. Reset(ControlPacket(u, {"RST"}), u.snd_nxt)
  BY <1>1, <1>2, <1>5 DEF Reset, IsRst, IsAck, IsSyn, IsFin
<1> QED BY <1>1, <1>2, <1>4, <1>6, <1>7 DEF Finning, IsSyn, IsAck, IsFin, IsRst
-----------------------------------------------------------------------------
LEMMA Elsewhere ==
    ASSUME NEW c \in Client, NEW d \in Client \ {c}, SameWires(View(d), View(d)'),
           sock'[d] = sock[d], sock'[Child(d)] = sock[Child(d)], pc'[d] = pc[d],
           csk' = csk, pc'[Listener] \in {pc[Listener], "dead"},
           Members(accept_queue)' \subseteq Members(accept_queue) \cup {Child(c)}
    PROVE  Frame(View(d), View(d)')
<1>1. Child(d) # Child(c)
  BY Apart
<1> QED BY <1>1 DEF View, Frame, SameWires, Looking, Before

(* It is enough that the connection the step is about agrees.              *)
LEMMA OneAgrees ==
    ASSUME Types, AllAgree, NEW c \in Client, Agreed(View(c)'),
           \A d \in Client \ {c} : Frame(View(d), View(d)')
    PROVE  AllAgree'
<1> SUFFICES ASSUME NEW d \in Client PROVE Agreed(View(d)')
  BY DEF AllAgree
<1>1. CASE d # c
  BY <1>1, FrameAgrees, ViewFits DEF AllAgree
<1> QED BY <1>1

(* The packet thread of one end, e.                                        *)
LEMMA Handled ==
    ASSUME WInv, AllAgree, NEW c \in Client, NEW e \in {c, Child(c)}, wire[e] # <<>>,
           NEW out \in Reply, Handle(e, out),
           \A s \in Sock \ {e, Listener} : sock'[s] = sock[s],
           \A d \in Client : pc'[d] = pc[d], pc'[Listener] \in {pc[Listener], "dead"},
           csk' = csk, Members(accept_queue)' \subseteq Members(accept_queue) \cup {Child(c)}
    PROVE  /\ Head(wire[e]) \in Segment /\ Agreed(View(c)) /\ Fit(View(c))
           /\ View(c).s = sock[c] /\ View(c).t = sock[Child(c)]
           /\ View(c)'.s = sock'[c] /\ View(c)'.t = sock'[Child(c)] /\ View(c)'.p = View(c).p
           /\ e = Child(c) => /\ AtServer(View(c), View(c)', Head(wire[e]), Members(out))
                              /\ SameClient(View(c), View(c)')
           /\ e = c => /\ AtClient(View(c), View(c)', Head(wire[e]), Members(out))
                       /\ View(c)'.t = View(c).t
           /\ Agreed(View(c)') => AllAgree'
<1>1. /\ Types /\ Head(wire[e]) \in Segment /\ Agreed(View(c)) /\ Fit(View(c))
      /\ View(c).s = sock[c] /\ View(c).t = sock[Child(c)]
  BY Apart, Arrived, ViewFits DEF WInv, AllAgree
<1>2. View(c)'.s = sock'[c] /\ View(c)'.t = sock'[Child(c)] /\ View(c)'.p = View(c).p
  BY DEF View
<1>3. ASSUME NEW d \in Client \ {c} PROVE Frame(View(d), View(d)')
  <2>1. SameWires(View(d), View(d)')
    BY <1>1, HandledViews
  <2>2. sock'[d] = sock[d] /\ sock'[Child(d)] = sock[Child(d)]
    BY Apart
  <2> QED BY <2>1, <2>2, Elsewhere
<1>4. Agreed(View(c)') => AllAgree'
  BY <1>1, <1>3, OneAgrees
<1>5. e = Child(c) => sock'[c] = sock[c]
  BY Apart
<1>6. e = c => sock'[Child(c)] = sock[Child(c)]
  BY Apart
<1> QED BY <1>1, <1>2, <1>4, <1>5, <1>6, HandledViews DEF SameClient

(* What a segment for e can find, when it is not for no one.               *)
LEMMA Found ==
    ASSUME WInv, NEW e \in End, NEW t \in Sock, Arrives(e, t)
    PROVE  /\ wire[e] # <<>>
           /\ t = e \/ (t = Listener /\ e \in Children)
           /\ t = e => sock[e].hashed
<1>1. wire[e] # <<>> /\ t \in tcp_sock_lookup(e) /\ e # Listener
  BY Ends DEF Arrives
<1>2. t = e \/ (t = Listener /\ e \in Children)
  BY <1>1, Arrived
<1>3. ~sock[e].hashed => t = Listener
  BY <1>1 DEF tcp_sock_lookup
<1> QED BY <1>1, <1>2, <1>3

LEMMA OfConnection ==
    ASSUME NEW e \in End
    PROVE  \E c \in Client : e \in {c, Child(c)}
  BY DEF End, Children

LEMMA RepliesOne ==
    /\ <<>> \in Reply /\ Members(<<>>) = {}
    /\ \A m \in Segment : <<m>> \in Reply /\ Members(<<m>>) = {m}
  BY DEF Reply, Members

(* Each handler of the packet thread is one of the things the lemmas about *)
(* views speak of.                                                         *)
LEMMA NoSockAgrees ==
    ASSUME WInv, AllAgree, NEW e \in End, NoSock(e)
    PROVE  AllAgree'
<1> DEFINE m == Head(wire[e])
           out == <<ResetPacket(m)>>
<1>1. /\ wire[e] # <<>> /\ Handle(e, out) /\ sock' = sock /\ pc' = pc
      /\ accept_queue' = accept_queue /\ csk' = csk
  BY DEF NoSock, accepting
<1>2. ~sock[e].hashed
  BY DEF NoSock, tcp_sock_lookup
<1>3. m \in Segment /\ ResetPacket(m) \in Segment /\ sock[e] \in TcpSock
  BY <1>1, Arrived, SegmentTypes
<1>4. out \in Reply /\ Members(out) = {ResetPacket(m)}
  BY <1>3, RepliesOne
<1>5. \A n \in Nat : Reset(ResetPacket(m), n)
  BY <1>3, Packets
<1>6. PICK c \in Client : e \in {c, Child(c)}
  BY OfConnection
<1> DEFINE v == View(c)
           w == View(c)'
<1>7. /\ Agreed(v) /\ Fit(v) /\ v.s = sock[c] /\ v.t = sock[Child(c)]
      /\ w.s = v.s /\ w.t = v.t /\ w.p = v.p
      /\ e = Child(c) => AtServer(v, w, m, Members(out)) /\ SameClient(v, w)
      /\ e = c => AtClient(v, w, m, Members(out))
      /\ Agreed(w) => AllAgree'
  BY <1>1, <1>4, <1>6, Handled
<1>8. SameServer(v, w)
  BY <1>1, ServerViews DEF ServerRests
<1>9. v.t.snd_nxt \in Nat /\ v.s.snd_nxt \in Nat
  BY <1>7 DEF Fit, TcpSock
<1> HIDE DEF v, w, out, m
<1>10. CASE e = Child(c)
  BY <1>2, <1>3, <1>4, <1>5, <1>7, <1>8, <1>9, <1>10, ServerRejects
<1>11. CASE e = c
  BY <1>2, <1>3, <1>4, <1>5, <1>7, <1>8, <1>9, <1>11, ClientRejects
<1> QED BY <1>6, <1>10, <1>11

(* A segment that is answered by nothing, at the sock of its end or at     *)
(* Listener.                                                               *)
LEMMA QuietAgrees ==
    ASSUME WInv, AllAgree, NEW e \in End, NEW t \in Sock, RcvRst(e, t) \/ Ignore(e, t)
    PROVE  AllAgree'
<1> DEFINE m == Head(wire[e])
<1>1. /\ wire[e] # <<>> /\ Handle(e, <<>>) /\ pc' = pc
      /\ accept_queue' = accept_queue /\ csk' = csk
      /\ t = e \/ (t = Listener /\ e \in Children)
  BY Found DEF RcvRst, Ignore, accepting
<1>2. PICK c \in Client : e \in {c, Child(c)}
  BY OfConnection
<1>3. \A s \in Sock \ {e, Listener} : sock'[s] = sock[s]
  BY <1>1 DEF RcvRst, Ignore, WInv, Types
<1>4. <<>> \in Reply /\ Members(<<>>) = {}
  BY RepliesOne
<1> DEFINE v == View(c)
           w == View(c)'
<1>5. /\ m \in Segment /\ Agreed(v) /\ Fit(v) /\ v.s = sock[c] /\ v.t = sock[Child(c)]
      /\ w.s = sock'[c] /\ w.t = sock'[Child(c)] /\ w.p = v.p
      /\ e = Child(c) => AtServer(v, w, m, {}) /\ SameClient(v, w)
      /\ e = c => AtClient(v, w, m, {}) /\ w.t = v.t
      /\ Agreed(w) => AllAgree'
  BY <1>1, <1>2, <1>3, <1>4, Handled
<1>6. SameServer(v, w)
  BY <1>1, ServerViews DEF ServerRests
<1>7. e \in Sock /\ sock[e] \in TcpSock /\ e # Listener
  BY Ends DEF WInv, Types
<1>8. \/ sock'[e] = sock[e]
      \/ /\ sock'[e] = Release(sock[e])
         /\ IsRst(m) \/ sock[e].state = "CLOSED"
  BY <1>1, <1>7 DEF RcvRst, Ignore, WInv, Types, IsRst
<1>9. Keeps(sock[e], Release(sock[e])) /\ Release(sock[e]).state = "CLOSED"
  BY <1>7, HelpersKeep, ReleaseCloses
<1> HIDE DEF v, w, m
<1>10. CASE e = Child(c)
  <2>1. CASE sock'[e] = sock[e]
    BY <1>5, <1>6, <1>10, <2>1, ServerIgnores
  <2>2. CASE sock'[e] = Release(sock[e]) /\ (IsRst(m) \/ sock[e].state = "CLOSED")
    BY <1>5, <1>6, <1>9, <1>10, <2>2, ServerCloses
  <2> QED BY <1>8, <2>1, <2>2
<1>11. CASE e = c
  <2>1. CASE sock'[e] = sock[e]
    BY <1>5, <1>6, <1>11, <2>1, ClientIgnores
  <2>2. CASE sock'[e] = Release(sock[e]) /\ (IsRst(m) \/ sock[e].state = "CLOSED")
    BY <1>5, <1>6, <1>9, <1>11, <2>2, ClientCloses
  <2> QED BY <1>8, <2>1, <2>2
<1> QED BY <1>2, <1>10, <1>11

LEMMA NewChild ==
    ASSUME NEW a \in Nat, NEW b \in Nat
    PROVE  LET t == [alloc_tcp_sock EXCEPT !.state = "SYN_RECV", !.snd_nxt = a, !.rcv_nxt = b]
           IN t \in TcpSock /\ t.state = "SYN_RECV" /\ t.rcv_nxt = b
<1>1. \A t \in TcpSock :
         /\ [t EXCEPT !.state = "SYN_RECV", !.snd_nxt = a, !.rcv_nxt = b] \in TcpSock
         /\ [t EXCEPT !.state = "SYN_RECV", !.snd_nxt = a, !.rcv_nxt = b].state = "SYN_RECV"
         /\ [t EXCEPT !.state = "SYN_RECV", !.snd_nxt = a, !.rcv_nxt = b].rcv_nxt = b
  BY DEF TcpSock, State
<1>2. alloc_tcp_sock \in TcpSock
  BY Fresh
<1> QED BY <1>1, <1>2, Zenon

(* The SYN comes to the listener.                                          *)
LEMMA RcvListenAgrees ==
    ASSUME WInv, AllAgree, NEW e \in End, RcvListen(e)
    PROVE  AllAgree'
<1>1. PICK iss \in Iss :
        LET child == tcp_hash([alloc_tcp_sock EXCEPT
                         !.state = "SYN_RECV", !.snd_nxt = iss,
                         !.rcv_nxt = seq_end(Head(wire[e]))])
            reply == ControlPacket(child, {"SYN", "ACK"})
        IN /\ Expects(e, Listener, "LISTEN", {"SYN"})
           /\ sock' = [sock EXCEPT ![e] = Sent(child, reply), ![Listener].ref_cnt = @ + 1]
           /\ Handle(e, <<reply>>)
           /\ UNCHANGED <<pc, wait_connect, accepting, faults>>
  BY DEF RcvListen
<1> DEFINE m == Head(wire[e])
           new == [alloc_tcp_sock EXCEPT !.state = "SYN_RECV", !.snd_nxt = iss,
                                         !.rcv_nxt = seq_end(m)]
           child == tcp_hash(new)
           reply == ControlPacket(child, {"SYN", "ACK"})
<1>2. /\ wire[e] # <<>> /\ e \in Children /\ e # Listener /\ m.flags = {"SYN"}
      /\ pc' = pc /\ accept_queue' = accept_queue /\ csk' = csk /\ Handle(e, <<reply>>)
      /\ Listener \in Sock /\ e \in Sock
  BY <1>1, Found, Ends DEF Expects, accepting
<1>3. PICK c \in Client : e = Child(c)
  BY <1>2 DEF Children
<1>4. m \in Segment /\ seq_end(m) \in Nat /\ iss \in Nat
  BY <1>2, Arrived, SegmentTypes, TcpAssumption
<1>5. new \in TcpSock /\ new.state = "SYN_RECV" /\ new.rcv_nxt = seq_end(m)
  <2> DEFINE n == seq_end(m)
  <2>1. n \in Nat /\ iss \in Nat
    BY <1>4
  <2> HIDE DEF n
  <2>2. LET t == [alloc_tcp_sock EXCEPT !.state = "SYN_RECV", !.snd_nxt = iss, !.rcv_nxt = n]
        IN t \in TcpSock /\ t.state = "SYN_RECV" /\ t.rcv_nxt = n
    BY <2>1, NewChild
  <2> QED BY <2>2 DEF n
<1>6. /\ child \in TcpSock /\ child.state = "SYN_RECV" /\ child.hashed
      /\ child.rcv_nxt = seq_end(m)
  <2> HIDE DEF new
  <2> QED BY <1>5, Helpers, HelpersKeep DEF Keeps
<1>7. sock'[e] = Sent(child, reply)
  BY <1>1, <1>2 DEF WInv, Types
<1>8. \A s \in Sock \ {e, Listener} : sock'[s] = sock[s]
  BY <1>1 DEF WInv, Types
<1> HIDE DEF new, child, m
<1>9. /\ reply \in Segment /\ IsSyn(reply) /\ ~IsAck(reply) /\ ~IsFin(reply)
      /\ seq_end(reply) = Sent(child, reply).snd_nxt
      /\ Sent(child, reply) \in TcpSock /\ Sent(child, reply).rcv_nxt = child.rcv_nxt
      /\ Sent(child, reply).hashed = child.hashed /\ Sent(child, reply).state = child.state
  BY <1>6, Packets
<1> HIDE DEF reply
<1>10. <<reply>> \in Reply /\ Members(<<reply>>) = {reply}
  BY <1>9, RepliesOne
<1> DEFINE v == View(c)
           w == View(c)'
<1>11. /\ Agreed(v) /\ Fit(v) /\ w.t = sock'[e] /\ SameClient(v, w)
       /\ AtServer(v, w, m, {reply})
       /\ Agreed(w) => AllAgree'
  BY <1>2, <1>3, <1>8, <1>10, Handled DEF m
<1>12. SameServer(v, w)
  BY <1>2, ServerViews DEF ServerRests
<1>13. IsSyn(m)
  BY <1>2 DEF IsSyn
<1> HIDE DEF v, w
<1> QED BY <1>4, <1>6, <1>7, <1>9, <1>11, <1>12, <1>13, ServerMakes

(* The third segment of the handshake comes to a child.                    *)
LEMMA RcvSynRecvAgrees ==
    ASSUME WInv, AllAgree, NEW e \in End, RcvSynRecv(e) \/ RcvSynRecvFull(e)
    PROVE  AllAgree'
<1> DEFINE m == Head(wire[e])
           a == Acked(e, m)
<1>1. /\ wire[e] # <<>> /\ sock[e].state = "SYN_RECV" /\ m.flags = {"ACK"}
      /\ is_tcp_seq_valid(sock[e], m) /\ e \in Sock /\ csk' = csk
  BY Found, Ends DEF RcvSynRecv, RcvSynRecvFull, Expects, accepting
<1>2. e \notin Client
  BY <1>1 DEF WInv, ConnectWaits
<1>3. PICK c \in Client : e = Child(c)
  BY <1>2 DEF End, Children
<1>4. m \in Segment /\ IsAck(m)
  BY <1>1, Arrived DEF IsAck
<1>5. LET u == [a EXCEPT !.state = "ESTABLISHED"]
      IN /\ Takes(sock[e], a, m) /\ Takes(sock[e], u, m) /\ a \in TcpSock
         /\ u.state = "ESTABLISHED" /\ u.hashed = sock[e].hashed
         /\ a.snd_nxt = sock[e].snd_nxt
  <2>1. Types /\ "ESTABLISHED" \in State
    BY DEF WInv, State
  <2> QED BY <1>1, <1>4, <2>1, AckedTakes
<1> DEFINE v == View(c)
           w == View(c)'
<1>6. CASE RcvSynRecv(e)
  <2>1. /\ sock' = [sock EXCEPT ![e] = [a EXCEPT !.state = "ESTABLISHED"]]
        /\ accept_queue' = Append(accept_queue, e) /\ pc' = pc /\ Handle(e, <<>>)
    BY <1>6 DEF RcvSynRecv, tcp_sock_accept_enqueue
  <2>2. sock'[e] = [a EXCEPT !.state = "ESTABLISHED"]
    BY <1>1, <2>1 DEF WInv, Types
  <2>3. \A s \in Sock \ {e, Listener} : sock'[s] = sock[s]
    BY <2>1 DEF WInv, Types
  <2>4. Members(accept_queue') = Members(accept_queue) \cup {e}
    BY <2>1, <1>3, Apart, QueueFacts DEF WInv, Types
  <2>5. Members(accept_queue)' \subseteq Members(accept_queue) \cup {Child(c)}
    BY <2>4, <1>3
  <2>6. /\ Agreed(v) /\ Fit(v) /\ v.t = sock[e] /\ w.t = sock'[e] /\ SameClient(v, w)
        /\ AtServer(v, w, m, {})
        /\ Agreed(w) => AllAgree'
    BY <1>1, <1>3, <2>1, <2>3, <2>5, RepliesOne, Handled
  <2>7. w.joined /\ w.open = v.open
    BY <1>1, <1>3, <2>1, <2>4 DEF View
  <2> HIDE DEF v, w, m, a
  <2> QED BY <1>1, <1>4, <1>5, <2>2, <2>6, <2>7, ServerAccepts
<1>7. CASE RcvSynRecvFull(e)
  <2> DEFINE u == free_tcp_sock(Release(a))
             r == ControlPacket(a, {"RST"})
  <2>1. /\ sock' = [sock EXCEPT ![e] = u] /\ Handle(e, <<r>>) /\ accept_queue' = accept_queue
        /\ pc' = pc \/ pc' = [pc EXCEPT ![Listener] = "dead"]
    BY <1>7 DEF RcvSynRecvFull, accepting, Goto
  <2>2. r \in Segment /\ Reset(r, sock[e].snd_nxt)
    BY <1>5, Packets, SegmentTypes
  <2>3. Takes(sock[e], u, m) /\ u.state = "CLOSED"
    <3>1. Release(a) \in TcpSock /\ Release(a).state = "CLOSED" /\ Keeps(a, Release(a))
      BY <1>5, ReleaseCloses, HelpersKeep
    <3>2. u.state = "CLOSED" /\ Keeps(Release(a), u)
      BY <3>1, Helpers, HelpersKeep
    <3> HIDE DEF a, u, m
    <3> QED BY <3>1, <3>2, <1>5 DEF Takes, Keeps
  <2>4. sock'[e] = u
    BY <1>1, <2>1 DEF WInv, Types
  <2>5. \A s \in Sock \ {e, Listener} : sock'[s] = sock[s]
    BY <2>1 DEF WInv, Types
  <2>6. pc'[Listener] \in {pc[Listener], "dead"} /\ \A d \in Client : pc'[d] = pc[d]
    BY <2>1, Ends DEF WInv, Types
  <2>7. <<r>> \in Reply /\ Members(<<r>>) = {r}
    BY <2>2, RepliesOne
  <2> HIDE DEF r, u
  <2>8. /\ Agreed(v) /\ Fit(v) /\ v.t = sock[e] /\ w.t = sock'[e] /\ SameClient(v, w)
        /\ AtServer(v, w, m, {r})
        /\ Agreed(w) => AllAgree'
    BY <1>1, <1>3, <2>1, <2>5, <2>6, <2>7, Handled
  <2>9. w.joined = v.joined /\ (w.pending => v.pending) /\ (w.open => w.joined) /\ (v.open => w.open)
    BY <1>1, <2>1, <2>6 DEF View, Looking, Before
  <2> HIDE DEF v, w, m, a
  <2> QED BY <1>1, <1>4, <2>2, <2>3, <2>4, <2>8, <2>9, ServerDrops
<1> QED BY <1>6, <1>7

(* A segment for an end itself that is answered by nothing or one segment: *)
(* what all the handlers below share.                                      *)
HandledAtEnd(c, e, u, out) ==
    LET v == View(c)
        w == View(c)'
        m == Head(wire[e])
    IN /\ Agreed(v) /\ Fit(v) /\ SameServer(v, w) /\ sock[e].hashed /\ w.p = v.p
       /\ e = Child(c) => /\ v.t = sock[e] /\ w.t = u
                          /\ AtServer(v, w, m, Members(out)) /\ SameClient(v, w)
       /\ e = c => /\ v.s = sock[e] /\ w.s = u
                   /\ AtClient(v, w, m, Members(out)) /\ w.t = v.t
       /\ Agreed(w) => AllAgree'

LEMMA AtEnd ==
    ASSUME WInv, AllAgree, NEW e \in End, Arrives(e, e), NEW u \in TcpSock,
           sock' = [sock EXCEPT ![e] = u], NEW out \in Reply, Handle(e, out),
           UNCHANGED <<pc, accepting>>,
           NEW c \in Client, e \in {c, Child(c)}
    PROVE  HandledAtEnd(c, e, u, out)
<1>1. /\ wire[e] # <<>> /\ sock[e].hashed /\ e \in Sock
      /\ pc' = pc /\ accept_queue' = accept_queue /\ csk' = csk
  BY Found, Ends DEF accepting
<1>2. sock'[e] = u /\ \A s \in Sock \ {e, Listener} : sock'[s] = sock[s]
  BY <1>1 DEF WInv, Types
<1>3. SameServer(View(c), View(c)')
  BY <1>1, ServerViews DEF ServerRests
<1> QED BY <1>1, <1>2, <1>3, Handled DEF HandledAtEnd

(* The second segment of the handshake comes to a client.                  *)
LEMMA RcvSynSentAgrees ==
    ASSUME WInv, AllAgree, NEW e \in End, RcvSynSent(e)
    PROVE  AllAgree'
<1> DEFINE m == Head(wire[e])
           u == [Acked(e, m) EXCEPT !.state = "ESTABLISHED"]
           a == ControlPacket(Acked(e, m), {"ACK"})
<1>1. /\ Arrives(e, e) /\ sock[e].state = "SYN_SENT" /\ m.flags = {"SYN", "ACK"}
      /\ sock' = [sock EXCEPT ![e] = u] /\ Handle(e, <<a>>) /\ UNCHANGED <<pc, accepting>>
  BY DEF RcvSynSent, Expects
<1>2. e \in Sock /\ wire[e] # <<>> /\ Types /\ "ESTABLISHED" \in State
  BY <1>1, Ends DEF Arrives, WInv, State
<1>3. m \in Segment /\ IsSyn(m)
  BY <1>1, <1>2, Arrived DEF IsSyn
<1>4. /\ u \in TcpSock /\ u.state = "ESTABLISHED" /\ u.hashed = sock[e].hashed
      /\ u.snd_nxt = sock[e].snd_nxt /\ u.rcv_nxt = seq_end(m) /\ Acked(e, m) \in TcpSock
      /\ Acked(e, m).snd_nxt = sock[e].snd_nxt /\ Acked(e, m).rcv_nxt = seq_end(m)
  BY <1>2, <1>3, AckedTakes
<1>5. a \in Segment /\ Acking(a, seq_end(m), sock[e].snd_nxt)
  <2>1. Acking(a, Acked(e, m).rcv_nxt, Acked(e, m).snd_nxt)
    BY <1>4, Packets
  <2> QED BY <2>1, <1>4 DEF Acking
<1>6. <<a>> \in Reply /\ Members(<<a>>) = {a}
  BY <1>5, RepliesOne
<1>7. PICK c \in Client : e \in {c, Child(c)}
  BY OfConnection
<1> DEFINE v == View(c)
           w == View(c)'
<1> HIDE DEF u, a
<1>8. /\ Agreed(v) /\ Fit(v) /\ SameServer(v, w) /\ w.p = v.p /\ sock[e].hashed
      /\ e = Child(c) => v.t = sock[e]
      /\ e = c => /\ v.s = sock[e] /\ w.s = u /\ AtClient(v, w, m, {a}) /\ w.t = v.t
      /\ Agreed(w) => AllAgree'
  <2>1. HandledAtEnd(c, e, u, <<a>>)
    BY <1>1, <1>4, <1>6, <1>7, AtEnd
  <2> QED BY <2>1, <1>6 DEF HandledAtEnd
<1> HIDE DEF v, w, m
<1>9. e = c
  BY <1>1, <1>7, <1>8 DEF Agreed, Handshake
<1> QED BY <1>1, <1>3, <1>4, <1>5, <1>8, <1>9, ClientConnects

(* A sock that has taken a segment.                                        *)
Got(t, n, k, state) == [t EXCEPT !.rcv_nxt = n, !.snd_una = k, !.state = state]

LEMMA TakenFields ==
    ASSUME NEW t \in TcpSock, NEW n \in Nat, NEW k \in Nat, NEW state \in State
    PROVE  /\ Got(t, n, k, state) \in TcpSock
           /\ Got(t, n, k, state).snd_nxt = t.snd_nxt /\ Got(t, n, k, state).rcv_nxt = n
           /\ Got(t, n, k, state).hashed = t.hashed /\ Got(t, n, k, state).state = state
  BY DEF TcpSock, Got

(* A segment comes to a sock in ESTABLISHED.                               *)
LEMMA RcvEstablishedAgrees ==
    ASSUME WInv, AllAgree, NEW e \in End, RcvEstablished(e)
    PROVE  AllAgree'
<1> DEFINE m == Head(wire[e])
           fin == "FIN" \in m.flags
           una == IF "ACK" \in m.flags THEN m.ack ELSE sock[e].snd_una
           state == IF fin THEN "CLOSE_WAIT" ELSE sock[e].state
           u == [sock[e] EXCEPT !.rcv_nxt = seq_end(m), !.snd_una = una, !.state = state]
           a == ControlPacket(Acked(e, m), {"ACK"})
           out == IF fin THEN <<a>> ELSE <<>>
<1>1. /\ Arrives(e, e) /\ sock[e].state = "ESTABLISHED" /\ is_tcp_seq_valid(sock[e], m)
      /\ Handle(e, out) /\ UNCHANGED <<pc, accepting>> /\ "RST" \notin m.flags
  BY DEF RcvEstablished
<1>2. e \in Sock /\ wire[e] # <<>> /\ Types /\ sock[e] \in TcpSock /\ "ESTABLISHED" \in State
  BY <1>1, Ends DEF Arrives, WInv, State, Types
<1>3. m \in Segment /\ m.ack \in Nat /\ seq_end(m) \in Nat /\ (fin <=> IsFin(m))
  BY <1>1, <1>2, Arrived, SegmentTypes DEF IsFin, Segment
<1>4. sock' = [sock EXCEPT ![e] = u]
  <2>1. sock' = [sock EXCEPT ![e].rcv_nxt = seq_end(m), ![e].snd_una = una,
                             ![e].state = IF fin THEN "CLOSE_WAIT" ELSE @]
    BY DEF RcvEstablished
  <2> HIDE DEF una, fin, m
  <2> QED BY <2>1, <1>2 DEF Types
<1>5. Takes(sock[e], u, m) /\ u.hashed = sock[e].hashed /\ u.state = state
  <2>1. una \in Nat /\ state \in State
    BY <1>2, <1>3 DEF TcpSock, State
  <2>2. sock[e].rcv_nxt <= seq_end(m)
    BY <1>1 DEF is_tcp_seq_valid
  <2> HIDE DEF una, state, m
  <2> DEFINE x == Got(sock[e], seq_end(m), una, state)
  <2>3. /\ x \in TcpSock /\ x.snd_nxt = sock[e].snd_nxt /\ x.rcv_nxt = seq_end(m)
        /\ x.hashed = sock[e].hashed /\ x.state = state
    <3>1. sock[e] \in TcpSock /\ seq_end(m) \in Nat /\ una \in Nat /\ state \in State
      BY <2>1, <1>2, <1>3
    <3> QED BY <3>1, TakenFields
  <2>4. u = x
    BY DEF Got
  <2> HIDE DEF u, x
  <2> QED BY <2>2, <2>3, <2>4 DEF Takes
<1>6. a \in Segment /\ Acking(a, seq_end(m), sock[e].snd_nxt)
  <2>1. /\ Acked(e, m) \in TcpSock /\ Acked(e, m).snd_nxt = sock[e].snd_nxt
        /\ Acked(e, m).rcv_nxt = seq_end(m)
    BY <1>2, <1>3, AckedTakes
  <2>2. Acking(a, Acked(e, m).rcv_nxt, Acked(e, m).snd_nxt)
    BY <2>1, Packets
  <2> QED BY <2>1, <2>2 DEF Acking
<1>7. /\ out \in Reply /\ Members(out) = IF fin THEN {a} ELSE {}
  BY <1>6, RepliesOne
<1>8. \/ u.state = "ESTABLISHED" /\ Members(out) = {}
      \/ /\ u.state = "CLOSE_WAIT" /\ IsFin(m)
         /\ \A n \in Members(out) : Acking(n, seq_end(m), sock[e].snd_nxt)
  BY <1>1, <1>3, <1>5, <1>6, <1>7
<1>9. u \in TcpSock
  BY <1>5 DEF Takes
<1>10. PICK c \in Client : e \in {c, Child(c)}
  BY OfConnection
<1> DEFINE v == View(c)
           w == View(c)'
<1> HIDE DEF u, a, out, fin, una, state
<1>11. /\ Agreed(v) /\ Fit(v) /\ SameServer(v, w) /\ w.p = v.p
       /\ e = Child(c) => /\ v.t = sock[e] /\ w.t = u
                          /\ AtServer(v, w, m, Members(out)) /\ SameClient(v, w)
       /\ e = c => /\ v.s = sock[e] /\ w.s = u
                   /\ AtClient(v, w, m, Members(out)) /\ w.t = v.t
       /\ Agreed(w) => AllAgree'
  <2>1. HandledAtEnd(c, e, u, out)
    BY <1>1, <1>4, <1>7, <1>9, <1>10, AtEnd
  <2> QED BY <2>1 DEF HandledAtEnd
<1> HIDE DEF v, w, m
<1>12. CASE e = Child(c)
  BY <1>1, <1>3, <1>5, <1>8, <1>11, <1>12, ServerTakes
<1>13. CASE e = c
  BY <1>1, <1>3, <1>5, <1>8, <1>11, <1>13, ClientTakes
<1> QED BY <1>10, <1>12, <1>13

(* A segment comes to a sock in FIN_WAIT_1.                                *)
LEMMA RcvFinWait1Agrees ==
    ASSUME WInv, AllAgree, NEW e \in End, RcvFinWait1(e)
    PROVE  AllAgree'
<1> DEFINE m == Head(wire[e])
           both == m.flags = {"FIN", "ACK"}
           late == [Acked(e, m) EXCEPT !.state = "TIME_WAIT"]
           half == [Acked(e, m) EXCEPT !.state = "FIN_WAIT_2"]
           u == IF both THEN tcp_set_timewait_timer(late) ELSE half
           a == ControlPacket(Acked(e, m), {"ACK"})
           out == IF both THEN <<a>> ELSE <<>>
<1>1. /\ Arrives(e, e) /\ sock[e].state = "FIN_WAIT_1" /\ is_tcp_seq_valid(sock[e], m)
      /\ m.flags = {"ACK"} \/ both
      /\ sock' = [sock EXCEPT ![e] = u] /\ Handle(e, out) /\ UNCHANGED <<pc, accepting>>
  BY DEF RcvFinWait1
<1>2. /\ e \in Sock /\ wire[e] # <<>> /\ Types /\ sock[e] \in TcpSock
      /\ "TIME_WAIT" \in State /\ "FIN_WAIT_2" \in State
  BY <1>1, Ends DEF Arrives, WInv, State, Types
<1>3. m \in Segment /\ (both => IsFin(m)) /\ (~both => IsAck(m))
  BY <1>1, <1>2, Arrived DEF IsFin, IsAck
<1>4. /\ Takes(sock[e], late, m) /\ late.state = "TIME_WAIT" /\ late.hashed = sock[e].hashed
      /\ Takes(sock[e], half, m) /\ half.state = "FIN_WAIT_2" /\ half.hashed = sock[e].hashed
      /\ half.snd_una = m.ack /\ late \in TcpSock
      /\ Acked(e, m) \in TcpSock /\ Acked(e, m).snd_nxt = sock[e].snd_nxt
      /\ Acked(e, m).rcv_nxt = seq_end(m)
  BY <1>1, <1>2, <1>3, AckedTakes
<1>5. /\ Takes(sock[e], u, m) /\ u.hashed = sock[e].hashed
      /\ both => u.state = "TIME_WAIT"
      /\ ~both => u.state = "FIN_WAIT_2" /\ u.snd_una = m.ack
  <2>1. /\ Keeps(late, tcp_set_timewait_timer(late))
        /\ tcp_set_timewait_timer(late).hashed = late.hashed
        /\ tcp_set_timewait_timer(late).state = late.state
    BY <1>4, Helpers, HelpersKeep
  <2> HIDE DEF late, half, both, m
  <2> QED BY <2>1, <1>4 DEF Takes, Keeps
<1>6. a \in Segment /\ Acking(a, seq_end(m), sock[e].snd_nxt)
  <2>1. Acking(a, Acked(e, m).rcv_nxt, Acked(e, m).snd_nxt)
    BY <1>4, Packets
  <2> QED BY <2>1, <1>4 DEF Acking
<1>7. /\ out \in Reply /\ Members(out) = IF both THEN {a} ELSE {}
  BY <1>6, RepliesOne
<1>8. \/ u.state = "FIN_WAIT_2" /\ Members(out) = {} /\ IsAck(m) /\ u.snd_una = m.ack
      \/ /\ u.state = "TIME_WAIT" /\ IsFin(m)
         /\ \A n \in Members(out) : Acking(n, seq_end(m), sock[e].snd_nxt)
  BY <1>1, <1>3, <1>5, <1>6, <1>7
<1>9. u \in TcpSock
  BY <1>5 DEF Takes
<1>10. PICK c \in Client : e \in {c, Child(c)}
  BY OfConnection
<1> DEFINE v == View(c)
           w == View(c)'
<1> HIDE DEF u, a, out, both
<1>11. /\ Agreed(v) /\ Fit(v) /\ SameServer(v, w) /\ w.p = v.p
       /\ e = Child(c) => /\ v.t = sock[e] /\ w.t = u
                          /\ AtServer(v, w, m, Members(out)) /\ SameClient(v, w)
       /\ e = c => /\ v.s = sock[e] /\ w.s = u
                   /\ AtClient(v, w, m, Members(out)) /\ w.t = v.t
       /\ Agreed(w) => AllAgree'
  <2>1. HandledAtEnd(c, e, u, out)
    BY <1>1, <1>7, <1>9, <1>10, AtEnd
  <2> QED BY <2>1 DEF HandledAtEnd
<1> HIDE DEF v, w, m
<1>12. CASE e = Child(c)
  BY <1>1, <1>3, <1>5, <1>8, <1>11, <1>12, ServerEnds
<1>13. CASE e = c
  BY <1>1, <1>3, <1>5, <1>8, <1>11, <1>13, ClientEnds
<1> QED BY <1>10, <1>12, <1>13

(* A segment comes to a sock in LAST_ACK.                                  *)
LEMMA RcvLastAckAgrees ==
    ASSUME WInv, AllAgree, NEW e \in End, RcvLastAck(e)
    PROVE  AllAgree'
<1> DEFINE m == Head(wire[e])
           a == Acked(e, m)
           u == Release(a)
<1>1. /\ Arrives(e, e) /\ sock[e].state = "LAST_ACK" /\ is_tcp_seq_valid(sock[e], m)
      /\ m.flags = {"ACK"}
      /\ sock' = [sock EXCEPT ![e] = u] /\ Handle(e, <<>>) /\ UNCHANGED <<pc, accepting>>
  BY DEF RcvLastAck, Expects
<1>2. e \in Sock /\ wire[e] # <<>> /\ Types /\ "CLOSED" \in State
  BY <1>1, Ends DEF Arrives, WInv, State
<1>3. m \in Segment /\ IsAck(m)
  BY <1>1, <1>2, Arrived DEF IsAck
<1>4. a \in TcpSock /\ Takes(sock[e], a, m)
  BY <1>1, <1>2, <1>3, AckedTakes
<1>5. u.state = "CLOSED" /\ Takes(sock[e], u, m) /\ u \in TcpSock
  <2>1. u.state = "CLOSED" /\ Keeps(a, u)
    BY <1>4, ReleaseCloses, HelpersKeep
  <2> HIDE DEF a, u, m
  <2> QED BY <2>1, <1>4 DEF Takes, Keeps
<1>6. PICK c \in Client : e \in {c, Child(c)}
  BY OfConnection
<1> DEFINE v == View(c)
           w == View(c)'
<1> HIDE DEF u, a
<1>7. /\ Agreed(v) /\ Fit(v) /\ SameServer(v, w) /\ w.p = v.p
      /\ e = Child(c) => /\ v.t = sock[e] /\ w.t = u
                         /\ AtServer(v, w, m, {}) /\ SameClient(v, w)
      /\ e = c => /\ v.s = sock[e] /\ w.s = u /\ AtClient(v, w, m, {}) /\ w.t = v.t
      /\ Agreed(w) => AllAgree'
  <2>1. HandledAtEnd(c, e, u, <<>>)
    BY <1>1, <1>5, <1>6, RepliesOne, AtEnd
  <2> QED BY <2>1, RepliesOne DEF HandledAtEnd
<1> HIDE DEF v, w, m
<1>8. CASE e = Child(c)
  BY <1>1, <1>3, <1>5, <1>7, <1>8, ServerLast
<1>9. CASE e = c
  BY <1>1, <1>3, <1>5, <1>7, <1>9, ClientLast
<1> QED BY <1>6, <1>8, <1>9

(* A segment is lost.                                                      *)
LEMMA LoseAgrees ==
    ASSUME WInv, AllAgree, NEW e \in End, Lose(e)
    PROVE  AllAgree'
<1>1. PICK c \in Client : e \in {c, Child(c)}
  BY OfConnection
<1>2. /\ wire[e] # <<>> /\ sock' = sock /\ pc' = pc /\ accept_queue' = accept_queue /\ csk' = csk
      /\ wire' = [wire EXCEPT ![e] = Tail(wire[e])]
  BY DEF Lose, accepting
<1>3. Handle(e, <<>>)
  <2>1. wire[Peer(e)] \in Seq(Segment) /\ Peer(e) \in End \ {e} /\ wire \in [End -> Seq(Segment)]
    BY Ends DEF WInv, Types
  <2>2. wire[Peer(e)] \o <<>> = wire[Peer(e)]
    BY <2>1
  <2> DEFINE rest == [wire EXCEPT ![e] = Tail(wire[e])]
  <2>3. rest[Peer(e)] = wire[Peer(e)] /\ rest = [rest EXCEPT ![Peer(e)] = rest[Peer(e)]]
    BY <2>1
  <2> QED BY <1>2, <2>2, <2>3 DEF Handle
<1> DEFINE v == View(c)
           w == View(c)'
           m == Head(wire[e])
<1>4. <<>> \in Reply /\ Members(<<>>) = {}
  BY RepliesOne
<1>5. /\ m \in Segment /\ Agreed(v) /\ Fit(v) /\ v.s = sock[c] /\ v.t = sock[Child(c)]
      /\ w.s = sock'[c] /\ w.t = sock'[Child(c)] /\ w.p = v.p
      /\ e = Child(c) => AtServer(v, w, m, {}) /\ SameClient(v, w)
      /\ e = c => AtClient(v, w, m, {})
      /\ Agreed(w) => AllAgree'
  BY <1>1, <1>2, <1>3, <1>4, Handled
<1>6. SameServer(v, w)
  BY <1>2, ServerViews DEF ServerRests
<1> HIDE DEF v, w, m
<1> QED BY <1>1, <1>2, <1>5, <1>6, ServerIgnores, ClientIgnores
-----------------------------------------------------------------------------
(* A step of one client's thread.                                          *)
LEMMA ClientStep ==
    ASSUME WInv, AllAgree, NEW c \in Client,
           \A s \in Sock \ {c} : sock'[s] = sock[s],
           \A a \in App \ {c} : pc'[a] = pc[a], UNCHANGED accepting,
           \A d \in Client \ {c} : SameWires(View(d), View(d)')
    PROVE  /\ Agreed(View(c)) /\ Fit(View(c)) /\ SameServer(View(c), View(c)')
           /\ View(c).s = sock[c] /\ View(c).p = pc[c]
           /\ View(c)'.s = sock'[c] /\ View(c)'.t = View(c).t /\ View(c)'.p = pc'[c]
           /\ Agreed(View(c)') => AllAgree'
<1>1. Types /\ Listener \in App \ {c} /\ accept_queue' = accept_queue /\ csk' = csk
  BY Ends DEF WInv, accepting
<1>2. SameServer(View(c), View(c)')
  BY <1>1, ServerViews DEF ServerRests
<1>3. sock'[Child(c)] = sock[Child(c)]
  BY Apart
<1>4. ASSUME NEW d \in Client \ {c} PROVE Frame(View(d), View(d)')
  <2>1. sock'[d] = sock[d] /\ sock'[Child(d)] = sock[Child(d)] /\ pc'[d] = pc[d]
    BY Apart
  <2> QED BY <2>1, <1>1, Elsewhere
<1>5. Agreed(View(c)') => AllAgree'
  BY <1>1, <1>4, OneAgrees
<1>6. Agreed(View(c)) /\ Fit(View(c))
  BY <1>1, ViewFits DEF AllAgree
<1> QED BY <1>2, <1>3, <1>5, <1>6 DEF View

LEMMA StillWires ==
    ASSUME wire' = wire
    PROVE  \A d \in Client : SameWires(View(d), View(d)')
  BY DEF View, SameWires

(* The steps of a client's thread.                                         *)
LEMMA ConnectAgrees ==
    ASSUME WInv, AllAgree, NEW c \in Client, Connect(c)
    PROVE  AllAgree'
<1> DEFINE v == View(c)
           w == View(c)'
<1>1. Types /\ c \in Sock /\ c \in App /\ sock[c] \in TcpSock /\ wire[Child(c)] \in Seq(Segment)
  BY Apart, ViewFits DEF WInv
<1>2. CASE ConnectSend(c)
  <2> DEFINE t == tcp_bind_hash(sock[c])
             m == ControlPacket(t, {"SYN"})
             u == Sent(t, m)
  <2>1. /\ pc[c] = "start" /\ pc' = [pc EXCEPT ![c] = "hash"] /\ sock' = [sock EXCEPT ![c] = u]
        /\ Send(c, m) /\ UNCHANGED accepting
    BY <1>2 DEF ConnectSend, Goto
  <2>2. t \in TcpSock /\ Keeps(sock[c], t) /\ t.state = sock[c].state
    BY <1>1, Helpers, HelpersKeep
  <2> HIDE DEF t
  <2>3. /\ m \in Segment /\ IsSyn(m) /\ ~IsAck(m) /\ ~IsFin(m) /\ seq_end(m) = u.snd_nxt
        /\ u \in TcpSock /\ u.snd_nxt = t.snd_nxt + 1 /\ u.rcv_nxt = t.rcv_nxt /\ u.state = t.state
    BY <2>2, Packets
  <2> HIDE DEF m, u
  <2>4. /\ sock'[c] = u /\ pc'[c] = "hash" /\ \A s \in Sock \ {c} : sock'[s] = sock[s]
        /\ \A a \in App \ {c} : pc'[a] = pc[a]
    BY <1>1, <2>1 DEF Types
  <2>5. ToServer(v, w, m) /\ \A d \in Client \ {c} : SameWires(View(d), View(d)')
    BY <1>1, <2>1, <2>3, SentViews
  <2>6. /\ Agreed(v) /\ Fit(v) /\ SameServer(v, w) /\ v.s = sock[c] /\ v.p = pc[c]
        /\ w.s = sock'[c] /\ w.t = v.t /\ w.p = pc'[c]
        /\ Agreed(w) => AllAgree'
    BY <2>1, <2>4, <2>5, ClientStep
  <2>7. u.state = sock[c].state /\ u.snd_nxt >= sock[c].snd_nxt /\ u.rcv_nxt = sock[c].rcv_nxt
    BY <1>1, <2>2, <2>3 DEF Keeps, TcpSock
  <2> HIDE DEF v, w
  <2> QED BY <2>1, <2>3, <2>4, <2>5, <2>6, <2>7, ClientSends
<1>3. CASE ConnectHash(c)
  <2> DEFINE t == [sock[c] EXCEPT !.state = "SYN_SENT"]
             u == tcp_hash(t)
  <2>1. /\ pc[c] = "hash" /\ pc' = [pc EXCEPT ![c] = "sleep"] /\ sock' = [sock EXCEPT ![c] = u]
        /\ wire' = wire /\ UNCHANGED accepting
    BY <1>3 DEF ConnectHash, Goto
  <2>2. t \in TcpSock /\ Keeps(sock[c], t) /\ t.state = "SYN_SENT"
    BY <1>1 DEF TcpSock, State, Keeps
  <2> HIDE DEF t
  <2>3. u \in TcpSock /\ Keeps(sock[c], u) /\ u.state = "SYN_SENT"
    BY <2>2, Helpers, HelpersKeep DEF Keeps
  <2> HIDE DEF u
  <2>4. /\ sock'[c] = u /\ pc'[c] = "sleep" /\ \A s \in Sock \ {c} : sock'[s] = sock[s]
        /\ \A a \in App \ {c} : pc'[a] = pc[a]
    BY <1>1, <2>1 DEF Types
  <2>5. \A d \in Client : SameWires(View(d), View(d)')
    BY <2>1, StillWires
  <2>6. /\ Agreed(v) /\ Fit(v) /\ SameServer(v, w) /\ v.s = sock[c] /\ v.p = pc[c]
        /\ w.s = sock'[c] /\ w.t = v.t /\ w.p = pc'[c]
        /\ Agreed(w) => AllAgree'
    BY <2>1, <2>4, <2>5, ClientStep
  <2>7. SameWires(v, w)
    BY <2>5
  <2> HIDE DEF v, w
  <2> QED BY <2>1, <2>3, <2>4, <2>6, <2>7, ClientHashes
<1>4. CASE ConnectSleep(c) \/ ConnectReturn(c)
  <2>1. /\ pc[c] \in {"sleep", "asleep"} /\ sock' = sock /\ wire' = wire /\ UNCHANGED accepting
        /\ pc' = [pc EXCEPT ![c] = "asleep"] \/ pc' = [pc EXCEPT ![c] = "connected"]
    BY <1>4 DEF ConnectSleep, ConnectReturn, Goto
  <2>2. pc'[c] \in {"asleep", "connected"} /\ \A a \in App \ {c} : pc'[a] = pc[a]
    BY <1>1, <2>1 DEF Types
  <2>3. \A d \in Client : SameWires(View(d), View(d)')
    BY <2>1, StillWires
  <2>4. /\ Agreed(v) /\ Fit(v) /\ SameServer(v, w) /\ v.s = sock[c] /\ v.p = pc[c]
        /\ w.s = sock'[c] /\ w.t = v.t /\ w.p = pc'[c]
        /\ Agreed(w) => AllAgree'
    BY <2>1, <2>2, <2>3, ClientStep
  <2>5. SameWires(v, w) /\ w.s = v.s
    BY <2>1, <2>3, <2>4
  <2> HIDE DEF v, w
  <2> QED BY <2>1, <2>2, <2>4, <2>5, ClientMoves
<1> QED BY <1>2, <1>3, <1>4 DEF Connect

LEMMA ClientCloseAgrees ==
    ASSUME WInv, AllAgree, NEW c \in Client, Close(c)
    PROVE  AllAgree'
<1> DEFINE v == View(c)
           w == View(c)'
<1>1. /\ Types /\ c \in Sock /\ c \in App /\ sock[c] \in TcpSock /\ Held(c) = c
      /\ wire[Child(c)] \in Seq(Segment)
  BY Apart, ViewFits DEF WInv, Held
<1>2. CASE CloseSend(c)
  <2> DEFINE m == ControlPacket(sock[c], {"FIN", "ACK"})
             u == Sent(sock[c], m)
             label == AfterFin(sock[c].state)
  <2>1. /\ pc[c] = "connected" /\ sock[c].state \in {"ESTABLISHED", "CLOSE_WAIT"}
        /\ pc' = [pc EXCEPT ![c] = label] /\ sock' = [sock EXCEPT ![c] = u]
        /\ Send(c, m) /\ UNCHANGED accepting
    BY <1>1, <1>2 DEF CloseSend, Goto
  <2>2. /\ Finning(m, u.snd_nxt) /\ u \in TcpSock /\ u.snd_nxt = sock[c].snd_nxt + 1
        /\ u.rcv_nxt = sock[c].rcv_nxt /\ u.hashed = sock[c].hashed /\ u.state = sock[c].state
    BY <1>1, Packets
  <2> HIDE DEF m, u, label
  <2>3. m \in Segment
    BY <2>2 DEF Finning
  <2>4. /\ sock'[c] = u /\ pc'[c] = label /\ \A s \in Sock \ {c} : sock'[s] = sock[s]
        /\ \A a \in App \ {c} : pc'[a] = pc[a]
    BY <1>1, <2>1 DEF Types
  <2>5. ToServer(v, w, m) /\ \A d \in Client \ {c} : SameWires(View(d), View(d)')
    BY <1>1, <2>1, <2>3, SentViews
  <2>6. /\ Agreed(v) /\ Fit(v) /\ SameServer(v, w) /\ v.s = sock[c] /\ v.p = pc[c]
        /\ w.s = sock'[c] /\ w.t = v.t /\ w.p = pc'[c]
        /\ Agreed(w) => AllAgree'
    BY <2>1, <2>4, <2>5, ClientStep
  <2>7. label = AfterFin(v.s.state)
    BY <2>6 DEF label
  <2> HIDE DEF v, w
  <2> QED BY <2>1, <2>2, <2>4, <2>5, <2>6, <2>7, ClientFin
<1>3. CASE CloseSet(c)
  <2> DEFINE u == [sock[c] EXCEPT !.state = pc[c]]
  <2>1. /\ pc[c] \in State /\ pc' = [pc EXCEPT ![c] = "done"]
        /\ sock' = [sock EXCEPT ![c] = u] /\ wire' = wire /\ UNCHANGED accepting
    BY <1>1, <1>3 DEF CloseSet, Goto, Types
  <2>2. pc[c] \in {"FIN_WAIT_1", "LAST_ACK"}
    BY <1>1, <2>1 DEF Types, Labels, State
  <2>3. Keeps(sock[c], u) /\ u.state = pc[c] /\ u.hashed = sock[c].hashed
    BY <1>1, <2>1 DEF TcpSock, Keeps
  <2> HIDE DEF u
  <2>4. /\ sock'[c] = u /\ pc'[c] = "done" /\ \A s \in Sock \ {c} : sock'[s] = sock[s]
        /\ \A a \in App \ {c} : pc'[a] = pc[a]
    BY <1>1, <2>1 DEF Types
  <2>5. \A d \in Client : SameWires(View(d), View(d)')
    BY <2>1, StillWires
  <2>6. /\ Agreed(v) /\ Fit(v) /\ SameServer(v, w) /\ v.s = sock[c] /\ v.p = pc[c]
        /\ w.s = sock'[c] /\ w.t = v.t /\ w.p = pc'[c]
        /\ Agreed(w) => AllAgree'
    BY <2>1, <2>4, <2>5, ClientStep
  <2>7. SameWires(v, w)
    BY <2>5
  <2> HIDE DEF v, w
  <2> QED BY <2>2, <2>3, <2>4, <2>6, <2>7, ClientSet
<1>4. CASE CloseNothing(c)
  <2>1. /\ pc[c] = "connected" /\ pc' = [pc EXCEPT ![c] = "done"]
        /\ sock' = sock /\ wire' = wire /\ UNCHANGED accepting
    BY <1>4 DEF CloseNothing, Goto
  <2>2. pc'[c] = "done" /\ \A a \in App \ {c} : pc'[a] = pc[a]
    BY <1>1, <2>1 DEF Types
  <2>3. \A d \in Client : SameWires(View(d), View(d)')
    BY <2>1, StillWires
  <2>4. /\ Agreed(v) /\ Fit(v) /\ SameServer(v, w) /\ v.s = sock[c] /\ v.p = pc[c]
        /\ w.s = sock'[c] /\ w.t = v.t /\ w.p = pc'[c]
        /\ Agreed(w) => AllAgree'
    BY <2>1, <2>2, <2>3, ClientStep
  <2>5. SameWires(v, w) /\ w.s = v.s
    BY <2>1, <2>3, <2>4
  <2> HIDE DEF v, w
  <2> QED BY <2>1, <2>2, <2>4, <2>5, ClientMoves
<1> QED BY <1>2, <1>3, <1>4 DEF Close
-----------------------------------------------------------------------------
(* The server's thread, seen from a connection it does not handle.         *)
LEMMA ServerStep ==
    ASSUME NEW d \in Client, SameWires(View(d), View(d)'),
           sock'[d] = sock[d], sock'[Child(d)] = sock[Child(d)], pc'[d] = pc[d],
           Members(accept_queue)' \subseteq Members(accept_queue),
           \/ /\ pc[Listener] \in Looking /\ pc'[Listener] \in Looking \cup {"unlink"}
              /\ \/ csk' = csk /\ pc'[Listener] # "unlink"
                 \/ csk' \in Members(accept_queue)
           \/ /\ csk' = csk /\ pc'[Listener] \notin Looking \cup {"unlink"}
              /\ pc'[Listener] \in Before => pc[Listener] \in Before
    PROVE  Frame(View(d), View(d)')
  BY DEF View, Frame, SameWires, Looking, Before

(* The steps of the server's thread.                                       *)
LEMMA AcceptAgrees ==
    ASSUME WInv, AllAgree, Accept
    PROVE  AllAgree'
<1>1. /\ Types /\ AcceptWaits /\ Listener \in App /\ Listener \in Sock
      /\ accept_queue \in Seq(Children)
  BY Ends DEF WInv, Types
<1>2. ASSUME NEW d \in Client PROVE d \in App \ {Listener} /\ d \in Sock \ {Listener}
                                    /\ Child(d) \in Sock \ {Listener}
  BY Apart
<1>3. CASE Unlink
  <2> DEFINE t == [sock[csk] EXCEPT !.state = "ESTABLISHED"]
             u == tcp_hash(t)
  <2>1. /\ pc[Listener] = "unlink" /\ pc' = [pc EXCEPT ![Listener] = "connected"]
        /\ accept_queue' = Tail(accept_queue) \/ accept_queue' = <<>>
        /\ sock' = [sock EXCEPT ![csk] = u] /\ csk' = csk /\ wire' = wire
    BY <1>3 DEF Unlink, Goto
  <2>2. csk \in Children /\ accept_queue # <<>>
    BY <1>1, <2>1 DEF AcceptWaits, Holding
  <2>3. PICK c \in Client : csk = Child(c)
    BY <2>2 DEF Children
  <2>4. sock[csk] \in TcpSock /\ csk \in Sock
    BY <1>1, <2>3, Apart DEF Types
  <2>5. t \in TcpSock /\ Keeps(sock[csk], t) /\ t.state = "ESTABLISHED"
    BY <2>4 DEF TcpSock, State, Keeps
  <2> HIDE DEF t
  <2>6. Keeps(sock[csk], u) /\ u.state = "ESTABLISHED" /\ u.hashed
    BY <2>5, Helpers, HelpersKeep DEF Keeps
  <2> HIDE DEF u
  <2>7. /\ sock'[csk] = u /\ pc'[Listener] = "connected"
        /\ \A s \in Sock \ {csk} : sock'[s] = sock[s]
        /\ \A d \in Client : pc'[d] = pc[d]
    BY <1>1, <1>2, <2>1, <2>4 DEF Types
  <2>8. \A d \in Client : SameWires(View(d), View(d)')
    BY <2>1, StillWires
  <2>9. Members(accept_queue)' \subseteq Members(accept_queue)
    <3>1. Members(Tail(accept_queue)) \subseteq Members(accept_queue)
      BY <1>1, <2>2, QueueFacts
    <3>2. Members(<<>>) = {}
      BY RepliesOne
    <3> QED BY <2>1, <3>1, <3>2
  <2>10. ASSUME NEW d \in Client \ {c} PROVE Frame(View(d), View(d)')
    <3>1. sock'[d] = sock[d] /\ sock'[Child(d)] = sock[Child(d)]
      BY <2>3, <2>7, Apart
    <3>2. pc'[Listener] \notin Looking \cup {"unlink"} /\ pc[Listener] \in Before
      BY <2>1, <2>7 DEF Looking, Before
    <3> QED BY <3>1, <3>2, <2>1, <2>7, <2>8, <2>9, ServerStep
  <2>11. Agreed(View(c)')
    <3> DEFINE v == View(c)
               w == View(c)'
    <3>1. /\ SameWires(v, w) /\ Agreed(v) /\ Fit(v) /\ v.t = sock[csk] /\ w.t = sock'[csk]
      BY <1>1, <2>3, <2>8, ViewFits DEF AllAgree, View
    <3>2. SameClient(v, w)
      <4>1. sock'[c] = sock[c]
        BY <2>3, <2>7, Apart
      <4> QED BY <4>1, <2>7 DEF View, SameClient
    <3>3. v.pending /\ ~w.pending /\ ~w.open /\ w.joined
      BY <2>1, <2>3, <2>7 DEF View, Looking, Before
    <3> HIDE DEF v, w
    <3>4. Agreed(w)
      BY <2>6, <2>7, <3>1, <3>2, <3>3, ServerUnlinks
    <3> QED BY <3>4 DEF w
  <2> QED BY <1>1, <2>10, <2>11, OneAgrees
<1>4. CASE Listen \/ AcceptLook \/ AcceptSleep \/ AcceptWake \/ Dequeue
  <2>1. /\ wire' = wire /\ accept_queue' = accept_queue
        /\ \A s \in Sock \ {Listener} : sock'[s] = sock[s]
    BY <1>1, <1>4 DEF Listen, AcceptLook, AcceptSleep, AcceptWake, Dequeue,
       accepting, Types
  <2>2. /\ pc[Listener] \in Looking /\ pc'[Listener] \in Looking \cup {"unlink"}
        /\ \A d \in Client : pc'[d] = pc[d]
    BY <1>1, <1>2, <1>4 DEF Listen, AcceptLook, AcceptSleep, AcceptWake,
       Dequeue, Goto, Types, Looking
  <2>3. \/ csk' = csk /\ pc'[Listener] # "unlink"
        \/ csk' \in Members(accept_queue)
    <3>1. CASE Dequeue
      <4>1. accept_queue # <<>> /\ csk' = Head(accept_queue)
        BY <1>1, <3>1 DEF Dequeue, AcceptWaits
      <4> QED BY <1>1, <4>1, QueueFacts
    <3>2. CASE Listen \/ AcceptLook \/ AcceptSleep \/ AcceptWake
      BY <1>1, <3>2 DEF Listen, AcceptLook, AcceptSleep, AcceptWake, Goto,
         accepting, Types
    <3> QED BY <1>4, <3>1, <3>2
  <2>4. ASSUME NEW d \in Client PROVE Frame(View(d), View(d)')
    <3>1. SameWires(View(d), View(d)') /\ Members(accept_queue)' \subseteq Members(accept_queue)
      BY <2>1, StillWires
    <3> QED BY <1>2, <2>1, <2>2, <2>3, <3>1, ServerStep
  <2> SUFFICES ASSUME NEW d \in Client PROVE Agreed(View(d)')
    BY DEF AllAgree
  <2> QED BY <1>1, <2>4, FrameAgrees, ViewFits DEF AllAgree
<1> QED BY <1>3, <1>4 DEF Accept, AllAgree

LEMMA ServerCloseAgrees ==
    ASSUME WInv, AllAgree, Close(Listener)
    PROVE  AllAgree'
<1>1. /\ Types /\ AcceptWaits /\ Listener \in App /\ Held(Listener) = csk
      /\ \A d \in Client : d \in App \ {Listener}
  BY Ends DEF WInv, Held
<1>2. /\ pc[Listener] \in {"connected", "FIN_WAIT_1", "LAST_ACK"}
      /\ pc'[Listener] \in {"FIN_WAIT_1", "LAST_ACK", "done"}
      /\ \A d \in Client : pc'[d] = pc[d]
      /\ pc'[Listener] \in Before => pc[Listener] \in Before
  <2>1. pc[Listener] \in State => pc[Listener] \in {"FIN_WAIT_1", "LAST_ACK"}
    BY <1>1 DEF Types, Labels, State
  <2>2. /\ pc[Listener] \in {"connected", "FIN_WAIT_1", "LAST_ACK"}
        /\ \E label \in {"FIN_WAIT_1", "LAST_ACK", "done"} : pc' = [pc EXCEPT ![Listener] = label]
    BY <2>1 DEF Close, CloseSend, CloseSet, CloseNothing, Goto, AfterFin
  <2> QED BY <1>1, <2>2 DEF Types, Before, Looking
<1>3. csk \in Children /\ UNCHANGED accepting
  <2>1. csk \in Children
    BY <1>1, <1>2 DEF AcceptWaits, Holding
  <2> QED BY <2>1 DEF Close, CloseSend, CloseSet, CloseNothing
<1>4. PICK c \in Client : csk = Child(c)
  BY <1>3 DEF Children
<1>5. /\ csk \in Sock /\ sock[csk] \in TcpSock /\ csk' = csk /\ accept_queue' = accept_queue
      /\ csk \in {c, Child(c)}
  BY <1>1, <1>3, <1>4, Apart DEF Types, accepting
<1>6. /\ Agreed(View(c)) /\ Fit(View(c)) /\ View(c).t = sock[csk] /\ View(c)'.t = sock'[csk]
  BY <1>1, <1>4, <1>5, ViewFits DEF AllAgree, View
<1>7. /\ ~View(c).pending /\ ~View(c)'.pending /\ View(c).joined /\ View(c)'.joined
      /\ View(c)'.open
      /\ pc[Listener] = "connected" => ~View(c).open
      /\ pc[Listener] # "connected" => View(c).open
  BY <1>2, <1>4, <1>5 DEF View, Looking, Before
<1>8. ASSUME \A s \in Sock \ {csk} : sock'[s] = sock[s],
             \A d \in Client \ {c} : SameWires(View(d), View(d)'),
             Agreed(View(c)')
      PROVE  AllAgree'
  <2>1. ASSUME NEW d \in Client \ {c} PROVE Frame(View(d), View(d)')
    <3>1. sock'[d] = sock[d] /\ sock'[Child(d)] = sock[Child(d)]
      BY <1>4, <1>8, Apart
    <3>2. pc'[Listener] \notin Looking \cup {"unlink"}
      BY <1>2 DEF Looking
    <3>3. Members(accept_queue)' \subseteq Members(accept_queue)
      BY <1>5
    <3> QED BY <1>2, <1>5, <1>8, <3>1, <3>2, <3>3, ServerStep
  <2> QED BY <1>1, <1>8, <2>1, OneAgrees
<1>9. ASSUME \A s \in Sock \ {csk} : sock'[s] = sock[s]
      PROVE  SameClient(View(c), View(c)')
  <2>1. sock'[c] = sock[c]
    BY <1>4, <1>9, Apart
  <2> QED BY <1>2, <2>1 DEF View, SameClient
<1> DEFINE v == View(c)
           w == View(c)'
<1>10. CASE CloseSend(Listener)
  <2> DEFINE m == ControlPacket(sock[csk], {"FIN", "ACK"})
             u == Sent(sock[csk], m)
  <2>1. /\ pc[Listener] = "connected" /\ sock[csk].state \in {"ESTABLISHED", "CLOSE_WAIT"}
        /\ sock' = [sock EXCEPT ![csk] = u] /\ Send(csk, m)
    BY <1>1, <1>10 DEF CloseSend
  <2>2. /\ Finning(m, u.snd_nxt) /\ u \in TcpSock /\ u.snd_nxt = sock[csk].snd_nxt + 1
        /\ u.rcv_nxt = sock[csk].rcv_nxt /\ u.hashed = sock[csk].hashed
        /\ u.state = sock[csk].state
    BY <1>5, Packets
  <2> HIDE DEF m, u
  <2>3. m \in Segment
    BY <2>2 DEF Finning
  <2>4. sock'[csk] = u /\ \A s \in Sock \ {csk} : sock'[s] = sock[s]
    BY <1>1, <1>5, <2>1 DEF Types
  <2>5. ToClient(v, w, m) /\ \A d \in Client \ {c} : SameWires(View(d), View(d)')
    BY <1>1, <1>4, <1>5, <2>1, <2>3, SentViews
  <2>6. SameClient(v, w)
    BY <1>9, <2>4
  <2>7. Agreed(w)
    <3> HIDE DEF v, w
    <3>1. /\ Agreed(v) /\ Fit(v) /\ v.t = sock[csk] /\ w.t = u
          /\ ~v.open /\ ~v.pending /\ ~w.pending /\ w.open /\ w.joined
      BY <1>6, <1>7, <2>1, <2>4 DEF v, w
    <3> QED BY <2>1, <2>2, <2>5, <2>6, <3>1, ServerFin
  <2> QED BY <1>8, <2>4, <2>5, <2>7
<1>11. CASE CloseSet(Listener)
  <2> DEFINE u == [sock[csk] EXCEPT !.state = pc[Listener]]
  <2>1. pc[Listener] \in State /\ sock' = [sock EXCEPT ![csk] = u] /\ wire' = wire
    BY <1>1, <1>11, <1>5 DEF CloseSet, Types
  <2>2. pc[Listener] \in {"FIN_WAIT_1", "LAST_ACK"}
    BY <1>2, <2>1 DEF State
  <2>3. Keeps(sock[csk], u) /\ u.state = pc[Listener] /\ u.hashed = sock[csk].hashed
    BY <1>5, <2>1 DEF TcpSock, Keeps
  <2> HIDE DEF u
  <2>4. sock'[csk] = u /\ \A s \in Sock \ {csk} : sock'[s] = sock[s]
    BY <1>1, <1>5, <2>1 DEF Types
  <2>5. \A d \in Client : SameWires(View(d), View(d)')
    BY <2>1, StillWires
  <2>6. SameClient(v, w)
    BY <1>9, <2>4
  <2>7. Agreed(w)
    <3>1. /\ Agreed(v) /\ Fit(v) /\ v.t = sock[csk] /\ w.t = u /\ SameWires(v, w)
          /\ v.open /\ w.open /\ ~w.pending /\ v.joined /\ w.joined
      BY <1>6, <1>7, <2>2, <2>4, <2>5
    <3> HIDE DEF v, w
    <3> QED BY <2>2, <2>3, <2>6, <3>1, ServerSet
  <2> QED BY <1>8, <2>4, <2>5, <2>7
<1>12. CASE CloseNothing(Listener)
  <2>1. pc[Listener] = "connected" /\ sock' = sock /\ wire' = wire
    BY <1>12 DEF CloseNothing
  <2>2. \A d \in Client : SameWires(View(d), View(d)')
    BY <2>1, StillWires
  <2>3. Frame(View(c), View(c)')
    <3>1. pc'[Listener] \notin Looking \cup {"unlink"}
      BY <1>2 DEF Looking
    <3>2. Members(accept_queue)' \subseteq Members(accept_queue)
      BY <1>5
    <3> QED BY <1>2, <1>5, <2>1, <2>2, <3>1, <3>2, ServerStep
  <2>4. Agreed(View(c)')
    BY <1>6, <2>3, FrameAgrees
  <2> QED BY <1>8, <2>1, <2>2, <2>4
<1> QED BY <1>10, <1>11, <1>12 DEF Close
-----------------------------------------------------------------------------
(* A process that is run again has forgotten its numbers: nothing is       *)
(* claimed from then on.                                                   *)
Conn == restarts \in Nat /\ (restarts = 0 => AllAgree)

LEMMA InitConn == Init => Conn
<1> SUFFICES ASSUME Init PROVE Conn
  OBVIOUS
<1>1. ASSUME NEW c \in Client PROVE Agreed(View(c))
  <2> DEFINE v == View(c)
  <2>1. /\ v.s = alloc_tcp_sock /\ v.t = alloc_tcp_sock /\ v.p = "start"
        /\ v.wc = {} /\ v.wk = {} /\ v.rc = {} /\ v.rk = {}
        /\ ~v.joined /\ ~v.pending /\ ~v.open
    <3>1. Members(<<>>) = {} /\ Later(<<>>) = {}
      BY DEF Members, Later
    <3>2. /\ sock[c] = alloc_tcp_sock /\ sock[Child(c)] = alloc_tcp_sock
          /\ pc[c] = "start" /\ wire[c] = <<>> /\ wire[Child(c)] = <<>>
          /\ accept_queue = <<>> /\ csk # Child(c)
      BY Apart DEF Init
    <3>3. Members(wire[c]) = {} /\ Later(wire[c]) = {} /\ Members(wire[Child(c)]) = {}
          /\ Later(wire[Child(c)]) = {} /\ Members(accept_queue) = {}
      BY <3>1, <3>2
    <3> QED BY <3>2, <3>3 DEF View
  <2> HIDE DEF v
  <2>2. Numbers(v) /\ Handshake(v)
    BY <2>1 DEF Numbers, Handshake, Unmade, alloc_tcp_sock
  <2>3. Known(v) /\ Fins(v) /\ Acks(v)
    BY <2>1 DEF Known, Alive, Fins, Acks, alloc_tcp_sock
  <2> QED BY <2>2, <2>3 DEF Agreed, v
<1> QED BY <1>1 DEF Conn, AllAgree, Init

LEMMA NextConn == WInv /\ Conn /\ [Next]_vars => Conn'
<1> SUFFICES ASSUME WInv, Conn, [Next]_vars PROVE Conn'
  OBVIOUS
<1>1. ASSUME restarts' = restarts, AllAgree => AllAgree' PROVE Conn'
  BY <1>1 DEF Conn
<1>2. CASE \E e \in End : Receive(e)
  <2>1. PICK e \in End : Receive(e)
    BY <1>2
  <2>2. restarts' = restarts
    BY <2>1 DEF Receive, NoSock, RcvListen, RcvSynRecv, RcvSynRecvFull,
       RcvSynSent,
                RcvFinWait1, RcvEstablished, RcvLastAck, RcvRst, Ignore, faults
  <2>3. AllAgree => AllAgree'
    BY <2>1, NoSockAgrees, QuietAgrees, RcvListenAgrees, RcvSynRecvAgrees,
       RcvSynSentAgrees,
       RcvEstablishedAgrees, RcvFinWait1Agrees, RcvLastAckAgrees DEF Receive
  <2> QED BY <1>1, <2>2, <2>3
<1>3. CASE \E c \in Client : Connect(c)
  <2>1. restarts' = restarts
    BY <1>3 DEF Connect, ConnectSend, ConnectHash, ConnectSleep, ConnectReturn,
       faults
  <2> QED BY <1>1, <1>3, <2>1, ConnectAgrees
<1>4. CASE Accept
  <2>1. restarts' = restarts
    BY <1>4 DEF Accept, Listen, AcceptLook, AcceptSleep, AcceptWake, Dequeue,
       Unlink, faults
  <2> QED BY <1>1, <1>4, <2>1, AcceptAgrees
<1>5. CASE \E a \in App : Close(a)
  <2>1. restarts' = restarts
    BY <1>5 DEF Close, CloseSend, CloseSet, CloseNothing, faults
  <2> QED BY <1>1, <1>5, <2>1, ClientCloseAgrees, ServerCloseAgrees DEF App
<1>6. CASE \E e \in End : Lose(e)
  <2>1. restarts' = restarts
    BY <1>6 DEF Lose
  <2> QED BY <1>1, <1>6, <2>1, LoseAgrees
<1>7. CASE (\E c \in Client : RestartClient(c)) \/ RestartServer
  BY <1>7 DEF RestartClient, RestartServer, Conn
<1>8. CASE UNCHANGED vars
  BY <1>8 DEF vars, Conn, AllAgree, View
<1> QED BY <1>2, <1>3, <1>4, <1>5, <1>6, <1>7, <1>8 DEF Next, Work, Fault

(* While no process has been run again: neither end of a connection, of    *)
(* however many, believes to have got what the other has not sent, an      *)
(* accepted child has a client that knows it, and FIN_WAIT_2 is reached    *)
(* only when the other end has taken the FIN.                              *)
THEOREM SpecSeqAgree == Spec => []SeqAgree
<1>1. WInv /\ Conn => SeqAgree
  <2> SUFFICES ASSUME WInv, Conn, restarts = 0, NEW e \in End
               PROVE  /\ Synchronised(e) => sock[e].rcv_nxt <= sock[Peer(e)].snd_nxt
                      /\ e \in Children /\ sock[e].state = "ESTABLISHED" => Synchronised(Peer(e))
                      /\ sock[e].state = "FIN_WAIT_2" =>
                            /\ sock[e].snd_una = sock[e].snd_nxt
                            /\ sock[Peer(e)].rcv_nxt = sock[e].snd_nxt
    BY DEF SeqAgree
  <2>1. PICK c \in Client : e \in {c, Child(c)}
    BY OfConnection
  <2> DEFINE v == View(c)
  <2>2. Agreed(v) /\ v.s = sock[c] /\ v.t = sock[Child(c)]
    BY ViewFits DEF WInv, Conn, AllAgree
  <2>3. Peer(c) = Child(c) /\ Peer(Child(c)) = c /\ c \notin Children
    BY Apart, Ends
  <2> HIDE DEF v
  <2>4. Numbers(v) /\ Handshake(v) /\ Known(v) /\ Acks(v)
    BY <2>2 DEF Agreed
  <2>5. v.t.state = "ESTABLISHED" => Synchronised(c)
    BY <2>2, <2>4 DEF Known, Alive, Early, Handshake, Synchronised
  <2> QED BY <2>1, <2>2, <2>3, <2>4, <2>5 DEF Numbers, Acks
<1>2. Spec => [](WInv /\ Conn)
  <2>1. Init => WInv /\ Conn
    BY InitWInv, InitConn
  <2>2. WInv /\ Conn /\ [Next]_vars => (WInv /\ Conn)'
    BY NextWInv, NextConn
  <2> QED BY <2>1, <2>2, PTL DEF Spec
<1> QED BY <1>1, <1>2, PTL
-----------------------------------------------------------------------------
(* What the tables hold of a sock; a child that is not accepted yet has a  *)
(* reference for each, and any sock has been given back once too often at  *)
(* most.                                                                   *)
Counted(t) ==
    /\ t.ref_cnt >= References(t) - 1
    /\ t.state = "SYN_RECV" => t.ref_cnt >= References(t)

Bounded ==
    /\ accept_backlog \in Int /\ seen \in Nat
    /\ lost \in Nat /\ restarts \in Nat /\ lost + restarts <= MaxFaults

TInv == Bounded /\ \A s \in Sock : Counted(sock[s])

(* What the helpers take from the count.                                   *)
LEMMA GivenBack ==
    ASSUME NEW t \in TcpSock
    PROVE  /\ free_tcp_sock(t).ref_cnt = t.ref_cnt - 1
           /\ free_tcp_sock(t).hashed = t.hashed /\ free_tcp_sock(t).bound = t.bound
           /\ t.hashed => tcp_unhash(t).ref_cnt = t.ref_cnt - 1
           /\ ~t.hashed => tcp_unhash(t) = t
           /\ ~tcp_unhash(t).hashed /\ tcp_unhash(t).bound = t.bound
           /\ t.bound => tcp_bind_unhash(t).ref_cnt = t.ref_cnt - 1
           /\ ~t.bound => tcp_bind_unhash(t) = t
           /\ ~tcp_bind_unhash(t).bound /\ tcp_bind_unhash(t).hashed = t.hashed
<1>1. ASSUME NEW u \in TcpSock
      PROVE  /\ free_tcp_sock(u).ref_cnt = u.ref_cnt - 1
             /\ free_tcp_sock(u).hashed = u.hashed /\ free_tcp_sock(u).bound = u.bound
  BY DEF free_tcp_sock, TcpSock
<1>2. /\ t.hashed => tcp_unhash(t).ref_cnt = t.ref_cnt - 1
      /\ ~t.hashed => tcp_unhash(t) = t
      /\ ~tcp_unhash(t).hashed /\ tcp_unhash(t).bound = t.bound
  <2> DEFINE u == [t EXCEPT !.hashed = FALSE]
  <2>1. u \in TcpSock /\ u.ref_cnt = t.ref_cnt /\ ~u.hashed /\ u.bound = t.bound
    BY DEF TcpSock
  <2>2. tcp_unhash(t) = IF t.hashed THEN free_tcp_sock(u) ELSE t
    BY DEF tcp_unhash
  <2> HIDE DEF u
  <2> QED BY <2>1, <2>2, <1>1
<1>3. /\ t.bound => tcp_bind_unhash(t).ref_cnt = t.ref_cnt - 1
      /\ ~t.bound => tcp_bind_unhash(t) = t
      /\ ~tcp_bind_unhash(t).bound /\ tcp_bind_unhash(t).hashed = t.hashed
  <2> DEFINE u == [t EXCEPT !.bound = FALSE]
  <2>1. u \in TcpSock /\ u.ref_cnt = t.ref_cnt /\ ~u.bound /\ u.hashed = t.hashed
    BY DEF TcpSock
  <2>2. tcp_bind_unhash(t) = IF t.bound THEN free_tcp_sock(u) ELSE t
    BY DEF tcp_bind_unhash
  <2> HIDE DEF u
  <2> QED BY <2>1, <2>2, <1>1
<1> QED BY <1>1, <1>2, <1>3

LEMMA ReleaseCounts ==
    ASSUME NEW t \in TcpSock
    PROVE  /\ ~Release(t).hashed /\ ~Release(t).bound
           /\ Release(t).ref_cnt = t.ref_cnt - References(t)
<1> DEFINE closed == [t EXCEPT !.state = "CLOSED"]
           out == tcp_unhash(closed)
<1>1. /\ closed \in TcpSock /\ closed.ref_cnt = t.ref_cnt /\ closed.hashed = t.hashed
      /\ closed.bound = t.bound
  BY DEF TcpSock, State
<1>2. t.ref_cnt \in Int
  BY DEF TcpSock
<1> HIDE DEF closed
<1>3. out \in TcpSock /\ ~out.hashed /\ out.bound = t.bound
      /\ out.ref_cnt = t.ref_cnt - (IF t.hashed THEN 1 ELSE 0)
  <2>1. /\ out \in TcpSock /\ ~out.hashed /\ out.bound = closed.bound
        /\ closed.hashed => out.ref_cnt = closed.ref_cnt - 1
        /\ ~closed.hashed => out = closed
    BY <1>1, Helpers, GivenBack
  <2> HIDE DEF out
  <2> QED BY <1>1, <1>2, <2>1
<1>4. Release(t) = tcp_bind_unhash(out)
  BY DEF Release, closed
<1> HIDE DEF out
<1>5. /\ ~tcp_bind_unhash(out).bound /\ ~tcp_bind_unhash(out).hashed
      /\ tcp_bind_unhash(out).ref_cnt = out.ref_cnt - (IF t.bound THEN 1 ELSE 0)
  BY <1>2, <1>3, GivenBack
<1> QED BY <1>2, <1>3, <1>4, <1>5 DEF References

LEMMA CountedHelpers ==
    ASSUME NEW t \in TcpSock, Counted(t)
    PROVE  /\ Counted(tcp_bind_hash(t)) /\ Counted(tcp_hash(t))
           /\ Counted(tcp_set_timewait_timer(t)) /\ Counted(Release(t))
           /\ \A m \in Segment : Counted(Sent(t, m))
           /\ \A s \in State \ {"SYN_RECV"} : Counted([t EXCEPT !.state = s])
           /\ t.state = "SYN_RECV" => Counted(free_tcp_sock(Release(t)))
<1>1. t.ref_cnt \in Int
  BY DEF TcpSock
<1>2. Counted(tcp_bind_hash(t))
  BY <1>1 DEF Counted, References, tcp_bind_hash, TcpSock
<1>3. Counted(tcp_hash(t))
  BY <1>1 DEF Counted, References, tcp_hash, TcpSock
<1>4. Counted(tcp_set_timewait_timer(t))
  BY <1>1 DEF Counted, References, tcp_set_timewait_timer, TcpSock
<1>5. \A m \in Segment : Counted(Sent(t, m))
  BY <1>1 DEF Counted, References, Sent, TcpSock
<1>6. \A s \in State \ {"SYN_RECV"} : Counted([t EXCEPT !.state = s])
  BY <1>1 DEF Counted, References, TcpSock
<1>7. Release(t) \in TcpSock /\ Release(t).state = "CLOSED"
  BY ReleaseCloses
<1>8. Counted(Release(t))
  BY <1>1, <1>7, ReleaseCounts DEF Counted, References
<1>9. ASSUME t.state = "SYN_RECV" PROVE Counted(free_tcp_sock(Release(t)))
  <2> DEFINE u == Release(t)
  <2>1. u \in TcpSock /\ u.ref_cnt >= 0 /\ u.ref_cnt \in Int /\ ~u.hashed /\ ~u.bound /\ u.state = "CLOSED"
    BY <1>1, <1>7, <1>9, ReleaseCounts DEF Counted, References
  <2> HIDE DEF u
  <2>2. /\ free_tcp_sock(u).ref_cnt = u.ref_cnt - 1 /\ ~free_tcp_sock(u).hashed
        /\ ~free_tcp_sock(u).bound /\ free_tcp_sock(u).state = "CLOSED"
    BY <2>1, Helpers, GivenBack
  <2>3. Counted(free_tcp_sock(u))
    BY <2>1, <2>2 DEF Counted, References
  <2> QED BY <2>3 DEF u
<1> QED BY <1>2, <1>3, <1>4, <1>5, <1>6, <1>8, <1>9

LEMMA AckedCounts ==
    ASSUME Types, NEW e \in Sock, Counted(sock[e]), NEW m \in Segment
    PROVE  /\ Acked(e, m) \in TcpSock /\ Counted(Acked(e, m))
           /\ \A s \in State \ {"SYN_RECV"} :
                 /\ [Acked(e, m) EXCEPT !.state = s] \in TcpSock
                 /\ Counted([Acked(e, m) EXCEPT !.state = s])
<1>1. sock[e] \in TcpSock /\ seq_end(m) \in Nat /\ m.ack \in Nat
  BY SegmentTypes DEF Types, Segment
<1>2. Acked(e, m) \in TcpSock
  BY <1>1 DEF Acked, TcpSock
<1>3. Counted(Acked(e, m))
  BY <1>1 DEF Acked, TcpSock, Counted, References
<1> QED BY <1>2, <1>3, AckedType, CountedHelpers

LEMMA OneCounted ==
    ASSUME WInv, TInv, NEW t \in Sock, NEW u \in TcpSock, Counted(u),
           sock' = [sock EXCEPT ![t] = u]
    PROVE  \A s \in Sock : Counted(sock[s])'
<1>1. \A s \in Sock : sock'[s] = IF s = t THEN u ELSE sock[s]
  BY DEF WInv, Types
<1>2. ASSUME NEW s \in Sock PROVE Counted(sock'[s])
  BY <1>1 DEF TInv
<1> QED BY <1>2

(* The bounds on the numbers that are not in a sock.                       *)
LEMMA BoundedStays == WInv /\ TInv /\ [Next]_vars => Bounded'
<1> SUFFICES ASSUME WInv, TInv, [Next]_vars PROVE Bounded'
  OBVIOUS
<1>1. Bounded /\ accept_queue \in Seq(Children)
  BY DEF WInv, Types, TInv
<1>2. ASSUME UNCHANGED faults, accept_backlog' \in Int, seen' \in Nat PROVE Bounded'
  BY <1>1, <1>2 DEF Bounded, faults
<1>3. ASSUME UNCHANGED faults, UNCHANGED accepting PROVE Bounded'
  BY <1>1, <1>3 DEF Bounded, faults, accepting
<1>4. CASE \E e \in End : Receive(e)
  <2>1. PICK e \in End : Receive(e)
    BY <1>4
  <2>2. CASE RcvSynRecv(e)
    BY <1>1, <1>2, <2>2 DEF RcvSynRecv, tcp_sock_accept_enqueue, Bounded
  <2>3. CASE ~RcvSynRecv(e)
    BY <1>3, <2>1, <2>3 DEF Receive, NoSock, RcvListen, RcvSynRecvFull,
       RcvSynSent,
                RcvFinWait1, RcvEstablished, RcvLastAck, RcvRst, Ignore
  <2> QED BY <2>2, <2>3
<1>5. CASE \E c \in Client : Connect(c)
  BY <1>3, <1>5 DEF Connect, ConnectSend, ConnectHash, ConnectSleep,
     ConnectReturn
<1>6. CASE Accept
  <2>1. Len(accept_queue) \in Nat
    BY <1>1
  <2> QED BY <1>1, <1>2, <1>6, <2>1 DEF Accept, Listen, AcceptLook,
             AcceptSleep, AcceptWake,
                Dequeue, Unlink, accepting, Bounded
<1>7. CASE \E a \in App : Close(a)
  BY <1>3, <1>7 DEF Close, CloseSend, CloseSet, CloseNothing
<1>8. CASE Fault
  BY <1>1, <1>8, TcpAssumption DEF Fault, Lose, RestartClient, RestartServer,
     accepting, Bounded
<1>9. CASE UNCHANGED vars
  BY <1>1, <1>9 DEF vars, Bounded
<1> QED BY <1>4, <1>5, <1>6, <1>7, <1>8, <1>9 DEF Next, Work

(* The steps that change a sock: of the packet thread, of a client's       *)
(* thread, of the server's.                                                *)
LEMMA ReceiveCounted ==
    ASSUME WInv, TInv, NEW e \in End, Receive(e)
    PROVE  \A s \in Sock : Counted(sock[s])'
<1> DEFINE m == Head(wire[e])
           a == Acked(e, m)
<1>1. /\ Types /\ e \in Sock /\ sock[e] \in TcpSock /\ Counted(sock[e]) /\ e # Listener
      /\ Listener \in Sock
  BY Ends DEF WInv, Types, TInv
<1>2. ASSUME wire[e] # <<>>
      PROVE  /\ m \in Segment /\ a \in TcpSock /\ Counted(a)
             /\ \A s \in State \ {"SYN_RECV"} :
                   [a EXCEPT !.state = s] \in TcpSock /\ Counted([a EXCEPT !.state = s])
  BY <1>1, <1>2, Arrived, AckedCounts
<1>3. CASE NoSock(e)
  BY <1>3 DEF NoSock, TInv
<1>4. ASSUME NEW t \in Sock, RcvRst(e, t) \/ Ignore(e, t) PROVE \A s \in Sock : Counted(sock[s])'
  <2>1. sock[t] \in TcpSock /\ Counted(sock[t])
    BY <1>1 DEF Types, TInv
  <2>2. sock' = [sock EXCEPT ![t] = Release(sock[t])] \/ sock' = [sock EXCEPT ![t] = sock[t]]
    BY <1>4 DEF RcvRst, Ignore
  <2>3. Release(sock[t]) \in TcpSock /\ Counted(Release(sock[t]))
    BY <2>1, ReleaseCloses, CountedHelpers
  <2> QED BY <2>1, <2>2, <2>3, OneCounted
<1>5. CASE RcvListen(e)
  <2>1. PICK iss \in Iss :
          LET child == tcp_hash([alloc_tcp_sock EXCEPT
                           !.state = "SYN_RECV", !.snd_nxt = iss,
                           !.rcv_nxt = seq_end(Head(wire[e]))])
              reply == ControlPacket(child, {"SYN", "ACK"})
          IN /\ Expects(e, Listener, "LISTEN", {"SYN"})
             /\ sock' = [sock EXCEPT ![e] = Sent(child, reply), ![Listener].ref_cnt = @ + 1]
    BY <1>5 DEF RcvListen
  <2> DEFINE new == [alloc_tcp_sock EXCEPT !.state = "SYN_RECV", !.snd_nxt = iss,
                                           !.rcv_nxt = seq_end(m)]
             child == tcp_hash(new)
             reply == ControlPacket(child, {"SYN", "ACK"})
             parent == [sock[Listener] EXCEPT !.ref_cnt = sock[Listener].ref_cnt + 1]
  <2>2. wire[e] # <<>>
    BY <2>1 DEF Expects, Arrives
  <2>3. m \in Segment /\ seq_end(m) \in Nat /\ iss \in Nat
    BY <1>2, <2>2, SegmentTypes, TcpAssumption
  <2>4. new \in TcpSock /\ Counted(new)
    <3> DEFINE n == seq_end(m)
    <3>1. n \in Nat /\ iss \in Nat
      BY <2>3
    <3> HIDE DEF n
    <3>2. LET t == [alloc_tcp_sock EXCEPT !.state = "SYN_RECV", !.snd_nxt = iss, !.rcv_nxt = n]
          IN t \in TcpSock /\ t.ref_cnt = 0 /\ ~t.hashed /\ ~t.bound
      BY <3>1, NewChild DEF alloc_tcp_sock
    <3>3. new \in TcpSock /\ new.ref_cnt = 0 /\ ~new.hashed /\ ~new.bound
      BY <3>2 DEF n
    <3> HIDE DEF new
    <3> QED BY <3>3 DEF Counted, References
  <2> HIDE DEF new
  <2>5. child \in TcpSock /\ Counted(child)
    BY <2>4, Helpers, CountedHelpers
  <2> HIDE DEF child
  <2>6. Sent(child, reply) \in TcpSock /\ Counted(Sent(child, reply))
    BY <2>5, Packets, CountedHelpers
  <2> DEFINE u == Sent(child, reply)
  <2>7. sock' = [sock EXCEPT ![e] = u, ![Listener] = parent]
    BY <1>1, <2>1 DEF child, new
  <2> HIDE DEF reply, u
  <2>8. Counted(parent)
    <3>1. sock[Listener] \in TcpSock /\ Counted(sock[Listener])
      BY <1>1 DEF Types, TInv
    <3> QED BY <3>1 DEF Counted, References, TcpSock
  <2> HIDE DEF parent
  <2>9. \A s \in Sock : sock'[s] = IF s = Listener THEN parent ELSE IF s = e THEN u ELSE sock[s]
    BY <1>1, <2>7 DEF Types
  <2>10. ASSUME NEW s \in Sock PROVE Counted(sock'[s])
    BY <2>6, <2>8, <2>9 DEF TInv, u
  <2> QED BY <2>10
<1>6. CASE RcvSynRecv(e)
  <2>1. /\ wire[e] # <<>> /\ sock' = [sock EXCEPT ![e] = [a EXCEPT !.state = "ESTABLISHED"]]
        /\ "ESTABLISHED" \in State \ {"SYN_RECV"}
    BY <1>6 DEF RcvSynRecv, Expects, Arrives, State
  <2> QED BY <1>1, <1>2, <2>1, OneCounted
<1>7. CASE RcvSynRecvFull(e)
  <2>1. /\ wire[e] # <<>> /\ sock' = [sock EXCEPT ![e] = free_tcp_sock(Release(a))]
        /\ sock[e].state = "SYN_RECV"
    BY <1>7 DEF RcvSynRecvFull, Expects, Arrives
  <2>2. a \in TcpSock /\ Counted(a) /\ a.state = "SYN_RECV"
    <3>1. "CLOSED" \in State
      BY DEF State
    <3> QED BY <1>1, <1>2, <2>1, <3>1, AckedType
  <2> HIDE DEF a
  <2>3. free_tcp_sock(Release(a)) \in TcpSock /\ Counted(free_tcp_sock(Release(a)))
    BY <2>2, ReleaseCloses, Helpers, CountedHelpers
  <2> QED BY <1>1, <2>1, <2>3, OneCounted
<1>8. CASE RcvSynSent(e)
  <2>1. /\ wire[e] # <<>> /\ sock' = [sock EXCEPT ![e] = [a EXCEPT !.state = "ESTABLISHED"]]
        /\ "ESTABLISHED" \in State \ {"SYN_RECV"}
    BY <1>8 DEF RcvSynSent, Expects, Arrives, State
  <2> QED BY <1>1, <1>2, <2>1, OneCounted
<1>9. CASE RcvFinWait1(e)
  <2> DEFINE late == [a EXCEPT !.state = "TIME_WAIT"]
             half == [a EXCEPT !.state = "FIN_WAIT_2"]
  <2>1. /\ wire[e] # <<>> /\ "TIME_WAIT" \in State \ {"SYN_RECV"}
        /\ "FIN_WAIT_2" \in State \ {"SYN_RECV"}
        /\ \/ sock' = [sock EXCEPT ![e] = tcp_set_timewait_timer(late)]
           \/ sock' = [sock EXCEPT ![e] = half]
    BY <1>9 DEF RcvFinWait1, Arrives, State
  <2>2. late \in TcpSock /\ Counted(late) /\ half \in TcpSock /\ Counted(half)
    BY <1>2, <2>1
  <2> HIDE DEF late, half
  <2>3. tcp_set_timewait_timer(late) \in TcpSock /\ Counted(tcp_set_timewait_timer(late))
    BY <2>2, Helpers, CountedHelpers
  <2> QED BY <1>1, <2>1, <2>2, <2>3, OneCounted
<1>10. CASE RcvEstablished(e)
  <2> DEFINE fin == "FIN" \in m.flags
             una == IF "ACK" \in m.flags THEN m.ack ELSE sock[e].snd_una
             state == IF fin THEN "CLOSE_WAIT" ELSE sock[e].state
  <2>1. /\ wire[e] # <<>> /\ sock[e].state = "ESTABLISHED"
        /\ sock' = [sock EXCEPT ![e].rcv_nxt = seq_end(m), ![e].snd_una = una,
                                ![e].state = IF fin THEN "CLOSE_WAIT" ELSE @]
    BY <1>10 DEF RcvEstablished, Arrives
  <2>2. seq_end(m) \in Nat /\ una \in Nat /\ state \in State /\ state # "SYN_RECV"
    BY <1>1, <1>2, <2>1, SegmentTypes DEF TcpSock, State, Segment
  <2> DEFINE u == Got(sock[e], seq_end(m), una, state)
  <2>3. sock' = [sock EXCEPT ![e] = u]
    <3> HIDE DEF una, fin, m
    <3> QED BY <1>1, <2>1 DEF Types, Got
  <2> HIDE DEF una, state, m
  <2>4. u \in TcpSock /\ Counted(u)
    <3>1. u \in TcpSock /\ u.state = state
      BY <1>1, <2>2, TakenFields
    <3>2. u.ref_cnt = sock[e].ref_cnt /\ u.hashed = sock[e].hashed /\ u.bound = sock[e].bound
      BY <1>1 DEF Got, TcpSock
    <3> HIDE DEF u
    <3> QED BY <1>1, <2>2, <3>1, <3>2 DEF Counted, References
  <2> HIDE DEF u
  <2> QED BY <1>1, <2>3, <2>4, OneCounted
<1>11. CASE RcvLastAck(e)
  <2>1. wire[e] # <<>> /\ sock' = [sock EXCEPT ![e] = Release(a)]
    BY <1>11 DEF RcvLastAck, Expects, Arrives
  <2>2. Release(a) \in TcpSock /\ Counted(Release(a))
    BY <1>2, <2>1, ReleaseCloses, CountedHelpers
  <2> QED BY <1>1, <2>1, <2>2, OneCounted
<1> QED BY <1>3, <1>4, <1>5, <1>6, <1>7, <1>8, <1>9, <1>10, <1>11 DEF Receive

LEMMA ConnectCounted ==
    ASSUME WInv, TInv, NEW c \in Client, Connect(c)
    PROVE  \A s \in Sock : Counted(sock[s])'
<1>1. c \in Sock /\ sock[c] \in TcpSock /\ Counted(sock[c])
  BY Ends DEF WInv, Types, TInv
<1>2. CASE ConnectSend(c)
  <2> DEFINE t == tcp_bind_hash(sock[c])
             m == ControlPacket(t, {"SYN"})
  <2>1. sock' = [sock EXCEPT ![c] = Sent(t, m)]
    BY <1>2 DEF ConnectSend
  <2>2. t \in TcpSock /\ Counted(t)
    BY <1>1, Helpers, CountedHelpers
  <2> HIDE DEF t
  <2>3. m \in Segment /\ Sent(t, m) \in TcpSock /\ Counted(Sent(t, m))
    BY <2>2, Packets, CountedHelpers
  <2> HIDE DEF m
  <2> QED BY <1>1, <2>1, <2>3, OneCounted
<1>3. CASE ConnectHash(c)
  <2> DEFINE t == [sock[c] EXCEPT !.state = "SYN_SENT"]
  <2>1. sock' = [sock EXCEPT ![c] = tcp_hash(t)]
    BY <1>3 DEF ConnectHash
  <2>2. "SYN_SENT" \in State \ {"SYN_RECV"}
    BY DEF State
  <2>3. t \in TcpSock /\ Counted(t)
    <3>1. Counted(t)
      BY <1>1, <2>2, CountedHelpers
    <3> QED BY <1>1, <2>2, <3>1 DEF TcpSock
  <2> HIDE DEF t
  <2>4. tcp_hash(t) \in TcpSock /\ Counted(tcp_hash(t))
    BY <2>3, Helpers, CountedHelpers
  <2> QED BY <1>1, <2>1, <2>4, OneCounted
<1>4. CASE ConnectSleep(c) \/ ConnectReturn(c)
  BY <1>4 DEF ConnectSleep, ConnectReturn, TInv
<1> QED BY <1>2, <1>3, <1>4 DEF Connect

LEMMA AcceptCounted ==
    ASSUME WInv, TInv, Accept
    PROVE  \A s \in Sock : Counted(sock[s])'
<1>1. /\ Listener \in Sock /\ csk \in Sock /\ \A s \in Sock : sock[s] \in TcpSock /\ Counted(sock[s])
      /\ "LISTEN" \in State \ {"SYN_RECV"} /\ "ESTABLISHED" \in State \ {"SYN_RECV"}
  BY DEF WInv, Types, TInv, State, Sock, End
<1>2. CASE Listen
  <2> DEFINE t == tcp_bind_hash(sock[Listener])
             u == [t EXCEPT !.state = "LISTEN"]
  <2>1. sock' = [sock EXCEPT ![Listener] = tcp_hash(u)]
    BY <1>2 DEF Listen
  <2>2. t \in TcpSock /\ Counted(t)
    BY <1>1, Helpers, CountedHelpers
  <2> HIDE DEF t
  <2>3. u \in TcpSock /\ Counted(u)
    <3>1. Counted(u)
      BY <1>1, <2>2, CountedHelpers
    <3> QED BY <1>1, <2>2, <3>1 DEF TcpSock
  <2> HIDE DEF u
  <2>4. tcp_hash(u) \in TcpSock /\ Counted(tcp_hash(u))
    BY <2>3, Helpers, CountedHelpers
  <2> QED BY <1>1, <2>1, <2>4, OneCounted
<1>3. CASE Unlink
  <2> DEFINE u == [sock[csk] EXCEPT !.state = "ESTABLISHED"]
  <2>1. sock' = [sock EXCEPT ![csk] = tcp_hash(u)]
    BY <1>3 DEF Unlink
  <2>2. u \in TcpSock /\ Counted(u)
    <3>1. Counted(u)
      BY <1>1, CountedHelpers
    <3> QED BY <1>1, <3>1 DEF TcpSock
  <2> HIDE DEF u
  <2>3. tcp_hash(u) \in TcpSock /\ Counted(tcp_hash(u))
    BY <2>2, Helpers, CountedHelpers
  <2> QED BY <1>1, <2>1, <2>3, OneCounted
<1>4. CASE AcceptLook \/ AcceptSleep \/ AcceptWake \/ Dequeue
  BY <1>4 DEF AcceptLook, AcceptSleep, AcceptWake, Dequeue, TInv
<1> QED BY <1>2, <1>3, <1>4 DEF Accept

LEMMA CloseCounted ==
    ASSUME WInv, TInv, NEW a \in App, Close(a)
    PROVE  \A s \in Sock : Counted(sock[s])'
<1> DEFINE e == Held(a)
<1>1. e \in Sock /\ sock[e] \in TcpSock /\ Counted(sock[e])
  <2>1. e \in Sock
    BY Ends DEF WInv, Types, Held, App, Sock, End
  <2> QED BY <2>1 DEF WInv, Types, TInv
<1> HIDE DEF e
<1>2. CASE CloseSend(a)
  <2> DEFINE m == ControlPacket(sock[e], {"FIN", "ACK"})
  <2>1. sock' = [sock EXCEPT ![e] = Sent(sock[e], m)]
    BY <1>2 DEF CloseSend, e
  <2>2. m \in Segment
    BY <1>1, SegmentTypes
  <2>3. Sent(sock[e], m) \in TcpSock /\ Counted(Sent(sock[e], m))
    BY <1>1, <2>2, SegmentTypes, CountedHelpers
  <2> HIDE DEF m
  <2> QED BY <1>1, <2>1, <2>3, OneCounted
<1>3. CASE CloseSet(a)
  <2> DEFINE u == [sock[e] EXCEPT !.state = pc[a]]
  <2>1. pc[a] \in State /\ sock' = [sock EXCEPT ![e] = u]
    BY <1>1, <1>3 DEF CloseSet, e, WInv, Types
  <2>2. pc[a] \in State \ {"SYN_RECV"}
    BY <2>1 DEF WInv, Types, Labels
  <2>3. u \in TcpSock /\ Counted(u)
    <3>1. Counted(u)
      BY <1>1, <2>2, CountedHelpers
    <3> QED BY <1>1, <2>2, <3>1 DEF TcpSock
  <2> HIDE DEF u
  <2> QED BY <1>1, <2>1, <2>3, OneCounted
<1>4. CASE CloseNothing(a)
  BY <1>4 DEF CloseNothing, TInv
<1> QED BY <1>2, <1>3, <1>4 DEF Close

LEMMA NextTInv == WInv /\ TInv /\ [Next]_vars => TInv'
<1> SUFFICES ASSUME WInv, TInv, [Next]_vars PROVE TInv'
  OBVIOUS
<1>1. Bounded'
  BY BoundedStays
<1>2. CASE Work
  BY <1>1, <1>2, ReceiveCounted, ConnectCounted, AcceptCounted, CloseCounted
     DEF Work, TInv
<1>3. alloc_tcp_sock \in TcpSock /\ Counted(alloc_tcp_sock)
  <2>1. Counted(alloc_tcp_sock)
    BY DEF alloc_tcp_sock, Counted, References
  <2> QED BY <2>1, Fresh
<1>4. CASE \E e \in End : Lose(e)
  BY <1>1, <1>4 DEF Lose, TInv
<1>5. CASE \E c \in Client : RestartClient(c)
  <2>1. PICK c \in Client : sock' = [sock EXCEPT ![c] = alloc_tcp_sock]
    BY <1>5 DEF RestartClient
  <2> QED BY <1>1, <1>3, <2>1, Ends, OneCounted DEF TInv
<1>6. CASE RestartServer
  <2>1. \A s \in Sock : sock'[s] = IF s \in Client THEN sock[s] ELSE alloc_tcp_sock
    BY <1>6 DEF RestartServer
  <2>2. ASSUME NEW s \in Sock PROVE Counted(sock'[s])
    BY <1>3, <2>1 DEF TInv
  <2> QED BY <1>1, <2>2 DEF TInv
<1>7. CASE UNCHANGED vars
  BY <1>1, <1>7 DEF vars, TInv
<1> QED BY <1>2, <1>4, <1>5, <1>6, <1>7 DEF Next, Fault

LEMMA SpecTInv == Spec => [](WInv /\ TInv)
<1>1. Init => TInv
  <2> SUFFICES ASSUME Init PROVE TInv
    OBVIOUS
  <2>1. Bounded
    BY TcpAssumption DEF Init, Bounded
  <2>2. Counted(alloc_tcp_sock)
    BY DEF alloc_tcp_sock, Counted, References
  <2>3. \A s \in Sock : Counted(sock[s])
    BY <2>2 DEF Init
  <2> QED BY <2>1, <2>3 DEF TInv
<1>2. WInv /\ TInv /\ [Next]_vars => (WInv /\ TInv)'
  BY NextWInv, NextTInv
<1> QED BY <1>1, <1>2, InitWInv, PTL DEF Spec

(* Every variable has its type.                                            *)
THEOREM SpecTypes == Spec => []TypeOK
<1>1. WInv /\ TInv => TypeOK
  <2> SUFFICES ASSUME WInv, TInv PROVE TypeOK
    OBVIOUS
  <2>1. lost \in 0..MaxFaults /\ restarts \in 0..MaxFaults
    BY TcpAssumption DEF TInv, Bounded
  <2> QED BY <2>1 DEF WInv, Types, TInv, Bounded, TypeOK, Labels
<1> QED BY <1>1, SpecTInv, PTL

(* Whichever of the two threads gives a reference back, and whatever is    *)
(* lost or run again: the count of a sock is at most one below what the    *)
(* tables hold of it, and a child that is not accepted yet has a reference *)
(* for each.                                                               *)
THEOREM SpecCounted == Spec => [](\A s \in Sock : Counted(sock[s]))
<1>1. WInv /\ TInv => \A s \in Sock : Counted(sock[s])
  BY DEF TInv
<1> QED BY <1>1, SpecTInv, PTL
=============================================================================
