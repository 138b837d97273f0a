---------------------------- MODULE MospfTimely ----------------------------
(***************************************************************************)
(* Mospf under the timing the constants of mospf_proto.h are made for.     *)
(* Hellos come every 5 seconds, so a neighbour that runs never times out   *)
(* (16 seconds).  Updates come every 30 seconds and travel much faster, so *)
(* an update is read, or lost in a full buffer, before the next one of its *)
(* router is due.  An entry times out (40 seconds) only when its router's  *)
(* updates no longer refresh it, and then before the second of them.       *)
(***************************************************************************)
EXTENDS Mospf

LOCAL INSTANCE Graphs

CONSTANT MaxRestarts    \* bound: how often a router is started again

VARIABLE restarts

tvars == <<vars, restarts>>

(* Reach[q, r]: the routers that run can bring updates of q to r.          *)
Reach ==
    LET links == {c \in Channel : {c[1], c[2]} \subseteq on}
    IN ConnectionsIn([node |-> Router, edge |-> {<<c[1], c[2]>> : c \in links}])

Travelling(o) ==
    \/ \E t \in Thread : out[o][t] # {}
    \/ \E c \in Channel : \E i \in 1..Len(wire[c]) : wire[c][i].rid = o

LastSeq(o) == IF seq[o] = 0 THEN SeqLimit - 1 ELSE seq[o] - 1

(* No update refreshes e any more: its router has stopped or is out of     *)
(* reach, or counts from below e again, after a restart or a wrap.         *)
Unrefreshed(r, e) ==
    \/ ~Reach[e.rid, r] /\ ~Travelling(e.rid)
    \/ e.seq > LastSeq(e.rid)

TInit == Init /\ restarts = 0

THearHello(c) == HearHello(c) /\ UNCHANGED restarts

TReceive(c) == (Learn(c) \/ Ignore(c)) /\ UNCHANGED restarts

TCheckNbr(r) ==
    CheckNbr(r, {l \in nbrs[r] : l[1] \notin on}) /\ UNCHANGED restarts

TCheckDb_bug(r, o) ==  \* an ignored update counts as a refreshment
    CheckDb(r, {e \in db[r] : e.rid = o /\ ~Reach[o, r]}) /\ UNCHANGED restarts

TCheckDb(r, o) ==
    CheckDb(r, {e \in db[r] : e.rid = o /\ Unrefreshed(r, e)}) /\ UNCHANGED restarts

TLsuTimer(r) ==
    /\ ~Travelling(r)
    /\ \A q \in Router : \A e \in db[q] : e.rid = r => ~Unrefreshed(q, e)
    /\ LsuTimer(r) /\ UNCHANGED restarts

TBroadcast(r, t) == Broadcast(r, t) /\ UNCHANGED restarts

TCrash(r) == Crash(r) /\ UNCHANGED restarts

TRestart(r) ==
    /\ restarts < MaxRestarts /\ restarts' = restarts + 1
    /\ Restart(r)

TNext ==
    \/ \E c \in Channel : THearHello(c) \/ TReceive(c)
    \/ \E r \in Router :
          \/ TCheckNbr(r) \/ TLsuTimer(r) \/ TCrash(r) \/ TRestart(r)
          \/ \E o \in Router : TCheckDb(r, o)
          \/ \E t \in Thread : TBroadcast(r, t)

(* Every thread of a router that runs keeps running.                       *)
TSpec ==
    /\ TInit /\ [][TNext]_tvars
    /\ \A c \in Router \X Router \X Net :
         c \in Channel => WF_tvars(THearHello(c)) /\ WF_tvars(TReceive(c))
    /\ \A r \in Router : /\ WF_tvars(TCheckNbr(r)) /\ WF_tvars(TLsuTimer(r))
                         /\ \A o \in Router : WF_tvars(TCheckDb(r, o))
                         /\ \A t \in Thread : WF_tvars(TBroadcast(r, t))
-----------------------------------------------------------------------------
(* The links o has, and what r should hold of it.                          *)
Links(o) == {<<c[2], c[3]>> : c \in {d \in Channel : d[1] = o /\ d[2] \in on}}

Accurate(r, o) ==
    {e.links : e \in {f \in db[r] : f.rid = o}} =
        IF o \in on \ {r} /\ Reach[o, r] THEN {Links(o)} ELSE {}

(* 07-mospf.md: the routers build a consistent link state database.  After *)
(* a stop, a start or a wrap of the numbers every router comes to hold the *)
(* present links of every router it can reach and nothing of the others.   *)
DatabasesAgree ==
    \A r, o \in Router : []<>(r \in on => Accurate(r, o))
=============================================================================
