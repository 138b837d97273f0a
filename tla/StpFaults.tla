----------------------------- MODULE StpFaults -----------------------------
(***************************************************************************)
(* Stp with switches that stop and are started again.  The program keeps   *)
(* nothing on disk: a started switch runs stp_init, while its neighbours   *)
(* still hold what it told them before.                                    *)
(***************************************************************************)
EXTENDS Stp

CONSTANT MaxRestarts    \* bound: how many times a switch is started again

ASSUME RestartsAssumption == MaxRestarts \in Nat

VARIABLES
    up,         \* the switches whose process runs
    restarts    \* starts after the first, counted to bound them

fvars == <<vars, up, restarts>>

FInit == Init /\ up = Switch /\ restarts = 0

(* The process of s ends: it reads and sends nothing any more.             *)
Crash(s) ==
    /\ s \in up
    /\ up' = up \ {s}
    /\ UNCHANGED <<vars, restarts>>

(* main of s runs again: init_ustack opens new sockets, stp_init forgets.  *)
Restart(s) ==
    /\ s \notin up
    /\ restarts < MaxRestarts
    /\ up' = up \cup {s}
    /\ restarts' = restarts + 1
    /\ root' = [root EXCEPT ![s] = s]
    /\ cost' = [cost EXCEPT ![s] = 0]
    /\ rootPort' = [rootPort EXCEPT ![s] = NoPort]
    /\ hello' = [hello EXCEPT ![s] = TRUE]
    /\ held' = [p \in Port |-> IF p \in PortsOf(s) THEN ConfigOf(s, 0, p) ELSE held[p]]
    /\ wire' = [w \in Wire |-> IF w[2] \in PortsOf(s) THEN <<>> ELSE wire[w]]

FReceive(w) ==
    /\ Owner[w[2]] \in up
    /\ AcceptConfig(w) \/ ReplyConfig(w)
    /\ UNCHANGED <<up, restarts>>

FHello(s) ==
    /\ s \in up
    /\ HelloTimeout(s)
    /\ UNCHANGED <<up, restarts>>

FNext ==
    \/ \E w \in Wire : FReceive(w)
    \/ \E s \in Switch : FHello(s) \/ Crash(s) \/ Restart(s)

(* A switch that is up keeps reading its sockets and running its timer.    *)
FSpec ==
    /\ FInit /\ [][FNext]_fvars
    /\ \A w \in Port \X Port : w \in Wire => WF_fvars(FReceive(w))
    /\ \A s \in Switch : WF_fvars(FHello(s))
-----------------------------------------------------------------------------
FTypeOK == TypeOK /\ up \subseteq Switch /\ restarts \in 0..MaxRestarts

Parent(s) == held[rootPort[s]].switch

(* Two switches, each behind the other's root port.                        *)
ParentLoop ==
    \E s, t \in Switch :
        /\ rootPort[s] # NoPort /\ rootPort[t] # NoPort
        /\ Parent(s) = t /\ Parent(t) = s

(* A started switch may believe its old child, since stp_handle_config_    *)
(* packet answers from root ports too; the root's next hello undoes that,  *)
(* as long as every switch stays up from some point on.                    *)
LoopsAreTransient ==
    <>[](up = Switch) => []<>~ParentLoop

(* A started root takes part again: if all switches stay up, all agree.    *)
RootElectedAgain == <>[](up = Switch) => Agreement
=============================================================================
