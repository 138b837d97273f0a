---------------------------- MODULE MospfHistory ----------------------------
(***************************************************************************)
(* Mospf with a record of all the updates that were announced, which no    *)
(* action reads, while the numbers of the running routers only count up: a *)
(* router that stops stays stopped and no number wraps.                    *)
(***************************************************************************)
EXTENDS Mospf, FiniteSets

CONSTANT MaxSaid    \* bound: how many updates are announced in a run

VARIABLE said   \* every update a router ever announced

hvars == <<vars, said>>

HInit == Init /\ said = {}

(* The update a step numbers.                                              *)
Announced ==
    {[rid |-> r, seq |-> seq[r], links |-> nbrs'[r]] :
        r \in {q \in on' : seq'[q] # seq[q]}}

HNext ==
    /\ Next
    /\ on' \subseteq on
    /\ \A r \in on' : seq'[r] >= seq[r]
    /\ said' = said \cup Announced
    /\ Cardinality(said') <= MaxSaid

HSpec == HInit /\ [][HNext]_hvars
-----------------------------------------------------------------------------
Db == INSTANCE MospfDb WITH Update <- Lsu

(* 07-mospf.md: an update is taken if nothing is held of its router or its *)
(* number is higher.  Whatever is lost, delayed by an overtaking thread or *)
(* arrives on several ways, a router holds only updates their routers made *)
(* and, unless it forgets, never goes back to an earlier one.              *)
ImplementsDb == Db!Spec
=============================================================================
