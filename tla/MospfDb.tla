------------------------------ MODULE MospfDb ------------------------------
(***************************************************************************)
(* What flooding in mospf_daemon.c promises of the databases, without the  *)
(* messages that bring it about: a router learns of another only what that *)
(* router announced, and only in the order it was announced.  It may miss  *)
(* announcements, and it may forget.                                       *)
(***************************************************************************)
EXTENDS Integers

CONSTANTS
    Router,     \* router ids
    Update      \* the updates there can be, each with its router and number

VARIABLES
    said,   \* every update a router ever announced
    db      \* db[r]: what r holds of the others

Init ==
    /\ said = {}
    /\ db = [r \in Router |-> {}]

(* A router announces an update with a number above all its earlier ones.  *)
Announce(m) ==
    /\ \A e \in said : e.rid = m.rid => e.seq < m.seq
    /\ said' = said \cup {m}
    /\ UNCHANGED db

(* Router r replaces what it holds of m.rid by a later announcement.       *)
Learn(r, m) ==
    /\ m.rid # r
    /\ \A e \in db[r] : e.rid = m.rid => e.seq < m.seq
    /\ db' = [db EXCEPT ![r] = {e \in @ : e.rid # m.rid} \cup {m}]
    /\ UNCHANGED said

Forget(r, E) ==
    /\ db' = [db EXCEPT ![r] = @ \ E]
    /\ UNCHANGED said

Next ==
    \/ \E m \in Update : Announce(m)
    \/ \E r \in Router : \/ \E m \in said : Learn(r, m)
                         \/ \E E \in SUBSET db[r] : Forget(r, E)

Spec == Init /\ [][Next]_<<said, db>>
=============================================================================
