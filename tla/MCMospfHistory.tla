--------------------------- MODULE MCMospfHistory ---------------------------
(* Three routers on one network for MospfHistory: an update comes straight *)
(* from its router and by way of the third.                                *)
EXTENDS MospfHistory, TLC

CONSTANTS r1, r2, r3, a  \* model values

LanAttached == [n \in {a} |-> Router]

LanSymmetry == Permutations(Router)
=============================================================================
