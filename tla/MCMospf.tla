------------------------------ MODULE MCMospf ------------------------------
(* Two routers on a cable for MospfTimely.                                 *)
EXTENDS MospfTimely

PairAttached == [n \in Net |-> Router]
=============================================================================
