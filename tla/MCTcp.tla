------------------------------- MODULE MCTcp -------------------------------
(* Two clients of one server.                                              *)
EXTENDS Tcp

CONSTANTS c1, c2, listener

MCClient == {c1, c2}
=============================================================================
