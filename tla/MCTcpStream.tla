---------------------------- MODULE MCTcpStream ----------------------------
(* Three pieces, the last of them shorter.                                 *)
EXTENDS TcpStream

MCData == <<1, 2, 3, 4, 5>>

MCByte == 1..5
=============================================================================
