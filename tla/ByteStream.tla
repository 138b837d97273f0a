----------------------------- MODULE ByteStream -----------------------------
(***************************************************************************)
(* What a TCP connection promises to the applications at its ends, for one *)
(* direction: the bytes written come in order, each once, and are read in  *)
(* the order in which they came.                                           *)
(***************************************************************************)
EXTENDS Sequences, SequencesExt

CONSTANT Data  \* what is written

VARIABLES
    received,  \* what has come to the receiver's end
    delivered  \* what its application has read

StreamInit == received = <<>> /\ delivered = <<>>

Extends(s, t, whole) == IsStrictPrefix(s, t) /\ IsPrefix(t, whole)

Come == Extends(received, received', Data) /\ UNCHANGED delivered

Read == Extends(delivered, delivered', received) /\ UNCHANGED received

StreamSpec == StreamInit /\ [][Come \/ Read]_<<received, delivered>>
=============================================================================
