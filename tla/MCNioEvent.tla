----------------------------- MODULE MCNioEvent -----------------------------
(***************************************************************************)
(* Small instances of NioEvent: two sockets that fit and, to reach the     *)
(* refusals, a regular file and a descriptor beyond the set size.          *)
(***************************************************************************)
EXTENDS NioEvent

MCFiles == 0..3
MCSockets == {0, 1, 3}
MCSetSize == 3
=============================================================================
