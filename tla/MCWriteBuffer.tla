---------------------------- MODULE MCWriteBuffer ----------------------------
(***************************************************************************)
(* Small instances of WriteBuffer: writes of up to three bytes, so that    *)
(* the socket takes all, some or the first of them, and enough of them for *)
(* data to be given behind what a partial flush left.                      *)
(***************************************************************************)
EXTENDS WriteBuffer
=============================================================================
