----------------------------- MODULE MCNioTimer -----------------------------
(***************************************************************************)
(* Small instances of NioTimer: two nanoseconds to the millisecond, so   *)
(* that the counter wraps and two timers get the same key, and an int that *)
(* just holds WaitCap milliseconds, so that longer delays wrap to both     *)
(* signs.                                                                  *)
(***************************************************************************)
EXTENDS NioTimer

MCWaits == {-1, 0, 2}
=============================================================================
