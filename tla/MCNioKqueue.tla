----------------------------- MODULE MCNioKqueue -----------------------------
(***************************************************************************)
(* A small instance of NioKqueue: two sockets and a list of two changes,   *)
(* which the calls before one wait can fill.  The second socket may be     *)
(* refused by the system; it only reads, and is registered and given up    *)
(* between two waits.  The ONESHOT mode, in which fdcount grows without    *)
(* bound, is left out: to this backend it only repeats additions.          *)
(***************************************************************************)
EXTENDS NioKqueue

MCFiles == {0, 1}

PairNext ==
    \/ KqueueLoop
    \/ KqueueApplication(0)
    \/ stage = "app" /\ (KqueueAddDir(1, READ) \/ KqueueDelDir(1, READ) \/ KqueueDisable(1))

PairInit == KqueueInit /\ ~Oneshot

PairSpec == PairInit /\ [][PairNext]_kqueueVars /\ KqueueFairness
=============================================================================
