----------------------------- MODULE MCNioSelect -----------------------------
(***************************************************************************)
(* A small instance of NioSelect with two sockets: the second only reads,  *)
(* is the one with the greater descriptor, and its events are the ones     *)
(* that let the first one write.                                           *)
(***************************************************************************)
EXTENDS NioSelect

MCFiles == {0, 1}

PairNext ==
    \/ SelectLoop
    \/ SelectApplication(0)
    \/ SelectAddDir(1, READ) \/ SelectDelDir(1, READ) \/ SelectDisable(1)

PairSpec == SelectInit /\ [][PairNext]_selectVars /\ SelectFairness
=============================================================================
