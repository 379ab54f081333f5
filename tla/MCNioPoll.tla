------------------------------ MODULE MCNioPoll ------------------------------
(***************************************************************************)
(* Small instances of NioPoll with two sockets: one gives up its slot and  *)
(* the other moves into it while the array is walked through.              *)
(***************************************************************************)
EXTENDS NioPoll

MCFiles == {0, 1}

\* The second file only reads.
PairNext ==
    \/ PollLoop
    \/ PollApplication(0)
    \/ PollAddDir(1, READ) \/ PollDelDir(1, READ) \/ PollDisable(1)

PairSpec == PollInit /\ [][PairNext]_pollVars /\ PollFairness
=============================================================================
