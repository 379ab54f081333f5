----------------------------- MODULE MCNioEpoll -----------------------------
(***************************************************************************)
(* Small instances of NioEpoll with two sockets: two are needed for one    *)
(* file's callback to change another file that is later in the batch.      *)
(***************************************************************************)
EXTENDS NioEpoll

MCFiles == {0, 1}

\* The second file only reads: it is there to be refused by the kernel, and to
\* compete with the first for the loop's attention.
PairNext == Loop \/ Application(0) \/ AddRead(1) \/ DelRead(1) \/ EpollDisable(1)

PairSpec == EpollInit /\ [][PairNext]_epollVars /\ EpollFairness
=============================================================================
