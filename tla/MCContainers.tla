----------------------------- MODULE MCContainers ----------------------------
(***************************************************************************)
(* One container per behaviour: two rings with three entries, a hash table *)
(* that grows twice with four keys, or an array of three objects whose     *)
(* capacity grows by two.                                                  *)
(***************************************************************************)
EXTENDS NioRing, NioHtable, NioArray, TLC

CONSTANTS k1, k2, k3, k4

MCHash == k1 :> 0 @@ k2 :> 3 @@ k3 :> 4 @@ k4 :> 10

VARIABLE kind   (* the container this behaviour is about *)

MCInit ==
    kind \in {"ring", "htable", "array"} /\ RingInit /\ HtableInit /\ ArrayInit

MCNext ==
    /\ UNCHANGED kind
    /\ \/ kind = "ring" /\ RingNext /\ UNCHANGED <<htableVars, arrayVars>>
       \/ kind = "htable" /\ HtableNext /\ UNCHANGED <<ringVars, arrayVars>>
       \/ kind = "array" /\ ArrayNext /\ UNCHANGED <<ringVars, htableVars>>

MCSpec == MCInit /\ [][MCNext]_<<kind, ringVars, htableVars, arrayVars>>
=============================================================================
