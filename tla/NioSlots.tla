------------------------------ MODULE NioSlots ------------------------------
(***************************************************************************)
(* The array of files kept by the poll and the select backend              *)
(* (ep->files with ep->pfds, es->files), and the index fe->id each file    *)
(* keeps into it.  A file that is taken out is replaced by the last one.   *)
(*                                                                         *)
(* The array is a sequence of entries with the field file; its length is   *)
(* the backend's count.  id[f] is fe->id + 1, so 0 is the code's -1.       *)
(***************************************************************************)
EXTENDS Integers, Sequences

NoSlot == 0

\* The entry e at the end.
Placed(q, e) == Append(q, e)

PlacedId(q, id, e) == [id EXCEPT ![e.file] = Len(q) + 1]

\* The last entry moves into the slot i.
Taken(q, i) == SubSeq([q EXCEPT ![i] = q[Len(q)]], 1, Len(q) - 1)

\* Slip: the entry that moves keeps its old index.
TakenIdStale(q, id, f) == [id EXCEPT ![f] = NoSlot]

TakenId(q, id, f) == [id EXCEPT ![q[Len(q)].file] = id[f], ![f] = NoSlot]

\* Every index leads to its own file, and every entry is its file's.
SlotsExact(q, id) ==
    /\ \A f \in DOMAIN id :
          id[f] # NoSlot => id[f] \in DOMAIN q /\ q[id[f]].file = f
    /\ \A i \in DOMAIN q : q[i].file \in DOMAIN id /\ id[q[i].file] = i
=============================================================================
