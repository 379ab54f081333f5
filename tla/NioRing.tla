------------------------------- MODULE NioRing -------------------------------
(***************************************************************************)
(* The doubly linked ring, c/src/common/nio_ring.c and nio_ring.h: what    *)
(* ev->events is made of.  A node is the head of a ring or an entry; an    *)
(* entry that is in no ring points to itself.  nio_event.c tells by        *)
(* me.parent whether a file is in the list.                                *)
(*                                                                         *)
(* The functions, the inline forms of USE_FAST_NIO_RING and the macros     *)
(* NIO_RING_APPEND and NIO_RING_PREPEND are the same code.  The macro      *)
(* NIO_RING_DETACH is not: it leaves the entry with NULL links and the     *)
(* parent it had.                                                          *)
(***************************************************************************)
EXTENDS Integers, SequencesExt

CONSTANTS Heads, Entries,
          NoNode   (* the pointer NULL *)

ASSUME RingAssumption ==
    Heads \cap Entries = {} /\ NoNode \notin Heads \cup Entries

Nodes == Heads \cup Entries

VARIABLES succ, pred, parent, len,   (* the fields of each node            *)
          rings                      (* history: what was put into each    *)

ringVars == <<succ, pred, parent, len, rings>>

\* nio_ring_init for every node, which is also what nio_file_alloc and
\* nio_event_create do to theirs.
RingInit ==
    /\ succ = [n \in Nodes |-> n]
    /\ pred = [n \in Nodes |-> n]
    /\ parent = [n \in Nodes |-> n]
    /\ len = [n \in Nodes |-> 0]
    /\ rings = [h \in Heads |-> <<>>]

\* An entry is added while it is in no ring, next to a head or to an entry of
\* a ring.
Linked(n) == n \in Heads \/ \E h \in Heads : n \in Range(rings[h])
Free(e) == e \in Entries /\ ~Linked(e)

HeadOf(n) == IF n \in Heads THEN n ELSE CHOOSE h \in Heads : n \in Range(rings[h])

\* The place of the node in the ring, 0 for the head.
Place(n) == IF n \in Heads THEN 0
            ELSE CHOOSE i \in DOMAIN rings[HeadOf(n)] : rings[HeadOf(n)][i] = n

\* Slip: the successor is not told of its new neighbour.
RingAppendOneWay(r, e) ==
    /\ Free(e) /\ Linked(r)
    /\ succ' = [succ EXCEPT ![e] = succ[r], ![r] = e]
    /\ pred' = [pred EXCEPT ![e] = r]
    /\ parent' = [parent EXCEPT ![e] = parent[r]]
    /\ len' = [len EXCEPT ![parent[r]] = @ + 1]
    /\ rings' = [rings EXCEPT ![HeadOf(r)] = InsertAt(@, Place(r) + 1, e)]

\* nio_ring_append: behind r.
RingAppend(r, e) ==
    /\ Free(e) /\ Linked(r)
    /\ succ' = [succ EXCEPT ![e] = succ[r], ![r] = e]
    /\ pred' = [pred EXCEPT ![e] = r, ![succ[r]] = e]
    /\ parent' = [parent EXCEPT ![e] = parent[r]]
    /\ len' = [len EXCEPT ![parent[r]] = @ + 1]
    /\ rings' = [rings EXCEPT ![HeadOf(r)] = InsertAt(@, Place(r) + 1, e)]

\* nio_ring_prepend: before r, which for a head is the end of the ring.
RingPrepend(r, e) ==
    /\ Free(e) /\ Linked(r)
    /\ pred' = [pred EXCEPT ![e] = pred[r], ![r] = e]
    /\ succ' = [succ EXCEPT ![e] = r, ![pred[r]] = e]
    /\ parent' = [parent EXCEPT ![e] = parent[r]]
    /\ len' = [len EXCEPT ![parent[r]] = @ + 1]
    /\ rings' = [rings EXCEPT ![HeadOf(r)] =
                    InsertAt(@, IF r \in Heads THEN Len(@) + 1 ELSE Place(r), e)]

Without(e) ==
    IF Linked(e) /\ e \notin Heads
    THEN [rings EXCEPT ![HeadOf(e)] = RemoveAt(@, Place(e))]
    ELSE rings

\* nio_ring_detach, of any node: nothing for one that is its own parent or has
\* no links.
RingDetach(e) ==
    /\ IF parent[e] # e /\ succ[e] # NoNode /\ pred[e] # NoNode
       THEN /\ succ' = [succ EXCEPT ![pred[e]] = succ[e], ![e] = e]
            /\ pred' = [pred EXCEPT ![succ[e]] = pred[e], ![e] = e]
            /\ len' = [len EXCEPT ![parent[e]] = @ - 1, ![e] = 0]
            /\ parent' = [parent EXCEPT ![e] = e]
       ELSE UNCHANGED <<succ, pred, parent, len>>
    /\ rings' = Without(e)

\* NIO_RING_DETACH, of an entry of a ring or one it was used on before.
RingDetachMacro(e) ==
    /\ Linked(e) \/ succ[e] = NoNode
    /\ IF succ[e] # NoNode /\ pred[e] # NoNode
       THEN /\ succ' = [succ EXCEPT ![pred[e]] = succ[e], ![e] = NoNode]
            /\ pred' = [pred EXCEPT ![succ[e]] = pred[e], ![e] = NoNode]
            /\ len' = [len EXCEPT ![parent[e]] = @ - 1]
       ELSE UNCHANGED <<succ, pred, len>>
    /\ UNCHANGED parent
    /\ rings' = Without(e)

\* nio_ring_first and nio_ring_last.
RingFirst(h) == IF succ[h] # h THEN succ[h] ELSE NoNode
RingLast(h) == IF pred[h] # h THEN pred[h] ELSE NoNode

\* nio_ring_pop_head and nio_ring_pop_tail.
RingPop(h) ==
    \E e \in {RingFirst(h), RingLast(h)} \ {NoNode} : RingDetach(e)

\* nio_ring_foreach and nio_ring_foreach_reverse: the nodes that the loop comes
\* to, as long as its body changes nothing.
Cursor(next, h) ==
    LET at[i \in 0..Len(rings[h]) + 1] == IF i = 0 THEN h ELSE next[at[i - 1]]
    IN  at
Walk(next, h) == [i \in 1..Len(rings[h]) + 1 |-> Cursor(next, h)[i]]

RingNext ==
    \/ \E r \in Nodes, e \in Entries : RingAppend(r, e) \/ RingPrepend(r, e)
    \/ \E e \in Nodes : RingDetach(e)
    \/ \E e \in Entries : RingDetachMacro(e)
    \/ \E h \in Heads : RingPop(h)

RingSpec == RingInit /\ [][RingNext]_ringVars

\* Whatever entries are put before and behind others, taken out from anywhere,
\* moved between rings and taken out twice: a loop in either direction comes to
\* exactly the entries of its ring, in order, and ends at the head; the length
\* is theirs; and an entry is in the ring its parent names, or in none.
RingIsItsList ==
    /\ \A h \in Heads :
          /\ Walk(succ, h) = Append(rings[h], h)
          /\ Walk(pred, h) = Append(Reverse(rings[h]), h)
          /\ len[h] = Len(rings[h])
          /\ parent[h] = h
          /\ RingFirst(h) = IF rings[h] = <<>> THEN NoNode ELSE rings[h][1]
    /\ \A e \in Entries :
          IF Linked(e) THEN parent[e] = HeadOf(e)
          ELSE (parent[e] = e /\ succ[e] = e) \/ succ[e] = NoNode
=============================================================================
