--------------------------- MODULE ContainerProofs ---------------------------
(***************************************************************************)
(* Proofs about the containers of c/src/common.  The ring of ev->events is *)
(* the list of what was put into it, in both directions.  An array is the  *)
(* list of what was added, inserted and removed.  A hash table is a map,   *)
(* through every growth, and a walk over it comes to each entry once.      *)
(*                                                                         *)
(* What recursion defines (an array's shifts, a table that is regrown) is  *)
(* a function over an interval: that it exists, and what it yields, is     *)
(* shown by the least length at which it would not (lemma Least).          *)
(***************************************************************************)
EXTENDS NioRing, NioArray, NioHtable,
        WellFoundedInduction, SequenceTheorems, FiniteSetTheorems, TLAPS

\* A set of natural numbers has a least element.
LEMMA Least ==
    ASSUME NEW T \in SUBSET Nat, T # {}
    PROVE  \E n \in T : \A m \in T : n <= m
<1> DEFINE R == OpToRel(<, Nat)
<1>1. IsWellFoundedOn(R, Nat)
  BY NatLessThanWellFounded
<1>2. \A m, n \in Nat : m < n => <<m, n>> \in R
  BY DEF OpToRel
<1>. HIDE DEF R
<1>3. PICK n \in T : \A m \in T : ~ (<<m, n>> \in R)
  BY <1>1, WFMin
<1>4. \A m \in T : m \in Nat /\ n \in Nat /\ ~ (m < n)
  BY <1>2, <1>3
<1>. QED
  BY <1>4

\* A sequence with an element put in, and with one taken out.
LEMMA InsertedIs ==
    ASSUME NEW S, NEW q \in Seq(S), NEW p \in 1..(Len(q) + 1), NEW e \in S
    PROVE  /\ InsertAt(q, p, e) \in Seq(S)
           /\ Len(InsertAt(q, p, e)) = Len(q) + 1
           /\ \A i \in 1..(Len(q) + 1) :
                 InsertAt(q, p, e)[i] = IF i < p THEN q[i]
                                        ELSE IF i = p THEN e ELSE q[i - 1]
<1>0. Len(q) \in Nat /\ \A i \in 1..Len(q) : q[i] \in S
  BY LenProperties, ElementOfSeq
<1> DEFINE a == SubSeq(q, 1, p - 1)
           b == SubSeq(q, p, Len(q))
<1>1. a \in Seq(S) /\ Len(a) = p - 1 /\ \A i \in 1..(p - 1) : a[i] = q[i]
  <2>1. 1 \in Int /\ p - 1 \in Int /\ \A i \in 1..(p - 1) : q[i] \in S
    BY <1>0
  <2>2. /\ SubSeq(q, 1, p - 1) \in Seq(S)
        /\ Len(SubSeq(q, 1, p - 1)) = IF 1 <= p - 1 THEN p - 1 - 1 + 1 ELSE 0
        /\ \A i \in 1..(p - 1 - 1 + 1) : SubSeq(q, 1, p - 1)[i] = q[1 + i - 1]
    BY <2>1, SubSeqProperties
  <2>. QED
    BY <2>2, <1>0
<1>2. b \in Seq(S) /\ Len(b) = Len(q) - p + 1 /\ \A i \in 1..(Len(q) - p + 1) : b[i] = q[p + i - 1]
  <2>1. p \in Int /\ Len(q) \in Int /\ \A i \in p..Len(q) : q[i] \in S
    BY <1>0
  <2>2. /\ SubSeq(q, p, Len(q)) \in Seq(S)
        /\ Len(SubSeq(q, p, Len(q))) = IF p <= Len(q) THEN Len(q) - p + 1 ELSE 0
        /\ \A i \in 1..(Len(q) - p + 1) : SubSeq(q, p, Len(q))[i] = q[p + i - 1]
    BY <2>1, SubSeqProperties
  <2>. QED
    BY <2>2, <1>0
<1> HIDE DEF a, b
<1>3. <<e>> \in Seq(S) /\ Len(<<e>>) = 1 /\ <<e>>[1] = e
  OBVIOUS
<1>4. /\ a \o <<e>> \in Seq(S) /\ Len(a \o <<e>>) = p
      /\ \A i \in 1..p : (a \o <<e>>)[i] = IF i < p THEN q[i] ELSE e
  <2>1. /\ a \o <<e>> \in Seq(S)
        /\ Len(a \o <<e>>) = Len(a) + Len(<<e>>)
        /\ \A i \in 1..(Len(a) + Len(<<e>>)) :
              (a \o <<e>>)[i] = IF i <= Len(a) THEN a[i] ELSE <<e>>[i - Len(a)]
    BY <1>1, <1>3, ConcatProperties
  <2>. QED
    BY <2>1, <1>0, <1>1, <1>3
<1> DEFINE c == a \o <<e>>
<1> HIDE DEF c
<1>5. /\ c \o b \in Seq(S)
      /\ Len(c \o b) = Len(c) + Len(b)
      /\ \A i \in 1..(Len(c) + Len(b)) :
            (c \o b)[i] = IF i <= Len(c) THEN c[i] ELSE b[i - Len(c)]
  <2>1. c \in Seq(S)
    BY <1>4 DEF c
  <2>. QED
    BY <1>2, <2>1, ConcatProperties
<1>6. InsertAt(q, p, e) = c \o b
  BY DEF InsertAt, a, b, c
<1>7. c \in Seq(S) /\ Len(c) = p /\ \A i \in 1..p : c[i] = IF i < p THEN q[i] ELSE e
  BY <1>4 DEF c
<1>8. ASSUME NEW i \in 1..(Len(q) + 1)
      PROVE  (c \o b)[i] = IF i < p THEN q[i] ELSE IF i = p THEN e ELSE q[i - 1]
  <2>1. CASE i <= p
    BY <2>1, <1>0, <1>2, <1>5, <1>7
  <2>2. CASE i > p
    <3>1. i - p \in 1..(Len(q) - p + 1)
      BY <2>2, <1>0
    <3>2. (c \o b)[i] = b[i - p]
      BY <2>2, <1>0, <1>2, <1>5, <1>7
    <3>3. b[i - p] = q[p + (i - p) - 1] /\ p + (i - p) - 1 = i - 1
      BY <3>1, <1>0, <1>2
    <3>. QED
      BY <3>2, <3>3, <2>2
  <2>3. i <= p \/ i > p
    BY <1>0
  <2>. QED
    BY <2>1, <2>2, <2>3
<1>. QED
  BY <1>0, <1>2, <1>5, <1>6, <1>7, <1>8

LEMMA RemovedIs ==
    ASSUME NEW S, NEW q \in Seq(S), NEW p \in 1..Len(q)
    PROVE  /\ RemoveAt(q, p) \in Seq(S)
           /\ Len(RemoveAt(q, p)) = Len(q) - 1
           /\ \A i \in 1..(Len(q) - 1) :
                 RemoveAt(q, p)[i] = IF i < p THEN q[i] ELSE q[i + 1]
<1>0. Len(q) \in Nat /\ \A i \in 1..Len(q) : q[i] \in S
  BY LenProperties, ElementOfSeq
<1> DEFINE a == SubSeq(q, 1, p - 1)
           b == SubSeq(q, p + 1, Len(q))
<1>1. a \in Seq(S) /\ Len(a) = p - 1 /\ \A i \in 1..(p - 1) : a[i] = q[i]
  <2>1. 1 \in Int /\ p - 1 \in Int /\ \A i \in 1..(p - 1) : q[i] \in S
    BY <1>0
  <2>2. /\ SubSeq(q, 1, p - 1) \in Seq(S)
        /\ Len(SubSeq(q, 1, p - 1)) = IF 1 <= p - 1 THEN p - 1 - 1 + 1 ELSE 0
        /\ \A i \in 1..(p - 1 - 1 + 1) : SubSeq(q, 1, p - 1)[i] = q[1 + i - 1]
    BY <2>1, SubSeqProperties
  <2>. QED
    BY <2>2, <1>0
<1>2. b \in Seq(S) /\ Len(b) = Len(q) - p /\ \A i \in 1..(Len(q) - p) : b[i] = q[p + i]
  <2>1. p + 1 \in Int /\ Len(q) \in Int /\ \A i \in (p + 1)..Len(q) : q[i] \in S
    BY <1>0
  <2>2. /\ SubSeq(q, p + 1, Len(q)) \in Seq(S)
        /\ Len(SubSeq(q, p + 1, Len(q))) = IF p + 1 <= Len(q) THEN Len(q) - (p + 1) + 1 ELSE 0
        /\ \A i \in 1..(Len(q) - (p + 1) + 1) :
              SubSeq(q, p + 1, Len(q))[i] = q[p + 1 + i - 1]
    BY <2>1, SubSeqProperties
  <2>. QED
    BY <2>2, <1>0
<1> HIDE DEF a, b
<1>3. /\ a \o b \in Seq(S)
      /\ Len(a \o b) = Len(a) + Len(b)
      /\ \A i \in 1..(Len(a) + Len(b)) :
            (a \o b)[i] = IF i <= Len(a) THEN a[i] ELSE b[i - Len(a)]
  BY <1>1, <1>2, ConcatProperties
<1>4. RemoveAt(q, p) = a \o b
  BY DEF RemoveAt, a, b
<1>5. ASSUME NEW i \in 1..(Len(q) - 1)
      PROVE  (a \o b)[i] = IF i < p THEN q[i] ELSE q[i + 1]
  <2>1. CASE i < p
    BY <2>1, <1>0, <1>1, <1>2, <1>3
  <2>2. CASE i >= p
    <3>1. i - (p - 1) \in 1..(Len(q) - p)
      BY <2>2, <1>0
    <3>2. (a \o b)[i] = b[i - (p - 1)]
      BY <2>2, <1>0, <1>1, <1>2, <1>3
    <3>3. b[i - (p - 1)] = q[p + (i - (p - 1))] /\ p + (i - (p - 1)) = i + 1
      BY <3>1, <1>0, <1>2
    <3>. QED
      BY <3>2, <3>3, <2>2
  <2>3. i < p \/ i >= p
    BY <1>0
  <2>. QED
    BY <2>1, <2>2, <2>3
<1>. QED
  <2>1. Len(a) + Len(b) = Len(q) - 1
    BY <1>0, <1>1, <1>2
  <2>. QED
    BY <1>3, <1>4, <1>5, <2>1

-----------------------------------------------------------------------------
(***************************************************************************)
(* The ring.  Each node is tied to its neighbours in the list: the head is *)
(* at place 0 and again behind the last entry.                             *)
(***************************************************************************)
Nth(h, i) == IF i \in 1..Len(rings[h]) THEN rings[h][i] ELSE h

RingTyped ==
    /\ succ \in [Nodes -> Nodes \cup {NoNode}]
    /\ pred \in [Nodes -> Nodes \cup {NoNode}]
    /\ parent \in [Nodes -> Nodes]
    /\ len \in [Nodes -> Int]
    /\ rings \in [Heads -> Seq(Entries)]

\* An entry is in one ring, at one place.
Once ==
    \A g, h \in Heads : \A i \in 1..Len(rings[g]), j \in 1..Len(rings[h]) :
        rings[g][i] = rings[h][j] => g = h /\ i = j

Tied ==
    \A h \in Heads : \A i \in 0..Len(rings[h]) :
        succ[Nth(h, i)] = Nth(h, i + 1) /\ pred[Nth(h, i + 1)] = Nth(h, i)

Owned ==
    \A h \in Heads :
        /\ parent[h] = h
        /\ len[h] = Len(rings[h])
        /\ \A i \in 1..Len(rings[h]) : parent[rings[h][i]] = h

Apart ==
    \A e \in Entries :
        (\A h \in Heads : \A i \in 1..Len(rings[h]) : rings[h][i] # e) =>
            (parent[e] = e /\ succ[e] = e) \/ succ[e] = NoNode

RingInv == RingTyped /\ Once /\ Tied /\ Owned /\ Apart

LEMMA RingsAre ==
    ASSUME RingTyped, NEW h \in Heads
    PROVE  /\ rings[h] \in Seq(Entries)
           /\ Len(rings[h]) \in Nat
           /\ DOMAIN rings[h] = 1..Len(rings[h])
           /\ \A i \in 1..Len(rings[h]) : rings[h][i] \in Entries
           /\ \A i : Nth(h, i) \in Nodes
<1>1. rings[h] \in Seq(Entries)
  BY DEF RingTyped
<1>2. /\ Len(rings[h]) \in Nat
      /\ DOMAIN rings[h] = 1..Len(rings[h])
      /\ \A i \in 1..Len(rings[h]) : rings[h][i] \in Entries
  BY <1>1, LenProperties, ElementOfSeq
<1>. QED
  BY <1>1, <1>2 DEF Nth, Nodes

\* What Linked, HeadOf and Place say.
LEMMA LinkedIs ==
    ASSUME RingTyped, NEW e \in Entries
    PROVE  Linked(e) <=> \E h \in Heads : \E i \in 1..Len(rings[h]) : rings[h][i] = e
<1>1. e \notin Heads
  BY RingAssumption
<1>2. \A h \in Heads : DOMAIN rings[h] = 1..Len(rings[h])
  BY RingsAre
<1>. QED
  BY <1>1, <1>2 DEF Linked, Range

LEMMA PlaceIs ==
    ASSUME RingTyped, Once, NEW r \in Nodes, Linked(r)
    PROVE  /\ HeadOf(r) \in Heads
           /\ Place(r) \in 0..Len(rings[HeadOf(r)])
           /\ Nth(HeadOf(r), Place(r)) = r
           /\ r \in Heads => HeadOf(r) = r /\ Place(r) = 0
           /\ r \notin Heads => /\ Place(r) \in 1..Len(rings[HeadOf(r)])
                                /\ rings[HeadOf(r)][Place(r)] = r
<1>1. CASE r \in Heads
  <2>1. HeadOf(r) = r /\ Place(r) = 0
    BY <1>1 DEF HeadOf, Place
  <2>2. Len(rings[r]) \in Nat
    BY <1>1, RingsAre
  <2>. QED
    BY <1>1, <2>1, <2>2 DEF Nth
<1>2. CASE r \notin Heads
  <2>0. r \in Entries
    BY <1>2 DEF Nodes
  <2>1. \E h \in Heads : r \in Range(rings[h])
    BY <1>2, Zenon DEF Linked
  <2>2. HeadOf(r) = CHOOSE h \in Heads : r \in Range(rings[h])
    BY <1>2, Zenon DEF HeadOf
  <2>3. HeadOf(r) \in Heads /\ r \in Range(rings[HeadOf(r)])
    BY <2>1, <2>2, Zenon
  <2>4. DOMAIN rings[HeadOf(r)] = 1..Len(rings[HeadOf(r)])
    BY <2>3, RingsAre
  <2>5. \E i \in DOMAIN rings[HeadOf(r)] : rings[HeadOf(r)][i] = r
    BY <2>3, Zenon DEF Range
  <2>6. Place(r) = CHOOSE i \in DOMAIN rings[HeadOf(r)] : rings[HeadOf(r)][i] = r
    BY <1>2, Zenon DEF Place
  <2>7. Place(r) \in DOMAIN rings[HeadOf(r)] /\ rings[HeadOf(r)][Place(r)] = r
    BY <2>5, <2>6, Zenon
  <2>. HIDE DEF HeadOf, Place
  <2>8. Place(r) \in 1..Len(rings[HeadOf(r)]) /\ Len(rings[HeadOf(r)]) \in Nat
    BY <2>3, <2>4, <2>7, RingsAre
  <2>9. Place(r) \in 0..Len(rings[HeadOf(r)])
    BY <2>8
  <2>. QED
    BY <1>2, <2>3, <2>7, <2>8, <2>9 DEF Nth
<1>. QED
  BY <1>1, <1>2

\* No node is at two places.
LEMMA NthOnce ==
    ASSUME RingTyped, Once, NEW g \in Heads, NEW h \in Heads
    PROVE  /\ \A i \in 0..Len(rings[g]), j \in 0..Len(rings[h]) :
                 Nth(g, i) = Nth(h, j) => g = h /\ i = j
           /\ \A i \in 1..(Len(rings[g]) + 1), j \in 1..(Len(rings[h]) + 1) :
                 Nth(g, i) = Nth(h, j) => g = h /\ i = j
<1>1. /\ Len(rings[g]) \in Nat /\ \A i \in 1..Len(rings[g]) : rings[g][i] \in Entries
      /\ Len(rings[h]) \in Nat /\ \A i \in 1..Len(rings[h]) : rings[h][i] \in Entries
  BY RingsAre
<1>2. \A i \in 1..Len(rings[g]), j \in 1..Len(rings[h]) :
         rings[g][i] = rings[h][j] => g = h /\ i = j
  BY DEF Once
<1>3. g \notin Entries /\ h \notin Entries
  BY RingAssumption
<1>4. ASSUME NEW i \in 0..(Len(rings[g]) + 1), NEW j \in 0..(Len(rings[h]) + 1),
             Nth(g, i) = Nth(h, j)
      PROVE  g = h /\ (i = j \/ (i \notin 1..Len(rings[g]) /\ j \notin 1..Len(rings[h])))
  <2>1. CASE i \in 1..Len(rings[g])
    BY <2>1, <1>1, <1>2, <1>3, <1>4 DEF Nth
  <2>2. CASE i \notin 1..Len(rings[g])
    BY <2>2, <1>1, <1>3, <1>4 DEF Nth
  <2>. QED
    BY <2>1, <2>2
<1>. QED
  BY <1>1, <1>4

\* A free entry that is tied in between two neighbours.
LEMMA InsertKeeps ==
    ASSUME RingInv, NEW g \in Heads, NEW p \in 1..(Len(rings[g]) + 1),
           NEW e \in Entries, ~Linked(e),
           succ' = [succ EXCEPT ![e] = Nth(g, p), ![Nth(g, p - 1)] = e],
           pred' = [pred EXCEPT ![e] = Nth(g, p - 1), ![Nth(g, p)] = e],
           parent' = [parent EXCEPT ![e] = g],
           len' = [len EXCEPT ![g] = @ + 1],
           rings' = [rings EXCEPT ![g] = InsertAt(@, p, e)]
    PROVE  RingInv'
<1> DEFINE n == Len(rings[g])
<1>0. RingTyped /\ Once /\ Tied /\ Owned /\ Apart
  BY DEF RingInv
<1>1. \A h \in Heads : /\ rings[h] \in Seq(Entries) /\ Len(rings[h]) \in Nat
                       /\ \A i \in 1..Len(rings[h]) : rings[h][i] \in Entries
                       /\ \A i : Nth(h, i) \in Nodes
  BY <1>0, RingsAre
<1>2. \A h \in Heads : h \in Nodes /\ h \notin Entries /\ e # h
  BY RingAssumption DEF Nodes
<1>3. e \in Nodes
  BY DEF Nodes
<1>4. \A h \in Heads : \A i \in 1..Len(rings[h]) : rings[h][i] # e
  BY <1>0, LinkedIs
<1>5. \A h \in Heads : \A i : Nth(h, i) # e
  BY <1>2, <1>4 DEF Nth
<1>6. n = Len(rings[g]) /\ n \in Nat /\ p - 1 \in 0..n /\ p \in 1..(n + 1)
  BY <1>1
<1>7. /\ rings'[g] \in Seq(Entries) /\ Len(rings'[g]) = n + 1
      /\ \A i \in 1..(n + 1) : rings'[g][i] = IF i < p THEN rings[g][i]
                                              ELSE IF i = p THEN e ELSE rings[g][i - 1]
      /\ \A h \in Heads \ {g} : rings'[h] = rings[h]
  <2>1. rings'[g] = InsertAt(rings[g], p, e) /\ \A h \in Heads \ {g} : rings'[h] = rings[h]
    BY <1>0 DEF RingTyped
  <2>2. /\ InsertAt(rings[g], p, e) \in Seq(Entries)
        /\ Len(InsertAt(rings[g], p, e)) = Len(rings[g]) + 1
        /\ \A i \in 1..(Len(rings[g]) + 1) :
              InsertAt(rings[g], p, e)[i] = IF i < p THEN rings[g][i]
                                            ELSE IF i = p THEN e ELSE rings[g][i - 1]
    <3>1. rings[g] \in Seq(Entries)
      BY <1>1
    <3>. QED
      BY <3>1, InsertedIs, SMTT(20)
  <2>3. rings'[g] \in Seq(Entries) /\ Len(rings'[g]) = n + 1
    BY <2>1, <2>2
  <2>4. \A i \in 1..(n + 1) : rings'[g][i] = IF i < p THEN rings[g][i]
                                             ELSE IF i = p THEN e ELSE rings[g][i - 1]
    BY <2>1, <2>2
  <2>. QED
    BY <2>1, <2>3, <2>4
<1> HIDE DEF n
<1>70. \A i \in 1..(n + 1) : rings'[g][i] = e => i = p
  <2> TAKE i \in 1..(n + 1)
  <2>1. CASE i < p
    BY <2>1, <1>4, <1>6, <1>7 DEF n
  <2>2. CASE i > p
    <3>1. i - 1 \in 1..n /\ ~(i < p) /\ i # p
      BY <2>2, <1>6
    <3>. QED
      BY <3>1, <1>4, <1>7 DEF n
  <2>. QED
    BY <2>1, <2>2, <1>6
<1>8. RingTyped'
  <2>1. rings' \in [Heads -> Seq(Entries)]
    BY <1>0, <1>7 DEF RingTyped
  <2>2. /\ succ' \in [Nodes -> Nodes \cup {NoNode}]
        /\ pred' \in [Nodes -> Nodes \cup {NoNode}]
    BY <1>0, <1>1, <1>3 DEF RingTyped
  <2>3. parent' \in [Nodes -> Nodes]
    BY <1>0, <1>2, <1>3 DEF RingTyped
  <2>4. len' \in [Nodes -> Int]
    BY <1>0, <1>2 DEF RingTyped
  <2>. QED
    BY <2>1, <2>2, <2>3, <2>4 DEF RingTyped
<1>9. /\ \A i \in 0..(n + 2) : Nth(g, i)' = IF i < p THEN Nth(g, i)
                                            ELSE IF i = p THEN e ELSE Nth(g, i - 1)
      /\ \A h \in Heads \ {g} : \A i : Nth(h, i)' = Nth(h, i)
  BY <1>6, <1>7 DEF Nth
<1>10. Once'
  <2> SUFFICES ASSUME NEW f \in Heads, NEW h \in Heads,
                      NEW i \in 1..Len(rings'[f]), NEW j \in 1..Len(rings'[h]),
                      rings'[f][i] = rings'[h][j]
               PROVE  f = h /\ i = j
    BY DEF Once
  <2> DEFINE k == IF f = g /\ i > p THEN i - 1 ELSE i
             l == IF h = g /\ j > p THEN j - 1 ELSE j
  <2>1. i \in Nat /\ j \in Nat
    BY <1>1, <1>7
  <2>2. CASE f = g /\ i = p
    <3>1. rings'[h][j] = e
      BY <2>2, <1>7
    <3>2. h = g
      BY <3>1, <1>4, <1>7
    <3>. QED
      BY <3>1, <3>2, <2>2, <1>7, <1>70
  <2>3. CASE h = g /\ j = p
    <3>1. rings'[f][i] = e
      BY <2>3, <1>7
    <3>2. f = g
      BY <3>1, <1>4, <1>7
    <3>. QED
      BY <3>1, <3>2, <2>3, <1>7, <1>70
  <2>4. CASE ~(f = g /\ i = p) /\ ~(h = g /\ j = p)
    <3>1. k \in 1..Len(rings[f]) /\ rings'[f][i] = rings[f][k]
      BY <2>4, <2>1, <1>1, <1>6, <1>7
    <3>2. l \in 1..Len(rings[h]) /\ rings'[h][j] = rings[h][l]
      BY <2>4, <2>1, <1>1, <1>6, <1>7
    <3>. HIDE DEF k, l
    <3>3. f = h /\ k = l
      BY <3>1, <3>2, <1>0 DEF Once
    <3>. QED
      BY <3>3, <2>4, <2>1, <1>6 DEF k, l
  <2>. QED
    BY <2>2, <2>3, <2>4
<1>11. Tied'
  <2> SUFFICES ASSUME NEW h \in Heads, NEW i \in 0..Len(rings'[h])
               PROVE  succ'[Nth(h, i)'] = Nth(h, i + 1)' /\ pred'[Nth(h, i + 1)'] = Nth(h, i)'
    BY DEF Tied
  <2>1. \A m \in Nodes : succ'[m] = IF m = Nth(g, p - 1) THEN e
                                    ELSE IF m = e THEN Nth(g, p) ELSE succ[m]
    BY <1>0, <1>1, <1>3, <1>5 DEF RingTyped
  <2>2. \A m \in Nodes : pred'[m] = IF m = Nth(g, p) THEN e
                                    ELSE IF m = e THEN Nth(g, p - 1) ELSE pred[m]
    BY <1>0, <1>1, <1>3, <1>5 DEF RingTyped
  <2>3. \A k \in 0..n, f \in Heads : \A l \in 0..Len(rings[f]) :
            Nth(f, l) = Nth(g, k) => f = g /\ k = l
    BY <1>0, <1>6, NthOnce
  <2>4. \A k \in 1..(n + 1), f \in Heads : \A l \in 1..(Len(rings[f]) + 1) :
            Nth(f, l) = Nth(g, k) => f = g /\ k = l
    BY <1>0, <1>6, NthOnce
  <2>5. \A f \in Heads : \A l \in 0..Len(rings[f]) :
            succ[Nth(f, l)] = Nth(f, l + 1) /\ pred[Nth(f, l + 1)] = Nth(f, l)
    BY <1>0 DEF Tied
  <2>6. CASE h # g
    <3>1. Nth(h, i)' = Nth(h, i) /\ Nth(h, i + 1)' = Nth(h, i + 1) /\ rings'[h] = rings[h]
      BY <2>6, <1>7, <1>9
    <3>2. i \in 0..Len(rings[h]) /\ i + 1 \in 1..(Len(rings[h]) + 1)
      BY <3>1, <1>1
    <3>3. Nth(h, i) # Nth(g, p - 1) /\ Nth(h, i + 1) # Nth(g, p)
      BY <3>2, <2>3, <2>4, <2>6, <1>6
    <3>. QED
      BY <3>1, <3>2, <3>3, <2>1, <2>2, <2>5, <1>1, <1>5, ZenonT(40)
  <2>7. CASE h = g /\ i < p - 1
    <3>1. i \in 0..n /\ i + 1 \in 1..(n + 1) /\ i # p - 1 /\ i + 1 # p /\ i + 1 \in 0..(n + 2)
          /\ i \in 0..(n + 2) /\ i < p /\ i + 1 < p
      BY <2>7, <1>6, <1>7
    <3>2. Nth(g, i)' = Nth(g, i) /\ Nth(g, i + 1)' = Nth(g, i + 1)
      BY <3>1, <1>9
    <3>3. Nth(g, i) # Nth(g, p - 1) /\ Nth(g, i + 1) # Nth(g, p)
      BY <3>1, <2>3, <2>4, <1>6
    <3>4. succ[Nth(g, i)] = Nth(g, i + 1) /\ pred[Nth(g, i + 1)] = Nth(g, i)
      BY <3>1, <2>5
    <3>. QED
      BY <3>2, <3>3, <3>4, <2>1, <2>2, <2>7, <1>1, <1>5
  <2>8. CASE h = g /\ i = p - 1
    <3>1. Nth(g, i)' = Nth(g, p - 1) /\ Nth(g, i + 1)' = e
      BY <2>8, <1>6, <1>9
    <3>2. e # Nth(g, p)
      BY <1>5
    <3>. QED
      BY <3>1, <3>2, <2>1, <2>2, <2>8, <1>1, <1>3
  <2>9. CASE h = g /\ i = p
    <3>1. Nth(g, i)' = e /\ Nth(g, i + 1)' = Nth(g, p)
      BY <2>9, <1>6, <1>9
    <3>2. e # Nth(g, p - 1)
      BY <1>5
    <3>. QED
      BY <3>1, <3>2, <2>1, <2>2, <2>9, <1>1, <1>3
  <2>10. CASE h = g /\ i > p
    <3>1. i \in 0..(n + 2) /\ i + 1 \in 0..(n + 2) /\ i - 1 \in 0..n /\ i \in 1..(n + 1)
          /\ i - 1 # p - 1 /\ i # p /\ ~(i < p) /\ ~(i + 1 < p) /\ i + 1 # p /\ (i - 1) + 1 = i
          /\ i + 1 - 1 = i
      BY <2>10, <1>6, <1>7
    <3>2. Nth(g, i)' = Nth(g, i - 1) /\ Nth(g, i + 1)' = Nth(g, i)
      BY <3>1, <1>9
    <3>3. Nth(g, i - 1) # Nth(g, p - 1) /\ Nth(g, i) # Nth(g, p)
      BY <3>1, <2>3, <2>4, <1>6
    <3>4. succ[Nth(g, i - 1)] = Nth(g, i) /\ pred[Nth(g, i)] = Nth(g, i - 1)
      BY <3>1, <2>5, <1>6
    <3>. QED
      BY <3>2, <3>3, <3>4, <2>1, <2>2, <2>10, <1>1, <1>5
  <2>11. h # g \/ i < p - 1 \/ i = p - 1 \/ i = p \/ i > p
    BY <1>6, <1>7
  <2>. QED
    BY <2>6, <2>7, <2>8, <2>9, <2>10, <2>11
<1>12. Owned'
  <2>1. \A m \in Nodes : parent'[m] = IF m = e THEN g ELSE parent[m]
    BY <1>0 DEF RingTyped
  <2>2. \A h \in Heads : len'[h] = IF h = g THEN len[h] + 1 ELSE len[h]
    BY <1>0, <1>2 DEF RingTyped
  <2> SUFFICES ASSUME NEW h \in Heads
               PROVE  /\ parent'[h] = h
                      /\ len'[h] = Len(rings'[h])
                      /\ \A i \in 1..Len(rings'[h]) : parent'[rings'[h][i]] = h
    BY DEF Owned
  <2>3. parent[h] = h /\ len[h] = Len(rings[h])
        /\ \A i \in 1..Len(rings[h]) : parent[rings[h][i]] = h
    BY <1>0 DEF Owned
  <2>4. parent'[h] = h
    BY <2>1, <2>3, <1>2
  <2>5. len'[h] = Len(rings'[h])
    BY <2>2, <2>3, <1>6, <1>7
  <2>6. ASSUME NEW i \in 1..Len(rings[h]) PROVE parent'[rings[h][i]] = h
    BY <2>1, <2>3, <1>1, <1>4 DEF Nodes
  <2>7. \A i \in 1..Len(rings'[h]) : parent'[rings'[h][i]] = h
    <3>1. CASE h = g
      <4> SUFFICES ASSUME NEW i \in 1..(n + 1) PROVE parent'[rings'[g][i]] = g
        BY <3>1, <1>7
      <4>1. CASE i = p
        BY <4>1, <2>1, <1>3, <1>6, <1>7
      <4>2. CASE i < p
        BY <4>2, <3>1, <2>6, <1>6, <1>7 DEF n
      <4>3. CASE i > p
        <5>1. i - 1 \in 1..n /\ ~(i < p) /\ i # p
          BY <4>3, <1>6
        <5>. QED
          BY <5>1, <3>1, <2>6, <1>7 DEF n
      <4>. QED
        BY <4>1, <4>2, <4>3, <1>6
    <3>2. CASE h # g
      BY <3>2, <2>6, <1>7
    <3>. QED
      BY <3>1, <3>2
  <2>. QED
    BY <2>4, <2>5, <2>7
<1>13. Apart'
  <2> SUFFICES ASSUME NEW d \in Entries,
                      \A h \in Heads : \A i \in 1..Len(rings'[h]) : rings'[h][i] # d
               PROVE  (parent'[d] = d /\ succ'[d] = d) \/ succ'[d] = NoNode
    BY DEF Apart
  <2>1. d # e
    BY <1>6, <1>7
  <2>2. \A h \in Heads : \A i \in 1..Len(rings[h]) : rings[h][i] # d
    <3>1. ASSUME NEW i \in 1..n PROVE rings[g][i] # d
      <4>1. CASE i < p
        BY <4>1, <1>6, <1>7
      <4>2. CASE i >= p
        <5>1. i + 1 \in 1..(n + 1) /\ ~(i + 1 < p) /\ i + 1 # p /\ i + 1 - 1 = i
          BY <4>2, <1>6
        <5>. QED
          BY <5>1, <1>7
      <4>. QED
        BY <4>1, <4>2, <1>6
    <3>. QED
      BY <3>1, <1>6, <1>7
  <2>3. \A h \in Heads : \A i : Nth(h, i) # d
    BY <2>2, <1>2 DEF Nth
  <2>4. succ'[d] = succ[d] /\ parent'[d] = parent[d]
    BY <2>1, <2>3, <1>0 DEF RingTyped, Nodes
  <2>. QED
    BY <2>2, <2>4, <1>0 DEF Apart
<1>. QED
  BY <1>8, <1>10, <1>11, <1>12, <1>13 DEF RingInv

\* An entry whose neighbours are tied to each other.
LEMMA RemoveKeeps ==
    ASSUME RingInv, NEW g \in Heads, NEW p \in 1..Len(rings[g]), NEW e, e = rings[g][p],
           NEW x \in Nodes \cup {NoNode},
           succ' = [succ EXCEPT ![Nth(g, p - 1)] = Nth(g, p + 1), ![e] = x],
           pred' = [pred EXCEPT ![Nth(g, p + 1)] = Nth(g, p - 1), ![e] = x],
           parent' \in [Nodes -> Nodes], \A n \in Nodes \ {e} : parent'[n] = parent[n],
           (x = e /\ parent'[e] = e) \/ x = NoNode,
           len' \in [Nodes -> Int],
           \A h \in Heads : len'[h] = IF h = g THEN len[h] - 1 ELSE len[h],
           rings' = [rings EXCEPT ![g] = RemoveAt(@, p)]
    PROVE  RingInv'
<1> DEFINE n == Len(rings[g])
<1>0. RingTyped /\ Once /\ Tied /\ Owned /\ Apart
  BY DEF RingInv
<1>1. \A h \in Heads : /\ rings[h] \in Seq(Entries) /\ Len(rings[h]) \in Nat
                       /\ \A i \in 1..Len(rings[h]) : rings[h][i] \in Entries
                       /\ \A i : Nth(h, i) \in Nodes
  BY <1>0, RingsAre
<1>2. \A h \in Heads : h \in Nodes /\ h \notin Entries
  BY RingAssumption DEF Nodes
<1>3. e \in Entries /\ e \in Nodes /\ e \notin Heads
  BY <1>1, <1>2 DEF Nodes
<1>6. n = Len(rings[g]) /\ n \in Nat /\ p - 1 \in 0..n /\ p \in 1..n /\ p + 1 \in 1..(n + 1)
      /\ p \in 0..n /\ p \in 1..(n + 1)
  BY <1>1
<1>4. \A h \in Heads : \A i \in 1..Len(rings[h]) : rings[h][i] = e => h = g /\ i = p
  BY <1>0 DEF Once
<1>5. /\ \A h \in Heads : \A i : Nth(h, i) = e => h = g /\ i = p
      /\ Nth(g, p) = e
  BY <1>2, <1>3, <1>4 DEF Nth
<1>7. /\ rings'[g] \in Seq(Entries) /\ Len(rings'[g]) = n - 1
      /\ \A i \in 1..(n - 1) : rings'[g][i] = IF i < p THEN rings[g][i] ELSE rings[g][i + 1]
      /\ \A h \in Heads \ {g} : rings'[h] = rings[h]
  <2>1. rings'[g] = RemoveAt(rings[g], p) /\ \A h \in Heads \ {g} : rings'[h] = rings[h]
    BY <1>0 DEF RingTyped
  <2>2. /\ RemoveAt(rings[g], p) \in Seq(Entries)
        /\ Len(RemoveAt(rings[g], p)) = Len(rings[g]) - 1
        /\ \A i \in 1..(Len(rings[g]) - 1) :
              RemoveAt(rings[g], p)[i] = IF i < p THEN rings[g][i] ELSE rings[g][i + 1]
    <3>1. rings[g] \in Seq(Entries)
      BY <1>1
    <3>. QED
      BY <3>1, RemovedIs
  <2>3. rings'[g] \in Seq(Entries) /\ Len(rings'[g]) = n - 1
    BY <2>1, <2>2
  <2>4. \A i \in 1..(n - 1) : rings'[g][i] = IF i < p THEN rings[g][i] ELSE rings[g][i + 1]
    BY <2>1, <2>2
  <2>. QED
    BY <2>1, <2>3, <2>4
<1> HIDE DEF n
<1>8. RingTyped'
  <2>1. rings' \in [Heads -> Seq(Entries)]
    BY <1>0, <1>7 DEF RingTyped
  <2>2. /\ succ' \in [Nodes -> Nodes \cup {NoNode}]
        /\ pred' \in [Nodes -> Nodes \cup {NoNode}]
    BY <1>0, <1>1, <1>3 DEF RingTyped
  <2>. QED
    BY <2>1, <2>2 DEF RingTyped
<1>9. /\ \A i \in 0..n : Nth(g, i)' = IF i < p THEN Nth(g, i) ELSE Nth(g, i + 1)
      /\ \A h \in Heads \ {g} : \A i : Nth(h, i)' = Nth(h, i)
  BY <1>6, <1>7 DEF Nth
<1>10. Once'
  <2> SUFFICES ASSUME NEW f \in Heads, NEW h \in Heads,
                      NEW i \in 1..Len(rings'[f]), NEW j \in 1..Len(rings'[h]),
                      rings'[f][i] = rings'[h][j]
               PROVE  f = h /\ i = j
    BY DEF Once
  <2> DEFINE k == IF f = g /\ i >= p THEN i + 1 ELSE i
             l == IF h = g /\ j >= p THEN j + 1 ELSE j
  <2>1. i \in Nat /\ j \in Nat
    BY <1>1, <1>7
  <2>2. k \in 1..Len(rings[f]) /\ rings'[f][i] = rings[f][k]
    <3>1. CASE f = g
      BY <3>1, <2>1, <1>6, <1>7
    <3>2. CASE f # g
      BY <3>2, <1>7
    <3>. QED
      BY <3>1, <3>2
  <2>3. l \in 1..Len(rings[h]) /\ rings'[h][j] = rings[h][l]
    <3>1. CASE h = g
      BY <3>1, <2>1, <1>6, <1>7
    <3>2. CASE h # g
      BY <3>2, <1>7
    <3>. QED
      BY <3>1, <3>2
  <2>. HIDE DEF k, l
  <2>4. f = h /\ k = l
    <3>1. rings[f][k] = rings[h][l]
      BY <2>2, <2>3
    <3>. QED
      BY <3>1, <2>2, <2>3, <1>0 DEF Once
  <2>. QED
    BY <2>4, <2>1, <1>6 DEF k, l
<1>11. Tied'
  <2> SUFFICES ASSUME NEW h \in Heads, NEW i \in 0..Len(rings'[h])
               PROVE  succ'[Nth(h, i)'] = Nth(h, i + 1)' /\ pred'[Nth(h, i + 1)'] = Nth(h, i)'
    BY DEF Tied
  <2>1. \A m \in Nodes \ {e} : succ'[m] = IF m = Nth(g, p - 1) THEN Nth(g, p + 1) ELSE succ[m]
    BY <1>0, <1>1, <1>3 DEF RingTyped
  <2>2. \A m \in Nodes \ {e} : pred'[m] = IF m = Nth(g, p + 1) THEN Nth(g, p - 1) ELSE pred[m]
    BY <1>0, <1>1, <1>3 DEF RingTyped
  <2>3. \A k \in 0..n, f \in Heads : \A l \in 0..Len(rings[f]) :
            Nth(f, l) = Nth(g, k) => f = g /\ k = l
    BY <1>0, <1>6, NthOnce
  <2>4. \A k \in 1..(n + 1), f \in Heads : \A l \in 1..(Len(rings[f]) + 1) :
            Nth(f, l) = Nth(g, k) => f = g /\ k = l
    BY <1>0, <1>6, NthOnce
  <2>5. \A f \in Heads : \A l \in 0..Len(rings[f]) :
            succ[Nth(f, l)] = Nth(f, l + 1) /\ pred[Nth(f, l + 1)] = Nth(f, l)
    BY <1>0 DEF Tied
  <2>6. CASE h # g
    <3>1. Nth(h, i)' = Nth(h, i) /\ Nth(h, i + 1)' = Nth(h, i + 1) /\ rings'[h] = rings[h]
      BY <2>6, <1>7, <1>9
    <3>2. i \in 0..Len(rings[h]) /\ i + 1 \in 1..(Len(rings[h]) + 1)
      BY <3>1, <1>1
    <3>3. Nth(h, i) # Nth(g, p - 1) /\ Nth(h, i + 1) # Nth(g, p + 1)
      BY <3>2, <2>3, <2>4, <2>6, <1>6, ZenonT(40)
    <3>4. Nth(h, i) # e /\ Nth(h, i + 1) # e
      BY <1>5, <2>6
    <3>5. succ[Nth(h, i)] = Nth(h, i + 1) /\ pred[Nth(h, i + 1)] = Nth(h, i)
      BY <3>2, <2>5
    <3>6. succ'[Nth(h, i)] = succ[Nth(h, i)]
      BY <3>3, <3>4, <2>1, <1>1
    <3>7. pred'[Nth(h, i + 1)] = pred[Nth(h, i + 1)]
      BY <3>3, <3>4, <2>2, <1>1
    <3>. QED
      BY <3>1, <3>5, <3>6, <3>7
  <2>7. CASE h = g /\ i < p - 1
    <3>1. i \in 0..n /\ i + 1 \in 0..n /\ i + 1 \in 1..(n + 1) /\ i # p - 1 /\ i + 1 # p + 1
          /\ i < p /\ i + 1 < p /\ i # p /\ i + 1 # p
      BY <2>7, <1>6, <1>7
    <3>2. Nth(g, i)' = Nth(g, i) /\ Nth(g, i + 1)' = Nth(g, i + 1)
      BY <3>1, <1>9
    <3>3. Nth(g, i) # Nth(g, p - 1) /\ Nth(g, i + 1) # Nth(g, p + 1)
      BY <3>1, <2>3, <2>4, <1>6
    <3>4. succ[Nth(g, i)] = Nth(g, i + 1) /\ pred[Nth(g, i + 1)] = Nth(g, i)
      BY <3>1, <2>5, <1>6
    <3>5. Nth(g, i) # e /\ Nth(g, i + 1) # e
      BY <1>5, <3>1
    <3>. QED
      BY <3>2, <3>3, <3>4, <3>5, <2>1, <2>2, <2>7, <1>1
  <2>8. CASE h = g /\ i = p - 1
    <3>1. Nth(g, i)' = Nth(g, p - 1) /\ Nth(g, i + 1)' = Nth(g, p + 1)
      BY <2>8, <1>6, <1>9
    <3>2. Nth(g, p - 1) # e /\ Nth(g, p + 1) # e
      BY <1>5, <1>6
    <3>3. succ'[Nth(g, p - 1)] = Nth(g, p + 1)
      BY <3>2, <2>1, <1>1
    <3>4. pred'[Nth(g, p + 1)] = Nth(g, p - 1)
      BY <3>2, <2>2, <1>1
    <3>. QED
      BY <3>1, <3>3, <3>4, <2>8
  <2>9. CASE h = g /\ i >= p
    <3>1. i \in 0..n /\ i + 1 \in 0..n /\ i + 1 \in 1..(n + 1) /\ i + 2 \in 1..(n + 1)
          /\ i + 1 # p - 1 /\ i + 2 # p + 1 /\ ~(i < p) /\ ~(i + 1 < p) /\ i + 1 # p
          /\ i + 2 # p /\ i + 1 + 1 = i + 2
      BY <2>9, <1>6, <1>7
    <3>2. Nth(g, i)' = Nth(g, i + 1) /\ Nth(g, i + 1)' = Nth(g, i + 2)
      BY <3>1, <1>9
    <3>3. Nth(g, i + 1) # Nth(g, p - 1) /\ Nth(g, i + 2) # Nth(g, p + 1)
      BY <3>1, <2>3, <2>4, <1>6
    <3>4. succ[Nth(g, i + 1)] = Nth(g, i + 2) /\ pred[Nth(g, i + 2)] = Nth(g, i + 1)
      BY <3>1, <2>5, <1>6
    <3>5. Nth(g, i + 1) # e /\ Nth(g, i + 2) # e
      BY <1>5, <3>1
    <3>. QED
      BY <3>2, <3>3, <3>4, <3>5, <2>1, <2>2, <2>9, <1>1, ZenonT(40)
  <2>11. h # g \/ i < p - 1 \/ i = p - 1 \/ i >= p
    BY <1>6, <1>7
  <2>. QED
    BY <2>6, <2>7, <2>8, <2>9, <2>11
<1>12. Owned'
  <2> SUFFICES ASSUME NEW h \in Heads
               PROVE  /\ parent'[h] = h
                      /\ len'[h] = Len(rings'[h])
                      /\ \A i \in 1..Len(rings'[h]) : parent'[rings'[h][i]] = h
    BY DEF Owned
  <2>3. parent[h] = h /\ len[h] = Len(rings[h])
        /\ \A i \in 1..Len(rings[h]) : parent[rings[h][i]] = h
    BY <1>0 DEF Owned
  <2>4. parent'[h] = h
    BY <2>3, <1>2, <1>3
  <2>5. len'[h] = Len(rings'[h])
    BY <2>3, <1>6, <1>7, ZenonT(40)
  <2>6. ASSUME NEW i \in 1..Len(rings[h]), rings[h][i] # e PROVE parent'[rings[h][i]] = h
    BY <2>3, <2>6, <1>1 DEF Nodes
  <2>7. \A i \in 1..Len(rings'[h]) : parent'[rings'[h][i]] = h
    <3>1. CASE h = g
      <4> SUFFICES ASSUME NEW i \in 1..(n - 1) PROVE parent'[rings'[g][i]] = g
        BY <3>1, <1>7
      <4> DEFINE k == IF i < p THEN i ELSE i + 1
      <4>1. k \in 1..n /\ k # p /\ rings'[g][i] = rings[g][k]
        BY <1>6, <1>7
      <4>. HIDE DEF k
      <4>2. rings[g][k] # e
        BY <4>1, <1>4, <1>6
      <4>. QED
        BY <4>1, <4>2, <3>1, <2>6, <1>6
    <3>2. CASE h # g
      BY <3>2, <2>6, <1>4, <1>7
    <3>. QED
      BY <3>1, <3>2
  <2>. QED
    BY <2>4, <2>5, <2>7
<1>13. Apart'
  <2> SUFFICES ASSUME NEW d \in Entries,
                      \A h \in Heads : \A i \in 1..Len(rings'[h]) : rings'[h][i] # d
               PROVE  (parent'[d] = d /\ succ'[d] = d) \/ succ'[d] = NoNode
    BY DEF Apart
  <2>1. CASE d = e
    BY <2>1, <1>0, <1>3 DEF RingTyped
  <2>2. CASE d # e
    <3>1. \A h \in Heads : \A i \in 1..Len(rings[h]) : rings[h][i] # d
      <4>1. ASSUME NEW i \in 1..n PROVE rings[g][i] # d
        <5>1. CASE i < p
          BY <5>1, <1>6, <1>7
        <5>2. CASE i > p
          <6>1. i - 1 \in 1..(n - 1) /\ ~(i - 1 < p) /\ i - 1 + 1 = i
            BY <5>2, <1>6
          <6>2. rings'[g][i - 1] = rings[g][i]
            BY <6>1, <1>7
          <6>3. rings'[g][i - 1] # d
            BY <6>1, <1>7
          <6>. QED
            BY <6>2, <6>3
        <5>3. CASE i = p
          BY <5>3, <2>2
        <5>. QED
          BY <5>1, <5>2, <5>3, <1>6
      <4>. QED
        BY <4>1, <1>6, <1>7
    <3>2. \A h \in Heads : \A i : Nth(h, i) # d
      BY <3>1, <1>2 DEF Nth
    <3>3. succ'[d] = succ[d] /\ parent'[d] = parent[d]
      BY <2>2, <3>2, <1>0 DEF RingTyped, Nodes
    <3>. QED
      BY <3>1, <3>3, <1>0 DEF Apart
  <2>. QED
    BY <2>1, <2>2
<1>. QED
  BY <1>8, <1>10, <1>11, <1>12, <1>13 DEF RingInv

LEMMA AppendStep ==
    ASSUME RingInv, NEW r \in Nodes, NEW e \in Entries, RingAppend(r, e)
    PROVE  RingInv'
<1>0. RingTyped /\ Once /\ Tied /\ Owned
  BY DEF RingInv
<1>1. Linked(r) /\ ~Linked(e)
  BY DEF RingAppend, Free
<1> DEFINE g == HeadOf(r)
           p == Place(r) + 1
<1>2. /\ g \in Heads /\ Place(r) \in 0..Len(rings[g]) /\ Nth(g, Place(r)) = r
      /\ r \in Heads => g = r
      /\ r \notin Heads => Place(r) \in 1..Len(rings[g]) /\ rings[g][Place(r)] = r
  BY <1>0, <1>1, PlaceIs
<1>3. /\ succ' = [succ EXCEPT ![e] = succ[r], ![r] = e]
      /\ pred' = [pred EXCEPT ![e] = r, ![succ[r]] = e]
      /\ parent' = [parent EXCEPT ![e] = parent[r]]
      /\ len' = [len EXCEPT ![parent[r]] = @ + 1]
      /\ rings' = [rings EXCEPT ![g] = InsertAt(@, p, e)]
  BY DEF RingAppend
<1> HIDE DEF g
<1>4. Len(rings[g]) \in Nat
  BY <1>0, <1>2, RingsAre
<1>5. p \in 1..(Len(rings[g]) + 1) /\ p - 1 = Place(r)
  BY <1>2, <1>4
<1>6. r = Nth(g, p - 1) /\ succ[r] = Nth(g, p)
  BY <1>0, <1>2, <1>5 DEF Tied
<1>7. parent[r] = g
  BY <1>0, <1>2 DEF Owned
<1>8. /\ succ' = [succ EXCEPT ![e] = Nth(g, p), ![Nth(g, p - 1)] = e]
      /\ pred' = [pred EXCEPT ![e] = Nth(g, p - 1), ![Nth(g, p)] = e]
      /\ parent' = [parent EXCEPT ![e] = g]
      /\ len' = [len EXCEPT ![g] = @ + 1]
      /\ rings' = [rings EXCEPT ![g] = InsertAt(@, p, e)]
  BY <1>3, <1>6, <1>7
<1> HIDE DEF p
<1>. QED
  BY <1>1, <1>2, <1>5, <1>8, InsertKeeps

LEMMA PrependStep ==
    ASSUME RingInv, NEW r \in Nodes, NEW e \in Entries, RingPrepend(r, e)
    PROVE  RingInv'
<1>0. RingTyped /\ Once /\ Tied /\ Owned
  BY DEF RingInv
<1>1. Linked(r) /\ ~Linked(e) /\ e \notin Heads /\ e \in Nodes
  BY RingAssumption DEF RingPrepend, Free, Nodes
<1> DEFINE g == HeadOf(r)
           p == IF r \in Heads THEN Len(rings[g]) + 1 ELSE Place(r)
<1>2. /\ g \in Heads /\ Place(r) \in 0..Len(rings[g]) /\ Nth(g, Place(r)) = r
      /\ r \in Heads => g = r
      /\ r \notin Heads => Place(r) \in 1..Len(rings[g]) /\ rings[g][Place(r)] = r
  BY <1>0, <1>1, PlaceIs
<1>3. /\ pred' = [pred EXCEPT ![e] = pred[r], ![r] = e]
      /\ succ' = [succ EXCEPT ![e] = r, ![pred[r]] = e]
      /\ parent' = [parent EXCEPT ![e] = parent[r]]
      /\ len' = [len EXCEPT ![parent[r]] = @ + 1]
      /\ rings' = [rings EXCEPT ![g] =
                      InsertAt(@, IF r \in Heads THEN Len(@) + 1 ELSE Place(r), e)]
  BY DEF RingPrepend
<1> HIDE DEF g
<1>4. Len(rings[g]) \in Nat
  BY <1>0, <1>2, RingsAre
<1>5. p \in 1..(Len(rings[g]) + 1) /\ p - 1 \in 0..Len(rings[g]) /\ p - 1 + 1 = p
  BY <1>2, <1>4
<1>6. r = Nth(g, p)
  BY <1>2, <1>4 DEF Nth
<1>7. pred[r] = Nth(g, p - 1)
  BY <1>0, <1>2, <1>5, <1>6 DEF Tied
<1>8. parent[r] = g
  BY <1>0, <1>2 DEF Owned
<1>9. rings' = [rings EXCEPT ![g] = InsertAt(@, p, e)]
  BY <1>3
<1> HIDE DEF p
<1>10. /\ pred' = [pred EXCEPT ![e] = Nth(g, p - 1), ![Nth(g, p)] = e]
       /\ succ' = [succ EXCEPT ![e] = Nth(g, p), ![Nth(g, p - 1)] = e]
       /\ parent' = [parent EXCEPT ![e] = g]
       /\ len' = [len EXCEPT ![g] = @ + 1]
  BY <1>3, <1>6, <1>7, <1>8
<1>. QED
  BY <1>1, <1>2, <1>5, <1>9, <1>10, InsertKeeps

\* What the place of an entry of a ring means for taking it out.
LEMMA TakenFrom ==
    ASSUME RingInv, NEW e \in Entries, Linked(e)
    PROVE  \E g \in Heads : \E p \in 1..Len(rings[g]) :
              /\ e = rings[g][p]
              /\ Without(e) = [rings EXCEPT ![g] = RemoveAt(@, p)]
              /\ pred[e] = Nth(g, p - 1) /\ succ[e] = Nth(g, p + 1)
              /\ pred[e] \in Nodes /\ succ[e] \in Nodes
              /\ pred[e] # e /\ succ[e] # e
              /\ parent[e] = g
<1>0. RingTyped /\ Once /\ Tied /\ Owned /\ e \in Nodes /\ e \notin Heads
  BY RingAssumption DEF RingInv, Nodes
<1> DEFINE g == HeadOf(e)
           p == Place(e)
<1>1. g \in Heads /\ p \in 1..Len(rings[g]) /\ rings[g][p] = e /\ Nth(g, p) = e
  BY <1>0, PlaceIs
<1>2. Without(e) = [rings EXCEPT ![g] = RemoveAt(@, p)]
  BY <1>0 DEF Without
<1> HIDE DEF g, p
<1>3. Len(rings[g]) \in Nat /\ \A i : Nth(g, i) \in Nodes
  BY <1>0, <1>1, RingsAre
<1>4. p - 1 \in 0..Len(rings[g]) /\ p \in 0..Len(rings[g]) /\ p - 1 + 1 = p /\ p - 1 # p
      /\ p + 1 \in 1..(Len(rings[g]) + 1) /\ p \in 1..(Len(rings[g]) + 1) /\ p + 1 # p
  BY <1>1, <1>3
<1>5. pred[e] = Nth(g, p - 1) /\ succ[e] = Nth(g, p + 1)
  BY <1>0, <1>1, <1>4 DEF Tied
<1>6. Nth(g, p - 1) # Nth(g, p) /\ Nth(g, p + 1) # Nth(g, p)
  BY <1>0, <1>1, <1>4, NthOnce
<1>7. parent[e] = g
  BY <1>0, <1>1 DEF Owned
<1>8. /\ e = rings[g][p]
      /\ Without(e) = [rings EXCEPT ![g] = RemoveAt(@, p)]
      /\ pred[e] = Nth(g, p - 1) /\ succ[e] = Nth(g, p + 1)
      /\ pred[e] \in Nodes /\ succ[e] \in Nodes
      /\ pred[e] # e /\ succ[e] # e
      /\ parent[e] = g
  <2>1. pred[e] \in Nodes /\ succ[e] \in Nodes /\ pred[e] # e /\ succ[e] # e
    BY <1>1, <1>3, <1>5, <1>6
  <2>. QED
    BY <1>1, <1>2, <1>5, <1>7, <2>1
<1>. HIDE DEF Without
<1>. QED
  BY <1>1, <1>8, Zenon

LEMMA DetachStep ==
    ASSUME RingInv, NEW e \in Nodes, RingDetach(e)
    PROVE  RingInv'
<1>0. RingTyped /\ Owned /\ Apart
  BY DEF RingInv
<1>1. CASE e \in Entries /\ Linked(e)
  <2>0. PICK g \in Heads : \E p \in 1..Len(rings[g]) :
              /\ e = rings[g][p]
              /\ Without(e) = [rings EXCEPT ![g] = RemoveAt(@, p)]
              /\ pred[e] = Nth(g, p - 1) /\ succ[e] = Nth(g, p + 1)
              /\ pred[e] \in Nodes /\ succ[e] \in Nodes
              /\ pred[e] # e /\ succ[e] # e
              /\ parent[e] = g
    BY <1>1, TakenFrom
  <2>1. PICK p \in 1..Len(rings[g]) :
              /\ e = rings[g][p]
              /\ Without(e) = [rings EXCEPT ![g] = RemoveAt(@, p)]
              /\ pred[e] = Nth(g, p - 1) /\ succ[e] = Nth(g, p + 1)
              /\ pred[e] \in Nodes /\ succ[e] \in Nodes
              /\ pred[e] # e /\ succ[e] # e
              /\ parent[e] = g
    BY <2>0
  <2>2. g # e /\ g \in Nodes /\ NoNode \notin Nodes
    BY <1>1, RingAssumption DEF Nodes
  <2>3. /\ succ' = [succ EXCEPT ![pred[e]] = succ[e], ![e] = e]
        /\ pred' = [pred EXCEPT ![succ[e]] = pred[e], ![e] = e]
        /\ len' = [len EXCEPT ![parent[e]] = @ - 1, ![e] = 0]
        /\ parent' = [parent EXCEPT ![e] = e]
        /\ rings' = Without(e)
    BY <2>1, <2>2 DEF RingDetach
  <2>4. /\ succ' = [succ EXCEPT ![Nth(g, p - 1)] = Nth(g, p + 1), ![e] = e]
        /\ pred' = [pred EXCEPT ![Nth(g, p + 1)] = Nth(g, p - 1), ![e] = e]
        /\ rings' = [rings EXCEPT ![g] = RemoveAt(@, p)]
    BY <2>1, <2>3
  <2>5. /\ parent' \in [Nodes -> Nodes] /\ parent'[e] = e
        /\ \A n \in Nodes \ {e} : parent'[n] = parent[n]
    BY <2>3, <1>0 DEF RingTyped
  <2>6. len' \in [Nodes -> Int]
    BY <2>1, <2>2, <2>3, <1>0 DEF RingTyped
  <2>7. \A h \in Heads : len'[h] = IF h = g THEN len[h] - 1 ELSE len[h]
    <3>1. e \notin Heads
      BY <1>1, RingAssumption
    <3>. QED
      BY <3>1, <2>1, <2>2, <2>3, <1>0 DEF RingTyped, Nodes
  <2>. QED
    BY <2>1, <2>4, <2>5, <2>6, <2>7, RemoveKeeps
<1>2. CASE ~(e \in Entries /\ Linked(e))
  <2>1. parent[e] = e \/ succ[e] = NoNode
    <3>1. CASE e \in Heads
      BY <3>1, <1>0 DEF Owned
    <3>2. CASE e \in Entries
      BY <3>2, <1>0, <1>2, LinkedIs DEF Apart
    <3>. QED
      BY <3>1, <3>2 DEF Nodes
  <2>2. Without(e) = rings
    BY <1>2 DEF Without, Nodes
  <2>3. UNCHANGED ringVars
    BY <2>1, <2>2 DEF RingDetach, ringVars
  <2>. QED
    BY <2>3 DEF ringVars, RingInv, RingTyped, Once, Tied, Owned, Apart, Nth
<1>. QED
  BY <1>1, <1>2

LEMMA DetachMacroStep ==
    ASSUME RingInv, NEW e \in Entries, RingDetachMacro(e)
    PROVE  RingInv'
<1>0. RingTyped /\ e \in Nodes
  BY DEF RingInv, Nodes
<1>1. CASE Linked(e)
  <2>0. PICK g \in Heads : \E p \in 1..Len(rings[g]) :
              /\ e = rings[g][p]
              /\ Without(e) = [rings EXCEPT ![g] = RemoveAt(@, p)]
              /\ pred[e] = Nth(g, p - 1) /\ succ[e] = Nth(g, p + 1)
              /\ pred[e] \in Nodes /\ succ[e] \in Nodes
              /\ pred[e] # e /\ succ[e] # e
              /\ parent[e] = g
    BY <1>1, TakenFrom
  <2>1. PICK p \in 1..Len(rings[g]) :
              /\ e = rings[g][p]
              /\ Without(e) = [rings EXCEPT ![g] = RemoveAt(@, p)]
              /\ pred[e] = Nth(g, p - 1) /\ succ[e] = Nth(g, p + 1)
              /\ pred[e] \in Nodes /\ succ[e] \in Nodes
              /\ pred[e] # e /\ succ[e] # e
              /\ parent[e] = g
    BY <2>0
  <2>2. g \in Nodes /\ NoNode \notin Nodes
    BY RingAssumption DEF Nodes
  <2>3. /\ succ' = [succ EXCEPT ![pred[e]] = succ[e], ![e] = NoNode]
        /\ pred' = [pred EXCEPT ![succ[e]] = pred[e], ![e] = NoNode]
        /\ len' = [len EXCEPT ![parent[e]] = @ - 1]
        /\ parent' = parent
        /\ rings' = Without(e)
    BY <2>1, <2>2 DEF RingDetachMacro
  <2>4. /\ succ' = [succ EXCEPT ![Nth(g, p - 1)] = Nth(g, p + 1), ![e] = NoNode]
        /\ pred' = [pred EXCEPT ![Nth(g, p + 1)] = Nth(g, p - 1), ![e] = NoNode]
        /\ rings' = [rings EXCEPT ![g] = RemoveAt(@, p)]
    BY <2>1, <2>3
  <2>5. /\ parent' \in [Nodes -> Nodes] /\ \A n \in Nodes \ {e} : parent'[n] = parent[n]
    BY <2>3, <1>0 DEF RingTyped
  <2>6. len' \in [Nodes -> Int]
    BY <2>1, <2>2, <2>3, <1>0 DEF RingTyped
  <2>7. \A h \in Heads : len'[h] = IF h = g THEN len[h] - 1 ELSE len[h]
    BY <2>1, <2>2, <2>3, <1>0 DEF RingTyped, Nodes
  <2>. QED
    BY <2>1, <2>4, <2>5, <2>6, <2>7, RemoveKeeps
<1>2. CASE ~Linked(e)
  <2>1. succ[e] = NoNode
    BY <1>2 DEF RingDetachMacro
  <2>2. UNCHANGED ringVars
    BY <1>2, <2>1 DEF RingDetachMacro, Without, ringVars
  <2>. QED
    BY <2>2 DEF ringVars, RingInv, RingTyped, Once, Tied, Owned, Apart, Nth
<1>. QED
  BY <1>1, <1>2

LEMMA RingInvInit == RingInit => RingInv
<1> SUFFICES ASSUME RingInit PROVE RingInv
  OBVIOUS
<1>1. RingTyped
  BY DEF RingInit, RingTyped, Nodes
<1>2. \A h \in Heads : rings[h] = <<>> /\ Len(rings[h]) = 0 /\ h \in Nodes
  BY DEF RingInit, Nodes
<1>3. Once /\ Owned
  BY <1>2 DEF RingInit, Once, Owned
<1>4. Tied
  BY <1>2 DEF RingInit, Tied, Nth
<1>5. Apart
  BY DEF RingInit, Apart, Nodes
<1>. QED
  BY <1>1, <1>3, <1>4, <1>5 DEF RingInv

LEMMA RingInvNext == RingInv /\ [RingNext]_ringVars => RingInv'
<1> SUFFICES ASSUME RingInv, [RingNext]_ringVars PROVE RingInv'
  OBVIOUS
<1>1. ASSUME NEW r \in Nodes, NEW e \in Entries, RingAppend(r, e) \/ RingPrepend(r, e)
      PROVE  RingInv'
  BY <1>1, AppendStep, PrependStep
<1>2. ASSUME NEW e \in Nodes, RingDetach(e) PROVE RingInv'
  BY <1>2, DetachStep
<1>3. ASSUME NEW e \in Entries, RingDetachMacro(e) PROVE RingInv'
  BY <1>3, DetachMacroStep
<1>4. ASSUME NEW h \in Heads, RingPop(h) PROVE RingInv'
  <2>1. PICK e \in {RingFirst(h), RingLast(h)} \ {NoNode} : RingDetach(e)
    BY <1>4 DEF RingPop
  <2>2. h \in Nodes
    BY DEF Nodes
  <2>3. e \in Nodes
    BY <2>1, <2>2 DEF RingFirst, RingLast, RingInv, RingTyped
  <2>. QED
    BY <2>1, <2>3, DetachStep
<1>5. CASE UNCHANGED ringVars
  BY <1>5 DEF ringVars, RingInv, RingTyped, Once, Tied, Owned, Apart, Nth
<1>. QED
  BY <1>1, <1>2, <1>3, <1>4, <1>5 DEF RingNext

-----------------------------------------------------------------------------
\* A walk comes to the nodes of w, if next leads from each of them to the
\* one behind it.
LEMMA CursorIs ==
    ASSUME NEW next, NEW h, NEW w, Len(rings[h]) \in Nat,
           w[0] = h,
           \A i \in 1..(Len(rings[h]) + 1) : w[i] = next[w[i - 1]]
    PROVE  Walk(next, h) = [i \in 1..(Len(rings[h]) + 1) |-> w[i]]
<1> DEFINE v == [i \in 0..(Len(rings[h]) + 1) |-> w[i]]
           c == Cursor(next, h)
<1>1. v = [i \in 0..(Len(rings[h]) + 1) |-> IF i = 0 THEN h ELSE next[v[i - 1]]]
  <2>1. ASSUME NEW i \in 0..(Len(rings[h]) + 1)
        PROVE  v[i] = IF i = 0 THEN h ELSE next[v[i - 1]]
    <3>1. CASE i = 0
      BY <3>1
    <3>2. CASE i # 0
      <4>1. i \in 1..(Len(rings[h]) + 1) /\ i - 1 \in 0..(Len(rings[h]) + 1)
        BY <3>2
      <4>. QED
        BY <3>2, <4>1
    <3>. QED
      BY <3>1, <3>2
  <2>2. v = [i \in 0..(Len(rings[h]) + 1) |-> v[i]]
    OBVIOUS
  <2>. HIDE DEF v
  <2>. QED
    BY <2>1, <2>2
<1>. HIDE DEF v
<1>2. c = [i \in 0..(Len(rings[h]) + 1) |-> IF i = 0 THEN h ELSE next[c[i - 1]]]
  BY <1>1, Zenon DEF Cursor
<1>. HIDE DEF c
<1>3. \A i \in 0..(Len(rings[h]) + 1) : c[i] = IF i = 0 THEN h ELSE next[c[i - 1]]
  BY <1>2
<1> DEFINE T == {i \in Nat : i \in 0..(Len(rings[h]) + 1) /\ c[i] # w[i]}
<1>4. T = {}
  <2>1. SUFFICES ASSUME T # {} PROVE FALSE
    OBVIOUS
  <2>2. PICK n \in T : \A k \in T : n <= k
    <3>. T \in SUBSET Nat
      OBVIOUS
    <3>. HIDE DEF T
    <3>. QED
      BY <2>1, Least
  <2>3. n # 0
    BY <1>3
  <2>4. n \in 1..(Len(rings[h]) + 1) /\ n - 1 \in 0..(Len(rings[h]) + 1) /\ n - 1 \in Nat
        /\ ~(n <= n - 1)
    BY <2>3
  <2>5. c[n - 1] = w[n - 1]
    BY <2>2, <2>4
  <2>6. c[n] = w[n]
    BY <1>3, <2>3, <2>4, <2>5
  <2>. QED
    BY <2>6
<1>5. \A i \in 1..(Len(rings[h]) + 1) : c[i] = w[i]
  BY <1>4
<1>. QED
  BY <1>5 DEF Walk, c

\* The invariant says what the walks say.
LEMMA RingInvIsList == RingInv => RingIsItsList
<1> SUFFICES ASSUME RingInv PROVE RingIsItsList
  OBVIOUS
<1>0. RingTyped /\ Once /\ Tied /\ Owned /\ Apart
  BY DEF RingInv
<1>1. ASSUME NEW h \in Heads
      PROVE  /\ Walk(succ, h) = Append(rings[h], h)
             /\ Walk(pred, h) = Append(Reverse(rings[h]), h)
             /\ RingFirst(h) = IF rings[h] = <<>> THEN NoNode ELSE rings[h][1]
  <2> DEFINE n == Len(rings[h])
  <2>1. rings[h] \in Seq(Entries) /\ n \in Nat /\ h \notin Entries
        /\ \A i \in 1..n : rings[h][i] \in Entries
    BY <1>0, RingsAre, RingAssumption
  <2>2. \A i \in 0..n : succ[Nth(h, i)] = Nth(h, i + 1) /\ pred[Nth(h, i + 1)] = Nth(h, i)
    BY <1>0 DEF Tied
  <2>3. Nth(h, 0) = h /\ Nth(h, n + 1) = h /\ \A i \in 1..n : Nth(h, i) = rings[h][i]
    BY <2>1 DEF Nth
  <2>. n = Len(rings[h])
    OBVIOUS
  <2>4. Walk(succ, h) = Append(rings[h], h)
    <3> DEFINE w == [i \in 0..(n + 1) |-> Nth(h, i)]
    <3>1. w[0] = h
      BY <2>1, <2>3
    <3>2. ASSUME NEW i \in 1..(n + 1) PROVE w[i] = succ[w[i - 1]]
      <4>1. i - 1 \in 0..n /\ i - 1 + 1 = i /\ i - 1 \in 0..(n + 1) /\ i \in 0..(n + 1)
        BY <2>1
      <4>. HIDE DEF n
      <4>2. succ[Nth(h, i - 1)] = Nth(h, i)
        BY <2>2, <4>1
      <4>. QED
        BY <4>1, <4>2
    <3>3. \A i \in 1..(n + 1) : w[i] = Nth(h, i)
      BY <2>1
    <3>. HIDE DEF w
    <3>4. Walk(succ, h) = [i \in 1..(n + 1) |-> w[i]]
      BY <2>1, <3>1, <3>2, CursorIs
    <3>5. [i \in 1..(n + 1) |-> w[i]] = [i \in 1..(n + 1) |-> IF i = n + 1 THEN h ELSE rings[h][i]]
      <4> SUFFICES ASSUME NEW i \in 1..(n + 1) PROVE w[i] = IF i = n + 1 THEN h ELSE rings[h][i]
        OBVIOUS
      <4>1. i = n + 1 \/ i \in 1..n
        BY <2>1
      <4>. HIDE DEF n
      <4>. QED
        BY <3>3, <4>1, <2>1, <2>3
    <3>6. Append(rings[h], h) = [i \in 1..(n + 1) |-> IF i = n + 1 THEN h ELSE rings[h][i]]
      BY <2>1
    <3>. QED
      BY <3>4, <3>5, <3>6
  <2>5. Walk(pred, h) = Append(Reverse(rings[h]), h)
    <3> DEFINE w == [i \in 0..(n + 1) |-> Nth(h, n + 1 - i)]
               b == Reverse(rings[h])
    <3>1. w[0] = h
      BY <2>1, <2>3
    <3>2. ASSUME NEW i \in 1..(n + 1) PROVE w[i] = pred[w[i - 1]]
      <4>1. i - 1 \in 0..(n + 1) /\ i \in 0..(n + 1) /\ n + 1 - i \in 0..n
            /\ n + 1 - (i - 1) = n + 1 - i + 1
        BY <2>1
      <4>. HIDE DEF n
      <4>2. pred[Nth(h, n + 1 - i + 1)] = Nth(h, n + 1 - i)
        BY <2>2, <4>1
      <4>. QED
        BY <4>1, <4>2
    <3>3. \A i \in 1..(n + 1) : w[i] = Nth(h, n + 1 - i)
      BY <2>1
    <3>. HIDE DEF w
    <3>4. Walk(pred, h) = [i \in 1..(n + 1) |-> w[i]]
      BY <2>1, <3>1, <3>2, CursorIs
    <3>5. b = [i \in 1..n |-> rings[h][n - i + 1]]
      BY DEF Reverse
    <3>6. b \in Seq(Entries) /\ Len(b) = n
      <4>1. \A i \in 1..n : n - i + 1 \in 1..n
        BY <2>1
      <4>2. b \in [1..n -> Entries]
        BY <2>1, <3>5, <4>1
      <4>. HIDE DEF b, n
      <4>. QED
        BY <4>2, <2>1
    <3>7. \A i \in 1..n : b[i] = rings[h][n - i + 1]
      BY <3>5
    <3>. HIDE DEF b
    <3>8. [i \in 1..(n + 1) |-> w[i]] = [i \in 1..(n + 1) |-> IF i = n + 1 THEN h ELSE b[i]]
      <4> SUFFICES ASSUME NEW i \in 1..(n + 1) PROVE w[i] = IF i = n + 1 THEN h ELSE b[i]
        OBVIOUS
      <4>1. CASE i = n + 1
        <5>1. n + 1 - i = 0
          BY <2>1, <4>1
        <5>. QED
          BY <3>3, <4>1, <5>1, <2>3
      <4>2. CASE i # n + 1
        <5>1. i \in 1..n /\ n + 1 - i \in 1..n /\ n - i + 1 = n + 1 - i
          BY <2>1, <4>2
        <5>. HIDE DEF n
        <5>. QED
          BY <3>3, <3>7, <4>2, <5>1, <2>3
      <4>. QED
        BY <4>1, <4>2
    <3>9. Append(b, h) = [i \in 1..(n + 1) |-> IF i = n + 1 THEN h ELSE b[i]]
      <4>1. b \in Seq(Nodes) /\ h \in Nodes
        BY <3>6 DEF Nodes
      <4>2. /\ Append(b, h) \in Seq(Nodes)
            /\ Len(Append(b, h)) = n + 1
            /\ \A i \in 1..n : Append(b, h)[i] = b[i]
            /\ Append(b, h)[n + 1] = h
        BY <3>6, <4>1, AppendProperties
      <4>3. Append(b, h) = [i \in 1..(n + 1) |-> Append(b, h)[i]]
        <5> DEFINE c == Append(b, h)
        <5>1. c \in Seq(Nodes) /\ Len(c) = n + 1
          BY <4>2
        <5>. HIDE DEF n, c
        <5>2. c = [i \in 1..(n + 1) |-> c[i]]
          BY <5>1
        <5>. QED
          BY <5>2 DEF c
      <4>4. \A i \in 1..(n + 1) : i = n + 1 \/ i \in 1..n
        BY <2>1
      <4>. HIDE DEF n
      <4>. QED
        BY <4>2, <4>3, <4>4
    <3>. QED
      BY <3>4, <3>8, <3>9 DEF b
  <2>6. RingFirst(h) = IF rings[h] = <<>> THEN NoNode ELSE rings[h][1]
    <3>1. 0 \in 0..n /\ 0 + 1 = 1
      BY <2>1
    <3>2. succ[h] = Nth(h, 1)
      BY <2>2, <2>3, <3>1
    <3>3. CASE rings[h] = <<>>
      BY <3>2, <3>3 DEF RingFirst, Nth
    <3>4. CASE rings[h] # <<>>
      <4>1. 1 \in 1..n
        BY <2>1, <3>4, EmptySeq
      <4>2. succ[h] = rings[h][1] /\ rings[h][1] # h
        BY <3>2, <4>1, <2>1, <2>3
      <4>. QED
        BY <3>4, <4>2 DEF RingFirst
    <3>. QED
      BY <3>3, <3>4
  <2>. QED
    BY <2>4, <2>5, <2>6
<1>2. ASSUME NEW e \in Entries, Linked(e)
      PROVE  parent[e] = HeadOf(e)
  <2>1. e \in Nodes /\ e \notin Heads
    BY RingAssumption DEF Nodes
  <2>2. /\ HeadOf(e) \in Heads
        /\ Place(e) \in 1..Len(rings[HeadOf(e)])
        /\ rings[HeadOf(e)][Place(e)] = e
    BY <1>0, <1>2, <2>1, PlaceIs
  <2>. QED
    BY <1>0, <2>2 DEF Owned
<1>3. ASSUME NEW e \in Entries, ~Linked(e)
      PROVE  (parent[e] = e /\ succ[e] = e) \/ succ[e] = NoNode
  BY <1>0, <1>3, LinkedIs DEF Apart
<1>. QED
  BY <1>0, <1>1, <1>2, <1>3 DEF RingIsItsList, Owned

\* However entries are put in, taken out, moved and taken out twice, a loop
\* over a ring in either direction comes to the entries of the ring in their
\* order, the length counts them, and the parent of an entry is its ring.
THEOREM RingIsItsListAlways == RingSpec => []RingIsItsList
<1>1. RingSpec => []RingInv
  BY RingInvInit, RingInvNext, PTL DEF RingSpec
<1>. QED
  BY <1>1, RingInvIsList, PTL

-----------------------------------------------------------------------------
(***************************************************************************)
(* The array.  What is listed are the first count slots.                   *)
(***************************************************************************)
Slots == Objs \cup {Nothing}

ArrayInv ==
    /\ items \in Seq(Slots) /\ count \in 0..Len(items)
    /\ freed \subseteq Objs
    /\ \A i \in 1..count : items[i] \in Objs \ freed
    /\ \A i, j \in 1..count : items[i] = items[j] => i = j
    /\ iter.i \in Int /\ iter.dir \in {-1, 0, 1}
    /\ iter = [i |-> iter.i, dir |-> iter.dir, ptr |-> iter.ptr]

\* The beginning of a sequence.
LEMMA FirstAre ==
    ASSUME NEW S, NEW a \in Seq(S), NEW n \in 0..Len(a)
    PROVE  /\ SubSeq(a, 1, n) \in Seq(S)
           /\ Len(SubSeq(a, 1, n)) = n
           /\ \A i \in 1..n : SubSeq(a, 1, n)[i] = a[i]
<1>1. Len(a) \in Nat /\ \A i \in 1..Len(a) : a[i] \in S
  BY LenProperties, ElementOfSeq
<1>2. 1 \in Int /\ n \in Int /\ \A i \in 1..n : a[i] \in S
  BY <1>1
<1>3. /\ SubSeq(a, 1, n) \in Seq(S)
      /\ Len(SubSeq(a, 1, n)) = IF 1 <= n THEN n - 1 + 1 ELSE 0
      /\ \A i \in 1..(n - 1 + 1) : SubSeq(a, 1, n)[i] = a[1 + i - 1]
  BY <1>2, SubSeqProperties
<1>. QED
  BY <1>1, <1>3

LEMMA SameList ==
    ASSUME NEW S, NEW p \in Seq(S), NEW q \in Seq(S), Len(p) = Len(q),
           \A i \in 1..Len(q) : p[i] = q[i]
    PROVE  p = q
BY SeqEqual

\* A sequence without the entries from i + 1 to k.
Cut(q, i, k) == SubSeq(q, 1, i) \o SubSeq(q, k + 1, Len(q))

LEMMA CutIs ==
    ASSUME NEW S, NEW q \in Seq(S), NEW i \in 0..Len(q), NEW k \in i..Len(q)
    PROVE  /\ Cut(q, i, k) \in Seq(S)
           /\ Len(Cut(q, i, k)) = Len(q) - (k - i)
           /\ \A m \in 1..(Len(q) - (k - i)) :
                 Cut(q, i, k)[m] = IF m <= i THEN q[m] ELSE q[m + (k - i)]
<1>0. Len(q) \in Nat /\ \A m \in 1..Len(q) : q[m] \in S
  BY LenProperties, ElementOfSeq
<1> DEFINE a == SubSeq(q, 1, i)
           b == SubSeq(q, k + 1, Len(q))
           n == Len(q) - (k - i)
<1>1. a \in Seq(S) /\ Len(a) = i /\ \A m \in 1..i : a[m] = q[m]
  BY FirstAre
<1>2. b \in Seq(S) /\ Len(b) = Len(q) - k /\ \A m \in 1..(Len(q) - k) : b[m] = q[k + m]
  <2>1. k + 1 \in Int /\ Len(q) \in Int /\ \A m \in (k + 1)..Len(q) : q[m] \in S
    BY <1>0
  <2>2. /\ SubSeq(q, k + 1, Len(q)) \in Seq(S)
        /\ Len(SubSeq(q, k + 1, Len(q))) = IF k + 1 <= Len(q) THEN Len(q) - (k + 1) + 1 ELSE 0
        /\ \A m \in 1..(Len(q) - (k + 1) + 1) :
              SubSeq(q, k + 1, Len(q))[m] = q[k + 1 + m - 1]
    BY <2>1, SubSeqProperties
  <2>. QED
    BY <2>2, <1>0
<1> HIDE DEF a, b
<1>3. /\ a \o b \in Seq(S)
      /\ Len(a \o b) = Len(a) + Len(b)
      /\ \A m \in 1..(Len(a) + Len(b)) :
            (a \o b)[m] = IF m <= Len(a) THEN a[m] ELSE b[m - Len(a)]
  BY <1>1, <1>2, ConcatProperties
<1>4. Len(a) + Len(b) = n
  BY <1>0, <1>1, <1>2
<1>5. ASSUME NEW m \in 1..n
      PROVE  (a \o b)[m] = IF m <= i THEN q[m] ELSE q[m + (k - i)]
  <2>1. CASE m <= i
    BY <2>1, <1>0, <1>1, <1>3, <1>4
  <2>2. CASE m > i
    <3>1. m - i \in 1..(Len(q) - k) /\ ~(m <= i)
      BY <2>2, <1>0
    <3>2. (a \o b)[m] = b[m - i]
      BY <3>1, <1>1, <1>3, <1>4
    <3>3. b[m - i] = q[k + (m - i)] /\ k + (m - i) = m + (k - i)
      BY <3>1, <1>0, <1>2
    <3>. QED
      BY <3>1, <3>2, <3>3
  <2>3. m <= i \/ m > i
    BY <1>0
  <2>. QED
    BY <2>1, <2>2, <2>3
<1>. QED
  BY <1>3, <1>4, <1>5 DEF Cut, a, b

\* The listed entries are among the slots.
LEMMA ArrayIs ==
    ASSUME ArrayInv
    PROVE  /\ items \in Seq(Slots) /\ Len(items) \in Nat /\ count \in Nat
           /\ items = [i \in 1..Len(items) |-> items[i]]
           /\ \A i \in 1..Len(items) : items[i] \in Slots
           /\ Listed \in Seq(Slots) /\ Len(Listed) = count
           /\ \A i \in 1..count : Listed[i] = items[i]
<1>1. items \in Seq(Slots) /\ count \in 0..Len(items)
  BY DEF ArrayInv
<1>2. Len(items) \in Nat /\ \A i \in 1..Len(items) : items[i] \in Slots
  BY <1>1, LenProperties, ElementOfSeq
<1>3. items = [i \in 1..Len(items) |-> items[i]]
  BY <1>1
<1>4. Listed \in Seq(Slots) /\ Len(Listed) = count /\ \A i \in 1..count : Listed[i] = items[i]
  BY <1>1, FirstAre DEF Listed
<1>. QED
  BY <1>1, <1>2, <1>3, <1>4

\* The entries from i + 1 to k are taken out, those behind them move down, and
\* free_fn is given none but them.
LEMMA TakingOut ==
    ASSUME ArrayInv, NEW i \in 0..count, NEW k \in i..count,
           items' \in Seq(Slots), Len(items') = Len(items),
           \A m \in 1..i : items'[m] = items[m],
           \A m \in (i + 1)..(count - (k - i)) : items'[m] = items[m + (k - i)],
           count' = count - (k - i),
           freed' \subseteq Objs,
           \A x \in freed' : x \in freed \/ \E m \in (i + 1)..k : x = items[m],
           UNCHANGED iter
    PROVE  ArrayInv' /\ Listed' = Cut(Listed, i, k)
<1>1. /\ items \in Seq(Slots) /\ Len(items) \in Nat /\ count \in Nat
      /\ Listed \in Seq(Slots) /\ Len(Listed) = count
      /\ \A m \in 1..count : Listed[m] = items[m]
  BY ArrayIs
<1>2. count' \in 0..Len(items') /\ count' \in 0..count /\ count <= Len(items)
  BY <1>1 DEF ArrayInv
<1> DEFINE from(m) == IF m <= i THEN m ELSE m + (k - i)
<1>3. ASSUME NEW m \in 1..count'
      PROVE  /\ from(m) \in 1..count /\ from(m) \notin (i + 1)..k
             /\ items'[m] = items[from(m)]
  <2>1. CASE m <= i
    <3>1. m \in 1..i
      BY <2>1, <1>1
    <3>. QED
      BY <3>1, <2>1, <1>1
  <2>2. CASE m > i
    <3>1. m \in (i + 1)..(count - (k - i)) /\ ~(m <= i)
      BY <2>2, <1>1
    <3>. QED
      BY <3>1, <1>1
  <2>. QED
    BY <2>1, <2>2, <1>1
<1>4. \A m, n \in 1..count' : from(m) = from(n) => m = n
  BY <1>1, <1>2
<1>5. ArrayInv'
  <2>1. \A m \in 1..count' : items'[m] \in Objs \ freed'
    <3> SUFFICES ASSUME NEW m \in 1..count', items'[m] \in freed' PROVE FALSE
      BY <1>3 DEF ArrayInv
    <3>. HIDE DEF from
    <3>1. items[from(m)] \notin freed /\ items'[m] = items[from(m)] /\ from(m) \in 1..count
          /\ from(m) \notin (i + 1)..k
      BY <1>3 DEF ArrayInv
    <3>2. PICK n \in (i + 1)..k : items'[m] = items[n]
      BY <3>1
    <3>3. n \in 1..count
      BY <1>1
    <3>4. n = from(m)
      BY <3>1, <3>2, <3>3 DEF ArrayInv
    <3>. QED
      BY <3>1, <3>4
  <2>2. \A m, n \in 1..count' : items'[m] = items'[n] => m = n
    <3> SUFFICES ASSUME NEW m \in 1..count', NEW n \in 1..count', items'[m] = items'[n]
                 PROVE  m = n
      OBVIOUS
    <3>. HIDE DEF from
    <3>1. items[from(m)] = items[from(n)] /\ from(m) \in 1..count /\ from(n) \in 1..count
      BY <1>3
    <3>2. from(m) = from(n)
      BY <3>1 DEF ArrayInv
    <3>. QED
      BY <1>4, <3>2
  <2>. QED
    BY <1>2, <2>1, <2>2 DEF ArrayInv
<1>6. Listed' \in Seq(Slots) /\ Len(Listed') = count' /\ \A m \in 1..count' : Listed'[m] = items'[m]
  BY <1>2, FirstAre DEF Listed
<1> DEFINE c == Cut(Listed, i, k)
<1>7. /\ c \in Seq(Slots) /\ Len(c) = count'
      /\ \A m \in 1..count' : c[m] = IF m <= i THEN Listed[m] ELSE Listed[m + (k - i)]
  <2>1. i \in 0..Len(Listed) /\ k \in i..Len(Listed) /\ Listed \in Seq(Slots)
    BY <1>1
  <2>2. /\ c \in Seq(Slots)
        /\ Len(c) = Len(Listed) - (k - i)
        /\ \A m \in 1..(Len(Listed) - (k - i)) :
              c[m] = IF m <= i THEN Listed[m] ELSE Listed[m + (k - i)]
    BY <2>1, CutIs
  <2>. QED
    BY <1>1, <2>2
<1>. HIDE DEF c
<1>8. \A m \in 1..count' : Listed'[m] = c[m]
  BY <1>1, <1>3, <1>6, <1>7, SMTT(20)
<1>9. Listed' = c
  BY <1>6, <1>7, <1>8, SameList
<1>. QED
  BY <1>5, <1>9 DEF c

\* What a call owes: the list is as it was or as the call means it.
Did ==
    /\ ArrayInv'
    /\ Listed' = Listed \/ Listed' = Meant(Listed, call')
    /\ call'.op # "none" => Listed' = Meant(Listed, call')

\* A call that changes no list, though it may free what is not in it.
LEMMA NothingDone ==
    ASSUME ArrayInv, NEW F \in SUBSET Objs, \A m \in 1..count : items[m] \notin F, NEW r,
           items' = items, count' = count, freed' = freed \cup F,
           call' = [op |-> "none", ret |-> r], UNCHANGED iter
    PROVE  Did
<1>1. ArrayInv'
  BY DEF ArrayInv
<1>2. Listed' = Listed
  BY DEF Listed
<1>. QED
  BY <1>1, <1>2 DEF Did

\* The entries from position i to j are taken out of b, which has the others as
\* they were.
LEMMA MovingDown ==
    ASSUME ArrayInv, NEW i \in 0..count, NEW j \in (i - 1)..(count - 1),
           NEW b \in Seq(Slots), Len(b) = Len(items),
           \A m \in 1..count : m \notin (i + 1)..(j + 1) => b[m] = items[m],
           NEW F \in SUBSET Objs, \A x \in F : \E m \in (i + 1)..(j + 1) : x = items[m],
           NEW r,
           items' = MovedDown(b, i, j, count), count' = count - (j - i + 1),
           freed' = freed \cup F,
           call' = [op |-> "remove", from |-> i, to |-> j, ret |-> r], UNCHANGED iter
    PROVE  Did
<1> DEFINE k == j + 1
<1>1. /\ Len(items) \in Nat /\ count \in Nat /\ count <= Len(items)
      /\ \A m \in 1..Len(items) : items[m] \in Slots
  BY ArrayIs DEF ArrayInv
<1>2. k \in i..count /\ k \in Nat /\ i \in Nat /\ j \in Int /\ j = k - 1
  BY <1>1
<1>3. DOMAIN b = 1..Len(items) /\ \A m \in 1..Len(items) : b[m] \in Slots
  BY <1>1, ElementOfSeq
<1>. HIDE DEF k
<1>4. items' = [m \in 1..Len(items) |->
                  IF m - 1 >= i /\ m + (k - i) <= count THEN b[m + (k - i)] ELSE b[m]]
  <2>1. items' = [m \in 1..Len(items) |->
                    IF m - 1 >= i /\ m + j - i < count THEN b[m + j - i + 1] ELSE b[m]]
    BY <1>3 DEF MovedDown
  <2>2. ASSUME NEW m \in 1..Len(items)
        PROVE  (IF m - 1 >= i /\ m + j - i < count THEN b[m + j - i + 1] ELSE b[m])
                 = IF m - 1 >= i /\ m + (k - i) <= count THEN b[m + (k - i)] ELSE b[m]
    <3>1. m + j - i + 1 = m + (k - i) /\ (m + j - i < count <=> m + (k - i) <= count)
      BY <1>1, <1>2, SMTT(20)
    <3>. QED
      BY <3>1
  <2>. QED
    BY <2>1, <2>2
<1>5. \A m \in 1..Len(items) : items'[m] \in Slots
  <2> SUFFICES ASSUME NEW m \in 1..Len(items), m - 1 >= i, m + (k - i) <= count
               PROVE  b[m + (k - i)] \in Slots
    BY <1>3, <1>4
  <2>1. m + (k - i) \in 1..Len(items)
    BY <1>1, <1>2
  <2>. QED
    BY <2>1, <1>3
<1>6. items' \in Seq(Slots) /\ Len(items') = Len(items)
  <2>1. items' \in [1..Len(items) -> Slots]
    BY <1>4, <1>5
  <2> DEFINE n == Len(items)
             c == items'
  <2>. HIDE DEF n, c
  <2>2. c \in [1..n -> Slots] /\ n \in Nat
    BY <2>1, <1>1 DEF n, c
  <2>3. c \in Seq(Slots) /\ Len(c) = n
    BY <2>2
  <2>. QED
    BY <2>3 DEF n, c
<1>7. ASSUME NEW m \in 1..i PROVE items'[m] = items[m]
  <2>1. m \in 1..count /\ m \in 1..Len(items) /\ ~(m - 1 >= i) /\ m \notin (i + 1)..(j + 1)
    BY <1>1, <1>2
  <2>. QED
    BY <2>1, <1>4
<1>8. ASSUME NEW m \in (i + 1)..(count - (k - i)) PROVE items'[m] = items[m + (k - i)]
  <2>1. m \in 1..Len(items) /\ m - 1 >= i /\ m + (k - i) <= count /\ m + (k - i) \in 1..count
        /\ m + (k - i) \notin (i + 1)..(j + 1)
    BY <1>1, <1>2, SMTT(20)
  <2>. QED
    BY <2>1, <1>4
<1>9. count' = count - (k - i)
  BY <1>1, <1>2
<1>10. freed' \subseteq Objs /\ \A x \in freed' : x \in freed \/ \E m \in (i + 1)..k : x = items[m]
  BY DEF ArrayInv, k
<1>11. ArrayInv' /\ Listed' = Cut(Listed, i, k)
  BY <1>2, <1>6, <1>7, <1>8, <1>9, <1>10, TakingOut
<1>12. Meant(Listed, call') = Cut(Listed, i, k)
  <2>1. call'.op = "remove" /\ call'.from = i /\ call'.to = j
    OBVIOUS
  <2>2. Meant(Listed, call') = SubSeq(Listed, 1, i) \o SubSeq(Listed, j + 2, Len(Listed))
    BY <2>1 DEF Meant
  <2>3. j + 2 = k + 1
    BY <1>2
  <2>. QED
    BY <2>2, <2>3 DEF Cut
<1>. QED
  BY <1>11, <1>12 DEF Did

LEMMA FreedIs ==
    ASSUME ArrayInv, NEW i \in 0..count, NEW j \in (i - 1)..(count - 1), NEW fn \in BOOLEAN
    PROVE  /\ FreedOf(i, j, fn) \in SUBSET Objs
           /\ \A x \in FreedOf(i, j, fn) : \E m \in (i + 1)..(j + 1) : x = items[m]
<1>1. count \in Nat
  BY ArrayIs
<1>2. \A m \in i..j : m + 1 \in 1..count /\ m + 1 \in (i + 1)..(j + 1)
  BY <1>1
<1>3. \A m \in i..j : items[m + 1] \in Objs
  BY <1>2 DEF ArrayInv
<1>. QED
  BY <1>2, <1>3 DEF FreedOf

LEMMA ClearedIs ==
    ASSUME ArrayInv, NEW i \in 0..count, NEW j \in (i - 1)..(count - 1), NEW fn \in BOOLEAN
    PROVE  /\ Cleared(items, i, j, fn) \in Seq(Slots)
           /\ Len(Cleared(items, i, j, fn)) = Len(items)
           /\ \A m \in 1..count : m \notin (i + 1)..(j + 1) => Cleared(items, i, j, fn)[m] = items[m]
<1>1. /\ Len(items) \in Nat /\ count \in Nat /\ count <= Len(items)
      /\ \A m \in 1..Len(items) : items[m] \in Slots
      /\ DOMAIN items = 1..Len(items)
  BY ArrayIs DEF ArrayInv
<1> DEFINE c == Cleared(items, i, j, fn)
<1>2. c = [m \in 1..Len(items) |-> IF fn /\ m - 1 \in i..j THEN Nothing ELSE items[m]]
  BY <1>1 DEF Cleared
<1>. HIDE DEF c
<1>3. c \in [1..Len(items) -> Slots]
  BY <1>1, <1>2 DEF Slots
<1>4. \A m \in 1..count : m \notin (i + 1)..(j + 1) => c[m] = items[m]
  BY <1>1, <1>2
<1>5. c \in Seq(Slots) /\ Len(c) = Len(items)
  BY <1>1, <1>3
<1>. QED
  BY <1>4, <1>5 DEF c

LEMMA OneCleared ==
    ASSUME ArrayInv, NEW p \in 0..(count - 1)
    PROVE  /\ [items EXCEPT ![p + 1] = Nothing] \in Seq(Slots)
           /\ Len([items EXCEPT ![p + 1] = Nothing]) = Len(items)
           /\ \A m \in 1..count : m \notin (p + 1)..(p + 1) =>
                 [items EXCEPT ![p + 1] = Nothing][m] = items[m]
<1>1. /\ Len(items) \in Nat /\ count \in Nat /\ count <= Len(items)
      /\ \A m \in 1..Len(items) : items[m] \in Slots
      /\ items = [m \in 1..Len(items) |-> items[m]]
  BY ArrayIs DEF ArrayInv
<1> DEFINE c == [items EXCEPT ![p + 1] = Nothing]
<1>2. c = [m \in 1..Len(items) |-> IF m = p + 1 THEN Nothing ELSE items[m]]
  BY <1>1
<1>. HIDE DEF c
<1>3. c \in [1..Len(items) -> Slots]
  BY <1>1, <1>2 DEF Slots
<1>4. \A m \in 1..count : m \notin (p + 1)..(p + 1) => c[m] = items[m]
  BY <1>1, <1>2
<1>5. c \in Seq(Slots) /\ Len(c) = Len(items)
  BY <1>1, <1>3
<1>. QED
  BY <1>4, <1>5 DEF c

\* An object that was in no slot comes to position p, the entries from there on
\* move up.
LEMMA PuttingIn ==
    ASSUME ArrayInv, NEW p \in 0..count, NEW o \in Objs, o \notin freed,
           \A m \in 1..count : items[m] # o,
           items' \in Seq(Slots), count + 1 <= Len(items'),
           \A m \in 1..(count + 1) : items'[m] = IF m < p + 1 THEN items[m]
                                                 ELSE IF m = p + 1 THEN o ELSE items[m - 1],
           count' = count + 1, freed' = freed,
           call' = [op |-> "insert", at |-> p, obj |-> o, ret |-> p], UNCHANGED iter
    PROVE  Did
<1>1. /\ count \in Nat /\ Listed \in Seq(Slots) /\ Len(Listed) = count
      /\ \A m \in 1..count : Listed[m] = items[m]
  BY ArrayIs
<1>2. count' \in 0..Len(items')
  <2>1. Len(items') \in Nat
    BY LenProperties
  <2>. QED
    BY <2>1, <1>1
<1> DEFINE from(m) == IF m < p + 1 THEN m ELSE m - 1
<1>3. ASSUME NEW m \in 1..(count + 1)
      PROVE  \/ m = p + 1 /\ items'[m] = o
             \/ m # p + 1 /\ from(m) \in 1..count /\ items'[m] = items[from(m)]
  <2>1. CASE m < p + 1
    BY <2>1, <1>1
  <2>2. CASE m = p + 1
    BY <2>2, <1>1
  <2>3. CASE m > p + 1
    <3>1. ~(m < p + 1) /\ m # p + 1 /\ m - 1 \in 1..count
      BY <2>3, <1>1
    <3>. QED
      BY <3>1
  <2>. QED
    BY <2>1, <2>2, <2>3, <1>1
<1>4. \A m, n \in 1..(count + 1) : m # p + 1 /\ n # p + 1 /\ from(m) = from(n) => m = n
  BY <1>1
<1>. HIDE DEF from
<1>5. ArrayInv'
  <2>1. \A m \in 1..count' : items'[m] \in Objs \ freed'
    BY <1>3 DEF ArrayInv
  <2>2. ASSUME NEW m \in 1..count', NEW n \in 1..count', items'[m] = items'[n]
        PROVE  m = n
    <3>1. CASE m = p + 1 /\ n = p + 1
      BY <3>1
    <3>2. CASE m = p + 1 /\ n # p + 1
      <4>1. items'[m] = o /\ items'[n] # o
        BY <3>2, <1>3
      <4>. QED
        BY <4>1, <2>2
    <3>3. CASE m # p + 1 /\ n = p + 1
      <4>1. items'[n] = o /\ items'[m] # o
        BY <3>3, <1>3
      <4>. QED
        BY <4>1, <2>2
    <3>4. CASE m # p + 1 /\ n # p + 1
      <4>1. from(m) \in 1..count /\ from(n) \in 1..count /\ items[from(m)] = items[from(n)]
        BY <3>4, <2>2, <1>3
      <4>2. from(m) = from(n)
        BY <4>1 DEF ArrayInv
      <4>. QED
        BY <1>4, <3>4, <4>2
    <3>. QED
      BY <3>1, <3>2, <3>3, <3>4
  <2>. QED
    BY <1>2, <2>1, <2>2 DEF ArrayInv
<1>6. Listed' \in Seq(Slots) /\ Len(Listed') = count' /\ \A m \in 1..count' : Listed'[m] = items'[m]
  BY <1>2, FirstAre DEF Listed
<1> DEFINE c == InsertAt(Listed, p + 1, o)
<1>7. /\ c \in Seq(Slots) /\ Len(c) = count'
      /\ \A m \in 1..count' : c[m] = IF m < p + 1 THEN Listed[m]
                                     ELSE IF m = p + 1 THEN o ELSE Listed[m - 1]
  <2> DEFINE r == p + 1
  <2>1. r \in 1..(Len(Listed) + 1) /\ o \in Slots /\ Listed \in Seq(Slots)
    BY <1>1 DEF Slots
  <2>. HIDE DEF r
  <2>2. /\ InsertAt(Listed, r, o) \in Seq(Slots)
        /\ Len(InsertAt(Listed, r, o)) = Len(Listed) + 1
        /\ \A m \in 1..(Len(Listed) + 1) :
              InsertAt(Listed, r, o)[m] = IF m < r THEN Listed[m]
                                          ELSE IF m = r THEN o ELSE Listed[m - 1]
    BY <2>1, InsertedIs
  <2>. QED
    BY <1>1, <2>2 DEF r
<1>. HIDE DEF c
<1>8. ASSUME NEW m \in 1..count' PROVE Listed'[m] = c[m]
  <2>1. CASE m < p + 1
    <3>1. m \in 1..count /\ m \in 1..(count + 1)
      BY <2>1, <1>1
    <3>. QED
      BY <3>1, <2>1, <1>1, <1>6, <1>7
  <2>2. CASE m = p + 1
    BY <2>2, <1>1, <1>6, <1>7
  <2>3. CASE m > p + 1
    <3>1. ~(m < p + 1) /\ m # p + 1 /\ m - 1 \in 1..count
      BY <2>3, <1>1
    <3>. QED
      BY <3>1, <1>1, <1>6, <1>7
  <2>. QED
    BY <2>1, <2>2, <2>3, <1>1
<1>9. Listed' = c
  BY <1>6, <1>7, <1>8, SameList
<1>10. Meant(Listed, call') = c
  <2>1. call'.op = "insert" /\ call'.at = p /\ call'.obj = o
    OBVIOUS
  <2>. QED
    BY <2>1 DEF Meant, c
<1>. QED
  BY <1>5, <1>9, <1>10 DEF Did

LEMMA RoundUpIs ==
    ASSUME NEW n \in Nat \ {0}
    PROVE  RoundUp(n) \in Nat \ {0}
<1>1. Unit \in Nat \ {0}
  BY ArrayAssumption
<1>2. n + Unit - 1 \in Nat /\ Unit <= n + Unit - 1
  BY <1>1
<1> DEFINE a == n + Unit - 1
<1>. HIDE DEF a
<1>3. a \div Unit \in Nat /\ 1 <= a \div Unit
  <2>1. a \in Nat /\ Unit <= a
    BY <1>2 DEF a
  <2>. QED
    BY <1>1, <2>1
<1> DEFINE b == a \div Unit
<1>. HIDE DEF b
<1>4. b \in Nat \ {0}
  BY <1>3 DEF b
<1>5. b * Unit \in Nat \ {0}
  BY <1>1, <1>4
<1>. QED
  BY <1>5 DEF RoundUp, a, b

\* There is room for one more entry, and none is lost.
LEMMA RoomIs ==
    ASSUME ArrayInv, NEW n \in Nat \ {0},
           NEW a, a = IF count >= Capacity(items) THEN Grow(items, n) ELSE items,
           n >= count + 1
    PROVE  /\ a \in Seq(Slots) /\ Len(a) \in Nat /\ count + 1 <= Len(a)
           /\ DOMAIN a = 1..Len(a)
           /\ \A m \in 1..Len(a) : a[m] \in Slots
           /\ \A m \in 1..count : a[m] = items[m]
<1>1. /\ Len(items) \in Nat /\ count \in Nat /\ count <= Len(items)
      /\ \A m \in 1..Len(items) : items[m] \in Slots
      /\ items \in Seq(Slots)
  BY ArrayIs DEF ArrayInv
<1>2. CASE count < Len(items)
  <2>1. a = items
    BY <1>1, <1>2 DEF Capacity
  <2>. QED
    BY <2>1, <1>1, <1>2
<1>3. CASE count = Len(items)
  <2> DEFINE l == Len(items) + RoundUp(n)
  <2>1. RoundUp(n) \in Nat \ {0}
    BY RoundUpIs
  <2>2. l \in Nat /\ count + 1 <= l
    BY <1>1, <1>3, <2>1
  <2>3. a = [m \in 1..l |-> IF m <= count THEN items[m] ELSE Nothing]
    BY <1>1, <1>3 DEF Grow, Capacity
  <2>. HIDE DEF l
  <2>4. \A m \in 1..l : (IF m <= count THEN items[m] ELSE Nothing) \in Slots
    BY <1>1, <1>3 DEF Slots
  <2>5. a \in [1..l -> Slots]
    BY <2>3, <2>4
  <2>6. a \in Seq(Slots) /\ Len(a) = l
    BY <2>2, <2>5
  <2>7. \A m \in 1..count : a[m] = items[m]
    BY <1>1, <2>2, <2>3
  <2>. QED
    BY <2>2, <2>5, <2>6, <2>7
<1>. QED
  BY <1>1, <1>2, <1>3

LEMMA FreshIs ==
    ASSUME ArrayInv, NEW o \in Fresh
    PROVE  o \in Objs /\ o \notin freed /\ \A m \in 1..count : items[m] # o
<1>1. \A m \in 1..count : m \in DOMAIN items
  BY ArrayIs DEF ArrayInv
<1>. QED
  BY <1>1 DEF Fresh, Range

LEMMA AppendDid ==
    ASSUME ArrayInv, NEW o \in Fresh, AppendObj(o)
    PROVE  Did
<1> DEFINE n == count + Unit
           a == IF count >= Capacity(items) THEN Grow(items, n) ELSE items
<1>1. /\ o \in Objs /\ o \notin freed /\ \A m \in 1..count : items[m] # o
      /\ count \in Nat /\ Unit \in Nat \ {0}
  BY FreshIs, ArrayIs, ArrayAssumption
<1>2. n \in Nat \ {0} /\ n >= count + 1
  BY <1>1
<1>3. /\ items' = [a EXCEPT ![count + 1] = o]
      /\ count' = count + 1 /\ freed' = freed /\ UNCHANGED iter
      /\ call' = [op |-> "insert", at |-> count, obj |-> o, ret |-> count]
  BY DEF AppendObj, Leaves
<1>. HIDE DEF n
<1>4. /\ a \in Seq(Slots) /\ Len(a) \in Nat /\ count + 1 <= Len(a)
      /\ DOMAIN a = 1..Len(a)
      /\ \A m \in 1..Len(a) : a[m] \in Slots
      /\ \A m \in 1..count : a[m] = items[m]
  BY <1>2, RoomIs
<1>. HIDE DEF a
<1> DEFINE l == Len(a)
<1>5. items' = [m \in 1..l |-> IF m = count + 1 THEN o ELSE a[m]]
  BY <1>3, <1>4
<1>6. l \in Nat /\ count + 1 <= l /\ \A m \in 1..l : a[m] \in Slots
  BY <1>4
<1>. HIDE DEF l
<1>7. items' \in Seq(Slots) /\ Len(items') = l
  <2> DEFINE c == items'
  <2>1. c \in [1..l -> Slots]
    BY <1>1, <1>5, <1>6 DEF Slots
  <2>. HIDE DEF c
  <2>2. c \in Seq(Slots) /\ Len(c) = l
    BY <1>6, <2>1
  <2>. QED
    BY <2>2 DEF c
<1>8. \A m \in 1..(count + 1) : items'[m] = IF m < count + 1 THEN items[m]
                                            ELSE IF m = count + 1 THEN o ELSE items[m - 1]
  <2> TAKE m \in 1..(count + 1)
  <2>1. m \in 1..l /\ (m = count + 1 \/ (m \in 1..count /\ m < count + 1 /\ m # count + 1))
    BY <1>1, <1>6
  <2>. QED
    BY <2>1, <1>4, <1>5
<1>9. count \in 0..count
  BY <1>1
<1>. QED
  BY <1>1, <1>3, <1>6, <1>7, <1>8, <1>9, PuttingIn

LEMMA InsertDid ==
    ASSUME ArrayInv, NEW o \in Fresh, NEW p \in 0..count, NEW e \in {0, 1},
           InsertObj(p, e, o)
    PROVE  Did
<1> DEFINE n == count + 1
           a == IF count >= Capacity(items) THEN Grow(items, n) ELSE items
<1>1. /\ o \in Objs /\ o \notin freed /\ \A m \in 1..count : items[m] # o
      /\ count \in Nat
  BY FreshIs, ArrayIs
<1>2. n \in Nat \ {0} /\ n >= count + 1
  BY <1>1
<1>3. CASE p - e \in 0..(count - 1)
  <2>1. /\ items' = Inserted(a, p, o)
        /\ count' = count + 1 /\ freed' = freed /\ UNCHANGED iter
        /\ call' = [op |-> "insert", at |-> p, obj |-> o, ret |-> p]
    BY <1>3 DEF InsertObj, Leaves
  <2>. HIDE DEF n
  <2>2. /\ a \in Seq(Slots) /\ Len(a) \in Nat /\ count + 1 <= Len(a)
        /\ DOMAIN a = 1..Len(a)
        /\ \A m \in 1..Len(a) : a[m] \in Slots
        /\ \A m \in 1..count : a[m] = items[m]
    BY <1>2, RoomIs
  <2>. HIDE DEF a
  <2> DEFINE l == Len(a)
  <2>3. items' = [m \in 1..l |-> CASE m - 1 = p -> o
                                   [] m - 1 > p /\ m - 1 <= count -> a[m - 1]
                                   [] OTHER -> a[m]]
    BY <2>1, <2>2 DEF Inserted
  <2>4. l \in Nat /\ count + 1 <= l /\ \A m \in 1..l : a[m] \in Slots
    BY <2>2
  <2>. HIDE DEF l
  <2>5. ASSUME NEW m \in 1..l
        PROVE  items'[m] \in Slots
    <3>1. CASE m - 1 = p
      BY <3>1, <2>3, <1>1 DEF Slots
    <3>2. CASE m - 1 > p /\ m - 1 <= count
      <4>1. m - 1 \in 1..l /\ m - 1 # p
        BY <3>2, <1>1, <2>4
      <4>2. items'[m] = a[m - 1]
        BY <3>2, <4>1, <2>3
      <4>. QED
        BY <4>1, <4>2, <2>4
    <3>3. CASE m - 1 # p /\ ~(m - 1 > p /\ m - 1 <= count)
      BY <3>3, <2>3, <2>4
    <3>. QED
      BY <3>1, <3>2, <3>3
  <2>6. items' \in Seq(Slots) /\ Len(items') = l
    <3> DEFINE c == items'
    <3>1. c \in [1..l -> Slots]
      BY <2>3, <2>5
    <3>. HIDE DEF c
    <3>2. c \in Seq(Slots) /\ Len(c) = l
      BY <2>4, <3>1
    <3>. QED
      BY <3>2 DEF c
  <2>7. \A m \in 1..(count + 1) : items'[m] = IF m < p + 1 THEN items[m]
                                              ELSE IF m = p + 1 THEN o ELSE items[m - 1]
    <3> TAKE m \in 1..(count + 1)
    <3>0. m \in 1..l
      BY <1>1, <2>4
    <3>1. CASE m < p + 1
      <4>1. m - 1 # p /\ ~(m - 1 > p) /\ m \in 1..count
        BY <3>1, <1>1
      <4>2. items'[m] = a[m]
        BY <3>0, <4>1, <2>3
      <4>. QED
        BY <3>1, <4>1, <4>2, <2>2
    <3>2. CASE m = p + 1
      <4>1. m - 1 = p /\ ~(m < p + 1)
        BY <3>2, <1>1
      <4>. QED
        BY <3>0, <3>2, <4>1, <2>3
    <3>3. CASE m > p + 1
      <4>1. m - 1 # p /\ m - 1 > p /\ m - 1 <= count /\ m - 1 \in 1..count
            /\ ~(m < p + 1) /\ m # p + 1
        BY <3>3, <1>1
      <4>2. items'[m] = a[m - 1]
        BY <3>0, <4>1, <2>3
      <4>. QED
        BY <4>1, <4>2, <2>2
    <3>. QED
      BY <3>1, <3>2, <3>3, <1>1
  <2>. QED
    BY <1>1, <2>1, <2>4, <2>6, <2>7, PuttingIn
<1>4. CASE p - e \notin 0..(count - 1)
  <2>1. /\ items' = items /\ count' = count /\ freed' = freed \cup {}
        /\ call' = [op |-> "none", ret |-> -1] /\ UNCHANGED iter
    BY <1>4 DEF InsertObj, Leaves
  <2>. QED
    BY <2>1, NothingDone
<1>. QED
  BY <1>3, <1>4

LEMMA PopBackDid == ASSUME ArrayInv, PopBack PROVE Did
<1>1. /\ count \in Nat /\ items \in Seq(Slots)
      /\ items = [m \in 1..Len(items) |-> items[m]]
  BY ArrayIs
<1>2. CASE count <= 0
  <2>1. /\ items' = items /\ count' = count /\ freed' = freed \cup {}
        /\ call' = [op |-> "none", ret |-> Nothing] /\ UNCHANGED iter
    BY <1>2 DEF PopBack, Leaves
  <2>. QED
    BY <2>1, NothingDone
<1>3. CASE count > 0
  <2> DEFINE i == count - 1
  <2>1. i \in 0..count /\ i \in (i - 1)..(count - 1) /\ i = count - 1 /\ count - (i - i + 1) = count - 1
    BY <1>1, <1>3
  <2>2. /\ items' = items /\ count' = count - 1 /\ freed' = freed \cup {} /\ UNCHANGED iter
        /\ call' = [op |-> "remove", from |-> i, to |-> i, ret |-> items[count]]
    BY <1>1, <1>3 DEF PopBack, Leaves
  <2>. HIDE DEF i
  <2>3. MovedDown(items, i, i, count) = items
    <3>1. \A m \in 1..Len(items) : ~(m - 1 >= i /\ m + i - i < count)
      BY <1>1, <2>1
    <3>. QED
      BY <1>1, <3>1 DEF MovedDown
  <2>4. count' = count - (i - i + 1) /\ items' = MovedDown(items, i, i, count)
    BY <2>1, <2>2, <2>3
  <2>. QED
    BY <1>1, <2>1, <2>2, <2>4, MovingDown
<1>. QED
  BY <1>1, <1>2, <1>3

LEMMA PopFrontDid == ASSUME ArrayInv, PopFront PROVE Did
<1>1. count \in Nat /\ items \in Seq(Slots)
  BY ArrayIs
<1>2. CASE count <= 0
  <2>1. /\ items' = items /\ count' = count /\ freed' = freed \cup {}
        /\ call' = [op |-> "none", ret |-> Nothing] /\ UNCHANGED iter
    BY <1>2 DEF PopFront, Leaves
  <2>. QED
    BY <2>1, NothingDone
<1>3. CASE count > 0
  <2>1. 0 \in 0..count /\ 0 \in (0 - 1)..(count - 1) /\ count - (0 - 0 + 1) = count - 1
    BY <1>1, <1>3
  <2>2. /\ items' = MovedDown(items, 0, 0, count) /\ count' = count - (0 - 0 + 1)
        /\ freed' = freed \cup {} /\ UNCHANGED iter
        /\ call' = [op |-> "remove", from |-> 0, to |-> 0, ret |-> items[1]]
    BY <1>1, <1>3, <2>1 DEF PopFront, Leaves
  <2>. QED
    BY <1>1, <2>1, <2>2, MovingDown
<1>. QED
  BY <1>1, <1>2, <1>3

LEMMA DeleteIdxDid ==
    ASSUME ArrayInv, NEW p \in Nat, NEW fn \in BOOLEAN, DeleteIdx(p, fn)
    PROVE  Did
<1>1. CASE p \notin 0..(count - 1)
  <2>1. /\ items' = items /\ count' = count /\ freed' = freed \cup {}
        /\ call' = [op |-> "none", ret |-> -1] /\ UNCHANGED iter
    BY <1>1 DEF DeleteIdx, Leaves
  <2>. QED
    BY <2>1, NothingDone
<1>2. CASE p \in 0..(count - 1)
  <2> DEFINE b == [items EXCEPT ![p + 1] = Nothing]
             F == FreedOf(p, p, fn)
  <2>1. p \in 0..count /\ p \in (p - 1)..(count - 1) /\ count - (p - p + 1) = count - 1
    BY <1>2, ArrayIs
  <2>2. b \in Seq(Slots) /\ Len(b) = Len(items)
        /\ \A m \in 1..count : m \notin (p + 1)..(p + 1) => b[m] = items[m]
    BY <1>2, OneCleared
  <2>3. F \in SUBSET Objs /\ \A x \in F : \E m \in (p + 1)..(p + 1) : x = items[m]
    BY <2>1, FreedIs
  <2>4. /\ items' = MovedDown(b, p, p, count) /\ count' = count - (p - p + 1)
        /\ freed' = freed \cup F /\ UNCHANGED iter
        /\ call' = [op |-> "remove", from |-> p, to |-> p, ret |-> 0]
    BY <1>2, <2>1 DEF DeleteIdx, Leaves
  <2>. HIDE DEF b, F
  <2>. QED
    BY <2>1, <2>2, <2>3, <2>4, MovingDown
<1>. QED
  BY <1>1, <1>2

LEMMA DeleteObjDid ==
    ASSUME ArrayInv, NEW o \in Objs, NEW fn \in BOOLEAN, DeleteObj(o, fn)
    PROVE  Did
<1> DEFINE S == {k \in 0..(count - 1) : items[k + 1] = o}
           p == CHOOSE k \in S : \A j \in S : k <= j
           F == {x \in {o} : fn}
<1>0. count \in Nat
  BY ArrayIs
<1>1. CASE S = {}
  <2>1. /\ items' = items /\ count' = count /\ freed' = freed \cup F
        /\ call' = [op |-> "none", ret |-> -1] /\ UNCHANGED iter
    BY <1>1 DEF DeleteObj, Leaves
  <2>2. F \in SUBSET Objs /\ \A m \in 1..count : items[m] \notin F
    <3> SUFFICES ASSUME NEW m \in 1..count, items[m] = o PROVE FALSE
      OBVIOUS
    <3>1. m - 1 \in 0..(count - 1) /\ m - 1 + 1 = m
      BY <1>0
    <3>. QED
      BY <3>1, <1>1
  <2>. HIDE DEF F
  <2>. QED
    BY <2>1, <2>2, NothingDone
<1>2. CASE S # {}
  <2>1. \E k \in S : \A j \in S : k <= j
    <3>1. S \in SUBSET Nat
      BY <1>0
    <3>. HIDE DEF S
    <3>. QED
      BY <3>1, <1>2, Least
  <2>2. p \in S
    <3>. HIDE DEF S
    <3>. QED
      BY <2>1
  <2>3. /\ items' = MovedDown([items EXCEPT ![p + 1] = Nothing], p, p, count)
        /\ count' = count - 1 /\ freed' = freed \cup F /\ UNCHANGED iter
        /\ call' = [op |-> "remove", from |-> p, to |-> p, ret |-> 0]
    BY <1>2 DEF DeleteObj, Leaves
  <2>. HIDE DEF p
  <2>4. p \in 0..(count - 1) /\ items[p + 1] = o
    BY <2>2
  <2>. HIDE DEF S
  <2> DEFINE b == [items EXCEPT ![p + 1] = Nothing]
  <2>5. p \in 0..count /\ p \in (p - 1)..(count - 1) /\ count - (p - p + 1) = count - 1
        /\ p + 1 \in (p + 1)..(p + 1)
    BY <1>0, <2>4
  <2>6. b \in Seq(Slots) /\ Len(b) = Len(items)
        /\ \A m \in 1..count : m \notin (p + 1)..(p + 1) => b[m] = items[m]
    BY <2>4, OneCleared
  <2>7. F \in SUBSET Objs /\ \A x \in F : \E m \in (p + 1)..(p + 1) : x = items[m]
    BY <2>4, <2>5
  <2>8. /\ items' = MovedDown(b, p, p, count) /\ count' = count - (p - p + 1)
        /\ freed' = freed \cup F /\ UNCHANGED iter
        /\ call' = [op |-> "remove", from |-> p, to |-> p, ret |-> 0]
    BY <2>3, <2>5
  <2>. HIDE DEF b, F
  <2>. QED
    BY <2>5, <2>6, <2>7, <2>8, MovingDown
<1>. QED
  BY <1>1, <1>2

\* What delete_range and mv_idx have in common.
LEMMA RangeDid ==
    ASSUME ArrayInv, NEW i \in 0..count, NEW k \in (i - 1)..(count - 1), NEW fn \in BOOLEAN,
           NEW r,
           items' = MovedDown(Cleared(items, i, k, fn), i, k, count),
           count' = count - (k - i + 1), freed' = freed \cup FreedOf(i, k, fn),
           call' = [op |-> "remove", from |-> i, to |-> k, ret |-> r], UNCHANGED iter
    PROVE  Did
<1> DEFINE b == Cleared(items, i, k, fn)
           F == FreedOf(i, k, fn)
<1>1. b \in Seq(Slots) /\ Len(b) = Len(items)
      /\ \A m \in 1..count : m \notin (i + 1)..(k + 1) => b[m] = items[m]
  BY ClearedIs
<1>2. F \in SUBSET Objs /\ \A x \in F : \E m \in (i + 1)..(k + 1) : x = items[m]
  BY FreedIs
<1>3. items' = MovedDown(b, i, k, count) /\ freed' = freed \cup F
  OBVIOUS
<1>. HIDE DEF b, F
<1>. QED
  BY <1>1, <1>2, <1>3, MovingDown

LEMMA DeleteRangeDid ==
    ASSUME ArrayInv, NEW i \in 0..count, NEW j \in 0..count, NEW fn \in BOOLEAN,
           DeleteRange(i, j, fn)
    PROVE  Did
<1>0. count \in Nat
  BY ArrayIs
<1>1. CASE count <= 0 \/ i > j
  <2>1. /\ items' = items /\ count' = count /\ freed' = freed \cup {}
        /\ call' = [op |-> "none", ret |-> -1] /\ UNCHANGED iter
    BY <1>1 DEF DeleteRange, Leaves
  <2>. QED
    BY <2>1, NothingDone
<1>2. CASE ~(count <= 0 \/ i > j)
  <2> DEFINE k == IF j > count - 1 THEN count - 1 ELSE j
  <2>1. /\ items' = MovedDown(Cleared(items, i, k, fn), i, k, count)
        /\ count' = count - (k - i + 1) /\ freed' = freed \cup FreedOf(i, k, fn)
        /\ call' = [op |-> "remove", from |-> i, to |-> k, ret |-> 0] /\ UNCHANGED iter
    BY <1>2 DEF DeleteRange, Leaves
  <2>2. k \in (i - 1)..(count - 1)
    BY <1>0, <1>2
  <2>. HIDE DEF k
  <2>. QED
    BY <2>1, <2>2, RangeDid
<1>. QED
  BY <1>1, <1>2

LEMMA MoveIdxDid ==
    ASSUME ArrayInv, NEW p \in 0..count, NEW i \in 0..count, NEW fn \in BOOLEAN,
           MoveIdx(p, i, fn)
    PROVE  Did
<1>0. count \in Nat
  BY ArrayIs
<1>1. CASE count = 0 \/ p >= i \/ i >= count
  <2>1. /\ items' = items /\ count' = count /\ freed' = freed \cup {}
        /\ call' = [op |-> "none", ret |-> 0] /\ UNCHANGED iter
    BY <1>1 DEF MoveIdx, Leaves
  <2>. QED
    BY <2>1, NothingDone
<1>2. CASE ~(count = 0 \/ p >= i \/ i >= count)
  <2> DEFINE k == i - 1
  <2>1. k \in (p - 1)..(count - 1) /\ count - (k - p + 1) = count - (i - p)
    BY <1>0, <1>2
  <2>2. /\ items' = MovedDown(Cleared(items, p, k, fn), p, k, count)
        /\ count' = count - (k - p + 1) /\ freed' = freed \cup FreedOf(p, k, fn)
        /\ call' = [op |-> "remove", from |-> p, to |-> k, ret |-> 0] /\ UNCHANGED iter
    BY <1>2, <2>1 DEF MoveIdx, Leaves
  <2>. HIDE DEF k
  <2>. QED
    BY <2>1, <2>2, RangeDid
<1>. QED
  BY <1>1, <1>2

LEMMA CleanDid ==
    ASSUME ArrayInv, NEW fn \in BOOLEAN, Clean(fn)
    PROVE  Did
<1> DEFINE k == count - 1
<1>0. count \in Nat /\ 0 \in 0..count /\ count \in 0..count /\ k \in (0 - 1)..(count - 1)
      /\ count = k + 1 /\ count - (count - 0) = 0
  <2>1. count \in Nat
    BY ArrayIs
  <2>. QED
    BY <2>1
<1>1. /\ items' = Cleared(items, 0, k, TRUE) /\ count' = 0
      /\ freed' = freed \cup FreedOf(0, k, fn) /\ UNCHANGED iter
      /\ call' = [op |-> "remove", from |-> 0, to |-> k, ret |-> 0]
  BY DEF Clean, Leaves
<1>. HIDE DEF k
<1>2. items' \in Seq(Slots) /\ Len(items') = Len(items)
  <2>1. TRUE \in BOOLEAN
    OBVIOUS
  <2>. QED
    BY <1>0, <1>1, <2>1, ClearedIs
<1>3. FreedOf(0, k, fn) \in SUBSET Objs
      /\ \A x \in FreedOf(0, k, fn) : \E m \in (0 + 1)..(k + 1) : x = items[m]
  BY <1>0, FreedIs
<1>4. freed' \subseteq Objs /\ \A x \in freed' : x \in freed \/ \E m \in (0 + 1)..count : x = items[m]
  BY <1>0, <1>1, <1>3 DEF ArrayInv
<1>5. /\ \A m \in 1..0 : items'[m] = items[m]
      /\ \A m \in (0 + 1)..(count - (count - 0)) : items'[m] = items[m + (count - 0)]
      /\ count' = count - (count - 0)
  <2>1. 1..0 = {} /\ (0 + 1)..(count - (count - 0)) = {}
    BY <1>0
  <2>. QED
    BY <1>0, <1>1, <2>1
<1>6. ArrayInv' /\ Listed' = Cut(Listed, 0, count)
  BY <1>0, <1>1, <1>2, <1>4, <1>5, TakingOut
<1>7. Meant(Listed, call') = Cut(Listed, 0, count)
  <2>1. call'.op = "remove" /\ call'.from = 0 /\ call'.to = k
    BY <1>1
  <2>2. Meant(Listed, call') = SubSeq(Listed, 1, 0) \o SubSeq(Listed, k + 2, Len(Listed))
    BY <2>1 DEF Meant
  <2>3. k + 2 = count + 1
    BY <1>0
  <2>. QED
    BY <2>2, <2>3 DEF Cut
<1>. QED
  BY <1>6, <1>7 DEF Did

LEMMA DeleteSwapDid ==
    ASSUME ArrayInv, NEW p \in Nat, NEW fn \in BOOLEAN, DeleteSwap(p, fn)
    PROVE  Did
<1>0. /\ count \in Nat /\ Len(items) \in Nat /\ count <= Len(items)
      /\ items \in Seq(Slots) /\ items = [m \in 1..Len(items) |-> items[m]]
      /\ \A m \in 1..Len(items) : items[m] \in Slots
      /\ Listed \in Seq(Slots) /\ Len(Listed) = count
      /\ \A m \in 1..count : Listed[m] = items[m]
  BY ArrayIs DEF ArrayInv
<1>1. CASE p \notin 0..(count - 1)
  <2>1. /\ items' = items /\ count' = count /\ freed' = freed \cup {}
        /\ call' = [op |-> "none", ret |-> -1] /\ UNCHANGED iter
    BY <1>1 DEF DeleteSwap, Leaves
  <2>. QED
    BY <2>1, NothingDone
<1>2. CASE p \in 0..(count - 1)
  <2>1. /\ items' = IF count > 1 THEN [items EXCEPT ![p + 1] = items[count]] ELSE items
        /\ count' = count - 1 /\ freed' = freed \cup FreedOf(p, p, fn) /\ UNCHANGED iter
        /\ call' = [op |-> "swap", at |-> p, ret |-> 0]
    BY <1>2 DEF DeleteSwap, Leaves
  <2>2. p \in 0..count /\ p \in (p - 1)..(count - 1) /\ count \in 1..count /\ p + 1 \in 1..count
    BY <1>0, <1>2
  <2>3. FreedOf(p, p, fn) \in SUBSET Objs
        /\ \A x \in FreedOf(p, p, fn) : \E m \in (p + 1)..(p + 1) : x = items[m]
    BY <2>2, FreedIs
  <2>4. \A x \in FreedOf(p, p, fn) : x = items[p + 1]
    BY <2>2, <2>3
  <2> DEFINE from(m) == IF m = p + 1 THEN count ELSE m
  <2>5. ASSUME NEW m \in 1..(count - 1)
        PROVE  items'[m] = items[from(m)] /\ from(m) \in 1..count /\ from(m) # p + 1
    <3>1. m \in 1..Len(items) /\ m \in 1..count /\ count > 1
      BY <1>0
    <3>2. items' = [items EXCEPT ![p + 1] = items[count]]
      BY <2>1, <3>1
    <3>. QED
      BY <3>1, <3>2, <1>0, <2>2
  <2>6. \A m, n \in 1..(count - 1) : from(m) = from(n) => m = n
    BY <1>0
  <2>. HIDE DEF from
  <2>7. items' \in Seq(Slots) /\ Len(items') = Len(items)
    <3>1. CASE count > 1
      <4> DEFINE c == items'
                 n == Len(items)
      <4>1. c = [m \in 1..n |-> IF m = p + 1 THEN items[count] ELSE items[m]]
        BY <1>0, <2>1, <3>1
      <4>2. n \in Nat /\ items[count] \in Slots /\ \A m \in 1..n : items[m] \in Slots
        BY <1>0, <2>2
      <4>. HIDE DEF c, n
      <4>3. c \in [1..n -> Slots]
        BY <4>1, <4>2
      <4>4. c \in Seq(Slots) /\ Len(c) = n
        BY <4>2, <4>3
      <4>. QED
        BY <4>4 DEF c, n
    <3>2. CASE ~(count > 1)
      BY <3>2, <2>1, <1>0
    <3>. QED
      BY <3>1, <3>2
  <2>8. ArrayInv'
    <3>1. \A m \in 1..count' : items'[m] \in Objs \ freed'
      <4> SUFFICES ASSUME NEW m \in 1..(count - 1) PROVE items[from(m)] \in Objs \ freed'
        BY <2>1, <2>5
      <4>1. from(m) \in 1..count /\ from(m) # p + 1
        BY <2>5
      <4>2. items[from(m)] \in Objs \ freed
        BY <4>1 DEF ArrayInv
      <4>3. items[from(m)] # items[p + 1]
        BY <4>1, <2>2 DEF ArrayInv
      <4>. QED
        BY <2>1, <2>4, <4>2, <4>3
    <3>2. \A m, n \in 1..count' : items'[m] = items'[n] => m = n
      <4> SUFFICES ASSUME NEW m \in 1..(count - 1), NEW n \in 1..(count - 1),
                          items'[m] = items'[n]
                   PROVE  m = n
        BY <2>1
      <4>1. items[from(m)] = items[from(n)] /\ from(m) \in 1..count /\ from(n) \in 1..count
        BY <2>5
      <4>2. from(m) = from(n)
        BY <4>1 DEF ArrayInv
      <4>. QED
        BY <2>6, <4>2
    <3>3. count' \in 0..Len(items') /\ freed' \subseteq Objs
      BY <1>0, <1>2, <2>1, <2>3, <2>7 DEF ArrayInv
    <3>. QED
      BY <2>1, <2>7, <3>1, <3>2, <3>3 DEF ArrayInv
  <2>9. Listed' \in Seq(Slots) /\ Len(Listed') = count - 1
        /\ \A m \in 1..(count - 1) : Listed'[m] = items'[m]
    <3>1. items' \in Seq(Slots) /\ count' \in 0..Len(items') /\ count' = count - 1
      BY <2>1, <2>8 DEF ArrayInv
    <3>. QED
      BY <3>1, FirstAre DEF Listed
  <2> DEFINE r == [Listed EXCEPT ![p + 1] = Listed[Len(Listed)]]
             s == SubSeq(r, 1, count - 1)
  <2>10. r \in Seq(Slots) /\ Len(r) = count
         /\ \A m \in 1..count : r[m] = IF m = p + 1 THEN items[count] ELSE items[m]
    BY <1>0, <2>2
  <2>11. /\ s \in Seq(Slots) /\ Len(s) = count - 1
         /\ \A m \in 1..(count - 1) : s[m] = IF m = p + 1 THEN items[count] ELSE items[m]
    <3>. HIDE DEF r
    <3>1. count - 1 \in 0..Len(r)
      BY <1>0, <2>2, <2>10
    <3>2. /\ s \in Seq(Slots) /\ Len(s) = count - 1
          /\ \A m \in 1..(count - 1) : s[m] = r[m]
      BY <2>10, <3>1, FirstAre
    <3>. QED
      BY <1>0, <2>10, <3>2
  <2>12. Meant(Listed, call') = s
    <3>1. call'.op = "swap" /\ call'.at = p
      BY <2>1
    <3>. QED
      BY <3>1, <1>0 DEF Meant
  <2>. HIDE DEF r, s
  <2>13. \A m \in 1..(count - 1) : Listed'[m] = s[m]
    BY <2>5, <2>9, <2>11 DEF from
  <2>14. Listed' = s
    BY <2>9, <2>11, <2>13, SameList
  <2>. QED
    BY <2>8, <2>12, <2>14 DEF Did
<1>. QED
  BY <1>1, <1>2

-----------------------------------------------------------------------------
LEMMA ArrayInvInit == ArrayInit => ArrayInv
<1> SUFFICES ASSUME ArrayInit PROVE ArrayInv
  OBVIOUS
<1> DEFINE n == RoundUp(InitSize)
<1>1. n \in Nat \ {0}
  BY RoundUpIs, ArrayAssumption
<1>2. items = [i \in 1..n |-> Nothing] /\ count = 0 /\ freed = {} /\ iter = NoIter
  BY DEF ArrayInit
<1>. HIDE DEF n
<1>3. items \in Seq(Slots) /\ Len(items) = n
  BY <1>1, <1>2 DEF Slots
<1>. QED
  BY <1>1, <1>2, <1>3 DEF ArrayInv, NoIter

\* The calls, and the steps of an iterator.
LEMMA ArrayStep ==
    ASSUME ArrayInv, ArrayNext
    PROVE  \/ Did /\ UNCHANGED iter
           \/ /\ ArrayInv' /\ UNCHANGED <<items, count, freed, call>>
              /\ (\E d \in {1, -1} : IterBegin(d)) \/ IterStep
<1>0. count \in Nat
  BY ArrayIs
<1>1. ASSUME NEW o \in Fresh, AppendObj(o) PROVE Did /\ UNCHANGED iter
  BY <1>1, AppendDid DEF AppendObj, Leaves
<1>2. ASSUME NEW o \in Fresh, NEW p \in 0..count, NEW e \in {0, 1}, InsertObj(p, e, o)
      PROVE  Did /\ UNCHANGED iter
  BY <1>2, InsertDid DEF InsertObj, Leaves
<1>3. ASSUME NEW o \in Fresh, PrependObj(o) PROVE Did /\ UNCHANGED iter
  <2>1. 0 \in 0..count /\ 0 \in {0, 1}
    BY <1>0
  <2>. QED
    BY <1>2, <1>3, <2>1 DEF PrependObj
<1>4. ASSUME PopBack \/ PopFront PROVE Did /\ UNCHANGED iter
  BY <1>4, PopBackDid, PopFrontDid DEF PopBack, PopFront, Leaves
<1>5. ASSUME NEW fn \in BOOLEAN, NEW p \in 0..count, DeleteIdx(p, fn) \/ DeleteSwap(p, fn)
      PROVE  Did /\ UNCHANGED iter
  <2>1. p \in Nat
    BY <1>0
  <2>2. Did
    BY <1>5, <2>1, DeleteIdxDid, DeleteSwapDid
  <2>3. UNCHANGED iter
    BY <1>5 DEF DeleteIdx, DeleteSwap, Leaves
  <2>. QED
    BY <2>2, <2>3
<1>6. ASSUME NEW fn \in BOOLEAN, NEW o \in Objs \ freed, DeleteObj(o, fn)
      PROVE  Did /\ UNCHANGED iter
  BY <1>6, DeleteObjDid DEF DeleteObj, Leaves
<1>7. ASSUME NEW fn \in BOOLEAN, NEW i \in 0..count, NEW j \in 0..count,
             DeleteRange(i, j, fn) \/ MoveIdx(i, j, fn)
      PROVE  Did /\ UNCHANGED iter
  BY <1>7, DeleteRangeDid, MoveIdxDid DEF DeleteRange, MoveIdx, Leaves
<1>8. ASSUME NEW fn \in BOOLEAN, Clean(fn) PROVE Did /\ UNCHANGED iter
  BY <1>8, CleanDid DEF Clean, Leaves
<1>9. ASSUME NEW d \in {1, -1}, IterBegin(d)
      PROVE  ArrayInv' /\ UNCHANGED <<items, count, freed, call>>
  BY <1>0, <1>9 DEF IterBegin, ArrayInv
<1>10. ASSUME IterStep PROVE ArrayInv' /\ UNCHANGED <<items, count, freed, call>>
  <2> DEFINE i == iter.i + iter.dir
             q == IF i < 0 \/ (iter.dir = 1 /\ i >= count) THEN Nothing ELSE items[i + 1]
  <2>1. iter' = [iter EXCEPT !.i = i, !.ptr = q] /\ UNCHANGED <<items, count, freed, call>>
    BY <1>10 DEF IterStep
  <2>2. i \in Int /\ iter.dir \in {-1, 0, 1}
        /\ iter = [i |-> iter.i, dir |-> iter.dir, ptr |-> iter.ptr]
    BY DEF ArrayInv
  <2>. HIDE DEF i, q
  <2>3. iter' = [i |-> i, dir |-> iter.dir, ptr |-> q]
    BY <2>1, <2>2
  <2>4. iter'.i \in Int /\ iter'.dir \in {-1, 0, 1}
        /\ iter' = [i |-> iter'.i, dir |-> iter'.dir, ptr |-> iter'.ptr]
    BY <2>2, <2>3
  <2>. QED
    BY <2>1, <2>4 DEF ArrayInv
<1>. QED
  BY <1>1, <1>2, <1>3, <1>4, <1>5, <1>6, <1>7, <1>8, <1>9, <1>10 DEF ArrayNext, Positions

LEMMA ArrayInvNext == ArrayInv /\ [ArrayNext]_arrayVars => ArrayInv'
<1>1. ASSUME ArrayInv, UNCHANGED arrayVars PROVE ArrayInv'
  BY <1>1 DEF ArrayInv, arrayVars
<1>. QED
  BY <1>1, ArrayStep DEF Did

LEMMA ArrayInvAlways == ArraySpec => []ArrayInv
BY ArrayInvInit, ArrayInvNext, PTL DEF ArraySpec

\* Whatever calls came before, each leaves exactly the list it is meant to:
\* what is put in stands where the result says, what is taken out is gone, the
\* rest keeps its order, and no entry is NULL or freed.
THEOREM ArrayIsListAlways == ArraySpec => ArrayIsList
<1>1. ASSUME ArrayInv, [ArrayNext]_arrayVars
      PROVE  [/\ Listed' = Listed \/ Listed' = Meant(Listed, call')
              /\ call' # call /\ call'.op # "none" => Listed' = Meant(Listed, call')
              /\ Range(Listed') \cap (freed' \cup {Nothing}) = {}]_<<items, count, call>>
  <2>1. SUFFICES ASSUME ~UNCHANGED <<items, count, call>>
                 PROVE  /\ Listed' = Listed \/ Listed' = Meant(Listed, call')
                        /\ call' # call /\ call'.op # "none" => Listed' = Meant(Listed, call')
                        /\ Range(Listed') \cap (freed' \cup {Nothing}) = {}
    OBVIOUS
  <2>2. Did
    BY <1>1, <2>1, ArrayStep DEF arrayVars
  <2>3. items' \in Seq(Slots) /\ count' \in 0..Len(items')
        /\ \A i \in 1..count' : items'[i] \in Objs \ freed'
    BY <2>2 DEF Did, ArrayInv
  <2>4. Listed' \in Seq(Slots) /\ Len(Listed') = count'
        /\ \A i \in 1..count' : Listed'[i] = items'[i]
    BY <2>3, FirstAre DEF Listed
  <2>5. Range(Listed') \cap (freed' \cup {Nothing}) = {}
    <3>1. DOMAIN Listed' = 1..count'
      BY <2>4
    <3>2. Nothing \notin Objs
      BY ArrayAssumption
    <3>. QED
      BY <2>3, <2>4, <3>1, <3>2 DEF Range
  <2>. QED
    BY <2>2, <2>5 DEF Did
<1>. QED
  BY <1>1, ArrayInvAlways, PTL DEF ArraySpec, ArrayIsList

\* An iterator that goes forward only comes to entries of the list, whatever is
\* taken out while it is under way.
THEOREM ForwardIsListedAlways == ArraySpec => ForwardIsListed
<1>1. ASSUME ArrayInv, [ArrayNext]_arrayVars
      PROVE  [iter' # iter /\ iter'.dir = 1 /\ iter'.ptr # Nothing
                 => iter'.ptr \in Range(Listed)]_iter
  <2>1. SUFFICES ASSUME iter' # iter, iter'.dir = 1, iter'.ptr # Nothing
                 PROVE  iter'.ptr \in Range(Listed)
    OBVIOUS
  <2>2. /\ count \in Nat /\ Len(Listed) = count /\ Listed \in Seq(Slots)
        /\ \A i \in 1..count : Listed[i] = items[i]
    BY <1>1, ArrayIs
  <2>3. SUFFICES \E i \in 1..count : iter'.ptr = items[i]
    <3>1. DOMAIN Listed = 1..count
      BY <2>2
    <3>. QED
      BY <2>2, <3>1 DEF Range
  <2>4. (\E d \in {1, -1} : IterBegin(d)) \/ IterStep
    BY <1>1, <2>1, ArrayStep DEF arrayVars
  <2>5. ASSUME NEW d \in {1, -1}, IterBegin(d) PROVE \E i \in 1..count : iter'.ptr = items[i]
    BY <2>1, <2>2, <2>5 DEF IterBegin
  <2>6. ASSUME IterStep PROVE \E i \in 1..count : iter'.ptr = items[i]
    <3> DEFINE i == iter.i + iter.dir
               q == IF i < 0 \/ (iter.dir = 1 /\ i >= count) THEN Nothing ELSE items[i + 1]
    <3>1. iter' = [iter EXCEPT !.i = i, !.ptr = q]
      BY <2>6 DEF IterStep
    <3>2. i \in Int /\ iter = [i |-> iter.i, dir |-> iter.dir, ptr |-> iter.ptr]
      BY <1>1 DEF ArrayInv
    <3>3. iter'.dir = iter.dir /\ iter'.ptr = q
      <4>. HIDE DEF i, q
      <4>. QED
        BY <3>1, <3>2
    <3>4. i + 1 \in 1..count /\ q = items[i + 1]
      BY <2>1, <2>2, <3>2, <3>3
    <3>. QED
      BY <3>3, <3>4
  <2>. QED
    BY <2>4, <2>5, <2>6
<1>. QED
  BY <1>1, ArrayInvAlways, PTL DEF ArraySpec, ForwardIsListed

-----------------------------------------------------------------------------
(***************************************************************************)
(* The hash table, of n chains.                                            *)
(***************************************************************************)
Table(t, n) == n \in Nat \ {0} /\ t \in [0..(n - 1) -> Seq(Keys)]

\* Every key is in the chain of its hash, and at one place there.
Sound(t, n) ==
    \A i \in 0..(n - 1) :
        /\ \A m \in 1..Len(t[i]) : Hash[t[i][m]] % n = i
        /\ \A m, l \in 1..Len(t[i]) : t[i][m] = t[i][l] => m = l

Holds(t, n, k) == \E m \in 1..Len(t[Hash[k] % n]) : t[Hash[k] % n][m] = k

LEMMA TableIs ==
    ASSUME NEW n, NEW t, Table(t, n)
    PROVE  /\ Cardinality(DOMAIN t) = n /\ DOMAIN t = 0..(n - 1)
           /\ \A k \in Keys : Hash[k] \in Nat /\ Hash[k] % n \in 0..(n - 1)
           /\ \A i \in 0..(n - 1) : /\ t[i] \in Seq(Keys) /\ Len(t[i]) \in Nat
                                    /\ DOMAIN t[i] = 1..Len(t[i])
                                    /\ \A m \in 1..Len(t[i]) : t[i][m] \in Keys
           /\ \A k \in Keys : Chain(t, k) = t[Hash[k] % n]
           /\ \A k \in Keys : k \in Range(Chain(t, k)) <=> Holds(t, n, k)
<1>1. n \in Nat \ {0} /\ DOMAIN t = 0..(n - 1) /\ \A i \in 0..(n - 1) : t[i] \in Seq(Keys)
  BY DEF Table
<1>2. Cardinality(DOMAIN t) = n
  <2>1. 0 \in Int /\ n - 1 \in Int /\ ~(0 > n - 1) /\ n - 1 - 0 + 1 = n
    BY <1>1
  <2>2. Cardinality(0..(n - 1)) = IF 0 > n - 1 THEN 0 ELSE n - 1 - 0 + 1
    BY <2>1, FS_Interval
  <2>. QED
    BY <1>1, <2>1, <2>2
<1>3. \A k \in Keys : Hash[k] \in Nat
  BY HtableAssumption
<1>4. \A k \in Keys : Hash[k] % n \in 0..(n - 1)
  BY <1>1, <1>3
<1>5. ASSUME NEW i \in 0..(n - 1)
      PROVE  /\ t[i] \in Seq(Keys) /\ Len(t[i]) \in Nat
             /\ DOMAIN t[i] = 1..Len(t[i])
             /\ \A m \in 1..Len(t[i]) : t[i][m] \in Keys
  <2>1. t[i] \in Seq(Keys)
    BY <1>1
  <2>. QED
    BY <2>1, LenProperties, ElementOfSeq
<1>6. \A k \in Keys : Chain(t, k) = t[Hash[k] % n]
  BY <1>2 DEF Chain
<1>7. ASSUME NEW k \in Keys PROVE k \in Range(Chain(t, k)) <=> Holds(t, n, k)
  <2>1. DOMAIN Chain(t, k) = 1..Len(t[Hash[k] % n])
    BY <1>4, <1>5, <1>6
  <2>. QED
    BY <1>6, <2>1 DEF Holds, Range
<1>. QED
  BY <1>1, <1>2, <1>3, <1>4, <1>5, <1>6, <1>7

\* A new entry comes first in its chain.
LEMMA LinkIs ==
    ASSUME NEW n, NEW t, Table(t, n), Sound(t, n), NEW k \in Keys, ~Holds(t, n, k),
           NEW c, c = Hash[k] % n
    PROVE  /\ Table(Link(t, k), n) /\ Sound(Link(t, k), n)
           /\ \A j \in Keys : Holds(Link(t, k), n, j) <=> Holds(t, n, j) \/ j = k
           /\ \A i \in 0..(n - 1) : i # c => Link(t, k)[i] = t[i]
           /\ Len(Link(t, k)[c]) = Len(t[c]) + 1
           /\ Link(t, k)[c][1] = k
           /\ \A m \in 1..Len(t[c]) : Link(t, k)[c][m + 1] = t[c][m]
<1>1. /\ n \in Nat \ {0} /\ c \in 0..(n - 1) /\ \A j \in Keys : Hash[j] % n \in 0..(n - 1)
      /\ \A i \in 0..(n - 1) : /\ t[i] \in Seq(Keys) /\ Len(t[i]) \in Nat
                               /\ \A m \in 1..Len(t[i]) : t[i][m] \in Keys
      /\ Cardinality(DOMAIN t) = n
      /\ t \in [0..(n - 1) -> Seq(Keys)]
  BY TableIs DEF Table
<1> DEFINE u == Link(t, k)
           q == <<k>> \o t[c]
<1>2. u = [t EXCEPT ![c] = q]
  BY <1>1 DEF Link
<1>3. /\ q \in Seq(Keys) /\ Len(q) = Len(t[c]) + 1
      /\ q[1] = k /\ \A m \in 1..Len(t[c]) : q[m + 1] = t[c][m]
  <2>1. t[c] \in Seq(Keys) /\ <<k>> \in Seq(Keys) /\ Len(<<k>>) = 1 /\ <<k>>[1] = k
        /\ Len(t[c]) \in Nat
    BY <1>1
  <2>2. /\ q \in Seq(Keys)
        /\ Len(q) = Len(<<k>>) + Len(t[c])
        /\ \A m \in 1..(Len(<<k>>) + Len(t[c])) :
              q[m] = IF m <= Len(<<k>>) THEN <<k>>[m] ELSE t[c][m - Len(<<k>>)]
    BY <2>1, ConcatProperties
  <2>. HIDE DEF q
  <2>3. \A m \in 1..(1 + Len(t[c])) : q[m] = IF m <= 1 THEN <<k>>[m] ELSE t[c][m - 1]
    BY <2>1, <2>2
  <2>4. q[1] = k
    BY <2>1, <2>3
  <2>5. ASSUME NEW m \in 1..Len(t[c]) PROVE q[m + 1] = t[c][m]
    <3>1. m + 1 \in 1..(1 + Len(t[c])) /\ ~(m + 1 <= 1) /\ m + 1 - 1 = m
      BY <2>1
    <3>. QED
      BY <2>3, <3>1
  <2>. QED
    BY <2>1, <2>2, <2>4, <2>5
<1>. HIDE DEF u, q
<1>4. u \in [0..(n - 1) -> Seq(Keys)] /\ u[c] = q /\ \A i \in 0..(n - 1) : i # c => u[i] = t[i]
  BY <1>1, <1>2, <1>3
<1>5. Table(u, n)
  BY <1>1, <1>4 DEF Table
<1>6. \A m \in 1..Len(q) : m = 1 \/ (m - 1 \in 1..Len(t[c]) /\ q[m] = t[c][m - 1])
  <2> SUFFICES ASSUME NEW m \in 1..Len(q), m # 1
               PROVE  m - 1 \in 1..Len(t[c]) /\ q[m] = t[c][m - 1]
    OBVIOUS
  <2>1. Len(t[c]) \in Nat
    BY <1>1
  <2>2. m - 1 \in 1..Len(t[c]) /\ m - 1 + 1 = m
    BY <1>3, <2>1
  <2>. QED
    BY <1>3, <2>2
<1>7. \A m \in 1..Len(t[c]) : t[c][m] # k
  BY DEF Holds
<1>8. Sound(u, n)
  <2> SUFFICES ASSUME NEW i \in 0..(n - 1)
               PROVE  /\ \A m \in 1..Len(u[i]) : Hash[u[i][m]] % n = i
                      /\ \A m, l \in 1..Len(u[i]) : u[i][m] = u[i][l] => m = l
    BY DEF Sound
  <2>1. CASE i # c
    BY <2>1, <1>4 DEF Sound
  <2>2. CASE i = c
    <3>0. Len(t[c]) \in Nat
      BY <1>1
    <3>1. \A m \in 1..Len(q) : Hash[q[m]] % n = c
      <4> TAKE m \in 1..Len(q)
      <4>1. CASE m = 1
        BY <4>1, <1>3
      <4>2. CASE m # 1
        <5>1. m - 1 \in 1..Len(t[c]) /\ q[m] = t[c][m - 1]
          BY <4>2, <1>6
        <5>2. Hash[t[c][m - 1]] % n = c
          BY <5>1, <1>1 DEF Sound
        <5>. QED
          BY <5>1, <5>2
      <4>. QED
        BY <4>1, <4>2
    <3>2. \A m, l \in 1..Len(q) : q[m] = q[l] => m = l
      <4> SUFFICES ASSUME NEW m \in 1..Len(q), NEW l \in 1..Len(q), q[m] = q[l]
                   PROVE  m = l
        OBVIOUS
      <4>1. CASE m = 1
        BY <4>1, <1>3, <1>6, <1>7
      <4>2. CASE l = 1
        BY <4>2, <1>3, <1>6, <1>7
      <4>3. CASE m # 1 /\ l # 1
        <5>1. m - 1 \in 1..Len(t[c]) /\ l - 1 \in 1..Len(t[c]) /\ t[c][m - 1] = t[c][l - 1]
          BY <4>3, <1>6
        <5>2. m - 1 = l - 1
          BY <5>1, <1>1 DEF Sound
        <5>3. m \in Int /\ l \in Int
          BY <3>0, <1>3
        <5>. QED
          BY <5>2, <5>3
      <4>. QED
        BY <4>1, <4>2, <4>3
    <3>. QED
      BY <2>2, <3>1, <3>2, <1>4
  <2>. QED
    BY <2>1, <2>2
<1>9. ASSUME NEW j \in Keys PROVE Holds(u, n, j) <=> Holds(t, n, j) \/ j = k
  <2>1. CASE Hash[j] % n # c
    BY <2>1, <1>1, <1>4 DEF Holds
  <2>2. CASE Hash[j] % n = c
    <3>0. Len(t[c]) \in Nat /\ Len(q) = Len(t[c]) + 1 /\ 1 \in 1..Len(q)
      BY <1>1, <1>3
    <3>1. Holds(u, n, j) <=> \E m \in 1..Len(q) : q[m] = j
      BY <2>2, <1>4 DEF Holds
    <3>2. Holds(t, n, j) <=> \E m \in 1..Len(t[c]) : t[c][m] = j
      BY <2>2 DEF Holds
    <3>3. \A m \in 1..Len(t[c]) : m + 1 \in 1..Len(q)
      BY <3>0
    <3>4. (\E m \in 1..Len(q) : q[m] = j) => (\E m \in 1..Len(t[c]) : t[c][m] = j) \/ j = k
      BY <1>3, <1>6, ZenonT(40)
    <3>5. (\E m \in 1..Len(t[c]) : t[c][m] = j) \/ j = k => \E m \in 1..Len(q) : q[m] = j
      BY <1>3, <3>0, <3>3
    <3>. QED
      BY <3>1, <3>2, <3>4, <3>5
  <2>. QED
    BY <2>1, <2>2
<1>. QED
  BY <1>3, <1>4, <1>5, <1>8, <1>9 DEF u

LEMMA EmptyIs ==
    ASSUME NEW n \in Nat \ {0}
    PROVE  /\ Odd(n) \in Nat \ {0} /\ Odd(n) >= n /\ Odd(n) % 2 = 1
           /\ Table(Empty(n), Odd(n)) /\ Sound(Empty(n), Odd(n))
           /\ \A k \in Keys : ~Holds(Empty(n), Odd(n), k)
<1>1. Odd(n) \in Nat \ {0} /\ Odd(n) >= n /\ Odd(n) % 2 = 1
  BY DEF Odd
<1> DEFINE o == Odd(n)
<1>2. Empty(n) = [i \in 0..(o - 1) |-> <<>>]
  BY DEF Empty
<1>3. o \in Nat \ {0}
  BY <1>1
<1>. HIDE DEF o
<1>4. \A i \in 0..(o - 1) : Empty(n)[i] = <<>> /\ Len(Empty(n)[i]) = 0
  BY <1>2
<1>5. Table(Empty(n), o)
  BY <1>2, <1>3 DEF Table
<1>6. Sound(Empty(n), o)
  BY <1>4 DEF Sound
<1>7. \A k \in Keys : ~Holds(Empty(n), o, k)
  BY <1>4, <1>5, TableIs DEF Holds
<1>. QED
  BY <1>1, <1>5, <1>6, <1>7 DEF o

\* One sequence behind another.
LEMMA JoinIs ==
    ASSUME NEW a \in Seq(Keys), NEW b \in Seq(Keys)
    PROVE  /\ a \o b \in Seq(Keys) /\ Len(a \o b) \in Nat
           /\ \A k : (\E m \in 1..Len(a \o b) : (a \o b)[m] = k)
                        <=> (\E m \in 1..Len(a) : a[m] = k) \/ (\E m \in 1..Len(b) : b[m] = k)
           /\ (/\ \A m, l \in 1..Len(a) : a[m] = a[l] => m = l
               /\ \A m, l \in 1..Len(b) : b[m] = b[l] => m = l
               /\ \A m \in 1..Len(a), l \in 1..Len(b) : a[m] # b[l])
              => \A m, l \in 1..Len(a \o b) : (a \o b)[m] = (a \o b)[l] => m = l
<1> DEFINE c == a \o b
           x == Len(a)
           y == Len(b)
<1>1. x \in Nat /\ y \in Nat
  BY LenProperties
<1>2. /\ c \in Seq(Keys) /\ Len(c) = x + y
      /\ \A m \in 1..(x + y) : c[m] = IF m <= x THEN a[m] ELSE b[m - x]
  BY ConcatProperties
<1>. x = Len(a) /\ y = Len(b)
  OBVIOUS
<1>. HIDE DEF c, x, y
<1>3. \A m \in 1..(x + y) : \/ m \in 1..x /\ c[m] = a[m]
                            \/ m - x \in 1..y /\ ~(m \in 1..x) /\ c[m] = b[m - x]
  <2> TAKE m \in 1..(x + y)
  <2>1. CASE m <= x
    BY <2>1, <1>1, <1>2
  <2>2. CASE ~(m <= x)
    BY <2>2, <1>1, <1>2
  <2>. QED
    BY <2>1, <2>2
<1>4. \A m \in 1..x : m \in 1..(x + y) /\ c[m] = a[m]
  BY <1>1, <1>2
<1>5. \A m \in 1..y : m + x \in 1..(x + y) /\ c[m + x] = b[m]
  <2> TAKE m \in 1..y
  <2>1. m + x \in 1..(x + y) /\ ~(m + x <= x) /\ m + x - x = m
    BY <1>1
  <2>. QED
    BY <2>1, <1>2
<1>6. \A k : (\E m \in 1..(x + y) : c[m] = k)
                <=> (\E m \in 1..x : a[m] = k) \/ (\E m \in 1..y : b[m] = k)
  <2> TAKE k
  <2>1. ASSUME NEW m \in 1..(x + y), c[m] = k
        PROVE  (\E l \in 1..x : a[l] = k) \/ (\E l \in 1..y : b[l] = k)
    BY <2>1, <1>3
  <2>2. ASSUME NEW m \in 1..x, a[m] = k PROVE \E l \in 1..(x + y) : c[l] = k
    BY <2>2, <1>4
  <2>3. ASSUME NEW m \in 1..y, b[m] = k PROVE \E l \in 1..(x + y) : c[l] = k
    BY <2>3, <1>5
  <2>. QED
    BY <2>1, <2>2, <2>3
<1>7. ASSUME \A m, l \in 1..x : a[m] = a[l] => m = l,
             \A m, l \in 1..y : b[m] = b[l] => m = l,
             \A m \in 1..x, l \in 1..y : a[m] # b[l],
             NEW m \in 1..(x + y), NEW l \in 1..(x + y), c[m] = c[l]
      PROVE  m = l
  <2>1. CASE m \in 1..x
    <3>1. l \in 1..x
      BY <1>3, <1>7, <2>1
    <3>. QED
      BY <1>3, <1>7, <2>1, <3>1
  <2>2. CASE m \notin 1..x
    <3>1. l \notin 1..x
      BY <1>3, <1>7, <2>2
    <3>2. m - x \in 1..y /\ l - x \in 1..y /\ b[m - x] = b[l - x]
      BY <1>3, <1>7, <2>2, <3>1
    <3>3. m - x = l - x
      BY <1>7, <3>2
    <3>. QED
      BY <3>3, <1>1
  <2>. QED
    BY <2>1, <2>2
<1>8. Len(c) \in Nat
  BY <1>1, <1>2
<1>. QED
  BY <1>2, <1>6, <1>7, <1>8, Zenon DEF c, x, y

Joined(f, q, n) == f = [i \in 1..n |-> IF i = 1 THEN q[i] ELSE f[i - 1] \o q[i]]

LEMMA JoinedExists ==
    ASSUME NEW n \in Nat, NEW q
    PROVE  \E f : Joined(f, q, n)
<1> DEFINE P(l) == \E f : Joined(f, q, l)
           T == {l \in Nat : ~P(l)}
<1>1. SUFFICES ASSUME T # {} PROVE FALSE
  OBVIOUS
<1>2. PICK l \in T : \A m \in T : l <= m
  <2>. T \in SUBSET Nat
    OBVIOUS
  <2>. HIDE DEF T
  <2>. QED
    BY <1>1, Least
<1>3. P(0)
  <2> DEFINE g == [i \in 1..0 |-> q]
  <2>1. g = [i \in 1..0 |-> IF i = 1 THEN q[i] ELSE g[i - 1] \o q[i]]
    OBVIOUS
  <2>. HIDE DEF g
  <2>. QED
    BY <2>1 DEF Joined
<1>4. l \in Nat /\ l # 0 /\ l - 1 \in Nat /\ ~P(l)
  BY <1>2, <1>3
<1>5. P(l - 1)
  BY <1>2, <1>4
<1>6. PICK g : Joined(g, q, l - 1)
  BY <1>5
<1> DEFINE f == [i \in 1..l |-> IF i = 1 THEN q[i] ELSE IF i = l THEN g[l - 1] \o q[i] ELSE g[i]]
<1>7. ASSUME NEW i \in 1..l
      PROVE  f[i] = IF i = 1 THEN q[i] ELSE f[i - 1] \o q[i]
  <2>1. CASE i = 1
    BY <2>1
  <2>2. CASE i # 1
    <3>1. i - 1 \in 1..l /\ i - 1 # l /\ i - 1 \in 1..(l - 1)
      BY <2>2, <1>4
    <3>2. \A j \in 1..(l - 1) : g[j] = IF j = 1 THEN q[j] ELSE g[j - 1] \o q[j]
      BY <1>6, Zenon DEF Joined
    <3>3. f[i - 1] = g[i - 1]
      BY <3>1, <3>2
    <3>4. CASE i = l
      BY <2>2, <3>3, <3>4
    <3>5. CASE i # l
      <4>1. i \in 1..(l - 1)
        BY <1>4, <3>5
      <4>2. f[i] = g[i] /\ g[i] = g[i - 1] \o q[i]
        BY <2>2, <3>2, <3>5, <4>1
      <4>. QED
        BY <2>2, <3>3, <4>2
    <3>. QED
      BY <3>4, <3>5
  <2>. QED
    BY <2>1, <2>2
<1>8. f = [i \in 1..l |-> f[i]]
  OBVIOUS
<1>. HIDE DEF f
<1>9. f = [i \in 1..l |-> IF i = 1 THEN q[i] ELSE f[i - 1] \o q[i]]
  BY <1>7, <1>8
<1>. QED
  BY <1>4, <1>9 DEF Joined

LEMMA FlattenIs ==
    ASSUME NEW n \in Nat \ {0}, NEW q, Len(q) = n
    PROVE  \E f : Joined(f, q, n) /\ FlattenSeq(q) = f[n]
<1> DEFINE h == CHOOSE g : g = [i \in 1..n |-> IF i = 1 THEN q[i] ELSE g[i - 1] \o q[i]]
<1>1. \E f : f = [i \in 1..n |-> IF i = 1 THEN q[i] ELSE f[i - 1] \o q[i]]
  BY JoinedExists, Zenon DEF Joined
<1>2. h = [i \in 1..n |-> IF i = 1 THEN q[i] ELSE h[i - 1] \o q[i]]
  BY <1>1, Zenon
<1>3. Len(q) # 0
  OBVIOUS
<1>4. FlattenSeq(q) = h[n]
  BY <1>3, Zenon DEF FlattenSeq
<1>. HIDE DEF h
<1>5. Joined(h, q, n)
  BY <1>2, Zenon DEF Joined
<1>. QED
  BY <1>4, <1>5

\* The entries one chain after the other: each that the table holds, once.
LEMMA AllIs ==
    ASSUME NEW n, NEW t, Table(t, n), Sound(t, n)
    PROVE  /\ AllOf(t) \in Seq(Keys) /\ Len(AllOf(t)) \in Nat
           /\ \A m, l \in 1..Len(AllOf(t)) : AllOf(t)[m] = AllOf(t)[l] => m = l
           /\ \A k \in Keys : Holds(t, n, k) <=> \E m \in 1..Len(AllOf(t)) : AllOf(t)[m] = k
<1>1. /\ n \in Nat \ {0} /\ Cardinality(DOMAIN t) = n
      /\ \A k \in Keys : Hash[k] % n \in 0..(n - 1)
      /\ \A i \in 0..(n - 1) : /\ t[i] \in Seq(Keys) /\ Len(t[i]) \in Nat
                               /\ \A m \in 1..Len(t[i]) : t[i][m] \in Keys
  BY TableIs DEF Table
<1> DEFINE q == [i \in 1..n |-> t[i - 1]]
<1>2. \A i \in 1..n : q[i] = t[i - 1] /\ i - 1 \in 0..(n - 1)
  BY <1>1
<1>3. Len(q) = n
  BY <1>1
<1>4. AllOf(t) = FlattenSeq(q)
  BY <1>1 DEF AllOf
<1>. HIDE DEF q
<1>5. PICK f : Joined(f, q, n) /\ FlattenSeq(q) = f[n]
  BY <1>1, <1>3, FlattenIs
<1>6. \A i \in 1..n : f[i] = IF i = 1 THEN q[i] ELSE f[i - 1] \o q[i]
  BY <1>5, Zenon DEF Joined
<1> DEFINE In(i, k) == \E m \in 1..Len(f[i]) : f[i][m] = k
           Good(i) == /\ f[i] \in Seq(Keys) /\ Len(f[i]) \in Nat
                      /\ \A m, l \in 1..Len(f[i]) : f[i][m] = f[i][l] => m = l
                      /\ \A k \in Keys : In(i, k) <=> Holds(t, n, k) /\ Hash[k] % n < i
           T == {i \in Nat : i \in 1..n /\ ~Good(i)}
\* The keys of a chain.
<1>7. ASSUME NEW i \in 0..(n - 1), NEW k \in Keys
      PROVE  (\E m \in 1..Len(t[i]) : t[i][m] = k) <=> Holds(t, n, k) /\ Hash[k] % n = i
  BY <1>7 DEF Holds, Sound
<1>8. T = {}
  <2>1. SUFFICES ASSUME T # {} PROVE FALSE
    OBVIOUS
  <2>2. PICK i \in T : \A m \in T : i <= m
    <3>. T \in SUBSET Nat
      OBVIOUS
    <3>. HIDE DEF T
    <3>. QED
      BY <2>1, Least
  <2>3. i \in 1..n /\ ~Good(i) /\ i - 1 \in 0..(n - 1)
    BY <1>1, <2>2
  <2>4. /\ \A m, l \in 1..Len(t[i - 1]) : t[i - 1][m] = t[i - 1][l] => m = l
        /\ t[i - 1] \in Seq(Keys) /\ Len(t[i - 1]) \in Nat
        /\ \A m \in 1..Len(t[i - 1]) : t[i - 1][m] \in Keys
    BY <1>1, <2>3 DEF Sound
  <2>5. CASE i = 1
    <3>1. f[i] = t[i - 1]
      BY <1>2, <1>6, <2>3, <2>5
    <3>2. \A k \in Keys : In(i, k) <=> Holds(t, n, k) /\ Hash[k] % n < i
      <4> TAKE k \in Keys
      <4>1. Hash[k] % n \in 0..(n - 1)
        BY <1>1
      <4>2. Hash[k] % n < i <=> Hash[k] % n = i - 1
        BY <2>5, <4>1
      <4>. QED
        BY <3>1, <4>2, <1>7, <2>3
    <3>. QED
      BY <2>3, <2>4, <3>1, <3>2
  <2>6. CASE i # 1
    <3>1. i - 1 \in 1..n /\ i - 1 \in Nat /\ ~(i <= i - 1)
      BY <1>1, <2>3, <2>6
    <3>2. i - 1 \notin T
      BY <2>2, <3>1
    <3>3. Good(i - 1)
      BY <3>1, <3>2
    <3>. DEFINE a == f[i - 1]
                b == t[i - 1]
    <3>4. f[i] = a \o b
      BY <1>2, <1>6, <2>3, <2>6
    <3>5. \A k \in Keys : (\E m \in 1..Len(a) : a[m] = k) <=> Holds(t, n, k) /\ Hash[k] % n < i - 1
      BY <3>3
    <3>6. \A k \in Keys : (\E m \in 1..Len(b) : b[m] = k) <=> Holds(t, n, k) /\ Hash[k] % n = i - 1
      BY <1>7, <2>3
    <3>7. /\ a \in Seq(Keys) /\ Len(a) \in Nat
          /\ \A m, l \in 1..Len(a) : a[m] = a[l] => m = l
      BY <3>3
    <3>8. /\ b \in Seq(Keys) /\ Len(b) \in Nat
          /\ \A m, l \in 1..Len(b) : b[m] = b[l] => m = l
          /\ \A m \in 1..Len(b) : b[m] \in Keys
      BY <2>4
    <3>. HIDE DEF a, b, T
    <3>9. \A m \in 1..Len(a), l \in 1..Len(b) : a[m] # b[l]
      <4> SUFFICES ASSUME NEW m \in 1..Len(a), NEW l \in 1..Len(b), a[m] = b[l] PROVE FALSE
        OBVIOUS
      <4>1. b[l] \in Keys /\ Hash[b[l]] % n = i - 1
        BY <3>6, <3>8
      <4>2. Hash[b[l]] % n < i - 1
        BY <3>5, <4>1
      <4>. QED
        BY <1>1, <2>3, <4>1, <4>2
    <3>10. /\ a \o b \in Seq(Keys) /\ Len(a \o b) \in Nat
           /\ \A m, l \in 1..Len(a \o b) : (a \o b)[m] = (a \o b)[l] => m = l
           /\ \A k : (\E m \in 1..Len(a \o b) : (a \o b)[m] = k)
                        <=> (\E m \in 1..Len(a) : a[m] = k) \/ (\E m \in 1..Len(b) : b[m] = k)
      <4>1. a \in Seq(Keys) /\ b \in Seq(Keys)
        BY <3>7, <3>8
      <4>. QED
        BY <4>1, <3>7, <3>8, <3>9, JoinIs
    <3>11. \A k \in Keys : In(i, k) <=> Holds(t, n, k) /\ Hash[k] % n < i
      <4> TAKE k \in Keys
      <4>1. Hash[k] % n \in 0..(n - 1)
        BY <1>1
      <4>2. Hash[k] % n < i <=> Hash[k] % n < i - 1 \/ Hash[k] % n = i - 1
        BY <2>3, <4>1
      <4>3. In(i, k) <=> (\E m \in 1..Len(a) : a[m] = k) \/ (\E m \in 1..Len(b) : b[m] = k)
        BY <3>4, <3>10
      <4>. QED
        BY <3>5, <3>6, <4>2, <4>3
    <3>12. Good(i)
      <4>. HIDE DEF In
      <4>. QED
        BY <3>4, <3>10, <3>11
    <3>. QED
      BY <2>3, <3>12
  <2>. QED
    BY <2>5, <2>6
<1>9. n \in 1..n /\ n \in Nat
  BY <1>1
<1>10. Good(n)
  BY <1>8, <1>9
<1>11. \A k \in Keys : Hash[k] % n < n
  BY <1>1
<1>. QED
  BY <1>4, <1>5, <1>10, <1>11

\* The entries of q linked one after the other into an empty table.
Refilled(g, l, q, b) == g = [j \in 0..l |-> IF j = 0 THEN b ELSE Link(g[j - 1], q[j])]

LEMMA RefilledExists ==
    ASSUME NEW l \in Nat, NEW q, NEW b
    PROVE  \E g : Refilled(g, l, q, b)
<1> DEFINE P(n) == \E g : Refilled(g, n, q, b)
           T == {n \in Nat : ~P(n)}
<1>1. SUFFICES ASSUME T # {} PROVE FALSE
  OBVIOUS
<1>2. PICK n \in T : \A m \in T : n <= m
  <2>. T \in SUBSET Nat
    OBVIOUS
  <2>. HIDE DEF T
  <2>. QED
    BY <1>1, Least
<1>3. P(0)
  <2> DEFINE g == [j \in 0..0 |-> b]
  <2>. HIDE DEF Link
  <2>1. g = [j \in 0..0 |-> IF j = 0 THEN b ELSE Link(g[j - 1], q[j])]
    OBVIOUS
  <2>. HIDE DEF g
  <2>. QED
    BY <2>1 DEF Refilled
<1>4. n \in Nat /\ n # 0 /\ n - 1 \in Nat /\ ~P(n)
  BY <1>2, <1>3
<1>5. P(n - 1)
  BY <1>2, <1>4
<1>6. PICK g : Refilled(g, n - 1, q, b)
  BY <1>5
<1> DEFINE last == Link(g[n - 1], q[n])
           f == [j \in 0..n |-> IF j = n THEN last ELSE g[j]]
<1>7. ASSUME NEW j \in 0..n
      PROVE  f[j] = IF j = 0 THEN b ELSE Link(f[j - 1], q[j])
  <2>0. \A i \in 0..(n - 1) : g[i] = IF i = 0 THEN b ELSE Link(g[i - 1], q[i])
    BY <1>6, Zenon DEF Refilled
  <2>1. CASE j = 0
    <3>1. 0 \in 0..(n - 1) /\ j # n
      BY <1>4, <2>1
    <3>. HIDE DEF last
    <3>. QED
      BY <2>0, <2>1, <3>1
  <2>2. CASE j # 0 /\ j # n
    <3>1. j - 1 \in 0..n /\ j - 1 # n /\ j \in 0..(n - 1)
      BY <2>2, <1>4
    <3>. HIDE DEF last
    <3>2. f[j - 1] = g[j - 1] /\ f[j] = g[j]
      BY <2>2, <3>1
    <3>3. g[j] = Link(g[j - 1], q[j])
      BY <2>0, <2>2, <3>1
    <3>. QED
      BY <2>2, <3>2, <3>3
  <2>3. CASE j # 0 /\ j = n
    <3>1. j - 1 \in 0..n /\ j - 1 # n
      BY <2>3, <1>4
    <3>2. f[j - 1] = g[j - 1] /\ f[j] = last
      <4>. HIDE DEF last
      <4>. QED
        BY <2>3, <3>1
    <3>. QED
      BY <2>3, <3>2
  <2>. QED
    BY <2>1, <2>2, <2>3
<1>8. f = [j \in 0..n |-> f[j]]
  <2>. HIDE DEF last
  <2>. QED
    OBVIOUS
<1>. HIDE DEF f
<1>9. f = [j \in 0..n |-> IF j = 0 THEN b ELSE Link(f[j - 1], q[j])]
  BY <1>7, <1>8
<1>. QED
  BY <1>4, <1>9 DEF Refilled

\* Growing moves every entry, keeps each once, and makes none.
LEMMA GrownIs ==
    ASSUME NEW n, NEW t, Table(t, n), Sound(t, n)
    PROVE  /\ Table(Grown(t), Odd(2 * n)) /\ Sound(Grown(t), Odd(2 * n))
           /\ \A k \in Keys : Holds(Grown(t), Odd(2 * n), k) <=> Holds(t, n, k)
<1> DEFINE q == AllOf(t)
           l == Len(q)
           b == Empty(2 * n)
           o == Odd(2 * n)
           g == Regrown(t)
<1>1. n \in Nat \ {0} /\ Cardinality(DOMAIN t) = n
  BY TableIs DEF Table
<1>2. /\ q \in Seq(Keys) /\ l \in Nat
      /\ \A m, j \in 1..l : q[m] = q[j] => m = j
      /\ \A k \in Keys : Holds(t, n, k) <=> \E m \in 1..l : q[m] = k
  BY AllIs
<1>3. \A m \in 1..l : q[m] \in Keys
  BY <1>2, ElementOfSeq
<1>4. Table(b, o) /\ Sound(b, o) /\ \A k \in Keys : ~Holds(b, o, k)
  <2>1. 2 * n \in Nat \ {0}
    BY <1>1
  <2>. QED
    BY <2>1, EmptyIs
<1>5. \A j \in 0..l : g[j] = IF j = 0 THEN b ELSE Link(g[j - 1], q[j])
  <2>1. PICK f : Refilled(f, l, q, b)
    BY <1>2, RefilledExists
  <2>2. g = [j \in 0..Len(AllOf(t)) |->
               IF j = 0 THEN Empty(2 * Cardinality(DOMAIN t)) ELSE Link(g[j - 1], AllOf(t)[j])]
    <3>1. f = [j \in 0..Len(AllOf(t)) |->
                 IF j = 0 THEN Empty(2 * Cardinality(DOMAIN t)) ELSE Link(f[j - 1], AllOf(t)[j])]
      BY <1>1, <2>1, Zenon DEF Refilled
    <3>. QED
      BY <3>1, Zenon DEF Regrown
  <2>. HIDE DEF g
  <2>. QED
    BY <1>1, <2>2, Zenon
<1>6. Grown(t) = g[l]
  BY DEF Grown
<1>. HIDE DEF q, l, b, o, g
<1> DEFINE Good(j) == /\ Table(g[j], o) /\ Sound(g[j], o)
                      /\ \A k \in Keys : Holds(g[j], o, k) <=> \E m \in 1..j : q[m] = k
           T == {j \in Nat : j \in 0..l /\ ~Good(j)}
<1>7. T = {}
  <2>1. SUFFICES ASSUME T # {} PROVE FALSE
    OBVIOUS
  <2>2. PICK j \in T : \A m \in T : j <= m
    <3>. T \in SUBSET Nat
      OBVIOUS
    <3>. HIDE DEF T
    <3>. QED
      BY <2>1, Least
  <2>3. j \in 0..l /\ j \in Nat /\ ~Good(j)
    BY <2>2
  <2>4. CASE j = 0
    <3>1. g[j] = b /\ 1..j = {}
      BY <1>5, <2>3, <2>4
    <3>2. Good(j)
      BY <1>4, <3>1
    <3>. QED
      BY <2>3, <3>2
  <2>5. CASE j # 0
    <3>1. j - 1 \in 0..l /\ j - 1 \in Nat /\ ~(j <= j - 1) /\ j \in 1..l
          /\ \A m \in 1..(j - 1) : m \in 1..l /\ m # j
      BY <1>2, <2>3, <2>5
    <3>2. j - 1 \notin T
      BY <2>2, <3>1
    <3>3. Good(j - 1)
      BY <3>1, <3>2
    <3>4. g[j] = Link(g[j - 1], q[j]) /\ q[j] \in Keys
      BY <1>3, <1>5, <2>3, <2>5, <3>1
    <3>5. ~Holds(g[j - 1], o, q[j])
      <4> SUFFICES ASSUME NEW m \in 1..(j - 1), q[m] = q[j] PROVE FALSE
        BY <3>3, <3>4
      <4>. QED
        BY <1>2, <3>1
    <3>6. /\ Table(g[j], o) /\ Sound(g[j], o)
          /\ \A k \in Keys : Holds(g[j], o, k) <=> Holds(g[j - 1], o, k) \/ k = q[j]
      <4> DEFINE u == g[j - 1]
                 k == q[j]
      <4>1. Table(u, o) /\ Sound(u, o) /\ k \in Keys /\ ~Holds(u, o, k)
        BY <3>3, <3>4, <3>5
      <4>. HIDE DEF u, k
      <4>2. /\ Table(Link(u, k), o) /\ Sound(Link(u, k), o)
            /\ \A i \in Keys : Holds(Link(u, k), o, i) <=> Holds(u, o, i) \/ i = k
        BY <4>1, LinkIs
      <4>. QED
        BY <3>4, <4>2 DEF u, k
    <3>7. \A k : (\E m \in 1..j : q[m] = k) <=> (\E m \in 1..(j - 1) : q[m] = k) \/ k = q[j]
      <4>1. \A m : m \in 1..j <=> m \in 1..(j - 1) \/ m = j
        BY <2>3, <2>5
      <4>. QED
        BY <4>1
    <3>8. Good(j)
      BY <3>3, <3>6, <3>7
    <3>. QED
      BY <2>3, <3>8
  <2>. QED
    BY <2>4, <2>5
<1>8. Good(l)
  <2>1. l \in Nat /\ l \in 0..l
    BY <1>2
  <2>. QED
    BY <1>7, <2>1
<1>. QED
  BY <1>2, <1>6, <1>8 DEF o

-----------------------------------------------------------------------------
HtInv ==
    /\ Table(data, Size) /\ Sound(data, Size)
    /\ DOMAIN value \subseteq Keys /\ IsFiniteSet(DOMAIN value)
    /\ used = Cardinality(DOMAIN value)
    /\ \A k \in Keys : Holds(data, Size, k) <=> k \in DOMAIN value
    /\ used <= Size /\ Size >= Odd(MinSize) /\ Size % 2 = 1
    /\ initSize \in Nat

LEMMA SizeIs ==
    ASSUME NEW n, Table(data, n)
    PROVE  Size = n
BY TableIs DEF Size

\* An array of the first size: what create and reset make.
LEMMA FirstIs ==
    ASSUME NEW n \in Nat
    PROVE  LET o == Odd(AtLeast(n))
           IN  /\ Table(Empty(AtLeast(n)), o) /\ Sound(Empty(AtLeast(n)), o)
               /\ \A k \in Keys : ~Holds(Empty(AtLeast(n)), o, k)
               /\ o \in Nat \ {0} /\ o >= Odd(MinSize) /\ o % 2 = 1
<1>1. MinSize \in Nat \ {0}
  BY HtableAssumption
<1>2. AtLeast(n) \in Nat \ {0} /\ AtLeast(n) >= MinSize
  BY <1>1 DEF AtLeast
<1> DEFINE m == AtLeast(n)
<1>. HIDE DEF m
<1>3. m \in Nat \ {0} /\ m >= MinSize
  BY <1>2 DEF m
<1>4. Odd(m) >= Odd(MinSize)
  BY <1>1, <1>3 DEF Odd
<1>5. /\ Odd(m) \in Nat \ {0} /\ Odd(m) % 2 = 1
      /\ Table(Empty(m), Odd(m)) /\ Sound(Empty(m), Odd(m))
      /\ \A k \in Keys : ~Holds(Empty(m), Odd(m), k)
  BY <1>3, EmptyIs
<1>. QED
  BY <1>4, <1>5 DEF m

LEMMA HtInvInit == HtableInit => HtInv
<1> SUFFICES ASSUME HtableInit PROVE HtInv
  OBVIOUS
<1> DEFINE o == Odd(AtLeast(initSize))
<1>1. initSize \in Nat
  BY HtableAssumption DEF HtableInit
<1>2. /\ data = Empty(AtLeast(initSize)) /\ used = 0
      /\ DOMAIN value = {}
  BY DEF HtableInit
<1>3. /\ Table(data, o) /\ Sound(data, o)
      /\ \A k \in Keys : ~Holds(data, o, k)
      /\ o \in Nat \ {0} /\ o >= Odd(MinSize) /\ o % 2 = 1
  BY <1>1, <1>2, FirstIs
<1>. HIDE DEF o
<1>4. Size = o
  BY <1>3, SizeIs
<1>5. IsFiniteSet({}) /\ Cardinality({}) = 0
  BY FS_EmptySet
<1>. QED
  BY <1>1, <1>2, <1>3, <1>4, <1>5 DEF HtInv

\* An entry is taken out of its chain.
Unlinked(t, c, p) == [t EXCEPT ![c] = RemoveAt(@, p)]

\* u is t without k, which was at p in the chain c.
Lacks(u, t, n, k, c, p) ==
    /\ \A j \in Keys : Holds(u, n, j) <=> Holds(t, n, j) /\ j # k
    /\ \A i \in 0..(n - 1) : i # c => u[i] = t[i]
    /\ Len(u[c]) = Len(t[c]) - 1
    /\ \A m \in 1..(Len(t[c]) - 1) : u[c][m] = t[c][IF m < p THEN m ELSE m + 1]

LEMMA UnlinkIs ==
    ASSUME NEW n, NEW t, Table(t, n), Sound(t, n), NEW k \in Keys,
           NEW c, c = Hash[k] % n, NEW p \in 1..Len(t[c]), t[c][p] = k,
           NEW u, u = Unlinked(t, c, p)
    PROVE  Table(u, n) /\ Sound(u, n) /\ Lacks(u, t, n, k, c, p)
<1>1. /\ n \in Nat \ {0} /\ c \in 0..(n - 1) /\ \A j \in Keys : Hash[j] % n \in 0..(n - 1)
      /\ t[c] \in Seq(Keys) /\ Len(t[c]) \in Nat
      /\ t \in [0..(n - 1) -> Seq(Keys)]
  BY TableIs DEF Table
<1> DEFINE q == RemoveAt(t[c], p)
           l == Len(t[c])
           from(m) == IF m < p THEN m ELSE m + 1
<1>2. /\ q \in Seq(Keys) /\ Len(q) = l - 1
      /\ \A m \in 1..(l - 1) : q[m] = IF m < p THEN t[c][m] ELSE t[c][m + 1]
  <2>1. t[c] \in Seq(Keys)
    BY <1>1
  <2>. QED
    BY <2>1, RemovedIs
<1>3. u \in [0..(n - 1) -> Seq(Keys)] /\ u[c] = q /\ \A i \in 0..(n - 1) : i # c => u[i] = t[i]
  BY <1>1, <1>2 DEF Unlinked
<1>a. l \in Nat /\ p \in 1..l
  BY <1>1
<1>b. l = Len(t[c])
  OBVIOUS
<1>. HIDE DEF q, l
<1>4. ASSUME NEW m \in 1..(l - 1)
      PROVE  from(m) \in 1..l /\ from(m) # p /\ q[m] = t[c][from(m)]
  <2>1. CASE m < p
    <3>1. m \in 1..l /\ m # p
      BY <2>1, <1>a
    <3>. QED
      BY <2>1, <3>1, <1>2
  <2>2. CASE ~(m < p)
    <3>1. m + 1 \in 1..l /\ m + 1 # p
      BY <2>2, <1>a
    <3>. QED
      BY <2>2, <3>1, <1>2
  <2>. QED
    BY <2>1, <2>2
<1>5. \A m, j \in 1..(l - 1) : from(m) = from(j) => m = j
  BY <1>a
<1>6. ASSUME NEW m \in 1..l, m # p PROVE \E j \in 1..(l - 1) : from(j) = m
  <2>1. CASE m < p
    <3>1. m \in 1..(l - 1)
      BY <2>1, <1>a
    <3>2. from(m) = m
      BY <2>1
    <3>. QED
      BY <3>1, <3>2
  <2>2. CASE ~(m < p)
    <3>1. m - 1 \in 1..(l - 1) /\ ~(m - 1 < p) /\ m - 1 + 1 = m
      BY <2>2, <1>6, <1>a
    <3>2. from(m - 1) = m
      BY <3>1
    <3>. QED
      BY <3>1, <3>2
  <2>. QED
    BY <2>1, <2>2
<1>. HIDE DEF from
<1>c. /\ \A m \in 1..l : Hash[t[c][m]] % n = c
      /\ \A m, j \in 1..l : t[c][m] = t[c][j] => m = j
  BY <1>1, <1>b DEF Sound
<1>7. \A m \in 1..l : t[c][m] = k => m = p
  BY <1>a, <1>c
<1>8. Sound(u, n)
  <2> SUFFICES ASSUME NEW i \in 0..(n - 1)
               PROVE  /\ \A m \in 1..Len(u[i]) : Hash[u[i][m]] % n = i
                      /\ \A m, j \in 1..Len(u[i]) : u[i][m] = u[i][j] => m = j
    BY DEF Sound
  <2>1. CASE i # c
    BY <2>1, <1>3 DEF Sound
  <2>2. CASE i = c
    <3>1. ASSUME NEW m \in 1..(l - 1) PROVE Hash[q[m]] % n = c
      BY <1>4, <1>c
    <3>2. ASSUME NEW m \in 1..(l - 1), NEW j \in 1..(l - 1), q[m] = q[j] PROVE m = j
      <4>1. t[c][from(m)] = t[c][from(j)] /\ from(m) \in 1..l /\ from(j) \in 1..l
        BY <3>2, <1>4
      <4>2. from(m) = from(j)
        BY <4>1, <1>c
      <4>. QED
        BY <1>5, <4>2
    <3>3. u[i] = q /\ Len(u[i]) = l - 1
      BY <2>2, <1>2, <1>3
    <3>. QED
      BY <2>2, <3>1, <3>2, <3>3
  <2>. QED
    BY <2>1, <2>2
<1>9. ASSUME NEW j \in Keys PROVE Holds(u, n, j) <=> Holds(t, n, j) /\ j # k
  <2>1. CASE Hash[j] % n # c
    BY <2>1, <1>1, <1>3 DEF Holds
  <2>2. CASE Hash[j] % n = c
    <3>1. Holds(u, n, j) <=> \E m \in 1..(l - 1) : q[m] = j
      BY <2>2, <1>2, <1>3 DEF Holds
    <3>2. Holds(t, n, j) <=> \E m \in 1..l : t[c][m] = j
      BY <2>2, <1>b DEF Holds
    <3>3. ASSUME NEW m \in 1..(l - 1), q[m] = j PROVE (\E i \in 1..l : t[c][i] = j) /\ j # k
      BY <3>3, <1>4, <1>7
    <3>4. ASSUME NEW m \in 1..l, t[c][m] = j, j # k PROVE \E i \in 1..(l - 1) : q[i] = j
      <4>1. m # p
        BY <3>4
      <4>2. PICK i \in 1..(l - 1) : from(i) = m
        BY <1>6, <4>1
      <4>. QED
        BY <1>4, <3>4, <4>2
    <3>. QED
      BY <3>1, <3>2, <3>3, <3>4
  <2>. QED
    BY <2>1, <2>2
<1>10. Table(u, n)
  BY <1>1, <1>3 DEF Table
<1>11. \A m \in 1..(l - 1) : u[c][m] = t[c][IF m < p THEN m ELSE m + 1]
  BY <1>3, <1>4 DEF from
<1>. QED
  BY <1>b, <1>2, <1>3, <1>8, <1>9, <1>10, <1>11 DEF Lacks

\* Where the key is.
LEMMA SpotIs ==
    ASSUME HtInv, NEW k \in Keys, Located(k)
    PROVE  LET c == Hash[k] % Size
           IN  /\ c \in 0..(Size - 1) /\ Chain(data, k) = data[c]
               /\ Spot(k) \in 1..Len(data[c]) /\ data[c][Spot(k)] = k
<1> DEFINE c == Hash[k] % Size
<1>1. Table(data, Size)
  BY DEF HtInv
<1>2. c \in 0..(Size - 1) /\ Chain(data, k) = data[c] /\ DOMAIN data[c] = 1..Len(data[c])
  BY <1>1, TableIs
<1>3. \E i \in DOMAIN Chain(data, k) : Chain(data, k)[i] = k
  BY Zenon DEF Located, Range
<1>4. Spot(k) \in DOMAIN Chain(data, k) /\ Chain(data, k)[Spot(k)] = k
  BY <1>3, Zenon DEF Spot
<1>. QED
  BY <1>2, <1>4

LEMMA EnterStep ==
    ASSUME HtInv, NEW k \in Keys, NEW v, HtableEnter(k, v)
    PROVE  /\ HtInv'
           /\ stay' = {} \/ /\ stay' = stay /\ Size' = Size
                            /\ \/ data' = data
                               \/ data' = Link(data, k) /\ ~Holds(data, Size, k)
           /\ DOMAIN value \subseteq DOMAIN value'
           /\ UNCHANGED <<walk, seen>>
<1> DEFINE n == Size
           t == IF used >= Size THEN Grown(data) ELSE data
           m == IF used >= Size THEN Odd(2 * Size) ELSE Size
           new == k \notin Range(Chain(t, k))
<1>1. /\ data' = IF new THEN Link(t, k) ELSE t
      /\ DOMAIN value' = DOMAIN value \cup {k}
      /\ used' = used + IF new THEN 1 ELSE 0
      /\ stay' = IF t = data THEN stay ELSE {}
      /\ UNCHANGED <<initSize, walk, seen>>
  BY DEF HtableEnter
<1>2. /\ Table(data, n) /\ Sound(data, n) /\ n \in Nat \ {0}
      /\ IsFiniteSet(DOMAIN value) /\ used = Cardinality(DOMAIN value) /\ used \in Nat
      /\ \A j \in Keys : Holds(data, n, j) <=> j \in DOMAIN value
      /\ used <= n /\ n >= Odd(MinSize) /\ n % 2 = 1
  <2>1. IsFiniteSet(DOMAIN value) => Cardinality(DOMAIN value) \in Nat
    BY FS_CardinalityType
  <2>. QED
    BY <2>1 DEF HtInv, Table
<1>3. /\ Table(t, m) /\ Sound(t, m)
      /\ \A j \in Keys : Holds(t, m, j) <=> j \in DOMAIN value
  <2>1. CASE used >= n
    BY <2>1, <1>2, GrownIs
  <2>2. CASE ~(used >= n)
    BY <2>2, <1>2
  <2>. QED
    BY <2>1, <2>2
<1>4. m \in Nat /\ used < m /\ m >= Odd(MinSize) /\ m % 2 = 1
  <2>1. CASE used >= n
    <3>0. Odd(MinSize) \in Nat
      BY HtableAssumption, EmptyIs
    <3>1. 2 * n \in Nat \ {0}
      BY <1>2
    <3>2. Odd(2 * n) \in Nat /\ Odd(2 * n) >= 2 * n /\ Odd(2 * n) % 2 = 1
      BY <3>1, EmptyIs
    <3>3. (2 * n) % 2 = 0 /\ Odd(2 * n) = 2 * n + 1
      BY <1>2 DEF Odd
    <3>4. m = Odd(2 * n)
      BY <2>1
    <3>. HIDE DEF m, n
    <3>. QED
      BY <1>2, <2>1, <3>0, <3>2, <3>3, <3>4
  <2>2. CASE ~(used >= n)
    BY <2>2, <1>2
  <2>. QED
    BY <2>1, <2>2
<1>5. t = data => m = n
  <2>1. Cardinality(DOMAIN t) = m /\ Cardinality(DOMAIN data) = n
    BY <1>2, <1>3, TableIs
  <2>. QED
    BY <2>1
<1>6. new <=> ~Holds(t, m, k)
  BY <1>3, TableIs
<1>. HIDE DEF t, m, new
<1>7. CASE new
  <2>1. data' = Link(t, k) /\ used' = used + 1
    BY <1>1, <1>7
  <2>2. /\ Table(data', m) /\ Sound(data', m)
        /\ \A j \in Keys : Holds(data', m, j) <=> Holds(t, m, j) \/ j = k
    <3>1. /\ Table(Link(t, k), m) /\ Sound(Link(t, k), m)
          /\ \A j \in Keys : Holds(Link(t, k), m, j) <=> Holds(t, m, j) \/ j = k
      BY <1>3, <1>6, <1>7, LinkIs
    <3>. QED
      BY <2>1, <3>1
  <2>3. Size' = m
    BY <2>2, TableIs DEF Size
  <2>4. IsFiniteSet(DOMAIN value') /\ Cardinality(DOMAIN value') = used'
    <3>1. k \notin DOMAIN value
      BY <1>3, <1>6, <1>7
    <3>2. /\ IsFiniteSet(DOMAIN value \cup {k})
          /\ Cardinality(DOMAIN value \cup {k})
                = IF k \in DOMAIN value THEN Cardinality(DOMAIN value)
                  ELSE Cardinality(DOMAIN value) + 1
      BY <1>2, FS_AddElement
    <3>. QED
      BY <1>1, <1>2, <2>1, <3>1, <3>2
  <2>5. used' <= Size' /\ Size' >= Odd(MinSize) /\ Size' % 2 = 1
    BY <1>2, <1>4, <2>1, <2>3
  <2>6. \A j \in Keys : Holds(data', Size', j) <=> j \in DOMAIN value'
    BY <1>1, <1>3, <2>2, <2>3
  <2>7. DOMAIN value' \subseteq Keys /\ initSize' \in Nat
    BY <1>1 DEF HtInv
  <2>8. HtInv'
    BY <2>2, <2>3, <2>4, <2>5, <2>6, <2>7 DEF HtInv
  <2>9. t = data => Size' = Size /\ data' = Link(data, k) /\ ~Holds(data, Size, k)
    BY <1>5, <1>6, <1>7, <2>1, <2>3
  <2>. QED
    BY <1>1, <2>8, <2>9
<1>8. CASE ~new
  <2>1. data' = t /\ used' = used
    BY <1>1, <1>2, <1>8
  <2>2. Table(data', m) /\ Sound(data', m)
    BY <1>3, <2>1
  <2>3. Size' = m
    BY <2>2, TableIs DEF Size
  <2>4. k \in DOMAIN value
    BY <1>3, <1>6, <1>8
  <2>5. DOMAIN value' = DOMAIN value
    BY <1>1, <2>4
  <2>6. used' <= Size' /\ Size' >= Odd(MinSize) /\ Size' % 2 = 1
    BY <1>2, <1>4, <2>1, <2>3
  <2>7. \A j \in Keys : Holds(data', Size', j) <=> j \in DOMAIN value'
    BY <1>3, <2>1, <2>3, <2>5
  <2>8. HtInv'
    BY <1>1, <1>2, <2>1, <2>2, <2>3, <2>5, <2>6, <2>7 DEF HtInv
  <2>9. t = data => Size' = Size /\ data' = data
    BY <1>5, <2>1, <2>3
  <2>. QED
    BY <1>1, <2>5, <2>8, <2>9
<1>. QED
  BY <1>7, <1>8

LEMMA DeleteStep ==
    ASSUME HtInv, NEW k \in Keys, HtableDelete(k)
    PROVE  /\ HtInv'
           /\ Size' = Size
           /\ DOMAIN value' = DOMAIN value \ {k}
           /\ Lacks(data', data, Size, k, Hash[k] % Size, Spot(k))
<1> DEFINE c == Hash[k] % Size
           n == Size
<1>1. /\ data' = [data EXCEPT ![c] = RemoveAt(@, Spot(k))]
      /\ value' = [j \in DOMAIN value \ {k} |-> value[j]]
      /\ used' = used - 1 /\ UNCHANGED initSize
      /\ Located(k)
  BY DEF HtableDelete
<1>2. /\ c \in 0..(n - 1) /\ Chain(data, k) = data[c]
      /\ Spot(k) \in 1..Len(data[c]) /\ data[c][Spot(k)] = k
  BY <1>1, SpotIs
<1>3. /\ Table(data, n) /\ Sound(data, n) /\ n \in Nat \ {0}
      /\ IsFiniteSet(DOMAIN value) /\ used = Cardinality(DOMAIN value) /\ used \in Nat
      /\ \A j \in Keys : Holds(data, n, j) <=> j \in DOMAIN value
      /\ used <= n /\ n >= Odd(MinSize) /\ n % 2 = 1
  <2>1. IsFiniteSet(DOMAIN value) => Cardinality(DOMAIN value) \in Nat
    BY FS_CardinalityType
  <2>. QED
    BY <2>1 DEF HtInv, Table
<1> DEFINE p == Spot(k)
           u == data'
<1>4. u = Unlinked(data, c, p) /\ c = Hash[k] % n /\ p \in 1..Len(data[c]) /\ data[c][p] = k
  BY <1>1, <1>2 DEF Unlinked
<1>. HIDE DEF c, n, p, u
<1>5. /\ Table(u, n) /\ Sound(u, n)
      /\ \A j \in Keys : Holds(u, n, j) <=> Holds(data, n, j) /\ j # k
      /\ Lacks(u, data, n, k, c, p)
  <2>1. Table(data, n) /\ Sound(data, n)
    BY <1>3
  <2>2. Table(u, n) /\ Sound(u, n) /\ Lacks(u, data, n, k, c, p)
    BY <2>1, <1>4, UnlinkIs
  <2>. QED
    BY <2>2 DEF Lacks
<1>6. Size' = n
  BY <1>5, TableIs DEF Size, u
<1>7. DOMAIN value' = DOMAIN value \ {k}
  BY <1>1
<1>8. k \in DOMAIN value
  BY <1>1, <1>3, TableIs DEF Located
<1>9. IsFiniteSet(DOMAIN value') /\ Cardinality(DOMAIN value') = used'
  <2>1. /\ IsFiniteSet(DOMAIN value \ {k})
        /\ Cardinality(DOMAIN value \ {k})
              = IF k \in DOMAIN value THEN Cardinality(DOMAIN value) - 1
                ELSE Cardinality(DOMAIN value)
    BY <1>3, FS_RemoveElement
  <2>. QED
    BY <1>1, <1>3, <1>7, <1>8, <2>1
<1>10. used' <= Size' /\ Size' >= Odd(MinSize) /\ Size' % 2 = 1
  BY <1>1, <1>3, <1>6
<1>11. \A j \in Keys : Holds(u, Size', j) <=> j \in DOMAIN value'
  BY <1>3, <1>5, <1>6, <1>7
<1>12. DOMAIN value' \subseteq Keys /\ initSize' \in Nat
  BY <1>1, <1>7 DEF HtInv
<1>13. HtInv'
  BY <1>5, <1>6, <1>9, <1>10, <1>11, <1>12 DEF HtInv, u
<1>. QED
  BY <1>5, <1>6, <1>7, <1>13 DEF n, c, p, u

LEMMA ResetStep ==
    ASSUME HtInv, HtableReset
    PROVE  HtInv'
<1> DEFINE o == Odd(AtLeast(initSize))
<1>1. /\ data' = Empty(AtLeast(initSize)) /\ used' = 0 /\ DOMAIN value' = {}
      /\ initSize' = initSize /\ initSize \in Nat
  BY DEF HtableReset, HtInv
<1>2. /\ Table(data', o) /\ Sound(data', o)
      /\ \A k \in Keys : ~Holds(data', o, k)
      /\ o \in Nat \ {0} /\ o >= Odd(MinSize) /\ o % 2 = 1
  BY <1>1, FirstIs
<1>. HIDE DEF o
<1>3. Size' = o
  BY <1>2, TableIs DEF Size
<1>4. IsFiniteSet({}) /\ Cardinality({}) = 0
  BY FS_EmptySet
<1>. QED
  BY <1>1, <1>2, <1>3, <1>4 DEF HtInv

LEMMA HtInvNext == HtInv /\ [HtableNext]_htableVars => HtInv'
<1> SUFFICES ASSUME HtInv, [HtableNext]_htableVars PROVE HtInv'
  OBVIOUS
<1>1. ASSUME NEW k \in Keys, NEW v \in Values, HtableEnter(k, v) PROVE HtInv'
  BY <1>1, EnterStep
<1>2. ASSUME NEW k \in Keys, HtableDelete(k) PROVE HtInv'
  BY <1>2, DeleteStep
<1>3. ASSUME HtableReset PROVE HtInv'
  BY <1>3, ResetStep
<1>4. ASSUME UNCHANGED <<data, value, used, initSize>> PROVE HtInv'
  BY <1>4 DEF HtInv, Size
<1>5. ASSUME NEW d \in {1, -1}, WalkBegin(d) PROVE HtInv'
  BY <1>4, <1>5 DEF WalkBegin
<1>6. ASSUME WalkStep PROVE HtInv'
  BY <1>4, <1>6 DEF WalkStep
<1>7. CASE UNCHANGED htableVars
  BY <1>4, <1>7 DEF htableVars
<1>. QED
  BY <1>1, <1>2, <1>3, <1>5, <1>6, <1>7 DEF HtableNext

LEMMA HtInvAlways == HtableSpec => []HtInv
BY HtInvInit, HtInvNext, PTL DEF HtableSpec

\* Through every growth, the table is the map of what was entered and not
\* deleted: a key is found if and only if it is there, in the chain of its hash
\* and once, the count is right, and there are never more entries than chains.
THEOREM HtableIsMapAlways == HtableSpec => []HtableIsMap
<1>1. ASSUME HtInv PROVE HtableIsMap
  <2>1. Table(data, Size) /\ Sound(data, Size)
    BY <1>1 DEF HtInv
  <2>2. /\ DOMAIN data = 0..(Size - 1)
        /\ \A i \in 0..(Size - 1) : DOMAIN data[i] = 1..Len(data[i])
        /\ \A k \in Keys : Located(k) <=> Holds(data, Size, k)
    BY <2>1, TableIs DEF Located
  <2>. HIDE DEF Size
  <2>3. \A i \in DOMAIN data : \A j \in DOMAIN data[i] : Hash[data[i][j]] % Size = i
    BY <2>1, <2>2 DEF Sound
  <2>4. \A i \in DOMAIN data : IsInjective(data[i])
    BY <2>1, <2>2 DEF Sound, IsInjective
  <2>. QED
    BY <1>1, <2>2, <2>3, <2>4 DEF HtInv, HtableIsMap
<1>. QED
  BY <1>1, HtInvAlways, PTL

-----------------------------------------------------------------------------
(***************************************************************************)
(* The walk.  In the direction d chain i comes before chain j; the chains  *)
(* themselves are always walked forward.                                   *)
(***************************************************************************)
Earlier(d, i, j) == IF d = 1 THEN i < j ELSE j < i

\* In the table t a walk in the direction d has k still to come when it is at a.
Comes(t, n, d, a, k) ==
    \/ Earlier(d, Hash[a] % n, Hash[k] % n)
    \/ /\ Hash[a] % n = Hash[k] % n
       /\ \E i, j \in 1..Len(t[Hash[a] % n]) :
             i < j /\ t[Hash[a] % n][i] = a /\ t[Hash[a] % n][j] = k

WalkTyped ==
    /\ walk \in [dir : {-1, 0, 1}, i : Int, size : Nat, at : Keys \cup {NoKey}]
    /\ seen \in Seq(Keys) /\ stay \subseteq DOMAIN value
    /\ walk.dir = 0 => walk.at = NoKey

\* Nothing the walk has come to is ahead of it, so it does not come to it again.
Behind == \A s \in Range(seen) : ~Comes(data, Size, walk.dir, walk.at, s)

\* What was there all the time was come to or is ahead.
Coming ==
    \A k \in stay : k \in Range(seen) \/ Comes(data, Size, walk.dir, walk.at, k)

WalkInv ==
    /\ WalkTyped
    /\ IsInjective(seen)
    /\ stay # {} /\ walk.dir # 0 =>
          /\ walk.size = Size
          /\ walk.at # NoKey => /\ Holds(data, Size, walk.at)
                                /\ walk.i = Hash[walk.at] % Size
                                /\ Behind /\ Coming
          /\ walk.at = NoKey => stay \subseteq Range(seen)

\* The order of the chains is a strict order, and total.
LEMMA EarlierIs ==
    ASSUME NEW d
    PROVE  /\ \A i, j, l \in Int : Earlier(d, i, j) /\ Earlier(d, j, l) => Earlier(d, i, l)
           /\ \A i \in Int : ~Earlier(d, i, i)
           /\ \A i, j \in Int : Earlier(d, i, j) \/ i = j \/ Earlier(d, j, i)
BY DEF Earlier

\* So is the order of the walk.
LEMMA ComesIs ==
    ASSUME NEW n, NEW t, Table(t, n), Sound(t, n), NEW d,
           NEW a \in Keys, NEW b \in Keys
    PROVE  /\ ~Comes(t, n, d, a, a)
           /\ \A k \in Keys : Comes(t, n, d, a, b) /\ Comes(t, n, d, b, k) => Comes(t, n, d, a, k)
<1> DEFINE c(k) == Hash[k] % n
<1>1. \A k \in Keys : c(k) \in 0..(n - 1) /\ c(k) \in Int /\ Len(t[c(k)]) \in Nat
  <2>1. n \in Nat \ {0}
    BY DEF Table
  <2>. QED
    BY <2>1, TableIs
<1>2. \A i \in 0..(n - 1) : \A m, l \in 1..Len(t[i]) : t[i][m] = t[i][l] => m = l
  BY DEF Sound
<1>3. \A j, k : Comes(t, n, d, j, k) <=>
          \/ Earlier(d, c(j), c(k))
          \/ /\ c(j) = c(k)
             /\ \E m, l \in 1..Len(t[c(j)]) : m < l /\ t[c(j)][m] = j /\ t[c(j)][l] = k
  BY DEF Comes
<1>. HIDE DEF c
<1>4. ~Comes(t, n, d, a, a)
  <2>1. ~Earlier(d, c(a), c(a))
    BY <1>1, EarlierIs
  <2>2. ASSUME NEW m \in 1..Len(t[c(a)]), NEW l \in 1..Len(t[c(a)]),
               m < l, t[c(a)][m] = a, t[c(a)][l] = a
        PROVE  FALSE
    <3>1. m = l
      BY <1>1, <1>2, <2>2
    <3>. QED
      BY <1>1, <2>2, <3>1
  <2>. QED
    BY <1>3, <2>1, <2>2
<1>5. ASSUME NEW k \in Keys, Comes(t, n, d, a, b), Comes(t, n, d, b, k)
      PROVE  Comes(t, n, d, a, k)
  <2>1. CASE Earlier(d, c(a), c(b)) \/ Earlier(d, c(b), c(k))
    <3>1. Earlier(d, c(a), c(k))
      <4>1. c(a) \in Int /\ c(b) \in Int /\ c(k) \in Int
        BY <1>1
      <4>2. Earlier(d, c(a), c(b)) \/ c(a) = c(b)
        BY <1>3, <1>5
      <4>3. Earlier(d, c(b), c(k)) \/ c(b) = c(k)
        BY <1>3, <1>5
      <4>. QED
        BY <2>1, <4>1, <4>2, <4>3, EarlierIs
    <3>. QED
      BY <1>3, <3>1
  <2>2. CASE ~(Earlier(d, c(a), c(b)) \/ Earlier(d, c(b), c(k)))
    <3>1. c(a) = c(b) /\ c(b) = c(k)
      BY <1>3, <1>5, <2>2
    <3> DEFINE q == t[c(a)]
    <3>2. PICK m \in 1..Len(q), l \in 1..Len(q) : m < l /\ q[m] = a /\ q[l] = b
      BY <1>3, <1>5, <2>2
    <3>3. PICK x \in 1..Len(q), y \in 1..Len(q) : x < y /\ q[x] = b /\ q[y] = k
      BY <1>3, <1>5, <2>2, <3>1
    <3>4. l = x
      BY <1>1, <1>2, <3>2, <3>3
    <3>5. m < y
      BY <1>1, <3>2, <3>3, <3>4
    <3>. QED
      BY <1>3, <3>1, <3>2, <3>3, <3>5
  <2>. QED
    BY <2>1, <2>2
<1>. QED
  BY <1>4, <1>5

\* An entry made is ahead of no entry of its chain, and moves none past another.
LEMMA LinkKeeps ==
    ASSUME NEW n, NEW t, Table(t, n), Sound(t, n), NEW x \in Keys, ~Holds(t, n, x),
           NEW d, NEW a \in Keys, Holds(t, n, a), NEW k \in Keys
    PROVE  Comes(Link(t, x), n, d, a, k) <=> Comes(t, n, d, a, k)
<1> DEFINE c == Hash[a] % n
           e == Hash[x] % n
           u == Link(t, x)
           l == Len(t[c])
<1>1. n \in Nat \ {0} /\ c \in 0..(n - 1) /\ l \in Nat
  BY TableIs DEF Table
<1>2. /\ \A i \in 0..(n - 1) : i # e => u[i] = t[i]
      /\ Len(u[e]) = Len(t[e]) + 1
      /\ u[e][1] = x
      /\ \A m \in 1..Len(t[e]) : u[e][m + 1] = t[e][m]
  <2>1. e = Hash[x] % n
    OBVIOUS
  <2>. HIDE DEF e
  <2>. QED
    BY <2>1, LinkIs
<1>3. a # x
  OBVIOUS
<1>4. /\ Comes(u, n, d, a, k) <=>
            \/ Earlier(d, c, Hash[k] % n)
            \/ c = Hash[k] % n /\ \E i, j \in 1..Len(u[c]) : i < j /\ u[c][i] = a /\ u[c][j] = k
      /\ Comes(t, n, d, a, k) <=>
            \/ Earlier(d, c, Hash[k] % n)
            \/ c = Hash[k] % n /\ \E i, j \in 1..l : i < j /\ t[c][i] = a /\ t[c][j] = k
  BY DEF Comes
<1>5. l = Len(t[c])
  OBVIOUS
<1>. HIDE DEF c, e, u, l
<1>6. ASSUME c # e PROVE Comes(u, n, d, a, k) <=> Comes(t, n, d, a, k)
  <2>1. u[c] = t[c]
    BY <1>1, <1>2, <1>6
  <2>. QED
    BY <1>4, <1>5, <2>1
<1>7. ASSUME c = e PROVE Comes(u, n, d, a, k) <=> Comes(t, n, d, a, k)
  <2>1. /\ Len(u[c]) = l + 1 /\ u[c][1] = x
        /\ \A m \in 1..l : u[c][m + 1] = t[c][m]
    BY <1>2, <1>5, <1>7
  <2>2. ASSUME NEW i \in 1..(l + 1), NEW j \in 1..(l + 1), i < j, u[c][i] = a, u[c][j] = k
        PROVE  \E m, q \in 1..l : m < q /\ t[c][m] = a /\ t[c][q] = k
    <3>1. i # 1
      BY <1>3, <2>1, <2>2
    <3>2. i - 1 \in 1..l /\ j - 1 \in 1..l /\ i - 1 < j - 1 /\ i - 1 + 1 = i /\ j - 1 + 1 = j
      BY <1>1, <2>2, <3>1
    <3>3. t[c][i - 1] = a /\ t[c][j - 1] = k
      BY <2>1, <2>2, <3>2
    <3>. QED
      BY <3>2, <3>3
  <2>3. ASSUME NEW i \in 1..l, NEW j \in 1..l, i < j, t[c][i] = a, t[c][j] = k
        PROVE  \E m, q \in 1..(l + 1) : m < q /\ u[c][m] = a /\ u[c][q] = k
    <3>1. i + 1 \in 1..(l + 1) /\ j + 1 \in 1..(l + 1) /\ i + 1 < j + 1
      BY <1>1, <2>3
    <3>2. u[c][i + 1] = a /\ u[c][j + 1] = k
      BY <2>1, <2>3
    <3>. QED
      BY <3>1, <3>2
  <2>. QED
    BY <1>4, <2>1, <2>2, <2>3
<1>. QED
  <2>1. Comes(u, n, d, a, k) <=> Comes(t, n, d, a, k)
    BY <1>6, <1>7
  <2>. QED
    BY <2>1 DEF u

\* Nor does an entry taken out.
LEMMA LacksKeeps ==
    ASSUME NEW n, NEW t, Table(t, n), NEW u, NEW x \in Keys, NEW c, c = Hash[x] % n,
           NEW p \in 1..Len(t[c]), t[c][p] = x, Lacks(u, t, n, x, c, p),
           NEW d, NEW a \in Keys, a # x, NEW k \in Keys
    PROVE  /\ Comes(u, n, d, a, k) => Comes(t, n, d, a, k)
           /\ Comes(t, n, d, a, k) /\ k # x => Comes(u, n, d, a, k)
<1> DEFINE e == Hash[a] % n
           l == Len(t[e])
           to(m) == IF m < p THEN m ELSE m - 1
           from(m) == IF m < p THEN m ELSE m + 1
<1>1. n \in Nat \ {0} /\ e \in 0..(n - 1) /\ l \in Nat
  BY TableIs DEF Table
<1>2. /\ \A i \in 0..(n - 1) : i # c => u[i] = t[i]
      /\ Len(u[c]) = Len(t[c]) - 1
      /\ \A m \in 1..(Len(t[c]) - 1) : u[c][m] = t[c][from(m)]
  BY DEF Lacks
<1>3. /\ Comes(u, n, d, a, k) <=>
            \/ Earlier(d, e, Hash[k] % n)
            \/ e = Hash[k] % n /\ \E i, j \in 1..Len(u[e]) : i < j /\ u[e][i] = a /\ u[e][j] = k
      /\ Comes(t, n, d, a, k) <=>
            \/ Earlier(d, e, Hash[k] % n)
            \/ e = Hash[k] % n /\ \E i, j \in 1..l : i < j /\ t[e][i] = a /\ t[e][j] = k
  BY DEF Comes
<1>4. l = Len(t[e])
  OBVIOUS
<1>. HIDE DEF e, l
<1>5. CASE e # c
  BY <1>1, <1>2, <1>3, <1>4, <1>5
<1>6. CASE e = c
  <2>1. /\ Len(u[e]) = l - 1 /\ p \in 1..l /\ t[e][p] = x
        /\ \A m \in 1..(l - 1) : u[e][m] = t[e][from(m)]
    BY <1>2, <1>4, <1>6
  <2>2. \A m \in 1..(l - 1) : from(m) \in 1..l
    BY <1>1, <2>1
  <2>3. \A m, j \in 1..(l - 1) : m < j => from(m) < from(j)
    BY <1>1, <2>1
  <2>4. \A m \in 1..l : m # p => to(m) \in 1..(l - 1)
    BY <1>1, <2>1
  <2>5. \A m, j \in 1..l : m # p /\ j # p /\ m < j => to(m) < to(j)
    BY <1>1, <2>1
  <2>6. \A m \in 1..l : m # p => from(to(m)) = m
    BY <1>1, <2>1
  <2>. HIDE DEF from, to
  <2>7. ASSUME NEW i \in 1..(l - 1), NEW j \in 1..(l - 1), i < j, u[e][i] = a, u[e][j] = k
        PROVE  \E m, q \in 1..l : m < q /\ t[e][m] = a /\ t[e][q] = k
    BY <2>1, <2>2, <2>3, <2>7
  <2>8. ASSUME NEW i \in 1..l, NEW j \in 1..l, i < j, t[e][i] = a, t[e][j] = k, k # x
        PROVE  \E m, q \in 1..(l - 1) : m < q /\ u[e][m] = a /\ u[e][q] = k
    <3>1. i # p /\ j # p
      BY <2>1, <2>8
    <3>2. to(i) \in 1..(l - 1) /\ to(j) \in 1..(l - 1) /\ to(i) < to(j)
      BY <2>4, <2>5, <2>8, <3>1
    <3>3. u[e][to(i)] = a /\ u[e][to(j)] = k
      BY <2>1, <2>6, <2>8, <3>1, <3>2
    <3>. QED
      BY <3>2, <3>3
  <2>. QED
    BY <1>3, <2>1, <2>7, <2>8
<1>. QED
  BY <1>5, <1>6

\* The chain the search ends at: with an entry, not before i, and none between;
\* or there is no such chain.
LEMMA NextChainIs ==
    ASSUME NEW n, Table(data, n), NEW d \in {1, -1}, NEW i \in Int,
           NEW r, r = NextChain(i, d, n)
    PROVE  /\ r \in Int
           /\ \/ /\ r \in 0..(n - 1) /\ data[r] # <<>> /\ ~Earlier(d, r, i)
                 /\ \A l \in 0..(n - 1) :
                       data[l] # <<>> /\ ~Earlier(d, l, i) => ~Earlier(d, l, r)
              \/ /\ r \notin 0..(n - 1)
                 /\ \A l \in 0..(n - 1) : ~Earlier(d, l, i) => data[l] = <<>>
<1>1. n \in Nat \ {0} /\ DOMAIN data = 0..(n - 1)
  BY TableIs DEF Table
<1> DEFINE In == {j \in DOMAIN data : j < n /\ data[j] # <<>> /\ (j - i) * d >= 0}
           Best(j) == \A l \in In : (l - j) * d >= 0
<1>2. r = IF In = {} THEN IF d = 1 THEN n ELSE -1 ELSE CHOOSE j \in In : Best(j)
  BY Zenon DEF NextChain
<1>3. \A x, y \in Int : (x - y) * d >= 0 <=> ~Earlier(d, x, y)
  <2>1. CASE d = 1
    BY <2>1 DEF Earlier
  <2>2. CASE d = -1
    BY <2>2 DEF Earlier
  <2>. QED
    BY <2>1, <2>2
<1>4. \A j : j \in In <=> j \in 0..(n - 1) /\ data[j] # <<>> /\ ~Earlier(d, j, i)
  <2>1. \A j \in 0..(n - 1) : j \in Int /\ j < n
    BY <1>1
  <2>. QED
    BY <1>1, <1>3, <2>1
<1>5. \A j, l : j \in In /\ l \in In => ((l - j) * d >= 0 <=> ~Earlier(d, l, j))
  <2>1. \A j \in 0..(n - 1) : j \in Int
    BY <1>1
  <2>. QED
    BY <1>3, <1>4, <2>1
<1>6. ASSUME In # {} PROVE \E j \in In : \A l \in In : ~Earlier(d, l, j)
  <2>1. \A j \in In : j \in 0..(n - 1)
    BY <1>4
  <2>. HIDE DEF In
  <2>2. CASE d = 1
    <3>1. In \in SUBSET Nat
      BY <1>1, <2>1
    <3>2. PICK j \in In : \A m \in In : j <= m
      BY <1>6, <3>1, Least
    <3>. QED
      BY <2>2, <3>1, <3>2 DEF Earlier
  <2>3. CASE d = -1
    <3> DEFINE T == {m \in Nat : n - 1 - m \in In}
    <3>1. \A j \in In : n - 1 - j \in Nat /\ n - 1 - (n - 1 - j) = j /\ j \in Nat
      BY <1>1, <2>1
    <3>2. T # {}
      BY <1>6, <3>1
    <3>3. PICK m \in T : \A l \in T : m <= l
      <4>1. T \in SUBSET Nat
        OBVIOUS
      <4>. HIDE DEF T
      <4>. QED
        BY <3>2, <4>1, Least
    <3>4. m \in Nat /\ n - 1 - m \in In
      BY <3>3
    <3>5. ASSUME NEW l \in In PROVE ~(n - 1 - m < l)
      <4>1. n - 1 - l \in T
        BY <3>1
      <4>2. m <= n - 1 - l
        BY <3>3, <4>1
      <4>. QED
        BY <1>1, <3>1, <3>4, <4>2
    <3>6. \A l \in In : ~Earlier(d, l, n - 1 - m)
      BY <2>3, <3>5 DEF Earlier
    <3>. QED
      BY <3>4, <3>6
  <2>. QED
    BY <2>2, <2>3
<1>7. CASE In = {}
  <2>1. r = IF d = 1 THEN n ELSE -1
    BY <1>2, <1>7
  <2>2. r \in Int /\ r \notin 0..(n - 1)
    BY <1>1, <2>1
  <2>. QED
    BY <1>4, <1>7, <2>2
<1>8. CASE In # {}
  <2>1. \E j \in In : Best(j)
    BY <1>5, <1>6, <1>8
  <2>2. r \in In /\ Best(r)
    <3>. HIDE DEF In, Best
    <3>. QED
      BY <1>2, <1>8, <2>1, Zenon
  <2>3. \A l \in In : ~Earlier(d, l, r)
    BY <1>5, <2>2
  <2>4. r \in 0..(n - 1) /\ r \in Int
    BY <1>1, <1>4, <2>2
  <2>. QED
    BY <1>4, <2>2, <2>3, <2>4
<1>. QED
  BY <1>7, <1>8

\* The first entry of a chain.
LEMMA AtIs ==
    ASSUME NEW n, Table(data, n), Sound(data, n), NEW i
    PROVE  /\ At(i) = NoKey => i \notin 0..(n - 1) \/ data[i] = <<>>
           /\ i \notin 0..(n - 1) => At(i) = NoKey
           /\ i \in 0..(n - 1) /\ data[i] # <<>> =>
                 /\ At(i) \in Keys /\ 1 \in 1..Len(data[i]) /\ data[i][1] = At(i)
                 /\ Holds(data, n, At(i)) /\ Hash[At(i)] % n = i
<1>1. n \in Nat \ {0} /\ DOMAIN data = 0..(n - 1)
  BY TableIs DEF Table
<1>2. i \notin 0..(n - 1) => At(i) = NoKey
  BY <1>1 DEF At
<1>3. ASSUME i \in 0..(n - 1), data[i] # <<>>
      PROVE  /\ At(i) \in Keys /\ 1 \in 1..Len(data[i]) /\ data[i][1] = At(i)
             /\ Holds(data, n, At(i)) /\ Hash[At(i)] % n = i
  <2>1. /\ data[i] \in Seq(Keys) /\ Len(data[i]) \in Nat
        /\ \A m \in 1..Len(data[i]) : data[i][m] \in Keys
    BY <1>3, TableIs
  <2>2. Len(data[i]) # 0
    BY <1>3, <2>1, EmptySeq
  <2>3. 1 \in 1..Len(data[i]) /\ At(i) = data[i][1]
    BY <1>1, <1>3, <2>1, <2>2 DEF At
  <2>4. Hash[data[i][1]] % n = i
    BY <1>3, <2>3 DEF Sound
  <2>. QED
    BY <2>1, <2>3, <2>4 DEF Holds
<1>4. NoKey \notin Keys
  BY HtableAssumption
<1>. QED
  BY <1>2, <1>3, <1>4

\* The entry a chain begins with comes before the others of its chain.
LEMMA FirstComes ==
    ASSUME NEW n, NEW t, Table(t, n), NEW d, NEW k \in Keys,
           1 \in 1..Len(t[Hash[k] % n]), t[Hash[k] % n][1] = k,
           NEW j \in Keys, Holds(t, n, j), Hash[j] % n = Hash[k] % n
    PROVE  j = k \/ Comes(t, n, d, k, j)
<1> DEFINE q == t[Hash[k] % n]
<1>1. Len(q) \in Nat
  BY TableIs
<1>2. PICK m \in 1..Len(q) : q[m] = j
  BY DEF Holds
<1>3. CASE m = 1
  BY <1>2, <1>3
<1>4. CASE m # 1
  <2>1. 1 < m
    BY <1>1, <1>4
  <2>. QED
    BY <1>2, <2>1 DEF Comes
<1>. QED
  BY <1>3, <1>4

\* A step leads to the next entry in the order of the walk, or there is none.
LEMMA NextIs ==
    ASSUME HtInv, NEW a \in Keys, Located(a), NEW d \in {1, -1},
           NEW x, x = After(a),
           NEW i, i = IF x # NoKey THEN Hash[a] % Size
                      ELSE NextChain((Hash[a] % Size) + d, d, Size),
           NEW k, k = IF x # NoKey THEN x ELSE At(i)
    PROVE  /\ i \in Int /\ k \in Keys \cup {NoKey}
           /\ k = NoKey =>
                 \A j \in Keys : Holds(data, Size, j) => ~Comes(data, Size, d, a, j)
           /\ k # NoKey =>
                 /\ Holds(data, Size, k) /\ i = Hash[k] % Size
                 /\ Comes(data, Size, d, a, k)
                 /\ \A j \in Keys : Holds(data, Size, j) /\ Comes(data, Size, d, a, j)
                                       => j = k \/ Comes(data, Size, d, k, j)
<1> DEFINE n == Size
           c == Hash[a] % n
           p == Spot(a)
           q == data[c]
           l == Len(q)
<1>1. Table(data, n) /\ Sound(data, n) /\ n \in Nat \ {0} /\ NoKey \notin Keys
  BY HtableAssumption DEF HtInv, Table
<1>2. c \in 0..(n - 1) /\ Chain(data, a) = q /\ p \in 1..l /\ q[p] = a
  BY SpotIs
<1>3. /\ \A j \in Keys : Hash[j] % n \in 0..(n - 1)
      /\ q \in Seq(Keys) /\ l \in Nat /\ \A m \in 1..l : q[m] \in Keys
  BY <1>1, <1>2, TableIs
<1>4. /\ \A m \in 1..l : Hash[q[m]] % n = c
      /\ \A m, j \in 1..l : q[m] = q[j] => m = j
  BY <1>1, <1>2 DEF Sound
<1>5. x = IF p < l THEN q[p + 1] ELSE NoKey
  BY <1>2 DEF After
<1>6. \A j \in Keys : Comes(data, n, d, a, j) <=>
          \/ Earlier(d, c, Hash[j] % n)
          \/ c = Hash[j] % n /\ \E m \in 1..l : p < m /\ q[m] = j
  <2> TAKE j \in Keys
  <2>1. \A m, e \in 1..l : m < e /\ q[m] = a /\ q[e] = j => p < e
    BY <1>2, <1>4
  <2>. QED
    BY <1>2, <2>1 DEF Comes
<1>7. \A j \in Keys : Holds(data, n, j) => data[Hash[j] % n] # <<>>
  <2> SUFFICES ASSUME NEW j \in Keys, NEW m \in 1..Len(data[Hash[j] % n]),
                      data[Hash[j] % n] = <<>>
               PROVE  FALSE
    BY DEF Holds
  <2>. QED
    OBVIOUS
<1>8. CASE p < l
  <2>1. p + 1 \in 1..l /\ x = q[p + 1] /\ p < p + 1
    BY <1>2, <1>3, <1>5, <1>8
  <2>2. x \in Keys /\ x # NoKey /\ Hash[x] % n = c
    BY <1>1, <1>3, <1>4, <2>1
  <2>3. i = c /\ k = x
    BY <2>2
  <2>4. Holds(data, n, x)
    BY <2>1, <2>2 DEF Holds
  <2>5. Comes(data, n, d, a, x)
    BY <1>6, <2>1, <2>2
  <2>6. ASSUME NEW j \in Keys, Comes(data, n, d, a, j)
        PROVE  j = x \/ Comes(data, n, d, x, j)
    <3>1. CASE Earlier(d, c, Hash[j] % n)
      BY <2>2, <3>1 DEF Comes
    <3>2. CASE c = Hash[j] % n /\ \E m \in 1..l : p < m /\ q[m] = j
      <4>1. PICK m \in 1..l : p < m /\ q[m] = j
        BY <3>2
      <4>2. m = p + 1 \/ p + 1 < m
        BY <1>2, <1>3, <4>1
      <4>. QED
        BY <2>1, <2>2, <3>2, <4>1, <4>2 DEF Comes
    <3>. QED
      BY <1>6, <2>6, <3>1, <3>2
  <2>7. i \in Int
    BY <1>1, <1>2, <2>3
  <2>. QED
    BY <1>1, <2>2, <2>3, <2>4, <2>5, <2>6, <2>7
<1>9. CASE ~(p < l)
  <2>1. x = NoKey /\ i = NextChain(c + d, d, n) /\ k = At(i)
    BY <1>5, <1>9
  <2>2. \A j \in Keys : Comes(data, n, d, a, j) <=> Earlier(d, c, Hash[j] % n)
    <3>1. ~\E m \in 1..l : p < m
      BY <1>2, <1>3, <1>9
    <3>. QED
      BY <1>6, <3>1
  <2>3. c + d \in Int /\ \A e \in Int : ~Earlier(d, e, c + d) <=> Earlier(d, c, e)
    BY <1>1, <1>2 DEF Earlier
  <2>4. /\ i \in Int
        /\ \/ /\ i \in 0..(n - 1) /\ data[i] # <<>> /\ ~Earlier(d, i, c + d)
              /\ \A e \in 0..(n - 1) :
                    data[e] # <<>> /\ ~Earlier(d, e, c + d) => ~Earlier(d, e, i)
           \/ /\ i \notin 0..(n - 1)
              /\ \A e \in 0..(n - 1) : ~Earlier(d, e, c + d) => data[e] = <<>>
    <3>. HIDE DEF n, c
    <3> DEFINE s == c + d
    <3>1. s \in Int /\ i = NextChain(s, d, n)
      BY <2>1, <2>3
    <3>. HIDE DEF s
    <3>2. /\ i \in Int
          /\ \/ /\ i \in 0..(n - 1) /\ data[i] # <<>> /\ ~Earlier(d, i, s)
                /\ \A e \in 0..(n - 1) :
                      data[e] # <<>> /\ ~Earlier(d, e, s) => ~Earlier(d, e, i)
             \/ /\ i \notin 0..(n - 1)
                /\ \A e \in 0..(n - 1) : ~Earlier(d, e, s) => data[e] = <<>>
      BY <1>1, <3>1, NextChainIs
    <3>. QED
      BY <3>2 DEF s
  <2>5. \A e \in 0..(n - 1) : e \in Int
    BY <1>1
  <2>. HIDE DEF n, c, p, q, l
  <2>6. CASE i \notin 0..(n - 1)
    <3>1. k = NoKey
      BY <1>1, <2>1, <2>6, AtIs
    <3>2. \A j \in Keys : Holds(data, n, j) => ~Comes(data, n, d, a, j)
      BY <1>3, <1>7, <2>2, <2>3, <2>4, <2>5, <2>6
    <3>. QED
      BY <2>4, <3>1, <3>2 DEF n
  <2>7. CASE i \in 0..(n - 1)
    <3>1. /\ k \in Keys /\ 1 \in 1..Len(data[i]) /\ data[i][1] = k
          /\ Holds(data, n, k) /\ Hash[k] % n = i
      BY <1>1, <2>1, <2>4, <2>7, AtIs
    <3>2. Comes(data, n, d, a, k)
      BY <2>2, <2>3, <2>4, <2>7, <3>1
    <3>3. ASSUME NEW j \in Keys, Holds(data, n, j), Comes(data, n, d, a, j)
          PROVE  j = k \/ Comes(data, n, d, k, j)
      <4>1. ~Earlier(d, Hash[j] % n, i)
        BY <1>3, <1>7, <2>2, <2>3, <2>4, <2>5, <2>7, <3>3
      <4>2. Hash[j] % n = i \/ Earlier(d, i, Hash[j] % n)
        BY <1>3, <2>4, <2>5, <4>1, EarlierIs
      <4>3. CASE Hash[j] % n = i
        BY <1>1, <3>1, <3>3, <4>3, FirstComes
      <4>4. CASE Earlier(d, i, Hash[j] % n)
        BY <3>1, <4>4 DEF Comes
      <4>. QED
        BY <4>2, <4>3, <4>4
    <3>. QED
      BY <1>1, <2>4, <3>1, <3>2, <3>3 DEF n
  <2>. QED
    BY <2>6, <2>7
<1>. QED
  BY <1>8, <1>9

\* One more that the walk comes to.
LEMMA SeenOnce ==
    ASSUME NEW s \in Seq(Keys), IsInjective(s), NEW k \in Keys, k \notin Range(s)
    PROVE  /\ Append(s, k) \in Seq(Keys) /\ IsInjective(Append(s, k))
           /\ Range(Append(s, k)) = Range(s) \cup {k}
<1> DEFINE l == Len(s)
           u == Append(s, k)
<1>1. /\ u \in Seq(Keys) /\ l \in Nat /\ Len(u) = l + 1
      /\ \A m \in 1..l : u[m] = s[m]
      /\ u[l + 1] = k
      /\ DOMAIN s = 1..l /\ DOMAIN u = 1..Len(u)
  BY AppendProperties, LenProperties
<1>. HIDE DEF l, u
<1>2. \A m \in 1..l : s[m] # k
  BY <1>1 DEF Range
<1>3. \A m \in 1..(l + 1) : m \in 1..l \/ m = l + 1
  BY <1>1
<1>4. 1..l \subseteq 1..(l + 1) /\ l + 1 \in 1..(l + 1)
  BY <1>1
<1>5. IsInjective(u)
  <2> SUFFICES ASSUME NEW m \in 1..(l + 1), NEW j \in 1..(l + 1), u[m] = u[j] PROVE m = j
    BY <1>1 DEF IsInjective
  <2>1. \A x, y \in 1..l : s[x] = s[y] => x = y
    BY <1>1 DEF IsInjective
  <2>. QED
    BY <1>1, <1>2, <1>3, <2>1
<1>6. Range(u) = Range(s) \cup {k}
  BY <1>1, <1>3, <1>4 DEF Range
<1>. QED
  BY <1>1, <1>5, <1>6 DEF u

LEMMA WalkInvInit == HtableInit => WalkInv
<1> SUFFICES ASSUME HtableInit PROVE WalkInv
  OBVIOUS
<1>1. walk = NoWalk /\ stay = {} /\ seen = <<>>
  BY DEF HtableInit
<1>2. WalkTyped
  BY <1>1 DEF WalkTyped, NoWalk
<1>. QED
  BY <1>1, <1>2 DEF WalkInv, IsInjective

\* A walk that is given up.
LEMMA GivenUp ==
    ASSUME walk' = NoWalk, seen' = <<>>, stay' \subseteq DOMAIN value'
    PROVE  WalkInv'
<1>1. WalkTyped'
  BY DEF WalkTyped, NoWalk
<1>2. walk'.dir = 0
  BY DEF NoWalk
<1>. QED
  BY <1>1, <1>2 DEF WalkInv, IsInjective

LEMMA EnterWalk ==
    ASSUME HtInv, WalkInv, NEW x \in Keys, NEW v, HtableEnter(x, v)
    PROVE  WalkInv'
<1>1. /\ HtInv'
      /\ stay' = {} \/ /\ stay' = stay /\ Size' = Size
                       /\ \/ data' = data
                          \/ data' = Link(data, x) /\ ~Holds(data, Size, x)
      /\ DOMAIN value \subseteq DOMAIN value'
      /\ walk' = walk /\ seen' = seen
  BY EnterStep
<1>2. WalkTyped'
  BY <1>1 DEF WalkInv, WalkTyped
<1>3. CASE stay' = {}
  BY <1>1, <1>2, <1>3 DEF WalkInv
<1>4. CASE stay' # {}
  <2>1. stay' = stay /\ Size' = Size
    BY <1>1, <1>4
  <2>2. walk'.dir # 0 => walk'.size = Size'
    BY <1>1, <1>4, <2>1 DEF WalkInv
  <2>3. walk'.dir # 0 /\ walk'.at = NoKey => stay' \subseteq Range(seen')
    BY <1>1, <1>4, <2>1 DEF WalkInv
  <2>4. ASSUME walk'.dir # 0, walk'.at # NoKey
        PROVE  /\ Holds(data', Size', walk'.at) /\ walk'.i = Hash[walk'.at] % Size'
               /\ Behind' /\ Coming'
    <3> DEFINE a == walk.at
               d == walk.dir
               n == Size
    <3>1. /\ Holds(data, n, a) /\ walk.i = Hash[a] % n /\ Behind /\ Coming
          /\ a \in Keys
      BY <1>1, <1>4, <2>1, <2>4 DEF WalkInv, WalkTyped
    <3>2. Table(data, n) /\ Sound(data, n)
      BY DEF HtInv
    <3>3. (\A s \in Range(seen) : s \in Keys) /\ stay \subseteq Keys
      BY DEF WalkInv, WalkTyped, HtInv, Range
    <3>4. /\ Holds(data', n, a)
          /\ \A k \in Keys : Comes(data', n, d, a, k) <=> Comes(data, n, d, a, k)
      <4>. HIDE DEF a, d, n
      <4>1. CASE data' = data
        BY <3>1, <4>1
      <4>2. CASE data' = Link(data, x) /\ ~Holds(data, n, x)
        <5>1. \A j \in Keys : Holds(Link(data, x), n, j) <=> Holds(data, n, j) \/ j = x
          BY <3>2, <4>2, LinkIs
        <5>2. \A k \in Keys : Comes(Link(data, x), n, d, a, k) <=> Comes(data, n, d, a, k)
          BY <3>1, <3>2, <4>2, LinkKeeps
        <5>. QED
          BY <3>1, <4>2, <5>1, <5>2
      <4>. QED
        BY <1>1, <1>4, <4>1, <4>2 DEF n
    <3>. QED
      BY <1>1, <2>1, <3>1, <3>3, <3>4 DEF Behind, Coming
  <2>. QED
    BY <1>1, <1>2, <2>2, <2>3, <2>4 DEF WalkInv
<1>. QED
  BY <1>3, <1>4

LEMMA DeleteWalk ==
    ASSUME HtInv, WalkInv, NEW x \in Keys, HtableDelete(x)
    PROVE  WalkInv'
<1>1. /\ HtInv' /\ Size' = Size /\ DOMAIN value' = DOMAIN value \ {x}
      /\ Lacks(data', data, Size, x, Hash[x] % Size, Spot(x))
  BY DeleteStep
<1>2. /\ Located(x) /\ stay' = stay \ {x}
      /\ walk' = IF walk.at = x THEN NoWalk ELSE walk
      /\ seen' = IF walk.at = x THEN <<>> ELSE seen
  BY DEF HtableDelete
<1>3. stay' \subseteq DOMAIN value'
  BY <1>1, <1>2 DEF WalkInv, WalkTyped
<1>4. CASE walk.at = x
  BY <1>2, <1>3, <1>4, GivenUp
<1>5. CASE walk.at # x
  <2>1. walk' = walk /\ seen' = seen
    BY <1>2, <1>5
  <2>2. WalkTyped'
    BY <1>3, <2>1 DEF WalkInv, WalkTyped
  <2>3. stay' # {} /\ walk'.dir # 0 => walk'.size = Size'
    BY <1>1, <1>2, <2>1 DEF WalkInv
  <2>4. stay' # {} /\ walk'.dir # 0 /\ walk'.at = NoKey => stay' \subseteq Range(seen')
    BY <1>2, <2>1 DEF WalkInv
  <2>5. ASSUME stay' # {}, walk'.dir # 0, walk'.at # NoKey
        PROVE  /\ Holds(data', Size', walk'.at) /\ walk'.i = Hash[walk'.at] % Size'
               /\ Behind' /\ Coming'
    <3> DEFINE a == walk.at
               d == walk.dir
               n == Size
               c == Hash[x] % n
               p == Spot(x)
               u == data'
    <3>1. /\ Holds(data, n, a) /\ walk.i = Hash[a] % n /\ Behind /\ Coming
          /\ a \in Keys /\ a # x
      BY <1>2, <1>5, <2>1, <2>5 DEF WalkInv, WalkTyped
    <3>2. Table(data, n) /\ Sound(data, n)
      BY DEF HtInv
    <3>3. (\A s \in Range(seen) : s \in Keys) /\ stay \subseteq Keys
      BY DEF WalkInv, WalkTyped, HtInv, Range
    <3>4. /\ c = Hash[x] % n /\ p \in 1..Len(data[c]) /\ data[c][p] = x
          /\ Lacks(u, data, n, x, c, p)
      BY <1>1, <1>2, SpotIs
    <3>5. \A j \in Keys : Holds(u, n, j) <=> Holds(data, n, j) /\ j # x
      BY <3>4, Zenon DEF Lacks
    <3>6. \A k \in Keys : /\ Comes(u, n, d, a, k) => Comes(data, n, d, a, k)
                          /\ Comes(data, n, d, a, k) /\ k # x => Comes(u, n, d, a, k)
      <4>. HIDE DEF a, d, n, c, p, u
      <4>. QED
        BY <3>1, <3>2, <3>4, LacksKeeps
    <3>7. Behind'
      BY <1>1, <2>1, <3>1, <3>3, <3>6 DEF Behind
    <3>8. Coming'
      BY <1>1, <1>2, <2>1, <3>1, <3>3, <3>6 DEF Coming
    <3>. QED
      BY <1>1, <2>1, <3>1, <3>5, <3>7, <3>8
  <2>. QED
    BY <2>1, <2>2, <2>3, <2>4, <2>5 DEF WalkInv
<1>. QED
  BY <1>4, <1>5

LEMMA BeginWalk ==
    ASSUME HtInv, WalkInv, NEW d \in {1, -1}, WalkBegin(d)
    PROVE  WalkInv'
<1> DEFINE n == Size
           b == IF d = 1 THEN 0 ELSE n - 1
           i == NextChain(b, d, n)
           k == At(i)
<1>1. /\ walk' = [dir |-> d, i |-> i, size |-> n, at |-> k]
      /\ seen' = IF k = NoKey THEN <<>> ELSE <<k>>
      /\ stay' = DOMAIN value
      /\ data' = data /\ value' = value
  BY DEF WalkBegin
<1>2. /\ Table(data, n) /\ Sound(data, n) /\ n \in Nat \ {0} /\ NoKey \notin Keys
      /\ DOMAIN value \subseteq Keys
      /\ \A j \in Keys : Holds(data, n, j) <=> j \in DOMAIN value
  BY HtableAssumption DEF HtInv, Table
<1>3. b \in Int /\ \A e \in 0..(n - 1) : e \in Int /\ ~Earlier(d, e, b)
  BY <1>2 DEF Earlier
<1>4. Size' = n
  BY <1>1 DEF Size
<1>5. i = NextChain(b, d, n) /\ k = At(i)
  OBVIOUS
<1>. HIDE DEF n, b, i, k
<1>6. /\ i \in Int
      /\ \/ /\ i \in 0..(n - 1) /\ data[i] # <<>> /\ ~Earlier(d, i, b)
            /\ \A l \in 0..(n - 1) : data[l] # <<>> /\ ~Earlier(d, l, b) => ~Earlier(d, l, i)
         \/ /\ i \notin 0..(n - 1)
            /\ \A l \in 0..(n - 1) : ~Earlier(d, l, b) => data[l] = <<>>
  BY <1>2, <1>3, <1>5, NextChainIs, ZenonT(40)
<1>7. \A j \in Keys : Holds(data, n, j) => Hash[j] % n \in 0..(n - 1) /\ data[Hash[j] % n] # <<>>
  <2> SUFFICES ASSUME NEW j \in Keys, NEW m \in 1..Len(data[Hash[j] % n]),
                      data[Hash[j] % n] = <<>>
               PROVE  FALSE
    BY <1>2, TableIs DEF Holds
  <2>. QED
    OBVIOUS
<1>8. CASE i \notin 0..(n - 1)
  <2>1. k = NoKey
    BY <1>2, <1>5, <1>8, AtIs
  <2>2. \A j \in Keys : ~Holds(data, n, j)
    BY <1>3, <1>6, <1>7, <1>8
  <2>3. stay' = {}
    BY <1>1, <1>2, <2>2
  <2>4. WalkTyped'
    BY <1>1, <1>2, <1>6, <2>1, <2>3 DEF WalkTyped
  <2>5. IsInjective(seen')
    BY <1>1, <2>1 DEF IsInjective
  <2>. QED
    BY <2>3, <2>4, <2>5 DEF WalkInv
<1>9. CASE i \in 0..(n - 1)
  <2>1. /\ k \in Keys /\ k # NoKey /\ 1 \in 1..Len(data[i]) /\ data[i][1] = k
        /\ Holds(data, n, k) /\ Hash[k] % n = i
    BY <1>2, <1>5, <1>6, <1>9, AtIs
  <2>2. seen' = <<k>> /\ Range(<<k>>) = {k}
    <3>1. DOMAIN <<k>> = {1} /\ <<k>>[1] = k
      OBVIOUS
    <3>. QED
      BY <1>1, <2>1, <3>1 DEF Range
  <2>3. WalkTyped'
    BY <1>1, <1>2, <1>6, <2>1, <2>2 DEF WalkTyped
  <2>4. IsInjective(seen')
    BY <2>2 DEF IsInjective
  <2>5. ~Comes(data, n, d, k, k)
    BY <1>2, <2>1, ComesIs
  <2>6. ASSUME NEW j \in Keys, Holds(data, n, j)
        PROVE  j = k \/ Comes(data, n, d, k, j)
    <3>1. Hash[j] % n \in 0..(n - 1) /\ ~Earlier(d, Hash[j] % n, i)
      BY <1>3, <1>6, <1>7, <1>9, <2>6
    <3>2. Hash[j] % n = i \/ Earlier(d, i, Hash[j] % n)
      BY <1>3, <1>6, <3>1, EarlierIs
    <3>3. CASE Hash[j] % n = i
      BY <1>2, <2>1, <2>6, <3>3, FirstComes
    <3>4. CASE Earlier(d, i, Hash[j] % n)
      BY <2>1, <3>4 DEF Comes
    <3>. QED
      BY <3>2, <3>3, <3>4
  <2>7. walk'.at = k /\ walk'.dir = d /\ walk'.i = i /\ walk'.size = n
    BY <1>1
  <2>8. Behind'
    BY <1>1, <1>4, <2>2, <2>5, <2>7 DEF Behind
  <2>9. Coming'
    BY <1>1, <1>2, <1>4, <2>2, <2>6, <2>7 DEF Coming
  <2>. QED
    BY <1>1, <1>4, <2>1, <2>3, <2>4, <2>7, <2>8, <2>9 DEF WalkInv
<1>. QED
  BY <1>8, <1>9

LEMMA StepWalk ==
    ASSUME HtInv, WalkInv, WalkStep
    PROVE  WalkInv'
<1> DEFINE n == Size
           a == walk.at
           d == walk.dir
           x == After(a)
           i == IF x # NoKey THEN walk.i ELSE NextChain(walk.i + d, d, walk.size)
           k == IF x # NoKey THEN x ELSE At(i)
<1>1. /\ a # NoKey /\ stay # {}
      /\ walk' = [walk EXCEPT !.i = i, !.at = k]
      /\ seen' = IF k = NoKey THEN seen ELSE Append(seen, k)
      /\ data' = data /\ value' = value /\ stay' = stay
  BY DEF WalkStep
<1>2. /\ a \in Keys /\ d \in {1, -1} /\ walk.size = n
      /\ Holds(data, n, a) /\ walk.i = Hash[a] % n /\ Behind /\ Coming
      /\ seen \in Seq(Keys) /\ IsInjective(seen) /\ stay \subseteq DOMAIN value
      /\ walk \in [dir : {-1, 0, 1}, i : Int, size : Nat, at : Keys \cup {NoKey}]
  BY <1>1 DEF WalkInv, WalkTyped
<1>3. /\ Table(data, n) /\ Sound(data, n) /\ NoKey \notin Keys
      /\ DOMAIN value \subseteq Keys
      /\ \A j \in Keys : Holds(data, n, j) <=> j \in DOMAIN value
  BY HtableAssumption DEF HtInv, Table
<1>4. Size' = n
  BY <1>1 DEF Size
<1>5. Located(a)
  BY <1>2, <1>3, TableIs DEF Located
<1>6. i = IF x # NoKey THEN Hash[a] % n ELSE NextChain((Hash[a] % n) + d, d, n)
  BY <1>2
<1>7. x = After(a) /\ k = IF x # NoKey THEN x ELSE At(i)
  OBVIOUS
<1>. HIDE DEF x, i, k, a, d
<1>8. /\ i \in Int /\ k \in Keys \cup {NoKey}
      /\ k = NoKey => \A j \in Keys : Holds(data, n, j) => ~Comes(data, n, d, a, j)
      /\ k # NoKey =>
            /\ Holds(data, n, k) /\ i = Hash[k] % n
            /\ Comes(data, n, d, a, k)
            /\ \A j \in Keys : Holds(data, n, j) /\ Comes(data, n, d, a, j)
                                  => j = k \/ Comes(data, n, d, k, j)
  BY <1>2, <1>5, <1>6, <1>7, NextIs
<1>9. /\ \A s \in Range(seen) : s \in Keys /\ ~Comes(data, n, d, a, s)
      /\ \A j \in stay : j \in Range(seen) \/ Comes(data, n, d, a, j)
  BY <1>2 DEF Behind, Coming, Range, a, d
<1>. HIDE DEF n
<1>10. /\ walk'.dir = d /\ walk'.i = i /\ walk'.at = k /\ walk'.size = n
       /\ walk' \in [dir : {-1, 0, 1}, i : Int, size : Nat, at : Keys \cup {NoKey}]
  BY <1>1, <1>2, <1>8 DEF d
<1>11. CASE k = NoKey
  <2>1. WalkTyped' /\ IsInjective(seen')
    BY <1>1, <1>2, <1>10, <1>11 DEF WalkTyped
  <2>2. stay' \subseteq Range(seen')
    BY <1>1, <1>2, <1>3, <1>8, <1>9, <1>11
  <2>. QED
    BY <1>4, <1>10, <1>11, <2>1, <2>2 DEF WalkInv
<1>12. CASE k # NoKey
  <2>1. k \in Keys /\ seen' = Append(seen, k) /\ k \notin Range(seen)
    BY <1>1, <1>8, <1>9, <1>12
  <2>2. seen' \in Seq(Keys) /\ IsInjective(seen') /\ Range(seen') = Range(seen) \cup {k}
    BY <1>2, <2>1, SeenOnce
  <2>3. WalkTyped'
    BY <1>1, <1>2, <1>10, <1>12, <2>2 DEF WalkTyped
  <2>4. \A s \in Range(seen) \cup {k} : ~Comes(data, n, d, k, s)
    <3> SUFFICES ASSUME NEW s \in Range(seen) \cup {k}, Comes(data, n, d, k, s)
                 PROVE  FALSE
      OBVIOUS
    <3>1. s # k
      BY <1>3, <2>1, ComesIs
    <3>2. s \in Keys /\ ~Comes(data, n, d, a, s)
      BY <1>9, <3>1
    <3>3. Comes(data, n, d, a, s)
      BY <1>2, <1>3, <1>8, <1>12, <2>1, <3>2, ComesIs
    <3>. QED
      BY <3>2, <3>3
  <2>5. Behind'
    BY <1>1, <1>4, <1>10, <2>2, <2>4 DEF Behind
  <2>6. Coming'
    BY <1>1, <1>2, <1>3, <1>4, <1>8, <1>9, <1>10, <1>12, <2>2 DEF Coming
  <2>. QED
    BY <1>1, <1>4, <1>8, <1>10, <1>12, <2>2, <2>3, <2>5, <2>6 DEF WalkInv
<1>. QED
  BY <1>11, <1>12

LEMMA WalkInvNext == HtInv /\ WalkInv /\ [HtableNext]_htableVars => WalkInv'
<1> SUFFICES ASSUME HtInv, WalkInv, [HtableNext]_htableVars PROVE WalkInv'
  OBVIOUS
<1>1. ASSUME NEW k \in Keys, NEW v \in Values, HtableEnter(k, v) PROVE WalkInv'
  BY <1>1, EnterWalk
<1>2. ASSUME NEW k \in Keys, HtableDelete(k) PROVE WalkInv'
  BY <1>2, DeleteWalk
<1>3. ASSUME HtableReset PROVE WalkInv'
  <2>1. walk' = NoWalk /\ seen' = <<>> /\ stay' \subseteq DOMAIN value'
    BY <1>3 DEF HtableReset
  <2>. QED
    BY <2>1, GivenUp
<1>4. ASSUME NEW d \in {1, -1}, WalkBegin(d) PROVE WalkInv'
  BY <1>4, BeginWalk
<1>5. ASSUME WalkStep PROVE WalkInv'
  BY <1>5, StepWalk
<1>6. CASE UNCHANGED htableVars
  BY <1>6 DEF htableVars, WalkInv, WalkTyped, Behind, Coming, Size
<1>. QED
  BY <1>1, <1>2, <1>3, <1>4, <1>5, <1>6 DEF HtableNext

\* A walk in either direction, with entries made and deleted meanwhile, comes to
\* every entry that was there all the time, and to none twice, unless the table
\* has grown or the entry it stood at was deleted.
THEOREM WalkIsWholeAlways == HtableSpec => []WalkIsWhole
<1>1. HtInv /\ WalkInv => WalkIsWhole
  BY DEF WalkInv, WalkIsWhole
<1>. QED
  BY <1>1, HtInvAlways, WalkInvInit, WalkInvNext, PTL DEF HtableSpec
=============================================================================
