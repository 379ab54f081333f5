------------------------------ MODULE CppProofs ------------------------------
(***************************************************************************)
(* Proofs about the parts of the C++ layer that stand by themselves.       *)
(*                                                                         *)
(* NioTimer: timers_ holds every running timer exactly once and under the  *)
(* key the timer remembers, it is ordered, and the 32-bit delay never      *)
(* makes the loop sleep past the earliest timer.                           *)
(*                                                                         *)
(* WriteBuffer, for writes of any length: the stream argument is sequence  *)
(* arithmetic, each step cuts a sequence in two and appends the parts      *)
(* where they belong.                                                      *)
(*                                                                         *)
(* MqttClient, for messages of any length and a stream cut anywhere: each  *)
(* handler of the parser, given bytes that begin with what it awaits, gets *)
(* on to an object that awaits what is left (Expect, Steps).               *)
(***************************************************************************)
EXTENDS NioTimer, WriteBuffer, MqttClient, WellFoundedInduction, SequenceTheorems, TLAPS

\* The entries of timers_.
Ent == [when : Nat, tm : Timers]

-----------------------------------------------------------------------------
(***************************************************************************)
(* The last and the first of a set of indexes.                             *)
(***************************************************************************)

\* A set of natural numbers has a least element.
LEMMA Least ==
    ASSUME NEW T \in SUBSET Nat, T # {}
    PROVE  \E n \in T : \A m \in T : n <= m
<1> DEFINE R == OpToRel(<, Nat)
<1>1. IsWellFoundedOn(R, Nat)
  BY NatLessThanWellFounded
<1>2. \A m, n \in Nat : m < n => <<m, n>> \in R
  BY DEF OpToRel
<1>. HIDE DEF R
<1>3. PICK n \in T : \A m \in T : ~ (<<m, n>> \in R)
  BY <1>1, WFMin
<1>4. \A m \in T : m \in Nat /\ n \in Nat /\ ~ (m < n)
  BY <1>2, <1>3
<1>5. \A m \in T : n <= m
  BY <1>4
<1>. QED
  BY <1>5

LEMMA FirstOfIs ==
    ASSUME NEW S \in SUBSET Nat, S # {}
    PROVE  FirstOf(S) \in S /\ \A j \in S : FirstOf(S) <= j
<1>1. \E i \in S : \A j \in S : i <= j
  BY Least
<1>. QED
  BY <1>1, Zenon DEF FirstOf

\* The greatest of some indexes is the one whose distance from the length is
\* least.
LEMMA LastOfIs ==
    ASSUME NEW n \in Nat, NEW S \in SUBSET (1..n)
    PROVE  /\ LastOf(S) \in 0..n
           /\ \A j \in S : j <= LastOf(S)
           /\ LastOf(S) = 0 \/ LastOf(S) \in S
<1>0. \A j \in S : j \in 1..n /\ j \in Nat /\ n - j \in Nat
  OBVIOUS
<1>1. CASE S = {}
  BY <1>1 DEF LastOf
<1>2. CASE S # {}
  <2> DEFINE T == {n - j : j \in S}
  <2>1. T \in SUBSET Nat /\ T # {}
    BY <1>0, <1>2
  <2>. HIDE DEF T
  <2>2. PICK m \in T : \A k \in T : m <= k
    BY <2>1, Least
  <2>3. PICK i \in S : m = n - i
    BY <2>2 DEF T
  <2>4. ASSUME NEW j \in S PROVE j <= i
    <3>1. n - j \in T
      BY DEF T
    <3>2. n - i <= n - j /\ i \in Int /\ j \in Int
      BY <1>0, <2>2, <2>3, <3>1
    <3>. QED
      BY <3>2
  <2>5. \E k \in S : \A j \in S : j <= k
    BY <2>4
  <2>6. LastOf(S) \in S /\ \A j \in S : j <= LastOf(S)
    BY <1>2, <2>5, Zenon DEF LastOf
  <2>7. LastOf(S) \in 1..n
    BY <1>0, <2>6
  <2>. QED
    BY <2>6, <2>7
<1>. QED
  BY <1>1, <1>2

-----------------------------------------------------------------------------
(***************************************************************************)
(* Integers.                                                               *)
(***************************************************************************)

LEMMA SmallMod == ASSUME NEW a \in Nat, NEW b \in Nat, a < b PROVE a % b = a
OBVIOUS

LEMMA ModRange == ASSUME NEW a \in Int, NEW b \in Nat \ {0} PROVE a % b \in 0..(b - 1)
OBVIOUS

LEMMA DivRange ==
    ASSUME NEW a \in Nat, NEW b \in Nat \ {0}
    PROVE  /\ a \div b \in Nat
           /\ (a \div b) * b <= a
           /\ b <= a => 1 <= a \div b
OBVIOUS

LEMMA Products ==
    ASSUME NEW a \in Nat, NEW b \in Nat, NEW c \in Nat, a <= b
    PROVE  a * c \in Nat /\ b * c \in Nat /\ a * c <= b * c
OBVIOUS

\* An int holds it: the conversion changes nothing.
LEMMA AsIntFits ==
    ASSUME NEW n \in Nat, n < IntHalf
    PROVE  AsInt(n) = n
<1>1. IntHalf \in Nat
  BY TimerAssumption
<1>2. (n + IntHalf) % (2 * IntHalf) = n + IntHalf
  BY <1>1, SmallMod
<1>. QED
  BY <1>1, <1>2 DEF AsInt

-----------------------------------------------------------------------------
(***************************************************************************)
(* timers_: what inserting and erasing do to the sequence.                 *)
(***************************************************************************)
HasEntry(q, t) == \E i \in DOMAIN q : q[i].tm = t

\* Every timer is held at most once.
Once(q) == \A i, j \in DOMAIN q : q[i].tm = q[j].tm => i = j

\* Every entry has the key its timer remembers.
Keyed(q, x) == \A i \in DOMAIN q : q[i].when = x[q[i].tm]

\* The order of the multimap.
Sorted(q) == \A i, j \in DOMAIN q : i <= j => q[i].when <= q[j].when

\* Two sequences in a row.
LEMMA Joined ==
    ASSUME NEW S, NEW a \in Seq(S), NEW c \in Seq(S), NEW r, r = a \o c
    PROVE  /\ r \in Seq(S) /\ Len(r) = Len(a) + Len(c)
           /\ \A j \in 1..Len(a) : r[j] = a[j]
           /\ \A j \in 1..Len(c) : r[Len(a) + j] = c[j]
<1>1. /\ Len(a) \in Nat /\ Len(c) \in Nat
      /\ r \in Seq(S) /\ Len(r) = Len(a) + Len(c)
      /\ \A j \in 1..(Len(a) + Len(c)) :
            r[j] = IF j <= Len(a) THEN a[j] ELSE c[j - Len(a)]
  BY ConcatProperties
<1>2. ASSUME NEW j \in 1..Len(c) PROVE r[Len(a) + j] = c[j]
  <2>1. /\ Len(a) + j \in 1..(Len(a) + Len(c)) /\ ~(Len(a) + j <= Len(a))
        /\ (Len(a) + j) - Len(a) = j
    BY <1>1
  <2>. QED
    BY <1>1, <2>1
<1>. QED
  BY <1>1, <1>2

\* An entry between the first n and the rest, and an entry taken out.
Spliced(q, n, e) == SubSeq(q, 1, n) \o <<e>> \o SubSeq(q, n + 1, Len(q))

Cut(q, i) == SubSeq(q, 1, i - 1) \o SubSeq(q, i + 1, Len(q))

LEMMA SplicedIs ==
    ASSUME NEW q \in Seq(Ent), NEW n \in 0..Len(q), NEW e \in Ent
    PROVE  /\ Spliced(q, n, e) \in Seq(Ent) /\ Len(Spliced(q, n, e)) = Len(q) + 1
           /\ \A j \in 1..n : Spliced(q, n, e)[j] = q[j]
           /\ Spliced(q, n, e)[n + 1] = e
           /\ \A j \in (n + 2)..(Len(q) + 1) : Spliced(q, n, e)[j] = q[j - 1]
<1> DEFINE r == Spliced(q, n, e)
<1> DEFINE a == SubSeq(q, 1, n)
           c == SubSeq(q, n + 1, Len(q))
<1>1. Len(q) \in Nat /\ n \in Nat /\ n <= Len(q)
  OBVIOUS
<1>2. a \in Seq(Ent) /\ Len(a) = n /\ \A j \in 1..n : a[j] = q[j]
  BY <1>1
<1>3. /\ c \in Seq(Ent) /\ Len(c) = Len(q) - n
      /\ \A j \in 1..(Len(q) - n) : c[j] = q[n + j]
  BY <1>1
<1>4. r = a \o <<e>> \o c
  BY DEF Spliced
<1>. HIDE DEF a, c, r
<1> DEFINE b == a \o <<e>>
<1>5. /\ b \in Seq(Ent) /\ Len(b) = n + 1
      /\ \A j \in 1..n : b[j] = q[j]
      /\ b[n + 1] = e
  BY <1>1, <1>2
<1>6. r = b \o c
  BY <1>4
<1>. HIDE DEF b
<1>7. /\ r \in Seq(Ent) /\ Len(r) = (n + 1) + (Len(q) - n)
      /\ \A j \in 1..(n + 1) : r[j] = b[j]
      /\ \A j \in 1..(Len(q) - n) : r[(n + 1) + j] = c[j]
  <2>1. b \in Seq(Ent) /\ c \in Seq(Ent) /\ r = b \o c
    BY <1>3, <1>5, <1>6
  <2>2. /\ r \in Seq(Ent) /\ Len(r) = Len(b) + Len(c)
        /\ \A j \in 1..Len(b) : r[j] = b[j]
        /\ \A j \in 1..Len(c) : r[Len(b) + j] = c[j]
    BY ONLY <2>1, Joined
  <2>. QED
    BY <1>3, <1>5, <1>6, <2>2
<1>8. Len(r) = Len(q) + 1
  BY <1>1, <1>7
<1>9. ASSUME NEW j \in (n + 2)..(Len(q) + 1) PROVE r[j] = q[j - 1]
  <2>1. /\ j - (n + 1) \in 1..(Len(q) - n)
        /\ (n + 1) + (j - (n + 1)) = j /\ n + (j - (n + 1)) = j - 1
    BY <1>1
  <2>2. r[(n + 1) + (j - (n + 1))] = c[j - (n + 1)]
    BY <1>7, <2>1
  <2>3. c[j - (n + 1)] = q[n + (j - (n + 1))]
    BY <1>3, <2>1
  <2>. QED
    BY <2>1, <2>2, <2>3
<1>10. \A j \in 1..n : r[j] = q[j]
  BY <1>1, <1>5, <1>7
<1>11. r[n + 1] = e
  BY <1>1, <1>5, <1>7
<1>. QED
  BY <1>7, <1>8, <1>9, <1>10, <1>11 DEF r

LEMMA CutIs ==
    ASSUME NEW q \in Seq(Ent), NEW i \in 1..Len(q), NEW r, r = Cut(q, i)
    PROVE  /\ r \in Seq(Ent) /\ Len(r) = Len(q) - 1
           /\ \A j \in 1..(i - 1) : r[j] = q[j]
           /\ \A j \in i..(Len(q) - 1) : r[j] = q[j + 1]
<1> DEFINE a == SubSeq(q, 1, i - 1)
           c == SubSeq(q, i + 1, Len(q))
<1>1. Len(q) \in Nat /\ i \in Nat /\ 1 <= i /\ i <= Len(q)
  OBVIOUS
<1>2. a \in Seq(Ent) /\ Len(a) = i - 1 /\ \A j \in 1..(i - 1) : a[j] = q[j]
  BY <1>1
<1>3. /\ c \in Seq(Ent) /\ Len(c) = Len(q) - i
      /\ \A j \in 1..(Len(q) - i) : c[j] = q[i + j]
  BY <1>1
<1>4. r = a \o c
  BY DEF Cut
<1>. HIDE DEF a, c
<1>5. /\ r \in Seq(Ent) /\ Len(r) = (i - 1) + (Len(q) - i)
      /\ \A j \in 1..(i - 1) : r[j] = a[j]
      /\ \A j \in 1..(Len(q) - i) : r[(i - 1) + j] = c[j]
  <2>1. a \in Seq(Ent) /\ c \in Seq(Ent) /\ r = a \o c
    BY <1>2, <1>3, <1>4
  <2>2. /\ r \in Seq(Ent) /\ Len(r) = Len(a) + Len(c)
        /\ \A j \in 1..Len(a) : r[j] = a[j]
        /\ \A j \in 1..Len(c) : r[Len(a) + j] = c[j]
    BY ONLY <2>1, Joined
  <2>. QED
    BY <1>2, <1>3, <1>4, <2>2
<1>6. Len(r) = Len(q) - 1
  BY <1>1, <1>5
<1>7. ASSUME NEW j \in i..(Len(q) - 1) PROVE r[j] = q[j + 1]
  <2>1. /\ j - (i - 1) \in 1..(Len(q) - i)
        /\ (i - 1) + (j - (i - 1)) = j /\ i + (j - (i - 1)) = j + 1
    BY <1>1
  <2>2. r[(i - 1) + (j - (i - 1))] = c[j - (i - 1)]
    BY <1>5, <2>1
  <2>3. c[j - (i - 1)] = q[i + (j - (i - 1))]
    BY <1>3, <2>1
  <2>. QED
    BY <2>1, <2>2, <2>3
<1>. QED
  BY <1>2, <1>5, <1>6, <1>7

\* multimap::insert, of a timer that is not held.
LEMMA InsertedGood ==
    ASSUME NEW q \in Seq(Ent), NEW e \in Ent, ~HasEntry(q, e.tm), Once(q), Sorted(q),
           NEW r, r = Inserted(q, e)
    PROVE  /\ r \in Seq(Ent) /\ Once(r) /\ Sorted(r)
           /\ \E k \in DOMAIN r : r[k] = e
           /\ \A k \in DOMAIN r : r[k] = e \/ \E i \in DOMAIN q : r[k] = q[i]
           /\ \A i \in DOMAIN q : \E k \in DOMAIN r : r[k] = q[i]
<1> DEFINE S == {i \in DOMAIN q : q[i].when <= e.when}
           n == LastOf(S)
<1>1. Len(q) \in Nat /\ DOMAIN q = 1..Len(q) /\ \A i \in 1..Len(q) : q[i] \in Ent
  OBVIOUS
<1>2. e.when \in Nat /\ \A i \in 1..Len(q) : q[i].when \in Nat
  BY <1>1 DEF Ent
<1>3. S \in SUBSET (1..Len(q))
  BY <1>1
<1>4. n \in 0..Len(q) /\ (\A j \in S : j <= n) /\ (n = 0 \/ n \in S)
  <2>. HIDE DEF S
  <2>. QED
    BY <1>1, <1>3, LastOfIs
<1>5. r = Spliced(q, n, e)
  BY DEF Inserted, Spliced
<1>. HIDE DEF n
<1>6. ASSUME NEW j \in 1..Len(q) PROVE IF j <= n THEN q[j].when <= e.when
                                                ELSE e.when < q[j].when
  <2>1. CASE j <= n
    <3>1. n \in 1..Len(q) /\ q[n].when <= e.when
      BY <1>1, <1>4, <2>1
    <3>2. q[j].when <= q[n].when
      BY <1>1, <2>1, <3>1 DEF Sorted
    <3>. QED
      BY <1>2, <2>1, <3>1, <3>2
  <2>2. CASE ~(j <= n)
    <3>1. j \notin S
      BY <1>4, <2>2
    <3>. QED
      BY <1>1, <1>2, <2>2, <3>1
  <2>. QED
    BY <2>1, <2>2
<1>. HIDE DEF S
<1>7. /\ r \in Seq(Ent) /\ Len(r) = Len(q) + 1
      /\ \A j \in 1..n : r[j] = q[j]
      /\ r[n + 1] = e
      /\ \A j \in (n + 2)..(Len(q) + 1) : r[j] = q[j - 1]
  <2>1. n \in 0..Len(q)
    BY <1>4
  <2>2. /\ Spliced(q, n, e) \in Seq(Ent) /\ Len(Spliced(q, n, e)) = Len(q) + 1
        /\ \A j \in 1..n : Spliced(q, n, e)[j] = q[j]
        /\ Spliced(q, n, e)[n + 1] = e
        /\ \A j \in (n + 2)..(Len(q) + 1) : Spliced(q, n, e)[j] = q[j - 1]
    BY <2>1, SplicedIs
  <2>. QED
    BY <1>5, <2>2
<1>8. DOMAIN r = 1..(Len(q) + 1) /\ n \in Nat /\ n <= Len(q) /\ n + 1 \in DOMAIN r
  BY <1>1, <1>4, <1>7
<1> DEFINE src(k) == IF k <= n THEN k ELSE k - 1
<1>9. ASSUME NEW k \in DOMAIN r, k # n + 1
      PROVE  src(k) \in 1..Len(q) /\ r[k] = q[src(k)]
  <2>1. CASE k <= n
    BY <1>1, <1>7, <1>8, <1>9, <2>1
  <2>2. CASE ~(k <= n)
    BY <1>1, <1>7, <1>8, <1>9, <2>2
  <2>. QED
    BY <2>1, <2>2
<1>10. ASSUME NEW i \in 1..Len(q) PROVE \E k \in DOMAIN r : r[k] = q[i]
  <2>1. CASE i <= n
    BY <1>7, <1>8, <1>1, <2>1
  <2>2. CASE ~(i <= n)
    <3>1. i + 1 \in (n + 2)..(Len(q) + 1) /\ (i + 1) - 1 = i /\ i + 1 \in DOMAIN r
      BY <1>8, <1>1, <2>2
    <3>2. r[i + 1] = q[i]
      BY <1>7, <3>1
    <3>. QED
      BY <3>1, <3>2
  <2>. QED
    BY <2>1, <2>2
<1>11. Once(r)
  <2> SUFFICES ASSUME NEW k \in DOMAIN r, NEW l \in DOMAIN r, r[k].tm = r[l].tm
               PROVE  k = l
    BY DEF Once
  <2>1. CASE k # n + 1 /\ l # n + 1
    <3>1. src(k) = src(l)
      BY <1>1, <1>9, <2>1 DEF Once
    <3>. QED
      BY <1>8, <2>1, <3>1
  <2>2. \A m \in DOMAIN r : m # n + 1 => r[m].tm # e.tm
    BY <1>1, <1>9 DEF HasEntry
  <2>. QED
    BY <1>7, <2>1, <2>2
<1>12. Sorted(r)
  <2> SUFFICES ASSUME NEW k \in DOMAIN r, NEW l \in DOMAIN r, k <= l
               PROVE  r[k].when <= r[l].when
    BY DEF Sorted
  <2>1. CASE k # n + 1 /\ l # n + 1
    <3>1. src(k) <= src(l)
      BY <1>8, <2>1
    <3>. QED
      BY <1>1, <1>9, <2>1, <3>1 DEF Sorted
  <2>2. CASE k = n + 1 /\ l # n + 1
    <3>1. src(l) \in 1..Len(q) /\ ~(src(l) <= n) /\ r[l] = q[src(l)]
      BY <1>8, <1>9, <2>2
    <3>. HIDE DEF src
    <3>2. e.when < q[src(l)].when /\ q[src(l)].when \in Nat
      BY <1>2, <1>6, <3>1
    <3>. QED
      BY <1>2, <1>7, <2>2, <3>1, <3>2
  <2>3. CASE l = n + 1 /\ k # n + 1
    <3>1. src(k) \in 1..Len(q) /\ src(k) <= n /\ r[k] = q[src(k)]
      BY <1>8, <1>9, <2>3
    <3>. HIDE DEF src
    <3>2. q[src(k)].when <= e.when
      BY <1>2, <1>6, <3>1
    <3>. QED
      BY <1>7, <2>3, <3>1, <3>2
  <2>4. CASE k = n + 1 /\ l = n + 1
    BY <1>2, <1>7, <2>4
  <2>. QED
    BY <2>1, <2>2, <2>3, <2>4
<1>13. \A k \in DOMAIN r : r[k] = e \/ \E i \in DOMAIN q : r[k] = q[i]
  BY <1>1, <1>7, <1>9
<1>. QED
  BY <1>1, <1>7, <1>8, <1>10, <1>11, <1>12, <1>13

\* Taking the timer's own entry out of timers_.
LEMMA ErasedGood ==
    ASSUME NEW q \in Seq(Ent), NEW t \in Timers, Once(q), Sorted(q),
           Keyed(q, expire), NEW r, r = Erased(q, t)
    PROVE  /\ r \in Seq(Ent) /\ Once(r) /\ Sorted(r) /\ ~HasEntry(r, t)
           /\ \A k \in DOMAIN r : \E i \in DOMAIN q : r[k] = q[i]
           /\ \A i \in DOMAIN q : q[i].tm # t => \E k \in DOMAIN r : r[k] = q[i]
<1>1. Len(q) \in Nat /\ DOMAIN q = 1..Len(q) /\ \A i \in 1..Len(q) : q[i] \in Ent
  OBVIOUS
<1>2. Entries(q, t) = {i \in DOMAIN q : q[i].tm = t}
  BY DEF Entries, Keyed
<1>3. CASE Entries(q, t) = {}
  BY <1>2, <1>3 DEF Erased, HasEntry
<1>4. CASE Entries(q, t) # {}
  <2> DEFINE i == FirstOf(Entries(q, t))
  <2>1. i \in Entries(q, t)
    <3>1. Entries(q, t) \in SUBSET Nat
      BY <1>1, <1>2
    <3>. QED
      BY <1>4, <3>1, FirstOfIs
  <2>2. r = Cut(q, i)
    BY <1>4 DEF Erased, Cut
  <2>. HIDE DEF i
  <2>3. i \in 1..Len(q) /\ q[i].tm = t
    BY <1>1, <1>2, <2>1
  <2>4. /\ r \in Seq(Ent) /\ Len(r) = Len(q) - 1
        /\ \A j \in 1..(i - 1) : r[j] = q[j]
        /\ \A j \in i..(Len(q) - 1) : r[j] = q[j + 1]
    BY <2>2, <2>3, CutIs
  <2>5. DOMAIN r = 1..(Len(q) - 1) /\ i \in Nat /\ 1 <= i /\ i <= Len(q)
    BY <1>1, <2>3, <2>4
  <2> DEFINE src(k) == IF k < i THEN k ELSE k + 1
  <2>6. ASSUME NEW k \in DOMAIN r
        PROVE  src(k) \in 1..Len(q) /\ r[k] = q[src(k)] /\ src(k) # i
    <3>1. CASE k < i
      BY <1>1, <2>4, <2>5, <3>1
    <3>2. CASE ~(k < i)
      BY <1>1, <2>4, <2>5, <3>2
    <3>. QED
      BY <3>1, <3>2
  <2>7. \A k, l \in DOMAIN r : /\ src(k) = src(l) => k = l
                               /\ k <= l => src(k) <= src(l)
    BY <2>5
  <2>8. ASSUME NEW j \in 1..Len(q), j # i PROVE \E k \in DOMAIN r : r[k] = q[j]
    <3>1. CASE j < i
      BY <1>1, <2>4, <2>5, <3>1
    <3>2. CASE ~(j < i)
      <4>1. j - 1 \in i..(Len(q) - 1) /\ (j - 1) + 1 = j /\ j - 1 \in DOMAIN r
        BY <1>1, <2>5, <2>8, <3>2
      <4>2. r[j - 1] = q[j]
        BY <2>4, <4>1
      <4>. QED
        BY <4>1, <4>2
    <3>. QED
      BY <3>1, <3>2
  <2>. HIDE DEF src
  <2>9. Once(r)
    BY <1>1, <2>6, <2>7 DEF Once
  <2>10. Sorted(r)
    BY <1>1, <2>6, <2>7 DEF Sorted
  <2>11. ~HasEntry(r, t)
    BY <1>1, <2>3, <2>6 DEF Once, HasEntry
  <2>. QED
    BY <1>1, <2>3, <2>4, <2>6, <2>8, <2>9, <2>10, <2>11
<1>. QED
  BY <1>3, <1>4

-----------------------------------------------------------------------------
(***************************************************************************)
(* The inductive invariant.                                                *)
(***************************************************************************)
InBatch(t) == \E i \in DOMAIN batch : batch[i] = t

\* What a timer's owner may rely on.
Held ==
    /\ \A t \in Timers : HasEntry(timers, t) => t \in running
    /\ \A t \in running : HasEntry(timers, t) \/ InBatch(t)

TimerInv ==
    /\ TimerTypeOK
    /\ Once(timers) /\ Keyed(timers, expire) /\ Sorted(timers)
    /\ Held
    /\ stage \in {"app", "before_wait", "callbacks"} => batch = <<>>

LEMMA WhenIsNat ==
    ASSUME TimerTypeOK, NEW ms \in Nat
    PROVE  When(ms) \in Nat
<1>1. stamp + ms \in Nat /\ MsNs \in Nat /\ counter \in Nat
  BY TimerAssumption DEF TimerTypeOK
<1>2. (stamp + ms) * MsNs \in Nat
  BY <1>1, Products
<1>. QED
  BY <1>1, <1>2 DEF When

\* add_timer on what is left of timers_ after the timer's own entry, if there
\* was one, is gone.
LEMMA SetKeeps ==
    ASSUME TimerInv, NEW t \in Timers, NEW ms \in Nat, NEW q \in Seq(Ent),
           Once(q), Sorted(q), Keyed(q, expire), ~HasEntry(q, t),
           \A u \in Timers \ {t} : HasEntry(q, u) <=> HasEntry(timers, u),
           Set(q, t, ms)
    PROVE  TimerInv'
<1> DEFINE e == [when |-> When(ms), tm |-> t]
<1>1. e \in Ent /\ e.tm = t /\ e.when = When(ms)
  BY WhenIsNat DEF TimerInv, Ent
<1>2. /\ expire' = [expire EXCEPT ![t] = When(ms)]
      /\ timers' = Inserted(q, e)
      /\ counter' = (counter + 1) % MsNs
      /\ running' = running \cup {t}
      /\ UNCHANGED <<stamp, timeout, batch, stage>>
  BY DEF Set
<1>. HIDE DEF e
<1>3. /\ timers' \in Seq(Ent) /\ Once(timers') /\ Sorted(timers')
      /\ \E k \in DOMAIN timers' : timers'[k] = e
      /\ \A k \in DOMAIN timers' :
            timers'[k] = e \/ \E i \in DOMAIN q : timers'[k] = q[i]
      /\ \A i \in DOMAIN q : \E k \in DOMAIN timers' : timers'[k] = q[i]
  BY <1>1, <1>2, InsertedGood
<1>4. expire \in [Timers -> Nat] /\ running \in SUBSET Timers
  BY DEF TimerInv, TimerTypeOK
<1>5. ASSUME NEW i \in DOMAIN q PROVE q[i].tm \in Timers /\ q[i].tm # t
  <2>1. q[i] \in Ent
    OBVIOUS
  <2>. QED
    BY <2>1 DEF Ent, HasEntry
<1>6. Keyed(timers', expire')
  <2> SUFFICES ASSUME NEW k \in DOMAIN timers'
               PROVE  timers'[k].when = expire'[timers'[k].tm]
    BY DEF Keyed
  <2>1. CASE timers'[k] = e
    BY <1>1, <1>2, <1>4, <2>1
  <2>2. ASSUME NEW i \in DOMAIN q, timers'[k] = q[i]
        PROVE  timers'[k].when = expire'[timers'[k].tm]
    BY <1>2, <1>4, <1>5, <2>2 DEF Keyed
  <2>. QED
    BY <1>3, <2>1, <2>2
<1>7. HasEntry(timers', t) /\ \A u \in Timers \ {t} : HasEntry(timers', u) <=> HasEntry(q, u)
  <2>1. HasEntry(timers', t)
    BY <1>1, <1>3 DEF HasEntry
  <2>2. ASSUME NEW u \in Timers \ {t}, HasEntry(q, u) PROVE HasEntry(timers', u)
    BY <1>3, <2>2 DEF HasEntry
  <2>3. ASSUME NEW u \in Timers \ {t}, HasEntry(timers', u) PROVE HasEntry(q, u)
    BY <1>1, <1>3, <2>3 DEF HasEntry
  <2>. QED
    BY <2>1, <2>2, <2>3
<1>8. Held'
  <2>1. \A u : InBatch(u)' <=> InBatch(u)
    BY <1>2 DEF InBatch
  <2>. QED
    BY <1>2, <1>4, <1>7, <2>1 DEF TimerInv, Held
<1>9. TimerTypeOK'
  <2>1. counter + 1 \in Int /\ MsNs \in Nat \ {0}
    BY TimerAssumption DEF TimerInv, TimerTypeOK
  <2>2. counter' \in 0..(MsNs - 1)
    BY <1>2, <2>1, ModRange
  <2>3. expire' \in [Timers -> Nat]
    BY <1>1, <1>2, <1>4, WhenIsNat DEF TimerInv
  <2>. QED
    BY <1>2, <1>3, <1>4, <2>2, <2>3 DEF TimerInv, TimerTypeOK, Ent
<1>. QED
  BY <1>2, <1>3, <1>6, <1>8, <1>9 DEF TimerInv

LEMMA ApplicationKeeps ==
    ASSUME TimerInv, TimerApplication
    PROVE  TimerInv'
<1>1. timers \in Seq(Ent) /\ Once(timers) /\ Sorted(timers) /\ Keyed(timers, expire)
  BY DEF TimerInv, TimerTypeOK, Ent
<1>2. Delays \subseteq Nat
  BY TimerAssumption
<1>3. ASSUME NEW t \in Timers, NEW r, r = Erased(timers, t)
      PROVE  /\ r \in Seq(Ent) /\ Once(r) /\ Sorted(r) /\ ~HasEntry(r, t)
             /\ Keyed(r, expire)
             /\ \A u \in Timers \ {t} : HasEntry(r, u) <=> HasEntry(timers, u)
  <2>1. /\ r \in Seq(Ent) /\ Once(r) /\ Sorted(r) /\ ~HasEntry(r, t)
        /\ \A k \in DOMAIN r : \E i \in DOMAIN timers : r[k] = timers[i]
        /\ \A i \in DOMAIN timers :
              timers[i].tm # t => \E k \in DOMAIN r : r[k] = timers[i]
    BY <1>1, <1>3, ErasedGood
  <2>2. Keyed(r, expire)
    BY <1>1, <2>1 DEF Keyed
  <2>3. \A u \in Timers \ {t} : HasEntry(r, u) <=> HasEntry(timers, u)
    BY <2>1 DEF HasEntry
  <2>. QED
    BY <2>1, <2>2, <2>3
<1>4. ASSUME NEW t \in Timers, DelTimer(t) PROVE TimerInv'
  <2>1. /\ timers' = Erased(timers, t) /\ running' = running \ {t}
        /\ UNCHANGED <<stamp, counter, expire, timeout, batch, stage>>
    BY <1>4 DEF DelTimer
  <2>2. /\ timers' \in Seq(Ent) /\ Once(timers') /\ Sorted(timers') /\ ~HasEntry(timers', t)
        /\ Keyed(timers', expire)
        /\ \A u \in Timers \ {t} : HasEntry(timers', u) <=> HasEntry(timers, u)
    BY <1>3, <2>1
  <2>3. Held'
    <3>1. \A u : InBatch(u)' <=> InBatch(u)
      BY <2>1 DEF InBatch
    <3>2. running \in SUBSET Timers
      BY DEF TimerInv, TimerTypeOK
    <3>. QED
      BY <2>1, <2>2, <3>1, <3>2 DEF TimerInv, Held
  <2>4. TimerTypeOK'
    BY <2>1, <2>2 DEF TimerInv, TimerTypeOK, Ent
  <2>. QED
    BY <2>1, <2>2, <2>3, <2>4 DEF TimerInv
<1>5. ASSUME NEW t \in Timers, NEW ms \in Delays, AddTimer(t, ms) PROVE TimerInv'
  <2>1. ~HasEntry(timers, t)
    BY <1>5 DEF AddTimer, TimerInv, Held
  <2>. QED
    BY <1>1, <1>2, <1>5, <2>1, SetKeeps DEF AddTimer
<1>6. ASSUME NEW t \in Timers, NEW ms \in Delays, ResetTimer(t, ms) PROVE TimerInv'
  <2> DEFINE r == Erased(timers, t)
  <2>1. /\ r \in Seq(Ent) /\ Once(r) /\ Sorted(r) /\ ~HasEntry(r, t)
        /\ Keyed(r, expire)
        /\ \A u \in Timers \ {t} : HasEntry(r, u) <=> HasEntry(timers, u)
    BY <1>3
  <2>2. Set(r, t, ms) /\ ms \in Nat
    BY <1>2, <1>6 DEF ResetTimer
  <2>. HIDE DEF r
  <2>. QED
    BY <2>1, <2>2, SetKeeps
<1>. QED
  BY <1>4, <1>5, <1>6 DEF TimerApplication

-----------------------------------------------------------------------------
(***************************************************************************)
(* nio_event::wait.                                                        *)
(***************************************************************************)

\* The difference the loop computes, and what it makes of it, is an integer.
LEMMA ShortenedIsInt ==
    ASSUME TimerTypeOK, NEW ms \in Int, NEW f \in Ent
    PROVE  Shortened(ms, f) \in Int
<1>1. MsNs \in Nat \ {0} /\ IntHalf \in Nat /\ 1 <= IntHalf
  <2>1. /\ MsNs \in Nat \ {0} /\ IntHalf \in Nat /\ WaitCap \in Nat
        /\ (WaitCap + 1) * MsNs <= IntHalf
    BY TimerAssumption
  <2>2. 1 * MsNs <= (WaitCap + 1) * MsNs /\ 1 * MsNs = MsNs
        /\ (WaitCap + 1) * MsNs \in Nat
    BY <2>1, Products
  <2>. QED
    BY <2>1, <2>2
<1>2. stamp * MsNs \in Nat /\ f.when \in Nat
  BY <1>1, Products DEF TimerTypeOK, Ent
<1> DEFINE n == f.when - stamp * MsNs
<1>3. n \in Int
  BY <1>2
<1>. HIDE DEF n
<1>4. AsInt(n) \in Int
  <2>1. (n + IntHalf) % (2 * IntHalf) \in 0..(2 * IntHalf - 1)
    BY <1>1, <1>3, ModRange
  <2>. QED
    BY <1>1, <2>1 DEF AsInt
<1>5. Quotient(AsInt(n), MsNs) \in Int
  <2>1. AsInt(n) >= 0 => AsInt(n) \div MsNs \in Int
    BY <1>1, <1>4, DivRange
  <2>2. ~(AsInt(n) >= 0) => (-AsInt(n)) \div MsNs \in Int
    BY <1>1, <1>4, DivRange
  <2>. QED
    BY <2>1, <2>2 DEF Quotient
<1>. QED
  BY <1>5 DEF Shortened, n

LEMMA ClampedRange ==
    ASSUME NEW ms \in Int
    PROVE  Clamped(ms) \in 0..WaitCap
BY TimerAssumption DEF Clamped

LEMMA WaitBeginKeeps ==
    ASSUME TimerInv, NEW ms \in Waits, WaitBegin(ms)
    PROVE  TimerInv'
<1>1. ms \in Int
  BY TimerAssumption
<1>2. timers \in Seq(Ent)
  BY DEF TimerInv, TimerTypeOK, Ent
<1>3. timers # <<>> => timers[1] \in Ent
  BY <1>2
<1>4. timeout' \in 0..WaitCap
  <2>1. (IF timers = <<>> THEN ms ELSE Shortened(ms, timers[1])) \in Int
    BY <1>1, <1>3, ShortenedIsInt DEF TimerInv
  <2>. QED
    BY <2>1, ClampedRange DEF WaitBegin, Timeout
<1>5. /\ stage = "app" /\ stage' = "before_wait"
      /\ UNCHANGED <<stamp, counter, timers, expire, batch, running>>
  BY DEF WaitBegin
<1>6. Held'
  BY <1>5 DEF TimerInv, Held, HasEntry, InBatch
<1>7. TimerTypeOK'
  BY <1>4, <1>5 DEF TimerInv, TimerTypeOK, Stages
<1>. QED
  BY <1>5, <1>6, <1>7 DEF TimerInv

LEMMA BackendReturnsKeeps ==
    ASSUME TimerInv, BackendReturns
    PROVE  TimerInv'
<1>1. /\ stage = "before_wait" /\ stage' = "callbacks"
      /\ UNCHANGED <<counter, timers, expire, timeout, batch, running>>
  BY DEF BackendReturns
<1>2. stamp' \in Nat
  <2>1. PICK d \in 0..(timeout + Busy) : stamp' = stamp + d
    BY DEF BackendReturns
  <2>2. timeout + Busy \in Nat /\ stamp \in Nat
    BY TimerAssumption DEF TimerInv, TimerTypeOK
  <2>. QED
    BY <2>1, <2>2
<1>3. Held'
  BY <1>1 DEF TimerInv, Held, HasEntry, InBatch
<1>4. TimerTypeOK'
  BY <1>1, <1>2 DEF TimerInv, TimerTypeOK, Stages
<1>. QED
  BY <1>1, <1>3, <1>4 DEF TimerInv

LEMMA RestIs ==
    ASSUME NEW q \in Seq(Ent), NEW n \in 0..Len(q)
    PROVE  /\ SubSeq(q, n + 1, Len(q)) \in Seq(Ent)
           /\ Len(SubSeq(q, n + 1, Len(q))) = Len(q) - n
           /\ DOMAIN SubSeq(q, n + 1, Len(q)) = 1..(Len(q) - n)
           /\ \A j \in 1..(Len(q) - n) : SubSeq(q, n + 1, Len(q))[j] = q[n + j]
<1>1. Len(q) \in Nat /\ n \in Nat /\ n <= Len(q)
  OBVIOUS
<1>. QED
  BY <1>1

\* The front of timers_ goes into the batch, the rest stays.
LEMMA TriggerTimersKeeps ==
    ASSUME TimerInv, TriggerTimers
    PROVE  TimerInv'
<1>1. /\ stage = "callbacks" /\ stage' = "trigger"
      /\ batch' = [i \in 1..Due |-> timers[i].tm]
      /\ timers' = SubSeq(timers, Due + 1, Len(timers))
      /\ UNCHANGED <<stamp, counter, expire, timeout, running>>
  BY DEF TriggerTimers
<1>2. /\ timers \in Seq(Ent) /\ Len(timers) \in Nat /\ DOMAIN timers = 1..Len(timers)
      /\ \A i \in 1..Len(timers) : timers[i] \in Ent
  <2>1. timers \in Seq(Ent)
    BY DEF TimerInv, TimerTypeOK, Ent
  <2>. QED
    BY <2>1
<1>3. Due \in 0..Len(timers)
  <2> DEFINE S == {i \in DOMAIN timers : \A j \in 1..i : timers[j].when <= stamp * MsNs}
  <2>1. S \in SUBSET (1..Len(timers)) /\ Due = LastOf(S)
    BY <1>2 DEF Due
  <2>. HIDE DEF S
  <2>. QED
    BY <1>2, <2>1, LastOfIs
<1> DEFINE n == Due
<1>4. /\ n \in 0..Len(timers)
      /\ batch' = [i \in 1..n |-> timers[i].tm]
      /\ timers' = SubSeq(timers, n + 1, Len(timers))
  BY <1>1, <1>3
<1>. HIDE DEF n
<1>5. /\ timers' \in Seq(Ent) /\ Len(timers') = Len(timers) - n
      /\ DOMAIN timers' = 1..(Len(timers) - n)
      /\ \A j \in 1..(Len(timers) - n) : timers'[j] = timers[n + j]
  BY <1>2, <1>4, RestIs
<1>6. /\ batch' \in Seq(Timers) /\ DOMAIN batch' = 1..n
      /\ \A i \in 1..n : batch'[i] = timers[i].tm
  <2>1. \A i \in 1..n : timers[i].tm \in Timers
    BY <1>2, <1>4 DEF Ent
  <2>. QED
    BY <1>4, <2>1
<1>7. \A j \in DOMAIN timers' : n + j \in 1..Len(timers)
  <2>1. n \in Nat /\ Len(timers) \in Nat
    BY <1>2, <1>4
  <2>2. \A j \in 1..(Len(timers) - n) : n + j \in 1..Len(timers)
    BY <2>1
  <2>. QED
    BY <1>5, <2>2
<1>8. \A j, k \in DOMAIN timers' : /\ n + j = n + k => j = k
                                   /\ j <= k => n + j <= n + k
  BY <1>4, <1>5
<1>9. Once(timers')
  BY <1>2, <1>5, <1>7, <1>8 DEF TimerInv, Once
<1>10. Sorted(timers')
  BY <1>2, <1>5, <1>7, <1>8 DEF TimerInv, Sorted
<1>11. Keyed(timers', expire')
  BY <1>1, <1>2, <1>5, <1>7 DEF TimerInv, Keyed
<1>12. Held'
  <2>1. ASSUME NEW t \in Timers, HasEntry(timers', t) PROVE t \in running'
    <3>1. HasEntry(timers, t)
      BY <1>2, <1>5, <1>7, <2>1 DEF HasEntry
    <3>. QED
      BY <1>1, <3>1 DEF TimerInv, Held
  <2>2. ASSUME NEW t \in running' PROVE HasEntry(timers', t) \/ InBatch(t)'
    <3>1. batch = <<>> /\ t \in running
      BY <1>1 DEF TimerInv
    <3>2. ~InBatch(t)
      BY <3>1 DEF InBatch
    <3>3. PICK i \in 1..Len(timers) : timers[i].tm = t
      BY <1>2, <3>1, <3>2 DEF TimerInv, Held, HasEntry
    <3>4. CASE i <= n
      <4>1. i \in 1..n
        BY <1>4, <3>4
      <4>. QED
        BY <1>6, <3>3, <4>1 DEF InBatch
    <3>5. CASE ~(i <= n)
      <4>1. i - n \in 1..(Len(timers) - n) /\ n + (i - n) = i
        BY <1>2, <1>4, <3>5
      <4>2. timers'[i - n] = timers[i]
        BY <1>5, <4>1
      <4>. QED
        BY <1>5, <3>3, <4>1, <4>2 DEF HasEntry
    <3>. QED
      BY <3>4, <3>5
  <2>. QED
    BY <2>1, <2>2 DEF Held
<1>13. TimerTypeOK'
  BY <1>1, <1>5, <1>6 DEF TimerInv, TimerTypeOK, Stages, Ent
<1>. QED
  BY <1>1, <1>9, <1>10, <1>11, <1>12, <1>13 DEF TimerInv

LEMMA OnTimerKeeps ==
    ASSUME TimerInv, OnTimer
    PROVE  TimerInv'
<1>1. /\ batch # <<>> /\ stage' = "on_timer" /\ batch' = Tail(batch)
      /\ running' = running \ {t \in {Head(batch)} : ~InTimers(t)}
      /\ UNCHANGED <<stamp, counter, timers, expire, timeout>>
  BY DEF OnTimer
<1>2. batch \in Seq(Timers) /\ running \in SUBSET Timers
  BY DEF TimerInv, TimerTypeOK
<1>3. /\ batch' \in Seq(Timers) /\ Len(batch) \in Nat /\ Head(batch) = batch[1]
      /\ DOMAIN batch = 1..Len(batch) /\ DOMAIN batch' = 1..(Len(batch) - 1)
      /\ \A i \in 1..(Len(batch) - 1) : batch'[i] = batch[i + 1]
  BY <1>1, <1>2
<1>4. \A t : InTimers(t) <=> HasEntry(timers, t)
  BY DEF InTimers, HasEntry
<1>5. Held'
  <2>1. ASSUME NEW t \in Timers, HasEntry(timers', t) PROVE t \in running'
    BY <1>1, <1>4, <2>1 DEF TimerInv, Held
  <2>2. ASSUME NEW t \in running' PROVE HasEntry(timers', t) \/ InBatch(t)'
    <3>1. t \in running /\ (t = Head(batch) => HasEntry(timers, t))
      BY <1>1, <1>4
    <3>2. CASE HasEntry(timers, t)
      BY <1>1, <3>2
    <3>3. CASE ~HasEntry(timers, t)
      <4>1. PICK i \in DOMAIN batch : batch[i] = t
        BY <3>1, <3>3 DEF TimerInv, Held, InBatch
      <4>2. i # 1
        BY <1>3, <3>1, <3>3, <4>1
      <4>3. i - 1 \in 1..(Len(batch) - 1) /\ (i - 1) + 1 = i
        BY <1>3, <4>2
      <4>4. batch'[i - 1] = t
        BY <1>3, <4>1, <4>3
      <4>. QED
        BY <1>3, <4>3, <4>4 DEF InBatch
    <3>. QED
      BY <3>2, <3>3
  <2>. QED
    BY <2>1, <2>2 DEF Held
<1>6. TimerTypeOK'
  BY <1>1, <1>3 DEF TimerInv, TimerTypeOK, Stages
<1>. QED
  BY <1>1, <1>5, <1>6 DEF TimerInv

LEMMA WaitReturnsKeeps ==
    ASSUME TimerInv, WaitReturns
    PROVE  TimerInv'
<1>1. /\ batch = <<>> /\ stage' = "app"
      /\ UNCHANGED <<stamp, counter, timers, expire, timeout, batch, running>>
  BY DEF WaitReturns
<1>2. Held'
  BY <1>1 DEF TimerInv, Held, HasEntry, InBatch
<1>3. TimerTypeOK'
  BY <1>1 DEF TimerInv, TimerTypeOK, Stages
<1>. QED
  BY <1>1, <1>2, <1>3 DEF TimerInv

-----------------------------------------------------------------------------
(***************************************************************************)
(* The theorems.                                                           *)
(***************************************************************************)
LEMMA TimerStart ==
    ASSUME TimerInit
    PROVE  TimerInv
<1>1. timers = <<>> /\ batch = <<>> /\ running = {} /\ stage = "app"
  BY DEF TimerInit
<1>2. Once(timers) /\ Keyed(timers, expire) /\ Sorted(timers) /\ Held
  BY <1>1 DEF Once, Keyed, Sorted, Held, HasEntry
<1>3. TimerTypeOK
  BY TimerAssumption DEF TimerInit, TimerTypeOK, Stages
<1>. QED
  BY <1>1, <1>2, <1>3 DEF TimerInv

LEMMA TimerStep ==
    ASSUME TimerInv, [TimerNext]_timerVars
    PROVE  TimerInv'
<1>1. CASE TimerApplication
  BY <1>1, ApplicationKeeps
<1>2. ASSUME NEW ms \in Waits, WaitBegin(ms) PROVE TimerInv'
  BY <1>2, WaitBeginKeeps
<1>3. CASE BackendReturns
  BY <1>3, BackendReturnsKeeps
<1>4. CASE TriggerTimers
  BY <1>4, TriggerTimersKeeps
<1>5. CASE OnTimer
  BY <1>5, OnTimerKeeps
<1>6. CASE WaitReturns
  BY <1>6, WaitReturnsKeeps
<1>7. CASE UNCHANGED timerVars
  <2>1. Held'
    BY <1>7 DEF TimerInv, Held, HasEntry, InBatch, timerVars
  <2>2. TimerTypeOK'
    BY <1>7 DEF TimerInv, TimerTypeOK, timerVars
  <2>. QED
    BY <1>7, <2>1, <2>2 DEF TimerInv, timerVars
<1>. QED
  BY <1>1, <1>2, <1>3, <1>4, <1>5, <1>6, <1>7 DEF TimerNext, TimerLoop

\* timers_ is ordered, holds a timer once, under the key the timer remembers,
\* and every running timer is in it or in the batch at hand.
THEOREM TimerInvariant == TimerSpec => []TimerInv
<1>1. TimerInit => TimerInv
  BY TimerStart
<1>2. TimerInv /\ [TimerNext]_timerVars => TimerInv'
  BY TimerStep
<1>. QED
  BY <1>1, <1>2, PTL DEF TimerSpec

\* add_timer, del_timer and reset_timer, from wherever the application calls
\* them, and trigger_timers keep timers_ and the running timers together: no
\* entry outlives its timer, and no running timer is lost.
THEOREM RunningIsHeldAlways == TimerSpec => []RunningIsHeld
<1>1. TimerInv => RunningIsHeld
  <2> SUFFICES ASSUME TimerInv PROVE RunningIsHeld
    OBVIOUS
  <2>1. ASSUME NEW t \in Timers
        PROVE  LET held == {i \in DOMAIN timers : timers[i].tm = t}
               IN  /\ held = Entries(timers, t)
                   /\ \A i, j \in held : i = j
                   /\ held # {} => t \in running
                   /\ t \in running => held # {} \/ \E i \in DOMAIN batch : batch[i] = t
    <3> DEFINE held == {i \in DOMAIN timers : timers[i].tm = t}
    <3>1. held = Entries(timers, t)
      BY DEF TimerInv, Keyed, Entries
    <3>2. \A i, j \in held : i = j
      BY DEF TimerInv, Once
    <3>3. held # {} <=> HasEntry(timers, t)
      BY DEF HasEntry
    <3>4. HasEntry(timers, t) => t \in running
      BY DEF TimerInv, Held
    <3>5. t \in running => HasEntry(timers, t) \/ \E i \in DOMAIN batch : batch[i] = t
      BY DEF TimerInv, Held, InBatch
    <3>. QED
      BY <3>1, <3>2, <3>3, <3>4, <3>5
  <2>. QED
    BY <2>1 DEF RunningIsHeld, TimerInv
<1>. QED
  BY <1>1, TimerInvariant, PTL

\* The entry wait reads its timeout from is the earliest.
FrontIsEarliest == \A i \in DOMAIN timers : timers[1].when <= timers[i].when

\* timers_.begin() is the earliest of timers_, by whatever keys were inserted,
\* erased and taken out: the loop waits for no other.
THEOREM FrontIsEarliestAlways == TimerSpec => []FrontIsEarliest
<1>1. TimerInv => FrontIsEarliest
  <2> SUFFICES ASSUME TimerInv, NEW i \in DOMAIN timers
               PROVE  timers[1].when <= timers[i].when
    BY DEF FrontIsEarliest
  <2>1. timers \in Seq(Ent) /\ Sorted(timers)
    BY DEF TimerInv, TimerTypeOK, Ent
  <2>2. DOMAIN timers = 1..Len(timers) /\ Len(timers) \in Nat
    BY <2>1
  <2>3. 1 \in DOMAIN timers /\ 1 <= i
    BY <2>2
  <2>. QED
    BY <2>1, <2>3 DEF Sorted
<1>. QED
  BY <1>1, TimerInvariant, PTL

\* A timer that is a millisecond away or more: whatever the cast to int makes
\* of the distance, the timeout ends no later than the timer is due.
LEMMA SleepEnds ==
    ASSUME TimerInv, NEW ms \in Waits, WaitBegin(ms), timers # <<>>,
           timers[1].when - stamp * MsNs >= MsNs
    PROVE  \/ timeout' * MsNs <= timers[1].when - stamp * MsNs
           \/ timeout' = WaitDef
<1> DEFINE left == timers[1].when - stamp * MsNs
           delay == left \div MsNs
<1>1. /\ MsNs \in Nat \ {0} /\ IntHalf \in Nat /\ WaitCap \in Nat
      /\ (WaitCap + 1) * MsNs <= IntHalf /\ ms \in Int
  BY TimerAssumption
<1>2. left \in Nat /\ MsNs <= left
  <2>0. timers \in Seq(Ent)
    BY DEF TimerInv, TimerTypeOK, Ent
  <2>1. timers[1] \in Ent
    BY <2>0
  <2>2. timers[1].when \in Nat /\ stamp * MsNs \in Nat
    BY <1>1, <2>1, Products DEF Ent, TimerInv, TimerTypeOK
  <2>. QED
    BY <1>1, <2>2
<1>3. timeout' = Clamped(Shortened(ms, timers[1]))
  BY DEF WaitBegin, Timeout
<1>4. Shortened(ms, timers[1]) =
          LET d == Quotient(AsInt(left), MsNs) IN IF d > 0 /\ d < ms THEN d ELSE ms
  BY DEF Shortened
<1>. HIDE DEF left
<1>5. CASE left < IntHalf
  <2>1. AsInt(left) = left
    BY <1>2, <1>5, AsIntFits
  <2>2. Quotient(AsInt(left), MsNs) = delay
    BY <1>2, <2>1 DEF Quotient
  <2>3. delay \in Nat /\ delay * MsNs <= left /\ 1 <= delay
    BY <1>1, <1>2, DivRange
  <2>. HIDE DEF delay
  <2>4. PICK s \in Int : timeout' = Clamped(s) /\ s <= delay
    <3>1. Shortened(ms, timers[1]) = IF delay > 0 /\ delay < ms THEN delay ELSE ms
      BY <1>4, <2>2
    <3>. QED
      BY <1>1, <1>3, <2>3, <3>1
  <2>5. CASE timeout' = WaitDef
    BY <2>5
  <2>6. CASE timeout' # WaitDef
    <3>1. timeout' = s /\ s \in Nat
      BY <1>1, <2>4, <2>6 DEF Clamped
    <3>2. timeout' * MsNs <= delay * MsNs /\ timeout' * MsNs \in Nat /\ delay * MsNs \in Nat
      BY <1>1, <2>3, <2>4, <3>1, Products
    <3>. QED
      BY <1>2, <2>3, <3>2 DEF left
  <2>. QED
    BY <2>5, <2>6
<1>6. CASE ~(left < IntHalf)
  <2>1. timeout' \in 0..WaitCap
    <3>1. TimerInv'
      BY WaitBeginKeeps
    <3>. QED
      BY <3>1 DEF TimerInv, TimerTypeOK
  <2>2. /\ timeout' \in Nat /\ timeout' <= WaitCap + 1 /\ WaitCap + 1 \in Nat
    BY <1>1, <2>1
  <2>3. /\ timeout' * MsNs <= (WaitCap + 1) * MsNs
        /\ timeout' * MsNs \in Nat /\ (WaitCap + 1) * MsNs \in Nat
    BY <1>1, <2>2, Products
  <2>4. timeout' * MsNs <= left
    BY <1>1, <1>2, <1>6, <2>3
  <2>. QED
    BY <2>4 DEF left
<1>. QED
  BY <1>5, <1>6

\* The loop never sleeps past the earliest timer, however far that is away and
\* whatever the cast to int makes of the distance.
THEOREM NoOversleepAlways == TimerSpec => NoOversleep
<1>1. TimerInv /\ [TimerNext]_timerVars => [SleepFits]_timerVars
  <2> SUFFICES ASSUME TimerInv, TimerNext PROVE SleepFits
    OBVIOUS
  <2>1. ASSUME NEW ms \in Waits, WaitBegin(ms) PROVE SleepFits
    BY <2>1, SleepEnds DEF SleepFits
  <2>2. ASSUME stage = "app", stage' = "before_wait" PROVE \E ms \in Waits : WaitBegin(ms)
    <3>1. ~TimerApplication
      BY <2>2 DEF TimerApplication, AddTimer, ResetTimer, DelTimer, Set
    <3>. QED
      BY <2>2, <3>1 DEF TimerNext, TimerLoop, BackendReturns, TriggerTimers, OnTimer,
                        WaitReturns
  <2>. QED
    BY <2>1, <2>2 DEF SleepFits
<1>. QED
  BY <1>1, TimerInvariant, PTL DEF TimerSpec, NoOversleep

-----------------------------------------------------------------------------
(***************************************************************************)
(* Writing.                                                                *)
(***************************************************************************)

\* The first g bytes the application gave.
Stream(g) == [i \in 1..g |-> i]

\* Joining sequences is associative.
LEMMA Joins ==
    ASSUME NEW x \in Seq(Nat), NEW y \in Seq(Nat), NEW z \in Seq(Nat)
    PROVE  (x \o y) \o z = x \o (y \o z)
BY ConcatAssociative, SMTT(60)

\* Cutting a sequence in two and putting the halves together again, behind any
\* other, changes nothing: what flush() does to the wire and the buffer.
LEMMA CutAndJoin ==
    ASSUME NEW w \in Seq(Nat), NEW b \in Seq(Nat), NEW n \in 0..Len(b)
    PROVE  /\ SubSeq(b, 1, n) \in Seq(Nat)
           /\ From(b, n) \in Seq(Nat)
           /\ (w \o SubSeq(b, 1, n)) \o From(b, n) = w \o b
<1> DEFINE x == SubSeq(b, 1, n)
           y == SubSeq(b, n + 1, Len(b))
<1>1. x \in Seq(Nat) /\ y \in Seq(Nat)
  <2>1. Len(b) \in Nat /\ \A i \in 1..Len(b) : b[i] \in Nat
    BY LenProperties, ElementOfSeq
  <2>2. /\ \A i \in 1..n : b[i] \in Nat
        /\ \A i \in n + 1 .. Len(b) : b[i] \in Nat
    BY <2>1
  <2>3. n \in Int /\ n + 1 \in Int /\ Len(b) \in Int /\ 1 \in Int
    BY <2>1
  <2> QED
    BY <2>2, <2>3, SubSeqProperties, Zenon
<1>2. x \o y = b
  <2>1. /\ 1 \in 1..Len(b) + 1 /\ n \in 1 - 1 .. Len(b)
        /\ Len(b) \in n..Len(b)
    BY LenProperties
  <2>2. x \o y = SubSeq(b, 1, Len(b))
    BY <2>1, ConcatAdjacentSubSeq, Zenon
  <2> QED
    BY <2>2, SubSeqFull, Zenon
<1>3. (w \o x) \o y = w \o (x \o y)
  <2> HIDE DEF x, y
  <2> QED
    BY <1>1, Joins
<1> QED
  BY <1>1, <1>2, <1>3 DEF From

\* Data buffered behind a stream is behind it.
LEMMA JoinBehind ==
    ASSUME NEW w \in Seq(Nat), NEW b \in Seq(Nat), NEW d \in Seq(Nat)
    PROVE  /\ b \o d \in Seq(Nat)
           /\ w \o (b \o d) = (w \o b) \o d
<1>1. b \o d \in Seq(Nat)
  BY ConcatProperties, Zenon
<1>2. w \o (b \o d) = (w \o b) \o d
  BY Joins
<1> QED
  BY <1>1, <1>2

\* Data given behind the stream continues it.
LEMMA DataContinues ==
    ASSUME NEW len \in Nat, given \in Nat
    PROVE  /\ Data(len) \in Seq(Nat)
           /\ Len(Data(len)) = len
           /\ Stream(given) \o Data(len) = Stream(given + len)
BY DEF Data, Stream

\* The invariant: with the two sequences' types, the stream property.
StreamInv ==
    /\ buf \in Seq(Nat)
    /\ wire \in Seq(Nat)
    /\ given \in Nat
    /\ full \in BOOLEAN
    /\ StreamIntact

LEMMA StreamInit == WriteInit => StreamInv
<1> SUFFICES ASSUME WriteInit PROVE StreamInv
  OBVIOUS
<1>1. buf = <<>> /\ wire = <<>> /\ given = 0 /\ full = FALSE
  BY DEF WriteInit
<1>2. <<>> \o <<>> = [i \in 1..0 |-> i]
  OBVIOUS
<1>3. StreamWhole
  BY <1>1, <1>2 DEF StreamWhole
<1>4. buf \in Seq(Nat) /\ wire \in Seq(Nat)
  BY <1>1, EmptySeq, Zenon
<1>5. given \in Nat /\ full \in BOOLEAN
  BY <1>1
<1> QED
  BY <1>3, <1>4, <1>5 DEF StreamInv, StreamIntact

LEMMA StreamStep ==
    ASSUME StreamInv, [WriteNext]_writeVars
    PROVE  StreamInv'
<1>0. /\ buf \in Seq(Nat) /\ wire \in Seq(Nat) /\ given \in Nat
      /\ full \in BOOLEAN
      /\ ~full => wire \o buf = Stream(given)
  BY DEF StreamInv, StreamIntact, StreamWhole, Stream
<1>1. ASSUME buf' \in Seq(Nat), wire' \in Seq(Nat), given' \in Nat,
             full' \in BOOLEAN, ~full' => wire' \o buf' = Stream(given')
      PROVE  StreamInv'
  BY <1>1 DEF StreamInv, StreamIntact, StreamWhole, Stream
<1>2. ASSUME NEW len \in 1..MaxLen, WriteBehind(len)
      PROVE  StreamInv'
  <2>1. len \in Nat /\ given + len \in Nat
    BY <1>0, WriteAssumption
  <2>2. Data(len) \in Seq(Nat) /\ Stream(given) \o Data(len) = Stream(given + len)
    BY <1>0, <2>1, DataContinues, Zenon
  <2>3. /\ buf \o Data(len) \in Seq(Nat)
        /\ wire \o (buf \o Data(len)) = (wire \o buf) \o Data(len)
    <3>1. wire \in Seq(Nat) /\ buf \in Seq(Nat) /\ Data(len) \in Seq(Nat)
      BY <1>0, <2>2
    <3> QED
      BY <3>1, JoinBehind, Zenon
  <2>4. wire' = wire /\ buf' = buf \o Data(len) /\ given' = given + len /\ full' = full
    BY <1>2 DEF WriteBehind
  <2>5. ASSUME ~full PROVE wire \o (buf \o Data(len)) = Stream(given + len)
    <3>1. (wire \o buf) \o Data(len) = Stream(given) \o Data(len)
      BY <1>0, <2>5
    <3> QED
      BY <2>2, <2>3, <3>1, Zenon
  <2> QED
    BY <1>0, <1>1, <2>1, <2>3, <2>4, <2>5, Zenon
<1>3. ASSUME NEW len \in 1..MaxLen, NEW n \in 1..len, WriteThrough(len, n)
      PROVE  StreamInv'
  <2>1. len \in Nat /\ given + len \in Nat
    BY <1>0, WriteAssumption
  <2>2. /\ Data(len) \in Seq(Nat) /\ Len(Data(len)) = len
        /\ Stream(given) \o Data(len) = Stream(given + len)
    BY <1>0, <2>1, DataContinues, Zenon
  <2>3. n \in 0..Len(Data(len))
    BY <2>1, <2>2
  <2>4. /\ SubSeq(Data(len), 1, n) \in Seq(Nat)
        /\ From(Data(len), n) \in Seq(Nat)
        /\ (wire \o SubSeq(Data(len), 1, n)) \o From(Data(len), n) = wire \o Data(len)
    BY <1>0, <2>2, <2>3, CutAndJoin, Zenon
  <2>5. ASSUME ~full PROVE wire = Stream(given)
    <3>1. wire \o <<>> = wire
      BY <1>0, ConcatEmptySeq, Zenon
    <3> QED
      BY <1>0, <1>3, <2>5, <3>1 DEF WriteThrough
  <2>6. wire \o SubSeq(Data(len), 1, n) \in Seq(Nat)
    BY <1>0, <2>4, ConcatProperties, Zenon
  <2>7. /\ wire' = wire \o SubSeq(Data(len), 1, n)
        /\ buf' = From(Data(len), n) /\ given' = given + len /\ full' = full
    BY <1>3 DEF WriteThrough
  <2>8. ASSUME ~full' PROVE wire' \o buf' = Stream(given')
    BY <2>2, <2>4, <2>5, <2>7, <2>8, Zenon
  <2> QED
    BY <1>0, <1>1, <2>1, <2>4, <2>6, <2>7, <2>8, Zenon
<1>4. ASSUME NEW n \in 0..Len(buf), WriteEvent(n)
      PROVE  StreamInv'
  <2>1. /\ SubSeq(buf, 1, n) \in Seq(Nat)
        /\ From(buf, n) \in Seq(Nat)
        /\ (wire \o SubSeq(buf, 1, n)) \o From(buf, n) = wire \o buf
    BY <1>0, CutAndJoin, Zenon
  <2>2. wire \o SubSeq(buf, 1, n) \in Seq(Nat)
    BY <1>0, <2>1, ConcatProperties, Zenon
  <2>3. /\ wire' = wire \o SubSeq(buf, 1, n)
        /\ buf' = From(buf, n) /\ given' = given /\ full' = full
    BY <1>4 DEF WriteEvent
  <2> QED
    BY <1>0, <1>1, <2>1, <2>2, <2>3, Zenon
<1>5. ASSUME NEW len \in 1..MaxLen, WriteFull(len)
      PROVE  StreamInv'
  <2>1. len \in Nat /\ given + len \in Nat
    BY <1>0, WriteAssumption
  <2>2. Data(len) \in Seq(Nat)
    BY <1>0, <2>1, DataContinues, Zenon
  <2>3. <<STRAY>> \in Seq(Nat)
    BY DEF STRAY
  <2>4. <<STRAY>> \o Data(len) \in Seq(Nat)
    BY <2>2, <2>3, ConcatProperties, Zenon
  <2>5. /\ wire' = wire /\ buf' = <<STRAY>> \o Data(len)
        /\ given' = given + len /\ full' = TRUE
    BY <1>5 DEF WriteFull
  <2> QED
    BY <1>0, <1>1, <2>1, <2>4, <2>5, Zenon
<1>6. ASSUME UNCHANGED <<buf, wire, given, full>>
      PROVE  StreamInv'
  BY <1>0, <1>1, <1>6
<1> QED
  BY <1>2, <1>3, <1>4, <1>5, <1>6
     DEF WriteNext, writeVars, WriteFails, FlushFails, HandlerReturns, WriteAwait,
         ReadAwait, WriteDisable, CloseAwait

\* As long as no write() finds the socket full, neither class ever loses,
\* doubles or reorders a byte, for writes of any length and number.
THEOREM StreamIntactAlways == WriteSpec => []StreamIntact
<1>1. WriteInit => StreamInv
  BY StreamInit
<1>2. StreamInv /\ [WriteNext]_writeVars => StreamInv'
  BY StreamStep
<1>3. StreamInv => StreamIntact
  BY DEF StreamInv
<1> QED
  BY <1>1, <1>2, <1>3, PTL DEF WriteSpec

-----------------------------------------------------------------------------
\* Over event_proc, the application is in on_write with nothing written since
\* only while nothing is buffered: it was called so.
PendingInv ==
    /\ PendingIsWatched
    /\ kind = "event_proc" /\ handler = "on_write" => buf = <<>>
    /\ StreamInv

LEMMA PendingStep ==
    ASSUME PendingInv, [WriteNext]_writeVars
    PROVE  PendingInv'
<1> USE WriteAssumption DEF PendingInv, PendingIsWatched
<1>1. StreamInv'
  BY StreamStep
<1>2. ASSUME NEW len \in 1..MaxLen, WriteBehind(len)
      PROVE  PendingInv'
  BY <1>1, <1>2 DEF WriteBehind, Wrote
<1>3. ASSUME NEW len \in 1..MaxLen, WriteFull(len)
      PROVE  PendingInv'
  <2>1. watch' = "on" /\ handler' # "on_write"
    BY <1>3 DEF WriteFull, Wrote
  <2> QED
    BY <1>1, <2>1
<1>4. ASSUME NEW len \in 1..MaxLen, NEW n \in 1..len, WriteThrough(len, n)
      PROVE  PendingInv'
  <2>1. n = len => buf' = <<>>
    BY <1>4 DEF WriteThrough, From, Data
  <2>2. n # len => watch' = "on"
    BY <1>4 DEF WriteThrough
  <2>3. handler' # "on_write"
    BY <1>4 DEF WriteThrough, Wrote
  <2> QED
    BY <1>1, <1>4, <2>1, <2>2, <2>3 DEF WriteThrough
<1>5. ASSUME NEW n \in 0..Len(buf), WriteEvent(n)
      PROVE  PendingInv'
  <2>1. watch' # "off"
    BY <1>5 DEF WriteEvent, Writable, AfterEvent
  <2>2. buf = <<>> => buf' = <<>>
    BY <1>5 DEF WriteEvent, From, StreamInv
  <2>3. kind = "event_proc" /\ handler' = "on_write" => buf' = <<>>
    BY <1>5, <2>2 DEF WriteEvent, Calls
  <2> QED
    BY <1>1, <1>5, <2>1, <2>3 DEF WriteEvent
<1>6. CASE FlushFails
  BY <1>1, <1>6 DEF FlushFails, Writable, AfterEvent
<1>7. CASE \/ HandlerReturns \/ WriteAwait \/ ReadAwait \/ WriteDisable
           \/ CloseAwait \/ UNCHANGED writeVars
           \/ \E len \in 1..MaxLen : WriteFails(len)
  BY <1>1, <1>7 DEF HandlerReturns, WriteAwait, ReadAwait, WriteDisable, CloseAwait,
                    WriteFails, Wrote, writeVars
<1> QED
  BY <1>2, <1>3, <1>4, <1>5, <1>6, <1>7 DEF WriteNext

\* What event_proc has buffered stays watched, also when the application stops
\* watching in on_write.
THEOREM PendingIsWatchedAlways == WriteSpec => []PendingIsWatched
<1>1. WriteInit => PendingInv
  BY StreamInit DEF WriteInit, PendingInv, PendingIsWatched
<1>2. PendingInv /\ [WriteNext]_writeVars => PendingInv'
  BY PendingStep
<1>3. PendingInv => PendingIsWatched
  BY DEF PendingInv
<1> QED
  BY <1>1, <1>2, <1>3, PTL DEF WriteSpec

-----------------------------------------------------------------------------
\* Only the write event calls on_write.
LEMMA EventTells ==
    ASSUME WriteNext, handler # "on_write", handler' = "on_write"
    PROVE  \E n \in 0..Len(buf) : WriteEvent(n)
BY DEF WriteNext, WriteBehind, WriteThrough, WriteFull, WriteFails, Wrote, FlushFails,
       HandlerReturns, WriteAwait, ReadAwait, WriteDisable, CloseAwait, writeVars

\* event_proc calls on_write when flush() has written all, and not before: on
\* what was buffered then, and on nothing.
THEOREM ProcToldAlways == WriteSpec => ProcTold
<1>1. StreamInv /\ [WriteNext]_writeVars
          => [kind = "event_proc" => OnWriteIsLast]_writeVars
  <2> SUFFICES ASSUME StreamInv, WriteNext, kind = "event_proc",
                      handler # "on_write", handler' = "on_write"
               PROVE  buf' = <<>>
    BY DEF OnWriteIsLast
  <2>1. PICK n \in 0..Len(buf) : WriteEvent(n)
    BY EventTells
  <2>2. /\ buf' = From(buf, n)
        /\ handler' = IF buf = <<>> \/ (n > 0 /\ Calls(buf')) THEN "on_write" ELSE "none"
    BY <2>1 DEF WriteEvent
  <2>3. CASE buf = <<>>
    BY <2>2, <2>3 DEF From
  <2>4. CASE buf # <<>>
    BY <2>2, <2>4 DEF Calls
  <2> QED
    BY <2>3, <2>4
<1>2. WriteInit => StreamInv
  BY StreamInit
<1>3. StreamInv /\ [WriteNext]_writeVars => StreamInv'
  BY StreamStep
<1> QED
  BY <1>1, <1>2, <1>3, PTL DEF WriteSpec, ProcTold

-----------------------------------------------------------------------------
(***************************************************************************)
(* What is kept when a write() found the socket full.                      *)
(***************************************************************************)

\* The sequence has the first g bytes, in order, among others.
Keeps(s, g) ==
    /\ {s[i] : i \in DOMAIN s} \ {STRAY} = 1..g
    /\ \A i, j \in DOMAIN s :
          i < j /\ s[i] # STRAY /\ s[j] # STRAY => s[i] < s[j]

LEMMA KeepsStray ==
    ASSUME NEW s \in Seq(Nat), NEW g \in Nat, Keeps(s, g)
    PROVE  s \o <<STRAY>> \in Seq(Nat) /\ Keeps(s \o <<STRAY>>, g)
<1> DEFINE t == s \o <<STRAY>>
<1>1. /\ t \in Seq(Nat) /\ Len(t) = Len(s) + 1 /\ Len(s) \in Nat
      /\ \A i \in 1..Len(s) : t[i] = s[i]
      /\ t[Len(s) + 1] = STRAY
      /\ DOMAIN s = 1..Len(s) /\ DOMAIN t = 1..(Len(s) + 1)
  BY DEF STRAY
<1>. HIDE DEF t
<1>2. {t[i] : i \in DOMAIN t} \ {STRAY} = {s[i] : i \in DOMAIN s} \ {STRAY}
  <2>1. \A i \in DOMAIN t : t[i] # STRAY => i \in DOMAIN s /\ t[i] = s[i]
    BY <1>1
  <2>2. \A i \in DOMAIN s : i \in DOMAIN t /\ t[i] = s[i]
    BY <1>1
  <2>. QED
    BY <2>1, <2>2
<1>3. ASSUME NEW i \in DOMAIN t, NEW j \in DOMAIN t, i < j, t[i] # STRAY, t[j] # STRAY
      PROVE  t[i] < t[j]
  <2>1. i \in 1..(Len(s) + 1) /\ j \in 1..(Len(s) + 1) /\ j # Len(s) + 1
    BY <1>1, <1>3
  <2>2. i \in 1..Len(s) /\ j \in 1..Len(s)
    BY <1>1, <1>3, <2>1
  <2>3. t[i] = s[i] /\ t[j] = s[j] /\ i \in DOMAIN s /\ j \in DOMAIN s
    BY <1>1, <2>2
  <2>. QED
    BY <1>3, <2>3 DEF Keeps
<1>. QED
  BY <1>1, <1>2, <1>3 DEF Keeps, t

LEMMA KeepsMore ==
    ASSUME NEW s \in Seq(Nat), given \in Nat, NEW len \in Nat, Keeps(s, given)
    PROVE  Keeps(s \o Data(len), given + len)
<1> DEFINE d == Data(len)
           t == s \o d
<1>1. d \in Seq(Nat) /\ Len(d) = len
  BY DataContinues
<1>2. \A k \in 1..len : d[k] = given + k
  BY DEF Data
<1>. HIDE DEF d
<1>3. /\ t \in Seq(Nat) /\ Len(s) \in Nat
      /\ DOMAIN s = 1..Len(s) /\ DOMAIN t = 1..(Len(s) + len)
      /\ \A i \in 1..(Len(s) + len) :
            t[i] = IF i <= Len(s) THEN s[i] ELSE d[i - Len(s)]
  <2>1. /\ t \in Seq(Nat) /\ Len(t) = Len(s) + len /\ Len(s) \in Nat
        /\ \A i \in 1..(Len(s) + len) :
              t[i] = IF i <= Len(s) THEN s[i] ELSE d[i - Len(s)]
    BY <1>1, ConcatProperties, LenProperties, Zenon
  <2>. HIDE DEF t
  <2>2. DOMAIN s = 1..Len(s) /\ DOMAIN t = 1..(Len(s) + len)
    BY <2>1
  <2>. QED
    BY <2>1, <2>2
<1>. HIDE DEF t
<1>4. \A i \in DOMAIN s : s[i] \in Nat /\ (s[i] # STRAY => s[i] \in 1..given)
  <2>1. \A i \in DOMAIN s : s[i] \in Nat
    BY <1>3
  <2>. QED
    BY <2>1 DEF Keeps
<1>5. ASSUME NEW i \in DOMAIN t
      PROVE  \/ i \in DOMAIN s /\ t[i] = s[i]
             \/ /\ i > Len(s) /\ i - Len(s) \in 1..len
                /\ t[i] = given + (i - Len(s))
  <2>1. CASE i <= Len(s)
    BY <1>3, <2>1
  <2>2. CASE ~(i <= Len(s))
    <3>1. i - Len(s) \in 1..len /\ t[i] = d[i - Len(s)] /\ i > Len(s)
      BY <1>3, <2>2
    <3>. QED
      BY <1>2, <3>1
  <2>. QED
    BY <2>1, <2>2
<1>6. {t[i] : i \in DOMAIN t} \ {STRAY} = 1..(given + len)
  <2>1. ASSUME NEW i \in DOMAIN t, t[i] # STRAY PROVE t[i] \in 1..(given + len)
    <3>1. CASE i \in DOMAIN s /\ t[i] = s[i]
      BY <1>4, <2>1, <3>1
    <3>2. CASE i - Len(s) \in 1..len /\ t[i] = given + (i - Len(s))
      BY <3>2
    <3>. QED
      BY <1>5, <3>1, <3>2
  <2>2. ASSUME NEW b \in 1..(given + len)
        PROVE  b # STRAY /\ \E i \in DOMAIN t : t[i] = b
    <3>1. b # STRAY
      BY DEF STRAY
    <3>2. CASE b <= given
      <4>1. b \in 1..given
        BY <3>2
      <4>2. PICK i \in DOMAIN s : s[i] = b
        BY <4>1 DEF Keeps
      <4>3. i \in DOMAIN t /\ t[i] = b
        BY <1>3, <4>2
      <4>. QED
        BY <3>1, <4>3
    <3>3. CASE b > given
      <4> DEFINE k == b - given
      <4>1. k \in 1..len /\ given + k = b
        BY <3>3
      <4>. HIDE DEF k
      <4> DEFINE m == Len(s) + k
      <4>2. m \in 1..(Len(s) + len) /\ ~(m <= Len(s)) /\ m - Len(s) = k
        BY <1>3, <4>1
      <4>. HIDE DEF m
      <4>3. t[m] = d[k]
        BY <1>3, <4>2
      <4>. QED
        BY <1>2, <1>3, <3>1, <4>1, <4>2, <4>3
    <3>. QED
      BY <3>2, <3>3
  <2>. QED
    BY <2>1, <2>2
<1>7. ASSUME NEW i \in DOMAIN t, NEW j \in DOMAIN t, i < j, t[i] # STRAY, t[j] # STRAY
      PROVE  t[i] < t[j]
  <2>1. CASE j \in DOMAIN s
    BY <1>3, <1>7, <2>1 DEF Keeps
  <2>2. CASE j \notin DOMAIN s
    <3>1. t[j] = given + (j - Len(s)) /\ j - Len(s) \in 1..len
      BY <1>5, <2>2
    <3>2. CASE i \in DOMAIN s
      BY <1>3, <1>4, <1>7, <3>1, <3>2
    <3>3. CASE i \notin DOMAIN s
      BY <1>3, <1>5, <1>7, <3>1, <3>3
    <3>. QED
      BY <3>2, <3>3
  <2>. QED
    BY <2>1, <2>2
<1>. QED
  BY <1>6, <1>7 DEF Keeps, t, d

\* The parts of a sequence have its elements.
LEMMA PartTypes ==
    ASSUME NEW S, NEW b \in Seq(S), NEW n \in 0..Len(b)
    PROVE  SubSeq(b, 1, n) \in Seq(S) /\ From(b, n) \in Seq(S)
<1>1. Len(b) \in Nat /\ \A i \in 1..Len(b) : b[i] \in S
  BY LenProperties, ElementOfSeq
<1>2. /\ \A i \in 1..n : b[i] \in S
      /\ \A i \in n + 1 .. Len(b) : b[i] \in S
  BY <1>1
<1>3. n \in Int /\ n + 1 \in Int /\ Len(b) \in Int /\ 1 \in Int
  BY <1>1
<1>. QED
  BY <1>2, <1>3, SubSeqProperties, Zenon DEF From

LEMMA TypesStep ==
    ASSUME WriteTypeOK, [WriteNext]_writeVars
    PROVE  WriteTypeOK'
<1> DEFINE S == 0..MaxBytes
<1>0. buf \in Seq(S) /\ wire \in Seq(S) /\ given \in S /\ MaxBytes \in Nat
  BY WriteAssumption DEF WriteTypeOK
<1>1. STRAY \in S
  BY <1>0 DEF STRAY
<1>2. ASSUME NEW len \in 1..MaxLen, MayWrite(len)
      PROVE  /\ len \in Nat /\ given + len \in S
             /\ Data(len) \in Seq(S) /\ Len(Data(len)) = len
  <2>1. len \in Nat /\ given + len \in S /\ \A i \in 1..len : given + i \in S
    BY <1>0, <1>2, WriteAssumption DEF MayWrite
  <2>. HIDE DEF S
  <2>. QED
    BY <2>1 DEF Data
<1>. HIDE DEF S
<1>3. ASSUME buf' \in Seq(S), wire' \in Seq(S), given' \in S, full' \in BOOLEAN,
             UNCHANGED <<kind, oneshot, closing>>, watch' \in {watch, "on"},
             handler' \in {handler, "wrote"}
      PROVE  WriteTypeOK'
  BY <1>3 DEF WriteTypeOK, S, Watches
<1>4. full \in BOOLEAN
  BY DEF WriteTypeOK
<1>5. ASSUME NEW len \in 1..MaxLen, WriteBehind(len) PROVE WriteTypeOK'
  <2>1. /\ MayWrite(len) /\ buf' = buf \o Data(len) /\ given' = given + len
        /\ handler' \in {handler, "wrote"}
        /\ UNCHANGED <<kind, oneshot, watch, closing, wire, full>>
    BY <1>5 DEF WriteBehind, Wrote
  <2>2. given + len \in S /\ Data(len) \in Seq(S)
    BY <1>2, <2>1
  <2>3. buf \o Data(len) \in Seq(S)
    BY <1>0, <2>2, ConcatProperties, Zenon
  <2>. QED
    BY <1>0, <1>3, <1>4, <2>1, <2>2, <2>3
<1>6. ASSUME NEW len \in 1..MaxLen, NEW n \in 1..len, WriteThrough(len, n)
      PROVE  WriteTypeOK'
  <2>1. /\ MayWrite(len) /\ given' = given + len
        /\ wire' = wire \o SubSeq(Data(len), 1, n) /\ buf' = From(Data(len), n)
        /\ watch' \in {watch, "on"} /\ handler' \in {handler, "wrote"}
        /\ UNCHANGED <<kind, oneshot, closing, full>>
    BY <1>6 DEF WriteThrough, Wrote
  <2>2. /\ given + len \in S /\ Data(len) \in Seq(S) /\ n \in 0..Len(Data(len))
    BY <1>2, <2>1
  <2>3. SubSeq(Data(len), 1, n) \in Seq(S) /\ From(Data(len), n) \in Seq(S)
    BY <2>2, PartTypes, Zenon
  <2>4. wire \o SubSeq(Data(len), 1, n) \in Seq(S)
    BY <1>0, <2>3, ConcatProperties, Zenon
  <2>. QED
    BY <1>3, <1>4, <2>1, <2>2, <2>3, <2>4
<1>7. ASSUME NEW len \in 1..MaxLen, WriteFull(len) PROVE WriteTypeOK'
  <2>1. /\ MayWrite(len) /\ given' = given + len /\ wire' = wire
        /\ buf' = <<STRAY>> \o Data(len)
        /\ watch' = "on" /\ handler' \in {handler, "wrote"} /\ full' = TRUE
        /\ UNCHANGED <<kind, oneshot, closing>>
    BY <1>7 DEF WriteFull, Wrote
  <2>2. given + len \in S /\ Data(len) \in Seq(S) /\ <<STRAY>> \in Seq(S)
    BY <1>1, <1>2, <2>1
  <2>3. <<STRAY>> \o Data(len) \in Seq(S)
    BY <2>2, ConcatProperties, Zenon
  <2>. QED
    BY <1>0, <1>3, <2>1, <2>2, <2>3
<1>8. ASSUME NEW n \in 0..Len(buf), WriteEvent(n) PROVE WriteTypeOK'
  <2>1. /\ wire' = wire \o SubSeq(buf, 1, n) /\ buf' = From(buf, n)
        /\ watch' = AfterEvent /\ handler' \in {"on_write", "none"}
        /\ UNCHANGED <<kind, oneshot, closing, given, full>>
    BY <1>8 DEF WriteEvent
  <2>2. SubSeq(buf, 1, n) \in Seq(S) /\ From(buf, n) \in Seq(S)
    BY <1>0, PartTypes, Zenon
  <2>3. wire \o SubSeq(buf, 1, n) \in Seq(S)
    BY <1>0, <2>2, ConcatProperties, Zenon
  <2>. QED
    BY <2>1, <2>2, <2>3 DEF WriteTypeOK, S, AfterEvent, Watches
<1>9. CASE \/ FlushFails \/ HandlerReturns \/ WriteAwait \/ ReadAwait \/ WriteDisable
           \/ CloseAwait \/ UNCHANGED writeVars
           \/ \E len \in 1..MaxLen : WriteFails(len)
  BY <1>9 DEF WriteTypeOK, FlushFails, AfterEvent, HandlerReturns, WriteAwait, ReadAwait,
     WriteDisable, CloseAwait, WriteFails, writeVars, Watches
<1>. QED
  BY <1>5, <1>6, <1>7, <1>8, <1>9 DEF WriteNext

GivenInv == StreamInv /\ WriteTypeOK /\ Keeps(wire \o buf, given)

LEMMA GivenStep ==
    ASSUME GivenInv, [WriteNext]_writeVars
    PROVE  GivenInv'
<1>1. StreamInv' /\ WriteTypeOK'
  BY StreamStep, TypesStep DEF GivenInv
<1>0. /\ buf \in Seq(Nat) /\ wire \in Seq(Nat) /\ given \in Nat
      /\ Keeps(wire \o buf, given)
  BY DEF GivenInv, StreamInv
<1>2. wire \o buf \in Seq(Nat)
  BY <1>0, ConcatProperties, Zenon
<1>3. ASSUME NEW len \in 1..MaxLen
      PROVE  /\ len \in Nat /\ Data(len) \in Seq(Nat) /\ Len(Data(len)) = len
             /\ Keeps((wire \o buf) \o Data(len), given + len)
  <2>1. len \in Nat
    BY WriteAssumption
  <2>. QED
    BY <1>0, <1>2, <2>1, DataContinues, KeepsMore, Zenon
<1>4. ASSUME Keeps(wire' \o buf', given') PROVE GivenInv'
  BY <1>1, <1>4 DEF GivenInv
<1>5. ASSUME NEW len \in 1..MaxLen, WriteBehind(len) PROVE GivenInv'
  <2>1. wire' = wire /\ buf' = buf \o Data(len) /\ given' = given + len
    BY <1>5 DEF WriteBehind
  <2>2. wire \o (buf \o Data(len)) = (wire \o buf) \o Data(len)
    BY <1>0, <1>3, JoinBehind, Zenon
  <2>. QED
    BY <1>3, <1>4, <2>1, <2>2, Zenon
<1>6. ASSUME buf = <<>> PROVE wire \o buf = wire
  BY <1>0, <1>6, ConcatEmptySeq, Zenon
<1>7. ASSUME NEW len \in 1..MaxLen, NEW n \in 1..len, WriteThrough(len, n)
      PROVE  GivenInv'
  <2>1. /\ wire' = wire \o SubSeq(Data(len), 1, n) /\ buf' = From(Data(len), n)
        /\ given' = given + len /\ buf = <<>>
    BY <1>7 DEF WriteThrough
  <2>2. n \in 0..Len(Data(len))
    BY <1>3
  <2>3. wire' \o buf' = wire \o Data(len)
    BY <1>0, <1>3, <2>1, <2>2, CutAndJoin, Zenon
  <2>. QED
    BY <1>3, <1>4, <1>6, <2>1, <2>3, Zenon
<1>8. ASSUME NEW len \in 1..MaxLen, WriteFull(len) PROVE GivenInv'
  <2>1. /\ wire' = wire /\ buf' = <<STRAY>> \o Data(len)
        /\ given' = given + len /\ buf = <<>>
    BY <1>8 DEF WriteFull
  <2>2. <<STRAY>> \in Seq(Nat)
    BY DEF STRAY
  <2>3. wire \o <<STRAY>> \in Seq(Nat) /\ Keeps(wire \o <<STRAY>>, given)
    BY <1>0, <1>6, <2>1, KeepsStray, Zenon
  <2>4. len \in Nat /\ Data(len) \in Seq(Nat)
    BY <1>3
  <2>5. Keeps((wire \o <<STRAY>>) \o Data(len), given + len)
    BY <1>0, <2>3, <2>4, KeepsMore, Zenon
  <2>6. wire \o (<<STRAY>> \o Data(len)) = (wire \o <<STRAY>>) \o Data(len)
    <3> DEFINE b == <<STRAY>>
               d == Data(len)
    <3>1. wire \in Seq(Nat) /\ b \in Seq(Nat) /\ d \in Seq(Nat)
      BY <1>0, <2>2, <2>4
    <3>. HIDE DEF b, d
    <3>2. wire \o (b \o d) = (wire \o b) \o d
      BY <3>1, JoinBehind
    <3>. QED
      BY <3>2 DEF b, d
  <2>. QED
    BY <1>4, <2>1, <2>5, <2>6, Zenon
<1>9. ASSUME NEW n \in 0..Len(buf), WriteEvent(n) PROVE GivenInv'
  <2>1. /\ wire' = wire \o SubSeq(buf, 1, n) /\ buf' = From(buf, n) /\ given' = given
    BY <1>9 DEF WriteEvent
  <2>2. wire' \o buf' = wire \o buf
    BY <1>0, <2>1, CutAndJoin, Zenon
  <2>. QED
    BY <1>0, <1>4, <2>1, <2>2, Zenon
<1>10. ASSUME UNCHANGED <<buf, wire, given>> PROVE GivenInv'
  BY <1>0, <1>4, <1>10
<1>. QED
  BY <1>5, <1>7, <1>8, <1>9, <1>10
     DEF WriteNext, writeVars, WriteFails, FlushFails, HandlerReturns, WriteAwait,
         ReadAwait, WriteDisable, CloseAwait

\* Also when a write() finds the socket full, every byte that was given is on the
\* wire or buffered, once, and behind those given before it.
THEOREM GivenIntactAlways == WriteSpec => []GivenIntact
<1>1. WriteInit => GivenInv
  <2> SUFFICES ASSUME WriteInit PROVE GivenInv
    OBVIOUS
  <2>1. buf = <<>> /\ wire = <<>> /\ given = 0
    BY DEF WriteInit
  <2>2. WriteTypeOK
    <3>1. <<>> \in Seq(0..MaxBytes) /\ 0 \in 0..MaxBytes
      BY WriteAssumption
    <3>. QED
      BY <2>1, <3>1 DEF WriteInit, WriteTypeOK, Watches
  <2>3. wire \o buf = <<>> /\ DOMAIN <<>> = {}
    BY <2>1
  <2>4. Keeps(<<>>, 0)
    BY <2>3 DEF Keeps
  <2>. QED
    BY <2>1, <2>2, <2>3, <2>4, StreamInit DEF GivenInv
<1>2. GivenInv /\ [WriteNext]_writeVars => GivenInv'
  BY GivenStep
<1>3. GivenInv => GivenIntact
  BY DEF GivenInv, GivenIntact, Keeps
<1>. QED
  BY <1>1, <1>2, <1>3, PTL DEF WriteSpec

-----------------------------------------------------------------------------
(***************************************************************************)
(* Sequences of bytes, joined and taken apart.                             *)
(***************************************************************************)

\* Joining two, with its length and its elements.
LEMMA JoinIs ==
    ASSUME NEW a \in Seq(Nat), NEW b \in Seq(Nat)
    PROVE  /\ a \o b \in Seq(Nat)
           /\ Len(a) \in Nat /\ Len(b) \in Nat
           /\ Len(a \o b) = Len(a) + Len(b)
           /\ \A i \in 1..Len(a) : (a \o b)[i] = a[i]
           /\ \A i \in 1..Len(b) : (a \o b)[Len(a) + i] = b[i]
<1>1. Len(a) \in Nat /\ Len(b) \in Nat
  BY LenProperties
<1>2. /\ a \o b \in Seq(Nat)
      /\ Len(a \o b) = Len(a) + Len(b)
      /\ \A i \in 1 .. Len(a) + Len(b) : (a \o b)[i] =
              IF i <= Len(a) THEN a[i] ELSE b[i - Len(a)]
  BY ConcatProperties
<1>3. ASSUME NEW i \in 1..Len(a) PROVE (a \o b)[i] = a[i]
  <2>1. i \in 1 .. Len(a) + Len(b) /\ i <= Len(a)
    BY <1>1
  <2>. QED
    BY <1>2, <2>1, Zenon
<1>4. ASSUME NEW i \in 1..Len(b) PROVE (a \o b)[Len(a) + i] = b[i]
  <2>1. Len(a) + i \in 1 .. Len(a) + Len(b) /\ ~(Len(a) + i <= Len(a)) /\ (Len(a) + i) - Len(a) = i
    BY <1>1
  <2>. QED
    BY <1>2, <2>1, Zenon
<1>. QED
  BY <1>1, <1>2, <1>3, <1>4, Zenon

\* Two sequences that are equal and begin with as much have equal parts.
LEMMA Cancel ==
    ASSUME NEW a \in Seq(Nat), NEW b \in Seq(Nat), NEW c \in Seq(Nat), NEW e \in Seq(Nat),
           a \o b = c \o e, Len(a) = Len(c)
    PROVE  a = c /\ b = e
<1>1. ASSUME NEW i \in 1..Len(a) PROVE a[i] = c[i]
  <2>1. (a \o b)[i] = a[i]
    BY JoinIs
  <2>2. \A j \in 1..Len(c) : (c \o e)[j] = c[j]
    BY JoinIs
  <2>. QED
    BY <2>1, <2>2
<1>2. a = c
  BY <1>1, SeqEqual
<1>3. b = e
  BY <1>2, ConcatSimplifications, Zenon
<1>. QED
  BY <1>2, <1>3

\* A sequence cut in two.
LEMMA Halves ==
    ASSUME NEW d \in Seq(Nat), NEW k \in 0..Len(d)
    PROVE  /\ SubSeq(d, 1, k) \in Seq(Nat) /\ Len(SubSeq(d, 1, k)) = k
           /\ SubSeq(d, k + 1, Len(d)) \in Seq(Nat)
           /\ Len(SubSeq(d, k + 1, Len(d))) = Len(d) - k
           /\ SubSeq(d, 1, k) \o SubSeq(d, k + 1, Len(d)) = d
<1>1. Len(d) \in Nat /\ \A i \in 1..Len(d) : d[i] \in Nat
  BY LenProperties, ElementOfSeq
<1>2. SubSeq(d, 1, k) \in Seq(Nat) /\ Len(SubSeq(d, 1, k)) = k
  BY <1>1, SubSeqProperties
<1>3. SubSeq(d, k + 1, Len(d)) \in Seq(Nat) /\ Len(SubSeq(d, k + 1, Len(d))) = Len(d) - k
  <2>1. k + 1 \in Int /\ Len(d) \in Int /\ \A i \in (k + 1)..Len(d) : d[i] \in Nat
    BY <1>1
  <2> DEFINE j == k + 1
             n == Len(d)
  <2>2. /\ SubSeq(d, j, n) \in Seq(Nat)
        /\ Len(SubSeq(d, j, n)) = IF j <= n THEN n - j + 1 ELSE 0
    <3>. HIDE DEF j, n
    <3>. QED
      BY <2>1, SubSeqProperties DEF j, n
  <2>. QED
    BY <1>1, <2>2
<1>4. SubSeq(d, 1, k) \o SubSeq(d, k + 1, Len(d)) = d
  <2>1. /\ 1 \in 1..Len(d) + 1 /\ k \in 1 - 1 .. Len(d)
        /\ Len(d) \in k..Len(d)
    BY <1>1
  <2>2. SubSeq(d, 1, k) \o SubSeq(d, k + 1, Len(d)) = SubSeq(d, 1, Len(d))
    BY <2>1, ConcatAdjacentSubSeq, Zenon
  <2> QED
    BY <2>2, SubSeqFull, Zenon
<1>. QED
  BY <1>2, <1>3, <1>4


(***************************************************************************)
(* The same for the provers: what joining is, and what a stream is, is not *)
(* looked into, so that only the laws below are used.                      *)
(***************************************************************************)
\* Streams of bytes; the laws of joining them are stated for Then, so that the
\* provers need not look into sequences.
Streams == Seq(Nat)
\* One stream and another behind it.
Then(x, y) == x \o y

\* Joining two streams makes a stream.
LEMMA ThenIs ==
    ASSUME NEW x \in Streams, NEW y \in Streams
    PROVE  Then(x, y) \in Streams
BY JoinIs DEF Streams, Then

\* Its length is the sum of theirs.
LEMMA ThenLen ==
    ASSUME NEW x \in Streams, NEW y \in Streams
    PROVE  Len(Then(x, y)) = Len(x) + Len(y)
BY JoinIs DEF Streams, Then

\* A length is a number.
LEMMA LenIs == ASSUME NEW x \in Streams PROVE Len(x) \in Nat
BY LenProperties DEF Streams

\* How joins are bracketed does not matter.
LEMMA ThenJoins ==
    ASSUME NEW x \in Streams, NEW y \in Streams, NEW z \in Streams
    PROVE  Then(Then(x, y), z) = Then(x, Then(y, z))
BY Joins DEF Streams, Then

\* Joins that are equal, of first parts as long, have equal parts.
LEMMA ThenCancels ==
    ASSUME NEW x \in Streams, NEW y \in Streams, NEW u \in Streams, NEW v \in Streams,
           Then(x, y) = Then(u, v), Len(x) = Len(u)
    PROVE  x = u /\ y = v
BY Cancel DEF Streams, Then

\* Joining nothing changes nothing, and only nothing is of length 0.
LEMMA ThenNothing ==
    ASSUME NEW x \in Streams
    PROVE  /\ <<>> \in Streams /\ Len(<<>>) = 0
           /\ Then(x, <<>>) = x /\ Then(<<>>, x) = x
           /\ Len(x) \in Nat
           /\ Len(x) = 0 => x = <<>>
BY EmptySeq, ConcatEmptySeq DEF Streams, Then

\* A stream cut in two and joined is itself.
LEMMA ThenCuts ==
    ASSUME NEW d \in Streams, NEW k \in 0..Len(d)
    PROVE  /\ SubSeq(d, 1, k) \in Streams /\ Len(SubSeq(d, 1, k)) = k
           /\ SubSeq(d, k + 1, Len(d)) \in Streams
           /\ Len(SubSeq(d, k + 1, Len(d))) = Len(d) - k
           /\ Then(SubSeq(d, 1, k), SubSeq(d, k + 1, Len(d))) = d
BY Halves DEF Streams, Then

\* What two streams begin with alike is as long as either allows: of the data d
\* and what comes behind, the first k bytes are the first k of the part r.
FrontOf(d, s, r, l, k) ==
    \E x \in Streams, y \in Streams, q \in Streams :
        /\ SubSeq(d, 1, k) = x /\ SubSeq(d, k + 1, Len(d)) = y /\ Len(x) = k
        /\ r = Then(x, q) /\ Then(y, s) = Then(q, l) /\ Len(q) = Len(r) - k

\* It holds of every two ways to cut a stream.
LEMMA FrontIs ==
    ASSUME NEW d \in Streams, NEW s \in Streams, NEW r \in Streams, NEW l \in Streams,
           Then(d, s) = Then(r, l), NEW k \in 0..Len(d), k <= Len(r)
    PROVE  FrontOf(d, s, r, l, k)
<1>1. PICK x \in Streams, y \in Streams :
         /\ x = SubSeq(d, 1, k) /\ y = SubSeq(d, k + 1, Len(d))
         /\ Len(x) = k /\ Then(x, y) = d
  BY ThenCuts
<1>2. k \in 0..Len(r)
  <2>1. Len(r) \in Nat /\ Len(d) \in Nat
    BY LenIs
  <2>. QED
    BY <2>1
<1>3. PICK u \in Streams, q \in Streams :
         Len(u) = k /\ Then(u, q) = r /\ Len(q) = Len(r) - k
  BY <1>2, ThenCuts
<1>. x \in Streams /\ y \in Streams /\ u \in Streams /\ q \in Streams
  BY <1>1, <1>3
<1>4. Then(x, Then(y, s)) = Then(u, Then(q, l))
  BY <1>1, <1>3, ThenJoins
<1>5. Then(y, s) \in Streams /\ Then(q, l) \in Streams
  BY <1>1, <1>3, ThenIs
<1>6. x = u /\ Then(y, s) = Then(q, l)
  <2>1. Len(x) = Len(u)
    BY <1>1, <1>3
  <2>. QED
    BY <1>4, <1>5, <2>1, ThenCancels
<1>. QED
  BY <1>1, <1>3, <1>6 DEF FrontOf

\* The loops that fill a buffer.  Buffer and rest r make the part f and what is
\* behind it: either the part is there, or what was taken of it and a rest.
Took(t, had, s, r, l, f, a) ==
    /\ t.buf \in Streams /\ t.d \in Streams /\ t.n \in Nat
    /\ Len(t.buf) = Len(had) + t.n /\ Len(t.buf) <= Len(f)
    /\ Len(t.buf) = Len(f) => t.buf = f /\ Then(t.d, s) = Then(a, l)
    /\ \E q \in Streams : /\ Then(t.buf, q) = Then(f, a) /\ Then(t.d, s) = Then(q, l)
                          /\ Len(q) = Len(r) - t.n

\* The loop that fills a buffer takes what there is, and no more than it needs.
LEMMA TakeIs ==
    ASSUME NEW had \in Streams, NEW d \in Streams, NEW s \in Streams, NEW r \in Streams,
           NEW l \in Streams, NEW f \in Streams, NEW a \in Streams,
           Then(d, s) = Then(r, l), Then(had, r) = Then(f, a), Len(had) <= Len(f)
    PROVE  Took(Take(had, Len(f), d), had, s, r, l, f, a)
<1> DEFINE n == Len(f)
<1>0. PICK t : t = Take(had, n, d)
  OBVIOUS
<1>1. /\ Len(had) \in Nat /\ Len(d) \in Nat /\ n \in Nat /\ Len(r) \in Nat /\ Len(a) \in Nat
      /\ Len(had) + Len(r) = n + Len(a)
  <2>1. /\ Len(had) \in Nat /\ Len(d) \in Nat /\ n \in Nat /\ Len(r) \in Nat /\ Len(a) \in Nat
    BY LenIs
  <2>2. Len(Then(had, r)) = Len(had) + Len(r)
    BY ThenLen
  <2>3. Len(Then(f, a)) = n + Len(a)
    BY ThenLen
  <2>. QED
    BY <2>1, <2>2, <2>3
<1>2. PICK k \in 0..Len(d) :
         /\ k <= Len(r) /\ k <= n - Len(had)
         /\ t.buf = had \o SubSeq(d, 1, k) /\ t.d = SubSeq(d, k + 1, Len(d)) /\ t.n = k
  <2> DEFINE k == IF n - Len(had) < Len(d) THEN n - Len(had) ELSE Len(d)
  <2>1. k \in 0..Len(d) /\ k <= Len(r) /\ k <= n - Len(had)
    BY <1>1
  <2>2. /\ t.buf = had \o SubSeq(d, 1, k) /\ t.d = SubSeq(d, k + 1, Len(d)) /\ t.n = k
    BY <1>0 DEF Take
  <2>. HIDE DEF k
  <2>. QED
    BY <2>1, <2>2
<1>3. PICK x \in Streams, y \in Streams, q \in Streams :
         /\ SubSeq(d, 1, k) = x /\ SubSeq(d, k + 1, Len(d)) = y /\ Len(x) = k
         /\ r = Then(x, q) /\ Then(y, s) = Then(q, l) /\ Len(q) = Len(r) - k
  <2>1. k <= Len(r) /\ k \in 0..Len(d)
    BY <1>2
  <2>2. FrontOf(d, s, r, l, k)
    BY <2>1, FrontIs
  <2>. QED
    BY <2>2 DEF FrontOf
<1>4. t.buf = Then(had, x) /\ t.d = y /\ t.n = k
  BY <1>2, <1>3 DEF Then
<1>5. /\ x \in Streams /\ y \in Streams /\ q \in Streams /\ Len(x) = k
      /\ r = Then(x, q) /\ Then(y, s) = Then(q, l) /\ Len(q) = Len(r) - k
  BY <1>3
<1>6. Then(had, x) \in Streams /\ Len(Then(had, x)) = Len(had) + k
  BY <1>5, ThenIs, ThenLen
<1>7. Then(Then(had, x), q) = Then(f, a)
  BY <1>5, ThenJoins
<1>8. Len(Then(had, x)) = n => Then(had, x) = f /\ q = a
  BY <1>5, <1>6, <1>7, ThenCancels
<1>9. Len(had) + k <= n /\ k \in Nat
  BY <1>1, <1>2
<1>10. /\ t.buf \in Streams /\ t.d \in Streams /\ t.n \in Nat
       /\ Len(t.buf) = Len(had) + t.n /\ Len(t.buf) <= n
  BY <1>4, <1>5, <1>6, <1>9
<1>11. Len(t.buf) = n => t.buf = f /\ Then(t.d, s) = Then(a, l)
  BY <1>4, <1>5, <1>8
<1>12. /\ Then(t.buf, q) = Then(f, a) /\ Then(t.d, s) = Then(q, l)
       /\ Len(q) = Len(r) - t.n
  BY <1>4, <1>5, <1>7
<1>13. Took(t, had, s, r, l, f, a)
  BY <1>5, <1>10, <1>11, <1>12 DEF Took
<1>. QED
  BY <1>0, <1>13

\* One byte.
LEMMA HeadIs ==
    ASSUME NEW d \in Streams, NEW s \in Streams, NEW r \in Streams, NEW l \in Streams,
           Then(d, s) = Then(r, l), d # <<>>, r # <<>>
    PROVE  /\ Head(d) \in Nat /\ Tail(d) \in Streams
           /\ \E q \in Streams : /\ r = Then(<<Head(d)>>, q) /\ Then(Tail(d), s) = Then(q, l)
                                 /\ Len(q) = Len(r) - 1
<1>1. Len(d) \in Nat \ {0} /\ Len(r) \in Nat \ {0}
  <2>1. d \in Seq(Nat) /\ r \in Seq(Nat)
    BY DEF Streams
  <2>. QED
    BY <2>1, EmptySeq
<1>2. FrontOf(d, s, r, l, 1)
  <2>1. 1 \in 0..Len(d) /\ 1 <= Len(r)
    BY <1>1
  <2>. QED
    BY <2>1, FrontIs
<1>3. PICK x \in Streams, y \in Streams, q \in Streams :
        /\ SubSeq(d, 1, 1) = x /\ SubSeq(d, 1 + 1, Len(d)) = y
        /\ r = Then(x, q) /\ Then(y, s) = Then(q, l) /\ Len(q) = Len(r) - 1
  BY <1>2 DEF FrontOf
<1>4. Head(d) \in Nat /\ Tail(d) \in Streams /\ Tail(d) = SubSeq(d, 2, Len(d))
  <2>1. d \in Seq(Nat)
    BY DEF Streams
  <2>2. Head(d) \in Nat /\ Tail(d) \in Seq(Nat)
    BY <2>1, HeadTailProperties
  <2>3. Tail(d) = SubSeq(d, 2, Len(d))
    BY <2>1, TailIsSubSeq
  <2>. QED
    BY <2>2, <2>3 DEF Streams
<1>5. SubSeq(d, 1, 1) = <<Head(d)>>
  <2>1. d \in Seq(Nat) /\ d[1] \in Nat
    BY <1>1, ElementOfSeq DEF Streams
  <2>2. SubSeq(d, 1, 1) \in Seq(Nat) /\ Len(SubSeq(d, 1, 1)) = 1 /\ SubSeq(d, 1, 1)[1] = d[1]
    BY <2>1, SubSeqProperties
  <2> DEFINE z == SubSeq(d, 1, 1)
  <2>3. z \in Seq(Nat) /\ Len(z) = 1 /\ z[1] = d[1]
    BY <2>2
  <2>. HIDE DEF z
  <2>4. z = <<d[1]>>
    BY <2>3
  <2>5. Head(d) = d[1]
    BY <1>1, <2>1
  <2>. QED
    BY <2>4, <2>5 DEF z
<1>6. x = <<Head(d)>> /\ y = Tail(d)
  BY <1>3, <1>4, <1>5
<1>7. q \in Streams
  BY <1>3
<1>. QED
  BY <1>3, <1>4, <1>6, <1>7

-----------------------------------------------------------------------------
(***************************************************************************)
(* The length in the header.                                               *)
(***************************************************************************)

\* Two quotients are the quotient by the product, and a number is its quotient and
\* remainder.
LEMMA Parted ==
    ASSUME NEW n \in Nat, NEW b \in Nat \ {0}
    PROVE  /\ n \div b \in Nat /\ n % b \in Nat /\ n % b < b
           /\ n = b * (n \div b) + (n % b)
BY SMTT(30)

\* Below a power, the quotient is below the next lower one.
LEMMA Lower ==
    ASSUME NEW n \in Nat, NEW b \in Nat \ {0}, NEW c \in Nat, n < b * c
    PROVE  n \div b < c
<1>1. n \div b \in Nat /\ n % b \in Nat /\ n = b * (n \div b) + (n % b)
  BY Parted
<1>2. SUFFICES ASSUME n \div b >= c PROVE FALSE
  BY <1>1
<1> DEFINE q == n \div b
<1>3. q \in Nat /\ q >= c /\ b * q <= n
  BY <1>1, <1>2
<1>. HIDE DEF q
<1>4. b * q >= b * c
  BY <1>3, SMTT(30)
<1>5. b * c \in Nat /\ b * q \in Nat
  BY <1>3
<1>. QED
  BY <1>3, <1>4, <1>5

\* The mark of a digit does not count.
LEMMA Unmarked ==
    ASSUME NEW x \in Nat, NEW b \in Nat \ {0}, x < b
    PROVE  (x + b) % b = x /\ (x + 0) % b = x
BY SMTT(30)

\* The places of a length are what CodecAssumption makes of LenBase.
LEMMA PowersAre ==
    /\ LenBase \in Nat \ {0}
    /\ LenPow[1] = LenBase /\ LenPow[2] = LenBase * LenBase
    /\ LenPow[3] = LenBase * (LenBase * LenBase)
    /\ LenPow[4] = LenBase * (LenBase * (LenBase * LenBase))
    /\ \A j \in 1..4 : LenPow[j] \in Nat
<1>1. LenBase \in Nat \ {0}
  BY CodecAssumption
<1>2. /\ LenPow[1] = LenBase /\ LenPow[2] = LenBase * LenBase
      /\ LenPow[3] = LenBase * LenBase * LenBase
      /\ LenPow[4] = LenBase * LenBase * LenBase * LenBase
  BY DEF LenPow
<1>3. \A b \in Nat : /\ b * b \in Nat /\ b * b * b \in Nat /\ b * b * b * b \in Nat
                     /\ b * b * b = b * (b * b) /\ b * b * b * b = b * (b * (b * b))
  BY SMTT(30)
<1>4. \A j \in 1..4 : LenPow[j] \in Nat
  BY <1>1, <1>2, <1>3
<1>. QED
  BY <1>1, <1>2, <1>3, <1>4

\* The digits of a length: how many, which are marked, and what they are.
LEMMA LenBytesAre ==
    ASSUME NEW n \in Nat, NEW k \in 1..4
    PROVE  /\ LenBytes(n, k) \in Streams /\ Len(LenBytes(n, k)) = k
           /\ \A i \in 1..k : /\ Down(n, i - 1) \in Nat
                              /\ LenBytes(n, k)[i] % LenBase = Down(n, i - 1) % LenBase
                              /\ LenBytes(n, k)[i] \in Nat
                              /\ LenBytes(n, k)[i] < LenBase <=> i = k
<1> DEFINE f == LenBytes(n, k)
<1>1. LenBase \in Nat \ {0}
  BY PowersAre
<1>2. \A m \in Nat : /\ m \div LenBase \in Nat /\ m % LenBase \in Nat /\ m % LenBase < LenBase
  BY <1>1, Parted
<1>3. ASSUME NEW i \in 0..3 PROVE Down(n, i) \in Nat
  BY <1>2, <1>3 DEF Down
<1>4. ASSUME NEW i \in 1..k PROVE Down(n, i - 1) \in Nat
  BY <1>3
<1>5. f = [i \in 1..k |-> (Down(n, i - 1) % LenBase) + (IF i < k THEN LenBase ELSE 0)]
  BY DEF LenBytes
<1>6. ASSUME NEW i \in 1..k
      PROVE  /\ f[i] % LenBase = Down(n, i - 1) % LenBase
             /\ f[i] \in Nat /\ (f[i] < LenBase <=> i = k)
  <2> DEFINE x == Down(n, i - 1) % LenBase
  <2>1. x \in Nat /\ x < LenBase
    BY <1>2, <1>4
  <2>2. f[i] = x + (IF i < k THEN LenBase ELSE 0)
    BY <1>5
  <2>. HIDE DEF x, f
  <2>3. (x + LenBase) % LenBase = x /\ (x + 0) % LenBase = x
    BY <1>1, <2>1, Unmarked
  <2>4. f[i] % LenBase = x /\ f[i] \in Nat /\ (f[i] < LenBase <=> i = k)
    <3>1. CASE i < k
      BY <1>1, <2>1, <2>2, <2>3, <3>1
    <3>2. CASE i = k
      BY <1>1, <2>1, <2>2, <2>3, <3>2
    <3>. QED
      BY <3>1, <3>2
  <2>. QED
    BY <2>4 DEF x
<1>7. f \in Streams /\ Len(f) = k
  <2>1. f = [i \in 1..k |-> f[i]]
    BY <1>5
  <2>2. \A i \in 1..k : f[i] \in Nat
    BY <1>6
  <2>. HIDE DEF f
  <2>3. f \in [1..k -> Nat]
    BY <2>1, <2>2
  <2>. QED
    BY <2>3 DEF Streams
<1>. QED
  BY <1>4, <1>6, <1>7

\* The digits of a length amount to it.
LEMMA DigitsBack ==
    ASSUME NEW n \in Nat, NEW k \in 1..4, n < LenPow[k]
    PROVE  Digits(LenBytes(n, k)) = n
<1> DEFINE B == LenBase
           n1 == n \div B
           n2 == n1 \div B
           n3 == n2 \div B
           at(i) == IF i <= k THEN LenBytes(n, k)[i] % B ELSE 0
<1>1. B \in Nat \ {0}
  BY PowersAre
<1>2. n1 \in Nat /\ n2 \in Nat /\ n3 \in Nat
  BY <1>1, Parted
<1>3. /\ n = B * n1 + (n % B) /\ n1 = B * n2 + (n1 % B) /\ n2 = B * n3 + (n2 % B)
      /\ n % B \in Nat /\ n1 % B \in Nat /\ n2 % B \in Nat /\ n3 % B \in Nat
  BY <1>1, <1>2, Parted
<1>4. Digits(LenBytes(n, k)) = at(1) + B * (at(2) + B * (at(3) + B * at(4)))
  BY LenBytesAre DEF Digits
<1>5. /\ at(1) = n % B
      /\ k >= 2 => at(2) = n1 % B
      /\ k >= 3 => at(3) = n2 % B
      /\ k >= 4 => at(4) = n3 % B
      /\ k < 2 => at(2) = 0
      /\ k < 3 => at(3) = 0
      /\ k < 4 => at(4) = 0
  <2>1. \A i \in 1..k : LenBytes(n, k)[i] % LenBase = Down(n, i - 1) % LenBase
    BY LenBytesAre
  <2>2. /\ Down(n, 0) = n /\ Down(n, 1) = n1 /\ Down(n, 2) = n2 /\ Down(n, 3) = n3
    BY DEF Down
  <2>. QED
    BY <2>1, <2>2
<1>6. B * B \in Nat /\ B * (B * B) \in Nat
  BY <1>1
<1>7. /\ k = 1 => n < B
      /\ k = 2 => n1 < B
      /\ k = 3 => n2 < B
      /\ k = 4 => n3 < B
  <2>1. k = 1 => n < B
    BY PowersAre
  <2>2. k = 2 => n1 < B
    BY <1>1, Lower, PowersAre
  <2>3. k = 3 => n2 < B
    <3>1. k = 3 => n1 < B * B
      BY <1>1, <1>6, Lower, PowersAre
    <3>. HIDE DEF n1
    <3>. QED
      BY <1>1, <1>2, <3>1, Lower
  <2>4. k = 4 => n3 < B
    <3>1. k = 4 => n1 < B * (B * B)
      BY <1>1, <1>6, Lower, PowersAre
    <3>2. k = 4 => n2 < B * B
      <4>. HIDE DEF n1
      <4>. QED
        BY <1>1, <1>2, <1>6, <3>1, Lower
    <3>. HIDE DEF n2
    <3>. QED
      BY <1>1, <1>2, <3>2, Lower
  <2>. QED
    BY <2>1, <2>2, <2>3, <2>4
<1>. HIDE DEF B, n1, n2, n3, at
<1>8. /\ k = 1 => n % B = n
      /\ k = 2 => n1 % B = n1
      /\ k = 3 => n2 % B = n2
      /\ k = 4 => n3 % B = n3
  BY <1>1, <1>2, <1>7, SmallMod
<1>9. CASE k = 1
  BY <1>1, <1>2, <1>4, <1>5, <1>8, <1>9
<1>10. CASE k = 2
  <2>1. at(4) = 0 /\ at(3) = 0 /\ at(2) = n1 /\ at(1) = n % B
    BY <1>5, <1>8, <1>10
  <2>2. at(3) + B * at(4) = 0
    BY <1>1, <2>1
  <2>3. at(2) + B * (at(3) + B * at(4)) = n1
    BY <1>1, <1>2, <2>1, <2>2
  <2>. QED
    BY <1>1, <1>2, <1>3, <1>4, <2>1, <2>3
<1>11. CASE k = 3
  <2>1. at(4) = 0 /\ at(3) = n2 /\ at(2) = n1 % B /\ at(1) = n % B
    BY <1>5, <1>8, <1>3, <1>11
  <2>2. at(3) + B * at(4) = n2
    BY <1>1, <1>2, <2>1
  <2>3. at(2) + B * (at(3) + B * at(4)) = n1
    BY <1>1, <1>2, <1>3, <2>1, <2>2
  <2>. QED
    BY <1>1, <1>2, <1>3, <1>4, <2>1, <2>3
<1>12. CASE k = 4
  <2>1. at(4) = n3 /\ at(3) = n2 % B /\ at(2) = n1 % B /\ at(1) = n % B
    BY <1>5, <1>8, <1>3, <1>12
  <2>2. at(3) + B * at(4) = n2
    BY <1>1, <1>2, <1>3, <2>1
  <2>3. at(2) + B * (at(3) + B * at(4)) = n1
    BY <1>1, <1>2, <1>3, <2>1, <2>2
  <2>. QED
    BY <1>1, <1>2, <1>3, <1>4, <2>1, <2>3
<1>. QED
  BY <1>9, <1>10, <1>11, <1>12

\* What build_header makes.
LEMMA HeaderIs ==
    ASSUME NEW t, NEW f, NEW n \in Nat, n < LenPow[4]
    PROVE  \E k \in 1..4 : n < LenPow[k] /\ Header(t, f, n) = <<16 * t + f>> \o LenBytes(n, k)
<1> DEFINE P(k) == n < LenPow[k] /\ \A j \in 1..(k - 1) : n >= LenPow[j]
           c == CHOOSE k \in 1..4 : P(k)
<1>1. \E k \in 1..4 : P(k)
  <2>1. CASE n < LenPow[1]
    <3>1. P(1)
      BY <2>1
    <3>. QED
      BY <3>1
  <2>2. CASE ~(n < LenPow[1]) /\ n < LenPow[2]
    <3>1. \A j \in 1..(2 - 1) : j = 1
      OBVIOUS
    <3>2. P(2)
      BY <2>2, <3>1, PowersAre
    <3>. QED
      BY <3>2
  <2>3. CASE ~(n < LenPow[1]) /\ ~(n < LenPow[2]) /\ n < LenPow[3]
    <3>1. \A j \in 1..(3 - 1) : j = 1 \/ j = 2
      OBVIOUS
    <3>2. P(3)
      BY <2>3, <3>1, PowersAre
    <3>. QED
      BY <3>2
  <2>4. CASE ~(n < LenPow[1]) /\ ~(n < LenPow[2]) /\ ~(n < LenPow[3])
    <3>1. \A j \in 1..(4 - 1) : j = 1 \/ j = 2 \/ j = 3
      OBVIOUS
    <3>2. P(4)
      BY <2>4, <3>1, PowersAre
    <3>. QED
      BY <3>2
  <2>. QED
    BY <2>1, <2>2, <2>3, <2>4
<1>2. c \in 1..4 /\ P(c)
  BY <1>1, Zenon
<1>3. Header(t, f, n) = <<16 * t + f>> \o LenBytes(n, c)
  BY Zenon DEF Header
<1>. HIDE DEF c
<1>. QED
  BY <1>2, <1>3

-----------------------------------------------------------------------------
(***************************************************************************)
(* What is still to come of a message, given how far its object is.        *)
(***************************************************************************)

\* pack_add and unpack_short are inverse on what fits two bytes.
LEMMA ShortIs ==
    ASSUME NEW n \in Nat
    PROVE  /\ Short(n) \in Streams /\ Len(Short(n)) = 2
           /\ n < 65536 => UnpackShort(Short(n)) = n
<1> DEFINE h == (n \div 256) % 256
           t == n % 256
<1>1. h \in Nat /\ t \in Nat
  BY Parted
<1>2. n < 65536 => 256 * h + t = n
  BY SMTT(30)
<1>3. Short(n) = <<h, t>>
  BY DEF Short
<1>. HIDE DEF h, t
<1>4. <<h, t>> \in Seq(Nat) /\ Len(<<h, t>>) = 2 /\ <<h, t>>[1] = h /\ <<h, t>>[2] = t
  BY <1>1
<1>. QED
  BY <1>2, <1>3, <1>4 DEF Streams, UnpackShort

\* The record of NewObject.
IsObject(p) ==
    p = [m |-> p.m, st |-> p.st, buf |-> p.buf, need |-> p.need, acc |-> p.acc,
         nread |-> p.nread, body |-> p.body, head |-> p.head, done |-> p.done]

\* Buffer and rest make the part f and what follows it.
Filling(p, f, r, a) ==
    p.buf \in Streams /\ Len(p.buf) <= Len(f) /\ Then(p.buf, r) = Then(f, a)

\* A part of fixed length is there, or more of it than before.
Fills(x, p, f, s, l, a) ==
    /\ x.err = FALSE /\ x.d \in Streams
    /\ x.p = [p EXCEPT !.buf = x.p.buf]
    /\ x.whole => x.p.buf = f /\ Then(x.d, s) = Then(a, l)
    /\ \E q \in Streams : Filling(x.p, f, q, a) /\ Then(x.d, s) = Then(q, l)

\* Fixed fills its buffer.
LEMMA FixedFills ==
    ASSUME NEW d \in Streams, NEW s \in Streams, NEW r \in Streams, NEW l \in Streams,
           NEW f \in Streams, NEW a \in Streams, NEW p, NEW n,
           IsObject(p), n = Len(f), Filling(p, f, r, a), Then(d, s) = Then(r, l)
    PROVE  Fills(Fixed(p, d, n), p, f, s, l, a)
<1>1. PICK t : t = Take(p.buf, n, d)
  OBVIOUS
<1>2. Took(t, p.buf, s, r, l, f, a)
  <2>1. Took(Take(p.buf, Len(f), d), p.buf, s, r, l, f, a)
    BY TakeIs DEF Filling
  <2>. QED
    BY <1>1, <2>1
<1>3. PICK x : x = Fixed(p, d, n)
  OBVIOUS
<1>4. /\ x.err = FALSE /\ x.d = t.d /\ x.p = [p EXCEPT !.buf = t.buf]
      /\ x.whole <=> Len(t.buf) = n
  BY <1>1, <1>3 DEF Fixed
<1>5. x.p.buf = t.buf
  BY <1>4 DEF IsObject
<1>6. PICK q \in Streams : Then(t.buf, q) = Then(f, a) /\ Then(t.d, s) = Then(q, l)
  BY <1>2 DEF Took
<1>7. Filling(x.p, f, q, a) /\ Then(x.d, s) = Then(q, l)
  BY <1>2, <1>4, <1>5, <1>6 DEF Took, Filling
<1>8. x.whole => x.p.buf = f /\ Then(x.d, s) = Then(a, l)
  BY <1>2, <1>4, <1>5 DEF Took
<1>9. x.d \in Streams
  BY <1>2, <1>4 DEF Took
<1>10. Fills(x, p, f, s, l, a)
  BY <1>4, <1>5, <1>6, <1>7, <1>8, <1>9 DEF Fills
<1>. QED
  BY <1>3, <1>10

\* What the loop that reads a length does, given what it took.
Lengthened(x, p, t) ==
    /\ x.err = FALSE /\ x.d = t.d
    /\ x.whole <=> Len(t.buf) = 2
    /\ Len(t.buf) = 2 => x.p = [p EXCEPT !.buf = <<>>, !.need = UnpackShort(t.buf),
                                         !.nread = p.nread + t.n]
    /\ Len(t.buf) # 2 => x.p = [p EXCEPT !.buf = t.buf, !.nread = p.nread + t.n]

\* Length is what the loop took, split into its fields.
LEMMA LengthDef ==
    ASSUME NEW p, NEW d, IsObject(p)
    PROVE  Lengthened(Length(p, d), p, Take(p.buf, 2, d))
<1>0. PICK t : t = Take(p.buf, 2, d)
  OBVIOUS
<1> DEFINE w == [p EXCEPT !.buf = t.buf, !.nread = p.nread + t.n]
<1>1. Length(p, d) = [p |-> IF Len(t.buf) = 2
                   THEN [w EXCEPT !.buf = <<>>, !.need = UnpackShort(t.buf)] ELSE w,
             d |-> t.d, err |-> FALSE, whole |-> Len(t.buf) = 2]
  BY <1>0 DEF Length
<1>2. [w EXCEPT !.buf = <<>>, !.need = UnpackShort(t.buf)] = [p EXCEPT !.buf = <<>>, !.need = UnpackShort(t.buf), !.nread = p.nread + t.n]
  BY DEF IsObject
<1>. HIDE DEF w
<1>3. /\ Length(p, d).err = FALSE /\ Length(p, d).d = t.d
      /\ Length(p, d).whole <=> Len(t.buf) = 2
      /\ Length(p, d).p = IF Len(t.buf) = 2
                   THEN [w EXCEPT !.buf = <<>>, !.need = UnpackShort(t.buf)] ELSE w
  <2> DEFINE z == IF Len(t.buf) = 2 THEN [w EXCEPT !.buf = <<>>, !.need = UnpackShort(t.buf)] ELSE w
             b == (Len(t.buf) = 2)
             x == Length(p, d)
  <2>1. x = [p |-> z, d |-> t.d, err |-> FALSE, whole |-> b]
    BY <1>1
  <2>. HIDE DEF z, b, x
  <2>2. x.err = FALSE /\ x.d = t.d /\ x.p = z
    BY <2>1
  <2>3. x.whole = b
    BY <2>1
  <2>. QED
    BY <2>2, <2>3 DEF x, z, b
<1>4. Lengthened(Length(p, d), p, t)
  BY <1>1, <1>2, <1>3 DEF w, Lengthened
<1>. QED
  BY <1>0, <1>4

\* A length is there, or more of it than before; what was read is counted.
FillsLength(x, p, k, f, r, s, l, a) ==
    /\ x.err = FALSE /\ x.d \in Streams
    /\ x.whole => /\ x.p = [p EXCEPT !.buf = <<>>, !.need = k,
                                     !.nread = p.nread + (Len(r) - Len(a))]
                  /\ Then(x.d, s) = Then(a, l)
    /\ ~x.whole => \E q \in Streams :
                      /\ x.p = [p EXCEPT !.buf = x.p.buf,
                                         !.nread = p.nread + (Len(r) - Len(q))]
                      /\ Filling(x.p, f, q, a) /\ Then(x.d, s) = Then(q, l)

\* Length fills its buffer and turns the two bytes into what is needed.
LEMMA LengthFills ==
    ASSUME NEW d \in Streams, NEW s \in Streams, NEW r \in Streams, NEW l \in Streams,
           NEW f \in Streams, NEW a \in Streams, NEW k, NEW p,
           IsObject(p), Len(f) = 2, UnpackShort(f) = k, Filling(p, f, r, a),
           Then(d, s) = Then(r, l)
    PROVE  FillsLength(Length(p, d), p, k, f, r, s, l, a)
<1>1. PICK t : t = Take(p.buf, 2, d)
  OBVIOUS
<1>2. PICK b \in Streams : b = p.buf /\ Len(b) <= Len(f) /\ Then(b, r) = Then(f, a)
  BY DEF Filling
<1>3. Took(t, b, s, r, l, f, a)
  <2>1. Took(Take(b, Len(f), d), b, s, r, l, f, a)
    BY <1>2, TakeIs
  <2>. QED
    BY <1>1, <1>2, <2>1
<1>4. PICK x : x = Length(p, d)
  OBVIOUS
<1>5. Lengthened(x, p, t)
  BY <1>1, <1>4, LengthDef
<1>6. /\ x.err = FALSE /\ x.d = t.d
      /\ x.whole <=> Len(t.buf) = Len(f)
      /\ Len(t.buf) = Len(f) => x.p = [p EXCEPT !.buf = <<>>, !.need = k,
                                                !.nread = p.nread + t.n]
      /\ Len(t.buf) # Len(f) => x.p = [p EXCEPT !.buf = t.buf, !.nread = p.nread + t.n]
  <2>1. Len(t.buf) = Len(f) => t.buf = f
    BY <1>3 DEF Took
  <2>. QED
    BY <1>5, <2>1 DEF Lengthened
<1>7. /\ Len(b) \in Nat /\ Len(r) \in Nat /\ Len(a) \in Nat /\ Len(f) \in Nat
      /\ Len(b) + Len(r) = Len(f) + Len(a)
  <2>1. Len(b) \in Nat /\ Len(r) \in Nat /\ Len(a) \in Nat /\ Len(f) \in Nat
    BY LenIs
  <2>2. Len(Then(b, r)) = Len(b) + Len(r) /\ Len(Then(f, a)) = Len(f) + Len(a)
    BY ThenLen
  <2>. QED
    BY <1>2, <2>1, <2>2
<1>8. /\ t.buf \in Streams /\ t.n \in Nat /\ t.d \in Streams /\ Len(t.buf) = Len(b) + t.n
      /\ Len(t.buf) <= Len(f)
      /\ Len(t.buf) = Len(f) => t.buf = f /\ Then(t.d, s) = Then(a, l)
  BY <1>3 DEF Took
<1>9. CASE Len(t.buf) = Len(f)
  <2>1. t.n = Len(r) - Len(a)
    <3>1. t.n \in Nat /\ Len(f) = Len(b) + t.n
      BY <1>8, <1>9
    <3> DEFINE B == Len(b)
               R == Len(r)
               A == Len(a)
               F == Len(f)
    <3>2. B \in Nat /\ R \in Nat /\ A \in Nat /\ B + R = F + A /\ F = B + t.n
      BY <1>7, <3>1
    <3>. HIDE DEF B, R, A, F
    <3>3. t.n = R - A
      BY <3>1, <3>2
    <3>. QED
      BY <3>3 DEF R, A
  <2>2. x.p = [p EXCEPT !.buf = <<>>, !.need = k, !.nread = p.nread + (Len(r) - Len(a))]
    BY <1>6, <1>9, <2>1
  <2>3. FillsLength(x, p, k, f, r, s, l, a)
    BY <1>6, <1>8, <1>9, <2>2 DEF FillsLength
  <2>. QED
    BY <1>4, <2>3
<1>10. CASE Len(t.buf) # Len(f)
  <2>1. PICK q \in Streams : /\ Then(t.buf, q) = Then(f, a) /\ Then(t.d, s) = Then(q, l)
                             /\ Len(q) = Len(r) - t.n
    BY <1>3 DEF Took
  <2>2. t.n = Len(r) - Len(q)
    BY <1>7, <1>8, <2>1, LenIs
  <2>3. x.p.buf = t.buf
    BY <1>6, <1>10 DEF IsObject
  <2>4. x.p = [p EXCEPT !.buf = x.p.buf, !.nread = p.nread + (Len(r) - Len(q))]
    BY <1>6, <1>10, <2>2, <2>3
  <2>5. Filling(x.p, f, q, a)
    BY <1>8, <2>1, <2>3 DEF Filling
  <2>6. FillsLength(x, p, k, f, r, s, l, a)
    BY <1>6, <1>8, <1>10, <2>1, <2>4, <2>5 DEF FillsLength
  <2>. QED
    BY <1>4, <2>6
<1>. QED
  BY <1>9, <1>10

\* What remains of a part when something of it is there.
LEMMA Remains ==
    ASSUME NEW b \in Streams, NEW r \in Streams, NEW f \in Streams, NEW a \in Streams,
           Then(b, r) = Then(f, a), Len(b) <= Len(f)
    PROVE  \E v \in Streams : f = Then(b, v) /\ r = Then(v, a) /\ Len(v) = Len(f) - Len(b)
<1>1. Len(b) \in Nat /\ Len(f) \in Nat
  BY LenIs
<1>2. Len(b) \in 0..Len(b)
  BY <1>1
<1>3. FrontOf(b, r, f, a, Len(b))
  BY <1>2, FrontIs
<1>4. PICK x \in Streams, y \in Streams, q \in Streams :
        /\ SubSeq(b, 1, Len(b)) = x /\ SubSeq(b, Len(b) + 1, Len(b)) = y
        /\ f = Then(x, q) /\ Then(y, r) = Then(q, a) /\ Len(q) = Len(f) - Len(b)
  BY <1>3 DEF FrontOf
<1>5. x = b
  BY <1>4, SubSeqFull DEF Streams
<1>6. y = <<>>
  BY <1>1, <1>2, <1>4, ThenCuts, ThenNothing
<1>7. Then(y, r) = r
  BY <1>6, ThenNothing
<1>. QED
  BY <1>4, <1>5, <1>7

\* A text w is read up to what is still needed of it.
Reading(p, w, r, a) ==
    /\ p.acc \in Streams /\ p.need \in Nat
    /\ \E v \in Streams : w = Then(p.acc, v) /\ r = Then(v, a) /\ p.need = Len(v)

\* The text is there, or more of it than before.
Reads(x, p, w, s, l, a) ==
    /\ x.err = FALSE /\ x.d \in Streams
    /\ x.p = [p EXCEPT !.need = x.p.need, !.acc = x.p.acc]
    /\ x.whole => x.p.acc = w /\ x.p.need = 0 /\ Then(x.d, s) = Then(a, l)
    /\ ~x.whole => \E q \in Streams : /\ Reading(x.p, w, q, a) /\ Then(x.d, s) = Then(q, l)
                                      /\ x.p.need > 0

\* Value reads the text.
LEMMA ValueReads ==
    ASSUME NEW d \in Streams, NEW s \in Streams, NEW r \in Streams, NEW l \in Streams,
           NEW w \in Streams, NEW a \in Streams, NEW p,
           IsObject(p), Reading(p, w, r, a), Then(d, s) = Then(r, l)
    PROVE  Reads(Value(p, d), p, w, s, l, a)
<1>1. PICK t : t = Take(<<>>, p.need, d)
  OBVIOUS
<1>2. PICK v \in Streams : w = Then(p.acc, v) /\ r = Then(v, a) /\ p.need = Len(v)
  BY DEF Reading
<1>3. p.acc \in Streams /\ p.need \in Nat
  BY DEF Reading
<1>4. <<>> \in Streams /\ Len(<<>>) = 0 /\ Then(<<>>, r) = r
  BY ThenNothing
<1>5. PICK e \in Streams : e = <<>> /\ Len(e) = 0 /\ Then(e, r) = Then(v, a)
  BY <1>2, <1>4
<1>6. Took(t, e, s, r, l, v, a)
  <2>1. v \in Streams /\ e \in Streams /\ Then(e, r) = Then(v, a) /\ Len(e) <= p.need /\ p.need = Len(v)
    BY <1>2, <1>3, <1>5
  <2>2. Took(Take(e, Len(v), d), e, s, r, l, v, a)
    BY <2>1, TakeIs
  <2>. QED
    BY <1>1, <1>2, <1>5, <2>2
<1>7. PICK x : x = Value(p, d)
  OBVIOUS
<1>8. /\ x.err = FALSE /\ x.d = t.d /\ (x.whole <=> p.need = t.n)
      /\ x.p = [p EXCEPT !.need = @ - t.n, !.acc = @ \o t.buf]
  BY <1>1, <1>7 DEF Value
<1>9. /\ t.buf \in Streams /\ t.d \in Streams /\ t.n \in Nat
      /\ Len(t.buf) = t.n /\ Len(t.buf) <= Len(v)
      /\ Len(t.buf) = Len(v) => t.buf = v /\ Then(t.d, s) = Then(a, l)
  <2>1. /\ t.buf \in Streams /\ t.d \in Streams /\ t.n \in Nat
        /\ Len(t.buf) = Len(e) + t.n /\ Len(t.buf) <= Len(v)
        /\ Len(t.buf) = Len(v) => t.buf = v /\ Then(t.d, s) = Then(a, l)
    BY <1>6 DEF Took
  <2>. QED
    BY <1>5, <2>1
<1>10. x.p.need = p.need - t.n /\ x.p.acc = Then(p.acc, t.buf)
  BY <1>8 DEF IsObject, Then
<1>11. x.p = [p EXCEPT !.need = x.p.need, !.acc = x.p.acc]
  BY <1>8 DEF IsObject
<1>12. x.whole => x.p.acc = w /\ x.p.need = 0 /\ Then(x.d, s) = Then(a, l)
  <2>1. ASSUME x.whole PROVE x.p.acc = w /\ x.p.need = 0 /\ Then(x.d, s) = Then(a, l)
    <3>1. p.need = t.n /\ Len(t.buf) = Len(v)
      BY <1>2, <1>8, <1>9, <2>1
    <3>2. t.buf = v /\ Then(t.d, s) = Then(a, l)
      BY <1>9, <3>1
    <3>. QED
      BY <1>2, <1>3, <1>8, <1>10, <3>1, <3>2
  <2>. QED
    BY <2>1
<1>13. ASSUME ~x.whole
       PROVE  \E q \in Streams : /\ Reading(x.p, w, q, a) /\ Then(x.d, s) = Then(q, l)
                                 /\ x.p.need > 0
  <2>1. PICK q \in Streams : Then(t.buf, q) = Then(v, a) /\ Then(t.d, s) = Then(q, l)
    BY <1>6 DEF Took
  <2>2. t.buf \in Streams /\ v \in Streams /\ q \in Streams /\ Len(t.buf) <= Len(v)
    BY <1>2, <1>9, <2>1
  <2>3. PICK b \in Streams : b = t.buf
    BY <2>2
  <2>4. PICK u \in Streams : v = Then(b, u) /\ q = Then(u, a) /\ Len(u) = Len(v) - Len(b)
    <3>1. Then(b, q) = Then(v, a) /\ Len(b) <= Len(v) /\ v \in Streams /\ q \in Streams /\ b \in Streams
      BY <2>1, <2>2, <2>3
    <3>. QED
      BY <3>1, Remains
  <2>5. x.p.acc = Then(p.acc, b) /\ x.p.acc \in Streams
    BY <1>3, <1>10, <2>3, ThenIs
  <2>6. w = Then(x.p.acc, u)
    BY <1>2, <1>3, <2>3, <2>4, <2>5, ThenJoins
  <2>7. x.p.need = Len(u) /\ x.p.need \in Nat /\ x.p.need > 0
    <3>1. p.need = Len(v) /\ Len(u) = Len(v) - t.n /\ x.p.need = p.need - t.n
      BY <1>2, <1>9, <1>10, <2>3, <2>4
    <3>2. Len(u) \in Nat
      BY LenIs
    <3>3. Len(u) # 0
      <4>1. p.need # t.n
        BY <1>8, <1>13
      <4>. QED
        BY <1>3, <1>9, <3>1, <4>1
    <3>. QED
      BY <3>1, <3>2, <3>3
  <2>8. Reading(x.p, w, q, a)
    BY <2>4, <2>5, <2>6, <2>7 DEF Reading
  <2>. QED
    BY <1>8, <2>1, <2>7, <2>8
<1>14. Reads(x, p, w, s, l, a)
  BY <1>8, <1>9, <1>11, <1>12, <1>13 DEF Reads
<1>. QED
  BY <1>7, <1>14

-----------------------------------------------------------------------------
(***************************************************************************)
(* What to_string makes of the objects.                                    *)
(***************************************************************************)

\* Texts and bytes are streams.
LEMMA BytesAreStreams ==
    /\ \A s \in Texts : s \in Streams /\ Len(s) \in Nat
    /\ \A s \in Seq(0..2) : s \in Streams /\ Len(s) \in Nat
<1>1. ASSUME NEW S, S \in SUBSET Nat, NEW s \in Seq(S) PROVE s \in Seq(Nat)
  <2>1. Len(s) \in Nat /\ s \in [1..Len(s) -> S]
    BY LenProperties
  <2>2. s \in [1..Len(s) -> Nat]
    BY <1>1, <2>1
  <2>. QED
    BY <2>1, <2>2
<1>2. Bytes \in SUBSET Nat /\ 0..2 \in SUBSET Nat
  BY DEF Bytes
<1>3. ASSUME NEW s \in Texts PROVE s \in Streams
  BY <1>1, <1>2 DEF Texts, Streams
<1>4. ASSUME NEW s \in Seq(0..2) PROVE s \in Streams
  BY <1>1, <1>2 DEF Streams
<1>. QED
  BY <1>3, <1>4, LenIs

\* A text with its length in front.
LEMMA TextIs ==
    ASSUME NEW s \in Streams
    PROVE  /\ Text(s) \in Streams /\ Short(Len(s)) \in Streams /\ Len(Short(Len(s))) = 2
           /\ Fits(s) => Text(s) = Then(Short(Len(s)), s)
           /\ Fits(s) => UnpackShort(Short(Len(s))) = Len(s)
<1>1. Len(s) \in Nat
  BY LenIs
<1> DEFINE n == Len(s)
           h == Short(n)
<1>2. n \in Nat /\ (Fits(s) <=> n < 65536)
  BY <1>1 DEF Fits
<1>. HIDE DEF n
<1>3. h \in Streams /\ Len(h) = 2 /\ (n < 65536 => UnpackShort(h) = n)
  BY <1>2, ShortIs
<1>4. n < 65536 /\ n % 65536 = 0 => n = 0
  BY <1>2, SmallMod
<1>5. Text(s) = h \o (IF n % 65536 = 0 THEN <<>> ELSE s)
  BY DEF Text, n
<1>. HIDE DEF h
<1>6. n = 0 => s = <<>>
  BY ThenNothing DEF n
<1>7. <<>> \in Streams
  BY ThenNothing
<1>8. Text(s) = Then(h, IF n % 65536 = 0 THEN <<>> ELSE s)
  BY <1>5 DEF Then
<1>9. Text(s) \in Streams
  BY <1>3, <1>7, <1>8, ThenIs
<1>10. Fits(s) => Text(s) = Then(h, s)
  BY <1>2, <1>4, <1>6, <1>8
<1>. QED
  BY <1>2, <1>3, <1>9, <1>10 DEF n, h

\* A text that may be missing is a stream.
LEMMA OptionalIs ==
    ASSUME NEW s \in Streams
    PROVE  /\ Optional(s) \in Streams
           /\ s = <<>> => Optional(s) = <<>>
           /\ s # <<>> => Optional(s) = Text(s)
BY TextIs, ThenNothing DEF Optional

\* The flags of a connect are set one by one.
LEMMA SetBitIs ==
    ASSUME NEW n \in Bytes
    PROVE  /\ SetBit(n, 4) \in Bytes /\ SetBit(n, 64) \in Bytes /\ SetBit(n, 128) \in Bytes
           /\ Has(SetBit(n, 4), 4)
           /\ Has(SetBit(n, 4), 64) <=> Has(n, 64)
           /\ Has(SetBit(n, 4), 128) <=> Has(n, 128)
           /\ Has(SetBit(n, 64), 64)
           /\ Has(SetBit(n, 64), 4) <=> Has(n, 4)
           /\ Has(SetBit(n, 64), 128) <=> Has(n, 128)
           /\ Has(SetBit(n, 128), 128)
           /\ Has(SetBit(n, 128), 4) <=> Has(n, 4)
           /\ Has(SetBit(n, 128), 64) <=> Has(n, 64)
<1>1. n \in 0..255
  BY DEF Bytes
<1>2. /\ SetBit(n, 4) \in Bytes /\ Has(SetBit(n, 4), 4)
      /\ Has(SetBit(n, 4), 64) <=> Has(n, 64)
      /\ Has(SetBit(n, 4), 128) <=> Has(n, 128)
  BY <1>1, SMTT(60) DEF Bytes, SetBit, Has
<1>3. /\ SetBit(n, 64) \in Bytes /\ Has(SetBit(n, 64), 64)
      /\ Has(SetBit(n, 64), 4) <=> Has(n, 4)
      /\ Has(SetBit(n, 64), 128) <=> Has(n, 128)
  BY <1>1, SMTT(60) DEF Bytes, SetBit, Has
<1>4. /\ SetBit(n, 128) \in Bytes /\ Has(SetBit(n, 128), 128)
      /\ Has(SetBit(n, 128), 4) <=> Has(n, 4)
      /\ Has(SetBit(n, 128), 64) <=> Has(n, 64)
  BY <1>1, SMTT(60) DEF Bytes, SetBit, Has
<1>. QED
  BY <1>2, <1>3, <1>4

\* The texts of a connect from the last on, and all of it.
FromPass(m) == Optional(m.pass)
\* With the name of the user in front,
FromUser(m) == Then(Optional(m.user), FromPass(m))
\* with the message of the will,
FromMsg(m) == Then(Optional(m.wmsg), FromUser(m))
\* and with its topic.
FromTopic(m) == Then(Optional(m.wtopic), FromMsg(m))
\* The ten bytes before the texts.
ConnectHead(m) == Then(<<0, 4, 77, 81, 84, 84, 4, m.cflags>>, Short(m.keep))

\* The id of a publish, which is sent above QoS 0.
PubId(m) == IF Qos(m.flags) > 0 THEN Short(m.pkt) ELSE <<>>

\* What follows the header of a message.
Body(m) ==
    CASE m.type = CONNECT -> Then(ConnectHead(m), Then(Text(m.cid), FromTopic(m)))
      [] m.type = CONNACK -> <<m.cflags, m.code>>
      [] m.type = PUBLISH -> Then(Text(m.topic), Then(PubId(m), m.payload))
      [] m.type \in Acks -> Short(m.pkt)
      [] m.type = SUBSCRIBE -> Then(Short(m.pkt), SubscribeEntries(m))
      [] m.type = UNSUBSCRIBE -> Then(Short(m.pkt), UnsubscribeEntries(m))
      [] m.type = SUBACK -> Then(Short(m.pkt), m.qoses)
      [] m.type \in Bodyless -> <<>>

\* What the header says of the length of the body.
Size(m) ==
    CASE m.type = PUBLISH -> Len(m.topic) + 2 + Len(m.payload) + Len(PubId(m))
      [] m.type \in {SUBSCRIBE, UNSUBSCRIBE, SUBACK} -> m.body
      [] OTHER -> Len(Body(m))

\* A message on the wire.
Wire(m) == Then(Header(m.type, m.flags, Size(m)), Body(m))

\* A message as to_string leaves it.
Filled(m) ==
    /\ m.type = CONNECT =>
          /\ Has(m.cflags, 4) <=> m.wtopic # <<>>
          /\ m.wtopic = <<>> <=> m.wmsg = <<>>
          /\ Has(m.cflags, 128) <=> m.user # <<>>
          /\ Has(m.cflags, 64) <=> m.pass # <<>>
    /\ m.type = SUBSCRIBE => m.topics # <<>>
    /\ m.type = SUBACK => m.qoses # <<>>

\* And with what the wire needs: its length fits four digits.
Ready(m) ==
    /\ m \in Objects /\ Filled(m)
    /\ Body(m) \in Streams /\ Size(m) \in Nat /\ Size(m) < LenPow[4]

\* to_string refuses, or leaves a message whose wire it gives.
Writes(w) == w.ok => Ready(w.m) /\ w.out = Wire(w.m)

\* The types are different numbers.
TypeNames ==
    /\ CONNECT = 1 /\ CONNACK = 2 /\ PUBLISH = 3 /\ SUBSCRIBE = 8 /\ SUBACK = 9
    /\ UNSUBSCRIBE = 10 /\ Acks = {4, 5, 6, 7, 11} /\ Bodyless = {12, 13, 14}
    /\ PUBREL = 6

\* They are.
LEMMA TypesAre == TypeNames
BY DEF TypeNames, CONNECT, CONNACK, PUBLISH, PUBACK, PUBREC, PUBREL, PUBCOMP, SUBSCRIBE,
       SUBACK, UNSUBSCRIBE, UNSUBACK, PINGREQ, PINGRESP, DISCONNECT, Acks, Bodyless

\* A class by its type.
LEMMA ClassIs ==
    ASSUME NEW m \in Objects
    PROVE  /\ m.type = CONNECT <=> m \in Connects
           /\ m.type = CONNACK <=> m \in Connacks
           /\ m.type = PUBLISH <=> m \in Publishes
           /\ m.type \in Acks <=> m \in AckMessages
           /\ m.type = SUBSCRIBE <=> m \in Subscribes
           /\ m.type = UNSUBSCRIBE <=> m \in Unsubscribes
           /\ m.type = SUBACK <=> m \in Subacks
           /\ m.type \in Bodyless <=> m \in Signals
           /\ m.flags \in 0..15 /\ m.type \in 1..14
<1>1. /\ \A x \in Connects : x.type = CONNECT /\ x.flags = 0
      /\ \A x \in Connacks : x.type = CONNACK /\ x.flags = 0
      /\ \A x \in Publishes : x.type = PUBLISH /\ x.flags \in 0..15
      /\ \A x \in AckMessages : x.type \in Acks /\ x.flags \in {0, 2}
      /\ \A x \in Subscribes : x.type = SUBSCRIBE /\ x.flags \in {0, 2}
      /\ \A x \in Unsubscribes : x.type = UNSUBSCRIBE /\ x.flags \in {0, 2}
      /\ \A x \in Subacks : x.type = SUBACK /\ x.flags = 0
      /\ \A x \in Signals : x.type \in Bodyless /\ x.flags = 0
  BY DEF Connects, Connacks, Publishes, AckMessages, Subscribes, Unsubscribes, Subacks, Signals
<1>2. \/ m \in Connects \/ m \in Connacks \/ m \in Publishes \/ m \in AckMessages
      \/ m \in Subscribes \/ m \in Unsubscribes \/ m \in Subacks \/ m \in Signals
  BY DEF Objects
<1>. QED
  BY <1>1, <1>2, TypesAre DEF TypeNames

(***************************************************************************)
(* Streams joined in a row.                                                *)
(***************************************************************************)
\* f[n] is the first n elements of q in a row.
Chained(f, q, n) == f = [i \in 1..n |-> IF i = 1 THEN q[i] ELSE f[i - 1] \o q[i]]

\* There is such a function.
LEMMA ChainExists ==
    ASSUME NEW n \in Nat, NEW q
    PROVE  \E f : Chained(f, q, n)
<1> DEFINE P(l) == \E f : Chained(f, q, l)
           T == {l \in Nat : ~P(l)}
<1>1. SUFFICES ASSUME T # {} PROVE FALSE
  OBVIOUS
<1>2. PICK l \in T : \A m \in T : l <= m
  <2>. T \in SUBSET Nat
    OBVIOUS
  <2>. HIDE DEF T
  <2>. QED
    BY <1>1, Least
<1>3. P(0)
  <2> DEFINE g == [i \in 1..0 |-> q]
  <2>1. g = [i \in 1..0 |-> IF i = 1 THEN q[i] ELSE g[i - 1] \o q[i]]
    OBVIOUS
  <2>. HIDE DEF g
  <2>. QED
    BY <2>1 DEF Chained
<1>4. l \in Nat /\ l # 0 /\ l - 1 \in Nat /\ ~P(l)
  BY <1>2, <1>3
<1>5. PICK g : Chained(g, q, l - 1)
  BY <1>2, <1>4
<1> DEFINE f == [i \in 1..l |-> IF i = 1 THEN q[i] ELSE IF i = l THEN g[l - 1] \o q[i] ELSE g[i]]
<1>6. ASSUME NEW i \in 1..l
      PROVE  f[i] = IF i = 1 THEN q[i] ELSE f[i - 1] \o q[i]
  <2>1. CASE i = 1
    BY <2>1
  <2>2. CASE i # 1
    <3>1. i - 1 \in 1..l /\ i - 1 # l /\ i - 1 \in 1..(l - 1)
      BY <2>2, <1>4
    <3>2. \A j \in 1..(l - 1) : g[j] = IF j = 1 THEN q[j] ELSE g[j - 1] \o q[j]
      BY <1>5, Zenon DEF Chained
    <3>3. f[i - 1] = g[i - 1]
      BY <3>1, <3>2
    <3>4. CASE i = l
      BY <2>2, <3>3, <3>4
    <3>5. CASE i # l
      <4>1. i \in 1..(l - 1)
        BY <1>4, <3>5
      <4>2. f[i] = g[i] /\ g[i] = g[i - 1] \o q[i]
        BY <2>2, <3>2, <3>5, <4>1
      <4>. QED
        BY <2>2, <3>3, <4>2
    <3>. QED
      BY <3>4, <3>5
  <2>. QED
    BY <2>1, <2>2
<1>7. f = [i \in 1..l |-> f[i]]
  OBVIOUS
<1>. HIDE DEF f
<1>8. f = [i \in 1..l |-> IF i = 1 THEN q[i] ELSE f[i - 1] \o q[i]]
  BY <1>6, <1>7
<1>. QED
  BY <1>4, <1>8 DEF Chained

\* FlattenSeq is one, so that the proofs need not unfold its recursion.
LEMMA FlattenIs ==
    ASSUME NEW n \in Nat \ {0}, NEW q, Len(q) = n
    PROVE  \E f : Chained(f, q, n) /\ FlattenSeq(q) = f[n]
<1> DEFINE h == CHOOSE g : g = [i \in 1..n |-> IF i = 1 THEN q[i] ELSE g[i - 1] \o q[i]]
<1>1. \E f : f = [i \in 1..n |-> IF i = 1 THEN q[i] ELSE f[i - 1] \o q[i]]
  BY ChainExists, Zenon DEF Chained
<1>2. h = [i \in 1..n |-> IF i = 1 THEN q[i] ELSE h[i - 1] \o q[i]]
  BY <1>1, Zenon
<1>3. Len(q) # 0
  OBVIOUS
<1>4. FlattenSeq(q) = h[n]
  BY <1>3, Zenon DEF FlattenSeq
<1>. HIDE DEF h
<1>5. Chained(h, q, n)
  BY <1>2, Zenon DEF Chained
<1>. QED
  BY <1>4, <1>5

\* t[i] is what follows the i-th of the n streams q in the row that is x.
Behind(t, q, n, x) ==
    /\ \A i \in 0..n : t[i] \in Streams
    /\ t[0] = x /\ t[n] = <<>>
    /\ \A i \in 1..n : t[i - 1] = Then(q[i], t[i])

\* There is such a row of rests.
LEMMA BehindExists ==
    ASSUME NEW n \in Nat \ {0}, NEW q, Len(q) = n, \A i \in 1..n : q[i] \in Streams
    PROVE  /\ FlattenSeq(q) \in Streams
           /\ \E t : Behind(t, q, n, FlattenSeq(q))
<1>1. PICK f : Chained(f, q, n) /\ FlattenSeq(q) = f[n]
  BY FlattenIs
<1>2. \A i \in 1..n : f[i] = IF i = 1 THEN q[i] ELSE Then(f[i - 1], q[i])
  BY <1>1, Zenon DEF Chained, Then
<1>3. <<>> \in Streams
  BY ThenNothing
<1>4. \A i \in 1..n : f[i] \in Streams
  <2> DEFINE T == {i \in Nat : i \in 1..n /\ f[i] \notin Streams}
  <2>1. SUFFICES ASSUME T # {} PROVE FALSE
    OBVIOUS
  <2>2. PICK i \in T : \A m \in T : i <= m
    <3>. T \in SUBSET Nat
      OBVIOUS
    <3>. HIDE DEF T
    <3>. QED
      BY <2>1, Least
  <2>3. i \in 1..n /\ f[i] \notin Streams
    BY <2>2
  <2>4. i # 1
    BY <1>2, <2>3
  <2>5. i - 1 \in 1..n /\ i - 1 \notin T
    BY <2>2, <2>3, <2>4
  <2>6. f[i - 1] \in Streams
    BY <2>5
  <2>7. f[i] = Then(f[i - 1], q[i])
    BY <1>2, <2>3, <2>4
  <2>. QED
    BY <2>3, <2>6, <2>7, ThenIs
<1> DEFINE x == FlattenSeq(q)
           R(i) == \E u \in Streams : x = Then(f[i], u)
<1>5. x \in Streams /\ x = f[n]
  BY <1>1, <1>4
<1>. HIDE DEF x
<1>6. \A i \in 1..n : R(i)
  <2> DEFINE T == {j \in Nat : j < n /\ ~R(n - j)}
  <2>1. SUFFICES ASSUME T # {} PROVE FALSE
    <3>1. ASSUME T = {}, NEW i \in 1..n PROVE R(i)
      <4>1. n - i \in Nat /\ n - i < n /\ n - (n - i) = i
        OBVIOUS
      <4>2. n - i \notin T
        BY <3>1
      <4>3. R(n - (n - i))
        BY <4>1, <4>2
      <4>. QED
        BY <4>1, <4>3
    <3>. HIDE DEF R
    <3>. QED
      BY <3>1
  <2>2. PICK j \in T : \A m \in T : j <= m
    <3>. T \in SUBSET Nat
      OBVIOUS
    <3>. HIDE DEF T
    <3>. QED
      BY <2>1, Least
  <2>3. j \in Nat /\ j < n /\ ~R(n - j)
    BY <2>2
  <2>4. R(n)
    <3>1. x = Then(f[n], <<>>)
      BY <1>5, ThenNothing
    <3>. QED
      BY <1>3, <3>1
  <2>5. j # 0
    <3>1. ASSUME j = 0 PROVE FALSE
      <4>1. n - j = n
        BY <3>1
      <4>. HIDE DEF R
      <4>. QED
        BY <2>3, <2>4, <4>1
    <3>. QED
      BY <3>1
  <2>6. j - 1 \in Nat /\ j - 1 < n /\ j - 1 \notin T /\ n - (j - 1) = (n - j) + 1
    BY <2>2, <2>3, <2>5
  <2>7. R((n - j) + 1)
    <3>1. R(n - (j - 1))
      BY <2>6
    <3>. HIDE DEF R
    <3>. QED
      BY <2>6, <3>1
  <2> DEFINE i == (n - j) + 1
  <2>8. i \in 1..n /\ i # 1 /\ i - 1 \in 1..n /\ i - 1 = n - j
    BY <2>3, <2>5
  <2>9. R(i)
    BY <2>7
  <2>. HIDE DEF i
  <2>10. PICK u \in Streams : x = Then(f[i], u)
    BY <2>9
  <2>11. f[i] = Then(f[i - 1], q[i]) /\ f[i - 1] \in Streams /\ q[i] \in Streams
    BY <1>2, <1>4, <2>8
  <2>12. x = Then(f[i - 1], Then(q[i], u)) /\ Then(q[i], u) \in Streams
    <3>1. PICK g \in Streams, y \in Streams : g = f[i - 1] /\ y = q[i]
      BY <2>11
    <3>2. Then(Then(g, y), u) = Then(g, Then(y, u)) /\ Then(y, u) \in Streams
      <4>1. g \in Streams /\ y \in Streams /\ u \in Streams
        BY <2>10, <3>1
      <4>2. Then(Then(g, y), u) = Then(g, Then(y, u))
        BY <4>1, ThenJoins, Zenon
      <4>. QED
        BY <4>1, <4>2, ThenIs, Zenon
    <3>. QED
      BY <2>10, <2>11, <3>1, <3>2
  <2>13. R(i - 1)
    BY <2>12
  <2>. HIDE DEF R
  <2>. QED
    BY <2>3, <2>8, <2>13
<1> DEFINE t == [i \in 0..n |-> IF i = 0 THEN x ELSE CHOOSE u \in Streams : x = Then(f[i], u)]
<1>7. ASSUME NEW i \in 1..n PROVE t[i] \in Streams /\ x = Then(f[i], t[i])
  <2>1. \E u \in Streams : x = Then(f[i], u)
    BY <1>6
  <2> DEFINE c == CHOOSE u \in Streams : x = Then(f[i], u)
  <2>2. c \in Streams /\ x = Then(f[i], c)
    BY <2>1, Zenon
  <2>3. t[i] = c
    <3>. HIDE DEF c
    <3>1. i \in 0..n /\ i # 0
      OBVIOUS
    <3>. QED
      BY <3>1, Zenon DEF c
  <2>. QED
    BY <2>2, <2>3, Zenon
<1>8. t[0] = x
  OBVIOUS
<1>. HIDE DEF t
<1>9. ASSUME NEW i \in 1..n PROVE t[i - 1] = Then(q[i], t[i])
  <2>1. CASE i = 1
    BY <1>2, <1>7, <1>8, <2>1
  <2>2. CASE i # 1
    <3>1. i - 1 \in 1..n
      BY <2>2
    <3>2. f[i] = Then(f[i - 1], q[i]) /\ f[i - 1] \in Streams /\ q[i] \in Streams
      BY <1>2, <1>4, <2>2, <3>1
    <3>3. t[i] \in Streams /\ x = Then(f[i], t[i]) /\ t[i - 1] \in Streams
          /\ x = Then(f[i - 1], t[i - 1])
      BY <1>7, <3>1
    <3>4. PICK g \in Streams, y \in Streams, u \in Streams, v \in Streams :
             g = f[i - 1] /\ y = q[i] /\ u = t[i] /\ v = t[i - 1]
      BY <3>2, <3>3
    <3>5. Then(Then(g, y), u) = Then(g, v)
      BY <3>2, <3>3, <3>4
    <3>6. Then(Then(g, y), u) = Then(g, Then(y, u)) /\ Then(y, u) \in Streams
      <4>1. g \in Streams /\ y \in Streams /\ u \in Streams
        BY <3>4
      <4>2. Then(Then(g, y), u) = Then(g, Then(y, u))
        BY <4>1, ThenJoins, Zenon
      <4>. QED
        BY <4>1, <4>2, ThenIs, Zenon
    <3>7. v = Then(y, u)
      <4>1. Then(g, v) = Then(g, Then(y, u))
        BY <3>5, <3>6
      <4>2. g \in Streams /\ v \in Streams /\ Then(y, u) \in Streams
        BY <3>4, <3>6
      <4>. QED
        BY <4>1, <4>2, ThenCancels
    <3>. QED
      BY <3>4, <3>7
  <2>. QED
    BY <2>1, <2>2
<1>10. t[n] = <<>>
  <2>1. n \in 1..n
    OBVIOUS
  <2>2. t[n] \in Streams /\ x = Then(x, t[n])
    BY <1>5, <1>7, <2>1
  <2>3. x = Then(x, <<>>)
    BY <1>5, ThenNothing
  <2>. QED
    BY <1>3, <1>5, <2>2, <2>3, ThenCancels
<1>11. \A i \in 0..n : t[i] \in Streams
  <2> TAKE i \in 0..n
  <2>1. CASE i = 0
    BY <1>5, <1>8, <2>1
  <2>2. CASE i # 0
    BY <1>7, <2>2
  <2>. QED
    BY <2>1, <2>2
<1>12. Behind(t, q, n, x)
  BY <1>8, <1>9, <1>10, <1>11 DEF Behind
<1>. QED
  BY <1>5, <1>12 DEF x

(***************************************************************************)
(* to_string, class by class.                                              *)
(***************************************************************************)
\* Written adds the header in front of a body whose length it is told.
LEMMA WrittenIs ==
    ASSUME NEW m \in Objects, NEW n \in Nat, Filled(m), n = Size(m), Body(m) \in Streams
    PROVE  Writes(Written(m, n, Body(m)))
<1>1. PICK w : w = Written(m, n, Body(m))
  OBVIOUS
<1>2. w.m = m /\ w.out = IF n < LenPow[4] THEN Header(m.type, m.flags, n) \o Body(m) ELSE <<>>
  BY <1>1 DEF Written
<1>3. w.ok <=> n < LenPow[4]
  BY <1>1 DEF Written
<1>4. w.ok => Ready(w.m) /\ w.out = Wire(w.m)
  BY <1>2, <1>3 DEF Ready, Wire, Then
<1>. QED
  BY <1>1, <1>4 DEF Writes

\* Five streams in a row.
LEMMA FiveJoin ==
    ASSUME NEW a \in Streams, NEW b \in Streams, NEW c \in Streams, NEW d \in Streams,
           NEW e \in Streams
    PROVE  Then(Then(Then(Then(a, b), c), d), e) = Then(a, Then(b, Then(c, Then(d, e))))
<1>2. PICK g \in Streams, h \in Streams : g = Then(a, b) /\ h = Then(d, e)
  BY ThenIs, Zenon
<1>3. PICK u \in Streams, v \in Streams : u = Then(g, c) /\ v = Then(c, h)
  BY ThenIs, Zenon
<1>4. /\ Then(Then(u, d), e) = Then(u, Then(d, e))
      /\ Then(Then(g, c), h) = Then(g, Then(c, h))
      /\ Then(Then(a, b), v) = Then(a, Then(b, v))
  <2>1. g \in Streams /\ h \in Streams /\ u \in Streams /\ v \in Streams
    BY <1>2, <1>3
  <2>2. Then(Then(u, d), e) = Then(u, Then(d, e))
    BY <2>1, ThenJoins
  <2>3. Then(Then(g, c), h) = Then(g, Then(c, h))
    BY <2>1, ThenJoins
  <2>4. Then(Then(a, b), v) = Then(a, Then(b, v))
    BY <2>1, ThenJoins
  <2>. QED
    BY <2>2, <2>3, <2>4
<1>. QED
  BY <1>2, <1>3, <1>4

\* The parts of a connect.
LEMMA ConnectParts ==
    ASSUME NEW m \in Connects
    PROVE  /\ m.cid \in Streams /\ m.wtopic \in Streams /\ m.wmsg \in Streams
           /\ m.user \in Streams /\ m.pass \in Streams
           /\ ConnectHead(m) \in Streams /\ Len(ConnectHead(m)) = 10
           /\ ConnectHead(m)[8] = m.cflags
           /\ FromPass(m) \in Streams /\ FromUser(m) \in Streams /\ FromMsg(m) \in Streams
           /\ FromTopic(m) \in Streams
           /\ Then(Text(m.cid), FromTopic(m)) \in Streams
           /\ Body(m) = Then(ConnectHead(m), Then(Text(m.cid), FromTopic(m)))
           /\ Body(m) \in Streams
<1>1. /\ m.cid \in Texts /\ m.wtopic \in Texts /\ m.wmsg \in Texts
      /\ m.user \in Texts /\ m.pass \in Texts
      /\ m.type = CONNECT /\ m.cflags \in Bytes /\ m.keep \in Words
  BY DEF Connects
<1>2. /\ m.cid \in Streams /\ m.wtopic \in Streams /\ m.wmsg \in Streams
      /\ m.user \in Streams /\ m.pass \in Streams
  BY <1>1, BytesAreStreams, Zenon
<1> DEFINE f == <<0, 4, 77, 81, 84, 84, 4, m.cflags>>
           g == Short(m.keep)
<1>3. f \in Streams /\ Len(f) = 8 /\ f[8] = m.cflags
  <2>1. m.cflags \in Nat
    BY <1>1 DEF Bytes
  <2>. QED
    BY <2>1 DEF Streams
<1>4. g \in Streams /\ Len(g) = 2
  <2>1. m.keep \in Words
    BY <1>1, Zenon
  <2>2. \A k \in Words : k \in Nat
    BY DEF Words
  <2>3. m.keep \in Nat
    BY <2>1, <2>2, Zenon
  <2>. QED
    BY <2>3, ShortIs
<1>. HIDE DEF f, g
<1>5. ConnectHead(m) = Then(f, g)
  BY DEF ConnectHead, f, g
<1>6. Then(f, g) \in Streams /\ Len(Then(f, g)) = 10
  <2>1. f \in Streams /\ g \in Streams /\ Len(f) = 8 /\ Len(g) = 2
    BY <1>3, <1>4
  <2>2. Then(f, g) \in Streams /\ Len(Then(f, g)) = Len(f) + Len(g)
    BY <2>1, ThenIs, ThenLen, Zenon
  <2>. QED
    BY <2>1, <2>2
<1>7. Then(f, g)[8] = f[8]
  <2>1. 8 \in 1..Len(f)
    BY <1>3
  <2>. QED
    BY <1>3, <1>4, <2>1, JoinIs DEF Then, Streams
<1>8. FromPass(m) \in Streams
  BY <1>2, OptionalIs DEF FromPass
<1>9. FromUser(m) \in Streams
  <2>1. Optional(m.user) \in Streams
    BY <1>2, OptionalIs
  <2>. QED
    BY <1>8, <2>1, ThenIs DEF FromUser
<1>10. FromMsg(m) \in Streams
  <2>1. Optional(m.wmsg) \in Streams
    BY <1>2, OptionalIs
  <2>. QED
    BY <1>9, <2>1, ThenIs DEF FromMsg
<1>11. FromTopic(m) \in Streams
  <2>1. Optional(m.wtopic) \in Streams
    BY <1>2, OptionalIs
  <2>. QED
    BY <1>10, <2>1, ThenIs DEF FromTopic
<1>12. Then(Text(m.cid), FromTopic(m)) \in Streams
  <2>1. Text(m.cid) \in Streams
    BY <1>2, TextIs
  <2>. QED
    BY <1>11, <2>1, ThenIs
<1>13. Body(m) = Then(ConnectHead(m), Then(Text(m.cid), FromTopic(m)))
  BY <1>1, TypesAre DEF Body, TypeNames
<1>14. Body(m) \in Streams
  BY <1>5, <1>6, <1>12, <1>13, ThenIs
<1>. QED
  BY <1>2, <1>3, <1>5, <1>6, <1>7, <1>8, <1>9, <1>10, <1>11, <1>12, <1>13, <1>14, Zenon

\* The texts of a connect are what FromTopic says, behind the client's id.
LEMMA ConnectTextsAre ==
    ASSUME NEW m \in Connects
    PROVE  ConnectTexts(m) = Then(Text(m.cid), FromTopic(m))
<1>1. /\ m.cid \in Streams /\ m.wtopic \in Streams /\ m.wmsg \in Streams
      /\ m.user \in Streams /\ m.pass \in Streams
  BY ConnectParts, Zenon
<1>2. /\ Text(m.cid) \in Streams /\ Optional(m.wtopic) \in Streams
      /\ Optional(m.wmsg) \in Streams /\ Optional(m.user) \in Streams
      /\ Optional(m.pass) \in Streams
  BY <1>1, TextIs, OptionalIs, Zenon
<1>. QED
  <2>1. PICK a \in Streams, b \in Streams, c \in Streams, d \in Streams, e \in Streams :
          /\ a = Text(m.cid) /\ b = Optional(m.wtopic) /\ c = Optional(m.wmsg)
          /\ d = Optional(m.user) /\ e = Optional(m.pass)
    BY <1>2, Zenon
  <2>2. Then(Then(Then(Then(a, b), c), d), e) = Then(a, Then(b, Then(c, Then(d, e))))
    BY <2>1, FiveJoin
  <2>3. ConnectTexts(m) = Then(Then(Then(Then(a, b), c), d), e)
    BY <2>1, Zenon DEF ConnectTexts, Then
  <2>4. Then(Text(m.cid), FromTopic(m)) = Then(a, Then(b, Then(c, Then(d, e))))
    BY <2>1, Zenon DEF FromTopic, FromMsg, FromUser, FromPass
  <2>. QED
    BY <2>2, <2>3, <2>4, Zenon

\* to_string of a connect.
LEMMA ConnectWrites ==
    ASSUME NEW o \in Connects
    PROVE  Writes(ConnectBytes(o))
<1> DEFINE will == o.wtopic # <<>> /\ o.wmsg # <<>>
           m1 == IF will THEN [o EXCEPT !.cflags = SetBit(@, 4)]
                 ELSE [o EXCEPT !.wtopic = <<>>, !.wmsg = <<>>]
           m2 == IF m1.user # <<>> THEN [m1 EXCEPT !.cflags = SetBit(@, 128)] ELSE m1
           m3 == IF m2.pass # <<>> THEN [m2 EXCEPT !.cflags = SetBit(@, 64)] ELSE m2
           C == [type : {CONNECT}, flags : {0}, cflags : Bytes, wqos : 0..2, keep : Words,
                 cid : Texts, wtopic : Texts, wmsg : Texts, user : Texts, pass : Texts]
<1>1. /\ o \in C /\ o.cflags \in Bytes
      /\ Has(o.cflags, 4) => will
      /\ Has(o.cflags, 128) => o.user # <<>>
      /\ Has(o.cflags, 64) => o.pass # <<>>
  BY DEF Connects
<1>2. <<>> \in Texts
  BY DEF Texts
<1>3. /\ m1 \in C /\ m1.cflags \in Bytes
      /\ Has(m1.cflags, 4) <=> m1.wtopic # <<>>
      /\ m1.wtopic = <<>> <=> m1.wmsg = <<>>
      /\ Has(m1.cflags, 128) => m1.user # <<>>
      /\ Has(m1.cflags, 64) => m1.pass # <<>>
      /\ m1.user = o.user /\ m1.pass = o.pass /\ m1.keep = o.keep
  <2>1. CASE will
    <3>1. m1 = [o EXCEPT !.cflags = SetBit(o.cflags, 4)]
      BY <2>1
    <3>2. SetBit(o.cflags, 4) \in Bytes
      BY <1>1, SetBitIs
    <3>3. m1 \in C /\ m1.cflags = SetBit(o.cflags, 4) /\ m1.wtopic = o.wtopic
          /\ m1.wmsg = o.wmsg /\ m1.user = o.user /\ m1.pass = o.pass /\ m1.keep = o.keep
      BY <1>1, <3>1, <3>2
    <3>. HIDE DEF m1, C
    <3>. QED
      BY <1>1, <2>1, <3>2, <3>3, SetBitIs
  <2>2. CASE ~will
    <3>1. m1 = [o EXCEPT !.wtopic = <<>>, !.wmsg = <<>>]
      BY <2>2
    <3>2. m1 \in C /\ m1.cflags = o.cflags /\ m1.wtopic = <<>>
          /\ m1.wmsg = <<>> /\ m1.user = o.user /\ m1.pass = o.pass /\ m1.keep = o.keep
      BY <1>1, <1>2, <3>1
    <3>. HIDE DEF m1, C
    <3>. QED
      BY <1>1, <2>2, <3>2
  <2>. QED
    BY <2>1, <2>2
<1>. HIDE DEF m1
<1>4. /\ m2 \in C /\ m2.cflags \in Bytes
      /\ Has(m2.cflags, 4) <=> m2.wtopic # <<>>
      /\ m2.wtopic = <<>> <=> m2.wmsg = <<>>
      /\ Has(m2.cflags, 128) <=> m2.user # <<>>
      /\ Has(m2.cflags, 64) => m2.pass # <<>>
      /\ m2.pass = o.pass /\ m2.keep = o.keep
  <2>1. CASE m1.user # <<>>
    <3>1. m2 = [m1 EXCEPT !.cflags = SetBit(m1.cflags, 128)]
      BY <2>1
    <3>2. SetBit(m1.cflags, 128) \in Bytes
      BY <1>3, SetBitIs
    <3>3. m2 \in C /\ m2.cflags = SetBit(m1.cflags, 128) /\ m2.wtopic = m1.wtopic
          /\ m2.wmsg = m1.wmsg /\ m2.user = m1.user /\ m2.pass = m1.pass /\ m2.keep = m1.keep
      BY <1>3, <3>1, <3>2
    <3>. HIDE DEF m2, C
    <3>. QED
      BY <1>3, <2>1, <3>2, <3>3, SetBitIs
  <2>2. CASE m1.user = <<>>
    <3>1. m2 = m1
      BY <2>2
    <3>. HIDE DEF m2, C
    <3>. QED
      BY <1>3, <2>2, <3>1
  <2>. QED
    BY <2>1, <2>2
<1>. HIDE DEF m2
<1>5. /\ m3 \in C /\ m3.cflags \in Bytes
      /\ Has(m3.cflags, 4) <=> m3.wtopic # <<>>
      /\ m3.wtopic = <<>> <=> m3.wmsg = <<>>
      /\ Has(m3.cflags, 128) <=> m3.user # <<>>
      /\ Has(m3.cflags, 64) <=> m3.pass # <<>>
      /\ m3.keep = o.keep
  <2>1. CASE m2.pass # <<>>
    <3>1. m3 = [m2 EXCEPT !.cflags = SetBit(m2.cflags, 64)]
      BY <2>1
    <3>2. SetBit(m2.cflags, 64) \in Bytes
      BY <1>4, SetBitIs
    <3>3. m3 \in C /\ m3.cflags = SetBit(m2.cflags, 64) /\ m3.wtopic = m2.wtopic
          /\ m3.wmsg = m2.wmsg /\ m3.user = m2.user /\ m3.pass = m2.pass /\ m3.keep = m2.keep
      BY <1>4, <3>1, <3>2
    <3>. HIDE DEF m3, C
    <3>. QED
      BY <1>4, <2>1, <3>2, <3>3, SetBitIs
  <2>2. CASE m2.pass = <<>>
    <3>1. m3 = m2
      BY <2>2
    <3>. HIDE DEF m3, C
    <3>. QED
      BY <1>4, <2>2, <3>1
  <2>. QED
    BY <2>1, <2>2
<1>6. ConnectBytes(o) =
        Written(m3, 10 + Len(ConnectTexts(m3)),
                <<0, 4, 77, 81, 84, 84, 4, m3.cflags>> \o Short(o.keep) \o ConnectTexts(m3))
  <2>1. m1.user = o.user /\ m2.pass = o.pass
    BY <1>3, <1>4
  <2> DEFINE n2 == IF o.user # <<>> THEN [m1 EXCEPT !.cflags = SetBit(@, 128)] ELSE m1
             n3 == IF o.pass # <<>> THEN [n2 EXCEPT !.cflags = SetBit(@, 64)] ELSE n2
  <2>2. ConnectBytes(o) =
          Written(n3, 10 + Len(ConnectTexts(n3)),
                  <<0, 4, 77, 81, 84, 84, 4, n3.cflags>> \o Short(o.keep) \o ConnectTexts(n3))
    BY Zenon DEF ConnectBytes, m1
  <2>3. n2 = m2
    BY <2>1, Zenon DEF m2
  <2>. HIDE DEF n2
  <2>4. n3 = m3
    BY <2>1, <2>3, Zenon
  <2>. HIDE DEF n3, m3
  <2>. QED
    BY <2>2, <2>4, Zenon
<1>. HIDE DEF m3
<1>7. m3 \in Connects /\ m3.type = CONNECT
  BY <1>5 DEF Connects
<1>. HIDE DEF C
<1>8. m3 \in Objects
  BY <1>7, Zenon DEF Objects
<1>9. Filled(m3)
  BY <1>5, <1>7, TypesAre DEF Filled, TypeNames
<1>10. ConnectTexts(m3) = Then(Text(m3.cid), FromTopic(m3)) /\ ConnectTexts(m3) \in Streams
  BY <1>7, ConnectTextsAre, ConnectParts, Zenon
<1>11. <<0, 4, 77, 81, 84, 84, 4, m3.cflags>> \o Short(o.keep) \o ConnectTexts(m3) = Body(m3)
  <2>1. <<0, 4, 77, 81, 84, 84, 4, m3.cflags>> \o Short(o.keep) \o ConnectTexts(m3)
          = Then(ConnectHead(m3), ConnectTexts(m3))
    BY <1>5, Zenon DEF Then, ConnectHead
  <2>. QED
    BY <1>7, <1>10, <2>1, ConnectParts, Zenon
<1>12. Size(m3) = Len(Body(m3))
  BY <1>7, TypesAre DEF Size, TypeNames
<1>13. Len(Body(m3)) = 10 + Len(ConnectTexts(m3))
  <2>1. PICK h \in Streams, u \in Streams :
           h = ConnectHead(m3) /\ u = ConnectTexts(m3) /\ Len(h) = 10 /\ Body(m3) = Then(h, u)
    BY <1>7, <1>10, ConnectParts, Zenon
  <2>. QED
    BY <2>1, ThenLen
<1>14. Body(m3) \in Streams /\ Len(Body(m3)) \in Nat
  BY <1>7, ConnectParts, LenIs, Zenon
<1>15. Writes(Written(m3, 10 + Len(ConnectTexts(m3)), Body(m3)))
  <2>1. PICK n \in Nat : n = 10 + Len(ConnectTexts(m3)) /\ n = Size(m3)
    BY <1>12, <1>13, <1>14
  <2>. QED
    BY <1>8, <1>9, <1>14, <2>1, WrittenIs, Zenon
<1>. QED
  BY <1>6, <1>11, <1>15, Zenon

\* Nothing is a stream.
LEMMA NothingIs == <<>> \in Streams /\ Len(<<>>) = 0
BY EmptySeq DEF Streams

\* Two bytes are a stream.
LEMMA PairIs ==
    ASSUME NEW h \in Nat, NEW k \in Nat
    PROVE  /\ <<h, k>> \in Streams /\ Len(<<h, k>>) = 2
           /\ <<h, k>>[1] = h /\ <<h, k>>[2] = k
BY DEF Streams

\* Two bytes hold a word.
LEMMA WordIs ==
    ASSUME NEW k \in Words
    PROVE  /\ k \in Nat /\ Short(k) \in Streams /\ Len(Short(k)) = 2
           /\ UnpackShort(Short(k)) = k
<1>1. k \in Nat /\ k < 65536
  BY DEF Words
<1>. QED
  BY <1>1, ShortIs

\* The length of a body fits the header of a message that is sent.
LEMMA SizeIs ==
    ASSUME NEW m, m.type \notin {PUBLISH, SUBSCRIBE, UNSUBSCRIBE, SUBACK}
    PROVE  Size(m) = Len(Body(m))
BY DEF Size

\* What has no fields on the wire but its id.
LEMMA OtherTypes ==
    ASSUME NEW t, t \in Acks \/ t \in Bodyless
    PROVE  t \notin {CONNECT, CONNACK, PUBLISH, SUBSCRIBE, UNSUBSCRIBE, SUBACK}
BY TypesAre DEF TypeNames

\* to_string of a connack.
LEMMA ConnackWrites ==
    ASSUME NEW o \in Connacks
    PROVE  Writes(ConnackBytes(o))
<1>1. o.type = CONNACK /\ o.cflags \in Nat /\ o.code \in Nat
  <2>1. o.type = CONNACK /\ o.cflags \in 0..1 /\ o.code \in 0..255
    BY DEF Connacks, Bytes
  <2>. QED
    BY <2>1
<1>2. PICK b : b = <<o.cflags, o.code>> /\ b \in Streams /\ Len(b) = 2
  <2>1. <<o.cflags, o.code>> \in Streams /\ Len(<<o.cflags, o.code>>) = 2
    BY <1>1, PairIs
  <2>. QED
    BY <2>1, Zenon
<1>3. Body(o) = b
  BY <1>1, <1>2, TypesAre DEF Body, TypeNames
<1>4. Size(o) = 2
  BY <1>1, <1>2, <1>3, TypesAre DEF Size, TypeNames
<1>5. o \in Objects /\ Filled(o)
  BY <1>1, TypesAre DEF Objects, Filled, TypeNames
<1>6. PICK n \in Nat : n = 2 /\ n = Size(o)
  BY <1>4
<1>7. Writes(Written(o, n, Body(o)))
  BY <1>2, <1>3, <1>5, <1>6, WrittenIs, Zenon
<1>. QED
  BY <1>2, <1>3, <1>6, <1>7 DEF ConnackBytes

\* to_string of the acknowledgements.
LEMMA AckWrites ==
    ASSUME NEW o \in AckMessages
    PROVE  Writes(AckBytes(o))
<1>1. o.type \in Acks /\ o.pkt \in Words
  BY DEF AckMessages
<1>2. PICK b : b = Short(o.pkt) /\ b \in Streams /\ Len(b) = 2
  BY <1>1, WordIs
<1>3. Body(o) = b
  BY <1>1, <1>2, TypesAre DEF Body, TypeNames
<1>4. Size(o) = 2
  BY <1>1, <1>2, <1>3, SizeIs, OtherTypes
<1>5. o \in Objects /\ Filled(o)
  BY <1>1, TypesAre DEF Objects, Filled, TypeNames
<1>6. PICK n \in Nat : n = 2 /\ n = Size(o)
  BY <1>4
<1>7. Writes(Written(o, n, Body(o)))
  BY <1>2, <1>3, <1>5, <1>6, WrittenIs, Zenon
<1>. QED
  BY <1>2, <1>3, <1>6, <1>7 DEF AckBytes

\* to_string of the messages without a body.
LEMMA SignalWrites ==
    ASSUME NEW o \in Signals
    PROVE  Writes(Written(o, 0, <<>>))
<1>1. o.type \in Bodyless
  BY DEF Signals
<1>2. PICK b : b = <<>> /\ b \in Streams /\ Len(b) = 0
  BY NothingIs
<1>3. Body(o) = b
  BY <1>1, <1>2, TypesAre DEF Body, TypeNames
<1>4. Size(o) = 0
  BY <1>1, <1>2, <1>3, SizeIs, OtherTypes
<1>5. o \in Objects /\ Filled(o)
  BY <1>1, TypesAre DEF Objects, Filled, TypeNames
<1>6. PICK n \in Nat : n = 0 /\ n = Size(o)
  BY <1>4
<1>7. Writes(Written(o, n, Body(o)))
  BY <1>2, <1>3, <1>5, <1>6, WrittenIs, Zenon
<1>. QED
  BY <1>2, <1>3, <1>6, <1>7

\* The parts of a publish.
LEMMA PublishParts ==
    ASSUME NEW m \in Publishes
    PROVE  /\ m.topic \in Streams /\ m.payload \in Streams /\ m.pkt \in Words
           /\ m.flags \in 0..15
           /\ PubId(m) \in Streams /\ Then(PubId(m), m.payload) \in Streams
           /\ Body(m) = Then(Text(m.topic), Then(PubId(m), m.payload))
           /\ Body(m) \in Streams
           /\ Size(m) = Len(m.topic) + 2 + Len(m.payload) + Len(PubId(m))
           /\ Size(m) \in Nat
<1>1. m.topic \in Texts /\ m.payload \in Texts /\ m.pkt \in Words /\ m.flags \in 0..15
      /\ m.type = PUBLISH
  BY DEF Publishes
<1>2. m.topic \in Streams /\ m.payload \in Streams
  BY <1>1, BytesAreStreams, Zenon
<1>5. PubId(m) \in Streams
  BY <1>1, WordIs, NothingIs DEF PubId
<1>6. Then(PubId(m), m.payload) \in Streams
  BY <1>2, <1>5, ThenIs, Zenon
<1>7. Body(m) = Then(Text(m.topic), Then(PubId(m), m.payload))
  BY <1>1, TypesAre DEF Body, TypeNames
<1>8. Body(m) \in Streams
  <2>1. Text(m.topic) \in Streams
    BY <1>2, TextIs, Zenon
  <2>. QED
    BY <1>6, <1>7, <2>1, ThenIs, Zenon
<1>9. Size(m) = Len(m.topic) + 2 + Len(m.payload) + Len(PubId(m))
  BY <1>1, TypesAre DEF Size, TypeNames
<1>10. Size(m) \in Nat
  <2>1. Len(m.topic) \in Nat /\ Len(m.payload) \in Nat /\ Len(PubId(m)) \in Nat
    BY <1>2, <1>5, LenIs, Zenon
  <2> DEFINE a == Len(m.topic)
             b == Len(m.payload)
             c == Len(PubId(m))
  <2>2. a \in Nat /\ b \in Nat /\ c \in Nat /\ Size(m) = a + 2 + b + c
    BY <1>9, <2>1
  <2>. HIDE DEF a, b, c
  <2>. QED
    BY <2>2
<1>. QED
  BY <1>1, <1>2, <1>5, <1>6, <1>7, <1>8, <1>9, <1>10, Zenon

\* to_string of a publish.
LEMMA PublishWrites ==
    ASSUME NEW o \in Publishes
    PROVE  Writes(PublishBytes(o))
<1> DEFINE q == Qos(o.flags)
           m1 == IF q = 0 THEN [o EXCEPT !.flags = o.flags % 8] ELSE o
           id == IF q > 0 THEN Short(o.pkt) ELSE <<>>
           n == Len(o.topic) + 2 + Len(o.payload) + Len(id)
<1>1. o.flags \in 0..15
  BY PublishParts
<1>2. o.flags % 8 \in 0..15 /\ Qos(o.flags % 8) = Qos(o.flags)
  BY <1>1, SMTT(30) DEF Qos
<1>3. /\ m1 \in Publishes /\ Qos(m1.flags) = q
      /\ m1.topic = o.topic /\ m1.payload = o.payload /\ m1.pkt = o.pkt
  <2>1. CASE q = 0
    <3>1. m1 = [o EXCEPT !.flags = o.flags % 8]
      BY <2>1
    <3>. HIDE DEF m1, q
    <3>. QED
      BY <1>2, <3>1 DEF Publishes, q
  <2>2. CASE q # 0
    <3>1. m1 = o
      BY <2>2
    <3>. HIDE DEF m1
    <3>. QED
      BY <3>1
  <2>. QED
    BY <2>1, <2>2
<1>4. \/ ~PublishBytes(o).ok
      \/ PublishBytes(o) = Written(m1, n, Text(o.topic) \o id \o o.payload)
  BY Zenon DEF PublishBytes, Refused
<1>. HIDE DEF m1
<1>5. PubId(m1) = id
  BY <1>3 DEF PubId
<1>6. /\ m1.topic \in Streams /\ PubId(m1) \in Streams /\ m1.payload \in Streams
      /\ Body(m1) \in Streams
      /\ Body(m1) = Then(Text(m1.topic), Then(PubId(m1), m1.payload))
      /\ Size(m1) = Len(m1.topic) + 2 + Len(m1.payload) + Len(PubId(m1)) /\ Size(m1) \in Nat
  BY <1>3, PublishParts, Zenon
<1>7. Text(o.topic) \o id \o o.payload = Body(m1)
  <2>1. PICK x \in Streams, y \in Streams, z \in Streams :
          x = Text(m1.topic) /\ y = PubId(m1) /\ z = m1.payload
    BY <1>6, TextIs, Zenon
  <2>2. Text(o.topic) \o id \o o.payload = Then(Then(x, y), z)
    BY <1>3, <1>5, <2>1, Zenon DEF Then
  <2>3. Then(Then(x, y), z) = Then(x, Then(y, z))
    BY <2>1, ThenJoins
  <2>. QED
    BY <1>6, <2>1, <2>2, <2>3, Zenon
<1>8. m1 \in Objects /\ m1.type = PUBLISH
  BY <1>3, Zenon DEF Objects, Publishes
<1>9. Filled(m1)
  BY <1>8, TypesAre DEF Filled, TypeNames
<1>10. n = Size(m1) /\ n \in Nat
  BY <1>3, <1>5, <1>6, Zenon
<1>. HIDE DEF n, id
<1>11. Writes(Written(m1, n, Body(m1)))
  BY <1>6, <1>8, <1>9, <1>10, WrittenIs, Zenon
<1>. QED
  BY <1>4, <1>7, <1>11, Zenon DEF Writes

\* The entries of a list are streams.
LEMMA EntriesAre ==
    ASSUME NEW m, m \in Subscribes \/ m \in Unsubscribes, m.topics # <<>>
    PROVE  /\ Len(m.topics) \in Nat \ {0} /\ m.pkt \in Words
           /\ \A i \in 1..Len(m.topics) : m.topics[i] \in Streams
           /\ m \in Subscribes =>
                 /\ \A i \in 1..Len(m.topics) : m.qoses[i] \in 0..2
                 /\ SubscribeEntries(m) \in Streams
                 /\ \E t, q : /\ Behind(t, q, Len(m.topics), SubscribeEntries(m))
                              /\ \A i \in 1..Len(m.topics) :
                                    q[i] = Then(Text(m.topics[i]), <<m.qoses[i]>>)
           /\ m \in Unsubscribes =>
                 /\ UnsubscribeEntries(m) \in Streams
                 /\ \E t, q : /\ Behind(t, q, Len(m.topics), UnsubscribeEntries(m))
                              /\ \A i \in 1..Len(m.topics) : q[i] = Text(m.topics[i])
<1>1. m.topics \in Seq(Texts) /\ m.pkt \in Words
  BY DEF Subscribes, Unsubscribes
<1>2. PICK n : n = Len(m.topics) /\ n \in Nat \ {0}
  BY <1>1, EmptySeq
<1>3. \A i \in 1..n : m.topics[i] \in Texts
  BY <1>1, <1>2
<1>4. \A i \in 1..n : m.topics[i] \in Streams /\ Text(m.topics[i]) \in Streams
  BY <1>3, BytesAreStreams, TextIs, Zenon
<1>7. DOMAIN m.topics = 1..n
  BY <1>1, <1>2
<1>8. ASSUME m \in Subscribes
      PROVE  /\ \A i \in 1..n : m.qoses[i] \in 0..2
             /\ SubscribeEntries(m) \in Streams
             /\ \E t, q : /\ Behind(t, q, n, SubscribeEntries(m))
                          /\ \A i \in 1..n : q[i] = Then(Text(m.topics[i]), <<m.qoses[i]>>)
  <2>1. m.qoses \in Seq(0..2) /\ Len(m.qoses) = n
    BY <1>2, <1>8 DEF Subscribes
  <2>2. \A i \in 1..n : m.qoses[i] \in 0..2
    BY <1>2, <2>1
  <2>3. \A k \in 0..2 : <<k>> \in Streams
    BY DEF Streams
  <2> DEFINE q == [i \in 1..n |-> Then(Text(m.topics[i]), <<m.qoses[i]>>)]
  <2>4. \A i \in 1..n : q[i] \in Streams
    BY <1>4, <2>2, <2>3, ThenIs, Zenon
  <2>5. SubscribeEntries(m) = FlattenSeq(q)
    BY <1>7, Zenon DEF SubscribeEntries, Then
  <2>6. Len(q) = n
    BY <1>2
  <2>7. \A i \in 1..n : q[i] = Then(Text(m.topics[i]), <<m.qoses[i]>>)
    OBVIOUS
  <2>. HIDE DEF q
  <2>. QED
    BY <1>2, <2>2, <2>4, <2>5, <2>6, <2>7, BehindExists, Zenon
<1>9. ASSUME m \in Unsubscribes
      PROVE  /\ UnsubscribeEntries(m) \in Streams
             /\ \E t, q : /\ Behind(t, q, n, UnsubscribeEntries(m))
                          /\ \A i \in 1..n : q[i] = Text(m.topics[i])
  <2> DEFINE q == [i \in 1..n |-> Text(m.topics[i])]
  <2>1. \A i \in 1..n : q[i] \in Streams
    BY <1>4, Zenon
  <2>2. UnsubscribeEntries(m) = FlattenSeq(q)
    BY <1>7, Zenon DEF UnsubscribeEntries
  <2>3. Len(q) = n
    BY <1>2
  <2>4. \A i \in 1..n : q[i] = Text(m.topics[i])
    OBVIOUS
  <2>. HIDE DEF q
  <2>. QED
    BY <1>2, <2>1, <2>2, <2>3, <2>4, BehindExists, Zenon
<1>. QED
  BY <1>1, <1>2, <1>4, <1>8, <1>9, Zenon

\* Body and length of the messages with a list.
LEMMA ListParts ==
    ASSUME NEW m \in Objects, m.type \in {SUBSCRIBE, UNSUBSCRIBE, SUBACK},
           m.type # SUBACK => m.topics # <<>>
    PROVE  /\ Body(m) \in Streams /\ Size(m) = m.body /\ m.body \in Nat
           /\ m.pkt \in Words
           /\ m.type = SUBSCRIBE => /\ SubscribeEntries(m) \in Streams
                                    /\ Body(m) = Then(Short(m.pkt), SubscribeEntries(m))
           /\ m.type = UNSUBSCRIBE => /\ UnsubscribeEntries(m) \in Streams
                                      /\ Body(m) = Then(Short(m.pkt), UnsubscribeEntries(m))
           /\ m.type = SUBACK => /\ m.qoses \in Streams
                                 /\ Body(m) = Then(Short(m.pkt), m.qoses)
<1>1. Size(m) = m.body
  BY TypesAre DEF Size, TypeNames
<1>3. CASE m.type = SUBSCRIBE
  <2>1. m \in Subscribes
    BY <1>3, ClassIs
  <2>2. m.topics # <<>> /\ m.body \in Nat
    BY <1>3, <2>1, TypesAre DEF TypeNames, Subscribes
  <2>3. SubscribeEntries(m) \in Streams /\ m.pkt \in Words
    BY <2>1, <2>2, EntriesAre, Zenon
  <2>4. Body(m) = Then(Short(m.pkt), SubscribeEntries(m))
    BY <1>3, TypesAre DEF Body, TypeNames
  <2>5. Body(m) \in Streams
    BY <2>3, <2>4, WordIs, ThenIs, Zenon
  <2>. QED
    BY <1>1, <1>3, <2>2, <2>3, <2>4, <2>5, TypesAre DEF TypeNames
<1>4. CASE m.type = UNSUBSCRIBE
  <2>1. m \in Unsubscribes
    BY <1>4, ClassIs
  <2>2. m.topics # <<>> /\ m.body \in Nat
    BY <1>4, <2>1, TypesAre DEF TypeNames, Unsubscribes
  <2>3. UnsubscribeEntries(m) \in Streams /\ m.pkt \in Words
    BY <2>1, <2>2, EntriesAre, Zenon
  <2>4. Body(m) = Then(Short(m.pkt), UnsubscribeEntries(m))
    BY <1>4, TypesAre DEF Body, TypeNames
  <2>5. Body(m) \in Streams
    BY <2>3, <2>4, WordIs, ThenIs, Zenon
  <2>. QED
    BY <1>1, <1>4, <2>2, <2>3, <2>4, <2>5, TypesAre DEF TypeNames
<1>5. CASE m.type = SUBACK
  <2>1. m \in Subacks
    BY <1>5, ClassIs
  <2>2. m.qoses \in Texts /\ m.body \in Nat /\ m.pkt \in Words
    BY <2>1 DEF Subacks
  <2>3. m.qoses \in Streams /\ m.pkt \in Words
    BY <2>2, BytesAreStreams, Zenon
  <2>4. Body(m) = Then(Short(m.pkt), m.qoses)
    BY <1>5, TypesAre DEF Body, TypeNames
  <2>5. Body(m) \in Streams
    BY <2>3, <2>4, WordIs, ThenIs, Zenon
  <2>. QED
    BY <1>1, <1>5, <2>2, <2>3, <2>4, <2>5, TypesAre DEF TypeNames
<1>. QED
  BY <1>3, <1>4, <1>5

\* to_string of a subscribe.
LEMMA SubscribeWrites ==
    ASSUME NEW o \in Subscribes
    PROVE  Writes(SubscribeBytes(o))
<1>1. PICK m : m = [o EXCEPT !.flags = 2, !.body = o.body + 2]
  OBVIOUS
<1>2. o.body + 2 \in Nat
  BY DEF Subscribes
<1>3. m \in Subscribes /\ m.type = SUBSCRIBE /\ m.body = o.body + 2
      /\ m.pkt = o.pkt /\ m.topics = o.topics /\ m.qoses = o.qoses
  BY <1>1, <1>2 DEF Subscribes
<1>4. SubscribeEntries(m) = SubscribeEntries(o)
  BY <1>3, Zenon DEF SubscribeEntries
<1>5. \/ ~SubscribeBytes(o).ok
      \/ o.topics # <<>>
         /\ SubscribeBytes(o) = Written(m, m.body, Short(o.pkt) \o SubscribeEntries(o))
  BY <1>1, Zenon DEF SubscribeBytes, Refused
<1>6. CASE o.topics # <<>>
  <2>1. m \in Objects
    BY <1>3, Zenon DEF Objects
  <2>2. /\ Body(m) \in Streams /\ Size(m) = m.body /\ m.body \in Nat
        /\ Body(m) = Then(Short(m.pkt), SubscribeEntries(m))
    BY <1>3, <1>6, <2>1, ListParts, Zenon
  <2>3. Filled(m)
    BY <1>3, <1>6, TypesAre DEF Filled, TypeNames
  <2>4. Writes(Written(m, m.body, Body(m)))
    BY <2>1, <2>2, <2>3, WrittenIs, Zenon
  <2>. QED
    BY <1>3, <1>4, <1>5, <2>2, <2>4, Zenon DEF Writes, Then
<1>. QED
  BY <1>5, <1>6, Zenon DEF Writes

\* to_string of an unsubscribe.
LEMMA UnsubscribeWrites ==
    ASSUME NEW o \in Unsubscribes
    PROVE  Writes(UnsubscribeBytes(o))
<1>1. PICK m : m = [o EXCEPT !.flags = 2, !.body = o.body + 2]
  OBVIOUS
<1>2. o.body + 2 \in Nat
  BY DEF Unsubscribes
<1>3. m \in Unsubscribes /\ m.type = UNSUBSCRIBE /\ m.body = o.body + 2
      /\ m.pkt = o.pkt /\ m.topics = o.topics
  BY <1>1, <1>2 DEF Unsubscribes
<1>4. UnsubscribeEntries(m) = UnsubscribeEntries(o)
  BY <1>3, Zenon DEF UnsubscribeEntries
<1>5. \/ ~UnsubscribeBytes(o).ok
      \/ o.topics # <<>>
         /\ UnsubscribeBytes(o) = Written(m, m.body, Short(o.pkt) \o UnsubscribeEntries(o))
  BY <1>1, Zenon DEF UnsubscribeBytes, Refused
<1>6. CASE o.topics # <<>>
  <2>1. m \in Objects
    BY <1>3, Zenon DEF Objects
  <2>2. /\ Body(m) \in Streams /\ Size(m) = m.body /\ m.body \in Nat
        /\ Body(m) = Then(Short(m.pkt), UnsubscribeEntries(m))
    BY <1>3, <1>6, <2>1, ListParts, Zenon
  <2>3. Filled(m)
    BY <1>3, TypesAre DEF Filled, TypeNames
  <2>4. Writes(Written(m, m.body, Body(m)))
    BY <2>1, <2>2, <2>3, WrittenIs, Zenon
  <2>. QED
    BY <1>3, <1>4, <1>5, <2>2, <2>4, Zenon DEF Writes, Then
<1>. QED
  BY <1>5, <1>6, Zenon DEF Writes

\* to_string of a suback.
LEMMA SubackWrites ==
    ASSUME NEW o \in Subacks
    PROVE  Writes(SubackBytes(o))
<1>1. PICK m : m = [o EXCEPT !.body = o.body + 2]
  OBVIOUS
<1>2. o.body + 2 \in Nat
  BY DEF Subacks
<1>3. m \in Subacks /\ m.type = SUBACK /\ m.body = o.body + 2
      /\ m.pkt = o.pkt /\ m.qoses = o.qoses
  BY <1>1, <1>2 DEF Subacks
<1>4. \/ ~SubackBytes(o).ok
      \/ o.qoses # <<>> /\ SubackBytes(o) = Written(m, m.body, Short(o.pkt) \o o.qoses)
  BY <1>1, Zenon DEF SubackBytes, Refused
<1>5. CASE o.qoses # <<>>
  <2>1. m \in Objects
    BY <1>3, Zenon DEF Objects
  <2>2. /\ Body(m) \in Streams /\ Size(m) = m.body /\ m.body \in Nat
        /\ Body(m) = Then(Short(m.pkt), m.qoses)
    BY <1>3, <2>1, ListParts, Zenon
  <2>3. Filled(m)
    BY <1>3, <1>5, TypesAre DEF Filled, TypeNames
  <2>4. Writes(Written(m, m.body, Body(m)))
    BY <2>1, <2>2, <2>3, WrittenIs, Zenon
  <2>. QED
    BY <1>3, <1>4, <2>2, <2>4, Zenon DEF Writes, Then
<1>. QED
  BY <1>4, <1>5, Zenon DEF Writes

\* What goes out is the message as it is left: its header and its body.
LEMMA ToStringIs ==
    ASSUME NEW o \in Objects
    PROVE  Writes(to_string(o))
<1>1. CASE o.type = CONNECT
  <2>1. to_string(o) = ConnectBytes(o)
    BY <1>1, TypesAre DEF to_string, TypeNames
  <2>. QED
    BY <1>1, <2>1, ClassIs, ConnectWrites, Zenon
<1>2. CASE o.type = CONNACK
  <2>1. to_string(o) = ConnackBytes(o)
    BY <1>2, TypesAre DEF to_string, TypeNames
  <2>. QED
    BY <1>2, <2>1, ClassIs, ConnackWrites, Zenon
<1>3. CASE o.type = PUBLISH
  <2>1. to_string(o) = PublishBytes(o)
    BY <1>3, TypesAre DEF to_string, TypeNames
  <2>. QED
    BY <1>3, <2>1, ClassIs, PublishWrites, Zenon
<1>4. CASE o.type \in Acks
  <2>1. to_string(o) = AckBytes(o)
    BY <1>4, TypesAre DEF to_string, TypeNames
  <2>. QED
    BY <1>4, <2>1, ClassIs, AckWrites, Zenon
<1>5. CASE o.type = SUBSCRIBE
  <2>1. to_string(o) = SubscribeBytes(o)
    BY <1>5, TypesAre DEF to_string, TypeNames
  <2>. QED
    BY <1>5, <2>1, ClassIs, SubscribeWrites, Zenon
<1>6. CASE o.type = UNSUBSCRIBE
  <2>1. to_string(o) = UnsubscribeBytes(o)
    BY <1>6, TypesAre DEF to_string, TypeNames
  <2>. QED
    BY <1>6, <2>1, ClassIs, UnsubscribeWrites, Zenon
<1>7. CASE o.type = SUBACK
  <2>1. to_string(o) = SubackBytes(o)
    BY <1>7, TypesAre DEF to_string, TypeNames
  <2>. QED
    BY <1>7, <2>1, ClassIs, SubackWrites, Zenon
<1>8. CASE o.type \in Bodyless
  <2>1. to_string(o) = Written(o, 0, <<>>)
    BY <1>8, TypesAre DEF to_string, TypeNames
  <2>. QED
    BY <1>8, <2>1, ClassIs, SignalWrites, Zenon
<1>9. o.type \in 1..14
  BY ClassIs, Zenon
<1>. QED
  BY <1>1, <1>2, <1>3, <1>4, <1>5, <1>6, <1>7, <1>8, <1>9, TypesAre DEF TypeNames

-----------------------------------------------------------------------------
(***************************************************************************)
(* The handlers: what they still await of a message.                       *)
(***************************************************************************)
\* What an object awaits of a connack.
AwaitsConnack(p, m, r) ==
    /\ p.m = [m EXCEPT !.cflags = 0, !.code = 0]
    /\ Filling(p, <<m.cflags, m.code>>, r, <<>>)

\* What an object awaits of an acknowledgement.
AwaitsAck(p, m, r) ==
    /\ p.m = [m EXCEPT !.pkt = 0]
    /\ Filling(p, Short(m.pkt), r, <<>>)

\* Behind a publish's topic.
Rest(m) == Then(PubId(m), m.payload)

\* A publish of which topic, id and payload are read so far.
PublishAt(m, topic, pkt, payload) ==
    [type |-> PUBLISH, flags |-> m.flags, topic |-> topic, pkt |-> pkt, payload |-> payload]

\* What an object awaits of a publish, at each of its handlers.
AwaitsPublish(p, m, r) ==
    \/ /\ p.st = "HDR_VAR" /\ p.m = PublishAt(m, <<>>, 0, <<>>) /\ p.body = Size(m)
       /\ p.buf = <<>> /\ p.acc = <<>> /\ r = Body(m)
    \/ /\ p.st = "TOPIC_LEN" /\ p.m = PublishAt(m, <<>>, 0, <<>>) /\ p.body = Size(m)
       /\ p.acc = <<>> /\ Filling(p, Short(Len(m.topic)), r, Then(m.topic, Rest(m)))
    \/ /\ p.st = "TOPIC_VAL" /\ p.m = PublishAt(m, <<>>, 0, <<>>) /\ p.body = Size(m)
       /\ p.buf = <<>> /\ p.head = Len(m.topic) + 2 /\ Reading(p, m.topic, r, Rest(m))
    \/ /\ p.st = "PKTID" /\ p.m = PublishAt(m, m.topic, 0, <<>>) /\ p.body = Size(m)
       /\ p.head = Len(m.topic) + 2 /\ Qos(m.flags) > 0
       /\ Filling(p, Short(m.pkt), r, m.payload)
    \/ /\ p.st = "PAYLOAD" /\ p.body = Len(m.payload) /\ p.m.payload \in Streams
       /\ p.m = [Seen(m) EXCEPT !.payload = p.m.payload]
       /\ Len(p.m.payload) < Len(m.payload) /\ Then(p.m.payload, r) = m.payload

\* The fields of a connect that are known, up to the n-th text.
Known(p, m, n) ==
    /\ p.need \in Nat
    /\ p.m = [type |-> CONNECT, flags |-> 0, cflags |-> m.cflags, wqos |-> p.m.wqos,
              keep |-> p.m.keep, cid |-> IF n >= 1 THEN m.cid ELSE <<>>,
              wtopic |-> IF n >= 2 THEN m.wtopic ELSE <<>>,
              wmsg |-> IF n >= 3 THEN m.wmsg ELSE <<>>,
              user |-> IF n >= 4 THEN m.user ELSE <<>>,
              pass |-> IF n >= 5 THEN m.pass ELSE <<>>]

\* The n-th text w, of which a is what follows, is awaited: its length or itself.
AwaitsText(p, m, r, n, len, val, w, a) ==
    /\ Known(p, m, n - 1)
    /\ \/ p.st = len /\ p.acc = <<>> /\ Filling(p, Short(Len(w)), r, Then(w, a))
       \/ p.st = val /\ p.buf = <<>> /\ p.need > 0 /\ Reading(p, w, r, a)

\* What an object awaits of a connect, at each of its handlers.
AwaitsConnect(p, m, r) ==
    \/ /\ p.st = "HDR_VAR" /\ p.acc = <<>> /\ p.need = 0
       /\ \E k : p.m = [type |-> CONNECT, flags |-> 0, cflags |-> 0, wqos |-> 0, keep |-> k,
                        cid |-> <<>>, wtopic |-> <<>>, wmsg |-> <<>>, user |-> <<>>,
                        pass |-> <<>>]
       /\ Filling(p, ConnectHead(m), r, Then(Text(m.cid), FromTopic(m)))
    \/ AwaitsText(p, m, r, 1, "CID_LEN", "CID_VAL", m.cid, FromTopic(m))
    \/ /\ m.wtopic # <<>>
       /\ AwaitsText(p, m, r, 2, "WILL_TOPIC_LEN", "WILL_TOPIC_VAL", m.wtopic, FromMsg(m))
    \/ /\ m.wmsg # <<>>
       /\ AwaitsText(p, m, r, 3, "WILL_MSG_LEN", "WILL_MSG_VAL", m.wmsg, FromUser(m))
    \/ /\ m.user # <<>>
       /\ AwaitsText(p, m, r, 4, "USERNAME_LEN", "USERNAME_VAL", m.user, FromPass(m))
    \/ /\ m.pass # <<>>
       /\ AwaitsText(p, m, r, 5, "PASSWD_LEN", "PASSWD_VAL", m.pass, <<>>)

\* The entries of a subscribe: t[i] follows the i-th.
SubscribeAt(m, i) ==
    [type |-> SUBSCRIBE, flags |-> 0, pkt |-> m.pkt, topics |-> SubSeq(m.topics, 1, i),
     qoses |-> SubSeq(m.qoses, 1, i)]

\* What an object awaits of the i-th entry of a subscribe, at each of its handlers.
AwaitsEntry(p, m, r, t, i) ==
    LET w == m.topics[i]
        a == Then(<<m.qoses[i]>>, t[i])
    IN  /\ p.m = SubscribeAt(m, i - 1)
        /\ \/ /\ p.st = "TOPIC_LEN" /\ p.acc = <<>> /\ Filling(p, Short(Len(w)), r, Then(w, a))
              /\ p.nread + Len(r) = p.body
           \/ /\ p.st = "TOPIC_VAL" /\ p.buf = <<>> /\ Reading(p, w, r, a)
              /\ p.nread + Len(w) + Len(a) = p.body
           \/ /\ p.st = "TOPIC_QOS" /\ p.buf = <<>> /\ p.acc = w /\ r = a
              /\ p.nread + Len(r) = p.body

\* t is the row of what follows the entries.
EntryTails(m, t) ==
    \E q : /\ Behind(t, q, Len(m.topics), SubscribeEntries(m))
           /\ \A i \in 1..Len(m.topics) : q[i] = Then(Text(m.topics[i]), <<m.qoses[i]>>)

\* What an object awaits of a subscribe.
AwaitsSubscribe(p, m, r) ==
    /\ p.nread \in Int /\ p.body = Len(Body(m))
    /\ \/ /\ p.st = "HDR_VAR" /\ p.acc = <<>> /\ p.nread + Len(r) = p.body
          /\ p.m = [type |-> SUBSCRIBE, flags |-> 0, pkt |-> 0, topics |-> <<>>, qoses |-> <<>>]
          /\ Filling(p, Short(m.pkt), r, SubscribeEntries(m))
       \/ \E t, i : EntryTails(m, t) /\ i \in 1..Len(m.topics) /\ AwaitsEntry(p, m, r, t, i)

\* What an object awaits of an unsubscribe of one topic.
AwaitsUnsubscribe(p, m, r) ==
    LET w == m.topics[1]
        known(pkt) == [type |-> UNSUBSCRIBE, flags |-> m.flags, pkt |-> pkt, topics |-> <<>>]
    IN  /\ p.nread \in Int /\ p.body = Len(Body(m))
        /\ \/ /\ p.st = "HDR_VAR" /\ p.acc = <<>> /\ p.nread + Len(r) = p.body
              /\ p.m = known(0) /\ Filling(p, Short(m.pkt), r, UnsubscribeEntries(m))
           \/ /\ p.st = "TOPIC_LEN" /\ p.acc = <<>> /\ p.nread + Len(r) = p.body
              /\ p.m = known(m.pkt) /\ Filling(p, Short(Len(w)), r, w)
           \/ /\ p.st = "TOPIC_VAL" /\ p.buf = <<>> /\ p.nread + Len(w) = p.body
              /\ p.m = known(m.pkt) /\ Reading(p, w, r, <<>>)

\* What an object awaits of a suback.
AwaitsSuback(p, m, r) ==
    /\ p.nread \in Int /\ p.body = Len(Body(m)) /\ p.nread + Len(r) = p.body
    /\ \/ /\ p.st = "HDR_VAR"
          /\ p.m = [type |-> SUBACK, flags |-> 0, pkt |-> 0, qoses |-> <<>>]
          /\ Filling(p, Short(m.pkt), r, m.qoses)
       \/ /\ p.st = "TOPIC_QOS" /\ p.m.qoses \in Streams
          /\ p.m = [type |-> SUBACK, flags |-> 0, pkt |-> m.pkt, qoses |-> p.m.qoses]
          /\ Then(p.m.qoses, r) = m.qoses /\ r # <<>>

\* r is what object p still awaits of message m.
Expect(p, m, r) ==
    /\ IsObject(p) /\ p.m.type = m.type
    /\ \/ p.done = TRUE /\ r = <<>> /\ Same(Seen(m), p.m)
       \/ /\ p.done = FALSE
          /\ \/ m.type = CONNECT /\ AwaitsConnect(p, m, r)
             \/ m.type = CONNACK /\ AwaitsConnack(p, m, r)
             \/ m.type = PUBLISH /\ AwaitsPublish(p, m, r)
             \/ m.type \in Acks /\ AwaitsAck(p, m, r)
             \/ m.type = SUBSCRIBE /\ AwaitsSubscribe(p, m, r)
             \/ m.type = UNSUBSCRIBE /\ AwaitsUnsubscribe(p, m, r)
             \/ m.type = SUBACK /\ AwaitsSuback(p, m, r)

\* A handler that gets on with it.
Steps(u, m, s, l) ==
    /\ u.err = FALSE /\ u.d \in Streams
    /\ \E q \in Streams : Expect(u.p, m, q) /\ Then(u.d, s) = Then(q, l)

\* What the receiver should see of each type.
LEMMA SeenIs ==
    ASSUME NEW m, m.type \notin {PUBLISH, SUBSCRIBE, UNSUBSCRIBE, SUBACK}
    PROVE  Seen(m) = m
BY DEF Seen

\* A message is the same as itself, but for what Same leaves out.
LEMMA SameIs ==
    ASSUME NEW a, a.type # CONNECT, a.type # SUBSCRIBE
    PROVE  Same(a, a)
BY DEF Same

\* The handler of the acknowledgements gets on.
LEMMA AckSteps ==
    ASSUME NEW m \in AckMessages, NEW p, NEW d \in Streams, NEW s \in Streams,
           NEW r \in Streams, NEW l \in Streams, Then(d, s) = Then(r, l),
           IsObject(p), p.done = FALSE, AwaitsAck(p, m, r)
    PROVE  Steps(AckUpdate(p, d), m, s, l)
<1>1. PICK e \in Streams : e = <<>>
  BY NothingIs
<1>2. PICK f \in Streams : f = Short(m.pkt) /\ Len(f) = 2 /\ UnpackShort(f) = m.pkt
  <2>1. m.pkt \in Words
    BY DEF AckMessages
  <2>. QED
    BY <2>1, WordIs
<1>3. PICK x : x = Fixed(p, d, 2)
  OBVIOUS
<1>4. Fills(x, p, f, s, l, e)
  <2>1. Filling(p, f, r, e) /\ 2 = Len(f)
    BY <1>1, <1>2 DEF AwaitsAck
  <2>2. Fills(Fixed(p, d, 2), p, f, s, l, e)
    BY <1>1, <1>2, <2>1, FixedFills
  <2>. QED
    BY <1>3, <2>2
<1>5. m.type \in Acks /\ m = [type |-> m.type, flags |-> m.flags, pkt |-> m.pkt]
  BY DEF AckMessages
<1>6. /\ x.err = FALSE /\ x.d \in Streams
      /\ x.p = [p EXCEPT !.buf = x.p.buf]
  BY <1>4 DEF Fills
<1>7. x.p.m = [m EXCEPT !.pkt = 0] /\ x.p.done = FALSE /\ IsObject(x.p) /\ x.p.m.type = m.type
  BY <1>5, <1>6 DEF IsObject, AwaitsAck
<1>8. CASE ~x.whole
  <2>1. AckUpdate(p, d) = x
    BY <1>3, <1>8 DEF AckUpdate
  <2>2. PICK q \in Streams : Filling(x.p, f, q, e) /\ Then(x.d, s) = Then(q, l)
    BY <1>4 DEF Fills
  <2>3. Expect(x.p, m, q)
    BY <1>1, <1>2, <1>5, <1>7, <2>2 DEF Expect, AwaitsAck
  <2>4. Steps(x, m, s, l)
    BY <1>6, <2>2, <2>3 DEF Steps
  <2>. QED
    BY <2>1, <2>4
<1>9. CASE x.whole
  <2>1. PICK y : y = [x.p EXCEPT !.m.pkt = UnpackShort(x.p.buf), !.done = TRUE]
    OBVIOUS
  <2>2. AckUpdate(p, d) = Result(y, x.d)
    BY <1>3, <1>9, <2>1 DEF AckUpdate
  <2>3. x.p.buf = f /\ Then(x.d, s) = Then(e, l)
    BY <1>4, <1>9 DEF Fills
  <2>4. y.m = m /\ y.done = TRUE /\ IsObject(y)
    BY <1>2, <1>5, <1>7, <2>1, <2>3 DEF IsObject
  <2>5. Seen(m) = m /\ Same(m, m)
    BY <1>5, OtherTypes, SeenIs, SameIs
  <2>6. Expect(y, m, e)
    BY <1>1, <2>4, <2>5 DEF Expect
  <2>7. Result(y, x.d).err = FALSE /\ Result(y, x.d).d = x.d /\ Result(y, x.d).p = y
    BY DEF Result
  <2>8. Steps(Result(y, x.d), m, s, l)
    BY <1>1, <1>6, <2>3, <2>6, <2>7 DEF Steps
  <2>. QED
    BY <2>2, <2>8
<1>. QED
  BY <1>8, <1>9

\* The handler of a connack gets on.
LEMMA ConnackSteps ==
    ASSUME NEW m \in Connacks, NEW p, NEW d \in Streams, NEW s \in Streams,
           NEW r \in Streams, NEW l \in Streams, Then(d, s) = Then(r, l),
           IsObject(p), p.done = FALSE, AwaitsConnack(p, m, r)
    PROVE  Steps(ConnackUpdate(p, d), m, s, l)
<1>1. PICK e \in Streams : e = <<>>
  BY NothingIs
<1>2. PICK f \in Streams : /\ f = <<m.cflags, m.code>> /\ Len(f) = 2
                           /\ f[1] = m.cflags /\ f[2] = m.code
  <2>1. m.cflags \in 0..1 /\ m.code \in 0..255
    BY DEF Connacks, Bytes
  <2>2. m.cflags \in Nat /\ m.code \in Nat
    BY <2>1
  <2>3. /\ <<m.cflags, m.code>> \in Streams /\ Len(<<m.cflags, m.code>>) = 2
        /\ <<m.cflags, m.code>>[1] = m.cflags /\ <<m.cflags, m.code>>[2] = m.code
    BY <2>2, PairIs
  <2>. QED
    BY <2>3, Zenon
<1>3. PICK x : x = Fixed(p, d, 2)
  OBVIOUS
<1>4. Fills(x, p, f, s, l, e)
  <2>1. Filling(p, f, r, e) /\ 2 = Len(f)
    BY <1>1, <1>2 DEF AwaitsConnack
  <2>2. Fills(Fixed(p, d, 2), p, f, s, l, e)
    BY <1>1, <1>2, <2>1, FixedFills
  <2>. QED
    BY <1>3, <2>2
<1>5. m.type = CONNACK /\ m = [type |-> m.type, flags |-> m.flags, cflags |-> m.cflags, code |-> m.code]
  BY DEF Connacks
<1>6. /\ x.err = FALSE /\ x.d \in Streams
      /\ x.p = [p EXCEPT !.buf = x.p.buf]
  BY <1>4 DEF Fills
<1>7. x.p.m = [m EXCEPT !.cflags = 0, !.code = 0] /\ x.p.done = FALSE /\ IsObject(x.p)
      /\ x.p.m.type = m.type
  BY <1>5, <1>6 DEF IsObject, AwaitsConnack
<1>8. CASE ~x.whole
  <2>1. ConnackUpdate(p, d) = x
    BY <1>3, <1>8 DEF ConnackUpdate
  <2>2. PICK q \in Streams : Filling(x.p, f, q, e) /\ Then(x.d, s) = Then(q, l)
    BY <1>4 DEF Fills
  <2>3. Expect(x.p, m, q)
    BY <1>1, <1>2, <1>5, <1>7, <2>2 DEF Expect, AwaitsConnack
  <2>4. Steps(x, m, s, l)
    BY <1>6, <2>2, <2>3 DEF Steps
  <2>. QED
    BY <2>1, <2>4
<1>9. CASE x.whole
  <2>1. PICK y : y = [x.p EXCEPT !.m.cflags = x.p.buf[1], !.m.code = x.p.buf[2], !.done = TRUE]
    OBVIOUS
  <2>2. ConnackUpdate(p, d) = Result(y, x.d)
    BY <1>3, <1>9, <2>1 DEF ConnackUpdate
  <2>3. x.p.buf = f /\ Then(x.d, s) = Then(e, l)
    BY <1>4, <1>9 DEF Fills
  <2>4. y.m = m /\ y.done = TRUE /\ IsObject(y)
    BY <1>2, <1>5, <1>7, <2>1, <2>3 DEF IsObject
  <2>5. Seen(m) = m /\ Same(m, m)
    <3>1. CONNACK \notin {CONNECT, PUBLISH, SUBSCRIBE, UNSUBSCRIBE, SUBACK}
      BY TypesAre DEF TypeNames
    <3>. QED
      BY <1>5, <3>1, SeenIs, SameIs
  <2>6. Expect(y, m, e)
    BY <1>1, <2>4, <2>5 DEF Expect
  <2>7. Result(y, x.d).err = FALSE /\ Result(y, x.d).d = x.d /\ Result(y, x.d).p = y
    BY DEF Result
  <2>8. Steps(Result(y, x.d), m, s, l)
    BY <1>1, <1>6, <2>3, <2>6, <2>7 DEF Steps
  <2>. QED
    BY <2>2, <2>8
<1>. QED
  BY <1>8, <1>9

\* The publishes that are got through.
LEMMA PublishFacts ==
    ASSUME NEW m, m \in Publishes, Sound(m), Size(m) < LenPow[4]
    PROVE  /\ m.topic \in Streams /\ Len(m.topic) \in Nat /\ Len(m.topic) > 0
           /\ m.payload \in Streams /\ Len(m.payload) \in Nat
           /\ Qos(m.flags) = 0 => Len(m.payload) > 0
           /\ Qos(m.flags) \in Nat
           /\ PubId(m) \in Streams /\ Rest(m) \in Streams
           /\ Qos(m.flags) > 0 => PubId(m) = Short(m.pkt) /\ Len(PubId(m)) = 2
           /\ Qos(m.flags) = 0 => Rest(m) = m.payload /\ Len(PubId(m)) = 0
           /\ m.pkt \in Words
           /\ Short(Len(m.topic)) \in Streams /\ Len(Short(Len(m.topic))) = 2
           /\ UnpackShort(Short(Len(m.topic))) = Len(m.topic)
           /\ Then(m.topic, Rest(m)) \in Streams
           /\ Body(m) = Then(Short(Len(m.topic)), Then(m.topic, Rest(m)))
           /\ Size(m) = Len(m.topic) + 2 + Len(m.payload) + Len(PubId(m))
           /\ Size(m) < UintMod
           /\ m.type = PUBLISH
           /\ Seen(m) = PublishAt(m, m.topic, IF Qos(m.flags) = 0 THEN 0 ELSE m.pkt, m.payload)
<1>1. m.type = PUBLISH /\ m.flags \in 0..15
  BY DEF Publishes
<1>2. m.topic # <<>> /\ Fits(m.topic) /\ (Qos(m.flags) > 0 \/ m.payload # <<>>)
  BY <1>1, TypesAre DEF Sound, Topic, TypeNames
<1>3. /\ m.topic \in Streams /\ m.payload \in Streams /\ m.pkt \in Words
      /\ PubId(m) \in Streams /\ Then(PubId(m), m.payload) \in Streams
      /\ Body(m) = Then(Text(m.topic), Then(PubId(m), m.payload))
      /\ Size(m) = Len(m.topic) + 2 + Len(m.payload) + Len(PubId(m))
      /\ Size(m) \in Nat
  BY PublishParts, Zenon
<1>4. Qos(m.flags) \in Nat
  BY <1>1, SMTT(30) DEF Qos
<1>5. /\ Len(m.topic) \in Nat /\ Len(m.topic) > 0 /\ Len(m.payload) \in Nat
      /\ m.payload # <<>> => Len(m.payload) > 0
  <2>1. \A z \in Streams : Len(z) \in Nat /\ (z # <<>> => Len(z) > 0)
    <3> TAKE z \in Streams
    <3>. QED
      BY ThenNothing
  <2>. QED
    BY <1>2, <1>3, <2>1
<1>6. /\ Text(m.topic) = Then(Short(Len(m.topic)), m.topic)
      /\ Short(Len(m.topic)) \in Streams /\ Len(Short(Len(m.topic))) = 2
      /\ UnpackShort(Short(Len(m.topic))) = Len(m.topic)
  BY <1>2, <1>3, TextIs, Zenon
<1>7. Rest(m) \in Streams /\ Then(m.topic, Rest(m)) \in Streams
  BY <1>3, ThenIs, Zenon DEF Rest
<1>8. Body(m) = Then(Short(Len(m.topic)), Then(m.topic, Rest(m)))
  <2>1. PICK a \in Streams, b \in Streams, c \in Streams :
          a = Short(Len(m.topic)) /\ b = m.topic /\ c = Rest(m)
    BY <1>3, <1>6, <1>7, Zenon
  <2>2. Body(m) = Then(Then(a, b), c)
    BY <1>3, <1>6, <2>1, Zenon DEF Rest
  <2>3. Then(Then(a, b), c) = Then(a, Then(b, c))
    BY <2>1, ThenJoins
  <2>. QED
    BY <2>1, <2>2, <2>3, Zenon
<1>9. Qos(m.flags) > 0 => PubId(m) = Short(m.pkt) /\ Len(PubId(m)) = 2
  BY <1>3, WordIs DEF PubId
<1>10. Qos(m.flags) = 0 => Rest(m) = m.payload /\ Len(PubId(m)) = 0
  <2>1. ASSUME Qos(m.flags) = 0 PROVE Rest(m) = m.payload /\ Len(PubId(m)) = 0
    <3>1. PubId(m) = <<>>
      BY <2>1 DEF PubId
    <3>2. Rest(m) = Then(<<>>, m.payload)
      BY <3>1 DEF Rest
    <3>. QED
      BY <1>3, <3>1, <3>2, ThenNothing
  <2>. QED
    BY <2>1
<1>11. Size(m) < UintMod
  <2> DEFINE j == LenPow[4]
             k == Size(m)
  <2>1. j \in Nat /\ j <= UintMod /\ UintMod \in Nat /\ k \in Nat /\ k < j
    <3>1. LenPow[4] \in Nat
      BY PowersAre
    <3>2. LenPow[4] <= UintMod /\ UintMod \in Nat
      BY CodecAssumption
    <3>. QED
      BY <1>3, <3>1, <3>2, Zenon
  <2>. HIDE DEF j, k
  <2>2. k < UintMod
    BY <2>1
  <2>. QED
    BY <2>2 DEF k
<1>12. Seen(m) = PublishAt(m, m.topic, IF Qos(m.flags) = 0 THEN 0 ELSE m.pkt, m.payload)
  <2>1. m = [type |-> PUBLISH, flags |-> m.flags, topic |-> m.topic, pkt |-> m.pkt,
             payload |-> m.payload]
    BY DEF Publishes
  <2>2. Seen(m) = IF Qos(m.flags) = 0 THEN [m EXCEPT !.pkt = 0] ELSE m
    BY <1>1, TypesAre DEF Seen, TypeNames
  <2>. QED
    BY <2>1, <2>2 DEF PublishAt
<1>. QED
  BY <1>1, <1>2, <1>3, <1>4, <1>5, <1>6, <1>7, <1>8, <1>9, <1>10, <1>11, <1>12

\* An empty buffer before a part.
LEMMA Anew ==
    ASSUME NEW f \in Streams, NEW a \in Streams, NEW p, p.buf = <<>>
    PROVE  Filling(p, f, Then(f, a), a)
<1>1. p.buf \in Streams /\ Len(p.buf) = 0 /\ Len(f) \in Nat /\ Then(f, a) \in Streams
  BY NothingIs, LenIs, ThenIs
<1>2. Then(p.buf, Then(f, a)) = Then(f, a)
  BY <1>1, ThenNothing
<1>. QED
  BY <1>1, <1>2 DEF Filling

\* A text of which nothing is read.
LEMMA Afresh ==
    ASSUME NEW w \in Streams, NEW a \in Streams, NEW p, p.acc = <<>>, p.need = Len(w)
    PROVE  Reading(p, w, Then(w, a), a)
<1>1. p.acc \in Streams /\ Then(p.acc, w) = w /\ p.need \in Nat
  BY NothingIs, ThenNothing, LenIs
<1>. QED
  BY <1>1 DEF Reading

\* The handlers of a publish get on, one by one.
LEMMA PublishHdrSteps ==
    ASSUME NEW m, m \in Publishes, Sound(m), Size(m) < LenPow[4],
           NEW p, NEW d \in Streams, NEW s \in Streams,
           NEW r \in Streams, NEW l \in Streams, Then(d, s) = Then(r, l),
           IsObject(p), p.done = FALSE, AwaitsPublish(p, m, r), p.st = "HDR_VAR"
    PROVE  Steps(PublishUpdate(p, d), m, s, l)
<1>1. PICK y : y = [p EXCEPT !.st = "TOPIC_LEN"]
  OBVIOUS
<1>2. PublishUpdate(p, d) = Result(y, d)
  BY <1>1 DEF PublishUpdate
<1>3. /\ p.m = PublishAt(m, <<>>, 0, <<>>) /\ p.body = Size(m)
      /\ p.buf = <<>> /\ p.acc = <<>> /\ r = Body(m)
  BY DEF AwaitsPublish
<1>4. /\ y.m = PublishAt(m, <<>>, 0, <<>>) /\ y.body = Size(m) /\ y.done = FALSE
      /\ y.buf = <<>> /\ y.acc = <<>> /\ IsObject(y) /\ y.st = "TOPIC_LEN"
  BY <1>1, <1>3 DEF IsObject
<1>5. PICK f \in Streams, a \in Streams :
        /\ f = Short(Len(m.topic)) /\ a = Then(m.topic, Rest(m)) /\ r = Then(f, a)
        /\ m.type = PUBLISH
  BY <1>3, PublishFacts
<1>6. Filling(y, f, r, a)
  BY <1>4, <1>5, Anew
<1>7. y.m.type = PUBLISH
  BY <1>4 DEF PublishAt
<1>8. Expect(y, m, r)
  BY <1>4, <1>5, <1>6, <1>7 DEF Expect, AwaitsPublish
<1>9. Result(y, d).err = FALSE /\ Result(y, d).d = d /\ Result(y, d).p = y
  BY DEF Result
<1>10. Steps(Result(y, d), m, s, l)
  BY <1>8, <1>9 DEF Steps
<1>. QED
  BY <1>2, <1>10

\* The length of the topic.
LEMMA PublishLenSteps ==
    ASSUME NEW m, m \in Publishes, Sound(m), Size(m) < LenPow[4],
           NEW p, NEW d \in Streams, NEW s \in Streams,
           NEW r \in Streams, NEW l \in Streams, Then(d, s) = Then(r, l),
           IsObject(p), p.done = FALSE, AwaitsPublish(p, m, r), p.st = "TOPIC_LEN"
    PROVE  Steps(PublishUpdate(p, d), m, s, l)
<1>1. PICK f \in Streams, a \in Streams :
        /\ f = Short(Len(m.topic)) /\ a = Then(m.topic, Rest(m)) /\ Len(f) = 2
        /\ UnpackShort(f) = Len(m.topic)
  BY PublishFacts
<1>2. m.topic \in Streams /\ Len(m.topic) \in Nat /\ Len(m.topic) > 0
      /\ Rest(m) \in Streams /\ m.type = PUBLISH
  BY PublishFacts
<1>3. /\ p.m = PublishAt(m, <<>>, 0, <<>>) /\ p.body = Size(m)
      /\ p.acc = <<>> /\ Filling(p, f, r, a)
  BY <1>1 DEF AwaitsPublish
<1>4. PICK x : x = Length(p, d)
  OBVIOUS
<1>5. FillsLength(x, p, Len(m.topic), f, r, s, l, a)
  BY <1>1, <1>3, <1>4, LengthFills
<1>6. PublishUpdate(p, d) =
        CASE ~x.whole -> x
          [] x.whole /\ x.p.need = 0 -> Failed(x.p)
          [] OTHER -> Result([x.p EXCEPT !.head = x.p.need + 2, !.st = "TOPIC_VAL"], x.d)
  BY <1>4 DEF PublishUpdate, PublishTopicLen
<1>7. p.m.type = PUBLISH
  BY <1>3 DEF PublishAt
<1>8. CASE ~x.whole
  <2>1. PublishUpdate(p, d) = x
    BY <1>6, <1>8
  <2>2. PICK q \in Streams :
           /\ x.p = [p EXCEPT !.buf = x.p.buf, !.nread = p.nread + (Len(r) - Len(q))]
           /\ Filling(x.p, f, q, a) /\ Then(x.d, s) = Then(q, l)
    BY <1>5, <1>8 DEF FillsLength
  <2>3. /\ x.p.m = p.m /\ x.p.body = p.body /\ x.p.acc = p.acc /\ x.p.st = "TOPIC_LEN"
        /\ x.p.done = FALSE /\ IsObject(x.p)
    BY <2>2 DEF IsObject
  <2>4. Expect(x.p, m, q)
    BY <1>1, <1>2, <1>3, <1>7, <2>2, <2>3 DEF Expect, AwaitsPublish
  <2>5. x.err = FALSE /\ x.d \in Streams
    BY <1>5 DEF FillsLength
  <2>6. Steps(x, m, s, l)
    BY <2>2, <2>4, <2>5 DEF Steps
  <2>. QED
    BY <2>1, <2>6
<1>9. CASE x.whole
  <2>1. /\ x.p = [p EXCEPT !.buf = <<>>, !.need = Len(m.topic),
                           !.nread = p.nread + (Len(r) - Len(a))]
        /\ Then(x.d, s) = Then(a, l)
    BY <1>5, <1>9 DEF FillsLength
  <2>2. x.p.need = Len(m.topic)
    BY <2>1 DEF IsObject
  <2>3. PICK y : y = [x.p EXCEPT !.head = x.p.need + 2, !.st = "TOPIC_VAL"]
    OBVIOUS
  <2>4. PublishUpdate(p, d) = Result(y, x.d)
    BY <1>2, <1>6, <1>9, <2>2, <2>3
  <2>5. /\ y.m = p.m /\ y.body = p.body /\ y.acc = p.acc /\ y.st = "TOPIC_VAL"
        /\ y.buf = <<>> /\ y.head = Len(m.topic) + 2 /\ y.need = Len(m.topic)
        /\ y.done = FALSE /\ IsObject(y)
    BY <2>1, <2>2, <2>3 DEF IsObject
  <2>6. Reading(y, m.topic, a, Rest(m))
    BY <1>1, <1>2, <1>3, <2>5, Afresh
  <2>7. Expect(y, m, a)
    BY <1>2, <1>3, <1>7, <2>5, <2>6 DEF Expect, AwaitsPublish
  <2>8. Result(y, x.d).err = FALSE /\ Result(y, x.d).d = x.d /\ Result(y, x.d).p = y
    BY DEF Result
  <2>9. x.d \in Streams
    BY <1>5 DEF FillsLength
  <2>10. Steps(Result(y, x.d), m, s, l)
    BY <1>1, <2>1, <2>7, <2>8, <2>9 DEF Steps
  <2>. QED
    BY <2>4, <2>10
<1>. QED
  BY <1>8, <1>9

\* The topic.
LEMMA PublishValSteps ==
    ASSUME NEW m, m \in Publishes, Sound(m), Size(m) < LenPow[4],
           NEW p, NEW d \in Streams, NEW s \in Streams,
           NEW r \in Streams, NEW l \in Streams, Then(d, s) = Then(r, l),
           IsObject(p), p.done = FALSE, AwaitsPublish(p, m, r), p.st = "TOPIC_VAL"
    PROVE  Steps(PublishUpdate(p, d), m, s, l)
<1>1. PICK w \in Streams, a \in Streams :
        w = m.topic /\ a = Rest(m) /\ Len(w) \in Nat
  BY PublishFacts
<1>2. m.type = PUBLISH
  BY PublishFacts
<1>3. /\ p.m = PublishAt(m, <<>>, 0, <<>>) /\ p.body = Size(m)
      /\ p.buf = <<>> /\ p.head = Len(w) + 2 /\ Reading(p, w, r, a)
  BY <1>1 DEF AwaitsPublish
<1>4. PICK x : x = Value(p, d)
  OBVIOUS
<1>5. Reads(x, p, w, s, l, a)
  BY <1>3, <1>4, ValueReads
<1>6. p.m.type = PUBLISH /\ p.m.flags = m.flags
  BY <1>3 DEF PublishAt
<1>7. /\ x.err = FALSE /\ x.d \in Streams
      /\ x.p = [p EXCEPT !.need = x.p.need, !.acc = x.p.acc]
  BY <1>5 DEF Reads
<1>8. CASE ~x.whole
  <2>1. PublishUpdate(p, d) = x
    BY <1>4, <1>8 DEF PublishUpdate, PublishTopicVal
  <2>2. PICK q \in Streams : Reading(x.p, w, q, a) /\ Then(x.d, s) = Then(q, l)
    BY <1>5, <1>8 DEF Reads
  <2>3. /\ x.p.m = p.m /\ x.p.body = p.body /\ x.p.buf = p.buf /\ x.p.st = "TOPIC_VAL"
        /\ x.p.head = p.head /\ x.p.done = FALSE /\ IsObject(x.p)
    BY <1>7 DEF IsObject
  <2>4. Expect(x.p, m, q)
    BY <1>1, <1>2, <1>3, <1>6, <2>2, <2>3 DEF Expect, AwaitsPublish
  <2>5. Steps(x, m, s, l)
    BY <1>7, <2>2, <2>4 DEF Steps
  <2>. QED
    BY <2>1, <2>5
<1>9. CASE x.whole /\ Qos(m.flags) # 0
  <2>1. PICK y : y = [x.p EXCEPT !.m.topic = x.p.acc, !.st = "PKTID"]
    OBVIOUS
  <2>2. PublishUpdate(p, d) = Result(y, x.d)
    <3>1. [[x.p EXCEPT !.m.topic = x.p.acc] EXCEPT !.st = "PKTID"] = y
      BY <1>7, <2>1 DEF IsObject
    <3>. QED
      BY <1>4, <1>6, <1>9, <3>1 DEF PublishUpdate, PublishTopicVal
  <2>3. x.p.acc = w /\ Then(x.d, s) = Then(a, l)
    BY <1>5, <1>9 DEF Reads
  <2>4. /\ y.m = PublishAt(m, w, 0, <<>>) /\ y.body = p.body /\ y.buf = <<>>
        /\ y.st = "PKTID" /\ y.head = p.head /\ y.done = FALSE /\ IsObject(y)
    <3>1. /\ y.m = [p.m EXCEPT !.topic = w] /\ y.body = p.body /\ y.buf = p.buf
          /\ y.st = "PKTID" /\ y.head = p.head /\ y.done = FALSE /\ IsObject(y)
      BY <1>7, <2>1, <2>3 DEF IsObject
    <3>2. [p.m EXCEPT !.topic = w] = PublishAt(m, w, 0, <<>>)
      BY <1>3 DEF PublishAt
    <3>. QED
      BY <1>3, <3>1, <3>2
  <2>5. Qos(m.flags) > 0 /\ PubId(m) = Short(m.pkt) /\ PubId(m) \in Streams
        /\ m.payload \in Streams
    <3>1. Qos(m.flags) \in Nat /\ (Qos(m.flags) > 0 => PubId(m) = Short(m.pkt))
          /\ PubId(m) \in Streams /\ m.payload \in Streams
      BY PublishFacts
    <3>. QED
      BY <1>9, <3>1
  <2>6. a = Then(Short(m.pkt), m.payload)
    BY <1>1, <2>5 DEF Rest
  <2>7. Filling(y, Short(m.pkt), a, m.payload)
    BY <2>4, <2>5, <2>6, Anew
  <2>8. y.m.type = PUBLISH
    BY <2>4 DEF PublishAt
  <2>9. Expect(y, m, a)
    BY <1>1, <1>2, <1>3, <2>4, <2>5, <2>7, <2>8 DEF Expect, AwaitsPublish
  <2>10. Result(y, x.d).err = FALSE /\ Result(y, x.d).d = x.d /\ Result(y, x.d).p = y
    BY DEF Result
  <2>11. Steps(Result(y, x.d), m, s, l)
    BY <1>1, <1>7, <2>3, <2>9, <2>10 DEF Steps
  <2>. QED
    BY <2>2, <2>11
<1>10. CASE x.whole /\ Qos(m.flags) = 0
  <2>1. PICK n : n = (p.body - p.head) % UintMod
    OBVIOUS
  <2>2. PICK y : y = [x.p EXCEPT !.m.topic = x.p.acc, !.body = n, !.st = "PAYLOAD"]
    OBVIOUS
  <2>3. PublishUpdate(p, d) = Result(y, x.d)
    <3>1. x.p.body = p.body /\ x.p.head = p.head
      BY <1>7 DEF IsObject
    <3> DEFINE z == [x.p EXCEPT !.m.topic = x.p.acc]
    <3>2. z.body = p.body /\ z.head = p.head
      BY <1>7, <3>1 DEF IsObject
    <3>3. [z EXCEPT !.body = n, !.st = "PAYLOAD"] = y
      BY <1>7, <2>2 DEF IsObject
    <3>4. [z EXCEPT !.body = (@ - z.head) % UintMod, !.st = "PAYLOAD"] = y
      <4>1. [z EXCEPT !.body = (@ - z.head) % UintMod, !.st = "PAYLOAD"]
              = [z EXCEPT !.body = (z.body - z.head) % UintMod, !.st = "PAYLOAD"]
        BY <1>7 DEF IsObject
      <4>. HIDE DEF z
      <4>. QED
        BY <2>1, <3>2, <3>3, <4>1
    <3>. QED
      BY <1>4, <1>6, <1>10, <3>4 DEF PublishUpdate, PublishTopicVal
  <2>4. x.p.acc = w /\ Then(x.d, s) = Then(a, l)
    BY <1>5, <1>10 DEF Reads
  <2>5. PICK pl \in Streams : /\ pl = m.payload /\ Len(pl) \in Nat /\ Len(pl) > 0 /\ a = pl
                              /\ Size(m) = Len(w) + 2 + Len(pl) /\ Size(m) < UintMod
    <3>1. /\ m.payload \in Streams /\ Len(m.payload) \in Nat /\ Len(m.payload) > 0
          /\ Rest(m) = m.payload /\ Size(m) < UintMod
          /\ Size(m) = Len(m.topic) + 2 + Len(m.payload) + Len(PubId(m))
          /\ Len(PubId(m)) = 0
      BY <1>10, PublishFacts
    <3> DEFINE k == Len(m.payload)
               j == Len(m.topic)
    <3>2. k \in Nat /\ j \in Nat /\ Size(m) = j + 2 + k + 0
      BY <1>1, <3>1
    <3>. HIDE DEF k, j
    <3>3. Size(m) = j + 2 + k
      BY <3>2
    <3>. QED
      BY <1>1, <3>1, <3>3 DEF k, j
  <2>6. n = Len(pl)
    <3> DEFINE k == Len(pl)
               j == Len(w)
    <3>1. k \in Nat /\ j \in Nat /\ p.body = j + 2 + k /\ p.head = j + 2 /\ j + 2 + k < UintMod
      BY <1>1, <1>3, <2>5
    <3>2. UintMod \in Nat
      BY CodecAssumption
    <3>. HIDE DEF k, j
    <3>3. p.body - p.head = k /\ k < UintMod
      BY <3>1, <3>2
    <3>4. k % UintMod = k
      BY <3>1, <3>2, <3>3, SmallMod
    <3>. QED
      BY <2>1, <3>3, <3>4 DEF k
  <2>7. /\ y.m = PublishAt(m, w, 0, <<>>) /\ y.body = Len(pl)
        /\ y.st = "PAYLOAD" /\ y.done = FALSE /\ IsObject(y)
    <3>1. /\ y.m = [p.m EXCEPT !.topic = w] /\ y.body = Len(pl)
          /\ y.st = "PAYLOAD" /\ y.done = FALSE /\ IsObject(y)
      BY <1>7, <2>2, <2>4, <2>6 DEF IsObject
    <3>2. [p.m EXCEPT !.topic = w] = PublishAt(m, w, 0, <<>>)
      BY <1>3 DEF PublishAt
    <3>. QED
      BY <3>1, <3>2
  <2>8. Seen(m) = PublishAt(m, w, 0, pl)
    <3>1. Seen(m) = PublishAt(m, m.topic, IF Qos(m.flags) = 0 THEN 0 ELSE m.pkt, m.payload)
      BY PublishFacts
    <3>. QED
      BY <1>1, <1>10, <2>5, <3>1
  <2>9. /\ y.m = [Seen(m) EXCEPT !.payload = y.m.payload] /\ y.m.payload = <<>>
        /\ y.m.type = PUBLISH
    BY <2>7, <2>8 DEF PublishAt
  <2>10. y.m.payload \in Streams /\ Len(y.m.payload) < Len(pl) /\ Then(y.m.payload, a) = pl
    BY <2>5, <2>9, NothingIs, ThenNothing
  <2>11. Expect(y, m, a)
    BY <1>2, <2>5, <2>7, <2>9, <2>10 DEF Expect, AwaitsPublish
  <2>12. Result(y, x.d).err = FALSE /\ Result(y, x.d).d = x.d /\ Result(y, x.d).p = y
    BY DEF Result
  <2>13. Steps(Result(y, x.d), m, s, l)
    BY <1>1, <1>7, <2>4, <2>11, <2>12 DEF Steps
  <2>. QED
    BY <2>3, <2>13
<1>. QED
  BY <1>8, <1>9, <1>10

\* The id.
LEMMA PublishPktidSteps ==
    ASSUME NEW m, m \in Publishes, Sound(m), Size(m) < LenPow[4],
           NEW p, NEW d \in Streams, NEW s \in Streams,
           NEW r \in Streams, NEW l \in Streams, Then(d, s) = Then(r, l),
           IsObject(p), p.done = FALSE, AwaitsPublish(p, m, r), p.st = "PKTID"
    PROVE  Steps(PublishUpdate(p, d), m, s, l)
<1>1. PICK w, pl \in Streams, f \in Streams :
        /\ w = m.topic /\ pl = m.payload /\ f = Short(m.pkt)
        /\ Len(f) = 2 /\ UnpackShort(f) = m.pkt
  <2>1. m.pkt \in Words /\ m.payload \in Streams /\ m.topic \in Streams
    BY PublishFacts
  <2>. QED
    BY <2>1, WordIs
<1>2. /\ p.m = PublishAt(m, w, 0, <<>>) /\ p.body = Size(m)
      /\ p.head = Len(w) + 2 /\ Qos(m.flags) > 0 /\ Filling(p, f, r, pl)
  BY <1>1 DEF AwaitsPublish
<1>3. /\ Len(w) \in Nat /\ Len(pl) \in Nat /\ Size(m) = (Len(w) + 4) + Len(pl)
      /\ m.type = PUBLISH /\ Seen(m) = PublishAt(m, w, m.pkt, pl)
  <2>1. /\ Len(m.topic) \in Nat /\ Len(m.payload) \in Nat
        /\ Size(m) = Len(m.topic) + 2 + Len(m.payload) + Len(PubId(m))
        /\ Len(PubId(m)) = 2 /\ m.type = PUBLISH
        /\ Seen(m) = PublishAt(m, m.topic, IF Qos(m.flags) = 0 THEN 0 ELSE m.pkt, m.payload)
    BY <1>2, PublishFacts
  <2> DEFINE i == Len(m.topic)
             j == Len(m.payload)
  <2>2. i \in Nat /\ j \in Nat /\ Size(m) = i + 2 + j + 2
    BY <2>1
  <2>. HIDE DEF i, j
  <2>3. Size(m) = (i + 4) + j
    BY <2>2
  <2>4. ~(Qos(m.flags) = 0)
    BY <1>2
  <2>. QED
    BY <1>1, <2>1, <2>3, <2>4 DEF i, j
<1>4. PICK t : t = Take(p.buf, 2, d)
  OBVIOUS
<1>5. PICK b \in Streams : b = p.buf /\ Len(b) <= Len(f) /\ Then(b, r) = Then(f, pl)
  BY <1>2 DEF Filling
<1>6. Took(t, b, s, r, l, f, pl)
  <2>1. Took(Take(b, Len(f), d), b, s, r, l, f, pl)
    BY <1>1, <1>5, TakeIs
  <2>. QED
    BY <1>1, <1>4, <1>5, <2>1
<1>7. /\ t.buf \in Streams /\ t.d \in Streams /\ Len(t.buf) <= Len(f) /\ Len(t.buf) \in Nat
      /\ Len(t.buf) = Len(f) => t.buf = f /\ Then(t.d, s) = Then(pl, l)
  BY <1>6, LenIs DEF Took
<1>8. p.m.type = PUBLISH
  BY <1>2 DEF PublishAt
<1>9. CASE Len(t.buf) < Len(f)
  <2>1. PICK y : y = [p EXCEPT !.buf = t.buf]
    OBVIOUS
  <2>2. PublishUpdate(p, d) = Result(y, t.d)
    <3>1. Len(t.buf) < 2 /\ ~(Len(t.buf) = 2)
      <4> DEFINE k == Len(t.buf)
                 j == Len(f)
      <4>1. k \in Nat /\ k < j /\ j = 2
        BY <1>1, <1>7, <1>9, Zenon
      <4>. HIDE DEF k, j
      <4>2. k < 2 /\ ~(k = 2)
        BY <4>1
      <4>. QED
        BY <4>2 DEF k
    <3>. QED
      BY <1>4, <2>1, <3>1 DEF PublishUpdate, PublishPktid
  <2>3. PICK q \in Streams : Then(t.buf, q) = Then(f, pl) /\ Then(t.d, s) = Then(q, l)
    BY <1>6 DEF Took
  <2>4. /\ y.m = p.m /\ y.body = p.body /\ y.head = p.head /\ y.st = "PKTID"
        /\ y.buf = t.buf /\ y.done = FALSE /\ IsObject(y)
    BY <2>1 DEF IsObject
  <2>5. Filling(y, f, q, pl)
    BY <1>7, <2>3, <2>4 DEF Filling
  <2>6. Expect(y, m, q)
    BY <1>1, <1>2, <1>3, <1>8, <2>4, <2>5 DEF Expect, AwaitsPublish
  <2>7. Result(y, t.d).err = FALSE /\ Result(y, t.d).d = t.d /\ Result(y, t.d).p = y
    BY DEF Result
  <2>8. Steps(Result(y, t.d), m, s, l)
    BY <1>7, <2>3, <2>6, <2>7 DEF Steps
  <2>. QED
    BY <2>2, <2>8
<1>10. CASE Len(t.buf) = Len(f)
  <2>1. t.buf = f /\ Then(t.d, s) = Then(pl, l) /\ UnpackShort(t.buf) = m.pkt
    BY <1>1, <1>7, <1>10
  <2>2. PICK h, n : h = p.head + 2 /\ n = p.body - h
    OBVIOUS
  <2>3. PICK y : y = [p EXCEPT !.buf = t.buf, !.head = h, !.m.pkt = m.pkt,
                               !.body = n, !.st = "PAYLOAD", !.done = (p.body = h)]
    OBVIOUS
  <2>4. n = Len(pl) /\ p.body # 0 /\ ~(p.body < h) /\ ((p.body = h) <=> Len(pl) = 0)
    <3> DEFINE i == Len(w)
               j == Len(pl)
    <3>1. i \in Nat /\ j \in Nat /\ p.body = (i + 4) + j /\ h = i + 2 + 2 /\ n = p.body - h
      BY <1>2, <1>3, <2>2
    <3>. HIDE DEF i, j
    <3>2. n = j /\ p.body # 0 /\ ~(p.body < h) /\ ((p.body = h) <=> j = 0)
      BY <3>1
    <3>. QED
      BY <3>2 DEF j
  <2>5. PublishUpdate(p, d) = Result(y, t.d)
    <3> DEFINE z == [p EXCEPT !.buf = t.buf, !.head = @ + 2, !.m.pkt = UnpackShort(t.buf)]
    <3>1. z = [p EXCEPT !.buf = t.buf, !.head = h, !.m.pkt = m.pkt]
      BY <2>1, <2>2 DEF IsObject
    <3>2. z.head = h /\ z.body = p.body
      BY <3>1 DEF IsObject
    <3>3. [z EXCEPT !.body = @ - z.head, !.st = "PAYLOAD", !.done = (p.body = z.head)]
            = [z EXCEPT !.body = n, !.st = "PAYLOAD", !.done = (p.body = h)]
      <4>1. [z EXCEPT !.body = @ - z.head, !.st = "PAYLOAD", !.done = (p.body = z.head)]
              = [z EXCEPT !.body = z.body - z.head, !.st = "PAYLOAD",
                          !.done = (p.body = z.head)]
        OBVIOUS
      <4>. HIDE DEF z
      <4>. QED
        BY <2>2, <3>2, <4>1
    <3>4. [z EXCEPT !.body = n, !.st = "PAYLOAD", !.done = (p.body = h)] = y
      <4>. HIDE DEF z
      <4>. QED
        BY <2>3, <3>1 DEF IsObject
    <3>5. PublishPktid(p, d) = Result([z EXCEPT !.body = @ - z.head, !.st = "PAYLOAD",
                                                !.done = (p.body = z.head)], t.d)
      <4>1. ~(Len(t.buf) < 2) /\ Len(t.buf) = 2
        BY <1>1, <1>7, <1>10
      <4>2. PublishPktid(p, d) =
              CASE Len(t.buf) < 2 -> Result([p EXCEPT !.buf = t.buf], t.d)
                [] Len(t.buf) = 2 /\ p.body = 0 -> Result([z EXCEPT !.done = TRUE], t.d)
                [] Len(t.buf) = 2 /\ p.body # 0 /\ p.body < z.head -> Failed(z)
                [] OTHER -> Result([z EXCEPT !.body = @ - z.head, !.st = "PAYLOAD",
                                             !.done = (p.body = z.head)], t.d)
        BY <1>4 DEF PublishPktid
      <4>. HIDE DEF z
      <4>. QED
        BY <2>4, <3>2, <4>1, <4>2
    <3>. HIDE DEF z
    <3>. QED
      BY <3>3, <3>4, <3>5 DEF PublishUpdate
  <2>6. /\ y.m = [p.m EXCEPT !.pkt = m.pkt] /\ y.body = Len(pl) /\ y.st = "PAYLOAD"
        /\ IsObject(y)
    BY <2>3, <2>4 DEF IsObject
  <2>7. y.m = PublishAt(m, w, m.pkt, <<>>)
    <3>1. [p.m EXCEPT !.pkt = m.pkt] = PublishAt(m, w, m.pkt, <<>>)
      BY <1>2 DEF PublishAt
    <3>. QED
      BY <2>6, <3>1
  <2>8. y.m = [Seen(m) EXCEPT !.payload = y.m.payload] /\ y.m.payload = <<>>
        /\ y.m.type = PUBLISH
    BY <1>3, <2>7 DEF PublishAt
  <2>9. y.done = (Len(pl) = 0)
    <3>1. y.done = (p.body = h)
      BY <2>3 DEF IsObject
    <3>. QED
      BY <2>4, <3>1
  <2>10. Expect(y, m, pl)
    <3>1. CASE Len(pl) = 0
      <4>1. pl = <<>> /\ y.done = TRUE
        BY <2>9, <3>1, ThenNothing
      <4>2. y.m = Seen(m)
        BY <1>3, <2>7, <4>1
      <4>3. Same(Seen(m), y.m)
        <5>1. PUBLISH # CONNECT /\ PUBLISH # SUBSCRIBE
          BY TypesAre DEF TypeNames
        <5>. QED
          BY <2>8, <4>2, <5>1, SameIs
      <4>. QED
        BY <1>3, <2>6, <2>8, <4>1, <4>3 DEF Expect
    <3>2. CASE Len(pl) # 0
      <4>1. y.done = FALSE
        BY <2>9, <3>2
      <4>2. y.m.payload \in Streams /\ Len(y.m.payload) < Len(pl) /\ Then(y.m.payload, pl) = pl
        BY <1>1, <1>3, <2>8, <3>2, NothingIs, ThenNothing
      <4>. QED
        BY <1>1, <1>3, <2>6, <2>8, <4>1, <4>2 DEF Expect, AwaitsPublish
    <3>. QED
      BY <3>1, <3>2
  <2>11. Result(y, t.d).err = FALSE /\ Result(y, t.d).d = t.d /\ Result(y, t.d).p = y
    BY DEF Result
  <2>12. Steps(Result(y, t.d), m, s, l)
    BY <1>1, <1>7, <2>1, <2>10, <2>11 DEF Steps
  <2>. QED
    BY <2>5, <2>12
<1>. QED
  <2>1. Len(f) \in Nat
    BY <1>1
  <2>. QED
    BY <1>7, <1>9, <1>10, <2>1

\* The payload.
LEMMA PublishPayloadSteps ==
    ASSUME NEW m, m \in Publishes, Sound(m), Size(m) < LenPow[4],
           NEW p, NEW d \in Streams, NEW s \in Streams,
           NEW r \in Streams, NEW l \in Streams, Then(d, s) = Then(r, l),
           IsObject(p), p.done = FALSE, AwaitsPublish(p, m, r), p.st = "PAYLOAD"
    PROVE  Steps(PublishUpdate(p, d), m, s, l)
<1>1. PICK pl \in Streams, b \in Streams, e \in Streams :
        pl = m.payload /\ b = p.m.payload /\ e = <<>>
  BY PublishFacts, NothingIs DEF AwaitsPublish
<1>2. /\ p.body = Len(pl) /\ p.m = [Seen(m) EXCEPT !.payload = b]
      /\ Len(b) < Len(pl) /\ Then(b, r) = pl
  BY <1>1 DEF AwaitsPublish
<1>3. PICK pkt : Seen(m) = PublishAt(m, m.topic, pkt, pl) /\ m.type = PUBLISH
  BY <1>1, PublishFacts
<1>4. Len(b) \in Nat /\ Len(pl) \in Nat
  BY <1>1, LenIs
<1>5. PICK t : t = Take(b, Len(pl), d)
  OBVIOUS
<1>6. Took(t, b, s, r, l, pl, e)
  <2>1. Then(pl, e) = pl
    BY <1>1, ThenNothing
  <2>2. Len(b) <= Len(pl) /\ Then(b, r) = Then(pl, e)
    BY <1>2, <1>4, <2>1
  <2>3. Took(Take(b, Len(pl), d), b, s, r, l, pl, e)
    BY <1>1, <2>2, TakeIs
  <2>. QED
    BY <1>5, <2>3
<1>7. /\ t.buf \in Streams /\ t.d \in Streams /\ Len(t.buf) <= Len(pl) /\ Len(t.buf) \in Nat
      /\ Len(t.buf) = Len(pl) => t.buf = pl /\ Then(t.d, s) = Then(e, l)
  BY <1>6, LenIs DEF Took
<1>8. PICK y : y = [p EXCEPT !.m.payload = t.buf, !.done = (Len(t.buf) = p.body)]
  OBVIOUS
<1>9. PublishUpdate(p, d) = Result(y, t.d)
  <2>1. ~(p.body <= Len(p.m.payload))
    BY <1>1, <1>2, <1>4
  <2>2. Take(p.m.payload, p.body, d) = t
    BY <1>1, <1>2, <1>5
  <2>. QED
    BY <1>8, <2>1, <2>2 DEF PublishUpdate, PublishPayload
<1>10. /\ y.m = [p.m EXCEPT !.payload = t.buf] /\ y.body = p.body /\ y.st = "PAYLOAD"
       /\ IsObject(y)
  BY <1>8 DEF IsObject
<1>11. y.done = (Len(t.buf) = Len(pl))
  <2>1. y.done = (Len(t.buf) = p.body)
    BY <1>8 DEF IsObject
  <2>. QED
    BY <1>2, <2>1
<1>12. /\ y.m = PublishAt(m, m.topic, pkt, t.buf) /\ y.m.type = PUBLISH
       /\ y.m = [Seen(m) EXCEPT !.payload = y.m.payload] /\ y.m.payload = t.buf
  <2>1. p.m = PublishAt(m, m.topic, pkt, b)
    BY <1>2, <1>3 DEF PublishAt
  <2>2. y.m = PublishAt(m, m.topic, pkt, t.buf)
    BY <1>10, <2>1 DEF PublishAt
  <2>. QED
    BY <1>3, <2>2 DEF PublishAt
<1>13. Result(y, t.d).err = FALSE /\ Result(y, t.d).d = t.d /\ Result(y, t.d).p = y
  BY DEF Result
<1>14. CASE Len(t.buf) = Len(pl)
  <2>1. t.buf = pl /\ Then(t.d, s) = Then(e, l) /\ y.done = TRUE
    BY <1>7, <1>11, <1>14
  <2>2. y.m = Seen(m)
    BY <1>3, <1>12, <2>1
  <2>3. Same(Seen(m), y.m)
    <3>1. PUBLISH # CONNECT /\ PUBLISH # SUBSCRIBE
      BY TypesAre DEF TypeNames
    <3>. QED
      BY <1>12, <2>2, <3>1, SameIs
  <2>4. Expect(y, m, e)
    BY <1>1, <1>3, <1>10, <1>12, <2>1, <2>3 DEF Expect
  <2>5. Steps(Result(y, t.d), m, s, l)
    BY <1>1, <1>7, <1>13, <2>1, <2>4 DEF Steps
  <2>. QED
    BY <1>9, <2>5
<1>15. CASE Len(t.buf) # Len(pl)
  <2>1. PICK q \in Streams : Then(t.buf, q) = Then(pl, e) /\ Then(t.d, s) = Then(q, l)
    BY <1>6 DEF Took
  <2>2. Then(t.buf, q) = pl
    BY <1>1, <2>1, ThenNothing
  <2>3. Len(t.buf) < Len(pl) /\ y.done = FALSE
    <3>1. Len(t.buf) < Len(pl)
      <4> DEFINE k == Len(t.buf)
                 j == Len(pl)
      <4>1. k \in Nat /\ j \in Nat /\ k <= j /\ k # j
        BY <1>4, <1>7, <1>15, Zenon
      <4>. HIDE DEF k, j
      <4>2. k < j
        BY <4>1
      <4>. QED
        BY <4>2 DEF k, j
    <3>. QED
      BY <1>11, <1>15, <3>1
  <2>4. Expect(y, m, q)
    BY <1>1, <1>2, <1>3, <1>7, <1>10, <1>12, <2>2, <2>3 DEF Expect, AwaitsPublish
  <2>5. Steps(Result(y, t.d), m, s, l)
    BY <1>7, <1>13, <2>1, <2>4 DEF Steps
  <2>. QED
    BY <1>9, <2>5
<1>. QED
  BY <1>14, <1>15

\* All of them.
LEMMA PublishSteps ==
    ASSUME NEW m, m \in Publishes, Sound(m), Size(m) < LenPow[4],
           NEW p, NEW d \in Streams, NEW s \in Streams,
           NEW r \in Streams, NEW l \in Streams, Then(d, s) = Then(r, l),
           IsObject(p), p.done = FALSE, AwaitsPublish(p, m, r)
    PROVE  Steps(PublishUpdate(p, d), m, s, l)
<1>1. p.st \in {"HDR_VAR", "TOPIC_LEN", "TOPIC_VAL", "PKTID", "PAYLOAD"}
  BY DEF AwaitsPublish
<1>. QED
  BY <1>1, PublishHdrSteps, PublishLenSteps, PublishValSteps, PublishPktidSteps,
     PublishPayloadSteps

(***************************************************************************)
(* A connect: where its handlers go.                                       *)
(***************************************************************************)
\* Between two parts: nothing of the next is read.
Resting(p) == IsObject(p) /\ p.done = FALSE /\ p.buf = <<>> /\ p.acc = <<>>

\* A connect that is got through.
ConnectOK(m) == m \in Connects /\ Sound(m) /\ Filled(m)

\* What is known of one.
LEMMA ConnectFacts ==
    ASSUME NEW m, ConnectOK(m)
    PROVE  /\ m.cid \in Streams /\ m.wtopic \in Streams /\ m.wmsg \in Streams
           /\ m.user \in Streams /\ m.pass \in Streams
           /\ Fits(m.cid) /\ Fits(m.wtopic) /\ Fits(m.wmsg) /\ Fits(m.user) /\ Fits(m.pass)
           /\ FromPass(m) \in Streams /\ FromUser(m) \in Streams /\ FromMsg(m) \in Streams
           /\ FromTopic(m) \in Streams
           /\ Has(m.cflags, 4) <=> m.wtopic # <<>>
           /\ m.wtopic = <<>> <=> m.wmsg = <<>>
           /\ Has(m.cflags, 128) <=> m.user # <<>>
           /\ Has(m.cflags, 64) <=> m.pass # <<>>
           /\ m.type = CONNECT
           /\ Seen(m) = m
<1>1. m \in Connects /\ m.type = CONNECT
  BY DEF ConnectOK, Connects
<1>2. /\ m.cid \in Streams /\ m.wtopic \in Streams /\ m.wmsg \in Streams
      /\ m.user \in Streams /\ m.pass \in Streams
      /\ FromPass(m) \in Streams /\ FromUser(m) \in Streams /\ FromMsg(m) \in Streams
      /\ FromTopic(m) \in Streams
  BY <1>1, ConnectParts, Zenon
<1>3. Fits(m.cid) /\ Fits(m.wtopic) /\ Fits(m.wmsg) /\ Fits(m.user) /\ Fits(m.pass)
  <2>1. \A w \in {m.cid, m.wtopic, m.wmsg, m.user, m.pass} : Fits(w)
    BY <1>1, TypesAre DEF ConnectOK, Sound, TypeNames
  <2>. QED
    BY <2>1
<1>4. /\ Has(m.cflags, 4) <=> m.wtopic # <<>>
      /\ m.wtopic = <<>> <=> m.wmsg = <<>>
      /\ Has(m.cflags, 128) <=> m.user # <<>>
      /\ Has(m.cflags, 64) <=> m.pass # <<>>
  BY <1>1, Zenon DEF ConnectOK, Filled
<1>5. Seen(m) = m
  <2>1. CONNECT \notin {PUBLISH, SUBSCRIBE, UNSUBSCRIBE, SUBACK}
    BY TypesAre DEF TypeNames
  <2>. QED
    BY <1>1, <2>1, SeenIs
<1>. QED
  BY <1>1, <1>2, <1>3, <1>4, <1>5, Zenon

\* A text that is not empty is next.
LEMMA TextNext ==
    ASSUME NEW m, NEW p, NEW n, NEW len, NEW val, NEW w \in Streams, NEW a \in Streams,
           Resting(p), Known(p, m, n - 1), Fits(w), w # <<>>, len # "FINISHED"
    PROVE  /\ AwaitsText(Goes(p, len), m, Then(Optional(w), a), n, len, val, w, a)
           /\ IsObject(Goes(p, len)) /\ Goes(p, len).done = FALSE
<1>1. PICK y : y = [p EXCEPT !.st = len]
  OBVIOUS
<1>2. Goes(p, len) = y
  BY <1>1 DEF Goes
<1>3. /\ y.m = p.m /\ y.need = p.need /\ y.buf = <<>> /\ y.acc = <<>> /\ y.st = len
      /\ IsObject(y) /\ y.done = FALSE
  BY <1>1 DEF Resting, IsObject
<1>4. Known(y, m, n - 1)
  BY <1>3 DEF Known
<1>5. PICK f \in Streams : /\ f = Short(Len(w)) /\ Optional(w) = Then(f, w)
  BY TextIs, OptionalIs
<1>6. Then(w, a) \in Streams
  BY ThenIs
<1>7. Then(Optional(w), a) = Then(f, Then(w, a))
  BY <1>5, ThenJoins
<1>8. Filling(y, f, Then(f, Then(w, a)), Then(w, a))
  BY <1>3, <1>5, <1>6, Anew
<1>9. AwaitsText(y, m, Then(Optional(w), a), n, len, val, w, a)
  BY <1>3, <1>4, <1>5, <1>7, <1>8 DEF AwaitsText
<1>. QED
  BY <1>2, <1>3, <1>9

\* All is read.
LEMMA ConnectEnds ==
    ASSUME NEW m, NEW p, ConnectOK(m), Resting(p), Known(p, m, 5)
    PROVE  Expect(Goes(p, "FINISHED"), m, <<>>)
<1>1. PICK y : y = [p EXCEPT !.done = TRUE]
  OBVIOUS
<1>2. Goes(p, "FINISHED") = y
  BY <1>1 DEF Goes
<1>3. y.m = p.m /\ y.done = TRUE /\ IsObject(y)
  BY <1>1 DEF Resting, IsObject
<1>4. p.m = [type |-> CONNECT, flags |-> 0, cflags |-> m.cflags, wqos |-> p.m.wqos,
             keep |-> p.m.keep, cid |-> m.cid, wtopic |-> m.wtopic, wmsg |-> m.wmsg,
             user |-> m.user, pass |-> m.pass]
  BY DEF Known
<1>5. m = [type |-> CONNECT, flags |-> 0, cflags |-> m.cflags, wqos |-> m.wqos,
           keep |-> m.keep, cid |-> m.cid, wtopic |-> m.wtopic, wmsg |-> m.wmsg,
           user |-> m.user, pass |-> m.pass]
  BY DEF ConnectOK, Connects
<1>6. [m EXCEPT !.keep = 0, !.wqos = 0] = [p.m EXCEPT !.keep = 0, !.wqos = 0]
  <2> DEFINE Whole(f, q, k, i, t, g, u, w) ==
               [type |-> CONNECT, flags |-> 0, cflags |-> f, wqos |-> q, keep |-> k,
                cid |-> i, wtopic |-> t, wmsg |-> g, user |-> u, pass |-> w]
             Wiped(x, z) == [[x EXCEPT !.keep = 0] EXCEPT !.wqos = 0] = z
  <2>1. ASSUME NEW f, NEW q, NEW k, NEW i, NEW t, NEW g, NEW u, NEW w
        PROVE  Wiped(Whole(f, q, k, i, t, g, u, w), Whole(f, 0, 0, i, t, g, u, w))
    <3>1. ASSUME NEW h PROVE [Whole(f, h, k, i, t, g, u, w) EXCEPT !.keep = 0]
                                = Whole(f, h, 0, i, t, g, u, w)
      OBVIOUS
    <3>2. ASSUME NEW h PROVE [Whole(f, q, h, i, t, g, u, w) EXCEPT !.wqos = 0]
                                = Whole(f, 0, h, i, t, g, u, w)
      OBVIOUS
    <3>. HIDE DEF Whole
    <3>. QED
      BY <3>1, <3>2, Zenon
  <2>2. m = Whole(m.cflags, m.wqos, m.keep, m.cid, m.wtopic, m.wmsg, m.user, m.pass)
    BY <1>5
  <2>3. p.m = Whole(m.cflags, p.m.wqos, p.m.keep, m.cid, m.wtopic, m.wmsg, m.user, m.pass)
    BY <1>4
  <2>. HIDE DEF Whole, Wiped
  <2>4. PICK f, i, t, g, u, w, q, k, j, h :
          m = Whole(f, q, k, i, t, g, u, w) /\ p.m = Whole(f, j, h, i, t, g, u, w)
    BY <2>2, <2>3, Zenon
  <2>5. PICK z : z = Whole(f, 0, 0, i, t, g, u, w)
    OBVIOUS
  <2>6. Wiped(m, z)
    BY <2>1, <2>4, <2>5
  <2>7. Wiped(p.m, z)
    BY <2>1, <2>4, <2>5
  <2>8. ASSUME NEW x, NEW v, Wiped(x, v) PROVE [x EXCEPT !.keep = 0, !.wqos = 0] = v
    BY <2>8 DEF Wiped
  <2>. QED
    BY <2>6, <2>7, <2>8
<1>7. p.m.type = CONNECT /\ m.type = CONNECT
  BY <1>4, <1>5
<1>8. Same(m, p.m)
  BY <1>6, <1>7, TypesAre DEF Same, TypeNames
<1>9. Seen(m) = m
  BY ConnectFacts
<1>10. Expect(y, m, <<>>)
  BY <1>3, <1>7, <1>8, <1>9 DEF Expect
<1>. QED
  BY <1>2, <1>10

\* Where the handlers of a connect go: behind the name of the user,
LEMMA BehindUser ==
    ASSUME NEW m, NEW p, ConnectOK(m), Resting(p), Known(p, m, 4)
    PROVE  Expect(Goes(p, AfterUser(p)), m, FromPass(m))
<1>1. PICK w \in Streams, e \in Streams : w = m.pass /\ e = <<>> /\ Fits(w)
  BY ConnectFacts, NothingIs
<1>2. (Has(p.m.cflags, 64) <=> w # <<>>) /\ m.type = CONNECT
  <2>1. p.m.cflags = m.cflags
    BY DEF Known
  <2>. QED
    BY <1>1, <2>1, ConnectFacts
<1>3. CASE w = <<>>
  <2>1. AfterUser(p) = "FINISHED"
    BY <1>2, <1>3 DEF AfterUser
  <2>2. Known(p, m, 5)
    BY <1>1, <1>3 DEF Known
  <2>3. FromPass(m) = <<>>
    BY <1>1, <1>3, OptionalIs DEF FromPass
  <2>. QED
    BY <2>1, <2>2, <2>3, ConnectEnds
<1>4. CASE w # <<>>
  <2>1. AfterUser(p) = "PASSWD_LEN"
    BY <1>2, <1>4 DEF AfterUser
  <2>2. Known(p, m, 5 - 1)
    OBVIOUS
  <2>3. PICK y : y = Goes(p, "PASSWD_LEN")
    OBVIOUS
  <2>4. /\ AwaitsText(y, m, Then(Optional(w), e), 5, "PASSWD_LEN", "PASSWD_VAL", w, e)
        /\ IsObject(y) /\ y.done = FALSE
    BY <1>1, <1>4, <2>2, <2>3, TextNext
  <2>5. Then(Optional(w), e) = FromPass(m)
    BY <1>1, OptionalIs, ThenNothing DEF FromPass
  <2>6. y.m.type = CONNECT
    BY <2>4 DEF AwaitsText, Known
  <2>7. Expect(y, m, FromPass(m))
    BY <1>1, <1>2, <1>4, <2>4, <2>5, <2>6 DEF Expect, AwaitsConnect
  <2>. QED
    BY <2>1, <2>3, <2>7
<1>. QED
  BY <1>3, <1>4

\* behind the will,
LEMMA BehindWill ==
    ASSUME NEW m, NEW p, ConnectOK(m), Resting(p), Known(p, m, 3)
    PROVE  Expect(Goes(p, AfterWill(p)), m, FromUser(m))
<1>1. PICK w \in Streams, a \in Streams : w = m.user /\ a = FromPass(m) /\ Fits(w)
  BY ConnectFacts
<1>2. (Has(p.m.cflags, 128) <=> w # <<>>) /\ m.type = CONNECT
  <2>1. p.m.cflags = m.cflags
    BY DEF Known
  <2>. QED
    BY <1>1, <2>1, ConnectFacts
<1>3. CASE w = <<>>
  <2>1. AfterWill(p) = AfterUser(p)
    BY <1>2, <1>3 DEF AfterWill
  <2>2. Known(p, m, 4)
    BY <1>1, <1>3 DEF Known
  <2>3. FromUser(m) = FromPass(m)
    BY <1>1, <1>3, OptionalIs, ThenNothing DEF FromUser
  <2>. QED
    BY <2>1, <2>2, <2>3, BehindUser
<1>4. CASE w # <<>>
  <2>1. AfterWill(p) = "USERNAME_LEN"
    BY <1>2, <1>4 DEF AfterWill
  <2>2. Known(p, m, 4 - 1)
    OBVIOUS
  <2>3. PICK y : y = Goes(p, "USERNAME_LEN")
    OBVIOUS
  <2>4. /\ AwaitsText(y, m, Then(Optional(w), a), 4, "USERNAME_LEN", "USERNAME_VAL", w, a)
        /\ IsObject(y) /\ y.done = FALSE
    BY <1>1, <1>4, <2>2, <2>3, TextNext
  <2>5. Then(Optional(w), a) = FromUser(m)
    BY <1>1 DEF FromUser
  <2>6. y.m.type = CONNECT
    BY <2>4 DEF AwaitsText, Known
  <2>7. Expect(y, m, FromUser(m))
    BY <1>1, <1>2, <1>4, <2>4, <2>5, <2>6 DEF Expect, AwaitsConnect
  <2>. QED
    BY <2>1, <2>3, <2>7
<1>. QED
  BY <1>3, <1>4

\* behind the topic of the will,
LEMMA BehindTopic ==
    ASSUME NEW m, NEW p, ConnectOK(m), Resting(p), Known(p, m, 2), m.wmsg # <<>>
    PROVE  Expect(Goes(p, "WILL_MSG_LEN"), m, FromMsg(m))
<1>1. PICK w \in Streams, a \in Streams : w = m.wmsg /\ a = FromUser(m) /\ Fits(w)
  BY ConnectFacts
<1>2. m.type = CONNECT
  BY ConnectFacts
<1>3. Known(p, m, 3 - 1)
  OBVIOUS
<1>4. PICK y : y = Goes(p, "WILL_MSG_LEN")
  OBVIOUS
<1>5. /\ AwaitsText(y, m, Then(Optional(w), a), 3, "WILL_MSG_LEN", "WILL_MSG_VAL", w, a)
      /\ IsObject(y) /\ y.done = FALSE
  BY <1>1, <1>3, <1>4, TextNext
<1>6. Then(Optional(w), a) = FromMsg(m)
  BY <1>1 DEF FromMsg
<1>7. y.m.type = CONNECT
  BY <1>5 DEF AwaitsText, Known
<1>8. Expect(y, m, FromMsg(m))
  BY <1>1, <1>2, <1>5, <1>6, <1>7 DEF Expect, AwaitsConnect
<1>. QED
  BY <1>4, <1>8

\* and behind the client's id.
LEMMA BehindCid ==
    ASSUME NEW m, NEW p, ConnectOK(m), Resting(p), Known(p, m, 1)
    PROVE  Expect(Goes(p, AfterCid(p)), m, FromTopic(m))
<1>1. PICK w \in Streams, a \in Streams : w = m.wtopic /\ a = FromMsg(m) /\ Fits(w)
  BY ConnectFacts
<1>2. (Has(p.m.cflags, 4) <=> w # <<>>) /\ m.type = CONNECT
  <2>1. p.m.cflags = m.cflags
    BY DEF Known
  <2>. QED
    BY <1>1, <2>1, ConnectFacts
<1>3. CASE w = <<>>
  <2>1. AfterCid(p) = AfterWill(p)
    BY <1>2, <1>3 DEF AfterCid
  <2>2. m.wmsg = <<>>
    BY <1>1, <1>3, ConnectFacts
  <2>3. Known(p, m, 3)
    BY <1>1, <1>3, <2>2 DEF Known
  <2>4. FromTopic(m) = FromUser(m)
    <3>1. FromTopic(m) = FromMsg(m)
      BY <1>1, <1>3, OptionalIs, ThenNothing DEF FromTopic
    <3>2. FromUser(m) \in Streams
      BY ConnectFacts
    <3>3. FromMsg(m) = FromUser(m)
      BY <1>3, <2>2, <3>2, OptionalIs, NothingIs, ThenNothing DEF FromMsg
    <3>. QED
      BY <3>1, <3>3
  <2>. QED
    BY <2>1, <2>3, <2>4, BehindWill
<1>4. CASE w # <<>>
  <2>1. AfterCid(p) = "WILL_TOPIC_LEN"
    BY <1>2, <1>4 DEF AfterCid
  <2>2. Known(p, m, 2 - 1)
    OBVIOUS
  <2>3. PICK y : y = Goes(p, "WILL_TOPIC_LEN")
    OBVIOUS
  <2>4. /\ AwaitsText(y, m, Then(Optional(w), a), 2, "WILL_TOPIC_LEN", "WILL_TOPIC_VAL", w, a)
        /\ IsObject(y) /\ y.done = FALSE
    BY <1>1, <1>4, <2>2, <2>3, TextNext
  <2>5. Then(Optional(w), a) = FromTopic(m)
    BY <1>1 DEF FromTopic
  <2>6. y.m.type = CONNECT
    BY <2>4 DEF AwaitsText, Known
  <2>7. Expect(y, m, FromTopic(m))
    BY <1>1, <1>2, <1>4, <2>4, <2>5, <2>6 DEF Expect, AwaitsConnect
  <2>. QED
    BY <2>1, <2>3, <2>7
<1>. QED
  BY <1>3, <1>4

(***************************************************************************)
(* A connect: a text and its length.                                       *)
(***************************************************************************)
\* The n-th text of connect m is w, with a behind it.
TextOf(m, n, len, val, w, a) ==
    /\ len \notin ConnectVals /\ len # "HDR_VAR" /\ ValOf(len) = val /\ val \in ConnectVals
    /\ \A u, q : IsObject(u) /\ u.done = FALSE /\ AwaitsText(u, m, q, n, len, val, w, a)
                    => Expect(u, m, q)
    /\ \A u : Resting(u) /\ Known(u, m, n) => Expect(Goes(u, ConnectAfter(u, val)), m, a)
    /\ \A u : IsObject(u) /\ Known(u, m, n - 1)
                 => Known([u EXCEPT !.m[ConnectField(val)] = w, !.acc = <<>>], m, n)
    /\ w = <<>> => val # "WILL_TOPIC_VAL" /\ \A u : Known(u, m, n - 1) => Known(u, m, n)

\* A handler that reads the length of a text gets on.
LEMMA ConnectLenSteps ==
    ASSUME NEW m, NEW n, NEW len, NEW val, NEW w \in Streams, NEW a \in Streams,
           TextOf(m, n, len, val, w, a), Fits(w),
           NEW p, NEW d \in Streams, NEW s \in Streams,
           NEW r \in Streams, NEW l \in Streams, Then(d, s) = Then(r, l),
           IsObject(p), p.done = FALSE, Known(p, m, n - 1), p.st = len, p.acc = <<>>,
           Filling(p, Short(Len(w)), r, Then(w, a)), NEW g
    PROVE  Steps(ConnectUpdate(p, d, g), m, s, l)
<1>1. PICK f \in Streams, b \in Streams :
        f = Short(Len(w)) /\ b = Then(w, a) /\ Len(f) = 2 /\ UnpackShort(f) = Len(w)
  BY TextIs, ThenIs
<1>2. PICK x : x = Length(p, d)
  OBVIOUS
<1>3. FillsLength(x, p, Len(w), f, r, s, l, b)
  BY <1>1, <1>2, LengthFills
<1>4. len \notin ConnectVals /\ len # "HDR_VAR" /\ ValOf(len) = val /\ val \in ConnectVals
  BY Zenon DEF TextOf
<1>5. x.err = FALSE /\ x.d \in Streams
  BY <1>3 DEF FillsLength
<1>6. CASE ~x.whole
  <2>1. ConnectUpdate(p, d, g) = x
    BY <1>2, <1>4, <1>6 DEF ConnectUpdate, ConnectLen
  <2>2. PICK q \in Streams :
           /\ x.p = [p EXCEPT !.buf = x.p.buf, !.nread = p.nread + (Len(r) - Len(q))]
           /\ Filling(x.p, f, q, b) /\ Then(x.d, s) = Then(q, l)
    BY <1>3, <1>6 DEF FillsLength
  <2>3. /\ x.p.m = p.m /\ x.p.need = p.need /\ x.p.acc = <<>> /\ x.p.st = len
        /\ x.p.done = FALSE /\ IsObject(x.p)
    BY <2>2 DEF IsObject
  <2>4. Known(x.p, m, n - 1)
    BY <2>3 DEF Known
  <2>5. AwaitsText(x.p, m, q, n, len, val, w, a)
    BY <1>1, <2>2, <2>3, <2>4 DEF AwaitsText
  <2>6. Expect(x.p, m, q)
    BY <2>3, <2>5 DEF TextOf
  <2>7. Steps(x, m, s, l)
    BY <1>5, <2>2, <2>6 DEF Steps
  <2>. QED
    BY <2>1, <2>7
<1>7. CASE x.whole
  <2>1. /\ x.p = [p EXCEPT !.buf = <<>>, !.need = Len(w),
                           !.nread = p.nread + (Len(r) - Len(b))]
        /\ Then(x.d, s) = Then(b, l)
    BY <1>3, <1>7 DEF FillsLength
  <2>2. Len(w) \in Nat /\ (Len(w) = 0 => w = <<>>) /\ (w = <<>> => Len(w) = 0 /\ b = a)
    BY <1>1, ThenNothing
  <2>3. /\ x.p.need = Len(w) /\ x.p.m = p.m /\ x.p.acc = <<>> /\ x.p.buf = <<>>
        /\ x.p.done = FALSE /\ IsObject(x.p)
    BY <2>1 DEF IsObject
  <2>4. Known(x.p, m, n - 1)
    BY <2>2, <2>3 DEF Known
  <2>5. CASE w = <<>>
    <3>1. PICK y : y = Goes(x.p, ConnectAfter(x.p, val))
      OBVIOUS
    <3>2. ConnectUpdate(p, d, g) = Result(y, x.d)
      <4>1. ~(x.p.need > 0) /\ val # "WILL_TOPIC_VAL"
        <5>1. val # "WILL_TOPIC_VAL"
          BY <2>5, Zenon DEF TextOf
        <5>. QED
          BY <2>2, <2>3, <2>5, <5>1
      <4>. QED
        BY <1>2, <1>4, <1>7, <3>1, <4>1 DEF ConnectUpdate, ConnectLen
    <3>3. Resting(x.p) /\ Known(x.p, m, n)
      BY <2>3, <2>4, <2>5 DEF Resting, TextOf
    <3>4. Expect(y, m, a)
      BY <3>1, <3>3 DEF TextOf
    <3>5. Result(y, x.d).err = FALSE /\ Result(y, x.d).d = x.d /\ Result(y, x.d).p = y
      BY DEF Result
    <3>6. Steps(Result(y, x.d), m, s, l)
      BY <1>5, <2>1, <2>2, <2>5, <3>4, <3>5 DEF Steps
    <3>. QED
      BY <3>2, <3>6
  <2>6. CASE w # <<>>
    <3>1. PICK y : y = [x.p EXCEPT !.st = val]
      OBVIOUS
    <3>2. ConnectUpdate(p, d, g) = Result(y, x.d)
      <4>1. x.p.need > 0
        BY <2>2, <2>3, <2>6
      <4>2. val # "FINISHED"
        BY <1>4 DEF ConnectVals
      <4>3. Goes(x.p, val) = y
        BY <3>1, <4>2 DEF Goes
      <4>. QED
        BY <1>2, <1>4, <1>7, <4>1, <4>3 DEF ConnectUpdate, ConnectLen
    <3>3. /\ y.need = Len(w) /\ y.m = p.m /\ y.acc = <<>> /\ y.buf = <<>> /\ y.st = val
          /\ y.done = FALSE /\ IsObject(y)
      BY <2>3, <3>1 DEF IsObject
    <3>4. Known(y, m, n - 1)
      BY <2>2, <3>3 DEF Known
    <3>5. Reading(y, w, b, a) /\ y.need > 0
      BY <1>1, <2>2, <2>6, <3>3, Afresh
    <3>6. AwaitsText(y, m, b, n, len, val, w, a)
      BY <3>3, <3>4, <3>5 DEF AwaitsText
    <3>7. Expect(y, m, b)
      BY <3>3, <3>6 DEF TextOf
    <3>8. Result(y, x.d).err = FALSE /\ Result(y, x.d).d = x.d /\ Result(y, x.d).p = y
      BY DEF Result
    <3>9. Steps(Result(y, x.d), m, s, l)
      BY <1>1, <1>5, <2>1, <3>7, <3>8 DEF Steps
    <3>. QED
      BY <3>2, <3>9
  <2>. QED
    BY <2>5, <2>6
<1>. QED
  BY <1>6, <1>7

\* A handler that reads a text gets on.
LEMMA ConnectValSteps ==
    ASSUME NEW m, NEW n, NEW len, NEW val, NEW w \in Streams, NEW a \in Streams,
           TextOf(m, n, len, val, w, a), Fits(w),
           NEW p, NEW d \in Streams, NEW s \in Streams,
           NEW r \in Streams, NEW l \in Streams, Then(d, s) = Then(r, l),
           IsObject(p), p.done = FALSE, Known(p, m, n - 1), p.st = val, p.buf = <<>>,
           p.need > 0, Reading(p, w, r, a), NEW g
    PROVE  Steps(ConnectUpdate(p, d, g), m, s, l)
<1>1. PICK x : x = Value(p, d)
  OBVIOUS
<1>2. Reads(x, p, w, s, l, a)
  BY <1>1, ValueReads
<1>3. val \in ConnectVals /\ "HDR_VAR" \notin ConnectVals
  BY DEF TextOf, ConnectVals
<1>4. /\ x.err = FALSE /\ x.d \in Streams
      /\ x.p = [p EXCEPT !.need = x.p.need, !.acc = x.p.acc]
  BY <1>2 DEF Reads
<1>5. x.p.m = p.m /\ x.p.buf = <<>> /\ x.p.st = val /\ x.p.done = FALSE /\ IsObject(x.p)
  BY <1>4 DEF IsObject
<1>6. p.need \in Nat /\ ~(p.need <= 0)
  BY DEF Reading
<1>7. PICK y : y = [x.p EXCEPT !.m[ConnectField(val)] = x.p.acc, !.acc = <<>>]
  OBVIOUS
<1>8. ConnectUpdate(p, d, g) = ConnectVal(p, d)
  BY <1>3 DEF ConnectUpdate
<1>9. CASE ~x.whole
  <2>1. ConnectVal(p, d) = x
    BY <1>1, <1>6, <1>9 DEF ConnectVal
  <2>2. PICK q \in Streams : Reading(x.p, w, q, a) /\ Then(x.d, s) = Then(q, l) /\ x.p.need > 0
    BY <1>2, <1>9 DEF Reads
  <2>3. Known(x.p, m, n - 1)
    BY <1>5, <2>2 DEF Known, Reading
  <2>4. AwaitsText(x.p, m, q, n, len, val, w, a)
    BY <1>5, <2>2, <2>3 DEF AwaitsText
  <2>5. Expect(x.p, m, q)
    BY <1>5, <2>4 DEF TextOf
  <2>6. Steps(x, m, s, l)
    BY <1>4, <2>2, <2>5 DEF Steps
  <2>. QED
    BY <1>8, <2>1, <2>6
<1>10. CASE x.whole
  <2>1. PICK z : z = Goes(y, ConnectAfter(y, val))
    OBVIOUS
  <2>2. ConnectVal(p, d) = Result(z, x.d)
    BY <1>1, <1>6, <1>7, <1>10, <2>1 DEF ConnectVal
  <2>3. x.p.acc = w /\ x.p.need = 0 /\ Then(x.d, s) = Then(a, l)
    BY <1>2, <1>10 DEF Reads
  <2>4. Known(x.p, m, n - 1)
    BY <1>5, <2>3 DEF Known
  <2>5. y = [x.p EXCEPT !.m[ConnectField(val)] = w, !.acc = <<>>]
    BY <1>7, <2>3
  <2>6. Known(y, m, n)
    BY <1>5, <2>4, <2>5 DEF TextOf
  <2>7. Resting(y)
    BY <1>5, <2>5 DEF Resting, IsObject
  <2>8. Expect(z, m, a)
    BY <2>1, <2>6, <2>7 DEF TextOf
  <2>9. Result(z, x.d).err = FALSE /\ Result(z, x.d).d = x.d /\ Result(z, x.d).p = z
    BY DEF Result
  <2>10. Steps(Result(z, x.d), m, s, l)
    BY <1>4, <2>3, <2>8, <2>9 DEF Steps
  <2>. QED
    BY <1>8, <2>2, <2>10
<1>. QED
  BY <1>9, <1>10

(***************************************************************************)
(* The five texts of a connect.                                            *)
(***************************************************************************)
\* The five texts: the client's id,
LEMMA CidText ==
    ASSUME NEW m, ConnectOK(m)
    PROVE  TextOf(m, 1, "CID_LEN", "CID_VAL", m.cid, FromTopic(m))
<1>1. m.type = CONNECT
  BY ConnectFacts
<1>2. /\ "CID_LEN" \notin ConnectVals /\ "CID_LEN" # "HDR_VAR"
      /\ ValOf("CID_LEN") = "CID_VAL" /\ "CID_VAL" \in ConnectVals
      /\ ConnectField("CID_VAL") = "cid"
  BY DEF ConnectVals, ValOf, ConnectField
<1>3. ASSUME NEW u, NEW q, IsObject(u), u.done = FALSE,
             AwaitsText(u, m, q, 1, "CID_LEN", "CID_VAL", m.cid, FromTopic(m))
      PROVE  Expect(u, m, q)
  <2>1. u.m.type = CONNECT
    BY <1>3 DEF AwaitsText, Known
  <2>. QED
    BY <1>1, <1>3, <2>1 DEF Expect, AwaitsConnect
<1>4. ASSUME NEW u, Resting(u), Known(u, m, 1)
      PROVE  Expect(Goes(u, ConnectAfter(u, "CID_VAL")), m, FromTopic(m))
  <2>1. ConnectAfter(u, "CID_VAL") = AfterCid(u)
    BY DEF ConnectAfter
  <2>. QED
    BY <1>4, <2>1, BehindCid
<1>5. ASSUME NEW u, IsObject(u), Known(u, m, 1 - 1)
      PROVE  Known([u EXCEPT !.m[ConnectField("CID_VAL")] = m.cid, !.acc = <<>>], m, 1)
  <2>1. PICK y : y = [u EXCEPT !.m.cid = m.cid, !.acc = <<>>]
    OBVIOUS
  <2>2. [u EXCEPT !.m[ConnectField("CID_VAL")] = m.cid, !.acc = <<>>] = y
    BY <1>2, <2>1
  <2>3. y.m = [u.m EXCEPT !.cid = m.cid] /\ y.need = u.need
    BY <1>5, <2>1 DEF IsObject
  <2>4. Known(y, m, 1)
    BY <1>5, <2>3 DEF Known
  <2>. QED
    BY <2>2, <2>4
<1>6. ASSUME m.cid = <<>>, NEW u, Known(u, m, 1 - 1) PROVE Known(u, m, 1)
  BY <1>6 DEF Known
<1>7. "CID_VAL" # "WILL_TOPIC_VAL"
  OBVIOUS
<1>. QED
  BY <1>2, <1>3, <1>4, <1>5, <1>6, <1>7, Zenon DEF TextOf

\* the topic of the will,
LEMMA TopicText ==
    ASSUME NEW m, ConnectOK(m), m.wtopic # <<>>
    PROVE  TextOf(m, 2, "WILL_TOPIC_LEN", "WILL_TOPIC_VAL", m.wtopic, FromMsg(m))
<1>1. m.type = CONNECT
  BY ConnectFacts
<1>2. /\ "WILL_TOPIC_LEN" \notin ConnectVals /\ "WILL_TOPIC_LEN" # "HDR_VAR"
      /\ ValOf("WILL_TOPIC_LEN") = "WILL_TOPIC_VAL" /\ "WILL_TOPIC_VAL" \in ConnectVals
      /\ ConnectField("WILL_TOPIC_VAL") = "wtopic"
  BY DEF ConnectVals, ValOf, ConnectField
<1>3. ASSUME NEW u, NEW q, IsObject(u), u.done = FALSE,
             AwaitsText(u, m, q, 2, "WILL_TOPIC_LEN", "WILL_TOPIC_VAL", m.wtopic, FromMsg(m))
      PROVE  Expect(u, m, q)
  <2>1. u.m.type = CONNECT
    BY <1>3 DEF AwaitsText, Known
  <2>. QED
    BY <1>1, <1>3, <2>1 DEF Expect, AwaitsConnect
<1>4. ASSUME NEW u, Resting(u), Known(u, m, 2)
      PROVE  Expect(Goes(u, ConnectAfter(u, "WILL_TOPIC_VAL")), m, FromMsg(m))
  <2>1. ConnectAfter(u, "WILL_TOPIC_VAL") = "WILL_MSG_LEN"
    BY DEF ConnectAfter
  <2>2. m.wmsg # <<>>
    BY ConnectFacts
  <2>. QED
    BY <1>4, <2>1, <2>2, BehindTopic
<1>5. ASSUME NEW u, IsObject(u), Known(u, m, 2 - 1)
      PROVE  Known([u EXCEPT !.m[ConnectField("WILL_TOPIC_VAL")] = m.wtopic, !.acc = <<>>], m, 2)
  <2>1. PICK y : y = [u EXCEPT !.m.wtopic = m.wtopic, !.acc = <<>>]
    OBVIOUS
  <2>2. [u EXCEPT !.m[ConnectField("WILL_TOPIC_VAL")] = m.wtopic, !.acc = <<>>] = y
    BY <1>2, <2>1
  <2>3. y.m = [u.m EXCEPT !.wtopic = m.wtopic] /\ y.need = u.need
    BY <1>5, <2>1 DEF IsObject
  <2>4. Known(y, m, 2)
    BY <1>5, <2>3 DEF Known
  <2>. QED
    BY <2>2, <2>4
<1>. QED
  BY <1>2, <1>3, <1>4, <1>5, Zenon DEF TextOf

\* its message,
LEMMA MsgText ==
    ASSUME NEW m, ConnectOK(m), m.wmsg # <<>>
    PROVE  TextOf(m, 3, "WILL_MSG_LEN", "WILL_MSG_VAL", m.wmsg, FromUser(m))
<1>1. m.type = CONNECT
  BY ConnectFacts
<1>2. /\ "WILL_MSG_LEN" \notin ConnectVals /\ "WILL_MSG_LEN" # "HDR_VAR"
      /\ ValOf("WILL_MSG_LEN") = "WILL_MSG_VAL" /\ "WILL_MSG_VAL" \in ConnectVals
      /\ ConnectField("WILL_MSG_VAL") = "wmsg"
  BY DEF ConnectVals, ValOf, ConnectField
<1>3. ASSUME NEW u, NEW q, IsObject(u), u.done = FALSE,
             AwaitsText(u, m, q, 3, "WILL_MSG_LEN", "WILL_MSG_VAL", m.wmsg, FromUser(m))
      PROVE  Expect(u, m, q)
  <2>1. u.m.type = CONNECT
    BY <1>3 DEF AwaitsText, Known
  <2>. QED
    BY <1>1, <1>3, <2>1 DEF Expect, AwaitsConnect
<1>4. ASSUME NEW u, Resting(u), Known(u, m, 3)
      PROVE  Expect(Goes(u, ConnectAfter(u, "WILL_MSG_VAL")), m, FromUser(m))
  <2>1. ConnectAfter(u, "WILL_MSG_VAL") = AfterWill(u)
    BY DEF ConnectAfter
  <2>. QED
    BY <1>4, <2>1, BehindWill
<1>5. ASSUME NEW u, IsObject(u), Known(u, m, 3 - 1)
      PROVE  Known([u EXCEPT !.m[ConnectField("WILL_MSG_VAL")] = m.wmsg, !.acc = <<>>], m, 3)
  <2>1. PICK y : y = [u EXCEPT !.m.wmsg = m.wmsg, !.acc = <<>>]
    OBVIOUS
  <2>2. [u EXCEPT !.m[ConnectField("WILL_MSG_VAL")] = m.wmsg, !.acc = <<>>] = y
    BY <1>2, <2>1
  <2>3. y.m = [u.m EXCEPT !.wmsg = m.wmsg] /\ y.need = u.need
    BY <1>5, <2>1 DEF IsObject
  <2>4. Known(y, m, 3)
    BY <1>5, <2>3 DEF Known
  <2>. QED
    BY <2>2, <2>4
<1>. QED
  BY <1>2, <1>3, <1>4, <1>5, Zenon DEF TextOf

\* the name of the user
LEMMA UserText ==
    ASSUME NEW m, ConnectOK(m), m.user # <<>>
    PROVE  TextOf(m, 4, "USERNAME_LEN", "USERNAME_VAL", m.user, FromPass(m))
<1>1. m.type = CONNECT
  BY ConnectFacts
<1>2. /\ "USERNAME_LEN" \notin ConnectVals /\ "USERNAME_LEN" # "HDR_VAR"
      /\ ValOf("USERNAME_LEN") = "USERNAME_VAL" /\ "USERNAME_VAL" \in ConnectVals
      /\ ConnectField("USERNAME_VAL") = "user"
  BY DEF ConnectVals, ValOf, ConnectField
<1>3. ASSUME NEW u, NEW q, IsObject(u), u.done = FALSE,
             AwaitsText(u, m, q, 4, "USERNAME_LEN", "USERNAME_VAL", m.user, FromPass(m))
      PROVE  Expect(u, m, q)
  <2>1. u.m.type = CONNECT
    BY <1>3 DEF AwaitsText, Known
  <2>. QED
    BY <1>1, <1>3, <2>1 DEF Expect, AwaitsConnect
<1>4. ASSUME NEW u, Resting(u), Known(u, m, 4)
      PROVE  Expect(Goes(u, ConnectAfter(u, "USERNAME_VAL")), m, FromPass(m))
  <2>1. ConnectAfter(u, "USERNAME_VAL") = AfterUser(u)
    BY DEF ConnectAfter
  <2>. QED
    BY <1>4, <2>1, BehindUser
<1>5. ASSUME NEW u, IsObject(u), Known(u, m, 4 - 1)
      PROVE  Known([u EXCEPT !.m[ConnectField("USERNAME_VAL")] = m.user, !.acc = <<>>], m, 4)
  <2>1. PICK y : y = [u EXCEPT !.m.user = m.user, !.acc = <<>>]
    OBVIOUS
  <2>2. [u EXCEPT !.m[ConnectField("USERNAME_VAL")] = m.user, !.acc = <<>>] = y
    BY <1>2, <2>1
  <2>3. y.m = [u.m EXCEPT !.user = m.user] /\ y.need = u.need
    BY <1>5, <2>1 DEF IsObject
  <2>4. Known(y, m, 4)
    BY <1>5, <2>3 DEF Known
  <2>. QED
    BY <2>2, <2>4
<1>. QED
  BY <1>2, <1>3, <1>4, <1>5, Zenon DEF TextOf

\* and the password.
LEMMA PassText ==
    ASSUME NEW m, ConnectOK(m), m.pass # <<>>
    PROVE  TextOf(m, 5, "PASSWD_LEN", "PASSWD_VAL", m.pass, <<>>)
<1>1. m.type = CONNECT
  BY ConnectFacts
<1>2. /\ "PASSWD_LEN" \notin ConnectVals /\ "PASSWD_LEN" # "HDR_VAR"
      /\ ValOf("PASSWD_LEN") = "PASSWD_VAL" /\ "PASSWD_VAL" \in ConnectVals
      /\ ConnectField("PASSWD_VAL") = "pass"
  BY DEF ConnectVals, ValOf, ConnectField
<1>3. ASSUME NEW u, NEW q, IsObject(u), u.done = FALSE,
             AwaitsText(u, m, q, 5, "PASSWD_LEN", "PASSWD_VAL", m.pass, <<>>)
      PROVE  Expect(u, m, q)
  <2>1. u.m.type = CONNECT
    BY <1>3 DEF AwaitsText, Known
  <2>. QED
    BY <1>1, <1>3, <2>1 DEF Expect, AwaitsConnect
<1>4. ASSUME NEW u, Resting(u), Known(u, m, 5)
      PROVE  Expect(Goes(u, ConnectAfter(u, "PASSWD_VAL")), m, <<>>)
  <2>1. ConnectAfter(u, "PASSWD_VAL") = "FINISHED"
    BY DEF ConnectAfter
  <2>. QED
    BY <1>4, <2>1, ConnectEnds
<1>5. ASSUME NEW u, IsObject(u), Known(u, m, 5 - 1)
      PROVE  Known([u EXCEPT !.m[ConnectField("PASSWD_VAL")] = m.pass, !.acc = <<>>], m, 5)
  <2>1. PICK y : y = [u EXCEPT !.m.pass = m.pass, !.acc = <<>>]
    OBVIOUS
  <2>2. [u EXCEPT !.m[ConnectField("PASSWD_VAL")] = m.pass, !.acc = <<>>] = y
    BY <1>2, <2>1
  <2>3. y.m = [u.m EXCEPT !.pass = m.pass] /\ y.need = u.need
    BY <1>5, <2>1 DEF IsObject
  <2>4. Known(y, m, 5)
    BY <1>5, <2>3 DEF Known
  <2>. QED
    BY <2>2, <2>4
<1>. QED
  BY <1>2, <1>3, <1>4, <1>5, Zenon DEF TextOf

\* The text that is awaited, or its length.
LEMMA ConnectTextSteps ==
    ASSUME NEW m, ConnectOK(m), NEW n, NEW len, NEW val, NEW w \in Streams, NEW a \in Streams,
           TextOf(m, n, len, val, w, a), Fits(w),
           NEW p, NEW d \in Streams, NEW s \in Streams,
           NEW r \in Streams, NEW l \in Streams, Then(d, s) = Then(r, l),
           IsObject(p), p.done = FALSE, AwaitsText(p, m, r, n, len, val, w, a), NEW g
    PROVE  Steps(ConnectUpdate(p, d, g), m, s, l)
<1>1. Known(p, m, n - 1)
  BY DEF AwaitsText
<1>2. CASE p.st = len /\ p.acc = <<>> /\ Filling(p, Short(Len(w)), r, Then(w, a))
  BY <1>1, <1>2, ConnectLenSteps
<1>3. CASE p.st = val /\ p.buf = <<>> /\ p.need > 0 /\ Reading(p, w, r, a)
  BY <1>1, <1>3, ConnectValSteps
<1>. QED
  BY <1>2, <1>3 DEF AwaitsText

\* The ten bytes before the texts.
LEMMA ConnectVarSteps ==
    ASSUME NEW m, ConnectOK(m),
           NEW p, NEW d \in Streams, NEW s \in Streams,
           NEW r \in Streams, NEW l \in Streams, Then(d, s) = Then(r, l),
           IsObject(p), p.done = FALSE, p.st = "HDR_VAR", p.acc = <<>>, p.need = 0,
           NEW k, p.m = [type |-> CONNECT, flags |-> 0, cflags |-> 0, wqos |-> 0, keep |-> k,
                         cid |-> <<>>, wtopic |-> <<>>, wmsg |-> <<>>, user |-> <<>>,
                         pass |-> <<>>],
           Filling(p, ConnectHead(m), r, Then(Text(m.cid), FromTopic(m))), NEW g
    PROVE  Steps(ConnectUpdate(p, d, g), m, s, l)
<1>1. PICK f \in Streams, a \in Streams :
        /\ f = ConnectHead(m) /\ a = Then(Text(m.cid), FromTopic(m))
        /\ 10 = Len(f) /\ f[8] = m.cflags
  <2>1. m \in Connects
    BY DEF ConnectOK
  <2>. QED
    BY <2>1, ConnectParts, Zenon
<1>2. PICK w \in Streams, b \in Streams : w = m.cid /\ b = FromTopic(m) /\ Fits(w)
  BY ConnectFacts
<1>3. PICK h \in Streams, c \in Streams : h = Short(Len(w)) /\ c = Then(w, b) /\ a = Then(h, c)
  <2>1. Short(Len(w)) \in Streams /\ Text(w) = Then(Short(Len(w)), w)
    BY <1>2, TextIs
  <2>2. Then(w, b) \in Streams
    BY ThenIs
  <2>3. Then(Then(Short(Len(w)), w), b) = Then(Short(Len(w)), Then(w, b))
    BY <2>1, ThenJoins
  <2>. QED
    BY <1>1, <1>2, <2>1, <2>2, <2>3
<1>4. PICK x : x = Fixed(p, d, 10)
  OBVIOUS
<1>5. Fills(x, p, f, s, l, a)
  <2>1. Filling(p, f, r, a)
    BY <1>1
  <2>2. Fills(Fixed(p, d, 10), p, f, s, l, a)
    BY <1>1, <2>1, FixedFills
  <2>. QED
    BY <1>4, <2>2
<1>6. /\ x.err = FALSE /\ x.d \in Streams
      /\ x.p = [p EXCEPT !.buf = x.p.buf]
  BY <1>5 DEF Fills
<1>7. /\ x.p.m = p.m /\ x.p.done = FALSE /\ IsObject(x.p) /\ x.p.acc = <<>> /\ x.p.need = 0
      /\ x.p.st = "HDR_VAR"
  BY <1>6 DEF IsObject
<1>8. ConnectUpdate(p, d, g) = ConnectVar(p, d, g) /\ m.type = CONNECT /\ p.m.type = CONNECT
  <2>1. ConnectUpdate(p, d, g) = ConnectVar(p, d, g)
    BY DEF ConnectUpdate, ConnectVals
  <2>2. m.type = CONNECT
    BY ConnectFacts
  <2>3. p.m.type = CONNECT
    OBVIOUS
  <2>. QED
    BY <2>1, <2>2, <2>3
<1>9. CASE ~x.whole
  <2>1. ConnectVar(p, d, g) = x
    BY <1>4, <1>9 DEF ConnectVar
  <2>2. PICK q \in Streams : Filling(x.p, f, q, a) /\ Then(x.d, s) = Then(q, l)
    BY <1>5 DEF Fills
  <2>3. AwaitsConnect(x.p, m, q)
    BY <1>1, <1>7, <2>2 DEF AwaitsConnect
  <2>4. Expect(x.p, m, q)
    BY <1>7, <1>8, <2>3 DEF Expect
  <2>5. Steps(x, m, s, l)
    BY <1>6, <2>2, <2>4 DEF Steps
  <2>. QED
    BY <1>8, <2>1, <2>5
<1>10. CASE x.whole
  <2>1. PICK i : i = 256 * x.p.buf[10] + g
    OBVIOUS
  <2>2. PICK y : y = [x.p EXCEPT !.m.cflags = x.p.buf[8], !.m.keep = i,
                                 !.buf = <<>>, !.st = "CID_LEN"]
    OBVIOUS
  <2>3. ConnectVar(p, d, g) = Result(y, x.d)
    BY <1>4, <1>10, <2>1, <2>2 DEF ConnectVar
  <2>4. x.p.buf = f /\ Then(x.d, s) = Then(a, l)
    BY <1>5, <1>10 DEF Fills
  <2>5. /\ y.m = [p.m EXCEPT !.cflags = m.cflags, !.keep = i] /\ y.need = 0 /\ y.acc = <<>>
        /\ y.buf = <<>> /\ y.st = "CID_LEN" /\ y.done = FALSE /\ IsObject(y)
    BY <1>1, <1>7, <2>2, <2>4 DEF IsObject
  <2>6. y.m = [type |-> CONNECT, flags |-> 0, cflags |-> m.cflags, wqos |-> 0, keep |-> i,
               cid |-> <<>>, wtopic |-> <<>>, wmsg |-> <<>>, user |-> <<>>, pass |-> <<>>]
    <3> DEFINE Blank(f0, k0) ==
                 [type |-> CONNECT, flags |-> 0, cflags |-> f0, wqos |-> 0, keep |-> k0,
                  cid |-> <<>>, wtopic |-> <<>>, wmsg |-> <<>>, user |-> <<>>, pass |-> <<>>]
               SetTo(x0, f0, k0, z0) == [[x0 EXCEPT !.cflags = f0] EXCEPT !.keep = k0] = z0
    <3>1. ASSUME NEW f1, NEW k1, NEW f2, NEW k2 PROVE SetTo(Blank(f1, k1), f2, k2, Blank(f2, k2))
      <4>1. [Blank(f1, k1) EXCEPT !.cflags = f2] = Blank(f2, k1)
        OBVIOUS
      <4>2. [Blank(f2, k1) EXCEPT !.keep = k2] = Blank(f2, k2)
        OBVIOUS
      <4>. HIDE DEF Blank
      <4>. QED
        BY <4>1, <4>2, Zenon
    <3>2. p.m = Blank(0, k)
      OBVIOUS
    <3>3. ASSUME NEW x0, NEW f0, NEW k0, NEW z0, SetTo(x0, f0, k0, z0)
          PROVE  [x0 EXCEPT !.cflags = f0, !.keep = k0] = z0
      BY <3>3
    <3>. HIDE DEF Blank, SetTo
    <3>4. SetTo(p.m, m.cflags, i, Blank(m.cflags, i))
      BY <3>1, <3>2
    <3>5. y.m = Blank(m.cflags, i)
      BY <2>5, <3>3, <3>4
    <3>. QED
      BY <3>5 DEF Blank
  <2>7. Known(y, m, 1 - 1)
    BY <2>5, <2>6 DEF Known
  <2>8. Filling(y, h, a, c)
    BY <1>3, <2>5, Anew
  <2>9. AwaitsText(y, m, a, 1, "CID_LEN", "CID_VAL", w, b)
    BY <1>3, <2>5, <2>7, <2>8 DEF AwaitsText
  <2>10. y.m.type = CONNECT
    BY <2>6
  <2>11. Expect(y, m, a)
    BY <1>2, <1>8, <2>5, <2>9, <2>10 DEF Expect, AwaitsConnect
  <2>12. Result(y, x.d).err = FALSE /\ Result(y, x.d).d = x.d /\ Result(y, x.d).p = y
    BY DEF Result
  <2>13. Steps(Result(y, x.d), m, s, l)
    BY <1>1, <1>6, <2>4, <2>11, <2>12 DEF Steps
  <2>. QED
    BY <1>8, <2>3, <2>13
<1>. QED
  BY <1>9, <1>10

\* The handlers of a connect get on.
LEMMA ConnectSteps ==
    ASSUME NEW m, ConnectOK(m),
           NEW p, NEW d \in Streams, NEW s \in Streams,
           NEW r \in Streams, NEW l \in Streams, Then(d, s) = Then(r, l),
           IsObject(p), p.done = FALSE, AwaitsConnect(p, m, r), NEW g
    PROVE  Steps(ConnectUpdate(p, d, g), m, s, l)
<1>1. /\ m.cid \in Streams /\ m.wtopic \in Streams /\ m.wmsg \in Streams
      /\ m.user \in Streams /\ m.pass \in Streams
      /\ Fits(m.cid) /\ Fits(m.wtopic) /\ Fits(m.wmsg) /\ Fits(m.user) /\ Fits(m.pass)
      /\ FromPass(m) \in Streams /\ FromUser(m) \in Streams /\ FromMsg(m) \in Streams
      /\ FromTopic(m) \in Streams /\ <<>> \in Streams
  BY ConnectFacts, NothingIs, Zenon
<1>2. CASE /\ p.st = "HDR_VAR" /\ p.acc = <<>> /\ p.need = 0
           /\ \E k : p.m = [type |-> CONNECT, flags |-> 0, cflags |-> 0, wqos |-> 0, keep |-> k,
                            cid |-> <<>>, wtopic |-> <<>>, wmsg |-> <<>>, user |-> <<>>,
                            pass |-> <<>>]
           /\ Filling(p, ConnectHead(m), r, Then(Text(m.cid), FromTopic(m)))
  BY <1>2, ConnectVarSteps
<1>3. CASE AwaitsText(p, m, r, 1, "CID_LEN", "CID_VAL", m.cid, FromTopic(m))
  BY <1>1, <1>3, CidText, ConnectTextSteps
<1>4. CASE m.wtopic # <<>>
           /\ AwaitsText(p, m, r, 2, "WILL_TOPIC_LEN", "WILL_TOPIC_VAL", m.wtopic, FromMsg(m))
  BY <1>1, <1>4, TopicText, ConnectTextSteps
<1>5. CASE m.wmsg # <<>>
           /\ AwaitsText(p, m, r, 3, "WILL_MSG_LEN", "WILL_MSG_VAL", m.wmsg, FromUser(m))
  BY <1>1, <1>5, MsgText, ConnectTextSteps
<1>6. CASE m.user # <<>>
           /\ AwaitsText(p, m, r, 4, "USERNAME_LEN", "USERNAME_VAL", m.user, FromPass(m))
  BY <1>1, <1>6, UserText, ConnectTextSteps
<1>7. CASE m.pass # <<>>
           /\ AwaitsText(p, m, r, 5, "PASSWD_LEN", "PASSWD_VAL", m.pass, <<>>)
  BY <1>1, <1>7, PassText, ConnectTextSteps
<1>. QED
  BY <1>2, <1>3, <1>4, <1>5, <1>6, <1>7 DEF AwaitsConnect

(***************************************************************************)
(* What the messages with a list have in common: the id, and the length of *)
(* a topic.  nread is how much of the body is read.                        *)
(***************************************************************************)
\* The id of a list is read, or more of it than before.
Headed(x, p, f, s, l, a, st) ==
    /\ x.err = FALSE /\ x.d \in Streams
    /\ \/ \E q \in Streams, b \in Streams, k \in Int :
             /\ x.p = [p EXCEPT !.buf = b, !.nread = k]
             /\ Filling(x.p, f, q, a) /\ Then(x.d, s) = Then(q, l) /\ k + Len(q) = p.body
       \/ \E k \in Int :
             /\ x.p = [p EXCEPT !.buf = <<>>, !.nread = k, !.m.pkt = UnpackShort(f), !.st = st]
             /\ Then(x.d, s) = Then(a, l) /\ k + Len(a) = p.body

\* ListVar reads the id of a list whose body goes on behind it.
LEMMA ListVarIs ==
    ASSUME NEW d \in Streams, NEW s \in Streams, NEW r \in Streams, NEW l \in Streams,
           NEW f \in Streams, NEW a \in Streams, NEW p, NEW st,
           IsObject(p), Len(f) = 2, Filling(p, f, r, a), Then(d, s) = Then(r, l),
           p.nread \in Int, p.nread + Len(r) = p.body, Len(a) > 0,
           st = IF p.m.type = SUBACK THEN "TOPIC_QOS" ELSE "TOPIC_LEN"
    PROVE  Headed(ListVar(p, d), p, f, s, l, a, st)
<1>1. PICK t : t = Take(p.buf, 2, d)
  OBVIOUS
<1>2. PICK b \in Streams : b = p.buf /\ Len(b) <= Len(f) /\ Then(b, r) = Then(f, a)
  BY DEF Filling
<1>3. Took(t, b, s, r, l, f, a)
  <2>1. Took(Take(b, Len(f), d), b, s, r, l, f, a)
    BY <1>2, TakeIs
  <2>. QED
    BY <1>1, <1>2, <2>1
<1>4. /\ t.buf \in Streams /\ t.d \in Streams /\ t.n \in Nat /\ Len(t.buf) \in Nat
      /\ Len(t.buf) = Len(b) + t.n /\ Len(t.buf) <= Len(f)
      /\ Len(t.buf) = Len(f) => t.buf = f /\ Then(t.d, s) = Then(a, l)
  BY <1>3, LenIs DEF Took
<1>5. PICK q \in Streams : /\ Then(t.buf, q) = Then(f, a) /\ Then(t.d, s) = Then(q, l)
                           /\ Len(q) = Len(r) - t.n
  BY <1>3 DEF Took
<1>6. /\ Len(b) \in Nat /\ Len(r) \in Nat /\ Len(a) \in Nat /\ Len(q) \in Nat
      /\ Len(b) + Len(r) = 2 + Len(a)
  <2>1. Len(Then(b, r)) = Len(b) + Len(r) /\ Len(Then(f, a)) = Len(f) + Len(a)
    BY ThenLen
  <2>. QED
    BY <1>2, <2>1, LenIs
<1>7. PICK k : k = p.nread + t.n
  OBVIOUS
<1>8. /\ k \in Int /\ k + Len(q) = p.body
      /\ Len(t.buf) = 2 => k + Len(a) = p.body /\ ~(k >= p.body)
      /\ Len(t.buf) < 2 \/ Len(t.buf) = 2
  <2> DEFINE u == Len(t.buf)
             v == Len(b)
             w == Len(q)
             y == Len(r)
             z == Len(a)
             n == t.n
             i == p.nread
             j == p.body
  <2>1. /\ u \in Nat /\ v \in Nat /\ w \in Nat /\ y \in Nat /\ z \in Nat /\ n \in Nat
        /\ i \in Int /\ u = v + n /\ u <= 2 /\ w = y - n /\ v + y = 2 + z /\ z > 0
        /\ i + y = j /\ k = i + n
    BY <1>4, <1>5, <1>6, <1>7, Zenon
  <2>. HIDE DEF u, v, w, y, z, n, i, j
  <2>2. /\ k \in Int /\ k + w = j
        /\ u = 2 => k + z = j /\ ~(k >= j)
        /\ u < 2 \/ u = 2
    BY <2>1
  <2>. QED
    BY <2>2 DEF u, w, z, j
<1>9. CASE Len(t.buf) < 2
  <2>1. PICK y : y = [p EXCEPT !.buf = t.buf, !.nread = k]
    OBVIOUS
  <2>2. ListVar(p, d) = Result(y, t.d)
    <3>1. [p EXCEPT !.buf = t.buf, !.nread = @ + t.n] = y
      BY <1>7, <2>1
    <3>2. Len(t.buf) # 2
      BY <1>4, <1>9
    <3>. QED
      BY <1>1, <1>9, <3>1, <3>2 DEF ListVar
  <2>3. y.buf = t.buf
    BY <2>1 DEF IsObject
  <2>4. Len(t.buf) <= Len(f)
    BY <1>4
  <2>5. Filling(y, f, q, a)
    BY <1>4, <1>5, <2>3, <2>4 DEF Filling
  <2>6. Result(y, t.d).err = FALSE /\ Result(y, t.d).d = t.d /\ Result(y, t.d).p = y
    BY DEF Result
  <2>7. Headed(Result(y, t.d), p, f, s, l, a, st)
    <3>1. PICK c \in Streams : c = t.buf
      BY <1>4
    <3>2. y = [p EXCEPT !.buf = c, !.nread = k] /\ k \in Int /\ k + Len(q) = p.body
      BY <1>8, <2>1, <3>1
    <3>3. PICK x : x = Result(y, t.d) /\ x.err = FALSE /\ x.d = t.d /\ x.p = y
      BY <2>6
    <3>4. Headed(x, p, f, s, l, a, st)
      <4>1. /\ x.err = FALSE /\ x.d \in Streams /\ Then(x.d, s) = Then(q, l)
            /\ Filling(x.p, f, q, a) /\ x.p = [p EXCEPT !.buf = c, !.nread = k]
        BY <1>4, <1>5, <2>5, <3>2, <3>3
      <4>. QED
        BY <3>2, <4>1, Zenon DEF Headed
    <3>. QED
      BY <3>3, <3>4
  <2>. QED
    BY <2>2, <2>7
<1>10. CASE Len(t.buf) = 2
  <2>1. t.buf = f /\ Then(t.d, s) = Then(a, l)
    BY <1>4, <1>10
  <2>2. PICK y : y = [p EXCEPT !.buf = <<>>, !.nread = k, !.m.pkt = UnpackShort(f), !.st = st]
    OBVIOUS
  <2>3. ListVar(p, d) = Result(y, t.d)
    <3> DEFINE z == [p EXCEPT !.buf = <<>>, !.nread = @ + t.n, !.m.pkt = UnpackShort(t.buf)]
    <3>1. z = [p EXCEPT !.buf = <<>>, !.nread = k, !.m.pkt = UnpackShort(f)]
      BY <1>7, <2>1
    <3>2. z.nread = k
      BY <3>1 DEF IsObject
    <3>3. [z EXCEPT !.st = st] = y
      BY <2>2, <3>1 DEF IsObject
    <3>4. ListVar(p, d) =
            CASE Len(t.buf) < 2 -> Result([p EXCEPT !.buf = t.buf, !.nread = @ + t.n], t.d)
              [] Len(t.buf) = 2 /\ z.nread >= p.body ->
                    IF p.m.type = SUBACK THEN Result([z EXCEPT !.done = TRUE], t.d) ELSE Failed(z)
              [] OTHER -> Result([z EXCEPT !.st = IF p.m.type = SUBACK THEN "TOPIC_QOS"
                                                  ELSE "TOPIC_LEN"], t.d)
      BY <1>1 DEF ListVar
    <3>. HIDE DEF z
    <3>5. ~(Len(t.buf) < 2) /\ ~(z.nread >= p.body)
      BY <1>8, <1>10, <3>2
    <3>6. ListVar(p, d) = Result([z EXCEPT !.st = st], t.d)
      BY <3>4, <3>5
    <3>. QED
      BY <3>3, <3>6
  <2>4. Result(y, t.d).err = FALSE /\ Result(y, t.d).d = t.d /\ Result(y, t.d).p = y
    BY DEF Result
  <2>5. Headed(Result(y, t.d), p, f, s, l, a, st)
    BY <1>4, <1>8, <1>10, <2>1, <2>2, <2>4 DEF Headed
  <2>. QED
    BY <2>3, <2>5
<1>. QED
  BY <1>8, <1>9, <1>10

\* The length of a topic is read, or more of it than before.
Measured(x, p, w, s, l, b) ==
    /\ x.err = FALSE /\ x.d \in Streams
    /\ \/ \E q \in Streams, c \in Streams, k \in Int :
             /\ x.p = [p EXCEPT !.buf = c, !.nread = k]
             /\ Filling(x.p, Short(Len(w)), q, b) /\ Then(x.d, s) = Then(q, l)
             /\ k + Len(q) = p.body
       \/ \E k \in Int :
             /\ x.p = [p EXCEPT !.buf = <<>>, !.need = Len(w), !.nread = k, !.st = "TOPIC_VAL"]
             /\ Then(x.d, s) = Then(b, l) /\ k + Len(b) = p.body

\* ListTopicLen reads the length of a topic that is not empty.
LEMMA ListTopicLenIs ==
    ASSUME NEW d \in Streams, NEW s \in Streams, NEW r \in Streams, NEW l \in Streams,
           NEW w \in Streams, NEW b \in Streams, NEW p, Topic(w), Len(b) > 0,
           IsObject(p), Filling(p, Short(Len(w)), r, b), Then(d, s) = Then(r, l),
           p.nread \in Int, p.nread + Len(r) = p.body
    PROVE  Measured(ListTopicLen(p, d), p, w, s, l, b)
<1>1. PICK f \in Streams : f = Short(Len(w)) /\ Len(f) = 2 /\ UnpackShort(f) = Len(w)
  BY TextIs DEF Topic
<1>2. PICK x : x = Length(p, d)
  OBVIOUS
<1>3. FillsLength(x, p, Len(w), f, r, s, l, b)
  BY <1>1, <1>2, LengthFills
<1>4. x.err = FALSE /\ x.d \in Streams
  BY <1>3 DEF FillsLength
<1>5. Len(w) \in Nat /\ Len(w) # 0
  <2>1. w # <<>>
    BY DEF Topic
  <2>. QED
    BY <2>1, ThenNothing
<1>6. CASE ~x.whole
  <2>1. ListTopicLen(p, d) = x
    BY <1>2, <1>6 DEF ListTopicLen
  <2>2. PICK q \in Streams :
           /\ x.p = [p EXCEPT !.buf = x.p.buf, !.nread = p.nread + (Len(r) - Len(q))]
           /\ Filling(x.p, f, q, b) /\ Then(x.d, s) = Then(q, l)
    BY <1>3, <1>6 DEF FillsLength
  <2>3. PICK k : k = p.nread + (Len(r) - Len(q))
    OBVIOUS
  <2>4. k + Len(q) = p.body /\ k \in Int
    <3> DEFINE y == Len(r)
               z == Len(q)
    <3>1. y \in Nat /\ z \in Nat /\ p.nread \in Int /\ p.nread + y = p.body
          /\ k = p.nread + (y - z)
      BY <2>3, LenIs
    <3>. HIDE DEF y, z
    <3>2. k + z = p.body /\ k \in Int
      BY <3>1
    <3>. QED
      BY <3>2 DEF z
  <2>5. x.p = [p EXCEPT !.buf = x.p.buf, !.nread = k] /\ x.p.buf \in Streams
    BY <2>2, <2>3 DEF Filling
  <2>6. Measured(x, p, w, s, l, b)
    <3>1. PICK c \in Streams : c = x.p.buf
      BY <2>5
    <3>2. x.p = [p EXCEPT !.buf = c, !.nread = k] /\ Filling(x.p, Short(Len(w)), q, b)
      BY <1>1, <2>2, <2>5, <3>1
    <3>. QED
      BY <1>4, <2>2, <2>4, <3>2, Zenon DEF Measured
  <2>. QED
    BY <2>1, <2>6
<1>7. CASE x.whole
  <2>1. PICK k : k = p.nread + (Len(r) - Len(b))
    OBVIOUS
  <2>2. x.p = [p EXCEPT !.buf = <<>>, !.need = Len(w), !.nread = k] /\ Then(x.d, s) = Then(b, l)
    BY <1>3, <1>7, <2>1 DEF FillsLength
  <2>3. k + Len(b) = p.body /\ k \in Int /\ ~(k >= p.body)
    <3> DEFINE y == Len(r)
               z == Len(b)
    <3>1. y \in Nat /\ z \in Nat /\ z > 0 /\ p.nread \in Int /\ p.nread + y = p.body
          /\ k = p.nread + (y - z)
      BY <2>1, LenIs
    <3>. HIDE DEF y, z
    <3>2. k + z = p.body /\ k \in Int /\ ~(k >= p.body)
      BY <3>1
    <3>. QED
      BY <3>2 DEF z
  <2>4. x.p.need = Len(w) /\ x.p.nread = k
    BY <2>2 DEF IsObject
  <2>5. PICK y : y = [p EXCEPT !.buf = <<>>, !.need = Len(w), !.nread = k, !.st = "TOPIC_VAL"]
    OBVIOUS
  <2>6. [x.p EXCEPT !.st = "TOPIC_VAL"] = y
    BY <2>2, <2>5 DEF IsObject
  <2>7. ListTopicLen(p, d) = Result(y, x.d)
    <3>1. ~(x.p.need = 0 \/ x.p.nread >= p.body)
      BY <1>5, <2>3, <2>4
    <3>. QED
      BY <1>2, <1>7, <2>6, <3>1 DEF ListTopicLen
  <2>8. Result(y, x.d).err = FALSE /\ Result(y, x.d).d = x.d /\ Result(y, x.d).p = y
    BY DEF Result
  <2>9. Measured(Result(y, x.d), p, w, s, l, b)
    BY <1>4, <2>2, <2>3, <2>5, <2>8 DEF Measured
  <2>. QED
    BY <2>7, <2>9
<1>. QED
  BY <1>6, <1>7

(***************************************************************************)
(* A subscribe.                                                            *)
(***************************************************************************)
\* One more element of a sequence.
LEMMA GrowIs ==
    ASSUME NEW S, NEW q \in Seq(S), NEW i \in 1..Len(q)
    PROVE  /\ Append(SubSeq(q, 1, i - 1), q[i]) = SubSeq(q, 1, i)
           /\ SubSeq(q, 1, 0) = <<>> /\ SubSeq(q, 1, Len(q)) = q
<1>1. Len(q) \in Nat /\ \A j \in 1..Len(q) : q[j] \in S
  BY LenProperties, ElementOfSeq
<1>2. SubSeq(q, 1, i) = SubSeq(q, 1, i - 1) \o <<q[i]>>
  <2>1. 1 \in 1..Len(q) /\ i \in 1..Len(q)
    BY <1>1
  <2>. QED
    BY <2>1, SubSeqRecursiveSecond, Zenon
<1>3. SubSeq(q, 1, i - 1) \in Seq(S)
  <2>1. 1 \in Int /\ i - 1 \in Int /\ \A j \in 1..(i - 1) : q[j] \in S
    BY <1>1
  <2>. QED
    BY <2>1, SubSeqProperties, Zenon
<1>4. Append(SubSeq(q, 1, i - 1), q[i]) = SubSeq(q, 1, i - 1) \o <<q[i]>>
  BY <1>1, <1>3, AppendIsConcat
<1>5. SubSeq(q, 1, 0) = <<>>
  BY SubSeqEmpty
<1>6. SubSeq(q, 1, Len(q)) = q
  BY SubSeqFull
<1>. QED
  BY <1>2, <1>4, <1>5, <1>6, Zenon

\* A subscribe that is got through.
SubscribeOK(m) == m \in Subscribes /\ Sound(m) /\ m.topics # <<>>

\* What is known of one.
LEMMA SubscribeFacts ==
    ASSUME NEW m, SubscribeOK(m)
    PROVE  /\ m.type = SUBSCRIBE /\ m.pkt \in Words
           /\ Len(m.topics) \in Nat \ {0} /\ Len(m.qoses) = Len(m.topics)
           /\ m.topics \in Seq(Texts) /\ m.qoses \in Seq(0..2)
           /\ \A i \in 1..Len(m.topics) : /\ m.topics[i] \in Streams /\ Topic(m.topics[i])
                                          /\ m.qoses[i] \in 0..2
           /\ SubscribeEntries(m) \in Streams
           /\ Body(m) = Then(Short(m.pkt), SubscribeEntries(m))
           /\ Body(m) \in Streams
           /\ \E t : EntryTails(m, t)
           /\ Seen(m) = [type |-> SUBSCRIBE, flags |-> m.flags, pkt |-> m.pkt,
                         topics |-> m.topics, qoses |-> m.qoses]
<1>1. /\ m \in Subscribes /\ m.topics # <<>> /\ m.type = SUBSCRIBE
      /\ m.topics \in Seq(Texts) /\ m.qoses \in Seq(0..2) /\ Len(m.qoses) = Len(m.topics)
  BY DEF SubscribeOK, Subscribes
<1>2. \A i \in DOMAIN m.topics : Topic(m.topics[i])
  BY <1>1, TypesAre DEF SubscribeOK, Sound, TypeNames
<1>3. DOMAIN m.topics = 1..Len(m.topics)
  BY <1>1
<1>4. /\ Len(m.topics) \in Nat \ {0} /\ m.pkt \in Words
      /\ \A i \in 1..Len(m.topics) : m.topics[i] \in Streams /\ m.qoses[i] \in 0..2
      /\ SubscribeEntries(m) \in Streams
      /\ \E t, q : /\ Behind(t, q, Len(m.topics), SubscribeEntries(m))
                   /\ \A i \in 1..Len(m.topics) :
                         q[i] = Then(Text(m.topics[i]), <<m.qoses[i]>>)
  BY <1>1, EntriesAre, Zenon
<1>5. \E t : EntryTails(m, t)
  BY <1>4, Zenon DEF EntryTails
<1>6. Body(m) \in Streams /\ Body(m) = Then(Short(m.pkt), SubscribeEntries(m))
  <2>1. m \in Objects
    BY <1>1 DEF Objects
  <2>. QED
    BY <1>1, <2>1, ListParts
<1>7. Seen(m) = [type |-> SUBSCRIBE, flags |-> m.flags, pkt |-> m.pkt,
                 topics |-> m.topics, qoses |-> m.qoses]
  BY <1>1, TypesAre DEF Seen, TypeNames
<1>. QED
  BY <1>1, <1>2, <1>3, <1>4, <1>5, <1>6, <1>7, Zenon

\* An entry, with what follows it.
EntryAt(t, i, w, u) ==
    /\ t[i] \in Streams /\ t[i - 1] \in Streams
    /\ t[i - 1] = Then(Short(Len(w)), Then(w, Then(u, t[i])))
    /\ Then(u, t[i]) \in Streams /\ Then(w, Then(u, t[i])) \in Streams
    /\ Len(Then(w, Then(u, t[i]))) = Len(w) + Len(Then(u, t[i]))
    /\ Len(Then(u, t[i])) = Len(t[i]) + 1 /\ Len(t[i]) \in Nat
    /\ Len(Then(w, Then(u, t[i]))) > 0
    /\ Len(t[i - 1]) > 0

\* Every entry is what it says.
LEMMA EntryIs ==
    ASSUME NEW m, SubscribeOK(m), NEW t, EntryTails(m, t), NEW i \in 1..Len(m.topics)
    PROVE  /\ EntryAt(t, i, m.topics[i], <<m.qoses[i]>>)
           /\ t[0] = SubscribeEntries(m) /\ t[Len(m.topics)] = <<>>
<1>1. PICK q : /\ Behind(t, q, Len(m.topics), SubscribeEntries(m))
               /\ q[i] = Then(Text(m.topics[i]), <<m.qoses[i]>>)
  BY DEF EntryTails
<1>2. PICK w \in Streams, k \in 0..2 : w = m.topics[i] /\ k = m.qoses[i] /\ Fits(w)
  BY SubscribeFacts DEF Topic
<1>3. PICK u \in Streams : u = <<k>> /\ Len(u) = 1
  <2>1. k \in Nat
    OBVIOUS
  <2>2. <<k>> \in Seq(Nat) /\ Len(<<k>>) = 1
    BY <2>1
  <2>. QED
    BY <2>2, Zenon DEF Streams
<1>4. /\ t[i] \in Streams /\ t[i - 1] \in Streams
      /\ t[i - 1] = Then(q[i], t[i])
      /\ t[0] = SubscribeEntries(m) /\ t[Len(m.topics)] = <<>>
  <2>1. Len(m.topics) \in Nat
    BY SubscribeFacts
  <2>2. i \in 0..Len(m.topics) /\ i - 1 \in 0..Len(m.topics)
    BY <2>1
  <2>. QED
    BY <1>1, <2>2, Zenon DEF Behind
<1>5. PICK x \in Streams, h \in Streams : x = t[i] /\ h = Short(Len(w)) /\ Len(h) = 2
                                         /\ Text(w) = Then(h, w)
  BY <1>2, <1>4, TextIs
<1>6. PICK c \in Streams, v \in Streams, z \in Streams :
        c = Then(u, x) /\ v = Then(w, c) /\ z = Then(h, v)
  <2>1. Then(u, x) \in Streams /\ \A b \in Streams : Then(w, b) \in Streams /\ Then(h, b) \in Streams
    BY ThenIs
  <2>. QED
    BY <2>1, Zenon
<1>7. t[i - 1] = z
  <2>1. t[i - 1] = Then(Then(Then(h, w), u), x)
    BY <1>1, <1>2, <1>3, <1>4, <1>5, Zenon
  <2>2. PICK e \in Streams : e = Then(h, w)
    BY ThenIs
  <2>3. Then(Then(e, u), x) = Then(e, Then(u, x))
    BY ThenJoins
  <2>4. Then(Then(h, w), c) = Then(h, Then(w, c))
    BY ThenJoins
  <2>. QED
    BY <1>6, <2>1, <2>2, <2>3, <2>4, Zenon
<1>8. /\ Len(c) = Len(u) + Len(x) /\ Len(v) = Len(w) + Len(c) /\ Len(z) = Len(h) + Len(v)
  BY <1>6, ThenLen
<1>9. /\ Len(x) \in Nat /\ Len(w) \in Nat /\ Len(c) \in Nat /\ Len(v) \in Nat
  BY LenIs
<1>10. Len(c) = Len(x) + 1 /\ Len(v) > 0 /\ Len(z) > 0
  <2> DEFINE nx == Len(x)
             nw == Len(w)
             nc == Len(c)
             nv == Len(v)
             nz == Len(z)
  <2>1. /\ nx \in Nat /\ nw \in Nat /\ nc \in Nat /\ nv \in Nat
        /\ nc = 1 + nx /\ nv = nw + nc /\ nz = 2 + nv
    BY <1>3, <1>5, <1>8, <1>9, Zenon
  <2>. HIDE DEF nx, nw, nc, nv, nz
  <2>2. nc = nx + 1 /\ nv > 0 /\ nz > 0
    BY <2>1
  <2>. QED
    BY <2>2 DEF nx, nc, nv, nz
<1>11. EntryAt(t, i, w, u)
  <2>1. t[i] \in Streams /\ t[i - 1] \in Streams /\ t[i - 1] = Then(Short(Len(w)), Then(w, Then(u, t[i])))
    BY <1>4, <1>5, <1>6, <1>7, Zenon
  <2>2. Then(u, t[i]) = c /\ Then(w, Then(u, t[i])) = v
    BY <1>5, <1>6, Zenon
  <2>. QED
    BY <1>5, <1>7, <1>8, <1>9, <1>10, <2>1, <2>2, Zenon DEF EntryAt
<1>. QED
  BY <1>2, <1>3, <1>4, <1>11, Zenon

\* The handlers of a subscribe get on: the id,
LEMMA SubscribeVarSteps ==
    ASSUME NEW m, SubscribeOK(m),
           NEW p, NEW d \in Streams, NEW s \in Streams,
           NEW r \in Streams, NEW l \in Streams, Then(d, s) = Then(r, l),
           IsObject(p), p.done = FALSE, p.nread \in Int, p.body = Len(Body(m)),
           p.st = "HDR_VAR", p.acc = <<>>, p.nread + Len(r) = p.body,
           p.m = [type |-> SUBSCRIBE, flags |-> 0, pkt |-> 0, topics |-> <<>>, qoses |-> <<>>],
           Filling(p, Short(m.pkt), r, SubscribeEntries(m))
    PROVE  Steps(ListUpdate(p, d), m, s, l)
<1>1. PICK f \in Streams, a \in Streams :
        /\ f = Short(m.pkt) /\ a = SubscribeEntries(m) /\ Len(f) = 2 /\ UnpackShort(f) = m.pkt
  <2>1. m.pkt \in Words /\ SubscribeEntries(m) \in Streams
    BY SubscribeFacts
  <2>. QED
    BY <2>1, WordIs
<1>2. /\ m.type = SUBSCRIBE /\ Len(m.topics) \in Nat \ {0}
      /\ m.topics \in Seq(Texts) /\ m.qoses \in Seq(0..2) /\ Len(m.qoses) = Len(m.topics)
      /\ \E t : EntryTails(m, t)
  BY SubscribeFacts
<1>3. PICK t : EntryTails(m, t)
  BY <1>2
<1>4. PICK i : i = 1 /\ i \in 1..Len(m.topics) /\ i \in 1..Len(m.qoses)
  BY <1>2
<1>5. PICK w, u : w \in Streams /\ w = m.topics[i] /\ u = <<m.qoses[i]>> /\ EntryAt(t, i, w, u) /\ t[0] = a
  <2>1. m.topics[i] \in Streams
    BY <1>4, SubscribeFacts
  <2>. QED
    BY <1>1, <1>3, <1>4, <2>1, EntryIs
<1>6. PICK b \in Streams, h \in Streams :
        /\ b = Then(w, Then(u, t[i])) /\ h = Short(Len(w)) /\ a = Then(h, b) /\ Len(a) > 0
  <2>1. i - 1 = 0
    BY <1>4
  <2>2. Short(Len(w)) \in Streams
    BY <1>5, TextIs
  <2>. QED
    BY <1>5, <2>1, <2>2 DEF EntryAt
<1>7. PICK x : x = ListVar(p, d)
  OBVIOUS
<1>8. p.m.type = SUBSCRIBE /\ SUBSCRIBE # SUBACK
  <2>1. p.m.type = SUBSCRIBE
    OBVIOUS
  <2>. QED
    BY <2>1, TypesAre DEF TypeNames
<1>9. Headed(x, p, f, s, l, a, "TOPIC_LEN")
  <2>1. Filling(p, f, r, a)
    BY <1>1
  <2>2. "TOPIC_LEN" = IF p.m.type = SUBACK THEN "TOPIC_QOS" ELSE "TOPIC_LEN"
    BY <1>8
  <2>3. Headed(ListVar(p, d), p, f, s, l, a, "TOPIC_LEN")
    BY <1>1, <1>6, <2>1, <2>2, ListVarIs
  <2>. QED
    BY <1>7, <2>3
<1>10. ListUpdate(p, d) = x /\ x.err = FALSE /\ x.d \in Streams
  <2>1. ListUpdate(p, d) = ListVar(p, d)
    BY DEF ListUpdate
  <2>. QED
    BY <1>7, <1>9, <2>1 DEF Headed
<1>11. CASE \E q \in Streams, c \in Streams, k \in Int :
              /\ x.p = [p EXCEPT !.buf = c, !.nread = k]
              /\ Filling(x.p, f, q, a) /\ Then(x.d, s) = Then(q, l) /\ k + Len(q) = p.body
  <2>1. PICK q \in Streams, c \in Streams, k \in Int :
              /\ x.p = [p EXCEPT !.buf = c, !.nread = k]
              /\ Filling(x.p, f, q, a) /\ Then(x.d, s) = Then(q, l) /\ k + Len(q) = p.body
    BY <1>11
  <2>2. /\ x.p.m = p.m /\ x.p.st = "HDR_VAR" /\ x.p.acc = <<>> /\ x.p.nread = k
        /\ x.p.body = p.body /\ x.p.done = FALSE /\ IsObject(x.p)
    BY <2>1 DEF IsObject
  <2>3. AwaitsSubscribe(x.p, m, q)
    BY <1>1, <2>1, <2>2 DEF AwaitsSubscribe
  <2>4. Expect(x.p, m, q)
    BY <1>2, <1>8, <2>2, <2>3 DEF Expect
  <2>5. Steps(x, m, s, l)
    BY <1>10, <2>1, <2>4 DEF Steps
  <2>. QED
    BY <1>10, <2>5
<1>12. CASE \E k \in Int :
              /\ x.p = [p EXCEPT !.buf = <<>>, !.nread = k, !.m.pkt = UnpackShort(f),
                                 !.st = "TOPIC_LEN"]
              /\ Then(x.d, s) = Then(a, l) /\ k + Len(a) = p.body
  <2>1. PICK k \in Int :
              /\ x.p = [p EXCEPT !.buf = <<>>, !.nread = k, !.m.pkt = UnpackShort(f),
                                 !.st = "TOPIC_LEN"]
              /\ Then(x.d, s) = Then(a, l) /\ k + Len(a) = p.body
    BY <1>12
  <2>2. PICK y : y = x.p
    OBVIOUS
  <2>3. /\ y.m = [p.m EXCEPT !.pkt = m.pkt] /\ y.st = "TOPIC_LEN" /\ y.acc = <<>> /\ y.nread = k
        /\ y.body = p.body /\ y.done = FALSE /\ y.buf = <<>> /\ IsObject(y)
    <3>1. y = [p EXCEPT !.buf = <<>>, !.nread = k, !.m.pkt = m.pkt, !.st = "TOPIC_LEN"]
      BY <1>1, <2>1, <2>2
    <3>2. y.m = [p.m EXCEPT !.pkt = m.pkt]
      BY <3>1 DEF IsObject
    <3>3. /\ y.st = "TOPIC_LEN" /\ y.acc = <<>> /\ y.nread = k
          /\ y.body = p.body /\ y.done = FALSE /\ y.buf = <<>>
      BY <3>1 DEF IsObject
    <3>4. IsObject(y)
      BY <3>1 DEF IsObject
    <3>. QED
      BY <3>2, <3>3, <3>4
  <2>4. y.m = [type |-> SUBSCRIBE, flags |-> 0, pkt |-> m.pkt, topics |-> <<>>, qoses |-> <<>>]
    BY <2>3
  <2>5. y.m = SubscribeAt(m, i - 1)
    <3>1. SubSeq(m.topics, 1, 0) = <<>>
      BY <1>2, <1>4, GrowIs
    <3>2. SubSeq(m.qoses, 1, 0) = <<>>
      BY <1>2, <1>4, GrowIs
    <3>3. i - 1 = 0
      BY <1>4
    <3>. QED
      BY <2>4, <3>1, <3>2, <3>3 DEF SubscribeAt
  <2>6. Filling(y, h, a, b)
    BY <1>6, <2>3, Anew
  <2>7. AwaitsEntry(y, m, a, t, i)
    BY <1>5, <1>6, <2>1, <2>3, <2>5, <2>6 DEF AwaitsEntry
  <2>8. AwaitsSubscribe(y, m, a)
    BY <1>3, <1>4, <2>3, <2>7 DEF AwaitsSubscribe
  <2>9. y.m.type = SUBSCRIBE
    BY <2>4
  <2>10. Expect(y, m, a)
    BY <1>2, <2>3, <2>8, <2>9 DEF Expect
  <2>11. Steps(x, m, s, l)
    BY <1>1, <1>10, <2>1, <2>2, <2>10 DEF Steps
  <2>. QED
    BY <1>10, <2>11
<1>. QED
  BY <1>9, <1>11, <1>12 DEF Headed

\* the length of a topic,
LEMMA SubscribeLenSteps ==
    ASSUME NEW m, SubscribeOK(m), NEW t, EntryTails(m, t), NEW i \in 1..Len(m.topics),
           NEW p, NEW d \in Streams, NEW s \in Streams,
           NEW r \in Streams, NEW l \in Streams, Then(d, s) = Then(r, l),
           IsObject(p), p.done = FALSE, p.nread \in Int, p.body = Len(Body(m)),
           AwaitsEntry(p, m, r, t, i), p.st = "TOPIC_LEN"
    PROVE  Steps(ListUpdate(p, d), m, s, l)
<1>1. m.type = SUBSCRIBE
  BY SubscribeFacts
<1>2. PICK w, u : w \in Streams /\ w = m.topics[i] /\ u = <<m.qoses[i]>> /\ Topic(w) /\ EntryAt(t, i, w, u)
  <2>1. m.topics[i] \in Streams /\ Topic(m.topics[i])
    BY SubscribeFacts
  <2>. QED
    BY <2>1, EntryIs
<1>3. PICK a \in Streams, b \in Streams :
        /\ a = Then(u, t[i]) /\ b = Then(w, a) /\ Len(b) > 0 /\ Len(b) = Len(w) + Len(a)
  BY <1>2 DEF EntryAt
<1>4. /\ p.m = SubscribeAt(m, i - 1) /\ p.acc = <<>> /\ Filling(p, Short(Len(w)), r, b)
      /\ p.nread + Len(r) = p.body
  BY <1>2, <1>3 DEF AwaitsEntry
<1>5. PICK x : x = ListTopicLen(p, d)
  OBVIOUS
<1>6. Measured(x, p, w, s, l, b)
  BY <1>2, <1>3, <1>4, <1>5, ListTopicLenIs
<1>7. ListUpdate(p, d) = x /\ x.err = FALSE /\ x.d \in Streams
  <2>1. ListUpdate(p, d) = ListTopicLen(p, d)
    BY DEF ListUpdate
  <2>. QED
    BY <1>5, <1>6, <2>1 DEF Measured
<1>8. p.m.type = SUBSCRIBE
  BY <1>4 DEF SubscribeAt
<1>9. CASE \E q \in Streams, c \in Streams, k \in Int :
             /\ x.p = [p EXCEPT !.buf = c, !.nread = k]
             /\ Filling(x.p, Short(Len(w)), q, b) /\ Then(x.d, s) = Then(q, l)
             /\ k + Len(q) = p.body
  <2>1. PICK q \in Streams, c \in Streams, k \in Int :
             /\ x.p = [p EXCEPT !.buf = c, !.nread = k]
             /\ Filling(x.p, Short(Len(w)), q, b) /\ Then(x.d, s) = Then(q, l)
             /\ k + Len(q) = p.body
    BY <1>9
  <2>2. /\ x.p.m = p.m /\ x.p.st = "TOPIC_LEN" /\ x.p.acc = <<>> /\ x.p.nread = k
        /\ x.p.body = p.body /\ x.p.done = FALSE /\ IsObject(x.p)
    BY <1>4, <2>1 DEF IsObject
  <2>3. AwaitsEntry(x.p, m, q, t, i)
    BY <1>2, <1>3, <1>4, <2>1, <2>2 DEF AwaitsEntry
  <2>4. AwaitsSubscribe(x.p, m, q)
    BY <2>2, <2>3 DEF AwaitsSubscribe
  <2>5. Expect(x.p, m, q)
    BY <1>1, <1>8, <2>2, <2>4 DEF Expect
  <2>6. Steps(x, m, s, l)
    BY <1>7, <2>1, <2>5 DEF Steps
  <2>. QED
    BY <1>7, <2>6
<1>10. CASE \E k \in Int :
              /\ x.p = [p EXCEPT !.buf = <<>>, !.need = Len(w), !.nread = k, !.st = "TOPIC_VAL"]
              /\ Then(x.d, s) = Then(b, l) /\ k + Len(b) = p.body
  <2>1. PICK k \in Int :
              /\ x.p = [p EXCEPT !.buf = <<>>, !.need = Len(w), !.nread = k, !.st = "TOPIC_VAL"]
              /\ Then(x.d, s) = Then(b, l) /\ k + Len(b) = p.body
    BY <1>10
  <2>2. PICK y : y = x.p
    OBVIOUS
  <2>3. /\ y.m = p.m /\ y.st = "TOPIC_VAL" /\ y.acc = <<>> /\ y.nread = k /\ y.need = Len(w)
        /\ y.body = p.body /\ y.done = FALSE /\ y.buf = <<>> /\ IsObject(y)
    BY <1>4, <2>1, <2>2 DEF IsObject
  <2>4. Reading(y, w, b, a)
    BY <1>2, <1>3, <2>3, Afresh
  <2>5. k + Len(w) + Len(a) = p.body
    <3> DEFINE nw == Len(w)
               na == Len(a)
               nb == Len(b)
    <3>1. nw \in Nat /\ na \in Nat /\ nb = nw + na /\ k + nb = p.body
      BY <1>3, <2>1, LenIs
    <3>. HIDE DEF nw, na, nb
    <3>2. k + nw + na = p.body
      BY <3>1
    <3>. QED
      BY <3>2 DEF nw, na
  <2>6. AwaitsEntry(y, m, b, t, i)
    BY <1>2, <1>3, <1>4, <2>3, <2>4, <2>5 DEF AwaitsEntry
  <2>7. AwaitsSubscribe(y, m, b)
    BY <2>3, <2>6 DEF AwaitsSubscribe
  <2>8. Expect(y, m, b)
    BY <1>1, <1>8, <2>3, <2>7 DEF Expect
  <2>9. Steps(x, m, s, l)
    BY <1>3, <1>7, <2>1, <2>2, <2>8 DEF Steps
  <2>. QED
    BY <1>7, <2>9
<1>. QED
  BY <1>6, <1>9, <1>10 DEF Measured

\* the topic,
LEMMA SubscribeValSteps ==
    ASSUME NEW m, SubscribeOK(m), NEW t, EntryTails(m, t), NEW i \in 1..Len(m.topics),
           NEW p, NEW d \in Streams, NEW s \in Streams,
           NEW r \in Streams, NEW l \in Streams, Then(d, s) = Then(r, l),
           IsObject(p), p.done = FALSE, p.nread \in Int, p.body = Len(Body(m)),
           AwaitsEntry(p, m, r, t, i), p.st = "TOPIC_VAL"
    PROVE  Steps(ListUpdate(p, d), m, s, l)
<1>1. m.type = SUBSCRIBE
  BY SubscribeFacts
<1>2. PICK w, u : w \in Streams /\ w = m.topics[i] /\ u = <<m.qoses[i]>> /\ EntryAt(t, i, w, u)
  <2>1. m.topics[i] \in Streams
    BY SubscribeFacts
  <2>. QED
    BY <2>1, EntryIs
<1>3. PICK a \in Streams : a = Then(u, t[i])
  BY <1>2 DEF EntryAt
<1>4. /\ p.m = SubscribeAt(m, i - 1) /\ p.buf = <<>> /\ Reading(p, w, r, a)
      /\ p.nread + Len(w) + Len(a) = p.body
  BY <1>2, <1>3 DEF AwaitsEntry
<1>5. PICK x : x = Value(p, d)
  OBVIOUS
<1>6. Reads(x, p, w, s, l, a)
  BY <1>2, <1>4, <1>5, ValueReads
<1>7. /\ x.err = FALSE /\ x.d \in Streams
      /\ x.p = [p EXCEPT !.need = x.p.need, !.acc = x.p.acc]
  BY <1>6 DEF Reads
<1>8. p.m.type = SUBSCRIBE
  BY <1>4 DEF SubscribeAt
<1>9. /\ x.p.m = p.m /\ x.p.st = "TOPIC_VAL" /\ x.p.buf = <<>> /\ x.p.nread = p.nread
      /\ x.p.body = p.body /\ x.p.done = FALSE /\ IsObject(x.p)
  BY <1>4, <1>7 DEF IsObject
<1>10. ListUpdate(p, d) = ListTopicVal(p, d)
  BY DEF ListUpdate
<1>11. CASE ~x.whole
  <2>1. ListTopicVal(p, d) = x
    BY <1>5, <1>11 DEF ListTopicVal
  <2>2. PICK q \in Streams : Reading(x.p, w, q, a) /\ Then(x.d, s) = Then(q, l)
    BY <1>6, <1>11 DEF Reads
  <2>3. AwaitsEntry(x.p, m, q, t, i)
    BY <1>2, <1>3, <1>4, <1>9, <2>2 DEF AwaitsEntry
  <2>4. AwaitsSubscribe(x.p, m, q)
    BY <1>9, <2>3 DEF AwaitsSubscribe
  <2>5. Expect(x.p, m, q)
    BY <1>1, <1>8, <1>9, <2>4 DEF Expect
  <2>6. Steps(x, m, s, l)
    BY <1>7, <2>2, <2>5 DEF Steps
  <2>. QED
    BY <1>10, <2>1, <2>6
<1>12. CASE x.whole
  <2>1. x.p.acc = w /\ Then(x.d, s) = Then(a, l)
    BY <1>6, <1>12 DEF Reads
  <2>2. PICK k : k = p.nread + Len(w)
    OBVIOUS
  <2>3. k \in Int /\ k + Len(a) = p.body
    <3> DEFINE nw == Len(w)
               na == Len(a)
    <3>1. nw \in Nat /\ na \in Nat /\ k = p.nread + nw /\ p.nread + nw + na = p.body
      BY <1>4, <2>2, LenIs
    <3>. HIDE DEF nw, na
    <3>2. k \in Int /\ k + na = p.body
      BY <3>1
    <3>. QED
      BY <3>2 DEF na
  <2>4. PICK y : y = [x.p EXCEPT !.nread = k, !.st = "TOPIC_QOS"]
    OBVIOUS
  <2>5. ListTopicVal(p, d) = Result(y, x.d)
    <3>1. [x.p EXCEPT !.nread = @ + Len(x.p.acc)] = [x.p EXCEPT !.nread = k]
      BY <1>9, <2>1, <2>2
    <3>2. [[x.p EXCEPT !.nread = k] EXCEPT !.st = "TOPIC_QOS"] = y
      BY <1>9, <2>4 DEF IsObject
    <3>. QED
      BY <1>5, <1>8, <1>12, <3>1, <3>2 DEF ListTopicVal
  <2>6. /\ y.m = p.m /\ y.st = "TOPIC_QOS" /\ y.buf = <<>> /\ y.nread = k /\ y.acc = w
        /\ y.body = p.body /\ y.done = FALSE /\ IsObject(y)
    BY <1>9, <2>1, <2>4 DEF IsObject
  <2>7. AwaitsEntry(y, m, a, t, i)
    BY <1>2, <1>3, <1>4, <2>3, <2>6 DEF AwaitsEntry
  <2>8. AwaitsSubscribe(y, m, a)
    BY <2>3, <2>6, <2>7 DEF AwaitsSubscribe
  <2>9. Expect(y, m, a)
    BY <1>1, <1>8, <2>6, <2>8 DEF Expect
  <2>10. Result(y, x.d).err = FALSE /\ Result(y, x.d).d = x.d /\ Result(y, x.d).p = y
    BY DEF Result
  <2>11. Steps(Result(y, x.d), m, s, l)
    BY <1>3, <1>7, <2>1, <2>9, <2>10 DEF Steps
  <2>. QED
    BY <1>10, <2>5, <2>11
<1>. QED
  BY <1>11, <1>12

\* A byte that is read.
LEMMA ByteRead ==
    ASSUME NEW d \in Streams, NEW s \in Streams, NEW l \in Streams, NEW c \in Streams,
           NEW b \in Nat, Then(d, s) = Then(Then(<<b>>, c), l), d # <<>>
    PROVE  Head(d) = b /\ Tail(d) \in Streams /\ Then(Tail(d), s) = Then(c, l)
<1>1. PICK u \in Streams : u = <<b>> /\ Len(u) = 1 /\ u[1] = b
  <2>1. <<b>> \in Seq(Nat) /\ Len(<<b>>) = 1 /\ <<b>>[1] = b
    OBVIOUS
  <2>. QED
    BY <2>1, Zenon DEF Streams
<1>2. PICK r \in Streams : r = Then(u, c)
  BY ThenIs
<1>3. r # <<>>
  <2>1. Len(r) = Len(u) + Len(c) /\ Len(c) \in Nat /\ Len(u) = 1
    BY <1>1, <1>2, ThenLen, LenIs
  <2> DEFINE n == Len(r)
             j == Len(c)
  <2>2. n = 1 + j /\ j \in Nat
    BY <2>1, Zenon
  <2>. HIDE DEF n, j
  <2>3. n # 0
    BY <2>2
  <2>4. Len(<<>>) = 0
    BY NothingIs
  <2>. QED
    BY <2>3, <2>4 DEF n
<1>4. Then(d, s) = Then(r, l)
  BY <1>1, <1>2
<1>5. /\ Head(d) \in Nat /\ Tail(d) \in Streams
      /\ \E q \in Streams : r = Then(<<Head(d)>>, q) /\ Then(Tail(d), s) = Then(q, l)
  BY <1>3, <1>4, HeadIs
<1>6. PICK z \in Nat : z = Head(d)
  BY <1>5
<1>8. PICK v \in Streams : v = <<z>> /\ Len(v) = 1 /\ v[1] = z
  <2>1. <<z>> \in Seq(Nat) /\ Len(<<z>>) = 1 /\ <<z>>[1] = z
    OBVIOUS
  <2>. QED
    BY <2>1, Zenon DEF Streams
<1>9. PICK q \in Streams : r = Then(v, q) /\ Then(Tail(d), s) = Then(q, l)
  BY <1>5, <1>6, <1>8, Zenon
<1>7. u = v /\ c = q
  <2>1. Then(u, c) = Then(v, q) /\ Len(u) = Len(v)
    BY <1>1, <1>2, <1>8, <1>9
  <2>. QED
    BY <2>1, ThenCancels
<1>. QED
  BY <1>1, <1>5, <1>6, <1>7, <1>8, <1>9, Zenon

\* its QoS
LEMMA SubscribeQosSteps ==
    ASSUME NEW m, SubscribeOK(m), NEW t, EntryTails(m, t), NEW i \in 1..Len(m.topics),
           NEW p, NEW d \in Streams, NEW s \in Streams,
           NEW r \in Streams, NEW l \in Streams, Then(d, s) = Then(r, l), d # <<>>,
           IsObject(p), p.done = FALSE, p.nread \in Int, p.body = Len(Body(m)),
           AwaitsEntry(p, m, r, t, i), p.st = "TOPIC_QOS"
    PROVE  Steps(ListUpdate(p, d), m, s, l)
<1>1. m.type = SUBSCRIBE /\ SUBSCRIBE # SUBACK
  <2>1. SUBSCRIBE # SUBACK
    BY TypesAre DEF TypeNames
  <2>. QED
    BY <2>1, SubscribeFacts
<1>2. PICK w \in Streams, v \in 0..2, c \in Streams :
        /\ w = m.topics[i] /\ v = m.qoses[i] /\ Topic(w) /\ c = t[i] /\ EntryAt(t, i, w, <<v>>)
  <2>1. m.topics[i] \in Streams /\ m.qoses[i] \in 0..2 /\ Topic(m.topics[i])
    BY SubscribeFacts
  <2>2. EntryAt(t, i, m.topics[i], <<m.qoses[i]>>)
    BY EntryIs
  <2>3. t[i] \in Streams
    BY <2>2 DEF EntryAt
  <2>. QED
    BY <2>1, <2>2, <2>3, Zenon
<1>3. /\ p.m = SubscribeAt(m, i - 1) /\ p.buf = <<>> /\ p.acc = w /\ r = Then(<<v>>, c)
      /\ p.nread + Len(r) = p.body /\ Len(r) = Len(c) + 1 /\ Len(c) \in Nat
  BY <1>2 DEF AwaitsEntry, EntryAt
<1>4. Head(d) = v /\ Tail(d) \in Streams /\ Then(Tail(d), s) = Then(c, l)
  <2>1. v \in Nat
    BY <1>2
  <2>2. Then(d, s) = Then(Then(<<v>>, c), l)
    BY <1>3
  <2>. QED
    BY <1>2, <2>1, <2>2, ByteRead
<1>5. p.m.type = SUBSCRIBE
  BY <1>3 DEF SubscribeAt
<1>6. PICK k : k = p.nread + 1
  OBVIOUS
<1>7. k \in Int /\ k + Len(c) = p.body /\ (k >= p.body <=> Len(c) = 0)
  <2> DEFINE n == Len(c)
             j == Len(r)
             h == p.nread
             e == p.body
  <2>1. h \in Int /\ n \in Nat /\ j = n + 1 /\ h + j = e /\ k = h + 1
    BY <1>3, <1>6, Zenon
  <2>. HIDE DEF n, j, h, e
  <2>2. k \in Int /\ k + n = e /\ (k >= e <=> n = 0)
    BY <2>1
  <2>. QED
    BY <2>2 DEF n, e
<1>8. PICK to, qo : to = Append(p.m.topics, w) /\ qo = Append(p.m.qoses, v)
  OBVIOUS
<1>9. PICK y : y = [p EXCEPT !.m.qoses = qo, !.nread = k, !.m.topics = to, !.acc = <<>>]
  OBVIOUS
<1>10. /\ y.m = SubscribeAt(m, i) /\ y.acc = <<>> /\ y.nread = k /\ y.body = p.body
       /\ y.buf = <<>> /\ y.done = FALSE /\ IsObject(y)
  <2>1. /\ y.m = [p.m EXCEPT !.qoses = qo, !.topics = to] /\ y.acc = <<>> /\ y.nread = k
        /\ y.body = p.body /\ y.buf = <<>> /\ y.done = FALSE /\ IsObject(y)
    BY <1>3, <1>9 DEF IsObject
  <2>2. [p.m EXCEPT !.qoses = qo, !.topics = to]
          = [type |-> SUBSCRIBE, flags |-> 0, pkt |-> m.pkt, topics |-> to, qoses |-> qo]
    <3> DEFINE List(t0, q0) ==
                 [type |-> SUBSCRIBE, flags |-> 0, pkt |-> m.pkt, topics |-> t0, qoses |-> q0]
               SetTo(x0, t0, q0, z0) == [[x0 EXCEPT !.qoses = q0] EXCEPT !.topics = t0] = z0
    <3>1. ASSUME NEW t1, NEW q1, NEW t2, NEW q2 PROVE SetTo(List(t1, q1), t2, q2, List(t2, q2))
      <4>1. [List(t1, q1) EXCEPT !.qoses = q2] = List(t1, q2)
        OBVIOUS
      <4>2. [List(t1, q2) EXCEPT !.topics = t2] = List(t2, q2)
        OBVIOUS
      <4>. HIDE DEF List
      <4>. QED
        BY <4>1, <4>2, Zenon
    <3>2. PICK t1, q1 : p.m = List(t1, q1)
      BY <1>3 DEF SubscribeAt
    <3>3. ASSUME NEW x0, NEW t0, NEW q0, NEW z0, SetTo(x0, t0, q0, z0)
          PROVE  [x0 EXCEPT !.qoses = q0, !.topics = t0] = z0
      BY <3>3
    <3>. HIDE DEF List, SetTo
    <3>4. SetTo(p.m, to, qo, List(to, qo))
      BY <3>1, <3>2
    <3>5. [p.m EXCEPT !.qoses = qo, !.topics = to] = List(to, qo)
      BY <3>3, <3>4
    <3>. QED
      BY <3>5 DEF List
  <2>3. to = SubSeq(m.topics, 1, i) /\ qo = SubSeq(m.qoses, 1, i)
    <3>1. p.m.topics = SubSeq(m.topics, 1, i - 1) /\ p.m.qoses = SubSeq(m.qoses, 1, i - 1)
      BY <1>3 DEF SubscribeAt
    <3>2. /\ m.topics \in Seq(Texts) /\ m.qoses \in Seq(0..2) /\ Len(m.qoses) = Len(m.topics)
      BY SubscribeFacts
    <3>3. Append(SubSeq(m.topics, 1, i - 1), m.topics[i]) = SubSeq(m.topics, 1, i)
      BY <3>2, GrowIs
    <3>4. Append(SubSeq(m.qoses, 1, i - 1), m.qoses[i]) = SubSeq(m.qoses, 1, i)
      <4>1. i \in 1..Len(m.qoses)
        BY <3>2
      <4>. QED
        BY <3>2, <4>1, GrowIs
    <3>. QED
      BY <1>2, <1>8, <3>1, <3>3, <3>4, Zenon
  <2>. QED
    BY <2>1, <2>2, <2>3, Zenon DEF SubscribeAt
<1>11. PICK z : z = NextEntry(y, "TOPIC_LEN")
  OBVIOUS
<1>12. ListUpdate(p, d) = Result(z, Tail(d))
  <2>1. QosOf(Head(d)) = v
    BY <1>2, <1>4 DEF QosOf
  <2>2. p.acc # <<>>
    BY <1>2, <1>3 DEF Topic
  <2>3. ListUpdate(p, d) = ListTopicQos(p, d)
    BY DEF ListUpdate
  <2>4. [p EXCEPT !.m.qoses = Append(@, QosOf(Head(d))), !.nread = @ + 1]
          = [p EXCEPT !.m.qoses = qo, !.nread = k]
    BY <1>6, <1>8, <2>1 DEF IsObject
  <2>5. [[p EXCEPT !.m.qoses = qo, !.nread = k] EXCEPT !.m.topics = Append(@, p.acc), !.acc = <<>>] = y
    <3> DEFINE x == [p EXCEPT !.m.qoses = qo, !.nread = k]
    <3>1. x.m = [p.m EXCEPT !.qoses = qo]
      BY DEF IsObject
    <3>2. x.m.topics = p.m.topics
      BY <1>3, <3>1 DEF SubscribeAt
    <3>3. [x EXCEPT !.m.topics = Append(@, p.acc), !.acc = <<>>] = [x EXCEPT !.m.topics = to, !.acc = <<>>]
      <4>. HIDE DEF x
      <4>. QED
        BY <1>3, <1>8, <3>2
    <3>4. [x EXCEPT !.m.topics = to, !.acc = <<>>] = y
      BY <1>9 DEF IsObject
    <3>. QED
      BY <3>3, <3>4
  <2>. QED
    BY <1>1, <1>5, <1>11, <2>2, <2>3, <2>4, <2>5 DEF ListTopicQos
<1>13. Result(z, Tail(d)).err = FALSE /\ Result(z, Tail(d)).d = Tail(d) /\ Result(z, Tail(d)).p = z
  BY DEF Result
<1>14. /\ t[Len(m.topics)] = <<>> /\ Len(m.topics) \in Nat
  BY EntryIs, SubscribeFacts
<1>15. CASE i = Len(m.topics)
  <2>1. c = <<>> /\ Len(c) = 0
    BY <1>2, <1>14, <1>15, NothingIs
  <2>2. z = [y EXCEPT !.done = TRUE]
    BY <1>7, <1>10, <1>11, <2>1 DEF NextEntry, Goes
  <2>3. z.m = SubscribeAt(m, i) /\ z.done = TRUE /\ IsObject(z)
    BY <1>10, <2>2 DEF IsObject
  <2>4. z.m = [type |-> SUBSCRIBE, flags |-> 0, pkt |-> m.pkt, topics |-> m.topics, qoses |-> m.qoses]
    <3>1. /\ m.topics \in Seq(Texts) /\ m.qoses \in Seq(0..2) /\ Len(m.qoses) = Len(m.topics)
      BY SubscribeFacts
    <3>2. SubSeq(m.topics, 1, Len(m.topics)) = m.topics /\ SubSeq(m.qoses, 1, Len(m.qoses)) = m.qoses
      BY <3>1, SubSeqFull
    <3>. QED
      BY <1>15, <2>3, <3>1, <3>2, Zenon DEF SubscribeAt
  <2>5. Same(Seen(m), z.m)
    <3>1. Seen(m) = [type |-> SUBSCRIBE, flags |-> m.flags, pkt |-> m.pkt,
                     topics |-> m.topics, qoses |-> m.qoses]
      BY SubscribeFacts
    <3>2. [Seen(m) EXCEPT !.flags = 0] = z.m
      BY <2>4, <3>1
    <3>3. Seen(m).type = SUBSCRIBE /\ z.m.type = SUBSCRIBE
      BY <2>4, <3>1
    <3>4. SUBSCRIBE # CONNECT
      BY TypesAre DEF TypeNames
    <3>. QED
      BY <3>2, <3>3, <3>4 DEF Same
  <2>6. z.m.type = SUBSCRIBE
    BY <2>4
  <2>7. Expect(z, m, c)
    BY <1>1, <2>1, <2>3, <2>5, <2>6 DEF Expect
  <2>8. Steps(Result(z, Tail(d)), m, s, l)
    BY <1>4, <1>13, <2>7 DEF Steps
  <2>. QED
    BY <1>12, <2>8
<1>16. CASE i # Len(m.topics)
  <2>1. PICK j : j = i + 1 /\ j \in 1..Len(m.topics) /\ j - 1 = i
    BY <1>14, <1>16
  <2>2. PICK w1, u1 :
          w1 \in Streams /\ w1 = m.topics[j] /\ u1 = <<m.qoses[j]>> /\ EntryAt(t, j, w1, u1)
    <3>1. m.topics[j] \in Streams
      BY <2>1, SubscribeFacts
    <3>. QED
      BY <2>1, <3>1, EntryIs
  <2>3. PICK b \in Streams, h \in Streams :
          b = Then(w1, Then(u1, t[j])) /\ h = Short(Len(w1)) /\ c = Then(h, b) /\ Len(c) > 0
    <3>1. Short(Len(w1)) \in Streams
      BY <2>2, TextIs
    <3>. QED
      BY <1>2, <2>1, <2>2, <3>1 DEF EntryAt
  <2>4. z = [y EXCEPT !.st = "TOPIC_LEN"]
    <3>1. ~(y.nread >= y.body)
      BY <1>3, <1>7, <1>10, <2>3
    <3>. QED
      BY <1>11, <3>1 DEF NextEntry, Goes
  <2>5. /\ z.m = SubscribeAt(m, i) /\ z.acc = <<>> /\ z.nread = k /\ z.body = p.body
        /\ z.buf = <<>> /\ z.done = FALSE /\ z.st = "TOPIC_LEN" /\ IsObject(z)
    BY <1>10, <2>4 DEF IsObject
  <2>6. Filling(z, h, c, b)
    BY <2>3, <2>5, Anew
  <2>7. AwaitsEntry(z, m, c, t, j)
    BY <1>7, <2>1, <2>2, <2>3, <2>5, <2>6 DEF AwaitsEntry
  <2>8. AwaitsSubscribe(z, m, c)
    BY <1>7, <2>1, <2>5, <2>7 DEF AwaitsSubscribe
  <2>9. z.m.type = SUBSCRIBE
    BY <2>5 DEF SubscribeAt
  <2>10. Expect(z, m, c)
    BY <1>1, <2>5, <2>8, <2>9 DEF Expect
  <2>11. Steps(Result(z, Tail(d)), m, s, l)
    BY <1>4, <1>13, <2>10 DEF Steps
  <2>. QED
    BY <1>12, <2>11
<1>. QED
  BY <1>15, <1>16

\* and all of them.
LEMMA SubscribeSteps ==
    ASSUME NEW m, SubscribeOK(m),
           NEW p, NEW d \in Streams, NEW s \in Streams,
           NEW r \in Streams, NEW l \in Streams, Then(d, s) = Then(r, l), d # <<>>,
           IsObject(p), p.done = FALSE, AwaitsSubscribe(p, m, r)
    PROVE  Steps(ListUpdate(p, d), m, s, l)
<1>1. p.nread \in Int /\ p.body = Len(Body(m))
  BY DEF AwaitsSubscribe
<1>2. CASE /\ p.st = "HDR_VAR" /\ p.acc = <<>> /\ p.nread + Len(r) = p.body
           /\ p.m = [type |-> SUBSCRIBE, flags |-> 0, pkt |-> 0, topics |-> <<>>, qoses |-> <<>>]
           /\ Filling(p, Short(m.pkt), r, SubscribeEntries(m))
  BY <1>1, <1>2, SubscribeVarSteps
<1>3. ASSUME NEW t, NEW i, EntryTails(m, t), i \in 1..Len(m.topics), AwaitsEntry(p, m, r, t, i)
      PROVE  Steps(ListUpdate(p, d), m, s, l)
  <2>1. p.st \in {"TOPIC_LEN", "TOPIC_VAL", "TOPIC_QOS"}
    BY <1>3 DEF AwaitsEntry
  <2>. QED
    BY <1>1, <1>3, <2>1, SubscribeLenSteps, SubscribeValSteps, SubscribeQosSteps
<1>. QED
  BY <1>2, <1>3 DEF AwaitsSubscribe

(***************************************************************************)
(* An unsubscribe of one topic.                                            *)
(***************************************************************************)
\* An unsubscribe that is got through.
UnsubscribeOK(m) == m \in Unsubscribes /\ Sound(m)

\* An unsubscribe of which id and topics are read so far.
UnsubscribeAt(m, pkt, topics) ==
    [type |-> UNSUBSCRIBE, flags |-> m.flags, pkt |-> pkt, topics |-> topics]

\* What is known of one that is got through.
LEMMA UnsubscribeFacts ==
    ASSUME NEW m, UnsubscribeOK(m)
    PROVE  /\ m.type = UNSUBSCRIBE /\ m.pkt \in Words
           /\ m.topics[1] \in Streams /\ Topic(m.topics[1]) /\ m.topics = <<m.topics[1]>>
           /\ UnsubscribeEntries(m) \in Streams
           /\ UnsubscribeEntries(m) = Then(Short(Len(m.topics[1])), m.topics[1])
           /\ Len(UnsubscribeEntries(m)) > 0
           /\ Body(m) = Then(Short(m.pkt), UnsubscribeEntries(m))
           /\ Body(m) \in Streams
           /\ Seen(m) = UnsubscribeAt(m, m.pkt, m.topics)
<1>1. /\ m \in Unsubscribes /\ m.type = UNSUBSCRIBE /\ m.topics \in Seq(Texts)
  BY DEF UnsubscribeOK, Unsubscribes
<1>2. Len(m.topics) = 1 /\ Topic(m.topics[1])
  BY <1>1, TypesAre DEF UnsubscribeOK, Sound, TypeNames
<1>3. m.topics # <<>> /\ m.topics = <<m.topics[1]>>
  BY <1>1, <1>2
<1>4. /\ m.pkt \in Words /\ m.topics[1] \in Streams
      /\ UnsubscribeEntries(m) \in Streams
      /\ \E t, q : Behind(t, q, 1, UnsubscribeEntries(m)) /\ q[1] = Text(m.topics[1])
  <2>1. 1 \in 1..Len(m.topics)
    BY <1>2
  <2>2. /\ m.pkt \in Words
        /\ \A i \in 1..Len(m.topics) : m.topics[i] \in Streams
        /\ UnsubscribeEntries(m) \in Streams
        /\ \E t, q : /\ Behind(t, q, Len(m.topics), UnsubscribeEntries(m))
                     /\ \A i \in 1..Len(m.topics) : q[i] = Text(m.topics[i])
    BY <1>1, <1>3, EntriesAre, Zenon
  <2>. QED
    BY <1>2, <2>1, <2>2, Zenon
<1>5. PICK w \in Streams, h \in Streams :
        w = m.topics[1] /\ h = Short(Len(w)) /\ Len(h) = 2 /\ Text(w) = Then(h, w)
  BY <1>2, <1>4, TextIs DEF Topic
<1>6. UnsubscribeEntries(m) = Then(h, w)
  <2>1. PICK t, q : Behind(t, q, 1, UnsubscribeEntries(m)) /\ q[1] = Text(w)
    BY <1>4, <1>5
  <2>2. t[0] = UnsubscribeEntries(m) /\ t[1] = <<>> /\ t[1 - 1] = Then(q[1], t[1])
    <3>1. 1 \in 1..1
      OBVIOUS
    <3>. QED
      BY <2>1, <3>1, Zenon DEF Behind
  <2>3. Then(h, w) \in Streams /\ Then(Then(h, w), <<>>) = Then(h, w)
    BY ThenIs, ThenNothing
  <2>4. 1 - 1 = 0
    OBVIOUS
  <2>. QED
    BY <1>5, <2>1, <2>2, <2>3, <2>4, Zenon
<1>7. Len(UnsubscribeEntries(m)) > 0
  <2> DEFINE n == Len(UnsubscribeEntries(m))
             j == Len(w)
  <2>1. n = 2 + j /\ j \in Nat
    BY <1>5, <1>6, ThenLen, LenIs
  <2>. HIDE DEF n, j
  <2>2. n > 0
    BY <2>1
  <2>. QED
    BY <2>2 DEF n
<1>8. Body(m) \in Streams /\ Body(m) = Then(Short(m.pkt), UnsubscribeEntries(m))
  <2>1. m \in Objects
    BY <1>1 DEF Objects
  <2>. QED
    BY <1>1, <1>3, <2>1, ListParts
<1>9. Seen(m) = UnsubscribeAt(m, m.pkt, m.topics)
  BY <1>1, TypesAre DEF Seen, TypeNames, UnsubscribeAt
<1>. QED
  BY <1>1, <1>2, <1>3, <1>4, <1>5, <1>6, <1>7, <1>8, <1>9, Zenon

\* The handlers of an unsubscribe get on: the id,
LEMMA UnsubscribeVarSteps ==
    ASSUME NEW m, UnsubscribeOK(m),
           NEW p, NEW d \in Streams, NEW s \in Streams,
           NEW r \in Streams, NEW l \in Streams, Then(d, s) = Then(r, l),
           IsObject(p), p.done = FALSE, p.nread \in Int, p.body = Len(Body(m)),
           p.st = "HDR_VAR", p.acc = <<>>, p.nread + Len(r) = p.body,
           p.m = UnsubscribeAt(m, 0, <<>>),
           Filling(p, Short(m.pkt), r, UnsubscribeEntries(m))
    PROVE  Steps(ListUpdate(p, d), m, s, l)
<1>1. PICK f \in Streams, a \in Streams, w \in Streams :
        /\ f = Short(m.pkt) /\ a = UnsubscribeEntries(m) /\ Len(f) = 2 /\ UnpackShort(f) = m.pkt
        /\ w = m.topics[1] /\ Len(a) > 0 /\ a = Then(Short(Len(w)), w)
  <2>1. /\ m.pkt \in Words /\ UnsubscribeEntries(m) \in Streams /\ m.topics[1] \in Streams
        /\ UnsubscribeEntries(m) = Then(Short(Len(m.topics[1])), m.topics[1])
        /\ Len(UnsubscribeEntries(m)) > 0
    BY UnsubscribeFacts, Zenon
  <2>2. /\ Short(m.pkt) \in Streams /\ Len(Short(m.pkt)) = 2 /\ UnpackShort(Short(m.pkt)) = m.pkt
    BY <2>1, WordIs
  <2>. QED
    BY <2>1, <2>2, Zenon
<1>2. PICK h \in Streams : h = Short(Len(w)) /\ a = Then(h, w)
  BY <1>1, TextIs
<1>3. m.type = UNSUBSCRIBE /\ p.m.type = UNSUBSCRIBE /\ UNSUBSCRIBE # SUBACK
  <2>1. p.m.type = UNSUBSCRIBE
    BY DEF UnsubscribeAt
  <2>2. m.type = UNSUBSCRIBE
    BY UnsubscribeFacts
  <2>. QED
    BY <2>1, <2>2, TypesAre DEF TypeNames
<1>4. PICK x : x = ListVar(p, d)
  OBVIOUS
<1>5. Headed(x, p, f, s, l, a, "TOPIC_LEN")
  <2>1. Filling(p, f, r, a)
    BY <1>1
  <2>2. "TOPIC_LEN" = IF p.m.type = SUBACK THEN "TOPIC_QOS" ELSE "TOPIC_LEN"
    BY <1>3
  <2>3. Headed(ListVar(p, d), p, f, s, l, a, "TOPIC_LEN")
    BY <1>1, <2>1, <2>2, ListVarIs
  <2>. QED
    BY <1>4, <2>3
<1>6. ListUpdate(p, d) = x /\ x.err = FALSE /\ x.d \in Streams
  <2>1. ListUpdate(p, d) = ListVar(p, d)
    BY DEF ListUpdate
  <2>. QED
    BY <1>4, <1>5, <2>1 DEF Headed
<1>7. CASE \E q \in Streams, c \in Streams, k \in Int :
              /\ x.p = [p EXCEPT !.buf = c, !.nread = k]
              /\ Filling(x.p, f, q, a) /\ Then(x.d, s) = Then(q, l) /\ k + Len(q) = p.body
  <2>1. PICK q \in Streams, c \in Streams, k \in Int :
              /\ x.p = [p EXCEPT !.buf = c, !.nread = k]
              /\ Filling(x.p, f, q, a) /\ Then(x.d, s) = Then(q, l) /\ k + Len(q) = p.body
    BY <1>7
  <2>2. /\ x.p.m = p.m /\ x.p.st = "HDR_VAR" /\ x.p.acc = <<>> /\ x.p.nread = k
        /\ x.p.body = p.body /\ x.p.done = FALSE /\ IsObject(x.p)
    BY <2>1 DEF IsObject
  <2>3. AwaitsUnsubscribe(x.p, m, q)
    BY <1>1, <2>1, <2>2 DEF AwaitsUnsubscribe, UnsubscribeAt
  <2>4. Expect(x.p, m, q)
    BY <1>3, <2>2, <2>3 DEF Expect
  <2>5. Steps(x, m, s, l)
    BY <1>6, <2>1, <2>4 DEF Steps
  <2>. QED
    BY <1>6, <2>5
<1>8. CASE \E k \in Int :
              /\ x.p = [p EXCEPT !.buf = <<>>, !.nread = k, !.m.pkt = UnpackShort(f),
                                 !.st = "TOPIC_LEN"]
              /\ Then(x.d, s) = Then(a, l) /\ k + Len(a) = p.body
  <2>1. PICK k \in Int :
              /\ x.p = [p EXCEPT !.buf = <<>>, !.nread = k, !.m.pkt = UnpackShort(f),
                                 !.st = "TOPIC_LEN"]
              /\ Then(x.d, s) = Then(a, l) /\ k + Len(a) = p.body
    BY <1>8
  <2>2. PICK y : y = x.p
    OBVIOUS
  <2>3. /\ y.m = [p.m EXCEPT !.pkt = m.pkt] /\ y.st = "TOPIC_LEN" /\ y.acc = <<>> /\ y.nread = k
        /\ y.body = p.body /\ y.done = FALSE /\ y.buf = <<>> /\ IsObject(y)
    <3>1. y = [p EXCEPT !.buf = <<>>, !.nread = k, !.m.pkt = m.pkt, !.st = "TOPIC_LEN"]
      BY <1>1, <2>1, <2>2
    <3>2. y.m = [p.m EXCEPT !.pkt = m.pkt]
      BY <3>1 DEF IsObject
    <3>3. /\ y.st = "TOPIC_LEN" /\ y.acc = <<>> /\ y.nread = k
          /\ y.body = p.body /\ y.done = FALSE /\ y.buf = <<>>
      BY <3>1 DEF IsObject
    <3>4. IsObject(y)
      BY <3>1 DEF IsObject
    <3>. QED
      BY <3>2, <3>3, <3>4
  <2>4. y.m = UnsubscribeAt(m, m.pkt, <<>>)
    BY <2>3 DEF UnsubscribeAt
  <2>5. Filling(y, h, a, w)
    BY <1>2, <2>3, Anew
  <2>6. AwaitsUnsubscribe(y, m, a)
    BY <1>1, <1>2, <2>1, <2>3, <2>4, <2>5 DEF AwaitsUnsubscribe, UnsubscribeAt
  <2>7. y.m.type = UNSUBSCRIBE
    BY <2>4 DEF UnsubscribeAt
  <2>8. Expect(y, m, a)
    BY <1>3, <2>3, <2>6, <2>7 DEF Expect
  <2>9. Steps(x, m, s, l)
    BY <1>1, <1>6, <2>1, <2>2, <2>8 DEF Steps
  <2>. QED
    BY <1>6, <2>9
<1>. QED
  BY <1>5, <1>7, <1>8 DEF Headed

\* the length of the topic,
LEMMA UnsubscribeLenSteps ==
    ASSUME NEW m, UnsubscribeOK(m),
           NEW p, NEW d \in Streams, NEW s \in Streams,
           NEW r \in Streams, NEW l \in Streams, Then(d, s) = Then(r, l),
           IsObject(p), p.done = FALSE, p.nread \in Int, p.body = Len(Body(m)),
           p.st = "TOPIC_LEN", p.acc = <<>>, p.nread + Len(r) = p.body,
           p.m = UnsubscribeAt(m, m.pkt, <<>>),
           Filling(p, Short(Len(m.topics[1])), r, m.topics[1])
    PROVE  Steps(ListUpdate(p, d), m, s, l)
<1>1. PICK w \in Streams : w = m.topics[1] /\ Topic(w) /\ Len(w) > 0 /\ Then(w, <<>>) = w
  <2>1. PICK w \in Streams : w = m.topics[1] /\ Topic(w)
    BY UnsubscribeFacts
  <2>2. w # <<>>
    BY <2>1 DEF Topic
  <2>3. Len(w) \in Nat /\ Len(w) # 0 /\ Then(w, <<>>) = w
    BY <2>2, ThenNothing
  <2>. QED
    BY <2>1, <2>3
<1>2. m.type = UNSUBSCRIBE /\ p.m.type = UNSUBSCRIBE
  BY UnsubscribeFacts DEF UnsubscribeAt
<1>3. PICK x : x = ListTopicLen(p, d)
  OBVIOUS
<1>4. Measured(x, p, w, s, l, w)
  BY <1>1, <1>3, ListTopicLenIs
<1>5. ListUpdate(p, d) = x /\ x.err = FALSE /\ x.d \in Streams
  <2>1. ListUpdate(p, d) = ListTopicLen(p, d)
    BY DEF ListUpdate
  <2>. QED
    BY <1>3, <1>4, <2>1 DEF Measured
<1>6. CASE \E q \in Streams, c \in Streams, k \in Int :
             /\ x.p = [p EXCEPT !.buf = c, !.nread = k]
             /\ Filling(x.p, Short(Len(w)), q, w) /\ Then(x.d, s) = Then(q, l)
             /\ k + Len(q) = p.body
  <2>1. PICK q \in Streams, c \in Streams, k \in Int :
             /\ x.p = [p EXCEPT !.buf = c, !.nread = k]
             /\ Filling(x.p, Short(Len(w)), q, w) /\ Then(x.d, s) = Then(q, l)
             /\ k + Len(q) = p.body
    BY <1>6
  <2>2. /\ x.p.m = p.m /\ x.p.st = "TOPIC_LEN" /\ x.p.acc = <<>> /\ x.p.nread = k
        /\ x.p.body = p.body /\ x.p.done = FALSE /\ IsObject(x.p)
    BY <2>1 DEF IsObject
  <2>3. AwaitsUnsubscribe(x.p, m, q)
    BY <1>1, <2>1, <2>2 DEF AwaitsUnsubscribe, UnsubscribeAt
  <2>4. Expect(x.p, m, q)
    BY <1>2, <2>2, <2>3 DEF Expect
  <2>5. Steps(x, m, s, l)
    BY <1>5, <2>1, <2>4 DEF Steps
  <2>. QED
    BY <1>5, <2>5
<1>7. CASE \E k \in Int :
              /\ x.p = [p EXCEPT !.buf = <<>>, !.need = Len(w), !.nread = k, !.st = "TOPIC_VAL"]
              /\ Then(x.d, s) = Then(w, l) /\ k + Len(w) = p.body
  <2>1. PICK k \in Int :
              /\ x.p = [p EXCEPT !.buf = <<>>, !.need = Len(w), !.nread = k, !.st = "TOPIC_VAL"]
              /\ Then(x.d, s) = Then(w, l) /\ k + Len(w) = p.body
    BY <1>7
  <2>2. PICK y : y = x.p
    OBVIOUS
  <2>3. /\ y.m = p.m /\ y.st = "TOPIC_VAL" /\ y.acc = <<>> /\ y.nread = k /\ y.need = Len(w)
        /\ y.body = p.body /\ y.done = FALSE /\ y.buf = <<>> /\ IsObject(y)
    BY <2>1, <2>2 DEF IsObject
  <2>4. Reading(y, w, w, <<>>)
    <3>1. <<>> \in Streams
      BY NothingIs
    <3>2. Reading(y, w, Then(w, <<>>), <<>>)
      BY <2>3, <3>1, Afresh
    <3>. QED
      BY <1>1, <3>2
  <2>5. AwaitsUnsubscribe(y, m, w)
    BY <1>1, <2>1, <2>3, <2>4 DEF AwaitsUnsubscribe, UnsubscribeAt
  <2>6. Expect(y, m, w)
    BY <1>2, <2>3, <2>5 DEF Expect
  <2>7. Steps(x, m, s, l)
    BY <1>1, <1>5, <2>1, <2>2, <2>6 DEF Steps
  <2>. QED
    BY <1>5, <2>7
<1>. QED
  BY <1>4, <1>6, <1>7 DEF Measured

\* the topic
LEMMA UnsubscribeValSteps ==
    ASSUME NEW m, UnsubscribeOK(m),
           NEW p, NEW d \in Streams, NEW s \in Streams,
           NEW r \in Streams, NEW l \in Streams, Then(d, s) = Then(r, l),
           IsObject(p), p.done = FALSE, p.nread \in Int, p.body = Len(Body(m)),
           p.st = "TOPIC_VAL", p.buf = <<>>, p.nread + Len(m.topics[1]) = p.body,
           p.m = UnsubscribeAt(m, m.pkt, <<>>),
           Reading(p, m.topics[1], r, <<>>)
    PROVE  Steps(ListUpdate(p, d), m, s, l)
<1>1. PICK w \in Streams, e \in Streams : w = m.topics[1] /\ e = <<>> /\ m.topics = <<w>>
  BY UnsubscribeFacts, NothingIs
<1>2. /\ m.type = UNSUBSCRIBE /\ p.m.type = UNSUBSCRIBE
      /\ UNSUBSCRIBE \notin {CONNECT, SUBSCRIBE}
  <2>1. m.type = UNSUBSCRIBE
    BY UnsubscribeFacts
  <2>2. p.m.type = UNSUBSCRIBE
    BY DEF UnsubscribeAt
  <2>. QED
    BY <2>1, <2>2, TypesAre DEF TypeNames
<1>3. PICK x : x = Value(p, d)
  OBVIOUS
<1>4. Reads(x, p, w, s, l, e)
  BY <1>1, <1>3, ValueReads
<1>5. /\ x.err = FALSE /\ x.d \in Streams
      /\ x.p = [p EXCEPT !.need = x.p.need, !.acc = x.p.acc]
  BY <1>4 DEF Reads
<1>6. /\ x.p.m = p.m /\ x.p.st = "TOPIC_VAL" /\ x.p.buf = <<>> /\ x.p.nread = p.nread
      /\ x.p.body = p.body /\ x.p.done = FALSE /\ IsObject(x.p)
  BY <1>5 DEF IsObject
<1>7. ListUpdate(p, d) = ListTopicVal(p, d)
  BY DEF ListUpdate
<1>8. CASE ~x.whole
  <2>1. ListTopicVal(p, d) = x
    BY <1>3, <1>8 DEF ListTopicVal
  <2>2. PICK q \in Streams : Reading(x.p, w, q, e) /\ Then(x.d, s) = Then(q, l)
    BY <1>4, <1>8 DEF Reads
  <2>3. AwaitsUnsubscribe(x.p, m, q)
    BY <1>1, <1>6, <2>2 DEF AwaitsUnsubscribe, UnsubscribeAt
  <2>4. Expect(x.p, m, q)
    BY <1>2, <1>6, <2>3 DEF Expect
  <2>5. Steps(x, m, s, l)
    BY <1>5, <2>2, <2>4 DEF Steps
  <2>. QED
    BY <1>7, <2>1, <2>5
<1>9. CASE x.whole
  <2>1. x.p.acc = w /\ Then(x.d, s) = Then(e, l)
    BY <1>4, <1>9 DEF Reads
  <2>2. PICK k : k = p.nread + Len(w)
    OBVIOUS
  <2>3. k = p.body /\ k \in Int
    BY <1>1, <2>2, LenIs
  <2>4. PICK y : y = [x.p EXCEPT !.nread = k, !.m.topics = m.topics]
    OBVIOUS
  <2>5. /\ y.m = [p.m EXCEPT !.topics = m.topics] /\ y.nread = k /\ y.body = p.body /\ IsObject(y)
    BY <1>6, <2>4 DEF IsObject
  <2>6. ListTopicVal(p, d) = Result(NextEntry(y, "TOPIC_LEN"), x.d)
    <3>1. [x.p EXCEPT !.nread = @ + Len(x.p.acc)] = [x.p EXCEPT !.nread = k]
      BY <1>6, <2>1, <2>2
    <3> DEFINE z == [x.p EXCEPT !.nread = k]
    <3>2. z.m = p.m /\ z.acc = w
      BY <1>6, <2>1 DEF IsObject
    <3>3. p.m.topics = <<>> /\ Append(<<>>, w) = <<w>>
      BY DEF UnsubscribeAt
    <3>4. Append(z.m.topics, z.acc) = m.topics
      <4>. HIDE DEF z
      <4>. QED
        BY <1>1, <3>2, <3>3
    <3>5. [z EXCEPT !.m.topics = m.topics] = y
      BY <2>4 DEF IsObject
    <3>6. [z EXCEPT !.m.topics = Append(@, z.acc)] = y
      <4>1. [z EXCEPT !.m.topics = Append(@, z.acc)]
              = [z EXCEPT !.m.topics = Append(z.m.topics, z.acc)]
        BY <1>6 DEF IsObject
      <4>. HIDE DEF z
      <4>. QED
        BY <3>4, <3>5, <4>1
    <3>7. p.m.type # SUBSCRIBE
      BY <1>2
    <3>. QED
      BY <1>3, <1>9, <3>1, <3>6, <3>7 DEF ListTopicVal
  <2>7. PICK v : v = [y EXCEPT !.done = TRUE]
    OBVIOUS
  <2>8. NextEntry(y, "TOPIC_LEN") = v
    <3>1. y.nread >= y.body
      BY <2>3, <2>5
    <3>. QED
      BY <2>7, <3>1 DEF NextEntry, Goes
  <2>9. v.m = [p.m EXCEPT !.topics = m.topics] /\ v.done = TRUE /\ IsObject(v)
    BY <2>5, <2>7 DEF IsObject
  <2>10. v.m = Seen(m) /\ v.m.type = UNSUBSCRIBE
    <3>1. v.m = UnsubscribeAt(m, m.pkt, m.topics)
      BY <2>9 DEF UnsubscribeAt
    <3>2. Seen(m) = UnsubscribeAt(m, m.pkt, m.topics)
      BY UnsubscribeFacts
    <3>3. v.m.type = UNSUBSCRIBE
      BY <3>1 DEF UnsubscribeAt
    <3>. QED
      BY <3>1, <3>2, <3>3
  <2>11. Same(Seen(m), v.m)
    BY <1>2, <2>10, SameIs
  <2>12. Expect(v, m, e)
    BY <1>1, <1>2, <2>9, <2>10, <2>11 DEF Expect
  <2>13. Result(v, x.d).err = FALSE /\ Result(v, x.d).d = x.d /\ Result(v, x.d).p = v
    BY DEF Result
  <2>14. Steps(Result(v, x.d), m, s, l)
    BY <1>1, <1>5, <2>1, <2>12, <2>13 DEF Steps
  <2>. QED
    BY <1>7, <2>6, <2>8, <2>14
<1>. QED
  BY <1>8, <1>9

\* and all of them.
LEMMA UnsubscribeSteps ==
    ASSUME NEW m, UnsubscribeOK(m),
           NEW p, NEW d \in Streams, NEW s \in Streams,
           NEW r \in Streams, NEW l \in Streams, Then(d, s) = Then(r, l),
           IsObject(p), p.done = FALSE, AwaitsUnsubscribe(p, m, r)
    PROVE  Steps(ListUpdate(p, d), m, s, l)
<1>1. p.nread \in Int /\ p.body = Len(Body(m))
  BY DEF AwaitsUnsubscribe
<1>2. CASE /\ p.st = "HDR_VAR" /\ p.acc = <<>> /\ p.nread + Len(r) = p.body
           /\ p.m = UnsubscribeAt(m, 0, <<>>) /\ Filling(p, Short(m.pkt), r, UnsubscribeEntries(m))
  BY <1>1, <1>2, UnsubscribeVarSteps
<1>3. CASE /\ p.st = "TOPIC_LEN" /\ p.acc = <<>> /\ p.nread + Len(r) = p.body
           /\ p.m = UnsubscribeAt(m, m.pkt, <<>>)
           /\ Filling(p, Short(Len(m.topics[1])), r, m.topics[1])
  BY <1>1, <1>3, UnsubscribeLenSteps
<1>4. CASE /\ p.st = "TOPIC_VAL" /\ p.buf = <<>> /\ p.nread + Len(m.topics[1]) = p.body
           /\ p.m = UnsubscribeAt(m, m.pkt, <<>>) /\ Reading(p, m.topics[1], r, <<>>)
  BY <1>1, <1>4, UnsubscribeValSteps
<1>. QED
  BY <1>2, <1>3, <1>4 DEF AwaitsUnsubscribe, UnsubscribeAt

(***************************************************************************)
(* A suback.                                                               *)
(***************************************************************************)
\* A suback that is got through.
SubackOK(m) == m \in Subacks /\ Sound(m) /\ m.qoses # <<>>

\* A suback of which id and codes are read so far.
SubackAt(pkt, qoses) == [type |-> SUBACK, flags |-> 0, pkt |-> pkt, qoses |-> qoses]

\* What is known of one that is got through.
LEMMA SubackFacts ==
    ASSUME NEW m, SubackOK(m)
    PROVE  /\ m.type = SUBACK /\ m.pkt \in Words
           /\ m.qoses \in Streams /\ Len(m.qoses) > 0
           /\ \A i \in 1..Len(m.qoses) : m.qoses[i] <= 2
           /\ Body(m) = Then(Short(m.pkt), m.qoses)
           /\ Body(m) \in Streams
           /\ Seen(m) = SubackAt(m.pkt, m.qoses)
<1>1. m \in Subacks /\ m.type = SUBACK /\ m.flags = 0 /\ m.qoses \in Seq(Bytes) /\ m.qoses # <<>>
  BY DEF SubackOK, Subacks, Texts
<1>2. \A i \in 1..Len(m.qoses) : m.qoses[i] <= 2
  <2>1. \A i \in DOMAIN m.qoses : m.qoses[i] <= 2
    BY <1>1, TypesAre DEF SubackOK, Sound, TypeNames
  <2>. QED
    BY <1>1, <2>1
<1>3. /\ Body(m) \in Streams /\ m.pkt \in Words /\ m.qoses \in Streams
      /\ Body(m) = Then(Short(m.pkt), m.qoses)
  <2>1. m \in Objects
    BY <1>1 DEF Objects
  <2>. QED
    BY <1>1, <2>1, ListParts
<1>4. Len(m.qoses) > 0
  <2>1. Len(m.qoses) \in Nat /\ Len(m.qoses) # 0
    BY <1>1
  <2>. QED
    BY <2>1
<1>5. Seen(m) = SubackAt(m.pkt, m.qoses)
  BY <1>1, TypesAre DEF Seen, TypeNames, SubackAt
<1>. QED
  BY <1>1, <1>2, <1>3, <1>4, <1>5, Zenon

\* One more byte of a list.
Grows(x, h, q) ==
    /\ Len(x) + 1 \in 1..Len(Then(x, Then(<<h>>, q)))
    /\ Then(x, Then(<<h>>, q))[Len(x) + 1] = h
    /\ Append(x, h) \in Streams
    /\ Then(Append(x, h), q) = Then(x, Then(<<h>>, q))

\* Appending a byte to a list makes it grow.
LEMMA OneMore ==
    ASSUME NEW x \in Streams, NEW h \in Nat, NEW q \in Streams
    PROVE  Grows(x, h, q)
<1>1. PICK b : b = <<h>>
  OBVIOUS
<1>2. b \in Seq(Nat) /\ Len(b) = 1 /\ b[1] = h
  BY <1>1
<1>3. x \in Seq(Nat) /\ q \in Seq(Nat)
  BY DEF Streams
<1>4. PICK c : c = b \o q
  OBVIOUS
<1>5. c \in Seq(Nat) /\ Len(c) = 1 + Len(q) /\ Len(q) \in Nat /\ c[1] = h
  <2>1. 1 \in 1..Len(b)
    BY <1>2
  <2>2. /\ b \o q \in Seq(Nat) /\ Len(b \o q) = Len(b) + Len(q) /\ Len(q) \in Nat
        /\ \A i \in 1..Len(b) : (b \o q)[i] = b[i]
    BY <1>2, <1>3, JoinIs, Zenon
  <2>3. (b \o q)[1] = b[1]
    BY <2>1, <2>2, Zenon
  <2>. QED
    BY <1>2, <1>4, <2>2, <2>3
<1>6. /\ Len(x \o c) = Len(x) + Len(c) /\ Len(x) \in Nat
      /\ (x \o c)[Len(x) + 1] = h
  <2>1. 1 \in 1..Len(c)
    BY <1>5
  <2>. QED
    BY <1>3, <1>5, <2>1, JoinIs
<1>7. Len(x) + 1 \in 1..Len(x \o c)
  BY <1>5, <1>6
<1>8. Then(x, Then(b, q)) = x \o c
  BY <1>4 DEF Then
<1>9. Append(x, h) = Then(x, b) /\ Append(x, h) \in Streams
  <2>1. Append(x, h) = x \o <<h>>
    BY <1>3, AppendIsConcat
  <2>2. Then(x, b) \in Streams
    BY <1>2, ThenIs DEF Streams
  <2>. QED
    BY <1>1, <2>1, <2>2 DEF Then
<1>10. Then(Append(x, h), q) = Then(x, Then(b, q))
  <2>1. b \in Streams
    BY <1>2 DEF Streams
  <2>2. Then(Then(x, b), q) = Then(x, Then(b, q))
    BY <2>1, ThenJoins
  <2>. QED
    BY <1>9, <2>2
<1>. QED
  BY <1>1, <1>6, <1>7, <1>8, <1>9, <1>10 DEF Grows

\* The handlers of a suback get on: the id,
LEMMA SubackVarSteps ==
    ASSUME NEW m, SubackOK(m),
           NEW p, NEW d \in Streams, NEW s \in Streams,
           NEW r \in Streams, NEW l \in Streams, Then(d, s) = Then(r, l),
           IsObject(p), p.done = FALSE, p.nread \in Int, p.body = Len(Body(m)),
           p.nread + Len(r) = p.body, p.st = "HDR_VAR",
           p.m = SubackAt(0, <<>>), Filling(p, Short(m.pkt), r, m.qoses)
    PROVE  Steps(ListUpdate(p, d), m, s, l)
<1>1. PICK f \in Streams, a \in Streams :
        /\ f = Short(m.pkt) /\ a = m.qoses /\ Len(f) = 2 /\ UnpackShort(f) = m.pkt /\ Len(a) > 0
  <2>1. m.pkt \in Words /\ m.qoses \in Streams /\ Len(m.qoses) > 0
    BY SubackFacts
  <2>. QED
    BY <2>1, WordIs
<1>2. m.type = SUBACK /\ p.m.type = SUBACK
  BY SubackFacts DEF SubackAt
<1>3. PICK x : x = ListVar(p, d)
  OBVIOUS
<1>4. Headed(x, p, f, s, l, a, "TOPIC_QOS")
  <2>1. Filling(p, f, r, a)
    BY <1>1
  <2>2. "TOPIC_QOS" = IF p.m.type = SUBACK THEN "TOPIC_QOS" ELSE "TOPIC_LEN"
    BY <1>2
  <2>3. Headed(ListVar(p, d), p, f, s, l, a, "TOPIC_QOS")
    BY <1>1, <2>1, <2>2, ListVarIs
  <2>. QED
    BY <1>3, <2>3
<1>5. ListUpdate(p, d) = x /\ x.err = FALSE /\ x.d \in Streams
  <2>1. ListUpdate(p, d) = ListVar(p, d)
    BY DEF ListUpdate
  <2>. QED
    BY <1>3, <1>4, <2>1 DEF Headed
<1>6. CASE \E q \in Streams, c \in Streams, k \in Int :
              /\ x.p = [p EXCEPT !.buf = c, !.nread = k]
              /\ Filling(x.p, f, q, a) /\ Then(x.d, s) = Then(q, l) /\ k + Len(q) = p.body
  <2>1. PICK q \in Streams, c \in Streams, k \in Int :
              /\ x.p = [p EXCEPT !.buf = c, !.nread = k]
              /\ Filling(x.p, f, q, a) /\ Then(x.d, s) = Then(q, l) /\ k + Len(q) = p.body
    BY <1>6
  <2>2. /\ x.p.m = p.m /\ x.p.st = "HDR_VAR" /\ x.p.nread = k
        /\ x.p.body = p.body /\ x.p.done = FALSE /\ IsObject(x.p)
    BY <2>1 DEF IsObject
  <2>3. AwaitsSuback(x.p, m, q)
    BY <1>1, <2>1, <2>2 DEF AwaitsSuback, SubackAt
  <2>4. Expect(x.p, m, q)
    BY <1>2, <2>2, <2>3 DEF Expect
  <2>5. Steps(x, m, s, l)
    BY <1>5, <2>1, <2>4 DEF Steps
  <2>. QED
    BY <1>5, <2>5
<1>7. CASE \E k \in Int :
              /\ x.p = [p EXCEPT !.buf = <<>>, !.nread = k, !.m.pkt = UnpackShort(f),
                                 !.st = "TOPIC_QOS"]
              /\ Then(x.d, s) = Then(a, l) /\ k + Len(a) = p.body
  <2>1. PICK k \in Int :
              /\ x.p = [p EXCEPT !.buf = <<>>, !.nread = k, !.m.pkt = UnpackShort(f),
                                 !.st = "TOPIC_QOS"]
              /\ Then(x.d, s) = Then(a, l) /\ k + Len(a) = p.body
    BY <1>7
  <2>2. PICK y : y = x.p
    OBVIOUS
  <2>3. y = [p EXCEPT !.buf = <<>>, !.nread = k, !.m.pkt = m.pkt, !.st = "TOPIC_QOS"]
    BY <1>1, <2>1, <2>2
  <2>4. y.m = [p.m EXCEPT !.pkt = m.pkt]
    BY <2>3 DEF IsObject
  <2>5. y.st = "TOPIC_QOS" /\ y.nread = k /\ y.body = p.body /\ y.done = FALSE
    BY <2>3 DEF IsObject
  <2>6. IsObject(y)
    BY <2>3 DEF IsObject
  <2>7. y.m = SubackAt(m.pkt, <<>>)
    <3>1. [SubackAt(0, <<>>) EXCEPT !.pkt = m.pkt] = SubackAt(m.pkt, <<>>)
      BY DEF SubackAt
    <3>. QED
      BY <2>4, <3>1
  <2>8. y.m.qoses = <<>> /\ y.m.type = SUBACK
    BY <2>7 DEF SubackAt
  <2>9. <<>> \in Streams /\ Then(<<>>, a) = a /\ a # <<>>
    BY <1>1, ThenNothing
  <2>10. AwaitsSuback(y, m, a)
    BY <1>1, <2>1, <2>5, <2>7, <2>8, <2>9 DEF AwaitsSuback, SubackAt
  <2>11. Expect(y, m, a)
    BY <1>2, <2>5, <2>6, <2>8, <2>10 DEF Expect
  <2>12. Steps(x, m, s, l)
    BY <1>1, <1>5, <2>1, <2>2, <2>11 DEF Steps
  <2>. QED
    BY <1>5, <2>12
<1>. QED
  BY <1>4, <1>6, <1>7 DEF Headed

\* a code
LEMMA SubackQosSteps ==
    ASSUME NEW m, SubackOK(m),
           NEW p, NEW d \in Streams, NEW s \in Streams,
           NEW r \in Streams, NEW l \in Streams, Then(d, s) = Then(r, l), d # <<>>,
           IsObject(p), p.done = FALSE, p.nread \in Int, p.body = Len(Body(m)),
           p.nread + Len(r) = p.body, p.st = "TOPIC_QOS", p.m.qoses \in Streams,
           p.m = SubackAt(m.pkt, p.m.qoses), Then(p.m.qoses, r) = m.qoses, r # <<>>
    PROVE  Steps(ListUpdate(p, d), m, s, l)
<1>1. PICK v \in Nat, q \in Streams, b \in Streams :
        /\ v = Head(d) /\ b = Tail(d) /\ r = Then(<<v>>, q) /\ Then(b, s) = Then(q, l)
        /\ Len(q) = Len(r) - 1
  <2>1. /\ Head(d) \in Nat /\ Tail(d) \in Streams
        /\ \E q \in Streams : /\ r = Then(<<Head(d)>>, q) /\ Then(Tail(d), s) = Then(q, l)
                              /\ Len(q) = Len(r) - 1
    BY HeadIs
  <2>. QED
    BY <2>1, Zenon
<1>2. PICK x \in Streams : x = p.m.qoses
  OBVIOUS
<1>3. PICK y \in Streams : y = Append(x, v) /\ Then(y, q) = m.qoses
  <2>1. /\ Append(x, v) \in Streams
        /\ Then(Append(x, v), q) = Then(x, Then(<<v>>, q))
    BY OneMore DEF Grows
  <2>2. Then(x, Then(<<v>>, q)) = m.qoses
    BY <1>1, <1>2
  <2>. QED
    BY <2>1, <2>2, Zenon
<1>4. QosOf(v) = v
  <2>1. Len(x) + 1 \in 1..Len(m.qoses) /\ m.qoses[Len(x) + 1] = v
    <3>1. Then(x, Then(<<v>>, q)) = m.qoses
      BY <1>1, <1>2
    <3>2. /\ Len(x) + 1 \in 1..Len(Then(x, Then(<<v>>, q)))
          /\ Then(x, Then(<<v>>, q))[Len(x) + 1] = v
      BY OneMore DEF Grows
    <3>. QED
      BY <3>1, <3>2
  <2>2. v <= 2
    BY <2>1, SubackFacts
  <2>. QED
    BY <2>2 DEF QosOf
<1>5. m.type = SUBACK /\ p.m.type = SUBACK
  BY SubackFacts DEF SubackAt
<1>6. PICK k : k = p.nread + 1
  OBVIOUS
<1>7. k \in Int /\ k + Len(q) = p.body /\ (k >= p.body <=> Len(q) = 0) /\ Len(q) \in Nat
  <2> DEFINE n == Len(q)
             j == Len(r)
             h == p.nread
             e == p.body
  <2>1. h \in Int /\ n \in Nat /\ j \in Nat /\ n = j - 1 /\ h + j = e /\ k = h + 1
    BY <1>1, <1>6, LenIs, Zenon
  <2>. HIDE DEF n, j, h, e
  <2>2. k \in Int /\ k + n = e /\ (k >= e <=> n = 0) /\ n \in Nat
    BY <2>1
  <2>. QED
    BY <2>2 DEF n, e
<1>8. PICK o : o = [p EXCEPT !.m.qoses = y, !.nread = k]
  OBVIOUS
<1>9. /\ o.m = SubackAt(m.pkt, y) /\ o.nread = k /\ o.body = p.body /\ o.st = "TOPIC_QOS"
      /\ o.done = FALSE /\ IsObject(o)
  <2>1. /\ o.m = [p.m EXCEPT !.qoses = y] /\ o.nread = k /\ o.body = p.body
        /\ o.st = "TOPIC_QOS" /\ o.done = FALSE /\ IsObject(o)
    BY <1>8 DEF IsObject
  <2>2. o.m = SubackAt(m.pkt, y)
    BY <2>1 DEF SubackAt
  <2>. QED
    BY <2>1, <2>2
<1>10. PICK z : z = NextEntry(o, "TOPIC_QOS")
  OBVIOUS
<1>11. ListUpdate(p, d) = Result(z, b)
  <2>1. ListUpdate(p, d) = ListTopicQos(p, d)
    BY DEF ListUpdate
  <2>2. [p EXCEPT !.m.qoses = Append(@, QosOf(Head(d))), !.nread = @ + 1] = o
    <3>1. QosOf(Head(d)) = v
      BY <1>1, <1>4
    <3>. QED
      BY <1>2, <1>3, <1>6, <1>8, <3>1 DEF IsObject
  <2>. QED
    BY <1>1, <1>5, <1>10, <2>1, <2>2 DEF ListTopicQos
<1>12. Result(z, b).err = FALSE /\ Result(z, b).d = b /\ Result(z, b).p = z
  BY DEF Result
<1>13. CASE q = <<>>
  <2>1. Len(q) = 0 /\ y = m.qoses
    BY <1>3, <1>13, ThenNothing
  <2>2. z = [o EXCEPT !.done = TRUE]
    BY <1>7, <1>9, <1>10, <2>1 DEF NextEntry, Goes
  <2>3. z.m = SubackAt(m.pkt, m.qoses) /\ z.done = TRUE /\ IsObject(z)
    BY <1>9, <2>1, <2>2 DEF IsObject
  <2>4. z.m.type = SUBACK
    BY <2>3 DEF SubackAt
  <2>5. Same(Seen(m), z.m)
    <3>1. z.m = Seen(m)
      BY <2>3, SubackFacts
    <3>2. SUBACK \notin {CONNECT, SUBSCRIBE}
      BY TypesAre DEF TypeNames
    <3>. QED
      BY <2>4, <3>1, <3>2, SameIs
  <2>6. Expect(z, m, q)
    BY <1>5, <1>13, <2>3, <2>4, <2>5 DEF Expect
  <2>7. Steps(Result(z, b), m, s, l)
    BY <1>1, <1>12, <2>6 DEF Steps
  <2>. QED
    BY <1>11, <2>7
<1>14. CASE q # <<>>
  <2>1. Len(q) # 0
    BY <1>14, ThenNothing
  <2>2. z = [o EXCEPT !.st = "TOPIC_QOS"]
    BY <1>7, <1>9, <1>10, <2>1 DEF NextEntry, Goes
  <2>3. /\ z.m = SubackAt(m.pkt, y) /\ z.nread = k /\ z.body = p.body /\ z.st = "TOPIC_QOS"
        /\ z.done = FALSE /\ IsObject(z)
    BY <1>9, <2>2 DEF IsObject
  <2>4. z.m.type = SUBACK /\ z.m.qoses = y
    BY <2>3 DEF SubackAt
  <2>5. AwaitsSuback(z, m, q)
    BY <1>3, <1>7, <1>14, <2>3, <2>4 DEF AwaitsSuback, SubackAt
  <2>6. Expect(z, m, q)
    BY <1>5, <2>3, <2>4, <2>5 DEF Expect
  <2>7. Steps(Result(z, b), m, s, l)
    BY <1>1, <1>12, <2>6 DEF Steps
  <2>. QED
    BY <1>11, <2>7
<1>. QED
  BY <1>13, <1>14

\* and both.
LEMMA SubackSteps ==
    ASSUME NEW m, SubackOK(m),
           NEW p, NEW d \in Streams, NEW s \in Streams,
           NEW r \in Streams, NEW l \in Streams, Then(d, s) = Then(r, l), d # <<>>,
           IsObject(p), p.done = FALSE, AwaitsSuback(p, m, r)
    PROVE  Steps(ListUpdate(p, d), m, s, l)
<1>1. p.nread \in Int /\ p.body = Len(Body(m)) /\ p.nread + Len(r) = p.body
  BY DEF AwaitsSuback
<1>2. CASE /\ p.st = "HDR_VAR" /\ p.m = SubackAt(0, <<>>)
           /\ Filling(p, Short(m.pkt), r, m.qoses)
  BY <1>1, <1>2, SubackVarSteps
<1>3. CASE /\ p.st = "TOPIC_QOS" /\ p.m.qoses \in Streams /\ p.m = SubackAt(m.pkt, p.m.qoses)
           /\ Then(p.m.qoses, r) = m.qoses /\ r # <<>>
  BY <1>1, <1>3, SubackQosSteps
<1>. QED
  BY <1>2, <1>3 DEF AwaitsSuback, SubackAt

(***************************************************************************)
(* Every handler gets on with its message.                                 *)
(***************************************************************************)
\* A message that is sent, by its class.
LEMMA ReadyIs ==
    ASSUME NEW m, Ready(m), Sound(m)
    PROVE  /\ m \in Objects /\ Filled(m) /\ Body(m) \in Streams
           /\ m.type = CONNECT => ConnectOK(m)
           /\ m.type = CONNACK => m \in Connacks
           /\ m.type = PUBLISH => m \in Publishes
           /\ m.type \in Acks => m \in AckMessages
           /\ m.type = SUBSCRIBE => SubscribeOK(m)
           /\ m.type = UNSUBSCRIBE => UnsubscribeOK(m)
           /\ m.type = SUBACK => SubackOK(m)
           /\ m.type \in Bodyless => m \in Signals
           /\ \/ m.type \in {CONNECT, CONNACK, PUBLISH, SUBSCRIBE, UNSUBSCRIBE, SUBACK}
              \/ m.type \in Acks \/ m.type \in Bodyless
<1>1. m \in Objects /\ Filled(m) /\ Body(m) \in Streams
  BY DEF Ready
<1>2. /\ m.type = CONNECT <=> m \in Connects
      /\ m.type = CONNACK <=> m \in Connacks
      /\ m.type = PUBLISH <=> m \in Publishes
      /\ m.type \in Acks <=> m \in AckMessages
      /\ m.type = SUBSCRIBE <=> m \in Subscribes
      /\ m.type = UNSUBSCRIBE <=> m \in Unsubscribes
      /\ m.type = SUBACK <=> m \in Subacks
      /\ m.type \in Bodyless <=> m \in Signals
      /\ m.type \in 1..14
  BY <1>1, ClassIs
<1>3. /\ m.type = SUBSCRIBE => m.topics # <<>>
      /\ m.type = SUBACK => m.qoses # <<>>
  BY <1>1 DEF Filled
<1>4. \/ m.type \in {CONNECT, CONNACK, PUBLISH, SUBSCRIBE, UNSUBSCRIBE, SUBACK}
      \/ m.type \in Acks \/ m.type \in Bodyless
  BY <1>2, TypesAre DEF TypeNames
<1>. QED
  BY <1>1, <1>2, <1>3, <1>4, Zenon DEF ConnectOK, SubscribeOK, UnsubscribeOK, SubackOK

\* Whatever the message and the handler, a turn of the loop in update gets on.
LEMMA UpdateSteps ==
    ASSUME NEW m, Ready(m), Sound(m),
           NEW p, NEW d \in Streams, NEW s \in Streams,
           NEW r \in Streams, NEW l \in Streams, Then(d, s) = Then(r, l), d # <<>>,
           Expect(p, m, r), p.done = FALSE, NEW g
    PROVE  Steps(Update(p, d, g), m, s, l)
<1>1. IsObject(p) /\ p.m.type = m.type
  BY DEF Expect
<1>2. \/ m.type = CONNECT /\ AwaitsConnect(p, m, r)
      \/ m.type = CONNACK /\ AwaitsConnack(p, m, r)
      \/ m.type = PUBLISH /\ AwaitsPublish(p, m, r)
      \/ m.type \in Acks /\ AwaitsAck(p, m, r)
      \/ m.type = SUBSCRIBE /\ AwaitsSubscribe(p, m, r)
      \/ m.type = UNSUBSCRIBE /\ AwaitsUnsubscribe(p, m, r)
      \/ m.type = SUBACK /\ AwaitsSuback(p, m, r)
  BY DEF Expect
<1>3. CASE m.type = CONNECT /\ AwaitsConnect(p, m, r)
  <2>1. ConnectOK(m)
    BY <1>3, ReadyIs
  <2>2. Steps(ConnectUpdate(p, d, g), m, s, l)
    BY <1>1, <1>3, <2>1, ConnectSteps
  <2>3. Update(p, d, g) = ConnectUpdate(p, d, g)
    BY <1>1, <1>3, TypesAre DEF Update, TypeNames
  <2>. QED
    BY <2>2, <2>3
<1>4. CASE m.type = CONNACK /\ AwaitsConnack(p, m, r)
  <2>1. m \in Connacks
    BY <1>4, ReadyIs
  <2>2. Steps(ConnackUpdate(p, d), m, s, l)
    BY <1>1, <1>4, <2>1, ConnackSteps
  <2>3. Update(p, d, g) = ConnackUpdate(p, d)
    BY <1>1, <1>4, TypesAre DEF Update, TypeNames
  <2>. QED
    BY <2>2, <2>3
<1>5. CASE m.type = PUBLISH /\ AwaitsPublish(p, m, r)
  <2>1. m \in Publishes
    BY <1>5, ReadyIs
  <2>2. Steps(PublishUpdate(p, d), m, s, l)
    <3>1. Size(m) < LenPow[4]
      BY DEF Ready
    <3>. QED
      BY <1>1, <1>5, <2>1, <3>1, PublishSteps
  <2>3. Update(p, d, g) = PublishUpdate(p, d)
    BY <1>1, <1>5, TypesAre DEF Update, TypeNames
  <2>. QED
    BY <2>2, <2>3
<1>6. CASE m.type \in Acks /\ AwaitsAck(p, m, r)
  <2>1. m \in AckMessages
    BY <1>6, ReadyIs
  <2>2. Steps(AckUpdate(p, d), m, s, l)
    BY <1>1, <1>6, <2>1, AckSteps
  <2>3. Update(p, d, g) = AckUpdate(p, d)
    <3>1. p.m.type \notin {CONNECT, CONNACK, PUBLISH, SUBSCRIBE, UNSUBSCRIBE, SUBACK}
      BY <1>1, <1>6, OtherTypes
    <3>2. p.m.type \in Acks
      BY <1>1, <1>6
    <3>. QED
      BY <3>1, <3>2 DEF Update
  <2>. QED
    BY <2>2, <2>3
<1>7. CASE m.type = SUBSCRIBE /\ AwaitsSubscribe(p, m, r)
  <2>1. SubscribeOK(m)
    BY <1>7, ReadyIs
  <2>2. Steps(ListUpdate(p, d), m, s, l)
    BY <1>1, <1>7, <2>1, SubscribeSteps
  <2>3. Update(p, d, g) = ListUpdate(p, d)
    BY <1>1, <1>7, TypesAre DEF Update, TypeNames
  <2>. QED
    BY <2>2, <2>3
<1>8. CASE m.type = UNSUBSCRIBE /\ AwaitsUnsubscribe(p, m, r)
  <2>1. UnsubscribeOK(m)
    BY <1>8, ReadyIs
  <2>2. Steps(ListUpdate(p, d), m, s, l)
    BY <1>1, <1>8, <2>1, UnsubscribeSteps
  <2>3. Update(p, d, g) = ListUpdate(p, d)
    BY <1>1, <1>8, TypesAre DEF Update, TypeNames
  <2>. QED
    BY <2>2, <2>3
<1>9. CASE m.type = SUBACK /\ AwaitsSuback(p, m, r)
  <2>1. SubackOK(m)
    BY <1>9, ReadyIs
  <2>2. Steps(ListUpdate(p, d), m, s, l)
    BY <1>1, <1>9, <2>1, SubackSteps
  <2>3. Update(p, d, g) = ListUpdate(p, d)
    BY <1>1, <1>9, TypesAre DEF Update, TypeNames
  <2>. QED
    BY <2>2, <2>3
<1>. QED
  BY <1>2, <1>3, <1>4, <1>5, <1>6, <1>7, <1>8, <1>9

\* The header of a sound message tells the length of its body.
LEMMA SizeSound ==
    ASSUME NEW m, Ready(m), Sound(m)
    PROVE  Size(m) = Len(Body(m))
<1>1. CASE m.type \notin {PUBLISH, SUBSCRIBE, UNSUBSCRIBE, SUBACK}
  BY <1>1, SizeIs
<1>2. CASE m.type = PUBLISH
  <2>1. m \in Publishes
    BY <1>2, ReadyIs
  <2>2. PICK w \in Streams, i \in Streams, z \in Streams, y \in Streams, x \in Streams :
          /\ w = m.topic /\ i = PubId(m) /\ z = m.payload /\ y = Then(i, z) /\ x = Text(w)
          /\ Body(m) = Then(x, y)
          /\ Size(m) = Len(w) + 2 + Len(z) + Len(i)
    <3>1. /\ m.topic \in Streams /\ m.payload \in Streams /\ PubId(m) \in Streams
          /\ Then(PubId(m), m.payload) \in Streams
          /\ Body(m) = Then(Text(m.topic), Then(PubId(m), m.payload))
          /\ Size(m) = Len(m.topic) + 2 + Len(m.payload) + Len(PubId(m))
      BY <2>1, PublishParts
    <3>2. Text(m.topic) \in Streams
      BY <3>1, TextIs
    <3>. QED
      BY <3>1, <3>2, Zenon
  <2>3. Fits(w)
    BY <1>2, <2>2, TypesAre DEF Sound, Topic, TypeNames
  <2>4. PICK h \in Streams : h = Short(Len(w)) /\ Len(h) = 2 /\ x = Then(h, w)
    BY <2>2, <2>3, TextIs
  <2>5. /\ Len(Then(x, y)) = Len(x) + Len(y) /\ Len(x) = Len(h) + Len(w) /\ Len(y) = Len(i) + Len(z)
        /\ Len(w) \in Nat /\ Len(i) \in Nat /\ Len(z) \in Nat
    <3>1. Len(Then(x, y)) = Len(x) + Len(y)
      BY ThenLen
    <3>2. Len(Then(h, w)) = Len(h) + Len(w)
      BY ThenLen
    <3>3. Len(Then(i, z)) = Len(i) + Len(z)
      BY ThenLen
    <3>4. Len(w) \in Nat /\ Len(i) \in Nat /\ Len(z) \in Nat
      BY LenIs
    <3>. QED
      BY <2>2, <2>4, <3>1, <3>2, <3>3, <3>4, Zenon
  <2> DEFINE nw == Len(w)
             ni == Len(i)
             nz == Len(z)
             nx == Len(x)
             ny == Len(y)
             nb == Len(Then(x, y))
             sz == Size(m)
  <2>6. /\ nb = nx + ny /\ nx = 2 + nw /\ ny = ni + nz /\ nw \in Nat /\ ni \in Nat /\ nz \in Nat
        /\ sz = nw + 2 + nz + ni
    BY <2>2, <2>4, <2>5, Zenon
  <2>. HIDE DEF nw, ni, nz, nx, ny, nb, sz
  <2>7. sz = nb
    BY <2>6
  <2>. QED
    BY <2>2, <2>7 DEF sz, nb
<1>3. CASE m.type = SUBSCRIBE
  <2>1. SubscribeOK(m)
    BY <1>3, ReadyIs
  <2>2. PICK f \in Streams, a \in Streams :
          f = Short(m.pkt) /\ a = SubscribeEntries(m) /\ Len(f) = 2 /\ Body(m) = Then(f, a)
    <3>1. /\ m.pkt \in Words /\ SubscribeEntries(m) \in Streams
          /\ Body(m) = Then(Short(m.pkt), SubscribeEntries(m))
      BY <2>1, SubscribeFacts
    <3>. QED
      BY <3>1, WordIs
  <2>3. m.body = Len(a) + 2
    BY <1>3, <2>2, TypesAre DEF Sound, TypeNames
  <2>4. Size(m) = m.body
    BY <1>3, TypesAre DEF Size, TypeNames
  <2>5. Len(Then(f, a)) = Len(f) + Len(a) /\ Len(a) \in Nat
    BY ThenLen, LenIs
  <2>. QED
    BY <2>2, <2>3, <2>4, <2>5
<1>4. CASE m.type = UNSUBSCRIBE
  <2>1. UnsubscribeOK(m)
    BY <1>4, ReadyIs
  <2>2. PICK f \in Streams, a \in Streams, w \in Streams :
          /\ f = Short(m.pkt) /\ a = UnsubscribeEntries(m) /\ Len(f) = 2 /\ Body(m) = Then(f, a)
          /\ w = m.topics[1] /\ a = Then(Short(Len(w)), w)
    <3>1. /\ m.pkt \in Words /\ UnsubscribeEntries(m) \in Streams /\ m.topics[1] \in Streams
          /\ UnsubscribeEntries(m) = Then(Short(Len(m.topics[1])), m.topics[1])
          /\ Body(m) = Then(Short(m.pkt), UnsubscribeEntries(m))
      BY <2>1, UnsubscribeFacts
    <3>2. Short(m.pkt) \in Streams /\ Len(Short(m.pkt)) = 2
      BY <3>1, WordIs
    <3>. QED
      BY <3>1, <3>2, Zenon
  <2>3. PICK h \in Streams : h = Short(Len(w)) /\ Len(h) = 2
    BY TextIs
  <2>4. m.body = Len(w) + 4
    BY <1>4, <2>2, TypesAre DEF Sound, TypeNames
  <2>5. Size(m) = m.body
    BY <1>4, TypesAre DEF Size, TypeNames
  <2>6. /\ Len(Then(f, a)) = Len(f) + Len(a) /\ Len(Then(h, w)) = Len(h) + Len(w)
        /\ Len(w) \in Nat
    BY ThenLen, LenIs
  <2>7. Len(a) = 2 + Len(w)
    BY <2>2, <2>3, <2>6
  <2>8. Len(Body(m)) = 2 + (2 + Len(w))
    BY <2>2, <2>6, <2>7
  <2>. QED
    BY <2>4, <2>5, <2>6, <2>8
<1>5. CASE m.type = SUBACK
  <2>1. SubackOK(m)
    BY <1>5, ReadyIs
  <2>2. PICK f \in Streams, a \in Streams :
          f = Short(m.pkt) /\ a = m.qoses /\ Len(f) = 2 /\ Body(m) = Then(f, a)
    <3>1. /\ m.pkt \in Words /\ m.qoses \in Streams /\ Body(m) = Then(Short(m.pkt), m.qoses)
      BY <2>1, SubackFacts
    <3>. QED
      BY <3>1, WordIs
  <2>3. m.body = Len(a) + 2
    BY <1>5, <2>2, TypesAre DEF Sound, TypeNames
  <2>4. Size(m) = m.body
    BY <1>5, TypesAre DEF Size, TypeNames
  <2>5. Len(Then(f, a)) = Len(f) + Len(a) /\ Len(a) \in Nat
    BY ThenLen, LenIs
  <2>. QED
    BY <2>2, <2>3, <2>4, <2>5
<1>. QED
  BY <1>1, <1>2, <1>3, <1>4, <1>5

\* o is a new object for message x.
Begun(o, x, st, n) ==
    /\ IsObject(o) /\ o.m = x /\ o.st = st /\ o.body = n
    /\ o.buf = <<>> /\ o.need = 0 /\ o.acc = <<>> /\ o.nread = 0

\* NewObject makes one.
LEMMA NewIs ==
    ASSUME NEW x, NEW st, NEW n
    PROVE  /\ Begun(NewObject(x, st, n), x, st, n)
           /\ x.type \in Bodyless => NewObject(x, st, n).done = TRUE
           /\ x.type \notin Bodyless => NewObject(x, st, n).done = FALSE
<1>1. PICK o : o = NewObject(x, st, n)
  OBVIOUS
<1>2. IsObject(o) /\ o.m = x
  BY <1>1 DEF NewObject, IsObject
<1>3. o.st = st /\ o.body = n /\ o.buf = <<>> /\ o.need = 0 /\ o.acc = <<>> /\ o.nread = 0
  BY <1>1 DEF NewObject
<1>4. o.done = (x.type \in Bodyless)
  BY <1>1, Zenon DEF NewObject
<1>5. x.type \in Bodyless => o.done = TRUE
  BY <1>4
<1>6. x.type \notin Bodyless => o.done = FALSE
  <2>1. ASSUME x.type \notin Bodyless PROVE (x.type \in Bodyless) = FALSE
    BY <2>1
  <2>. QED
    BY <1>4, <2>1, Zenon
<1>. QED
  BY <1>1, <1>2, <1>3, <1>5, <1>6, Zenon DEF Begun

\* The flags of a connack are 0.
LEMMA ConnackFacts ==
    ASSUME NEW m \in Connacks
    PROVE  /\ m.type = CONNACK /\ <<m.cflags, m.code>> \in Streams
           /\ [m EXCEPT !.cflags = 0, !.code = 0]
                = [type |-> CONNACK, flags |-> m.flags, cflags |-> 0, code |-> 0]
<1>1. m.cflags \in 0..1 /\ m.code \in 0..255
  BY DEF Connacks, Bytes
<1>2. m.cflags \in Nat /\ m.code \in Nat
  BY <1>1
<1>3. <<m.cflags, m.code>> \in Streams
  BY <1>2, PairIs
<1>4. /\ m.type = CONNACK
      /\ m = [type |-> m.type, flags |-> m.flags, cflags |-> m.cflags, code |-> m.code]
  BY DEF Connacks
<1>5. [m EXCEPT !.cflags = 0, !.code = 0]
        = [type |-> CONNACK, flags |-> m.flags, cflags |-> 0, code |-> 0]
  <2> DEFINE Rec(a, b) == [type |-> CONNACK, flags |-> m.flags, cflags |-> a, code |-> b]
  <2>1. ASSUME NEW a, NEW b PROVE [Rec(a, b) EXCEPT !.cflags = 0] = Rec(0, b)
    OBVIOUS
  <2>2. ASSUME NEW a, NEW b PROVE [Rec(a, b) EXCEPT !.code = 0] = Rec(a, 0)
    OBVIOUS
  <2>3. PICK a, b : m = Rec(a, b)
    BY <1>4
  <2>. HIDE DEF Rec
  <2>4. [[m EXCEPT !.cflags = 0] EXCEPT !.code = 0] = Rec(0, 0)
    <3>1. [m EXCEPT !.cflags = 0] = [Rec(a, b) EXCEPT !.cflags = 0]
      BY <2>3
    <3>2. [m EXCEPT !.cflags = 0] = Rec(0, b)
      BY <2>1, <3>1
    <3>3. [[m EXCEPT !.cflags = 0] EXCEPT !.code = 0] = [Rec(0, b) EXCEPT !.code = 0]
      BY <3>2
    <3>. QED
      BY <2>2, <3>3
  <2>5. [m EXCEPT !.cflags = 0, !.code = 0] = [[m EXCEPT !.cflags = 0] EXCEPT !.code = 0]
    OBVIOUS
  <2>. QED
    BY <2>4, <2>5 DEF Rec
<1>. QED
  BY <1>3, <1>4, <1>5, Zenon

\* create_message makes an object that awaits the whole body.
LEMMA CreatedIs ==
    ASSUME NEW m, Ready(m), Sound(m), NEW o, o = Created(m.type, m.flags, Len(Body(m)))
    PROVE  Expect(o, m, Body(m))
<1>1. PICK n : n = Len(Body(m)) /\ n = Size(m) /\ n \in Nat
  <2>1. Body(m) \in Streams
    BY ReadyIs
  <2>. QED
    BY <2>1, SizeSound, LenIs
<1>2. CASE m.type = CONNECT
  <2>1. ConnectOK(m) /\ m \in Connects
    BY <1>2, ReadyIs DEF ConnectOK
  <2>2. PICK x, k : /\ k = 300
                    /\ x = [type |-> CONNECT, flags |-> 0, cflags |-> 0, wqos |-> 0, keep |-> k,
                            cid |-> <<>>, wtopic |-> <<>>, wmsg |-> <<>>, user |-> <<>>,
                            pass |-> <<>>]
    OBVIOUS
  <2>3. o = NewObject(x, "HDR_VAR", n) /\ x.type = m.type
    <3>1. m.flags = 0
      BY <2>1 DEF Connects
    <3>. QED
      BY <1>1, <1>2, <2>2, <3>1, TypesAre DEF Created, TypeNames
  <2>4. m.type \notin Bodyless
    BY <1>2, TypesAre DEF TypeNames
  <2>5. /\ IsObject(o) /\ o.m = x /\ o.m.type = m.type /\ o.st = "HDR_VAR"
        /\ o.buf = <<>> /\ o.need = 0 /\ o.acc = <<>> /\ o.done = FALSE
    <3>1. Begun(o, x, "HDR_VAR", n) /\ o.done = FALSE
      BY <2>3, <2>4, NewIs, Zenon
    <3>. QED
      BY <2>3, <3>1 DEF Begun
  <2>6. PICK f \in Streams, a \in Streams :
          /\ f = ConnectHead(m) /\ a = Then(Text(m.cid), FromTopic(m)) /\ Body(m) = Then(f, a)
    BY <2>1, ConnectParts
  <2>7. Filling(o, f, Body(m), a)
    BY <2>5, <2>6, Anew
  <2>8. AwaitsConnect(o, m, Body(m))
    <3>1. o.st = "HDR_VAR" /\ o.acc = <<>> /\ o.need = 0 /\ o.m = x
      BY <2>5
    <3>2. \E j : x = [type |-> CONNECT, flags |-> 0, cflags |-> 0, wqos |-> 0, keep |-> j,
                     cid |-> <<>>, wtopic |-> <<>>, wmsg |-> <<>>, user |-> <<>>, pass |-> <<>>]
      BY <2>2, Zenon
    <3>3. Filling(o, ConnectHead(m), Body(m), Then(Text(m.cid), FromTopic(m)))
      BY <2>6, <2>7
    <3>. QED
      BY <3>1, <3>2, <3>3, Zenon DEF AwaitsConnect
  <2>. QED
    BY <1>2, <2>5, <2>8 DEF Expect
<1>3. CASE m.type = CONNACK
  <2>1. m \in Connacks
    BY <1>3, ReadyIs
  <2>2. PICK x : x = [type |-> CONNACK, flags |-> m.flags, cflags |-> 0, code |-> 0]
    OBVIOUS
  <2>3. o = NewObject(x, "HDR_VAR", n) /\ x.type = m.type
    BY <1>1, <1>3, <2>2, TypesAre DEF Created, TypeNames
  <2>4. m.type \notin Bodyless
    BY <1>3, TypesAre DEF TypeNames
  <2>5. IsObject(o) /\ o.m = x /\ o.m.type = m.type /\ o.buf = <<>> /\ o.done = FALSE
    <3>1. Begun(o, x, "HDR_VAR", n) /\ o.done = FALSE
      BY <2>3, <2>4, NewIs, Zenon
    <3>. QED
      BY <2>3, <3>1 DEF Begun
  <2>6. x = [m EXCEPT !.cflags = 0, !.code = 0]
    BY <2>1, <2>2, ConnackFacts
  <2>7. PICK f \in Streams, e \in Streams : f = <<m.cflags, m.code>> /\ e = <<>> /\ Body(m) = f
    <3>1. <<m.cflags, m.code>> \in Streams
      BY <2>1, ConnackFacts
    <3>2. Body(m) = <<m.cflags, m.code>>
      BY <1>3, TypesAre DEF Body, TypeNames
    <3>. QED
      BY <3>1, <3>2, NothingIs, Zenon
  <2>8. Filling(o, f, f, e)
    <3>1. Filling(o, f, Then(f, e), e)
      BY <2>5, Anew
    <3>. QED
      BY <2>7, <3>1, ThenNothing
  <2>9. AwaitsConnack(o, m, Body(m))
    BY <2>5, <2>6, <2>7, <2>8 DEF AwaitsConnack
  <2>. QED
    BY <1>3, <2>5, <2>9 DEF Expect
<1>4. CASE m.type = PUBLISH
  <2>1. m \in Publishes
    BY <1>4, ReadyIs
  <2>2. PICK x : x = PublishAt(m, <<>>, 0, <<>>)
    OBVIOUS
  <2>3. o = NewObject(x, "HDR_VAR", n) /\ x.type = m.type
    BY <1>1, <1>4, <2>2, TypesAre DEF Created, TypeNames, PublishAt
  <2>4. m.type \notin Bodyless
    BY <1>4, TypesAre DEF TypeNames
  <2>5. /\ IsObject(o) /\ o.m = x /\ o.m.type = m.type /\ o.st = "HDR_VAR" /\ o.body = n
        /\ o.buf = <<>> /\ o.acc = <<>> /\ o.done = FALSE
    <3>1. Begun(o, x, "HDR_VAR", n) /\ o.done = FALSE
      BY <2>3, <2>4, NewIs, Zenon
    <3>. QED
      BY <2>3, <3>1 DEF Begun
  <2>6. AwaitsPublish(o, m, Body(m))
    BY <1>1, <2>2, <2>5 DEF AwaitsPublish
  <2>. QED
    BY <1>4, <2>5, <2>6 DEF Expect
<1>5. CASE m.type \in Acks
  <2>1. m \in AckMessages
    BY <1>5, ReadyIs
  <2>2. m.type \notin {CONNECT, CONNACK, PUBLISH, SUBSCRIBE, UNSUBSCRIBE, SUBACK}
    BY <1>5, OtherTypes
  <2>3. m.type \notin Bodyless
    BY <1>5, TypesAre DEF TypeNames
  <2>4. PICK x : x = [type |-> m.type, flags |-> m.flags, pkt |-> 0]
    OBVIOUS
  <2>5. o = NewObject(x, "HDR_VAR", n) /\ x.type = m.type
    <3>2. m.type = PUBREL => m.flags = 2
      BY <2>1 DEF AckMessages
    <3>3. (IF m.type = PUBREL THEN [[type |-> m.type, flags |-> m.flags, pkt |-> 0] EXCEPT !.flags = 2]
             ELSE [type |-> m.type, flags |-> m.flags, pkt |-> 0]) = x
      BY <2>4, <3>2
    <3>4. Created(m.type, m.flags, n) = NewObject(
            IF m.type = PUBREL THEN [[type |-> m.type, flags |-> m.flags, pkt |-> 0] EXCEPT !.flags = 2]
            ELSE [type |-> m.type, flags |-> m.flags, pkt |-> 0], "HDR_VAR", n)
      BY <1>5, <2>2, <2>3 DEF Created
    <3>. QED
      BY <1>1, <2>4, <3>3, <3>4
  <2>6. IsObject(o) /\ o.m = x /\ o.m.type = m.type /\ o.buf = <<>> /\ o.done = FALSE
    <3>1. Begun(o, x, "HDR_VAR", n) /\ o.done = FALSE
      BY <2>5, <2>3, NewIs, Zenon
    <3>. QED
      BY <2>5, <3>1 DEF Begun
  <2>7. x = [m EXCEPT !.pkt = 0]
    <3>1. m = [type |-> m.type, flags |-> m.flags, pkt |-> m.pkt]
      BY <2>1 DEF AckMessages
    <3>. QED
      BY <2>4, <3>1
  <2>8. PICK f \in Streams, e \in Streams : f = Short(m.pkt) /\ e = <<>> /\ Body(m) = f
    <3>1. m.pkt \in Words
      BY <2>1 DEF AckMessages
    <3>2. Short(m.pkt) \in Streams
      BY <3>1, WordIs
    <3>3. Body(m) = Short(m.pkt)
      BY <1>5, <2>2, <2>3 DEF Body
    <3>. QED
      BY <3>2, <3>3, NothingIs, Zenon
  <2>9. Filling(o, f, f, e)
    <3>1. Filling(o, f, Then(f, e), e)
      BY <2>6, Anew
    <3>. QED
      BY <2>8, <3>1, ThenNothing
  <2>10. AwaitsAck(o, m, Body(m))
    BY <2>6, <2>7, <2>8, <2>9 DEF AwaitsAck
  <2>. QED
    BY <1>5, <2>6, <2>10 DEF Expect
<1>6. CASE m.type = SUBSCRIBE
  <2>1. SubscribeOK(m)
    BY <1>6, ReadyIs
  <2>2. PICK x : x = [type |-> SUBSCRIBE, flags |-> 0, pkt |-> 0, topics |-> <<>>, qoses |-> <<>>]
    OBVIOUS
  <2>3. o = NewObject(x, "HDR_VAR", n) /\ x.type = m.type
    BY <1>1, <1>6, <2>2, TypesAre DEF Created, TypeNames
  <2>4. m.type \notin Bodyless
    BY <1>6, TypesAre DEF TypeNames
  <2>5. /\ IsObject(o) /\ o.m = x /\ o.m.type = m.type /\ o.st = "HDR_VAR" /\ o.body = n
        /\ o.buf = <<>> /\ o.acc = <<>> /\ o.nread = 0 /\ o.done = FALSE
    <3>1. Begun(o, x, "HDR_VAR", n) /\ o.done = FALSE
      BY <2>3, <2>4, NewIs, Zenon
    <3>. QED
      BY <2>3, <3>1 DEF Begun
  <2>6. PICK f \in Streams, a \in Streams :
          f = Short(m.pkt) /\ a = SubscribeEntries(m) /\ Body(m) = Then(f, a)
    <3>1. /\ m.pkt \in Words /\ SubscribeEntries(m) \in Streams
          /\ Body(m) = Then(Short(m.pkt), SubscribeEntries(m))
      BY <2>1, SubscribeFacts
    <3>. QED
      BY <3>1, WordIs
  <2>7. Filling(o, f, Body(m), a)
    BY <2>5, <2>6, Anew
  <2>8. o.nread \in Int /\ o.nread + Len(Body(m)) = o.body
    BY <1>1, <2>5
  <2>9. AwaitsSubscribe(o, m, Body(m))
    BY <1>1, <2>2, <2>5, <2>6, <2>7, <2>8 DEF AwaitsSubscribe
  <2>. QED
    BY <1>6, <2>5, <2>9 DEF Expect
<1>7. CASE m.type = UNSUBSCRIBE
  <2>1. UnsubscribeOK(m)
    BY <1>7, ReadyIs
  <2>2. PICK x : x = UnsubscribeAt(m, 0, <<>>)
    OBVIOUS
  <2>3. o = NewObject(x, "HDR_VAR", n) /\ x.type = m.type
    BY <1>1, <1>7, <2>2, TypesAre DEF Created, TypeNames, UnsubscribeAt
  <2>4. m.type \notin Bodyless
    BY <1>7, TypesAre DEF TypeNames
  <2>5. /\ IsObject(o) /\ o.m = x /\ o.m.type = m.type /\ o.st = "HDR_VAR" /\ o.body = n
        /\ o.buf = <<>> /\ o.acc = <<>> /\ o.nread = 0 /\ o.done = FALSE
    <3>1. Begun(o, x, "HDR_VAR", n) /\ o.done = FALSE
      BY <2>3, <2>4, NewIs, Zenon
    <3>. QED
      BY <2>3, <3>1 DEF Begun
  <2>6. PICK f \in Streams, a \in Streams :
          f = Short(m.pkt) /\ a = UnsubscribeEntries(m) /\ Body(m) = Then(f, a)
    <3>1. /\ m.pkt \in Words /\ UnsubscribeEntries(m) \in Streams
          /\ Body(m) = Then(Short(m.pkt), UnsubscribeEntries(m))
      BY <2>1, UnsubscribeFacts
    <3>. QED
      BY <3>1, WordIs
  <2>7. Filling(o, f, Body(m), a)
    BY <2>5, <2>6, Anew
  <2>8. o.nread \in Int /\ o.nread + Len(Body(m)) = o.body
    BY <1>1, <2>5
  <2>9. AwaitsUnsubscribe(o, m, Body(m))
    BY <1>1, <2>2, <2>5, <2>6, <2>7, <2>8 DEF AwaitsUnsubscribe, UnsubscribeAt
  <2>. QED
    BY <1>7, <2>5, <2>9 DEF Expect
<1>8. CASE m.type = SUBACK
  <2>1. SubackOK(m)
    BY <1>8, ReadyIs
  <2>2. PICK x : x = SubackAt(0, <<>>)
    OBVIOUS
  <2>3. o = NewObject(x, "HDR_VAR", n) /\ x.type = m.type
    BY <1>1, <1>8, <2>2, TypesAre DEF Created, TypeNames, SubackAt
  <2>4. m.type \notin Bodyless
    BY <1>8, TypesAre DEF TypeNames
  <2>5. /\ IsObject(o) /\ o.m = x /\ o.m.type = m.type /\ o.st = "HDR_VAR" /\ o.body = n
        /\ o.buf = <<>> /\ o.acc = <<>> /\ o.nread = 0 /\ o.done = FALSE
    <3>1. Begun(o, x, "HDR_VAR", n) /\ o.done = FALSE
      BY <2>3, <2>4, NewIs, Zenon
    <3>. QED
      BY <2>3, <3>1 DEF Begun
  <2>6. PICK f \in Streams, a \in Streams :
          f = Short(m.pkt) /\ a = m.qoses /\ Body(m) = Then(f, a)
    <3>1. m.pkt \in Words /\ m.qoses \in Streams /\ Body(m) = Then(Short(m.pkt), m.qoses)
      BY <2>1, SubackFacts
    <3>. QED
      BY <3>1, WordIs
  <2>7. Filling(o, f, Body(m), a)
    BY <2>5, <2>6, Anew
  <2>8. o.nread \in Int /\ o.nread + Len(Body(m)) = o.body
    BY <1>1, <2>5
  <2>9. AwaitsSuback(o, m, Body(m))
    BY <1>1, <2>2, <2>5, <2>6, <2>7, <2>8 DEF AwaitsSuback, SubackAt
  <2>. QED
    BY <1>8, <2>5, <2>9 DEF Expect
<1>9. CASE m.type \in Bodyless
  <2>1. m \in Signals
    BY <1>9, ReadyIs
  <2>2. PICK x : x = [type |-> m.type, flags |-> m.flags]
    OBVIOUS
  <2>3. m.type \notin {CONNECT, CONNACK, PUBLISH, SUBSCRIBE, UNSUBSCRIBE, SUBACK}
    BY <1>9, OtherTypes
  <2>4. m.type \notin Acks
    BY <1>9, TypesAre DEF TypeNames
  <2>5. o = NewObject(x, "NONE", n) /\ x.type = m.type
    BY <1>1, <1>9, <2>2, <2>3, <2>4 DEF Created
  <2>6. IsObject(o) /\ o.m = x /\ o.m.type = m.type /\ o.done = TRUE
    <3>1. Begun(o, x, "NONE", n) /\ o.done = TRUE
      BY <1>9, <2>5, NewIs, Zenon
    <3>. QED
      BY <2>5, <3>1 DEF Begun
  <2>7. Body(m) = <<>>
    BY <1>9, <2>3, <2>4 DEF Body
  <2>8. Same(Seen(m), o.m)
    <3>1. Seen(m) = m /\ Same(m, m)
      BY <2>3, SeenIs, SameIs
    <3>2. m = x
      BY <2>1, <2>2 DEF Signals
    <3>. QED
      BY <2>6, <3>1, <3>2
  <2>. QED
    BY <2>6, <2>7, <2>8 DEF Expect
<1>. QED
  BY <1>2, <1>3, <1>4, <1>5, <1>6, <1>7, <1>8, <1>9, ReadyIs

-----------------------------------------------------------------------------
(***************************************************************************)
(* What is on its way: the wires of the messages sent, one after the other.*)
(***************************************************************************)
\* w is a header of type, flags and length.
Heads(w, t, f, n) ==
    \E k \in 1..4 : n < LenPow[k] /\ w = <<16 * t + f>> \o LenBytes(n, k)

\* build_header makes one.
LEMMA HeaderHeads ==
    ASSUME NEW t, NEW f, NEW n \in Nat, n < LenPow[4]
    PROVE  Heads(Header(t, f, n), t, f, n)
BY HeaderIs DEF Heads

\* z is q with x behind it.
Lengthens(q, x, z) ==
    Len(z) = Len(q) + 1 /\ z[Len(q) + 1] = x /\ \A j \in 1..Len(q) : z[j] = q[j]

\* Append does so.
LEMMA AppendLengthens ==
    ASSUME NEW S, NEW q \in Seq(S), NEW x \in S
    PROVE  Lengthens(q, x, Append(q, x)) /\ Append(q, x) \in Seq(S) /\ Len(q) \in Nat
<1>1. Len(q) \in Nat /\ Append(q, x) \in Seq(S) /\ Len(Append(q, x)) = Len(q) + 1
  OBVIOUS
<1>2. Append(q, x)[Len(q) + 1] = x
  OBVIOUS
<1>3. \A j \in 1..Len(q) : Append(q, x)[j] = q[j]
  OBVIOUS
<1>. QED
  BY <1>1, <1>2, <1>3, Zenon DEF Lengthens

\* A message on the wire is its header and its body.
LEMMA WireIs ==
    ASSUME NEW m, Ready(m)
    PROVE  /\ Wire(m) \in Streams
           /\ \E h \in Nat, k \in 1..4 :
                 /\ h = 16 * m.type + m.flags /\ m.flags \in 0..15 /\ m.type \in 1..14
                 /\ Size(m) \in Nat /\ Size(m) < LenPow[k]
                 /\ Wire(m) = Then(<<h>>, Then(LenBytes(Size(m), k), Body(m)))
<1>1. m.flags \in 0..15 /\ m.type \in 1..14 /\ Body(m) \in Streams
  BY ClassIs DEF Ready
<1>2. PICK n \in Nat : n = Size(m) /\ n < LenPow[4]
  BY DEF Ready
<1>3. PICK k \in 1..4 : n < LenPow[k] /\ Header(m.type, m.flags, n) = <<16 * m.type + m.flags>> \o LenBytes(n, k)
  <2>1. Heads(Header(m.type, m.flags, n), m.type, m.flags, n)
    BY <1>2, HeaderHeads
  <2>. QED
    BY <2>1 DEF Heads
<1>4. PICK h \in Nat : h = 16 * m.type + m.flags
  BY <1>1
<1>5. PICK b \in Streams : b = <<h>>
  <2>1. <<h>> \in Seq(Nat)
    OBVIOUS
  <2>. QED
    BY <2>1, Zenon DEF Streams
<1>6. PICK z \in Streams : z = LenBytes(n, k)
  BY LenBytesAre
<1>7. PICK y \in Streams : y = Body(m)
  BY <1>1
<1>8. Wire(m) = Then(Then(b, z), y)
  <2>1. Header(m.type, m.flags, Size(m)) = Then(b, z)
    BY <1>2, <1>3, <1>4, <1>5, <1>6 DEF Then
  <2>. QED
    BY <1>7, <2>1 DEF Wire
<1>9. Then(Then(b, z), y) = Then(b, Then(z, y)) /\ Then(b, Then(z, y)) \in Streams
  <2>1. Then(Then(b, z), y) = Then(b, Then(z, y))
    BY ThenJoins
  <2>2. Then(z, y) \in Streams
    BY ThenIs
  <2>. QED
    BY <2>1, <2>2, ThenIs
<1>10. Wire(m) = Then(<<h>>, Then(LenBytes(Size(m), k), Body(m)))
  BY <1>2, <1>5, <1>6, <1>7, <1>8, <1>9, Zenon
<1>. QED
  BY <1>1, <1>2, <1>3, <1>4, <1>8, <1>9, <1>10, Zenon

\* l is what follows the k-th message of S: the wires of the others.
Tailed(L, k, S) ==
    /\ \A j \in k..Len(S) : L[j] \in Streams
    /\ \A j \in (k + 1)..Len(S) : L[j - 1] = Then(Wire(S[j]), L[j])
    /\ L[Len(S)] = <<>>

\* l is what follows the k-th message.
Tails(l, k, S) == \E L : Tailed(L, k, S) /\ L[k] = l

\* What follows a message begins with the wire of the next.
LEMMA TailNext ==
    ASSUME NEW S, NEW k \in Nat, Len(S) \in Nat, k < Len(S), NEW l, Tails(l, k, S)
    PROVE  \E z \in Streams : l = Then(Wire(S[k + 1]), z) /\ Tails(z, k + 1, S)
<1>1. PICK L : Tailed(L, k, S) /\ L[k] = l
  BY DEF Tails
<1>2. PICK j : j = k + 1 /\ j \in Nat /\ j - 1 = k /\ j \in k..Len(S) /\ j \in (k + 1)..Len(S)
  OBVIOUS
<1>3. \A i \in j..Len(S) : i \in k..Len(S)
  BY <1>2
<1>4. \A i \in (j + 1)..Len(S) : i \in (k + 1)..Len(S)
  BY <1>2
<1>5. Tailed(L, j, S)
  BY <1>1, <1>3, <1>4, Zenon DEF Tailed
<1>6. L[j] \in Streams /\ L[j - 1] = Then(Wire(S[j]), L[j])
  BY <1>1, <1>2, Zenon DEF Tailed
<1>7. Tails(L[j], j, S)
  BY <1>5, Zenon DEF Tails
<1>. QED
  BY <1>1, <1>2, <1>6, <1>7

\* Nothing follows the last.
LEMMA TailEnd ==
    ASSUME NEW S, NEW l
    PROVE  Tails(l, Len(S), S) => l = <<>>
BY Zenon DEF Tails, Tailed

\* So it is with nothing behind the last.
LEMMA NoTail ==
    ASSUME NEW S, Len(S) \in Nat
    PROVE  Tails(<<>>, Len(S), S)
<1>1. PICK n \in Nat : n = Len(S)
  OBVIOUS
<1>2. PICK L : L = [j \in Nat |-> <<>>]
  OBVIOUS
<1>3. \A j \in n..n : L[j] \in Streams
  <2>1. \A j \in n..n : j \in Nat
    OBVIOUS
  <2>. QED
    BY <1>2, <2>1, NothingIs, Zenon
<1>4. L[n] = <<>>
  BY <1>2, Zenon
<1>5. \A j \in (n + 1)..n : FALSE
  OBVIOUS
<1>6. Tailed(L, n, S)
  BY <1>1, <1>3, <1>4, <1>5, Zenon DEF Tailed
<1>. QED
  BY <1>1, <1>4, <1>6, Zenon DEF Tails

\* One more is sent: its wire is behind all that follows.
LEMMA TailGrows ==
    ASSUME NEW S \in Seq(Objects), \A j \in 1..Len(S) : Ready(S[j]), NEW m \in Objects, Ready(m),
           NEW k \in Nat, k <= Len(S), NEW l, Tails(l, k, S)
    PROVE  /\ l \in Streams
           /\ Tails(Then(l, Wire(m)), k, Append(S, m))
<1>1. PICK L : Tailed(L, k, S) /\ L[k] = l
  BY DEF Tails
<1>2. PICK n \in Nat : n = Len(S) /\ k <= n /\ k \in k..n
  OBVIOUS
<1>3. PICK T : T = Append(S, m) /\ Len(T) = n + 1 /\ T[n + 1] = m /\ \A j \in 1..n : T[j] = S[j]
  <2>1. /\ Len(Append(S, m)) = Len(S) + 1 /\ Append(S, m)[Len(S) + 1] = m
        /\ \A j \in 1..Len(S) : Append(S, m)[j] = S[j]
    <3>1. Lengthens(S, m, Append(S, m))
      BY AppendLengthens
    <3>. QED
      BY <3>1 DEF Lengthens
  <2>. QED
    BY <1>2, <2>1, Zenon
<1>4. PICK w \in Streams : w = Wire(m)
  BY WireIs
<1>5. PICK M : M = [j \in k..(n + 1) |-> IF j = n + 1 THEN <<>> ELSE Then(L[j], w)]
  OBVIOUS
<1>6. \A j \in k..n : j \in k..(n + 1) /\ j # n + 1
  OBVIOUS
<1>7. n + 1 \in k..(n + 1)
  BY <1>2
<1>8. M[n + 1] = <<>>
  BY <1>5, <1>7, Zenon
<1>9. \A j \in k..n : M[j] = Then(L[j], w)
  BY <1>5, <1>6, Zenon
<1>10. /\ \A j \in k..n : L[j] \in Streams
       /\ \A j \in (k + 1)..n : L[j - 1] = Then(Wire(S[j]), L[j])
       /\ L[n] = <<>>
  BY <1>1, <1>2, Zenon DEF Tailed
<1>11. \A j \in k..(n + 1) : M[j] \in Streams
  <2>1. TAKE j \in k..(n + 1)
  <2>2. CASE j = n + 1
    BY <1>8, <2>2, NothingIs
  <2>3. CASE j # n + 1
    <3>1. j \in k..n
      BY <2>3
    <3>2. L[j] \in Streams /\ M[j] = Then(L[j], w)
      BY <1>9, <1>10, <3>1, Zenon
    <3>. QED
      BY <3>2, ThenIs
  <2>. QED
    BY <2>2, <2>3
<1>12. \A j \in (k + 1)..(n + 1) : M[j - 1] = Then(Wire(T[j]), M[j])
  <2>1. TAKE j \in (k + 1)..(n + 1)
  <2>2. CASE j = n + 1
    <3>1. j - 1 = n /\ n \in k..n
      BY <1>2, <2>2
    <3>2. M[n] = Then(L[n], w)
      BY <1>9, <3>1, Zenon
    <3>3. Then(<<>>, w) = w /\ Then(w, <<>>) = w
      BY ThenNothing
    <3>. QED
      BY <1>3, <1>4, <1>8, <1>10, <2>2, <3>1, <3>2, <3>3, Zenon
  <2>3. CASE j # n + 1
    <3>1. j \in (k + 1)..n /\ j \in k..n /\ j - 1 \in k..n /\ j \in 1..n
      BY <1>2, <2>3
    <3>2. Ready(S[j])
      BY <1>2, <3>1
    <3>3. PICK x \in Streams, y \in Streams : x = Wire(S[j]) /\ y = L[j]
      BY <1>10, <3>1, <3>2, WireIs
    <3>4. Then(Then(x, y), w) = Then(x, Then(y, w))
      BY ThenJoins
    <3>5. M[j - 1] = Then(L[j - 1], w) /\ L[j - 1] = Then(x, y) /\ M[j] = Then(y, w)
      BY <1>9, <1>10, <3>1, <3>3, Zenon
    <3>. QED
      BY <1>3, <3>1, <3>3, <3>4, <3>5, Zenon
  <2>. QED
    BY <2>2, <2>3
<1>13. Tailed(M, k, T)
  BY <1>3, <1>8, <1>11, <1>12, Zenon DEF Tailed
<1>14. M[k] = Then(l, Wire(m)) /\ l \in Streams
  BY <1>1, <1>2, <1>4, <1>9, <1>10, Zenon
<1>. QED
  BY <1>3, <1>13, <1>14, Zenon DEF Tails

-----------------------------------------------------------------------------
(***************************************************************************)
(* The steps of the parser on a sound message.                             *)
(***************************************************************************)
\* A record like header_.
IsHeader(h) ==
    h = [st |-> h.st, type |-> h.type, flags |-> h.flags, len |-> h.len, buf |-> h.buf,
         fin |-> h.fin]

\* The header awaits its first byte.
AtType(h, o, m, r) == h = NoHeader /\ o = NoMessage /\ r = Wire(m)

\* The header has read some digits of the length.
AtLen(h, o, m, r) ==
    /\ IsHeader(h) /\ h.st = "LEN" /\ h.fin = FALSE /\ o = NoMessage
    /\ h.type = m.type /\ h.flags = m.flags /\ h.buf \in Streams
    /\ \E k \in 1..4 : /\ Size(m) < LenPow[k] /\ Len(h.buf) < k
                       /\ Then(h.buf, r) = Then(LenBytes(Size(m), k), Body(m))

\* The header is read, no object is made.
AtBody(h, o, m, r) ==
    /\ h.fin = TRUE /\ o = NoMessage
    /\ h.type = m.type /\ h.flags = m.flags /\ h.len = Size(m) /\ r = Body(m)

\* The object is being read.
InBody(h, o, m, r) == h.fin = TRUE /\ o # NoMessage /\ Expect(o, m, r)

\* r is what header and object still await of message m.
Awaited(h, o, m, r) ==
    AtType(h, o, m, r) \/ AtLen(h, o, m, r) \/ AtBody(h, o, m, r) \/ InBody(h, o, m, r)

\* A step that gets on with m, of which l is what follows.
GoesOn(m, l) ==
    /\ UNCHANGED <<objs, sent, stream, delivered, closed>>
    /\ data' \in Streams
    /\ \E q \in Streams : Then(data', stream) = Then(q, l) /\ Awaited(hdr', obj', m, q)

\* An object is not NoMessage.
LEMMA ObjectIs ==
    ASSUME NEW p, IsObject(p)
    PROVE  p # NoMessage
<1>1. "st" \in DOMAIN p
  BY DEF IsObject
<1>2. "st" \notin DOMAIN NoMessage
  BY DEF NoMessage
<1>. QED
  BY <1>1, <1>2, Zenon

\* Byte h holds type t and flags f.
Holds(h, t, f) ==
    (h % 256) \div 16 = t /\ h % 16 = f /\ t \in CONNECT..DISCONNECT

\* The first byte of a header holds its type and flags.
LEMMA HeaderByte ==
    ASSUME NEW t \in 1..14, NEW f \in 0..15, NEW h, h = 16 * t + f
    PROVE  Holds(h, t, f)
<1>1. h \in 0..255
  OBVIOUS
<1>2. h % 256 = h
  BY <1>1
<1>3. h \div 16 = t /\ h % 16 = f
  OBVIOUS
<1>4. t \in CONNECT..DISCONNECT
  BY DEF CONNECT, DISCONNECT
<1>. QED
  BY <1>2, <1>3, <1>4 DEF Holds

\* update_header_type gets on.
LEMMA TypeGoesOn ==
    ASSUME NEW m, Ready(m), Sound(m), NEW r \in Streams, NEW l \in Streams,
           data \in Streams, stream \in Streams, Then(data, stream) = Then(r, l),
           Awaited(hdr, obj, m, r), HeaderType
    PROVE  GoesOn(m, l)
<1>1. data # <<>> /\ ~hdr.fin /\ hdr.st = "TYPE"
  BY DEF HeaderType
<1>2. hdr = NoHeader /\ obj = NoMessage /\ r = Wire(m)
  BY <1>1 DEF Awaited, AtType, AtLen, AtBody, InBody
<1>3. PICK h \in Nat, k \in 1..4 :
        /\ h = 16 * m.type + m.flags /\ m.flags \in 0..15 /\ m.type \in 1..14
        /\ Size(m) \in Nat /\ Size(m) < LenPow[k]
        /\ Wire(m) = Then(<<h>>, Then(LenBytes(Size(m), k), Body(m)))
  BY WireIs
<1>4. PICK c \in Streams : c = Then(LenBytes(Size(m), k), Body(m))
  <2>1. LenBytes(Size(m), k) \in Streams
    BY <1>3, LenBytesAre
  <2>2. Body(m) \in Streams
    BY DEF Ready
  <2>. QED
    BY <2>1, <2>2, ThenIs
<1>5. Head(data) = h /\ Tail(data) \in Streams /\ Then(Tail(data), stream) = Then(c, l)
  <2>1. Then(data, stream) = Then(Then(<<h>>, c), l)
    BY <1>2, <1>3, <1>4
  <2>. QED
    BY <1>1, <2>1, ByteRead
<1>6. /\ (Head(data) % 256) \div 16 = m.type /\ Head(data) % 16 = m.flags
      /\ m.type \in CONNECT..DISCONNECT
  <2>1. Holds(h, m.type, m.flags)
    BY <1>3, HeaderByte
  <2>. QED
    BY <1>5, <2>1 DEF Holds
<1>7. /\ hdr' = [hdr EXCEPT !.type = m.type, !.flags = m.flags, !.st = "LEN", !.buf = <<>>]
      /\ data' = Tail(data)
      /\ UNCHANGED <<sendVars, stream, obj, delivered, closed>>
  BY <1>6 DEF HeaderType
<1>8. /\ hdr' = [st |-> "LEN", type |-> m.type, flags |-> m.flags, len |-> 0, buf |-> <<>>,
                 fin |-> FALSE]
  BY <1>2, <1>7 DEF NoHeader
<1>9. /\ IsHeader(hdr') /\ hdr'.st = "LEN" /\ hdr'.fin = FALSE /\ obj' = NoMessage
      /\ hdr'.type = m.type /\ hdr'.flags = m.flags /\ hdr'.buf = <<>>
  <2>1. PICK e : e = hdr'
    OBVIOUS
  <2>2. e = [st |-> "LEN", type |-> m.type, flags |-> m.flags, len |-> 0, buf |-> <<>>,
             fin |-> FALSE]
    BY <1>8, <2>1
  <2>3. /\ IsHeader(e) /\ e.st = "LEN" /\ e.fin = FALSE
        /\ e.type = m.type /\ e.flags = m.flags /\ e.buf = <<>>
    BY <2>2 DEF IsHeader
  <2>4. obj' = NoMessage
    BY <1>2, <1>7
  <2>. QED
    BY <2>1, <2>3, <2>4
<1>10. AtLen(hdr', obj', m, c)
  <2>1. <<>> \in Streams /\ Len(<<>>) < k /\ Then(<<>>, c) = c
    BY ThenNothing
  <2>2. hdr'.buf \in Streams /\ Len(hdr'.buf) < k /\ Then(hdr'.buf, c) = c
    BY <1>9, <2>1
  <2>. QED
    BY <1>3, <1>4, <1>9, <2>2 DEF AtLen
<1>. QED
  BY <1>5, <1>7, <1>10 DEF GoesOn, Awaited, sendVars

\* update_header_len gets on.
LEMMA LenGoesOn ==
    ASSUME NEW m, Ready(m), Sound(m), NEW r \in Streams, NEW l \in Streams,
           data \in Streams, stream \in Streams, Then(data, stream) = Then(r, l),
           Awaited(hdr, obj, m, r), HeaderLen
    PROVE  GoesOn(m, l)
<1>1. data # <<>> /\ ~hdr.fin /\ hdr.st = "LEN"
  BY DEF HeaderLen
<1>2. AtLen(hdr, obj, m, r)
  BY <1>1 DEF Awaited, AtType, AtBody, InBody, NoHeader
<1>3. PICK k \in 1..4 : /\ Size(m) < LenPow[k] /\ Len(hdr.buf) < k
                        /\ Then(hdr.buf, r) = Then(LenBytes(Size(m), k), Body(m))
  BY <1>2 DEF AtLen
<1>4. PICK n \in Nat, z \in Streams, y \in Streams, u \in Streams :
        /\ n = Size(m) /\ z = LenBytes(n, k) /\ y = Body(m) /\ u = hdr.buf
  <2>1. Size(m) \in Nat /\ Body(m) \in Streams
    BY DEF Ready
  <2>2. LenBytes(Size(m), k) \in Streams
    BY <2>1, LenBytesAre
  <2>. QED
    BY <1>2, <2>1, <2>2 DEF AtLen
<1>5. /\ Len(z) = k /\ \A i \in 1..k : z[i] < LenBase <=> i = k
  BY <1>4, LenBytesAre
<1>6. Then(u, r) = Then(z, y) /\ Len(u) < k /\ Len(u) \in Nat
  BY <1>3, <1>4, LenIs
<1>7. r # <<>>
  <2>1. Len(Then(u, r)) = Len(u) + Len(r) /\ Len(Then(z, y)) = Len(z) + Len(y) /\ Len(y) \in Nat
    BY ThenLen, LenIs
  <2>2. Len(r) # 0
    BY <1>5, <1>6, <2>1
  <2>. QED
    BY <2>2, NothingIs
<1>8. PICK b \in Nat, q \in Streams, v \in Streams :
        /\ b = Head(data) /\ v = Tail(data) /\ r = Then(<<b>>, q) /\ Then(v, stream) = Then(q, l)
  <2>1. /\ Head(data) \in Nat /\ Tail(data) \in Streams
        /\ \E x \in Streams : /\ r = Then(<<Head(data)>>, x) /\ Then(Tail(data), stream) = Then(x, l)
                              /\ Len(x) = Len(r) - 1
    BY <1>1, <1>7, HeadIs
  <2>. QED
    BY <2>1, Zenon
<1>9. PICK a \in Streams, j \in 1..k :
        /\ a = Append(u, b) /\ Then(a, q) = Then(z, y) /\ j = Len(u) + 1 /\ Len(a) = j
        /\ Then(z, y)[j] = b
  <2>1. Grows(u, b, q)
    BY OneMore
  <2>2. Then(u, Then(<<b>>, q)) = Then(z, y)
    BY <1>6, <1>8
  <2>3. /\ Append(u, b) \in Streams /\ Then(Append(u, b), q) = Then(z, y)
        /\ Then(z, y)[Len(u) + 1] = b
    BY <2>1, <2>2 DEF Grows
  <2>4. Len(Append(u, b)) = Len(u) + 1
    <3>1. u \in Seq(Nat)
      BY Zenon DEF Streams
    <3>. QED
      BY <3>1
  <2>5. Len(u) + 1 \in 1..k
    BY <1>6
  <2>. QED
    BY <2>3, <2>4, <2>5, Zenon
<1>10. b = z[j]
  <2>1. z \in Seq(Nat) /\ y \in Seq(Nat)
    BY Zenon DEF Streams
  <2>2. \A i \in 1..Len(z) : (z \o y)[i] = z[i]
    BY <2>1, JoinIs, Zenon
  <2>3. (z \o y)[j] = z[j]
    BY <1>5, <2>2
  <2>. QED
    BY <1>9, <2>3 DEF Then
<1>11. b < LenBase <=> j = k
  BY <1>5, <1>10
<1>12. /\ Append(hdr.buf, Head(data)) = a
  BY <1>4, <1>8, <1>9
<1>13. ~(Len(Append(hdr.buf, Head(data))) = 4 /\ ~(Head(data) < LenBase))
  <2>1. Len(a) = 4 => j = k
    BY <1>9
  <2>. QED
    BY <1>8, <1>11, <1>12, <2>1
<1>14. /\ hdr' = [hdr EXCEPT !.buf = a, !.fin = (Head(data) < LenBase),
                             !.len = IF Head(data) < LenBase THEN Digits(a) ELSE @]
       /\ data' = v
       /\ UNCHANGED <<sendVars, stream, obj, delivered, closed>>
  BY <1>8, <1>12, <1>13 DEF HeaderLen
<1>15. IsHeader(hdr) /\ hdr.type = m.type /\ hdr.flags = m.flags /\ obj = NoMessage
  BY <1>2 DEF AtLen
<1>16. CASE j = k
  <2>1. (Head(data) < LenBase) = TRUE
    BY <1>8, <1>11, <1>16
  <2>2. a = z /\ q = y
    BY <1>5, <1>9, <1>16, ThenCancels
  <2>3. Digits(a) = n
    BY <1>3, <1>4, <2>2, DigitsBack
  <2>4. hdr' = [hdr EXCEPT !.buf = a, !.fin = TRUE, !.len = n]
    BY <1>14, <2>1, <2>3
  <2>5. hdr'.fin = TRUE /\ hdr'.len = n /\ hdr'.type = m.type /\ hdr'.flags = m.flags
    BY <1>15, <2>4 DEF IsHeader
  <2>6. AtBody(hdr', obj', m, q)
    BY <1>4, <1>14, <1>15, <2>2, <2>5 DEF AtBody
  <2>. QED
    BY <1>8, <1>14, <2>6 DEF GoesOn, Awaited, sendVars
<1>17. CASE j # k
  <2>1. (Head(data) < LenBase) = FALSE
    BY <1>8, <1>11, <1>17
  <2>2. hdr' = [hdr EXCEPT !.buf = a, !.fin = FALSE]
    <3>1. hdr' = [hdr EXCEPT !.buf = a, !.fin = FALSE, !.len = hdr.len]
      BY <1>14, <2>1
    <3>. QED
      BY <1>15, <3>1 DEF IsHeader
  <2>3. /\ hdr'.fin = FALSE /\ hdr'.st = "LEN" /\ hdr'.type = m.type /\ hdr'.flags = m.flags
        /\ hdr'.buf = a /\ IsHeader(hdr')
    BY <1>1, <1>15, <2>2 DEF IsHeader
  <2>4. Len(a) < k
    BY <1>9, <1>17
  <2>5. AtLen(hdr', obj', m, q)
    BY <1>3, <1>4, <1>9, <1>14, <1>15, <2>3, <2>4 DEF AtLen
  <2>. QED
    BY <1>8, <1>14, <2>5 DEF GoesOn, Awaited, sendVars
<1>. QED
  BY <1>16, <1>17

\* create_message gets on.
LEMMA CreateGoesOn ==
    ASSUME NEW m, Ready(m), Sound(m), NEW r \in Streams, NEW l \in Streams,
           data \in Streams, stream \in Streams, Then(data, stream) = Then(r, l),
           Awaited(hdr, obj, m, r), Create
    PROVE  GoesOn(m, l)
<1>1. hdr.fin /\ obj = NoMessage
  BY DEF Create
<1>2. AtBody(hdr, obj, m, r)
  BY <1>1 DEF Awaited, AtType, AtLen, InBody, NoHeader
<1>3. /\ obj' = Created(hdr.type, hdr.flags, hdr.len)
      /\ UNCHANGED <<sendVars, stream, data, hdr, delivered, closed>>
  BY DEF Create
<1>4. obj' = Created(m.type, m.flags, Len(Body(m))) /\ r = Body(m)
  BY <1>2, <1>3, SizeSound DEF AtBody
<1>5. PICK o : o = obj'
  OBVIOUS
<1>6. Expect(o, m, r)
  BY <1>4, <1>5, CreatedIs
<1>7. o # NoMessage
  BY <1>6, ObjectIs DEF Expect
<1>8. InBody(hdr', obj', m, r)
  BY <1>2, <1>3, <1>5, <1>6, <1>7 DEF InBody, AtBody
<1>. QED
  BY <1>3, <1>8 DEF GoesOn, Awaited, sendVars

\* The message's update gets on.
LEMMA UpdateGoesOn ==
    ASSUME NEW m, Ready(m), Sound(m), NEW r \in Streams, NEW l \in Streams,
           data \in Streams, stream \in Streams, Then(data, stream) = Then(r, l),
           Awaited(hdr, obj, m, r), UpdateMessage
    PROVE  GoesOn(m, l)
<1>1. data # <<>> /\ obj # NoMessage /\ ~obj.done
  BY DEF UpdateMessage
<1>2. hdr.fin = TRUE /\ Expect(obj, m, r)
  BY <1>1 DEF Awaited, AtType, AtLen, AtBody, InBody
<1>3. obj.done = FALSE
  BY <1>1, <1>2 DEF Expect
<1>4. PICK g \in Garbage :
        LET x == Update(obj, data, g)
        IN  IF x.err THEN Close("error")
            ELSE /\ obj' = x.p
                 /\ data' = x.d
                 /\ UNCHANGED <<sendVars, stream, hdr, delivered, closed>>
  BY DEF UpdateMessage
<1>5. PICK x : x = Update(obj, data, g)
  OBVIOUS
<1>6. Steps(x, m, stream, l)
  <2>1. Steps(Update(obj, data, g), m, stream, l)
    BY <1>1, <1>2, <1>3, UpdateSteps
  <2>. QED
    BY <1>5, <2>1
<1>7. x.err = FALSE /\ x.d \in Streams
  BY <1>6 DEF Steps
<1>8. PICK q \in Streams : Expect(x.p, m, q) /\ Then(x.d, stream) = Then(q, l)
  BY <1>6 DEF Steps
<1>9. obj' = x.p /\ data' = x.d /\ UNCHANGED <<sendVars, stream, hdr, delivered, closed>>
  BY <1>4, <1>5, <1>7
<1>10. x.p # NoMessage
  BY <1>8, ObjectIs DEF Expect
<1>11. InBody(hdr', obj', m, q)
  BY <1>2, <1>8, <1>9, <1>10 DEF InBody
<1>. QED
  BY <1>7, <1>8, <1>9, <1>11 DEF GoesOn, Awaited, sendVars

-----------------------------------------------------------------------------
(***************************************************************************)
(* Sender and receiver in step: S is what was sent, q what was delivered.  *)
(***************************************************************************)
\* The first n messages of S are got through.
SoundTo(S, n) == \A i \in 1..n : Sound(S[i])

\* q is S as the receiver should see it, up to what is not got through.
Faithful(S, q) ==
    \A n \in DOMAIN q :
        n - 1 <= Len(S) /\ SoundTo(S, n - 1) =>
            /\ n \in DOMAIN S
            /\ Sound(S[n]) => Same(Seen(S[n]), q[n])

\* The bytes d at hand and s on their way are what is awaited of the n-th
\* message and the wires of those behind it.
LinedUp(d, s, h, o, n, S) ==
    /\ d \in Streams /\ s \in Streams
    /\ \E r \in Streams, l \in Streams :
          Then(d, s) = Then(r, l) /\ Awaited(h, o, S[n], r) /\ Tails(l, n, S)

\* With k delivered, nothing is at hand when all were; otherwise the bytes are
\* lined up with the next message, as long as all were got through.
InStep(d, s, h, o, k, S) ==
    /\ k = Len(S) /\ SoundTo(S, k) => h = NoHeader /\ o = NoMessage /\ d = <<>> /\ s = <<>>
    /\ k < Len(S) /\ SoundTo(S, k + 1) => LinedUp(d, s, h, o, k + 1, S)

\* No more is delivered than was sent.
LEMMA NotAhead ==
    ASSUME NEW S \in Seq(Objects), NEW T, NEW q \in Seq(T), Faithful(S, q),
           NEW n \in Nat, n <= Len(S), SoundTo(S, n)
    PROVE  Len(q) > n => n < Len(S)
<1>1. SUFFICES ASSUME Len(q) > n PROVE n < Len(S)
  OBVIOUS
<1>2. PICK j : j = n + 1 /\ j - 1 = n /\ j \in 1..Len(q)
  <2>1. Len(q) \in Nat
    OBVIOUS
  <2>. QED
    BY <1>1, <2>1
<1>3. j \in DOMAIN q /\ DOMAIN S = 1..Len(S) /\ Len(S) \in Nat
  BY <1>2
<1>4. j - 1 <= Len(S) /\ SoundTo(S, j - 1)
  BY <1>2
<1>5. j \in 1..Len(S)
  BY <1>3, <1>4, Zenon DEF Faithful
<1>. QED
  BY <1>2, <1>3, <1>5

\* One more message is sent.
LEMMA SoundGrows ==
    ASSUME NEW S \in Seq(Objects), NEW m \in Objects, NEW T, T = Append(S, m)
    PROVE  /\ T \in Seq(Objects) /\ Len(T) = Len(S) + 1 /\ Len(S) \in Nat
           /\ \A j \in 1..Len(S) : T[j] = S[j]
           /\ T[Len(S) + 1] = m
           /\ \A n \in Int : n <= Len(S) => (SoundTo(T, n) <=> SoundTo(S, n))
<1>1. Lengthens(S, m, T) /\ T \in Seq(Objects) /\ Len(S) \in Nat
  BY AppendLengthens
<1>2. /\ Len(T) = Len(S) + 1 /\ T[Len(S) + 1] = m
      /\ \A j \in 1..Len(S) : T[j] = S[j]
  BY <1>1 DEF Lengthens
<1>3. ASSUME NEW n \in Int, n <= Len(S)
      PROVE  SoundTo(T, n) <=> SoundTo(S, n)
  <2>1. \A i \in 1..n : i \in 1..Len(S)
    BY <1>1, <1>3
  <2>2. \A i \in 1..n : T[i] = S[i]
    BY <1>2, <2>1, Zenon
  <2>. QED
    BY <2>2, Zenon DEF SoundTo
<1>. QED
  BY <1>1, <1>2, <1>3

\* Fewer are got through when more are.
LEMMA SoundLess ==
    ASSUME NEW S, NEW k \in Int, NEW n \in Int, n <= k, SoundTo(S, k)
    PROVE  SoundTo(S, n)
<1>1. \A i \in 1..n : i \in 1..k
  OBVIOUS
<1>. QED
  BY <1>1, Zenon DEF SoundTo

\* Sending keeps Faithful
LEMMA FaithfulGrows ==
    ASSUME NEW S \in Seq(Objects), NEW U, NEW q \in Seq(U), Faithful(S, q),
           NEW m \in Objects, NEW T, T = Append(S, m)
    PROVE  Faithful(T, q)
<1>1. /\ T \in Seq(Objects) /\ Len(T) = Len(S) + 1 /\ Len(S) \in Nat
      /\ \A j \in 1..Len(S) : T[j] = S[j]
      /\ \A n \in Int : n <= Len(S) => (SoundTo(T, n) <=> SoundTo(S, n))
  BY SoundGrows, Zenon
<1>2. SUFFICES ASSUME NEW n \in DOMAIN q, n - 1 <= Len(T), SoundTo(T, n - 1)
               PROVE  n \in DOMAIN T /\ (Sound(T[n]) => Same(Seen(T[n]), q[n]))
  BY Zenon DEF Faithful
<1>3. PICK j : j = n - 1 /\ n \in 1..Len(q) /\ n \in Int /\ j \in Nat /\ Len(q) \in Nat
  OBVIOUS
<1>4. j <= Len(S)
  <2>1. SUFFICES ASSUME j = Len(S) + 1 PROVE FALSE
    BY <1>1, <1>2, <1>3
  <2>2. SoundTo(S, Len(S))
    <3>1. SoundTo(T, Len(S))
      BY <1>1, <1>2, <1>3, <2>1, SoundLess
    <3>. QED
      BY <1>1, <3>1
  <2>3. Len(q) > Len(S)
    BY <1>1, <1>3, <2>1
  <2>4. Len(S) < Len(S)
    BY <1>1, <2>2, <2>3, NotAhead
  <2>. QED
    BY <1>1, <2>4
<1>5. SoundTo(S, j)
  BY <1>1, <1>2, <1>3, <1>4
<1>6. n \in DOMAIN S /\ (Sound(S[n]) => Same(Seen(S[n]), q[n]))
  BY <1>3, <1>4, <1>5, Zenon DEF Faithful
<1>7. n \in 1..Len(S) /\ n \in 1..Len(T) /\ DOMAIN T = 1..Len(T)
  BY <1>1, <1>6
<1>. QED
  BY <1>1, <1>6, <1>7, Zenon

\* and InStep.
LEMMA InStepGrows ==
    ASSUME NEW S \in Seq(Objects), \A j \in 1..Len(S) : Ready(S[j]),
           NEW U, NEW q \in Seq(U), Faithful(S, q),
           NEW d, NEW s, NEW h, NEW o, InStep(d, s, h, o, Len(q), S),
           NEW m \in Objects, Ready(m), NEW T, T = Append(S, m)
    PROVE  InStep(d, s \o Wire(m), h, o, Len(q), T)
<1>1. /\ T \in Seq(Objects) /\ Len(T) = Len(S) + 1 /\ Len(S) \in Nat
      /\ \A j \in 1..Len(S) : T[j] = S[j]
      /\ T[Len(S) + 1] = m
      /\ \A n \in Int : n <= Len(S) => (SoundTo(T, n) <=> SoundTo(S, n))
  BY SoundGrows, Zenon
<1>2. PICK k \in Nat : k = Len(q)
  OBVIOUS
<1>3. PICK w \in Streams : w = Wire(m)
  BY WireIs
<1>4. ~(k = Len(T) /\ SoundTo(T, k))
  <2>1. SUFFICES ASSUME k = Len(T), SoundTo(T, k) PROVE FALSE
    OBVIOUS
  <2>2. SoundTo(S, Len(S))
    <3>1. SoundTo(T, Len(S))
      BY <1>1, <1>2, <2>1, SoundLess
    <3>. QED
      BY <1>1, <3>1
  <2>3. Len(q) > Len(S)
    BY <1>1, <1>2, <2>1
  <2>4. Len(S) < Len(S)
    BY <1>1, <2>2, <2>3, NotAhead
  <2>. QED
    BY <1>1, <2>4
<1>5. ASSUME k < Len(T), SoundTo(T, k + 1)
      PROVE  LinedUp(d, s \o w, h, o, k + 1, T)
  <2>1. CASE k = Len(S)
    <3>1. SoundTo(S, k)
      <4>1. SoundTo(T, k)
        BY <1>5, SoundLess
      <4>. QED
        BY <1>1, <2>1, <4>1
    <3>2. h = NoHeader /\ o = NoMessage /\ d = <<>> /\ s = <<>>
      BY <1>2, <2>1, <3>1 DEF InStep
    <3>3. s \o w = w /\ d \in Streams /\ Then(d, w) = w /\ Then(w, <<>>) = w
      <4>1. Then(<<>>, w) = w /\ Then(w, <<>>) = w /\ <<>> \in Streams
        BY ThenNothing
      <4>. QED
        BY <3>2, <4>1 DEF Then
    <3>4. T[k + 1] = m
      BY <1>1, <2>1
    <3>5. Awaited(h, o, T[k + 1], w)
      BY <1>3, <3>2, <3>4 DEF Awaited, AtType
    <3>6. Tails(<<>>, k + 1, T)
      <4>1. k + 1 = Len(T) /\ Len(T) \in Nat
        BY <1>1, <2>1
      <4>2. Tails(<<>>, Len(T), T)
        BY <4>1, NoTail, Zenon
      <4>. QED
        BY <4>1, <4>2
    <3>. QED
      BY <3>3, <3>5, <3>6, NothingIs, Zenon DEF LinedUp
  <2>2. CASE k < Len(S)
    <3>1. k + 1 <= Len(S) /\ k + 1 \in Int /\ k + 1 \in Nat /\ k + 1 \in 1..Len(S)
      BY <1>1, <2>2
    <3>2. SoundTo(S, k + 1)
      BY <1>1, <1>5, <3>1
    <3>3. LinedUp(d, s, h, o, k + 1, S)
      BY <1>2, <2>2, <3>2 DEF InStep
    <3>4. d \in Streams /\ s \in Streams
      BY <3>3 DEF LinedUp
    <3>5. PICK r \in Streams, l \in Streams :
            Then(d, s) = Then(r, l) /\ Awaited(h, o, S[k + 1], r) /\ Tails(l, k + 1, S)
      BY <3>3 DEF LinedUp
    <3>6. Tails(Then(l, w), k + 1, T)
      BY <1>3, <3>1, <3>5, TailGrows
    <3>7. Then(d, Then(s, w)) = Then(r, Then(l, w))
      <4>1. Then(Then(d, s), w) = Then(d, Then(s, w))
        BY <3>4, ThenJoins
      <4>2. Then(Then(r, l), w) = Then(r, Then(l, w))
        BY ThenJoins
      <4>. QED
        BY <3>5, <4>1, <4>2, Zenon
    <3>8. s \o w = Then(s, w) /\ Then(s, w) \in Streams /\ Then(l, w) \in Streams
      BY <3>4, ThenIs DEF Then
    <3>9. T[k + 1] = S[k + 1]
      BY <1>1, <3>1
    <3>. QED
      BY <3>4, <3>5, <3>6, <3>7, <3>8, <3>9, Zenon DEF LinedUp
  <2>. QED
    BY <1>1, <1>2, <1>5, <2>1, <2>2
<1>. QED
  BY <1>2, <1>3, <1>4, <1>5, Zenon DEF InStep

\* Delivering a finished message keeps both.
LEMMA FaithfulDelivers ==
    ASSUME NEW S \in Seq(Objects), \A j \in 1..Len(S) : Ready(S[j]),
           NEW U, NEW q \in Seq(U), Faithful(S, q),
           NEW d, NEW s, NEW h, NEW o, InStep(d, s, h, o, Len(q), S),
           o # NoMessage, o.done,
           NEW W, NEW x \in Seq(W), x = Append(q, o.m)
    PROVE  Faithful(S, x) /\ InStep(d, s, NoHeader, NoMessage, Len(x), S)
<1>1. PICK k \in Nat : k = Len(q) /\ Len(x) = k + 1 /\ x[k + 1] = o.m /\ \A j \in 1..k : x[j] = q[j]
  <2>1. q \in Seq(U \cup {o.m}) /\ o.m \in U \cup {o.m}
    BY SeqMonotonic
  <2>2. Lengthens(q, o.m, Append(q, o.m)) /\ Len(q) \in Nat
    BY <2>1, AppendLengthens, Zenon
  <2>. QED
    BY <2>2, Zenon DEF Lengthens
<1>2. Len(S) \in Nat /\ DOMAIN S = 1..Len(S) /\ DOMAIN q = 1..k /\ DOMAIN x = 1..(k + 1)
  BY <1>1
\* With as many sent as delivered there is no object.
<1>3. SoundTo(S, k) /\ k <= Len(S) => k < Len(S)
  <2>1. ~(k = Len(S) /\ SoundTo(S, k))
    BY <1>1, Zenon DEF InStep
  <2>2. \A c \in Nat : k <= c => k < c \/ k = c
    OBVIOUS
  <2>. QED
    BY <1>2, <2>1, <2>2, Zenon
\* The object is the next message, whole.
<1>4. ASSUME k < Len(S), SoundTo(S, k + 1)
      PROVE  /\ Same(Seen(S[k + 1]), o.m)
             /\ d \in Streams /\ s \in Streams
             /\ \E l \in Streams : Then(d, s) = l /\ Tails(l, k + 1, S)
  <2>1. LinedUp(d, s, h, o, k + 1, S)
    BY <1>1, <1>4 DEF InStep
  <2>2. PICK r \in Streams, l \in Streams :
          Then(d, s) = Then(r, l) /\ Awaited(h, o, S[k + 1], r) /\ Tails(l, k + 1, S)
    BY <2>1 DEF LinedUp
  <2>3. Expect(o, S[k + 1], r)
    BY <2>2 DEF Awaited, AtType, AtLen, AtBody, InBody
  <2>4. r = <<>> /\ Same(Seen(S[k + 1]), o.m)
    BY <2>3 DEF Expect
  <2>5. Then(<<>>, l) = l
    BY ThenNothing
  <2>6. Then(d, s) = l
    BY <2>2, <2>4, <2>5
  <2>. QED
    BY <2>1, <2>2, <2>4, <2>6, Zenon DEF LinedUp
<1>5. Faithful(S, x)
  <2>1. SUFFICES ASSUME NEW n \in DOMAIN x, n - 1 <= Len(S), SoundTo(S, n - 1)
                 PROVE  n \in DOMAIN S /\ (Sound(S[n]) => Same(Seen(S[n]), x[n]))
    BY Zenon DEF Faithful
  <2>2. CASE n \in 1..k
    BY <1>1, <1>2, <2>1, <2>2, Zenon DEF Faithful
  <2>3. CASE n = k + 1
    <3>1. k <= Len(S) /\ SoundTo(S, k)
      BY <2>1, <2>3
    <3>2. k < Len(S) /\ n \in 1..Len(S)
      BY <1>2, <1>3, <2>3, <3>1
    <3>3. ASSUME Sound(S[n]) PROVE SoundTo(S, k + 1)
      <4>1. \A i \in 1..(k + 1) : i \in 1..k \/ i = n
        BY <2>3
      <4>. QED
        BY <3>1, <3>3, <4>1, Zenon DEF SoundTo
    <3>. QED
      BY <1>1, <1>2, <1>4, <2>3, <3>2, <3>3, Zenon
  <2>. QED
    BY <1>2, <2>2, <2>3
<1>6. InStep(d, s, NoHeader, NoMessage, k + 1, S)
  <2>1. ASSUME k + 1 = Len(S), SoundTo(S, k + 1)
        PROVE  d = <<>> /\ s = <<>>
    <3>1. k < Len(S)
      BY <1>2, <2>1
    <3>2. PICK l \in Streams : /\ d \in Streams /\ s \in Streams
                               /\ Then(d, s) = l /\ Tails(l, Len(S), S)
      BY <1>4, <2>1, <3>1
    <3>3. Then(d, s) = <<>>
      BY <3>2, TailEnd
    <3>4. Len(d) + Len(s) = 0 /\ Len(d) \in Nat /\ Len(s) \in Nat
      BY <3>2, <3>3, ThenLen, LenIs, NothingIs
    <3>5. Len(d) = 0 /\ Len(s) = 0
      BY <3>4
    <3>. QED
      BY <3>2, <3>5, ThenNothing
  <2>2. ASSUME k + 1 < Len(S), SoundTo(S, (k + 1) + 1)
        PROVE  LinedUp(d, s, NoHeader, NoMessage, (k + 1) + 1, S)
    <3>1. SoundTo(S, k + 1)
      BY <2>2, SoundLess
    <3>2. PICK l \in Streams : /\ d \in Streams /\ s \in Streams
                               /\ Then(d, s) = l /\ Tails(l, k + 1, S)
      BY <1>2, <1>4, <2>2, <3>1
    <3>3. PICK z \in Streams : /\ l = Then(Wire(S[(k + 1) + 1]), z) /\ Tails(z, (k + 1) + 1, S)
      BY <1>2, <2>2, <3>2, TailNext
    <3>4. Ready(S[(k + 1) + 1])
      BY <1>2, <2>2
    <3>5. Wire(S[(k + 1) + 1]) \in Streams
      BY <3>4, WireIs
    <3>6. Awaited(NoHeader, NoMessage, S[(k + 1) + 1], Wire(S[(k + 1) + 1]))
      BY DEF Awaited, AtType
    <3>. QED
      BY <3>2, <3>3, <3>5, <3>6, Zenon DEF LinedUp
  <2>. QED
    BY <2>1, <2>2, Zenon DEF InStep
<1>. QED
  BY <1>1, <1>5, <1>6

\* Reading a piece of the stream keeps InStep.
LEMMA InStepReads ==
    ASSUME NEW S, NEW k \in Nat, NEW s, NEW h, NEW o, InStep(<<>>, s, h, o, k, S),
           NEW n \in Nat \ {0}, n <= Len(s)
    PROVE  InStep(SubSeq(s, 1, n), SubSeq(s, n + 1, Len(s)), h, o, k, S)
<1>1. ~(k = Len(S) /\ SoundTo(S, k))
  BY DEF InStep
<1>2. ASSUME LinedUp(<<>>, s, h, o, k + 1, S)
      PROVE  LinedUp(SubSeq(s, 1, n), SubSeq(s, n + 1, Len(s)), h, o, k + 1, S)
  <2>1. s \in Streams
    BY <1>2 DEF LinedUp
  <2>2. n \in 0..Len(s)
    BY <2>1, LenIs
  <2>3. /\ SubSeq(s, 1, n) \in Streams /\ SubSeq(s, n + 1, Len(s)) \in Streams
        /\ Then(SubSeq(s, 1, n), SubSeq(s, n + 1, Len(s))) = s
    BY <2>1, <2>2, ThenCuts
  <2>4. Then(<<>>, s) = s
    BY <2>1, ThenNothing
  <2>. QED
    BY <1>2, <2>3, <2>4, Zenon DEF LinedUp
<1>. QED
  BY <1>1, <1>2, Zenon DEF InStep

-----------------------------------------------------------------------------
(***************************************************************************)
(* The invariant.                                                          *)
(***************************************************************************)
\* Objects and messages are of the classes, a closed client has no bytes left, the
\* parser gives up on unsound messages only, and the receiver is in step.
MqttInv ==
    /\ DOMAIN objs = DOMAIN Messages /\ \A i \in DOMAIN Messages : objs[i] \in Objects
    /\ sent \in Seq(Objects) /\ \A j \in 1..Len(sent) : Ready(sent[j])
    /\ \E U : delivered \in Seq(U)
    /\ closed # "" => data = <<>>
    /\ closed = "error" => ~SoundTo(sent, Len(sent))
    /\ Faithful(sent, delivered)
    /\ closed = "" => InStep(data, stream, hdr, obj, Len(delivered), sent)

\* It holds of a new client,
LEMMA MqttInvInit ==
    ASSUME MqttInit
    PROVE  MqttInv
<1>1. /\ objs = [i \in DOMAIN Messages |-> Messages[i]] /\ sent = <<>> /\ stream = <<>>
      /\ data = <<>> /\ hdr = NoHeader /\ obj = NoMessage /\ delivered = <<>> /\ closed = ""
  BY DEF MqttInit
<1>2. DOMAIN objs = DOMAIN Messages /\ \A i \in DOMAIN Messages : objs[i] \in Objects
  BY <1>1, MqttAssumption, Zenon
<1>3. sent \in Seq(Objects) /\ \A j \in 1..Len(sent) : Ready(sent[j])
  <2>1. <<>> \in Seq(Objects) /\ Len(<<>>) = 0 /\ \A j \in 1..0 : FALSE
    OBVIOUS
  <2>. QED
    BY <1>1, <2>1, Zenon
<1>4. delivered \in Seq({}) /\ DOMAIN delivered = {} /\ Len(delivered) = 0 /\ Len(sent) = 0
  <2>1. <<>> \in Seq({}) /\ DOMAIN <<>> = {} /\ Len(<<>>) = 0
    OBVIOUS
  <2>. QED
    BY <1>1, <2>1, Zenon
<1>5. Faithful(sent, delivered)
  BY <1>4, Zenon DEF Faithful
<1>6. InStep(data, stream, hdr, obj, Len(delivered), sent)
  <2>1. ~(Len(delivered) < Len(sent))
    BY <1>4
  <2>. QED
    BY <1>1, <2>1, Zenon DEF InStep
<1>7. closed # "error"
  BY <1>1
<1>. QED
  BY <1>1, <1>2, <1>3, <1>4, <1>5, <1>6, <1>7, Zenon DEF MqttInv

\* and is kept by send_await,
LEMMA SendKeeps ==
    ASSUME MqttInv, NEW i \in DOMAIN Messages, SendAwait(i)
    PROVE  MqttInv'
<1>1. /\ DOMAIN objs = DOMAIN Messages /\ \A j \in DOMAIN Messages : objs[j] \in Objects
      /\ sent \in Seq(Objects) /\ \A j \in 1..Len(sent) : Ready(sent[j])
      /\ Faithful(sent, delivered)
  BY DEF MqttInv
<1>2. PICK U : delivered \in Seq(U)
  BY DEF MqttInv
<1>3. PICK w : w = to_string(objs[i])
  OBVIOUS
<1>4. /\ closed = "" /\ w.ok /\ objs' = [objs EXCEPT ![i] = w.m]
      /\ sent' = Append(sent, w.m) /\ stream' = stream \o w.out
      /\ UNCHANGED <<parseVars, delivered, closed>>
  BY <1>3 DEF SendAwait
<1>5. data' = data /\ hdr' = hdr /\ obj' = obj /\ delivered' = delivered /\ closed' = ""
  BY <1>4 DEF parseVars
<1>6. PICK m : m = w.m /\ m \in Objects /\ Ready(m) /\ w.out = Wire(m)
  <2>1. Writes(to_string(objs[i]))
    BY <1>1, ToStringIs
  <2>2. Ready(w.m) /\ w.out = Wire(w.m)
    BY <1>3, <1>4, <2>1 DEF Writes
  <2>. QED
    BY <2>2 DEF Ready
<1>7. DOMAIN objs' = DOMAIN Messages /\ \A j \in DOMAIN Messages : objs'[j] \in Objects
  BY <1>1, <1>4, <1>6
<1>8. PICK T : T = sent' /\ T = Append(sent, m)
  BY <1>4, <1>6
<1>9. /\ T \in Seq(Objects) /\ Len(T) = Len(sent) + 1 /\ Len(sent) \in Nat
      /\ \A j \in 1..Len(sent) : T[j] = sent[j]
      /\ T[Len(sent) + 1] = m
  <2>1. sent \in Seq(Objects) /\ m \in Objects /\ T = Append(sent, m)
    BY <1>1, <1>6, <1>8
  <2>. QED
    BY <2>1, SoundGrows, Zenon
<1>10. \A j \in 1..Len(T) : Ready(T[j])
  <2>1. \A j \in 1..Len(T) : j \in 1..Len(sent) \/ j = Len(sent) + 1
    BY <1>9
  <2>. QED
    BY <1>1, <1>6, <1>9, <2>1, Zenon
<1>11. Faithful(T, delivered)
  BY <1>1, <1>2, <1>6, <1>8, FaithfulGrows
<1>12. InStep(data, stream \o Wire(m), hdr, obj, Len(delivered), T)
  <2>1. InStep(data, stream, hdr, obj, Len(delivered), sent)
    BY <1>4 DEF MqttInv
  <2>. QED
    BY <1>1, <1>2, <1>6, <1>8, <2>1, InStepGrows
<1>13. stream' = stream \o Wire(m)
  BY <1>4, <1>6
<1>14. closed' # "error"
  BY <1>5
<1>. QED
  BY <1>2, <1>5, <1>7, <1>8, <1>9, <1>10, <1>11, <1>12, <1>13, <1>14, Zenon DEF MqttInv

\* by reading,
LEMMA ReadKeeps ==
    ASSUME MqttInv, Read
    PROVE  MqttInv'
<1>1. closed = "" /\ data = <<>>
  BY DEF Read, Idle
<1>2. PICK n \in 1..ReadMax : /\ n <= Len(stream) /\ data' = SubSeq(stream, 1, n)
                              /\ stream' = SubSeq(stream, n + 1, Len(stream))
  BY DEF Read
<1>3. objs' = objs /\ sent' = sent /\ hdr' = hdr /\ obj' = obj /\ delivered' = delivered /\ closed' = closed
  BY DEF Read, sendVars
<1>4. InStep(<<>>, stream, hdr, obj, Len(delivered), sent)
  BY <1>1 DEF MqttInv
<1>5. Len(delivered) \in Nat
  <2>1. PICK U : delivered \in Seq(U)
    BY DEF MqttInv
  <2>. QED
    BY <2>1
<1>6. n \in Nat \ {0}
  BY <1>2, MqttAssumption
<1>7. InStep(data', stream', hdr', obj', Len(delivered'), sent')
  <2>1. InStep(SubSeq(stream, 1, n), SubSeq(stream, n + 1, Len(stream)), hdr, obj,
               Len(delivered), sent)
    BY <1>2, <1>4, <1>5, <1>6, InStepReads
  <2>. QED
    BY <1>2, <1>3, <2>1
<1>8. closed' = "" /\ closed' # "error"
  BY <1>1, <1>3
<1>. QED
  BY <1>3, <1>7, <1>8, Zenon DEF MqttInv

\* by closing
LEMMA CloseKeeps ==
    ASSUME MqttInv, Expired \/ Lost
    PROVE  MqttInv'
<1>1. /\ closed' \in {"timeout", "lost"} /\ data' = <<>>
      /\ UNCHANGED <<sendVars, stream, hdr, obj, delivered>>
  BY DEF Expired, Lost, Close
<1>2. objs' = objs /\ sent' = sent /\ delivered' = delivered
  BY <1>1 DEF sendVars
<1>3. closed' # "" /\ closed' # "error"
  BY <1>1
<1>. QED
  BY <1>1, <1>2, <1>3, Zenon DEF MqttInv

\* and by delivering.
LEMMA FinishedKeeps ==
    ASSUME MqttInv, Finished
    PROVE  MqttInv'
<1>1. /\ sent \in Seq(Objects) /\ \A j \in 1..Len(sent) : Ready(sent[j])
      /\ Faithful(sent, delivered)
  BY DEF MqttInv
<1>2. PICK U : delivered \in Seq(U)
  BY DEF MqttInv
<1>3. /\ closed = "" /\ obj # NoMessage /\ obj.done
      /\ delivered' = Append(delivered, obj.m) /\ hdr' = NoHeader /\ obj' = NoMessage
      /\ UNCHANGED <<sendVars, stream>>
  BY DEF Finished
<1>4. objs' = objs /\ sent' = sent /\ stream' = stream
  BY <1>3 DEF sendVars
<1>5. PICK x, W : x = delivered' /\ x = Append(delivered, obj.m) /\ x \in Seq(W)
  <2>1. delivered \in Seq(U \cup {obj.m}) /\ obj.m \in U \cup {obj.m}
    BY <1>2, SeqMonotonic
  <2>2. Append(delivered, obj.m) \in Seq(U \cup {obj.m})
    BY <2>1, AppendLengthens, Zenon
  <2>. QED
    BY <1>3, <2>2, Zenon
<1>6. InStep(data, stream, hdr, obj, Len(delivered), sent)
  BY <1>3 DEF MqttInv
<1>7. Faithful(sent, x) /\ InStep(data, stream, NoHeader, NoMessage, Len(x), sent)
  BY <1>1, <1>2, <1>3, <1>5, <1>6, FaithfulDelivers
<1>8. \/ closed' = "" /\ data' = data
      \/ closed' = "handler" /\ data' = <<>>
  BY DEF Finished
<1>9. closed' # "error"
  BY <1>8
<1>10. closed' # "" => data' = <<>>
  BY <1>8
<1>11. closed' = "" => data' = data
  BY <1>8
<1>. QED
  BY <1>1, <1>3, <1>4, <1>5, <1>7, <1>9, <1>10, <1>11, Zenon DEF MqttInv

\* There is something at hand: a header or a message has begun or bytes are left.
AtHand == data # <<>> \/ obj # NoMessage \/ hdr.fin

\* The step gets on with whatever sound message it is at.
Parses ==
    \A m, r, l :
        /\ Ready(m) /\ Sound(m)
        /\ r \in Streams /\ l \in Streams /\ data \in Streams /\ stream \in Streams
        /\ Then(data, stream) = Then(r, l) /\ Awaited(hdr, obj, m, r)
        => GoesOn(m, l)

\* Numbers.
LEMMA Counts ==
    ASSUME NEW k \in Nat, NEW c \in Nat
    PROVE  /\ k \in Int /\ c \in Int /\ k + 1 \in Int /\ k + 1 \in 1..(k + 1)
           /\ c <= c /\ ~(c < c)
           /\ ~(k <= c) => k > c
           /\ k <= c /\ k # c => k < c
           /\ k < c => k + 1 <= c /\ k + 1 \in 1..c
  OBVIOUS

\* Lengths.
LEMMA LenCounts ==
    ASSUME NEW T, NEW s \in Seq(T)
    PROVE  Len(s) \in Nat
  OBVIOUS

\* With something at hand, the bytes are lined up with a message that was sent.
LEMMA BusyIsLinedUp ==
    ASSUME MqttInv, closed = "", AtHand
    PROVE  LET k == Len(delivered)
           IN  /\ k \in Nat /\ Len(sent) \in Nat
               /\ ~(k = Len(sent) /\ SoundTo(sent, k))
               /\ k < Len(sent) /\ SoundTo(sent, k + 1) =>
                     LinedUp(data, stream, hdr, obj, k + 1, sent)
               /\ SoundTo(sent, Len(sent)) => k < Len(sent) /\ SoundTo(sent, k + 1)
<1>1. PICK U : delivered \in Seq(U)
  BY DEF MqttInv
<1>2. sent \in Seq(Objects) /\ Faithful(sent, delivered)
      /\ InStep(data, stream, hdr, obj, Len(delivered), sent)
  BY Zenon DEF MqttInv
<1>3. PICK k \in Nat : k = Len(delivered)
  BY <1>1, LenCounts, Zenon
<1>4. PICK c \in Nat : c = Len(sent)
  BY <1>2, LenCounts, Zenon
<1>5. ~(k = c /\ SoundTo(sent, k))
  <2>1. NoHeader.fin = FALSE
    BY DEF NoHeader
  <2>2. ~(hdr = NoHeader /\ obj = NoMessage /\ data = <<>> /\ stream = <<>>)
    BY <2>1 DEF AtHand
  <2>. QED
    BY <1>2, <1>3, <1>4, <2>2, Zenon DEF InStep
<1>6. k < c /\ SoundTo(sent, k + 1) => LinedUp(data, stream, hdr, obj, k + 1, sent)
  BY <1>2, <1>3, <1>4, Zenon DEF InStep
<1>7. ASSUME SoundTo(sent, c) PROVE k < c /\ SoundTo(sent, k + 1)
  <2>1. k <= c
    <3>1. k > c => c < c
      <4>1. c <= Len(sent)
        BY <1>3, <1>4, Counts, Zenon
      <4>2. Len(delivered) > c => c < Len(sent)
        BY <1>1, <1>2, <1>7, <4>1, NotAhead, Zenon
      <4>. QED
        BY <1>3, <1>4, <4>2, Zenon
    <3>. QED
      BY <1>3, <1>4, <3>1, Counts, Zenon
  <2>2. k # c
    BY <1>5, <1>7
  <2>3. k < c /\ k + 1 <= c /\ k + 1 \in Int /\ c \in Int
    BY <1>3, <1>4, <2>1, <2>2, Counts, Zenon
  <2>4. SoundTo(sent, k + 1)
    BY <1>7, <2>3, SoundLess
  <2>. QED
    BY <2>3, <2>4
<1>. QED
  BY <1>3, <1>4, <1>5, <1>6, <1>7, Zenon

\* A step of the parser that gets on with sound messages keeps the invariant:
LEMMA ParseKeeps ==
    ASSUME MqttInv, closed = "", AtHand, Parses,
           objs' = objs, sent' = sent, delivered' = delivered,
           closed' = "" \/ (closed' = "error" /\ data' = <<>>)
    PROVE  MqttInv'
<1>1. PICK U : delivered \in Seq(U)
  BY DEF MqttInv
<1>2. /\ sent \in Seq(Objects) /\ \A j \in 1..Len(sent) : Ready(sent[j])
  BY Zenon DEF MqttInv
<1>3. PICK k \in Nat, c \in Nat :
        /\ k = Len(delivered) /\ c = Len(sent)
        /\ ~(k = c /\ SoundTo(sent, k))
        /\ k < c /\ SoundTo(sent, k + 1) => LinedUp(data, stream, hdr, obj, k + 1, sent)
        /\ SoundTo(sent, c) => k < c /\ SoundTo(sent, k + 1)
  BY BusyIsLinedUp, Zenon
<1>4. ASSUME k < c, SoundTo(sent, k + 1)
      PROVE  closed' = "" /\ LinedUp(data', stream', hdr', obj', k + 1, sent)
  <2>1. k + 1 \in 1..Len(sent)
    BY <1>3, <1>4, Counts, Zenon
  <2>2. Ready(sent[k + 1]) /\ Sound(sent[k + 1])
    <3>1. k + 1 \in 1..(k + 1)
      BY <1>3, Counts, Zenon
    <3>. QED
      BY <1>2, <1>4, <2>1, <3>1, Zenon DEF SoundTo
  <2>3. LinedUp(data, stream, hdr, obj, k + 1, sent)
    BY <1>3, <1>4
  <2>4. data \in Streams /\ stream \in Streams
    BY <2>3 DEF LinedUp
  <2>5. PICK r \in Streams, l \in Streams :
          /\ Then(data, stream) = Then(r, l) /\ Awaited(hdr, obj, sent[k + 1], r)
          /\ Tails(l, k + 1, sent)
    BY <2>3 DEF LinedUp
  <2>6. GoesOn(sent[k + 1], l)
    BY <2>2, <2>4, <2>5, Zenon DEF Parses
  <2>7. /\ stream' = stream /\ closed' = closed /\ data' \in Streams
        /\ \E q \in Streams : /\ Then(data', stream) = Then(q, l)
                              /\ Awaited(hdr', obj', sent[k + 1], q)
    BY <2>6 DEF GoesOn
  <2>. QED
    BY <2>4, <2>5, <2>7, Zenon DEF LinedUp
<1>5. InStep(data', stream', hdr', obj', k, sent)
  BY <1>3, <1>4, Zenon DEF InStep
<1>6. closed' = "error" => ~SoundTo(sent, Len(sent))
  <2>1. closed' = "error" => closed' # ""
    OBVIOUS
  <2>. QED
    BY <1>3, <1>4, <2>1, Zenon
<1>7. closed' # "" => data' = <<>>
  OBVIOUS
<1>. QED
  BY <1>3, <1>5, <1>6, <1>7, Zenon DEF MqttInv

\* the first byte,
LEMMA TypeKeeps ==
    ASSUME MqttInv, HeaderType
    PROVE  MqttInv'
<1>1. data # <<>>
  BY DEF HeaderType
<1>2. closed = "" /\ AtHand
  BY <1>1 DEF MqttInv, AtHand
<1>3. Parses
  BY TypeGoesOn DEF Parses
<1>4. objs' = objs /\ sent' = sent /\ delivered' = delivered
  BY DEF HeaderType, Close, sendVars
<1>5. closed' = "" \/ (closed' = "error" /\ data' = <<>>)
  BY <1>2 DEF HeaderType, Close
<1>. QED
  BY <1>2, <1>3, <1>4, <1>5, ParseKeeps

\* a digit of the length,
LEMMA LenKeeps ==
    ASSUME MqttInv, HeaderLen
    PROVE  MqttInv'
<1>1. data # <<>>
  BY DEF HeaderLen
<1>2. closed = "" /\ AtHand
  BY <1>1 DEF MqttInv, AtHand
<1>3. Parses
  BY LenGoesOn DEF Parses
<1>4. objs' = objs /\ sent' = sent /\ delivered' = delivered
  BY DEF HeaderLen, Close, sendVars
<1>5. closed' = "" \/ (closed' = "error" /\ data' = <<>>)
  BY <1>2 DEF HeaderLen, Close
<1>. QED
  BY <1>2, <1>3, <1>4, <1>5, ParseKeeps

\* the object
LEMMA CreateKeeps ==
    ASSUME MqttInv, Create
    PROVE  MqttInv'
<1>1. closed = "" /\ hdr.fin
  BY DEF Create
<1>2. AtHand
  BY <1>1 DEF AtHand
<1>3. Parses
  BY CreateGoesOn DEF Parses
<1>4. objs' = objs /\ sent' = sent /\ delivered' = delivered /\ closed' = closed
  BY DEF Create, sendVars
<1>. QED
  BY <1>1, <1>2, <1>3, <1>4, ParseKeeps

\* and each of its handlers.
LEMMA UpdateKeeps ==
    ASSUME MqttInv, UpdateMessage
    PROVE  MqttInv'
<1>1. data # <<>>
  BY DEF UpdateMessage
<1>2. closed = "" /\ AtHand
  BY <1>1 DEF MqttInv, AtHand
<1>3. Parses
  BY UpdateGoesOn DEF Parses
<1>4. PICK g \in Garbage :
        LET x == Update(obj, data, g)
        IN  IF x.err THEN Close("error")
            ELSE /\ obj' = x.p
                 /\ data' = x.d
                 /\ UNCHANGED <<sendVars, stream, hdr, delivered, closed>>
  BY DEF UpdateMessage
<1>5. PICK x : x = Update(obj, data, g)
  OBVIOUS
<1>6. objs' = objs /\ sent' = sent /\ delivered' = delivered
  BY <1>4, <1>5 DEF Close, sendVars
<1>7. closed' = "" \/ (closed' = "error" /\ data' = <<>>)
  BY <1>2, <1>4, <1>5 DEF Close
<1>. QED
  BY <1>2, <1>3, <1>6, <1>7, ParseKeeps

\* Every step of sender, connection and receiver keeps the invariant.
THEOREM MqttInvAlways == MqttSpec => []MqttInv
<1>1. MqttInit => MqttInv
  BY MqttInvInit
<1>2. MqttInv /\ [MqttNext]_mqttVars => MqttInv'
  <2>1. SUFFICES ASSUME MqttInv, [MqttNext]_mqttVars
                 PROVE  MqttInv'
    OBVIOUS
  <2>2. CASE \E i \in DOMAIN Messages : SendAwait(i)
    BY <2>1, <2>2, SendKeeps
  <2>3. CASE Read
    BY <2>1, <2>3, ReadKeeps
  <2>4. CASE HeaderType
    BY <2>1, <2>4, TypeKeeps
  <2>5. CASE HeaderLen
    BY <2>1, <2>5, LenKeeps
  <2>6. CASE Create
    BY <2>1, <2>6, CreateKeeps
  <2>7. CASE UpdateMessage
    BY <2>1, <2>7, UpdateKeeps
  <2>8. CASE Finished
    BY <2>1, <2>8, FinishedKeeps
  <2>9. CASE Expired \/ Lost
    BY <2>1, <2>9, CloseKeeps
  <2>10. CASE UNCHANGED mqttVars
    <3>1. /\ objs' = objs /\ sent' = sent /\ stream' = stream /\ data' = data /\ hdr' = hdr
          /\ obj' = obj /\ delivered' = delivered /\ closed' = closed
      BY <2>10 DEF mqttVars
    <3>. QED
      BY <2>1, <3>1, Zenon DEF MqttInv
  <2>. QED
    BY <2>1, <2>2, <2>3, <2>4, <2>5, <2>6, <2>7, <2>8, <2>9, <2>10 DEF MqttNext, MqttParse
<1>. QED
  BY <1>1, <1>2, PTL DEF MqttSpec

\* However read_await cuts the stream, up to the first message the code does not
\* get through the handler is called with the messages sent, each once, in order
\* and unchanged, for any message objects and any size of the buffer.
THEOREM DeliveredAsSentAlways == MqttSpec => []DeliveredAsSent
<1>1. MqttInv => DeliveredAsSent
  <2>1. SUFFICES ASSUME MqttInv PROVE DeliveredAsSent
    OBVIOUS
  <2>2. Faithful(sent, delivered)
    BY <2>1 DEF MqttInv
  <2>. QED
    BY <2>2, Zenon DEF Faithful, SoundTo, DeliveredAsSent, SoundUpTo
<1>. QED
  BY <1>1, MqttInvAlways, PTL

\* No message the code gets through makes the parser give up the connection.
THEOREM RefusedIsUnsoundAlways == MqttSpec => []RefusedIsUnsound
<1>1. MqttInv => RefusedIsUnsound
  BY Zenon DEF MqttInv, RefusedIsUnsound, SoundTo, SoundUpTo
<1>. QED
  BY <1>1, MqttInvAlways, PTL
=============================================================================
