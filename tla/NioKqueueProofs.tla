---------------------------- MODULE NioKqueueProofs ----------------------------
(***************************************************************************)
(* Proofs about the event core on the kqueue backend: whatever fails or is *)
(* carried out twice, the filters the kernel will have once it has the     *)
(* list of changes are fe->mask, and fdcount counts the files watched.     *)
(*                                                                         *)
(* kevent() walks through the list, so what it leaves is a recursive       *)
(* function of the list.  The proofs never follow that function along a    *)
(* changing list: they show once, for any list, what it does to one filter *)
(* (Latest), and reason about that.                                        *)
(***************************************************************************)
EXTENDS NioKqueue, NioEventProofs, SequenceTheorems, FiniteSetTheorems

(***************************************************************************)
(* kevent() on a list of changes.                                          *)
(***************************************************************************)

\* One change, and the states after each prefix of the list.
StepOf(s, c, R, stop) ==
    LET bad == Fails(s.k, c, R)
    IN  IF stop /\ s.errs # {} THEN s
        ELSE [k |-> IF bad THEN s.k ELSE Changed(s.k, c), n |-> s.n + 1,
              errs |-> IF ~bad THEN s.errs
                       ELSE s.errs \cup {[file |-> c.file, dir |-> c.dir,
                                          err |-> s.n + 1]}]

Start(k0) == [k |-> k0, n |-> 0, errs |-> {}]

After(k0, q, R, stop) ==
    LET after[i \in 0..Len(q)] ==
            IF i = 0 THEN [k |-> k0, n |-> 0, errs |-> {}]
            ELSE StepOf(after[i - 1], q[i], R, stop)
    IN  after

Walks(a, n, k0, q, R, stop) ==
    a = [i \in 0..n |-> IF i = 0 THEN Start(k0) ELSE StepOf(a[i - 1], q[i], R, stop)]

LEMMA KeventIsAfter ==
    ASSUME NEW k0, NEW q, NEW R, NEW stop
    PROVE  Kevent(k0, q, R, stop) = After(k0, q, R, stop)[Len(q)]
BY DEF Kevent, After, StepOf

\* The walk exists, by the shortest list for which it would not.
LEMMA WalkExists ==
    ASSUME NEW k0, NEW q \in Seq(Change), NEW R, NEW stop
    PROVE  \E a : Walks(a, Len(q), k0, q, R, stop)
<1> DEFINE P(n) == \E a : Walks(a, n, k0, q, R, stop)
           T == {n \in Nat : ~P(n)}
<1>1. SUFFICES T = {}
  BY LenProperties
<1>2. SUFFICES ASSUME T # {} PROVE FALSE
  OBVIOUS
<1>3. PICK n \in T : \A m \in T : n <= m
  <2>. T \in SUBSET Nat
    OBVIOUS
  <2>. HIDE DEF T
  <2>. QED
    BY <1>2, Least
<1>4. P(0)
  <2> DEFINE a == [i \in 0..0 |-> Start(k0)]
  <2>1. a = [i \in 0..0 |-> IF i = 0 THEN Start(k0) ELSE StepOf(a[i - 1], q[i], R, stop)]
    OBVIOUS
  <2>. HIDE DEF a
  <2>. QED
    BY <2>1 DEF Walks
<1>5. n \in Nat /\ n # 0 /\ n - 1 \in Nat /\ ~P(n)
  <2>1. n \in Nat /\ ~P(n)
    OBVIOUS
  <2>. QED
    BY <2>1, <1>4
<1>6. P(n - 1)
  <2> HIDE DEF P
  <2>1. n - 1 \notin T
    BY <1>3, <1>5
  <2>. QED
    BY <2>1, <1>5
<1>7. PICK b : b = [i \in 0..(n - 1) |->
                      IF i = 0 THEN Start(k0) ELSE StepOf(b[i - 1], q[i], R, stop)]
  BY <1>6 DEF Walks
<1> DEFINE last == StepOf(b[n - 1], q[n], R, stop)
           a == [i \in 0..n |-> IF i = n THEN last ELSE b[i]]
<1>8. \A i \in 0..(n - 1) :
         b[i] = IF i = 0 THEN Start(k0) ELSE StepOf(b[i - 1], q[i], R, stop)
  BY <1>7, Zenon
<1>9. \A i \in 0..n : a[i] = IF i = 0 THEN Start(k0) ELSE StepOf(a[i - 1], q[i], R, stop)
  <2>. TAKE i \in 0..n
  <2>1. CASE i = n
    BY <2>1, <1>5
  <2>2. CASE i # n /\ i # 0
    <3>1. i \in 0..(n - 1) /\ i - 1 \in 0..n /\ i - 1 # n
      BY <2>2, <1>5
    <3>2. b[i] = StepOf(b[i - 1], q[i], R, stop)
      BY <3>1, <2>2, <1>8
    <3>. HIDE DEF last
    <3>. QED
      BY <3>1, <3>2, <2>2
  <2>3. CASE i # n /\ i = 0
    BY <2>3, <1>5, <1>8
  <2>. QED
    BY <2>1, <2>2, <2>3
<1>10. a = [i \in 0..n |-> IF i = 0 THEN Start(k0) ELSE StepOf(a[i - 1], q[i], R, stop)]
  <2> DEFINE b2 == [i \in 0..n |-> IF i = 0 THEN Start(k0) ELSE StepOf(a[i - 1], q[i], R, stop)]
  <2>1. DOMAIN a = 0..n /\ DOMAIN b2 = 0..n
    OBVIOUS
  <2>2. \A i \in 0..n : a[i] = b2[i]
    BY <1>9
  <2>3. a = [i \in 0..n |-> a[i]] /\ b2 = [i \in 0..n |-> b2[i]]
    OBVIOUS
  <2>. HIDE DEF a, b2
  <2>4. a = b2
    BY <2>2, <2>3
  <2>. QED
    BY <2>4 DEF b2
<1>. HIDE DEF a
<1>11. P(n)
  BY <1>10 DEF Walks
<1>. QED
  BY <1>5, <1>11

LEMMA AfterWalks ==
    ASSUME NEW k0, NEW q \in Seq(Change), NEW R, NEW stop
    PROVE  Walks(After(k0, q, R, stop), Len(q), k0, q, R, stop)
<1>1. PICK g : Walks(g, Len(q), k0, q, R, stop)
  BY WalkExists
<1>2. g = [i \in 0..Len(q) |-> IF i = 0 THEN [k |-> k0, n |-> 0, errs |-> {}]
                               ELSE StepOf(g[i - 1], q[i], R, stop)]
  BY <1>1, Zenon DEF Walks, Start
<1>. HIDE DEF StepOf
<1>3. After(k0, q, R, stop)
         = [i \in 0..Len(q) |-> IF i = 0 THEN [k |-> k0, n |-> 0, errs |-> {}]
                                ELSE StepOf(After(k0, q, R, stop)[i - 1], q[i], R, stop)]
  BY <1>2, Zenon DEF After
<1>. QED
  BY <1>3, Zenon DEF Walks, Start

-----------------------------------------------------------------------------
(***************************************************************************)
(* What the first i changes of a list make of one filter, if none fails:   *)
(* the latest change to it decides, or, without one, the kernel before.    *)
(***************************************************************************)

Says(q, i, f, d) == q[i].file = f /\ q[i].dir = d

Latest(k, q, i, f, d) ==
    \/ \E j \in 1..i : /\ Says(q, j, f, d)
                       /\ q[j].add
                       /\ \A l \in (j + 1)..i : ~Says(q, l, f, d)
    \/ d \in k[f] /\ \A j \in 1..i : ~Says(q, j, f, d)

LEMMA LatestOfNone ==
    ASSUME NEW k, NEW q, NEW f, NEW d
    PROVE  Latest(k, q, 0, f, d) <=> d \in k[f]
BY DEF Latest

LEMMA LatestStep ==
    ASSUME NEW k, NEW q, NEW i \in Nat \ {0}, NEW f, NEW d
    PROVE  /\ Says(q, i, f, d) => (Latest(k, q, i, f, d) <=> q[i].add)
           /\ ~Says(q, i, f, d) => (Latest(k, q, i, f, d) <=> Latest(k, q, i - 1, f, d))
<1>. HIDE DEF Says
<1>1. 1..i = (1..(i - 1)) \cup {i} /\ i \notin 1..(i - 1) /\ i + 1 \in Nat
  OBVIOUS
<1>2. (i + 1)..i = {}
  OBVIOUS
<1>3. \A j \in 1..(i - 1) : (j + 1)..i = ((j + 1)..(i - 1)) \cup {i}
  OBVIOUS
<1>4. ASSUME Says(q, i, f, d) PROVE Latest(k, q, i, f, d) <=> q[i].add
  <2>1. ASSUME q[i].add PROVE Latest(k, q, i, f, d)
    BY <1>1, <1>2, <1>4, <2>1 DEF Latest
  <2>2. ASSUME Latest(k, q, i, f, d) PROVE q[i].add
    <3>1. PICK j \in 1..i : /\ Says(q, j, f, d) /\ q[j].add
                            /\ \A l \in (j + 1)..i : ~Says(q, l, f, d)
      BY <1>1, <1>4, <2>2 DEF Latest
    <3>2. j = i
      BY <3>1, <1>1, <1>3, <1>4
    <3>. QED
      BY <3>1, <3>2
  <2>. QED
    BY <2>1, <2>2
<1>5. ASSUME ~Says(q, i, f, d)
      PROVE  Latest(k, q, i, f, d) <=> Latest(k, q, i - 1, f, d)
  <2>1. (\A j \in 1..i : ~Says(q, j, f, d)) <=> \A j \in 1..(i - 1) : ~Says(q, j, f, d)
    BY <1>1, <1>5
  <2>2. \A j \in 1..(i - 1) : (\A l \in (j + 1)..i : ~Says(q, l, f, d))
                                 <=> \A l \in (j + 1)..(i - 1) : ~Says(q, l, f, d)
    BY <1>3, <1>5
  <2>. QED
    BY <1>1, <1>5, <2>1, <2>2 DEF Latest
<1>. QED
  BY <1>4, <1>5

\* What the walk has reached after i changes.
Walked(s, i, k0, q, R, stop) ==
    /\ s.k \in [Files -> SUBSET Dirs]
    /\ s.n \in 0..i
    /\ s.errs \in SUBSET [file : Files, dir : Dirs, err : 1..i]
    /\ \A f \in Files : \A d \in Dirs :
          /\ (\A j \in 1..i : ~Says(q, j, f, d)) => (d \in s.k[f] <=> d \in k0[f])
          /\ ~stop \/ s.errs = {} =>
                /\ d \in s.k[f] => Latest(k0, q, i, f, d)
                /\ f \notin R \/ s.errs = {} =>
                      (Latest(k0, q, i, f, d) => d \in s.k[f])

LEMMA WalkedStep ==
    ASSUME NEW k0, NEW q \in Seq(Change), NEW R, NEW stop \in BOOLEAN,
           NEW i \in 1..Len(q), NEW s, Walked(s, i - 1, k0, q, R, stop)
    PROVE  Walked(StepOf(s, q[i], R, stop), i, k0, q, R, stop)
<1> DEFINE c == q[i]
           t == StepOf(s, c, R, stop)
           bad == Fails(s.k, c, R)
<1>1. /\ c \in Change /\ c.file \in Files /\ c.dir \in Dirs /\ c.add \in BOOLEAN
      /\ i \in Nat \ {0} /\ i - 1 \in Nat
  <2>1. c \in Change
    BY ElementOfSeq
  <2>2. Len(q) \in Nat
    BY LenProperties
  <2>. QED
    BY <2>1, <2>2 DEF Change
<1>2. /\ s.k \in [Files -> SUBSET Dirs]
      /\ s.n \in 0..(i - 1)
      /\ s.errs \in SUBSET [file : Files, dir : Dirs, err : 1..(i - 1)]
  BY DEF Walked
<1>3. ASSUME NEW f \in Files, NEW d \in Dirs
      PROVE  /\ (\A j \in 1..(i - 1) : ~Says(q, j, f, d)) => (d \in s.k[f] <=> d \in k0[f])
             /\ ~stop \/ s.errs = {} =>
                   /\ d \in s.k[f] => Latest(k0, q, i - 1, f, d)
                   /\ f \notin R \/ s.errs = {} =>
                         (Latest(k0, q, i - 1, f, d) => d \in s.k[f])
  BY DEF Walked
<1>4. s.errs \in SUBSET [file : Files, dir : Dirs, err : 1..i]
  BY <1>1, <1>2
<1>5. \A f, d : /\ Says(q, i, f, d) => (Latest(k0, q, i, f, d) <=> c.add)
                /\ ~Says(q, i, f, d) =>
                      (Latest(k0, q, i, f, d) <=> Latest(k0, q, i - 1, f, d))
  BY <1>1, LatestStep
<1>6. \A f, d : (\A j \in 1..i : ~Says(q, j, f, d)) =>
                   /\ ~Says(q, i, f, d)
                   /\ \A j \in 1..(i - 1) : ~Says(q, j, f, d)
  BY <1>1
<1>7. CASE stop /\ s.errs # {}
  <2>1. t = s
    BY <1>7 DEF StepOf
  <2>. HIDE DEF t, Says
  <2>2. s.n \in 0..i
    BY <1>1, <1>2
  <2>. QED
    BY <1>2, <1>3, <1>4, <1>6, <1>7, <2>1, <2>2 DEF Walked, t
<1>8. CASE ~(stop /\ s.errs # {}) /\ ~bad
  <2>1. t.k = Changed(s.k, c) /\ t.n = s.n + 1 /\ t.errs = s.errs
    BY <1>8 DEF StepOf
  <2>2. t.n \in 0..i
    BY <2>1, <1>1, <1>2
  <2>3. t.k \in [Files -> SUBSET Dirs]
    BY <2>1, <1>1, <1>2 DEF Changed
  <2>4. ASSUME NEW f \in Files, NEW d \in Dirs
        PROVE  d \in t.k[f] <=> IF Says(q, i, f, d) THEN c.add ELSE d \in s.k[f]
    BY <2>1, <1>1, <1>2 DEF Changed, Says
  <2>. HIDE DEF t, Says, bad, c
  <2>5. ASSUME NEW f \in Files, NEW d \in Dirs
        PROVE  /\ (\A j \in 1..i : ~Says(q, j, f, d)) => (d \in t.k[f] <=> d \in k0[f])
               /\ ~stop \/ t.errs = {} =>
                     /\ d \in t.k[f] => Latest(k0, q, i, f, d)
                     /\ f \notin R \/ t.errs = {} =>
                           (Latest(k0, q, i, f, d) => d \in t.k[f])
    BY <1>3, <1>5, <1>6, <1>8, <2>1, <2>4
  <2>6. t.errs \in SUBSET [file : Files, dir : Dirs, err : 1..i]
    BY <1>4, <2>1
  <2>. QED
    BY <2>2, <2>3, <2>5, <2>6 DEF Walked, t, c
<1>9. CASE ~(stop /\ s.errs # {}) /\ bad
  <2> DEFINE x == [file |-> c.file, dir |-> c.dir, err |-> s.n + 1]
  <2>1. t.k = s.k /\ t.n = s.n + 1 /\ t.errs = s.errs \cup {x}
    BY <1>9 DEF StepOf
  <2>2. t.n \in 0..i /\ s.n + 1 \in 1..i
    BY <2>1, <1>1, <1>2
  <2>3. x \in [file : Files, dir : Dirs, err : 1..i]
    BY <2>2, <1>1
  <2>4. t.errs \in SUBSET [file : Files, dir : Dirs, err : 1..i] /\ t.errs # {}
    <3>. HIDE DEF x, t
    <3>. QED
      BY <2>1, <2>3, <1>4
  <2>5. c.dir \notin s.k[c.file] /\ (c.add => c.file \in R)
    BY <1>9 DEF Fails
  <2>. HIDE DEF t, bad, x
  <2>6. ASSUME NEW f \in Files, NEW d \in Dirs, Says(q, i, f, d)
        PROVE  d \notin s.k[f] /\ (c.add => f \in R)
    BY <2>5, <2>6 DEF Says
  <2>. HIDE DEF Says, c
  <2>7. ASSUME NEW f \in Files, NEW d \in Dirs
        PROVE  /\ (\A j \in 1..i : ~Says(q, j, f, d)) => (d \in t.k[f] <=> d \in k0[f])
               /\ ~stop \/ t.errs = {} =>
                     /\ d \in t.k[f] => Latest(k0, q, i, f, d)
                     /\ f \notin R \/ t.errs = {} =>
                           (Latest(k0, q, i, f, d) => d \in t.k[f])
    BY <1>3, <1>5, <1>6, <2>1, <2>4, <2>6
  <2>. QED
    BY <1>2, <2>1, <2>2, <2>4, <2>7 DEF Walked, t, c
<1>. QED
  BY <1>7, <1>8, <1>9

\* What a call of kevent() returns.
LEMMA KeventWalks ==
    ASSUME NEW k0 \in [Files -> SUBSET Dirs], NEW q \in Seq(Change), NEW R,
           NEW stop \in BOOLEAN
    PROVE  Walked(Kevent(k0, q, R, stop), Len(q), k0, q, R, stop)
<1> DEFINE a == After(k0, q, R, stop)
           T == {i \in Nat : i <= Len(q) /\ ~Walked(a[i], i, k0, q, R, stop)}
<1>1. Len(q) \in Nat
  BY LenProperties
<1>2. /\ a[0] = Start(k0)
      /\ \A i \in 1..Len(q) : a[i] = StepOf(a[i - 1], q[i], R, stop)
  <2>1. Walks(a, Len(q), k0, q, R, stop)
    BY AfterWalks
  <2>. HIDE DEF a
  <2>2. \A i \in 0..Len(q) :
           a[i] = IF i = 0 THEN Start(k0) ELSE StepOf(a[i - 1], q[i], R, stop)
    BY <2>1, Zenon DEF Walks
  <2>. HIDE DEF Start, StepOf
  <2>. QED
    BY <1>1, <2>2
<1>. HIDE DEF a
<1>3. Walked(a[0], 0, k0, q, R, stop)
  BY <1>2, LatestOfNone DEF Walked, Start
<1>4. T = {}
  <2>1. SUFFICES ASSUME T # {} PROVE FALSE
    OBVIOUS
  <2>2. PICK n \in T : \A m \in T : n <= m
    <3>. T \in SUBSET Nat
      OBVIOUS
    <3>. HIDE DEF T
    <3>. QED
      BY <2>1, Least
  <2>3. n \in 1..Len(q) /\ n - 1 \in Nat /\ ~Walked(a[n], n, k0, q, R, stop)
    BY <1>1, <1>3
  <2>4. Walked(a[n - 1], n - 1, k0, q, R, stop)
    <3>1. n - 1 \notin T
      <4>. HIDE DEF T
      <4>. QED
        BY <2>2, <2>3
    <3>. HIDE DEF Walked
    <3>. QED
      BY <3>1, <2>3, <1>1
  <2>5. a[n] = StepOf(a[n - 1], q[n], R, stop)
    BY <1>2, <2>3
  <2>. HIDE DEF T
  <2>6. Walked(StepOf(a[n - 1], q[n], R, stop), n, k0, q, R, stop)
    BY <2>3, <2>4, WalkedStep
  <2>. QED
    BY <2>3, <2>5, <2>6, Zenon
<1>5. Walked(a[Len(q)], Len(q), k0, q, R, stop)
  <2>. HIDE DEF Walked
  <2>. QED
    BY <1>1, <1>4
<1>6. Kevent(k0, q, R, stop) = a[Len(q)]
  BY KeventIsAfter DEF a
<1>. QED
  BY <1>5, <1>6, Zenon

-----------------------------------------------------------------------------
(***************************************************************************)
(* The state a backend call works on, and the filters the kernel will have *)
(* once it has the list.                                                   *)
(***************************************************************************)

PartState ==
    [m : SUBSET Dirs, k : [Files -> SUBSET Dirs], c : Seq(Change), n : Int,
     lost : SUBSET (Files \X Dirs)]

Roomy(s) == s \in PartState /\ Len(s.c) <= ChangeMax

Pending(s, f, d) == Latest(s.k, s.c, Len(s.c), f, d)

LEMMA LatestPrefix ==
    ASSUME NEW k, NEW q, NEW r, NEW n \in Nat, \A i \in 1..n : q[i] = r[i],
           NEW f, NEW d
    PROVE  Latest(k, q, n, f, d) <=> Latest(k, r, n, f, d)
<1>1. \A i \in 1..n : (Says(q, i, f, d) <=> Says(r, i, f, d)) /\ q[i].add = r[i].add
  BY DEF Says
<1>2. \A j \in 1..n : \A l \in (j + 1)..n : l \in 1..n
  OBVIOUS
<1>. HIDE DEF Says
<1>. QED
  BY <1>1, <1>2 DEF Latest

\* A change put at the end decides about its own filter and about no other.
LEMMA LatestAppend ==
    ASSUME NEW k, NEW q \in Seq(Change), NEW x \in Change, NEW f, NEW d
    PROVE  Latest(k, Append(q, x), Len(Append(q, x)), f, d)
              <=> IF x.file = f /\ x.dir = d THEN x.add
                  ELSE Latest(k, q, Len(q), f, d)
<1> DEFINE r == Append(q, x)
           n == Len(q)
<1>1. /\ n \in Nat /\ n + 1 \in Nat \ {0} /\ (n + 1) - 1 = n
      /\ Len(r) = n + 1
      /\ r[n + 1] = x
      /\ \A i \in 1..n : r[i] = q[i]
  BY AppendProperties, LenProperties
<1>. HIDE DEF r, n
<1>2. Latest(k, r, n, f, d) <=> Latest(k, q, n, f, d)
  BY <1>1, LatestPrefix
<1>3. Says(r, n + 1, f, d) <=> x.file = f /\ x.dir = d
  BY <1>1, Zenon DEF Says
<1>4. /\ Says(r, n + 1, f, d) => (Latest(k, r, n + 1, f, d) <=> r[n + 1].add)
      /\ ~Says(r, n + 1, f, d) =>
            (Latest(k, r, n + 1, f, d) <=> Latest(k, r, (n + 1) - 1, f, d))
  BY <1>1, LatestStep
<1>5. Latest(k, r, n + 1, f, d)
         <=> IF x.file = f /\ x.dir = d THEN x.add ELSE Latest(k, q, n, f, d)
  BY <1>1, <1>2, <1>3, <1>4
<1>. QED
  BY <1>1, <1>5 DEF r, n

\* A flush changes no filter the kernel will have: not when it succeeds, and not
\* when it fails half way and the whole list stays.
LEMMA FlushKeeps ==
    ASSUME NEW s, Roomy(s), NEW R
    PROVE  LET t == Fflush(s, R)
           IN  /\ Roomy(t)
               /\ t.m = s.m /\ t.n = s.n /\ t.lost = s.lost
               /\ \A f \in Files : \A d \in Dirs : Pending(t, f, d) <=> Pending(s, f, d)
<1> DEFINE r == Kevent(s.k, s.c, R, TRUE)
           c == IF r.errs = {} THEN <<>> ELSE s.c
           t == Fflush(s, R)
<1>1. s \in PartState /\ Len(s.c) <= ChangeMax /\ s.k \in [Files -> SUBSET Dirs] /\ s.c \in Seq(Change)
  BY DEF Roomy, PartState
<1>2. Walked(r, Len(s.c), s.k, s.c, R, TRUE)
  BY <1>1, KeventWalks
<1>. HIDE DEF r
<1>3. r.k \in [Files -> SUBSET Dirs]
  BY <1>2 DEF Walked
<1>4. c \in Seq(Change) /\ Len(c) <= ChangeMax
  BY <1>1, KqueueAssumption, EmptySeq DEF KqueueAssumption
<1>5. t = [s EXCEPT !.k = r.k, !.c = c]
  BY DEF Fflush, r
<1>. HIDE DEF c, t
<1>6. /\ t \in PartState
      /\ t.k = r.k /\ t.c = c
      /\ t.m = s.m /\ t.n = s.n /\ t.lost = s.lost
  BY <1>1, <1>3, <1>4, <1>5 DEF PartState
<1>7. ASSUME NEW f \in Files, NEW d \in Dirs
      PROVE  Pending(t, f, d) <=> Pending(s, f, d)
  <2>1. CASE r.errs = {}
    <3>1. c = <<>> /\ Len(c) = 0
      BY <2>1, EmptySeq DEF c
    <3>2. Pending(t, f, d) <=> d \in r.k[f]
      BY <1>6, <3>1, LatestOfNone DEF Pending
    <3>3. d \in r.k[f] <=> Latest(s.k, s.c, Len(s.c), f, d)
      BY <1>2, <2>1 DEF Walked
    <3>. QED
      BY <3>2, <3>3 DEF Pending
  <2>2. CASE r.errs # {}
    <3>1. t.c = s.c
      BY <1>6, <2>2 DEF c
    <3>2. (\A j \in 1..Len(s.c) : ~Says(s.c, j, f, d)) => (d \in r.k[f] <=> d \in s.k[f])
      BY <1>2 DEF Walked
    <3>. HIDE DEF Says
    <3>. QED
      BY <1>6, <3>1, <3>2 DEF Pending, Latest
  <2>. QED
    BY <2>1, <2>2
<1>. QED
  BY <1>4, <1>6, <1>7 DEF Roomy, t

-----------------------------------------------------------------------------
(***************************************************************************)
(* One addition or deletion.                                               *)
(***************************************************************************)

Share(m) == IF m = {} THEN 0 ELSE 1

\* Only the mask's bit and the filter of the direction itself can change: both
\* to what is asked, or neither, if there was no room.
Done(s, t, f, d, add) ==
    /\ Roomy(t)
    /\ \A g \in Files : \A e \in Dirs : <<g, e>> # <<f, d>> =>
          /\ Pending(t, g, e) <=> Pending(s, g, e)
          /\ <<g, e>> \in t.lost <=> <<g, e>> \in s.lost
    /\ \A e \in Dirs : e # d => (e \in t.m <=> e \in s.m)
    /\ \/ /\ <<f, d>> \in t.lost
          /\ Pending(t, f, d) <=> Pending(s, f, d)
          /\ d \in t.m <=> d \in s.m
       \/ /\ <<f, d>> \notin t.lost
          /\ Pending(t, f, d) <=> add
          /\ d \in t.m <=> add
    /\ (d \in s.m <=> ~add) => t.n - Share(t.m) = s.n - Share(s.m)

\* What both do before they look for room.
LEMMA RoomKeeps ==
    ASSUME NEW s, Roomy(s), NEW R
    PROVE  LET t == MakeRoom(s, R)
           IN  /\ Roomy(t)
               /\ t.m = s.m /\ t.n = s.n /\ t.lost = s.lost
               /\ \A f \in Files : \A d \in Dirs : Pending(t, f, d) <=> Pending(s, f, d)
BY FlushKeeps, Zenon DEF MakeRoom

LEMMA OtherIs == Other(READ) = WRITE /\ Other(WRITE) = READ
BY DEF Other, Dirs, READ, WRITE

\* fdcount goes with the mask, although the code looks at the other direction
\* only.
LEMMA ShareStep ==
    ASSUME NEW m \in SUBSET Dirs, NEW d \in Dirs, NEW n \in Int
    PROVE  /\ d \notin m => (IF Other(d) \in m THEN n ELSE n + 1) - Share(m \cup {d}) = n - Share(m)
           /\ d \in m => (IF Other(d) \in m THEN n ELSE n - 1) - Share(m \ {d}) = n - Share(m)
<1>1. Other(d) \in Dirs /\ Other(d) # d /\ \A e \in Dirs : e = d \/ e = Other(d)
  BY OtherIs DEF Dirs, READ, WRITE
<1>2. Share(m \cup {d}) = 1
  BY DEF Share
<1>3. d \notin m => (m = {} <=> Other(d) \notin m)
  BY <1>1
<1>4. m \ {d} = {} <=> Other(d) \notin m
  BY <1>1
<1>5. d \in m => m # {}
  OBVIOUS
<1>. QED
  BY <1>2, <1>3, <1>4, <1>5 DEF Share

\* What is put into the list, and the mask and counter with it.
PutTo(s, t, f, d, add, m, n) ==
    /\ Roomy(t)
    /\ t.m = m /\ t.n = n /\ t.lost = s.lost \ {<<f, d>>}
    /\ \A g, e : Pending(t, g, e) <=> IF <<g, e>> = <<f, d>> THEN add
                                      ELSE Pending(s, g, e)

LEMMA PutIn ==
    ASSUME NEW s, Roomy(s), ~Full(s), NEW f \in Files, NEW d \in Dirs, NEW add \in BOOLEAN,
           NEW m \in SUBSET Dirs, NEW n \in Int, NEW t,
           t = [Put(s, f, d, add) EXCEPT !.m = m, !.n = n]
    PROVE  PutTo(s, t, f, d, add, m, n)
<1> DEFINE x == [file |-> f, dir |-> d, add |-> add]
           c == Append(s.c, x)
           o == s.lost \ {<<f, d>>}
           p == [s EXCEPT !.c = c, !.lost = o]
<1>1. s \in PartState /\ s.c \in Seq(Change) /\ s.lost \in SUBSET (Files \X Dirs) /\ s.k \in [Files -> SUBSET Dirs]
  BY DEF Roomy, PartState
<1>2. x \in Change /\ x.file = f /\ x.dir = d /\ x.add = add
  BY DEF Change
<1>3. c \in Seq(Change) /\ Len(c) = Len(s.c) + 1 /\ Len(s.c) \in Nat
  <2>. HIDE DEF x
  <2>. QED
    BY <1>1, <1>2, AppendProperties, LenProperties
<1>4. Len(c) <= ChangeMax
  BY <1>3, KqueueAssumption DEF Full, KqueueAssumption
<1>5. o \in SUBSET (Files \X Dirs)
  BY <1>1
<1>6. Put(s, f, d, add) = p
  BY DEF Put
<1>7. ASSUME NEW g, NEW e
      PROVE  Latest(s.k, c, Len(c), g, e) <=> IF <<g, e>> = <<f, d>> THEN add
                                              ELSE Latest(s.k, s.c, Len(s.c), g, e)
  <2>. HIDE DEF x
  <2>1. Latest(s.k, c, Len(c), g, e) <=> IF x.file = g /\ x.dir = e THEN x.add
                                         ELSE Latest(s.k, s.c, Len(s.c), g, e)
    BY <1>1, <1>2, LatestAppend
  <2>. QED
    BY <1>2, <2>1
<1>. HIDE DEF c, o, x
<1>8. p \in PartState /\ p.c = c /\ p.k = s.k /\ p.lost = o
  BY <1>1, <1>3, <1>5 DEF PartState
<1>. HIDE DEF p
<1>9. t = [p EXCEPT !.m = m, !.n = n]
  BY <1>6
<1>10. t \in PartState /\ t.c = c /\ t.k = s.k /\ t.lost = o /\ t.m = m /\ t.n = n
  BY <1>8, <1>9 DEF PartState
<1>11. \A g, e : Pending(t, g, e) <=> IF <<g, e>> = <<f, d>> THEN add ELSE Pending(s, g, e)
  BY <1>7, <1>10, Zenon DEF Pending
<1>. QED
  BY <1>4, <1>10, <1>11 DEF PutTo, Roomy, o

\* What is dropped for want of room.
LEMMA Dropped ==
    ASSUME NEW s, Roomy(s), NEW f \in Files, NEW d \in Dirs, NEW t,
           t = [s EXCEPT !.lost = @ \cup {<<f, d>>}]
    PROVE  /\ Roomy(t)
           /\ t.m = s.m /\ t.n = s.n /\ t.lost = s.lost \cup {<<f, d>>}
           /\ \A g, e : Pending(t, g, e) <=> Pending(s, g, e)
<1> DEFINE o == s.lost \cup {<<f, d>>}
<1>1. s \in PartState /\ s.lost \in SUBSET (Files \X Dirs) /\ Len(s.c) <= ChangeMax
  BY DEF Roomy, PartState
<1>2. o \in SUBSET (Files \X Dirs) /\ t = [s EXCEPT !.lost = o]
  BY <1>1
<1>. HIDE DEF o
<1>3. t \in PartState /\ t.c = s.c /\ t.k = s.k /\ t.m = s.m /\ t.n = s.n /\ t.lost = o
  BY <1>1, <1>2 DEF PartState
<1>4. \A g, e : Pending(t, g, e) <=> Pending(s, g, e)
  BY <1>3, Zenon DEF Pending
<1>. QED
  BY <1>1, <1>3, <1>4 DEF Roomy, o

LEMMA KqueueAddDone ==
    ASSUME NEW s, Roomy(s), NEW f \in Files, NEW d \in Dirs, NEW R
    PROVE  Done(s, KqueueAdd(s, f, d, R), f, d, TRUE)
<1> DEFINE r == MakeRoom(s, R)
           m == s.m \cup {d}
           n == IF Other(d) \in s.m THEN s.n ELSE s.n + 1
           t == KqueueAdd(s, f, d, R)
<1>1. /\ Roomy(r)
      /\ r.m = s.m /\ r.n = s.n /\ r.lost = s.lost
      /\ \A g \in Files : \A e \in Dirs : Pending(r, g, e) <=> Pending(s, g, e)
  BY RoomKeeps, Zenon
<1>2. s.m \in SUBSET Dirs /\ s.n \in Int /\ r \in PartState
  BY <1>1 DEF Roomy, PartState
<1>3. d \notin s.m => n - Share(m) = s.n - Share(s.m)
  BY <1>2, ShareStep
<1>4. m \in SUBSET Dirs /\ n \in Int
  BY <1>2
<1>. HIDE DEF r, m, n
<1>5. CASE Full(r)
  <2>1. t = [r EXCEPT !.lost = @ \cup {<<f, d>>}]
    BY <1>5 DEF KqueueAdd, r
  <2>. HIDE DEF t
  <2>. HIDE DEF Roomy, Pending
  <2>2. /\ Roomy(t)
        /\ t.m = r.m /\ t.n = r.n /\ t.lost = r.lost \cup {<<f, d>>}
        /\ \A g, e : Pending(t, g, e) <=> Pending(r, g, e)
    BY <1>1, <2>1, Dropped
  <2>. QED
    BY <1>1, <1>2, <2>2 DEF Done, t
<1>6. CASE ~Full(r)
  <2> DEFINE p == Put(r, f, d, TRUE)
  <2>1. t = [p EXCEPT !.m = @ \cup {d}, !.n = IF Other(d) \in s.m THEN @ ELSE @ + 1]
    BY <1>6 DEF KqueueAdd, r
  <2>2. p.m = s.m /\ p.n = s.n
    BY <1>1, <1>2 DEF Put, PartState
  <2>. HIDE DEF p
  <2>3. t = [p EXCEPT !.m = m, !.n = n]
    BY <2>1, <2>2 DEF m, n
  <2>. HIDE DEF t
  <2>. HIDE DEF Roomy, Pending, Full
  <2>4. /\ Roomy(t)
        /\ t.m = m /\ t.n = n /\ t.lost = r.lost \ {<<f, d>>}
        /\ \A g, e : Pending(t, g, e) <=> IF <<g, e>> = <<f, d>> THEN TRUE
                                          ELSE Pending(r, g, e)
    <3>1. Roomy(r) /\ TRUE \in BOOLEAN
      BY <1>1
    <3>2. t = [Put(r, f, d, TRUE) EXCEPT !.m = m, !.n = n]
      BY <2>3 DEF p
    <3>3. PutTo(r, t, f, d, TRUE, m, n)
      BY <3>1, <3>2, <1>4, <1>6, PutIn, Zenon
    <3>. QED
      BY <3>3 DEF PutTo
  <2>5. \A e \in Dirs : e # d => (e \in t.m <=> e \in s.m)
    BY <2>4 DEF m
  <2>6. d \in t.m
    BY <2>4 DEF m
  <2>. HIDE DEF Roomy, Pending
  <2>. QED
    BY <1>1, <1>3, <2>4, <2>5, <2>6 DEF Done, t
<1>. QED
  BY <1>5, <1>6

LEMMA KqueueDelDone ==
    ASSUME NEW s, Roomy(s), NEW f \in Files, NEW d \in Dirs, NEW R
    PROVE  Done(s, KqueueDel(s, f, d, R), f, d, FALSE)
<1> DEFINE r == MakeRoom(s, R)
           m == s.m \ {d}
           n == IF Other(d) \in s.m THEN s.n ELSE s.n - 1
           t == KqueueDel(s, f, d, R)
<1>1. /\ Roomy(r)
      /\ r.m = s.m /\ r.n = s.n /\ r.lost = s.lost
      /\ \A g \in Files : \A e \in Dirs : Pending(r, g, e) <=> Pending(s, g, e)
  BY RoomKeeps, Zenon
<1>2. s.m \in SUBSET Dirs /\ s.n \in Int /\ r \in PartState
  BY <1>1 DEF Roomy, PartState
<1>3. d \in s.m => n - Share(m) = s.n - Share(s.m)
  BY <1>2, ShareStep
<1>4. m \in SUBSET Dirs /\ n \in Int
  BY <1>2
<1>. HIDE DEF r, m, n
<1>5. CASE Full(r)
  <2>1. t = [r EXCEPT !.lost = @ \cup {<<f, d>>}]
    BY <1>5 DEF KqueueDel, r
  <2>. HIDE DEF t
  <2>. HIDE DEF Roomy, Pending
  <2>2. /\ Roomy(t)
        /\ t.m = r.m /\ t.n = r.n /\ t.lost = r.lost \cup {<<f, d>>}
        /\ \A g, e : Pending(t, g, e) <=> Pending(r, g, e)
    BY <1>1, <2>1, Dropped
  <2>. QED
    BY <1>1, <1>2, <2>2 DEF Done, t
<1>6. CASE ~Full(r)
  <2> DEFINE p == Put(r, f, d, FALSE)
  <2>1. t = [p EXCEPT !.m = @ \ {d}, !.n = IF Other(d) \in s.m THEN @ ELSE @ - 1]
    BY <1>6 DEF KqueueDel, r
  <2>2. p.m = s.m /\ p.n = s.n
    BY <1>1, <1>2 DEF Put, PartState
  <2>. HIDE DEF p
  <2>3. t = [p EXCEPT !.m = m, !.n = n]
    BY <2>1, <2>2 DEF m, n
  <2>. HIDE DEF t
  <2>. HIDE DEF Roomy, Pending, Full
  <2>4. /\ Roomy(t)
        /\ t.m = m /\ t.n = n /\ t.lost = r.lost \ {<<f, d>>}
        /\ \A g, e : Pending(t, g, e) <=> IF <<g, e>> = <<f, d>> THEN FALSE
                                          ELSE Pending(r, g, e)
    <3>1. Roomy(r) /\ FALSE \in BOOLEAN
      BY <1>1
    <3>2. t = [Put(r, f, d, FALSE) EXCEPT !.m = m, !.n = n]
      BY <2>3 DEF p
    <3>3. PutTo(r, t, f, d, FALSE, m, n)
      BY <3>1, <3>2, <1>4, <1>6, PutIn, Zenon
    <3>. QED
      BY <3>3 DEF PutTo
  <2>5. \A e \in Dirs : e # d => (e \in t.m <=> e \in s.m)
    BY <2>4 DEF m
  <2>6. d \notin t.m
    BY <2>4 DEF m
  <2>. HIDE DEF Roomy, Pending
  <2>. QED
    BY <1>1, <1>3, <2>4, <2>5, <2>6 DEF Done, t
<1>. QED
  BY <1>5, <1>6

-----------------------------------------------------------------------------
(***************************************************************************)
(* The calls on one file, in the order of the code.                        *)
(***************************************************************************)

\* The filters the kernel will have are the mask.
Kept(s, f) ==
    \A e \in Dirs : /\ Pending(s, f, e) => e \in s.m
                    /\ f \notin Refusable /\ e \in s.m => Pending(s, f, e)

\* What a set of calls comes to: the core's backend if nothing is dropped; the
\* counter goes with the mask if no call asks for what is so already.
Calls(s, t, f, ops) ==
    /\ Roomy(t)
    /\ \A g \in Files \ {f} : \A e \in Dirs : Pending(t, g, e) <=> Pending(s, g, e)
    /\ Kept(s, f) => Kept(t, f)
    /\ t.lost = {} => t.m = (s.m \ Deleted(ops)) \cup Added(ops)
    /\ Deleted(ops) \subseteq s.m /\ Added(ops) \cap s.m = {} =>
          t.n - Share(t.m) = s.n - Share(s.m)

\* A call that is made or not.
Maybe(s, t, f, d, add, made) ==
    IF made THEN Done(s, t, f, d, add) ELSE t = s

\* What is known of it.
Effect(s, t, f, d, add, made) ==
    /\ Roomy(t)
    /\ \A g \in Files \ {f} : \A e \in Dirs : Pending(t, g, e) <=> Pending(s, g, e)
    /\ Kept(s, f) => Kept(t, f)
    /\ \A e \in Dirs : e # d => /\ e \in t.m <=> e \in s.m
                                /\ <<f, e>> \in t.lost <=> <<f, e>> \in s.lost
    /\ made /\ <<f, d>> \notin t.lost => (d \in t.m <=> add)
    /\ made /\ (d \in s.m <=> ~add) => t.n - Share(t.m) = s.n - Share(s.m)
    /\ ~made => t = s

LEMMA MaybeKeeps ==
    ASSUME NEW s, Roomy(s), NEW f \in Files, NEW d \in Dirs, NEW add \in BOOLEAN,
           NEW made \in BOOLEAN, NEW t, Maybe(s, t, f, d, add, made)
    PROVE  Effect(s, t, f, d, add, made)
<1>. HIDE DEF Roomy, Pending
<1>1. CASE made
  <2>1. Done(s, t, f, d, add)
    BY <1>1 DEF Maybe
  <2>2. \A e \in Dirs : e # d => /\ Pending(t, f, e) <=> Pending(s, f, e)
                                 /\ e \in t.m <=> e \in s.m
                                 /\ <<f, e>> \in t.lost <=> <<f, e>> \in s.lost
    BY <2>1 DEF Done
  <2>3. \/ (Pending(t, f, d) <=> Pending(s, f, d)) /\ (d \in t.m <=> d \in s.m)
        \/ (Pending(t, f, d) <=> add) /\ (d \in t.m <=> add)
    BY <2>1 DEF Done
  <2>4. Kept(s, f) => Kept(t, f)
    BY <2>2, <2>3 DEF Kept
  <2>5. \A g \in Files \ {f} : \A e \in Dirs : Pending(t, g, e) <=> Pending(s, g, e)
    BY <2>1 DEF Done
  <2>6. <<f, d>> \notin t.lost => (d \in t.m <=> add)
    BY <2>1 DEF Done
  <2>7. Roomy(t) /\ ((d \in s.m <=> ~add) => t.n - Share(t.m) = s.n - Share(s.m))
    BY <2>1 DEF Done
  <2>. QED
    BY <1>1, <2>2, <2>4, <2>5, <2>6, <2>7 DEF Effect
<1>2. CASE ~made
  BY <1>2 DEF Maybe, Effect
<1>. QED
  BY <1>1, <1>2

LEMMA FourCalls ==
    ASSUME NEW f \in Files, NEW ops, NEW s0, Roomy(s0), NEW s1, NEW s2, NEW s3, NEW s4,
           Maybe(s0, s1, f, READ, FALSE, DelOp(READ) \in ops),
           Maybe(s1, s2, f, WRITE, FALSE, DelOp(WRITE) \in ops),
           Maybe(s2, s3, f, READ, TRUE, AddOp(READ) \in ops),
           Maybe(s3, s4, f, WRITE, TRUE, AddOp(WRITE) \in ops)
    PROVE  Calls(s0, s4, f, ops)
<1>. HIDE DEF Roomy, Pending, Kept
<1>1. READ \in Dirs /\ WRITE \in Dirs /\ READ # WRITE /\ \A e \in Dirs : e = READ \/ e = WRITE
  BY DEF Dirs, READ, WRITE
<1> DEFINE DR == DelOp(READ) \in ops
           DW == DelOp(WRITE) \in ops
           AR == AddOp(READ) \in ops
           AW == AddOp(WRITE) \in ops
<1>2. DR \in BOOLEAN /\ DW \in BOOLEAN /\ AR \in BOOLEAN /\ AW \in BOOLEAN
  OBVIOUS
<1>3. /\ Maybe(s0, s1, f, READ, FALSE, DR) /\ Maybe(s1, s2, f, WRITE, FALSE, DW)
      /\ Maybe(s2, s3, f, READ, TRUE, AR) /\ Maybe(s3, s4, f, WRITE, TRUE, AW)
  OBVIOUS
<1>4. /\ READ \in Deleted(ops) <=> DR
      /\ WRITE \in Deleted(ops) <=> DW
      /\ READ \in Added(ops) <=> AR
      /\ WRITE \in Added(ops) <=> AW
  BY <1>1 DEF Deleted, Added
<1>. HIDE DEF DR, DW, AR, AW
<1>5. Effect(s0, s1, f, READ, FALSE, DR) /\ Roomy(s1)
  <2>1. Effect(s0, s1, f, READ, FALSE, DR)
    BY <1>1, <1>2, <1>3, MaybeKeeps, Zenon
  <2>. QED
    BY <2>1 DEF Effect
<1>6. Effect(s1, s2, f, WRITE, FALSE, DW) /\ Roomy(s2)
  <2>1. Effect(s1, s2, f, WRITE, FALSE, DW)
    BY <1>1, <1>2, <1>3, <1>5, MaybeKeeps, Zenon
  <2>. QED
    BY <2>1 DEF Effect
<1>7. Effect(s2, s3, f, READ, TRUE, AR) /\ Roomy(s3)
  <2>1. Effect(s2, s3, f, READ, TRUE, AR)
    BY <1>1, <1>2, <1>3, <1>6, MaybeKeeps, Zenon
  <2>. QED
    BY <2>1 DEF Effect
<1>8. Effect(s3, s4, f, WRITE, TRUE, AW) /\ Roomy(s4)
  <2>1. Effect(s3, s4, f, WRITE, TRUE, AW)
    BY <1>1, <1>2, <1>3, <1>7, MaybeKeeps, Zenon
  <2>. QED
    BY <2>1 DEF Effect
<1>9. \A g \in Files \ {f} : \A e \in Dirs : Pending(s4, g, e) <=> Pending(s0, g, e)
  BY <1>5, <1>6, <1>7, <1>8 DEF Effect
<1>10. Kept(s0, f) => Kept(s4, f)
  BY <1>5, <1>6, <1>7, <1>8 DEF Effect
<1>11. /\ READ \in s2.m <=> READ \in s1.m
       /\ READ \in s4.m <=> READ \in s3.m
       /\ WRITE \in s1.m <=> WRITE \in s0.m
       /\ WRITE \in s3.m <=> WRITE \in s2.m
       /\ <<f, READ>> \in s2.lost <=> <<f, READ>> \in s1.lost
       /\ <<f, READ>> \in s4.lost <=> <<f, READ>> \in s3.lost
       /\ <<f, WRITE>> \in s3.lost <=> <<f, WRITE>> \in s2.lost
  BY <1>1, <1>5, <1>6, <1>7, <1>8 DEF Effect
<1>12. ASSUME s4.lost = {} PROVE s4.m = (s0.m \ Deleted(ops)) \cup Added(ops)
  <2>1. <<f, READ>> \notin s4.lost /\ <<f, WRITE>> \notin s4.lost
    BY <1>12
  <2>2. READ \in s4.m <=> AR \/ (~DR /\ READ \in s0.m)
    BY <1>5, <1>7, <1>11, <2>1 DEF Effect
  <2>3. WRITE \in s4.m <=> AW \/ (~DW /\ WRITE \in s0.m)
    BY <1>6, <1>8, <1>11, <2>1 DEF Effect
  <2>4. s4.m \subseteq Dirs /\ s0.m \subseteq Dirs /\ Added(ops) \subseteq Dirs
    BY <1>8, BitsAreDirs DEF Roomy, PartState
  <2>. QED
    BY <1>1, <1>4, <2>2, <2>3, <2>4
<1>13. ASSUME Deleted(ops) \subseteq s0.m, Added(ops) \cap s0.m = {}
       PROVE  s4.n - Share(s4.m) = s0.n - Share(s0.m)
  <2>1. /\ DR => READ \in s0.m
        /\ DW => WRITE \in s0.m
        /\ AR => READ \notin s0.m
        /\ AW => WRITE \notin s0.m
    BY <1>4, <1>13
  <2>2. s1.n - Share(s1.m) = s0.n - Share(s0.m)
    BY <1>5, <2>1 DEF Effect
  <2>3. s2.n - Share(s2.m) = s1.n - Share(s1.m)
    BY <1>6, <1>11, <2>1 DEF Effect
  <2>4. s3.n - Share(s3.m) = s2.n - Share(s2.m)
    BY <1>5, <1>7, <1>11, <2>1 DEF Effect
  <2>5. s4.n - Share(s4.m) = s3.n - Share(s3.m)
    BY <1>6, <1>8, <1>11, <2>1 DEF Effect
  <2>. QED
    BY <2>2, <2>3, <2>4, <2>5
<1>. QED
  BY <1>8, <1>9, <1>10, <1>12, <1>13 DEF Calls


\* The calls of nio_event_prepare and nio_event_del_readwrite on a file.
LEMMA CalledIs ==
    ASSUME NEW f \in Files, Roomy(Part(f)), NEW ops, NEW R
    PROVE  Calls(Part(f), KqueueCalled(f, ops, R), f, ops)
<1> DEFINE s0 == Part(f)
           s1 == IF DelOp(READ) \in ops THEN KqueueDel(s0, f, READ, R) ELSE s0
           s2 == IF DelOp(WRITE) \in ops THEN KqueueDel(s1, f, WRITE, R) ELSE s1
           s3 == IF AddOp(READ) \in ops THEN KqueueAdd(s2, f, READ, R) ELSE s2
           s4 == IF AddOp(WRITE) \in ops THEN KqueueAdd(s3, f, WRITE, R) ELSE s3
<1>1. READ \in Dirs /\ WRITE \in Dirs
  BY DEF Dirs
<1>2. KqueueCalled(f, ops, R) = s4
  BY Zenon DEF KqueueCalled
<1>3. \A s, t : \A d \in Dirs : \A add, made \in BOOLEAN :
         Roomy(s) /\ Maybe(s, t, f, d, add, made) => Roomy(t)
  <2>. HIDE DEF Roomy
  <2>1. SUFFICES ASSUME NEW s, NEW t, NEW d \in Dirs, NEW add \in BOOLEAN,
                        NEW made \in BOOLEAN, Roomy(s), Maybe(s, t, f, d, add, made)
                 PROVE  Roomy(t)
    OBVIOUS
  <2>2. Effect(s, t, f, d, add, made)
    BY <2>1, MaybeKeeps, Zenon
  <2>. QED
    BY <2>2 DEF Effect
<1>. HIDE DEF s0, Roomy
<1>4. Maybe(s0, s1, f, READ, FALSE, DelOp(READ) \in ops) /\ Roomy(s0)
  BY <1>1, KqueueDelDone, Zenon DEF Maybe, s0
<1>5. Roomy(s1)
  BY <1>1, <1>3, <1>4, Zenon
<1>. HIDE DEF s1
<1>6. Maybe(s1, s2, f, WRITE, FALSE, DelOp(WRITE) \in ops)
  BY <1>1, <1>5, KqueueDelDone, Zenon DEF Maybe
<1>7. Roomy(s2)
  BY <1>1, <1>3, <1>5, <1>6, Zenon
<1>. HIDE DEF s2
<1>8. Maybe(s2, s3, f, READ, TRUE, AddOp(READ) \in ops)
  BY <1>1, <1>7, KqueueAddDone, Zenon DEF Maybe
<1>9. Roomy(s3)
  BY <1>1, <1>3, <1>7, <1>8, Zenon
<1>. HIDE DEF s3
<1>10. Maybe(s3, s4, f, WRITE, TRUE, AddOp(WRITE) \in ops)
  BY <1>1, <1>9, KqueueAddDone, Zenon DEF Maybe
<1>. HIDE DEF s4
<1>11. Calls(s0, s4, f, ops)
  BY <1>4, <1>6, <1>8, <1>10, FourCalls, Zenon
<1>. QED
  BY <1>2, <1>11, Zenon DEF s0

\* The flush of nio_event_del_readwrite after them.
LEMMA FlushedIs ==
    ASSUME NEW s, NEW t, NEW f \in Files, NEW ops, NEW R, Calls(s, t, f, ops)
    PROVE  Calls(s, Fflush(t, R), f, ops)
<1> DEFINE r == Fflush(t, R)
<1>1. /\ Roomy(r)
      /\ r.m = t.m /\ r.n = t.n /\ r.lost = t.lost
      /\ \A g \in Files : \A e \in Dirs : Pending(r, g, e) <=> Pending(t, g, e)
  <2>1. Roomy(t)
    BY DEF Calls
  <2>. QED
    BY <2>1, FlushKeeps, Zenon
<1>. HIDE DEF r, Roomy, Pending
<1>2. Kept(t, f) => Kept(r, f)
  BY <1>1 DEF Kept
<1>3. Calls(s, r, f, ops)
  BY <1>1, <1>2 DEF Calls
<1>. QED
  BY <1>3 DEF r

LEMMA NoneCalled ==
    ASSUME NEW f, NEW R
    PROVE  KqueueCalled(f, {}, R) = Part(f)
BY DEF KqueueCalled

-----------------------------------------------------------------------------
(***************************************************************************)
(* The inductive invariant.                                                *)
(***************************************************************************)

Coming(f, d) == Latest(kern, changes, Len(changes), f, d)

FiltersAreMask ==
    \A f \in Files : \A d \in Dirs :
        /\ Coming(f, d) => d \in mask[f]
        /\ f \notin Refusable /\ d \in mask[f] => Coming(f, d)

WatchedFiles == {f \in Files : mask[f] # {}}

Counted == IsFiniteSet(WatchedFiles) /\ fdcount = Cardinality(WatchedFiles)

\* Nothing is put off that is so already, but for an addition in ONESHOT mode.
NotTwice(f) ==
    LET o == oper[f]
    IN  /\ Deleted(o) \cap Added(o) = {}
        /\ Deleted(o) \subseteq mask[f]
        /\ Direct => Deleted(o) = {}
        /\ ~Direct /\ ~Oneshot => Added(o) \cap mask[f] = {}

\* Callbacks run inside the backend's wait.
InWait == cur # NULL => stage = "event_wait"

KqueueInv ==
    /\ KqueueTypeOK
    /\ Len(changes) <= ChangeMax
    /\ FiltersAreMask
    /\ ~Oneshot => Counted
    /\ Direct => events = {}
    /\ \A f \in Files : NotTwice(f)
    /\ InWait

LEMMA PartIs ==
    ASSUME KqueueInv, NEW f \in Files
    PROVE  /\ Roomy(Part(f))
           /\ Kept(Part(f), f)
           /\ \A g, e : Pending(Part(f), g, e) <=> Coming(g, e)
           /\ Part(f).m = mask[f] /\ Part(f).n = fdcount /\ Part(f).lost = lost
<1> DEFINE s == Part(f)
<1>1. s.m = mask[f] /\ s.k = kern /\ s.c = changes /\ s.n = fdcount /\ s.lost = lost
  BY DEF Part
<1>2. s \in PartState
  BY DEF KqueueInv, KqueueTypeOK, TypeOK, Part, PartState
<1>. HIDE DEF s
<1>3. \A g, e : Pending(s, g, e) <=> Coming(g, e)
  BY <1>1, Zenon DEF Pending, Coming
<1>4. Roomy(s)
  BY <1>1, <1>2 DEF Roomy, KqueueInv
<1>5. Kept(s, f)
  <2>1. FiltersAreMask
    BY DEF KqueueInv
  <2>. HIDE DEF Pending, Coming
  <2>. QED
    BY <2>1, <1>1, <1>3 DEF Kept, FiltersAreMask
<1>. QED
  BY <1>1, <1>3, <1>4, <1>5 DEF s

\* A file added to or removed from the watched ones changes their number by one.
LEMMA CountStep ==
    ASSUME TypeOK, Counted, NEW f \in Files, NEW M, NEW n \in Int,
           mask' = [mask EXCEPT ![f] = M], fdcount' = n, fdcount \in Int,
           n - Share(M) = fdcount - Share(mask[f])
    PROVE  Counted'
<1>1. IsFiniteSet(WatchedFiles) /\ fdcount = Cardinality(WatchedFiles)
  BY DEF Counted
<1>2. mask \in [Files -> SUBSET Dirs]
  BY DEF TypeOK
<1>3. CASE M # {} /\ mask[f] = {}
  <2>1. WatchedFiles' = WatchedFiles \cup {f} /\ f \notin WatchedFiles
    BY <1>2, <1>3 DEF WatchedFiles
  <2>2. IsFiniteSet(WatchedFiles \cup {f}) /\ Cardinality(WatchedFiles \cup {f}) = Cardinality(WatchedFiles) + 1
    BY <1>1, <2>1, FS_AddElement
  <2>3. n = fdcount + 1
    BY <1>3 DEF Share
  <2>. QED
    BY <1>1, <2>1, <2>2, <2>3 DEF Counted
<1>4. CASE M = {} /\ mask[f] # {}
  <2>1. WatchedFiles' = WatchedFiles \ {f} /\ f \in WatchedFiles
    BY <1>2, <1>4 DEF WatchedFiles
  <2>2. IsFiniteSet(WatchedFiles \ {f}) /\ Cardinality(WatchedFiles \ {f}) = Cardinality(WatchedFiles) - 1
    BY <1>1, <2>1, FS_RemoveElement
  <2>3. n = fdcount - 1
    BY <1>4 DEF Share
  <2>. QED
    BY <1>1, <2>1, <2>2, <2>3 DEF Counted
<1>5. CASE M = {} <=> mask[f] = {}
  <2>1. WatchedFiles' = WatchedFiles
    BY <1>2, <1>5 DEF WatchedFiles
  <2>2. n = fdcount
    BY <1>5 DEF Share
  <2>. QED
    BY <1>1, <2>1, <2>2 DEF Counted
<1>. QED
  BY <1>3, <1>4, <1>5

\* What the calls on one file leave of the invariant, and of the core.
Carried(f, ops) ==
    /\ mask' \in [Files -> SUBSET Dirs]
    /\ kern' \in [Files -> SUBSET Dirs]
    /\ changes' \in Seq(Change) /\ Len(changes') <= ChangeMax
    /\ fdcount' \in Int
    /\ lost' \in SUBSET (Files \X Dirs)
    /\ \A g \in Files \ {f} : mask'[g] = mask[g]
    /\ FiltersAreMask'
    /\ Deleted(ops) \subseteq mask[f] /\ Added(ops) \cap mask[f] = {} =>
          (Counted => Counted')
    /\ lost' = {} => Backend(f, ops)
    /\ UNCHANGED walkVars

LEMMA CallsCarried ==
    ASSUME KqueueInv, NEW f \in Files, NEW ops, NEW s, Calls(Part(f), s, f, ops), Becomes(f, s)
    PROVE  Carried(f, ops)
<1>1. /\ Roomy(s)
      /\ \A g \in Files \ {f} : \A e \in Dirs : Pending(s, g, e) <=> Pending(Part(f), g, e)
      /\ Kept(Part(f), f) => Kept(s, f)
      /\ s.lost = {} => s.m = (Part(f).m \ Deleted(ops)) \cup Added(ops)
      /\ Deleted(ops) \subseteq Part(f).m /\ Added(ops) \cap Part(f).m = {} =>
            s.n - Share(s.m) = Part(f).n - Share(Part(f).m)
  BY DEF Calls
<1>2. /\ Kept(Part(f), f)
      /\ \A g, e : Pending(Part(f), g, e) <=> Coming(g, e)
      /\ Part(f).m = mask[f] /\ Part(f).n = fdcount /\ Part(f).lost = lost
  BY PartIs
<1>3. /\ s.m \in SUBSET Dirs /\ s.k \in [Files -> SUBSET Dirs] /\ s.c \in Seq(Change)
      /\ s.n \in Int /\ s.lost \in SUBSET (Files \X Dirs) /\ Len(s.c) <= ChangeMax
  BY <1>1 DEF Roomy, PartState
<1>4. /\ mask' = [mask EXCEPT ![f] = s.m]
      /\ kern' = s.k /\ changes' = s.c
      /\ fdcount' = s.n /\ lost' = s.lost
      /\ UNCHANGED walkVars
  BY DEF Becomes
<1>5. TypeOK /\ mask \in [Files -> SUBSET Dirs] /\ fdcount \in Int /\ FiltersAreMask
  BY DEF KqueueInv, KqueueTypeOK, TypeOK
<1>6. mask' \in [Files -> SUBSET Dirs] /\ mask'[f] = s.m /\ \A g \in Files \ {f} : mask'[g] = mask[g]
  BY <1>3, <1>4, <1>5
<1>7. \A g, e : Coming(g, e)' <=> Pending(s, g, e)
  BY <1>4, Zenon DEF Coming, Pending
<1>8. FiltersAreMask'
  <2>. HIDE DEF Pending, Coming
  <2>1. ASSUME NEW g \in Files, NEW d \in Dirs
        PROVE  /\ Pending(s, g, d) => d \in mask'[g]
               /\ g \notin Refusable /\ d \in mask'[g] => Pending(s, g, d)
    <3>1. CASE g = f
      BY <3>1, <1>1, <1>2, <1>6 DEF Kept
    <3>2. CASE g # f
      BY <3>2, <1>1, <1>2, <1>5, <1>6 DEF FiltersAreMask
    <3>. QED
      BY <3>1, <3>2
  <2>2. \A g \in Files : \A d \in Dirs :
           /\ Coming(g, d)' => d \in mask'[g]
           /\ g \notin Refusable /\ d \in mask'[g] => Coming(g, d)'
    BY <2>1, <1>7, Zenon
  <2>. QED
    BY <2>2, Zenon DEF FiltersAreMask
<1>9. ASSUME Deleted(ops) \subseteq mask[f], Added(ops) \cap mask[f] = {}, Counted
      PROVE  Counted'
  <2>1. s.n - Share(s.m) = fdcount - Share(mask[f])
    BY <1>1, <1>2, <1>9
  <2>. QED
    BY <1>3, <1>4, <1>5, <1>9, <2>1, CountStep
<1>10. lost' = {} => Backend(f, ops)
  BY <1>1, <1>2, <1>4 DEF Backend
<1>. QED
  BY <1>3, <1>4, <1>6, <1>8, <1>9, <1>10 DEF Carried

LEMMA KqueueCallsCarried ==
    ASSUME KqueueInv, NEW f \in Files, NEW ops, KqueueCalls(f, ops)
    PROVE  Carried(f, ops) /\ (ops = {} => mask' = mask)
<1>1. PICK R : Becomes(f, KqueueCalled(f, ops, R))
  BY DEF KqueueCalls
<1>2. Calls(Part(f), KqueueCalled(f, ops, R), f, ops)
  BY PartIs, CalledIs
<1>3. Carried(f, ops)
  BY <1>1, <1>2, CallsCarried
<1>4. ASSUME ops = {} PROVE mask' = mask
  <2>1. KqueueCalled(f, ops, R) = Part(f)
    BY <1>4, NoneCalled
  <2>2. mask' = [mask EXCEPT ![f] = mask[f]]
    BY <1>1, <2>1, PartIs DEF Becomes
  <2>3. mask \in [Files -> SUBSET Dirs]
    BY DEF KqueueInv, KqueueTypeOK, TypeOK
  <2>. QED
    BY <2>2, <2>3
<1>. QED
  BY <1>3, <1>4

-----------------------------------------------------------------------------
(***************************************************************************)
(* Every step keeps the invariant, and is a step of the core unless a      *)
(* change was dropped.                                                     *)
(***************************************************************************)

Follows == KqueueInv' /\ [Next \/ lost' # {}]_vars

LEMMA NotTwiceStep ==
    ASSUME TypeOK, \A g \in Files : NotTwice(g), NEW f \in Files, NEW O,
           oper' = [oper EXCEPT ![f] = O], flags' = flags,
           \A g \in Files \ {f} : mask'[g] = mask[g],
           Deleted(O) \cap Added(O) = {}, Deleted(O) \subseteq mask'[f],
           Direct => Deleted(O) = {}, ~Direct /\ ~Oneshot => Added(O) \cap mask'[f] = {}
    PROVE  \A g \in Files : NotTwice(g)'
<1>. SUFFICES ASSUME NEW g \in Files PROVE NotTwice(g)'
  OBVIOUS
<1>1. oper \in [Files -> SUBSET Opers] /\ (Direct' <=> Direct) /\ (Oneshot' <=> Oneshot)
  BY DEF TypeOK, Direct, Oneshot
<1>2. CASE g = f
  <2>1. oper'[g] = O
    BY <1>1, <1>2
  <2>. QED
    BY <1>1, <1>2, <2>1 DEF NotTwice, Deleted, Added
<1>3. CASE g # f
  <2>1. oper'[g] = oper[g] /\ mask'[g] = mask[g]
    BY <1>1, <1>3
  <2>. QED
    BY <1>1, <2>1 DEF NotTwice, Deleted, Added
<1>. QED
  BY <1>2, <1>3

\* The invariant after calls on one file.
LEMMA CarriedInv ==
    ASSUME KqueueInv, NEW f \in Files, NEW ops, Carried(f, ops), flags' = flags,
           type' \in [Files -> {"NONE", "SOCK", "NOSOCK"}],
           oper' \in [Files -> SUBSET Opers],
           proc' \in [Files -> [Dirs -> Procs \cup {NULL}]],
           events' \in SUBSET Files,
           stage' = stage,
           wanted' \in [Files -> SUBSET Dirs],
           ~Oneshot => Deleted(ops) \subseteq mask[f] /\ Added(ops) \cap mask[f] = {},
           Direct => events' = {},
           \A g \in Files : NotTwice(g)'
    PROVE  KqueueInv'
<1>1. KqueueTypeOK'
  BY DEF KqueueInv, KqueueTypeOK, TypeOK, Carried, walkVars
<1>2. (Direct' <=> Direct) /\ (Oneshot' <=> Oneshot)
  BY DEF Direct, Oneshot
<1>3. ~Oneshot => Counted'
  BY DEF KqueueInv, Carried
<1>4. InWait'
  BY DEF KqueueInv, Carried, InWait, walkVars
<1>5. Len(changes') <= ChangeMax /\ FiltersAreMask'
  BY DEF Carried
<1>. QED
  BY <1>1, <1>2, <1>3, <1>4, <1>5 DEF KqueueInv

LEMMA AppRunsThen == ASSUME KqueueInv, KqueueAppRuns PROVE AppRuns
BY DEF KqueueInv, InWait, KqueueAppRuns, AppRuns

LEMMA KqueueAddFollows ==
    ASSUME KqueueInv, NEW f \in Files, NEW d \in Dirs, KqueueAddDir(f, d)
    PROVE  Follows
<1>1. AppRuns
  BY AppRunsThen DEF KqueueAddDir
<1>2. /\ KqueueTypeOK /\ TypeOK
      /\ \A g \in Files : NotTwice(g)
      /\ oper \in [Files -> SUBSET Opers] /\ mask \in [Files -> SUBSET Dirs]
      /\ type \in [Files -> {"NONE", "SOCK", "NOSOCK"}]
      /\ proc \in [Files -> [Dirs -> Procs \cup {NULL}]]
      /\ wanted \in [Files -> SUBSET Dirs] /\ events \in SUBSET Files
  BY DEF KqueueInv, KqueueTypeOK, TypeOK
<1>3. ASSUME AddRefused(f, d), UNCHANGED <<backVars, walkVars>>
      PROVE  Follows
  <2> DEFINE O == oper[f] \ {DelOp(d)}
  <2>1. /\ type' = [type EXCEPT ![f] = "NOSOCK"]
        /\ oper' = [oper EXCEPT ![f] = O]
        /\ UNCHANGED <<flags, mask, proc, events, stage, wanted>>
    BY <1>3 DEF AddRefused
  <2>2. Deleted(O) \subseteq Deleted(oper[f]) /\ Added(O) = Added(oper[f])
    BY OpsDistinct DEF Deleted, Added
  <2>. HIDE DEF O
  <2>3. \A g \in Files : NotTwice(g)'
    <3>1. /\ Deleted(O) \cap Added(O) = {} /\ Deleted(O) \subseteq mask'[f]
          /\ Direct => Deleted(O) = {}
          /\ ~Direct /\ ~Oneshot => Added(O) \cap mask'[f] = {}
      BY <1>2, <2>1, <2>2 DEF NotTwice
    <3>. QED
      BY <1>2, <2>1, <3>1, NotTwiceStep
  <2>4. O \in SUBSET Opers
    BY <1>2 DEF O
  <2>5. TypeOK'
    BY <1>2, <2>1, <2>4 DEF TypeOK
  <2>6. KqueueTypeOK'
    BY <1>2, <1>3, <2>5 DEF KqueueTypeOK, backVars, walkVars
  <2>7. /\ (Direct' <=> Direct) /\ (Oneshot' <=> Oneshot)
        /\ Counted' <=> Counted
        /\ FiltersAreMask' <=> FiltersAreMask
        /\ InWait' <=> InWait
        /\ changes' = changes
    BY <1>3, <2>1 DEF Direct, Oneshot, Counted, WatchedFiles, FiltersAreMask, Coming, Latest, Says,
                      InWait, backVars, walkVars
  <2>8. KqueueInv'
    BY <2>1, <2>3, <2>6, <2>7 DEF KqueueInv
  <2>. QED
    BY <1>1, <1>3, <2>8 DEF Follows, Next, Add
<1>4. ASSUME NEW p \in Procs, AddFe(f, d, p), KqueueCalls(f, AddCalls(f, d))
      PROVE  Follows
  <2> DEFINE O == AddOper(f, d)
             ops == AddCalls(f, d)
             need == NeedsAdd(f, d)
  <2>1. Carried(f, ops) /\ (ops = {} => mask' = mask)
    BY <1>4, KqueueCallsCarried
  <2>2. /\ flags' = flags /\ stage' = stage
        /\ type' = IF NeedsAdd(f, d) THEN [type EXCEPT ![f] = "SOCK"] ELSE type
        /\ oper' = [oper EXCEPT ![f] = O]
        /\ events' = events \cup {g \in {f} : need /\ ~Direct}
        /\ proc' = [proc EXCEPT ![f][d] = p]
        /\ wanted' = [wanted EXCEPT ![f] = @ \cup {d}]
    BY <1>4 DEF AddFe
  <2>3. \A e : /\ e \in Deleted(O) <=> e \in Deleted(oper[f]) /\ e # d
               /\ e \in Added(O) <=> e \in Added(oper[f]) \/ (e = d /\ need)
    <3>1. \A e : /\ DelOp(e) \in O <=> DelOp(e) \in oper[f] /\ e # d
                 /\ AddOp(e) \in O <=> AddOp(e) \in oper[f] \/ (e = d /\ need)
      BY OpsDistinct DEF AddOper
    <3>. HIDE DEF O, need
    <3>. QED
      BY <3>1 DEF Deleted, Added
  <2>4. \A e : /\ e \in Added(ops) <=> e = d /\ Direct /\ need
               /\ e \notin Deleted(ops)
    <3>1. \A e : /\ AddOp(e) \in ops <=> e = d /\ Direct /\ need
                 /\ DelOp(e) \notin ops
      BY OpsDistinct DEF AddCalls
    <3>. HIDE DEF ops, need
    <3>. QED
      BY <3>1 DEF Deleted, Added
  <2>5. ~Direct => ops = {}
    BY DEF AddCalls
  <2>6. O \in SUBSET Opers
    BY <1>2 DEF AddOper, Opers
  <2>7. ~Oneshot => (need <=> d \notin mask[f])
    BY DEF NeedsAdd
  <2>. HIDE DEF O, ops, need
  <2>8. NotTwice(f)
    BY <1>2
  <2>9. Direct \/ mask' = mask
    BY <2>1, <2>5
  <2>10. /\ Deleted(O) \cap Added(O) = {}
         /\ Direct => Deleted(O) = {}
    BY <2>3, <2>8 DEF NotTwice
  <2>11. Deleted(O) \subseteq mask'[f]
    BY <2>3, <2>8, <2>9, <2>10 DEF NotTwice
  <2>12. ~Direct /\ ~Oneshot => Added(O) \cap mask'[f] = {}
    BY <2>3, <2>7, <2>8, <2>9 DEF NotTwice
  <2>13. \A g \in Files \ {f} : mask'[g] = mask[g]
    BY <2>1 DEF Carried
  <2>14. \A g \in Files : NotTwice(g)'
    BY <1>2, <2>2, <2>10, <2>11, <2>12, <2>13, NotTwiceStep
  <2>15. ~Oneshot => Deleted(ops) \subseteq mask[f] /\ Added(ops) \cap mask[f] = {}
    BY <2>4, <2>7
  <2>16. /\ type' \in [Files -> {"NONE", "SOCK", "NOSOCK"}]
         /\ oper' \in [Files -> SUBSET Opers]
         /\ proc' \in [Files -> [Dirs -> Procs \cup {NULL}]]
         /\ events' \in SUBSET Files
         /\ wanted' \in [Files -> SUBSET Dirs]
    BY <1>2, <2>2, <2>6
  <2>17. Direct => events' = {}
    BY <2>2 DEF KqueueInv
  <2>18. KqueueInv'
    BY <2>1, <2>2, <2>14, <2>15, <2>16, <2>17, CarriedInv
  <2>19. lost' = {} => Add(f, d)
    BY <1>1, <1>4, <2>1 DEF Carried, Add, ops
  <2>. QED
    BY <2>18, <2>19 DEF Follows, Next
<1>. QED
  BY <1>3, <1>4 DEF KqueueAddDir

LEMMA KqueueDelFollows ==
    ASSUME KqueueInv, NEW f \in Files, NEW d \in Dirs, KqueueDelDir(f, d)
    PROVE  Follows
<1> DEFINE O == DelOper(f, d)
           ops == DelCalls(f, d)
           defers == DelDefers(f, d)
<1>1. AppRuns /\ DelFe(f, d) /\ KqueueCalls(f, ops)
  BY AppRunsThen DEF KqueueDelDir
<1>2. /\ TypeOK
      /\ \A g \in Files : NotTwice(g)
      /\ oper \in [Files -> SUBSET Opers] /\ mask \in [Files -> SUBSET Dirs]
      /\ type \in [Files -> {"NONE", "SOCK", "NOSOCK"}]
      /\ proc \in [Files -> [Dirs -> Procs \cup {NULL}]]
      /\ wanted \in [Files -> SUBSET Dirs] /\ events \in SUBSET Files
  BY DEF KqueueInv, KqueueTypeOK, TypeOK
<1>3. Carried(f, ops) /\ (ops = {} => mask' = mask)
  BY <1>1, KqueueCallsCarried
<1>4. /\ flags' = flags /\ stage' = stage /\ type' = type
      /\ oper' = [oper EXCEPT ![f] = O]
      /\ events' = events \cup {g \in {f} : defers}
      /\ proc' = [proc EXCEPT ![f][d] = NULL]
      /\ wanted' = [wanted EXCEPT ![f] = @ \ {d}]
  BY <1>1 DEF DelFe, DelProc
<1>5. \A e : /\ e \in Added(O) <=> e \in Added(oper[f]) /\ e # d
             /\ e \in Deleted(O) <=> e \in Deleted(oper[f]) \/ (e = d /\ defers)
  <2>1. \A e : /\ AddOp(e) \in O <=> AddOp(e) \in oper[f] /\ e # d
               /\ DelOp(e) \in O <=> DelOp(e) \in oper[f] \/ (e = d /\ defers)
    BY OpsDistinct DEF DelOper
  <2>. HIDE DEF O, defers
  <2>. QED
    BY <2>1 DEF Deleted, Added
<1>6. \A e : /\ e \in Deleted(ops) <=> e = d /\ Direct /\ d \in mask[f]
             /\ e \notin Added(ops)
  <2>1. \A e : /\ DelOp(e) \in ops <=> e = d /\ Direct /\ d \in mask[f]
               /\ AddOp(e) \notin ops
    BY OpsDistinct DEF DelCalls
  <2>. HIDE DEF ops
  <2>. QED
    BY <2>1 DEF Deleted, Added
<1>7. /\ ~Direct => ops = {}
      /\ defers <=> d \in mask[f] /\ ~Direct
  BY DEF DelCalls, DelDefers
<1>8. O \in SUBSET Opers
  BY <1>2 DEF DelOper, Opers
<1>. HIDE DEF O, ops, defers
<1>9. NotTwice(f)
  BY <1>2
<1>10. Direct \/ mask' = mask
  BY <1>3, <1>7
<1>11. /\ Deleted(O) \cap Added(O) = {}
       /\ Direct => Deleted(O) = {}
  BY <1>5, <1>7, <1>9 DEF NotTwice
<1>12. Deleted(O) \subseteq mask'[f]
  BY <1>5, <1>7, <1>9, <1>10, <1>11 DEF NotTwice
<1>13. ~Direct /\ ~Oneshot => Added(O) \cap mask'[f] = {}
  BY <1>5, <1>9, <1>10 DEF NotTwice
<1>14. \A g \in Files \ {f} : mask'[g] = mask[g]
  BY <1>3 DEF Carried
<1>15. \A g \in Files : NotTwice(g)'
  BY <1>2, <1>4, <1>11, <1>12, <1>13, <1>14, NotTwiceStep
<1>16. Deleted(ops) \subseteq mask[f] /\ Added(ops) \cap mask[f] = {}
  BY <1>6
<1>17. /\ type' \in [Files -> {"NONE", "SOCK", "NOSOCK"}]
       /\ oper' \in [Files -> SUBSET Opers]
       /\ proc' \in [Files -> [Dirs -> Procs \cup {NULL}]]
       /\ events' \in SUBSET Files
       /\ wanted' \in [Files -> SUBSET Dirs]
  BY <1>2, <1>4, <1>8
<1>18. Direct => events' = {}
  BY <1>4, <1>7 DEF KqueueInv
<1>19. KqueueInv'
  BY <1>3, <1>4, <1>15, <1>16, <1>17, <1>18, CarriedInv
<1>20. lost' = {} => Del(f, d)
  BY <1>1, <1>3 DEF Carried, Del, ops
<1>. QED
  BY <1>19, <1>20 DEF Follows, Next

LEMMA KqueueDisableFollows ==
    ASSUME KqueueInv, NEW f \in Files, KqueueDisable(f)
    PROVE  Follows
<1> DEFINE ops == DelReadWriteCalls(f)
           A == {}
<1>1. AppRuns /\ DelReadWriteFe(f)
  BY AppRunsThen DEF KqueueDisable
<1>2. /\ TypeOK
      /\ \A g \in Files : NotTwice(g)
      /\ oper \in [Files -> SUBSET Opers] /\ mask \in [Files -> SUBSET Dirs]
      /\ type \in [Files -> {"NONE", "SOCK", "NOSOCK"}]
      /\ proc \in [Files -> [Dirs -> Procs \cup {NULL}]]
      /\ wanted \in [Files -> SUBSET Dirs] /\ events \in SUBSET Files
  BY DEF KqueueInv, KqueueTypeOK, TypeOK
<1>3. Carried(f, ops)
  <2>1. PICK R : Becomes(f, Fflush(KqueueCalled(f, ops, R), R))
    BY DEF KqueueDisable
  <2>. HIDE DEF ops
  <2>2. Calls(Part(f), KqueueCalled(f, ops, R), f, ops)
    BY PartIs, CalledIs
  <2>3. Calls(Part(f), Fflush(KqueueCalled(f, ops, R), R), f, ops)
    BY <2>2, FlushedIs, Zenon
  <2>. QED
    BY <2>1, <2>3, CallsCarried, Zenon
<1>4. /\ flags' = flags /\ stage' = stage /\ type' = type /\ proc' = proc
      /\ oper' = [oper EXCEPT ![f] = A]
      /\ events' = events \ {f}
      /\ wanted' = [wanted EXCEPT ![f] = {}]
  BY <1>1 DEF DelReadWriteFe
<1>5. Deleted(ops) = mask[f] /\ Added(ops) = {}
  BY <1>2, MaskBits DEF DelReadWriteCalls
<1>6. Deleted(A) = {} /\ Added(A) = {} /\ A \in SUBSET Opers
  BY NoBits
<1>. HIDE DEF A, ops
<1>7. \A g \in Files \ {f} : mask'[g] = mask[g]
  BY <1>3 DEF Carried
<1>8. \A g \in Files : NotTwice(g)'
  BY <1>2, <1>4, <1>6, <1>7, NotTwiceStep
<1>9. Deleted(ops) \subseteq mask[f] /\ Added(ops) \cap mask[f] = {}
  BY <1>5
<1>10. /\ type' \in [Files -> {"NONE", "SOCK", "NOSOCK"}]
       /\ oper' \in [Files -> SUBSET Opers]
       /\ proc' \in [Files -> [Dirs -> Procs \cup {NULL}]]
       /\ events' \in SUBSET Files
       /\ wanted' \in [Files -> SUBSET Dirs]
  BY <1>2, <1>4, <1>6
<1>11. Direct => events' = {}
  BY <1>4 DEF KqueueInv
<1>12. KqueueInv'
  BY <1>3, <1>4, <1>8, <1>9, <1>10, <1>11, CarriedInv
<1>13. lost' = {} => DelReadWrite(f)
  BY <1>1, <1>3 DEF Carried, DelReadWrite, ops
<1>. QED
  BY <1>12, <1>13 DEF Follows, Next

LEMMA KqueuePrepareFollows ==
    ASSUME KqueueInv, NEW f \in Files, KqueuePrepare(f)
    PROVE  Follows
<1> DEFINE ops == oper[f]
           A == {}
<1>1. PrepareFe(f) /\ KqueueCalls(f, ops)
  BY DEF KqueuePrepare
<1>2. /\ TypeOK
      /\ \A g \in Files : NotTwice(g)
      /\ oper \in [Files -> SUBSET Opers] /\ mask \in [Files -> SUBSET Dirs]
      /\ type \in [Files -> {"NONE", "SOCK", "NOSOCK"}]
      /\ proc \in [Files -> [Dirs -> Procs \cup {NULL}]]
      /\ wanted \in [Files -> SUBSET Dirs] /\ events \in SUBSET Files
  BY DEF KqueueInv, KqueueTypeOK, TypeOK
<1>3. Carried(f, ops)
  BY <1>1, KqueueCallsCarried
<1>4. /\ flags' = flags /\ stage' = stage /\ type' = type /\ proc' = proc
      /\ oper' = [oper EXCEPT ![f] = A]
      /\ f \in events /\ events' = events \ {f}
      /\ wanted' = wanted
  BY <1>1 DEF PrepareFe
<1>5. ~Direct
  BY <1>4 DEF KqueueInv
<1>6. ~Oneshot => Deleted(ops) \subseteq mask[f] /\ Added(ops) \cap mask[f] = {}
  BY <1>2, <1>5 DEF NotTwice
<1>7. Deleted(A) = {} /\ Added(A) = {} /\ A \in SUBSET Opers
  BY NoBits
<1>. HIDE DEF A, ops
<1>8. \A g \in Files \ {f} : mask'[g] = mask[g]
  BY <1>3 DEF Carried
<1>9. \A g \in Files : NotTwice(g)'
  BY <1>2, <1>4, <1>7, <1>8, NotTwiceStep
<1>10. /\ type' \in [Files -> {"NONE", "SOCK", "NOSOCK"}]
       /\ oper' \in [Files -> SUBSET Opers]
       /\ proc' \in [Files -> [Dirs -> Procs \cup {NULL}]]
       /\ events' \in SUBSET Files
       /\ wanted' \in [Files -> SUBSET Dirs]
  BY <1>2, <1>4, <1>7
<1>11. KqueueInv'
  BY <1>3, <1>4, <1>5, <1>6, <1>9, <1>10, CarriedInv
<1>12. lost' = {} => Prepare(f)
  BY <1>1, <1>3 DEF Carried, Prepare, ops
<1>. QED
  BY <1>11, <1>12 DEF Follows, Next

\* A step of the loop that leaves the files as they are.
LEMMA LoopKeeps ==
    ASSUME KqueueInv, UNCHANGED <<flags, feVars, events, wanted, fdcount, lost>>,
           stage' \in Stages,
           kern' \in [Files -> SUBSET Dirs],
           changes' \in Seq(Change), Len(changes') <= ChangeMax, FiltersAreMask',
           batch' \in SUBSET Event, cur' \in Event \cup {NULL}, InWait'
    PROVE  KqueueInv'
<1>1. KqueueTypeOK'
  BY DEF KqueueInv, KqueueTypeOK, TypeOK, feVars
<1>2. /\ (Direct' <=> Direct) /\ (Oneshot' <=> Oneshot)
      /\ Counted' <=> Counted
      /\ \A g \in Files : NotTwice(g)' <=> NotTwice(g)
  BY DEF Direct, Oneshot, Counted, WatchedFiles, NotTwice, Deleted, Added, feVars
<1>. QED
  BY <1>1, <1>2 DEF KqueueInv

LEMMA KqueueWaitFollows ==
    ASSUME KqueueInv, KqueueWait
    PROVE  Follows
<1>1. EventWait /\ UNCHANGED <<fdcount, lost, cur>> /\ changes' = <<>>
  BY DEF KqueueWait
<1>2. PICK R \in SUBSET Refusable :
         LET r == Kevent(kern, changes, R, FALSE)
         IN  /\ kern' = r.k
             /\ IF r.errs # {} THEN batch' = r.errs
                ELSE batch' \in SUBSET RealEvents(r.k)
  BY DEF KqueueWait
<1> DEFINE r == Kevent(kern, changes, R, FALSE)
<1>3. /\ kern \in [Files -> SUBSET Dirs] /\ changes \in Seq(Change)
      /\ Len(changes) <= ChangeMax /\ mask \in [Files -> SUBSET Dirs]
      /\ FiltersAreMask /\ cur \in Event \cup {NULL}
  BY DEF KqueueInv, KqueueTypeOK, TypeOK
<1>4. Walked(r, Len(changes), kern, changes, R, FALSE)
  BY <1>3, KeventWalks
<1>. HIDE DEF r
<1>5. /\ kern' = r.k
      /\ r.errs # {} => batch' = r.errs
      /\ r.errs = {} => batch' \in SUBSET RealEvents(r.k)
  BY <1>2 DEF r
<1>6. /\ r.k \in [Files -> SUBSET Dirs]
      /\ r.errs \in SUBSET [file : Files, dir : Dirs, err : 1..Len(changes)]
      /\ \A f \in Files : \A d \in Dirs :
            /\ d \in r.k[f] => Coming(f, d)
            /\ f \notin R => (Coming(f, d) => d \in r.k[f])
  BY <1>4 DEF Walked, Coming
<1>7. batch' \in SUBSET Event
  <2>1. Len(changes) \in Nat /\ ChangeMax \in Nat
    BY <1>3, LenProperties, KqueueAssumption DEF KqueueAssumption
  <2>2. r.errs \in SUBSET Event
    BY <1>3, <1>6, <2>1 DEF Event
  <2>3. RealEvents(r.k) \subseteq Event
    BY DEF RealEvents
  <2>. QED
    BY <1>5, <2>2, <2>3
<1>8. FiltersAreMask'
  <2>1. \A f \in Files : \A d \in Dirs : Coming(f, d)' <=> d \in r.k[f]
    <3>1. changes' = <<>> /\ Len(changes') = 0 /\ kern' = r.k
      BY <1>1, <1>5, EmptySeq
    <3>. QED
      BY <3>1, LatestOfNone DEF Coming
  <2>2. mask' = mask
    BY <1>1 DEF EventWait, feVars
  <2>3. \A f \in Files : \A d \in Dirs :
           /\ d \in r.k[f] => d \in mask[f]
           /\ f \notin Refusable /\ d \in mask[f] => d \in r.k[f]
    <3>. HIDE DEF Coming
    <3>. QED
      BY <1>2, <1>3, <1>6 DEF FiltersAreMask
  <2>. QED
    BY <2>1, <2>2, <2>3, Zenon DEF FiltersAreMask
<1>9. changes' \in Seq(Change) /\ Len(changes') <= ChangeMax
  BY <1>1, EmptySeq, KqueueAssumption DEF KqueueAssumption
<1>10. UNCHANGED <<flags, feVars, events, wanted>> /\ stage' = "event_wait"
  BY <1>1 DEF EventWait
<1>11. stage' \in Stages /\ InWait'
  BY <1>10 DEF Stages, InWait
<1>12. KqueueInv'
  BY <1>1, <1>3, <1>5, <1>6, <1>7, <1>8, <1>9, <1>10, <1>11, LoopKeeps
<1>. QED
  BY <1>1, <1>12 DEF Follows, Next

\* The steps that leave the backend alone.
LEMMA KqueueMovesOn ==
    ASSUME KqueueInv, UNCHANGED <<flags, feVars, events, wanted, backVars>>,
           stage' \in Stages, batch' \in SUBSET Event, cur' \in Event \cup {NULL}, InWait'
    PROVE  KqueueInv'
<1>1. /\ kern \in [Files -> SUBSET Dirs] /\ changes \in Seq(Change)
      /\ Len(changes) <= ChangeMax /\ FiltersAreMask
  BY DEF KqueueInv, KqueueTypeOK
<1>2. kern' = kern /\ changes' = changes /\ fdcount' = fdcount /\ lost' = lost /\ mask' = mask
  BY DEF backVars, feVars
<1>3. FiltersAreMask'
  <2>1. \A f, d : Coming(f, d)' <=> Coming(f, d)
    BY <1>2, Zenon DEF Coming
  <2>. HIDE DEF Coming
  <2>2. \A f \in Files : \A d \in Dirs :
           /\ Coming(f, d)' => d \in mask'[f]
           /\ f \notin Refusable /\ d \in mask'[f] => Coming(f, d)'
    BY <1>1, <1>2, <2>1 DEF FiltersAreMask
  <2>. QED
    BY <2>2, Zenon DEF FiltersAreMask
<1>. QED
  BY <1>1, <1>2, <1>3, LoopKeeps

LEMMA KqueueFollows == KqueueInv /\ [KqueueNext]_kqueueVars => Follows
<1>. SUFFICES ASSUME KqueueInv, [KqueueNext]_kqueueVars PROVE Follows
  OBVIOUS
<1>1. /\ batch \in SUBSET Event /\ cur \in Event \cup {NULL} /\ stage \in Stages /\ InWait
  BY DEF KqueueInv, KqueueTypeOK, TypeOK
<1>2. ASSUME NEW f \in Files, KqueueApplication(f) PROVE Follows
  BY <1>2, KqueueAddFollows, KqueueDelFollows, KqueueDisableFollows DEF KqueueApplication
<1>3. ASSUME NEW f \in Files, KqueuePrepare(f) PROVE Follows
  BY <1>3, KqueuePrepareFollows
<1>4. CASE KqueueSteps
  <2>1. UNCHANGED <<flags, feVars, events, wanted, backVars>>
    BY <1>4 DEF KqueueSteps, WaitBegin, PrepareEnd
  <2>2. stage \notin {"event_wait"} /\ stage' \in Stages /\ batch' = batch /\ cur' = cur
    BY <1>4 DEF KqueueSteps, WaitBegin, PrepareEnd, Stages, walkVars
  <2>3. KqueueInv'
    BY <1>1, <2>1, <2>2, KqueueMovesOn DEF InWait
  <2>. QED
    BY <1>4, <2>3 DEF Follows, Next, KqueueSteps
<1>5. CASE KqueueWait
  BY <1>5, KqueueWaitFollows
<1>6. ASSUME NEW e \in batch, KqueuePick(e) PROVE Follows
  <2>1. /\ stage = "event_wait" /\ batch' = batch \ {e}
        /\ cur' = CallOf(e) /\ UNCHANGED <<vars, backVars>>
    BY <1>6 DEF KqueuePick
  <2>2. CallOf(e) \in Event \cup {NULL}
    BY <1>1 DEF CallOf
  <2>3. UNCHANGED <<flags, feVars, events, wanted, backVars>> /\ stage' = stage
    BY <2>1 DEF vars, feVars
  <2>4. KqueueInv'
    BY <1>1, <2>1, <2>2, <2>3, KqueueMovesOn DEF InWait
  <2>. QED
    BY <2>1, <2>4 DEF Follows
<1>7. CASE CallReturns
  <2>1. cur' = NULL /\ UNCHANGED <<vars, backVars, batch>>
    BY <1>7 DEF CallReturns
  <2>2. UNCHANGED <<flags, feVars, events, wanted, backVars>> /\ stage' = stage
    BY <2>1 DEF vars, feVars
  <2>3. KqueueInv'
    BY <1>1, <2>1, <2>2, KqueueMovesOn DEF InWait
  <2>. QED
    BY <2>1, <2>3 DEF Follows
<1>8. CASE KqueueReturn
  <2>1. /\ cur = NULL /\ stage' = "app"
        /\ UNCHANGED <<flags, feVars, events, wanted, backVars, walkVars>>
    BY <1>8 DEF KqueueReturn, WaitReturn
  <2>2. stage' \in Stages /\ batch' = batch /\ cur' = cur
    BY <2>1 DEF Stages, walkVars
  <2>3. KqueueInv'
    BY <1>1, <2>1, <2>2, KqueueMovesOn DEF InWait
  <2>. QED
    BY <1>8, <2>3 DEF Follows, Next, KqueueReturn
<1>9. CASE UNCHANGED kqueueVars
  <2>1. UNCHANGED <<vars, backVars, walkVars>>
    BY <1>9 DEF kqueueVars
  <2>2. UNCHANGED <<flags, feVars, events, wanted, backVars>> /\ stage' = stage
        /\ batch' = batch /\ cur' = cur
    BY <2>1 DEF vars, feVars, walkVars
  <2>3. KqueueInv'
    BY <1>1, <2>2, KqueueMovesOn DEF InWait
  <2>. QED
    BY <2>1, <2>3 DEF Follows
<1>. QED
  BY <1>2, <1>3, <1>4, <1>5, <1>6, <1>7, <1>8, <1>9 DEF KqueueNext, KqueueLoop

LEMMA KqueueStart == KqueueInit => KqueueInv
<1>. SUFFICES ASSUME KqueueInit PROVE KqueueInv
  OBVIOUS
<1>1. Init /\ kern = [f \in Files |-> {}] /\ changes = <<>> /\ fdcount = 0 /\ batch = {} /\ cur = NULL /\ lost = {}
  BY DEF KqueueInit
<1>2. TypeOK /\ mask = [f \in Files |-> {}] /\ oper = [f \in Files |-> {}] /\ events = {}
  BY <1>1 DEF Init, TypeOK, Stages
<1>3. changes \in Seq(Change) /\ Len(changes) = 0 /\ Len(changes) <= ChangeMax
  BY <1>1, EmptySeq, KqueueAssumption DEF KqueueAssumption
<1>4. KqueueTypeOK
  BY <1>1, <1>2, <1>3 DEF KqueueTypeOK
<1>5. FiltersAreMask
  BY <1>1, <1>2, <1>3, LatestOfNone DEF FiltersAreMask, Coming
<1>6. Counted
  <2>1. WatchedFiles = {}
    BY <1>2 DEF WatchedFiles
  <2>. QED
    BY <1>1, <2>1, FS_EmptySet DEF Counted
<1>7. \A f \in Files : NotTwice(f)
  BY <1>2, NoBits DEF NotTwice
<1>. QED
  BY <1>1, <1>2, <1>3, <1>4, <1>5, <1>6, <1>7 DEF KqueueInv, InWait

\* The invariant of the kqueue backend, for any set of files, any room for
\* changes and any descriptors the system refuses.
THEOREM KqueueInvariant == KqueueSpec => []KqueueInv
<1>1. KqueueInv /\ [KqueueNext]_kqueueVars => KqueueInv'
  BY KqueueFollows DEF Follows
<1>. QED
  BY KqueueStart, <1>1, PTL DEF KqueueSpec

\* The kqueue backend drops, repeats and fails changes, but what the kernel
\* will have once the list is carried out is fe->mask, and fdcount counts the
\* files watched (kqueue_add_read and its like, kqueue_fflush, kqueue_wait).
THEOREM PendingIsMaskAlways == KqueueSpec => []PendingIsMask
<1>1. KqueueInv => PendingIsMask
  <2>. SUFFICES ASSUME KqueueInv PROVE PendingIsMask
    OBVIOUS
  <2> DEFINE A == {}
             r == Kevent(kern, changes, A, FALSE)
  <2>1. /\ kern \in [Files -> SUBSET Dirs] /\ changes \in Seq(Change)
        /\ mask \in [Files -> SUBSET Dirs] /\ FiltersAreMask
    BY DEF KqueueInv, KqueueTypeOK, TypeOK
  <2>2. \A f : f \notin A
    OBVIOUS
  <2>. HIDE DEF A
  <2>3. Walked(r, Len(changes), kern, changes, A, FALSE)
    BY <2>1, KeventWalks
  <2>. HIDE DEF r
  <2>4. /\ r.k \in [Files -> SUBSET Dirs]
        /\ \A f \in Files : \A d \in Dirs : d \in r.k[f] <=> Coming(f, d)
    BY <2>2, <2>3 DEF Walked, Coming
  <2>5. \A f \in Files : /\ r.k[f] \subseteq mask[f]
                         /\ f \notin Refusable => r.k[f] = mask[f]
    <3>. HIDE DEF Coming
    <3>. QED
      BY <2>1, <2>4 DEF FiltersAreMask
  <2>6. ~Oneshot => fdcount = Cardinality({f \in Files : mask[f] # {}})
    BY DEF KqueueInv, Counted, WatchedFiles
  <2>7. LET k == Kevent(kern, changes, {}, FALSE).k
        IN  \A f \in Files : /\ k[f] \subseteq mask[f]
                             /\ f \notin Refusable => k[f] = mask[f]
    BY <2>5 DEF r, A
  <2>. QED
    BY <2>6, <2>7 DEF PendingIsMask, KqueueInv
<1>. QED
  BY <1>1, KqueueInvariant, PTL

\* The kqueue backend driven by nio_event.c implements the event core, but for
\* the steps that drop a change for want of room.
THEOREM KqueueImplementsCore == KqueueSpec => KqueueCore
<1>1. KqueueInit => Init
  BY DEF KqueueInit
<1>2. KqueueInv /\ [KqueueNext]_kqueueVars => [Next \/ lost' # {}]_vars
  BY KqueueFollows DEF Follows
<1>. QED
  BY KqueueInvariant, <1>1, <1>2, PTL DEF KqueueSpec, KqueueCore
=============================================================================
