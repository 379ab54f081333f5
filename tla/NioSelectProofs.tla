--------------------------- MODULE NioSelectProofs ---------------------------
(***************************************************************************)
(* Proofs about NioSelect: the descriptor sets, the array of files, the    *)
(* index each file keeps into it, fe->mask and fdcount never drift apart,  *)
(* the bound given to select() is beyond no watched file, and the select   *)
(* backend implements the event core.                                      *)
(*                                                                         *)
(* maxfd is a bound as long as it is not dirty, and nothing is asked of it *)
(* once it is: it is found again before the next select().  That there is  *)
(* a greatest file to be found needs an induction over the array.          *)
(***************************************************************************)
EXTENDS NioSelect, NioEventProofs

(***************************************************************************)
(* The greatest file.                                                      *)
(***************************************************************************)

\* The entries of es->files.
Slot == [file : Files]

LEMMA FilesAreInts == Files \subseteq Int /\ Files \cup {-1} \subseteq Int
BY CoreAssumption

LEMMA SlotHolds == ASSUME NEW e \in Slot PROVE e.file \in Files /\ e.file \in Int
<1>1. e.file \in Files
  BY DEF Slot
<1>. QED
  BY <1>1, FilesAreInts

\* What select() is asked to look up to, when only the first n slots count.
UpTo(q, n) == {q[i].file : i \in 1..n} \cup {-1}

HasGreatest(S) == \E f \in S : \A g \in S : f >= g

\* However many slots there are, one of the files in them is the greatest.
LEMMA Greatest ==
    ASSUME NEW q \in Seq(Slot)
    PROVE  HasGreatest(UpTo(q, Len(q)))
<1> DEFINE T == {n \in 0..Len(q) : ~HasGreatest(UpTo(q, n))}
<1>1. Len(q) \in Nat /\ \A i \in 1..Len(q) : q[i].file \in Int
  <2>1. \A i \in 1..Len(q) : q[i] \in Slot
    OBVIOUS
  <2>. QED
    BY <2>1, SlotHolds
<1>2. SUFFICES ASSUME T # {} PROVE FALSE
  BY <1>1
<1>3. PICK n \in T : \A m \in T : n <= m
  <2>1. T \in SUBSET Nat
    BY <1>1
  <2>. HIDE DEF T
  <2>. QED
    BY <1>2, <2>1, Least
<1>4. n # 0
  <2>1. UpTo(q, 0) = {-1}
    BY DEF UpTo
  <2>. QED
    BY <1>3, <2>1 DEF HasGreatest
<1>5. n \in 1..Len(q) /\ n - 1 \in 0..Len(q)
  BY <1>1, <1>3, <1>4
<1>6. HasGreatest(UpTo(q, n - 1))
  BY <1>1, <1>3, <1>5
<1>7. PICK f \in UpTo(q, n - 1) : \A g \in UpTo(q, n - 1) : f >= g
  BY <1>6 DEF HasGreatest
<1>8. UpTo(q, n) = UpTo(q, n - 1) \cup {q[n].file}
  BY <1>5 DEF UpTo
<1>9. f \in Int /\ q[n].file \in Int /\ \A g \in UpTo(q, n - 1) : g \in Int
  BY <1>1, <1>5, <1>7 DEF UpTo
<1>10. HasGreatest(UpTo(q, n))
  <2>1. CASE f >= q[n].file
    BY <1>7, <1>8, <2>1 DEF HasGreatest
  <2>2. CASE ~(f >= q[n].file)
    <3>1. \A g \in UpTo(q, n) : q[n].file >= g
      BY <1>7, <1>8, <1>9, <2>2
    <3>. QED
      BY <1>8, <3>1 DEF HasGreatest
  <2>. QED
    BY <2>1, <2>2
<1>. QED
  BY <1>3, <1>10

-----------------------------------------------------------------------------
(***************************************************************************)
(* The backend functions, one file at a time.                              *)
(***************************************************************************)
Parts == [m : SUBSET Dirs, fds : [Dirs -> SUBSET Files], x : SUBSET Files,
          q : Seq(Slot), id : [Files -> Nat], top : Files \cup {-1},
          dirty : BOOLEAN, n : Int]

\* The directions in whose set the file is.
In(S, f) == {d \in Dirs : f \in S[d]}

Either(S) == S[READ] \cup S[WRITE]

\* A part in which the sets, the array and the masks agree, f watching s.m.
Good(s, f) ==
    /\ s \in Parts
    /\ SlotsExact(s.q, s.id)
    /\ s.x = Either(s.fds)
    /\ \A g \in Files : s.id[g] # NoSlot <=> g \in s.x
    /\ \A g \in Files \ {f} : mask[g] = In(s.fds, g)
    /\ s.m = In(s.fds, f)
    /\ s.n = Len(s.q)
    /\ ~s.dirty => \A g \in s.x : g <= s.top

\* A file is put into a set or taken out of one.
Into(S, f, d) == [S EXCEPT ![d] = @ \cup {f}]
OutOf(S, f, d) == [S EXCEPT ![d] = @ \ {f}]

LEMMA SetChanges ==
    ASSUME NEW S \in [Dirs -> SUBSET Files], NEW f \in Files, NEW d \in Dirs
    PROVE  /\ Into(S, f, d) \in [Dirs -> SUBSET Files]
           /\ Either(Into(S, f, d)) = Either(S) \cup {f}
           /\ In(Into(S, f, d), f) = In(S, f) \cup {d}
           /\ \A g \in Files \ {f} : In(Into(S, f, d), g) = In(S, g)
           /\ OutOf(S, f, d) \in [Dirs -> SUBSET Files]
           /\ Either(OutOf(S, f, d)) =
                 IF f \in S[Other(d)] THEN Either(S) ELSE Either(S) \ {f}
           /\ In(OutOf(S, f, d), f) = In(S, f) \ {d}
           /\ \A g \in Files \ {f} : In(OutOf(S, f, d), g) = In(S, g)
<1>1. Other(READ) = WRITE /\ Other(WRITE) = READ
  BY DEF Other, Dirs, READ, WRITE
<1>2. READ # WRITE /\ Dirs = {READ, WRITE}
  BY DEF Dirs, READ, WRITE
<1>3. CASE d = READ
  BY <1>1, <1>2, <1>3 DEF Either, In, Into, OutOf
<1>4. CASE d = WRITE
  BY <1>1, <1>2, <1>4 DEF Either, In, Into, OutOf
<1>. QED
  BY <1>2, <1>3, <1>4

\* select_add_read and select_add_write.
LEMMA SelectAddGood ==
    ASSUME NEW f \in Files, NEW s, Good(s, f), NEW d \in Dirs
    PROVE  Good(SelectAdd(s, f, d), f) /\ SelectAdd(s, f, d).m = s.m \cup {d}
<1> DEFINE A == Into(s.fds, f, d)
           w == [s EXCEPT !.m = @ \cup {d}, !.fds[d] = @ \cup {f}]
<1>1. /\ s \in Parts /\ s.fds \in [Dirs -> SUBSET Files] /\ s.m \in SUBSET Dirs
      /\ s.q \in Seq(Slot) /\ s.id \in [Files -> Nat] /\ s.x \in SUBSET Files
      /\ s.top \in Files \cup {-1} /\ s.dirty \in BOOLEAN /\ s.n \in Int
  BY DEF Good, Parts
<1>2. /\ A \in [Dirs -> SUBSET Files] /\ Either(A) = s.x \cup {f}
      /\ In(A, f) = s.m \cup {d}
      /\ \A g \in Files \ {f} : mask[g] = In(A, g)
  <2> DEFINE S == s.fds
  <2>1. S \in [Dirs -> SUBSET Files] /\ s.x = Either(S) /\ s.m = In(S, f)
        /\ \A g \in Files \ {f} : mask[g] = In(S, g)
    BY <1>1 DEF Good
  <2>. HIDE DEF S
  <2>. QED
    BY <2>1, SetChanges DEF S
<1>3. f \in s.fds[READ] \cup s.fds[WRITE] <=> f \in s.x
  BY DEF Good, Either
<1>4. /\ w \in Parts /\ w.m = s.m \cup {d} /\ w.fds = A /\ w.x = s.x /\ w.q = s.q
      /\ w.id = s.id /\ w.top = s.top /\ w.dirty = s.dirty /\ w.n = s.n
  BY <1>1, <1>2 DEF Parts, Into
<1>. HIDE DEF A, w
<1>5. CASE f \in s.x
  <2>1. SelectAdd(s, f, d) = w
    BY <1>3, <1>5 DEF SelectAdd, w
  <2>2. s.x \cup {f} = s.x
    BY <1>5
  <2>3. Good(w, f)
    BY <1>2, <1>4, <2>2 DEF Good
  <2>. QED
    BY <1>4, <2>1, <2>3
<1>6. CASE f \notin s.x
  <2> DEFINE e == [file |-> f]
             r == Placed(s.q, e)
             n == PlacedId(s.q, s.id, e)
             t == [m |-> s.m \cup {d}, fds |-> A, x |-> s.x \cup {f}, q |-> r, id |-> n,
                   top |-> IF f > s.top THEN f ELSE s.top,
                   dirty |-> s.dirty, n |-> s.n + 1]
  <2>1. SelectAdd(s, f, d) = t
    BY <1>1, <1>3, <1>6 DEF SelectAdd, Parts, A, Into
  <2>2. e \in Slot /\ e.file = f
    BY DEF Slot
  <2>. HIDE DEF e
  <2>3. s.id[f] = NoSlot /\ SlotsExact(s.q, s.id) /\ s.n = Len(s.q)
    BY <1>6 DEF Good
  <2>4. r \in Seq(Slot) /\ Len(r) = s.n + 1
    <3> DEFINE q == s.q
    <3>1. q \in Seq(Slot)
      BY <1>1
    <3>. HIDE DEF q
    <3>2. Placed(q, e) \in Seq(Slot) /\ Len(Placed(q, e)) = Len(q) + 1
      BY <2>2, <3>1, PlacedEntries
    <3>. QED
      BY <2>3, <3>2 DEF q
  <2>5. n \in [Files -> Nat] /\ SlotsExact(r, n)
    BY <1>1, <2>2, <2>3, PlacedExact
  <2>6. \A g \in Files : n[g] # NoSlot <=> g \in s.x \cup {f}
    BY <1>1, <2>2 DEF PlacedId, NoSlot, Good
  <2>7. s.top \in Int /\ f \in Int /\ \A g \in s.x : g \in Int
    BY <1>1, FilesAreInts
  <2>8. ~s.dirty => \A g \in s.x \cup {f} : g <= t.top
    BY <2>7 DEF Good
  <2>9. t \in Parts
    BY <1>1, <1>2, <2>4, <2>5 DEF Parts
  <2>10. Good(t, f)
    <3>. HIDE DEF r, n
    <3>. QED
      BY <1>2, <2>4, <2>5, <2>6, <2>8, <2>9 DEF Good
  <2>. QED
    BY <2>1, <2>10
<1>. QED
  BY <1>5, <1>6

\* A file of this array gives up its slot.
LEMMA SlotTaken ==
    ASSUME NEW q \in Seq(Slot), NEW i \in [Files -> Nat], SlotsExact(q, i),
           NEW f \in Files, i[f] # NoSlot
    PROVE  /\ TakenId(q, i, f) \in [Files -> Nat]
           /\ SlotsExact(Taken(q, i[f]), TakenId(q, i, f))
           /\ TakenId(q, i, f)[f] = NoSlot
           /\ \A g \in Files \ {f} : TakenId(q, i, f)[g] = NoSlot <=> i[g] = NoSlot
<1>1. TakenId(q, i, f) \in [Files -> Nat]
  BY TakenExact
<1>2. SlotsExact(Taken(q, i[f]), TakenId(q, i, f))
  BY TakenExact
<1>3. TakenId(q, i, f)[f] = NoSlot
  BY DEF TakenId
<1>4. \A g \in Files \ {f} : TakenId(q, i, f)[g] = NoSlot <=> i[g] = NoSlot
  <2>1. i[f] \in 1..Len(q)
    BY DEF SlotsExact
  <2>2. i[q[Len(q)].file] = Len(q)
    BY <2>1 DEF SlotsExact
  <2>. QED
    BY <2>1, <2>2 DEF TakenId, NoSlot
<1>. QED
  BY <1>1, <1>2, <1>3, <1>4

\* select_del_read and select_del_write, called for a direction that is watched.
LEMMA SelectDelGood ==
    ASSUME NEW f \in Files, NEW s, Good(s, f), NEW d \in s.m
    PROVE  Good(SelectDel(s, f, d), f) /\ SelectDel(s, f, d).m = s.m \ {d}
<1> DEFINE B == OutOf(s.fds, f, d)
           w == [s EXCEPT !.m = @ \ {d}, !.fds[d] = @ \ {f}]
<1>1. /\ s \in Parts /\ s.fds \in [Dirs -> SUBSET Files] /\ s.m \in SUBSET Dirs
      /\ s.q \in Seq(Slot) /\ s.id \in [Files -> Nat] /\ s.x \in SUBSET Files
      /\ s.top \in Files \cup {-1} /\ s.dirty \in BOOLEAN /\ s.n \in Int
  BY DEF Good, Parts
<1>2. /\ B \in [Dirs -> SUBSET Files]
      /\ Either(B) = IF f \in s.fds[Other(d)] THEN s.x ELSE s.x \ {f}
      /\ In(B, f) = s.m \ {d}
      /\ \A g \in Files \ {f} : mask[g] = In(B, g)
  <2> DEFINE S == s.fds
  <2>1. S \in [Dirs -> SUBSET Files] /\ s.x = Either(S) /\ s.m = In(S, f)
        /\ \A g \in Files \ {f} : mask[g] = In(S, g)
    BY <1>1 DEF Good
  <2>2. d \in Dirs
    BY <1>1
  <2>. HIDE DEF S
  <2>3. /\ OutOf(S, f, d) \in [Dirs -> SUBSET Files]
        /\ Either(OutOf(S, f, d)) =
              IF f \in S[Other(d)] THEN Either(S) ELSE Either(S) \ {f}
        /\ In(OutOf(S, f, d), f) = In(S, f) \ {d}
        /\ \A g \in Files \ {f} : In(OutOf(S, f, d), g) = In(S, g)
    BY <2>1, <2>2, SetChanges
  <2>. QED
    BY <2>1, <2>3 DEF S
<1>3. f \in s.x
  BY <1>1 DEF Good, In, Either, Dirs
<1>4. /\ w \in Parts /\ w.m = s.m \ {d} /\ w.fds = B /\ w.x = s.x /\ w.q = s.q
      /\ w.id = s.id /\ w.top = s.top /\ w.dirty = s.dirty /\ w.n = s.n
  BY <1>1, <1>2 DEF Parts, OutOf
<1>. HIDE DEF B, w
<1>5. CASE f \in s.fds[Other(d)]
  <2>1. SelectDel(s, f, d) = w
    BY <1>5 DEF SelectDel, w
  <2>2. Good(w, f)
    BY <1>2, <1>4, <1>5 DEF Good
  <2>. QED
    BY <1>4, <2>1, <2>2
<1>6. CASE f \notin s.fds[Other(d)]
  <2> DEFINE r == Taken(s.q, s.id[f])
             n == TakenId(s.q, s.id, f)
             t == [m |-> s.m \ {d}, fds |-> B, x |-> s.x \ {f}, q |-> r, id |-> n,
                   top |-> s.top, dirty |-> s.dirty \/ f = s.top, n |-> s.n - 1]
  <2>1. SelectDel(s, f, d) = t
    BY <1>1, <1>6 DEF SelectDel, Parts, B, OutOf
  <2>2. s.id[f] # NoSlot /\ SlotsExact(s.q, s.id) /\ s.n = Len(s.q)
    BY <1>3 DEF Good
  <2>3. s.id[f] \in 1..Len(s.q)
    BY <1>1, <2>2 DEF SlotsExact
  <2>4. r \in Seq(Slot) /\ Len(r) = s.n - 1
    <3> DEFINE q == s.q
    <3>1. q \in Seq(Slot) /\ s.id[f] \in 1..Len(q) /\ s.n = Len(q)
      BY <1>1, <2>2, <2>3
    <3>. HIDE DEF q
    <3>2. Taken(q, s.id[f]) \in Seq(Slot) /\ Len(Taken(q, s.id[f])) = Len(q) - 1
      BY <3>1, TakenEntries
    <3>. QED
      BY <3>1, <3>2 DEF q
  <2>5. /\ n \in [Files -> Nat] /\ SlotsExact(r, n) /\ n[f] = NoSlot
        /\ \A g \in Files \ {f} : n[g] = NoSlot <=> s.id[g] = NoSlot
    <3> DEFINE q == s.q
               i == s.id
    <3>1. q \in Seq(Slot) /\ i \in [Files -> Nat] /\ SlotsExact(q, i) /\ i[f] # NoSlot
      BY <1>1, <2>2
    <3>. HIDE DEF q, i
    <3>2. /\ TakenId(q, i, f) \in [Files -> Nat]
          /\ SlotsExact(Taken(q, i[f]), TakenId(q, i, f))
          /\ TakenId(q, i, f)[f] = NoSlot
          /\ \A g \in Files \ {f} : TakenId(q, i, f)[g] = NoSlot <=> i[g] = NoSlot
      BY <3>1, SlotTaken
    <3>. QED
      BY <3>2 DEF q, i
  <2>6. \A g \in Files : n[g] # NoSlot <=> g \in s.x \ {f}
    BY <2>5 DEF Good
  <2>7. ~t.dirty => \A g \in s.x \ {f} : g <= t.top
    BY DEF Good
  <2>8. t \in Parts
    BY <1>1, <1>2, <2>4, <2>5 DEF Parts
  <2>9. Good(t, f)
    <3>. HIDE DEF r, n
    <3>. QED
      BY <1>2, <1>6, <2>4, <2>5, <2>6, <2>7, <2>8 DEF Good
  <2>. QED
    BY <2>1, <2>9
<1>. QED
  BY <1>5, <1>6

-----------------------------------------------------------------------------
(***************************************************************************)
(* A set of backend calls on one file.                                     *)
(***************************************************************************)

\* Deletions only of what is watched.
LEMMA CalledGood ==
    ASSUME NEW f \in Files, Good(Part(f), f), NEW ops, Deleted(ops) \subseteq mask[f]
    PROVE  /\ Good(SelectCalled(f, ops), f)
           /\ SelectCalled(f, ops).m = (mask[f] \ Deleted(ops)) \cup Added(ops)
<1> DEFINE s0 == Part(f)
           s1 == IF DelOp(READ) \in ops THEN SelectDel(s0, f, READ) ELSE s0
           s2 == IF DelOp(WRITE) \in ops THEN SelectDel(s1, f, WRITE) ELSE s1
           s3 == IF AddOp(READ) \in ops THEN SelectAdd(s2, f, READ) ELSE s2
           s4 == IF AddOp(WRITE) \in ops THEN SelectAdd(s3, f, WRITE) ELSE s3
<1>1. SelectCalled(f, ops) = s4
  BY DEF SelectCalled
<1>2. /\ READ \in Dirs /\ WRITE \in Dirs /\ READ # WRITE
      /\ DelOp(READ) \in ops => READ \in mask[f]
      /\ DelOp(WRITE) \in ops => WRITE \in mask[f]
  BY DEF Dirs, READ, WRITE, Deleted
<1>3. Good(s0, f) /\ s0.m = mask[f]
  BY DEF Part
<1>. HIDE DEF s0
<1>4. /\ Good(s1, f)
      /\ s1.m = IF DelOp(READ) \in ops THEN mask[f] \ {READ} ELSE mask[f]
  <2>1. CASE DelOp(READ) \in ops
    <3>1. READ \in s0.m
      BY <1>2, <1>3, <2>1
    <3>2. Good(SelectDel(s0, f, READ), f) /\ SelectDel(s0, f, READ).m = s0.m \ {READ}
      BY <1>3, <3>1, SelectDelGood
    <3>. QED
      BY <1>3, <2>1, <3>2
  <2>2. CASE DelOp(READ) \notin ops
    BY <1>3, <2>2
  <2>. QED
    BY <2>1, <2>2
<1>. HIDE DEF s1
<1>5. /\ Good(s2, f)
      /\ s2.m = IF DelOp(WRITE) \in ops THEN s1.m \ {WRITE} ELSE s1.m
  BY <1>2, <1>4, SelectDelGood
<1>. HIDE DEF s2
<1>6. /\ Good(s3, f)
      /\ s3.m = IF AddOp(READ) \in ops THEN s2.m \cup {READ} ELSE s2.m
  BY <1>2, <1>5, SelectAddGood
<1>. HIDE DEF s3
<1>7. /\ Good(s4, f)
      /\ s4.m = IF AddOp(WRITE) \in ops THEN s3.m \cup {WRITE} ELSE s3.m
  BY <1>2, <1>6, SelectAddGood
<1>. HIDE DEF s4
<1>8. /\ Deleted(ops) = {d \in {READ} : DelOp(READ) \in ops}
                           \cup {d \in {WRITE} : DelOp(WRITE) \in ops}
      /\ Added(ops) = {d \in {READ} : AddOp(READ) \in ops}
                         \cup {d \in {WRITE} : AddOp(WRITE) \in ops}
  BY DEF Deleted, Added, Dirs, READ, WRITE
<1>9. s2.m = mask[f] \ Deleted(ops)
  BY <1>4, <1>5, <1>8
<1>10. s4.m = s2.m \cup Added(ops)
  BY <1>6, <1>7, <1>8
<1>. QED
  BY <1>1, <1>7, <1>9, <1>10

-----------------------------------------------------------------------------
(***************************************************************************)
(* The inductive invariant.                                                *)
(***************************************************************************)

\* Files are walked through and callbacks run only inside the backend's wait.
Walking == cur # NULL \/ ready # <<>> => stage = "event_wait"

\* The part of the type invariant that the backend functions touch, with how
\* the sets, the array and the masks agree, and what maxfd is while it is valid.
SetsGood ==
    /\ fds \in [Dirs -> SUBSET Files] /\ xset \in SUBSET Files
    /\ files \in Seq(Slot) /\ id \in [Files -> Nat]
    /\ maxfd \in Files \cup {-1} /\ dirty \in BOOLEAN /\ fdcount \in Int
    /\ SlotsExact(files, id)
    /\ xset = Either(fds)
    /\ \A f \in Files : id[f] # NoSlot <=> f \in xset
    /\ \A f \in Files : mask[f] = In(fds, f)
    /\ fdcount = Len(files)
    /\ ~dirty => \A f \in xset : f <= maxfd

WalkOK ==
    /\ copy \in [Dirs \cup {EXC} -> SUBSET Files]
    /\ ready \in Seq(Files)
    /\ cur \in Cur \cup {NULL}
    /\ Walking

SelectInv ==
    /\ TypeOK
    /\ CoreInv
    /\ SetsGood
    /\ WalkOK

LEMMA PartGood ==
    ASSUME SetsGood, mask \in [Files -> SUBSET Dirs], NEW f \in Files
    PROVE  Good(Part(f), f)
BY DEF SetsGood, Good, Part, Parts

\* The bound that select() will be given.
LEMMA TopBounds ==
    ASSUME SetsGood
    PROVE  Top \in Files \cup {-1} /\ \A f \in xset : f <= Top
<1>1. CASE ~dirty
  BY <1>1 DEF SetsGood, Top
<1>2. CASE dirty
  <2> DEFINE S == {files[i].file : i \in DOMAIN files} \cup {-1}
  <2>1. files \in Seq(Slot) /\ DOMAIN files = 1..Len(files)
    BY DEF SetsGood
  <2>2. S = UpTo(files, Len(files))
    BY <2>1 DEF UpTo
  <2>3. \E f \in S : \A g \in S : f >= g
    BY <2>1, <2>2, Greatest DEF HasGreatest
  <2>4. Top \in S /\ \A g \in S : Top >= g
    <3>. HIDE DEF S
    <3>1. Top = CHOOSE f \in S : \A g \in S : f >= g
      BY <1>2 DEF Top, S
    <3>. QED
      BY <2>3, <3>1
  <2>5. S \subseteq Files \cup {-1}
    <3>1. \A i \in 1..Len(files) : files[i] \in Slot
      BY <2>1
    <3>. QED
      BY <2>1, <3>1, SlotHolds
  <2>6. xset \subseteq S
    <3>1. ASSUME NEW f \in xset PROVE f \in S
      <4>1. id[f] \in DOMAIN files /\ files[id[f]].file = f
        BY <3>1 DEF SetsGood, SlotsExact
      <4>. QED
        BY <4>1
    <3>. QED
      BY <3>1
  <2>7. \A f \in xset : f <= Top
    <3>. HIDE DEF S
    <3>1. \A f \in xset : Top >= f /\ f \in Int /\ Top \in Int
      BY <2>4, <2>5, <2>6, FilesAreInts
    <3>. QED
      BY <3>1
  <2>. QED
    BY <2>4, <2>5, <2>7
<1>. QED
  BY <1>1, <1>2 DEF SetsGood

\* A set of calls on one file: the core's abstract backend, and the sets.
LEMMA SelectCallsStep ==
    ASSUME SelectInv, NEW f \in Files, NEW ops, Deleted(ops) \subseteq mask[f],
           SelectCalls(f, ops)
    PROVE  Backend(f, ops) /\ SetsGood' /\ UNCHANGED walkVars
<1> DEFINE s == SelectCalled(f, ops)
<1>1. Good(s, f) /\ s.m = (mask[f] \ Deleted(ops)) \cup Added(ops)
  BY PartGood, CalledGood DEF SelectInv, TypeOK
<1>2. /\ mask' = [mask EXCEPT ![f] = s.m]
      /\ fds' = s.fds /\ xset' = s.x /\ files' = s.q /\ id' = s.id
      /\ maxfd' = s.top /\ dirty' = s.dirty /\ fdcount' = s.n
      /\ UNCHANGED walkVars
  BY DEF SelectCalls
<1>. HIDE DEF s
<1>3. Backend(f, ops)
  BY <1>1, <1>2 DEF Backend
<1>4. mask \in [Files -> SUBSET Dirs]
  BY DEF SelectInv, TypeOK
<1>5. /\ s.fds \in [Dirs -> SUBSET Files] /\ s.x \in SUBSET Files
      /\ s.q \in Seq(Slot) /\ s.id \in [Files -> Nat]
      /\ s.top \in Files \cup {-1} /\ s.dirty \in BOOLEAN /\ s.n \in Int
  BY <1>1 DEF Good, Parts
<1>6. \A g \in Files : mask'[g] = In(s.fds, g)
  BY <1>1, <1>2, <1>4 DEF Good
<1>7. SetsGood'
  BY <1>1, <1>2, <1>5, <1>6 DEF Good, SetsGood, In, Either
<1>. QED
  BY <1>2, <1>3, <1>7

-----------------------------------------------------------------------------
(***************************************************************************)
(* Every step of the loop on select is a step of the core, and keeps the   *)
(* invariant.                                                              *)
(***************************************************************************)

\* What every step does, action by action.
Follows == [Next]_vars /\ SetsGood' /\ WalkOK'

\* Application code on this backend runs only where the core lets it run.
LEMMA SelectAppRunsInApp == ASSUME SelectInv, SelectAppRuns PROVE AppRuns
BY DEF SelectInv, WalkOK, Walking, SelectAppRuns, AppRuns

\* The steps that leave the masks, the sets and the array alone.
LEMMA SameSets == ASSUME SelectInv, UNCHANGED <<mask, setVars>> PROVE SetsGood'
BY DEF SelectInv, setVars, SetsGood, In, Either

\* The steps that do not touch the walk, nor leave the wait.
LEMMA SameWalk ==
    ASSUME SelectInv, UNCHANGED walkVars, stage' = stage
    PROVE  WalkOK'
BY DEF SelectInv, walkVars, WalkOK, Walking

LEMMA SelectAddFollows ==
    ASSUME SelectInv, NEW f \in Files, NEW d \in Dirs, SelectAddDir(f, d)
    PROVE  Follows
<1>1. AppRuns
  BY SelectAppRunsInApp DEF SelectAddDir
<1>2. CASE AddRefused(f, d) /\ UNCHANGED <<setVars, walkVars>>
  <2>1. Next
    BY <1>1, <1>2 DEF Add, Next
  <2>2. UNCHANGED <<mask, stage>> /\ UNCHANGED setVars /\ UNCHANGED walkVars
    BY <1>2 DEF AddRefused
  <2>3. SetsGood' /\ WalkOK'
    BY <2>2, SameSets, SameWalk
  <2>. QED
    BY <2>1, <2>3 DEF Follows
<1>3. ASSUME NEW p \in Procs, AddFe(f, d, p), SelectCalls(f, AddCalls(f, d))
      PROVE  Follows
  <2>1. Deleted(AddCalls(f, d)) \subseteq mask[f]
    BY CallBits DEF AddCalls, Direct
  <2>2. Backend(f, AddCalls(f, d)) /\ SetsGood' /\ UNCHANGED walkVars
    BY <1>3, <2>1, SelectCallsStep
  <2>3. Next
    BY <1>1, <1>3, <2>2 DEF Add, Next
  <2>4. stage' = stage
    BY <1>3 DEF AddFe
  <2>. QED
    BY <2>2, <2>3, <2>4, SameWalk DEF Follows
<1>. QED
  BY <1>2, <1>3 DEF SelectAddDir

LEMMA SelectDelFollows ==
    ASSUME SelectInv, NEW f \in Files, NEW d \in Dirs, SelectDelDir(f, d)
    PROVE  Follows
<1>1. AppRuns
  BY SelectAppRunsInApp DEF SelectDelDir
<1>2. Deleted(DelCalls(f, d)) \subseteq mask[f]
  BY OpsDistinct DEF DelCalls, Deleted
<1>3. Backend(f, DelCalls(f, d)) /\ SetsGood' /\ UNCHANGED walkVars
  BY <1>2, SelectCallsStep DEF SelectDelDir
<1>4. Next
  BY <1>1, <1>3 DEF SelectDelDir, Del, Next
<1>5. stage' = stage
  BY DEF SelectDelDir, DelFe
<1>. QED
  BY <1>3, <1>4, <1>5, SameWalk DEF Follows

LEMMA SelectDisableFollows ==
    ASSUME SelectInv, NEW f \in Files, SelectDisable(f)
    PROVE  Follows
<1>1. AppRuns
  BY SelectAppRunsInApp DEF SelectDisable
<1>2. Deleted(DelReadWriteCalls(f)) \subseteq mask[f]
  <2>1. mask[f] \in SUBSET Dirs
    BY DEF SelectInv, TypeOK
  <2>. QED
    BY <2>1, MaskBits DEF DelReadWriteCalls
<1>3. Backend(f, DelReadWriteCalls(f)) /\ SetsGood' /\ UNCHANGED walkVars
  BY <1>2, SelectCallsStep DEF SelectDisable
<1>4. Next
  BY <1>1, <1>3 DEF SelectDisable, DelReadWrite, Next
<1>5. stage' = stage
  BY DEF SelectDisable, DelReadWriteFe
<1>. QED
  BY <1>3, <1>4, <1>5, SameWalk DEF Follows

LEMMA SelectPrepareFollows ==
    ASSUME SelectInv, NEW f \in Files, SelectPrepare(f)
    PROVE  Follows
<1>1. Deleted(oper[f]) \subseteq mask[f]
  BY DEF SelectInv, CoreInv, NoConflict
<1>2. Backend(f, oper[f]) /\ SetsGood' /\ UNCHANGED walkVars
  BY <1>1, SelectCallsStep DEF SelectPrepare
<1>3. Next
  BY <1>2 DEF SelectPrepare, Prepare, Next
<1>4. stage' = stage
  BY DEF SelectPrepare, PrepareFe
<1>. QED
  BY <1>2, <1>3, <1>4, SameWalk DEF Follows

\* select() is given a bound, and its results are copied.
LEMMA SelectWaitFollows ==
    ASSUME SelectInv, SelectWait
    PROVE  Follows
<1>1. PICK R \in SUBSET {f \in fds[READ] : f <= maxfd'},
           X \in SUBSET {f \in xset : f <= maxfd'} :
          IF R \cup X = {} THEN UNCHANGED <<copy, ready>>
          ELSE /\ copy' = [k \in Dirs \cup {EXC} |->
                              CASE k = READ -> R [] k = EXC -> X [] OTHER -> fds[WRITE]]
               /\ ready' = [i \in DOMAIN files |-> files[i].file]
  BY DEF SelectWait
<1>2. /\ Next /\ stage' = "event_wait" /\ maxfd' = Top
      /\ UNCHANGED <<mask, fds, xset, files, id, dirty, fdcount, cur>>
  BY DEF SelectWait, EventWait, feVars, Next
<1>3. SetsGood /\ WalkOK
  BY DEF SelectInv
<1>4. SetsGood'
  <2>1. Top \in Files \cup {-1} /\ \A f \in xset : f <= Top
    BY <1>3, TopBounds
  <2>. QED
    BY <1>2, <1>3, <2>1 DEF SetsGood, In, Either
<1>5. R \in SUBSET Files /\ X \in SUBSET Files /\ fds[WRITE] \in SUBSET Files
  BY <1>1, <1>3 DEF SetsGood, Dirs
<1>6. copy' \in [Dirs \cup {EXC} -> SUBSET Files]
  BY <1>1, <1>3, <1>5 DEF WalkOK
<1>7. ready' \in Seq(Files)
  <2>1. DOMAIN files = 1..Len(files) /\ Len(files) \in Nat
        /\ \A i \in 1..Len(files) : files[i] \in Slot
    BY <1>3 DEF SetsGood
  <2>2. \A i \in 1..Len(files) : files[i].file \in Files
    BY <2>1, SlotHolds
  <2>3. [i \in 1..Len(files) |-> files[i].file] \in Seq(Files)
    BY <2>1, <2>2
  <2>. QED
    BY <1>1, <1>3, <2>1, <2>3 DEF WalkOK
<1>. QED
  BY <1>2, <1>3, <1>4, <1>6, <1>7 DEF Follows, WalkOK, Walking

\* What the second test leaves.
LEMMA WriteTestIsCur ==
    ASSUME NEW f \in Files, NEW w \in Procs \cup {NULL}
    PROVE  WriteTest(f, w) \in Cur \cup {NULL}
BY DEF WriteTest, Cur

LEMMA PickFollows ==
    ASSUME SelectInv, SelectPick
    PROVE  Follows
<1>1. /\ UNCHANGED vars /\ UNCHANGED <<mask, stage>> /\ UNCHANGED setVars
      /\ UNCHANGED copy /\ stage = "event_wait"
      /\ ready # <<>> /\ ready' = Tail(ready) /\ WalkOK
  BY DEF SelectPick, vars, SelectInv
<1>2. Head(ready) \in Files /\ Tail(ready) \in Seq(Files)
  BY <1>1 DEF WalkOK
<1>3. \A d \in Dirs : proc[Head(ready)][d] \in Procs \cup {NULL}
  BY <1>2 DEF SelectInv, TypeOK
<1>4. cur' \in Cur \cup {NULL}
  <2>1. READ \in Dirs /\ WRITE \in Dirs
    BY DEF Dirs
  <2>2. WriteTest(Head(ready), proc[Head(ready)][WRITE]) \in Cur \cup {NULL}
    BY <1>2, <1>3, <2>1, WriteTestIsCur
  <2>3. [file |-> Head(ready), runs |-> READ, w_proc |-> proc[Head(ready)][WRITE]] \in Cur
    BY <1>2, <1>3, <2>1 DEF Cur
  <2>. QED
    BY <2>2, <2>3 DEF SelectPick
<1>5. SetsGood'
  BY <1>1, SameSets
<1>. QED
  BY <1>1, <1>2, <1>4, <1>5 DEF Follows, WalkOK, Walking

\* A callback returns.
LEMMA CallbackReturnsFollows ==
    ASSUME SelectInv, ReadReturns \/ WriteReturns
    PROVE  Follows
<1>1. /\ UNCHANGED vars /\ UNCHANGED <<mask, stage>> /\ UNCHANGED setVars
      /\ UNCHANGED <<copy, ready>> /\ cur # NULL /\ WalkOK
  BY DEF ReadReturns, WriteReturns, vars, SelectInv
<1>2. cur \in Cur /\ stage = "event_wait"
  BY <1>1 DEF WalkOK, Walking
<1>3. cur' \in Cur \cup {NULL}
  <2>1. cur.file \in Files /\ cur.w_proc \in Procs \cup {NULL}
    BY <1>2 DEF Cur
  <2>. QED
    BY <2>1, WriteTestIsCur DEF ReadReturns, WriteReturns
<1>4. SetsGood'
  BY <1>1, SameSets
<1>. QED
  BY <1>1, <1>2, <1>3, <1>4 DEF Follows, WalkOK, Walking

\* The steps that only move the loop on.
LEMMA MovesOn ==
    ASSUME SelectInv, SelectSteps \/ SelectReturn
    PROVE  Follows
<1>1. /\ WaitBegin \/ PrepareEnd \/ WaitReturn
      /\ UNCHANGED mask /\ UNCHANGED setVars /\ UNCHANGED <<ready, cur>>
  BY DEF SelectSteps, SelectReturn, WaitBegin, PrepareEnd, WaitReturn, feVars, walkVars
<1>2. Next
  BY <1>1 DEF Next
<1>3. SetsGood' /\ WalkOK
  BY <1>1, SameSets DEF SelectInv
<1>4. copy' \in [Dirs \cup {EXC} -> SUBSET Files]
  BY <1>3 DEF SelectSteps, SelectReturn, walkVars, NoCopy, WalkOK
<1>5. Walking'
  BY <1>3 DEF SelectSteps, SelectReturn, WaitBegin, PrepareEnd, walkVars, WalkOK, Walking
<1>. QED
  BY <1>1, <1>2, <1>3, <1>4, <1>5 DEF Follows, WalkOK

LEMMA SelectFollows ==
    ASSUME SelectInv, [SelectNext]_selectVars
    PROVE  Follows
<1>1. ASSUME NEW f \in Files, SelectApplication(f) PROVE Follows
  BY <1>1, SelectAddFollows, SelectDelFollows, SelectDisableFollows DEF SelectApplication
<1>2. CASE SelectLoop
  BY <1>2, SelectPrepareFollows, MovesOn, SelectWaitFollows, PickFollows,
     CallbackReturnsFollows DEF SelectLoop
<1>3. CASE UNCHANGED selectVars
  <2>1. /\ UNCHANGED vars /\ UNCHANGED mask /\ UNCHANGED setVars
        /\ UNCHANGED walkVars /\ stage' = stage
    BY <1>3 DEF selectVars, vars
  <2>2. SetsGood' /\ WalkOK'
    BY <2>1, SameSets, SameWalk
  <2>. QED
    BY <2>1, <2>2 DEF Follows
<1>. QED
  BY <1>1, <1>2, <1>3 DEF SelectNext

-----------------------------------------------------------------------------

LEMMA SelectInvInit == SelectInit => SelectInv
<1> SUFFICES ASSUME SelectInit PROVE SelectInv
  OBVIOUS
<1>1. CoreInv /\ TypeOK
  BY CoreAssumption, CoreInvInit DEF SelectInit, CoreInv
<1>2. SetsGood
  <2>1. /\ fds = [d \in Dirs |-> {}] /\ xset = {} /\ files = <<>>
        /\ id = [f \in Files |-> NoSlot] /\ maxfd = -1 /\ dirty = FALSE
        /\ fdcount = 0 /\ mask = [f \in Files |-> {}]
    BY DEF SelectInit, Init
  <2>2. files \in Seq(Slot) /\ Len(files) = 0 /\ id \in [Files -> Nat]
    BY <2>1 DEF NoSlot
  <2>3. SlotsExact(files, id)
    BY <2>1 DEF SlotsExact
  <2>4. Either(fds) = {} /\ \A f \in Files : In(fds, f) = {}
    BY <2>1 DEF Either, In, Dirs
  <2>5. /\ fds \in [Dirs -> SUBSET Files] /\ xset \in SUBSET Files
        /\ maxfd \in Files \cup {-1} /\ dirty \in BOOLEAN /\ fdcount \in Int
    <3>1. fds \in [Dirs -> SUBSET Files] /\ xset \in SUBSET Files
      BY <2>1
    <3>2. maxfd \in Files \cup {-1}
      BY <2>1
    <3>3. dirty \in BOOLEAN
      BY <2>1
    <3>4. fdcount \in Int
      BY <2>1
    <3>. QED
      BY <3>1, <3>2, <3>3, <3>4
  <2>6. \A f \in Files : id[f] = NoSlot /\ mask[f] = {}
    BY <2>1
  <2>. QED
    BY <2>1, <2>2, <2>3, <2>4, <2>5, <2>6 DEF SetsGood
<1>3. WalkOK
  <2>1. ready \in Seq(Files) /\ cur \in Cur \cup {NULL} /\ Walking
    BY DEF SelectInit, Walking
  <2>2. copy \in [Dirs \cup {EXC} -> SUBSET Files]
    BY DEF SelectInit, NoCopy
  <2>. QED
    BY <2>1, <2>2 DEF WalkOK
<1>. QED
  BY <1>1, <1>2, <1>3 DEF SelectInv

LEMMA SelectInvStep == SelectInv /\ [SelectNext]_selectVars => SelectInv'
<1> SUFFICES ASSUME SelectInv, [SelectNext]_selectVars PROVE SelectInv'
  OBVIOUS
<1>1. Follows
  BY SelectFollows
<1>2. TypeOK'
  BY <1>1, TypeStep DEF SelectInv, Follows
<1>3. CoreInv'
  BY <1>1, <1>2, CoreInvStep DEF SelectInv, Follows
<1>. QED
  BY <1>1, <1>2, <1>3 DEF Follows, SelectInv

\* The backend's own invariant holds in every state.
THEOREM SelectInvariant == SelectSpec => []SelectInv
<1>. QED
  BY SelectInvInit, SelectInvStep, PTL DEF SelectSpec

\* However files are added and taken out, in callbacks too, the descriptor sets,
\* the array with its indexes, fe->mask and the counter agree, and the bound
\* that select() is given leaves no watched file out.
THEOREM SelectExactAlways == SelectSpec => []SelectExact
<1>1. SelectInv => SelectExact
  <2> SUFFICES ASSUME SelectInv PROVE SelectExact
    OBVIOUS
  <2>1. SelectTypeOK
    BY DEF SelectInv, SetsGood, WalkOK, SelectTypeOK, Slot
  <2>2. \A f \in xset : f <= Top
    BY TopBounds DEF SelectInv
  <2>. QED
    BY <2>1, <2>2 DEF SelectInv, SetsGood, SelectExact, In, Either
<1>. QED
  BY <1>1, SelectInvariant, PTL

\* The select backend, driven by nio_event.c, does what NioEvent says a backend
\* does: with CoreImplementsRegistry, its descriptor sets name what the
\* application asked for whenever the loop sleeps.
THEOREM SelectImplementsCore == SelectSpec => Spec
<1>1. SelectInit => Init
  BY DEF SelectInit
<1>2. SelectInv /\ [SelectNext]_selectVars => [Next]_vars
  BY SelectFollows DEF Follows
<1>. QED
  BY <1>1, <1>2, SelectInvariant, PTL DEF SelectSpec, Spec

\* A read callback starts only for a file that select() reported in this wait,
\* and no callback for an exceptional file that has been given up meanwhile.
THEOREM SelectReportsOnly == SelectSpec => SelectOnlyReported
<1>1. ASSUME SelectInv, [SelectNext]_selectVars PROVE [StartsIfReported]_selectVars
  <2> SUFFICES ASSUME cur' # cur, cur' # NULL
               PROVE  /\ cur'.runs = READ => cur'.file \in copy[READ] \cup copy[EXC]
                      /\ cur'.file \in copy[EXC] => cur'.file \in fds[cur'.runs]
    BY DEF StartsIfReported
  <2>1. ASSUME NEW f, NEW w, cur' = WriteTest(f, w)
        PROVE  cur'.runs = WRITE /\ cur'.file = f /\ Hit(f, WRITE)
    BY <2>1 DEF WriteTest
  <2>2. READ # WRITE
    BY DEF READ, WRITE
  <2>3. CASE SelectPick
    <3>1. CASE Hit(Head(ready), READ) /\ proc[Head(ready)][READ] # NULL
      <4>1. cur'.runs = READ /\ cur'.file = Head(ready) /\ Hit(Head(ready), READ)
        BY <2>3, <3>1 DEF SelectPick
      <4>. QED
        BY <4>1 DEF Hit
    <3>2. CASE ~(Hit(Head(ready), READ) /\ proc[Head(ready)][READ] # NULL)
      BY <2>1, <2>2, <2>3, <3>2 DEF SelectPick, Hit
    <3>. QED
      BY <3>1, <3>2
  <2>4. CASE ReadReturns
    BY <2>1, <2>2, <2>4 DEF ReadReturns, Hit
  <2>5. SelectPick \/ ReadReturns
    BY <1>1 DEF SelectNext, SelectLoop, SelectApplication, SelectAddDir, SelectDelDir,
       SelectDisable, SelectPrepare, SelectCalls, SelectSteps, SelectWait, WriteReturns,
       SelectReturn, selectVars, walkVars
  <2>. QED
    BY <2>3, <2>4, <2>5
<1>. QED
  BY <1>1, SelectInvariant, PTL DEF SelectSpec, SelectOnlyReported
=============================================================================
