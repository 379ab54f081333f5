---------------------------- MODULE NioPollProofs ----------------------------
(***************************************************************************)
(* Proofs about NioPoll: the array of watched files, the index each file   *)
(* keeps into it and fe->mask never drift apart, and the poll backend      *)
(* implements the event core.  The core's invariant is needed for the      *)
(* first: poll_del_read and poll_del_write are called only for a direction *)
(* of the mask, so the index they use is never -1.                         *)
(***************************************************************************)
EXTENDS NioPoll, NioEventProofs

(***************************************************************************)
(* The backend functions, one file at a time.                              *)
(***************************************************************************)

\* The array when f watches m and the other files watch their masks.
ExactWith(q, i, f, m) ==
    /\ SlotsExact(q, i)
    /\ i[f] # NoSlot <=> m # {}
    /\ \A g \in Files \ {f} : i[g] # NoSlot <=> mask[g] # {}
    /\ \A j \in DOMAIN q : q[j].evs = IF q[j].file = f THEN m ELSE mask[q[j].file]

\* A part in which the array agrees with the masks.
Good(s, f) ==
    /\ s \in [m : SUBSET Dirs, q : Seq(Pfd), id : [Files -> Nat], n : Int]
    /\ ExactWith(s.q, s.id, f, s.m)
    /\ s.n = Len(s.q)

\* What is watched at a slot is changed.
LEMMA EvsChanged ==
    ASSUME NEW q \in Seq(Pfd), NEW i \in [Files -> Nat], NEW f \in Files, NEW m,
           ExactWith(q, i, f, m), m # {},
           NEW m2 \in SUBSET Dirs, m2 # {}
    PROVE  /\ [q EXCEPT ![i[f]].evs = m2] \in Seq(Pfd)
           /\ Len([q EXCEPT ![i[f]].evs = m2]) = Len(q)
           /\ ExactWith([q EXCEPT ![i[f]].evs = m2], i, f, m2)
<1> DEFINE r == [q EXCEPT ![i[f]].evs = m2]
<1>1. DOMAIN q = 1..Len(q) /\ Len(q) \in Nat /\ DOMAIN i = Files
  OBVIOUS
<1>2. i[f] \in 1..Len(q) /\ q[i[f]].file = f
  BY <1>1 DEF ExactWith, SlotsExact
<1>3. \A j \in 1..Len(q) : q[j] \in Pfd
  OBVIOUS
<1>4. [q[i[f]] EXCEPT !.evs = m2] \in Pfd
  BY <1>2, <1>3 DEF Pfd
<1>5. r = [q EXCEPT ![i[f]] = [q[i[f]] EXCEPT !.evs = m2]]
  OBVIOUS
<1>6. /\ r \in Seq(Pfd) /\ Len(r) = Len(q)
      /\ \A j \in 1..Len(q) :
            r[j] = IF j = i[f] THEN [q[i[f]] EXCEPT !.evs = m2] ELSE q[j]
  BY <1>2, <1>4, <1>5
<1>7. DOMAIN r = 1..Len(q)
  BY <1>6
<1>. HIDE DEF r
<1>8. ASSUME NEW j \in 1..Len(q)
      PROVE  /\ r[j].file = q[j].file
             /\ r[j].evs = IF q[j].file = f THEN m2 ELSE q[j].evs
  <2>1. i[q[j].file] = j
    BY <1>1 DEF ExactWith, SlotsExact
  <2>2. CASE j = i[f]
    BY <1>2, <1>3, <1>6, <2>2 DEF Pfd
  <2>3. CASE j # i[f]
    BY <1>6, <2>1, <2>3
  <2>. QED
    BY <2>2, <2>3
<1>9. SlotsExact(r, i)
  BY <1>1, <1>7, <1>8 DEF ExactWith, SlotsExact
<1>10. \A j \in DOMAIN r : r[j].evs = IF r[j].file = f THEN m2 ELSE mask[r[j].file]
  BY <1>1, <1>7, <1>8 DEF ExactWith
<1>11. ExactWith(r, i, f, m2)
  BY <1>9, <1>10 DEF ExactWith
<1>. QED
  BY <1>6, <1>11 DEF r

\* poll_add_read and poll_add_write.
LEMMA PollAddGood ==
    ASSUME NEW f \in Files, NEW s, Good(s, f), NEW d \in Dirs
    PROVE  Good(PollAdd(s, f, d), f) /\ PollAdd(s, f, d).m = s.m \cup {d}
<1>1. /\ s \in [m : SUBSET Dirs, q : Seq(Pfd), id : [Files -> Nat], n : Int]
      /\ s.m \in SUBSET Dirs /\ s.q \in Seq(Pfd) /\ s.id \in [Files -> Nat]
      /\ s.m \cup {d} \in SUBSET Dirs /\ s.m \cup {d} # {}
      /\ ExactWith(s.q, s.id, f, s.m) /\ s.n = Len(s.q)
  BY DEF Good
<1>2. CASE s.id[f] # NoSlot
  <2> DEFINE t == [s EXCEPT !.m = s.m \cup {d},
                            !.q = [s.q EXCEPT ![s.id[f]].evs = s.m \cup {d}]]
  <2>1. s.m # {} /\ s.id[f] \in DOMAIN s.q /\ s.q[s.id[f]].evs = s.m
    BY <1>1, <1>2 DEF ExactWith, SlotsExact
  <2>2. PollAdd(s, f, d) = t
    BY <1>1, <1>2, <2>1 DEF PollAdd
  <2>3. /\ [s.q EXCEPT ![s.id[f]].evs = s.m \cup {d}] \in Seq(Pfd)
        /\ Len([s.q EXCEPT ![s.id[f]].evs = s.m \cup {d}]) = Len(s.q)
        /\ ExactWith([s.q EXCEPT ![s.id[f]].evs = s.m \cup {d}], s.id, f, s.m \cup {d})
    BY <1>1, <2>1, EvsChanged
  <2>4. Good(t, f)
    BY <1>1, <2>3 DEF Good
  <2>. QED
    BY <1>1, <2>2, <2>4
<1>3. CASE s.id[f] = NoSlot
  <2> DEFINE e == [file |-> f, evs |-> {d}, rev |-> {}]
             r == Placed(s.q, e)
             n == PlacedId(s.q, s.id, e)
             t == [m |-> s.m \cup {d}, q |-> r, id |-> n, n |-> s.n + 1]
  <2>1. s.m = {}
    BY <1>1, <1>3 DEF ExactWith
  <2>2. e \in Pfd /\ e.file = f /\ e.evs = {d}
    BY DEF Pfd, Revents
  <2>. HIDE DEF e
  <2>3. PollAdd(s, f, d) = t
    BY <1>3 DEF PollAdd, e
  <2>4. SlotsExact(s.q, s.id)
    BY <1>1 DEF ExactWith
  <2>5. /\ r \in Seq(Pfd) /\ Len(r) = Len(s.q) + 1
        /\ \A j \in 1..Len(s.q) : r[j] = s.q[j]
        /\ r[Len(s.q) + 1] = e
    <3> DEFINE q == s.q
    <3>1. q \in Seq(Pfd)
      BY <1>1
    <3>. HIDE DEF q
    <3>2. /\ Placed(q, e) \in Seq(Pfd) /\ Len(Placed(q, e)) = Len(q) + 1
          /\ \A j \in 1..Len(q) : Placed(q, e)[j] = q[j]
          /\ Placed(q, e)[Len(q) + 1] = e
      BY <2>2, <3>1, PlacedEntries
    <3>. QED
      BY <3>2 DEF q
  <2>6. n \in [Files -> Nat] /\ SlotsExact(r, n)
    BY <1>1, <1>3, <2>2, <2>4, PlacedExact
  <2>7. n[f] # NoSlot /\ \A g \in Files \ {f} : n[g] = s.id[g]
    BY <1>1, <2>2 DEF PlacedId, NoSlot
  <2>8. DOMAIN r = 1..(Len(s.q) + 1) /\ DOMAIN s.q = 1..Len(s.q) /\ Len(s.q) \in Nat
    BY <1>1, <2>5
  <2>. HIDE DEF r, n
  <2>9. ASSUME NEW j \in DOMAIN r
        PROVE  r[j].evs = IF r[j].file = f THEN s.m \cup {d} ELSE mask[r[j].file]
    <3>1. CASE j = Len(s.q) + 1
      BY <2>1, <2>2, <2>5, <3>1
    <3>2. CASE j \in 1..Len(s.q)
      <4>1. s.id[s.q[j].file] = j /\ s.q[j].file # f
        BY <1>3, <2>4, <2>8, <3>2 DEF SlotsExact, NoSlot
      <4>. QED
        BY <1>1, <2>5, <2>8, <3>2, <4>1 DEF ExactWith
    <3>. QED
      BY <2>8, <3>1, <3>2
  <2>10. ExactWith(r, n, f, s.m \cup {d})
    BY <1>1, <2>6, <2>7, <2>9 DEF ExactWith
  <2>11. Good(t, f)
    BY <1>1, <2>5, <2>6, <2>10 DEF Good
  <2>. QED
    BY <2>3, <2>11
<1>. QED
  BY <1>2, <1>3

\* poll_del_read and poll_del_write, called for a direction that is watched.
LEMMA PollDelGood ==
    ASSUME NEW f \in Files, NEW s, Good(s, f), NEW d \in s.m
    PROVE  Good(PollDel(s, f, d), f) /\ PollDel(s, f, d).m = s.m \ {d}
<1>1. /\ s \in [m : SUBSET Dirs, q : Seq(Pfd), id : [Files -> Nat], n : Int]
      /\ s.m \in SUBSET Dirs /\ s.q \in Seq(Pfd) /\ s.id \in [Files -> Nat]
      /\ s.m \ {d} \in SUBSET Dirs /\ s.m # {}
      /\ ExactWith(s.q, s.id, f, s.m) /\ s.n = Len(s.q) /\ SlotsExact(s.q, s.id)
  BY DEF Good, ExactWith
<1>2. s.id[f] # NoSlot /\ s.id[f] \in DOMAIN s.q /\ s.q[s.id[f]].evs = s.m
  BY <1>1 DEF ExactWith, SlotsExact
<1>3. CASE s.m \ {d} # {}
  <2> DEFINE t == [s EXCEPT !.m = s.m \ {d},
                            !.q = [s.q EXCEPT ![s.id[f]].evs = s.m \ {d}]]
  <2>1. PollDel(s, f, d) = t
    BY <1>1, <1>2, <1>3 DEF PollDel
  <2>2. /\ [s.q EXCEPT ![s.id[f]].evs = s.m \ {d}] \in Seq(Pfd)
        /\ Len([s.q EXCEPT ![s.id[f]].evs = s.m \ {d}]) = Len(s.q)
        /\ ExactWith([s.q EXCEPT ![s.id[f]].evs = s.m \ {d}], s.id, f, s.m \ {d})
    BY <1>1, <1>3, EvsChanged
  <2>3. Good(t, f)
    BY <1>1, <2>2 DEF Good
  <2>. QED
    BY <1>1, <2>1, <2>3
<1>4. CASE s.m \ {d} = {}
  <2> DEFINE l == Len(s.q)
             r == Taken(s.q, s.id[f])
             n == TakenId(s.q, s.id, f)
             t == [m |-> s.m \ {d}, q |-> r, id |-> n, n |-> s.n - 1]
  <2>1. PollDel(s, f, d) = t
    BY <1>2, <1>4 DEF PollDel
  <2>2. l \in Nat /\ DOMAIN s.q = 1..l /\ s.id[f] \in 1..l
    BY <1>1, <1>2
  <2>3. /\ r \in Seq(Pfd) /\ Len(r) = l - 1
        /\ \A j \in 1..(l - 1) : r[j] = IF j = s.id[f] THEN s.q[l] ELSE s.q[j]
    BY <1>1, <2>2, TakenEntries
  <2>4. /\ n \in [Files -> Nat] /\ SlotsExact(r, n) /\ n[f] = NoSlot
        /\ \A g \in Files \ {f} : n[g] = NoSlot <=> s.id[g] = NoSlot
    BY <1>1, <1>2, TakenExact
  <2>. HIDE DEF r, n
  <2>5. DOMAIN r = 1..(l - 1)
    BY <2>2, <2>3
  <2>6. ASSUME NEW j \in DOMAIN r
        PROVE  r[j].evs = IF r[j].file = f THEN s.m \ {d} ELSE mask[r[j].file]
    <3> DEFINE k == IF j = s.id[f] THEN l ELSE j
    <3>0. j \in 1..(l - 1) /\ k \in 1..l
      BY <2>2, <2>5
    <3>1. k \in DOMAIN s.q /\ r[j] = s.q[k]
      BY <2>2, <2>3, <3>0
    <3>. HIDE DEF k
    <3>2. r[j].file # f
      BY <2>4, <2>5 DEF SlotsExact, NoSlot
    <3>. QED
      BY <1>1, <3>1, <3>2 DEF ExactWith
  <2>7. ExactWith(r, n, f, s.m \ {d})
    BY <1>1, <1>4, <2>4, <2>6 DEF ExactWith
  <2>8. Good(t, f)
    BY <1>1, <2>2, <2>3, <2>4, <2>7 DEF Good
  <2>. QED
    BY <2>1, <2>8
<1>. QED
  BY <1>3, <1>4
-----------------------------------------------------------------------------
(***************************************************************************)
(* A set of backend calls on one file.                                     *)
(***************************************************************************)

\* Deletions only of what is watched.
LEMMA CalledGood ==
    ASSUME NEW f \in Files, Good(Part(f), f), NEW ops, Deleted(ops) \subseteq mask[f]
    PROVE  /\ Good(PollCalled(f, ops), f)
           /\ PollCalled(f, ops).m = (mask[f] \ Deleted(ops)) \cup Added(ops)
<1> DEFINE s0 == Part(f)
           s1 == IF DelOp(READ) \in ops THEN PollDel(s0, f, READ) ELSE s0
           s2 == IF DelOp(WRITE) \in ops THEN PollDel(s1, f, WRITE) ELSE s1
           s3 == IF AddOp(READ) \in ops THEN PollAdd(s2, f, READ) ELSE s2
           s4 == IF AddOp(WRITE) \in ops THEN PollAdd(s3, f, WRITE) ELSE s3
<1>1. PollCalled(f, ops) = s4
  BY DEF PollCalled
<1>2. /\ READ \in Dirs /\ WRITE \in Dirs /\ READ # WRITE
      /\ DelOp(READ) \in ops => READ \in mask[f]
      /\ DelOp(WRITE) \in ops => WRITE \in mask[f]
  BY DEF Dirs, READ, WRITE, Deleted
<1>3. Good(s0, f) /\ s0.m = mask[f]
  BY DEF Part
<1>. HIDE DEF s0
<1>4. /\ Good(s1, f)
      /\ s1.m = IF DelOp(READ) \in ops THEN mask[f] \ {READ} ELSE mask[f]
  <2>1. CASE DelOp(READ) \in ops
    <3>1. READ \in s0.m
      BY <1>2, <1>3, <2>1
    <3>2. Good(PollDel(s0, f, READ), f) /\ PollDel(s0, f, READ).m = s0.m \ {READ}
      BY <1>3, <3>1, PollDelGood
    <3>. QED
      BY <1>3, <2>1, <3>2
  <2>2. CASE DelOp(READ) \notin ops
    BY <1>3, <2>2
  <2>. QED
    BY <2>1, <2>2
<1>. HIDE DEF s1
<1>5. /\ Good(s2, f)
      /\ s2.m = IF DelOp(WRITE) \in ops THEN s1.m \ {WRITE} ELSE s1.m
  BY <1>2, <1>4, PollDelGood
<1>. HIDE DEF s2
<1>6. /\ Good(s3, f)
      /\ s3.m = IF AddOp(READ) \in ops THEN s2.m \cup {READ} ELSE s2.m
  BY <1>2, <1>5, PollAddGood
<1>. HIDE DEF s3
<1>7. /\ Good(s4, f)
      /\ s4.m = IF AddOp(WRITE) \in ops THEN s3.m \cup {WRITE} ELSE s3.m
  BY <1>2, <1>6, PollAddGood
<1>. HIDE DEF s4
<1>8. /\ Deleted(ops) = {d \in {READ} : DelOp(READ) \in ops}
                           \cup {d \in {WRITE} : DelOp(WRITE) \in ops}
      /\ Added(ops) = {d \in {READ} : AddOp(READ) \in ops}
                         \cup {d \in {WRITE} : AddOp(WRITE) \in ops}
  BY DEF Deleted, Added, Dirs, READ, WRITE
<1>9. s2.m = mask[f] \ Deleted(ops)
  BY <1>4, <1>5, <1>8
<1>10. s4.m = s2.m \cup Added(ops)
  BY <1>6, <1>7, <1>8
<1>. QED
  BY <1>1, <1>7, <1>9, <1>10

-----------------------------------------------------------------------------
(***************************************************************************)
(* The inductive invariant.                                                *)
(***************************************************************************)

\* Files are walked through and callbacks run only inside the backend's wait.
Walking == cur # NULL \/ ready # <<>> => stage = "event_wait"

PollInv ==
    /\ PollTypeOK
    /\ CoreInv
    /\ ArrayExact
    /\ Walking

LEMMA PartGood == ASSUME PollInv, NEW f \in Files PROVE Good(Part(f), f)
<1>1. /\ mask \in [Files -> SUBSET Dirs] /\ pfds \in Seq(Pfd)
      /\ id \in [Files -> Nat] /\ fdcount \in Int
  BY DEF PollInv, PollTypeOK, TypeOK
<1>2. ExactWith(pfds, id, f, mask[f]) /\ fdcount = Len(pfds)
  BY DEF PollInv, ArrayExact, ExactWith
<1>. QED
  BY <1>1, <1>2 DEF Good, Part

\* The part of the array in the type invariant and the array's own invariant.
ArrayGood ==
    /\ pfds \in Seq(Pfd) /\ id \in [Files -> Nat] /\ fdcount \in Int
    /\ ArrayExact

\* A set of calls on one file: the core's abstract backend, and the array.
LEMMA PollCallsStep ==
    ASSUME PollInv, NEW f \in Files, NEW ops, Deleted(ops) \subseteq mask[f],
           PollCalls(f, ops)
    PROVE  /\ Backend(f, ops)
           /\ ArrayGood'
           /\ moved' \in BOOLEAN /\ UNCHANGED <<ready, cur, reported>>
<1> DEFINE s == PollCalled(f, ops)
<1>1. Good(s, f) /\ s.m = (mask[f] \ Deleted(ops)) \cup Added(ops)
  BY PartGood, CalledGood
<1>2. /\ mask' = [mask EXCEPT ![f] = s.m]
      /\ pfds' = s.q /\ id' = s.id /\ fdcount' = s.n
      /\ moved' \in BOOLEAN /\ UNCHANGED <<ready, cur, reported>>
  BY DEF PollCalls, PollInv, PollTypeOK
<1>. HIDE DEF s
<1>3. Backend(f, ops)
  BY <1>1, <1>2 DEF Backend
<1>4. mask \in [Files -> SUBSET Dirs]
  BY DEF PollInv, PollTypeOK, TypeOK
<1>5. /\ s.q \in Seq(Pfd) /\ s.id \in [Files -> Nat] /\ s.n \in Int
      /\ ExactWith(s.q, s.id, f, s.m) /\ s.n = Len(s.q)
  BY <1>1 DEF Good
<1>6. ASSUME NEW j \in DOMAIN s.q PROVE s.q[j].file \in Files
  BY <1>5, <1>6 DEF ExactWith, SlotsExact
<1>7. ArrayExact'
  BY <1>2, <1>4, <1>5, <1>6 DEF ExactWith, ArrayExact
<1>. QED
  BY <1>2, <1>3, <1>5, <1>7 DEF ArrayGood

-----------------------------------------------------------------------------
(***************************************************************************)
(* Every step of the loop on poll is a step of the core, and keeps the     *)
(* invariant.                                                              *)
(***************************************************************************)

\* What every step does, action by action.
Follows ==
    /\ [Next]_vars
    /\ ArrayGood'
    /\ ready' \in Seq(Files) /\ cur' \in Cur \cup {NULL}
    /\ reported' \in [Files -> Revents] /\ moved' \in BOOLEAN
    /\ Walking'

\* Application code on this backend runs only where the core lets it run.
LEMMA PollAppRunsInApp == ASSUME PollInv, PollAppRuns PROVE AppRuns
BY DEF PollInv, Walking, PollAppRuns, AppRuns

\* The types of what only poll_wait changes.
LEMMA WalkTypes ==
    ASSUME PollInv
    PROVE  /\ ready \in Seq(Files) /\ cur \in Cur \cup {NULL}
           /\ reported \in [Files -> Revents] /\ moved \in BOOLEAN
           /\ Walking
BY DEF PollInv, PollTypeOK

\* The steps that leave the masks and the array alone.
LEMMA SameArray ==
    ASSUME PollInv, UNCHANGED <<mask, pfds, id, fdcount>>
    PROVE  ArrayGood'
BY DEF PollInv, PollTypeOK, ArrayGood, ArrayExact

LEMMA PollAddFollows ==
    ASSUME PollInv, NEW f \in Files, NEW d \in Dirs, PollAddDir(f, d)
    PROVE  Follows
<1>1. AppRuns
  BY PollAppRunsInApp DEF PollAddDir
<1>2. CASE AddRefused(f, d) /\ UNCHANGED <<arrayVars, walkVars>>
  <2>1. Next
    BY <1>1, <1>2 DEF Add, Next
  <2>2. /\ UNCHANGED <<mask, stage>> /\ UNCHANGED <<pfds, id, fdcount>>
        /\ UNCHANGED <<ready, cur, reported, moved>>
    BY <1>2 DEF AddRefused, arrayVars, walkVars
  <2>3. ArrayGood'
    BY <2>2, SameArray
  <2>. QED
    BY <2>1, <2>2, <2>3, WalkTypes DEF Follows, Walking
<1>3. ASSUME NEW p \in Procs, AddFe(f, d, p), PollCalls(f, AddCalls(f, d))
      PROVE  Follows
  <2>1. Deleted(AddCalls(f, d)) \subseteq mask[f]
    BY CallBits DEF AddCalls, Direct
  <2>2. /\ Backend(f, AddCalls(f, d)) /\ ArrayGood'
        /\ moved' \in BOOLEAN /\ UNCHANGED <<ready, cur, reported>>
    BY <1>3, <2>1, PollCallsStep
  <2>3. Next
    BY <1>1, <1>3, <2>2 DEF Add, Next
  <2>4. stage' = stage
    BY <1>3 DEF AddFe
  <2>. QED
    BY <2>2, <2>3, <2>4, WalkTypes DEF Follows, Walking
<1>. QED
  BY <1>2, <1>3 DEF PollAddDir

LEMMA PollDelFollows ==
    ASSUME PollInv, NEW f \in Files, NEW d \in Dirs, PollDelDir(f, d)
    PROVE  Follows
<1>1. AppRuns
  BY PollAppRunsInApp DEF PollDelDir
<1>2. Deleted(DelCalls(f, d)) \subseteq mask[f]
  BY OpsDistinct DEF DelCalls, Deleted
<1>3. /\ Backend(f, DelCalls(f, d)) /\ ArrayGood'
      /\ moved' \in BOOLEAN /\ UNCHANGED <<ready, cur, reported>>
  BY <1>2, PollCallsStep DEF PollDelDir
<1>4. Next
  BY <1>1, <1>3 DEF PollDelDir, Del, Next
<1>5. stage' = stage
  BY DEF PollDelDir, DelFe
<1>. QED
  BY <1>3, <1>4, <1>5, WalkTypes DEF Follows, Walking

LEMMA PollDisableFollows ==
    ASSUME PollInv, NEW f \in Files, PollDisable(f)
    PROVE  Follows
<1>1. AppRuns
  BY PollAppRunsInApp DEF PollDisable
<1>2. Deleted(DelReadWriteCalls(f)) \subseteq mask[f]
  <2>1. mask[f] \in SUBSET Dirs
    BY DEF PollInv, PollTypeOK, TypeOK
  <2>. QED
    BY <2>1, MaskBits DEF DelReadWriteCalls
<1>3. /\ Backend(f, DelReadWriteCalls(f)) /\ ArrayGood'
      /\ moved' \in BOOLEAN /\ UNCHANGED <<ready, cur, reported>>
  BY <1>2, PollCallsStep DEF PollDisable
<1>4. Next
  BY <1>1, <1>3 DEF PollDisable, DelReadWrite, Next
<1>5. stage' = stage
  BY DEF PollDisable, DelReadWriteFe
<1>. QED
  BY <1>3, <1>4, <1>5, WalkTypes DEF Follows, Walking

LEMMA PollPrepareFollows ==
    ASSUME PollInv, NEW f \in Files, PollPrepare(f)
    PROVE  Follows
<1>1. Deleted(oper[f]) \subseteq mask[f]
  BY DEF PollInv, CoreInv, NoConflict
<1>2. /\ Backend(f, oper[f]) /\ ArrayGood'
      /\ moved' \in BOOLEAN /\ UNCHANGED <<ready, cur, reported>>
  BY <1>1, PollCallsStep DEF PollPrepare
<1>3. Next
  BY <1>2 DEF PollPrepare, Prepare, Next
<1>4. stage' = stage
  BY DEF PollPrepare, PrepareFe
<1>. QED
  BY <1>2, <1>3, <1>4, WalkTypes DEF Follows, Walking

\* poll() changes the reports only.
LEMMA PollWaitFollows ==
    ASSUME PollInv, PollWait
    PROVE  Follows
<1>1. PICK rev \in [DOMAIN pfds -> Revents] :
          /\ pfds' = [i \in DOMAIN pfds |-> [pfds[i] EXCEPT !.rev = rev[i]]]
          /\ ready' = IF \A i \in DOMAIN pfds : rev[i] = {} THEN <<>>
                      ELSE [i \in DOMAIN pfds |-> pfds[i].file]
          /\ reported' = [f \in Files |->
                             IF id[f] = NoSlot THEN {} ELSE rev[id[f]]]
  BY DEF PollWait
<1>2. /\ Next /\ stage' = "event_wait"
      /\ UNCHANGED <<mask, id, fdcount, cur, moved>>
  BY DEF PollWait, EventWait, feVars, Next
<1>3. /\ pfds \in Seq(Pfd) /\ id \in [Files -> Nat] /\ fdcount \in Int
      /\ ArrayExact /\ SlotsExact(pfds, id)
  BY DEF PollInv, PollTypeOK, ArrayExact
<1>4. DOMAIN pfds = 1..Len(pfds) /\ Len(pfds) \in Nat
  BY <1>3
<1>5. ASSUME NEW i \in 1..Len(pfds)
      PROVE  /\ pfds'[i] \in Pfd /\ pfds[i].file \in Files
             /\ pfds'[i].file = pfds[i].file /\ pfds'[i].evs = pfds[i].evs
  <2>1. pfds[i] \in Pfd /\ rev[i] \in Revents
    BY <1>3, <1>4
  <2>2. pfds'[i] = [pfds[i] EXCEPT !.rev = rev[i]]
    BY <1>1, <1>4
  <2>. QED
    BY <2>1, <2>2 DEF Pfd
<1>6. pfds' \in Seq(Pfd) /\ Len(pfds') = Len(pfds) /\ DOMAIN pfds' = 1..Len(pfds)
  BY <1>1, <1>4, <1>5
<1>7. ArrayExact'
  BY <1>2, <1>3, <1>4, <1>5, <1>6 DEF ArrayExact, SlotsExact
<1>8. ready' \in Seq(Files)
  <2>1. [i \in 1..Len(pfds) |-> pfds[i].file] \in Seq(Files)
    BY <1>4, <1>5
  <2>. QED
    BY <1>1, <1>4, <2>1
<1>9. reported' \in [Files -> Revents]
  BY <1>1, <1>3 DEF SlotsExact, Revents
<1>. QED
  BY <1>2, <1>3, <1>6, <1>7, <1>8, <1>9, WalkTypes DEF Follows, ArrayGood, Walking

\* What the second test leaves.
LEMMA WriteTestIsCur ==
    ASSUME NEW f \in Files, NEW i \in Nat, NEW rev, NEW w \in Procs \cup {NULL}
    PROVE  WriteTest(f, i, rev, w) \in Cur \cup {NULL}
BY DEF WriteTest, Cur, Dirs

LEMMA PickFollows ==
    ASSUME PollInv, Pick
    PROVE  Follows
<1>1. /\ UNCHANGED vars /\ UNCHANGED <<mask, stage>> /\ UNCHANGED <<pfds, id, fdcount>>
      /\ UNCHANGED <<reported, moved>> /\ stage = "event_wait"
      /\ ready # <<>> /\ ready' = Tail(ready)
  BY DEF Pick, vars, arrayVars
<1>2. Head(ready) \in Files /\ Tail(ready) \in Seq(Files)
  BY <1>1, WalkTypes
<1>3. id[Head(ready)] \in Nat /\ \A d \in Dirs : proc[Head(ready)][d] \in Procs \cup {NULL}
  BY <1>2 DEF PollInv, PollTypeOK, TypeOK
<1>4. cur' \in Cur \cup {NULL}
  <2>1. READ \in Dirs /\ WRITE \in Dirs
    BY DEF Dirs
  <2>2. \A rev : WriteTest(Head(ready), id[Head(ready)], rev, proc[Head(ready)][WRITE])
                    \in Cur \cup {NULL}
    BY <1>2, <1>3, <2>1, WriteTestIsCur
  <2>3. [file |-> Head(ready), at |-> id[Head(ready)], runs |-> READ,
         w_proc |-> proc[Head(ready)][WRITE]] \in Cur
    BY <1>2, <1>3, <2>1 DEF Cur
  <2>. QED
    BY <2>2, <2>3 DEF Pick
<1>5. ArrayGood'
  BY <1>1, SameArray
<1>. QED
  BY <1>1, <1>2, <1>4, <1>5, WalkTypes DEF Follows, Walking

\* A callback returns.
LEMMA CallbackReturnsFollows ==
    ASSUME PollInv, ReadReturns \/ WriteReturns
    PROVE  Follows
<1>1. /\ UNCHANGED vars /\ UNCHANGED <<mask, stage>> /\ UNCHANGED <<pfds, id, fdcount>>
      /\ UNCHANGED <<ready, reported, moved>> /\ stage = "event_wait"
      /\ cur \in Cur
  BY WalkTypes DEF ReadReturns, WriteReturns, vars, arrayVars, Walking
<1>2. cur' \in Cur \cup {NULL}
  <2>1. cur.file \in Files /\ cur.at \in Nat /\ cur.w_proc \in Procs \cup {NULL}
    BY <1>1 DEF Cur
  <2>. QED
    BY <2>1, WriteTestIsCur DEF ReadReturns, WriteReturns
<1>3. ArrayGood'
  BY <1>1, SameArray
<1>. QED
  BY <1>1, <1>2, <1>3, WalkTypes DEF Follows, Walking

\* The steps that only move the loop on.
LEMMA MovesOn ==
    ASSUME PollInv, PollSteps \/ PollReturn
    PROVE  Follows
<1>1. /\ WaitBegin \/ PrepareEnd \/ WaitReturn
      /\ UNCHANGED <<mask, pfds, id, fdcount>> /\ UNCHANGED <<ready, cur>>
  BY DEF PollSteps, PollReturn, WaitBegin, PrepareEnd, WaitReturn, feVars,
         arrayVars, walkVars
<1>2. Next
  BY <1>1 DEF Next
<1>3. reported' \in [Files -> Revents] /\ moved' \in BOOLEAN
  BY WalkTypes DEF PollSteps, PollReturn, walkVars, Revents
<1>4. Walking'
  BY WalkTypes DEF PollSteps, PollReturn, WaitBegin, PrepareEnd, walkVars, Walking
<1>5. ArrayGood'
  BY <1>1, SameArray
<1>. QED
  BY <1>1, <1>2, <1>3, <1>4, <1>5, WalkTypes DEF Follows

LEMMA PollFollows ==
    ASSUME PollInv, [PollNext]_pollVars
    PROVE  Follows
<1>1. ASSUME NEW f \in Files, PollApplication(f) PROVE Follows
  BY <1>1, PollAddFollows, PollDelFollows, PollDisableFollows DEF PollApplication
<1>2. CASE PollLoop
  BY <1>2, PollPrepareFollows, MovesOn, PollWaitFollows, PickFollows,
     CallbackReturnsFollows DEF PollLoop
<1>3. CASE UNCHANGED pollVars
  <2>1. /\ UNCHANGED vars /\ UNCHANGED <<mask, pfds, id, fdcount>>
        /\ UNCHANGED <<ready, cur, reported, moved, stage>>
    BY <1>3 DEF pollVars, vars
  <2>2. ArrayGood'
    BY <2>1, SameArray
  <2>. QED
    BY <2>1, <2>2, WalkTypes DEF Follows, Walking
<1>. QED
  BY <1>1, <1>2, <1>3 DEF PollNext

-----------------------------------------------------------------------------

LEMMA PollInvInit == PollInit => PollInv
<1> SUFFICES ASSUME PollInit PROVE PollInv
  OBVIOUS
<1>1. CoreInv /\ TypeOK
  BY CoreAssumption, CoreInvInit DEF PollInit, CoreInv
<1>2. PollTypeOK
  <2>1. pfds \in Seq(Pfd) /\ ready \in Seq(Files)
    BY DEF PollInit
  <2>2. id \in [Files -> Nat] /\ reported \in [Files -> Revents]
    BY DEF PollInit, NoSlot, Revents
  <2>3. moved \in BOOLEAN
    BY DEF PollInit
  <2>4. fdcount \in Int /\ cur \in Cur \cup {NULL}
    BY DEF PollInit
  <2>. QED
    BY <1>1, <2>1, <2>2, <2>3, <2>4 DEF PollTypeOK
<1>3. ArrayExact
  BY DEF PollInit, Init, ArrayExact, SlotsExact, NoSlot
<1>. QED
  BY <1>1, <1>2, <1>3 DEF PollInv, PollInit, Walking

LEMMA PollInvStep == PollInv /\ [PollNext]_pollVars => PollInv'
<1> SUFFICES ASSUME PollInv, [PollNext]_pollVars PROVE PollInv'
  OBVIOUS
<1>1. Follows
  BY PollFollows
<1>2. TypeOK'
  BY <1>1, TypeStep DEF PollInv, PollTypeOK, Follows
<1>3. CoreInv'
  BY <1>1, <1>2, CoreInvStep DEF PollInv, Follows
<1>. QED
  BY <1>1, <1>2, <1>3 DEF Follows, ArrayGood, PollInv, PollTypeOK

\* The backend's own invariant holds in every state.
THEOREM PollInvariant == PollSpec => []PollInv
<1>. QED
  BY PollInvInit, PollInvStep, PTL DEF PollSpec

\* However files are added and taken out, in callbacks too, every watched file
\* has exactly one slot, for the directions of its mask, and the counter counts
\* them: the assertions of nio_event_poll.c hold.
THEOREM ArrayExactAlways == PollSpec => []ArrayExact
<1>1. PollInv => ArrayExact
  BY DEF PollInv
<1>. QED
  BY <1>1, PollInvariant, PTL

\* The poll backend, driven by nio_event.c, does what NioEvent says a backend
\* does: with CoreImplementsRegistry, poll watches what the application asked
\* for whenever the loop sleeps.
THEOREM PollImplementsCore == PollSpec => Spec
<1>1. PollInit => Init
  BY DEF PollInit
<1>2. PollInv /\ [PollNext]_pollVars => [Next]_vars
  BY PollFollows DEF Follows
<1>. QED
  BY <1>1, <1>2, PollInvariant, PTL DEF PollSpec, Spec

-----------------------------------------------------------------------------
(***************************************************************************)
(* The reports.  As long as no slot has been given up, the entry a file's  *)
(* index leads to says what poll() reported on that file, the files still  *)
(* to come have their slots, and the pointer pfd of the loop is the one of *)
(* the file whose callback runs.                                           *)
(***************************************************************************)
Told ==
    stage = "event_wait" /\ ~moved =>
        /\ \A f \in Files :
              reported[f] = IF id[f] = NoSlot THEN {} ELSE pfds[id[f]].rev
        /\ \A i \in DOMAIN ready : id[ready[i]] # NoSlot
        /\ cur # NULL => id[cur.file] # NoSlot /\ cur.at = id[cur.file]

\* No slot is given up from s to t: the files keep theirs with its report, and
\* one that gets a slot has no report.
Kept(s, t) ==
    \A g \in Files :
        IF s.id[g] = NoSlot
        THEN t.id[g] # NoSlot => t.q[t.id[g]].rev = {}
        ELSE t.id[g] = s.id[g] /\ t.q[t.id[g]].rev = s.q[s.id[g]].rev

\* The report at every slot stays when only its directions change.
LEMMA EvsKeepsReports ==
    ASSUME NEW q \in Seq(Pfd), NEW i \in DOMAIN q, NEW m2 \in SUBSET Dirs,
           NEW j \in DOMAIN q
    PROVE  [q EXCEPT ![i].evs = m2][j].rev = q[j].rev
<1>1. q[i] \in Pfd
  OBVIOUS
<1>2. [q[i] EXCEPT !.evs = m2].rev = q[i].rev
  BY <1>1 DEF Pfd
<1>3. [q EXCEPT ![i].evs = m2][j] = IF j = i THEN [q[i] EXCEPT !.evs = m2] ELSE q[j]
  OBVIOUS
<1>. QED
  BY <1>2, <1>3

LEMMA PollAddKeeps ==
    ASSUME NEW f \in Files, NEW s, Good(s, f), NEW d \in Dirs
    PROVE  Kept(s, PollAdd(s, f, d))
<1>1. /\ s \in [m : SUBSET Dirs, q : Seq(Pfd), id : [Files -> Nat], n : Int]
      /\ s.m \in SUBSET Dirs /\ s.q \in Seq(Pfd) /\ s.id \in [Files -> Nat]
      /\ s.m \cup {d} \in SUBSET Dirs /\ SlotsExact(s.q, s.id)
      /\ ExactWith(s.q, s.id, f, s.m)
  BY DEF Good, ExactWith
<1>2. \A g \in Files : s.id[g] # NoSlot => s.id[g] \in DOMAIN s.q
  BY <1>1 DEF SlotsExact
<1>3. CASE s.id[f] # NoSlot
  <2>1. s.q[s.id[f]].evs = s.m
    BY <1>1, <1>2, <1>3 DEF ExactWith, SlotsExact
  <2>2. /\ PollAdd(s, f, d).id = s.id
        /\ PollAdd(s, f, d).q = [s.q EXCEPT ![s.id[f]].evs = s.m \cup {d}]
    BY <1>1, <1>3, <2>1 DEF PollAdd
  <2>3. \A j \in DOMAIN s.q : PollAdd(s, f, d).q[j].rev = s.q[j].rev
    BY <1>1, <1>2, <1>3, <2>2, EvsKeepsReports
  <2>. QED
    BY <1>2, <2>2, <2>3 DEF Kept
<1>4. CASE s.id[f] = NoSlot
  <2> DEFINE e == [file |-> f, evs |-> {d}, rev |-> {}]
             q == s.q
             ids == s.id
  <2>1. e \in Pfd /\ e.file = f /\ e.rev = {}
    BY DEF Pfd, Revents
  <2>2. q \in Seq(Pfd) /\ ids \in [Files -> Nat] /\ Len(q) \in Nat
    BY <1>1
  <2>3. PollAdd(s, f, d).q = Placed(q, e) /\ PollAdd(s, f, d).id = PlacedId(q, ids, e)
    BY <1>4 DEF PollAdd
  <2>4. \A g \in Files : ids[g] # NoSlot => ids[g] \in 1..Len(q)
    BY <1>2, <2>2
  <2>. HIDE DEF e, q
  <2>5. /\ \A j \in 1..Len(q) : Placed(q, e)[j] = q[j]
        /\ Placed(q, e)[Len(q) + 1] = e
    BY <2>1, <2>2, PlacedEntries
  <2>6. PlacedId(q, ids, e) = [ids EXCEPT ![f] = Len(q) + 1]
    BY <2>1 DEF PlacedId
  <2>7. ASSUME NEW g \in Files
        PROVE  IF ids[g] = NoSlot
               THEN PlacedId(q, ids, e)[g] # NoSlot
                       => Placed(q, e)[PlacedId(q, ids, e)[g]].rev = {}
               ELSE /\ PlacedId(q, ids, e)[g] = ids[g]
                    /\ Placed(q, e)[PlacedId(q, ids, e)[g]].rev = q[ids[g]].rev
    BY <1>4, <2>1, <2>2, <2>4, <2>5, <2>6
  <2>. QED
    BY <2>3, <2>7 DEF Kept, q
<1>. QED
  BY <1>3, <1>4

\* A deletion that gives the slot up shortens the array.
LEMMA PollDelKeeps ==
    ASSUME NEW f \in Files, NEW s, Good(s, f), NEW d \in s.m
    PROVE  \/ Len(PollDel(s, f, d).q) < Len(s.q)
           \/ Len(PollDel(s, f, d).q) = Len(s.q) /\ Kept(s, PollDel(s, f, d))
<1>1. /\ s \in [m : SUBSET Dirs, q : Seq(Pfd), id : [Files -> Nat], n : Int]
      /\ s.m \in SUBSET Dirs /\ s.q \in Seq(Pfd) /\ s.id \in [Files -> Nat]
      /\ s.m \ {d} \in SUBSET Dirs /\ SlotsExact(s.q, s.id)
      /\ ExactWith(s.q, s.id, f, s.m)
  BY DEF Good, ExactWith
<1>2. /\ \A g \in Files : s.id[g] # NoSlot => s.id[g] \in DOMAIN s.q
      /\ s.id[f] # NoSlot /\ s.q[s.id[f]].evs = s.m
  BY <1>1 DEF SlotsExact, ExactWith
<1>3. CASE s.m \ {d} # {}
  <2>1. /\ PollDel(s, f, d).id = s.id
        /\ PollDel(s, f, d).q = [s.q EXCEPT ![s.id[f]].evs = s.m \ {d}]
    BY <1>1, <1>2, <1>3 DEF PollDel
  <2>2. \A j \in DOMAIN s.q : PollDel(s, f, d).q[j].rev = s.q[j].rev
    BY <1>1, <1>2, <2>1, EvsKeepsReports
  <2>3. Kept(s, PollDel(s, f, d))
    BY <1>2, <2>1, <2>2 DEF Kept
  <2>4. Len(PollDel(s, f, d).q) = Len(s.q)
    BY <1>1, <1>2, <2>1, EvsChanged
  <2>. QED
    BY <2>3, <2>4
<1>4. CASE s.m \ {d} = {}
  <2> DEFINE q == s.q
             i == s.id[f]
  <2>1. PollDel(s, f, d).q = Taken(q, i)
    BY <1>2, <1>4 DEF PollDel
  <2>2. q \in Seq(Pfd) /\ i \in 1..Len(q) /\ Len(q) \in Nat
    BY <1>1, <1>2
  <2>. HIDE DEF q, i
  <2>3. Len(Taken(q, i)) = Len(q) - 1
    BY <2>2, TakenEntries
  <2>. QED
    BY <2>1, <2>2, <2>3 DEF q
<1>. QED
  BY <1>3, <1>4

LEMMA KeptOn ==
    ASSUME NEW s, NEW t, NEW u, Kept(s, t), Kept(t, u)
    PROVE  Kept(s, u)
BY DEF Kept

\* The calls application code makes from a callback either add or delete:
\* a slot that is given up shows in the length of the array.
LEMMA CalledKeeps ==
    ASSUME PollInv, NEW f \in Files, NEW ops, Deleted(ops) \subseteq mask[f],
           Deleted(ops) = {} \/ Added(ops) = {}
    PROVE  \/ Len(PollCalled(f, ops).q) < Len(pfds)
           \/ Kept(Part(f), PollCalled(f, ops))
<1> DEFINE s0 == Part(f)
           s1 == IF DelOp(READ) \in ops THEN PollDel(s0, f, READ) ELSE s0
           s2 == IF DelOp(WRITE) \in ops THEN PollDel(s1, f, WRITE) ELSE s1
           s3 == IF AddOp(READ) \in ops THEN PollAdd(s2, f, READ) ELSE s2
           s4 == IF AddOp(WRITE) \in ops THEN PollAdd(s3, f, WRITE) ELSE s3
<1>1. PollCalled(f, ops) = s4
  BY DEF PollCalled
<1>2. /\ READ \in Dirs /\ WRITE \in Dirs /\ READ # WRITE
      /\ \A d \in Dirs : DelOp(d) \in ops => d \in mask[f]
  BY DEF Dirs, READ, WRITE, Deleted
<1>3. Good(s0, f) /\ s0.m = mask[f] /\ s0.q = pfds /\ Len(pfds) \in Nat
  BY PartGood DEF Part, PollInv, PollTypeOK
<1>. HIDE DEF s0
<1>5. CASE Added(ops) = {}
  <2>1. s4 = s2
    BY <1>2, <1>5 DEF Added
  <2>. HIDE DEF s3, s4
  <2>2. /\ Good(s1, f) /\ (WRITE \in s0.m => WRITE \in s1.m)
        /\ \/ Len(s1.q) < Len(pfds)
           \/ Len(s1.q) = Len(pfds) /\ Kept(s0, s1)
    <3>1. CASE DelOp(READ) \in ops
      BY <1>2, <1>3, <3>1, PollDelGood, PollDelKeeps
    <3>2. CASE DelOp(READ) \notin ops
      BY <1>3, <3>2 DEF Kept
    <3>. QED
      BY <3>1, <3>2
  <2>. HIDE DEF s1
  <2>3. Len(s1.q) \in Nat
    BY <2>2 DEF Good
  <2>4. CASE DelOp(WRITE) \notin ops
    BY <1>1, <2>1, <2>2, <2>4 DEF s0
  <2>5. CASE DelOp(WRITE) \in ops
    <3>1. WRITE \in s1.m /\ s2 = PollDel(s1, f, WRITE)
      BY <1>2, <1>3, <2>2, <2>5
    <3>2. /\ Good(s2, f)
          /\ \/ Len(s2.q) < Len(s1.q)
             \/ Len(s2.q) = Len(s1.q) /\ Kept(s1, s2)
      BY <2>2, <3>1, PollDelGood, PollDelKeeps
    <3>3. Len(s2.q) \in Nat
      BY <3>2 DEF Good
    <3>. HIDE DEF s2
    <3>4. CASE Len(s2.q) = Len(pfds)
      <4>1. Kept(s0, s1) /\ Kept(s1, s2)
        BY <1>3, <2>2, <2>3, <3>2, <3>3, <3>4
      <4>2. Kept(s0, s2)
        BY <4>1, KeptOn
      <4>. QED
        BY <1>1, <2>1, <4>2 DEF s0
    <3>5. CASE Len(s2.q) # Len(pfds)
      <4>1. Len(s2.q) < Len(pfds)
        BY <1>3, <2>2, <2>3, <3>2, <3>3, <3>5
      <4>. QED
        BY <1>1, <2>1, <4>1
    <3>. QED
      BY <3>4, <3>5
  <2>. QED
    BY <2>4, <2>5
<1>6. CASE Deleted(ops) = {}
  <2>1. s2 = s0
    BY <1>2, <1>6 DEF Deleted
  <2>. HIDE DEF s1, s2
  <2>2. Good(s3, f) /\ Kept(s0, s3)
    <3>1. CASE AddOp(READ) \in ops
      BY <1>2, <1>3, <2>1, <3>1, PollAddGood, PollAddKeeps
    <3>2. CASE AddOp(READ) \notin ops
      BY <1>3, <2>1, <3>2 DEF Kept
    <3>. QED
      BY <3>1, <3>2
  <2>. HIDE DEF s3
  <2>3. Kept(s3, s4)
    <3>1. CASE AddOp(WRITE) \in ops
      BY <1>2, <2>2, <3>1, PollAddKeeps
    <3>2. CASE AddOp(WRITE) \notin ops
      BY <3>2 DEF Kept
    <3>. QED
      BY <3>1, <3>2
  <2>. HIDE DEF s4
  <2>4. Kept(s0, s4)
    BY <2>2, <2>3, KeptOn
  <2>. QED
    BY <1>1, <2>4 DEF s0
<1>. QED
  BY <1>5, <1>6

LEMMA CallsTell ==
    ASSUME PollInv, Told, NEW f \in Files, NEW ops, Deleted(ops) \subseteq mask[f],
           Deleted(ops) = {} \/ Added(ops) = {}, PollCalls(f, ops), stage' = stage
    PROVE  Told'
<1> DEFINE s == PollCalled(f, ops)
<1> SUFFICES ASSUME stage = "event_wait", ~moved' PROVE Told'
  BY DEF Told
<1>1. /\ pfds' = s.q /\ id' = s.id
      /\ ~moved /\ ~(Len(s.q) < Len(pfds))
      /\ UNCHANGED <<ready, cur, reported>>
  BY DEF PollCalls
<1>2. Kept(Part(f), s)
  BY <1>1, CalledKeeps
<1>. HIDE DEF s
<1>3. \A g \in Files :
         IF id[g] = NoSlot THEN id'[g] # NoSlot => pfds'[id'[g]].rev = {}
         ELSE id'[g] = id[g] /\ pfds'[id'[g]].rev = pfds[id[g]].rev
  BY <1>1, <1>2 DEF Kept, Part
<1>4. /\ \A i \in DOMAIN ready : ready[i] \in Files
      /\ cur # NULL => cur.file \in Files
  BY WalkTypes DEF Cur
<1>5. /\ \A g \in Files :
            reported'[g] = IF id'[g] = NoSlot THEN {} ELSE pfds'[id'[g]].rev
      /\ \A i \in DOMAIN ready' : id'[ready'[i]] # NoSlot
      /\ cur' # NULL => id'[cur'.file] # NoSlot /\ cur'.at = id'[cur'.file]
  BY <1>1, <1>3, <1>4 DEF Told
<1>. QED
  BY <1>5 DEF Told

LEMMA WaitTells == ASSUME PollInv, PollWait PROVE Told'
<1>1. PICK rev \in [DOMAIN pfds -> Revents] :
          /\ pfds' = [i \in DOMAIN pfds |-> [pfds[i] EXCEPT !.rev = rev[i]]]
          /\ ready' = IF \A i \in DOMAIN pfds : rev[i] = {} THEN <<>>
                      ELSE [i \in DOMAIN pfds |-> pfds[i].file]
          /\ reported' = [f \in Files |->
                             IF id[f] = NoSlot THEN {} ELSE rev[id[f]]]
  BY DEF PollWait
<1>2. /\ UNCHANGED <<id, cur>> /\ cur = NULL
  BY DEF PollWait, EventWait, PollInv, Walking
<1>3. /\ pfds \in Seq(Pfd) /\ SlotsExact(pfds, id) /\ id \in [Files -> Nat]
  BY DEF PollInv, PollTypeOK, ArrayExact
<1>4. ASSUME NEW i \in DOMAIN pfds
      PROVE  pfds'[i].rev = rev[i] /\ pfds[i].file \in Files /\ id[pfds[i].file] = i
             /\ i # NoSlot
  <2>1. pfds[i] \in Pfd
    BY <1>3
  <2>2. pfds'[i] = [pfds[i] EXCEPT !.rev = rev[i]]
    BY <1>1
  <2>3. i \in 1..Len(pfds)
    BY <1>3
  <2>. QED
    BY <1>3, <2>1, <2>2, <2>3 DEF Pfd, SlotsExact, NoSlot
<1>5. \A f \in Files : id[f] # NoSlot => id[f] \in DOMAIN pfds
  BY <1>3 DEF SlotsExact
<1>6. \A f \in Files :
         reported'[f] = IF id'[f] = NoSlot THEN {} ELSE pfds'[id'[f]].rev
  BY <1>1, <1>2, <1>4, <1>5
<1>7. \A i \in DOMAIN ready' : id'[ready'[i]] # NoSlot
  <2>1. CASE ready' = <<>>
    BY <2>1
  <2>2. CASE ready' = [i \in DOMAIN pfds |-> pfds[i].file]
    BY <1>2, <1>4, <2>2
  <2>. QED
    BY <1>1, <2>1, <2>2
<1>. QED
  BY <1>2, <1>6, <1>7 DEF Told

\* The second test starts a callback of the same file on the same slot.
LEMMA WriteTestOf ==
    ASSUME NEW f, NEW i, NEW rev, NEW w, WriteTest(f, i, rev, w) # NULL
    PROVE  /\ WriteTest(f, i, rev, w).file = f /\ WriteTest(f, i, rev, w).at = i
           /\ WriteTest(f, i, rev, w).runs = WRITE
           /\ Hit(WRITE, rev)
BY DEF WriteTest

\* What Pick starts, and what it goes by.
LEMMA PickStarts ==
    ASSUME PollInv, Pick, cur' # NULL
    PROVE  /\ cur'.file = Head(ready) /\ cur'.at = id[Head(ready)]
           /\ \E rev \in RevAt(id[Head(ready)]) : Hit(cur'.runs, rev)
<1> DEFINE f == Head(ready)
<1>1. PICK rev \in RevAt(id[f]) :
         cur' = IF Hit(READ, rev) /\ proc[f][READ] # NULL
                THEN [file |-> f, at |-> id[f], runs |-> READ, w_proc |-> proc[f][WRITE]]
                ELSE WriteTest(f, id[f], rev, proc[f][WRITE])
  BY DEF Pick
<1>. HIDE DEF f
<1>2. CASE Hit(READ, rev) /\ proc[f][READ] # NULL
  BY <1>1, <1>2 DEF f
<1>3. CASE ~(Hit(READ, rev) /\ proc[f][READ] # NULL)
  BY <1>1, <1>3, WriteTestOf DEF f
<1>. QED
  BY <1>2, <1>3

\* What the return of a read callback starts.
LEMMA ReturnStarts ==
    ASSUME PollInv, ReadReturns, cur' # NULL
    PROVE  /\ cur'.file = cur.file /\ cur'.at = cur.at
           /\ \E rev \in RevAt(cur.at) : Hit(cur'.runs, rev)
<1>1. PICK rev \in RevAt(cur.at) : cur' = WriteTest(cur.file, cur.at, rev, cur.w_proc)
  BY DEF ReadReturns
<1>. QED
  BY <1>1, WriteTestOf

LEMMA ToldStep ==
    ASSUME PollInv, Told, [PollNext]_pollVars
    PROVE  Told'
<1>1. ASSUME NEW f \in Files, NEW d \in Dirs, PollAddDir(f, d) PROVE Told'
  <2>1. CASE AddRefused(f, d) /\ UNCHANGED <<arrayVars, walkVars>>
    BY <2>1 DEF AddRefused, arrayVars, walkVars, Told
  <2>2. ASSUME NEW p \in Procs, AddFe(f, d, p), PollCalls(f, AddCalls(f, d))
        PROVE  Told'
    <3>1. Deleted(AddCalls(f, d)) = {}
      BY OpsDistinct DEF AddCalls, Deleted
    <3>2. stage' = stage
      BY <2>2 DEF AddFe
    <3>. QED
      BY <2>2, <3>1, <3>2, CallsTell
  <2>. QED
    BY <1>1, <2>1, <2>2 DEF PollAddDir
<1>2. ASSUME NEW f \in Files, NEW d \in Dirs, PollDelDir(f, d) PROVE Told'
  <2>1. Deleted(DelCalls(f, d)) \subseteq mask[f] /\ Added(DelCalls(f, d)) = {}
    BY OpsDistinct DEF DelCalls, Deleted, Added
  <2>2. stage' = stage /\ PollCalls(f, DelCalls(f, d))
    BY <1>2 DEF PollDelDir, DelFe
  <2>. QED
    BY <2>1, <2>2, CallsTell
<1>3. ASSUME NEW f \in Files, PollDisable(f) PROVE Told'
  <2>1. mask[f] \in SUBSET Dirs
    BY DEF PollInv, PollTypeOK, TypeOK
  <2>2. /\ Deleted(DelReadWriteCalls(f)) \subseteq mask[f]
        /\ Added(DelReadWriteCalls(f)) = {}
    BY <2>1, OpsDistinct DEF DelReadWriteCalls, Deleted, Added
  <2>3. stage' = stage /\ PollCalls(f, DelReadWriteCalls(f))
    BY <1>3 DEF PollDisable, DelReadWriteFe
  <2>. QED
    BY <2>2, <2>3, CallsTell
<1>4. CASE Pick
  <2>1. /\ UNCHANGED <<stage, id, pfds, reported, moved>> /\ cur = NULL
        /\ ready # <<>> /\ ready' = Tail(ready) /\ ready \in Seq(Files)
    BY <1>4, WalkTypes DEF Pick, vars, arrayVars
  <2>2. /\ Head(ready) = ready[1] /\ 1 \in DOMAIN ready
        /\ \A i \in DOMAIN ready' : i + 1 \in DOMAIN ready /\ ready'[i] = ready[i + 1]
    BY <2>1
  <2>3. cur' # NULL => cur'.file = Head(ready) /\ cur'.at = id[Head(ready)]
    BY <1>4, PickStarts
  <2>. QED
    BY <2>1, <2>2, <2>3 DEF Told
<1>5. CASE ReadReturns
  <2>1. UNCHANGED <<stage, id, pfds, reported, moved, ready>> /\ cur # NULL
    BY <1>5 DEF ReadReturns, vars, arrayVars
  <2>2. cur' # NULL => cur'.file = cur.file /\ cur'.at = cur.at
    BY <1>5, ReturnStarts
  <2>. QED
    BY <2>1, <2>2 DEF Told
<1>6. CASE WriteReturns
  <2>1. UNCHANGED <<stage, id, pfds, reported, moved, ready>> /\ cur' = NULL
    BY <1>6 DEF WriteReturns, vars, arrayVars
  <2>. QED
    BY <2>1 DEF Told
<1>7. CASE (\E f \in Files : PollPrepare(f)) \/ PollSteps \/ PollReturn
  <2>1. stage' # "event_wait"
    BY <1>7 DEF PollPrepare, PrepareFe, PollSteps, PollReturn, WaitBegin,
                PrepareEnd, WaitReturn
  <2>. QED
    BY <2>1 DEF Told
<1>8. CASE UNCHANGED pollVars
  BY <1>8 DEF pollVars, Told
<1>. QED
  BY <1>1, <1>2, <1>3, <1>4, <1>5, <1>6, <1>7, <1>8, WaitTells
     DEF PollNext, PollLoop, PollApplication

\* As long as no slot has been given up since poll() returned, the entries say
\* what poll() reported, and the loop reads the entry of its own file.
THEOREM ReportsKept == PollSpec => []Told
<1>1. PollInit => Told
  BY DEF PollInit, Init, Told
<1>2. PollInv /\ Told /\ [PollNext]_pollVars => Told'
  BY ToldStep
<1>. QED
  BY <1>1, <1>2, PollInvariant, PTL DEF PollSpec

\* A callback starts only for what poll() reported on its own file, unless a
\* slot has been given up since: pfd then may be another file's slot, or none.
THEOREM PollReportsOnly == PollSpec => OnlyReported
<1>1. ASSUME PollInv, Told, [PollNext]_pollVars PROVE [StartsIfReported]_pollVars
  <2> SUFFICES ASSUME cur' # cur, cur' # NULL, ~moved
               PROVE  Hit(cur'.runs, reported[cur'.file])
    BY DEF StartsIfReported
  <2>0. PollInv /\ Told /\ [PollNext]_pollVars
    BY <1>1
  <2>1. ASSUME NEW f \in Files, id[f] # NoSlot, NEW rev \in RevAt(id[f]),
               stage = "event_wait"
        PROVE  rev = reported[f]
    <3>1. id[f] \in DOMAIN pfds
      BY <2>0, <2>1 DEF PollInv, PollTypeOK, ArrayExact, SlotsExact
    <3>. QED
      BY <2>0, <2>1, <3>1 DEF RevAt, Told
  <2>2. CASE Pick
    <3>1. /\ stage = "event_wait" /\ ready # <<>> /\ ready \in Seq(Files)
      BY <2>0, <2>2, WalkTypes DEF Pick
    <3>2. Head(ready) = ready[1] /\ 1 \in DOMAIN ready /\ Head(ready) \in Files
      BY <3>1
    <3>3. id[Head(ready)] # NoSlot
      BY <2>0, <3>1, <3>2 DEF Told
    <3>. QED
      BY <2>0, <2>1, <2>2, <3>1, <3>2, <3>3, PickStarts
  <2>3. CASE ReadReturns
    <3>1. cur # NULL /\ stage = "event_wait" /\ cur.file \in Files
      BY <2>0, <2>3, WalkTypes DEF ReadReturns, Walking, Cur
    <3>2. id[cur.file] # NoSlot /\ cur.at = id[cur.file]
      BY <2>0, <3>1 DEF Told
    <3>. QED
      BY <2>0, <2>1, <2>3, <3>1, <3>2, ReturnStarts
  <2>4. ASSUME NEW f \in Files, NEW ops, PollCalls(f, ops) PROVE UNCHANGED cur
    BY <2>4 DEF PollCalls
  <2>. QED
    BY <2>0, <2>2, <2>3, <2>4
       DEF PollNext, PollLoop, PollApplication, PollAddDir, PollDelDir, PollDisable,
           PollPrepare, PollSteps, PollWait, WriteReturns, PollReturn, walkVars, pollVars
<1>. QED
  BY <1>1, PollInvariant, ReportsKept, PTL DEF PollSpec, OnlyReported
=============================================================================
