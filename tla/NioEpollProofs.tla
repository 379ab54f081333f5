--------------------------- MODULE NioEpollProofs ---------------------------
(***************************************************************************)
(* Proofs about NioEpoll: the kernel's interest list and fe->mask never    *)
(* drift apart, and the epoll backend implements the event core.  The two  *)
(* go together: the core promises that an addition to a file that is not   *)
(* Refusable succeeds, and epoll_ctl keeps that promise because the        *)
(* backend picks ADD or MOD by a mask that agrees with the kernel.         *)
(***************************************************************************)
EXTENDS NioEpoll, NioEventProofs, FiniteSetTheorems

(***************************************************************************)
(* The backend functions, one file at a time.                              *)
(***************************************************************************)

\* A part in which the entry agrees with the mask.
Agrees(s) ==
    /\ s \in [m : SUBSET Dirs, k : Entry, n : Int]
    /\ s.k.reg <=> s.m # {}
    /\ s.k.evs = s.m

\* The file's share of ev->fdcount.
Share(m) == IF m = {} THEN 0 ELSE 1

LEMMA ArmedIsEntry ==
    ASSUME NEW evs \in SUBSET Dirs, NEW b \in BOOLEAN
    PROVE  /\ Armed(evs, b) \in Entry
           /\ Armed(evs, b).reg = TRUE
           /\ Armed(evs, b).evs = evs
BY DEF Armed, Entry

LEMMA NoEntryIsEntry == NoEntry \in Entry /\ NoEntry.reg = FALSE /\ NoEntry.evs = {}
BY DEF NoEntry, Entry

\* epoll_add_read and epoll_add_write.
LEMMA AddAgrees ==
    ASSUME NEW s, Agrees(s), NEW d \in Dirs, NEW ok \in BOOLEAN
    PROVE  /\ Agrees(EpollAdd(s, d, ok))
           /\ EpollAdd(s, d, ok).m = s.m \cup {d} \/ (~ok /\ EpollAdd(s, d, ok).m = s.m)
           /\ EpollAdd(s, d, ok).n - Share(EpollAdd(s, d, ok).m) = s.n - Share(s.m)
<1> DEFINE t == [m |-> s.m \cup {d},
                 k |-> Armed(s.m \cup {d}, Oneshot /\ d = READ),
                 n |-> s.n + IF s.m = {} THEN 1 ELSE 0]
<1>1. /\ s.m \in SUBSET Dirs /\ s.n \in Int
      /\ s.k.reg <=> s.m # {}
      /\ s.m \cup {d} \in SUBSET Dirs
  BY DEF Agrees
<1>2. Agrees(t) /\ t.m = s.m \cup {d} /\ t.n - Share(t.m) = s.n - Share(s.m)
  <2>1. t.k \in Entry /\ t.k.reg = TRUE /\ t.k.evs = s.m \cup {d}
    BY <1>1, ArmedIsEntry DEF Oneshot
  <2>2. t.m = s.m \cup {d} /\ t.m # {}
    OBVIOUS
  <2>3. t.n = s.n + 1 - Share(s.m) /\ t.n \in Int
    BY <1>1 DEF Share
  <2>4. Agrees(t)
    BY <1>1, <2>1, <2>2, <2>3 DEF Agrees
  <2>. QED
    BY <1>1, <2>2, <2>3, <2>4 DEF Share
<1>3. EpollAdd(s, d, ok) = t \/ (~ok /\ EpollAdd(s, d, ok) = s)
  BY <1>1 DEF EpollAdd
<1>. HIDE DEF t
<1>. QED
  BY <1>2, <1>3

\* epoll_del_read and epoll_del_write.
LEMMA DelAgrees ==
    ASSUME NEW s, Agrees(s), NEW d \in Dirs
    PROVE  /\ Agrees(EpollDel(s, d))
           /\ EpollDel(s, d).m = s.m \ {d}
           /\ EpollDel(s, d).n - Share(EpollDel(s, d).m) = s.n - Share(s.m)
<1>1. /\ s \in [m : SUBSET Dirs, k : Entry, n : Int]
      /\ s.m \in SUBSET Dirs /\ s.n \in Int
      /\ s.k.reg <=> s.m # {}
      /\ s.k.evs = s.m
      /\ s.m \ {d} \in SUBSET Dirs
  BY DEF Agrees
<1>2. CASE ~s.k.reg
  <2>1. EpollDel(s, d) = [s EXCEPT !.m = s.m \ {d}] /\ s.m = {}
    BY <1>1, <1>2 DEF EpollDel
  <2>2. EpollDel(s, d) = s
    BY <1>1, <2>1
  <2>. QED
    BY <2>1, <2>2
<1>3. CASE s.k.reg /\ s.m \ {d} # {}
  <2>1. EpollDel(s, d) = [s EXCEPT !.m = s.m \ {d}, !.k = Armed(s.m \ {d}, Oneshot)]
    BY <1>3 DEF EpollDel
  <2>2. /\ Armed(s.m \ {d}, Oneshot) \in Entry
        /\ Armed(s.m \ {d}, Oneshot).reg = TRUE
        /\ Armed(s.m \ {d}, Oneshot).evs = s.m \ {d}
    <3>1. Oneshot \in BOOLEAN
      BY DEF Oneshot
    <3>. QED
      BY <1>1, <3>1, ArmedIsEntry
  <2>. QED
    BY <1>1, <1>3, <2>1, <2>2 DEF Agrees, Share
<1>4. CASE s.k.reg /\ s.m \ {d} = {}
  <2>1. EpollDel(s, d) = [m |-> {}, k |-> NoEntry, n |-> s.n - 1]
    BY <1>4 DEF EpollDel
  <2>. QED
    BY <1>1, <1>4, <2>1, NoEntryIsEntry DEF Agrees, Share
<1>. QED
  BY <1>2, <1>3, <1>4

\* epoll_del_readwrite.
LEMMA DisableAgrees ==
    ASSUME NEW s, Agrees(s)
    PROVE  /\ Agrees(EpollDelReadWrite(s))
           /\ EpollDelReadWrite(s).m = {}
           /\ EpollDelReadWrite(s).n - Share(EpollDelReadWrite(s).m) = s.n - Share(s.m)
<1>1. /\ s \in [m : SUBSET Dirs, k : Entry, n : Int]
      /\ s.n \in Int
      /\ s.k.reg <=> s.m # {}
  BY DEF Agrees
<1>2. CASE s.k.reg
  BY <1>1, <1>2, NoEntryIsEntry DEF EpollDelReadWrite, Agrees, Share
<1>3. CASE ~s.k.reg
  <2>1. EpollDelReadWrite(s) = s
    BY <1>1, <1>3 DEF EpollDelReadWrite
  <2>. QED
    BY <1>1, <1>3, <2>1
<1>. QED
  BY <1>2, <1>3

-----------------------------------------------------------------------------
(***************************************************************************)
(* A set of backend calls on one file.                                     *)
(***************************************************************************)

\* The four tests of nio_event_prepare leave the entry in agreement with the
\* mask, count the file rightly, and leave the mask NioEvent expects.
LEMMA CallsAgree ==
    ASSUME NEW f \in Files, Agrees(Part(f)), NEW ops, EpollCalls(f, ops)
    PROVE  \E s : /\ Agrees(s)
                  /\ Becomes(f, s)
                  /\ s.n - Share(s.m) = fdcount - Share(mask[f])
                  /\ \E S \in SUBSET Added(ops) :
                        /\ s.m = (mask[f] \ Deleted(ops)) \cup S
                        /\ f \notin Refusable => S = Added(ops)
<1>1. PICK okr \in BOOLEAN, okw \in BOOLEAN :
        /\ f \notin Refusable => okr /\ okw
        /\ LET s1 == IF DelOp(READ) \in ops THEN EpollDel(Part(f), READ) ELSE Part(f)
               s2 == IF DelOp(WRITE) \in ops THEN EpollDel(s1, WRITE) ELSE s1
               s3 == IF AddOp(READ) \in ops THEN EpollAdd(s2, READ, okr) ELSE s2
               s4 == IF AddOp(WRITE) \in ops THEN EpollAdd(s3, WRITE, okw) ELSE s3
           IN  Becomes(f, s4)
  BY DEF EpollCalls
<1> DEFINE s1 == IF DelOp(READ) \in ops THEN EpollDel(Part(f), READ) ELSE Part(f)
           s2 == IF DelOp(WRITE) \in ops THEN EpollDel(s1, WRITE) ELSE s1
           s3 == IF AddOp(READ) \in ops THEN EpollAdd(s2, READ, okr) ELSE s2
           s4 == IF AddOp(WRITE) \in ops THEN EpollAdd(s3, WRITE, okw) ELSE s3
           Bal(s) == s.n - Share(s.m)
<1>2. Becomes(f, s4)
  BY <1>1
<1>3. READ \in Dirs /\ WRITE \in Dirs
  BY DEF Dirs
<1>4. /\ Agrees(s1) /\ Bal(s1) = Bal(Part(f))
      /\ s1.m = IF DelOp(READ) \in ops THEN Part(f).m \ {READ} ELSE Part(f).m
  BY <1>3, DelAgrees
<1>. HIDE DEF s1
<1>5. /\ Agrees(s2) /\ Bal(s2) = Bal(s1)
      /\ s2.m = IF DelOp(WRITE) \in ops THEN s1.m \ {WRITE} ELSE s1.m
  BY <1>3, <1>4, DelAgrees
<1>. HIDE DEF s2
<1>6. /\ Agrees(s3) /\ Bal(s3) = Bal(s2)
      /\ IF AddOp(READ) \in ops
            THEN s3.m = s2.m \cup {READ} \/ (~okr /\ s3.m = s2.m)
            ELSE s3.m = s2.m
  BY <1>3, <1>5, AddAgrees
<1>. HIDE DEF s3
<1>7. /\ Agrees(s4) /\ Bal(s4) = Bal(s3)
      /\ IF AddOp(WRITE) \in ops
            THEN s4.m = s3.m \cup {WRITE} \/ (~okw /\ s4.m = s3.m)
            ELSE s4.m = s3.m
  BY <1>3, <1>6, AddAgrees
<1>. HIDE DEF s4
<1>8. s4.n - Share(s4.m) = fdcount - Share(mask[f])
  BY <1>4, <1>5, <1>6, <1>7 DEF Part
<1>9. s2.m = mask[f] \ Deleted(ops)
  <2>1. Deleted(ops) = {d \in {READ} : DelOp(READ) \in ops}
                         \cup {d \in {WRITE} : DelOp(WRITE) \in ops}
    BY DEF Deleted, Dirs, READ, WRITE
  <2>. QED
    BY <1>4, <1>5, <2>1 DEF Part
<1> DEFINE R == {e \in {READ} : AddOp(READ) \in ops /\ s3.m = s2.m \cup {READ}}
           W == {e \in {WRITE} : AddOp(WRITE) \in ops /\ s4.m = s3.m \cup {WRITE}}
<1>10. /\ R \subseteq {READ} /\ s3.m = s2.m \cup R
       /\ AddOp(READ) \notin ops => R = {}
       /\ okr /\ AddOp(READ) \in ops => R = {READ}
  BY <1>6
<1>11. /\ W \subseteq {WRITE} /\ s4.m = s3.m \cup W
       /\ AddOp(WRITE) \notin ops => W = {}
       /\ okw /\ AddOp(WRITE) \in ops => W = {WRITE}
  BY <1>7
<1>. HIDE DEF R, W
<1>12. R \cup W \in SUBSET Added(ops)
  BY <1>10, <1>11 DEF Added, Dirs
<1>13. okr /\ okw => R \cup W = Added(ops)
  BY <1>10, <1>11 DEF Added, Dirs
<1>14. s4.m = (mask[f] \ Deleted(ops)) \cup (R \cup W)
  BY <1>9, <1>10, <1>11
<1>15. f \notin Refusable => R \cup W = Added(ops)
  BY <1>1, <1>13
<1>. QED
  BY <1>2, <1>7, <1>8, <1>12, <1>14, <1>15

-----------------------------------------------------------------------------
(***************************************************************************)
(* The inductive invariant.                                                *)
(***************************************************************************)

WatchedFiles == {f \in Files : mask[f] # {}}

\* FdCountExact, with what it takes to speak of a cardinality at all.
Counted == IsFiniteSet(WatchedFiles) /\ fdcount = Cardinality(WatchedFiles)

\* Callbacks and unhandled events exist only inside the backend's wait.
Dispatching == calls # <<>> \/ batch # {} => stage = "event_wait"

EpollInv ==
    /\ EpollTypeOK
    /\ KernelIsMask
    /\ Counted
    /\ Dispatching

LEMMA PartAgrees ==
    ASSUME EpollTypeOK, KernelIsMask, NEW f \in Files
    PROVE  Agrees(Part(f))
BY DEF EpollTypeOK, TypeOK, KernelIsMask, Agrees, Part

\* A file added to or removed from the watched ones changes their number by
\* one.
LEMMA CountStep ==
    ASSUME TypeOK, Counted, NEW f \in Files, NEW M, NEW n \in Int,
           mask' = [mask EXCEPT ![f] = M], fdcount' = n, fdcount \in Int,
           n - Share(M) = fdcount - Share(mask[f])
    PROVE  Counted'
<1>1. IsFiniteSet(WatchedFiles) /\ fdcount = Cardinality(WatchedFiles)
  BY DEF Counted
<1>2. mask \in [Files -> SUBSET Dirs]
  BY DEF TypeOK
<1>3. CASE M # {} /\ mask[f] = {}
  <2>1. WatchedFiles' = WatchedFiles \cup {f} /\ f \notin WatchedFiles
    BY <1>2, <1>3 DEF WatchedFiles
  <2>2. IsFiniteSet(WatchedFiles \cup {f}) /\ Cardinality(WatchedFiles \cup {f}) = Cardinality(WatchedFiles) + 1
    BY <1>1, <2>1, FS_AddElement
  <2>3. n = fdcount + 1
    BY <1>3 DEF Share
  <2>. QED
    BY <1>1, <2>1, <2>2, <2>3 DEF Counted
<1>4. CASE M = {} /\ mask[f] # {}
  <2>1. WatchedFiles' = WatchedFiles \ {f} /\ f \in WatchedFiles
    BY <1>2, <1>4 DEF WatchedFiles
  <2>2. IsFiniteSet(WatchedFiles \ {f}) /\ Cardinality(WatchedFiles \ {f}) = Cardinality(WatchedFiles) - 1
    BY <1>1, <2>1, FS_RemoveElement
  <2>3. n = fdcount - 1
    BY <1>4 DEF Share
  <2>. QED
    BY <1>1, <2>1, <2>2, <2>3 DEF Counted
<1>5. CASE M = {} <=> mask[f] = {}
  <2>1. WatchedFiles' = WatchedFiles
    BY <1>2, <1>5 DEF WatchedFiles
  <2>2. n = fdcount
    BY <1>5 DEF Share
  <2>. QED
    BY <1>1, <2>1, <2>2 DEF Counted
<1>. QED
  BY <1>3, <1>4, <1>5

\* What a backend call on one file leaves.
LEMMA OneFile ==
    ASSUME EpollInv, NEW f \in Files, NEW s, Agrees(s), Becomes(f, s),
           s.n - Share(s.m) = fdcount - Share(mask[f])
    PROVE  /\ kern' \in [Files -> Entry] /\ fdcount' \in Int
           /\ KernelIsMask'
           /\ Counted'
<1>1. /\ s.m \in SUBSET Dirs /\ s.k \in Entry /\ s.n \in Int
      /\ s.k.reg <=> s.m # {}
      /\ s.k.evs = s.m
  BY DEF Agrees
<1>2. /\ mask \in [Files -> SUBSET Dirs] /\ kern \in [Files -> Entry]
      /\ fdcount \in Int /\ TypeOK /\ KernelIsMask /\ Counted
  BY DEF EpollInv, EpollTypeOK, TypeOK
<1>3. /\ mask' = [mask EXCEPT ![f] = s.m]
      /\ kern' = [kern EXCEPT ![f] = s.k]
      /\ fdcount' = s.n
  BY DEF Becomes
<1>4. Counted'
  BY <1>1, <1>2, <1>3, CountStep
<1>5. KernelIsMask'
  BY <1>1, <1>2, <1>3 DEF KernelIsMask
<1>. QED
  BY <1>1, <1>2, <1>3, <1>4, <1>5

\* A set of calls on one file: the core's abstract backend, and the invariant.
LEMMA EpollCallsStep ==
    ASSUME EpollInv, NEW f \in Files, NEW ops, EpollCalls(f, ops)
    PROVE  /\ Backend(f, ops)
           /\ kern' \in [Files -> Entry] /\ fdcount' \in Int
           /\ KernelIsMask'
           /\ Counted'
<1>1. Agrees(Part(f))
  BY PartAgrees DEF EpollInv
<1>2. PICK s : /\ Agrees(s)
               /\ Becomes(f, s)
               /\ s.n - Share(s.m) = fdcount - Share(mask[f])
               /\ \E S \in SUBSET Added(ops) :
                     /\ s.m = (mask[f] \ Deleted(ops)) \cup S
                     /\ f \notin Refusable => S = Added(ops)
  BY <1>1, CallsAgree
<1>3. Backend(f, ops)
  BY <1>2 DEF Becomes, Backend
<1>. QED
  BY <1>2, <1>3, OneFile

\* nio_event_del_readwrite.
LEMMA EpollDisableStep ==
    ASSUME EpollInv, NEW f \in Files, EpollDisable(f)
    PROVE  /\ Backend(f, DelReadWriteCalls(f))
           /\ kern' \in [Files -> Entry] /\ fdcount' \in Int
           /\ KernelIsMask'
           /\ Counted'
<1>1. Agrees(Part(f)) /\ Part(f).m = mask[f] /\ Part(f).n = fdcount
  BY PartAgrees DEF EpollInv, Part
<1>2. PICK s : /\ Agrees(s) /\ s.m = {} /\ Becomes(f, s)
               /\ s.n - Share(s.m) = fdcount - Share(mask[f])
  <2>1. CASE mask[f] # {}
    BY <1>1, <2>1, DisableAgrees DEF EpollDisable
  <2>2. CASE mask[f] = {}
    BY <1>1, <2>2 DEF EpollDisable
  <2>. QED
    BY <2>1, <2>2
<1>3. mask[f] \in SUBSET Dirs
  BY DEF EpollInv, EpollTypeOK, TypeOK
<1>4. Deleted(DelReadWriteCalls(f)) = mask[f] /\ Added(DelReadWriteCalls(f)) = {}
  BY <1>3, MaskBits DEF DelReadWriteCalls
<1>5. Backend(f, DelReadWriteCalls(f))
  BY <1>2, <1>4 DEF Becomes, Backend
<1>. QED
  BY <1>2, <1>5, OneFile

-----------------------------------------------------------------------------
(***************************************************************************)
(* Every step of the loop on epoll is a step of the core, and keeps the    *)
(* invariant.                                                              *)
(***************************************************************************)

\* Application code on this backend runs only where the core lets it run.
LEMMA EpollAppRunsInApp == ASSUME EpollInv, EpollAppRuns PROVE AppRuns
BY DEF EpollInv, Dispatching, EpollAppRuns, AppRuns

\* The steps that leave the mask, the kernel and the counter alone.
LEMMA SameKernel ==
    ASSUME EpollInv, mask' = mask, kern' = kern, fdcount' = fdcount
    PROVE  /\ kern' \in [Files -> Entry] /\ fdcount' \in Int
           /\ KernelIsMask'
           /\ Counted'
BY DEF EpollInv, EpollTypeOK, KernelIsMask, Counted, WatchedFiles

\* The calls collected from one event are calls.
LEMMA CallOfIsCalls ==
    ASSUME EpollTypeOK, NEW f \in Files, NEW d \in Dirs, NEW evs
    PROVE  CallOf(f, d, evs) \in Seq(Call)
<1>1. CASE Due(f, d, evs)
  <2>1. proc[f][d] \in Procs
    BY <1>1 DEF Due, EpollTypeOK, TypeOK
  <2>2. [file |-> f, dir |-> d, proc |-> proc[f][d]] \in Call
    BY <2>1 DEF Call
  <2>. QED
    BY <1>1, <2>2 DEF CallOf
<1>2. CASE ~Due(f, d, evs)
  BY <1>2 DEF CallOf
<1>. QED
  BY <1>1, <1>2

\* What every step does, action by action.
Follows ==
    /\ [Next]_vars
    /\ kern' \in [Files -> Entry] /\ fdcount' \in Int
    /\ KernelIsMask'
    /\ Counted'
    /\ batch' \in SUBSET Report /\ calls' \in Seq(Call)
    /\ owed' \in [Files -> SUBSET Dirs]
    /\ Dispatching'

LEMMA EpollAddFollows ==
    ASSUME EpollInv, NEW f \in Files, NEW d \in Dirs, NEW p \in Procs,
           EpollAddDir(f, d, p)
    PROVE  Follows
<1>1. AppRuns /\ UNCHANGED <<batch, calls>>
  BY EpollAppRunsInApp DEF EpollAddDir, dispatchVars
<1>2. CASE AddRefused(f, d) /\ UNCHANGED <<kern, fdcount, owed>>
  <2>1. Add(f, d)
    BY <1>1, <1>2 DEF Add
  <2>2. mask' = mask /\ stage' = stage
    BY <1>2 DEF AddRefused
  <2>3. Dispatching'
    BY <1>1, <2>2 DEF EpollInv, Dispatching
  <2>4. /\ kern' \in [Files -> Entry] /\ fdcount' \in Int
        /\ KernelIsMask' /\ Counted'
    BY <1>2, <2>2, SameKernel
  <2>. QED
    BY <1>1, <1>2, <2>1, <2>3, <2>4 DEF Follows, Next, EpollInv, EpollTypeOK
<1>3. CASE /\ AddFe(f, d, p) /\ EpollCalls(f, AddCalls(f, d))
           /\ owed' = [owed EXCEPT ![f] = @ \cup {d}]
  <2>1. /\ Backend(f, AddCalls(f, d))
        /\ kern' \in [Files -> Entry] /\ fdcount' \in Int
        /\ KernelIsMask' /\ Counted'
    BY <1>3, EpollCallsStep
  <2>2. Add(f, d)
    BY <1>1, <1>3, <2>1 DEF Add
  <2>3. Dispatching'
    BY <1>1, <1>3 DEF AddFe, EpollInv, Dispatching
  <2>4. owed' \in [Files -> SUBSET Dirs]
    BY <1>3 DEF EpollInv, EpollTypeOK
  <2>. QED
    BY <1>1, <2>1, <2>2, <2>3, <2>4 DEF Follows, Next, EpollInv, EpollTypeOK
<1>. QED
  BY <1>2, <1>3 DEF EpollAddDir

LEMMA EpollDelFollows ==
    ASSUME EpollInv, NEW f \in Files, NEW d \in Dirs, EpollDelDir(f, d)
    PROVE  Follows
<1>1. AppRuns /\ UNCHANGED <<batch, calls>>
  BY EpollAppRunsInApp DEF EpollDelDir, dispatchVars
<1>2. /\ Backend(f, DelCalls(f, d))
      /\ kern' \in [Files -> Entry] /\ fdcount' \in Int
      /\ KernelIsMask' /\ Counted'
  BY EpollCallsStep DEF EpollDelDir
<1>3. Del(f, d)
  BY <1>1, <1>2 DEF EpollDelDir, Del
<1>4. Dispatching'
  BY <1>1 DEF EpollDelDir, DelFe, EpollInv, Dispatching
<1>5. owed' \in [Files -> SUBSET Dirs]
  BY DEF EpollDelDir, EpollInv, EpollTypeOK
<1>. QED
  BY <1>1, <1>2, <1>3, <1>4, <1>5 DEF Follows, Next, EpollInv, EpollTypeOK

LEMMA EpollDisableFollows ==
    ASSUME EpollInv, NEW f \in Files, EpollDisable(f)
    PROVE  Follows
<1>1. AppRuns /\ UNCHANGED <<batch, calls>>
  BY EpollAppRunsInApp DEF EpollDisable, dispatchVars
<1>2. /\ Backend(f, DelReadWriteCalls(f))
      /\ kern' \in [Files -> Entry] /\ fdcount' \in Int
      /\ KernelIsMask' /\ Counted'
  BY EpollDisableStep
<1>3. DelReadWrite(f)
  BY <1>1, <1>2 DEF EpollDisable, DelReadWrite
<1>4. Dispatching'
  BY <1>1 DEF EpollDisable, DelReadWriteFe, EpollInv, Dispatching
<1>5. owed' \in [Files -> SUBSET Dirs]
  BY DEF EpollDisable, EpollInv, EpollTypeOK
<1>. QED
  BY <1>1, <1>2, <1>3, <1>4, <1>5 DEF Follows, Next, EpollInv, EpollTypeOK

LEMMA EpollPrepareFollows ==
    ASSUME EpollInv, NEW f \in Files, EpollPrepare(f)
    PROVE  Follows
<1>1. /\ Backend(f, oper[f])
      /\ kern' \in [Files -> Entry] /\ fdcount' \in Int
      /\ KernelIsMask' /\ Counted'
  BY EpollCallsStep DEF EpollPrepare
<1>2. Prepare(f)
  BY <1>1 DEF EpollPrepare, Prepare
<1>3. Dispatching'
  BY DEF EpollPrepare, PrepareFe, EpollInv, Dispatching
<1>. QED
  BY <1>1, <1>2, <1>3 DEF EpollPrepare, Follows, Next, EpollInv, EpollTypeOK

LEMMA EpollWaitFollows ==
    ASSUME EpollInv, EpollWait
    PROVE  Follows
<1>1. PICK S \in SUBSET Reportable : \E ev \in [S -> SUBSET (Dirs \cup {ERR}) \ {{}}] :
             /\ batch' = {[file |-> f, evs |-> ev[f]] : f \in S}
             /\ kern' = [f \in Files |->
                            IF f \in S /\ kern[f].oneshot
                            THEN [kern[f] EXCEPT !.armed = FALSE] ELSE kern[f]]
             /\ owed' = [f \in Files |-> IF f \in S THEN {} ELSE owed[f]]
  BY DEF EpollWait
<1>2. EventWait /\ UNCHANGED <<fdcount, calls>> /\ mask' = mask /\ stage' = "event_wait"
  BY DEF EpollWait, EventWait, feVars
<1>3. kern \in [Files -> Entry] /\ KernelIsMask /\ Counted
  BY DEF EpollInv, EpollTypeOK
<1>4. ASSUME NEW f \in Files
      PROVE  kern'[f] \in Entry /\ kern'[f].reg = kern[f].reg /\ kern'[f].evs = kern[f].evs
  <2>1. kern[f] \in Entry
    BY <1>3
  <2>2. kern'[f] = kern[f] \/ kern'[f] = [kern[f] EXCEPT !.armed = FALSE]
    BY <1>1, Zenon
  <2> DEFINE e == kern[f]
  <2>3. e \in Entry
    BY <2>1
  <2>. HIDE DEF e
  <2>4. /\ [e EXCEPT !.armed = FALSE] \in Entry
        /\ [e EXCEPT !.armed = FALSE].reg = e.reg
        /\ [e EXCEPT !.armed = FALSE].evs = e.evs
    BY <2>3 DEF Entry
  <2>5. /\ [kern[f] EXCEPT !.armed = FALSE] \in Entry
        /\ [kern[f] EXCEPT !.armed = FALSE].reg = kern[f].reg
        /\ [kern[f] EXCEPT !.armed = FALSE].evs = kern[f].evs
    BY <2>4, Zenon DEF e
  <2>6. CASE kern'[f] = kern[f]
    BY <2>1, <2>6, Zenon
  <2>7. CASE kern'[f] = [kern[f] EXCEPT !.armed = FALSE]
    BY <2>5, <2>7, Zenon
  <2>. QED
    BY <2>2, <2>6, <2>7
<1>5. kern' \in [Files -> Entry] /\ KernelIsMask'
  BY <1>1, <1>2, <1>3, <1>4 DEF KernelIsMask
<1>6. Counted'
  BY <1>2, <1>3 DEF Counted, WatchedFiles
<1>7. batch' \in SUBSET Report
  BY <1>1 DEF Report, Reportable
<1>8. owed' \in [Files -> SUBSET Dirs]
  BY <1>1 DEF EpollInv, EpollTypeOK
<1>9. Dispatching'
  BY <1>2 DEF Dispatching
<1>. QED
  BY <1>2, <1>5, <1>6, <1>7, <1>8, <1>9 DEF Follows, Next, EpollInv, EpollTypeOK

LEMMA PickFollows ==
    ASSUME EpollInv, NEW r \in batch, Pick(r)
    PROVE  Follows
<1>1. r \in Report /\ r.file \in Files
  BY DEF EpollInv, EpollTypeOK, Report
<1>2. /\ CallOf(r.file, READ, r.evs) \in Seq(Call)
      /\ CallOf(r.file, WRITE, r.evs) \in Seq(Call)
  BY <1>1, CallOfIsCalls DEF EpollInv, Dirs
<1>3. calls' \in Seq(Call) /\ batch' \in SUBSET Report
  BY <1>2 DEF Pick, EpollInv, EpollTypeOK
<1>4. mask' = mask /\ stage' = "event_wait" /\ UNCHANGED <<kern, fdcount, owed>>
  BY DEF Pick, vars
<1>5. kern' \in [Files -> Entry] /\ fdcount' \in Int /\ KernelIsMask' /\ Counted'
  BY <1>4, SameKernel
<1>. QED
  BY <1>3, <1>4, <1>5 DEF Follows, Pick, Dispatching, EpollInv, EpollTypeOK

LEMMA CallReturnsFollows ==
    ASSUME EpollInv, CallReturns
    PROVE  Follows
<1>1. calls' \in Seq(Call) /\ UNCHANGED batch
  BY DEF CallReturns, EpollInv, EpollTypeOK
<1>2. mask' = mask /\ stage' = "event_wait" /\ UNCHANGED <<kern, fdcount, owed>>
  BY DEF CallReturns, vars, EpollInv, Dispatching
<1>3. kern' \in [Files -> Entry] /\ fdcount' \in Int /\ KernelIsMask' /\ Counted'
  BY <1>2, SameKernel
<1>. QED
  BY <1>1, <1>2, <1>3 DEF Follows, CallReturns, Dispatching, EpollInv, EpollTypeOK

\* The steps that only move the loop on.
LEMMA MovesOn ==
    ASSUME EpollInv, EpollSteps \/ EpollReturn
    PROVE  Follows
<1>1. /\ WaitBegin \/ PrepareEnd \/ WaitReturn
      /\ UNCHANGED <<kern, fdcount, batch, calls, owed>>
      /\ mask' = mask
  BY DEF EpollSteps, EpollReturn, WaitBegin, PrepareEnd, WaitReturn, feVars
<1>2. Next
  BY <1>1 DEF Next
<1>3. Dispatching'
  BY DEF EpollSteps, EpollReturn, WaitBegin, PrepareEnd, EpollInv, Dispatching
<1>4. kern' \in [Files -> Entry] /\ fdcount' \in Int /\ KernelIsMask' /\ Counted'
  BY <1>1, SameKernel
<1>. QED
  BY <1>1, <1>2, <1>3, <1>4 DEF Follows, EpollInv, EpollTypeOK

LEMMA EpollFollows ==
    ASSUME EpollInv, [EpollNext]_epollVars
    PROVE  Follows
<1>1. ASSUME NEW f \in Files, Application(f) PROVE Follows
  BY <1>1, EpollAddFollows, EpollDelFollows, EpollDisableFollows
     DEF Application, AddRead, AddWrite, DelRead, DelWrite, Dirs
<1>2. CASE Loop
  BY <1>2, EpollPrepareFollows, MovesOn, EpollWaitFollows, PickFollows,
     CallReturnsFollows DEF Loop
<1>3. CASE UNCHANGED epollVars
  <2>1. /\ UNCHANGED vars /\ UNCHANGED <<kern, fdcount, batch, calls, owed>>
        /\ mask' = mask /\ stage' = stage
    BY <1>3 DEF epollVars, vars
  <2>2. kern' \in [Files -> Entry] /\ fdcount' \in Int /\ KernelIsMask' /\ Counted'
    BY <2>1, SameKernel
  <2>. QED
    BY <2>1, <2>2 DEF Follows, Dispatching, EpollInv, EpollTypeOK
<1>. QED
  BY <1>1, <1>2, <1>3 DEF EpollNext

-----------------------------------------------------------------------------

LEMMA EpollInvInit == EpollInit => EpollInv
<1> SUFFICES ASSUME EpollInit PROVE EpollInv
  OBVIOUS
<1>1. TypeOK
  BY DEF EpollInit, Init, TypeOK, Stages
<1>2. EpollTypeOK
  BY <1>1, NoEntryIsEntry DEF EpollInit, EpollTypeOK
<1>3. KernelIsMask
  BY NoEntryIsEntry DEF EpollInit, Init, KernelIsMask
<1>4. WatchedFiles = {}
  BY DEF EpollInit, Init, WatchedFiles
<1>5. Counted
  BY <1>4, FS_EmptySet DEF EpollInit, Counted
<1>. QED
  BY <1>2, <1>3, <1>5 DEF EpollInv, EpollInit, Dispatching

LEMMA EpollInvStep == EpollInv /\ [EpollNext]_epollVars => EpollInv'
<1> SUFFICES ASSUME EpollInv, [EpollNext]_epollVars PROVE EpollInv'
  OBVIOUS
<1>1. Follows
  BY EpollFollows
<1>2. TypeOK'
  BY <1>1, TypeStep DEF EpollInv, EpollTypeOK, Follows
<1>. QED
  BY <1>1, <1>2 DEF Follows, EpollInv, EpollTypeOK

\* The backend's own invariant holds in every state.
THEOREM EpollInvariant == EpollSpec => []EpollInv
<1>. QED
  BY EpollInvInit, EpollInvStep, PTL DEF EpollSpec

\* The kernel watches a file exactly while fe->mask is not empty, and for the
\* directions fe->mask names, whatever order additions, deletions, events and
\* refusals come in.
THEOREM KernelIsMaskAlways == EpollSpec => []KernelIsMask
<1>1. EpollInv => KernelIsMask
  BY DEF EpollInv
<1>. QED
  BY <1>1, EpollInvariant, PTL

\* ev->fdcount is the number of files the kernel watches.
THEOREM FdCountExactAlways == EpollSpec => []FdCountExact
<1>1. EpollInv => FdCountExact
  BY DEF EpollInv, Counted, WatchedFiles, FdCountExact
<1>. QED
  BY <1>1, EpollInvariant, PTL

\* The epoll backend, driven by nio_event.c, does what NioEvent says a backend
\* does: with CoreImplementsRegistry, epoll watches what the application asked
\* for whenever the loop sleeps.
THEOREM EpollImplementsCore == EpollSpec => Spec
<1>1. EpollInit => Init
  BY DEF EpollInit
<1>2. EpollInv /\ [EpollNext]_epollVars => [Next]_vars
  BY EpollFollows DEF Follows
<1>. QED
  BY <1>1, <1>2, EpollInvariant, PTL DEF EpollSpec, Spec

-----------------------------------------------------------------------------
(***************************************************************************)
(* Registrations in force.  Every call arms the entry it leaves, so an     *)
(* entry is spent only by an event, and an event ends what is owed.  What  *)
(* was put off is found in fe->oper, and EffectiveIsWanted of the core     *)
(* says that what is owed is in the mask or put off.                       *)
(***************************************************************************)
Live(s) == s.m # {} => s.k.armed

\* Without EPOLLONESHOT no entry is ever spent.
Level(k) == ~Oneshot /\ k.reg => k.armed /\ ~k.oneshot

OwedInv ==
    /\ \A f \in Files \ Refusable :
          /\ owed[f] \subseteq wanted[f]
          /\ \A d \in owed[f] :
                kern[f].armed \/ (~Direct /\ AddOp(d) \in oper[f])
    /\ \A f \in Files : Level(kern[f])

LEMMA ArmedIsLive ==
    ASSUME NEW evs, NEW b \in BOOLEAN, Oneshot \/ ~b
    PROVE  Armed(evs, b).armed = TRUE /\ Level(Armed(evs, b))
BY DEF Armed, Level

LEMMA AddArms ==
    ASSUME NEW s, Agrees(s), NEW d \in Dirs, NEW ok \in BOOLEAN
    PROVE  /\ ok => Live(EpollAdd(s, d, ok))
           /\ Live(s) => Live(EpollAdd(s, d, ok))
           /\ Level(s.k) => Level(EpollAdd(s, d, ok).k)
<1> DEFINE b == Oneshot /\ d = READ
           t == [m |-> s.m \cup {d}, k |-> Armed(s.m \cup {d}, b),
                 n |-> s.n + IF s.m = {} THEN 1 ELSE 0]
<1>1. s.k.reg <=> s.m # {}
  BY DEF Agrees
<1>2. t.k.armed = TRUE /\ Level(t.k)
  <2>1. b \in BOOLEAN /\ (Oneshot \/ ~b)
    BY DEF Oneshot
  <2>. QED
    BY <2>1, ArmedIsLive
<1>3. EpollAdd(s, d, ok) = t \/ (~ok /\ EpollAdd(s, d, ok) = s)
  BY <1>1 DEF EpollAdd
<1>. HIDE DEF t
<1>. QED
  BY <1>2, <1>3 DEF Live

LEMMA DelArms ==
    ASSUME NEW s, Agrees(s), NEW d \in Dirs
    PROVE  /\ Live(EpollDel(s, d))
           /\ Level(s.k) => Level(EpollDel(s, d).k)
<1>1. /\ s \in [m : SUBSET Dirs, k : Entry, n : Int]
      /\ s.k.reg <=> s.m # {}
  BY DEF Agrees
<1>2. CASE ~s.k.reg
  BY <1>1, <1>2 DEF EpollDel, Live
<1>3. CASE s.k.reg /\ s.m \ {d} # {}
  <2>1. /\ EpollDel(s, d).m = s.m \ {d}
        /\ EpollDel(s, d).k = Armed(s.m \ {d}, Oneshot)
    BY <1>1, <1>3 DEF EpollDel
  <2>2. Oneshot \in BOOLEAN
    BY DEF Oneshot
  <2>. QED
    BY <2>1, <2>2, ArmedIsLive DEF Live
<1>4. CASE s.k.reg /\ s.m \ {d} = {}
  <2>1. EpollDel(s, d).m = {} /\ EpollDel(s, d).k = NoEntry
    BY <1>4 DEF EpollDel
  <2>. QED
    BY <2>1, NoEntryIsEntry DEF Live, Level
<1>. QED
  BY <1>2, <1>3, <1>4

\* A set of calls leaves the entry armed, if it was or if there is a call.
LEMMA CallsArm ==
    ASSUME EpollInv, NEW f \in Files, NEW ops, EpollCalls(f, ops)
    PROVE  /\ f \notin Refusable /\ (kern[f].armed \/ Deleted(ops) # {} \/ Added(ops) # {})
                => mask'[f] = {} \/ kern'[f].armed
           /\ Level(kern[f]) => Level(kern'[f])
           /\ Deleted(ops) = {} /\ Added(ops) = {} => kern'[f] = kern[f]
           /\ \A g \in Files \ {f} : kern'[g] = kern[g]
<1>1. PICK okr \in BOOLEAN, okw \in BOOLEAN :
        /\ f \notin Refusable => okr /\ okw
        /\ LET s1 == IF DelOp(READ) \in ops THEN EpollDel(Part(f), READ) ELSE Part(f)
               s2 == IF DelOp(WRITE) \in ops THEN EpollDel(s1, WRITE) ELSE s1
               s3 == IF AddOp(READ) \in ops THEN EpollAdd(s2, READ, okr) ELSE s2
               s4 == IF AddOp(WRITE) \in ops THEN EpollAdd(s3, WRITE, okw) ELSE s3
           IN  Becomes(f, s4)
  BY DEF EpollCalls
<1> DEFINE s0 == Part(f)
           s1 == IF DelOp(READ) \in ops THEN EpollDel(s0, READ) ELSE s0
           s2 == IF DelOp(WRITE) \in ops THEN EpollDel(s1, WRITE) ELSE s1
           s3 == IF AddOp(READ) \in ops THEN EpollAdd(s2, READ, okr) ELSE s2
           s4 == IF AddOp(WRITE) \in ops THEN EpollAdd(s3, WRITE, okw) ELSE s3
<1>2. Becomes(f, s4)
  BY <1>1
<1>3. /\ READ \in Dirs /\ WRITE \in Dirs
      /\ Deleted(ops) = {} <=> DelOp(READ) \notin ops /\ DelOp(WRITE) \notin ops
      /\ Added(ops) = {} <=> AddOp(READ) \notin ops /\ AddOp(WRITE) \notin ops
  BY DEF Dirs, Deleted, Added
<1>4. Agrees(s0) /\ s0.k = kern[f]
  BY PartAgrees DEF EpollInv, Part
<1>5. Deleted(ops) = {} /\ Added(ops) = {} => s4 = s0
  BY <1>3
<1>. HIDE DEF s0
<1>6. /\ Agrees(s1)
      /\ IF DelOp(READ) \in ops THEN Live(s1) ELSE s1 = s0
      /\ Level(s0.k) => Level(s1.k)
  BY <1>3, <1>4, DelAgrees, DelArms
<1>. HIDE DEF s1
<1>7. /\ Agrees(s2)
      /\ IF DelOp(WRITE) \in ops THEN Live(s2) ELSE s2 = s1
      /\ Level(s1.k) => Level(s2.k)
  BY <1>3, <1>6, DelAgrees, DelArms
<1>. HIDE DEF s2
<1>8. /\ Agrees(s3)
      /\ AddOp(READ) \notin ops => s3 = s2
      /\ AddOp(READ) \in ops /\ okr => Live(s3)
      /\ Live(s2) => Live(s3)
      /\ Level(s2.k) => Level(s3.k)
  BY <1>3, <1>7, AddAgrees, AddArms
<1>. HIDE DEF s3
<1>9. /\ AddOp(WRITE) \notin ops => s4 = s3
      /\ AddOp(WRITE) \in ops /\ okw => Live(s4)
      /\ Live(s3) => Live(s4)
      /\ Level(s3.k) => Level(s4.k)
  BY <1>3, <1>8, AddArms
<1>. HIDE DEF s4
<1>10. ASSUME f \notin Refusable, kern[f].armed \/ Deleted(ops) # {} \/ Added(ops) # {}
       PROVE  Live(s4)
  <2>1. okr /\ okw
    BY <1>1, <1>10
  <2>2. kern[f].armed => Live(s0)
    BY <1>4 DEF Live
  <2>3. Live(s0) \/ DelOp(READ) \in ops => Live(s1)
    BY <1>6
  <2>4. Live(s1) \/ DelOp(WRITE) \in ops => Live(s2)
    BY <1>7
  <2>5. Live(s2) \/ AddOp(READ) \in ops => Live(s3)
    BY <1>8, <2>1
  <2>6. Live(s3) \/ AddOp(WRITE) \in ops => Live(s4)
    BY <1>9, <2>1
  <2>. QED
    BY <1>3, <1>10, <2>2, <2>3, <2>4, <2>5, <2>6
<1>11. /\ mask'[f] = s4.m /\ kern'[f] = s4.k
       /\ \A g \in Files \ {f} : kern'[g] = kern[g]
  BY <1>2 DEF Becomes, EpollInv, EpollTypeOK, TypeOK
<1>. QED
  BY <1>4, <1>5, <1>6, <1>7, <1>8, <1>9, <1>10, <1>11 DEF Live

\* What is owed on one file.
OwedOn(f) ==
    /\ owed[f] \subseteq wanted[f]
    /\ \A d \in owed[f] : kern[f].armed \/ (~Direct /\ AddOp(d) \in oper[f])

\* What a step that touches one file has to leave on that one.
LEMMA OwedByFile ==
    ASSUME OwedInv, NEW f \in Files, flags' = flags,
           \A g \in Files \ {f} :
              /\ kern'[g] = kern[g] /\ owed'[g] = owed[g]
              /\ wanted'[g] = wanted[g] /\ oper'[g] = oper[g],
           f \notin Refusable => OwedOn(f)', Level(kern'[f])
    PROVE  OwedInv'
<1>1. Oneshot' = Oneshot /\ Direct' = Direct
  BY DEF Oneshot, Direct
<1>2. ASSUME NEW g \in Files \ Refusable PROVE OwedOn(g)'
  BY <1>1 DEF OwedInv, OwedOn
<1>3. ASSUME NEW g \in Files PROVE Level(kern[g])'
  BY <1>1 DEF OwedInv, Level
<1>. QED
  BY <1>2, <1>3 DEF OwedInv, OwedOn

LEMMA SameOwed ==
    ASSUME OwedInv, UNCHANGED <<flags, kern, owed, wanted, oper>>
    PROVE  OwedInv'
BY DEF OwedInv, Level, Oneshot, Direct

LEMMA OwedTypes ==
    ASSUME EpollInv
    PROVE  /\ owed \in [Files -> SUBSET Dirs] /\ wanted \in [Files -> SUBSET Dirs]
           /\ oper \in [Files -> SUBSET Opers] /\ mask \in [Files -> SUBSET Dirs]
BY DEF EpollInv, EpollTypeOK, TypeOK

LEMMA AddOwes ==
    ASSUME EpollInv, CoreInv, OwedInv, NEW f \in Files, NEW d \in Dirs, NEW p,
           AddFe(f, d, p), EpollCalls(f, AddCalls(f, d)),
           owed' = [owed EXCEPT ![f] = @ \cup {d}]
    PROVE  OwedInv'
<1> DEFINE ops == AddCalls(f, d)
<1>1. /\ owed'[f] = owed[f] \cup {d} /\ wanted'[f] = wanted[f] \cup {d}
      /\ oper'[f] = AddOper(f, d) /\ flags' = flags
      /\ \A g \in Files \ {f} :
            owed'[g] = owed[g] /\ wanted'[g] = wanted[g] /\ oper'[g] = oper[g]
  BY OwedTypes DEF AddFe
<1>2. /\ f \notin Refusable /\ (kern[f].armed \/ Deleted(ops) # {} \/ Added(ops) # {})
           => mask'[f] = {} \/ kern'[f].armed
      /\ Level(kern[f]) => Level(kern'[f])
      /\ Deleted(ops) = {} /\ Added(ops) = {} => kern'[f] = kern[f]
      /\ \A g \in Files \ {f} : kern'[g] = kern[g]
  BY CallsArm
<1>3. /\ Deleted(ops) = {} /\ Added(ops) = {e \in {d} : Direct /\ NeedsAdd(f, d)}
  <2>1. (Direct /\ NeedsAdd(f, d)) \in BOOLEAN
    BY DEF Direct, NeedsAdd, Oneshot
  <2>. QED
    BY <2>1, CallBits DEF AddCalls
<1>4. Level(kern'[f])
  BY <1>2 DEF OwedInv
<1>5. ASSUME f \notin Refusable PROVE OwedOn(f)'
  <2>1. owed'[f] \subseteq wanted'[f]
    BY <1>1, <1>5 DEF OwedInv
  <2>2. CASE Direct /\ NeedsAdd(f, d)
    <3>1. Added(ops) # {}
      BY <1>3, <2>2
    <3>2. mask'[f] # {}
      <4>1. \E S \in SUBSET Added(ops) :
               /\ mask'[f] = (mask[f] \ Deleted(ops)) \cup S
               /\ f \notin Refusable => S = Added(ops)
        BY EpollCallsStep, BackendMask DEF EpollInv, EpollTypeOK
      <4>. QED
        BY <1>5, <3>1, <4>1
    <3>. QED
      BY <1>2, <1>5, <2>1, <3>1, <3>2 DEF OwedOn
  <2>3. CASE ~(Direct /\ NeedsAdd(f, d))
    <3>1. kern'[f] = kern[f]
      BY <1>2, <1>3, <2>3
    <3>2. \A e \in owed[f] : kern[f].armed \/ (~Direct' /\ AddOp(e) \in oper'[f])
      BY <1>1, <1>5, OpsDistinct DEF OwedInv, AddOper, Direct
    <3>3. kern[f].armed \/ (~Direct' /\ AddOp(d) \in oper'[f])
      <4>1. CASE NeedsAdd(f, d)
        BY <1>1, <2>3, <4>1 DEF AddOper, Direct
      <4>2. CASE ~NeedsAdd(f, d)
        BY <4>2 DEF NeedsAdd, OwedInv, Level, EpollInv, KernelIsMask
      <4>. QED
        BY <4>1, <4>2
    <3>. QED
      BY <1>1, <2>1, <3>1, <3>2, <3>3 DEF OwedOn
  <2>. QED
    BY <2>2, <2>3
<1>. QED
  BY <1>1, <1>2, <1>4, <1>5, OwedByFile

LEMMA DelOwes ==
    ASSUME EpollInv, CoreInv, OwedInv, NEW f \in Files, NEW d \in Dirs,
           DelFe(f, d), EpollCalls(f, DelCalls(f, d)),
           owed' = [owed EXCEPT ![f] = @ \ {d}]
    PROVE  OwedInv'
<1> DEFINE ops == DelCalls(f, d)
<1>1. /\ owed'[f] = owed[f] \ {d} /\ wanted'[f] = wanted[f] \ {d}
      /\ oper'[f] = DelOper(f, d) /\ flags' = flags
      /\ \A g \in Files \ {f} :
            owed'[g] = owed[g] /\ wanted'[g] = wanted[g] /\ oper'[g] = oper[g]
  BY OwedTypes DEF DelFe
<1>2. /\ f \notin Refusable /\ (kern[f].armed \/ Deleted(ops) # {} \/ Added(ops) # {})
           => mask'[f] = {} \/ kern'[f].armed
      /\ Level(kern[f]) => Level(kern'[f])
      /\ Deleted(ops) = {} /\ Added(ops) = {} => kern'[f] = kern[f]
      /\ \A g \in Files \ {f} : kern'[g] = kern[g]
  BY CallsArm
<1>3. /\ Added(ops) = {} /\ Deleted(ops) = {e \in {d} : Direct /\ d \in mask[f]}
  <2>1. (Direct /\ d \in mask[f]) \in BOOLEAN
    BY DEF Direct
  <2>. QED
    BY <2>1, CallBits DEF DelCalls
<1>4. Level(kern'[f])
  BY <1>2 DEF OwedInv
<1>5. ASSUME f \notin Refusable PROVE OwedOn(f)'
  <2>1. owed'[f] \subseteq wanted'[f]
    BY <1>1, <1>5 DEF OwedInv
  <2>2. CASE Direct /\ d \in mask[f]
    <3>1. Deleted(ops) = {d}
      BY <1>3, <2>2
    <3>2. ASSUME NEW e \in owed'[f] PROVE kern'[f].armed
      <4>1. e \in mask[f] /\ e # d
        BY <1>1, <1>5, <2>2, <3>2 DEF OwedInv, CoreInv, EffectiveIsWanted, Effective
      <4>2. mask'[f] = mask[f] \ {d}
        <5>1. \E S \in SUBSET Added(ops) :
                 mask'[f] = (mask[f] \ Deleted(ops)) \cup S
          BY EpollCallsStep, BackendMask DEF EpollInv, EpollTypeOK
        <5>. QED
          BY <1>3, <3>1, <5>1
      <4>. QED
        BY <1>2, <1>5, <3>1, <4>1, <4>2
    <3>. QED
      BY <2>1, <3>2 DEF OwedOn
  <2>3. CASE ~(Direct /\ d \in mask[f])
    <3>1. kern'[f] = kern[f]
      BY <1>2, <1>3, <2>3
    <3>2. \A e \in owed'[f] : kern[f].armed \/ (~Direct' /\ AddOp(e) \in oper'[f])
      BY <1>1, <1>5, OpsDistinct DEF OwedInv, DelOper, Direct
    <3>. QED
      BY <2>1, <3>1, <3>2 DEF OwedOn
  <2>. QED
    BY <2>2, <2>3
<1>. QED
  BY <1>1, <1>2, <1>4, <1>5, OwedByFile

LEMMA DisableOwes ==
    ASSUME EpollInv, OwedInv, NEW f \in Files, EpollDisable(f)
    PROVE  OwedInv'
<1>1. /\ owed'[f] = {} /\ flags' = flags
      /\ \A g \in Files \ {f} :
            /\ kern'[g] = kern[g] /\ owed'[g] = owed[g]
            /\ wanted'[g] = wanted[g] /\ oper'[g] = oper[g]
  BY OwedTypes DEF EpollDisable, DelReadWriteFe, Becomes, EpollInv, EpollTypeOK
<1>2. Level(kern'[f])
  <2>1. kern'[f] = kern[f] \/ kern'[f] = NoEntry
    BY DEF EpollDisable, EpollDelReadWrite, Becomes, Part, EpollInv, EpollTypeOK
  <2>. QED
    BY <2>1, NoEntryIsEntry DEF OwedInv, Level
<1>. QED
  BY <1>1, <1>2, OwedByFile DEF OwedOn

LEMMA PrepareOwes ==
    ASSUME EpollInv, CoreInv, OwedInv, NEW f \in Files, EpollPrepare(f)
    PROVE  OwedInv'
<1>1. /\ UNCHANGED <<owed, wanted, flags>> /\ f \in events
      /\ \A g \in Files \ {f} : oper'[g] = oper[g]
  BY OwedTypes DEF EpollPrepare, PrepareFe
<1>2. /\ f \notin Refusable
           /\ (kern[f].armed \/ Deleted(oper[f]) # {} \/ Added(oper[f]) # {})
           => mask'[f] = {} \/ kern'[f].armed
      /\ Level(kern[f]) => Level(kern'[f])
      /\ \A g \in Files \ {f} : kern'[g] = kern[g]
  BY CallsArm DEF EpollPrepare
<1>3. ASSUME f \notin Refusable, NEW d \in owed[f] PROVE kern'[f].armed
  <2>1. ~Direct
    BY <1>1 DEF CoreInv, DirectIsImmediate
  <2>2. d \in wanted[f] /\ d \in Dirs
    BY <1>3, OwedTypes DEF OwedInv
  <2>3. d \in (mask[f] \ Deleted(oper[f])) \cup Added(oper[f])
    BY <1>3, <2>1, <2>2 DEF CoreInv, EffectiveIsWanted, Effective
  <2>4. mask'[f] # {}
    <3>1. \E S \in SUBSET Added(oper[f]) :
             /\ mask'[f] = (mask[f] \ Deleted(oper[f])) \cup S
             /\ f \notin Refusable => S = Added(oper[f])
      BY EpollCallsStep, BackendMask DEF EpollPrepare, EpollInv, EpollTypeOK
    <3>. QED
      BY <1>3, <2>3, <3>1
  <2>5. kern[f].armed \/ Added(oper[f]) # {}
    BY <1>3, <2>2 DEF OwedInv, Added
  <2>. QED
    BY <1>2, <1>3, <2>4, <2>5
<1>4. f \notin Refusable => OwedOn(f)'
  BY <1>1, <1>3 DEF OwedInv, OwedOn
<1>5. Level(kern'[f])
  BY <1>2 DEF OwedInv
<1>. QED
  BY <1>1, <1>2, <1>4, <1>5, OwedByFile

LEMMA WaitOwes ==
    ASSUME EpollInv, OwedInv, EpollWait
    PROVE  OwedInv'
<1>1. PICK S \in SUBSET Files :
             /\ kern' = [f \in Files |->
                            IF f \in S /\ kern[f].oneshot
                            THEN [kern[f] EXCEPT !.armed = FALSE] ELSE kern[f]]
             /\ owed' = [f \in Files |-> IF f \in S THEN {} ELSE owed[f]]
  BY DEF EpollWait, Reportable
<1>2. UNCHANGED <<wanted, flags, oper>>
  BY DEF EpollWait, EventWait, feVars
<1>3. ASSUME NEW f \in Files \ Refusable PROVE OwedOn(f)'
  <2>1. CASE f \in S
    BY <1>1, <2>1 DEF OwedOn
  <2>2. CASE f \notin S
    BY <1>1, <1>2, <2>2 DEF OwedOn, OwedInv, Direct
  <2>. QED
    BY <2>1, <2>2
<1>4. ASSUME NEW f \in Files PROVE Level(kern[f])'
  <2>1. kern[f] \in Entry /\ Level(kern[f])
    BY DEF EpollInv, EpollTypeOK, OwedInv
  <2>2. CASE f \in S /\ kern[f].oneshot
    <3>1. Oneshot \/ ~kern[f].reg
      BY <2>1, <2>2 DEF Level
    <3>2. kern'[f] = [kern[f] EXCEPT !.armed = FALSE]
      BY <1>1, <2>2
    <3>3. kern'[f].reg = kern[f].reg
      BY <2>1, <3>2 DEF Entry
    <3>. QED
      BY <1>2, <3>1, <3>3 DEF Level, Oneshot
  <2>3. CASE ~(f \in S /\ kern[f].oneshot)
    BY <1>1, <1>2, <2>1, <2>3 DEF Level, Oneshot
  <2>. QED
    BY <2>2, <2>3
<1>. QED
  BY <1>3, <1>4 DEF OwedInv, OwedOn

LEMMA OwedStep ==
    ASSUME EpollInv, CoreInv, OwedInv, [EpollNext]_epollVars
    PROVE  OwedInv'
<1>1. ASSUME NEW f \in Files, NEW d \in Dirs, NEW p \in Procs, EpollAddDir(f, d, p)
      PROVE  OwedInv'
  <2>1. CASE AddRefused(f, d) /\ UNCHANGED <<kern, fdcount, owed>>
    <3>1. /\ oper' = [oper EXCEPT ![f] = @ \ {DelOp(d)}]
          /\ UNCHANGED <<flags, kern, owed, wanted>>
      BY <2>1 DEF AddRefused
    <3>2. f \notin Refusable => OwedOn(f)'
      BY <3>1, OwedTypes, OpsDistinct DEF OwedInv, OwedOn, Direct
    <3>3. Level(kern'[f])
      BY <3>1 DEF OwedInv
    <3>. QED
      BY <3>1, <3>2, <3>3, OwedTypes, OwedByFile
  <2>. QED
    BY <1>1, <2>1, AddOwes DEF EpollAddDir
<1>2. ASSUME NEW f \in Files, Application(f) PROVE OwedInv'
  BY <1>1, <1>2, DelOwes, DisableOwes
     DEF Application, AddRead, AddWrite, DelRead, DelWrite, EpollDelDir, Dirs
<1>3. CASE Loop
  <2>1. CASE (\E r \in batch : Pick(r)) \/ CallReturns \/ EpollReturn \/ EpollSteps
    <3>1. UNCHANGED <<flags, kern, owed, wanted, oper>>
      BY <2>1 DEF Pick, CallReturns, EpollReturn, EpollSteps, WaitBegin, PrepareEnd,
                  WaitReturn, feVars, vars
    <3>. QED
      BY <3>1, SameOwed
  <2>. QED
    BY <1>3, <2>1, PrepareOwes, WaitOwes DEF Loop
<1>4. CASE UNCHANGED epollVars
  BY <1>4, SameOwed DEF epollVars
<1>. QED
  BY <1>2, <1>3, <1>4 DEF EpollNext

\* An entry that is owed an event is armed, or the addition is still put off;
\* without EPOLLONESHOT no entry is ever spent.
THEOREM OwedInvariant == EpollSpec => []OwedInv
<1>1. EpollInit => OwedInv
  <2> SUFFICES ASSUME EpollInit PROVE OwedInv
    OBVIOUS
  <2>1. \A f \in Files : owed[f] = {} /\ kern[f] = NoEntry
    BY DEF EpollInit
  <2>. QED
    BY <2>1, NoEntryIsEntry DEF OwedInv, Level
<1>2. EpollInv /\ CoreInv /\ OwedInv /\ [EpollNext]_epollVars => OwedInv'
  BY OwedStep
<1>3. EpollSpec => []CoreInv
  BY EpollImplementsCore, CoreInvariant, PTL
<1>. QED
  BY <1>1, <1>2, <1>3, EpollInvariant, PTL DEF EpollSpec

\* A registration is in force until its event: the kernel's entry is armed for
\* it or the addition is still put off, also when the direction never left the
\* mask and only its oneshot entry was spent.
THEOREM OwedIsArmedAlways == EpollSpec => []OwedIsArmed
<1>1. EpollInv /\ CoreInv /\ OwedInv => OwedIsArmed
  <2> SUFFICES ASSUME EpollInv, CoreInv, OwedInv, NEW f \in Files \ Refusable,
                      NEW d \in owed[f], Direct \/ AddOp(d) \notin oper[f]
               PROVE  kern[f].armed /\ d \in kern[f].evs
    BY DEF OwedIsArmed
  <2>1. kern[f].armed
    BY DEF OwedInv
  <2>2. d \in Effective(f) /\ d \in Dirs
    BY OwedTypes DEF OwedInv, CoreInv, EffectiveIsWanted
  <2>3. d \in mask[f]
    BY <2>2 DEF Effective, Added
  <2>. QED
    BY <2>1, <2>3 DEF EpollInv, KernelIsMask
<1>2. EpollSpec => []CoreInv
  BY EpollImplementsCore, CoreInvariant, PTL
<1>. QED
  BY <1>1, <1>2, OwedInvariant, EpollInvariant, PTL
=============================================================================
