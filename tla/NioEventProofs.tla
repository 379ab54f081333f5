--------------------------- MODULE NioEventProofs ---------------------------
(***************************************************************************)
(* Proofs about NioEvent, for any set of files, any backend behaviour      *)
(* NioEvent allows and every combination of the creation flags.  At the    *)
(* end are lemmas that the proofs about the backends share.                *)
(***************************************************************************)
EXTENDS NioEvent, NioSlots, WellFoundedInduction, TLAPS

(***************************************************************************)
(* Lemmas about the bits of fe->oper.                                      *)
(***************************************************************************)

\* The bits of fe->oper are pairwise different.
LEMMA OpsDistinct ==
    ASSUME NEW d, NEW e
    PROVE  /\ AddOp(d) # DelOp(e)
           /\ AddOp(d) = AddOp(e) <=> d = e
           /\ DelOp(d) = DelOp(e) <=> d = e
BY DEF AddOp, DelOp

\* What the updates of fe->oper in add_read and add_write do to the sets of
\* directions to delete and to add.
LEMMA AddBits ==
    ASSUME NEW S, NEW d \in Dirs, NEW c \in BOOLEAN,
           NEW T, T = (S \ {DelOp(d)}) \cup {o \in {AddOp(d)} : c}
    PROVE  /\ Deleted(T) = Deleted(S) \ {d}
           /\ Added(T) = Added(S) \cup {e \in {d} : c}
<1>1. \A e \in Dirs : DelOp(e) \in T <=> DelOp(e) \in S /\ e # d
  BY OpsDistinct
<1>2. \A e \in Dirs : AddOp(e) \in T <=> AddOp(e) \in S \/ (e = d /\ c)
  BY OpsDistinct
<1>. QED
  BY <1>1, <1>2 DEF Deleted, Added

\* The same for del_read and del_write.
LEMMA DelBits ==
    ASSUME NEW S, NEW d \in Dirs, NEW c \in BOOLEAN,
           NEW T, T = (S \ {AddOp(d)}) \cup {o \in {DelOp(d)} : c}
    PROVE  /\ Added(T) = Added(S) \ {d}
           /\ Deleted(T) = Deleted(S) \cup {e \in {d} : c}
<1>1. \A e \in Dirs : AddOp(e) \in T <=> AddOp(e) \in S /\ e # d
  BY OpsDistinct
<1>2. \A e \in Dirs : DelOp(e) \in T <=> DelOp(e) \in S \/ (e = d /\ c)
  BY OpsDistinct
<1>. QED
  BY <1>1, <1>2 DEF Deleted, Added

\* The backend calls made at once in the DIRECT mode.
LEMMA CallBits ==
    ASSUME NEW d \in Dirs, NEW c \in BOOLEAN
    PROVE  /\ Added({o \in {AddOp(d)} : c}) = {e \in {d} : c}
           /\ Deleted({o \in {AddOp(d)} : c}) = {}
           /\ Deleted({o \in {DelOp(d)} : c}) = {e \in {d} : c}
           /\ Added({o \in {DelOp(d)} : c}) = {}
BY OpsDistinct DEF Added, Deleted

LEMMA NoBits == Added({}) = {} /\ Deleted({}) = {}
BY DEF Added, Deleted

\* The calls del_readwrite makes remove the whole mask.
LEMMA MaskBits ==
    ASSUME NEW M \in SUBSET Dirs
    PROVE  /\ Deleted({DelOp(d) : d \in M}) = M
           /\ Added({DelOp(d) : d \in M}) = {}
BY OpsDistinct DEF Added, Deleted

LEMMA BitsAreDirs == ASSUME NEW S PROVE Added(S) \subseteq Dirs /\ Deleted(S) \subseteq Dirs
BY DEF Added, Deleted

-----------------------------------------------------------------------------
(***************************************************************************)
(* Type correctness.                                                       *)
(***************************************************************************)

\* Every step keeps the types.
LEMMA TypeStep == TypeOK /\ [Next]_vars => TypeOK'
<1> SUFFICES ASSUME TypeOK, [Next]_vars
             PROVE  TypeOK'
  OBVIOUS
<1> USE DEF TypeOK
<1>1. ASSUME NEW f \in Files, NEW C, Backend(f, C)
      PROVE  mask' \in [Files -> SUBSET Dirs]
  BY <1>1, BitsAreDirs DEF Backend
<1>2. \A d \in Dirs : AddOp(d) \in Opers /\ DelOp(d) \in Opers
  BY DEF Opers
<1>3. ASSUME NEW f \in Files, NEW d \in Dirs, Add(f, d)
      PROVE  TypeOK'
  <2>1. CASE AddRefused(f, d)
    BY <2>1, <1>2 DEF AddRefused
  <2>2. ASSUME NEW p \in Procs, AddFe(f, d, p), Backend(f, AddCalls(f, d))
        PROVE  TypeOK'
    <3>1. mask' \in [Files -> SUBSET Dirs]
      BY <1>1, <2>2
    <3>2. oper' \in [Files -> SUBSET Opers] /\ events' \in SUBSET Files
      BY <1>2, <2>2 DEF AddFe, AddOper
    <3>3. type' \in [Files -> {"NONE", "SOCK", "NOSOCK"}]
      BY <2>2 DEF AddFe
    <3>4. proc' \in [Files -> [Dirs -> Procs \cup {NULL}]]
      BY <2>2 DEF AddFe
    <3>5. wanted' \in [Files -> SUBSET Dirs] /\ flags' = flags /\ stage' = stage
      BY <2>2 DEF AddFe
    <3>. QED
      BY <3>1, <3>2, <3>3, <3>4, <3>5
  <2>. QED
    BY <1>3, <2>1, <2>2 DEF Add
<1>4. ASSUME NEW f \in Files, NEW d \in Dirs, Del(f, d)
      PROVE  TypeOK'
  <2>1. mask' \in [Files -> SUBSET Dirs]
    BY <1>1, <1>4 DEF Del
  <2>2. oper' \in [Files -> SUBSET Opers] /\ events' \in SUBSET Files
    BY <1>2, <1>4 DEF Del, DelFe, DelOper
  <2>3. proc' \in [Files -> [Dirs -> Procs \cup {NULL}]]
    BY <1>4 DEF Del, DelFe, DelProc
  <2>. QED
    BY <1>4, <2>1, <2>2, <2>3 DEF Del, DelFe
<1>5. ASSUME NEW f \in Files, DelReadWrite(f)
      PROVE  TypeOK'
  BY <1>1, <1>5 DEF DelReadWrite, DelReadWriteFe
<1>6. ASSUME NEW f \in Files, Prepare(f)
      PROVE  TypeOK'
  BY <1>1, <1>6 DEF Prepare, PrepareFe
<1>7. CASE WaitBegin \/ PrepareEnd \/ EventWait \/ WaitReturn
  BY <1>7 DEF WaitBegin, PrepareEnd, EventWait, WaitReturn, feVars, Stages
<1>8. CASE UNCHANGED vars
  BY <1>8 DEF vars
<1>. QED
  BY <1>3, <1>4, <1>5, <1>6, <1>7, <1>8 DEF Next

\* Every variable keeps its type.
THEOREM TypeCorrect == Spec => []TypeOK
<1>1. Init => TypeOK
  BY DEF Init, TypeOK, Stages
<1>2. TypeOK /\ [Next]_vars => TypeOK'
  BY TypeStep
<1>. QED
  BY <1>1, <1>2, PTL DEF Spec

-----------------------------------------------------------------------------
(***************************************************************************)
(* The inductive invariant.  An action touches one file; what it does to   *)
(* that file is stated in one step per action, FileInv collecting the      *)
(* conjuncts of CoreInv about a file.                                      *)
(***************************************************************************)

\* The conjuncts of CoreInv about one file.
FileInv(f) ==
    /\ ~Direct /\ oper[f] # {} => f \in events
    /\ Deleted(oper[f]) \cap Added(oper[f]) = {}
    /\ Deleted(oper[f]) \subseteq mask[f]
    /\ Effective(f) \subseteq wanted[f]
    /\ f \notin Refusable => Effective(f) = wanted[f]
    /\ \A d \in wanted[f] : proc[f][d] # NULL
    /\ Direct => f \notin events /\ Deleted(oper[f]) = {}
    /\ type[f] # "SOCK" => mask[f] = {} /\ oper[f] = {}

LEMMA CoreInvByFile ==
    /\ CoreInv <=> TypeOK /\ \A f \in Files : FileInv(f)
    /\ CoreInv' <=> TypeOK' /\ \A f \in Files : FileInv(f)'
BY DEF CoreInv, FileInv, TypeOK, NothingForgotten, NoConflict, EffectiveIsWanted,
       WantedHasProc, DirectIsImmediate, OnlySockets

\* The new value of the mask of the file a backend call is about, and of the
\* other files.
LEMMA BackendMask ==
    ASSUME TypeOK, NEW f \in Files, NEW C, Backend(f, C)
    PROVE  /\ \E S \in SUBSET Added(C) :
                 /\ mask'[f] = (mask[f] \ Deleted(C)) \cup S
                 /\ f \notin Refusable => S = Added(C)
           /\ \A g \in Files \ {f} : mask'[g] = mask[g]
BY DEF Backend, TypeOK

\* An action that leaves everything about a file alone keeps its invariant.
LEMMA Untouched ==
    ASSUME NEW g \in Files, FileInv(g), flags' = flags,
           oper'[g] = oper[g], mask'[g] = mask[g], wanted'[g] = wanted[g],
           proc'[g] = proc[g], type'[g] = type[g], g \in events' <=> g \in events
    PROVE  FileInv(g)'
BY DEF FileInv, Effective, Direct

\* add_read and add_write keep the invariant of their file.
LEMMA AddKeeps ==
    ASSUME TypeOK, NULL \notin Procs, NEW f \in Files, FileInv(f), NEW d \in Dirs,
           NEW p \in Procs, AddFe(f, d, p), Backend(f, AddCalls(f, d))
    PROVE  FileInv(f)'
<1> DEFINE needs == NeedsAdd(f, d)
           bit == {e \in {d} : needs}
<1>1. /\ oper'[f] = (oper[f] \ {DelOp(d)}) \cup {o \in {AddOp(d)} : needs}
      /\ wanted'[f] = wanted[f] \cup {d}
      /\ flags' = flags
      /\ f \in events' <=> f \in events \/ (needs /\ ~Direct)
      /\ proc'[f] = [proc[f] EXCEPT ![d] = p]
  BY DEF AddFe, AddOper, TypeOK
<1>2. needs \in BOOLEAN /\ (Direct /\ needs) \in BOOLEAN
  BY DEF NeedsAdd, Oneshot, Direct
<1>3. /\ Deleted(oper'[f]) = Deleted(oper[f]) \ {d}
      /\ Added(oper'[f]) = Added(oper[f]) \cup bit
  BY <1>1, <1>2, AddBits
<1>4. /\ Added(AddCalls(f, d)) = {e \in {d} : Direct /\ needs}
      /\ Deleted(AddCalls(f, d)) = {}
  BY <1>2, CallBits DEF AddCalls
<1>5. ~needs => d \in mask[f]
  BY DEF NeedsAdd
<1>6. PICK S \in SUBSET {e \in {d} : Direct /\ needs} :
         /\ mask'[f] = mask[f] \cup S
         /\ f \notin Refusable => S = {e \in {d} : Direct /\ needs}
  BY <1>4, BackendMask
<1>7. mask[f] \subseteq Dirs /\ wanted[f] \subseteq Dirs /\ proc[f] \in [Dirs -> Procs \cup {NULL}]
  BY DEF TypeOK
<1>8. (\A e \in wanted'[f] : proc'[f][e] # NULL) /\ type'[f] = "SOCK"
  <2>1. type'[f] = IF needs THEN "SOCK" ELSE type[f]
    BY DEF AddFe, TypeOK
  <2>. QED
    BY <1>1, <1>5, <1>7, <2>1 DEF FileInv
<1>9. Direct' = Direct
  BY <1>1 DEF Direct
<1> HIDE DEF needs
<1>10. CASE Direct
  <2>1. Effective(f)' = mask[f] \cup S /\ Effective(f) = mask[f]
    BY <1>6, <1>9, <1>10 DEF Effective
  <2>2. Deleted(oper'[f]) = {}
    BY <1>3, <1>10 DEF FileInv
  <2>. QED
    BY <1>1, <1>5, <1>6, <1>8, <1>9, <1>10, <2>1, <2>2 DEF FileInv
<1>11. CASE ~Direct
  <2>1. mask'[f] = mask[f]
    BY <1>6, <1>11
  <2>2. Effective(f)' = (mask[f] \ (Deleted(oper[f]) \ {d})) \cup Added(oper[f]) \cup bit
    BY <1>3, <1>9, <1>11, <2>1 DEF Effective
  <2>3. Effective(f)' = Effective(f) \cup {d}
    BY <1>5, <1>11, <2>2 DEF Effective
  <2>4. Deleted(oper'[f]) \cap Added(oper'[f]) = {} /\ Deleted(oper'[f]) \subseteq mask'[f]
    BY <1>3, <2>1 DEF FileInv
  <2>5. oper'[f] # {} => f \in events'
    BY <1>1, <1>11 DEF FileInv
  <2>. QED
    BY <1>1, <1>8, <1>9, <1>11, <2>3, <2>4, <2>5 DEF FileInv
<1>. QED
  BY <1>10, <1>11

\* del_read and del_write keep it.
LEMMA DelKeeps ==
    ASSUME TypeOK, NEW f \in Files, FileInv(f), NEW d \in Dirs,
           DelFe(f, d), Backend(f, DelCalls(f, d))
    PROVE  FileInv(f)'
<1> DEFINE here == d \in mask[f]
           defers == here /\ ~Direct
<1>1. /\ oper'[f] = (oper[f] \ {AddOp(d)}) \cup {o \in {DelOp(d)} : defers}
      /\ wanted'[f] = wanted[f] \ {d}
      /\ flags' = flags
      /\ f \in events' <=> f \in events \/ (here /\ ~Direct)
      /\ proc'[f] = [proc[f] EXCEPT ![d] = NULL]
  BY DEF DelFe, DelOper, DelDefers, DelProc, TypeOK
<1>2. defers \in BOOLEAN /\ (Direct /\ here) \in BOOLEAN
  BY DEF Direct
<1>3. /\ Added(oper'[f]) = Added(oper[f]) \ {d}
      /\ Deleted(oper'[f]) = Deleted(oper[f]) \cup {e \in {d} : defers}
  <2> HIDE DEF defers
  <2>. QED
    BY <1>1, <1>2, DelBits
<1>4. /\ Deleted(DelCalls(f, d)) = {e \in {d} : Direct /\ here}
      /\ Added(DelCalls(f, d)) = {}
  BY <1>2, CallBits DEF DelCalls
<1>5. mask'[f] = mask[f] \ {e \in {d} : Direct /\ here}
  BY <1>4, BackendMask
<1>6. wanted[f] \subseteq Dirs /\ proc[f] \in [Dirs -> Procs \cup {NULL}]
  BY DEF TypeOK
<1>7. /\ \A e \in wanted'[f] : proc'[f][e] # NULL
      /\ type'[f] # "SOCK" => mask'[f] = {} /\ oper'[f] = {}
  BY <1>1, <1>5, <1>6 DEF FileInv, DelFe
<1>8. Direct' = Direct
  BY <1>1 DEF Direct
<1>9. CASE Direct
  <2>1. Effective(f)' = mask[f] \ {d} /\ Effective(f) = mask[f]
    BY <1>5, <1>8, <1>9 DEF Effective
  <2>2. Deleted(oper'[f]) = {}
    BY <1>3, <1>9 DEF FileInv
  <2>. QED
    BY <1>1, <1>7, <1>8, <1>9, <2>1, <2>2 DEF FileInv
<1>10. CASE ~Direct
  <2>1. mask'[f] = mask[f]
    BY <1>5, <1>10
  <2>2. Effective(f)' = Effective(f) \ {d}
    BY <1>3, <1>8, <1>10, <2>1 DEF Effective
  <2>3. Deleted(oper'[f]) \cap Added(oper'[f]) = {} /\ Deleted(oper'[f]) \subseteq mask'[f]
    BY <1>3, <2>1 DEF FileInv
  <2>4. oper'[f] # {} => f \in events'
    BY <1>1, <1>10 DEF FileInv
  <2>. QED
    BY <1>1, <1>7, <1>8, <1>10, <2>2, <2>3, <2>4 DEF FileInv
<1>. QED
  BY <1>9, <1>10

\* del_readwrite keeps it.
LEMMA DelReadWriteKeeps ==
    ASSUME TypeOK, NEW f \in Files, FileInv(f),
           DelReadWriteFe(f), Backend(f, DelReadWriteCalls(f))
    PROVE  FileInv(f)'
<1>1. /\ oper'[f] = {}
      /\ wanted'[f] = {}
      /\ f \notin events'
  BY DEF DelReadWriteFe, TypeOK
<1>2. mask'[f] = {}
  <2>1. mask[f] \in SUBSET Dirs
    BY DEF TypeOK
  <2>2. Deleted(DelReadWriteCalls(f)) = mask[f] /\ Added(DelReadWriteCalls(f)) = {}
    BY <2>1, MaskBits, Zenon DEF DelReadWriteCalls
  <2>3. PICK S \in SUBSET Added(DelReadWriteCalls(f)) :
           mask'[f] = (mask[f] \ Deleted(DelReadWriteCalls(f))) \cup S
    BY BackendMask, Zenon
  <2>. QED
    BY <2>2, <2>3
<1>3. Effective(f)' = {} /\ Deleted(oper'[f]) = {} /\ Added(oper'[f]) = {}
  BY <1>1, <1>2, NoBits DEF Effective
<1>. QED
  BY <1>1, <1>2, <1>3 DEF FileInv

\* One turn of nio_event_prepare keeps it, and leaves the mask at what was
\* effective.
LEMMA PrepareKeeps ==
    ASSUME TypeOK, NEW f \in Files, FileInv(f), PrepareFe(f), Backend(f, oper[f])
    PROVE  FileInv(f)'
<1>1. /\ oper'[f] = {}
      /\ wanted'[f] = wanted[f]
      /\ proc'[f] = proc[f]
      /\ f \notin events'
      /\ ~Direct /\ ~Direct'
      /\ type'[f] = type[f]
  BY DEF PrepareFe, TypeOK, FileInv, Direct
<1>2. PICK S \in SUBSET Added(oper[f]) :
         /\ mask'[f] = (mask[f] \ Deleted(oper[f])) \cup S
         /\ f \notin Refusable => S = Added(oper[f])
  BY BackendMask
<1>3. Effective(f)' = mask'[f] /\ Deleted(oper'[f]) = {} /\ Added(oper'[f]) = {}
  BY <1>1, NoBits DEF Effective
<1>4. mask'[f] \subseteq Effective(f) /\ (f \notin Refusable => mask'[f] = Effective(f))
  BY <1>1, <1>2 DEF Effective
<1>5. type'[f] # "SOCK" => mask'[f] = {}
  BY <1>1, <1>2, NoBits DEF FileInv
<1>. QED
  BY <1>1, <1>3, <1>4, <1>5 DEF FileInv

\* The invariant holds initially.
LEMMA CoreInvInit == CoreAssumption /\ Init => CoreInv
<1> SUFFICES ASSUME Init PROVE CoreInv
  OBVIOUS
<1>1. TypeOK
  BY DEF Init, TypeOK, Stages
<1>2. ASSUME NEW f \in Files PROVE FileInv(f)
  BY NoBits DEF Init, FileInv, Effective
<1>. QED
  BY <1>1, <1>2, CoreInvByFile

\* Every step keeps it.
LEMMA CoreInvStep == CoreInv /\ TypeOK' /\ [Next]_vars => CoreInv'
<1> SUFFICES ASSUME TypeOK, TypeOK', \A g \in Files : FileInv(g), [Next]_vars
             PROVE  \A g \in Files : FileInv(g)'
  BY CoreInvByFile
<1> TAKE g \in Files
<1>1. NULL \notin Procs
  BY CoreAssumption DEF CoreAssumption
<1>2. ASSUME NEW f \in Files, NEW d \in Dirs, Add(f, d)
      PROVE  FileInv(g)'
  <2>1. CASE AddRefused(f, d)
    <3>1. CASE g = f
      <4>1. /\ oper'[f] = {} /\ oper[f] = {} /\ mask'[f] = {} /\ wanted' = wanted
            /\ events' = events /\ proc' = proc /\ flags' = flags
            /\ mask[f] = {}
        BY <2>1, <3>1 DEF AddRefused, TypeOK, FileInv
      <4>2. Effective(f)' = Effective(f)
        BY <4>1 DEF Effective, Direct
      <4>. QED
        BY <3>1, <4>1, <4>2, NoBits DEF FileInv, Direct
    <3>2. CASE g # f
      BY <2>1, <3>2, Untouched DEF AddRefused, TypeOK
    <3>. QED
      BY <3>1, <3>2
  <2>2. ASSUME NEW p \in Procs, AddFe(f, d, p), Backend(f, AddCalls(f, d))
        PROVE  FileInv(g)'
    <3>1. CASE g = f
      BY <1>1, <2>2, <3>1, AddKeeps
    <3>2. CASE g # f
      <4>1. mask'[g] = mask[g]
        BY <2>2, <3>2, BackendMask
      <4>. QED
        BY <2>2, <3>2, <4>1, Untouched DEF AddFe, TypeOK
    <3>. QED
      BY <3>1, <3>2
  <2>. QED
    BY <1>2, <2>1, <2>2 DEF Add
<1>3. ASSUME NEW f \in Files, NEW d \in Dirs, Del(f, d)
      PROVE  FileInv(g)'
  <2>1. CASE g = f
    BY <1>3, <2>1, DelKeeps DEF Del
  <2>2. CASE g # f
    <3>1. mask'[g] = mask[g]
      BY <1>3, <2>2, BackendMask DEF Del
    <3>. QED
      BY <1>3, <2>2, <3>1, Untouched DEF Del, DelFe, DelProc, TypeOK
  <2>. QED
    BY <2>1, <2>2
<1>4. ASSUME NEW f \in Files, DelReadWrite(f)
      PROVE  FileInv(g)'
  <2>1. CASE g = f
    BY <1>4, <2>1, DelReadWriteKeeps DEF DelReadWrite
  <2>2. CASE g # f
    <3>1. mask'[g] = mask[g]
      BY <1>4, <2>2, BackendMask DEF DelReadWrite
    <3>. QED
      BY <1>4, <2>2, <3>1, Untouched DEF DelReadWrite, DelReadWriteFe, TypeOK
  <2>. QED
    BY <2>1, <2>2
<1>5. ASSUME NEW f \in Files, Prepare(f)
      PROVE  FileInv(g)'
  <2>1. CASE g = f
    BY <1>5, <2>1, PrepareKeeps DEF Prepare
  <2>2. CASE g # f
    <3>1. mask'[g] = mask[g]
      BY <1>5, <2>2, BackendMask DEF Prepare
    <3>. QED
      BY <1>5, <2>2, <3>1, Untouched DEF Prepare, PrepareFe, TypeOK
  <2>. QED
    BY <2>1, <2>2
<1>6. CASE WaitBegin \/ PrepareEnd \/ EventWait \/ WaitReturn
  BY <1>6, Untouched DEF WaitBegin, PrepareEnd, EventWait, WaitReturn, feVars
<1>7. CASE UNCHANGED vars
  BY <1>7, Untouched DEF vars
<1>. QED
  BY <1>2, <1>3, <1>4, <1>5, <1>6, <1>7 DEF Next

\* Nothing an application asks for is forgotten, doubled or invented by the
\* deferral of operations: the inductive invariant holds in every state.
THEOREM CoreInvariant == Spec => []CoreInv
<1>1. Init => CoreInv
  BY CoreInvInit, CoreAssumption
<1>2. CoreInv /\ TypeOK' /\ [Next]_vars => CoreInv'
  BY CoreInvStep
<1>. QED
  BY <1>1, <1>2, TypeCorrect, PTL DEF Spec

\* What the application asked for is what is in force, deferred or not.
THEOREM EffectiveIsWantedAlways == Spec => []EffectiveIsWanted
<1>1. CoreInv => EffectiveIsWanted
  BY DEF CoreInv
<1>. QED
  BY <1>1, CoreInvariant, PTL

\* With nothing put off the backend watches exactly what is wanted.
THEOREM SettledIsWantedAlways == Spec => []SettledIsWanted
<1>1. CoreInv => SettledIsWanted
  <2> SUFFICES ASSUME CoreInv, events = {}, NEW f \in Files
               PROVE  Effective(f) = mask[f]
    BY DEF CoreInv, EffectiveIsWanted, SettledIsWanted
  <2>1. CASE Direct
    BY <2>1 DEF Effective
  <2>2. CASE ~Direct
    <3>1. oper[f] = {}
      BY <2>2 DEF CoreInv, NothingForgotten
    <3>. QED
      BY <3>1, NoBits DEF Effective
  <2>. QED
    BY <2>1, <2>2
<1>. QED
  BY <1>1, CoreInvariant, PTL

-----------------------------------------------------------------------------
(***************************************************************************)
(* The core implements EventRegistry.                                      *)
(***************************************************************************)

\* With nothing put off for a file, what the backend watches of it is what is
\* in force.
LEMMA NothingPutOff ==
    ASSUME CoreInv, NEW f \in Files, Direct \/ oper[f] = {}
    PROVE  /\ mask[f] \subseteq wanted[f]
           /\ f \notin Refusable => mask[f] = wanted[f]
<1>1. Effective(f) = mask[f]
  BY NoBits DEF Effective
<1>. QED
  BY <1>1 DEF CoreInv, EffectiveIsWanted

\* The same of the new state of a file whose mask alone has changed: the step
\* brings the file in line with its interest.
LEMMA BroughtInLine ==
    ASSUME TypeOK, CoreInv', NEW f \in Files, NEW C, Backend(f, C),
           Direct' \/ oper'[f] = {}
    PROVE  Registry!Towards(f, wanted'[f])
<1>1. Effective(f)' = mask'[f]
  BY NoBits DEF Effective
<1>2. mask'[f] \subseteq wanted'[f] /\ (f \notin Refusable => mask'[f] = wanted'[f])
  BY <1>1 DEF CoreInv, EffectiveIsWanted
<1>3. mask' = [mask EXCEPT ![f] = mask'[f]]
  BY DEF Backend, TypeOK
<1>. QED
  BY <1>2, <1>3 DEF Registry!Towards

\* A backend call with nothing to do.
LEMMA NoCalls ==
    ASSUME TypeOK, NEW f \in Files, Backend(f, {})
    PROVE  mask' = mask
BY NoBits DEF Backend, TypeOK

\* A request of the application, carried out at once or put off.
LEMMA RequestStep ==
    ASSUME TypeOK, CoreInv', NEW f \in Files, NEW C, Backend(f, C),
           Direct' \/ oper'[f] = {} \/ C = {}, stage' = stage,
           NEW W \in SUBSET Dirs, wanted' = [wanted EXCEPT ![f] = W]
    PROVE  Registry!Request(f)
<1>1. wanted'[f] = W
  BY DEF TypeOK
<1>2. mask' = mask \/ Registry!Towards(f, W)
  BY <1>1, BroughtInLine, NoCalls
<1>. QED
  BY <1>2 DEF Registry!Request

\* Every step of the core is a step of the registry, or changes nothing there.
LEMMA RegistryStep ==
    CoreInv /\ CoreInv' /\ [Next]_vars
        => [Registry!RegistryNext]_(Registry!registryVars)
<1> SUFFICES ASSUME CoreInv, CoreInv', [Next]_vars
             PROVE  Registry!RegistryNext \/ UNCHANGED Registry!registryVars
  OBVIOUS
<1>0. TypeOK
  BY DEF CoreInv
<1>1. ASSUME NEW f \in Files, NEW d \in Dirs, Add(f, d)
      PROVE  Registry!Request(f) \/ UNCHANGED Registry!registryVars
  <2>1. CASE AddRefused(f, d)
    BY <2>1 DEF AddRefused, Registry!registryVars
  <2>2. ASSUME NEW p \in Procs, AddFe(f, d, p), Backend(f, AddCalls(f, d))
        PROVE  Registry!Request(f)
    <3>1. Direct' \/ AddCalls(f, d) = {}
      BY <2>2 DEF AddFe, AddCalls, Direct
    <3>2. /\ wanted' = [wanted EXCEPT ![f] = wanted[f] \cup {d}]
          /\ wanted[f] \cup {d} \in SUBSET Dirs
          /\ stage' = stage
      BY <1>0, <2>2 DEF AddFe, TypeOK
    <3>. QED
      BY <1>0, <2>2, <3>1, <3>2, RequestStep
  <2>. QED
    BY <1>1, <2>1, <2>2 DEF Add
<1>2. ASSUME NEW f \in Files, NEW d \in Dirs, Del(f, d)
      PROVE  Registry!Request(f)
  <2>1. DelFe(f, d) /\ Backend(f, DelCalls(f, d))
    BY <1>2 DEF Del
  <2>2. Direct' \/ DelCalls(f, d) = {}
    BY <2>1 DEF DelFe, DelCalls, Direct
  <2>3. /\ wanted' = [wanted EXCEPT ![f] = wanted[f] \ {d}]
        /\ wanted[f] \ {d} \in SUBSET Dirs
        /\ stage' = stage
    BY <1>0, <2>1 DEF DelFe, TypeOK
  <2>. QED
    BY <1>0, <2>1, <2>2, <2>3, RequestStep
<1>3. ASSUME NEW f \in Files, DelReadWrite(f)
      PROVE  Registry!Request(f)
  <2>1. DelReadWriteFe(f) /\ Backend(f, DelReadWriteCalls(f))
    BY <1>3 DEF DelReadWrite
  <2>2. oper'[f] = {} /\ wanted' = [wanted EXCEPT ![f] = {}] /\ stage' = stage
    BY <1>0, <2>1 DEF DelReadWriteFe, TypeOK
  <2>. QED
    BY <1>0, <2>1, <2>2, RequestStep
<1>4. ASSUME NEW f \in Files, Prepare(f)
      PROVE  Registry!Sync(f)
  <2>1. PrepareFe(f) /\ Backend(f, oper[f])
    BY <1>4 DEF Prepare
  <2>2. oper'[f] = {} /\ wanted' = wanted
    BY <1>0, <2>1 DEF PrepareFe, TypeOK
  <2>3. Registry!Towards(f, wanted[f])
    BY <1>0, <2>1, <2>2, BroughtInLine
  <2>. QED
    BY <2>1, <2>2, <2>3 DEF PrepareFe, Registry!Sync
<1>5. CASE PrepareEnd
  <2>1. ASSUME NEW f \in Files
        PROVE  mask[f] \subseteq wanted[f] /\ (f \notin Refusable => mask[f] = wanted[f])
    <3>1. Direct \/ oper[f] = {}
      BY <1>5 DEF PrepareEnd, CoreInv, NothingForgotten
    <3>. QED
      BY <3>1, NothingPutOff
  <2>. QED
    BY <1>5, <2>1 DEF PrepareEnd, feVars, Registry!Sleep, Registry!RegistryNext
<1>6. CASE WaitBegin \/ EventWait
  BY <1>6 DEF WaitBegin, EventWait, feVars, Registry!registryVars
<1>7. CASE WaitReturn
  BY <1>7 DEF WaitReturn, feVars, Registry!Wake, Registry!RegistryNext
<1>8. CASE UNCHANGED vars
  BY <1>8 DEF vars, Registry!registryVars
<1>. QED
  BY <1>1, <1>2, <1>3, <1>4, <1>5, <1>6, <1>7, <1>8 DEF Next, Registry!RegistryNext

\* nio_event.c keeps the promise of EventRegistry: the system watches what the
\* application is interested in whenever the loop hands control to the backend,
\* and between two calls the watching moves only towards the interest.
THEOREM CoreImplementsRegistry == Spec => RegistrySpec
<1>1. Init => Registry!RegistryInit
  BY DEF Init, Registry!RegistryInit
<1>2. CoreInv /\ CoreInv' /\ [Next]_vars
        => [Registry!RegistryNext]_(Registry!registryVars)
  BY RegistryStep
<1>. QED
  BY <1>1, <1>2, CoreInvariant, PTL DEF Spec, RegistrySpec, Registry!RegistrySpec

-----------------------------------------------------------------------------
(***************************************************************************)
(* For the backends' proofs.  Induction over a list is an argument about   *)
(* the least place at which a claim fails.                                 *)
(***************************************************************************)

\* A set of natural numbers has a least element.
LEMMA Least ==
    ASSUME NEW T \in SUBSET Nat, T # {}
    PROVE  \E n \in T : \A m \in T : n <= m
<1> DEFINE R == OpToRel(<, Nat)
<1>1. IsWellFoundedOn(R, Nat)
  BY NatLessThanWellFounded
<1>2. \A m, n \in Nat : m < n => <<m, n>> \in R
  BY DEF OpToRel
<1>. HIDE DEF R
<1>3. PICK n \in T : \A m \in T : ~ (<<m, n>> \in R)
  BY <1>1, WFMin
<1>4. \A m \in T : m \in Nat /\ n \in Nat /\ ~ (m < n)
  BY <1>2, <1>3
<1>5. \A m \in T : n <= m
  BY <1>4
<1>. QED
  BY <1>5

-----------------------------------------------------------------------------
(***************************************************************************)
(* What placing a file in the array of the poll and select backends, and   *)
(* taking one out, do to an array that is exact.                           *)
(***************************************************************************)

\* The entries of Append.
LEMMA PlacedEntries ==
    ASSUME NEW S, NEW q \in Seq(S), NEW e \in S
    PROVE  /\ Placed(q, e) \in Seq(S)
           /\ Len(Placed(q, e)) = Len(q) + 1
           /\ \A i \in 1..Len(q) : Placed(q, e)[i] = q[i]
           /\ Placed(q, e)[Len(q) + 1] = e
BY DEF Placed

\* The entries when one was taken out.
LEMMA TakenEntries ==
    ASSUME NEW S, NEW q \in Seq(S), NEW i \in 1..Len(q)
    PROVE  /\ Taken(q, i) \in Seq(S)
           /\ Len(Taken(q, i)) = Len(q) - 1
           /\ \A j \in 1..(Len(q) - 1) :
                 Taken(q, i)[j] = IF j = i THEN q[Len(q)] ELSE q[j]
<1> DEFINE r == [q EXCEPT ![i] = q[Len(q)]]
<1>1. /\ r \in Seq(S) /\ Len(r) = Len(q)
      /\ \A j \in 1..Len(q) : r[j] = IF j = i THEN q[Len(q)] ELSE q[j]
  OBVIOUS
<1>2. Len(q) \in Nat /\ 1 <= Len(q)
  OBVIOUS
<1>. HIDE DEF r
<1>3. /\ SubSeq(r, 1, Len(q) - 1) \in Seq(S)
      /\ Len(SubSeq(r, 1, Len(q) - 1)) = Len(q) - 1
      /\ \A j \in 1..(Len(q) - 1) : SubSeq(r, 1, Len(q) - 1)[j] = r[j]
  BY <1>1, <1>2
<1>4. Taken(q, i) = SubSeq(r, 1, Len(q) - 1)
  BY DEF Taken, r
<1>. QED
  BY <1>1, <1>3, <1>4

\* A file without a slot is placed in a new one.
LEMMA PlacedExact ==
    ASSUME NEW S, NEW F, NEW q \in Seq(S), NEW id \in [F -> Nat],
           SlotsExact(q, id), NEW e \in S, e.file \in F, id[e.file] = NoSlot
    PROVE  /\ PlacedId(q, id, e) \in [F -> Nat]
           /\ SlotsExact(Placed(q, e), PlacedId(q, id, e))
<1> DEFINE r == Placed(q, e)
           n == PlacedId(q, id, e)
<1>1. /\ r \in Seq(S) /\ Len(r) = Len(q) + 1 /\ r[Len(q) + 1] = e
      /\ \A i \in 1..Len(q) : r[i] = q[i]
  BY PlacedEntries
<1>2. n \in [F -> Nat] /\ n = [id EXCEPT ![e.file] = Len(q) + 1]
  BY DEF PlacedId
<1>3. DOMAIN id = F /\ DOMAIN n = F /\ DOMAIN q = 1..Len(q) /\ DOMAIN r = 1..Len(r)
  BY <1>1, <1>2
<1>. HIDE DEF r, n
<1>4. ASSUME NEW f \in F, n[f] # NoSlot
      PROVE  n[f] \in DOMAIN r /\ r[n[f]].file = f
  BY <1>1, <1>2, <1>3, <1>4 DEF SlotsExact
<1>5. ASSUME NEW i \in DOMAIN r
      PROVE  r[i].file \in F /\ n[r[i].file] = i
  BY <1>1, <1>2, <1>3, <1>5 DEF SlotsExact, NoSlot
<1>6. SlotsExact(r, n)
  BY <1>3, <1>4, <1>5 DEF SlotsExact
<1>. QED
  BY <1>2, <1>6 DEF r, n

\* A file gives up its slot, and the last file takes it.
LEMMA TakenExact ==
    ASSUME NEW S, NEW F, NEW q \in Seq(S), NEW id \in [F -> Nat],
           SlotsExact(q, id), NEW f \in F, id[f] # NoSlot
    PROVE  /\ TakenId(q, id, f) \in [F -> Nat]
           /\ SlotsExact(Taken(q, id[f]), TakenId(q, id, f))
           /\ TakenId(q, id, f)[f] = NoSlot
           /\ \A g \in F \ {f} : TakenId(q, id, f)[g] = NoSlot <=> id[g] = NoSlot
<1> DEFINE r == Taken(q, id[f])
           n == TakenId(q, id, f)
           l == q[Len(q)].file
<1>1. DOMAIN id = F /\ DOMAIN q = 1..Len(q) /\ Len(q) \in Nat
  OBVIOUS
<1>2. id[f] \in 1..Len(q) /\ q[id[f]].file = f
  BY <1>1 DEF SlotsExact
<1>3. Len(q) \in 1..Len(q) /\ l \in F /\ id[l] = Len(q)
  BY <1>1, <1>2 DEF SlotsExact
<1>4. /\ r \in Seq(S) /\ Len(r) = Len(q) - 1
      /\ \A j \in 1..(Len(q) - 1) : r[j] = IF j = id[f] THEN q[Len(q)] ELSE q[j]
  BY <1>2, TakenEntries
<1>5. /\ n \in [F -> Nat] /\ n[f] = NoSlot
      /\ \A g \in F \ {f} : n[g] = IF g = l THEN id[f] ELSE id[g]
  BY <1>3 DEF TakenId, NoSlot
<1>6. DOMAIN n = F /\ DOMAIN r = 1..(Len(q) - 1)
  BY <1>4, <1>5
<1>. HIDE DEF r, n, l
<1>7. ASSUME NEW g \in F, n[g] # NoSlot
      PROVE  n[g] \in DOMAIN r /\ r[n[g]].file = g
  <2>1. g # f
    BY <1>5, <1>7
  <2>2. CASE g = l
    <3>1. n[g] = id[f] /\ id[f] # Len(q)
      BY <1>2, <1>5, <2>1, <2>2 DEF l
    <3>. QED
      BY <1>1, <1>2, <1>4, <1>6, <2>2, <3>1 DEF l
  <2>3. CASE g # l
    <3>1. n[g] = id[g] /\ id[g] # NoSlot
      BY <1>5, <1>7, <2>1, <2>3
    <3>2. id[g] \in 1..Len(q) /\ q[id[g]].file = g
      BY <1>1, <3>1 DEF SlotsExact
    <3>3. id[g] # Len(q) /\ id[g] # id[f]
      BY <1>2, <2>1, <2>3, <3>2 DEF l
    <3>. QED
      BY <1>1, <1>4, <1>6, <3>1, <3>2, <3>3
  <2>. QED
    BY <2>2, <2>3
<1>8. ASSUME NEW j \in DOMAIN r
      PROVE  r[j].file \in F /\ n[r[j].file] = j
  <2>1. j \in 1..(Len(q) - 1) /\ j \in 1..Len(q)
    BY <1>1, <1>6
  <2>2. CASE j = id[f]
    <3>1. r[j].file = l
      BY <1>4, <2>1, <2>2 DEF l
    <3>2. l # f
      BY <1>3, <2>1, <2>2
    <3>. QED
      BY <1>3, <1>5, <2>2, <3>1, <3>2
  <2>3. CASE j # id[f]
    <3>1. r[j] = q[j] /\ q[j].file \in F /\ id[q[j].file] = j
      BY <1>1, <1>4, <2>1, <2>3 DEF SlotsExact
    <3>2. q[j].file # f /\ q[j].file # l
      BY <1>3, <2>1, <2>3, <3>1
    <3>. QED
      BY <1>5, <3>1, <3>2
  <2>. QED
    BY <2>2, <2>3
<1>9. SlotsExact(r, n)
  BY <1>6, <1>7, <1>8 DEF SlotsExact
<1>10. ASSUME NEW g \in F \ {f}
       PROVE  n[g] = NoSlot <=> id[g] = NoSlot
  BY <1>1, <1>2, <1>3, <1>5 DEF NoSlot
<1>. QED
  BY <1>5, <1>9, <1>10 DEF r, n
=============================================================================
