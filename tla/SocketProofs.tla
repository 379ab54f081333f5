---------------------------- MODULE SocketProofs ----------------------------
(***************************************************************************)
(* Proofs about ClientSocket and ServerSocket: a client's marks and the    *)
(* loop's timers agree, nothing refers to a client or a server any more    *)
(* when the application may free it, what a client awaits is watched, and  *)
(* whatever the sockets do is a behaviour of the loop on epoll.            *)
(*                                                                         *)
(* The argument is about files that are left alone.  A file nothing is     *)
(* registered for stays so through every step but an addition to it; once  *)
(* no event of it is in flight either, none will be.                       *)
(***************************************************************************)
EXTENDS ServerSocket, NioEpollProofs

\* Nothing is watched or put off for the file.
Idle(f) ==
    /\ mask[f] = {} /\ oper[f] = {}
    /\ f \notin events
    /\ kern[f] = NoEntry

\* And no event of it is in flight.
Gone(f) ==
    /\ Idle(f)
    /\ \A r \in batch : r.file # f
    /\ \A i \in DOMAIN calls : calls[i].file # f

\* The kernel keeps nothing of an entry that was taken out.
Clean == \A f \in Files : ~kern[f].reg => kern[f] = NoEntry

\* A step that adds nothing to the file.
Spares(f) ==
    \/ Loop
    \/ \E g \in Files \ {f} : Application(g)
    \/ DelWrite(f)
    \/ EpollDisable(f)
    \/ UNCHANGED epollVars

-----------------------------------------------------------------------------
(***************************************************************************)
(* Clean is kept by the loop on epoll.                                     *)
(***************************************************************************)
CleanPart(s) == ~s.k.reg => s.k = NoEntry

LEMMA AddCleans ==
    ASSUME NEW s, CleanPart(s), NEW d, NEW ok
    PROVE  CleanPart(EpollAdd(s, d, ok))
BY DEF EpollAdd, CleanPart, Armed

LEMMA DelCleans ==
    ASSUME NEW s, Agrees(s), CleanPart(s), NEW d
    PROVE  CleanPart(EpollDel(s, d))
BY DEF EpollDel, CleanPart, Armed, NoEntry, Agrees

\* What calls on one file leave of it and of the others.
LEMMA CallsClean ==
    ASSUME EpollInv, NEW f \in Files, NEW ops, EpollCalls(f, ops)
    PROVE  /\ Clean => Clean'
           /\ \A g \in Files \ {f} : mask'[g] = mask[g] /\ kern'[g] = kern[g]
<1>1. PICK okr \in BOOLEAN, okw \in BOOLEAN :
        LET s1 == IF DelOp(READ) \in ops THEN EpollDel(Part(f), READ) ELSE Part(f)
            s2 == IF DelOp(WRITE) \in ops THEN EpollDel(s1, WRITE) ELSE s1
            s3 == IF AddOp(READ) \in ops THEN EpollAdd(s2, READ, okr) ELSE s2
            s4 == IF AddOp(WRITE) \in ops THEN EpollAdd(s3, WRITE, okw) ELSE s3
        IN  Becomes(f, s4)
  BY DEF EpollCalls
<1> DEFINE s0 == Part(f)
           s1 == IF DelOp(READ) \in ops THEN EpollDel(s0, READ) ELSE s0
           s2 == IF DelOp(WRITE) \in ops THEN EpollDel(s1, WRITE) ELSE s1
           s3 == IF AddOp(READ) \in ops THEN EpollAdd(s2, READ, okr) ELSE s2
           s4 == IF AddOp(WRITE) \in ops THEN EpollAdd(s3, WRITE, okw) ELSE s3
<1>2. Becomes(f, s4)
  BY <1>1
<1>3. READ \in Dirs /\ WRITE \in Dirs
  BY DEF Dirs
<1>4. Agrees(s0) /\ s0.k = kern[f]
  BY PartAgrees DEF EpollInv, Part
<1>. HIDE DEF s0
<1>5. Agrees(s1) /\ (CleanPart(s0) => CleanPart(s1))
  BY <1>3, <1>4, DelAgrees, DelCleans
<1>. HIDE DEF s1
<1>6. Agrees(s2) /\ (CleanPart(s1) => CleanPart(s2))
  BY <1>3, <1>5, DelAgrees, DelCleans
<1>. HIDE DEF s2
<1>7. CleanPart(s2) => CleanPart(s3)
  BY AddCleans
<1>. HIDE DEF s3
<1>8. CleanPart(s3) => CleanPart(s4)
  BY AddCleans
<1>. HIDE DEF s4
<1>9. /\ kern \in [Files -> Entry] /\ mask \in [Files -> SUBSET Dirs]
      /\ kern' = [kern EXCEPT ![f] = s4.k] /\ mask' = [mask EXCEPT ![f] = s4.m]
  BY <1>2 DEF Becomes, EpollInv, EpollTypeOK, TypeOK
<1>10. ASSUME Clean PROVE Clean'
  <2>1. CleanPart(s4)
    BY <1>4, <1>5, <1>6, <1>7, <1>8, <1>10 DEF Clean, CleanPart
  <2>. QED
    BY <1>9, <1>10, <2>1 DEF Clean, CleanPart
<1>. QED
  BY <1>9, <1>10

LEMMA DisableCleans ==
    ASSUME EpollInv, NEW f \in Files, EpollDisable(f)
    PROVE  /\ Clean => Clean' /\ Idle(f)'
           /\ Idle(f) => Idle(f)'
           /\ \A g \in Files \ {f} : mask'[g] = mask[g] /\ kern'[g] = kern[g]
<1>1. /\ kern \in [Files -> Entry] /\ mask \in [Files -> SUBSET Dirs]
      /\ oper \in [Files -> SUBSET Opers] /\ fdcount \in Int
      /\ kern[f].reg <=> mask[f] # {}
  BY DEF EpollInv, EpollTypeOK, TypeOK, KernelIsMask
<1>2. /\ kern' = [kern EXCEPT ![f] = IF kern[f].reg THEN NoEntry ELSE kern[f]]
      /\ mask' = [mask EXCEPT ![f] = {}]
  BY <1>1 DEF EpollDisable, EpollDelReadWrite, Becomes, Part
<1>3. oper' = [oper EXCEPT ![f] = {}] /\ events' = events \ {f}
  BY DEF EpollDisable, DelReadWriteFe
<1>4. NoEntry.reg = FALSE
  BY NoEntryIsEntry
<1>5. ASSUME kern[f].reg \/ kern[f] = NoEntry PROVE Idle(f)'
  BY <1>1, <1>2, <1>3, <1>5 DEF Idle
<1>6. ASSUME Clean PROVE Clean'
  BY <1>1, <1>2, <1>4, <1>6 DEF Clean
<1>. QED
  BY <1>1, <1>2, <1>5, <1>6 DEF Clean, Idle

LEMMA CleanStep ==
    ASSUME EpollInv, Clean, [EpollNext]_epollVars
    PROVE  Clean'
<1>1. ASSUME NEW f \in Files, NEW d \in Dirs, NEW p \in Procs, EpollAddDir(f, d, p)
      PROVE  Clean'
  BY <1>1, CallsClean DEF EpollAddDir, Clean
<1>2. ASSUME NEW f \in Files, Application(f) PROVE Clean'
  BY <1>1, <1>2, CallsClean, DisableCleans
     DEF Application, AddRead, AddWrite, DelRead, DelWrite, EpollDelDir, Dirs
<1>3. CASE EpollWait
  <2>1. PICK S \in SUBSET Reportable :
             kern' = [f \in Files |->
                            IF f \in S /\ kern[f].oneshot
                            THEN [kern[f] EXCEPT !.armed = FALSE] ELSE kern[f]]
    BY <1>3 DEF EpollWait
  <2> SUFFICES ASSUME NEW f \in Files, ~kern'[f].reg PROVE kern'[f] = NoEntry
    BY DEF Clean
  <2>2. kern[f] \in Entry
    BY DEF EpollInv, EpollTypeOK
  <2>3. kern'[f].reg = kern[f].reg
    BY <2>1, <2>2 DEF Entry
  <2>4. f \notin S
    BY <2>3 DEF Reportable
  <2>. QED
    BY <2>1, <2>3, <2>4 DEF Clean
<1>4. CASE Loop
  <2>1. CASE (\E r \in batch : Pick(r)) \/ CallReturns \/ EpollReturn \/ EpollSteps
    BY <2>1 DEF Pick, CallReturns, EpollReturn, EpollSteps, Clean
  <2>. QED
    BY <1>3, <1>4, <2>1, CallsClean DEF Loop, EpollPrepare
<1>5. CASE UNCHANGED epollVars
  BY <1>5 DEF epollVars, Clean
<1>. QED
  BY <1>2, <1>4, <1>5 DEF EpollNext

-----------------------------------------------------------------------------
(***************************************************************************)
(* A file that is spared stays idle, and stays gone.                       *)
(***************************************************************************)

\* The calls collected from one event are of its file.
LEMMA CallsOfOne ==
    ASSUME NEW g, NEW evs
    PROVE  LET q == CallOf(g, READ, evs) \o CallOf(g, WRITE, evs)
           IN  \A i \in DOMAIN q : q[i].file = g
<1>1. CASE Due(g, READ, evs) /\ Due(g, WRITE, evs)
  BY <1>1 DEF CallOf
<1>2. CASE Due(g, READ, evs) /\ ~Due(g, WRITE, evs)
  BY <1>2 DEF CallOf
<1>3. CASE ~Due(g, READ, evs) /\ Due(g, WRITE, evs)
  BY <1>3 DEF CallOf
<1>4. CASE ~Due(g, READ, evs) /\ ~Due(g, WRITE, evs)
  BY <1>4 DEF CallOf
<1>. QED
  BY <1>1, <1>2, <1>3, <1>4

LEMMA FileTypes ==
    ASSUME EpollInv
    PROVE  /\ mask \in [Files -> SUBSET Dirs] /\ oper \in [Files -> SUBSET Opers]
           /\ kern \in [Files -> Entry] /\ calls \in Seq(Call)
           /\ batch \in SUBSET Report
BY DEF EpollInv, EpollTypeOK, TypeOK

LEMMA ApplicationSpares ==
    ASSUME EpollInv, NEW f \in Files, Idle(f), NEW g \in Files \ {f}, Application(g)
    PROVE  Idle(f)' /\ UNCHANGED <<batch, calls>>
<1>1. ASSUME NEW d \in Dirs, NEW p \in Procs, EpollAddDir(g, d, p)
      PROVE  Idle(f)' /\ UNCHANGED <<batch, calls>>
  <2>1. UNCHANGED <<batch, calls>>
    BY <1>1 DEF EpollAddDir, dispatchVars
  <2>2. CASE AddRefused(g, d) /\ UNCHANGED <<kern, fdcount, owed>>
    BY <2>1, <2>2, FileTypes DEF AddRefused, Idle
  <2>3. CASE AddFe(g, d, p) /\ EpollCalls(g, AddCalls(g, d))
    <3>1. oper'[f] = oper[f] /\ (f \in events' => f \in events)
      BY <2>3, FileTypes DEF AddFe
    <3>2. mask'[f] = mask[f] /\ kern'[f] = kern[f]
      BY <2>3, CallsClean
    <3>. QED
      BY <2>1, <3>1, <3>2 DEF Idle
  <2>. QED
    BY <1>1, <2>2, <2>3 DEF EpollAddDir
<1>2. ASSUME NEW d \in Dirs, EpollDelDir(g, d)
      PROVE  Idle(f)' /\ UNCHANGED <<batch, calls>>
  <2>1. oper'[f] = oper[f] /\ (f \in events' => f \in events)
    BY <1>2, FileTypes DEF EpollDelDir, DelFe
  <2>2. mask'[f] = mask[f] /\ kern'[f] = kern[f]
    BY <1>2, CallsClean DEF EpollDelDir
  <2>3. UNCHANGED <<batch, calls>>
    BY <1>2 DEF EpollDelDir, dispatchVars
  <2>. QED
    BY <2>1, <2>2, <2>3 DEF Idle
<1>3. ASSUME EpollDisable(g)
      PROVE  Idle(f)' /\ UNCHANGED <<batch, calls>>
  <2>1. oper'[f] = oper[f] /\ (f \in events' => f \in events)
    BY <1>3, FileTypes DEF EpollDisable, DelReadWriteFe
  <2>2. mask'[f] = mask[f] /\ kern'[f] = kern[f]
    BY <1>3, DisableCleans
  <2>3. UNCHANGED <<batch, calls>>
    BY <1>3 DEF EpollDisable, dispatchVars
  <2>. QED
    BY <2>1, <2>2, <2>3 DEF Idle
<1>. QED
  BY <1>1, <1>2, <1>3 DEF Application, AddRead, AddWrite, DelRead, DelWrite, Dirs

\* Giving up what is not watched changes nothing.
LEMMA DelSpares ==
    ASSUME EpollInv, NEW f \in Files, Idle(f), NEW d \in Dirs, EpollDelDir(f, d)
    PROVE  Idle(f)' /\ UNCHANGED <<batch, calls>>
<1>1. DelFe(f, d) /\ EpollCalls(f, DelCalls(f, d)) /\ UNCHANGED <<batch, calls>>
  BY DEF EpollDelDir, dispatchVars
<1>2. oper'[f] = {} /\ f \notin events'
  BY <1>1, FileTypes DEF DelFe, DelOper, DelDefers, Idle
<1>3. Added(DelCalls(f, d)) = {} /\ Deleted(DelCalls(f, d)) = {}
  BY NoBits DEF DelCalls, Idle
<1>4. kern'[f] = kern[f]
  BY <1>1, <1>3, CallsArm
<1>5. mask'[f] = {}
  <2>1. \E S \in SUBSET Added(DelCalls(f, d)) :
           mask'[f] = (mask[f] \ Deleted(DelCalls(f, d))) \cup S
    BY <1>1, EpollCallsStep, BackendMask DEF EpollInv, EpollTypeOK
  <2>. QED
    BY <1>3, <2>1 DEF Idle
<1>. QED
  BY <1>1, <1>2, <1>4, <1>5 DEF Idle

LEMMA LoopSpares ==
    ASSUME EpollInv, NEW f \in Files, Idle(f), Loop
    PROVE  Idle(f)' /\ (Gone(f) => Gone(f)')
<1>1. ASSUME NEW g \in Files, EpollPrepare(g) PROVE Idle(f)' /\ (Gone(f) => Gone(f)')
  <2>1. /\ g \in events /\ g # f
        /\ oper' = [oper EXCEPT ![g] = {}] /\ events' = events \ {g}
        /\ EpollCalls(g, oper[g]) /\ UNCHANGED <<batch, calls>>
    BY <1>1 DEF EpollPrepare, PrepareFe, Idle
  <2>2. mask'[f] = mask[f] /\ kern'[f] = kern[f]
    BY <2>1, CallsClean
  <2>. QED
    BY <2>1, <2>2, FileTypes DEF Idle, Gone
<1>2. CASE EpollSteps \/ EpollReturn
  BY <1>2 DEF EpollSteps, EpollReturn, WaitBegin, PrepareEnd, WaitReturn, feVars,
              Idle, Gone
<1>3. CASE EpollWait
  <2>1. PICK S \in SUBSET Reportable :
          \E ev \in [S -> SUBSET (Dirs \cup {ERR}) \ {{}}] :
             /\ batch' = {[file |-> g, evs |-> ev[g]] : g \in S}
             /\ kern' = [g \in Files |->
                            IF g \in S /\ kern[g].oneshot
                            THEN [kern[g] EXCEPT !.armed = FALSE] ELSE kern[g]]
    BY <1>3 DEF EpollWait
  <2>2. f \notin S
    BY <2>1, NoEntryIsEntry DEF Reportable, Idle
  <2>3. kern'[f] = kern[f] /\ \A r \in batch' : r.file # f
    BY <2>1, <2>2
  <2>4. UNCHANGED <<mask, oper, events, calls>>
    BY <1>3 DEF EpollWait, EventWait, feVars
  <2>. QED
    BY <2>3, <2>4 DEF Idle, Gone
<1>4. ASSUME NEW r \in batch, Pick(r) PROVE Idle(f)' /\ (Gone(f) => Gone(f)')
  <2>1. /\ UNCHANGED <<mask, oper, events, kern>> /\ batch' = batch \ {r}
        /\ calls' = CallOf(r.file, READ, r.evs) \o CallOf(r.file, WRITE, r.evs)
    BY <1>4 DEF Pick, vars
  <2>2. \A i \in DOMAIN calls' : calls'[i].file = r.file
    BY <2>1, CallsOfOne
  <2>. QED
    BY <2>1, <2>2 DEF Idle, Gone
<1>5. CASE CallReturns
  <2>1. /\ UNCHANGED <<mask, oper, events, kern, batch>>
        /\ calls # <<>> /\ calls' = Tail(calls)
    BY <1>5 DEF CallReturns, vars
  <2>2. \A i \in DOMAIN calls' : i + 1 \in DOMAIN calls /\ calls'[i] = calls[i + 1]
    BY <2>1, FileTypes
  <2>. QED
    BY <2>1, <2>2 DEF Idle, Gone
<1>. QED
  BY <1>1, <1>2, <1>3, <1>4, <1>5 DEF Loop

LEMMA SparedStays ==
    ASSUME EpollInv, NEW f \in Files, Spares(f)
    PROVE  /\ Idle(f) => Idle(f)'
           /\ Gone(f) => Gone(f)'
<1> SUFFICES ASSUME Idle(f) PROVE Idle(f)' /\ (Gone(f) => Gone(f)')
  BY DEF Gone
<1>1. CASE Loop
  BY <1>1, LoopSpares
<1>2. ASSUME Idle(f)', UNCHANGED <<batch, calls>>
      PROVE  Idle(f)' /\ (Gone(f) => Gone(f)')
  BY <1>2 DEF Gone
<1>3. ASSUME NEW g \in Files \ {f}, Application(g) PROVE Idle(f)' /\ (Gone(f) => Gone(f)')
  BY <1>2, <1>3, ApplicationSpares
<1>4. CASE DelWrite(f)
  BY <1>2, <1>4, DelSpares DEF DelWrite, Dirs
<1>5. CASE EpollDisable(f)
  <2>1. UNCHANGED <<batch, calls>>
    BY <1>5 DEF EpollDisable, dispatchVars
  <2>. QED
    BY <1>2, <1>5, <2>1, DisableCleans
<1>6. CASE UNCHANGED epollVars
  BY <1>2, <1>6 DEF epollVars, Idle
<1>. QED
  BY <1>1, <1>3, <1>4, <1>5, <1>6 DEF Spares

\* Every step that spares a file is a step of the loop on epoll.
LEMMA SparesIsStep ==
    ASSUME NEW f \in Files, Spares(f)
    PROVE  [EpollNext]_epollVars
BY DEF Spares, EpollNext, Application

-----------------------------------------------------------------------------
(***************************************************************************)
(* The invariant of the clients.  C are the files that clients are built   *)
(* on: all of them, or those that are no server's.                         *)
(***************************************************************************)
SocketTypes ==
    /\ cli \in [Files -> Client]
    /\ timers \in SUBSET Timer
    /\ due \in SUBSET Timer
    /\ firing \in Timer \cup {NULL}
    /\ free \in SUBSET Files
    /\ entered \in BOOLEAN
    /\ phase \in {"user", "trigger", "fire"}

\* Timers are taken out and called only between the backend's wait and the
\* return to the owner, and no timer is both set and taken out.
Turns ==
    /\ phase # "user" => stage = "app"
    /\ due # {} \/ firing # NULL => phase = "fire"
    /\ timers \cap due = {}
    /\ WaitingIsSet

OneClient(c) ==
    /\ ~cli[c].open => Gone(c) /\ cli[c].waiting = {}
    /\ cli[c].closing => Idle(c)
    /\ cli[c].deleted =>
          /\ cli[c].closing /\ Gone(c) /\ cli[c].waiting = {}
          /\ firing # NULL => \A d \in Dirs : firing # <<c, d>>
    /\ c \in free => cli[c].closing /\ ~cli[c].deleted

ClientsInv(C) == free \subseteq C /\ \A c \in C : OneClient(c)

SocketInv(C) ==
    /\ EpollInv
    /\ Clean
    /\ SocketTypes
    /\ Turns
    /\ ClientsInv(C)

\* What every step of the sockets does; the files that are not clients' are
\* spared.
Follow(C) ==
    /\ [EpollNext]_epollVars
    /\ SocketTypes'
    /\ Turns'
    /\ ClientsInv(C)'
    /\ \A f \in Files \ C : Spares(f)

\* A client the step does nothing to but to stop timers and make its marks.
Quiet(c) ==
    /\ Spares(c)
    /\ cli'[c].open = cli[c].open /\ cli'[c].closing = cli[c].closing
    /\ cli'[c].deleted = cli[c].deleted
    /\ cli'[c].waiting \subseteq cli[c].waiting
    /\ cli[c].deleted =>
          (firing' # NULL => \A d \in Dirs : firing' # <<c, d>>)
    /\ c \in free' => c \in free

LEMMA QuietStays ==
    ASSUME NEW C \in SUBSET Files, SocketInv(C), NEW c \in C, Quiet(c)
    PROVE  OneClient(c)'
<1>1. (Idle(c) => Idle(c)') /\ (Gone(c) => Gone(c)')
  BY SparedStays DEF Quiet, SocketInv
<1>. QED
  BY <1>1 DEF Quiet, SocketInv, ClientsInv, OneClient

\* A step all clients are quiet in, and one all are quiet in but one.
LEMMA AllQuiet ==
    ASSUME NEW C \in SUBSET Files, SocketInv(C), free' \subseteq free,
           \A c \in C : Quiet(c)
    PROVE  ClientsInv(C)'
<1>1. \A c \in C : OneClient(c)'
  BY QuietStays
<1>2. free' \subseteq C
  BY DEF SocketInv, ClientsInv
<1>. QED
  BY <1>1, <1>2 DEF ClientsInv

LEMMA OthersQuiet ==
    ASSUME NEW C \in SUBSET Files, SocketInv(C), NEW c \in C,
           free' \subseteq free \cup {c}, OneClient(c)',
           \A g \in C \ {c} : Quiet(g)
    PROVE  ClientsInv(C)'
<1>1. \A g \in C : OneClient(g)'
  BY QuietStays
<1>2. free' \subseteq C
  BY DEF SocketInv, ClientsInv
<1>. QED
  BY <1>1, <1>2 DEF ClientsInv

-----------------------------------------------------------------------------
(***************************************************************************)
(* The application's calls.                                                *)
(***************************************************************************)

\* A client that may be called for is not in the loop's hands to be closed.
LEMMA UsableIs ==
    ASSUME NEW C \in SUBSET Files, SocketInv(C), NEW c \in C, Usable(c)
    PROVE  ~cli[c].closing /\ ~cli[c].deleted /\ c \notin free
BY DEF Usable, SocketInv, ClientsInv, OneClient

\* The application's calls do not turn the loop.
LEMMA AppStage ==
    ASSUME NEW f \in Files, Application(f) \/ UNCHANGED epollVars
    PROVE  stage' = stage
BY DEF Application, AddRead, AddWrite, DelRead, DelWrite, EpollAddDir, EpollDelDir,
       EpollDisable, AddRefused, AddFe, DelFe, DelReadWriteFe, epollVars

\* Registering for one client, or giving up: what is left to show of such a
\* call is its marks and timers.
LEMMA CallFollows ==
    ASSUME NEW C \in SUBSET Files, SocketInv(C), NEW c \in C, Usable(c),
           Application(c) \/ UNCHANGED epollVars,
           NEW r \in Client, cli' = [cli EXCEPT ![c] = r],
           r.open, ~r.closing, ~r.deleted,
           UNCHANGED <<due, firing, free, entered, phase>>,
           timers' \in SUBSET Timer, timers' \cap due = {}, WaitingIsSet'
    PROVE  Follow(C)
<1>1. SocketTypes'
  <2>0. cli \in [Files -> Client]
    BY DEF SocketInv, SocketTypes
  <2>1. cli' \in [Files -> Client]
    BY <2>0
  <2>2. /\ due' \in SUBSET Timer /\ firing' \in Timer \cup {NULL}
        /\ free' \in SUBSET Files /\ entered' \in BOOLEAN
        /\ phase' \in {"user", "trigger", "fire"}
    BY DEF SocketInv, SocketTypes
  <2>. QED
    BY <2>1, <2>2 DEF SocketTypes
<1>2. \A g \in Files \ {c} : Spares(g)
  BY DEF Spares
<1>3. \A g \in C \ {c} : Quiet(g)
  <2>1. \A g \in Files \ {c} : cli'[g] = cli[g]
    BY DEF SocketInv, SocketTypes
  <2>. QED
    BY <1>2, <2>1 DEF Quiet, SocketInv, ClientsInv, OneClient
<1>4. OneClient(c)'
  <2>1. cli'[c] = r /\ c \notin free'
    BY UsableIs DEF SocketInv, SocketTypes
  <2>. QED
    BY <2>1 DEF OneClient
<1>5. ClientsInv(C)'
  BY <1>3, <1>4, OthersQuiet
<1>6. [EpollNext]_epollVars
  BY DEF EpollNext
<1>7. Turns'
  <2>1. phase' # "user" => stage' = "app"
    BY AppStage DEF SocketInv, Turns
  <2>. QED
    BY <2>1 DEF SocketInv, Turns
<1>. QED
  BY <1>1, <1>2, <1>5, <1>6, <1>7 DEF Follow

LEMMA ClientProcs ==
    /\ \A d \in Dirs : ProcOf(d) \in Procs
    /\ "connect_callback" \in Procs
BY ClientAssumption DEF ProcOf

LEMMA AddIsApplication ==
    ASSUME NEW c \in Files, NEW d \in Dirs, NEW p \in Procs, EpollAddDir(c, d, p)
    PROVE  Application(c)
BY DEF Application, AddRead, AddWrite, Dirs

LEMMA DelIsApplication ==
    ASSUME NEW c \in Files, NEW d \in Dirs, EpollDelDir(c, d)
    PROVE  Application(c)
BY DEF Application, DelRead, DelWrite, Dirs

LEMMA AwaitFollows ==
    ASSUME NEW C \in SUBSET Files, SocketInv(C), NEW c \in C, NEW d \in Dirs,
           NEW timed \in BOOLEAN, Await(c, d, timed)
    PROVE  Follow(C)
<1> DEFINE sets == timed /\ d \notin cli[c].waiting
           r == [cli[c] EXCEPT !.waiting = IF sets THEN @ \cup {d} ELSE @,
                               !.awaiting = @ \cup {d}]
<1>1. /\ Usable(c) /\ cli[c].open
      /\ timers' = timers \cup {t \in {<<c, d>>} : sets}
      /\ cli' = [cli EXCEPT ![c] = r]
      /\ UNCHANGED <<due, firing, free, entered, phase>>
  BY DEF Await
<1>2. Application(c) \/ UNCHANGED epollVars
  BY ClientProcs, AddIsApplication DEF Await
<1>3. cli \in [Files -> Client] /\ cli[c] \in Client
  BY DEF SocketInv, SocketTypes
<1>4. /\ r \in Client /\ r.open = cli[c].open /\ r.closing = cli[c].closing
      /\ r.deleted = cli[c].deleted
      /\ r.waiting = IF sets THEN cli[c].waiting \cup {d} ELSE cli[c].waiting
  BY <1>3 DEF Client
<1>. HIDE DEF r
<1>5. timers' \in SUBSET Timer
  BY <1>1 DEF SocketInv, SocketTypes, Timer
<1>6. WaitingIsSet' /\ timers' \cap due = {}
  <2>1. WaitingIsSet /\ timers \cap due = {}
    BY DEF SocketInv, Turns
  <2>2. sets => <<c, d>> \notin timers \cup due
    BY <2>1 DEF WaitingIsSet
  <2>. QED
    BY <1>1, <1>3, <1>4, <2>1, <2>2 DEF WaitingIsSet
<1>7. ~cli[c].closing /\ ~cli[c].deleted
  BY <1>1, UsableIs
<1>. QED
  BY <1>1, <1>2, <1>4, <1>5, <1>6, <1>7, CallFollows

LEMMA ConnectAwaitFollows ==
    ASSUME NEW C \in SUBSET Files, SocketInv(C), NEW c \in C, NEW timed \in BOOLEAN,
           ConnectAwait(c, timed)
    PROVE  Follow(C)
<1> DEFINE r == [cli[c] EXCEPT !.open = TRUE,
                               !.waiting = IF timed THEN @ \cup {WRITE} ELSE @,
                               !.connecting = timed,
                               !.awaiting = @ \cup {WRITE}]
<1>1. /\ Usable(c)
      /\ timers' = timers \cup {t \in {<<c, WRITE>>} : timed}
      /\ cli' = [cli EXCEPT ![c] = r]
      /\ UNCHANGED <<due, firing, free, entered, phase>>
  BY DEF ConnectAwait
<1>2. Application(c)
  <2>1. EpollAddDir(c, WRITE, "connect_callback") /\ WRITE \in Dirs
    BY DEF ConnectAwait, Dirs
  <2>. QED
    BY <2>1, ClientProcs, AddIsApplication
<1>3. cli \in [Files -> Client] /\ cli[c] \in Client
  BY DEF SocketInv, SocketTypes
<1>4. /\ r \in Client /\ r.open /\ r.closing = cli[c].closing
      /\ r.deleted = cli[c].deleted
      /\ r.waiting = IF timed THEN cli[c].waiting \cup {WRITE} ELSE cli[c].waiting
  BY <1>3 DEF Client, Dirs
<1>. HIDE DEF r
<1>5. timers' \in SUBSET Timer
  BY <1>1 DEF SocketInv, SocketTypes, Timer, Dirs
<1>6. WaitingIsSet' /\ timers' \cap due = {}
  <2>1. WaitingIsSet /\ timers \cap due = {}
    BY DEF SocketInv, Turns
  <2>2. <<c, WRITE>> \notin due
    <3>1. ~cli[c].open /\ OneClient(c)
      BY DEF ConnectAwait, SocketInv, ClientsInv
    <3>. QED
      BY <2>1, <3>1 DEF OneClient, WaitingIsSet, Dirs
  <2>. QED
    BY <1>1, <1>3, <1>4, <2>1, <2>2 DEF WaitingIsSet
<1>7. ~cli[c].closing /\ ~cli[c].deleted
  BY <1>1, UsableIs
<1>. QED
  BY <1>1, <1>2, <1>4, <1>5, <1>6, <1>7, CallFollows

LEMMA DisableFollows ==
    ASSUME NEW C \in SUBSET Files, SocketInv(C), NEW c \in C, NEW S \in SUBSET Dirs,
           Usable(c), cli[c].open, Application(c),
           cli' = [cli EXCEPT ![c].awaiting = S],
           UNCHANGED loopVars
    PROVE  Follow(C)
<1> DEFINE r == [cli[c] EXCEPT !.awaiting = S]
<1>1. cli' = [cli EXCEPT ![c] = r] /\ UNCHANGED <<timers, due, firing, free, entered, phase>>
  BY DEF loopVars
<1>2. cli \in [Files -> Client] /\ cli[c] \in Client
  BY DEF SocketInv, SocketTypes
<1>3. /\ r \in Client /\ r.open = cli[c].open /\ r.closing = cli[c].closing
      /\ r.deleted = cli[c].deleted /\ r.waiting = cli[c].waiting
  BY <1>2 DEF Client
<1>. HIDE DEF r
<1>4. WaitingIsSet'
  BY <1>1, <1>2, <1>3 DEF SocketInv, Turns, WaitingIsSet
<1>5. timers' \in SUBSET Timer /\ timers' \cap due = {}
  BY <1>1 DEF SocketInv, SocketTypes, Turns
<1>6. ~cli[c].closing /\ ~cli[c].deleted
  BY UsableIs
<1>. QED
  BY <1>1, <1>3, <1>4, <1>5, <1>6, CallFollows

\* close_await: the registration is given up there and then.
LEMMA CloseAwaitFollows ==
    ASSUME NEW C \in SUBSET Files, SocketInv(C), NEW c \in C, CloseAwait(c)
    PROVE  Follow(C)
<1> DEFINE r == [cli[c] EXCEPT !.closing = TRUE, !.awaiting = {}]
<1>1. /\ Usable(c) /\ cli' = [cli EXCEPT ![c] = r]
      /\ free' = free \cup {c}
      /\ UNCHANGED <<timers, due, firing, entered, phase>>
      /\ IF cli[c].open THEN EpollDisable(c) ELSE UNCHANGED epollVars
  BY DEF CloseAwait
<1>2. cli \in [Files -> Client] /\ cli[c] \in Client
  BY DEF SocketInv, SocketTypes
<1>3. /\ r \in Client /\ r.open = cli[c].open /\ r.closing = TRUE
      /\ r.deleted = cli[c].deleted /\ r.waiting = cli[c].waiting
  BY <1>2 DEF Client
<1>. HIDE DEF r
<1>4. cli' \in [Files -> Client] /\ cli'[c] = r /\ \A g \in Files \ {c} : cli'[g] = cli[g]
  BY <1>1, <1>2, <1>3
<1>5. Application(c) \/ UNCHANGED epollVars
  BY <1>1 DEF Application
<1>6. \A g \in Files \ {c} : Spares(g)
  BY <1>5 DEF Spares
<1>7. OneClient(c)'
  <2>1. ~cli[c].deleted /\ OneClient(c)
    BY <1>1, UsableIs DEF SocketInv, ClientsInv
  <2>2. CASE cli[c].open
    <3>1. Idle(c)'
      BY <1>1, <2>2, DisableCleans DEF SocketInv
    <3>. QED
      BY <1>3, <1>4, <2>1, <2>2, <3>1 DEF OneClient
  <2>3. CASE ~cli[c].open
    <3>1. Gone(c)'
      BY <1>1, <2>1, <2>3 DEF OneClient, Gone, Idle, epollVars
    <3>. QED
      BY <1>3, <1>4, <2>1, <2>3, <3>1 DEF OneClient, Gone
  <2>. QED
    BY <2>2, <2>3
<1>8. \A g \in C \ {c} : Quiet(g)
  BY <1>1, <1>4, <1>6 DEF Quiet, SocketInv, ClientsInv, OneClient
<1>9. ClientsInv(C)'
  BY <1>1, <1>7, <1>8, OthersQuiet
<1>10. SocketTypes'
  BY <1>1, <1>4 DEF SocketInv, SocketTypes
<1>11. Turns'
  <2>1. WaitingIsSet'
    BY <1>1, <1>3, <1>4 DEF SocketInv, Turns, WaitingIsSet
  <2>2. stage' = stage
    BY <1>5, AppStage
  <2>. QED
    BY <1>1, <2>1, <2>2 DEF SocketInv, Turns
<1>12. [EpollNext]_epollVars
  BY <1>5 DEF EpollNext
<1>. QED
  BY <1>6, <1>9, <1>10, <1>11, <1>12 DEF Follow

LEMMA ApplicationFollows ==
    ASSUME NEW C \in SUBSET Files, SocketInv(C), NEW c \in C, ClientApplication(c)
    PROVE  Follow(C)
<1>0. cli \in [Files -> Client] /\ cli[c] \in Client
  BY DEF SocketInv, SocketTypes
<1>1. ASSUME NEW d \in Dirs, Disable(c, d) PROVE Follow(C)
  <2>1. cli' = [cli EXCEPT ![c].awaiting = cli[c].awaiting \ {d}]
    BY <1>1 DEF Disable
  <2>2. cli[c].awaiting \ {d} \in SUBSET Dirs
    BY <1>0 DEF Client
  <2>3. Application(c)
    BY <1>1, DelIsApplication DEF Disable
  <2>. QED
    BY <1>1, <2>1, <2>2, <2>3, DisableFollows DEF Disable
<1>2. ASSUME ReadWriteDisable(c) PROVE Follow(C)
  <2>1. Application(c)
    BY <1>2 DEF ReadWriteDisable, Application
  <2>2. /\ Usable(c) /\ cli[c].open /\ {} \in SUBSET Dirs
        /\ cli' = [cli EXCEPT ![c].awaiting = {}] /\ UNCHANGED loopVars
    BY <1>2 DEF ReadWriteDisable
  <2>. QED
    BY <2>1, <2>2, DisableFollows
<1>. QED
  BY <1>1, <1>2, AwaitFollows, ConnectAwaitFollows, CloseAwaitFollows DEF ClientApplication

-----------------------------------------------------------------------------
(***************************************************************************)
(* The callbacks and the loop.                                             *)
(***************************************************************************)

\* A step that spares every file and leaves the clients alone, but for what
\* StopTimer does to one.
LEMMA LoopFollows ==
    ASSUME NEW C \in SUBSET Files, SocketInv(C), SocketTypes', Turns',
           \A f \in Files : Spares(f), free' = free, firing' = firing,
           \A c \in C : /\ cli'[c].open = cli[c].open
                        /\ cli'[c].closing = cli[c].closing
                        /\ cli'[c].deleted = cli[c].deleted
                        /\ cli'[c].waiting \subseteq cli[c].waiting,
           [EpollNext]_epollVars
    PROVE  Follow(C)
<1>1. \A c \in C : Quiet(c)
  BY DEF Quiet, SocketInv, ClientsInv, OneClient
<1>2. ClientsInv(C)'
  BY <1>1, AllQuiet
<1>. QED
  BY <1>2 DEF Follow

\* Between the backend's events no timer is in hand.
LEMMA CallbackTurn ==
    ASSUME NEW C \in SUBSET Files, SocketInv(C), calls # <<>>
    PROVE  /\ phase = "user" /\ due = {} /\ firing = NULL /\ stage = "event_wait"
           /\ Head(calls).file \in Files
<1>1. calls \in Seq(Call) /\ stage = "event_wait"
  BY FileTypes DEF SocketInv, EpollInv, Dispatching
<1>2. Head(calls) \in Call
  BY <1>1
<1>. QED
  BY <1>1, <1>2 DEF SocketInv, SocketTypes, Turns, Call

\* What a callback does to the loop's timers and to the marks of its client.
Stops(c) ==
    \E r \in Client, S \in SUBSET Dirs :
        /\ cli' = [cli EXCEPT ![c] = r]
        /\ r.open = cli[c].open /\ r.closing = cli[c].closing
        /\ r.deleted = cli[c].deleted
        /\ r.waiting = cli[c].waiting \ S
        /\ timers' = timers \ {<<c, d>> : d \in S}

LEMMA StopTimerStops ==
    ASSUME SocketTypes, WaitingIsSet, NEW c \in Files, NEW d \in Dirs,
           NEW called \in BOOLEAN, StopTimer(c, d, called)
    PROVE  Stops(c)
<1> DEFINE r == [cli[c] EXCEPT !.expiring = @ \ {d}, !.waiting = @ \ {d},
                               !.awaiting = IF called THEN @ \ {d} ELSE @]
<1>1. cli' = [cli EXCEPT ![c] = r]
  BY DEF StopTimer
<1>2. cli[c] \in Client
  BY DEF SocketTypes
<1>3. /\ r \in Client /\ r.open = cli[c].open /\ r.closing = cli[c].closing
      /\ r.deleted = cli[c].deleted /\ r.waiting = cli[c].waiting \ {d}
  BY <1>2 DEF Client
<1>. HIDE DEF r
<1>4. timers' = timers \ {<<c, e>> : e \in {d}}
  BY DEF StopTimer, WaitingIsSet
<1>5. {d} \in SUBSET Dirs
  OBVIOUS
<1>. QED
  BY <1>1, <1>3, <1>4, <1>5 DEF Stops

LEMMA ConnectCallbackStops ==
    ASSUME SocketTypes, NEW c \in Files, ConnectCallback(c)
    PROVE  Stops(c)
<1>1. cli[c] \in Client
  BY DEF SocketTypes
<1>2. ASSUME NEW A \in SUBSET Dirs,
             cli' = [cli EXCEPT ![c].expiring = @ \ {WRITE},
                        ![c].waiting = IF cli[c].connecting THEN @ \ {WRITE} ELSE @,
                        ![c].connecting = FALSE, ![c].awaiting = A]
      PROVE  Stops(c)
  <2> DEFINE r == [cli[c] EXCEPT !.expiring = @ \ {WRITE},
                        !.waiting = IF cli[c].connecting THEN @ \ {WRITE} ELSE @,
                        !.connecting = FALSE, !.awaiting = A]
             S == {d \in {WRITE} : cli[c].connecting}
  <2>1. cli' = [cli EXCEPT ![c] = r]
    BY <1>2
  <2>2. /\ r \in Client /\ r.open = cli[c].open /\ r.closing = cli[c].closing
        /\ r.deleted = cli[c].deleted /\ r.waiting = cli[c].waiting \ S
    BY <1>1 DEF Client
  <2>. HIDE DEF r
  <2>3. timers' = timers \ {<<c, e>> : e \in S}
    BY DEF ConnectCallback
  <2>4. S \in SUBSET Dirs
    BY DEF Dirs
  <2>. HIDE DEF S
  <2>. QED
    BY <2>1, <2>2, <2>3, <2>4 DEF Stops
<1>3. /\ cli[c].awaiting \ {WRITE} \in SUBSET Dirs /\ {} \in SUBSET Dirs
  BY <1>1 DEF Client
<1>. QED
  BY <1>2, <1>3 DEF ConnectCallback

LEMMA CallbackFollows ==
    ASSUME NEW C \in SUBSET Files, SocketInv(C), Callback
    PROVE  Follow(C)
<1> DEFINE c == Head(calls).file
<1>1. /\ phase = "user" /\ due = {} /\ firing = NULL /\ stage = "event_wait"
      /\ c \in Files
  BY CallbackTurn DEF Callback
<1>2. /\ entered' = TRUE /\ UNCHANGED <<due, firing, free, phase>>
      /\ ReadCallback(c) \/ WriteCallback(c) \/ ConnectCallback(c)
  BY DEF Callback
<1>. HIDE DEF c
<1>3. SocketTypes /\ WaitingIsSet /\ cli \in [Files -> Client]
  BY DEF SocketInv, Turns, SocketTypes
<1>4. Stops(c)
  BY <1>1, <1>2, <1>3, StopTimerStops, ConnectCallbackStops
     DEF ReadCallback, WriteCallback, Dirs
<1>5. DelWrite(c) \/ EpollDisable(c) \/ UNCHANGED epollVars
  BY <1>2 DEF ReadCallback, WriteCallback, ConnectCallback
<1>6. \A f \in Files : Spares(f)
  BY <1>1, <1>5 DEF Spares, Application
<1>7. PICK r \in Client, S \in SUBSET Dirs :
        /\ cli' = [cli EXCEPT ![c] = r]
        /\ r.open = cli[c].open /\ r.closing = cli[c].closing
        /\ r.deleted = cli[c].deleted
        /\ r.waiting = cli[c].waiting \ S
        /\ timers' = timers \ {<<c, d>> : d \in S}
  BY <1>4 DEF Stops
<1>8. /\ cli' \in [Files -> Client] /\ cli'[c] = r
      /\ \A g \in Files \ {c} : cli'[g] = cli[g]
  BY <1>1, <1>3, <1>7
<1>9. SocketTypes'
  BY <1>2, <1>3, <1>7, <1>8 DEF SocketTypes
<1>10. stage' = stage
  BY <1>1, <1>5, AppStage DEF Application
<1>11. Turns'
  BY <1>1, <1>2, <1>3, <1>7, <1>8 DEF Turns, WaitingIsSet
<1>12. [EpollNext]_epollVars
  BY <1>1, <1>6, SparesIsStep
<1>. QED
  BY <1>2, <1>6, <1>7, <1>8, <1>9, <1>11, <1>12, LoopFollows

\* A step of the backend's loop that leaves the sockets alone.
LEMMA BackendFollows ==
    ASSUME NEW C \in SUBSET Files, SocketInv(C), Loop,
           UNCHANGED <<cli, timers, due, firing, free>>,
           entered' \in BOOLEAN, phase' \in {"user", "trigger", "fire"},
           phase' # "user" => stage' = "app", phase = "fire" => phase' = "fire"
    PROVE  Follow(C)
<1>1. SocketTypes' /\ Turns'
  BY DEF SocketInv, SocketTypes, Turns, WaitingIsSet
<1>2. (\A f \in Files : Spares(f)) /\ [EpollNext]_epollVars
  BY DEF Spares, EpollNext
<1>. QED
  BY <1>1, <1>2, LoopFollows

\* client_socket::close: the client was given up before, and what the kernel
\* loses with the descriptor is nothing.
LEMMA CloseFollows ==
    ASSUME NEW C \in SUBSET Files, SocketInv(C), NEW c \in Files, Close(c)
    PROVE  Follow(C) /\ UNCHANGED epollVars
<1> DEFINE r == [cli[c] EXCEPT !.waiting = {}, !.deleted = TRUE]
<1>1. /\ stage = "before_wait" /\ c \in free /\ free' = free \ {c}
      /\ timers' = timers \ {<<c, d>> : d \in cli[c].waiting}
      /\ cli' = [cli EXCEPT ![c] = r]
      /\ kern' = [kern EXCEPT ![c] = NoEntry] /\ entered' = TRUE
      /\ UNCHANGED <<vars, fdcount, batch, calls, owed, due, firing, phase>>
  BY DEF Close
<1>2. cli \in [Files -> Client] /\ cli[c] \in Client
  BY DEF SocketInv, SocketTypes
<1>3. /\ r \in Client /\ r.open = cli[c].open /\ r.closing = cli[c].closing
      /\ r.deleted = TRUE /\ r.waiting = {}
  BY <1>2 DEF Client
<1>. HIDE DEF r
<1>4. cli' \in [Files -> Client] /\ cli'[c] = r /\ \A g \in Files \ {c} : cli'[g] = cli[g]
  BY <1>1, <1>2, <1>3
<1>5. c \in C /\ OneClient(c) /\ cli[c].closing /\ Idle(c)
  BY <1>1 DEF SocketInv, ClientsInv, OneClient
<1>6. UNCHANGED epollVars
  <2>1. kern' = kern
    BY <1>1, <1>5, FileTypes DEF SocketInv, Idle
  <2>. QED
    BY <1>1, <2>1 DEF epollVars, vars
<1>7. phase = "user" /\ due = {} /\ firing = NULL /\ calls = <<>> /\ batch = {}
  BY <1>1 DEF SocketInv, SocketTypes, Turns, EpollInv, Dispatching
<1>8. OneClient(c)'
  <2>1. Gone(c)'
    BY <1>5, <1>6, <1>7 DEF Gone, Idle, epollVars
  <2>. QED
    BY <1>1, <1>3, <1>4, <1>5, <1>7, <2>1 DEF OneClient, Gone
<1>9. \A g \in Files : Spares(g)
  BY <1>6 DEF Spares
<1>10. \A g \in C \ {c} : Quiet(g)
  BY <1>1, <1>4, <1>9 DEF Quiet, SocketInv, ClientsInv, OneClient
<1>11. ClientsInv(C)'
  BY <1>1, <1>5, <1>8, <1>10, OthersQuiet
<1>12. SocketTypes'
  BY <1>1, <1>4 DEF SocketInv, SocketTypes
<1>13. Turns'
  <2>1. stage' = stage
    BY <1>6 DEF epollVars
  <2>2. WaitingIsSet
    BY DEF SocketInv, Turns
  <2>3. WaitingIsSet'
    BY <1>1, <1>3, <1>4, <1>7, <2>2 DEF WaitingIsSet
  <2>. QED
    BY <1>1, <1>7, <2>1, <2>3 DEF SocketInv, Turns
<1>. QED
  BY <1>6, <1>9, <1>11, <1>12, <1>13 DEF Follow

\* The steps of the timers leave the backend alone.
LEMMA StillSpares ==
    ASSUME UNCHANGED epollVars
    PROVE  (\A f \in Files : Spares(f)) /\ [EpollNext]_epollVars /\ stage' = stage
BY DEF Spares, epollVars

LEMMA TriggerFollows ==
    ASSUME NEW C \in SUBSET Files, SocketInv(C), TriggerTimers
    PROVE  Follow(C)
<1>1. /\ phase = "trigger" /\ due' \in SUBSET timers /\ timers' = timers \ due'
      /\ phase' = "fire" /\ UNCHANGED <<epollVars, cli, firing, free, entered>>
  BY DEF TriggerTimers
<1>2. due = {} /\ stage = "app" /\ WaitingIsSet
  BY <1>1 DEF SocketInv, Turns
<1>3. SocketTypes'
  BY <1>1 DEF SocketInv, SocketTypes
<1>4. (\A f \in Files : Spares(f)) /\ [EpollNext]_epollVars /\ stage' = stage
  BY <1>1, StillSpares
<1>5. Turns'
  <2>1. WaitingIsSet'
    BY <1>1, <1>2 DEF WaitingIsSet
  <2>2. timers' \cap due' = {}
    BY <1>1
  <2>. QED
    BY <1>1, <1>2, <1>4, <2>1, <2>2 DEF SocketInv, Turns
<1>. QED
  BY <1>1, <1>3, <1>4, <1>5, LoopFollows

LEMMA OnTimerFollows ==
    ASSUME NEW C \in SUBSET Files, SocketInv(C), NEW t \in due, OnTimer(t[1], t[2])
    PROVE  Follow(C)
<1>0. t \in Timer
  BY DEF SocketInv, SocketTypes
<1>1. PICK c \in Files, d \in Dirs : t = <<c, d>>
  BY <1>0 DEF Timer
<1> DEFINE r == [cli[c] EXCEPT !.waiting = @ \ {d}, !.expiring = @ \cup {d},
                               !.connecting = @ /\ d = READ, !.awaiting = @ \ {d}]
<1>2. /\ phase = "fire" /\ firing = NULL /\ <<c, d>> \in due
      /\ due' = due \ {<<c, d>>} /\ firing' = <<c, d>>
      /\ cli' = [cli EXCEPT ![c] = r]
      /\ UNCHANGED <<epollVars, timers, free, entered, phase>>
  BY <1>1 DEF OnTimer
<1>3. cli \in [Files -> Client] /\ cli[c] \in Client
  BY DEF SocketInv, SocketTypes
<1>4. /\ r \in Client /\ r.open = cli[c].open /\ r.closing = cli[c].closing
      /\ r.deleted = cli[c].deleted /\ r.waiting = cli[c].waiting \ {d}
  BY <1>3 DEF Client
<1>. HIDE DEF r
<1>5. cli' \in [Files -> Client] /\ cli'[c] = r /\ \A g \in Files \ {c} : cli'[g] = cli[g]
  BY <1>2, <1>3, <1>4
<1>6. (\A f \in Files : Spares(f)) /\ [EpollNext]_epollVars /\ stage' = stage
  BY <1>2, StillSpares
<1>7. WaitingIsSet /\ timers \cap due = {}
  BY DEF SocketInv, Turns
<1>8. \A g \in C : cli[g].deleted => g # c
  BY <1>2, <1>7 DEF SocketInv, ClientsInv, OneClient, WaitingIsSet
<1>9. \A g \in C : Quiet(g)
  <2> SUFFICES ASSUME NEW g \in C PROVE Quiet(g)
    OBVIOUS
  <2>1. cli[g].deleted => \A e \in Dirs : firing' # <<g, e>>
    BY <1>2, <1>8
  <2>2. CASE g = c
    BY <1>2, <1>4, <1>5, <1>6, <2>1, <2>2 DEF Quiet
  <2>3. CASE g # c
    BY <1>2, <1>5, <1>6, <2>1, <2>3 DEF Quiet
  <2>. QED
    BY <2>2, <2>3
<1>10. ClientsInv(C)'
  BY <1>2, <1>9, AllQuiet
<1>11. SocketTypes'
  BY <1>0, <1>1, <1>2, <1>5 DEF SocketInv, SocketTypes
<1>12. Turns'
  <2>1. WaitingIsSet'
    BY <1>2, <1>4, <1>5, <1>7 DEF WaitingIsSet
  <2>. QED
    BY <1>2, <1>6, <1>7, <2>1 DEF SocketInv, Turns
<1>. QED
  BY <1>6, <1>10, <1>11, <1>12 DEF Follow

LEMMA OnTimerReturnsFollows ==
    ASSUME NEW C \in SUBSET Files, SocketInv(C), OnTimerReturns
    PROVE  Follow(C)
<1>0. firing \in Timer
  BY DEF SocketInv, SocketTypes, OnTimerReturns
<1>1. PICK c \in Files, d \in Dirs : firing = <<c, d>>
  BY <1>0 DEF Timer
<1> DEFINE r == [cli[c] EXCEPT !.expiring = @ \ {d}]
<1>2. /\ cli' = [cli EXCEPT ![c] = r] /\ firing # NULL /\ firing' = NULL
      /\ UNCHANGED <<epollVars, timers, due, free, entered, phase>>
  BY <1>1 DEF OnTimerReturns
<1>3. cli \in [Files -> Client] /\ cli[c] \in Client
  BY DEF SocketInv, SocketTypes
<1>4. /\ r \in Client /\ r.open = cli[c].open /\ r.closing = cli[c].closing
      /\ r.deleted = cli[c].deleted /\ r.waiting = cli[c].waiting
  BY <1>3 DEF Client
<1>. HIDE DEF r
<1>5. cli' \in [Files -> Client] /\ cli'[c] = r /\ \A g \in Files \ {c} : cli'[g] = cli[g]
  BY <1>2, <1>3, <1>4
<1>6. (\A f \in Files : Spares(f)) /\ [EpollNext]_epollVars /\ stage' = stage
  BY <1>2, StillSpares
<1>7. \A g \in C : Quiet(g)
  BY <1>2, <1>4, <1>5, <1>6 DEF Quiet
<1>8. ClientsInv(C)'
  BY <1>2, <1>7, AllQuiet
<1>9. SocketTypes'
  BY <1>2, <1>5 DEF SocketInv, SocketTypes
<1>10. Turns'
  BY <1>2, <1>4, <1>5, <1>6 DEF SocketInv, Turns, WaitingIsSet
<1>. QED
  BY <1>6, <1>8, <1>9, <1>10 DEF Follow

LEMMA WaitEndFollows ==
    ASSUME NEW C \in SUBSET Files, SocketInv(C), WaitEnd
    PROVE  Follow(C)
<1>1. /\ phase' = "user" /\ due = {} /\ firing = NULL
      /\ UNCHANGED <<epollVars, cli, timers, due, firing, free, entered>>
  BY DEF WaitEnd
<1>2. SocketTypes' /\ Turns'
  BY <1>1 DEF SocketInv, SocketTypes, Turns, WaitingIsSet
<1>3. (\A f \in Files : Spares(f)) /\ [EpollNext]_epollVars
  BY <1>1, StillSpares
<1>. QED
  BY <1>1, <1>2, <1>3, LoopFollows

\* The turns of the loop that are nio_event_wait2's.
LEMMA WaitFollows ==
    ASSUME NEW C \in SUBSET Files, SocketInv(C)
    PROVE  /\ ClientWaitBegin => Follow(C)
           /\ ClientPrepare => Follow(C)
           /\ ClientEpollWait => Follow(C)
           /\ \A r \in batch : ClientPick(r) => Follow(C)
           /\ CallbackReturns => Follow(C)
           /\ ClientEpollReturn => Follow(C)
<1>0. SocketTypes /\ Turns /\ phase \in {"user", "trigger", "fire"}
  BY DEF SocketInv, SocketTypes
<1>1. ASSUME ClientWaitBegin PROVE Follow(C)
  <2>1. /\ Loop /\ phase = "user"
        /\ UNCHANGED <<cli, timers, due, firing, free, entered, phase>>
    BY <1>1 DEF ClientWaitBegin, Loop, loopVars
  <2>. QED
    BY <1>0, <2>1, BackendFollows DEF SocketTypes
<1>2. ASSUME ClientPrepare PROVE Follow(C)
  <2>1. /\ Loop /\ stage' = stage
        /\ UNCHANGED <<cli, timers, due, firing, free, entered, phase>>
    BY <1>2 DEF ClientPrepare, Loop, loopVars, EpollPrepare, PrepareFe
  <2>. QED
    BY <1>0, <2>1, BackendFollows DEF SocketTypes, Turns
<1>3. ASSUME ClientEpollWait PROVE Follow(C)
  <2>1. /\ Loop /\ stage = "before_wait" /\ entered' = FALSE
        /\ UNCHANGED <<cli, timers, due, firing, free, phase>>
    BY <1>3 DEF ClientEpollWait, Loop, EpollWait, EventWait
  <2>. QED
    BY <1>0, <2>1, BackendFollows DEF SocketTypes, Turns
<1>4. ASSUME NEW r \in batch, ClientPick(r) PROVE Follow(C)
  <2>1. /\ Loop /\ stage' = stage
        /\ UNCHANGED <<cli, timers, due, firing, free, entered, phase>>
    BY <1>4 DEF ClientPick, Loop, loopVars, Pick, vars
  <2>. QED
    BY <1>0, <2>1, BackendFollows DEF SocketTypes, Turns
<1>5. ASSUME CallbackReturns PROVE Follow(C)
  <2>1. /\ Loop /\ stage' = stage /\ entered' = FALSE
        /\ UNCHANGED <<cli, timers, due, firing, free, phase>>
    BY <1>5 DEF CallbackReturns, Loop, CallReturns, vars
  <2>. QED
    BY <1>0, <2>1, BackendFollows DEF SocketTypes, Turns
<1>6. ASSUME ClientEpollReturn PROVE Follow(C)
  <2>1. /\ Loop /\ stage = "event_wait" /\ stage' = "app" /\ phase' = "trigger"
        /\ UNCHANGED <<cli, timers, due, firing, free, entered>>
    BY <1>6 DEF ClientEpollReturn, Loop, EpollReturn, WaitReturn
  <2>2. phase = "user"
    BY <1>0, <2>1 DEF Turns
  <2>. QED
    BY <1>0, <2>1, <2>2, BackendFollows DEF SocketTypes
<1>. QED
  BY <1>1, <1>2, <1>3, <1>4, <1>5, <1>6

LEMMA ClientFollows ==
    ASSUME NEW C \in SUBSET Files, SocketInv(C),
           ClientLoop \/ (\E c \in C : ClientApplication(c)) \/ UNCHANGED clientVars
    PROVE  Follow(C)
<1>1. CASE UNCHANGED clientVars
  <2>1. UNCHANGED <<epollVars, cli, timers, due, firing, free, entered, phase>>
    BY <1>1 DEF clientVars, loopVars
  <2>2. SocketTypes'
    BY <2>1 DEF SocketInv, SocketTypes
  <2>3. (\A f \in Files : Spares(f)) /\ [EpollNext]_epollVars /\ stage' = stage
    BY <2>1, StillSpares
  <2>4. Turns'
    BY <2>1, <2>3 DEF SocketInv, Turns, WaitingIsSet
  <2>. QED
    BY <2>1, <2>2, <2>3, <2>4, LoopFollows
<1>2. ASSUME NEW t \in due, OnTimer(t[1], t[2]) PROVE Follow(C)
  BY <1>2, OnTimerFollows
<1>3. ASSUME NEW c \in Files, Close(c) PROVE Follow(C)
  BY <1>3, CloseFollows
<1>4. ASSUME NEW c \in C, ClientApplication(c) PROVE Follow(C)
  BY <1>4, ApplicationFollows
<1>5. CASE ClientLoop
  BY <1>2, <1>3, <1>5, WaitFollows, CallbackFollows, TriggerFollows,
     OnTimerReturnsFollows, WaitEndFollows DEF ClientLoop
<1>. QED
  BY <1>1, <1>4, <1>5

LEMMA FollowKeeps ==
    ASSUME NEW C \in SUBSET Files, SocketInv(C), Follow(C)
    PROVE  SocketInv(C)'
BY EpollInvStep, CleanStep DEF SocketInv, Follow

LEMMA SocketStart ==
    ASSUME NEW C \in SUBSET Files, ClientInit
    PROVE  /\ SocketInv(C)
           /\ \A f \in Files : Gone(f) /\ cli[f].awaiting = {} /\ ~cli[f].deleted
<1>1. EpollInv
  BY EpollInvInit DEF ClientInit
<1>2. \A f \in Files : Gone(f)
  BY DEF ClientInit, EpollInit, Init, Gone, Idle
<1> DEFINE New == {[open |-> b, waiting |-> {}, connecting |-> FALSE,
                    expiring |-> {}, closing |-> FALSE,
                    deleted |-> FALSE, awaiting |-> {}] : b \in BOOLEAN}
<1>a. cli \in [Files -> New]
  BY DEF ClientInit
<1>b. ASSUME NEW r \in New
      PROVE  /\ r \in Client /\ ~r.closing /\ ~r.deleted
             /\ r.waiting = {} /\ r.awaiting = {}
  <2>1. PICK b \in BOOLEAN :
           r = [open |-> b, waiting |-> {}, connecting |-> FALSE, expiring |-> {},
                closing |-> FALSE, deleted |-> FALSE, awaiting |-> {}]
    OBVIOUS
  <2>2. {} \in SUBSET Dirs
    OBVIOUS
  <2>. QED
    BY <2>1, <2>2 DEF Client
<1>. HIDE DEF New
<1>3. \A f \in Files :
         /\ cli[f] \in Client /\ ~cli[f].closing /\ ~cli[f].deleted
         /\ cli[f].waiting = {} /\ cli[f].awaiting = {}
  BY <1>a, <1>b
<1>4. cli \in [Files -> Client]
  BY <1>a, <1>b
<1>5. /\ timers = {} /\ due = {} /\ firing = NULL /\ free = {}
      /\ entered = FALSE /\ phase = "user"
  BY DEF ClientInit
<1>6. SocketTypes
  BY <1>4, <1>5 DEF SocketTypes
<1>7. Turns
  BY <1>3, <1>5 DEF Turns, WaitingIsSet
<1>8. ClientsInv(C)
  BY <1>2, <1>3, <1>5 DEF ClientsInv, OneClient
<1>. QED
  BY <1>1, <1>2, <1>3, <1>6, <1>7, <1>8 DEF SocketInv, Clean, Gone, Idle

-----------------------------------------------------------------------------
(***************************************************************************)
(* The theorems about clients.                                             *)
(***************************************************************************)
THEOREM ClientInvariant == ClientSpec => []SocketInv(Files)
<1>1. ClientInit => SocketInv(Files)
  BY SocketStart
<1>2. SocketInv(Files) /\ [ClientNext]_clientVars => SocketInv(Files)'
  BY ClientFollows, FollowKeeps DEF ClientNext
<1>. QED
  BY <1>1, <1>2, PTL DEF ClientSpec

\* Clients with their timers, handlers and closing list only ever do to the
\* event core what it allows: whatever is proved of the loop on epoll holds
\* beneath them.
THEOREM ClientOnEpoll == ClientSpec => EpollSpec
<1>1. ClientInit => EpollInit
  BY DEF ClientInit
<1>2. SocketInv(Files) /\ [ClientNext]_clientVars => [EpollNext]_epollVars
  BY ClientFollows DEF ClientNext, Follow
<1>. QED
  BY <1>1, <1>2, ClientInvariant, PTL DEF ClientSpec, EpollSpec

\* A client's marks and the loop's timers agree: close() and the callbacks,
\* which go by the mark, leave no timer behind and ask for none that is gone.
THEOREM WaitingIsSetAlways == ClientSpec => []WaitingIsSet
<1>1. SocketInv(Files) => WaitingIsSet
  BY DEF SocketInv, Turns
<1>. QED
  BY <1>1, ClientInvariant, PTL

LEMMA NothingRefers ==
    ASSUME NEW C \in SUBSET Files, SocketInv(C), NEW c \in C, cli[c].deleted
    PROVE  /\ \A t \in timers \cup due \cup {firing} : t # NULL => t[1] # c
           /\ c \notin free \cup events
           /\ mask[c] = {} /\ ~kern[c].reg
           /\ \A r \in batch : r.file # c
           /\ \A i \in DOMAIN calls : calls[i].file # c
<1>1. OneClient(c) /\ SocketTypes /\ WaitingIsSet
  BY DEF SocketInv, ClientsInv, Turns
<1>2. ASSUME NEW t \in timers \cup due \cup {firing}, t # NULL PROVE t[1] # c
  <2>1. t \in Timer
    BY <1>1, <1>2 DEF SocketTypes
  <2>2. PICK g \in Files, d \in Dirs : t = <<g, d>>
    BY <2>1 DEF Timer
  <2>3. CASE t \in timers \cup due
    BY <1>1, <2>2, <2>3 DEF OneClient, WaitingIsSet
  <2>4. CASE t = firing
    BY <1>1, <1>2, <2>2, <2>4 DEF OneClient
  <2>. QED
    BY <2>3, <2>4
<1>3. ~kern[c].reg
  BY <1>1, NoEntryIsEntry DEF OneClient, Idle
<1>. QED
  BY <1>1, <1>2, <1>3 DEF OneClient, Gone, Idle

\* When a client is deleted in its on_close handler nothing refers to it any
\* more: no timer, no list of the loop, nothing in the kernel, no event or
\* callback in flight.
THEOREM NothingDanglingAlways == ClientSpec => []NothingDangling
<1>1. SocketInv(Files) => NothingDangling
  BY NothingRefers DEF NothingDangling
<1>. QED
  BY <1>1, ClientInvariant, PTL

-----------------------------------------------------------------------------
(***************************************************************************)
(* What clients await.                                                     *)
(***************************************************************************)

\* In the level-triggered mode the core is told of everything a client awaits;
\* nothing is awaited or deleted where no client is.
AwaitInv(C) ==
    /\ ~Oneshot => \A c \in C : cli[c].awaiting \subseteq wanted[c]
    /\ \A f \in Files \ C : cli[f].awaiting = {} /\ ~cli[f].deleted

\* A step that asks nothing of the core for the file.
LEMMA WantedStays ==
    ASSUME EpollInv, NEW f \in Files,
           Loop \/ (\E g \in Files \ {f} : Application(g)) \/ UNCHANGED epollVars
    PROVE  wanted'[f] = wanted[f] /\ flags' = flags
<1>1. wanted \in [Files -> SUBSET Dirs]
  BY DEF EpollInv, EpollTypeOK, TypeOK
<1>2. ASSUME NEW g \in Files \ {f}, Application(g)
      PROVE  wanted'[f] = wanted[f] /\ flags' = flags
  BY <1>1, <1>2 DEF Application, AddRead, AddWrite, DelRead, DelWrite, EpollAddDir,
     EpollDelDir, EpollDisable, AddRefused, AddFe, DelFe, DelReadWriteFe
<1>3. CASE Loop
  BY <1>3 DEF Loop, EpollPrepare, PrepareFe, EpollSteps, WaitBegin, PrepareEnd,
     EpollWait, EventWait, Pick, CallReturns, EpollReturn, WaitReturn, vars
<1>4. CASE UNCHANGED epollVars
  BY <1>4 DEF epollVars
<1>. QED
  BY <1>2, <1>3, <1>4

\* An addition to a client's descriptor, which is a socket, is not turned down.
LEMMA AddWants ==
    ASSUME EpollInv, NEW c \in Files, NEW d \in Dirs, NEW p, EpollAddDir(c, d, p)
    PROVE  wanted'[c] = wanted[c] \cup {d} /\ flags' = flags
<1>1. wanted \in [Files -> SUBSET Dirs]
  BY DEF EpollInv, EpollTypeOK, TypeOK
<1>2. ~AddRefused(c, d)
  BY ClientAssumption DEF AddRefused, CheckFd
<1>. QED
  BY <1>1, <1>2 DEF EpollAddDir, AddFe

LEMMA GivesUp ==
    ASSUME EpollInv, NEW c \in Files
    PROVE  /\ \A d \in Dirs : EpollDelDir(c, d) =>
                 wanted'[c] = wanted[c] \ {d} /\ flags' = flags
           /\ EpollDisable(c) => wanted'[c] = {} /\ flags' = flags
<1>1. wanted \in [Files -> SUBSET Dirs]
  BY DEF EpollInv, EpollTypeOK, TypeOK
<1>. QED
  BY <1>1 DEF EpollDelDir, EpollDisable, DelFe, DelReadWriteFe

\* A step that makes no client await more and asks the core to forget nothing.
LEMMA AwaitLess ==
    ASSUME NEW C \in SUBSET Files, AwaitInv(C),
           \A f \in Files : /\ cli'[f].awaiting \subseteq cli[f].awaiting
                            /\ f \notin C => cli'[f].deleted = cli[f].deleted
                            /\ wanted'[f] = wanted[f],
           flags' = flags
    PROVE  AwaitInv(C)'
BY DEF AwaitInv, Oneshot

\* A step about one client.
LEMMA AwaitByClient ==
    ASSUME NEW C \in SUBSET Files, SocketInv(C), AwaitInv(C), NEW c \in Files,
           Application(c) \/ UNCHANGED epollVars, flags' = flags,
           \A g \in Files \ {c} : cli'[g] = cli[g],
           c \in C /\ ~Oneshot => cli'[c].awaiting \subseteq wanted'[c],
           c \notin C => /\ cli'[c].awaiting \subseteq cli[c].awaiting
                         /\ cli'[c].deleted = cli[c].deleted
    PROVE  AwaitInv(C)'
<1>1. \A g \in Files \ {c} : wanted'[g] = wanted[g]
  BY WantedStays DEF SocketInv
<1>. QED
  BY <1>1 DEF AwaitInv, Oneshot

\* The callback of a direction ends the wait for it; a failed connect gives
\* both directions up.
LEMMA AwaitCallback ==
    ASSUME NEW C \in SUBSET Files, SocketInv(C), AwaitInv(C), Callback
    PROVE  AwaitInv(C)'
<1> DEFINE c == Head(calls).file
<1>1. EpollInv /\ cli \in [Files -> Client] /\ c \in Files
  BY CallbackTurn DEF Callback, SocketInv, SocketTypes
<1>2. ReadCallback(c) \/ WriteCallback(c) \/ ConnectCallback(c)
  BY DEF Callback
<1>. HIDE DEF c
<1>3. cli[c] \in Client
  BY <1>1
<1>4. ASSUME NEW d \in Dirs, NEW called \in BOOLEAN, StopTimer(c, d, called),
             UNCHANGED epollVars
      PROVE  AwaitInv(C)'
  <2>1. /\ cli'[c].awaiting \subseteq cli[c].awaiting
        /\ cli'[c].deleted = cli[c].deleted
        /\ \A g \in Files \ {c} : cli'[g] = cli[g]
    BY <1>1, <1>3, <1>4 DEF StopTimer, Client
  <2>2. \A f \in Files : /\ cli'[f].awaiting \subseteq cli[f].awaiting
                         /\ cli'[f].deleted = cli[f].deleted
    BY <2>1
  <2>. QED
    BY <1>4, <2>2, AwaitLess DEF epollVars
<1>5. CASE ReadCallback(c) \/ WriteCallback(c)
  BY <1>4, <1>5 DEF ReadCallback, WriteCallback, Dirs
<1>6. ASSUME NEW A, A \subseteq cli[c].awaiting, Application(c),
             flags' = flags, c \in C /\ ~Oneshot => A \subseteq wanted'[c],
             cli' = [cli EXCEPT ![c].expiring = @ \ {WRITE},
                        ![c].waiting = IF cli[c].connecting THEN @ \ {WRITE} ELSE @,
                        ![c].connecting = FALSE, ![c].awaiting = A]
      PROVE  AwaitInv(C)'
  <2>1. /\ cli'[c].awaiting = A /\ cli'[c].deleted = cli[c].deleted
        /\ \A g \in Files \ {c} : cli'[g] = cli[g]
    BY <1>1, <1>3, <1>6 DEF Client
  <2>. QED
    BY <1>1, <1>6, <2>1, AwaitByClient
<1>7. CASE ConnectCallback(c)
  <2>1. DelWrite(c) => /\ flags' = flags /\ Application(c)
                       /\ wanted'[c] = wanted[c] \ {WRITE}
    BY <1>1, GivesUp DEF DelWrite, Application, Dirs
  <2>2. EpollDisable(c) => flags' = flags /\ Application(c)
    BY <1>1, GivesUp DEF Application
  <2>3. c \in C /\ ~Oneshot => cli[c].awaiting \subseteq wanted[c]
    BY DEF AwaitInv
  <2>4. CASE /\ DelWrite(c)
             /\ cli' = [cli EXCEPT ![c].expiring = @ \ {WRITE},
                        ![c].waiting = IF cli[c].connecting THEN @ \ {WRITE} ELSE @,
                        ![c].connecting = FALSE,
                        ![c].awaiting = cli[c].awaiting \ {WRITE}]
    <3> DEFINE A == cli[c].awaiting \ {WRITE}
    <3>1. A \subseteq cli[c].awaiting /\ (c \in C /\ ~Oneshot => A \subseteq wanted'[c])
      BY <2>1, <2>3, <2>4
    <3>. QED
      BY <1>6, <2>1, <2>4, <3>1
  <2>5. CASE /\ EpollDisable(c)
             /\ cli' = [cli EXCEPT ![c].expiring = @ \ {WRITE},
                        ![c].waiting = IF cli[c].connecting THEN @ \ {WRITE} ELSE @,
                        ![c].connecting = FALSE, ![c].awaiting = {}]
    <3> DEFINE A == {}
    <3>1. A \subseteq cli[c].awaiting /\ A \subseteq wanted'[c]
      OBVIOUS
    <3>2. cli' = [cli EXCEPT ![c].expiring = @ \ {WRITE},
                        ![c].waiting = IF cli[c].connecting THEN @ \ {WRITE} ELSE @,
                        ![c].connecting = FALSE, ![c].awaiting = A]
      BY <2>5
    <3>. HIDE DEF A
    <3>. QED
      BY <1>6, <2>2, <2>5, <3>1, <3>2
  <2>. QED
    BY <1>7, <2>4, <2>5 DEF ConnectCallback
<1>. QED
  BY <1>2, <1>5, <1>7

LEMMA AwaitApplication ==
    ASSUME NEW C \in SUBSET Files, SocketInv(C), AwaitInv(C), NEW c \in C,
           ClientApplication(c)
    PROVE  AwaitInv(C)'
<1>1. EpollInv /\ cli \in [Files -> Client] /\ cli[c] \in Client
  BY DEF SocketInv, SocketTypes
<1>2. ~Oneshot => cli[c].awaiting \subseteq wanted[c]
  BY DEF AwaitInv
<1>3. ASSUME Application(c) \/ UNCHANGED epollVars, flags' = flags,
             \A g \in Files \ {c} : cli'[g] = cli[g],
             ~Oneshot => cli'[c].awaiting \subseteq wanted'[c]
      PROVE  AwaitInv(C)'
  BY <1>3, AwaitByClient
<1>4. ASSUME NEW d \in Dirs, NEW timed \in BOOLEAN, Await(c, d, timed)
      PROVE  AwaitInv(C)'
  <2>1. /\ cli'[c].awaiting = cli[c].awaiting \cup {d}
        /\ \A g \in Files \ {c} : cli'[g] = cli[g]
    BY <1>1, <1>4 DEF Await, Client
  <2>2. CASE EpollAddDir(c, d, ProcOf(d))
    <3>1. wanted'[c] = wanted[c] \cup {d} /\ flags' = flags /\ Application(c)
      BY <1>1, <2>2, AddWants, ClientProcs, AddIsApplication
    <3>. QED
      BY <1>2, <1>3, <2>1, <3>1
  <2>3. CASE UNCHANGED epollVars /\ Oneshot
    <3>1. flags' = flags
      BY <2>3 DEF epollVars
    <3>. QED
      BY <1>3, <2>1, <2>3, <3>1
  <2>. QED
    BY <1>4, <2>2, <2>3 DEF Await, Skips
<1>5. ASSUME NEW timed \in BOOLEAN, ConnectAwait(c, timed) PROVE AwaitInv(C)'
  <2>1. /\ cli'[c].awaiting = cli[c].awaiting \cup {WRITE}
        /\ \A g \in Files \ {c} : cli'[g] = cli[g]
    BY <1>1, <1>5 DEF ConnectAwait, Client
  <2>2. EpollAddDir(c, WRITE, "connect_callback") /\ WRITE \in Dirs
    BY <1>5 DEF ConnectAwait, Dirs
  <2>3. wanted'[c] = wanted[c] \cup {WRITE} /\ flags' = flags /\ Application(c)
    BY <1>1, <2>2, AddWants, ClientProcs, AddIsApplication
  <2>. QED
    BY <1>2, <1>3, <2>1, <2>3
<1>6. ASSUME NEW d \in Dirs, Disable(c, d) PROVE AwaitInv(C)'
  <2>1. /\ cli'[c].awaiting = cli[c].awaiting \ {d}
        /\ \A g \in Files \ {c} : cli'[g] = cli[g]
    BY <1>1, <1>6 DEF Disable, Client
  <2>2. wanted'[c] = wanted[c] \ {d} /\ flags' = flags /\ Application(c)
    BY <1>1, <1>6, GivesUp, DelIsApplication DEF Disable
  <2>. QED
    BY <1>2, <1>3, <2>1, <2>2
<1>7. ASSUME ReadWriteDisable(c) \/ CloseAwait(c) PROVE AwaitInv(C)'
  <2>1. cli'[c].awaiting = {} /\ \A g \in Files \ {c} : cli'[g] = cli[g]
    BY <1>1, <1>7 DEF ReadWriteDisable, CloseAwait, Client
  <2>2. EpollDisable(c) \/ UNCHANGED epollVars
    BY <1>7 DEF ReadWriteDisable, CloseAwait
  <2>3. flags' = flags /\ (Application(c) \/ UNCHANGED epollVars)
    BY <1>1, <2>2, GivesUp DEF Application, epollVars
  <2>. QED
    BY <1>3, <2>1, <2>3
<1>. QED
  BY <1>4, <1>5, <1>6, <1>7 DEF ClientApplication

LEMMA AwaitStep ==
    ASSUME NEW C \in SUBSET Files, SocketInv(C), AwaitInv(C),
           ClientLoop \/ (\E c \in C : ClientApplication(c)) \/ UNCHANGED clientVars
    PROVE  AwaitInv(C)'
<1>1. EpollInv /\ cli \in [Files -> Client]
  BY DEF SocketInv, SocketTypes
<1>2. ASSUME Loop \/ UNCHANGED epollVars,
             \A f \in Files : /\ cli'[f].awaiting \subseteq cli[f].awaiting
                              /\ f \notin C => cli'[f].deleted = cli[f].deleted
      PROVE  AwaitInv(C)'
  <2>1. \A f \in Files : wanted'[f] = wanted[f] /\ flags' = flags
    BY <1>1, <1>2, WantedStays
  <2>2. CASE Files = {}
    BY <2>2 DEF AwaitInv
  <2>. QED
    BY <1>2, <2>1, <2>2, AwaitLess
<1>3. CASE \/ ClientWaitBegin \/ ClientPrepare \/ ClientEpollWait \/ CallbackReturns
           \/ ClientEpollReturn \/ TriggerTimers \/ WaitEnd
           \/ \E r \in batch : ClientPick(r)
           \/ UNCHANGED clientVars
  <2>1. (Loop \/ UNCHANGED epollVars) /\ cli' = cli
    BY <1>3 DEF ClientWaitBegin, ClientPrepare, ClientEpollWait, CallbackReturns,
       ClientEpollReturn, TriggerTimers, WaitEnd, ClientPick, clientVars, Loop
  <2>. QED
    BY <1>2, <2>1
<1>4. ASSUME NEW c \in Files, Close(c) PROVE AwaitInv(C)'
  <2>1. UNCHANGED epollVars
    BY <1>4, CloseFollows
  <2>2. cli' = [cli EXCEPT ![c].waiting = {}, ![c].deleted = TRUE]
    BY <1>4 DEF Close
  <2>3. \A f \in Files : /\ cli'[f].awaiting = cli[f].awaiting
                         /\ f # c => cli'[f].deleted = cli[f].deleted
    BY <1>1, <2>2 DEF Client
  <2>4. c \in C
    BY <1>4 DEF Close, SocketInv, ClientsInv
  <2>. QED
    BY <1>2, <2>1, <2>3, <2>4
<1>5. ASSUME NEW t \in due, OnTimer(t[1], t[2]) PROVE AwaitInv(C)'
  <2>1. t[1] \in Files
    BY DEF SocketInv, SocketTypes, Timer
  <2>2. \A f \in Files : /\ cli'[f].awaiting \subseteq cli[f].awaiting
                         /\ cli'[f].deleted = cli[f].deleted
    <3> DEFINE r == [cli[t[1]] EXCEPT !.waiting = @ \ {t[2]}, !.expiring = @ \cup {t[2]},
                                      !.connecting = @ /\ t[2] = READ,
                                      !.awaiting = @ \ {t[2]}]
    <3>1. cli' = [cli EXCEPT ![t[1]] = r]
      BY <1>5 DEF OnTimer
    <3>2. cli[t[1]] \in Client
      BY <1>1, <2>1
    <3>3. r.awaiting \subseteq cli[t[1]].awaiting /\ r.deleted = cli[t[1]].deleted
      BY <3>2 DEF Client
    <3>. HIDE DEF r
    <3>. QED
      BY <1>1, <2>1, <3>1, <3>3
  <2>. QED
    BY <1>2, <1>5, <2>2 DEF OnTimer
<1>6. ASSUME OnTimerReturns PROVE AwaitInv(C)'
  <2>1. firing[1] \in Files
    BY <1>6 DEF OnTimerReturns, SocketInv, SocketTypes, Timer
  <2>2. \A f \in Files : /\ cli'[f].awaiting = cli[f].awaiting
                         /\ cli'[f].deleted = cli[f].deleted
    BY <1>1, <1>6, <2>1 DEF OnTimerReturns, Client
  <2>. QED
    BY <1>2, <1>6, <2>2 DEF OnTimerReturns
<1>7. ASSUME Callback PROVE AwaitInv(C)'
  BY <1>7, AwaitCallback
<1>8. ASSUME NEW c \in C, ClientApplication(c) PROVE AwaitInv(C)'
  BY <1>8, AwaitApplication
<1>. QED
  BY <1>3, <1>4, <1>5, <1>6, <1>7, <1>8 DEF ClientLoop

\* What is wanted of a descriptor the system does not refuse is watched, or
\* will be before the loop sleeps.
LEMMA WantedIsWatched ==
    ASSUME EpollInv, CoreInv, OwedInv, ~Oneshot, NEW f \in Files \ Refusable,
           NEW d \in wanted[f]
    PROVE  Watched(f, d)
<1>1. d \in Effective(f) /\ d \in Dirs
  BY OwedTypes DEF CoreInv, EffectiveIsWanted
<1>2. CASE d \in mask[f]
  <2>1. kern[f].reg /\ d \in kern[f].evs
    BY <1>2 DEF EpollInv, KernelIsMask
  <2>2. kern[f].armed
    BY <2>1 DEF OwedInv, Level
  <2>. QED
    BY <2>1, <2>2 DEF Watched
<1>3. CASE d \notin mask[f]
  <2>1. ~Direct /\ AddOp(d) \in oper[f]
    BY <1>1, <1>3 DEF Effective, Added
  <2>2. f \in events
    BY <2>1 DEF CoreInv, NothingForgotten
  <2>. QED
    BY <2>1, <2>2 DEF Watched
<1>. QED
  BY <1>2, <1>3

LEMMA AwaitedIs ==
    ASSUME NEW C \in SUBSET Files, EpollInv, CoreInv, OwedInv, AwaitInv(C)
    PROVE  AwaitedIsArmed
<1> SUFFICES ASSUME ~Oneshot, NEW c \in Files \ Refusable, NEW d \in cli[c].awaiting
             PROVE  Watched(c, d)
  BY DEF AwaitedIsArmed
<1>1. d \in wanted[c]
  BY DEF AwaitInv
<1>. QED
  BY <1>1, WantedIsWatched

\* What a client awaits is watched, or will be before the loop sleeps, until
\* its handler is called: no callback, timer or call in between gives it up.
THEOREM AwaitedIsArmedAlways == ClientSpec => []AwaitedIsArmed
<1>1. ClientInit => AwaitInv(Files)
  BY SocketStart DEF AwaitInv
<1>2. SocketInv(Files) /\ AwaitInv(Files) /\ [ClientNext]_clientVars => AwaitInv(Files)'
  BY AwaitStep DEF ClientNext
<1>3. EpollInv /\ CoreInv /\ OwedInv /\ AwaitInv(Files) => AwaitedIsArmed
  BY AwaitedIs
<1>4. EpollSpec => []EpollInv /\ []CoreInv /\ []OwedInv
  BY EpollInvariant, EpollImplementsCore, CoreInvariant, OwedInvariant, PTL
<1>. QED
  BY <1>1, <1>2, <1>3, <1>4, ClientInvariant, ClientOnEpoll, PTL DEF ClientSpec

-----------------------------------------------------------------------------
(***************************************************************************)
(* The invariant of the servers.  Clients are built on the other files, so *)
(* that a step about a client spares every server and one about a server   *)
(* spares every client.                                                    *)
(***************************************************************************)
Others == Files \ Listeners

ServerTypes ==
    /\ srv \in [Listeners -> Server]
    /\ conn \in [Files -> ConnStates]
    /\ procs \in SUBSET Listeners
    /\ walked \in BOOLEAN

OneServer(s) ==
    /\ ~srv[s].bound => Gone(s)
    /\ srv[s].closing => Idle(s)
    /\ srv[s].told => srv[s].closing /\ Gone(s)
    /\ srv[s].deleted => srv[s].told \/ ~srv[s].bound
    /\ s \in procs => srv[s].bound /\ srv[s].closing /\ ~srv[s].told

ServersInv == ServerTypes /\ \A s \in Listeners : OneServer(s)

ServerInv == SocketInv(Others) /\ AwaitInv(Others) /\ ServersInv

\* What every step does to the loop and to the clients.
Below ==
    /\ [EpollNext]_epollVars
    /\ SocketInv(Others)'
    /\ AwaitInv(Others)'

\* A server the step does nothing to.
Rests(s) ==
    /\ Spares(s)
    /\ srv'[s] = srv[s]
    /\ s \in procs' => s \in procs

LEMMA RestingStays ==
    ASSUME ServerInv, NEW s \in Listeners, Rests(s)
    PROVE  OneServer(s)'
<1>1. EpollInv /\ s \in Files /\ OneServer(s)
  BY ServerAssumption DEF ServerInv, SocketInv, ServersInv
<1>2. (Idle(s) => Idle(s)') /\ (Gone(s) => Gone(s)')
  BY <1>1, SparedStays DEF Rests
<1>. QED
  BY <1>1, <1>2 DEF Rests, OneServer

\* The steps of the clients, in which servers rest.
LEMMA ClientBelow ==
    ASSUME ServerInv,
           ClientLoop \/ (\E c \in Others : ClientApplication(c)) \/ UNCHANGED clientVars
    PROVE  Below /\ \A s \in Listeners : Spares(s)
<1>1. Others \in SUBSET Files /\ SocketInv(Others) /\ AwaitInv(Others)
  BY DEF Others, ServerInv
<1>2. Follow(Others)
  BY <1>1, ClientFollows
<1>3. SocketInv(Others)'
  BY <1>1, <1>2, FollowKeeps
<1>4. AwaitInv(Others)'
  BY <1>1, AwaitStep
<1>. QED
  BY <1>2, <1>3, <1>4, ServerAssumption DEF Below, Follow, Others

\* The steps of the servers, which leave the clients alone.
LEMMA ServerBelow ==
    ASSUME ServerInv, UNCHANGED <<cli, timers, due, firing, free, phase>>,
           entered' \in BOOLEAN,
           \/ \E s \in Listeners : Application(s)
           \/ CallReturns
           \/ UNCHANGED epollVars
    PROVE  Below
<1>1. /\ Others \in SUBSET Files /\ SocketInv(Others) /\ AwaitInv(Others)
      /\ EpollInv /\ Clean /\ SocketTypes /\ Turns
  BY DEF Others, ServerInv, SocketInv
<1>2. [EpollNext]_epollVars
  BY ServerAssumption DEF EpollNext, Loop
<1>3. stage' = stage
  BY AppStage, ServerAssumption DEF CallReturns, vars, epollVars
<1>4. \A c \in Others : Spares(c)
  BY ServerAssumption DEF Spares, Others, Loop
<1>5. \A c \in Others : Quiet(c)
  BY <1>1, <1>4 DEF Quiet, SocketInv, ClientsInv, OneClient
<1>6. ClientsInv(Others)'
  BY <1>1, <1>5, AllQuiet
<1>7. SocketTypes' /\ Turns'
  BY <1>1, <1>3 DEF SocketTypes, Turns, WaitingIsSet
<1>8. EpollInv' /\ Clean'
  BY <1>1, <1>2, EpollInvStep, CleanStep
<1>9. AwaitInv(Others)'
  <2>1. \A c \in Others : wanted'[c] = wanted[c] /\ flags' = flags
    BY <1>1, WantedStays, ServerAssumption DEF Others, Loop
  <2>2. CASE Others = {}
    BY <1>1, <2>2 DEF AwaitInv
  <2>3. CASE Others # {}
    BY <1>1, <2>1, <2>3 DEF AwaitInv, Oneshot
  <2>. QED
    BY <2>2, <2>3
<1>. QED
  BY <1>2, <1>6, <1>7, <1>8, <1>9 DEF Below, SocketInv

\* A step that leaves the servers alone.
LEMMA AllRest ==
    ASSUME ServerInv, UNCHANGED <<srv, procs>>, conn' \in [Files -> ConnStates],
           walked' \in BOOLEAN, \A s \in Listeners : Spares(s)
    PROVE  ServersInv'
<1>1. ServerTypes'
  BY DEF ServerInv, ServersInv, ServerTypes
<1>2. \A s \in Listeners : OneServer(s)'
  BY RestingStays DEF Rests
<1>. QED
  BY <1>1, <1>2 DEF ServersInv

\* A step about one server, which becomes r.
LEMMA OthersRest ==
    ASSUME ServerInv, NEW s \in Listeners, NEW r \in Server,
           srv' = [srv EXCEPT ![s] = r], OneServer(s)',
           procs' \subseteq procs \cup {s}, UNCHANGED <<conn, walked>>,
           \A g \in Listeners \ {s} : Spares(g)
    PROVE  ServersInv'
<1>1. srv \in [Listeners -> Server] /\ procs \in SUBSET Listeners
  BY DEF ServerInv, ServersInv, ServerTypes
<1>2. srv' \in [Listeners -> Server] /\ procs' \in SUBSET Listeners
  BY <1>1
<1>3. ServerTypes'
  BY <1>2 DEF ServerInv, ServersInv, ServerTypes
<1>4. \A g \in Listeners \ {s} : OneServer(g)'
  BY <1>1, RestingStays DEF Rests
<1>. QED
  BY <1>3, <1>4 DEF ServersInv

-----------------------------------------------------------------------------
(***************************************************************************)
(* The actions of the servers.                                             *)
(***************************************************************************)
LEMMA AliveIs ==
    ASSUME ServerInv, NEW s \in Listeners, Alive(s)
    PROVE  /\ ~srv[s].closing /\ ~srv[s].told /\ ~srv[s].deleted /\ s \notin procs
           /\ srv[s] \in Server /\ OneServer(s) /\ s \in Files
BY ServerAssumption DEF Alive, ServerInv, ServersInv, ServerTypes, OneServer

LEMMA OpenStep ==
    ASSUME ServerInv, NEW s \in Listeners, Open(s)
    PROVE  Below /\ ServersInv'
<1>1. UNCHANGED <<clientVars, conn, procs, walked>> /\ Alive(s)
  BY DEF Open
<1>2. PICK ok \in BOOLEAN : srv' = [srv EXCEPT ![s].lfd = ok, ![s].stray = ~ok]
  BY DEF Open
<1>3. Below /\ \A g \in Listeners : Spares(g)
  BY <1>1, ClientBelow
<1> DEFINE r == [srv[s] EXCEPT !.lfd = ok, !.stray = ~ok]
<1>4. srv' = [srv EXCEPT ![s] = r]
  BY <1>2
<1>5. /\ r \in Server /\ r.bound = srv[s].bound /\ r.closing = srv[s].closing
      /\ r.told = srv[s].told /\ r.deleted = srv[s].deleted
  BY <1>1, AliveIs DEF Server
<1>. HIDE DEF r
<1>6. srv'[s] = r
  BY <1>4 DEF ServerInv, ServersInv, ServerTypes
<1>7. Gone(s) => Gone(s)'
  BY <1>3, AliveIs, <1>1, SparedStays DEF ServerInv, SocketInv
<1>8. OneServer(s)'
  BY <1>1, <1>5, <1>6, <1>7, AliveIs DEF OneServer
<1>. QED
  BY <1>1, <1>3, <1>4, <1>5, <1>8, OthersRest

\* Registering for a server that is bound or becomes so, and giving it up.
LEMMA ServerCallStep ==
    ASSUME ServerInv, NEW s \in Listeners, Alive(s), Application(s),
           NEW r \in Server, srv' = [srv EXCEPT ![s] = r],
           r.bound, ~r.told, ~r.deleted, r.closing => Idle(s)',
           procs' \subseteq procs \cup {s}, s \in procs' => r.closing,
           UNCHANGED <<cli, loopVars, conn, walked>>
    PROVE  Below /\ ServersInv'
<1>1. /\ UNCHANGED <<timers, due, firing, free, phase>> /\ entered' = entered
      /\ entered \in BOOLEAN
  BY DEF loopVars, ServerInv, SocketInv, SocketTypes
<1>2. Below
  BY <1>1, ServerBelow
<1>3. srv'[s] = r
  BY DEF ServerInv, ServersInv, ServerTypes
<1>4. OneServer(s)'
  BY <1>3 DEF OneServer
<1>5. \A g \in Listeners \ {s} : Spares(g)
  BY ServerAssumption DEF Spares
<1>. QED
  BY <1>2, <1>4, <1>5, OthersRest

LEMMA AcceptAwaitStep ==
    ASSUME ServerInv, NEW s \in Listeners, AcceptAwait(s)
    PROVE  Below /\ ServersInv'
<1> DEFINE r == [srv[s] EXCEPT !.bound = TRUE]
<1>1. /\ Alive(s) /\ EpollAddDir(s, READ, "read_proc")
      /\ srv' = [srv EXCEPT ![s] = r] /\ UNCHANGED <<cli, loopVars, conn, procs, walked>>
  BY DEF AcceptAwait
<1>2. /\ r \in Server /\ r.bound /\ r.closing = srv[s].closing
      /\ r.told = srv[s].told /\ r.deleted = srv[s].deleted
  BY <1>1, AliveIs DEF Server
<1>. HIDE DEF r
<1>3. Application(s)
  BY <1>1, AliveIs, ServerAssumption, AddIsApplication DEF Dirs
<1>. QED
  BY <1>1, <1>2, <1>3, AliveIs, ServerCallStep

LEMMA ServerReadStep ==
    ASSUME ServerInv, NEW s \in Listeners,
           ServerReadAwait(s) \/ ServerReadDisable(s)
    PROVE  Below /\ ServersInv'
<1>1. /\ Alive(s) /\ srv[s].bound /\ UNCHANGED <<cli, loopVars, conn, procs, walked>>
      /\ srv' = srv
      /\ EpollAddDir(s, READ, "read_proc") \/ EpollDelDir(s, READ)
  BY DEF ServerReadAwait, ServerReadDisable, ownVars
<1>2. Application(s)
  BY <1>1, AliveIs, ServerAssumption, AddIsApplication, DelIsApplication DEF Dirs
<1>3. srv' = [srv EXCEPT ![s] = srv[s]]
  BY <1>1 DEF ServerInv, ServersInv, ServerTypes
<1>. QED
  BY <1>1, <1>2, <1>3, AliveIs, ServerCallStep

\* close_await gives the registration up there and then.
LEMMA ServerCloseAwaitStep ==
    ASSUME ServerInv, NEW s \in Listeners, ServerCloseAwait(s)
    PROVE  Below /\ ServersInv'
<1> DEFINE r == [srv[s] EXCEPT !.closing = TRUE]
<1>1. /\ Alive(s) /\ srv[s].bound /\ EpollDisable(s)
      /\ procs' = procs \cup {s}
      /\ srv' = [srv EXCEPT ![s] = r] /\ UNCHANGED <<cli, loopVars, conn, walked>>
  BY DEF ServerCloseAwait
<1>2. /\ r \in Server /\ r.bound /\ r.closing
      /\ r.told = srv[s].told /\ r.deleted = srv[s].deleted
  BY <1>1, AliveIs DEF Server
<1>. HIDE DEF r
<1>3. Application(s)
  BY <1>1 DEF Application
<1>4. Idle(s)'
  BY <1>1, AliveIs, DisableCleans DEF ServerInv, SocketInv
<1>. QED
  BY <1>1, <1>2, <1>3, <1>4, AliveIs, ServerCallStep

\* The descriptor that is closed is in the kernel's list no more.
LEMMA DeleteServerStep ==
    ASSUME ServerInv, NEW s \in Listeners, DeleteServer(s)
    PROVE  Below /\ ServersInv'
<1> DEFINE r == [srv[s] EXCEPT !.deleted = TRUE, !.lfd = FALSE]
<1>1. /\ srv[s].told \/ ~srv[s].bound
      /\ srv' = [srv EXCEPT ![s] = r]
      /\ kern' = [kern EXCEPT ![s] = NoEntry]
      /\ UNCHANGED <<vars, fdcount, batch, calls, owed, cli, loopVars, conn, procs, walked>>
  BY DEF DeleteServer
<1>2. srv[s] \in Server /\ OneServer(s) /\ s \in Files /\ EpollInv
  BY ServerAssumption DEF ServerInv, ServersInv, ServerTypes, SocketInv
<1>3. /\ r \in Server /\ r.bound = srv[s].bound /\ r.closing = srv[s].closing
      /\ r.told = srv[s].told /\ r.deleted
  BY <1>2 DEF Server
<1>. HIDE DEF r
<1>4. Gone(s)
  BY <1>1, <1>2 DEF OneServer
<1>5. UNCHANGED epollVars
  <2>1. kern' = kern
    BY <1>1, <1>2, <1>4, FileTypes DEF Gone, Idle
  <2>. QED
    BY <1>1, <2>1 DEF epollVars, vars
<1>6. Below /\ \A g \in Listeners : Spares(g)
  BY <1>1, <1>5, ClientBelow DEF clientVars
<1>7. srv'[s] = r
  BY <1>1 DEF ServerInv, ServersInv, ServerTypes
<1>8. Gone(s)'
  BY <1>2, <1>4, <1>6, SparedStays
<1>9. OneServer(s)'
  BY <1>1, <1>2, <1>3, <1>7, <1>8 DEF OneServer, Gone
<1>. QED
  BY <1>1, <1>3, <1>6, <1>9, OthersRest

\* One turn of the loop over procs_free_: no event is in flight then.
LEMMA OnCloseStep ==
    ASSUME ServerInv, NEW s \in Listeners, OnClose(s)
    PROVE  Below /\ ServersInv'
<1> DEFINE r == [srv[s] EXCEPT !.told = TRUE]
<1>1. /\ stage = "before_wait" /\ s \in procs
      /\ procs' = procs \ {s}
      /\ srv' = [srv EXCEPT ![s] = r]
      /\ entered' = TRUE
      /\ UNCHANGED <<epollVars, cli, timers, due, firing, free, phase, conn, walked>>
  BY DEF OnClose
<1>2. srv[s] \in Server /\ OneServer(s) /\ s \in Files /\ EpollInv
  BY ServerAssumption DEF ServerInv, ServersInv, ServerTypes, SocketInv
<1>3. /\ r \in Server /\ r.bound = srv[s].bound /\ r.closing = srv[s].closing
      /\ r.told /\ r.deleted = srv[s].deleted
  BY <1>2 DEF Server
<1>. HIDE DEF r
<1>4. Gone(s) /\ srv[s].bound /\ srv[s].closing
  <2>1. batch = {} /\ calls = <<>>
    BY <1>1, <1>2 DEF EpollInv, Dispatching
  <2>. QED
    BY <1>1, <1>2, <2>1 DEF OneServer, Gone
<1>5. Below
  BY <1>1, ServerBelow
<1>6. \A g \in Listeners : Spares(g)
  BY <1>1 DEF Spares
<1>7. srv'[s] = r
  BY <1>1 DEF ServerInv, ServersInv, ServerTypes
<1>8. Gone(s)'
  BY <1>2, <1>4, <1>6, SparedStays
<1>9. OneServer(s)'
  BY <1>1, <1>3, <1>4, <1>7, <1>8 DEF OneServer, Gone
<1>. QED
  BY <1>1, <1>3, <1>5, <1>6, <1>9, OthersRest

LEMMA OnReadStep ==
    ASSUME ServerInv, OnRead
    PROVE  Below /\ ServersInv'
<1>1. /\ UNCHANGED <<cli, timers, due, firing, free, phase, srv, procs, walked>>
      /\ UNCHANGED epollVars \/ CallReturns
      /\ entered' = TRUE \/ entered' = entered
  BY DEF OnRead
<1>2. Below
  BY <1>1, ServerBelow DEF ServerInv, SocketInv, SocketTypes
<1>3. \A s \in Listeners : Spares(s)
  BY <1>1 DEF Spares, Loop
<1>4. conn \in [Files -> ConnStates] /\ walked \in BOOLEAN
  BY DEF ServerInv, ServersInv, ServerTypes
<1>5. conn' \in [Files -> ConnStates]
  BY <1>4 DEF OnRead, Waiting, ConnStates
<1>. QED
  BY <1>1, <1>2, <1>3, <1>4, <1>5, AllRest

\* What the application does with a connection, and a peer.
LEMMA ConnStep ==
    ASSUME ServerInv, NEW c \in Others,
           \/ \E s \in Listeners : Accept(s, c)
           \/ Build(c)
           \/ Drop(c)
           \/ Arrives(c)
    PROVE  Below /\ ServersInv'
<1>1. /\ UNCHANGED <<clientVars, srv, procs, walked>>
      /\ \E q \in ConnStates : conn' = [conn EXCEPT ![c] = q]
  BY DEF Accept, Build, Drop, Arrives, ConnStates
<1>2. conn' \in [Files -> ConnStates] /\ walked \in BOOLEAN
  BY <1>1 DEF ServerInv, ServersInv, ServerTypes
<1>. QED
  BY <1>1, <1>2, ClientBelow, AllRest

\* The loop over procs_free_ is left, and the clients' steps.
LEMMA ServedStep ==
    ASSUME ServerInv, UNCHANGED <<srv, procs>>, conn' \in [Files -> ConnStates],
           walked' \in BOOLEAN,
           ClientLoop \/ (\E c \in Others : ClientApplication(c)) \/ UNCHANGED clientVars
    PROVE  Below /\ ServersInv'
BY ClientBelow, AllRest

LEMMA ServerStep ==
    ASSUME ServerInv, [ServerNext]_serverVars
    PROVE  Below /\ ServersInv'
<1>1. conn \in [Files -> ConnStates] /\ walked \in BOOLEAN
  BY DEF ServerInv, ServersInv, ServerTypes
<1>2. ASSUME NEW c \in Files, ServerClose(c) PROVE Below /\ ServersInv'
  <2>1. conn' \in [Files -> ConnStates]
    BY <1>1, <1>2 DEF ServerClose, ConnStates
  <2>. QED
    BY <1>1, <1>2, <2>1, ServedStep DEF ServerClose, ClientLoop
<1>3. CASE ServerEpollWait
  BY <1>1, <1>3, ServedStep DEF ServerEpollWait, ClientLoop
<1>4. CASE ClientLoop /\ UNCHANGED ownVars
  BY <1>1, <1>4, ServedStep DEF ownVars
<1>5. CASE Walked \/ UNCHANGED serverVars
  BY <1>1, <1>5, ServedStep DEF Walked, serverVars
<1>6. ASSUME NEW c \in Others, ClientCode(c) PROVE Below /\ ServersInv'
  <2>1. ClientApplication(c) /\ UNCHANGED ownVars
    BY <1>6 DEF ClientCode, ClientApplication
  <2>. QED
    BY <1>1, <2>1, ServedStep DEF ownVars
<1>7. CASE ServerLoop
  BY <1>2, <1>3, <1>4, <1>5, <1>7, OnReadStep, OnCloseStep DEF ServerLoop, ClientLoop
<1>8. CASE ServerApplication
  BY <1>6, <1>8, OpenStep, AcceptAwaitStep, ServerReadStep, ServerCloseAwaitStep,
     DeleteServerStep, ConnStep DEF ServerApplication, Others
<1>. QED
  BY <1>5, <1>7, <1>8, ConnStep DEF ServerNext, Others

-----------------------------------------------------------------------------
(***************************************************************************)
(* The theorems about servers, and about clients beside them.              *)
(***************************************************************************)
THEOREM ServerInvariant == ServerSpec => []ServerInv
<1>1. ServerInit => ServerInv
  <2> SUFFICES ASSUME ServerInit PROVE ServerInv
    OBVIOUS
  <2>1. ClientInit /\ Others \in SUBSET Files
    BY DEF ServerInit, Others
  <2>2. /\ SocketInv(Others)
        /\ \A f \in Files : Gone(f) /\ cli[f].awaiting = {} /\ ~cli[f].deleted
    BY <2>1, SocketStart
  <2>3. AwaitInv(Others)
    BY <2>2 DEF AwaitInv, Others
  <2>4. ServerTypes /\ \A s \in Listeners : OneServer(s)
    BY <2>2, ServerAssumption
       DEF ServerInit, ServerTypes, Server, ConnStates, OneServer
  <2>. QED
    BY <2>2, <2>3, <2>4 DEF ServerInv, ServersInv
<1>2. ServerInv /\ [ServerNext]_serverVars => ServerInv'
  BY ServerStep DEF Below, ServerInv
<1>. QED
  BY <1>1, <1>2, PTL DEF ServerSpec

\* Servers, the clients on their connections and the lists both are closed by
\* only ever do to the event core what it allows.
THEOREM ServerOnEpoll == ServerSpec => EpollSpec
<1>1. ServerInit => EpollInit
  BY DEF ServerInit, ClientInit
<1>2. ServerInv /\ [ServerNext]_serverVars => [EpollNext]_epollVars
  BY ServerStep DEF Below
<1>. QED
  BY <1>1, <1>2, ServerInvariant, PTL DEF ServerSpec, EpollSpec

LEMMA NothingStaleIs ==
    ASSUME ServerInv
    PROVE  NothingStale
<1>1. /\ SocketInv(Others) /\ Others \in SUBSET Files /\ EpollInv
      /\ ServerTypes /\ SocketTypes
  BY DEF ServerInv, SocketInv, Others, ServersInv
<1>2. ServerTypeOK
  BY <1>1 DEF ServerTypeOK, ServerTypes, ClientTypeOK, SocketTypes, EpollInv
<1>3. NothingDangling
  <2>1. \A c \in Files : cli[c].deleted => c \in Others
    BY DEF ServerInv, AwaitInv
  <2>. QED
    BY <1>1, <2>1, NothingRefers DEF NothingDangling
<1>4. ASSUME NEW s \in Listeners, srv[s].told \/ srv[s].deleted
      PROVE  /\ s \notin procs \cup events
             /\ mask[s] = {} /\ ~kern[s].reg
             /\ \A r \in batch : r.file # s
             /\ \A i \in DOMAIN calls : calls[i].file # s
  <2>1. Gone(s) /\ s \notin procs
    BY <1>4 DEF ServerInv, ServersInv, OneServer
  <2>. QED
    BY <2>1, NoEntryIsEntry DEF Gone, Idle
<1>. QED
  BY <1>2, <1>3, <1>4 DEF NothingStale

\* When a client is deleted, or a server was told that it is closed, nothing
\* refers to it, and the application may free it: no list of the loop, no timer,
\* nothing the kernel will report, no event or callback still to be handled.
THEOREM NothingStaleAlways == ServerSpec => []NothingStale
<1>1. ServerInv => NothingStale
  BY NothingStaleIs
<1>. QED
  BY <1>1, ServerInvariant, PTL

\* The same of clients that live beside servers.
THEOREM ServedClients == ServerSpec => [](WaitingIsSet /\ AwaitedIsArmed)
<1>1. ServerInv => WaitingIsSet
  BY DEF ServerInv, SocketInv, Turns
<1>2. ServerInv /\ EpollInv /\ CoreInv /\ OwedInv => AwaitedIsArmed
  BY AwaitedIs DEF ServerInv, Others
<1>3. EpollSpec => []EpollInv /\ []CoreInv /\ []OwedInv
  BY EpollInvariant, EpollImplementsCore, CoreInvariant, OwedInvariant, PTL
<1>. QED
  BY <1>1, <1>2, <1>3, ServerInvariant, ServerOnEpoll, PTL
=============================================================================
