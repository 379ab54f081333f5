------------------------------ MODULE NioSelect ------------------------------
(***************************************************************************)
(* The event core on the select backend, c/src/events/nio_event_select.c   *)
(* (its Unix branch).                                                      *)
(*                                                                         *)
(* The watched directions are in the descriptor sets rset and wset (fds),  *)
(* a file with either has a slot in es->files and a bit in xset.           *)
(* select() gets copies of rset and xset but not of wset: nothing ever     *)
(* becomes writable, and when something else wakes the loop the copy of    *)
(* wset, which nobody has cleared, names every file that waits to write.   *)
(* What is below the file with the greatest descriptor is all that         *)
(* select() looks at.  del_readwrite is NULL here too.                     *)
(***************************************************************************)
EXTENDS NioEvent, NioSlots

VARIABLES fds,      (* es->rset and es->wset                               *)
          xset,     (* es->xset                                            *)
          files,    (* es->files, es->count entries                        *)
          id,       (* fe->id                                              *)
          maxfd,    (* es->maxfd                                           *)
          dirty,    (* es->dirty: maxfd is to be found again               *)
          fdcount,  (* ev->fdcount                                         *)
          copy,     (* select_event_wait's own rset, wset and xset         *)
          ready,    (* es->ready from the iterator on                      *)
          cur       (* the file whose callback runs, or NULL               *)

setVars == <<fds, xset, files, id, maxfd, dirty, fdcount>>
walkVars == <<copy, ready, cur>>
selectVars == <<vars, setVars, walkVars>>

EXC == "EXC"
NoCopy == [k \in Dirs \cup {EXC} |-> {}]

\* w_proc is what was read before r_proc is called.
Cur == [file : Files, runs : {READ}, w_proc : Procs \cup {NULL}]
         \cup [file : Files, runs : {WRITE}, w_proc : Procs]

SelectTypeOK ==
    /\ TypeOK
    /\ fds \in [Dirs -> SUBSET Files]
    /\ xset \in SUBSET Files
    /\ files \in Seq([file : Files])
    /\ id \in [Files -> Nat]
    /\ maxfd \in Files \cup {-1}
    /\ dirty \in BOOLEAN
    /\ fdcount \in Int
    /\ copy \in [Dirs \cup {EXC} -> SUBSET Files]
    /\ ready \in Seq(Files)
    /\ cur \in Cur \cup {NULL}

SelectInit ==
    /\ Init
    /\ fds = [d \in Dirs |-> {}]
    /\ xset = {}
    /\ files = <<>>
    /\ id = [f \in Files |-> NoSlot]
    /\ maxfd = -1
    /\ dirty = FALSE
    /\ fdcount = 0
    /\ copy = NoCopy
    /\ ready = <<>>
    /\ cur = NULL

-----------------------------------------------------------------------------
(***************************************************************************)
(* The backend functions, on the state they touch.                         *)
(***************************************************************************)
Part(f) == [m |-> mask[f], fds |-> fds, x |-> xset, q |-> files, id |-> id,
            top |-> maxfd, dirty |-> dirty, n |-> fdcount]

Other(d) == CHOOSE e \in Dirs : e # d

\* Slip: maxfd follows the latest file.
SelectAddLast(s, f, d) ==
    LET t == [s EXCEPT !.m = @ \cup {d}, !.fds[d] = @ \cup {f}]
    IN  IF f \in s.fds[READ] \cup s.fds[WRITE] THEN t
        ELSE [t EXCEPT !.q = Placed(@, [file |-> f]),
                       !.id = PlacedId(s.q, @, [file |-> f]),
                       !.x = @ \cup {f}, !.top = f, !.n = @ + 1]

\* select_add_read and select_add_write: a file in neither set gets a slot.
SelectAdd(s, f, d) ==
    LET t == [s EXCEPT !.m = @ \cup {d}, !.fds[d] = @ \cup {f}]
    IN  IF f \in s.fds[READ] \cup s.fds[WRITE] THEN t
        ELSE [t EXCEPT !.q = Placed(@, [file |-> f]),
                       !.id = PlacedId(s.q, @, [file |-> f]),
                       !.x = @ \cup {f},
                       !.top = IF f > @ THEN f ELSE @, !.n = @ + 1]

\* Slip: the mask is cleared only with the slot.
SelectDelKeeps(s, f, d) ==
    LET t == [s EXCEPT !.fds[d] = @ \ {f}]
    IN  IF f \in s.fds[Other(d)] THEN t
        ELSE [t EXCEPT !.m = {}, !.q = Taken(@, s.id[f]), !.id = TakenId(s.q, @, f),
                       !.x = @ \ {f}, !.dirty = @ \/ f = s.top, !.n = @ - 1]

\* select_del_read and select_del_write: a file left in neither set gives up
\* its slot.
SelectDel(s, f, d) ==
    LET t == [s EXCEPT !.m = @ \ {d}, !.fds[d] = @ \ {f}]
    IN  IF f \in s.fds[Other(d)] THEN t
        ELSE [t EXCEPT !.q = Taken(@, s.id[f]), !.id = TakenId(s.q, @, f),
                       !.x = @ \ {f}, !.dirty = @ \/ f = s.top, !.n = @ - 1]

\* The calls in the order of nio_event_prepare and nio_event_del_readwrite.
SelectCalled(f, ops) ==
    LET s1 == IF DelOp(READ) \in ops THEN SelectDel(Part(f), f, READ) ELSE Part(f)
        s2 == IF DelOp(WRITE) \in ops THEN SelectDel(s1, f, WRITE) ELSE s1
        s3 == IF AddOp(READ) \in ops THEN SelectAdd(s2, f, READ) ELSE s2
    IN  IF AddOp(WRITE) \in ops THEN SelectAdd(s3, f, WRITE) ELSE s3

SelectCalls(f, ops) ==
    LET s == SelectCalled(f, ops)
    IN  /\ mask' = [mask EXCEPT ![f] = s.m]
        /\ fds' = s.fds /\ xset' = s.x
        /\ files' = s.q /\ id' = s.id
        /\ maxfd' = s.top /\ dirty' = s.dirty
        /\ fdcount' = s.n
        /\ UNCHANGED walkVars

-----------------------------------------------------------------------------
(***************************************************************************)
(* The interface functions on this backend, and the loop.                  *)
(***************************************************************************)
SelectAppRuns == stage \in {"app", "before_wait"} \/ cur # NULL

SelectAddDir(f, d) ==
    /\ SelectAppRuns
    /\ \/ AddRefused(f, d) /\ UNCHANGED <<setVars, walkVars>>
       \/ \E p \in Procs : AddFe(f, d, p) /\ SelectCalls(f, AddCalls(f, d))

SelectDelDir(f, d) ==
    SelectAppRuns /\ DelFe(f, d) /\ SelectCalls(f, DelCalls(f, d))

SelectDisable(f) ==
    SelectAppRuns /\ DelReadWriteFe(f) /\ SelectCalls(f, DelReadWriteCalls(f))

SelectPrepare(f) == PrepareFe(f) /\ SelectCalls(f, oper[f])

\* es->maxfd when select() is called.
Top ==
    IF ~dirty THEN maxfd
    ELSE LET S == {files[i].file : i \in DOMAIN files} \cup {-1}
         IN  CHOOSE f \in S : \A g \in S : f >= g

\* select(maxfd + 1, &rset, 0, &xset, tp): the bits of the descriptors it looks
\* at that are not ready are cleared.  A timeout and EINTR return at once.
SelectWait ==
    /\ EventWait
    /\ maxfd' = Top
    /\ \E R \in SUBSET {f \in fds[READ] : f <= maxfd'},
          X \in SUBSET {f \in xset : f <= maxfd'} :
          IF R \cup X = {} THEN UNCHANGED <<copy, ready>>
          ELSE /\ copy' = [k \in Dirs \cup {EXC} |->
                              CASE k = READ -> R [] k = EXC -> X [] OTHER -> fds[WRITE]]
               /\ ready' = [i \in DOMAIN files |-> files[i].file]
    /\ UNCHANGED <<fds, xset, files, id, dirty, fdcount, cur>>

\* Slip: the sets select() was given are tested.
HitAsked(f, d) == f \in fds[d]

\* An exceptional file is called for what is watched by now, another one for
\* what the copies say.
Hit(f, d) == IF f \in copy[EXC] THEN f \in fds[d] ELSE f \in copy[d]

\* Slip: one test stands for both.
WriteTestOnRead(f, w) ==
    IF Hit(f, READ) /\ w # NULL
    THEN [file |-> f, runs |-> WRITE, w_proc |-> w] ELSE NULL

\* The second test, with w_proc as it was before the first.
WriteTest(f, w) ==
    IF Hit(f, WRITE) /\ w # NULL
    THEN [file |-> f, runs |-> WRITE, w_proc |-> w] ELSE NULL

\* The next file of the array ready, with both callbacks as they are now.
SelectPick ==
    /\ stage = "event_wait"
    /\ cur = NULL
    /\ ready # <<>>
    /\ ready' = Tail(ready)
    /\ LET f == Head(ready)
       IN  cur' = IF Hit(f, READ) /\ proc[f][READ] # NULL
                  THEN [file |-> f, runs |-> READ, w_proc |-> proc[f][WRITE]]
                  ELSE WriteTest(f, proc[f][WRITE])
    /\ UNCHANGED <<vars, setVars, copy>>

ReadReturns ==
    /\ cur # NULL
    /\ cur.runs = READ
    /\ cur' = WriteTest(cur.file, cur.w_proc)
    /\ UNCHANGED <<vars, setVars, copy, ready>>

WriteReturns ==
    /\ cur # NULL
    /\ cur.runs = WRITE
    /\ cur' = NULL
    /\ UNCHANGED <<vars, setVars, copy, ready>>

SelectReturn ==
    /\ cur = NULL
    /\ ready = <<>>
    /\ WaitReturn
    /\ copy' = NoCopy
    /\ UNCHANGED <<setVars, ready, cur>>

SelectSteps == (WaitBegin \/ PrepareEnd) /\ UNCHANGED <<setVars, walkVars>>

SelectLoop ==
    \/ \E f \in Files : SelectPrepare(f)
    \/ SelectSteps
    \/ SelectWait
    \/ SelectPick
    \/ ReadReturns
    \/ WriteReturns
    \/ SelectReturn

SelectApplication(f) ==
    \/ \E d \in Dirs : SelectAddDir(f, d) \/ SelectDelDir(f, d)
    \/ SelectDisable(f)

SelectNext == SelectLoop \/ \E f \in Files : SelectApplication(f)

SelectSpec == SelectInit /\ [][SelectNext]_selectVars

(***************************************************************************)
(* Fairness: the loop keeps turning, and select() reports a peer that      *)
(* keeps sending in infinitely many of the waits in which it is looked at. *)
(***************************************************************************)
ReportedRead(f) == SelectWait /\ f \in copy'[READ]

SelectFairness ==
    /\ WF_selectVars(SelectLoop)
    /\ \A f \in Files : SF_selectVars(ReportedRead(f))

FairSelectSpec == SelectSpec /\ SelectFairness

-----------------------------------------------------------------------------
(***************************************************************************)
(* Properties.                                                             *)
(***************************************************************************)

\* The sets, the array, fe->id, fe->mask and fdcount never drift apart,
\* whichever files move into the slots of others, and the bound select() will
\* be given is beyond no watched file: a file above it would never be heard of.
SelectExact ==
    /\ SelectTypeOK
    /\ SlotsExact(files, id)
    /\ xset = fds[READ] \cup fds[WRITE]
    /\ \A f \in Files : id[f] # NoSlot <=> f \in xset
    /\ \A f \in Files : mask[f] = {d \in Dirs : f \in fds[d]}
    /\ fdcount = Len(files)
    /\ \A f \in xset : f <= Top

\* r_proc starts only for a file that select() reported in this wait, and no
\* callback starts for an exceptional file that is not watched any more.
StartsIfReported ==
    cur' # cur /\ cur' # NULL =>
        /\ cur'.runs = READ => cur'.file \in copy[READ] \cup copy[EXC]
        /\ cur'.file \in copy[EXC] => cur'.file \in fds[cur'.runs]

SelectOnlyReported == [][StartsIfReported]_selectVars

Called(f, d) == cur # NULL /\ cur.file = f /\ cur.runs = d

\* A file that stays registered to read gets its callback.  One that waits to
\* write gets its own if other files never stop to wake the loop.
SelectServes ==
    \A f \in Files :
        /\ READ \in wanted[f] ~> READ \notin wanted[f] \/ Called(f, READ)
        /\ []<>(\E g \in Files \ {f} : READ \in mask[g] /\ stage = "before_wait") =>
              (WRITE \in wanted[f] ~> WRITE \notin wanted[f] \/ Called(f, WRITE))
=============================================================================
