------------------------------ MODULE NioKqueue ------------------------------
(***************************************************************************)
(* The event core on the kqueue backend, c/src/events/nio_event_kqueue.c.  *)
(*                                                                         *)
(* Additions and deletions are changes put into ek->changes; the kernel    *)
(* gets them with the next kevent(), that of kqueue_wait, that of          *)
(* nio_event_del_readwrite or the one that makes room in a full list.      *)
(* kevent() carries the changes out one by one.  One that fails is         *)
(* reported as an event of its file and direction (EV_ERROR, for which the *)
(* code does not look); without room for events, in kqueue_fflush, it ends *)
(* the call, and the whole list stays for the next one.                    *)
(*                                                                         *)
(* Left out: a hundred failed changes at once (ek->nevents), which is      *)
(* fatal.                                                                  *)
(***************************************************************************)
EXTENDS NioEvent, Sequences

CONSTANT ChangeMax   (* ek->setsize, the room in ek->changes *)

ASSUME KqueueAssumption == ChangeMax \in Nat \ {0}

VARIABLES kern,     (* the filters in the kernel                           *)
          changes,  (* ek->changes, ek->nchanges entries                   *)
          fdcount,  (* ev->fdcount                                         *)
          batch,    (* what kevent() returned and is not handled yet       *)
          cur,      (* the event whose callback runs, or NULL              *)
          lost      (* history: files and directions whose latest change   *)
                    (* was dropped                                         *)

backVars == <<kern, changes, fdcount, lost>>
walkVars == <<batch, cur>>
kqueueVars == <<vars, backVars, walkVars>>

Change == [file : Files, dir : Dirs, add : BOOLEAN]

\* err is the place of the failed change, 0 for a real event.
Event == [file : Files, dir : Dirs, err : 0..ChangeMax]

KqueueTypeOK ==
    /\ TypeOK
    /\ kern \in [Files -> SUBSET Dirs]
    /\ changes \in Seq(Change)
    /\ fdcount \in Int
    /\ batch \in SUBSET Event
    /\ cur \in Event \cup {NULL}
    /\ lost \in SUBSET (Files \X Dirs)

KqueueInit ==
    /\ Init
    /\ kern = [f \in Files |-> {}]
    /\ changes = <<>>
    /\ fdcount = 0
    /\ batch = {}
    /\ cur = NULL
    /\ lost = {}

-----------------------------------------------------------------------------
(***************************************************************************)
(* kevent() on a list of changes.  R are the files whose filters the       *)
(* system refuses this time; a deletion fails if there is no filter.       *)
(***************************************************************************)
Fails(k, c, R) ==
    c.dir \notin k[c.file] /\ (c.add => c.file \in R)

Changed(k, c) ==
    [k EXCEPT ![c.file] = IF c.add THEN @ \cup {c.dir} ELSE @ \ {c.dir}]

\* k is the kernel's state after the list q, n the changes looked at, errs the
\* events of those that failed; with stop the first ends the call.
Kevent(k0, q, R, stop) ==
    LET Step(s, c) ==
            LET bad == Fails(s.k, c, R)
            IN  IF stop /\ s.errs # {} THEN s
                ELSE [k |-> IF bad THEN s.k ELSE Changed(s.k, c), n |-> s.n + 1,
                      errs |-> IF ~bad THEN s.errs
                               ELSE s.errs \cup {[file |-> c.file, dir |-> c.dir,
                                                  err |-> s.n + 1]}]
        after[i \in 0..Len(q)] ==
            IF i = 0 THEN [k |-> k0, n |-> 0, errs |-> {}]
            ELSE Step(after[i - 1], q[i])
    IN  after[Len(q)]

(***************************************************************************)
(* The backend functions, on the state they touch.                         *)
(***************************************************************************)
Part(f) == [m |-> mask[f], k |-> kern, c |-> changes, n |-> fdcount, lost |-> lost]

\* Slip: the list is emptied though the call has failed.
FflushDrops(s, R) == [s EXCEPT !.k = Kevent(s.k, s.c, R, TRUE).k, !.c = <<>>]

\* kqueue_fflush.
Fflush(s, R) ==
    LET r == Kevent(s.k, s.c, R, TRUE)
    IN  [s EXCEPT !.k = r.k, !.c = IF r.errs = {} THEN <<>> ELSE @]

MakeRoom(s, R) == IF Len(s.c) >= ChangeMax THEN Fflush(s, R) ELSE s

Full(s) == Len(s.c) >= ChangeMax

Put(s, f, d, add) ==
    [s EXCEPT !.c = Append(@, [file |-> f, dir |-> d, add |-> add]),
              !.lost = @ \ {<<f, d>>}]

Other(d) == CHOOSE e \in Dirs : e # d

\* kqueue_add_read and kqueue_add_write.  The counter looks at the other
\* direction only.
KqueueAdd(s, f, d, R) ==
    LET t == MakeRoom(s, R)
    IN  IF Full(t) THEN [t EXCEPT !.lost = @ \cup {<<f, d>>}]
        ELSE [Put(t, f, d, TRUE) EXCEPT
                 !.m = @ \cup {d}, !.n = IF Other(d) \in s.m THEN @ ELSE @ + 1]

\* Slip: fe->mask is left as it is.
KqueueDelKeeps(s, f, d, R) ==
    LET t == MakeRoom(s, R)
    IN  IF Full(t) THEN [t EXCEPT !.lost = @ \cup {<<f, d>>}]
        ELSE [Put(t, f, d, FALSE) EXCEPT !.n = IF Other(d) \in s.m THEN @ ELSE @ - 1]

\* kqueue_del_read and kqueue_del_write.
KqueueDel(s, f, d, R) ==
    LET t == MakeRoom(s, R)
    IN  IF Full(t) THEN [t EXCEPT !.lost = @ \cup {<<f, d>>}]
        ELSE [Put(t, f, d, FALSE) EXCEPT
                 !.m = @ \ {d}, !.n = IF Other(d) \in s.m THEN @ ELSE @ - 1]

\* The calls in the order of nio_event_prepare and nio_event_del_readwrite.
KqueueCalled(f, ops, R) ==
    LET s1 == IF DelOp(READ) \in ops THEN KqueueDel(Part(f), f, READ, R) ELSE Part(f)
        s2 == IF DelOp(WRITE) \in ops THEN KqueueDel(s1, f, WRITE, R) ELSE s1
        s3 == IF AddOp(READ) \in ops THEN KqueueAdd(s2, f, READ, R) ELSE s2
    IN  IF AddOp(WRITE) \in ops THEN KqueueAdd(s3, f, WRITE, R) ELSE s3

Becomes(f, s) ==
    /\ mask' = [mask EXCEPT ![f] = s.m]
    /\ kern' = s.k /\ changes' = s.c
    /\ fdcount' = s.n /\ lost' = s.lost
    /\ UNCHANGED walkVars

KqueueCalls(f, ops) ==
    \E R \in SUBSET Refusable : Becomes(f, KqueueCalled(f, ops, R))

-----------------------------------------------------------------------------
(***************************************************************************)
(* The interface functions on this backend, and the loop.                  *)
(***************************************************************************)
KqueueAppRuns == stage \in {"app", "before_wait"} \/ cur # NULL

KqueueAddDir(f, d) ==
    /\ KqueueAppRuns
    /\ \/ AddRefused(f, d) /\ UNCHANGED <<backVars, walkVars>>
       \/ \E p \in Procs : AddFe(f, d, p) /\ KqueueCalls(f, AddCalls(f, d))

KqueueDelDir(f, d) ==
    KqueueAppRuns /\ DelFe(f, d) /\ KqueueCalls(f, DelCalls(f, d))

\* del_readwrite is NULL here; the changes are handed over at once, so that
\* the descriptor can be closed.
KqueueDisable(f) ==
    /\ KqueueAppRuns
    /\ DelReadWriteFe(f)
    /\ \E R \in SUBSET Refusable :
          Becomes(f, Fflush(KqueueCalled(f, DelReadWriteCalls(f), R), R))

KqueuePrepare(f) == PrepareFe(f) /\ KqueueCalls(f, oper[f])

RealEvents(k) == {e \in Event : e.err = 0 /\ e.dir \in k[e.file]}

\* kqueue_wait: the list is given over and forgotten.  If a change failed the
\* errors are all there is; else any of the filters may be reported, or none,
\* a timeout or EINTR.
KqueueWait ==
    /\ EventWait
    /\ \E R \in SUBSET Refusable :
          LET r == Kevent(kern, changes, R, FALSE)
          IN  /\ kern' = r.k
              /\ IF r.errs # {} THEN batch' = r.errs
                 ELSE batch' \in SUBSET RealEvents(r.k)
    /\ changes' = <<>>
    /\ UNCHANGED <<fdcount, lost, cur>>

\* Slip: the callback of the other direction is called.
CallOther(e) ==
    IF proc[e.file][Other(e.dir)] # NULL THEN [e EXCEPT !.dir = Other(@)] ELSE NULL

\* The callback of the event's direction as it is when its turn comes.
CallOf(e) == IF proc[e.file][e.dir] # NULL THEN e ELSE NULL

KqueuePick(e) ==
    /\ stage = "event_wait"
    /\ cur = NULL
    /\ e \in batch
    /\ batch' = batch \ {e}
    /\ cur' = CallOf(e)
    /\ UNCHANGED <<vars, backVars>>

CallReturns ==
    /\ cur # NULL
    /\ cur' = NULL
    /\ UNCHANGED <<vars, backVars, batch>>

KqueueReturn ==
    /\ cur = NULL
    /\ batch = {}
    /\ WaitReturn
    /\ UNCHANGED <<backVars, walkVars>>

KqueueSteps == (WaitBegin \/ PrepareEnd) /\ UNCHANGED <<backVars, walkVars>>

KqueueLoop ==
    \/ \E f \in Files : KqueuePrepare(f)
    \/ KqueueSteps
    \/ KqueueWait
    \/ \E e \in batch : KqueuePick(e)
    \/ CallReturns
    \/ KqueueReturn

KqueueApplication(f) ==
    \/ \E d \in Dirs : KqueueAddDir(f, d) \/ KqueueDelDir(f, d)
    \/ KqueueDisable(f)

KqueueNext == KqueueLoop \/ \E f \in Files : KqueueApplication(f)

KqueueSpec == KqueueInit /\ [][KqueueNext]_kqueueVars

(***************************************************************************)
(* Fairness: the loop keeps turning, and a peer that stays ready is        *)
(* reported in infinitely many of the waits that could report it.          *)
(***************************************************************************)
Reported(f, d) == KqueueWait /\ [file |-> f, dir |-> d, err |-> 0] \in batch'

KqueueFairness ==
    /\ WF_kqueueVars(KqueueLoop)
    /\ \A f \in Files \ Refusable : \A d \in Dirs : SF_kqueueVars(Reported(f, d))

FairKqueueSpec == KqueueSpec /\ KqueueFairness

-----------------------------------------------------------------------------
(***************************************************************************)
(* Properties.                                                             *)
(***************************************************************************)

\* What the kernel will watch once it has the list is fe->mask, for every file
\* the system does not refuse: also when a flush failed half way and the head
\* of the list is carried out twice.  fdcount counts the files watched, but
\* for the ONESHOT mode, where an addition is repeated and counted again.
PendingIsMask ==
    /\ KqueueTypeOK
    /\ Len(changes) <= ChangeMax
    /\ LET k == Kevent(kern, changes, {}, FALSE).k
       IN  \A f \in Files :
              /\ k[f] \subseteq mask[f]
              /\ f \notin Refusable => k[f] = mask[f]
    /\ ~Oneshot => fdcount = Cardinality({f \in Files : mask[f] # {}})

\* As long as no change is dropped for want of room the backend carries out
\* what the core asks for.
KqueueCore == Init /\ [][Next \/ lost' # {}]_vars

\* If changes do not fail or get dropped for ever (their errors come before any
\* event), a direction that stays wanted on a peer that stays ready gets its
\* callback, in every mode: the list, however often it is filled and emptied and
\* whatever failed in the past, loses no registration.
KqueueServes ==
    <>[](lost = {} /\ \A e \in batch : e.err = 0) =>
        \A f \in Files \ Refusable : \A d \in Dirs :
            d \in wanted[f] ~>
                \/ d \notin wanted[f]
                \/ cur # NULL /\ cur.file = f /\ cur.dir = d
=============================================================================
