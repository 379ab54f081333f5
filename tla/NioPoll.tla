------------------------------- MODULE NioPoll -------------------------------
(***************************************************************************)
(* The event core on the poll backend, c/src/events/nio_event_poll.c.      *)
(*                                                                         *)
(* ep->pfds and ep->files are one array here (pfds), with a file's watched *)
(* directions and what poll() reported in each entry.  poll_wait walks     *)
(* through a copy of the files (ready), while callbacks take files out of  *)
(* the array and move others into their slots.  The backend knows neither  *)
(* EPOLLONESHOT nor a refusal, and its del_readwrite is NULL: the core     *)
(* calls del_read and del_write.                                           *)
(***************************************************************************)
EXTENDS NioEvent, NioSlots

VARIABLES pfds,     (* ep->pfds and ep->files, ep->count entries           *)
          id,       (* fe->id                                              *)
          fdcount,  (* ev->fdcount                                         *)
          ready,    (* ep->ready from the iterator on                      *)
          cur,      (* the file whose callback runs, and what the loop in  *)
                    (* poll_wait keeps of it, or NULL                      *)
          reported, (* history: what poll() reported on each file          *)
          moved     (* history: a slot was given up since poll() returned  *)

pollVars == <<flags, type, mask, oper, proc, events, stage, wanted,
              pfds, id, fdcount, ready, cur, reported, moved>>

\* POLLERR, POLLHUP and POLLNVAL.
ERR == "ERR"

Revents == SUBSET (Dirs \cup {ERR})

Pfd == [file : Files, evs : SUBSET Dirs, rev : Revents]

\* at is the pointer pfd, and w_proc what was read before r_proc is called; it
\* is a callback once it is called itself.
Cur == [file : Files, at : Nat, runs : {READ}, w_proc : Procs \cup {NULL}]
         \cup [file : Files, at : Nat, runs : {WRITE}, w_proc : Procs]

PollTypeOK ==
    /\ TypeOK
    /\ pfds \in Seq(Pfd)
    /\ id \in [Files -> Nat]
    /\ fdcount \in Int
    /\ ready \in Seq(Files)
    /\ cur \in Cur \cup {NULL}
    /\ reported \in [Files -> Revents]
    /\ moved \in BOOLEAN

PollInit ==
    /\ Init
    /\ pfds = <<>>
    /\ id = [f \in Files |-> NoSlot]
    /\ fdcount = 0
    /\ ready = <<>>
    /\ cur = NULL
    /\ reported = [f \in Files |-> {}]
    /\ moved = FALSE

-----------------------------------------------------------------------------
(***************************************************************************)
(* The backend functions, on the part of the state they touch: the file's  *)
(* mask m, the array q with its indices id, and the counter n.             *)
(***************************************************************************)
Part(f) == [m |-> mask[f], q |-> pfds, id |-> id, n |-> fdcount]

\* Slip: fe->mask is set only with a new slot.
PollAddForgets(s, f, d) ==
    IF s.id[f] # NoSlot
    THEN [s EXCEPT !.q[s.id[f]].evs = @ \cup {d}]
    ELSE LET e == [file |-> f, evs |-> {d}, rev |-> {}]
         IN  [m |-> s.m \cup {d}, q |-> Placed(s.q, e),
              id |-> PlacedId(s.q, s.id, e), n |-> s.n + 1]

\* poll_add_read and poll_add_write: a file that is not in the array gets the
\* slot behind the last.
PollAdd(s, f, d) ==
    IF s.id[f] # NoSlot
    THEN [s EXCEPT !.m = @ \cup {d}, !.q[s.id[f]].evs = @ \cup {d}]
    ELSE LET e == [file |-> f, evs |-> {d}, rev |-> {}]
         IN  [m |-> s.m \cup {d}, q |-> Placed(s.q, e),
              id |-> PlacedId(s.q, s.id, e), n |-> s.n + 1]

\* poll_del_read and poll_del_write: when nothing is left to watch the file
\* gives up its slot.
PollDel(s, f, d) ==
    LET i == s.id[f]
        evs == s.q[i].evs \ {d}
    IN  IF evs # {}
        THEN [s EXCEPT !.m = @ \ {d}, !.q[i].evs = evs]
        ELSE [m |-> s.m \ {d}, q |-> Taken(s.q, i),
              id |-> TakenId(s.q, s.id, f), n |-> s.n - 1]

\* The calls in the order of nio_event_prepare, which is also the one of
\* nio_event_del_readwrite.
PollCalled(f, ops) ==
    LET s1 == IF DelOp(READ) \in ops THEN PollDel(Part(f), f, READ) ELSE Part(f)
        s2 == IF DelOp(WRITE) \in ops THEN PollDel(s1, f, WRITE) ELSE s1
        s3 == IF AddOp(READ) \in ops THEN PollAdd(s2, f, READ) ELSE s2
    IN  IF AddOp(WRITE) \in ops THEN PollAdd(s3, f, WRITE) ELSE s3

PollCalls(f, ops) ==
    LET s == PollCalled(f, ops)
    IN  /\ mask' = [mask EXCEPT ![f] = s.m]
        /\ pfds' = s.q
        /\ id' = s.id
        /\ fdcount' = s.n
        /\ moved' = (stage = "event_wait" /\ (moved \/ Len(s.q) < Len(pfds)))
        /\ UNCHANGED <<ready, cur, reported>>

-----------------------------------------------------------------------------
(***************************************************************************)
(* The interface functions on this backend.                                *)
(***************************************************************************)
arrayVars == <<pfds, id, fdcount>>
walkVars == <<ready, cur, reported, moved>>

PollAppRuns == stage \in {"app", "before_wait"} \/ cur # NULL

PollAddDir(f, d) ==
    /\ PollAppRuns
    /\ \/ AddRefused(f, d) /\ UNCHANGED <<arrayVars, walkVars>>
       \/ \E p \in Procs : AddFe(f, d, p) /\ PollCalls(f, AddCalls(f, d))

PollDelDir(f, d) == PollAppRuns /\ DelFe(f, d) /\ PollCalls(f, DelCalls(f, d))

PollDisable(f) ==
    PollAppRuns /\ DelReadWriteFe(f) /\ PollCalls(f, DelReadWriteCalls(f))

-----------------------------------------------------------------------------
(***************************************************************************)
(* The loop.                                                               *)
(***************************************************************************)
PollPrepare(f) == PrepareFe(f) /\ PollCalls(f, oper[f])

\* poll(): each entry's revents are what is ready of its events, or an error.
\* If there are none, a timeout or EINTR, poll_wait returns.
PollWait ==
    /\ EventWait
    /\ \E rev \in [DOMAIN pfds -> Revents] :
          /\ \A i \in DOMAIN pfds : rev[i] \subseteq pfds[i].evs \cup {ERR}
          /\ pfds' = [i \in DOMAIN pfds |-> [pfds[i] EXCEPT !.rev = rev[i]]]
          /\ ready' = IF \A i \in DOMAIN pfds : rev[i] = {} THEN <<>>
                      ELSE [i \in DOMAIN pfds |-> pfds[i].file]
          /\ reported' = [f \in Files |->
                             IF id[f] = NoSlot THEN {} ELSE rev[id[f]]]
    /\ UNCHANGED <<id, fdcount, cur, moved>>

\* What pfd->revents may be: the slot's; nothing in a slot behind the last,
\* which is cleared; anything in pfds[-1].
RevAt(i) ==
    IF i = NoSlot THEN Revents
    ELSE {IF i \in DOMAIN pfds THEN pfds[i].rev ELSE {}}

Hit(d, rev) == d \in rev \/ ERR \in rev

\* Slip: POLLIN is tested for.
WriteTestOnRead(f, i, rev, w) ==
    IF Hit(READ, rev) /\ w # NULL
    THEN [file |-> f, at |-> i, runs |-> WRITE, w_proc |-> w] ELSE NULL

\* The second test, with w_proc as it was before the first.
WriteTest(f, i, rev, w) ==
    IF Hit(WRITE, rev) /\ w # NULL
    THEN [file |-> f, at |-> i, runs |-> WRITE, w_proc |-> w] ELSE NULL

\* The next file of the copy: the pointer pfd and the two callbacks are read,
\* and the first test is made.
Pick ==
    /\ stage = "event_wait"
    /\ cur = NULL
    /\ ready # <<>>
    /\ ready' = Tail(ready)
    /\ LET f == Head(ready)
       IN  \E rev \in RevAt(id[f]) :
              cur' = IF Hit(READ, rev) /\ proc[f][READ] # NULL
                     THEN [file |-> f, at |-> id[f], runs |-> READ,
                           w_proc |-> proc[f][WRITE]]
                     ELSE WriteTest(f, id[f], rev, proc[f][WRITE])
    /\ UNCHANGED <<vars, arrayVars, reported, moved>>

\* r_proc returns, and the second test reads pfd->revents again.
ReadReturns ==
    /\ cur # NULL
    /\ cur.runs = READ
    /\ \E rev \in RevAt(cur.at) : cur' = WriteTest(cur.file, cur.at, rev, cur.w_proc)
    /\ UNCHANGED <<vars, arrayVars, ready, reported, moved>>

WriteReturns ==
    /\ cur # NULL
    /\ cur.runs = WRITE
    /\ cur' = NULL
    /\ UNCHANGED <<vars, arrayVars, ready, reported, moved>>

PollReturn ==
    /\ cur = NULL
    /\ ready = <<>>
    /\ WaitReturn
    /\ reported' = [f \in Files |-> {}]
    /\ moved' = FALSE
    /\ UNCHANGED <<arrayVars, ready, cur>>

PollSteps == (WaitBegin \/ PrepareEnd) /\ UNCHANGED <<arrayVars, walkVars>>

PollLoop ==
    \/ \E f \in Files : PollPrepare(f)
    \/ PollSteps
    \/ PollWait
    \/ Pick
    \/ ReadReturns
    \/ WriteReturns
    \/ PollReturn

PollApplication(f) ==
    \/ \E d \in Dirs : PollAddDir(f, d) \/ PollDelDir(f, d)
    \/ PollDisable(f)

PollNext == PollLoop \/ \E f \in Files : PollApplication(f)

PollSpec == PollInit /\ [][PollNext]_pollVars

(***************************************************************************)
(* Fairness: the loop keeps turning, and poll() reports a peer that stays  *)
(* ready in infinitely many of the waits in which it is in the array.      *)
(* Nothing is assumed of a descriptor the system may refuse.               *)
(***************************************************************************)
Reported(f, d) == PollWait /\ d \in reported'[f]

PollFairness ==
    /\ WF_pollVars(PollLoop)
    /\ \A f \in Files \ Refusable : \A d \in Dirs : SF_pollVars(Reported(f, d))

FairPollSpec == PollSpec /\ PollFairness

-----------------------------------------------------------------------------
(***************************************************************************)
(* Properties.                                                             *)
(***************************************************************************)

\* fe->id, the array, fe->mask and fdcount never drift apart, whichever files
\* move into the slots of others: every file has exactly one slot while it is
\* watched, for the directions of its mask.  With it the assertions of the
\* backend hold and del_read and del_write never reach pfds[-1].
ArrayExact ==
    /\ SlotsExact(pfds, id)
    /\ \A f \in Files : id[f] # NoSlot <=> mask[f] # {}
    /\ \A i \in DOMAIN pfds : pfds[i].evs = mask[pfds[i].file]
    /\ fdcount = Len(pfds)

\* A callback starts only for what poll() reported on its own file, unless the
\* array has changed since: pfd then may be another file's slot, or none.
StartsIfReported ==
    cur' # cur /\ cur' # NULL =>
        moved \/ Hit(cur'.runs, reported[cur'.file])

OnlyReported == [][StartsIfReported]_pollVars

\* A direction that stays wanted on a peer that stays ready gets its callback,
\* in every mode: no slot that moves takes an event with it.
PollServes ==
    \A f \in Files \ Refusable : \A d \in Dirs :
        d \in wanted[f]
            ~> \/ d \notin wanted[f]
               \/ cur # NULL /\ cur.file = f /\ cur.runs = d
=============================================================================
