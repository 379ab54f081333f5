------------------------------ MODULE NioEpoll ------------------------------
(***************************************************************************)
(* The event core on its Linux backend, c/src/events/nio_event_epoll.c.    *)
(*                                                                         *)
(* Every action of NioEvent that calls the backend is conjoined here with  *)
(* what the epoll functions do: the mask, the interest list the kernel     *)
(* keeps (kern) and the counter ev->fdcount.  epoll_event_wait is split    *)
(* where application code runs: the wait itself, picking one reported      *)
(* event, each callback, and the return.                                   *)
(***************************************************************************)
EXTENDS NioEvent, Sequences

VARIABLES kern,     (* the kernel's entry for each descriptor              *)
          fdcount,  (* ev->fdcount                                         *)
          batch,    (* reported events epoll_event_wait has yet to handle  *)
          calls,    (* callbacks of the event being handled, the head runs *)
          owed      (* history: directions registered since the last event *)

epollVars == <<flags, type, mask, oper, proc, events, stage,
               wanted, kern, fdcount, batch, calls, owed>>

\* An entry of the interest list: registered at all, for which events, with
\* EPOLLONESHOT or not, and not yet spent.
Entry == [reg : BOOLEAN, evs : SUBSET Dirs, oneshot : BOOLEAN, armed : BOOLEAN]

NoEntry == [reg |-> FALSE, evs |-> {}, oneshot |-> FALSE, armed |-> FALSE]

\* EPOLL_CTL_ADD and EPOLL_CTL_MOD leave this entry.
Armed(evs, oneshot) ==
    [reg |-> TRUE, evs |-> evs, oneshot |-> oneshot, armed |-> TRUE]

\* EPOLLERR and EPOLLHUP, which the kernel reports whatever is watched.
ERR == "ERR"

Report == [file : Files, evs : SUBSET (Dirs \cup {ERR}) \ {{}}]
Call == [file : Files, dir : Dirs, proc : Procs]

EpollTypeOK ==
    /\ TypeOK
    /\ kern \in [Files -> Entry]
    /\ fdcount \in Int
    /\ batch \in SUBSET Report
    /\ calls \in Seq(Call)
    /\ owed \in [Files -> SUBSET Dirs]

EpollInit ==
    /\ Init
    /\ kern = [f \in Files |-> NoEntry]
    /\ fdcount = 0
    /\ batch = {}
    /\ calls = <<>>
    /\ owed = [f \in Files |-> {}]

-----------------------------------------------------------------------------
(***************************************************************************)
(* The backend functions, on the part of the state they touch: the file's  *)
(* mask m and kernel entry k, and the counter n.                           *)
(***************************************************************************)
Part(f) == [m |-> mask[f], k |-> kern[f], n |-> fdcount]

\* Slip: the direction already watched is not repeated to EPOLL_CTL_MOD.
EpollAddForgets(s, d, ok) ==
    LET done == IF s.m # {} THEN s.k.reg ELSE ok /\ ~s.k.reg
    IN  IF done
        THEN [m |-> {d}, k |-> Armed({d}, Oneshot /\ d = READ),
              n |-> s.n + IF s.m = {} THEN 1 ELSE 0]
        ELSE s

\* Slip: EPOLLONESHOT is set in every mode.
EpollAddOneshot(s, d, ok) ==
    LET done == IF s.m # {} THEN s.k.reg ELSE ok /\ ~s.k.reg
    IN  IF done
        THEN [m |-> s.m \cup {d}, k |-> Armed(s.m \cup {d}, d = READ),
              n |-> s.n + IF s.m = {} THEN 1 ELSE 0]
        ELSE s

\* epoll_add_read and epoll_add_write: EPOLL_CTL_MOD when the file is watched
\* already, else EPOLL_CTL_ADD, which fails if the kernel has an entry or
\* (ok is FALSE) no room for one.  Only epoll_add_read sets EPOLLONESHOT.
EpollAdd(s, d, ok) ==
    LET done == IF s.m # {} THEN s.k.reg ELSE ok /\ ~s.k.reg
    IN  IF done
        THEN [m |-> s.m \cup {d},
              k |-> Armed(s.m \cup {d}, Oneshot /\ d = READ),
              n |-> s.n + IF s.m = {} THEN 1 ELSE 0]
        ELSE s

\* Slip: fdcount is decremented for EPOLL_CTL_MOD as well.
EpollDelMiscounts(s, d) ==
    LET m == s.m \ {d}
    IN  IF ~s.k.reg THEN [s EXCEPT !.m = m]
        ELSE IF m # {} THEN [m |-> m, k |-> Armed(m, Oneshot), n |-> s.n - 1]
        ELSE [m |-> m, k |-> NoEntry, n |-> s.n - 1]

\* epoll_del_read and epoll_del_write: the mask first, then EPOLL_CTL_MOD for
\* the direction that is left or EPOLL_CTL_DEL.
EpollDel(s, d) ==
    LET m == s.m \ {d}
    IN  IF ~s.k.reg THEN [s EXCEPT !.m = m]
        ELSE IF m # {} THEN [s EXCEPT !.m = m, !.k = Armed(m, Oneshot)]
        ELSE [m |-> m, k |-> NoEntry, n |-> s.n - 1]

\* Slip: the mask is not cleared.
EpollDelReadWriteKeeps(s) ==
    IF s.k.reg THEN [s EXCEPT !.k = NoEntry, !.n = s.n - 1] ELSE s

\* epoll_del_readwrite.
EpollDelReadWrite(s) ==
    IF s.k.reg THEN [m |-> {}, k |-> NoEntry, n |-> s.n - 1]
    ELSE [s EXCEPT !.m = {}]

\* The part of f becomes s.
Becomes(f, s) ==
    /\ mask' = [mask EXCEPT ![f] = s.m]
    /\ kern' = [kern EXCEPT ![f] = s.k]
    /\ fdcount' = s.n

\* A set of calls, in the order of the four tests in nio_event_prepare.
EpollCalls(f, ops) ==
    \E okr, okw \in BOOLEAN :
        /\ f \notin Refusable => okr /\ okw
        /\ LET s1 == IF DelOp(READ) \in ops THEN EpollDel(Part(f), READ) ELSE Part(f)
               s2 == IF DelOp(WRITE) \in ops THEN EpollDel(s1, WRITE) ELSE s1
               s3 == IF AddOp(READ) \in ops THEN EpollAdd(s2, READ, okr) ELSE s2
               s4 == IF AddOp(WRITE) \in ops THEN EpollAdd(s3, WRITE, okw) ELSE s3
           IN  Becomes(f, s4)

-----------------------------------------------------------------------------
(***************************************************************************)
(* The interface functions on this backend.  Application code runs outside *)
(* nio_event_wait2, in before_wait, and in a callback.                     *)
(***************************************************************************)
EpollAppRuns == stage \in {"app", "before_wait"} \/ calls # <<>>

dispatchVars == <<batch, calls>>

EpollAddDir(f, d, p) ==
    /\ EpollAppRuns
    /\ \/ AddRefused(f, d) /\ UNCHANGED <<kern, fdcount, owed>>
       \/ /\ AddFe(f, d, p)
          /\ EpollCalls(f, AddCalls(f, d))
          /\ owed' = [owed EXCEPT ![f] = @ \cup {d}]
    /\ UNCHANGED dispatchVars

AddRead(f) == \E p \in Procs : EpollAddDir(f, READ, p)
AddWrite(f) == \E p \in Procs : EpollAddDir(f, WRITE, p)

EpollDelDir(f, d) ==
    /\ EpollAppRuns
    /\ DelFe(f, d)
    /\ EpollCalls(f, DelCalls(f, d))
    /\ owed' = [owed EXCEPT ![f] = @ \ {d}]
    /\ UNCHANGED dispatchVars

DelRead(f) == EpollDelDir(f, READ)
DelWrite(f) == EpollDelDir(f, WRITE)

EpollDisable(f) ==
    /\ EpollAppRuns
    /\ DelReadWriteFe(f)
    /\ Becomes(f, IF mask[f] # {} THEN EpollDelReadWrite(Part(f)) ELSE Part(f))
    /\ owed' = [owed EXCEPT ![f] = {}]
    /\ UNCHANGED dispatchVars

-----------------------------------------------------------------------------
(***************************************************************************)
(* The loop.                                                               *)
(***************************************************************************)
EpollPrepare(f) ==
    PrepareFe(f) /\ EpollCalls(f, oper[f]) /\ UNCHANGED <<batch, calls, owed>>

\* epoll_wait: any of the armed files is reported, for events it is watched
\* for or an error, and a oneshot entry is spent; nothing is reported on a
\* timeout or EINTR.
Reportable == {f \in Files : kern[f].reg /\ kern[f].armed}

EpollWait ==
    /\ EventWait
    /\ \E S \in SUBSET Reportable :
          \E ev \in [S -> SUBSET (Dirs \cup {ERR}) \ {{}}] :
             /\ \A f \in S : ev[f] \subseteq kern[f].evs \cup {ERR}
             /\ batch' = {[file |-> f, evs |-> ev[f]] : f \in S}
             /\ kern' = [f \in Files |->
                            IF f \in S /\ kern[f].oneshot
                            THEN [kern[f] EXCEPT !.armed = FALSE] ELSE kern[f]]
             /\ owed' = [f \in Files |-> IF f \in S THEN {} ELSE owed[f]]
    /\ UNCHANGED <<fdcount, calls>>

\* The two tests in the loop over the batch, with the callbacks as they were
\* when the event was picked.

Due(f, d, evs) == (d \in evs \/ ERR \in evs) /\ proc[f][d] # NULL

CallOf(f, d, evs) ==
    IF Due(f, d, evs) THEN <<[file |-> f, dir |-> d, proc |-> proc[f][d]]>>
    ELSE <<>>

Pick(r) ==
    /\ stage = "event_wait"
    /\ calls = <<>>
    /\ r \in batch
    /\ batch' = batch \ {r}
    /\ calls' = CallOf(r.file, READ, r.evs) \o CallOf(r.file, WRITE, r.evs)
    /\ UNCHANGED <<vars, kern, fdcount, owed>>

\* The running callback returns.
CallReturns ==
    /\ calls # <<>>
    /\ calls' = Tail(calls)
    /\ UNCHANGED <<vars, kern, fdcount, batch, owed>>

EpollReturn ==
    /\ calls = <<>>
    /\ batch = {}
    /\ WaitReturn
    /\ UNCHANGED <<kern, fdcount, batch, calls, owed>>

EpollSteps ==
    (WaitBegin \/ PrepareEnd) /\ UNCHANGED <<kern, fdcount, batch, calls, owed>>

Application(f) ==
    AddRead(f) \/ AddWrite(f) \/ DelRead(f) \/ DelWrite(f) \/ EpollDisable(f)

Loop ==
    \/ \E f \in Files : EpollPrepare(f)
    \/ EpollSteps
    \/ EpollWait
    \/ \E r \in batch : Pick(r)
    \/ CallReturns
    \/ EpollReturn

EpollNext == Loop \/ \E f \in Files : Application(f)

EpollSpec == EpollInit /\ [][EpollNext]_epollVars

(***************************************************************************)
(* Fairness: the loop keeps turning (nio_event::wait is called again,      *)
(* callbacks return), and a peer that stays ready is reported in infinitely *)
(* many of the waits in which the kernel could report it.                  *)
(***************************************************************************)
Reported(f, d) == EpollWait /\ \E r \in batch' : r.file = f /\ d \in r.evs

EpollFairness ==
    /\ WF_epollVars(Loop)
    /\ \A f \in Files \ Refusable : \A d \in Dirs : SF_epollVars(Reported(f, d))

FairEpollSpec == EpollSpec /\ EpollFairness

-----------------------------------------------------------------------------
(***************************************************************************)
(* Properties.                                                             *)
(***************************************************************************)

\* The kernel's entry and fe->mask never drift apart: a file is in the
\* interest list exactly while its mask is not empty, for those directions.
KernelIsMask ==
    \A f \in Files :
        /\ kern[f].reg <=> mask[f] # {}
        /\ kern[f].evs = mask[f]

\* ev->fdcount counts the files the kernel watches, whatever order additions,
\* deletions and refusals come in.
FdCountExact == fdcount = Cardinality({f \in Files : mask[f] # {}})

\* A registration is in force until its event: from the call to add_read or
\* add_write on, until the file is reported or the direction given up, the
\* kernel's entry is armed for it or the addition is still put off.  This holds
\* when the direction never left the mask and only its oneshot entry was spent.
OwedIsArmed ==
    \A f \in Files \ Refusable : \A d \in owed[f] :
        \/ kern[f].armed /\ d \in kern[f].evs
        \/ ~Direct /\ AddOp(d) \in oper[f]

\* A direction that stays wanted on a peer that stays ready gets its callback:
\* no registration is lost between the list, the mask and the kernel, and no
\* event is swallowed.  (In oneshot mode an event in the other direction may
\* spend the entry first, so this is for the level-triggered mode.)
WantedIsServed ==
    \A f \in Files \ Refusable : \A d \in Dirs :
        ~Oneshot /\ d \in wanted[f]
            ~> \/ d \notin wanted[f]
               \/ \E i \in DOMAIN calls : calls[i].file = f /\ calls[i].dir = d
=============================================================================
