---------------------------- MODULE ClientSocket ----------------------------
(***************************************************************************)
(* client_socket on its event loop: cpp/src/client_socket.cpp with the     *)
(* closing list and the timers of cpp/src/nio_event.cpp, on top of the     *)
(* event core and the epoll backend.                                       *)
(*                                                                         *)
(* A client is named by its file: it connects once, or is built on an open *)
(* descriptor, and is deleted in its on_close handler, as the samples do.  *)
(* Timers have no clock here: a timer in timers_ may be due at any turn of *)
(* the loop (NioTimer says when).  The write buffer is in WriteBuffer: the *)
(* write callback may end without calling on_write.                        *)
(***************************************************************************)
EXTENDS NioEpoll

\* A client's descriptor is a socket and fits the loop.
ASSUME ClientAssumption ==
    /\ Files \subseteq Sockets
    /\ \A f \in Files : f < SetSize
    /\ {"connect_callback", "read_callback", "write_callback"} \subseteq Procs

VARIABLES cli,     (* the client_socket objects                            *)
          timers,  (* timers_, each entry a client and a direction         *)
          due,     (* what trigger_timers took out and has yet to call     *)
          firing,  (* the timer whose on_timer runs                        *)
          free,    (* clients_free_                                        *)
          entered, (* in a handler: on_read, on_write, on_connect, on_close *)
          phase    (* what nio_event::wait does around nio_event_wait2     *)

loopVars == <<timers, due, firing, free, entered, phase>>

clientVars == <<epollVars, cli, loopVars>>

Timer == Files \X Dirs

\* open: fe_ is set; waiting, connecting: the flags of the two timers;
\* expiring: client_f_rtimer and client_f_wtimer; awaiting: history, the
\* directions awaited whose handler has not been called since.
Client == [open : BOOLEAN, waiting : SUBSET Dirs, connecting : BOOLEAN,
           expiring : SUBSET Dirs, closing : BOOLEAN, deleted : BOOLEAN,
           awaiting : SUBSET Dirs]

ClientTypeOK ==
    /\ EpollTypeOK
    /\ cli \in [Files -> Client]
    /\ timers \in SUBSET Timer
    /\ due \in SUBSET Timer
    /\ firing \in Timer \cup {NULL}
    /\ free \in SUBSET Files
    /\ entered \in BOOLEAN
    /\ phase \in {"user", "trigger", "fire"}

ClientInit ==
    /\ EpollInit
    /\ cli \in [Files -> {[open |-> b, waiting |-> {}, connecting |-> FALSE,
                           expiring |-> {}, closing |-> FALSE,
                           deleted |-> FALSE, awaiting |-> {}] : b \in BOOLEAN}]
    /\ timers = {}
    /\ due = {}
    /\ firing = NULL
    /\ free = {}
    /\ entered = FALSE
    /\ phase = "user"

-----------------------------------------------------------------------------
(***************************************************************************)
(* What the application calls.  It runs between two waits, in handlers,    *)
(* and in the on_close handlers nio_event::before_wait calls.  It leaves a *)
(* client alone that it has asked to close.                                *)
(***************************************************************************)
AppCode ==
    \/ stage = "app" /\ phase = "user"
    \/ entered
    \/ firing # NULL

Usable(c) == AppCode /\ ~cli[c].closing

ProcOf(d) == IF d = READ THEN "read_callback" ELSE "write_callback"

\* read_await and write_await skip the registration while the direction's
\* on_timer runs in the oneshot mode.
SkipsInAnyMode(c, d) == d \in cli[c].expiring   \* slip: the mode is not tested

Skips(c, d) == Oneshot /\ d \in cli[c].expiring

Await(c, d, timed) ==
    /\ Usable(c)
    /\ cli[c].open
    /\ IF Skips(c, d) THEN UNCHANGED epollVars ELSE EpollAddDir(c, d, ProcOf(d))
    /\ LET sets == timed /\ d \notin cli[c].waiting
       IN  /\ timers' = timers \cup {t \in {<<c, d>>} : sets}
           /\ cli' = [cli EXCEPT ![c].waiting = IF sets THEN @ \cup {d} ELSE @,
                                 ![c].awaiting = @ \cup {d}]
    /\ UNCHANGED <<due, firing, free, entered, phase>>

\* connect_await, when connect() is under way; otherwise it changes nothing.
ConnectAwait(c, timed) ==
    /\ Usable(c)
    /\ ~cli[c].open
    /\ EpollAddDir(c, WRITE, "connect_callback")
    /\ timers' = timers \cup {t \in {<<c, WRITE>>} : timed}
    /\ cli' = [cli EXCEPT ![c].open = TRUE,
                          ![c].waiting = IF timed THEN @ \cup {WRITE} ELSE @,
                          ![c].connecting = timed,
                          ![c].awaiting = @ \cup {WRITE}]
    /\ UNCHANGED <<due, firing, free, entered, phase>>

\* read_disable and write_disable.
Disable(c, d) ==
    /\ Usable(c)
    /\ cli[c].open
    /\ EpollDelDir(c, d)
    /\ cli' = [cli EXCEPT ![c].awaiting = @ \ {d}]
    /\ UNCHANGED loopVars

ReadWriteDisable(c) ==
    /\ Usable(c)
    /\ cli[c].open
    /\ EpollDisable(c)
    /\ cli' = [cli EXCEPT ![c].awaiting = {}]
    /\ UNCHANGED loopVars

\* Slip: the registration is left to the callback of on_close.
CloseAwaitKeeps(c) ==
    /\ Usable(c)
    /\ cli' = [cli EXCEPT ![c].closing = TRUE, ![c].awaiting = {}]
    /\ free' = free \cup {c}
    /\ UNCHANGED <<epollVars, timers, due, firing, entered, phase>>

CloseAwait(c) ==
    /\ Usable(c)
    /\ IF cli[c].open THEN EpollDisable(c) ELSE UNCHANGED epollVars
    /\ cli' = [cli EXCEPT ![c].closing = TRUE, ![c].awaiting = {}]
    /\ free' = free \cup {c}
    /\ UNCHANGED <<timers, due, firing, entered, phase>>

-----------------------------------------------------------------------------
(***************************************************************************)
(* The callbacks the backend calls, up to the handler.                     *)
(***************************************************************************)

\* What read_callback and write_callback do first; called is FALSE when the
\* write callback ends with its buffer.
StopTimerLeaves(c, d, called) ==   \* slip: the timer is marked, not deleted
    /\ cli' = [cli EXCEPT ![c].expiring = @ \ {d}, ![c].waiting = @ \ {d},
                          ![c].awaiting = IF called THEN @ \ {d} ELSE @]
    /\ UNCHANGED timers

StopTimer(c, d, called) ==
    /\ timers' = timers \ {t \in {<<c, d>>} : d \in cli[c].waiting}
    /\ cli' = [cli EXCEPT ![c].expiring = @ \ {d}, ![c].waiting = @ \ {d},
                          ![c].awaiting = IF called THEN @ \ {d} ELSE @]

ReadCallback(c) == StopTimer(c, READ, TRUE) /\ UNCHANGED epollVars

WriteCallback(c) ==
    \E called \in BOOLEAN : StopTimer(c, WRITE, called) /\ UNCHANGED epollVars

\* The timer is stopped only if it is the connecting one; on success writing
\* is disabled, on failure both directions are.
ConnectCallback(c) ==
    /\ timers' = timers \ {t \in {<<c, WRITE>>} : cli[c].connecting}
    /\ \/ /\ DelWrite(c)
          /\ cli' = [cli EXCEPT ![c].expiring = @ \ {WRITE},
                        ![c].waiting = IF cli[c].connecting THEN @ \ {WRITE} ELSE @,
                        ![c].connecting = FALSE,
                        ![c].awaiting = @ \ {WRITE}]
       \/ /\ EpollDisable(c)
          /\ cli' = [cli EXCEPT ![c].expiring = @ \ {WRITE},
                        ![c].waiting = IF cli[c].connecting THEN @ \ {WRITE} ELSE @,
                        ![c].connecting = FALSE,
                        ![c].awaiting = {}]

Callback ==
    /\ calls # <<>>
    /\ ~entered
    /\ LET c == Head(calls).file
           p == Head(calls).proc
       IN  \/ p = "read_callback" /\ ReadCallback(c)
           \/ p = "write_callback" /\ WriteCallback(c)
           \/ p = "connect_callback" /\ ConnectCallback(c)
    /\ entered' = TRUE
    /\ UNCHANGED <<due, firing, free, phase>>

-----------------------------------------------------------------------------
(***************************************************************************)
(* nio_event::wait.                                                        *)
(***************************************************************************)
ClientWaitBegin ==
    /\ phase = "user"
    /\ EpollSteps
    /\ UNCHANGED <<cli, loopVars>>

ClientPrepare ==
    (\E f \in Files : EpollPrepare(f)) /\ UNCHANGED <<cli, loopVars>>

\* One turn of the loop over clients_free_ in before_wait: client_socket::close
\* with its on_close handler, which deletes the client.  Closing the descriptor
\* takes it out of the kernel's list.
Close(c) ==
    /\ stage = "before_wait"
    /\ c \in free
    /\ free' = free \ {c}
    /\ timers' = timers \ {<<c, d>> : d \in cli[c].waiting}
    /\ cli' = [cli EXCEPT ![c].waiting = {}, ![c].deleted = TRUE]
    /\ kern' = [kern EXCEPT ![c] = NoEntry]
    /\ entered' = TRUE
    /\ UNCHANGED <<vars, fdcount, batch, calls, owed, due, firing, phase>>

\* before_wait has walked through its list, with what handlers added to it.
ClientEpollWait ==
    /\ free = {}
    /\ EpollWait
    /\ entered' = FALSE
    /\ UNCHANGED <<cli, timers, due, firing, free, phase>>

ClientPick(r) == Pick(r) /\ UNCHANGED <<cli, loopVars>>

CallbackReturns ==
    /\ entered
    /\ CallReturns
    /\ entered' = FALSE
    /\ UNCHANGED <<cli, timers, due, firing, free, phase>>

ClientEpollReturn ==
    /\ EpollReturn
    /\ phase' = "trigger"
    /\ UNCHANGED <<cli, timers, due, firing, free, entered>>

TriggerTimers ==
    /\ phase = "trigger"
    /\ due' \in SUBSET timers
    /\ timers' = timers \ due'
    /\ phase' = "fire"
    /\ UNCHANGED <<epollVars, cli, firing, free, entered>>

\* client_socket::on_timer, up to the handler and after it.
OnTimer(c, d) ==
    /\ phase = "fire"
    /\ firing = NULL
    /\ <<c, d>> \in due
    /\ due' = due \ {<<c, d>>}
    /\ firing' = <<c, d>>
    /\ cli' = [cli EXCEPT ![c].waiting = @ \ {d},
                          ![c].expiring = @ \cup {d},
                          ![c].connecting = @ /\ d = READ,
                          ![c].awaiting = @ \ {d}]
    /\ UNCHANGED <<epollVars, timers, free, entered, phase>>

OnTimerReturns ==
    /\ firing # NULL
    /\ cli' = [cli EXCEPT ![firing[1]].expiring = @ \ {firing[2]}]
    /\ firing' = NULL
    /\ UNCHANGED <<epollVars, timers, due, free, entered, phase>>

WaitEnd ==
    /\ phase = "fire"
    /\ due = {}
    /\ firing = NULL
    /\ phase' = "user"
    /\ UNCHANGED <<epollVars, cli, timers, due, firing, free, entered>>

ClientLoop ==
    \/ ClientWaitBegin
    \/ ClientPrepare
    \/ \E c \in Files : Close(c)
    \/ ClientEpollWait
    \/ \E r \in batch : ClientPick(r)
    \/ Callback
    \/ CallbackReturns
    \/ ClientEpollReturn
    \/ TriggerTimers
    \/ \E t \in due : OnTimer(t[1], t[2])
    \/ OnTimerReturns
    \/ WaitEnd

ClientApplication(c) ==
    \/ \E timed \in BOOLEAN :
          \/ \E d \in Dirs : Await(c, d, timed)
          \/ ConnectAwait(c, timed)
    \/ \E d \in Dirs : Disable(c, d)
    \/ ReadWriteDisable(c)
    \/ CloseAwait(c)

ClientNext == ClientLoop \/ \E c \in Files : ClientApplication(c)

ClientSpec == ClientInit /\ [][ClientNext]_clientVars

\* The owner keeps calling nio_event::wait and handlers return.
FairClientSpec == ClientSpec /\ WF_clientVars(ClientLoop)

-----------------------------------------------------------------------------
(***************************************************************************)
(* Properties.                                                             *)
(***************************************************************************)

\* A timer is in the loop's hands exactly while its client marks it waiting:
\* close() and the callbacks, which go by the mark, leave none behind and ask
\* for none that is gone.
WaitingIsSet ==
    \A c \in Files : \A d \in Dirs :
        d \in cli[c].waiting <=> <<c, d>> \in timers \cup due

\* When a client is deleted nothing refers to it any more: no timer, no entry
\* of the loop's lists, nothing the kernel will report, no event or callback
\* still to be handled.
NothingDangling ==
    \A c \in Files : cli[c].deleted =>
        /\ \A t \in timers \cup due \cup {firing} : t # NULL => t[1] # c
        /\ c \notin free \cup events
        /\ mask[c] = {} /\ ~kern[c].reg
        /\ \A r \in batch : r.file # c
        /\ \A i \in DOMAIN calls : calls[i].file # c

Watched(c, d) ==
    \/ kern[c].armed /\ d \in kern[c].evs
    \/ AddOp(d) \in oper[c] /\ c \in events

\* What a client awaits, from read_await, write_await or connect_await until
\* its handler is called, is watched, or will be before the loop sleeps: no
\* callback, timer or call in between gives it up.  (In the oneshot mode an event
\* in the other direction does, so this is for the level-triggered mode; and for
\* a descriptor the system does not refuse.)
AwaitedIsArmed ==
    ~Oneshot =>
        \A c \in Files \ Refusable : \A d \in cli[c].awaiting : Watched(c, d)

\* A client that is asked to close gets its on_close.
ClosingEnds == \A c \in Files : cli[c].closing ~> cli[c].deleted
=============================================================================
