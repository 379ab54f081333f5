---------------------------- MODULE ServerSocket ----------------------------
(***************************************************************************)
(* server_socket and its base event_proc, cpp/src/server_socket.cpp and    *)
(* event_proc.cpp, on the loop of ClientSocket: nio_event::before_wait     *)
(* calls the on_close of what is in procs_free_ and then walks             *)
(* clients_free_.                                                          *)
(*                                                                         *)
(* The files of Listeners are servers, the others the connections they     *)
(* accept, on which the application may build clients.  The application    *)
(* binds a server once, makes its descriptor non-blocking, and deletes it  *)
(* when its on_close handler was called or when it was never bound.        *)
(***************************************************************************)
EXTENDS ClientSocket

CONSTANT Listeners   (* the files of the servers *)

ASSUME ServerAssumption == Listeners \subseteq Files /\ "read_proc" \in Procs

VARIABLES srv,     (* the server_socket objects                            *)
          conn,    (* how far each file is as a connection                 *)
          procs,   (* procs_free_                                          *)
          walked   (* before_wait is through with procs_free_              *)

serverVars == <<clientVars, srv, conn, procs, walked>>
ownVars == <<srv, conn, procs, walked>>

\* lfd: lfd_ is a descriptor; stray: one is open that lfd_ no longer names;
\* bound: ev_ and fe_ are set; told: on_close was called.
Server == [lfd : BOOLEAN, stray : BOOLEAN, bound : BOOLEAN, closing : BOOLEAN,
           told : BOOLEAN, deleted : BOOLEAN]

\* queued: not yet accepted; given: the application has the descriptor.
ConnStates == {"none", "queued", "given", "client", "closed"}

ServerTypeOK ==
    /\ ClientTypeOK
    /\ srv \in [Listeners -> Server]
    /\ conn \in [Files -> ConnStates]
    /\ procs \in SUBSET Listeners
    /\ walked \in BOOLEAN

ServerInit ==
    /\ ClientInit
    /\ srv = [s \in Listeners |-> [lfd |-> FALSE, stray |-> FALSE, bound |-> FALSE,
                  closing |-> FALSE, told |-> FALSE, deleted |-> FALSE]]
    /\ conn = [f \in Files |-> "none"]
    /\ procs = {}
    /\ walked = FALSE

-----------------------------------------------------------------------------
(***************************************************************************)
(* What the application calls.                                             *)
(***************************************************************************)
Alive(s) == AppCode /\ ~srv[s].deleted /\ ~srv[s].closing

\* open, when the address is free.  When listen fails lfd_ is forgotten before
\* it is closed.
Open(s) ==
    /\ Alive(s)
    /\ ~srv[s].lfd /\ ~srv[s].stray
    /\ \E ok \in BOOLEAN : srv' = [srv EXCEPT ![s].lfd = ok, ![s].stray = ~ok]
    /\ UNCHANGED <<clientVars, conn, procs, walked>>

\* accept_await: bind and read_await.
AcceptAwait(s) ==
    /\ Alive(s)
    /\ srv[s].lfd /\ ~srv[s].bound
    /\ EpollAddDir(s, READ, "read_proc")
    /\ srv' = [srv EXCEPT ![s].bound = TRUE]
    /\ UNCHANGED <<cli, loopVars, conn, procs, walked>>

\* event_proc's read_await, as a handler that goes on accepting calls it.
ServerReadAwait(s) ==
    /\ Alive(s)
    /\ srv[s].bound
    /\ EpollAddDir(s, READ, "read_proc")
    /\ UNCHANGED <<cli, loopVars, ownVars>>

\* event_proc's read_disable.
ServerReadDisable(s) ==
    /\ Alive(s)
    /\ srv[s].bound
    /\ EpollDelDir(s, READ)
    /\ UNCHANGED <<cli, loopVars, ownVars>>

\* Slip: the file stays with the loop until it is freed.
ServerCloseAwaitKeeps(s) ==
    /\ Alive(s)
    /\ srv[s].bound
    /\ procs' = procs \cup {s}
    /\ srv' = [srv EXCEPT ![s].closing = TRUE]
    /\ UNCHANGED <<clientVars, conn, walked>>

\* event_proc's close_await with delay_close; it does nothing before bind.
ServerCloseAwait(s) ==
    /\ Alive(s)
    /\ srv[s].bound
    /\ EpollDisable(s)
    /\ procs' = procs \cup {s}
    /\ srv' = [srv EXCEPT ![s].closing = TRUE]
    /\ UNCHANGED <<cli, loopVars, conn, walked>>

\* accept called by the application itself.
Accept(s, c) ==
    /\ Alive(s)
    /\ srv[s].lfd /\ conn[c] = "queued"
    /\ conn' = [conn EXCEPT ![c] = "given"]
    /\ UNCHANGED <<clientVars, srv, procs, walked>>

\* The destructors: the descriptor is closed and the file freed.
DeleteServer(s) ==
    /\ AppCode /\ ~srv[s].deleted
    /\ srv[s].told \/ ~srv[s].bound
    /\ srv' = [srv EXCEPT ![s].deleted = TRUE, ![s].lfd = FALSE]
    /\ kern' = [kern EXCEPT ![s] = NoEntry]
    /\ UNCHANGED <<vars, fdcount, batch, calls, owed, cli, loopVars, conn, procs, walked>>

\* What the application does with an accepted descriptor.
Build(c) ==
    /\ AppCode /\ conn[c] = "given"
    /\ conn' = [conn EXCEPT ![c] = "client"]
    /\ UNCHANGED <<clientVars, srv, procs, walked>>

Drop(c) ==
    /\ AppCode /\ conn[c] = "given"
    /\ conn' = [conn EXCEPT ![c] = "closed"]
    /\ UNCHANGED <<clientVars, srv, procs, walked>>

ClientCode(c) ==
    /\ conn[c] = "client"
    /\ (\E d \in Dirs, timed \in BOOLEAN : Await(c, d, timed)) \/ CloseAwait(c)
    /\ UNCHANGED ownVars

-----------------------------------------------------------------------------
(***************************************************************************)
(* A peer connects, and the loop.                                          *)
(***************************************************************************)
Arrives(c) ==
    /\ \E s \in Listeners : srv[s].lfd
    /\ conn[c] = "none"
    /\ conn' = [conn EXCEPT ![c] = "queued"]
    /\ UNCHANGED <<clientVars, srv, procs, walked>>

Waiting == {c \in Files \ Listeners : conn[c] = "queued"}

\* read_proc and on_read, up to the handler: one connection is accepted, or
\* accept fails and on_error is called, or there is none any more.
OnRead ==
    /\ calls # <<>> /\ ~entered
    /\ Head(calls).proc = "read_proc"
    /\ \/ /\ \E c \in Waiting : conn' = [conn EXCEPT ![c] = "given"]
          /\ entered' = TRUE
          /\ UNCHANGED epollVars
       \/ entered' = TRUE /\ UNCHANGED <<epollVars, conn>>
       \/ Waiting = {} /\ CallReturns /\ UNCHANGED <<entered, conn>>
    /\ UNCHANGED <<cli, timers, due, firing, free, phase, srv, procs, walked>>

\* One turn of the loop over procs_free_; the handler runs.
OnClose(s) ==
    /\ stage = "before_wait" /\ ~walked
    /\ s \in procs
    /\ procs' = procs \ {s}
    /\ srv' = [srv EXCEPT ![s].told = TRUE]
    /\ entered' = TRUE
    /\ UNCHANGED <<epollVars, cli, timers, due, firing, free, phase, conn, walked>>

\* Slip: the list is cleared while a handler may have added to it.
WalkedDrops ==
    /\ stage = "before_wait" /\ ~walked
    /\ procs' = {}
    /\ walked' = TRUE
    /\ UNCHANGED <<clientVars, srv, conn>>

\* procs_free_ is at its end, with what handlers added, and cleared.
Walked ==
    /\ stage = "before_wait" /\ ~walked
    /\ procs = {}
    /\ walked' = TRUE
    /\ UNCHANGED <<clientVars, srv, conn, procs>>

\* clients_free_ follows.
ServerClose(c) ==
    /\ walked
    /\ Close(c)
    /\ conn' = [conn EXCEPT ![c] = "closed"]
    /\ UNCHANGED <<srv, procs, walked>>

\* A listening descriptor is readable while a connection waits.
ServerEpollWait ==
    /\ walked
    /\ ClientEpollWait
    /\ \A r \in batch' : r.file \in Listeners => r.evs = {READ} /\ Waiting # {}
    /\ walked' = FALSE
    /\ UNCHANGED <<srv, conn, procs>>

ServerLoop ==
    \/ OnRead
    \/ \E s \in Listeners : OnClose(s)
    \/ Walked
    \/ \E c \in Files : ServerClose(c)
    \/ ServerEpollWait
    \/ /\ \/ ClientWaitBegin \/ ClientPrepare
          \/ \E r \in batch : ClientPick(r)
          \/ Callback \/ CallbackReturns \/ ClientEpollReturn
          \/ TriggerTimers
          \/ \E t \in due : OnTimer(t[1], t[2])
          \/ OnTimerReturns \/ WaitEnd
       /\ UNCHANGED ownVars

ServerApplication ==
    \/ \E s \in Listeners :
          \/ Open(s) \/ AcceptAwait(s) \/ ServerReadAwait(s)
          \/ ServerReadDisable(s) \/ ServerCloseAwait(s) \/ DeleteServer(s)
          \/ \E c \in Files \ Listeners : Accept(s, c)
    \/ \E c \in Files \ Listeners : Build(c) \/ Drop(c) \/ ClientCode(c)

ServerNext ==
    ServerLoop \/ ServerApplication \/ \E c \in Files \ Listeners : Arrives(c)

ServerSpec == ServerInit /\ [][ServerNext]_serverVars

(***************************************************************************)
(* Fairness: the loop goes on turning and handlers return; a listening     *)
(* descriptor with a connection waiting is reported in infinitely many of  *)
(* the waits that could report it, and accept does not fail for ever.      *)
(***************************************************************************)
Accepted(s) == OnRead /\ conn' # conn /\ Head(calls).file = s

ServerFairness ==
    /\ WF_serverVars(ServerLoop)
    /\ \A s \in Listeners :
          /\ SF_serverVars(ServerEpollWait /\ \E r \in batch' : r.file = s)
          /\ SF_serverVars(Accepted(s))

FairServerSpec == ServerSpec /\ ServerFairness

-----------------------------------------------------------------------------
(***************************************************************************)
(* Properties.                                                             *)
(***************************************************************************)

\* When a client is deleted, or a server was told that it is closed, nothing
\* refers to it: no list of the loop, no timer, nothing the kernel will report,
\* no event or callback still to be handled.  The application may free it.
NothingStale ==
    /\ ServerTypeOK
    /\ NothingDangling
    /\ \A s \in Listeners : srv[s].told \/ srv[s].deleted =>
          /\ s \notin procs \cup events
          /\ mask[s] = {} /\ ~kern[s].reg
          /\ \A r \in batch : r.file # s
          /\ \A i \in DOMAIN calls : calls[i].file # s

\* Whatever is asked to close, a server too, is told: whichever handler asks and
\* whichever of the two lists is walked at the time.
EveryCloseEnds ==
    /\ ClosingEnds
    /\ \A s \in Listeners : srv[s].closing ~> srv[s].told

\* A connection that waits is accepted as long as the server wants to: nothing
\* is lost between the one accept of an event and the next.
ConnectionServed ==
    \A s \in Listeners : \A c \in Files \ Listeners :
        ~Oneshot /\ conn[c] = "queued" /\ READ \in wanted[s]
            ~> conn[c] # "queued" \/ READ \notin wanted[s]
=============================================================================
