------------------------------ MODULE NioEvent ------------------------------
(***************************************************************************)
(* The event core, c/src/nio_event.c: what every backend (epoll, poll,     *)
(* select, kqueue) shares.  An application registers a callback for a      *)
(* direction of a file; unless the loop was created with NIO_EVENT_DIRECT  *)
(* the change is only noted in fe->oper and the file linked into           *)
(* ev->events, and nio_event_prepare carries it out before the next wait.  *)
(*                                                                         *)
(* The backend is abstract here: it is known by the mask it leaves in      *)
(* fe->mask (operator Backend).  NioEpoll replaces it by the real one.     *)
(*                                                                         *)
(* add_read/add_write and del_read/del_write are the same code with READ   *)
(* and WRITE exchanged, so each pair is one operator with a direction.     *)
(* The list ev->events is a set: its entries are processed one by one,     *)
(* each touching its own file only, in an order left open.                 *)
(***************************************************************************)
EXTENDS Integers, FiniteSets

CONSTANTS Files,    (* the NIO_FILEs, each named by its descriptor         *)
          SetSize,  (* ev->setsize, the size given to nio_event_create     *)
          Sockets,  (* the descriptors that cannot seek: sockets and pipes *)
          Procs,    (* the callbacks                                       *)
          NULL,     (* no callback                                         *)
          Refusable (* the descriptors the system may refuse to watch      *)

ASSUME CoreAssumption ==
    /\ Files \subseteq Nat
    /\ SetSize \in Nat
    /\ NULL \notin Procs

READ == "READ"
WRITE == "WRITE"
Dirs == {READ, WRITE}

\* The bits of fe->oper.
AddOp(d) == <<"ADD", d>>
DelOp(d) == <<"DEL", d>>
Opers == {AddOp(d) : d \in Dirs} \cup {DelOp(d) : d \in Dirs}

VARIABLES flags,    (* ev->flags, given at creation                        *)
          type,     (* fe->type                                            *)
          mask,     (* fe->mask, the directions the backend watches        *)
          oper,     (* fe->oper, the operations put off                    *)
          proc,     (* fe->r_proc and fe->w_proc                           *)
          events,   (* ev->events, the files with operations put off       *)
          stage,    (* where nio_event_wait2 stands                        *)
          wanted    (* history: the directions asked for and not given up  *)

Oneshot == "ONESHOT" \in flags
Direct == "DIRECT" \in flags

feVars == <<type, mask, oper, proc>>
vars == <<flags, type, mask, oper, proc, events, stage, wanted>>

Stages == {"app", "prepare", "before_wait", "event_wait"}

TypeOK ==
    /\ flags \in SUBSET {"ONESHOT", "DIRECT"}
    /\ type \in [Files -> {"NONE", "SOCK", "NOSOCK"}]
    /\ mask \in [Files -> SUBSET Dirs]
    /\ oper \in [Files -> SUBSET Opers]
    /\ proc \in [Files -> [Dirs -> Procs \cup {NULL}]]
    /\ events \in SUBSET Files
    /\ stage \in Stages
    /\ wanted \in [Files -> SUBSET Dirs]

\* nio_file_alloc for every file, nio_event_create for the loop.
Init ==
    /\ flags \in SUBSET {"ONESHOT", "DIRECT"}
    /\ type = [f \in Files |-> "NONE"]
    /\ mask = [f \in Files |-> {}]
    /\ oper = [f \in Files |-> {}]
    /\ proc = [f \in Files |-> [d \in Dirs |-> NULL]]
    /\ events = {}
    /\ stage = "app"
    /\ wanted = [f \in Files |-> {}]

-----------------------------------------------------------------------------
(***************************************************************************)
(* What a set of backend calls does to fe->mask: the deletions first, then *)
(* the additions, as nio_event_prepare orders them.  A deletion always     *)
(* clears the bit; an addition sets it, or fails and leaves it.            *)
(***************************************************************************)
Deleted(calls) == {d \in Dirs : DelOp(d) \in calls}
Added(calls) == {d \in Dirs : AddOp(d) \in calls}

Backend(f, calls) ==
    \E S \in SUBSET Added(calls) :
        /\ f \notin Refusable => S = Added(calls)
        /\ mask' = [mask EXCEPT ![f] = (@ \ Deleted(calls)) \cup S]

-----------------------------------------------------------------------------
(***************************************************************************)
(* nio_event_add_read, nio_event_add_write.                                *)
(***************************************************************************)
Acceptable(f) == type[f] # "NOSOCK" /\ f < SetSize

NeedsAddOnce(f, d) == d \notin mask[f]   \* slip: the ONESHOT mode is not tested

NeedsAdd(f, d) == d \notin mask[f] \/ Oneshot

CheckFd(f) == f \in Sockets

\* The first registration finds a descriptor that is no socket: it is marked
\* and the call returns 0.  (The other refusals, a marked file or a
\* descriptor beyond setsize, return 0 and change nothing.)
AddRefused(f, d) ==
    /\ Acceptable(f)
    /\ NeedsAdd(f, d)
    /\ type[f] = "NONE"
    /\ ~CheckFd(f)
    /\ type' = [type EXCEPT ![f] = "NOSOCK"]
    /\ oper' = [oper EXCEPT ![f] = @ \ {DelOp(d)}]
    /\ UNCHANGED <<flags, mask, proc, events, stage, wanted>>

\* fe->oper after the call.
AddOperKeepsDel(f, d) == oper[f] \cup {o \in {AddOp(d)} : NeedsAdd(f, d)} \* slip: a deletion put off is not taken back

AddOper(f, d) == (oper[f] \ {DelOp(d)}) \cup {o \in {AddOp(d)} : NeedsAdd(f, d)}

\* The operation that is put off, if one is needed, and the callback.
AddFe(f, d, p) ==
    /\ Acceptable(f)
    /\ NeedsAdd(f, d) /\ type[f] = "NONE" => CheckFd(f)
    /\ type' = IF NeedsAdd(f, d) THEN [type EXCEPT ![f] = "SOCK"] ELSE type
    /\ oper' = [oper EXCEPT ![f] = AddOper(f, d)]
    /\ events' = events \cup {g \in {f} : NeedsAdd(f, d) /\ ~Direct}
    /\ proc' = [proc EXCEPT ![f][d] = p]
    /\ wanted' = [wanted EXCEPT ![f] = @ \cup {d}]
    /\ UNCHANGED <<flags, stage>>

AddCalls(f, d) == {o \in {AddOp(d)} : Direct /\ NeedsAdd(f, d)}

(***************************************************************************)
(* nio_event_del_read, nio_event_del_write.                                *)
(***************************************************************************)
DelDefers(f, d) == d \in mask[f] /\ ~Direct

\* fe->oper after the call.
DelOper(f, d) == (oper[f] \ {AddOp(d)}) \cup {o \in {DelOp(d)} : DelDefers(f, d)}

\* The callbacks after the call.
DelProc(f, d) == [proc EXCEPT ![f][d] = NULL]

DelFe(f, d) ==
    /\ oper' = [oper EXCEPT ![f] = DelOper(f, d)]
    /\ events' = events \cup {g \in {f} : DelDefers(f, d)}
    /\ proc' = DelProc(f, d)
    /\ wanted' = [wanted EXCEPT ![f] = @ \ {d}]
    /\ UNCHANGED <<flags, type, stage>>

DelCalls(f, d) == {o \in {DelOp(d)} : Direct /\ d \in mask[f]}

(***************************************************************************)
(* nio_event_del_readwrite: carried out at once in every mode.  The        *)
(* callbacks stay in place.                                                *)
(***************************************************************************)

\* Slip: what was put off for the file stays put off.
DelReadWriteFeKeepsOper(f) ==
    /\ wanted' = [wanted EXCEPT ![f] = {}]
    /\ UNCHANGED <<flags, type, oper, proc, events, stage>>

DelReadWriteFe(f) ==
    /\ oper' = [oper EXCEPT ![f] = {}]
    /\ events' = events \ {f}
    /\ wanted' = [wanted EXCEPT ![f] = {}]
    /\ UNCHANGED <<flags, type, proc, stage>>

DelReadWriteCalls(f) == {DelOp(d) : d \in mask[f]}

-----------------------------------------------------------------------------
(***************************************************************************)
(* nio_event_wait2: prepare, then the before_wait callback, then the       *)
(* backend's event_wait, then back to the caller.                          *)
(***************************************************************************)
WaitBegin ==
    /\ stage = "app"
    /\ stage' = "prepare"
    /\ UNCHANGED <<flags, feVars, events, wanted>>

\* One turn of the loop in nio_event_prepare; oper[f] is the set of calls.
PrepareFe(f) ==
    /\ stage = "prepare"
    /\ f \in events
    /\ oper' = [oper EXCEPT ![f] = {}]
    /\ events' = events \ {f}
    /\ UNCHANGED <<flags, type, proc, stage, wanted>>

PrepareEnd ==
    /\ stage = "prepare"
    /\ events = {}
    /\ stage' = "before_wait"
    /\ UNCHANGED <<flags, feVars, events, wanted>>

EventWait ==
    /\ stage = "before_wait"
    /\ stage' = "event_wait"
    /\ UNCHANGED <<flags, feVars, events, wanted>>

WaitReturn ==
    /\ stage = "event_wait"
    /\ stage' = "app"
    /\ UNCHANGED <<flags, feVars, events, wanted>>

-----------------------------------------------------------------------------
\* The application runs between two waits, in before_wait and in callbacks.
AppRuns == stage # "prepare"

Add(f, d) ==
    /\ AppRuns
    /\ \/ AddRefused(f, d)
       \/ \E p \in Procs : AddFe(f, d, p) /\ Backend(f, AddCalls(f, d))

Del(f, d) == AppRuns /\ DelFe(f, d) /\ Backend(f, DelCalls(f, d))

DelReadWrite(f) ==
    AppRuns /\ DelReadWriteFe(f) /\ Backend(f, DelReadWriteCalls(f))

Prepare(f) == PrepareFe(f) /\ Backend(f, oper[f])

Next ==
    \/ \E f \in Files :
          \/ \E d \in Dirs : Add(f, d) \/ Del(f, d)
          \/ DelReadWrite(f)
          \/ Prepare(f)
    \/ WaitBegin
    \/ PrepareEnd
    \/ EventWait
    \/ WaitReturn

Spec == Init /\ [][Next]_vars

-----------------------------------------------------------------------------
(***************************************************************************)
(* Properties.                                                             *)
(***************************************************************************)

\* The directions a file will have once what was put off is carried out.
Effective(f) ==
    IF Direct THEN mask[f]
    ELSE (mask[f] \ Deleted(oper[f])) \cup Added(oper[f])

\* Every file with an operation put off is in the list prepare walks
\* through: no add_read, add_write, del_read or del_write is forgotten.
NothingForgotten ==
    ~Direct => \A f \in Files : oper[f] # {} => f \in events

\* At no time are an addition and a deletion of one direction both put off,
\* and a deletion is put off only for what the backend watches: the order of
\* the four tests in nio_event_prepare cannot matter.
NoConflict ==
    \A f \in Files :
        /\ Deleted(oper[f]) \cap Added(oper[f]) = {}
        /\ Deleted(oper[f]) \subseteq mask[f]

\* After any sequence of calls the mask and the operations put off amount to
\* what the application asked for; only a refusal by the system loses some.
EffectiveIsWanted ==
    \A f \in Files :
        /\ Effective(f) \subseteq wanted[f]
        /\ f \notin Refusable => Effective(f) = wanted[f]

\* A direction that is wanted has its callback.
WantedHasProc ==
    \A f \in Files : \A d \in wanted[f] : proc[f][d] # NULL

\* In the DIRECT mode nothing is put off.
DirectIsImmediate ==
    Direct => events = {} /\ \A f \in Files : Deleted(oper[f]) = {}

\* Nothing is watched or put off for a descriptor not known to be a socket.
OnlySockets ==
    \A f \in Files : type[f] # "SOCK" => mask[f] = {} /\ oper[f] = {}

\* The inductive invariant.
CoreInv ==
    /\ TypeOK
    /\ NothingForgotten
    /\ NoConflict
    /\ EffectiveIsWanted
    /\ WantedHasProc
    /\ DirectIsImmediate
    /\ OnlySockets

\* When the list is empty the backend watches what is wanted.
SettledIsWanted ==
    events = {} =>
        \A f \in Files :
            /\ mask[f] \subseteq wanted[f]
            /\ f \notin Refusable => mask[f] = wanted[f]

\* The core implements its abstract specification.
Registry == INSTANCE EventRegistry
    WITH interest <- wanted, watched <- mask,
         asleep <- stage \in {"before_wait", "event_wait"}

RegistrySpec == Registry!RegistrySpec
=============================================================================
