--------------------------- MODULE EventRegistry ---------------------------
(***************************************************************************)
(* What the event core promises to the code above it, with nothing about   *)
(* how: the application states, file by file, which directions it is       *)
(* interested in, and whenever the loop is about to sleep the operating    *)
(* system is watching exactly that (or, for a file the system may refuse   *)
(* to watch, nothing more than that).  Watching     *)
(* changes in only one way: towards the interest of the moment.            *)
(*                                                                         *)
(* NioEvent implements this module with a list of deferred operations.     *)
(***************************************************************************)

CONSTANTS Files,    (* the registered files                                *)
          Dirs,     (* the directions, reading and writing                 *)
          Refusable (* the files the system may refuse to watch            *)

VARIABLES interest, (* what the application asked for                      *)
          watched,  (* what the operating system watches                   *)
          asleep    (* the loop has handed control to the backend          *)

registryVars == <<interest, watched, asleep>>

RegistryInit ==
    /\ interest = [f \in Files |-> {}]
    /\ watched = [f \in Files |-> {}]
    /\ asleep = FALSE

\* What watching a file comes to when it is brought in line with W.
Towards(f, W) ==
    \/ watched' = [watched EXCEPT ![f] = W]
    \/ /\ f \in Refusable
       /\ \E S \in SUBSET W : watched' = [watched EXCEPT ![f] = S]

\* The application changes its mind about one file; the system may be told
\* at once.
Request(f) ==
    /\ \E W \in SUBSET Dirs :
          /\ interest' = [interest EXCEPT ![f] = W]
          /\ watched' = watched \/ Towards(f, W)
    /\ UNCHANGED asleep

\* A change that was put off reaches the system.
Sync(f) ==
    /\ Towards(f, interest[f])
    /\ UNCHANGED <<interest, asleep>>

\* The loop may sleep only when nothing is put off any more.
Sleep ==
    /\ ~asleep
    /\ \A f \in Files :
          /\ watched[f] \subseteq interest[f]
          /\ f \notin Refusable => watched[f] = interest[f]
    /\ asleep' = TRUE
    /\ UNCHANGED <<interest, watched>>

Wake ==
    /\ asleep
    /\ asleep' = FALSE
    /\ UNCHANGED <<interest, watched>>

RegistryNext == (\E f \in Files : Request(f) \/ Sync(f)) \/ Sleep \/ Wake

RegistrySpec == RegistryInit /\ [][RegistryNext]_registryVars
=============================================================================
