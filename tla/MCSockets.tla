------------------------------ MODULE MCSockets ------------------------------
(***************************************************************************)
(* Sockets of the C++ library on one loop, in one of three casts: a client *)
(* with all its operations; two clients on open descriptors that only read *)
(* and close, so that each may close the other from its handlers; a server *)
(* and the client the application builds on the connection it accepts.     *)
(***************************************************************************)
EXTENDS ServerSocket

MCTwo == {0, 1}
MCListeners == {0}
MCProcs == {"connect_callback", "read_callback", "write_callback", "read_proc"}

VARIABLE cast   (* who plays in this behaviour *)

MCVars == <<cast, serverVars>>

MCInit ==
    /\ cast \in {"client", "pair", "server"}
    /\ ServerInit
    /\ ~cli[0].open => cast = "client"
    /\ cli[1].open

MCPairCode(c) == (\E timed \in BOOLEAN : Await(c, READ, timed)) \/ CloseAwait(c)

MCClients ==
    /\ \/ ClientLoop
       \/ cast = "client" /\ ClientApplication(0)
       \/ cast = "pair" /\ \E c \in Files : MCPairCode(c)
    /\ UNCHANGED ownVars

MCNext ==
    /\ UNCHANGED cast
    /\ IF cast = "server" THEN ServerNext ELSE MCClients

MCLoop ==
    /\ UNCHANGED cast
    /\ IF cast = "server" THEN ServerLoop ELSE ClientLoop /\ UNCHANGED ownVars

MCFairness ==
    /\ WF_MCVars(MCLoop)
    /\ \A s \in Listeners :
          /\ SF_MCVars(MCLoop /\ ServerEpollWait /\ \E r \in batch' : r.file = s)
          /\ SF_MCVars(MCLoop /\ Accepted(s))

MCSpec == MCInit /\ [][MCNext]_MCVars /\ MCFairness
=============================================================================
