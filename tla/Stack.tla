-------------------------------- MODULE Stack --------------------------------
(***************************************************************************)
(* A server process and a fleet with its client processes: each client has *)
(* one connection to the server.                                           *)
(*                                                                         *)
(* Nothing but the connections ties the two sides together.  A client is   *)
(* ready when the server serves its connection.  A client that is gone,    *)
(* whether it closed its connection or was killed, is noticed by the       *)
(* server at the latest when the connection has been idle for too long.    *)
(***************************************************************************)
EXTENDS Fleet, ServerProcess

ASSUME OneConnEach == Conns = Clients

vars == <<fleetVars, serverVars>>

Init == FleetInit /\ ServerInit

\* The client dials.
Dial(c) == client[c] = "starting" /\ Handshake(c) /\ UNCHANGED fleetVars

\* The server answers the calls that a client makes before its role runs.
Serves(c) == conn[c] = "served" /\ c \in alive
ClientReady(c) == main # "exited" /\ Serves(c) /\ Ready(c) /\ UNCHANGED serverVars

\* The port of a client is taken, the server is not there, or it ends the connection.
ClientFails(c) == ClientStartFails(c) /\ UNCHANGED serverVars

\* The session of a client has ended with its connection.
ClientLoses(c) == c \notin alive /\ Loses(c) /\ UNCHANGED serverVars

\* The connection of a client, or the one it dials in its place, dies too early.
ClientWedges(c) == c \notin alive /\ Wedges(c) /\ UNCHANGED serverVars

\* The network ends a connection, or its client does, or the time it may be idle.
LinkEnds(c) == ConnEnds(c) /\ UNCHANGED fleetVars

\* A client that uses no connection any more.
Released(c) == client[c] \in Gone \cup {"none", "wedged"}

Next ==
  \/ FleetNext /\ UNCHANGED serverVars
  \/ ServerNext /\ UNCHANGED fleetVars
  \/ \E c \in Clients :
       \/ Dial(c) \/ ClientReady(c) \/ ClientFails(c)
       \/ ClientLoses(c) \/ ClientWedges(c) \/ LinkEnds(c)

(***************************************************************************)
(* Both processes run; the connection of a client that is gone ends, and   *)
(* a wedged one has closed its own.  Clients need not become ready, fail,  *)
(* nor be wedged.                                                          *)
(***************************************************************************)
Spec ==
  /\ Init /\ [][Next]_vars
  /\ FleetFairness /\ ServerFairness
  /\ \A c \in Clients : WF_vars(Released(c) /\ LinkEnds(c))

-----------------------------------------------------------------------------
(* Properties                                                              *)

\* Both sides have their types.
TypeOK == FleetTypeOK /\ ServerTypeOK

\* A server that is told to stop exits, and not before Close has ended every connection,
\* whichever of Serve's goroutine and run's defer is the one that closes.
ServerStopsClean == serverCtx ~> (main = "exited" /\ abandoned = {})

\* The failure of a client that the fleet hears of, even one during the start of the
\* others, ends the fleet.
FailureEndsFleet ==
  \A c \in Clients :
    (client[c] = "failed" /\ waiter[c] = "wait" /\ ~ fleetCtx) ~> (fleet = "exited")

\* "the fleet SIGTERMs them on shutdown" (Makefile:224): a fleet that was signalled and
\* has exited leaves no client that was neither told to stop nor killed.  It does, when
\* the signal comes in the pause between two starts (cmd/fleet/main.go:191).
FleetTellsClients ==
  (fleet = "exited" /\ ~ fleetErr) => \A c \in Clients : client[c] \notin Untold

\* When the fleet and its clients are gone, however they went, or are wedged for ever, the
\* gauge of the server goes back to zero and stays there.
AllGone == fleet = "exited" /\ \A c \in Clients : Released(c)
GaugeSettles == AllGone ~> (main = "exited" \/ [](active = 0))
=============================================================================
