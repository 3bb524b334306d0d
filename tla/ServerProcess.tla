---------------------------- MODULE ServerProcess ----------------------------
(***************************************************************************)
(* The server process: run of cmd/server, Server.New, Serve and Close, and *)
(* the connections from the listener's queue to ServeQUICConn.             *)
(*                                                                         *)
(* Close is called by two goroutines: the one that Serve starts, when the  *)
(* context is done, and run's defer.  closeOnce lets one of them in and    *)
(* makes the other wait.  What run returns is left out: an error is        *)
(* printed and takes the same way through the defers.                      *)
(*                                                                         *)
(* quic-go's part is modelled by how the server uses it: wt.Close may end  *)
(* connections that are served, closing the listener ends those that were  *)
(* not accepted, and closing the transport ends all.                       *)
(***************************************************************************)
EXTENDS Integers, FiniteSets

CONSTANT Conns  \* connections that clients may open

VARIABLES
  serverCtx,  \* the context of the process is done
  main,       \* where run of cmd/server is
  closer,     \* the goroutine that Serve starts
  closeOnce,  \* the next call of the body of Close
  closing,    \* who runs the body of Close
  conn,       \* how far the server has taken each connection
  alive,      \* connections whose context is not done
  counted,    \* connections that AfterFunc still has to take from the gauge
  active,     \* the gauge ConnectionsActive
  abandoned   \* connections that were alive when the process ended

procVars == <<serverCtx, main>>
closeVars == <<closer, closeOnce, closing>>
connVars == <<conn, alive, counted, active, abandoned>>
serverVars == <<procVars, closeVars, connVars>>

Nobody == "nobody"

ServerInit ==
  /\ serverCtx = FALSE /\ main = "new"
  /\ closer = "off" /\ closeOnce = "new" /\ closing = Nobody
  /\ conn = [c \in Conns |-> "none"] /\ alive = {} /\ counted = {} /\ active = 0
  /\ abandoned = {}

Up == main # "exited"

-----------------------------------------------------------------------------
(* run                                                                     *)

\* The UDP socket, server.New with its listener, and the signal handler.
New ==
  /\ main = "new"
  /\ main' = "metrics"
  /\ UNCHANGED <<serverCtx, closeVars, connVars>>

\* The certificates, the socket, the upload directory or the listener fails.
NewFails ==
  /\ main = "new"
  /\ main' = "exited"
  /\ UNCHANGED <<serverCtx, closeVars, connVars>>

\* servePlainMetrics listens; Serve starts its goroutine.
Serve ==
  /\ main = "metrics"
  /\ main' = "accept" /\ closer' = "wait"
  /\ UNCHANGED <<serverCtx, closeOnce, closing, connVars>>

servePlainMetricsFails ==
  /\ main = "metrics"
  /\ main' = "stop"
  /\ UNCHANGED <<serverCtx, closeVars, connVars>>

\* listener.Accept fails: the context is done, or the socket fails.
AcceptFails ==
  /\ main = "accept"
  /\ main' = "stop"
  /\ UNCHANGED <<serverCtx, closeVars, connVars>>

\* The deferred stop() cancels the context.
Stop ==
  /\ main = "stop"
  /\ serverCtx' = TRUE /\ main' = "close"
  /\ UNCHANGED <<closeVars, connVars>>

\* The deferred pc.Close(), and the process ends with all it holds.
Exit ==
  /\ main = "closed"
  /\ main' = "exited" /\ abandoned' = alive
  /\ closer' = "off" /\ closing' = Nobody
  /\ conn' = [c \in Conns |-> "none"] /\ alive' = {} /\ counted' = {} /\ active' = 0
  /\ UNCHANGED <<serverCtx, closeOnce>>

\* SIGINT or SIGTERM once the handler is installed.
ServerSignal ==
  /\ Up /\ main # "new" /\ ~ serverCtx
  /\ serverCtx' = TRUE
  /\ UNCHANGED <<main, closeVars, connVars>>

-----------------------------------------------------------------------------
(* Close                                                                   *)

\* Serve's goroutine wakes.
CloserWakes ==
  /\ Up /\ closer = "wait" /\ serverCtx
  /\ closer' = "close"
  /\ UNCHANGED <<procVars, closeOnce, closing, connVars>>

Calls(who) ==
  \/ who = "main" /\ main = "close"
  \/ who = "closer" /\ closer = "close"

CloseEnters(who) ==
  /\ Up /\ Calls(who) /\ closeOnce = "new"
  /\ closeOnce' = "wt" /\ closing' = who
  /\ UNCHANGED <<procVars, closer, connVars>>

\* wt.Close ends sessions and with them, perhaps, connections.
CloseWT ==
  /\ Up /\ closeOnce = "wt"
  /\ closeOnce' = "listener"
  /\ \E ended \in SUBSET {c \in alive : conn[c] = "served"} : alive' = alive \ ended
  /\ UNCHANGED <<procVars, closer, closing, conn, counted, active, abandoned>>

CloseListener ==
  /\ Up /\ closeOnce = "listener"
  /\ closeOnce' = "transport"
  /\ alive' = {c \in alive : conn[c] # "queued"}
  /\ UNCHANGED <<procVars, closer, closing, conn, counted, active, abandoned>>

CloseTransport ==
  /\ Up /\ closeOnce = "transport"
  /\ closeOnce' = "done" /\ alive' = {}
  /\ UNCHANGED <<procVars, closer, closing, conn, counted, active, abandoned>>

\* Variant: a flag in place of sync.Once, so that the second caller does not wait.
CloseReturnsAtOnce(who) ==
  /\ Up /\ Calls(who)
  /\ closeOnce = "done" \/ (closeOnce # "new" /\ closing # who)
  /\ IF who = "main" THEN main' = "closed" /\ UNCHANGED closer
                     ELSE closer' = "done" /\ UNCHANGED main
  /\ UNCHANGED <<serverCtx, closeOnce, closing, connVars>>

CloseReturns(who) ==
  /\ Up /\ Calls(who) /\ closeOnce = "done"
  /\ IF who = "main" THEN main' = "closed" /\ UNCHANGED closer
                     ELSE closer' = "done" /\ UNCHANGED main
  /\ UNCHANGED <<serverCtx, closeOnce, closing, connVars>>

-----------------------------------------------------------------------------
(* Connections                                                             *)

\* A client opens a connection: the listener is there and not closed.
Handshake(c) ==
  /\ Up /\ main # "new" /\ conn[c] = "none"
  /\ closeOnce \in {"new", "wt", "listener"}
  /\ conn' = [conn EXCEPT ![c] = "queued"] /\ alive' = alive \cup {c}
  /\ UNCHANGED <<procVars, closeVars, counted, active, abandoned>>

\* listener.Accept returns a connection, although it may have ended by now.
Accept(c) ==
  /\ main = "accept" /\ conn[c] = "queued"
  /\ closeOnce \in {"new", "wt", "listener"}
  /\ conn' = [conn EXCEPT ![c] = "accepted"]
  /\ UNCHANGED <<procVars, closeVars, alive, counted, active, abandoned>>

\* Variant: ConnContext without the AfterFunc.
ServeQUICConnForgets(c) ==
  /\ Up /\ conn[c] = "accepted"
  /\ conn' = [conn EXCEPT ![c] = "served"]
  /\ active' = active + 1
  /\ UNCHANGED <<procVars, closeVars, alive, counted, abandoned>>

\* The goroutine of the connection: ServeQUICConn calls ConnContext, which counts the
\* connection and has it taken back when its context is done, even if it is already.
ServeQUICConn(c) ==
  /\ Up /\ conn[c] = "accepted"
  /\ conn' = [conn EXCEPT ![c] = "served"]
  /\ active' = active + 1 /\ counted' = counted \cup {c}
  /\ UNCHANGED <<procVars, closeVars, alive, abandoned>>

AfterFunc(c) ==
  /\ Up /\ c \in counted \ alive
  /\ active' = active - 1 /\ counted' = counted \ {c}
  /\ UNCHANGED <<procVars, closeVars, conn, alive, abandoned>>

\* The client closes the connection, or it is idle for too long.
ConnEnds(c) ==
  /\ Up /\ c \in alive
  /\ alive' = alive \ {c}
  /\ UNCHANGED <<procVars, closeVars, conn, counted, active, abandoned>>

-----------------------------------------------------------------------------
ServerMain ==
  \/ New \/ NewFails \/ Serve \/ servePlainMetricsFails
  \/ AcceptFails \/ Stop \/ Exit

CloseBody == CloseWT \/ CloseListener \/ CloseTransport
CloseCall(who) == CloseEnters(who) \/ CloseReturns(who)

\* The steps that need nobody else.
ServerNext ==
  \/ ServerMain \/ ServerSignal \/ CloserWakes
  \/ \E who \in {"main", "closer"} : CloseCall(who)
  \/ CloseBody
  \/ \E c \in Conns : Accept(c) \/ ServeQUICConn(c) \/ AfterFunc(c)

(***************************************************************************)
(* Goroutines that can run do.  Signals are not assumed, nor that Accept   *)
(* fails while the context is not done.                                    *)
(***************************************************************************)
ServerFairness ==
  /\ WF_serverVars(ServerMain /\ (main = "accept" => serverCtx))
  /\ WF_serverVars(CloserWakes) /\ WF_serverVars(CloseBody)
  /\ \A who \in {"main", "closer"} : WF_serverVars(CloseCall(who))
  /\ \A c \in Conns : WF_serverVars(ServeQUICConn(c)) /\ WF_serverVars(AfterFunc(c))

\* The variables of the server have their types.
ServerTypeOK ==
  /\ serverCtx \in BOOLEAN
  /\ main \in {"new", "metrics", "accept", "stop", "close", "closed", "exited"}
  /\ closer \in {"off", "wait", "close", "done"}
  /\ closeOnce \in {"new", "wt", "listener", "transport", "done"}
  /\ closing \in {Nobody, "main", "closer"}
  /\ conn \in [Conns -> {"none", "queued", "accepted", "served"}]
  /\ alive \subseteq Conns /\ counted \subseteq Conns /\ abandoned \subseteq Conns
  /\ active \in Nat
=============================================================================
