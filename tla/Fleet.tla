-------------------------------- MODULE Fleet --------------------------------
(***************************************************************************)
(* The fleet process (cmd/fleet) and the client processes it starts        *)
(* (cmd/client).                                                           *)
(*                                                                         *)
(* The fleet writes the list of scrape targets, starts its clients one by  *)
(* one with a pause in between, and then waits for a signal or for the     *)
(* first client that fails.  For each client it has a goroutine in         *)
(* cmd.Wait, and the goroutine of exec.CommandContext that kills the       *)
(* process when the context is done.  Both end with the fleet: it never    *)
(* waits for its clients.  Nobody in the system reads the list of targets, *)
(* so that its content is left out.                                        *)
(*                                                                         *)
(* Ready, Loses, Wedges and the failing start of a client are what its     *)
(* environment does to it; module Stack says when.                         *)
(***************************************************************************)
EXTENDS Naturals

CONSTANT Count  \* number of clients

ASSUME CountAssumption == Count \in Nat \ {0}

Clients == 1..Count

VARIABLES
  fleetCtx,  \* the context of the fleet is done
  fleet,     \* where run of cmd/fleet is
  fleetErr,  \* run returns an error
  started,   \* clients started so far
  errCh,     \* clients whose error is in errCh
  client,    \* the client processes
  waiter     \* the goroutine of each client in the fleet

fleetVars == <<fleetCtx, fleet, fleetErr, started, errCh, client, waiter>>

Gone == {"exited", "failed"}
Running(c) == client[c] \notin Gone \cup {"none"}

\* Where a client is that nobody has told to stop.
Untold == {"starting", "running"}

FleetInit ==
  /\ fleetCtx = FALSE /\ fleet = "targets" /\ fleetErr = FALSE
  /\ started = 0 /\ errCh = {}
  /\ client = [c \in Clients |-> "none"]
  /\ waiter = [c \in Clients |-> "off"]

Becomes(c, state) == client' = [client EXCEPT ![c] = state]

-----------------------------------------------------------------------------
(* run                                                                     *)

\* The first writeTargetsFile succeeds or ends the fleet.
writeTargetsFile ==
  /\ fleet = "targets"
  /\ fleet' = "start"
  /\ UNCHANGED <<fleetCtx, fleetErr, started, errCh, client, waiter>>

TargetsFail ==
  /\ fleet = "targets"
  /\ fleetErr' = TRUE /\ fleet' = "exited"
  /\ UNCHANGED <<fleetCtx, started, errCh, client, waiter>>

\* cmd.Start, the goroutine that waits for the process, and the pause if another follows.
Start ==
  /\ fleet = "start" /\ ~ fleetCtx
  /\ Becomes(started + 1, "starting")
  /\ waiter' = [waiter EXCEPT ![started + 1] = "wait"]
  /\ started' = started + 1
  /\ fleet' = IF started + 1 = Count THEN "active" ELSE "pause"
  /\ UNCHANGED <<fleetCtx, fleetErr, errCh>>

\* cmd.Start fails, as it always does once the context is done: stop() and an error.
StartFails ==
  /\ fleet = "start"
  /\ fleetCtx' = TRUE
  /\ fleetErr' = TRUE /\ fleet' = "defers"
  /\ UNCHANGED <<started, errCh, client, waiter>>

PauseEnds ==
  /\ fleet = "pause"
  /\ fleet' = "start"
  /\ UNCHANGED <<fleetCtx, fleetErr, started, errCh, client, waiter>>

\* The select of the pause takes ctx.Done(): return nil, and no client is told.
PauseCancelled ==
  /\ fleet = "pause" /\ fleetCtx
  /\ fleet' = "defers"
  /\ UNCHANGED <<fleetCtx, fleetErr, started, errCh, client, waiter>>

\* The last select takes ctx.Done(): SIGTERM to every client.  It means nothing to one
\* that is gone or wedged.
Terminate ==
  /\ fleet = "active" /\ fleetCtx
  /\ client' = [c \in Clients |-> IF client[c] \in Untold THEN "stopping" ELSE client[c]]
  /\ fleet' = "defers"
  /\ UNCHANGED <<fleetCtx, fleetErr, started, errCh, waiter>>

\* The last select takes an error: stop() and return it.
SeesError ==
  /\ fleet = "active" /\ errCh # {}
  /\ \E c \in errCh : errCh' = errCh \ {c}
  /\ fleetCtx' = TRUE
  /\ fleetErr' = TRUE /\ fleet' = "defers"
  /\ UNCHANGED <<started, client, waiter>>

\* The deferred rewrite of the targets file, whose error is ignored; then the process
\* ends and its goroutines with it.
FleetExits ==
  /\ fleet = "defers"
  /\ fleet' = "exited"
  /\ errCh' = {} /\ waiter' = [c \in Clients |-> "off"]
  /\ UNCHANGED <<fleetCtx, fleetErr, started, client>>

\* SIGINT or SIGTERM to the fleet.
FleetSignal ==
  /\ fleet # "exited" /\ ~ fleetCtx
  /\ fleetCtx' = TRUE
  /\ UNCHANGED <<fleet, fleetErr, started, errCh, client, waiter>>

-----------------------------------------------------------------------------
(* The goroutines of a client in the fleet                                 *)

\* Variant: an error that comes before run is in its last select is dropped.
WaitReturnsUnheard(c) ==
  /\ fleet # "exited" /\ waiter[c] = "wait" /\ client[c] \in Gone
  /\ waiter' = [waiter EXCEPT ![c] = "done"]
  /\ errCh' = IF client[c] # "exited" /\ ~ fleetCtx /\ fleet = "active"
              THEN errCh \cup {c} ELSE errCh
  /\ UNCHANGED <<fleetCtx, fleet, fleetErr, started, client>>

\* cmd.Wait returns; a failure is reported unless the fleet is stopping.
WaitReturns(c) ==
  /\ fleet # "exited" /\ waiter[c] = "wait" /\ client[c] \in Gone
  /\ waiter' = [waiter EXCEPT ![c] = "done"]
  /\ errCh' = IF client[c] # "exited" /\ ~ fleetCtx THEN errCh \cup {c} ELSE errCh
  /\ UNCHANGED <<fleetCtx, fleet, fleetErr, started, client>>

\* The goroutine of exec.CommandContext kills the process.
Kill(c) ==
  /\ fleet # "exited" /\ fleetCtx
  /\ waiter[c] = "wait" /\ Running(c)
  /\ Becomes(c, "failed")
  /\ UNCHANGED <<fleetCtx, fleet, fleetErr, started, errCh, waiter>>

-----------------------------------------------------------------------------
(* run of cmd/client                                                       *)

ClientStep(c, from, to) ==
  /\ client[c] = from /\ Becomes(c, to)
  /\ UNCHANGED <<fleetCtx, fleet, fleetErr, started, errCh, waiter>>

\* GetConfig and ConnectPubSub have succeeded: the role runs.
Ready(c) == ClientStep(c, "starting", "running")

\* The metrics port is taken, or one of the two calls fails.
ClientStartFails(c) == ClientStep(c, "starting", "failed")

\* The session has ended: role subscriber returns nil, a subscription that was still to
\* be made fails; the other roles go on.
Loses(c) ==
  \/ ClientStep(c, "running", "exited")
  \/ ClientStep(c, "running", "failed")

\* newSharedConn gives a connection up before its HTTP/3 settings have come: it closes the
\* connection, and the client waits for ever for sharedMu (module SharedConn).
Wedges(c) == \E from \in Untold : ClientStep(c, from, "wedged")

\* A client that was told to stop ends.  One that was starting fails instead, or is wedged
\* when it waits for the settings; and one of role mixed may be caught behind a queue that
\* nobody empties (module MixedClient).
ClientStops(c) ==
  \E to \in {"exited", "failed", "wedged", "caught"} : ClientStep(c, "stopping", to)

-----------------------------------------------------------------------------
FleetMain ==
  \/ writeTargetsFile \/ TargetsFail
  \/ Start \/ StartFails \/ PauseEnds \/ PauseCancelled
  \/ Terminate \/ SeesError \/ FleetExits

\* The steps that need nobody else.
FleetNext ==
  \/ FleetMain \/ FleetSignal
  \/ \E c \in Clients : WaitReturns(c) \/ Kill(c) \/ ClientStops(c)

(***************************************************************************)
(* Goroutines and processes that can run do; the pause is a timer.  No     *)
(* signal is assumed.                                                      *)
(***************************************************************************)
FleetFairness ==
  /\ WF_fleetVars(FleetMain)
  /\ \A c \in Clients : WF_fleetVars(WaitReturns(c)) /\ WF_fleetVars(ClientStops(c))

\* The variables of the fleet have their types.
FleetTypeOK ==
  /\ fleetCtx \in BOOLEAN /\ fleetErr \in BOOLEAN
  /\ fleet \in {"targets", "start", "pause", "active", "defers", "exited"}
  /\ started \in 0..Count
  /\ errCh \subseteq Clients
  /\ client \in [Clients -> Gone \cup Untold \cup {"none", "stopping", "wedged", "caught"}]
  /\ waiter \in [Clients -> {"off", "wait", "done"}]
=============================================================================
