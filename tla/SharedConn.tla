----------------------------- MODULE SharedConn -----------------------------
(***************************************************************************)
(* The QUIC connection a client shares between its requests and its pubsub *)
(* sessions (internal/client/shared_conn.go, Client.Close in client.go).   *)
(*                                                                         *)
(* Goroutines: the callers of getSharedConn, the two accept loops of every *)
(* connection, the monitor of every pubsub session, and Client.Close.  Two *)
(* things serialise them: Client.sharedMu, which getSharedConn keeps while *)
(* it dials, and the closeOnce of each connection, whose function ends by  *)
(* taking sharedMu.  A lock is a variable only where a goroutine can wait  *)
(* while another one holds it; sessionsMu never is.                        *)
(***************************************************************************)
EXTENDS Integers, FiniteSets

CONSTANTS
  Callers,          \* goroutines that use the client
  Conns,            \* connection objects: each is dialled at most once
  AcceptLoops,      \* the loops of a connection: bidirectional, unidirectional
  MaxCalls,         \* bound: calls by each caller
  SettingsMayFail,  \* the wait for the HTTP/3 settings may end in an error
  Closer,           \* the goroutine that calls Client.Close
  None              \* no connection, no goroutine

Threads == Callers \cup (Conns \X AcceptLoops) \cup {Closer}
SessionIds == Callers \X (1..MaxCalls)

ASSUME Parameters ==
  /\ MaxCalls \in Nat /\ SettingsMayFail \in BOOLEAN
  /\ None \notin Threads \cup Conns /\ Closer \notin Callers
  /\ (Callers \cup {Closer}) \cap (Conns \X AcceptLoops) = {}
  /\ IsFiniteSet(Conns)

VARIABLES
  mu,        \* who keeps sharedMu
  shared,    \* Client.shared
  closed,    \* Client.closed
  dialed,    \* connections that exist
  alive,     \* those whose context is not done
  once,      \* closeOnce of each connection
  nilled,    \* connections whose sessions map is nil
  registered,\* the sessions map of each connection
  snapshot,  \* sessions the running close() has still to close
  home,      \* the connection of each session, None before it exists
  ended,     \* sessions that were closed
  pc,        \* where each goroutine is
  at,        \* the connection it works with
  closing,   \* where it is in close()
  calls      \* calls made by each caller

clientVars == <<mu, shared, closed>>
connVars == <<dialed, alive, once>>
sessionVars == <<nilled, registered, snapshot, home, ended>>
threadVars == <<pc, at, closing, calls>>
vars == <<clientVars, connVars, sessionVars, threadVars>>

Init ==
  /\ mu = None /\ shared = None /\ closed = FALSE
  /\ dialed = {} /\ alive = {} /\ once = [c \in Conns |-> "idle"]
  /\ nilled = {} /\ registered = [c \in Conns |-> {}]
  /\ snapshot = [c \in Conns |-> {}]
  /\ home = [s \in SessionIds |-> None] /\ ended = {}
  /\ pc = [t \in Threads |-> IF t \in Callers \cup {Closer} THEN "idle" ELSE "off"]
  /\ at = [t \in Threads |-> None] /\ closing = [t \in Threads |-> "no"]
  /\ calls = [p \in Callers |-> 0]

Goto(t, label) == pc' = [pc EXCEPT ![t] = label]

\* A caller's call or session is over.
Return(p) == Goto(p, "idle") /\ at' = [at EXCEPT ![p] = None]

-----------------------------------------------------------------------------
(* getSharedConn and newSharedConn                                         *)

CallStarts(p) ==
  /\ pc[p] = "idle"
  /\ calls[p] < MaxCalls
  /\ calls' = [calls EXCEPT ![p] = @ + 1]
  /\ Goto(p, "lock")
  /\ UNCHANGED <<clientVars, connVars, sessionVars, at, closing>>

\* Variant: Client.closed is not looked at.
getSharedConnWhenClosed(p) ==
  /\ pc[p] = "lock"
  /\ mu = None
  /\ IF shared \in alive
     THEN /\ at' = [at EXCEPT ![p] = shared]
          /\ Goto(p, "have")
          /\ UNCHANGED <<mu, shared>>
     ELSE /\ shared' = None /\ mu' = p
          /\ Goto(p, "dial")
          /\ UNCHANGED at
  /\ UNCHANGED <<closed, connVars, sessionVars, closing, calls>>

\* Variant: sharedMu is released before the dial.
getSharedConnUnlocks(p) ==
  /\ pc[p] = "lock"
  /\ mu = None
  /\ ~ closed
  /\ IF shared \in alive
     THEN /\ at' = [at EXCEPT ![p] = shared]
          /\ Goto(p, "have")
          /\ UNCHANGED shared
     ELSE /\ shared' = None
          /\ Goto(p, "dial")
          /\ UNCHANGED at
  /\ UNCHANGED <<mu, closed, connVars, sessionVars, closing, calls>>

\* getSharedConn up to the dial, under sharedMu.  A connection whose context
\* is done is forgotten; a dial keeps the lock.
getSharedConn(p) ==
  /\ pc[p] = "lock"
  /\ mu = None
  /\ \/ /\ closed
        /\ Goto(p, "idle")
        /\ UNCHANGED <<mu, shared, at>>
     \/ /\ ~ closed
        /\ shared \in alive
        /\ at' = [at EXCEPT ![p] = shared]
        /\ Goto(p, "have")
        /\ UNCHANGED <<mu, shared>>
     \/ /\ ~ closed
        /\ shared \notin alive
        /\ shared' = None /\ mu' = p
        /\ Goto(p, "dial")
        /\ UNCHANGED at
  /\ UNCHANGED <<closed, connVars, sessionVars, closing, calls>>

DialFails(p) ==
  /\ pc[p] = "dial"
  /\ Goto(p, "failed")
  /\ UNCHANGED <<clientVars, connVars, sessionVars, at, closing, calls>>

\* The dial returns a connection and its accept loops start.
DialSucceeds(p) ==
  /\ pc[p] = "dial"
  /\ \E c \in Conns \ dialed :
       /\ dialed' = dialed \cup {c} /\ alive' = alive \cup {c}
       /\ at' = [t \in Threads |->
                   IF t \in {p} \cup ({c} \X AcceptLoops) THEN c ELSE at[t]]
       /\ pc' = [t \in Threads |-> IF t = p THEN "settings"
                                   ELSE IF t \in {c} \X AcceptLoops THEN "accept"
                                   ELSE pc[t]]
  /\ UNCHANGED <<clientVars, once, sessionVars, closing, calls>>

\* The settings arrive and are good: the connection is published, the deferred
\* unlock runs.  The select may take this branch though the connection is dead.
SettingsArrive(p) ==
  /\ pc[p] = "settings"
  /\ shared' = at[p] /\ mu' = None
  /\ Goto(p, "have")
  /\ UNCHANGED <<closed, connVars, sessionVars, at, closing, calls>>

\* The context or the connection ends first, or the settings lack a feature:
\* newSharedConn calls shared.close(), sharedMu still held.
SettingsFail(p) ==
  /\ pc[p] = "settings"
  /\ SettingsMayFail
  /\ Goto(p, "failed")
  /\ closing' = [closing EXCEPT ![p] = "once"]
  /\ UNCHANGED <<clientVars, connVars, sessionVars, at, calls>>

\* Variant: the error path leaves sharedMu locked.
ReturnErrorLocked(p) ==
  /\ pc[p] = "failed"
  /\ closing[p] = "no"
  /\ Return(p)
  /\ UNCHANGED <<clientVars, connVars, sessionVars, closing, calls>>

\* newSharedConn returns its error, after close() where it calls it, and the
\* deferred unlock runs.
ReturnError(p) ==
  /\ pc[p] = "failed"
  /\ closing[p] = "no"
  /\ mu' = None
  /\ Return(p)
  /\ UNCHANGED <<shared, closed, connVars, sessionVars, closing, calls>>

-----------------------------------------------------------------------------
(* Using the connection                                                    *)

\* RoundTrip, or a CONNECT that fails or is refused: nothing is kept.
RoundTrip(p) ==
  /\ pc[p] = "have"
  /\ Return(p)
  /\ UNCHANGED <<clientVars, connVars, sessionVars, closing, calls>>

\* connectPubSub up to the good response.
ConnectAccepted(p) ==
  /\ pc[p] = "have"
  /\ at[p] \in alive
  /\ Goto(p, "register")
  /\ UNCHANGED <<clientVars, connVars, sessionVars, at, closing, calls>>

\* registerSession; on a nil map the new session is closed and an error
\* returned.
registerSession(p) ==
  LET s == <<p, calls[p]>>
      c == at[p]
  IN
  /\ pc[p] = "register"
  /\ home' = [home EXCEPT ![s] = c]
  /\ \/ /\ c \notin nilled
        /\ registered' = [registered EXCEPT ![c] = @ \cup {s}]
        /\ Goto(p, "session") /\ UNCHANGED <<ended, at>>
     \/ /\ c \in nilled
        /\ ended' = ended \cup {s}
        /\ Return(p) /\ UNCHANGED registered
  /\ UNCHANGED <<clientVars, connVars, nilled, snapshot, closing, calls>>

\* unregisterSession and the rest of closeWithCause; a second close does
\* nothing.
closeSession(s) ==
  /\ registered' = [registered EXCEPT ![home[s]] = @ \ {s}]
  /\ ended' = ended \cup {s}

\* The caller is done with its session and closes it.
SessionClose(p) ==
  /\ pc[p] = "session"
  /\ closeSession(<<p, calls[p]>>)
  /\ Return(p)
  /\ UNCHANGED <<clientVars, connVars, nilled, snapshot, home, closing, calls>>

\* Variant: monitorRequestStream reads on when the connection is gone.
monitorStreamOnly(s) ==
  /\ home[s] \in alive
  /\ s \notin ended
  /\ closeSession(s)
  /\ UNCHANGED <<clientVars, connVars, nilled, snapshot, home, threadVars>>

\* monitorRequestStream: reading the request stream ends, by the server or
\* because the connection is gone.
monitorRequestStream(s) ==
  /\ home[s] # None
  /\ s \notin ended
  /\ closeSession(s)
  /\ UNCHANGED <<clientVars, connVars, nilled, snapshot, home, threadVars>>

-----------------------------------------------------------------------------
(* sharedConn.close                                                        *)

\* Entering closeOnce: the first takes the snapshot, who comes while the first
\* is inside waits, who comes later returns.
CloseEnters(t) ==
  LET c == at[t] IN
  /\ closing[t] = "once"
  /\ \/ /\ once[c] = "idle"
        /\ once' = [once EXCEPT ![c] = "running"]
        /\ snapshot' = [snapshot EXCEPT ![c] = registered[c]]
        /\ closing' = [closing EXCEPT ![t] = "nil"]
     \/ /\ once[c] = "done"
        /\ closing' = [closing EXCEPT ![t] = "no"]
        /\ UNCHANGED <<once, snapshot>>
  /\ UNCHANGED <<clientVars, dialed, alive, nilled, registered, home, ended, pc, at, calls>>

\* sessions = nil, in a critical section of its own.
CloseNilsSessions(t) ==
  /\ closing[t] = "nil"
  /\ nilled' = nilled \cup {at[t]}
  /\ registered' = [registered EXCEPT ![at[t]] = {}]
  /\ closing' = [closing EXCEPT ![t] = "each"]
  /\ UNCHANGED <<clientVars, connVars, snapshot, home, ended, pc, at, calls>>

CloseEachSession(t) ==
  /\ closing[t] = "each"
  /\ \E s \in snapshot[at[t]] :
       /\ closeSession(s)
       /\ snapshot' = [snapshot EXCEPT ![at[t]] = @ \ {s}]
  /\ UNCHANGED <<clientVars, connVars, nilled, home, threadVars>>

CloseRaw(t) ==
  /\ closing[t] = "each"
  /\ snapshot[at[t]] = {}
  /\ alive' = alive \ {at[t]}
  /\ closing' = [closing EXCEPT ![t] = "mu"]
  /\ UNCHANGED <<clientVars, dialed, once, sessionVars, pc, at, calls>>

\* Variant: Client.shared is cleared without the comparison.
CloseForgetsAny(t) ==
  /\ closing[t] = "mu"
  /\ mu = None
  /\ shared' = None
  /\ once' = [once EXCEPT ![at[t]] = "done"]
  /\ closing' = [closing EXCEPT ![t] = "no"]
  /\ UNCHANGED <<mu, closed, dialed, alive, sessionVars, pc, at, calls>>

\* The last section of close(), under sharedMu.  It forgets this connection
\* only, and it waits for whoever keeps the lock, t itself included.
CloseForgets(t) ==
  /\ closing[t] = "mu"
  /\ mu = None
  /\ shared' = IF shared = at[t] THEN None ELSE shared
  /\ once' = [once EXCEPT ![at[t]] = "done"]
  /\ closing' = [closing EXCEPT ![t] = "no"]
  /\ UNCHANGED <<mu, closed, dialed, alive, sessionVars, pc, at, calls>>

closeStep(t) == CloseEnters(t) \/ CloseNilsSessions(t) \/ CloseEachSession(t)
                  \/ CloseRaw(t) \/ CloseForgets(t)

-----------------------------------------------------------------------------
(* The accept loops and Client.Close                                       *)

\* AcceptStream and AcceptUniStream fail when the connection is closed.
AcceptFails(l) ==
  /\ pc[l] = "accept"
  /\ at[l] \notin alive
  /\ Goto(l, "closing")
  /\ closing' = [closing EXCEPT ![l] = "once"]
  /\ UNCHANGED <<clientVars, connVars, sessionVars, at, calls>>

AcceptExits(l) ==
  /\ pc[l] = "closing"
  /\ closing[l] = "no"
  /\ Goto(l, "exited")
  /\ UNCHANGED <<clientVars, connVars, sessionVars, at, closing, calls>>

CloseCalled ==
  /\ pc[Closer] = "idle"
  /\ Goto(Closer, "lock")
  /\ UNCHANGED <<clientVars, connVars, sessionVars, at, closing, calls>>

\* Client.Close under sharedMu.
Close ==
  /\ pc[Closer] = "lock"
  /\ mu = None
  /\ closed' = TRUE /\ shared' = None
  /\ IF shared = None
     THEN Goto(Closer, "exited") /\ UNCHANGED <<at, closing>>
     ELSE /\ Goto(Closer, "closing")
          /\ at' = [at EXCEPT ![Closer] = shared]
          /\ closing' = [closing EXCEPT ![Closer] = "once"]
  /\ UNCHANGED <<mu, connVars, sessionVars, calls>>

CloseReturns ==
  /\ pc[Closer] = "closing"
  /\ closing[Closer] = "no"
  /\ Goto(Closer, "exited")
  /\ UNCHANGED <<clientVars, connVars, sessionVars, at, closing, calls>>

\* The idle timeout, a network failure or the server ends a connection.
ConnDies(c) ==
  /\ c \in alive
  /\ alive' = alive \ {c}
  /\ UNCHANGED <<clientVars, dialed, once, sessionVars, threadVars>>

-----------------------------------------------------------------------------

callStep(p) ==
  \/ getSharedConn(p) \/ DialFails(p) \/ DialSucceeds(p)
  \/ SettingsArrive(p) \/ SettingsFail(p) \/ ReturnError(p)
  \/ registerSession(p)

Next ==
  \/ \E p \in Callers : CallStarts(p) \/ callStep(p) \/ RoundTrip(p)
                          \/ ConnectAccepted(p) \/ SessionClose(p)
  \/ \E s \in SessionIds : monitorRequestStream(s)
  \/ \E t \in Threads : closeStep(t)
  \/ \E l \in Conns \X AcceptLoops : AcceptFails(l) \/ AcceptExits(l)
  \/ CloseCalled \/ Close \/ CloseReturns
  \/ \E c \in Conns : ConnDies(c)

Spec == Init /\ [][Next]_vars

\* Goroutines run when they can; a dial and the wait for settings end; the
\* read of a request stream on a dead connection fails.  No caller has to make
\* a call, and no connection has to die.
FairSpec ==
  /\ Spec
  /\ \A p \in Callers : WF_vars(callStep(p))
  /\ \A t \in Threads : WF_vars(closeStep(t))
  /\ \A l \in Conns \X AcceptLoops : WF_vars(AcceptFails(l) \/ AcceptExits(l))
  /\ WF_vars(Close \/ CloseReturns)
  /\ \A s \in SessionIds : WF_vars(home[s] \notin alive /\ monitorRequestStream(s))

-----------------------------------------------------------------------------

\* Every variable has its type, and a caller that got past getSharedConn has a
\* connection that exists.
TypeOK ==
  /\ mu \in Callers \cup {None}
  /\ shared \in Conns \cup {None}
  /\ closed \in BOOLEAN
  /\ dialed \subseteq Conns /\ alive \subseteq dialed
  /\ once \in [Conns -> {"idle", "running", "done"}]
  /\ nilled \subseteq Conns
  /\ registered \in [Conns -> SUBSET SessionIds]
  /\ snapshot \in [Conns -> SUBSET SessionIds]
  /\ home \in [SessionIds -> Conns \cup {None}]
  /\ ended \subseteq SessionIds
  /\ pc \in [Threads -> {"idle", "off", "lock", "dial", "settings", "failed", "closing", "have",
                         "register", "session", "accept", "exited"}]
  /\ at \in [Threads -> Conns \cup {None}]
  /\ closing \in [Threads -> {"no", "once", "nil", "each", "mu"}]
  /\ calls \in [Callers -> 0..MaxCalls]
  /\ \A p \in Callers :
       pc[p] \in {"settings", "have", "register", "session"} => at[p] \in dialed

\* However dials, failures and closes interleave, a client has at most one live
\* connection.
SingleConn == Cardinality(alive) <= 1

\* Once Client.Close has returned no connection is open, and none is opened.
ClosedMeansClosed == pc[Closer] = "exited" => alive = {}

\* A published connection that is alive is forgotten by Client.Close only; in
\* particular the late close() of a connection that died earlier does not take
\* its successor away.
LiveConnKept ==
  [][shared # None /\ shared \in alive' /\ shared' # shared => closed']_vars

\* A session on a dead connection ends, also one registered between the
\* snapshot and the nil map, which close() does not see.
SessionsEnd ==
  \A s \in SessionIds : (home[s] # None /\ home[s] \notin alive) ~> s \in ended

\* A goroutine runs close() with sharedMu held, which close() takes too.
Wedged == \E p \in Callers : mu = p /\ closing[p] # "no"

\* Nothing but a failed wait for the settings keeps a call of getSharedConn or
\* Client.Close from returning, or an accept loop of a dead connection, which
\* runs close() too, from ending.
CallsReturn ==
  /\ \A p \in Callers : pc[p] = "lock" ~> (pc[p] \in {"idle", "have"} \/ Wedged)
  /\ pc[Closer] = "lock" ~> (pc[Closer] = "exited" \/ Wedged)
  /\ \A c \in Conns, l \in AcceptLoops :
       (c \in dialed /\ c \notin alive) ~> (pc[<<c, l>>] = "exited" \/ Wedged)

\* Every call of getSharedConn returns, with a connection or an error, and so
\* does Client.Close.
EveryCallReturns ==
  /\ \A p \in Callers : pc[p] = "lock" ~> pc[p] \in {"idle", "have"}
  /\ pc[Closer] = "lock" ~> pc[Closer] = "exited"

=============================================================================
