-------------------------- MODULE SharedConnProofs --------------------------
(***************************************************************************)
(* What holds of SharedConn for every number of callers, connections and   *)
(* calls: a client has at most one live connection, Client.Close leaves    *)
(* none, and only Client.Close gives a live one up; no ring of goroutines  *)
(* waits for each other unless a wait for the settings failed, and then    *)
(* sharedMu is never released.                                             *)
(***************************************************************************)
EXTENDS SharedConn, FiniteSetTheorems, TLAPS

Loops == Conns \X AcceptLoops

\* Where each goroutine is, which connection it has and whether it is in close().
Places ==
  /\ shared \in dialed \cup {None}
  /\ \A p \in Callers : pc[p] # "idle" => calls[p] >= 1
  /\ \A p \in Callers : pc[p] \in {"idle", "lock", "dial"} => at[p] = None
  /\ \A t \in Threads : at[t] \in dialed \cup {None}
  /\ \A t \in Threads : pc[t] = "accept" \/ closing[t] # "no" => at[t] \in dialed
  /\ \A t \in Threads : closing[t] # "no" => pc[t] \in {"failed", "closing"}
  /\ \A c \in Conns \ dialed : once[c] = "idle"
  /\ \A c \in Conns \ dialed : \A l \in AcceptLoops : pc[<<c, l>>] = "off"

\* sharedMu is kept from before the dial until the connection is published or
\* given up, and while it is kept nothing is published.
Locked ==
  /\ \A p \in Callers : mu = p <=> pc[p] \in {"dial", "settings", "failed"}
  /\ mu # None => shared = None /\ ~ closed
  /\ closed => shared = None
  /\ pc[Closer] \in {"closing", "exited"} => closed

\* close() returns, and waits for sharedMu, only when the connection is dead.
Dead ==
  /\ \A t \in Threads : closing[t] = "mu" => at[t] \notin alive
  /\ \A t \in Threads : pc[t] \in {"failed", "closing"} /\ closing[t] = "no" => at[t] \notin alive
  /\ \A c \in Conns : once[c] = "done" => c \notin alive

\* A live connection is the published one, the one being set up under sharedMu,
\* or the one Client.Close is closing.
Live ==
  \A c \in alive :
    \/ shared = c
    \/ \E p \in Callers : mu = p /\ pc[p] \in {"settings", "failed"} /\ at[p] = c
    \/ closed /\ pc[Closer] = "closing" /\ at[Closer] = c

ConnInv == TypeOK /\ Places /\ Locked /\ Dead /\ Live

LEMMA ThreadFacts ==
  /\ Callers \subseteq Threads /\ Loops \subseteq Threads /\ Closer \in Threads
  /\ None \notin Callers /\ None \notin Conns /\ Closer \notin Callers
  /\ Closer \notin Loops /\ \A p \in Callers : p \notin Loops
  /\ MaxCalls \in Nat
  /\ \A c \in Conns, l \in AcceptLoops :
       <<c, l>> \in Threads /\ <<c, l>> \notin Callers /\ <<c, l>> # Closer
BY Parameters DEF Threads, Loops

LEMMA ConnStarts == Init => ConnInv
<1> SUFFICES ASSUME Init PROVE ConnInv
  OBVIOUS
<1>1. TypeOK
  <2>1. /\ once \in [Conns -> {"idle", "running", "done"}]
        /\ registered \in [Conns -> SUBSET SessionIds]
        /\ snapshot \in [Conns -> SUBSET SessionIds]
        /\ home \in [SessionIds -> Conns \cup {None}]
    BY DEF Init
  <2>2. /\ pc \in [Threads -> {"idle", "off", "lock", "dial", "settings", "failed", "closing",
                               "have", "register", "session", "accept", "exited"}]
        /\ at \in [Threads -> Conns \cup {None}]
        /\ closing \in [Threads -> {"no", "once", "nil", "each", "mu"}]
    BY DEF Init
  <2>3. calls \in [Callers -> 0..MaxCalls]
    BY ThreadFacts DEF Init
  <2>4. \A p \in Callers : pc[p] = "idle"
    BY ThreadFacts DEF Init
  <2>5. /\ mu = None /\ shared = None /\ closed = FALSE /\ dialed = {} /\ alive = {}
        /\ nilled = {} /\ ended = {}
    BY DEF Init
  <2>6. QED
    BY <2>1, <2>2, <2>3, <2>4, <2>5 DEF TypeOK
<1>2. Places
  BY ThreadFacts DEF Init, Places, Loops
<1>3. Locked /\ Dead /\ Live
  BY ThreadFacts DEF Init, Locked, Dead, Live
<1>4. QED
  BY <1>1, <1>2, <1>3 DEF ConnInv

LEMMA ClosedSessionTypes ==
  ASSUME TypeOK, NEW s \in SessionIds, closeSession(s)
  PROVE  registered' \in [Conns -> SUBSET SessionIds] /\ ended' \subseteq SessionIds
<1>1. /\ registered \in [Conns -> SUBSET SessionIds]
      /\ registered' = [registered EXCEPT ![home[s]] = registered[home[s]] \ {s}]
      /\ ended' = ended \cup {s} /\ ended \subseteq SessionIds
  BY DEF TypeOK, closeSession
<1>2. \A c \in Conns : registered[c] \ {s} \in SUBSET SessionIds
  BY <1>1
<1>3. QED
  BY <1>1, <1>2

\* A caller starts a call.
LEMMA CallStartsKeeps ==
  ASSUME ConnInv, NEW p \in Callers, CallStarts(p)
  PROVE  ConnInv'
<1> USE ThreadFacts DEF ConnInv, CallStarts, Goto, clientVars, connVars, sessionVars, threadVars
<1>1. TypeOK'
  BY DEF TypeOK, Places
<1>2. Places'
  BY DEF TypeOK, Places
<1>3. Locked'
  BY DEF TypeOK, Locked
<1>4. Dead'
  BY DEF TypeOK, Places, Dead
<1>5. Live'
  BY DEF TypeOK, Places, Locked, Dead, Live
<1>6. QED
  BY <1>1, <1>2, <1>3, <1>4, <1>5

\* A caller takes the published connection, or goes to dial: then none is alive.
LEMMA GetKeeps ==
  ASSUME ConnInv, NEW p \in Callers, getSharedConn(p)
  PROVE  ConnInv'
<1> USE ThreadFacts DEF ConnInv, getSharedConn, Goto, clientVars, connVars, sessionVars, threadVars
<1>1. TypeOK'
  BY DEF TypeOK, Places
<1>2. Places'
  <2>0. (shared \in dialed \cup {None})'
    BY DEF TypeOK, Places
  <2>1. (\A q \in Callers : pc[q] # "idle" => calls[q] >= 1)'
    BY DEF TypeOK, Places, Loops
  <2>2. (\A q \in Callers : pc[q] \in {"idle", "lock", "dial"} => at[q] = None)'
    BY DEF TypeOK, Places, Loops
  <2>3. (\A t \in Threads : at[t] \in dialed \cup {None})'
    BY DEF TypeOK, Places, Loops
  <2>4. (\A t \in Threads : pc[t] = "accept" \/ closing[t] # "no" => at[t] \in dialed)'
    BY DEF TypeOK, Places, Loops
  <2>5. (\A t \in Threads : closing[t] # "no" => pc[t] \in {"failed", "closing"})'
    BY DEF TypeOK, Places, Loops
  <2>6. (\A d \in Conns \ dialed : once[d] = "idle")'
    BY DEF TypeOK, Places, Loops
  <2>7. (\A d \in Conns \ dialed : \A l \in AcceptLoops : pc[<<d, l>>] = "off")'
    <3> SUFFICES ASSUME NEW d \in Conns \ dialed', NEW l \in AcceptLoops
                 PROVE  pc'[<<d, l>>] = "off"
      OBVIOUS
    <3>1. d \in Conns /\ d \notin dialed
      OBVIOUS
    <3>2. <<d, l>> \in Threads /\ <<d, l>> # p
      BY <3>1
    <3>3. pc[<<d, l>>] = "off"
      BY <3>1 DEF Places
    <3> DEFINE u == <<d, l>>
    <3> HIDE DEF u
    <3>4. QED
      BY <3>2, <3>3 DEF TypeOK, u
  <2>8. QED
    BY <2>1, <2>2, <2>3, <2>4, <2>5, <2>6, <2>7, <2>0 DEF Places
<1>3. Locked'
  BY DEF TypeOK, Locked
<1>4. Dead'
  BY DEF TypeOK, Places, Dead
<1>5. Live'
  BY DEF TypeOK, Places, Locked, Dead, Live
<1>6. QED
  BY <1>1, <1>2, <1>3, <1>4, <1>5

\* The dial fails, and the lock is still held.
LEMMA DialFailsKeeps ==
  ASSUME ConnInv, NEW p \in Callers, DialFails(p)
  PROVE  ConnInv'
<1> USE ThreadFacts DEF ConnInv, DialFails, Goto, clientVars, connVars, sessionVars, threadVars
<1>1. TypeOK'
  BY DEF TypeOK, Places
<1>2. Places'
  BY DEF TypeOK, Places
<1>3. Locked'
  BY DEF TypeOK, Locked
<1>4. Dead'
  BY DEF TypeOK, Places, Dead
<1>5. Live'
  BY DEF TypeOK, Places, Locked, Dead, Live
<1>6. QED
  BY <1>1, <1>2, <1>3, <1>4, <1>5

\* A new connection: no goroutine has anything to do with it yet.
LEMMA DialSucceedsKeeps ==
  ASSUME ConnInv, NEW p \in Callers, DialSucceeds(p)
  PROVE  ConnInv'
<1> USE ThreadFacts DEF ConnInv, DialSucceeds, clientVars, connVars, sessionVars, threadVars
<1>1. TypeOK'
  BY DEF TypeOK, Places
<1>2. Places'
  <2>1. PICK c \in Conns \ dialed :
          /\ dialed' = dialed \cup {c} /\ alive' = alive \cup {c}
          /\ at' = [t \in Threads |->
                      IF t \in {p} \cup ({c} \X AcceptLoops) THEN c ELSE at[t]]
          /\ pc' = [t \in Threads |-> IF t = p THEN "settings"
                                      ELSE IF t \in {c} \X AcceptLoops THEN "accept"
                                      ELSE pc[t]]
    OBVIOUS
  <2>2. pc[p] = "dial" /\ UNCHANGED <<once, closing, calls>>
    OBVIOUS
  <2> HIDE DEF DialSucceeds
  <2>0. (shared \in dialed \cup {None})'
    BY DEF DialSucceeds, TypeOK, Places
  <2>3. (\A q \in Callers : pc[q] # "idle" => calls[q] >= 1)'
    BY <2>1, <2>2 DEF TypeOK, Places, Loops
  <2>4. (\A q \in Callers : pc[q] \in {"idle", "lock", "dial"} => at[q] = None)'
    BY <2>1, <2>2 DEF TypeOK, Places, Loops
  <2>5. (\A t \in Threads : at[t] \in dialed \cup {None})'
    BY <2>1, <2>2 DEF TypeOK, Places, Loops
  <2>6. (\A t \in Threads : pc[t] = "accept" \/ closing[t] # "no" => at[t] \in dialed)'
    BY <2>1, <2>2 DEF TypeOK, Places, Loops
  <2>7. (\A t \in Threads : closing[t] # "no" => pc[t] \in {"failed", "closing"})'
    BY <2>1, <2>2 DEF TypeOK, Places, Loops
  <2>8. (\A d \in Conns \ dialed : once[d] = "idle")'
    BY <2>1, <2>2 DEF TypeOK, Places, Loops
  <2>9. (\A d \in Conns \ dialed : \A l \in AcceptLoops : pc[<<d, l>>] = "off")'
    BY <2>1, <2>2 DEF TypeOK, Places, Loops
  <2>10. QED
    BY <2>3, <2>4, <2>5, <2>6, <2>7, <2>8, <2>9, <2>0 DEF Places
<1>3. Locked'
  BY DEF TypeOK, Locked
<1>4. Dead'
  BY DEF TypeOK, Places, Dead
<1>5. Live'
  <2>1. mu = p /\ shared = None /\ ~ closed
    BY DEF Locked
  <2>2. \A q \in Callers : mu = q => q = p
    BY <2>1
  <2>3. alive = {}
    BY <2>1, <2>2 DEF Live, TypeOK, Places
  <2>4. PICK c \in Conns \ dialed :
          /\ alive' = {c} /\ at'[p] = c /\ pc'[p] = "settings" /\ mu' = p
    BY <2>1, <2>3
  <2>5. QED
    BY <2>4 DEF Live
<1>6. QED
  BY <1>1, <1>2, <1>3, <1>4, <1>5

\* The connection is published.
LEMMA SettingsArriveKeeps ==
  ASSUME ConnInv, NEW p \in Callers, SettingsArrive(p)
  PROVE  ConnInv'
<1> USE ThreadFacts DEF ConnInv, SettingsArrive, Goto, clientVars, connVars, sessionVars, threadVars
<1>1. TypeOK'
  BY DEF TypeOK, Places
<1>2. Places'
  BY DEF TypeOK, Places
<1>3. Locked'
  BY DEF TypeOK, Locked
<1>4. Dead'
  BY DEF TypeOK, Places, Dead
<1>5. Live'
  BY DEF TypeOK, Places, Locked, Dead, Live
<1>6. QED
  BY <1>1, <1>2, <1>3, <1>4, <1>5

\* The connection is given up with the lock held.
LEMMA SettingsFailKeeps ==
  ASSUME ConnInv, NEW p \in Callers, SettingsFail(p)
  PROVE  ConnInv'
<1> USE ThreadFacts DEF ConnInv, SettingsFail, Goto, clientVars, connVars, sessionVars, threadVars
<1>1. TypeOK'
  BY DEF TypeOK, Places
<1>2. Places'
  BY DEF TypeOK, Places
<1>3. Locked'
  BY DEF TypeOK, Locked
<1>4. Dead'
  BY DEF TypeOK, Places, Dead
<1>5. Live'
  BY DEF TypeOK, Places, Locked, Dead, Live
<1>6. QED
  BY <1>1, <1>2, <1>3, <1>4, <1>5

\* The lock is released: the connection, if there was one, is dead.
LEMMA ReturnErrorKeeps ==
  ASSUME ConnInv, NEW p \in Callers, ReturnError(p)
  PROVE  ConnInv'
<1> USE ThreadFacts DEF ConnInv, ReturnError, Goto, Return, clientVars, connVars, sessionVars, threadVars
<1>1. TypeOK'
  BY DEF TypeOK, Places
<1>2. Places'
  BY DEF TypeOK, Places
<1>3. Locked'
  BY DEF TypeOK, Locked
<1>4. Dead'
  BY DEF TypeOK, Places, Dead
<1>5. Live'
  BY DEF TypeOK, Places, Locked, Dead, Live
<1>6. QED
  BY <1>1, <1>2, <1>3, <1>4, <1>5

\* A request ends.
LEMMA RoundTripKeeps ==
  ASSUME ConnInv, NEW p \in Callers, RoundTrip(p)
  PROVE  ConnInv'
<1> USE ThreadFacts DEF ConnInv, RoundTrip, Goto, Return, clientVars, connVars, sessionVars, threadVars
<1>1. TypeOK'
  BY DEF TypeOK, Places
<1>2. Places'
  BY DEF TypeOK, Places
<1>3. Locked'
  BY DEF TypeOK, Locked
<1>4. Dead'
  BY DEF TypeOK, Places, Dead
<1>5. Live'
  BY DEF TypeOK, Places, Locked, Dead, Live
<1>6. QED
  BY <1>1, <1>2, <1>3, <1>4, <1>5

\* A session is accepted.
LEMMA ConnectKeeps ==
  ASSUME ConnInv, NEW p \in Callers, ConnectAccepted(p)
  PROVE  ConnInv'
<1> USE ThreadFacts DEF ConnInv, ConnectAccepted, Goto, clientVars, connVars, sessionVars, threadVars
<1>1. TypeOK'
  BY DEF TypeOK, Places
<1>2. Places'
  BY DEF TypeOK, Places
<1>3. Locked'
  BY DEF TypeOK, Locked
<1>4. Dead'
  BY DEF TypeOK, Places, Dead
<1>5. Live'
  BY DEF TypeOK, Places, Locked, Dead, Live
<1>6. QED
  BY <1>1, <1>2, <1>3, <1>4, <1>5

\* registerSession, on a map that may be nil.
LEMMA RegisterKeeps ==
  ASSUME ConnInv, NEW p \in Callers, registerSession(p)
  PROVE  ConnInv'
<1> USE ThreadFacts DEF ConnInv, registerSession, Goto, Return, clientVars, connVars, sessionVars, threadVars
<1>1. TypeOK'
  <2> DEFINE s == <<p, calls[p]>>
             c == at[p]
  <2>1. s \in SessionIds /\ c \in Conns
    BY DEF TypeOK, Places, SessionIds
  <2> HIDE DEF s, c
  <2>2. /\ home' = [home EXCEPT ![s] = c]
        /\ registered' \in {registered, [registered EXCEPT ![c] = @ \cup {s}]}
        /\ ended' \in {ended, ended \cup {s}}
    BY DEF s, c
  <2>3. /\ home' \in [SessionIds -> Conns \cup {None}]
        /\ registered' \in [Conns -> SUBSET SessionIds] /\ ended' \subseteq SessionIds
    BY <2>1, <2>2 DEF TypeOK
  <2>4. /\ at' \in {at, [at EXCEPT ![p] = None]}
        /\ \/ pc' = [pc EXCEPT ![p] = "session"] /\ at' = at
           \/ pc' = [pc EXCEPT ![p] = "idle"] /\ at' = [at EXCEPT ![p] = None]
        /\ pc[p] = "register"
        /\ UNCHANGED <<clientVars, connVars, nilled, snapshot, closing, calls>>
    OBVIOUS
  <2> HIDE DEF registerSession
  <2>5. QED
    BY <2>3, <2>4 DEF TypeOK
<1>2. Places'
  <2>1. /\ \/ pc' = [pc EXCEPT ![p] = "session"] /\ at' = at
           \/ pc' = [pc EXCEPT ![p] = "idle"] /\ at' = [at EXCEPT ![p] = None]
        /\ pc[p] = "register"
        /\ UNCHANGED <<connVars, closing, calls>>
    OBVIOUS
  <2> HIDE DEF registerSession
  <2>0. (shared \in dialed \cup {None})'
    BY DEF registerSession, TypeOK, Places
  <2>2. (\A q \in Callers : pc[q] # "idle" => calls[q] >= 1)'
    BY <2>1 DEF TypeOK, Places, Loops
  <2>3. (\A q \in Callers : pc[q] \in {"idle", "lock", "dial"} => at[q] = None)'
    BY <2>1 DEF TypeOK, Places, Loops
  <2>4. (\A t \in Threads : at[t] \in dialed \cup {None})'
    BY <2>1 DEF TypeOK, Places, Loops
  <2>5. (\A t \in Threads : pc[t] = "accept" \/ closing[t] # "no" => at[t] \in dialed)'
    BY <2>1 DEF TypeOK, Places, Loops
  <2>6. (\A t \in Threads : closing[t] # "no" => pc[t] \in {"failed", "closing"})'
    BY <2>1 DEF TypeOK, Places, Loops
  <2>7. (\A d \in Conns \ dialed : once[d] = "idle")'
    BY <2>1 DEF TypeOK, Places, Loops
  <2>8. (\A d \in Conns \ dialed : \A l \in AcceptLoops : pc[<<d, l>>] = "off")'
    <3> SUFFICES ASSUME NEW d \in Conns \ dialed', NEW l \in AcceptLoops
                 PROVE  pc'[<<d, l>>] = "off"
      OBVIOUS
    <3>1. d \in Conns /\ d \notin dialed
      BY <2>1
    <3>2. <<d, l>> \in Threads /\ <<d, l>> # p
      BY <3>1
    <3>3. pc[<<d, l>>] = "off"
      BY <3>1 DEF Places
    <3> DEFINE u == <<d, l>>
    <3> HIDE DEF u
    <3>4. QED
      BY <2>1, <3>2, <3>3 DEF TypeOK, u
  <2>9. QED
    BY <2>2, <2>3, <2>4, <2>5, <2>6, <2>7, <2>8, <2>0 DEF Places
<1>3. Locked'
  BY DEF TypeOK, Locked
<1>4. Dead'
  BY DEF TypeOK, Places, Dead
<1>5. Live'
  BY DEF TypeOK, Places, Locked, Dead, Live
<1>6. QED
  BY <1>1, <1>2, <1>3, <1>4, <1>5

\* A caller closes its session.
LEMMA SessionCloseKeeps ==
  ASSUME ConnInv, NEW p \in Callers, SessionClose(p)
  PROVE  ConnInv'
<1> USE ThreadFacts DEF ConnInv, SessionClose, Goto, Return, clientVars, connVars, sessionVars, threadVars
<1>1. TypeOK'
  <2>1. registered' \in [Conns -> SUBSET SessionIds] /\ ended' \subseteq SessionIds
    <3>1. <<p, calls[p]>> \in SessionIds
      BY DEF TypeOK, Places, SessionIds
    <3>2. QED
      BY <3>1, ClosedSessionTypes
  <2>2. QED
    BY <2>1 DEF TypeOK, Places
<1>2. Places'
  BY DEF TypeOK, Places
<1>3. Locked'
  BY DEF TypeOK, Locked
<1>4. Dead'
  BY DEF TypeOK, Places, Dead
<1>5. Live'
  BY DEF TypeOK, Places, Locked, Dead, Live
<1>6. QED
  BY <1>1, <1>2, <1>3, <1>4, <1>5

\* A monitor closes its session.
LEMMA MonitorKeeps ==
  ASSUME ConnInv, NEW s \in SessionIds, monitorRequestStream(s)
  PROVE  ConnInv'
<1> USE ThreadFacts DEF ConnInv, monitorRequestStream, clientVars, connVars, sessionVars, threadVars
<1>1. TypeOK'
  <2>1. registered' \in [Conns -> SUBSET SessionIds] /\ ended' \subseteq SessionIds
    BY ClosedSessionTypes
  <2>2. QED
    BY <2>1 DEF TypeOK, Places
<1>2. Places'
  BY DEF TypeOK, Places
<1>3. Locked'
  BY DEF TypeOK, Locked
<1>4. Dead'
  BY DEF TypeOK, Places, Dead
<1>5. Live'
  BY DEF TypeOK, Places, Locked, Dead, Live
<1>6. QED
  BY <1>1, <1>2, <1>3, <1>4, <1>5

\* close() is entered, or was over: then the connection is dead.
LEMMA CloseEntersKeeps ==
  ASSUME ConnInv, NEW t \in Threads, CloseEnters(t)
  PROVE  ConnInv'
<1> USE ThreadFacts DEF ConnInv, CloseEnters, clientVars, connVars, sessionVars, threadVars
<1>1. TypeOK'
  BY DEF TypeOK, Places
<1>2. Places'
  BY DEF TypeOK, Places
<1>3. Locked'
  BY DEF TypeOK, Locked
<1>4. Dead'
  BY DEF TypeOK, Places, Dead
<1>5. Live'
  BY DEF TypeOK, Places, Locked, Dead, Live
<1>6. QED
  BY <1>1, <1>2, <1>3, <1>4, <1>5

\* The sessions map is set to nil.
LEMMA CloseNilsKeeps ==
  ASSUME ConnInv, NEW t \in Threads, CloseNilsSessions(t)
  PROVE  ConnInv'
<1> USE ThreadFacts DEF ConnInv, CloseNilsSessions, clientVars, connVars, sessionVars, threadVars
<1>1. TypeOK'
  <2>1. at[t] \in Conns
    BY DEF TypeOK, Places
  <2>2. /\ nilled' = nilled \cup {at[t]} /\ registered' = [registered EXCEPT ![at[t]] = {}]
        /\ closing' = [closing EXCEPT ![t] = "each"]
        /\ UNCHANGED <<clientVars, connVars, snapshot, home, ended, pc, at, calls>>
    OBVIOUS
  <2>3. registered' \in [Conns -> SUBSET SessionIds] /\ nilled' \subseteq Conns
    BY <2>1, <2>2 DEF TypeOK
  <2>4. QED
    BY <2>2, <2>3 DEF TypeOK
<1>2. Places'
  BY DEF TypeOK, Places
<1>3. Locked'
  BY DEF TypeOK, Locked
<1>4. Dead'
  BY DEF TypeOK, Places, Dead
<1>5. Live'
  BY DEF TypeOK, Places, Locked, Dead, Live
<1>6. QED
  BY <1>1, <1>2, <1>3, <1>4, <1>5

\* One session of the snapshot is closed.
LEMMA CloseEachKeeps ==
  ASSUME ConnInv, NEW t \in Threads, CloseEachSession(t)
  PROVE  ConnInv'
<1> USE ThreadFacts DEF ConnInv, CloseEachSession, clientVars, connVars, sessionVars, threadVars
<1>1. TypeOK'
  <2>1. PICK s \in snapshot[at[t]] :
          closeSession(s) /\ snapshot' = [snapshot EXCEPT ![at[t]] = @ \ {s}]
    OBVIOUS
  <2>2. at[t] \in Conns /\ s \in SessionIds
    BY <2>1 DEF TypeOK, Places
  <2>3. registered' \in [Conns -> SUBSET SessionIds] /\ ended' \subseteq SessionIds
    BY <2>1, <2>2, ClosedSessionTypes
  <2>4. snapshot' \in [Conns -> SUBSET SessionIds]
    BY <2>1, <2>2 DEF TypeOK
  <2>5. UNCHANGED <<clientVars, connVars, nilled, home, threadVars>>
    OBVIOUS
  <2> HIDE DEF CloseEachSession
  <2>6. QED
    BY <2>3, <2>4, <2>5 DEF TypeOK
<1>2. Places'
  BY DEF TypeOK, Places
<1>3. Locked'
  BY DEF TypeOK, Locked
<1>4. Dead'
  BY DEF TypeOK, Places, Dead
<1>5. Live'
  BY DEF TypeOK, Places, Locked, Dead, Live
<1>6. QED
  BY <1>1, <1>2, <1>3, <1>4, <1>5

\* The connection is closed.
LEMMA CloseRawKeeps ==
  ASSUME ConnInv, NEW t \in Threads, CloseRaw(t)
  PROVE  ConnInv'
<1> USE ThreadFacts DEF ConnInv, CloseRaw, clientVars, connVars, sessionVars, threadVars
<1>1. TypeOK'
  BY DEF TypeOK, Places
<1>2. Places'
  BY DEF TypeOK, Places
<1>3. Locked'
  BY DEF TypeOK, Locked
<1>4. Dead'
  BY DEF TypeOK, Places, Dead
<1>5. Live'
  BY DEF TypeOK, Places, Locked, Dead, Live
<1>6. QED
  BY <1>1, <1>2, <1>3, <1>4, <1>5

\* A dead connection is forgotten.
LEMMA CloseForgetsKeeps ==
  ASSUME ConnInv, NEW t \in Threads, CloseForgets(t)
  PROVE  ConnInv'
<1> USE ThreadFacts DEF ConnInv, CloseForgets, clientVars, connVars, sessionVars, threadVars
<1>1. TypeOK'
  BY DEF TypeOK, Places
<1>2. Places'
  BY DEF TypeOK, Places
<1>3. Locked'
  BY DEF TypeOK, Locked
<1>4. Dead'
  BY DEF TypeOK, Places, Dead
<1>5. Live'
  BY DEF TypeOK, Places, Locked, Dead, Live
<1>6. QED
  BY <1>1, <1>2, <1>3, <1>4, <1>5

\* An accept loop finds the connection dead.
LEMMA AcceptFailsKeeps ==
  ASSUME ConnInv, NEW l \in Loops, AcceptFails(l)
  PROVE  ConnInv'
<1> USE ThreadFacts DEF ConnInv, AcceptFails, Goto, clientVars, connVars, sessionVars, threadVars
<1>1. TypeOK'
  BY DEF TypeOK, Places
<1>2. Places'
  BY DEF TypeOK, Places
<1>3. Locked'
  BY DEF TypeOK, Locked
<1>4. Dead'
  BY DEF TypeOK, Places, Dead
<1>5. Live'
  BY DEF TypeOK, Places, Locked, Dead, Live
<1>6. QED
  BY <1>1, <1>2, <1>3, <1>4, <1>5

\* An accept loop ends.
LEMMA AcceptExitsKeeps ==
  ASSUME ConnInv, NEW l \in Loops, AcceptExits(l)
  PROVE  ConnInv'
<1> USE ThreadFacts DEF ConnInv, AcceptExits, Goto, clientVars, connVars, sessionVars, threadVars
<1>1. TypeOK'
  BY DEF TypeOK, Places
<1>2. Places'
  BY DEF TypeOK, Places
<1>3. Locked'
  BY DEF TypeOK, Locked
<1>4. Dead'
  BY DEF TypeOK, Places, Dead
<1>5. Live'
  BY DEF TypeOK, Places, Locked, Dead, Live
<1>6. QED
  BY <1>1, <1>2, <1>3, <1>4, <1>5

\* Client.Close is called.
LEMMA CloseCalledKeeps ==
  ASSUME ConnInv, CloseCalled
  PROVE  ConnInv'
<1> USE ThreadFacts DEF ConnInv, CloseCalled, Goto, clientVars, connVars, sessionVars, threadVars
<1>1. TypeOK'
  BY DEF TypeOK, Places
<1>2. Places'
  BY DEF TypeOK, Places
<1>3. Locked'
  BY DEF TypeOK, Locked
<1>4. Dead'
  BY DEF TypeOK, Places, Dead
<1>5. Live'
  BY DEF TypeOK, Places, Locked, Dead, Live
<1>6. QED
  BY <1>1, <1>2, <1>3, <1>4, <1>5

\* Client.Close takes the published connection; nobody is setting one up.
LEMMA CloseKeeps ==
  ASSUME ConnInv, Close
  PROVE  ConnInv'
<1> USE ThreadFacts DEF ConnInv, Close, Goto, clientVars, connVars, sessionVars, threadVars
<1>1. TypeOK'
  BY DEF TypeOK, Places
<1>2. Places'
  <2>0. (shared \in dialed \cup {None})'
    BY DEF TypeOK, Places
  <2>1. (\A q \in Callers : pc[q] # "idle" => calls[q] >= 1)'
    BY DEF TypeOK, Places, Loops
  <2>2. (\A q \in Callers : pc[q] \in {"idle", "lock", "dial"} => at[q] = None)'
    BY DEF TypeOK, Places, Loops
  <2>3. (\A t \in Threads : at[t] \in dialed \cup {None})'
    BY DEF TypeOK, Places, Loops
  <2>4. (\A t \in Threads : pc[t] = "accept" \/ closing[t] # "no" => at[t] \in dialed)'
    BY DEF TypeOK, Places, Loops
  <2>5. (\A t \in Threads : closing[t] # "no" => pc[t] \in {"failed", "closing"})'
    BY DEF TypeOK, Places, Loops
  <2>6. (\A d \in Conns \ dialed : once[d] = "idle")'
    BY DEF TypeOK, Places, Loops
  <2>7. (\A d \in Conns \ dialed : \A l \in AcceptLoops : pc[<<d, l>>] = "off")'
    <3> SUFFICES ASSUME NEW d \in Conns \ dialed', NEW l \in AcceptLoops
                 PROVE  pc'[<<d, l>>] = "off"
      OBVIOUS
    <3>1. d \in Conns /\ d \notin dialed
      OBVIOUS
    <3>2. <<d, l>> \in Threads /\ <<d, l>> # Closer
      BY <3>1
    <3>3. pc[<<d, l>>] = "off"
      BY <3>1 DEF Places
    <3> DEFINE u == <<d, l>>
    <3> HIDE DEF u
    <3>4. QED
      BY <3>2, <3>3 DEF TypeOK, u
  <2>8. QED
    BY <2>1, <2>2, <2>3, <2>4, <2>5, <2>6, <2>7, <2>0 DEF Places
<1>3. Locked'
  BY DEF TypeOK, Locked
<1>4. Dead'
  BY DEF TypeOK, Places, Dead
<1>5. Live'
  BY DEF TypeOK, Places, Locked, Dead, Live
<1>6. QED
  BY <1>1, <1>2, <1>3, <1>4, <1>5

\* Client.Close returns.
LEMMA CloseReturnsKeeps ==
  ASSUME ConnInv, CloseReturns
  PROVE  ConnInv'
<1> USE ThreadFacts DEF ConnInv, CloseReturns, Goto, clientVars, connVars, sessionVars, threadVars
<1>1. TypeOK'
  BY DEF TypeOK, Places
<1>2. Places'
  BY DEF TypeOK, Places
<1>3. Locked'
  BY DEF TypeOK, Locked
<1>4. Dead'
  BY DEF TypeOK, Places, Dead
<1>5. Live'
  BY DEF TypeOK, Places, Locked, Dead, Live
<1>6. QED
  BY <1>1, <1>2, <1>3, <1>4, <1>5

\* A connection dies by itself.
LEMMA ConnDiesKeeps ==
  ASSUME ConnInv, NEW c \in Conns, ConnDies(c)
  PROVE  ConnInv'
<1> USE ThreadFacts DEF ConnInv, ConnDies, clientVars, connVars, sessionVars, threadVars
<1>1. TypeOK'
  BY DEF TypeOK, Places
<1>2. Places'
  BY DEF TypeOK, Places
<1>3. Locked'
  BY DEF TypeOK, Locked
<1>4. Dead'
  BY DEF TypeOK, Places, Dead
<1>5. Live'
  BY DEF TypeOK, Places, Locked, Dead, Live
<1>6. QED
  BY <1>1, <1>2, <1>3, <1>4, <1>5

-----------------------------------------------------------------------------

LEMMA ConnKeeps == ConnInv /\ [Next]_vars => ConnInv'
<1> SUFFICES ASSUME ConnInv, [Next]_vars PROVE ConnInv'
  OBVIOUS
<1>1. CASE \E p \in Callers : CallStarts(p) \/ callStep(p) \/ RoundTrip(p)
                                \/ ConnectAccepted(p) \/ SessionClose(p)
  BY <1>1, CallStartsKeeps, GetKeeps, DialFailsKeeps, DialSucceedsKeeps, SettingsArriveKeeps,
     SettingsFailKeeps, ReturnErrorKeeps, RegisterKeeps, RoundTripKeeps, ConnectKeeps,
     SessionCloseKeeps
     DEF callStep
<1>2. CASE \E s \in SessionIds : monitorRequestStream(s)
  BY <1>2, MonitorKeeps
<1>3. CASE \E t \in Threads : closeStep(t)
  BY <1>3, CloseEntersKeeps, CloseNilsKeeps, CloseEachKeeps, CloseRawKeeps, CloseForgetsKeeps
     DEF closeStep
<1>4. CASE \E l \in Conns \X AcceptLoops : AcceptFails(l) \/ AcceptExits(l)
  BY <1>4, AcceptFailsKeeps, AcceptExitsKeeps DEF Loops
<1>5. CASE CloseCalled \/ Close \/ CloseReturns
  BY <1>5, CloseCalledKeeps, CloseKeeps, CloseReturnsKeeps
<1>6. CASE \E c \in Conns : ConnDies(c)
  BY <1>6, ConnDiesKeeps
<1>7. CASE UNCHANGED vars
  <2> USE <1>7 DEF vars, clientVars, connVars, sessionVars, threadVars
  <2>1. TypeOK'
    BY DEF ConnInv, TypeOK
  <2>2. Places' /\ Locked' /\ Dead' /\ Live'
    BY DEF ConnInv, Places, Locked, Dead, Live
  <2>3. QED
    BY <2>1, <2>2 DEF ConnInv
<1>8. QED
  BY <1>1, <1>2, <1>3, <1>4, <1>5, <1>6, <1>7 DEF Next

LEMMA ConnInvHolds == Spec => []ConnInv
BY ConnStarts, ConnKeeps, PTL DEF Spec

\* The variables keep their types, and a caller past getSharedConn has a
\* connection that exists, for any number of callers, connections and calls.
THEOREM ConnTypeCorrect == Spec => []TypeOK
<1>1. ConnInv => TypeOK
  BY DEF ConnInv
<1>2. QED
  BY <1>1, ConnInvHolds, PTL

LEMMA OneAlive == ConnInv => SingleConn
<1> SUFFICES ASSUME ConnInv PROVE SingleConn
  OBVIOUS
<1>1. \A c, d \in alive : c = d
  <2> SUFFICES ASSUME NEW c \in alive, NEW d \in alive PROVE c = d
    OBVIOUS
  <2>1. CASE mu # None
    <3>1. shared = None /\ ~ closed
      BY <2>1 DEF ConnInv, Locked
    <3>2. c \in Conns /\ d \in Conns
      BY DEF ConnInv, TypeOK
    <3>3. /\ \E p \in Callers : mu = p /\ at[p] = c
          /\ \E p \in Callers : mu = p /\ at[p] = d
      BY <3>1, <3>2, ThreadFacts DEF ConnInv, Live
    <3>4. QED
      BY <3>3
  <2>2. CASE mu = None
    <3>1. \A p \in Callers : mu # p
      BY <2>2, ThreadFacts
    <3>2. /\ shared = c \/ (closed /\ at[Closer] = c)
          /\ shared = d \/ (closed /\ at[Closer] = d)
      BY <3>1 DEF ConnInv, Live
    <3>3. c \in Conns /\ d \in Conns /\ (closed => shared = None)
      BY DEF ConnInv, TypeOK, Locked
    <3>4. QED
      BY <3>2, <3>3, ThreadFacts
  <2>3. QED
    BY <2>1, <2>2
<1>2. CASE alive = {}
  BY <1>2, FS_EmptySet DEF SingleConn
<1>3. CASE alive # {}
  <2>1. PICK c \in alive : TRUE
    BY <1>3
  <2>2. alive = {c}
    BY <1>1, <2>1
  <2>3. Cardinality(alive) = 1
    BY <2>2, FS_Singleton
  <2>4. QED
    BY <2>3 DEF SingleConn
<1>4. QED
  BY <1>2, <1>3

\* However dials, failed settings, deaths and closes interleave, a client never
\* has two live connections: sharedMu is kept from the look at Client.shared to
\* the publication.
THEOREM AtMostOneConn == Spec => []SingleConn
BY OneAlive, ConnInvHolds, PTL

LEMMA NoneAliveAfterClose == ConnInv => ClosedMeansClosed
<1> SUFFICES ASSUME ConnInv, pc[Closer] = "exited" PROVE alive = {}
  BY DEF ClosedMeansClosed
<1>1. closed /\ shared = None /\ mu = None
  BY DEF ConnInv, Locked
<1>2. None \notin alive /\ \A p \in Callers : mu # p
  BY <1>1, ThreadFacts DEF ConnInv, TypeOK
<1>3. QED
  BY <1>1, <1>2 DEF ConnInv, Live

\* When Client.Close has returned no connection is alive, and no call in
\* getSharedConn opens one afterwards.
THEOREM CloseLeavesNone == Spec => []ClosedMeansClosed
BY NoneAliveAfterClose, ConnInvHolds, PTL

\* A step that drops a published live connection is Client.Close's.
LEMMA StepKeepsLive ==
  ASSUME ConnInv, [Next]_vars, shared # None, shared \in alive', shared' # shared
  PROVE  closed'
<1> USE DEF clientVars, connVars, sessionVars, threadVars
<1>1. ASSUME NEW p \in Callers, getSharedConn(p) PROVE closed'
  BY <1>1 DEF getSharedConn
<1>2. ASSUME NEW p \in Callers, SettingsArrive(p) PROVE closed'
  BY <1>2, ThreadFacts DEF SettingsArrive, ConnInv, Locked
<1>3. ASSUME NEW t \in Threads, CloseForgets(t) PROVE closed'
  BY <1>3 DEF CloseForgets, ConnInv, Dead
<1>4. ASSUME Close PROVE closed'
  BY <1>4 DEF Close
<1>5. \/ \E p \in Callers : getSharedConn(p) \/ SettingsArrive(p)
      \/ \E t \in Threads : CloseForgets(t)
      \/ Close
  BY DEF Next, vars, callStep, closeStep, CallStarts, DialFails, DialSucceeds, SettingsFail,
         ReturnError, RoundTrip, ConnectAccepted, registerSession, SessionClose,
         monitorRequestStream, CloseEnters, CloseNilsSessions, CloseEachSession, CloseRaw,
         AcceptFails, AcceptExits, CloseCalled, CloseReturns, ConnDies
<1>6. QED
  BY <1>1, <1>2, <1>3, <1>4, <1>5

\* Only Client.Close gives up a published connection that is alive: the close()
\* of a connection that died earlier, however late it comes, leaves its
\* successor published.
THEOREM OnlyCloseGivesUp == Spec => LiveConnKept
<1>1. ConnInv /\ [Next]_vars
        => [shared # None /\ shared \in alive' /\ shared' # shared => closed']_vars
  BY StepKeepsLive
<1>2. QED
  BY <1>1, ConnInvHolds, PTL DEF Spec, LiveConnKept

-----------------------------------------------------------------------------
(* Who waits for whom                                                      *)

\* t is in the function that closeOnce runs.
Inside(t) == closing[t] \in {"nil", "each", "mu"}

\* t cannot go on: another goroutine is in the closeOnce it came to, or
\* somebody keeps the sharedMu it wants.
Waits(t) ==
  \/ closing[t] = "once" /\ once[at[t]] = "running"
  \/ (closing[t] = "mu" \/ pc[t] = "lock") /\ mu # None

\* u is the goroutine that t waits for.
WaitsFor(t, u) ==
  \/ closing[t] = "once" /\ once[at[t]] = "running" /\ Inside(u) /\ at[u] = at[t]
  \/ (closing[t] = "mu" \/ pc[t] = "lock") /\ mu = u

\* A running closeOnce has exactly one goroutine inside.
OnceHeld ==
  /\ \A c \in Conns : once[c] = "running" => \E t \in Threads : Inside(t) /\ at[t] = c
  /\ \A t \in Threads : Inside(t) => once[at[t]] = "running"
  /\ \A t, u \in Threads : Inside(t) /\ Inside(u) /\ at[t] = at[u] => t = u

\* While a caller sets a connection up under sharedMu, or closes it there,
\* nobody can finish closing it.
Unclosed ==
  \A p \in Callers :
    pc[p] = "settings" \/ (pc[p] = "failed" /\ closing[p] # "no") => once[at[p]] # "done"

WaitInv == ConnInv /\ OnceHeld /\ Unclosed

\* p runs close() with the sharedMu that it keeps.
WedgedBy(p) == mu = p /\ closing[p] # "no"

\* Whoever waits, waits for a goroutine; and unless a caller is wedged the
\* chain of waiting goroutines has at most two links: a closeOnce, then sharedMu.
WaitsAreShort ==
  /\ \A t \in Threads : Waits(t) => \E u \in Threads : WaitsFor(t, u)
  /\ ~ Wedged =>
       \A t, u, v \in Threads : WaitsFor(t, u) /\ WaitsFor(u, v) => ~ Waits(v)

\* A failed wait for the settings wedges the caller, and a caller that is wedged
\* stays so, sharedMu in hand.
WedgeStays ==
  [][\A p \in Callers : SettingsFail(p) \/ WedgedBy(p) => WedgedBy(p)']_vars

LEMMA WaitStarts == Init => WaitInv
<1> SUFFICES ASSUME Init PROVE WaitInv
  OBVIOUS
<1>1. \A t \in Threads : closing[t] = "no"
  BY DEF Init
<1>2. \A c \in Conns : once[c] = "idle"
  BY DEF Init
<1>3. \A p \in Callers : pc[p] = "idle"
  BY ThreadFacts DEF Init
<1>4. OnceHeld
  BY <1>1, <1>2 DEF OnceHeld, Inside
<1>5. Unclosed
  BY <1>3 DEF Unclosed
<1>6. QED
  BY <1>4, <1>5, ConnStarts DEF WaitInv

\* A step that leaves every closeOnce as it is, and those inside where they are,
\* keeps OnceHeld.
LEMMA OnceFrame ==
  ASSUME OnceHeld, once' = once,
         \A t \in Threads : Inside(t)' <=> Inside(t),
         \A t \in Threads : Inside(t) => at'[t] = at[t]
  PROVE  OnceHeld'
<1>1. \A c \in Conns : once'[c] = "running" => \E t \in Threads : Inside(t)' /\ at'[t] = c
  BY DEF OnceHeld
<1>2. \A t \in Threads : Inside(t)' => once'[at'[t]] = "running"
  BY DEF OnceHeld
<1>3. \A t, u \in Threads : Inside(t)' /\ Inside(u)' /\ at'[t] = at'[u] => t = u
  BY DEF OnceHeld
<1>4. QED
  BY <1>1, <1>2, <1>3 DEF OnceHeld

\* The steps that neither enter nor leave a closeOnce.
LEMMA OtherStepsFrame ==
  ASSUME ConnInv, [Next]_vars,
         ~ \E t \in Threads : CloseEnters(t) \/ CloseForgets(t)
  PROVE  /\ once' = once
         /\ \A t \in Threads : Inside(t)' <=> Inside(t)
         /\ \A t \in Threads : Inside(t) => at'[t] = at[t]
<1> DEFINE Frame == /\ once' = once
                    /\ \A t \in Threads : Inside(t)' <=> Inside(t)
                    /\ \A t \in Threads : Inside(t) => at'[t] = at[t]
<1> USE ThreadFacts DEF clientVars, connVars, sessionVars, threadVars
<1>0. /\ closing \in [Threads -> {"no", "once", "nil", "each", "mu"}]
      /\ at \in [Threads -> Conns \cup {None}]
      /\ \A t \in Threads : Inside(t) => pc[t] \in {"failed", "closing"}
  BY DEF ConnInv, TypeOK, Places, Inside
<1>1. ASSUME closing' = closing, at' = at, once' = once PROVE Frame
  BY <1>1 DEF Inside
<1>2. ASSUME NEW p \in Callers, getSharedConn(p) PROVE Frame
  BY <1>0, <1>2 DEF getSharedConn, Inside
<1>3. ASSUME NEW p \in Callers, DialSucceeds(p) PROVE Frame
  <2>1. PICK c \in Conns \ dialed :
          at' = [t \in Threads |-> IF t \in {p} \cup ({c} \X AcceptLoops) THEN c ELSE at[t]]
    BY <1>3 DEF DialSucceeds
  <2>2. \A t \in {c} \X AcceptLoops : pc[t] = "off"
    BY <2>1 DEF ConnInv, Places
  <2>3. pc[p] = "dial" /\ closing' = closing /\ once' = once
    BY <1>3 DEF DialSucceeds
  <2>4. \A t \in Threads : Inside(t) => at'[t] = at[t]
    BY <1>0, <2>1, <2>2, <2>3
  <2>5. QED
    BY <2>3, <2>4 DEF Inside
<1>4. ASSUME NEW p \in Callers, SettingsFail(p) PROVE Frame
  <2>1. ~ Inside(p)
    BY <1>4 DEF SettingsFail, ConnInv, Places, Inside
  <2>2. QED
    BY <1>0, <1>4, <2>1 DEF SettingsFail, Inside
<1>5. ASSUME NEW p \in Callers, ReturnError(p) \/ RoundTrip(p) \/ registerSession(p)
                                  \/ SessionClose(p)
      PROVE  Frame
  <2>1. ~ Inside(p)
    BY <1>0, <1>5 DEF ReturnError, RoundTrip, registerSession, SessionClose, Inside
  <2>2. /\ closing' = closing /\ once' = once
        /\ at' = at \/ at' = [at EXCEPT ![p] = None]
    BY <1>5 DEF ReturnError, RoundTrip, registerSession, SessionClose, Return
  <2>3. QED
    BY <1>0, <2>1, <2>2 DEF Inside
<1>6. ASSUME NEW t \in Threads, CloseNilsSessions(t) PROVE Frame
  BY <1>0, <1>6 DEF CloseNilsSessions, Inside
<1>7. ASSUME NEW t \in Threads, CloseRaw(t) PROVE Frame
  BY <1>0, <1>7 DEF CloseRaw, Inside
<1>8. ASSUME NEW l \in Conns \X AcceptLoops, AcceptFails(l) PROVE Frame
  <2>1. l \in Threads /\ ~ Inside(l)
    BY <1>0, <1>8 DEF AcceptFails, Inside, Loops
  <2>2. QED
    BY <1>0, <1>8, <2>1 DEF AcceptFails, Inside
<1>9. ASSUME Close PROVE Frame
  <2>1. ~ Inside(Closer)
    BY <1>0, <1>9 DEF Close
  <2>2. QED
    BY <1>0, <1>9, <2>1 DEF Close, Inside
<1>10. \/ closing' = closing /\ at' = at /\ once' = once
       \/ \E p \in Callers : \/ getSharedConn(p) \/ DialSucceeds(p) \/ SettingsFail(p)
                             \/ ReturnError(p) \/ RoundTrip(p) \/ registerSession(p)
                             \/ SessionClose(p)
       \/ \E t \in Threads : CloseNilsSessions(t) \/ CloseRaw(t)
       \/ \E l \in Conns \X AcceptLoops : AcceptFails(l)
       \/ Close
  BY DEF Next, vars, callStep, closeStep, CallStarts, DialFails, SettingsArrive,
         ConnectAccepted, monitorRequestStream, CloseEachSession, AcceptExits, CloseCalled,
         CloseReturns, ConnDies
<1>11. QED
  BY <1>1, <1>2, <1>3, <1>4, <1>5, <1>6, <1>7, <1>8, <1>9, <1>10

LEMMA EnterKeepsOnce ==
  ASSUME WaitInv, NEW t \in Threads, CloseEnters(t)
  PROVE  OnceHeld'
<1> DEFINE c == at[t]
<1>0. /\ closing \in [Threads -> {"no", "once", "nil", "each", "mu"}]
      /\ once \in [Conns -> {"idle", "running", "done"}]
      /\ c \in Conns /\ closing[t] = "once" /\ at' = at
  BY DEF WaitInv, ConnInv, TypeOK, Places, CloseEnters
<1>1. CASE once[c] = "idle"
  <2>1. /\ once' = [once EXCEPT ![c] = "running"]
        /\ closing' = [closing EXCEPT ![t] = "nil"]
    BY <1>1 DEF CloseEnters
  <2>2. \A u \in Threads : Inside(u)' <=> u = t \/ Inside(u)
    BY <1>0, <2>1 DEF Inside
  <2>3. \A u \in Threads : Inside(u) => at[u] # c
    BY <1>1 DEF WaitInv, OnceHeld
  <2>4. \A d \in Conns : once'[d] = IF d = c THEN "running" ELSE once[d]
    BY <1>0, <2>1
  <2>5. \A d \in Conns : once'[d] = "running" => \E u \in Threads : Inside(u)' /\ at'[u] = d
    BY <1>0, <2>2, <2>4 DEF WaitInv, OnceHeld
  <2>6. \A u \in Threads : Inside(u)' => once'[at'[u]] = "running"
    <3>1. \A u \in Threads : Inside(u) => at[u] \in Conns
      BY DEF WaitInv, ConnInv, TypeOK, Places, Inside
    <3>2. QED
      BY <1>0, <2>2, <2>4, <3>1 DEF WaitInv, OnceHeld
  <2>7. \A u, v \in Threads : Inside(u)' /\ Inside(v)' /\ at'[u] = at'[v] => u = v
    BY <1>0, <2>2, <2>3 DEF WaitInv, OnceHeld
  <2>8. QED
    BY <2>5, <2>6, <2>7 DEF OnceHeld
<1>2. CASE once[c] # "idle"
  <2>1. once' = once /\ closing' = [closing EXCEPT ![t] = "no"]
    BY <1>2 DEF CloseEnters
  <2>2. \A u \in Threads : Inside(u)' <=> Inside(u)
    BY <1>0, <2>1 DEF Inside
  <2>3. QED
    BY <1>0, <2>1, <2>2, OnceFrame DEF WaitInv
<1>3. QED
  BY <1>1, <1>2

LEMMA ForgetKeepsOnce ==
  ASSUME WaitInv, NEW t \in Threads, CloseForgets(t)
  PROVE  OnceHeld'
<1> DEFINE c == at[t]
<1>0. /\ closing \in [Threads -> {"no", "once", "nil", "each", "mu"}]
      /\ once \in [Conns -> {"idle", "running", "done"}]
      /\ c \in Conns /\ Inside(t) /\ at' = at
  BY DEF WaitInv, ConnInv, TypeOK, Places, CloseForgets, Inside
<1>1. /\ once' = [once EXCEPT ![c] = "done"]
      /\ closing' = [closing EXCEPT ![t] = "no"]
  BY DEF CloseForgets
<1>2. \A u \in Threads : Inside(u)' <=> u # t /\ Inside(u)
  BY <1>0, <1>1 DEF Inside
<1>3. \A u \in Threads : Inside(u) /\ u # t => at[u] # c
  BY <1>0 DEF WaitInv, OnceHeld
<1>4. \A d \in Conns : once'[d] = IF d = c THEN "done" ELSE once[d]
  BY <1>0, <1>1
<1>5. \A d \in Conns : once'[d] = "running" => \E u \in Threads : Inside(u)' /\ at'[u] = d
  <2>1. SUFFICES ASSUME NEW d \in Conns, once'[d] = "running"
                 PROVE  \E u \in Threads : Inside(u)' /\ at'[u] = d
    OBVIOUS
  <2>2. d # c /\ once[d] = "running"
    BY <1>4, <2>1
  <2>3. PICK u \in Threads : Inside(u) /\ at[u] = d
    BY <2>2 DEF WaitInv, OnceHeld
  <2>4. QED
    BY <1>0, <1>2, <2>2, <2>3
<1>6. \A u \in Threads : Inside(u)' => once'[at'[u]] = "running"
  <2>1. \A u \in Threads : Inside(u) => at[u] \in Conns
    BY DEF WaitInv, ConnInv, TypeOK, Places, Inside
  <2>2. QED
    BY <1>0, <1>2, <1>3, <1>4, <2>1 DEF WaitInv, OnceHeld
<1>7. \A u, v \in Threads : Inside(u)' /\ Inside(v)' /\ at'[u] = at'[v] => u = v
  BY <1>0, <1>2 DEF WaitInv, OnceHeld
<1>8. QED
  BY <1>5, <1>6, <1>7 DEF OnceHeld

LEMMA OnceKeeps == WaitInv /\ [Next]_vars => OnceHeld'
<1> SUFFICES ASSUME WaitInv, [Next]_vars PROVE OnceHeld'
  OBVIOUS
<1>1. CASE \E t \in Threads : CloseEnters(t) \/ CloseForgets(t)
  BY <1>1, EnterKeepsOnce, ForgetKeepsOnce
<1>2. CASE ~ \E t \in Threads : CloseEnters(t) \/ CloseForgets(t)
  BY <1>2, OtherStepsFrame, OnceFrame DEF WaitInv
<1>3. QED
  BY <1>1, <1>2

\* A closeOnce becomes done only when sharedMu is free.
LEMMA DoneNeedsMu ==
  ASSUME WaitInv, [Next]_vars, mu # None, NEW c \in Conns, once'[c] = "done"
  PROVE  once[c] = "done"
<1>1. CASE \E t \in Threads : CloseEnters(t) \/ CloseForgets(t)
  <2>1. PICK t \in Threads : CloseEnters(t)
    BY <1>1 DEF CloseForgets
  <2>2. once \in [Conns -> {"idle", "running", "done"}]
    BY DEF WaitInv, ConnInv, TypeOK
  <2>3. once' = once \/ once' = [once EXCEPT ![at[t]] = "running"]
    BY <2>1 DEF CloseEnters
  <2>4. QED
    BY <2>2, <2>3
<1>2. CASE ~ \E t \in Threads : CloseEnters(t) \/ CloseForgets(t)
  BY <1>2, OtherStepsFrame DEF WaitInv
<1>3. QED
  BY <1>1, <1>2

\* Where a caller that keeps sharedMu after the dial came from.
LEMMA SetupStep ==
  ASSUME WaitInv, [Next]_vars, NEW p \in Callers,
         pc'[p] = "settings" \/ (pc'[p] = "failed" /\ closing'[p] # "no")
  PROVE  \/ /\ pc[p] = "settings" \/ (pc[p] = "failed" /\ closing[p] # "no")
            /\ at'[p] = at[p]
         \/ pc[p] = "dial" /\ at'[p] \in Conns \ dialed /\ once' = once
<1> DEFINE Goal == \/ /\ pc[p] = "settings" \/ (pc[p] = "failed" /\ closing[p] # "no")
                      /\ at'[p] = at[p]
                   \/ pc[p] = "dial" /\ at'[p] \in Conns \ dialed /\ once' = once
<1> USE ThreadFacts DEF clientVars, connVars, sessionVars, threadVars, Goto, Return
<1>0. /\ closing \in [Threads -> {"no", "once", "nil", "each", "mu"}]
      /\ at \in [Threads -> Conns \cup {None}]
      /\ pc \in [Threads -> {"idle", "off", "lock", "dial", "settings", "failed", "closing", "have",
                             "register", "session", "accept", "exited"}]
      /\ \A q \in Callers : pc[q] = "dial" => closing[q] = "no"
  BY DEF WaitInv, ConnInv, TypeOK, Places
<1>1. ASSUME NEW q \in Callers, \/ CallStarts(q) \/ getSharedConn(q) \/ DialFails(q)
                                \/ SettingsArrive(q) \/ ReturnError(q)
                                \/ registerSession(q) \/ RoundTrip(q) \/ ConnectAccepted(q)
                                \/ SessionClose(q)
      PROVE  Goal
  <2>1. closing' = closing
    BY <1>1 DEF CallStarts, getSharedConn, DialFails, SettingsArrive, ReturnError,
                registerSession, RoundTrip, ConnectAccepted, SessionClose
  <2>2. \/ pc'[q] \in {"lock", "idle", "have", "dial", "register", "session"}
        \/ pc[q] = "dial" /\ pc'[q] = "failed"
    BY <1>0, <1>1 DEF CallStarts, getSharedConn, DialFails, SettingsArrive, ReturnError,
                      registerSession, RoundTrip, ConnectAccepted, SessionClose
  <2>3. q # p
    BY <1>0, <2>1, <2>2
  <2>4. at'[p] = at[p] /\ pc'[p] = pc[p]
    BY <1>0, <1>1, <2>3 DEF CallStarts, getSharedConn, DialFails, SettingsArrive, ReturnError,
                registerSession, RoundTrip, ConnectAccepted, SessionClose
  <2>5. QED
    BY <2>1, <2>4
<1>2. ASSUME NEW q \in Callers, DialSucceeds(q) PROVE Goal
  <2>1. PICK c \in Conns \ dialed :
          /\ at' = [t \in Threads |-> IF t \in {q} \cup ({c} \X AcceptLoops) THEN c ELSE at[t]]
          /\ pc' = [t \in Threads |-> IF t = q THEN "settings"
                                      ELSE IF t \in {c} \X AcceptLoops THEN "accept"
                                      ELSE pc[t]]
    BY <1>2 DEF DialSucceeds
  <2>2. pc[q] = "dial" /\ once' = once /\ closing' = closing
    BY <1>2 DEF DialSucceeds
  <2>3. p \notin {c} \X AcceptLoops
    BY DEF Loops
  <2>4. CASE p = q
    BY <2>1, <2>2, <2>4
  <2>5. CASE p # q
    <3>1. at'[p] = at[p] /\ pc'[p] = pc[p]
      BY <2>1, <2>3, <2>5
    <3>2. QED
      BY <2>2, <3>1
  <2>6. QED
    BY <2>4, <2>5
<1>3. ASSUME NEW q \in Callers, SettingsFail(q) PROVE Goal
  BY <1>0, <1>3 DEF SettingsFail
<1>4. ASSUME NEW s \in SessionIds, monitorRequestStream(s) PROVE Goal
  BY <1>4 DEF monitorRequestStream
<1>5. ASSUME NEW t \in Threads, closeStep(t) PROVE Goal
  <2>1. pc' = pc /\ at' = at
    BY <1>5 DEF closeStep, CloseEnters, CloseNilsSessions, CloseEachSession, CloseRaw, CloseForgets
  <2>2. closing[p] = "no" => closing'[p] = "no"
    BY <1>0, <1>5 DEF closeStep, CloseEnters, CloseNilsSessions, CloseEachSession, CloseRaw, CloseForgets
  <2>3. QED
    BY <2>1, <2>2
<1>6. ASSUME NEW l \in Conns \X AcceptLoops, AcceptFails(l) \/ AcceptExits(l) PROVE Goal
  <2>1. l \in Threads /\ l # p
    BY DEF Loops
  <2>2. pc'[p] = pc[p] /\ at'[p] = at[p] /\ closing'[p] = closing[p]
    BY <1>0, <1>6, <2>1 DEF AcceptFails, AcceptExits
  <2>3. QED
    BY <2>2
<1>7. ASSUME CloseCalled \/ Close \/ CloseReturns PROVE Goal
  <2>1. pc'[p] = pc[p] /\ at'[p] = at[p] /\ closing'[p] = closing[p]
    BY <1>0, <1>7 DEF CloseCalled, Close, CloseReturns
  <2>2. QED
    BY <2>1
<1>8. ASSUME NEW c \in Conns, ConnDies(c) PROVE Goal
  BY <1>8 DEF ConnDies
<1>9. ASSUME UNCHANGED vars PROVE Goal
  BY <1>9 DEF vars
<1>10. QED
  BY <1>1, <1>2, <1>3, <1>4, <1>5, <1>6, <1>7, <1>8, <1>9 DEF Next, callStep

LEMMA UnclosedKeeps == WaitInv /\ [Next]_vars => Unclosed'
<1> SUFFICES ASSUME WaitInv, [Next]_vars, NEW p \in Callers,
                    (pc[p] = "settings" \/ (pc[p] = "failed" /\ closing[p] # "no"))',
                    once'[at'[p]] = "done"
             PROVE  FALSE
  BY DEF Unclosed
<1>1. pc[p] \in {"dial", "settings", "failed"}
  BY SetupStep
<1>2. mu # None
  BY <1>1, ThreadFacts DEF WaitInv, ConnInv, Locked
<1>3. CASE /\ pc[p] = "settings" \/ (pc[p] = "failed" /\ closing[p] # "no")
           /\ at'[p] = at[p]
  <2>1. at[p] \in Conns
    BY <1>3, ThreadFacts DEF WaitInv, ConnInv, TypeOK, Places
  <2>2. once[at[p]] # "done"
    BY <1>3 DEF WaitInv, Unclosed
  <2>3. QED
    BY <1>2, <1>3, <2>1, <2>2, DoneNeedsMu
<1>4. CASE pc[p] = "dial" /\ at'[p] \in Conns \ dialed /\ once' = once
  BY <1>4 DEF WaitInv, ConnInv, Places
<1>5. QED
  BY <1>3, <1>4, SetupStep

LEMMA WaitKeeps == WaitInv /\ [Next]_vars => WaitInv'
BY ConnKeeps, OnceKeeps, UnclosedKeeps DEF WaitInv

LEMMA WaitInvHolds == Spec => []WaitInv
BY WaitStarts, WaitKeeps, PTL DEF Spec

\* The three kinds of waiting, and the one who is waited for.
LEMMA ChainsEnd == WaitInv => WaitsAreShort
<1> SUFFICES ASSUME WaitInv PROVE WaitsAreShort
  OBVIOUS
<1> USE ThreadFacts
<1>1. /\ mu \in Callers \cup {None}
      /\ \A t \in Threads : at[t] \in Conns \cup {None}
      /\ \A t \in Threads : closing[t] # "no" => at[t] \in Conns /\ pc[t] # "lock"
      /\ \A p \in Callers : mu = p => pc[p] # "lock"
      /\ None \notin Threads
  BY Parameters DEF WaitInv, ConnInv, TypeOK, Places, Locked
<1>2. ASSUME NEW t \in Threads, Waits(t) PROVE \E u \in Threads : WaitsFor(t, u)
  <2>1. CASE closing[t] = "once" /\ once[at[t]] = "running"
    <3>1. PICK u \in Threads : Inside(u) /\ at[u] = at[t]
      BY <1>1, <2>1 DEF WaitInv, OnceHeld
    <3>2. QED
      BY <2>1, <3>1 DEF WaitsFor
  <2>2. CASE (closing[t] = "mu" \/ pc[t] = "lock") /\ mu # None
    BY <1>1, <2>2 DEF WaitsFor
  <2>3. QED
    BY <1>2, <2>1, <2>2 DEF Waits
<1>3. ASSUME ~ Wedged, NEW t \in Threads, mu = t PROVE ~ Waits(t)
  <2>1. t \in Callers
    BY <1>1, <1>3
  <2>2. closing[t] = "no" /\ pc[t] # "lock"
    BY <1>1, <1>3, <2>1 DEF Wedged
  <2>3. QED
    BY <2>2 DEF Waits
<1>4. ASSUME ~ Wedged, NEW t \in Threads, NEW u \in Threads, NEW v \in Threads,
             WaitsFor(t, u), WaitsFor(u, v)
      PROVE  ~ Waits(v)
  <2>1. mu # u
    <3>1. Waits(u)
      BY <1>1, <1>4 DEF WaitsFor, Waits
    <3>2. QED
      BY <1>3, <1>4, <3>1
  <2>2. Inside(u) /\ pc[u] # "lock"
    BY <1>1, <1>4, <2>1 DEF WaitsFor, Inside
  <2>3. mu = v
    BY <1>4, <2>2 DEF WaitsFor, Inside
  <2>4. QED
    BY <1>3, <1>4, <2>3
<1>5. QED
  BY <1>2, <1>4 DEF WaitsAreShort

\* No goroutine waits for itself or in a ring unless a caller is wedged: who
\* waits for a closeOnce waits for the goroutine inside, which waits at most for
\* the caller that keeps sharedMu, and that one waits for the network only.
THEOREM OnlyWedgesDeadlock == Spec => []WaitsAreShort
BY ChainsEnd, WaitInvHolds, PTL

\* What a step may do to a caller in close() with sharedMu held.
LEMMA StepKeepsWedge ==
  ASSUME WaitInv, [Next]_vars, NEW p \in Callers, WedgedBy(p)
  PROVE  WedgedBy(p)'
<1> USE ThreadFacts DEF clientVars, connVars, sessionVars, threadVars
<1>0. /\ closing \in [Threads -> {"no", "once", "nil", "each", "mu"}]
      /\ mu = p /\ mu # None /\ closing[p] # "no" /\ pc[p] = "failed"
      /\ once[at[p]] # "done"
      /\ \A q \in Callers : pc[q] \in {"dial", "settings", "failed"} => q = p
  <2>1. mu = p /\ closing[p] # "no" /\ mu # None
    BY DEF WedgedBy
  <2>2. pc[p] = "failed"
    BY <2>1 DEF WaitInv, ConnInv, Places, Locked
  <2>3. QED
    BY <2>1, <2>2 DEF WaitInv, ConnInv, TypeOK, Locked, Unclosed
<1>1. ASSUME NEW q \in Callers, CallStarts(q) \/ callStep(q) \/ RoundTrip(q)
                                  \/ ConnectAccepted(q) \/ SessionClose(q)
      PROVE  WedgedBy(p)'
  <2>1. CallStarts(q) \/ RoundTrip(q) \/ ConnectAccepted(q) \/ SessionClose(q)
          \/ registerSession(q)
    BY <1>0, <1>1 DEF callStep, getSharedConn, DialFails, DialSucceeds, SettingsArrive,
                      SettingsFail, ReturnError
  <2>2. mu' = mu /\ closing' = closing
    BY <2>1 DEF CallStarts, RoundTrip, ConnectAccepted, SessionClose, registerSession
  <2>3. QED
    BY <1>0, <2>2 DEF WedgedBy
<1>2. ASSUME NEW s \in SessionIds, monitorRequestStream(s) PROVE WedgedBy(p)'
  BY <1>0, <1>2 DEF monitorRequestStream, WedgedBy
<1>3. ASSUME NEW t \in Threads, closeStep(t) PROVE WedgedBy(p)'
  <2>1. mu' = mu
    BY <1>3 DEF closeStep, CloseEnters, CloseNilsSessions, CloseEachSession, CloseRaw, CloseForgets
  <2>2. closing'[p] # "no"
    BY <1>0, <1>3
       DEF closeStep, CloseEnters, CloseNilsSessions, CloseEachSession, CloseRaw, CloseForgets
  <2>3. QED
    BY <1>0, <2>1, <2>2 DEF WedgedBy
<1>4. ASSUME NEW l \in Conns \X AcceptLoops, AcceptFails(l) \/ AcceptExits(l)
      PROVE  WedgedBy(p)'
  <2>1. l \in Threads /\ l # p
    BY DEF Loops
  <2>2. mu' = mu /\ closing'[p] = closing[p]
    BY <1>0, <1>4, <2>1 DEF AcceptFails, AcceptExits
  <2>3. QED
    BY <1>0, <2>2 DEF WedgedBy
<1>5. ASSUME CloseCalled \/ Close \/ CloseReturns PROVE WedgedBy(p)'
  BY <1>0, <1>5 DEF CloseCalled, Close, CloseReturns, WedgedBy
<1>6. ASSUME NEW c \in Conns, ConnDies(c) PROVE WedgedBy(p)'
  BY <1>0, <1>6 DEF ConnDies, WedgedBy
<1>7. ASSUME UNCHANGED vars PROVE WedgedBy(p)'
  BY <1>0, <1>7 DEF vars, WedgedBy
<1>8. QED
  BY <1>1, <1>2, <1>3, <1>4, <1>5, <1>6, <1>7 DEF Next

LEMMA FailureWedges ==
  ASSUME WaitInv, NEW p \in Callers, SettingsFail(p)
  PROVE  WedgedBy(p)'
<1>1. mu = p /\ mu' = mu
  BY DEF WaitInv, ConnInv, Locked, SettingsFail, clientVars
<1>2. closing \in [Threads -> {"no", "once", "nil", "each", "mu"}] /\ p \in Threads
  BY ThreadFacts DEF WaitInv, ConnInv, TypeOK
<1>3. closing'[p] = "once"
  BY <1>2 DEF SettingsFail
<1>4. QED
  BY <1>1, <1>3 DEF WedgedBy

\* From a failed wait for the settings on, the caller is in close() with
\* sharedMu held and never leaves it, whatever the other goroutines do: close()
\* takes the lock the caller keeps, and nobody can finish the closeOnce for it.
\* With OnlyWedgesDeadlock, the deadlock that EveryCallReturns meets is the only
\* one, and it is permanent.
THEOREM WedgedForEver == Spec => WedgeStays
<1>1. WaitInv /\ [Next]_vars
        => [\A p \in Callers : SettingsFail(p) \/ WedgedBy(p) => WedgedBy(p)']_vars
  BY StepKeepsWedge, FailureWedges
<1>2. QED
  BY <1>1, WaitInvHolds, PTL DEF Spec, WedgeStays

=============================================================================
