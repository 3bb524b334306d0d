--------------------------- MODULE ProxySessions ---------------------------
(***************************************************************************)
(* The session table of the UDP proxy, internal/proxy/proxy.go: who may    *)
(* create, unmap and close a session.  The actors are                      *)
(*                                                                         *)
(*   Serve       reads client packets, looks sessions up and creates them, *)
(*               releasing sessionsMu while it dials;                      *)
(*   sweepLoop   unmaps idle sessions under sessionsMu, closes them after; *)
(*   Close       empties the map under sessionsMu, closes the sessions,    *)
(*               then the listening socket;                                *)
(*   the loops   of every session (returnReadLoop, toServerLoop and        *)
(*               toClientLoop), each of which may fail at any time and     *)
(*               then calls removeSession.                                 *)
(*                                                                         *)
(* What the loops do with packets is in SessionLoops and ApplyLoop.        *)
(***************************************************************************)
EXTENDS Integers, FiniteSets

CONSTANTS
  Clients,   \* client addresses, the keys of Proxy.sessions
  Sessions,  \* session objects: each is allocated at most once
  Loops,     \* the loops of a session that call removeSession
  None       \* no session, no client

ASSUME NoneIsNone == None \notin Clients \cup Sessions
ASSUME SessionsFinite == IsFiniteSet(Sessions)

VARIABLES
  sessions,  \* Proxy.sessions
  key,       \* session.key, None until the session exists
  done,      \* sessions that close() has been called on: done closed, socket closed
  active,    \* the SessionsActive gauge
  idle,      \* sessions with idleFor() > idleTimeout
  loops,     \* where each loop of each session is
  serve,     \* where Serve is
  client,    \* the client whose packet Serve handles
  current,   \* the session Serve has looked up or allocated
  sweep,     \* where sweepLoop is
  evicted,   \* sessions sweepLoop has unmapped and will close
  closer,    \* where Close is
  collected, \* sessions Close has unmapped and will close
  cancelled, \* Serve's context is done
  listening  \* listenConn is open

tableVars == <<sessions, key, done, active>>
serveVars == <<serve, client, current>>
sweepVars == <<sweep, evicted>>
closeVars == <<closer, collected, cancelled, listening>>
vars == <<tableVars, idle, loops, serveVars, sweepVars, closeVars>>

LoopState == {"off", "run", "remove", "close", "exited"}

Init ==
  /\ sessions = [c \in Clients |-> None]
  /\ key = [s \in Sessions |-> None]
  /\ done = {} /\ active = 0 /\ idle = {}
  /\ loops = [s \in Sessions |-> [l \in Loops |-> "off"]]
  /\ serve = "read" /\ client = None /\ current = None
  /\ sweep = "tick" /\ evicted = {}
  /\ closer = "idle" /\ collected = {} /\ cancelled = FALSE /\ listening = TRUE

\* The sessions that have been allocated and not closed.
Open == {s \in Sessions : key[s] # None /\ s \notin done}

\* Variant: without closeOnce every call counts.
closeEveryTime(s) ==
  /\ done' = done \cup {s}
  /\ active' = active - 1

\* session.close: once per session, whoever calls.
close(s) ==
  /\ done' = done \cup {s}
  /\ active' = IF s \in done THEN active ELSE active - 1

-----------------------------------------------------------------------------
(* Serve and getOrCreateSession.                                           *)

\* A packet arrives; the map is looked up under the lock.
ReadPacket(c) ==
  /\ serve = "read" /\ listening
  /\ client' = c
  /\ \/ /\ sessions[c] # None
        /\ current' = sessions[c] /\ serve' = "enqueue"
     \/ /\ sessions[c] = None
        /\ current' = None /\ serve' = "dial"
  /\ UNCHANGED <<tableVars, idle, loops, sweepVars, closeVars>>

\* Dialling fails and the packet is dropped.
DialFails ==
  /\ serve = "dial"
  /\ serve' = "read" /\ client' = None
  /\ UNCHANGED <<tableVars, idle, loops, current, sweepVars, closeVars>>

\* The session is allocated, counted and touched, but not yet in the map.
Allocate(s) ==
  /\ serve = "dial"
  /\ key[s] = None
  /\ key' = [key EXCEPT ![s] = client]
  /\ active' = active + 1
  /\ current' = s
  /\ serve' = "insert"
  /\ UNCHANGED <<sessions, done, idle, loops, client, sweepVars, closeVars>>

\* Back under the lock: the session enters the map and its loops start, unless another
\* session has taken the key meanwhile.  None ever has, as Serve is the only caller.
Insert ==
  /\ serve = "insert"
  /\ IF sessions[client] = None
     THEN /\ sessions' = [sessions EXCEPT ![client] = current]
          /\ loops' = [loops EXCEPT ![current] = [l \in Loops |-> "run"]]
          /\ UNCHANGED <<done, active, current>>
     ELSE /\ close(current)
          /\ current' = sessions[client]
          /\ UNCHANGED <<sessions, loops>>
  /\ serve' = "enqueue"
  /\ UNCHANGED <<key, idle, client, sweepVars, closeVars>>

\* enqueueIncoming, which never waits: a closed session or a full queue
\* refuses the packet, and once p.closed is closed a refusal ends Serve.
EnqueueIncoming ==
  /\ serve = "enqueue"
  /\ serve' \in IF closer = "idle" THEN {"read"} ELSE {"read", "stopped"}
  /\ client' = None /\ current' = None
  /\ UNCHANGED <<tableVars, idle, loops, sweepVars, closeVars>>

\* ReadFromUDP fails: the socket is closed, or something else is wrong with it.
ReadFails ==
  /\ serve = "read"
  /\ serve' = "stopped"
  /\ UNCHANGED <<tableVars, idle, loops, client, current, sweepVars, closeVars>>

-----------------------------------------------------------------------------
(* The loops of a session and removeSession.                               *)

goLoop(s, l, from, to) ==
  loops[s][l] = from /\ loops' = [loops EXCEPT ![s][l] = to]

\* A read or a write fails, in the end because the sockets are closed.
LoopFails(s, l) ==
  /\ goLoop(s, l, "run", "remove")
  /\ UNCHANGED <<tableVars, idle, serveVars, sweepVars, closeVars>>

\* Variant: whatever the key maps to is removed.
RemoveAnySession(s, l) ==
  /\ goLoop(s, l, "remove", "close")
  /\ sessions' = [sessions EXCEPT ![key[s]] = None]
  /\ UNCHANGED <<key, done, active, idle, serveVars, sweepVars, closeVars>>

\* Variant: the session is closed before it is unmapped.
RemoveClosesFirst(s, l) ==
  /\ goLoop(s, l, "remove", "close")
  /\ close(s)
  /\ UNCHANGED <<sessions, key, idle, serveVars, sweepVars, closeVars>>

\* removeSession under the lock: only this very session is unmapped.
RemoveSession(s, l) ==
  /\ goLoop(s, l, "remove", "close")
  /\ sessions' = [sessions EXCEPT ![key[s]] = IF @ = s THEN None ELSE @]
  /\ UNCHANGED <<key, done, active, idle, serveVars, sweepVars, closeVars>>

\* removeSession after the lock, and the loop returns.
LoopCloses(s, l) ==
  /\ goLoop(s, l, "close", "exited")
  /\ close(s)
  /\ UNCHANGED <<sessions, key, idle, serveVars, sweepVars, closeVars>>

\* The loop sees s.done and returns.
LoopDone(s, l) ==
  /\ s \in done
  /\ goLoop(s, l, "run", "exited")
  /\ UNCHANGED <<tableVars, idle, serveVars, sweepVars, closeVars>>

\* touch, by any packet that moves.
Touch(s) ==
  /\ s \in idle /\ s \notin done
  /\ idle' = idle \ {s}
  /\ UNCHANGED <<tableVars, loops, serveVars, sweepVars, closeVars>>

\* Nothing moves for idleTimeout.
BecomesIdle(s) ==
  /\ key[s] # None /\ s \notin idle /\ s \notin done
  /\ idle' = idle \cup {s}
  /\ UNCHANGED <<tableVars, loops, serveVars, sweepVars, closeVars>>

-----------------------------------------------------------------------------
(* sweepLoop.                                                              *)

\* The ticker: idle sessions are unmapped under the lock.
Sweep ==
  /\ sweep = "tick"
  /\ evicted' = {sessions[c] : c \in Clients} \cap idle
  /\ sessions' = [c \in Clients |-> IF sessions[c] \in idle THEN None ELSE sessions[c]]
  /\ sweep' = "closing"
  /\ UNCHANGED <<key, done, active, idle, loops, serveVars, closeVars>>

\* And closed after it, one by one.
SweepCloses(s) ==
  /\ sweep = "closing" /\ s \in evicted
  /\ close(s)
  /\ evicted' = evicted \ {s}
  /\ UNCHANGED <<sessions, key, idle, loops, serveVars, sweep, closeVars>>

SweepEnds ==
  /\ sweep = "closing" /\ evicted = {}
  /\ sweep' = "tick"
  /\ UNCHANGED <<tableVars, idle, loops, serveVars, evicted, closeVars>>

\* Variant: the context is looked at between two closes as well.
SweepStopsEarly ==
  /\ sweep \in {"tick", "closing"}
  /\ cancelled \/ closer # "idle"
  /\ sweep' = "stopped"
  /\ UNCHANGED <<tableVars, idle, loops, serveVars, evicted, closeVars>>

\* The select sees the context, or p.closed.
SweepStops ==
  /\ sweep = "tick"
  /\ cancelled \/ closer # "idle"
  /\ sweep' = "stopped"
  /\ UNCHANGED <<tableVars, idle, loops, serveVars, evicted, closeVars>>

-----------------------------------------------------------------------------
(* Shutdown.                                                               *)

Cancel ==
  /\ ~ cancelled
  /\ cancelled' = TRUE
  /\ UNCHANGED <<tableVars, idle, loops, serveVars, sweepVars, closer,
                 collected, listening>>

\* Close, by the goroutine that waits for the context or by anyone else:
\* p.closed is closed first.
CloseStarts ==
  /\ closer = "idle"
  /\ closer' = "collect"
  /\ UNCHANGED <<tableVars, idle, loops, serveVars, sweepVars, collected,
                 cancelled, listening>>

CloseCollects ==
  /\ closer = "collect"
  /\ collected' = {sessions[c] : c \in Clients} \ {None}
  /\ sessions' = [c \in Clients |-> None]
  /\ closer' = "closing"
  /\ UNCHANGED <<key, done, active, idle, loops, serveVars, sweepVars,
                 cancelled, listening>>

CloseCloses(s) ==
  /\ closer = "closing" /\ s \in collected
  /\ close(s)
  /\ collected' = collected \ {s}
  /\ UNCHANGED <<sessions, key, idle, loops, serveVars, sweepVars, closer,
                 cancelled, listening>>

\* Variant: the listening socket is left open.
CloseKeepsListening ==
  /\ closer = "closing" /\ collected = {}
  /\ closer' = "finished"
  /\ UNCHANGED <<tableVars, idle, loops, serveVars, sweepVars, collected,
                 cancelled, listening>>

CloseListenConn ==
  /\ closer = "closing" /\ collected = {}
  /\ listening' = FALSE
  /\ closer' = "finished"
  /\ UNCHANGED <<tableVars, idle, loops, serveVars, sweepVars, collected,
                 cancelled>>

-----------------------------------------------------------------------------

ServeStep == EnqueueIncoming \/ Insert \/ DialFails
             \/ \E s \in Sessions : Allocate(s)
SweepStep == SweepEnds \/ SweepStops \/ \E s \in Sessions : SweepCloses(s)
CloseStep == CloseCollects \/ CloseListenConn \/ \E s \in Sessions : CloseCloses(s)
RemoveStep(s, l) == RemoveSession(s, l) \/ LoopCloses(s, l)

Next ==
  \/ ServeStep \/ ReadFails \/ \E c \in Clients : ReadPacket(c)
  \/ SweepStep \/ Sweep
  \/ CloseStep \/ CloseStarts \/ Cancel
  \/ \E s \in Sessions :
       \/ Touch(s) \/ BecomesIdle(s)
       \/ \E l \in Loops : LoopFails(s, l) \/ LoopDone(s, l) \/ RemoveStep(s, l)

Spec == Init /\ [][Next]_vars

\* Every goroutine that can go on does; a cancelled context starts Close; a
\* read of a closed socket fails, and the loops of a closed session end.
\* Packets, failures, idleness and ticks of the sweeper may or may not come.
Fairness ==
  /\ WF_vars(ServeStep) /\ WF_vars(SweepStep) /\ WF_vars(CloseStep)
  /\ WF_vars(cancelled /\ CloseStarts) /\ WF_vars(~ listening /\ ReadFails)
  /\ \A s \in Sessions, l \in Loops :
       WF_vars(RemoveStep(s, l)) /\ WF_vars(LoopDone(s, l))

FairSpec == Spec /\ Fairness

-----------------------------------------------------------------------------
(* Properties.                                                             *)

\* Every variable has its type; the gauge is never negative.
TypeOK ==
  /\ sessions \in [Clients -> Sessions \cup {None}]
  /\ key \in [Sessions -> Clients \cup {None}]
  /\ done \subseteq Sessions /\ idle \subseteq Sessions
  /\ active \in Nat
  /\ loops \in [Sessions -> [Loops -> LoopState]]
  /\ serve \in {"read", "dial", "insert", "enqueue", "stopped"}
  /\ client \in Clients \cup {None} /\ current \in Sessions \cup {None}
  /\ sweep \in {"tick", "closing", "stopped"} /\ evicted \subseteq Sessions
  /\ closer \in {"idle", "collect", "closing", "finished"}
  /\ collected \subseteq Sessions
  /\ cancelled \in BOOLEAN /\ listening \in BOOLEAN

\* A session in the map is open and its own: a client's packets never go to a
\* session that somebody has already closed, except one in Serve's hands.
MappedIsOpen ==
  \A c \in Clients : sessions[c] # None =>
    sessions[c] \in Open /\ key[sessions[c]] = c

\* An open session can be found by its client, or somebody still has it in
\* hand: no goroutine of an old session unmaps the one that replaced it.
NoOrphan ==
  \A s \in Open :
    \/ sessions[key[s]] = s
    \/ s \in evicted \cup collected
    \/ serve = "insert" /\ current = s
    \/ \E l \in Loops : loops[s][l] = "close"

\* The SessionsActive gauge is the number of open sessions, though up to
\* five callers close the same session.
GaugeCountsOpen == active = Cardinality(Open)

\* Serve returns after its context is cancelled (proxy_internal_test.go:75).
ServeEndsAfterCancel == cancelled ~> serve = "stopped"

\* A session that leaves the map is closed, whether sweepLoop, Close or removeSession took
\* it out, and then all its loops end.
UnmappedIsClosed ==
  \A s \in Sessions :
    /\ (s \in evicted \cup collected \/ \E l \in Loops : loops[s][l] = "close") ~> s \in done
    /\ s \in done ~> \A l \in Loops : loops[s][l] \in {"off", "exited"}

=============================================================================
