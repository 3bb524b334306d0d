---------------------------- MODULE ProxyProofs -----------------------------
(***************************************************************************)
(* What holds of the proxy's session table for any set of clients, any     *)
(* finite set of sessions and any number of loops: a mapped session is     *)
(* open and its client's own, an open one is never lost, and the gauge     *)
(* counts the open ones.  And of the goroutines inside a session, for      *)
(* every capacity of the channels and every number of packets: the         *)
(* channels keep to their capacity, and no packet disappears between the   *)
(* goroutines while the session is open.                                   *)
(***************************************************************************)
EXTENDS ProxySessions, SessionLoops, FiniteSetTheorems, TLAPS

-----------------------------------------------------------------------------
(* The session table.                                                      *)

\* A session object that is not allocated yet is in nobody's hands.
Unborn ==
  \A s \in Sessions : key[s] = None =>
    /\ s \notin done \cup idle \cup evicted \cup collected
    /\ \A l \in Loops : loops[s][l] = "off"

\* Serve dials and inserts for a client that has no session: nobody else
\* inserts.  The session it allocated is open and nobody else knows of it.
InServesHands ==
  /\ serve \in {"dial", "insert"} => client \in Clients /\ sessions[client] = None
  /\ serve = "insert" =>
       /\ current \in Open /\ key[current] = client
       /\ current \notin evicted \cup collected
       /\ \A l \in Loops : loops[current][l] = "off"

\* A session that sweepLoop, Close or a loop is about to close has left the map.
UnmappedBeforeClosed ==
  \A s \in Sessions :
    s \in evicted \cup collected \/ (\E l \in Loops : loops[s][l] = "close")
      => \A c \in Clients : sessions[c] # s

\* sweepLoop and Close have closed all that they unmapped before they go on.
HandsEmpty ==
  (sweep # "closing" => evicted = {}) /\ (closer # "closing" => collected = {})

\* The inductive invariant of the table.
TableInv ==
  TypeOK /\ Unborn /\ InServesHands /\ UnmappedBeforeClosed /\ HandsEmpty
    /\ MappedIsOpen /\ NoOrphan /\ GaugeCountsOpen

\* session.close, called on a session that exists: whoever calls, and however
\* often, the session is closed once and the gauge follows.
LEMMA CloseCounts ==
  ASSUME TypeOK, GaugeCountsOpen, NEW s \in Sessions, key[s] # None, close(s),
         UNCHANGED key
  PROVE  /\ Open' = Open \ {s} /\ done' \subseteq Sessions
         /\ active' \in Nat /\ GaugeCountsOpen'
<1>1. IsFiniteSet(Open)
  BY SessionsFinite, FS_Subset DEF Open
<1>2. Open' = Open \ {s} /\ done' \subseteq Sessions
  BY DEF Open, close, TypeOK
<1>3. active' = Cardinality(Open \ {s})
  <2>1. CASE s \in done
    <3>1. Open \ {s} = Open
      BY <2>1 DEF Open
    <3>2. QED
      BY <2>1, <3>1 DEF close, GaugeCountsOpen
  <2>2. CASE s \notin done
    <3>1. s \in Open
      BY <2>2 DEF Open
    <3>2. Cardinality(Open \ {s}) = Cardinality(Open) - 1
      BY <1>1, <3>1, FS_RemoveElement
    <3>3. QED
      BY <2>2, <3>2 DEF close, GaugeCountsOpen
  <2>3. QED
    BY <2>1, <2>2
<1>4. active' \in Nat
  BY <1>1, <1>3, FS_RemoveElement, FS_Subset, FS_CardinalityType
<1>5. QED
  BY <1>2, <1>3, <1>4 DEF GaugeCountsOpen

\* A step that allocates and closes nothing leaves the gauge right.
LEMMA GaugeSteady ==
  ASSUME GaugeCountsOpen, UNCHANGED <<key, done, active>>
  PROVE  Open' = Open /\ GaugeCountsOpen'
BY DEF GaugeCountsOpen, Open

\* Initially the table is empty and the invariant holds.
LEMMA TableInvInit == Init => TableInv
<1> SUFFICES ASSUME Init PROVE TableInv
  OBVIOUS
<1>1. TypeOK
  BY DEF Init, TypeOK, LoopState
<1>2. Open = {}
  BY DEF Init, Open
<1>3. GaugeCountsOpen
  BY <1>2, FS_EmptySet DEF Init, GaugeCountsOpen
<1>4. Unborn /\ InServesHands /\ UnmappedBeforeClosed /\ MappedIsOpen /\ NoOrphan
  BY <1>2, NoneIsNone DEF Init, Unborn, InServesHands, UnmappedBeforeClosed,
    MappedIsOpen, NoOrphan
<1>5. QED
  BY <1>1, <1>3, <1>4 DEF TableInv, HandsEmpty, Init

\* What Serve does keeps the invariant.
LEMMA ServeKeeps ==
  ASSUME TableInv,
         \/ ServeStep \/ ReadFails \/ \E c \in Clients : ReadPacket(c)
  PROVE  TableInv'
<1> USE DEF TableInv, tableVars, sweepVars, closeVars
<1>0. HandsEmpty' <=> HandsEmpty
  BY DEF HandsEmpty, ServeStep, ReadFails, ReadPacket, EnqueueIncoming, Insert,
    DialFails, Allocate
<1>1. ASSUME NEW c \in Clients, ReadPacket(c) PROVE TableInv'
  <2>1. TypeOK'
    BY <1>1 DEF ReadPacket, TypeOK
  <2>2. Open' = Open /\ GaugeCountsOpen'
    BY <1>1, GaugeSteady DEF ReadPacket
  <2>3. QED
    BY <1>0, <1>1, <2>1, <2>2 DEF ReadPacket, Unborn, InServesHands,
      UnmappedBeforeClosed, MappedIsOpen, NoOrphan
<1>2. CASE DialFails \/ ReadFails \/ EnqueueIncoming
  <2>1. TypeOK'
    BY <1>2 DEF DialFails, ReadFails, EnqueueIncoming, TypeOK
  <2>2. Open' = Open /\ GaugeCountsOpen'
    BY <1>2, GaugeSteady DEF DialFails, ReadFails, EnqueueIncoming
  <2>3. QED
    BY <1>0, <1>2, <2>1, <2>2 DEF DialFails, ReadFails, EnqueueIncoming, Unborn,
      InServesHands, UnmappedBeforeClosed, MappedIsOpen, NoOrphan
<1>3. ASSUME NEW s \in Sessions, Allocate(s) PROVE TableInv'
  <2>1. /\ s \notin Open /\ s # None /\ client \in Clients /\ client # None
        /\ sessions[client] = None
    BY <1>3, NoneIsNone DEF Allocate, Open, InServesHands
  <2>2. Open' = Open \cup {s}
    BY <1>3, <2>1 DEF Allocate, Open, TypeOK, Unborn
  <2>3. IsFiniteSet(Open)
    BY SessionsFinite, FS_Subset DEF Open
  <2>4. TypeOK'
    BY <1>3, <2>1 DEF Allocate, TypeOK
  <2>5. GaugeCountsOpen'
    BY <1>3, <2>1, <2>2, <2>3, FS_AddElement DEF Allocate, GaugeCountsOpen
  <2>6. Unborn' /\ InServesHands'
    BY <1>3, <2>1, <2>2 DEF Allocate, TypeOK, Unborn, InServesHands
  <2>7. UnmappedBeforeClosed' /\ MappedIsOpen' /\ NoOrphan'
    BY <1>3, <2>1, <2>2 DEF Allocate, TypeOK, Unborn, UnmappedBeforeClosed,
      MappedIsOpen, NoOrphan
  <2>8. QED
    BY <1>0, <2>4, <2>5, <2>6, <2>7
<1>4. CASE Insert
  <2>0. /\ serve = "insert" /\ serve' = "enqueue" /\ sessions[client] = None
        /\ sessions' = [sessions EXCEPT ![client] = current]
        /\ loops' = [loops EXCEPT ![current] = [l \in Loops |-> "run"]]
        /\ UNCHANGED <<key, done, active, idle, client, current, sweep, evicted,
                       closer, collected, cancelled, listening>>
    BY <1>4 DEF Insert, InServesHands
  <2>1. /\ client \in Clients /\ current \in Sessions /\ current # None
        /\ current \in Open /\ key[current] = client
    BY <2>0, NoneIsNone DEF InServesHands, Open
  <2>2. TypeOK'
    BY <2>0, <2>1 DEF TypeOK, LoopState
  <2>3. Open' = Open /\ GaugeCountsOpen'
    BY <2>0, GaugeSteady
  <2>4. Unborn' /\ InServesHands'
    BY <2>0, <2>1, <2>2 DEF TypeOK, Unborn, InServesHands, Open
  <2>5. /\ sessions' = [sessions EXCEPT ![client] = current]
        /\ loops' = [loops EXCEPT ![current] = [l \in Loops |-> "run"]]
        /\ UNCHANGED <<key, evicted, collected>>
    BY <2>0
  <2>6. UnmappedBeforeClosed'
    BY <2>0, <2>1, <2>5 DEF TypeOK, InServesHands, UnmappedBeforeClosed
  <2>7. MappedIsOpen'
    BY <2>1, <2>3, <2>5 DEF TypeOK, MappedIsOpen
  <2>8. NoOrphan'
    <3> SUFFICES ASSUME NEW s \in Open, s # current
                 PROVE  \/ sessions'[key[s]] = s
                        \/ s \in evicted \cup collected
                        \/ \E l \in Loops : loops'[s][l] = "close"
      BY <2>1, <2>3, <2>5 DEF NoOrphan, TypeOK
    <3>1. /\ s \in Sessions /\ s # None /\ key[s] \in Clients
          /\ sessions[client] = None
      BY <2>0, NoneIsNone DEF Open, TypeOK
    <3>2. \A l \in Loops : loops'[s][l] = loops[s][l]
      BY <2>1, <2>5, <3>1 DEF TypeOK
    <3>3. sessions[key[s]] = s => sessions'[key[s]] = s
      BY <2>1, <2>5, <3>1 DEF TypeOK
    <3>4. QED
      BY <2>0, <3>2, <3>3 DEF NoOrphan
  <2>9. QED
    BY <1>0, <2>2, <2>3, <2>4, <2>6, <2>7, <2>8
<1>5. QED
  BY <1>1, <1>2, <1>3, <1>4 DEF ServeStep

\* What the loops of a session do, removeSession included, keeps it.
LEMMA LoopsKeep ==
  ASSUME TableInv, NEW s \in Sessions,
         \/ Touch(s) \/ BecomesIdle(s)
         \/ \E l \in Loops : LoopFails(s, l) \/ LoopDone(s, l) \/ RemoveStep(s, l)
  PROVE  TableInv'
<1> USE DEF TableInv, tableVars, serveVars, sweepVars, closeVars, goLoop
<1>0. HandsEmpty' <=> HandsEmpty
  BY DEF HandsEmpty, Touch, BecomesIdle, LoopFails, LoopDone, RemoveStep,
    RemoveSession, LoopCloses
<1>1. CASE Touch(s) \/ BecomesIdle(s)
  <2>1. TypeOK'
    BY <1>1 DEF Touch, BecomesIdle, TypeOK
  <2>2. Open' = Open /\ GaugeCountsOpen'
    BY <1>1, GaugeSteady DEF Touch, BecomesIdle
  <2>3. QED
    BY <1>0, <1>1, <2>1, <2>2 DEF Touch, BecomesIdle, Unborn, InServesHands,
      UnmappedBeforeClosed, MappedIsOpen, NoOrphan
<1>2. ASSUME NEW l \in Loops, LoopFails(s, l) \/ LoopDone(s, l) PROVE TableInv'
  <2>1. TypeOK'
    <3>1. loops' \in [Sessions -> [Loops -> LoopState]]
      BY <1>2, SMTT(30) DEF LoopFails, LoopDone, TypeOK, LoopState
    <3>2. QED
      BY <1>2, <3>1 DEF LoopFails, LoopDone, TypeOK
  <2>2. Open' = Open /\ GaugeCountsOpen'
    BY <1>2, GaugeSteady DEF LoopFails, LoopDone
  <2>3. /\ loops[s][l] = "run"
        /\ \A r \in Sessions, m \in Loops :
             /\ loops'[r][m] # loops[r][m] => r = s
             /\ loops'[r][m] = "close" <=> loops[r][m] = "close"
    BY <1>2 DEF LoopFails, LoopDone, TypeOK
  <2>4. Unborn' /\ InServesHands'
    BY <1>2, <2>2, <2>3 DEF LoopFails, LoopDone, Unborn, InServesHands, Open, TypeOK
  <2>5. UnmappedBeforeClosed' /\ MappedIsOpen' /\ NoOrphan'
    BY <1>2, <2>2, <2>3 DEF LoopFails, LoopDone, UnmappedBeforeClosed,
      MappedIsOpen, NoOrphan, Open
  <2>6. QED
    BY <1>0, <2>1, <2>2, <2>4, <2>5
<1>3. ASSUME NEW l \in Loops, RemoveSession(s, l) PROVE TableInv'
  <2>1. key[s] \in Clients /\ s # None
    BY <1>3, NoneIsNone DEF RemoveSession, Unborn, TypeOK
  <2>2. TypeOK'
    BY <1>3, <2>1 DEF RemoveSession, TypeOK, LoopState
  <2>3. Open' = Open /\ GaugeCountsOpen'
    BY <1>3, GaugeSteady DEF RemoveSession
  <2>4. /\ loops[s][l] = "remove" /\ loops'[s][l] = "close"
        /\ \A r \in Sessions, m \in Loops :
             /\ loops'[r][m] # loops[r][m] => r = s /\ loops'[r][m] = "close"
    BY <1>3 DEF RemoveSession, TypeOK
  <2>5. \A c \in Clients :
          /\ sessions'[c] # s
          /\ sessions[c] # s => sessions'[c] = sessions[c]
          /\ sessions'[c] \in {sessions[c], None}
    BY <1>3, <2>1 DEF RemoveSession, TypeOK, MappedIsOpen
  <2>6. Unborn' /\ InServesHands'
    BY <1>3, <2>3, <2>4, <2>5 DEF RemoveSession, Unborn, InServesHands, Open, TypeOK
  <2>7. UnmappedBeforeClosed' /\ MappedIsOpen'
    <3>1. UnmappedBeforeClosed'
      BY <1>3, <2>4, <2>5, NoneIsNone DEF RemoveSession, UnmappedBeforeClosed
    <3>2. MappedIsOpen'
      BY <1>3, <2>3, <2>5 DEF RemoveSession, MappedIsOpen
    <3>3. QED
      BY <3>1, <3>2
  <2>8. NoOrphan'
    BY <1>3, <2>3, <2>4, <2>5, NoneIsNone DEF RemoveSession, NoOrphan, Open, TypeOK
  <2>9. QED
    BY <1>0, <2>2, <2>3, <2>6, <2>7, <2>8
<1>4. ASSUME NEW l \in Loops, LoopCloses(s, l) PROVE TableInv'
  <2>1. key[s] # None /\ UNCHANGED key
    BY <1>4 DEF LoopCloses, Unborn
  <2>2. /\ Open' = Open \ {s} /\ done' \subseteq Sessions
        /\ active' \in Nat /\ GaugeCountsOpen'
    BY <1>4, <2>1, CloseCounts DEF LoopCloses
  <2>3. TypeOK'
    BY <1>4, <2>2 DEF LoopCloses, TypeOK, LoopState
  <2>4. /\ loops[s][l] = "close"
        /\ \A r \in Sessions, m \in Loops :
             /\ loops'[r][m] # loops[r][m] => r = s
             /\ loops'[r][m] = "close" => loops[r][m] = "close"
    BY <1>4 DEF LoopCloses, TypeOK
  <2>5. done' = done \cup {s}
    BY <1>4 DEF LoopCloses, close
  <2>6. Unborn' /\ InServesHands'
    BY <1>4, <2>1, <2>2, <2>4, <2>5 DEF LoopCloses, Unborn, InServesHands, Open, TypeOK
  <2>7. UnmappedBeforeClosed' /\ MappedIsOpen'
    BY <1>4, <2>2, <2>4 DEF LoopCloses, UnmappedBeforeClosed, MappedIsOpen, Open, TypeOK
  <2>8. NoOrphan'
    BY <1>4, <2>2, <2>4 DEF LoopCloses, NoOrphan, Open, TypeOK
  <2>9. QED
    BY <1>0, <2>2, <2>3, <2>6, <2>7, <2>8
<1>5. QED
  BY <1>1, <1>2, <1>3, <1>4 DEF RemoveStep

\* A session in a closing goroutine's hands, once closed, is out of them.
LEMMA HandedClosed ==
  ASSUME TableInv, NEW s \in evicted \cup collected, close(s),
         UNCHANGED <<sessions, key, idle, loops, serveVars>>,
         evicted' \in {evicted, evicted \ {s}},
         collected' \in {collected, collected \ {s}}
  PROVE  /\ done' \subseteq Sessions /\ active' \in Nat
         /\ GaugeCountsOpen' /\ Unborn' /\ InServesHands'
         /\ UnmappedBeforeClosed' /\ MappedIsOpen' /\ NoOrphan'
<1> USE DEF TableInv, serveVars
<1>1. s \in Sessions /\ key[s] # None
  BY DEF Unborn, TypeOK
<1>2. /\ Open' = Open \ {s} /\ done' \subseteq Sessions
      /\ active' \in Nat /\ GaugeCountsOpen'
  BY <1>1, CloseCounts
<1>3. done' = done \cup {s}
  BY DEF close
<1>4. Unborn' /\ InServesHands'
  BY <1>1, <1>2, <1>3 DEF Unborn, InServesHands
<1>5. UnmappedBeforeClosed' /\ MappedIsOpen' /\ NoOrphan'
  BY <1>1, <1>2 DEF UnmappedBeforeClosed, MappedIsOpen, NoOrphan
<1>6. QED
  BY <1>2, <1>4, <1>5

\* So does what sweepLoop does.
LEMMA SweeperKeeps ==
  ASSUME TableInv, SweepStep \/ Sweep
  PROVE  TableInv'
<1> USE DEF TableInv, tableVars, serveVars, closeVars
<1>1. CASE Sweep
  <2>1. /\ \A c \in Clients : sessions'[c] = IF sessions[c] \in idle THEN None ELSE sessions[c]
        /\ \A r : r \in evicted' <=> r \in idle /\ \E c \in Clients : sessions[c] = r
    BY <1>1 DEF Sweep
  <2>2. TypeOK'
    BY <1>1 DEF Sweep, TypeOK
  <2>3. Open' = Open /\ GaugeCountsOpen'
    BY <1>1, GaugeSteady DEF Sweep
  <2>4. \A r \in evicted' : r \in Open /\ \A c \in Clients : sessions'[c] # r
    BY <2>1, NoneIsNone DEF MappedIsOpen, TypeOK
  <2>5. Unborn' /\ InServesHands'
    BY <1>1, <2>1, <2>3, <2>4, NoneIsNone DEF Sweep, Unborn, InServesHands, Open,
      TypeOK, MappedIsOpen
  <2>6. UnmappedBeforeClosed' /\ MappedIsOpen'
    BY <1>1, <2>1, <2>3, <2>4, NoneIsNone DEF Sweep, UnmappedBeforeClosed, MappedIsOpen, Open
  <2>7. NoOrphan'
    BY <1>1, <2>1, <2>3, NoneIsNone DEF Sweep, NoOrphan, HandsEmpty, Open, TypeOK
  <2>8. QED
    BY <1>1, <2>2, <2>3, <2>5, <2>6, <2>7 DEF Sweep, HandsEmpty
<1>2. ASSUME NEW s \in Sessions, SweepCloses(s) PROVE TableInv'
  <2>1. QED
    BY <1>2, HandedClosed DEF SweepCloses, TypeOK, HandsEmpty
<1>3. CASE SweepEnds \/ SweepStops
  <2>1. Open' = Open /\ GaugeCountsOpen'
    BY <1>3, GaugeSteady DEF SweepEnds, SweepStops
  <2>2. QED
    BY <1>3, <2>1 DEF SweepEnds, SweepStops, TypeOK, Unborn, InServesHands,
      UnmappedBeforeClosed, HandsEmpty, MappedIsOpen, NoOrphan
<1>4. QED
  BY <1>1, <1>2, <1>3 DEF SweepStep

\* And Close, which empties the map.
LEMMA CloseKeeps ==
  ASSUME TableInv, CloseStep \/ CloseStarts \/ Cancel
  PROVE  TableInv'
<1> USE DEF TableInv, tableVars, serveVars, sweepVars
<1>1. CASE CloseCollects
  <2>1. /\ \A c \in Clients : sessions'[c] = None
        /\ \A r : r \in collected' <=> r # None /\ \E c \in Clients : sessions[c] = r
    BY <1>1 DEF CloseCollects
  <2>2. TypeOK'
    BY <1>1 DEF CloseCollects, TypeOK
  <2>3. Open' = Open /\ GaugeCountsOpen'
    BY <1>1, GaugeSteady DEF CloseCollects
  <2>4. \A r \in collected' : r \in Open
    BY <2>1 DEF MappedIsOpen
  <2>5. Unborn' /\ InServesHands'
    BY <1>1, <2>1, <2>3, <2>4, NoneIsNone DEF CloseCollects, Unborn, InServesHands,
      Open, TypeOK, MappedIsOpen
  <2>6. UnmappedBeforeClosed' /\ MappedIsOpen'
    BY <1>1, <2>1, NoneIsNone DEF CloseCollects, UnmappedBeforeClosed, MappedIsOpen
  <2>7. NoOrphan'
    BY <1>1, <2>1, <2>3, NoneIsNone DEF CloseCollects, NoOrphan, HandsEmpty, Open, TypeOK
  <2>8. QED
    BY <1>1, <2>2, <2>3, <2>5, <2>6, <2>7 DEF CloseCollects, HandsEmpty
<1>2. ASSUME NEW s \in Sessions, CloseCloses(s) PROVE TableInv'
  <2>1. QED
    BY <1>2, HandedClosed DEF CloseCloses, TypeOK, HandsEmpty
<1>3. CASE CloseStarts \/ CloseListenConn \/ Cancel
  <2>1. Open' = Open /\ GaugeCountsOpen'
    BY <1>3, GaugeSteady DEF CloseStarts, CloseListenConn, Cancel
  <2>2. TypeOK'
    BY <1>3 DEF CloseStarts, CloseListenConn, Cancel, TypeOK
  <2>3. QED
    BY <1>3, <2>1, <2>2 DEF CloseStarts, CloseListenConn, Cancel, Unborn,
      InServesHands, UnmappedBeforeClosed, HandsEmpty, MappedIsOpen, NoOrphan
<1>4. QED
  BY <1>1, <1>2, <1>3 DEF CloseStep

\* No goroutine of the proxy, in whatever order they run, breaks the invariant.
LEMMA TableInvHolds == Spec => []TableInv
<1>1. TableInv /\ [Next]_vars => TableInv'
  <2> SUFFICES ASSUME TableInv, [Next]_vars PROVE TableInv'
    OBVIOUS
  <2>1. CASE UNCHANGED vars
    BY <2>1 DEF vars, tableVars, serveVars, sweepVars, closeVars, TableInv, TypeOK,
      Unborn, InServesHands, UnmappedBeforeClosed, HandsEmpty, MappedIsOpen,
      NoOrphan, GaugeCountsOpen, Open
  <2>2. CASE Next
    BY <2>2, ServeKeeps, LoopsKeep, SweeperKeeps, CloseKeeps DEF Next
  <2>3. QED
    BY <2>1, <2>2
<1>2. QED
  BY <1>1, TableInvInit, PTL DEF Spec

\* Every variable of the table keeps its type; in particular the gauge never
\* falls below zero, although up to five goroutines close one session.
THEOREM ProxyTypeCorrect == Spec => []TypeOK
<1>1. TableInv => TypeOK
  BY DEF TableInv
<1>2. QED
  BY <1>1, TableInvHolds, PTL

\* A packet is never routed to a session that is closed or that belongs to
\* another client: getOrCreateSession finds in the map only open sessions, each
\* under its own key.
THEOREM MappedSessionsAreOpen == Spec => []MappedIsOpen
<1>1. TableInv => MappedIsOpen
  BY DEF TableInv
<1>2. QED
  BY <1>1, TableInvHolds, PTL

\* removeSession of an old session never unmaps its successor and no eviction
\* is forgotten: an open session is in the map, or in the hands of one of the
\* goroutines that will insert or close it.
THEOREM OpenSessionsAreKept == Spec => []NoOrphan
<1>1. TableInv => NoOrphan
  BY DEF TableInv
<1>2. QED
  BY <1>1, TableInvHolds, PTL

\* SessionsActive is exact at every step, whoever closes a session first.
THEOREM GaugeIsExact == Spec => []GaugeCountsOpen
<1>1. TableInv => GaugeCountsOpen
  BY DEF TableInv
<1>2. QED
  BY <1>1, TableInvHolds, PTL

-----------------------------------------------------------------------------
(* The goroutines of a session.                                            *)

\* A goroutine with a packet in its hand.
InHand(loop) == IF loop = "send" THEN 1 ELSE 0

\* The packets of each direction add up.
ClientPackets == arrived = refused + incoming + toServer + upstreamed + InHand(accept)
ServerPackets == received = toClient + returned + InHand(ret)

\* Once the session is closed they need not: acceptLoop and returnReadLoop
\* then leave with the packet they have in hand.
LoopsInv == LoopsTypeOK /\ (~ sessionDone => ClientPackets /\ ServerPackets)

\* Every step keeps the types and, while the session is open, the accounts.
LEMMA LoopsStep ==
  ASSUME LoopsInv, [LoopsNext]_loopsVars
  PROVE  LoopsInv'
<1>t. LoopsTypeOK /\ QueueDepth \in Nat \ {0}
  BY Bounds DEF LoopsInv
<1>i. ~ sessionDone => ClientPackets /\ ServerPackets
  BY DEF LoopsInv
<1> USE DEF clientSide, serverSide, InHand
<1>1. CASE enqueueIncoming
  <2>1. LoopsTypeOK'
    BY <1>1, <1>t DEF enqueueIncoming, LoopsTypeOK
  <2>2. ~ sessionDone' => ClientPackets' /\ ServerPackets'
    BY <1>1, <1>t, <1>i DEF enqueueIncoming, LoopsTypeOK, ClientPackets, ServerPackets
  <2>3. QED
    BY <2>1, <2>2 DEF LoopsInv
<1>2. CASE AcceptTake
  <2>1. LoopsTypeOK'
    BY <1>2, <1>t DEF AcceptTake, LoopsTypeOK
  <2>2. ~ sessionDone' => ClientPackets' /\ ServerPackets'
    BY <1>2, <1>t, <1>i DEF AcceptTake, LoopsTypeOK, ClientPackets, ServerPackets
  <2>3. QED
    BY <2>1, <2>2 DEF LoopsInv
<1>3. CASE AcceptDone
  BY <1>3, <1>t DEF AcceptDone, LoopsTypeOK, LoopsInv
<1>4. CASE AcceptSend
  <2>1. LoopsTypeOK'
    BY <1>4, <1>t DEF AcceptSend, LoopsTypeOK
  <2>2. ~ sessionDone' => ClientPackets' /\ ServerPackets'
    BY <1>4, <1>t, <1>i DEF AcceptSend, LoopsTypeOK, ClientPackets, ServerPackets
  <2>3. QED
    BY <2>1, <2>2 DEF LoopsInv
<1>5. CASE ServerLoopTake
  <2>1. LoopsTypeOK'
    BY <1>5, <1>t DEF ServerLoopTake, LoopsTypeOK
  <2>2. ~ sessionDone' => ClientPackets' /\ ServerPackets'
    BY <1>5, <1>t, <1>i DEF ServerLoopTake, LoopsTypeOK, ClientPackets, ServerPackets
  <2>3. QED
    BY <2>1, <2>2 DEF LoopsInv
<1>6. CASE ServerLoopRemoves
  BY <1>6, <1>t DEF ServerLoopRemoves, LoopsTypeOK, LoopsInv
<1>7. CASE ServerLoopDone \/ ServerLoopFails
  BY <1>7, <1>t, <1>i
  DEF ServerLoopDone, ServerLoopFails, LoopsTypeOK, LoopsInv, ClientPackets, ServerPackets
<1>8. CASE ReturnRead
  <2>1. LoopsTypeOK'
    BY <1>8, <1>t DEF ReturnRead, LoopsTypeOK
  <2>2. ~ sessionDone' => ClientPackets' /\ ServerPackets'
    BY <1>8, <1>t, <1>i DEF ReturnRead, LoopsTypeOK, ClientPackets, ServerPackets
  <2>3. QED
    BY <2>1, <2>2 DEF LoopsInv
<1>9. CASE ReturnReadFails
  BY <1>9, <1>t, <1>i DEF ReturnReadFails, LoopsTypeOK, LoopsInv, ClientPackets, ServerPackets
<1>10. CASE ReturnRemoves
  BY <1>10, <1>t DEF ReturnRemoves, LoopsTypeOK, LoopsInv
<1>11. CASE ReturnSend
  <2>1. LoopsTypeOK'
    BY <1>11, <1>t DEF ReturnSend, LoopsTypeOK
  <2>2. ~ sessionDone' => ClientPackets' /\ ServerPackets'
    BY <1>11, <1>t, <1>i DEF ReturnSend, LoopsTypeOK, ClientPackets, ServerPackets
  <2>3. QED
    BY <2>1, <2>2 DEF LoopsInv
<1>12. CASE ClientLoopTake
  <2>1. LoopsTypeOK'
    BY <1>12, <1>t DEF ClientLoopTake, LoopsTypeOK
  <2>2. ~ sessionDone' => ClientPackets' /\ ServerPackets'
    BY <1>12, <1>t, <1>i DEF ClientLoopTake, LoopsTypeOK, ClientPackets, ServerPackets
  <2>3. QED
    BY <2>1, <2>2 DEF LoopsInv
<1>13. CASE ClientLoopRemoves
  BY <1>13, <1>t DEF ClientLoopRemoves, LoopsTypeOK, LoopsInv
<1>14. CASE ClientLoopDone \/ ClientLoopFails
  BY <1>14, <1>t, <1>i
  DEF ClientLoopDone, ClientLoopFails, LoopsTypeOK, LoopsInv, ClientPackets, ServerPackets
<1>15. CASE ClosedFromOutside
  BY <1>15, <1>t DEF ClosedFromOutside, LoopsTypeOK, LoopsInv
<1>16. CASE UNCHANGED loopsVars
  BY <1>16, <1>t, <1>i DEF loopsVars, LoopsTypeOK, LoopsInv, ClientPackets, ServerPackets
<1>17. QED
  BY <1>1, <1>2, <1>3, <1>4, <1>5, <1>6, <1>7, <1>8, <1>9, <1>10, <1>11, <1>12,
     <1>13, <1>14, <1>15, <1>16
  DEF LoopsNext, AcceptStep, ServerLoopStep, ReturnStep, ClientLoopStep

LEMMA LoopsStart == LoopsInit => LoopsInv
<1> SUFFICES ASSUME LoopsInit PROVE LoopsInv
  OBVIOUS
<1>1. LoopsTypeOK
  <2>1. 0 \in 0..QueueDepth /\ 0 \in Nat
    BY Bounds
  <2>2. QED
    BY <2>1, Zenon DEF LoopsInit, LoopsTypeOK
<1>2. ClientPackets /\ ServerPackets
  BY DEF LoopsInit, ClientPackets, ServerPackets, InHand
<1>3. QED
  BY <1>1, <1>2 DEF LoopsInv

\* For every capacity no channel is filled beyond it, and every goroutine is at
\* one of the places the code has.
THEOREM SessionTypeCorrect == LoopsSpec => []LoopsTypeOK
<1>1. LoopsInv => LoopsTypeOK
  BY DEF LoopsInv
<1>2. QED
  BY <1>1, LoopsStart, LoopsStep, PTL DEF LoopsSpec

\* For every capacity, every number of packets and every interleaving of the
\* four goroutines, an open session loses no packet between them.
THEOREM SessionLosesNothing == LoopsSpec => []NothingLostInside
<1>1. LoopsInv => NothingLostInside
  BY DEF LoopsInv, NothingLostInside, ClientPackets, ServerPackets, InHand
<1>2. QED
  BY <1>1, LoopsStart, LoopsStep, PTL DEF LoopsSpec
=============================================================================
