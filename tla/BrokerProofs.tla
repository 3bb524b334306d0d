---------------------------- MODULE BrokerProofs ----------------------------
(* What holds of Broker for every set of sessions and topics, every queue   *)
(* capacity and every bound: its type invariant, the consistency of the     *)
(* topic table, the sessions' own subscription sets and the gauge, and that *)
(* the broker implements Delivery, the order of its streams included.       *)
EXTENDS Broker, FiniteSetTheorems, TLAPS

\* A queue that is not full, extended by a frame, is a queue; so is its tail.
LEMMA QueueFacts ==
  ASSUME NEW T, NEW q \in Seq(T), NEW f \in T
  PROVE  /\ Append(q, f) \in Seq(T) /\ Len(Append(q, f)) = Len(q) + 1
         /\ q # <<>> => /\ Tail(q) \in Seq(T) /\ Len(Tail(q)) = Len(q) - 1
                        /\ Head(q) \in T
         /\ Len(q) \in Nat
OBVIOUS

\* The updates that the goroutines make to the frame they handle.
LEMMA HandledFrame ==
  ASSUME NEW c \in CtlState, NEW d \in DgmState, NEW t \in Topics,
         NEW r \in Sessions, NEW P \in SUBSET Sessions
  PROVE  /\ [c EXCEPT !.topic = t] \in CtlState
         /\ [c EXCEPT !.topic = t, !.seq = c.seq + 1] \in CtlState
         /\ [c EXCEPT !.pending = P] \in CtlState
         /\ [d EXCEPT !.topic = t, !.seq = d.seq + 1] \in DgmState
         /\ [d EXCEPT !.pending = P] \in DgmState
         /\ [d EXCEPT !.pending = d.pending \ {r}, !.target = r] \in DgmState
<1>1. [c EXCEPT !.topic = t] \in CtlState
  BY DEF CtlState
<1>2. [c EXCEPT !.topic = t, !.seq = c.seq + 1] \in CtlState
  <2>1. c.seq + 1 \in Nat
    BY DEF CtlState
  <2>2. QED
    BY <2>1 DEF CtlState
<1>3. [c EXCEPT !.pending = P] \in CtlState
  BY DEF CtlState
<1>4. [d EXCEPT !.topic = t, !.seq = d.seq + 1] \in DgmState
  <2>1. d.seq + 1 \in Nat
    BY DEF DgmState
  <2>2. QED
    BY <2>1 DEF DgmState
<1>5. [d EXCEPT !.pending = P] \in DgmState
  BY DEF DgmState
<1>6. [d EXCEPT !.pending = d.pending \ {r}, !.target = r] \in DgmState
  BY DEF DgmState
<1>7. QED
  BY <1>1, <1>2, <1>3, <1>4, <1>5, <1>6

\* A datagram queue stays one when a frame is appended where there is room, or
\* nothing changes (the three selects of enqueueDatagram).
LEMMA DatagramAppended ==
  ASSUME TypeOK, NEW f \in Frame, NEW r \in Sessions,
         \/ UNCHANGED outDatagram
         \/ /\ Len(outDatagram[r]) < OutDatagramDepth
            /\ outDatagram' = [outDatagram EXCEPT ![r] = Append(@, f)]
  PROVE  /\ outDatagram' \in [Sessions -> Seq(Frame)]
         /\ \A q \in Sessions : Len(outDatagram'[q]) <= OutDatagramDepth
<1>1. CASE UNCHANGED outDatagram
  BY <1>1 DEF TypeOK
<1>2. CASE /\ Len(outDatagram[r]) < OutDatagramDepth
           /\ outDatagram' = [outDatagram EXCEPT ![r] = Append(@, f)]
  BY <1>2, DepthsPositive, QueueFacts DEF TypeOK
<1>3. QED
  BY <1>1, <1>2

\* Every step of the broker keeps every variable in its type and every queue
\* within its channel's capacity.
THEOREM TypeCorrect == Spec => []TypeOK
<1>1. Init => TypeOK
  <2> SUFFICES ASSUME Init PROVE TypeOK
    OBVIOUS
  <2>1. (CHOOSE t \in Topics : TRUE) \in Topics
    BY TopicsNonEmpty
  <2>2. QED
    BY <2>1, DepthsPositive
    DEF Init, TypeOK, CtlState, DgmState, Control, Reader, Goroutine
<1>2. TypeOK /\ [Next]_vars => TypeOK'
  <2> SUFFICES ASSUME TypeOK, [Next]_vars PROVE TypeOK'
    OBVIOUS
  <2> USE DEF controlVars, readerVars, brokerVars, wireVars, streamVars,
              datagramVars, goControl, goReader
  <2>t. /\ ctl \in [Sessions -> CtlState] /\ dgm \in [Sessions -> DgmState]
        /\ \A s \in Sessions : /\ ctl[s] \in CtlState /\ ctl[s].topic \in Topics
                               /\ ctl[s].seq \in Nat
                               /\ ctl[s].pending \in SUBSET Sessions
                               /\ dgm[s] \in DgmState /\ dgm[s].topic \in Topics
                               /\ dgm[s].seq \in Nat
                               /\ dgm[s].target \in Sessions
                               /\ dgm[s].pending \in SUBSET Sessions
    BY DEF TypeOK, CtlState, DgmState
  <2>1. CASE UNCHANGED vars
    BY <2>1 DEF vars, TypeOK, Control, Reader, Goroutine
  <2>2. ASSUME NEW s \in Sessions, ControlStep(s) PROVE TypeOK'
    <3>1. CASE AcceptFails(s)
      BY <3>1 DEF AcceptFails, TypeOK, Control, Reader, Goroutine
    <3>2. CASE BrokerSubscribe(s)
      <4>1. /\ topics' \in [Topics -> SUBSET Sessions]
            /\ subscribers' \in [Topics -> Int]
        BY <3>2, <2>t DEF BrokerSubscribe, TypeOK
      <4>2. QED
        BY <3>2, <4>1 DEF BrokerSubscribe, TypeOK, Control, Reader, Goroutine
    <3>3. CASE BrokerUnsubscribe(s)
      <4>1. ctl[s].topic \in Topics
        BY <2>t DEF TypeOK
      <4>2. subscribers' \in [Topics -> Int] /\ topics' \in [Topics -> SUBSET Sessions]
        BY <3>3, <4>1 DEF BrokerUnsubscribe, TypeOK, Control, Reader, Goroutine
      <4>3. QED
        BY <3>3, <4>2 DEF BrokerUnsubscribe, TypeOK, Control, Reader, Goroutine
    <3>4. CASE Publish(s)
      <4>1. ctl[s] \in CtlState /\ topics[ctl[s].topic] \in SUBSET Sessions
        BY <2>t DEF TypeOK
      <4>2. ctl' \in [Sessions -> CtlState]
        <5>1. [ctl[s] EXCEPT !.pending = topics[ctl[s].topic]] \in CtlState
          BY <4>1, <2>t, HandledFrame
        <5>2. ctl' = [ctl EXCEPT ![s] = [ctl[s] EXCEPT !.pending = topics[ctl[s].topic]]]
          BY <3>4 DEF Publish
        <5>3. QED
          BY <5>1, <5>2, <2>t
      <4>3. ctlFrame(s) \in Frame
        BY <2>t DEF ctlFrame, Frame
      <4>4. dueStream' \in [Sessions -> SUBSET Frame]
        BY <3>4, <4>3 DEF Publish, TypeOK, Control, Reader, Goroutine
      <4>5. QED
        BY <3>4, <4>2, <4>4 DEF Publish, TypeOK, Control, Reader, Goroutine
    <3>5. CASE PublishReturns(s)
      BY <3>5 DEF PublishReturns, TypeOK, Control, Reader, Goroutine
    <3>6. CASE Cleanup(s)
      BY <3>6 DEF Cleanup, TypeOK, Control, Reader, Goroutine
    <3>7. CASE CloseSession(s)
      BY <3>7 DEF CloseSession, TypeOK, Control, Reader, Goroutine
    <3>8. ASSUME NEW r \in Sessions, EnqueueStream(s, r) PROVE TypeOK'
      <4>1. ctl[s] \in CtlState
        BY <2>t DEF TypeOK
      <4>2. ctl' \in [Sessions -> CtlState]
        <5>1. [ctl[s] EXCEPT !.pending = ctl[s].pending \ {r}] \in CtlState
          BY <2>t, HandledFrame
        <5>2. ctl' = [ctl EXCEPT ![s] = [ctl[s] EXCEPT !.pending = ctl[s].pending \ {r}]]
          BY <3>8 DEF EnqueueStream
        <5>3. QED
          BY <5>1, <5>2, <2>t
      <4>3. ctlFrame(s) \in Frame
        BY <2>t DEF ctlFrame, Frame
      <4>4. /\ outStream' \in [Sessions -> Seq(Frame)]
            /\ \A q \in Sessions : Len(outStream'[q]) <= OutStreamDepth
        <5>1. CASE UNCHANGED outStream
          BY <5>1 DEF TypeOK
        <5>2. CASE /\ Len(outStream[r]) < OutStreamDepth
                   /\ outStream' = [outStream EXCEPT ![r] = Append(@, ctlFrame(s))]
          BY <5>2, <4>3, QueueFacts, DepthsPositive DEF TypeOK
        <5>3. QED
          BY <3>8, <5>1, <5>2 DEF EnqueueStream, TypeOK, Control, Reader, Goroutine
      <4>5. QED
        BY <3>8, <4>2, <4>4 DEF EnqueueStream, TypeOK, Control, Reader, Goroutine
    <3>9. QED
      BY <2>2, <3>1, <3>2, <3>3, <3>4, <3>5, <3>6, <3>7, <3>8 DEF ControlStep
  <2>3. ASSUME NEW s \in Sessions, ReaderStep(s) PROVE TypeOK'
    <3>1. CASE ReaderExits(s)
      BY <3>1 DEF ReaderExits, TypeOK, Control, Reader, Goroutine
    <3>2. CASE PublishDatagram(s)
      <4>1. dgm[s] \in DgmState /\ topics[dgm[s].topic] \in SUBSET Sessions
        BY <2>t DEF TypeOK
      <4>2. dgm' \in [Sessions -> DgmState]
        <5>1. [dgm[s] EXCEPT !.pending = topics[dgm[s].topic]] \in DgmState
          BY <4>1, <2>t, HandledFrame
        <5>2. dgm' = [dgm EXCEPT ![s] = [dgm[s] EXCEPT !.pending = topics[dgm[s].topic]]]
          BY <3>2 DEF PublishDatagram
        <5>3. QED
          BY <5>1, <5>2, <2>t
      <4>3. QED
        BY <3>2, <4>2 DEF PublishDatagram, TypeOK, Control, Reader, Goroutine
    <3>3. CASE EvictOldest(s)
      <4>1. dgm[s].target \in Sessions
        BY <2>t DEF TypeOK
      <4>2. /\ outDatagram' \in [Sessions -> Seq(Frame)]
            /\ \A q \in Sessions : Len(outDatagram'[q]) <= OutDatagramDepth
        <5> DEFINE r == dgm[s].target
        <5>1. CASE UNCHANGED outDatagram
          BY <5>1 DEF TypeOK
        <5>2. CASE /\ outDatagram[r] # <<>>
                   /\ outDatagram' = [outDatagram EXCEPT ![r] = Tail(@)]
          <6>1. outDatagram[r] \in Seq(Frame) /\ Len(outDatagram[r]) <= OutDatagramDepth
            BY <4>1 DEF TypeOK
          <6>2. /\ Tail(outDatagram[r]) \in Seq(Frame)
                /\ Len(Tail(outDatagram[r])) <= OutDatagramDepth
            BY <5>2, <6>1, DepthsPositive
          <6>3. QED
            BY <5>2, <4>1, <6>2 DEF TypeOK
        <5>3. QED
          BY <3>3, <5>1, <5>2 DEF EvictOldest, TypeOK, Control, Reader, Goroutine
      <4>3. QED
        BY <3>3, <4>2 DEF EvictOldest, TypeOK, Control, Reader, Goroutine
    <3>4. CASE PushDatagram(s)
      <4> DEFINE r == dgm[s].target
      <4>1. r \in Sessions /\ dgmFrame(s) \in Frame
        BY <2>t DEF dgmFrame, Frame
      <4>2. outDatagram' \in [Sessions -> Seq(Frame)]
            /\ \A q \in Sessions : Len(outDatagram'[q]) <= OutDatagramDepth
        BY <3>4, <4>1, DatagramAppended DEF PushDatagram, TypeOK, Control, Reader, Goroutine
      <4>3. QED
        BY <3>4, <4>2 DEF PushDatagram, TypeOK, Control, Reader, Goroutine
    <3>5. CASE PublishDatagramReturns(s)
      BY <3>5 DEF PublishDatagramReturns, TypeOK, Control, Reader, Goroutine
    <3>6. ASSUME NEW r \in Sessions, TryEnqueue(s, r) PROVE TypeOK'
      <4>1. dgmFrame(s) \in Frame /\ dgm[s] \in DgmState
        BY <2>t DEF dgmFrame, Frame
      <4>2. outDatagram' \in [Sessions -> Seq(Frame)]
            /\ \A q \in Sessions : Len(outDatagram'[q]) <= OutDatagramDepth
        BY <3>6, <4>1, DatagramAppended DEF TryEnqueue, TypeOK, Control, Reader, Goroutine
      <4>3. dgm' \in [Sessions -> DgmState]
        <5>1. [dgm[s] EXCEPT !.pending = dgm[s].pending \ {r}, !.target = r] \in DgmState
          BY <4>1, <2>t, HandledFrame
        <5>2. dgm' = [dgm EXCEPT ![s] = [dgm[s] EXCEPT !.pending = dgm[s].pending \ {r}, !.target = r]]
          BY <3>6 DEF TryEnqueue
        <5>3. QED
          BY <5>1, <5>2, <2>t
      <4>4. reader' \in [Sessions -> Reader]
        <5>1. reader' = reader \/ reader' = [reader EXCEPT ![s] = "evict"]
          BY <3>6 DEF TryEnqueue, TypeOK, Control, Reader, Goroutine
        <5>2. QED
          BY <5>1 DEF TypeOK, Reader
      <4>5. QED
        BY <3>6, <4>2, <4>3, <4>4 DEF TryEnqueue, TypeOK, Control, Reader, Goroutine
    <3>7. QED
      BY <2>3, <3>1, <3>2, <3>3, <3>4, <3>5, <3>6 DEF ReaderStep
  <2>4. ASSUME NEW s \in Sessions, DatagramWriterStep(s) PROVE TypeOK'
    <3>1. CASE SendDatagram(s)
      <4> DEFINE f == Head(outDatagram[s])
      <4>1. /\ f \in Frame /\ Tail(outDatagram[s]) \in Seq(Frame)
            /\ Len(Tail(outDatagram[s])) <= OutDatagramDepth
        BY <3>1, DepthsPositive DEF SendDatagram, TypeOK, Control, Reader, Goroutine
      <4>2. /\ outDatagram' \in [Sessions -> Seq(Frame)]
            /\ \A q \in Sessions : Len(outDatagram'[q]) <= OutDatagramDepth
        BY <3>1, <4>1 DEF SendDatagram, TypeOK, Control, Reader, Goroutine
      <4>3. f.from \in Sessions /\ f.seq \in Nat
        BY <4>1 DEF Frame, TypeOK, Control, Reader, Goroutine
      <4> HIDE DEF f
      <4>4. lastDatagram' \in [Sessions -> [Sessions -> Nat]]
        <5>1. \/ lastDatagram' = lastDatagram
              \/ lastDatagram' = [lastDatagram EXCEPT ![s][f.from] = f.seq]
          BY <3>1 DEF SendDatagram, f, TypeOK, Control, Reader, Goroutine
        <5>2. [lastDatagram[s] EXCEPT ![f.from] = f.seq] \in [Sessions -> Nat]
          BY <4>3 DEF TypeOK
        <5>3. QED
          BY <5>1, <5>2 DEF TypeOK
      <4>5. QED
        BY <3>1, <4>2, <4>4 DEF SendDatagram, TypeOK, Control, Reader, Goroutine
    <3>2. CASE DatagramWriterDone(s)
      BY <3>2 DEF DatagramWriterDone, TypeOK, Control, Reader, Goroutine
    <3>3. QED
      BY <2>4, <3>1, <3>2 DEF DatagramWriterStep
  <2>5. ASSUME NEW s \in Sessions, StreamWriterStep(s) PROVE TypeOK'
    <3>1. CASE StreamTake(s)
      BY <3>1, QueueFacts, DepthsPositive DEF StreamTake, TypeOK, Control, Reader, Goroutine
    <3>2. CASE StreamWritten(s)
      BY <3>2, QueueFacts DEF StreamWritten, TypeOK, Control, Reader, Goroutine
    <3>3. CASE StreamWriteFails(s)
      BY <3>3 DEF StreamWriteFails, TypeOK, Control, Reader, Goroutine
    <3>4. CASE StreamWriterDone(s)
      BY <3>4 DEF StreamWriterDone, TypeOK, Control, Reader, Goroutine
    <3>5. QED
      BY <2>5, <3>1, <3>2, <3>3, <3>4 DEF StreamWriterStep
  <2>6. ASSUME NEW s \in Sessions, Environment(s) PROVE TypeOK'
    <3>1. CASE Upgrade(s)
      BY <3>1 DEF Upgrade, TypeOK, Control, Reader, Goroutine
    <3>2. CASE AcceptControl(s)
      BY <3>2 DEF AcceptControl, TypeOK, Control, Reader, Goroutine
    <3>3. CASE ReadControlEnds(s)
      BY <3>3 DEF ReadControlEnds, TypeOK, Control, Reader, Goroutine
    <3>4. CASE ReceiveBadDatagram(s)
      BY <3>4 DEF ReceiveBadDatagram, TypeOK, Control, Reader, Goroutine
    <3>5. CASE TransportBreaks(s)
      BY <3>5 DEF TransportBreaks, TypeOK, Control, Reader, Goroutine
    <3>6. CASE ContextEnds(s)
      BY <3>6 DEF ContextEnds, TypeOK, Control, Reader, Goroutine
    <3>7. ASSUME NEW t \in Topics,
                 ReadSub(s, t) \/ ReadUnsub(s, t) \/ ReadPub(s, t) \/ ReceiveDatagram(s, t)
          PROVE  TypeOK'
      <4>1. CASE ReadSub(s, t) \/ ReadUnsub(s, t)
        <5>1. ctl' = [ctl EXCEPT ![s].topic = t]
          BY <4>1 DEF ReadSub, ReadUnsub, TypeOK, Control, Reader, Goroutine
        <5>2. ctl' \in [Sessions -> CtlState]
          <6>1. [ctl[s] EXCEPT !.topic = t] \in CtlState
            BY <2>t, HandledFrame
          <6>2. QED
            BY <5>1, <6>1, <2>t
        <5>3. subs' \in [Sessions -> SUBSET Topics]
          <6>1. \/ subs' = [subs EXCEPT ![s] = @ \cup {t}]
                \/ subs' = [subs EXCEPT ![s] = @ \ {t}]
            BY <4>1 DEF ReadSub, ReadUnsub, TypeOK, Control, Reader, Goroutine
          <6>2. subs \in [Sessions -> SUBSET Topics]
            BY DEF TypeOK
          <6>3. QED
            BY <6>1, <6>2
        <5>4. control' \in [Sessions -> Control]
          BY <4>1 DEF ReadSub, ReadUnsub, TypeOK, Control, Reader, Goroutine
        <5>5. QED
          BY <4>1, <5>2, <5>3, <5>4 DEF ReadSub, ReadUnsub, TypeOK, Control, Reader, Goroutine
      <4>2. CASE ReadPub(s, t)
        <5>1. ctl[s] \in CtlState
          BY <2>t DEF TypeOK
        <5>2. [ctl[s] EXCEPT !.topic = t, !.seq = ctl[s].seq + 1] \in CtlState
          BY <5>1, <2>t, HandledFrame
        <5>3. ctl' \in [Sessions -> CtlState]
          <6>1. ctl' = [ctl EXCEPT ![s] = [ctl[s] EXCEPT !.topic = t, !.seq = ctl[s].seq + 1]]
            BY <4>2 DEF ReadPub
          <6>2. QED
            BY <6>1, <5>2, <2>t
        <5>4. QED
          BY <4>2, <5>3 DEF ReadPub, TypeOK, Control, Reader, Goroutine
      <4>3. CASE ReceiveDatagram(s, t)
        <5>1. dgm[s] \in DgmState
          BY <2>t DEF TypeOK
        <5>2. [dgm[s] EXCEPT !.topic = t, !.seq = dgm[s].seq + 1] \in DgmState
          BY <5>1, <2>t, HandledFrame
        <5>3. dgm' \in [Sessions -> DgmState]
          <6>1. dgm' = [dgm EXCEPT ![s] = [dgm[s] EXCEPT !.topic = t, !.seq = dgm[s].seq + 1]]
            BY <4>3 DEF ReceiveDatagram
          <6>2. QED
            BY <6>1, <5>2, <2>t
        <5>4. QED
          BY <4>3, <5>3 DEF ReceiveDatagram, TypeOK, Control, Reader, Goroutine
      <4>4. QED
        BY <3>7, <4>1, <4>2, <4>3
    <3>8. QED
      BY <2>6, <3>1, <3>2, <3>3, <3>4, <3>5, <3>6, <3>7, SomeTopics DEF Environment
  <2>7. QED
    BY <2>1, <2>2, <2>3, <2>4, <2>5, <2>6 DEF Next
<1>3. QED
  BY <1>1, <1>2, PTL DEF Spec

-----------------------------------------------------------------------------
(* The table, the sessions' subs and the gauge.                            *)

\* Between the two critical sections of subscribe and unsubscribe the topic is
\* already in, or already out of, Session.subs; a subscriber is not yet in
\* the table.  This is what makes the blind Inc of Broker.subscribe right.
HalfDone ==
  \A s \in Sessions :
    /\ control[s] = "subscribe" => /\ ctl[s].topic \in subs[s]
                                   /\ s \notin topics[ctl[s].topic]
    /\ control[s] = "unsubscribe" => ctl[s].topic \notin subs[s]

TableInv == GaugeMatches /\ TablesAgree /\ NoZombieSubscriber /\ HalfDone

\* A step that leaves the table, subs, the control goroutines' places and the
\* topics they handle alone keeps TableInv.
LEMMA TableUntouched ==
  ASSUME TypeOK, TableInv, UNCHANGED <<topics, subscribers, control, subs>>,
         \A s \in Sessions : ctl'[s].topic = ctl[s].topic
  PROVE  TableInv'
BY DEF TableInv, GaugeMatches, TablesAgree, NoZombieSubscriber, HalfDone

\* So does a step of the control goroutine of s between two places that are
\* neither half-done nor past cleanup.
LEMMA ControlMoves ==
  ASSUME TypeOK, TableInv, UNCHANGED <<topics, subscribers, subs>>,
         NEW s \in Sessions, NEW to \in Control,
         control' = [control EXCEPT ![s] = to],
         control[s] \notin {"subscribe", "unsubscribe", "close", "gone"},
         to \notin {"subscribe", "unsubscribe", "close", "gone"},
         \A q \in Sessions : q # s => ctl'[q] = ctl[q]
  PROVE  TableInv'
BY DEF TableInv, GaugeMatches, TablesAgree, NoZombieSubscriber, HalfDone, TypeOK

\* The size of a topic's subscriber set when one session joins or leaves it.
LEMMA OneSubscriber ==
  ASSUME NEW S \in SUBSET Sessions, NEW s \in Sessions
  PROVE  /\ Cardinality(S) \in Nat
         /\ s \notin S => Cardinality(S \cup {s}) = Cardinality(S) + 1
         /\ s \in S => Cardinality(S \ {s}) = Cardinality(S) - 1
         /\ s \notin S => Cardinality(S \ {s}) = Cardinality(S)
<1>1. IsFiniteSet(S)
  BY SessionsFinite, FS_Subset
<1>2. Cardinality(S) \in Nat
  BY <1>1, FS_CardinalityType
<1>3. s \notin S => Cardinality(S \cup {s}) = Cardinality(S) + 1
  BY <1>1, FS_AddElement
<1>4. s \in S => Cardinality(S \ {s}) = Cardinality(S) - 1
  BY <1>1, FS_RemoveElement
<1>5. s \notin S => S \ {s} = S
  OBVIOUS
<1>6. QED
  BY <1>2, <1>3, <1>4, <1>5

\* One step of the control goroutine keeps TableInv: subscribe, unsubscribe
\* and removeSession are the steps that touch it.
LEMMA ControlKeepsTable ==
  ASSUME TypeOK, TableInv, NEW s \in Sessions, ControlStep(s)
  PROVE  TableInv'
<1> USE DEF goControl, brokerVars
<1>t. /\ control[s] \in Control /\ ctl[s].topic \in Topics
      /\ topics \in [Topics -> SUBSET Sessions]
      /\ subscribers \in [Topics -> Int]
      /\ control \in [Sessions -> Control]
  BY DEF TypeOK, CtlState
<1>1. CASE AcceptFails(s)
  BY <1>1, ControlMoves DEF AcceptFails, Control
<1>2. CASE BrokerSubscribe(s)
  <2> DEFINE t == ctl[s].topic
  <2>1. s \notin topics[t] /\ t \in subs[s]
    BY <1>2 DEF BrokerSubscribe, TableInv, HalfDone
  <2>2. GaugeMatches'
    <3> SUFFICES ASSUME NEW u \in Topics
                 PROVE  subscribers'[u] = Cardinality(topics'[u])
      BY DEF GaugeMatches
    <3>1. CASE u = t
      BY <1>2, <1>t, <2>1, <3>1, OneSubscriber DEF BrokerSubscribe, TableInv, GaugeMatches
    <3>2. CASE u # t
      BY <1>2, <1>t, <3>2 DEF BrokerSubscribe, TableInv, GaugeMatches
    <3>3. QED
      BY <3>1, <3>2
  <2>3. TablesAgree'
    BY <1>2, <1>t, <2>1 DEF BrokerSubscribe, TableInv, TablesAgree
  <2>4. NoZombieSubscriber'
    BY <1>2, <1>t DEF BrokerSubscribe, TableInv, NoZombieSubscriber
  <2>5. HalfDone'
    BY <1>2, <1>t DEF BrokerSubscribe, TableInv, HalfDone, TypeOK, CtlState
  <2>6. QED
    BY <2>2, <2>3, <2>4, <2>5 DEF TableInv
<1>3. CASE BrokerUnsubscribe(s)
  <2> DEFINE t == ctl[s].topic
  <2>1. t \notin subs[s]
    BY <1>3 DEF BrokerUnsubscribe, TableInv, HalfDone
  <2>2. GaugeMatches'
    <3> SUFFICES ASSUME NEW u \in Topics
                 PROVE  subscribers'[u] = Cardinality(topics'[u])
      BY DEF GaugeMatches
    <3>1. CASE u = t
      <4>1. topics'[t] = topics[t] \ {s}
        BY <1>3, <1>t DEF BrokerUnsubscribe
      <4>2. subscribers'[t] = IF s \in topics[t] THEN subscribers[t] - 1
                                                 ELSE subscribers[t]
        BY <1>3, <1>t DEF BrokerUnsubscribe
      <4>3. topics[t] \in SUBSET Sessions /\ subscribers[t] = Cardinality(topics[t])
        BY <1>t DEF TableInv, GaugeMatches
      <4>4. QED
        BY <3>1, <4>1, <4>2, <4>3, OneSubscriber
    <3>2. CASE u # t
      BY <1>3, <1>t, <3>2 DEF BrokerUnsubscribe, TableInv, GaugeMatches
    <3>3. QED
      BY <3>1, <3>2
  <2>3. TablesAgree'
    BY <1>3, <1>t, <2>1 DEF BrokerUnsubscribe, TableInv, TablesAgree
  <2>4. NoZombieSubscriber'
    BY <1>3, <1>t DEF BrokerUnsubscribe, TableInv, NoZombieSubscriber
  <2>5. HalfDone'
    BY <1>3, <1>t DEF BrokerUnsubscribe, TableInv, HalfDone, TypeOK, CtlState
  <2>6. QED
    BY <2>2, <2>3, <2>4, <2>5 DEF TableInv
<1>4. CASE Publish(s)
  <2>1. /\ control' = [control EXCEPT ![s] = "enqueue"] /\ control[s] = "publish"
        /\ \A q \in Sessions : q # s => ctl'[q] = ctl[q]
        /\ UNCHANGED <<topics, subscribers, subs>>
    BY <1>4, <1>t DEF Publish, TypeOK
  <2>2. QED
    BY <2>1, ControlMoves DEF Control
<1>5. CASE PublishReturns(s)
  BY <1>5, ControlMoves DEF PublishReturns, Control
<1>6. CASE Cleanup(s)
  <2>1. GaugeMatches'
    <3> SUFFICES ASSUME NEW u \in Topics
                 PROVE  subscribers'[u] = Cardinality(topics'[u])
      BY DEF GaugeMatches
    <3>1. topics'[u] = topics[u] \ {s}
      BY <1>6 DEF Cleanup
    <3>2. subscribers'[u] = IF s \in topics[u] THEN subscribers[u] - 1
                                               ELSE subscribers[u]
      BY <1>6 DEF Cleanup
    <3>3. topics[u] \in SUBSET Sessions /\ subscribers[u] = Cardinality(topics[u])
      BY <1>t DEF TableInv, GaugeMatches
    <3>4. QED
      BY <3>1, <3>2, <3>3, OneSubscriber
  <2>2. TablesAgree'
    BY <1>6, <1>t DEF Cleanup, TableInv, TablesAgree
  <2>3. NoZombieSubscriber'
    BY <1>6, <1>t DEF Cleanup, TableInv, NoZombieSubscriber
  <2>4. HalfDone'
    BY <1>6, <1>t DEF Cleanup, TableInv, HalfDone, TypeOK, CtlState
  <2>5. QED
    BY <2>1, <2>2, <2>3, <2>4 DEF TableInv
<1>7. CASE CloseSession(s)
  BY <1>7, <1>t DEF CloseSession, TableInv, GaugeMatches, TablesAgree,
                    NoZombieSubscriber, HalfDone
<1>8. ASSUME NEW r \in Sessions, EnqueueStream(s, r) PROVE TableInv'
  <2>1. \A q \in Sessions : ctl'[q].topic = ctl[q].topic
    BY <1>8 DEF EnqueueStream, TypeOK, CtlState
  <2>2. QED
    BY <1>8, <2>1, TableUntouched DEF EnqueueStream
<1>9. QED
  BY <1>1, <1>2, <1>3, <1>4, <1>5, <1>6, <1>7, <1>8 DEF ControlStep

\* What the client sends keeps TableInv: a subscription or its withdrawal is
\* entered in Session.subs only when no other change is half done.
LEMMA EnvironmentKeepsTable ==
  ASSUME TypeOK, TableInv, NEW s \in Sessions, Environment(s)
  PROVE  TableInv'
<1> USE DEF goControl, brokerVars, controlVars
<1>t. /\ control \in [Sessions -> Control] /\ subs \in [Sessions -> SUBSET Topics]
      /\ ctl \in [Sessions -> CtlState]
  BY DEF TypeOK
<1>1. CASE Upgrade(s)
  BY <1>1, ControlMoves DEF Upgrade, Control
<1>2. CASE AcceptControl(s)
  BY <1>2, ControlMoves DEF AcceptControl, Control
<1>3. CASE ReadControlEnds(s)
  BY <1>3, ControlMoves DEF ReadControlEnds, Control
<1>4. CASE ReceiveBadDatagram(s) \/ TransportBreaks(s) \/ ContextEnds(s)
  BY <1>4, TableUntouched DEF ReceiveBadDatagram, TransportBreaks, ContextEnds
<1>5. ASSUME NEW t \in Topics, ReadSub(s, t) PROVE TableInv'
  <2>1. s \notin topics[t]
    BY <1>5 DEF ReadSub, TableInv, TablesAgree
  <2>2. /\ control' = [control EXCEPT ![s] = "subscribe"]
        /\ subs' = [subs EXCEPT ![s] = @ \cup {t}]
        /\ ctl'[s].topic = t
        /\ \A q \in Sessions : q # s => ctl'[q] = ctl[q]
        /\ UNCHANGED <<topics, subscribers>> /\ control[s] = "control"
    BY <1>5, <1>t DEF ReadSub, CtlState
  <2>3. GaugeMatches' /\ NoZombieSubscriber'
    BY <2>2, <1>t DEF TableInv, GaugeMatches, NoZombieSubscriber
  <2>4. TablesAgree'
    BY <2>2, <1>t DEF TableInv, TablesAgree
  <2>5. HalfDone'
    BY <2>1, <2>2, <1>t DEF TableInv, HalfDone
  <2>6. QED
    BY <2>3, <2>4, <2>5 DEF TableInv
<1>6. ASSUME NEW t \in Topics, ReadUnsub(s, t) PROVE TableInv'
  <2>2. /\ control' = [control EXCEPT ![s] = "unsubscribe"]
        /\ subs' = [subs EXCEPT ![s] = @ \ {t}]
        /\ ctl'[s].topic = t
        /\ \A q \in Sessions : q # s => ctl'[q] = ctl[q]
        /\ UNCHANGED <<topics, subscribers>> /\ control[s] = "control"
    BY <1>6, <1>t DEF ReadUnsub, CtlState
  <2>3. GaugeMatches' /\ NoZombieSubscriber'
    BY <2>2, <1>t DEF TableInv, GaugeMatches, NoZombieSubscriber
  <2>4. TablesAgree'
    BY <2>2, <1>t DEF TableInv, TablesAgree
  <2>5. HalfDone'
    BY <2>2, <1>t DEF TableInv, HalfDone
  <2>6. QED
    BY <2>3, <2>4, <2>5 DEF TableInv
<1>7. ASSUME NEW t \in Topics, ReadPub(s, t) PROVE TableInv'
  <2>1. /\ control' = [control EXCEPT ![s] = "publish"] /\ control[s] = "control"
        /\ \A q \in Sessions : q # s => ctl'[q] = ctl[q]
        /\ UNCHANGED <<topics, subscribers, subs>>
    BY <1>7, <1>t DEF ReadPub
  <2>2. QED
    BY <2>1, ControlMoves DEF Control
<1>8. ASSUME NEW t \in Topics, ReceiveDatagram(s, t) PROVE TableInv'
  BY <1>8, TableUntouched DEF ReceiveDatagram
<1>9. QED
  BY <1>1, <1>2, <1>3, <1>4, <1>5, <1>6, <1>7, <1>8, SomeTopics DEF Environment

\* For every number of sessions and topics: the gauge is the number of
\* subscribers, subs and topics agree outside a half-done change, and a
\* session that has been cleaned up is in no topic.
THEOREM TableConsistent == Spec => [](GaugeMatches /\ TablesAgree /\ NoZombieSubscriber)
<1>1. Init => TableInv
  BY FS_EmptySet DEF Init, TableInv, GaugeMatches, TablesAgree, NoZombieSubscriber, HalfDone
<1>2. TypeOK /\ TableInv /\ [Next]_vars => TableInv'
  <2> SUFFICES ASSUME TypeOK, TableInv, [Next]_vars PROVE TableInv'
    OBVIOUS
  <2>1. CASE UNCHANGED vars
    BY <2>1, TableUntouched DEF vars, controlVars, brokerVars
  <2>2. ASSUME NEW s \in Sessions, ReaderStep(s) PROVE TableInv'
    BY <2>2, TableUntouched
    DEF ReaderStep, ReaderExits, PublishDatagram, EvictOldest, PushDatagram,
        PublishDatagramReturns, TryEnqueue, controlVars, brokerVars
  <2>3. ASSUME NEW s \in Sessions, DatagramWriterStep(s) \/ StreamWriterStep(s)
        PROVE  TableInv'
    BY <2>3, TableUntouched
    DEF DatagramWriterStep, SendDatagram, DatagramWriterDone, StreamWriterStep,
        StreamTake, StreamWritten, StreamWriteFails, StreamWriterDone,
        controlVars, brokerVars
  <2>4. QED
    BY <2>1, <2>2, <2>3, ControlKeepsTable, EnvironmentKeepsTable DEF Next
<1>3. QED
  BY <1>1, <1>2, TypeCorrect, PTL DEF Spec, TableInv

\* Session.subs and Broker.topics agree outside a half-done change, whatever other
\* sessions do.
THEOREM TablesStayInStep == Spec => []TablesAgree
BY TableConsistent, PTL

-----------------------------------------------------------------------------
(* The broker implements Delivery, step by step.                           *)

\* The publisher s still has to serve r with the frame it publishes.
owing(s, r) == control[s] = "enqueue" /\ r \in ctl[s].pending

\* How far the publishers of stream frames are: nothing addressed is newer than
\* the frame in hand, and everything older has been taken over by each live
\* subscriber.
PublishersWait ==
  \A r \in Sessions : \A g \in dueStream[r] :
    /\ g.seq <= ctl[g.from].seq
    /\ control[g.from] = "publish" => g.seq < ctl[g.from].seq
    /\ \/ g \in D!carried(r) \/ broken[r]
       \/ owing(g.from, r) /\ g = ctlFrame(g.from)

\* A frame that is still owed is new to the subscriber.
OwedIsNew ==
  \A s, r \in Sessions : owing(s, r) =>
    ctlFrame(s) \in dueStream[r] /\ D!newerThan(ctlFrame(s), D!carried(r))

\* What a subscriber is given was addressed to it and is in order.
CarriedInOrder ==
  \A r \in Sessions :
    /\ D!carried(r) \subseteq dueStream[r]
    /\ InPublishOrder(sentStream[r] \o (inHand(r) \o outStream[r]))

\* A context ends after its transport; publishers keep to their bounds.
Bounded ==
  \A s \in Sessions :
    /\ ctxDone[s] => broken[s]
    /\ ctl[s].seq <= MaxStreamPubs[s]
    /\ control[s] \in {"publish", "enqueue"} => ctl[s].seq >= 1

\* The inductive invariant of the stream surface.
StreamInv == Bounded /\ PublishersWait /\ OwedIsNew /\ CarriedInOrder

\* Every datagram of s that r has been given or has queued is older than n.
seenBelow(s, r, n) ==
  /\ lastDatagram[r][s] < n
  /\ \A i \in DOMAIN outDatagram[r] :
       outDatagram[r][i].from = s => outDatagram[r][i].seq < n

\* The reader of s has not served r with the datagram in hand.
unserved(s, r) ==
  \/ reader[s] = "publish"
  \/ reader[s] \in {"try", "evict", "push"} /\ r \in dgm[s].pending
  \/ reader[s] \in {"evict", "push"} /\ r = dgm[s].target

\* No subscriber has seen anything newer than the datagram in hand nor, unless
\* it has been served, that one; readers keep to their bounds.
ReadersKeepUp ==
  /\ \A s, r \in Sessions :
       /\ seenBelow(s, r, dgm[s].seq + 1)
       /\ unserved(s, r) => seenBelow(s, r, dgm[s].seq)
  /\ \A s \in Sessions :
       /\ reader[s] \in {"evict", "push"} => dgm[s].target \notin dgm[s].pending
       /\ dgm[s].seq <= MaxDatagrams[s]
       /\ reader[s] \in {"publish", "try", "evict", "push"} => dgm[s].seq >= 1

\* What is queued is in order and newer than what was sent.
QueuesInOrder ==
  \A r \in Sessions :
    /\ InPublishOrder(outDatagram[r])
    /\ \A i \in DOMAIN outDatagram[r] :
         lastDatagram[r][outDatagram[r][i].from] < outDatagram[r][i].seq

\* The inductive invariant of the datagram surface.
DatagramInv == ReadersKeepUp /\ QueuesInOrder

\* Appending a frame that is newer than all of its publisher keeps the order.
LEMMA AppendOrdered ==
  ASSUME NEW q \in Seq(Frame), NEW f \in Frame
  PROVE  /\ D!elements(Append(q, f)) = D!elements(q) \cup {f}
         /\ InPublishOrder(q) /\ D!newerThan(f, D!elements(q))
              => InPublishOrder(Append(q, f))
<1>1. /\ DOMAIN q = 1..Len(q) /\ DOMAIN Append(q, f) = 1..(Len(q) + 1)
      /\ Len(q) \in Nat
      /\ \A i \in DOMAIN q : Append(q, f)[i] = q[i] /\ q[i] \in Frame
      /\ Append(q, f)[Len(q) + 1] = f
  OBVIOUS
<1>2. D!elements(Append(q, f)) = D!elements(q) \cup {f}
  <2>1. ASSUME NEW x \in D!elements(Append(q, f)) PROVE x \in D!elements(q) \cup {f}
    <3>1. PICK i \in 1..(Len(q) + 1) : x = Append(q, f)[i]
      BY <1>1, <2>1 DEF D!elements
    <3>2. i \in DOMAIN q \/ i = Len(q) + 1
      BY <1>1
    <3>3. QED
      BY <1>1, <3>1, <3>2 DEF D!elements
  <2>2. ASSUME NEW x \in D!elements(q) \cup {f} PROVE x \in D!elements(Append(q, f))
    <3>1. CASE x = f
      BY <1>1, <3>1 DEF D!elements
    <3>2. CASE x \in D!elements(q)
      <4>1. PICK i \in DOMAIN q : x = q[i]
        BY <3>2 DEF D!elements
      <4>2. i \in DOMAIN Append(q, f) /\ x = Append(q, f)[i]
        BY <1>1, <4>1
      <4>3. QED
        BY <4>2 DEF D!elements
    <3>3. QED
      BY <2>2, <3>1, <3>2
  <2>3. QED
    BY <2>1, <2>2
<1>3. ASSUME InPublishOrder(q), D!newerThan(f, D!elements(q))
      PROVE  InPublishOrder(Append(q, f))
  <2> SUFFICES ASSUME NEW i \in 1..(Len(q) + 1), NEW j \in 1..(Len(q) + 1), i < j,
                      Append(q, f)[i].from = Append(q, f)[j].from
               PROVE  Append(q, f)[i].seq < Append(q, f)[j].seq
    BY <1>1 DEF InPublishOrder
  <2>1. i \in DOMAIN q
    BY <1>1
  <2>2. CASE j \in DOMAIN q
    BY <1>1, <1>3, <2>1, <2>2 DEF InPublishOrder
  <2>3. CASE j = Len(q) + 1
    <3>1. q[i] \in D!elements(q)
      BY <2>1 DEF D!elements
    <3>2. QED
      BY <1>1, <1>3, <2>1, <2>3, <3>1 DEF D!newerThan
  <2>4. QED
    BY <1>1, <2>2, <2>3
<1>4. QED
  BY <1>2, <1>3

\* Taking the head off a queue.
LEMMA TailOrdered ==
  ASSUME NEW q \in Seq(Frame), q # <<>>
  PROVE  /\ Head(q) \in Frame /\ Tail(q) \in Seq(Frame)
         /\ D!elements(q) = D!elements(Tail(q)) \cup {Head(q)}
         /\ InPublishOrder(q) => InPublishOrder(Tail(q))
<1>1. /\ Head(q) \in Frame /\ Tail(q) \in Seq(Frame) /\ Head(q) = q[1]
      /\ Len(q) \in Nat \ {0} /\ DOMAIN q = 1..Len(q)
      /\ DOMAIN Tail(q) = 1..(Len(q) - 1)
      /\ \A i \in 1..(Len(q) - 1) : Tail(q)[i] = q[i + 1]
  OBVIOUS
<1>2. D!elements(q) = D!elements(Tail(q)) \cup {Head(q)}
  <2>1. ASSUME NEW x \in D!elements(q) PROVE x \in D!elements(Tail(q)) \cup {Head(q)}
    <3>1. PICK i \in 1..Len(q) : x = q[i]
      BY <1>1, <2>1 DEF D!elements
    <3>2. CASE i = 1
      BY <1>1, <3>1, <3>2
    <3>3. CASE i # 1
      <4>1. i - 1 \in 1..(Len(q) - 1) /\ (i - 1) + 1 = i
        BY <1>1, <3>3
      <4>2. i - 1 \in DOMAIN Tail(q) /\ x = Tail(q)[i - 1]
        BY <1>1, <3>1, <4>1
      <4>3. QED
        BY <4>2 DEF D!elements
    <3>4. QED
      BY <3>2, <3>3
  <2>2. ASSUME NEW x \in D!elements(Tail(q)) \cup {Head(q)} PROVE x \in D!elements(q)
    <3>1. CASE x = Head(q)
      BY <1>1, <3>1 DEF D!elements
    <3>2. CASE x \in D!elements(Tail(q))
      <4>1. PICK i \in DOMAIN Tail(q) : x = Tail(q)[i]
        BY <3>2 DEF D!elements
      <4>2. i + 1 \in DOMAIN q /\ x = q[i + 1]
        BY <1>1, <4>1
      <4>3. QED
        BY <4>2 DEF D!elements
    <3>3. QED
      BY <2>2, <3>1, <3>2
  <2>3. QED
    BY <2>1, <2>2
<1>3. InPublishOrder(q) => InPublishOrder(Tail(q))
  <2> SUFFICES ASSUME InPublishOrder(q),
                      NEW i \in 1..(Len(q) - 1), NEW j \in 1..(Len(q) - 1), i < j,
                      Tail(q)[i].from = Tail(q)[j].from
               PROVE  Tail(q)[i].seq < Tail(q)[j].seq
    BY <1>1 DEF InPublishOrder
  <2>1. i + 1 \in DOMAIN q /\ j + 1 \in DOMAIN q /\ i + 1 < j + 1
    BY <1>1
  <2>2. QED
    BY <1>1, <2>1 DEF InPublishOrder
<1>4. QED
  BY <1>1, <1>2, <1>3

\* What was sent, followed by what still waits: how each step of streamWriter
\* and of enqueueStream changes it.
LEMMA LineFacts ==
  ASSUME NEW g \in Seq(Frame), NEW l \in Seq(Frame), NEW f \in Frame
  PROVE  /\ g \o l \in Seq(Frame) /\ g \o Append(l, f) = Append(g \o l, f)
         /\ D!elements(g \o l) = D!elements(g) \cup D!elements(l)
         /\ l # <<>> => /\ Append(g, Head(l)) \o Tail(l) = g \o l
                        /\ InPublishOrder(g \o l) => InPublishOrder(g \o Tail(l))
<1>1. g \o l \in Seq(Frame) /\ g \o Append(l, f) = Append(g \o l, f)
  OBVIOUS
<1>2. D!elements(g \o l) = D!elements(g) \cup D!elements(l)
  <2>0. /\ Len(g) \in Nat /\ Len(l) \in Nat
        /\ DOMAIN g = 1..Len(g) /\ DOMAIN l = 1..Len(l)
        /\ DOMAIN (g \o l) = 1..(Len(g) + Len(l))
        /\ \A i \in 1..Len(g) : (g \o l)[i] = g[i]
        /\ \A i \in 1..Len(l) : (g \o l)[Len(g) + i] = l[i]
    OBVIOUS
  <2>1. ASSUME NEW x \in D!elements(g \o l) PROVE x \in D!elements(g) \cup D!elements(l)
    <3>1. PICK i \in 1..(Len(g) + Len(l)) : x = (g \o l)[i]
      BY <2>0, <2>1 DEF D!elements
    <3>2. CASE i <= Len(g)
      <4>1. i \in DOMAIN g /\ x = g[i]
        BY <2>0, <3>1, <3>2
      <4>2. QED
        BY <4>1 DEF D!elements
    <3>3. CASE i > Len(g)
      <4>1. i - Len(g) \in 1..Len(l) /\ Len(g) + (i - Len(g)) = i
        BY <2>0, <3>3
      <4>2. i - Len(g) \in DOMAIN l /\ x = l[i - Len(g)]
        BY <2>0, <3>1, <4>1
      <4>3. QED
        BY <4>2 DEF D!elements
    <3>4. QED
      BY <2>0, <3>2, <3>3
  <2>2. ASSUME NEW x \in D!elements(g) PROVE x \in D!elements(g \o l)
    <3>1. PICK i \in DOMAIN g : x = g[i]
      BY <2>2 DEF D!elements
    <3>2. i \in DOMAIN (g \o l) /\ x = (g \o l)[i]
      BY <2>0, <3>1
    <3>3. QED
      BY <3>2 DEF D!elements
  <2>3. ASSUME NEW x \in D!elements(l) PROVE x \in D!elements(g \o l)
    <3>1. PICK i \in DOMAIN l : x = l[i]
      BY <2>3 DEF D!elements
    <3>2. i \in 1..Len(l) /\ Len(g) + i \in 1..(Len(g) + Len(l))
      BY <2>0
    <3>3. Len(g) + i \in DOMAIN (g \o l) /\ x = (g \o l)[Len(g) + i]
      BY <2>0, <3>1, <3>2
    <3>4. QED
      BY <3>3 DEF D!elements
  <2>4. QED
    BY <2>1, <2>2, <2>3
<1>3. l # <<>> => Append(g, Head(l)) \o Tail(l) = g \o l
  OBVIOUS
<1>4. ASSUME l # <<>>, InPublishOrder(g \o l) PROVE InPublishOrder(g \o Tail(l))
  <2>1. /\ Len(g) \in Nat /\ Len(l) \in Nat \ {0}
        /\ DOMAIN (g \o l) = 1..(Len(g) + Len(l))
        /\ DOMAIN (g \o Tail(l)) = 1..(Len(g) + Len(l) - 1)
    BY <1>4
  <2> DEFINE old(i) == IF i <= Len(g) THEN i ELSE i + 1
  <2>2. \A i \in 1..(Len(g) + Len(l) - 1) : (g \o Tail(l))[i] = (g \o l)[old(i)]
    BY <1>4
  <2> SUFFICES ASSUME NEW i \in 1..(Len(g) + Len(l) - 1),
                      NEW j \in 1..(Len(g) + Len(l) - 1), i < j,
                      (g \o Tail(l))[i].from = (g \o Tail(l))[j].from
               PROVE  (g \o Tail(l))[i].seq < (g \o Tail(l))[j].seq
    BY <2>1 DEF InPublishOrder
  <2>3. old(i) \in DOMAIN (g \o l) /\ old(j) \in DOMAIN (g \o l) /\ old(i) < old(j)
    BY <2>1
  <2>4. /\ (g \o Tail(l))[i] = (g \o l)[old(i)]
        /\ (g \o Tail(l))[j] = (g \o l)[old(j)]
    BY <2>2
  <2> HIDE DEF old
  <2>5. QED
    BY <1>4, <2>3, <2>4 DEF InPublishOrder
<1>5. QED
  BY <1>1, <1>2, <1>3, <1>4

\* The frames that have become something for r, before and after a step.
LEMMA CarriedIs ==
  ASSUME NEW r \in Sessions
  PROVE  /\ D!carried(r) = D!elements(inHand(r) \o outStream[r])
                             \cup D!elements(sentStream[r]) \cup lostStream[r]
         /\ D!carried(r)' = D!elements(inHand(r)' \o outStream'[r])
                             \cup D!elements(sentStream'[r]) \cup lostStream'[r]
BY DEF D!carried, D!elements

\* A control goroutine that serves nobody: it does not move, it moves between
\* places where it has no frame in hand, it returns from Publish with nobody
\* left to serve, or it takes the next frame.
servesNobody(s) ==
  \/ control'[s] = control[s] /\ ctl'[s] = ctl[s]
  \/ /\ control[s] \notin {"publish", "enqueue"} /\ ctl'[s].seq = ctl[s].seq
     /\ control'[s] \notin {"publish", "enqueue"}
  \/ /\ control[s] = "enqueue" /\ ctl[s].pending = {} /\ ctl'[s] = ctl[s]
     /\ control'[s] = "control"
  \/ /\ control[s] = "control" /\ control'[s] = "publish"
     /\ ctl'[s].seq = ctl[s].seq + 1 /\ ctl[s].seq < MaxStreamPubs[s]

\* A step that touches no stream queue and serves nobody keeps StreamInv.
LEMMA StreamQuiet ==
  ASSUME TypeOK, StreamInv,
         UNCHANGED <<dueStream, sentStream, lostStream, stFrame, outStream>>,
         \A s \in Sessions : /\ servesNobody(s)
                             /\ broken[s] => broken'[s]
                             /\ ctxDone'[s] => broken'[s]
  PROVE  StreamInv'
<1> USE DEF StreamInv
<1>1. \A r \in Sessions : D!carried(r)' = D!carried(r)
  BY DEF D!carried, D!elements, inHand
<1>t. \A s \in Sessions : ctl[s].seq \in Nat /\ MaxStreamPubs[s] \in Nat
  BY BoundsNatural DEF TypeOK, CtlState
<1>2. Bounded'
  BY <1>t DEF Bounded, servesNobody
<1>3. \A s, r \in Sessions :
        owing(s, r)' => owing(s, r) /\ control'[s] = control[s] /\ ctl'[s] = ctl[s]
  BY DEF owing, servesNobody
<1>4. OwedIsNew'
  <2> SUFFICES ASSUME NEW s \in Sessions, NEW r \in Sessions, owing(s, r)'
               PROVE  /\ ctlFrame(s)' \in dueStream'[r]
                      /\ D!newerThan(ctlFrame(s)', D!carried(r)')
    BY DEF OwedIsNew, D!newerThan
  <2>1. ctlFrame(s)' = ctlFrame(s) /\ owing(s, r)
    BY <1>3 DEF ctlFrame
  <2>2. QED
    BY <1>1, <2>1 DEF OwedIsNew
<1>5. PublishersWait'
  <2> SUFFICES ASSUME NEW r \in Sessions, NEW g \in dueStream[r]
               PROVE  /\ g.seq <= ctl'[g.from].seq
                      /\ control'[g.from] = "publish" => g.seq < ctl'[g.from].seq
                      /\ \/ g \in D!carried(r)' \/ broken'[r]
                         \/ owing(g.from, r)' /\ g = ctlFrame(g.from)'
    BY DEF PublishersWait
  <2>1. g.from \in Sessions /\ g.seq \in Nat
    BY DEF TypeOK, Frame
  <2>2. /\ g.seq <= ctl[g.from].seq
        /\ control[g.from] = "publish" => g.seq < ctl[g.from].seq
        /\ \/ g \in D!carried(r) \/ broken[r]
           \/ owing(g.from, r) /\ g = ctlFrame(g.from)
    BY DEF PublishersWait
  <2>3. /\ g.seq <= ctl'[g.from].seq
        /\ control'[g.from] = "publish" => g.seq < ctl'[g.from].seq
    BY <1>t, <2>1, <2>2 DEF servesNobody
  <2>4. CASE owing(g.from, r) /\ g = ctlFrame(g.from)
    BY <2>1, <2>4 DEF owing, servesNobody, ctlFrame
  <2>5. QED
    BY <1>1, <2>2, <2>3, <2>4
<1>6. CarriedInOrder'
  <2>1. \A r \in Sessions : inHand(r)' = inHand(r)
    BY DEF inHand
  <2> SUFFICES ASSUME NEW r \in Sessions
               PROVE  /\ D!carried(r)' \subseteq dueStream'[r]
                      /\ InPublishOrder(sentStream[r] \o (inHand(r) \o outStream[r]))'
    BY DEF CarriedInOrder
  <2>2. (sentStream[r] \o (inHand(r) \o outStream[r]))'
          = sentStream[r] \o (inHand(r) \o outStream[r])
    BY <2>1
  <2>3. InPublishOrder(sentStream[r] \o (inHand(r) \o outStream[r]))
    BY DEF CarriedInOrder
  <2>4. InPublishOrder((sentStream[r] \o (inHand(r) \o outStream[r]))')
    BY <2>2, <2>3
  <2>5. QED
    BY <1>1, <2>4 DEF CarriedInOrder
<1>7. QED
  BY <1>2, <1>4, <1>5, <1>6

\* The frame in hand of a publisher is one that Delivery knows.
LEMMA FrameIsSendable ==
  ASSUME TypeOK, StreamInv, NEW s \in Sessions, control[s] \in {"publish", "enqueue"}
  PROVE  /\ ctlFrame(s) \in Frame /\ ctlFrame(s) \in Sendable
         /\ ctlFrame(s).from = s /\ ctlFrame(s).seq = ctl[s].seq
<1>1. /\ ctl[s].topic \in Topics /\ ctl[s].seq \in Nat /\ ctl[s].seq >= 1
      /\ ctl[s].seq <= MaxStreamPubs[s]
      /\ MaxStreamPubs[s] \in Nat /\ MaxDatagrams[s] \in Nat
  BY BoundsNatural DEF TypeOK, CtlState, StreamInv, Bounded
<1>2. ctl[s].seq \in 1..(MaxStreamPubs[s] + MaxDatagrams[s])
  BY <1>1
<1>3. ctlFrame(s) \in [from : {s}, seq : 1..(MaxStreamPubs[s] + MaxDatagrams[s]),
                       topic : Topics]
  BY <1>1, <1>2 DEF ctlFrame
<1>4. QED
  BY <1>1, <1>3 DEF ctlFrame, Frame, Sendable

\* Broker.Publish addresses a frame, as Delivery allows it to: all that the
\* publisher sent before has been taken over, or its subscriber is dead.
LEMMA PublishAddresses ==
  ASSUME TypeOK, StreamInv, NEW s \in Sessions, Publish(s)
  PROVE  StreamInv' /\ D!Address(ctlFrame(s), topics[ctl[s].topic])
<1> USE DEF StreamInv
<1> DEFINE f == ctlFrame(s)
           snapshot == topics[ctl[s].topic]
<1>f. f \in Frame /\ f.from = s /\ f.seq = ctl[s].seq
  BY FrameIsSendable DEF Publish, goControl
<1>t. /\ ctl \in [Sessions -> CtlState] /\ ctl[s].topic \in Topics
      /\ snapshot \in SUBSET Sessions /\ control \in [Sessions -> Control]
      /\ \A r \in Sessions : ctl[r].seq \in Nat
  BY DEF TypeOK, CtlState
<1>1. /\ control[s] = "publish" /\ control' = [control EXCEPT ![s] = "enqueue"]
      /\ \A r \in Sessions : dueStream'[r] = IF r \in snapshot
                                             THEN dueStream[r] \cup {f} ELSE dueStream[r]
      /\ \A q \in Sessions : ctl'[q].seq = ctl[q].seq /\ ctl'[q].topic = ctl[q].topic
      /\ ctl'[s].pending = snapshot
      /\ \A q \in Sessions : q # s => ctl'[q] = ctl[q]
      /\ UNCHANGED <<stFrame, outStream, sentStream, lostStream, broken, ctxDone>>
  BY <1>t DEF Publish, goControl, wireVars, CtlState
<1>2. \A q \in Sessions : ctlFrame(q)' = ctlFrame(q)
  BY <1>1 DEF ctlFrame
<1>3. \A r \in Sessions : D!carried(r)' = D!carried(r) /\ inHand(r)' = inHand(r)
  BY <1>1 DEF D!carried, D!elements, inHand
<1>4. \A r \in Sessions : \A g \in dueStream[r] :
        /\ g \in Frame
        /\ g.from = s => /\ g.seq < f.seq
                         /\ g \in D!carried(r) \/ broken[r]
  BY <1>1, <1>f DEF PublishersWait, owing, TypeOK
<1> HIDE DEF f, snapshot
<1>5. Bounded'
  BY <1>1, <1>t DEF Bounded
<1>6. PublishersWait'
  <2> SUFFICES ASSUME NEW r \in Sessions, NEW g \in dueStream'[r]
               PROVE  /\ g.seq <= ctl'[g.from].seq
                      /\ control'[g.from] = "publish" => g.seq < ctl'[g.from].seq
                      /\ \/ g \in D!carried(r)' \/ broken'[r]
                         \/ owing(g.from, r)' /\ g = ctlFrame(g.from)'
    BY DEF PublishersWait
  <2>1. CASE g = f /\ r \in snapshot
    BY <1>1, <1>2, <1>f, <1>t, <2>1 DEF owing, f
  <2>2. CASE g \in dueStream[r] /\ g.from = s
    BY <1>1, <1>3, <1>4, <1>f, <1>t, <2>2 DEF Frame
  <2>3. CASE g \in dueStream[r] /\ g.from # s
    <3>1. g.from \in Sessions /\ control'[g.from] = control[g.from]
          /\ ctl'[g.from] = ctl[g.from]
      BY <1>1, <1>4, <1>t, <2>3 DEF Frame
    <3>2. QED
      BY <1>1, <1>2, <1>3, <2>3, <3>1 DEF PublishersWait, owing
  <2>4. QED
    BY <1>1, <2>1, <2>2, <2>3
<1>7. OwedIsNew'
  <2> SUFFICES ASSUME NEW q \in Sessions, NEW r \in Sessions, owing(q, r)'
               PROVE  /\ ctlFrame(q)' \in dueStream'[r]
                      /\ D!newerThan(ctlFrame(q)', D!carried(r)')
    BY DEF OwedIsNew, D!newerThan
  <2>1. CASE q = s
    <3>1. r \in snapshot
      BY <1>1, <2>1 DEF owing
    <3>2. D!newerThan(f, D!carried(r))
      BY <1>4, <1>f DEF D!newerThan, CarriedInOrder
    <3>3. QED
      BY <1>1, <1>2, <1>3, <2>1, <3>1, <3>2 DEF f
  <2>2. CASE q # s
    <3>1. owing(q, r)
      BY <1>1, <1>t, <2>2 DEF owing
    <3>2. QED
      BY <1>1, <1>2, <1>3, <3>1 DEF OwedIsNew
  <2>3. QED
    BY <2>1, <2>2
<1>8. CarriedInOrder'
  <2> SUFFICES ASSUME NEW r \in Sessions
               PROVE  /\ D!carried(r)' \subseteq dueStream'[r]
                      /\ InPublishOrder((sentStream[r] \o (inHand(r) \o outStream[r]))')
    BY DEF CarriedInOrder
  <2>1. (sentStream[r] \o (inHand(r) \o outStream[r]))'
          = sentStream[r] \o (inHand(r) \o outStream[r])
    BY <1>1, <1>3
  <2>2. QED
    BY <1>1, <1>3, <2>1 DEF CarriedInOrder
<1>9. D!Address(f, snapshot)
  <2>1. \A r \in Sessions : D!newerThan(f, dueStream[r])
    BY <1>4, <1>f DEF D!newerThan
  <2>2. \A r \in Sessions : \A g \in dueStream[r] :
          g.from = f.from => g \in D!carried(r) \/ broken[r]
    BY <1>4, <1>f
  <2>3. dueStream' = [r \in Sessions |-> IF r \in snapshot THEN dueStream[r] \cup {f}
                                                           ELSE dueStream[r]]
    BY DEF Publish, f, snapshot
  <2>4. [r \in Sessions |-> inHand(r) \o outStream[r]]'
          = [r \in Sessions |-> inHand(r) \o outStream[r]]
    BY <1>1, <1>3
  <2>5. UNCHANGED <<sentStream, lostStream, broken, outDatagram, lastDatagram>>
    BY DEF Publish, wireVars, datagramVars
  <2>6. QED
    BY <2>1, <2>2, <2>3, <2>4, <2>5 DEF D!Address, D!datagramVars
<1>10. QED
  BY <1>5, <1>6, <1>7, <1>8, <1>9 DEF f, snapshot

\* Session.enqueueStream: the frame takes its place behind what r already has,
\* or r's transport is dead and nothing changes for Delivery.
LEMMA EnqueueAccepts ==
  ASSUME TypeOK, StreamInv, NEW s \in Sessions, NEW r \in Sessions, EnqueueStream(s, r)
  PROVE  StreamInv' /\ (D!Accept(r, ctlFrame(s)) \/ UNCHANGED D!vars)
<1> USE DEF StreamInv
<1> DEFINE f == ctlFrame(s)
           line(q) == inHand(q) \o outStream[q]
<1>f. f \in Frame /\ f.from = s
  BY FrameIsSendable DEF EnqueueStream
<1>t. /\ ctl \in [Sessions -> CtlState]
      /\ \A q \in Sessions : /\ outStream[q] \in Seq(Frame) /\ sentStream[q] \in Seq(Frame)
                             /\ inHand(q) \in Seq(Frame) /\ line(q) \in Seq(Frame)
  <2>1. \A q \in Sessions : outStream[q] \in Seq(Frame) /\ sentStream[q] \in Seq(Frame)
                            /\ inHand(q) \in Seq(Frame)
    BY DEF TypeOK, inHand
  <2>2. QED
    BY <2>1 DEF TypeOK
<1>1. /\ control[s] = "enqueue" /\ r \in ctl[s].pending
      /\ \A q \in Sessions : ctl'[q].seq = ctl[q].seq /\ ctl'[q].topic = ctl[q].topic
      /\ ctl'[s].pending = ctl[s].pending \ {r}
      /\ \A q \in Sessions : q # s => ctl'[q] = ctl[q]
      /\ UNCHANGED <<control, stFrame, sentStream, lostStream, dueStream, broken, ctxDone>>
      /\ UNCHANGED <<outDatagram, lastDatagram>>
  BY <1>t DEF EnqueueStream, wireVars, datagramVars, CtlState
<1>2. \A q \in Sessions : ctlFrame(q)' = ctlFrame(q) /\ inHand(q)' = inHand(q)
  BY <1>1 DEF ctlFrame, inHand
<1>3. owing(s, r) /\ f \in dueStream[r] /\ D!newerThan(f, D!carried(r))
  BY <1>1 DEF owing, OwedIsNew
<1>4. \A p, q \in Sessions : owing(p, q)' <=> owing(p, q) /\ ~(p = s /\ q = r)
  BY <1>1 DEF owing
<1>5. Bounded'
  BY <1>1 DEF Bounded
<1>6. \A q \in Sessions : \A g \in dueStream[q] :
        /\ g \in Frame /\ g.seq <= ctl'[g.from].seq
        /\ control'[g.from] = "publish" => g.seq < ctl'[g.from].seq
        /\ \/ g \in D!carried(q) \/ broken[q] \/ (g = f /\ q = r)
           \/ owing(g.from, q)' /\ g = ctlFrame(g.from)'
  <2> SUFFICES ASSUME NEW q \in Sessions, NEW g \in dueStream[q]
               PROVE  /\ g \in Frame /\ g.seq <= ctl'[g.from].seq
                      /\ control'[g.from] = "publish" => g.seq < ctl'[g.from].seq
                      /\ \/ g \in D!carried(q) \/ broken[q] \/ (g = f /\ q = r)
                         \/ owing(g.from, q)' /\ g = ctlFrame(g.from)'
    OBVIOUS
  <2>1. g \in Frame /\ g.from \in Sessions
    BY DEF TypeOK, Frame
  <2>2. /\ g.seq <= ctl[g.from].seq
        /\ control[g.from] = "publish" => g.seq < ctl[g.from].seq
        /\ \/ g \in D!carried(q) \/ broken[q]
           \/ owing(g.from, q) /\ g = ctlFrame(g.from)
    BY DEF PublishersWait
  <2>3. owing(g.from, q) /\ g = ctlFrame(g.from)
          => (g = f /\ q = r) \/ (owing(g.from, q)' /\ g = ctlFrame(g.from)')
    BY <1>2, <1>4, <2>1
  <2>4. g.seq <= ctl'[g.from].seq /\ (control'[g.from] = "publish" => g.seq < ctl'[g.from].seq)
    BY <1>1, <2>1, <2>2
  <2> HIDE DEF f
  <2>5. QED
    BY <2>1, <2>2, <2>3, <2>4
<1>7. CASE Len(outStream[r]) < OutStreamDepth
           /\ outStream' = [outStream EXCEPT ![r] = Append(@, f)]
  <2>1. \A q \in Sessions : q # r => outStream'[q] = outStream[q]
    BY <1>7, <1>t
  <2>2. (inHand(r) \o outStream[r])' = Append(line(r), f)
    <3>1. outStream'[r] = Append(outStream[r], f)
      BY <1>7, <1>t DEF TypeOK
    <3>2. inHand(r) \o Append(outStream[r], f) = Append(inHand(r) \o outStream[r], f)
      BY <1>t, <1>f, LineFacts
    <3>3. QED
      BY <1>2, <3>1, <3>2
  <2>3. D!carried(r)' = D!carried(r) \cup {f}
    <3>1. D!elements(Append(line(r), f)) = D!elements(line(r)) \cup {f}
      BY <1>t, <1>f, AppendOrdered
    <3>2. QED
      BY <1>1, <2>2, <3>1, CarriedIs
  <2>4. \A q \in Sessions : q # r => D!carried(q)' = D!carried(q)
    <3> SUFFICES ASSUME NEW q \in Sessions, q # r PROVE D!carried(q)' = D!carried(q)
      OBVIOUS
    <3>1. inHand(q)' = inHand(q) /\ outStream'[q] = outStream[q]
      BY <1>2, <2>1
    <3>2. QED
      BY <1>1, <3>1, CarriedIs
  <2> HIDE DEF f
  <2>5. PublishersWait'
    BY <1>1, <1>6, <2>3, <2>4 DEF PublishersWait
  <2>6. OwedIsNew'
    <3> SUFFICES ASSUME NEW p \in Sessions, NEW q \in Sessions, owing(p, q)'
                 PROVE  /\ ctlFrame(p)' \in dueStream'[q]
                        /\ D!newerThan(ctlFrame(p)', D!carried(q)')
      BY DEF OwedIsNew, D!newerThan
    <3>1. /\ owing(p, q) /\ ~(p = s /\ q = r) /\ ctlFrame(p)' = ctlFrame(p)
          /\ ctlFrame(p) \in dueStream'[q] /\ D!newerThan(ctlFrame(p), D!carried(q))
      BY <1>1, <1>2, <1>4 DEF OwedIsNew
    <3>2. CASE q # r
      BY <2>4, <3>1, <3>2
    <3>3. CASE q = r
      <4>1. p # s /\ ctlFrame(p).from = p
        BY <3>1, <3>3 DEF ctlFrame
      <4>2. QED
        BY <1>f, <2>3, <3>1, <3>3, <4>1 DEF D!newerThan
    <3>4. QED
      BY <3>2, <3>3
  <2>7. CarriedInOrder'
    <3> SUFFICES ASSUME NEW q \in Sessions
                 PROVE  /\ D!carried(q)' \subseteq dueStream'[q]
                        /\ InPublishOrder((sentStream[q] \o (inHand(q) \o outStream[q]))')
      BY DEF CarriedInOrder
    <3>1. /\ D!carried(q) \subseteq dueStream[q]
          /\ InPublishOrder(sentStream[q] \o line(q))
      BY DEF CarriedInOrder
    <3>2. CASE q # r
      <4>1. (sentStream[q] \o (inHand(q) \o outStream[q]))' = sentStream[q] \o line(q)
        BY <1>1, <1>2, <2>1, <3>2
      <4>2. QED
        BY <1>1, <2>4, <3>1, <3>2, <4>1
    <3>3. CASE q = r
      <4> DEFINE all == sentStream[r] \o line(r)
      <4>0. /\ all \in Seq(Frame) /\ sentStream[r] \o Append(line(r), f) = Append(all, f)
            /\ D!elements(all) = D!elements(sentStream[r]) \cup D!elements(line(r))
        <5>1. sentStream[r] \in Seq(Frame) /\ line(r) \in Seq(Frame)
          BY <1>t
        <5> HIDE DEF line
        <5>2. QED
          BY <5>1, <1>f, LineFacts
      <4>1. (sentStream[q] \o (inHand(q) \o outStream[q]))' = Append(all, f)
        BY <1>1, <2>2, <3>3, <4>0
      <4>2. all \in Seq(Frame) /\ D!elements(all) \subseteq D!carried(r)
        BY <4>0, CarriedIs
      <4>3. D!newerThan(f, D!elements(all))
        BY <1>3, <4>2 DEF D!newerThan
      <4>4. InPublishOrder(Append(all, f))
        BY <1>f, <3>1, <3>3, <4>2, <4>3, AppendOrdered
      <4>5. QED
        BY <1>1, <1>3, <2>3, <3>1, <3>3, <4>1, <4>4
    <3>4. QED
      BY <3>2, <3>3
  <2>8. D!Accept(r, f)
    <3>1. [q \in Sessions |-> inHand(q) \o outStream[q]]'
            = [[q \in Sessions |-> inHand(q) \o outStream[q]]
                 EXCEPT ![r] = Append(@, f)]
      BY <1>2, <2>1, <2>2
    <3>2. QED
      BY <1>1, <1>3, <3>1 DEF D!Accept, D!datagramVars
  <2>9. QED
    BY <1>5, <2>5, <2>6, <2>7, <2>8 DEF f
<1>8. CASE ctxDone[r] /\ UNCHANGED outStream
  <2>1. broken[r]
    BY <1>8 DEF Bounded
  <2>2. \A q \in Sessions : /\ D!carried(q)' = D!carried(q)
                            /\ (inHand(q) \o outStream[q])' = line(q)
    BY <1>1, <1>2, <1>8, CarriedIs
  <2>3. PublishersWait'
    BY <1>1, <1>6, <2>1, <2>2 DEF PublishersWait
  <2>4. OwedIsNew'
    <3> SUFFICES ASSUME NEW p \in Sessions, NEW q \in Sessions, owing(p, q)'
                 PROVE  /\ ctlFrame(p)' \in dueStream'[q]
                        /\ D!newerThan(ctlFrame(p)', D!carried(q)')
      BY DEF OwedIsNew, D!newerThan
    <3>1. QED
      BY <1>1, <1>2, <1>4, <2>2 DEF OwedIsNew
  <2>5. CarriedInOrder'
    <3> SUFFICES ASSUME NEW q \in Sessions
                 PROVE  /\ D!carried(q)' \subseteq dueStream'[q]
                        /\ InPublishOrder((sentStream[q] \o (inHand(q) \o outStream[q]))')
      BY DEF CarriedInOrder
    <3>1. (sentStream[q] \o (inHand(q) \o outStream[q]))' = sentStream[q] \o line(q)
      BY <1>1, <2>2
    <3>2. QED
      BY <1>1, <2>2, <3>1 DEF CarriedInOrder
  <2>6. UNCHANGED D!vars
    <3>1. UNCHANGED [q \in Sessions |-> inHand(q) \o outStream[q]]
      BY <2>2
    <3>2. QED
      BY <1>1, <3>1 DEF D!vars, D!streamVars, D!datagramVars
  <2>7. QED
    BY <1>5, <2>3, <2>4, <2>5, <2>6
<1>9. QED
  BY <1>7, <1>8 DEF EnqueueStream

\* A step of a streamWriter keeps StreamInv when it loses no frame from sight
\* and keeps the order: nothing else depends on where a frame is.
LEMMA WriterQuiet ==
  ASSUME TypeOK, StreamInv, UNCHANGED <<control, ctl, dueStream, broken, ctxDone>>,
         \A r \in Sessions :
           /\ D!carried(r)' = D!carried(r)
           /\ InPublishOrder((sentStream[r] \o (inHand(r) \o outStream[r]))')
  PROVE  StreamInv'
<1> USE DEF StreamInv
<1>1. \A q, r \in Sessions : /\ ctlFrame(q)' = ctlFrame(q)
                             /\ owing(q, r)' <=> owing(q, r)
  BY DEF ctlFrame, owing
<1>2. Bounded'
  BY DEF Bounded
<1>3. PublishersWait'
  <2> SUFFICES ASSUME NEW r \in Sessions, NEW g \in dueStream[r]
               PROVE  /\ g.seq <= ctl[g.from].seq
                      /\ control[g.from] = "publish" => g.seq < ctl[g.from].seq
                      /\ \/ g \in D!carried(r)' \/ broken[r]
                         \/ owing(g.from, r)' /\ g = ctlFrame(g.from)'
    BY DEF PublishersWait
  <2>1. g.from \in Sessions
    BY DEF TypeOK, Frame
  <2>2. QED
    BY <1>1, <2>1 DEF PublishersWait
<1>4. OwedIsNew'
  <2> SUFFICES ASSUME NEW q \in Sessions, NEW r \in Sessions, owing(q, r)'
               PROVE  /\ ctlFrame(q)' \in dueStream'[r]
                      /\ D!newerThan(ctlFrame(q)', D!carried(r)')
    BY DEF OwedIsNew, D!newerThan
  <2>1. QED
    BY <1>1 DEF OwedIsNew
<1>5. CarriedInOrder'
  <2> SUFFICES ASSUME NEW q \in Sessions
               PROVE  /\ D!carried(q)' \subseteq dueStream'[q]
                      /\ InPublishOrder((sentStream[q] \o (inHand(q) \o outStream[q]))')
    BY DEF CarriedInOrder
  <2>1. QED
    BY DEF CarriedInOrder
<1>6. QED
  BY <1>2, <1>3, <1>4, <1>5

\* streamWriter takes a frame from the queue into its hand, which Delivery does
\* not see; writes it, which gives it; or fails to write it, which refuses it.
LEMMA WriterGives ==
  ASSUME TypeOK, StreamInv, NEW s \in Sessions,
         StreamTake(s) \/ StreamWritten(s) \/ StreamWriteFails(s)
  PROVE  /\ StreamInv'
         /\ D!Give(s) \/ D!Refuse(s) \/ UNCHANGED D!vars
<1> USE DEF StreamInv
<1> DEFINE line(q) == inHand(q) \o outStream[q]
<1>t. \A q \in Sessions : /\ outStream[q] \in Seq(Frame) /\ sentStream[q] \in Seq(Frame)
                          /\ line(q) \in Seq(Frame)
  <2>1. \A q \in Sessions : outStream[q] \in Seq(Frame) /\ sentStream[q] \in Seq(Frame)
                            /\ inHand(q) \in Seq(Frame)
    BY DEF TypeOK, inHand
  <2>2. QED
    BY <2>1
<1>1. /\ UNCHANGED <<control, ctl, dueStream, broken, ctxDone>>
      /\ UNCHANGED <<outDatagram, lastDatagram>>
      /\ \A q \in Sessions : q # s => /\ stFrame'[q] = stFrame[q]
                                      /\ outStream'[q] = outStream[q]
                                      /\ sentStream'[q] = sentStream[q]
                                      /\ lostStream'[q] = lostStream[q]
  BY DEF StreamTake, StreamWritten, StreamWriteFails, TypeOK, controlVars,
    wireVars, datagramVars
<1>2. \A q \in Sessions : q # s => /\ line(q)' = line(q)
                                   /\ D!carried(q)' = D!carried(q)
  <2> SUFFICES ASSUME NEW q \in Sessions, q # s
               PROVE  line(q)' = line(q) /\ D!carried(q)' = D!carried(q)
    OBVIOUS
  <2>1. inHand(q)' = inHand(q)
    BY <1>1 DEF inHand
  <2>2. QED
    BY <1>1, <2>1, CarriedIs
<1>3. \A q \in Sessions : InPublishOrder(sentStream[q] \o line(q))
  BY DEF CarriedInOrder
<1>4. ASSUME /\ D!carried(s)' = D!carried(s)
             /\ InPublishOrder(sentStream'[s] \o line(s)')
      PROVE  StreamInv'
  <2> SUFFICES ASSUME NEW q \in Sessions
               PROVE  /\ D!carried(q)' = D!carried(q)
                      /\ InPublishOrder((sentStream[q] \o (inHand(q) \o outStream[q]))')
    BY <1>1, WriterQuiet
  <2>1. CASE q = s
    BY <1>4, <2>1
  <2>2. CASE q # s
    <3>1. (sentStream[q] \o (inHand(q) \o outStream[q]))' = sentStream[q] \o line(q)
      BY <1>1, <1>2, <2>2
    <3>2. QED
      BY <1>2, <1>3, <2>2, <3>1
  <2>3. QED
    BY <2>1, <2>2
<1>5. CASE StreamTake(s)
  <2>1. line(s)' = line(s) /\ sentStream' = sentStream /\ lostStream' = lostStream
    <3>1. /\ outStream[s] # <<>> /\ outStream'[s] = Tail(outStream[s])
          /\ stFrame[s] = NoFrame /\ stFrame'[s] = Head(outStream[s])
          /\ sentStream' = sentStream /\ lostStream' = lostStream
      BY <1>5 DEF StreamTake, TypeOK
    <3>2. Head(outStream[s]) \in Frame
      BY <3>1, <1>t
    <3>3. inHand(s) = <<>> /\ inHand(s)' = <<Head(outStream[s])>>
      BY <3>1, <3>2, NoFrameIsNoFrame DEF inHand
    <3>4. <<Head(outStream[s])>> \o Tail(outStream[s]) = <<>> \o outStream[s]
      BY <1>t, <3>1
    <3>5. QED
      BY <3>1, <3>3, <3>4
  <2>2. D!carried(s)' = D!carried(s)
    BY <2>1, CarriedIs
  <2>3. UNCHANGED D!vars
    <3>1. \A q \in Sessions : line(q)' = line(q)
      BY <1>2, <2>1
    <3>2. UNCHANGED [q \in Sessions |-> inHand(q) \o outStream[q]]
      BY <3>1
    <3>3. QED
      BY <1>1, <2>1, <3>2 DEF D!vars, D!streamVars, D!datagramVars
  <2>4. QED
    BY <1>3, <1>4, <2>1, <2>2, <2>3
<1>6. CASE StreamWritten(s) \/ StreamWriteFails(s)
  <2> DEFINE f == stFrame[s]
  <2>1. /\ f \in Frame /\ line(s) = <<f>> \o outStream[s]
        /\ line(s) # <<>> /\ Head(line(s)) = f /\ Tail(line(s)) = outStream[s]
        /\ line(s)' = Tail(line(s))
    <3>1. f \in Frame /\ f # NoFrame /\ stFrame'[s] = NoFrame /\ outStream' = outStream
      BY <1>6 DEF StreamWritten, StreamWriteFails, TypeOK
    <3>2. inHand(s) = <<f>> /\ inHand(s)' = <<>>
      BY <3>1 DEF inHand
    <3>3. outStream[s] \in Seq(Frame)
      BY <1>t
    <3>4. /\ <<f>> \o outStream[s] # <<>> /\ Head(<<f>> \o outStream[s]) = f
          /\ Tail(<<f>> \o outStream[s]) = outStream[s]
          /\ <<>> \o outStream[s] = outStream[s]
      BY <3>1, <3>3
    <3>5. QED
      BY <3>1, <3>2, <3>4
  <2>2. D!elements(line(s)) = D!elements(Tail(line(s))) \cup {f}
    <3>1. line(s) \in Seq(Frame)
      BY <1>t
    <3> HIDE DEF line
    <3>2. QED
      BY <2>1, <3>1, TailOrdered
  <2>3. [q \in Sessions |-> inHand(q) \o outStream[q]]'
          = [[q \in Sessions |-> inHand(q) \o outStream[q]] EXCEPT ![s] = Tail(@)]
    BY <1>2, <2>1
  <2>4. CASE StreamWritten(s)
    <3>1. /\ sentStream' = [sentStream EXCEPT ![s] = Append(@, f)]
          /\ sentStream'[s] = Append(sentStream[s], f) /\ lostStream' = lostStream
          /\ ~ broken[s]
      BY <2>4 DEF StreamWritten, TypeOK
    <3>2. D!elements(sentStream'[s]) = D!elements(sentStream[s]) \cup {f}
      BY <1>t, <2>1, <3>1, AppendOrdered
    <3>3. D!carried(s)' = D!carried(s)
      <4>1. D!elements(inHand(s) \o outStream[s])
              = D!elements(inHand(s)' \o outStream'[s]) \cup {f}
        BY <2>1, <2>2
      <4>2. QED
        BY <3>1, <3>2, <4>1, CarriedIs
    <3>4. sentStream'[s] \o line(s)' = sentStream[s] \o line(s)
      <4>1. line(s) \in Seq(Frame)
        BY <1>t
      <4>2. sentStream[s] \in Seq(Frame)
        BY <1>t
      <4>3. line(s) # <<>> /\ Head(line(s)) = f /\ line(s)' = Tail(line(s))
        BY <2>1
      <4> HIDE DEF line, f
      <4>4. Append(sentStream[s], Head(line(s))) \o Tail(line(s)) = sentStream[s] \o line(s)
        BY <4>1, <4>2, <4>3
      <4>5. QED
        BY <3>1, <4>3, <4>4
    <3>5. D!Give(s)
      BY <1>1, <2>1, <2>3, <3>1 DEF D!Give, D!datagramVars
    <3>6. QED
      BY <1>3, <1>4, <3>3, <3>4, <3>5
  <2>5. CASE StreamWriteFails(s)
    <3>1. /\ lostStream' = [lostStream EXCEPT ![s] = @ \cup {f}]
          /\ lostStream'[s] = lostStream[s] \cup {f} /\ sentStream' = sentStream
      BY <2>5 DEF StreamWriteFails, TypeOK
    <3>2. D!carried(s)' = D!carried(s)
      BY <2>1, <2>2, <3>1, CarriedIs
    <3>3. InPublishOrder(sentStream'[s] \o line(s)')
      <4>1. line(s) \in Seq(Frame)
        BY <1>t
      <4>2. sentStream[s] \in Seq(Frame) /\ InPublishOrder(sentStream[s] \o line(s))
        BY <1>t, <1>3
      <4> HIDE DEF line
      <4>3. InPublishOrder(sentStream[s] \o Tail(line(s)))
        BY <2>1, <4>1, <4>2, LineFacts
      <4>4. QED
        BY <2>1, <3>1, <4>3
    <3>4. D!Refuse(s)
      BY <1>1, <2>1, <2>3, <3>1 DEF D!Refuse, D!datagramVars
    <3>5. QED
      BY <1>4, <3>2, <3>3, <3>4
  <2>6. QED
    BY <1>6, <2>4, <2>5
<1>7. QED
  BY <1>5, <1>6

-----------------------------------------------------------------------------
(* The datagram surface.                                                   *)

\* What the invariant knows of the types it speaks of.
LEMMA DatagramTypes ==
  ASSUME TypeOK
  PROVE  /\ reader \in [Sessions -> Reader] /\ dgm \in [Sessions -> DgmState]
         /\ \A s \in Sessions : /\ dgm[s].seq \in Nat /\ dgm[s].target \in Sessions
                                /\ dgm[s].pending \in SUBSET Sessions
                                /\ MaxDatagrams[s] \in Nat
         /\ \A r \in Sessions :
              /\ outDatagram[r] \in Seq(Frame)
              /\ DOMAIN outDatagram[r] = 1..Len(outDatagram[r])
              /\ \A i \in DOMAIN outDatagram[r] : outDatagram[r][i] \in Frame
                   /\ outDatagram[r][i].from \in Sessions /\ outDatagram[r][i].seq \in Nat
         /\ \A r, s \in Sessions : lastDatagram[r][s] \in Nat
<1>1. /\ reader \in [Sessions -> Reader] /\ dgm \in [Sessions -> DgmState]
      /\ \A s \in Sessions : /\ dgm[s].seq \in Nat /\ dgm[s].target \in Sessions
                             /\ dgm[s].pending \in SUBSET Sessions
                             /\ MaxDatagrams[s] \in Nat
  BY BoundsNatural DEF TypeOK, DgmState
<1>2. \A r \in Sessions :
        /\ outDatagram[r] \in Seq(Frame)
        /\ DOMAIN outDatagram[r] = 1..Len(outDatagram[r])
        /\ \A i \in DOMAIN outDatagram[r] : outDatagram[r][i] \in Frame
  BY DEF TypeOK
<1>3. \A f \in Frame : f.from \in Sessions /\ f.seq \in Nat
  BY DEF Frame
<1>4. \A r, s \in Sessions : lastDatagram[r][s] \in Nat
  BY DEF TypeOK
<1>5. QED
  BY <1>1, <1>2, <1>3, <1>4

\* A step that leaves the readers and the queues alone.
LEMMA DatagramQuiet ==
  ASSUME DatagramInv, UNCHANGED <<reader, dgm, outDatagram, lastDatagram>>
  PROVE  DatagramInv'
BY DEF DatagramInv, ReadersKeepUp, QueuesInOrder, seenBelow, unserved, InPublishOrder

\* The reader takes the next datagram, copies the subscribers, has served all of
\* them, or stops: no queue changes.
LEMMA ReaderMoves ==
  ASSUME TypeOK, DatagramInv, NEW s \in Sessions,
         \/ ReaderExits(s) \/ PublishDatagram(s) \/ PublishDatagramReturns(s)
         \/ \E t \in Topics : ReceiveDatagram(s, t)
  PROVE  DatagramInv'
<1> USE DatagramTypes DEF datagramVars, goReader
<1>1. /\ UNCHANGED <<outDatagram, lastDatagram>>
      /\ \A q \in Sessions : q # s => reader'[q] = reader[q] /\ dgm'[q] = dgm[q]
      /\ dgm'[s].seq \in Nat /\ reader'[s] \notin {"evict", "push"}
      /\ \/ /\ reader[s] = "receive" /\ reader'[s] = "publish"
            /\ dgm'[s].seq = dgm[s].seq + 1 /\ dgm[s].seq < MaxDatagrams[s]
         \/ /\ dgm'[s].seq = dgm[s].seq /\ reader'[s] \in {"stopped", "receive"}
         \/ /\ dgm'[s].seq = dgm[s].seq /\ reader[s] = "publish" /\ reader'[s] = "try"
  <2>1. CASE ReaderExits(s) \/ PublishDatagramReturns(s)
    BY <2>1 DEF ReaderExits, PublishDatagramReturns
  <2>2. CASE PublishDatagram(s)
    BY <2>2 DEF PublishDatagram, DgmState
  <2>3. ASSUME NEW t \in Topics, ReceiveDatagram(s, t)
        PROVE  /\ UNCHANGED <<outDatagram, lastDatagram>>
               /\ \A q \in Sessions : q # s => reader'[q] = reader[q] /\ dgm'[q] = dgm[q]
               /\ reader[s] = "receive" /\ reader'[s] = "publish"
               /\ dgm'[s].seq = dgm[s].seq + 1 /\ dgm[s].seq < MaxDatagrams[s]
    <3>1. dgm'[s] = [dgm[s] EXCEPT !.topic = t, !.seq = dgm[s].seq + 1]
      BY <2>3 DEF ReceiveDatagram
    <3>2. dgm[s] \in DgmState
      OBVIOUS
    <3>3. dgm'[s].seq = dgm[s].seq + 1
      BY <3>1, <3>2 DEF DgmState
    <3>4. QED
      BY <2>3, <3>3 DEF ReceiveDatagram
  <2>4. QED
    BY <2>1, <2>2, <2>3
<1>2. ASSUME NEW q \in Sessions, NEW r \in Sessions
      PROVE  /\ seenBelow(q, r, dgm[q].seq + 1)'
             /\ unserved(q, r)' => seenBelow(q, r, dgm[q].seq)'
  <2>0. /\ seenBelow(q, r, dgm[q].seq + 1)
        /\ unserved(q, r) => seenBelow(q, r, dgm[q].seq)
    BY DEF DatagramInv, ReadersKeepUp
  <2>1. CASE q # s
    <3>1. seenBelow(q, r, dgm[q].seq + 1)' <=> seenBelow(q, r, dgm[q].seq + 1)
      BY <1>1, <2>1 DEF seenBelow
    <3>2. seenBelow(q, r, dgm[q].seq)' <=> seenBelow(q, r, dgm[q].seq)
      BY <1>1, <2>1 DEF seenBelow
    <3>3. unserved(q, r)' <=> unserved(q, r)
      BY <1>1, <2>1 DEF unserved
    <3>4. QED
      BY <2>0, <3>1, <3>2, <3>3
  <2>2. CASE q = s
    <3>1. seenBelow(s, r, dgm[s].seq + 1)
      BY <2>0, <2>2
    <3>2. reader[s] = "publish" => seenBelow(s, r, dgm[s].seq)
      BY <2>0, <2>2 DEF unserved
    <3>3. unserved(s, r)' => reader'[s] \in {"publish", "try"}
      BY <1>1 DEF unserved
    <3>4. seenBelow(s, r, dgm[s].seq + 1)'
      BY <1>1, <3>1 DEF seenBelow
    <3>5. unserved(s, r)' => seenBelow(s, r, dgm[s].seq)'
      BY <1>1, <3>1, <3>2, <3>3 DEF seenBelow
    <3>6. QED
      BY <2>2, <3>4, <3>5
  <2>3. QED
    BY <2>1, <2>2
<1>3. \A q \in Sessions :
        /\ reader'[q] \in {"evict", "push"} => dgm'[q].target \notin dgm'[q].pending
        /\ dgm'[q].seq <= MaxDatagrams[q]
        /\ reader'[q] \in {"publish", "try", "evict", "push"} => dgm'[q].seq >= 1
  BY <1>1 DEF DatagramInv, ReadersKeepUp
<1>4. QueuesInOrder'
  BY <1>1 DEF DatagramInv, QueuesInOrder, InPublishOrder
<1>5. QED
  BY <1>2, <1>3, <1>4 DEF DatagramInv, ReadersKeepUp

\* A reader goes on without having put the datagram anywhere, while queues at
\* most lose frames.
LEMMA ReaderPasses ==
  ASSUME TypeOK, DatagramInv, QueuesInOrder', NEW s \in Sessions,
         \A q, r \in Sessions : \A n \in Nat : seenBelow(q, r, n) => seenBelow(q, r, n)',
         \A q \in Sessions : q # s => reader'[q] = reader[q] /\ dgm'[q] = dgm[q],
         dgm'[s].seq = dgm[s].seq,
         \A r \in Sessions : unserved(s, r)' => unserved(s, r),
         reader'[s] \in {"evict", "push"} => dgm'[s].target \notin dgm'[s].pending,
         reader'[s] \in {"publish", "try", "evict", "push"} => dgm[s].seq >= 1
  PROVE  DatagramInv'
<1> USE DatagramTypes
<1>1. ASSUME NEW q \in Sessions, NEW r \in Sessions
      PROVE  /\ seenBelow(q, r, dgm[q].seq + 1)'
             /\ unserved(q, r)' => seenBelow(q, r, dgm[q].seq)'
  <2>1. dgm'[q].seq = dgm[q].seq /\ (unserved(q, r)' => unserved(q, r))
    BY DEF unserved
  <2>2. /\ seenBelow(q, r, dgm[q].seq + 1)
        /\ unserved(q, r) => seenBelow(q, r, dgm[q].seq)
    BY DEF DatagramInv, ReadersKeepUp
  <2>3. dgm[q].seq \in Nat /\ dgm[q].seq + 1 \in Nat
    OBVIOUS
  <2>4. seenBelow(q, r, dgm[q].seq + 1)'
    <3>1. \A n \in Nat : seenBelow(q, r, n) => seenBelow(q, r, n)'
      OBVIOUS
    <3>2. QED
      BY <2>1, <2>2, <2>3, <3>1 DEF seenBelow
  <2>5. unserved(q, r)' => seenBelow(q, r, dgm[q].seq)'
    <3>1. \A n \in Nat : seenBelow(q, r, n) => seenBelow(q, r, n)'
      OBVIOUS
    <3>2. QED
      BY <2>1, <2>2, <2>3, <3>1 DEF seenBelow
  <2>6. QED
    BY <2>4, <2>5
<1>2. \A q \in Sessions :
        /\ reader'[q] \in {"evict", "push"} => dgm'[q].target \notin dgm'[q].pending
        /\ dgm'[q].seq <= MaxDatagrams[q]
        /\ reader'[q] \in {"publish", "try", "evict", "push"} => dgm'[q].seq >= 1
  BY DEF DatagramInv, ReadersKeepUp
<1>3. QED
  BY <1>1, <1>2 DEF DatagramInv, ReadersKeepUp

\* A queue that loses its oldest frame, sent or evicted, shows its subscriber
\* nothing newer.
LEMMA QueueShrinks ==
  ASSUME TypeOK, DatagramInv, NEW r \in Sessions, outDatagram[r] # <<>>,
         outDatagram' = [outDatagram EXCEPT ![r] = Tail(@)],
         \/ UNCHANGED lastDatagram
         \/ lastDatagram' = [lastDatagram EXCEPT ![r][Head(outDatagram[r]).from]
                               = Head(outDatagram[r]).seq]
  PROVE  /\ \A q, x \in Sessions : \A n \in Nat : seenBelow(q, x, n) => seenBelow(q, x, n)'
         /\ QueuesInOrder'
<1> DEFINE f == outDatagram[r][1]
           d == outDatagram[r]
<1>1. /\ f \in Frame /\ f.from \in Sessions /\ f.seq \in Nat /\ Head(d) = f
      /\ Len(d) \in Nat \ {0} /\ DOMAIN d = 1..Len(d) /\ 1 \in DOMAIN d
      /\ outDatagram'[r] = Tail(d) /\ DOMAIN Tail(d) = 1..(Len(d) - 1)
      /\ \A i \in DOMAIN Tail(d) : i + 1 \in DOMAIN d /\ 1 < i + 1 /\ Tail(d)[i] = d[i + 1]
  <2>1. d \in Seq(Frame) /\ outDatagram \in [Sessions -> Seq(Frame)]
    BY DEF TypeOK
  <2>2. d # <<>>
    OBVIOUS
  <2> HIDE DEF d
  <2>3. d[1] \in Frame /\ Head(d) = d[1]
    BY <2>1, <2>2
  <2>4. d[1].from \in Sessions /\ d[1].seq \in Nat
    BY <2>3 DEF Frame
  <2>5. QED
    BY <2>1, <2>2, <2>3, <2>4 DEF d
<1>2. \A x \in Sessions : x # r => /\ outDatagram'[x] = outDatagram[x]
                                   /\ lastDatagram'[x] = lastDatagram[x]
  BY DEF TypeOK
<1>3. \A q \in Sessions : \/ lastDatagram'[r][q] = lastDatagram[r][q]
                          \/ q = f.from /\ lastDatagram'[r][q] = f.seq
  <2>1. lastDatagram \in [Sessions -> [Sessions -> Nat]]
    BY DEF TypeOK
  <2>2. \/ lastDatagram' = lastDatagram
        \/ lastDatagram' = [lastDatagram EXCEPT ![r][f.from] = f.seq]
    BY <1>1
  <2> HIDE DEF f
  <2>3. QED
    BY <1>1, <2>1, <2>2
<1>4. /\ InPublishOrder(d)
      /\ \A i \in DOMAIN d : /\ d[i] \in Frame /\ d[i].from \in Sessions
                             /\ lastDatagram[r][d[i].from] < d[i].seq
  BY DatagramTypes DEF DatagramInv, QueuesInOrder
<1> HIDE DEF f, d
<1>5. ASSUME NEW q \in Sessions, NEW x \in Sessions, NEW n \in Nat, seenBelow(q, x, n)
      PROVE  seenBelow(q, x, n)'
  <2>1. CASE x # r
    BY <1>2, <1>5, <2>1 DEF seenBelow
  <2>2. CASE x = r
    <3>1. /\ lastDatagram[r][q] < n
          /\ \A i \in DOMAIN d : d[i].from = q => d[i].seq < n
      BY <1>5, <2>2 DEF seenBelow, d
    <3>2. lastDatagram'[r][q] < n
      BY <1>1, <1>3, <3>1 DEF f, d
    <3>3. \A i \in DOMAIN Tail(d) : Tail(d)[i].from = q => Tail(d)[i].seq < n
      BY <1>1, <3>1
    <3>4. QED
      BY <1>1, <2>2, <3>2, <3>3 DEF seenBelow
  <2>3. QED
    BY <2>1, <2>2
<1>6. QueuesInOrder'
  <2> SUFFICES ASSUME NEW x \in Sessions
               PROVE  /\ InPublishOrder(outDatagram'[x])
                      /\ \A i \in DOMAIN outDatagram'[x] :
                           lastDatagram'[x][outDatagram'[x][i].from] < outDatagram'[x][i].seq
    BY DEF QueuesInOrder, InPublishOrder
  <2>1. CASE x # r
    BY <1>2, <2>1 DEF DatagramInv, QueuesInOrder
  <2>2. CASE x = r
    <3>1. InPublishOrder(Tail(d))
      BY DatagramTypes, <1>4, TailOrdered DEF d
    <3>2. ASSUME NEW i \in DOMAIN Tail(d)
          PROVE  lastDatagram'[r][Tail(d)[i].from] < Tail(d)[i].seq
      <4>1. /\ i + 1 \in DOMAIN d /\ 1 < i + 1 /\ Tail(d)[i] = d[i + 1]
            /\ d[i + 1].from \in Sessions /\ 1 \in DOMAIN d /\ f = d[1]
        BY <1>1, <1>4 DEF f, d
      <4>2. f.from = d[i + 1].from => f.seq < d[i + 1].seq
        BY <1>4, <4>1 DEF InPublishOrder
      <4>3. QED
        BY <1>3, <1>4, <4>1, <4>2
    <3>3. QED
      BY <1>1, <2>2, <3>1, <3>2
  <2>3. QED
    BY <2>1, <2>2
<1>7. QED
  BY <1>5, <1>6

\* The reader of s puts the datagram it has in hand behind what r has queued: it
\* is the newest of its publisher there.
LEMMA ReaderServes ==
  ASSUME TypeOK, DatagramInv, NEW s \in Sessions, NEW r \in Sessions, unserved(s, r),
         reader[s] \in {"try", "push"}, reader'[s] = "try",
         outDatagram' = [outDatagram EXCEPT ![r] = Append(@, dgmFrame(s))],
         UNCHANGED lastDatagram,
         \A q \in Sessions : q # s => reader'[q] = reader[q] /\ dgm'[q] = dgm[q],
         dgm'[s].seq = dgm[s].seq,
         r \notin dgm'[s].pending, dgm'[s].pending \subseteq dgm[s].pending
  PROVE  /\ DatagramInv' /\ dgmFrame(s) \in Sendable
         /\ D!newerThan(dgmFrame(s), D!elements(outDatagram[r]))
         /\ lastDatagram[r][dgmFrame(s).from] < dgmFrame(s).seq
<1> USE DatagramTypes
<1> DEFINE f == dgmFrame(s)
           d == outDatagram[r]
<1>f. f \in Frame /\ f.from = s /\ f.seq = dgm[s].seq /\ f \in Sendable
  <2>1. /\ dgm[s].topic \in Topics /\ dgm[s].seq \in Nat /\ dgm[s].seq >= 1
        /\ dgm[s].seq <= MaxDatagrams[s]
        /\ MaxStreamPubs[s] \in Nat /\ MaxDatagrams[s] \in Nat
    BY BoundsNatural DEF DgmState, DatagramInv, ReadersKeepUp
  <2>2. dgm[s].seq \in 1..(MaxStreamPubs[s] + MaxDatagrams[s])
    BY <2>1
  <2>3. f \in [from : {s}, seq : 1..(MaxStreamPubs[s] + MaxDatagrams[s]), topic : Topics]
    BY <2>1, <2>2 DEF dgmFrame
  <2>4. QED
    BY <2>1, <2>3 DEF dgmFrame, Frame, Sendable
<1>1. /\ lastDatagram[r][s] < dgm[s].seq
      /\ \A i \in DOMAIN d : d[i].from = s => d[i].seq < dgm[s].seq
  BY DEF DatagramInv, ReadersKeepUp, seenBelow
<1>2. D!newerThan(f, D!elements(d)) /\ lastDatagram[r][f.from] < f.seq
  BY <1>1, <1>f DEF D!newerThan, D!elements
<1>3. /\ d \in Seq(Frame) /\ outDatagram'[r] = Append(d, f)
      /\ DOMAIN d = 1..Len(d) /\ DOMAIN Append(d, f) = 1..(Len(d) + 1)
      /\ Len(d) \in Nat
      /\ \A i \in DOMAIN d : Append(d, f)[i] = d[i]
      /\ Append(d, f)[Len(d) + 1] = f
      /\ \A x \in Sessions : x # r => outDatagram'[x] = outDatagram[x]
  <2>1. outDatagram \in [Sessions -> Seq(Frame)]
    BY DEF TypeOK
  <2> HIDE DEF f
  <2>2. QED
    BY <2>1, <1>f DEF f
<1> HIDE DEF f, d
<1>4. \A i \in DOMAIN Append(d, f) : i \in DOMAIN d \/ i = Len(d) + 1
  BY <1>3
<1>5. ASSUME NEW q \in Sessions, NEW x \in Sessions
      PROVE  /\ seenBelow(q, x, dgm[q].seq + 1)'
             /\ unserved(q, x)' => seenBelow(q, x, dgm[q].seq)'
  <2>1. /\ seenBelow(q, x, dgm[q].seq + 1)
        /\ unserved(q, x) => seenBelow(q, x, dgm[q].seq)
    BY DEF DatagramInv, ReadersKeepUp
  <2>2. dgm'[q].seq = dgm[q].seq /\ (unserved(q, x)' => unserved(q, x))
    BY DEF unserved
  <2>3. CASE x # r
    <3>1. outDatagram'[x] = outDatagram[x] /\ lastDatagram' = lastDatagram
      BY <1>3, <2>3
    <3>2. QED
      BY <2>1, <2>2, <3>1 DEF seenBelow
  <2>4. CASE x = r
    <3>1. lastDatagram' = lastDatagram /\ outDatagram'[x] = Append(d, f)
      BY <1>3, <2>4
    <3>2. q = s => ~ unserved(q, x)'
      BY <2>4 DEF unserved
    <3>3. /\ lastDatagram[r][q] < dgm[q].seq + 1
          /\ \A i \in DOMAIN d : d[i].from = q => d[i].seq < dgm[q].seq + 1
      BY <2>1, <2>4 DEF seenBelow, d
    <3>4. unserved(q, x)' => /\ lastDatagram[r][q] < dgm[q].seq
                             /\ \A i \in DOMAIN d : d[i].from = q => d[i].seq < dgm[q].seq
      BY <2>1, <2>2, <2>4 DEF seenBelow, d
    <3>5. \A i \in DOMAIN Append(d, f) :
            Append(d, f)[i].from = q => Append(d, f)[i].seq < dgm[q].seq + 1
      BY <1>3, <1>4, <1>f, <3>3
    <3>6. unserved(q, x)' => \A i \in DOMAIN Append(d, f) :
            Append(d, f)[i].from = q => Append(d, f)[i].seq < dgm[q].seq
      BY <1>3, <1>4, <1>f, <3>2, <3>4
    <3>7. QED
      BY <2>2, <2>4, <3>1, <3>3, <3>4, <3>5, <3>6 DEF seenBelow
  <2>5. QED
    BY <2>3, <2>4
<1>6. \A q \in Sessions :
        /\ reader'[q] \in {"evict", "push"} => dgm'[q].target \notin dgm'[q].pending
        /\ dgm'[q].seq <= MaxDatagrams[q]
        /\ reader'[q] \in {"publish", "try", "evict", "push"} => dgm'[q].seq >= 1
  BY DEF DatagramInv, ReadersKeepUp
<1>7. QueuesInOrder'
  <2> SUFFICES ASSUME NEW x \in Sessions
               PROVE  /\ InPublishOrder(outDatagram'[x])
                      /\ \A i \in DOMAIN outDatagram'[x] :
                           lastDatagram[x][outDatagram'[x][i].from] < outDatagram'[x][i].seq
    BY DEF QueuesInOrder, InPublishOrder
  <2>0. /\ InPublishOrder(outDatagram[x])
        /\ \A i \in DOMAIN outDatagram[x] :
             lastDatagram[x][outDatagram[x][i].from] < outDatagram[x][i].seq
    BY DEF DatagramInv, QueuesInOrder
  <2>1. CASE x # r
    BY <1>3, <2>0, <2>1
  <2>2. CASE x = r
    <3>1. InPublishOrder(Append(d, f))
      BY <1>2, <1>3, <1>f, <2>0, <2>2, AppendOrdered DEF d
    <3>2. \A i \in DOMAIN Append(d, f) : lastDatagram[r][Append(d, f)[i].from] < Append(d, f)[i].seq
      BY <1>2, <1>3, <1>4, <2>0, <2>2 DEF d
    <3>3. QED
      BY <1>3, <2>2, <3>1, <3>2
  <2>3. QED
    BY <2>1, <2>2
<1>8. QED
  BY <1>2, <1>5, <1>6, <1>7, <1>f DEF DatagramInv, ReadersKeepUp, f, d

-----------------------------------------------------------------------------
(* Every step of the broker is a step of Delivery, or one it does not see.  *)

\* A step that touches neither the stream queues nor a transport, while its
\* control goroutines serve nobody, is none for the stream half of Delivery.
LEMMA StreamsApart ==
  ASSUME TypeOK, StreamInv,
         UNCHANGED <<dueStream, sentStream, lostStream, stFrame, outStream, broken>>,
         \A s \in Sessions : servesNobody(s) /\ (ctxDone'[s] => broken'[s])
  PROVE  StreamInv' /\ UNCHANGED D!streamVars
<1>1. StreamInv'
  BY StreamQuiet
<1>2. \A r \in Sessions : (inHand(r) \o outStream[r])' = inHand(r) \o outStream[r]
  BY DEF inHand
<1>3. UNCHANGED [r \in Sessions |-> inHand(r) \o outStream[r]]
  BY <1>2
<1>4. QED
  BY <1>1, <1>3 DEF D!streamVars

\* So is every step that leaves all control goroutines where they are, too.
LEMMA StreamsIdle ==
  ASSUME TypeOK, StreamInv, UNCHANGED <<controlVars, wireVars, streamVars>>
  PROVE  StreamInv' /\ UNCHANGED D!streamVars
BY StreamsApart DEF controlVars, wireVars, streamVars, servesNobody, StreamInv, Bounded

\* What the implementation has to show of a step.
Refines == StreamInv' /\ DatagramInv' /\ (D!Next \/ UNCHANGED D!vars)

\* A datagramReader's step drops a datagram, takes one over, or is not seen.
LEMMA ReaderRefines ==
  ASSUME TypeOK, StreamInv, DatagramInv, NEW s \in Sessions, ReaderStep(s)
  PROVE  Refines
<1>0. /\ StreamInv' /\ UNCHANGED D!streamVars /\ UNCHANGED lastDatagram
      /\ \A q \in Sessions : q # s => reader'[q] = reader[q] /\ dgm'[q] = dgm[q]
  <2>1. UNCHANGED <<controlVars, wireVars, streamVars>>
    BY DEF ReaderStep, ReaderExits, PublishDatagram, EvictOldest, PushDatagram,
      PublishDatagramReturns, TryEnqueue
  <2>2. UNCHANGED lastDatagram
    BY DEF ReaderStep, ReaderExits, PublishDatagram, EvictOldest, PushDatagram,
      PublishDatagramReturns, TryEnqueue, datagramVars
  <2>3. \A q \in Sessions : q # s => reader'[q] = reader[q] /\ dgm'[q] = dgm[q]
    BY DatagramTypes DEF ReaderStep, ReaderExits, PublishDatagram, EvictOldest,
      PushDatagram, PublishDatagramReturns, TryEnqueue, goReader
  <2>4. QED
    BY <2>1, <2>2, <2>3, StreamsIdle
<1>a. /\ \A q, x \in Sessions : \A n \in Nat :
           UNCHANGED outDatagram => (seenBelow(q, x, n) => seenBelow(q, x, n)')
      /\ UNCHANGED outDatagram => QueuesInOrder'
  BY <1>0 DEF seenBelow, DatagramInv, QueuesInOrder, InPublishOrder
<1>b. UNCHANGED outDatagram => UNCHANGED D!vars
  BY <1>0 DEF D!vars, D!datagramVars
<1>1. CASE ReaderExits(s) \/ PublishDatagram(s) \/ PublishDatagramReturns(s)
  <2>1. DatagramInv'
    BY <1>1, ReaderMoves
  <2>2. UNCHANGED outDatagram
    BY <1>1 DEF ReaderExits, PublishDatagram, PublishDatagramReturns, datagramVars
  <2>3. QED
    BY <1>0, <1>b, <2>1, <2>2 DEF Refines
<1>2. CASE EvictOldest(s)
  <2> DEFINE r == dgm[s].target
  <2>1. /\ r \in Sessions /\ reader[s] = "evict" /\ reader'[s] = "push" /\ dgm' = dgm
    BY <1>2, DatagramTypes DEF EvictOldest, goReader
  <2>2. \A x \in Sessions : unserved(s, x)' => unserved(s, x)
    BY <2>1 DEF unserved
  <2>3. /\ dgm[s].target \notin dgm[s].pending /\ dgm[s].seq >= 1
    BY <2>1 DEF DatagramInv, ReadersKeepUp
  <2>4. CASE outDatagram[r] # <<>> /\ outDatagram' = [outDatagram EXCEPT ![r] = Tail(@)]
    <3>1. /\ \A q, x \in Sessions : \A n \in Nat :
               seenBelow(q, x, n) => seenBelow(q, x, n)'
          /\ QueuesInOrder'
      BY <1>0, <2>1, <2>4, QueueShrinks
    <3>2. DatagramInv'
      BY <1>0, <2>1, <2>2, <2>3, <3>1, ReaderPasses
    <3>3. D!DropDatagram(r)
      BY <1>0, <2>4 DEF D!DropDatagram
    <3>4. QED
      BY <1>0, <2>1, <3>2, <3>3 DEF Refines, D!Next
  <2>5. CASE UNCHANGED outDatagram
    <3>1. DatagramInv'
      BY <1>0, <1>a, <2>1, <2>2, <2>3, <2>5, ReaderPasses
    <3>2. QED
      BY <1>0, <1>b, <2>5, <3>1 DEF Refines
  <2>6. QED
    BY <1>2, <2>4, <2>5 DEF EvictOldest
<1>3. ASSUME NEW r \in Sessions, unserved(s, r), reader[s] \in {"try", "push"},
             reader'[s] = "try", dgm'[s].seq = dgm[s].seq,
             r \notin dgm'[s].pending, dgm'[s].pending \subseteq dgm[s].pending,
             outDatagram' = [outDatagram EXCEPT ![r] = Append(@, dgmFrame(s))]
      PROVE  Refines
  <2>1. /\ DatagramInv' /\ dgmFrame(s) \in Sendable
        /\ D!newerThan(dgmFrame(s), D!elements(outDatagram[r]))
        /\ lastDatagram[r][dgmFrame(s).from] < dgmFrame(s).seq
    BY <1>0, <1>3, ReaderServes
  <2>2. D!AcceptDatagram(r, dgmFrame(s))
    BY <1>0, <1>3, <2>1 DEF D!AcceptDatagram
  <2>3. QED
    BY <1>0, <2>1, <2>2 DEF Refines, D!Next
<1>4. CASE PushDatagram(s)
  <2> DEFINE r == dgm[s].target
  <2>1. /\ r \in Sessions /\ reader[s] = "push" /\ reader'[s] = "try" /\ dgm' = dgm
    BY <1>4, DatagramTypes DEF PushDatagram, goReader
  <2>2. /\ r \notin dgm[s].pending /\ dgm[s].seq >= 1 /\ unserved(s, r)
    BY <2>1 DEF DatagramInv, ReadersKeepUp, unserved
  <2>3. CASE outDatagram' = [outDatagram EXCEPT ![r] = Append(@, dgmFrame(s))]
    BY <1>3, <2>1, <2>2, <2>3
  <2>4. CASE UNCHANGED outDatagram
    <3>1. \A x \in Sessions : unserved(s, x)' => unserved(s, x)
      BY <2>1 DEF unserved
    <3>2. DatagramInv'
      BY <1>0, <1>a, <2>1, <2>2, <2>4, <3>1, ReaderPasses
    <3>3. QED
      BY <1>0, <1>b, <2>4, <3>2 DEF Refines
  <2>5. QED
    BY <1>4, <2>3, <2>4 DEF PushDatagram
<1>5. ASSUME NEW r \in Sessions, TryEnqueue(s, r) PROVE Refines
  <2>1. /\ reader[s] = "try" /\ r \in dgm[s].pending
        /\ dgm'[s].pending = dgm[s].pending \ {r} /\ dgm'[s].target = r
        /\ dgm'[s].seq = dgm[s].seq
    <3>1. dgm[s] \in DgmState
      BY DatagramTypes
    <3>2. dgm'[s] = [dgm[s] EXCEPT !.pending = dgm[s].pending \ {r}, !.target = r]
      BY <1>5, DatagramTypes DEF TryEnqueue
    <3>3. QED
      BY <1>5, <3>1, <3>2 DEF TryEnqueue, DgmState
  <2>2. unserved(s, r) /\ dgm[s].seq >= 1
    BY <2>1 DEF unserved, DatagramInv, ReadersKeepUp
  <2>3. CASE /\ outDatagram' = [outDatagram EXCEPT ![r] = Append(@, dgmFrame(s))]
             /\ UNCHANGED reader
    BY <1>3, <2>1, <2>2, <2>3
  <2>4. CASE reader' = [reader EXCEPT ![s] = "evict"] /\ UNCHANGED outDatagram
    <3>1. reader'[s] = "evict"
      BY <2>4, DatagramTypes
    <3>2. \A x \in Sessions : unserved(s, x)' => unserved(s, x)
      BY <2>1, <3>1 DEF unserved
    <3>3. DatagramInv'
      BY <1>0, <1>a, <2>1, <2>2, <2>4, <3>1, <3>2, ReaderPasses
    <3>4. QED
      BY <1>0, <1>b, <2>4, <3>3 DEF Refines
  <2>5. QED
    BY <1>5, <2>3, <2>4 DEF TryEnqueue
<1>6. QED
  BY <1>1, <1>2, <1>4, <1>5 DEF ReaderStep

\* A datagramWriter's step gives a datagram, drops one, or is not seen.
LEMMA DatagramWriterRefines ==
  ASSUME TypeOK, StreamInv, DatagramInv, NEW s \in Sessions, DatagramWriterStep(s)
  PROVE  Refines
<1>0. /\ StreamInv' /\ UNCHANGED D!streamVars /\ UNCHANGED <<reader, dgm>>
  <2>1. UNCHANGED <<controlVars, wireVars, streamVars, reader, dgm>>
    BY DEF DatagramWriterStep, SendDatagram, DatagramWriterDone, readerVars
  <2>2. QED
    BY <2>1, StreamsIdle
<1>1. CASE DatagramWriterDone(s)
  <2>1. UNCHANGED <<outDatagram, lastDatagram>>
    BY <1>1 DEF DatagramWriterDone
  <2>2. QED
    BY <1>0, <2>1, DatagramQuiet DEF Refines, D!vars, D!datagramVars
<1>2. CASE SendDatagram(s)
  <2> DEFINE f == Head(outDatagram[s])
  <2>1. /\ outDatagram[s] # <<>> /\ outDatagram' = [outDatagram EXCEPT ![s] = Tail(@)]
        /\ \/ lastDatagram' = [lastDatagram EXCEPT ![s][f.from] = f.seq]
           \/ UNCHANGED lastDatagram
    BY <1>2 DEF SendDatagram
  <2>2. /\ \A q, x \in Sessions : \A n \in Nat : seenBelow(q, x, n) => seenBelow(q, x, n)'
        /\ QueuesInOrder'
    BY <2>1, QueueShrinks
  <2>3. DatagramInv'
    <3>1. \A x \in Sessions : unserved(s, x)' => unserved(s, x)
      BY <1>0 DEF unserved
    <3>2. /\ reader[s] \in {"evict", "push"} => dgm[s].target \notin dgm[s].pending
          /\ reader[s] \in {"publish", "try", "evict", "push"} => dgm[s].seq >= 1
      BY DEF DatagramInv, ReadersKeepUp
    <3>3. QED
      BY <1>0, <2>2, <3>1, <3>2, ReaderPasses
  <2>4. D!GiveDatagram(s) \/ D!DropDatagram(s)
    BY <1>0, <2>1 DEF D!GiveDatagram, D!DropDatagram
  <2>5. QED
    BY <1>0, <2>3, <2>4 DEF Refines, D!Next
<1>3. QED
  BY <1>1, <1>2 DEF DatagramWriterStep

\* A streamWriter's step gives a frame, refuses one, or is not seen.
LEMMA StreamWriterRefines ==
  ASSUME TypeOK, StreamInv, DatagramInv, NEW s \in Sessions, StreamWriterStep(s)
  PROVE  Refines
<1>0. UNCHANGED <<reader, dgm, outDatagram, lastDatagram>>
  BY DEF StreamWriterStep, StreamTake, StreamWritten, StreamWriteFails,
    StreamWriterDone, readerVars, datagramVars
<1>1. DatagramInv'
  BY <1>0, DatagramQuiet
<1>2. CASE StreamTake(s) \/ StreamWritten(s) \/ StreamWriteFails(s)
  BY <1>1, <1>2, WriterGives DEF Refines, D!Next
<1>3. CASE StreamWriterDone(s)
  <2>1. /\ UNCHANGED <<dueStream, sentStream, lostStream, stFrame, outStream, broken>>
        /\ UNCHANGED <<control, ctl, ctxDone>>
    BY <1>3 DEF StreamWriterDone, controlVars, wireVars
  <2>2. StreamInv' /\ UNCHANGED D!streamVars
    BY <2>1, StreamsApart DEF servesNobody, StreamInv, Bounded
  <2>3. QED
    BY <1>0, <1>1, <2>2 DEF Refines, D!vars, D!datagramVars
<1>4. QED
  BY <1>2, <1>3 DEF StreamWriterStep

\* A control goroutine that serves nobody is not seen, or its session dies.
LEMMA ControlQuiet ==
  ASSUME TypeOK, StreamInv, DatagramInv, NEW s \in Sessions,
         UNCHANGED <<dueStream, sentStream, lostStream, stFrame, outStream>>,
         UNCHANGED <<reader, dgm, outDatagram, lastDatagram>>,
         \A q \in Sessions : servesNobody(q) /\ (ctxDone'[q] => broken'[q]),
         broken' \in {broken, [broken EXCEPT ![s] = TRUE]}
  PROVE  Refines
<1>1. DatagramInv'
  BY DatagramQuiet
<1>2. \A q \in Sessions : broken[q] => broken'[q]
  BY DEF TypeOK
<1>3. StreamInv'
  BY <1>2, StreamQuiet
<1>4. UNCHANGED [r \in Sessions |-> inHand(r) \o outStream[r]]
  <2>1. \A r \in Sessions : (inHand(r) \o outStream[r])' = inHand(r) \o outStream[r]
    BY DEF inHand
  <2>2. QED
    BY <2>1
<1>5. CASE broken' = broken
  BY <1>1, <1>3, <1>4, <1>5 DEF Refines, D!vars, D!streamVars, D!datagramVars
<1>6. CASE broken' = [broken EXCEPT ![s] = TRUE]
  <2>1. D!Die(s)
    BY <1>4, <1>6 DEF D!Die, D!datagramVars
  <2>2. QED
    BY <1>1, <1>3, <2>1 DEF Refines, D!Next
<1>7. QED
  BY <1>5, <1>6

\* A control goroutine's step addresses a frame, has one accepted, lets the
\* session die, or is not seen.
LEMMA ControlRefines ==
  ASSUME TypeOK, StreamInv, DatagramInv, NEW s \in Sessions, ControlStep(s)
  PROVE  Refines
<1>0. UNCHANGED <<reader, dgm, outDatagram, lastDatagram>>
  BY DEF ControlStep, AcceptFails, BrokerSubscribe, BrokerUnsubscribe, Publish,
    PublishReturns, Cleanup, CloseSession, EnqueueStream, readerVars, datagramVars
<1>1. DatagramInv'
  BY <1>0, DatagramQuiet
<1>2. CASE Publish(s)
  <2>1. StreamInv' /\ D!Address(ctlFrame(s), topics[ctl[s].topic])
    BY <1>2, PublishAddresses
  <2>2. ctlFrame(s) \in Sendable /\ topics[ctl[s].topic] \in SUBSET Sessions
    <3>1. ctl[s].topic \in Topics
      BY DEF TypeOK, CtlState
    <3>2. QED
      BY <1>2, <3>1, FrameIsSendable DEF Publish, goControl, TypeOK
  <2>3. QED
    BY <1>1, <2>1, <2>2 DEF Refines, D!Next
<1>3. ASSUME NEW r \in Sessions, EnqueueStream(s, r) PROVE Refines
  <2>1. StreamInv' /\ (D!Accept(r, ctlFrame(s)) \/ UNCHANGED D!vars)
    BY <1>3, EnqueueAccepts
  <2>2. ctlFrame(s) \in Sendable
    BY <1>3, FrameIsSendable DEF EnqueueStream
  <2>3. D!Accept(r, ctlFrame(s)) => D!Next
    BY <1>3, <2>2 DEF D!Next, D!Accept
  <2>4. QED
    BY <1>1, <2>1, <2>3 DEF Refines
<1>4. CASE \/ AcceptFails(s) \/ BrokerSubscribe(s) \/ BrokerUnsubscribe(s)
           \/ PublishReturns(s) \/ Cleanup(s) \/ CloseSession(s)
  <2>1. /\ UNCHANGED <<dueStream, sentStream, lostStream, stFrame, outStream>>
        /\ UNCHANGED ctl
        /\ control[s] = "enqueue" => PublishReturns(s)
        /\ control[s] # "publish"
        /\ control'[s] \notin {"publish", "enqueue"}
        /\ \A q \in Sessions : q # s => control'[q] = control[q]
    BY <1>4 DEF AcceptFails, BrokerSubscribe, BrokerUnsubscribe, PublishReturns,
      Cleanup, CloseSession, goControl, streamVars, TypeOK
  <2>2. \A q \in Sessions : servesNobody(q)
    BY <2>1 DEF servesNobody, PublishReturns, goControl, TypeOK
  <2>3. broken' \in {broken, [broken EXCEPT ![s] = TRUE]}
    BY <1>4 DEF AcceptFails, BrokerSubscribe, BrokerUnsubscribe, PublishReturns,
      Cleanup, CloseSession, wireVars
  <2>4. \A q \in Sessions : ctxDone'[q] => broken'[q]
    BY <1>4 DEF AcceptFails, BrokerSubscribe, BrokerUnsubscribe, PublishReturns,
      Cleanup, CloseSession, wireVars, StreamInv, Bounded, TypeOK
  <2>5. QED
    BY <1>0, <2>1, <2>2, <2>3, <2>4, ControlQuiet
<1>5. QED
  BY <1>2, <1>3, <1>4 DEF ControlStep

\* What clients and the network do is not seen, except that a transport dies.
LEMMA EnvironmentRefines ==
  ASSUME TypeOK, StreamInv, DatagramInv, NEW s \in Sessions, Environment(s)
  PROVE  Refines
<1>1. ASSUME NEW t \in PubTopics, ReceiveDatagram(s, t) PROVE Refines
  <2>1. StreamInv' /\ UNCHANGED D!streamVars
    BY <1>1, StreamsIdle DEF ReceiveDatagram
  <2>2. DatagramInv'
    BY <1>1, SomeTopics, ReaderMoves
  <2>3. UNCHANGED <<outDatagram, lastDatagram>>
    BY <1>1 DEF ReceiveDatagram, datagramVars
  <2>4. QED
    BY <2>1, <2>2, <2>3 DEF Refines, D!vars, D!datagramVars
<1>2. CASE Upgrade(s)
  <2>1. /\ UNCHANGED <<dueStream, sentStream, lostStream, stFrame, outStream, broken, ctxDone>>
        /\ UNCHANGED <<ctl, dgm, outDatagram, lastDatagram>>
        /\ control[s] = "new" /\ control' = [control EXCEPT ![s] = "accept"]
        /\ reader' = [reader EXCEPT ![s] = "receive"]
    BY <1>2 DEF Upgrade, goControl, wireVars
  <2>2. \A q \in Sessions : servesNobody(q)
    BY <2>1 DEF servesNobody, TypeOK
  <2>3. StreamInv' /\ UNCHANGED D!streamVars
    BY <2>1, <2>2, StreamsApart DEF StreamInv, Bounded
  <2>4. DatagramInv'
    <3>1. reader'[s] = "receive" /\ \A q \in Sessions : q # s => reader'[q] = reader[q]
      BY <2>1, DatagramTypes
    <3>2. \A x \in Sessions : unserved(s, x)' => unserved(s, x)
      BY <3>1 DEF unserved
    <3>3. /\ \A q, x \in Sessions : \A n \in Nat :
               seenBelow(q, x, n) => seenBelow(q, x, n)'
          /\ QueuesInOrder'
      BY <2>1 DEF seenBelow, DatagramInv, QueuesInOrder, InPublishOrder
    <3>4. QED
      BY <2>1, <3>1, <3>2, <3>3, ReaderPasses
  <2>5. QED
    BY <2>1, <2>3, <2>4 DEF Refines, D!vars, D!datagramVars
<1>3. ASSUME \/ AcceptControl(s) \/ ReadControlEnds(s) \/ ReceiveBadDatagram(s)
             \/ TransportBreaks(s) \/ ContextEnds(s)
             \/ \E t \in Topics : ReadSub(s, t) \/ ReadUnsub(s, t)
             \/ \E t \in PubTopics : ReadPub(s, t)
      PROVE  Refines
  <2>1. /\ UNCHANGED <<dueStream, sentStream, lostStream, stFrame, outStream>>
        /\ UNCHANGED <<reader, dgm, outDatagram, lastDatagram>>
    BY <1>3 DEF AcceptControl, ReadControlEnds, ReceiveBadDatagram, TransportBreaks,
      ContextEnds, ReadSub, ReadUnsub, ReadPub, streamVars, readerVars, datagramVars
  <2>2. broken' \in {broken, [broken EXCEPT ![s] = TRUE]}
    BY <1>3 DEF AcceptControl, ReadControlEnds, ReceiveBadDatagram, TransportBreaks,
      ContextEnds, ReadSub, ReadUnsub, ReadPub, wireVars
  <2>3. \A q \in Sessions : ctxDone'[q] => broken'[q]
    BY <1>3 DEF AcceptControl, ReadControlEnds, ReceiveBadDatagram, TransportBreaks,
      ContextEnds, ReadSub, ReadUnsub, ReadPub, wireVars, StreamInv, Bounded, TypeOK
  <2>4. \A q \in Sessions : servesNobody(q)
    <3>t. ctl \in [Sessions -> CtlState] /\ control \in [Sessions -> Control]
      BY DEF TypeOK
    <3>1. CASE \/ AcceptControl(s) \/ ReadControlEnds(s) \/ ReceiveBadDatagram(s)
               \/ TransportBreaks(s) \/ ContextEnds(s)
      BY <3>1, <3>t DEF AcceptControl, ReadControlEnds, ReceiveBadDatagram,
        TransportBreaks, ContextEnds, controlVars, goControl, servesNobody
    <3>2. ASSUME NEW t \in Topics, ReadSub(s, t) \/ ReadUnsub(s, t)
          PROVE  \A q \in Sessions : servesNobody(q)
      <4>1. /\ ctl' = [ctl EXCEPT ![s].topic = t] /\ control[s] = "control"
            /\ control'[s] \in {"subscribe", "unsubscribe"}
            /\ \A q \in Sessions : q # s => control'[q] = control[q]
        BY <3>2, <3>t DEF ReadSub, ReadUnsub, goControl
      <4>2. ctl'[s].seq = ctl[s].seq /\ \A q \in Sessions : q # s => ctl'[q] = ctl[q]
        BY <4>1, <3>t DEF CtlState
      <4>3. QED
        BY <4>1, <4>2 DEF servesNobody
    <3>3. ASSUME NEW t \in PubTopics, ReadPub(s, t)
          PROVE  \A q \in Sessions : servesNobody(q)
      <4>1. /\ ctl'[s] = [ctl[s] EXCEPT !.topic = t, !.seq = ctl[s].seq + 1]
            /\ control[s] = "control" /\ control'[s] = "publish"
            /\ ctl[s].seq < MaxStreamPubs[s]
            /\ \A q \in Sessions : q # s => control'[q] = control[q] /\ ctl'[q] = ctl[q]
        BY <3>3, <3>t DEF ReadPub, goControl
      <4>2. ctl'[s].seq = ctl[s].seq + 1
        BY <4>1, <3>t DEF CtlState
      <4>3. QED
        BY <4>1, <4>2 DEF servesNobody
    <3>4. QED
      BY <1>3, <3>1, <3>2, <3>3
  <2>5. QED
    BY <2>1, <2>2, <2>3, <2>4, ControlQuiet
<1>4. QED
  BY <1>1, <1>2, <1>3 DEF Environment

\* The invariants of both surfaces hold at the start, and every step of the
\* broker keeps them and refines Delivery.
LEMMA DeliveryRefined ==
  /\ Init => StreamInv /\ DatagramInv /\ D!Init
  /\ TypeOK /\ StreamInv /\ DatagramInv /\ [Next]_vars => Refines
<1>1. ASSUME Init PROVE StreamInv /\ DatagramInv /\ D!Init
  <2>1. /\ \A s \in Sessions : /\ dueStream[s] = {} /\ lostStream[s] = {}
                               /\ sentStream[s] = <<>> /\ outStream[s] = <<>>
                               /\ outDatagram[s] = <<>> /\ inHand(s) = <<>>
                               /\ control[s] = "new" /\ reader[s] = "off"
                               /\ ctl[s].seq = 0 /\ dgm[s].seq = 0 /\ ~ ctxDone[s]
        /\ \A r, s \in Sessions : lastDatagram[r][s] = 0
    BY <1>1 DEF Init, inHand
  <2>2. D!elements(<<>>) = {} /\ InPublishOrder(<<>>) /\ <<>> \o (<<>> \o <<>>) = <<>>
        /\ <<>> \o <<>> = <<>>
    BY DEF D!elements, InPublishOrder
  <2>3. \A r \in Sessions : D!carried(r) = {}
    BY <2>1, <2>2, CarriedIs
  <2>4. StreamInv
    <3>1. Bounded /\ PublishersWait /\ OwedIsNew
      BY <2>1, BoundsNatural DEF Bounded, PublishersWait, OwedIsNew, owing
    <3>2. \A r \in Sessions :
            sentStream[r] \o (inHand(r) \o outStream[r]) = <<>>
      BY <2>1, <2>2
    <3>3. CarriedInOrder
      BY <2>1, <2>2, <2>3, <3>2 DEF CarriedInOrder
    <3>4. QED
      BY <3>1, <3>3 DEF StreamInv
  <2>5. DatagramInv
    BY <2>1, <2>2, BoundsNatural DEF DatagramInv, ReadersKeepUp, QueuesInOrder,
      seenBelow, unserved
  <2>6. D!Init
    <3> SUFFICES ASSUME NEW r \in Sessions
                 PROVE  /\ D!InPublishOrder(sentStream[r] \o (inHand(r) \o outStream[r]))
                        /\ D!InPublishOrder(outDatagram[r])
                        /\ D!carried(r) \subseteq dueStream[r]
                        /\ \A i \in DOMAIN outDatagram[r] :
                             lastDatagram[r][outDatagram[r][i].from] < outDatagram[r][i].seq
      BY DEF D!Init
    <3>1. sentStream[r] \o (inHand(r) \o outStream[r]) = <<>> /\ outDatagram[r] = <<>>
      BY <2>1, <2>2
    <3>2. D!InPublishOrder(<<>>)
      BY DEF D!InPublishOrder
    <3>3. QED
      BY <2>1, <2>3, <3>1, <3>2
  <2>7. QED
    BY <2>4, <2>5, <2>6
<1>2. ASSUME TypeOK, StreamInv, DatagramInv, [Next]_vars PROVE Refines
  <2>1. CASE UNCHANGED vars
    <3>1. StreamInv' /\ UNCHANGED D!streamVars
      BY <1>2, <2>1, StreamsIdle DEF vars
    <3>2. UNCHANGED <<reader, dgm, outDatagram, lastDatagram>>
      BY <2>1 DEF vars, readerVars, datagramVars
    <3>3. QED
      BY <1>2, <3>1, <3>2, DatagramQuiet DEF Refines, D!vars, D!datagramVars
  <2>2. CASE Next
    BY <1>2, <2>2, ControlRefines, ReaderRefines, DatagramWriterRefines,
      StreamWriterRefines, EnvironmentRefines DEF Next
  <2>3. QED
    BY <1>2, <2>1, <2>2
<1>3. QED
  BY <1>1, <1>2

\* For every number of sessions, topics and frames and every depth of the queues,
\* the broker implements Delivery: per publisher and subscriber both surfaces are
\* in order and without repetition, and no publisher of stream frames leaves a
\* live subscriber behind.
THEOREM BrokerImplementsDelivery == Spec => ImplementsDelivery
<1>1. Spec => D!Init
  BY DeliveryRefined DEF Spec
<1>2. Spec => [](StreamInv /\ DatagramInv)
  BY DeliveryRefined, TypeCorrect, PTL DEF Spec, Refines
<1>3. TypeOK /\ StreamInv /\ DatagramInv /\ [Next]_vars => [D!Next]_(D!vars)
  BY DeliveryRefined DEF Refines
<1>4. QED
  BY <1>1, <1>2, <1>3, TypeCorrect, PTL DEF Spec, ImplementsDelivery, D!Spec

\* For every number of publishers and whatever their interleaving: what a session
\* was given on streams, holds in hand and has queued is in publish order.
THEOREM StreamsAreFIFO == Spec => []StreamFIFO
<1>1. TypeOK /\ StreamInv => StreamFIFO
  <2> SUFFICES ASSUME TypeOK, StreamInv, NEW r \in Sessions
               PROVE  InPublishOrder(sentStream[r] \o inHand(r) \o outStream[r])
    BY DEF StreamFIFO
  <2>1. /\ sentStream[r] \in Seq(Frame) /\ inHand(r) \in Seq(Frame)
        /\ outStream[r] \in Seq(Frame)
    BY DEF TypeOK, inHand
  <2>2. sentStream[r] \o inHand(r) \o outStream[r]
          = sentStream[r] \o (inHand(r) \o outStream[r])
    <3>1. \A a, b, c \in Seq(Frame) : (a \o b) \o c = a \o (b \o c)
      OBVIOUS
    <3>2. QED
      BY <2>1, <3>1
  <2>3. QED
    BY <2>2 DEF StreamInv, CarriedInOrder
<1>2. Spec => [](StreamInv /\ DatagramInv)
  BY DeliveryRefined, TypeCorrect, PTL DEF Spec, Refines
<1>3. QED
  BY <1>1, <1>2, TypeCorrect, PTL

=============================================================================
