------------------------- MODULE PubSubClientProofs -------------------------
(***************************************************************************)
(* What holds of a pubsub session of the client for every number of        *)
(* delivery streams and frames and every depth of its two channels: the    *)
(* channels keep their capacity, and every message of a source reaches the *)
(* subscriber in order and once, all of them while the session lives.      *)
(***************************************************************************)
EXTENDS PubSubClient, SequenceTheorems, TLAPS

\* A stream is in uniQueue at most once, and nobody reads it yet.
QueuedOnce ==
  /\ \A i \in 1..Len(uniQueue) : source[uniQueue[i]] = "queued"
  /\ \A i, j \in 1..Len(uniQueue) : uniQueue[i] = uniQueue[j] => i = j

\* A message in the channel, or received, was read before the one its reader
\* has in its hands now.
Passed ==
  /\ \A x \in Sources : waiting(x) <= frames[x]
  /\ \A i \in 1..Len(messages) :
       /\ messages[i] \in Sources \X Nat
       /\ messages[i][2] >= 1
       /\ messages[i][2] <= frames[messages[i][1]] - waiting(messages[i][1])

\* While the session lives every one of them got that far.
NoneMissing ==
  ~ ctxDone =>
    \A x \in Sources : \A n \in 1..(frames[x] - waiting(x)) :
      \E i \in 1..Len(messages) : messages[i] = <<x, n>>

InOrder ==
  \A i, j \in 1..Len(messages) :
    i < j /\ messages[i][1] = messages[j][1] => messages[i][2] < messages[j][2]

SessionInv == TypeOK /\ QueuedOnce /\ Passed /\ NoneMissing /\ InOrder

LEMMA SourceFacts ==
  /\ Streams \subseteq Sources /\ Datagrams \in Sources /\ Datagrams \notin Streams
  /\ QueueDepth \in Nat /\ QueueDepth >= 1 /\ IncomingDepth \in Nat /\ IncomingDepth >= 1
  /\ \A x \in Sources : framesOf(x) \in Nat
BY Parameters DEF Sources, framesOf

LEMMA SessionStarts == Init => SessionInv
<1> SUFFICES ASSUME Init PROVE SessionInv
  OBVIOUS
<1> USE SourceFacts
<1>1. TypeOK
  <2>1. source \in [Sources -> {"none", "found", "enqueueing", "queued", "read", "deliver",
                                "delivering", "gone"}]
    BY DEF Init
  <2>2. frames \in [Sources -> Nat] /\ \A x \in Sources : frames[x] <= framesOf(x)
    BY DEF Init
  <2>3. uniQueue = <<>> /\ incoming = <<>> /\ received = <<>>
    BY DEF Init
  <2>4. /\ registered \in BOOLEAN /\ ctxDone \in BOOLEAN /\ uniClosed \in BOOLEAN
        /\ incClosed \in BOOLEAN /\ panicked \in BOOLEAN
        /\ closing = "open" /\ acceptor = "accept" /\ consumer = "run"
    BY DEF Init
  <2>5. QED
    BY <2>1, <2>2, <2>3, <2>4 DEF TypeOK
<1>2. messages = <<>> /\ \A x \in Sources : frames[x] = 0 /\ waiting(x) = 0
  BY DEF Init, messages, waiting
<1>3. Passed /\ NoneMissing /\ InOrder
  BY <1>2 DEF Passed, NoneMissing, InOrder
<1>4. QueuedOnce
  BY DEF Init, QueuedOnce
<1>5. QED
  BY <1>1, <1>3, <1>4 DEF SessionInv

-----------------------------------------------------------------------------
(* How a step may move the messages                                        *)

Sequenced == Passed /\ NoneMissing /\ InOrder

LEMMA WaitingType == \A x : waiting(x) \in {0, 1}
BY DEF waiting

\* No message moves past the readers.  A reader may take a frame from its
\* source, and once the session is over drop the one it has.
LEMMA HandsMove ==
  ASSUME TypeOK, TypeOK', Sequenced, messages' = messages, ctxDone => ctxDone',
         \A x \in Sources : /\ waiting(x)' <= frames'[x]
                            /\ frames[x] - waiting(x) <= frames'[x] - waiting(x)'
                            /\ ~ ctxDone' => frames[x] - waiting(x) = frames'[x] - waiting(x)'
  PROVE  Sequenced'
<1>1. \A x \in Sources : /\ frames[x] \in Nat /\ frames'[x] \in Nat
                         /\ waiting(x) \in {0, 1} /\ waiting(x)' \in {0, 1}
  BY WaitingType DEF TypeOK, waiting
<1>2. Passed'
  <2>1. (\A x \in Sources : waiting(x) <= frames[x])'
    OBVIOUS
  <2>2. ASSUME NEW i \in 1..Len(messages)
        PROVE  /\ messages'[i] \in Sources \X Nat
               /\ messages'[i][2] >= 1
               /\ messages'[i][2] <= frames'[messages'[i][1]] - waiting(messages[i][1])'
    <3>1. PICK x \in Sources, n \in Nat : messages[i] = <<x, n>>
      BY DEF Sequenced, Passed
    <3>2. messages[i][1] = x /\ messages[i][2] = n
      BY <3>1
    <3>3. n >= 1 /\ n <= frames[x] - waiting(x)
      BY <3>2 DEF Sequenced, Passed
    <3>4. n <= frames'[x] - waiting(x)'
      BY <3>3, <1>1
    <3>5. messages'[i][1] = x /\ messages'[i][2] = n /\ messages'[i] \in Sources \X Nat
      BY <3>1
    <3>6. frames'[messages'[i][1]] = frames'[x] /\ waiting(messages[i][1])' = waiting(x)'
      BY <3>5 DEF waiting
    <3>7. QED
      BY <3>3, <3>4, <3>5, <3>6
  <2>3. QED
    BY <2>1, <2>2 DEF Passed
<1>3. NoneMissing'
  <2> SUFFICES ASSUME ~ ctxDone', NEW x \in Sources, NEW n \in 1..(frames'[x] - waiting(x)')
               PROVE  \E i \in 1..Len(messages) : messages[i] = <<x, n>>
    BY DEF NoneMissing
  <2>1. n \in 1..(frames[x] - waiting(x)) /\ ~ ctxDone
    OBVIOUS
  <2>2. QED
    BY <2>1 DEF Sequenced, NoneMissing
<1>4. InOrder'
  BY DEF Sequenced, InOrder
<1>5. QED
  BY <1>2, <1>3, <1>4 DEF Sequenced

\* The reader of x puts the frame it has on the channel.
LEMMA Delivers ==
  ASSUME TypeOK, TypeOK', Sequenced, NEW x \in Sources,
         messages \in Seq(Sources \X Nat),
         messages' = Append(messages, <<x, frames[x]>>),
         frames' = frames, ctxDone' = ctxDone, waiting(x) = 1, waiting(x)' = 0,
         \A y \in Sources : y # x => waiting(y)' = waiting(y)
  PROVE  Sequenced'
<1> DEFINE k == Len(messages)
<1>1. /\ k \in Nat /\ Len(messages') = k + 1
      /\ \A i \in 1..k : messages'[i] = messages[i]
      /\ messages'[k + 1] = <<x, frames[x]>>
  OBVIOUS
<1>2. \A y \in Sources : frames[y] \in Nat /\ waiting(y) \in {0, 1} /\ waiting(y)' \in {0, 1}
  BY WaitingType DEF TypeOK, waiting
<1>3. frames[x] >= 1
  BY <1>2 DEF Sequenced, Passed
<1>4. ASSUME NEW i \in 1..k
      PROVE  /\ messages[i] \in Sources \X Nat
             /\ messages[i][1] \in Sources /\ messages[i][2] \in Nat
             /\ messages[i][2] >= 1
             /\ messages[i][2] <= frames[messages[i][1]] - waiting(messages[i][1])
  BY <1>4 DEF Sequenced, Passed
<1> HIDE DEF k
<1>5. Passed'
  <2>1. (\A y \in Sources : waiting(y) <= frames[y])'
    BY <1>2, <1>3 DEF Sequenced, Passed
  <2>2. ASSUME NEW i \in 1..(k + 1)
        PROVE  /\ messages'[i] \in Sources \X Nat
               /\ messages'[i][2] >= 1
               /\ messages'[i][2] <= frames'[messages'[i][1]] - waiting(messages[i][1])'
    <3>1. CASE i \in 1..k
      <4>1. PICK y \in Sources, n \in Nat : messages[i] = <<y, n>>
        BY <3>1, <1>4
      <4>2. messages[i][1] = y /\ messages[i][2] = n
        BY <4>1
      <4>3. n >= 1 /\ n <= frames[y] - waiting(y)
        BY <4>2, <3>1, <1>4
      <4>4. n <= frames'[y] - waiting(y)'
        BY <4>3, <1>2
      <4>5. messages'[i][1] = y /\ messages'[i][2] = n /\ messages'[i] \in Sources \X Nat
        BY <4>1, <3>1, <1>1
      <4>6. frames'[messages'[i][1]] = frames'[y] /\ waiting(messages[i][1])' = waiting(y)'
        BY <4>5 DEF waiting
      <4>7. QED
        BY <4>3, <4>4, <4>5, <4>6
    <3>2. CASE i = k + 1
      <4>1. /\ messages'[i][1] = x /\ messages'[i][2] = frames[x]
            /\ messages'[i] \in Sources \X Nat
        BY <3>2, <1>1, <1>2
      <4>2. frames'[messages'[i][1]] = frames[x] /\ waiting(messages[i][1])' = waiting(x)'
        BY <4>1 DEF waiting
      <4>3. frames[x] >= 1 /\ frames[x] <= frames[x] - waiting(x)'
        BY <1>2, <1>3
      <4>4. QED
        BY <4>1, <4>2, <4>3
    <3>3. QED
      BY <3>1, <3>2, <1>1
  <2>3. QED
    BY <2>1, <2>2, <1>1 DEF Passed
<1>6. NoneMissing'
  <2> SUFFICES ASSUME ~ ctxDone, NEW y \in Sources, NEW n \in 1..(frames[y] - waiting(y)')
               PROVE  \E i \in 1..(k + 1) : messages'[i] = <<y, n>>
    BY <1>1 DEF NoneMissing
  <2>1. CASE y = x /\ n = frames[x]
    BY <2>1, <1>1
  <2>2. CASE ~ (y = x /\ n = frames[x])
    <3>1. n \in 1..(frames[y] - waiting(y))
      BY <2>2, <1>2
    <3>2. PICK i \in 1..k : messages[i] = <<y, n>>
      BY <3>1 DEF Sequenced, NoneMissing, k
    <3>3. i \in 1..(k + 1) /\ messages'[i] = <<y, n>>
      BY <3>2, <1>1
    <3>4. QED
      BY <3>3
  <2>3. QED
    BY <2>1, <2>2
<1>7. InOrder'
  <2> SUFFICES ASSUME NEW i \in 1..(k + 1), NEW j \in 1..(k + 1), i < j,
                      messages'[i][1] = messages'[j][1]
               PROVE  messages'[i][2] < messages'[j][2]
    BY <1>1 DEF InOrder
  <2>1. i \in 1..k /\ messages'[i] = messages[i]
    BY <1>1
  <2>2. CASE j \in 1..k
    <3>1. messages'[j] = messages[j]
      BY <2>2, <1>1
    <3>2. messages[i][1] = messages[j][1]
      BY <3>1, <2>1
    <3>3. messages[i][2] < messages[j][2]
      BY <3>2, <2>1, <2>2 DEF Sequenced, InOrder, k
    <3>4. QED
      BY <3>1, <3>3, <2>1
  <2>3. CASE j = k + 1
    <3>1. messages[i][1] = x
      BY <2>1, <2>3, <1>1
    <3>2. messages[i][2] <= frames[x] - 1 /\ messages[i][2] \in Nat
      BY <3>1, <2>1, <1>4
    <3>3. QED
      BY <3>2, <2>1, <2>3, <1>1, <1>2
  <2>4. j \in 1..k \/ j = k + 1
    BY <1>1
  <2>5. QED
    BY <2>2, <2>3, <2>4
<1>8. QED
  BY <1>5, <1>6, <1>7 DEF Sequenced

-----------------------------------------------------------------------------
(* The steps                                                               *)

\* A step that only says where the goroutine of x is, and not in the queue.
LEMMA QueueKept ==
  ASSUME TypeOK, QueuedOnce, NEW x \in Sources, NEW label,
         source' = [source EXCEPT ![x] = label], uniQueue' = uniQueue, source[x] # "queued"
  PROVE  QueuedOnce'
BY SourceFacts DEF TypeOK, QueuedOnce

LEMMA QueueGrows ==
  ASSUME TypeOK, QueuedOnce, NEW s \in Streams, source[s] # "queued",
         source' = [source EXCEPT ![s] = "queued"], uniQueue' = Append(uniQueue, s)
  PROVE  QueuedOnce'
<1>1. /\ Len(uniQueue) \in Nat /\ Len(uniQueue') = Len(uniQueue) + 1
      /\ \A i \in 1..Len(uniQueue) : uniQueue'[i] = uniQueue[i] /\ uniQueue[i] \in Streams
      /\ uniQueue'[Len(uniQueue) + 1] = s
  BY DEF TypeOK
<1>2. \A i \in 1..Len(uniQueue) : uniQueue[i] # s
  BY DEF QueuedOnce
<1>3. /\ source'[s] = "queued"
      /\ \A x \in Streams : x # s => source'[x] = source[x]
  BY SourceFacts DEF TypeOK
<1>4. \A i \in 1..(Len(uniQueue) + 1) : source'[uniQueue'[i]] = "queued"
  BY <1>1, <1>3 DEF QueuedOnce
<1>5. \A i, j \in 1..(Len(uniQueue) + 1) : uniQueue'[i] = uniQueue'[j] => i = j
  BY <1>1, <1>2 DEF QueuedOnce
<1>6. QED
  BY <1>1, <1>4, <1>5 DEF QueuedOnce

LEMMA QueueShrinks ==
  ASSUME TypeOK, QueuedOnce, uniQueue # <<>>, uniQueue' = Tail(uniQueue),
         source' = [source EXCEPT ![Head(uniQueue)] = "read"]
  PROVE  QueuedOnce' /\ Head(uniQueue) \in Sources /\ source[Head(uniQueue)] = "queued"
<1>1. /\ Len(uniQueue) \in Nat /\ Len(uniQueue) >= 1 /\ Len(uniQueue') = Len(uniQueue) - 1
      /\ \A i \in 1..(Len(uniQueue) - 1) : uniQueue'[i] = uniQueue[i + 1]
      /\ \A i \in 1..Len(uniQueue) : uniQueue[i] \in Sources
      /\ Head(uniQueue) = uniQueue[1]
  BY SourceFacts DEF TypeOK
<1>2. \A i \in 1..(Len(uniQueue) - 1) : uniQueue[i + 1] # uniQueue[1]
  BY <1>1 DEF QueuedOnce
<1>3. \A x \in Sources : x # uniQueue[1] => source'[x] = source[x]
  BY <1>1 DEF TypeOK
<1>4. ASSUME NEW i \in 1..(Len(uniQueue) - 1)
      PROVE  source'[uniQueue'[i]] = "queued"
  <2>1. i + 1 \in 1..Len(uniQueue) /\ uniQueue'[i] = uniQueue[i + 1]
    BY <1>1
  <2>2. QED
    BY <2>1, <1>1, <1>2, <1>3 DEF QueuedOnce
<1>5. ASSUME NEW i \in 1..(Len(uniQueue) - 1), NEW j \in 1..(Len(uniQueue) - 1),
             uniQueue'[i] = uniQueue'[j]
      PROVE  i = j
  <2>1. /\ i + 1 \in 1..Len(uniQueue) /\ uniQueue'[i] = uniQueue[i + 1]
        /\ j + 1 \in 1..Len(uniQueue) /\ uniQueue'[j] = uniQueue[j + 1]
    BY <1>1
  <2>2. i + 1 = j + 1
    BY <2>1, <1>5 DEF QueuedOnce
  <2>3. QED
    BY <2>2, <1>1
<1>6. source[uniQueue[1]] = "queued"
  BY <1>1 DEF QueuedOnce
<1>7. QED
  BY <1>1, <1>4, <1>5, <1>6 DEF QueuedOnce

\* What stays when neither the messages nor the readers' hands change.
LEMMA Aside ==
  ASSUME SessionInv, TypeOK', messages' = messages, frames' = frames, ctxDone => ctxDone',
         \A x \in Sources : waiting(x)' = waiting(x)
  PROVE  Sequenced'
<1>1. \A x \in Sources : frames[x] \in Nat /\ waiting(x) \in {0, 1} /\ waiting(x) <= frames[x]
  BY WaitingType DEF SessionInv, TypeOK, Passed
<1>2. Sequenced /\ TypeOK
  BY DEF SessionInv, Sequenced
<1>3. QED
  BY <1>1, <1>2, HandsMove

Labels == {"none", "found", "enqueueing", "queued", "read", "deliver", "delivering", "gone"}
Hands == {"deliver", "delivering"}

\* The goroutine of x goes on and has no frame, before or after.
LEMMA Walks ==
  ASSUME SessionInv, NEW x \in Sources, NEW label \in Labels \ Hands, source[x] \notin Hands,
         source[x] # "queued", source' = [source EXCEPT ![x] = label],
         UNCHANGED <<sessionVars, queueVars, frames, incomingVars, consumerVars, panicked>>
  PROVE  SessionInv'
<1> USE DEF sessionVars, queueVars, incomingVars, consumerVars
<1>1. TypeOK'
  BY DEF SessionInv, TypeOK, Labels
<1>2. QueuedOnce'
  BY QueueKept DEF SessionInv
<1>3. \A y \in Sources : waiting(y)' = waiting(y)
  BY DEF SessionInv, TypeOK, waiting, Hands
<1>4. Sequenced'
  BY <1>1, <1>3, Aside DEF messages
<1>5. QED
  BY <1>1, <1>2, <1>4 DEF SessionInv, Sequenced

\* A stream gets into the queue.
LEMMA Enqueues ==
  ASSUME SessionInv, NEW s \in Streams, source[s] \in {"found", "enqueueing"},
         Len(uniQueue) < QueueDepth, uniQueue' = Append(uniQueue, s),
         source' = [source EXCEPT ![s] = "queued"],
         UNCHANGED <<sessionVars, uniClosed, acceptor, frames, incomingVars, consumerVars,
                     panicked>>
  PROVE  SessionInv'
<1> USE SourceFacts DEF sessionVars, incomingVars, consumerVars
<1>1. TypeOK'
  <2>1. uniQueue' \in Seq(Streams) /\ Len(uniQueue') <= QueueDepth
    BY DEF SessionInv, TypeOK
  <2>2. QED
    BY <2>1 DEF SessionInv, TypeOK
<1>2. QueuedOnce'
  BY QueueGrows DEF SessionInv
<1>3. \A y \in Sources : waiting(y)' = waiting(y)
  BY DEF SessionInv, TypeOK, waiting
<1>4. Sequenced'
  BY <1>1, <1>3, Aside DEF messages
<1>5. QED
  BY <1>1, <1>2, <1>4 DEF SessionInv, Sequenced

LEMMA AcceptKeeps ==
  ASSUME SessionInv, AcceptUniStream
  PROVE  SessionInv'
<1> USE SourceFacts DEF sessionVars, incomingVars, consumerVars, AcceptUniStream, Goto
<1>1. QueuedOnce' /\ Head(uniQueue) \in Sources /\ source[Head(uniQueue)] = "queued"
  BY QueueShrinks DEF SessionInv
<1>2. TypeOK'
  <2>1. uniQueue' \in Seq(Streams) /\ Len(uniQueue') <= QueueDepth
    BY DEF SessionInv, TypeOK
  <2>2. source' \in [Sources -> Labels]
    BY <1>1 DEF SessionInv, TypeOK, Labels
  <2>3. QED
    BY <2>1, <2>2 DEF SessionInv, TypeOK, Labels
<1>3. \A y \in Sources : waiting(y)' = waiting(y)
  BY <1>1 DEF SessionInv, TypeOK, waiting
<1>4. Sequenced'
  BY <1>2, <1>3, Aside DEF messages
<1>5. QED
  BY <1>1, <1>2, <1>4 DEF SessionInv, Sequenced

\* A step of the session or the subscriber that moves no message.
LEMMA Elsewhere ==
  ASSUME SessionInv, TypeOK', UNCHANGED <<uniQueue, source, frames, received, incoming>>,
         ctxDone => ctxDone'
  PROVE  SessionInv'
<1>1. QueuedOnce'
  BY DEF SessionInv, QueuedOnce
<1>2. \A y \in Sources : waiting(y)' = waiting(y)
  BY DEF waiting
<1>3. Sequenced'
  BY <1>2, Aside DEF messages
<1>4. QED
  BY <1>1, <1>3 DEF SessionInv, Sequenced

LEMMA PanicKeeps ==
  ASSUME SessionInv, Panic
  PROVE  SessionInv'
<1>1. TypeOK' /\ UNCHANGED <<uniQueue, source, frames, received, incoming, ctxDone>>
  BY DEF SessionInv, TypeOK, Panic, sessionVars, queueVars, incomingVars, consumerVars
<1>2. QED
  BY <1>1, Elsewhere

LEMMA ControlKeeps ==
  ASSUME SessionInv,
         AcceptEnds \/ CloseUnregisters \/ closeStep \/ RequestDone \/ closeIncoming
           \/ SeesEnd \/ ConsumerStops
  PROVE  SessionInv'
<1>1. /\ UNCHANGED <<uniQueue, source, frames, received, incoming>>
      /\ ctxDone => ctxDone'
  BY DEF AcceptEnds, CloseUnregisters, closeStep, CloseCancels, CloseQueue, RequestDone,
         closeIncoming, SeesEnd, ConsumerStops, sessionVars, queueVars, incomingVars,
         consumerVars
<1>2. /\ registered' \in BOOLEAN /\ ctxDone' \in BOOLEAN /\ uniClosed' \in BOOLEAN
      /\ incClosed' \in BOOLEAN /\ panicked' \in BOOLEAN
  BY DEF SessionInv, TypeOK, AcceptEnds, CloseUnregisters, closeStep, CloseCancels, CloseQueue,
         RequestDone, closeIncoming, SeesEnd, ConsumerStops, sessionVars, queueVars,
         incomingVars, consumerVars
<1>3. /\ closing' \in {"open", "cancel", "queue", "closed"}
      /\ acceptor' \in {"accept", "exited"}
      /\ consumer' \in {"run", "stopped", "ended"}
  BY DEF SessionInv, TypeOK, AcceptEnds, CloseUnregisters, closeStep, CloseCancels, CloseQueue,
         RequestDone, closeIncoming, SeesEnd, ConsumerStops, sessionVars, queueVars,
         incomingVars, consumerVars
<1>4. TypeOK'
  BY <1>1, <1>2, <1>3 DEF SessionInv, TypeOK
<1>5. QED
  BY <1>1, <1>4, Elsewhere

\* The subscriber takes a message: the whole of them stays.
LEMMA ReceiveKeeps ==
  ASSUME SessionInv, Receive
  PROVE  SessionInv'
<1> USE DEF Receive, sessionVars, queueVars
<1>1. /\ incoming \in Seq(Sources \X Nat) /\ received \in Seq(Sources \X Nat)
      /\ incoming # <<>> /\ Len(incoming) <= IncomingDepth
  BY DEF SessionInv, TypeOK
<1>2. /\ incoming' \in Seq(Sources \X Nat) /\ received' \in Seq(Sources \X Nat)
      /\ Len(incoming') <= IncomingDepth
  BY <1>1, SourceFacts
<1>3. messages' = messages
  <2>1. /\ Len(incoming) \in Nat /\ Len(incoming) >= 1 /\ Len(received) \in Nat
        /\ Len(received') = Len(received) + 1 /\ Len(incoming') = Len(incoming) - 1
        /\ \A i \in 1..Len(received) : received'[i] = received[i]
        /\ received'[Len(received) + 1] = incoming[1]
        /\ \A i \in 1..(Len(incoming) - 1) : incoming'[i] = incoming[i + 1]
    BY <1>1
  <2>2. /\ Len(messages) = Len(received) + Len(incoming)
        /\ Len(messages') = Len(received) + Len(incoming)
        /\ messages \in Seq(Sources \X Nat) /\ messages' \in Seq(Sources \X Nat)
    BY <1>1, <1>2, <2>1 DEF messages
  <2>3. ASSUME NEW i \in 1..Len(messages) PROVE messages'[i] = messages[i]
    BY <1>1, <1>2, <2>1, <2>2 DEF messages
  <2>4. QED
    BY <2>2, <2>3, SeqEqual
<1>4. TypeOK'
  BY <1>2 DEF SessionInv, TypeOK
<1>5. QueuedOnce' /\ \A y \in Sources : waiting(y)' = waiting(y)
  BY DEF SessionInv, QueuedOnce, waiting
<1>6. Sequenced'
  BY <1>3, <1>4, <1>5, Aside
<1>7. QED
  BY <1>4, <1>5, <1>6 DEF SessionInv, Sequenced

\* The reader of x takes the next frame of its source.
LEMMA ReadKeeps ==
  ASSUME SessionInv, NEW x \in Sources, ReadFrame(x)
  PROVE  SessionInv'
<1> USE DEF ReadFrame, Goto, sessionVars, queueVars, incomingVars, consumerVars
<1>1. TypeOK'
  <2>1. frames[x] \in Nat /\ framesOf(x) \in Nat /\ frames[x] < framesOf(x)
    BY SourceFacts DEF SessionInv, TypeOK
  <2>2. frames' \in [Sources -> Nat] /\ \A y \in Sources : frames'[y] <= framesOf(y)
    BY <2>1 DEF SessionInv, TypeOK
  <2>3. QED
    BY <2>2 DEF SessionInv, TypeOK
<1>2. QueuedOnce'
  BY QueueKept DEF SessionInv
<1>3. /\ waiting(x) = 0 /\ waiting(x)' = 1 /\ frames'[x] = frames[x] + 1 /\ frames[x] \in Nat
      /\ \A y \in Sources : y # x => waiting(y)' = waiting(y) /\ frames'[y] = frames[y]
  BY DEF SessionInv, TypeOK, waiting
<1>4. \A y \in Sources : frames[y] \in Nat /\ waiting(y) \in {0, 1} /\ waiting(y) <= frames[y]
  BY WaitingType DEF SessionInv, TypeOK, Passed
<1>5. \A y \in Sources : /\ waiting(y)' <= frames'[y]
                         /\ frames[y] - waiting(y) = frames'[y] - waiting(y)'
  <2> SUFFICES ASSUME NEW y \in Sources
               PROVE  /\ waiting(y)' <= frames'[y]
                      /\ frames[y] - waiting(y) = frames'[y] - waiting(y)'
    OBVIOUS
  <2>1. CASE y = x
    BY <2>1, <1>3
  <2>2. CASE y # x
    BY <2>2, <1>3, <1>4
  <2>3. QED
    BY <2>1, <2>2
<1>6. \A y \in Sources : frames[y] - waiting(y) <= frames'[y] - waiting(y)'
  BY <1>4, <1>5
<1>7. TypeOK /\ Sequenced /\ messages' = messages /\ ctxDone' = ctxDone
  BY DEF SessionInv, Sequenced, messages
<1>8. Sequenced'
  BY <1>1, <1>5, <1>6, <1>7, HandsMove
<1>9. QED
  BY <1>1, <1>2, <1>8 DEF SessionInv, Sequenced

\* The session is over and the reader of x drops its frame.
LEMMA Drops ==
  ASSUME SessionInv, NEW x \in Sources, source[x] \in Hands, ctxDone,
         source' = [source EXCEPT ![x] = "read"],
         UNCHANGED <<sessionVars, queueVars, frames, incomingVars, consumerVars, panicked>>
  PROVE  SessionInv'
<1> USE DEF sessionVars, queueVars, incomingVars, consumerVars
<1>1. TypeOK'
  BY DEF SessionInv, TypeOK
<1>2. QueuedOnce'
  BY QueueKept DEF SessionInv, Hands
<1>3. /\ waiting(x) = 1 /\ waiting(x)' = 0
      /\ \A y \in Sources : y # x => waiting(y)' = waiting(y)
  BY DEF SessionInv, TypeOK, waiting, Hands
<1>4. \A y \in Sources : frames[y] \in Nat /\ waiting(y) \in {0, 1} /\ waiting(y) <= frames[y]
  BY WaitingType DEF SessionInv, TypeOK, Passed
<1>5. \A y \in Sources : /\ waiting(y)' <= frames'[y]
                         /\ frames[y] - waiting(y) <= frames'[y] - waiting(y)'
  BY <1>3, <1>4
<1>6. TypeOK /\ Sequenced /\ messages' = messages /\ ctxDone'
  BY DEF SessionInv, Sequenced, messages
<1>7. Sequenced'
  BY <1>1, <1>5, <1>6, HandsMove
<1>8. QED
  BY <1>1, <1>2, <1>7 DEF SessionInv, Sequenced

\* There is room, and the reader of x delivers its frame.
LEMMA Sends ==
  ASSUME SessionInv, NEW x \in Sources, source[x] \in Hands, Len(incoming) < IncomingDepth,
         incoming' = Append(incoming, <<x, frames[x]>>),
         source' = [source EXCEPT ![x] = "read"],
         UNCHANGED <<sessionVars, queueVars, frames, incClosed, consumerVars, panicked>>
  PROVE  SessionInv'
<1> USE DEF sessionVars, queueVars, consumerVars
<1>1. /\ incoming \in Seq(Sources \X Nat) /\ received \in Seq(Sources \X Nat)
      /\ <<x, frames[x]>> \in Sources \X Nat
  BY DEF SessionInv, TypeOK
<1>2. incoming' \in Seq(Sources \X Nat) /\ Len(incoming') <= IncomingDepth
  BY <1>1, SourceFacts
<1>3. TypeOK'
  BY <1>2 DEF SessionInv, TypeOK
<1>4. QueuedOnce'
  BY QueueKept DEF SessionInv, Hands
<1>5. /\ waiting(x) = 1 /\ waiting(x)' = 0
      /\ \A y \in Sources : y # x => waiting(y)' = waiting(y)
  BY DEF SessionInv, TypeOK, waiting, Hands
<1>6. messages \in Seq(Sources \X Nat) /\ messages' = Append(messages, <<x, frames[x]>>)
  BY <1>1 DEF messages
<1>7. TypeOK /\ Sequenced
  BY DEF SessionInv, Sequenced
<1>8. Sequenced'
  BY <1>3, <1>5, <1>6, <1>7, Delivers
<1>9. QED
  BY <1>3, <1>4, <1>8 DEF SessionInv, Sequenced

\* The channel is full and the reader of x waits.
LEMMA Waits ==
  ASSUME SessionInv, NEW x \in Sources, source[x] = "deliver",
         source' = [source EXCEPT ![x] = "delivering"],
         UNCHANGED <<sessionVars, queueVars, frames, incomingVars, consumerVars, panicked>>
  PROVE  SessionInv'
<1> USE DEF sessionVars, queueVars, incomingVars, consumerVars
<1>1. TypeOK'
  BY DEF SessionInv, TypeOK
<1>2. QueuedOnce'
  BY QueueKept DEF SessionInv
<1>3. \A y \in Sources : waiting(y)' = waiting(y)
  BY DEF SessionInv, TypeOK, waiting
<1>4. Sequenced'
  BY <1>1, <1>3, Aside DEF messages
<1>5. QED
  BY <1>1, <1>2, <1>4 DEF SessionInv, Sequenced

LEMMA DeliverKeeps ==
  ASSUME SessionInv, NEW x \in Sources, deliverStep(x)
  PROVE  SessionInv'
<1>1. CASE deliver(x)
  BY <1>1, Drops, Sends, Waits, PanicKeeps DEF deliver, Goto, Hands
<1>2. CASE DeliverWakes(x)
  BY <1>2, Drops, Sends DEF DeliverWakes, Goto, Hands, incomingVars
<1>3. QED
  BY <1>1, <1>2 DEF deliverStep

LEMMA StreamKeeps ==
  ASSUME SessionInv, NEW s \in Streams, handleUnidirectionalStream(s) \/ enqueueStep(s)
  PROVE  SessionInv'
<1>1. s \in Sources
  BY SourceFacts
<1>2. CASE handleUnidirectionalStream(s)
  BY <1>1, <1>2, Walks DEF handleUnidirectionalStream, Goto, Labels, Hands
<1>3. CASE enqueueUniStream(s)
  BY <1>1, <1>3, Walks, Enqueues, PanicKeeps DEF enqueueUniStream, Goto, Labels, Hands
<1>4. CASE EnqueueWakes(s)
  BY <1>1, <1>4, Walks, Enqueues DEF EnqueueWakes, Goto, Labels, Hands, queueVars
<1>5. QED
  BY <1>2, <1>3, <1>4 DEF enqueueStep

LEMMA ReadEndsKeeps ==
  ASSUME SessionInv, NEW x \in Sources, ReadEnds(x)
  PROVE  SessionInv'
BY Walks DEF ReadEnds, Goto, Labels, Hands

LEMMA SessionKeeps == SessionInv /\ [Next]_vars => SessionInv'
<1> SUFFICES ASSUME SessionInv, [Next]_vars PROVE SessionInv'
  OBVIOUS
<1>1. CASE Step
  BY <1>1, StreamKeeps, ReadKeeps, ReadEndsKeeps, DeliverKeeps, AcceptKeeps, ControlKeeps,
     ReceiveKeeps
     DEF Step, acceptStep, consumeStep
<1>2. CASE UNCHANGED vars
  <2>1. TypeOK' /\ UNCHANGED <<uniQueue, source, frames, received, incoming, ctxDone>>
    BY <1>2 DEF SessionInv, TypeOK, vars, sessionVars, queueVars, incomingVars, consumerVars
  <2>2. QED
    BY <2>1, Elsewhere
<1>3. QED
  BY <1>1, <1>2 DEF Next

LEMMA SessionInvHolds == Spec => []SessionInv
BY SessionStarts, SessionKeeps, PTL DEF Spec

\* The variables keep their types and neither uniQueue nor incoming exceeds its
\* capacity, whatever the depths.
THEOREM ClientTypeCorrect == Spec => []TypeOK
<1>1. SessionInv => TypeOK
  BY DEF SessionInv
<1>2. QED
  BY <1>1, SessionInvHolds, PTL

LEMMA InvDelivers == SessionInv => DeliveredInOrder
<1> SUFFICES ASSUME SessionInv PROVE DeliveredInOrder
  OBVIOUS
<1>1. DOMAIN messages = 1..Len(messages)
  BY DEF SessionInv, TypeOK, messages
<1>2. ASSUME ~ ctxDone, NEW x \in Sources
      PROVE  numbersOf(x) = 1..(frames[x] - waiting(x))
  <2>1. frames[x] - waiting(x) \in Int
    <3>1. frames[x] \in Nat /\ waiting(x) \in {0, 1}
      BY WaitingType DEF SessionInv, TypeOK
    <3>2. QED
      BY <3>1
  <2>2. ASSUME NEW n \in numbersOf(x) PROVE n \in 1..(frames[x] - waiting(x))
    <3>1. PICK i \in 1..Len(messages) : messages[i][1] = x /\ messages[i][2] = n
      BY <1>1 DEF numbersOf
    <3>2. n \in Nat /\ n >= 1 /\ n <= frames[x] - waiting(x)
      BY <3>1 DEF SessionInv, Passed
    <3>3. QED
      BY <3>2, <2>1
  <2>3. ASSUME NEW n \in 1..(frames[x] - waiting(x)) PROVE n \in numbersOf(x)
    <3>1. PICK i \in 1..Len(messages) : messages[i] = <<x, n>>
      BY <1>2 DEF SessionInv, NoneMissing
    <3>2. messages[i][1] = x /\ messages[i][2] = n
      BY <3>1
    <3>3. QED
      BY <3>2, <1>1 DEF numbersOf
  <2>4. QED
    BY <2>2, <2>3
<1>3. QED
  BY <1>1, <1>2 DEF SessionInv, InOrder, DeliveredInOrder

\* Whatever the interleaving of the stream readers, the datagram reader, a full
\* channel and a slow subscriber: every message of a source gets to the
\* subscriber in order and once while the session lives, and when it ends none
\* is doubled or overtaken.
THEOREM SessionDeliversInOrder == Spec => []DeliveredInOrder
BY InvDelivers, SessionInvHolds, PTL

=============================================================================
