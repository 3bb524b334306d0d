---------------------------- MODULE PubSubClient ----------------------------
(***************************************************************************)
(* One pubsub session of a client, from the delivery streams the server    *)
(* opens to the channel the subscriber role reads                          *)
(* (internal/client/pubsub.go and the session part of shared_conn.go):     *)
(*                                                                         *)
(*   handleUnidirectionalStream --uniQueue--> readUniStreams               *)
(*      readUniStream, one goroutine per stream --+                        *)
(*      readDatagrams ----------------------------+--incoming--> Messages()*)
(*                                                                         *)
(* Both channels are closed by whoever ends the session, while the senders *)
(* may be about to send.  A select whose send case is on a closed channel  *)
(* may take that case although the session's context is done too, and then *)
(* the process panics; a goroutine that was already waiting in the select  *)
(* is woken by the context, which is cancelled first.                      *)
(*                                                                         *)
(* How sessions are registered on a connection is in SharedConn.           *)
(***************************************************************************)
EXTENDS Integers, Sequences

CONSTANTS
  Streams,       \* delivery streams of the server
  Datagrams,     \* the datagram reader
  QueueDepth,    \* capacity of uniQueue (256 in the code)
  IncomingDepth, \* capacity of incoming (256 in the code)
  MaxFrames,     \* bound: frames on each delivery stream
  MaxDatagrams   \* bound: datagrams

Sources == Streams \cup {Datagrams}

ASSUME Parameters ==
  /\ Datagrams \notin Streams
  /\ QueueDepth \in Nat \ {0} /\ IncomingDepth \in Nat \ {0} 
  /\ MaxFrames \in Nat /\ MaxDatagrams \in Nat

framesOf(x) == IF x = Datagrams THEN MaxDatagrams ELSE MaxFrames

VARIABLES
  registered,  \* lookupSession finds the session
  ctxDone,     \* the session's context is cancelled
  closing,     \* where the function of closeOnce is
  uniQueue,    \* the streams in the channel
  uniClosed,   \* uniQueue is closed
  source,      \* where the goroutine of each stream and the datagram reader is
  frames,      \* frames read from each source
  acceptor,    \* readUniStreams
  incoming,    \* the messages in the channel: source and number
  incClosed,   \* incoming is closed
  received,    \* messages the subscriber got
  consumer,    \* Subscriber.Run: reading, stopped by its context, saw the end
  panicked     \* the process is gone

sessionVars == <<registered, ctxDone, closing>>
queueVars == <<uniQueue, uniClosed, acceptor>>
incomingVars == <<incoming, incClosed>>
consumerVars == <<received, consumer>>
vars == <<sessionVars, queueVars, source, frames, incomingVars, consumerVars, panicked>>

\* A session as ConnectPubSub returns it.
Init ==
  /\ registered = TRUE /\ ctxDone = FALSE /\ closing = "open"
  /\ uniQueue = <<>> /\ uniClosed = FALSE /\ acceptor = "accept"
  /\ source = [x \in Sources |-> IF x = Datagrams THEN "read" ELSE "none"]
  /\ frames = [x \in Sources |-> 0]
  /\ incoming = <<>> /\ incClosed = FALSE
  /\ received = <<>> /\ consumer = "run" /\ panicked = FALSE

Goto(x, label) == source' = [source EXCEPT ![x] = label]

Panic ==
  /\ panicked' = TRUE
  /\ UNCHANGED <<sessionVars, queueVars, source, frames, incomingVars, consumerVars>>

-----------------------------------------------------------------------------
(* Delivery streams                                                        *)

\* handleUnidirectionalStream up to lookupSession.
handleUnidirectionalStream(s) ==
  /\ source[s] = "none"
  /\ Goto(s, IF registered THEN "found" ELSE "gone")
  /\ UNCHANGED <<sessionVars, queueVars, frames, incomingVars, consumerVars, panicked>>

\* The select of enqueueUniStream, when it is reached.
enqueueUniStream(s) ==
  /\ source[s] = "found"
  /\ \/ /\ ctxDone
        /\ Goto(s, "gone")
        /\ UNCHANGED <<sessionVars, queueVars, frames, incomingVars, consumerVars, panicked>>
     \/ /\ ~ uniClosed /\ Len(uniQueue) < QueueDepth
        /\ uniQueue' = Append(uniQueue, s)
        /\ Goto(s, "queued")
        /\ UNCHANGED <<sessionVars, uniClosed, acceptor, frames, incomingVars,
                       consumerVars, panicked>>
     \/ /\ ~ ctxDone /\ ~ uniClosed /\ Len(uniQueue) = QueueDepth
        /\ Goto(s, "enqueueing")
        /\ UNCHANGED <<sessionVars, queueVars, frames, incomingVars, consumerVars, panicked>>
     \/ uniClosed /\ Panic

\* The same select, waiting.
EnqueueWakes(s) ==
  /\ source[s] = "enqueueing"
  /\ \/ /\ ctxDone
        /\ Goto(s, "gone") /\ UNCHANGED uniQueue
     \/ /\ ~ ctxDone /\ Len(uniQueue) < QueueDepth
        /\ uniQueue' = Append(uniQueue, s)
        /\ Goto(s, "queued")
  /\ UNCHANGED <<sessionVars, uniClosed, acceptor, frames, incomingVars,
                 consumerVars, panicked>>

\* readUniStreams takes a stream and starts its reader.
AcceptUniStream ==
  /\ acceptor = "accept"
  /\ uniQueue # <<>>
  /\ uniQueue' = Tail(uniQueue)
  /\ Goto(Head(uniQueue), "read")
  /\ UNCHANGED <<sessionVars, uniClosed, acceptor, frames, incomingVars,
                 consumerVars, panicked>>

AcceptEnds ==
  /\ acceptor = "accept"
  /\ ctxDone
  /\ acceptor' = "exited"
  /\ UNCHANGED <<sessionVars, uniQueue, uniClosed, source, frames, incomingVars,
                 consumerVars, panicked>>

-----------------------------------------------------------------------------
(* Readers                                                                 *)

\* ReadStreamFrame or ReceiveDatagram returns a message.  The streams are not
\* cancelled when the session ends, so a stream may yield frames after that.
ReadFrame(x) ==
  /\ source[x] = "read"
  /\ frames[x] < framesOf(x)
  /\ frames' = [frames EXCEPT ![x] = @ + 1]
  /\ Goto(x, "deliver")
  /\ UNCHANGED <<sessionVars, queueVars, incomingVars, consumerVars, panicked>>

\* The end of the stream, a read error, or for datagrams the context.
ReadEnds(x) ==
  /\ source[x] = "read"
  /\ x = Datagrams => ctxDone
  /\ Goto(x, "gone")
  /\ UNCHANGED <<sessionVars, queueVars, frames, incomingVars, consumerVars, panicked>>

\* Variant: a full channel drops the message.
deliverDrops(x) ==
  /\ source[x] = "deliver"
  /\ ~ incClosed
  /\ incoming' = IF Len(incoming) < IncomingDepth
                 THEN Append(incoming, <<x, frames[x]>>) ELSE incoming
  /\ Goto(x, "read")
  /\ UNCHANGED <<sessionVars, queueVars, frames, incClosed, consumerVars, panicked>>

\* The select of deliver, when it is reached.
deliver(x) ==
  /\ source[x] = "deliver"
  /\ \/ /\ ctxDone
        /\ Goto(x, "read")
        /\ UNCHANGED <<sessionVars, queueVars, frames, incomingVars, consumerVars, panicked>>
     \/ /\ ~ incClosed /\ Len(incoming) < IncomingDepth
        /\ incoming' = Append(incoming, <<x, frames[x]>>)
        /\ Goto(x, "read")
        /\ UNCHANGED <<sessionVars, queueVars, frames, incClosed, consumerVars, panicked>>
     \/ /\ ~ ctxDone /\ Len(incoming) = IncomingDepth
        /\ Goto(x, "delivering")
        /\ UNCHANGED <<sessionVars, queueVars, frames, incomingVars, consumerVars, panicked>>
     \/ incClosed /\ Panic

\* Variant: the wait has no case for the session's end.
DeliverWakesOnPlace(x) ==
  /\ source[x] = "delivering"
  /\ ~ ctxDone
  /\ Len(incoming) < IncomingDepth
  /\ incoming' = Append(incoming, <<x, frames[x]>>)
  /\ Goto(x, "read")
  /\ UNCHANGED <<sessionVars, queueVars, frames, incClosed, consumerVars, panicked>>

\* The same select, waiting.
DeliverWakes(x) ==
  /\ source[x] = "delivering"
  /\ \/ /\ ctxDone
        /\ UNCHANGED incoming
     \/ /\ ~ ctxDone /\ Len(incoming) < IncomingDepth
        /\ incoming' = Append(incoming, <<x, frames[x]>>)
  /\ Goto(x, "read")
  /\ UNCHANGED <<sessionVars, queueVars, frames, incClosed, consumerVars, panicked>>

-----------------------------------------------------------------------------
(* The end of the session                                                  *)

\* PubSubSession.Close, monitorRequestStream or sharedConn.close enters the
\* closeOnce of the session: unregisterSession, cancel, close(uniQueue).
CloseUnregisters ==
  /\ closing = "open"
  /\ closing' = "cancel" /\ registered' = FALSE
  /\ UNCHANGED <<ctxDone, queueVars, source, frames, incomingVars, consumerVars, panicked>>

CloseCancels ==
  /\ closing = "cancel"
  /\ closing' = "queue" /\ ctxDone' = TRUE
  /\ UNCHANGED <<registered, queueVars, source, frames, incomingVars, consumerVars, panicked>>

CloseQueue ==
  /\ closing = "queue"
  /\ closing' = "closed" /\ uniClosed' = TRUE
  /\ UNCHANGED <<registered, ctxDone, uniQueue, acceptor, source, frames, incomingVars,
                 consumerVars, panicked>>

\* The parent of the context, that of the request stream, is done first.
RequestDone ==
  /\ ~ ctxDone
  /\ ctxDone' = TRUE
  /\ UNCHANGED <<registered, closing, queueVars, source, frames, incomingVars,
                 consumerVars, panicked>>

\* The goroutine of ConnectPubSub that waits for the context.
closeIncoming ==
  /\ ctxDone /\ ~ incClosed
  /\ incClosed' = TRUE
  /\ UNCHANGED <<sessionVars, queueVars, source, frames, incoming, consumerVars, panicked>>

-----------------------------------------------------------------------------
(* The subscriber                                                          *)

Receive ==
  /\ consumer = "run"
  /\ incoming # <<>>
  /\ received' = Append(received, Head(incoming))
  /\ incoming' = Tail(incoming)
  /\ UNCHANGED <<sessionVars, queueVars, source, frames, incClosed, consumer, panicked>>

\* The channel is closed and empty: Subscriber.Run returns.
SeesEnd ==
  /\ consumer = "run"
  /\ incClosed /\ incoming = <<>>
  /\ consumer' = "ended"
  /\ UNCHANGED <<sessionVars, queueVars, source, frames, incomingVars, received, panicked>>

\* Its own context is done: it returns and reads no more.
ConsumerStops ==
  /\ consumer = "run"
  /\ consumer' = "stopped"
  /\ UNCHANGED <<sessionVars, queueVars, source, frames, incomingVars, received, panicked>>

-----------------------------------------------------------------------------

enqueueStep(s) == enqueueUniStream(s) \/ EnqueueWakes(s)
deliverStep(x) == deliver(x) \/ DeliverWakes(x)
acceptStep == AcceptUniStream \/ AcceptEnds
closeStep == CloseCancels \/ CloseQueue
consumeStep == Receive \/ SeesEnd

Step ==
  \/ \E s \in Streams : handleUnidirectionalStream(s) \/ enqueueStep(s)
  \/ \E x \in Sources : ReadFrame(x) \/ ReadEnds(x) \/ deliverStep(x)
  \/ acceptStep \/ CloseUnregisters \/ closeStep \/ RequestDone \/ closeIncoming
  \/ consumeStep \/ ConsumerStops

\* Nothing happens in a process that has panicked.
Next == ~ panicked /\ Step

Spec == Init /\ [][Next]_vars

\* Every goroutine runs when it can; no frame has to arrive, no stream has to
\* end, and nobody has to end the session.
FairSpec ==
  /\ Spec
  /\ \A s \in Streams : WF_vars(~ panicked /\ enqueueStep(s))
  /\ \A x \in Sources : WF_vars(~ panicked /\ deliverStep(x))
  /\ WF_vars(~ panicked /\ acceptStep) /\ WF_vars(~ panicked /\ closeStep)
  /\ WF_vars(~ panicked /\ closeIncoming) /\ WF_vars(~ panicked /\ consumeStep)

-----------------------------------------------------------------------------

\* Every variable has its type, and no channel exceeds its capacity.
TypeOK ==
  /\ registered \in BOOLEAN /\ ctxDone \in BOOLEAN /\ uniClosed \in BOOLEAN
  /\ incClosed \in BOOLEAN /\ panicked \in BOOLEAN
  /\ closing \in {"open", "cancel", "queue", "closed"}
  /\ uniQueue \in Seq(Streams) /\ Len(uniQueue) <= QueueDepth
  /\ acceptor \in {"accept", "exited"}
  /\ source \in [Sources -> {"none", "found", "enqueueing", "queued", "read", "deliver",
                             "delivering", "gone"}]
  /\ frames \in [Sources -> Nat] /\ \A x \in Sources : frames[x] <= framesOf(x)
  /\ incoming \in Seq(Sources \X Nat) /\ Len(incoming) <= IncomingDepth
  /\ received \in Seq(Sources \X Nat)
  /\ consumer \in {"run", "stopped", "ended"}

\* The messages that got past the readers, in the order they are received.
messages == received \o incoming

\* The numbers of the messages of one source among them.
numbersOf(x) == {messages[i][2] : i \in {k \in DOMAIN messages : messages[k][1] = x}}

\* A reader of x has a frame in its hands.
waiting(x) == IF source[x] \in {"deliver", "delivering"} THEN 1 ELSE 0

\* While the session lives a subscriber gets every message of a stream, and of
\* the datagram flow, in order and once: readers, a full channel and a slow
\* subscriber lose nothing.  After its end some are lost, and still none arrives
\* twice or overtaken.
DeliveredInOrder ==
  /\ ~ ctxDone => \A x \in Sources : numbersOf(x) = 1..(frames[x] - waiting(x))
  /\ \A i, j \in DOMAIN messages :
       i < j /\ messages[i][1] = messages[j][1] => messages[i][2] < messages[j][2]

\* When the session ends every goroutine that waits on a channel is released,
\* and the subscriber learns of it once it has read what was delivered.
SessionEndReleases ==
  ctxDone ~> \/ panicked
             \/ /\ acceptor = "exited" /\ incClosed /\ consumer # "run"
                /\ \A x \in Sources : source[x] \notin {"enqueueing", "delivering"}

\* No message and no stream is sent on a closed channel: a session may end at
\* any time without taking the process down.
NoPanic == ~ panicked

=============================================================================
