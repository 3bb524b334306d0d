------------------------------- MODULE Broker -------------------------------
(***************************************************************************)
(* The pubsub broker of the server: internal/broker/broker.go (the topic   *)
(* table) and internal/broker/session.go (one Session per WebTransport     *)
(* session, with four goroutines each):                                    *)
(*                                                                         *)
(*   control  serve/readControl: subscribes, unsubscribes, publishes       *)
(*            stream frames, and cleans the session up when it ends;       *)
(*   reader   datagramReader: publishes the datagrams that arrive;         *)
(*   dgOut    datagramWriter: drains outDatagram;                          *)
(*   stOut    streamWriter: drains outStream, one uni stream per frame.    *)
(*                                                                         *)
(* A step is what a goroutine does between two points where another one    *)
(* can interfere: a critical section of Broker.mu, or one select over      *)
(* channels.  A frame is its publisher, a per-publisher sequence number    *)
(* and its topic; payloads, log lines and byte counters are left out.      *)
(***************************************************************************)
EXTENDS Integers, Sequences, FiniteSets

CONSTANTS
  Sessions,          \* WebTransport sessions (each is upgraded at most once)
  Topics,            \* topic names
  OutDatagramDepth,  \* capacity of Session.outDatagram (128 in the code)
  OutStreamDepth,    \* capacity of Session.outStream (32 in the code)
  PubTopics,         \* topics that clients publish to
  MaxStreamPubs,     \* bound: KindPub control frames of each session
  MaxDatagrams,      \* bound: datagrams received from each session
  MaxBadDatagrams,   \* bound: datagrams the readers refuse, in all
  NoFrame            \* "no frame in hand"

ASSUME SessionsFinite == IsFiniteSet(Sessions)
ASSUME TopicsNonEmpty == Topics # {}
ASSUME DepthsPositive == /\ OutDatagramDepth \in Nat \ {0}
                         /\ OutStreamDepth \in Nat \ {0}
ASSUME BoundsNatural  == /\ MaxStreamPubs \in [Sessions -> Nat]
                         /\ MaxDatagrams \in [Sessions -> Nat]
                         /\ MaxBadDatagrams \in Nat
ASSUME SomeTopics     == PubTopics \subseteq Topics

Frame == [from : Sessions, seq : Nat, topic : Topics]

ASSUME NoFrameIsNoFrame == NoFrame \notin Frame

VARIABLES
  topics,       \* Broker.topics: the sessions subscribed to each topic
  subscribers,  \* the PubSubSubscribers gauge, by topic
  drops,        \* the PubSubDrops counter, over all labels
  control,      \* where the control goroutine of each session is
  ctl,          \* the control frame it handles, and whom it still has to serve
  subs,         \* Session.subs
  reader,       \* where the datagramReader of each session is
  dgm,          \* the datagram it handles, and whom it still has to serve
  dgOut,        \* datagramWriter: not started, running, returned
  stOut,        \* streamWriter: not started, running, returned
  stFrame,      \* the frame streamWriter opens a stream for
  outDatagram,  \* Session.outDatagram
  outStream,    \* Session.outStream
  broken,       \* the transport under the session no longer works
  ctxDone,      \* the session's context is done
  wants,        \* sessions whose client sends KindSub and KindUnsub; never changes
  fragile,      \* sessions whose transport may break under them; never changes
  \* History, for the properties only.
  lastDatagram, \* the last datagram of each publisher handed to the transport
  sentStream,   \* frames written to delivery streams, in order
  lostStream,   \* frames whose stream write failed
  dueStream     \* frames a Publish has addressed to the session

controlVars == <<control, ctl, subs>>
readerVars  == <<reader, dgm>>
brokerVars  == <<topics, subscribers>>
wireVars    == <<broken, ctxDone, wants, fragile>>
streamVars  == <<stOut, stFrame, outStream, sentStream, lostStream, dueStream>>
datagramVars == <<dgOut, outDatagram, lastDatagram>>
vars == <<controlVars, readerVars, brokerVars, wireVars, streamVars,
          datagramVars, drops>>

Goroutine == {"off", "run", "stopped"}
Control == {"new", "accept", "control", "subscribe", "unsubscribe", "publish",
            "enqueue", "cleanup", "close", "gone"}
Reader == {"off", "receive", "publish", "try", "evict", "push", "stopped"}

\* The frame the control goroutine, resp. the datagram reader, of s publishes.
ctlFrame(s) == [from |-> s, seq |-> ctl[s].seq, topic |-> ctl[s].topic]
dgmFrame(s) == [from |-> s, seq |-> dgm[s].seq, topic |-> dgm[s].topic]

Init ==
  /\ topics = [t \in Topics |-> {}]
  /\ subscribers = [t \in Topics |-> 0]
  /\ drops = 0
  /\ control = [s \in Sessions |-> "new"]
  /\ ctl = [s \in Sessions |-> [topic |-> CHOOSE t \in Topics : TRUE,
                                seq |-> 0, pending |-> {}]]
  /\ subs = [s \in Sessions |-> {}]
  /\ reader = [s \in Sessions |-> "off"]
  /\ dgm = [s \in Sessions |-> [topic |-> CHOOSE t \in Topics : TRUE,
                                seq |-> 0, pending |-> {}, target |-> s]]
  /\ dgOut = [s \in Sessions |-> "off"]
  /\ stOut = [s \in Sessions |-> "off"]
  /\ stFrame = [s \in Sessions |-> NoFrame]
  /\ outDatagram = [s \in Sessions |-> <<>>]
  /\ outStream = [s \in Sessions |-> <<>>]
  /\ broken = [s \in Sessions |-> FALSE]
  /\ ctxDone = [s \in Sessions |-> FALSE]
  /\ wants \in SUBSET Sessions
  /\ fragile \in SUBSET Sessions
  /\ lastDatagram = [s \in Sessions |-> [f \in Sessions |-> 0]]
  /\ sentStream = [s \in Sessions |-> <<>>]
  /\ lostStream = [s \in Sessions |-> {}]
  /\ dueStream = [s \in Sessions |-> {}]

-----------------------------------------------------------------------------
(* The control goroutine: HandleRequest, serve, readControl.               *)

goControl(s, from, to) == control[s] = from /\ control' = [control EXCEPT ![s] = to]

\* HandleRequest after a successful Upgrade, and the head of serve: the
\* session exists, its three other goroutines run, control waits in
\* AcceptStream.
Upgrade(s) ==
  /\ goControl(s, "new", "accept")
  /\ reader' = [reader EXCEPT ![s] = "receive"]
  /\ dgOut' = [dgOut EXCEPT ![s] = "run"]
  /\ stOut' = [stOut EXCEPT ![s] = "run"]
  /\ UNCHANGED <<ctl, subs, dgm, brokerVars, wireVars, stFrame, outStream,
                 sentStream, lostStream, dueStream, outDatagram, lastDatagram,
                 drops>>

AcceptControl(s) ==
  /\ ~ broken[s]
  /\ goControl(s, "accept", "control")
  /\ UNCHANGED <<ctl, subs, readerVars, brokerVars, wireVars, streamVars,
                 datagramVars, drops>>

AcceptFails(s) ==
  /\ broken[s]
  /\ goControl(s, "accept", "cleanup")
  /\ UNCHANGED <<ctl, subs, readerVars, brokerVars, wireVars, streamVars,
                 datagramVars, drops>>

\* Session.subscribe up to subsMu.Unlock.  A topic already in subs is the
\* early return, which changes nothing.
ReadSub(s, t) ==
  /\ s \in wants
  /\ ~ broken[s]
  /\ t \notin subs[s]
  /\ goControl(s, "control", "subscribe")
  /\ subs' = [subs EXCEPT ![s] = @ \cup {t}]
  /\ ctl' = [ctl EXCEPT ![s].topic = t]
  /\ UNCHANGED <<readerVars, brokerVars, wireVars, streamVars, datagramVars,
                 drops>>

\* Broker.subscribe: the gauge goes up without looking at the set.
BrokerSubscribe(s) ==
  /\ goControl(s, "subscribe", "control")
  /\ topics' = [topics EXCEPT ![ctl[s].topic] = @ \cup {s}]
  /\ subscribers' = [subscribers EXCEPT ![ctl[s].topic] = @ + 1]
  /\ UNCHANGED <<ctl, subs, readerVars, wireVars, streamVars, datagramVars,
                 drops>>

\* Variant: the topic stays in Session.subs.
ReadUnsubKeepsSubs(s, t) ==
  /\ s \in wants
  /\ ~ broken[s]
  /\ goControl(s, "control", "unsubscribe")
  /\ ctl' = [ctl EXCEPT ![s].topic = t]
  /\ UNCHANGED <<subs, readerVars, brokerVars, wireVars, streamVars,
                 datagramVars, drops>>

\* Session.unsubscribe up to subsMu.Unlock: no early return here.
ReadUnsub(s, t) ==
  /\ s \in wants
  /\ ~ broken[s]
  /\ goControl(s, "control", "unsubscribe")
  /\ subs' = [subs EXCEPT ![s] = @ \ {t}]
  /\ ctl' = [ctl EXCEPT ![s].topic = t]
  /\ UNCHANGED <<readerVars, brokerVars, wireVars, streamVars, datagramVars,
                 drops>>

\* Broker.unsubscribe: the gauge goes down only for a member.  (An emptied
\* topic leaves the map; here that is the empty set.)
BrokerUnsubscribe(s) ==
  LET t == ctl[s].topic IN
  /\ goControl(s, "unsubscribe", "control")
  /\ topics' = [topics EXCEPT ![t] = @ \ {s}]
  /\ subscribers' = IF s \in topics[t] THEN [subscribers EXCEPT ![t] = @ - 1]
                                       ELSE subscribers
  /\ UNCHANGED <<ctl, subs, readerVars, wireVars, streamVars, datagramVars,
                 drops>>

\* readControl takes a KindPub frame and calls Broker.Publish.  Frames of any
\* other kind are ignored, which changes nothing.
ReadPub(s, t) ==
  /\ ~ broken[s]
  /\ ctl[s].seq < MaxStreamPubs[s]
  /\ goControl(s, "control", "publish")
  /\ ctl' = [ctl EXCEPT ![s] = [ctl[s] EXCEPT !.topic = t, !.seq = ctl[s].seq + 1]]
  /\ UNCHANGED <<subs, readerVars, brokerVars, wireVars, streamVars,
                 datagramVars, drops>>

\* Broker.Publish under RLock: the subscribers are copied; they are served
\* afterwards, when the table may already have changed.
Publish(s) ==
  LET snapshot == topics[ctl[s].topic] IN
  /\ goControl(s, "publish", "enqueue")
  /\ ctl' = [ctl EXCEPT ![s].pending = snapshot]
  /\ dueStream' = [r \in Sessions |-> IF r \in snapshot
                                      THEN dueStream[r] \cup {ctlFrame(s)}
                                      ELSE dueStream[r]]
  /\ UNCHANGED <<subs, readerVars, brokerVars, wireVars, stOut, stFrame,
                 outStream, sentStream, lostStream, datagramVars, drops>>

\* Variant of enqueueStream without the context branch: a plain channel send.
EnqueueStreamBlocks(s, r) ==
  /\ control[s] = "enqueue"
  /\ r \in ctl[s].pending
  /\ ctl' = [ctl EXCEPT ![s].pending = @ \ {r}]
  /\ Len(outStream[r]) < OutStreamDepth
  /\ outStream' = [outStream EXCEPT ![r] = Append(@, ctlFrame(s))]
  /\ UNCHANGED <<control, subs, readerVars, brokerVars, wireVars, stOut,
                 stFrame, sentStream, lostStream, dueStream, datagramVars,
                 drops>>

\* Session.enqueueStream on subscriber r: a select between a free place in
\* outStream and r's context; with neither, the publisher waits.
EnqueueStream(s, r) ==
  /\ control[s] = "enqueue"
  /\ r \in ctl[s].pending
  /\ ctl' = [ctl EXCEPT ![s].pending = @ \ {r}]
  /\ \/ /\ Len(outStream[r]) < OutStreamDepth
        /\ outStream' = [outStream EXCEPT ![r] = Append(@, ctlFrame(s))]
     \/ /\ ctxDone[r]
        /\ UNCHANGED outStream
  /\ UNCHANGED <<control, subs, readerVars, brokerVars, wireVars, stOut,
                 stFrame, sentStream, lostStream, dueStream, datagramVars,
                 drops>>

\* The loop over the subscribers ends and Publish returns to readControl.
PublishReturns(s) ==
  /\ ctl[s].pending = {}
  /\ goControl(s, "enqueue", "control")
  /\ UNCHANGED <<ctl, subs, readerVars, brokerVars, wireVars, streamVars,
                 datagramVars, drops>>

\* ReadStreamFrame fails: the client closed the control stream, sent
\* something undecodable, or the transport is gone.
ReadControlEnds(s) ==
  /\ goControl(s, "control", "cleanup")
  /\ UNCHANGED <<ctl, subs, readerVars, brokerVars, wireVars, streamVars,
                 datagramVars, drops>>

\* Variant: removeSession stops after the first topic it finds the session in.
CleanupFirstTopic(s) ==
  LET mine == {t \in Topics : s \in topics[t]}
      gone == IF mine = {} THEN {} ELSE {CHOOSE t \in mine : TRUE} IN
  /\ goControl(s, "cleanup", "close")
  /\ topics' = [t \in Topics |-> IF t \in gone THEN topics[t] \ {s} ELSE topics[t]]
  /\ subscribers' = [t \in Topics |-> IF t \in gone THEN subscribers[t] - 1
                                                    ELSE subscribers[t]]
  /\ UNCHANGED <<ctl, subs, readerVars, wireVars, streamVars, datagramVars,
                 drops>>

\* Session.cleanup, that is Broker.removeSession: one critical section.
Cleanup(s) ==
  /\ goControl(s, "cleanup", "close")
  /\ topics' = [t \in Topics |-> topics[t] \ {s}]
  /\ subscribers' = [t \in Topics |-> IF s \in topics[t]
                                      THEN subscribers[t] - 1
                                      ELSE subscribers[t]]
  /\ UNCHANGED <<ctl, subs, readerVars, wireVars, streamVars, datagramVars,
                 drops>>

\* CloseWithError in the deferred function of serve.
CloseSession(s) ==
  /\ goControl(s, "close", "gone")
  /\ broken' = [broken EXCEPT ![s] = TRUE]
  /\ ctxDone' = [ctxDone EXCEPT ![s] = TRUE]
  /\ UNCHANGED <<ctl, subs, wants, fragile, readerVars, brokerVars,
                 streamVars, datagramVars, drops>>

-----------------------------------------------------------------------------
(* The datagram reader: datagramReader, Publish, enqueueDatagram.          *)

goReader(s, from, to) == reader[s] = from /\ reader' = [reader EXCEPT ![s] = to]

\* A KindPub datagram arrives.  Datagrams already queued in the transport are
\* still returned when the session has ended.
ReceiveDatagram(s, t) ==
  /\ dgm[s].seq < MaxDatagrams[s]
  /\ goReader(s, "receive", "publish")
  /\ dgm' = [dgm EXCEPT ![s] = [dgm[s] EXCEPT !.topic = t, !.seq = dgm[s].seq + 1]]
  /\ UNCHANGED <<controlVars, brokerVars, wireVars, streamVars, datagramVars,
                 drops>>

\* An oversized, undecodable or non-pub datagram is counted and skipped.
ReceiveBadDatagram(s) ==
  /\ reader[s] = "receive"
  /\ drops < MaxBadDatagrams
  /\ drops' = drops + 1
  /\ UNCHANGED <<controlVars, readerVars, brokerVars, wireVars, streamVars,
                 datagramVars>>

ReaderExits(s) ==
  /\ broken[s]
  /\ goReader(s, "receive", "stopped")
  /\ UNCHANGED <<controlVars, dgm, brokerVars, wireVars, streamVars,
                 datagramVars, drops>>

\* Broker.Publish under RLock, for the datagram surface.
PublishDatagram(s) ==
  /\ goReader(s, "publish", "try")
  /\ dgm' = [dgm EXCEPT ![s].pending = topics[dgm[s].topic]]
  /\ UNCHANGED <<controlVars, brokerVars, wireVars, streamVars, datagramVars,
                 drops>>

\* enqueueDatagram on subscriber r, the first select: a free place, or on to
\* the eviction.
TryEnqueue(s, r) ==
  /\ reader[s] = "try"
  /\ r \in dgm[s].pending
  /\ dgm' = [dgm EXCEPT ![s] = [dgm[s] EXCEPT !.pending = dgm[s].pending \ {r},
                                             !.target = r]]
  /\ \/ /\ Len(outDatagram[r]) < OutDatagramDepth
        /\ outDatagram' = [outDatagram EXCEPT ![r] = Append(@, dgmFrame(s))]
        /\ UNCHANGED reader
     \/ /\ Len(outDatagram[r]) = OutDatagramDepth
        /\ reader' = [reader EXCEPT ![s] = "evict"]
        /\ UNCHANGED outDatagram
  /\ UNCHANGED <<controlVars, brokerVars, wireVars, streamVars, dgOut,
                 lastDatagram, drops>>

\* The second select: take the oldest datagram out, if one is still there,
\* and let it go; no counter moves.
EvictOldest(s) ==
  LET r == dgm[s].target IN
  /\ goReader(s, "evict", "push")
  /\ \/ /\ outDatagram[r] # <<>>
        /\ outDatagram' = [outDatagram EXCEPT ![r] = Tail(@)]
     \/ /\ outDatagram[r] = <<>>
        /\ UNCHANGED outDatagram
  /\ UNCHANGED <<controlVars, dgm, brokerVars, wireVars, streamVars, dgOut,
                 lastDatagram, drops>>

\* Variant: after the push the subscriber is served once more.
PushDatagramTwice(s) ==
  LET r == dgm[s].target IN
  /\ goReader(s, "push", "try")
  /\ Len(outDatagram[r]) < OutDatagramDepth
  /\ outDatagram' = [outDatagram EXCEPT ![r] = Append(@, dgmFrame(s))]
  /\ dgm' = [dgm EXCEPT ![s].pending = @ \cup {r}]
  /\ UNCHANGED <<controlVars, brokerVars, wireVars, streamVars, dgOut,
                 lastDatagram, drops>>

\* Variant: no context branch.
PushDatagramBlocks(s) ==
  LET r == dgm[s].target IN
  /\ goReader(s, "push", "try")
  /\ Len(outDatagram[r]) < OutDatagramDepth
  /\ outDatagram' = [outDatagram EXCEPT ![r] = Append(@, dgmFrame(s))]
  /\ UNCHANGED <<controlVars, dgm, brokerVars, wireVars, streamVars, dgOut,
                 lastDatagram, drops>>

\* The third select: another publisher may have filled the queue again, and
\* then the reader waits for a place or for the end of r.
PushDatagram(s) ==
  LET r == dgm[s].target IN
  /\ goReader(s, "push", "try")
  /\ \/ /\ Len(outDatagram[r]) < OutDatagramDepth
        /\ outDatagram' = [outDatagram EXCEPT ![r] = Append(@, dgmFrame(s))]
     \/ /\ ctxDone[r]
        /\ UNCHANGED outDatagram
  /\ UNCHANGED <<controlVars, dgm, brokerVars, wireVars, streamVars, dgOut,
                 lastDatagram, drops>>

\* The loop over the subscribers ends.
PublishDatagramReturns(s) ==
  /\ dgm[s].pending = {}
  /\ goReader(s, "try", "receive")
  /\ UNCHANGED <<controlVars, dgm, brokerVars, wireVars, streamVars,
                 datagramVars, drops>>

-----------------------------------------------------------------------------
(* The writers.                                                            *)

\* datagramWriter takes a frame and sends it; a send error ends the writer.
\* The re-encoded frame is never longer than the datagram it came in, so the
\* outgoing_oversize and encode-error branches do not occur.
SendDatagram(s) ==
  /\ dgOut[s] = "run"
  /\ outDatagram[s] # <<>>
  /\ outDatagram' = [outDatagram EXCEPT ![s] = Tail(@)]
  /\ \/ /\ ~ broken[s]
        /\ LET f == Head(outDatagram[s]) IN
             lastDatagram' = [lastDatagram EXCEPT ![s][f.from] = f.seq]
        /\ UNCHANGED dgOut
     \/ /\ broken[s]
        /\ dgOut' = [dgOut EXCEPT ![s] = "stopped"]
        /\ UNCHANGED lastDatagram
  /\ UNCHANGED <<controlVars, readerVars, brokerVars, wireVars, streamVars,
                 drops>>

DatagramWriterDone(s) ==
  /\ dgOut[s] = "run"
  /\ ctxDone[s]
  /\ dgOut' = [dgOut EXCEPT ![s] = "stopped"]
  /\ UNCHANGED <<controlVars, readerVars, brokerVars, wireVars, streamVars,
                 outDatagram, lastDatagram, drops>>

\* streamWriter takes a frame and calls OpenUniStreamSync.
StreamTake(s) ==
  /\ stOut[s] = "run"
  /\ stFrame[s] = NoFrame
  /\ outStream[s] # <<>>
  /\ stFrame' = [stFrame EXCEPT ![s] = Head(outStream[s])]
  /\ outStream' = [outStream EXCEPT ![s] = Tail(@)]
  /\ UNCHANGED <<controlVars, readerVars, brokerVars, wireVars, stOut,
                 sentStream, lostStream, dueStream, datagramVars, drops>>

\* A stream is granted and the frame written to it.
StreamWritten(s) ==
  /\ stOut[s] = "run"
  /\ stFrame[s] # NoFrame
  /\ ~ broken[s]
  /\ sentStream' = [sentStream EXCEPT ![s] = Append(@, stFrame[s])]
  /\ stFrame' = [stFrame EXCEPT ![s] = NoFrame]
  /\ UNCHANGED <<controlVars, readerVars, brokerVars, wireVars, stOut,
                 outStream, lostStream, dueStream, datagramVars, drops>>

\* Variant: a write that failed late is tried again from the back of the queue.
StreamWriteRetries(s) ==
  /\ stOut[s] = "run"
  /\ stFrame[s] # NoFrame
  /\ Len(outStream[s]) < OutStreamDepth
  /\ outStream' = [outStream EXCEPT ![s] = Append(@, stFrame[s])]
  /\ sentStream' = [sentStream EXCEPT ![s] = Append(@, stFrame[s])]
  /\ stFrame' = [stFrame EXCEPT ![s] = NoFrame]
  /\ UNCHANGED <<controlVars, readerVars, brokerVars, wireVars, stOut,
                 lostStream, dueStream, datagramVars, drops>>

\* Variant: a failed write ends the writer.
StreamWriteReturns(s) ==
  /\ stOut[s] = "run"
  /\ stFrame[s] # NoFrame
  /\ stOut' = [stOut EXCEPT ![s] = "stopped"]
  /\ lostStream' = [lostStream EXCEPT ![s] = @ \cup {stFrame[s]}]
  /\ stFrame' = [stFrame EXCEPT ![s] = NoFrame]
  /\ UNCHANGED <<controlVars, readerVars, brokerVars, wireVars,
                 outStream, sentStream, dueStream, datagramVars, drops>>

\* A stream is granted, the write to it fails, the loop continues.
StreamWriteFails(s) ==
  /\ stOut[s] = "run"
  /\ stFrame[s] # NoFrame
  /\ lostStream' = [lostStream EXCEPT ![s] = @ \cup {stFrame[s]}]
  /\ stFrame' = [stFrame EXCEPT ![s] = NoFrame]
  /\ UNCHANGED <<controlVars, readerVars, brokerVars, wireVars, stOut,
                 outStream, sentStream, dueStream, datagramVars, drops>>

\* OpenUniStreamSync fails because the session has ended, or streamWriter's
\* select sees the context done.
StreamWriterDone(s) ==
  /\ stOut[s] = "run"
  /\ \/ broken[s] /\ stFrame[s] # NoFrame
     \/ ctxDone[s] /\ stFrame[s] = NoFrame
  /\ stOut' = [stOut EXCEPT ![s] = "stopped"]
  /\ UNCHANGED <<controlVars, readerVars, brokerVars, wireVars, stFrame,
                 outStream, sentStream, lostStream, dueStream, datagramVars,
                 drops>>

-----------------------------------------------------------------------------
(* The transport (webtransport-go).                                        *)

\* The peer closes the session, or the QUIC connection dies.
TransportBreaks(s) ==
  /\ s \in fragile
  /\ control[s] \notin {"new", "gone"}
  /\ ~ broken[s]
  /\ broken' = [broken EXCEPT ![s] = TRUE]
  /\ UNCHANGED <<controlVars, readerVars, brokerVars, ctxDone, wants, fragile,
                 streamVars, datagramVars, drops>>

\* The library then ends the session's context.
ContextEnds(s) ==
  /\ broken[s]
  /\ ~ ctxDone[s]
  /\ ctxDone' = [ctxDone EXCEPT ![s] = TRUE]
  /\ UNCHANGED <<controlVars, readerVars, brokerVars, broken, wants, fragile,
                 streamVars, datagramVars, drops>>

-----------------------------------------------------------------------------

\* One step of each goroutine that does not need the client to send anything.
ControlStep(s) ==
  \/ AcceptFails(s) \/ BrokerSubscribe(s) \/ BrokerUnsubscribe(s)
  \/ Publish(s) \/ PublishReturns(s) \/ Cleanup(s) \/ CloseSession(s)
  \/ \E r \in Sessions : EnqueueStream(s, r)

ReaderStep(s) ==
  \/ ReaderExits(s) \/ PublishDatagram(s) \/ EvictOldest(s)
  \/ PushDatagram(s) \/ PublishDatagramReturns(s)
  \/ \E r \in Sessions : TryEnqueue(s, r)

DatagramWriterStep(s) == SendDatagram(s) \/ DatagramWriterDone(s)

StreamWriterStep(s) ==
  \/ StreamTake(s) \/ StreamWritten(s) \/ StreamWriteFails(s)
  \/ StreamWriterDone(s)

\* What the client and the network do.
Environment(s) ==
  \/ Upgrade(s) \/ AcceptControl(s) \/ ReadControlEnds(s)
  \/ ReceiveBadDatagram(s) \/ TransportBreaks(s) \/ ContextEnds(s)
  \/ \E t \in Topics : ReadSub(s, t) \/ ReadUnsub(s, t)
  \/ \E t \in PubTopics : ReadPub(s, t) \/ ReceiveDatagram(s, t)

Next ==
  \E s \in Sessions :
    \/ ControlStep(s) \/ ReaderStep(s) \/ DatagramWriterStep(s)
    \/ StreamWriterStep(s) \/ Environment(s)

Spec == Init /\ [][Next]_vars

\* Publish serves its copy in an order fixed when it is made, so only when
\* every subscriber left has a place, or is over, is it sure to go on.
Unhindered(s) ==
  \A r \in ctl[s].pending : Len(outStream[r]) < OutStreamDepth \/ ctxDone[r]

\* The Go scheduler runs every goroutine that can go on; a broken transport
\* ends the context and the read of the control stream.  Nothing is assumed
\* of what clients send or of the streams they grant: a writer may wait in
\* OpenUniStreamSync for as long as the session lives.
Fairness ==
  \A s \in Sessions :
    /\ WF_vars(Unhindered(s) /\ ControlStep(s)) /\ WF_vars(ReaderStep(s))
    /\ WF_vars(DatagramWriterStep(s))
    /\ WF_vars(StreamTake(s) \/ StreamWriterDone(s))
    /\ WF_vars(ContextEnds(s))
    /\ WF_vars(broken[s] /\ ReadControlEnds(s))

FairSpec == Spec /\ Fairness

-----------------------------------------------------------------------------
(* Properties.                                                             *)

CtlState == [topic : Topics, seq : Nat, pending : SUBSET Sessions]
DgmState == [topic : Topics, seq : Nat, pending : SUBSET Sessions,
             target : Sessions]

\* Every variable has its type; the queues never exceed the capacity of the
\* channels they stand for (session.go outDatagram, outStream).
TypeOK ==
  /\ topics \in [Topics -> SUBSET Sessions]
  /\ subscribers \in [Topics -> Int]
  /\ drops \in Nat
  /\ control \in [Sessions -> Control]
  /\ ctl \in [Sessions -> CtlState]
  /\ subs \in [Sessions -> SUBSET Topics]
  /\ reader \in [Sessions -> Reader]
  /\ dgm \in [Sessions -> DgmState]
  /\ dgOut \in [Sessions -> Goroutine]
  /\ stOut \in [Sessions -> Goroutine]
  /\ stFrame \in [Sessions -> Frame \cup {NoFrame}]
  /\ outDatagram \in [Sessions -> Seq(Frame)]
  /\ outStream \in [Sessions -> Seq(Frame)]
  /\ \A s \in Sessions : /\ Len(outDatagram[s]) <= OutDatagramDepth
                         /\ Len(outStream[s]) <= OutStreamDepth
  /\ broken \in [Sessions -> BOOLEAN]
  /\ ctxDone \in [Sessions -> BOOLEAN]
  /\ wants \in SUBSET Sessions
  /\ fragile \in SUBSET Sessions
  /\ lastDatagram \in [Sessions -> [Sessions -> Nat]]
  /\ sentStream \in [Sessions -> Seq(Frame)]
  /\ lostStream \in [Sessions -> SUBSET Frame]
  /\ dueStream \in [Sessions -> SUBSET Frame]

\* The PubSubSubscribers gauge, moved by blind Inc and Dec calls in
\* subscribe, unsubscribe and removeSession, is the number of subscribers.
GaugeMatches == \A t \in Topics : subscribers[t] = Cardinality(topics[t])

\* Session.subs and Broker.topics are changed under two different locks, one
\* after the other; they agree on every topic whose change is not half done.
TablesAgree ==
  \A s \in Sessions, t \in Topics :
    \/ s \in topics[t] <=> t \in subs[s]
    \/ control[s] \in {"subscribe", "unsubscribe"} /\ ctl[s].topic = t
    \/ control[s] \in {"close", "gone"}

\* Once serve has removed a session from the broker, no topic holds it again:
\* later publishers do not queue for it.
NoZombieSubscriber ==
  \A s \in Sessions : control[s] \in {"close", "gone"} =>
    \A t \in Topics : s \notin topics[t]

\* In q, the frames of one publisher appear in the order it sent them, each
\* at most once.
InPublishOrder(q) ==
  \A i, j \in DOMAIN q : i < j /\ q[i].from = q[j].from => q[i].seq < q[j].seq

elements(q) == {q[i] : i \in DOMAIN q}

inHand(s) == IF stFrame[s] = NoFrame THEN <<>> ELSE <<stFrame[s]>>

\* What a session is given on streams, and has still to be given, is in
\* publish order for every publisher, though publishers interleave freely.
StreamFIFO ==
  \A r \in Sessions :
    InPublishOrder(sentStream[r] \o inHand(r) \o outStream[r])

\* The frames the clients of a bounded instance send.
Sendable == UNION {[from : {s}, seq : 1..(MaxStreamPubs[s] + MaxDatagrams[s]),
                    topic : Topics] : s \in Sessions}

D == INSTANCE Delivery WITH
       Frame  <- Sendable,
       due    <- dueStream,
       line   <- [r \in Sessions |-> inHand(r) \o outStream[r]],
       given  <- sentStream,
       lost   <- lostStream,
       dead   <- broken,
       dgLine <- outDatagram,
       dgLast <- lastDatagram

\* The broker implements Delivery: subscribers that come and go, queues that
\* fill, evictions that race and writers that fail reorder nothing and repeat
\* nothing, on either surface, and no publisher of stream frames goes on to
\* its next frame past a live subscriber that has not been served.
ImplementsDelivery == D!Spec

\* The streamWriter of r waits for a stream that its client, alive, has not
\* granted.
Ungranted(r) == ~ broken[r] /\ stFrame[r] # NoFrame

\* A Publish of s waits for a place in the queue of r, and r takes nothing out
\* of it.
HeldUp(s, r) ==
  /\ control[s] = "enqueue"
  /\ r \in ctl[s].pending
  /\ Ungranted(r)
  /\ Len(outStream[r]) = OutStreamDepth

\* A session whose transport dies leaves the broker, even out of a Publish that
\* waits for subscribers which die too or are slow.  One thing can keep it for
\* ever: a live subscriber whose client grants no more streams, since
\* enqueueStream looks at the subscriber's context and not at its own.
DeadSessionsLeave ==
  \A s \in Sessions :
    broken[s] ~> (control[s] = "gone" \/ \E r \in Sessions : []HeldUp(s, r))

\* Frames addressed to a session that are on their way to a delivery stream.
underWay(r) == dueStream[r] \ (elements(sentStream[r]) \cup lostStream[r])

\* A stream frame addressed to a session that lives comes to its own delivery
\* stream: it is written, or the write of this very frame fails and
\* streamWriter goes on to the next, so no failure takes a second frame with
\* it.  It stays under way for ever only behind a client, the subscriber's or
\* that of another subscriber its publisher serves first, that grants no more
\* streams.
StreamFramesServed ==
  \A r \in Sessions :
    underWay(r) # {} ~> \/ underWay(r) = {}
                        \/ broken[r]
                        \/ []Ungranted(r)
                        \/ \E s, q \in Sessions : []HeldUp(s, q)

\* A datagram publisher that found a queue full, evicted and lost the freed
\* place to another publisher does not wait for ever, whatever the clients do.
DatagramPublishEnds ==
  \A s \in Sessions : reader[s] = "push" ~> reader[s] # "push"

=============================================================================
