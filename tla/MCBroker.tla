------------------------------ MODULE MCBroker ------------------------------
(* Broker for TLC: a publisher and a subscriber session.                   *)
EXTENDS Broker, TLC

CONSTANTS pub, sub

MCSessions == {pub, sub}
TwoThenOne == (pub :> 2) @@ (sub :> 1)
OneEach == (pub :> 1) @@ (sub :> 1)

firstOf(s) == [from |-> s, seq |-> 1, topic |-> CHOOSE t \in PubTopics : TRUE]
first == firstOf(pub)
before(n) == [s \in MCSessions |-> IF s = pub THEN n ELSE 0]

\* States reached from Init: the sessions in up are up, those in ended are over but for
\* their datagramReader, which goes on with the datagrams that had arrived, and the
\* clients of subscribed have subscribed to every topic.  streams and datagrams are the
\* frames published so far; of those the streamWriter of sub has taken the ones of taken,
\* one at most, and inStream and inDatagram are in its queues.
Opened(up, ended, subscribed, clients, streams, datagrams, taken, inStream, inDatagram) ==
  LET running == [s \in Sessions |-> IF s \in ended THEN "stopped"
                                     ELSE IF s \in up THEN "run" ELSE "off"] IN
  /\ topics = [t \in Topics |-> subscribed]
  /\ subscribers = [t \in Topics |-> Cardinality(subscribed)]
  /\ control = [s \in Sessions |-> IF s \in ended THEN "gone"
                                   ELSE IF s \in up THEN "control" ELSE "new"]
  /\ ctl = [s \in Sessions |-> [topic |-> first.topic, seq |-> streams[s], pending |-> {}]]
  /\ subs = [s \in Sessions |-> IF s \in subscribed THEN Topics ELSE {}]
  /\ reader = [s \in Sessions |-> IF s \in up THEN "receive" ELSE "off"]
  /\ dgm = [s \in Sessions |-> [topic |-> first.topic, seq |-> datagrams[s],
                                pending |-> {}, target |-> sub]]
  /\ dgOut = running /\ stOut = running
  /\ stFrame = [s \in Sessions |-> IF s = sub /\ taken # <<>> THEN taken[1] ELSE NoFrame]
  /\ outDatagram = [s \in Sessions |-> IF s = sub THEN inDatagram ELSE <<>>]
  /\ outStream = [s \in Sessions |-> IF s = sub THEN inStream ELSE <<>>]
  /\ lastDatagram = [s \in Sessions |-> [f \in Sessions |-> 0]]
  /\ sentStream = [s \in Sessions |-> <<>>]
  /\ broken = [s \in Sessions |-> s \in ended]
  /\ ctxDone = [s \in Sessions |-> s \in ended]
  /\ wants = clients
  /\ lostStream = [s \in Sessions |-> {}]
  /\ dueStream = [s \in Sessions |-> IF s = sub THEN elements(taken \o inStream) ELSE {}]

\* Four such states, so that a run explores the schedules of the stream surface, of the
\* datagram surface and of the topic table without their product: what the others would
\* publish, and the datagrams that are refused, came before, to nobody.  In the first,
\* the queue of sub is full, pub has a second frame for it and either transport may
\* break (the other session still ends with its control stream); in the second,
\* transports hold and both publish to that queue, sub as a subscriber of its own topic.
OpenInit ==
  \/ /\ Opened(MCSessions, {}, {sub}, {}, OneEach, MaxDatagrams, <<first>>, <<firstOf(sub)>>, <<>>)
     /\ drops = MaxBadDatagrams /\ \E s \in Sessions : fragile = {s}
  \/ /\ Opened(MCSessions, {}, {sub}, {}, before(1), MaxDatagrams, <<>>, <<first>>, <<>>)
     /\ drops = MaxBadDatagrams /\ fragile = {}
  \/ /\ Opened(MCSessions, {pub}, {sub}, {}, MaxStreamPubs, before(1), <<>>, <<>>, <<first>>)
     /\ drops = MaxBadDatagrams /\ fragile = Sessions
  \/ /\ Opened({pub}, {pub}, {}, {sub}, MaxStreamPubs, before(2), <<>>, <<>>, <<>>)
     /\ drops = 0 /\ fragile = Sessions

OpenFairSpec == OpenInit /\ [][Next]_vars /\ Fairness
=============================================================================
