------------------------------ MODULE MCMixed -------------------------------
(***************************************************************************)
(* The mixed client for TLC, and the codec it uses at the lengths where    *)
(* the form of a length changes.                                           *)
(***************************************************************************)
EXTENDS MixedClient

\* The subscriber has subscribed, the first command has been read and waits for the
\* subscribers; the roles wait for their ticks.
Settled ==
  /\ cancelled = FALSE /\ run = "select" /\ errCh = {}
  /\ pc = [r \in Roles |-> "loop"] /\ subscribed = Len(Topics) /\ published = 1
  /\ sessionUp = TRUE /\ connUp = TRUE /\ sharedMu = None /\ writeMu = None
  /\ written = [r \in Writers |-> IF r = "publisher" THEN Len(PubBytes[1]) ELSE Len(SubBytes[2])]
  /\ order = <<SubFrame(1), SubFrame(2), PubFrame(1)>> /\ handled = order
  /\ control = <<>> /\ path = 0 /\ reader = "publish" /\ todo \in Served(Command)

\* One command, from a client that is still subscribing, over a connection that may die;
\* and two more that pile up behind the first.
OpenInit ==
  \/ Init /\ scope = [commands |-> 1, lossy |-> TRUE]
  \/ Settled /\ scope = [commands |-> MaxCommands, lossy |-> FALSE]

OpenFairSpec == OpenInit /\ [][Next]_vars /\ Fairness

Bytes(n) == [i \in 1..n |-> i % 256]

Boundary ==
  [kind : {KindPub}, topic : {Bytes(n) : n \in {1, 63, 64, 16383, 16384}},
   payload : {Bytes(n) : n \in {0, 1, 61, 62, 63}}]

\* A frame comes back from its bytes, alone or at the head of a stream.
ASSUME RoundTrip ==
  \A f \in Boundary :
    /\ Decode(Encode(f)) = f
    /\ LET s == streamFrame(f) \o <<1>>
       IN hasFrame(s) /\ readFrame(s) = f /\ frameEnd(s) = Len(s) - 1

\* No part of a frame is taken for a frame.
ASSUME NoShorter ==
  \A f \in {x \in Boundary : Len(x.topic) < 65} :
    \A n \in 0..(Len(streamFrame(f)) - 1) : ~ hasFrame(SubSeq(streamFrame(f), 1, n))

\* A length that is not in its shortest form is read; one that is beyond the data is not.
ASSUME LongForms ==
  /\ Decode(<<KindSub, 64, 1, 7, 8>>) = [kind |-> KindSub, topic |-> <<7>>, payload |-> <<8>>]
  /\ Decode(<<KindSub, 192, 0, 0, 0, 0, 0, 0, 1, 7>>)
       = [kind |-> KindSub, topic |-> <<7>>, payload |-> <<>>]
  /\ Decode(<<KindSub, 255, 255, 255, 255, 255, 255, 255, 255, 7>>) = Invalid
  /\ Decode(<<KindSub, 2, 7>>) = Invalid /\ Decode(<<KindSub, 64>>) = Invalid
=============================================================================
