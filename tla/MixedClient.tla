----------------------------- MODULE MixedClient -----------------------------
(***************************************************************************)
(* A client process in role mixed (internal/roles): Mixed.Run, the four    *)
(* roles it starts, and the control stream that the subscriber and the     *)
(* publisher share through PubSubSession.writeControl.                     *)
(*                                                                         *)
(* The control stream is a stream of bytes (module Wire).  A frame enters  *)
(* it as the header and then the body, each in as many pieces as flow      *)
(* control makes of it.  Nothing in the stream marks where a frame starts: *)
(* the server takes the next bytes for a header, whatever they are.        *)
(*                                                                         *)
(* The client is subscribed to the topic it publishes commands on, so its  *)
(* commands come back.  The way back (the broker's outStream, the delivery *)
(* streams, the channel incoming) is one queue here, with a capacity.      *)
(* Broker and PubSubClient have its parts.  The other subscribers of the   *)
(* topic are one peer: there is a place in its queue when it likes.        *)
(*                                                                         *)
(* The requests and the session share one QUIC connection; a request that  *)
(* finds it dead dials, with sharedMu locked.  Module SharedConn has the   *)
(* details, and how the wait for the HTTP/3 settings ends when it fails:   *)
(* the call waits for ever for the sharedMu that it keeps itself.          *)
(*                                                                         *)
(* The contexts the roles pass have no deadline: a write ends when it is   *)
(* complete or when the session ends.                                      *)
(***************************************************************************)
EXTENDS Wire, SequencesExt

CONSTANTS
  Requesters,  \* the roles that only make HTTP requests: poller, uploader
  PayloadLen,  \* bytes of the payload of a command
  Window,      \* flow control: bytes of the control stream not read yet
  PathDepth,   \* capacity of the way back to the subscriber
  MaxCommands  \* bound: commands of the publisher

Writers == {"subscriber", "publisher"}
Roles == Writers \cup Requesters
None == "none"

\* The subscribers of the commands: this client, and the others.
Subscribers == {"own", "peer"}

\* The topics of role mixed when the flags name no others, by their first letters.
Telemetry == <<116>>
Command == <<99>>
Topics == <<Telemetry, Command>>

SubFrame(i) == [kind |-> KindSub, topic |-> Topics[i], payload |-> <<>>]

\* The payload of a command tells it from the others.
PubFrame(i) ==
  [kind |-> KindPub, topic |-> Command, payload |-> [n \in 1..PayloadLen |-> i]]

Frames == {SubFrame(i) : i \in 1..Len(Topics)} \cup {PubFrame(i) : i \in 1..MaxCommands}

ASSUME Parameters ==
  /\ Requesters \subseteq {"poller", "uploader"}
  /\ MaxCommands \in 1..255 /\ PathDepth \in Nat \ {0}
  /\ PayloadLen \in Nat \ {0} /\ Window \in Nat
  /\ \A f \in Frames :
       Encodable(f) /\ Len(Encode(f)) < Huge /\ Len(streamFrame(f)) <= Window

VARIABLES
  cancelled,  \* the context of the process is done
  run,        \* where Mixed.Run is
  pc,         \* where each role is
  errCh,      \* roles whose error is in errCh
  subscribed, \* topics the subscriber has subscribed to, in order
  published,  \* calls of publishCommand that have returned
  sessionUp,  \* the pubsub session has not ended
  connUp,     \* the shared connection is there
  sharedMu,   \* the role that keeps Client.sharedMu while it dials
  scope,      \* commands the publisher has, and whether the connection may die; never changes
  writeMu,    \* the role in the critical section of writeControl
  written,    \* bytes of its frame that each writer has written
  order,      \* frames in the order their headers were written
  control,    \* the unread part of the control stream
  reader,     \* readControl: reading, publishing to the subscribers, stopped
  handled,    \* frames readControl has taken
  todo,       \* the subscribers Broker.Publish has still to serve, in order
  path        \* messages on the way to the subscriber

runVars == <<cancelled, run, errCh>>
lockVars == <<writeMu, written, order>>
countVars == <<subscribed, published>>
serverVars == <<reader, handled, todo>>
connVars == <<connUp, sharedMu, scope>>
vars == <<runVars, pc, lockVars, countVars, sessionUp, connVars, control, serverVars, path>>

Scope == [commands : 1..MaxCommands, lossy : BOOLEAN]

\* Mixed.Run has started the subscriber and waits for its timer.
Init ==
  /\ cancelled = FALSE /\ run = "timer" /\ errCh = {}
  /\ pc = [r \in Roles |-> IF r = "subscriber" THEN "enter" ELSE "off"]
  /\ subscribed = 0 /\ published = 0
  /\ sessionUp = TRUE /\ writeMu = None /\ written = [r \in Writers |-> 0] /\ order = <<>>
  /\ connUp = TRUE /\ sharedMu = None /\ scope \in Scope
  /\ control = <<>> /\ reader = "read" /\ handled = <<>> /\ todo = <<>>
  /\ path = 0

Goto(r, label) == pc' = [pc EXCEPT ![r] = label]

Alive == run # "exit"

\* The goroutine of a role ends with an error: it is reported unless the
\* process is stopping.
Fails(r) ==
  /\ Goto(r, "done")
  /\ errCh' = IF cancelled THEN errCh ELSE errCh \cup {r}
  /\ UNCHANGED <<cancelled, run>>

-----------------------------------------------------------------------------
(* Mixed.Run and its caller                                                *)

Started == [r \in Roles |->
              CASE r = "publisher" -> "telemetry"
                [] r \in Requesters -> "request"
                [] OTHER -> pc[r]]

\* The timer fires: the other roles start.
StartRoles ==
  /\ run = "timer"
  /\ run' = "select"
  /\ pc' = Started
  /\ UNCHANGED <<cancelled, errCh, lockVars, countVars, sessionUp, connVars, control, serverVars, path>>

\* A select of Mixed.Run takes ctx.Done().
SeesCancel ==
  /\ run \in {"timer", "select"} /\ cancelled
  /\ run' = "drain"
  /\ UNCHANGED <<cancelled, pc, errCh, lockVars, countVars, sessionUp, connVars, control, serverVars, path>>

\* wg.Wait() returned.
Drained ==
  /\ run = "drain"
  /\ \A r \in Roles : pc[r] \in {"off", "done"}
  /\ run' = "nil"
  /\ UNCHANGED <<cancelled, pc, errCh, lockVars, countVars, sessionUp, connVars, control, serverVars, path>>

\* Variant: Run takes an error only after every role has returned.
SeesErrorWaits ==
  /\ run = "select" /\ errCh # {}
  /\ \A r \in Roles : pc[r] \in {"off", "done"}
  /\ \E r \in errCh : errCh' = errCh \ {r}
  /\ run' = "err"
  /\ UNCHANGED <<cancelled, pc, lockVars, countVars, sessionUp, connVars, control, serverVars, path>>

\* The last select takes an error.
SeesError ==
  /\ run = "select" /\ errCh # {}
  /\ \E r \in errCh : errCh' = errCh \ {r}
  /\ run' = "err"
  /\ UNCHANGED <<cancelled, pc, lockVars, countVars, sessionUp, connVars, control, serverVars, path>>

\* The caller's deferred ps.Close() and stop(), which cancels the context.
ClosePubSub ==
  /\ run \in {"nil", "err"}
  /\ run' = "close"
  /\ sessionUp' = FALSE /\ cancelled' = TRUE
  /\ UNCHANGED <<pc, errCh, lockVars, countVars, connVars, control, serverVars, path>>

\* Its deferred c.Close(), which locks sharedMu; then the process exits.
Exit ==
  /\ run = "close" /\ sharedMu = None
  /\ run' = "exit"
  /\ connUp' = FALSE
  /\ UNCHANGED <<cancelled, pc, errCh, lockVars, countVars, sessionUp, sharedMu, scope,
                 control, serverVars, path>>

\* SIGINT or SIGTERM.
Cancel ==
  /\ Alive /\ ~ cancelled
  /\ cancelled' = TRUE
  /\ UNCHANGED <<run, pc, errCh, lockVars, countVars, sessionUp, connVars, control, serverVars, path>>

\* The server ends the session.
SessionEnds ==
  /\ sessionUp
  /\ sessionUp' = FALSE
  /\ UNCHANGED <<runVars, pc, lockVars, countVars, connVars, control, serverVars, path>>

\* The connection dies, with its session.
ConnDies ==
  /\ connUp /\ scope.lossy
  /\ connUp' = FALSE /\ sessionUp' = FALSE
  /\ UNCHANGED <<runVars, pc, lockVars, countVars, sharedMu, scope, control, serverVars, path>>

-----------------------------------------------------------------------------
(* writeControl                                                            *)

frameOf(r) ==
  IF r = "subscriber" THEN SubFrame(subscribed + 1) ELSE PubFrame(published + 1)

\* Its bytes.
SubBytes == [i \in 1..Len(Topics) |-> streamFrame(SubFrame(i))]
PubBytes == [i \in 1..MaxCommands |-> streamFrame(PubFrame(i))]
bytesOf(r) == IF r = "subscriber" THEN SubBytes[subscribed + 1] ELSE PubBytes[published + 1]

frameLen(r) == Len(bytesOf(r))

\* What the caller of writeControl does with its result.  The subscriber stops at the
\* first error and reads messages after the last topic; the publisher logs the error.
Return(r, ok) ==
  IF r = "publisher"
  THEN /\ published' = published + 1
       /\ Goto(r, "loop")
       /\ UNCHANGED <<runVars, subscribed>>
  ELSE IF ok
  THEN /\ subscribed' = subscribed + 1
       /\ Goto(r, IF subscribed + 1 = Len(Topics) THEN "loop" ELSE "enter")
       /\ UNCHANGED <<runVars, published>>
  ELSE Fails(r) /\ UNCHANGED countVars

\* ctx.Err().
writeControl(r) ==
  /\ Alive /\ pc[r] = "enter"
  /\ IF cancelled
     THEN Return(r, FALSE)
     ELSE Goto(r, "lock") /\ UNCHANGED <<runVars, countVars>>
  /\ UNCHANGED <<lockVars, sessionUp, connVars, control, serverVars, path>>

\* Variant: no mutex.
LockSkipped(r) ==
  /\ Alive /\ pc[r] = "lock"
  /\ writeMu' = r /\ written' = [written EXCEPT ![r] = 0]
  /\ Goto(r, "write")
  /\ UNCHANGED <<runVars, order, countVars, sessionUp, connVars, control, serverVars, path>>

Lock(r) ==
  /\ Alive /\ pc[r] = "lock" /\ writeMu = None
  /\ writeMu' = r /\ written' = [written EXCEPT ![r] = 0]
  /\ Goto(r, "write")
  /\ UNCHANGED <<runVars, order, countVars, sessionUp, connVars, control, serverVars, path>>

\* WriteStreamFrame writes the header, then the body; of each, what the window has room
\* for enters the stream at once.
WriteStreamFrame(r) ==
  LET head == varintLen(bytesOf(r)[1])
      until == IF written[r] < head THEN head ELSE frameLen(r)
      now == Min({until, written[r] + Window - Len(control)})
  IN /\ Alive /\ pc[r] = "write" /\ sessionUp
     /\ now > written[r]
     /\ control' = control \o SubSeq(bytesOf(r), written[r] + 1, now)
     /\ written' = [written EXCEPT ![r] = now]
     /\ order' = IF written[r] = 0 THEN Append(order, frameOf(r)) ELSE order
     /\ UNCHANGED <<runVars, pc, writeMu, countVars, sessionUp, connVars, serverVars, path>>

\* Variant: a return that leaves the mutex locked on the error path.
UnlockOnlyOk(r) ==
  /\ Alive /\ pc[r] = "write"
  /\ \/ written[r] = frameLen(r) /\ Return(r, TRUE) /\ writeMu' = None
     \/ ~ sessionUp /\ Return(r, FALSE) /\ UNCHANGED writeMu
  /\ UNCHANGED <<written, order, sessionUp, connVars, control, serverVars, path>>

\* writeControl returns: the frame is written, or the session ended.
Unlock(r) ==
  /\ Alive /\ pc[r] = "write"
  /\ \/ written[r] = frameLen(r) /\ Return(r, TRUE)
     \/ ~ sessionUp /\ Return(r, FALSE)
  /\ writeMu' = None
  /\ UNCHANGED <<written, order, sessionUp, connVars, control, serverVars, path>>

-----------------------------------------------------------------------------
(* The loops of the roles                                                  *)

\* PublishDatagram, at the start and on every tick; no lock, any result.
publishTelemetry ==
  /\ Alive /\ pc["publisher"] = "telemetry"
  /\ Goto("publisher", IF published = 0 THEN "enter" ELSE "loop")
  /\ UNCHANGED <<runVars, lockVars, countVars, sessionUp, connVars, control, serverVars, path>>

TelemetryTick ==
  /\ Alive /\ pc["publisher"] = "loop"
  /\ Goto("publisher", "telemetry")
  /\ UNCHANGED <<runVars, lockVars, countVars, sessionUp, connVars, control, serverVars, path>>

publishCommand ==
  /\ Alive /\ pc["publisher"] = "loop" /\ published < scope.commands
  /\ Goto("publisher", "enter")
  /\ UNCHANGED <<runVars, lockVars, countVars, sessionUp, connVars, control, serverVars, path>>

\* What a step of a request leaves alone.
RequestFrame ==
  UNCHANGED <<runVars, lockVars, countVars, sessionUp, control, serverVars, path>>

\* A request of PollOnce or UploadOnce (one stands for those of a round) asks for the
\* shared connection.  The round trip over it, which touches nothing else, belongs to the
\* step; an error is logged.
RequestReturns(r) ==
  /\ Alive /\ pc[r] = "request" /\ sharedMu = None /\ connUp
  /\ Goto(r, "loop")
  /\ UNCHANGED connVars /\ RequestFrame

\* getSharedConn finds the connection dead and dials another one, under sharedMu.
getSharedConn(r) ==
  /\ Alive /\ pc[r] = "request" /\ sharedMu = None /\ ~ connUp
  /\ Goto(r, "dial")
  /\ sharedMu' = r
  /\ UNCHANGED <<connUp, scope>> /\ RequestFrame

\* newSharedConn: the dial fails, or it succeeds and the HTTP/3 settings come, or they do
\* not: when the context is cancelled, the connection dies or the settings do not do,
\* close() locks sharedMu, which this request keeps.
DialFails(r) ==
  /\ Alive /\ pc[r] = "dial"
  /\ Goto(r, "loop")
  /\ sharedMu' = None
  /\ UNCHANGED <<connUp, scope>> /\ RequestFrame

SettingsArrive(r) ==
  /\ Alive /\ pc[r] = "dial"
  /\ Goto(r, "loop")
  /\ connUp' = TRUE /\ sharedMu' = None
  /\ UNCHANGED scope /\ RequestFrame

SettingsFail(r) ==
  /\ Alive /\ pc[r] = "dial"
  /\ Goto(r, "wedged")
  /\ UNCHANGED connVars /\ RequestFrame

RequestTick(r) ==
  /\ Alive /\ pc[r] = "loop"
  /\ Goto(r, "request")
  /\ UNCHANGED <<runVars, lockVars, countVars, sessionUp, connVars, control, serverVars, path>>

\* The select of a role takes ctx.Done().
RoleStops(r) ==
  /\ Alive /\ pc[r] = "loop" /\ cancelled
  /\ Goto(r, "done")
  /\ UNCHANGED <<runVars, lockVars, countVars, sessionUp, connVars, control, serverVars, path>>

\* The subscriber takes a message.
Receive ==
  /\ Alive /\ pc["subscriber"] = "loop" /\ path > 0
  /\ path' = path - 1
  /\ UNCHANGED <<runVars, pc, lockVars, countVars, sessionUp, connVars, control, serverVars>>

\* The channel of messages is closed: the subscriber returns without an error.
SeesEnd ==
  /\ Alive /\ pc["subscriber"] = "loop" /\ ~ sessionUp
  /\ Goto("subscriber", "done")
  /\ UNCHANGED <<runVars, lockVars, countVars, sessionUp, connVars, control, serverVars, path>>

-----------------------------------------------------------------------------
(* The server's end of the control stream                                  *)

Subscriptions == {f.topic : f \in {x \in Range(handled) : x.kind = KindSub}}

\* Whom Broker.Publish serves, in the order of its copy of the topic.
Served(topic) ==
  IF topic \in Subscriptions THEN {<<"own", "peer">>, <<"peer", "own">>} ELSE {<<"peer">>}

\* ReadStreamFrame and what readControl does with its frame.  An error ends serve, which
\* closes the session.
ReadStreamFrame ==
  /\ sessionUp /\ reader = "read" /\ hasFrame(control)
  /\ LET frame == readFrame(control)
     IN /\ handled' = Append(handled, frame)
        /\ sessionUp' = (frame # Invalid)
        /\ IF frame.kind = KindPub
           THEN reader' = "publish" /\ todo' \in Served(frame.topic)
           ELSE /\ reader' = IF frame = Invalid THEN "stopped" ELSE "read"
                /\ UNCHANGED todo
  /\ control' = Drop(control, frameEnd(control))
  /\ UNCHANGED <<runVars, pc, lockVars, countVars, connVars, path>>

\* Broker.Publish hands the command to the next subscriber q, this client's own session
\* or the peer: it waits for a place in the queue of q, or for the end of q.
Publish(q) ==
  /\ reader = "publish" /\ Head(todo) = q
  /\ IF q = "own"
     THEN \/ path < PathDepth /\ path' = path + 1
          \/ ~ sessionUp /\ UNCHANGED path
     ELSE UNCHANGED path
  /\ todo' = Tail(todo)
  /\ reader' = IF todo' = <<>> THEN "read" ELSE "publish"
  /\ UNCHANGED <<runVars, pc, lockVars, countVars, sessionUp, connVars, control, handled>>

\* A command of another client.
OtherPublishes ==
  /\ sessionUp /\ Command \in Subscriptions /\ path < PathDepth
  /\ path' = path + 1
  /\ UNCHANGED <<runVars, pc, lockVars, countVars, sessionUp, connVars, control, serverVars>>

\* readControl returns: the session has ended.
ReaderStops ==
  /\ ~ sessionUp /\ reader = "read"
  /\ reader' = "stopped"
  /\ UNCHANGED <<runVars, pc, lockVars, countVars, sessionUp, connVars, control, handled, todo,
                 path>>

-----------------------------------------------------------------------------
Write(r) == writeControl(r) \/ Lock(r) \/ WriteStreamFrame(r) \/ Unlock(r)

Request(r) ==
  \/ RequestReturns(r) \/ getSharedConn(r)
  \/ DialFails(r) \/ SettingsArrive(r) \/ SettingsFail(r)

Server == ReadStreamFrame \/ ReaderStops

Main == StartRoles \/ SeesCancel \/ Drained \/ SeesError \/ ClosePubSub \/ Exit

Next ==
  \/ Main \/ Cancel \/ SessionEnds \/ ConnDies
  \/ \E r \in Writers : Write(r)
  \/ publishTelemetry \/ TelemetryTick \/ publishCommand
  \/ \E r \in Requesters : Request(r) \/ RequestTick(r)
  \/ \E r \in Roles : RoleStops(r)
  \/ Receive \/ SeesEnd
  \/ Server \/ OtherPublishes \/ \E q \in Subscribers : Publish(q)

Spec == Init /\ [][Next]_vars

(***************************************************************************)
(* Goroutines that can run do, on both ends; a select picks at random      *)
(* among the cases that are ready, so the one on ctx.Done(), once it is    *)
(* ready at every round, is taken.  Once its context is cancelled, what a  *)
(* request waits for in the network ends: a round trip, a dial and, one    *)
(* way or the other, the wait for the settings; what it waits for in       *)
(* sharedMu need not.  Ticks, messages, other clients and their queues,    *)
(* signals, the end of the session and that of the connection are not      *)
(* assumed.                                                                *)
(***************************************************************************)
Fairness ==
  /\ WF_vars(Main) /\ WF_vars(Server) /\ WF_vars(Publish("own")) /\ WF_vars(publishTelemetry)
  /\ \A r \in Writers : WF_vars(Write(r))
  /\ \A r \in Requesters : WF_vars(cancelled /\ Request(r))
  /\ \A r \in Roles : SF_vars(RoleStops(r))

FairSpec == Spec /\ Fairness

-----------------------------------------------------------------------------
(* Properties                                                              *)

\* Where a requester is in a request.
Calling == {"request", "dial", "wedged"}

\* The variables have their types.  What readControl takes from the stream of bytes is a
\* frame that this client sends, never Invalid.
TypeOK ==
  /\ cancelled \in BOOLEAN /\ sessionUp \in BOOLEAN
  /\ run \in {"timer", "select", "drain", "nil", "err", "close", "exit"}
  /\ pc \in [Roles -> {"off", "enter", "lock", "write", "telemetry", "loop", "done"} \cup Calling]
  /\ connUp \in BOOLEAN /\ sharedMu \in Requesters \cup {None} /\ scope \in Scope
  /\ errCh \subseteq Roles
  /\ subscribed \in 0..Len(Topics) /\ published \in 0..MaxCommands
  /\ writeMu \in Writers \cup {None} /\ written \in [Writers -> 0..Window]
  /\ order \in Seq(Frames) /\ control \in Seq(Byte)
  /\ reader \in {"read", "publish", "stopped"}
  /\ handled \in Seq(Frames) /\ todo \in Seq(Subscribers)
  /\ path \in 0..PathDepth

\* The server handles the frames that were written, whole and in the order in which
\* writeControl let them in, although the subscriber may still be subscribing when
\* Mixed.Run starts the publisher on the same control stream.
ControlFramesWhole == IsPrefix(handled, order)

\* A command cannot be written: the control stream is full, and readControl waits for
\* room in the queue of the subscriber q.
Blocked(q) ==
  /\ sessionUp /\ writeMu # None /\ Len(control) = Window
  /\ reader = "publish" /\ Head(todo) = q

\* The way back to this client is full, and the subscriber that would make the room has
\* already stopped.
EchoBlocked == Blocked("own") /\ path = PathDepth /\ pc["subscriber"] = "done"

\* The peer, or what it is one of, takes nothing.
PeerBlocked == Blocked("peer")

\* A request waits for the sharedMu that it keeps.
Wedged == \E r \in Requesters : pc[r] = "wedged" /\ sharedMu = r

\* A cancelled process exits, whatever its roles are at.  Three things can keep it for
\* ever, and no other: its publisher is caught in the echo of its own commands, or
\* behind another subscriber that takes nothing, or a request was waiting for the
\* settings of a new connection, and never lets go of what wg.Wait() and c.Close() need.
ShutdownCompletes ==
  cancelled ~> (run = "exit" \/ []EchoBlocked \/ []PeerBlocked \/ []Wedged)

\* The error of one role ends the process although the other roles go on.
FailureEndsRun == (errCh # {}) ~> (run \in {"err", "drain", "nil", "close", "exit"})
=============================================================================
