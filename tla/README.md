# quixiot: a TLA+ verification project

This directory holds TLA+ modules for quixiot, a fleet of simulated IoT clients
that talk HTTP/3 and WebTransport to a server through a network-impairment proxy.
Each module is written from the Go code and can be read beside it. TLC checks the
modules on small instances. TLAPS checks the proofs of the theorems. The
definition-by-definition correspondence with the source is the `map` of
`PROJECT.json`, which also lists components, runs, mutants, findings and hazards.

    tlc -workers 2 -config Loop.cfg MCApplyLoop      # a run: config, then module
    tlapm BrokerProofs.tla                           # the proofs of a module

## 1. The system

A client opens one QUIC connection to the server, usually through the proxy. On it
it makes HTTP/3 requests (poll state, upload files) and holds one pubsub session
(WebTransport) with a control stream, datagrams, and one unidirectional stream per
delivered message. The server has a broker for pubsub and a directory for uploads.
The proxy forwards UDP packets both ways and drops, duplicates, reorders and delays
them on the way.

### Inventory

| Component (code) | State | Operations | Interacts through | What is hard |
|---|---|---|---|---|
| Broker (`internal/broker`) | `Broker.topics`, `Session.subs`, the subscriber gauge, two bounded queues per session | subscribe, unsubscribe, Publish, removeSession, the two writers, the datagram reader | a mutex, channels, session contexts | four goroutines per session; publishers wait for other sessions' queues; fan-out from a copy made under a lock |
| Impairment pipeline (`internal/impair/pipeline.go`) | heap of scheduled packets, the held packet, `bandwidthReady`, the counter | Enqueue, Flush, NextWake, ReleaseReady | called by one loop | a held packet with no successor; ties; jitter against a serialised link |
| Proxy apply loops (`proxy.go` applyLoop, flushReady, resetTimer) | a pipeline, a timer | receive, release, rearm, final flush | channel, timer, `s.done` | the timer is stopped, drained and rearmed by the loop that selects on it |
| Proxy session table (`proxy.go` Serve, sweepLoop, Close, removeSession) | `Proxy.sessions`, the gauge, each session's `done` | create, touch, evict, remove, close | a mutex that is released to dial and to close | up to five goroutines close one session; stale removers |
| Proxy session goroutines (`proxy.go` acceptLoop, toServerLoop, returnReadLoop, toClientLoop) | three channels | receive, hand on, write, close | bounded channels, `s.done` | a reader that has ended before its writer |
| Shared connection (`internal/client/shared_conn.go`, `client.go`) | `Client.shared`, `closed`, sessions of a connection, `closeOnce` | getSharedConn, dial, wait for settings, register, close, accept loops, monitors | `sharedMu`, the sessions' mutex, `sync.Once` | close() is called from five places, some of which hold a lock it takes |
| Pubsub session, client side (`internal/client/pubsub.go`, `shared_conn.go`) | `uniQueue`, `incoming`, the session's context | enqueue a stream, accept, read frames, deliver, close | two channels that are closed while others send | sends racing with closes |
| Client roles (`internal/roles`) | the four roles of `Mixed.Run`, the control stream | subscribe, publish, poll, upload, receive | `writeMu`, `errCh`, contexts | a shared stream without frame marks; shutdown waits for writers |
| Upload storage (`internal/upload`, prune in `server.New`) | the upload directory and its `.tmp` | ServeHTTP, PruneDir | the file system, with no lock | concurrent prunes; a process that stops anywhere |
| Rotating log (`internal/logging`) | active file, numbered backups, `w.file`, `w.size` | Write, rotate, open | the file system, one mutex | a rotation that fails or stops half way |
| Wire codec (`internal/wire`) | none | Encode, Decode, stream framing | bytes of streams and datagrams | lengths in four forms; a stream without frame marks |
| Server process (`internal/server`, `cmd/server`) | listener, transport, `closeOnce`, connections, the gauge `ConnectionsActive` | New, Serve, accept, ConnContext, Close, exit | the context, `sync.Once`, connection contexts | two goroutines close; the process ends while handlers run |
| Fleet and client processes (`cmd/fleet`, `cmd/client`) | client processes, `errCh`, a context | start, pause, wait, signal, kill, exit | processes, signals | signals against context cancellation; a fleet that ends before its goroutines have acted |
| Profiles, metrics, TLS, configuration, scripts | tables, collectors, files | load, register, generate | | none that is stateful and concurrent |

### What makes each component correct

* **Broker.** The three records of a subscription agree; a session that is gone is
  in no topic; stream frames reach every subscriber in publish order and without
  loss while its delivery streams work (one that fails loses its own frame); datagrams may be lost but are never reordered or
  repeated; a dead session leaves, unless its own publish waits for a live client that
  takes nothing.
* **Pipeline and loop.** Packets leave in the order of their schedule, overtaking is
  what the profile asks for, no packet leaves early or is scheduled too late, no copy
  is unaccounted for, and everything leaves without help from a later packet.
* **Proxy table.** The table maps open sessions only, an open session is reachable
  or in the hands of somebody who will close it, the gauge counts the open ones, and
  Serve ends after cancellation.
* **Session goroutines.** Nothing is lost between them, no wait is for ever, and all
  end with the session.
* **Shared connection.** At most one live connection, none after Close, a late close
  does not hurt the successor, sessions of a dead connection end, calls return.
* **Client session.** Messages arrive in order and without gaps while the session
  lives, and its end releases everyone.
* **Roles.** The server reads the control frames whole and in order, the error of one
  role ends the process, and so does a signal.
* **Uploads.** The cap holds up to uploads in flight, files are complete, prunes find
  enough to remove.
* **Log.** Files within the cap, backups in order, only the oldest records lost.
* **Wire.** A frame comes back from its bytes whatever its lengths, and no part of a
  frame is taken for one.
* **Server process and fleet.** A server that is told to stop does, and only when its
  connections have ended; the failure of a client ends the fleet; a fleet that is told
  to stop should tell its clients (it need not: run `fleet_signal`); the gauge forgets
  clients however they went.

The hazards behind these, each at the line where it bites, are in `PROJECT.json`.

## 2. Modules

| Module | Models | Role |
|---|---|---|
| `Delivery` | | abstract specification: what the broker promises |
| `Broker` | `broker.go`, `session.go` | specification; implements `Delivery` |
| `MCBroker` | | instance for TLC |
| `BrokerProofs` | | theorems about `Broker` |
| `Pipeline` | `impair/pipeline.go` | operators, used by `ApplyLoop` |
| `DelayLine` | | abstract specification: what a direction of the proxy is to its packets |
| `ApplyLoop` | applyLoop, flushReady, resetTimer | composes the pipeline with its loop and the clock; implements `DelayLine` |
| `MCApplyLoop` | | instance for TLC |
| `ApplyLoopProofs` | | theorems about `ApplyLoop` |
| `ProxySessions` | the session table and everyone who changes it | specification |
| `SessionLoops` | the goroutines of one session and their channels | specification |
| `MCProxy` | | instance for TLC of both; they share no variable, so a behaviour shows one of them |
| `ProxyProofs` | | theorems about `ProxySessions` and `SessionLoops` |
| `SharedConn` | the client's shared QUIC connection | specification |
| `SharedConnProofs` | | theorems about `SharedConn` |
| `PubSubClient` | the receiving side of a pubsub session | specification |
| `PubSubClientProofs` | | theorems about `PubSubClient` |
| `Wire` | `wire/frame.go` and quicvarint | operators on bytes, used by `MixedClient` |
| `MixedClient` | role mixed and the control stream | composes the roles, writeControl, the codec and an abstract way back |
| `MCMixed` | | instance for TLC, with assumptions about the codec that TLC evaluates |
| `MixedClientProofs` | | theorems about `Wire` and `MixedClient` |
| `ServerProcess` | `server.go` New, Serve, Close; `cmd/server` run | specification of one side of `Stack` |
| `Fleet` | `cmd/fleet` run, `cmd/client` as a process | specification of the other side |
| `Stack` | a server, a fleet and the connections between them | composition |
| `UploadStore` | the upload directory | specification |
| `UploadStoreProofs` | | theorems about `UploadStore` |
| `RotatingLog` | the rotating log file | specification |
| `RotatingLogProofs` | | theorems about `RotatingLog` |

A step of a module is what a goroutine does between two points where another can
interfere: a critical section, one `select`, one system call. Definitions have the
names of the functions they come from; where one function is several steps, the steps
are named for what they do (`TryEnqueue`, `EvictOldest` and `PushDatagram` are the
three selects of `enqueueDatagram`). A definition whose comment starts with
`Variant:` is a faulty version of the one below it. It is never part of `Next`; it
serves to show that a property would notice the fault.

**Broker.** `control` is the goroutine in `serve` and `readControl`, including the
cleanup when it ends; `reader`, `dgOut`, `stOut` are the other three. `ctl[s].pending`
and `dgm[s].pending` are what is left of the copy of the subscribers that `Publish`
made under the lock. A frame is publisher, number and topic. `broken` is the transport
below a session: it breaks in an environment action, after which reads and writes fail
and `ContextEnds` follows. `fragile` says whose transport may break and `wants` whose clients
subscribe (both are fixed by the initial state), `PubTopics` what may be published. A client may
grant the stream that a `streamWriter` asks for, and need not.

**Delivery.** For each subscriber a line of stream frames that were taken over and not
written, what it was given, what a failed delivery stream lost, and a line of datagrams.
The abstract publisher may not go on while a live subscriber has not taken over its last
frame; a frame may only be lost by a delivery stream that fails or a session that dies;
datagrams may be dropped anywhere and are given in order. `D` in `Broker` maps `outStream` with the frame
in the writer's hand to the line, `sentStream` to what was given and `broken` to death.

**Pipeline, ApplyLoop.** A roll with probability strictly between 0 and 1 has both
outcomes. Each pipeline operation maps a state to the set of its possible results.
Time is a counter that advances while the loop is anywhere, also between reading the
clock and using it. `cut` is the instant `ReleaseReady` was called with. `DelayLine`
knows only arrivals, how many copies of each packet are inside, and the packets that came
out; `L` in `ApplyLoop` counts the copies that are queued, held or in the loop's hand. The timer is
its deadline: `go.mod` asks for a Go whose timer channels hold no stale value after `Stop` and
`Reset`, so the drain in `resetTimer` finds nothing.

**ProxySessions.** A session is an identity with the client address it is keyed by.
The dial happens outside the lock (`dial`, `insert`), sweeper and Close unmap under
the lock and close one session at a time after it. `Insert` has the branch for a session
that is already there; it is never taken, for Serve is the only one that inserts. `loops` says for each loop of a
session how far it is in `removeSession`.

**SessionLoops.** Packets are counted, not named; an apply loop is the reader of its
channel, as the order inside it is `ApplyLoop`'s matter.

**SharedConn.** `sharedMu` and `closeOnce` are modelled with the goroutine inside
them, because two of the questions are who waits for whom. `close()` is five steps.
Whoever runs it has `closing[t]` at the step it is at.

**PubSubClient.** Each reader and the datagram reader is a source with numbered
messages. The two channels may be closed while a source is about to send. A send that
meets a closed channel in a `select` is one of the choices `select` has, and panics.

**Wire.** A frame is a kind, a topic and a payload of bytes. `Encode`, `Decode` and the
stream framing are the functions of `frame.go`; integers have the four forms of
quicvarint. TLC's integers end at 2^31, so a value of 2^30 or more, which only the
eight-byte form or a forged length can have, is the one value `Huge`.

**MixedClient.** The control stream is bytes. `WriteStreamFrame` writes the header and then
the body, of each as much at a time as the flow-control window has room for; the server
takes the first bytes it has not read for a header and decodes what follows. The way back
from the server to the subscriber (the broker's stream queue, the delivery streams,
`incoming`) is one bounded queue, an abstraction of parts of `Broker` and `PubSubClient`.
`todo` is what is left of the subscribers that `Publish` serves: this client's own session and
a `peer` that stands for all other subscribers and may take nothing. The connection
below is what `SharedConn` says of it, seen by one request: `connUp`, `sharedMu`, a dial under that
mutex, and a wait for the settings that succeeds or leaves the request `wedged`. After `Mixed.Run`,
`ClosePubSub` is `ps.Close()` and `Exit` needs `sharedMu`, which `c.Close()` locks. `scope` bounds a
behaviour: how many commands, and whether the connection may die.

**ServerProcess.** `main` is run of `cmd/server` with its defers, `closer` the goroutine of
`Serve`. The body of `closeOnce` is three steps; who calls `Close` while another is in it
waits. A connection goes from the listener's queue to the accept loop and to its own
goroutine, which counts it; `AfterFunc` takes it back. A connection may end at any time, also
before it is accepted or counted. What an ended process held is reset.

**Fleet.** `fleet` is run of `cmd/fleet`. `waiter` is the goroutine in `cmd.Wait`; `Kill` is
the goroutine of `exec.CommandContext`, which exists as long as that wait does and the fleet
runs. `cmd.Start` fails once the context is done. A client is a process: starting until
`GetConfig` and `ConnectPubSub` have returned, running, stopping after SIGTERM, gone,
`caught` (`MixedClient`'s `EchoBlocked` and `PeerBlocked`), or `wedged` (its `Wedged`: a call that
dialled has closed its connection and waits for its own `sharedMu`, told to stop or not).

**Stack.** The two extend each other's steps: a client dials when it is starting, becomes
ready when its connection is served, may lose its session when its connection has ended, and
the connection of a client that is gone ends by close or idle timeout.

**UploadStore.** A file is the upload that wrote it; its modification time is that of its last
byte, or of its creation when it is empty. `PruneDir` is `ReadDir`, one `Stat`
per entry and one `Remove` per eviction, interleaved with other handlers; each of these calls may
fail and end the prune. A crash keeps
the disk and loses everything else; `Restart` prunes first, as `server.New` does.

**RotatingLog.** Each rename, remove, open and close of a rotation is a step that can
fail or be the last before the process stops. Records are numbered, so that order and
loss can be stated.

## 3. Runs

Twelve runs; nine must pass and three exhibit a behaviour that contradicts what the
repository says.

| Run | Config | Asks |
|---|---|---|
| `broker` | `Broker.cfg` | `ImplementsDelivery`, `TablesAgree`, `NoZombieSubscriber`, `StreamFIFO`, `DeadSessionsLeave`, `StreamFramesServed`, `DatagramPublishEnds`: two publishers, full queues of one place, subscriptions that come and go, and transports that break anywhere |
| `loop` | `Loop.cfg` | `ImplementsDelayLine`, `SentInScheduleOrder`, `OvertakenOnce`, `DelayBounded`, `PipelineDrains` with loss, duplication, reordering, jitter and bandwidth together |
| `proxy` | `Proxy.cfg` | `MappedIsOpen`, `NoOrphan`, `GaugeCountsOpen`, `ServeEndsAfterCancel`, `UnmappedIsClosed`: one client whose session is closed and replaced under every race; `NothingLostInside`, `GoroutinesEnd`, `QueuesDrain`: the goroutines of a session, with channels of one place |
| `conn` | `Conn.cfg` | `SingleConn`, `ClosedMeansClosed`, `LiveConnKept`, `SessionsEnd`, `CallsReturn`: two callers, two successive connections, Client.Close |
| `conn_settings_fail` | `ConnSettingsFail.cfg` | violation of `EveryCallReturns` |
| `client_session` | `ClientSession.cfg` | `DeliveredInOrder`, `SessionEndReleases`: two streams, datagrams, a slow subscriber, an end at any point |
| `client_panic` | `ClientPanic.cfg` | violation of `NoPanic` |
| `upload` | `Upload.cfg` | `CapHolds`, `FilesAreWhole`, `PruneSucceeds`: two handlers, three uploads, failing calls of a prune, a process stop |
| `log_rotation` | `LogRotation.cfg` | `FilesBounded`, `BackupsInOrder`, `OnlyOldestLost`: two stops and two failing calls |
| `mixed` | `Mixed.cfg` | `ControlFramesWhole`, `ShutdownCompletes`, `FailureEndsRun`: two writers on one stream of bytes, a signal and the end of the session at any point, a connection that dies and is dialled again |
| `stack` | `Stack.cfg` | `ServerStopsClean`, `FailureEndsFleet`, `GaugeSettles`: a server and a fleet of two clients, each started, failing, hanging and signalled in every order |
| `fleet_signal` | `FleetSignal.cfg` | violation of `FleetTellsClients` |

### What the runs show beyond "it holds"

* `conn_settings_fail`: `newSharedConn` runs with `sharedMu` held. When the wait for
  the HTTP/3 settings fails, it calls `close()`, which locks `sharedMu` again. The
  caller never returns and neither does any later call nor `Client.Close`. `CallsReturn`
  in run `conn` shows that this is the only way in which a call can hang: each wait ends
  or the client is `Wedged`, which is this situation.
* `client_panic`: `incoming` is closed when the session's context ends, while a reader
  may be in the `select` that sends on it. A few steps lead to a send on a closed channel.
  `SessionEndReleases` shows that apart from this everyone is released.
* `broker`, `DeadSessionsLeave` and `StreamFramesServed`: both have an exception, and TLC
  violates both without it. `enqueueStream` (`session.go:245-250`) waits for a place in the
  subscriber's queue or for the end of the *subscriber*. The end of the publisher
  does not count, so a live client that grants no delivery stream keeps the
  session of a dead publisher in the broker (`HeldUp`), and its own queue where it is
  (`Ungranted`). A stream that fails while the session lives loses the frame it was
  for (`session.go:187-190`), and no other: the frames behind it are still served.
* `mixed`, `ShutdownCompletes`: a cancelled process exits, or is in one of three
  situations for ever. Each is needed: TLC violates the property without it.
  `EchoBlocked`: the publisher writes commands to a control stream that is full, because
  `readControl` waits for room on the way back to this very client, whose subscriber has
  already stopped; the contexts have no deadline, so the write does not end, and `Mixed.Run`
  waits for it. `PeerBlocked`: the same, but `readControl` waits for another subscriber
  that takes nothing. `Wedged`: a request waits for the settings of a new connection
  when the context is cancelled, or they do not come; it then waits for the `sharedMu` it
  keeps (the finding of `conn_settings_fail`), and `wg.Wait()` and `c.Close()` wait for it.
* `upload`, `CapHolds`: the cap is exceeded by uploads whose own prune is not finished,
  and by nothing else, as long as no prune has ended in an error. After one has, nothing is
  claimed. Temporary files that a stop of
  the process leaves are never removed, because `PruneDir` skips directories.
* `fleet_signal`: a fleet that is signalled in the pause between two starts returns
  without telling the clients it has started (`cmd/fleet/main.go:191`), and the goroutines
  that would kill them end with the process, perhaps before they have run. So a client runs on,
  neither told to stop nor killed, although `Makefile:224` says "the fleet SIGTERMs them on
  shutdown". The same happens after an error, which the property leaves out by `fleetErr`.
* `stack`, `GaugeSettles`: a client that was killed closes nothing, so the property rests
  on the idle timeout that `quicConfig` sets. A client that is wedged has closed its
  connection before it waits, and the gauge forgets it too.

### Bounds, and why they are enough

* `broker`: two sessions, of which one is subscribed, queues of one place (full after one
  frame, so that every branch of both enqueue functions is reached), two topics, two frames of one
  publisher and one of the other. The run starts from four states that `Init` leads to
  (`MCBroker`). In the first the subscriber's stream queue is full, the publisher has another
  frame, and one of the two transports may break. In the second both sessions publish into that queue,
  the subscriber to its own topic, over transports that hold. In the third it is the
  datagram surface; there the publisher's session has ended and only its datagram reader still
  works on what had arrived, next to the subscriber's own datagrams: the race for the freed place.
  In the fourth it is the table, with one live session that subscribes to, leaves and cleans up
  two topics, since a cleanup must have a second topic to forget; one is enough, for all
  changes of a session's subscriptions come from its own control goroutine. The product of
  the surfaces is left out: they share only the table and the context.
* `loop`: two packets give four copies: a duplicate, a hold, its release by a twin or
  a successor, and a hold that expires. `MaxClock` 12 is later than every release
  time that two packets can have, so no behaviour is cut before its end. The case without
  jitter and with ties is part of the proof (`LoopKeepsOrder`).
* `proxy`: one client and two sessions give the races about one key (an old session's
  loop against its successor). Sessions of different clients share nothing but the lock
  and the gauge. One loop stands for the four symmetric callers of `removeSession`; that
  several callers close a session is already given by sweeper, Close and loop. Inside a session,
  one place per channel and four packets fill every channel and both hands.
* `conn`: two connections (the dead one and its successor), two callers (one inside the
  lock, one waiting), one session per caller, one accept loop per connection. The other
  accept loop does the same; `ConnSettingsFail.cfg` has both.
* `client_session`: one place per channel; two streams with one frame each and two
  datagrams, so that order within a source and competition between sources both occur.
* `upload`: two handlers, two names, three uploads from empty to one byte more than the cap of two:
  exact fit, overflow, files that weigh nothing, replacement, and one prune inside another.
* `log_rotation`: four slots of three bytes and seven records let a record travel
  through every slot and out; lengths include one that fills, one that does not fit
  beside another and one longer than a file.
* `mixed`: the run starts from two states. In one, a client is still subscribing, sends one command, and its
  connection may die. In the other it has subscribed, its first command is being published, two
  more pile up behind it, and the connection holds: a window of exactly one command and
  three commands are the least with which the publisher is caught in the echo. A command has 61 bytes of payload, so that its body
  has 64 bytes and its length the two-byte form, while the subscriptions have the one-byte
  form. The poller stands for both HTTP roles. The assumptions of `MCMixed` evaluate the
  codec at topic lengths 1, 63, 64, 16383 and 16384, with payloads that put the length of the
  frame on either side of its own first boundary.
* `stack`: two clients are the least with a pause between starts, a failure of one while
  the other is started, and a signal in that pause. One connection per client: a client
  that loses its session and goes on polling is not followed further.

Runs that stop at a bound or at the end of the program say `CHECK_DEADLOCK FALSE`;
waiting for ever is excluded by the liveness properties instead.

### Fairness

Only what the Go runtime and the code's own structure give:

* weak fairness of each goroutine's steps: a goroutine that can go on does;
* strong fairness only for a `ctx.Done()` case (`RoleStops`) that becomes ready again on
  each round of a role's loop: `select` picks at random among the ready cases, so
  it is not passed over for ever;
* after a transport has broken, its context ends and reads on it fail (QUIC's idle
  timeout and connection close);
* in `MixedClient`, what a cancelled request waits for in the network ends: a round trip, a dial,
  the wait for settings. A wait for `sharedMu` need not;
* in `ApplyLoop`, the clock advances;
* in `Stack`, the pause is a timer, a client that was told to stop ends, is caught or is wedged, and
  the connection of a client that is gone ends (idle timeout). The goroutine that kills a
  client is *not* assumed to run before the fleet has exited.

Nothing is assumed of the streams that clients grant: in `Broker` the control goroutine is fair
only while no queue that it waits for is full (`Unhindered`). Nor is anything
assumed of arrivals, ticks, other clients, signals, crashes, failing system
calls, or a transport that has not broken. Under `SharedConn`, a mutex is granted to
some waiter whenever it is free.

## 4. Proofs

Every safety property that a run checks is also a theorem for every value of the constants. Each proof module has one inductive
invariant (two in `BrokerProofs` and `ApplyLoopProofs`, which build on each other), one lemma per
action or group of actions that it covers, and short theorems that follow from it. In each case
the property itself is not inductive; what is added, and why, is below.

**`BrokerProofs`.**

* `TypeCorrect`: `Spec => []TypeOK`, which includes that no queue exceeds its channel's capacity.
* `TableConsistent`: `GaugeMatches`, `TablesAgree` and `NoZombieSubscriber`; `TablesStayInStep` is
  its part `TablesAgree`. `Broker.subscribe` increments the gauge without looking whether the
  session is in the topic, which is right only because a session between the two critical
  sections of a subscription is not. `HalfDone` says so, and `TableInv` is the three
  properties with it. The set of sessions must be finite (for cardinalities).
* `BrokerImplementsDelivery`: `Spec => ImplementsDelivery`. Every step of the broker maps to a
  step of `Delivery` or a stutter. The steps need `StreamInv` and `DatagramInv`.
  `StreamInv` says how far a publisher is: everything addressed to a subscriber has been taken over by it,
  or its transport is broken, or it is the frame in the publisher's hand (`PublishersWait`);
  a frame still owed is newer than all the subscriber has (`OwedIsNew`).
  `DatagramInv` says that no subscriber has seen anything newer than the datagram in a
  reader's hand, nor, unless it was served, that one (`ReadersKeepUp`). It is needed because
  `enqueueDatagram` is three selects in which other readers can take the freed place.
* `StreamsAreFIFO`: `StreamFIFO`, a part of `StreamInv`.

**`ApplyLoopProofs`.**

* `LoopTypeCorrect`: types, and that at most one packet is held.
* `LoopKeepsOrder`: `SentInScheduleOrder` for every profile
  without jitter or with a bandwidth limit. The invariant is `OrderInv`: the release times in
  the queue grow with the numbers and lie below a *horizon* (now plus latency, or the time the
  link is free), what was written has smaller numbers than what is queued (`SentFirst`), and
  the queue is also sorted with respect to the horizon of the held packet. That last part is
  the point: an expired held packet is scheduled for a time in the past and would otherwise be
  able to slip in before packets already queued.
* `LoopBoundsDelay`: `DelayBounded`, for every profile, until the session is closed. `InTime` bounds, for every upper bound `d` on the time that
  a packet takes on the link, the queue *and* the time the link is free, measured
  from now and from the end of a hold; so a packet scheduled next is in time too.
* `LoopOvertakesOnce`: `OvertakenOnce`, for the same profiles. `OnceOvertaken` adds that all that was scheduled arrived
  before the held packet or is its twin, hence only its release lets anything overtake.
* `LoopImplementsDelayLine`: `Spec => ImplementsDelayLine`. For each operator of the pipeline a lemma
  says how it changes the number of copies inside (`count`) and that release times are not
  early (`Timely`); the steps of the loop follow.

**`ProxyProofs`.** `MappedSessionsAreOpen`, `OpenSessionsAreKept`, `GaugeIsExact` and
`ProxyTypeCorrect` for any clients, any finite set of sessions and any number of loops per session.
`TableInv` adds: a session object that is not yet allocated is in nobody's hands; Serve dials and inserts for a client that has none,
although it has given up the lock (nobody else inserts); and whoever is about to close a session has unmapped it.
`CloseCounts` is the lemma about `session.close`: whoever calls and however often, the gauge follows.
Of the goroutines in a session, `SessionTypeCorrect` and `SessionLosesNothing`: while it is open
each direction has an account, packets read = in channels + in a hand + passed on, which every step keeps.

**`SharedConnProofs`.** `AtMostOneConn`, `CloseLeavesNone`, `ConnTypeCorrect` and the action property
`OnlyCloseGivesUp`, for any callers, connections and calls, with or without failing settings.
`ConnInv` says that `sharedMu` is kept from before the dial until the connection is published or given
up, and nothing is published meanwhile (`Locked`); that who waits for `sharedMu` at the end of
`close()`, or has left it, has a dead connection (`Dead`); and that a live connection is the published one,
the one being set up by the holder of `sharedMu`, or the one Client.Close is closing (`Live`).
Then who waits for whom. `OnlyWedgesDeadlock`: whoever waits, for a `closeOnce` or for `sharedMu`, waits for a
goroutine, and unless a caller is wedged a chain of waits has at most two links, so there is no ring: who
waits for a `closeOnce` waits for the one goroutine inside (`OnceHeld`), that one at most for the caller that keeps
`sharedMu`, and that caller for the network only. `WedgedForEver`: a caller whose wait for the settings
failed is wedged and stays so. It waits for its own lock inside `closeOnce`, or, when an accept loop of the dead connection
came first, outside it for a goroutine that waits for that lock; `Unclosed` says that nobody finishes closing a
connection while its maker keeps `sharedMu`. The two are the safety part of `CallsReturn`, and they show that the finding of
`conn_settings_fail` is the only deadlock on `sharedMu` and the `closeOnce`s, and that it is permanent.

**`PubSubClientProofs`.** `SessionDeliversInOrder` and `ClientTypeCorrect` for any streams, frames and depths.
A message that got past its reader is older than the frame in the reader's hands (`Passed`), while the
session lives all of those are there (`NoneMissing`), and a stream is in `uniQueue` once and unread
(`QueuedOnce`), so that a stream has one reader.

**`UploadStoreProofs`.** `StoredFilesAreWhole`, `PruneFindsSpace`, `DirectoryWithinCap` and `StoreTypeCorrect` for
any handlers, names, sizes (zero too), stops and failing calls; `CapHolds` speaks of the time before a
prune has ended in an error. Handlers that copy have uploads of their own that no file
holds yet (`Uploading`). A prune's listing has one entry for a name, none above the cap, and
`RemainingBytes` is the sum of their sizes (`IsListing`); so above the cap there is an entry
other than the file to keep. `CapHolds` needs to know what a prune did *not* list. Prunes overlap, and each adds up
the directory as it was when it began, so no single listing is the directory. `CapInv` ranks handlers by the
order of their renames: every file is either one that a finished prune has added up, and those fit the cap, or was
put in place by an overdue handler ranked after that prune; and what a running prune missed in its listing
was put in place by handlers ranked after it (`Ranked`). Removals by anybody only shrink both parts; a prune that ends
takes over the account if it ranks last and otherwise leaves it as it is. The sums are
`SumFunction` of the community modules: `SumLaws` shows what they are for every finite set, the induction being stated
as a smallest counterexample in the well-founded order of its subsets (`SmallestSubset`).

**`RotatingLogProofs`.** `LogFilesBounded`, `LogBackupsInOrder`, `LogLosesOldest` and `LogTypeCorrect` for any
cap, number of files, stops and failing calls. `LogInv` adds that the slot the next rename replaces is empty, also when an
earlier rotation stopped half way (`Shifting`), that a record about to be appended fits, and
that it is in no file yet.

**`MixedClientProofs`.** First the codec, for frames of any length below `Huge`: `FrameRoundTrip`
(`Decode` after `Encode`) and `FramingIsUnambiguous` (`ReadStreamFrame` returns the frame at the head of the stream,
takes its bytes and no others, and does not return while one is missing). The arithmetic of the
four-byte and two-byte integers is `Varint4` and `Varint2`; a frame is compared byte by byte (`IsEncoded`,
`IsStreamFrame`), so no induction over its bytes is needed. Then `MixedTypeCorrect`, which
includes that what `readControl` takes from the stream is always a frame that this client sends, never `Invalid`, and
`ControlStreamWhole`: `ControlFramesWhole` for every payload, window and number of commands. That the frames handled are a
prefix of the frames written is not inductive, for nothing in the stream marks where a frame begins. `ControlInv`
adds where every frame ends in the stream and that the unread bytes are those of the frames in their
places (`Layout`); that all frames are complete up to their ends, but for one that its writer, the holder of the mutex, is
writing (`InFlight`); and who is in `writeControl` with what (`Places`). A write extends the layout by some bytes of the
last frame (`LayoutNext`, `LayoutGrows`), a read takes the first (`LayoutRead`, from the codec), and every other
step leaves it alone (`Calm`).

The assumptions are those the modules state (`ConfigValid`, `LoopBounds`, `DepthsPositive`,
`SessionsFinite`, `Parameters`, ...): natural numbers, positive capacities, finite sets where
something is counted, and model values apart from the data. The runs evaluate them.

Only model-checked:

* all liveness properties: TLAPS does not reason here about fairness or `ENABLED`;
* what the codec does with bytes that no `Encode` made: the assumptions of `MCMixed` evaluate some;
* `ServerProcess`, `Fleet` and `Stack`, whose properties are liveness properties (and `FleetTellsClients`,
  which is violated).

## 5. What is not modelled

* `handleState`, `handleConfig` and `instrumentHTTP` of the server: answers from constants
  and observed durations.
* The proxy process around `Serve`, and the plain metrics endpoints after they listen.
* The content of the fleet's targets file: it is read by Prometheus only.
* A client's second connection after it has lost the first (in `Stack`; `SharedConn` has
  successive connections).
* Impairment profiles (tables and YAML), metrics registration, TLS material,
  configuration, command-line parsing, `scripts/`: no state that several actors change.
* Client HTTP calls: one request and one comparison each; the connection below them
  is `SharedConn`.
* quic-go, webtransport-go and the file system are external. They appear as what the code sees of
  them: contexts that end, calls that fail, streams that are granted or not, renames that are
  atomic.
* Payloads, log lines, digests, histograms and byte counters.
* The datagram that `enqueueDatagram` evicts is not counted by `PubSubDrops`: the model
  has the eviction, and `drops` is left alone as in the code.

## 6. Plan

Done: every component with state that several actors change is modelled and checked, the broker
and the apply loop are shown and proved to implement abstract specifications, and all safety
properties of the runs are proved.

What could follow: the safety facts behind the liveness properties of `Stack` (which connections
the gauge still counts when the clients are gone).
