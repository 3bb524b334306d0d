----------------------------- MODULE ApplyLoop -----------------------------
(***************************************************************************)
(* session.applyLoop, flushReady and resetTimer of internal/proxy/proxy.go *)
(* driving a Pipeline: one direction of one proxy session.  The loop reads *)
(* the clock anew for every call, and the clock may move between any two   *)
(* of its steps.                                                           *)
(***************************************************************************)
EXTENDS Pipeline, Sequences

CONSTANTS
  MaxPackets,   \* bound: packets that arrive
  PacketLen,    \* the length of each of them
  LastArrival,  \* bound: no packet arrives later
  MaxClock,     \* bound: the clock stops here
  NoTimer       \* timerCh is nil

ASSUME LoopBounds ==
  /\ MaxPackets \in Nat /\ LastArrival \in Nat /\ MaxClock \in Nat
  /\ PacketLen \in [1..MaxPackets -> Nat]
ASSUME NoTimerIsNoTime == NoTimer \notin Nat

VARIABLES
  clock,     \* time.Now()
  pc,        \* where the loop is
  p,         \* the pipeline
  timer,     \* when timerCh fires, or NoTimer
  cut,       \* the time ReleaseReady was called with
  last,      \* the loop has seen s.done and flushes once more
  done,      \* s.done is closed
  \* History.
  arrivals,  \* when each packet was enqueued
  sent,      \* what was written, in order
  drops,     \* the Drops counter
  dups       \* the Duplicates counter

vars == <<clock, pc, p, timer, cut, last, done, arrivals, sent, drops, dups>>
history == <<arrivals, sent, drops, dups>>

Init ==
  /\ clock = 0 /\ pc = "flush" /\ p = NewPipeline /\ timer = NoTimer
  /\ cut = 0 /\ last = FALSE /\ done = FALSE
  /\ arrivals = <<>> /\ sent = <<>> /\ drops = 0 /\ dups = 0

\* flushReady calls ReleaseReady, which begins with flushExpiredHeld.
ReleaseReady ==
  /\ pc = "flush"
  /\ p' \in flushExpiredHeld(p, clock)
  /\ cut' = clock
  /\ pc' = "write"
  /\ UNCHANGED <<clock, timer, last, done, history>>

\* Variant: everything queued is ready.
isReadyAlways(x) == TRUE

isReady(x) == x.at <= cut

\* One packet off the heap, and written.
WriteNext ==
  /\ pc = "write"
  /\ \E x \in p.queue :
       /\ isFirst(x, p.queue)
       /\ isReady(x)
       /\ p' = [p EXCEPT !.queue = @ \ {x}]
       /\ sent' = Append(sent, [id |-> x.pkt.id, seq |-> x.seq])
  /\ UNCHANGED <<clock, pc, timer, cut, last, done, arrivals, drops, dups>>

\* A write fails: removeSession closes the session and the loop returns.
WriteFails ==
  /\ pc = "write"
  /\ \E x \in p.queue : isReady(x)
  /\ done' = TRUE
  /\ pc' = "exit"
  /\ UNCHANGED <<clock, p, timer, cut, last, history>>

\* Nothing is ready any more.
FlushEnds ==
  /\ pc = "write"
  /\ \A x \in p.queue : ~ isReady(x)
  /\ pc' = IF last THEN "exit" ELSE "arm"
  /\ UNCHANGED <<clock, p, timer, cut, last, done, history>>

\* resetTimer: nil when NextWake has nothing, else the remaining delay from
\* now, which is 0 when the time has passed meanwhile.  With the Go version of go.mod
\* (1.23 or later) a timer's channel holds no tick from before Stop or Reset, so that the
\* drain after Stop finds nothing and the timer is its deadline.
ResetTimer ==
  /\ pc = "arm"
  /\ \/ /\ wakeTimes(p) = {}
        /\ timer' = NoTimer
     \/ \E w \in wakeTimes(p) :
          /\ \A v \in wakeTimes(p) : w <= v
          /\ timer' = later(w, clock)
  /\ pc' = "wait"
  /\ UNCHANGED <<clock, p, cut, last, done, history>>

\* The select takes a packet from the input channel: Pipeline.Enqueue.
Enqueue ==
  /\ pc = "wait"
  /\ Len(arrivals) < MaxPackets
  /\ clock <= LastArrival
  /\ LET n == Len(arrivals) + 1
         pkt == [id |-> n, len |-> PacketLen[n]] IN
     \E q \in flushExpiredHeld(p, clock) :
       \/ /\ TRUE \in roll(Drop)
          /\ p' = q /\ drops' = drops + 1 /\ UNCHANGED dups
       \/ /\ FALSE \in roll(Drop)
          /\ \E dup \in roll(Duplicate) :
               /\ p' \in enqueueCopies(q, clock, pkt, IF dup THEN 2 ELSE 1)
               /\ dups' = IF dup THEN dups + 1 ELSE dups
          /\ UNCHANGED drops
  /\ arrivals' = Append(arrivals, clock)
  /\ pc' = "flush"
  /\ UNCHANGED <<clock, timer, cut, last, done, sent>>

\* The select sees the timer; the loop goes round.
TimerFires ==
  /\ pc = "wait"
  /\ timer # NoTimer /\ timer <= clock
  /\ pc' = "flush"
  /\ UNCHANGED <<clock, p, timer, cut, last, done, history>>

\* The select sees s.done: Flush, then one more flushReady.
SeesDone ==
  /\ pc = "wait"
  /\ done
  /\ p' \in Flush(p, clock)
  /\ last' = TRUE
  /\ pc' = "flush"
  /\ UNCHANGED <<clock, timer, cut, done, history>>

\* Somebody closes the session.
SessionCloses ==
  /\ ~ done
  /\ done' = TRUE
  /\ UNCHANGED <<clock, pc, p, timer, cut, last, history>>

Tick ==
  /\ pc # "exit"
  /\ clock < MaxClock
  /\ clock' = clock + 1
  /\ UNCHANGED <<pc, p, timer, cut, last, done, history>>

LoopStep == \/ ReleaseReady \/ WriteNext \/ WriteFails \/ FlushEnds
            \/ ResetTimer \/ TimerFires \/ SeesDone

Next == LoopStep \/ Enqueue \/ SessionCloses \/ Tick

Spec == Init /\ [][Next]_vars

\* Time passes, and the goroutine runs whenever it can.
FairSpec == Spec /\ WF_vars(LoopStep) /\ WF_vars(Tick)

-----------------------------------------------------------------------------
(* Properties.                                                             *)

Sent == [id : Nat, seq : Nat]

\* Every variable has its type, and at most one packet is held back.
TypeOK ==
  /\ clock \in Nat /\ cut \in Nat /\ drops \in Nat /\ dups \in Nat
  /\ pc \in {"flush", "write", "arm", "wait", "exit"}
  /\ p \in PipelineState /\ \A a, b \in p.held : a = b
  /\ timer \in Nat \cup {NoTimer}
  /\ last \in BOOLEAN /\ done \in BOOLEAN
  /\ arrivals \in Seq(Nat)
  /\ sent \in Seq(Sent)

\* Without jitter, or with a bandwidth limit, the release times are
\* monotone: packets leave in the order schedule numbered them, although a
\* held packet is scheduled late and for a time in the past.
OrderKept == Jitter = 0 \/ Bandwidth > 0
SentInScheduleOrder ==
  OrderKept => \A i, j \in 1..Len(sent) : i < j => sent[i].seq < sent[j].seq

\* Reordering is what the profile asks for and no more: a packet is overtaken
\* by at most one packet that arrived after it.
OvertakenOnce ==
  OrderKept => \A j \in 1..Len(sent) :
    Cardinality({i \in 1..(j - 1) : sent[i].id > sent[j].id}) <= 1

\* The link carries each of the packets within d ticks.
transmitsWithin(d) == \A n \in 1..MaxPackets : transmitDuration(PacketLen[n]) <= d

\* No packet is scheduled later than its hold, latency, jitter and the
\* transmission of what was scheduled before it allow, however late the loop
\* notices that its hold is over.
DelayBounded ==
  ~ last => \A d \in 0..MaxClock : transmitsWithin(d) => \A x \in p.queue :
    x.at <= arrivals[x.pkt.id] + reorderHold + Latency + Jitter + (x.seq + 1) * d

\* The copies of packet n in the queue or held back.
copiesInside(n) == Cardinality({x \in p.queue : x.pkt.id = n})
                     + Cardinality({h \in p.held : h.pkt.id = n})

L == INSTANCE DelayLine WITH
       now    <- clock,
       inside <- [n \in 1..Len(arrivals) |-> copiesInside(n)],
       out    <- [k \in 1..Len(sent) |-> sent[k].id]

\* The loop and its pipeline implement DelayLine: whatever path a copy takes
\* (queued, held, expired, released by its twin, flushed at the end), it leaves
\* once, not before the latency has passed, and the counters account for it.
ImplementsDelayLine == L!Spec

\* Whatever enters the pipeline leaves it, without another packet arriving,
\* unless the session ends.
PipelineDrains ==
  (p.queue # {} \/ p.held # {}) ~> (done \/ (p.queue = {} /\ p.held = {}))

=============================================================================
