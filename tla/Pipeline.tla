------------------------------ MODULE Pipeline ------------------------------
(***************************************************************************)
(* internal/impair/pipeline.go: the impairment pipeline of one direction   *)
(* of a proxied flow, as operators on its state.  A pipeline is a record   *)
(*                                                                         *)
(*   queue  the heap: a set of scheduled packets, each with its release    *)
(*          time and its sequence number;                                  *)
(*   held   the packet held back for reordering: a set of at most one;     *)
(*   next   nextSeq;                                                       *)
(*   ready  bandwidthReady.                                                *)
(*                                                                         *)
(* The random number generator is a choice, so an operation yields the set *)
(* of pipelines it may leave behind.  Times are ticks; a packet is its     *)
(* arrival number and its length.                                          *)
(***************************************************************************)
EXTENDS Integers, FiniteSets

CONSTANTS
  Drop, Duplicate, Reorder,  \* the probabilities: "never", "maybe" or "always"
  ReorderHold,               \* 0 stands for DefaultHold
  DefaultHold,               \* defaultReorderHold
  Latency, Jitter,
  Bandwidth,                 \* bytes per Second; 0 is unlimited
  Second                     \* ticks in a second

Probability == {"never", "maybe", "always"}

\* DirectionConfig.Validate.
ASSUME ConfigValid ==
  /\ Drop \in Probability /\ Duplicate \in Probability /\ Reorder \in Probability
  /\ ReorderHold \in Nat /\ Latency \in Nat /\ Jitter \in Nat /\ Bandwidth \in Nat
  /\ DefaultHold \in Nat \ {0} /\ Second \in Nat \ {0}

Packet == [id : Nat, len : Nat]
HeldPacket == [pkt : Packet, at : Nat]
ScheduledPacket == [pkt : Packet, at : Nat, seq : Nat]
PipelineState == [queue : SUBSET ScheduledPacket, held : SUBSET HeldPacket,
                  next : Nat, ready : Nat]

NewPipeline == [queue |-> {}, held |-> {}, next |-> 0, ready |-> 0]

roll(prob) == CASE prob = "never"  -> {FALSE}
                [] prob = "always" -> {TRUE}
                [] OTHER           -> BOOLEAN

reorderHold == IF ReorderHold > 0 THEN ReorderHold ELSE DefaultHold

\* Ticks to send len bytes, rounded up, and never 0 when bandwidth is limited.
transmitDuration(len) ==
  IF len <= 0 \/ Bandwidth <= 0 THEN 0
  ELSE LET rounded == (len * Second + Bandwidth - 1) \div Bandwidth
       IN  IF rounded = 0 THEN 1 ELSE rounded

later(a, b) == IF a > b THEN a ELSE b

\* Variant: a busy link does not delay the packet.
releaseTimeNoQueue(p, now, pkt, j) == now + Latency + j + transmitDuration(pkt.len)

\* When a packet scheduled at now with jitter j is released.
releaseTime(p, now, pkt, j) ==
  IF Bandwidth > 0
  THEN later(p.ready, now + Latency + j) + transmitDuration(pkt.len)
  ELSE now + Latency + j

push(p, pkt, at) ==
  [queue |-> p.queue \cup {[pkt |-> pkt, at |-> at, seq |-> p.next]},
   held  |-> p.held,
   next  |-> p.next + 1,
   ready |-> IF Bandwidth > 0 THEN at ELSE p.ready]

schedule(p, now, pkt) ==
  {push(p, pkt, releaseTime(p, now, pkt, j)) : j \in 0..Jitter}

release(p) == [p EXCEPT !.held = {}]

\* Variant: the held packet is scheduled when it is noticed, not when due.
flushExpiredHeldLate(p, now) ==
  IF \E h \in p.held : h.at <= now
  THEN UNION {schedule(release(p), now, h.pkt) : h \in p.held}
  ELSE {p}

flushExpiredHeld(p, now) ==
  IF \E h \in p.held : h.at <= now
  THEN UNION {schedule(release(p), h.at, h.pkt) : h \in p.held}
  ELSE {p}

\* Variant: a held packet waits for its own time whatever arrives.
enqueueCopyHolds(p, now, pkt) ==
  UNION {IF p.held = {} /\ hold
         THEN {[p EXCEPT !.held = {[pkt |-> pkt, at |-> now + reorderHold]}]}
         ELSE schedule(p, now, pkt) : hold \in roll(Reorder)}

\* Hold the packet back, or send it, and after it the one held back before.
enqueueCopy(p, now, pkt) ==
  IF p.held = {}
  THEN UNION {IF hold
              THEN {[p EXCEPT !.held = {[pkt |-> pkt, at |-> now + reorderHold]}]}
              ELSE schedule(p, now, pkt) : hold \in roll(Reorder)}
  ELSE UNION {schedule(release(q), now, h.pkt) :
                q \in schedule(p, now, pkt), h \in p.held}

\* The copies of a packet that is not dropped.
enqueueCopies(p, now, pkt, copies) ==
  IF copies = 1 THEN enqueueCopy(p, now, pkt)
  ELSE UNION {enqueueCopy(q, now, pkt) : q \in enqueueCopy(p, now, pkt)}

\* Flush: what is held back is scheduled now.
Flush(p, now) ==
  IF p.held = {} THEN {p}
  ELSE UNION {schedule(release(p), now, h.pkt) : h \in p.held}

\* Variant: NextWake looks at the queue only.
wakeTimesQueueOnly(p) == {x.at : x \in p.queue}

\* NextWake is the least of these, if there is one.
wakeTimes(p) == {h.at : h \in p.held} \cup {x.at : x \in p.queue}

\* packetHeap.Less.
less(a, b) == a.at < b.at \/ (a.at = b.at /\ a.seq < b.seq)

\* The top of the heap.
isFirst(x, queue) == \A y \in queue : y = x \/ less(x, y)

=============================================================================
