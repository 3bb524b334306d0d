-------------------------- MODULE ApplyLoopProofs --------------------------
(***************************************************************************)
(* What holds of ApplyLoop for every configuration of the pipeline, every  *)
(* number of packets and every clock: its type invariant; when there is no *)
(* jitter or a bandwidth limit, that packets leave in the order in which   *)
(* they were scheduled and that none is overtaken by more than one later   *)
(* packet; the bound on the delay of every packet; and that the loop       *)
(* implements DelayLine.                                                   *)
(***************************************************************************)
EXTENDS ApplyLoop, SequenceTheorems, FiniteSetTheorems, TLAPS

\* Every scheduled packet has a number of its own below next, the release
\* times grow with the numbers, and none is later than the horizon (f on an
\* unlimited link, bandwidthReady otherwise).
Sorted(q, f) ==
  /\ \A a, b \in q.queue : a.seq = b.seq => a = b
  /\ \A a \in q.queue : a.seq < q.next
  /\ \A a, b \in q.queue : a.seq < b.seq => a.at <= b.at
  /\ Bandwidth > 0 => \A a \in q.queue : a.at <= q.ready
  /\ Bandwidth = 0 => \A a \in q.queue : a.at <= f

\* The horizon is what schedule would give a packet now, and also what it
\* would give the packet held back when its time comes.
Ordered(q, now) ==
  /\ Sorted(q, now + Latency)
  /\ \A h \in q.held : Sorted(q, h.at + Latency)

\* q holds packets of r, and others with new numbers.
Extends(q, r) ==
  /\ r.next <= q.next
  /\ \A x \in q.queue : x \in r.queue \/ r.next <= x.seq

\* At most one packet is held back.
OneHeld(q) == \A a, b \in q.held : a = b

LEMMA TransmitType == ASSUME NEW n \in Nat PROVE transmitDuration(n) \in Nat
<1>1. CASE n <= 0 \/ Bandwidth <= 0
  BY <1>1 DEF transmitDuration
<1>2. CASE ~(n <= 0 \/ Bandwidth <= 0)
  <2>1. Bandwidth \in Nat \ {0} /\ n * Second \in Nat
    BY <1>2, ConfigValid
  <2>2. n * Second + Bandwidth - 1 \in Nat
    BY <2>1
  <2> DEFINE m == n * Second + Bandwidth - 1
  <2> HIDE DEF m
  <2>3. m \div Bandwidth \in Nat
    BY <2>1, <2>2 DEF m
  <2>4. QED
    BY <2>3 DEF transmitDuration, m
<1>3. QED
  BY <1>1, <1>2

\* The release time is a time at least latency after now, and on a limited
\* link not before what was scheduled last.
LEMMA ReleaseTime ==
  ASSUME NEW q \in PipelineState, NEW now \in Nat, NEW pkt \in Packet,
         NEW j \in 0..Jitter
  PROVE  /\ releaseTime(q, now, pkt, j) \in Nat
         /\ releaseTime(q, now, pkt, j) >= now + Latency
         /\ Bandwidth > 0 => releaseTime(q, now, pkt, j) >= q.ready
         /\ Bandwidth = 0 => releaseTime(q, now, pkt, j) = now + Latency + j
<1>1. transmitDuration(pkt.len) \in Nat
  BY TransmitType DEF Packet
<1>2. q.ready \in Nat /\ j \in Nat
  BY ConfigValid DEF PipelineState
<1>3. QED
  BY <1>1, <1>2, ConfigValid DEF releaseTime, later

\* One call of schedule at b, on a link that keeps order and whose packets
\* are all released by b + Latency: the new packet goes to the end.
LEMMA ScheduleSorted ==
  ASSUME NEW q \in PipelineState, NEW b \in Nat, NEW pkt \in Packet,
         NEW r \in schedule(q, b, pkt)
  PROVE  /\ r \in PipelineState /\ r.held = q.held
         /\ Extends(r, q)
         /\ OrderKept /\ Sorted(q, b + Latency) => Sorted(r, b + Latency)
<1>1. PICK j \in 0..Jitter : r = push(q, pkt, releaseTime(q, b, pkt, j))
  BY DEF schedule
<1> DEFINE at == releaseTime(q, b, pkt, j)
<1> DEFINE new == [pkt |-> pkt, at |-> at, seq |-> q.next]
<1>2. /\ at \in Nat
      /\ Bandwidth > 0 => at >= q.ready
      /\ Bandwidth = 0 => at = b + Latency + j
  BY ReleaseTime
<1> HIDE DEF at
<1>3. /\ r.queue = q.queue \cup {new} /\ r.next = q.next + 1 /\ r.held = q.held
      /\ r.ready = IF Bandwidth > 0 THEN at ELSE q.ready
  BY <1>1 DEF push, at
<1>4. /\ q.next \in Nat /\ q.ready \in Nat /\ q.queue \in SUBSET ScheduledPacket
      /\ q.held \in SUBSET HeldPacket
  BY DEF PipelineState
<1>5. new \in ScheduledPacket
  BY <1>2, <1>4 DEF ScheduledPacket
<1>6. r \in PipelineState
  BY <1>1, <1>2, <1>4, <1>5 DEF push, PipelineState, at
<1>7. Extends(r, q)
  BY <1>3, <1>4 DEF Extends
<1>8. ASSUME OrderKept, Sorted(q, b + Latency) PROVE Sorted(r, b + Latency)
  <2>1. \A a \in q.queue : a.seq \in Nat /\ a.at \in Nat /\ a.seq < q.next
    BY <1>4, <1>8 DEF Sorted, ScheduledPacket
  <2>2. \A a \in q.queue : a.at <= at
    <3>1. CASE Bandwidth > 0
      BY <3>1, <1>2, <1>4, <1>8, <2>1 DEF Sorted
    <3>2. CASE Bandwidth = 0
      <4>1. Jitter = 0 /\ j = 0
        BY <1>8, <3>2 DEF OrderKept
      <4>2. QED
        BY <3>2, <4>1, <1>2, <1>8, ConfigValid DEF Sorted
    <3>3. QED
      BY <3>1, <3>2, ConfigValid
  <2>3. /\ \A x, y \in r.queue : x.seq = y.seq => x = y
        /\ \A x \in r.queue : x.seq < r.next
    BY <1>3, <1>4, <1>8, <2>1 DEF Sorted
  <2>4. \A x, y \in r.queue : x.seq < y.seq => x.at <= y.at
    BY <1>3, <1>4, <1>2, <1>8, <2>1, <2>2 DEF Sorted
  <2>5. Bandwidth > 0 => \A x \in r.queue : x.at <= r.ready
    BY <1>2, <1>3, <2>2
  <2>6. Bandwidth = 0 => \A x \in r.queue : x.at <= b + Latency
    <3> SUFFICES ASSUME Bandwidth = 0 PROVE \A x \in r.queue : x.at <= b + Latency
      OBVIOUS
    <3>1. at = b + Latency
      BY <1>2, <1>8, ConfigValid DEF OrderKept
    <3>2. QED
      BY <3>1, <1>3, <1>8, ConfigValid DEF Sorted
  <2>7. QED
    BY <2>3, <2>4, <2>5, <2>6 DEF Sorted
<1>9. QED
  BY <1>3, <1>6, <1>7, <1>8

\* Releasing the held packet does not touch the queue.
LEMMA ReleaseKeeps ==
  ASSUME NEW q \in PipelineState
  PROVE  /\ release(q) \in PipelineState /\ release(q).held = {}
         /\ release(q).queue = q.queue /\ release(q).next = q.next
         /\ Extends(release(q), q)
         /\ \A f : Sorted(q, f) <=> Sorted(release(q), f)
<1>1. /\ release(q) \in PipelineState /\ release(q).held = {}
      /\ release(q).queue = q.queue /\ release(q).next = q.next
      /\ release(q).ready = q.ready
  BY DEF release, PipelineState
<1>2. QED
  BY <1>1 DEF Extends, Sorted, PipelineState

LEMMA ExtendsTransitive ==
  ASSUME NEW q \in PipelineState, NEW r \in PipelineState, NEW t \in PipelineState,
         Extends(r, q), Extends(t, r)
  PROVE  Extends(t, q)
BY DEF Extends, PipelineState, ScheduledPacket

\* A later horizon is as good.
LEMMA SortedLater ==
  ASSUME NEW q \in PipelineState, NEW f \in Nat, NEW g \in Nat, f <= g, Sorted(q, f)
  PROVE  Sorted(q, g)
BY DEF Sorted, PipelineState, ScheduledPacket

\* What an operation of the pipeline at time now does to q, whatever it
\* chooses: it keeps the types and the order and only adds new numbers.
Keeps(r, q, now) ==
  /\ r \in PipelineState /\ OneHeld(r)
  /\ Extends(r, q)
  /\ OrderKept /\ Ordered(q, now) => Ordered(r, now)

\* The held packet scheduled at b, its own time or now.
LEMMA HeldScheduled ==
  ASSUME NEW q \in PipelineState, NEW now \in Nat, NEW h \in q.held,
         NEW b \in Nat, b <= now, b = h.at \/ b = now,
         NEW r \in schedule(release(q), b, h.pkt)
  PROVE  Keeps(r, q, now)
<1>1. h \in HeldPacket /\ h.pkt \in Packet /\ h.at \in Nat
  BY DEF PipelineState, HeldPacket
<1>2. release(q) \in PipelineState /\ release(q).held = {} /\ Extends(release(q), q)
  BY ReleaseKeeps
<1>3. r \in PipelineState /\ r.held = {} /\ Extends(r, release(q))
  BY <1>1, <1>2, ScheduleSorted
<1>4. Extends(r, q)
  BY <1>2, <1>3, ExtendsTransitive
<1>5. ASSUME OrderKept, Ordered(q, now) PROVE Ordered(r, now)
  <2>1. Sorted(q, b + Latency)
    BY <1>5 DEF Ordered
  <2>2. Sorted(release(q), b + Latency)
    BY <2>1, ReleaseKeeps
  <2>3. Sorted(r, b + Latency)
    BY <2>2, <1>1, <1>2, <1>5, ScheduleSorted
  <2>4. Sorted(r, now + Latency)
    BY <2>3, <1>3, SortedLater, ConfigValid
  <2>5. QED
    BY <2>4, <1>3 DEF Ordered
<1>6. QED
  BY <1>3, <1>4, <1>5 DEF Keeps, OneHeld

LEMMA FlushExpiredKeeps ==
  ASSUME NEW q \in PipelineState, OneHeld(q), NEW now \in Nat,
         NEW r \in flushExpiredHeld(q, now)
  PROVE  Keeps(r, q, now)
<1>1. CASE \E h \in q.held : h.at <= now
  <2>1. PICK h \in q.held : r \in schedule(release(q), h.at, h.pkt)
    BY <1>1 DEF flushExpiredHeld
  <2>2. h.at <= now /\ h.at \in Nat
    BY <1>1 DEF OneHeld, PipelineState, HeldPacket
  <2>3. QED
    BY <2>1, <2>2, HeldScheduled
<1>2. CASE ~ \E h \in q.held : h.at <= now
  BY <1>2 DEF flushExpiredHeld, Keeps, Extends, PipelineState
<1>3. QED
  BY <1>1, <1>2

LEMMA FlushKeeps ==
  ASSUME NEW q \in PipelineState, OneHeld(q), NEW now \in Nat, NEW r \in Flush(q, now)
  PROVE  Keeps(r, q, now)
<1>1. CASE q.held = {}
  BY <1>1 DEF Flush, Keeps, Extends, PipelineState
<1>2. CASE q.held # {}
  <2>1. PICK h \in q.held : r \in schedule(release(q), now, h.pkt)
    BY <1>2 DEF Flush
  <2>2. QED
    BY <2>1, HeldScheduled
<1>3. QED
  BY <1>1, <1>2

\* enqueueCopy: hold the packet, or schedule it, then the held one.
LEMMA EnqueueCopyKeeps ==
  ASSUME NEW q \in PipelineState, NEW now \in Nat, NEW pkt \in Packet,
         NEW r \in enqueueCopy(q, now, pkt)
  PROVE  Keeps(r, q, now)
<1> DEFINE h == [pkt |-> pkt, at |-> now + reorderHold]
<1>1. reorderHold \in Nat /\ h \in HeldPacket
  BY ConfigValid DEF reorderHold, HeldPacket
<1>2. CASE q.held = {} /\ r = [q EXCEPT !.held = {h}]
  <2>1. /\ r \in PipelineState /\ r.held = {h} /\ r.queue = q.queue
        /\ r.next = q.next /\ r.ready = q.ready
    BY <1>1, <1>2 DEF PipelineState
  <2>2. OneHeld(r) /\ Extends(r, q)
    BY <2>1 DEF OneHeld, Extends, PipelineState
  <2>3. ASSUME Ordered(q, now) PROVE Ordered(r, now)
    <3>1. Sorted(q, now + Latency)
      BY <2>3 DEF Ordered
    <3>2. Sorted(q, now + reorderHold + Latency)
      BY <3>1, <1>1, ConfigValid, SortedLater
    <3>3. Sorted(r, now + Latency) /\ Sorted(r, now + reorderHold + Latency)
      BY <3>1, <3>2, <2>1 DEF Sorted
    <3>4. QED
      BY <3>3, <2>1 DEF Ordered
  <2>4. QED
    BY <2>1, <2>2, <2>3 DEF Keeps
<1>3. CASE q.held = {} /\ r \in schedule(q, now, pkt)
  <2>1. r \in PipelineState /\ r.held = {} /\ Extends(r, q)
    BY <1>3, ScheduleSorted
  <2>2. ASSUME OrderKept, Ordered(q, now) PROVE Ordered(r, now)
    BY <1>3, <2>1, <2>2, ScheduleSorted DEF Ordered
  <2>3. QED
    BY <2>1, <2>2 DEF Keeps, OneHeld
<1>4. ASSUME q.held # {}, NEW m \in schedule(q, now, pkt), NEW g \in q.held,
             r \in schedule(release(m), now, g.pkt)
      PROVE  Keeps(r, q, now)
  <2>1. /\ m \in PipelineState /\ m.held = q.held /\ Extends(m, q)
        /\ OrderKept /\ Sorted(q, now + Latency) => Sorted(m, now + Latency)
    BY ScheduleSorted
  <2>2. g.pkt \in Packet
    BY DEF PipelineState, HeldPacket
  <2>3. release(m) \in PipelineState /\ release(m).held = {} /\ Extends(release(m), m)
    BY <2>1, ReleaseKeeps
  <2>4. r \in PipelineState /\ r.held = {} /\ Extends(r, release(m))
    BY <1>4, <2>2, <2>3, ScheduleSorted
  <2>5. Extends(r, q)
    BY <2>1, <2>3, <2>4, ExtendsTransitive
  <2>6. ASSUME OrderKept, Ordered(q, now) PROVE Ordered(r, now)
    <3>1. Sorted(release(m), now + Latency)
      BY <2>1, <2>6, ReleaseKeeps DEF Ordered
    <3>2. Sorted(r, now + Latency)
      BY <1>4, <2>2, <2>3, <2>6, <3>1, ScheduleSorted
    <3>3. QED
      BY <3>2, <2>4 DEF Ordered
  <2>7. QED
    BY <2>4, <2>5, <2>6 DEF Keeps, OneHeld
<1>5. QED
  BY <1>2, <1>3, <1>4 DEF enqueueCopy

LEMMA KeepsTransitive ==
  ASSUME NEW q \in PipelineState, NEW m, NEW r, NEW now \in Nat,
         Keeps(m, q, now), Keeps(r, m, now)
  PROVE  Keeps(r, q, now)
BY ExtendsTransitive DEF Keeps

LEMMA EnqueueCopiesKeeps ==
  ASSUME NEW q \in PipelineState, NEW now \in Nat, NEW pkt \in Packet,
         NEW n, NEW r \in enqueueCopies(q, now, pkt, n)
  PROVE  Keeps(r, q, now)
<1>1. CASE n = 1
  BY <1>1, EnqueueCopyKeeps DEF enqueueCopies
<1>2. CASE n # 1
  <2>1. PICK m \in enqueueCopy(q, now, pkt) : r \in enqueueCopy(m, now, pkt)
    BY <1>2 DEF enqueueCopies
  <2>2. Keeps(m, q, now) /\ m \in PipelineState
    BY EnqueueCopyKeeps DEF Keeps
  <2>3. Keeps(r, m, now)
    BY <2>1, <2>2, EnqueueCopyKeeps
  <2>4. QED
    BY <2>2, <2>3, KeepsTransitive
<1>3. QED
  BY <1>1, <1>2

-----------------------------------------------------------------------------

\* The step of the loop, if any, that changes the pipeline other than by
\* writing from it, does so by the operations above.
LEMMA PipelineSteps ==
  ASSUME TypeOK, ReleaseReady \/ Enqueue \/ SeesDone
  PROVE  Keeps(p', p, clock)
<1>t. p \in PipelineState /\ OneHeld(p) /\ clock \in Nat
  BY DEF TypeOK, OneHeld
<1>1. CASE ReleaseReady
  BY <1>1, <1>t, FlushExpiredKeeps DEF ReleaseReady
<1>2. CASE SeesDone
  BY <1>2, <1>t, FlushKeeps DEF SeesDone
<1>3. CASE Enqueue
  <2> DEFINE n == Len(arrivals) + 1
             pkt == [id |-> n, len |-> PacketLen[n]]
  <2>1. pkt \in Packet
    <3>1. Len(arrivals) \in Nat /\ Len(arrivals) < MaxPackets
      BY <1>3 DEF TypeOK, Enqueue
    <3>2. n \in 1..MaxPackets /\ n \in Nat
      BY <3>1, LoopBounds
    <3>3. PacketLen[n] \in Nat
      BY <3>2, LoopBounds
    <3>4. QED
      BY <3>2, <3>3 DEF Packet
  <2> HIDE DEF pkt, n
  <2>2. PICK q \in flushExpiredHeld(p, clock) :
          p' = q \/ \E c \in {1, 2} : p' \in enqueueCopies(q, clock, pkt, c)
    BY <1>3 DEF Enqueue, pkt, n
  <2>3. Keeps(q, p, clock) /\ q \in PipelineState
    BY <1>t, FlushExpiredKeeps DEF Keeps
  <2>4. CASE p' = q
    BY <2>3, <2>4
  <2>5. ASSUME NEW c \in {1, 2}, p' \in enqueueCopies(q, clock, pkt, c)
        PROVE  Keeps(p', p, clock)
    <3>1. Keeps(p', q, clock)
      BY <2>1, <2>3, <2>5, <1>t, EnqueueCopiesKeeps
    <3>2. QED
      BY <2>3, <3>1, <1>t, KeepsTransitive
  <2>6. QED
    BY <2>2, <2>4, <2>5
<1>4. QED
  BY <1>1, <1>2, <1>3

\* The loop's variables keep their types, and it never holds two packets.
THEOREM LoopTypeCorrect == Spec => []TypeOK
<1>1. Init => TypeOK
  <2> SUFFICES ASSUME Init PROVE TypeOK
    OBVIOUS
  <2>1. p \in PipelineState /\ p.held = {}
    BY DEF Init, NewPipeline, PipelineState
  <2>2. arrivals \in Seq(Nat) /\ sent \in Seq(Sent)
    BY DEF Init
  <2>3. /\ clock \in Nat /\ cut \in Nat /\ drops \in Nat /\ dups \in Nat
        /\ pc = "flush" /\ timer = NoTimer /\ last = FALSE /\ done = FALSE
    BY DEF Init
  <2>4. QED
    BY <2>1, <2>2, <2>3 DEF TypeOK
<1>2. TypeOK /\ [Next]_vars => TypeOK'
  <2> SUFFICES ASSUME TypeOK, [Next]_vars PROVE TypeOK'
    OBVIOUS
  <2>1. CASE UNCHANGED vars
    BY <2>1 DEF vars, TypeOK
  <2>2. CASE ReleaseReady \/ Enqueue \/ SeesDone
    <3>1. p' \in PipelineState /\ \A a, b \in p'.held : a = b
      BY <2>2, PipelineSteps DEF Keeps, OneHeld
    <3>2. CASE ReleaseReady
      BY <3>1, <3>2 DEF TypeOK, ReleaseReady, history
    <3>3. CASE SeesDone
      BY <3>1, <3>3 DEF TypeOK, SeesDone, history
    <3>4. CASE Enqueue
      <4>1. /\ drops' \in {drops, drops + 1} /\ dups' \in {dups, dups + 1}
            /\ arrivals' = Append(arrivals, clock) /\ pc' = "flush"
            /\ UNCHANGED <<clock, timer, cut, last, done, sent>>
        BY <3>4 DEF Enqueue
      <4>2. QED
        BY <3>1, <4>1 DEF TypeOK
    <3>5. QED
      BY <2>2, <3>2, <3>3, <3>4
  <2>3. CASE WriteNext
    <3>1. PICK x \in p.queue : /\ p' = [p EXCEPT !.queue = @ \ {x}]
                               /\ sent' = Append(sent, [id |-> x.pkt.id, seq |-> x.seq])
      BY <2>3 DEF WriteNext
    <3>2. x \in ScheduledPacket /\ [id |-> x.pkt.id, seq |-> x.seq] \in Sent
      BY DEF TypeOK, PipelineState, ScheduledPacket, Packet, Sent
    <3>3. sent' \in Seq(Sent)
      BY <3>1, <3>2 DEF TypeOK
    <3>4. p' \in PipelineState /\ p'.held = p.held
      BY <3>1 DEF TypeOK, PipelineState
    <3>5. QED
      BY <2>3, <3>3, <3>4 DEF TypeOK, WriteNext
  <2>4. CASE WriteFails \/ FlushEnds \/ TimerFires \/ SessionCloses
    BY <2>4 DEF TypeOK, WriteFails, FlushEnds, TimerFires, SessionCloses, history
  <2>5. CASE ResetTimer
    <3>1. \A w \in wakeTimes(p) : w \in Nat
      BY DEF wakeTimes, TypeOK, PipelineState, HeldPacket, ScheduledPacket
    <3>2. timer' \in Nat \cup {NoTimer}
      BY <2>5, <3>1 DEF ResetTimer, later, TypeOK
    <3>3. QED
      BY <2>5, <3>2 DEF TypeOK, ResetTimer, history
  <2>6. CASE Tick
    BY <2>6 DEF TypeOK, Tick, history
  <2>7. QED
    BY <2>1, <2>2, <2>3, <2>4, <2>5, <2>6 DEF Next, LoopStep
<1>3. QED
  BY <1>1, <1>2, PTL DEF Spec

\* What was written has smaller numbers than all that is still to come.
SentFirst ==
  \A i \in 1..Len(sent) : /\ sent[i].seq < p.next
                          /\ \A x \in p.queue : sent[i].seq < x.seq

OrderInv == OrderKept => Ordered(p, clock) /\ SentFirst /\ SentInScheduleOrder

\* For every configuration without jitter or with a bandwidth limit, every
\* number of packets and every schedule of the loop against the clock,
\* packets are written in the order schedule numbered them.
THEOREM LoopKeepsOrder == Spec => []SentInScheduleOrder
<1>1. Init => OrderInv
  BY DEF Init, OrderInv, Ordered, Sorted, SentFirst, SentInScheduleOrder, NewPipeline
<1>2. TypeOK /\ OrderInv /\ [Next]_vars => OrderInv'
  <2> SUFFICES ASSUME TypeOK, OrderInv, [Next]_vars, OrderKept
               PROVE  Ordered(p, clock)' /\ SentFirst' /\ SentInScheduleOrder'
    BY DEF OrderInv, OrderKept
  <2>i. Ordered(p, clock) /\ SentFirst /\ SentInScheduleOrder
    BY DEF OrderInv
  <2>t. p \in PipelineState /\ clock \in Nat /\ sent \in Seq(Sent)
    BY DEF TypeOK
  <2>1. CASE UNCHANGED <<clock, p, sent>>
    BY <2>1, <2>i DEF Ordered, Sorted, SentFirst, SentInScheduleOrder
  <2>2. CASE ReleaseReady \/ Enqueue \/ SeesDone
    <3>1. Keeps(p', p, clock) /\ clock' = clock /\ sent' = sent
      BY <2>2, PipelineSteps DEF ReleaseReady, Enqueue, SeesDone, history
    <3>2. Ordered(p', clock')
      BY <3>1, <2>i DEF Keeps
    <3>3. SentFirst'
      <4> SUFFICES ASSUME NEW i \in 1..Len(sent)
                   PROVE  /\ sent[i].seq < p'.next
                          /\ \A x \in p'.queue : sent[i].seq < x.seq
        BY <3>1 DEF SentFirst
      <4>1. sent[i].seq \in Nat /\ p.next \in Nat /\ p'.next \in Nat
        <5>1. sent[i] \in Sent
          BY <2>t
        <5>2. QED
          BY <5>1, <2>t, <3>1 DEF Sent, Keeps, PipelineState
      <4>2. \A x \in p'.queue : x.seq \in Nat
        BY <3>1 DEF Keeps, PipelineState, ScheduledPacket
      <4>3. QED
        BY <4>1, <4>2, <3>1, <2>i DEF Keeps, Extends, SentFirst
    <3>4. QED
      BY <3>1, <3>2, <3>3, <2>i DEF SentInScheduleOrder, Ordered, Sorted
  <2>3. CASE WriteNext
    <3>1. PICK x \in p.queue : /\ isFirst(x, p.queue)
                               /\ p' = [p EXCEPT !.queue = @ \ {x}]
                               /\ sent' = Append(sent, [id |-> x.pkt.id, seq |-> x.seq])
                               /\ clock' = clock
      BY <2>3 DEF WriteNext
    <3>2. /\ p'.queue = p.queue \ {x} /\ p'.held = p.held /\ p'.next = p.next
          /\ p'.ready = p.ready
      BY <3>1, <2>t DEF PipelineState
    <3>3. Ordered(p', clock')
      BY <3>1, <3>2, <2>i DEF Ordered, Sorted
    <3>4. \A y \in p.queue : y.seq \in Nat /\ y.at \in Nat
      BY <2>t DEF PipelineState, ScheduledPacket
    <3>5. \A y \in p'.queue : x.seq < y.seq
      <4> SUFFICES ASSUME NEW y \in p.queue, y # x PROVE x.seq < y.seq
        BY <3>2
      <4>1. less(x, y)
        BY <3>1 DEF isFirst
      <4>2. y.seq # x.seq /\ (y.seq < x.seq => y.at <= x.at)
        BY <2>i DEF Ordered, Sorted
      <4>3. QED
        BY <4>1, <4>2, <3>4 DEF less
    <3>6. /\ Len(sent') = Len(sent) + 1 /\ Len(sent) \in Nat
          /\ sent'[Len(sent) + 1].seq = x.seq
          /\ \A i \in 1..Len(sent) : sent'[i] = sent[i]
      BY <3>1, <2>t
    <3>7. x.seq < p.next /\ \A i \in 1..Len(sent) : sent[i].seq < x.seq
      BY <2>i DEF Ordered, Sorted, SentFirst
    <3>8. SentFirst'
      BY <3>2, <3>5, <3>6, <3>7, <2>i DEF SentFirst
    <3>9. SentInScheduleOrder'
      <4> SUFFICES ASSUME NEW i \in 1..Len(sent'), NEW j \in 1..Len(sent'), i < j
                   PROVE  sent'[i].seq < sent'[j].seq
        BY DEF SentInScheduleOrder
      <4>1. CASE j = Len(sent) + 1
        BY <4>1, <3>6, <3>7
      <4>2. CASE j # Len(sent) + 1
        BY <4>2, <3>6, <2>i DEF SentInScheduleOrder
      <4>3. QED
        BY <4>1, <4>2
    <3>10. QED
      BY <3>3, <3>8, <3>9 DEF Ordered, Sorted
  <2>4. CASE Tick
    <3>1. clock' = clock + 1 /\ p' = p /\ sent' = sent
      BY <2>4 DEF Tick, history
    <3>2. Sorted(p, clock + 1 + Latency)
      BY <2>i, <2>t, SortedLater, ConfigValid DEF Ordered
    <3>3. QED
      BY <3>1, <3>2, <2>i DEF Ordered, Sorted, SentFirst, SentInScheduleOrder
  <2>5. QED
    BY <2>1, <2>2, <2>3, <2>4
    DEF Next, LoopStep, vars, WriteFails, FlushEnds, TimerFires, SessionCloses,
        ResetTimer, history
<1>3. OrderInv => SentInScheduleOrder
  BY DEF OrderInv, SentInScheduleOrder
<1>4. QED
  BY <1>1, <1>2, <1>3, LoopTypeCorrect, PTL DEF Spec

-----------------------------------------------------------------------------

\* r is q with x, a copy of pkt scheduled at b, added to its queue.  What r
\* holds back is said where it matters.
Pushes(r, q, b, pkt, x) ==
  /\ r \in PipelineState
  /\ x \in ScheduledPacket /\ x.pkt = pkt /\ x.seq = q.next
  /\ b + Latency <= x.at
  /\ x.at <= later(q.ready, b + Latency + Jitter) + transmitDuration(pkt.len)
  /\ r.queue = q.queue \cup {x} /\ r.next = q.next + 1
  /\ r.ready \in {q.ready, x.at}

\* schedule pushes one packet and leaves the held one alone.
LEMMA SchedulePushes ==
  ASSUME NEW q \in PipelineState, NEW b \in Nat, NEW pkt \in Packet,
         NEW r \in schedule(q, b, pkt)
  PROVE  r.held = q.held /\ \E x : Pushes(r, q, b, pkt, x)
<1>1. PICK j \in 0..Jitter : r = push(q, pkt, releaseTime(q, b, pkt, j))
  BY DEF schedule
<1> DEFINE at == releaseTime(q, b, pkt, j)
<1> DEFINE new == [pkt |-> pkt, at |-> at, seq |-> q.next]
<1>2. q.next \in Nat /\ q.ready \in Nat
  BY DEF PipelineState
<1>3. transmitDuration(pkt.len) \in Nat /\ Latency \in Nat /\ Jitter \in Nat /\ j \in Nat
  BY TransmitType, ConfigValid DEF Packet
<1>4. /\ at \in Nat /\ b + Latency <= at
      /\ at <= later(q.ready, b + Latency + Jitter) + transmitDuration(pkt.len)
  BY <1>2, <1>3, ReleaseTime DEF releaseTime, later
<1> HIDE DEF at
<1>5. /\ r.queue = q.queue \cup {new} /\ r.next = q.next + 1 /\ r.held = q.held
      /\ r.ready \in {q.ready, at}
  BY <1>1 DEF push, at
<1>6. r \in PipelineState
  BY ScheduleSorted
<1>7. new \in ScheduledPacket
  BY <1>2, <1>4 DEF ScheduledPacket
<1>8. Pushes(r, q, b, pkt, new)
  BY <1>4, <1>5, <1>6, <1>7 DEF Pushes
<1>9. QED
  BY <1>5, <1>8

\* The same after the held packet was taken out.
LEMMA ReleasePushes ==
  ASSUME NEW q \in PipelineState, NEW b \in Nat, NEW pkt \in Packet,
         NEW r \in schedule(release(q), b, pkt)
  PROVE  r.held = {} /\ \E x : Pushes(r, q, b, pkt, x)
<1>1. /\ release(q) \in PipelineState /\ release(q).held = {}
      /\ release(q).queue = q.queue /\ release(q).next = q.next
      /\ release(q).ready = q.ready
  BY DEF release, PipelineState
<1>2. r.held = {} /\ \E x : Pushes(r, release(q), b, pkt, x)
  BY <1>1, SchedulePushes
<1>3. QED
  BY <1>1, <1>2 DEF Pushes

\* The copies of packet n in pipeline q.
queued(q, n) == {x \in q.queue : x.pkt.id = n}
heldBack(q, n) == {h \in q.held : h.pkt.id = n}
count(q, n) == Cardinality(queued(q, n)) + Cardinality(heldBack(q, n))

\* A finite queue with numbers below next, and at most one packet held.
Sane(q) ==
  /\ q \in PipelineState /\ OneHeld(q)
  /\ IsFiniteSet(q.queue)
  /\ \A x \in q.queue : x.seq < q.next

\* What a packet with number id contributes to the count of n.
one(id, n) == IF id = n THEN 1 ELSE 0

LEMMA QueuedFinite ==
  ASSUME NEW q, Sane(q), NEW n
  PROVE  /\ IsFiniteSet(queued(q, n)) /\ Cardinality(queued(q, n)) \in Nat
BY FS_Subset, FS_CardinalityType DEF Sane, queued

LEMMA HeldCount ==
  ASSUME NEW q, OneHeld(q), NEW n
  PROVE  /\ q.held = {} => Cardinality(heldBack(q, n)) = 0
         /\ \A h \in q.held : Cardinality(heldBack(q, n)) = one(h.pkt.id, n)
<1>1. q.held = {} => heldBack(q, n) = {}
  BY DEF heldBack
<1>2. ASSUME NEW h \in q.held PROVE heldBack(q, n) = IF h.pkt.id = n THEN {h} ELSE {}
  BY DEF heldBack, OneHeld
<1>3. QED
  BY <1>1, <1>2, FS_EmptySet, FS_Singleton DEF one

\* A push adds one copy to the queue.
LEMMA PushCounts ==
  ASSUME NEW q, Sane(q), NEW r, NEW b, NEW pkt, NEW x, Pushes(r, q, b, pkt, x),
         OneHeld(r)
  PROVE  /\ Sane(r)
         /\ \A n : Cardinality(queued(r, n)) = Cardinality(queued(q, n)) + one(pkt.id, n)
<1>1. /\ q.next \in Nat /\ \A y \in q.queue : y.seq < q.next /\ y.seq \in Nat
      /\ x.seq = q.next /\ r.queue = q.queue \cup {x} /\ r.next = q.next + 1
      /\ x.pkt = pkt /\ r \in PipelineState
  BY DEF Sane, Pushes, PipelineState, ScheduledPacket
<1>2. x \notin q.queue
  BY <1>1
<1>3. IsFiniteSet(r.queue)
  BY <1>1, FS_AddElement DEF Sane
<1>4. \A y \in r.queue : y.seq < r.next
  BY <1>1
<1>5. Sane(r)
  BY <1>1, <1>3, <1>4 DEF Sane
<1>6. ASSUME NEW n
      PROVE  Cardinality(queued(r, n)) = Cardinality(queued(q, n)) + one(pkt.id, n)
  <2>1. queued(r, n) = IF pkt.id = n THEN queued(q, n) \cup {x} ELSE queued(q, n)
    BY <1>1 DEF queued
  <2>2. x \notin queued(q, n)
    BY <1>2 DEF queued
  <2>3. IsFiniteSet(queued(q, n)) /\ Cardinality(queued(q, n)) \in Nat
    BY QueuedFinite
  <2>4. Cardinality(queued(q, n) \cup {x}) = Cardinality(queued(q, n)) + 1
    BY <2>2, <2>3, FS_AddElement
  <2>5. QED
    BY <2>1, <2>3, <2>4 DEF one
<1>7. QED
  BY <1>5, <1>6

\* pkt is one of the packets that arrived at the times arr.
Arrived(pkt, arr) == pkt.id \in 1..Len(arr) /\ pkt.len = PacketLen[pkt.id]

\* Every packet inside has arrived, none is released before its latency has
\* passed, and the held one waits for its hold to end.
Timely(q, arr) ==
  /\ \A x \in q.queue : Arrived(x.pkt, arr) /\ arr[x.pkt.id] + Latency <= x.at
  /\ \A h \in q.held : Arrived(h.pkt, arr) /\ h.at = arr[h.pkt.id] + reorderHold

\* When the n-th packet of a link that takes d for each is released at the
\* latest if it is due at t.
budget(t, n, d) == t + Latency + Jitter + n * d

\* The packets of the queue are released in time, and so would be one
\* scheduled at t.
Within(q, arr, t, d) ==
  /\ \A x \in q.queue : x.at <= budget(arr[x.pkt.id] + reorderHold, x.seq + 1, d)
  /\ q.ready <= budget(t, q.next, d)

\* So would be one scheduled now, and the held one when its hold ends.
InTime(q, arr, now) ==
  \A d \in 0..MaxClock : transmitsWithin(d) =>
    /\ Within(q, arr, now, d)
    /\ \A h \in q.held : Within(q, arr, h.at, d)

\* What was scheduled so far: the queue, and S that was written.
scheduled(q, S) == {[id |-> x.pkt.id, seq |-> x.seq] : x \in q.queue} \cup S

\* At most one entry of E goes before e although it arrived after it.
Once(E, next) ==
  /\ \A e \in E : e.seq < next
  /\ \A e, f, g \in E :
       f.seq < e.seq /\ g.seq < e.seq /\ f.id > e.id /\ g.id > e.id => f = g

\* All that was scheduled arrived before the held packet, or with it.
OnceOvertaken(q, S, n) ==
  /\ Once(scheduled(q, S), q.next)
  /\ \A e \in scheduled(q, S) : e.id <= n
  /\ \A h \in q.held : h.pkt.id <= n /\ \A e \in scheduled(q, S) : e.id <= h.pkt.id

Tidy(q, S, arr) == Sane(q) /\ Timely(q, arr) /\ OnceOvertaken(q, S, Len(arr))

\* A history of arrivals as it can be at time now.
PastArrivals(arr, now) ==
  /\ arr \in Seq(Nat) /\ Len(arr) <= MaxPackets
  /\ \A i \in 1..Len(arr) : arr[i] <= now

LEMMA PushTimely ==
  ASSUME NEW q, NEW r, NEW b \in Nat, NEW pkt, NEW x, NEW arr \in Seq(Nat),
         Timely(q, arr), Pushes(r, q, b, pkt, x), Arrived(pkt, arr),
         arr[pkt.id] <= b, r.held \subseteq q.held
  PROVE  Timely(r, arr)
<1>1. /\ x.pkt = pkt /\ x.at \in Nat /\ b + Latency <= x.at
      /\ r.queue = q.queue \cup {x}
  BY DEF Pushes, ScheduledPacket
<1>2. arr[pkt.id] \in Nat
  BY DEF Arrived
<1>3. arr[pkt.id] + Latency <= x.at
  BY <1>1, <1>2, ConfigValid
<1>4. QED
  BY <1>1, <1>3 DEF Timely

LEMMA NextBudget ==
  ASSUME NEW n \in Nat, NEW d \in Nat
  PROVE  (n + 1) * d = n * d + d /\ n * d \in Nat
OBVIOUS

\* A push for a packet whose hold does not end before b keeps to the budget.
LEMMA PushWithin ==
  ASSUME NEW q \in PipelineState, NEW r, NEW b \in Nat, NEW pkt, NEW x,
         NEW arr \in Seq(Nat), Len(arr) <= MaxPackets, NEW d \in Nat,
         transmitsWithin(d), Within(q, arr, b, d), Pushes(r, q, b, pkt, x),
         Arrived(pkt, arr), b <= arr[pkt.id] + reorderHold
  PROVE  Within(r, arr, b, d)
<1> DEFINE t == transmitDuration(pkt.len)
           k == q.next * d
           a == arr[pkt.id]
<1>1. /\ x.pkt = pkt /\ x.at \in Nat /\ x.seq = q.next /\ q.next \in Nat /\ q.ready \in Nat
      /\ r.queue = q.queue \cup {x} /\ r.next = q.next + 1 /\ r.ready \in {q.ready, x.at}
      /\ x.at <= later(q.ready, b + Latency + Jitter) + t
  BY DEF Pushes, ScheduledPacket, PipelineState
<1>2. Len(arr) \in Nat /\ pkt.id \in 1..Len(arr) /\ pkt.len = PacketLen[pkt.id]
  BY DEF Arrived
<1>3. pkt.id \in 1..MaxPackets /\ a \in Nat
  BY <1>2, LoopBounds
<1>4. PacketLen[pkt.id] \in Nat /\ t \in Nat
  BY <1>2, <1>3, LoopBounds, TransmitType
<1>5. t <= d
  BY <1>2, <1>3 DEF transmitsWithin
<1>6. k \in Nat /\ (q.next + 1) * d = k + d
  BY <1>1, NextBudget
<1>7. Latency \in Nat /\ Jitter \in Nat /\ reorderHold \in Nat
  BY ConfigValid DEF reorderHold
<1>8. q.ready <= b + Latency + Jitter + k
  BY DEF Within, budget
<1>b. b <= a + reorderHold /\ a \in Nat /\ b \in Nat
  BY <1>3
<1> HIDE DEF t, k, a
<1>9. x.at <= b + Latency + Jitter + (k + d)
  BY <1>1, <1>4, <1>5, <1>6, <1>7, <1>8 DEF later
<1>10. x.at <= budget(b, r.next, d)
  BY <1>9, <1>6, <1>1 DEF budget
<1>11. x.at <= budget(a + reorderHold, x.seq + 1, d)
  <2>1. x.at <= a + reorderHold + Latency + Jitter + (k + d)
    BY <1>9, <1>b, <1>1, <1>6, <1>7
  <2>2. QED
    BY <2>1, <1>6, <1>1 DEF budget
<1>12. q.ready <= budget(b, r.next, d)
  <2>1. q.ready <= b + Latency + Jitter + (k + d)
    BY <1>1, <1>6, <1>7, <1>8
  <2>2. QED
    BY <2>1, <1>6, <1>1 DEF budget
<1>13. QED
  BY <1>1, <1>10, <1>11, <1>12 DEF Within, a

\* The budget is no smaller later.
LEMMA WithinLater ==
  ASSUME NEW q \in PipelineState, NEW arr, NEW s \in Nat, NEW t \in Nat, s <= t,
         NEW d \in Nat, Within(q, arr, s, d)
  PROVE  Within(q, arr, t, d)
<1> DEFINE k == q.next * d
<1>1. q.next \in Nat /\ q.ready \in Nat /\ Latency \in Nat /\ Jitter \in Nat
  BY ConfigValid DEF PipelineState
<1>2. k \in Nat
  BY <1>1, NextBudget
<1>3. q.ready <= s + Latency + Jitter + k
  BY DEF Within, budget
<1> HIDE DEF k
<1>4. q.ready <= t + Latency + Jitter + k
  BY <1>1, <1>2, <1>3
<1>5. QED
  BY <1>4 DEF Within, budget, k

\* What is scheduled after a push.
LEMMA PushScheduled ==
  ASSUME NEW q \in PipelineState, NEW r, NEW b, NEW pkt, NEW x, NEW S,
         Pushes(r, q, b, pkt, x)
  PROVE  /\ scheduled(r, S) = scheduled(q, S) \cup {[id |-> pkt.id, seq |-> q.next]}
         /\ r.next = q.next + 1
BY DEF Pushes, scheduled

LEMMA ScheduledType ==
  ASSUME NEW q \in PipelineState, NEW S \in SUBSET Sent
  PROVE  scheduled(q, S) \in SUBSET Sent
BY DEF scheduled, PipelineState, ScheduledPacket, Packet, Sent

\* A packet that at most one of E has overtaken.
LEMMA PushOnce ==
  ASSUME NEW E \in SUBSET Sent, NEW next \in Nat, NEW id \in Nat, Once(E, next),
         \A f, g \in E : f.id > id /\ g.id > id => f = g
  PROVE  Once(E \cup {[id |-> id, seq |-> next]}, next + 1)
<1> DEFINE new == [id |-> id, seq |-> next]
           F == E \cup {new}
<1>1. \A e \in E : e.seq \in Nat /\ e.id \in Nat /\ e.seq < next
  BY DEF Sent, Once
<1>2. \A e \in F : e.seq < next + 1
  BY <1>1
<1>3. ASSUME NEW e \in F, NEW f \in F, NEW g \in F,
             f.seq < e.seq, g.seq < e.seq, f.id > e.id, g.id > e.id
      PROVE  f = g
  <2>1. f \in E /\ g \in E
    BY <1>1, <1>2, <1>3
  <2>2. CASE e = new
    BY <2>1, <2>2, <1>3
  <2>3. CASE e # new
    BY <2>1, <2>3, <1>3 DEF Once
  <2>4. QED
    BY <2>2, <2>3
<1>4. QED
  BY <1>2, <1>3 DEF Once

\* The held packet leaves for the queue, scheduled at b: its own time or now.
LEMMA HeldLeaves ==
  ASSUME NEW q, NEW S \in SUBSET Sent, NEW arr, NEW now \in Nat,
         Tidy(q, S, arr), PastArrivals(arr, now), NEW h \in q.held,
         NEW b, b = h.at \/ b = now, NEW r \in schedule(release(q), b, h.pkt)
  PROVE  /\ Tidy(r, S, arr) /\ r.held = {}
         /\ \A n : count(r, n) = count(q, n)
         /\ InTime(q, arr, now) /\ b = h.at /\ h.at <= now => InTime(r, arr, now)
<1>1. /\ q \in PipelineState /\ OneHeld(q) /\ Sane(q) /\ Timely(q, arr)
      /\ OnceOvertaken(q, S, Len(arr)) /\ arr \in Seq(Nat) /\ Len(arr) <= MaxPackets
  BY DEF Tidy, Sane, PastArrivals
<1>2. /\ h.pkt \in Packet /\ h.at \in Nat /\ Arrived(h.pkt, arr)
      /\ h.at = arr[h.pkt.id] + reorderHold
  BY <1>1 DEF PipelineState, HeldPacket, Timely
<1>3. arr[h.pkt.id] \in Nat /\ arr[h.pkt.id] <= now
  BY <1>1, <1>2 DEF PastArrivals, Arrived
<1>4. reorderHold \in Nat
  BY ConfigValid DEF reorderHold
<1>5. b \in Nat /\ arr[h.pkt.id] <= b
  BY <1>2, <1>3, <1>4
<1>6. r.held = {} /\ \E x : Pushes(r, q, b, h.pkt, x)
  BY <1>1, <1>2, <1>5, ReleasePushes
<1>7. PICK x : Pushes(r, q, b, h.pkt, x)
  BY <1>6
<1>8. OneHeld(r)
  BY <1>6 DEF OneHeld
<1>9. /\ Sane(r)
      /\ \A n : Cardinality(queued(r, n)) = Cardinality(queued(q, n)) + one(h.pkt.id, n)
  BY <1>1, <1>7, <1>8, PushCounts
<1>10. ASSUME NEW n PROVE count(r, n) = count(q, n)
  <2>1. Cardinality(heldBack(r, n)) = 0 /\ Cardinality(heldBack(q, n)) = one(h.pkt.id, n)
    BY <1>1, <1>6, <1>8, HeldCount
  <2>2. Cardinality(queued(q, n)) \in Nat /\ one(h.pkt.id, n) \in Nat
    BY <1>1, QueuedFinite DEF one
  <2>3. QED
    BY <1>9, <2>1, <2>2 DEF count
<1>11. Timely(r, arr)
  BY <1>1, <1>2, <1>5, <1>6, <1>7, PushTimely
<1>12. OnceOvertaken(r, S, Len(arr))
  <2> DEFINE E == scheduled(q, S)
  <2>1. E \in SUBSET Sent /\ q.next \in Nat /\ h.pkt.id \in Nat /\ Len(arr) \in Nat
    BY <1>1, <1>2, ScheduledType DEF PipelineState, Packet
  <2>2. /\ Once(E, q.next) /\ \A e \in E : e.id <= Len(arr) /\ e.id <= h.pkt.id
        /\ h.pkt.id <= Len(arr)
    BY <1>1 DEF OnceOvertaken
  <2>3. \A e \in E : e.id \in Nat
    BY <2>1 DEF Sent
  <2>4. /\ scheduled(r, S) = E \cup {[id |-> h.pkt.id, seq |-> q.next]}
        /\ r.next = q.next + 1
    BY <1>1, <1>7, PushScheduled
  <2> HIDE DEF E
  <2>5. Once(E \cup {[id |-> h.pkt.id, seq |-> q.next]}, q.next + 1)
    <3>1. \A f, g \in E : f.id > h.pkt.id /\ g.id > h.pkt.id => f = g
      BY <2>1, <2>2, <2>3
    <3>2. QED
      BY <3>1, <2>1, <2>2, PushOnce
  <2>6. QED
    BY <2>2, <2>4, <2>5, <1>6 DEF OnceOvertaken
<1>13. ASSUME InTime(q, arr, now), b = h.at, h.at <= now PROVE InTime(r, arr, now)
  <2> SUFFICES ASSUME NEW d \in 0..MaxClock, transmitsWithin(d)
               PROVE  Within(r, arr, now, d)
    BY <1>6 DEF InTime
  <2>1. d \in Nat
    BY LoopBounds
  <2>2. Within(q, arr, b, d)
    BY <1>13 DEF InTime
  <2>3. b <= arr[h.pkt.id] + reorderHold
    BY <1>2, <1>3, <1>4, <1>13
  <2>4. Within(r, arr, b, d)
    BY <2>1, <2>2, <2>3, <1>1, <1>2, <1>5, <1>7, PushWithin
  <2>5. r \in PipelineState
    BY <1>7 DEF Pushes
  <2>6. QED
    BY <2>1, <2>4, <2>5, <1>5, <1>13, WithinLater
<1>14. QED
  BY <1>6, <1>9, <1>10, <1>11, <1>12, <1>13 DEF Tidy

\* The held packet is not overdue.
Fresh(q, now) == \A h \in q.held : now <= h.at

\* flushExpiredHeld leaves nothing overdue behind.
LEMMA FlushExpiredTidy ==
  ASSUME NEW q, NEW S \in SUBSET Sent, NEW arr, NEW now \in Nat,
         Tidy(q, S, arr), PastArrivals(arr, now), NEW r \in flushExpiredHeld(q, now)
  PROVE  /\ Tidy(r, S, arr) /\ Fresh(r, now)
         /\ \A n : count(r, n) = count(q, n)
         /\ InTime(q, arr, now) => InTime(r, arr, now)
<1>t. q \in PipelineState /\ OneHeld(q)
  BY DEF Tidy, Sane
<1>1. CASE \E h \in q.held : h.at <= now
  <2>1. PICK h \in q.held : r \in schedule(release(q), h.at, h.pkt)
    BY <1>1 DEF flushExpiredHeld
  <2>2. h.at <= now
    BY <1>1, <1>t DEF OneHeld
  <2>3. /\ Tidy(r, S, arr) /\ r.held = {}
        /\ \A n : count(r, n) = count(q, n)
        /\ InTime(q, arr, now) => InTime(r, arr, now)
    BY <2>1, <2>2, HeldLeaves
  <2>4. QED
    BY <2>3 DEF Fresh
<1>2. CASE ~ \E h \in q.held : h.at <= now
  <2>1. r = q
    BY <1>2 DEF flushExpiredHeld
  <2>2. \A h \in q.held : h.at \in Nat
    BY <1>t DEF PipelineState, HeldPacket
  <2>3. QED
    BY <2>1, <2>2, <1>2 DEF Fresh
<1>3. QED
  BY <1>1, <1>2

\* Flush, when the session ends.
LEMMA FlushTidy ==
  ASSUME NEW q, NEW S \in SUBSET Sent, NEW arr, NEW now \in Nat,
         Tidy(q, S, arr), PastArrivals(arr, now), NEW r \in Flush(q, now)
  PROVE  Tidy(r, S, arr) /\ \A n : count(r, n) = count(q, n)
<1>1. CASE q.held = {}
  BY <1>1 DEF Flush
<1>2. CASE q.held # {}
  <2>1. PICK h \in q.held : r \in schedule(release(q), now, h.pkt)
    BY <1>2 DEF Flush
  <2> DEFINE b == now
  <2>2. (b = h.at \/ b = now) /\ r \in schedule(release(q), b, h.pkt)
    BY <2>1
  <2> HIDE DEF b
  <2>3. /\ Tidy(r, S, arr) /\ r.held = {}
        /\ \A n : count(r, n) = count(q, n)
        /\ InTime(q, arr, now) /\ b = h.at /\ h.at <= now => InTime(r, arr, now)
    BY <2>2, HeldLeaves
  <2>4. QED
    BY <2>3
<1>3. QED
  BY <1>1, <1>2

\* pkt is the packet that has just arrived, at time now.
Newest(pkt, arr, now) ==
  pkt \in Packet /\ pkt.id = Len(arr) /\ Arrived(pkt, arr) /\ arr[pkt.id] = now

\* r is q with one copy of pkt scheduled at now, overtaken by none.
Joins(r, q, S, arr, now, pkt) ==
  /\ Sane(r) /\ r.held = q.held /\ Timely(r, arr)
  /\ \A n : Cardinality(queued(r, n)) = Cardinality(queued(q, n)) + one(pkt.id, n)
  /\ scheduled(r, S) = scheduled(q, S) \cup {[id |-> pkt.id, seq |-> q.next]}
  /\ Once(scheduled(r, S), r.next)
  /\ \A e \in scheduled(r, S) : e.id <= Len(arr)
  /\ \A d \in 0..MaxClock :
       transmitsWithin(d) /\ Within(q, arr, now, d) => Within(r, arr, now, d)

\* The new packet is scheduled: nobody has overtaken it.
LEMMA NewestPushed ==
  ASSUME NEW q, NEW S \in SUBSET Sent, NEW arr, NEW now \in Nat,
         Tidy(q, S, arr), PastArrivals(arr, now), NEW pkt, Newest(pkt, arr, now),
         NEW r \in schedule(q, now, pkt)
  PROVE  Joins(r, q, S, arr, now, pkt)
<1>1. /\ q \in PipelineState /\ OneHeld(q) /\ Sane(q) /\ Timely(q, arr)
      /\ OnceOvertaken(q, S, Len(arr)) /\ arr \in Seq(Nat) /\ Len(arr) <= MaxPackets
  BY DEF Tidy, Sane, PastArrivals
<1>2. pkt \in Packet /\ pkt.id = Len(arr) /\ Arrived(pkt, arr) /\ arr[pkt.id] = now
  BY DEF Newest
<1>3. r.held = q.held /\ \E x : Pushes(r, q, now, pkt, x)
  BY <1>1, <1>2, SchedulePushes
<1>4. PICK x : Pushes(r, q, now, pkt, x)
  BY <1>3
<1>5. OneHeld(r)
  BY <1>1, <1>3 DEF OneHeld
<1>6. /\ Sane(r)
      /\ \A n : Cardinality(queued(r, n)) = Cardinality(queued(q, n)) + one(pkt.id, n)
  BY <1>1, <1>4, <1>5, PushCounts
<1>7. Timely(r, arr)
  BY <1>1, <1>2, <1>3, <1>4, PushTimely
<1> DEFINE E == scheduled(q, S)
<1>8. /\ scheduled(r, S) = E \cup {[id |-> pkt.id, seq |-> q.next]}
      /\ r.next = q.next + 1
  BY <1>1, <1>4, PushScheduled
<1>9. E \in SUBSET Sent /\ q.next \in Nat /\ pkt.id \in Nat
  BY <1>1, <1>2, ScheduledType DEF PipelineState, Packet
<1>10. Once(E, q.next) /\ \A e \in E : e.id <= Len(arr) /\ e.id \in Nat
  BY <1>1, <1>9 DEF OnceOvertaken, Sent
<1> HIDE DEF E
<1>11. \A f, g \in E : f.id > pkt.id /\ g.id > pkt.id => f = g
  BY <1>2, <1>9, <1>10
<1>12. Once(scheduled(r, S), r.next)
  BY <1>8, <1>9, <1>10, <1>11, PushOnce
<1>13. \A e \in scheduled(r, S) : e.id <= Len(arr)
  BY <1>2, <1>8, <1>9, <1>10
<1>14. ASSUME NEW d \in 0..MaxClock, transmitsWithin(d), Within(q, arr, now, d)
       PROVE  Within(r, arr, now, d)
  <2>1. d \in Nat /\ reorderHold \in Nat
    BY LoopBounds, ConfigValid DEF reorderHold
  <2>2. now <= arr[pkt.id] + reorderHold
    BY <2>1, <1>2
  <2>3. QED
    BY <2>1, <2>2, <1>1, <1>2, <1>4, <1>14, PushWithin
<1>15. QED
  BY <1>3, <1>6, <1>7, <1>8, <1>12, <1>13, <1>14 DEF E, Joins

\* What enqueueCopy and enqueueCopies do: c copies more of pkt, all in time if
\* the held packet was not overdue.
Enters(r, q, S, arr, now, pkt, c) ==
  /\ Tidy(r, S, arr)
  /\ \A n : count(r, n) = count(q, n) + (IF pkt.id = n THEN c ELSE 0)
  /\ InTime(q, arr, now) /\ Fresh(q, now) => InTime(r, arr, now) /\ Fresh(r, now)

LEMMA CountType ==
  ASSUME NEW q, Sane(q), NEW n
  PROVE  count(q, n) \in Nat
<1>1. Cardinality(queued(q, n)) \in Nat
  BY QueuedFinite
<1>2. Cardinality(heldBack(q, n)) \in Nat
  <2>1. CASE q.held = {}
    BY <2>1, HeldCount DEF Sane
  <2>2. ASSUME NEW h \in q.held PROVE Cardinality(heldBack(q, n)) \in Nat
    <3>1. Cardinality(heldBack(q, n)) = one(h.pkt.id, n)
      BY HeldCount DEF Sane
    <3>2. QED
      BY <3>1 DEF one
  <2>3. QED
    BY <2>1, <2>2
<1>3. QED
  BY <1>1, <1>2 DEF count

\* The new packet is held back.
LEMMA NewestHeld ==
  ASSUME NEW q, NEW S \in SUBSET Sent, NEW arr, NEW now \in Nat,
         Tidy(q, S, arr), PastArrivals(arr, now), NEW pkt, Newest(pkt, arr, now),
         q.held = {}, NEW r, r = [q EXCEPT !.held = {[pkt |-> pkt, at |-> now + reorderHold]}]
  PROVE  Enters(r, q, S, arr, now, pkt, 1)
<1> DEFINE h == [pkt |-> pkt, at |-> now + reorderHold]
<1>1. /\ q \in PipelineState /\ Sane(q) /\ Timely(q, arr)
      /\ OnceOvertaken(q, S, Len(arr)) /\ arr \in Seq(Nat)
  BY DEF Tidy, Sane, PastArrivals
<1>2. pkt \in Packet /\ pkt.id = Len(arr) /\ Arrived(pkt, arr) /\ arr[pkt.id] = now
  BY DEF Newest
<1>3. reorderHold \in Nat
  BY ConfigValid DEF reorderHold
<1>4. h \in HeldPacket /\ h.pkt = pkt /\ h.at = now + reorderHold
  BY <1>2, <1>3 DEF HeldPacket
<1> HIDE DEF h
<1>5. r = [q EXCEPT !.held = {h}]
  BY DEF h
<1>6. /\ r \in PipelineState /\ r.held = {h} /\ r.queue = q.queue
      /\ r.next = q.next /\ r.ready = q.ready
  <2>1. q \in PipelineState /\ {h} \in SUBSET HeldPacket
    BY <1>1, <1>4
  <2>2. QED
    BY <2>1, <1>5 DEF PipelineState
<1>7. OneHeld(r)
  BY <1>6 DEF OneHeld
<1>8. Sane(r)
  BY <1>1, <1>6, <1>7 DEF Sane
<1>9. ASSUME NEW n PROVE count(r, n) = count(q, n) + (IF pkt.id = n THEN 1 ELSE 0)
  <2>1. queued(r, n) = queued(q, n)
    BY <1>6 DEF queued
  <2>2. Cardinality(heldBack(q, n)) = 0
    BY <1>1, HeldCount DEF Sane
  <2>3. Cardinality(heldBack(r, n)) = one(pkt.id, n)
    BY <1>4, <1>6, <1>7, HeldCount
  <2>4. Cardinality(queued(q, n)) \in Nat
    BY <1>1, QueuedFinite
  <2>5. QED
    BY <2>1, <2>2, <2>3, <2>4 DEF count, one
<1>10. Timely(r, arr)
  BY <1>1, <1>2, <1>4, <1>6 DEF Timely
<1>11. OnceOvertaken(r, S, Len(arr))
  <2>1. scheduled(r, S) = scheduled(q, S)
    BY <1>6 DEF scheduled
  <2>2. Len(arr) <= Len(arr)
    BY <1>1
  <2>3. QED
    BY <2>1, <2>2, <1>1, <1>2, <1>4, <1>6 DEF OnceOvertaken
<1>12. ASSUME InTime(q, arr, now) PROVE InTime(r, arr, now)
  <2> SUFFICES ASSUME NEW d \in 0..MaxClock, transmitsWithin(d)
               PROVE  Within(r, arr, now, d) /\ Within(r, arr, h.at, d)
    BY <1>6 DEF InTime
  <2>1. Within(q, arr, now, d) /\ d \in Nat
    BY <1>12, LoopBounds DEF InTime
  <2>2. Within(q, arr, h.at, d)
    BY <2>1, <1>1, <1>3, <1>4, WithinLater
  <2>3. QED
    BY <2>1, <2>2, <1>6 DEF Within
<1>13. Fresh(r, now)
  BY <1>3, <1>4, <1>6 DEF Fresh
<1>14. QED
  BY <1>8, <1>9, <1>10, <1>11, <1>12, <1>13 DEF Enters, Tidy

\* The new packet is scheduled, and after it the one held back, which it alone
\* has overtaken.
LEMMA NewestFirst ==
  ASSUME NEW q, NEW S \in SUBSET Sent, NEW arr, NEW now \in Nat,
         Tidy(q, S, arr), PastArrivals(arr, now), NEW pkt, Newest(pkt, arr, now),
         NEW h \in q.held, NEW m \in schedule(q, now, pkt),
         NEW r \in schedule(release(m), now, h.pkt)
  PROVE  Enters(r, q, S, arr, now, pkt, 1)
<1>1. /\ q \in PipelineState /\ OneHeld(q) /\ Sane(q) /\ Timely(q, arr)
      /\ OnceOvertaken(q, S, Len(arr)) /\ arr \in Seq(Nat) /\ Len(arr) <= MaxPackets
  BY DEF Tidy, Sane, PastArrivals
<1>2. /\ h.pkt \in Packet /\ h.at \in Nat /\ Arrived(h.pkt, arr)
      /\ h.at = arr[h.pkt.id] + reorderHold
  BY <1>1 DEF PipelineState, HeldPacket, Timely
<1>3. arr[h.pkt.id] \in Nat /\ arr[h.pkt.id] <= now
  BY <1>1, <1>2 DEF PastArrivals, Arrived
<1>4. pkt \in Packet /\ pkt.id = Len(arr)
  BY DEF Newest
<1> DEFINE E == scheduled(q, S)
           new == [id |-> pkt.id, seq |-> q.next]
           G == E \cup {new}
<1>5. /\ Sane(m) /\ m.held = q.held /\ Timely(m, arr)
      /\ \A n : Cardinality(queued(m, n)) = Cardinality(queued(q, n)) + one(pkt.id, n)
      /\ scheduled(m, S) = G
      /\ Once(G, m.next)
      /\ \A e \in G : e.id <= Len(arr)
      /\ \A d \in 0..MaxClock :
           transmitsWithin(d) /\ Within(q, arr, now, d) => Within(m, arr, now, d)
  <2>1. Joins(m, q, S, arr, now, pkt)
    BY NewestPushed
  <2>2. QED
    BY <2>1 DEF Joins
<1>6. m \in PipelineState
  BY <1>5 DEF Sane
<1>7. r.held = {} /\ \E x : Pushes(r, m, now, h.pkt, x)
  BY <1>2, <1>6, ReleasePushes
<1>8. PICK x : Pushes(r, m, now, h.pkt, x)
  BY <1>7
<1>9. OneHeld(r)
  BY <1>7 DEF OneHeld
<1>10. /\ Sane(r)
       /\ \A n : Cardinality(queued(r, n)) = Cardinality(queued(m, n)) + one(h.pkt.id, n)
  BY <1>5, <1>8, <1>9, PushCounts
<1>11. ASSUME NEW n PROVE count(r, n) = count(q, n) + (IF pkt.id = n THEN 1 ELSE 0)
  <2>1. Cardinality(heldBack(r, n)) = 0 /\ Cardinality(heldBack(q, n)) = one(h.pkt.id, n)
    BY <1>1, <1>7, <1>9, HeldCount
  <2>2. Cardinality(queued(q, n)) \in Nat /\ one(h.pkt.id, n) \in Nat
    BY <1>1, QueuedFinite DEF one
  <2>3. QED
    BY <1>5, <1>10, <2>1, <2>2 DEF count, one
<1>12. Timely(r, arr)
  <2>1. r.held \subseteq m.held
    BY <1>7
  <2>2. QED
    BY <2>1, <1>1, <1>2, <1>3, <1>5, <1>8, PushTimely
<1>13. OnceOvertaken(r, S, Len(arr))
  <2>1. E \in SUBSET Sent /\ G \in SUBSET Sent /\ m.next \in Nat /\ h.pkt.id \in Nat
    <3>1. scheduled(q, S) \in SUBSET Sent /\ scheduled(m, S) \in SUBSET Sent
      BY <1>1, <1>6, ScheduledType
    <3>2. QED
      BY <3>1, <1>2, <1>5, <1>6 DEF PipelineState, Packet
  <2>2. \A e \in E : e.id <= h.pkt.id /\ e.id \in Nat
    BY <1>1, <2>1 DEF OnceOvertaken, Sent
  <2>3. h.pkt.id <= Len(arr)
    BY <1>1 DEF OnceOvertaken
  <2>4. /\ scheduled(r, S) = G \cup {[id |-> h.pkt.id, seq |-> m.next]}
        /\ r.next = m.next + 1
    BY <1>5, <1>6, <1>8, PushScheduled
  <2>5. \A f, g \in G : f.id > h.pkt.id /\ g.id > h.pkt.id => f = g
    <3> HIDE DEF E
    <3>1. \A f \in G : f.id > h.pkt.id => f = new
      BY <2>1, <2>2
    <3>2. QED
      BY <3>1
  <2> HIDE DEF E, new, G
  <2>6. Once(G \cup {[id |-> h.pkt.id, seq |-> m.next]}, m.next + 1)
    BY <2>1, <2>5, <1>5, PushOnce
  <2>7. QED
    BY <2>3, <2>4, <2>6, <1>5, <1>7 DEF OnceOvertaken
<1>14. ASSUME InTime(q, arr, now), Fresh(q, now) PROVE InTime(r, arr, now)
  <2> SUFFICES ASSUME NEW d \in 0..MaxClock, transmitsWithin(d)
               PROVE  Within(r, arr, now, d)
    BY <1>7 DEF InTime
  <2>1. Within(m, arr, now, d) /\ d \in Nat
    BY <1>5, <1>14, LoopBounds DEF InTime
  <2>2. now <= arr[h.pkt.id] + reorderHold
    BY <1>2, <1>14 DEF Fresh
  <2>3. QED
    BY <2>1, <2>2, <1>1, <1>2, <1>6, <1>8, PushWithin
<1>15. Fresh(r, now)
  BY <1>7 DEF Fresh
<1>16. QED
  BY <1>10, <1>11, <1>12, <1>13, <1>14, <1>15 DEF Enters, Tidy

LEMMA EnqueueCopyTidy ==
  ASSUME NEW q, NEW S \in SUBSET Sent, NEW arr, NEW now \in Nat,
         Tidy(q, S, arr), PastArrivals(arr, now), NEW pkt, Newest(pkt, arr, now),
         NEW r \in enqueueCopy(q, now, pkt)
  PROVE  Enters(r, q, S, arr, now, pkt, 1)
<1>1. CASE q.held = {} /\ r = [q EXCEPT !.held = {[pkt |-> pkt, at |-> now + reorderHold]}]
  BY <1>1, NewestHeld
<1>2. CASE q.held = {} /\ r \in schedule(q, now, pkt)
  <2>1. /\ Sane(r) /\ r.held = q.held /\ Timely(r, arr)
        /\ \A n : Cardinality(queued(r, n)) = Cardinality(queued(q, n)) + one(pkt.id, n)
        /\ Once(scheduled(r, S), r.next)
        /\ \A e \in scheduled(r, S) : e.id <= Len(arr)
        /\ \A d \in 0..MaxClock :
             transmitsWithin(d) /\ Within(q, arr, now, d) => Within(r, arr, now, d)
    <3>1. Joins(r, q, S, arr, now, pkt)
      BY <1>2, NewestPushed
    <3>2. QED
      BY <3>1 DEF Joins
  <2>2. ASSUME NEW n PROVE count(r, n) = count(q, n) + (IF pkt.id = n THEN 1 ELSE 0)
    <3>1. Cardinality(heldBack(r, n)) = 0 /\ Cardinality(heldBack(q, n)) = 0
      BY <1>2, <2>1, HeldCount DEF Tidy, Sane
    <3>2. Cardinality(queued(q, n)) \in Nat /\ Cardinality(queued(r, n)) \in Nat
      BY <2>1, QueuedFinite DEF Tidy
    <3>3. QED
      BY <2>1, <3>1, <3>2 DEF count, one
  <2>3. Tidy(r, S, arr) /\ Fresh(r, now)
    BY <1>2, <2>1 DEF Tidy, OnceOvertaken, Fresh
  <2>4. InTime(q, arr, now) => InTime(r, arr, now)
    BY <1>2, <2>1 DEF InTime
  <2>5. QED
    BY <2>2, <2>3, <2>4 DEF Enters
<1>3. ASSUME NEW h \in q.held, NEW m \in schedule(q, now, pkt),
             r \in schedule(release(m), now, h.pkt)
      PROVE  Enters(r, q, S, arr, now, pkt, 1)
  BY <1>3, NewestFirst
<1>4. QED
  BY <1>1, <1>2, <1>3 DEF enqueueCopy

LEMMA EnqueueCopiesTidy ==
  ASSUME NEW q, NEW S \in SUBSET Sent, NEW arr, NEW now \in Nat,
         Tidy(q, S, arr), PastArrivals(arr, now), NEW pkt, Newest(pkt, arr, now),
         NEW c \in {1, 2}, NEW r \in enqueueCopies(q, now, pkt, c)
  PROVE  Enters(r, q, S, arr, now, pkt, c)
<1>1. CASE c = 1
  BY <1>1, EnqueueCopyTidy DEF enqueueCopies
<1>2. CASE c = 2
  <2>1. PICK m \in enqueueCopy(q, now, pkt) : r \in enqueueCopy(m, now, pkt)
    BY <1>2 DEF enqueueCopies
  <2>2. Enters(m, q, S, arr, now, pkt, 1)
    BY EnqueueCopyTidy
  <2>3. Tidy(m, S, arr)
    BY <2>2 DEF Enters
  <2>4. Enters(r, m, S, arr, now, pkt, 1)
    BY <2>1, <2>3, EnqueueCopyTidy
  <2>5. \A n : count(q, n) \in Nat
    BY CountType DEF Tidy
  <2>6. \A n : count(r, n) = count(q, n) + (IF pkt.id = n THEN 2 ELSE 0)
    BY <2>2, <2>4, <2>5 DEF Enters
  <2>7. QED
    BY <1>2, <2>2, <2>4, <2>6 DEF Enters
<1>3. QED
  BY <1>1, <1>2

\* One more arrival does not disturb what is inside.
LEMMA ArrivalTidy ==
  ASSUME NEW q, NEW S \in SUBSET Sent, NEW arr, NEW now \in Nat,
         Tidy(q, S, arr), PastArrivals(arr, now), Len(arr) < MaxPackets
  PROVE  /\ Tidy(q, S, Append(arr, now)) /\ PastArrivals(Append(arr, now), now)
         /\ InTime(q, arr, now) => InTime(q, Append(arr, now), now)
         /\ count(q, Len(arr) + 1) = 0
<1> DEFINE new == Append(arr, now)
<1>1. /\ arr \in Seq(Nat) /\ Len(arr) \in Nat /\ new \in Seq(Nat) /\ Len(new) = Len(arr) + 1
      /\ new[Len(arr) + 1] = now /\ \A i \in 1..Len(arr) : new[i] = arr[i] /\ arr[i] <= now
  BY DEF PastArrivals
<1>2. q \in PipelineState /\ Sane(q) /\ Timely(q, arr) /\ OnceOvertaken(q, S, Len(arr))
  BY DEF Tidy, Sane
<1> HIDE DEF new
<1>3. PastArrivals(new, now)
  <2>1. \A i \in 1..Len(new) : new[i] <= now
    BY <1>1
  <2>2. Len(new) <= MaxPackets
    BY <1>1, LoopBounds
  <2>3. QED
    BY <2>1, <2>2, <1>1 DEF PastArrivals
<1>4. Timely(q, new)
  <2>1. \A pkt : Arrived(pkt, arr) => Arrived(pkt, new) /\ new[pkt.id] = arr[pkt.id]
    BY <1>1 DEF Arrived
  <2>2. QED
    BY <2>1, <1>2 DEF Timely
<1>5. OnceOvertaken(q, S, Len(new))
  <2>1. \A e \in scheduled(q, S) : e.id \in Nat
    BY <1>2, ScheduledType DEF Sent
  <2>2. \A h \in q.held : h.pkt.id \in Nat
    BY <1>2 DEF PipelineState, HeldPacket, Packet
  <2>3. QED
    BY <2>1, <2>2, <1>1, <1>2 DEF OnceOvertaken
<1>6. ASSUME InTime(q, arr, now) PROVE InTime(q, new, now)
  <2>1. \A x \in q.queue : new[x.pkt.id] = arr[x.pkt.id]
    BY <1>1, <1>2 DEF Timely, Arrived
  <2>2. \A t, d : Within(q, arr, t, d) => Within(q, new, t, d)
    BY <2>1 DEF Within
  <2>3. QED
    BY <2>2, <1>6 DEF InTime
<1>7. count(q, Len(arr) + 1) = 0
  <2>1. queued(q, Len(arr) + 1) = {} /\ heldBack(q, Len(arr) + 1) = {}
    BY <1>1, <1>2 DEF queued, heldBack, Timely, Arrived
  <2>2. QED
    <3>1. Cardinality({}) = 0
      BY FS_EmptySet
    <3>2. QED
      BY <2>1, <3>1 DEF count
<1>8. QED
  BY <1>2, <1>3, <1>4, <1>5, <1>6, <1>7 DEF Tidy, new

-----------------------------------------------------------------------------

Written == {sent[i] : i \in 1..Len(sent)}

\* The inductive invariant behind the delay line, the overtaking and the
\* delay bound.
LoopInv ==
  /\ PastArrivals(arrivals, clock)
  /\ cut <= clock
  /\ Tidy(p, Written, arrivals)
  /\ ~ last => InTime(p, arrivals, clock)

LEMMA WrittenType == ASSUME TypeOK PROVE Written \in SUBSET Sent
BY DEF TypeOK, Written

\* Pipeline.Enqueue, whatever it rolls: the packet is inside c times.
LEMMA EnqueueStep ==
  ASSUME TypeOK, LoopInv, Enqueue
  PROVE  /\ PastArrivals(arrivals', clock) /\ Tidy(p', Written, arrivals')
         /\ ~ last => InTime(p', arrivals', clock)
         /\ \A n \in 1..Len(arrivals) : count(p', n) = count(p, n)
         /\ \E c \in 0..2 : /\ count(p', Len(arrivals) + 1) = c
                            /\ drops' = drops + (IF c = 0 THEN 1 ELSE 0)
                            /\ dups' = dups + (IF c = 2 THEN 1 ELSE 0)
<1> DEFINE n == Len(arrivals) + 1
           pkt == [id |-> n, len |-> PacketLen[n]]
<1>1. /\ clock \in Nat /\ arrivals \in Seq(Nat) /\ Written \in SUBSET Sent
      /\ drops \in Nat /\ dups \in Nat /\ Len(arrivals) \in Nat
  BY WrittenType DEF TypeOK
<1>2. /\ Len(arrivals) < MaxPackets /\ arrivals' = Append(arrivals, clock)
      /\ PastArrivals(arrivals, clock) /\ Tidy(p, Written, arrivals)
      /\ ~ last => InTime(p, arrivals, clock)
  BY DEF Enqueue, LoopInv
<1>3. n \in 1..MaxPackets /\ n \in Nat /\ PacketLen[n] \in Nat
  BY <1>1, <1>2, LoopBounds
<1>4. Newest(pkt, arrivals', clock)
  <2>1. Len(arrivals') = n /\ arrivals'[n] = clock /\ n \in 1..n
    BY <1>1, <1>2, <1>3
  <2>2. QED
    BY <2>1, <1>3 DEF Newest, Packet, Arrived
<1>5. pkt.id = n
  OBVIOUS
<1>6. PICK q \in flushExpiredHeld(p, clock) :
        \/ p' = q /\ drops' = drops + 1 /\ dups' = dups
        \/ \E dup \in BOOLEAN :
             /\ p' \in enqueueCopies(q, clock, pkt, IF dup THEN 2 ELSE 1)
             /\ dups' = IF dup THEN dups + 1 ELSE dups
             /\ drops' = drops
  <2>1. \A prob : roll(prob) \subseteq BOOLEAN
    BY DEF roll
  <2>2. QED
    BY <2>1 DEF Enqueue
<1> HIDE DEF n, pkt
<1>7. /\ Tidy(q, Written, arrivals) /\ Fresh(q, clock)
      /\ \A k : count(q, k) = count(p, k)
      /\ InTime(p, arrivals, clock) => InTime(q, arrivals, clock)
  BY <1>1, <1>2, FlushExpiredTidy
<1>8. /\ Tidy(q, Written, arrivals') /\ PastArrivals(arrivals', clock)
      /\ InTime(q, arrivals, clock) => InTime(q, arrivals', clock)
      /\ count(q, n) = 0
  BY <1>1, <1>2, <1>7, ArrivalTidy DEF n
<1>9. CASE p' = q /\ drops' = drops + 1 /\ dups' = dups
  <2>1. /\ Tidy(p', Written, arrivals') /\ \A k \in 1..Len(arrivals) : count(p', k) = count(p, k)
        /\ ~ last => InTime(p', arrivals', clock)
    BY <1>2, <1>7, <1>8, <1>9
  <2>2. count(p', n) = 0 /\ drops' = drops + 1 /\ dups' = dups + 0
    BY <1>1, <1>8, <1>9
  <2>3. \E c \in 0..2 : /\ count(p', n) = c
                        /\ drops' = drops + (IF c = 0 THEN 1 ELSE 0)
                        /\ dups' = dups + (IF c = 2 THEN 1 ELSE 0)
    BY <2>2
  <2>4. QED
    BY <2>1, <2>3, <1>8 DEF n
<1>10. ASSUME NEW dup \in BOOLEAN,
              p' \in enqueueCopies(q, clock, pkt, IF dup THEN 2 ELSE 1),
              dups' = IF dup THEN dups + 1 ELSE dups,
              drops' = drops
       PROVE  /\ Tidy(p', Written, arrivals')
              /\ ~ last => InTime(p', arrivals', clock)
              /\ \A k \in 1..Len(arrivals) : count(p', k) = count(p, k)
              /\ \E c \in 0..2 : /\ count(p', n) = c
                                 /\ drops' = drops + (IF c = 0 THEN 1 ELSE 0)
                                 /\ dups' = dups + (IF c = 2 THEN 1 ELSE 0)
  <2> DEFINE c == IF dup THEN 2 ELSE 1
  <2>1. c \in {1, 2} /\ p' \in enqueueCopies(q, clock, pkt, c)
    BY <1>10
  <2>2. dups' = dups + (IF c = 2 THEN 1 ELSE 0) /\ drops' = drops + (IF c = 0 THEN 1 ELSE 0)
    BY <1>1, <1>10
  <2> HIDE DEF c
  <2>3. Enters(p', q, Written, arrivals', clock, pkt, c)
    BY <2>1, <1>1, <1>4, <1>8, EnqueueCopiesTidy
  <2>4. Tidy(p', Written, arrivals') /\ (~ last => InTime(p', arrivals', clock))
    BY <2>3, <1>2, <1>7, <1>8 DEF Enters
  <2>5. \A k : count(p', k) = count(p, k) + (IF n = k THEN c ELSE 0)
    BY <2>3, <1>5, <1>7 DEF Enters
  <2>6. \A k : count(p, k) \in Nat
    BY <1>2, CountType DEF Tidy
  <2>7. ASSUME NEW k \in 1..Len(arrivals) PROVE count(p', k) = count(p, k)
    <3>1. k # n
      BY <1>1 DEF n
    <3>2. QED
      BY <3>1, <2>5, <2>6
  <2>8. count(p', n) = c /\ c \in 0..2
    <3>1. count(p, n) = 0
      BY <1>7, <1>8
    <3>2. QED
      BY <3>1, <2>1, <2>5
  <2>9. QED
    BY <2>2, <2>4, <2>7, <2>8
<1>11. QED
  BY <1>6, <1>8, <1>9, <1>10 DEF n

\* Writing a packet takes one copy of it out of the queue, not before its time.
LEMMA WriteStep ==
  ASSUME TypeOK, LoopInv, WriteNext
  PROVE  /\ Tidy(p', Written', arrivals)
         /\ ~ last => InTime(p', arrivals, clock)
         /\ \E n \in 1..Len(arrivals) :
              /\ arrivals[n] + Latency <= clock
              /\ \E k \in Nat : sent' = Append(sent, [id |-> n, seq |-> k])
              /\ \A k : count(p', k) = count(p, k) - one(n, k)
              /\ count(p, n) > 0
<1>1. /\ clock \in Nat /\ arrivals \in Seq(Nat) /\ sent \in Seq(Sent) /\ cut \in Nat
      /\ p \in PipelineState /\ Sane(p) /\ Timely(p, arrivals)
      /\ OnceOvertaken(p, Written, Len(arrivals)) /\ cut <= clock
  BY DEF TypeOK, LoopInv, Tidy, Sane
<1>2. PICK x \in p.queue : /\ x.at <= cut
                           /\ p' = [p EXCEPT !.queue = @ \ {x}]
                           /\ sent' = Append(sent, [id |-> x.pkt.id, seq |-> x.seq])
  BY DEF WriteNext, isReady
<1> DEFINE e == [id |-> x.pkt.id, seq |-> x.seq]
<1>3. /\ p' \in PipelineState /\ p'.queue = p.queue \ {x} /\ p'.held = p.held
      /\ p'.next = p.next /\ p'.ready = p.ready
  BY <1>1, <1>2 DEF PipelineState
<1>4. x \in ScheduledPacket /\ e \in Sent
  BY <1>1 DEF PipelineState, ScheduledPacket, Packet, Sent
<1>5. /\ Len(sent) \in Nat /\ Len(sent') = Len(sent) + 1 /\ sent'[Len(sent) + 1] = e
      /\ \A i \in 1..Len(sent) : sent'[i] = sent[i]
  BY <1>1, <1>2, <1>4
<1>6. Written' = Written \cup {e}
  <2> HIDE DEF e
  <2>1. Written' = {sent'[i] : i \in 1..(Len(sent) + 1)}
    BY <1>5 DEF Written
  <2>2. QED
    BY <2>1, <1>5 DEF Written
<1>7. scheduled(p', Written') = scheduled(p, Written)
  BY <1>3, <1>6 DEF scheduled
<1>8. /\ Sane(p')
      /\ \A k : /\ heldBack(p', k) = heldBack(p, k)
                /\ queued(p', k) = queued(p, k) \ {x}
  <2>1. IsFiniteSet(p'.queue)
    BY <1>1, <1>3, FS_RemoveElement DEF Sane
  <2>2. OneHeld(p') /\ \A y \in p'.queue : y.seq < p'.next
    BY <1>1, <1>3 DEF Sane, OneHeld
  <2>3. Sane(p')
    BY <1>3, <2>1, <2>2 DEF Sane
  <2>4. \A k : heldBack(p', k) = heldBack(p, k) /\ queued(p', k) = queued(p, k) \ {x}
    BY <1>3 DEF queued, heldBack
  <2>5. QED
    BY <2>3, <2>4
<1>9. ASSUME NEW k PROVE count(p', k) = count(p, k) - one(x.pkt.id, k)
  <2>1. IsFiniteSet(queued(p, k)) /\ Cardinality(queued(p, k)) \in Nat
    BY <1>1, QueuedFinite
  <2>2. Cardinality(queued(p, k) \ {x}) = Cardinality(queued(p, k)) - one(x.pkt.id, k)
    <3>1. x \in queued(p, k) <=> x.pkt.id = k
      BY DEF queued
    <3> DEFINE Q == queued(p, k)
    <3> HIDE DEF Q
    <3>2. Cardinality(Q \ {x}) = IF x \in Q THEN Cardinality(Q) - 1 ELSE Cardinality(Q)
      BY <2>1, FS_RemoveElement DEF Q
    <3>3. QED
      BY <2>1, <3>1, <3>2 DEF one, Q
  <2>3. count(p, k) \in Nat /\ count(p', k) \in Nat
    BY <1>1, <1>8, CountType
  <2>4. Cardinality(heldBack(p, k)) \in Int
    <3>1. p.held = {} \/ \E h \in p.held : TRUE
      OBVIOUS
    <3>2. QED
      BY <3>1, <1>1, HeldCount DEF one, Sane
  <2>5. one(x.pkt.id, k) \in Int
    BY DEF one
  <2>6. QED
    <3> DEFINE c == Cardinality(queued(p, k))
               g == Cardinality(heldBack(p, k))
               o == one(x.pkt.id, k)
    <3>1. count(p, k) = c + g /\ count(p', k) = (c - o) + g
      BY <2>2, <1>8 DEF count
    <3>2. c \in Int /\ g \in Int /\ o \in Int
      BY <2>1, <2>4, <2>5
    <3> HIDE DEF c, g, o
    <3>3. QED
      BY <3>1, <3>2 DEF o
<1>10. count(p, x.pkt.id) > 0
  <2>1. count(p', x.pkt.id) \in Nat /\ count(p, x.pkt.id) \in Nat
    BY <1>1, <1>8, CountType
  <2>2. count(p', x.pkt.id) = count(p, x.pkt.id) - 1
    BY <1>9 DEF one
  <2>3. QED
    BY <2>1, <2>2
<1>11. Timely(p', arrivals) /\ OnceOvertaken(p', Written', Len(arrivals))
  BY <1>1, <1>3, <1>7 DEF Timely, OnceOvertaken
<1>12. ~ last => InTime(p', arrivals, clock)
  <2>1. \A t, d : Within(p, arrivals, t, d) => Within(p', arrivals, t, d)
    BY <1>3 DEF Within
  <2>2. QED
    BY <2>1, <1>3 DEF InTime, LoopInv
<1>13. x.pkt.id \in 1..Len(arrivals) /\ arrivals[x.pkt.id] + Latency <= clock
  <2>1. x.pkt.id \in 1..Len(arrivals) /\ arrivals[x.pkt.id] + Latency <= x.at
    BY <1>1 DEF Timely, Arrived
  <2>2. arrivals[x.pkt.id] \in Nat /\ x.at \in Nat /\ Latency \in Nat
    BY <2>1, <1>1, <1>4, ConfigValid DEF ScheduledPacket
  <2>3. QED
    BY <2>1, <2>2, <1>1, <1>2
<1>14. Tidy(p', Written', arrivals)
  BY <1>8, <1>11 DEF Tidy
<1>15. \E k \in Nat : sent' = Append(sent, [id |-> x.pkt.id, seq |-> k])
  BY <1>2, <1>4 DEF ScheduledPacket
<1>16. QED
  BY <1>9, <1>10, <1>12, <1>13, <1>14, <1>15

\* Every step of the loop keeps the invariant.
LEMMA LoopInvHolds == Spec => []LoopInv
<1>1. Init => LoopInv
  <2> SUFFICES ASSUME Init PROVE LoopInv
    OBVIOUS
  <2>1. /\ p.queue = {} /\ p.held = {} /\ p.next = 0 /\ p.ready = 0
        /\ arrivals = <<>> /\ Len(arrivals) = 0 /\ sent = <<>> /\ clock = 0 /\ cut = 0
        /\ p \in PipelineState
    BY DEF Init, NewPipeline, PipelineState
  <2>2. Written = {}
    BY <2>1 DEF Written
  <2>3. scheduled(p, Written) = {}
    BY <2>1, <2>2 DEF scheduled
  <2>4. Sane(p) /\ Timely(p, arrivals) /\ OnceOvertaken(p, Written, Len(arrivals))
    BY <2>1, <2>3, FS_EmptySet DEF Sane, OneHeld, Timely, OnceOvertaken, Once
  <2>5. PastArrivals(arrivals, clock)
    BY <2>1, LoopBounds DEF PastArrivals
  <2>6. InTime(p, arrivals, clock)
    <3> SUFFICES ASSUME NEW d \in 0..MaxClock PROVE Within(p, arrivals, clock, d)
      BY <2>1 DEF InTime
    <3>1. d \in Nat /\ Latency \in Nat /\ Jitter \in Nat
      BY LoopBounds, ConfigValid
    <3>2. 0 * d = 0
      BY <3>1
    <3>3. QED
      BY <2>1, <3>1, <3>2 DEF Within, budget
  <2>7. QED
    BY <2>1, <2>4, <2>5, <2>6 DEF LoopInv, Tidy
<1>2. TypeOK /\ LoopInv /\ [Next]_vars => LoopInv'
  <2> SUFFICES ASSUME TypeOK, LoopInv, [Next]_vars PROVE LoopInv'
    OBVIOUS
  <2>i. /\ PastArrivals(arrivals, clock) /\ cut <= clock /\ Tidy(p, Written, arrivals)
        /\ ~ last => InTime(p, arrivals, clock)
    BY DEF LoopInv
  <2>t. /\ clock \in Nat /\ arrivals \in Seq(Nat) /\ p \in PipelineState
        /\ Written \in SUBSET Sent
    BY WrittenType DEF TypeOK
  <2>1. CASE UNCHANGED <<clock, p, cut, last, arrivals, sent>>
    <3>1. Written' = Written
      BY <2>1 DEF Written
    <3>2. QED
      BY <2>1, <2>i, <3>1 DEF LoopInv
  <2>2. CASE ReleaseReady
    <3>1. /\ p' \in flushExpiredHeld(p, clock) /\ cut' = clock
          /\ UNCHANGED <<clock, last, arrivals, sent>>
      BY <2>2 DEF ReleaseReady, history
    <3>2. Written' = Written /\ cut' <= clock'
      BY <3>1, <2>t DEF Written
    <3>3. /\ Tidy(p', Written, arrivals)
          /\ InTime(p, arrivals, clock) => InTime(p', arrivals, clock)
      BY <3>1, <2>i, <2>t, FlushExpiredTidy
    <3>4. QED
      BY <3>1, <3>2, <3>3, <2>i DEF LoopInv
  <2>3. CASE SeesDone
    <3>1. p' \in Flush(p, clock) /\ last' = TRUE /\ UNCHANGED <<clock, cut, arrivals, sent>>
      BY <2>3 DEF SeesDone, history
    <3>2. Written' = Written
      BY <3>1 DEF Written
    <3>3. Tidy(p', Written, arrivals)
      BY <3>1, <2>i, <2>t, FlushTidy
    <3>4. QED
      BY <3>1, <3>2, <3>3, <2>i DEF LoopInv
  <2>4. CASE Enqueue
    <3>1. UNCHANGED <<clock, cut, last, sent>>
      BY <2>4 DEF Enqueue
    <3>2. Written' = Written
      BY <3>1 DEF Written
    <3>3. /\ PastArrivals(arrivals', clock) /\ Tidy(p', Written, arrivals')
          /\ ~ last => InTime(p', arrivals', clock)
      BY <2>4, EnqueueStep
    <3>4. QED
      BY <3>1, <3>2, <3>3, <2>i DEF LoopInv
  <2>5. CASE WriteNext
    <3>1. UNCHANGED <<clock, cut, last, arrivals>>
      BY <2>5 DEF WriteNext
    <3>2. Tidy(p', Written', arrivals) /\ (~ last => InTime(p', arrivals, clock))
      BY <2>5, WriteStep
    <3>3. QED
      BY <3>1, <3>2, <2>i DEF LoopInv
  <2>6. CASE Tick
    <3>1. clock' = clock + 1 /\ UNCHANGED <<p, cut, last, arrivals, sent>>
      BY <2>6 DEF Tick, history
    <3>2. Written' = Written
      BY <3>1 DEF Written
    <3>3. PastArrivals(arrivals, clock + 1)
      <4>1. \A i \in 1..Len(arrivals) : arrivals[i] \in Nat /\ arrivals[i] <= clock
        BY <2>i, <2>t DEF PastArrivals
      <4>2. QED
        BY <4>1, <2>i, <2>t DEF PastArrivals
    <3>4. InTime(p, arrivals, clock) => InTime(p, arrivals, clock + 1)
      <4> SUFFICES ASSUME InTime(p, arrivals, clock), NEW d \in 0..MaxClock, transmitsWithin(d)
                   PROVE  Within(p, arrivals, clock + 1, d)
        BY DEF InTime
      <4>1. d \in Nat /\ clock + 1 \in Nat /\ clock <= clock + 1 /\ Within(p, arrivals, clock, d)
        BY LoopBounds, <2>t DEF InTime
      <4>2. QED
        BY <4>1, <2>t, WithinLater
    <3>5. cut' <= clock'
      BY <3>1, <2>i DEF TypeOK
    <3>6. QED
      BY <3>1, <3>2, <3>3, <3>4, <3>5, <2>i DEF LoopInv
  <2>7. QED
    BY <2>1, <2>2, <2>3, <2>4, <2>5, <2>6
    DEF Next, LoopStep, vars, WriteFails, FlushEnds, TimerFires, SessionCloses,
        ResetTimer, history
<1>3. QED
  BY <1>1, <1>2, LoopTypeCorrect, PTL DEF Spec

\* For every profile and every timing of the loop, no packet is scheduled
\* later than its hold, latency, jitter and the packets before it allow.
THEOREM LoopBoundsDelay == Spec => []DelayBounded
<1>1. LoopInv => DelayBounded
  BY DEF LoopInv, DelayBounded, InTime, Within, budget
<1>2. QED
  BY <1>1, LoopInvHolds, PTL

\* For every profile that keeps order, every number of packets and every
\* timing of the loop, a packet is overtaken by at most one later packet.
THEOREM LoopOvertakesOnce == Spec => []OvertakenOnce
<1>1. TypeOK /\ LoopInv /\ SentInScheduleOrder => OvertakenOnce
  <2> SUFFICES ASSUME TypeOK, LoopInv, SentInScheduleOrder, OrderKept,
                      NEW j \in 1..Len(sent)
               PROVE  Cardinality({i \in 1..(j - 1) : sent[i].id > sent[j].id}) <= 1
    BY DEF OvertakenOnce
  <2> DEFINE T == {i \in 1..(j - 1) : sent[i].id > sent[j].id}
  <2>1. sent \in Seq(Sent) /\ Len(sent) \in Nat /\ Once(scheduled(p, Written), p.next)
    BY DEF TypeOK, LoopInv, Tidy, OnceOvertaken
  <2>2. \A i \in 1..Len(sent) : sent[i] \in scheduled(p, Written) /\ sent[i].seq \in Nat
    <3> SUFFICES ASSUME NEW i \in 1..Len(sent)
                 PROVE  sent[i] \in scheduled(p, Written) /\ sent[i].seq \in Nat
      OBVIOUS
    <3>1. sent[i] \in Sent /\ sent[i] \in Written
      BY <2>1 DEF Written
    <3>2. QED
      BY <3>1 DEF scheduled, Sent
  <2>3. ASSUME NEW a \in T, NEW b \in T PROVE a = b
    <3>1. a \in 1..Len(sent) /\ b \in 1..Len(sent) /\ a < j /\ b < j
      BY <2>1, <2>3
    <3>2. sent[a].seq < sent[j].seq /\ sent[b].seq < sent[j].seq
      BY <3>1 DEF SentInScheduleOrder
    <3>3. sent[a] = sent[b]
      BY <2>1, <2>2, <2>3, <3>1, <3>2 DEF Once
    <3>4. ~(a < b) /\ ~(b < a)
      BY <2>2, <3>1, <3>3 DEF SentInScheduleOrder
    <3>5. QED
      BY <3>1, <3>4
  <2> HIDE DEF T
  <2>4. T = {} \/ \E a : T = {a}
    <3> SUFFICES ASSUME NEW a \in T PROVE T = {a}
      OBVIOUS
    <3>1. QED
      BY <2>3
  <2>5. Cardinality(T) \in {0, 1}
    BY <2>4, FS_EmptySet, FS_Singleton
  <2>6. QED
    BY <2>5 DEF T
<1>2. QED
  BY <1>1, LoopInvHolds, LoopTypeCorrect, LoopKeepsOrder, PTL

-----------------------------------------------------------------------------

inside == [n \in 1..Len(arrivals) |-> copiesInside(n)]
out == [k \in 1..Len(sent) |-> sent[k].id]

LEMMA InsideCounts == \A n : copiesInside(n) = count(p, n)
BY DEF copiesInside, count, queued, heldBack

\* Pipeline.Enqueue lets the packet into the line in c copies.
LEMMA EnqueueArrives ==
  ASSUME TypeOK, LoopInv, Enqueue
  PROVE  L!Next
<1>1. /\ Len(arrivals) < MaxPackets /\ arrivals' = Append(arrivals, clock)
      /\ UNCHANGED <<clock, sent>> /\ arrivals \in Seq(Nat) /\ clock \in Nat
  BY DEF Enqueue, TypeOK
<1>2. PICK c \in 0..2 : /\ count(p', Len(arrivals) + 1) = c
                        /\ drops' = drops + (IF c = 0 THEN 1 ELSE 0)
                        /\ dups' = dups + (IF c = 2 THEN 1 ELSE 0)
  BY EnqueueStep
<1>3. \A n \in 1..Len(arrivals) : count(p', n) = count(p, n)
  BY EnqueueStep
<1>4. \A n : copiesInside(n) = count(p, n) /\ copiesInside(n)' = count(p', n)
  BY InsideCounts DEF copiesInside, count, queued, heldBack
<1>5. Len(arrivals) \in Nat /\ Len(arrivals') = Len(arrivals) + 1
  BY <1>1
<1>6. inside' = Append(inside, c)
  <2> DEFINE N == Len(arrivals)
             f == [n \in 1..N |-> count(p, n)]
             g == [n \in 1..(N + 1) |-> count(p', n)]
  <2>1. inside = f /\ inside' = g
    BY <1>4, <1>5 DEF inside
  <2>2. f \in Seq(Nat) /\ Len(f) = N
    <3>1. \A n \in 1..N : count(p, n) \in Nat
      BY CountType DEF LoopInv, Tidy
    <3>2. QED
      BY <3>1, <1>5
  <2>3. Append(f, c) = [n \in 1..(N + 1) |-> IF n = N + 1 THEN c ELSE f[n]]
    BY <1>5, <2>2
  <2>4. ASSUME NEW n \in 1..(N + 1) PROVE g[n] = IF n = N + 1 THEN c ELSE f[n]
    <3>1. CASE n = N + 1
      BY <3>1, <1>2
    <3>2. CASE n # N + 1
      <4>1. n \in 1..N
        BY <3>2, <1>5
      <4>2. QED
        BY <3>2, <4>1, <1>3
    <3>3. QED
      BY <3>1, <3>2
  <2>5. QED
    BY <2>1, <2>3, <2>4
<1>7. out' = out
  BY <1>1 DEF out
<1>8. L!Arrive(c)
  BY <1>1, <1>2, <1>6, <1>7 DEF L!Arrive, inside, out
<1>9. QED
  BY <1>8 DEF L!Next

\* Writing a packet lets one copy of it out of the line.
LEMMA WriteLeaves ==
  ASSUME TypeOK, LoopInv, WriteNext
  PROVE  L!Next
<1>1. UNCHANGED <<clock, arrivals, drops, dups>> /\ arrivals \in Seq(Nat) /\ clock \in Nat
  BY DEF WriteNext, TypeOK
<1>2. PICK n \in 1..Len(arrivals) :
              /\ arrivals[n] + Latency <= clock
              /\ \E k \in Nat : sent' = Append(sent, [id |-> n, seq |-> k])
              /\ \A k : count(p', k) = count(p, k) - one(n, k)
              /\ count(p, n) > 0
  BY WriteStep
<1>3. \A k : copiesInside(k) = count(p, k) /\ copiesInside(k)' = count(p', k)
  BY InsideCounts DEF copiesInside, count, queued, heldBack
<1>4. inside[n] > 0 /\ clock >= arrivals[n] + Latency
  BY <1>1, <1>2, <1>3, ConfigValid DEF inside
<1>5. inside' = [inside EXCEPT ![n] = @ - 1]
  <2>1. inside = [k \in 1..Len(arrivals) |-> count(p, k)]
    BY <1>3 DEF inside
  <2>2. inside' = [k \in 1..Len(arrivals) |-> count(p', k)]
    BY <1>1, <1>3 DEF inside
  <2>3. \A k \in 1..Len(arrivals) : count(p', k) = IF k = n THEN count(p, k) - 1 ELSE count(p, k)
    <3>1. \A k \in 1..Len(arrivals) : count(p, k) \in Nat
      BY CountType DEF LoopInv, Tidy
    <3>2. QED
      BY <3>1, <1>2 DEF one
  <2>4. QED
    BY <2>1, <2>2, <2>3
<1>6. out' = Append(out, n)
  <2> DEFINE N == Len(sent)
  <2>1. PICK k \in Nat : sent' = Append(sent, [id |-> n, seq |-> k])
    BY <1>2
  <2> DEFINE e == [id |-> n, seq |-> k]
  <2>2. sent \in Seq(Sent) /\ N \in Nat /\ e \in Sent /\ e.id = n
    BY <1>1 DEF TypeOK, Sent
  <2> HIDE DEF e
  <2>3. /\ Len(sent') = N + 1 /\ sent'[N + 1] = e
        /\ \A i \in 1..N : sent'[i] = sent[i]
    BY <2>1, <2>2 DEF e
  <2>4. out \in Seq(Nat) /\ Len(out) = N
    <3>1. \A i \in 1..N : sent[i].id \in Nat
      <4>1. \A i \in 1..N : sent[i] \in Sent
        BY <2>2
      <4>2. QED
        BY <4>1 DEF Sent
    <3>2. QED
      BY <3>1, <2>2 DEF out
  <2>5. out' = [i \in 1..(N + 1) |-> sent'[i].id]
    BY <2>3 DEF out
  <2>6. Append(out, n) = [i \in 1..(N + 1) |-> IF i = N + 1 THEN n ELSE out[i]]
    BY <2>2, <2>4 DEF out
  <2>7. ASSUME NEW i \in 1..(N + 1) PROVE sent'[i].id = IF i = N + 1 THEN n ELSE out[i]
    BY <2>2, <2>3 DEF out
  <2>8. QED
    BY <2>5, <2>6, <2>7
<1>7. L!Leave(n)
  BY <1>1, <1>2, <1>4, <1>5, <1>6 DEF L!Leave, inside, out
<1>8. QED
  BY <1>7 DEF L!Next

\* The loop and its pipeline implement the delay line, whatever the profile,
\* the number of packets and the timing: each packet goes in as the counters
\* say, and each copy comes out at most once and not early.
THEOREM LoopImplementsDelayLine == Spec => ImplementsDelayLine
<1>1. Init => L!Init
  <2> SUFFICES ASSUME Init PROVE L!Init
    OBVIOUS
  <2>1. clock = 0 /\ arrivals = <<>> /\ sent = <<>> /\ drops = 0 /\ dups = 0
    BY DEF Init
  <2>2. inside = <<>> /\ out = <<>>
    BY <2>1 DEF inside, out
  <2>3. QED
    BY <2>1, <2>2 DEF L!Init, inside, out
<1>2. TypeOK /\ LoopInv /\ [Next]_vars => [L!Next]_(L!vars)
  <2> SUFFICES ASSUME TypeOK, LoopInv, [Next]_vars PROVE [L!Next]_(L!vars)
    OBVIOUS
  <2>i. PastArrivals(arrivals, clock) /\ Tidy(p, Written, arrivals)
    BY DEF LoopInv
  <2>t. clock \in Nat /\ Written \in SUBSET Sent
    BY WrittenType DEF TypeOK
  <2>q. ASSUME UNCHANGED <<clock, arrivals, sent, drops, dups>>,
               \A n : count(p', n) = count(p, n)
        PROVE  UNCHANGED L!vars
    <3>1. \A n : copiesInside(n) = count(p, n) /\ copiesInside(n)' = count(p', n)
      BY InsideCounts DEF copiesInside, count, queued, heldBack
    <3>2. inside' = inside /\ out' = out
      BY <2>q, <3>1 DEF inside, out
    <3>3. QED
      BY <2>q, <3>2 DEF L!vars, inside, out
  <2>1. CASE UNCHANGED <<clock, p, arrivals, sent, drops, dups>>
    <3>1. \A n : count(p', n) = count(p, n)
      BY <2>1
    <3>2. QED
      BY <2>1, <2>q, <3>1
  <2>2. CASE ReleaseReady
    <3>1. p' \in flushExpiredHeld(p, clock) /\ UNCHANGED <<clock, arrivals, sent, drops, dups>>
      BY <2>2 DEF ReleaseReady, history
    <3>2. /\ Tidy(p', Written, arrivals) /\ Fresh(p', clock)
          /\ \A n : count(p', n) = count(p, n)
          /\ InTime(p, arrivals, clock) => InTime(p', arrivals, clock)
      BY <3>1, <2>i, <2>t, FlushExpiredTidy
    <3>3. QED
      BY <2>q, <3>1, <3>2
  <2>3. CASE SeesDone
    <3>1. p' \in Flush(p, clock) /\ UNCHANGED <<clock, arrivals, sent, drops, dups>>
      BY <2>3 DEF SeesDone, history
    <3>2. Tidy(p', Written, arrivals) /\ \A n : count(p', n) = count(p, n)
      BY <3>1, <2>i, <2>t, FlushTidy
    <3>3. QED
      BY <2>q, <3>1, <3>2
  <2>4. CASE Enqueue
    BY <2>4, EnqueueArrives
  <2>5. CASE WriteNext
    BY <2>5, WriteLeaves
  <2>6. CASE Tick
    <3>1. clock' > clock /\ UNCHANGED <<p, arrivals, sent, drops, dups>>
      BY <2>6, <2>t DEF Tick, history
    <3>2. inside' = inside /\ out' = out
      BY <3>1 DEF inside, out, copiesInside
    <3>3. L!Tick
      BY <3>1, <3>2 DEF L!Tick, inside, out
    <3>4. QED
      BY <3>3 DEF L!Next
  <2>7. QED
    BY <2>1, <2>2, <2>3, <2>4, <2>5, <2>6
    DEF Next, LoopStep, vars, WriteFails, FlushEnds, TimerFires, SessionCloses,
        ResetTimer, history
<1>3. QED
  BY <1>1, <1>2, LoopInvHolds, LoopTypeCorrect, PTL DEF Spec, ImplementsDelayLine, L!Spec

=============================================================================
