----------------------------- MODULE DelayLine -----------------------------
(***************************************************************************)
(* What one direction of the proxy is to the packets that pass it: each    *)
(* goes in as no copy, one or two, every copy comes out at most once and   *)
(* not before the latency of the profile has passed, and the counters tell *)
(* the packets dropped and duplicated.  In which order they come out is    *)
(* left open.                                                              *)
(***************************************************************************)
EXTENDS Integers, Sequences

CONSTANTS
  Latency,    \* of the profile
  MaxPackets  \* bound: packets that arrive

VARIABLES
  now,       \* the time
  arrivals,  \* when each packet arrived
  inside,    \* copies of each packet still inside
  out,       \* packets in the order they came out
  drops, dups

vars == <<now, arrivals, inside, out, drops, dups>>

Init ==
  now = 0 /\ arrivals = <<>> /\ inside = <<>> /\ out = <<>> /\ drops = 0 /\ dups = 0

Arrive(copies) ==
  /\ Len(arrivals) < MaxPackets
  /\ arrivals' = Append(arrivals, now)
  /\ inside' = Append(inside, copies)
  /\ drops' = drops + (IF copies = 0 THEN 1 ELSE 0)
  /\ dups' = dups + (IF copies = 2 THEN 1 ELSE 0)
  /\ UNCHANGED <<now, out>>

Leave(n) ==
  /\ inside[n] > 0
  /\ now >= arrivals[n] + Latency
  /\ inside' = [inside EXCEPT ![n] = @ - 1]
  /\ out' = Append(out, n)
  /\ UNCHANGED <<now, arrivals, drops, dups>>

Tick ==
  /\ now' > now
  /\ UNCHANGED <<arrivals, inside, out, drops, dups>>

Next ==
  \/ \E copies \in 0..2 : Arrive(copies)
  \/ \E n \in 1..Len(arrivals) : Leave(n)
  \/ Tick

Spec == Init /\ [][Next]_vars
=============================================================================
