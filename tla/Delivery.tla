------------------------------ MODULE Delivery ------------------------------
(***************************************************************************)
(* What the broker promises a subscriber, without queues, goroutines and   *)
(* locks.  Streams are reliable and in order per publisher as long as the  *)
(* subscriber's transport works: a publisher does not go on to its next    *)
(* frame while a live subscriber has not been given the last one to carry. *)
(* Datagrams are in order per publisher and may be dropped.                *)
(***************************************************************************)
EXTENDS Integers, Sequences

CONSTANTS
  Sessions,  \* publishers and subscribers
  Frame      \* frames: publisher, number and topic

VARIABLES
  due,     \* frames addressed to each subscriber
  line,    \* frames taken over for it and not written yet, in order
  given,   \* frames written to it, in order
  lost,    \* frames a delivery stream refused
  dead,    \* its transport no longer works
  dgLine,  \* datagrams taken over for it, in order
  dgLast   \* the last datagram of each publisher handed to its transport

streamVars == <<due, line, given, lost, dead>>
datagramVars == <<dgLine, dgLast>>
vars == <<streamVars, datagramVars>>

elements(q) == {q[i] : i \in DOMAIN q}

\* In q, the frames of one publisher are in the order it sent them, each at most once.
InPublishOrder(q) ==
  \A i, j \in DOMAIN q : i < j /\ q[i].from = q[j].from => q[i].seq < q[j].seq

\* f is newer than everything its publisher has in F.
newerThan(f, F) == \A g \in F : g.from = f.from => g.seq < f.seq

\* What has become of the frames addressed to r.
carried(r) == elements(line[r]) \cup elements(given[r]) \cup lost[r]

\* The order holds at the start; it may be any time in the life of the sessions.
Init ==
  \A r \in Sessions :
    /\ InPublishOrder(given[r] \o line[r])
    /\ InPublishOrder(dgLine[r])
    /\ carried(r) \subseteq due[r]
    /\ \A i \in DOMAIN dgLine[r] : dgLast[r][dgLine[r][i].from] < dgLine[r][i].seq

\* A publisher addresses its next frame to the subscribers R, after every live
\* subscriber of its earlier ones has been served.
Address(f, R) ==
  /\ \A r \in Sessions : newerThan(f, due[r])
  /\ \A r \in Sessions : \A g \in due[r] :
       g.from = f.from => g \in carried(r) \/ dead[r]
  /\ due' = [r \in Sessions |-> IF r \in R THEN due[r] \cup {f} ELSE due[r]]
  /\ UNCHANGED <<line, given, lost, dead, datagramVars>>

\* The frame takes its place behind those before it.
Accept(r, f) ==
  /\ f \in due[r]
  /\ newerThan(f, carried(r))
  /\ line' = [line EXCEPT ![r] = Append(@, f)]
  /\ UNCHANGED <<due, given, lost, dead, datagramVars>>

Give(r) ==
  /\ line[r] # <<>> /\ ~ dead[r]
  /\ given' = [given EXCEPT ![r] = Append(@, Head(line[r]))]
  /\ line' = [line EXCEPT ![r] = Tail(@)]
  /\ UNCHANGED <<due, lost, dead, datagramVars>>

\* The stream opened for the frame fails.
Refuse(r) ==
  /\ line[r] # <<>>
  /\ lost' = [lost EXCEPT ![r] = @ \cup {Head(line[r])}]
  /\ line' = [line EXCEPT ![r] = Tail(@)]
  /\ UNCHANGED <<due, given, dead, datagramVars>>

Die(r) ==
  /\ dead' = [dead EXCEPT ![r] = TRUE]
  /\ UNCHANGED <<due, line, given, lost, datagramVars>>

AcceptDatagram(r, f) ==
  /\ newerThan(f, elements(dgLine[r]))
  /\ dgLast[r][f.from] < f.seq
  /\ dgLine' = [dgLine EXCEPT ![r] = Append(@, f)]
  /\ UNCHANGED <<streamVars, dgLast>>

DropDatagram(r) ==
  /\ dgLine[r] # <<>>
  /\ dgLine' = [dgLine EXCEPT ![r] = Tail(@)]
  /\ UNCHANGED <<streamVars, dgLast>>

GiveDatagram(r) ==
  /\ dgLine[r] # <<>>
  /\ LET f == Head(dgLine[r]) IN dgLast' = [dgLast EXCEPT ![r][f.from] = f.seq]
  /\ dgLine' = [dgLine EXCEPT ![r] = Tail(@)]
  /\ UNCHANGED streamVars

Next ==
  \/ \E f \in Frame, R \in SUBSET Sessions : Address(f, R)
  \/ \E r \in Sessions :
       \/ Give(r) \/ Refuse(r) \/ Die(r) \/ DropDatagram(r) \/ GiveDatagram(r)
       \/ \E f \in Frame : Accept(r, f) \/ AcceptDatagram(r, f)

Spec == Init /\ [][Next]_vars
=============================================================================
