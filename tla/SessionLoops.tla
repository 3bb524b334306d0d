---------------------------- MODULE SessionLoops ----------------------------
(***************************************************************************)
(* The four goroutines of one proxy session and the channels between them  *)
(* (internal/proxy/proxy.go):                                              *)
(*                                                                         *)
(*   Serve --incoming--> acceptLoop --toServer--> toServerLoop             *)
(*   upstream socket --> returnReadLoop --toClient--> toClientLoop         *)
(*                                                                         *)
(* Packets are counted, not distinguished; what applyLoop does with one it *)
(* has taken is in ApplyLoop, and here it may only end by a failed write.  *)
(***************************************************************************)
EXTENDS Integers

CONSTANTS
  QueueDepth,  \* capacity of each of the three channels (256 in the code)
  MaxPackets   \* bound: packets in each direction

ASSUME Bounds == QueueDepth \in Nat \ {0} /\ MaxPackets \in Nat

VARIABLES
  incoming, toServer, toClient,  \* packets in the channels
  accept,        \* acceptLoop: in the outer select, sending, exited
  ret,           \* returnReadLoop: reading, sending, in removeSession, exited
  serverLoop,    \* toServerLoop: running, in removeSession, exited
  clientLoop,    \* toClientLoop: running, in removeSession, exited
  sessionDone,   \* s.done is closed, and with it the upstream socket
  arrived, refused, upstreamed,  \* client packets: offered, refused, applied
  received, returned             \* server packets: read, applied

clientSide == <<incoming, toServer, accept, serverLoop, arrived, refused, upstreamed>>
serverSide == <<toClient, ret, clientLoop, received, returned>>
loopsVars == <<clientSide, serverSide, sessionDone>>

LoopsInit ==
  /\ incoming = 0 /\ toServer = 0 /\ toClient = 0
  /\ accept = "select" /\ ret = "read" /\ serverLoop = "run" /\ clientLoop = "run"
  /\ sessionDone = FALSE
  /\ arrived = 0 /\ refused = 0 /\ upstreamed = 0 /\ received = 0 /\ returned = 0

\* enqueueIncoming: a select with a default, so Serve never waits.
enqueueIncoming ==
  /\ arrived < MaxPackets
  /\ arrived' = arrived + 1
  /\ \/ /\ incoming < QueueDepth
        /\ incoming' = incoming + 1 /\ UNCHANGED refused
     \/ /\ sessionDone \/ incoming = QueueDepth
        /\ refused' = refused + 1 /\ UNCHANGED incoming
  /\ UNCHANGED <<toServer, accept, serverLoop, upstreamed, serverSide, sessionDone>>

\* acceptLoop's outer select.
AcceptTake ==
  /\ accept = "select"
  /\ incoming > 0
  /\ incoming' = incoming - 1
  /\ accept' = "send"
  /\ UNCHANGED <<toServer, serverLoop, arrived, refused, upstreamed, serverSide, sessionDone>>

AcceptDone ==
  /\ accept = "select"
  /\ sessionDone
  /\ accept' = "exited"
  /\ UNCHANGED <<incoming, toServer, serverLoop, arrived, refused, upstreamed,
                 serverSide, sessionDone>>

\* Variant: a full toServer drops the packet.
AcceptSendDrops ==
  /\ accept = "send"
  /\ toServer' = IF toServer < QueueDepth THEN toServer + 1 ELSE toServer
  /\ accept' = "select"
  /\ UNCHANGED <<incoming, serverLoop, arrived, refused, upstreamed, serverSide, sessionDone>>

\* Variant: no s.done in the inner select.
AcceptSendBlocks ==
  /\ accept = "send"
  /\ toServer < QueueDepth
  /\ toServer' = toServer + 1 /\ accept' = "select"
  /\ UNCHANGED <<incoming, serverLoop, arrived, refused, upstreamed, serverSide, sessionDone>>

\* Its inner select: a place in toServer, or the end of the session.
AcceptSend ==
  /\ accept = "send"
  /\ \/ /\ toServer < QueueDepth
        /\ toServer' = toServer + 1 /\ accept' = "select"
     \/ /\ sessionDone
        /\ accept' = "exited" /\ UNCHANGED toServer
  /\ UNCHANGED <<incoming, serverLoop, arrived, refused, upstreamed, serverSide, sessionDone>>

\* toServerLoop takes a packet into its pipeline.
ServerLoopTake ==
  /\ serverLoop = "run"
  /\ toServer > 0
  /\ toServer' = toServer - 1
  /\ upstreamed' = upstreamed + 1
  /\ UNCHANGED <<incoming, accept, serverLoop, arrived, refused, serverSide, sessionDone>>

\* Variant: a failed write ends the loop and not the session.
ServerLoopJustEnds ==
  /\ serverLoop = "run"
  /\ serverLoop' = "exited"
  /\ UNCHANGED <<incoming, toServer, accept, arrived, refused, upstreamed,
                 serverSide, sessionDone>>

\* A write to the upstream socket fails.
ServerLoopFails ==
  /\ serverLoop = "run"
  /\ serverLoop' = "remove"
  /\ UNCHANGED <<incoming, toServer, accept, arrived, refused, upstreamed,
                 serverSide, sessionDone>>

\* removeSession closes the session, and the loop returns.
ServerLoopRemoves ==
  /\ serverLoop = "remove"
  /\ serverLoop' = "exited" /\ sessionDone' = TRUE
  /\ UNCHANGED <<incoming, toServer, accept, arrived, refused, upstreamed, serverSide>>

ServerLoopDone ==
  /\ serverLoop = "run"
  /\ sessionDone
  /\ serverLoop' = "exited"
  /\ UNCHANGED <<incoming, toServer, accept, arrived, refused, upstreamed,
                 serverSide, sessionDone>>

\* returnReadLoop reads a packet.
ReturnRead ==
  /\ ret = "read"
  /\ ~ sessionDone
  /\ received < MaxPackets
  /\ received' = received + 1
  /\ ret' = "send"
  /\ UNCHANGED <<clientSide, toClient, clientLoop, returned, sessionDone>>

\* The read fails, at the latest because close() has closed the socket.
ReturnReadFails ==
  /\ ret = "read"
  /\ ret' = "remove"
  /\ UNCHANGED <<clientSide, toClient, clientLoop, received, returned, sessionDone>>

ReturnRemoves ==
  /\ ret = "remove"
  /\ ret' = "exited" /\ sessionDone' = TRUE
  /\ UNCHANGED <<clientSide, toClient, clientLoop, received, returned>>

ReturnSend ==
  /\ ret = "send"
  /\ \/ /\ toClient < QueueDepth
        /\ toClient' = toClient + 1 /\ ret' = "read"
     \/ /\ sessionDone
        /\ ret' = "exited" /\ UNCHANGED toClient
  /\ UNCHANGED <<clientSide, clientLoop, received, returned, sessionDone>>

ClientLoopTake ==
  /\ clientLoop = "run"
  /\ toClient > 0
  /\ toClient' = toClient - 1
  /\ returned' = returned + 1
  /\ UNCHANGED <<clientSide, ret, clientLoop, received, sessionDone>>

ClientLoopFails ==
  /\ clientLoop = "run"
  /\ clientLoop' = "remove"
  /\ UNCHANGED <<clientSide, toClient, ret, received, returned, sessionDone>>

ClientLoopRemoves ==
  /\ clientLoop = "remove"
  /\ clientLoop' = "exited" /\ sessionDone' = TRUE
  /\ UNCHANGED <<clientSide, toClient, ret, received, returned>>

ClientLoopDone ==
  /\ clientLoop = "run"
  /\ sessionDone
  /\ clientLoop' = "exited"
  /\ UNCHANGED <<clientSide, toClient, ret, received, returned, sessionDone>>

\* sweepLoop or Proxy.Close closes the session.
ClosedFromOutside ==
  /\ ~ sessionDone
  /\ sessionDone' = TRUE
  /\ UNCHANGED <<clientSide, serverSide>>

AcceptStep == AcceptTake \/ AcceptDone \/ AcceptSend
ServerLoopStep == ServerLoopTake \/ ServerLoopRemoves \/ ServerLoopDone
ReturnStep == ReturnRemoves \/ ReturnSend \/ (sessionDone /\ ReturnReadFails)
ClientLoopStep == ClientLoopTake \/ ClientLoopRemoves \/ ClientLoopDone

LoopsNext ==
  \/ AcceptStep \/ ServerLoopStep \/ ReturnStep \/ ClientLoopStep
  \/ enqueueIncoming \/ ReturnRead \/ ClosedFromOutside
  \/ ServerLoopFails \/ ReturnReadFails \/ ClientLoopFails

LoopsSpec == LoopsInit /\ [][LoopsNext]_loopsVars

\* Every goroutine runs whenever it can; nothing has to arrive or to fail.
LoopsFairness ==
  /\ WF_loopsVars(AcceptStep) /\ WF_loopsVars(ServerLoopStep)
  /\ WF_loopsVars(ReturnStep) /\ WF_loopsVars(ClientLoopStep)

LoopsFairSpec == LoopsSpec /\ LoopsFairness

-----------------------------------------------------------------------------

\* Every variable has its type, and no channel exceeds its capacity.
LoopsTypeOK ==
  /\ incoming \in 0..QueueDepth /\ toServer \in 0..QueueDepth
  /\ toClient \in 0..QueueDepth
  /\ accept \in {"select", "send", "exited"}
  /\ ret \in {"read", "send", "remove", "exited"}
  /\ serverLoop \in {"run", "remove", "exited"}
  /\ clientLoop \in {"run", "remove", "exited"}
  /\ sessionDone \in BOOLEAN
  /\ arrived \in Nat /\ refused \in Nat /\ upstreamed \in Nat
  /\ received \in Nat /\ returned \in Nat

\* While the session is open no packet disappears between the goroutines: it
\* was refused at the door, waits in a channel or a hand, or was applied.
NothingLostInside ==
  ~ sessionDone =>
    /\ arrived = refused + incoming + toServer + upstreamed
                   + (IF accept = "send" THEN 1 ELSE 0)
    /\ received = toClient + returned + (IF ret = "send" THEN 1 ELSE 0)

\* After the session is closed all four goroutines end, wherever they were
\* waiting: on an empty channel, on a full one, or on the socket.
GoroutinesEnd ==
  sessionDone ~> accept = "exited" /\ ret = "exited"
                 /\ serverLoop = "exited" /\ clientLoop = "exited"

\* A full queue drains while the session is open: the goroutines of a session
\* do not wait for each other for ever.
QueuesDrain ==
  /\ incoming = QueueDepth ~> (incoming < QueueDepth \/ sessionDone)
  /\ ret = "send" ~> (ret # "send" \/ sessionDone)

=============================================================================
