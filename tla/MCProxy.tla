------------------------------ MODULE MCProxy ------------------------------
(***************************************************************************)
(* The proxy for TLC: its table with the life of every session, and the    *)
(* goroutines of one session.  The two modules share no variable, so their *)
(* states need not be multiplied: a behaviour shows one of them, while the *)
(* other stays as it starts, where no goroutine has anything to do.        *)
(***************************************************************************)
EXTENDS ProxySessions, SessionLoops

VARIABLE shown  \* the part that a behaviour is about; never changes

ProxyInit == Init /\ LoopsInit /\ shown \in {"table", "goroutines"}

ProxyNext ==
  \/ shown = "table" /\ Next /\ UNCHANGED <<loopsVars, shown>>
  \/ shown = "goroutines" /\ LoopsNext /\ UNCHANGED <<vars, shown>>

ProxySpec ==
  ProxyInit /\ [][ProxyNext]_<<vars, loopsVars, shown>> /\ Fairness /\ LoopsFairness
=============================================================================
