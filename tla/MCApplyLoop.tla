---------------------------- MODULE MCApplyLoop ----------------------------
(* ApplyLoop for TLC: packets of one byte and of three.                    *)
EXTENDS ApplyLoop

MCPacketLen == [n \in 1..MaxPackets |-> IF n = 2 THEN 3 ELSE 1]
=============================================================================
