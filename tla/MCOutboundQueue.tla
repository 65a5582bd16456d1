--------------------------- MODULE MCOutboundQueue ---------------------------
(* Small instances of OutboundQueue: two replicas with one worker each, or *)
(* one server with two.                                                    *)
EXTENDS OutboundQueue, TLC

CONSTANTS s1, s2, w1, w2, a1, a2

Replicas == [w \in {w1, w2} |-> IF w = w1 THEN s1 ELSE s2]
OneServer == [w \in {w1, w2} |-> s1]

Ages == a1 :> 1 @@ a2 :> 2
=============================================================================
