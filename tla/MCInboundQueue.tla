--------------------------- MODULE MCInboundQueue ---------------------------
(* Small instances of InboundQueue.  Replicas: one server with two workers *)
(* beside one with a single worker.  OneServer: two workers of one server; *)
(* OneWorker: one, so that three tasks fill worker, channel and poller.    *)
EXTENDS InboundQueue, TLC

CONSTANTS s1, s2, w1, w2, w3

Replicas == [w \in {w1, w2, w3} |-> IF w = w3 THEN s2 ELSE s1]
OneServer == [w \in {w1, w2} |-> s1]
OneWorker == [w \in {w1} |-> s1]

Symmetry == Permutations(Task) \cup Permutations({w1, w2})
=============================================================================
