------------------------------- MODULE MCKeys -------------------------------
EXTENDS Keys, TLC

CONSTANTS alice, iri1, iri2, s1, s2, r1, r2

MCAlgOf == [a \in Actor |-> IF a = alice THEN "Ed25519" ELSE "RSA"]

MCHostOf == [a \in Actor |-> IF a = alice THEN "there" ELSE "here"]

RSA(g) == [alg |-> "RSA", gen |-> g]
Ed25519(g) == [alg |-> "Ed25519", gen |-> g]
Signature(a, key) ==
  [path |-> "signature", signer |-> a, type |-> key.alg, key |-> key,
   relay |-> NoActor, relayKey |-> key, author |-> a]
(* The payload is the relay's, an announcement say.                        *)
Proof(a, key, relay, relayKey) ==
  [path |-> "proof", signer |-> a, type |-> "Ed25519", key |-> key,
   relay |-> relay, relayKey |-> relayKey, author |-> relay]

(* Alice's signatures with each of her keys, an author proof of hers that  *)
(* the server actor relays, and a signature of the server actor itself.    *)
MCMessage ==
  {Signature(alice, Ed25519(g)) : g \in Gen} \cup
  {Proof(alice, Ed25519(0), iri1, Ed25519(0)), Signature(iri1, RSA(0))}

MCHome == [r \in Request |-> s1]

(* Either two attempts to provision beside one another, or requests and a  *)
(* rotation while the second process stays down.                           *)
OneAtATime ==
  (minted = LocalActor \/ boot[s2].pc # "down" \/ interrupted) =>
    rotation = NoRotation /\ history = {} /\ \A r \in Request : run[r] = Idle

(* A profile that cannot be read comes up while nothing is rotated here.   *)
Unread == {r \in Request : run[r] # Idle /\ run[r].unread}
ReadFaultsApart ==
  Unread # {} \/ (\E row \in history : row.key.gen = Garbled) =>
    rotation = NoRotation /\ \A row \in history : row.open

Symmetry == Permutations(Request)
=============================================================================
