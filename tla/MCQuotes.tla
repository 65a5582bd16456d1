------------------------------ MODULE MCQuotes ------------------------------
(* Two posts of alice, one edited until it asks for decisions by hand, and *)
(* two quoting posts.  In r2 bob names his post by IRI, in r3 he asks for  *)
(* the post of alice.                                                      *)
EXTENDS Quotes, FiniteSets, TLC

CONSTANTS w1, w2, alice, dora, bob, p1, p2, q1, q2, r1, r2, r3

Authors == p1 :> alice @@ p2 :> alice
Editions == p1 :> (1 :> [manual |-> FALSE, public |-> FALSE, to |-> {}]
                   @@ 2 :> [manual |-> TRUE, public |-> TRUE, to |-> {}]) @@
            p2 :> (1 :> [manual |-> FALSE, public |-> TRUE, to |-> {}]
                   @@ 2 :> [manual |-> FALSE, public |-> FALSE, to |-> {bob}])
Drafts == q1 :> [actor |-> bob, post |-> p1] @@ q2 :> [actor |-> alice, post |-> p1]
Question(post, quote, embedded) ==
  [sender |-> bob, post |-> post, quote |-> quote, embedded |-> embedded, stating |-> embedded]
Questions == r1 :> Question(p1, q1, TRUE) @@ r2 :> Question(p2, q1, FALSE) @@ r3 :> Question(p1, q2, TRUE)
Asks == [r \in Request |-> Questions[r]]
Workers == Permutations(Worker)

(* Bounds of this instance: one version of p2, before those of p1; one     *)
(* decision by hand, and then nobody follows; alice quotes herself and r3  *)
(* is refused before anything else; only dora, for r1, chooses an IRI,     *)
(* with no fault and one version of p1.                                    *)
HandRejects == {m \in sent : m.kind = "Reject" /\ ~ m.automatic}
Rejecting == {w \in Worker : run[w].byHand /\ At(w, "reject")}
Decisions == Cardinality(granted) + Cardinality(HandRejects) + Cardinality(Rejecting)
Few ==
  /\ published[p2] <= 1 /\ (published[p1] > 0 => published[p2] = 1)
  /\ Decisions <= 1 /\ (Decisions = 0 \/ follower \cup unfollowed = {})
  /\ given = {} \/ (faults = 0 /\ granted = {<<r1, dora>>} /\ published[p1] <= 1)
  /\ \/ verdict[q2] = "queued" /\ outcome[r3] = "queued"
     \/ outcome[r1] = "queued" /\ outcome[r2] = "queued"
=============================================================================
