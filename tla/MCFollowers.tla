----------------------------- MODULE MCFollowers -----------------------------
(* alice is served here; xeno, yann and bob at one other host, zoe at a    *)
(* third, whose list for alice also names bob; bob's host sends headers    *)
(* about bob, too.                                                         *)
EXTENDS Followers, TLC

CONSTANTS here, there, else, alice, xeno, yann, zoe, bob, w1, w2, w3, p1, p2, nobody

MCDomainOf ==
  alice :> here @@ nobody :> here @@ xeno :> there @@ yann :> there @@ bob :> there
    @@ zoe :> else
MCProfiles == [a \in Actor |-> IF a = bob THEN 2 ELSE MaxVersions]
MCChange ==
  {[kind |-> "accept", edge |-> <<alice, xeno>>], [kind |-> "reject", edge |-> <<alice, xeno>>],
   [kind |-> "leave", edge |-> <<alice, yann>>]}
MCCall == {<<alice, there>>, <<alice, else>>, <<bob, there>>}
MCExisting == {<<alice, yann>>, <<alice, zoe>>}
MCBelieved == <<alice, there>> :> {yann} @@ <<alice, else>> :> {zoe, bob} @@ <<bob, there>> :> {alice}
MCHome == w1 :> p1 @@ w2 :> p1 @@ w3 :> p2
OneHome == w1 :> p1 @@ w2 :> p1
Workers == Permutations({w1, w2})

(* bound: the third worker, at another server, takes the leaves; one       *)
(* header of each call on its way; with one of the third host no other     *)
(* change and no fault; the header about bob comes before anything else,   *)
(* and nothing else but a version of his profile after it, for it shares   *)
(* no edge and no entry with those about alice.                            *)
Few ==
  /\ \A w \in Worker : At(w, "idle") \/ (run[w].kind = "leave" <=> w = w3)
  /\ \A c \in Call : \A g, h \in header : g.call = c /\ h.call = c => g = h
  /\ forgets = 0 \/ \A w \in Worker : run[w].kind # "leave"
  /\ ~ \E c, d \in told : c # d
  /\ (\E h \in header : h.call = <<alice, else>>) =>
       /\ told = {} /\ forgets = 0 /\ faults = 0
       /\ \A w \in Worker : run[w].kind \in {"sync", "leave"}
  /\ (\E h \in header : h.call[1] = bob) =>
       /\ edge = Existing /\ \A h \in header : h.call[1] = bob
       /\ \A w \in Worker : run[w].kind = "sync"
  /\ versions # Profiles => \E h \in header : h.call[1] = bob

==============================================================================
