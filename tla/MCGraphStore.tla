----------------------------- MODULE MCGraphStore -----------------------------
(* Small instances of GraphStore: two servers, one of them with two        *)
(* workers on its cache, that save versions, given graphs and edges over   *)
(* two terms.                                                              *)
EXTENDS GraphStore, TLC

CONSTANTS s1, s2, w1, w2, w3, x, y

Crowd == w1 :> s1 @@ w2 :> s1 @@ w3 :> s2
Single == w1 :> s1

Version(q) == [kind |-> "version", quads |-> q]
Given(q) == [kind |-> "given", quads |-> q]
Edge(q) == [kind |-> "edge", quads |-> q]

(* Versions that name two terms in opposite orders, a given graph and  *)
(* an edge over them.                                                      *)
Crossing == {Version(<< <<x, y>> >>), Version(<< <<y, x>> >>)}
Mixed == Crossing \cup {Given(<< <<x, x>> >>), Edge(<< <<y, x>> >>)}
Versions == {Version(<< <<x, y>> >>)}
Edges == {Edge(<< <<x, y>> >>)}
=============================================================================
