------------------------------ MODULE QuadStore ------------------------------
(***************************************************************************)
(* What the graph store promises to the domain service, in terms and not   *)
(* in dictionary identifiers: a graph version appears together with all    *)
(* its quads, further quads are only added to a graph that exists, and an  *)
(* edge is removed from every graph at once.                               *)
(***************************************************************************)
CONSTANTS
  Term,
  Graph,   \* identifiers of graphs
  Whole,   \* contents of the versions saved in one call: sets of pairs of terms
  Loose    \* contents added to a graph that was created before

VARIABLES
  versions,   \* the graphs that exist
  store       \* the quads, as <<graph, subject, object>>

vars == <<versions, store>>

In(g, content) == {<<g, q[1], q[2]>> : q \in content}

Init == versions = {} /\ store = {}

Save(g, content) ==
  /\ g \notin versions
  /\ versions' = versions \cup {g}
  /\ store' = store \cup In(g, content)

Create(g) == g \notin versions /\ versions' = versions \cup {g} /\ UNCHANGED store

Add(g, content) == g \in versions /\ store' = store \cup In(g, content) /\ UNCHANGED versions

Remove(x, y) ==
  /\ store' = {e \in store : ~(e[2] = x /\ e[3] = y)}
  /\ UNCHANGED versions

Next ==
  \/ \E g \in Graph : Create(g)
  \/ \E g \in Graph, content \in Whole : Save(g, content)
  \/ \E g \in Graph, content \in Loose : Add(g, content)
  \/ \E x, y \in Term : Remove(x, y)

Spec == Init /\ [][Next]_vars
=============================================================================
