------------------------------ MODULE GraphStore ------------------------------
(***************************************************************************)
(* The quad store of postgres.go: graph versions (rdf_graphs), quads of    *)
(* dictionary identifiers (rdf_quads), the dictionary (rdf_dictionary) and *)
(* the in-memory dictionary cache of each server process.                  *)
(*                                                                         *)
(* A save is a transaction of several statements: the graph version, one   *)
(* InsertDictionaryValue per unknown term, the quads, the commit.  The     *)
(* cache is filled while the transaction is open and belongs to the        *)
(* process, not to the transaction.                                        *)
(*                                                                         *)
(* Identifiers are positive; 0 stands for "none".  A predicate is one more *)
(* term that is resolved like the subject and the object, and literals     *)
(* bypass the dictionary, so a quad is a subject and an object here.       *)
(***************************************************************************)
EXTENDS Naturals, Sequences, FiniteSets

CONSTANTS
  Server, Worker, ServerOf,
  Term,
  Request,     \* saves: [kind: Kinds, quads: a sequence of <<subject, object>>]
  MaxSaves,    \* bound: saves begun in a behaviour
  MaxFaults    \* bound: database errors, cancelled contexts and restarts

(* SaveGraphVersion; CreateGraphVersion and then SaveQuads with its graph  *)
(* (bootstrap, cacheServerInbox); SaveQuads of edges without a graph       *)
(* (follow state, followers, group members).                               *)
Kinds == {"version", "given", "edge"}

ASSUME GraphAssumption ==
  /\ ServerOf \in [Worker -> Server]
  /\ IsFiniteSet(Worker)
  /\ Request \subseteq [kind : Kinds, quads : Seq(Term \X Term)]
  /\ Request # {}
  /\ MaxSaves \in Nat /\ MaxFaults \in Nat

VARIABLES
  dictionary,   \* committed rows of rdf_dictionary: the id of a term, or 0
  nextTerm,     \* its sequence, which no rollback takes back
  graphs,       \* committed ids of rdf_graphs
  nextGraph,    \* its sequence
  quads,        \* committed rows of rdf_quads: <<graph, subject id, object id>>
  cache,        \* DictionaryCache of each server: the id of a term, or 0
  phase,        \* where in its save each worker is
  request,      \* what it saves, or saved last
  graph,        \* the graph id of the save
  resolved,     \* the ids toQuadIDs has found so far
  inserted,     \* dictionary rows the open transaction inserted
  outcome,      \* how the last save of the worker ended
  rolledBack,   \* history: <<term, id>> of rows that were rolled back
  saves, faults \* history: counts for the bounds

tables == <<dictionary, nextTerm, graphs, nextGraph, quads>>
saving == <<phase, request, graph, resolved, inserted, outcome>>
vars == <<tables, cache, saving, rolledBack, saves, faults>>

NoIds == [t \in Term |-> 0]

(* How far a save can be in each phase. *)
SavesInStep ==
  \A w \in Worker :
    /\ phase[w] \in {"idle", "created"} => inserted[w] = NoIds /\ resolved[w] = <<>>
    /\ Len(resolved[w]) <= 2 * Len(request[w].quads)
    /\ phase[w] = "written" => Len(resolved[w]) = 2 * Len(request[w].quads)

TypeOK ==
  /\ dictionary \in [Term -> Nat] /\ nextTerm \in Nat \ {0}
  /\ graphs \in SUBSET Nat /\ nextGraph \in Nat \ {0}
  /\ quads \in SUBSET (Nat \X Nat \X Nat)
  /\ cache \in [Server -> [Term -> Nat]]
  /\ phase \in [Worker -> {"idle", "created", "open", "written"}]
  /\ request \in [Worker -> Request]
  /\ graph \in [Worker -> Nat]
  /\ resolved \in [Worker -> Seq(Nat)]
  /\ inserted \in [Worker -> [Term -> Nat]]
  /\ outcome \in [Worker -> {"none", "stored", "fault", "refused"}]
  /\ rolledBack \in SUBSET (Term \X Nat)
  /\ saves \in 0..MaxSaves /\ faults \in 0..MaxFaults
  /\ SavesInStep

Init ==
  /\ dictionary = NoIds /\ nextTerm = 1
  /\ graphs = {} /\ nextGraph = 1   \* BIGSERIAL: no graph has the id 0
  /\ quads = {}
  /\ cache = [s \in Server |-> NoIds]
  /\ phase = [w \in Worker |-> "idle"]
  /\ request = [w \in Worker |-> CHOOSE r \in Request : TRUE]
  /\ graph = [w \in Worker |-> 0]
  /\ resolved = [w \in Worker |-> <<>>]
  /\ inserted = [w \in Worker |-> NoIds]
  /\ outcome = [w \in Worker |-> "none"]
  /\ rolledBack = {}
  /\ saves = 0 /\ faults = 0

------------------------------------------------------------------------------
(* Beginning a save. *)

Accept(w, r, kind) ==
  /\ phase[w] = "idle" /\ r.kind = kind
  /\ saves < MaxSaves /\ saves' = saves + 1
  /\ request' = [request EXCEPT ![w] = r]
  /\ outcome' = [outcome EXCEPT ![w] = "none"]
  /\ UNCHANGED <<dictionary, nextTerm, quads, cache, resolved, inserted, rolledBack, faults>>

(* Broken variant (for the mutants of PROJECT.json, like those below): the *)
(* graph version is written before the transaction, as CreateGraphVersion  *)
(* writes it.                                                              *)
SaveGraphVersionLoosely(w, r) ==
  /\ Accept(w, r, "version")
  /\ graph' = [graph EXCEPT ![w] = nextGraph]
  /\ nextGraph' = nextGraph + 1
  /\ graphs' = graphs \cup {nextGraph}
  /\ phase' = [phase EXCEPT ![w] = "open"]

(* SaveGraphVersion: the graph id is taken, its row comes with the commit. *)
SaveGraphVersion(w, r) ==
  /\ Accept(w, r, "version")
  /\ graph' = [graph EXCEPT ![w] = nextGraph]
  /\ nextGraph' = nextGraph + 1
  /\ phase' = [phase EXCEPT ![w] = "open"]
  /\ UNCHANGED graphs

(* CreateGraphVersion: a statement of its own, committed at once. *)
CreateGraphVersion(w, r) ==
  /\ Accept(w, r, "given")
  /\ graph' = [graph EXCEPT ![w] = nextGraph]
  /\ nextGraph' = nextGraph + 1
  /\ graphs' = graphs \cup {nextGraph}
  /\ phase' = [phase EXCEPT ![w] = "created"]

(* SaveQuads, with the graph of each quad or with 0. *)
SaveQuads(w) ==
  /\ phase[w] = "created"
  /\ phase' = [phase EXCEPT ![w] = "open"]
  /\ UNCHANGED <<tables, cache, request, graph, resolved, inserted, outcome,
                 rolledBack, saves, faults>>

SaveEdges(w, r) ==
  /\ Accept(w, r, "edge")
  /\ graph' = [graph EXCEPT ![w] = 0]
  /\ phase' = [phase EXCEPT ![w] = "open"]
  /\ UNCHANGED <<graphs, nextGraph>>

------------------------------------------------------------------------------
(* toQuadIDs: the subject and the object of each quad, in order.           *)
TermAt(r, i) == r.quads[(i + 1) \div 2][2 - (i % 2)]
TermsLeft(w) ==
  phase[w] = "open" /\ Len(resolved[w]) < 2 * Len(request[w].quads)
NextTerm(w) == TermAt(request[w], Len(resolved[w]) + 1)

(* A cache may drop what it is given. *)
CacheMaySet(s, t, id) ==
  \/ cache' = [cache EXCEPT ![s][t] = id]
  \/ UNCHANGED cache

DictionaryHit(w) ==
  /\ TermsLeft(w)
  /\ LET id == cache[ServerOf[w]][NextTerm(w)]
     IN id # 0 /\ resolved' = [resolved EXCEPT ![w] = Append(@, id)]
  /\ UNCHANGED <<tables, cache, phase, request, graph, inserted, outcome,
                 rolledBack, saves, faults>>

(* INSERT ... ON CONFLICT waits for a transaction that inserted the term   *)
(* and is still open.                                                      *)
Holder(w) == {v \in Worker \ {w} : inserted[v][NextTerm(w)] # 0}
Waiting(w) ==
  TermsLeft(w) /\ cache[ServerOf[w]][NextTerm(w)] = 0 /\ Holder(w) # {}

(* Broken variant: identifiers are counted from the committed rows.        *)
FreshIDCounted == Cardinality({t \in Term : dictionary[t] # 0}) + 1
FreshID == nextTerm

(* InsertDictionaryValue returns the row of the term, the transaction's    *)
(* own or a committed one, or inserts it; the lookup after an error finds  *)
(* a row that was committed while the statement ran.  The cache is set in  *)
(* both cases, before the commit.                                          *)
DictionaryID(w) ==
  /\ TermsLeft(w) /\ cache[ServerOf[w]][NextTerm(w)] = 0
  /\ Holder(w) = {}
  /\ LET t == NextTerm(w)
         known == IF dictionary[t] # 0 THEN dictionary[t] ELSE inserted[w][t]
         id == IF known # 0 THEN known ELSE FreshID
     IN /\ resolved' = [resolved EXCEPT ![w] = Append(@, id)]
        /\ CacheMaySet(ServerOf[w], t, id)
        /\ IF known # 0
           THEN UNCHANGED <<nextTerm, inserted>>
           ELSE /\ nextTerm' = nextTerm + 1
                /\ inserted' = [inserted EXCEPT ![w][t] = id]
  /\ UNCHANGED <<dictionary, graphs, nextGraph, quads, phase, request, graph,
                 outcome, rolledBack, saves, faults>>

------------------------------------------------------------------------------
(* saveQuadIDs and the end of the transaction. *)

Committed == {dictionary[t] : t \in Term} \ {0}
Own(w) == {inserted[w][t] : t \in Term} \ {0}

(* The foreign keys of rdf_quads, which see committed rows and one's own.  *)
KeysExist(w) ==
  /\ graph[w] \in graphs \/ request[w].kind = "version"
  /\ \A i \in DOMAIN resolved[w] : resolved[w][i] \in Committed \cup Own(w)

InsertQuads(w) ==
  /\ phase[w] = "open" /\ ~TermsLeft(w)
  /\ KeysExist(w)
  /\ phase' = [phase EXCEPT ![w] = "written"]
  /\ UNCHANGED <<tables, cache, request, graph, resolved, inserted, outcome,
                 rolledBack, saves, faults>>

(* The save returns and its local state is gone. *)
Return(w, end) ==
  /\ phase' = [phase EXCEPT ![w] = "idle"]
  /\ graph' = [graph EXCEPT ![w] = 0]
  /\ resolved' = [resolved EXCEPT ![w] = <<>>]
  /\ outcome' = [outcome EXCEPT ![w] = end]

(* safeRollback: the tables forget the transaction, the cache does not.    *)
Rollback(w, end) ==
  /\ Return(w, end)
  /\ inserted' = [inserted EXCEPT ![w] = NoIds]
  /\ rolledBack' = rolledBack \cup
       {<<t, inserted[w][t]>> : t \in {u \in Term : inserted[w][u] # 0}}
  /\ UNCHANGED <<tables, cache, request, saves>>

(* Broken variant: the save starts over with the cached identifiers.       *)
InsertRefusedRetried(w) ==
  /\ phase[w] = "open" /\ ~TermsLeft(w)
  /\ ~KeysExist(w)
  /\ resolved' = [resolved EXCEPT ![w] = <<>>]
  /\ UNCHANGED <<tables, cache, phase, request, graph, inserted, outcome,
                 rolledBack, saves, faults>>

InsertRefused(w) ==
  /\ phase[w] = "open" /\ ~TermsLeft(w)
  /\ ~KeysExist(w)
  /\ Rollback(w, "refused")
  /\ UNCHANGED faults

Rows(w) ==
  {<<graph[w], resolved[w][2 * i - 1], resolved[w][2 * i]>> : i \in DOMAIN request[w].quads}

(* The commit, whose acknowledgement may be lost. *)
Commit(w) ==
  /\ phase[w] = "written"
  /\ dictionary' = [t \in Term |-> IF inserted[w][t] # 0 THEN inserted[w][t] ELSE dictionary[t]]
  /\ graphs' = IF request[w].kind = "version" THEN graphs \cup {graph[w]} ELSE graphs
  /\ quads' = quads \cup Rows(w)
  /\ inserted' = [inserted EXCEPT ![w] = NoIds]
  /\ \/ Return(w, "stored") /\ UNCHANGED faults
     \/ Return(w, "fault") /\ faults < MaxFaults /\ faults' = faults + 1
  /\ UNCHANGED <<nextTerm, nextGraph, cache, request, rolledBack, saves>>

(* A statement fails: a database error or a cancelled context. *)
StatementError(w) ==
  /\ phase[w] # "idle"
  /\ faults < MaxFaults /\ faults' = faults + 1
  /\ Rollback(w, "fault")

(* PostgreSQL ends a cycle of waiting transactions by an error in one.     *)
WaitsFor(w) == IF Waiting(w) THEN CHOOSE v \in Holder(w) : TRUE ELSE w
InCycle(w) ==
  LET reach[n \in 0..Cardinality(Worker)] == IF n = 0 THEN w ELSE WaitsFor(reach[n - 1])
  IN Waiting(w) /\ \E n \in 1..Cardinality(Worker) : reach[n] = w
DeadlockDetected(w) == InCycle(w) /\ Rollback(w, "fault") /\ UNCHANGED faults

------------------------------------------------------------------------------
(* The other operations of the store. *)

(* StreamQuadsBySubject and getExistingDictionaryID fill the cache from    *)
(* the committed row.                                                      *)
LookUp(s, t) ==
  /\ cache[s][t] = 0 /\ dictionary[t] # 0
  /\ cache' = [cache EXCEPT ![s][t] = dictionary[t]]
  /\ UNCHANGED <<tables, saving, rolledBack, saves, faults>>

KnownID(s, t) == IF cache[s][t] # 0 THEN cache[s][t] ELSE dictionary[t]

(* The quads StreamQuadsBySubject returns, as <<graph, object id>>. *)
StreamQuadsBySubject(s, t) ==
  {<<q[1], q[3]>> : q \in {r \in quads : r[2] = KnownID(s, t)}}

(* RemoveQuadEdge finds the identifiers as above and deletes in one        *)
(* statement; without an identifier it does nothing.                       *)
RemoveQuadEdge(s, x, y) ==
  /\ KnownID(s, x) # 0 /\ KnownID(s, y) # 0
  /\ quads' = {q \in quads : ~(q[2] = KnownID(s, x) /\ q[3] = KnownID(s, y))}
  /\ UNCHANGED <<dictionary, nextTerm, graphs, nextGraph, cache, saving,
                 rolledBack, saves, faults>>

Evict(s, t) ==
  /\ cache[s][t] # 0
  /\ cache' = [cache EXCEPT ![s][t] = 0]
  /\ UNCHANGED <<tables, saving, rolledBack, saves, faults>>

(* The process ends and starts again: its transactions are rolled back and *)
(* its cache is empty.                                                     *)
Restart(s) ==
  /\ faults < MaxFaults /\ faults' = faults + 1
  /\ cache' = [cache EXCEPT ![s] = NoIds]
  /\ phase' = [w \in Worker |-> IF ServerOf[w] = s THEN "idle" ELSE phase[w]]
  /\ graph' = [w \in Worker |-> IF ServerOf[w] = s THEN 0 ELSE graph[w]]
  /\ resolved' = [w \in Worker |-> IF ServerOf[w] = s THEN <<>> ELSE resolved[w]]
  /\ inserted' = [w \in Worker |-> IF ServerOf[w] = s THEN NoIds ELSE inserted[w]]
  /\ outcome' = [w \in Worker |-> IF ServerOf[w] = s THEN "none" ELSE outcome[w]]
  /\ rolledBack' = rolledBack \cup
       UNION {{<<t, inserted[w][t]>> : t \in {u \in Term : inserted[w][u] # 0}} :
                w \in {v \in Worker : ServerOf[v] = s}}
  /\ UNCHANGED <<tables, request, saves>>

------------------------------------------------------------------------------
Begin(w) ==
  \E r \in Request : SaveGraphVersion(w, r) \/ CreateGraphVersion(w, r) \/ SaveEdges(w, r)

SaveStep(w) ==
  \/ SaveQuads(w) \/ DictionaryHit(w) \/ DictionaryID(w)
  \/ InsertQuads(w) \/ InsertRefused(w) \/ Commit(w) \/ DeadlockDetected(w)

StoreStep(s) ==
  \/ \E t \in Term : LookUp(s, t) \/ Evict(s, t)
  \/ \E x, y \in Term : RemoveQuadEdge(s, x, y)
  \/ Restart(s)

Next ==
  \/ \E w \in Worker : Begin(w) \/ SaveStep(w) \/ StatementError(w)
  \/ \E s \in Server : StoreStep(s)

Spec == Init /\ [][Next]_vars

(* A goroutine that is in a save goes on with it. *)
FairSpec == Spec /\ \A w \in Worker : WF_vars(SaveStep(w))

------------------------------------------------------------------------------
(* Properties. *)

(* Somebody holds the identifier for the term: a table, an open            *)
(* transaction, a cache, or a row that was rolled back and may be cached.  *)
Named(t, id) ==
  \/ dictionary[t] = id
  \/ \E w \in Worker : inserted[w][t] = id
  \/ \E s \in Server : cache[s][t] = id
  \/ <<t, id>> \in rolledBack

(* An identifier names one term, wherever it is remembered: a server never *)
(* reads or writes the quads of another term through its cache, not even   *)
(* after rollbacks and restarts.                                           *)
IdsNameOneTerm ==
  \A t, u \in Term : \A id \in 1..(nextTerm - 1) : Named(t, id) /\ Named(u, id) => t = u

(* The strengthening that makes it inductive: identifiers come from the    *)
(* sequence, a term has at most one row, committed or not, and a cached    *)
(* identifier is a committed row, one of an open transaction of the same   *)
(* process, or one that was rolled back.                                   *)
IdsAreIssued == \A t \in Term : \A id \in Nat : Named(t, id) => id < nextTerm
TermsHaveOneRow ==
  \A w \in Worker : \A t \in Term : inserted[w][t] # 0 =>
    dictionary[t] = 0 /\ \A v \in Worker \ {w} : inserted[v][t] = 0
CacheIsBacked ==
  \A s \in Server, t \in Term : cache[s][t] # 0 =>
    \/ dictionary[t] = cache[s][t]
    \/ \E w \in Worker : ServerOf[w] = s /\ inserted[w][t] = cache[s][t]
    \/ <<t, cache[s][t]>> \in rolledBack
GInv == TypeOK /\ IdsAreIssued /\ TermsHaveOneRow /\ IdsNameOneTerm /\ CacheIsBacked

(* Seen through the dictionary, the tables behave like QuadStore: versions *)
(* are whole, quads only join graphs that exist, removals hit every graph. *)
TermOf(id) == CHOOSE t \in Term : dictionary[t] = id
Content(kind) == {{r.quads[i] : i \in DOMAIN r.quads} : r \in {q \in Request : q.kind = kind}}
Quads == INSTANCE QuadStore WITH
  versions <- graphs,
  store <- {<<q[1], TermOf(q[2]), TermOf(q[3])>> : q \in quads},
  Graph <- 1..MaxSaves,
  Whole <- Content("version"),
  Loose <- Content("given")
ImplementsQuadStore == Quads!Spec

(* What the refinement needs besides GInv.  A graph id belongs to one save *)
(* until its version is committed; a created graph is there for its quads; *)
(* edges have no graph, so they are never written.                         *)
GraphsInv ==
  /\ nextGraph <= saves + 1
  /\ graphs \subseteq 1..(nextGraph - 1)
  /\ \A w \in Worker : graph[w] < nextGraph
  /\ \A w \in Worker : phase[w] # "idle" =>
       /\ request[w].kind = "version" =>
            /\ graph[w] \in 1..(nextGraph - 1) /\ graph[w] \notin graphs
            /\ \A v \in Worker \ {w} : graph[v] # graph[w]
       /\ request[w].kind = "given" => graph[w] \in graphs
       /\ request[w].kind = "edge" => graph[w] = 0 /\ phase[w] # "written"

(* The identifiers of a save name its terms, the ones it wrote exist or    *)
(* will with its commit, and quads only refer to committed identifiers.    *)
ResolvedInv ==
  \A w \in Worker : \A i \in DOMAIN resolved[w] :
    /\ resolved[w][i] # 0 /\ Named(TermAt(request[w], i), resolved[w][i])
    /\ phase[w] = "written" => resolved[w][i] \in Committed \cup Own(w)
QuadsAreCommitted == \A q \in quads : q[2] \in Committed /\ q[3] \in Committed

StoreInv == GInv /\ GraphsInv /\ ResolvedInv /\ QuadsAreCommitted

(* Every save ends, although saves wait for each other's dictionary rows.  *)
SavesEnd == \A w \in Worker : phase[w] # "idle" ~> phase[w] = "idle"

(* What the blueprint says of a failed save: it "rolls back the graph      *)
(* version and leaves the queue record retryable".  A version whose        *)
(* statements meet no fault of their own is then stored.                   *)
VersionIsRetryable ==
  \A w \in Worker : request[w].kind = "version" => outcome[w] # "refused"
=============================================================================
