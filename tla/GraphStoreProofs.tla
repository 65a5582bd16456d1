--------------------------- MODULE GraphStoreProofs ---------------------------
(***************************************************************************)
(* Proofs about GraphStore, for any servers, terms, requests and bounds:   *)
(* type correctness, the uniqueness of identifiers, what a cache can hold, *)
(* and the refinement of QuadStore.  The dictionary, the open              *)
(* transactions, the caches and the rows rolled back are looked at as one  *)
(* relation Named between terms and identifiers; a step adds at most one   *)
(* fresh pair to it and takes none away, so what a save has resolved still *)
(* names its terms when it commits.                                        *)
(***************************************************************************)
EXTENDS GraphStore, TLAPS

naming == <<dictionary, nextTerm, cache, inserted, rolledBack>>

(* A step that gives no identifier away, and one that gives the next       *)
(* identifier to the term t0.                                              *)
KeepsNames ==
  /\ nextTerm' = nextTerm
  /\ \A t \in Term : \A id \in Nat : Named(t, id)' => Named(t, id) \/ id = 0
Issues(t0) ==
  /\ nextTerm' = nextTerm + 1
  /\ \A t \in Term : \A id \in Nat :
       Named(t, id)' => Named(t, id) \/ id = 0 \/ (t = t0 /\ id = nextTerm)

------------------------------------------------------------------------------
(* Typing. *)

LEMMA TermAtIsTerm ==
  ASSUME NEW r \in Request, NEW i \in Nat \ {0}, i <= 2 * Len(r.quads)
  PROVE  TermAt(r, i) \in Term
<1>1. r.quads \in Seq(Term \X Term)
  BY GraphAssumption
<1>2. (i + 1) \div 2 \in 1..Len(r.quads)
  <2>1. Len(r.quads) \in Nat
    BY <1>1
  <2>2. (i + 1) \div 2 \in Nat /\ 1 <= (i + 1) \div 2 /\ (i + 1) \div 2 <= Len(r.quads)
    BY <2>1
  <2> QED
    BY <2>1, <2>2
<1>3. r.quads[(i + 1) \div 2] \in Term \X Term
  BY <1>1, <1>2
<1>4. 2 - (i % 2) \in {1, 2}
  OBVIOUS
<1> QED
  BY <1>3, <1>4 DEF TermAt

LEMMA NextTermIsTerm ==
  ASSUME TypeOK, NEW w \in Worker, TermsLeft(w)
  PROVE  NextTerm(w) \in Term
<1>1. request[w] \in Request /\ Len(resolved[w]) \in Nat
  BY DEF TypeOK
<1>2. request[w].quads \in Seq(Term \X Term)
  BY <1>1, GraphAssumption
<1>3. Len(resolved[w]) + 1 \in Nat \ {0} /\ Len(resolved[w]) + 1 <= 2 * Len(request[w].quads)
  BY <1>1, <1>2 DEF TermsLeft
<1> QED
  BY <1>1, <1>3, TermAtIsTerm DEF NextTerm

(* Writing one place of a table of functions into the naturals. *)
LEMMA WriteCell ==
  ASSUME NEW S, NEW T, NEW f \in [S -> [T -> Nat]], NEW s \in S, NEW t \in T, NEW n \in Nat,
         NEW g, g = [f EXCEPT ![s][t] = n]
  PROVE  /\ g \in [S -> [T -> Nat]]
         /\ \A a \in S : \A b \in T : g[a][b] = IF a = s /\ b = t THEN n ELSE f[a][b]
         /\ \A a \in S \ {s} : g[a] = f[a]
<1>1. f[s] \in [T -> Nat]
  OBVIOUS
<1>2. [f[s] EXCEPT ![t] = n] \in [T -> Nat]
  BY <1>1
<1>3. g = [f EXCEPT ![s] = [f[s] EXCEPT ![t] = n]]
  OBVIOUS
<1> QED
  BY <1>1, <1>2, <1>3

LEMMA Pairs ==
  ASSUME NEW n \in Nat, NEW f \in Seq(Nat), Len(f) = 2 * n, NEW i \in 1..n
  PROVE  f[2 * i - 1] \in Nat /\ f[2 * i] \in Nat
<1>1. 2 * i - 1 \in 1..Len(f) /\ 2 * i \in 1..Len(f)
  OBVIOUS
<1> QED
  BY <1>1

LEMMA RowsTyped ==
  ASSUME TypeOK, NEW w \in Worker, phase[w] = "written"
  PROVE  Rows(w) \in SUBSET (Nat \X Nat \X Nat)
<1>1. /\ request[w] \in Request /\ resolved[w] \in Seq(Nat) /\ graph[w] \in Nat
      /\ Len(resolved[w]) = 2 * Len(request[w].quads)
  BY DEF TypeOK, SavesInStep
<1>2. request[w].quads \in Seq(Term \X Term)
  BY <1>1, GraphAssumption
<1>3. Len(request[w].quads) \in Nat /\ DOMAIN request[w].quads = 1..Len(request[w].quads)
  BY <1>2
<1>4. \A i \in DOMAIN request[w].quads :
        resolved[w][2 * i - 1] \in Nat /\ resolved[w][2 * i] \in Nat
  BY <1>1, <1>3, Pairs
<1> QED
  BY <1>1, <1>4 DEF Rows

LEMMA TypeStep == TypeOK /\ [Next]_vars => TypeOK'
<1> SUFFICES ASSUME TypeOK, [Next]_vars PROVE TypeOK'
  OBVIOUS
<1> USE DEF TypeOK, SavesInStep
<1>0. /\ \A r \in Request : r.quads \in Seq(Term \X Term) /\ Len(r.quads) \in Nat
      /\ NoIds \in [Term -> Nat]
      /\ <<>> \in Seq(Nat) /\ Len(<<>>) = 0
  BY GraphAssumption DEF NoIds
<1>a. ASSUME NEW w \in Worker, NEW r \in Request, NEW k \in Kinds, Accept(w, r, k),
             graphs' \in SUBSET Nat, nextGraph' \in Nat \ {0}, graph' \in [Worker -> Nat],
             NEW p \in {"created", "open"}, phase' = [phase EXCEPT ![w] = p]
      PROVE  TypeOK'
  <2>1. resolved[w] = <<>> /\ inserted[w] = NoIds
    BY <1>a DEF Accept
  <2>2. saves' \in 0..MaxSaves /\ request' \in [Worker -> Request]
        /\ outcome' \in [Worker -> {"none", "stored", "fault", "refused"}]
    BY <1>a, GraphAssumption DEF Accept
  <2>3. UNCHANGED <<dictionary, nextTerm, quads, cache, resolved, inserted, rolledBack, faults>>
    BY <1>a DEF Accept
  <2>4. \A v \in Worker :
          /\ phase'[v] \in {"idle", "created"} => inserted'[v] = NoIds /\ resolved'[v] = <<>>
          /\ Len(resolved'[v]) <= 2 * Len(request'[v].quads)
          /\ phase'[v] = "written" => Len(resolved'[v]) = 2 * Len(request'[v].quads)
    <3> TAKE v \in Worker
    <3>1. CASE v = w
      <4>1. phase'[v] = p /\ request'[v] = r
        BY <1>a, <3>1 DEF Accept
      <4>2. Len(r.quads) \in Nat
        BY <1>0
      <4> QED
        BY <1>0, <2>1, <2>3, <3>1, <4>1, <4>2
    <3>2. CASE v # w
      <4>1. phase'[v] = phase[v] /\ request'[v] = request[v]
        BY <1>a, <3>2 DEF Accept
      <4> QED
        BY <2>3, <4>1
    <3> QED
      BY <3>1, <3>2
  <2>5. phase' \in [Worker -> {"idle", "created", "open", "written"}]
    BY <1>a
  <2> QED
    BY <1>a, <2>2, <2>3, <2>4, <2>5
<1>1. ASSUME NEW w \in Worker, NEW r \in Request, SaveGraphVersion(w, r) PROVE TypeOK'
  <2>1. /\ graphs' \in SUBSET Nat /\ nextGraph' \in Nat \ {0} /\ graph' \in [Worker -> Nat]
        /\ Accept(w, r, "version") /\ phase' = [phase EXCEPT ![w] = "open"]
    BY <1>1 DEF SaveGraphVersion
  <2> QED
    BY <1>a, <2>1 DEF Kinds
<1>2. ASSUME NEW w \in Worker, NEW r \in Request, CreateGraphVersion(w, r) PROVE TypeOK'
  <2>1. /\ graphs' \in SUBSET Nat /\ nextGraph' \in Nat \ {0} /\ graph' \in [Worker -> Nat]
        /\ Accept(w, r, "given") /\ phase' = [phase EXCEPT ![w] = "created"]
    BY <1>2 DEF CreateGraphVersion
  <2> QED
    BY <1>a, <2>1 DEF Kinds
<1>3. ASSUME NEW w \in Worker, NEW r \in Request, SaveEdges(w, r) PROVE TypeOK'
  <2>1. /\ graphs' \in SUBSET Nat /\ nextGraph' \in Nat \ {0} /\ graph' \in [Worker -> Nat]
        /\ Accept(w, r, "edge") /\ phase' = [phase EXCEPT ![w] = "open"]
    BY <1>3 DEF SaveEdges
  <2> QED
    BY <1>a, <2>1 DEF Kinds
<1>4. ASSUME NEW w \in Worker, SaveQuads(w) PROVE TypeOK'
  BY <1>4 DEF SaveQuads, tables
<1>5. ASSUME NEW w \in Worker, DictionaryHit(w) PROVE TypeOK'
  <2>1. NextTerm(w) \in Term
    BY <1>5, NextTermIsTerm DEF DictionaryHit
  <2>2. cache[ServerOf[w]][NextTerm(w)] \in Nat
    BY <2>1, GraphAssumption
  <2>3. Len(resolved[w]) + 1 <= 2 * Len(request[w].quads) /\ phase[w] = "open"
    BY <1>5, GraphAssumption DEF DictionaryHit, TermsLeft
  <2>4. PICK id \in Nat : resolved' = [resolved EXCEPT ![w] = Append(@, id)]
    BY <1>5, <2>2 DEF DictionaryHit
  <2>5. resolved' \in [Worker -> Seq(Nat)] /\ Len(resolved'[w]) = Len(resolved[w]) + 1
    BY <2>4
  <2>6. \A v \in Worker \ {w} : resolved'[v] = resolved[v]
    BY <2>4
  <2> QED
    BY <1>5, <2>3, <2>5, <2>6 DEF DictionaryHit, tables
<1>6. ASSUME NEW w \in Worker, DictionaryID(w) PROVE TypeOK'
  <2> DEFINE t == NextTerm(w)
             known == IF dictionary[t] # 0 THEN dictionary[t] ELSE inserted[w][t]
             id == IF known # 0 THEN known ELSE nextTerm
  <2>1. t \in Term
    BY <1>6, NextTermIsTerm DEF DictionaryID
  <2>2. id \in Nat /\ ServerOf[w] \in Server
    BY <2>1, GraphAssumption
  <2>3. /\ resolved' = [resolved EXCEPT ![w] = Append(@, id)]
        /\ cache' = [cache EXCEPT ![ServerOf[w]][t] = id] \/ cache' = cache
        /\ \/ nextTerm' = nextTerm /\ inserted' = inserted
           \/ nextTerm' = nextTerm + 1 /\ inserted' = [inserted EXCEPT ![w][t] = id]
        /\ phase[w] = "open"
        /\ Len(resolved[w]) < 2 * Len(request[w].quads)
        /\ UNCHANGED <<dictionary, graphs, nextGraph, quads, phase, request, graph,
                       outcome, rolledBack, saves, faults>>
    BY <1>6 DEF DictionaryID, CacheMaySet, FreshID, TermsLeft
  <2> HIDE DEF t, known, id
  <2>4. /\ resolved' \in [Worker -> Seq(Nat)]
        /\ Len(resolved'[w]) = Len(resolved[w]) + 1
        /\ \A v \in Worker \ {w} : resolved'[v] = resolved[v]
    BY <2>2, <2>3
  <2>5. cache' \in [Server -> [Term -> Nat]]
    <3>1. CASE cache' = [cache EXCEPT ![ServerOf[w]][t] = id]
      <4>1. cache \in [Server -> [Term -> Nat]]
        OBVIOUS
      <4> QED
        BY <2>1, <2>2, <3>1, <4>1, WriteCell
    <3> QED
      BY <2>3, <3>1
  <2>6. /\ inserted' \in [Worker -> [Term -> Nat]] /\ nextTerm' \in Nat \ {0}
        /\ \A v \in Worker \ {w} : inserted'[v] = inserted[v]
    <3>1. CASE inserted' = inserted
      BY <2>3, <3>1
    <3>0. nextTerm' \in Nat \ {0}
      BY <2>3
    <3>2. CASE inserted' = [inserted EXCEPT ![w][t] = id]
      <4>1. inserted \in [Worker -> [Term -> Nat]] /\ w \in Worker
        OBVIOUS
      <4>2. /\ inserted' \in [Worker -> [Term -> Nat]]
            /\ \A v \in Worker \ {w} : inserted'[v] = inserted[v]
        BY <2>1, <2>2, <3>2, <4>1, WriteCell
      <4> QED
        BY <3>0, <4>2
    <3> QED
      BY <2>3, <3>1, <3>2
  <2>7. Len(resolved[w]) \in Nat /\ Len(request[w].quads) \in Nat
    BY GraphAssumption
  <2>8. \A v \in Worker :
          /\ phase'[v] \in {"idle", "created"} => inserted'[v] = NoIds /\ resolved'[v] = <<>>
          /\ Len(resolved'[v]) <= 2 * Len(request'[v].quads)
          /\ phase'[v] = "written" => Len(resolved'[v]) = 2 * Len(request'[v].quads)
    <3> TAKE v \in Worker
    <3>1. CASE v = w
      BY <2>3, <2>4, <2>7, <3>1
    <3>2. CASE v # w
      BY <2>3, <2>4, <2>6, <3>2
    <3> QED
      BY <3>1, <3>2
  <2> QED
    BY <2>3, <2>4, <2>5, <2>6, <2>8
<1>7. ASSUME NEW w \in Worker, InsertQuads(w) PROVE TypeOK'
  <2>1. Len(resolved[w]) \in Nat /\ Len(request[w].quads) \in Nat
    BY GraphAssumption
  <2>2. Len(resolved[w]) = 2 * Len(request[w].quads)
    BY <1>7, <2>1 DEF InsertQuads, TermsLeft
  <2>3. /\ phase' = [phase EXCEPT ![w] = "written"]
        /\ UNCHANGED <<tables, cache, request, graph, resolved, inserted, outcome,
                       rolledBack, saves, faults>>
    BY <1>7 DEF InsertQuads
  <2> QED
    BY <2>2, <2>3 DEF tables
<1>b. ASSUME NEW w \in Worker, NEW end, Return(w, end), inserted' = [inserted EXCEPT ![w] = NoIds],
             UNCHANGED request
      PROVE  SavesInStep'
  <2>1. TAKE v \in Worker
  <2>2. CASE v = w
    <3>1. phase'[v] = "idle" /\ resolved'[v] = <<>> /\ inserted'[v] = NoIds
      BY <1>b, <2>2 DEF Return
    <3>2. Len(request'[v].quads) \in Nat
      BY <1>0, <1>b
    <3> QED
      BY <1>0, <3>1, <3>2
  <2>3. CASE v # w
    <3>1. /\ phase'[v] = phase[v] /\ resolved'[v] = resolved[v]
          /\ inserted'[v] = inserted[v] /\ request'[v] = request[v]
      BY <1>b, <2>3 DEF Return
    <3> QED
      BY <3>1
  <2> QED
    BY <2>2, <2>3
<1>8. ASSUME NEW w \in Worker, NEW end \in {"fault", "refused"}, Rollback(w, end),
             faults' \in 0..MaxFaults
      PROVE  TypeOK'
  <2>1. SavesInStep'
    BY <1>8, <1>b DEF Rollback
  <2>2. rolledBack' \in SUBSET (Term \X Nat)
    BY <1>8 DEF Rollback
  <2>3. /\ inserted' \in [Worker -> [Term -> Nat]] /\ graph' \in [Worker -> Nat]
        /\ phase' \in [Worker -> {"idle", "created", "open", "written"}]
        /\ resolved' \in [Worker -> Seq(Nat)]
        /\ outcome' \in [Worker -> {"none", "stored", "fault", "refused"}]
    BY <1>0, <1>8 DEF Rollback, Return
  <2> HIDE DEF SavesInStep
  <2> QED
    BY <1>8, <2>1, <2>2, <2>3 DEF Rollback, tables
<1>9. ASSUME NEW w \in Worker, InsertRefused(w) PROVE TypeOK'
  BY <1>9, <1>8 DEF InsertRefused
<1>10. ASSUME NEW w \in Worker, StatementError(w) PROVE TypeOK'
  <2>1. faults' \in 0..MaxFaults
    BY <1>10, GraphAssumption DEF StatementError
  <2> QED
    BY <1>10, <1>8, <2>1 DEF StatementError
<1>11. ASSUME NEW w \in Worker, DeadlockDetected(w) PROVE TypeOK'
  BY <1>11, <1>8 DEF DeadlockDetected
<1>12. ASSUME NEW w \in Worker, Commit(w) PROVE TypeOK'
  <2>1. SavesInStep'
    BY <1>12, <1>b DEF Commit
  <2>2. Rows(w) \in SUBSET (Nat \X Nat \X Nat)
    BY <1>12, RowsTyped DEF Commit
  <2>3. dictionary' \in [Term -> Nat]
    BY <1>12 DEF Commit
  <2>4. graphs' \in SUBSET Nat /\ quads' \in SUBSET (Nat \X Nat \X Nat)
    BY <1>12, <2>2 DEF Commit
  <2>5. faults' \in 0..MaxFaults
    BY <1>12, GraphAssumption DEF Commit
  <2>6. /\ inserted' \in [Worker -> [Term -> Nat]] /\ graph' \in [Worker -> Nat]
        /\ phase' \in [Worker -> {"idle", "created", "open", "written"}]
        /\ resolved' \in [Worker -> Seq(Nat)]
        /\ outcome' \in [Worker -> {"none", "stored", "fault", "refused"}]
    <3>1. PICK end \in {"stored", "fault"} : Return(w, end)
      BY <1>12 DEF Commit
    <3>2. inserted' = [inserted EXCEPT ![w] = NoIds]
      BY <1>12 DEF Commit
    <3> QED
      BY <1>0, <3>1, <3>2 DEF Return
  <2> HIDE DEF SavesInStep
  <2> QED
    BY <1>12, <2>1, <2>3, <2>4, <2>5, <2>6 DEF Commit
<1>13. ASSUME NEW s \in Server, NEW t \in Term, LookUp(s, t) \/ Evict(s, t) PROVE TypeOK'
  <2>1. PICK id \in Nat : cache' = [cache EXCEPT ![s][t] = id]
    BY <1>13 DEF LookUp, Evict
  <2>2. cache \in [Server -> [Term -> Nat]]
    OBVIOUS
  <2>3. cache' \in [Server -> [Term -> Nat]]
    BY <2>1, <2>2, WriteCell
  <2> QED
    BY <1>13, <2>3 DEF LookUp, Evict, tables, saving
<1>14. ASSUME NEW s \in Server, NEW x \in Term, NEW y \in Term, RemoveQuadEdge(s, x, y)
       PROVE  TypeOK'
  BY <1>14 DEF RemoveQuadEdge, saving
<1>15. ASSUME NEW s \in Server, Restart(s) PROVE TypeOK'
  <2>1. rolledBack' \in SUBSET (Term \X Nat)
    BY <1>15 DEF Restart
  <2>2. faults' \in 0..MaxFaults
    BY <1>15, GraphAssumption DEF Restart
  <2>3. /\ inserted' \in [Worker -> [Term -> Nat]] /\ graph' \in [Worker -> Nat]
        /\ phase' \in [Worker -> {"idle", "created", "open", "written"}]
        /\ resolved' \in [Worker -> Seq(Nat)]
        /\ outcome' \in [Worker -> {"none", "stored", "fault", "refused"}]
        /\ cache' \in [Server -> [Term -> Nat]]
    BY <1>0, <1>15 DEF Restart
  <2>4. SavesInStep'
    <3>1. TAKE w \in Worker
    <3>2. CASE ServerOf[w] = s
      <4>1. phase'[w] = "idle" /\ resolved'[w] = <<>> /\ inserted'[w] = NoIds
        BY <1>15, <3>2 DEF Restart
      <4>2. Len(request'[w].quads) \in Nat
        BY <1>0, <1>15 DEF Restart
      <4> QED
        BY <1>0, <4>1, <4>2
    <3>3. CASE ServerOf[w] # s
      <4>1. /\ phase'[w] = phase[w] /\ resolved'[w] = resolved[w]
            /\ inserted'[w] = inserted[w] /\ request'[w] = request[w]
        BY <1>15, <3>3 DEF Restart
      <4> QED
        BY <4>1
    <3> QED
      BY <3>2, <3>3
  <2> HIDE DEF SavesInStep
  <2> QED
    BY <1>15, <2>1, <2>2, <2>3, <2>4 DEF Restart, tables
<1>16. CASE UNCHANGED vars
  BY <1>16 DEF vars, tables, saving
<1> QED
  BY <1>1, <1>2, <1>3, <1>4, <1>5, <1>6, <1>7, <1>9, <1>10, <1>11, <1>12, <1>13, <1>14,
     <1>15, <1>16 DEF Next, Begin, SaveStep, StoreStep

------------------------------------------------------------------------------
(* What the steps do to the places that hold identifiers. *)

LEMMA DictionaryIDCells ==
  ASSUME TypeOK, NEW w \in Worker, DictionaryID(w)
  PROVE  \E t \in Term : \E id \in Nat \ {0} :
           /\ \A s \in Server : \A u \in Term :
                \/ cache'[s][u] = cache[s][u]
                \/ s = ServerOf[w] /\ u = t /\ cache'[s][u] = id
           /\ \A v \in Worker \ {w} : inserted[v][t] = 0
           /\ t = NextTerm(w) /\ cache[ServerOf[w]][t] = 0
           /\ resolved' = [resolved EXCEPT ![w] = Append(@, id)]
           /\ \/ /\ nextTerm' = nextTerm /\ inserted' = inserted
                 /\ dictionary[t] = id \/ inserted[w][t] = id
              \/ /\ dictionary[t] = 0 /\ inserted[w][t] = 0
                 /\ id = nextTerm /\ nextTerm' = nextTerm + 1
                 /\ \A v \in Worker : \A u \in Term :
                      inserted'[v][u] = IF v = w /\ u = t THEN id ELSE inserted[v][u]
           /\ UNCHANGED <<dictionary, rolledBack>>
<1> DEFINE t == NextTerm(w)
           known == IF dictionary[t] # 0 THEN dictionary[t] ELSE inserted[w][t]
           id == IF known # 0 THEN known ELSE nextTerm
<1>1. t \in Term
  BY NextTermIsTerm DEF DictionaryID
<1>2. /\ dictionary[t] \in Nat /\ inserted[w][t] \in Nat /\ nextTerm \in Nat \ {0}
      /\ ServerOf[w] \in Server
      /\ cache \in [Server -> [Term -> Nat]] /\ inserted \in [Worker -> [Term -> Nat]]
  BY <1>1, GraphAssumption DEF TypeOK
<1>3. id \in Nat \ {0}
  BY <1>2
<1>4. /\ cache' = [cache EXCEPT ![ServerOf[w]][t] = id] \/ cache' = cache
      /\ known # 0 => nextTerm' = nextTerm /\ inserted' = inserted
      /\ known = 0 => nextTerm' = nextTerm + 1 /\ inserted' = [inserted EXCEPT ![w][t] = id]
      /\ UNCHANGED <<dictionary, rolledBack>>
      /\ cache[ServerOf[w]][t] = 0
      /\ resolved' = [resolved EXCEPT ![w] = Append(@, id)]
  BY DEF DictionaryID, CacheMaySet, FreshID
<1>5. \A v \in Worker \ {w} : inserted[v][t] = 0
  BY DEF DictionaryID, Holder
<1>6. known # 0 => dictionary[t] = id \/ inserted[w][t] = id
  OBVIOUS
<1>7. known = 0 => dictionary[t] = 0 /\ inserted[w][t] = 0 /\ id = nextTerm
  BY <1>2
<1>10. t = NextTerm(w)
  OBVIOUS
<1> HIDE DEF t, known, id
<1>8. ASSUME NEW s \in Server, NEW u \in Term
      PROVE  \/ cache'[s][u] = cache[s][u]
             \/ s = ServerOf[w] /\ u = t /\ cache'[s][u] = id
  <2>1. CASE cache' = cache
    BY <2>1
  <2>2. CASE cache' = [cache EXCEPT ![ServerOf[w]][t] = id]
    <3>1. cache'[s][u] = IF s = ServerOf[w] /\ u = t THEN id ELSE cache[s][u]
      BY <1>1, <1>2, <1>3, <2>2, WriteCell
    <3> QED
      BY <3>1
  <2> QED
    BY <1>4, <2>1, <2>2
<1>9. ASSUME known = 0
      PROVE  \A v \in Worker : \A u \in Term :
               inserted'[v][u] = IF v = w /\ u = t THEN id ELSE inserted[v][u]
  <2>1. inserted' = [inserted EXCEPT ![w][t] = id]
    BY <1>4, <1>9
  <2>2. id \in Nat
    BY <1>3
  <2> QED
    BY <1>1, <1>2, <2>1, <2>2, WriteCell
<1> QED
  BY <1>1, <1>3, <1>4, <1>5, <1>6, <1>7, <1>8, <1>9, <1>10

LEMMA RollbackCells ==
  ASSUME TypeOK, NEW w \in Worker, NEW end, Rollback(w, end)
  PROVE  /\ \A v \in Worker : \A t \in Term :
              inserted'[v][t] = IF v = w THEN 0 ELSE inserted[v][t]
         /\ \A t \in Term : \A id \in Nat :
              <<t, id>> \in rolledBack' <=>
                <<t, id>> \in rolledBack \/ (id # 0 /\ id = inserted[w][t])
         /\ UNCHANGED <<dictionary, nextTerm, cache>>
<1>1. /\ inserted' = [inserted EXCEPT ![w] = NoIds]
      /\ rolledBack' = rolledBack \cup
           {<<t, inserted[w][t]>> : t \in {u \in Term : inserted[w][u] # 0}}
      /\ UNCHANGED <<dictionary, nextTerm, cache>>
  BY DEF Rollback, tables
<1>2. inserted \in [Worker -> [Term -> Nat]]
  BY DEF TypeOK
<1>3. \A v \in Worker : \A t \in Term :
        inserted'[v][t] = IF v = w THEN 0 ELSE inserted[v][t]
  BY <1>1, <1>2 DEF NoIds
<1>4. \A t \in Term : \A id \in Nat :
        <<t, id>> \in rolledBack' <=>
          <<t, id>> \in rolledBack \/ (id # 0 /\ id = inserted[w][t])
  BY <1>1, <1>2
<1> QED
  BY <1>1, <1>3, <1>4

LEMMA CommitCells ==
  ASSUME TypeOK, NEW w \in Worker, Commit(w)
  PROVE  /\ \A v \in Worker : \A t \in Term :
              inserted'[v][t] = IF v = w THEN 0 ELSE inserted[v][t]
         /\ \A t \in Term :
              dictionary'[t] = IF inserted[w][t] # 0 THEN inserted[w][t] ELSE dictionary[t]
         /\ UNCHANGED <<nextTerm, cache, rolledBack>>
BY DEF Commit, TypeOK, NoIds

LEMMA CacheCells ==
  ASSUME TypeOK, NEW s \in Server, NEW t \in Term, LookUp(s, t) \/ Evict(s, t)
  PROVE  /\ \A r \in Server : \A u \in Term :
              \/ cache'[r][u] = cache[r][u]
              \/ cache'[r][u] = dictionary[u]
              \/ cache'[r][u] = 0
         /\ UNCHANGED <<dictionary, nextTerm, inserted, rolledBack>>
<1>1. PICK id \in Nat : cache' = [cache EXCEPT ![s][t] = id] /\ id \in {0, dictionary[t]}
  BY DEF LookUp, Evict, TypeOK
<1>2. cache \in [Server -> [Term -> Nat]]
  BY DEF TypeOK
<1>3. \A r \in Server : \A u \in Term :
        cache'[r][u] = IF r = s /\ u = t THEN id ELSE cache[r][u]
  BY <1>1, <1>2, WriteCell
<1> QED
  BY <1>1, <1>3 DEF LookUp, Evict, tables, saving

LEMMA RestartCells ==
  ASSUME TypeOK, NEW s \in Server, Restart(s)
  PROVE  /\ \A v \in Worker : \A t \in Term :
              inserted'[v][t] = IF ServerOf[v] = s THEN 0 ELSE inserted[v][t]
         /\ \A r \in Server : \A t \in Term :
              cache'[r][t] = IF r = s THEN 0 ELSE cache[r][t]
         /\ \A t \in Term : \A id \in Nat :
              <<t, id>> \in rolledBack' <=>
                \/ <<t, id>> \in rolledBack
                \/ \E v \in Worker : ServerOf[v] = s /\ id # 0 /\ id = inserted[v][t]
         /\ UNCHANGED <<dictionary, nextTerm>>
<1>1. /\ cache \in [Server -> [Term -> Nat]] /\ inserted \in [Worker -> [Term -> Nat]]
  BY DEF TypeOK
<1>2. /\ cache' = [cache EXCEPT ![s] = NoIds]
      /\ inserted' = [v \in Worker |-> IF ServerOf[v] = s THEN NoIds ELSE inserted[v]]
      /\ UNCHANGED <<dictionary, nextTerm>>
  BY DEF Restart, tables
<1>3. \A t \in Term : \A id \in Nat :
        <<t, id>> \in rolledBack' <=>
          \/ <<t, id>> \in rolledBack
          \/ \E v \in Worker : ServerOf[v] = s /\ id # 0 /\ id = inserted[v][t]
  BY <1>1 DEF Restart
<1> QED
  BY <1>1, <1>2, <1>3 DEF NoIds

------------------------------------------------------------------------------
(* Identifiers. *)

LEMMA StepsOnNames ==
  ASSUME [Next]_vars
  PROVE  \/ UNCHANGED naming
         \/ \E w \in Worker : DictionaryID(w) \/ Commit(w) \/ \E end : Rollback(w, end)
         \/ \E s \in Server : Restart(s) \/ \E t \in Term : LookUp(s, t) \/ Evict(s, t)
<1>1. ASSUME NEW w \in Worker,
             \/ Begin(w) \/ SaveQuads(w) \/ DictionaryHit(w) \/ InsertQuads(w)
      PROVE  UNCHANGED naming
  BY <1>1 DEF Begin, SaveGraphVersion, CreateGraphVersion, SaveEdges, Accept, SaveQuads,
              DictionaryHit, InsertQuads, tables, naming
<1>2. ASSUME NEW s \in Server, NEW x \in Term, NEW y \in Term, RemoveQuadEdge(s, x, y)
      PROVE  UNCHANGED naming
  BY <1>2 DEF RemoveQuadEdge, saving, naming
<1>3. ASSUME UNCHANGED vars PROVE UNCHANGED naming
  BY <1>3 DEF vars, tables, saving, naming
<1> QED
  BY <1>1, <1>2, <1>3
     DEF Next, SaveStep, StoreStep, InsertRefused, StatementError, DeadlockDetected

LEMMA NamesStep ==
  ASSUME TypeOK, [Next]_vars
  PROVE  KeepsNames \/ \E t0 \in Term : Issues(t0)
<1>1. ASSUME UNCHANGED naming PROVE KeepsNames
  BY <1>1 DEF naming, KeepsNames, Named
<1>2. ASSUME NEW w \in Worker, DictionaryID(w)
      PROVE  KeepsNames \/ \E t0 \in Term : Issues(t0)
  <2>1. PICK t \in Term, id \in Nat \ {0} :
          /\ \A s \in Server : \A u \in Term :
               \/ cache'[s][u] = cache[s][u]
               \/ s = ServerOf[w] /\ u = t /\ cache'[s][u] = id
          /\ \A v \in Worker \ {w} : inserted[v][t] = 0
          /\ \/ /\ nextTerm' = nextTerm /\ inserted' = inserted
                /\ dictionary[t] = id \/ inserted[w][t] = id
             \/ /\ dictionary[t] = 0 /\ inserted[w][t] = 0
                /\ id = nextTerm /\ nextTerm' = nextTerm + 1
                /\ \A v \in Worker : \A u \in Term :
                     inserted'[v][u] = IF v = w /\ u = t THEN id ELSE inserted[v][u]
          /\ UNCHANGED <<dictionary, rolledBack>>
    BY <1>2, DictionaryIDCells
  <2>2. CASE nextTerm' = nextTerm /\ inserted' = inserted
    <3>1. dictionary[t] = id \/ inserted[w][t] = id
      BY <2>1, <2>2 DEF TypeOK
    <3>2. KeepsNames
      BY <2>1, <2>2, <3>1 DEF KeepsNames, Named
    <3> QED
      BY <3>2
  <2>3. CASE /\ id = nextTerm /\ nextTerm' = nextTerm + 1
             /\ \A v \in Worker : \A u \in Term :
                  inserted'[v][u] = IF v = w /\ u = t THEN id ELSE inserted[v][u]
    BY <2>1, <2>3 DEF Issues, Named
  <2> QED
    BY <2>1, <2>2, <2>3
<1>3. ASSUME NEW w \in Worker, NEW end, Rollback(w, end) PROVE KeepsNames
  BY <1>3, RollbackCells DEF KeepsNames, Named
<1>4. ASSUME NEW w \in Worker, Commit(w) PROVE KeepsNames
  BY <1>4, CommitCells DEF KeepsNames, Named
<1>5. ASSUME NEW s \in Server, NEW t \in Term, LookUp(s, t) \/ Evict(s, t) PROVE KeepsNames
  BY <1>5, CacheCells DEF KeepsNames, Named
<1>6. ASSUME NEW s \in Server, Restart(s) PROVE KeepsNames
  BY <1>6, RestartCells DEF KeepsNames, Named
<1> QED
  BY <1>1, <1>2, <1>3, <1>4, <1>5, <1>6, StepsOnNames

LEMMA NamesAreUnique ==
  ASSUME TypeOK, IdsAreIssued, IdsNameOneTerm, [Next]_vars
  PROVE  IdsAreIssued' /\ IdsNameOneTerm'
<1>1. nextTerm \in Nat \ {0}
  BY DEF TypeOK
<1>2. CASE KeepsNames
  <2>1. IdsAreIssued'
    BY <1>1, <1>2 DEF KeepsNames, IdsAreIssued
  <2>2. IdsNameOneTerm'
    BY <1>1, <1>2 DEF KeepsNames, IdsNameOneTerm
  <2> QED
    BY <2>1, <2>2
<1>3. ASSUME NEW t0 \in Term, Issues(t0) PROVE IdsAreIssued' /\ IdsNameOneTerm'
  <2>1. IdsAreIssued'
    BY <1>1, <1>3 DEF Issues, IdsAreIssued
  <2>2. ASSUME NEW t \in Term, NEW u \in Term, NEW id \in 1..(nextTerm' - 1),
               Named(t, id)', Named(u, id)'
        PROVE  t = u
    <3>1. id \in Nat /\ id # 0 /\ nextTerm' = nextTerm + 1
      BY <1>1, <1>3 DEF Issues
    <3>2. /\ Named(t, id) \/ (t = t0 /\ id = nextTerm)
          /\ Named(u, id) \/ (u = t0 /\ id = nextTerm)
      BY <1>3, <2>2, <3>1 DEF Issues
    <3>3. Named(t, id) \/ Named(u, id) => id \in 1..(nextTerm - 1)
      BY <1>1, <3>1 DEF IdsAreIssued
    <3> QED
      BY <1>1, <3>1, <3>2, <3>3 DEF IdsNameOneTerm
  <2> QED
    BY <2>1, <2>2 DEF IdsNameOneTerm
<1> QED
  BY <1>2, <1>3, NamesStep

LEMMA OneRowStep ==
  ASSUME TypeOK, TermsHaveOneRow, [Next]_vars
  PROVE  TermsHaveOneRow'
<1>1. ASSUME UNCHANGED naming PROVE TermsHaveOneRow'
  BY <1>1 DEF naming, TermsHaveOneRow
<1>2. ASSUME NEW w \in Worker, DictionaryID(w) PROVE TermsHaveOneRow'
  <2>1. PICK t \in Term, id \in Nat \ {0} :
          /\ \A v \in Worker \ {w} : inserted[v][t] = 0
          /\ \/ inserted' = inserted
             \/ /\ dictionary[t] = 0
                /\ \A v \in Worker : \A u \in Term :
                     inserted'[v][u] = IF v = w /\ u = t THEN id ELSE inserted[v][u]
          /\ UNCHANGED dictionary
    BY <1>2, DictionaryIDCells
  <2> QED
    BY <2>1 DEF TermsHaveOneRow
<1>3. ASSUME NEW w \in Worker, NEW end, Rollback(w, end) PROVE TermsHaveOneRow'
  BY <1>3, RollbackCells DEF TermsHaveOneRow
<1>4. ASSUME NEW w \in Worker, Commit(w) PROVE TermsHaveOneRow'
  BY <1>4, CommitCells DEF TermsHaveOneRow
<1>5. ASSUME NEW s \in Server, NEW t \in Term, LookUp(s, t) \/ Evict(s, t)
      PROVE  TermsHaveOneRow'
  BY <1>5, CacheCells DEF TermsHaveOneRow
<1>6. ASSUME NEW s \in Server, Restart(s) PROVE TermsHaveOneRow'
  BY <1>6, RestartCells DEF TermsHaveOneRow
<1> QED
  BY <1>1, <1>2, <1>3, <1>4, <1>5, <1>6, StepsOnNames

LEMMA CacheStep ==
  ASSUME TypeOK, TermsHaveOneRow, CacheIsBacked, [Next]_vars
  PROVE  CacheIsBacked'
<1>0. /\ ServerOf \in [Worker -> Server]
      /\ cache \in [Server -> [Term -> Nat]]
      /\ inserted \in [Worker -> [Term -> Nat]]
  BY GraphAssumption DEF TypeOK
<1>1. ASSUME UNCHANGED naming PROVE CacheIsBacked'
  BY <1>1 DEF naming, CacheIsBacked
<1>2. ASSUME NEW w \in Worker, DictionaryID(w) PROVE CacheIsBacked'
  <2>1. PICK t \in Term, id \in Nat \ {0} :
          /\ \A s \in Server : \A u \in Term :
               \/ cache'[s][u] = cache[s][u]
               \/ s = ServerOf[w] /\ u = t /\ cache'[s][u] = id
          /\ \/ inserted' = inserted /\ (dictionary[t] = id \/ inserted[w][t] = id)
             \/ /\ inserted[w][t] = 0
                /\ \A v \in Worker : \A u \in Term :
                     inserted'[v][u] = IF v = w /\ u = t THEN id ELSE inserted[v][u]
          /\ UNCHANGED <<dictionary, rolledBack>>
    BY <1>2, DictionaryIDCells
  <2>2. ASSUME NEW v \in Worker, NEW u \in Term, inserted[v][u] # 0
        PROVE  inserted'[v][u] = inserted[v][u]
    BY <2>1, <2>2
  <2>3. dictionary[t] = id \/ inserted'[w][t] = id
    BY <2>1
  <2>4. SUFFICES ASSUME NEW s \in Server, NEW u \in Term, cache'[s][u] # 0
                 PROVE  \/ dictionary'[u] = cache'[s][u]
                        \/ \E v \in Worker : ServerOf[v] = s /\ inserted'[v][u] = cache'[s][u]
                        \/ <<u, cache'[s][u]>> \in rolledBack'
    BY DEF CacheIsBacked
  <2>5. CASE cache'[s][u] = cache[s][u]
    BY <2>1, <2>2, <2>4, <2>5 DEF CacheIsBacked
  <2>6. CASE s = ServerOf[w] /\ u = t /\ cache'[s][u] = id
    BY <2>1, <2>3, <2>6
  <2> QED
    BY <2>1, <2>5, <2>6
<1>3. ASSUME NEW w \in Worker, NEW end, Rollback(w, end) PROVE CacheIsBacked'
  <2>1. ASSUME NEW s \in Server, NEW t \in Term, cache[s][t] # 0, NEW v \in Worker,
               ServerOf[v] = s, inserted[v][t] = cache[s][t]
        PROVE  inserted'[v][t] = cache[s][t] \/ <<t, cache[s][t]>> \in rolledBack'
    BY <1>0, <1>3, <2>1, RollbackCells
  <2>2. ASSUME NEW s \in Server, NEW t \in Term, <<t, cache[s][t]>> \in rolledBack
        PROVE  <<t, cache[s][t]>> \in rolledBack'
    BY <1>0, <1>3, <2>2, RollbackCells
  <2> QED
    BY <1>3, <2>1, <2>2, RollbackCells DEF CacheIsBacked
<1>4. ASSUME NEW w \in Worker, Commit(w) PROVE CacheIsBacked'
  BY <1>0, <1>4, CommitCells DEF CacheIsBacked, TermsHaveOneRow
<1>5. ASSUME NEW s \in Server, NEW t \in Term, LookUp(s, t) \/ Evict(s, t)
      PROVE  CacheIsBacked'
  BY <1>5, CacheCells DEF CacheIsBacked
<1>6. ASSUME NEW s \in Server, Restart(s) PROVE CacheIsBacked'
  <2>1. ASSUME NEW r \in Server, NEW t \in Term, r # s, <<t, cache[r][t]>> \in rolledBack
        PROVE  <<t, cache[r][t]>> \in rolledBack'
    BY <1>0, <1>6, <2>1, RestartCells
  <2> QED
    BY <1>6, <2>1, RestartCells DEF CacheIsBacked
<1> QED
  BY <1>1, <1>2, <1>3, <1>4, <1>5, <1>6, StepsOnNames

------------------------------------------------------------------------------
LEMMA InitGInv == Init => GInv
<1> SUFFICES ASSUME Init PROVE GInv
  OBVIOUS
<1>1. (CHOOSE r \in Request : TRUE) \in Request
  BY GraphAssumption
<1>2. \A r \in Request : Len(r.quads) \in Nat
  BY GraphAssumption
<1>3. SavesInStep
  BY <1>1, <1>2 DEF Init, SavesInStep
<1>4. TypeOK
  BY <1>1, <1>3, GraphAssumption DEF Init, TypeOK, NoIds
<1>5. IdsAreIssued /\ IdsNameOneTerm
  BY DEF Init, IdsAreIssued, IdsNameOneTerm, Named, NoIds
<1>6. TermsHaveOneRow /\ CacheIsBacked
  BY DEF Init, TermsHaveOneRow, CacheIsBacked, NoIds
<1> QED
  BY <1>4, <1>5, <1>6 DEF GInv

LEMMA GInvStep == GInv /\ [Next]_vars => GInv'
BY TypeStep, NamesAreUnique, OneRowStep, CacheStep DEF GInv

LEMMA GInvAlways == Spec => []GInv
BY InitGInv, GInvStep, PTL DEF Spec

(* The store's variables keep their types in every reachable state, in     *)
(* particular a save never writes more identifiers than its quads have     *)
(* places (postgres.go, toQuadIDs).                                        *)
THEOREM TypeCorrect == Spec => []TypeOK
<1>1. GInv => TypeOK
  BY DEF GInv
<1> QED
  BY <1>1, GInvAlways, PTL

(* No identifier is ever remembered for two terms, whatever transactions   *)
(* fail and whichever servers restart: InsertDictionaryValue draws from a  *)
(* sequence that rollbacks do not take back.                               *)
THEOREM IdsStayUnique == Spec => []IdsNameOneTerm
<1>1. GInv => IdsNameOneTerm
  BY DEF GInv
<1> QED
  BY <1>1, GInvAlways, PTL

------------------------------------------------------------------------------
(* The refinement of QuadStore: names last, committed rows last, graphs    *)
(* belong to one save, and quads refer to committed rows.                  *)

(* An identifier in use names one term. *)
LEMMA NameIsUnique ==
  ASSUME GInv, NEW t \in Term, NEW u \in Term, NEW id \in Nat \ {0}, Named(t, id), Named(u, id)
  PROVE  t = u
<1>1. id < nextTerm /\ nextTerm \in Nat
  BY DEF GInv, IdsAreIssued, TypeOK
<1>2. id \in 1..(nextTerm - 1)
  BY <1>1
<1> QED
  BY <1>2 DEF GInv, IdsNameOneTerm

(* Whatever is remembered for a term stays remembered for it: a rolled     *)
(* back row moves to the history, an evicted one has its row elsewhere.    *)
LEMMA NamesStay ==
  ASSUME GInv, [Next]_vars, NEW t \in Term, NEW id \in Nat \ {0}, Named(t, id)
  PROVE  Named(t, id)'
<1>0. TypeOK /\ TermsHaveOneRow /\ CacheIsBacked
  BY DEF GInv
<1>1. CASE UNCHANGED naming
  BY <1>1 DEF naming, Named
<1>2. ASSUME NEW w \in Worker, DictionaryID(w) PROVE Named(t, id)'
  <2>1. PICK u \in Term, n \in Nat \ {0} :
          /\ \A s \in Server : \A v \in Term :
               \/ cache'[s][v] = cache[s][v]
               \/ s = ServerOf[w] /\ v = u /\ cache'[s][v] = n
          /\ cache[ServerOf[w]][u] = 0
          /\ \/ inserted' = inserted
             \/ /\ inserted[w][u] = 0
                /\ \A v \in Worker : \A b \in Term :
                     inserted'[v][b] = IF v = w /\ b = u THEN n ELSE inserted[v][b]
          /\ UNCHANGED <<dictionary, rolledBack>>
    BY <1>0, <1>2, DictionaryIDCells
  <2>2. \A v \in Worker : inserted[v][t] = id => inserted'[v][t] = id
    BY <2>1
  <2>3. \A s \in Server : cache[s][t] = id => cache'[s][t] = id
    BY <2>1
  <2> QED
    BY <2>1, <2>2, <2>3 DEF Named
<1>3. ASSUME NEW w \in Worker, NEW end, Rollback(w, end) PROVE Named(t, id)'
  BY <1>0, <1>3, RollbackCells DEF Named
<1>4. ASSUME NEW w \in Worker, Commit(w) PROVE Named(t, id)'
  BY <1>0, <1>4, CommitCells DEF Named, TermsHaveOneRow
<1>5. CASE \E s \in Server : cache[s][t] = id
  <2>1. PICK s \in Server : cache[s][t] = id
    BY <1>5
  <2>2. \/ dictionary[t] = id
        \/ \E w \in Worker : inserted[w][t] = id
        \/ <<t, id>> \in rolledBack
    BY <1>0, <2>1 DEF CacheIsBacked
  <2>3. ASSUME NEW r \in Server, NEW u \in Term, LookUp(r, u) \/ Evict(r, u) PROVE Named(t, id)'
    BY <1>0, <2>2, <2>3, CacheCells DEF Named
  <2>4. ASSUME NEW r \in Server, Restart(r) PROVE Named(t, id)'
    BY <1>0, <2>2, <2>4, RestartCells DEF Named
  <2> QED
    BY <1>1, <1>2, <1>3, <1>4, <2>3, <2>4, StepsOnNames
<1>6. CASE \/ dictionary[t] = id
           \/ \E w \in Worker : inserted[w][t] = id
           \/ <<t, id>> \in rolledBack
  <2>3. ASSUME NEW r \in Server, NEW u \in Term, LookUp(r, u) \/ Evict(r, u) PROVE Named(t, id)'
    BY <1>0, <1>6, <2>3, CacheCells DEF Named
  <2>4. ASSUME NEW r \in Server, Restart(r) PROVE Named(t, id)'
    BY <1>0, <1>6, <2>4, RestartCells DEF Named
  <2> QED
    BY <1>1, <1>2, <1>3, <1>4, <2>3, <2>4, StepsOnNames
<1> QED
  BY <1>5, <1>6 DEF Named

(* A committed dictionary row never changes. *)
LEMMA DictionaryGrows ==
  ASSUME GInv, [Next]_vars
  PROVE  /\ \A t \in Term : dictionary[t] # 0 => dictionary'[t] = dictionary[t]
         /\ Committed \subseteq Committed'
<1>0. TypeOK /\ TermsHaveOneRow
  BY DEF GInv
<1>1. ASSUME NEW w \in Worker, DictionaryID(w) \/ \E end : Rollback(w, end)
      PROVE  dictionary' = dictionary
  BY <1>1 DEF DictionaryID, Rollback, tables
<1>2. ASSUME NEW w \in Worker, Commit(w), NEW t \in Term, dictionary[t] # 0
      PROVE  dictionary'[t] = dictionary[t]
  BY <1>0, <1>2, CommitCells DEF TermsHaveOneRow
<1>3. ASSUME NEW s \in Server, Restart(s) \/ \E t \in Term : LookUp(s, t) \/ Evict(s, t)
      PROVE  dictionary' = dictionary
  BY <1>3 DEF Restart, LookUp, Evict, tables
<1>4. ASSUME NEW t \in Term, dictionary[t] # 0 PROVE dictionary'[t] = dictionary[t]
  BY <1>1, <1>2, <1>3, <1>4, StepsOnNames DEF naming
<1>5. Committed \subseteq Committed'
  BY <1>4 DEF Committed
<1> QED
  BY <1>4, <1>5

------------------------------------------------------------------------------
(* Graphs. *)

(* The steps that leave the graphs and the saves' shape alone. *)
LEMMA StepsOnGraphs ==
  ASSUME [Next]_vars
  PROVE  \/ /\ UNCHANGED <<graphs, nextGraph, saves, request, graph>>
            /\ \/ phase' = phase
               \/ \E w \in Worker : SaveQuads(w) \/ InsertQuads(w)
         \/ \E w \in Worker : Begin(w) \/ Commit(w) \/ \E end : Rollback(w, end)
         \/ \E s \in Server : Restart(s)
<1>1. ASSUME NEW w \in Worker, DictionaryHit(w) \/ DictionaryID(w)
      PROVE  UNCHANGED <<graphs, nextGraph, saves, request, graph, phase>>
  BY <1>1 DEF DictionaryHit, DictionaryID, tables
<1>2. ASSUME NEW w \in Worker, SaveQuads(w) \/ InsertQuads(w)
      PROVE  UNCHANGED <<graphs, nextGraph, saves, request, graph>>
  BY <1>2 DEF SaveQuads, InsertQuads, tables
<1>3. ASSUME NEW s \in Server, NEW t \in Term, LookUp(s, t) \/ Evict(s, t)
      PROVE  UNCHANGED <<graphs, nextGraph, saves, request, graph, phase>>
  BY <1>3 DEF LookUp, Evict, tables, saving
<1>4. ASSUME NEW s \in Server, NEW x \in Term, NEW y \in Term, RemoveQuadEdge(s, x, y)
      PROVE  UNCHANGED <<graphs, nextGraph, saves, request, graph, phase>>
  BY <1>4 DEF RemoveQuadEdge, saving
<1>5. ASSUME UNCHANGED vars
      PROVE  UNCHANGED <<graphs, nextGraph, saves, request, graph, phase>>
  BY <1>5 DEF vars, tables, saving
<1> QED
  BY <1>1, <1>2, <1>3, <1>4, <1>5
     DEF Next, SaveStep, StoreStep, InsertRefused, StatementError, DeadlockDetected

LEMMA GraphsStep ==
  ASSUME TypeOK, GraphsInv, [Next]_vars
  PROVE  GraphsInv'
<1>0. /\ nextGraph \in Nat \ {0} /\ saves \in Nat /\ graph \in [Worker -> Nat]
      /\ request \in [Worker -> Request]
      /\ phase \in [Worker -> {"idle", "created", "open", "written"}]
      /\ \A g \in graphs : g \in Nat /\ g < nextGraph /\ g # 0
  BY GraphAssumption DEF TypeOK, GraphsInv
<1>1. ASSUME NEW w \in Worker, NEW r \in Request, SaveGraphVersion(w, r)
      PROVE  GraphsInv'
  <2>1. /\ graph' = [graph EXCEPT ![w] = nextGraph] /\ nextGraph' = nextGraph + 1
        /\ phase' = [phase EXCEPT ![w] = "open"] /\ graphs' = graphs /\ saves' = saves + 1
        /\ request' = [request EXCEPT ![w] = r] /\ r.kind = "version"
    BY <1>1 DEF SaveGraphVersion, Accept
  <2> QED
    BY <1>0, <2>1 DEF GraphsInv
<1>2. ASSUME NEW w \in Worker, NEW r \in Request, CreateGraphVersion(w, r)
      PROVE  GraphsInv'
  <2>1. /\ graph' = [graph EXCEPT ![w] = nextGraph] /\ nextGraph' = nextGraph + 1
        /\ phase' = [phase EXCEPT ![w] = "created"] /\ graphs' = graphs \cup {nextGraph}
        /\ saves' = saves + 1 /\ request' = [request EXCEPT ![w] = r] /\ r.kind = "given"
    BY <1>2 DEF CreateGraphVersion, Accept
  <2> QED
    BY <1>0, <2>1 DEF GraphsInv
<1>3. ASSUME NEW w \in Worker, NEW r \in Request, SaveEdges(w, r)
      PROVE  GraphsInv'
  <2>1. /\ graph' = [graph EXCEPT ![w] = 0] /\ nextGraph' = nextGraph
        /\ phase' = [phase EXCEPT ![w] = "open"] /\ graphs' = graphs
        /\ saves' = saves + 1 /\ request' = [request EXCEPT ![w] = r] /\ r.kind = "edge"
    BY <1>3 DEF SaveEdges, Accept
  <2> QED
    BY <1>0, <2>1 DEF GraphsInv
<1>4. ASSUME UNCHANGED <<graphs, nextGraph, saves, request, graph, phase>> PROVE GraphsInv'
  BY <1>4 DEF GraphsInv
<1>5. ASSUME NEW w \in Worker, SaveQuads(w), UNCHANGED <<graphs, nextGraph, saves, request, graph>>
      PROVE  GraphsInv'
  <2>1. phase' = [phase EXCEPT ![w] = "open"] /\ phase[w] = "created"
    BY <1>5 DEF SaveQuads
  <2> QED
    BY <1>0, <1>5, <2>1 DEF GraphsInv
<1>6. ASSUME NEW w \in Worker, InsertQuads(w), UNCHANGED <<graphs, nextGraph, saves, request, graph>>
      PROVE  GraphsInv'
  <2>1. /\ phase' = [phase EXCEPT ![w] = "written"] /\ phase[w] = "open"
        /\ graph[w] \in graphs \/ request[w].kind = "version"
    BY <1>6 DEF InsertQuads, KeysExist
  <2>2. request[w].kind # "edge"
    BY <1>0, <2>1 DEF GraphsInv
  <2> QED
    BY <1>0, <1>6, <2>1, <2>2 DEF GraphsInv
<1>7. ASSUME NEW w \in Worker, NEW end, Return(w, end), nextGraph' = nextGraph, saves' = saves,
             request' = request,
             graphs' = graphs \/ (graphs' = graphs \cup {graph[w]} /\ request[w].kind = "version"
                                  /\ phase[w] # "idle")
      PROVE  GraphsInv'
  <2>1. /\ phase'[w] = "idle" /\ graph'[w] = 0
        /\ \A v \in Worker \ {w} : phase'[v] = phase[v] /\ graph'[v] = graph[v]
    BY <1>0, <1>7 DEF Return
  <2>2. nextGraph \in Nat \ {0} /\ nextGraph <= saves + 1 /\ graph[w] \in Nat /\ graph[w] < nextGraph
    BY <1>0 DEF GraphsInv
  <2>3. /\ graphs' \subseteq 1..(nextGraph - 1) /\ graphs \subseteq graphs'
        /\ graphs' \subseteq graphs \cup {graph[w]}
    BY <1>7 DEF GraphsInv
  <2>4. \A v \in Worker : graph'[v] < nextGraph
    BY <2>1, <2>2 DEF GraphsInv
  <2>5. ASSUME NEW v \in Worker, phase'[v] # "idle"
        PROVE  /\ request[v].kind = "version" =>
                    /\ graph'[v] \in 1..(nextGraph - 1) /\ graph'[v] \notin graphs'
                    /\ \A x \in Worker \ {v} : graph'[x] # graph'[v]
               /\ request[v].kind = "given" => graph'[v] \in graphs'
               /\ request[v].kind = "edge" => graph'[v] = 0 /\ phase'[v] # "written"
    <3>1. v # w /\ phase'[v] = phase[v] /\ graph'[v] = graph[v]
      BY <2>1, <2>5
    <3>2. /\ request[v].kind = "version" =>
               /\ graph[v] \in 1..(nextGraph - 1) /\ graph[v] \notin graphs
               /\ \A x \in Worker \ {v} : graph[x] # graph[v]
          /\ request[v].kind = "given" => graph[v] \in graphs
          /\ request[v].kind = "edge" => graph[v] = 0 /\ phase[v] # "written"
      BY <2>5, <3>1 DEF GraphsInv
    <3>3. ASSUME request[v].kind = "version", NEW x \in Worker \ {v} PROVE graph'[x] # graph'[v]
      BY <2>1, <3>1, <3>2, <3>3
    <3>4. request[v].kind = "version" => graph[v] \notin graphs'
      BY <2>3, <3>1, <3>2
    <3> QED
      BY <2>3, <3>1, <3>2, <3>3, <3>4
  <2> QED
    BY <1>7, <2>2, <2>3, <2>4, <2>5 DEF GraphsInv
<1>8. ASSUME NEW w \in Worker, NEW end, Rollback(w, end) PROVE GraphsInv'
  BY <1>8, <1>7 DEF Rollback, tables
<1>9. ASSUME NEW w \in Worker, Commit(w) PROVE GraphsInv'
  BY <1>9, <1>7 DEF Commit
<1>10. ASSUME NEW s \in Server, Restart(s) PROVE GraphsInv'
  <2>1. /\ graphs' = graphs /\ nextGraph' = nextGraph /\ saves' = saves /\ request' = request
        /\ \A w \in Worker : \/ phase'[w] = "idle" /\ graph'[w] = 0
                             \/ phase'[w] = phase[w] /\ graph'[w] = graph[w]
    BY <1>10 DEF Restart, tables
  <2> QED
    BY <1>0, <2>1 DEF GraphsInv
<1> QED
  BY <1>1, <1>2, <1>3, <1>4, <1>5, <1>6, <1>8, <1>9, <1>10, StepsOnGraphs DEF Begin

------------------------------------------------------------------------------
(* The identifiers a save has found. *)

Resolves(w, i) ==
  /\ resolved[w][i] # 0 /\ Named(TermAt(request[w], i), resolved[w][i])
  /\ phase[w] = "written" => resolved[w][i] \in Committed \cup Own(w)

LEMMA ResolvedPlace ==
  ASSUME TypeOK, NEW w \in Worker, NEW i \in DOMAIN resolved[w]
  PROVE  /\ i \in Nat \ {0} /\ i <= Len(resolved[w]) /\ Len(resolved[w]) \in Nat
         /\ TermAt(request[w], i) \in Term /\ resolved[w][i] \in Nat
<1>1. /\ request[w] \in Request /\ resolved[w] \in Seq(Nat)
      /\ Len(resolved[w]) <= 2 * Len(request[w].quads)
  BY DEF TypeOK, SavesInStep
<1>2. Len(request[w].quads) \in Nat
  BY <1>1, GraphAssumption
<1>3. i \in Nat \ {0} /\ i <= Len(resolved[w]) /\ Len(resolved[w]) \in Nat /\ resolved[w][i] \in Nat
  BY <1>1
<1>4. i <= 2 * Len(request[w].quads)
  BY <1>1, <1>2, <1>3
<1> QED
  BY <1>1, <1>3, <1>4, TermAtIsTerm

LEMMA KeptResolves ==
  ASSUME GInv, [Next]_vars, NEW w \in Worker, NEW i \in DOMAIN resolved[w], Resolves(w, i),
         request'[w] = request[w], resolved'[w][i] = resolved[w][i],
         phase'[w] = "written" => phase[w] = "written" /\ inserted'[w] = inserted[w]
  PROVE  Resolves(w, i)'
<1>1. TermAt(request[w], i) \in Term /\ resolved[w][i] \in Nat \ {0}
  BY ResolvedPlace DEF GInv, Resolves
<1>2. PICK t \in Term, id \in Nat \ {0} : t = TermAt(request[w], i) /\ id = resolved[w][i]
  BY <1>1
<1>3. Named(t, id)
  BY <1>2 DEF Resolves
<1>4. Named(t, id)'
  BY <1>3, NamesStay
<1>5. TermAt(request[w], i)' = t /\ resolved'[w][i] = id
  BY <1>2 DEF TermAt
<1>6. Named(TermAt(request[w], i), resolved[w][i])'
  BY <1>4, <1>5 DEF Named
<1>7. ASSUME phase'[w] = "written" PROVE (resolved[w][i] \in Committed \cup Own(w))'
  <2>1. resolved[w][i] \in Committed \cup Own(w)
    BY <1>7 DEF Resolves
  <2>2. Own(w)' = Own(w)
    BY <1>7 DEF Own
  <2> QED
    BY <2>1, <2>2, DictionaryGrows
<1> QED
  BY <1>1, <1>6, <1>7 DEF Resolves

(* What a step does to one save. *)
LEMMA StepsOnResolved ==
  ASSUME TypeOK, [Next]_vars, NEW w \in Worker
  PROVE  \/ resolved'[w] = <<>>
         \/ /\ resolved'[w] = resolved[w] /\ request'[w] = request[w]
            /\ phase'[w] = "written" => phase[w] = "written" /\ inserted'[w] = inserted[w]
         \/ DictionaryHit(w) \/ DictionaryID(w) \/ InsertQuads(w)
<1> DEFINE Same == /\ resolved'[w] = resolved[w] /\ request'[w] = request[w]
                   /\ phase'[w] = "written" => phase[w] = "written" /\ inserted'[w] = inserted[w]
<1>0. /\ phase \in [Worker -> {"idle", "created", "open", "written"}]
      /\ request \in [Worker -> Request] /\ resolved \in [Worker -> Seq(Nat)]
      /\ inserted \in [Worker -> [Term -> Nat]]
      /\ phase[w] = "idle" => resolved[w] = <<>>
  BY DEF TypeOK, SavesInStep
<1>1. ASSUME NEW v \in Worker, Begin(v) PROVE resolved'[w] = <<>> \/ Same
  <2>1. /\ resolved' = resolved /\ inserted' = inserted /\ phase[v] = "idle"
        /\ \E r \in Request : request' = [request EXCEPT ![v] = r]
        /\ \E p \in {"created", "open"} : phase' = [phase EXCEPT ![v] = p]
    BY <1>1 DEF Begin, SaveGraphVersion, CreateGraphVersion, SaveEdges, Accept
  <2>2. CASE v = w
    BY <1>0, <2>1, <2>2
  <2>3. CASE v # w
    BY <1>0, <2>1, <2>3
  <2> QED
    BY <2>2, <2>3
<1>2. ASSUME NEW v \in Worker, SaveQuads(v) PROVE Same
  BY <1>0, <1>2 DEF SaveQuads
<1>3. ASSUME NEW v \in Worker \ {w}, DictionaryHit(v) \/ InsertQuads(v) PROVE Same
  BY <1>0, <1>3 DEF DictionaryHit, InsertQuads
<1>4. ASSUME NEW v \in Worker \ {w}, DictionaryID(v) PROVE Same
  <2>1. /\ request' = request /\ phase' = phase
        /\ \E id : resolved' = [resolved EXCEPT ![v] = Append(@, id)]
        /\ \/ inserted' = inserted
           \/ \E t, id : inserted' = [inserted EXCEPT ![v][t] = id]
    BY <1>4 DEF DictionaryID
  <2> QED
    BY <1>0, <2>1
<1>5. ASSUME NEW v \in Worker, NEW end, Return(v, end), request' = request,
             inserted' = [inserted EXCEPT ![v] = NoIds]
      PROVE  resolved'[w] = <<>> \/ Same
  <2>1. /\ resolved' = [resolved EXCEPT ![v] = <<>>] /\ phase' = [phase EXCEPT ![v] = "idle"]
    BY <1>5 DEF Return
  <2>2. CASE v = w
    BY <1>0, <2>1, <2>2
  <2>3. CASE v # w
    BY <1>0, <1>5, <2>1, <2>3
  <2> QED
    BY <2>2, <2>3
<1>6. ASSUME NEW v \in Worker, Commit(v) \/ \E end : Rollback(v, end)
      PROVE  resolved'[w] = <<>> \/ Same
  BY <1>5, <1>6 DEF Commit, Rollback
<1>7. ASSUME NEW s \in Server, Restart(s) PROVE resolved'[w] = <<>> \/ Same
  BY <1>0, <1>7 DEF Restart
<1>8. ASSUME NEW s \in Server, NEW t \in Term, LookUp(s, t) \/ Evict(s, t) PROVE Same
  BY <1>8 DEF LookUp, Evict, saving
<1>9. ASSUME NEW s \in Server, NEW x \in Term, NEW y \in Term, RemoveQuadEdge(s, x, y) PROVE Same
  BY <1>9 DEF RemoveQuadEdge, saving
<1>10. ASSUME UNCHANGED vars PROVE Same
  BY <1>10 DEF vars, saving
<1>11. ASSUME NEW v \in Worker, DictionaryHit(v) \/ DictionaryID(v) \/ InsertQuads(v)
       PROVE  Same \/ DictionaryHit(w) \/ DictionaryID(w) \/ InsertQuads(w)
  BY <1>3, <1>4, <1>11
<1> HIDE DEF Same
<1>12. \/ \E v \in Worker : Begin(v) \/ SaveQuads(v) \/ Commit(v) \/ \E end : Rollback(v, end)
       \/ \E v \in Worker : DictionaryHit(v) \/ DictionaryID(v) \/ InsertQuads(v)
       \/ \E s \in Server : Restart(s) \/ \E t \in Term : LookUp(s, t) \/ Evict(s, t)
       \/ \E s \in Server : \E x \in Term : \E y \in Term : RemoveQuadEdge(s, x, y)
       \/ UNCHANGED vars
  BY DEF Next, SaveStep, StoreStep, InsertRefused, StatementError, DeadlockDetected
<1>13. \/ resolved'[w] = <<>> \/ Same
       \/ DictionaryHit(w) \/ DictionaryID(w) \/ InsertQuads(w)
  <2>1. CASE \E v \in Worker : Begin(v) \/ SaveQuads(v) \/ Commit(v) \/ \E end : Rollback(v, end)
    BY <1>1, <1>2, <1>6, <2>1
  <2>2. CASE \E s \in Server : Restart(s) \/ \E t \in Term : LookUp(s, t) \/ Evict(s, t)
    BY <1>7, <1>8, <2>2
  <2>3. CASE \E s \in Server : \E x \in Term : \E y \in Term : RemoveQuadEdge(s, x, y)
    BY <1>9, <2>3
  <2>4. CASE UNCHANGED vars
    BY <1>10, <2>4
  <2> QED
    BY <1>11, <1>12, <2>1, <2>2, <2>3, <2>4
<1> QED
  BY <1>13 DEF Same

(* One more identifier, that of the next term. *)
LEMMA AppendedResolves ==
  ASSUME GInv, ResolvedInv, [Next]_vars, NEW w \in Worker, TermsLeft(w),
         phase'[w] = phase[w], request'[w] = request[w],
         NEW id \in Nat \ {0}, resolved'[w] = Append(resolved[w], id),
         NEW t \in Term, t = NextTerm(w), Named(t, id)',
         NEW i \in DOMAIN resolved'[w]
  PROVE  Resolves(w, i)'
<1>1. resolved[w] \in Seq(Nat)
  BY DEF GInv, TypeOK
<1>2. phase'[w] = "open"
  BY DEF TermsLeft
<1>3. CASE i \in DOMAIN resolved[w]
  <2>1. Resolves(w, i)
    BY <1>3 DEF ResolvedInv, Resolves
  <2>2. resolved'[w][i] = resolved[w][i]
    BY <1>1, <1>3
  <2> QED
    BY <1>2, <1>3, <2>1, <2>2, KeptResolves
<1>4. CASE i \notin DOMAIN resolved[w]
  <2>1. i = Len(resolved[w]) + 1 /\ resolved'[w][i] = id
    BY <1>1, <1>4
  <2>2. TermAt(request[w], i)' = t
    BY <2>1 DEF NextTerm, TermAt
  <2>3. Named(TermAt(request[w], i), resolved[w][i])'
    BY <2>1, <2>2 DEF Named
  <2> QED
    BY <1>2, <2>1, <2>3 DEF Resolves
<1> QED
  BY <1>3, <1>4

LEMMA ResolvedStep ==
  ASSUME GInv, ResolvedInv, [Next]_vars
  PROVE  ResolvedInv'
<1>0. TypeOK
  BY DEF GInv
<1>1. ASSUME NEW w \in Worker, NEW i \in DOMAIN resolved'[w] PROVE Resolves(w, i)'
  <2>1. CASE resolved'[w] = <<>>
    BY <1>1, <2>1
  <2>2. CASE /\ resolved'[w] = resolved[w] /\ request'[w] = request[w]
             /\ phase'[w] = "written" => phase[w] = "written" /\ inserted'[w] = inserted[w]
    <3>1. i \in DOMAIN resolved[w] /\ resolved'[w][i] = resolved[w][i]
      BY <1>1, <2>2
    <3>2. Resolves(w, i)
      BY <3>1 DEF ResolvedInv, Resolves
    <3> QED
      BY <2>2, <3>1, <3>2, KeptResolves
  <2>3. CASE DictionaryHit(w)
    <3>1. PICK id : /\ id = cache[ServerOf[w]][NextTerm(w)] /\ id # 0
                    /\ resolved' = [resolved EXCEPT ![w] = Append(@, id)]
      BY <2>3 DEF DictionaryHit
    <3>2. TermsLeft(w) /\ phase' = phase /\ request' = request
      BY <2>3 DEF DictionaryHit
    <3>3. NextTerm(w) \in Term
      BY <1>0, <3>2, NextTermIsTerm
    <3>6. PICK t \in Term : t = NextTerm(w)
      BY <3>3
    <3>4. id \in Nat \ {0} /\ ServerOf[w] \in Server
      <4>1. ServerOf[w] \in Server /\ cache \in [Server -> [Term -> Nat]]
        BY <1>0, GraphAssumption DEF TypeOK
      <4> QED
        BY <3>1, <3>6, <4>1
    <3>5. Named(t, id)
      BY <3>1, <3>4, <3>6 DEF Named
    <3>7. Named(t, id)'
      BY <3>4, <3>5, NamesStay
    <3>9. resolved'[w] = Append(resolved[w], id)
      BY <1>0, <3>1 DEF TypeOK
    <3> QED
      BY <1>1, <3>2, <3>4, <3>6, <3>7, <3>9, AppendedResolves
  <2>4. CASE DictionaryID(w)
    <3>1. TermsLeft(w) /\ phase' = phase /\ request' = request
      BY <2>4 DEF DictionaryID
    <3>2. PICK t \in Term, id \in Nat \ {0} :
            /\ t = NextTerm(w)
            /\ resolved' = [resolved EXCEPT ![w] = Append(@, id)]
            /\ \/ inserted' = inserted /\ (dictionary[t] = id \/ inserted[w][t] = id)
               \/ \A v \in Worker : \A u \in Term :
                    inserted'[v][u] = IF v = w /\ u = t THEN id ELSE inserted[v][u]
            /\ UNCHANGED dictionary
      BY <1>0, <2>4, DictionaryIDCells
    <3>3. Named(t, id)'
      BY <3>2 DEF Named
    <3>4. resolved'[w] = Append(resolved[w], id)
      BY <1>0, <3>2 DEF TypeOK
    <3> QED
      BY <1>1, <3>1, <3>2, <3>3, <3>4, AppendedResolves
  <2>5. CASE InsertQuads(w)
    <3>1. /\ resolved' = resolved /\ request' = request /\ dictionary' = dictionary
          /\ inserted' = inserted /\ cache' = cache /\ rolledBack' = rolledBack
          /\ KeysExist(w)
      BY <2>5 DEF InsertQuads, tables
    <3>2. resolved[w][i] \in Committed \cup Own(w) /\ Resolves(w, i)
      BY <1>1, <3>1 DEF KeysExist, ResolvedInv, Resolves
    <3>3. Committed' = Committed /\ Own(w)' = Own(w)
      BY <3>1 DEF Committed, Own
    <3>4. /\ Named(TermAt(request[w], i), resolved[w][i])' <=>
               Named(TermAt(request[w], i), resolved[w][i])
          /\ resolved'[w][i] = resolved[w][i]
      BY <3>1 DEF Named, TermAt
    <3> QED
      BY <3>2, <3>3, <3>4 DEF Resolves
  <2> QED
    BY <1>0, <2>1, <2>2, <2>3, <2>4, <2>5, StepsOnResolved
<1> QED
  BY <1>1 DEF ResolvedInv, Resolves

------------------------------------------------------------------------------
(* Quads. *)

LEMMA StepsOnQuads ==
  ASSUME [Next]_vars
  PROVE  \/ UNCHANGED <<quads, graphs, dictionary>>
         \/ \E w \in Worker : Commit(w) \/ \E r \in Request : CreateGraphVersion(w, r)
         \/ \E s \in Server : \E x \in Term : \E y \in Term : RemoveQuadEdge(s, x, y)
<1>1. ASSUME NEW w \in Worker, NEW r \in Request, SaveGraphVersion(w, r) \/ SaveEdges(w, r)
      PROVE  UNCHANGED <<quads, graphs, dictionary>>
  BY <1>1 DEF SaveGraphVersion, SaveEdges, Accept
<1>2. ASSUME NEW w \in Worker, SaveQuads(w) \/ DictionaryHit(w) \/ DictionaryID(w) \/ InsertQuads(w)
      PROVE  UNCHANGED <<quads, graphs, dictionary>>
  BY <1>2 DEF SaveQuads, DictionaryHit, DictionaryID, InsertQuads, tables
<1>3. ASSUME NEW w \in Worker, NEW end, Rollback(w, end)
      PROVE  UNCHANGED <<quads, graphs, dictionary>>
  BY <1>3 DEF Rollback, tables
<1>4. ASSUME NEW s \in Server, Restart(s) \/ \E t \in Term : LookUp(s, t) \/ Evict(s, t)
      PROVE  UNCHANGED <<quads, graphs, dictionary>>
  BY <1>4 DEF Restart, LookUp, Evict, tables
<1>5. ASSUME UNCHANGED vars PROVE UNCHANGED <<quads, graphs, dictionary>>
  BY <1>5 DEF vars, tables
<1> QED
  BY <1>1, <1>2, <1>3, <1>4, <1>5
     DEF Next, Begin, SaveStep, StoreStep, InsertRefused, StatementError, DeadlockDetected

LEMMA OwnIsCommitted ==
  ASSUME GInv, NEW w \in Worker, Commit(w)
  PROVE  Committed \cup Own(w) \subseteq Committed'
<1>1. \A t \in Term : dictionary'[t] = IF inserted[w][t] # 0 THEN inserted[w][t] ELSE dictionary[t]
  BY CommitCells DEF GInv
<1>2. \A t \in Term : inserted[w][t] # 0 => dictionary[t] = 0
  BY DEF GInv, TermsHaveOneRow
<1> QED
  BY <1>1, <1>2 DEF Committed, Own

(* The places of a row's terms in its save. *)
LEMMA PairPlaces ==
  ASSUME TypeOK, NEW w \in Worker, phase[w] = "written", NEW i \in DOMAIN request[w].quads
  PROVE  /\ 2 * i - 1 \in DOMAIN resolved[w] /\ 2 * i \in DOMAIN resolved[w]
         /\ TermAt(request[w], 2 * i - 1) = request[w].quads[i][1]
         /\ TermAt(request[w], 2 * i) = request[w].quads[i][2]
<1>1. /\ request[w] \in Request /\ resolved[w] \in Seq(Nat)
      /\ Len(resolved[w]) = 2 * Len(request[w].quads)
  BY DEF TypeOK, SavesInStep
<1>2. request[w].quads \in Seq(Term \X Term)
  BY <1>1, GraphAssumption
<1>3. i \in Nat \ {0} /\ i <= Len(request[w].quads) /\ Len(request[w].quads) \in Nat
  BY <1>2
<1>4. 2 * i - 1 \in 1..Len(resolved[w]) /\ 2 * i \in 1..Len(resolved[w])
  BY <1>1, <1>3
<1>5. /\ (2 * i - 1 + 1) \div 2 = i /\ 2 - ((2 * i - 1) % 2) = 1
      /\ (2 * i + 1) \div 2 = i /\ 2 - ((2 * i) % 2) = 2
  BY <1>3
<1>6. /\ TermAt(request[w], 2 * i - 1) = request[w].quads[i][1]
      /\ TermAt(request[w], 2 * i) = request[w].quads[i][2]
  BY <1>5 DEF TermAt
<1> QED
  BY <1>1, <1>4, <1>6

LEMMA QuadsStep ==
  ASSUME GInv, ResolvedInv, QuadsAreCommitted, [Next]_vars
  PROVE  QuadsAreCommitted'
<1>0. Committed \subseteq Committed'
  BY DictionaryGrows
<1>1. CASE quads' \subseteq quads
  BY <1>0, <1>1 DEF QuadsAreCommitted
<1>2. ASSUME NEW w \in Worker, Commit(w) PROVE QuadsAreCommitted'
  <2>1. phase[w] = "written" /\ quads' = quads \cup Rows(w)
    BY <1>2 DEF Commit
  <2>2. ASSUME NEW j \in DOMAIN resolved[w] PROVE resolved[w][j] \in Committed'
    BY <1>2, <2>1, OwnIsCommitted DEF ResolvedInv
  <2>3. ASSUME NEW q \in Rows(w) PROVE q[2] \in Committed' /\ q[3] \in Committed'
    <3>1. PICK i \in DOMAIN request[w].quads :
            q = <<graph[w], resolved[w][2 * i - 1], resolved[w][2 * i]>>
      BY <2>3 DEF Rows
    <3>2. 2 * i - 1 \in DOMAIN resolved[w] /\ 2 * i \in DOMAIN resolved[w]
      BY <2>1, PairPlaces DEF GInv
    <3> QED
      BY <2>2, <3>1, <3>2
  <2>4. ASSUME NEW q \in quads PROVE q[2] \in Committed' /\ q[3] \in Committed'
    BY <1>0 DEF QuadsAreCommitted
  <2> QED
    BY <2>1, <2>3, <2>4 DEF QuadsAreCommitted
<1>3. ASSUME NEW w \in Worker, NEW r \in Request, CreateGraphVersion(w, r) PROVE quads' = quads
  BY <1>3 DEF CreateGraphVersion, Accept
<1>4. ASSUME NEW s \in Server, NEW x \in Term, NEW y \in Term, RemoveQuadEdge(s, x, y)
      PROVE  quads' \subseteq quads
  BY <1>4 DEF RemoveQuadEdge
<1> QED
  BY <1>1, <1>2, <1>3, <1>4, StepsOnQuads

LEMMA InitStoreInv == Init => StoreInv
<1> SUFFICES ASSUME Init PROVE StoreInv
  OBVIOUS
<1>1. GInv
  BY InitGInv
<1>2. GraphsInv
  BY DEF Init, GraphsInv
<1>3. ResolvedInv
  BY DEF Init, ResolvedInv
<1>4. QuadsAreCommitted
  BY DEF Init, QuadsAreCommitted
<1> QED
  BY <1>1, <1>2, <1>3, <1>4 DEF StoreInv

LEMMA StoreInvStep == StoreInv /\ [Next]_vars => StoreInv'
<1> SUFFICES ASSUME StoreInv, [Next]_vars PROVE StoreInv'
  OBVIOUS
<1>1. GInv /\ TypeOK /\ GraphsInv /\ ResolvedInv /\ QuadsAreCommitted
  BY DEF StoreInv, GInv
<1> QED
  BY <1>1, GInvStep, GraphsStep, ResolvedStep, QuadsStep DEF StoreInv

LEMMA StoreInvAlways == Spec => []StoreInv
BY InitStoreInv, StoreInvStep, PTL DEF Spec

------------------------------------------------------------------------------
(* The mapping: identifiers read through the dictionary. *)

LEMMA TheTermOf ==
  ASSUME NEW d, NEW t \in Term, NEW id, d[t] = id, \A u \in Term : d[u] = id => u = t
  PROVE  (CHOOSE u \in Term : d[u] = id) = t
OBVIOUS

LEMMA TermOfRow ==
  ASSUME GInv, NEW t \in Term, NEW id \in Nat \ {0}, dictionary[t] = id
  PROVE  TermOf(id) = t
<1>1. \A u \in Term : dictionary[u] = id => u = t
  BY NameIsUnique DEF Named
<1> QED
  BY <1>1, TheTermOf DEF TermOf

LEMMA TermOfCommitted ==
  ASSUME GInv, NEW id \in Committed
  PROVE  /\ id \in Nat \ {0} /\ TermOf(id) \in Term /\ dictionary[TermOf(id)] = id
<1>1. PICK t \in Term : dictionary[t] = id
  BY DEF Committed
<1>2. id \in Nat \ {0}
  BY <1>1 DEF Committed, GInv, TypeOK
<1> QED
  BY <1>1, <1>2, TermOfRow

(* A term that is remembered with a committed identifier has that row. *)
LEMMA NamedIsCommitted ==
  ASSUME GInv, NEW t \in Term, NEW id \in Committed, Named(t, id)
  PROVE  dictionary[t] = id
<1>1. PICK u \in Term : dictionary[u] = id
  BY DEF Committed
<1>2. id \in Nat \ {0}
  BY TermOfCommitted
<1>3. Named(u, id)
  BY <1>1 DEF Named
<1> QED
  BY <1>1, <1>2, <1>3, NameIsUnique

(* The same of the next state. *)
LEMMA TermOfRowNext ==
  ASSUME GInv', NEW t \in Term, NEW id \in Nat \ {0}, dictionary'[t] = id
  PROVE  TermOf(id)' = t
<1>1. id < nextTerm' /\ nextTerm' \in Nat
  <2>1. Named(t, id)'
    BY DEF Named
  <2> QED
    BY <2>1 DEF GInv, IdsAreIssued, TypeOK
<1>a. id \in 1..(nextTerm' - 1)
  <2>1. PICK n \in Nat : n = nextTerm'
    BY <1>1
  <2>2. id < n
    BY <1>1, <2>1
  <2>3. id \in 1..(n - 1)
    BY <2>2
  <2> QED
    BY <2>1, <2>3
<1>2. ASSUME NEW u \in Term, dictionary'[u] = id PROVE u = t
  <2>1. Named(t, id)' /\ Named(u, id)'
    BY <1>2 DEF Named
  <2> QED
    BY <1>a, <2>1 DEF GInv, IdsNameOneTerm
<1> QED
  BY <1>2, TheTermOf DEF TermOf

LEMMA TermOfStays ==
  ASSUME GInv, GInv', [Next]_vars, NEW id \in Committed
  PROVE  TermOf(id)' = TermOf(id)
<1>1. PICK t \in Term : t = TermOf(id)
  BY TermOfCommitted
<1>2. dictionary[t] = id /\ id \in Nat \ {0}
  BY <1>1, TermOfCommitted
<1>3. dictionary'[t] = id
  BY <1>2, DictionaryGrows
<1> QED
  BY <1>1, <1>2, <1>3, TermOfRowNext

(* What a commit writes are the terms of its save. *)
LEMMA WrittenTerm ==
  ASSUME StoreInv, GInv', [Next]_vars, NEW w \in Worker, Commit(w),
         NEW j \in DOMAIN resolved[w], NEW id, id = resolved[w][j]
  PROVE  TermOf(id)' = TermAt(request[w], j)
<1>0. GInv /\ ResolvedInv /\ TypeOK /\ phase[w] = "written"
  BY DEF StoreInv, GInv, Commit
<1>1. PICK t \in Term : t = TermAt(request[w], j)
  BY <1>0, ResolvedPlace
<1>2. id \in Nat \ {0} /\ Named(t, id) /\ id \in Committed'
  BY <1>0, <1>1, ResolvedPlace, OwnIsCommitted DEF ResolvedInv
<1>3. PICK u \in Term : dictionary'[u] = id
  BY <1>2 DEF Committed
<1>4. Named(t, id)' /\ Named(u, id)'
  BY <1>0, <1>2, <1>3, NamesStay DEF Named
<1>5. id \in 1..(nextTerm' - 1)
  BY <1>2, <1>4 DEF GInv, IdsAreIssued, TypeOK
<1>6. u = t
  BY <1>4, <1>5 DEF GInv, IdsNameOneTerm
<1> QED
  BY <1>1, <1>2, <1>3, <1>6, TermOfRowNext

------------------------------------------------------------------------------
(* The steps of the refinement.  Seen is what QuadStore has of a row, and  *)
(* a save's content the set of its pairs of terms.                         *)

Seen(q) == <<q[1], TermOf(q[2]), TermOf(q[3])>>
SeenStore == {Seen(q) : q \in quads}
ContentOf(r) == {r.quads[i] : i \in DOMAIN r.quads}

LEMMA SeenStays ==
  ASSUME StoreInv, GInv', [Next]_vars, NEW q \in quads
  PROVE  Seen(q)' = Seen(q)
<1>1. GInv /\ q[2] \in Committed /\ q[3] \in Committed
  BY DEF StoreInv, QuadsAreCommitted
<1>2. PICK i \in Committed, j \in Committed : i = q[2] /\ j = q[3]
  BY <1>1
<1>3. TermOf(i)' = TermOf(i) /\ TermOf(j)' = TermOf(j)
  BY <1>1, <1>2, TermOfStays
<1> QED
  BY <1>2, <1>3 DEF Seen, TermOf

(* The rows of a commit, seen after it. *)
LEMMA SeenRows ==
  ASSUME StoreInv, GInv', [Next]_vars, NEW w \in Worker, Commit(w),
         NEW g, g = graph[w], NEW r, r = request[w], NEW R, R = Rows(w)
  PROVE  {Seen(q)' : q \in R} = {<<g, p[1], p[2]>> : p \in ContentOf(r)}
<1>0. TypeOK /\ phase[w] = "written"
  BY DEF StoreInv, GInv, Commit
<1>1. ASSUME NEW i \in DOMAIN r.quads, NEW q,
             q = <<g, resolved[w][2 * i - 1], resolved[w][2 * i]>>
      PROVE  Seen(q)' = <<g, r.quads[i][1], r.quads[i][2]>>
  <2>1. /\ 2 * i - 1 \in DOMAIN resolved[w] /\ 2 * i \in DOMAIN resolved[w]
        /\ TermAt(request[w], 2 * i - 1) = r.quads[i][1]
        /\ TermAt(request[w], 2 * i) = r.quads[i][2]
    BY <1>0, PairPlaces
  <2>2. PICK a, b : a = resolved[w][2 * i - 1] /\ b = resolved[w][2 * i]
    OBVIOUS
  <2>3. TermOf(a)' = r.quads[i][1]
    BY <2>1, <2>2, WrittenTerm
  <2>4. TermOf(b)' = r.quads[i][2]
    BY <2>1, <2>2, WrittenTerm
  <2>5. q[1] = g /\ q[2] = a /\ q[3] = b
    BY <1>1, <2>2
  <2> QED
    BY <2>3, <2>4, <2>5 DEF Seen, TermOf
<1>2. R = {<<g, resolved[w][2 * i - 1], resolved[w][2 * i]>> : i \in DOMAIN r.quads}
  BY DEF Rows
<1>3. ASSUME NEW q \in R PROVE Seen(q)' \in {<<g, p[1], p[2]>> : p \in ContentOf(r)}
  <2>1. PICK i \in DOMAIN r.quads : q = <<g, resolved[w][2 * i - 1], resolved[w][2 * i]>>
    BY <1>2
  <2>2. Seen(q)' = <<g, r.quads[i][1], r.quads[i][2]>>
    BY <1>1, <2>1
  <2> QED
    BY <2>2 DEF ContentOf
<1>4. ASSUME NEW p \in ContentOf(r) PROVE <<g, p[1], p[2]>> \in {Seen(q)' : q \in R}
  <2>1. PICK i \in DOMAIN r.quads : p = r.quads[i]
    BY DEF ContentOf
  <2>2. PICK q \in R : q = <<g, resolved[w][2 * i - 1], resolved[w][2 * i]>>
    BY <1>2
  <2>3. Seen(q)' = <<g, p[1], p[2]>>
    BY <1>1, <2>1, <2>2
  <2> QED
    BY <2>3
<1> QED
  BY <1>3, <1>4

LEMMA SeenCommit ==
  ASSUME StoreInv, GInv', [Next]_vars, NEW w \in Worker, Commit(w),
         NEW g, g = graph[w], NEW r, r = request[w]
  PROVE  SeenStore' = SeenStore \cup {<<g, p[1], p[2]>> : p \in ContentOf(r)}
<1>1. PICK R : R = Rows(w)
  OBVIOUS
<1>2. quads' = quads \cup R
  BY <1>1 DEF Commit
<1>3. {Seen(q)' : q \in quads} = {Seen(q) : q \in quads}
  BY SeenStays
<1>4. {Seen(q)' : q \in R} = {<<g, p[1], p[2]>> : p \in ContentOf(r)}
  BY <1>1, SeenRows
<1>5. SeenStore' = {Seen(q)' : q \in quads} \cup {Seen(q)' : q \in R}
  BY <1>2 DEF SeenStore, Seen
<1> QED
  BY <1>3, <1>4, <1>5 DEF SeenStore

(* Where the quads stay, what is seen stays. *)
LEMMA SeenSame ==
  ASSUME StoreInv, GInv', [Next]_vars, quads' = quads
  PROVE  SeenStore' = SeenStore
<1>1. SeenStore' = {Seen(q)' : q \in quads}
  BY DEF SeenStore, Seen
<1> QED
  BY <1>1, SeenStays DEF SeenStore

LEMMA SeenRemove ==
  ASSUME StoreInv, GInv', [Next]_vars, NEW s \in Server, NEW x \in Term, NEW y \in Term,
         RemoveQuadEdge(s, x, y)
  PROVE  \/ SeenStore' = SeenStore
         \/ SeenStore' = {e \in SeenStore : ~(e[2] = x /\ e[3] = y)}
<1>0. GInv /\ QuadsAreCommitted /\ TypeOK
  BY DEF StoreInv, GInv
<1>1. PICK i, j : i = KnownID(s, x) /\ j = KnownID(s, y)
  OBVIOUS
<1>2. i # 0 /\ j # 0 /\ quads' = {q \in quads : ~(q[2] = i /\ q[3] = j)}
  BY <1>1 DEF RemoveQuadEdge
<1>3. Named(x, i) /\ Named(y, j)
  BY <1>1, <1>2 DEF KnownID, Named
<1>4. CASE i \in Committed /\ j \in Committed
  <2>1. dictionary[x] = i /\ dictionary[y] = j
    BY <1>0, <1>3, <1>4, NamedIsCommitted
  <2>2. TermOf(i) = x /\ TermOf(j) = y
    BY <1>0, <1>4, <2>1, TermOfRow, TermOfCommitted
  <2>3. ASSUME NEW q \in quads
        PROVE  q[2] = i /\ q[3] = j <=> Seen(q)[2] = x /\ Seen(q)[3] = y
    <3>1. PICK a \in Committed, b \in Committed : a = q[2] /\ b = q[3]
      BY <1>0 DEF QuadsAreCommitted
    <3>2. dictionary[TermOf(a)] = a /\ dictionary[TermOf(b)] = b
      BY <1>0, TermOfCommitted
    <3>3. Seen(q)[2] = TermOf(a) /\ Seen(q)[3] = TermOf(b)
      BY <3>1 DEF Seen
    <3> QED
      BY <2>1, <2>2, <3>1, <3>2, <3>3
  <2>4. SeenStore' = {Seen(q)' : q \in quads'}
    BY DEF SeenStore, Seen
  <2>5. SeenStore' = {Seen(q) : q \in quads'}
    BY <1>2, <2>4, SeenStays
  <2> QED
    BY <1>2, <2>3, <2>5 DEF SeenStore
<1>5. CASE ~(i \in Committed /\ j \in Committed)
  <2>1. quads' = quads
    BY <1>0, <1>2, <1>5 DEF QuadsAreCommitted
  <2> QED
    BY <2>1, SeenSame
<1> QED
  BY <1>4, <1>5

LEMMA QuadStoreStep ==
  ASSUME StoreInv, StoreInv', [Next]_vars
  PROVE  [Quads!Next]_(Quads!vars)
<1>0. GInv /\ GInv' /\ GraphsInv /\ TypeOK
  BY DEF StoreInv, GInv
<1>a. SeenStore = {<<q[1], TermOf(q[2]), TermOf(q[3])>> : q \in quads}
  BY DEF SeenStore, Seen
<1>1. CASE UNCHANGED <<quads, graphs, dictionary>>
  <2>1. SeenStore' = SeenStore
    BY <1>0, <1>1, SeenSame
  <2>2. UNCHANGED Quads!vars
    BY <1>1, <2>1 DEF Quads!vars, SeenStore, Seen
  <2> QED
    BY <2>2
<1>2. ASSUME NEW w \in Worker, NEW r \in Request, CreateGraphVersion(w, r)
      PROVE  Quads!Next
  <2>1. PICK g : g = nextGraph
    OBVIOUS
  <2>2. /\ graphs' = graphs \cup {g} /\ quads' = quads /\ saves < MaxSaves
    BY <1>2, <2>1 DEF CreateGraphVersion, Accept
  <2>3. g \notin graphs /\ g \in 1..MaxSaves
    BY <1>0, <2>1, <2>2, GraphAssumption DEF GraphsInv, TypeOK
  <2>4. SeenStore' = SeenStore
    BY <1>0, <2>2, SeenSame
  <2>5. Quads!Create(g)
    BY <2>2, <2>3, <2>4 DEF Quads!Create, SeenStore, Seen
  <2> QED
    BY <2>3, <2>5 DEF Quads!Next
<1>3. ASSUME NEW w \in Worker, Commit(w) PROVE Quads!Next
  <2>1. PICK g, r, C : g = graph[w] /\ r = request[w] /\ C = ContentOf(r)
    OBVIOUS
  <2>2. /\ phase[w] = "written"
        /\ graphs' = IF r.kind = "version" THEN graphs \cup {g} ELSE graphs
    BY <1>3, <2>1 DEF Commit
  <2>3. SeenStore' = SeenStore \cup {<<g, p[1], p[2]>> : p \in C}
    BY <1>0, <1>3, <2>1, SeenCommit
  <2>4. r \in Request /\ r.kind \in Kinds
    BY <1>0, <2>1, GraphAssumption DEF TypeOK
  <2>5. r.kind # "edge"
    BY <1>0, <2>1, <2>2 DEF GraphsInv
  <2>6. CASE r.kind = "version"
    <3>1. g \in 1..(nextGraph - 1) /\ g \notin graphs /\ graphs' = graphs \cup {g}
      BY <1>0, <2>1, <2>2, <2>6 DEF GraphsInv
    <3>2. g \in 1..MaxSaves
      BY <1>0, <3>1, GraphAssumption DEF GraphsInv, TypeOK
    <3>3. C \in Content("version")
      BY <2>1, <2>4, <2>6 DEF Content, ContentOf
    <3>4. Quads!Save(g, C)
      BY <2>3, <3>1 DEF Quads!Save, Quads!In, SeenStore, Seen
    <3> QED
      BY <3>2, <3>3, <3>4 DEF Quads!Next
  <2>7. CASE r.kind = "given"
    <3>1. g \in graphs /\ graphs' = graphs
      BY <1>0, <2>1, <2>2, <2>7 DEF GraphsInv
    <3>2. g \in 1..MaxSaves
      BY <1>0, <3>1, GraphAssumption DEF GraphsInv, TypeOK
    <3>3. C \in Content("given")
      BY <2>1, <2>4, <2>7 DEF Content, ContentOf
    <3>4. Quads!Add(g, C)
      BY <2>3, <3>1 DEF Quads!Add, Quads!In, SeenStore, Seen
    <3> QED
      BY <3>2, <3>3, <3>4 DEF Quads!Next
  <2> QED
    BY <2>4, <2>5, <2>6, <2>7 DEF Kinds
<1>4. ASSUME NEW s \in Server, NEW x \in Term, NEW y \in Term, RemoveQuadEdge(s, x, y)
      PROVE  [Quads!Next]_(Quads!vars)
  <2>1. graphs' = graphs
    BY <1>4 DEF RemoveQuadEdge
  <2>2. CASE SeenStore' = SeenStore
    BY <2>1, <2>2 DEF Quads!vars, SeenStore, Seen
  <2>3. CASE SeenStore' = {e \in SeenStore : ~(e[2] = x /\ e[3] = y)}
    <3>1. Quads!Remove(x, y)
      BY <2>1, <2>3 DEF Quads!Remove, SeenStore, Seen
    <3> QED
      BY <3>1 DEF Quads!Next
  <2> QED
    BY <1>0, <1>4, <2>2, <2>3, SeenRemove
<1> QED
  BY <1>1, <1>2, <1>3, <1>4, StepsOnQuads

LEMMA QuadStoreInit == Init => Quads!Init
BY DEF Init, Quads!Init

(* Read through the dictionary, the tables implement QuadStore: a version  *)
(* appears whole with the commit, quads only join a graph that exists, and *)
(* an edge is removed from every graph at once, whatever the caches of the *)
(* servers remember of rows that were rolled back (postgres.go,            *)
(* SaveGraphVersion, saveQuadIDs, RemoveQuadEdge).                         *)
THEOREM RefinesQuadStore == Spec => ImplementsQuadStore
<1>1. StoreInv /\ StoreInv' /\ [Next]_vars => [Quads!Next]_(Quads!vars)
  BY QuadStoreStep
<1> QED
  BY <1>1, QuadStoreInit, StoreInvAlways, PTL DEF Spec, ImplementsQuadStore, Quads!Spec
=============================================================================
