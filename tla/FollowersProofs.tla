--------------------------- MODULE FollowersProofs ---------------------------
(***************************************************************************)
(* Proofs about Followers, for any processes, workers, actors, changes,    *)
(* lists and faults.  The first section says what the frequent forms of a  *)
(* step do to the record of a worker; the later ones prove one invariant   *)
(* each, from those before it, action by action.                           *)
(***************************************************************************)
EXTENDS Followers, TLAPS

RunTyped == run \in [Worker -> RunState]
Others(w) == \A v \in Worker : v # w => run'[v] = run[v]

(* The worker's record keeps its task, its key and its list. *)
Same(w) ==
  /\ run'[w].kind = run[w].kind /\ run'[w].edge = run[w].edge
  /\ run'[w].key = run[w].key /\ run'[w].list = run[w].list

------------------------------------------------------------------------------
(* The forms of a step. *)

LEMMA IdleTyped == Idle \in RunState /\ Idle.stage = "idle"
BY FollowersAssumption DEF Idle, RunState, Stage, NoDigest, Digest, Pair, Key

LEMMA PutEffect ==
  ASSUME RunTyped, NEW w \in Worker, NEW x \in RunState, run' = [run EXCEPT ![w] = x]
  PROVE  RunTyped' /\ run'[w] = x /\ Others(w)
BY DEF RunTyped, Others

LEMMA GotoEffect ==
  ASSUME RunTyped, NEW w \in Worker, NEW s \in Stage, Goto(w, s)
  PROVE  /\ RunTyped' /\ Others(w) /\ run'[w].stage = s
         /\ Same(w) /\ run'[w].add = run[w].add /\ run'[w].del = run[w].del
<1>1. PICK d \in RunState : d = run[w]
  BY DEF RunTyped
<1>2. PICK c : c = [d EXCEPT !.stage = s]
  OBVIOUS
<1>3. c \in RunState
  BY <1>2 DEF RunState
<1>4. c.stage = s /\ c.kind = d.kind /\ c.edge = d.edge /\ c.key = d.key
      /\ c.list = d.list /\ c.add = d.add /\ c.del = d.del
  BY <1>2 DEF RunState
<1>5. run' = [run EXCEPT ![w] = c]
  BY <1>1, <1>2 DEF Goto
<1>6. RunTyped' /\ run'[w] = c /\ Others(w)
  BY <1>3, <1>5, PutEffect
<1> QED
  BY <1>1, <1>4, <1>6 DEF Same

LEMMA FinishEffect ==
  ASSUME TypeOK, NEW w \in Worker, Finish(w)
  PROVE  /\ RunTyped' /\ Others(w) /\ run'[w] = Idle /\ run'[w].stage = "idle"
         /\ moved' \in [Worker -> SUBSET Pair] /\ excused' \in [Process -> SUBSET Key]
         /\ moved'[w] = {} /\ \A v \in Worker : v # w => moved'[v] = moved[v]
         /\ \A p \in Process : excused[p] \subseteq excused'[p]
         /\ \A k \in Key : Pending(w, k) /\ cache[Home[w]][k].some => k \in excused'[Home[w]]
<1>1. RunTyped /\ run' = [run EXCEPT ![w] = Idle]
  BY DEF TypeOK, RunTyped, Finish
<1>2. RunTyped' /\ run'[w] = Idle /\ Others(w)
  BY <1>1, IdleTyped, PutEffect
<1>3. PICK S \in SUBSET Key : S = {k \in Key : Pending(w, k) /\ cache[Home[w]][k].some}
  OBVIOUS
<1>4. excused' = [excused EXCEPT ![Home[w]] = @ \cup S]
  BY <1>3 DEF Finish
<1>5. Home[w] \in Process /\ excused \in [Process -> SUBSET Key]
  BY FollowersAssumption DEF TypeOK
<1>6. moved \in [Worker -> SUBSET Pair] /\ moved' = [moved EXCEPT ![w] = {}]
  BY DEF TypeOK, Finish
<1> QED
  BY <1>2, <1>3, <1>4, <1>5, <1>6, IdleTyped

LEMMA WriteEffect ==
  ASSUME TypeOK, NEW w \in Worker, NEW e \in Pair, NEW there \in BOOLEAN, NEW l, Write(w, e, there, l)
  PROVE  /\ edge' \subseteq Pair
         /\ moved' \in [Worker -> SUBSET Pair] /\ excused' \in [Process -> SUBSET Key]
         /\ \A d \in Pair : d # e => (d \in edge' <=> d \in edge)
         /\ there => e \in edge'
         /\ ~ there => e \notin edge'
         /\ \A v \in Worker : moved[v] \subseteq moved'[v]
         /\ \A v \in Worker : v # w /\ Holding(v) => e \in moved'[v]
         /\ \A p \in Process : excused[p] \subseteq excused'[p]
         /\ \A p \in Process : (p # Home[w] \/ KeyOf(e) # l) /\ cache[p][KeyOf(e)].some =>
              KeyOf(e) \in excused'[p]
<1>1. KeyOf(e) \in Key
  BY FollowersAssumption DEF KeyOf, Key, Pair
<1> QED
  BY <1>1 DEF Write, TypeOK

LEMMA EvictEffect ==
  ASSUME TypeOK, NEW w \in Worker, NEW k \in Key, EvictFollowersDigest(w, k)
  PROVE  /\ RunTyped' /\ Others(w) /\ run'[w] = Idle /\ run'[w].stage = "idle"
         /\ moved' \in [Worker -> SUBSET Pair] /\ excused' \in [Process -> SUBSET Key]
         /\ cache' \in [Process -> [Key -> Digest]]
         /\ moved'[w] = {} /\ \A v \in Worker : v # w => moved'[v] = moved[v]
         /\ cache'[Home[w]][k] = NoDigest
         /\ \A p \in Process : \A l \in Key : p # Home[w] \/ l # k =>
              cache'[p][l] = cache[p][l] /\ (l \in excused'[p] <=> l \in excused[p])
<1>1. RunTyped /\ run' = [run EXCEPT ![w] = Idle]
  BY DEF TypeOK, RunTyped, EvictFollowersDigest
<1>2. RunTyped' /\ run'[w] = Idle /\ Others(w)
  BY <1>1, IdleTyped, PutEffect
<1>3. Home[w] \in Process /\ NoDigest \in Digest
  BY FollowersAssumption DEF NoDigest, Digest
<1> QED
  BY <1>2, <1>3, IdleTyped DEF TypeOK, EvictFollowersDigest

LEMMA CompareEffect ==
  ASSUME TypeOK, NEW w \in Worker, NEW d, Compare(w, d)
  PROVE  /\ RunTyped' /\ Others(w) /\ run'[w].stage \in {"idle", "fetch"}
         /\ run'[w].stage = "fetch" => run'[w].key = run[w].key
         /\ moved' \in [Worker -> SUBSET Pair]
         /\ moved'[w] = {} /\ \A v \in Worker : v # w => moved'[v] = moved[v]
<1>1. PICK c : c = [Idle EXCEPT !.stage = "fetch", !.key = run[w].key]
  OBVIOUS
<1>2. run[w].key \in Key
  BY DEF TypeOK, RunState
<1>3. c \in RunState /\ c.stage = "fetch" /\ c.key = run[w].key
  BY <1>1, <1>2, IdleTyped DEF RunState, Stage
<1>4. PICK x : x = IF d = run[w].expected THEN Idle ELSE c
  OBVIOUS
<1>5. x \in RunState /\ x.stage \in {"idle", "fetch"} /\ (x.stage = "fetch" => x.key = run[w].key)
  BY <1>3, <1>4, IdleTyped
<1>6. run' = [run EXCEPT ![w] = x] /\ moved' = [moved EXCEPT ![w] = {}]
  BY <1>1, <1>4 DEF Compare
<1>7. RunTyped' /\ run'[w] = x /\ Others(w)
  BY <1>5, <1>6, PutEffect DEF TypeOK, RunTyped
<1> QED
  BY <1>5, <1>6, <1>7 DEF TypeOK

LEMMA TakeEffect ==
  ASSUME TypeOK, NEW w \in Worker, NEW c \in Change, Take(w, c)
  PROVE  /\ RunTyped' /\ Others(w) /\ run'[w].kind = c.kind /\ run'[w].edge = c.edge
         /\ c.kind \in {"accept", "reject"} => run'[w].stage = "dispatch"
         /\ c.kind \notin {"accept", "reject"} => run'[w].stage = "edge"
<1>1. PICK s : s = IF c.kind \in {"accept", "reject"} THEN "dispatch" ELSE "edge"
  OBVIOUS
<1>2. PICK x : x = [Idle EXCEPT !.stage = s, !.kind = c.kind, !.edge = c.edge]
  OBVIOUS
<1>3. c.kind \in {"accept", "reject", "join", "leave"} /\ c.edge \in Pair
  BY FollowersAssumption DEF ChangeType
<1>4. x \in RunState
  BY <1>1, <1>2, <1>3, IdleTyped DEF RunState, Stage
<1>5. x.stage = s /\ x.kind = c.kind /\ x.edge = c.edge
  BY <1>2, IdleTyped DEF RunState
<1>6. run' = [run EXCEPT ![w] = x]
  BY <1>1, <1>2 DEF Take
<1>7. RunTyped' /\ run'[w] = x /\ Others(w)
  BY <1>4, <1>6, PutEffect DEF TypeOK, RunTyped
<1> QED
  BY <1>1, <1>5, <1>7

LEMMA TakeSyncEffect ==
  ASSUME TypeOK, NEW w \in Worker, NEW h \in header, TakeSync(w, h)
  PROVE  /\ RunTyped' /\ Others(w)
         /\ run'[w].stage = "lookup" /\ run'[w].key = h.call /\ h.call \in Call
<1>1. h.call \in Call /\ h.digest \in Digest /\ h.call \in Key
  BY FollowersAssumption DEF TypeOK, Header, Key
<1>2. PICK x : x = [Idle EXCEPT !.stage = "lookup", !.key = h.call, !.expected = h.digest]
  OBVIOUS
<1>3. x \in RunState /\ x.stage = "lookup" /\ x.key = h.call
  BY <1>1, <1>2, IdleTyped DEF RunState, Stage
<1>4. run' = [run EXCEPT ![w] = x]
  BY <1>2 DEF TakeSync
<1>5. RunTyped' /\ run'[w] = x /\ Others(w)
  BY <1>3, <1>4, PutEffect DEF TypeOK, RunTyped
<1> QED
  BY <1>1, <1>3, <1>5

LEMMA DigestTyped ==
  ASSUME TypeOK, NEW k \in Key
  PROVE  Current(k) \in Digest
<1>1. Partial(k) \subseteq Actor
  BY DEF Partial
<1>2. PICK n \in Nat : n = IF DomainOf[k[1]] = k[2] THEN versions[k[1]] ELSE 0
  BY DEF Key, TypeOK
<1>3. Current(k) = [some |-> Partial(k) # {} \/ n > 0, own |-> n % 2 = 1, of |-> Partial(k)]
  BY <1>2 DEF Current, ComputeFollowersDigest
<1> QED
  BY <1>1, <1>3 DEF Digest

(* Compute, when the edges could be read. *)
LEMMA ComputeEffect ==
  ASSUME TypeOK, NEW w \in Worker,
         run' = [run EXCEPT ![w].stage = "fill", ![w].digest = Current(run[w].key)]
  PROVE  /\ RunTyped' /\ Others(w) /\ run'[w].stage = "fill"
         /\ run'[w].key = run[w].key /\ run'[w].digest = Current(run[w].key)
<1>1. PICK d \in RunState : d = run[w]
  BY DEF TypeOK
<1>2. PICK g : g = Current(run[w].key)
  OBVIOUS
<1>3. g \in Digest
  BY <1>1, <1>2, DigestTyped DEF RunState
<1>4. PICK c : c = [d EXCEPT !.stage = "fill", !.digest = g]
  OBVIOUS
<1>5. c \in RunState
  BY <1>3, <1>4 DEF RunState, Stage
<1>6. c.stage = "fill" /\ c.digest = g /\ c.key = d.key
  BY <1>4 DEF RunState
<1>7. run' = [run EXCEPT ![w] = c]
  BY <1>1, <1>2, <1>4
<1>8. RunTyped' /\ run'[w] = c /\ Others(w)
  BY <1>5, <1>7, PutEffect DEF TypeOK, RunTyped
<1> QED
  BY <1>1, <1>2, <1>6, <1>8

(* Fetch, when the list has come. *)
LEMMA FetchEffect ==
  ASSUME TypeOK, NEW w \in Worker, NEW l \in SUBSET Actor,
         run' = [run EXCEPT ![w].stage = "read", ![w].list = l]
  PROVE  /\ RunTyped' /\ Others(w) /\ run'[w].stage = "read"
         /\ run'[w].key = run[w].key /\ run'[w].list = l
<1>1. PICK d \in RunState : d = run[w]
  BY DEF TypeOK
<1>2. PICK c : c = [d EXCEPT !.stage = "read", !.list = l]
  OBVIOUS
<1>3. c \in RunState
  BY <1>2 DEF RunState, Stage
<1>4. c.stage = "read" /\ c.list = l /\ c.key = d.key
  BY <1>2 DEF RunState
<1>5. run' = [run EXCEPT ![w] = c]
  BY <1>1, <1>2
<1>6. RunTyped' /\ run'[w] = c /\ Others(w)
  BY <1>3, <1>5, PutEffect DEF TypeOK, RunTyped
<1> QED
  BY <1>1, <1>4, <1>6

(* Read, when the local side could be read. *)
LEMMA ReadEffect ==
  ASSUME TypeOK, NEW w \in Worker, NEW mine \in SUBSET Actor,
         run' = [run EXCEPT ![w].stage = "reconcile", ![w].add = run[w].list \ mine,
                            ![w].del = mine \ run[w].list]
  PROVE  /\ RunTyped' /\ Others(w) /\ run'[w].stage = "reconcile"
         /\ run'[w].key = run[w].key /\ run'[w].list = run[w].list
         /\ run'[w].add = run[w].list \ mine /\ run'[w].del = mine \ run[w].list
<1>1. PICK d \in RunState : d = run[w]
  BY DEF TypeOK
<1>2. PICK a \in SUBSET Actor : a = d.list \ mine
  BY DEF RunState
<1>3. PICK b \in SUBSET Actor : b = mine \ d.list
  BY DEF RunState
<1>4. PICK c : c = [d EXCEPT !.stage = "reconcile", !.add = a, !.del = b]
  OBVIOUS
<1>5. c \in RunState
  BY <1>4 DEF RunState, Stage
<1>6. c.stage = "reconcile" /\ c.add = a /\ c.del = b /\ c.key = d.key /\ c.list = d.list
  BY <1>4 DEF RunState
<1>7. run' = [run EXCEPT ![w] = c]
  BY <1>1, <1>2, <1>3, <1>4
<1>8. RunTyped' /\ run'[w] = c /\ Others(w)
  BY <1>5, <1>7, PutEffect DEF TypeOK, RunTyped
<1> QED
  BY <1>1, <1>2, <1>3, <1>6, <1>8

(* Reconcile, when one edge was added.  *)
LEMMA AddEffect ==
  ASSUME TypeOK, NEW w \in Worker, NEW f \in Actor, run' = [run EXCEPT ![w].add = @ \ {f}]
  PROVE  /\ RunTyped' /\ Others(w) /\ run'[w].stage = run[w].stage /\ Same(w)
         /\ run'[w].add = run[w].add \ {f} /\ run'[w].del = run[w].del
<1>1. PICK d \in RunState : d = run[w]
  BY DEF TypeOK
<1>2. PICK a \in SUBSET Actor : a = d.add \ {f}
  BY DEF RunState
<1>3. PICK c : c = [d EXCEPT !.add = a]
  OBVIOUS
<1>4. /\ c \in RunState /\ c.stage = d.stage /\ c.kind = d.kind /\ c.edge = d.edge
      /\ c.key = d.key /\ c.list = d.list /\ c.add = a /\ c.del = d.del
  BY <1>2, <1>3 DEF RunState
<1>5. run' = [run EXCEPT ![w] = c]
  BY <1>1, <1>2, <1>3
<1>6. RunTyped' /\ run'[w] = c /\ Others(w)
  BY <1>4, <1>5, PutEffect DEF TypeOK, RunTyped
<1> QED
  BY <1>1, <1>2, <1>4, <1>6 DEF Same

(* Reconcile, when one edge was removed.  *)
LEMMA DelEffect ==
  ASSUME TypeOK, NEW w \in Worker, NEW f \in Actor, run' = [run EXCEPT ![w].del = @ \ {f}]
  PROVE  /\ RunTyped' /\ Others(w) /\ run'[w].stage = run[w].stage /\ Same(w)
         /\ run'[w].del = run[w].del \ {f} /\ run'[w].add = run[w].add
<1>1. PICK d \in RunState : d = run[w]
  BY DEF TypeOK
<1>2. PICK a \in SUBSET Actor : a = d.del \ {f}
  BY DEF RunState
<1>3. PICK c : c = [d EXCEPT !.del = a]
  OBVIOUS
<1>4. /\ c \in RunState /\ c.stage = d.stage /\ c.kind = d.kind /\ c.edge = d.edge
      /\ c.key = d.key /\ c.list = d.list /\ c.del = a /\ c.add = d.add
  BY <1>2, <1>3 DEF RunState
<1>5. run' = [run EXCEPT ![w] = c]
  BY <1>1, <1>2, <1>3
<1>6. RunTyped' /\ run'[w] = c /\ Others(w)
  BY <1>4, <1>5, PutEffect DEF TypeOK, RunTyped
<1> QED
  BY <1>1, <1>2, <1>4, <1>6 DEF Same

------------------------------------------------------------------------------
(* Typing, and what is known of a task at each of its steps. *)

Asked == {"dispatch", "state", "edge", "evict"}
Syncing == {"lookup", "compute", "fill", "fetch", "read", "reconcile", "clear"}
Listed == {"read", "reconcile", "clear"}

Tasks ==
  \A w \in Worker :
    /\ run[w].stage \in {"dispatch", "state"} => run[w].kind \in {"accept", "reject"}
    /\ run[w].stage = "edge" => run[w].kind \in {"accept", "join", "leave"}
    /\ run[w].stage \in Asked => Task(w) \in Change
    /\ run[w].stage \in Syncing => run[w].key \in Call
    /\ run[w].stage \in Listed => ~ Remote(run[w].key[1])
    /\ run[w].stage = "state" => Task(w) \in told
    /\ run[w].stage = "edge" /\ run[w].kind = "accept" => Task(w) \in told

Typed == TypeOK /\ Tasks

LEMMA RestTyped ==
  ASSUME TypeOK, UNCHANGED around
  PROVE  /\ theirs' \in [Call -> SUBSET Actor] /\ header' \subseteq Header
         /\ forgets' \in 0..MaxForget /\ versions' \in [Actor -> Nat]
BY DEF TypeOK, around

LEMMA FaultsTyped ==
  ASSUME TypeOK, Faulty \/ UNCHANGED faults
  PROVE  faults' \in 0..MaxFaults
BY FollowersAssumption DEF TypeOK, Faulty

(* Others' tasks stay as they were. *)
LEMMA TasksOfOne ==
  ASSUME Tasks, NEW w \in Worker, Others(w), told \subseteq told',
         /\ run'[w].stage \in {"dispatch", "state"} => run'[w].kind \in {"accept", "reject"}
         /\ run'[w].stage = "edge" => run'[w].kind \in {"accept", "join", "leave"}
         /\ run'[w].stage \in Asked => Task(w)' \in Change
         /\ run'[w].stage \in Syncing => run'[w].key \in Call
         /\ run'[w].stage \in Listed => ~ Remote(run'[w].key[1])
         /\ run'[w].stage = "state" => Task(w)' \in told'
         /\ run'[w].stage = "edge" /\ run'[w].kind = "accept" => Task(w)' \in told'
  PROVE  Tasks'
<1>1. \A v \in Worker : v # w => Task(v)' = Task(v)
  BY DEF Task, Others
<1> QED
  BY <1>1 DEF Tasks, Others

LEMMA FinishTyped ==
  ASSUME Typed, NEW w \in Worker, Finish(w), told \subseteq told'
  PROVE  /\ RunTyped' /\ Tasks' /\ moved' \in [Worker -> SUBSET Pair]
         /\ excused' \in [Process -> SUBSET Key]
<1>1. /\ RunTyped' /\ Others(w) /\ run'[w].stage = "idle"
      /\ moved' \in [Worker -> SUBSET Pair] /\ excused' \in [Process -> SUBSET Key]
  BY FinishEffect DEF Typed
<1> QED
  BY <1>1, TasksOfOne DEF Typed, Asked, Syncing, Listed

LEMMA CompareTyped ==
  ASSUME Typed, NEW w \in Worker, NEW d, Compare(w, d), run[w].key \in Call, told' = told
  PROVE  RunTyped' /\ Tasks' /\ moved' \in [Worker -> SUBSET Pair]
<1>1. /\ RunTyped' /\ Others(w) /\ run'[w].stage \in {"idle", "fetch"}
      /\ run'[w].stage = "fetch" => run'[w].key = run[w].key
      /\ moved' \in [Worker -> SUBSET Pair]
  BY CompareEffect DEF Typed
<1> QED
  BY <1>1, TasksOfOne DEF Typed, Asked, Syncing, Listed

LEMMA EvictTyped ==
  ASSUME Typed, NEW w \in Worker, NEW k \in Key, EvictFollowersDigest(w, k),
         UNCHANGED <<edge, state, told, around, faults>>
  PROVE  Typed'
<1>1. /\ RunTyped' /\ Others(w) /\ run'[w].stage = "idle"
      /\ moved' \in [Worker -> SUBSET Pair] /\ excused' \in [Process -> SUBSET Key]
      /\ cache' \in [Process -> [Key -> Digest]]
  BY EvictEffect DEF Typed
<1>2. Tasks'
  BY <1>1, TasksOfOne DEF Typed, Asked, Syncing, Listed
<1> QED
  BY <1>1, <1>2, RestTyped, FaultsTyped DEF Typed, TypeOK, RunTyped

LEMMA InitTyped == Init => Typed
<1>1. Init => RunTyped /\ \A w \in Worker : run[w].stage = "idle"
  BY IdleTyped DEF Init, RunTyped
<1>2. Init => Tasks
  BY <1>1 DEF Tasks, Asked, Syncing, Listed
<1>3. Init => TypeOK
  BY <1>1, FollowersAssumption DEF Init, TypeOK, RunTyped, NoDigest, Digest
<1> QED
  BY <1>2, <1>3 DEF Typed

LEMMA TakeTyped ==
  ASSUME Typed, NEW w \in Worker, NEW c \in Change, Take(w, c)
  PROVE  Typed'
<1>1. /\ RunTyped' /\ Others(w) /\ run'[w].kind = c.kind /\ run'[w].edge = c.edge
      /\ c.kind \in {"accept", "reject"} => run'[w].stage = "dispatch"
      /\ c.kind \notin {"accept", "reject"} => run'[w].stage = "edge"
  BY TakeEffect DEF Typed
<1>2. UNCHANGED <<edge, state, told, around, cache, moved, excused, faults>>
  BY DEF Take
<1>3. c.kind \in {"accept", "reject", "join", "leave"} /\ c = [kind |-> c.kind, edge |-> c.edge]
  BY FollowersAssumption DEF ChangeType
<1>4. Task(w)' = c
  BY <1>1, <1>3 DEF Task
<1>5. Tasks'
  BY <1>1, <1>2, <1>3, <1>4, TasksOfOne DEF Typed, Asked, Syncing, Listed
<1> QED
  BY <1>1, <1>2, <1>5, RestTyped DEF Typed, TypeOK, RunTyped

LEMMA ToldTyped ==
  ASSUME TypeOK, NEW c \in Change, Told(c)
  PROVE  /\ told' \subseteq Change /\ theirs' \in [Call -> SUBSET Actor]
         /\ told \subseteq told' /\ c \in told'
<1>1. c.edge[2] \in Actor
  BY FollowersAssumption DEF ChangeType, Pair
<1>2. told' = told \cup {c} /\ c \in told'
  BY DEF Told
<1> QED
  BY <1>1, <1>2 DEF Told, TypeOK

LEMMA DispatchTyped ==
  ASSUME Typed, NEW w \in Worker, Dispatch(w)
  PROVE  Typed'
<1>1. Task(w) \in Change /\ run[w].kind \in {"accept", "reject"}
  BY DEF Dispatch, Typed, Tasks, At, Asked
<1>2. UNCHANGED <<edge, state, header, forgets, versions, cache>> /\ (Faulty \/ UNCHANGED faults)
  BY DEF Dispatch
<1>3. /\ told' \subseteq Change /\ theirs' \in [Call -> SUBSET Actor] /\ told \subseteq told'
  BY <1>1, ToldTyped DEF Dispatch, Typed, TypeOK
<1>4. /\ RunTyped' /\ Tasks' /\ moved' \in [Worker -> SUBSET Pair]
      /\ excused' \in [Process -> SUBSET Key]
  <2>1. CASE Finish(w)
    BY <1>3, <2>1, FinishTyped
  <2>2. CASE Told(Task(w)) /\ Goto(w, "state") /\ UNCHANGED <<moved, excused, faults>>
    <3>1. RunTyped' /\ Others(w) /\ run'[w].stage = "state" /\ Same(w)
      BY <2>2, GotoEffect DEF Typed, TypeOK, RunTyped, Stage
    <3>2. Task(w)' = Task(w) /\ Task(w) \in told'
      BY <1>1, <2>2, <3>1, ToldTyped DEF Task, Same, Typed
    <3>3. Tasks'
      BY <1>1, <1>3, <3>1, <3>2, TasksOfOne DEF Typed, Same, Asked, Syncing, Listed
    <3> QED
      BY <2>2, <3>1, <3>3 DEF Typed, TypeOK
  <2> QED
    BY <2>1, <2>2 DEF Dispatch
<1>5. faults' \in 0..MaxFaults
  BY <1>2, FaultsTyped DEF Typed
<1> QED
  BY <1>2, <1>3, <1>4, <1>5 DEF Typed, TypeOK, RunTyped

LEMMA SaveStateTyped ==
  ASSUME Typed, NEW w \in Worker, SaveState(w)
  PROVE  Typed'
<1>1. /\ run[w].stage = "state" /\ Task(w) \in Change /\ Task(w) \in told
      /\ run[w].kind \in {"accept", "reject"}
  BY DEF SaveState, Typed, Tasks, At, Asked
<1>2. UNCHANGED <<edge, told, around, cache, faults>>
  BY DEF SaveState
<1>3. /\ RunTyped' /\ Tasks' /\ moved' \in [Worker -> SUBSET Pair]
      /\ excused' \in [Process -> SUBSET Key]
  <2>1. CASE Finish(w)
    BY <1>2, <2>1, FinishTyped
  <2>2. CASE Goto(w, IF run[w].kind = "accept" THEN "edge" ELSE "evict") /\ UNCHANGED <<moved, excused>>
    <3>1. PICK s \in Stage : s = IF run[w].kind = "accept" THEN "edge" ELSE "evict"
      BY DEF Stage
    <3>2. RunTyped' /\ Others(w) /\ run'[w].stage = s /\ Same(w)
      BY <2>2, <3>1, GotoEffect DEF Typed, TypeOK, RunTyped
    <3>3. Task(w)' = Task(w)
      BY <3>2 DEF Task, Same
    <3>4. Tasks'
      BY <1>1, <1>2, <3>1, <3>2, <3>3, TasksOfOne DEF Typed, Same, Asked, Syncing, Listed
    <3> QED
      BY <2>2, <3>2, <3>4 DEF Typed, TypeOK
  <2> QED
    BY <2>1, <2>2 DEF SaveState
<1>4. state' \subseteq Change
  BY <1>1 DEF SaveState, Typed, TypeOK
<1> QED
  BY <1>2, <1>3, <1>4, RestTyped DEF Typed, TypeOK, RunTyped

LEMMA EdgeOfTask ==
  ASSUME Typed, NEW w \in Worker, run[w].stage \in Asked
  PROVE  run[w].edge \in Pair /\ KeyOf(run[w].edge) \in Key
BY FollowersAssumption DEF Typed, TypeOK, RunState, KeyOf, Key, Pair

LEMMA SaveEdgeTyped ==
  ASSUME Typed, NEW w \in Worker, SaveEdge(w)
  PROVE  Typed'
<1>1. Task(w) \in Change /\ run[w].edge \in Pair
  BY EdgeOfTask DEF SaveEdge, Typed, Tasks, At, Asked
<1>2. UNCHANGED <<state, told, around, cache>> /\ (Faulty \/ UNCHANGED faults)
  BY DEF SaveEdge
<1>3. /\ RunTyped' /\ Tasks' /\ moved' \in [Worker -> SUBSET Pair]
      /\ excused' \in [Process -> SUBSET Key] /\ edge' \subseteq Pair
  <2>1. CASE Finish(w) /\ UNCHANGED edge
    BY <1>2, <2>1, FinishTyped DEF Typed, TypeOK
  <2>2. CASE Write(w, run[w].edge, run[w].kind # "leave", KeyOf(run[w].edge))
           /\ Goto(w, "evict")
    <3>1. RunTyped' /\ Others(w) /\ run'[w].stage = "evict" /\ Same(w)
      BY <2>2, GotoEffect DEF Typed, TypeOK, RunTyped, Stage
    <3>2. Task(w)' = Task(w)
      BY <3>1 DEF Task, Same
    <3>3. Tasks'
      BY <1>1, <1>2, <3>1, <3>2, TasksOfOne DEF Typed, Asked, Syncing, Listed
    <3>4. PICK b \in BOOLEAN : b = (run[w].kind # "leave")
      OBVIOUS
    <3>5. edge' \subseteq Pair /\ moved' \in [Worker -> SUBSET Pair] /\ excused' \in [Process -> SUBSET Key]
      BY <1>1, <2>2, <3>4, WriteEffect DEF Typed
    <3> QED
      BY <3>1, <3>3, <3>5
  <2> QED
    BY <2>1, <2>2 DEF SaveEdge
<1>4. faults' \in 0..MaxFaults
  BY <1>2, FaultsTyped DEF Typed
<1> QED
  BY <1>2, <1>3, <1>4, RestTyped DEF Typed, TypeOK, RunTyped

LEMMA TakeSyncTyped ==
  ASSUME Typed, NEW w \in Worker, NEW h \in header, TakeSync(w, h)
  PROVE  Typed'
<1>1. RunTyped' /\ Others(w) /\ run'[w].stage = "lookup" /\ run'[w].key \in Call
  BY TakeSyncEffect DEF Typed
<1>2. UNCHANGED <<edge, state, told, around, cache, moved, excused, faults>>
  BY DEF TakeSync
<1>3. Tasks'
  BY <1>1, <1>2, TasksOfOne DEF Typed, Asked, Syncing, Listed
<1> QED
  BY <1>1, <1>2, <1>3, RestTyped DEF Typed, TypeOK, RunTyped

(* A step of SyncFollowers that only moves its own worker on. *)
LEMMA SyncStepTyped ==
  ASSUME Typed, NEW w \in Worker, RunTyped', Others(w), run'[w].stage \in Syncing,
         run'[w].key = run[w].key, run[w].key \in Call,
         run'[w].stage \in Listed => ~ Remote(run[w].key[1]),
         UNCHANGED told
  PROVE  Tasks'
BY TasksOfOne DEF Typed, Asked, Syncing, Listed

LEMMA LookupTyped ==
  ASSUME Typed, NEW w \in Worker, Lookup(w)
  PROVE  Typed'
<1>1. run[w].stage = "lookup" /\ run[w].key \in Call
  BY DEF Lookup, Typed, Tasks, At, Syncing
<1>2. UNCHANGED <<edge, state, told, around, cache, excused, faults>>
  BY DEF Lookup
<1>3. RunTyped' /\ Tasks' /\ moved' \in [Worker -> SUBSET Pair]
  <2>1. CASE \E d : Compare(w, d)
    BY <1>1, <1>2, <2>1, CompareTyped
  <2>2. CASE Goto(w, "compute") /\ UNCHANGED moved
    <3>1. RunTyped' /\ Others(w) /\ run'[w].stage = "compute" /\ Same(w)
      BY <2>2, GotoEffect DEF Typed, TypeOK, RunTyped, Stage
    <3>2. Tasks'
      BY <1>1, <1>2, <3>1, SyncStepTyped DEF Same, Syncing, Listed
    <3> QED
      BY <2>2, <3>1, <3>2 DEF Typed, TypeOK
  <2> QED
    BY <2>1, <2>2 DEF Lookup
<1> QED
  BY <1>2, <1>3, RestTyped DEF Typed, TypeOK, RunTyped

LEMMA ComputeTyped ==
  ASSUME Typed, NEW w \in Worker, Compute(w)
  PROVE  Typed'
<1>1. run[w].stage = "compute" /\ run[w].key \in Call
  BY DEF Compute, Typed, Tasks, At, Syncing
<1>2. UNCHANGED <<edge, state, told, around, cache, excused>> /\ (Faulty \/ UNCHANGED faults)
  BY DEF Compute
<1>3. RunTyped' /\ Tasks' /\ moved' \in [Worker -> SUBSET Pair]
  <2>1. CASE Compare(w, NoDigest)
    BY <1>1, <1>2, <2>1, CompareTyped
  <2>2. CASE /\ run' = [run EXCEPT ![w].stage = "fill", ![w].digest = Current(run[w].key)]
             /\ UNCHANGED moved
    <3>1. RunTyped' /\ Others(w) /\ run'[w].stage = "fill" /\ run'[w].key = run[w].key
      BY <2>2, ComputeEffect DEF Typed
    <3>2. Tasks'
      BY <1>1, <1>2, <3>1, SyncStepTyped DEF Syncing, Listed
    <3> QED
      BY <2>2, <3>1, <3>2 DEF Typed, TypeOK
  <2> QED
    BY <2>1, <2>2 DEF Compute
<1>4. faults' \in 0..MaxFaults
  BY <1>2, FaultsTyped DEF Typed
<1> QED
  BY <1>2, <1>3, <1>4, RestTyped DEF Typed, TypeOK, RunTyped

LEMMA FillTyped ==
  ASSUME Typed, NEW w \in Worker, Fill(w)
  PROVE  Typed'
<1>1. run[w].stage = "fill" /\ run[w].key \in Call /\ run[w].key \in Key /\ run[w].digest \in Digest
  BY DEF Fill, Typed, Tasks, At, Syncing, TypeOK, RunState
<1>2. UNCHANGED <<edge, state, told, around, faults>> /\ Compare(w, run[w].digest)
  BY DEF Fill
<1>3. RunTyped' /\ Tasks' /\ moved' \in [Worker -> SUBSET Pair]
  BY <1>1, <1>2, CompareTyped
<1>4. Home[w] \in Process
  BY FollowersAssumption
<1>5. cache' \in [Process -> [Key -> Digest]]
  BY <1>1, <1>4 DEF Fill, Typed, TypeOK
<1>6. excused' \in [Process -> SUBSET Key]
  BY <1>1, <1>4 DEF Fill, Typed, TypeOK
<1> QED
  BY <1>2, <1>3, <1>5, <1>6, RestTyped DEF Typed, TypeOK, RunTyped

LEMMA FetchTyped ==
  ASSUME Typed, NEW w \in Worker, Fetch(w)
  PROVE  Typed'
<1>1. run[w].stage = "fetch" /\ run[w].key \in Call
  BY DEF Fetch, Typed, Tasks, At, Syncing
<1>2. UNCHANGED <<edge, state, told, around, cache>> /\ (Faulty \/ UNCHANGED faults)
  BY DEF Fetch
<1>3. /\ RunTyped' /\ Tasks' /\ moved' \in [Worker -> SUBSET Pair]
      /\ excused' \in [Process -> SUBSET Key]
  <2>1. CASE Finish(w)
    BY <1>2, <2>1, FinishTyped
  <2>2. CASE /\ ~ Remote(run[w].key[1])
             /\ run' = [run EXCEPT ![w].stage = "read", ![w].list = theirs[run[w].key]]
             /\ UNCHANGED <<moved, excused>>
    <3>1. theirs[run[w].key] \subseteq Actor
      BY <1>1 DEF Typed, TypeOK
    <3>2. RunTyped' /\ Others(w) /\ run'[w].stage = "read" /\ run'[w].key = run[w].key
      BY <2>2, <3>1, FetchEffect DEF Typed
    <3>3. Tasks'
      BY <1>1, <1>2, <2>2, <3>2, SyncStepTyped DEF Syncing, Listed
    <3> QED
      BY <2>2, <3>2, <3>3 DEF Typed, TypeOK
  <2> QED
    BY <2>1, <2>2 DEF Fetch
<1>4. faults' \in 0..MaxFaults
  BY <1>2, FaultsTyped DEF Typed
<1> QED
  BY <1>2, <1>3, <1>4, RestTyped DEF Typed, TypeOK, RunTyped

LEMMA ReadTyped ==
  ASSUME Typed, NEW w \in Worker, Read(w)
  PROVE  Typed'
<1>1. run[w].stage = "read" /\ run[w].key \in Call /\ ~ Remote(run[w].key[1])
  BY DEF Read, Typed, Tasks, At, Syncing, Listed
<1>2. UNCHANGED <<edge, state, told, around, cache>> /\ (Faulty \/ UNCHANGED faults)
  BY DEF Read
<1>3. /\ RunTyped' /\ Tasks' /\ moved' \in [Worker -> SUBSET Pair]
      /\ excused' \in [Process -> SUBSET Key]
  <2>1. CASE Finish(w)
    BY <1>2, <2>1, FinishTyped
  <2>2. CASE ~ Finish(w)
    <3>1. PICK mine \in SUBSET Actor : mine = Partial(run[w].key)
      BY DEF Partial
    <3>2. /\ run' = [run EXCEPT ![w].stage = "reconcile", ![w].add = run[w].list \ mine,
                                ![w].del = mine \ run[w].list]
          /\ UNCHANGED <<moved, excused>>
      BY <2>2, <3>1 DEF Read
    <3>3. RunTyped' /\ Others(w) /\ run'[w].stage = "reconcile" /\ run'[w].key = run[w].key
      BY <3>2, ReadEffect DEF Typed
    <3>4. Tasks'
      BY <1>1, <1>2, <3>3, SyncStepTyped DEF Syncing, Listed
    <3> QED
      BY <3>2, <3>3, <3>4 DEF Typed, TypeOK
  <2> QED
    BY <2>1, <2>2
<1>4. faults' \in 0..MaxFaults
  BY <1>2, FaultsTyped DEF Typed
<1> QED
  BY <1>2, <1>3, <1>4, RestTyped DEF Typed, TypeOK, RunTyped

(* What Reconcile does: it adds, it removes, it goes on or it ends. *)
Adds(w, f) ==
  /\ f \in run[w].add /\ Write(w, <<run[w].key[1], f>>, TRUE, run[w].key)
  /\ run' = [run EXCEPT ![w].add = @ \ {f}]
Removes(w, f) ==
  /\ run[w].add = {} /\ f \in run[w].del /\ Write(w, <<run[w].key[1], f>>, FALSE, run[w].key)
  /\ run' = [run EXCEPT ![w].del = @ \ {f}]
Completes(w) ==
  /\ run[w].add = {} /\ run[w].del = {} /\ Goto(w, "clear")
  /\ UNCHANGED <<edge, moved, excused, faults>>

LEMMA ReconcileCases ==
  ASSUME NEW w \in Worker, Reconcile(w)
  PROVE  /\ run[w].stage = "reconcile" /\ UNCHANGED <<state, told, around, cache>>
         /\ Faulty \/ UNCHANGED faults
         /\ \/ \E f \in run[w].add : Adds(w, f)
            \/ \E f \in run[w].del : Removes(w, f)
            \/ Completes(w)
            \/ Finish(w) /\ UNCHANGED edge
BY DEF Reconcile, At, Adds, Removes, Completes

LEMMA ReconcileTyped ==
  ASSUME Typed, NEW w \in Worker, Reconcile(w)
  PROVE  Typed'
<1>1. run[w].stage = "reconcile" /\ run[w].key \in Call /\ ~ Remote(run[w].key[1])
  BY ReconcileCases DEF Typed, Tasks, At, Syncing, Listed
<1>2. UNCHANGED <<state, told, around, cache>> /\ (Faulty \/ UNCHANGED faults)
  BY ReconcileCases
<1>3. run[w].key[1] \in Actor /\ run[w].add \subseteq Actor /\ run[w].del \subseteq Actor
  BY DEF Typed, TypeOK, RunState, Key
<1>4. /\ RunTyped' /\ Tasks' /\ moved' \in [Worker -> SUBSET Pair]
      /\ excused' \in [Process -> SUBSET Key] /\ edge' \subseteq Pair
  <2>1. CASE Finish(w) /\ UNCHANGED edge
    BY <1>2, <2>1, FinishTyped DEF Typed, TypeOK
  <2>2. CASE Completes(w)
    <3>1. RunTyped' /\ Others(w) /\ run'[w].stage = "clear" /\ Same(w)
      BY <2>2, GotoEffect DEF Completes, Typed, TypeOK, RunTyped, Stage
    <3>2. Tasks'
      BY <1>1, <1>2, <3>1, SyncStepTyped DEF Same, Syncing, Listed
    <3> QED
      BY <2>2, <3>1, <3>2 DEF Completes, Typed, TypeOK
  <2>3. CASE \E f \in run[w].add : Adds(w, f)
    <3>1. PICK f \in Actor : Adds(w, f)
      BY <1>3, <2>3
    <3>2. RunTyped' /\ Others(w) /\ run'[w].stage = "reconcile" /\ Same(w)
      BY <1>1, <3>1, AddEffect DEF Adds, Typed
    <3>3. edge' \subseteq Pair /\ moved' \in [Worker -> SUBSET Pair] /\ excused' \in [Process -> SUBSET Key]
      BY <1>3, <3>1, WriteEffect DEF Adds, Pair, Typed
    <3>4. Tasks'
      BY <1>1, <1>2, <3>2, SyncStepTyped DEF Same, Syncing, Listed
    <3> QED
      BY <3>2, <3>3, <3>4
  <2>4. CASE \E f \in run[w].del : Removes(w, f)
    <3>1. PICK f \in Actor : Removes(w, f)
      BY <1>3, <2>4
    <3>2. RunTyped' /\ Others(w) /\ run'[w].stage = "reconcile" /\ Same(w)
      BY <1>1, <3>1, DelEffect DEF Removes, Typed
    <3>3. edge' \subseteq Pair /\ moved' \in [Worker -> SUBSET Pair] /\ excused' \in [Process -> SUBSET Key]
      BY <1>3, <3>1, WriteEffect DEF Removes, Pair, Typed
    <3>4. Tasks'
      BY <1>1, <1>2, <3>2, SyncStepTyped DEF Same, Syncing, Listed
    <3> QED
      BY <3>2, <3>3, <3>4
  <2> QED
    BY <2>1, <2>2, <2>3, <2>4, ReconcileCases
<1>5. faults' \in 0..MaxFaults
  BY <1>2, FaultsTyped DEF Typed
<1> QED
  BY <1>2, <1>4, <1>5, RestTyped DEF Typed, TypeOK, RunTyped

(* The hosts and the caches act while the workers do nothing. *)
Outside ==
  \/ \E c \in Call : Publish(c) \/ \E f \in Actor : Forget(c, f)
  \/ \E p \in Process : \E k \in Key : Expire(p, k)

LEMMA OutsideTyped ==
  ASSUME Typed, Outside
  PROVE  Typed'
<1>1. UNCHANGED <<run, told>> => Tasks'
  BY DEF Typed, Tasks, Task
<1>2. ASSUME NEW c \in Call, Publish(c) PROVE Typed'
  <2>1. PICK d : d = [some |-> TRUE, own |-> FALSE, of |-> theirs[c]]
    OBVIOUS
  <2>2. theirs[c] \subseteq Actor
    BY DEF Typed, TypeOK
  <2>3. d \in Digest
    BY <2>1, <2>2 DEF Digest
  <2>4. header' = header \cup {[call |-> c, digest |-> d]}
    BY <1>2, <2>1 DEF Publish
  <2>5. header' \subseteq Header
    BY <2>3, <2>4 DEF Header, Typed, TypeOK
  <2> QED
    BY <1>1, <1>2, <2>5 DEF Publish, Typed, TypeOK
<1>3. ASSUME NEW c \in Call, NEW f \in Actor, Forget(c, f) PROVE Typed'
  BY <1>1, <1>3, FollowersAssumption DEF Forget, Typed, TypeOK
<1>4. ASSUME NEW p \in Process, NEW k \in Key, Expire(p, k) PROVE Typed'
  <2>1. NoDigest \in Digest
    BY DEF NoDigest, Digest
  <2> QED
    BY <1>1, <1>4, <2>1, RestTyped DEF Expire, Typed, TypeOK
<1> QED
  BY <1>2, <1>3, <1>4 DEF Outside

(* Another version of a profile changes nothing that a worker has in hand, *)
(* but a digest is marked.                                                 *)
LEMMA ProfileEffect ==
  ASSUME TypeOK, NEW a \in Actor, SaveProfile(a)
  PROVE  /\ UNCHANGED <<edge, state, told, theirs, header, forgets, cache, run, faults>>
         /\ versions' \in [Actor -> Nat] /\ \A b \in Actor : b # a => versions'[b] = versions[b]
         /\ moved' \in [Worker -> SUBSET Pair] /\ excused' \in [Process -> SUBSET Key]
         /\ \A v \in Worker : run[v].stage # "fill" => moved'[v] = moved[v]
         /\ \A v \in Worker : moved[v] \subseteq moved'[v]
         /\ \A v \in Worker : run[v].stage = "fill" => <<a, a>> \in moved'[v]
         /\ \A p \in Process : excused[p] \subseteq excused'[p]
         /\ \A p \in Process : \A k \in Key :
              k[1] = a /\ DomainOf[a] = k[2] /\ cache[p][k].some => k \in excused'[p]
<1>1. PICK l : l = <<a, DomainOf[a]>>
  OBVIOUS
<1>2. l \in Key /\ <<a, a>> \in Pair
  BY <1>1, FollowersAssumption DEF Key, Pair
<1>3. UNCHANGED <<edge, state, told, theirs, header, forgets, cache, run, faults>>
  BY DEF SaveProfile
<1>4. versions' \in [Actor -> Nat] /\ \A b \in Actor : b # a => versions'[b] = versions[b]
  BY DEF SaveProfile, TypeOK
<1>5. moved' = [v \in Worker |-> IF run[v].stage = "fill" THEN moved[v] \cup {<<a, a>>} ELSE moved[v]]
  BY DEF SaveProfile, At
<1>6. /\ moved' \in [Worker -> SUBSET Pair]
      /\ \A v \in Worker : run[v].stage # "fill" => moved'[v] = moved[v]
      /\ \A v \in Worker : moved[v] \subseteq moved'[v]
      /\ \A v \in Worker : run[v].stage = "fill" => <<a, a>> \in moved'[v]
  BY <1>2, <1>5 DEF TypeOK
<1>7. excused' = [p \in Process |-> IF cache[p][l].some THEN excused[p] \cup {l} ELSE excused[p]]
  BY <1>1 DEF SaveProfile
<1>8. /\ excused' \in [Process -> SUBSET Key]
      /\ \A p \in Process : excused[p] \subseteq excused'[p]
      /\ \A p \in Process : cache[p][l].some => l \in excused'[p]
  BY <1>2, <1>7 DEF TypeOK
<1>9. ASSUME NEW k \in Key, k[1] = a, DomainOf[a] = k[2] PROVE k = l
  BY <1>1, <1>9 DEF Key
<1> QED
  BY <1>3, <1>4, <1>6, <1>8, <1>9

LEMMA ProfileTyped ==
  ASSUME Typed, NEW a \in Actor, SaveProfile(a)
  PROVE  Typed'
<1>1. UNCHANGED <<run, told>> => Tasks'
  BY DEF Typed, Tasks, Task
<1> QED
  BY <1>1, ProfileEffect DEF Typed, TypeOK

(* A process that stops leaves its workers idle and its cache empty. *)
LEMMA CrashEffect ==
  ASSUME TypeOK, NEW p \in Process, Crash(p)
  PROVE  /\ RunTyped' /\ UNCHANGED <<edge, state, told, around>>
         /\ \A w \in Worker : run'[w].stage = "idle" \/ (run'[w] = run[w] /\ moved'[w] = moved[w])
         /\ moved' \in [Worker -> SUBSET Pair] /\ excused' \in [Process -> SUBSET Key]
         /\ cache' \in [Process -> [Key -> Digest]]
         /\ \A k \in Key : ~ cache'[p][k].some
         /\ \A q \in Process : q # p => cache'[q] = cache[q] /\ excused'[q] = excused[q]
         /\ \A w \in Worker : Home[w] # p => run'[w] = run[w] /\ moved'[w] = moved[w]
<1>1. NoDigest \in Digest /\ ~ NoDigest.some
  BY DEF NoDigest, Digest
<1>2. RunTyped'
  BY IdleTyped DEF Crash, TypeOK, RunTyped
<1>3. /\ cache' \in [Process -> [Key -> Digest]] /\ \A k \in Key : ~ cache'[p][k].some
      /\ excused' \in [Process -> SUBSET Key]
      /\ \A q \in Process : q # p => cache'[q] = cache[q] /\ excused'[q] = excused[q]
  BY <1>1 DEF Crash, TypeOK
<1>4. /\ moved' \in [Worker -> SUBSET Pair]
      /\ \A w \in Worker : run'[w].stage = "idle" \/ (run'[w] = run[w] /\ moved'[w] = moved[w])
      /\ \A w \in Worker : Home[w] # p => run'[w] = run[w] /\ moved'[w] = moved[w]
  BY IdleTyped DEF Crash, TypeOK
<1> QED
  BY <1>2, <1>3, <1>4 DEF Crash

LEMMA CrashTyped ==
  ASSUME Typed, NEW p \in Process, Crash(p)
  PROVE  Typed'
<1>1. /\ RunTyped' /\ UNCHANGED <<edge, state, told, around>>
      /\ \A w \in Worker : run'[w].stage = "idle" \/ run'[w] = run[w]
      /\ moved' \in [Worker -> SUBSET Pair] /\ excused' \in [Process -> SUBSET Key]
      /\ cache' \in [Process -> [Key -> Digest]]
  BY CrashEffect DEF Typed
<1>2. Tasks'
  BY <1>1 DEF Typed, Tasks, Task, Asked, Syncing, Listed
<1>3. faults' \in 0..MaxFaults
  BY FaultsTyped DEF Crash, Typed
<1> QED
  BY <1>1, <1>2, <1>3, RestTyped DEF Typed, TypeOK, RunTyped

LEMMA AbortTyped ==
  ASSUME Typed, NEW w \in Worker, Abort(w)
  PROVE  Typed'
<1>1. Finish(w) /\ Faulty /\ UNCHANGED <<edge, state, told, around, cache>>
  BY DEF Abort
<1>2. /\ RunTyped' /\ Tasks' /\ moved' \in [Worker -> SUBSET Pair]
      /\ excused' \in [Process -> SUBSET Key]
  BY <1>1, FinishTyped
<1> QED
  BY <1>1, <1>2, RestTyped, FaultsTyped DEF Typed, TypeOK, RunTyped

(* The steps of a worker. *)
Step(w) ==
  \/ \E c \in Change : Take(w, c)
  \/ Dispatch(w) \/ SaveState(w) \/ SaveEdge(w) \/ Evict(w)
  \/ \E h \in header : TakeSync(w, h)
  \/ Lookup(w) \/ Compute(w) \/ Fill(w) \/ Fetch(w) \/ Read(w)
  \/ Reconcile(w) \/ Clear(w) \/ Abort(w)

LEMMA NextCases ==
  Next <=> \/ \E w \in Worker : Step(w)
           \/ Outside
           \/ \E p \in Process : Crash(p)
           \/ \E a \in Actor : SaveProfile(a)
BY DEF Next, Step, Outside

LEMMA StepTyped ==
  ASSUME Typed, NEW w \in Worker, Step(w)
  PROVE  Typed'
<1>1. ASSUME Evict(w) PROVE Typed'
  <2>1. KeyOf(run[w].edge) \in Key
    BY <1>1, EdgeOfTask DEF Evict, At, Asked
  <2> QED
    BY <1>1, <2>1, EvictTyped DEF Evict
<1>2. ASSUME Clear(w) PROVE Typed'
  <2>1. run[w].key \in Key
    BY DEF Typed, TypeOK, RunState
  <2> QED
    BY <1>2, <2>1, EvictTyped DEF Clear
<1> QED
  BY <1>1, <1>2, TakeTyped, DispatchTyped, SaveStateTyped, SaveEdgeTyped, TakeSyncTyped,
     LookupTyped, ComputeTyped, FillTyped, FetchTyped, ReadTyped, ReconcileTyped, AbortTyped
  DEF Step

LEMMA StutterTyped == Typed /\ UNCHANGED vars => Typed'
<1>1. UNCHANGED <<run, told>> /\ Tasks => Tasks'
  BY DEF Tasks, Task
<1>2. TypeOK /\ UNCHANGED vars => TypeOK'
  BY DEF TypeOK, vars, around
<1> QED
  BY <1>1, <1>2 DEF Typed, vars

LEMMA NextTyped == Typed /\ [Next]_vars => Typed'
BY NextCases, StepTyped, OutsideTyped, CrashTyped, ProfileTyped, StutterTyped

(* The tables, the caches and the tasks of Followers keep their types.     *)
THEOREM FollowersTypeCorrect == Spec => []TypeOK
<1>1. Typed => TypeOK
  BY DEF Typed
<1> QED
  BY <1>1, InitTyped, NextTyped, PTL DEF Spec

LEMMA FollowersTyped == Spec => []Typed
BY InitTyped, NextTyped, PTL DEF Spec

------------------------------------------------------------------------------
(* What is stored was told. *)

LEMMA ToldGrows == Next => told \subseteq told'
<1>1. ASSUME NEW w \in Worker, Step(w) PROVE told \subseteq told'
  BY <1>1 DEF Step, Take, Dispatch, Told, SaveState, SaveEdge, Evict, TakeSync, Lookup, Compute,
     Fill, Fetch, Read, Reconcile, Clear, Abort
<1>2. Outside => told' = told
  BY DEF Outside, Publish, Forget, Expire
<1>3. \A p \in Process : Crash(p) => told' = told
  BY DEF Crash
<1>4. \A a \in Actor : SaveProfile(a) => told' = told
  BY DEF SaveProfile
<1> QED
  BY <1>1, <1>2, <1>3, <1>4, NextCases

LEMMA StateStep ==
  ASSUME Typed, Next
  PROVE  state' = state \/ \E w \in Worker : state' = state \cup {Task(w)} /\ Task(w) \in told
<1>1. ASSUME NEW w \in Worker, Step(w), ~ SaveState(w) PROVE state' = state
  BY <1>1 DEF Step, Take, Dispatch, SaveEdge, Evict, TakeSync, Lookup, Compute,
     Fill, Fetch, Read, Reconcile, Clear, Abort
<1>2. ASSUME NEW w \in Worker, SaveState(w)
      PROVE  state' = state \/ (state' = state \cup {Task(w)} /\ Task(w) \in told)
  BY <1>2 DEF SaveState, At, Typed, Tasks
<1>3. Outside => state' = state
  BY DEF Outside, Publish, Forget, Expire
<1>4. \A p \in Process : Crash(p) => state' = state
  BY DEF Crash
<1>5. \A a \in Actor : SaveProfile(a) => state' = state
  BY DEF SaveProfile
<1> QED
  BY <1>1, <1>2, <1>3, <1>4, <1>5, NextCases

(* A follow whose state is stored was answered, in that order: whatever    *)
(* stops handleFollowResponse, no Accept or Reject is stored that the      *)
(* follower's host did not get.                                            *)
THEOREM AnswersComeFirst == Spec => []StoredIsTold
<1>1. Init => StoredIsTold
  BY DEF Init, StoredIsTold
<1>2. Typed /\ StoredIsTold /\ [Next]_vars => StoredIsTold'
  BY ToldGrows, StateStep DEF StoredIsTold, vars
<1> QED
  BY <1>1, <1>2, FollowersTyped, PTL DEF Spec

------------------------------------------------------------------------------
(* The steps of SyncFollowers, and who writes edges. *)

Reads(w) ==
  /\ run[w].stage = "read" /\ run'[w].stage = "reconcile"
  /\ run'[w].key = run[w].key /\ run'[w].list = run[w].list
  /\ run'[w].add = run[w].list \ Partial(run[w].key)
  /\ run'[w].del = Partial(run[w].key) \ run[w].list
  /\ UNCHANGED <<edge, moved>>

Fetches(w) ==
  /\ run[w].stage = "fetch" /\ run'[w].stage = "read"
  /\ run'[w].key = run[w].key /\ run'[w].list = theirs[run[w].key]
  /\ UNCHANGED edge

(* A step of a worker that has, or gets, a list. *)
LEMMA ListStep ==
  ASSUME Typed, NEW w \in Worker, Step(w)
  PROVE  /\ Others(w)
         /\ \/ run'[w].stage \notin Listed
            \/ Fetches(w)
            \/ Reads(w)
            \/ run[w].stage = "reconcile" /\ \E f \in run[w].add : Adds(w, f)
            \/ run[w].stage = "reconcile" /\ \E f \in run[w].del : Removes(w, f)
            \/ run[w].stage = "reconcile" /\ Completes(w)
<1>1. ASSUME Finish(w) \/ \E d : Compare(w, d) PROVE Others(w) /\ run'[w].stage \notin Listed
  BY <1>1, FinishEffect, CompareEffect DEF Typed, Listed
<1>2. ASSUME NEW s \in Stage, Goto(w, s) PROVE Others(w) /\ run'[w].stage = s
  BY <1>2, GotoEffect DEF Typed, TypeOK, RunTyped
<1>3. ASSUME NEW c \in Change, Take(w, c) PROVE Others(w) /\ run'[w].stage \notin Listed
  <2>1. Others(w) /\ run'[w].stage \in {"dispatch", "edge"}
    BY <1>3, TakeEffect DEF Typed
  <2> QED
    BY <2>1 DEF Listed
<1>4. ASSUME NEW h \in header, TakeSync(w, h) PROVE Others(w) /\ run'[w].stage \notin Listed
  BY <1>4, TakeSyncEffect DEF Typed, Listed
<1>5. ASSUME Dispatch(w) \/ SaveState(w) \/ SaveEdge(w) \/ Lookup(w) \/ Abort(w)
      PROVE  Others(w) /\ run'[w].stage \notin Listed
  <2>1. \/ Finish(w) \/ (\E d : Compare(w, d))
        \/ Goto(w, "state") \/ Goto(w, "edge") \/ Goto(w, "evict") \/ Goto(w, "compute")
    BY <1>5 DEF Dispatch, SaveState, SaveEdge, Lookup, Abort
  <2> QED
    BY <2>1, <1>1, <1>2 DEF Stage, Listed
<1>6. ASSUME Evict(w) \/ Clear(w) PROVE Others(w) /\ run'[w].stage \notin Listed
  <2>1. PICK k \in Key : EvictFollowersDigest(w, k)
    <3>1. CASE Evict(w)
      BY <3>1, EdgeOfTask DEF Evict, At, Asked
    <3>2. CASE Clear(w)
      BY <3>2 DEF Clear, Typed, TypeOK, RunState
    <3> QED
      BY <1>6, <3>1, <3>2
  <2> QED
    BY <2>1, EvictEffect DEF Typed, Listed
<1>7. ASSUME Compute(w) \/ Fill(w) PROVE Others(w) /\ run'[w].stage \notin Listed
  BY <1>1, <1>7, ComputeEffect DEF Compute, Fill, Typed, Listed
<1>8. ASSUME Fetch(w) PROVE Others(w) /\ (run'[w].stage \notin Listed \/ Fetches(w))
  <2>1. CASE Finish(w)
    BY <1>1, <2>1
  <2>2. CASE ~ Finish(w)
    <3>1. run[w].stage = "fetch" /\ UNCHANGED edge
          /\ run' = [run EXCEPT ![w].stage = "read", ![w].list = theirs[run[w].key]]
      BY <1>8, <2>2 DEF Fetch, At
    <3>2. theirs[run[w].key] \subseteq Actor
      BY <3>1 DEF Typed, TypeOK, Tasks, Syncing
    <3> QED
      BY <3>1, <3>2, FetchEffect DEF Typed, Fetches
  <2> QED
    BY <2>1, <2>2
<1>9. ASSUME Read(w) PROVE Others(w) /\ (run'[w].stage \notin Listed \/ Reads(w))
  <2>1. CASE Finish(w)
    BY <1>1, <2>1
  <2>2. CASE ~ Finish(w)
    <3>1. PICK mine \in SUBSET Actor : mine = Partial(run[w].key)
      BY DEF Partial
    <3>2. /\ run[w].stage = "read" /\ UNCHANGED <<edge, moved>>
          /\ run' = [run EXCEPT ![w].stage = "reconcile", ![w].add = run[w].list \ mine,
                                ![w].del = mine \ run[w].list]
      BY <1>9, <2>2, <3>1 DEF Read, At
    <3> QED
      BY <3>1, <3>2, ReadEffect DEF Typed, Reads
  <2> QED
    BY <2>1, <2>2
<1>10. ASSUME Reconcile(w)
       PROVE  /\ Others(w) /\ run[w].stage = "reconcile"
              /\ \/ run'[w].stage \notin Listed
                 \/ \E f \in run[w].add : Adds(w, f)
                 \/ \E f \in run[w].del : Removes(w, f)
                 \/ Completes(w)
  <2>1. /\ run[w].stage = "reconcile"
        /\ \/ \E f \in run[w].add : Adds(w, f)
           \/ \E f \in run[w].del : Removes(w, f)
           \/ Completes(w)
           \/ Finish(w)
    BY <1>10, ReconcileCases
  <2>2. Completes(w) => Others(w)
    BY <1>2 DEF Completes, Stage
  <2>3. run[w].add \subseteq Actor /\ run[w].del \subseteq Actor
    BY DEF Typed, TypeOK, RunState
  <2>4. ASSUME NEW f \in run[w].add, Adds(w, f) PROVE Others(w)
    BY <2>3, <2>4, AddEffect DEF Adds, Typed
  <2>5. ASSUME NEW f \in run[w].del, Removes(w, f) PROVE Others(w)
    BY <2>3, <2>5, DelEffect DEF Removes, Typed
  <2> QED
    BY <1>1, <2>1, <2>2, <2>4, <2>5
<1> QED
  BY <1>3, <1>4, <1>5, <1>6, <1>7, <1>8, <1>9, <1>10 DEF Step

Saves(w) ==
  /\ run[w].stage = "edge" /\ Write(w, run[w].edge, run[w].kind # "leave", KeyOf(run[w].edge))
           /\ Goto(w, "evict")

(* Edges are written by SaveEdge and by Reconcile, and by nothing else.    *)
LEMMA EdgeStep ==
  ASSUME NEW w \in Worker, Step(w)
  PROVE  \/ edge' = edge
         \/ Saves(w)
         \/ run[w].stage = "reconcile" /\ \E f \in run[w].add : Adds(w, f)
         \/ run[w].stage = "reconcile" /\ \E f \in run[w].del : Removes(w, f)
<1>1. CASE SaveEdge(w)
  BY <1>1 DEF SaveEdge, Saves, At
<1>2. CASE Reconcile(w)
  BY <1>2, ReconcileCases DEF Completes
<1>3. CASE ~ SaveEdge(w) /\ ~ Reconcile(w)
  BY <1>3 DEF Step, Take, Dispatch, SaveState, Evict, TakeSync, Lookup, Compute,
     Fill, Fetch, Read, Clear, Abort
<1> QED
  BY <1>1, <1>2, <1>3

LEMMA OutsideKeeps == Outside => UNCHANGED <<edge, run, moved, told, versions>>
BY DEF Outside, Publish, Forget, Expire, around

------------------------------------------------------------------------------
(* Where the lists come from: what a host believes it believed at the      *)
(* start, or it was told of an Accept.                                     *)

Came(k, f) ==
  \/ f \in Believed[k]
  \/ \E d \in told : d.kind = "accept" /\ d.edge = <<k[1], f>> /\ KeyOf(d.edge) = k

Beliefs == \A k \in Call : \A f \in theirs[k] : Came(k, f)
Lists ==
  \A w \in Worker : run[w].stage \in Listed =>
    \A k : k = run[w].key => \A f \in run[w].list : Came(k, f)
Plans ==
  \A w \in Worker : run[w].stage \in {"reconcile", "clear"} =>
    /\ run[w].add \subseteq run[w].list /\ run[w].del \cap run[w].list = {}
    /\ \A f \in run[w].del : DomainOf[f] = run[w].key[2]
    /\ run[w].stage = "clear" => run[w].add = {} /\ run[w].del = {}

Sources == Beliefs /\ Lists /\ Plans

LEMMA CameStays ==
  ASSUME told \subseteq told', NEW k, NEW f, Came(k, f)
  PROVE  Came(k, f)'
BY DEF Came

LEMMA KeyIsPair == ASSUME NEW k \in Key PROVE k = <<k[1], k[2]>> /\ k[1] \in Actor
BY DEF Key

LEMMA BeliefsKept ==
  ASSUME Typed, Beliefs, Next
  PROVE  Beliefs'
<1>1. told \subseteq told'
  BY ToldGrows
<1>2. ASSUME theirs' = theirs PROVE Beliefs'
  BY <1>1, <1>2, CameStays DEF Beliefs
<1>3. ASSUME NEW w \in Worker, Dispatch(w) PROVE Beliefs'
  <2>1. Task(w) \in Change
    BY <1>3 DEF Dispatch, At, Typed, Tasks, Asked
  <2>2. CASE Told(Task(w))
    <3>1. PICK c \in Change : c = Task(w)
      BY <2>1
    <3>2. Told(c) /\ c \in told'
      BY <2>2, <3>1, ToldTyped DEF Typed
    <3>3. c.edge[1] \in Actor /\ c.edge[2] \in Actor /\ c.edge = <<c.edge[1], c.edge[2]>>
      BY FollowersAssumption DEF ChangeType, Pair
    <3>4. SUFFICES ASSUME NEW k \in Call, NEW f \in theirs'[k] PROVE Came(k, f)'
      BY DEF Beliefs
    <3>5. f \in theirs[k] \/ (c.kind = "accept" /\ k = KeyOf(c.edge) /\ f = c.edge[2])
      BY <3>2, <3>4 DEF Told
    <3>6. CASE f \in theirs[k]
      BY <1>1, <3>6, CameStays DEF Beliefs
    <3>7. CASE c.kind = "accept" /\ k = KeyOf(c.edge) /\ f = c.edge[2]
      <4>1. c.edge = <<k[1], f>>
        BY <3>3, <3>7 DEF KeyOf
      <4> QED
        BY <3>2, <3>7, <4>1 DEF Came
    <3> QED
      BY <3>5, <3>6, <3>7
  <2>3. CASE UNCHANGED theirs
    BY <1>2, <2>3
  <2> QED
    BY <1>3, <2>2, <2>3 DEF Dispatch
<1>4. ASSUME NEW w \in Worker, Step(w), ~ Dispatch(w) PROVE theirs' = theirs
  BY <1>4 DEF Step, Take, SaveState, SaveEdge, Evict, TakeSync, Lookup, Compute,
     Fill, Fetch, Read, Reconcile, Clear, Abort, around
<1>5. ASSUME Outside PROVE Beliefs'
  <2>1. CASE \E c \in Call : Publish(c)
    BY <1>2, <2>1 DEF Publish
  <2>2. CASE \E c \in Call, f \in Actor : Forget(c, f)
    <3>1. \A k \in Call : theirs'[k] \subseteq theirs[k]
      BY <2>2 DEF Forget, Typed, TypeOK
    <3> QED
      BY <1>1, <3>1, CameStays DEF Beliefs
  <2>3. CASE \E p \in Process, k \in Key : Expire(p, k)
    BY <1>2, <2>3 DEF Expire, around
  <2> QED
    BY <1>5, <2>1, <2>2, <2>3 DEF Outside
<1>6. ASSUME NEW p \in Process, Crash(p) PROVE theirs' = theirs
  BY <1>6 DEF Crash, around
<1>7. ASSUME NEW a \in Actor, SaveProfile(a) PROVE theirs' = theirs
  BY <1>7 DEF SaveProfile
<1> QED
  BY <1>2, <1>3, <1>4, <1>5, <1>6, <1>7, NextCases

(* Invariants of the worker's own record: kept by the other workers, by    *)
(* the outside and by a stop.                                              *)
LEMMA ListsKept ==
  ASSUME Typed, Sources, Next
  PROVE  Lists'
<1>1. told \subseteq told'
  BY ToldGrows
<1>2. ASSUME NEW w \in Worker,
             \/ run'[w].stage \notin Listed
             \/ run'[w] = run[w]
             \/ run[w].stage \in Listed /\ run'[w].key = run[w].key /\ run'[w].list = run[w].list
             \/ Fetches(w)
      PROVE  run'[w].stage \in Listed =>
               \A k : k = run'[w].key => \A f \in run'[w].list : Came(k, f)'
  <2>1. SUFFICES ASSUME run'[w].stage \in Listed, NEW k, k = run'[w].key,
                        NEW f, f \in run'[w].list
                 PROVE  Came(k, f)'
    OBVIOUS
  <2>2. run[w].key = k
    BY <1>2, <2>1 DEF Fetches
  <2>3. Came(k, f)
    <3>1. CASE Fetches(w)
      BY <2>1, <2>2, <3>1 DEF Fetches, Sources, Beliefs, Typed, Tasks, Syncing
    <3>2. CASE ~ Fetches(w)
      BY <1>2, <2>1, <2>2, <3>2 DEF Sources, Lists
    <3> QED
      BY <3>1, <3>2
  <2> QED
    BY <1>1, <2>3, CameStays
<1>3. ASSUME NEW w \in Worker, Step(w)
      PROVE  Lists'
  <2>1. run[w].add \subseteq Actor /\ run[w].del \subseteq Actor
    BY DEF Typed, TypeOK, RunState
  <2>2. ASSUME NEW f \in run[w].add, Adds(w, f), run[w].stage = "reconcile"
        PROVE  run[w].stage \in Listed /\ run'[w].key = run[w].key /\ run'[w].list = run[w].list
    BY <2>1, <2>2, AddEffect DEF Adds, Same, Typed, Listed
  <2>3. ASSUME NEW f \in run[w].del, Removes(w, f), run[w].stage = "reconcile"
        PROVE  run[w].stage \in Listed /\ run'[w].key = run[w].key /\ run'[w].list = run[w].list
    BY <2>1, <2>3, DelEffect DEF Removes, Same, Typed, Listed
  <2>4. ASSUME Completes(w), run[w].stage = "reconcile"
        PROVE  run[w].stage \in Listed /\ run'[w].key = run[w].key /\ run'[w].list = run[w].list
    BY <2>4, GotoEffect DEF Completes, Same, Typed, TypeOK, RunTyped, Listed, Stage
  <2>5. \/ run'[w].stage \notin Listed
        \/ run[w].stage \in Listed /\ run'[w].key = run[w].key /\ run'[w].list = run[w].list
        \/ Fetches(w)
    BY <1>3, <2>2, <2>3, <2>4, ListStep DEF Reads, Listed
  <2>6. \A v \in Worker : v # w => run'[v] = run[v]
    BY <1>3, ListStep DEF Others
  <2> QED
    BY <1>2, <2>5, <2>6 DEF Lists
<1>4. ASSUME NEW p \in Process, Crash(p) PROVE Lists'
  <2>1. \A w \in Worker : run'[w].stage = "idle" \/ run'[w] = run[w]
    BY <1>4, CrashEffect DEF Typed
  <2> QED
    BY <1>2, <2>1 DEF Lists, Listed
<1>5. ASSUME NEW a \in Actor, SaveProfile(a) PROVE run' = run
  BY <1>5 DEF SaveProfile
<1> QED
  BY <1>2, <1>3, <1>4, <1>5, NextCases, OutsideKeeps DEF Lists

LEMMA PlansKept ==
  ASSUME Typed, Sources, Next
  PROVE  Plans'
<1>1. ASSUME NEW w \in Worker, Step(w)
      PROVE  Plans'
  <2>1. run[w].add \subseteq Actor /\ run[w].del \subseteq Actor
    BY DEF Typed, TypeOK, RunState
  <2> DEFINE Good == run'[w].stage \in {"reconcile", "clear"} =>
               /\ run'[w].add \subseteq run'[w].list /\ run'[w].del \cap run'[w].list = {}
               /\ \A f \in run'[w].del : DomainOf[f] = run'[w].key[2]
               /\ run'[w].stage = "clear" => run'[w].add = {} /\ run'[w].del = {}
  <2>2. ASSUME NEW f \in run[w].add, Adds(w, f), run[w].stage = "reconcile" PROVE Good
    BY <2>1, <2>2, AddEffect DEF Adds, Same, Typed, Sources, Plans
  <2>3. ASSUME NEW f \in run[w].del, Removes(w, f), run[w].stage = "reconcile" PROVE Good
    BY <2>1, <2>3, DelEffect DEF Removes, Same, Typed, Sources, Plans
  <2>4. ASSUME Completes(w), run[w].stage = "reconcile" PROVE Good
    BY <2>4, GotoEffect DEF Completes, Same, Typed, TypeOK, RunTyped, Stage, Sources, Plans
  <2>5. Reads(w) => Good
    BY DEF Reads, Partial
  <2>6. Good
    BY <1>1, <2>2, <2>3, <2>4, <2>5, ListStep DEF Listed, Fetches
  <2>7. \A v \in Worker : v # w => run'[v] = run[v]
    BY <1>1, ListStep DEF Others
  <2> QED
    BY <2>6, <2>7 DEF Plans, Sources
<1>2. ASSUME NEW p \in Process, Crash(p) PROVE Plans'
  <2>1. \A w \in Worker : run'[w].stage = "idle" \/ run'[w] = run[w]
    BY <1>2, CrashEffect DEF Typed
  <2> QED
    BY <2>1 DEF Plans, Sources
<1>3. Outside => Plans'
  BY OutsideKeeps DEF Plans, Sources
<1>4. ASSUME NEW a \in Actor, SaveProfile(a) PROVE Plans'
  BY <1>4 DEF SaveProfile, Plans, Sources
<1> QED
  BY <1>1, <1>2, <1>3, <1>4, NextCases

LEMMA FollowersSources == Spec => []Sources
<1>1. Init => Sources
  BY DEF Init, Sources, Beliefs, Lists, Plans, Came, Idle, Listed
<1>2. Sources /\ UNCHANGED vars => Sources'
  <2>1. UNCHANGED vars => UNCHANGED <<told, theirs, run>>
    BY DEF vars, around
  <2>2. UNCHANGED told => \A k, f : Came(k, f) => Came(k, f)'
    BY DEF Came
  <2> QED
    BY <2>1, <2>2 DEF Sources, Beliefs, Lists, Plans
<1>3. Typed /\ Sources /\ [Next]_vars => Sources'
  BY <1>2, BeliefsKept, ListsKept, PlansKept DEF Sources
<1> QED
  BY <1>1, <1>3, FollowersTyped, PTL DEF Spec

------------------------------------------------------------------------------
(* Edges have an origin. *)

(* Whatever reconcileFollowers adds came in the list.                      *)
LEMMA AddedHasOrigin ==
  ASSUME Typed, Sources, NEW w \in Worker, run[w].stage = "reconcile", NEW f \in run[w].add
  PROVE  f \in run[w].list /\ Came(run[w].key, f)
<1>1. PICK k \in Call : k = run[w].key
  BY DEF Typed, Tasks, Syncing
<1>2. f \in run[w].list
  BY DEF Sources, Plans
<1>3. Came(k, f)
  BY <1>1, <1>2 DEF Sources, Lists, Listed
<1> QED
  BY <1>1, <1>2, <1>3

LEMMA OriginKept ==
  ASSUME Typed, Sources, EdgeHasOrigin, Next
  PROVE  EdgeHasOrigin'
<1> DEFINE Orig(e) == \/ \E c \in told : c.kind = "accept" /\ c.edge = e
                      \/ \E c \in Change : c.kind = "join" /\ c.edge = e
                      \/ \E c \in Call : c[1] = e[1] /\ e[2] \in Believed[c]
<1>1. told \subseteq told'
  BY ToldGrows
<1>2. ASSUME edge' \subseteq edge PROVE EdgeHasOrigin'
  BY <1>1, <1>2 DEF EdgeHasOrigin
<1>3. ASSUME NEW e \in Pair, Orig(e), edge' \subseteq edge \cup {e} PROVE EdgeHasOrigin'
  BY <1>1, <1>3 DEF EdgeHasOrigin
<1>4. ASSUME NEW w \in Worker, Saves(w) PROVE EdgeHasOrigin'
  <2>1. Task(w) \in Change /\ run[w].edge \in Pair
    BY <1>4, EdgeOfTask DEF Saves, Typed, Tasks, Asked
  <2>2. CASE run[w].kind = "leave"
    BY <1>2, <1>4, <2>2 DEF Saves, Write
  <2>3. CASE run[w].kind # "leave"
    <3>1. Task(w).kind = run[w].kind /\ Task(w).edge = run[w].edge
      BY DEF Task
    <3>2. Orig(run[w].edge)
      BY <1>4, <2>1, <2>3, <3>1 DEF Saves, Typed, Tasks
    <3>3. edge' \subseteq edge \cup {run[w].edge}
      BY <1>4, <2>3 DEF Saves, Write
    <3> QED
      BY <1>3, <2>1, <3>2, <3>3
  <2> QED
    BY <2>2, <2>3
<1>5. ASSUME NEW w \in Worker, run[w].stage = "reconcile", NEW f \in run[w].add, Adds(w, f)
      PROVE  EdgeHasOrigin'
  <2>1. PICK e : e = <<run[w].key[1], f>>
    OBVIOUS
  <2>2. Came(run[w].key, f) /\ run[w].key \in Call
    BY <1>5, AddedHasOrigin DEF Typed, Tasks, Syncing
  <2>3. e \in Pair /\ e[1] = run[w].key[1] /\ e[2] = f
    BY <2>1 DEF Typed, TypeOK, RunState, Key, Pair
  <2>4. Orig(e)
    BY <2>1, <2>2, <2>3 DEF Came
  <2>5. edge' \subseteq edge \cup {e}
    BY <1>5, <2>1 DEF Adds, Write
  <2> QED
    BY <1>3, <2>3, <2>4, <2>5
<1>6. ASSUME NEW w \in Worker, NEW f \in run[w].del, Removes(w, f) PROVE EdgeHasOrigin'
  BY <1>2, <1>6 DEF Removes, Write
<1>7. ASSUME NEW p \in Process, Crash(p) PROVE edge' = edge
  BY <1>7 DEF Crash
<1>8. ASSUME NEW a \in Actor, SaveProfile(a) PROVE edge' = edge
  BY <1>8 DEF SaveProfile
<1> QED
  BY <1>2, <1>4, <1>5, <1>6, <1>7, <1>8, EdgeStep, OutsideKeeps, NextCases

(* No change, list or failure, in whatever order they write, makes a       *)
(* follower of someone who did not follow, was not told of an Accept, did  *)
(* not join and stood in no list that a host keeps of the followed actor.  *)
THEOREM FollowersHaveOrigins == Spec => []EdgeHasOrigin
<1>1. Init => EdgeHasOrigin
  BY DEF Init, EdgeHasOrigin
<1>2. EdgeHasOrigin /\ UNCHANGED vars => EdgeHasOrigin'
  BY DEF EdgeHasOrigin, vars
<1>3. Typed /\ Sources /\ EdgeHasOrigin /\ [Next]_vars => EdgeHasOrigin'
  BY <1>2, OriginKept
<1> QED
  BY <1>1, <1>3, FollowersTyped, FollowersSources, PTL DEF Spec

------------------------------------------------------------------------------
(* What a sync may write. *)

(* Whatever reconcileFollowers removes lives at the host of the list.      *)
LEMMA RemovedIsLocal ==
  ASSUME Typed, Sources, NEW w \in Worker, run[w].stage = "reconcile", NEW f \in run[w].del
  PROVE  KeyOf(<<run[w].key[1], f>>) = run[w].key
<1>1. DomainOf[f] = run[w].key[2] /\ run[w].key \in Key
  BY DEF Sources, Plans, Typed, TypeOK, RunState
<1> QED
  BY <1>1, KeyIsPair DEF KeyOf

(* reconcileFollowers never removes a follower who lives elsewhere than    *)
(* the host that sent the list, and never adds one who is not in the list, *)
(* whatever the list holds and whoever writes beside it.                   *)
THEOREM SyncIsLocal == Spec => SyncKeepsOtherHosts
<1> DEFINE Local == \A w \in Worker : At(w, "reconcile") /\ run'[w] # run[w] =>
                      /\ \A e \in edge \ edge' : KeyOf(e) = run[w].key
                      /\ \A e \in edge' \ edge : e[1] = run[w].key[1] /\ e[2] \in run[w].list
<1>1. ASSUME Typed, Sources, Next PROVE Local
  <2>1. SUFFICES ASSUME NEW w \in Worker, run[w].stage = "reconcile", run'[w] # run[w]
                 PROVE  /\ \A e \in edge \ edge' : KeyOf(e) = run[w].key
                        /\ \A e \in edge' \ edge : e[1] = run[w].key[1] /\ e[2] \in run[w].list
    BY DEF At
  <2>2. run[w].key[1] \in Actor /\ run[w].add \subseteq Actor /\ run[w].del \subseteq Actor
    BY <1>1 DEF Typed, TypeOK, RunState, Key
  <2>3. ASSUME NEW v \in Worker, Step(v), v # w PROVE run'[w] = run[w]
    BY <1>1, <2>3, ListStep DEF Others
  <2>4. CASE Step(w)
    <3>1. ASSUME NEW f \in run[w].add, Adds(w, f)
          PROVE  /\ edge \subseteq edge'
                 /\ \A e \in edge' \ edge : e[1] = run[w].key[1] /\ e[2] \in run[w].list
      <4>1. edge' = edge \cup {<<run[w].key[1], f>>}
        BY <3>1 DEF Adds, Write
      <4>2. f \in run[w].list
        BY <1>1, <2>1, <3>1, AddedHasOrigin
      <4> QED
        BY <4>1, <4>2
    <3>2. ASSUME NEW f \in run[w].del, Removes(w, f)
          PROVE  edge' \subseteq edge /\ \A e \in edge \ edge' : KeyOf(e) = run[w].key
      <4>1. PICK d : d = <<run[w].key[1], f>>
        OBVIOUS
      <4>2. KeyOf(d) = run[w].key
        BY <1>1, <2>1, <3>2, <4>1, RemovedIsLocal
      <4>3. edge' = edge \ {d}
        BY <3>2, <4>1 DEF Removes, Write
      <4> QED
        BY <4>2, <4>3
    <3>3. ~ Saves(w)
      BY <2>1 DEF Saves
    <3> QED
      BY <2>4, <3>1, <3>2, <3>3, EdgeStep
  <2>5. Outside => edge' = edge
    BY OutsideKeeps
  <2>6. \A p \in Process : Crash(p) => edge' = edge
    BY DEF Crash
  <2>7. \A a \in Actor : SaveProfile(a) => edge' = edge
    BY DEF SaveProfile
  <2> QED
    BY <1>1, <2>1, <2>3, <2>4, <2>5, <2>6, <2>7, NextCases
<1>2. Typed /\ Sources /\ [Next]_vars => [Local]_vars
  BY <1>1
<1> QED
  BY <1>2, FollowersTyped, FollowersSources, PTL DEF Spec, SyncKeepsOtherHosts

------------------------------------------------------------------------------
(* What SyncFollowers leaves. *)

Differs(w, f) ==
  LET e == <<run[w].key[1], f>> IN (e \in edge) # (f \in run[w].list) /\ e \notin moved[w]

(* From the read to the end, whatever differs is planned or was moved.     *)
Planned ==
  \A w \in Worker : run[w].stage \in {"reconcile", "clear"} =>
    \A f \in Actor : DomainOf[f] = run[w].key[2] /\ Differs(w, f) =>
      f \in run[w].add \/ f \in run[w].del

(* A worker loses what it knows of moved edges only by a step of its own.  *)
LEMMA MovedStays ==
  ASSUME Typed, NEW w \in Worker, Step(w), NEW v \in Worker, v # w
  PROVE  moved[v] \subseteq moved'[v]
<1>1. moved \in [Worker -> SUBSET Pair]
  BY DEF Typed, TypeOK
<1>2. \/ moved' = moved \/ moved' = [moved EXCEPT ![w] = {}]
      \/ \E e : moved' = [u \in Worker |-> IF u # w /\ Holding(u) THEN moved[u] \cup {e} ELSE moved[u]]
  BY DEF Step, Take, Dispatch, SaveState, SaveEdge, Evict, TakeSync, Lookup, Compute, Fill, Fetch,
     Read, Reconcile, Clear, Abort, Finish, Compare, Write, EvictFollowersDigest
<1> QED
  BY <1>1, <1>2

(* An edge that somebody else writes is moved; the others are as before.   *)
LEMMA OthersWrite ==
  ASSUME Typed, Sources, NEW w \in Worker, Step(w), NEW v \in Worker, v # w,
         run[v].stage \in {"reconcile", "clear"}, NEW f \in Actor
  PROVE  run'[v] = run[v] /\ (Differs(v, f)' => Differs(v, f))
<1>1. run'[v] = run[v]
  BY ListStep DEF Others
<1>2. PICK e \in Pair : e = <<run[v].key[1], f>>
  BY DEF Typed, TypeOK, RunState, Key, Pair
<1>3. ASSUME NEW d \in Pair, NEW b \in BOOLEAN, NEW l, Write(w, d, b, l)
      PROVE  Differs(v, f)' => Differs(v, f)
  <2>1. /\ \A g \in Pair : g # d => (g \in edge' <=> g \in edge)
        /\ moved[v] \subseteq moved'[v] /\ d \in moved'[v]
    BY <1>3, WriteEffect DEF Typed, Holding
  <2> QED
    BY <1>1, <1>2, <2>1 DEF Differs
<1>4. ASSUME edge' = edge, moved[v] \subseteq moved'[v] PROVE Differs(v, f)' => Differs(v, f)
  BY <1>1, <1>2, <1>4 DEF Differs
<1>5. run[w].add \subseteq Actor /\ run[w].del \subseteq Actor /\ run[w].key[1] \in Actor
  BY DEF Typed, TypeOK, RunState, Key
<1>6. CASE edge' = edge
  <2>1. moved[v] \subseteq moved'[v]
    BY <1>6, MovedStays
  <2> QED
    BY <1>1, <1>4, <1>6, <2>1
<1>7. CASE Saves(w)
  <2>1. run[w].edge \in Pair /\ (run[w].kind # "leave") \in BOOLEAN
    BY <1>7, EdgeOfTask DEF Saves, Asked
  <2> QED
    BY <1>1, <1>3, <1>7, <2>1 DEF Saves
<1>8. CASE \E g \in run[w].add : Adds(w, g)
  BY <1>1, <1>3, <1>5, <1>8 DEF Adds, Pair
<1>9. CASE \E g \in run[w].del : Removes(w, g)
  BY <1>1, <1>3, <1>5, <1>9 DEF Removes, Pair
<1> QED
  BY <1>6, <1>7, <1>8, <1>9, EdgeStep

LEMMA PlannedKept ==
  ASSUME Typed, Sources, Planned, Next
  PROVE  Planned'
<1>1. ASSUME NEW w \in Worker, Step(w)
      PROVE  Planned'
  <2> DEFINE Good(f) == DomainOf[f] = run'[w].key[2] /\ Differs(w, f)' => f \in run'[w].add \/ f \in run'[w].del
  <2>1. run[w].add \subseteq Actor /\ run[w].del \subseteq Actor /\ run[w].key[1] \in Actor
    BY DEF Typed, TypeOK, RunState, Key
  <2>2. ASSUME run'[w].stage \in {"reconcile", "clear"}, NEW f \in Actor PROVE Good(f)
    <3>1. CASE Reads(w)
      BY <2>2, <3>1 DEF Reads, Differs, Partial
    <3>2. CASE run[w].stage = "reconcile" /\ \E g \in run[w].add : Adds(w, g)
      <4>1. PICK g \in run[w].add : Adds(w, g)
        BY <3>2
      <4>2. PICK d \in Pair : d = <<run[w].key[1], g>>
        BY <2>1 DEF Pair
      <4>3. /\ \A e \in Pair : e # d => (e \in edge' <=> e \in edge)
            /\ d \in edge' /\ moved[w] \subseteq moved'[w]
        BY <4>1, <4>2, WriteEffect DEF Adds, Typed
      <4>4. /\ run'[w].key = run[w].key /\ run'[w].list = run[w].list
            /\ run'[w].add = run[w].add \ {g} /\ run'[w].del = run[w].del
        BY <2>1, <4>1, AddEffect DEF Adds, Same, Typed
      <4>5. g \in run[w].list
        BY <3>2, <4>1 DEF Sources, Plans
      <4>6. <<run[w].key[1], f>> \in Pair
        BY <2>1, <2>2 DEF Pair
      <4>7. CASE f = g
        BY <4>2, <4>3, <4>4, <4>5, <4>7 DEF Differs
      <4>8. CASE f # g
        <5>1. Differs(w, f)' => Differs(w, f)
          BY <4>2, <4>3, <4>4, <4>6, <4>8 DEF Differs
        <5> QED
          BY <2>2, <3>2, <4>4, <4>8, <5>1 DEF Planned
      <4> QED
        BY <4>7, <4>8
    <3>3. CASE run[w].stage = "reconcile" /\ \E g \in run[w].del : Removes(w, g)
      <4>1. PICK g \in run[w].del : Removes(w, g)
        BY <3>3
      <4>2. PICK d \in Pair : d = <<run[w].key[1], g>>
        BY <2>1 DEF Pair
      <4>3. /\ \A e \in Pair : e # d => (e \in edge' <=> e \in edge)
            /\ d \notin edge' /\ moved[w] \subseteq moved'[w]
        BY <4>1, <4>2, WriteEffect DEF Removes, Typed
      <4>4. /\ run'[w].key = run[w].key /\ run'[w].list = run[w].list
            /\ run'[w].del = run[w].del \ {g} /\ run'[w].add = run[w].add
        BY <2>1, <4>1, DelEffect DEF Removes, Same, Typed
      <4>5. g \notin run[w].list
        BY <3>3, <4>1 DEF Sources, Plans
      <4>6. <<run[w].key[1], f>> \in Pair
        BY <2>1, <2>2 DEF Pair
      <4>7. CASE f = g
        BY <4>2, <4>3, <4>4, <4>5, <4>7 DEF Differs
      <4>8. CASE f # g
        <5>1. Differs(w, f)' => Differs(w, f)
          BY <4>2, <4>3, <4>4, <4>6, <4>8 DEF Differs
        <5> QED
          BY <2>2, <3>3, <4>4, <4>8, <5>1 DEF Planned
      <4> QED
        BY <4>7, <4>8
    <3>4. CASE run[w].stage = "reconcile" /\ Completes(w)
      <4>1. Same(w) /\ run'[w].add = run[w].add /\ run'[w].del = run[w].del
        BY <3>4, GotoEffect DEF Completes, Typed, TypeOK, RunTyped, Stage
      <4>2. Differs(w, f)' => Differs(w, f)
        BY <3>4, <4>1 DEF Completes, Differs, Same
      <4> QED
        BY <2>2, <3>4, <4>1, <4>2 DEF Planned, Same
    <3>5. ~ Fetches(w) /\ run'[w].stage \in Listed
      BY <2>2 DEF Fetches, Listed
    <3> QED
      BY <1>1, <3>1, <3>2, <3>3, <3>4, <3>5, ListStep
  <2>3. ASSUME NEW v \in Worker, v # w, run'[v].stage \in {"reconcile", "clear"}, NEW f \in Actor,
               DomainOf[f] = run'[v].key[2], Differs(v, f)'
        PROVE  f \in run'[v].add \/ f \in run'[v].del
    <3>1. run'[v] = run[v]
      BY <1>1, <2>3, ListStep DEF Others
    <3>2. Differs(v, f)
      BY <1>1, <2>3, <3>1, OthersWrite
    <3> QED
      BY <2>3, <3>1, <3>2 DEF Planned
  <2> QED
    BY <2>2, <2>3 DEF Planned
<1>2. ASSUME NEW p \in Process, Crash(p) PROVE Planned'
  <2>1. \A w \in Worker : run'[w].stage = "idle" \/ (run'[w] = run[w] /\ moved'[w] = moved[w])
    BY <1>2, CrashEffect DEF Typed
  <2>2. edge' = edge
    BY <1>2 DEF Crash
  <2> QED
    BY <2>1, <2>2 DEF Planned, Differs
<1>3. ASSUME Outside PROVE Planned'
  BY <1>3, OutsideKeeps DEF Planned, Differs
<1>4. ASSUME NEW a \in Actor, SaveProfile(a) PROVE Planned'
  <2>1. UNCHANGED <<edge, run>> /\ \A w \in Worker : run[w].stage # "fill" => moved'[w] = moved[w]
    BY <1>4, ProfileEffect DEF Typed
  <2> QED
    BY <2>1 DEF Planned, Differs
<1> QED
  BY <1>1, <1>2, <1>3, <1>4, NextCases

(* When SyncFollowers has written all it had to, the edges to its host are *)
(* the list, but for what others wrote since it read the local side.       *)
THEOREM SyncLeavesTheList == Spec => []SyncAgrees
<1>1. Init => Planned
  BY DEF Init, Planned, Idle
<1>2. Planned /\ UNCHANGED vars => Planned'
  BY DEF Planned, Differs, vars
<1>3. Typed /\ Sources /\ Planned /\ [Next]_vars => Planned'
  BY <1>2, PlannedKept
<1>4. Sources /\ Planned => SyncAgrees
  BY DEF Sources, Plans, Planned, Differs, SyncAgrees, At
<1> QED
  BY <1>1, <1>3, <1>4, FollowersTyped, FollowersSources, PTL DEF Spec

------------------------------------------------------------------------------
(* What the caches hold. *)

Late(w, k) == \E e \in moved[w] : KeyOf(e) = k

(* A digest to be stored is that of the edges, or one of them was moved.   *)
Fresh ==
  \A w \in Worker : run[w].stage = "fill" =>
    \A k : k = run[w].key => run[w].digest = Current(k) \/ Late(w, k)

(* The steps of the workers store no profile. *)
LEMMA StepKeepsVersions == ASSUME NEW w \in Worker, Step(w) PROVE versions' = versions
BY DEF Step, Take, Dispatch, SaveState, SaveEdge, Evict, TakeSync, Lookup, Compute, Fill, Fetch,
   Read, Reconcile, Clear, Abort, around

LEMMA CurrentStays ==
  ASSUME versions' = versions, NEW e \in Pair, \A d \in Pair : d # e => (d \in edge' <=> d \in edge),
         NEW k \in Key, KeyOf(e) # k
  PROVE  Current(k)' = Current(k)
<1>1. \A f \in Actor : DomainOf[f] = k[2] => <<k[1], f>> \in Pair /\ <<k[1], f>> # e
  BY KeyIsPair DEF KeyOf, Pair
<1>2. Partial(k)' = Partial(k)
  BY <1>1 DEF Partial
<1> QED
  BY <1>2 DEF Current

(* A profile counts in the digest of its own key only.                     *)
LEMMA ProfileCounts ==
  ASSUME TypeOK, NEW a \in Actor, SaveProfile(a), NEW k \in Key, KeyOf(<<a, a>>) # k
  PROVE  Current(k)' = Current(k)
<1>1. edge' = edge /\ \A b \in Actor : b # a => versions'[b] = versions[b]
  BY ProfileEffect
<1>2. k[1] \in Actor /\ (k[1] = a => DomainOf[k[1]] # k[2])
  BY KeyIsPair DEF KeyOf
<1>3. Partial(k)' = Partial(k)
  BY <1>1 DEF Partial
<1> QED
  BY <1>1, <1>2, <1>3 DEF Current

(* No other step than Compute leads a worker to the filling of the cache.  *)
LEMMA FillComesFromCompute ==
  ASSUME Typed, NEW w \in Worker, Step(w), run'[w].stage = "fill"
  PROVE  /\ run'[w].key \in Key /\ UNCHANGED edge
         /\ \A k : k = run'[w].key => run'[w].digest = Current(k)
<1>1. ~ Finish(w) /\ ~ \E d : Compare(w, d)
  BY FinishEffect, CompareEffect DEF Typed
<1>2. \A s \in Stage : s # "fill" => ~ Goto(w, s)
  BY GotoEffect DEF Typed, TypeOK, RunTyped
<1>3. \A c \in Change : ~ Take(w, c)
  BY TakeEffect, FollowersAssumption DEF Typed, ChangeType
<1>4. \A h \in header : ~ TakeSync(w, h)
  BY TakeSyncEffect DEF Typed
<1>5. ~ Dispatch(w) /\ ~ SaveState(w) /\ ~ SaveEdge(w) /\ ~ Lookup(w) /\ ~ Abort(w)
  BY <1>1, <1>2 DEF Dispatch, SaveState, SaveEdge, Lookup, Abort, Stage
<1>6. ~ Evict(w) /\ ~ Clear(w)
  <2>1. KeyOf(run[w].edge) \in Key \/ ~ Evict(w)
    BY EdgeOfTask DEF Evict, At, Asked
  <2>2. run[w].key \in Key
    BY DEF Typed, TypeOK, RunState
  <2> QED
    BY <2>1, <2>2, EvictEffect DEF Evict, Clear, Typed
<1>7. ~ Fill(w)
  BY <1>1 DEF Fill
<1>8. ~ Fetch(w)
  <2>1. SUFFICES ASSUME Fetch(w) PROVE FALSE
    OBVIOUS
  <2>2. theirs[run[w].key] \subseteq Actor
    BY <2>1 DEF Fetch, At, Typed, TypeOK, Tasks, Syncing
  <2> QED
    BY <1>1, <2>1, <2>2, FetchEffect DEF Fetch, Typed
<1>9. ~ Read(w)
  <2>1. SUFFICES ASSUME Read(w) PROVE FALSE
    OBVIOUS
  <2>2. PICK mine \in SUBSET Actor : mine = Partial(run[w].key)
    BY DEF Partial
  <2> QED
    BY <1>1, <2>1, <2>2, ReadEffect DEF Read, Typed
<1>10. ~ Reconcile(w)
  <2>1. SUFFICES ASSUME Reconcile(w) PROVE FALSE
    OBVIOUS
  <2>2. run[w].stage = "reconcile" /\ run[w].add \subseteq Actor /\ run[w].del \subseteq Actor
    BY <2>1, ReconcileCases DEF Typed, TypeOK, RunState
  <2>3. ~ Completes(w)
    BY <1>2 DEF Completes, Stage
  <2>4. \A f \in run[w].add : ~ Adds(w, f)
    BY <2>2, AddEffect DEF Adds, Typed
  <2>5. \A f \in run[w].del : ~ Removes(w, f)
    BY <2>2, DelEffect DEF Removes, Typed
  <2> QED
    BY <1>1, <2>1, <2>3, <2>4, <2>5, ReconcileCases
<1>11. Compute(w)
  BY <1>3, <1>4, <1>5, <1>6, <1>7, <1>8, <1>9, <1>10 DEF Step
<1>12. run' = [run EXCEPT ![w].stage = "fill", ![w].digest = Current(run[w].key)] /\ UNCHANGED edge
  BY <1>1, <1>11 DEF Compute
<1>13. run'[w].key = run[w].key /\ run'[w].digest = Current(run[w].key) /\ run[w].key \in Key
  BY <1>12, ComputeEffect DEF Typed, TypeOK, RunState
<1>14. ASSUME NEW k, k = run'[w].key PROVE run'[w].digest = Current(k)
  <2>1. k = run[w].key
    BY <1>13, <1>14
  <2> QED
    BY <1>13, <2>1
<1> QED
  BY <1>12, <1>13, <1>14

LEMMA FreshKept ==
  ASSUME Typed, Sources, Fresh, Next
  PROVE  Fresh'
<1>1. ASSUME NEW w \in Worker, Step(w)
      PROVE  Fresh'
  <2> versions' = versions
    BY <1>1, StepKeepsVersions
  <2>1. ASSUME NEW v \in Worker, run'[v].stage = "fill", NEW k, k = run'[v].key
        PROVE  run'[v].digest = Current(k)' \/ Late(v, k)'
    <3>1. CASE v = w
      BY <1>1, <2>1, <3>1, FillComesFromCompute DEF Current, Partial
    <3>2. CASE v # w
      <4>1. run'[v] = run[v] /\ k \in Key /\ moved[v] \subseteq moved'[v]
        BY <1>1, <2>1, <3>2, ListStep, MovedStays DEF Others, Typed, TypeOK, RunState
      <4>2. run[v].digest = Current(k) \/ Late(v, k)
        BY <2>1, <4>1 DEF Fresh
      <4>3. CASE edge' = edge
        BY <4>1, <4>2, <4>3 DEF Late, Current, Partial
      <4>4. ASSUME NEW d \in Pair, NEW b \in BOOLEAN, NEW l, Write(w, d, b, l)
            PROVE  run'[v].digest = Current(k)' \/ Late(v, k)'
        <5>1. \A g \in Pair : g # d => (g \in edge' <=> g \in edge)
          BY <4>4, WriteEffect DEF Typed
        <5>2. d \in moved'[v]
          BY <2>1, <3>2, <4>1, <4>4, WriteEffect DEF Typed, Holding
        <5>3. KeyOf(d) # k => Current(k)' = Current(k)
          BY <4>1, <5>1, CurrentStays
        <5> QED
          BY <4>1, <4>2, <5>2, <5>3 DEF Late
      <4>5. run[w].add \subseteq Actor /\ run[w].del \subseteq Actor /\ run[w].key[1] \in Actor
        BY DEF Typed, TypeOK, RunState, Key
      <4>6. Saves(w) => run[w].edge \in Pair /\ (run[w].kind # "leave") \in BOOLEAN
        BY EdgeOfTask DEF Saves, Asked
      <4> QED
        BY <1>1, <4>3, <4>4, <4>5, <4>6, EdgeStep DEF Saves, Adds, Removes, Pair
    <3> QED
      BY <3>1, <3>2
  <2> QED
    BY <2>1 DEF Fresh
<1>2. ASSUME NEW p \in Process, Crash(p) PROVE Fresh'
  <2>1. \A w \in Worker : run'[w].stage = "idle" \/ (run'[w] = run[w] /\ moved'[w] = moved[w])
    BY <1>2, CrashEffect DEF Typed
  <2>2. UNCHANGED <<edge, versions>>
    BY <1>2 DEF Crash, around
  <2> QED
    BY <2>1, <2>2 DEF Fresh, Late, Current, Partial
<1>3. ASSUME Outside PROVE Fresh'
  BY <1>3, OutsideKeeps DEF Fresh, Late, Current, Partial
<1>4. ASSUME NEW a \in Actor, SaveProfile(a) PROVE Fresh'
  <2>1. /\ run' = run
        /\ \A v \in Worker : moved[v] \subseteq moved'[v]
        /\ \A v \in Worker : run[v].stage = "fill" => <<a, a>> \in moved'[v]
    BY <1>4, ProfileEffect DEF Typed
  <2>2. ASSUME NEW v \in Worker, run[v].stage = "fill", NEW k \in Key, k = run[v].key
        PROVE  run[v].digest = Current(k)' \/ Late(v, k)'
    <3>1. CASE KeyOf(<<a, a>>) = k
      <4>1. PICK e : e = <<a, a>>
        OBVIOUS
      <4>2. e \in moved'[v] /\ KeyOf(e) = k
        BY <2>1, <2>2, <3>1, <4>1
      <4> QED
        BY <4>2 DEF Late
    <3>2. CASE KeyOf(<<a, a>>) # k
      <4>1. Current(k)' = Current(k)
        BY <1>4, <3>2, ProfileCounts DEF Typed
      <4>2. run[v].digest = Current(k) \/ Late(v, k)
        BY <2>2 DEF Fresh
      <4>3. Late(v, k) => Late(v, k)'
        BY <2>1 DEF Late
      <4> QED
        BY <4>1, <4>2, <4>3
    <3> QED
      BY <3>1, <3>2
  <2>3. \A v \in Worker : run[v].key \in Key
    BY DEF Typed, TypeOK, RunState
  <2> QED
    BY <2>1, <2>2, <2>3 DEF Fresh
<1> QED
  BY <1>1, <1>2, <1>3, <1>4, NextCases

(* A step that writes no edge and no entry, and gives up no eviction       *)
(* without saying so.                                                      *)
LEMMA StaleUntouched ==
  ASSUME StaleIsExcused, NEW w \in Worker, Others(w), UNCHANGED <<edge, versions, cache>>,
         \A p \in Process : excused[p] \subseteq excused'[p],
         \A k \in Key : Pending(w, k) /\ cache[Home[w]][k].some =>
                          k \in excused'[Home[w]] \/ Pending(w, k)'
  PROVE  StaleIsExcused'
<1>1. \A k \in Key : Current(k)' = Current(k)
  BY DEF Current, Partial
<1>2. \A v \in Worker : v # w => \A k \in Key : Pending(v, k) => Pending(v, k)'
  BY DEF Others, Pending, At
<1> QED
  BY <1>1, <1>2 DEF StaleIsExcused, Evicting

(* An edge is written: its entries are excused, but for the one which this *)
(* writer is about to evict.                                               *)
LEMMA StaleWritten ==
  ASSUME Typed, StaleIsExcused, NEW w \in Worker, NEW e \in Pair, NEW b \in BOOLEAN, NEW l \in Key,
         Write(w, e, b, l), Others(w), UNCHANGED <<cache, versions>>,
         Pending(w, l)', \A k \in Key : Pending(w, k) => k = l
  PROVE  StaleIsExcused'
<1>1. /\ \A d \in Pair : d # e => (d \in edge' <=> d \in edge)
      /\ \A p \in Process : excused[p] \subseteq excused'[p]
      /\ \A p \in Process : (p # Home[w] \/ KeyOf(e) # l) /\ cache[p][KeyOf(e)].some =>
           KeyOf(e) \in excused'[p]
  BY WriteEffect DEF Typed
<1>2. \A k \in Key : k # KeyOf(e) => Current(k)' = Current(k)
  BY <1>1, CurrentStays
<1>3. \A v \in Worker : v # w => \A k \in Key : Pending(v, k) => Pending(v, k)'
  BY DEF Others, Pending, At
<1>4. SUFFICES ASSUME NEW p \in Process, NEW k \in Key, cache'[p][k].some, cache'[p][k] # Current(k)'
               PROVE  k \in excused'[p] \/ \E v \in Worker : Home[v] = p /\ Pending(v, k)'
  BY DEF StaleIsExcused, Evicting
<1>5. CASE k = KeyOf(e)
  <2>1. CASE p = Home[w] /\ k = l
    BY <2>1
  <2>2. CASE p # Home[w] \/ k # l
    BY <1>1, <1>4, <1>5, <2>2
  <2> QED
    BY <2>1, <2>2
<1>6. CASE k # KeyOf(e)
  <2>1. k \in excused[p] \/ \E v \in Worker : Home[v] = p /\ Pending(v, k)
    BY <1>2, <1>4, <1>6 DEF StaleIsExcused, Evicting
  <2> QED
    BY <1>1, <1>3, <2>1
<1> QED
  BY <1>5, <1>6

LEMMA StaleEvicted ==
  ASSUME Typed, StaleIsExcused, NEW w \in Worker, NEW l \in Key, EvictFollowersDigest(w, l),
         UNCHANGED <<edge, versions>>, \A k \in Key : Pending(w, k) => k = l
  PROVE  StaleIsExcused'
<1>1. /\ Others(w) /\ cache'[Home[w]][l] = NoDigest
      /\ \A p \in Process : \A k \in Key : p # Home[w] \/ k # l =>
           cache'[p][k] = cache[p][k] /\ (k \in excused'[p] <=> k \in excused[p])
  BY EvictEffect DEF Typed
<1>2. ~ NoDigest.some
  BY DEF NoDigest
<1>3. \A k \in Key : Current(k)' = Current(k)
  BY DEF Current, Partial
<1>4. \A v \in Worker : v # w => \A k \in Key : Pending(v, k) => Pending(v, k)'
  BY <1>1 DEF Others, Pending, At
<1> QED
  BY <1>1, <1>2, <1>3, <1>4 DEF StaleIsExcused, Evicting

LEMMA StaleFilled ==
  ASSUME Typed, Fresh, StaleIsExcused, NEW w \in Worker, Fill(w)
  PROVE  StaleIsExcused'
<1>1. PICK l \in Key : l = run[w].key
  BY DEF Typed, TypeOK, RunState
<1>2. PICK d \in Digest : d = run[w].digest
  BY DEF Typed, TypeOK, RunState
<1>3. Others(w) /\ UNCHANGED <<edge, versions>> /\ \A k \in Key : ~ Pending(w, k)
  BY CompareEffect DEF Fill, Typed, Pending, At, around
<1>4. \A k \in Key : Current(k)' = Current(k)
  BY <1>3 DEF Current, Partial
<1>5. \A v \in Worker : v # w => \A k \in Key : Pending(v, k) => Pending(v, k)'
  BY <1>3 DEF Others, Pending, At
<1>6. d = Current(l) \/ Late(w, l)
  BY <1>1, <1>2 DEF Fill, At, Fresh
<1>7. CASE ~ d.some
  BY <1>2, <1>3, <1>7, StaleUntouched DEF Fill
<1>8. CASE d.some
  <2>1. cache' = [cache EXCEPT ![Home[w]][l] = d]
    BY <1>1, <1>2, <1>8 DEF Fill
  <2>2. excused' = [excused EXCEPT ![Home[w]] = IF Late(w, l) THEN @ \cup {l} ELSE @ \ {l}]
    BY <1>1, <1>2, <1>8 DEF Fill, Late
  <2>3. Home[w] \in Process /\ cache \in [Process -> [Key -> Digest]]
        /\ excused \in [Process -> SUBSET Key]
    BY FollowersAssumption DEF Typed, TypeOK
  <2>4. /\ cache'[Home[w]][l] = d
        /\ Late(w, l) => l \in excused'[Home[w]]
        /\ \A p \in Process : \A k \in Key : p # Home[w] \/ k # l =>
             cache'[p][k] = cache[p][k] /\ (k \in excused'[p] <=> k \in excused[p])
    BY <2>1, <2>2, <2>3
  <2> QED
    BY <1>3, <1>4, <1>5, <1>6, <2>4 DEF StaleIsExcused, Evicting
<1> QED
  BY <1>7, <1>8

LEMMA StaleAfterFinish ==
  ASSUME Typed, StaleIsExcused, NEW w \in Worker, Finish(w), UNCHANGED <<edge, versions, cache>>
  PROVE  StaleIsExcused'
BY FinishEffect, StaleUntouched DEF Typed

(* A step of a worker that owes no eviction, and writes nothing.           *)
LEMMA StaleByQuiet ==
  ASSUME Typed, StaleIsExcused, NEW w \in Worker, Step(w), UNCHANGED <<edge, cache, excused>>,
         run[w].stage \notin {"evict", "reconcile", "clear"}
  PROVE  StaleIsExcused'
<1>1. Others(w)
  BY ListStep
<1>2. \A k \in Key : ~ Pending(w, k)
  BY DEF Pending, At
<1> QED
  BY <1>1, <1>2, StaleUntouched, StepKeepsVersions

LEMMA StaleByStep ==
  ASSUME Typed, Sources, Fresh, StaleIsExcused, NEW w \in Worker, Step(w)
  PROVE  StaleIsExcused'
<1> versions' = versions
  BY StepKeepsVersions
<1>1. Others(w)
  BY ListStep
<1>2. ASSUME NEW c \in Change, Take(w, c) PROVE StaleIsExcused'
  BY <1>2, StaleByQuiet DEF Take, At
<1>3. ASSUME NEW h \in header, TakeSync(w, h) PROVE StaleIsExcused'
  BY <1>3, StaleByQuiet DEF TakeSync, At
<1>4. ASSUME Dispatch(w) \/ SaveState(w) \/ Fetch(w) \/ Read(w) PROVE StaleIsExcused'
  <2>1. UNCHANGED <<edge, cache>> /\ run[w].stage \notin {"evict", "reconcile", "clear"}
    BY <1>4 DEF Dispatch, SaveState, Fetch, Read, At
  <2>2. Finish(w) \/ UNCHANGED excused
    BY <1>4 DEF Dispatch, SaveState, Fetch, Read
  <2> QED
    BY <2>1, <2>2, StaleAfterFinish, StaleByQuiet
<1>5. ASSUME Lookup(w) \/ Compute(w) PROVE StaleIsExcused'
  BY <1>5, StaleByQuiet DEF Lookup, Compute, At
<1>6. ASSUME SaveEdge(w) PROVE StaleIsExcused'
  <2>1. cache' = cache /\ run[w].stage = "edge"
    BY <1>6 DEF SaveEdge, At
  <2>2. CASE Finish(w) /\ UNCHANGED edge
    BY <2>1, <2>2, StaleAfterFinish
  <2>3. CASE Saves(w)
    <3>1. run[w].edge \in Pair /\ (run[w].kind # "leave") \in BOOLEAN
      BY <2>1, EdgeOfTask DEF Asked
    <3>2. run'[w].stage = "evict" /\ Same(w)
      BY <2>3, GotoEffect DEF Saves, Typed, TypeOK, RunTyped, Stage
    <3>3. PICK e \in Pair : e = run[w].edge
      BY <3>1
    <3>4. PICK l \in Key : l = KeyOf(e)
      BY <2>1, <3>3, EdgeOfTask DEF Asked
    <3>5. Pending(w, l)' /\ \A k \in Key : ~ Pending(w, k)
      BY <2>1, <3>2, <3>3, <3>4 DEF Pending, At, Same, KeyOf
    <3> QED
      BY <1>1, <2>1, <2>3, <3>1, <3>3, <3>4, <3>5, StaleWritten DEF Saves
  <2> QED
    BY <1>6, <2>2, <2>3 DEF SaveEdge, Saves, At
<1>7. ASSUME Reconcile(w) PROVE StaleIsExcused'
  <2>1. cache' = cache /\ run[w].stage = "reconcile" /\ run[w].key[1] \in Actor
        /\ run[w].add \subseteq Actor /\ run[w].del \subseteq Actor
    BY <1>7, ReconcileCases DEF around, Typed, TypeOK, RunState, Key
  <2>2. CASE Finish(w) /\ UNCHANGED edge
    BY <2>1, <2>2, StaleAfterFinish
  <2>3. CASE Completes(w)
    <3>1. run'[w].stage = "clear" /\ Same(w)
      BY <2>3, GotoEffect DEF Completes, Typed, TypeOK, RunTyped, Stage
    <3>2. \A k \in Key : Pending(w, k) => Pending(w, k)'
      BY <2>1, <3>1 DEF Pending, At, Same
    <3> QED
      BY <1>1, <2>1, <2>3, <3>2, StaleUntouched DEF Completes
  <2>4. ASSUME NEW f \in run[w].add \cup run[w].del, NEW b \in BOOLEAN,
               Write(w, <<run[w].key[1], f>>, b, run[w].key),
               run'[w].stage = "reconcile", run'[w].key = run[w].key
        PROVE  StaleIsExcused'
    <3>1. PICK e \in Pair : e = <<run[w].key[1], f>>
      BY <2>1 DEF Pair
    <3>2. PICK l \in Key : l = run[w].key
      BY DEF Typed, TypeOK, RunState
    <3>3. Pending(w, l)' /\ \A k \in Key : Pending(w, k) => k = l
      BY <2>1, <2>4, <3>2 DEF Pending, At
    <3> QED
      BY <1>1, <2>1, <2>4, <3>1, <3>2, <3>3, StaleWritten
  <2>5. ASSUME NEW f \in run[w].add, Adds(w, f) PROVE StaleIsExcused'
    <3>1. run'[w].stage = "reconcile" /\ run'[w].key = run[w].key
      BY <2>1, <2>5, AddEffect DEF Adds, Same, Typed
    <3> QED
      BY <2>4, <2>5, <3>1 DEF Adds
  <2>6. ASSUME NEW f \in run[w].del, Removes(w, f) PROVE StaleIsExcused'
    <3>1. run'[w].stage = "reconcile" /\ run'[w].key = run[w].key
      BY <2>1, <2>6, DelEffect DEF Removes, Same, Typed
    <3> QED
      BY <2>4, <2>6, <3>1 DEF Removes
  <2> QED
    BY <1>7, <2>2, <2>3, <2>5, <2>6, ReconcileCases
<1>8. ASSUME Evict(w) PROVE StaleIsExcused'
  <2>1. PICK l \in Key : l = KeyOf(run[w].edge)
    BY <1>8, EdgeOfTask DEF Evict, At, Asked
  <2> QED
    BY <1>8, <2>1, StaleEvicted DEF Evict, Pending, At
<1>9. ASSUME Clear(w) PROVE StaleIsExcused'
  <2>1. PICK l \in Key : l = run[w].key
    BY DEF Typed, TypeOK, RunState
  <2> QED
    BY <1>9, <2>1, StaleEvicted DEF Clear, Pending, At
<1>10. ASSUME Abort(w) PROVE StaleIsExcused'
  BY <1>10, StaleAfterFinish DEF Abort
<1>11. Fill(w) => StaleIsExcused'
  BY StaleFilled
<1> QED
  BY <1>2, <1>3, <1>4, <1>5, <1>6, <1>7, <1>8, <1>9, <1>10, <1>11 DEF Step

LEMMA StaleByCrash ==
  ASSUME Typed, StaleIsExcused, NEW q \in Process, Crash(q)
  PROVE  StaleIsExcused'
<1>1. /\ UNCHANGED <<edge, versions>> /\ \A k \in Key : ~ cache'[q][k].some
      /\ \A p \in Process : p # q => cache'[p] = cache[p] /\ excused'[p] = excused[p]
      /\ \A w \in Worker : Home[w] # q => run'[w] = run[w]
  BY CrashEffect DEF Typed, around
<1>2. \A k \in Key : Current(k)' = Current(k)
  BY <1>1 DEF Current, Partial
<1>3. \A w \in Worker : Home[w] # q => \A k \in Key : Pending(w, k) => Pending(w, k)'
  BY <1>1 DEF Pending, At
<1> QED
  BY <1>1, <1>2, <1>3 DEF StaleIsExcused, Evicting

LEMMA StaleOutside ==
  ASSUME Typed, StaleIsExcused, Outside
  PROVE  StaleIsExcused'
<1>1. UNCHANGED <<edge, run, versions>>
  BY OutsideKeeps
<1>2. \A k \in Key : Current(k)' = Current(k) /\ \A w \in Worker : Pending(w, k) => Pending(w, k)'
  BY <1>1 DEF Current, Partial, Pending, At
<1>3. CASE UNCHANGED <<cache, excused>>
  BY <1>2, <1>3 DEF StaleIsExcused, Evicting
<1>4. ASSUME NEW q \in Process, NEW l \in Key, Expire(q, l) PROVE StaleIsExcused'
  <2>1. ~ NoDigest.some
    BY DEF NoDigest
  <2>2. /\ cache'[q][l] = NoDigest
        /\ \A p \in Process : \A k \in Key : p # q \/ k # l =>
             cache'[p][k] = cache[p][k] /\ (k \in excused'[p] <=> k \in excused[p])
    BY <1>4 DEF Expire, Typed, TypeOK
  <2> QED
    BY <1>2, <2>1, <2>2 DEF StaleIsExcused, Evicting
<1> QED
  BY <1>3, <1>4 DEF Outside, Publish, Forget

(* Another version of a profile: the entries of its key are excused.       *)
LEMMA StaleByProfile ==
  ASSUME Typed, StaleIsExcused, NEW a \in Actor, SaveProfile(a)
  PROVE  StaleIsExcused'
<1>1. /\ UNCHANGED <<run, cache>> /\ \A p \in Process : excused[p] \subseteq excused'[p]
      /\ \A p \in Process : \A k \in Key :
           k[1] = a /\ DomainOf[a] = k[2] /\ cache[p][k].some => k \in excused'[p]
  BY ProfileEffect DEF Typed
<1>2. SUFFICES ASSUME NEW p \in Process, NEW k \in Key, cache'[p][k].some, cache'[p][k] # Current(k)'
               PROVE  k \in excused'[p] \/ \E v \in Worker : Home[v] = p /\ Pending(v, k)'
  BY DEF StaleIsExcused, Evicting
<1>3. CASE KeyOf(<<a, a>>) = k
  BY <1>1, <1>2, <1>3 DEF KeyOf
<1>4. CASE KeyOf(<<a, a>>) # k
  <2>1. Current(k)' = Current(k)
    BY <1>4, ProfileCounts DEF Typed
  <2>2. k \in excused[p] \/ \E v \in Worker : Home[v] = p /\ Pending(v, k)
    BY <1>1, <1>2, <2>1 DEF StaleIsExcused, Evicting
  <2>3. \A v \in Worker : Pending(v, k) => Pending(v, k)'
    BY <1>1 DEF Pending, At
  <2> QED
    BY <1>1, <2>2, <2>3
<1> QED
  BY <1>3, <1>4

(* An entry that is not the digest of the edges has one of the excuses of  *)
(* StaleIsExcused, in every order of changes, syncs, failures and stops.   *)
THEOREM StaleDigestsAreExcused == Spec => []StaleIsExcused
<1> DEFINE I == Fresh /\ StaleIsExcused
<1>1. Init => I
  <2>1. Init => Fresh
    BY DEF Init, Fresh, Idle
  <2>2. Init => StaleIsExcused
    BY DEF Init, StaleIsExcused, NoDigest
  <2> QED
    BY <2>1, <2>2
<1>2. I /\ UNCHANGED vars => I'
  <2>1. ASSUME UNCHANGED vars
        PROVE  \A k : Current(k)' = Current(k) /\ \A w : (Pending(w, k)' <=> Pending(w, k)) /\ (Late(w, k)' <=> Late(w, k))
    BY <2>1 DEF vars, around, Current, Partial, Pending, At, Late
  <2> QED
    BY <2>1 DEF vars, Fresh, StaleIsExcused, Evicting
<1>3. Typed /\ Sources /\ I /\ [Next]_vars => I'
  BY <1>2, FreshKept, StaleByStep, StaleByCrash, StaleByProfile, StaleOutside, NextCases
<1> QED
  BY <1>1, <1>3, FollowersTyped, FollowersSources, PTL DEF Spec

==============================================================================
