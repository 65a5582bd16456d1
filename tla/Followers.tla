------------------------------ MODULE Followers ------------------------------
(***************************************************************************)
(* The followers of an actor: edges <<followed, follower>> in rdf_quads,   *)
(* written by three parts of the service that know nothing of each other.  *)
(*   - AcceptFollow and RejectFollow answer a stored Follow;               *)
(*   - a Join or a Leave makes and removes the members of a group;         *)
(*   - SyncFollowers (FEP-8fcf) aligns the edges that lead to one host     *)
(*     with the list which that host keeps, and adds whoever it names.     *)
(* A digest of the edges to a host is kept in a cache of each process.     *)
(* Every write goes through the database shared by the processes, one      *)
(* statement a step; only the cache of the writer is told of it.           *)
(***************************************************************************)
EXTENDS Integers

CONSTANTS
  Process,          \* servers over one database
  Worker, Home,     \* goroutines, and the process each runs in
  Actor, Domain, DomainOf,
  Tenant,           \* domains served here: their actors have keys here
  Profiles,         \* versions of each actor's profile stored at the start
  Change,           \* answers to follows, joins and leaves that may be asked for
  Call,             \* <<actor, host>>, what SyncFollowers may be called with
  Existing,         \* edges at the start
  Believed,         \* what each host holds of each call at the start
  Nobody,           \* the actor of an idle worker, stands for no one
  MaxForget,        \* bound: followers who leave at their host
  MaxVersions,      \* bound: versions of one profile
  MaxFaults         \* bound: failing statements and calls, stops

Pair == Actor \X Actor
ChangeType == [kind: {"accept", "reject", "join", "leave"}, edge: Pair]

ASSUME FollowersAssumption ==
  /\ Home \in [Worker -> Process] /\ DomainOf \in [Actor -> Domain]
  /\ Tenant \subseteq Domain /\ Profiles \in [Actor -> Nat]
  /\ Change \subseteq ChangeType /\ Call \subseteq Actor \X Domain
  /\ Existing \subseteq Pair
  /\ Believed \in [Call -> SUBSET Actor]
  /\ Nobody \in Actor
  /\ MaxForget \in Nat /\ MaxVersions \in Nat /\ MaxFaults \in Nat

VARIABLES
  edge,     \* follower edges
  state,    \* changes whose state quad is stored: accepted or rejected follows
  told,     \* answers that reached the follower's host
  theirs,   \* the followers each host holds of each call
  header,   \* Collection-Synchronization headers sent; they arrive at any time
  versions, \* stored versions of each actor's profile
  cache,    \* each process: the digests it holds, by <<actor, host>>
  run,      \* each worker: its task, its next step and its local variables
  moved,    \* history: edges changed by others since the worker read them
  excused,  \* history: entries of each process that may be stale, see StaleIsExcused
  forgets, faults

around == <<theirs, header, forgets, versions>>
vars == <<edge, state, told, around, cache, run, moved, excused, faults>>

------------------------------------------------------------------------------
(* ComputeFollowersDigest: the exclusive or of the hashes of all followers *)
(* of a domain stands for the set of those listed an odd number of times.  *)
(* Edges are listed once; the IRI of the actor's own collection is listed  *)
(* by each version of the profile.  "" (not some) when nothing is listed.  *)
Key == Actor \X Domain
KeyOf(e) == <<e[1], DomainOf[e[2]]>>
Digest == [some: BOOLEAN, own: BOOLEAN, of: SUBSET Actor]
NoDigest == [some |-> FALSE, own |-> FALSE, of |-> {}]
ComputeFollowersDigest(n, of) == [some |-> of # {} \/ n > 0, own |-> n % 2 = 1, of |-> of]

(* GetFollowersTimeline, GetPartialFollowers. *)
Partial(k) == {f \in Actor : <<k[1], f>> \in edge /\ DomainOf[f] = k[2]}
Current(k) ==
  ComputeFollowersDigest(IF DomainOf[k[1]] = k[2] THEN versions[k[1]] ELSE 0, Partial(k))

Header == [call: Call, digest: Digest]
Stage == {"idle", "dispatch", "state", "edge", "evict",
          "lookup", "compute", "fill", "fetch", "read", "reconcile", "clear"}
RunState == [stage: Stage, kind: {"accept", "reject", "join", "leave", "sync"}, edge: Pair,
             key: Key, expected: Digest, digest: Digest, list: SUBSET Actor,
             add: SUBSET Actor, del: SUBSET Actor]

TypeOK ==
  /\ edge \subseteq Pair /\ state \subseteq Change /\ told \subseteq Change
  /\ theirs \in [Call -> SUBSET Actor] /\ header \subseteq Header
  /\ cache \in [Process -> [Key -> Digest]]
  /\ run \in [Worker -> RunState]
  /\ moved \in [Worker -> SUBSET Pair] /\ excused \in [Process -> SUBSET Key]
  /\ versions \in [Actor -> Nat] /\ forgets \in 0..MaxForget /\ faults \in 0..MaxFaults

Idle == [stage |-> "idle", kind |-> "sync", edge |-> <<Nobody, Nobody>>,
         key |-> <<Nobody, DomainOf[Nobody]>>, expected |-> NoDigest, digest |-> NoDigest,
         list |-> {}, add |-> {}, del |-> {}]

Init ==
  /\ edge = Existing /\ state = {} /\ told = {}
  /\ theirs = Believed /\ header = {}
  /\ cache = [p \in Process |-> [k \in Key |-> NoDigest]]
  /\ run = [w \in Worker |-> Idle]
  /\ moved = [w \in Worker |-> {}] /\ excused = [p \in Process |-> {}]
  /\ versions = Profiles /\ forgets = 0 /\ faults = 0

------------------------------------------------------------------------------
At(w, s) == run[w].stage = s
Faulty == faults < MaxFaults /\ faults' = faults + 1
Goto(w, s) == run' = [run EXCEPT ![w].stage = s]

(* A worker that read edges, and has yet to use what it read. *)
Holding(w) == run[w].stage \in {"fill", "reconcile", "clear"}

(* The key whose entry the worker will evict, if nothing stops it. *)
Pending(w, k) ==
  \/ At(w, "evict") /\ KeyOf(run[w].edge) = k
  \/ run[w].stage \in {"reconcile", "clear"} /\ run[w].key = k

(* The task ends, with an error or without; a promised eviction is lost. *)
Finish(w) ==
  /\ run' = [run EXCEPT ![w] = Idle]
  /\ moved' = [moved EXCEPT ![w] = {}]
  /\ excused' = [excused EXCEPT ![Home[w]] =
                   @ \cup {k \in Key : Pending(w, k) /\ cache[Home[w]][k].some}]

(* An edge changes under the eyes of whoever holds a list, and under the   *)
(* entries of its key, but for the one entry, k at this process, that the  *)
(* writer will evict.                                                      *)
Write(w, e, there, k) ==
  /\ edge' = IF there THEN edge \cup {e} ELSE edge \ {e}
  /\ moved' = [v \in Worker |-> IF v # w /\ Holding(v) THEN moved[v] \cup {e} ELSE moved[v]]
  /\ excused' = [p \in Process |->
                   IF (p # Home[w] \/ KeyOf(e) # k) /\ cache[p][KeyOf(e)].some
                   THEN excused[p] \cup {KeyOf(e)} ELSE excused[p]]

(* evictFollowersDigest, the last step of a task: the entry of this        *)
(* process goes.                                                           *)
EvictFollowersDigest(w, k) ==
  /\ cache' = [cache EXCEPT ![Home[w]][k] = NoDigest]
  /\ excused' = [excused EXCEPT ![Home[w]] = @ \ {k}]
  /\ run' = [run EXCEPT ![w] = Idle]
  /\ moved' = [moved EXCEPT ![w] = {}]

------------------------------------------------------------------------------
(* Broken variant: the state is stored before the answer is sent.          *)
TakeStateFirst(w, c) ==
  /\ At(w, "idle")
  /\ run' = [run EXCEPT ![w] = [Idle EXCEPT
       !.stage = IF c.kind \in {"accept", "reject"} THEN "state" ELSE "edge",
       !.kind = c.kind, !.edge = c.edge]]
  /\ UNCHANGED <<edge, state, told, around, cache, moved, excused, faults>>

(* AcceptFollow and RejectFollow: nothing asks whether the follow has been *)
(* answered before.  A Join or a Leave goes straight to its edge.          *)
Take(w, c) ==
  /\ At(w, "idle")
  /\ run' = [run EXCEPT ![w] = [Idle EXCEPT
       !.stage = IF c.kind \in {"accept", "reject"} THEN "dispatch" ELSE "edge",
       !.kind = c.kind, !.edge = c.edge]]
  /\ UNCHANGED <<edge, state, told, around, cache, moved, excused, faults>>

Task(w) == [kind |-> run[w].kind, edge |-> run[w].edge]
Remote(a) == DomainOf[a] \notin Tenant

(* What the follower's host believes after it got the answer. *)
Told(c) ==
  /\ told' = told \cup {c}
  /\ theirs' = [k \in Call |-> IF c.kind = "accept" /\ k = KeyOf(c.edge)
                               THEN theirs[k] \cup {c.edge[2]} ELSE theirs[k]]

(* handleFollowResponse sends the answer before it stores anything.  A     *)
(* local follower has no inbox to send to; an answer may get through and   *)
(* be reported as failed.                                                  *)
Dispatch(w) ==
  /\ At(w, "dispatch")
  /\ \/ Remote(run[w].edge[2]) /\ Told(Task(w)) /\ Goto(w, "state")
        /\ UNCHANGED <<moved, excused, faults>>
     \/ ~ Remote(run[w].edge[2]) /\ Finish(w) /\ UNCHANGED <<told, theirs, faults>>
     \/ Faulty /\ Finish(w) /\ (UNCHANGED <<told, theirs>> \/ Told(Task(w)))
  /\ UNCHANGED <<edge, state, header, forgets, versions, cache>>

(* Broken variant: a follow that is rejected gets its edge all the same.   *)
SaveStateAnyKind(w) ==
  /\ At(w, "state")
  /\ \/ state' = state \cup {Task(w)} /\ Goto(w, "edge") /\ UNCHANGED <<moved, excused>>
     \/ Finish(w) /\ UNCHANGED state
  /\ UNCHANGED <<edge, told, around, cache, faults>>

(* saveFollowStateTransition: the state, then the edge of an Accept, then  *)
(* the eviction.  The database may refuse a quad without a graph (see      *)
(* GraphStore): the second disjunct here and in SaveEdge and Reconcile.    *)
SaveState(w) ==
  /\ At(w, "state")
  /\ \/ /\ state' = state \cup {Task(w)}
        /\ Goto(w, IF run[w].kind = "accept" THEN "edge" ELSE "evict")
        /\ UNCHANGED <<moved, excused>>
     \/ Finish(w) /\ UNCHANGED state
  /\ UNCHANGED <<edge, told, around, cache, faults>>

SaveEdge(w) ==
  /\ At(w, "edge")
  /\ \/ Write(w, run[w].edge, run[w].kind # "leave", KeyOf(run[w].edge))
        /\ Goto(w, "evict") /\ UNCHANGED faults
     \/ run[w].kind # "leave" /\ Finish(w) /\ UNCHANGED <<edge, faults>>
     \/ run[w].kind = "leave" /\ Faulty /\ Finish(w) /\ UNCHANGED edge
  /\ UNCHANGED <<state, told, around, cache>>

(* Broken variant: the entry of the wrong host is evicted.                 *)
EvictOwnHost(w) ==
  /\ At(w, "evict") /\ EvictFollowersDigest(w, <<run[w].edge[1], DomainOf[run[w].edge[1]]>>)
  /\ UNCHANGED <<edge, state, told, around, faults>>

Evict(w) ==
  /\ At(w, "evict") /\ EvictFollowersDigest(w, KeyOf(run[w].edge))
  /\ UNCHANGED <<edge, state, told, around, faults>>

------------------------------------------------------------------------------
(* A host sends the digest of what it believes; an empty one is no header. *)
Publish(c) ==
  /\ theirs[c] # {}
  /\ header' = header \cup {[call |-> c, digest |-> [some |-> TRUE, own |-> FALSE, of |-> theirs[c]]]}
  /\ UNCHANGED <<edge, state, told, theirs, forgets, versions, cache, run, moved, excused, faults>>

(* A follower leaves at its host; the message that says so is lost.        *)
Forget(c, f) ==
  /\ f \in theirs[c] /\ forgets < MaxForget
  /\ theirs' = [theirs EXCEPT ![c] = @ \ {f}] /\ forgets' = forgets + 1
  /\ UNCHANGED <<edge, state, told, header, versions, cache, run, moved, excused, faults>>

(* SyncFollowers in the goroutine of a header: the host of the collection  *)
(* is that of its URL.  First the entry of the cache is looked up.         *)
TakeSync(w, h) ==
  /\ At(w, "idle")
  /\ run' = [run EXCEPT ![w] = [Idle EXCEPT !.stage = "lookup", !.key = h.call, !.expected = h.digest]]
  /\ UNCHANGED <<edge, state, told, around, cache, moved, excused, faults>>

(* An equal digest ends the task, another one goes on to fetch the list;   *)
(* neither digest is used again.                                           *)
Compare(w, d) ==
  /\ run' = [run EXCEPT ![w] = IF d = run[w].expected THEN Idle
                              ELSE [Idle EXCEPT !.stage = "fetch", !.key = run[w].key]]
  /\ moved' = [moved EXCEPT ![w] = {}]

Lookup(w) ==
  /\ At(w, "lookup")
  /\ LET d == cache[Home[w]][run[w].key]
     IN IF d.some THEN Compare(w, d) ELSE Goto(w, "compute") /\ UNCHANGED moved
  /\ UNCHANGED <<edge, state, told, around, cache, excused, faults>>

(* getOrComputeFollowersDigest reads the edges; an error is the digest ""  *)
(* and is neither reported nor stored.                                     *)
Compute(w) ==
  /\ At(w, "compute")
  /\ \/ /\ run' = [run EXCEPT ![w].stage = "fill", ![w].digest = Current(run[w].key)]
        /\ UNCHANGED <<moved, faults>>
     \/ Faulty /\ Compare(w, NoDigest)
  /\ UNCHANGED <<edge, state, told, around, cache, excused>>

(* ... and sets the entry, by then perhaps after a change and its eviction.*)
Fill(w) ==
  /\ At(w, "fill")
  /\ LET k == run[w].key  d == run[w].digest  p == Home[w]
         late == \E e \in moved[w] : KeyOf(e) = k
     IN /\ cache' = IF d.some THEN [cache EXCEPT ![p][k] = d] ELSE cache
        /\ Compare(w, d)
        /\ excused' = IF d.some
             THEN [excused EXCEPT ![p] = IF late THEN @ \cup {k} ELSE @ \ {k}]
             ELSE excused
  /\ UNCHANGED <<edge, state, told, around, faults>>

(* fetchRemoteFollowers signs with the server actor of the domain of the   *)
(* actor: without a tenant there it fails.  The list may name anyone.      *)
Fetch(w) ==
  /\ At(w, "fetch")
  /\ LET k == run[w].key
     IN \/ /\ ~ Remote(k[1])
           /\ run' = [run EXCEPT ![w].stage = "read", ![w].list = theirs[k]]
           /\ UNCHANGED <<moved, excused, faults>>
        \/ Remote(k[1]) /\ Finish(w) /\ UNCHANGED faults
        \/ Faulty /\ Finish(w)
  /\ UNCHANGED <<edge, state, told, around, cache>>

(* Broken variant: the local side is not cut down to the host.             *)
ReadAll(w) ==
  /\ At(w, "read")
  /\ LET mine == {f \in Actor : <<run[w].key[1], f>> \in edge}
     IN run' = [run EXCEPT ![w].stage = "reconcile", ![w].add = run[w].list \ mine,
                           ![w].del = mine \ run[w].list]
  /\ UNCHANGED <<edge, state, told, around, cache, moved, excused, faults>>

(* Broken variant: additions and removals are computed the wrong way round.*)
ReadSwapped(w) ==
  /\ At(w, "read")
  /\ LET mine == Partial(run[w].key)
     IN run' = [run EXCEPT ![w].stage = "reconcile", ![w].add = mine \ run[w].list,
                           ![w].del = run[w].list \ mine]
  /\ UNCHANGED <<edge, state, told, around, cache, moved, excused, faults>>

(* The local side is read after the list has come, and is cut down to the  *)
(* host; the list is not.  The actor's own collection, which is among the  *)
(* followers read, is no edge to remove.                                   *)
Read(w) ==
  /\ At(w, "read")
  /\ \/ /\ LET mine == Partial(run[w].key)
           IN run' = [run EXCEPT ![w].stage = "reconcile", ![w].add = run[w].list \ mine,
                                 ![w].del = mine \ run[w].list]
        /\ UNCHANGED <<moved, excused, faults>>
     \/ Faulty /\ Finish(w)
  /\ UNCHANGED <<edge, state, told, around, cache>>

(* reconcileFollowers: the additions, then the removals, one statement     *)
(* each; the first that fails ends the task and what is written stays.     *)
Reconcile(w) ==
  /\ At(w, "reconcile")
  /\ LET a == run[w].key[1]
     IN \/ \E f \in run[w].add :
             \/ /\ Write(w, <<a, f>>, TRUE, run[w].key) /\ run' = [run EXCEPT ![w].add = @ \ {f}]
                /\ UNCHANGED faults
             \/ Finish(w) /\ UNCHANGED <<edge, faults>>
        \/ /\ run[w].add = {}
           /\ \E f \in run[w].del :
                \/ /\ Write(w, <<a, f>>, FALSE, run[w].key) /\ run' = [run EXCEPT ![w].del = @ \ {f}]
                   /\ UNCHANGED faults
                \/ Faulty /\ Finish(w) /\ UNCHANGED edge
        \/ /\ run[w].add = {} /\ run[w].del = {} /\ Goto(w, "clear")
           /\ UNCHANGED <<edge, moved, excused, faults>>
  /\ UNCHANGED <<state, told, around, cache>>

Clear(w) ==
  /\ At(w, "clear") /\ EvictFollowersDigest(w, run[w].key)
  /\ UNCHANGED <<edge, state, told, around, faults>>

------------------------------------------------------------------------------
(* The context of a task ends (30 seconds for a sync), or a panic ends it. *)
Abort(w) ==
  /\ ~ At(w, "idle") /\ Faulty /\ Finish(w)
  /\ UNCHANGED <<edge, state, told, around, cache>>

(* A process stops with all its workers, and its cache with it.            *)
Crash(p) ==
  /\ Faulty
  /\ run' = [w \in Worker |-> IF Home[w] = p THEN Idle ELSE run[w]]
  /\ moved' = [w \in Worker |-> IF Home[w] = p THEN {} ELSE moved[w]]
  /\ cache' = [cache EXCEPT ![p] = [k \in Key |-> NoDigest]]
  /\ excused' = [excused EXCEPT ![p] = {}]
  /\ UNCHANGED <<edge, state, told, around>>

(* An activity that carries the profile of an actor is saved: another      *)
(* version lists the actor's own collection, which counts in the digest of *)
(* the actor's own host, and no entry is evicted.  In moved the collection *)
(* stands as <<a, a>>.                                                     *)
SaveProfile(a) ==
  LET k == <<a, DomainOf[a]>>
  IN /\ versions[a] < MaxVersions
     /\ versions' = [versions EXCEPT ![a] = @ + 1]
     /\ moved' = [v \in Worker |-> IF At(v, "fill") THEN moved[v] \cup {<<a, a>>} ELSE moved[v]]
     /\ excused' = [p \in Process |-> IF cache[p][k].some THEN excused[p] \cup {k} ELSE excused[p]]
     /\ UNCHANGED <<edge, state, told, theirs, header, forgets, cache, run, faults>>

(* An entry expires, or the cache makes room. *)
Expire(p, k) ==
  /\ cache[p][k].some
  /\ cache' = [cache EXCEPT ![p][k] = NoDigest] /\ excused' = [excused EXCEPT ![p] = @ \ {k}]
  /\ UNCHANGED <<edge, state, told, around, run, moved, faults>>

Next ==
  \/ \E w \in Worker :
       \/ \E c \in Change : Take(w, c)
       \/ Dispatch(w) \/ SaveState(w) \/ SaveEdge(w) \/ Evict(w)
       \/ \E h \in header : TakeSync(w, h)
       \/ Lookup(w) \/ Compute(w) \/ Fill(w) \/ Fetch(w) \/ Read(w)
       \/ Reconcile(w) \/ Clear(w) \/ Abort(w)
  \/ \E a \in Actor : SaveProfile(a)
  \/ \E c \in Call : Publish(c) \/ \E f \in Actor : Forget(c, f)
  \/ \E p \in Process : Crash(p) \/ \E k \in Key : Expire(p, k)

Spec == Init /\ [][Next]_vars

------------------------------------------------------------------------------
(* A follow whose state is stored was answered so: handleFollowResponse    *)
(* stores an Accept or a Reject only after the follower's host got it,     *)
(* whatever fails in between.                                              *)
StoredIsTold == state \subseteq told

(* Whoever is a follower was one at the start, was told of an Accept, had  *)
(* its Join taken or stood in the list that some host keeps of this actor  *)
(* (not always its own host): no reject, leave or sync, in whatever order  *)
(* they write, invents an edge.                                            *)
EdgeHasOrigin ==
  \A e \in edge \ Existing :
    \/ \E c \in told : c.kind = "accept" /\ c.edge = e
    \/ \E c \in Change : c.kind = "join" /\ c.edge = e
    \/ \E c \in Call : c[1] = e[1] /\ e[2] \in Believed[c]

(* reconcileFollowers removes no follower who lives at another host than   *)
(* the one that sent the list: that host cannot be asked about them, and   *)
(* removing them would lose them for good.  It adds nobody who is not in   *)
(* the list, and nobody to another actor.                                  *)
SyncKeepsOtherHosts ==
  [][\A w \in Worker : At(w, "reconcile") /\ run'[w] # run[w] =>
       /\ \A e \in edge \ edge' : KeyOf(e) = run[w].key
       /\ \A e \in edge' \ edge : e[1] = run[w].key[1] /\ e[2] \in run[w].list]_vars

(* When SyncFollowers ends well, the followers here and in the list differ *)
(* only where somebody else wrote an edge after the local side was read.   *)
SyncAgrees ==
  \A w \in Worker : At(w, "clear") =>
    \A f \in Actor : DomainOf[f] = run[w].key[2] =>
      LET e == <<run[w].key[1], f>>
      IN (e \in edge) # (f \in run[w].list) => e \in moved[w]

Evicting(p, k) == \E w \in Worker : Home[w] = p /\ Pending(w, k)

(* "absolute freshness with zero stale data" (architecture_blueprint.md,   *)
(* 7.6.1): an entry of the cache is the digest of the edges there are, or  *)
(* a worker of this process that changed them is about to evict it.        *)
CacheIsFresh ==
  \A p \in Process : \A k \in Key :
    cache[p][k].some /\ cache[p][k] # Current(k) => Evicting(p, k)

(* ... or one of the ways was taken for which the code has no eviction:    *)
(* another process changed the edges, the writer was ended before its      *)
(* eviction, a reconciliation failed half way or added a follower of       *)
(* another host, another version of the actor's profile was stored, or the *)
(* entry was set by a task that had read before one of these.              *)
StaleIsExcused ==
  \A p \in Process : \A k \in Key :
    cache[p][k].some /\ cache[p][k] # Current(k) => k \in excused[p] \/ Evicting(p, k)
==============================================================================
