------------------------------- MODULE Intake --------------------------------
(* How activities reach the inbound queue: by POST, through the rate       *)
(* limiter and handlePost, and by the backfill of a remote conversation,   *)
(* which a processed activity starts in a goroutine of its own.  Both end  *)
(* in EnqueueInbound, and neither knows of the other.                      *)
(* The workers of InboundQueue are one step here, ProcessInboundTask.  One *)
(* remote thread stands for all: the collection that `contextHistory` or,  *)
(* without it, `context` of an object names, at a host not the object's.   *)
EXTENDS RateLimiter, Sequences

CONSTANTS
  Entry,              \* the process that serves each request
  Limited,            \* requests to a collection path: the others pass by the limiter
  Iri, ObjectOf,      \* activities and objects; what an activity is about
  Names,              \* the activity of each request
  Tenant, TenantOf,   \* the tenant each request is addressed to
  Owner, Nowhere,     \* the tenant whose domain an IRI is at, if it is one of ours
  Member,             \* objects that name the thread
  History,            \* whether they name it by contextHistory
  Collection,         \* its items: [iri, inline], by reference or in full
  Filler, Home,       \* backfill goroutines, and the process each may run in
  Blank,              \* the object of an idle goroutine, stands for none
  MaxFaults           \* bound: failing statements and fetches, timeouts, crashes

Item == [iri: Iri, inline: BOOLEAN]

ASSUME IntakeAssumption ==
  /\ Entry \in [Request -> Process] /\ Limited \subseteq Request
  /\ ObjectOf \in [Iri -> Iri] /\ Names \in [Request -> Iri]
  /\ TenantOf \in [Request -> Tenant]
  /\ Nowhere \notin Tenant /\ Owner \in [Iri -> Tenant \cup {Nowhere}]
  /\ IsFiniteSet(Iri) /\ Member \subseteq Iri /\ Blank \in Iri
  /\ History \in BOOLEAN /\ Collection \in Seq(Item)
  /\ Home \in [Filler -> Process]
  /\ MaxFaults \in Nat

VARIABLES
  req,         \* how far each request is
  queue,       \* inbound_activity_queue: the status and object_iri of each activity
  deliveries,  \* activity_tenant_deliveries
  stored,      \* objects with a version in rdf_graphs
  thread,      \* subjects of a context quad that leads to the thread
  run,         \* each backfill: its next step and its local variables
  promised,    \* history: items of the collections fetched
  lost,        \* history: items given up
  applied,     \* history: activities whose processing stored a version
  shadowed,    \* history: activities that a backfill was the first to enqueue
  met,         \* history: what became of the thread, see ThreadIsFetched
  faults

tables == <<queue, deliveries>>
graph == <<stored, thread, applied>>
backfill == <<run, promised, lost, shadowed, met>>
vars == <<limiter, req, tables, graph, backfill, faults>>

------------------------------------------------------------------------------
Row == [status: {"none", "pending", "done"}, object: Iri]
Progress == {"new", "handle", "answer", "accepted", "throttled", "refused", "lost"}
RunState == [stage: {"idle", "count", "fetch", "item", "get", "put"}, object: Iri,
             left: Seq(Item)]
Met == [started: BOOLEAN, fetched: BOOLEAN, crowded: BOOLEAN, spoiled: BOOLEAN]

TypeOK ==
  /\ LimiterTypeOK
  /\ req \in [Request -> Progress]
  /\ queue \in [Iri -> Row] /\ deliveries \subseteq Iri \X Tenant
  /\ stored \subseteq Iri /\ thread \subseteq Iri
  /\ run \in [Filler -> RunState]
  /\ promised \subseteq Iri /\ lost \subseteq Iri
  /\ applied \subseteq Iri /\ shadowed \subseteq Iri
  /\ met \in Met
  /\ faults \in 0..MaxFaults

Idle == [stage |-> "idle", object |-> Blank, left |-> <<>>]

Init ==
  /\ NewDomainRateLimiter
  /\ req = [r \in Request |-> "new"]
  /\ queue = [i \in Iri |-> [status |-> "none", object |-> i]]
  /\ deliveries = {} /\ stored = {} /\ thread = {} /\ applied = {}
  /\ run = [f \in Filler |-> Idle]
  /\ promised = {} /\ lost = {} /\ shadowed = {}
  /\ met = [started |-> FALSE, fetched |-> FALSE, crowded |-> FALSE, spoiled |-> FALSE]
  /\ faults = 0

Faulty == faults < MaxFaults /\ faults' = faults + 1
Advance(r, from, to) == req[r] = from /\ req' = [req EXCEPT ![r] = to]

(* Broken variant: the row takes the object of the last call.              *)
EnqueueInboundUpserting(i, o, t) ==
  /\ queue' = [queue EXCEPT ![i] =
       [status |-> IF @.status = "none" THEN "pending" ELSE @.status, object |-> o]]
  /\ deliveries' = deliveries \cup {<<i, t>>}

(* Broken variant: a known activity is no news to anyone.                  *)
EnqueueInboundOnce(i, o, t) ==
  IF queue[i].status = "none"
  THEN /\ queue' = [queue EXCEPT ![i] = [status |-> "pending", object |-> o]]
       /\ deliveries' = deliveries \cup {<<i, t>>}
  ELSE UNCHANGED tables

(* EnqueueInbound: one transaction.  A row that is there stays as it is,   *)
(* and the tenant is recorded either way.                                  *)
EnqueueInbound(i, o, t) ==
  /\ queue' = [queue EXCEPT ![i] =
       IF @.status = "none" THEN [status |-> "pending", object |-> o] ELSE @]
  /\ deliveries' = deliveries \cup {<<i, t>>}

------------------------------------------------------------------------------
(* DomainRateLimitMiddleware takes a POST that the tenant and signature    *)
(* middlewares let through.                                                *)
Admit(r) ==
  /\ Advance(r, "new", "handle")
  /\ IF r \in Limited THEN Allow(Entry[r], r) ELSE UNCHANGED limiter
  /\ UNCHANGED <<tables, graph, backfill, faults>>

Throttle(r) ==
  /\ r \in Limited /\ Deny(Entry[r], r)
  /\ Advance(r, "new", "throttled")
  /\ UNCHANGED <<tables, graph, backfill, faults>>

(* handlePost: the body, its depth, the local recipient that a shared      *)
(* inbox demands (a failed lookup counts as none), the activity, the       *)
(* tenant.  What it decides depends on the payload.                        *)
Refuse(r) ==
  /\ Advance(r, "handle", "refused")
  /\ UNCHANGED <<limiter, tables, graph, backfill, faults>>

(* The write is detached from the request, so that a client that goes away *)
(* does not undo it; an error is a 500, committed or not.                  *)
Enqueue(r) ==
  /\ Advance(r, "handle", "answer")
  /\ EnqueueInbound(Names[r], ObjectOf[Names[r]], TenantOf[r])
  /\ UNCHANGED <<limiter, graph, backfill, faults>>

EnqueueFails(r) ==
  /\ Faulty /\ Advance(r, "handle", "refused")
  /\ \/ EnqueueInbound(Names[r], ObjectOf[Names[r]], TenantOf[r])
     \/ UNCHANGED tables
  /\ UNCHANGED <<limiter, graph, backfill>>

Answer(r) ==
  /\ Advance(r, "answer", "accepted")
  /\ UNCHANGED <<limiter, tables, graph, backfill, faults>>

------------------------------------------------------------------------------
(* linkActivityToContextHistory: the activity joins the thread that its    *)
(* object names by contextHistory.  Named by context, the object joins.    *)
Joins(i, o) ==
  IF History THEN {i : x \in {o} \cap Member} ELSE {ObjectOf[i]} \cap Member

(* ProcessInboundTask takes a row.  It ends before it has stored anything, *)
(* or stores a version of the row's object and ends early, or goes on to   *)
(* the backfill.                                                           *)
Finish(i) ==
  /\ queue[i].status = "pending"
  /\ queue' = [queue EXCEPT ![i].status = "done"]
  /\ UNCHANGED <<limiter, req, deliveries, faults>>

Save(i) ==
  /\ stored' = stored \cup {queue[i].object}
  /\ thread' = thread \cup Joins(i, queue[i].object)
  /\ applied' = applied \cup {i}

(* The thread has two members before anyone has fetched it.                *)
Crowded == met.crowded \/ (~ met.fetched /\ Cardinality(thread') > 1)

Drop(i) == Finish(i) /\ UNCHANGED <<graph, backfill>>

SaveOnly(i) ==
  /\ Finish(i) /\ Save(i)
  /\ met' = [met EXCEPT !.crowded = Crowded]
  /\ UNCHANGED <<run, promised, lost, shadowed>>

SaveAndBackfill(f, i) ==
  /\ Finish(i) /\ Save(i)
  /\ queue[i].object \in Member
  /\ run[f].stage = "idle"
  /\ run' = [run EXCEPT ![f] = [Idle EXCEPT !.stage = "count", !.object = queue[i].object]]
  /\ met' = [met EXCEPT !.crowded = Crowded,
                        !.started = @ \/ Owner[queue[i].object] # Nowhere]
  /\ UNCHANGED <<promised, lost, shadowed>>

------------------------------------------------------------------------------
At(f, s) == run[f].stage = s
Goto(f, s) == run' = [run EXCEPT ![f].stage = s]
End(f) == run' = [run EXCEPT ![f] = Idle]
Items(q) == {q[n].iri : n \in DOMAIN q}
Early(f) == run[f].stage \in {"count", "fetch"}
Spoil(there) == [met EXCEPT !.spoiled = @ \/ there]

(* Broken variant: the object that is there itself counts as the thread.   *)
CountStrictly(f) ==
  /\ At(f, "count")
  /\ IF Cardinality(thread) > 0 THEN End(f) ELSE Goto(f, "fetch")
  /\ UNCHANGED <<limiter, req, tables, graph, promised, lost, shadowed, met, faults>>

(* maybeTriggerContextBackfill: a thread with a second member is known.    *)
Count(f) ==
  /\ At(f, "count")
  /\ IF Cardinality(thread) > 1 THEN End(f) ELSE Goto(f, "fetch")
  /\ UNCHANGED <<limiter, req, tables, graph, promised, lost, shadowed, met, faults>>

(* The quads of the object cannot be read: no backfill.  The members       *)
(* cannot be counted: it goes on.                                          *)
CountFails(f) ==
  /\ At(f, "count") /\ Faulty
  /\ \/ End(f) /\ met' = Spoil(TRUE)
     \/ Goto(f, "fetch") /\ UNCHANGED met
  /\ UNCHANGED <<limiter, req, tables, graph, promised, lost, shadowed>>

(* backfillRemoteContext signs as the server actor of the tenant at whose  *)
(* domain the object is: no tenant, no fetch.                              *)
Fetch(f) ==
  /\ At(f, "fetch") /\ Owner[run[f].object] # Nowhere
  /\ run' = [run EXCEPT ![f] = IF Collection = <<>> THEN Idle
                               ELSE [@ EXCEPT !.stage = "item", !.left = Collection]]
  /\ promised' = promised \cup Items(Collection)
  /\ met' = [met EXCEPT !.fetched = TRUE]
  /\ UNCHANGED <<limiter, req, tables, graph, lost, shadowed, faults>>

FetchNothing(f) ==
  /\ At(f, "fetch") /\ End(f)
  /\ \/ Owner[run[f].object] = Nowhere /\ UNCHANGED <<met, faults>>
     \/ Owner[run[f].object] # Nowhere /\ Faulty /\ met' = Spoil(TRUE)
  /\ UNCHANGED <<limiter, req, tables, graph, promised, lost, shadowed>>

------------------------------------------------------------------------------
(* ingestContextItem, for the items one after the other.                   *)
This(f) == Head(run[f].left)
NextItem(f) ==
  IF Len(run[f].left) = 1 THEN End(f)
  ELSE run' = [run EXCEPT ![f].stage = "item", ![f].left = Tail(@)]

(* Broken variant: a known item ends the backfill.                         *)
SkipRest(f) ==
  /\ At(f, "item") /\ This(f).iri \in stored
  /\ End(f)
  /\ UNCHANGED <<limiter, req, tables, graph, promised, lost, shadowed, met, faults>>

Skip(f) ==
  /\ At(f, "item") /\ This(f).iri \in stored
  /\ NextItem(f)
  /\ UNCHANGED <<limiter, req, tables, graph, promised, lost, shadowed, met, faults>>

(* An item is unknown, or its lookup fails, which is taken for unknown.    *)
Choose(f) ==
  /\ At(f, "item")
  /\ IF This(f).iri \in stored THEN Faulty ELSE UNCHANGED faults
  /\ Goto(f, IF This(f).inline THEN "put" ELSE "get")
  /\ UNCHANGED <<limiter, req, tables, graph, promised, lost, shadowed, met>>

Get(f) ==
  /\ At(f, "get") /\ Goto(f, "put")
  /\ UNCHANGED <<limiter, req, tables, graph, promised, lost, shadowed, met, faults>>

GetFails(f) ==
  /\ At(f, "get") /\ Faulty /\ NextItem(f)
  /\ lost' = lost \cup {This(f).iri}
  /\ UNCHANGED <<limiter, req, tables, graph, promised, shadowed, met>>

(* The item is enqueued as an activity about itself.                       *)
PutItem(f) ==
  /\ EnqueueInbound(This(f).iri, This(f).iri, Owner[run[f].object])
  /\ shadowed' = IF queue[This(f).iri].status = "none" THEN shadowed \cup {This(f).iri}
                 ELSE shadowed

Put(f) ==
  /\ At(f, "put") /\ NextItem(f) /\ PutItem(f)
  /\ UNCHANGED <<limiter, req, graph, promised, lost, met, faults>>

(* The error is discarded.                                                 *)
PutFails(f) ==
  /\ At(f, "put") /\ Faulty /\ NextItem(f)
  /\ \/ PutItem(f) /\ UNCHANGED lost
     \/ lost' = lost \cup {This(f).iri} /\ UNCHANGED <<tables, shadowed>>
  /\ UNCHANGED <<limiter, req, graph, promised, met>>

------------------------------------------------------------------------------
(* The 30 seconds of a backfill are over: every further call fails.        *)
Timeout(f) ==
  /\ ~ At(f, "idle") /\ Faulty /\ End(f)
  /\ lost' = lost \cup Items(run[f].left)
  /\ met' = Spoil(Early(f))
  /\ UNCHANGED <<limiter, req, tables, graph, promised, shadowed>>

(* A process stops, and starts again: nothing of a backfill is kept.       *)
Crash(p) ==
  LET mine == {f \in Filler : Home[f] = p} IN
  /\ Faulty /\ Forget(p)
  /\ req' = [r \in Request |->
       IF Entry[r] = p /\ req[r] \in {"handle", "answer"} THEN "lost" ELSE req[r]]
  /\ run' = [f \in Filler |-> IF f \in mine THEN Idle ELSE run[f]]
  /\ lost' = lost \cup UNION {Items(run[f].left) : f \in mine}
  /\ met' = Spoil(\E f \in mine : Early(f))
  /\ UNCHANGED <<tables, graph, promised, shadowed>>

Time == Tick /\ UNCHANGED <<req, tables, graph, backfill, faults>>

Next ==
  \/ Time
  \/ \E r \in Request :
       \/ Admit(r) \/ Throttle(r) \/ Refuse(r)
       \/ Enqueue(r) \/ EnqueueFails(r) \/ Answer(r)
  \/ \E i \in Iri : Drop(i) \/ SaveOnly(i) \/ \E f \in Filler : SaveAndBackfill(f, i)
  \/ \E f \in Filler :
       \/ Count(f) \/ CountFails(f) \/ Fetch(f) \/ FetchNothing(f)
       \/ Skip(f) \/ Choose(f) \/ Get(f) \/ GetFails(f) \/ Put(f) \/ PutFails(f)
       \/ Timeout(f)
  \/ \E p \in Process : Crash(p)

Spec == Init /\ [][Next]_vars

------------------------------------------------------------------------------
(* A request is refused by the limiter only for what its own site was let  *)
(* through by this process within the window: not for other sites, not for *)
(* requests that were refused, not for those of an earlier window.         *)
ThrottledOnlyWhenFull ==
  [][\A r \in Request : req[r] = "new" /\ req'[r] = "throttled" =>
       Cardinality(Recent(Entry[r], SiteOf[r], now)) >= Limit]_vars

(* An activity answered with 202 is in the queue for good, and recorded    *)
(* for the tenant it was posted to, also when another tenant, or a         *)
(* backfill, brought it first.                                             *)
AnsweredIsKept ==
  \A r \in Request : req[r] \in {"answer", "accepted"} =>
    queue[Names[r]].status # "none" /\ <<Names[r], TenantOf[r]>> \in deliveries

(* Every item of a fetched collection is on its way: known, queued, still  *)
(* to be looked at, or given up for a fault of its own.  One item that is  *)
(* known, refused or unreachable does not take the others with it.         *)
ItemsAreAccounted ==
  \A i \in promised :
    \/ i \in stored \/ i \in lost \/ queue[i].status # "none"
    \/ \E f \in Filler : i \in Items(run[f].left)

(* A thread that a local object names is fetched once its backfills are    *)
(* through, but for a fault or for a second member: two activities saved   *)
(* before either counts see each other, and nobody fetches.                *)
ThreadIsFetched ==
  met.started /\ (\A f \in Filler : At(f, "idle")) =>
    met.fetched \/ met.crowded \/ met.spoiled

(* What an activity says is stored as a version of the object it is about, *)
(* unless a backfill was the first to enqueue it: then it is stored as an  *)
(* object itself, and a later POST of it changes nothing.                  *)
AppliedToItsObject ==
  \A i \in applied : ObjectOf[i] \in stored \/ i \in shadowed

==============================================================================
