# Verification of sprezz in TLA+

sprezz is a multi-tenant ActivityPub server written in Go. HTTP handlers accept
signed activities into a PostgreSQL queue; worker pools claim and process them;
the domain service writes versioned RDF graphs and edges, delivers activities to
local inboxes and forwards them to other servers. Several server processes
(replicas, or the two sides of a rolling restart) may share one database.

This directory holds TLA+ models of its components, the TLC runs that check
them, and TLAPS proofs about them. Paths below are relative to `src/`.

## 1. Inventory

| Component | State it keeps | Operations | What is hard | What makes it correct |
|---|---|---|---|---|
| Worker pool `internal/pkg/workers/engine.go` | a channel of `BatchSize` tasks, the poller's batch, one task per worker, the context | poll, claim, push, take, run, cancel | poller blocked on a full channel while the context is cancelled; tasks in memory lost when the process ends | a task is held by one goroutine; a claimed task is run unless the engine stops; `Start` returns after cancel |
| Inbound queue `adapters/in/worker`, `EnqueueInbound`, `ClaimInboundBatch`, `Mark*`, `RecordProcessedActivity` in `adapters/out/postgres/postgres.go` | `inbound_activity_queue`, `activity_tenant_deliveries`, `processed_activities` | enqueue, claim, record, process, mark | several servers claiming; crash or cancel between any two statements; lost acknowledgements; discarded mark errors; retry of what was recorded | disjoint claims, at most one processing per activity, marks that tell the truth, every activity leaves the queue |
| Outbound queue `adapters/out/federation/outbound_worker.go`, `ClaimOutboundBatch`, `MarkOutbound*` | `outbound_activity_queue` with `attempts`, `next_run_at` | claim, POST, mark, back off | crash between the POST and its mark; backoff arithmetic on 64-bit durations; transient and permanent errors | a completed row was accepted by the remote and stays closed; a second copy is sent only after an uncertain answer; a retry waits |
| Inbound processing `domain/service/activity_service.go`, `activity_service_validation.go` | graph versions, statements, tombstones | size limit, idempotent delete, validation, save, group, quote, deliver, backfill | effects before a later step fails; concurrent activities on one object | a rejected activity leaves no effect; nobody is told of what is not stored |
| Graph store `SaveGraphVersion*`, `SaveQuads`, `dictionaryID` in `postgres.go`, `adapters/out/cache/dictionary.go` | `rdf_graphs`, `rdf_quads`, `rdf_dictionary`, an in-memory dictionary cache | save a version, save edges, resolve a term | cache filled inside a transaction that rolls back; two transactions inserting one term | an identifier stands for one term, in every cache too; what is saved is what was asked |
| Media `adapters/in/http/media_handler.go`, `adapters/out/minio`, `RegisterMedia*`, quota queries | objects in MinIO, media rows, quota per actor | upload, quota check, attach, compensate | quota checked in one transaction and consumed in another; compensation after a partial failure | no actor exceeds the quota; no stranded object |
| Follows `activity_service.go`, `activity_service_delivery.go` | follow state and follower edges | accept, reject, join, leave | the answer is dispatched before the state is saved; answers, leaves and syncs write the same edges | what is stored was answered so; an edge exists only for someone who asked for it |
| Followers synchronization `activity_service_sync.go`, `adapters/out/cache/followers_sync_cache.go` | a digest cache in each process, follower edges | compute a digest, evict, fetch a list, reconcile | a computation racing an eviction; another process's writes; a reconciliation that fails half way | a digest is stale only in ways the code knows no eviction for; a sync removes nobody of another host and reaches its list |
| Signature verification `signature_verifier.go`, `integrity_proof.go`, `middleware/signature.go` | `actor_public_key_history`, which serves as a cache of public keys | look up, fetch, archive, invalidate, retry; signatures, object proofs, forwarding proofs | rotations of remote actors, requests that delete and archive the same rows | an admitted request bears the identity of its signer, and the payload's actor is of the signer's host; a current key is not refused because of the cache |
| Server actor and key rotation `identity_bootstrap_service.go`, `RotateLocalActorKeys` | `local_actor_credentials`, the profile version, the key history | provision, archive, mint | processes that start together; ends between the steps | the actor is whole; what is signed verifies against the profile; a rotation replaces the keys |
| Quotes `activity_service_quote.go`, `handleQuoteRequest` and what follows it in `activity_service.go` | stored requests, stamps, follower edges, versions of posts | answer a request by policy or by hand, store a stamp, admit a quoting post | policy and follower are read apart while both change; a stamp that is not stored; a stamp named by the wrong post, or whose IRI the caller chose | no quote is admitted, and nobody is told of a permission, without the author |
| Groups `handleLocalGroupActivity` | membership edges | join, leave, announce | the edge, the answer and a concurrent Leave | answers and announcements agree with the members |
| Delivery `activity_service_delivery.go`, `activity_service_discovery.go` | inbox deliveries, shared inbox cache | resolve the audience, deliver locally, forward | one of several deliveries failing | every local addressee gets the activity or the task fails |
| Conversation backfill `activity_service.go`, `linkActivityToContextHistory` | members of a thread, a goroutine with its list | count the members, fetch the collection, enqueue its items | a detached goroutine with a timeout; items that arrive by POST at the same time; discarded errors | every item of a fetched thread is known, queued or given up for a fault of its own; a new thread is fetched |
| Rate limiter `middleware/domain_rate_limiter.go` | request times per site, in each process | admit or refuse a request | the boundary of a sliding window | never more than the limit in any window; nobody is refused without it |
| HTTP front `generic_handler.go`, `webfinger_handler.go`, `middleware/` | none of its own | route, negotiate, enqueue, start a sync | the answer and the write it promises | an activity answered with 202 is in the queue for its tenant |
| Tags `activity_service_tags.go` | none | compute quads of a version | string computation | |
| Crypto and JSON-LD `pkg/cryptoutil`, `adapters/out/jsonld` | none | canonicalise, sign, verify, expand | string and byte computation | |
| HTTP client `pkg/httpclient`, `adapters/out/http` | none | dial, fetch, sign | network I/O | |
| Configuration, migrations, `cmd/server/main.go` | configuration | start, wire, stop | shutdown does not wait for the engines | (in the queue modules) |

The components meet in the database and in two in-memory caches. The HTTP
handler only enqueues; all processing happens in the workers, so an
interleaving of the system is an interleaving of handlers, pollers and workers
of all servers at the granularity of database transactions.

The full list of hazards, each at its line and with the properties that would
catch it, is in `PROJECT.json`.

## 2. Plan

| | Modules | Composition | Status |
|---|---|---|---|
| 1 | `BatchEngine`, `InboundQueue`, `InboundLedger` (abstract) | the queue extends the engine and implements the ledger | modelled, checked, proved |
| 2 | `OutboundQueue`, `Backoff` | extends the engine and the arithmetic; `QueueTable` is what both queues share | modelled, checked, proved |
| 3 | `GraphStore`, `QuadStore` (abstract) | implements it through the dictionary | modelled, checked, proved |
| 4 | `Processing` | takes one step of a queue's worker (`ProcessInboundTask`) apart; a save is `GraphStore`'s | modelled, checked, proved |
| 5 | `ServerActor`, `Keys` | `Keys` extends `ServerActor`: both write the key history | modelled, checked, proved |
| 6 | `Quotes` | one kind of activity of `Processing`, over the versions `GraphStore` keeps | modelled, checked, proved |
| 7 | `Followers` | three writers of one set of edges, over the processes that share it | modelled, checked, proved |
| 8 | `RateLimiter`, `Intake` | `Intake` extends the limiter and ends where `InboundQueue` begins | modelled, checked, proved |
| 9 | followers as an audience in `Processing`: the collection, its members, the shared inboxes | reads the edges of `Followers` | open |

The abstract specifications are `InboundLedger` and `QuadStore`. For followers
the one worth stating, a set of edges with an atomic accept, is not what the code
does: an accept is told, stored and given its edge in three steps, of which the
last may fail (section 8). `StoredIsTold` and `EdgeHasOrigin` say what is left
of it.

## 3. The modules and the code

**`BatchEngine`** (`internal/pkg/workers/engine.go`). `engine[s]` is the process
and its context, `poller[s]` and `batch[s]` the poller goroutine and what it has
still to push, `channel[s]` the task channel, `job[w]` the task of a worker.
`BeginClaim`/`ClaimReturns`/`ClaimErrors` are the call of `claimBatch`,
`SendTask`, `ClosePoller` the select of the poller, `TakeTask`, `FinishTask` the
range loop of a worker, `Cancel`, `Kill`, `Boot` the process. A claim is open
between its select and its commit, so that claims of two servers overlap
(`FOR UPDATE SKIP LOCKED`: `Locked`). `EngineSpec` closes the engine with an
arbitrary claim that honours the contract, for the proofs.

**`QueueTable`** is what the two queues have in common: the `status` column, the
place of each worker in its function, statements that fail because the context
is cancelled or the database disrupted, and `RowInv`, which says what status a
row has by who holds it.

**`InboundQueue`** (`EnqueueInbound`, `ClaimInboundBatch`, `Mark*`,
`RecordProcessedActivity` in `adapters/out/postgres/postgres.go`;
`adapters/in/worker/inbound_worker.go`). `status`, `createdAt`, `deliveries` and
`processed` are the tables; `stage[w]` is where the worker is in its function.
Each statement may fail before or after its effect (a lost acknowledgement), and
each failure, shutdown and crash counts as a disruption. `ProcessInboundTask` is
one step here that succeeds or fails. **`InboundLedger`** is the promise: an
activity is accepted once, handed over at most once, applied at most once, and
closed for good.

**`OutboundQueue`** (`adapters/out/federation/outbound_worker.go`,
`ClaimOutboundBatch`, `MarkOutbound*`). As above, with `attempts`, the seconds
until `next_run_at` (`wait`) and `Tick`. The POST is refused, accepted, or
accepted with its answer lost. Nothing in the repository inserts rows, so they
are there from the start. **`Backoff`** computes the delay bit by bit on
64-bit durations; `NoDelayWraps` compares it with exact powers.

**`GraphStore`** (`SaveGraphVersion`, `CreateGraphVersion`, `SaveQuads`,
`dictionaryID`, `StreamQuadsBySubject`, `RemoveQuadEdge` in `postgres.go`;
`adapters/out/cache/dictionary.go`). A save is a transaction: the version, one
insert per unknown term, the quads, the commit; `inserted[w]` are the rows of an
open transaction, `cache[s]` the process-wide dictionary cache that is filled
while it is open. Transactions that insert the same term wait for each other,
and PostgreSQL breaks cycles (`DeadlockDetected`). **`QuadStore`** is the promise
in terms instead of identifiers.

**`Processing`** (`activity_service.go`, `_validation.go`, `_delivery.go`). One
action per storage or network call of `ProcessInboundTask`: the tombstone check,
the validation (one step; what the payload alone decides is the field `sound`),
the save with its begin and commit, the group's lookup, edge and answer, the
audience, one delivery per local inbox, the forward. A lookup whose error the
code takes for "no" is `Blind`. A Join's edge write may succeed or fail here; on
the repository's schema it always fails (section 8).

**`ServerActor`** (`identity_bootstrap_service.go`, `RotateLocalActorKeys`). The
statements of the provisioning in every process and of a rotation. The insert of
credentials is `ON CONFLICT DO NOTHING`, so a rotation leaves the row as it is,
although the comment at `activity_service.go:572` says "Overwrite the row"
(`RotationTakesEffect`, section 8).
**`Keys`** (`signature_verifier.go`, `integrity_proof.go`,
`middleware/signature.go`) adds requests that are verified at the same time: look
up the history, fetch, archive, check, and for an HTTP signature the fallback
that deletes the rows and fetches again. A key is its algorithm and when it was
minted; `Garbled` stands for a PEM that does not decode, which the first fetch
archives unchecked and any later lookup may find. Such a PEM ends a request
before the fallback, and a fallback whose fetch fails answers with the mismatch
it came from: `FetchFails`, `RefusedUnread`. The payload names an actor of its
own, for whom the workers act: `ValidActorDomain` compares its host with that of
a signature's key, and nothing compares it where a proof is given. A fetched key
is archived under the type its name suggests. The lookup of a local actor's
credentials as a fallback asks for tenant 0 and never finds a row, so it is left
out. The history is modelled as a set of rows. Form, date and digest checks touch
no state and are left out.

**`Quotes`** (`activity_service_quote.go`, `activity_service.go:737-1075`). The
two reads of a request (policy, follower), the answers by policy and by hand,
the stamp with its unreported loss, and the admission of a quoting post by the
stamp it names. The quads of a post are those of all its versions
(`GetSubjectQuads`), which `ManualBy`, `PublicBy` and `Recipient` reflect: an
edit adds to what earlier versions said. So a post that was public once is open
to quotes for good, and one that once was manual stays manual;
`docs/architecture_blueprint.md:385` ("auto-allowing public posts, defaulting to
followers for non-public") does not speak of edits. A Delete removes no quads.
`AcceptQuoteRequest` and `RejectQuoteRequest` have no callers yet and no guard
against a second answer; both may run on any stored request, for any local
actor. The caller of an accept may choose the IRI of the stamp (`given`), one
that exists included; the quads of several decisions under one IRI then add up,
and a post that names it sees any of their values (`Mixed`). IRIs of other
servers are not chosen in the model. An instrument given as an IRI yields an
automatic stamp of no post. A stamp IRI of another server (`Foreign`) may say
anything. A failed request is not taken again: the queue's retry finds it
recorded (section 8).

**`Followers`** (`AcceptFollow`, `RejectFollow`, `handleFollowResponse`,
`saveFollowStateTransition`, the edges of `handleLocalGroupActivity`,
`activity_service_sync.go`, `adapters/out/cache/followers_sync_cache.go`).
`edge` is `rdf_quads` as far as it holds followers, `state` the stored answers,
`theirs` what each remote host believes, `header` the Collection-Synchronization
headers under way, `cache[p]` the digests of a process, `run[w]` a goroutine
with its local variables. `Take` to `Evict` are an answer or a membership:
dispatch, state, edge, eviction. `TakeSync` to `Clear` are `SyncFollowers`:
cache lookup, digest, fetch, the local side, one statement per difference,
eviction. An XOR of hashes is the set of what was listed an odd number of times,
which is all that two digests are compared for; the collection IRI of an actor
is listed once for each version of its profile. A list names anyone, actors of
other hosts too: `reconcileFollowers` adds all of it and compares it with the
followers at the sender's host only. `SaveProfile` is an activity that stores
another version of an actor's profile. A quad without a graph may be refused by
the database, so the second disjuncts of `SaveState`, `SaveEdge` and `Reconcile`
fail without a fault. The cache of ristretto applies writes a little later,
which a late `Fill` also shows; here they are immediate. `moved` and `excused`
are histories: what changed under a reader, and which entries the code has no
eviction for.

**`RateLimiter`** (`middleware/domain_rate_limiter.go`) is one call of `Allow`
under its mutex: `Valid` are the times after the cutoff, `Allow` and `Deny` its
two results, `Tick` the clock, `Forget` a process that starts again.
**`Intake`** (`handlePost`, `EnqueueInbound`, `maybeTriggerContextBackfill`,
`backfillRemoteContext`, `ingestContextItem`) puts the two ways into the inbound
queue side by side. A POST goes through `Admit` or `Throttle`, `Refuse` (all the
answers that depend on the payload), `Enqueue` and `Answer`; the write has a
context of its own, so a client that goes away does not undo it. The workers of
`InboundQueue` are one step here: a row is dropped, saved, or saved and followed
by a backfill. A backfill counts the members of the thread, fetches the
collection as the server actor of the object's tenant, and takes the items one
by one; every error in it is discarded by the code, and `lost` and `met` keep
what was given up for one. One remote thread stands for all of them.

## 4. The runs

| Run | Instance and bounds | What it shows |
|---|---|---|
| `inbound_safety` | 2 servers (2 and 1 workers), 2 activities, 3 disruptions | claims are disjoint, marks tell the truth, only a disruption strands a row; implements `InboundLedger`, so at most one processing and a completion that is final |
| `inbound_liveness` | 1 worker, 3 rows, batch of 1, 1 disruption | every row leaves the queue unless disrupted; a claimed task is run; `Start` returns |
| `inbound_retry` (violation) | 1 server, 2 workers, no disruption | a completed row was never applied |
| `outbound` | 2 servers, 2 rows, cap of 3 s, 1 refusal, 1 disruption | a second copy only after an uncertain answer, the backoff is kept and never wraps, a completed row is never reopened, delivery in the end of what is not refused for good |
| `graph_store` | 2 servers, 3 workers of which 2 share a cache, 2 terms, 2 saves of 4 kinds, 1 fault | an identifier is one term, in every cache too, saves end; implements `QuadStore` |
| `graph_retry` (violation) | 1 server, 1 worker, 3 saves | a retry is refused after a rollback |
| `processing` | 2 workers; Create, two Deletes, Join, Leave, a post to a group; 1 fault | nothing is told before it is stored, a task that is done reached everyone local, refusals leave no trace, groups tell the truth |
| `processing_tombstone` (violation) | Create, Like, Delete; no fault | a late Like hides the Tombstone |
| `keys` | 2 processes, 2 IRIs, 1 remote actor that rotates once, 2 requests, failing fetches, PEMs that do not decode | the server actor is whole, an admitted request has the identity of its signer and, if signed, its payload the signer's host; a current key is refused only for a failed fetch or a garbled PEM, a retired one returns only by one race |
| `quotes` | 2 workers, 3 requests, 2 posts, 2 quoting posts, 2 stamp IRIs, minted or chosen, 1 fault | an admitted quote has consent, an automatic Accept has a policy, the stamp an Accept names states its request |
| `followers` | 3 workers on 2 servers, 1 local actor, 2 remote hosts (3 followers and an actor with headers of its own and two profile versions), a list that names an actor of another host, 1 lost leave, 1 fault | what is stored was told, an edge has an origin, a sync removes nobody of another host and agrees with its list, a stale digest has one of the known causes |
| `intake` | 4 POSTs of 2 sites to 2 processes, a limit of 1 in 2 ticks, 2 backfills of a collection of 3, 1 fault | the window is kept and only a full one refuses, a 202 is kept for its tenant, no item is passed over, a new thread is fetched, a version is stored at its object |

Five more configurations ask for what a document or a comment promises and the
code does not keep. Each ends in the counterexample that section 8 describes,
on the instance of the run whose property names the exception:

| Configuration | Module | Promise | The run's property and its exception |
|---|---|---|---|
| `OutboundPermanent.cfg` | `MCOutboundQueue` | `PermanentStaysFailed` | `EventuallyDelivered`, but for permanent refusals |
| `KeysRotation.cfg` | `MCKeys` | `RotationTakesEffect` | `SignedWithPublishedKey`, for the insert stores nothing |
| `KeysRefetch.cfg` | `MCKeys` | `FailedCacheIsRefetched` | `CurrentKeyIsAccepted`, of signatures, but for what cannot be read |
| `KeysOrigin.cfg` | `MCKeys` | `OriginIsAligned` | `IdentityIsProven`, with the hosts compared for signatures only |
| `FollowersFreshness.cfg` | `MCFollowers`, one process, no fault | `CacheIsFresh` | `StaleIsExcused`, but for the named causes |

Why the bounds are enough. Two servers are what it takes to race for a row, a
term, a key or an IRI, and no action involves three. Two activities fill a claim
of two; three rows fill the worker, the channel and the poller of the liveness
run. Three disruptions let a row fail, be claimed by the other server and fail
again. `MaxAttempts` is 130, so the shift of the backoff passes the width of a
word twice; the cap of 3 s instead of two hours is reached after two attempts.
Two terms give two saves the opposite orders that make a cycle. One fault is
every single failure between any two steps; the proofs have no such bound.

Constraints that keep an instance small and what they exclude:

- `keys`, `OneAtATime`: either two attempts to provision side by side, or
  requests and a rotation while the second process is down. The row of
  credentials is the only thing they share.
- `keys`, `ReadFaultsApart`: a profile that cannot be read comes up while no key
  is rotated here; the rows they leave are of different actors.
- `quotes`, `Few`: one version of the second post, before those of the first;
  one decision by hand, and then no follower edges; the self-quote and the
  unsound request before anything else; a chosen IRI only in the decision of one
  local actor on one request, without a fault and with one version of its post.
- `followers`, `Few`: leaves, and only they, run at the other server; one header
  per call; an accept or a reject is told, not both; nobody leaves at the host
  while a leave runs here; beside a header of the third host, whose list names
  an actor of the second, there are leaves only and no fault; the foreign actor's
  headers come before everything else, with a version of its profile, for they
  share no edge and no entry with the others.
- `intake`, `Late`: rows are taken when the clock has stopped, for the limiter
  and the backfill share no state; the second post of the first activity comes
  after the first; one of the two posts of the other activity.

Three workers let a change, a sync and a writer at another server overlap. A
collection of three holds a known item, one in full and one by reference. A
limit of 1 and a window of 2 ticks put a request before, on and after the
cutoff.

Symmetry is over workers, requests or activities that no definition tells apart,
and in no run with a liveness property. Deadlock is not checked where work ends:
in `GraphStore`, `OutboundQueue`, `Processing`, `Quotes`, `Followers` and
`Intake`. It is checked in the inbound queue, whose servers can always be started
again, and in `keys`.

## 5. Fairness

Only `inbound_liveness`, `outbound` and `graph_store` assume any. Weak fairness
of each poller and each worker: the Go scheduler runs every goroutine that can
run. A step of a worker includes the return of a statement or a POST, which a
timeout bounds; in `graph_store` it includes PostgreSQL's, which detects
deadlocks. `outbound` has weak fairness of the clock. Nothing is assumed of
servers that are down, of clients, of remote servers, or of which outcome a
statement has: the liveness properties say "unless disrupted".

## 6. What is proved

All theorems hold for every value of the constants under the named assumptions
of the modules (functions have the stated domains, bounds are natural numbers).
The type invariants of the proved modules are theorems and not repeated by the
runs; each inductive invariant was found with TLC first.

- `BatchEngineProofs`: `EngineSafety`, a task is held by one goroutine. The step
  lemmas are stated for any claim that returns tasks nobody holds.
- `QueueProofs`, inbound: `IInv` is inductive. `HeldOnce` alone is not, because a
  claim chooses rows by their status: `RowInv` says which status a row has by
  who holds it, `StageInv` ties a worker's place to `processed` and `runs`,
  `HistoryInv` a row's past to its status. Typing, disjoint claims, at most one
  processing, truthful marks, final completion and the refinement of
  `InboundLedger` follow. `Kept` is its complement: before the first disruption
  every process runs and every 'processing' row is in somebody's hands, so only
  a disruption strands one.
- `QueueProofs`, outbound: `OutboundInv` is inductive. `CompletedWasDelivered`
  and `DuplicatesOnlyWhenUncertain` are about single rows and not inductive:
  that a row is not POSTed again after an answer follows only from where it is.
  `CopiesInv` says that acceptances exceed uncertain answers by one exactly from
  the accepted POST on, so whatever is claimable, in a batch, in a channel or
  before its POST has none to account for. `RestInv` carries the backoff from
  the failed mark (`next_run_at`) over the claim, which counts one attempt
  more, to the POST; `BackoffIsKept` follows in one step, with any number of
  replicas. `DeliveredIsFinal` rests on the disjoint claims, for the marks check no
  status.
- `QueueProofs`, arithmetic: `NoDelayWraps` for every `MaxAttempts`. Doubling a
  number of seconds shifts its 64-bit word by one place, limb by limb with its
  carries, so up to 2^12 seconds the shifted base delay is exact. From 2^13 on
  the highest bit left in the word decides the cut: it is above those of the
  cap, or the sign, or there is none.
- `GraphStoreProofs`: `GInv` is inductive. The tables, open transactions, caches
  and lost rows are one relation between terms and identifiers, to which a step
  adds at most one fresh pair (`IdsAreIssued`, `TermsHaveOneRow`). For the
  refinement of `QuadStore`, `StoreInv` adds that a graph id belongs to one save
  until its version is committed, that what a save has resolved names its terms,
  and that stored quads refer to committed rows. So an identifier in use stands
  for the same term before and after every step (`TermOf`), and the commit of a
  version is the one step that adds it whole.
- `ProcessingProofs`: `PInv`. A step takes a task, goes on with it, or ends it;
  where it is tells whether it is stored (`Course`), what the edge says before
  the answer (`AtEdge`, `AnswersAreTrue`) and who is still to be reached
  (`AtRecord`).
- `KeysProofs`: `KInv`. The generation of a profile never goes back, so a key
  once owned stays owned; `RunOK` carries what a verification has seen, asked
  for and failed to read over the steps of others, `StaleIsLate` that a retired
  row is one archived late. The profile of the server actor stays in its first
  generation, and so does its row, because a rotation stores nothing.
- `QuotesProofs`: `QInv`. Versions are only added and edges remembered, so what
  a policy allowed stays allowed; `RunOK` carries the agreement from the reads to
  the stamp, `StampsOK`, `SentOK` and `AdmittedOK` from there to what is told and
  admitted, and `Apart` keeps the stamps of two Accepts different unless a caller
  chose the IRI.
- `FollowersProofs`: `Typed` and `Sources` (who is told, or named by a list or a
  difference, has an origin; nothing is assumed of the lists) carry `StoredIsTold` and
  `EdgeHasOrigin`; `Planned` says that what a reconciliation has still to write
  and what others moved is all that separates the edges from the list; `Fresh`
  says it of a digest that is held or cached. `SyncAgrees` and `StaleIsExcused`
  are their last states.
- `IntakeProofs`: `Lists` and `Rows` say what a backfill has left and what a row
  is about; `Accounted` follows an item from the collection to the queue, `Due`
  a thread to its fetch. `Remembered` says that the times a process forgets are
  out of every window to come, so that the times it keeps bound them all.

## 7. What is only model-checked

Liveness and everything with `ENABLED` is beyond the prover: `EventuallyCompleted`,
`ClaimedIsRun`, `StartReturns`, `EventuallyDelivered` and `SavesEnd` are checked
by TLC alone. So is what needs induction over data. Every invariant, action
property and refinement that a passing run checks is a theorem.

## 8. Disagreements between the code and its documents

Shown by a run:

- `inbound_retry`: an activity is recorded as processed before it is, so the
  retry of a failed one is completed unapplied (`inbound_worker.go:25`;
  `docs/architecture_blueprint.md:290`).
- `graph_retry`: an identifier cached by a save that rolls back makes every later
  save with that term fail (`postgres.go:1055`).
- `processing_tombstone`: every activity is a version of its object, and the
  newest one wins (`activity_service_delivery.go:290`).

Named as exceptions by properties of the runs, with a counterexample of their
own (section 4) and an entry under "findings":

- A permanent refusal makes the row claimable again like a transient one: both
  branches take the same mark (`outbound_worker.go:38`). The comment above it
  says "we mark as failed and do not retry", and
  `docs/architecture_blueprint.md:476` the same (`PermanentStaysFailed`).
- A rotation archives the keys as retired, mints new ones, reports success and
  stores nothing (`activity_service.go:573`, `tenants.sql:23`);
  `docs/architecture_blueprint.md:267` says "completely overwriting the row"
  (`RotationTakesEffect`). Were the row overwritten, `SignedWithPublishedKey`
  would fail instead, for nothing writes the profile.
- A cached key that fails is not always fetched again, as
  `docs/architecture_blueprint.md:189` says of signatures and proofs: not for a
  PEM that does not decode (`signature_verifier.go:98`), nor for a proof
  (`integrity_proof.go:63`) (`FailedCacheIsRefetched`).
- `docs/architecture_blueprint.md:159` has the host of the payload's actor
  compared in any POST. A proof ends the verification before that
  (`signature_verifier.go:67`), and the workers act for the payload's actor
  (`OriginIsAligned`).
- A digest may be stale: after another process wrote, a writer was stopped before
  its eviction, a reconciliation failed half way or added a follower of another
  host, another version of the actor's profile was stored, or a computation ended
  after the eviction. `docs/architecture_blueprint.md:464` promises "absolute
  freshness with zero stale data" (`CacheIsFresh`); `StaleIsExcused` names the
  causes, and the last of them takes one process and no fault.

Visible in the modules:

- Edges are saved with graph 0, which the foreign key refuses
  (`postgres.go:773`). Accepted follows, reconciled followers and group members
  are never stored on this schema (`docs/architecture_blueprint.md:357`).
- `reconcileFollowers` adds whomever the list names, whatever their host
  (`activity_service_sync.go:132`), and removes nobody but followers at the
  sender's; who was added so can only leave by other ways.
- Two decisions under one stamp IRI, which `AcceptQuoteRequest` leaves to its
  caller (`activity_service.go:973`), add up to a stamp that may be read as the
  consent to another post. `QuoteHasConsent` and `AcceptNamesItsStamp` except
  such an IRI.
- `triggerFollowersSync` hands on the authenticated sender, a foreign actor, and
  `fetchRemoteFollowers` looks up credentials by that actor's domain: a header
  from outside ends before it fetches. The digests compared are of two different
  things, followers at the sender's domain and followers at the receiver's.
  `activity_service_sync_test.go` calls it with a local actor. `Call` has both.
- The Accept of a local follower fails for want of an inbox to send it to. A
  Reject after an Accept leaves the edge. The answer is sent before it is saved
  (`docs/architecture_blueprint.md:359`).
- A backfill runs only for an object at the domain of a tenant whose thread is
  elsewhere (`docs/architecture_blueprint.md:370`). A thread whose members come
  faster than they are counted is fetched by nobody, and one whose goroutine
  ended is not fetched again, although `docs/architecture_blueprint.md:162` says
  of detached work that it guarantees completion.
- A backfilled activity is enqueued as an activity about itself
  (`activity_service.go:268`); the same activity posted later is answered with
  202 and finds its row there, with that object
  (`docs/architecture_blueprint.md:373`). `AppliedToItsObject` excepts it.
- `handlePost` answers 400 to an activity whose `object` is a plain string.
- The limit holds for each process, so for two of them it is twice as high, and
  a POST to a path that is no collection is enqueued without it.

## 9. What is not modelled

Media: as wired, no upload gets to the storage. `media_handler.go` reads the
tenant as a string where `middleware/tenant.go` stores a number, and an actor
nothing sets; its tests put strings there (`media_handler_test.go:98`).
`RegisterActorMediaOwnership` leaves out `object_name`, which migration 00004
makes NOT NULL and UNIQUE. The size is never stored, so the usage is always 0,
and `checkMediaQuota` parses a domain as a number and falls back to tenant 1.
Against `docs/architecture_blueprint.md:491` there is no behaviour to check.

Tags compute quads of a version that is saved anyway. Discovery caches an inbox
that no invariant ties to other state. Reading collections and profiles,
content negotiation and webfinger change nothing. The HTTP client, JSON-LD,
cryptography and the configuration compute or do I/O; what matters of them are
outcomes, which the actions that call them choose. Generated code and mocks,
about 40,000 of the repository's 52,000 lines of Go, repeat the SQL files and
the ports.

Within modelled components: the cut of a followers list at 10,000; followers as
an audience and the cache of shared inboxes; the media rows of a version; a stamp
IRI of another server given to `AcceptQuoteRequest`.
`AcceptFollow`, `RejectFollow`, `AcceptQuoteRequest`, `RejectQuoteRequest` and
`RotateLocalActorKeys` have no callers yet and are modelled as operations that
may be called. The view `rdf_statements` joins local tenants only.
