---------------------------- MODULE InboundQueue ----------------------------
(***************************************************************************)
(* The inbound ingestion queue: the HTTP handler enqueues a signed         *)
(* activity (EnqueueInbound), the engines of all servers claim rows of     *)
(* inbound_activity_queue (ClaimInboundBatch), and the runFn of            *)
(* inbound_worker.go records the activity in processed_activities, calls   *)
(* the domain service and marks the row.                                   *)
(*                                                                         *)
(* activity_iri is UNIQUE in inbound_activity_queue, so a Task is both the *)
(* row and its activity.  ProcessInboundTask is one step that succeeds or  *)
(* fails here; module Processing opens it.                                 *)
(***************************************************************************)
EXTENDS QueueTable

CONSTANT Tenant   \* local tenants an activity may be delivered to

ASSUME InboundAssumption == Tenant # {}

VARIABLES
  createdAt,    \* inbound_activity_queue.created_at, as a rank
  clock,        \* rank of the next row inserted
  deliveries,   \* activity_tenant_deliveries
  processed,    \* processed_activities
  runs,         \* history: calls of ProcessInboundTask per activity
  applied       \* history: activities ProcessInboundTask returned nil for

queueVars == <<status, createdAt, clock, deliveries>>
runVars == <<processed, stage, runs, applied>>
vars == <<engineVars, queueVars, runVars, disruptions>>

Statuses == {"absent", "pending", "processing", "completed", "failed"}
Stages == {"idle", "record", "call", "process", "complete", "fail"}

TypeOK ==
  /\ EngineTypeOK
  /\ status \in [Task -> Statuses]
  /\ createdAt \in [Task -> Nat]
  /\ clock \in Nat
  /\ deliveries \in SUBSET (Task \X Tenant)
  /\ processed \in SUBSET Task
  /\ stage \in [Worker -> Stages]
  /\ runs \in [Task -> Nat]
  /\ applied \in SUBSET Task
  /\ disruptions \in 0..MaxDisruptions

Init ==
  /\ EngineInit
  /\ status = [a \in Task |-> "absent"]
  /\ createdAt = [a \in Task |-> 0]
  /\ clock = 1
  /\ deliveries = {}
  /\ processed = {}
  /\ stage = [w \in Worker |-> "idle"]
  /\ runs = [a \in Task |-> 0]
  /\ applied = {}
  /\ disruptions = 0

------------------------------------------------------------------------------
(* EnqueueInbound: one transaction, idempotent in both of its tables.      *)
EnqueueInbound(a, t) ==
  /\ IF status[a] = "absent"
     THEN /\ status' = [status EXCEPT ![a] = "pending"]
          /\ createdAt' = [createdAt EXCEPT ![a] = clock]
          /\ clock' = clock + 1
     ELSE UNCHANGED <<status, createdAt, clock>>
  /\ deliveries' = deliveries \cup {<<a, t>>}
  /\ UNCHANGED <<engineVars, runVars, disruptions>>

------------------------------------------------------------------------------
(* ClaimInboundBatch. *)

(* Broken variants (for the mutants of PROJECT.json, like the others       *)
(* below): no SKIP LOCKED; failed rows are never claimed again.            *)
ClaimableLocked == {a \in Task : status[a] \in {"pending", "failed"}}
ClaimablePending == {a \in Task : status[a] = "pending"} \ Locked

Claimable == {a \in Task : status[a] \in {"pending", "failed"}} \ Locked

(* ORDER BY created_at ASC LIMIT batchSize FOR UPDATE SKIP LOCKED *)
OldestClaimable(q) ==
  /\ Elems(q) \subseteq Claimable
  /\ Distinct(q)
  /\ \A i, j \in DOMAIN q : i < j => createdAt[q[i]] < createdAt[q[j]]
  /\ \A c \in Claimable \ Elems(q) :
       Len(q) = BatchSize /\ \A a \in Elems(q) : createdAt[a] < createdAt[c]

ClaimInboundTasks(s) ==
  /\ \E n \in 1..BatchSize : \E q \in [1..n -> Task] :
       OldestClaimable(q) /\ BeginClaim(s, q)
  /\ UNCHANGED <<queueVars, runVars, disruptions>>

MarkInboundProcessing(s) ==
  status' = [a \in Task |-> IF a \in Elems(batch[s]) THEN "processing" ELSE status[a]]

ClaimCommits(s) ==
  /\ StatementSucceeds(s)
  /\ MarkInboundProcessing(s)
  /\ ClaimReturns(s)
  /\ UNCHANGED <<createdAt, clock, deliveries, runVars>>

(* The transaction fails.  An error of Commit may hide a commit that took  *)
(* effect: the rows are then 'processing' and nobody has them.             *)
ClaimAborts(s) ==
  /\ StatementFails(s)
  /\ MarkInboundProcessing(s) \/ UNCHANGED status
  /\ ClaimErrors(s)
  /\ UNCHANGED <<createdAt, clock, deliveries, runVars>>

------------------------------------------------------------------------------
(* runFn *)

StartTask(w) ==
  /\ TakeTask(w)
  /\ stage' = [stage EXCEPT ![w] = "record"]
  /\ UNCHANGED <<queueVars, processed, runs, applied, disruptions>>

(* Broken variants: a duplicate is processed again; an error counts as     *)
(* success; a service error leaves the row as it is.                       *)
ProcessDuplicate(w) ==
  /\ stage[w] = "record" /\ job[w] \in processed /\ runs[job[w]] < 2
  /\ StatementSucceeds(ServerOf[w])
  /\ stage' = [stage EXCEPT ![w] = "call"]
  /\ UNCHANGED <<engineVars, queueVars, processed, runs, applied>>

RecordErrorAsDuplicate(w) ==
  /\ stage[w] = "record"
  /\ StatementFails(ServerOf[w])
  /\ processed' \in {processed, processed \cup {job[w]}}
  /\ stage' = [stage EXCEPT ![w] = "complete"]
  /\ UNCHANGED <<engineVars, queueVars, runs, applied>>

ServiceErrorUnmarked(w) ==
  /\ stage[w] = "process"
  /\ FinishTask(w)
  /\ stage' = [stage EXCEPT ![w] = "idle"]
  /\ UNCHANGED <<queueVars, processed, runs, applied, disruptions>>

(* RecordProcessedActivity inserts the row... *)
RecordNew(w) ==
  /\ stage[w] = "record" /\ job[w] \notin processed
  /\ StatementSucceeds(ServerOf[w])
  /\ processed' = processed \cup {job[w]}
  /\ stage' = [stage EXCEPT ![w] = "call"]
  /\ UNCHANGED <<engineVars, queueVars, runs, applied>>

(* ... or meets the unique violation 23505 and the task is skipped...      *)
RecordDuplicate(w) ==
  /\ stage[w] = "record" /\ job[w] \in processed
  /\ StatementSucceeds(ServerOf[w])
  /\ stage' = [stage EXCEPT ![w] = "complete"]
  /\ UNCHANGED <<engineVars, queueVars, processed, runs, applied>>

(* ... or fails, possibly after the row was inserted. *)
RecordError(w) ==
  /\ stage[w] = "record"
  /\ StatementFails(ServerOf[w])
  /\ processed' \in {processed, processed \cup {job[w]}}
  /\ stage' = [stage EXCEPT ![w] = "fail"]
  /\ UNCHANGED <<engineVars, queueVars, runs, applied>>

CallService(w) ==
  /\ stage[w] = "call"
  /\ runs' = [runs EXCEPT ![job[w]] = @ + 1]
  /\ stage' = [stage EXCEPT ![w] = "process"]
  /\ UNCHANGED <<engineVars, queueVars, processed, applied, disruptions>>

ServiceReturnsNil(w) ==
  /\ stage[w] = "process"
  /\ applied' = applied \cup {job[w]}
  /\ stage' = [stage EXCEPT ![w] = "complete"]
  /\ UNCHANGED <<engineVars, queueVars, processed, runs, disruptions>>

ServiceReturnsError(w) ==
  /\ stage[w] = "process"
  /\ stage' = [stage EXCEPT ![w] = "fail"]
  /\ UNCHANGED <<engineVars, queueVars, processed, runs, applied, disruptions>>

Mark(w, from, to) ==
  /\ stage[w] = from
  /\ StatementSucceeds(ServerOf[w])
  /\ status' = [status EXCEPT ![job[w]] = to]
  /\ FinishTask(w)
  /\ stage' = [stage EXCEPT ![w] = "idle"]
  /\ UNCHANGED <<createdAt, clock, deliveries, processed, runs, applied>>

MarkInboundComplete(w) == Mark(w, "complete", "completed")
MarkInboundFailed(w) == Mark(w, "fail", "failed")

(* The error of either mark is discarded and the row stays 'processing'.   *)
MarkError(w) ==
  /\ stage[w] \in {"complete", "fail"}
  /\ StatementFails(ServerOf[w])
  /\ FinishTask(w)
  /\ stage' = [stage EXCEPT ![w] = "idle"]
  /\ UNCHANGED <<queueVars, processed, runs, applied>>

------------------------------------------------------------------------------
(* Shutdown, crash and restart of a server process. *)

Shutdown(s) == Cancel(s) /\ Disrupted /\ UNCHANGED <<queueVars, runVars>>

Exit(s) ==
  /\ Kill(s)
  /\ IF engine[s] = "cancelled" THEN UNCHANGED disruptions ELSE Disrupted
  /\ stage' = [w \in Worker |-> IF ServerOf[w] = s THEN "idle" ELSE stage[w]]
  /\ UNCHANGED <<queueVars, processed, runs, applied>>

Restart(s) == Boot(s) /\ UNCHANGED <<queueVars, runVars, disruptions>>

------------------------------------------------------------------------------
PollerStep(s) ==
  \/ ClaimInboundTasks(s) \/ ClaimCommits(s) \/ ClaimAborts(s)
  \/ SendTask(s) /\ UNCHANGED <<queueVars, runVars, disruptions>>
  \/ ClosePoller(s) /\ UNCHANGED <<queueVars, runVars, disruptions>>

WorkerStep(w) ==
  \/ StartTask(w)
  \/ RecordNew(w) \/ RecordDuplicate(w) \/ RecordError(w)
  \/ CallService(w) \/ ServiceReturnsNil(w) \/ ServiceReturnsError(w)
  \/ MarkInboundComplete(w) \/ MarkInboundFailed(w) \/ MarkError(w)

Next ==
  \/ \E a \in Task, t \in Tenant : EnqueueInbound(a, t)
  \/ \E s \in Server : PollerStep(s) \/ Shutdown(s) \/ Exit(s) \/ Restart(s)
  \/ \E w \in Worker : WorkerStep(w)

Spec == Init /\ [][Next]_vars

(* The scheduler runs every goroutine that can take a step, and a call of  *)
(* the domain service returns.  Nothing obliges anyone to enqueue, and     *)
(* nothing obliges a process to be shut down, to crash or to restart.      *)
FairSpec ==
  /\ Spec
  /\ \A s \in Server : WF_vars(PollerStep(s))
  /\ \A w \in Worker : WF_vars(WorkerStep(w))

------------------------------------------------------------------------------
(* Properties. *)

(* Idempotent inbound processing: whatever is claimed, lost, retried or    *)
(* redelivered, the domain service is called at most once per activity.    *)
ProcessedAtMostOnce == \A a \in Task : runs[a] <= 1

(* A row is marked completed only once its activity is in                  *)
(* processed_activities, and marked failed only if the domain service      *)
(* never accepted it: no success is ever reported as a failure.            *)
MarksAreTruthful ==
  \A a \in Task : /\ status[a] = "completed" => a \in processed
                  /\ status[a] = "failed" => a \notin applied
                  /\ a \in applied => a \in processed /\ runs[a] = 1

(* Without a database error, a shutdown or a crash, a row that is          *)
(* 'processing' is in the hands of a goroutine: nothing strands a row      *)
(* except those disruptions (and then for good, as no query resets         *)
(* 'processing').                                                          *)
StrandedOnlyByDisruption ==
  disruptions = 0 => \A a \in Task : status[a] = "processing" => a \in Held

(* 'completed' is final: no late mark of a slow worker, and no replay of   *)
(* the activity over HTTP, brings a completed row back into the queue.     *)
CompletedIsFinal ==
  [][\A a \in Task : status[a] = "completed" => status'[a] = "completed"]_vars

(* Unless a database error, a shutdown or a crash disrupts the queue,      *)
(* every accepted activity leaves it, the ones whose processing fails      *)
(* included (their retry is dropped as a duplicate).                       *)
EventuallyCompleted ==
  \A a \in Task : status[a] = "pending" ~> status[a] = "completed" \/ disruptions > 0

(* The queue implements the ledger: what it does to an activity, seen      *)
(* through its row and the calls of the domain service, is a behaviour of  *)
(* InboundLedger.                                                          *)
Ledger == INSTANCE InboundLedger WITH
  accepted <- {b \in Task : status[b] # "absent"},
  calls <- runs,
  applied <- applied,
  closed <- {b \in Task : status[b] = "completed"}

ImplementsLedger == Ledger!LedgerSpec

(* What the blueprint says of retries: a failure of processing "leaves     *)
(* the queue record retryable", so a completed row has been applied.       *)
CompletedWasApplied == \A a \in Task : status[a] = "completed" => a \in applied

------------------------------------------------------------------------------
(* The inductive invariant behind the safety properties above. *)

(* runFn's control state, the table of processed activities and the calls  *)
(* made so far agree, worker by worker.                                    *)
StageInv ==
  \A w \in Worker :
    /\ stage[w] = "idle" <=> job[w] = NoTask
    /\ stage[w] \in {"call", "process", "complete"} => job[w] \in processed
    /\ stage[w] = "call" => runs[job[w]] = 0
    /\ stage[w] = "process" => runs[job[w]] = 1
    /\ job[w] \in applied => stage[w] = "complete"

(* What the history of an activity says about its row. *)
HistoryInv ==
  /\ \A a \in Task :
       /\ runs[a] \in {0, 1}
       /\ a \notin processed => runs[a] = 0
       /\ a \in applied => runs[a] = 1 /\ status[a] \in {"processing", "completed"}
       /\ status[a] = "completed" => a \in processed
  /\ \A s \in Server : (Elems(batch[s]) \cup Elems(channel[s])) \cap applied = {}

(* The inductive invariant: with it every safety property above holds in   *)
(* every reachable state.                                                  *)
IInv ==
  /\ TypeOK /\ EngineShape /\ HeldOnce
  /\ RowInv /\ StageInv /\ HistoryInv
=============================================================================
