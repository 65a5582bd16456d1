----------------------------- MODULE QueueProofs -----------------------------
(***************************************************************************)
(* Proofs about the two queues, for any number of servers, workers, rows   *)
(* and disruptions.  Inbound: IInv is inductive, and the safety properties *)
(* and the refinement of InboundLedger follow from it.  Outbound:          *)
(* OutboundInv is inductive, and with it a row is delivered once unless    *)
(* the remote server kept silent, and the backoff is kept.  The last part  *)
(* is about the 64-bit arithmetic of the delays (Backoff).                 *)
(***************************************************************************)
EXTENDS InboundQueue, OutboundQueue, BatchEngineProofs

(* What a state of the table says about who holds a row. *)
LEMMA RowsOfHeld ==
  ASSUME EngineTypeOK, EngineShape, RowInv
  PROVE  HeldIsProcessing
<1>1. ASSUME NEW a \in Held PROVE status[a] = "processing"
  <2>1. CASE \E t \in Server : a \in Claimed(t) \/ a \in Elems(channel[t])
    BY <2>1 DEF Claimed, RowInv
  <2>2. CASE \E w \in Worker : job[w] = a /\ a # NoTask
    BY <2>2 DEF RowInv
  <2> QED
    BY <1>1, <2>1, <2>2, HeldMember
<1>2. ASSUME NEW a \in Locked PROVE status[a] \in {"pending", "failed"}
  BY <1>2, HeldMember DEF RowInv
<1> QED
  BY <1>1, <1>2 DEF HeldIsProcessing

(* Tasks in the hands of the engine are tasks. *)
LEMMA ElemsOfTasks == ASSUME NEW q \in Seq(Task) PROVE Elems(q) \subseteq Task
  BY DEF Elems

(* The invariant holds in the initial state. *)
LEMMA InitIInv == Init => IInv
<1> SUFFICES ASSUME Init PROVE IInv
  OBVIOUS
<1>1. TypeOK
  BY DisruptionsAssumption, ElemsEmpty
     DEF Init, EngineInit, TypeOK, EngineTypeOK, Statuses, Stages
<1>2. EngineShape /\ HeldOnce
  BY EngineAssumption, ElemsEmpty DEF Init, EngineInit, EngineShape, HeldOnce, WorkersOf
<1>3. RowInv /\ StageInv /\ HistoryInv
  BY ElemsEmpty DEF Init, EngineInit, RowInv, StageInv, HistoryInv
<1> QED
  BY <1>1, <1>2, <1>3 DEF IInv

------------------------------------------------------------------------------
(* Steps of the handler and of the poller. *)

(* Enqueueing touches no row that exists, so nothing held changes. *)
LEMMA EnqueueStep ==
  ASSUME IInv, NEW a \in Task, NEW t \in Tenant, EnqueueInbound(a, t)
  PROVE  IInv'
<1> USE DEF IInv
<1>1. TypeOK'
  <2>1. EngineTypeOK' /\ processed' = processed /\ stage' = stage /\ runs' = runs
        /\ applied' = applied /\ disruptions' = disruptions
    BY DEF EnqueueInbound, TypeOK, EngineTypeOK, engineVars, runVars
  <2>2. status' \in [Task -> Statuses] /\ createdAt' \in [Task -> Nat] /\ clock' \in Nat
    BY DEF EnqueueInbound, TypeOK, Statuses
  <2>3. deliveries' \in SUBSET (Task \X Tenant)
    BY DEF EnqueueInbound, TypeOK
  <2> QED
    BY <2>1, <2>2, <2>3 DEF TypeOK
<1>2. EngineShape' /\ HeldOnce'
  BY DEF EnqueueInbound, engineVars, EngineShape, HeldOnce, WorkersOf
<1>3. /\ batch' = batch /\ channel' = channel /\ poller' = poller /\ job' = job
      /\ stage' = stage /\ processed' = processed /\ runs' = runs /\ applied' = applied
      /\ \A b \in Task : status[b] # "absent" => status'[b] = status[b]
      /\ \A b \in Task : status'[b] \in {status[b], "pending"}
  BY DEF EnqueueInbound, engineVars, runVars, TypeOK
<1>4. /\ \A s \in Server : Elems(batch[s]) \cup Elems(channel[s]) \subseteq Task
      /\ \A w \in Worker : job[w] # NoTask => job[w] \in Task
  BY ElemsOfTasks DEF TypeOK, EngineTypeOK
<1>5. RowInv'
  BY <1>3, <1>4 DEF RowInv
<1>6. StageInv'
  BY <1>3 DEF StageInv
<1>7. HistoryInv'
  BY <1>3 DEF HistoryInv
<1> QED
  BY <1>1, <1>2, <1>5, <1>6, <1>7

(* Opening a claim: the rows are claimable, hence held by nobody. *)
LEMMA ClaimStep ==
  ASSUME IInv, NEW s \in Server, ClaimInboundTasks(s)
  PROVE  IInv'
<1> USE DEF IInv
<1>0. PICK n \in 1..BatchSize : \E q \in [1..n -> Task] : OldestClaimable(q) /\ BeginClaim(s, q)
  BY DEF ClaimInboundTasks
<1>1. PICK q \in [1..n -> Task] : OldestClaimable(q) /\ BeginClaim(s, q)
  BY <1>0
<1>2. n \in Nat /\ q \in Seq(Task) /\ Len(q) = n
  BY EngineAssumption
<1>3. Elems(q) \subseteq Claimable /\ Distinct(q)
  BY <1>1 DEF OldestClaimable
<1>4. FreshBatch(q)
  <2>1. ASSUME NEW a \in Elems(q) PROVE a \notin Held \cup Locked
    BY <1>3, <2>1, RowsOfHeld DEF Claimable, HeldIsProcessing, TypeOK
  <2> QED
    BY <1>2, <1>3, <2>1 DEF FreshBatch
<1>5. EngineInv'
  BY <1>1, <1>4, BeginClaimStep DEF EngineInv, TypeOK
<1>6. TypeOK'
  BY <1>5 DEF ClaimInboundTasks, queueVars, runVars, TypeOK, EngineInv
<1>7. /\ channel' = channel /\ job' = job /\ stage' = stage /\ status' = status
      /\ processed' = processed /\ runs' = runs /\ applied' = applied
      /\ batch'[s] = q /\ poller'[s] = "claiming"
      /\ \A t \in Server : t # s => batch'[t] = batch[t] /\ poller'[t] = poller[t]
  BY <1>1 DEF ClaimInboundTasks, BeginClaim, queueVars, runVars, TypeOK, EngineTypeOK
<1>8. \A a \in Elems(q) : a \in Task /\ status[a] \in {"pending", "failed"}
  BY <1>3 DEF Claimable
<1>9. RowInv'
  BY <1>7, <1>8 DEF RowInv
<1>10. StageInv'
  BY <1>7 DEF StageInv
<1>11. HistoryInv'
  BY <1>7, <1>8 DEF HistoryInv
<1> QED
  BY <1>5, <1>6, <1>9, <1>10, <1>11 DEF EngineInv

(* Committing a claim turns exactly the locked rows to 'processing'. *)
LEMMA CommitStep ==
  ASSUME IInv, NEW s \in Server, ClaimCommits(s)
  PROVE  IInv'
<1> USE DEF IInv
<1>1. EngineInv'
  BY ClaimReturnsStep DEF EngineInv, TypeOK, ClaimCommits
<1>2. /\ batch' = batch /\ channel' = channel /\ job' = job /\ stage' = stage
      /\ processed' = processed /\ runs' = runs /\ applied' = applied
      /\ status' = [a \in Task |-> IF a \in Elems(batch[s]) THEN "processing" ELSE status[a]]
      /\ poller[s] = "claiming" /\ poller'[s] = "sending"
      /\ \A t \in Server : t # s => poller'[t] = poller[t]
  BY DEF ClaimCommits, ClaimReturns, MarkInboundProcessing, runVars, TypeOK, EngineTypeOK
<1>3. TypeOK'
  BY <1>1, <1>2 DEF ClaimCommits, StatementSucceeds, runVars, TypeOK, EngineInv, Statuses
<1>4. /\ \A t \in Server : Elems(batch[t]) \cup Elems(channel[t]) \subseteq Task
      /\ \A w \in Worker : job[w] # NoTask => job[w] \in Task
  BY ElemsOfTasks DEF TypeOK, EngineTypeOK
<1>5. RowInv'
  BY <1>2, <1>4 DEF RowInv, HeldOnce
<1>6. StageInv'
  BY <1>2 DEF StageInv
<1>7. HistoryInv'
  BY <1>2, <1>4 DEF HistoryInv
<1> QED
  BY <1>1, <1>3, <1>5, <1>6, <1>7 DEF EngineInv

(* A failed claim forgets its rows, whether or not the commit took effect. *)
LEMMA AbortStep ==
  ASSUME IInv, NEW s \in Server, ClaimAborts(s)
  PROVE  IInv'
<1> USE DEF IInv
<1>1. EngineInv'
  BY DropBatchStep DEF EngineInv, TypeOK, ClaimAborts
<1>2. /\ channel' = channel /\ job' = job /\ stage' = stage
      /\ processed' = processed /\ runs' = runs /\ applied' = applied
      /\ batch'[s] = <<>> /\ poller[s] = "claiming" /\ poller'[s] = "waiting"
      /\ \A t \in Server : t # s => poller'[t] = poller[t] /\ batch'[t] = batch[t]
  BY DEF ClaimAborts, ClaimErrors, runVars, TypeOK, EngineTypeOK
<1>3. /\ status' \in [Task -> Statuses]
      /\ \A a \in Task : a \notin Elems(batch[s]) => status'[a] = status[a]
      /\ \A a \in Task : status'[a] \in {status[a], "processing"}
  BY DEF ClaimAborts, MarkInboundProcessing, TypeOK, Statuses
<1>4. TypeOK'
  <2>1. disruptions' \in 0..MaxDisruptions
    BY DisruptionsAssumption DEF ClaimAborts, StatementFails, Disrupted, TypeOK
  <2> QED
    BY <1>1, <1>2, <1>3, <2>1 DEF ClaimAborts, runVars, TypeOK, EngineInv
<1>5. /\ \A t \in Server : Elems(batch[t]) \cup Elems(channel[t]) \subseteq Task
      /\ \A w \in Worker : job[w] # NoTask => job[w] \in Task
  BY ElemsOfTasks DEF TypeOK, EngineTypeOK
<1>6. RowInv'
  BY <1>2, <1>3, <1>5, ElemsEmpty DEF RowInv, HeldOnce
<1>7. StageInv'
  BY <1>2 DEF StageInv
<1>8. HistoryInv'
  BY <1>2, <1>3, <1>5, ElemsEmpty DEF HistoryInv
<1> QED
  BY <1>1, <1>4, <1>6, <1>7, <1>8 DEF EngineInv

(* Pushing a task keeps its row 'processing'. *)
LEMMA SendStep ==
  ASSUME IInv, NEW s \in Server, SendTask(s), UNCHANGED <<queueVars, runVars, disruptions>>
  PROVE  IInv'
<1> USE DEF IInv
<1>1. /\ EngineInv' /\ job' = job
      /\ Elems(batch'[s]) \cup Elems(channel'[s]) = Elems(batch[s]) \cup Elems(channel[s])
      /\ poller[s] = "sending" /\ poller'[s] # "claiming"
      /\ \A t \in Server : t # s =>
           batch'[t] = batch[t] /\ channel'[t] = channel[t] /\ poller'[t] = poller[t]
  BY SendTaskStep DEF EngineInv, TypeOK, EngineTypeOK, SendTask
<1>2. TypeOK'
  BY <1>1 DEF EngineInv, TypeOK, queueVars, runVars
<1>3. RowInv'
  BY <1>1 DEF RowInv, queueVars
<1>4. StageInv' /\ HistoryInv'
  BY <1>1 DEF StageInv, HistoryInv, queueVars, runVars
<1> QED
  BY <1>1, <1>2, <1>3, <1>4 DEF EngineInv

(* A cancelled poller forgets what it has not pushed. *)
LEMMA CloseStep ==
  ASSUME IInv, NEW s \in Server, ClosePoller(s), UNCHANGED <<queueVars, runVars, disruptions>>
  PROVE  IInv'
<1> USE DEF IInv
<1>1. /\ EngineInv' /\ job' = job /\ channel' = channel
      /\ batch'[s] = <<>> /\ poller'[s] = "closed"
      /\ \A t \in Server : t # s => batch'[t] = batch[t] /\ poller'[t] = poller[t]
  BY DropBatchStep DEF EngineInv, TypeOK, EngineTypeOK, ClosePoller
<1>2. TypeOK'
  BY <1>1 DEF EngineInv, TypeOK, queueVars, runVars
<1>3. RowInv'
  BY <1>1 DEF RowInv, queueVars
<1>4. StageInv' /\ HistoryInv'
  BY <1>1, ElemsEmpty DEF StageInv, HistoryInv, queueVars, runVars
<1> QED
  BY <1>1, <1>2, <1>3, <1>4 DEF EngineInv

------------------------------------------------------------------------------
(* Steps of the workers. *)

(* A task taken from the channel is 'processing' and not yet applied. *)
LEMMA StartStep ==
  ASSUME IInv, NEW w \in Worker, StartTask(w)
  PROVE  IInv'
<1> USE DEF IInv
<1> DEFINE s == ServerOf[w]
<1>1. /\ EngineInv' /\ s \in Server
      /\ job[w] = NoTask /\ job'[w] \in Task /\ job'[w] \in Elems(channel[s])
      /\ \A v \in Worker : v # w => job'[v] = job[v]
      /\ batch' = batch /\ poller' = poller
      /\ \A t \in Server : Elems(channel'[t]) \subseteq Elems(channel[t])
  BY TakeTaskStep, EngineAssumption DEF EngineInv, TypeOK, StartTask
<1>2. /\ status' = status /\ processed' = processed /\ runs' = runs /\ applied' = applied
      /\ stage'[w] = "record" /\ \A v \in Worker : v # w => stage'[v] = stage[v]
  BY DEF StartTask, queueVars, TypeOK
<1>3. TypeOK'
  BY <1>1 DEF EngineInv, TypeOK, StartTask, queueVars, Stages
<1>4. RowInv'
  BY <1>1, <1>2 DEF RowInv
<1>5. StageInv'
  BY <1>1, <1>2, EngineAssumption DEF StageInv, HistoryInv
<1>6. HistoryInv'
  BY <1>1, <1>2 DEF HistoryInv
<1> QED
  BY <1>1, <1>3, <1>4, <1>5, <1>6 DEF EngineInv

(* The job of a busy worker is nobody else's. *)
LEMMA OwnJob ==
  ASSUME IInv, NEW w \in Worker, stage[w] # "idle"
  PROVE  /\ job[w] \in Task /\ job[w] # NoTask /\ status[job[w]] = "processing"
         /\ \A v \in Worker : v # w => job[v] # job[w]
         /\ \A t \in Server : job[w] \notin Elems(batch[t]) \cup Elems(channel[t])
  BY DEF IInv, TypeOK, EngineTypeOK, StageInv, HeldOnce, RowInv

(* The steps of runFn up to the marks: they change the worker's stage and  *)
(* the records about its own activity.                                     *)
LEMMA RunStep ==
  ASSUME IInv, NEW w \in Worker,
         \/ RecordNew(w) \/ RecordDuplicate(w) \/ RecordError(w)
         \/ CallService(w) \/ ServiceReturnsNil(w) \/ ServiceReturnsError(w)
  PROVE  IInv'
<1> DEFINE a == job[w]
<1>1. stage[w] # "idle" /\ engineVars' = engineVars /\ queueVars' = queueVars
  BY DEF RecordNew, RecordDuplicate, RecordError, CallService, ServiceReturnsNil,
         ServiceReturnsError, engineVars, queueVars
<1>2. /\ a \in Task /\ a # NoTask /\ status[a] = "processing"
      /\ \A v \in Worker : v # w => job[v] # a
      /\ \A t \in Server : a \notin Elems(batch[t]) \cup Elems(channel[t])
  BY <1>1, OwnJob
<1>3. /\ engine' = engine /\ poller' = poller /\ batch' = batch /\ channel' = channel
      /\ job' = job /\ status' = status /\ createdAt' = createdAt /\ clock' = clock
      /\ deliveries' = deliveries
  BY <1>1 DEF engineVars, queueVars
<1>4. EngineTypeOK' /\ EngineShape' /\ HeldOnce' /\ RowInv'
  BY <1>3 DEF IInv, TypeOK, EngineTypeOK, EngineShape, HeldOnce, RowInv, WorkersOf
<1>5. disruptions' \in 0..MaxDisruptions
  BY DisruptionsAssumption
     DEF IInv, TypeOK, RecordNew, RecordDuplicate, RecordError, CallService,
         ServiceReturnsNil, ServiceReturnsError, StatementFails, StatementSucceeds, Disrupted
<1>6. \A v \in Worker : v # w => stage'[v] = stage[v]
  BY DEF IInv, TypeOK, RecordNew, RecordDuplicate, RecordError, CallService,
         ServiceReturnsNil, ServiceReturnsError
<1>7. CASE RecordNew(w)
  <2>1. /\ processed' = processed \cup {a} /\ runs' = runs /\ applied' = applied
        /\ stage'[w] = "call" /\ a \notin processed /\ stage' \in [Worker -> Stages]
    BY <1>7 DEF RecordNew, IInv, TypeOK, Stages
  <2>2. TypeOK'
    BY <1>2, <1>3, <1>4, <1>5, <2>1 DEF IInv, TypeOK
  <2>3. StageInv' /\ HistoryInv'
    BY <1>2, <1>3, <1>6, <2>1 DEF IInv, StageInv, HistoryInv
  <2> QED
    BY <1>4, <2>2, <2>3 DEF IInv
<1>8. CASE RecordDuplicate(w)
  <2>1. /\ processed' = processed /\ runs' = runs /\ applied' = applied
        /\ stage'[w] = "complete" /\ a \in processed /\ stage' \in [Worker -> Stages]
    BY <1>8 DEF RecordDuplicate, IInv, TypeOK, Stages
  <2>2. TypeOK'
    BY <1>3, <1>4, <1>5, <2>1 DEF IInv, TypeOK
  <2>3. StageInv' /\ HistoryInv'
    BY <1>2, <1>3, <1>6, <2>1 DEF IInv, StageInv, HistoryInv
  <2> QED
    BY <1>4, <2>2, <2>3 DEF IInv
<1>9. CASE RecordError(w)
  <2>1. /\ processed' \in {processed, processed \cup {a}} /\ runs' = runs /\ applied' = applied
        /\ stage[w] = "record" /\ stage'[w] = "fail" /\ stage' \in [Worker -> Stages]
    BY <1>9 DEF RecordError, IInv, TypeOK, Stages
  <2>2. TypeOK'
    BY <1>2, <1>3, <1>4, <1>5, <2>1 DEF IInv, TypeOK
  <2>3. StageInv' /\ HistoryInv'
    BY <1>2, <1>3, <1>6, <2>1 DEF IInv, StageInv, HistoryInv
  <2> QED
    BY <1>4, <2>2, <2>3 DEF IInv
<1>10. CASE CallService(w)
  <2>1. /\ processed' = processed /\ applied' = applied /\ stage[w] = "call"
        /\ runs[a] = 0 /\ runs' \in [Task -> Nat] /\ runs'[a] = 1
        /\ \A b \in Task : b # a => runs'[b] = runs[b]
        /\ stage'[w] = "process" /\ stage' \in [Worker -> Stages]
    BY <1>2, <1>10 DEF CallService, IInv, TypeOK, StageInv, Stages
  <2>2. TypeOK'
    BY <1>3, <1>4, <1>5, <2>1 DEF IInv, TypeOK
  <2>3. \A v \in Worker : v # w /\ job[v] # NoTask => runs'[job[v]] = runs[job[v]]
    BY <1>2, <2>1 DEF IInv, TypeOK, EngineTypeOK
  <2>4. StageInv'
    BY <1>2, <1>3, <1>6, <2>1, <2>3 DEF IInv, StageInv
  <2>5. HistoryInv'
    BY <1>2, <1>3, <2>1 DEF IInv, StageInv, HistoryInv
  <2> QED
    BY <1>4, <2>2, <2>4, <2>5 DEF IInv
<1>11. CASE ServiceReturnsNil(w)
  <2>1. /\ processed' = processed /\ runs' = runs /\ applied' = applied \cup {a}
        /\ stage[w] = "process" /\ stage'[w] = "complete" /\ stage' \in [Worker -> Stages]
    BY <1>11 DEF ServiceReturnsNil, IInv, TypeOK, Stages
  <2>2. TypeOK'
    BY <1>2, <1>3, <1>4, <1>5, <2>1 DEF IInv, TypeOK
  <2>3. StageInv'
    BY <1>2, <1>3, <1>6, <2>1 DEF IInv, StageInv
  <2>4. HistoryInv'
    BY <1>2, <1>3, <2>1 DEF IInv, StageInv, HistoryInv
  <2> QED
    BY <1>4, <2>2, <2>3, <2>4 DEF IInv
<1>12. CASE ServiceReturnsError(w)
  <2>1. /\ processed' = processed /\ runs' = runs /\ applied' = applied
        /\ stage[w] = "process" /\ stage'[w] = "fail" /\ stage' \in [Worker -> Stages]
    BY <1>12 DEF ServiceReturnsError, IInv, TypeOK, Stages
  <2>2. TypeOK'
    BY <1>3, <1>4, <1>5, <2>1 DEF IInv, TypeOK
  <2>3. StageInv' /\ HistoryInv'
    BY <1>2, <1>3, <1>6, <2>1 DEF IInv, StageInv, HistoryInv
  <2> QED
    BY <1>4, <2>2, <2>3 DEF IInv
<1> QED
  BY <1>7, <1>8, <1>9, <1>10, <1>11, <1>12

(* The marks write the row of the worker's own task and free the worker. *)
LEMMA MarkStep ==
  ASSUME IInv, NEW w \in Worker,
         MarkInboundComplete(w) \/ MarkInboundFailed(w) \/ MarkError(w)
  PROVE  IInv'
<1> DEFINE a == job[w]
<1>1. /\ stage[w] \in {"complete", "fail"} /\ FinishTask(w) /\ stage' = [stage EXCEPT ![w] = "idle"]
      /\ processed' = processed /\ runs' = runs /\ applied' = applied
      /\ createdAt' = createdAt /\ clock' = clock /\ deliveries' = deliveries
  BY DEF MarkInboundComplete, MarkInboundFailed, Mark, MarkError, queueVars
<1>2. /\ a \in Task /\ a # NoTask /\ status[a] = "processing"
      /\ \A v \in Worker : v # w => job[v] # a
      /\ \A t \in Server : a \notin Elems(batch[t]) \cup Elems(channel[t])
  BY <1>1, OwnJob
<1>3. /\ batch' = batch /\ channel' = channel /\ poller' = poller
      /\ job'[w] = NoTask /\ \A v \in Worker : v # w => job'[v] = job[v]
      /\ stage'[w] = "idle" /\ \A v \in Worker : v # w => stage'[v] = stage[v]
      /\ stage' \in [Worker -> Stages]
  BY <1>1 DEF FinishTask, IInv, TypeOK, EngineTypeOK, Stages
<1>4. EngineInv'
  BY <1>1, FinishTaskStep DEF EngineInv, IInv, TypeOK
<1>5. /\ status' \in [Task -> Statuses]
      /\ \A b \in Task : b # a => status'[b] = status[b]
      /\ \/ stage[w] = "complete" /\ status'[a] = "completed"
         \/ stage[w] = "fail" /\ status'[a] = "failed"
         \/ status'[a] = "processing"
  BY <1>2 DEF MarkInboundComplete, MarkInboundFailed, Mark, MarkError, queueVars, IInv, TypeOK, Statuses
<1>6. TypeOK'
  <2>1. disruptions' \in 0..MaxDisruptions
    BY DisruptionsAssumption DEF MarkInboundComplete, MarkInboundFailed, Mark, MarkError,
       StatementFails, StatementSucceeds, Disrupted, IInv, TypeOK
  <2> QED
    BY <1>1, <1>3, <1>4, <1>5, <2>1 DEF EngineInv, IInv, TypeOK
<1>7. /\ \A t \in Server : Elems(batch[t]) \cup Elems(channel[t]) \subseteq Task \ {a}
      /\ \A v \in Worker : v # w /\ job[v] # NoTask => job[v] \in Task \ {a}
  BY <1>2, ElemsOfTasks DEF IInv, TypeOK, EngineTypeOK
<1>8. RowInv'
  BY <1>3, <1>5, <1>7 DEF IInv, RowInv
<1>9. StageInv'
  <2>1. NoTask \notin applied
    BY EngineAssumption DEF IInv, TypeOK
  <2> QED
    BY <1>1, <1>3, <2>1 DEF IInv, StageInv
<1>10. HistoryInv'
  BY <1>1, <1>2, <1>3, <1>5 DEF IInv, StageInv, HistoryInv
<1> QED
  BY <1>4, <1>6, <1>8, <1>9, <1>10 DEF EngineInv, IInv

------------------------------------------------------------------------------
(* Steps of the process. *)

(* Shutdown and restart touch no task; an exit forgets what the server held. *)
LEMMA ProcessStep ==
  ASSUME IInv, NEW s \in Server, Shutdown(s) \/ Exit(s) \/ Restart(s)
  PROVE  IInv'
<1>1. /\ processed' = processed /\ runs' = runs /\ applied' = applied /\ status' = status
      /\ createdAt' = createdAt /\ clock' = clock /\ deliveries' = deliveries
  BY DEF Shutdown, Exit, Restart, queueVars, runVars
<1>2. disruptions' \in 0..MaxDisruptions
  BY DisruptionsAssumption DEF Shutdown, Exit, Restart, Disrupted, IInv, TypeOK
<1>3. CASE Shutdown(s) \/ Restart(s)
  <2>1. EngineInv'
    BY <1>3, ContextStep DEF Shutdown, Restart, EngineInv, IInv, TypeOK
  <2>2. batch' = batch /\ channel' = channel /\ job' = job /\ stage' = stage
    BY <1>3 DEF Shutdown, Restart, Cancel, Boot, runVars
  <2>3. \A t \in Server : poller'[t] \in {poller[t], "waiting"}
    BY <1>3 DEF Shutdown, Restart, Cancel, Boot, IInv, TypeOK, EngineTypeOK
  <2>4. TypeOK'
    BY <1>1, <1>2, <2>1, <2>2 DEF EngineInv, IInv, TypeOK
  <2>5. RowInv' /\ StageInv' /\ HistoryInv'
    BY <1>1, <2>2, <2>3 DEF IInv, RowInv, StageInv, HistoryInv
  <2> QED
    BY <2>1, <2>4, <2>5 DEF EngineInv, IInv
<1>4. CASE Exit(s)
  <2>1. /\ EngineInv'
        /\ batch'[s] = <<>> /\ channel'[s] = <<>> /\ poller'[s] = "closed"
        /\ \A t \in Server : t # s =>
             batch'[t] = batch[t] /\ channel'[t] = channel[t] /\ poller'[t] = poller[t]
        /\ \A w \in Worker : job'[w] = IF ServerOf[w] = s THEN NoTask ELSE job[w]
    BY <1>4, KillStep DEF Exit, EngineInv, IInv, TypeOK
  <2>2. /\ stage' = [w \in Worker |-> IF ServerOf[w] = s THEN "idle" ELSE stage[w]]
        /\ NoTask \notin applied
    BY <1>4, EngineAssumption DEF Exit, IInv, TypeOK
  <2>3. TypeOK'
    BY <1>1, <1>2, <2>1, <2>2 DEF EngineInv, IInv, TypeOK, Stages
  <2>4. RowInv'
    BY <1>1, <2>1, ElemsEmpty DEF IInv, RowInv
  <2>5. StageInv'
    BY <1>1, <2>1, <2>2 DEF IInv, StageInv
  <2>6. HistoryInv'
    BY <1>1, <2>1, ElemsEmpty DEF IInv, HistoryInv
  <2> QED
    BY <2>1, <2>3, <2>4, <2>5, <2>6 DEF EngineInv, IInv
<1> QED
  BY <1>3, <1>4
------------------------------------------------------------------------------
(* The theorems. *)

(* IInv is inductive. *)
LEMMA NextIInv == IInv /\ [Next]_vars => IInv'
<1> SUFFICES ASSUME IInv, [Next]_vars PROVE IInv'
  OBVIOUS
<1>1. CASE \E a \in Task, t \in Tenant : EnqueueInbound(a, t)
  BY <1>1, EnqueueStep
<1>2. ASSUME NEW s \in Server, PollerStep(s) PROVE IInv'
  BY <1>2, ClaimStep, CommitStep, AbortStep, SendStep, CloseStep DEF PollerStep
<1>3. ASSUME NEW s \in Server, Shutdown(s) \/ Exit(s) \/ Restart(s) PROVE IInv'
  BY <1>3, ProcessStep
<1>4. ASSUME NEW w \in Worker, WorkerStep(w) PROVE IInv'
  BY <1>4, StartStep, RunStep, MarkStep DEF WorkerStep
<1>5. CASE UNCHANGED vars
  BY <1>5 DEF vars, engineVars, queueVars, runVars, IInv, TypeOK, EngineTypeOK, EngineShape,
     HeldOnce, RowInv, StageInv, HistoryInv, WorkersOf
<1> QED
  BY <1>1, <1>2, <1>3, <1>4, <1>5 DEF Next

(* The inductive invariant holds in every reachable state. *)
LEMMA Invariant == Spec => []IInv
<1>1. Init => IInv
  BY InitIInv
<1>2. IInv /\ [Next]_vars => IInv'
  BY NextIInv
<1> QED
  BY <1>1, <1>2, PTL DEF Spec

(* Every variable keeps its type, whatever happens to the servers. *)
THEOREM TypeCorrect == Spec => []TypeOK
<1>1. IInv => TypeOK
  BY DEF IInv
<1> QED
  BY <1>1, Invariant, PTL

(* Claims are disjoint, across goroutines and across servers, and the      *)
(* table agrees with who holds a row.                                      *)
THEOREM DisjointClaims == Spec => [](HeldOnce /\ HeldIsProcessing)
<1>1. IInv => HeldOnce /\ HeldIsProcessing
  BY RowsOfHeld DEF IInv, TypeOK
<1> QED
  BY <1>1, Invariant, PTL

(* The domain service is called at most once per activity, and the marks   *)
(* on the rows tell the truth about it.                                    *)
THEOREM AtMostOnce == Spec => [](ProcessedAtMostOnce /\ MarksAreTruthful)
<1>1. IInv => ProcessedAtMostOnce /\ MarksAreTruthful
  <2> SUFFICES ASSUME IInv PROVE ProcessedAtMostOnce /\ MarksAreTruthful
    OBVIOUS
  <2>0. HistoryInv
    BY DEF IInv
  <2>1. ASSUME NEW a \in Task PROVE runs[a] <= 1
    <3>1. runs[a] \in {0, 1}
      BY <2>0 DEF HistoryInv
    <3> QED
      BY <3>1
  <2>2. ASSUME NEW a \in Task
        PROVE  /\ status[a] = "completed" => a \in processed
               /\ status[a] = "failed" => a \notin applied
               /\ a \in applied => a \in processed /\ runs[a] = 1
    BY <2>0 DEF HistoryInv
  <2> QED
    BY <2>1, <2>2 DEF ProcessedAtMostOnce, MarksAreTruthful
<1> QED
  BY <1>1, Invariant, PTL

(* What a step does to the rows: none of them leaves 'completed'. *)
LEMMA CompletedStays ==
  ASSUME IInv, [Next]_vars, NEW a \in Task, status[a] = "completed"
  PROVE  status'[a] = "completed"
<1>1. CASE \E b \in Task, t \in Tenant : EnqueueInbound(b, t)
  BY <1>1 DEF EnqueueInbound, IInv, TypeOK
<1>2. ASSUME NEW s \in Server, PollerStep(s) PROVE status'[a] = "completed"
  <2>1. poller[s] = "claiming" => a \notin Elems(batch[s])
    BY DEF IInv, RowInv
  <2>2. CASE ClaimCommits(s) \/ ClaimAborts(s)
    BY <2>1, <2>2 DEF ClaimCommits, ClaimAborts, ClaimReturns, ClaimErrors, MarkInboundProcessing
  <2>3. CASE ~(ClaimCommits(s) \/ ClaimAborts(s))
    BY <1>2, <2>3 DEF PollerStep, ClaimInboundTasks, queueVars
  <2> QED
    BY <2>2, <2>3
<1>3. ASSUME NEW s \in Server, Shutdown(s) \/ Exit(s) \/ Restart(s) PROVE status'[a] = "completed"
  BY <1>3 DEF Shutdown, Exit, Restart, queueVars
<1>4. ASSUME NEW w \in Worker, WorkerStep(w) PROVE status'[a] = "completed"
  <2>1. stage[w] # "idle" => job[w] # a
    BY OwnJob
  <2>2. CASE MarkInboundComplete(w) \/ MarkInboundFailed(w)
    BY <2>1, <2>2 DEF MarkInboundComplete, MarkInboundFailed, Mark, IInv, TypeOK
  <2>3. CASE ~(MarkInboundComplete(w) \/ MarkInboundFailed(w))
    BY <1>4, <2>3 DEF WorkerStep, StartTask, RecordNew, RecordDuplicate, RecordError, CallService,
       ServiceReturnsNil, ServiceReturnsError, MarkError, queueVars
  <2> QED
    BY <2>2, <2>3
<1>5. CASE UNCHANGED vars
  BY <1>5 DEF vars, queueVars
<1> QED
  BY <1>1, <1>2, <1>3, <1>4, <1>5 DEF Next

(* No late mark, retry or replay reopens a completed row. *)
THEOREM CompletedNeverReopens == Spec => CompletedIsFinal
<1>1. IInv /\ [Next]_vars => [\A a \in Task : status[a] = "completed" => status'[a] = "completed"]_vars
  BY CompletedStays
<1> QED
  BY <1>1, Invariant, PTL DEF Spec, CompletedIsFinal

------------------------------------------------------------------------------
(* No row is stranded but by a disruption. *)

(* A row is in the hands of a poller, a channel or a worker. *)
InHands(a) ==
  \/ \E t \in Server : \/ poller[t] = "sending" /\ a \in Elems(batch[t])
                       \/ a \in Elems(channel[t])
  \/ \E w \in Worker : job[w] = a

(* Before the first disruption every process runs, and every row that is   *)
(* 'processing' is in somebody's hands.                                    *)
Kept ==
  disruptions = 0 => /\ \A s \in Server : engine[s] = "running"
                     /\ \A a \in Task : status[a] = "processing" => InHands(a)

(* Hands are what the engine calls held. *)
LEMMA HandsHold == ASSUME NEW a \in Task, InHands(a) PROVE a \in Held
<1>1. CASE \E t \in Server : \/ poller[t] = "sending" /\ a \in Elems(batch[t])
                             \/ a \in Elems(channel[t])
  <2>1. \E t \in Server : a \in Claimed(t) \/ a \in Elems(channel[t])
    BY <1>1 DEF Claimed
  <2> QED
    BY <2>1, HeldMember
<1>2. CASE \E w \in Worker : job[w] = a
  BY <1>2, HeldMember, EngineAssumption
<1> QED
  BY <1>1, <1>2 DEF InHands

(* Disruptions are counted and never forgotten. *)
LEMMA DisruptionsCount ==
  ASSUME IInv, [Next]_vars
  PROVE  /\ disruptions' = disruptions \/ disruptions' = disruptions + 1
         /\ disruptions' = 0 => disruptions = 0
<1>0. disruptions \in Nat
  BY DisruptionsAssumption DEF IInv, TypeOK
<1>1. disruptions' = disruptions \/ disruptions' = disruptions + 1
  <2>1. CASE \E a \in Task, t \in Tenant : EnqueueInbound(a, t)
    BY <2>1 DEF EnqueueInbound
  <2>2. ASSUME NEW s \in Server, PollerStep(s)
        PROVE  disruptions' = disruptions \/ disruptions' = disruptions + 1
    BY <2>2 DEF PollerStep, ClaimInboundTasks, ClaimCommits, ClaimAborts,
       StatementFails, StatementSucceeds, Disrupted
  <2>3. ASSUME NEW s \in Server, Shutdown(s) \/ Exit(s) \/ Restart(s)
        PROVE  disruptions' = disruptions \/ disruptions' = disruptions + 1
    BY <2>3 DEF Shutdown, Exit, Restart, Disrupted
  <2>4. ASSUME NEW w \in Worker, WorkerStep(w)
        PROVE  disruptions' = disruptions \/ disruptions' = disruptions + 1
    BY <2>4 DEF WorkerStep, StartTask, RecordNew, RecordDuplicate, RecordError, CallService,
       ServiceReturnsNil, ServiceReturnsError, MarkInboundComplete, MarkInboundFailed, Mark,
       MarkError, StatementFails, StatementSucceeds, Disrupted
  <2>5. CASE UNCHANGED vars
    BY <2>5 DEF vars
  <2> QED
    BY <2>1, <2>2, <2>3, <2>4, <2>5 DEF Next
<1> QED
  BY <1>0, <1>1

(* While every process runs, an undisrupted step of a poller or a worker   *)
(* hands rows on and drops none.                                           *)
LEMMA PollerKeeps ==
  ASSUME IInv, Kept, NEW s \in Server, PollerStep(s), disruptions' = 0, disruptions = 0
  PROVE  Kept'
<1>1. /\ \A t \in Server : engine[t] = "running"
      /\ \A a \in Task : status[a] = "processing" => InHands(a)
  BY DEF Kept
<1>2. engine' = engine
  BY DEF PollerStep, ClaimInboundTasks, BeginClaim, ClaimCommits, ClaimReturns, ClaimAborts,
     ClaimErrors, SendTask, ClosePoller
<1> SUFFICES ASSUME NEW a \in Task, status'[a] = "processing" PROVE InHands(a)'
  BY <1>1, <1>2 DEF Kept
<1>3. CASE ClaimInboundTasks(s)
  <2>1. /\ status' = status /\ channel' = channel /\ job' = job /\ poller[s] = "waiting"
        /\ \A t \in Server : t # s => poller'[t] = poller[t] /\ batch'[t] = batch[t]
    BY <1>3 DEF ClaimInboundTasks, BeginClaim, queueVars, IInv, TypeOK, EngineTypeOK
  <2> QED
    BY <1>1, <2>1 DEF InHands
<1>4. CASE ClaimCommits(s)
  <2>1. /\ status' = [b \in Task |-> IF b \in Elems(batch[s]) THEN "processing" ELSE status[b]]
        /\ channel' = channel /\ job' = job /\ batch' = batch
        /\ poller'[s] = "sending" /\ poller[s] = "claiming"
        /\ \A t \in Server : t # s => poller'[t] = poller[t]
    BY <1>4 DEF ClaimCommits, ClaimReturns, MarkInboundProcessing, IInv, TypeOK, EngineTypeOK
  <2> QED
    BY <1>1, <2>1 DEF InHands
<1>5. ~ClaimAborts(s)
  BY <1>1 DEF ClaimAborts, StatementFails, Disrupted
<1>6. CASE SendTask(s) /\ UNCHANGED <<queueVars, runVars, disruptions>>
  <2>1. /\ Elems(batch'[s]) \cup Elems(channel'[s]) = Elems(batch[s]) \cup Elems(channel[s])
        /\ \A t \in Server : t # s => batch'[t] = batch[t] /\ channel'[t] = channel[t]
        /\ Claimed(s)' = Elems(batch'[s])
    BY <1>6, SendTaskStep DEF EngineInv, IInv, TypeOK
  <2>2. /\ status' = status /\ job' = job /\ poller[s] = "sending"
        /\ \A t \in Server : t # s => poller'[t] = poller[t]
    BY <1>6 DEF SendTask, queueVars, IInv, TypeOK, EngineTypeOK
  <2>3. poller'[s] = "sending" \/ Elems(batch'[s]) = {}
    BY <2>1 DEF Claimed
  <2> QED
    BY <1>1, <2>1, <2>2, <2>3 DEF InHands
<1>7. ~ClosePoller(s)
  BY <1>1 DEF ClosePoller
<1> QED
  BY <1>3, <1>4, <1>5, <1>6, <1>7 DEF PollerStep

(* A mark ends the hold of its own row only. *)
LEMMA WorkerKeeps ==
  ASSUME IInv, Kept, NEW w \in Worker, WorkerStep(w), disruptions' = 0, disruptions = 0
  PROVE  Kept'
<1>1. /\ \A t \in Server : engine[t] = "running"
      /\ \A a \in Task : status[a] = "processing" => InHands(a)
  BY DEF Kept
<1>2. engine' = engine /\ batch' = batch /\ poller' = poller
  BY DEF WorkerStep, StartTask, TakeTask, RecordNew, RecordDuplicate, RecordError, CallService,
     ServiceReturnsNil, ServiceReturnsError, MarkInboundComplete, MarkInboundFailed, Mark,
     MarkError, FinishTask, engineVars
<1> SUFFICES ASSUME NEW a \in Task, status'[a] = "processing" PROVE InHands(a)'
  BY <1>1, <1>2 DEF Kept
<1>3. CASE StartTask(w)
  <2>1. /\ job[w] = NoTask /\ job'[w] \in Elems(channel[ServerOf[w]])
        /\ \A v \in Worker : v # w => job'[v] = job[v]
        /\ \A t \in Server : Elems(channel'[t]) =
             IF t = ServerOf[w] THEN Elems(channel[t]) \ {job'[w]} ELSE Elems(channel[t])
    BY <1>3, TakeTaskStep DEF StartTask, EngineInv, IInv, TypeOK
  <2>2. status' = status
    BY <1>3 DEF StartTask, queueVars
  <2>3. InHands(a) /\ a # NoTask
    BY <1>1, <2>2, EngineAssumption
  <2>4. CASE \E t \in Server : a \in Elems(channel[t])
    BY <1>2, <2>1, <2>4 DEF InHands
  <2>5. CASE \E t \in Server : poller[t] = "sending" /\ a \in Elems(batch[t])
    BY <1>2, <2>5 DEF InHands
  <2>6. CASE \E v \in Worker : job[v] = a
    BY <2>1, <2>3, <2>6 DEF InHands
  <2> QED
    BY <2>3, <2>4, <2>5, <2>6 DEF InHands
<1>4. CASE MarkInboundComplete(w) \/ MarkInboundFailed(w)
  <2>1. /\ stage[w] # "idle" /\ channel' = channel
        /\ status' = [status EXCEPT ![job[w]] = "completed"]
             \/ status' = [status EXCEPT ![job[w]] = "failed"]
        /\ job' = [job EXCEPT ![w] = NoTask]
    BY <1>4 DEF MarkInboundComplete, MarkInboundFailed, Mark, FinishTask
  <2>2. job[w] \in Task
    BY <2>1, OwnJob
  <2>3. a # job[w] /\ status[a] = "processing"
    BY <2>1, <2>2 DEF IInv, TypeOK
  <2>4. \A v \in Worker : job[v] = a => job'[v] = a
    BY <2>1, <2>3 DEF IInv, TypeOK, EngineTypeOK
  <2> QED
    BY <1>1, <1>2, <2>1, <2>3, <2>4 DEF InHands
<1>5. ~MarkError(w) /\ ~RecordError(w)
  BY <1>1, EngineAssumption DEF MarkError, RecordError, StatementFails, Disrupted
<1>6. CASE RecordNew(w) \/ RecordDuplicate(w) \/ CallService(w)
           \/ ServiceReturnsNil(w) \/ ServiceReturnsError(w)
  <2>1. status' = status /\ channel' = channel /\ job' = job
    BY <1>6 DEF RecordNew, RecordDuplicate, CallService, ServiceReturnsNil,
       ServiceReturnsError, engineVars, queueVars
  <2> QED
    BY <1>1, <1>2, <2>1 DEF InHands
<1> QED
  BY <1>3, <1>4, <1>5, <1>6 DEF WorkerStep

(* Kept is inductive, with IInv. *)
LEMMA NextKept == IInv /\ Kept /\ [Next]_vars => Kept'
<1> SUFFICES ASSUME IInv, Kept, [Next]_vars, disruptions' = 0 PROVE Kept'
  BY DEF Kept
<1>0. disruptions = 0
  BY DisruptionsCount
<1>1. CASE \E a \in Task, t \in Tenant : EnqueueInbound(a, t)
  <2>1. /\ engine' = engine /\ poller' = poller /\ batch' = batch /\ channel' = channel
        /\ job' = job
        /\ \A b \in Task : status'[b] = "processing" => status[b] = "processing"
    BY <1>1 DEF EnqueueInbound, engineVars, IInv, TypeOK
  <2> QED
    BY <1>0, <2>1 DEF Kept, InHands
<1>2. ASSUME NEW s \in Server, PollerStep(s) PROVE Kept'
  BY <1>0, <1>2, PollerKeeps
<1>3. ASSUME NEW s \in Server, Shutdown(s) \/ Exit(s) \/ Restart(s) PROVE FALSE
  BY <1>0, <1>3 DEF Kept, Shutdown, Exit, Restart, Boot, Disrupted
<1>4. ASSUME NEW w \in Worker, WorkerStep(w) PROVE Kept'
  BY <1>0, <1>4, WorkerKeeps
<1>5. CASE UNCHANGED vars
  BY <1>5 DEF vars, engineVars, queueVars, Kept, InHands
<1> QED
  BY <1>1, <1>2, <1>3, <1>4, <1>5 DEF Next

(* Without a database error, a shutdown or a crash no row is stranded: one *)
(* that is 'processing' is held by a poller, a channel or a worker.        *)
THEOREM OnlyDisruptionsStrand == Spec => []StrandedOnlyByDisruption
<1>1. Init => Kept
  BY DEF Init, EngineInit, Kept
<1>2. IInv /\ Kept /\ [Next]_vars => Kept'
  BY NextKept
<1>3. Kept => StrandedOnlyByDisruption
  BY HandsHold DEF Kept, StrandedOnlyByDisruption
<1> QED
  BY <1>1, <1>2, <1>3, Invariant, PTL DEF Spec

------------------------------------------------------------------------------
(* The refinement of InboundLedger. *)

Accepted == {b \in Task : status[b] # "absent"}
Closed == {b \in Task : status[b] = "completed"}

(* One action of the ledger is a step of it. *)
LEMMA LedgerMove ==
  ASSUME NEW a \in Task,
         Ledger!Accept(a) \/ Ledger!HandOver(a) \/ Ledger!Apply(a) \/ Ledger!Close(a)
  PROVE  [Ledger!LedgerNext]_(Ledger!ledgerVars)
  BY DEF Ledger!LedgerNext

(* A step that neither creates nor completes a row, calls nothing and      *)
(* applies nothing is a stuttering step of the ledger.                     *)
LEMMA LedgerStutter ==
  ASSUME runs' = runs, applied' = applied,
         \A a \in Task : /\ status'[a] = "absent" <=> status[a] = "absent"
                         /\ status'[a] = "completed" <=> status[a] = "completed"
  PROVE  UNCHANGED Ledger!ledgerVars
<1>1. Accepted' = Accepted
  BY DEF Accepted
<1>2. Closed' = Closed
  BY DEF Closed
<1> QED
  BY <1>1, <1>2 DEF Accepted, Closed, Ledger!ledgerVars

(* The claims, the channel, the records, failed marks and the process are  *)
(* invisible in the ledger.                                                *)
LEMMA PollerIsStutter ==
  ASSUME IInv, NEW s \in Server, PollerStep(s) \/ Shutdown(s) \/ Exit(s) \/ Restart(s)
  PROVE  UNCHANGED Ledger!ledgerVars
<1>1. runs' = runs /\ applied' = applied
  BY DEF PollerStep, ClaimInboundTasks, ClaimCommits, ClaimAborts, Shutdown, Exit, Restart, runVars
<1>2. /\ poller[s] = "claiming" =>
           \A a \in Elems(batch[s]) : status[a] \in {"pending", "failed"}
      /\ status \in [Task -> Statuses]
  BY DEF IInv, TypeOK, RowInv
<1>3. CASE ClaimCommits(s) \/ ClaimAborts(s)
  <2>1. /\ poller[s] = "claiming"
        /\ \A a \in Task : \/ status'[a] = status[a]
                           \/ a \in Elems(batch[s]) /\ status'[a] = "processing"
    BY <1>3 DEF ClaimCommits, ClaimAborts, ClaimReturns, ClaimErrors, MarkInboundProcessing
  <2> QED
    BY <1>1, <1>2, <2>1, LedgerStutter
<1>4. CASE ~(ClaimCommits(s) \/ ClaimAborts(s))
  <2>1. status' = status
    BY <1>4 DEF PollerStep, ClaimInboundTasks, Shutdown, Exit, Restart, queueVars
  <2> QED
    BY <1>1, <2>1, LedgerStutter
<1> QED
  BY <1>3, <1>4

(* Accepting an activity twice is invisible, accepting it once is Accept. *)
LEMMA EnqueueIsAccept ==
  ASSUME IInv, NEW a \in Task, NEW t \in Tenant, EnqueueInbound(a, t)
  PROVE  Ledger!Accept(a) \/ UNCHANGED Ledger!ledgerVars
<1>1. runs' = runs /\ applied' = applied /\ status \in [Task -> Statuses]
  BY DEF EnqueueInbound, runVars, IInv, TypeOK
<1>2. CASE status[a] = "absent"
  <2>1. status' = [status EXCEPT ![a] = "pending"]
    BY <1>2 DEF EnqueueInbound
  <2>2. Accepted' = Accepted \cup {a} /\ a \notin Accepted
    BY <1>1, <1>2, <2>1 DEF Accepted
  <2>3. Closed' = Closed
    BY <1>1, <1>2, <2>1 DEF Closed
  <2> QED
    BY <1>1, <2>2, <2>3 DEF Accepted, Closed, Ledger!Accept
<1>3. CASE status[a] # "absent"
  <2>1. status' = status
    BY <1>3 DEF EnqueueInbound
  <2> QED
    BY <1>1, <2>1, LedgerStutter
<1> QED
  BY <1>2, <1>3

(* Marking a row completed closes the activity.  The activity is picked as *)
(* a constant: the substitution for "closed" makes Ledger!Close opaque to  *)
(* equalities between state-dependent arguments.                           *)
LEMMA MarkIsClose ==
  ASSUME IInv, NEW w \in Worker, MarkInboundComplete(w)
  PROVE  \E a \in Task : Ledger!Close(a)
<1>1. /\ stage[w] = "complete" /\ status' = [status EXCEPT ![job[w]] = "completed"]
      /\ runs' = runs /\ applied' = applied
  BY DEF MarkInboundComplete, Mark
<1>2. PICK a \in Task : a = job[w]
  BY <1>1, OwnJob
<1>3. /\ status[a] = "processing" /\ a \in Accepted /\ a \notin Closed
      /\ status \in [Task -> Statuses]
  BY <1>1, <1>2, OwnJob DEF Accepted, Closed, IInv, TypeOK
<1>4. Accepted' = Accepted
  BY <1>1, <1>2, <1>3 DEF Accepted
<1>5. Closed' = Closed \cup {a}
  BY <1>1, <1>2, <1>3 DEF Closed
<1>6. Ledger!Close(a)
  BY <1>1, <1>3, <1>4, <1>5 DEF Ledger!Close, Accepted, Closed
<1> QED
  BY <1>6

(* A worker hands its activity over, has it applied, closes its row, or    *)
(* does something the ledger does not see.                                 *)
LEMMA WorkerIsLedger ==
  ASSUME IInv, NEW w \in Worker, WorkerStep(w)
  PROVE  [Ledger!LedgerNext]_(Ledger!ledgerVars)
<1> DEFINE a == job[w]
<1>1. stage[w] # "idle" =>
        a \in Task /\ status[a] = "processing" /\ a \in Accepted /\ a \notin Closed
  BY OwnJob DEF Accepted, Closed
<1>2. status \in [Task -> Statuses] /\ runs \in [Task -> Nat]
  BY DEF IInv, TypeOK
<1>3. CASE CallService(w)
  <2>1. /\ stage[w] = "call" /\ status' = status /\ applied' = applied
        /\ runs' = [runs EXCEPT ![a] = @ + 1] /\ runs[a] = 0
    BY <1>3 DEF CallService, queueVars, IInv, StageInv
  <2>2. runs' = [runs EXCEPT ![a] = 1]
    BY <2>1
  <2>3. Ledger!HandOver(a)
    BY <1>1, <2>1, <2>2 DEF Ledger!HandOver, Accepted, Closed
  <2> QED
    BY <1>1, <2>1, <2>3, LedgerMove
<1>4. CASE ServiceReturnsNil(w)
  <2>1. /\ stage[w] = "process" /\ status' = status /\ runs' = runs
        /\ applied' = applied \cup {a} /\ runs[a] = 1 /\ a \notin applied
    BY <1>4 DEF ServiceReturnsNil, queueVars, IInv, StageInv
  <2>2. Ledger!Apply(a)
    BY <1>1, <2>1 DEF Ledger!Apply, Accepted, Closed
  <2> QED
    BY <1>1, <2>1, <2>2, LedgerMove
<1>5. CASE MarkInboundComplete(w)
  BY <1>5, MarkIsClose, LedgerMove
<1>6. CASE MarkInboundFailed(w)
  <2>1. /\ stage[w] = "fail" /\ status' = [status EXCEPT ![a] = "failed"]
        /\ runs' = runs /\ applied' = applied
    BY <1>6 DEF MarkInboundFailed, Mark
  <2>2. UNCHANGED Ledger!ledgerVars
    BY <1>1, <1>2, <2>1, LedgerStutter
  <2> QED
    BY <2>2
<1>7. CASE ~(CallService(w) \/ ServiceReturnsNil(w) \/ MarkInboundComplete(w) \/ MarkInboundFailed(w))
  <2>1. status' = status /\ runs' = runs /\ applied' = applied
    BY <1>7 DEF WorkerStep, StartTask, RecordNew, RecordDuplicate, RecordError,
       ServiceReturnsError, MarkError, queueVars
  <2>2. UNCHANGED Ledger!ledgerVars
    BY <2>1, LedgerStutter
  <2> QED
    BY <2>2
<1> QED
  BY <1>3, <1>4, <1>5, <1>6, <1>7

(* The queue implements the ledger: every activity is accepted once, given *)
(* to the domain service at most once, and untouched once its row is       *)
(* completed.                                                              *)
THEOREM RefinesLedger == Spec => ImplementsLedger
<1>1. Init => Ledger!LedgerInit
  <2> SUFFICES ASSUME Init PROVE Ledger!LedgerInit
    OBVIOUS
  <2>1. Accepted = {} /\ Closed = {}
    BY DEF Init, Accepted, Closed
  <2> QED
    BY <2>1 DEF Init, Accepted, Closed, Ledger!LedgerInit
<1>2. IInv /\ [Next]_vars => [Ledger!LedgerNext]_(Ledger!ledgerVars)
  <2> SUFFICES ASSUME IInv, [Next]_vars PROVE [Ledger!LedgerNext]_(Ledger!ledgerVars)
    OBVIOUS
  <2>1. ASSUME NEW a \in Task, NEW t \in Tenant, EnqueueInbound(a, t)
        PROVE  [Ledger!LedgerNext]_(Ledger!ledgerVars)
    BY <2>1, EnqueueIsAccept, LedgerMove
  <2>2. ASSUME NEW s \in Server, PollerStep(s) \/ Shutdown(s) \/ Exit(s) \/ Restart(s)
        PROVE  [Ledger!LedgerNext]_(Ledger!ledgerVars)
    BY <2>2, PollerIsStutter
  <2>3. ASSUME NEW w \in Worker, WorkerStep(w)
        PROVE  [Ledger!LedgerNext]_(Ledger!ledgerVars)
    BY <2>3, WorkerIsLedger
  <2>4. CASE UNCHANGED vars
    <3>1. status' = status /\ runs' = runs /\ applied' = applied
      BY <2>4 DEF vars, queueVars, runVars
    <3>2. UNCHANGED Ledger!ledgerVars
      BY <3>1, LedgerStutter
    <3> QED
      BY <3>2
  <2> QED
    BY <2>1, <2>2, <2>3, <2>4 DEF Next
<1> QED
  BY <1>1, <1>2, Invariant, PTL DEF Spec, ImplementsLedger, Ledger!LedgerSpec

------------------------------------------------------------------------------
(* The outbound queue: OutboundInv is inductive. *)

(* Whatever the count of attempts, the delay stays below the cap. *)
LEMMA DelayRange == ASSUME NEW n \in Nat PROVE Delay(n) \in 0..MaxDelay
<1>1. 2 ^ n \in Int
  OBVIOUS
<1> QED
  BY <1>1, OutboundAssumption DEF Delay

LEMMA InitOutbound == OutboundInit => OutboundInv
<1> SUFFICES ASSUME OutboundInit PROVE OutboundInv
  OBVIOUS
<1>1. OutboundTypeOK
  <2>1. EngineTypeOK
    BY ElemsEmpty DEF OutboundInit, EngineInit, EngineTypeOK
  <2> QED
    BY <2>1, OutboundAssumption, DisruptionsAssumption DEF OutboundInit, OutboundTypeOK, Causes
<1>2. EngineShape /\ HeldOnce
  BY EngineAssumption, ElemsEmpty DEF OutboundInit, EngineInit, EngineShape, HeldOnce, WorkersOf
<1>3. RowInv /\ DeliveryStageInv
  BY ElemsEmpty DEF OutboundInit, EngineInit, RowInv, DeliveryStageInv
<1>4. CopiesInv /\ RestInv
  BY ElemsEmpty DEF OutboundInit, EngineInit, CopiesInv, RestInv, Rested
<1> QED
  BY <1>1, <1>2, <1>3, <1>4 DEF OutboundInv

(* Who holds what, in the words of the tables: everything a goroutine has  *)
(* is a row, and the row of a busy worker is nobody else's.                *)
LEMMA HandsAreRows ==
  ASSUME OutboundInv
  PROVE  /\ \A t \in Server : Elems(batch[t]) \cup Elems(channel[t]) \subseteq Task
         /\ \A w \in Worker : job[w] # NoTask => job[w] \in Task
  BY ElemsOfTasks DEF OutboundInv, OutboundTypeOK, EngineTypeOK

LEMMA OwnDelivery ==
  ASSUME OutboundInv, NEW w \in Worker, stage[w] # "idle"
  PROVE  /\ job[w] \in Task /\ job[w] # NoTask /\ status[job[w]] = "processing"
         /\ \A v \in Worker : v # w => job[v] # job[w]
         /\ \A t \in Server : job[w] \notin Elems(batch[t]) \cup Elems(channel[t])
  BY DEF OutboundInv, OutboundTypeOK, EngineTypeOK, DeliveryStageInv, HeldOnce, RowInv

(* Time lets the rows rest: what has been slept through stays so. *)
LEMMA TickStep == ASSUME OutboundInv, Tick PROVE OutboundInv'
<1> USE DEF OutboundInv
<1>1. /\ engine' = engine /\ poller' = poller /\ batch' = batch /\ channel' = channel
      /\ job' = job /\ status' = status /\ attempts' = attempts /\ stage' = stage
      /\ delay' = delay /\ accepted' = accepted /\ uncertain' = uncertain /\ posted' = posted
  BY DEF Tick, engineVars, sendVars
<1>2. /\ wait' \in [Task -> 0..MaxDelay] /\ idle' \in [Task -> 0..MaxDelay]
      /\ \A a \in Task : /\ idle'[a] = MaxDelay \/ idle'[a] = idle[a] + 1
                         /\ idle'[a] >= idle[a]
                         /\ \/ wait'[a] = wait[a] - 1
                            \/ wait'[a] = wait[a] /\ wait[a] = 0
  <2>1. /\ wait' = [a \in Task |-> IF wait[a] > 0 THEN wait[a] - 1 ELSE 0]
        /\ idle' = [a \in Task |-> IF idle[a] < MaxDelay THEN idle[a] + 1 ELSE MaxDelay]
    BY DEF Tick
  <2>2. wait \in [Task -> 0..MaxDelay] /\ idle \in [Task -> 0..MaxDelay] /\ MaxDelay \in Nat
    BY OutboundAssumption DEF OutboundTypeOK
  <2> QED
    BY <2>1, <2>2
<1>3. OutboundTypeOK' /\ EngineShape' /\ HeldOnce' /\ RowInv' /\ DeliveryStageInv' /\ CopiesInv'
  <2>1. OutboundTypeOK'
    BY <1>1, <1>2 DEF Tick, sendVars, OutboundTypeOK, EngineTypeOK
  <2>2. EngineShape' /\ HeldOnce'
    BY <1>1 DEF Tick, EngineShape, HeldOnce, WorkersOf
  <2>3. RowInv'
    BY <1>1 DEF Tick, RowInv
  <2>4. DeliveryStageInv' /\ CopiesInv'
    BY <1>1 DEF Tick, sendVars, DeliveryStageInv, CopiesInv
  <2> QED
    BY <2>1, <2>2, <2>3, <2>4
<1>4. ASSUME NEW a \in Task, NEW n \in Nat, Rested(a, n)
      PROVE  a \in posted' => idle'[a] >= Delay(n)
  BY <1>1, <1>2, <1>4, DelayRange, OutboundAssumption DEF Rested, OutboundTypeOK
<1>5. \A a \in Task : /\ attempts[a] \in Nat
                      /\ status[a] = "processing" => attempts[a] - 1 \in Nat
  <2>1. attempts \in [Task -> Nat]
    BY DEF OutboundTypeOK
  <2>2. \A a \in Task : status[a] = "processing" => attempts[a] >= 1
    BY DEF RestInv
  <2>3. ASSUME NEW a \in Task, status[a] = "processing" PROVE attempts[a] - 1 \in Nat
    <3>1. attempts[a] \in Nat /\ attempts[a] >= 1
      BY <2>1, <2>2, <2>3
    <3> QED
      BY <3>1
  <2> QED
    BY <2>1, <2>3
<1>6. ASSUME NEW a \in Task, status[a] = "failed", a \in posted
      PROVE  wait'[a] + idle'[a] >= Delay(attempts[a])
  <2>1. wait[a] + idle[a] >= Delay(attempts[a]) /\ Delay(attempts[a]) \in 0..MaxDelay
    BY <1>5, <1>6, DelayRange DEF RestInv
  <2> QED
    BY <1>2, <2>1, OutboundAssumption DEF OutboundTypeOK
<1>7. RestInv'
  <2>1. ASSUME NEW a \in Task
        PROVE  /\ status'[a] = "pending" => a \notin posted'
               /\ status'[a] = "processing" => attempts'[a] >= 1
               /\ status'[a] = "failed" /\ a \in posted' => wait'[a] + idle'[a] >= Delay(attempts'[a])
    BY <1>1, <1>6 DEF RestInv
  <2>2. ASSUME NEW s \in Server
        PROVE  /\ poller'[s] = "claiming" => \A a \in Elems(batch'[s]) : Rested(a, attempts[a])'
               /\ poller'[s] = "sending" => \A a \in Elems(batch'[s]) : Rested(a, attempts[a] - 1)'
               /\ \A a \in Elems(channel'[s]) : Rested(a, attempts[a] - 1)'
    BY <1>1, <1>4, <1>5, HandsAreRows DEF RestInv, RowInv, Rested
  <2>3. ASSUME NEW w \in Worker, stage'[w] \in {"keys", "post"}
        PROVE  Rested(job[w], attempts[job[w]] - 1)'
    <3>1. job[w] \in Task /\ status[job[w]] = "processing"
      BY <1>1, <2>3, OwnDelivery
    <3>2. Rested(job[w], attempts[job[w]] - 1)
      BY <1>1, <2>3 DEF RestInv
    <3> QED
      BY <1>1, <1>4, <1>5, <3>1, <3>2 DEF Rested
  <2> QED
    BY <2>1, <2>2, <2>3 DEF RestInv
<1> QED
  BY <1>3, <1>7

------------------------------------------------------------------------------
(* Steps of the poller. *)

(* Opening a claim: the rows are due, hence held by nobody and rested. *)
LEMMA OutboundClaimStep ==
  ASSUME OutboundInv, NEW s \in Server, ClaimOutboundTasks(s)
  PROVE  OutboundInv'
<1> USE DEF OutboundInv
<1>0. PICK n \in 1..BatchSize : \E q \in [1..n -> Task] : OldestDue(q) /\ BeginClaim(s, q)
  BY DEF ClaimOutboundTasks
<1>1. PICK q \in [1..n -> Task] : OldestDue(q) /\ BeginClaim(s, q)
  BY <1>0
<1>2. n \in Nat /\ q \in Seq(Task) /\ Len(q) = n
  BY EngineAssumption
<1>3. Elems(q) \subseteq DueRows /\ Distinct(q)
  BY <1>1 DEF OldestDue
<1>4. \A a \in Elems(q) : /\ a \in Task /\ a \notin Locked
                          /\ status[a] = "pending" \/ (status[a] = "failed" /\ wait[a] = 0)
  BY <1>3 DEF DueRows
<1>5. FreshBatch(q)
  <2>1. ASSUME NEW a \in Elems(q) PROVE a \notin Held \cup Locked
    BY <1>4, <2>1, RowsOfHeld DEF HeldIsProcessing, OutboundTypeOK
  <2> QED
    BY <1>2, <1>3, <2>1 DEF FreshBatch
<1>6. EngineInv'
  BY <1>1, <1>5, BeginClaimStep DEF EngineInv, OutboundTypeOK
<1>7. OutboundTypeOK'
  BY <1>6 DEF ClaimOutboundTasks, rowVars, sendVars, remoteVars, OutboundTypeOK, EngineInv
<1>8. /\ channel' = channel /\ job' = job /\ stage' = stage /\ status' = status
      /\ attempts' = attempts /\ wait' = wait /\ delay' = delay /\ accepted' = accepted
      /\ uncertain' = uncertain /\ idle' = idle /\ posted' = posted
      /\ batch'[s] = q /\ poller'[s] = "claiming"
      /\ \A t \in Server : t # s => batch'[t] = batch[t] /\ poller'[t] = poller[t]
  BY <1>1 DEF ClaimOutboundTasks, BeginClaim, rowVars, sendVars, remoteVars,
     OutboundTypeOK, EngineTypeOK
<1>9. RowInv' /\ DeliveryStageInv'
  BY <1>4, <1>8 DEF RowInv, DeliveryStageInv
<1>10. CopiesInv'
  BY <1>4, <1>8 DEF CopiesInv
<1>11. ASSUME NEW a \in Elems(q) PROVE Rested(a, attempts[a])
  <2>1. CASE status[a] = "pending"
    BY <1>4, <2>1 DEF RestInv, Rested
  <2>2. CASE status[a] = "failed" /\ wait[a] = 0
    <3>1. a \in posted => 0 + idle[a] >= Delay(attempts[a])
      BY <1>4, <2>2 DEF RestInv
    <3>2. idle[a] \in Nat
      BY <1>4, OutboundAssumption DEF OutboundTypeOK
    <3> QED
      BY <3>1, <3>2 DEF Rested
  <2> QED
    BY <1>4, <1>11, <2>1, <2>2
<1>12. RestInv'
  BY <1>8, <1>11 DEF RestInv, Rested
<1> QED
  BY <1>6, <1>7, <1>9, <1>10, <1>12 DEF EngineInv

(* Committing a claim counts one attempt more for exactly the locked rows. *)
LEMMA OutboundCommitStep ==
  ASSUME OutboundInv, NEW s \in Server, OutboundClaimCommits(s)
  PROVE  OutboundInv'
<1> USE DEF OutboundInv
<1>1. EngineInv'
  BY ClaimReturnsStep DEF EngineInv, OutboundTypeOK, OutboundClaimCommits
<1>2. /\ batch' = batch /\ channel' = channel /\ job' = job /\ stage' = stage
      /\ wait' = wait /\ delay' = delay /\ accepted' = accepted
      /\ uncertain' = uncertain /\ idle' = idle /\ posted' = posted
      /\ poller[s] = "claiming" /\ poller'[s] = "sending"
      /\ \A t \in Server : t # s => poller'[t] = poller[t]
  BY DEF OutboundClaimCommits, ClaimReturns, sendVars, remoteVars, OutboundTypeOK, EngineTypeOK
<1>3. /\ status' = [a \in Task |-> IF a \in Elems(batch[s]) THEN "processing" ELSE status[a]]
      /\ attempts' = [a \in Task |-> IF a \in Elems(batch[s]) THEN attempts[a] + 1 ELSE attempts[a]]
  BY DEF OutboundClaimCommits, MarkOutboundProcessing
<1>4. OutboundTypeOK'
  BY <1>1, <1>2, <1>3 DEF OutboundClaimCommits, StatementSucceeds, sendVars, remoteVars,
     OutboundTypeOK, EngineInv
<1>5. /\ \A t \in Server : Elems(batch[t]) \cup Elems(channel[t]) \subseteq Task
      /\ \A t \in Server : t # s => Elems(batch[t]) \cap Elems(batch[s]) = {}
      /\ \A t \in Server : Elems(channel[t]) \cap Elems(batch[s]) = {}
      /\ \A w \in Worker : job[w] # NoTask => job[w] \in Task \ Elems(batch[s])
  BY HandsAreRows DEF HeldOnce
<1>6. RowInv'
  BY <1>2, <1>3, <1>5 DEF RowInv
<1>7. \A a \in Task : /\ attempts[a] \in Nat
                      /\ a \notin Elems(batch[s]) =>
                           status'[a] = status[a] /\ attempts'[a] = attempts[a]
                      /\ a \in Elems(batch[s]) =>
                           status'[a] = "processing" /\ attempts'[a] - 1 = attempts[a]
  BY <1>3 DEF OutboundTypeOK
<1>8. DeliveryStageInv'
  BY <1>2, <1>5, <1>7 DEF DeliveryStageInv
<1>9. CopiesInv'
  BY <1>2, <1>7 DEF CopiesInv
<1>10. RestInv'
  <2>1. ASSUME NEW a \in Task
        PROVE  /\ status'[a] = "pending" => a \notin posted'
               /\ status'[a] = "processing" => attempts'[a] >= 1
               /\ status'[a] = "failed" /\ a \in posted' => wait'[a] + idle'[a] >= Delay(attempts'[a])
    BY <1>2, <1>3, <1>7 DEF RestInv
  <2>2. ASSUME NEW t \in Server
        PROVE  /\ poller'[t] = "claiming" => \A a \in Elems(batch'[t]) : Rested(a, attempts[a])'
               /\ poller'[t] = "sending" => \A a \in Elems(batch'[t]) : Rested(a, attempts[a] - 1)'
               /\ \A a \in Elems(channel'[t]) : Rested(a, attempts[a] - 1)'
    <3>1. CASE t = s
      BY <1>2, <1>5, <1>7, <3>1 DEF RestInv, Rested
    <3>2. CASE t # s
      BY <1>2, <1>5, <1>7, <3>2 DEF RestInv, Rested
    <3> QED
      BY <3>1, <3>2
  <2>3. ASSUME NEW w \in Worker, stage'[w] \in {"keys", "post"}
        PROVE  Rested(job[w], attempts[job[w]] - 1)'
    <3>1. job[w] \in Task /\ job[w] # NoTask
      BY <1>2, <2>3, OwnDelivery
    <3> QED
      BY <1>2, <1>5, <1>7, <2>3, <3>1 DEF RestInv, Rested
  <2> QED
    BY <2>1, <2>2, <2>3 DEF RestInv
<1> QED
  BY <1>1, <1>4, <1>6, <1>8, <1>9, <1>10 DEF EngineInv

(* A failed claim forgets its rows, whether or not the commit took effect. *)
LEMMA OutboundAbortStep ==
  ASSUME OutboundInv, NEW s \in Server, OutboundClaimAborts(s)
  PROVE  OutboundInv'
<1> USE DEF OutboundInv
<1>1. EngineInv'
  BY DropBatchStep DEF EngineInv, OutboundTypeOK, OutboundClaimAborts
<1>2. /\ channel' = channel /\ job' = job /\ stage' = stage
      /\ wait' = wait /\ delay' = delay /\ accepted' = accepted
      /\ uncertain' = uncertain /\ idle' = idle /\ posted' = posted
      /\ batch'[s] = <<>> /\ poller[s] = "claiming" /\ poller'[s] = "waiting"
      /\ \A t \in Server : t # s => poller'[t] = poller[t] /\ batch'[t] = batch[t]
  BY DEF OutboundClaimAborts, ClaimErrors, sendVars, remoteVars, OutboundTypeOK, EngineTypeOK
<1>3. /\ status' \in [Task -> {"pending", "processing", "completed", "failed"}]
      /\ attempts' \in [Task -> Nat]
      /\ \A a \in Task : \/ status'[a] = status[a] /\ attempts'[a] = attempts[a]
                        \/ /\ a \in Elems(batch[s]) /\ status'[a] = "processing"
                           /\ attempts'[a] >= 1
  <2>1. attempts \in [Task -> Nat]
    BY DEF OutboundTypeOK
  <2>2. CASE MarkOutboundProcessing(s)
    BY <2>1, <2>2 DEF MarkOutboundProcessing, OutboundTypeOK
  <2>3. CASE UNCHANGED <<status, attempts>>
    BY <2>3 DEF OutboundTypeOK
  <2> QED
    BY <2>2, <2>3 DEF OutboundClaimAborts
<1>4. OutboundTypeOK'
  <2>1. disruptions' \in 0..MaxDisruptions
    BY DisruptionsAssumption DEF OutboundClaimAborts, StatementFails, Disrupted, OutboundTypeOK
  <2> QED
    BY <1>1, <1>2, <1>3, <2>1 DEF OutboundClaimAborts, sendVars, remoteVars, OutboundTypeOK, EngineInv
<1>5. /\ \A t \in Server : Elems(batch[t]) \cup Elems(channel[t]) \subseteq Task
      /\ \A t \in Server : t # s => Elems(batch[t]) \cap Elems(batch[s]) = {}
      /\ \A t \in Server : Elems(channel[t]) \cap Elems(batch[s]) = {}
      /\ \A w \in Worker : job[w] # NoTask => job[w] \in Task \ Elems(batch[s])
  BY HandsAreRows DEF HeldOnce
<1>6. RowInv'
  BY <1>2, <1>3, <1>5, ElemsEmpty DEF RowInv
<1>7. DeliveryStageInv'
  BY <1>2, <1>3, <1>5 DEF DeliveryStageInv
<1>8. CopiesInv'
  BY <1>2, <1>3, ElemsEmpty DEF CopiesInv
<1>9. RestInv'
  <2>1. ASSUME NEW a \in Task
        PROVE  /\ status'[a] = "pending" => a \notin posted'
               /\ status'[a] = "processing" => attempts'[a] >= 1
               /\ status'[a] = "failed" /\ a \in posted' => wait'[a] + idle'[a] >= Delay(attempts'[a])
    BY <1>2, <1>3 DEF RestInv
  <2>2. ASSUME NEW t \in Server
        PROVE  /\ poller'[t] = "claiming" => \A a \in Elems(batch'[t]) : Rested(a, attempts[a])'
               /\ poller'[t] = "sending" => \A a \in Elems(batch'[t]) : Rested(a, attempts[a] - 1)'
               /\ \A a \in Elems(channel'[t]) : Rested(a, attempts[a] - 1)'
    BY <1>2, <1>3, <1>5, ElemsEmpty DEF RestInv, Rested
  <2>3. ASSUME NEW w \in Worker, stage'[w] \in {"keys", "post"}
        PROVE  Rested(job[w], attempts[job[w]] - 1)'
    <3>1. job[w] \in Task /\ job[w] # NoTask
      BY <1>2, <2>3, OwnDelivery
    <3> QED
      BY <1>2, <1>3, <1>5, <2>3, <3>1 DEF RestInv, Rested
  <2> QED
    BY <2>1, <2>2, <2>3 DEF RestInv
<1> QED
  BY <1>1, <1>4, <1>6, <1>7, <1>8, <1>9 DEF EngineInv

(* Pushing a task and dropping a batch leave every row as it is. *)
LEMMA OutboundPushStep ==
  ASSUME OutboundInv, NEW s \in Server, SendTask(s) \/ ClosePoller(s),
         UNCHANGED <<rowVars, sendVars, remoteVars, disruptions>>
  PROVE  OutboundInv'
<1> USE DEF OutboundInv
<1>1. /\ EngineInv' /\ job' = job
      /\ Elems(batch'[s]) \cup Elems(channel'[s]) \subseteq Elems(batch[s]) \cup Elems(channel[s])
      /\ Elems(batch'[s]) \cup Elems(channel'[s]) = Elems(channel[s]) \/ poller[s] = "sending"
      /\ poller'[s] # "claiming"
      /\ \A t \in Server : t # s =>
           batch'[t] = batch[t] /\ channel'[t] = channel[t] /\ poller'[t] = poller[t]
  <2>1. CASE SendTask(s)
    <3>1. /\ EngineInv' /\ job' = job
          /\ Elems(batch'[s]) \cup Elems(channel'[s]) = Elems(batch[s]) \cup Elems(channel[s])
          /\ \A t \in Server : t # s => batch'[t] = batch[t] /\ channel'[t] = channel[t]
      BY <2>1, SendTaskStep DEF EngineInv, OutboundTypeOK, SendTask
    <3>2. /\ poller[s] = "sending" /\ poller'[s] # "claiming"
          /\ \A t \in Server : t # s => poller'[t] = poller[t]
      BY <2>1 DEF OutboundTypeOK, EngineTypeOK, SendTask
    <3> QED
      BY <3>1, <3>2
  <2>2. CASE ClosePoller(s)
    <3>1. /\ EngineInv' /\ job' = job /\ channel' = channel
          /\ batch'[s] = <<>> /\ poller'[s] = "closed"
          /\ \A t \in Server : t # s => batch'[t] = batch[t] /\ poller'[t] = poller[t]
      <4>1. EngineInv'
        BY <2>2, DropBatchStep DEF EngineInv, OutboundTypeOK
      <4> QED
        BY <2>2, <4>1 DEF OutboundTypeOK, EngineTypeOK, ClosePoller
    <3> QED
      BY <3>1, ElemsEmpty
  <2> QED
    BY <2>1, <2>2
<1>2. /\ stage' = stage /\ status' = status /\ attempts' = attempts /\ wait' = wait
      /\ delay' = delay /\ accepted' = accepted /\ uncertain' = uncertain
      /\ idle' = idle /\ posted' = posted
  BY DEF rowVars, sendVars, remoteVars
<1>3. OutboundTypeOK'
  BY <1>1 DEF EngineInv, OutboundTypeOK, rowVars, sendVars, remoteVars
<1>4. RowInv' /\ DeliveryStageInv'
  BY <1>1, <1>2 DEF RowInv, DeliveryStageInv
<1>5. CopiesInv'
  BY <1>1, <1>2 DEF CopiesInv
<1>6. RestInv'
  BY <1>1, <1>2 DEF RestInv, Rested
<1> QED
  BY <1>1, <1>3, <1>4, <1>5, <1>6 DEF EngineInv

------------------------------------------------------------------------------
(* Steps of the workers. *)

(* A task taken from the channel brings its rest along. *)
LEMMA StartDeliveryStep ==
  ASSUME OutboundInv, NEW w \in Worker, StartDelivery(w)
  PROVE  OutboundInv'
<1> USE DEF OutboundInv
<1> DEFINE s == ServerOf[w]
<1>1. /\ EngineInv' /\ s \in Server
      /\ job[w] = NoTask /\ job'[w] \in Task /\ job'[w] \in Elems(channel[s])
      /\ \A v \in Worker : v # w => job'[v] = job[v]
      /\ batch' = batch /\ poller' = poller
      /\ \A t \in Server : Elems(channel'[t]) \subseteq Elems(channel[t])
  BY TakeTaskStep, EngineAssumption DEF EngineInv, OutboundTypeOK, StartDelivery
<1>2. /\ status' = status /\ attempts' = attempts /\ wait' = wait
      /\ delay' = delay /\ accepted' = accepted /\ uncertain' = uncertain
      /\ idle' = idle /\ posted' = posted
      /\ stage'[w] = "keys" /\ \A v \in Worker : v # w => stage'[v] = stage[v]
  BY DEF StartDelivery, rowVars, remoteVars, OutboundTypeOK
<1>3. OutboundTypeOK'
  BY <1>1 DEF EngineInv, OutboundTypeOK, StartDelivery, rowVars, remoteVars
<1>4. RowInv'
  BY <1>1, <1>2 DEF RowInv
<1>5. DeliveryStageInv'
  BY <1>1, <1>2, EngineAssumption DEF DeliveryStageInv
<1>6. CopiesInv'
  BY <1>1, <1>2 DEF CopiesInv
<1>7. RestInv'
  BY <1>1, <1>2 DEF RestInv, Rested
<1> QED
  BY <1>1, <1>3, <1>4, <1>5, <1>6, <1>7 DEF EngineInv

(* Steps that leave the engine, the rows and the remote server alone: the  *)
(* keys are loaded or not, and the delay is computed.                      *)
LEMMA PrepareStep ==
  ASSUME OutboundInv, NEW w \in Worker, LoadKeys(w) \/ LoadKeysFails(w) \/ ReadAttempts(w)
  PROVE  OutboundInv'
<1> USE DEF OutboundInv
<1>1. /\ engineVars' = engineVars /\ rowVars' = rowVars /\ remoteVars' = remoteVars
      /\ stage[w] # "idle"
  BY DEF LoadKeys, LoadKeysFails, ReadAttempts, engineVars, rowVars, remoteVars
<1>2. /\ engine' = engine /\ poller' = poller /\ batch' = batch /\ channel' = channel
      /\ job' = job /\ status' = status /\ attempts' = attempts /\ wait' = wait
      /\ reason' = reason /\ accepted' = accepted /\ uncertain' = uncertain
      /\ idle' = idle /\ posted' = posted /\ refusals' = refusals
  BY <1>1 DEF engineVars, rowVars, remoteVars
<1>3. /\ job[w] \in Task /\ job[w] # NoTask
  BY <1>1, OwnDelivery
<1>4. /\ stage' \in [Worker -> {"idle", "keys", "post", "complete", "fail", "schedule"}]
      /\ \A v \in Worker : v # w => stage'[v] = stage[v]
      /\ \/ stage[w] = "keys" /\ stage'[w] = "post"
         \/ stage[w] \in {"keys", "fail"} /\ stage'[w] \in {"fail", "schedule"}
  BY DEF LoadKeys, LoadKeysFails, ReadAttempts, OutboundTypeOK
<1>5. /\ delay' \in [Worker -> 0..MaxDelay]
      /\ \A v \in Worker : v # w => delay'[v] = delay[v]
      /\ stage'[w] = "schedule" => delay'[w] = Delay(attempts[job[w]])
  <2>1. Delay(attempts[job[w]]) \in 0..MaxDelay
    BY <1>3, DelayRange DEF OutboundTypeOK
  <2> QED
    BY <2>1, <1>4 DEF LoadKeys, LoadKeysFails, ReadAttempts, OutboundTypeOK
<1>6. OutboundTypeOK'
  <2>1. disruptions' \in 0..MaxDisruptions
    BY DisruptionsAssumption
       DEF LoadKeys, LoadKeysFails, ReadAttempts, StatementFails, StatementSucceeds, Disrupted,
           OutboundTypeOK
  <2>2. cause' \in [Worker -> Causes]
    BY DEF LoadKeys, LoadKeysFails, ReadAttempts, OutboundTypeOK, Causes
  <2> QED
    BY <1>2, <1>4, <1>5, <2>1, <2>2 DEF OutboundTypeOK, EngineTypeOK
<1>7. EngineShape' /\ HeldOnce' /\ RowInv'
  <2>1. EngineShape'
    BY <1>2 DEF EngineShape, WorkersOf
  <2>2. HeldOnce'
    BY <1>2 DEF HeldOnce, WorkersOf
  <2>3. RowInv'
    BY <1>2 DEF RowInv
  <2> QED
    BY <2>1, <2>2, <2>3
<1>8. DeliveryStageInv'
  BY <1>2, <1>3, <1>4, <1>5 DEF DeliveryStageInv
<1>9. CopiesInv'
  BY <1>2, <1>4 DEF CopiesInv
<1>10. RestInv'
  BY <1>2, <1>4 DEF RestInv, Rested
<1> QED
  BY <1>6, <1>7, <1>8, <1>9, <1>10

(* A POST touches the history of the worker's own row, which nobody else   *)
(* holds and which is neither pending nor failed.                          *)
LEMMA PostStep ==
  ASSUME OutboundInv, NEW w \in Worker,
         \/ PostAccepted(w)
         \/ \E c \in {"transient", "permanent"}, taken \in BOOLEAN : PostRefused(w, c, taken)
  PROVE  OutboundInv'
<1> USE DEF OutboundInv
<1> DEFINE a == job[w]
<1>1. /\ engineVars' = engineVars /\ rowVars' = rowVars /\ delay' = delay
      /\ disruptions' = disruptions /\ stage[w] = "post"
      /\ posted' = posted \cup {a} /\ idle' = [idle EXCEPT ![a] = 0]
  BY DEF PostAccepted, PostRefused, Post, engineVars, rowVars
<1>2. /\ engine' = engine /\ poller' = poller /\ batch' = batch /\ channel' = channel
      /\ job' = job /\ status' = status /\ attempts' = attempts /\ wait' = wait
      /\ reason' = reason
  BY <1>1 DEF engineVars, rowVars
<1>3. /\ a \in Task /\ a # NoTask /\ status[a] = "processing"
      /\ \A v \in Worker : v # w => job[v] # a
      /\ \A t \in Server : a \notin Elems(batch[t]) \cup Elems(channel[t])
  BY <1>1, OwnDelivery
<1>4. /\ stage' \in [Worker -> {"idle", "keys", "post", "complete", "fail", "schedule"}]
      /\ \A v \in Worker : v # w => stage'[v] = stage[v]
      /\ stage'[w] \in {"complete", "fail"}
      /\ cause' \in [Worker -> Causes]
  BY DEF PostAccepted, PostRefused, OutboundTypeOK, Causes
<1>5. /\ accepted' \in [Task -> Nat] /\ uncertain' \in [Task -> Nat]
      /\ \A b \in Task : b # a => accepted'[b] = accepted[b] /\ uncertain'[b] = uncertain[b]
      /\ stage'[w] = "complete" => accepted'[a] = uncertain'[a] + 1
      /\ stage'[w] = "fail" => accepted'[a] = uncertain'[a]
  <2>1. /\ accepted \in [Task -> Nat] /\ uncertain \in [Task -> Nat]
        /\ accepted[a] = uncertain[a]
    BY <1>1, <1>3 DEF OutboundTypeOK, CopiesInv
  <2>2. CASE PostAccepted(w)
    <3>1. /\ accepted' = [accepted EXCEPT ![a] = accepted[a] + 1] /\ uncertain' = uncertain
          /\ stage'[w] = "complete"
      BY <2>2 DEF PostAccepted, OutboundTypeOK
    <3> QED
      BY <1>3, <2>1, <3>1
  <2>3. ASSUME NEW c \in {"transient", "permanent"}, NEW taken \in BOOLEAN, PostRefused(w, c, taken)
        PROVE  /\ accepted' \in [Task -> Nat] /\ uncertain' \in [Task -> Nat]
               /\ \A b \in Task : b # a => accepted'[b] = accepted[b] /\ uncertain'[b] = uncertain[b]
               /\ accepted'[a] = uncertain'[a] /\ stage'[w] = "fail"
    <3>1. stage'[w] = "fail"
      BY <2>3 DEF PostRefused, OutboundTypeOK
    <3>2. CASE taken
      <4>1. /\ accepted' = [accepted EXCEPT ![a] = accepted[a] + 1]
            /\ uncertain' = [uncertain EXCEPT ![a] = uncertain[a] + 1]
        BY <2>3, <3>2 DEF PostRefused
      <4> QED
        BY <1>3, <2>1, <3>1, <4>1
    <3>3. CASE ~taken
      <4>1. /\ accepted' = [accepted EXCEPT ![a] = accepted[a]]
            /\ uncertain' = [uncertain EXCEPT ![a] = uncertain[a]]
        BY <2>3, <3>3 DEF PostRefused
      <4> QED
        BY <1>3, <2>1, <3>1, <4>1
    <3> QED
      BY <3>2, <3>3
  <2> QED
    BY <2>2, <2>3
<1>6. OutboundTypeOK'
  <2>1. refusals' \in 0..MaxRefusals
    BY OutboundAssumption DEF PostAccepted, PostRefused, OutboundTypeOK
  <2>2. idle' \in [Task -> 0..MaxDelay] /\ posted' \in SUBSET Task
    BY <1>1, <1>3, OutboundAssumption DEF OutboundTypeOK
  <2> QED
    BY <1>1, <1>2, <1>4, <1>5, <2>1, <2>2 DEF OutboundTypeOK, EngineTypeOK
<1>7. EngineShape' /\ HeldOnce' /\ RowInv'
  BY <1>2 DEF EngineShape, HeldOnce, RowInv, WorkersOf
<1>8. DeliveryStageInv'
  BY <1>1, <1>2, <1>3, <1>4 DEF DeliveryStageInv
<1>9. /\ \A t \in Server : Elems(batch[t]) \cup Elems(channel[t]) \subseteq Task \ {a}
      /\ \A v \in Worker : v # w /\ job[v] # NoTask => job[v] \in Task \ {a}
  BY <1>3, HandsAreRows
<1>10. CopiesInv'
  <2>1. ASSUME NEW b \in Task
        PROVE  /\ accepted'[b] \in {uncertain'[b], uncertain'[b] + 1}
               /\ status'[b] \in {"pending", "failed"} => accepted'[b] = uncertain'[b]
               /\ status'[b] = "completed" => accepted'[b] = uncertain'[b] + 1
    BY <1>2, <1>3, <1>4, <1>5 DEF CopiesInv
  <2>2. ASSUME NEW t \in Server, NEW b \in Elems(batch'[t]) \cup Elems(channel'[t])
        PROVE  accepted'[b] = uncertain'[b]
    BY <1>2, <1>5, <1>9 DEF CopiesInv
  <2>3. ASSUME NEW v \in Worker, job'[v] # NoTask
        PROVE  accepted'[job'[v]] =
                 IF stage'[v] = "complete" THEN uncertain'[job'[v]] + 1 ELSE uncertain'[job'[v]]
    BY <1>2, <1>4, <1>5, <1>9, <2>3 DEF CopiesInv
  <2> QED
    BY <2>1, <2>2, <2>3 DEF CopiesInv
<1>11. \A b \in Task : b # a => idle'[b] = idle[b] /\ (b \in posted' <=> b \in posted)
  BY <1>1 DEF OutboundTypeOK
<1>12. RestInv'
  <2>1. ASSUME NEW b \in Task
        PROVE  /\ status'[b] = "pending" => b \notin posted'
               /\ status'[b] = "processing" => attempts'[b] >= 1
               /\ status'[b] = "failed" /\ b \in posted' => wait'[b] + idle'[b] >= Delay(attempts'[b])
    BY <1>2, <1>3, <1>11 DEF RestInv
  <2>2. ASSUME NEW t \in Server
        PROVE  /\ poller'[t] = "claiming" => \A b \in Elems(batch'[t]) : Rested(b, attempts[b])'
               /\ poller'[t] = "sending" => \A b \in Elems(batch'[t]) : Rested(b, attempts[b] - 1)'
               /\ \A b \in Elems(channel'[t]) : Rested(b, attempts[b] - 1)'
    BY <1>2, <1>9, <1>11 DEF RestInv, Rested
  <2>3. ASSUME NEW v \in Worker, stage'[v] \in {"keys", "post"}
        PROVE  Rested(job[v], attempts[job[v]] - 1)'
    <3>1. v # w /\ stage[v] = stage'[v]
      BY <1>4, <2>3
    <3>2. job[v] \in Task \ {a}
      BY <1>9, <2>3, <3>1, OwnDelivery
    <3> QED
      BY <1>2, <1>11, <2>3, <3>1, <3>2 DEF RestInv, Rested
  <2> QED
    BY <2>1, <2>2, <2>3 DEF RestInv
<1> QED
  BY <1>6, <1>7, <1>8, <1>10, <1>12

(* The marks write the worker's own row and free the worker; a failed row  *)
(* is scheduled when its backoff will have passed.                         *)
LEMMA OutboundMarkStep ==
  ASSUME OutboundInv, NEW w \in Worker,
         MarkOutboundComplete(w) \/ MarkOutboundFailed(w) \/ OutboundMarkError(w)
  PROVE  OutboundInv'
<1> USE DEF OutboundInv
<1> DEFINE a == job[w]
<1>1. /\ stage[w] \in {"complete", "fail", "schedule"} /\ FinishTask(w)
      /\ stage' = [stage EXCEPT ![w] = "idle"]
      /\ attempts' = attempts /\ cause' = cause /\ delay' = delay
      /\ accepted' = accepted /\ uncertain' = uncertain /\ idle' = idle
      /\ posted' = posted /\ refusals' = refusals
  BY DEF MarkOutboundComplete, MarkOutboundFailed, OutboundMarkError, rowVars, remoteVars
<1>2. /\ a \in Task /\ a # NoTask /\ status[a] = "processing"
      /\ \A v \in Worker : v # w => job[v] # a
      /\ \A t \in Server : a \notin Elems(batch[t]) \cup Elems(channel[t])
  BY <1>1, OwnDelivery
<1>3. /\ batch' = batch /\ channel' = channel /\ poller' = poller
      /\ job'[w] = NoTask /\ \A v \in Worker : v # w => job'[v] = job[v]
      /\ stage'[w] = "idle" /\ \A v \in Worker : v # w => stage'[v] = stage[v]
      /\ stage' \in [Worker -> {"idle", "keys", "post", "complete", "fail", "schedule"}]
  BY <1>1 DEF FinishTask, OutboundTypeOK, EngineTypeOK
<1>4. EngineInv'
  BY <1>1, FinishTaskStep DEF EngineInv, OutboundTypeOK
<1>5. /\ status' \in [Task -> {"pending", "processing", "completed", "failed"}]
      /\ wait' \in [Task -> 0..MaxDelay]
      /\ \A b \in Task : b # a => status'[b] = status[b] /\ wait'[b] = wait[b]
      /\ \/ stage[w] = "complete" /\ status'[a] = "completed"
         \/ stage[w] = "schedule" /\ status'[a] = "failed" /\ wait'[a] = delay[w]
         \/ status'[a] = "processing"
  <2>1. delay[w] \in 0..MaxDelay
    BY DEF OutboundTypeOK
  <2> QED
    BY <1>2, <2>1 DEF MarkOutboundComplete, MarkOutboundFailed, OutboundMarkError, rowVars,
       OutboundTypeOK
<1>6. OutboundTypeOK'
  <2>1. disruptions' \in 0..MaxDisruptions
    BY DisruptionsAssumption DEF MarkOutboundComplete, MarkOutboundFailed, OutboundMarkError,
       StatementFails, StatementSucceeds, Disrupted, OutboundTypeOK
  <2>2. reason' \in [Task -> Causes]
    <3>1. cause[w] \in Causes
      BY DEF OutboundTypeOK
    <3> QED
      BY <1>2, <3>1 DEF MarkOutboundComplete, MarkOutboundFailed, OutboundMarkError, rowVars,
         OutboundTypeOK
  <2> QED
    BY <1>1, <1>3, <1>4, <1>5, <2>1, <2>2 DEF EngineInv, OutboundTypeOK
<1>7. /\ \A t \in Server : Elems(batch[t]) \cup Elems(channel[t]) \subseteq Task \ {a}
      /\ \A v \in Worker : v # w /\ job[v] # NoTask => job[v] \in Task \ {a}
  BY <1>2, HandsAreRows
<1>8. RowInv'
  BY <1>3, <1>5, <1>7 DEF RowInv
<1>9. DeliveryStageInv'
  BY <1>1, <1>3 DEF DeliveryStageInv
<1>10. CopiesInv'
  <2>1. accepted[a] = IF stage[w] = "complete" THEN uncertain[a] + 1 ELSE uncertain[a]
    BY <1>2 DEF CopiesInv
  <2> QED
    BY <1>1, <1>3, <1>5, <2>1 DEF CopiesInv
<1>11. RestInv'
  <2>1. stage[w] = "schedule" => delay[w] = Delay(attempts[a])
    BY DEF DeliveryStageInv
  <2>2. idle[a] \in Nat /\ delay[w] \in Nat
    BY <1>2, OutboundAssumption DEF OutboundTypeOK
  <2>3. ASSUME NEW b \in Task
        PROVE  /\ status'[b] = "pending" => b \notin posted'
               /\ status'[b] = "processing" => attempts'[b] >= 1
               /\ status'[b] = "failed" /\ b \in posted' => wait'[b] + idle'[b] >= Delay(attempts'[b])
    BY <1>1, <1>2, <1>5, <2>1, <2>2 DEF RestInv
  <2>4. ASSUME NEW t \in Server
        PROVE  /\ poller'[t] = "claiming" => \A b \in Elems(batch'[t]) : Rested(b, attempts[b])'
               /\ poller'[t] = "sending" => \A b \in Elems(batch'[t]) : Rested(b, attempts[b] - 1)'
               /\ \A b \in Elems(channel'[t]) : Rested(b, attempts[b] - 1)'
    BY <1>1, <1>3 DEF RestInv, Rested
  <2>5. ASSUME NEW v \in Worker, stage'[v] \in {"keys", "post"}
        PROVE  Rested(job[v], attempts[job[v]] - 1)'
    BY <1>1, <1>3, <2>5 DEF RestInv, Rested
  <2> QED
    BY <2>3, <2>4, <2>5 DEF RestInv
<1> QED
  BY <1>4, <1>6, <1>8, <1>9, <1>10, <1>11 DEF EngineInv

------------------------------------------------------------------------------
(* Steps of the process. *)

(* Shutdown and restart touch no row; an exit forgets what the server held. *)
LEMMA OutboundProcessStep ==
  ASSUME OutboundInv, NEW s \in Server, OutboundShutdown(s) \/ OutboundExit(s) \/ OutboundRestart(s)
  PROVE  OutboundInv'
<1> USE DEF OutboundInv
<1>1. /\ rowVars' = rowVars /\ cause' = cause /\ delay' = delay /\ remoteVars' = remoteVars
      /\ status' = status /\ attempts' = attempts /\ wait' = wait /\ accepted' = accepted
      /\ uncertain' = uncertain /\ idle' = idle /\ posted' = posted
  BY DEF OutboundShutdown, OutboundExit, OutboundRestart, rowVars, sendVars, remoteVars
<1>2. disruptions' \in 0..MaxDisruptions
  BY DisruptionsAssumption
     DEF OutboundShutdown, OutboundExit, OutboundRestart, Disrupted, OutboundTypeOK
<1>3. CASE OutboundShutdown(s) \/ OutboundRestart(s)
  <2>1. EngineInv'
    BY <1>3, ContextStep DEF OutboundShutdown, OutboundRestart, EngineInv, OutboundTypeOK
  <2>2. batch' = batch /\ channel' = channel /\ job' = job /\ stage' = stage
    BY <1>3 DEF OutboundShutdown, OutboundRestart, Cancel, Boot, sendVars
  <2>3. \A t \in Server : poller'[t] \in {poller[t], "waiting"}
    BY <1>3 DEF OutboundShutdown, OutboundRestart, Cancel, Boot, OutboundTypeOK, EngineTypeOK
  <2>4. OutboundTypeOK'
    BY <1>1, <1>2, <2>1, <2>2 DEF EngineInv, OutboundTypeOK, rowVars, remoteVars
  <2>5. RowInv' /\ DeliveryStageInv' /\ CopiesInv'
    BY <1>1, <2>2, <2>3 DEF RowInv, DeliveryStageInv, CopiesInv
  <2>6. RestInv'
    BY <1>1, <2>2, <2>3 DEF RestInv, Rested
  <2> QED
    BY <2>1, <2>4, <2>5, <2>6 DEF EngineInv
<1>4. CASE OutboundExit(s)
  <2>1. /\ EngineInv'
        /\ batch'[s] = <<>> /\ channel'[s] = <<>> /\ poller'[s] = "closed"
        /\ \A t \in Server : t # s =>
             batch'[t] = batch[t] /\ channel'[t] = channel[t] /\ poller'[t] = poller[t]
        /\ \A w \in Worker : job'[w] = IF ServerOf[w] = s THEN NoTask ELSE job[w]
    BY <1>4, KillStep DEF OutboundExit, EngineInv, OutboundTypeOK
  <2>2. stage' = [w \in Worker |-> IF ServerOf[w] = s THEN "idle" ELSE stage[w]]
    BY <1>4 DEF OutboundExit
  <2>3. OutboundTypeOK'
    BY <1>1, <1>2, <2>1, <2>2 DEF EngineInv, OutboundTypeOK, rowVars, remoteVars
  <2>4. RowInv'
    BY <1>1, <2>1, ElemsEmpty DEF RowInv
  <2>5. DeliveryStageInv'
    BY <1>1, <2>1, <2>2 DEF DeliveryStageInv
  <2>6. CopiesInv'
    BY <1>1, <2>1, <2>2, ElemsEmpty DEF CopiesInv
  <2>7. RestInv'
    BY <1>1, <2>1, <2>2, ElemsEmpty DEF RestInv, Rested
  <2> QED
    BY <2>1, <2>3, <2>4, <2>5, <2>6, <2>7 DEF EngineInv
<1> QED
  BY <1>3, <1>4

------------------------------------------------------------------------------
(* The theorems of the outbound queue. *)

(* OutboundInv is inductive. *)
LEMMA NextOutbound == OutboundInv /\ [OutboundNext]_outboundVars => OutboundInv'
<1> SUFFICES ASSUME OutboundInv, [OutboundNext]_outboundVars PROVE OutboundInv'
  OBVIOUS
<1>1. CASE Tick
  BY <1>1, TickStep
<1>2. ASSUME NEW s \in Server, OutboundPollerStep(s) PROVE OutboundInv'
  BY <1>2, OutboundClaimStep, OutboundCommitStep, OutboundAbortStep, OutboundPushStep
     DEF OutboundPollerStep
<1>3. ASSUME NEW s \in Server, OutboundShutdown(s) \/ OutboundExit(s) \/ OutboundRestart(s)
      PROVE  OutboundInv'
  BY <1>3, OutboundProcessStep
<1>4. ASSUME NEW w \in Worker, OutboundWorkerStep(w) PROVE OutboundInv'
  BY <1>4, StartDeliveryStep, PrepareStep, PostStep, OutboundMarkStep DEF OutboundWorkerStep
<1>5. CASE UNCHANGED outboundVars
  <2>1. /\ engineVars' = engineVars /\ rowVars' = rowVars /\ sendVars' = sendVars
        /\ remoteVars' = remoteVars /\ disruptions' = disruptions
    BY <1>5 DEF outboundVars
  <2>2. /\ OutboundTypeOK' /\ EngineShape' /\ HeldOnce' /\ RowInv'
    BY <2>1 DEF engineVars, rowVars, sendVars, remoteVars, OutboundInv, OutboundTypeOK, EngineTypeOK,
       EngineShape, HeldOnce, RowInv, WorkersOf
  <2>3. DeliveryStageInv' /\ CopiesInv' /\ RestInv'
    BY <2>1 DEF engineVars, rowVars, sendVars, remoteVars, OutboundInv, DeliveryStageInv, CopiesInv,
       RestInv, Rested
  <2> QED
    BY <2>2, <2>3 DEF OutboundInv
<1> QED
  BY <1>1, <1>2, <1>3, <1>4, <1>5 DEF OutboundNext

LEMMA OutboundInvariant == OutboundSpec => []OutboundInv
<1>1. OutboundInit => OutboundInv
  BY InitOutbound
<1>2. OutboundInv /\ [OutboundNext]_outboundVars => OutboundInv'
  BY NextOutbound
<1> QED
  BY <1>1, <1>2, PTL DEF OutboundSpec

(* Every variable of the outbound queue keeps its type.                    *)
THEOREM OutboundTypeCorrect == OutboundSpec => []OutboundTypeOK
<1>1. OutboundInv => OutboundTypeOK
  BY DEF OutboundInv
<1> QED
  BY <1>1, OutboundInvariant, PTL

(* Claims of outbound rows are disjoint, and the table agrees with who     *)
(* holds a row.                                                            *)
THEOREM OutboundDisjointClaims == OutboundSpec => [](HeldOnce /\ HeldIsProcessing)
<1>1. OutboundInv => HeldOnce /\ HeldIsProcessing
  BY RowsOfHeld DEF OutboundInv, OutboundTypeOK
<1> QED
  BY <1>1, OutboundInvariant, PTL

(* A completed row was delivered, whatever crashes, is cancelled or fails  *)
(* between its POST and its mark.                                          *)
THEOREM CompletedWasAlwaysDelivered == OutboundSpec => []CompletedWasDelivered
<1>1. OutboundInv => CompletedWasDelivered
  <2> SUFFICES ASSUME OutboundInv, NEW a \in Task, status[a] = "completed"
               PROVE  accepted[a] > 0
    BY DEF CompletedWasDelivered
  <2>1. uncertain[a] \in Nat /\ accepted[a] = uncertain[a] + 1
    BY DEF OutboundInv, OutboundTypeOK, CopiesInv
  <2> QED
    BY <2>1
<1> QED
  BY <1>1, OutboundInvariant, PTL

(* A second copy is sent only after an uncertain answer: no crash,         *)
(* cancellation or lost mark alone makes the remote server accept an       *)
(* activity again.                                                         *)
THEOREM DeliveredOnceUnlessUncertain == OutboundSpec => []DuplicatesOnlyWhenUncertain
<1>1. OutboundInv => DuplicatesOnlyWhenUncertain
  <2> SUFFICES ASSUME OutboundInv, NEW a \in Task
               PROVE  accepted[a] <= 1 + uncertain[a]
    BY DEF DuplicatesOnlyWhenUncertain
  <2>1. uncertain[a] \in Nat /\ accepted[a] \in {uncertain[a], uncertain[a] + 1}
    BY DEF OutboundInv, OutboundTypeOK, CopiesInv
  <2> QED
    BY <2>1
<1> QED
  BY <1>1, OutboundInvariant, PTL

(* What a step does to a completed row: nothing.                           *)
LEMMA DeliveredStays ==
  ASSUME OutboundInv, [OutboundNext]_outboundVars, NEW a \in Task, status[a] = "completed"
  PROVE  status'[a] = "completed" /\ accepted'[a] = accepted[a]
<1>0. status \in [Task -> {"pending", "processing", "completed", "failed"}] /\ accepted \in [Task -> Nat]
  BY DEF OutboundInv, OutboundTypeOK
<1>1. CASE Tick
  BY <1>1 DEF Tick
<1>2. ASSUME NEW s \in Server, OutboundPollerStep(s)
      PROVE  status'[a] = "completed" /\ accepted'[a] = accepted[a]
  <2>1. poller[s] = "claiming" => a \notin Elems(batch[s])
    BY DEF OutboundInv, RowInv
  <2>2. CASE OutboundClaimCommits(s) \/ OutboundClaimAborts(s)
    BY <2>1, <2>2 DEF OutboundClaimCommits, OutboundClaimAborts, ClaimReturns, ClaimErrors,
       MarkOutboundProcessing, remoteVars
  <2>3. CASE ~(OutboundClaimCommits(s) \/ OutboundClaimAborts(s))
    BY <1>2, <2>3 DEF OutboundPollerStep, ClaimOutboundTasks, rowVars, remoteVars
  <2> QED
    BY <2>2, <2>3
<1>3. ASSUME NEW s \in Server, OutboundShutdown(s) \/ OutboundExit(s) \/ OutboundRestart(s)
      PROVE  status'[a] = "completed" /\ accepted'[a] = accepted[a]
  BY <1>3 DEF OutboundShutdown, OutboundExit, OutboundRestart, rowVars, remoteVars
<1>4. ASSUME NEW w \in Worker, OutboundWorkerStep(w)
      PROVE  status'[a] = "completed" /\ accepted'[a] = accepted[a]
  <2>1. stage[w] # "idle" => job[w] # a
    BY OwnDelivery
  <2>2. CASE MarkOutboundComplete(w) \/ MarkOutboundFailed(w)
    BY <1>0, <2>1, <2>2 DEF MarkOutboundComplete, MarkOutboundFailed, remoteVars
  <2>3. CASE PostAccepted(w) \/ \E c \in {"transient", "permanent"}, taken \in BOOLEAN : PostRefused(w, c, taken)
    <3>1. status' = status /\ stage[w] = "post"
      BY <2>3 DEF PostAccepted, PostRefused, Post, rowVars
    <3>2. accepted'[a] = accepted[a]
      BY <1>0, <2>1, <2>3, <3>1 DEF PostAccepted, PostRefused
    <3> QED
      BY <3>1, <3>2
  <2>4. CASE StartDelivery(w) \/ LoadKeys(w) \/ LoadKeysFails(w) \/ ReadAttempts(w) \/ OutboundMarkError(w)
    BY <2>4 DEF StartDelivery, LoadKeys, LoadKeysFails, ReadAttempts, OutboundMarkError, rowVars, remoteVars
  <2> QED
    BY <1>4, <2>2, <2>3, <2>4 DEF OutboundWorkerStep
<1>5. CASE UNCHANGED outboundVars
  BY <1>5 DEF outboundVars, rowVars, remoteVars
<1> QED
  BY <1>1, <1>2, <1>3, <1>4, <1>5 DEF OutboundNext

(* No late mark or second holder reopens a completed row or sends its      *)
(* activity again.                                                         *)
THEOREM DeliveredStaysFinal == OutboundSpec => DeliveredIsFinal
<1>1. OutboundInv /\ [OutboundNext]_outboundVars =>
        [\A a \in Task : status[a] = "completed" =>
           status'[a] = "completed" /\ accepted'[a] = accepted[a]]_outboundVars
  BY DeliveredStays
<1> QED
  BY <1>1, OutboundInvariant, PTL DEF OutboundSpec, DeliveredIsFinal

(* Whoever POSTs an activity again, the backoff of the attempt before has  *)
(* passed since the last POST.                                             *)
THEOREM BackoffAlwaysKept == OutboundSpec => BackoffIsKept
<1>1. OutboundInv /\ [OutboundNext]_outboundVars =>
        [\A w \in Worker :
           (stage[w] = "post" /\ stage'[w] \in {"complete", "fail"} /\ job[w] \in posted)
             => idle[job[w]] >= Delay(attempts[job[w]] - 1)]_outboundVars
  BY DEF OutboundInv, RestInv, Rested
<1> QED
  BY <1>1, OutboundInvariant, PTL DEF OutboundSpec, BackoffIsKept
------------------------------------------------------------------------------
(* The delay arithmetic of Backoff: doubling a number of seconds shifts    *)
(* its word by one bit, and where the shifted base delay leaves the range  *)
(* up to two hours, one of its high bits decides the cut.                  *)

IsLimb(x) == x \in Nat /\ x < 65536
IsCarry(c) == c \in Nat /\ c < 2
Power(j) == 2 ^ j
BitAt(x, p) == (x \div p) % 2

(* A limb doubled with the carry of the limb below, and its own carry.     *)
Twice(x, c) == (2 * x + c) % 65536
Over(x, c) == (2 * x + c) \div 65536

(* The limb of a bit, and its place there. *)
LimbOf(i) == i \div 16 + 1
PlaceOf(i) == i % 16
BelowTop == 0..14

(* The bits of a doubled limb are those of the limb, one place up. *)
LEMMA TwiceBits ==
  ASSUME NEW x, NEW c, IsLimb(x), IsCarry(c)
  PROVE  /\ BitAt(Twice(x, c), Power(0)) = c
         /\ Over(x, c) = BitAt(x, Power(15))
         /\ \A j \in BelowTop : BitAt(Twice(x, c), Power(j + 1)) = BitAt(x, Power(j))
<1>1. PICK a \in Nat, b \in Nat : a = x /\ b = c /\ a < 65536 /\ b < 2
  BY DEF IsLimb, IsCarry
<1>2. /\ 2 ^ 0 = 1 /\ 2 ^ 1 = 2 /\ 2 ^ 2 = 4 /\ 2 ^ 3 = 8 /\ 2 ^ 4 = 16 /\ 2 ^ 5 = 32
      /\ 2 ^ 6 = 64 /\ 2 ^ 7 = 128 /\ 2 ^ 8 = 256 /\ 2 ^ 9 = 512 /\ 2 ^ 10 = 1024
      /\ 2 ^ 11 = 2048 /\ 2 ^ 12 = 4096 /\ 2 ^ 13 = 8192 /\ 2 ^ 14 = 16384 /\ 2 ^ 15 = 32768
  OBVIOUS
<1>3. (((2 * a + b) % 65536) \div 1) % 2 = b /\ (2 * a + b) \div 65536 = (a \div 32768) % 2
  BY <1>1
<1>4. BitAt(Twice(x, c), Power(0)) = c /\ Over(x, c) = BitAt(x, Power(15))
  BY <1>1, <1>2, <1>3 DEF BitAt, Twice, Over, Power
<1>5. ASSUME NEW j \in BelowTop PROVE BitAt(Twice(x, c), Power(j + 1)) = BitAt(x, Power(j))
  <2>0. CASE j = 0
    <3>1. (((2 * a + b) % 65536) \div 2) % 2 = (a \div 1) % 2
      BY <1>1
    <3> QED
      BY <1>1, <1>2, <2>0, <3>1 DEF BitAt, Twice, Power
  <2>1. CASE j = 1
    <3>1. (((2 * a + b) % 65536) \div 4) % 2 = (a \div 2) % 2
      BY <1>1
    <3> QED
      BY <1>1, <1>2, <2>1, <3>1 DEF BitAt, Twice, Power
  <2>2. CASE j = 2
    <3>1. (((2 * a + b) % 65536) \div 8) % 2 = (a \div 4) % 2
      BY <1>1
    <3> QED
      BY <1>1, <1>2, <2>2, <3>1 DEF BitAt, Twice, Power
  <2>3. CASE j = 3
    <3>1. (((2 * a + b) % 65536) \div 16) % 2 = (a \div 8) % 2
      BY <1>1
    <3> QED
      BY <1>1, <1>2, <2>3, <3>1 DEF BitAt, Twice, Power
  <2>4. CASE j = 4
    <3>1. (((2 * a + b) % 65536) \div 32) % 2 = (a \div 16) % 2
      BY <1>1
    <3> QED
      BY <1>1, <1>2, <2>4, <3>1 DEF BitAt, Twice, Power
  <2>5. CASE j = 5
    <3>1. (((2 * a + b) % 65536) \div 64) % 2 = (a \div 32) % 2
      BY <1>1
    <3> QED
      BY <1>1, <1>2, <2>5, <3>1 DEF BitAt, Twice, Power
  <2>6. CASE j = 6
    <3>1. (((2 * a + b) % 65536) \div 128) % 2 = (a \div 64) % 2
      BY <1>1
    <3> QED
      BY <1>1, <1>2, <2>6, <3>1 DEF BitAt, Twice, Power
  <2>7. CASE j = 7
    <3>1. (((2 * a + b) % 65536) \div 256) % 2 = (a \div 128) % 2
      BY <1>1
    <3> QED
      BY <1>1, <1>2, <2>7, <3>1 DEF BitAt, Twice, Power
  <2>8. CASE j = 8
    <3>1. (((2 * a + b) % 65536) \div 512) % 2 = (a \div 256) % 2
      BY <1>1
    <3> QED
      BY <1>1, <1>2, <2>8, <3>1 DEF BitAt, Twice, Power
  <2>9. CASE j = 9
    <3>1. (((2 * a + b) % 65536) \div 1024) % 2 = (a \div 512) % 2
      BY <1>1
    <3> QED
      BY <1>1, <1>2, <2>9, <3>1 DEF BitAt, Twice, Power
  <2>10. CASE j = 10
    <3>1. (((2 * a + b) % 65536) \div 2048) % 2 = (a \div 1024) % 2
      BY <1>1
    <3> QED
      BY <1>1, <1>2, <2>10, <3>1 DEF BitAt, Twice, Power
  <2>11. CASE j = 11
    <3>1. (((2 * a + b) % 65536) \div 4096) % 2 = (a \div 2048) % 2
      BY <1>1
    <3> QED
      BY <1>1, <1>2, <2>11, <3>1 DEF BitAt, Twice, Power
  <2>12. CASE j = 12
    <3>1. (((2 * a + b) % 65536) \div 8192) % 2 = (a \div 4096) % 2
      BY <1>1
    <3> QED
      BY <1>1, <1>2, <2>12, <3>1 DEF BitAt, Twice, Power
  <2>13. CASE j = 13
    <3>1. (((2 * a + b) % 65536) \div 16384) % 2 = (a \div 8192) % 2
      BY <1>1
    <3> QED
      BY <1>1, <1>2, <2>13, <3>1 DEF BitAt, Twice, Power
  <2>14. CASE j = 14
    <3>1. (((2 * a + b) % 65536) \div 32768) % 2 = (a \div 16384) % 2
      BY <1>1
    <3> QED
      BY <1>1, <1>2, <2>14, <3>1 DEF BitAt, Twice, Power
  <2> QED
    BY <2>0, <2>1, <2>2, <2>3, <2>4, <2>5, <2>6, <2>7, <2>8, <2>9, <2>10,
       <2>11, <2>12, <2>13, <2>14 DEF BelowTop
<1> QED
  BY <1>4, <1>5

(* Where a word has its bits. *)
LEMMA WordBits ==
  ASSUME NEW limbs, NEW i \in Bit
  PROVE  Word(limbs)[i] = BitAt(limbs[LimbOf(i)], Power(PlaceOf(i)))
BY DEF Word, BitAt, LimbOf, PlaceOf, Power

(* The next bit is the next place of the limb, or the first of the next. *)
LEMMA NextPlace ==
  ASSUME NEW i \in 0..62
  PROVE  /\ i \in Bit /\ i + 1 \in Bit /\ LimbOf(i) \in 1..4 /\ LimbOf(i + 1) \in 1..4
         /\ \/ /\ PlaceOf(i) \in BelowTop
               /\ LimbOf(i + 1) = LimbOf(i) /\ PlaceOf(i + 1) = PlaceOf(i) + 1
            \/ /\ PlaceOf(i) = 15
               /\ LimbOf(i) \in 1..3 /\ LimbOf(i + 1) = LimbOf(i) + 1 /\ PlaceOf(i + 1) = 0
<1>1. i \in Bit /\ i + 1 \in Bit
  BY DEF Bit
<1>2. i \div 16 + 1 \in 1..4 /\ (i + 1) \div 16 + 1 \in 1..4 /\ i % 16 \in 0..15
  OBVIOUS
<1>3. CASE i % 16 = 15
  <2>1. (i + 1) % 16 = 0 /\ (i + 1) \div 16 = i \div 16 + 1 /\ i \div 16 + 1 \in 1..3
    BY <1>3
  <2> QED
    BY <1>1, <1>2, <1>3, <2>1 DEF LimbOf, PlaceOf
<1>4. CASE i % 16 # 15
  <2>1. (i + 1) % 16 = (i % 16) + 1 /\ (i + 1) \div 16 = i \div 16 /\ i % 16 \in 0..14
    BY <1>4
  <2> QED
    BY <1>1, <1>2, <2>1 DEF LimbOf, PlaceOf, BelowTop
<1> QED
  BY <1>3, <1>4

(* The limbs of k seconds, and the carries into them when they double. *)
LowPart(k) == k * 51712
HighPart(k) == k * 15258 + (LowPart(k) \div 65536)
Limbs(k) == <<LowPart(k) % 65536, HighPart(k) % 65536, HighPart(k) \div 65536, 0>>
CarryOut(k) == (2 * (LowPart(k) % 65536)) \div 65536
Carries(k) ==
  <<0, CarryOut(k), (2 * (HighPart(k) % 65536) + CarryOut(k)) \div 65536, 0>>
Small(k) == k \in Nat /\ k <= 4096

(* Seconds are the word of their limbs. *)
LEMMA SecondsAreLimbs ==
  ASSUME NEW k \in Nat
  PROVE  Seconds(k) = Word(Limbs(k))
<1>1. 2 ^ 16 = 65536
  OBVIOUS
<1> QED
  BY <1>1 DEF Seconds, Limbs, LowPart, HighPart

(* Doubling the seconds doubles each limb with its carry. *)
LEMMA LimbDoubles ==
  ASSUME NEW k, Small(k), NEW kk, kk = 2 * k, NEW q \in 1..4
  PROVE  /\ IsLimb(Limbs(k)[q]) /\ IsCarry(Carries(k)[q])
         /\ Limbs(kk)[q] = Twice(Limbs(k)[q], Carries(k)[q])
         /\ q \in 1..3 => Carries(k)[q + 1] = Over(Limbs(k)[q], Carries(k)[q])
         /\ Carries(k)[1] = 0
<1>0. k \in Nat /\ k <= 4096 /\ kk \in Nat /\ kk = 2 * k
  BY DEF Small
<1>1. PICK low \in Nat : low = k * 51712 /\ low = LowPart(k)
  BY <1>0 DEF LowPart
<1>2. PICK high \in Nat : high = k * 15258 + (low \div 65536) /\ high = HighPart(k)
  BY <1>0, <1>1 DEF HighPart
<1>3. PICK a \in Nat, b \in Nat, d \in Nat :
        a = low % 65536 /\ b = high % 65536 /\ d = high \div 65536
  OBVIOUS
<1>4. PICK e \in Nat : e = (2 * a) \div 65536
  OBVIOUS
<1>5. PICK f \in Nat : f = (2 * b + e) \div 65536
  OBVIOUS
<1>6. Limbs(k) = <<a, b, d, 0>> /\ Carries(k) = <<0, e, f, 0>>
  BY <1>1, <1>2, <1>3, <1>4, <1>5 DEF Limbs, Carries, CarryOut
<1>7. high < 65000000
  BY <1>0, <1>1, <1>2
<1>8. a < 65536 /\ b < 65536 /\ d < 32767
  BY <1>3, <1>7
<1>9. e < 2 /\ f < 2
  BY <1>4, <1>5, <1>8
<1>10. /\ kk * 51712 = 2 * low /\ (2 * low) % 65536 = (2 * a) % 65536
       /\ (2 * low) \div 65536 = 2 * (low \div 65536) + e
  <2>1. kk * 51712 = 2 * low
    BY <1>0, <1>1
  <2>2. PICK h \in Nat : h = low \div 65536 /\ low = 65536 * h + a
    BY <1>3
  <2>3. 2 * low = 65536 * (2 * h) + 2 * a
    BY <2>2
  <2>4. (2 * low) % 65536 = (2 * a) % 65536 /\ (2 * low) \div 65536 = 2 * h + e
    BY <1>4, <2>2, <2>3
  <2> QED
    BY <2>1, <2>2, <2>4
<1>11. LowPart(kk) = 2 * low /\ HighPart(kk) = 2 * high + e
  BY <1>0, <1>2, <1>10 DEF LowPart, HighPart
<1>12. (2 * high + e) % 65536 = (2 * b + e) % 65536 /\ (2 * high + e) \div 65536 = 2 * d + f
  BY <1>3, <1>5
<1>13. Limbs(kk) = <<(2 * a) % 65536, (2 * b + e) % 65536, 2 * d + f, 0>>
  BY <1>10, <1>11, <1>12 DEF Limbs
<1>14. CASE q = 1
  <2>1. Limbs(k)[q] = a /\ Carries(k)[q] = 0 /\ Carries(k)[q + 1] = e
    BY <1>6, <1>14
  <2>2. Limbs(kk)[q] = (2 * a + 0) % 65536
    BY <1>13, <1>14
  <2>3. (2 * a + 0) \div 65536 = e
    BY <1>4
  <2>4. Limbs(kk)[q] = Twice(a, 0) /\ Over(a, 0) = e
    BY <2>2, <2>3 DEF Twice, Over
  <2>5. IsLimb(a) /\ IsCarry(0) /\ Carries(k)[1] = 0
    BY <1>6, <1>8 DEF IsLimb, IsCarry
  <2> QED
    BY <2>1, <2>4, <2>5
<1>15. CASE q = 2
  <2>1. Limbs(k)[q] = b /\ Carries(k)[q] = e /\ Carries(k)[q + 1] = f
    BY <1>6, <1>15
  <2>2. Limbs(kk)[q] = (2 * b + e) % 65536
    BY <1>13, <1>15
  <2> QED
    BY <1>5, <1>6, <1>8, <1>9, <2>1, <2>2 DEF IsLimb, IsCarry, Twice, Over
<1>16. CASE q = 3
  <2>1. Limbs(k)[q] = d /\ Carries(k)[q] = f /\ Carries(k)[q + 1] = 0
    BY <1>6, <1>16
  <2>2. Limbs(kk)[q] = 2 * d + f
    BY <1>13, <1>16
  <2>3. (2 * d + f) % 65536 = 2 * d + f /\ (2 * d + f) \div 65536 = 0
    BY <1>8, <1>9
  <2>4. Limbs(kk)[q] = Twice(d, f) /\ Over(d, f) = 0
    BY <2>2, <2>3 DEF Twice, Over
  <2>5. IsLimb(d) /\ IsCarry(f) /\ Carries(k)[1] = 0
    BY <1>6, <1>8, <1>9 DEF IsLimb, IsCarry
  <2> QED
    BY <2>1, <2>4, <2>5
<1>17. CASE q = 4
  <2>1. Limbs(k)[q] = 0 /\ Carries(k)[q] = 0 /\ Limbs(kk)[q] = 0 /\ q \notin 1..3
    BY <1>6, <1>13, <1>17
  <2>2. (2 * 0 + 0) % 65536 = 0
    OBVIOUS
  <2> QED
    BY <1>6, <2>1, <2>2 DEF IsLimb, IsCarry, Twice
<1> QED
  BY <1>14, <1>15, <1>16, <1>17

(* Twice as many seconds are the word shifted by one. *)
LEMMA DoubledSeconds ==
  ASSUME NEW k, Small(k), NEW kk, kk = 2 * k
  PROVE  Seconds(kk)[0] = 0 /\ \A i \in 0..62 : Seconds(kk)[i + 1] = Seconds(k)[i]
<1>1. Seconds(k) = Word(Limbs(k)) /\ Seconds(kk) = Word(Limbs(kk))
  <2>1. k \in Nat /\ kk \in Nat
    BY DEF Small
  <2> QED
    BY <2>1, SecondsAreLimbs
<1>2. Seconds(kk)[0] = 0
  <2>1. 0 \in Bit /\ LimbOf(0) = 1 /\ PlaceOf(0) = 0 /\ 1 \in 1..4
    BY DEF Bit, LimbOf, PlaceOf
  <2>2. Seconds(kk)[0] = BitAt(Limbs(kk)[1], Power(0))
    BY <1>1, <2>1, WordBits
  <2>3. /\ Limbs(kk)[1] = Twice(Limbs(k)[1], Carries(k)[1]) /\ Carries(k)[1] = 0
        /\ IsLimb(Limbs(k)[1]) /\ IsCarry(Carries(k)[1])
    BY <2>1, LimbDoubles
  <2> QED
    BY <2>2, <2>3, TwiceBits
<1>3. ASSUME NEW i \in 0..62 PROVE Seconds(kk)[i + 1] = Seconds(k)[i]
  <2>1. PICK q, j, x, c : /\ q = LimbOf(i) /\ j = PlaceOf(i)
                          /\ x = Limbs(k)[q] /\ c = Carries(k)[q]
    OBVIOUS
  <2>2. q \in 1..4 /\ i \in Bit /\ i + 1 \in Bit
    BY <2>1, NextPlace
  <2>3. IsLimb(x) /\ IsCarry(c) /\ Limbs(kk)[q] = Twice(x, c)
    BY <2>1, <2>2, LimbDoubles
  <2>4. /\ Seconds(k)[i] = BitAt(x, Power(j))
        /\ Seconds(kk)[i + 1] = BitAt(Limbs(kk)[LimbOf(i + 1)], Power(PlaceOf(i + 1)))
    BY <1>1, <2>1, <2>2, WordBits
  <2>5. CASE j \in BelowTop /\ LimbOf(i + 1) = q /\ PlaceOf(i + 1) = j + 1
    <3>1. Seconds(kk)[i + 1] = BitAt(Twice(x, c), Power(j + 1))
      BY <2>3, <2>4, <2>5
    <3>2. BitAt(Twice(x, c), Power(j + 1)) = BitAt(x, Power(j))
      BY <2>3, <2>5, TwiceBits
    <3> QED
      BY <2>4, <3>1, <3>2
  <2>6. CASE j = 15 /\ q \in 1..3 /\ LimbOf(i + 1) = q + 1 /\ PlaceOf(i + 1) = 0
    <3>1. PICK qq, y, b : qq = q + 1 /\ y = Limbs(k)[qq] /\ b = Carries(k)[qq]
      OBVIOUS
    <3>2. qq \in 1..4 /\ LimbOf(i + 1) = qq
      BY <2>6, <3>1
    <3>3. IsLimb(y) /\ IsCarry(b) /\ Limbs(kk)[qq] = Twice(y, b)
      BY <3>1, <3>2, LimbDoubles
    <3>4. b = Over(x, c)
      BY <2>1, <2>2, <2>6, <3>1, LimbDoubles
    <3>5. Seconds(kk)[i + 1] = BitAt(Twice(y, b), Power(0))
      BY <2>4, <2>6, <3>2, <3>3
    <3>6. BitAt(Twice(y, b), Power(0)) = b
      BY <3>3, TwiceBits
    <3>7. Over(x, c) = BitAt(x, Power(15))
      BY <2>3, TwiceBits
    <3> QED
      BY <2>4, <2>6, <3>4, <3>5, <3>6, <3>7
  <2>7. \/ j \in BelowTop /\ LimbOf(i + 1) = q /\ PlaceOf(i + 1) = j + 1
        \/ j = 15 /\ q \in 1..3 /\ LimbOf(i + 1) = q + 1 /\ PlaceOf(i + 1) = 0
    BY <2>1, NextPlace
  <2> QED
    BY <2>5, <2>6, <2>7
<1> QED
  BY <1>2, <1>3

(* The same of the product, bit by bit. *)
LEMMA DoubledProduct ==
  ASSUME NEW n \in Nat
  PROVE  /\ Product(n + 1)[0] = 0
         /\ \A i \in 0..62 : Product(n + 1)[i + 1] = Product(n)[i]
<1>1. Product(n + 1)[0] = 0
  BY DEF Product, Bit
<1>2. ASSUME NEW i \in 0..62 PROVE Product(n + 1)[i + 1] = Product(n)[i]
  <2>1. i + 1 \in Bit /\ i \in Bit /\ (i + 1 >= n + 1 <=> i >= n) /\ i + 1 - (n + 1) = i - n
    BY DEF Bit
  <2> QED
    BY <2>1 DEF Product
<1> QED
  BY <1>1, <1>2

(* So shifting a product is doubling its seconds. *)
LEMMA SameDoubled ==
  ASSUME NEW n \in Nat, NEW k, Small(k), NEW kk, kk = 2 * k,
         Product(n) = Seconds(k)
  PROVE  Product(n + 1) = Seconds(kk)
<1>1. /\ Product(n + 1) = [i \in Bit |-> Product(n + 1)[i]]
      /\ Seconds(kk) = [i \in Bit |-> Seconds(kk)[i]]
  BY DEF Product, Seconds, Word
<1>2. Product(n + 1)[0] = Seconds(kk)[0]
  <2>1. Product(n + 1)[0] = 0
    BY DoubledProduct
  <2>2. Seconds(kk)[0] = 0
    BY DoubledSeconds
  <2> QED
    BY <2>1, <2>2
<1>3. ASSUME NEW m \in 0..62 PROVE Product(n + 1)[m + 1] = Seconds(kk)[m + 1]
  <2>1. Product(n + 1)[m + 1] = Product(n)[m]
    BY DoubledProduct
  <2>2. Seconds(kk)[m + 1] = Seconds(k)[m]
    BY DoubledSeconds
  <2> QED
    BY <2>1, <2>2
<1>4. ASSUME NEW i \in Bit PROVE Product(n + 1)[i] = Seconds(kk)[i]
  <2>1. CASE i = 0
    BY <1>2, <2>1
  <2>2. CASE i # 0
    <3>1. i - 1 \in 0..62 /\ i = (i - 1) + 1
      BY <2>2 DEF Bit
    <3> QED
      BY <1>3, <3>1
  <2> QED
    BY <2>1, <2>2
<1> QED
  BY <1>1, <1>4

(* Up to 2^12 the product is exact. *)
LEMMA ExactProducts ==
  ASSUME NEW n \in 0..12
  PROVE  Product(n) = Seconds(2 ^ n)
<1>0. /\ Product(0) = [i \in Bit |-> BaseDelay[i]]
      /\ BaseDelay = [i \in Bit |-> BaseDelay[i]]
  BY DEF Product, Bit, BaseDelay, Seconds, Word
<1>1. Product(0) = Seconds(1)
  BY <1>0 DEF BaseDelay
<1>2. Product(1) = Seconds(2)
  BY <1>1, SameDoubled DEF Small
<1>3. Product(2) = Seconds(4)
  BY <1>2, SameDoubled DEF Small
<1>4. Product(3) = Seconds(8)
  BY <1>3, SameDoubled DEF Small
<1>5. Product(4) = Seconds(16)
  BY <1>4, SameDoubled DEF Small
<1>6. Product(5) = Seconds(32)
  BY <1>5, SameDoubled DEF Small
<1>7. Product(6) = Seconds(64)
  BY <1>6, SameDoubled DEF Small
<1>8. Product(7) = Seconds(128)
  BY <1>7, SameDoubled DEF Small
<1>9. Product(8) = Seconds(256)
  BY <1>8, SameDoubled DEF Small
<1>10. Product(9) = Seconds(512)
  BY <1>9, SameDoubled DEF Small
<1>11. Product(10) = Seconds(1024)
  BY <1>10, SameDoubled DEF Small
<1>12. Product(11) = Seconds(2048)
  BY <1>11, SameDoubled DEF Small
<1>13. Product(12) = Seconds(4096)
  BY <1>12, SameDoubled DEF Small
<1>14. /\ 2 ^ 0 = 1 /\ 2 ^ 1 = 2 /\ 2 ^ 2 = 4 /\ 2 ^ 3 = 8 /\ 2 ^ 4 = 16 /\ 2 ^ 5 = 32 /\ 2 ^ 6 = 64
       /\ 2 ^ 7 = 128 /\ 2 ^ 8 = 256 /\ 2 ^ 9 = 512 /\ 2 ^ 10 = 1024 /\ 2 ^ 11 = 2048 /\ 2 ^ 12 = 4096
  OBVIOUS
<1>15. CASE n = 0
  BY <1>1, <1>14, <1>15
<1>16. CASE n = 1
  BY <1>2, <1>14, <1>16
<1>17. CASE n = 2
  BY <1>3, <1>14, <1>17
<1>18. CASE n = 3
  BY <1>4, <1>14, <1>18
<1>19. CASE n = 4
  BY <1>5, <1>14, <1>19
<1>20. CASE n = 5
  BY <1>6, <1>14, <1>20
<1>21. CASE n = 6
  BY <1>7, <1>14, <1>21
<1>22. CASE n = 7
  BY <1>8, <1>14, <1>22
<1>23. CASE n = 8
  BY <1>9, <1>14, <1>23
<1>24. CASE n = 9
  BY <1>10, <1>14, <1>24
<1>25. CASE n = 10
  BY <1>11, <1>14, <1>25
<1>26. CASE n = 11
  BY <1>12, <1>14, <1>26
<1>27. CASE n = 12
  BY <1>13, <1>14, <1>27
<1> QED
  BY <1>15, <1>16, <1>17, <1>18, <1>19, <1>20, <1>21, <1>22, <1>23, <1>24,
     <1>25, <1>26, <1>27

(* The bits of the base delay and the high bits of the cap. *)
BaseOnes == {9, 11, 14, 15, 17, 19, 20, 23, 24, 25, 27, 28, 29}

LEMMA PlaceBits ==
  ASSUME NEW j \in 0..15
  PROVE  /\ BitAt(51712, Power(j)) = IF j \in {9, 11, 14, 15} THEN 1 ELSE 0
         /\ BitAt(15258, Power(j)) = IF j \in {1, 3, 4, 7, 8, 9, 11, 12, 13} THEN 1 ELSE 0
         /\ j >= 8 => BitAt(1676, Power(j)) = IF j \in {9, 10} THEN 1 ELSE 0
         /\ BitAt(0, Power(j)) = 0
<1>0. CASE j = 0
  BY <1>0, 2 ^ 0 = 1 DEF BitAt, Power
<1>1. CASE j = 1
  BY <1>1, 2 ^ 1 = 2 DEF BitAt, Power
<1>2. CASE j = 2
  BY <1>2, 2 ^ 2 = 4 DEF BitAt, Power
<1>3. CASE j = 3
  BY <1>3, 2 ^ 3 = 8 DEF BitAt, Power
<1>4. CASE j = 4
  BY <1>4, 2 ^ 4 = 16 DEF BitAt, Power
<1>5. CASE j = 5
  BY <1>5, 2 ^ 5 = 32 DEF BitAt, Power
<1>6. CASE j = 6
  BY <1>6, 2 ^ 6 = 64 DEF BitAt, Power
<1>7. CASE j = 7
  BY <1>7, 2 ^ 7 = 128 DEF BitAt, Power
<1>8. CASE j = 8
  BY <1>8, 2 ^ 8 = 256 DEF BitAt, Power
<1>9. CASE j = 9
  BY <1>9, 2 ^ 9 = 512 DEF BitAt, Power
<1>10. CASE j = 10
  BY <1>10, 2 ^ 10 = 1024 DEF BitAt, Power
<1>11. CASE j = 11
  BY <1>11, 2 ^ 11 = 2048 DEF BitAt, Power
<1>12. CASE j = 12
  BY <1>12, 2 ^ 12 = 4096 DEF BitAt, Power
<1>13. CASE j = 13
  BY <1>13, 2 ^ 13 = 8192 DEF BitAt, Power
<1>14. CASE j = 14
  BY <1>14, 2 ^ 14 = 16384 DEF BitAt, Power
<1>15. CASE j = 15
  BY <1>15, 2 ^ 15 = 32768 DEF BitAt, Power
<1> QED
  BY <1>0, <1>1, <1>2, <1>3, <1>4, <1>5, <1>6, <1>7, <1>8, <1>9, <1>10, <1>11,
     <1>12, <1>13, <1>14, <1>15

LEMMA BaseBits ==
  ASSUME NEW i \in Bit
  PROVE  BaseDelay[i] = IF i \in BaseOnes THEN 1 ELSE 0
<1>1. Limbs(1) = <<51712, 15258, 0, 0>>
  BY DEF Limbs, LowPart, HighPart
<1>2. BaseDelay[i] = BitAt(Limbs(1)[LimbOf(i)], Power(PlaceOf(i)))
  BY SecondsAreLimbs, WordBits DEF BaseDelay
<1>3. PICK q \in 1..4, j \in 0..15 : q = LimbOf(i) /\ j = PlaceOf(i) /\ i = 16 * (q - 1) + j
  BY DEF LimbOf, PlaceOf, Bit
<1>4. CASE q = 1
  <2>1. BaseDelay[i] = BitAt(51712, Power(j))
    BY <1>1, <1>2, <1>3, <1>4
  <2> QED
    BY <1>3, <1>4, <2>1, PlaceBits DEF BaseOnes
<1>5. CASE q = 2
  <2>1. BaseDelay[i] = BitAt(15258, Power(j))
    BY <1>1, <1>2, <1>3, <1>5
  <2>2. BaseDelay[i] = IF j \in {1, 3, 4, 7, 8, 9, 11, 12, 13} THEN 1 ELSE 0
    BY <2>1, PlaceBits
  <2>3. j \in {1, 3, 4, 7, 8, 9, 11, 12, 13} <=> i \in BaseOnes
    BY <1>3, <1>5 DEF BaseOnes
  <2> QED
    BY <2>2, <2>3
<1>6. CASE q \in 3..4
  <2>1. BaseDelay[i] = BitAt(0, Power(j))
    BY <1>1, <1>2, <1>3, <1>6
  <2>2. i \notin BaseOnes
    BY <1>3, <1>6 DEF BaseOnes
  <2> QED
    BY <2>1, <2>2, PlaceBits
<1> QED
  BY <1>4, <1>5, <1>6

LEMMA CapBits ==
  ASSUME NEW i \in Bit, i >= 40
  PROVE  TwoHours[i] = IF i \in {41, 42} THEN 1 ELSE 0
<1>1. Limbs(7200) = <<16384, 24945, 1676, 0>>
  BY DEF Limbs, LowPart, HighPart
<1>2. TwoHours[i] = BitAt(Limbs(7200)[LimbOf(i)], Power(PlaceOf(i)))
  BY SecondsAreLimbs, WordBits DEF TwoHours
<1>3. PICK q \in 1..4, j \in 0..15 : q = LimbOf(i) /\ j = PlaceOf(i) /\ i = 16 * (q - 1) + j
  BY DEF LimbOf, PlaceOf, Bit
<1>4. CASE q = 3
  <2>1. TwoHours[i] = BitAt(1676, Power(j))
    BY <1>1, <1>2, <1>3, <1>4
  <2> QED
    BY <1>3, <1>4, <2>1, PlaceBits
<1>5. CASE q = 4
  <2>1. TwoHours[i] = BitAt(0, Power(j))
    BY <1>1, <1>2, <1>3, <1>5
  <2> QED
    BY <1>3, <1>5, <2>1, PlaceBits
<1> QED
  BY <1>3, <1>4, <1>5

LEMMA ProductBits ==
  ASSUME NEW n \in Nat, NEW i \in Bit
  PROVE  Product(n)[i] = IF i - n \in BaseOnes THEN 1 ELSE 0
<1>1. CASE i >= n
  <2>1. i - n \in Bit
    BY <1>1 DEF Bit
  <2> QED
    BY <1>1, <2>1, BaseBits DEF Product
<1>2. CASE ~(i >= n)
  <2>1. i - n \notin BaseOnes
    BY <1>2 DEF Bit, BaseOnes
  <2> QED
    BY <1>2, <2>1 DEF Product
<1> QED
  BY <1>1, <1>2

------------------------------------------------------------------------------
(* The cut. *)

(* Up to 2^12 seconds nothing is cut. *)
LEMMA LowProducts ==
  ASSUME NEW n \in 0..12
  PROVE  ~LessThan(TwoHours, Product(n)) /\ ~LessThan(Product(n), BaseDelay)
<1>1. ~Negative(Product(n))
  <2>1. 63 \in Bit /\ 63 - n \notin BaseOnes
    BY DEF Bit, BaseOnes
  <2> QED
    BY <2>1, ProductBits DEF Negative
<1>2. ~Negative(TwoHours)
  <2>1. 63 \in Bit
    BY DEF Bit
  <2> QED
    BY <2>1, CapBits DEF Negative
<1>3. ASSUME NEW i \in Bit, TwoHours[i] < Product(n)[i],
             \A j \in Bit : j > i => TwoHours[j] = Product(n)[j]
      PROVE  FALSE
  <2>1. CASE i >= 42
    <3>1. i - n \notin BaseOnes
      BY <2>1 DEF BaseOnes, Bit
    <3>2. Product(n)[i] = 0
      BY <3>1, ProductBits
    <3> QED
      BY <1>3, <2>1, <3>2, CapBits DEF Bit
  <2>2. CASE i < 42
    <3>1. 42 \in Bit /\ 42 > i /\ 42 - n \notin BaseOnes
      BY <2>2 DEF BaseOnes, Bit
    <3>2. Product(n)[42] = 0 /\ TwoHours[42] = 1
      BY <3>1, ProductBits, CapBits
    <3> QED
      BY <1>3, <3>1, <3>2
  <2> QED
    BY <2>1, <2>2 DEF Bit
<1>4. ASSUME NEW i \in Bit, Product(n)[i] < BaseDelay[i],
             \A j \in Bit : j > i => Product(n)[j] = BaseDelay[j]
      PROVE  FALSE
  <2>1. n # 0 /\ i \in BaseOnes
    <3>1. Product(n)[i] = IF i - n \in BaseOnes THEN 1 ELSE 0
      BY ProductBits
    <3>2. BaseDelay[i] = IF i \in BaseOnes THEN 1 ELSE 0
      BY BaseBits
    <3>3. n = 0 => i - n = i
      BY DEF Bit
    <3> QED
      BY <1>4, <3>1, <3>2, <3>3
  <2>2. PICK t \in Bit : t = 29 + n
    BY DEF Bit
  <2>3. t > i /\ t - n = 29 /\ t \notin BaseOnes
    BY <2>1, <2>2 DEF BaseOnes
  <2>4. Product(n)[t] = 1 /\ BaseDelay[t] = 0
    <3>1. 29 \in BaseOnes
      BY DEF BaseOnes
    <3> QED
      BY <2>3, <3>1, ProductBits, BaseBits
  <2> QED
    BY <1>4, <2>3, <2>4
<1> QED
  BY <1>1, <1>2, <1>3, <1>4 DEF LessThan

(* A product whose highest bit lies between the cap's and the sign is      *)
(* above the cap.                                                          *)
LEMMA HighProduct ==
  ASSUME NEW n \in Nat, NEW t \in 43..62, t - n \in BaseOnes,
         \A j \in Bit : j > t => j - n \notin BaseOnes
  PROVE  ~Negative(Product(n)) /\ LessThan(TwoHours, Product(n))
<1>1. 63 \in Bit /\ t \in Bit /\ 63 > t
  BY DEF Bit
<1>2. Product(n)[63] = 0 /\ Product(n)[t] = 1 /\ TwoHours[t] = 0
  BY <1>1, ProductBits, CapBits
<1>3. ASSUME NEW j \in Bit, j > t PROVE TwoHours[j] = Product(n)[j]
  <2>1. Product(n)[j] = 0
    BY <1>3, ProductBits
  <2>2. TwoHours[j] = 0
    BY <1>3, CapBits DEF Bit
  <2> QED
    BY <2>1, <2>2
<1>4. TwoHours[t] < Product(n)[t]
  BY <1>2
<1> QED
  BY <1>1, <1>2, <1>3, <1>4 DEF LessThan, Negative

(* A set sign bit makes the product negative. *)
LEMMA NegativeProduct ==
  ASSUME NEW n \in Nat, 63 - n \in BaseOnes
  PROVE  LessThan(Product(n), BaseDelay)
<1>1. 63 \in Bit
  BY DEF Bit
<1> QED
  BY <1>1, ProductBits DEF LessThan, Negative

(* Every bit has left the word. *)
LEMMA ZeroProduct ==
  ASSUME NEW n \in Nat, n >= 55
  PROVE  LessThan(Product(n), BaseDelay)
<1>1. 29 \in Bit /\ 29 \in BaseOnes
  BY DEF Bit, BaseOnes
<1>2. ASSUME NEW j \in Bit PROVE Product(n)[j] = 0
  <2>1. j - n \notin BaseOnes
    BY DEF Bit, BaseOnes
  <2> QED
    BY <2>1, ProductBits
<1>3. ASSUME NEW j \in Bit, j > 29 PROVE BaseDelay[j] = 0
  <2>1. j \notin BaseOnes
    BY <1>3 DEF BaseOnes
  <2> QED
    BY <2>1, BaseBits
<1>4. BaseDelay[29] = 1
  BY <1>1, BaseBits
<1> QED
  BY <1>1, <1>2, <1>3, <1>4 DEF LessThan

(* 2^13 seconds share the cap's two highest bits and exceed it in the      *)
(* third.                                                                  *)
LEMMA FirstCut == ~Negative(Product(13)) /\ LessThan(TwoHours, Product(13))
<1>1. 63 \in Bit /\ 40 \in Bit /\ 63 - 13 \notin BaseOnes /\ 40 - 13 \in BaseOnes
  BY DEF Bit, BaseOnes
<1>2. Product(13)[63] = 0 /\ Product(13)[40] = 1 /\ TwoHours[40] = 0
  BY <1>1, ProductBits, CapBits
<1>3. ASSUME NEW j \in Bit, j > 40 PROVE TwoHours[j] = Product(13)[j]
  <2>1. j - 13 \in BaseOnes <=> j \in {41, 42}
    BY <1>3 DEF Bit, BaseOnes
  <2>2. Product(13)[j] = IF j - 13 \in BaseOnes THEN 1 ELSE 0
    BY ProductBits
  <2>3. TwoHours[j] = IF j \in {41, 42} THEN 1 ELSE 0
    BY <1>3, CapBits DEF Bit
  <2> QED
    BY <2>1, <2>2, <2>3
<1>4. TwoHours[40] < Product(13)[40]
  BY <1>2
<1> QED
  BY <1>1, <1>2, <1>3, <1>4 DEF LessThan, Negative

(* From 2^13 seconds on every product is cut. *)
LEMMA EveryCut ==
  ASSUME NEW n \in Nat, n >= 13
  PROVE  \/ ~Negative(Product(n)) /\ LessThan(TwoHours, Product(n))
         \/ LessThan(Product(n), BaseDelay)
<1>1. CASE n = 13
  BY <1>1, FirstCut
<1>2. CASE n \in 14..33
  <2>1. PICK t \in 43..62 : t = 29 + n
    BY <1>2
  <2>2. t - n \in BaseOnes /\ \A j \in Bit : j > t => j - n \notin BaseOnes
    BY <1>2, <2>1 DEF Bit, BaseOnes
  <2> QED
    BY <2>1, <2>2, HighProduct
<1>3. CASE 63 - n \in BaseOnes
  BY <1>3, NegativeProduct
<1>4. CASE n \in {37, 42, 45, 47, 51, 53}
  <2>1. 62 - n \in BaseOnes /\ \A j \in Bit : j > 62 => j - n \notin BaseOnes
    BY <1>4 DEF Bit, BaseOnes
  <2> QED
    BY <2>1, HighProduct
<1>5. CASE n \in {41, 50}
  <2>1. 61 - n \in BaseOnes /\ \A j \in Bit : j > 61 => j - n \notin BaseOnes
    BY <1>5 DEF Bit, BaseOnes
  <2> QED
    BY <2>1, HighProduct
<1>6. CASE n >= 55
  BY <1>6, ZeroProduct
<1>7. n = 13 \/ n \in 14..33 \/ n >= 55 \/ n \in 34..54
  OBVIOUS
<1>8. n \in 34..54 =>
        63 - n \in BaseOnes \/ n \in {37, 42, 45, 47, 51, 53} \/ n \in {41, 50}
  BY DEF BaseOnes
<1> QED
  BY <1>1, <1>2, <1>3, <1>4, <1>5, <1>6, <1>7, <1>8

(* The delay after n claims, for every n. *)
LEMMA DelayIsTruncatedPower ==
  ASSUME NEW n \in Nat
  PROVE  RetryDelay(n) = IF n < 13 THEN Seconds(2 ^ n) ELSE TwoHours
<1>1. CASE n < 13
  <2>1. n \in 0..12
    BY <1>1
  <2> QED
    BY <1>1, <2>1, LowProducts, ExactProducts DEF RetryDelay
<1>2. CASE n >= 13
  BY <1>2, EveryCut DEF RetryDelay
<1> QED
  BY <1>1, <1>2

(* The 64-bit delay of a row is 2^n seconds cut at two hours, for every    *)
(* number of claims: no wrapped product ever passes the cut, so the exact  *)
(* arithmetic of OutboundQueue is the code's.                              *)
THEOREM NoDelayEverWraps == OutboundSpec => []NoDelayWraps
<1>1. TruncatedPower
  BY BackoffAssumption, DelayIsTruncatedPower DEF TruncatedPower
<1>2. NoDelayWraps
  BY <1>1 DEF NoDelayWraps
<1> QED
  BY <1>2, PTL
=============================================================================
