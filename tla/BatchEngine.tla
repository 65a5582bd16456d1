----------------------------- MODULE BatchEngine -----------------------------
(***************************************************************************)
(* The generic worker pool of internal/pkg/workers/engine.go.              *)
(*                                                                         *)
(* Every server process runs BatchEngine.Start once: one poller goroutine  *)
(* claims a batch of tasks and pushes it, task by task, into a channel of  *)
(* capacity BatchSize; NumWorkers goroutines range over that channel and   *)
(* run one task at a time.  Cancelling the context stops the poller, which *)
(* closes the channel; workers drain what is already buffered.             *)
(*                                                                         *)
(* The module holds only what lives in memory.  What claimBatch and        *)
(* runTask do to the database belongs to the modules that extend this one  *)
(* (InboundQueue, OutboundQueue): they conjoin their own updates to the    *)
(* actions below.  EngineSpec closes the engine with an arbitrary          *)
(* claimBatch that honours its contract.                                   *)
(***************************************************************************)
EXTENDS Naturals, Sequences

CONSTANTS
  Task,        \* rows of the queue table a claim may return
  Server,      \* processes that run an engine (replicas, or a rolling restart)
  Worker,      \* worker goroutines, over all servers
  ServerOf,    \* the server a worker goroutine belongs to
  BatchSize,   \* Config.BatchSize: claim limit and channel capacity
  NoTask       \* what an idle worker runs

ASSUME EngineAssumption ==
  /\ ServerOf \in [Worker -> Server]
  /\ BatchSize \in Nat \ {0}
  /\ NoTask \notin Task

VARIABLES
  engine,      \* state of the process and of the context given to Start
  poller,      \* control state of the poller goroutine
  batch,       \* tasks the poller still has to push
  channel,     \* taskChan
  job          \* the task runTask is working on, per worker

engineVars == <<engine, poller, batch, channel, job>>

Elems(q) == {q[i] : i \in DOMAIN q}
Distinct(q) == \A i, j \in DOMAIN q : q[i] = q[j] => i = j
WorkersOf(s) == {w \in Worker : ServerOf[w] = s}

EngineTypeOK ==
  /\ engine \in [Server -> {"running", "cancelled", "down"}]
  /\ poller \in [Server -> {"waiting", "claiming", "sending", "closed"}]
  /\ batch \in [Server -> Seq(Task)]
  /\ channel \in [Server -> Seq(Task)]
  /\ job \in [Worker -> Task \cup {NoTask}]

EngineInit ==
  /\ engine = [s \in Server |-> "running"]
  /\ poller = [s \in Server |-> "waiting"]
  /\ batch = [s \in Server |-> <<>>]
  /\ channel = [s \in Server |-> <<>>]
  /\ job = [w \in Worker |-> NoTask]

(* Tasks a claim returned and that the process has not finished: pushed,   *)
(* about to be pushed, or running.  Rows under an open claim transaction   *)
(* are not included.                                                       *)
Claimed(s) == IF poller[s] = "sending" THEN Elems(batch[s]) ELSE {}
Running == {job[w] : w \in Worker} \ {NoTask}
Held == Running \cup UNION {Claimed(s) \cup Elems(channel[s]) : s \in Server}
Locked == UNION {Elems(batch[s]) : s \in {t \in Server : poller[t] = "claiming"}}

------------------------------------------------------------------------------
(* The poller goroutine. *)

(* The ticker fires and claimBatch opens its transaction on the rows q.    *)
(* With a cancelled context the transaction cannot begin and the loop goes *)
(* round unchanged.                                                        *)
BeginClaim(s, q) ==
  /\ engine[s] = "running" /\ poller[s] = "waiting"
  /\ q # <<>>
  /\ poller' = [poller EXCEPT ![s] = "claiming"]
  /\ batch' = [batch EXCEPT ![s] = q]
  /\ UNCHANGED <<engine, channel, job>>

(* claimBatch returns its tasks. *)
ClaimReturns(s) ==
  /\ poller[s] = "claiming"
  /\ poller' = [poller EXCEPT ![s] = "sending"]
  /\ UNCHANGED <<engine, batch, channel, job>>

(* claimBatch returns an error: the loop continues with nothing to send. *)
ClaimErrors(s) ==
  /\ poller[s] = "claiming"
  /\ poller' = [poller EXCEPT ![s] = "waiting"]
  /\ batch' = [batch EXCEPT ![s] = <<>>]
  /\ UNCHANGED <<engine, channel, job>>

(* taskChan <- task, which blocks while the buffer is full. *)
SendTask(s) ==
  /\ poller[s] = "sending"
  /\ Len(channel[s]) < BatchSize
  /\ channel' = [channel EXCEPT ![s] = Append(@, Head(batch[s]))]
  /\ batch' = [batch EXCEPT ![s] = Tail(@)]
  /\ poller' = [poller EXCEPT ![s] = IF Len(batch[s]) = 1 THEN "waiting" ELSE "sending"]
  /\ UNCHANGED <<engine, job>>

(* Broken variant (here and below, for the mutants of PROJECT.json): the   *)
(* poller gives up its batch while the context lives.                      *)
ClosePollerEarly(s) ==
  /\ poller[s] = "sending"
  /\ poller' = [poller EXCEPT ![s] = "waiting"]
  /\ batch' = [batch EXCEPT ![s] = <<>>]
  /\ UNCHANGED <<engine, channel, job>>

(* <-ctx.Done(), in the outer or in the inner select: the rest of the      *)
(* batch is dropped and the channel closed.                                *)
ClosePoller(s) ==
  /\ engine[s] = "cancelled" /\ poller[s] \in {"waiting", "sending"}
  /\ poller' = [poller EXCEPT ![s] = "closed"]
  /\ batch' = [batch EXCEPT ![s] = <<>>]
  /\ UNCHANGED <<engine, channel, job>>

------------------------------------------------------------------------------
(* The worker goroutines. *)

(* Broken variant: a worker leaves on ctx.Done() instead of draining. *)
TakeTaskUntilCancel(w) ==
  LET s == ServerOf[w] IN
  /\ engine[s] = "running"
  /\ job[w] = NoTask /\ channel[s] # <<>>
  /\ job' = [job EXCEPT ![w] = Head(channel[s])]
  /\ channel' = [channel EXCEPT ![s] = Tail(@)]
  /\ UNCHANGED <<engine, poller, batch>>

TakeTask(w) ==
  LET s == ServerOf[w] IN
  /\ job[w] = NoTask /\ channel[s] # <<>>
  /\ job' = [job EXCEPT ![w] = Head(channel[s])]
  /\ channel' = [channel EXCEPT ![s] = Tail(@)]
  /\ UNCHANGED <<engine, poller, batch>>

FinishTask(w) ==
  /\ job[w] # NoTask
  /\ job' = [job EXCEPT ![w] = NoTask]
  /\ UNCHANGED <<engine, poller, batch, channel>>

------------------------------------------------------------------------------
(* The process around the engine. *)

(* handleShutdown calls cancel(). *)
Cancel(s) ==
  /\ engine[s] = "running"
  /\ engine' = [engine EXCEPT ![s] = "cancelled"]
  /\ UNCHANGED <<poller, batch, channel, job>>

(* The process ends: a crash, or main returning after cancel() without     *)
(* waiting for Start.  Everything in memory is gone and open transactions  *)
(* are rolled back by the server side.                                     *)
Kill(s) ==
  /\ engine[s] # "down"
  /\ engine' = [engine EXCEPT ![s] = "down"]
  /\ poller' = [poller EXCEPT ![s] = "closed"]
  /\ batch' = [batch EXCEPT ![s] = <<>>]
  /\ channel' = [channel EXCEPT ![s] = <<>>]
  /\ job' = [w \in Worker |-> IF ServerOf[w] = s THEN NoTask ELSE job[w]]

(* A new process starts its engine. *)
Boot(s) ==
  /\ engine[s] = "down"
  /\ engine' = [engine EXCEPT ![s] = "running"]
  /\ poller' = [poller EXCEPT ![s] = "waiting"]
  /\ UNCHANGED <<batch, channel, job>>

------------------------------------------------------------------------------
(* The engine closed with an environment: claimBatch returns any distinct  *)
(* tasks that nobody holds (what FOR UPDATE SKIP LOCKED and the status     *)
(* column give the two queues), and runTask always returns.                *)

Batches == UNION {[1..n -> Task \ (Held \cup Locked)] : n \in 1..BatchSize}

EngineNext ==
  \/ \E s \in Server :
       \/ \E q \in Batches : Distinct(q) /\ BeginClaim(s, q)
       \/ ClaimReturns(s) \/ ClaimErrors(s) \/ SendTask(s) \/ ClosePoller(s)
       \/ Cancel(s) \/ Kill(s) \/ Boot(s)
  \/ \E w \in Worker : TakeTask(w) \/ FinishTask(w)

EngineFairness ==
  /\ \A s \in Server :
       /\ WF_engineVars(ClaimReturns(s) \/ ClaimErrors(s))
       /\ WF_engineVars(SendTask(s))
       /\ WF_engineVars(ClosePoller(s))
  /\ \A w \in Worker : WF_engineVars(TakeTask(w)) /\ WF_engineVars(FinishTask(w))

EngineSpec == EngineInit /\ [][EngineNext]_engineVars /\ EngineFairness

------------------------------------------------------------------------------
(* Properties. *)

(* No task is held twice: not by two pollers, not by a poller and a        *)
(* channel, not by two workers, within a server or across servers.  This   *)
(* is "Concurrent workers claim disjoint queue records".                   *)
HeldOnce ==
  /\ \A s \in Server : Distinct(batch[s]) /\ Distinct(channel[s])
  /\ \A s, t \in Server :
       /\ Elems(batch[s]) \cap Elems(channel[t]) = {}
       /\ s # t => /\ Elems(batch[s]) \cap Elems(batch[t]) = {}
                   /\ Elems(channel[s]) \cap Elems(channel[t]) = {}
  /\ \A w \in Worker, s \in Server :
       job[w] # NoTask => job[w] \notin Elems(batch[s]) \cup Elems(channel[s])
  /\ \A v, w \in Worker : v # w /\ job[v] = job[w] => job[v] = NoTask

(* What the goroutines may hold in each of their control states: a poller  *)
(* that is not sending has nothing left to send, a process that is down    *)
(* holds nothing, the channel never holds more than its capacity.          *)
EngineShape ==
  \A s \in Server :
    /\ (batch[s] # <<>>) <=> (poller[s] \in {"claiming", "sending"})
    /\ Len(batch[s]) <= BatchSize /\ Len(channel[s]) <= BatchSize
    /\ engine[s] = "down" =>
         /\ poller[s] = "closed" /\ channel[s] = <<>>
         /\ \A w \in WorkersOf(s) : job[w] = NoTask
    /\ poller[s] = "closed" => engine[s] # "running"

(* A claimed task is run, unless the context is cancelled or the process   *)
(* ends first: a full channel never blocks the poller for good.            *)
ClaimedIsRun ==
  \A t \in Task, s \in Server :
    t \in Claimed(s) ~> (t \in Running \/ engine[s] # "running")

(* Start returns after its context is cancelled: the poller leaves both    *)
(* selects, even with a full channel, and the workers drain and stop.      *)
StartReturns ==
  \A s \in Server :
    engine[s] = "cancelled" ~>
      \/ engine[s] = "down"
      \/ /\ poller[s] = "closed" /\ channel[s] = <<>>
         /\ \A w \in WorkersOf(s) : job[w] = NoTask
=============================================================================
