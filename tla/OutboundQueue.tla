---------------------------- MODULE OutboundQueue ----------------------------
(***************************************************************************)
(* The outbound federation queue: the engines of all servers claim rows of *)
(* outbound_activity_queue (ClaimOutboundBatch), and the runFn of          *)
(* outbound_worker.go loads the actor's keys, POSTs the activity to the    *)
(* remote server and marks the row completed, or failed with a delay.      *)
(*                                                                         *)
(* Nothing in the repository inserts rows into this table; they are there  *)
(* in the initial state.  Time is the countdown of each row to its         *)
(* next_run_at, in seconds.                                                *)
(***************************************************************************)
EXTENDS QueueTable, Backoff

CONSTANTS
  CreatedAt,       \* outbound_activity_queue.created_at, as a rank
  MaxDelay,        \* cap of the backoff in seconds (7200 in the code)
  MaxRefusals      \* bound: answers of remote servers other than 200 and 202

ASSUME OutboundAssumption ==
  /\ CreatedAt \in [Task -> Nat]
  /\ \A a, b \in Task : CreatedAt[a] = CreatedAt[b] => a = b
  /\ MaxDelay \in Nat \ {0}
  /\ MaxRefusals \in Nat

VARIABLES
  attempts,     \* outbound_activity_queue.attempts
  wait,         \* seconds until next_run_at
  reason,       \* the class of outbound_activity_queue.error_message
  cause,        \* the error runFn reports with MarkOutboundFailed, per worker
  delay,        \* the delay MarkOutboundFailed computed, per worker
  accepted,     \* history: how often the remote server took the activity
  uncertain,    \* history: how often it took it and did not answer 200 or 202
  idle,         \* history: seconds since the last POST, up to MaxDelay
  posted,       \* history: activities POSTed at least once
  refusals      \* history: refusals so far

rowVars == <<status, attempts, wait, reason>>
sendVars == <<stage, cause, delay>>
remoteVars == <<accepted, uncertain, idle, posted, refusals>>
outboundVars == <<engineVars, rowVars, sendVars, remoteVars, disruptions>>

Causes == {"none", "keys", "transient", "permanent"}

OutboundTypeOK ==
  /\ EngineTypeOK
  /\ status \in [Task -> {"pending", "processing", "completed", "failed"}]
  /\ attempts \in [Task -> Nat]
  /\ wait \in [Task -> 0..MaxDelay]
  /\ reason \in [Task -> Causes]
  /\ stage \in [Worker -> {"idle", "keys", "post", "complete", "fail", "schedule"}]
  /\ cause \in [Worker -> Causes]
  /\ delay \in [Worker -> 0..MaxDelay]
  /\ accepted \in [Task -> Nat] /\ uncertain \in [Task -> Nat]
  /\ idle \in [Task -> 0..MaxDelay] /\ posted \in SUBSET Task
  /\ refusals \in 0..MaxRefusals /\ disruptions \in 0..MaxDisruptions

OutboundInit ==
  /\ EngineInit
  /\ status = [a \in Task |-> "pending"]
  /\ attempts = [a \in Task |-> 0]
  /\ wait = [a \in Task |-> 0]
  /\ reason = [a \in Task |-> "none"]
  /\ stage = [w \in Worker |-> "idle"]
  /\ cause = [w \in Worker |-> "none"]
  /\ delay = [w \in Worker |-> 0]
  /\ accepted = [a \in Task |-> 0] /\ uncertain = [a \in Task |-> 0]
  /\ idle = [a \in Task |-> MaxDelay] /\ posted = {}
  /\ refusals = 0 /\ disruptions = 0

------------------------------------------------------------------------------
(* A second passes: next_run_at comes closer for every scheduled row.      *)
Tick ==
  /\ \E a \in Task : wait[a] > 0 \/ idle[a] < MaxDelay
  /\ wait' = [a \in Task |-> IF wait[a] > 0 THEN wait[a] - 1 ELSE 0]
  /\ idle' = [a \in Task |-> IF idle[a] < MaxDelay THEN idle[a] + 1 ELSE MaxDelay]
  /\ UNCHANGED <<engineVars, status, attempts, reason, sendVars,
                 accepted, uncertain, posted, refusals, disruptions>>

------------------------------------------------------------------------------
(* ClaimOutboundBatch. *)

(* Broken variant (for the mutants of PROJECT.json, like those below): the *)
(* claim takes rows that another claim is about to mark.                   *)
DueRowsUnlocked ==
  {a \in Task : status[a] = "pending" \/ (status[a] = "failed" /\ wait[a] = 0)}

DueRows ==
  {a \in Task : status[a] = "pending" \/ (status[a] = "failed" /\ wait[a] = 0)} \ Locked

OldestDue(q) ==
  /\ Elems(q) \subseteq DueRows
  /\ Distinct(q)
  /\ \A i, j \in DOMAIN q : i < j => CreatedAt[q[i]] < CreatedAt[q[j]]
  /\ \A c \in DueRows \ Elems(q) :
       Len(q) = BatchSize /\ \A a \in Elems(q) : CreatedAt[a] < CreatedAt[c]

ClaimOutboundTasks(s) ==
  /\ \E n \in 1..BatchSize : \E q \in [1..n -> Task] :
       OldestDue(q) /\ BeginClaim(s, q)
  /\ UNCHANGED <<rowVars, sendVars, remoteVars, disruptions>>

MarkOutboundProcessing(s) ==
  /\ status' = [a \in Task |-> IF a \in Elems(batch[s]) THEN "processing" ELSE status[a]]
  /\ attempts' = [a \in Task |-> IF a \in Elems(batch[s]) THEN attempts[a] + 1 ELSE attempts[a]]

OutboundClaimCommits(s) ==
  /\ StatementSucceeds(s)
  /\ MarkOutboundProcessing(s)
  /\ ClaimReturns(s)
  /\ UNCHANGED <<wait, reason, sendVars, remoteVars>>

(* As in InboundQueue, an error of Commit may hide a commit.               *)
OutboundClaimAborts(s) ==
  /\ StatementFails(s)
  /\ MarkOutboundProcessing(s) \/ UNCHANGED <<status, attempts>>
  /\ ClaimErrors(s)
  /\ UNCHANGED <<wait, reason, sendVars, remoteVars>>

------------------------------------------------------------------------------
(* runFn *)

StartDelivery(w) ==
  /\ TakeTask(w)
  /\ stage' = [stage EXCEPT ![w] = "keys"]
  /\ UNCHANGED <<rowVars, cause, delay, remoteVars, disruptions>>

LoadKeys(w) ==
  /\ stage[w] = "keys"
  /\ StatementSucceeds(ServerOf[w])
  /\ stage' = [stage EXCEPT ![w] = "post"]
  /\ UNCHANGED <<engineVars, rowVars, cause, delay, remoteVars>>

(* GetActorDualKeys fails; an actor without keys always fails, as any      *)
(* other error does, and is retried like it.                               *)
LoadKeysFails(w) ==
  /\ stage[w] = "keys"
  /\ StatementFails(ServerOf[w])
  /\ stage' = [stage EXCEPT ![w] = "fail"]
  /\ cause' = [cause EXCEPT ![w] = "keys"]
  /\ UNCHANGED <<engineVars, rowVars, delay, remoteVars>>

Post(w) ==
  /\ stage[w] = "post"
  /\ posted' = posted \cup {job[w]}
  /\ idle' = [idle EXCEPT ![job[w]] = 0]
  /\ UNCHANGED <<engineVars, rowVars, delay, disruptions>>

PostAccepted(w) ==
  /\ Post(w) /\ engine[ServerOf[w]] = "running"
  /\ accepted' = [accepted EXCEPT ![job[w]] = @ + 1]
  /\ stage' = [stage EXCEPT ![w] = "complete"]
  /\ UNCHANGED <<uncertain, refusals, cause>>

(* Broken variant: a refused POST is taken for a delivered one.            *)
PostRefusedUnnoticed(w, c, taken) ==
  /\ Post(w)
  /\ refusals < MaxRefusals /\ refusals' = refusals + 1
  /\ accepted' = [accepted EXCEPT ![job[w]] = IF taken THEN @ + 1 ELSE @]
  /\ uncertain' = [uncertain EXCEPT ![job[w]] = IF taken THEN @ + 1 ELSE @]
  /\ stage' = [stage EXCEPT ![w] = "complete"]
  /\ UNCHANGED cause

(* Every other outcome is an error, which isTransientError classes by its  *)
(* status code: 408, 429, 5xx and errors without a code are transient, all *)
(* other codes are permanent, 201 and 204 among them.  Whatever the class, *)
(* the remote may have taken the activity (a lost answer, a 504, a 201).   *)
(* A cancelled context is one more error without a code.                   *)
PostRefused(w, c, taken) ==
  /\ Post(w)
  /\ \/ engine[ServerOf[w]] = "cancelled" /\ c = "transient" /\ UNCHANGED refusals
     \/ refusals < MaxRefusals /\ refusals' = refusals + 1
  /\ accepted' = [accepted EXCEPT ![job[w]] = IF taken THEN @ + 1 ELSE @]
  /\ uncertain' = [uncertain EXCEPT ![job[w]] = IF taken THEN @ + 1 ELSE @]
  /\ stage' = [stage EXCEPT ![w] = "fail"]
  /\ cause' = [cause EXCEPT ![w] = c]

MarkOutboundComplete(w) ==
  /\ stage[w] = "complete"
  /\ StatementSucceeds(ServerOf[w])
  /\ status' = [status EXCEPT ![job[w]] = "completed"]
  /\ FinishTask(w)
  /\ stage' = [stage EXCEPT ![w] = "idle"]
  /\ UNCHANGED <<attempts, wait, reason, cause, delay, remoteVars>>

(* MarkOutboundFailed reads attempts in one statement (NoDelayWraps says   *)
(* that Delay is what the code computes; the cut below one second is the   *)
(* code's, though no exact power needs it)...                              *)
Delay(n) == IF 2 ^ n > MaxDelay \/ 2 ^ n < 1 THEN MaxDelay ELSE 2 ^ n

(* Broken variant: the delay is computed one attempt behind. *)
ReadAttemptsBehind(w) ==
  /\ stage[w] = "fail"
  /\ StatementSucceeds(ServerOf[w])
  /\ delay' = [delay EXCEPT ![w] = Delay(attempts[job[w]] - 1)]
  /\ stage' = [stage EXCEPT ![w] = "schedule"]
  /\ UNCHANGED <<engineVars, rowVars, cause, remoteVars>>

ReadAttempts(w) ==
  /\ stage[w] = "fail"
  /\ StatementSucceeds(ServerOf[w])
  /\ delay' = [delay EXCEPT ![w] = Delay(attempts[job[w]])]
  /\ stage' = [stage EXCEPT ![w] = "schedule"]
  /\ UNCHANGED <<engineVars, rowVars, cause, remoteVars>>

(* Broken variant: the retry is scheduled, but the row stays 'processing'. *)
MarkFailedHalf(w) ==
  /\ stage[w] = "schedule"
  /\ StatementSucceeds(ServerOf[w])
  /\ wait' = [wait EXCEPT ![job[w]] = delay[w]]
  /\ reason' = [reason EXCEPT ![job[w]] = cause[w]]
  /\ FinishTask(w)
  /\ stage' = [stage EXCEPT ![w] = "idle"]
  /\ UNCHANGED <<status, attempts, cause, delay, remoteVars>>

(* ... and schedules the retry in another.                                 *)
MarkOutboundFailed(w) ==
  /\ stage[w] = "schedule"
  /\ StatementSucceeds(ServerOf[w])
  /\ status' = [status EXCEPT ![job[w]] = "failed"]
  /\ wait' = [wait EXCEPT ![job[w]] = delay[w]]
  /\ reason' = [reason EXCEPT ![job[w]] = cause[w]]
  /\ FinishTask(w)
  /\ stage' = [stage EXCEPT ![w] = "idle"]
  /\ UNCHANGED <<attempts, cause, delay, remoteVars>>

(* Broken variant: a row whose mark failed is put back into the queue.     *)
MarkErrorRequeues(w) ==
  /\ stage[w] \in {"complete", "fail", "schedule"}
  /\ StatementFails(ServerOf[w])
  /\ status' = [status EXCEPT ![job[w]] = "pending"]
  /\ FinishTask(w)
  /\ stage' = [stage EXCEPT ![w] = "idle"]
  /\ UNCHANGED <<attempts, wait, reason, cause, delay, remoteVars>>

(* The error of either mark is discarded and the row stays 'processing'.   *)
OutboundMarkError(w) ==
  /\ stage[w] \in {"complete", "fail", "schedule"}
  /\ StatementFails(ServerOf[w])
  /\ FinishTask(w)
  /\ stage' = [stage EXCEPT ![w] = "idle"]
  /\ UNCHANGED <<rowVars, cause, delay, remoteVars>>

------------------------------------------------------------------------------
(* The process, as in InboundQueue. *)

OutboundShutdown(s) == Cancel(s) /\ Disrupted /\ UNCHANGED <<rowVars, sendVars, remoteVars>>

OutboundExit(s) ==
  /\ Kill(s)
  /\ IF engine[s] = "cancelled" THEN UNCHANGED disruptions ELSE Disrupted
  /\ stage' = [w \in Worker |-> IF ServerOf[w] = s THEN "idle" ELSE stage[w]]
  /\ UNCHANGED <<rowVars, cause, delay, remoteVars>>

OutboundRestart(s) == Boot(s) /\ UNCHANGED <<rowVars, sendVars, remoteVars, disruptions>>

------------------------------------------------------------------------------
OutboundPollerStep(s) ==
  \/ ClaimOutboundTasks(s) \/ OutboundClaimCommits(s) \/ OutboundClaimAborts(s)
  \/ SendTask(s) /\ UNCHANGED <<rowVars, sendVars, remoteVars, disruptions>>
  \/ ClosePoller(s) /\ UNCHANGED <<rowVars, sendVars, remoteVars, disruptions>>

OutboundWorkerStep(w) ==
  \/ StartDelivery(w) \/ LoadKeys(w) \/ LoadKeysFails(w)
  \/ PostAccepted(w)
  \/ \E c \in {"transient", "permanent"}, taken \in BOOLEAN : PostRefused(w, c, taken)
  \/ ReadAttempts(w) \/ MarkOutboundFailed(w) \/ MarkOutboundComplete(w) \/ OutboundMarkError(w)

OutboundNext ==
  \/ Tick
  \/ \E s \in Server : OutboundPollerStep(s) \/ OutboundShutdown(s) \/ OutboundExit(s) \/ OutboundRestart(s)
  \/ \E w \in Worker : OutboundWorkerStep(w)

OutboundSpec == OutboundInit /\ [][OutboundNext]_outboundVars

(* Goroutines are scheduled, time passes, and a POST returns (the client   *)
(* has a timeout).                                                         *)
OutboundFairSpec ==
  /\ OutboundSpec
  /\ WF_outboundVars(Tick)
  /\ \A s \in Server : WF_outboundVars(OutboundPollerStep(s))
  /\ \A w \in Worker : WF_outboundVars(OutboundWorkerStep(w))

------------------------------------------------------------------------------
(* Properties. *)

(* A completed row was taken by the remote server.                         *)
CompletedWasDelivered == \A a \in Task : status[a] = "completed" => accepted[a] > 0

(* The remote server gets an activity a second time only if it took it     *)
(* before and did not say so with a 200 or a 202: no crash, shutdown,      *)
(* concurrent claim or failed mark alone sends it twice.                   *)
DuplicatesOnlyWhenUncertain == \A a \in Task : accepted[a] <= 1 + uncertain[a]

(* A completed row is closed for good, and its activity is not sent again: *)
(* the marks look for a row by its id alone, whatever its status, so a     *)
(* late mark or a second holder would reopen or repeat it.                 *)
DeliveredIsFinal ==
  [][\A a \in Task : status[a] = "completed" =>
       status'[a] = "completed" /\ accepted'[a] = accepted[a]]_outboundVars

(* Between two POSTs of an activity at least the backoff of the earlier    *)
(* attempt passes, whoever makes them: attempts is counted once per claim  *)
(* and the delay is computed from the count of the attempt that failed.    *)
BackoffIsKept ==
  [][\A w \in Worker :
       (stage[w] = "post" /\ stage'[w] \in {"complete", "fail"} /\ job[w] \in posted)
         => idle[job[w]] >= Delay(attempts[job[w]] - 1)]_outboundVars

(* However often a row has been claimed (claims are never limited), the    *)
(* product baseDelay * (1 << attempts) that wraps, turns negative or zero  *)
(* does not escape the cut of MarkOutboundFailed.  The formula does not    *)
(* depend on the state: it is evaluated before the first claim.            *)
NoDelayWraps == (\A a \in Task : attempts[a] = 0) => TruncatedPower

(* Unless a database error, a shutdown or a crash disrupts the queue,      *)
(* every activity is delivered that is not refused for good: a transient   *)
(* error is retried until the remote takes it (isTransientError,           *)
(* MarkOutboundFailed, ClaimOutboundBatch).                                *)
EventuallyDelivered ==
  \A a \in Task : <>(status[a] = "completed" \/ reason[a] = "permanent" \/ disruptions > 0)

(* A row that was refused for good is marked failed and is not retried     *)
(* (the runFn of NewOutboundWorker).                                       *)
PermanentStaysFailed == \A a \in Task : reason[a] = "permanent" => status[a] = "failed"

------------------------------------------------------------------------------
(* The inductive invariant behind the safety properties above. *)

(* What runFn knows of the row it works on. *)
DeliveryStageInv ==
  \A w \in Worker :
    /\ stage[w] = "idle" <=> job[w] = NoTask
    /\ stage[w] = "schedule" => delay[w] = Delay(attempts[job[w]])

(* The remote server took an activity once more than it kept silent about  *)
(* exactly when nobody will send it again: from the accepted POST on.      *)
CopiesInv ==
  /\ \A a \in Task :
       /\ accepted[a] \in {uncertain[a], uncertain[a] + 1}
       /\ status[a] \in {"pending", "failed"} => accepted[a] = uncertain[a]
       /\ status[a] = "completed" => accepted[a] = uncertain[a] + 1
  /\ \A s \in Server : \A a \in Elems(batch[s]) \cup Elems(channel[s]) : accepted[a] = uncertain[a]
  /\ \A w \in Worker : job[w] # NoTask =>
       accepted[job[w]] = IF stage[w] = "complete" THEN uncertain[job[w]] + 1 ELSE uncertain[job[w]]

(* The backoff of n attempts has passed since the last POST of a row.      *)
Rested(a, n) == a \in posted => idle[a] >= Delay(n)

(* A row that may be POSTed again has rested, or will have when its        *)
(* next_run_at comes; a claim counts one attempt more.                     *)
RestInv ==
  /\ \A a \in Task :
       /\ status[a] = "pending" => a \notin posted
       /\ status[a] = "processing" => attempts[a] >= 1
       /\ status[a] = "failed" /\ a \in posted => wait[a] + idle[a] >= Delay(attempts[a])
  /\ \A s \in Server :
       /\ poller[s] = "claiming" => \A a \in Elems(batch[s]) : Rested(a, attempts[a])
       /\ poller[s] = "sending" => \A a \in Elems(batch[s]) : Rested(a, attempts[a] - 1)
       /\ \A a \in Elems(channel[s]) : Rested(a, attempts[a] - 1)
  /\ \A w \in Worker : stage[w] \in {"keys", "post"} => Rested(job[w], attempts[job[w]] - 1)

OutboundInv ==
  /\ OutboundTypeOK /\ EngineShape /\ HeldOnce
  /\ RowInv /\ DeliveryStageInv /\ CopiesInv /\ RestInv
=============================================================================
