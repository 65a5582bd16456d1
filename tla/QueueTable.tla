------------------------------ MODULE QueueTable ------------------------------
(***************************************************************************)
(* What the two queue tables have in common: the status column of a row,   *)
(* the place of each worker in its runFn, and the statements that fail     *)
(* because the context is cancelled or because something disrupts the      *)
(* database.  InboundQueue and OutboundQueue extend it with their columns, *)
(* their claim and their runFn.                                            *)
(***************************************************************************)
EXTENDS BatchEngine

CONSTANT MaxDisruptions   \* bound: database errors, shutdowns and crashes in a behaviour

ASSUME DisruptionsAssumption == MaxDisruptions \in Nat

VARIABLES
  status,       \* the status column of the table, "absent" without a row
  stage,        \* where in runFn each worker is
  disruptions   \* history: disruptions so far

(* A statement on a cancelled context fails by itself; on a live one it    *)
(* fails only through a disruption.                                        *)
Disrupted == disruptions < MaxDisruptions /\ disruptions' = disruptions + 1
StatementFails(s) ==
  \/ engine[s] = "cancelled" /\ UNCHANGED disruptions
  \/ engine[s] = "running" /\ Disrupted
StatementSucceeds(s) == engine[s] = "running" /\ UNCHANGED disruptions

------------------------------------------------------------------------------
(* Who holds a row and what the table says of it agree: a row held by a    *)
(* poller, a channel or a worker is 'processing', and a row under an open  *)
(* claim transaction is still claimable.  A stale holder, or a claim that  *)
(* takes a row somebody still works on, breaks it.                         *)
HeldIsProcessing ==
  /\ \A a \in Held : status[a] = "processing"
  /\ \A a \in Locked : status[a] \in {"pending", "failed"}

(* The row of a task, by where the task is: part of the inductive          *)
(* invariant of either queue.                                              *)
RowInv ==
  /\ \A s \in Server :
       /\ \A a \in Elems(channel[s]) : status[a] = "processing"
       /\ poller[s] = "sending" => \A a \in Elems(batch[s]) : status[a] = "processing"
       /\ poller[s] = "claiming" => \A a \in Elems(batch[s]) : status[a] \in {"pending", "failed"}
  /\ \A w \in Worker : job[w] # NoTask => status[job[w]] = "processing"
=============================================================================
