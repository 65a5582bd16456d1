---------------------------- MODULE InboundLedger ----------------------------
(***************************************************************************)
(* What the ingestion pipeline promises of each activity, whatever         *)
(* servers, queues and workers do underneath: it is accepted once, handed  *)
(* to the domain service at most once, applied at most once, and after its *)
(* queue record is closed nothing happens to it any more.                  *)
(*                                                                         *)
(* It does not promise that a closed activity was handed over: see         *)
(* CompletedWasApplied in InboundQueue.                                    *)
(***************************************************************************)
EXTENDS Naturals

CONSTANT Task

VARIABLES
  accepted,   \* activities with a queue record
  calls,      \* how often each activity was given to the domain service
  applied,    \* activities the domain service accepted
  closed      \* activities whose queue record is completed

ledgerVars == <<accepted, calls, applied, closed>>

LedgerInit ==
  /\ accepted = {} /\ applied = {} /\ closed = {}
  /\ calls = [a \in Task |-> 0]

Accept(a) ==
  /\ a \notin accepted
  /\ accepted' = accepted \cup {a}
  /\ UNCHANGED <<calls, applied, closed>>

HandOver(a) ==
  /\ a \in accepted \ closed /\ calls[a] = 0
  /\ calls' = [calls EXCEPT ![a] = 1]
  /\ UNCHANGED <<accepted, applied, closed>>

Apply(a) ==
  /\ calls[a] = 1 /\ a \notin applied \cup closed
  /\ applied' = applied \cup {a}
  /\ UNCHANGED <<accepted, calls, closed>>

Close(a) ==
  /\ a \in accepted \ closed
  /\ closed' = closed \cup {a}
  /\ UNCHANGED <<accepted, calls, applied>>

LedgerNext == \E a \in Task : Accept(a) \/ HandOver(a) \/ Apply(a) \/ Close(a)

LedgerSpec == LedgerInit /\ [][LedgerNext]_ledgerVars
=============================================================================
