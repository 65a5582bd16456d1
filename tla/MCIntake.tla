------------------------------ MODULE MCIntake -------------------------------
(* Two activities about notes that name one remote thread, the one here,   *)
(* the other elsewhere.  The thread lists the first note, the second       *)
(* activity in full, and a reply by reference.  The first activity is      *)
(* posted again for a second tenant.                                       *)
EXTENDS Intake, TLC

CONSTANTS r1, r2, r3, r4, p1, p2, near, far, like, boost, reply, note, post, blank,
          t1, t2, nowhere, f1, f2

MCSiteOf == r1 :> near @@ r2 :> near @@ r3 :> near @@ r4 :> far
MCNames == r1 :> like @@ r2 :> like @@ r3 :> boost @@ r4 :> boost
MCTenantOf == r1 :> t1 @@ r2 :> t2 @@ r3 :> t1 @@ r4 :> t1
MCEntry == r1 :> p1 @@ r2 :> p1 @@ r3 :> p1 @@ r4 :> p2
MCObjectOf == like :> note @@ boost :> post @@ [i \in {reply, note, post, blank} |-> i]
MCOwner == [i \in {like, boost, reply, note, post, blank} |-> IF i = note THEN t1 ELSE nowhere]
MCCollection == <<[iri |-> note, inline |-> FALSE],
                  [iri |-> boost, inline |-> TRUE],
                  [iri |-> reply, inline |-> FALSE]>>
MCHome == f1 :> p1 @@ f2 :> p2

(* bound: workers take rows when the clock has stopped, for the limiter    *)
(* and the backfill share no state; the second post of the first activity  *)
(* comes after the first, and boost comes once, by one way or the other.   *)
Late ==
  /\ now = MaxTime \/ \A i \in Iri : queue[i].status # "done"
  /\ req[r2] # "new" => req[r1] # "new"
  /\ req[r3] = "new" \/ req[r4] = "new"

==============================================================================
