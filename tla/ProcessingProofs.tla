-------------------------- MODULE ProcessingProofs --------------------------
(***************************************************************************)
(* Proofs about Processing, for any workers, activities, actors and        *)
(* faults.  A step of a worker does one of three things to its task: it    *)
(* takes one, it goes on with it, or it ends it (StepHasShape).  Until the *)
(* commit the task is not stored, from then on it is, and everything told  *)
(* to others is told after it.                                             *)
(***************************************************************************)
EXTENDS Processing, TLAPS

Early == {"tombstoned", "validate", "former", "begin", "commit"}
Late == {"group", "edge", "answer", "expand", "record"}
Ending == {"done", "dropped", "refused", "failed"}

Takes(w, a) ==
  /\ run[w].stage = "idle" /\ run'[w].stage \in {"tombstoned", "validate"}
  /\ run'[w].task = a /\ outcome[a] = "queued" /\ outcome'[a] = "running"
  /\ \A v \in Worker : v # w => run'[v] = run[v]
  /\ \A b \in Activity : b # a => outcome'[b] = outcome[b]
  /\ versions' = versions

GoesOn(w) ==
  /\ run[w].stage # "idle" /\ run'[w].stage \in Stage \ {"idle"}
  /\ run'[w].task = run[w].task /\ outcome' = outcome
  /\ \A v \in Worker : v # w => run'[v] = run[v]
  /\ \/ versions' = versions /\ run[w].stage \in Early /\ run'[w].stage \in Early
     \/ versions' = versions /\ run[w].stage \in Late /\ run'[w].stage \in Late
     \/ /\ run[w].stage \in Early /\ run'[w].stage \in Late
        /\ versions \subseteq versions'
        /\ \A v \in versions' : v \in versions \/ v.activity = run[w].task
        /\ \E v \in versions' : v.activity = run[w].task

Ends(w) ==
  /\ run[w].stage # "idle" /\ run'[w].stage = "idle" /\ versions' = versions
  /\ \A v \in Worker : v # w => run'[v] = run[v]
  /\ \A a \in Activity : a # run[w].task => outcome'[a] = outcome[a]
  /\ outcome'[run[w].task] \in IF run[w].stage \in Late THEN {"done", "failed"}
                               ELSE {"dropped", "refused", "failed"}

(* What holds of the tasks under way. *)
Held == \A w \in Worker : run[w].stage # "idle" => run[w].task \in Activity /\ outcome[run[w].task] = "running"
Sole == \A v, w \in Worker : run[v].stage # "idle" /\ run[w].stage # "idle" /\ run[v].task = run[w].task => v = w
EarlyIsNotStored == \A w \in Worker : run[w].stage \in Early => ~ Stored(run[w].task)
LateIsStored == \A w \in Worker : run[w].stage \in Late => Stored(run[w].task)
StoredWasRun == \A a \in Activity : Stored(a) => outcome[a] \in {"running", "done", "failed"}

Course == Held /\ Sole /\ EarlyIsNotStored /\ LateIsStored /\ StoredWasRun

------------------------------------------------------------------------------
(* Typing. *)

(* One field of one worker's record. *)
LEMMA SetStage ==
  ASSUME NEW r \in [Worker -> RunState], NEW w \in Worker, NEW s \in Stage, NEW q,
         q = [r EXCEPT ![w].stage = s]
  PROVE  /\ q \in [Worker -> RunState]
         /\ q[w].stage = s /\ q[w].task = r[w].task
         /\ \A v \in Worker : v # w => q[v] = r[v]
BY DEF RunState

LEMMA SetRun ==
  ASSUME NEW r \in [Worker -> RunState], NEW w \in Worker, NEW x \in RunState, NEW q,
         q = [r EXCEPT ![w] = x]
  PROVE  /\ q \in [Worker -> RunState] /\ q[w] = x
         /\ \A v \in Worker : v # w => q[v] = r[v]
OBVIOUS

LEMMA IdleTyped == Idle \in RunState
BY DEF Idle, RunState, Stage, Former

LEMMA GotoShape ==
  ASSUME TypeOK, NEW w \in Worker, NEW s \in Stage, Goto(w, s)
  PROVE  /\ run' \in [Worker -> RunState] /\ outcome' = outcome
         /\ run'[w].stage = s /\ run'[w].task = run[w].task
         /\ \A v \in Worker : v # w => run'[v] = run[v]
<1>1. run \in [Worker -> RunState] /\ run' = [run EXCEPT ![w].stage = s]
  BY DEF TypeOK, Goto
<1> HIDE DEF RunState
<1>2. run' \in [Worker -> RunState] /\ run'[w].stage = s /\ run'[w].task = run[w].task
      /\ \A v \in Worker : v # w => run'[v] = run[v]
  BY <1>1, SetStage
<1> QED
  BY <1>2 DEF Goto

LEMMA FinishShape ==
  ASSUME TypeOK, NEW w \in Worker, NEW o \in Ending, Finish(w, o), run[w].task \in Activity
  PROVE  /\ run' \in [Worker -> RunState] /\ run'[w] = Idle
         /\ \A v \in Worker : v # w => run'[v] = run[v]
         /\ outcome' \in [Activity -> {"queued", "running", "done", "dropped", "refused", "failed"}]
         /\ outcome'[run[w].task] = o
         /\ \A a \in Activity : a # run[w].task => outcome'[a] = outcome[a]
<1>1. run \in [Worker -> RunState] /\ run' = [run EXCEPT ![w] = Idle]
  BY DEF TypeOK, Finish
<1>2. run' \in [Worker -> RunState] /\ run'[w] = Idle /\ \A v \in Worker : v # w => run'[v] = run[v]
  BY <1>1, SetRun, IdleTyped
<1>3. outcome' = [outcome EXCEPT ![run[w].task] = o]
  BY DEF Finish, Task
<1> QED
  BY <1>2, <1>3 DEF TypeOK, Ending

------------------------------------------------------------------------------
(* Every step has one of the three shapes, and keeps the types. *)

RunTypes == run \in [Worker -> RunState]
OutcomeTypes == outcome \in [Activity -> {"queued", "running", "done", "dropped", "refused", "failed"}]

LEMMA StageSets == Early \cup Late = Stage \ {"idle"} /\ Early \cap Late = {}
BY DEF Early, Late, Stage

LEMMA GotoIsShape ==
  ASSUME TypeOK, NEW w \in Worker, NEW s \in Stage, Goto(w, s), versions' = versions,
         \/ run[w].stage \in Early /\ s \in Early
         \/ run[w].stage \in Late /\ s \in Late
  PROVE  GoesOn(w) /\ RunTypes' /\ OutcomeTypes'
BY GotoShape, StageSets DEF GoesOn, RunTypes, OutcomeTypes, TypeOK, Early, Late, Stage

LEMMA FinishIsShape ==
  ASSUME TypeOK, Held, NEW w \in Worker, NEW o \in Ending, Finish(w, o), versions' = versions,
         run[w].stage # "idle",
         \/ run[w].stage \in Late /\ o \in {"done", "failed"}
         \/ run[w].stage \notin Late /\ o \in {"dropped", "refused", "failed"}
  PROVE  Ends(w) /\ RunTypes' /\ OutcomeTypes'
<1>1. run[w].task \in Activity
  BY DEF Held
<1>2. /\ run' \in [Worker -> RunState] /\ run'[w] = Idle
      /\ \A v \in Worker : v # w => run'[v] = run[v]
      /\ outcome' \in [Activity -> {"queued", "running", "done", "dropped", "refused", "failed"}]
      /\ outcome'[run[w].task] = o
      /\ \A a \in Activity : a # run[w].task => outcome'[a] = outcome[a]
  BY <1>1, FinishShape
<1>3. run'[w].stage = "idle"
  BY <1>2 DEF Idle
<1> QED
  BY <1>2, <1>3 DEF Ends, RunTypes, OutcomeTypes

LEMMA StartIsShape ==
  ASSUME TypeOK, NEW w \in Worker, NEW a \in Activity, Start(w, a)
  PROVE  Takes(w, a) /\ RunTypes' /\ OutcomeTypes'
<1> DEFINE s == IF Doc[a].type = "Delete" THEN "tombstoned" ELSE "validate"
           x == [Idle EXCEPT !.task = a, !.stage = s]
<1>1. s \in {"tombstoned", "validate"}
  OBVIOUS
<1>2. run \in [Worker -> RunState] /\ run' = [run EXCEPT ![w] = x]
  BY DEF TypeOK, Start
<1>3. x \in RunState /\ x.stage = s /\ x.task = a
  BY <1>1 DEF Idle, RunState, Stage, Former
<1> HIDE DEF s, x
<1>4. run' \in [Worker -> RunState] /\ run'[w] = x /\ \A v \in Worker : v # w => run'[v] = run[v]
  BY <1>2, <1>3, SetRun
<1>5. outcome' = [outcome EXCEPT ![a] = "running"] /\ outcome[a] = "queued" /\ run[w].stage = "idle"
      /\ versions' = versions
  BY DEF Start, At, tables
<1> QED
  BY <1>1, <1>3, <1>4, <1>5 DEF Takes, RunTypes, OutcomeTypes, TypeOK

LEMMA ValidateIsShape ==
  ASSUME TypeOK, Held, NEW w \in Worker, CheckTombstone(w) \/ Validate(w)
  PROVE  (GoesOn(w) \/ Ends(w)) /\ RunTypes' /\ OutcomeTypes'
<1>1. versions' = versions /\ run[w].stage \in {"tombstoned", "validate"}
  BY DEF CheckTombstone, Validate, At, tables
<1>2. \/ \E s \in {"validate", "former", "begin"} : Goto(w, s)
      \/ \E o \in {"dropped", "refused"} : Finish(w, o)
  BY DEF CheckTombstone, Validate
<1>3. CASE \E s \in {"validate", "former", "begin"} : Goto(w, s)
  <2>1. PICK s \in {"validate", "former", "begin"} : Goto(w, s)
    BY <1>3
  <2>2. s \in Stage /\ s \in Early /\ run[w].stage \in Early
    BY <1>1 DEF Stage, Early
  <2> QED
    BY <1>1, <2>1, <2>2, GotoIsShape
<1>4. CASE \E o \in {"dropped", "refused"} : Finish(w, o)
  <2>1. PICK o \in {"dropped", "refused"} : Finish(w, o)
    BY <1>4
  <2>2. o \in Ending /\ run[w].stage \notin Late /\ run[w].stage # "idle"
    BY <1>1 DEF Ending, Late
  <2> QED
    BY <1>1, <2>1, <2>2, FinishIsShape
<1> QED
  BY <1>2, <1>3, <1>4

LEMMA FormerIsFormer ==
  ASSUME TypeOK, NEW o, NEW f \in FormerType(o)
  PROVE  f \in Former
<1>1. CASE Versions(o) = {}
  BY <1>1 DEF FormerType, Former
<1>2. CASE Versions(o) # {}
  <2>1. PICK v \in Latest(o) : f = IF v.kind = "Tombstone" THEN v.kind ELSE Doc[v.activity].type
    BY <1>2 DEF FormerType
  <2>2. v.activity \in Activity
    BY <2>1 DEF Latest, Versions, TypeOK, Version
  <2>3. Doc[v.activity].type \in Verb
    BY <2>2, ProcessingAssumption
  <2> QED
    BY <2>1, <2>3 DEF Former
<1> QED
  BY <1>1, <1>2

LEMMA SaveIsShape ==
  ASSUME TypeOK, Held, NEW w \in Worker, ReadFormer(w) \/ Begin(w) \/ Commit(w)
  PROVE  GoesOn(w) /\ RunTypes' /\ OutcomeTypes'
<1>1. run \in [Worker -> RunState] /\ run[w].at \in Nat
  BY DEF TypeOK, RunState
<1>2. CASE ReadFormer(w)
  <2>1. run[w].stage = "former" /\ outcome' = outcome /\ versions' = versions
    BY <1>2 DEF ReadFormer, At, tables
  <2>2. "begin" \in Stage /\ run[w].stage \in Early /\ "begin" \in Early /\ "begin" # "idle"
    BY <2>1 DEF Stage, Early
  <2>3. run' \in [Worker -> RunState] /\ run'[w].stage = "begin" /\ run'[w].task = run[w].task
        /\ \A v \in Worker : v # w => run'[v] = run[v]
    <3>1. CASE run' = [run EXCEPT ![w].stage = "begin"]
      BY <1>1, <2>2, <3>1, SetStage
    <3>2. CASE \E f \in FormerType(Data(w).object) :
                 run' = [run EXCEPT ![w].stage = "begin", ![w].former = f]
      <4>1. PICK f \in FormerType(Data(w).object) :
                 run' = [run EXCEPT ![w].stage = "begin", ![w].former = f]
        BY <3>2
      <4>2. f \in Former
        BY <4>1, FormerIsFormer
      <4> QED
        BY <1>1, <2>2, <4>1, <4>2 DEF RunState
    <3> QED
      BY <1>2, <3>1, <3>2 DEF ReadFormer
  <2> QED
    BY <2>1, <2>2, <2>3 DEF GoesOn, RunTypes, OutcomeTypes, TypeOK
<1>3. CASE Begin(w)
  <2>1. run[w].stage = "begin" /\ outcome' = outcome /\ versions' = versions
        /\ run' = [run EXCEPT ![w].stage = "commit", ![w].at = clock'[Data(w).object]]
        /\ clock' = [clock EXCEPT ![Data(w).object] = @ + 1]
    BY <1>3 DEF Begin, At
  <2>2. "commit" \in Stage /\ run[w].stage \in Early /\ "commit" \in Early /\ "commit" # "idle"
    BY <2>1 DEF Stage, Early
  <2>3. clock'[Data(w).object] \in Nat
    <3>1. Data(w).object \in ObjectIRI
      BY <2>1, ProcessingAssumption DEF Held, Data, Task
    <3> QED
      BY <2>1, <3>1 DEF TypeOK
  <2>4. run' \in [Worker -> RunState] /\ run'[w].stage = "commit" /\ run'[w].task = run[w].task
        /\ \A v \in Worker : v # w => run'[v] = run[v]
    <3>1. PICK n \in Nat : run' = [run EXCEPT ![w].stage = "commit", ![w].at = n]
      BY <2>1, <2>3
    <3> QED
      BY <1>1, <2>2, <3>1 DEF RunState
  <2> QED
    BY <2>1, <2>2, <2>4 DEF GoesOn, RunTypes, OutcomeTypes, TypeOK
<1>4. CASE Commit(w)
  <2>1. run[w].stage = "commit" /\ Goto(w, AfterSave(w))
    BY <1>4 DEF Commit, At
  <2>2. AfterSave(w) \in Stage /\ AfterSave(w) \in Late /\ run[w].stage \in Early /\ AfterSave(w) # "idle"
    BY <2>1 DEF AfterSave, Stage, Late, Early
  <2>3. /\ run' \in [Worker -> RunState] /\ outcome' = outcome
        /\ run'[w].stage = AfterSave(w) /\ run'[w].task = run[w].task
        /\ \A v \in Worker : v # w => run'[v] = run[v]
    BY <2>1, <2>2, GotoShape
  <2>4. /\ versions \subseteq versions'
        /\ \A v \in versions' : v \in versions \/ v.activity = run[w].task
        /\ \E v \in versions' : v.activity = run[w].task
    <3>1. PICK n : versions' = versions \cup {n} /\ n.activity = run[w].task
      <4> DEFINE n == [object |-> Data(w).object, activity |-> Task(w), at |-> run[w].at,
                       former |-> run[w].former,
                       kind |-> IF Data(w).type = "Delete" THEN "Tombstone" ELSE "payload"]
      <4>1. versions' = versions \cup {n}
        BY <1>4 DEF Commit
      <4>2. n.activity = run[w].task
        BY DEF Task
      <4> HIDE DEF n
      <4> QED
        BY <4>1, <4>2
    <3> QED
      BY <3>1
  <2> QED
    BY <2>1, <2>2, <2>3, <2>4 DEF GoesOn, RunTypes, OutcomeTypes, TypeOK
<1> QED
  BY <1>2, <1>3, <1>4

LEMMA GroupIsShape ==
  ASSUME TypeOK, Held, NEW w \in Worker, ReadGroup(w) \/ WriteEdge(w) \/ AnswerGroup(w)
  PROVE  (GoesOn(w) \/ Ends(w)) /\ RunTypes' /\ OutcomeTypes'
<1>1. versions' = versions /\ run[w].stage \in {"group", "edge", "answer"}
  BY DEF ReadGroup, WriteEdge, AnswerGroup, At, tables
<1>2. \/ \E s \in {"edge", "answer", "expand"} : Goto(w, s)
      \/ \E o \in {"done", "failed"} : Finish(w, o)
  BY DEF ReadGroup, WriteEdge, AnswerGroup
<1>3. CASE \E s \in {"edge", "answer", "expand"} : Goto(w, s)
  <2>1. PICK s \in {"edge", "answer", "expand"} : Goto(w, s)
    BY <1>3
  <2>2. s \in Stage /\ s \in Late /\ run[w].stage \in Late
    BY <1>1 DEF Stage, Late
  <2> QED
    BY <1>1, <2>1, <2>2, GotoIsShape
<1>4. CASE \E o \in {"done", "failed"} : Finish(w, o)
  <2>1. PICK o \in {"done", "failed"} : Finish(w, o)
    BY <1>4
  <2>2. o \in Ending /\ run[w].stage \in Late /\ run[w].stage # "idle"
    BY <1>1 DEF Ending, Late
  <2> QED
    BY <1>1, <2>1, <2>2, FinishIsShape
<1> QED
  BY <1>2, <1>3, <1>4

LEMMA DeliveryIsShape ==
  ASSUME TypeOK, Held, NEW w \in Worker, Expand(w) \/ RecordDelivery(w) \/ Forward(w)
  PROVE  (GoesOn(w) \/ Ends(w)) /\ RunTypes' /\ OutcomeTypes'
<1>1. run \in [Worker -> RunState] /\ run[w].todo \in SUBSET LocalActor
  BY DEF TypeOK, RunState
<1>2. versions' = versions /\ run[w].stage \in {"expand", "record"}
  BY DEF Expand, RecordDelivery, Forward, At, tables
<1>3. run[w].stage \in Late /\ run[w].stage # "idle" /\ "record" \in Late /\ "record" \in Stage
  BY <1>2 DEF Late, Stage
<1>4. CASE Expand(w) \/ RecordDelivery(w)
  <2>1. outcome' = outcome
    BY <1>4 DEF Expand, RecordDelivery
  <2>2. run[w].stage = "expand" \/ run[w].stage = "record"
    BY <1>2
  <2>3. PICK T \in SUBSET LocalActor :
          \/ run' = [run EXCEPT ![w].stage = "record", ![w].todo = T]
          \/ run[w].stage = "record" /\ run' = [run EXCEPT ![w].todo = T]
    <3>1. CASE Expand(w)
      BY <3>1 DEF Expand
    <3>2. CASE RecordDelivery(w)
      <4>1. PICK r \in run[w].todo : run' = [run EXCEPT ![w].todo = @ \ {r}]
        BY <3>2 DEF RecordDelivery
      <4>2. run' = [run EXCEPT ![w].todo = run[w].todo \ {r}]
        BY <1>1, <4>1 DEF RunState
      <4> QED
        BY <1>1, <3>2, <4>2 DEF RecordDelivery, At
    <3> QED
      BY <1>4, <3>1, <3>2
  <2>4. run' \in [Worker -> RunState] /\ run'[w].stage = "record" /\ run'[w].task = run[w].task
        /\ \A v \in Worker : v # w => run'[v] = run[v]
    BY <1>1, <1>3, <2>3 DEF RunState
  <2> QED
    BY <1>2, <1>3, <2>1, <2>4, StageSets DEF GoesOn, RunTypes, OutcomeTypes, TypeOK
<1>5. CASE Forward(w)
  <2>1. Finish(w, "done") /\ "done" \in Ending
    BY <1>5 DEF Forward, Ending
  <2> QED
    BY <1>2, <1>3, <2>1, FinishIsShape
<1> QED
  BY <1>4, <1>5

LEMMA StopIsShape ==
  ASSUME TypeOK, Held, NEW w \in Worker, Stop(w)
  PROVE  Ends(w) /\ RunTypes' /\ OutcomeTypes'
<1>1. versions' = versions /\ run[w].stage # "idle" /\ Finish(w, "failed") /\ "failed" \in Ending
  BY DEF Stop, At, tables, Ending
<1> QED
  BY <1>1, FinishIsShape

(* Every step of Next is one of a single worker and has a shape. *)
Step(w) ==
  \/ \E a \in Activity : Start(w, a)
  \/ Stop(w) \/ CheckTombstone(w) \/ Validate(w) \/ ReadFormer(w) \/ Begin(w) \/ Commit(w)
  \/ ReadGroup(w) \/ WriteEdge(w) \/ AnswerGroup(w)
  \/ Expand(w) \/ RecordDelivery(w) \/ Forward(w)

LEMMA NextIsStep == Next <=> \E w \in Worker : Step(w)
BY DEF Next, Step

LEMMA StepHasShape ==
  ASSUME TypeOK, Held, NEW w \in Worker, Step(w)
  PROVE  ((\E a \in Activity : Takes(w, a)) \/ GoesOn(w) \/ Ends(w)) /\ RunTypes' /\ OutcomeTypes'
BY StartIsShape, StopIsShape, ValidateIsShape, SaveIsShape, GroupIsShape, DeliveryIsShape DEF Step

------------------------------------------------------------------------------
(* The course of the tasks is kept by every shape. *)

LEMMA TakesKeepsCourse ==
  ASSUME Course, NEW w \in Worker, NEW a \in Activity, Takes(w, a)
  PROVE  Course'
<1>1. /\ run[w].stage = "idle" /\ run'[w].stage \in {"tombstoned", "validate"}
      /\ run'[w].task = a /\ outcome[a] = "queued" /\ outcome'[a] = "running"
      /\ \A v \in Worker : v # w => run'[v] = run[v]
      /\ \A b \in Activity : b # a => outcome'[b] = outcome[b]
      /\ versions' = versions
  BY DEF Takes
<1>2. \A v \in Worker : run[v].stage # "idle" => run[v].task # a
  BY <1>1 DEF Course, Held
<1>3. \A b : Stored(b)' <=> Stored(b)
  BY <1>1 DEF Stored
<1>4. ~ Stored(a)
  BY <1>1 DEF Course, StoredWasRun
<1>5. Held'
  BY <1>1, <1>2 DEF Course, Held
<1>6. Sole'
  BY <1>1, <1>2 DEF Course, Sole
<1>7. EarlyIsNotStored'
  BY <1>1, <1>3, <1>4 DEF Course, EarlyIsNotStored
<1>8. LateIsStored'
  BY <1>1, <1>3 DEF Course, LateIsStored, Late
<1>9. StoredWasRun'
  BY <1>1, <1>3 DEF Course, StoredWasRun
<1> QED
  BY <1>5, <1>6, <1>7, <1>8, <1>9 DEF Course

LEMMA GoesOnKeepsCourse ==
  ASSUME Course, NEW w \in Worker, GoesOn(w)
  PROVE  Course'
<1>1. /\ run[w].stage # "idle" /\ run'[w].stage # "idle"
      /\ run'[w].task = run[w].task /\ outcome' = outcome
      /\ \A v \in Worker : v # w => run'[v] = run[v]
  BY DEF GoesOn
<1>2. versions \subseteq versions' /\ \A v \in versions' : v \in versions \/ v.activity = run[w].task
  BY DEF GoesOn
<1>3. \A b : /\ Stored(b) => Stored(b)'
             /\ b # run[w].task => (Stored(b)' <=> Stored(b))
  BY <1>2 DEF Stored
<1>4. \A v \in Worker : v # w /\ run[v].stage # "idle" => run[v].task # run[w].task
  BY <1>1 DEF Course, Sole
<1>5. /\ run'[w].stage \in Early => ~ Stored(run[w].task)'
      /\ run'[w].stage \in Late => Stored(run[w].task)'
  <2>1. CASE run[w].stage \in Early /\ run'[w].stage \in Early /\ versions' = versions
    BY <2>1, <1>1, StageSets DEF Stored, Course, EarlyIsNotStored
  <2>2. CASE run[w].stage \in Late /\ run'[w].stage \in Late /\ versions' = versions
    BY <2>2, <1>1, StageSets DEF Stored, Course, LateIsStored
  <2>3. CASE run'[w].stage \in Late /\ \E v \in versions' : v.activity = run[w].task
    BY <2>3, <1>1, StageSets DEF Stored
  <2> QED
    BY <2>1, <2>2, <2>3 DEF GoesOn
<1>6. Held'
  BY <1>1 DEF Course, Held
<1>7. Sole'
  BY <1>1, <1>4 DEF Course, Sole
<1>8. EarlyIsNotStored'
  BY <1>1, <1>3, <1>4, <1>5 DEF Course, EarlyIsNotStored, Early
<1>9. LateIsStored'
  BY <1>1, <1>3, <1>5 DEF Course, LateIsStored
<1>10. StoredWasRun'
  BY <1>1, <1>3 DEF Course, StoredWasRun, Held
<1> QED
  BY <1>6, <1>7, <1>8, <1>9, <1>10 DEF Course

LEMMA EndsKeepsCourse ==
  ASSUME TypeOK, Course, NEW w \in Worker, Ends(w)
  PROVE  Course'
<1>1. /\ run[w].stage # "idle" /\ run'[w].stage = "idle" /\ versions' = versions
      /\ \A v \in Worker : v # w => run'[v] = run[v]
      /\ \A a \in Activity : a # run[w].task => outcome'[a] = outcome[a]
  BY DEF Ends
<1>2. \A b : Stored(b)' <=> Stored(b)
  BY <1>1 DEF Stored
<1>3. \A v \in Worker : v # w /\ run[v].stage # "idle" => run[v].task # run[w].task
  BY <1>1 DEF Course, Sole
<1>4. Held'
  BY <1>1, <1>3 DEF Course, Held
<1>5. Sole'
  BY <1>1 DEF Course, Sole
<1>6. EarlyIsNotStored' /\ LateIsStored'
  BY <1>1, <1>2 DEF Course, EarlyIsNotStored, LateIsStored, Early, Late
<1>7. StoredWasRun'
  <2>1. Stored(run[w].task) => outcome'[run[w].task] \in {"done", "failed"}
    <3>1. CASE run[w].stage \in Late
      BY <3>1 DEF Ends
    <3>2. CASE run[w].stage \in Early
      BY <3>2 DEF Course, EarlyIsNotStored
    <3>3. run[w].stage \in Early \cup Late
      BY <1>1, StageSets DEF TypeOK, RunState
    <3> QED
      BY <3>1, <3>2, <3>3
  <2> QED
    BY <1>1, <1>2, <2>1 DEF Course, StoredWasRun
<1> QED
  BY <1>4, <1>5, <1>6, <1>7 DEF Course

------------------------------------------------------------------------------
(* What one step does to the tables beside versions. *)

Pair(a) == <<Doc[a].object, Doc[a].actor>>

LEMMA EdgeEffect ==
  ASSUME NEW w \in Worker, Step(w)
  PROVE  \/ edge' = edge
         \/ run[w].stage = "edge" /\ Doc[run[w].task].type = "Join"
              /\ edge' = edge \cup {Pair(run[w].task)}
         \/ run[w].stage = "edge" /\ Doc[run[w].task].type # "Join"
              /\ edge' = edge \ {Pair(run[w].task)}
<1>1. CASE WriteEdge(w)
  BY <1>1 DEF WriteEdge, At, Data, Task, Pair
<1>2. CASE ~ WriteEdge(w)
  BY <1>2 DEF Step, Start, Stop, CheckTombstone, Validate, ReadFormer, Begin, Commit, ReadGroup,
              AnswerGroup, Expand, RecordDelivery, Forward, tables
<1> QED
  BY <1>1, <1>2

LEMMA SentEffect ==
  ASSUME NEW w \in Worker, Step(w)
  PROVE  \/ sent' = sent
         \/ run[w].stage = "answer" /\ Doc[run[w].task].type \in {"Join", "Leave"}
              /\ sent' = sent \cup {<<"Accept", run[w].task>>}
         \/ run[w].stage = "answer" /\ Doc[run[w].task].type \notin {"Join", "Leave"}
              /\ sent' = sent \cup {<<"Announce", run[w].task>>}
         \/ run[w].stage = "record" /\ sent' = sent \cup {<<"Forward", run[w].task>>}
<1>1. CASE AnswerGroup(w)
  BY <1>1 DEF AnswerGroup, AnswerKind, At, Data, Task
<1>2. CASE Forward(w)
  BY <1>2 DEF Forward, At, Data, Task
<1>3. CASE ~ AnswerGroup(w) /\ ~ Forward(w)
  BY <1>3 DEF Step, Start, Stop, CheckTombstone, Validate, ReadFormer, Begin, Commit, ReadGroup,
              WriteEdge, Expand, RecordDelivery, tables
<1> QED
  BY <1>1, <1>2, <1>3

LEMMA InboxEffect ==
  ASSUME NEW w \in Worker, Step(w)
  PROVE  \/ inbox' = inbox /\ blind' = blind
         \/ /\ run[w].stage = "record"
            /\ \E r \in run[w].todo :
                 \/ inbox' = inbox \cup {<<r, run[w].task>>} /\ blind' = blind
                 \/ blind' = blind \cup {<<r, run[w].task>>} /\ inbox' = inbox
<1>1. CASE RecordDelivery(w)
  BY <1>1 DEF RecordDelivery, At, Task
<1>2. CASE ~ RecordDelivery(w)
  BY <1>2 DEF Step, Start, Stop, CheckTombstone, Validate, ReadFormer, Begin, Commit, ReadGroup,
              WriteEdge, AnswerGroup, Expand, Forward, tables
<1> QED
  BY <1>1, <1>2

LEMMA FaultsEffect ==
  ASSUME NEW w \in Worker, Step(w)
  PROVE  faults' = faults \/ (faults < MaxFaults /\ faults' = faults + 1)
<1>1. CASE Expand(w)
  BY <1>1 DEF Expand
<1>2. CASE ~ Expand(w)
  BY <1>2 DEF Step, Start, Stop, CheckTombstone, Validate, ReadFormer, Begin, Commit, ReadGroup,
              WriteEdge, AnswerGroup, RecordDelivery, Forward, Faulty
<1> QED
  BY <1>1, <1>2

LEMMA ClockEffect ==
  ASSUME TypeOK, Held, NEW w \in Worker, Step(w)
  PROVE  clock' \in [ObjectIRI -> Nat]
<1>1. CASE Begin(w)
  <2>1. Data(w).object \in ObjectIRI
    BY <1>1, ProcessingAssumption DEF Held, Begin, At, Data, Task
  <2>2. clock' = [clock EXCEPT ![Data(w).object] = clock[Data(w).object] + 1]
    BY <1>1 DEF Begin
  <2> HIDE DEF ObjectIRI
  <2> QED
    BY <2>1, <2>2 DEF TypeOK
<1>2. CASE ~ Begin(w)
  BY <1>2 DEF Step, Start, Stop, CheckTombstone, Validate, ReadFormer, Commit, ReadGroup,
              WriteEdge, AnswerGroup, Expand, RecordDelivery, Forward, tables, TypeOK
<1> QED
  BY <1>1, <1>2

LEMMA VersionsEffect ==
  ASSUME TypeOK, Held, NEW w \in Worker, Step(w)
  PROVE  versions' \subseteq Version
<1>1. CASE Commit(w)
  <2> DEFINE n == [object |-> Data(w).object, activity |-> Task(w), at |-> run[w].at,
                   former |-> run[w].former,
                   kind |-> IF Data(w).type = "Delete" THEN "Tombstone" ELSE "payload"]
  <2>1. versions' = versions \cup {n}
    BY <1>1 DEF Commit
  <2>2. run[w].task \in Activity
    BY <1>1 DEF Held, Commit, At
  <2>3. Data(w).object \in ObjectIRI
    BY <2>2, ProcessingAssumption DEF Data, Task
  <2>4. run[w].at \in Nat /\ run[w].former \in Former
    BY DEF TypeOK, RunState
  <2>5. n \in Version
    BY <2>2, <2>3, <2>4 DEF Version, Task
  <2> HIDE DEF n
  <2> QED
    BY <2>1, <2>5 DEF TypeOK
<1>2. CASE ~ Commit(w)
  BY <1>2 DEF Step, Start, Stop, CheckTombstone, Validate, ReadFormer, Begin, ReadGroup,
              WriteEdge, AnswerGroup, Expand, RecordDelivery, Forward, tables, TypeOK
<1> QED
  BY <1>1, <1>2

------------------------------------------------------------------------------
(* The stages that write: only a Join or a Leave of a group is at "edge",  *)
(* what is at "answer" has a group as its object, and at "record" every    *)
(* local addressee is still to be told, told, or was passed over.          *)

AtEdge == \A w \in Worker : run[w].stage = "edge" =>
            Doc[run[w].task].object \in Group /\ Doc[run[w].task].type \in {"Join", "Leave"}
AtAnswer == \A w \in Worker : run[w].stage = "answer" => Doc[run[w].task].object \in Group
AtRecord == \A w \in Worker : run[w].stage = "record" =>
              \A r \in Targets(run[w].task) \cap LocalActor :
                r \in run[w].todo \/ <<r, run[w].task>> \in inbox \cup blind

LEMMA TypesStep ==
  ASSUME TypeOK, Held, AtEdge, NEW w \in Worker, Step(w)
  PROVE  TypeOK'
<1>1. RunTypes' /\ OutcomeTypes'
  BY StepHasShape
<1>2. versions' \subseteq Version /\ clock' \in [ObjectIRI -> Nat]
  BY VersionsEffect, ClockEffect
<1>3. faults' \in 0..MaxFaults
  BY FaultsEffect, ProcessingAssumption DEF TypeOK
<1>4. edge' \subseteq LocalActor \X Actor
  <2>1. CASE run[w].stage = "edge"
    <3>1. run[w].task \in Activity /\ Doc[run[w].task].object \in Group
      BY <2>1 DEF Held, AtEdge
    <3>2. Pair(run[w].task) \in LocalActor \X Actor
      BY <3>1, ProcessingAssumption DEF Pair
    <3> QED
      BY <3>2, EdgeEffect DEF TypeOK
  <2>2. CASE run[w].stage # "edge"
    BY <2>2, EdgeEffect DEF TypeOK
  <2> QED
    BY <2>1, <2>2
<1>5. sent' \subseteq Answer \X Activity
  <2>1. CASE run[w].stage \in {"answer", "record"}
    <3>1. run[w].task \in Activity
      BY <2>1 DEF Held
    <3>2. \A k \in Answer : <<k, run[w].task>> \in Answer \X Activity
      BY <3>1
    <3>3. "Accept" \in Answer /\ "Announce" \in Answer /\ "Forward" \in Answer
      BY DEF Answer
    <3> QED
      BY <3>2, <3>3, SentEffect DEF TypeOK
  <2>2. CASE run[w].stage \notin {"answer", "record"}
    BY <2>2, SentEffect DEF TypeOK
  <2> QED
    BY <2>1, <2>2
<1>6. inbox' \subseteq LocalActor \X Activity /\ blind' \subseteq LocalActor \X Activity
  <2>1. CASE run[w].stage = "record"
    <3>1. run[w].task \in Activity
      BY <2>1 DEF Held
    <3>2. run[w].todo \subseteq LocalActor
      BY DEF TypeOK, RunState
    <3>3. \A r \in run[w].todo : <<r, run[w].task>> \in LocalActor \X Activity
      BY <3>1, <3>2
    <3> QED
      BY <3>3, InboxEffect DEF TypeOK
  <2>2. CASE run[w].stage # "record"
    BY <2>2, InboxEffect DEF TypeOK
  <2> QED
    BY <2>1, <2>2
<1> QED
  BY <1>1, <1>2, <1>3, <1>4, <1>5, <1>6 DEF TypeOK, RunTypes, OutcomeTypes

LEMMA FinishIsIdle ==
  ASSUME TypeOK, NEW w \in Worker, NEW o, Finish(w, o)
  PROVE  run'[w].stage = "idle"
BY DEF TypeOK, Finish, Idle

(* Only these steps lead to the stages that write. *)
LEMMA StageEffect ==
  ASSUME TypeOK, Held, NEW w \in Worker, Step(w), run'[w].stage \in {"edge", "answer", "record"}
  PROVE  ReadGroup(w) \/ WriteEdge(w) \/ Expand(w) \/ RecordDelivery(w)
<1>1. CASE \E a \in Activity : Start(w, a)
  BY <1>1, StartIsShape DEF Takes
<1>2. CASE Stop(w) \/ Forward(w)
  <2>1. \E o : Finish(w, o)
    BY <1>2 DEF Stop, Forward
  <2> QED
    BY <2>1, FinishIsIdle
<1>3. CASE CheckTombstone(w) \/ Validate(w)
  <2>1. (\E o : Finish(w, o)) \/ \E s \in {"validate", "former", "begin"} : Goto(w, s)
    BY <1>3 DEF CheckTombstone, Validate
  <2>2. {"validate", "former", "begin"} \subseteq Stage
    BY DEF Stage
  <2> QED
    BY <2>1, <2>2, FinishIsIdle, GotoShape
<1>4. CASE ReadFormer(w) \/ Begin(w)
  <2>1. run'[w].stage \in {"begin", "commit"}
    BY <1>4 DEF ReadFormer, Begin, TypeOK, RunState
  <2> QED
    BY <2>1
<1>5. CASE Commit(w) \/ AnswerGroup(w)
  <2>1. (\E o : Finish(w, o)) \/ \E s \in {"group", "expand"} : Goto(w, s)
    BY <1>5 DEF Commit, AfterSave, AnswerGroup
  <2>2. {"group", "expand"} \subseteq Stage
    BY DEF Stage
  <2> QED
    BY <2>1, <2>2, FinishIsIdle, GotoShape
<1> QED
  BY <1>1, <1>2, <1>3, <1>4, <1>5 DEF Step

LEMMA AtEdgeStep ==
  ASSUME TypeOK, Held, AtEdge, NEW w \in Worker, Step(w)
  PROVE  AtEdge'
<1>1. SUFFICES ASSUME run'[w].stage = "edge"
               PROVE  Doc[run'[w].task].object \in Group /\ Doc[run'[w].task].type \in {"Join", "Leave"}
  BY StepHasShape DEF AtEdge, Takes, GoesOn, Ends
<1>2. ReadGroup(w) \/ WriteEdge(w) \/ Expand(w) \/ RecordDelivery(w)
  BY <1>1, StageEffect
<1>3. CASE ReadGroup(w)
  <2>1. CASE ForGroup(w) /\ Data(w).type \in {"Join", "Leave"} /\ Goto(w, "edge")
    BY <1>1, <2>1, GotoShape DEF ForGroup, Data, Task, Stage
  <2>2. CASE Goto(w, "answer") \/ Goto(w, "expand")
    BY <1>1, <2>2, GotoShape DEF Stage
  <2>3. CASE Finish(w, "failed")
    BY <1>1, <2>3, FinishIsIdle
  <2> QED
    BY <1>3, <2>1, <2>2, <2>3 DEF ReadGroup
<1>4. CASE WriteEdge(w)
  <2>1. Goto(w, "answer") \/ Finish(w, "failed")
    BY <1>4 DEF WriteEdge
  <2> QED
    BY <1>1, <2>1, GotoShape, FinishIsIdle DEF Stage
<1>5. CASE Expand(w) \/ RecordDelivery(w)
  <2>1. run'[w].stage = "record"
    BY <1>5 DEF Expand, RecordDelivery, At, TypeOK, RunState
  <2> QED
    BY <1>1, <2>1
<1> QED
  BY <1>2, <1>3, <1>4, <1>5

------------------------------------------------------------------------------
(* Membership.  An answer under way, and an answer sent, is true of the    *)
(* edges, or a later activity of the same sender made it untrue.           *)

TrueAnswer(a) ==
  IF Doc[a].type = "Leave" THEN Pair(a) \notin edge \/ Countered(a, "Join")
  ELSE Pair(a) \in edge \/ Countered(a, "Leave")

AnswersAreTrue == \A w \in Worker : run[w].stage = "answer" =>
                    Doc[run[w].task].object \in Group /\ TrueAnswer(run[w].task)
SentAreTrue ==
  \A a \in Activity :
    /\ <<"Accept", a>> \in sent =>
         Doc[a].type \in {"Join", "Leave"} /\ Doc[a].object \in Group /\ TrueAnswer(a)
    /\ <<"Announce", a>> \in sent => Doc[a].type \notin {"Join", "Leave"} /\ TrueAnswer(a)

Inv == TypeOK /\ Course /\ AtEdge

LEMMA VersionsGrow ==
  ASSUME Inv, NEW w \in Worker, Step(w), NEW a, Stored(a)
  PROVE  Stored(a)'
BY StepHasShape DEF Inv, Course, Takes, GoesOn, Ends, Stored

LEMMA CounteredStays ==
  ASSUME Inv, NEW w \in Worker, Step(w), NEW a, NEW t, Countered(a, t)
  PROVE  Countered(a, t)'
<1>1. PICK b \in Activity : Stored(b) /\ Doc[b].type = t
                            /\ Doc[b].actor = Doc[a].actor /\ Doc[b].object = Doc[a].object
  BY DEF Countered
<1>2. Stored(b)'
  BY <1>1, VersionsGrow
<1> QED
  BY <1>1, <1>2 DEF Countered

LEMMA TrueAnswerStays ==
  ASSUME Inv, NEW w \in Worker, Step(w), NEW a \in Activity, TrueAnswer(a)
  PROVE  TrueAnswer(a)'
<1>1. \A t : Countered(a, t) => Countered(a, t)'
  BY CounteredStays
<1>2. CASE edge' = edge
  BY <1>1, <1>2 DEF TrueAnswer, Pair
<1>3. CASE run[w].stage = "edge" /\ edge' # edge
  <2>1. PICK b \in Activity : b = run[w].task /\ Doc[b].type \in {"Join", "Leave"} /\ Stored(b)
    BY <1>3 DEF Inv, Course, Held, AtEdge, LateIsStored, Late
  <2>2. Stored(b)'
    BY <2>1, VersionsGrow
  <2>3. Pair(a) = Pair(b) => Doc[b].actor = Doc[a].actor /\ Doc[b].object = Doc[a].object
    BY DEF Pair
  <2>4. Pair(a) = Pair(b) => Countered(a, Doc[b].type)'
    BY <2>2, <2>3 DEF Countered
  <2>5. CASE Doc[b].type = "Join"
    <3>1. edge' = edge \cup {Pair(b)}
      BY <1>3, <2>1, <2>5, EdgeEffect
    <3> QED
      BY <1>1, <2>4, <2>5, <3>1 DEF TrueAnswer, Pair
  <2>6. CASE Doc[b].type = "Leave"
    <3>1. edge' = edge \ {Pair(b)}
      BY <1>3, <2>1, <2>6, EdgeEffect
    <3> QED
      BY <1>1, <2>4, <2>6, <3>1 DEF TrueAnswer, Pair
  <2> QED
    BY <2>1, <2>5, <2>6
<1> QED
  BY <1>2, <1>3, EdgeEffect

LEMMA NewAnswerIsTrue ==
  ASSUME Inv, NEW w \in Worker, Step(w), run'[w].stage = "answer", NEW a, a = run[w].task
  PROVE  /\ Doc[a].object \in Group /\ TrueAnswer(a)' /\ run'[w].task = a
<1>1. ReadGroup(w) \/ WriteEdge(w) \/ Expand(w) \/ RecordDelivery(w)
  BY StageEffect DEF Inv, Course
<1>2. CASE ReadGroup(w)
  <2>1. CASE ForGroup(w) /\ Data(w).type \notin {"Join", "Leave"} /\ Member(w) /\ Goto(w, "answer")
    <3>1. run'[w].task = a /\ edge' = edge
      BY <1>2, <2>1, GotoShape DEF Stage, Inv, ReadGroup, tables
    <3> QED
      BY <2>1, <3>1 DEF ForGroup, Data, Task, Member, TrueAnswer, Pair
  <2>2. CASE Goto(w, "edge") \/ Goto(w, "expand")
    BY <2>2, GotoShape DEF Stage, Inv
  <2>3. CASE Finish(w, "failed")
    BY <2>3, FinishIsIdle DEF Inv
  <2> QED
    BY <1>2, <2>1, <2>2, <2>3 DEF ReadGroup
<1>3. CASE WriteEdge(w)
  <2>1. CASE Goto(w, "answer") /\ edge' = IF Doc[a].type = "Join" THEN edge \cup {Pair(a)} ELSE edge \ {Pair(a)}
    <3>1. run'[w].task = a
      BY <2>1, GotoShape DEF Stage, Inv
    <3>2. Doc[a].object \in Group /\ Doc[a].type \in {"Join", "Leave"}
      BY <1>3 DEF WriteEdge, At, Inv, AtEdge
    <3> QED
      BY <2>1, <3>1, <3>2 DEF TrueAnswer, Pair
  <2>2. CASE Finish(w, "failed")
    BY <2>2, FinishIsIdle DEF Inv
  <2> QED
    BY <1>3, <2>1, <2>2 DEF WriteEdge, Data, Task, Pair
<1>4. CASE Expand(w) \/ RecordDelivery(w)
  <2>1. run'[w].stage = "record"
    BY <1>4 DEF Expand, RecordDelivery, At, Inv, TypeOK, RunState
  <2> QED
    BY <2>1
<1> QED
  BY <1>1, <1>2, <1>3, <1>4

LEMMA AnswersAreTrueStep ==
  ASSUME Inv, AnswersAreTrue, NEW w \in Worker, Step(w)
  PROVE  AnswersAreTrue'
<1>1. SUFFICES ASSUME NEW v \in Worker, run'[v].stage = "answer"
               PROVE  \E a \in Activity : run'[v].task = a /\ Doc[a].object \in Group /\ TrueAnswer(a)'
  <2>1. ASSUME NEW v \in Worker, NEW a \in Activity, run'[v].task = a, TrueAnswer(a)'
        PROVE  TrueAnswer(run[v].task)'
    BY <2>1 DEF TrueAnswer, Pair, Countered, Stored
  <2> QED
    BY <2>1 DEF AnswersAreTrue
<1>2. CASE v = w
  <2>1. PICK a : a = run[w].task
    OBVIOUS
  <2>2. Doc[a].object \in Group /\ TrueAnswer(a)' /\ run'[w].task = a
    BY <1>1, <1>2, <2>1, NewAnswerIsTrue
  <2>3. run[w].stage # "idle"
    BY <1>1, <1>2, StageEffect DEF Inv, Course, ReadGroup, WriteEdge, Expand, RecordDelivery, At
  <2>4. a \in Activity
    BY <2>1, <2>3 DEF Inv, Course, Held
  <2> QED
    BY <1>2, <2>2, <2>4
<1>3. CASE v # w
  <2>1. run'[v] = run[v]
    BY <1>3, StepHasShape DEF Inv, Course, Takes, GoesOn, Ends
  <2>2. PICK a \in Activity : a = run[v].task /\ Doc[a].object \in Group /\ TrueAnswer(a)
    BY <1>1, <2>1 DEF AnswersAreTrue, Inv, Course, Held
  <2> QED
    BY <2>1, <2>2, TrueAnswerStays
<1> QED
  BY <1>2, <1>3

LEMMA SentAreTrueStep ==
  ASSUME Inv, AnswersAreTrue, SentAreTrue, NEW w \in Worker, Step(w)
  PROVE  SentAreTrue'
<1>1. SUFFICES ASSUME NEW a \in Activity
               PROVE  /\ <<"Accept", a>> \in sent' =>
                           Doc[a].type \in {"Join", "Leave"} /\ Doc[a].object \in Group /\ TrueAnswer(a)'
                      /\ <<"Announce", a>> \in sent' =>
                           Doc[a].type \notin {"Join", "Leave"} /\ TrueAnswer(a)'
  BY DEF SentAreTrue
<1>2. TrueAnswer(a) => TrueAnswer(a)'
  BY TrueAnswerStays
<1>3. CASE run[w].stage = "answer" /\ a = run[w].task
  <2>1. Doc[a].object \in Group /\ TrueAnswer(a)'
    BY <1>2, <1>3 DEF AnswersAreTrue
  <2> QED
    BY <1>3, <2>1, SentEffect DEF SentAreTrue
<1>4. CASE run[w].stage # "answer" \/ a # run[w].task
  <2>1. /\ <<"Accept", a>> \in sent' => <<"Accept", a>> \in sent
        /\ <<"Announce", a>> \in sent' => <<"Announce", a>> \in sent
    BY <1>4, SentEffect
  <2> QED
    BY <1>2, <2>1 DEF SentAreTrue
<1> QED
  BY <1>3, <1>4

------------------------------------------------------------------------------
(* Deliveries. *)

LEMMA RowsStay ==
  ASSUME NEW w \in Worker, Step(w)
  PROVE  inbox \cup blind \subseteq inbox' \cup blind'
BY InboxEffect

LEMMA AtRecordStep ==
  ASSUME Inv, AtRecord, NEW w \in Worker, Step(w)
  PROVE  AtRecord'
<1>1. SUFFICES ASSUME NEW v \in Worker, run'[v].stage = "record", NEW r \in LocalActor,
                      r \in Targets(run'[v].task)
               PROVE  r \in run'[v].todo \/ <<r, run'[v].task>> \in inbox' \cup blind'
  BY DEF AtRecord, Targets
<1>2. CASE v # w
  <2>1. run'[v] = run[v]
    BY <1>2, StepHasShape DEF Inv, Course, Takes, GoesOn, Ends
  <2> QED
    BY <1>1, <2>1, RowsStay DEF AtRecord
<1>3. CASE v = w /\ Expand(w)
  <2>1. PICK F : run' = [run EXCEPT ![w].stage = "record",
                           ![w].todo = (Targets(Task(w)) \cup F) \cap LocalActor]
    BY <1>3 DEF Expand
  <2>2. run'[w].todo = (Targets(Task(w)) \cup F) \cap LocalActor /\ run'[w].task = run[w].task
    BY <2>1 DEF Inv, TypeOK, RunState
  <2> QED
    BY <1>1, <1>3, <2>2 DEF Task
<1>4. CASE v = w /\ RecordDelivery(w)
  <2>1. PICK q \in run[w].todo :
          /\ run' = [run EXCEPT ![w].todo = run[w].todo \ {q}]
          /\ <<q, run[w].task>> \in inbox' \cup blind'
    BY <1>4 DEF RecordDelivery, Task, Inv, TypeOK, RunState
  <2>2. run'[w].todo = run[w].todo \ {q} /\ run'[w].task = run[w].task
    BY <2>1 DEF Inv, TypeOK, RunState
  <2>3. run[w].stage = "record"
    BY <1>4 DEF RecordDelivery, At
  <2> QED
    BY <1>1, <1>4, <2>1, <2>2, <2>3, RowsStay DEF AtRecord
<1>5. CASE v = w /\ (ReadGroup(w) \/ WriteEdge(w))
  <2>1. (\E o : Finish(w, o)) \/ \E s \in {"edge", "answer", "expand"} : Goto(w, s)
    BY <1>5 DEF ReadGroup, WriteEdge
  <2>2. {"edge", "answer", "expand"} \subseteq Stage
    BY DEF Stage
  <2> QED
    BY <1>1, <1>5, <2>1, <2>2, FinishIsIdle, GotoShape DEF Inv
<1> QED
  BY <1>1, <1>2, <1>3, <1>4, <1>5, StageEffect DEF Inv, Course

LEMMA DoneStep ==
  ASSUME Inv, AtRecord, AnswersAreTrue, DoneReachedAll, NEW w \in Worker, Step(w)
  PROVE  DoneReachedAll'
<1>1. SUFFICES ASSUME NEW a \in Activity, outcome'[a] = "done"
               PROVE  \/ Doc[a].object \in Group /\ Doc[a].type \in {"Join", "Leave"}
                      \/ \A r \in Targets(a) \cap LocalActor : <<r, a>> \in inbox' \cup blind'
  BY DEF DoneReachedAll, Targets
<1>2. CASE outcome[a] = "done"
  BY <1>2, RowsStay DEF DoneReachedAll
<1>3. CASE outcome[a] # "done"
  <2>1. Ends(w) /\ a = run[w].task
    BY <1>1, <1>3, StepHasShape DEF Inv, Course, Takes, GoesOn, Ends
  <2>2. Forward(w) \/ (AnswerGroup(w) /\ Doc[a].type \in {"Join", "Leave"})
    <3>1. ASSUME NEW o, Finish(w, o)
          PROVE  o = "done"
      BY <1>1, <2>1, <3>1 DEF Finish, Task, Inv, TypeOK
    <3>2. CASE \E s : Goto(w, s)
      BY <1>1, <1>3, <3>2 DEF Goto
    <3>3. outcome' # outcome
      BY <1>1, <1>3
    <3> QED
      BY <2>1, <3>1, <3>2, <3>3 DEF Step, Start, Stop, CheckTombstone, Validate, ReadFormer, Begin,
         Commit, ReadGroup, WriteEdge, AnswerGroup, AnswerKind, Expand, RecordDelivery, At, Ends, Data, Task
  <2>3. CASE Forward(w)
    <3>1. run[w].stage = "record" /\ run[w].todo = {}
      BY <2>3 DEF Forward, At
    <3> QED
      BY <2>1, <3>1, RowsStay DEF AtRecord
  <2>4. CASE AnswerGroup(w) /\ Doc[a].type \in {"Join", "Leave"}
    BY <2>1, <2>4 DEF AnswersAreTrue, AnswerGroup, At
  <2> QED
    BY <2>2, <2>3, <2>4
<1> QED
  BY <1>2, <1>3

LEMMA ToldStep ==
  ASSUME Inv, ToldAfterStored, NEW w \in Worker, Step(w)
  PROVE  ToldAfterStored'
<1>1. \A d \in inbox' \cup sent' : d \in inbox \cup sent \/ (run[w].stage \in Late /\ d[2] = run[w].task)
  BY SentEffect, InboxEffect DEF Late
<1>2. \A a : Stored(a) => Stored(a)'
  BY VersionsGrow
<1>3. ASSUME NEW d \in inbox' \cup sent', NEW a, a = d[2]
      PROVE  Stored(a)'
  <2>1. Stored(a)
    BY <1>1, <1>3 DEF ToldAfterStored, Inv, Course, LateIsStored
  <2> QED
    BY <1>2, <2>1
<1> QED
  BY <1>3 DEF ToldAfterStored, Stored

------------------------------------------------------------------------------
(* The inductive invariant and the theorems. *)

PInv == Inv /\ ToldAfterStored /\ AnswersAreTrue /\ SentAreTrue /\ AtRecord /\ DoneReachedAll

LEMMA InitPInv == Init => PInv
<1> SUFFICES ASSUME Init
             PROVE  PInv
  OBVIOUS
<1>1. /\ outcome = [a \in Activity |-> "queued"] /\ run = [w \in Worker |-> Idle]
      /\ versions = {} /\ clock = [o \in ObjectIRI |-> 0]
      /\ inbox = {} /\ sent = {} /\ blind = {} /\ faults = 0
  BY DEF Init
<1>2. \A w \in Worker : run[w].stage = "idle"
  BY <1>1 DEF Idle
<1>3. edge \subseteq LocalActor \X Actor
  <2>1. \A a \in Activity : Doc[a].object \in Group => <<Doc[a].object, Doc[a].actor>> \in LocalActor \X Actor
    BY ProcessingAssumption
  <2> QED
    BY <2>1 DEF Init
<1>4. TypeOK
  <2>1. run \in [Worker -> RunState]
    BY <1>1, IdleTyped
  <2> QED
    BY <1>1, <1>3, <2>1, ProcessingAssumption DEF TypeOK
<1>5. Course
  BY <1>1, <1>2 DEF Course, Held, Sole, EarlyIsNotStored, LateIsStored, StoredWasRun, Stored, Early, Late
<1>6. AtEdge /\ AnswersAreTrue /\ AtRecord
  BY <1>2 DEF AtEdge, AnswersAreTrue, AtRecord
<1>7. ToldAfterStored /\ SentAreTrue /\ DoneReachedAll
  BY <1>1 DEF ToldAfterStored, SentAreTrue, DoneReachedAll
<1> QED
  BY <1>4, <1>5, <1>6, <1>7 DEF PInv, Inv

LEMMA CourseStep ==
  ASSUME TypeOK, Course, NEW w \in Worker, Step(w)
  PROVE  Course'
BY StepHasShape, TakesKeepsCourse, GoesOnKeepsCourse, EndsKeepsCourse DEF Course

LEMMA NextPInv == PInv /\ [Next]_vars => PInv'
<1> SUFFICES ASSUME PInv, [Next]_vars
             PROVE  PInv'
  OBVIOUS
<1>1. ASSUME NEW w \in Worker, Step(w)
      PROVE  PInv'
  <2>1. Inv'
    BY <1>1, TypesStep, CourseStep, AtEdgeStep DEF PInv, Inv, Course
  <2> QED
    BY <1>1, <2>1, ToldStep, AnswersAreTrueStep, SentAreTrueStep, AtRecordStep, DoneStep DEF PInv
<1>2. CASE UNCHANGED vars
  BY <1>2 DEF PInv, Inv, TypeOK, Course, Held, Sole, EarlyIsNotStored, LateIsStored, StoredWasRun,
    Stored, AtEdge, ToldAfterStored, AnswersAreTrue, SentAreTrue, TrueAnswer, Pair, Countered,
    AtRecord, Targets, DoneReachedAll, vars
<1> QED
  BY <1>1, <1>2, NextIsStep

LEMMA PInvAlways == Spec => []PInv
BY InitPInv, NextPInv, PTL DEF Spec

(* The states stay in their types: the state of ProcessInboundTask for     *)
(* every number of workers, activities and faults.                         *)
THEOREM ProcessingTypeCorrect == Spec => []TypeOK
<1>1. PInv => TypeOK
  BY DEF PInv, Inv
<1> QED
  BY <1>1, PInvAlways, PTL

(* Nothing is delivered, announced, answered or forwarded before           *)
(* saveInboundActivityQuads has stored it, for any interleaving and fault. *)
THEOREM ToldIsStored == Spec => []ToldAfterStored
<1>1. PInv => ToldAfterStored
  BY DEF PInv
<1> QED
  BY <1>1, PInvAlways, PTL

(* A task that ProcessInboundTask ends without an error has reached every  *)
(* local addressee whose keys it could look up.                            *)
THEOREM DoneIsDelivered == Spec => []DoneReachedAll
<1>1. PInv => DoneReachedAll
  BY DEF PInv
<1> QED
  BY <1>1, PInvAlways, PTL

(* What validateInboundActivity refuses or drops leaves no version, no     *)
(* delivery and no message: what is told is stored, and what is stored     *)
(* was not refused.                                                        *)
THEOREM RefusedIsInvisible == Spec => []RefusedLeavesNoTrace
<1>1. PInv => RefusedLeavesNoTrace
  BY DEF PInv, Inv, Course, StoredWasRun, ToldAfterStored, RefusedLeavesNoTrace
<1> QED
  BY <1>1, PInvAlways, PTL

(* An Accept of handleGroupJoin or handleGroupLeave tells the membership   *)
(* as it is, or a later Leave or Join of the same sender changed it.       *)
THEOREM AcceptTellsMembership == Spec => []AcceptIsTrue
<1>1. PInv => AcceptIsTrue
  BY DEF PInv, SentAreTrue, TrueAnswer, Pair, AcceptIsTrue
<1> QED
  BY <1>1, PInvAlways, PTL

(* processGroupActivity announces only what a member sent.                 *)
THEOREM AnnouncesAreMembers == Spec => []AnnouncedByMember
<1>1. PInv => AnnouncedByMember
  BY DEF PInv, SentAreTrue, TrueAnswer, Pair, AnnouncedByMember
<1> QED
  BY <1>1, PInvAlways, PTL
=============================================================================
