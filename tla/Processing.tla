----------------------------- MODULE Processing -----------------------------
(***************************************************************************)
(* ProcessInboundTask: what a worker does with one activity, step by step. *)
(* Every step is one call to the storage or to the network; the workers of *)
(* all servers run the steps of their activities against one database.     *)
(* That an activity is processed once is InboundQueue's; how a version is  *)
(* written is GraphStore's; here SaveGraphVersion is its begin and commit. *)
(*                                                                         *)
(* A lookup that fails is often taken for "no": the actor is not local, is *)
(* no group, has no followers.  Blind(w) is that failure.                  *)
(***************************************************************************)
EXTENDS Integers

CONSTANTS
  Worker,
  Activity,
  Doc,          \* what is in an activity, see the assumption
  Actor,
  LocalActor,   \* actors with keys here
  Group,        \* local actors of type Group; an activity may have one as object
  Note,         \* the other objects
  Tenant,
  TenantOf,     \* tenant whose domain hosts an object, or NoTenant
  NoTenant,
  Nobody,       \* no actor
  NoTask,
  MaxFaults     \* bound: failing statements and calls

ObjectIRI == Note \cup Group

Verb == {"Create", "Update", "Delete", "Like", "Join", "Leave", "Follow"}

(* to: addressees; collections: actors whose followers are addressed;      *)
(* public: addressed to everyone; by: attributedTo of the embedded object; *)
(* tenants: tenants that received it; sound: what the validation decides   *)
(* by the activity alone (size, origins, owner of a created object, key of *)
(* the actor, type of a group).                                            *)
ASSUME ProcessingAssumption ==
  /\ Doc \in [Activity -> [type: Verb, actor: Actor, object: ObjectIRI, to: SUBSET Actor,
                           collections: SUBSET LocalActor, public: BOOLEAN,
                           by: Actor \cup {Nobody}, tenants: SUBSET Tenant, sound: BOOLEAN]]
  /\ LocalActor \subseteq Actor /\ Group \subseteq LocalActor /\ Note \cap Group = {}
  /\ TenantOf \in [ObjectIRI -> Tenant \cup {NoTenant}] /\ NoTenant \notin Tenant
  /\ Nobody \notin Actor /\ NoTask \notin Activity
  /\ MaxFaults \in Nat

VARIABLES
  outcome,    \* what became of each activity
  run,        \* each worker: its activity, its next step and its local variables
  versions,   \* rdf_graphs, committed rows
  clock,      \* NOW() as the number of transactions begun, for each object
  edge,       \* follower edges <<followed, follower>> in rdf_quads
  inbox,      \* actor_inbox_deliveries, rows <<actor, activity>>
  sent,       \* activities sent to other servers, as <<kind, activity>>
  blind,      \* history: <<actor, activity>> skipped because the keys could not be read
  faults

vars == <<outcome, run, versions, clock, edge, inbox, sent, blind, faults>>

Stage == {"idle", "tombstoned", "validate", "former", "begin", "commit", "group", "edge",
          "answer", "expand", "record"}
Former == Verb \cup {"Note", "Tombstone"}
Idle == [stage |-> "idle", task |-> NoTask, former |-> "Note", at |-> 0, todo |-> {}]
Answer == {"Accept", "Announce", "Forward"}

RunState == [stage: Stage, task: Activity \cup {NoTask}, former: Former, at: Nat,
             todo: SUBSET LocalActor]
Version == [object: ObjectIRI, activity: Activity, kind: {"payload", "Tombstone"},
            former: Former, at: Nat]

TypeOK ==
  /\ outcome \in [Activity -> {"queued", "running", "done", "dropped", "refused", "failed"}]
  /\ run \in [Worker -> RunState]
  /\ versions \subseteq Version
  /\ clock \in [ObjectIRI -> Nat]
  /\ edge \subseteq LocalActor \X Actor
  /\ inbox \subseteq LocalActor \X Activity
  /\ sent \subseteq Answer \X Activity
  /\ blind \subseteq LocalActor \X Activity
  /\ faults \in 0..MaxFaults

Init ==
  /\ outcome = [a \in Activity |-> "queued"]
  /\ run = [w \in Worker |-> Idle]
  /\ versions = {} /\ clock = [o \in ObjectIRI |-> 0]
  /\ edge \in SUBSET {<<Doc[a].object, Doc[a].actor>> :
                        a \in {b \in Activity : Doc[b].object \in Group /\ Doc[b].type = "Leave"}}
  /\ inbox = {} /\ sent = {} /\ blind = {}
  /\ faults = 0

------------------------------------------------------------------------------
At(w, s) == run[w].stage = s
Task(w) == run[w].task
Data(w) == Doc[Task(w)]

Goto(w, s) == run' = [run EXCEPT ![w].stage = s] /\ UNCHANGED outcome
Finish(w, o) ==
  /\ run' = [run EXCEPT ![w] = Idle]
  /\ outcome' = [outcome EXCEPT ![Task(w)] = o]

Faulty == faults < MaxFaults /\ faults' = faults + 1
tables == <<versions, clock, edge, inbox, sent, blind>>

(* Rows with the subject o exist: every version adds the context of its    *)
(* object; the actor document of a group is there from the start.          *)
Versions(o) == {v \in versions : v.object = o}
Existing(o) == o \in Group \/ Versions(o) # {}

(* GetLatestPayload: the row with the greatest created_at, which is the    *)
(* start of its transaction. *)
Latest(o) == {v \in Versions(o) : \A u \in Versions(o) : u.at <= v.at}
IsTombstone(o) == \E v \in Latest(o) : v.kind = "Tombstone"

(* getOriginalActor takes an attribution of any version. *)
Owners(o) == {Doc[v.activity].by : v \in {u \in Versions(o) : u.kind = "payload"}} \ {Nobody}

------------------------------------------------------------------------------
(* A worker of the engine takes a task that RecordProcessedActivity let    *)
(* through.                                                                *)
Start(w, a) ==
  /\ At(w, "idle") /\ outcome[a] = "queued"
  /\ outcome' = [outcome EXCEPT ![a] = "running"]
  /\ run' = [run EXCEPT ![w] = [Idle EXCEPT !.task = a,
       !.stage = IF Doc[a].type = "Delete" THEN "tombstoned" ELSE "validate"]]
  /\ UNCHANGED <<tables, faults>>

(* A statement, or a call that is not skipped over, fails, or the process  *)
(* stops: what is written stays, the rest is not done.                     *)
Stop(w) ==
  /\ ~ At(w, "idle") /\ Faulty
  /\ Finish(w, "failed")
  /\ UNCHANGED tables

(* handleIdempotentDelete *)
CheckTombstone(w) ==
  /\ At(w, "tombstoned")
  /\ \/ /\ IsTombstone(Data(w).object) /\ Finish(w, "dropped") /\ UNCHANGED faults
     \/ /\ ~ IsTombstone(Data(w).object) /\ Goto(w, "validate") /\ UNCHANGED faults
     \/ Faulty /\ Goto(w, "validate")
  /\ UNCHANGED tables

(* validateInboundActivity.  The verbs Update and Delete see the object    *)
(* only through the tenant that resolveTenantID happens to return for the  *)
(* activity, and an object without statements there is dropped; a Like     *)
(* needs an object that exists and that its sender may see by what any     *)
(* version says.  Of several owners the first of an unordered map counts.  *)
Sound(w) == Data(w).sound
Mutates(w) == Data(w).type \in {"Update", "Delete"}
Visible(w, t) == Existing(Data(w).object) /\ TenantOf[Data(w).object] = t
MayActAs(w, owner) == owner = Data(w).actor

Addressed(w) == \E v \in Versions(Data(w).object) :
  v.kind = "payload" /\ (Doc[v.activity].public \/ Data(w).actor \in Doc[v.activity].to)
Likeable(w) == Existing(Data(w).object) /\
  (Addressed(w) \/ Owners(Data(w).object) = {} \/ \E o \in Owners(Data(w).object) : MayActAs(w, o))
Unlikeable(w) == ~ Existing(Data(w).object) \/
  (~ Addressed(w) /\ \E o \in Owners(Data(w).object) : ~ MayActAs(w, o))

Dropped(w) == Sound(w) /\ Mutates(w) /\ \E t \in Data(w).tenants : ~ Visible(w, t)
Refused(w) ==
  \/ ~ Sound(w)
  \/ /\ Mutates(w)
     /\ \E t \in Data(w).tenants : Visible(w, t)
     /\ \E o \in Owners(Data(w).object) : ~ MayActAs(w, o)
  \/ Data(w).type = "Like" /\ Unlikeable(w)
Valid(w) ==
  /\ Sound(w)
  /\ Mutates(w) => /\ \E t \in Data(w).tenants : Visible(w, t)
                   /\ \/ Owners(Data(w).object) = {}
                      \/ \E o \in Owners(Data(w).object) : MayActAs(w, o)
  /\ Data(w).type = "Like" => Likeable(w)

(* Broken variant: the error of the validation is not returned. *)
ValidateContinues(w) ==
  /\ At(w, "validate")
  /\ \/ Dropped(w) /\ Finish(w, "dropped")
     \/ /\ Refused(w) /\ run' = [run EXCEPT ![w].stage = "begin"]
        /\ outcome' = [outcome EXCEPT ![Task(w)] = "refused"]
     \/ Valid(w) /\ Goto(w, IF Data(w).type = "Delete" THEN "former" ELSE "begin")
  /\ UNCHANGED <<tables, faults>>

Validate(w) ==
  /\ At(w, "validate")
  /\ \/ Dropped(w) /\ Finish(w, "dropped")
     \/ Refused(w) /\ Finish(w, "refused")
     \/ Valid(w) /\ Goto(w, IF Data(w).type = "Delete" THEN "former" ELSE "begin")
  /\ UNCHANGED <<tables, faults>>

(* getFormerType: the type of the latest payload, "Note" without one or if *)
(* it cannot be read.                                                      *)
FormerType(o) ==
  IF Versions(o) = {} THEN {"Note"}
  ELSE {IF v.kind = "Tombstone" THEN v.kind ELSE Doc[v.activity].type : v \in Latest(o)}

ReadFormer(w) ==
  /\ At(w, "former")
  /\ \/ /\ \E f \in FormerType(Data(w).object) :
             run' = [run EXCEPT ![w].stage = "begin", ![w].former = f]
        /\ UNCHANGED faults
     \/ Faulty /\ run' = [run EXCEPT ![w].stage = "begin"]
  /\ UNCHANGED <<outcome, tables>>

(* SaveGraphVersion for the payload or the tombstone: created_at is taken  *)
(* when the transaction begins, the row is seen when it commits.           *)
Begin(w) ==
  /\ At(w, "begin")
  /\ clock' = [clock EXCEPT ![Data(w).object] = @ + 1]
  /\ run' = [run EXCEPT ![w].stage = "commit", ![w].at = clock'[Data(w).object]]
  /\ UNCHANGED <<outcome, versions, edge, inbox, sent, blind, faults>>

AfterSave(w) == IF Data(w).type = "Delete" THEN "expand" ELSE "group"

(* Broken variant: the error of SaveGraphVersion is not returned. *)
CommitUnchecked(w) ==
  /\ At(w, "commit") /\ Faulty
  /\ Goto(w, AfterSave(w))
  /\ UNCHANGED tables

Commit(w) ==
  /\ At(w, "commit")
  /\ versions' = versions \cup
       {[object |-> Data(w).object, activity |-> Task(w), at |-> run[w].at, former |-> run[w].former,
         kind |-> IF Data(w).type = "Delete" THEN "Tombstone" ELSE "payload"]}
  /\ Goto(w, AfterSave(w))
  /\ UNCHANGED <<clock, edge, inbox, sent, blind, faults>>

------------------------------------------------------------------------------
(* handleLocalGroupActivity: only a local group as object matters, and a   *)
(* group that cannot be read is none.  A Join or Leave changes the edge;   *)
(* anything else must come from a member and is announced to the members.  *)
ForGroup(w) == Data(w).object \in Group
Member(w) == <<Data(w).object, Data(w).actor>> \in edge

(* Broken variant: whoever sends is announced. *)
ReadGroupOpen(w) ==
  /\ At(w, "group")
  /\ \/ /\ ForGroup(w) /\ Goto(w, IF Data(w).type \in {"Join", "Leave"} THEN "edge" ELSE "answer")
        /\ UNCHANGED faults
     \/ ~ ForGroup(w) /\ Goto(w, "expand") /\ UNCHANGED faults
     \/ Faulty /\ Goto(w, "expand")
  /\ UNCHANGED tables

ReadGroup(w) ==
  /\ At(w, "group")
  /\ \/ ForGroup(w) /\ Data(w).type \in {"Join", "Leave"} /\ Goto(w, "edge") /\ UNCHANGED faults
     \/ /\ ForGroup(w) /\ Data(w).type \notin {"Join", "Leave"}
        /\ IF Member(w) THEN Goto(w, "answer") ELSE Finish(w, "failed")
        /\ UNCHANGED faults
     \/ ~ ForGroup(w) /\ Goto(w, "expand") /\ UNCHANGED faults
     \/ Faulty /\ Goto(w, "expand")
  /\ UNCHANGED tables

(* Broken variant: the error of SaveQuads is not returned. *)
WriteEdgeUnchecked(w) ==
  /\ At(w, "edge")
  /\ LET e == <<Data(w).object, Data(w).actor>>
     IN \/ edge' = IF Data(w).type = "Join" THEN edge \cup {e} ELSE edge \ {e}
        \/ Data(w).type = "Join" /\ UNCHANGED edge
  /\ Goto(w, "answer")
  /\ UNCHANGED <<versions, clock, inbox, sent, blind, faults>>

(* handleGroupJoin, handleGroupLeave: the edge, then the digest of the     *)
(* followers cache (left out here), then the Accept.  That the table may   *)
(* refuse the edge of a Join (GraphStore) is the second disjunct.          *)
WriteEdge(w) ==
  /\ At(w, "edge")
  /\ LET e == <<Data(w).object, Data(w).actor>>
     IN \/ /\ edge' = IF Data(w).type = "Join" THEN edge \cup {e} ELSE edge \ {e}
           /\ Goto(w, "answer")
        \/ Data(w).type = "Join" /\ Finish(w, "failed") /\ UNCHANGED edge
  /\ UNCHANGED <<versions, clock, inbox, sent, blind, faults>>

(* DispatchOutboundActivity: one POST per inbox.  An actor without a known *)
(* inbox or an inbox that refuses fails the task, whether or not some      *)
(* other inbox took the activity.                                          *)
AnswerKind(w) == IF Data(w).type \in {"Join", "Leave"} THEN "Accept" ELSE "Announce"
AnswerGroup(w) ==
  /\ At(w, "answer")
  /\ \/ /\ sent' = sent \cup {<<AnswerKind(w), Task(w)>>}
        /\ IF AnswerKind(w) = "Accept" THEN Finish(w, "done") ELSE Goto(w, "expand")
     \/ sent' \in {sent, sent \cup {<<AnswerKind(w), Task(w)>>}} /\ Finish(w, "failed")
  /\ UNCHANGED <<versions, clock, edge, inbox, blind, faults>>

------------------------------------------------------------------------------
(* deliverToLocalInboxes, deliverDeleteActivity: the addressees, the       *)
(* object and the followers of the addressed collections.                  *)
Followers(c) == {r \in Actor : <<c, r>> \in edge}
Targets(a) == Doc[a].to \cup ({Doc[a].object} \cap Actor)

Expand(w) ==
  /\ At(w, "expand")
  /\ \E read \in {Data(w).collections} \cup (IF faults < MaxFaults THEN SUBSET Data(w).collections ELSE {}) :
       /\ run' = [run EXCEPT ![w].stage = "record",
            ![w].todo = (Targets(Task(w)) \cup UNION {Followers(c) : c \in read}) \cap LocalActor]
       /\ faults' = IF read = Data(w).collections THEN faults ELSE faults + 1
  /\ UNCHANGED <<outcome, tables>>

(* Broken variant: the error of RecordActorInboxDelivery is not returned.  *)
RecordDeliveryUnchecked(w) ==
  /\ At(w, "record")
  /\ \E r \in run[w].todo :
       /\ run' = [run EXCEPT ![w].todo = @ \ {r}]
       /\ \/ inbox' = inbox \cup {<<r, Task(w)>>} /\ UNCHANGED faults
          \/ Faulty /\ UNCHANGED inbox
  /\ UNCHANGED <<outcome, versions, clock, edge, sent, blind>>

(* GetActorDualKeys tells local recipients from others; an error of the    *)
(* lookup is taken for "not local" and the recipient is passed over.       *)
RecordDelivery(w) ==
  /\ At(w, "record")
  /\ \E r \in run[w].todo :
       /\ run' = [run EXCEPT ![w].todo = @ \ {r}]
       /\ \/ inbox' = inbox \cup {<<r, Task(w)>>} /\ UNCHANGED <<blind, faults>>
          \/ Faulty /\ blind' = blind \cup {<<r, Task(w)>>} /\ UNCHANGED inbox
  /\ UNCHANGED <<outcome, versions, clock, edge, sent>>

(* performInboxForwarding: addressees of other servers that this server    *)
(* has to do with get the activity if a local recipient did; its errors    *)
(* are ignored.  A Delete is not forwarded.                                *)
Forwardable(w) ==
  /\ Data(w).type # "Delete" /\ ~ (Data(w).to \subseteq LocalActor)
  /\ \E r \in LocalActor : <<r, Task(w)>> \in inbox

Forward(w) ==
  /\ At(w, "record") /\ run[w].todo = {}
  /\ sent' \in {sent} \cup IF Forwardable(w) THEN {sent \cup {<<"Forward", Task(w)>>}} ELSE {}
  /\ Finish(w, "done")
  /\ UNCHANGED <<versions, clock, edge, inbox, blind, faults>>

Next ==
  \E w \in Worker :
    \/ \E a \in Activity : Start(w, a)
    \/ Stop(w) \/ CheckTombstone(w) \/ Validate(w) \/ ReadFormer(w) \/ Begin(w) \/ Commit(w)
    \/ ReadGroup(w) \/ WriteEdge(w) \/ AnswerGroup(w)
    \/ Expand(w) \/ RecordDelivery(w) \/ Forward(w)

Spec == Init /\ [][Next]_vars

------------------------------------------------------------------------------
(* Properties. *)

Stored(a) == \E v \in versions : v.activity = a

(* Whoever hears of an activity, in a local inbox or by a message to       *)
(* another server, can read it here: it is stored before it is delivered,  *)
(* announced, answered or forwarded, whatever fails in between.            *)
ToldAfterStored ==
  /\ \A d \in inbox : Stored(d[2])
  /\ \A m \in sent : Stored(m[2])

(* A task that ends well has reached every local actor it is addressed to, *)
(* except those whose keys could not be looked up.                         *)
DoneReachedAll ==
  \A a \in Activity : outcome[a] = "done" =>
    \/ Doc[a].object \in Group /\ Doc[a].type \in {"Join", "Leave"}
    \/ \A r \in Targets(a) \cap LocalActor : <<r, a>> \in inbox \cup blind

(* A refused or dropped activity leaves nothing behind, although others    *)
(* change the rows it was judged by at any time.                           *)
RefusedLeavesNoTrace ==
  \A a \in Activity : outcome[a] \in {"refused", "dropped"} =>
    /\ ~ Stored(a)
    /\ \A d \in inbox \cup sent : d[2] # a

(* What a sender was told about its membership is so: after the Accept of  *)
(* a Join it is a member unless a Leave of its own was processed too, and  *)
(* the other way round.                                                    *)
Countered(a, type) ==
  \E b \in Activity : Stored(b) /\ Doc[b].type = type
                       /\ Doc[b].actor = Doc[a].actor /\ Doc[b].object = Doc[a].object

AcceptIsTrue ==
  \A a \in Activity : <<"Accept", a>> \in sent =>
    \/ Doc[a].type = "Join" /\ (<<Doc[a].object, Doc[a].actor>> \in edge \/ Countered(a, "Leave"))
    \/ Doc[a].type = "Leave" /\ (<<Doc[a].object, Doc[a].actor>> \notin edge \/ Countered(a, "Join"))

(* Only what a member sent is announced to a group: the sender is a member *)
(* still, or has left since.                                               *)
AnnouncedByMember ==
  \A a \in Activity : <<"Announce", a>> \in sent =>
    <<Doc[a].object, Doc[a].actor>> \in edge \/ Countered(a, "Leave")

(* What the blueprint says of a Delete: "Subsequent queries targeting this *)
(* IRI (such as GetLatestPayload) cleanly resolve this new Tombstone       *)
(* version".                                                               *)
DeletedResolvesToTombstone ==
  \A o \in ObjectIRI : (\E v \in Versions(o) : v.kind = "Tombstone") => IsTombstone(o)
=============================================================================
