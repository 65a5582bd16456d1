---------------------------- MODULE IntakeProofs -----------------------------
(***************************************************************************)
(* Proofs about Intake and the RateLimiter it extends, for any requests,   *)
(* processes, windows, collections and faults.                             *)
(***************************************************************************)
EXTENDS Intake, FiniteSetTheorems, SequenceTheorems, TLAPS

Running == {"item", "get", "put"}
RunTyped == run \in [Filler -> RunState]

(* A goroutine has items to look at, and a tenant to bring them to, while  *)
(* it runs through them.                                                   *)
Lists ==
  /\ \A f \in Filler : run[f].stage \in Running =>
       run[f].left # <<>> /\ Owner[run[f].object] # Nowhere
  /\ \A f \in Filler : run[f].stage \notin Running => run[f].left = <<>>

Others(f) == \A g \in Filler : g # f => run'[g] = run[g]

------------------------------------------------------------------------------
(* The forms of a step of a goroutine. *)

LEMMA IdleTyped == Idle \in RunState /\ Idle.stage = "idle" /\ Idle.left = <<>>
BY IntakeAssumption DEF Idle, RunState

LEMMA PutEffect ==
  ASSUME RunTyped, Lists, NEW f \in Filler, NEW x \in RunState, run' = [run EXCEPT ![f] = x],
         x.stage \in Running <=> x.left # <<>>,
         x.stage \in Running => Owner[x.object] # Nowhere
  PROVE  RunTyped' /\ Lists' /\ run'[f] = x /\ Others(f)
<1>1. RunTyped' /\ run'[f] = x /\ Others(f)
  BY DEF RunTyped, Others
<1>2. \A g \in Filler : run'[g] = x \/ run'[g] = run[g]
  BY <1>1 DEF Others
<1>3. Lists'
  BY <1>2 DEF Lists
<1> QED
  BY <1>1, <1>3

LEMMA EndEffect ==
  ASSUME RunTyped, Lists, NEW f \in Filler, End(f)
  PROVE  RunTyped' /\ Lists' /\ Others(f) /\ run'[f] = Idle
         /\ run'[f].stage = "idle" /\ run'[f].left = <<>>
<1>1. Idle.stage \notin Running /\ Idle.left = <<>>
  BY IdleTyped DEF Running
<1> QED
  BY <1>1, IdleTyped, PutEffect DEF End

LEMMA GotoEffect ==
  ASSUME RunTyped, Lists, NEW f \in Filler,
         NEW s \in {"idle", "count", "fetch", "item", "get", "put"},
         s \in Running <=> run[f].stage \in Running, Goto(f, s)
  PROVE  RunTyped' /\ Lists' /\ Others(f) /\ run'[f].stage = s
         /\ run'[f].object = run[f].object /\ run'[f].left = run[f].left
<1>1. PICK d \in RunState : d = run[f]
  BY DEF RunTyped
<1>2. PICK c : c = [d EXCEPT !.stage = s]
  OBVIOUS
<1>3. c \in RunState /\ c.stage = s /\ c.object = d.object /\ c.left = d.left
  BY <1>2 DEF RunState
<1>4. run' = [run EXCEPT ![f] = c]
  BY <1>1, <1>2 DEF Goto
<1>5. /\ c.stage \in Running <=> c.left # <<>>
      /\ c.stage \in Running => Owner[c.object] # Nowhere
  BY <1>1, <1>3 DEF Lists
<1> QED
  BY <1>1, <1>3, <1>4, <1>5, PutEffect

(* What is left after the first item has been dealt with. *)
LEMMA TailItems ==
  ASSUME NEW q \in Seq(Item), q # <<>>
  PROVE  /\ Head(q) \in Item /\ Tail(q) \in Seq(Item)
         /\ Len(q) = 1 => Items(q) = {Head(q).iri}
         /\ Len(q) # 1 => Tail(q) # <<>> /\ Items(q) = {Head(q).iri} \cup Items(Tail(q))
<1>1. Len(q) \in Nat /\ Len(q) > 0 /\ DOMAIN q = 1..Len(q) /\ Head(q) = q[1]
  OBVIOUS
<1>2. Tail(q) \in Seq(Item) /\ Len(Tail(q)) = Len(q) - 1
      /\ \A n \in 1..Len(Tail(q)) : Tail(q)[n] = q[n + 1]
  BY HeadTailProperties
<1>3. DOMAIN Tail(q) = 1..(Len(q) - 1)
  BY <1>1, <1>2
<1>4. ASSUME Len(q) # 1 PROVE Tail(q) # <<>>
  BY <1>1, <1>2, <1>4
<1>5. ASSUME Len(q) # 1 PROVE Items(q) \subseteq {Head(q).iri} \cup Items(Tail(q))
  <2>1. SUFFICES ASSUME NEW n \in 1..Len(q), n # 1
                 PROVE  q[n].iri \in Items(Tail(q))
    BY <1>1 DEF Items
  <2>2. n - 1 \in DOMAIN Tail(q) /\ Tail(q)[n - 1] = q[n]
    BY <1>1, <1>2, <1>3, <2>1
  <2> QED
    BY <2>2 DEF Items
<1>6. {Head(q).iri} \cup Items(Tail(q)) \subseteq Items(q)
  <2>1. Head(q).iri \in Items(q)
    BY <1>1 DEF Items
  <2>2. ASSUME NEW n \in DOMAIN Tail(q) PROVE Tail(q)[n].iri \in Items(q)
    <3>1. n + 1 \in DOMAIN q /\ Tail(q)[n] = q[n + 1]
      BY <1>1, <1>2, <1>3
    <3> QED
      BY <3>1 DEF Items
  <2> QED
    BY <2>1, <2>2 DEF Items
<1>7. ASSUME Len(q) = 1 PROVE Items(q) = {Head(q).iri}
  BY <1>1, <1>7 DEF Items
<1> QED
  BY <1>1, <1>2, <1>4, <1>5, <1>6, <1>7, HeadTailProperties

LEMMA NextEffect ==
  ASSUME RunTyped, Lists, NEW f \in Filler, run[f].stage \in Running, NextItem(f)
  PROVE  /\ RunTyped' /\ Lists' /\ Others(f)
         /\ This(f) \in Item
         /\ Items(run[f].left) = {This(f).iri} \cup Items(run'[f].left)
         /\ run'[f].stage \in {"idle", "item"}
<1>1. PICK d \in RunState : d = run[f]
  BY DEF RunTyped
<1>2. d.left \in Seq(Item) /\ d.left # <<>>
  BY <1>1 DEF RunState, Lists
<1>3. CASE Len(d.left) = 1
  <2>1. Items(Idle.left) = {}
    BY IdleTyped DEF Items
  <2>2. End(f)
    BY <1>1, <1>3 DEF NextItem
  <2> QED
    BY <1>1, <1>2, <1>3, <2>1, <2>2, EndEffect, TailItems DEF This
<1>4. CASE Len(d.left) # 1
  <2>1. Tail(d.left) \in Seq(Item) /\ Tail(d.left) # <<>>
    BY <1>2, <1>4, TailItems
  <2>2. PICK x : x = [d EXCEPT !.stage = "item", !.left = Tail(d.left)]
    OBVIOUS
  <2>3. run' = [run EXCEPT ![f] = x]
    BY <1>1, <1>4, <2>2 DEF NextItem
  <2>4. x \in RunState /\ x.stage = "item" /\ x.left = Tail(d.left)
    BY <2>1, <2>2 DEF RunState
  <2>5. /\ x.stage \in Running <=> x.left # <<>>
        /\ x.object = d.object /\ Owner[d.object] # Nowhere
    BY <1>1, <2>1, <2>2, <2>4 DEF Running, Lists, RunState
  <2>6. RunTyped' /\ Lists' /\ run'[f] = x /\ Others(f)
    BY <2>3, <2>4, <2>5, PutEffect
  <2> QED
    BY <1>1, <1>2, <1>4, <2>4, <2>6, TailItems DEF This
<1> QED
  BY <1>3, <1>4

------------------------------------------------------------------------------
(* What the two writers of the queue do to it. *)

QueueTyped == queue \in [Iri -> Row] /\ deliveries \subseteq Iri \X Tenant

(* Rows are neither removed nor given another object, deliveries stay. *)
Kept ==
  /\ \A j \in Iri : queue[j].status # "none" =>
       queue'[j].status # "none" /\ queue'[j].object = queue[j].object
  /\ deliveries \subseteq deliveries'

LEMMA EnqueueEffect ==
  ASSUME QueueTyped, NEW i \in Iri, NEW o \in Iri, NEW t \in Tenant, EnqueueInbound(i, o, t)
  PROVE  /\ QueueTyped' /\ Kept
         /\ queue'[i].status # "none" /\ <<i, t>> \in deliveries'
         /\ queue[i].status = "none" => queue'[i].object = o
         /\ \A j \in Iri : j # i => queue'[j] = queue[j]
<1>1. PICK x : x = IF queue[i].status = "none" THEN [status |-> "pending", object |-> o]
                   ELSE queue[i]
  OBVIOUS
<1>2. x \in Row /\ x.status # "none"
  BY <1>1 DEF Row, QueueTyped
<1>3. queue' = [queue EXCEPT ![i] = x]
  BY <1>1 DEF EnqueueInbound
<1>4. deliveries' = deliveries \cup {<<i, t>>}
  BY DEF EnqueueInbound
<1>5. QueueTyped' /\ queue'[i] = x /\ \A j \in Iri : j # i => queue'[j] = queue[j]
  BY <1>2, <1>3, <1>4 DEF QueueTyped
<1> QED
  BY <1>1, <1>2, <1>4, <1>5 DEF Kept

LEMMA FinishEffect ==
  ASSUME QueueTyped, NEW i \in Iri, Finish(i)
  PROVE  QueueTyped' /\ Kept /\ queue[i].status = "pending"
         /\ UNCHANGED <<limiter, req, deliveries, faults>>
         /\ \A j \in Iri : queue'[j].status # "none" => queue[j].status # "none"
<1>1. PICK c \in Row : c = queue[i]
  BY DEF QueueTyped
<1>2. PICK x : x = [c EXCEPT !.status = "done"]
  OBVIOUS
<1>3. x \in Row /\ x.status = "done" /\ x.object = c.object
  BY <1>2 DEF Row
<1>4. queue' = [queue EXCEPT ![i] = x]
  BY <1>1, <1>2 DEF Finish
<1>5. queue[i].status = "pending" /\ UNCHANGED <<limiter, req, deliveries, faults>>
  BY DEF Finish
<1>6. QueueTyped' /\ queue'[i] = x /\ \A j \in Iri : j # i => queue'[j] = queue[j]
  BY <1>3, <1>4, <1>5 DEF QueueTyped
<1> QED
  BY <1>1, <1>3, <1>5, <1>6 DEF Kept

LEMMA SaveTyped ==
  ASSUME TypeOK, NEW i \in Iri, Save(i)
  PROVE  stored' \subseteq Iri /\ thread' \subseteq Iri /\ applied' \subseteq Iri
<1>1. queue[i].object \in Iri /\ ObjectOf[i] \in Iri
  BY IntakeAssumption DEF TypeOK, Row
<1> QED
  BY <1>1, IntakeAssumption DEF Save, Joins, TypeOK

(* The history of the thread after a save. *)
LEMMA MetTyped ==
  ASSUME met \in Met, NEW c \in BOOLEAN, NEW s \in BOOLEAN
  PROVE  /\ [met EXCEPT !.crowded = c, !.started = s] \in Met
         /\ [met EXCEPT !.crowded = c] \in Met
         /\ [met EXCEPT !.fetched = TRUE] \in Met
         /\ [met EXCEPT !.spoiled = @ \/ c] \in Met
BY DEF Met

------------------------------------------------------------------------------
(* The limiter. *)

LEMMA AllowTyped ==
  ASSUME LimiterTypeOK, NEW p \in Process, NEW r \in Request, Allow(p, r)
  PROVE  LimiterTypeOK'
<1>1. SiteOf[r] \in Site /\ Valid(p, SiteOf[r]) \subseteq Request
  BY RateLimiterAssumption DEF LimiterTypeOK, Valid
<1>2. PICK V \in SUBSET Request : V = Valid(p, SiteOf[r]) \cup {r}
  BY <1>1
<1>3. requests' = [requests EXCEPT ![p][SiteOf[r]] = V]
  BY <1>2 DEF Allow
<1>4. requests' \in [Process -> [Site -> SUBSET Request]]
  BY <1>1, <1>3 DEF LimiterTypeOK
<1>5. /\ at' \in [Request -> 0..MaxTime] /\ admitted' \in [Process -> SUBSET Request]
      /\ now' = now
  BY DEF Allow, LimiterTypeOK
<1> QED
  BY <1>4, <1>5 DEF LimiterTypeOK

LEMMA DenyTyped ==
  ASSUME LimiterTypeOK, NEW p \in Process, NEW r \in Request, Deny(p, r)
  PROVE  LimiterTypeOK'
<1>1. SiteOf[r] \in Site /\ Valid(p, SiteOf[r]) \subseteq Request
  BY RateLimiterAssumption DEF LimiterTypeOK, Valid
<1>2. PICK V \in SUBSET Request : V = Valid(p, SiteOf[r])
  BY <1>1
<1>3. requests' = [requests EXCEPT ![p][SiteOf[r]] = V] /\ UNCHANGED <<now, at, admitted>>
  BY <1>2 DEF Deny
<1>4. requests' \in [Process -> [Site -> SUBSET Request]]
  BY <1>1, <1>3 DEF LimiterTypeOK
<1> QED
  BY <1>3, <1>4 DEF LimiterTypeOK

LEMMA TickTyped == ASSUME LimiterTypeOK, Tick PROVE LimiterTypeOK'
BY RateLimiterAssumption DEF LimiterTypeOK, Tick

LEMMA ForgetTyped == ASSUME LimiterTypeOK, NEW p \in Process, Forget(p) PROVE LimiterTypeOK'
BY DEF LimiterTypeOK, Forget

LEMMA LimiterStays == ASSUME LimiterTypeOK, UNCHANGED limiter PROVE LimiterTypeOK'
BY DEF LimiterTypeOK, limiter

------------------------------------------------------------------------------
(* Type correctness. *)

Typed == TypeOK /\ Lists

GraphTyped == stored \subseteq Iri /\ thread \subseteq Iri /\ applied \subseteq Iri
HistoryTyped ==
  promised \subseteq Iri /\ lost \subseteq Iri /\ shadowed \subseteq Iri /\ met \in Met

LEMMA Parts ==
  TypeOK <=> /\ LimiterTypeOK /\ req \in [Request -> Progress] /\ QueueTyped /\ GraphTyped
             /\ RunTyped /\ HistoryTyped /\ faults \in 0..MaxFaults
BY DEF TypeOK, QueueTyped, GraphTyped, RunTyped, HistoryTyped

LEMMA PartsNext ==
  ASSUME LimiterTypeOK', (req \in [Request -> Progress])', QueueTyped', GraphTyped', RunTyped',
         HistoryTyped', (faults \in 0..MaxFaults)'
  PROVE  TypeOK'
BY DEF TypeOK, QueueTyped, GraphTyped, RunTyped, HistoryTyped

LEMMA FaultTyped == ASSUME faults \in 0..MaxFaults, Faulty PROVE faults' \in 0..MaxFaults
BY IntakeAssumption DEF Faulty

LEMMA AdvanceTyped ==
  ASSUME req \in [Request -> Progress], NEW r \in Request, NEW a, NEW b \in Progress,
         Advance(r, a, b)
  PROVE  req' \in [Request -> Progress]
BY DEF Advance

LEMMA ItemsTyped == ASSUME NEW q \in Seq(Item) PROVE Items(q) \subseteq Iri
<1>1. ASSUME NEW n \in DOMAIN q PROVE q[n].iri \in Iri
  <2>1. n \in 1..Len(q)
    OBVIOUS
  <2>2. q[n] \in Item
    BY <2>1, ElementOfSeq
  <2> QED
    BY <2>2 DEF Item
<1> QED
  BY <1>1 DEF Items

LEMMA BackfillStays == ASSUME Typed, UNCHANGED backfill PROVE RunTyped' /\ HistoryTyped' /\ Lists'
BY DEF Typed, TypeOK, backfill, RunTyped, HistoryTyped, Lists

LEMMA GraphStays == ASSUME Typed, UNCHANGED graph PROVE GraphTyped'
BY DEF Typed, TypeOK, graph, GraphTyped

LEMMA TablesStay == ASSUME Typed, UNCHANGED tables PROVE QueueTyped' /\ Kept
BY DEF Typed, TypeOK, tables, QueueTyped, Kept

LEMMA Init0 == Init => Typed
<1> SUFFICES ASSUME Init PROVE Typed
  OBVIOUS
<1>1. LimiterTypeOK
  BY RateLimiterAssumption DEF Init, NewDomainRateLimiter, LimiterTypeOK
<1>2. req \in [Request -> Progress] /\ QueueTyped /\ GraphTyped /\ HistoryTyped
  BY DEF Init, Progress, QueueTyped, Row, GraphTyped, HistoryTyped, Met
<1>3. RunTyped /\ Lists
  BY IdleTyped DEF Init, RunTyped, Lists, Running
<1>4. faults \in 0..MaxFaults
  BY IntakeAssumption DEF Init
<1> QED
  BY <1>1, <1>2, <1>3, <1>4, Parts DEF Typed

LEMMA RequestTyped ==
  ASSUME Typed, NEW r \in Request,
         \/ Admit(r) \/ Throttle(r) \/ Refuse(r) \/ Enqueue(r) \/ EnqueueFails(r) \/ Answer(r)
  PROVE  Typed' /\ Kept /\ UNCHANGED <<graph, backfill>>
<1> DEFINE Rest == UNCHANGED <<graph, backfill>>
<1>1. Entry[r] \in Process /\ Names[r] \in Iri /\ ObjectOf[Names[r]] \in Iri /\ TenantOf[r] \in Tenant
  BY IntakeAssumption
<1>2. Rest
  BY DEF Admit, Throttle, Refuse, Enqueue, EnqueueFails, Answer
<1>3. RunTyped' /\ HistoryTyped' /\ Lists' /\ GraphTyped'
  BY <1>2, BackfillStays, GraphStays
<1>4. req' \in [Request -> Progress]
  BY AdvanceTyped DEF Admit, Throttle, Refuse, Enqueue, EnqueueFails, Answer, Progress, Typed, TypeOK
<1>5. LimiterTypeOK'
  BY <1>1, AllowTyped, DenyTyped, LimiterStays
     DEF Admit, Throttle, Refuse, Enqueue, EnqueueFails, Answer, Typed, TypeOK
<1>6. QueueTyped' /\ Kept
  <2>1. QueueTyped
    BY DEF Typed, TypeOK, QueueTyped
  <2> QED
    BY <1>1, <2>1, EnqueueEffect, TablesStay
       DEF Admit, Throttle, Refuse, Enqueue, EnqueueFails, Answer
<1>7. faults' \in 0..MaxFaults
  BY FaultTyped DEF Admit, Throttle, Refuse, Enqueue, EnqueueFails, Answer, Typed, TypeOK
<1>8. TypeOK'
  BY <1>3, <1>4, <1>5, <1>6, <1>7, PartsNext
<1> QED
  BY <1>2, <1>3, <1>6, <1>8 DEF Typed

LEMMA WorkTyped ==
  ASSUME Typed, NEW i \in Iri,
         Drop(i) \/ SaveOnly(i) \/ \E f \in Filler : SaveAndBackfill(f, i)
  PROVE  Typed' /\ Kept
<1>1. Finish(i) /\ QueueTyped
  BY DEF Drop, SaveOnly, SaveAndBackfill, Typed, TypeOK, QueueTyped
<1>2. QueueTyped' /\ Kept /\ UNCHANGED <<limiter, req, faults>>
  BY <1>1, FinishEffect
<1>3. LimiterTypeOK' /\ req' \in [Request -> Progress] /\ faults' \in 0..MaxFaults
  BY <1>2, LimiterStays DEF Typed, TypeOK
<1>4. CASE Drop(i)
  BY <1>2, <1>3, <1>4, BackfillStays, GraphStays, PartsNext DEF Drop, Typed
<1>5. CASE SaveOnly(i)
  <2>1. GraphTyped'
    BY <1>5, SaveTyped DEF SaveOnly, Typed, GraphTyped
  <2>2. met' \in Met
    BY <1>5, MetTyped DEF SaveOnly, Crowded, Typed, TypeOK, Met
  <2>3. RunTyped' /\ Lists' /\ HistoryTyped'
    BY <1>5, <2>2 DEF SaveOnly, Typed, TypeOK, RunTyped, HistoryTyped, Lists
  <2> QED
    BY <1>2, <1>3, <2>1, <2>3, PartsNext DEF Typed
<1>6. ASSUME NEW f \in Filler, SaveAndBackfill(f, i) PROVE Typed'
  <2>1. GraphTyped'
    BY <1>6, SaveTyped DEF SaveAndBackfill, Typed, GraphTyped
  <2>2. met' \in Met
    BY <1>6, MetTyped DEF SaveAndBackfill, Crowded, Typed, TypeOK, Met
  <2>3. queue[i].object \in Iri
    BY DEF Typed, TypeOK, Row
  <2>4. PICK x : x = [Idle EXCEPT !.stage = "count", !.object = queue[i].object]
    OBVIOUS
  <2>5. x \in RunState /\ x.stage = "count" /\ x.left = <<>>
    BY <2>3, <2>4, IdleTyped DEF RunState
  <2>6. run' = [run EXCEPT ![f] = x]
    BY <1>6, <2>4 DEF SaveAndBackfill
  <2>7. RunTyped' /\ Lists'
    BY <2>5, <2>6, PutEffect DEF Running, Typed, TypeOK, RunTyped
  <2>8. HistoryTyped'
    BY <1>6, <2>2 DEF SaveAndBackfill, Typed, TypeOK, HistoryTyped
  <2> QED
    BY <1>2, <1>3, <2>1, <2>7, <2>8, PartsNext DEF Typed
<1> QED
  BY <1>2, <1>4, <1>5, <1>6

Fill(f) ==
  \/ Count(f) \/ CountFails(f) \/ Fetch(f) \/ FetchNothing(f)
  \/ Skip(f) \/ Choose(f) \/ Get(f) \/ GetFails(f) \/ Put(f) \/ PutFails(f)
  \/ Timeout(f)

(* A fetch hands its goroutine the collection. *)
LEMMA FetchEffect ==
  ASSUME RunTyped, Lists, NEW f \in Filler, Fetch(f)
  PROVE  RunTyped' /\ Lists' /\ Others(f) /\ Items(run'[f].left) = Items(Collection)
<1>1. PICK d \in RunState : d = run[f]
  BY DEF RunTyped
<1>2. PICK c : c = [d EXCEPT !.stage = "item", !.left = Collection]
  OBVIOUS
<1>3. c \in RunState /\ c.stage = "item" /\ c.left = Collection /\ c.object = d.object
  BY <1>2, IntakeAssumption DEF RunState
<1>4. PICK x : x = IF Collection = <<>> THEN Idle ELSE c
  OBVIOUS
<1>5. x \in RunState /\ (x.stage \in Running <=> x.left # <<>>) /\ x.left = Collection
      /\ (x.stage \in Running => Owner[x.object] # Nowhere)
  BY <1>1, <1>3, <1>4, IdleTyped DEF Running, Fetch
<1>6. run' = [run EXCEPT ![f] = x]
  BY <1>1, <1>2, <1>4 DEF Fetch
<1> QED
  BY <1>5, <1>6, PutEffect

LEMMA FillTyped ==
  ASSUME Typed, NEW f \in Filler, Fill(f)
  PROVE  Typed' /\ Kept /\ Others(f) /\ UNCHANGED <<limiter, req, graph>>
<1>1. UNCHANGED <<limiter, req, graph>>
  BY DEF Fill, Count, CountFails, Fetch, FetchNothing, Skip, Choose, Get, GetFails, Put, PutFails,
         Timeout
<1>2. LimiterTypeOK' /\ req' \in [Request -> Progress] /\ GraphTyped'
  BY <1>1, LimiterStays, GraphStays DEF Typed, TypeOK
<1>3. faults' \in 0..MaxFaults
  BY FaultTyped DEF Fill, Count, CountFails, Fetch, FetchNothing, Skip, Choose, Get, GetFails,
     Put, PutFails, Timeout, Typed, TypeOK
<1>4. RunTyped /\ Lists /\ QueueTyped /\ HistoryTyped
  BY DEF Typed, TypeOK, RunTyped, QueueTyped, HistoryTyped
<1>5. RunTyped' /\ Lists' /\ Others(f)
  <2>1. CASE Count(f) \/ CountFails(f)
    BY <1>4, <2>1, EndEffect, GotoEffect DEF Count, CountFails, At, Running
  <2>2. CASE Fetch(f)
    BY <1>4, <2>2, FetchEffect
  <2>3. CASE FetchNothing(f) \/ Timeout(f)
    BY <1>4, <2>3, EndEffect DEF FetchNothing, Timeout
  <2>4. CASE Skip(f) \/ GetFails(f) \/ Put(f) \/ PutFails(f)
    BY <1>4, <2>4, NextEffect DEF Skip, GetFails, Put, PutFails, At, Running
  <2>5. CASE Choose(f)
    BY <1>4, <2>5, GotoEffect DEF Choose, At, Running
  <2>6. CASE Get(f)
    BY <1>4, <2>6, GotoEffect DEF Get, At, Running
  <2> QED
    BY <2>1, <2>2, <2>3, <2>4, <2>5, <2>6 DEF Fill
<1>6. QueueTyped' /\ Kept /\ shadowed' \subseteq Iri
  <2>1. CASE UNCHANGED <<tables, shadowed>>
    BY <1>4, <2>1, TablesStay DEF HistoryTyped
  <2>2. ASSUME At(f, "put"), NextItem(f), PutItem(f)
        PROVE  QueueTyped' /\ Kept /\ shadowed' \subseteq Iri
    <3>1. This(f).iri \in Iri
      BY <1>4, <2>2, NextEffect DEF At, Running, Item
    <3>2. Owner[run[f].object] \in Tenant
      <4>1. run[f].object \in Iri /\ Owner[run[f].object] # Nowhere
        BY <1>4, <2>2 DEF RunTyped, RunState, Lists, At, Running
      <4> QED
        BY <4>1, IntakeAssumption
    <3> QED
      BY <1>4, <2>2, <3>1, <3>2, EnqueueEffect DEF PutItem, HistoryTyped
  <2> QED
    BY <2>1, <2>2 DEF Fill, Count, CountFails, Fetch, FetchNothing, Skip, Choose, Get, GetFails,
       Put, PutFails, Timeout
<1>7. promised' \subseteq Iri /\ lost' \subseteq Iri
  <2>1. Items(Collection) \subseteq Iri /\ Items(run[f].left) \subseteq Iri
    BY <1>4, IntakeAssumption, ItemsTyped DEF RunTyped, RunState
  <2>2. run[f].stage \in Running /\ NextItem(f) => This(f).iri \in Iri
    BY <1>4, NextEffect DEF Item
  <2> QED
    BY <1>4, <2>1, <2>2 DEF Fill, Count, CountFails, Fetch, FetchNothing, Skip, Choose, Get,
       GetFails, Put, PutFails, Timeout, At, Running, HistoryTyped
<1>8. met' \in Met
  <2>1. Early(f) \in BOOLEAN
    BY DEF Early
  <2> QED
    BY <1>4, <2>1, MetTyped DEF Fill, Count, CountFails, Fetch, FetchNothing, Skip, Choose, Get,
       GetFails, Put, PutFails, Timeout, Spoil, HistoryTyped
<1>9. TypeOK'
  BY <1>2, <1>3, <1>5, <1>6, <1>7, <1>8, PartsNext DEF HistoryTyped
<1> QED
  BY <1>1, <1>5, <1>6, <1>9 DEF Typed

LEMMA CrashTyped ==
  ASSUME Typed, NEW p \in Process, Crash(p)
  PROVE  /\ Typed' /\ Kept /\ UNCHANGED <<tables, graph, promised, shadowed>>
         /\ \A f \in Filler : run'[f] = IF Home[f] = p THEN Idle ELSE run[f]
<1> DEFINE mine == {f \in Filler : Home[f] = p}
<1>1. UNCHANGED <<tables, graph, promised, shadowed>>
  BY DEF Crash
<1>2. QueueTyped' /\ Kept /\ GraphTyped'
  BY <1>1, TablesStay, GraphStays
<1>3. LimiterTypeOK' /\ faults' \in 0..MaxFaults
  BY ForgetTyped, FaultTyped DEF Crash, Typed, TypeOK
<1>4. req' \in [Request -> Progress]
  BY DEF Crash, Typed, TypeOK, Progress
<1>5. \A f \in Filler : run'[f] = IF Home[f] = p THEN Idle ELSE run[f]
  BY DEF Crash
<1>6. RunTyped'
  BY IdleTyped DEF Crash, Typed, TypeOK, RunTyped
<1>7. Lists'
  BY <1>5, IdleTyped DEF Lists, Running, Typed
<1>8. \A f \in Filler : Items(run[f].left) \subseteq Iri
  BY ItemsTyped DEF Typed, TypeOK, RunState
<1>9. lost' \subseteq Iri
  <2>1. lost' = lost \cup UNION {Items(run[f].left) : f \in mine}
    BY DEF Crash
  <2> QED
    BY <1>8, <2>1 DEF Typed, TypeOK
<1>10. met' \in Met
  <2>1. PICK c \in BOOLEAN : c = (\E f \in mine : Early(f))
    OBVIOUS
  <2>2. met' = [met EXCEPT !.spoiled = @ \/ c]
    BY <2>1 DEF Crash, Spoil
  <2> QED
    BY <2>2, MetTyped DEF Typed, TypeOK
<1>11. HistoryTyped'
  BY <1>1, <1>9, <1>10 DEF HistoryTyped, Typed, TypeOK
<1> QED
  BY <1>1, <1>2, <1>3, <1>4, <1>5, <1>6, <1>7, <1>11, PartsNext DEF Typed

LEMMA TimeTyped ==
  ASSUME Typed, Time
  PROVE  Typed' /\ Kept
<1>1. UNCHANGED <<req, tables, graph, backfill, faults>>
  BY DEF Time
<1>2. QueueTyped' /\ Kept /\ GraphTyped' /\ RunTyped' /\ HistoryTyped' /\ Lists'
  BY <1>1, TablesStay, GraphStays, BackfillStays
<1>3. LimiterTypeOK' /\ req' \in [Request -> Progress] /\ faults' \in 0..MaxFaults
  BY <1>1, TickTyped DEF Time, Typed, TypeOK
<1> QED
  BY <1>2, <1>3, PartsNext DEF Typed

Request3(r) == Admit(r) \/ Throttle(r) \/ Refuse(r) \/ Enqueue(r) \/ EnqueueFails(r) \/ Answer(r)
Work(i) == Drop(i) \/ SaveOnly(i) \/ \E f \in Filler : SaveAndBackfill(f, i)

(* The steps of the specification, as the lemmas take them. *)
LEMMA Steps ==
  ASSUME Next
  PROVE  \/ Time
         \/ \E r \in Request : Request3(r)
         \/ \E i \in Iri : Work(i)
         \/ \E f \in Filler : Fill(f)
         \/ \E p \in Process : Crash(p)
BY DEF Next, Request3, Work, Fill

LEMMA TypedStep == Typed /\ [Next]_vars => Typed' /\ Kept
<1>1. ASSUME Typed, UNCHANGED vars PROVE Typed' /\ Kept
  <2>1. UNCHANGED <<limiter, req, tables, graph, backfill, faults>>
    BY <1>1 DEF vars
  <2>2. QueueTyped' /\ Kept /\ GraphTyped' /\ RunTyped' /\ HistoryTyped' /\ Lists'
    BY <1>1, <2>1, TablesStay, GraphStays, BackfillStays
  <2>3. LimiterTypeOK' /\ req' \in [Request -> Progress] /\ faults' \in 0..MaxFaults
    BY <1>1, <2>1, LimiterStays DEF Typed, TypeOK
  <2> QED
    BY <2>2, <2>3, PartsNext DEF Typed
<1>2. ASSUME Typed, Next PROVE Typed' /\ Kept
  BY <1>2, Steps, TimeTyped, RequestTyped, WorkTyped, FillTyped, CrashTyped DEF Request3, Work
<1> QED
  BY <1>1, <1>2

(* Type correctness of the intake, and what a backfill needs to go through *)
(* its items.                                                              *)
THEOREM IntakeTypeCorrect == Spec => []TypeOK
<1>1. Spec => []Typed
  BY Init0, TypedStep, PTL DEF Spec
<1>2. Typed => TypeOK
  BY DEF Typed
<1> QED
  BY <1>1, <1>2, PTL

------------------------------------------------------------------------------
(* Answers and the queue. *)

(* EnqueueInbound commits before the answer, and nothing is taken back.    *)
THEOREM AnswersAreKept == Spec => []AnsweredIsKept
<1>1. Init => AnsweredIsKept
  BY DEF Init, AnsweredIsKept
<1>2. ASSUME Typed, Typed', Kept, AnsweredIsKept, [Next]_vars PROVE AnsweredIsKept'
  <2>1. SUFFICES ASSUME NEW q \in Request, req'[q] \in {"answer", "accepted"}
                 PROVE  queue'[Names[q]].status # "none" /\ <<Names[q], TenantOf[q]>> \in deliveries'
    BY DEF AnsweredIsKept
  <2>2. Names[q] \in Iri /\ ObjectOf[Names[q]] \in Iri /\ TenantOf[q] \in Tenant
    BY IntakeAssumption
  <2>3. CASE req[q] \in {"answer", "accepted"}
    BY <1>2, <2>2, <2>3 DEF AnsweredIsKept, Kept
  <2>4. CASE req[q] \notin {"answer", "accepted"}
    <3>1. req'[q] # req[q]
      BY <2>1, <2>4
    <3>2. ~ UNCHANGED req /\ Next
      BY <1>2, <3>1 DEF vars
    <3>3. ~ \E p \in Process : Crash(p)
      BY <2>1, <2>4 DEF Crash
    <3>4. ~ Time /\ ~ (\E i \in Iri : Work(i)) /\ ~ (\E f \in Filler : Fill(f))
      BY <1>2, <3>2, FillTyped DEF Time, Work, Drop, SaveOnly, SaveAndBackfill, Finish
    <3>5. PICK r \in Request : Request3(r)
      BY <3>2, <3>3, <3>4, Steps
    <3>6. r = q
      BY <1>2, <3>1, <3>5 DEF Request3, Admit, Throttle, Refuse, Enqueue, EnqueueFails, Answer,
         Advance, Typed, TypeOK
    <3>7. Enqueue(q)
      BY <1>2, <2>1, <2>4, <3>5, <3>6 DEF Request3, Admit, Throttle, Refuse, EnqueueFails, Answer,
         Advance, Typed, TypeOK
    <3> QED
      BY <1>2, <2>2, <3>7, EnqueueEffect DEF Enqueue, QueueTyped, Typed, TypeOK
  <2> QED
    BY <2>3, <2>4
<1> QED
  BY <1>1, <1>2, Init0, TypedStep, PTL DEF Spec

Rows == \A i \in Iri : queue[i].status # "none" => queue[i].object = ObjectOf[i] \/ i \in shadowed

LEMMA RowsStep ==
  ASSUME Typed, Typed', Kept, Rows, [Next]_vars
  PROVE  Rows' /\ shadowed \subseteq shadowed'
<1>1. ASSUME UNCHANGED shadowed, \A i \in Iri : queue'[i].status # "none" => queue[i].status # "none"
      PROVE  Rows' /\ shadowed \subseteq shadowed'
  BY <1>1 DEF Rows, Kept
<1>2. CASE UNCHANGED <<tables, shadowed>>
  BY <1>1, <1>2 DEF tables
<1>3. QueueTyped
  BY DEF Typed, TypeOK, QueueTyped
<1>4. ASSUME NEW i \in Iri, Work(i) PROVE Rows' /\ shadowed \subseteq shadowed'
  <2>1. Finish(i) /\ UNCHANGED shadowed
    BY <1>4 DEF Work, Drop, SaveOnly, SaveAndBackfill, backfill
  <2> QED
    BY <1>1, <1>3, <2>1, FinishEffect
<1>5. ASSUME NEW r \in Request, Request3(r) PROVE Rows' /\ shadowed \subseteq shadowed'
  <2>1. UNCHANGED shadowed
    BY <1>5, RequestTyped DEF Request3, backfill
  <2>2. CASE EnqueueInbound(Names[r], ObjectOf[Names[r]], TenantOf[r])
    <3>1. PICK i \in Iri : i = Names[r]
      BY IntakeAssumption
    <3>2. ObjectOf[i] \in Iri /\ TenantOf[r] \in Tenant
      BY IntakeAssumption
    <3>3. EnqueueInbound(i, ObjectOf[i], TenantOf[r])
      BY <2>2, <3>1
    <3>4. /\ queue[i].status = "none" => queue'[i].object = ObjectOf[i]
          /\ \A j \in Iri : j # i => queue'[j] = queue[j]
      BY <1>3, <3>2, <3>3, EnqueueEffect
    <3> QED
      BY <2>1, <3>4 DEF Rows, Kept
  <2>3. CASE UNCHANGED tables
    BY <1>2, <2>1, <2>3
  <2> QED
    BY <1>5, <2>2, <2>3 DEF Request3, Admit, Throttle, Refuse, Enqueue, EnqueueFails, Answer
<1>6. ASSUME NEW f \in Filler, Fill(f) PROVE Rows' /\ shadowed \subseteq shadowed'
  <2>1. CASE At(f, "put") /\ NextItem(f) /\ PutItem(f)
    <3>1. RunTyped /\ Lists
      BY DEF Typed, TypeOK, RunTyped
    <3>2. This(f).iri \in Iri
      BY <2>1, <3>1, NextEffect DEF At, Running, Item
    <3>3. Owner[run[f].object] \in Tenant
      <4>1. run[f].object \in Iri /\ Owner[run[f].object] # Nowhere
        BY <2>1, <3>1 DEF RunTyped, RunState, Lists, At, Running
      <4> QED
        BY <4>1, IntakeAssumption
    <3>4. EnqueueInbound(This(f).iri, This(f).iri, Owner[run[f].object])
      BY <2>1 DEF PutItem
    <3>5. shadowed' = IF queue[This(f).iri].status = "none" THEN shadowed \cup {This(f).iri}
                      ELSE shadowed
      BY <2>1 DEF PutItem
    <3>6. PICK i \in Iri : i = This(f).iri
      BY <3>2
    <3>7. \A j \in Iri : j # i => queue'[j] = queue[j]
      BY <1>3, <3>3, <3>4, <3>6, EnqueueEffect
    <3>8. queue[i].status = "none" => i \in shadowed'
      BY <3>5, <3>6
    <3>9. queue[i].status # "none" => queue'[i].object = queue[i].object
      BY DEF Kept
    <3>10. shadowed \subseteq shadowed'
      BY <3>5
    <3> QED
      BY <3>6, <3>7, <3>8, <3>9, <3>10 DEF Rows
  <2> QED
    BY <1>2, <1>6, <2>1 DEF Fill, Count, CountFails, Fetch, FetchNothing, Skip, Choose, Get,
       GetFails, Put, PutFails, Timeout
<1>7. CASE Time \/ \E p \in Process : Crash(p)
  BY <1>2, <1>7, CrashTyped DEF Time, backfill
<1>8. CASE UNCHANGED vars
  BY <1>2, <1>8 DEF vars, backfill
<1> QED
  BY <1>4, <1>5, <1>6, <1>7, <1>8, Steps

(* What an activity says is stored for its object, unless a backfill was   *)
(* the first to enqueue it: a row keeps the object it was enqueued with.   *)
THEOREM AppliedToObject == Spec => []AppliedToItsObject
<1>1. Init => Rows /\ AppliedToItsObject
  BY DEF Init, Rows, AppliedToItsObject
<1>2. ASSUME Typed, Typed', Kept, Rows, AppliedToItsObject, [Next]_vars
      PROVE  Rows' /\ AppliedToItsObject'
  <2>1. Rows' /\ shadowed \subseteq shadowed'
    BY <1>2, RowsStep
  <2>2. CASE UNCHANGED graph
    BY <1>2, <2>1, <2>2 DEF AppliedToItsObject, graph
  <2>3. ASSUME NEW i \in Iri, Work(i), ~ UNCHANGED graph PROVE AppliedToItsObject'
    <3>1. Finish(i) /\ Save(i)
      BY <2>3 DEF Work, Drop, SaveOnly, SaveAndBackfill
    <3>2. queue[i].object = ObjectOf[i] \/ i \in shadowed
      BY <1>2, <3>1 DEF Finish, Rows
    <3>3. stored' = stored \cup {queue[i].object} /\ applied' = applied \cup {i}
      BY <3>1 DEF Save
    <3> QED
      BY <1>2, <2>1, <3>2, <3>3 DEF AppliedToItsObject
  <2>4. UNCHANGED graph \/ \E i \in Iri : Work(i)
    <3>1. CASE UNCHANGED vars
      BY <3>1 DEF vars
    <3>2. CASE Next
      BY <1>2, <3>2, Steps, RequestTyped, FillTyped, CrashTyped DEF Request3, Time
    <3> QED
      BY <1>2, <3>1, <3>2
  <2> QED
    BY <2>1, <2>2, <2>3, <2>4
<1> QED
  BY <1>1, <1>2, Init0, TypedStep, PTL DEF Spec

------------------------------------------------------------------------------
(* The items of a collection. *)

Accounted(i) == i \in stored \/ i \in lost \/ queue[i].status # "none"

LEMMA AccountedStays ==
  ASSUME Typed, Kept, [Next]_vars, NEW i \in Iri, Accounted(i)
  PROVE  Accounted(i)'
<1>1. stored \subseteq stored'
  <2>1. CASE UNCHANGED graph
    BY <2>1 DEF graph
  <2>2. ASSUME NEW j \in Iri, Work(j) PROVE stored \subseteq stored'
    BY <2>2 DEF Work, Drop, SaveOnly, SaveAndBackfill, Save, graph
  <2>3. CASE UNCHANGED vars
    BY <2>1, <2>3 DEF vars
  <2> QED
    BY <2>1, <2>2, <2>3, Steps, RequestTyped, FillTyped, CrashTyped DEF Request3, Time
<1>2. lost \subseteq lost'
  <2>1. CASE UNCHANGED backfill
    BY <2>1 DEF backfill
  <2>2. ASSUME NEW j \in Iri, Work(j) PROVE lost \subseteq lost'
    BY <2>2 DEF Work, Drop, SaveOnly, SaveAndBackfill, backfill
  <2>3. ASSUME NEW f \in Filler, Fill(f) PROVE lost \subseteq lost'
    BY <2>3 DEF Fill, Count, CountFails, Fetch, FetchNothing, Skip, Choose, Get, GetFails, Put,
       PutFails, Timeout
  <2>4. ASSUME NEW p \in Process, Crash(p) PROVE lost \subseteq lost'
    BY <2>4 DEF Crash
  <2>5. CASE UNCHANGED vars
    BY <2>1, <2>5 DEF vars
  <2> QED
    BY <2>1, <2>2, <2>3, <2>4, <2>5, Steps, RequestTyped DEF Request3, Time
<1> QED
  BY <1>1, <1>2 DEF Accounted, Kept

(* A goroutine lets go of an item only when it is accounted for. *)
LEMMA LetGo ==
  ASSUME Typed, NEW f \in Filler, Fill(f), NEW i \in Iri, i \in Items(run[f].left)
  PROVE  Accounted(i)' \/ i \in Items(run'[f].left)
<1>1. RunTyped /\ Lists /\ QueueTyped
  BY DEF Typed, TypeOK, RunTyped, QueueTyped
<1>2. run[f].stage \in Running
  <2>1. Items(<<>>) = {}
    BY DEF Items
  <2> QED
    BY <1>1, <2>1 DEF Lists
<1>3. CASE Choose(f)
  BY <1>1, <1>3, GotoEffect DEF Choose, At, Running
<1>4. CASE Get(f)
  BY <1>1, <1>4, GotoEffect DEF Get, At, Running
<1>5. CASE Timeout(f)
  BY <1>5 DEF Timeout, Accounted
<1>6. ASSUME NextItem(f), i = This(f).iri => Accounted(i)' PROVE Accounted(i)' \/ i \in Items(run'[f].left)
  BY <1>1, <1>2, <1>6, NextEffect
<1>7. CASE Skip(f) \/ GetFails(f)
  <2>1. stored' = stored \/ GetFails(f)
    BY <1>7 DEF Skip, graph
  <2> QED
    BY <1>6, <1>7, <2>1 DEF Skip, GetFails, Accounted
<1>8. ASSUME PutItem(f), NextItem(f), i = This(f).iri PROVE queue'[i].status # "none"
  <2>1. run[f].object \in Iri /\ Owner[run[f].object] # Nowhere
    BY <1>1, <1>2 DEF RunTyped, RunState, Lists
  <2>2. Owner[run[f].object] \in Tenant
    BY <2>1, IntakeAssumption
  <2>3. EnqueueInbound(i, i, Owner[run[f].object])
    BY <1>8 DEF PutItem
  <2> QED
    BY <1>1, <2>2, <2>3, EnqueueEffect
<1>9. CASE Put(f) \/ PutFails(f)
  BY <1>6, <1>8, <1>9 DEF Put, PutFails, Accounted
<1> QED
  BY <1>2, <1>3, <1>4, <1>5, <1>7, <1>9 DEF Fill, Count, CountFails, Fetch, FetchNothing, At, Running

(* No item of a fetched collection is dropped because of another one.      *)
THEOREM NothingIsDropped == Spec => []ItemsAreAccounted
<1>1. Init => ItemsAreAccounted
  BY DEF Init, ItemsAreAccounted
<1>2. ASSUME Typed, Typed', Kept, ItemsAreAccounted, [Next]_vars PROVE ItemsAreAccounted'
  <2>1. SUFFICES ASSUME NEW i \in promised'
                 PROVE  Accounted(i)' \/ \E f \in Filler : i \in Items(run'[f].left)
    BY DEF ItemsAreAccounted, Accounted
  <2>2. i \in Iri
    BY <1>2, <2>1 DEF Typed, TypeOK
  <2>3. ASSUME NEW f \in Filler, i \in Items(run[f].left)
        PROVE  Accounted(i)' \/ i \in Items(run'[f].left)
    <3>1. CASE run'[f] = run[f]
      BY <2>3, <3>1
    <3>2. ASSUME NEW g \in Filler, Fill(g), run'[f] # run[f] PROVE Fill(f)
      BY <1>2, <3>2, FillTyped DEF Others
    <3>3. ASSUME NEW j \in Iri, Work(j) PROVE run'[f] = run[f]
      <4>1. Items(<<>>) = {}
        BY DEF Items
      <4>2. run[f].stage # "idle"
        BY <1>2, <2>3, <4>1 DEF Typed, Lists, Running
      <4> QED
        BY <1>2, <3>3, <4>2 DEF Work, Drop, SaveOnly, SaveAndBackfill, backfill, Typed, TypeOK
    <3>4. ASSUME NEW p \in Process, Crash(p), run'[f] # run[f] PROVE Accounted(i)'
      <4>1. Home[f] = p
        BY <3>4, CrashTyped, <1>2
      <4> QED
        BY <2>3, <3>4, <4>1 DEF Crash, Accounted
    <3>5. CASE UNCHANGED run
      BY <3>1, <3>5
    <3> QED
      BY <1>2, <2>2, <2>3, <3>1, <3>2, <3>3, <3>4, <3>5, LetGo, Steps, RequestTyped
         DEF Request3, Time, backfill, vars
  <2>4. CASE i \in promised
    BY <1>2, <2>2, <2>3, <2>4, AccountedStays DEF ItemsAreAccounted, Accounted
  <2>5. CASE i \notin promised
    <3>1. ~ UNCHANGED promised
      BY <2>1, <2>5
    <3>2. ~ UNCHANGED backfill /\ Next
      BY <1>2, <3>1 DEF backfill, vars
    <3>3. PICK f \in Filler : Fill(f)
      BY <1>2, <3>1, <3>2, Steps, RequestTyped, CrashTyped
         DEF Request3, Time, Work, Drop, SaveOnly, SaveAndBackfill
    <3>4. Fetch(f)
      BY <3>1, <3>3 DEF Fill, Count, CountFails, FetchNothing, Skip, Choose, Get, GetFails, Put,
         PutFails, Timeout
    <3>5. i \in Items(Collection)
      BY <2>1, <2>5, <3>4 DEF Fetch
    <3> QED
      BY <1>2, <3>4, <3>5, FetchEffect DEF Typed, TypeOK, RunTyped
  <2> QED
    BY <2>4, <2>5
<1> QED
  BY <1>1, <1>2, Init0, TypedStep, PTL DEF Spec

------------------------------------------------------------------------------
(* The thread. *)

Excused == met.fetched \/ met.crowded \/ met.spoiled
Underway(f) == Early(f) /\ Owner[run[f].object] # Nowhere

Due ==
  /\ met.started => Excused \/ \E f \in Filler : Underway(f)
  /\ Cardinality(thread) > 1 => met.crowded \/ met.fetched

LEMMA MetFields ==
  ASSUME met \in Met, NEW c \in BOOLEAN, NEW s \in BOOLEAN
  PROVE  /\ \A m : m = [met EXCEPT !.crowded = c, !.started = s] =>
              m.crowded = c /\ m.started = s /\ m.fetched = met.fetched /\ m.spoiled = met.spoiled
         /\ \A m : m = [met EXCEPT !.crowded = c] =>
              m.crowded = c /\ m.started = met.started /\ m.fetched = met.fetched
              /\ m.spoiled = met.spoiled
         /\ \A m : m = [met EXCEPT !.fetched = TRUE] =>
              m.fetched /\ m.crowded = met.crowded
         /\ \A m : m = [met EXCEPT !.spoiled = @ \/ c] =>
              m.spoiled = (met.spoiled \/ c) /\ m.started = met.started
              /\ m.fetched = met.fetched /\ m.crowded = met.crowded
BY DEF Met

LEMMA DueWork ==
  ASSUME Typed, Due, NEW i \in Iri, Work(i)
  PROVE  Due'
<1>1. met \in Met /\ RunTyped
  BY DEF Typed, TypeOK, RunTyped
<1>2. CASE Drop(i)
  BY <1>2 DEF Drop, graph, backfill, Due, Excused, Underway, Early
<1>3. Crowded \in BOOLEAN
  BY <1>1 DEF Crowded, Met
<1>4. CASE SaveOnly(i)
  <2>1. met' = [met EXCEPT !.crowded = Crowded] /\ run' = run
    BY <1>4 DEF SaveOnly
  <2>2. /\ met'.crowded = Crowded /\ met'.started = met.started /\ met'.fetched = met.fetched
        /\ met'.spoiled = met.spoiled
    BY <1>1, <1>3, <2>1, MetFields
  <2> QED
    BY <2>1, <2>2 DEF Due, Excused, Underway, Early, Crowded
<1>5. ASSUME NEW f \in Filler, SaveAndBackfill(f, i) PROVE Due'
  <2>1. PICK s \in BOOLEAN : s = (met.started \/ Owner[queue[i].object] # Nowhere)
    BY <1>1 DEF Met
  <2>2. met' = [met EXCEPT !.crowded = Crowded, !.started = s]
    BY <1>5, <2>1 DEF SaveAndBackfill
  <2>3. /\ met'.crowded = Crowded /\ met'.started = s /\ met'.fetched = met.fetched
        /\ met'.spoiled = met.spoiled
    BY <1>1, <1>3, <2>2, MetFields
  <2>4. PICK x : x = [Idle EXCEPT !.stage = "count", !.object = queue[i].object]
    OBVIOUS
  <2>5. x.stage = "count" /\ x.object = queue[i].object
    BY <2>4 DEF Idle
  <2>6. run' = [run EXCEPT ![f] = x] /\ run[f].stage = "idle"
    BY <1>5, <2>4 DEF SaveAndBackfill
  <2>7. run'[f] = x /\ \A g \in Filler : g # f => run'[g] = run[g]
    BY <1>1, <2>6 DEF RunTyped
  <2>8. Owner[queue[i].object] # Nowhere => Underway(f)'
    BY <2>5, <2>7 DEF Underway, Early
  <2>9. \A g \in Filler : Underway(g) => g # f
    BY <2>6 DEF Underway, Early
  <2>10. \A g \in Filler : Underway(g) => Underway(g)'
    BY <2>7, <2>9 DEF Underway, Early
  <2> QED
    BY <2>1, <2>3, <2>8, <2>10 DEF Due, Excused, Crowded
<1> QED
  BY <1>2, <1>4, <1>5 DEF Work

(* A goroutine stops being underway only by a fetch, a fault, or a second  *)
(* member that it counted.                                                 *)
LEMMA DueFill ==
  ASSUME Typed, Typed', Due, NEW f \in Filler, Fill(f), Others(f), UNCHANGED graph
  PROVE  Due'
<1>1. met \in Met /\ RunTyped /\ Lists /\ met' \in Met
  BY DEF Typed, TypeOK, RunTyped
<1>2. thread' = thread
  BY DEF graph
<1>3. \A g \in Filler : g # f => Underway(g)' = Underway(g)
  BY DEF Others, Underway, Early
<1>4. ASSUME met' = met, Underway(f) => Underway(f)' \/ Excused PROVE Due'
  BY <1>2, <1>3, <1>4 DEF Due, Excused
<1>5. CASE Count(f)
  <2>1. CASE Cardinality(thread) > 1
    BY <1>4, <1>5, <2>1 DEF Count, Due, Excused
  <2>2. CASE ~ (Cardinality(thread) > 1)
    <3>1. Goto(f, "fetch") /\ run[f].stage \notin Running /\ met' = met
      BY <1>5, <2>2 DEF Count, At, Running
    <3>2. run'[f].stage = "fetch" /\ run'[f].object = run[f].object
      BY <1>1, <3>1, GotoEffect DEF Running
    <3> QED
      BY <1>4, <3>1, <3>2 DEF Underway, Early
  <2> QED
    BY <2>1, <2>2
<1>6. ASSUME met' = Spoil(TRUE) PROVE Due'
  <2>1. met'.spoiled /\ met'.fetched = met.fetched /\ met'.crowded = met.crowded
    BY <1>1, <1>6, MetFields DEF Spoil
  <2> QED
    BY <1>2, <2>1 DEF Due, Excused
<1>7. CASE CountFails(f)
  <2>1. CASE Goto(f, "fetch") /\ met' = met
    <3>1. run[f].stage \notin Running
      BY <1>7 DEF CountFails, At, Running
    <3>2. run'[f].stage = "fetch" /\ run'[f].object = run[f].object
      BY <1>1, <2>1, <3>1, GotoEffect DEF Running
    <3> QED
      BY <1>4, <2>1, <3>2 DEF Underway, Early
  <2> QED
    BY <1>6, <1>7, <2>1 DEF CountFails
<1>8. CASE Fetch(f)
  <2>1. met'.fetched
    BY <1>1, <1>8, MetFields DEF Fetch
  <2> QED
    BY <2>1 DEF Due, Excused
<1>9. CASE FetchNothing(f)
  BY <1>4, <1>6, <1>9 DEF FetchNothing, Underway
<1>10. CASE Timeout(f)
  <2>1. CASE Early(f)
    <3>1. met' = Spoil(TRUE)
      BY <1>10, <2>1 DEF Timeout, Spoil
    <3> QED
      BY <1>6, <3>1
  <2>2. CASE ~ Early(f)
    <3>1. Early(f) \in BOOLEAN
      BY DEF Early
    <3>2. PICK c \in BOOLEAN : c = Early(f)
      BY <3>1
    <3>3. met' = [met EXCEPT !.spoiled = @ \/ c]
      BY <1>10, <3>2 DEF Timeout, Spoil
    <3>4. /\ met'.spoiled = met.spoiled /\ met'.fetched = met.fetched
          /\ met'.crowded = met.crowded /\ met'.started = met.started
      BY <1>1, <2>2, <3>2, <3>3, MetFields DEF Met
    <3> QED
      BY <1>2, <1>3, <2>2, <3>4 DEF Due, Excused, Underway
  <2> QED
    BY <2>1, <2>2
<1>11. ASSUME run[f].stage \in Running, met' = met PROVE Due'
  BY <1>4, <1>11 DEF Underway, Early, Running
<1> QED
  BY <1>5, <1>7, <1>8, <1>9, <1>10, <1>11
     DEF Fill, Skip, Choose, Get, GetFails, Put, PutFails, At, Running

LEMMA DueCrash ==
  ASSUME Typed, Due, NEW p \in Process, Crash(p)
  PROVE  Due'
<1> DEFINE mine == {f \in Filler : Home[f] = p}
<1>1. met \in Met /\ thread' = thread
  BY CrashTyped DEF Typed, TypeOK, graph
<1>2. PICK c \in BOOLEAN : c = (\E f \in mine : Early(f))
  OBVIOUS
<1>3. met' = [met EXCEPT !.spoiled = @ \/ c]
  BY <1>2 DEF Crash, Spoil
<1>4. /\ met'.spoiled = (met.spoiled \/ c) /\ met'.fetched = met.fetched
      /\ met'.crowded = met.crowded /\ met'.started = met.started
  <2>1. PICK m \in Met : m = met
    BY <1>1
  <2>2. PICK n : n = [m EXCEPT !.spoiled = @ \/ c]
    OBVIOUS
  <2>3. /\ n.spoiled = (m.spoiled \/ c) /\ n.fetched = m.fetched
        /\ n.crowded = m.crowded /\ n.started = m.started
    BY <1>2, <2>2 DEF Met
  <2>4. met' = n
    BY <1>3, <2>1, <2>2
  <2> QED
    BY <2>1, <2>3, <2>4
<1>5. \A f \in Filler : f \notin mine => run'[f] = run[f]
  BY CrashTyped
<1>6. \A f \in Filler : Underway(f) => Underway(f)' \/ c
  BY <1>2, <1>5 DEF Underway, Early
<1> QED
  BY <1>1, <1>4, <1>6 DEF Due, Excused

(* A thread that a local object names is fetched, but for a fault or a     *)
(* second member that the goroutines met.                                  *)
THEOREM ThreadsAreFetched == Spec => []ThreadIsFetched
<1>1. Init => Due
  <2> SUFFICES ASSUME Init PROVE Due
    OBVIOUS
  <2>1. Cardinality(thread) = 0 /\ ~ met.started
    BY FS_EmptySet DEF Init
  <2> QED
    BY <2>1 DEF Due
<1>2. ASSUME Typed, Typed', Due, [Next]_vars PROVE Due'
  <2>1. CASE UNCHANGED <<graph, backfill>>
    BY <1>2, <2>1 DEF graph, backfill, Due, Excused, Underway, Early
  <2>2. CASE UNCHANGED vars
    BY <2>1, <2>2 DEF vars
  <2> QED
    BY <1>2, <2>1, <2>2, Steps, RequestTyped, FillTyped, DueWork, DueFill, DueCrash
       DEF Request3, Time
<1>3. Due => ThreadIsFetched
  BY DEF Due, Excused, Underway, Early, ThreadIsFetched, At
<1> QED
  BY <1>1, <1>2, <1>3, Init0, TypedStep, PTL DEF Spec

------------------------------------------------------------------------------
(* The limiter forgets exactly what lies before the cutoff. *)

Remembered ==
  /\ \A p \in Process, s \in Site : \A q \in requests[p][s] : q \in admitted[p] /\ SiteOf[q] = s
  /\ \A p \in Process : \A q \in admitted[p] :
       /\ Entry[q] = p /\ req[q] # "new" /\ at[q] <= now
       /\ at[q] > now - Window => q \in requests[p][SiteOf[q]]

LEMMA RecentFinite ==
  ASSUME LimiterTypeOK, NEW p \in Process, NEW s \in Site, NEW t \in Int
  PROVE  Recent(p, s, t) \in SUBSET Request /\ IsFiniteSet(Recent(p, s, t))
<1>1. Recent(p, s, t) \in SUBSET Request
  BY DEF Recent, LimiterTypeOK
<1> QED
  BY <1>1, RateLimiterAssumption, FS_Subset

(* A request that is let through fills the last free place at most. *)
LEMMA AllowBound ==
  ASSUME Typed, LimiterTypeOK', Remembered, WindowBound,
         NEW r \in Request, req[r] = "new", Allow(Entry[r], r),
         NEW p \in Process, NEW s \in Site, NEW t \in 0..MaxTime
  PROVE  Cardinality(Recent(p, s, t)') <= Limit
<1>1. LimiterTypeOK /\ now \in Int /\ t \in Int /\ Window \in Int /\ Limit \in Int /\ Entry[r] \in Process
  BY RateLimiterAssumption, IntakeAssumption DEF Typed, TypeOK, LimiterTypeOK
<1>2. \A q \in Request : at[q] \in Int /\ (q # r => at'[q] = at[q])
  BY <1>1 DEF LimiterTypeOK, Allow
<1>3. at'[r] = now /\ r \notin admitted[p]
  BY <1>1 DEF LimiterTypeOK, Allow, Remembered
<1>4. admitted'[p] = IF p = Entry[r] THEN admitted[p] \cup {r} ELSE admitted[p]
  BY <1>1 DEF LimiterTypeOK, Allow
<1>5. IsFiniteSet(Recent(p, s, t)) /\ Cardinality(Recent(p, s, t)) \in Nat
      /\ Cardinality(Recent(p, s, t)) <= Limit
  BY <1>1, RecentFinite, FS_CardinalityType DEF WindowBound
<1>6. PICK R : R = Recent(p, s, t)'
  OBVIOUS
<1>7. \A q : q \in R <=> /\ q \in admitted'[p] /\ SiteOf[q] = s
                         /\ at'[q] > t - Window /\ at'[q] <= t
  BY <1>6 DEF Recent
<1>8. admitted[p] \subseteq Request
  BY <1>1 DEF LimiterTypeOK
<1>9. CASE r \notin R
  <2>1. R \subseteq Recent(p, s, t)
    BY <1>2, <1>3, <1>4, <1>7, <1>8, <1>9 DEF Recent
  <2> QED
    BY <1>1, <1>5, <1>6, <2>1, FS_Subset, FS_CardinalityType
<1>10. CASE r \in R
  <2>1. p = Entry[r] /\ SiteOf[r] = s /\ now <= t
    BY <1>3, <1>4, <1>7, <1>10
  <2>2. ASSUME NEW q \in R, q # r PROVE q \in Valid(p, s)
    <3>1. q \in admitted[p] /\ SiteOf[q] = s /\ at[q] > t - Window
      BY <1>2, <1>4, <1>7, <1>8, <2>2
    <3>2. at[q] > now - Window
      BY <1>1, <1>2, <1>8, <2>1, <3>1
    <3> QED
      BY <3>1, <3>2 DEF Remembered, Valid
  <2>3. R \subseteq Valid(p, s) \cup {r}
    BY <2>2
  <2>4. Valid(p, s) \in SUBSET Request
    BY <1>1 DEF Valid, LimiterTypeOK
  <2>5. IsFiniteSet(Valid(p, s)) /\ Cardinality(Valid(p, s)) \in Nat
    BY <2>4, RateLimiterAssumption, FS_Subset, FS_CardinalityType
  <2>6. IsFiniteSet(Valid(p, s) \cup {r}) /\ Cardinality(Valid(p, s) \cup {r}) <= Cardinality(Valid(p, s)) + 1
    BY <2>5, FS_AddElement
  <2>7. Cardinality(Valid(p, s)) < Limit
    BY <2>1 DEF Allow
  <2>8. Cardinality(R) <= Cardinality(Valid(p, s) \cup {r}) /\ Cardinality(R) \in Nat
        /\ Cardinality(Valid(p, s) \cup {r}) \in Nat
    BY <2>3, <2>6, FS_Subset, FS_CardinalityType
  <2> QED
    BY <1>1, <1>6, <2>5, <2>6, <2>7, <2>8
<1> QED
  BY <1>9, <1>10

LEMMA AllowRemembers ==
  ASSUME Typed, Remembered, NEW r \in Request, Advance(r, "new", "handle"), Allow(Entry[r], r)
  PROVE  Remembered'
<1>1. LimiterTypeOK /\ Entry[r] \in Process /\ SiteOf[r] \in Site /\ now \in Int /\ Window \in Int
  BY RateLimiterAssumption, IntakeAssumption DEF Typed, TypeOK, LimiterTypeOK
<1>2. /\ \A q \in Request : at[q] \in Int /\ (q # r => at'[q] = at[q] /\ req'[q] = req[q])
      /\ at'[r] = now /\ req'[r] = "handle" /\ now' = now
  BY <1>1 DEF LimiterTypeOK, Allow, Advance, Typed, TypeOK
<1>3. PICK V \in SUBSET Request : V = Valid(Entry[r], SiteOf[r])
  BY <1>1 DEF Valid, LimiterTypeOK
<1>4. requests' = [requests EXCEPT ![Entry[r]][SiteOf[r]] = V \cup {r}]
  BY <1>3 DEF Allow
<1>5. \A p \in Process, s \in Site :
        requests'[p][s] = IF p = Entry[r] /\ s = SiteOf[r] THEN V \cup {r} ELSE requests[p][s]
  BY <1>1, <1>4 DEF LimiterTypeOK
<1>6. \A p \in Process : admitted'[p] = IF p = Entry[r] THEN admitted[p] \cup {r} ELSE admitted[p]
  BY <1>1 DEF LimiterTypeOK, Allow
<1>7. \A p \in Process : r \notin admitted[p] /\ admitted[p] \subseteq Request
  BY <1>1 DEF LimiterTypeOK, Remembered, Advance
<1>8. \A q \in V : q \in requests[Entry[r]][SiteOf[r]]
  BY <1>3 DEF Valid
<1>9. \A p \in Process, s \in Site :
        \A q \in requests'[p][s] : q \in admitted'[p] /\ SiteOf[q] = s
  <2> SUFFICES ASSUME NEW p \in Process, NEW s \in Site, NEW q \in requests'[p][s]
               PROVE  q \in admitted'[p] /\ SiteOf[q] = s
    OBVIOUS
  <2>1. \A x \in requests[p][s] : x \in admitted[p] /\ SiteOf[x] = s
    BY DEF Remembered
  <2>2. admitted[p] \subseteq admitted'[p]
    BY <1>6
  <2>3. CASE q \in requests[p][s]
    BY <2>1, <2>2, <2>3
  <2>4. CASE q \notin requests[p][s]
    <3>1. p = Entry[r] /\ s = SiteOf[r] /\ q \in V \cup {r}
      BY <1>5, <2>4
    <3>2. q = r
      BY <1>8, <2>4, <3>1
    <3>3. r \in admitted'[p]
      BY <1>6, <3>1
    <3> QED
      BY <3>1, <3>2, <3>3
  <2> QED
    BY <2>3, <2>4
<1>10. ASSUME NEW p \in Process, NEW q \in admitted'[p]
       PROVE  /\ Entry[q] = p /\ req'[q] # "new" /\ at'[q] <= now'
              /\ at'[q] > now' - Window => q \in requests'[p][SiteOf[q]]
  <2>1. CASE q = r
    <3>1. p = Entry[r]
      BY <1>6, <1>7, <1>10, <2>1
    <3> QED
      BY <1>1, <1>2, <1>5, <2>1, <3>1
  <2>2. CASE q # r
    <3>1. q \in admitted[p] /\ q \in Request /\ SiteOf[q] \in Site
      BY <1>6, <1>7, <1>10, <2>2, RateLimiterAssumption
    <3>2. Entry[q] = p /\ req'[q] # "new" /\ at'[q] <= now'
      BY <1>2, <2>2, <3>1 DEF Remembered
    <3>3. ASSUME at'[q] > now' - Window PROVE q \in requests'[p][SiteOf[q]]
      <4>1. at[q] > now - Window /\ q \in requests[p][SiteOf[q]]
        BY <1>2, <2>2, <3>1, <3>3 DEF Remembered
      <4>2. p = Entry[r] /\ SiteOf[q] = SiteOf[r] => q \in V
        BY <1>3, <4>1 DEF Valid
      <4> QED
        BY <1>5, <3>1, <4>1, <4>2
    <3> QED
      BY <3>2, <3>3
  <2> QED
    BY <2>1, <2>2
<1> QED
  BY <1>9, <1>10 DEF Remembered

LEMMA DenyRemembers ==
  ASSUME Typed, Remembered, NEW r \in Request, Advance(r, "new", "throttled"), Deny(Entry[r], r)
  PROVE  Remembered' /\ UNCHANGED <<now, at, admitted>>
<1>1. LimiterTypeOK /\ Entry[r] \in Process /\ SiteOf[r] \in Site
  BY RateLimiterAssumption, IntakeAssumption DEF Typed, TypeOK
<1>2. UNCHANGED <<now, at, admitted>> /\ \A q \in Request : req[q] # "new" => req'[q] # "new"
  BY DEF Deny, Advance, Typed, TypeOK
<1>3. PICK V \in SUBSET Request : V = Valid(Entry[r], SiteOf[r])
  BY <1>1 DEF Valid, LimiterTypeOK
<1>4. requests' = [requests EXCEPT ![Entry[r]][SiteOf[r]] = V]
  BY <1>3 DEF Deny
<1>5. \A p \in Process, s \in Site :
        requests'[p][s] = IF p = Entry[r] /\ s = SiteOf[r] THEN V ELSE requests[p][s]
  BY <1>1, <1>4 DEF LimiterTypeOK
<1>6. \A q : q \in V <=> q \in requests[Entry[r]][SiteOf[r]] /\ at[q] > now - Window
  BY <1>3 DEF Valid
<1>7. \A p \in Process : admitted[p] \subseteq Request
  BY <1>1 DEF LimiterTypeOK
<1> QED
  BY <1>2, <1>5, <1>6, <1>7, RateLimiterAssumption DEF Remembered

(* Steps that leave what the limiter keeps, and start no request anew. *)
LEMMA LimiterIdle ==
  ASSUME Typed, Remembered, WindowBound, UNCHANGED limiter,
         \A q \in Request : req[q] # "new" => req'[q] # "new"
  PROVE  Remembered' /\ WindowBound'
<1>1. \A p \in Process : admitted[p] \subseteq Request
  BY DEF Typed, TypeOK, LimiterTypeOK
<1> QED
  BY <1>1 DEF limiter, Remembered, WindowBound, Recent

LEMMA TickRemembers ==
  ASSUME Typed, Remembered, WindowBound, Time
  PROVE  Remembered' /\ WindowBound'
<1>1. now' = now + 1 /\ UNCHANGED <<at, requests, admitted, req>>
  BY DEF Time, Tick
<1>2. now \in Int /\ Window \in Int /\ \A p \in Process : \A q \in admitted[p] : at[q] \in Int
  BY RateLimiterAssumption DEF Typed, TypeOK, LimiterTypeOK
<1>3. Remembered'
  BY <1>1, <1>2 DEF Remembered
<1>4. WindowBound'
  BY <1>1 DEF WindowBound, Recent
<1> QED
  BY <1>3, <1>4

LEMMA CrashRemembers ==
  ASSUME Typed, Remembered, WindowBound, NEW p \in Process, Crash(p)
  PROVE  Remembered' /\ WindowBound'
<1>1. LimiterTypeOK /\ UNCHANGED <<now, at>>
  BY DEF Crash, Forget, Typed, TypeOK
<1>2. /\ \A q \in Process : admitted'[q] = IF q = p THEN {} ELSE admitted[q]
      /\ \A q \in Process, s \in Site : requests'[q][s] = IF q = p THEN {} ELSE requests[q][s]
  BY <1>1 DEF Crash, Forget, LimiterTypeOK
<1>3. \A q \in Request : req[q] # "new" => req'[q] # "new"
  BY DEF Crash
<1>4. \A q \in Process : admitted[q] \subseteq Request
  BY <1>1 DEF LimiterTypeOK
<1>5. Remembered'
  BY <1>1, <1>2, <1>3, <1>4, RateLimiterAssumption DEF Remembered
<1>6. ASSUME NEW q \in Process, NEW s \in Site, NEW t \in 0..MaxTime
      PROVE  Cardinality(Recent(q, s, t)') <= Limit
  <2>1. CASE q = p
    <3>1. Recent(q, s, t)' = {}
      BY <1>2, <2>1 DEF Recent
    <3> QED
      BY <3>1, FS_EmptySet, RateLimiterAssumption
  <2>2. CASE q # p
    <3>1. Recent(q, s, t)' = Recent(q, s, t)
      BY <1>1, <1>2, <2>2 DEF Recent
    <3> QED
      BY <3>1 DEF WindowBound
  <2> QED
    BY <2>1, <2>2
<1> QED
  BY <1>5, <1>6 DEF WindowBound

LEMMA BoundStep ==
  ASSUME Typed, Typed', Remembered, WindowBound, [Next]_vars
  PROVE  Remembered' /\ WindowBound'
<1>1. ASSUME NEW r \in Request, Admit(r) PROVE Remembered' /\ WindowBound'
  <2>1. CASE r \in Limited
    <3>1. Advance(r, "new", "handle") /\ Allow(Entry[r], r) /\ req[r] = "new"
      BY <1>1, <2>1 DEF Admit, Advance
    <3>2. LimiterTypeOK'
      BY DEF Typed, TypeOK
    <3> QED
      BY <3>1, <3>2, AllowRemembers, AllowBound DEF WindowBound
  <2>2. CASE r \notin Limited
    BY <1>1, <2>2, LimiterIdle DEF Admit, Advance, Typed, TypeOK
  <2> QED
    BY <2>1, <2>2
<1>2. ASSUME NEW r \in Request, Throttle(r) PROVE Remembered' /\ WindowBound'
  <2>1. Remembered' /\ UNCHANGED <<now, at, admitted>>
    BY <1>2, DenyRemembers DEF Throttle
  <2> QED
    BY <2>1 DEF WindowBound, Recent
<1>3. ASSUME NEW r \in Request, Refuse(r) \/ Enqueue(r) \/ EnqueueFails(r) \/ Answer(r)
      PROVE  Remembered' /\ WindowBound'
  <2>1. UNCHANGED limiter /\ \A q \in Request : req[q] # "new" => req'[q] # "new"
    BY <1>3 DEF Refuse, Enqueue, EnqueueFails, Answer, Advance, Typed, TypeOK
  <2> QED
    BY <2>1, LimiterIdle
<1>4. ASSUME NEW i \in Iri, Work(i) PROVE Remembered' /\ WindowBound'
  BY <1>4, LimiterIdle DEF Work, Drop, SaveOnly, SaveAndBackfill, Finish
<1>5. ASSUME NEW f \in Filler, Fill(f) PROVE Remembered' /\ WindowBound'
  BY <1>5, FillTyped, LimiterIdle
<1>6. CASE UNCHANGED vars
  BY <1>6, LimiterIdle DEF vars
<1> QED
  BY <1>1, <1>2, <1>3, <1>4, <1>5, <1>6, Steps, TickRemembers, CrashRemembers DEF Request3

LEMMA Init1 == Init => Remembered /\ WindowBound
<1> SUFFICES ASSUME Init PROVE Remembered /\ WindowBound
  OBVIOUS
<1>1. Remembered
  BY DEF Init, NewDomainRateLimiter, Remembered
<1>2. \A p \in Process, s \in Site, t \in 0..MaxTime : Recent(p, s, t) = {}
  BY DEF Init, NewDomainRateLimiter, Recent
<1> QED
  BY <1>1, <1>2, FS_EmptySet, RateLimiterAssumption DEF WindowBound

(* No window holds more requests of a site than the limit, whatever passes *)
(* by, starts again or is refused in between.                              *)
THEOREM WindowsAreBounded == Spec => []WindowBound
BY Init0, Init1, TypedStep, BoundStep, PTL DEF Spec

(* Whoever is refused had used up the window. *)
THEOREM RefusedWhenFull == Spec => ThrottledOnlyWhenFull
<1> DEFINE A == \A r \in Request : req[r] = "new" /\ req'[r] = "throttled" =>
                  Cardinality(Recent(Entry[r], SiteOf[r], now)) >= Limit
<1>1. ASSUME Typed, Typed', Remembered, [Next]_vars PROVE [A]_vars
  <2>1. SUFFICES ASSUME Next, NEW r \in Request, req[r] = "new", req'[r] = "throttled"
                 PROVE  Cardinality(Recent(Entry[r], SiteOf[r], now)) >= Limit
    BY <1>1
  <2>2. ~ UNCHANGED req
    BY <2>1
  <2>3. PICK q \in Request : Request3(q)
    BY <1>1, <2>1, <2>2, Steps, FillTyped
       DEF Time, Work, Drop, SaveOnly, SaveAndBackfill, Finish, Crash
  <2>4. Throttle(r)
    BY <1>1, <2>1, <2>3 DEF Request3, Admit, Throttle, Refuse, Enqueue, EnqueueFails, Answer,
       Advance, Typed, TypeOK
  <2>5. LimiterTypeOK /\ Entry[r] \in Process /\ SiteOf[r] \in Site /\ now \in Int
    BY <1>1, RateLimiterAssumption, IntakeAssumption DEF Typed, TypeOK, LimiterTypeOK
  <2>6. Valid(Entry[r], SiteOf[r]) \subseteq Recent(Entry[r], SiteOf[r], now)
    BY <1>1, <2>5 DEF Valid, Recent, Remembered
  <2>7. PICK V : V = Valid(Entry[r], SiteOf[r])
    OBVIOUS
  <2>8. PICK R : R = Recent(Entry[r], SiteOf[r], now)
    OBVIOUS
  <2>9. IsFiniteSet(R) /\ V \in SUBSET R
    BY <2>5, <2>6, <2>7, <2>8, RecentFinite
  <2>10. Cardinality(V) <= Cardinality(R) /\ Cardinality(V) \in Nat /\ Cardinality(R) \in Nat
    BY <2>9, FS_Subset, FS_CardinalityType
  <2>11. Cardinality(V) >= Limit
    BY <2>4, <2>7 DEF Throttle, Deny
  <2> QED
    BY <2>8, <2>10, <2>11, RateLimiterAssumption
<1>2. Spec => [][A]_vars
  BY <1>1, Init0, Init1, TypedStep, BoundStep, PTL DEF Spec
<1> QED
  BY <1>2 DEF ThrottledOnlyWhenFull

==============================================================================
