-------------------------- MODULE BatchEngineProofs --------------------------
(***************************************************************************)
(* Proofs about the worker pool: every goroutine step preserves the type,  *)
(* the shape and the exclusive ownership of tasks, provided a claim        *)
(* returns distinct tasks that nobody holds or has locked.  The step       *)
(* lemmas are used again by the proofs of the two queues.                  *)
(***************************************************************************)
EXTENDS BatchEngine, SequenceTheorems, TLAPS

EngineInv == EngineTypeOK /\ EngineShape /\ HeldOnce

(* The claim contract. *)
FreshBatch(q) ==
  /\ q \in Seq(Task) /\ Len(q) \in 1..BatchSize
  /\ Distinct(q)
  /\ Elems(q) \cap (Held \cup Locked) = {}

------------------------------------------------------------------------------
(* Sequences of distinct elements. *)

(* The empty sequence holds nothing. *)
LEMMA ElemsEmpty == Elems(<<>>) = {} /\ Distinct(<<>>) /\ <<>> \in Seq(Task)
  BY DEF Elems, Distinct

(* Only the empty sequence has length zero. *)
LEMMA LenZero ==
  ASSUME NEW S, NEW q \in Seq(S)
  PROVE  Len(q) \in Nat /\ ((q = <<>>) <=> (Len(q) = 0))
  BY EmptySeq, LenProperties

(* Pushing a new element keeps a sequence distinct and adds just it. *)
LEMMA ElemsAppend ==
  ASSUME NEW S, NEW q \in Seq(S), NEW x \in S
  PROVE  /\ Append(q, x) \in Seq(S) /\ Len(Append(q, x)) = Len(q) + 1
         /\ Append(q, x) # <<>>
         /\ Elems(Append(q, x)) = Elems(q) \cup {x}
         /\ Distinct(q) /\ x \notin Elems(q) => Distinct(Append(q, x))
<1> DEFINE r == Append(q, x)
<1>1. /\ r \in Seq(S) /\ Len(r) = Len(q) + 1 /\ DOMAIN r = 1..(Len(q) + 1)
      /\ \A i \in 1..Len(q) : r[i] = q[i]
      /\ r[Len(q) + 1] = x /\ DOMAIN q = 1..Len(q) /\ Len(q) \in Nat
  OBVIOUS
<1>2. r # <<>>
  BY <1>1
<1>3. Elems(r) = Elems(q) \cup {x}
  BY <1>1 DEF Elems
<1>4. ASSUME Distinct(q), x \notin Elems(q)
      PROVE  Distinct(r)
  BY <1>1, <1>4 DEF Elems, Distinct
<1> QED
  BY <1>1, <1>2, <1>3, <1>4

(* Taking the head of a distinct sequence removes just it. *)
LEMMA ElemsTail ==
  ASSUME NEW S, NEW q \in Seq(S), q # <<>>, Distinct(q)
  PROVE  /\ Head(q) \in S /\ Head(q) \in Elems(q)
         /\ Tail(q) \in Seq(S) /\ Len(Tail(q)) = Len(q) - 1
         /\ Elems(Tail(q)) = Elems(q) \ {Head(q)}
         /\ Distinct(Tail(q))
         /\ (Tail(q) = <<>>) <=> (Len(q) = 1)
<1> DEFINE r == Tail(q)
<1>1. /\ Len(q) \in Nat /\ Len(q) >= 1 /\ DOMAIN q = 1..Len(q) /\ Head(q) = q[1]
      /\ r \in Seq(S) /\ Len(r) = Len(q) - 1 /\ DOMAIN r = 1..(Len(q) - 1)
      /\ \A i \in 1..(Len(q) - 1) : r[i] = q[i + 1]
      /\ \A i \in 1..Len(q) : q[i] \in S
  OBVIOUS
<1>2. Head(q) \in S /\ Head(q) \in Elems(q)
  BY <1>1 DEF Elems
<1>3. Elems(r) = Elems(q) \ {Head(q)}
  <2>1. ASSUME NEW x \in Elems(r) PROVE x \in Elems(q) \ {Head(q)}
    <3>1. PICK i \in 1..(Len(q) - 1) : x = r[i]
      BY <1>1, <2>1 DEF Elems
    <3>2. x = q[i + 1] /\ i + 1 \in 1..Len(q) /\ i + 1 # 1 /\ 1 \in 1..Len(q)
      BY <1>1, <3>1
    <3> QED
      BY <1>1, <3>2 DEF Elems, Distinct
  <2>2. ASSUME NEW x \in Elems(q), x # Head(q) PROVE x \in Elems(r)
    <3>1. PICK i \in 1..Len(q) : x = q[i]
      BY <1>1, <2>2 DEF Elems
    <3>2. i # 1
      BY <1>1, <2>2, <3>1
    <3>3. i - 1 \in 1..(Len(q) - 1) /\ r[i - 1] = x
      BY <1>1, <3>1, <3>2
    <3> QED
      BY <1>1, <3>3 DEF Elems
  <2> QED
    BY <2>1, <2>2
<1>4. Distinct(r)
  BY <1>1 DEF Distinct
<1>5. (r = <<>>) <=> (Len(q) = 1)
  <2>1. (r = <<>>) <=> (Len(r) = 0)
    BY <1>1, LenZero
  <2> QED
    BY <1>1, <2>1
<1> QED
  BY <1>1, <1>2, <1>3, <1>4, <1>5

(* What it means to be held, and to be locked by an open claim. *)
LEMMA HeldMember ==
  ASSUME NEW a
  PROVE  /\ a \in Held <=> \/ \E t \in Server : a \in Claimed(t) \/ a \in Elems(channel[t])
                           \/ \E w \in Worker : job[w] = a /\ a # NoTask
         /\ a \in Locked <=> \E t \in Server : poller[t] = "claiming" /\ a \in Elems(batch[t])
<1>1. a \in Running <=> \E w \in Worker : job[w] = a /\ a # NoTask
  BY DEF Running
<1>2. a \in UNION {Claimed(s) \cup Elems(channel[s]) : s \in Server}
        <=> \E t \in Server : a \in Claimed(t) \/ a \in Elems(channel[t])
  BY Zenon
<1>3. a \in Locked <=> \E t \in Server : poller[t] = "claiming" /\ a \in Elems(batch[t])
  BY DEF Locked
<1>4. a \in Held <=> \/ a \in UNION {Claimed(s) \cup Elems(channel[s]) : s \in Server}
                     \/ a \in Running
  BY Zenon DEF Held
<1>5. a \in Held <=> \/ \E t \in Server : a \in Claimed(t) \/ a \in Elems(channel[t])
                     \/ \E w \in Worker : job[w] = a /\ a # NoTask
  BY <1>1, <1>2, <1>4
<1> QED
  BY <1>3, <1>5

------------------------------------------------------------------------------
(* One lemma per action of the engine. *)

(* Opening a claim on a fresh batch preserves the invariant. *)
LEMMA BeginClaimStep ==
  ASSUME EngineInv, NEW s \in Server, NEW q, FreshBatch(q), BeginClaim(s, q)
  PROVE  EngineInv'
<1> USE EngineAssumption DEF EngineInv, FreshBatch
<1>1. EngineTypeOK'
  BY DEF BeginClaim, EngineTypeOK
<1>2. EngineShape'
  BY DEF BeginClaim, EngineTypeOK, EngineShape
<1>3. HeldOnce'
  <2>1. /\ batch[s] = <<>> /\ engine' = engine /\ channel' = channel /\ job' = job
        /\ batch'[s] = q /\ \A t \in Server : t # s => batch'[t] = batch[t]
    BY DEF BeginClaim, EngineTypeOK, EngineShape
  <2>2. \A t \in Server : Elems(q) \cap Elems(batch[t]) = {}
    <3>1. SUFFICES ASSUME NEW t \in Server, NEW a \in Elems(q), a \in Elems(batch[t])
                   PROVE  FALSE
      OBVIOUS
    <3>2. batch[t] # <<>>
      BY <3>1, ElemsEmpty
    <3>3. poller[t] \in {"claiming", "sending"}
      BY <3>2 DEF EngineShape
    <3>4. a \in Held \cup Locked
      BY <3>1, <3>3, HeldMember DEF Claimed
    <3> QED
      BY <3>1, <3>4
  <2>3. \A t \in Server : Elems(q) \cap Elems(channel[t]) = {}
    BY HeldMember
  <2>4. \A w \in Worker : job[w] # NoTask => job[w] \notin Elems(q)
    BY HeldMember
  <2> QED
    BY <2>1, <2>2, <2>3, <2>4 DEF HeldOnce
<1> QED
  BY <1>1, <1>2, <1>3

(* A claim that returns its tasks moves nothing. *)
LEMMA ClaimReturnsStep ==
  ASSUME EngineInv, NEW s \in Server, ClaimReturns(s)
  PROVE  EngineInv'
  BY DEF EngineInv, ClaimReturns, EngineTypeOK, EngineShape, HeldOnce, WorkersOf

(* Dropping a batch, after a failed claim or on cancellation. *)
LEMMA DropBatchStep ==
  ASSUME EngineInv, NEW s \in Server, ClaimErrors(s) \/ ClosePoller(s)
  PROVE  EngineInv'
<1> USE DEF EngineInv, ClaimErrors, ClosePoller
<1>1. EngineTypeOK'
  BY ElemsEmpty DEF EngineTypeOK
<1>2. EngineShape'
  BY ElemsEmpty, EngineAssumption DEF EngineTypeOK, EngineShape, WorkersOf
<1>3. HeldOnce'
  <2>1. /\ channel' = channel /\ job' = job /\ Elems(batch'[s]) = {} /\ Distinct(batch'[s])
        /\ \A t \in Server : t # s => batch'[t] = batch[t]
    BY ElemsEmpty DEF EngineTypeOK
  <2> QED
    BY <2>1 DEF HeldOnce
<1> QED
  BY <1>1, <1>2, <1>3

(* Pushing a task moves it from the batch to the channel. *)
LEMMA SendTaskStep ==
  ASSUME EngineInv, NEW s \in Server, SendTask(s)
  PROVE  /\ EngineInv'
         /\ Elems(batch'[s]) \cup Elems(channel'[s]) = Elems(batch[s]) \cup Elems(channel[s])
         /\ \A t \in Server : t # s => batch'[t] = batch[t] /\ channel'[t] = channel[t]
         /\ Claimed(s)' = Elems(batch'[s]) /\ Claimed(s) = Elems(batch[s])
<1> DEFINE b == batch[s]
           c == channel[s]
<1>1. /\ b \in Seq(Task) /\ b # <<>> /\ Distinct(b) /\ Len(b) <= BatchSize
      /\ c \in Seq(Task) /\ Distinct(c) /\ Len(c) < BatchSize
      /\ Elems(b) \cap Elems(c) = {} /\ Len(b) \in Nat /\ Len(c) \in Nat
  BY DEF EngineInv, EngineTypeOK, EngineShape, HeldOnce, SendTask
<1>2. /\ batch'[s] = Tail(b) /\ channel'[s] = Append(c, Head(b))
      /\ poller'[s] = IF Len(b) = 1 THEN "waiting" ELSE "sending"
      /\ \A t \in Server : t # s =>
           batch'[t] = batch[t] /\ channel'[t] = channel[t] /\ poller'[t] = poller[t]
      /\ engine' = engine /\ job' = job /\ poller[s] = "sending"
  BY DEF EngineInv, EngineTypeOK, SendTask
<1>3. /\ Head(b) \in Task /\ Head(b) \in Elems(b)
      /\ Tail(b) \in Seq(Task) /\ Len(Tail(b)) = Len(b) - 1
      /\ Elems(Tail(b)) = Elems(b) \ {Head(b)} /\ Distinct(Tail(b))
      /\ (Tail(b) = <<>>) <=> (Len(b) = 1)
  BY <1>1, ElemsTail
<1>4. /\ Append(c, Head(b)) \in Seq(Task) /\ Len(Append(c, Head(b))) = Len(c) + 1
      /\ Append(c, Head(b)) # <<>>
      /\ Elems(Append(c, Head(b))) = Elems(c) \cup {Head(b)}
      /\ Distinct(Append(c, Head(b)))
  BY <1>1, <1>3, ElemsAppend
<1>5. EngineTypeOK'
  BY <1>3, <1>4 DEF EngineInv, EngineTypeOK, SendTask
<1>6. EngineShape'
  <2>1. \A t \in Server : t # s => Len(batch[t]) <= BatchSize /\ Len(channel[t]) <= BatchSize
    BY DEF EngineInv, EngineShape
  <2>2. Len(batch'[s]) <= BatchSize /\ Len(channel'[s]) <= BatchSize
    BY <1>1, <1>2, <1>3, <1>4, EngineAssumption DEF EngineInv, EngineTypeOK, EngineShape
  <2>3. (batch'[s] # <<>>) <=> (poller'[s] \in {"claiming", "sending"})
    BY <1>2, <1>3
  <2>4. engine[s] # "down" /\ poller'[s] # "closed"
    BY <1>2 DEF EngineInv, EngineShape
  <2> QED
    BY <1>2, <2>1, <2>2, <2>3, <2>4 DEF EngineInv, EngineShape, WorkersOf
<1>7. HeldOnce'
  <2>1. /\ Elems(batch'[s]) \subseteq Elems(b) /\ Distinct(batch'[s])
        /\ Elems(channel'[s]) \subseteq Elems(b) \cup Elems(c) /\ Distinct(channel'[s])
        /\ Elems(batch'[s]) \cap Elems(channel'[s]) = {}
    BY <1>1, <1>2, <1>3, <1>4
  <2>2. \A t \in Server : Distinct(batch'[t]) /\ Distinct(channel'[t])
    BY <1>2, <2>1 DEF EngineInv, HeldOnce
  <2>3. ASSUME NEW t \in Server, NEW u \in Server
        PROVE  /\ Elems(batch'[t]) \cap Elems(channel'[u]) = {}
               /\ t # u => /\ Elems(batch'[t]) \cap Elems(batch'[u]) = {}
                           /\ Elems(channel'[t]) \cap Elems(channel'[u]) = {}
    <3>1. CASE t = s /\ u = s
      BY <2>1, <3>1
    <3>2. CASE t = s /\ u # s
      BY <1>2, <2>1, <3>2 DEF EngineInv, HeldOnce
    <3>3. CASE t # s /\ u = s
      BY <1>2, <2>1, <3>3 DEF EngineInv, HeldOnce
    <3>4. CASE t # s /\ u # s
      BY <1>2, <3>4 DEF EngineInv, HeldOnce
    <3> QED
      BY <3>1, <3>2, <3>3, <3>4
  <2>4. \A w \in Worker, t \in Server :
          job'[w] # NoTask => job'[w] \notin Elems(batch'[t]) \cup Elems(channel'[t])
    BY <1>2, <2>1 DEF EngineInv, HeldOnce
  <2> QED
    BY <1>2, <2>2, <2>3, <2>4 DEF EngineInv, HeldOnce
<1>8. /\ Elems(batch'[s]) \cup Elems(channel'[s]) = Elems(b) \cup Elems(c)
      /\ Claimed(s)' = Elems(batch'[s]) /\ Claimed(s) = Elems(batch[s])
  <2>1. Len(b) = 1 => Elems(Tail(b)) = {}
    BY <1>3, ElemsEmpty
  <2> QED
    BY <1>2, <1>3, <1>4, <2>1 DEF Claimed
<1> QED
  BY <1>2, <1>5, <1>6, <1>7, <1>8 DEF EngineInv

(* Taking a task moves it from the channel to an idle worker. *)
LEMMA TakeTaskStep ==
  ASSUME EngineInv, NEW w \in Worker, TakeTask(w)
  PROVE  /\ EngineInv'
         /\ job[w] = NoTask /\ job'[w] \in Task /\ job'[w] \in Elems(channel[ServerOf[w]])
         /\ \A v \in Worker : v # w => job'[v] = job[v]
         /\ batch' = batch /\ poller' = poller
         /\ \A t \in Server : Elems(channel'[t]) =
              IF t = ServerOf[w] THEN Elems(channel[t]) \ {job'[w]} ELSE Elems(channel[t])
<1> DEFINE s == ServerOf[w]
           c == channel[s]
<1>1. /\ s \in Server /\ c \in Seq(Task) /\ c # <<>> /\ Distinct(c)
      /\ Len(c) \in Nat /\ Len(c) <= BatchSize /\ BatchSize \in Nat
  <2>1. s \in Server /\ BatchSize \in Nat
    BY EngineAssumption
  <2>2. c \in Seq(Task) /\ Len(c) <= BatchSize /\ Distinct(c)
    BY <2>1 DEF EngineInv, EngineTypeOK, EngineShape, HeldOnce
  <2>3. c # <<>>
    BY DEF TakeTask
  <2> QED
    BY <2>1, <2>2, <2>3, LenZero
<1>2. /\ job[w] = NoTask /\ job'[w] = Head(c) /\ channel'[s] = Tail(c)
      /\ \A v \in Worker : v # w => job'[v] = job[v]
      /\ \A t \in Server : t # s => channel'[t] = channel[t]
      /\ engine' = engine /\ poller' = poller /\ batch' = batch
  BY <1>1 DEF EngineInv, EngineTypeOK, TakeTask
<1>3. /\ Head(c) \in Task /\ Head(c) \in Elems(c)
      /\ Tail(c) \in Seq(Task) /\ Len(Tail(c)) = Len(c) - 1
      /\ Elems(Tail(c)) = Elems(c) \ {Head(c)} /\ Distinct(Tail(c))
  BY <1>1, ElemsTail
<1>4. EngineTypeOK'
  BY <1>1, <1>3 DEF EngineInv, EngineTypeOK, TakeTask
<1>5. EngineShape'
  BY <1>1, <1>2, <1>3, EngineAssumption DEF EngineInv, EngineTypeOK, EngineShape, WorkersOf
<1>6. HeldOnce'
  <2>1. /\ \A t \in Server : Distinct(batch'[t]) /\ Distinct(channel'[t])
        /\ \A t \in Server : Elems(channel'[t]) \subseteq Elems(channel[t])
    BY <1>2, <1>3 DEF EngineInv, HeldOnce
  <2>2. \A t, u \in Server :
          /\ Elems(batch'[t]) \cap Elems(channel'[u]) = {}
          /\ t # u => /\ Elems(batch'[t]) \cap Elems(batch'[u]) = {}
                      /\ Elems(channel'[t]) \cap Elems(channel'[u]) = {}
    BY <1>2, <2>1 DEF EngineInv, HeldOnce
  <2>3. ASSUME NEW t \in Server
        PROVE  Head(c) \notin Elems(batch[t]) \cup Elems(channel'[t])
    <3>1. Elems(batch[t]) \cap Elems(c) = {} /\ (t # s => Elems(channel[t]) \cap Elems(c) = {})
      BY <1>1 DEF EngineInv, HeldOnce
    <3>2. Head(c) \notin Elems(channel'[t])
      BY <1>2, <1>3, <3>1
    <3> QED
      BY <1>3, <3>1, <3>2
  <2>4. \A v \in Worker, t \in Server :
          job'[v] # NoTask => job'[v] \notin Elems(batch'[t]) \cup Elems(channel'[t])
    BY <1>2, <2>1, <2>3 DEF EngineInv, HeldOnce
  <2>5. \A v \in Worker : job[v] # Head(c)
    BY <1>1, <1>3, EngineAssumption DEF EngineInv, HeldOnce
  <2>6. \A v, u \in Worker : v # u /\ job'[v] = job'[u] => job'[v] = NoTask
    BY <1>2, <2>5 DEF EngineInv, HeldOnce
  <2> QED
    BY <2>1, <2>2, <2>4, <2>6 DEF HeldOnce
<1>7. \A t \in Server : Elems(channel'[t]) =
        IF t = s THEN Elems(channel[t]) \ {job'[w]} ELSE Elems(channel[t])
  BY <1>2, <1>3
<1>8. job'[w] \in Task /\ job'[w] \in Elems(c)
  BY <1>2, <1>3
<1>9. EngineInv'
  BY <1>4, <1>5, <1>6 DEF EngineInv
<1> QED
  BY <1>2, <1>7, <1>8, <1>9

(* Finishing a task frees the worker. *)
LEMMA FinishTaskStep ==
  ASSUME EngineInv, NEW w \in Worker, FinishTask(w)
  PROVE  EngineInv'
<1>1. EngineTypeOK'
  BY DEF EngineInv, FinishTask, EngineTypeOK
<1>2. EngineShape'
  BY DEF EngineInv, FinishTask, EngineTypeOK, EngineShape, WorkersOf
<1>3. HeldOnce'
  BY DEF EngineInv, FinishTask, EngineTypeOK, HeldOnce
<1> QED
  BY <1>1, <1>2, <1>3 DEF EngineInv

(* Cancelling the context and starting a process touch no task. *)
LEMMA ContextStep ==
  ASSUME EngineInv, NEW s \in Server, Cancel(s) \/ Boot(s)
  PROVE  EngineInv'
<1> USE DEF EngineInv, Cancel, Boot
<1>1. EngineTypeOK'
  BY DEF EngineTypeOK
<1>2. EngineShape'
  BY DEF EngineTypeOK, EngineShape, WorkersOf
<1>3. HeldOnce'
  BY DEF HeldOnce
<1> QED
  BY <1>1, <1>2, <1>3

(* The end of a process forgets all it held, and nothing else. *)
LEMMA KillStep ==
  ASSUME EngineInv, NEW s \in Server, Kill(s)
  PROVE  /\ EngineInv'
         /\ batch'[s] = <<>> /\ channel'[s] = <<>> /\ poller'[s] = "closed"
         /\ \A t \in Server : t # s =>
              batch'[t] = batch[t] /\ channel'[t] = channel[t] /\ poller'[t] = poller[t]
         /\ \A w \in Worker : job'[w] = IF ServerOf[w] = s THEN NoTask ELSE job[w]
<1>1. /\ batch'[s] = <<>> /\ channel'[s] = <<>> /\ poller'[s] = "closed" /\ engine'[s] = "down"
      /\ \A t \in Server : t # s =>
           /\ batch'[t] = batch[t] /\ channel'[t] = channel[t]
           /\ poller'[t] = poller[t] /\ engine'[t] = engine[t]
      /\ \A w \in Worker : job'[w] = IF ServerOf[w] = s THEN NoTask ELSE job[w]
  BY DEF EngineInv, EngineTypeOK, Kill
<1>2. EngineTypeOK'
  BY ElemsEmpty DEF EngineInv, EngineTypeOK, Kill
<1>3. EngineShape'
  <2>1. Len(<<>>) = 0 /\ BatchSize \in Nat
    BY EngineAssumption
  <2> QED
    BY <1>1, <2>1 DEF EngineInv, EngineShape, WorkersOf
<1>4. HeldOnce'
  <2>1. \A t \in Server : /\ Elems(batch'[t]) \subseteq Elems(batch[t])
                          /\ Elems(channel'[t]) \subseteq Elems(channel[t])
                          /\ Distinct(batch'[t]) /\ Distinct(channel'[t])
    BY <1>1, ElemsEmpty DEF EngineInv, HeldOnce
  <2>2. \A w \in Worker : job'[w] \in {job[w], NoTask}
    BY <1>1
  <2>3. \A t, u \in Server :
          /\ Elems(batch'[t]) \cap Elems(channel'[u]) = {}
          /\ t # u => /\ Elems(batch'[t]) \cap Elems(batch'[u]) = {}
                      /\ Elems(channel'[t]) \cap Elems(channel'[u]) = {}
    BY <2>1 DEF EngineInv, HeldOnce
  <2>4. \A w \in Worker, t \in Server :
          job'[w] # NoTask => job'[w] \notin Elems(batch'[t]) \cup Elems(channel'[t])
    BY <2>1, <2>2 DEF EngineInv, HeldOnce
  <2>5. \A v, w \in Worker : v # w /\ job'[v] = job'[w] => job'[v] = NoTask
    BY <2>2 DEF EngineInv, HeldOnce
  <2> QED
    BY <2>1, <2>3, <2>4, <2>5 DEF HeldOnce
<1> QED
  BY <1>1, <1>2, <1>3, <1>4 DEF EngineInv

------------------------------------------------------------------------------
(* With the contract of claimBatch, the worker pool never holds a task     *)
(* twice, never overfills its channel and forgets what it holds when it    *)
(* dies, for any number of servers, workers and tasks and any batch size.  *)
THEOREM EngineSafety == EngineSpec => [](EngineTypeOK /\ EngineShape /\ HeldOnce)
<1>1. EngineInit => EngineInv
  <2> SUFFICES ASSUME EngineInit PROVE EngineInv
    OBVIOUS
  <2>1. EngineTypeOK
    BY ElemsEmpty DEF EngineInit, EngineTypeOK
  <2>2. EngineShape
    BY EngineAssumption DEF EngineInit, EngineShape, WorkersOf
  <2>3. HeldOnce
    BY ElemsEmpty DEF EngineInit, HeldOnce
  <2> QED
    BY <2>1, <2>2, <2>3 DEF EngineInv
<1>2. EngineInv /\ [EngineNext]_engineVars => EngineInv'
  <2> SUFFICES ASSUME EngineInv, [EngineNext]_engineVars PROVE EngineInv'
    OBVIOUS
  <2>1. ASSUME NEW s \in Server, NEW q \in Batches, Distinct(q), BeginClaim(s, q)
        PROVE  EngineInv'
    <3>1. PICK n \in 1..BatchSize : q \in [1..n -> Task \ (Held \cup Locked)]
      BY <2>1 DEF Batches
    <3>2. n \in Nat /\ q \in Seq(Task) /\ Len(q) = n /\ DOMAIN q = 1..n
      BY <3>1, EngineAssumption
    <3>3. FreshBatch(q)
      BY <2>1, <3>1, <3>2 DEF FreshBatch, Elems
    <3> QED
      BY <2>1, <3>3, BeginClaimStep
  <2>2. ASSUME NEW s \in Server, ClaimReturns(s) PROVE EngineInv'
    BY <2>2, ClaimReturnsStep
  <2>3. ASSUME NEW s \in Server, ClaimErrors(s) \/ ClosePoller(s) PROVE EngineInv'
    BY <2>3, DropBatchStep
  <2>4. ASSUME NEW s \in Server, SendTask(s) PROVE EngineInv'
    BY <2>4, SendTaskStep
  <2>5. ASSUME NEW s \in Server, Cancel(s) \/ Boot(s) PROVE EngineInv'
    BY <2>5, ContextStep
  <2>6. ASSUME NEW s \in Server, Kill(s) PROVE EngineInv'
    BY <2>6, KillStep
  <2>7. ASSUME NEW w \in Worker, TakeTask(w) PROVE EngineInv'
    BY <2>7, TakeTaskStep
  <2>8. ASSUME NEW w \in Worker, FinishTask(w) PROVE EngineInv'
    BY <2>8, FinishTaskStep
  <2>9. CASE UNCHANGED engineVars
    BY <2>9 DEF engineVars, EngineInv, EngineTypeOK, EngineShape, HeldOnce, WorkersOf
  <2> QED
    BY <2>1, <2>2, <2>3, <2>4, <2>5, <2>6, <2>7, <2>8, <2>9 DEF EngineNext
<1> QED
  BY <1>1, <1>2, PTL DEF EngineSpec, EngineInv
=============================================================================
