---------------------------- MODULE QuotesProofs ----------------------------
(***************************************************************************)
(* Quotes, for any workers, actors, posts, versions, requests and bounds.  *)
(*                                                                         *)
(* QInv is inductive.  The argument: versions are only added, edges are    *)
(* remembered and since is fixed once a request is taken, so what a policy *)
(* allowed to a request stays allowed (Stays).  A worker that is about to  *)
(* accept therefore carries the agreement from the reads it made to the    *)
(* stamp, the answer and the admitted post (RunOK, StampsOK, SentOK,       *)
(* AdmittedOK), and Apart keeps the stamps of different answers different  *)
(* as long as no caller chooses one of them.                               *)
(***************************************************************************)
EXTENDS Quotes, TLAPS

AskStage == {"policy", "author", "follower", "stamp", "accept", "reject"}
DrawStage == {"quoted", "cached", "fetched"}

(* The stamp i holds what r asked, in the name of u, or its save failed.   *)
Backed(i, r, u, automatic) ==
  \/ <<r, i>> \in lost
  \/ \E s \in stamp : /\ s.iri = i /\ s.by = u /\ s.post = Ask[r].post
                      /\ s.quote = Ask[r].quote \/ (automatic /\ ~ Ask[r].embedded)

(* What a worker with the local variables d knows at its stage.            *)
RunOK(d) ==
  /\ d.stage \in AskStage => d.request \in Request /\ d.quote = NoQuote /\ outcome[d.request] # "queued"
  /\ d.stage \in DrawStage => d.quote \in Quote
  /\ d.stage \in {"policy", "author", "follower"} => ~ d.byHand
  /\ d.stage \in {"author", "follower"} =>
       /\ since[d.request] <= d.seen /\ d.seen <= published[Ask[d.request].post]
       /\ d.by = Author[Ask[d.request].post]
  /\ d.stage = "follower" => ~ ManualBy(Ask[d.request].post, d.seen)
  /\ d.stage \in {"follower", "stamp", "accept", "reject"} => d.by \in LocalActor
  /\ d.stage \in {"stamp", "accept"} =>
       IF d.byHand THEN <<d.request, d.by>> \in granted ELSE ByPolicy(d.request)
  /\ d.stage \in AskStage \ {"stamp", "accept"} => d.iri = NoStamp
  /\ d.stage = "stamp" => d.iri = NoStamp \/ d.iri \in (1..minted) \cap given
  /\ d.stage = "accept" =>
       d.iri \in 1..minted /\ Backed(d.iri, d.request, d.by, ~ d.byHand)

RunsOK == \A w \in Worker : RunOK(run[w])

SinceOK == \A r \in Request : since[r] <= published[Ask[r].post]

StampOK(s) ==
  /\ s.iri <= minted /\ outcome[s.request] # "queued"
  /\ s.post = Ask[s.request].post /\ s.quote \in {Ask[s.request].quote, NoQuote}
  /\ s.by = Author[s.post] => Agreed(s.request)
StampsOK == \A s \in stamp : StampOK(s)

SentOK ==
  \A m \in sent : m.kind = "Accept" =>
    /\ m.iri <= minted /\ outcome[m.request] # "queued"
    /\ Backed(m.iri, m.request, m.by, m.automatic)
    /\ m.automatic => ByPolicy(m.request)

(* No two Accepts, sent or on their way, name one stamp that no caller     *)
(* chose.                                                                  *)
Apart ==
  /\ \A m, n \in sent :
       m.kind = "Accept" /\ n.kind = "Accept" /\ m.iri = n.iri => m.iri \in given \/ m = n
  /\ \A w \in Worker, m \in sent :
       At(w, "accept") /\ m.kind = "Accept" => m.iri \in given \/ m.iri # run[w].iri
  /\ \A v, w \in Worker :
       At(v, "accept") /\ At(w, "accept") /\ v # w => run[v].iri \in given \/ run[v].iri # run[w].iri

AdmittedOK ==
  \A a \in admitted :
    \/ Draft[a[1]].actor = Author[Draft[a[1]].post] \/ a[2] = Foreign \/ Mixed(a[2])
    \/ \E s \in stamp : /\ s.iri = a[2] /\ s.quote = a[1] /\ s.post = Draft[a[1]].post
                        /\ s.by = Author[Draft[a[1]].post]

QInv == TypeOK /\ RunsOK /\ SinceOK /\ StampsOK /\ SentOK /\ Apart /\ AdmittedOK

------------------------------------------------------------------------------
(* What no step takes back. *)
Kept ==
  /\ \A p \in Post : published[p] <= published'[p]
  /\ follower \cup unfollowed \subseteq (follower \cup unfollowed)'
  /\ granted \subseteq granted' /\ stamp \subseteq stamp' /\ lost \subseteq lost'
  /\ given \subseteq given'
  /\ minted <= minted'
  /\ \A r \in Request : outcome[r] # "queued" => outcome'[r] # "queued" /\ since'[r] = since[r]

LEMMA NumbersOK ==
  TypeOK => /\ \A p \in Post : published[p] \in Nat
            /\ \A r \in Request : since[r] \in Nat /\ Ask[r].post \in Post /\ Ask[r].sender \in Actor
            /\ minted \in Nat
  BY QuotesAssumption DEF TypeOK

(* EndRequest never makes a request new again. *)
LEMMA Ended ==
  ASSUME TypeOK, NEW w \in Worker, NEW o \in {"answered", "pending", "passed", "failed"},
         EndRequest(w, o)
  PROVE  \A r \in Request : outcome[r] # "queued" => outcome'[r] # "queued"
  BY DEF EndRequest, TypeOK

LEMMA NextKeeps ==
  ASSUME QInv, Next
  PROVE  Kept
<1>0. TypeOK
  BY DEF QInv
<1> USE NumbersOK, <1>0 
<1>1. ASSUME NEW p \in Post, Publish(p) PROVE Kept
  BY <1>1 DEF Publish, Kept, TypeOK, answers
<1>2. ASSUME NEW a, NEW f, Follow(a, f) PROVE Kept
  BY <1>2 DEF Follow, Kept, answers
<1>3. ASSUME NEW a, NEW f, RemoveQuadEdge(a, f) PROVE Kept
  BY <1>3 DEF RemoveQuadEdge, Kept, answers
<1>4. ASSUME NEW w \in Worker, NEW r \in Request, TakeRequest(w, r) PROVE Kept
  BY <1>4 DEF TakeRequest, Kept, TypeOK, answers, posts
<1>14. ASSUME NEW w \in Worker, NEW r \in Request, RefuseRequest(w, r) PROVE Kept
  BY <1>14 DEF RefuseRequest, Kept, TypeOK, answers, posts
<1>5. ASSUME NEW w \in Worker, NEW r \in Request, NEW u \in LocalActor, NEW i \in 0..MaxStamp,
             AcceptQuoteRequest(w, r, u, i) PROVE Kept
  <2>1. minted <= minted'
    BY <1>5 DEF AcceptQuoteRequest
  <2> QED
    BY <1>5, <2>1 DEF AcceptQuoteRequest, Kept, posts
<1>15. ASSUME NEW w \in Worker, NEW r \in Request, NEW u \in LocalActor, RejectQuoteRequest(w, r, u)
       PROVE Kept
  BY <1>15 DEF RejectQuoteRequest, Kept, answers, posts
<1>6. ASSUME NEW w \in Worker, NEW q \in Quote, NEW i, TakeCreate(w, q, i) PROVE Kept
  BY <1>6 DEF TakeCreate, Kept, answers, posts
<1>7. ASSUME NEW w \in Worker, Stop(w) PROVE Kept
  BY <1>7, Ended DEF Stop, Kept, answers, posts
<1>8. ASSUME NEW w \in Worker, ReadPolicy(w) PROVE Kept
  BY <1>8, Ended DEF ReadPolicy, Kept, answers, posts
<1>9. ASSUME NEW w \in Worker, CheckAuthor(w) PROVE Kept
  BY <1>9, Ended DEF CheckAuthor, Evaluate, Goto, Kept, answers, posts
<1>10. ASSUME NEW w \in Worker, ReadFollower(w) PROVE Kept
  BY <1>10 DEF ReadFollower, Goto, Kept, answers, posts
<1>11. ASSUME NEW w \in Worker, SaveStamp(w) PROVE Kept
  BY <1>11 DEF SaveStamp, StoreStamp, Kept, answers, posts
<1>12. ASSUME NEW w \in Worker, Dispatch(w) PROVE Kept
  BY <1>12, Ended DEF Dispatch, Kept, answers, posts
<1>13. ASSUME NEW w \in Worker, ReadQuoted(w) \/ ReadStamp(w) \/ ReadStampFails(w) \/ FetchStamp(w)
       PROVE Kept
  BY <1>13 DEF ReadQuoted, ReadStamp, ReadStampFails, FetchStamp, Kept, answers, posts
<1> QED
  BY <1>1, <1>2, <1>3, <1>4, <1>5, <1>6, <1>7, <1>8, <1>9, <1>10, <1>11, <1>12, <1>13, <1>14, <1>15 DEF Next

(* An agreement and a backing last. *)
LEMMA Stays ==
  ASSUME TypeOK, TypeOK', Kept, NEW r \in Request
  PROVE  /\ outcome[r] # "queued" /\ ByPolicy(r) => ByPolicy(r)'
         /\ outcome[r] # "queued" /\ Agreed(r) => Agreed(r)'
         /\ \A i, u, z : Backed(i, r, u, z) => Backed(i, r, u, z)'
<1> DEFINE p == Ask[r].post
<1>1. published[p] \in Nat /\ published'[p] \in Nat /\ published[p] <= published'[p]
  BY NumbersOK, QuotesAssumption DEF Kept, TypeOK
<1>2. /\ PublicBy(p, published[p]) => PublicBy(p, published'[p])
      /\ \A a : Recipient(p, published[p], a) => Recipient(p, published'[p], a)
  BY <1>1 DEF PublicBy, Recipient
<1>3. Entitled(r) => Entitled(r)'
  BY <1>2 DEF Entitled, Kept
<1>4. outcome[r] # "queued" => (ManualBy(p, since[r]) <=> ManualBy(p, since'[r]))
  BY DEF Kept
<1>5. outcome[r] # "queued" /\ ByPolicy(r) => ByPolicy(r)'
  BY <1>3, <1>4 DEF ByPolicy
<1>6. ByHand(r) => ByHand(r)'
  BY DEF ByHand, Kept
<1>7. \A i, u, z : Backed(i, r, u, z) => Backed(i, r, u, z)'
  BY DEF Backed, Kept
<1> QED
  BY <1>5, <1>6, <1>7 DEF Agreed

(* So what another worker knows is not disturbed. *)
LEMMA Undisturbed ==
  ASSUME TypeOK, TypeOK', Kept, NEW d \in RunState, RunOK(d)
  PROVE  RunOK(d)'
<1>1. CASE d.stage \in AskStage
  <2>1. d.request \in Request /\ outcome[d.request] # "queued"
    BY <1>1 DEF RunOK
  <2>2. PICK r \in Request : r = d.request
    BY <2>1
  <2>3. /\ outcome'[r] # "queued" /\ since'[r] = since[r]
        /\ published[Ask[r].post] <= published'[Ask[r].post]
        /\ published[Ask[r].post] \in Nat /\ published'[Ask[r].post] \in Nat
        /\ granted \subseteq granted' /\ given \subseteq given'
        /\ minted <= minted' /\ minted \in Nat /\ minted' \in Nat
    <3>1. Ask[r].post \in Post
      BY NumbersOK
    <3>2. \A p \in Post : published[p] \in Nat /\ published'[p] \in Nat
      BY QuotesAssumption DEF TypeOK
    <3>3. minted \in Nat /\ minted' \in Nat
      BY QuotesAssumption DEF TypeOK
    <3> QED
      BY <2>1, <2>2, <3>1, <3>2, <3>3 DEF Kept
  <2>4. ByPolicy(r) => ByPolicy(r)'
    BY <2>1, <2>2, Stays
  <2>5. Backed(d.iri, r, d.by, ~ d.byHand) => Backed(d.iri, r, d.by, ~ d.byHand)'
    BY Stays
  <2>6. d.seen \in Nat /\ d.iri \in Nat
    BY QuotesAssumption DEF RunState, Foreign
  <2>7. d.stage \notin DrawStage
    BY <1>1 DEF AskStage, DrawStage
  <2> QED
    BY <2>2, <2>3, <2>4, <2>5, <2>6, <2>7, <1>1 DEF RunOK, ManualBy
<1>2. CASE d.stage \notin AskStage
  BY <1>2 DEF RunOK, AskStage
<1> QED
  BY <1>1, <1>2

------------------------------------------------------------------------------
(* Type correctness, action by action. *)
LEMMA IdleOK == Idle \in RunState
  BY QuotesAssumption DEF Idle, RunState, Stage, Foreign, NoStamp

LEMMA EndType ==
  ASSUME TypeOK, NEW w \in Worker
  PROVE  /\ \A o \in {"answered", "pending", "passed", "failed"} : EndRequest(w, o) =>
              run' \in [Worker -> RunState] /\ outcome' \in
                [Request -> {"queued", "running", "answered", "pending", "passed", "failed", "refused"}]
         /\ \A v \in {"admitted", "refused"} : EndQuote(w, v) =>
              run' \in [Worker -> RunState] /\ verdict' \in
                [Quote -> {"queued", "running", "admitted", "refused"}]
  BY IdleOK DEF TypeOK, EndRequest, EndQuote

LEMMA GotoType ==
  ASSUME TypeOK, NEW w \in Worker, NEW s \in Stage, Goto(w, s)
  PROVE  run' \in [Worker -> RunState] /\ UNCHANGED outcome
<1>1. [run[w] EXCEPT !.stage = s] \in RunState
  BY DEF TypeOK, RunState
<1> QED
  BY <1>1 DEF Goto, TypeOK

(* A worker with a request or a quoting post in hand has one. *)
LEMMA InHand ==
  ASSUME TypeOK, RunsOK, NEW w \in Worker
  PROVE  /\ run[w] \in RunState /\ RunOK(run[w])
         /\ run[w].stage \in AskStage => run[w].request \in Request /\ Ask[run[w].request].post \in Post
                                         /\ Asked(w) \in [sender: Actor, post: Post, quote: Quote \cup {NoQuote},
                       embedded: BOOLEAN, stating: BOOLEAN]
         /\ run[w].stage \in DrawStage => run[w].quote \in Quote
<1>1. run[w] \in RunState /\ RunOK(run[w])
  BY DEF TypeOK, RunsOK
<1> QED
  BY <1>1, QuotesAssumption DEF RunOK, Asked

(* The IRI of a stamp: one that is minted, or the caller's choice.         *)
LEMMA SaveStampIRI ==
  ASSUME TypeOK, RunsOK, NEW w \in Worker, SaveStamp(w)
  PROVE  \E i : /\ i \in 1..MaxStamp /\ i \in 0..Foreign /\ i \in 1..minted' /\ StoreStamp(w, i)
                /\ i = minted + 1 \/ i \in given
<1>1. /\ run[w].iri = NoStamp \/ run[w].iri \in (1..minted) \cap given
  BY InHand DEF SaveStamp, At, RunOK
<1>2. minted \in 0..MaxStamp /\ MaxStamp \in Nat
  BY QuotesAssumption DEF TypeOK
<1>3. CASE run[w].iri = NoStamp
  BY <1>2, <1>3 DEF SaveStamp, Foreign
<1>4. CASE run[w].iri # NoStamp
  <2>1. run[w].iri \in 1..MaxStamp /\ run[w].iri \in 0..Foreign /\ UNCHANGED minted
    BY <1>1, <1>2, <1>4 DEF SaveStamp, Foreign
  <2> QED
    BY <1>1, <1>4, <2>1 DEF SaveStamp
<1> QED
  BY <1>3, <1>4

LEMMA FaultyType == TypeOK /\ Faulty => faults' \in 0..MaxFaults
  BY QuotesAssumption DEF TypeOK, Faulty

LEMMA TypeStep ==
  ASSUME TypeOK, RunsOK, Next
  PROVE  TypeOK'
<1>1. ASSUME NEW p \in Post, Publish(p) PROVE TypeOK'
  BY <1>1, QuotesAssumption DEF Publish, TypeOK, answers
<1>2. ASSUME NEW r \in Request, \/ Follow(Author[Ask[r].post], Ask[r].sender)
                                \/ RemoveQuadEdge(Author[Ask[r].post], Ask[r].sender) PROVE TypeOK'
  <2>1. Author[Ask[r].post] \in Actor /\ Ask[r].sender \in Actor
    BY QuotesAssumption
  <2>2. <<Author[Ask[r].post], Ask[r].sender>> \in Actor \X Actor
    BY <2>1
  <2>3. follower' \subseteq Actor \X Actor /\ unfollowed' \subseteq Actor \X Actor
    BY <1>2, <2>2 DEF Follow, RemoveQuadEdge, TypeOK
  <2> QED
    BY <1>2, <2>3 DEF Follow, RemoveQuadEdge, TypeOK, answers
<1>3. ASSUME NEW w \in Worker, NEW r \in Request, TakeRequest(w, r) PROVE TypeOK'
  <2>1. [Idle EXCEPT !.stage = "policy", !.request = r] \in RunState
    BY IdleOK DEF RunState, Stage
  <2>2. published[Ask[r].post] \in 0..MaxEdition
    BY QuotesAssumption DEF TypeOK
  <2>3. run' \in [Worker -> RunState]
    BY <1>3, <2>1 DEF TakeRequest, TypeOK
  <2>4. since' \in [Request -> 0..MaxEdition]
    BY <1>3, <2>2 DEF TakeRequest, TypeOK
  <2>5. outcome' \in [Request -> {"queued", "running", "answered", "pending", "passed", "failed", "refused"}]
    BY <1>3 DEF TakeRequest, TypeOK
  <2> QED
    BY <1>3, <2>3, <2>4, <2>5 DEF TakeRequest, TypeOK, answers, posts
<1>13. ASSUME NEW w \in Worker, NEW r \in Request, RefuseRequest(w, r) PROVE TypeOK'
  BY <1>13 DEF RefuseRequest, TypeOK, answers, posts
<1>4. ASSUME NEW w \in Worker, NEW r \in Request, NEW u \in LocalActor, NEW i \in 0..MaxStamp,
             AcceptQuoteRequest(w, r, u, i) PROVE TypeOK'
  <2>1. i \in 0..Foreign /\ u \in Actor \cup {Nobody}
    BY QuotesAssumption DEF Foreign
  <2>2. [Idle EXCEPT !.stage = "stamp", !.request = r, !.by = u, !.byHand = TRUE, !.iri = i] \in RunState
    BY <2>1, IdleOK DEF RunState, Stage
  <2>3. run' \in [Worker -> RunState]
    BY <1>4, <2>2 DEF AcceptQuoteRequest, TypeOK
  <2>4. minted' \in 0..MaxStamp /\ given' \subseteq 1..MaxStamp
    BY <1>4, QuotesAssumption DEF AcceptQuoteRequest, TypeOK, NoStamp
  <2>5. granted' \subseteq Request \X LocalActor
    BY <1>4 DEF AcceptQuoteRequest, TypeOK
  <2> QED
    BY <1>4, <2>3, <2>4, <2>5 DEF AcceptQuoteRequest, TypeOK, posts
<1>14. ASSUME NEW w \in Worker, NEW r \in Request, NEW u \in LocalActor, RejectQuoteRequest(w, r, u)
       PROVE TypeOK'
  <2>1. [Idle EXCEPT !.stage = "reject", !.request = r, !.by = u, !.byHand = TRUE] \in RunState
    BY IdleOK, QuotesAssumption DEF RunState, Stage
  <2> QED
    BY <1>14, <2>1 DEF RejectQuoteRequest, TypeOK, answers, posts
<1>5. ASSUME NEW w \in Worker, NEW q \in Quote, NEW i \in 0..Foreign, TakeCreate(w, q, i) PROVE TypeOK'
  <2>1. [Idle EXCEPT !.stage = "quoted", !.quote = q, !.iri = i] \in RunState
    BY IdleOK DEF RunState, Stage
  <2> QED
    BY <1>5, <2>1 DEF TakeCreate, TypeOK, answers, posts
<1>6. ASSUME NEW w \in Worker, Stop(w) PROVE TypeOK'
  <2>1. CASE run[w].quote = NoQuote
    <3>1. EndRequest(w, "failed") /\ UNCHANGED verdict
      BY <1>6, <2>1 DEF Stop
    <3> QED
      BY <1>6, <3>1, EndType, FaultyType DEF Stop, TypeOK, answers, posts
  <2>2. CASE run[w].quote # NoQuote
    <3>1. EndQuote(w, "refused") /\ UNCHANGED outcome
      BY <1>6, <2>2 DEF Stop
    <3> QED
      BY <1>6, <3>1, EndType, FaultyType DEF Stop, TypeOK, answers, posts
  <2> QED
    BY <2>1, <2>2
<1>7. ASSUME NEW w \in Worker, ReadPolicy(w) PROVE TypeOK'
  <2>1. run[w] \in RunState /\ Asked(w).post \in Post
    BY <1>7, InHand DEF ReadPolicy, At, AskStage
  <2>2. /\ published[Asked(w).post] \in 0..MaxEdition /\ Author[Asked(w).post] \in Actor
    BY <2>1, QuotesAssumption DEF TypeOK
  <2>3. [run[w] EXCEPT !.stage = "author", !.seen = published[Asked(w).post],
                       !.by = Author[Asked(w).post]] \in RunState
    BY <2>1, <2>2 DEF RunState, Stage
  <2>4. CASE published[Asked(w).post] = 0
    <3>1. EndRequest(w, "failed")
      BY <1>7, <2>4 DEF ReadPolicy
    <3> QED
      BY <1>7, <3>1, EndType DEF ReadPolicy, TypeOK, answers, posts
  <2>5. CASE published[Asked(w).post] # 0
    <3>1. run' = [run EXCEPT ![w] = [run[w] EXCEPT !.stage = "author",
                    !.seen = published[Asked(w).post], !.by = Author[Asked(w).post]]] /\ UNCHANGED outcome
      BY <1>7, <2>5 DEF ReadPolicy, TypeOK
    <3> QED
      BY <1>7, <2>3, <3>1 DEF ReadPolicy, TypeOK, answers, posts
  <2> QED
    BY <2>4, <2>5
<1>8. ASSUME NEW w \in Worker, CheckAuthor(w) PROVE TypeOK'
  <2>1. \/ \E o \in {"pending", "passed"} : EndRequest(w, o)
        \/ \E t \in {"stamp", "follower"} : Goto(w, t)
    BY <1>8 DEF CheckAuthor, Evaluate
  <2>2. /\ run' \in [Worker -> RunState]
        /\ outcome' \in [Request -> {"queued", "running", "answered", "pending", "passed", "failed", "refused"}]
    BY <2>1, EndType, GotoType DEF Stage, TypeOK
  <2> QED
    BY <1>8, <2>2, FaultyType DEF CheckAuthor, TypeOK, answers, posts
<1>9. ASSUME NEW w \in Worker, ReadFollower(w) PROVE TypeOK'
  <2>1. \E t \in {"stamp", "reject"} : Goto(w, t)
    BY <1>9 DEF ReadFollower
  <2>2. run' \in [Worker -> RunState] /\ UNCHANGED outcome
    BY <2>1, GotoType DEF Stage
  <2> QED
    BY <1>9, <2>2, FaultyType DEF ReadFollower, TypeOK, answers, posts
<1>10. ASSUME NEW w \in Worker, SaveStamp(w) PROVE TypeOK'
  <2>1. /\ run[w] \in RunState /\ RunOK(run[w]) /\ run[w].request \in Request
        /\ Asked(w) \in [sender: Actor, post: Post, quote: Quote \cup {NoQuote},
                       embedded: BOOLEAN, stating: BOOLEAN]
        /\ run[w].by \in LocalActor
    BY <1>10, InHand DEF SaveStamp, At, AskStage, RunOK
  <2>2. PICK i : i \in 1..MaxStamp /\ i \in 0..Foreign /\ StoreStamp(w, i)
    BY <1>10, SaveStampIRI
  <2>3. [run[w] EXCEPT !.stage = "accept", !.iri = i] \in RunState
    BY <2>1, <2>2 DEF RunState, Stage
  <2>4. [iri |-> i, request |-> run[w].request, quote |-> QuoteNamed(w),
         post |-> Asked(w).post, by |-> run[w].by] \in Stamp
    BY <2>1, <2>2 DEF Stamp, QuoteNamed
  <2>5. run' \in [Worker -> RunState]
    BY <2>2, <2>3 DEF StoreStamp, TypeOK
  <2>6. stamp' \subseteq Stamp
    BY <2>2, <2>4 DEF StoreStamp, TypeOK
  <2>7. lost' \subseteq Request \X (1..MaxStamp)
    BY <2>1, <2>2 DEF StoreStamp, TypeOK
  <2>8. minted' \in 0..MaxStamp
    BY <1>10, QuotesAssumption DEF SaveStamp, TypeOK
  <2> QED
    BY <2>2, <2>5, <2>6, <2>7, <2>8, FaultyType DEF StoreStamp, TypeOK, posts
<1>11. ASSUME NEW w \in Worker, Dispatch(w) PROVE TypeOK'
  <2>1. /\ run[w] \in RunState /\ run[w].request \in Request /\ run[w].by \in LocalActor
        /\ run[w].iri \in 0..MaxStamp
    <3>1. run[w].stage \in {"accept", "reject"}
      BY <1>11 DEF Dispatch, At
    <3>2. run[w] \in RunState /\ RunOK(run[w]) /\ run[w].request \in Request
      BY <3>1, InHand DEF AskStage
    <3>3. run[w].iri = 0 \/ run[w].iri \in 1..minted
      BY <3>1, <3>2 DEF RunOK, NoStamp, AskStage
    <3>4. minted \in 0..MaxStamp /\ MaxStamp \in Nat
      BY QuotesAssumption DEF TypeOK
    <3> QED
      BY <3>1, <3>2, <3>3, <3>4 DEF RunOK
  <2>2. Answered(w) \in Answer
    BY <2>1 DEF Answered, Answer, RunState
  <2>3. \E o \in {"answered", "failed"} : EndRequest(w, o)
    BY <1>11 DEF Dispatch
  <2>4. /\ run' \in [Worker -> RunState]
        /\ outcome' \in [Request -> {"queued", "running", "answered", "pending", "passed", "failed", "refused"}]
    BY <2>3, EndType
  <2>5. sent' \subseteq Answer
    BY <1>11, <2>2 DEF Dispatch, TypeOK
  <2> QED
    BY <1>11, <2>4, <2>5 DEF Dispatch, TypeOK, posts
<1>12. ASSUME NEW w \in Worker, ReadQuoted(w) \/ ReadStamp(w) \/ ReadStampFails(w) \/ FetchStamp(w)
       PROVE TypeOK'
  <2>1. run[w] \in RunState /\ run[w].quote \in Quote
    BY <1>12, InHand DEF ReadQuoted, ReadStamp, ReadStampFails, FetchStamp, At, DrawStage
  <2>2. /\ [run[w] EXCEPT !.stage = "cached"] \in RunState
        /\ [run[w] EXCEPT !.stage = "fetched"] \in RunState
        /\ <<run[w].quote, run[w].iri>> \in Quote \X (0..Foreign)
    BY <2>1 DEF RunState, Stage
  <2>3. \/ Admit(w) \/ Refuse(w)
        \/ /\ \E t \in {"cached", "fetched"} : run' = [run EXCEPT ![w] = [run[w] EXCEPT !.stage = t]]
           /\ UNCHANGED <<verdict, admitted>>
    BY <1>12 DEF ReadQuoted, ReadStamp, ReadStampFails, FetchStamp, TypeOK
  <2>4. /\ run' \in [Worker -> RunState] /\ admitted' \subseteq Quote \X (0..Foreign)
        /\ verdict' \in [Quote -> {"queued", "running", "admitted", "refused"}]
    BY <2>2, <2>3, EndType DEF Admit, Refuse, TypeOK
  <2>5. faults' \in 0..MaxFaults /\ UNCHANGED <<posts, outcome, answers, since>>
    BY <1>12, FaultyType DEF ReadQuoted, ReadStamp, ReadStampFails, FetchStamp, TypeOK
  <2> QED
    BY <2>4, <2>5 DEF TypeOK, answers, posts
<1> QED
  BY <1>1, <1>2, <1>3, <1>4, <1>5, <1>6, <1>7, <1>8, <1>9, <1>10, <1>11, <1>12, <1>13, <1>14 DEF Next

------------------------------------------------------------------------------
(* What the worker that acts knows afterwards. *)
LEMMA IdleKnows == RunOK(Idle)'
  BY DEF RunOK, Idle, AskStage, DrawStage

LEMMA OnlyOne ==
  ASSUME TypeOK, TypeOK', Kept, RunsOK, NEW w \in Worker, NEW c \in RunState,
         run' = [run EXCEPT ![w] = c], RunOK(c)'
  PROVE  RunsOK'
<1>1. ASSUME NEW v \in Worker PROVE RunOK(run[v])'
  <2>1. CASE v = w
    <3>1. run'[v] = c
      BY <2>1 DEF TypeOK
    <3> QED
      BY <3>1
  <2>2. CASE v # w
    <3>1. PICK d \in RunState : d = run[v] /\ run'[v] = d
      BY <2>2 DEF TypeOK
    <3>2. RunOK(d)'
      BY <3>1, Undisturbed DEF RunsOK
    <3> QED
      BY <3>1, <3>2
  <2> QED
    BY <2>1, <2>2
<1> QED
  BY <1>1 DEF RunsOK

(* A policy read in time that asks for nothing by hand, and an entitled    *)
(* sender, are an agreement.                                               *)
LEMMA ReadIsAgreement ==
  ASSUME TypeOK, NEW r \in Request, NEW n \in Nat,
         since[r] <= n, n <= published[Ask[r].post], ~ ManualBy(Ask[r].post, n),
         \/ PublicBy(Ask[r].post, n) \/ Recipient(Ask[r].post, n, Ask[r].sender)
         \/ <<Author[Ask[r].post], Ask[r].sender>> \in follower
  PROVE  ByPolicy(r)
<1> DEFINE p == Ask[r].post
<1>1. published[p] \in Nat /\ since[r] \in Nat
  BY NumbersOK
<1>2. ~ ManualBy(p, since[r])
  BY <1>1 DEF ManualBy
<1>3. /\ PublicBy(p, n) => PublicBy(p, published[p])
      /\ Recipient(p, n, Ask[r].sender) => Recipient(p, published[p], Ask[r].sender)
  BY <1>1 DEF PublicBy, Recipient
<1>4. Entitled(r)
  BY <1>3 DEF Entitled
<1> QED
  BY <1>2, <1>4 DEF ByPolicy

LEMMA EndRuns ==
  ASSUME QInv, TypeOK', Kept, NEW w \in Worker, NEW o, EndRequest(w, o) \/ EndQuote(w, o)
  PROVE  RunsOK'
<1>1. run' = [run EXCEPT ![w] = Idle]
  BY DEF EndRequest, EndQuote
<1> QED
  BY <1>1, IdleOK, IdleKnows, OnlyOne DEF QInv

LEMMA WorldRuns ==
  ASSUME QInv, TypeOK', Kept, UNCHANGED run
  PROVE  RunsOK'
<1>1. ASSUME NEW v \in Worker PROVE RunOK(run[v])'
  <2>1. PICK d \in RunState : d = run[v] /\ run'[v] = d
    BY DEF QInv, TypeOK
  <2>2. RunOK(d)'
    BY <2>1, Undisturbed DEF QInv, RunsOK
  <2> QED
    BY <2>1, <2>2
<1> QED
  BY <1>1 DEF RunsOK

LEMMA TakeRuns ==
  ASSUME QInv, TypeOK', Kept, NEW w \in Worker,
         \/ \E r \in Request : TakeRequest(w, r)
         \/ \E r \in Request, u \in LocalActor, i \in 0..MaxStamp : AcceptQuoteRequest(w, r, u, i)
         \/ \E r \in Request, u \in LocalActor : RejectQuoteRequest(w, r, u)
         \/ \E q \in Quote, i \in 0..Foreign : TakeCreate(w, q, i)
  PROVE  RunsOK'
<1> TypeOK /\ RunsOK
  BY DEF QInv
<1>1. ASSUME NEW r \in Request, TakeRequest(w, r) PROVE RunsOK'
  <2>1. PICK c : c = [Idle EXCEPT !.stage = "policy", !.request = r]
    OBVIOUS
  <2>2. /\ c \in RunState /\ c.stage = "policy" /\ c.request = r /\ c.quote = NoQuote
        /\ ~ c.byHand /\ c.iri = NoStamp
    BY <2>1, IdleOK DEF RunState, Stage, Idle
  <2>3. outcome'[r] # "queued"
    BY <1>1 DEF TakeRequest, TypeOK
  <2>4. RunOK(c)'
    BY <2>2, <2>3 DEF RunOK, AskStage, DrawStage
  <2> QED
    BY <1>1, <2>1, <2>2, <2>4, OnlyOne DEF TakeRequest
<1>2. ASSUME NEW r \in Request, NEW u \in LocalActor, NEW c \in RunState, c.stage \in {"stamp", "reject"},
             c.request = r, c.quote = NoQuote, c.byHand, c.by = u,
             run' = [run EXCEPT ![w] = c], outcome[r] # "queued",
             c.stage = "stamp" => <<r, u>> \in granted',
             c.iri = NoStamp \/ (c.stage = "stamp" /\ c.iri \in 1..minted' /\ c.iri \in given')
      PROVE RunsOK'
  <2>1. outcome'[r] # "queued"
    BY <1>2 DEF Kept
  <2>2. RunOK(c)'
    BY <2>1, <1>2 DEF RunOK, AskStage, DrawStage
  <2> QED
    BY <1>2, <2>2, OnlyOne
<1>3. ASSUME NEW r \in Request, NEW u \in LocalActor, NEW i \in 0..MaxStamp, AcceptQuoteRequest(w, r, u, i)
      PROVE RunsOK'
  <2>1. i \in 0..Foreign /\ minted \in Nat /\ u \in Actor
    BY QuotesAssumption DEF Foreign, TypeOK
  <2>2. i = NoStamp \/ (i \in 1..minted' /\ i \in given')
    <3>1. minted' = IF i > minted THEN i ELSE minted
      BY <1>3 DEF AcceptQuoteRequest
    <3>2. i \in Nat /\ i # NoStamp => i \in given'
      BY <1>3, QuotesAssumption DEF AcceptQuoteRequest
    <3> QED
      BY <2>1, <3>1, <3>2 DEF NoStamp
  <2>3. <<r, u>> \in granted' /\ outcome[r] # "queued"
    BY <1>3 DEF AcceptQuoteRequest
  <2>4. PICK c : c = [Idle EXCEPT !.stage = "stamp", !.request = r, !.by = u, !.byHand = TRUE, !.iri = i]
    OBVIOUS
  <2>5. run' = [run EXCEPT ![w] = c]
    BY <1>3, <2>4 DEF AcceptQuoteRequest
  <2>6. /\ c \in RunState /\ c.stage = "stamp" /\ c.request = r /\ c.quote = NoQuote
        /\ c.byHand /\ c.iri = i /\ c.by = u
    BY <2>1, <2>4, IdleOK DEF RunState, Stage, Idle
  <2> QED
    BY <1>2, <2>2, <2>3, <2>5, <2>6
<1>4. ASSUME NEW r \in Request, NEW u \in LocalActor, RejectQuoteRequest(w, r, u) PROVE RunsOK'
  <2>1. PICK c : c = [Idle EXCEPT !.stage = "reject", !.request = r, !.by = u, !.byHand = TRUE]
    OBVIOUS
  <2>2. run' = [run EXCEPT ![w] = c] /\ outcome[r] # "queued"
    BY <1>4, <2>1 DEF RejectQuoteRequest
  <2>3. /\ c \in RunState /\ c.stage = "reject" /\ c.request = r /\ c.quote = NoQuote
        /\ c.byHand /\ c.iri = NoStamp /\ c.by = u
    BY <2>1, IdleOK, QuotesAssumption DEF RunState, Stage, Idle
  <2> QED
    BY <1>2, <2>2, <2>3
<1>5. ASSUME NEW q \in Quote, NEW i \in 0..Foreign, TakeCreate(w, q, i) PROVE RunsOK'
  <2>1. PICK c : c = [Idle EXCEPT !.stage = "quoted", !.quote = q, !.iri = i]
    OBVIOUS
  <2>2. c \in RunState /\ c.stage = "quoted" /\ c.quote = q
    BY <2>1, IdleOK DEF RunState, Stage, Idle
  <2>3. RunOK(c)'
    BY <2>2 DEF RunOK, AskStage, DrawStage
  <2> QED
    BY <1>5, <2>1, <2>2, <2>3, OnlyOne DEF TakeCreate
<1> QED
  BY <1>1, <1>3, <1>4, <1>5

LEMMA ReadPolicyRuns ==
  ASSUME QInv, TypeOK', Kept, NEW w \in Worker, ReadPolicy(w)
  PROVE  RunsOK'
<1> DEFINE p == Asked(w).post
<1>1. CASE published[p] = 0
  BY <1>1, EndRuns DEF ReadPolicy
<1>2. CASE published[p] # 0
  <2>1. /\ run[w] \in RunState /\ RunOK(run[w]) /\ run[w].stage = "policy" /\ run[w].request \in Request
        /\ p \in Post
    BY InHand DEF QInv, ReadPolicy, At, AskStage
  <2>2. PICK r \in Request : r = run[w].request
    BY <2>1
  <2>3. PICK c : c = [run[w] EXCEPT !.stage = "author", !.seen = published[p], !.by = Author[p]]
    OBVIOUS
  <2>4. published[p] \in 0..MaxEdition /\ Author[p] \in Actor
    BY <2>1, QuotesAssumption DEF QInv, TypeOK
  <2>5. /\ c \in RunState /\ c.stage = "author" /\ c.request = r /\ c.quote = run[w].quote
        /\ c.seen = published[p] /\ c.by = Author[p] /\ c.byHand = run[w].byHand /\ c.iri = run[w].iri
    BY <2>1, <2>2, <2>3, <2>4 DEF RunState, Stage
  <2>6. p = Ask[r].post
    BY <2>2 DEF Asked
  <2>7. since'[r] <= published[p] /\ published[p] <= published'[p] /\ outcome'[r] # "queued"
    BY <2>1, <2>2, <2>6 DEF QInv, SinceOK, Kept, RunOK, AskStage
  <2>8. RunOK(c)'
    BY <2>1, <2>5, <2>6, <2>7 DEF RunOK, AskStage, DrawStage
  <2>9. run' = [run EXCEPT ![w] = c]
    BY <1>2, <2>3 DEF ReadPolicy, QInv, TypeOK
  <2> QED
    BY <2>5, <2>8, <2>9, OnlyOne DEF QInv
<1> QED
  BY <1>1, <1>2

(* Going on to an answer or to the followers, with what is needed there.   *)
LEMMA GotoRuns ==
  ASSUME QInv, TypeOK', Kept, NEW w \in Worker, NEW t \in {"follower", "stamp", "reject"},
         run[w].stage \in {"author", "follower"}, Goto(w, t), run[w].by \in LocalActor,
         t = "follower" => ~ ManualBy(Asked(w).post, run[w].seen),
         t = "stamp" => ByPolicy(run[w].request)
  PROVE  RunsOK'
<1>1. run[w] \in RunState /\ RunOK(run[w]) /\ run[w].request \in Request
  BY InHand DEF QInv, AskStage
<1>2. PICK d \in RunState : d = run[w]
  BY <1>1
<1>3. PICK r \in Request : r = d.request
  BY <1>1, <1>2
<1>4. PICK c : c = [d EXCEPT !.stage = t]
  OBVIOUS
<1>5. /\ c \in RunState /\ c.stage = t /\ c.request = r /\ c.quote = d.quote /\ c.seen = d.seen
      /\ c.by = d.by /\ c.byHand = d.byHand /\ c.iri = d.iri
  BY <1>3, <1>4 DEF RunState, Stage
<1>6. /\ d.stage \in {"author", "follower"} /\ RunOK(d) /\ RunOK(d)' /\ d.by \in LocalActor
  BY <1>1, <1>2, Undisturbed DEF QInv
<1>7. t = "stamp" => ByPolicy(r)'
  BY <1>1, <1>2, <1>3, <1>6, Stays DEF QInv, RunOK, AskStage
<1>8. t = "follower" => ~ ManualBy(Ask[r].post, d.seen)
  BY <1>2, <1>3 DEF Asked
<1>9. RunOK(c)'
  BY <1>3, <1>5, <1>6, <1>7, <1>8 DEF RunOK, AskStage, DrawStage, ManualBy
<1>10. run' = [run EXCEPT ![w] = c]
  BY <1>2, <1>4 DEF Goto, QInv, TypeOK
<1> QED
  BY <1>5, <1>9, <1>10, OnlyOne DEF QInv

LEMMA CheckAuthorRuns ==
  ASSUME QInv, TypeOK', Kept, NEW w \in Worker, CheckAuthor(w)
  PROVE  RunsOK'
<1>1. CASE EndRequest(w, "passed") \/ EndRequest(w, "pending")
  BY <1>1, EndRuns
<1>2. ASSUME run[w].by \in LocalActor, NEW t \in {"stamp", "follower"}, Goto(w, t),
             ~ ManualBy(Asked(w).post, run[w].seen), t = "stamp" => PublicBy(Asked(w).post, run[w].seen)
      PROVE  RunsOK'
  <2>1. /\ run[w].stage = "author" /\ run[w] \in RunState /\ RunOK(run[w]) /\ run[w].request \in Request
    BY InHand DEF CheckAuthor, At, QInv, AskStage
  <2>2. run[w].seen \in Nat
    BY <2>1, QuotesAssumption DEF RunState
  <2>3. t = "stamp" => ByPolicy(run[w].request)
    BY <1>2, <2>1, <2>2, ReadIsAgreement DEF QInv, RunOK, Asked
  <2> QED
    BY <1>2, <2>1, <2>3, GotoRuns
<1> QED
  BY <1>1, <1>2 DEF CheckAuthor, Evaluate

LEMMA ReadFollowerRuns ==
  ASSUME QInv, TypeOK', Kept, NEW w \in Worker, ReadFollower(w)
  PROVE  RunsOK'
<1>1. /\ run[w].stage = "follower" /\ run[w] \in RunState /\ RunOK(run[w]) /\ run[w].request \in Request
  BY InHand DEF ReadFollower, At, QInv, AskStage
<1>2. run[w].seen \in Nat
  BY <1>1, QuotesAssumption DEF RunState
<1>3. \/ Goto(w, "reject")
      \/ /\ Goto(w, "stamp")
         /\ \/ Recipient(Asked(w).post, run[w].seen, Asked(w).sender)
            \/ <<run[w].by, Asked(w).sender>> \in follower
  BY DEF ReadFollower
<1>4. CASE Goto(w, "reject")
  BY <1>1, <1>4, GotoRuns DEF RunOK
<1>5. CASE ~ Goto(w, "reject")
  <2>1. ByPolicy(run[w].request)
    BY <1>1, <1>2, <1>3, <1>5, ReadIsAgreement DEF QInv, RunOK, Asked
  <2> QED
    BY <1>1, <1>3, <1>5, <2>1, GotoRuns DEF RunOK
<1> QED
  BY <1>4, <1>5

LEMMA SaveStampRuns ==
  ASSUME QInv, TypeOK', Kept, NEW w \in Worker, SaveStamp(w)
  PROVE  RunsOK'
<1>1. run[w] \in RunState /\ RunOK(run[w]) /\ run[w].request \in Request
  BY InHand DEF QInv, SaveStamp, At, AskStage
<1>2. PICK d \in RunState : d = run[w]
  BY <1>1
<1>3. PICK r \in Request : r = d.request
  BY <1>1, <1>2
<1>4. PICK i : i \in 0..Foreign /\ i \in 1..minted' /\ StoreStamp(w, i)
  BY SaveStampIRI DEF QInv
<1>5. i \in 1..minted' /\ i \in 0..Foreign
  BY <1>4
<1>6. PICK c : c = [d EXCEPT !.stage = "accept", !.iri = i]
  OBVIOUS
<1>7. /\ c \in RunState /\ c.stage = "accept" /\ c.request = r /\ c.quote = d.quote /\ c.seen = d.seen
      /\ c.by = d.by /\ c.byHand = d.byHand /\ c.iri = i
  BY <1>3, <1>5, <1>6 DEF RunState, Stage
<1>8. /\ d.stage = "stamp" /\ RunOK(d) /\ RunOK(d)'
  BY <1>1, <1>2, Undisturbed DEF QInv, SaveStamp, At
<1>9. Backed(i, r, d.by, ~ d.byHand)'
  <2>1. CASE <<r, i>> \in lost'
    BY <2>1 DEF Backed
  <2>2. CASE <<r, i>> \notin lost'
    <3>1. stamp' = stamp \cup {[iri |-> i, request |-> r, quote |-> QuoteNamed(w),
                                post |-> Ask[r].post, by |-> d.by]}
      BY <2>2, <1>2, <1>3, <1>4 DEF StoreStamp, Asked
    <3>2. QuoteNamed(w) = Ask[r].quote \/ (~ d.byHand /\ ~ Ask[r].embedded)
      BY <1>2, <1>3 DEF QuoteNamed, Asked
    <3>3. PICK s : s = [iri |-> i, request |-> r, quote |-> QuoteNamed(w),
                        post |-> Ask[r].post, by |-> d.by]
      OBVIOUS
    <3>4. s.iri = i /\ s.by = d.by /\ s.post = Ask[r].post /\ s.quote = QuoteNamed(w) /\ s \in stamp'
      BY <3>1, <3>3
    <3>5. s.quote = Ask[r].quote \/ (~ d.byHand /\ ~ Ask[r].embedded)
      BY <3>2, <3>4
    <3> QED
      BY <3>4, <3>5 DEF Backed
  <2> QED
    BY <2>1, <2>2
<1>10. RunOK(c)'
  BY <1>3, <1>5, <1>7, <1>8, <1>9 DEF RunOK, AskStage, DrawStage
<1>11. run' = [run EXCEPT ![w] = c]
  BY <1>2, <1>4, <1>6 DEF StoreStamp, QInv, TypeOK
<1> QED
  BY <1>7, <1>10, <1>11, OnlyOne DEF QInv

LEMMA DrawRuns ==
  ASSUME QInv, TypeOK', Kept, NEW w \in Worker,
         ReadQuoted(w) \/ ReadStamp(w) \/ ReadStampFails(w) \/ FetchStamp(w)
  PROVE  RunsOK'
<1>1. run[w] \in RunState /\ RunOK(run[w]) /\ run[w].stage \in DrawStage /\ run[w].quote \in Quote
  BY InHand DEF QInv, ReadQuoted, ReadStamp, ReadStampFails, FetchStamp, At, DrawStage
<1>2. PICK d \in RunState : d = run[w]
  BY <1>1
<1>3. ASSUME NEW t \in {"cached", "fetched"}, run' = [run EXCEPT ![w].stage = t] PROVE RunsOK'
  <2>1. PICK c : c = [d EXCEPT !.stage = t]
    OBVIOUS
  <2>2. c \in RunState /\ c.stage = t /\ c.quote = d.quote
    BY <2>1 DEF RunState, Stage
  <2>3. RunOK(c)'
    BY <1>1, <1>2, <2>2 DEF RunOK, AskStage, DrawStage
  <2>4. run' = [run EXCEPT ![w] = c]
    BY <1>2, <1>3, <2>1 DEF QInv, TypeOK
  <2> QED
    BY <2>2, <2>3, <2>4, OnlyOne DEF QInv
<1>4. \/ EndQuote(w, "admitted") \/ EndQuote(w, "refused")
      \/ \E t \in {"cached", "fetched"} : run' = [run EXCEPT ![w].stage = t]
  BY DEF ReadQuoted, ReadStamp, ReadStampFails, FetchStamp, Admit, Refuse
<1> QED
  BY <1>3, <1>4, EndRuns

LEMMA RunsStep ==
  ASSUME QInv, TypeOK', Kept, Next
  PROVE  RunsOK'
<1>1. CASE \/ \E p \in Post : Publish(p)
           \/ \E r \in Request : \/ Follow(Author[Ask[r].post], Ask[r].sender)
                                 \/ RemoveQuadEdge(Author[Ask[r].post], Ask[r].sender)
           \/ \E w \in Worker, r \in Request : RefuseRequest(w, r)
  <2>1. UNCHANGED run
    BY <1>1 DEF RefuseRequest, Publish, Follow, RemoveQuadEdge
  <2> QED
    BY <2>1, WorldRuns
<1>2. ASSUME NEW w \in Worker, Stop(w) \/ Dispatch(w) PROVE RunsOK'
  BY <1>2, EndRuns DEF Stop, Dispatch
<1> QED
  BY <1>1, <1>2, TakeRuns, ReadPolicyRuns, CheckAuthorRuns, ReadFollowerRuns, SaveStampRuns, DrawRuns
  DEF Next

------------------------------------------------------------------------------
(* The rows, the answers and the admitted posts. *)
(* Who writes the rows, the answers, the admitted posts and the versions.  *)
LEMMA Writers ==
  ASSUME Next
  PROVE  /\ UNCHANGED stamp \/ \E w \in Worker : SaveStamp(w)
         /\ UNCHANGED sent \/ \E w \in Worker : Dispatch(w)
         /\ UNCHANGED since \/ \E w \in Worker, r \in Request : TakeRequest(w, r)
         /\ UNCHANGED admitted
              \/ \E w \in Worker : ReadQuoted(w) \/ ReadStamp(w) \/ ReadStampFails(w) \/ FetchStamp(w)
<1>1. CASE \/ \E p \in Post : Publish(p)
           \/ \E r \in Request : \/ Follow(Author[Ask[r].post], Ask[r].sender)
                                 \/ RemoveQuadEdge(Author[Ask[r].post], Ask[r].sender)
  <2>1. UNCHANGED <<stamp, sent, since, admitted>>
    BY <1>1 DEF Publish, Follow, RemoveQuadEdge, answers
  <2> QED
    BY <2>1
<1>2. ASSUME NEW w \in Worker, NEW r \in Request, TakeRequest(w, r)
      PROVE  UNCHANGED <<stamp, sent, admitted>>
  BY <1>2 DEF TakeRequest, answers
<1>3. ASSUME NEW w \in Worker,
             \/ \E r \in Request : RefuseRequest(w, r)
             \/ \E r \in Request, u \in LocalActor, i \in 0..MaxStamp : AcceptQuoteRequest(w, r, u, i)
             \/ \E r \in Request, u \in LocalActor : RejectQuoteRequest(w, r, u)
             \/ \E q \in Quote, i \in 0..Foreign : TakeCreate(w, q, i)
      PROVE  UNCHANGED <<stamp, sent, since, admitted>>
  BY <1>3 DEF RefuseRequest, AcceptQuoteRequest, RejectQuoteRequest, TakeCreate, answers
<1>4. ASSUME NEW w \in Worker, Stop(w) \/ ReadPolicy(w) \/ CheckAuthor(w) \/ ReadFollower(w)
      PROVE  UNCHANGED <<stamp, sent, since, admitted>>
  BY <1>4 DEF Stop, ReadPolicy, CheckAuthor, ReadFollower, answers
<1>5. ASSUME NEW w \in Worker, SaveStamp(w) PROVE UNCHANGED <<sent, since, admitted>>
  BY <1>5 DEF SaveStamp, StoreStamp
<1>6. ASSUME NEW w \in Worker, Dispatch(w) PROVE UNCHANGED <<stamp, since, admitted>>
  BY <1>6 DEF Dispatch
<1>7. ASSUME NEW w \in Worker, ReadQuoted(w) \/ ReadStamp(w) \/ ReadStampFails(w) \/ FetchStamp(w)
      PROVE  UNCHANGED <<stamp, sent, since>>
  BY <1>7 DEF ReadQuoted, ReadStamp, ReadStampFails, FetchStamp, answers
<1> QED
  BY <1>1, <1>2, <1>3, <1>4, <1>5, <1>6, <1>7 DEF Next

LEMMA SinceStep ==
  ASSUME QInv, TypeOK', Kept, Next
  PROVE  SinceOK'
<1>1. ASSUME NEW r \in Request PROVE since'[r] <= published'[Ask[r].post]
  <2>1. /\ published[Ask[r].post] \in Nat /\ published'[Ask[r].post] \in Nat
        /\ since[r] \in Nat /\ since'[r] \in Nat
        /\ since[r] <= published[Ask[r].post] /\ published[Ask[r].post] <= published'[Ask[r].post]
    BY NumbersOK, QuotesAssumption DEF QInv, SinceOK, Kept, TypeOK
  <2>2. since'[r] = since[r] \/ since'[r] = published[Ask[r].post]
    <3>1. CASE \E w \in Worker, q \in Request : TakeRequest(w, q)
      BY <3>1 DEF TakeRequest, QInv, TypeOK
    <3>2. CASE ~ \E w \in Worker, q \in Request : TakeRequest(w, q)
      <4>1. UNCHANGED since
        BY <3>2, Writers
      <4> QED
        BY <4>1
    <3> QED
      BY <3>1, <3>2
  <2> QED
    BY <2>1, <2>2
<1> QED
  BY <1>1 DEF SinceOK

(* A row that was right stays right. *)
LEMMA StampStays ==
  ASSUME QInv, TypeOK', Kept, NEW s \in stamp
  PROVE  StampOK(s)'
<1>1. StampOK(s) /\ s \in Stamp
  BY DEF QInv, StampsOK, TypeOK
<1>2. PICK r \in Request : r = s.request
  BY <1>1 DEF Stamp
<1>3. /\ Agreed(r) => Agreed(r)'
      /\ outcome'[r] # "queued"
  BY <1>1, <1>2, Stays DEF QInv, StampOK, Kept
<1>4. s.iri \in Nat /\ minted \in Nat /\ minted' \in Nat /\ minted <= minted'
  BY <1>1, NumbersOK DEF Stamp, Kept, QInv, TypeOK
<1> QED
  BY <1>1, <1>2, <1>3, <1>4 DEF StampOK

LEMMA StampsStep ==
  ASSUME QInv, TypeOK', Kept, Next
  PROVE  StampsOK'
<1>1. CASE UNCHANGED stamp
  BY <1>1, StampStays DEF StampsOK
<1>2. CASE ~ UNCHANGED stamp
  <2>1. PICK w \in Worker : SaveStamp(w)
    BY <1>2, Writers
  <2>2. /\ run[w] \in RunState /\ RunOK(run[w]) /\ run[w].request \in Request
        /\ run[w].stage = "stamp"
    BY <2>1, InHand DEF QInv, SaveStamp, At, AskStage
  <2>3. PICK r \in Request : r = run[w].request
    BY <2>2
  <2>4. PICK u, n : u = run[w].by /\ n = QuoteNamed(w)
    OBVIOUS
  <2>5. PICK i : i \in 1..minted' /\ StoreStamp(w, i)
    BY <2>1, SaveStampIRI DEF QInv
  <2>6. PICK s : s = [iri |-> i, request |-> r, quote |-> n, post |-> Ask[r].post, by |-> u]
    OBVIOUS
  <2>7. stamp' = stamp \cup {s}
    BY <1>2, <2>3, <2>4, <2>5, <2>6 DEF StoreStamp, Asked
  <2>8. /\ s.iri \in 1..minted' /\ s.request = r /\ s.quote = n /\ s.post = Ask[r].post /\ s.by = u
    BY <2>5, <2>6
  <2>9. n \in {Ask[r].quote, NoQuote}
    BY <2>3, <2>4 DEF QuoteNamed, Asked
  <2>10. outcome[r] # "queued" /\ outcome'[r] # "queued"
    BY <2>2, <2>3 DEF RunOK, AskStage, Kept
  <2>11. u = Author[Ask[r].post] => Agreed(r)
    BY <2>2, <2>3, <2>4 DEF RunOK, Agreed, ByHand
  <2>12. u = Author[Ask[r].post] => Agreed(r)'
    BY <2>10, <2>11, Stays DEF QInv
  <2>13. minted' \in Nat
    BY DEF TypeOK
  <2>14. StampOK(s)'
    BY <2>8, <2>9, <2>10, <2>12, <2>13 DEF StampOK
  <2> QED
    BY <2>7, <2>14, StampStays DEF StampsOK
<1> QED
  BY <1>1, <1>2

(* Dispatch sends one answer, all others stay as they were. *)
LEMMA OneAnswer ==
  ASSUME QInv, Next
  PROVE  sent' \subseteq sent \/ \E w \in Worker : Dispatch(w) /\ sent' = sent \cup {Answered(w)}
<1>1. CASE \E w \in Worker : Dispatch(w)
  BY <1>1 DEF Dispatch
<1>2. CASE UNCHANGED sent
  BY <1>2
<1> QED
  BY <1>1, <1>2, Writers

LEMMA SentStep ==
  ASSUME QInv, TypeOK', Kept, Next
  PROVE  SentOK'
<1> DEFINE Right(m) == /\ m.iri <= minted /\ outcome[m.request] # "queued"
                       /\ Backed(m.iri, m.request, m.by, m.automatic)
                       /\ m.automatic => ByPolicy(m.request)
<1>1. ASSUME NEW m \in Answer, Right(m) PROVE Right(m)'
  <2>1. PICK r \in Request : r = m.request
    BY DEF Answer
  <2>2. /\ ByPolicy(r) => ByPolicy(r)'
        /\ Backed(m.iri, r, m.by, m.automatic) => Backed(m.iri, r, m.by, m.automatic)'
        /\ outcome'[r] # "queued"
    BY <1>1, <2>1, Stays DEF QInv, Kept
  <2>3. m.iri \in Nat /\ minted \in Nat /\ minted' \in Nat /\ minted <= minted'
    BY NumbersOK, QuotesAssumption DEF Answer, Kept, QInv, TypeOK
  <2> QED
    BY <1>1, <2>1, <2>2, <2>3
<1>2. ASSUME NEW m \in sent, m.kind = "Accept" PROVE m \in Answer /\ Right(m)
  BY <1>2 DEF QInv, SentOK, TypeOK
<1>3. ASSUME NEW w \in Worker, Dispatch(w), NEW m, m = Answered(w), m.kind = "Accept"
      PROVE  m \in Answer /\ Right(m)
  <2>1. run[w].stage = "accept"
    BY <1>3 DEF Answered, At
  <2>2. run[w] \in RunState /\ RunOK(run[w]) /\ run[w].request \in Request
    BY <2>1, InHand DEF QInv, AskStage
  <2>3. /\ m.request = run[w].request /\ m.iri = run[w].iri /\ m.by = run[w].by
        /\ m.automatic = ~ run[w].byHand
    BY <1>3 DEF Answered
  <2>4. m.iri \in 1..minted /\ minted \in 0..MaxStamp /\ MaxStamp \in Nat /\ m.by \in LocalActor
    BY <2>1, <2>2, <2>3, QuotesAssumption DEF RunOK, QInv, TypeOK
  <2>5. m \in Answer
    BY <1>3, <2>1, <2>2, <2>3, <2>4 DEF Answer, Answered, RunState
  <2>6. Backed(run[w].iri, run[w].request, run[w].by, ~ run[w].byHand)
    BY <2>1, <2>2 DEF RunOK
  <2>7. Backed(m.iri, m.request, m.by, m.automatic)
    BY <2>3, <2>6
  <2>8. ~ run[w].byHand => ByPolicy(run[w].request)
    BY <2>1, <2>2 DEF RunOK
  <2>9. m.automatic => ByPolicy(m.request)
    BY <2>3, <2>8
  <2>10. outcome[m.request] # "queued"
    BY <2>1, <2>2, <2>3 DEF RunOK, AskStage
  <2>11. Right(m)
    BY <2>4, <2>7, <2>9, <2>10
  <2> QED
    BY <2>5, <2>11
<1>4. ASSUME NEW m \in sent', m.kind = "Accept" PROVE Right(m)'
  <2>1. m \in Answer /\ Right(m)
    BY <1>2, <1>3, <1>4, OneAnswer
  <2> QED
    BY <1>1, <2>1
<1> QED
  BY <1>4 DEF SentOK

(* Only SaveStamp brings a worker to its Accept. *)
LEMMA NoNewAccept ==
  ASSUME QInv, Next, ~ \E w \in Worker : SaveStamp(w)
  PROVE  \A v \in Worker : At(v, "accept")' => At(v, "accept") /\ run'[v] = run[v]
<1> DEFINE Kind == \A v \in Worker : At(v, "accept")' => At(v, "accept") /\ run'[v] = run[v]
<1>1. ASSUME NEW w \in Worker, NEW c \in RunState, c.stage # "accept", run' = [run EXCEPT ![w] = c]
      PROVE  Kind
  BY <1>1 DEF At, QInv, TypeOK
<1>2. Idle.stage # "accept"
  BY DEF Idle
<1>3. ASSUME NEW w \in Worker, NEW o, EndRequest(w, o) \/ EndQuote(w, o) PROVE Kind
  BY <1>1, <1>2, <1>3, IdleOK DEF EndRequest, EndQuote
<1>4. ASSUME NEW w \in Worker, NEW t \in Stage \ {"accept"}, run' = [run EXCEPT ![w].stage = t] PROVE Kind
  <2>1. PICK d \in RunState : d = run[w]
    BY DEF QInv, TypeOK
  <2>2. PICK c : c = [d EXCEPT !.stage = t]
    OBVIOUS
  <2>3. c \in RunState /\ c.stage # "accept"
    BY <2>2 DEF RunState
  <2>4. run' = [run EXCEPT ![w] = c]
    BY <1>4, <2>1, <2>2 DEF QInv, TypeOK
  <2> QED
    BY <1>1, <2>3, <2>4
<1>5. CASE UNCHANGED run
  BY <1>5 DEF At
<1>6. ASSUME NEW w \in Worker, NEW r \in Request, TakeRequest(w, r) PROVE Kind
  <2>1. run'[w].stage # "accept" /\ \A v \in Worker : v # w => run'[v] = run[v]
    BY <1>6 DEF TakeRequest, Idle, QInv, TypeOK
  <2> QED
    BY <2>1 DEF At
<1>7. ASSUME NEW w \in Worker, NEW r \in Request, NEW u \in LocalActor,
             \/ \E i \in 0..MaxStamp : AcceptQuoteRequest(w, r, u, i)
             \/ RejectQuoteRequest(w, r, u) PROVE Kind
  <2>1. run'[w].stage # "accept" /\ \A v \in Worker : v # w => run'[v] = run[v]
    <3>1. \E t \in {"stamp", "reject"} : \E c : c.stage = t /\ run' = [run EXCEPT ![w] = c]
      BY <1>7 DEF AcceptQuoteRequest, RejectQuoteRequest, Idle
    <3>2. run \in [Worker -> RunState]
      BY DEF QInv, TypeOK
    <3> QED
      BY <3>1, <3>2
  <2> QED
    BY <2>1 DEF At
<1>8. ASSUME NEW w \in Worker, NEW q \in Quote, NEW i \in 0..Foreign, TakeCreate(w, q, i) PROVE Kind
  <2>1. run'[w].stage # "accept" /\ \A v \in Worker : v # w => run'[v] = run[v]
    BY <1>8 DEF TakeCreate, Idle, QInv, TypeOK
  <2> QED
    BY <2>1 DEF At
<1>9. ASSUME NEW w \in Worker, ReadPolicy(w) PROVE Kind
  <2>1. CASE published[Asked(w).post] = 0
    BY <1>3, <1>9, <2>1 DEF ReadPolicy
  <2>2. CASE published[Asked(w).post] # 0
    <3>1. run'[w].stage # "accept" /\ \A v \in Worker : v # w => run'[v] = run[v]
      BY <1>9, <2>2 DEF ReadPolicy, QInv, TypeOK, RunState
    <3> QED
      BY <3>1 DEF At
  <2> QED
    BY <2>1, <2>2
<1>10. ASSUME NEW w \in Worker, CheckAuthor(w) \/ ReadFollower(w) PROVE Kind
  <2>1. \/ EndRequest(w, "pending") \/ EndRequest(w, "passed")
        \/ \E t \in Stage \ {"accept"} : run' = [run EXCEPT ![w].stage = t]
    BY <1>10 DEF CheckAuthor, Evaluate, ReadFollower, Goto, Stage
  <2> QED
    BY <1>3, <1>4, <2>1
<1>11. ASSUME NEW w \in Worker, ReadQuoted(w) \/ ReadStamp(w) \/ ReadStampFails(w) \/ FetchStamp(w)
       PROVE  Kind
  <2>1. \/ EndQuote(w, "admitted") \/ EndQuote(w, "refused")
        \/ \E t \in Stage \ {"accept"} : run' = [run EXCEPT ![w].stage = t]
    BY <1>11 DEF ReadQuoted, ReadStamp, ReadStampFails, FetchStamp, Admit, Refuse, Stage
  <2> QED
    BY <1>3, <1>4, <2>1
<1>12. ASSUME NEW w \in Worker, Stop(w) \/ Dispatch(w) PROVE Kind
  BY <1>3, <1>12 DEF Stop, Dispatch
<1>13. CASE \/ \E p \in Post : Publish(p)
            \/ \E r \in Request : \/ Follow(Author[Ask[r].post], Ask[r].sender)
                                  \/ RemoveQuadEdge(Author[Ask[r].post], Ask[r].sender)
            \/ \E w \in Worker, r \in Request : RefuseRequest(w, r)
  BY <1>5, <1>13 DEF RefuseRequest, Publish, Follow, RemoveQuadEdge
<1> QED
  BY <1>6, <1>7, <1>8, <1>9, <1>10, <1>11, <1>12, <1>13 DEF Next

LEMMA ApartStep ==
  ASSUME QInv, TypeOK', Kept, Next
  PROVE  Apart'
<1>1. ASSUME NEW w \in Worker, SaveStamp(w) PROVE Apart'
  <2>1. PICK i : StoreStamp(w, i) /\ (i = minted + 1 \/ i \in given)
    BY <1>1, SaveStampIRI DEF QInv
  <2>2. minted \in Nat
    BY NumbersOK DEF QInv
  <2>3. run'[w].iri = i /\ \A v \in Worker : v # w => run'[v] = run[v]
    BY <2>1 DEF StoreStamp, QInv, TypeOK, RunState
  <2>4. \A v \in Worker : At(v, "accept") => i \in given \/ run[v].iri # i
    <3>1. ASSUME NEW v \in Worker, run[v].stage = "accept" PROVE run[v].iri \in 1..minted
      <4>1. RunOK(run[v])
        BY DEF QInv, RunsOK
      <4> QED
        BY <3>1, <4>1 DEF RunOK
    <3> QED
      BY <2>1, <2>2, <3>1 DEF At
  <2>5. \A m \in sent : m.kind = "Accept" => i \in given \/ m.iri # i
    BY <2>1, <2>2, QuotesAssumption DEF QInv, SentOK, TypeOK, Answer
  <2>6. UNCHANGED <<sent, given>>
    BY <2>1 DEF StoreStamp
  <2>7. \A v \in Worker, m \in sent :
          At(v, "accept")' /\ m.kind = "Accept" => m.iri \in given \/ m.iri # run'[v].iri
    BY <2>3, <2>5 DEF Apart, At, QInv
  <2>8. \A v, u \in Worker : At(v, "accept")' /\ At(u, "accept")' /\ v # u =>
          run'[v].iri \in given \/ run'[v].iri # run'[u].iri
    BY <2>3, <2>4 DEF Apart, At, QInv
  <2> QED
    BY <2>6, <2>7, <2>8 DEF Apart, QInv
<1>2. ASSUME NEW w \in Worker, Dispatch(w) PROVE Apart'
  <2>1. run' = [run EXCEPT ![w] = Idle]
    BY <1>2 DEF Dispatch, EndRequest
  <2>2. \A v \in Worker : At(v, "accept")' => v # w /\ At(v, "accept") /\ run'[v] = run[v]
    BY <2>1 DEF At, QInv, TypeOK, Idle
  <2>3. sent' = sent \/ sent' = sent \cup {Answered(w)}
    BY <1>2 DEF Dispatch
  <2>4. Answered(w).kind = "Accept" => At(w, "accept") /\ Answered(w).iri = run[w].iri
    BY DEF Answered
  <2>5. ASSUME NEW m \in sent', m.kind = "Accept"
        PROVE  m \in sent \/ (m = Answered(w) /\ At(w, "accept") /\ m.iri = run[w].iri)
    BY <2>3, <2>4, <2>5
  <2>6. \A m, n \in sent' :
          m.kind = "Accept" /\ n.kind = "Accept" /\ m.iri = n.iri => m.iri \in given \/ m = n
    BY <2>5 DEF Apart, QInv
  <2>7. \A v \in Worker, m \in sent' :
          At(v, "accept")' /\ m.kind = "Accept" => m.iri \in given \/ m.iri # run'[v].iri
    BY <2>2, <2>5 DEF Apart, QInv
  <2>8. \A v, u \in Worker : At(v, "accept")' /\ At(u, "accept")' /\ v # u =>
          run'[v].iri \in given \/ run'[v].iri # run'[u].iri
    BY <2>2 DEF Apart, QInv
  <2>9. UNCHANGED given
    BY <1>2 DEF Dispatch
  <2> QED
    BY <2>6, <2>7, <2>8, <2>9 DEF Apart
<1>3. CASE ~ \E w \in Worker : SaveStamp(w) \/ Dispatch(w)
  <2>1. UNCHANGED sent
    BY <1>3, Writers
  <2>2. \A v \in Worker : At(v, "accept")' => At(v, "accept") /\ run'[v] = run[v]
    BY <1>3, NoNewAccept
  <2>3. given \subseteq given'
    BY DEF Kept
  <2> QED
    BY <2>1, <2>2, <2>3 DEF Apart, QInv
<1> QED
  BY <1>1, <1>2, <1>3

LEMMA AdmittedStep ==
  ASSUME QInv, TypeOK', Kept, Next
  PROVE  AdmittedOK'
<1> DEFINE Good(a) ==
      \/ Draft[a[1]].actor = Author[Draft[a[1]].post] \/ a[2] = Foreign \/ Mixed(a[2])
      \/ \E s \in stamp : /\ s.iri = a[2] /\ s.quote = a[1] /\ s.post = Draft[a[1]].post
                          /\ s.by = Author[Draft[a[1]].post]
<1>1. ASSUME NEW a, Good(a) PROVE Good(a)'
  BY <1>1 DEF Kept, Mixed
<1>2. ASSUME NEW w \in Worker, ReadQuoted(w) \/ ReadStamp(w) \/ ReadStampFails(w) \/ FetchStamp(w),
             NEW a \in admitted', a \notin admitted
      PROVE  Good(a)
  <2>1. a = <<run[w].quote, run[w].iri>>
    BY <1>2 DEF ReadQuoted, ReadStamp, ReadStampFails, FetchStamp, Admit, Refuse
  <2>2. \/ Draft[run[w].quote].actor = Author[Draft[run[w].quote].post]
        \/ run[w].iri = Foreign
        \/ \E s, t, u \in stamp : /\ s.iri = run[w].iri /\ t.iri = run[w].iri /\ u.iri = run[w].iri
                                 /\ s.quote = run[w].quote /\ t.post = Draft[run[w].quote].post
                                 /\ u.by = Author[Draft[run[w].quote].post]
    BY <1>2 DEF ReadQuoted, ReadStamp, ReadStampFails, FetchStamp, Refuse, Found, Draw, Matches
  <2> QED
    BY <2>1, <2>2 DEF Mixed
<1>3. CASE ~ \E w \in Worker : ReadQuoted(w) \/ ReadStamp(w) \/ ReadStampFails(w) \/ FetchStamp(w)
  <2>1. UNCHANGED admitted
    BY <1>3, Writers
  <2> QED
    BY <2>1, <1>1 DEF AdmittedOK, QInv
<1>4. \A a \in admitted : Good(a)
  BY DEF QInv, AdmittedOK
<1>5. CASE \E w \in Worker : ReadQuoted(w) \/ ReadStamp(w) \/ ReadStampFails(w) \/ FetchStamp(w)
  <2>1. \A a \in admitted' : Good(a)
    BY <1>2, <1>4, <1>5
  <2>2. \A a \in admitted' : Good(a)'
    BY <1>1, <2>1
  <2> QED
    BY <2>2 DEF AdmittedOK
<1> QED
  BY <1>3, <1>5

------------------------------------------------------------------------------
LEMMA InitOK == Init => QInv
<1> SUFFICES ASSUME Init PROVE QInv
  OBVIOUS
<1>1. TypeOK
  BY IdleOK, QuotesAssumption DEF Init, TypeOK
<1>2. RunsOK
  BY DEF Init, RunsOK, RunOK, Idle, AskStage, DrawStage
<1>3. SinceOK
  BY QuotesAssumption DEF Init, SinceOK
<1> QED
  BY <1>1, <1>2, <1>3 DEF Init, QInv, StampsOK, SentOK, Apart, AdmittedOK, At, Idle

(* QInv holds in every state, for any number of workers, requests, posts   *)
(* and editions.                                                           *)
THEOREM Inductive == Spec => []QInv
<1>1. Init => QInv
  BY InitOK
<1>2. QInv /\ [Next]_vars => QInv'
  <2>1. ASSUME QInv, Next PROVE QInv'
    <3>1. TypeOK'
      BY <2>1, TypeStep DEF QInv
    <3>2. Kept
      BY <2>1, NextKeeps
    <3> QED
      BY <2>1, <3>1, <3>2, RunsStep, SinceStep, StampsStep, SentStep, ApartStep, AdmittedStep DEF QInv
  <2>2. ASSUME QInv, UNCHANGED vars PROVE QInv'
    <3>1. TypeOK' /\ SinceOK'
      BY <2>2 DEF vars, posts, answers, QInv, TypeOK, SinceOK
    <3>4. RunsOK'
      <4>1. Kept /\ UNCHANGED run
        BY <2>2 DEF vars, posts, answers, Kept, QInv, TypeOK
      <4> QED
        BY <2>2, <3>1, <4>1, WorldRuns
    <3>2. StampsOK' /\ SentOK'
      BY <2>2 DEF vars, posts, answers, QInv, StampsOK, StampOK, SentOK, Backed, ByPolicy, Agreed, ByHand, Entitled
    <3>3. Apart' /\ AdmittedOK'
      BY <2>2 DEF vars, posts, answers, QInv, Apart, AdmittedOK, Mixed, At
    <3> QED
      BY <3>1, <3>2, <3>3, <3>4 DEF QInv
  <2> QED
    BY <2>1, <2>2
<1> QED
  BY <1>1, <1>2, PTL DEF Spec

(* Type correctness of the requests, the answers and the verifications.    *)
THEOREM TypeCorrect == Spec => []TypeOK
<1>1. QInv => TypeOK
  BY DEF QInv
<1> QED
  BY <1>1, Inductive, PTL

(* A third party's quote that was admitted on a stamp of this server has   *)
(* the agreement of the author of the post it quotes, unless a caller      *)
(* stored different stamps under the IRI it names.                         *)
THEOREM Consented == Spec => []QuoteHasConsent
<1>1. QInv => QuoteHasConsent
  <2> SUFFICES ASSUME QInv, NEW a \in admitted,
                      Draft[a[1]].actor # Author[Draft[a[1]].post], a[2] # Foreign, ~ Mixed(a[2])
               PROVE  \E r \in Request : Ask[r].quote = a[1] /\ Ask[r].post = Draft[a[1]].post /\ Agreed(r)
    BY DEF QuoteHasConsent
  <2>1. PICK s \in stamp : /\ s.iri = a[2] /\ s.quote = a[1] /\ s.post = Draft[a[1]].post
                           /\ s.by = Author[Draft[a[1]].post]
    BY DEF QInv, AdmittedOK
  <2>2. s.request \in Request /\ StampOK(s)
    BY DEF QInv, StampsOK, TypeOK, Stamp
  <2>3. a[1] \in Quote
    BY DEF QInv, TypeOK
  <2>4. Ask[s.request].quote = a[1]
    BY <2>1, <2>2, <2>3, QuotesAssumption DEF StampOK
  <2> QED
    BY <2>1, <2>2, <2>4 DEF StampOK
<1> QED
  BY <1>1, Inductive, PTL

(* An automatic Accept had a policy that allowed it.                       *)
THEOREM AcceptedByPolicy == Spec => []AcceptHasPolicy
<1>1. QInv => AcceptHasPolicy
  BY DEF QInv, SentOK, AcceptHasPolicy
<1> QED
  BY <1>1, Inductive, PTL

(* What an Accept grants is stored under the IRI it names unless that save *)
(* failed, and the IRI is in no other Accept unless a caller chose it.     *)
THEOREM AcceptedWithStamp == Spec => []AcceptNamesItsStamp
<1>1. QInv => AcceptNamesItsStamp
  <2> SUFFICES ASSUME QInv, NEW m \in sent, m.kind = "Accept"
               PROVE  /\ Backed(m.iri, m.request, m.by, m.automatic)
                      /\ m.iri \in given \/ \A n \in sent : n.kind = "Accept" /\ n.iri = m.iri => n = m
    BY DEF AcceptNamesItsStamp, Backed
  <2> QED
    BY DEF QInv, SentOK, Apart
<1> QED
  BY <1>1, Inductive, PTL
=============================================================================
