------------------------------- MODULE Quotes -------------------------------
(***************************************************************************)
(* Consent to quotes (FEP-044f).  A QuoteRequest asks the author of a post *)
(* to let another post quote it; the answer is an Accept that names a      *)
(* stamp stored here, a Reject, or, for a manual policy, a decision of the *)
(* author later.  A Create of a quoting post is admitted by its stamp.     *)
(*                                                                         *)
(* Workers of all servers handle requests and creations, one storage or    *)
(* network call at a time, while authors edit posts and followers change.  *)
(* The quads of a post are those of all its versions: what an earlier      *)
(* version allowed or demanded stays so (GetSubjectQuads).                 *)
(***************************************************************************)
EXTENDS Integers

CONSTANTS
  Worker, Actor,
  LocalActor,     \* actors with keys here
  Post, Author,   \* posts that may be quoted, and who wrote them
  Edition,        \* the versions of a post, in the order of their publication
  MaxEdition,     \* bound: versions of a post
  Quote, Draft,   \* quoting posts; who creates them and what they quote
  Request, Ask,   \* QuoteRequests; what they ask, see the assumption
  NoRequest, NoQuote, Nobody,
  MaxStamp,       \* bound: stamp IRIs in use
  MaxFaults       \* bound: failing statements, lookups and stops

Policy == [manual: BOOLEAN, public: BOOLEAN, to: SUBSET Actor]

(* embedded: the instrument is an object, otherwise an IRI or absent;      *)
(* stating: it names its author and what it quotes.                        *)
ASSUME QuotesAssumption ==
  /\ LocalActor \subseteq Actor /\ Nobody \notin Actor
  /\ Author \in [Post -> Actor]
  /\ MaxEdition \in Nat /\ Edition \in [Post -> [1..MaxEdition -> Policy]]
  /\ Draft \in [Quote -> [actor: Actor, post: Post]]
  /\ Ask \in [Request -> [sender: Actor, post: Post, quote: Quote \cup {NoQuote},
                          embedded: BOOLEAN, stating: BOOLEAN]]
  /\ NoRequest \notin Request /\ NoQuote \notin Quote
  /\ MaxStamp \in Nat /\ MaxFaults \in Nat

VARIABLES
  published,  \* versions of each post in rdf_graphs
  follower,   \* edges <<followed, follower>> in rdf_quads
  outcome,    \* what became of each request
  verdict,    \* what became of each quoting post
  run,        \* each worker: its task, its next step and its local variables
  minted,     \* stamp IRIs in use; an IRI is its number
  stamp,      \* stored stamps
  sent,       \* answers sent
  admitted,   \* <<quote, stamp>>, quoting posts that passed and what they named
  granted,    \* history: <<request, actor>>, who was asked to accept by hand
  since,      \* history: versions of the post when a request was taken
  unfollowed, \* history: edges removed
  given,      \* history: stamp IRIs that a caller of AcceptQuoteRequest chose
  lost,       \* history: <<request, iri>>, stamps whose save failed
  faults

posts == <<published, follower, unfollowed>>
answers == <<minted, stamp, sent, granted, given, lost>>
vars == <<posts, outcome, verdict, run, answers, admitted, since, faults>>

NoStamp == 0
Foreign == MaxStamp + 1     \* the IRI of a stamp that another server claims to keep
Stage == {"idle", "policy", "author", "follower", "stamp", "accept", "reject",
          "quoted", "cached", "fetched"}
RunState == [stage: Stage, request: Request \cup {NoRequest}, quote: Quote \cup {NoQuote},
             by: Actor \cup {Nobody}, byHand: BOOLEAN, seen: 0..MaxEdition, iri: 0..Foreign]
Idle == [stage |-> "idle", request |-> NoRequest, quote |-> NoQuote, by |-> Nobody,
         byHand |-> FALSE, seen |-> 0, iri |-> NoStamp]

Stamp == [iri: 1..MaxStamp, request: Request, quote: Quote \cup {NoQuote}, post: Post, by: LocalActor]
Answer == [kind: {"Accept", "Reject"}, request: Request, by: LocalActor, iri: 0..MaxStamp,
           automatic: BOOLEAN]

TypeOK ==
  /\ published \in [Post -> 0..MaxEdition]
  /\ follower \subseteq Actor \X Actor /\ unfollowed \subseteq Actor \X Actor
  /\ outcome \in [Request -> {"queued", "running", "answered", "pending", "passed", "failed",
                            "refused"}]
  /\ verdict \in [Quote -> {"queued", "running", "admitted", "refused"}]
  /\ run \in [Worker -> RunState]
  /\ minted \in 0..MaxStamp /\ given \subseteq 1..MaxStamp /\ lost \subseteq Request \X (1..MaxStamp)
  /\ stamp \subseteq Stamp /\ sent \subseteq Answer
  /\ admitted \subseteq Quote \X (0..Foreign)
  /\ granted \subseteq Request \X LocalActor
  /\ since \in [Request -> 0..MaxEdition]
  /\ faults \in 0..MaxFaults

Init ==
  /\ published = [p \in Post |-> 0]
  /\ follower = {} /\ unfollowed = {}
  /\ outcome = [r \in Request |-> "queued"] /\ verdict = [q \in Quote |-> "queued"]
  /\ run = [w \in Worker |-> Idle]
  /\ minted = 0 /\ stamp = {} /\ sent = {} /\ admitted = {}
  /\ granted = {} /\ since = [r \in Request |-> 0] /\ given = {} /\ lost = {}
  /\ faults = 0

------------------------------------------------------------------------------
(* The world around: versions of posts are saved, edges are written and    *)
(* removed by other tasks; only edges that a request looks for matter.     *)
Publish(p) ==
  /\ published[p] < MaxEdition
  /\ published' = [published EXCEPT ![p] = @ + 1]
  /\ UNCHANGED <<follower, unfollowed, outcome, verdict, run, answers, admitted, since, faults>>

Follow(a, f) ==
  /\ <<a, f>> \notin follower \cup unfollowed
  /\ follower' = follower \cup {<<a, f>>}
  /\ UNCHANGED <<published, unfollowed, outcome, verdict, run, answers, admitted, since, faults>>

RemoveQuadEdge(a, f) ==
  /\ <<a, f>> \in follower
  /\ follower' = follower \ {<<a, f>>} /\ unfollowed' = unfollowed \cup {<<a, f>>}
  /\ UNCHANGED <<published, outcome, verdict, run, answers, admitted, since, faults>>

------------------------------------------------------------------------------
At(w, s) == run[w].stage = s
Asked(w) == Ask[run[w].request]
Faulty == faults < MaxFaults /\ faults' = faults + 1

(* What the union of the first n versions of a post says. *)
ManualBy(p, n) == \E i \in 1..n : Edition[p][i].manual
PublicBy(p, n) == \E i \in 1..n : Edition[p][i].public
Recipient(p, n, a) == \E i \in 1..n : a \in Edition[p][i].to

Goto(w, s) == run' = [run EXCEPT ![w].stage = s] /\ UNCHANGED outcome
EndRequest(w, o) ==
  /\ run' = [run EXCEPT ![w] = Idle]
  /\ outcome' = IF run[w].byHand THEN outcome ELSE [outcome EXCEPT ![run[w].request] = o]
EndQuote(w, v) ==
  /\ run' = [run EXCEPT ![w] = Idle]
  /\ verdict' = [verdict EXCEPT ![run[w].quote] = v]

(* validateQuoteRequestVerb: what an instrument states must be so.         *)
Sound(r) ==
  Ask[r].embedded /\ Ask[r].stating /\ Ask[r].quote # NoQuote =>
    Draft[Ask[r].quote] = [actor |-> Ask[r].sender, post |-> Ask[r].post]

RefuseRequest(w, r) ==
  /\ At(w, "idle") /\ outcome[r] = "queued" /\ ~ Sound(r)
  /\ outcome' = [outcome EXCEPT ![r] = "refused"]
  /\ UNCHANGED <<posts, verdict, run, answers, admitted, since, faults>>

(* A worker has stored the request and goes on to handleQuoteRequest.      *)
TakeRequest(w, r) ==
  /\ At(w, "idle") /\ outcome[r] = "queued" /\ Sound(r)
  /\ outcome' = [outcome EXCEPT ![r] = "running"]
  /\ run' = [run EXCEPT ![w] = [Idle EXCEPT !.stage = "policy", !.request = r]]
  /\ since' = [since EXCEPT ![r] = published[Ask[r].post]]
  /\ UNCHANGED <<posts, verdict, answers, admitted, faults>>

(* The process stops or a statement fails: what is written stays.          *)
Stop(w) ==
  /\ ~ At(w, "idle") /\ Faulty
  /\ IF run[w].quote = NoQuote THEN EndRequest(w, "failed") /\ UNCHANGED verdict
     ELSE EndQuote(w, "refused") /\ UNCHANGED outcome
  /\ UNCHANGED <<posts, answers, admitted, since>>

(* The quads of the quoted post: an unknown post fails the task. *)
ReadPolicy(w) ==
  /\ At(w, "policy")
  /\ LET n == published[Asked(w).post]
     IN IF n = 0 THEN EndRequest(w, "failed")
        ELSE /\ run' = [run EXCEPT ![w].stage = "author", ![w].seen = n,
                                   ![w].by = Author[Asked(w).post]]
             /\ UNCHANGED outcome
  /\ UNCHANGED <<posts, verdict, answers, admitted, since, faults>>

(* Broken variant: a public post is open before its policy is looked at.   *)
EvaluatePublicFirst(w) ==
  LET p == Asked(w).post  n == run[w].seen
  IN \/ PublicBy(p, n) /\ Goto(w, "stamp")
     \/ ~ PublicBy(p, n) /\ ManualBy(p, n) /\ EndRequest(w, "pending")
     \/ ~ PublicBy(p, n) /\ ~ ManualBy(p, n) /\ Goto(w, "follower")

(* GetActorDualKeys: an error, too, means that the author is not local and *)
(* the request is passed on as any activity.  For a local author the       *)
(* policy is evaluated: manual before all else, then public.               *)
Evaluate(w) ==
  LET p == Asked(w).post  n == run[w].seen
  IN \/ ManualBy(p, n) /\ EndRequest(w, "pending")
     \/ ~ ManualBy(p, n) /\ PublicBy(p, n) /\ Goto(w, "stamp")
     \/ ~ ManualBy(p, n) /\ ~ PublicBy(p, n) /\ Goto(w, "follower")

CheckAuthor(w) ==
  /\ At(w, "author")
  /\ \/ run[w].by \in LocalActor /\ Evaluate(w) /\ UNCHANGED faults
     \/ run[w].by \notin LocalActor /\ EndRequest(w, "passed") /\ UNCHANGED faults
     \/ Faulty /\ EndRequest(w, "passed")
  /\ UNCHANGED <<posts, verdict, answers, admitted, since>>

(* checkLocalActorFollower ignores its error and sees no follower then;    *)
(* the recipients are those of the first read.                             *)
ReadFollower(w) ==
  /\ At(w, "follower")
  /\ LET known == Recipient(Asked(w).post, run[w].seen, Asked(w).sender)
     IN \/ /\ Goto(w, IF known \/ <<run[w].by, Asked(w).sender>> \in follower
                      THEN "stamp" ELSE "reject")
           /\ UNCHANGED faults
        \/ Faulty /\ Goto(w, IF known THEN "stamp" ELSE "reject")
  /\ UNCHANGED <<posts, verdict, answers, admitted, since>>

(* AcceptQuoteRequest, RejectQuoteRequest: on a stored request with an     *)
(* instrument, for the local actor the caller names, whatever answer the   *)
(* request has had.  The caller may choose the IRI of the stamp, i, too: a *)
(* new one or one in use.                                                  *)
AcceptQuoteRequest(w, r, u, i) ==
  /\ At(w, "idle") /\ outcome[r] \notin {"queued", "refused"} /\ Ask[r].quote # NoQuote
  /\ i <= minted + 1
  /\ run' = [run EXCEPT ![w] = [Idle EXCEPT !.stage = "stamp", !.request = r, !.by = u,
                                            !.byHand = TRUE, !.iri = i]]
  /\ granted' = granted \cup {<<r, u>>}
  /\ given' = given \cup ({i} \ {NoStamp}) /\ minted' = IF i > minted THEN i ELSE minted
  /\ UNCHANGED <<posts, outcome, verdict, stamp, sent, lost, admitted, since, faults>>

RejectQuoteRequest(w, r, u) ==
  /\ At(w, "idle") /\ outcome[r] \notin {"queued", "refused"}
  /\ run' = [run EXCEPT ![w] = [Idle EXCEPT !.stage = "reject", !.request = r, !.by = u,
                                            !.byHand = TRUE]]
  /\ UNCHANGED <<posts, outcome, verdict, answers, admitted, since, faults>>

(* saveQuoteAuthorizationStamp discards every error.  The automatic answer *)
(* takes the quoting post from an embedded instrument only, the one by     *)
(* hand from the stored quads of the request.                              *)
QuoteNamed(w) == IF run[w].byHand \/ Asked(w).embedded THEN Asked(w).quote ELSE NoQuote

StoreStamp(w, i) ==
  /\ \/ /\ stamp' = stamp \cup {[iri |-> i, request |-> run[w].request, quote |-> QuoteNamed(w),
                                 post |-> Asked(w).post, by |-> run[w].by]}
        /\ UNCHANGED <<lost, faults>>
     \/ Faulty /\ lost' = lost \cup {<<run[w].request, i>>} /\ UNCHANGED stamp
  /\ run' = [run EXCEPT ![w].stage = "accept", ![w].iri = i]
  /\ UNCHANGED <<posts, outcome, verdict, sent, granted, given, admitted, since>>

(* Broken variant: every stamp gets one IRI. *)
SaveStampShared(w) == At(w, "stamp") /\ minted' = 1 /\ StoreStamp(w, 1)

SaveStamp(w) ==
  /\ At(w, "stamp")
  /\ \/ run[w].iri = NoStamp /\ minted < MaxStamp /\ minted' = minted + 1 /\ StoreStamp(w, minted + 1)
     \/ run[w].iri # NoStamp /\ UNCHANGED minted /\ StoreStamp(w, run[w].iri)

(* DispatchOutboundActivity: it may fail with or without the answer having *)
(* arrived. *)
Answered(w) == [kind |-> IF At(w, "accept") THEN "Accept" ELSE "Reject", request |-> run[w].request,
                by |-> run[w].by, iri |-> run[w].iri, automatic |-> ~ run[w].byHand]
Dispatch(w) ==
  /\ At(w, "accept") \/ At(w, "reject")
  /\ \/ sent' = sent \cup {Answered(w)} /\ EndRequest(w, "answered")
     \/ sent' \in {sent, sent \cup {Answered(w)}} /\ EndRequest(w, "failed")
  /\ UNCHANGED <<posts, verdict, minted, stamp, granted, given, lost, admitted, since, faults>>

------------------------------------------------------------------------------
(* A Create of a quoting post, with the stamp it names; validateCreateVerb *)
(* has found its sender to be its author.                                  *)
TakeCreate(w, q, i) ==
  /\ At(w, "idle") /\ verdict[q] = "queued"
  /\ i \in 0..minted \cup {Foreign}
  /\ verdict' = [verdict EXCEPT ![q] = "running"]
  /\ run' = [run EXCEPT ![w] = [Idle EXCEPT !.stage = "quoted", !.quote = q, !.iri = i]]
  /\ UNCHANGED <<posts, outcome, answers, admitted, since, faults>>

Draw(w) == Draft[run[w].quote]
Admit(w) == EndQuote(w, "admitted") /\ admitted' = admitted \cup {<<run[w].quote, run[w].iri>>}
Refuse(w) == EndQuote(w, "refused") /\ UNCHANGED admitted

(* getQuotedPostAuthor: the quads, else the post itself is fetched; an     *)
(* author may quote itself.                                                *)
ReadQuoted(w) ==
  /\ At(w, "quoted")
  /\ LET author == Author[Draw(w).post]
     IN \/ /\ published[Draw(w).post] > 0 \/ author \notin LocalActor
           /\ \/ author = Draw(w).actor /\ Admit(w)
              \/ author # Draw(w).actor /\ run[w].iri = NoStamp /\ Refuse(w)
              \/ /\ author # Draw(w).actor /\ run[w].iri # NoStamp
                 /\ run' = [run EXCEPT ![w].stage = "cached"] /\ UNCHANGED <<verdict, admitted>>
           /\ UNCHANGED faults
        \/ published[Draw(w).post] = 0 /\ Refuse(w) /\ UNCHANGED faults
  /\ UNCHANGED <<posts, outcome, answers, since>>

(* Broken variant: the quoted post is not compared. *)
MatchesAnyPost(w, s) == s.quote = run[w].quote /\ s.by = Author[Draw(w).post]

(* verifyLocalQuoteAuthorization: stored quads decide, whatever they say;  *)
(* without them, or if they cannot be read, the stamp is fetched.  Of the  *)
(* stamps under one IRI each part is the first row of the union of quads,  *)
(* which no ORDER BY orders: the parts may come from different stamps.     *)
Found(w) == {s \in stamp : s.iri = run[w].iri}
Matches(w, s) == s.quote = run[w].quote /\ s.post = Draw(w).post /\ s.by = Author[Draw(w).post]

ReadStamp(w) ==
  /\ At(w, "cached")
  /\ \/ \E s, t, u \in Found(w) :
          IF Matches(w, [quote |-> s.quote, post |-> t.post, by |-> u.by]) THEN Admit(w) ELSE Refuse(w)
     \/ Found(w) = {} /\ run' = [run EXCEPT ![w].stage = "fetched"] /\ UNCHANGED <<verdict, admitted>>
  /\ UNCHANGED <<posts, outcome, answers, since, faults>>

ReadStampFails(w) ==
  /\ At(w, "cached") /\ Faulty
  /\ run' = [run EXCEPT ![w].stage = "fetched"]
  /\ UNCHANGED <<posts, outcome, verdict, answers, admitted, since>>

(* verifyRemoteQuoteAuthorization: a stamp of this server is fetched from  *)
(* it; what another server serves is up to that server.                    *)
FetchStamp(w) ==
  /\ At(w, "fetched")
  /\ \/ run[w].iri = Foreign /\ Admit(w)
     \/ (\E s \in Found(w) : Matches(w, s)) /\ Admit(w)
     \/ Refuse(w)
  /\ UNCHANGED <<posts, outcome, answers, since, faults>>

Next ==
  \/ \E p \in Post : Publish(p)
  \/ \E r \in Request : Follow(Author[Ask[r].post], Ask[r].sender)
                        \/ RemoveQuadEdge(Author[Ask[r].post], Ask[r].sender)
  \/ \E w \in Worker :
       \/ \E r \in Request : TakeRequest(w, r) \/ RefuseRequest(w, r)
       \/ \E r \in Request, u \in LocalActor, i \in 0..MaxStamp : AcceptQuoteRequest(w, r, u, i)
       \/ \E r \in Request, u \in LocalActor : RejectQuoteRequest(w, r, u)
       \/ \E q \in Quote, i \in 0..Foreign : TakeCreate(w, q, i)
       \/ Stop(w) \/ ReadPolicy(w) \/ CheckAuthor(w) \/ ReadFollower(w) \/ SaveStamp(w) \/ Dispatch(w)
       \/ ReadQuoted(w) \/ ReadStamp(w) \/ ReadStampFails(w) \/ FetchStamp(w)

Spec == Init /\ [][Next]_vars

------------------------------------------------------------------------------
(* Properties. *)

(* The author agreed to a request: by hand, or by a policy that some       *)
(* version stated while no version known when the request was taken asked  *)
(* for a decision by hand.                                                 *)
ByHand(r) == <<r, Author[Ask[r].post]>> \in granted
Entitled(r) ==
  LET p == Ask[r].post  e == <<Author[p], Ask[r].sender>>
  IN \/ PublicBy(p, published[p]) \/ Recipient(p, published[p], Ask[r].sender)
     \/ e \in follower \cup unfollowed
ByPolicy(r) == ~ ManualBy(Ask[r].post, since[r]) /\ Entitled(r)
Agreed(r) == ByHand(r) \/ ByPolicy(r)

(* Different stamps share the IRI i: only a caller's choice can do that.   *)
Mixed(i) == \E s, t \in stamp : /\ s.iri = i /\ t.iri = i
                                /\ s.quote # t.quote \/ s.post # t.post \/ s.by # t.by

(* A third party's quoting post admitted on a stamp of this server has the *)
(* agreement of the author, for exactly this quoting post and the post it  *)
(* quotes, whoever else was stamped, edited, accepted or unfollowed        *)
(* meanwhile (validateQuotePostConsent), unless a caller of                *)
(* AcceptQuoteRequest stored different stamps under the IRI it names.      *)
QuoteHasConsent ==
  \A a \in admitted :
    \/ Draft[a[1]].actor = Author[Draft[a[1]].post] \/ a[2] = Foreign \/ Mixed(a[2])
    \/ \E r \in Request : Ask[r].quote = a[1] /\ Ask[r].post = Draft[a[1]].post /\ Agreed(r)

(* Nobody is told without the author that a request is granted: an         *)
(* automatic Accept had a policy that allowed it, and none for a post that *)
(* asked for a decision by hand when the request was taken.                *)
AcceptHasPolicy == \A m \in sent : m.kind = "Accept" /\ m.automatic => ByPolicy(m.request)

(* A stamp with what this request asked, in the name of the actor who      *)
(* accepts, is stored under the IRI its Accept names, unless its save      *)
(* failed; a request that does not embed its post gets an automatic stamp  *)
(* of no quote.  And no other Accept names that IRI, unless a caller of    *)
(* AcceptQuoteRequest chose it.                                            *)
AcceptNamesItsStamp ==
  \A m \in sent : m.kind = "Accept" =>
    /\ \/ <<m.request, m.iri>> \in lost
       \/ \E s \in stamp : /\ s.iri = m.iri /\ s.by = m.by /\ s.post = Ask[m.request].post
                           /\ s.quote = Ask[m.request].quote \/ (m.automatic /\ ~ Ask[m.request].embedded)
    /\ m.iri \in given \/ \A n \in sent : n.kind = "Accept" /\ n.iri = m.iri => n = m
=============================================================================
