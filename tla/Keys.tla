-------------------------------- MODULE Keys --------------------------------
(***************************************************************************)
(* Verification of signed requests: SignatureValidator.Handler and         *)
(* FederatedSignatureVerifier.Verify.  The public key of an actor comes    *)
(* from actor_public_key_history, which serves as a cache, or from the     *)
(* profile of the actor, fetched over the network and archived.  Requests  *)
(* run concurrently; each step is one statement or one fetch.  Actors of   *)
(* other servers rotate their keys at any time.                            *)
(*                                                                         *)
(* A request carries an HTTP signature, an object proof, or an author      *)
(* proof followed by the forwarding proof of a relay.  Its payload names   *)
(* an actor of its own, for whom the workers will act.                     *)
(***************************************************************************)
EXTENDS ServerActor

CONSTANTS
  RemoteActor,
  AlgOf,       \* algorithm of the key in the profile of each actor
  HostOf,      \* host of the IRI of each actor
  Request,     \* requests handled at the same time
  Home,        \* the process that handles each
  Message      \* requests that may arrive, see the assumption

Actor == RemoteActor \cup LocalActor

(* type: the history column, told by the suffix of the key's name, which   *)
(* says nothing of the key itself.  author: the actor of the payload, if   *)
(* there is one.                                                           *)
MessageType == [path: {"signature", "proof"}, signer: Actor, type: Alg, key: Key,
                relay: Actor \cup {NoActor}, relayKey: Key, author: Actor \cup {NoActor}]

ASSUME KeysAssumption ==
  /\ RemoteActor \cap LocalActor = {} /\ NoActor \notin RemoteActor
  /\ AlgOf \in [Actor -> Alg] /\ \A a \in LocalActor : AlgOf[a] = "RSA"
  /\ Home \in [Request -> Server]
  /\ Message \subseteq MessageType
  /\ \A m \in Message : m.path = "signature" => m.relay = NoActor

VARIABLES
  published,  \* generation in the profile of each actor of another server
  run,        \* verification of each request
  purged,     \* history variable: generation published when an actor's rows
              \* were last deleted
  late        \* history variable: <<actor, key>> archived when no longer published

verifyVars == <<published, run, purged, late>>
vars == <<localVars, verifyVars>>

Stage == {"lookup", "fetch", "archive", "purge", "refetch", "rearchive", "verified", "refused"}

(* relaying: the second of two proofs is being verified.                   *)
(* identity: the X-Actor-IRI header.  got: the key that was fetched.       *)
(* History: seen, the generations the signer has published meanwhile;      *)
(* asked, whether a profile was fetched or tried; unread, whether that     *)
(* failed or a PEM did not decode.                                         *)
RunState == [pc: Stage, msg: Message, relaying: BOOLEAN, identity: Actor \cup {NoActor},
             got: Gen \cup {Unpublished, Garbled}, seen: SUBSET (Gen \cup {Unpublished}),
             asked: BOOLEAN, unread: BOOLEAN]
Idle == [pc |-> "idle"]

Generation(a) == IF a \in LocalActor THEN profile[a] ELSE published[a]

Who(q) == IF q.relaying THEN q.msg.relay ELSE q.msg.signer
SignedBy(q) == IF q.relaying THEN q.msg.relayKey ELSE q.msg.key

KeysInit ==
  /\ published = [a \in RemoteActor |-> 0]
  /\ run = [r \in Request |-> Idle]
  /\ purged = [a \in RemoteActor |-> 0]
  /\ late = {}

-----------------------------------------------------------------------------
(* What Verify does with the key it has.                                   *)

Refused(q) == [q EXCEPT !.pc = "refused"]
RefusedUnread(q) == [q EXCEPT !.pc = "refused", !.unread = TRUE]

(* Object proofs demand an Ed25519 key; a signature is checked with        *)
(* whichever algorithm the key has.                                        *)
Matches(q, key) ==
  /\ key = SignedBy(q)
  /\ q.msg.path = "proof" => key.alg = "Ed25519"

(* Mutant: the forwarder stays asserted after the second proof.            *)
VerifiedAsLast(q) ==
  IF q.msg.relay # NoActor /\ ~q.relaying
    THEN [q EXCEPT !.pc = "lookup", !.relaying = TRUE]
    ELSE [q EXCEPT !.pc = "verified"]

(* resolvePublicKeyPEM asserts the identity of the key's owner before the  *)
(* key is used.  After a forwarding proof the author is asserted again.    *)
Verified(q) ==
  IF q.msg.relay # NoActor /\ ~q.relaying
    THEN [q EXCEPT !.pc = "lookup", !.relaying = TRUE, !.identity = q.msg.signer]
    ELSE [q EXCEPT !.pc = "verified", !.identity = q.msg.signer]

(* Mutant: a mismatch with a cached key is final.                          *)
CheckOnce(q, key, cached) ==
  LET asserted == [q EXCEPT !.identity = Who(q), !.got = Unpublished]
  IN  IF Matches(q, key) THEN Verified(asserted)
      ELSE IF key.gen = Garbled THEN RefusedUnread(asserted)
      ELSE Refused(asserted)

(* A PEM that does not decode ends the request, a cached one too, and only *)
(* a mismatch of a signature with a cached key is retried.                 *)
Check(q, key, cached) ==
  LET asserted == [q EXCEPT !.identity = Who(q), !.got = Unpublished]
  IN  IF Matches(q, key) THEN Verified(asserted)
      ELSE IF key.gen = Garbled THEN RefusedUnread(asserted)
      ELSE IF cached /\ q.msg.path = "signature" THEN [asserted EXCEPT !.pc = "purge"]
      ELSE Refused(asserted)

InFlight(q) == q.pc \notin {"idle", "verified", "refused"}

Step(r, q) == run' = [run EXCEPT ![r] = q]

Archive(a, type, key) ==
  /\ ArchiveKeyHistory([actor |-> a, type |-> type, key |-> key, open |-> TRUE])
  /\ late' = IF key.gen \in {Generation(a), Garbled} THEN late ELSE late \cup {<<a, key>>}

-----------------------------------------------------------------------------
(* One request.                                                            *)

(* A signature must come from the host of the payload's actor.  A proof is *)
(* verified before this is looked at and then ends the verification.       *)
ValidActorDomain(m) ==
  m.path = "signature" /\ m.author # NoActor => HostOf[m.author] = HostOf[m.signer]

(* Requests refused for their form, their date or their origin touch       *)
(* nothing and are left out.                                               *)
Arrive(r) ==
  /\ boot[Home[r]].pc = "serving"
  /\ ~InFlight(run[r])
  /\ \E m \in Message :
       /\ ValidActorDomain(m)
       /\ Step(r, [pc |-> "lookup", msg |-> m, relaying |-> FALSE, identity |-> NoActor,
                   got |-> Unpublished, seen |-> {Generation(m.signer)},
                   asked |-> FALSE, unread |-> FALSE])
  /\ UNCHANGED <<localVars, published, purged, late>>

(* Any row whose window holds the date of the request (LIMIT 1, no order). *)
GetHistoricalKey(r) ==
  /\ run[r].pc = "lookup"
  /\ \E row \in history :
       /\ row.actor = Who(run[r]) /\ row.type = run[r].msg.type
       /\ Step(r, Check(run[r], row.key, TRUE))
  /\ UNCHANGED <<localVars, published, purged, late>>

(* No row in the window, or the query failed.  For a name on this host the *)
(* credentials of tenant 0 are tried next, and there is no such tenant.    *)
NoHistoricalKey(r) ==
  /\ run[r].pc = "lookup"
  /\ Step(r, [run[r] EXCEPT !.pc = "fetch"])
  /\ UNCHANGED <<localVars, published, purged, late>>

(* What a profile shows at this moment.                                    *)
Shown(a) == {Generation(a)} \cup (IF a \in RemoteActor THEN {Garbled} ELSE {})

(* The retry of tryFallbackRetry decodes the key before it archives it.    *)
Fetched(q, gen) ==
  IF q.pc = "fetch" THEN [q EXCEPT !.pc = "archive", !.got = gen, !.asked = TRUE]
  ELSE IF gen = Garbled THEN [RefusedUnread(q) EXCEPT !.asked = TRUE]
  ELSE [q EXCEPT !.pc = "rearchive", !.got = gen, !.asked = TRUE]

FetchPublicKey(r) ==
  /\ run[r].pc \in {"fetch", "refetch"}
  /\ Generation(Who(run[r])) # Unpublished
  /\ \E gen \in Shown(Who(run[r])) : Step(r, Fetched(run[r], gen))
  /\ UNCHANGED <<localVars, published, purged, late>>

(* The profile cannot be had, or the client hangs up.  After a mismatch    *)
(* with a cached key that mismatch is the answer.                          *)
FetchFails(r) ==
  /\ run[r].pc \in {"fetch", "refetch"}
  /\ Step(r, [RefusedUnread(run[r]) EXCEPT !.asked = TRUE])
  /\ UNCHANGED <<localVars, published, purged, late>>

(* Also the retry of tryFallbackRetry, after which there is no other.      *)
ArchivePublicKey(r) ==
  LET q == run[r]
      key == [alg |-> AlgOf[Who(q)], gen |-> q.got]
  IN  /\ q.pc \in {"archive", "rearchive"}
      /\ Archive(Who(q), q.msg.type, key)
      /\ Step(r, Check(q, key, FALSE))
      /\ UNCHANGED <<credential, profile, minted, boot, rotation, interrupted, published, purged>>

(* Mutant: the condition compares key names with actors and deletes nothing. *)
DeleteActorKeyHistoryByName(r) ==
  /\ run[r].pc = "purge"
  /\ purged' = [a \in RemoteActor |-> IF a = Who(run[r]) THEN published[a] ELSE purged[a]]
  /\ Step(r, [run[r] EXCEPT !.pc = "refetch"])
  /\ UNCHANGED <<credential, profile, minted, boot, rotation, history, interrupted, published, late>>

(* All rows of the actor, of both types; the error is ignored.             *)
DeleteActorKeyHistory(r) ==
  /\ run[r].pc = "purge"
  /\ \/ /\ history' = {row \in history : row.actor # Who(run[r])}
        /\ purged' = [a \in RemoteActor |-> IF a = Who(run[r]) THEN published[a] ELSE purged[a]]
     \/ UNCHANGED <<history, purged>>
  /\ Step(r, [run[r] EXCEPT !.pc = "refetch"])
  /\ UNCHANGED <<credential, profile, minted, boot, rotation, interrupted, published, late>>

(* A process ends with the requests it handles.                            *)
ExitWithRequests(s) ==
  /\ Exit(s)
  /\ run' = [r \in Request |-> IF Home[r] = s THEN Idle ELSE run[r]]
  /\ UNCHANGED <<published, purged, late>>

(* An actor of another server shows a new key.                             *)
RemoteRotates(a) ==
  /\ published[a] < MaxGen
  /\ published' = [published EXCEPT ![a] = @ + 1]
  /\ run' = [r \in Request |->
               IF InFlight(run[r]) /\ run[r].msg.signer = a THEN [run[r] EXCEPT !.seen = @ \cup {published[a] + 1}]
               ELSE run[r]]
  /\ UNCHANGED <<localVars, purged, late>>

Init == LocalInit /\ KeysInit

Next ==
  \/ (ProvisionOrRotate /\ UNCHANGED verifyVars)
  \/ \E s \in Server : ExitWithRequests(s)
  \/ \E r \in Request :
       \/ Arrive(r)
       \/ GetHistoricalKey(r)
       \/ NoHistoricalKey(r)
       \/ FetchPublicKey(r)
       \/ FetchFails(r)
       \/ ArchivePublicKey(r)
       \/ DeleteActorKeyHistory(r)
  \/ \E a \in RemoteActor : RemoteRotates(a)

Spec == Init /\ [][Next]_vars

-----------------------------------------------------------------------------
(* Type correctness of the tables and of the verifications in progress.    *)
TypeOK ==
  /\ LocalTypeOK
  /\ history \subseteq HistoryRow(Actor)
  /\ published \in [RemoteActor -> Gen]
  /\ run \in [Request -> RunState \cup {Idle}]
  /\ purged \in [RemoteActor -> Gen]
  /\ late \subseteq Actor \X Key

(* A key the actor has had: shown in its profile now or before, or one of  *)
(* the pair of the server actor's row.                                     *)
Owned(a, key) ==
  \/ key.alg = AlgOf[a] /\ Generation(a) # Unpublished /\ key.gen <= Generation(a)
  \/ a = credential.iri /\ key.gen <= credential.gen

(* Whatever rows, fetches and rotations interleave, an admitted request    *)
(* bears the identity of the actor whose key signed it, the author where a *)
(* relay forwards, every proof was made with a key its actor has had, and  *)
(* under an HTTP signature the payload's actor is of the signer's host     *)
(* (Verify, CheckAndVerifyIntegrityProof, assertActorIdentityHeader).      *)
(* Under a proof the payload's actor is nobody's concern: OriginIsAligned. *)
IdentityIsProven ==
  \A r \in Request : run[r].pc = "verified" =>
    /\ run[r].identity = run[r].msg.signer
    /\ Owned(run[r].msg.signer, run[r].msg.key)
    /\ run[r].msg.relay # NoActor => Owned(run[r].msg.relay, run[r].msg.relayKey)
    /\ ValidActorDomain(run[r].msg)

(* The actor of the payload of every admitted request is of the host of    *)
(* the key that signed it (validateActorDomain).                           *)
OriginIsAligned ==
  \A r \in Request : LET m == run[r].msg IN
    run[r].pc = "verified" /\ m.author # NoActor => HostOf[m.author] = HostOf[m.signer]

(* A request signed with the one key its actor published all the while is  *)
(* refused for its signature only if a fetch failed or a PEM did not       *)
(* decode, whatever stale rows the history holds and whoever deletes and   *)
(* archives beside it (Verify, tryFallbackRetry).                          *)
CurrentKeyIsAccepted ==
  \A r \in Request : run[r].pc = "refused" /\ run[r].msg.path = "signature" =>
    \/ run[r].msg.key.alg # AlgOf[run[r].msg.signer]
    \/ run[r].seen # {run[r].msg.key.gen}
    \/ run[r].unread

(* Nothing is refused on the word of the cache alone: a key was fetched    *)
(* first (Verify, resolveEd25519PublicKey).                                *)
FailedCacheIsRefetched ==
  \A r \in Request : run[r].pc = "refused" => run[r].asked

(* Once an actor's rows were deleted, its earlier keys verify nothing, but *)
(* for a verification that fetched such a key before it was retired and    *)
(* archived it after (DeleteActorKeyHistory, resolvePublicKeyPEM).         *)
RetiredKeyReturnsByRace ==
  [][\A r \in Request : LET a == run[r].msg.signer IN
       /\ run[r].pc = "lookup" /\ ~run[r].relaying /\ run'[r].pc = "verified"
       /\ a \in RemoteActor /\ run[r].msg.key.gen < purged[a]
       => <<a, run[r].msg.key>> \in late]_vars
=============================================================================
