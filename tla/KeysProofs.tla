----------------------------- MODULE KeysProofs -----------------------------
(***************************************************************************)
(* Keys, for any processes, actors, requests, messages and generations.    *)
(*                                                                         *)
(* KInv is inductive: the provisioning (Whole), what one verification      *)
(* knows (RunOK), and what the rows of the history are (HistoryIsOwned,    *)
(* StaleIsLate).  The generation of a profile never goes back, so a key    *)
(* that was owned stays owned: that is what lets a fetched key be archived *)
(* and a cached row be used after other requests and rotations have run.   *)
(***************************************************************************)
EXTENDS Keys, TLAPS

Working == {"credential", "graph", "quads"}

(* The row keeps its first keys, and the attempts that run beside one      *)
(* another have IRIs of their own.                                         *)
Whole ==
  /\ credential # NoRow => credential.gen = 0 /\ credential.iri \in minted
  /\ rotation.pc # "idle" => credential # NoRow /\ rotation.iri = credential.iri
  /\ rotation.pc \notin {"idle", "done"} => rotation.gen = 0 /\ 0 < MaxGen
  /\ \A s \in Server : boot[s].pc \in Working => boot[s].iri \in minted
  /\ \A s, t \in Server :
       s # t /\ boot[s].pc \in Working /\ boot[t].pc \in Working => boot[s].iri # boot[t].iri
  /\ \A s \in Server : boot[s].pc = "credential" => boot[s].iri # credential.iri
  /\ ServerActorIsWhole

(* The first proof was good; the fetched key is one its actor published,   *)
(* unless it cannot be read; a request in flight has seen all that its     *)
(* signer published meanwhile.                                             *)
RunOK(q) ==
  /\ ValidActorDomain(q.msg)
  /\ q.relaying => q.msg.relay # NoActor /\ Owned(q.msg.signer, q.msg.key)
  /\ q.pc \in {"archive", "rearchive"} => q.got # Unpublished
  /\ q.pc \in {"archive", "rearchive"} /\ q.got # Garbled =>
       q.got \in Gen /\ Generation(Who(q)) # Unpublished /\ q.got <= Generation(Who(q))
  /\ q.pc \in {"archive", "rearchive"} => Who(q) \in Actor
  /\ q.pc = "verified" =>
       /\ q.identity = q.msg.signer
       /\ Owned(q.msg.signer, q.msg.key)
       /\ q.msg.relay # NoActor => Owned(q.msg.relay, q.msg.relayKey)
  /\ InFlight(q) => Generation(q.msg.signer) \in q.seen \/ Unpublished \in q.seen
  /\ q.pc \in {"archive", "rearchive"} /\ q.got # Garbled /\ ~q.relaying =>
       q.got \in q.seen \/ Unpublished \in q.seen
  /\ q.pc = "refused" /\ q.msg.path = "signature" =>
       q.msg.key.alg # AlgOf[q.msg.signer] \/ q.seen # {q.msg.key.gen} \/ q.unread

RunsOK == \A r \in Request : run[r].pc # "idle" => RunOK(run[r])

HistoryIsOwned == \A row \in history : row.key.gen # Garbled => Owned(row.actor, row.key)

StaleIsLate ==
  /\ \A a \in RemoteActor : purged[a] <= published[a]
  /\ \A row \in history :
       row.actor \in RemoteActor /\ row.key.gen < purged[row.actor] =>
         <<row.actor, row.key>> \in late

KInv == TypeOK /\ Whole /\ RunsOK /\ HistoryIsOwned /\ StaleIsLate

-----------------------------------------------------------------------------
(* What a verification is after its key was checked.                       *)
LEMMA CheckShape ==
  ASSUME NEW q \in RunState, NEW key \in Pem, NEW cached \in BOOLEAN,
         NEW c, c = Check(q, key, cached), q.relaying => q.msg.relay # NoActor
  PROVE  /\ c \in RunState
         /\ c.msg = q.msg /\ c.seen = q.seen /\ c.got = Unpublished
         /\ \/ /\ key = SignedBy(q) /\ q.msg.relay # NoActor /\ ~q.relaying
               /\ c.pc = "lookup" /\ c.relaying
            \/ /\ key = SignedBy(q) /\ (q.msg.relay = NoActor \/ q.relaying)
               /\ c.pc = "verified" /\ c.identity = q.msg.signer /\ c.relaying = q.relaying
            \/ cached /\ c.pc = "purge" /\ c.relaying = q.relaying
            \/ /\ key # SignedBy(q) \/ q.msg.path = "proof"
               /\ ~cached \/ q.msg.path # "signature" \/ c.unread
               /\ key.gen = Garbled => c.unread
               /\ c.pc = "refused" /\ c.relaying = q.relaying
<1> DEFINE asserted == [q EXCEPT !.identity = Who(q), !.got = Unpublished]
<1>0. q.msg \in MessageType
  BY KeysAssumption DEF RunState
<1>1. Who(q) \in Actor
  BY <1>0 DEF Who, RunState, MessageType
<1>2. asserted \in RunState
  BY <1>1 DEF RunState
<1>3. /\ asserted.msg = q.msg /\ asserted.seen = q.seen /\ asserted.got = Unpublished
      /\ asserted.relaying = q.relaying
  BY DEF RunState
<1>4. PICK d \in RunState : d = asserted
  BY <1>2
<1>5. c = IF Matches(q, key) THEN Verified(d)
          ELSE IF key.gen = Garbled THEN RefusedUnread(d)
          ELSE IF cached /\ q.msg.path = "signature" THEN [d EXCEPT !.pc = "purge"]
          ELSE Refused(d)
  BY <1>4 DEF Check
<1>6. /\ d.msg = q.msg /\ d.seen = q.seen /\ d.got = Unpublished /\ d.relaying = q.relaying
      /\ q.msg.signer \in Actor
  BY <1>0, <1>3, <1>4 DEF MessageType
<1> HIDE DEF asserted
<1>7. CASE Matches(q, key)
  <2>1. key = SignedBy(q) /\ c = Verified(d)
    BY <1>5, <1>7 DEF Matches
  <2>2. CASE q.msg.relay # NoActor /\ ~q.relaying
    <3>1. c = [d EXCEPT !.pc = "lookup", !.relaying = TRUE, !.identity = q.msg.signer]
      BY <2>1, <2>2, <1>6 DEF Verified
    <3>2. c \in RunState
      BY <3>1, <1>6 DEF RunState, Stage
    <3>3. /\ c.pc = "lookup" /\ c.relaying
          /\ c.msg = d.msg /\ c.seen = d.seen /\ c.got = d.got
      BY <3>1 DEF RunState
    <3> QED
      BY <3>2, <3>3, <2>1, <2>2, <1>6
  <2>3. CASE ~(q.msg.relay # NoActor /\ ~q.relaying)
    <3>1. c = [d EXCEPT !.pc = "verified", !.identity = q.msg.signer]
      BY <2>1, <2>3, <1>6 DEF Verified
    <3>2. c \in RunState
      BY <3>1, <1>6 DEF RunState, Stage
    <3>3. /\ c.pc = "verified" /\ c.identity = q.msg.signer /\ c.relaying = d.relaying
          /\ c.msg = d.msg /\ c.seen = d.seen /\ c.got = d.got
      BY <3>1, <1>6 DEF RunState
    <3> QED
      BY <3>2, <3>3, <2>1, <2>3, <1>6
  <2> QED
    BY <2>2, <2>3
<1>8. CASE ~Matches(q, key) /\ key.gen = Garbled
  <2>1. key # SignedBy(q) \/ q.msg.path = "proof"
    BY <1>8 DEF Matches
  <2>2. c = [d EXCEPT !.pc = "refused", !.unread = TRUE]
    BY <1>5, <1>8 DEF RefusedUnread
  <2>3. /\ c \in RunState /\ c.pc = "refused" /\ c.unread /\ c.relaying = d.relaying
        /\ c.msg = d.msg /\ c.seen = d.seen /\ c.got = d.got
    BY <2>2 DEF RunState, Stage
  <2> QED
    BY <2>1, <2>3, <1>6
<1>9. CASE ~Matches(q, key) /\ key.gen # Garbled
  <2>1. CASE cached /\ q.msg.path = "signature"
    <3>1. c = [d EXCEPT !.pc = "purge"]
      BY <2>1, <1>5, <1>9
    <3>2. /\ c \in RunState /\ c.pc = "purge" /\ c.relaying = d.relaying
          /\ c.msg = d.msg /\ c.seen = d.seen /\ c.got = d.got
      BY <3>1 DEF RunState, Stage
    <3> QED
      BY <3>2, <2>1, <1>6
  <2>2. CASE ~(cached /\ q.msg.path = "signature")
    <3>1. key # SignedBy(q) \/ q.msg.path = "proof"
      BY <1>9 DEF Matches
    <3>2. c = [d EXCEPT !.pc = "refused"]
      BY <2>2, <1>5, <1>9 DEF Refused
    <3>3. /\ c \in RunState /\ c.pc = "refused" /\ c.relaying = d.relaying
          /\ c.msg = d.msg /\ c.seen = d.seen /\ c.got = d.got
      BY <3>2 DEF RunState, Stage
    <3> QED
      BY <3>1, <3>3, <2>2, <1>6, <1>9
  <2> QED
    BY <2>1, <2>2
<1> QED
  BY <1>7, <1>8, <1>9

(* Nobody signs with a PEM that does not decode.                           *)
LEMMA SignedIsReadable ==
  ASSUME NEW q, q.msg \in MessageType
  PROVE  SignedBy(q) \in Key /\ SignedBy(q).gen # Garbled
<1>1. SignedBy(q) \in Key
  BY DEF SignedBy, MessageType
<1>2. PICK k \in Key : k = SignedBy(q)
  BY <1>1
<1>3. k.gen # Garbled
  BY ServerActorAssumption DEF Key, Gen, Garbled
<1> QED
  BY <1>1, <1>2, <1>3

(* A verification that is not idle has all its fields, and a message.      *)
LEMMA Started ==
  ASSUME TypeOK, NEW r \in Request, run[r].pc # "idle"
  PROVE  /\ run[r] \in RunState /\ run[r].msg \in Message /\ run[r].msg \in MessageType
         /\ Who(run[r]) \in Actor \cup {NoActor}
         /\ run[r].msg.signer \in Actor
BY KeysAssumption DEF TypeOK, Idle, RunState, MessageType, Who

-----------------------------------------------------------------------------
(* Type correctness of a step.                                             *)
LEMMA ProvisionType ==
  ASSUME TypeOK, Whole, ProvisionOrRotate, UNCHANGED verifyVars
  PROVE  TypeOK'
<1> USE DEF TypeOK, LocalTypeOK, verifyVars
<1>0. 0 \in Gen /\ Unpublished \notin Gen
  BY ServerActorAssumption DEF Gen, Unpublished
<1>1. ASSUME NEW s \in Server, HasActorCredential(s) PROVE TypeOK'
  BY <1>1 DEF HasActorCredential, To
<1>2. ASSUME NEW s \in Server, MintActor(s) PROVE TypeOK'
  BY <1>2 DEF MintActor, To
<1>3. ASSUME NEW s \in Server, CreateActorCredential(s) PROVE TypeOK'
  <2>1. boot[s].iri \in LocalActor
    BY <1>3 DEF CreateActorCredential, Whole, Working
  <2> QED
    BY <2>1, <1>0, <1>3 DEF CreateActorCredential, InsertActorCredentials, To
<1>4. ASSUME NEW s \in Server, PublishProfile(s) PROVE TypeOK'
  BY <1>4 DEF PublishProfile, To
<1>5. ASSUME NEW s \in Server, SaveActorQuads(s) PROVE TypeOK'
  BY <1>5 DEF SaveActorQuads, To
<1>6. ASSUME GetActorCredentials PROVE TypeOK'
  <2>1. credential \in [iri: LocalActor, gen: Gen]
    BY <1>6 DEF GetActorCredentials
  <2> QED
    BY <2>1, <1>6 DEF GetActorCredentials, Alg
<1>7. ASSUME ArchiveRetiredKey PROVE TypeOK'
  <2>1. rotation.iri \in LocalActor /\ rotation.pc \in Alg /\ rotation.gen \in Gen
    <3>1. rotation.pc \in Alg /\ rotation.pc # "idle"
      BY <1>7 DEF ArchiveRetiredKey, Alg
    <3> QED
      BY <3>1 DEF Whole
  <2> DEFINE row == [actor |-> rotation.iri, type |-> rotation.pc, open |-> FALSE,
                     key |-> [alg |-> rotation.pc, gen |-> rotation.gen]]
  <2>2. row \in HistoryRow(Actor)
    BY <2>1 DEF HistoryRow, Pem, Actor
  <2>3. history' \subseteq HistoryRow(Actor)
    BY <2>2, <1>7 DEF ArchiveRetiredKey, ArchiveKeyHistory
  <2>4. rotation' = [rotation EXCEPT !.pc = IF rotation.pc = "RSA" THEN "Ed25519" ELSE "insert"]
    BY <1>7 DEF ArchiveRetiredKey
  <2>5. rotation' \in [pc: {"idle", "insert", "done"} \cup Alg, iri: LocalActor \cup {NoActor}, gen: Gen]
    BY <2>4 DEF Alg
  <2> QED
    BY <2>3, <2>5, <1>7 DEF ArchiveRetiredKey
<1>8. ASSUME StoreMintedKeys PROVE TypeOK'
  <2>1. credential # NoRow /\ rotation.gen = 0 /\ 0 < MaxGen
    BY <1>8 DEF StoreMintedKeys, Whole
  <2>2. PICK g \in Gen : g = rotation.gen + 1
    BY <2>1, ServerActorAssumption DEF Gen
  <2>3. rotation' = [rotation EXCEPT !.pc = "done", !.gen = g]
    BY <1>8, <2>2 DEF StoreMintedKeys
  <2>4. rotation' \in [pc: {"idle", "insert", "done"} \cup Alg, iri: LocalActor \cup {NoActor}, gen: Gen]
    BY <2>3
  <2>5. UNCHANGED <<credential, profile, minted, boot, history, interrupted>>
    BY <2>1, <1>8 DEF StoreMintedKeys, InsertActorCredentials
  <2> QED
    BY <2>4, <2>5
<1>9. ASSUME RotationFails PROVE TypeOK'
  BY <1>0, <1>9 DEF RotationFails, NoRotation
<1> QED
  BY <1>1, <1>2, <1>3, <1>4, <1>5, <1>6, <1>7, <1>8, <1>9 DEF ProvisionOrRotate

(* What the requests of a step are afterwards, and what they leave alone.  *)
LEMMA OneRun ==
  ASSUME TypeOK, NEW r \in Request, NEW q \in RunState \cup {Idle}, Step(r, q)
  PROVE  /\ run' \in [Request -> RunState \cup {Idle}]
         /\ run'[r] = q
         /\ \A o \in Request \ {r} : run'[o] = run[o]
BY DEF TypeOK, Step

LEMMA GenerationType ==
  ASSUME TypeOK, NEW a \in Actor
  PROVE  Generation(a) \in Gen \cup {Unpublished}
<1>1. 0 \in Gen
  BY ServerActorAssumption DEF Gen
<1> QED
  BY <1>1 DEF TypeOK, LocalTypeOK, Generation, Actor

-----------------------------------------------------------------------------
(* Profiles only move forward, and the server actor's row stays.           *)
Grows ==
  /\ \A a \in Actor : Generation(a) # Unpublished =>
       Generation(a)' # Unpublished /\ Generation(a) <= Generation(a)'
  /\ credential # NoRow => credential' = credential

LEMMA ProvisionGrows ==
  ASSUME TypeOK, Whole, ProvisionOrRotate, UNCHANGED verifyVars
  PROVE  Grows /\ \A a \in Actor : Generation(a)' = Generation(a) \/ Generation(a) = Unpublished
<1>0. 0 \in Gen /\ Unpublished \notin Gen /\ Gen \subseteq Nat
  BY ServerActorAssumption DEF Gen, Unpublished
<1>1. published' = published
  BY DEF verifyVars
<1>2. ASSUME NEW s \in Server, PublishProfile(s)
      PROVE  /\ credential' = credential
             /\ \A a \in LocalActor : profile'[a] = profile[a] \/ profile'[a] = 0
    BY <1>2 DEF PublishProfile, TypeOK, LocalTypeOK
<1>3. \/ profile' = profile
      \/ \A a \in LocalActor : profile'[a] = profile[a] \/ profile'[a] = 0
  BY <1>2 DEF ProvisionOrRotate, HasActorCredential, MintActor, CreateActorCredential,
       SaveActorQuads, GetActorCredentials, ArchiveRetiredKey, StoreMintedKeys, RotationFails
<1>4. credential # NoRow => credential' = credential
  BY DEF ProvisionOrRotate, HasActorCredential, MintActor, CreateActorCredential, PublishProfile,
       SaveActorQuads, GetActorCredentials, ArchiveRetiredKey, StoreMintedKeys, RotationFails,
       InsertActorCredentials
<1>5. ASSUME NEW a \in Actor
      PROVE  /\ Generation(a)' = Generation(a) \/ Generation(a) = Unpublished
             /\ Generation(a) # Unpublished =>
                  Generation(a)' # Unpublished /\ Generation(a) <= Generation(a)'
  <2>1. CASE a \in LocalActor
    <3>1. profile[a] \in {0, Unpublished} /\ (profile'[a] = profile[a] \/ profile'[a] = 0)
      BY <1>3, <2>1 DEF TypeOK, LocalTypeOK
    <3> QED
      BY <3>1, <2>1, <1>0 DEF Generation
  <2>2. CASE a \notin LocalActor
    <3>1. published[a] \in Nat
      BY <2>2, <1>0 DEF TypeOK, Actor
    <3> QED
      BY <3>1, <2>2, <1>1 DEF Generation
  <2> QED
    BY <2>1, <2>2
<1> QED
  BY <1>4, <1>5 DEF Grows

LEMMA OwnedStays ==
  ASSUME TypeOK, TypeOK', Grows, NEW a \in Actor, NEW key \in Key, Owned(a, key)
  PROVE  Owned(a, key)'
<1>1. /\ Gen \subseteq Nat /\ Unpublished \notin Gen
      /\ key.gen \in Nat
  BY ServerActorAssumption DEF Gen, Unpublished, Key
<1>2. CASE key.alg = AlgOf[a] /\ Generation(a) # Unpublished /\ key.gen <= Generation(a)
  <2>1. Generation(a) \in Nat
    BY <1>2, <1>1, GenerationType
  <2>2. Generation(a)' # Unpublished /\ Generation(a) <= Generation(a)'
    BY <1>2 DEF Grows
  <2>3. Generation(a)' \in Gen \cup {Unpublished}
    <3>1. 0 \in Gen
      BY ServerActorAssumption DEF Gen
    <3> QED
      BY <3>1 DEF TypeOK, LocalTypeOK, Generation, Actor
  <2>4. PICK g \in Nat : g = Generation(a)'
    BY <2>2, <2>3, <1>1
  <2>5. key.gen <= g
    BY <1>1, <1>2, <2>1, <2>2, <2>4
  <2> QED
    BY <1>2, <2>2, <2>4, <2>5 DEF Owned
<1>3. CASE a = credential.iri /\ key.gen <= credential.gen
  <2>1. credential # NoRow
    BY <1>3, ServerActorAssumption, KeysAssumption DEF NoRow, Actor
  <2> QED
    BY <2>1, <1>3 DEF Grows, Owned
<1> QED
  BY <1>2, <1>3 DEF Owned

LEMMA RunStays ==
  ASSUME TypeOK, TypeOK', Grows, NEW q \in RunState, RunOK(q),
         \A a \in Actor : Generation(a)' = Generation(a) \/ Generation(a) = Unpublished
  PROVE  RunOK(q)'
<1>0. /\ q.msg \in MessageType /\ q.msg.signer \in Actor /\ q.msg.key \in Key
      /\ q.msg.relayKey \in Key
  BY KeysAssumption DEF RunState, MessageType
<1>1. Owned(q.msg.signer, q.msg.key) => Owned(q.msg.signer, q.msg.key)'
  BY <1>0, OwnedStays
<1>2. q.msg.relay # NoActor /\ Owned(q.msg.relay, q.msg.relayKey) =>
        Owned(q.msg.relay, q.msg.relayKey)'
  <2>1. q.msg.relay # NoActor => q.msg.relay \in Actor
    BY <1>0 DEF MessageType
  <2> QED
    BY <1>0, <2>1, OwnedStays
<1>3. q.pc \in {"archive", "rearchive"} => Who(q) \in Actor
  BY DEF RunOK
<1>4. Who(q)' = Who(q) /\ InFlight(q)' = InFlight(q)
  BY DEF Who, InFlight
<1>5. ASSUME q.pc \in {"archive", "rearchive"}, q.got # Garbled
      PROVE  q.got \in Gen /\ Generation(Who(q))' # Unpublished /\ q.got <= Generation(Who(q))'
  <2>1. PICK a \in Actor : a = Who(q)
    BY <1>3, <1>5
  <2>2. q.got \in Gen /\ Generation(a) # Unpublished /\ q.got <= Generation(a)
    BY <1>5, <2>1 DEF RunOK
  <2>3. Generation(a)' = Generation(a)
    BY <2>2
  <2>4. Generation(Who(q))' = Generation(a)'
    BY <2>1, <1>4
  <2> QED
    BY <2>2, <2>3, <2>4
<1>6. InFlight(q) => Generation(q.msg.signer)' \in q.seen \/ Unpublished \in q.seen
  BY <1>0 DEF RunOK
<1> QED
  BY <1>1, <1>2, <1>3, <1>4, <1>5, <1>6 DEF RunOK, ValidActorDomain

-----------------------------------------------------------------------------
(* What each step of a request makes of it.                                *)
Kept == UNCHANGED <<credential, profile, minted, boot, rotation, interrupted, published>>

Becomes(r, q) == Step(r, q) /\ Kept /\ (q.pc # "idle" => RunOK(q))

LEMMA ArriveRun ==
  ASSUME KInv, NEW r \in Request, Arrive(r)
  PROVE  /\ \E q \in RunState \cup {Idle} : Becomes(r, q)
         /\ UNCHANGED <<history, purged, late>>
<1>1. PICK m \in Message :
        /\ ValidActorDomain(m)
        /\ Step(r, [pc |-> "lookup", msg |-> m, relaying |-> FALSE, identity |-> NoActor,
                    got |-> Unpublished, seen |-> {Generation(m.signer)},
                    asked |-> FALSE, unread |-> FALSE])
  BY DEF Arrive
<1> DEFINE q == [pc |-> "lookup", msg |-> m, relaying |-> FALSE, identity |-> NoActor,
                 got |-> Unpublished, seen |-> {Generation(m.signer)},
                 asked |-> FALSE, unread |-> FALSE]
<1>2. m.signer \in Actor
  BY KeysAssumption DEF MessageType
<1>3. Generation(m.signer) \in Gen \cup {Unpublished}
  BY <1>2, GenerationType DEF KInv
<1>4. q \in RunState
  BY <1>3 DEF RunState, Stage
<1>5. RunOK(q)
  BY <1>1 DEF RunOK
<1>6. Kept /\ UNCHANGED <<history, purged, late>>
  BY DEF Arrive, Kept, localVars
<1> QED
  BY <1>1, <1>4, <1>5, <1>6 DEF Becomes

LEMMA GetHistoricalKeyRun ==
  ASSUME KInv, NEW r \in Request, GetHistoricalKey(r)
  PROVE  /\ \E q \in RunState \cup {Idle} : Becomes(r, q)
         /\ UNCHANGED <<history, purged, late>>
<1>0. TypeOK
  BY DEF KInv
<1>1. run[r].pc = "lookup" /\ run[r].pc # "idle"
  BY DEF GetHistoricalKey
<1>2. PICK d \in RunState : d = run[r] /\ d.msg \in MessageType /\ d.msg \in Message
  BY <1>0, <1>1, Started
<1>3. RunOK(d)
  BY <1>1, <1>2 DEF KInv, RunsOK
<1>4. PICK row \in history : row.actor = Who(d) /\ Step(r, Check(d, row.key, TRUE))
  BY <1>2 DEF GetHistoricalKey
<1>5. row.key \in Pem /\ (row.key.gen # Garbled => Owned(Who(d), row.key))
  BY <1>0, <1>4 DEF KInv, HistoryIsOwned, TypeOK, HistoryRow
<1>6. PICK c : c = Check(d, row.key, TRUE)
  OBVIOUS
<1>7. /\ c \in RunState
      /\ c.msg = d.msg /\ c.seen = d.seen /\ c.got = Unpublished
      /\ \/ /\ row.key = SignedBy(d) /\ d.msg.relay # NoActor /\ ~d.relaying
            /\ c.pc = "lookup" /\ c.relaying
         \/ /\ row.key = SignedBy(d) /\ (d.msg.relay = NoActor \/ d.relaying)
            /\ c.pc = "verified" /\ c.identity = d.msg.signer /\ c.relaying = d.relaying
         \/ c.pc = "purge" /\ c.relaying = d.relaying
         \/ (d.msg.path # "signature" \/ c.unread) /\ c.pc = "refused" /\ c.relaying = d.relaying
  <2>1. d.relaying => d.msg.relay # NoActor
    BY <1>3 DEF RunOK
  <2>2. PICK key \in Pem : key = row.key
    BY <1>5
  <2>3. PICK cached \in BOOLEAN : cached = TRUE
    OBVIOUS
  <2>4. c = Check(d, key, cached)
    BY <1>6, <2>2, <2>3
  <2>5. /\ c \in RunState
        /\ c.msg = d.msg /\ c.seen = d.seen /\ c.got = Unpublished
        /\ \/ /\ key = SignedBy(d) /\ d.msg.relay # NoActor /\ ~d.relaying
              /\ c.pc = "lookup" /\ c.relaying
           \/ /\ key = SignedBy(d) /\ (d.msg.relay = NoActor \/ d.relaying)
              /\ c.pc = "verified" /\ c.identity = d.msg.signer /\ c.relaying = d.relaying
           \/ cached /\ c.pc = "purge" /\ c.relaying = d.relaying
           \/ /\ key # SignedBy(d) \/ d.msg.path = "proof"
              /\ ~cached \/ d.msg.path # "signature" \/ c.unread
              /\ key.gen = Garbled => c.unread
              /\ c.pc = "refused" /\ c.relaying = d.relaying
    BY <2>1, <2>4, CheckShape
  <2> QED
    BY <2>2, <2>3, <2>5
<1>8. RunOK(c)
  <2>1. d.pc = "lookup" /\ InFlight(d)
    BY <1>1, <1>2 DEF InFlight
  <2>2. Generation(c.msg.signer) \in c.seen \/ Unpublished \in c.seen
    BY <1>3, <1>7, <2>1 DEF RunOK
  <2>0. row.key = SignedBy(d) => Owned(Who(d), row.key)
    BY <1>2, <1>5, SignedIsReadable
  <2>3. c.relaying => c.msg.relay # NoActor /\ Owned(c.msg.signer, c.msg.key)
    BY <1>3, <1>7, <2>0 DEF RunOK, Who, SignedBy
  <2>4. c.pc = "verified" =>
          /\ c.identity = c.msg.signer
          /\ Owned(c.msg.signer, c.msg.key)
          /\ c.msg.relay # NoActor => Owned(c.msg.relay, c.msg.relayKey)
    BY <1>3, <1>7, <2>0 DEF RunOK, Who, SignedBy
  <2>5. ValidActorDomain(c.msg) /\ c.pc \notin {"archive", "rearchive"}
    BY <1>3, <1>7 DEF RunOK
  <2>6. c.pc = "refused" /\ c.msg.path = "signature" => c.unread
    BY <1>7
  <2> QED
    BY <2>2, <2>3, <2>4, <2>5, <2>6 DEF RunOK
<1>9. Kept /\ UNCHANGED <<history, purged, late>>
  BY DEF GetHistoricalKey, Kept, localVars
<1> QED
  BY <1>4, <1>6, <1>7, <1>8, <1>9 DEF Becomes

LEMMA NoHistoricalKeyRun ==
  ASSUME KInv, NEW r \in Request, NoHistoricalKey(r)
  PROVE  /\ \E q \in RunState \cup {Idle} : Becomes(r, q)
         /\ UNCHANGED <<history, purged, late>>
<1>1. run[r].pc = "lookup" /\ run[r].pc # "idle"
  BY DEF NoHistoricalKey
<1>2. PICK d \in RunState : d = run[r]
  BY <1>1, Started DEF KInv
<1>3. RunOK(d)
  BY <1>1, <1>2 DEF KInv, RunsOK
<1>4. PICK c : c = [d EXCEPT !.pc = "fetch"]
  OBVIOUS
<1>5. /\ c \in RunState /\ c.pc = "fetch"
      /\ c.msg = d.msg /\ c.seen = d.seen /\ c.relaying = d.relaying
  BY <1>4 DEF RunState, Stage
<1>6. RunOK(c)
  BY <1>1, <1>2, <1>3, <1>5 DEF RunOK, InFlight
<1>7. Step(r, c) /\ Kept /\ UNCHANGED <<history, purged, late>>
  BY <1>2, <1>4 DEF NoHistoricalKey, Kept, localVars
<1> QED
  BY <1>5, <1>6, <1>7 DEF Becomes

(* A fetch that brought nothing to read ends the request.                  *)
LEMMA UnreadRun ==
  ASSUME TypeOK, NEW d \in RunState, RunOK(d),
         NEW c, c = [RefusedUnread(d) EXCEPT !.asked = TRUE]
  PROVE  c \in RunState /\ RunOK(c) /\ c.pc = "refused"
<1>1. PICK e : e = RefusedUnread(d)
  OBVIOUS
<1>2. e = [d EXCEPT !.pc = "refused", !.unread = TRUE] /\ c = [e EXCEPT !.asked = TRUE]
  BY <1>1 DEF RefusedUnread
<1>3. /\ e \in RunState /\ e.pc = "refused" /\ e.unread
      /\ e.msg = d.msg /\ e.relaying = d.relaying
  BY <1>2 DEF RunState, Stage
<1>4. /\ c \in RunState /\ c.pc = "refused" /\ c.unread
      /\ c.msg = d.msg /\ c.relaying = d.relaying
  BY <1>2, <1>3 DEF RunState
<1>5. ~InFlight(c)
  BY <1>4 DEF InFlight
<1> QED
  BY <1>4, <1>5 DEF RunOK

LEMMA FetchPublicKeyRun ==
  ASSUME KInv, NEW r \in Request, FetchPublicKey(r)
  PROVE  /\ \E q \in RunState \cup {Idle} : Becomes(r, q) /\ q.pc # "verified"
         /\ UNCHANGED <<history, purged, late>>
<1>0. TypeOK
  BY DEF KInv
<1>1. run[r].pc \in {"fetch", "refetch"} /\ run[r].pc # "idle"
  BY DEF FetchPublicKey
<1>2. PICK d \in RunState : d = run[r] /\ d.msg \in MessageType
  BY <1>0, <1>1, Started
<1>3. RunOK(d)
  BY <1>1, <1>2 DEF KInv, RunsOK
<1>4. Who(d) \in Actor
  BY <1>2, <1>3 DEF RunOK, Who, MessageType
<1>5. Generation(Who(d)) \in Gen /\ Generation(Who(d)) # Unpublished
  BY <1>0, <1>2, <1>4, GenerationType DEF FetchPublicKey
<1>6. Kept /\ UNCHANGED <<history, purged, late>>
  BY DEF FetchPublicKey, Kept, localVars
<1>7. PICK g : g \in Shown(Who(d)) /\ Step(r, Fetched(d, g))
  BY <1>2 DEF FetchPublicKey
<1>8. g = Generation(Who(d)) \/ g = Garbled
  BY <1>7 DEF Shown
<1>9. Unpublished # Garbled /\ Gen \subseteq Nat /\ Unpublished \notin Gen
  BY ServerActorAssumption DEF Unpublished, Garbled, Gen
<1>10. CASE d.pc # "fetch" /\ g = Garbled
  <2>1. PICK c : c = [RefusedUnread(d) EXCEPT !.asked = TRUE]
    OBVIOUS
  <2>2. c \in RunState /\ RunOK(c) /\ c.pc = "refused"
    BY <1>0, <1>3, <2>1, UnreadRun
  <2>3. Step(r, c)
    BY <1>7, <1>10, <2>1 DEF Fetched
  <2> QED
    BY <1>6, <2>2, <2>3 DEF Becomes
<1>11. CASE d.pc = "fetch" \/ g # Garbled
  <2>1. PICK p \in {"archive", "rearchive"} : p = IF d.pc = "fetch" THEN "archive" ELSE "rearchive"
    OBVIOUS
  <2>2. PICK c : c = [d EXCEPT !.pc = p, !.got = g, !.asked = TRUE]
    OBVIOUS
  <2>3. Step(r, c)
    BY <1>7, <1>11, <2>1, <2>2 DEF Fetched
  <2>4. c \in RunState
    BY <1>5, <1>8, <2>2 DEF RunState, Stage
  <2>5. /\ c.pc = p /\ c.got = g
        /\ c.msg = d.msg /\ c.seen = d.seen /\ c.relaying = d.relaying
    BY <2>2 DEF RunState
  <2>6. Generation(d.msg.signer) \in d.seen \/ Unpublished \in d.seen
    BY <1>1, <1>2, <1>3 DEF RunOK, InFlight
  <2>7. Who(c) = Who(d) /\ (~c.relaying => Who(c) = d.msg.signer)
    BY <2>5 DEF Who
  <2>8. c.pc # "verified" /\ c.pc # "refused"
    BY <2>5
  <2>9. ValidActorDomain(c.msg)
    BY <1>3, <2>5 DEF RunOK
  <2>10. c.relaying => c.msg.relay # NoActor /\ Owned(c.msg.signer, c.msg.key)
    BY <1>3, <2>5 DEF RunOK
  <2>11. c.got # Garbled =>
           c.got \in Gen /\ Generation(Who(c)) # Unpublished /\ c.got <= Generation(Who(c))
    <3>1. PICK h \in Gen : h = Generation(Who(d))
      BY <1>5
    <3>2. h <= h
      BY <1>9
    <3> QED
      BY <1>5, <1>8, <2>5, <2>7, <3>1, <3>2
  <2>12. c.got # Unpublished /\ Who(c) \in Actor
    BY <1>4, <1>5, <1>8, <1>9, <2>5, <2>7
  <2>13. c.got # Garbled /\ ~c.relaying => c.got \in c.seen \/ Unpublished \in c.seen
    BY <1>8, <2>5, <2>6, <2>7
  <2>14. Generation(c.msg.signer) \in c.seen \/ Unpublished \in c.seen
    BY <2>5, <2>6
  <2>15. RunOK(c)
    BY <2>8, <2>9, <2>10, <2>11, <2>12, <2>13, <2>14 DEF RunOK
  <2> QED
    BY <1>6, <2>3, <2>4, <2>8, <2>15 DEF Becomes
<1> QED
  BY <1>10, <1>11

LEMMA FetchFailsRun ==
  ASSUME KInv, NEW r \in Request, FetchFails(r)
  PROVE  /\ \E q \in RunState \cup {Idle} : Becomes(r, q) /\ q.pc # "verified"
         /\ UNCHANGED <<history, purged, late>>
<1>1. TypeOK /\ run[r].pc # "idle"
  BY DEF KInv, FetchFails
<1>2. PICK d \in RunState : d = run[r]
  BY <1>1, Started
<1>3. RunOK(d)
  BY <1>1, <1>2 DEF KInv, RunsOK
<1>4. PICK c : c = [RefusedUnread(d) EXCEPT !.asked = TRUE]
  OBVIOUS
<1>5. c \in RunState /\ RunOK(c) /\ c.pc = "refused"
  BY <1>1, <1>3, <1>4, UnreadRun
<1>6. Step(r, c) /\ Kept /\ UNCHANGED <<history, purged, late>>
  BY <1>2, <1>4 DEF FetchFails, Kept, localVars
<1> QED
  BY <1>5, <1>6 DEF Becomes

(* The key that a request archives is one its actor has published, unless  *)
(* it cannot be read.                                                      *)
LEMMA FetchedIsOwned ==
  ASSUME KInv, NEW r \in Request, run[r].pc \in {"archive", "rearchive"}
  PROVE  /\ run[r] \in RunState /\ run[r].msg \in MessageType /\ run[r].msg \in Message
         /\ RunOK(run[r])
         /\ Who(run[r]) \in Actor
         /\ [alg |-> AlgOf[Who(run[r])], gen |-> run[r].got] \in Pem
         /\ run[r].got # Garbled =>
              Owned(Who(run[r]), [alg |-> AlgOf[Who(run[r])], gen |-> run[r].got])
<1>1. TypeOK /\ run[r].pc # "idle"
  BY DEF KInv
<1>2. run[r] \in RunState /\ run[r].msg \in MessageType /\ run[r].msg \in Message
  BY <1>1, Started
<1>3. RunOK(run[r])
  BY <1>1 DEF KInv, RunsOK
<1>4. Who(run[r]) \in Actor /\ run[r].got # Unpublished
  BY <1>3 DEF RunOK
<1>5. run[r].got # Garbled =>
        /\ run[r].got \in Gen /\ Generation(Who(run[r])) # Unpublished
        /\ run[r].got <= Generation(Who(run[r]))
  BY <1>3 DEF RunOK
<1>6. PICK k : k = [alg |-> AlgOf[Who(run[r])], gen |-> run[r].got]
  OBVIOUS
<1>7. k \in Pem /\ k.alg = AlgOf[Who(run[r])] /\ k.gen = run[r].got
  <2>1. run[r].got \in Gen \cup {Garbled}
    BY <1>2, <1>4 DEF RunState
  <2> QED
    BY <1>4, <1>6, <2>1, KeysAssumption DEF Pem
<1>8. run[r].got # Garbled => Owned(Who(run[r]), k)
  BY <1>5, <1>7 DEF Owned
<1> QED
  BY <1>2, <1>3, <1>4, <1>6, <1>7, <1>8

LEMMA ArchivePublicKeyRun ==
  ASSUME KInv, NEW r \in Request, ArchivePublicKey(r)
  PROVE  \E q \in RunState \cup {Idle} : Becomes(r, q)
<1>1. run[r].pc \in {"archive", "rearchive"}
  BY DEF ArchivePublicKey
<1>2. PICK d \in RunState : d = run[r] /\ d.msg \in MessageType /\ d.msg \in Message
  BY <1>1, FetchedIsOwned
<1>3. RunOK(d) /\ Who(d) \in Actor
  BY <1>1, <1>2, FetchedIsOwned
<1>4. PICK key \in Pem : /\ key = [alg |-> AlgOf[Who(d)], gen |-> d.got]
                         /\ key.gen # Garbled => Owned(Who(d), key)
  BY <1>1, <1>2, FetchedIsOwned
<1>5. PICK cached \in BOOLEAN : cached = FALSE
  OBVIOUS
<1>6. PICK c : c = Check(d, key, cached)
  OBVIOUS
<1>7. Step(r, c)
  BY <1>2, <1>4, <1>5, <1>6 DEF ArchivePublicKey
<1>8. d.relaying => d.msg.relay # NoActor
  BY <1>3 DEF RunOK
<1>9. /\ c \in RunState
      /\ c.msg = d.msg /\ c.seen = d.seen /\ c.got = Unpublished
      /\ \/ /\ key = SignedBy(d) /\ d.msg.relay # NoActor /\ ~d.relaying
            /\ c.pc = "lookup" /\ c.relaying
         \/ /\ key = SignedBy(d) /\ (d.msg.relay = NoActor \/ d.relaying)
            /\ c.pc = "verified" /\ c.identity = d.msg.signer /\ c.relaying = d.relaying
         \/ cached /\ c.pc = "purge" /\ c.relaying = d.relaying
         \/ /\ key # SignedBy(d) \/ d.msg.path = "proof"
            /\ ~cached \/ d.msg.path # "signature" \/ c.unread
            /\ key.gen = Garbled => c.unread
            /\ c.pc = "refused" /\ c.relaying = d.relaying
  BY <1>6, <1>8, CheckShape
<1>10. RunOK(c)
  <2>0. key = SignedBy(d) => Owned(Who(d), key)
    BY <1>2, <1>4, SignedIsReadable
  <2>1. Generation(c.msg.signer) \in c.seen \/ Unpublished \in c.seen
    BY <1>1, <1>2, <1>3, <1>9 DEF RunOK, InFlight
  <2>2. c.relaying => c.msg.relay # NoActor /\ Owned(c.msg.signer, c.msg.key)
    BY <1>3, <1>9, <2>0 DEF RunOK, Who, SignedBy
  <2>3. c.pc = "verified" =>
          /\ c.identity = c.msg.signer
          /\ Owned(c.msg.signer, c.msg.key)
          /\ c.msg.relay # NoActor => Owned(c.msg.relay, c.msg.relayKey)
    BY <1>3, <1>9, <2>0 DEF RunOK, Who, SignedBy
  <2>4. ASSUME c.pc = "refused", c.msg.path = "signature", ~c.unread
        PROVE  c.msg.key.alg # AlgOf[c.msg.signer] \/ c.seen # {c.msg.key.gen}
    <3>1. ~d.relaying /\ key.gen # Garbled
      BY <1>2, <1>8, <1>9, <2>4, KeysAssumption
    <3>2. key # d.msg.key /\ key.alg = AlgOf[d.msg.signer] /\ key.gen = d.got
      BY <1>4, <1>9, <2>4, <3>1 DEF SignedBy, Who
    <3>3. d.msg.key \in Key
      BY <1>2 DEF MessageType
    <3>4. d.msg.key.alg # AlgOf[d.msg.signer] \/ d.msg.key.gen # d.got
      BY <3>2, <3>3 DEF Key, Pem
    <3>5. d.got \in d.seen \/ Unpublished \in d.seen
      BY <1>1, <1>2, <1>3, <3>1, <3>2 DEF RunOK
    <3>6. d.msg.key.gen # Unpublished
      BY <3>3, ServerActorAssumption DEF Key, Gen, Unpublished
    <3> QED
      BY <1>9, <3>4, <3>5, <3>6
  <2>5. c.pc \notin {"archive", "rearchive"} /\ ValidActorDomain(c.msg)
    BY <1>3, <1>9 DEF RunOK
  <2> QED
    BY <2>1, <2>2, <2>3, <2>4, <2>5 DEF RunOK
<1>11. Kept
  BY DEF ArchivePublicKey, Kept
<1> QED
  BY <1>7, <1>9, <1>10, <1>11 DEF Becomes

LEMMA DeleteActorKeyHistoryRun ==
  ASSUME KInv, NEW r \in Request, DeleteActorKeyHistory(r)
  PROVE  /\ \E q \in RunState \cup {Idle} : Becomes(r, q)
         /\ late' = late
<1>1. run[r].pc = "purge" /\ run[r].pc # "idle"
  BY DEF DeleteActorKeyHistory
<1>2. PICK d \in RunState : d = run[r]
  BY <1>1, Started DEF KInv
<1>3. RunOK(d)
  BY <1>1, <1>2 DEF KInv, RunsOK
<1>4. PICK c : c = [d EXCEPT !.pc = "refetch"]
  OBVIOUS
<1>5. /\ c \in RunState /\ c.pc = "refetch"
      /\ c.msg = d.msg /\ c.seen = d.seen /\ c.relaying = d.relaying
  BY <1>4 DEF RunState, Stage
<1>6. RunOK(c)
  BY <1>1, <1>2, <1>3, <1>5 DEF RunOK, InFlight
<1>7. Step(r, c) /\ Kept /\ late' = late
  BY <1>2, <1>4 DEF DeleteActorKeyHistory, Kept
<1> QED
  BY <1>5, <1>6, <1>7 DEF Becomes

(* What follows for the rest of the state.                                 *)
LEMMA BecomesKeeps ==
  ASSUME KInv, NEW r \in Request, NEW q \in RunState \cup {Idle}, Becomes(r, q)
  PROVE  /\ LocalTypeOK' /\ published' \in [RemoteActor -> Gen]
         /\ run' \in [Request -> RunState \cup {Idle}]
         /\ Whole' /\ RunsOK'
<1>1. /\ run' \in [Request -> RunState \cup {Idle}] /\ run'[r] = q
      /\ \A o \in Request \ {r} : run'[o] = run[o]
  BY OneRun DEF Becomes, KInv
<1>2. LocalTypeOK' /\ published' \in [RemoteActor -> Gen]
  BY DEF KInv, TypeOK, LocalTypeOK, Becomes, Kept
<1>3. Whole'
  BY DEF KInv, Whole, ServerActorIsWhole, Becomes, Kept
<1>4. ASSUME NEW o \in Request, run'[o].pc # "idle" PROVE RunOK(run[o])'
  <2>1. PICK c : c = run'[o]
    OBVIOUS
  <2>2. RunOK(c)
    BY <1>1, <1>4, <2>1 DEF Becomes, KInv, RunsOK
  <2>3. RunOK(c)'
    BY <2>2 DEF RunOK, ValidActorDomain, Owned, Generation, Becomes, Kept, Who, InFlight
  <2> QED
    BY <2>1, <2>3
<1> QED
  BY <1>1, <1>2, <1>3, <1>4 DEF RunsOK

-----------------------------------------------------------------------------
(* The rows of the history.                                                *)

LEMMA RowStays ==
  ASSUME KInv, TypeOK', Grows, NEW row \in history, row.key.gen # Garbled
  PROVE  Owned(row.actor, row.key)'
<1>1. PICK b \in Actor, k \in Key : b = row.actor /\ k = row.key
  BY DEF KInv, TypeOK, HistoryRow, Pem, Key
<1>2. Owned(b, k)
  BY <1>1 DEF KInv, HistoryIsOwned
<1>3. Owned(b, k)'
  BY <1>2, OwnedStays DEF KInv
<1> QED
  BY <1>1, <1>3 DEF Owned

LEMMA HistoryGrows ==
  ASSUME KInv, TypeOK', Grows, NEW a \in Actor, NEW key \in Pem,
         key.gen # Garbled => Owned(a, key)',
         \A row \in history' : row \in history \/ (row.actor = a /\ row.key = key)
  PROVE  HistoryIsOwned'
<1>1. ASSUME NEW row \in history', row.key.gen # Garbled PROVE Owned(row.actor, row.key)'
  <2>1. CASE row.actor = a /\ row.key = key
    BY <1>1, <2>1 DEF Owned
  <2>2. CASE row \in history
    BY <1>1, <2>2, RowStays
  <2> QED
    BY <2>1, <2>2, <1>1
<1> QED
  BY <1>1 DEF HistoryIsOwned

LEMMA HistoryShrinks ==
  ASSUME KInv, TypeOK', Grows, history' \subseteq history
  PROVE  HistoryIsOwned'
BY RowStays DEF HistoryIsOwned

LEMMA KeptGrows ==
  ASSUME KInv, Kept
  PROVE  Grows
<1>1. ASSUME NEW a \in Actor, Generation(a) # Unpublished
      PROVE  Generation(a)' # Unpublished /\ Generation(a) <= Generation(a)'
  <2>1. Generation(a) \in Nat
    BY <1>1, GenerationType, ServerActorAssumption DEF KInv, Gen
  <2>2. Generation(a)' = Generation(a)
    BY DEF Generation, Kept
  <2> QED
    BY <2>1, <2>2, <1>1
<1> QED
  BY <1>1 DEF Grows, Kept

LEMMA QuietRequest ==
  ASSUME KInv, NEW r \in Request, NEW q \in RunState \cup {Idle}, Becomes(r, q),
         UNCHANGED <<history, purged, late>>
  PROVE  KInv'
<1>1. TypeOK'
  BY BecomesKeeps DEF KInv, TypeOK
<1>2. HistoryIsOwned'
  BY <1>1, KeptGrows, HistoryShrinks DEF Becomes
<1>3. StaleIsLate'
  BY DEF KInv, StaleIsLate, Becomes, Kept
<1> QED
  BY <1>1, <1>2, <1>3, BecomesKeeps DEF KInv

LEMMA ArchivePublicKeyInv ==
  ASSUME KInv, NEW r \in Request, ArchivePublicKey(r)
  PROVE  KInv'
<1>1. PICK q \in RunState \cup {Idle} : Becomes(r, q)
  BY ArchivePublicKeyRun
<1>2. run[r].pc \in {"archive", "rearchive"}
  BY DEF ArchivePublicKey
<1>3. PICK a \in Actor, key \in Pem :
        /\ a = Who(run[r]) /\ key = [alg |-> AlgOf[a], gen |-> run[r].got]
        /\ key.gen # Garbled => Owned(a, key)
  BY <1>2, FetchedIsOwned
<1>4. run[r] \in RunState /\ run[r].msg.type \in Alg
  BY <1>2, FetchedIsOwned DEF MessageType
<1>5. Archive(a, run[r].msg.type, key) /\ purged' = purged
  BY <1>3 DEF ArchivePublicKey
<1>6. PICK new : new = [actor |-> a, type |-> run[r].msg.type, key |-> key, open |-> TRUE]
  OBVIOUS
<1>7. new \in HistoryRow(Actor) /\ new.actor = a /\ new.key = key
  BY <1>4, <1>6 DEF HistoryRow
<1>8. history' \subseteq history \cup {new}
  BY <1>5, <1>6 DEF Archive, ArchiveKeyHistory
<1>9. late' = IF key.gen \in {Generation(a), Garbled} THEN late ELSE late \cup {<<a, key>>}
  BY <1>5 DEF Archive
<1>10. Grows
  BY <1>1, KeptGrows DEF Becomes
<1>11. TypeOK'
  <2>1. key.gen # Garbled => key \in Key
    BY DEF Pem, Key
  <2> QED
    BY <1>1, <1>5, <1>7, <1>8, <1>9, <2>1, BecomesKeeps DEF KInv, TypeOK
<1>12. HistoryIsOwned'
  <2>1. key.gen # Garbled => Owned(a, key)'
    <3>1. key.gen # Garbled => key \in Key
      BY DEF Pem, Key
    <3> QED
      BY <1>3, <1>10, <1>11, <3>1, OwnedStays DEF KInv
  <2>2. \A row \in history' : row \in history \/ (row.actor = a /\ row.key = key)
    BY <1>7, <1>8
  <2> QED
    BY <2>1, <2>2, <1>10, <1>11, HistoryGrows
<1>13. StaleIsLate'
  <2>1. ASSUME a \in RemoteActor, key.gen < purged[a] PROVE <<a, key>> \in late'
    <3>1. Generation(a) = published[a]
      BY <2>1, KeysAssumption DEF Generation
    <3>2. /\ purged[a] <= published[a] /\ purged[a] \in Nat /\ published[a] \in Nat
          /\ purged[a] <= MaxGen /\ key.gen \in Nat
      BY <2>1, ServerActorAssumption DEF KInv, StaleIsLate, TypeOK, Gen, Pem, Garbled
    <3>3. key.gen # Garbled
      BY <2>1, <3>2, ServerActorAssumption DEF Garbled
    <3> QED
      BY <2>1, <3>1, <3>2, <3>3, <1>9
  <2>2. published' = published /\ late \subseteq late'
    BY <1>1, <1>9 DEF Becomes, Kept
  <2>3. ASSUME NEW row \in history', row.actor \in RemoteActor, row.key.gen < purged[row.actor]
        PROVE  <<row.actor, row.key>> \in late'
    <3>1. CASE row = new
      BY <3>1, <1>7, <2>1, <2>3
    <3>2. CASE row \in history
      BY <3>2, <2>2, <2>3 DEF KInv, StaleIsLate
    <3> QED
      BY <3>1, <3>2, <1>8
  <2> QED
    BY <2>2, <2>3, <1>5 DEF StaleIsLate, KInv
<1> QED
  BY <1>1, <1>11, <1>12, <1>13, BecomesKeeps DEF KInv

LEMMA DeleteActorKeyHistoryInv ==
  ASSUME KInv, NEW r \in Request, DeleteActorKeyHistory(r)
  PROVE  KInv'
<1>1. PICK q \in RunState \cup {Idle} : Becomes(r, q) /\ late' = late
  BY DeleteActorKeyHistoryRun
<1>2. CASE UNCHANGED <<history, purged>>
  BY <1>1, <1>2, QuietRequest
<1>3. CASE /\ history' = {row \in history : row.actor # Who(run[r])}
           /\ purged' = [a \in RemoteActor |-> IF a = Who(run[r]) THEN published[a] ELSE purged[a]]
  <2>1. TypeOK'
    BY <1>1, <1>3, BecomesKeeps DEF KInv, TypeOK
  <2>2. HistoryIsOwned'
    BY <1>1, <1>3, <2>1, KeptGrows, HistoryShrinks DEF Becomes
  <2>3. published' = published
    BY <1>1 DEF Becomes, Kept
  <2>4. ASSUME NEW a \in RemoteActor PROVE purged'[a] <= published'[a]
    <3>1. published[a] \in Nat /\ purged[a] <= published[a]
      BY ServerActorAssumption DEF KInv, StaleIsLate, TypeOK, Gen
    <3> QED
      BY <3>1, <1>3, <2>3
  <2>5. ASSUME NEW row \in history', row.actor \in RemoteActor, row.key.gen < purged'[row.actor]
        PROVE  <<row.actor, row.key>> \in late'
    <3>1. row \in history /\ row.actor # Who(run[r])
      BY <1>3
    <3>2. purged'[row.actor] = purged[row.actor]
      BY <1>3, <2>5, <3>1
    <3> QED
      BY <1>1, <2>5, <3>1, <3>2 DEF KInv, StaleIsLate
  <2> QED
    BY <1>1, <2>1, <2>2, <2>4, <2>5, BecomesKeeps DEF KInv, StaleIsLate
<1> QED
  BY <1>2, <1>3 DEF DeleteActorKeyHistory

-----------------------------------------------------------------------------
(* The provisioning and the rotation.                                      *)

LEMMA ProvisionWhole ==
  ASSUME KInv, ProvisionOrRotate
  PROVE  Whole'
<1>0. /\ TypeOK /\ Whole /\ NoActor \notin LocalActor
      /\ 0 \in Gen /\ Unpublished # 0
  BY ServerActorAssumption DEF KInv, Gen, Unpublished
<1> USE DEF Whole, ServerActorIsWhole, Working, TypeOK, LocalTypeOK
<1>1. ASSUME NEW s \in Server, HasActorCredential(s) PROVE Whole'
  BY <1>0, <1>1 DEF HasActorCredential, To
<1>2. ASSUME NEW s \in Server, MintActor(s) PROVE Whole'
  <2>1. PICK a \in LocalActor \ minted :
          minted' = minted \cup {a} /\ boot' = [boot EXCEPT ![s] = [pc |-> "credential", iri |-> a]]
    BY <1>2 DEF MintActor, To
  <2>2. UNCHANGED <<credential, profile, rotation, interrupted>> /\ boot[s].pc = "mint"
    BY <1>2 DEF MintActor
  <2>3. \A t \in Server : t # s => boot'[t] = boot[t]
    BY <1>0, <2>1
  <2>4. boot'[s].pc = "credential" /\ boot'[s].iri = a
    BY <1>0, <2>1
  <2>5. a # credential.iri
    BY <1>0, <2>1 DEF NoRow
  <2>6. \A t \in Server : boot[t] = [pc |-> "graph", iri |-> credential.iri] => boot'[t] = boot[t]
    BY <1>0, <2>2, <2>3
  <2> QED
    BY <1>0, <2>1, <2>2, <2>3, <2>4, <2>5, <2>6
<1>3. ASSUME NEW s \in Server, CreateActorCredential(s) PROVE Whole'
  <2>1. PICK a \in LocalActor : a = boot[s].iri /\ a \in minted /\ a # credential.iri
    BY <1>0, <1>3 DEF CreateActorCredential
  <2>2. credential' = IF credential = NoRow THEN [iri |-> a, gen |-> 0] ELSE credential
    BY <1>3, <2>1 DEF CreateActorCredential, InsertActorCredentials
  <2>3. boot' = [boot EXCEPT ![s] = [pc |-> "graph", iri |-> a]] /\ boot[s].pc = "credential"
    BY <1>3, <2>1 DEF CreateActorCredential, To
  <2>4. UNCHANGED <<profile, minted, rotation, interrupted>>
    BY <1>3 DEF CreateActorCredential
  <2>5. boot'[s] = [pc |-> "graph", iri |-> a] /\ \A t \in Server : t # s => boot'[t] = boot[t]
    BY <1>0, <2>3
  <2>6. credential' # NoRow
    BY <1>0, <2>2 DEF NoRow
  <2>7. CASE credential = NoRow
    <3>1. credential'.iri = a /\ credential'.gen = 0 /\ rotation.pc = "idle"
      BY <1>0, <2>2, <2>7
    <3>2. \A t \in Server : boot'[t].pc = "credential" => boot'[t].iri # a
      BY <1>0, <2>1, <2>3, <2>5
    <3> QED
      BY <1>0, <2>1, <2>3, <2>4, <2>5, <2>6, <3>1, <3>2
  <2>8. CASE credential # NoRow
    <3>1. credential' = credential
      BY <2>2, <2>8
    <3>2. \A t \in Server : boot[t] = [pc |-> "graph", iri |-> credential.iri] => boot'[t] = boot[t]
      BY <1>0, <2>3, <2>5
    <3> QED
      BY <1>0, <2>1, <2>3, <2>4, <2>5, <3>1, <3>2
  <2> QED
    BY <2>7, <2>8
<1>4. ASSUME NEW s \in Server, PublishProfile(s) PROVE Whole'
  <2>1. PICK a \in LocalActor \cup {NoActor} : a = boot[s].iri
    BY <1>0
  <2>2. /\ boot[s].pc = "graph" /\ profile' = [profile EXCEPT ![a] = 0]
        /\ boot' = [boot EXCEPT ![s] = [pc |-> "quads", iri |-> a]]
        /\ UNCHANGED <<credential, minted, rotation, interrupted>>
    BY <1>4, <2>1 DEF PublishProfile, To
  <2>3. boot'[s] = [pc |-> "quads", iri |-> a] /\ \A t \in Server : t # s => boot'[t] = boot[t]
    BY <1>0, <2>2
  <2>4. ASSUME credential # NoRow, profile'[credential.iri] = Unpublished
        PROVE  interrupted \/ \E t \in Server : boot'[t] = [pc |-> "graph", iri |-> credential.iri]
    <3>1. credential.iri \in LocalActor
      BY <1>0, <2>4
    <3>2. profile[credential.iri] = Unpublished /\ credential.iri # a
      BY <1>0, <2>2, <2>4, <3>1
    <3>3. CASE interrupted
      BY <3>3
    <3>4. CASE ~interrupted
      <4>1. PICK t \in Server : boot[t] = [pc |-> "graph", iri |-> credential.iri]
        BY <1>0, <2>4, <3>2, <3>4
      <4>2. t # s
        BY <2>1, <3>2, <4>1
      <4> QED
        BY <2>3, <4>1, <4>2
    <3> QED
      BY <3>3, <3>4
  <2> QED
    BY <1>0, <2>1, <2>2, <2>3, <2>4
<1>5. ASSUME NEW s \in Server, SaveActorQuads(s) PROVE Whole'
  BY <1>0, <1>5 DEF SaveActorQuads, To
<1>6. ASSUME GetActorCredentials PROVE Whole'
  BY <1>0, <1>6 DEF GetActorCredentials
<1>7. ASSUME ArchiveRetiredKey PROVE Whole'
  BY <1>0, <1>7 DEF ArchiveRetiredKey, Alg
<1>8. ASSUME StoreMintedKeys PROVE Whole'
  <2>1. rotation'.pc = "done" /\ rotation'.iri = rotation.iri
    BY <1>0, <1>8 DEF StoreMintedKeys
  <2>2. UNCHANGED <<credential, profile, minted, boot, history, interrupted>>
    BY <1>0, <1>8 DEF StoreMintedKeys, InsertActorCredentials
  <2>3. credential # NoRow /\ rotation.iri = credential.iri
    BY <1>0, <1>8 DEF StoreMintedKeys
  <2> QED
    BY <1>0, <2>1, <2>2, <2>3
<1>9. ASSUME RotationFails PROVE Whole'
  BY <1>0, <1>9 DEF RotationFails, NoRotation
<1> QED
  BY <1>1, <1>2, <1>3, <1>4, <1>5, <1>6, <1>7, <1>8, <1>9 DEF ProvisionOrRotate

LEMMA ProvisionInv ==
  ASSUME KInv, ProvisionOrRotate, UNCHANGED verifyVars
  PROVE  KInv'
<1>1. TypeOK'
  BY ProvisionType DEF KInv
<1>2. /\ Grows
      /\ \A a \in Actor : Generation(a)' = Generation(a) \/ Generation(a) = Unpublished
  BY ProvisionGrows DEF KInv
<1>3. ASSUME NEW r \in Request, run'[r].pc # "idle" PROVE RunOK(run[r])'
  <2>1. run' = run
    BY DEF verifyVars
  <2>2. PICK q \in RunState : q = run[r]
    BY <1>3, <2>1, Started DEF KInv
  <2>3. RunOK(q)
    BY <1>3, <2>1, <2>2 DEF KInv, RunsOK
  <2>4. RunOK(q)'
    BY <1>1, <1>2, <2>3, RunStays DEF KInv
  <2> QED
    BY <2>1, <2>2, <2>4
<1>4. CASE history' \subseteq history
  BY <1>1, <1>2, <1>3, <1>4, HistoryShrinks, ProvisionWhole
    DEF KInv, RunsOK, StaleIsLate, verifyVars
<1>5. CASE ArchiveRetiredKey
  <2>1. /\ rotation.pc \in Alg /\ credential # NoRow /\ rotation.iri = credential.iri
        /\ rotation.gen = 0 /\ credential.gen = 0
    BY <1>5 DEF KInv, Whole, ArchiveRetiredKey, Alg
  <2>2. 0 \in Gen /\ 0 <= 0
    BY ServerActorAssumption DEF Gen
  <2>3. PICK a \in LocalActor : a = rotation.iri
    BY <2>1 DEF KInv, TypeOK, LocalTypeOK
  <2>4. PICK key \in Key : key \in Pem /\ key = [alg |-> rotation.pc, gen |-> rotation.gen]
    BY <2>1, <2>2 DEF Key, Pem
  <2>5. key.gen = 0
    BY <2>1, <2>4
  <2>6. Owned(a, key)
    BY <2>1, <2>2, <2>3, <2>5 DEF Owned
  <2>7. a \in Actor /\ a \notin RemoteActor
    BY KeysAssumption DEF Actor
  <2>8. Owned(a, key)'
    BY <1>1, <1>2, <2>6, <2>7, OwnedStays DEF KInv
  <2>9. PICK new : new = [actor |-> a, type |-> rotation.pc, open |-> FALSE, key |-> key]
    OBVIOUS
  <2>10. new.actor = a /\ new.key = key
    BY <2>9
  <2>11. history' \subseteq history \cup {new}
    BY <1>5, <2>3, <2>4, <2>9 DEF ArchiveRetiredKey, ArchiveKeyHistory
  <2>12. HistoryIsOwned'
    BY <1>1, <1>2, <2>4, <2>7, <2>8, <2>10, <2>11, HistoryGrows
  <2>13. StaleIsLate'
    BY <2>7, <2>10, <2>11 DEF KInv, StaleIsLate, verifyVars
  <2> QED
    BY <1>1, <1>3, <2>12, <2>13, ProvisionWhole DEF KInv, RunsOK
<1>6. ArchiveRetiredKey \/ history' = history
  BY DEF ProvisionOrRotate, HasActorCredential, MintActor, CreateActorCredential, PublishProfile,
       SaveActorQuads, GetActorCredentials, StoreMintedKeys, RotationFails
<1> QED
  BY <1>4, <1>5, <1>6

(* A process ends: its requests are gone, what they wrote stays.           *)
LEMMA ExitInv ==
  ASSUME KInv, NEW s \in Server, ExitWithRequests(s)
  PROVE  KInv'
<1>1. /\ boot[s].pc # "down"
      /\ boot' = [boot EXCEPT ![s] = [pc |-> "down", iri |-> NoActor]]
      /\ interrupted' = (interrupted \/ boot[s].pc \in {"graph", "quads"})
      /\ UNCHANGED <<credential, profile, minted, rotation, history, published, purged, late>>
      /\ run' = [r \in Request |-> IF Home[r] = s THEN Idle ELSE run[r]]
  BY DEF ExitWithRequests, Exit, To
<1>2. run' \in [Request -> RunState \cup {Idle}]
  BY <1>1 DEF KInv, TypeOK
<1>3. interrupted' \in BOOLEAN
  BY <1>1
<1>4. TypeOK'
  <2>1. boot' \in [Server -> [pc: {"down", "mint", "credential", "graph", "quads", "serving"},
                              iri: LocalActor \cup {NoActor}]]
    BY <1>1 DEF KInv, TypeOK, LocalTypeOK
  <2> QED
    BY <1>1, <1>2, <1>3, <2>1 DEF KInv, TypeOK, LocalTypeOK
<1>5. Whole'
  <2>1. boot'[s].pc = "down" /\ \A t \in Server : t # s => boot'[t] = boot[t]
    BY <1>1 DEF KInv, TypeOK, LocalTypeOK
  <2>2. ServerActorIsWhole'
    <3>1. ASSUME credential # NoRow, profile[credential.iri] = Unpublished, ~interrupted'
          PROVE  \E t \in Server : boot'[t] = [pc |-> "graph", iri |-> credential.iri]
      <4>1. ~interrupted /\ boot[s].pc # "graph"
        BY <1>1, <3>1
      <4>2. PICK t \in Server : boot[t] = [pc |-> "graph", iri |-> credential.iri]
        BY <3>1, <4>1 DEF KInv, Whole, ServerActorIsWhole
      <4>3. t # s
        BY <4>1, <4>2
      <4> QED
        BY <2>1, <4>2, <4>3
    <3> QED
      BY <1>1, <3>1 DEF ServerActorIsWhole
  <2> QED
    BY <1>1, <2>1, <2>2 DEF KInv, Whole, Working
<1>6. ASSUME NEW r \in Request, run'[r].pc # "idle" PROVE RunOK(run[r])'
  <2>1. run'[r] = run[r]
    BY <1>1, <1>6 DEF Idle
  <2>2. PICK c : c = run[r]
    OBVIOUS
  <2>3. RunOK(c)
    BY <1>6, <2>1, <2>2 DEF KInv, RunsOK
  <2>4. RunOK(c)'
    BY <1>1, <2>3 DEF RunOK, ValidActorDomain, Owned, Generation, Who, InFlight
  <2> QED
    BY <2>1, <2>2, <2>4
<1>7. HistoryIsOwned'
  BY <1>1 DEF KInv, HistoryIsOwned, Owned, Generation
<1>8. StaleIsLate'
  BY <1>1 DEF KInv, StaleIsLate
<1> QED
  BY <1>4, <1>5, <1>6, <1>7, <1>8 DEF KInv, RunsOK

(* A new key in a profile: requests in flight of its actor have seen it.   *)
LEMMA RemoteRotatesInv ==
  ASSUME KInv, NEW a \in RemoteActor, RemoteRotates(a)
  PROVE  KInv'
<1>1. PICK g \in Gen : g = published[a] + 1
  BY ServerActorAssumption DEF KInv, TypeOK, RemoteRotates, Gen
<1>2. /\ published' = [published EXCEPT ![a] = g]
      /\ run' = [r \in Request |->
                   IF InFlight(run[r]) /\ run[r].msg.signer = a
                     THEN [run[r] EXCEPT !.seen = @ \cup {g}] ELSE run[r]]
      /\ UNCHANGED <<credential, profile, minted, boot, rotation, history, interrupted, purged, late>>
  BY <1>1 DEF RemoteRotates, localVars
<1>3. a \in Actor /\ a \notin LocalActor /\ published[a] \in Nat /\ published[a] <= g
  BY <1>1, KeysAssumption, ServerActorAssumption DEF Actor, KInv, TypeOK, Gen
<1>4. /\ Generation(a)' = g
      /\ \A b \in Actor : b # a => Generation(b)' = Generation(b)
  BY <1>2, <1>3 DEF Generation, Actor, KInv, TypeOK
<1>5. Grows
  <2>1. ASSUME NEW b \in Actor, Generation(b) # Unpublished
        PROVE  Generation(b)' # Unpublished /\ Generation(b) <= Generation(b)'
    <3>1. CASE b = a
      BY <1>1, <1>3, <1>4, <3>1, ServerActorAssumption DEF Generation, Gen, Unpublished
    <3>2. CASE b # a
      <4>1. Generation(b) \in Nat
        BY <2>1, GenerationType, ServerActorAssumption DEF KInv, Gen
      <4> QED
        BY <1>4, <2>1, <3>2, <4>1
    <3> QED
      BY <3>1, <3>2
  <2> QED
    BY <1>2, <2>1 DEF Grows
<1>6. ASSUME NEW r \in Request, NEW q \in RunState, q = run[r], InFlight(q), q.msg.signer = a
      PROVE  /\ run'[r] \in RunState /\ run'[r].pc = q.pc /\ run'[r].msg = q.msg
             /\ run'[r].relaying = q.relaying /\ run'[r].identity = q.identity
             /\ run'[r].got = q.got /\ run'[r].seen = q.seen \cup {g}
             /\ run'[r].unread = q.unread
  <2>1. run'[r] = [q EXCEPT !.seen = q.seen \cup {g}]
    BY <1>2, <1>6
  <2> QED
    BY <2>1 DEF RunState
<1>7. ASSUME NEW r \in Request, ~(InFlight(run[r]) /\ run[r].msg.signer = a)
      PROVE  run'[r] = run[r]
  BY <1>2, <1>7
<1>8. ASSUME NEW r \in Request PROVE run'[r] \in RunState \cup {Idle}
  <2>1. CASE InFlight(run[r]) /\ run[r].msg.signer = a
    BY <1>6, <2>1, Started DEF InFlight, KInv
  <2>2. CASE ~(InFlight(run[r]) /\ run[r].msg.signer = a)
    BY <1>7, <2>2 DEF KInv, TypeOK
  <2> QED
    BY <2>1, <2>2
<1>9. TypeOK'
  BY <1>2, <1>8 DEF KInv, TypeOK, LocalTypeOK
<1>10. Whole'
  BY <1>2 DEF KInv, Whole, ServerActorIsWhole
<1>11. ASSUME NEW q \in RunState, RunOK(q), ~(InFlight(q) /\ q.msg.signer = a)
       PROVE  RunOK(q)'
  <2>0. q.msg \in MessageType /\ q.msg.signer \in Actor /\ q.msg.key \in Key /\ q.msg.relayKey \in Key
    BY KeysAssumption DEF RunState, MessageType
  <2>1. Owned(q.msg.signer, q.msg.key) => Owned(q.msg.signer, q.msg.key)'
    BY <1>5, <1>9, <2>0, OwnedStays DEF KInv
  <2>2. q.msg.relay # NoActor /\ Owned(q.msg.relay, q.msg.relayKey) =>
          Owned(q.msg.relay, q.msg.relayKey)'
    <3>1. q.msg.relay # NoActor => q.msg.relay \in Actor
      BY <2>0 DEF MessageType
    <3> QED
      BY <1>5, <1>9, <2>0, <3>1, OwnedStays DEF KInv
  <2>3. ASSUME q.pc \in {"archive", "rearchive"}, q.got # Garbled
        PROVE  q.got \in Gen /\ Generation(Who(q))' # Unpublished /\ q.got <= Generation(Who(q))'
    <3>1. PICK b \in Actor : b = Who(q)
      BY <1>11, <2>0, <2>3 DEF RunOK, Who, MessageType
    <3>2. q.got \in Gen /\ Generation(b) # Unpublished /\ q.got <= Generation(b)
      BY <1>11, <2>3, <3>1 DEF RunOK
    <3>3. Generation(b)' # Unpublished /\ Generation(b) <= Generation(b)'
      BY <1>5, <3>2 DEF Grows
    <3>4. PICK h, k \in Nat : h = Generation(b) /\ k = Generation(b)'
      <4>1. Generation(b) \in Nat
        BY GenerationType, ServerActorAssumption DEF KInv, Gen, Unpublished
      <4>2. Generation(b)' \in Nat
        BY <1>1, <1>4, <4>1, ServerActorAssumption DEF Gen
      <4> QED
        BY <4>1, <4>2
    <3>5. q.got <= k
      BY <3>2, <3>3, <3>4, ServerActorAssumption DEF Gen
    <3>6. Generation(Who(q))' = Generation(b)'
      BY <3>1 DEF Who
    <3> QED
      BY <3>2, <3>3, <3>4, <3>5, <3>6
  <2>4. InFlight(q) => Generation(q.msg.signer)' \in q.seen \/ Unpublished \in q.seen
    BY <1>4, <1>11, <2>0 DEF RunOK
  <2>5. InFlight(q)' = InFlight(q)
    BY DEF InFlight
  <2> QED
    BY <1>11, <2>1, <2>2, <2>3, <2>4, <2>5 DEF RunOK, ValidActorDomain, Who
<1>12. ASSUME NEW r \in Request, run'[r].pc # "idle" PROVE RunOK(run[r])'
  <2>1. CASE InFlight(run[r]) /\ run[r].msg.signer = a
    <3>1. PICK q \in RunState : q = run[r] /\ RunOK(q) /\ InFlight(q) /\ q.msg.signer = a
      BY <2>1, Started DEF InFlight, KInv, RunsOK
    <3>2. PICK c \in RunState : c = run'[r]
      BY <1>6, <3>1
    <3>3. /\ c.pc = q.pc /\ c.msg = q.msg /\ c.relaying = q.relaying
          /\ c.got = q.got /\ c.seen = q.seen \cup {g}
      BY <1>6, <3>1, <3>2
    <3>4. c.relaying => c.msg.relay # NoActor /\ Owned(c.msg.signer, c.msg.key)'
      <4>1. c.msg.signer \in Actor /\ c.msg.key \in Key
        BY <3>2, KeysAssumption DEF RunState, MessageType
      <4>2. c.relaying => c.msg.relay # NoActor /\ Owned(c.msg.signer, c.msg.key)
        BY <3>1, <3>3 DEF RunOK
      <4> QED
        BY <1>5, <1>9, <4>1, <4>2, OwnedStays DEF KInv
    <3>5. ASSUME c.pc \in {"archive", "rearchive"}, c.got # Garbled
          PROVE  c.got \in Gen /\ Generation(Who(c))' # Unpublished /\ c.got <= Generation(Who(c))'
      <4>1. PICK b \in Actor : b = Who(q) /\ b = Who(c)
        BY <3>1, <3>3, <3>5, KeysAssumption DEF RunOK, Who, RunState, MessageType
      <4>2. c.got \in Gen /\ Generation(b) # Unpublished /\ c.got <= Generation(b)
        BY <3>1, <3>3, <3>5, <4>1 DEF RunOK
      <4>3. Generation(b)' # Unpublished /\ Generation(b) <= Generation(b)'
        BY <1>5, <4>2 DEF Grows
      <4>4. PICK h, k \in Nat : h = Generation(b) /\ k = Generation(b)'
        <5>1. Generation(b) \in Nat
          BY GenerationType, ServerActorAssumption DEF KInv, Gen, Unpublished
        <5>2. Generation(b)' \in Nat
          BY <1>1, <1>4, <5>1, ServerActorAssumption DEF Gen
        <5> QED
          BY <5>1, <5>2
      <4>5. c.got <= k
        BY <4>2, <4>3, <4>4, ServerActorAssumption DEF Gen
      <4>6. Generation(Who(c))' = Generation(b)'
        BY <4>1 DEF Who
      <4> QED
        BY <4>2, <4>3, <4>4, <4>5, <4>6
    <3>6. c.pc # "verified" /\ c.pc # "refused"
      BY <3>1, <3>3 DEF InFlight
    <3>7. Generation(c.msg.signer)' \in c.seen
      BY <1>4, <3>1, <3>3
    <3>8. c.pc \in {"archive", "rearchive"} /\ c.got # Garbled /\ ~c.relaying => c.got \in c.seen \/ Unpublished \in c.seen
      BY <3>1, <3>3 DEF RunOK
    <3>9. ValidActorDomain(c.msg)' /\ Who(c)' = Who(c)
      BY <3>1, <3>3 DEF RunOK, ValidActorDomain, Who
    <3>10. c.pc \in {"archive", "rearchive"} => c.got # Unpublished /\ Who(c) \in Actor
      BY <3>1, <3>3 DEF RunOK, Who
    <3>11. RunOK(c)'
      BY <3>4, <3>5, <3>6, <3>7, <3>8, <3>9, <3>10 DEF RunOK
    <3> QED
      BY <3>2, <3>11
  <2>2. CASE ~(InFlight(run[r]) /\ run[r].msg.signer = a)
    <3>1. run'[r] = run[r]
      BY <1>7, <2>2
    <3>2. PICK q \in RunState : q = run[r] /\ RunOK(q)
      BY <1>12, <3>1, Started DEF KInv, RunsOK
    <3>3. RunOK(q)'
      BY <1>11, <2>2, <3>2
    <3> QED
      BY <3>1, <3>2, <3>3
  <2> QED
    BY <2>1, <2>2
<1>13. HistoryIsOwned'
  BY <1>2, <1>5, <1>9, HistoryShrinks
<1>14. StaleIsLate'
  <2>1. ASSUME NEW b \in RemoteActor PROVE purged'[b] <= published'[b]
    <3>1. purged[b] \in Nat /\ purged[b] <= published[b] /\ published[b] \in Nat
      BY ServerActorAssumption DEF KInv, StaleIsLate, TypeOK, Gen
    <3>2. CASE b = a
      <4>1. published'[b] = g /\ g \in Nat
        BY <1>1, <1>2, <3>2, ServerActorAssumption DEF KInv, TypeOK, Gen
      <4> QED
        BY <1>2, <1>3, <3>1, <3>2, <4>1
    <3>3. CASE b # a
      BY <1>2, <3>1, <3>3 DEF KInv, TypeOK
    <3> QED
      BY <3>2, <3>3
  <2> QED
    BY <1>2, <2>1 DEF KInv, StaleIsLate
<1> QED
  BY <1>9, <1>10, <1>12, <1>13, <1>14 DEF KInv, RunsOK

-----------------------------------------------------------------------------
LEMMA InitInv ==
  ASSUME Init PROVE KInv
<1>0. /\ 0 \in Gen /\ MaxGen \in Nat /\ NoActor \notin LocalActor
      /\ Gen \subseteq Nat
  BY ServerActorAssumption DEF Gen
<1>1. TypeOK
  BY <1>0 DEF Init, LocalInit, KeysInit, TypeOK, LocalTypeOK, NoRotation
<1>2. Whole
  BY <1>0 DEF Init, LocalInit, Whole, ServerActorIsWhole, NoRotation, Working
<1>3. RunsOK
  BY DEF Init, KeysInit, RunsOK, Idle
<1>4. HistoryIsOwned /\ StaleIsLate
  BY <1>0 DEF Init, LocalInit, KeysInit, HistoryIsOwned, StaleIsLate
<1> QED
  BY <1>1, <1>2, <1>3, <1>4 DEF KInv

LEMMA NextInv ==
  ASSUME KInv, [Next]_vars PROVE KInv'
<1>1. ASSUME NEW r \in Request,
             \/ Arrive(r) \/ GetHistoricalKey(r) \/ NoHistoricalKey(r)
             \/ FetchPublicKey(r) \/ FetchFails(r)
      PROVE  KInv'
  <2>1. /\ \E q \in RunState \cup {Idle} : Becomes(r, q)
        /\ UNCHANGED <<history, purged, late>>
    BY <1>1, ArriveRun, GetHistoricalKeyRun, NoHistoricalKeyRun, FetchPublicKeyRun, FetchFailsRun
  <2> QED
    BY <2>1, QuietRequest
<1>2. CASE UNCHANGED vars
  <2> USE <1>2 DEF vars, localVars, verifyVars, KInv
  <2>1. TypeOK'
    BY DEF TypeOK, LocalTypeOK
  <2>2. Whole'
    BY DEF Whole, ServerActorIsWhole
  <2>3. ASSUME NEW o \in Request, run'[o].pc # "idle" PROVE RunOK(run[o])'
    <3>1. PICK c : c = run[o] /\ c = run'[o]
      OBVIOUS
    <3>2. RunOK(c)
      BY <2>3, <3>1 DEF RunsOK
    <3>3. RunOK(c)'
      BY <3>2 DEF RunOK, ValidActorDomain, Owned, Generation, Who, InFlight
    <3> QED
      BY <3>1, <3>3
  <2>4. HistoryIsOwned' /\ StaleIsLate'
    BY DEF HistoryIsOwned, StaleIsLate, Owned, Generation
  <2> QED
    BY <2>1, <2>2, <2>3, <2>4 DEF RunsOK
<1> QED
  BY <1>1, <1>2, ProvisionInv, ExitInv, RemoteRotatesInv, ArchivePublicKeyInv,
     DeleteActorKeyHistoryInv DEF Next

THEOREM Inductive == Spec => []KInv
<1>1. Init => KInv
  BY InitInv
<1>2. KInv /\ [Next]_vars => KInv'
  BY NextInv
<1> QED
  BY <1>1, <1>2, PTL DEF Spec

(* The tables and the verifications keep their types.                      *)
THEOREM TypeCorrect == Spec => []TypeOK
<1>1. KInv => TypeOK
  BY DEF KInv
<1> QED
  BY <1>1, Inductive, PTL

(* The row and the profile of the server actor never hold different keys:  *)
(* the row keeps its first pair, whoever provisions or rotates.            *)
THEOREM SignedAsPublished == Spec => []SignedWithPublishedKey
<1>1. KInv => SignedWithPublishedKey
  <2> SUFFICES ASSUME KInv, credential # NoRow
               PROVE  profile[credential.iri] \in {credential.gen, Unpublished}
    BY DEF SignedWithPublishedKey
  <2> QED
    BY DEF KInv, TypeOK, LocalTypeOK, Whole
<1> QED
  BY <1>1, Inductive, PTL

(* The server actor's IRI shows a profile, unless its writer is at work or *)
(* was interrupted, for any number of processes provisioning at once.      *)
THEOREM Provisioned == Spec => []ServerActorIsWhole
<1>1. KInv => ServerActorIsWhole
  BY DEF KInv, Whole
<1> QED
  BY <1>1, Inductive, PTL

(* An admitted request bears the identity of the actor whose key signed    *)
(* it; under an HTTP signature the payload's actor is of its host.         *)
THEOREM Identified == Spec => []IdentityIsProven
<1>1. KInv => IdentityIsProven
  BY DEF KInv, RunsOK, RunOK, IdentityIsProven
<1> QED
  BY <1>1, Inductive, PTL

(* A current signature is refused only for a fetch that failed or a PEM    *)
(* that did not decode, never for a stale row of the cache.                *)
THEOREM CurrentAccepted == Spec => []CurrentKeyIsAccepted
<1>1. KInv => CurrentKeyIsAccepted
  BY DEF KInv, RunsOK, RunOK, CurrentKeyIsAccepted
<1> QED
  BY <1>1, Inductive, PTL

(* What a request verified with a key from the history has shown of it.    *)
LEMMA LookupVerifies ==
  ASSUME KInv, Next, NEW r \in Request, run[r].pc = "lookup", ~run[r].relaying,
         run'[r].pc = "verified"
  PROVE  \E row \in history : row.actor = run[r].msg.signer /\ row.key = run[r].msg.key
<1>1. PICK d \in RunState : d = run[r] /\ d.pc = "lookup" /\ ~d.relaying
  BY Started DEF KInv
<1>2. run'[r] # run[r]
  OBVIOUS
<1>3. ASSUME NEW o \in Request, NEW q \in RunState \cup {Idle}, Step(o, q)
      PROVE  o = r /\ q.pc = "verified"
  BY <1>2, <1>3, OneRun DEF KInv
<1>4. ~(ProvisionOrRotate /\ UNCHANGED verifyVars)
  BY <1>2 DEF verifyVars
<1>5. ASSUME NEW s \in Server, ExitWithRequests(s) PROVE FALSE
  BY <1>2, <1>5 DEF ExitWithRequests, Idle
<1>6. ASSUME NEW a \in RemoteActor, RemoteRotates(a) PROVE FALSE
  <2>1. \/ run'[r] = run[r]
        \/ run'[r] = [run[r] EXCEPT !.seen = @ \cup {published[a] + 1}]
    BY <1>6 DEF RemoteRotates
  <2>2. run'[r].pc = d.pc
    BY <1>1, <2>1 DEF RunState
  <2> QED
    BY <1>1, <2>2
<1>7. ASSUME NEW o \in Request PROVE ~Arrive(o)
  <2> SUFFICES ASSUME Arrive(o) PROVE FALSE
    OBVIOUS
  <2>1. PICK q : Step(o, q) /\ q.pc = "lookup"
    BY DEF Arrive
  <2>2. run'[o] = q /\ \A p \in Request \ {o} : run'[p] = run[p]
    BY <2>1 DEF Step, KInv, TypeOK
  <2> QED
    BY <1>2, <2>1, <2>2
<1>8. ASSUME NEW o \in Request,
             \/ NoHistoricalKey(o) \/ FetchPublicKey(o) \/ ArchivePublicKey(o)
             \/ DeleteActorKeyHistory(o) \/ FetchFails(o)
      PROVE  FALSE
  <2>1. PICK q \in RunState \cup {Idle} : Step(o, q)
    BY <1>8, NoHistoricalKeyRun, FetchPublicKeyRun, ArchivePublicKeyRun,
       DeleteActorKeyHistoryRun, FetchFailsRun DEF Becomes
  <2>2. o = r /\ q.pc = "verified"
    BY <1>3, <2>1
  <2>3. run'[r] = q
    BY <2>1, <2>2, OneRun DEF KInv
  <2>4. NoHistoricalKey(r)
    BY <1>1, <1>8, <2>2 DEF FetchPublicKey, ArchivePublicKey, DeleteActorKeyHistory, FetchFails
  <2>5. run'[r] = [d EXCEPT !.pc = "fetch"]
    BY <1>1, <2>4 DEF NoHistoricalKey, Step, KInv, TypeOK
  <2> QED
    BY <2>2, <2>3, <2>5 DEF RunState
<1>9. PICK o \in Request : GetHistoricalKey(o)
  BY <1>4, <1>5, <1>6, <1>7, <1>8 DEF Next
<1>10. o = r
  BY <1>3, <1>9, GetHistoricalKeyRun DEF Becomes
<1>11. PICK row \in history : row.actor = Who(d) /\ Step(r, Check(d, row.key, TRUE))
  BY <1>1, <1>9, <1>10 DEF GetHistoricalKey
<1>12. PICK key \in Pem : key = row.key
  BY <1>11 DEF KInv, TypeOK, HistoryRow
<1>13. PICK cached \in BOOLEAN : cached = TRUE
  OBVIOUS
<1>14. PICK c : c = Check(d, key, cached)
  OBVIOUS
<1>15. /\ c \in RunState
       /\ \/ c.pc = "lookup"
          \/ key = SignedBy(d) /\ c.pc = "verified"
          \/ c.pc = "purge"
          \/ c.pc = "refused"
  <2>1. d.relaying => d.msg.relay # NoActor
    BY <1>1
  <2>2. /\ c \in RunState
        /\ \/ /\ key = SignedBy(d) /\ d.msg.relay # NoActor /\ ~d.relaying
              /\ c.pc = "lookup" /\ c.relaying
           \/ /\ key = SignedBy(d) /\ (d.msg.relay = NoActor \/ d.relaying)
              /\ c.pc = "verified" /\ c.identity = d.msg.signer /\ c.relaying = d.relaying
           \/ cached /\ c.pc = "purge" /\ c.relaying = d.relaying
           \/ /\ key # SignedBy(d) \/ d.msg.path = "proof"
              /\ ~cached \/ d.msg.path # "signature" \/ c.unread
              /\ key.gen = Garbled => c.unread
              /\ c.pc = "refused" /\ c.relaying = d.relaying
    BY <1>14, <2>1, CheckShape
  <2> QED
    BY <2>2
<1>16. Step(r, c)
  BY <1>11, <1>12, <1>13, <1>14
<1>17. c.pc = "verified"
  BY <1>3, <1>15, <1>16
<1> QED
  BY <1>1, <1>11, <1>12, <1>15, <1>17 DEF SignedBy, Who

(* After its rows were deleted an earlier key of an actor comes back only  *)
(* by the one race the property names.                                     *)
THEOREM RetiredOnlyByRace == Spec => RetiredKeyReturnsByRace
<1> DEFINE Returns(r) ==
      /\ run[r].pc = "lookup" /\ ~run[r].relaying /\ run'[r].pc = "verified"
      /\ run[r].msg.signer \in RemoteActor /\ run[r].msg.key.gen < purged[run[r].msg.signer]
      => <<run[r].msg.signer, run[r].msg.key>> \in late
<1>1. ASSUME KInv, Next, NEW r \in Request PROVE Returns(r)
  <2> SUFFICES ASSUME run[r].pc = "lookup", ~run[r].relaying, run'[r].pc = "verified",
                      run[r].msg.signer \in RemoteActor,
                      run[r].msg.key.gen < purged[run[r].msg.signer]
               PROVE  <<run[r].msg.signer, run[r].msg.key>> \in late
    OBVIOUS
  <2>1. PICK row \in history : row.actor = run[r].msg.signer /\ row.key = run[r].msg.key
    BY <1>1, LookupVerifies
  <2> QED
    BY <1>1, <2>1 DEF KInv, StaleIsLate
<1>2. KInv /\ [Next]_vars => [\A r \in Request : Returns(r)]_vars
  BY <1>1
<1> QED
  BY <1>2, Inductive, PTL DEF Spec, RetiredKeyReturnsByRace
=============================================================================
