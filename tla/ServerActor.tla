---------------------------- MODULE ServerActor ----------------------------
(***************************************************************************)
(* The server actor of a tenant: how the processes that start together     *)
(* provision it, and how its keys are rotated.                             *)
(*                                                                         *)
(* Its private keys are one row of local_actor_credentials, found by       *)
(* tenant and username; its public key is in its profile, the latest graph *)
(* version of its IRI.  The two are written by different transactions.     *)
(***************************************************************************)
EXTENDS Naturals

CONSTANTS
  Server,      \* processes on one database
  LocalActor,  \* the IRIs they may mint, one for each attempt
  NoActor,
  MaxGen       \* bound: times an actor mints new keys

Gen == 0..MaxGen
Unpublished == MaxGen + 1
Garbled == MaxGen + 2   \* of a PEM that does not decode
NoRotation == [pc |-> "idle", iri |-> NoActor, gen |-> 0]
NoRow == [iri |-> NoActor, gen |-> Unpublished]
Alg == {"RSA", "Ed25519"}

(* A key pair is known by its algorithm and by when its actor minted it.   *)
Key == [alg: Alg, gen: Gen]
Pem == [alg: Alg, gen: Gen \cup {Garbled}]

ASSUME ServerActorAssumption == NoActor \notin LocalActor /\ MaxGen \in Nat

VARIABLES
  credential,  \* the row of (tenant, "server")
  profile,     \* generation of the RSA key in the profile of each IRI
  minted,      \* IRIs taken
  boot,        \* provisionServerActor in each process
  rotation,    \* RotateLocalActorKeys, one caller; gen: of the pair it
               \* retires, once done of the pair it minted
  history,     \* actor_public_key_history
  interrupted  \* history variable: a provisioning did not reach its end

localVars == <<credential, profile, minted, boot, rotation, history, interrupted>>

(* open: valid_to is a century away.  A closed row ends with a rotation    *)
(* and matches what was signed before it.  valid_from is a day before the  *)
(* row was written, so it excludes nothing the clock skew check lets by.   *)
HistoryRow(Actor) == [actor: Actor, type: Alg, key: Pem, open: BOOLEAN]

LocalInit ==
  /\ credential = NoRow
  /\ profile = [a \in LocalActor |-> Unpublished]
  /\ minted = {}
  /\ boot = [s \in Server |-> [pc |-> "down", iri |-> NoActor]]
  /\ rotation = NoRotation
  /\ history = {}
  /\ interrupted = FALSE

-----------------------------------------------------------------------------
(* Statements on the two tables.                                           *)

(* ON CONFLICT (tenant_id, username) DO NOTHING: reports no error.         *)
InsertActorCredentials(a, gen) ==
  credential' = IF credential = NoRow THEN [iri |-> a, gen |-> gen] ELSE credential

(* Its callers ignore the error, so a failed insert is a step too.         *)
ArchiveKeyHistory(row) == history' \in {history, history \cup {row}}

-----------------------------------------------------------------------------
(* BootstrapTenantsAndServerActors in process s.                           *)

To(s, pc, iri) == boot' = [boot EXCEPT ![s] = [pc |-> pc, iri |-> iri]]

HasActorCredential(s) ==
  /\ boot[s].pc = "down"
  /\ To(s, IF credential = NoRow THEN "mint" ELSE "serving", NoActor)
  /\ UNCHANGED <<credential, profile, minted, rotation, history, interrupted>>

MintActor(s) ==
  /\ boot[s].pc = "mint"
  /\ \E a \in LocalActor \ minted :
       /\ minted' = minted \cup {a}
       /\ To(s, "credential", a)
  /\ UNCHANGED <<credential, profile, rotation, history, interrupted>>

CreateActorCredential(s) ==
  /\ boot[s].pc = "credential"
  /\ InsertActorCredentials(boot[s].iri, 0)
  /\ To(s, "graph", boot[s].iri)
  /\ UNCHANGED <<profile, minted, rotation, history, interrupted>>

(* Mutant: a failure to register the profile is only logged.               *)
PublishProfileUnchecked(s) ==
  /\ boot[s].pc = "graph"
  /\ profile' \in {profile, [profile EXCEPT ![boot[s].iri] = 0]}
  /\ To(s, "quads", boot[s].iri)
  /\ UNCHANGED <<credential, minted, rotation, history, interrupted>>

(* The public key was derived from the key pair minted above, whether or   *)
(* not that pair became the row.                                           *)
PublishProfile(s) ==
  /\ boot[s].pc = "graph"
  /\ profile' = [profile EXCEPT ![boot[s].iri] = 0]
  /\ To(s, "quads", boot[s].iri)
  /\ UNCHANGED <<credential, minted, rotation, history, interrupted>>

SaveActorQuads(s) ==
  /\ boot[s].pc = "quads"
  /\ To(s, "serving", NoActor)
  /\ UNCHANGED <<credential, profile, minted, rotation, history, interrupted>>

(* A statement fails and main exits, or the process is killed.  What an    *)
(* attempt has committed stays.                                            *)
Exit(s) ==
  /\ boot[s].pc # "down"
  /\ To(s, "down", NoActor)
  /\ interrupted' = (interrupted \/ boot[s].pc \in {"graph", "quads"})
  /\ UNCHANGED <<credential, profile, minted, rotation, history>>

-----------------------------------------------------------------------------
(* RotateLocalActorKeys.                                                   *)

GetActorCredentials ==
  /\ rotation.pc \in {"idle", "done"}
  /\ credential # NoRow /\ credential.gen < MaxGen
  /\ rotation' = [pc |-> "RSA", iri |-> credential.iri, gen |-> credential.gen]
  /\ UNCHANGED <<credential, profile, minted, boot, history, interrupted>>

ArchiveRetiredKey ==
  /\ rotation.pc \in Alg
  /\ ArchiveKeyHistory([actor |-> rotation.iri, type |-> rotation.pc, open |-> FALSE,
                        key |-> [alg |-> rotation.pc, gen |-> rotation.gen]])
  /\ rotation' = [rotation EXCEPT !.pc = IF @ = "RSA" THEN "Ed25519" ELSE "insert"]
  /\ UNCHANGED <<credential, profile, minted, boot, interrupted>>

(* Mutant: the rotation shows the minted key in the profile as well.       *)
StoreMintedKeysPublished ==
  /\ rotation.pc = "insert"
  /\ InsertActorCredentials(rotation.iri, rotation.gen + 1)
  /\ profile' = [profile EXCEPT ![rotation.iri] = rotation.gen + 1]
  /\ rotation' = [rotation EXCEPT !.pc = "done", !.gen = @ + 1]
  /\ UNCHANGED <<minted, boot, history, interrupted>>

(* The row exists, so the insert leaves it: the actor keeps its old keys,  *)
(* and the caller is told of no error.                                     *)
StoreMintedKeys ==
  /\ rotation.pc = "insert"
  /\ InsertActorCredentials(rotation.iri, rotation.gen + 1)
  /\ rotation' = [rotation EXCEPT !.pc = "done", !.gen = @ + 1]
  /\ UNCHANGED <<profile, minted, boot, history, interrupted>>

RotationFails ==
  /\ rotation.pc \notin {"idle", "done"}
  /\ rotation' = NoRotation
  /\ UNCHANGED <<credential, profile, minted, boot, history, interrupted>>

ProvisionOrRotate ==
  \/ \E s \in Server :
       \/ HasActorCredential(s)
       \/ MintActor(s)
       \/ CreateActorCredential(s)
       \/ PublishProfile(s)
       \/ SaveActorQuads(s)
  \/ GetActorCredentials
  \/ ArchiveRetiredKey
  \/ StoreMintedKeys
  \/ RotationFails

-----------------------------------------------------------------------------
(* Type correctness of the tables, of the provisioning and of the rotation *)
(* (local_actor_credentials, provisionServerActor, RotateLocalActorKeys).  *)
LocalTypeOK ==
  /\ credential \in [iri: LocalActor, gen: Gen] \cup {NoRow}
  /\ profile \in [LocalActor -> {0, Unpublished}]
  /\ minted \subseteq LocalActor
  /\ boot \in [Server -> [pc: {"down", "mint", "credential", "graph", "quads", "serving"},
                          iri: LocalActor \cup {NoActor}]]
  /\ rotation \in [pc: {"idle", "insert", "done"} \cup Alg, iri: LocalActor \cup {NoActor}, gen: Gen]
  /\ interrupted \in BOOLEAN

(* What the server signs with its private key verifies against the profile *)
(* it shows: processes that start together and rotations never pair one    *)
(* actor's row with another generation in its profile.  The rotation keeps *)
(* to it by storing nothing, see RotationTakesEffect                       *)
(* (provisionServerActor, RotateLocalActorKeys, InsertActorCredentials).   *)
SignedWithPublishedKey ==
  credential # NoRow =>
    profile[credential.iri] \in {credential.gen, Unpublished}

(* A rotation that reported success has replaced the key pair: the row of  *)
(* its actor is of the generation it minted (RotateLocalActorKeys).        *)
RotationTakesEffect == rotation.pc = "done" => credential.gen = rotation.gen

(* The IRI that WebFinger and the redirect of the root name shows a        *)
(* profile, unless the process that is writing it has not come so far or   *)
(* was interrupted, however many processes provision at once               *)
(* (BootstrapTenantsAndServerActors, GetActorIRIByUsername).               *)
ServerActorIsWhole ==
  credential # NoRow /\ profile[credential.iri] = Unpublished =>
    \/ interrupted
    \/ \E s \in Server : boot[s] = [pc |-> "graph", iri |-> credential.iri]
=============================================================================
