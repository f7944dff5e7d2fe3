-------------------------- MODULE ConfigurationStore ------------------------
(***************************************************************************)
(* ConfigurationStore of projectconfig/storage.py: several writers replace *)
(* one configuration document by compare-and-swap on its ETag and on the   *)
(* revision their caller expects, readers freeze a version of it, and      *)
(* secrets are written once under fresh keys before a configuration refers *)
(* to them.  A write whose outcome is unknown is settled by reading the    *)
(* document back and comparing contents.                                   *)
(*                                                                         *)
(* A configuration is abstracted to the secret it refers to, or to Plain   *)
(* when it refers to none.  The document is ConditionalObject's object;    *)
(* versions is the history that the versioned bucket keeps of it.          *)
(***************************************************************************)
EXTENDS ConditionalObject, Sequences

CONSTANTS Writers,       \* processes that update the configuration
          Keys,          \* fresh secret keys
          Plain,         \* settings that refer to no secret
          MaxRevision    \* bound on the revisions that are tried

Settings == Keys \union {Plain}

Contents == [revision : Nat, settings : Settings]

ASSUME ConfigurationAssumption ==
    /\ MaxRevision \in Nat
    /\ Absent \notin Contents

VARIABLES
    versions,    \* every contents the document had, in order; a version is an index
    pc,          \* where each writer's write_configuration is
    expected,    \* expected_revision of that call
    settings,    \* the configuration of that call
    previous,    \* previous_object of that call
    acked,       \* <<revision, settings>> that a write_configuration returned
    snapshots,   \* SnapshotRefs returned by freeze_configuration
    secret,      \* the object under each secret key
    creator      \* where the call that creates each secret is

callVars == <<pc, expected, settings, previous>>
secretVars == <<secret, creator>>
vars == <<storeVars, callVars, secretVars, versions, acked, snapshots>>

Init ==
    /\ StoreInit
    /\ versions = <<>>
    /\ pc = [w \in Writers |-> "idle"]
    /\ expected = [w \in Writers |-> 0]
    /\ settings = [w \in Writers |-> Plain]
    /\ previous = [w \in Writers |-> Absent]
    /\ acked = {}
    /\ snapshots = {}
    /\ secret = [k \in Keys |-> "absent"]
    /\ creator = [k \in Keys |-> "unused"]
-----------------------------------------------------------------------------
\* The bucket keeps the contents it had: every applied write adds a version.
KeepsVersion ==
    versions' = IF object' = object THEN versions ELSE Append(versions, object')

revision(contents) == IF contents = Absent THEN 0 ELSE contents.revision

Updated(w) == [revision |-> expected[w] + 1, settings |-> settings[w]]

Goto(w, label) == pc' = [pc EXCEPT ![w] = label]

\* write_configuration returns, or raises, to its caller.
Returns(w) == Goto(w, "idle") /\ UNCHANGED <<expected, settings, previous>>

Acks(w) == acked' = acked \union {<<Updated(w).revision, Updated(w).settings>>}

\* The caller refers only to secrets whose reference it was given.
write_configuration(w) ==
    /\ pc[w] = "idle"
    /\ \E r \in 0 .. MaxRevision - 1, s \in {Plain} \union {k \in Keys : creator[k] = "returned"} :
          /\ expected' = [expected EXCEPT ![w] = r]
          /\ settings' = [settings EXCEPT ![w] = s]
    /\ Goto(w, "read")
    /\ UNCHANGED <<storeVars, secretVars, versions, previous, acked, snapshots>>

ReadPrevious(w) ==
    /\ pc[w] = "read"
    /\ revision(object) = expected[w]
    /\ previous' = [previous EXCEPT ![w] = object]
    /\ Goto(w, "write")
    /\ UNCHANGED <<storeVars, secretVars, versions, expected, settings, acked, snapshots>>

RevisionConflicts(w) ==
    /\ pc[w] = "read"
    /\ revision(object) # expected[w]
    /\ Returns(w)
    /\ UNCHANGED <<storeVars, secretVars, versions, acked, snapshots>>

\* Mutant: the object is replaced without its precondition.
WriteSucceeds_Unconditional(w) ==
    /\ pc[w] = "write"
    /\ object' = Updated(w) /\ UNCHANGED late
    /\ KeepsVersion
    /\ Acks(w)
    /\ Returns(w)
    /\ UNCHANGED <<secretVars, snapshots>>

WriteSucceeds(w) ==
    /\ pc[w] = "write"
    /\ WriteAccepted(previous[w], Updated(w))
    /\ KeepsVersion
    /\ Acks(w)
    /\ Returns(w)
    /\ UNCHANGED <<secretVars, snapshots>>

WriteConflicts(w) ==
    /\ pc[w] = "write"
    /\ WriteRefused
    /\ Returns(w)
    /\ UNCHANGED <<secretVars, versions, acked, snapshots>>

WriteOutcomeUnknown(w) ==
    /\ pc[w] = "write"
    /\ WriteUnknown(previous[w], Updated(w))
    /\ KeepsVersion
    /\ Goto(w, "readBack")
    /\ UNCHANGED <<secretVars, expected, settings, previous, acked, snapshots>>

\* Equal contents are taken for the writer's own, whoever wrote them.
ReadBackOwn(w) ==
    /\ pc[w] = "readBack"
    /\ object = Updated(w)
    /\ Acks(w)
    /\ Returns(w)
    /\ UNCHANGED <<storeVars, secretVars, versions, snapshots>>

ReadBackOther(w) ==
    /\ pc[w] = "readBack"
    /\ object # Updated(w)
    /\ Returns(w)
    /\ UNCHANGED <<storeVars, secretVars, versions, acked, snapshots>>

\* A read fails, or the caller is cancelled between two requests.
Abandon(w) ==
    /\ pc[w] \in {"read", "write", "readBack"}
    /\ Returns(w)
    /\ UNCHANGED <<storeVars, secretVars, versions, acked, snapshots>>

\* The caller is cancelled or dies while its request runs on in a thread.
AbandonWrite(w) ==
    /\ pc[w] = "write"
    /\ WriteUnknown(previous[w], Updated(w))
    /\ KeepsVersion
    /\ Returns(w)
    /\ UNCHANGED <<secretVars, acked, snapshots>>

WriteArrives ==
    /\ LateWriteArrives
    /\ KeepsVersion
    /\ UNCHANGED <<callVars, secretVars, acked, snapshots>>

\* Mutant: a document that does not exist is frozen too.
freeze_configuration_Absent ==
    /\ snapshots' = snapshots \union {[version |-> Len(versions), digest |-> object]}
    /\ UNCHANGED <<storeVars, callVars, secretVars, versions, acked>>

\* A reference to the exact version that is current, with the digest of its contents.
freeze_configuration ==
    /\ object # Absent
    /\ snapshots' = snapshots \union {[version |-> Len(versions), digest |-> object]}
    /\ UNCHANGED <<storeVars, callVars, secretVars, versions, acked>>
-----------------------------------------------------------------------------
create_secret(k) ==
    /\ creator[k] = "unused"
    /\ secret' = [secret EXCEPT ![k] = "stored"]
    /\ creator' = [creator EXCEPT ![k] = "returned"]
    /\ UNCHANGED <<storeVars, callVars, versions, acked, snapshots>>

CreateSecretUnknown(k) ==
    /\ creator[k] = "unused"
    /\ \E state \in {"absent", "late", "stored"} : secret' = [secret EXCEPT ![k] = state]
    /\ creator' = [creator EXCEPT ![k] = "readBack"]
    /\ UNCHANGED <<storeVars, callVars, versions, acked, snapshots>>

\* Mutant: the reference is returned whether or not the secret is there.
ReadSecretBack_Assumed(k) ==
    /\ creator[k] = "readBack"
    /\ creator' = [creator EXCEPT ![k] = "returned"]
    /\ UNCHANGED <<storeVars, callVars, secret, versions, acked, snapshots>>

ReadSecretBack(k) ==
    /\ creator[k] = "readBack"
    /\ secret[k] = "stored"
    /\ creator' = [creator EXCEPT ![k] = "returned"]
    /\ UNCHANGED <<storeVars, callVars, secret, versions, acked, snapshots>>

\* The read-back finds nothing, or it fails.
CreateSecretFails(k) ==
    /\ creator[k] = "readBack"
    /\ creator' = [creator EXCEPT ![k] = "failed"]
    /\ UNCHANGED <<storeVars, callVars, secret, versions, acked, snapshots>>

SecretArrives(k) ==
    /\ secret[k] = "late"
    /\ secret' = [secret EXCEPT ![k] = "stored"]
    /\ UNCHANGED <<storeVars, callVars, creator, versions, acked, snapshots>>
-----------------------------------------------------------------------------
WriterStep(w) ==
    \/ write_configuration(w)
    \/ ReadPrevious(w)
    \/ RevisionConflicts(w)
    \/ WriteSucceeds(w)
    \/ WriteConflicts(w)
    \/ WriteOutcomeUnknown(w)
    \/ ReadBackOwn(w)
    \/ ReadBackOther(w)
    \/ Abandon(w)
    \/ AbandonWrite(w)

SecretStep(k) ==
    \/ create_secret(k)
    \/ CreateSecretUnknown(k)
    \/ ReadSecretBack(k)
    \/ CreateSecretFails(k)
    \/ SecretArrives(k)

Next ==
    \/ \E w \in Writers : WriterStep(w)
    \/ \E k \in Keys : SecretStep(k)
    \/ WriteArrives
    \/ freeze_configuration

Spec == Init /\ [][Next]_vars
-----------------------------------------------------------------------------
\* Every variable has its type.
TypeOK ==
    /\ object \in Contents \union {Absent}
    /\ late \subseteq [expected : Contents \union {Absent}, contents : Contents]
    /\ versions \in Seq(Contents)
    /\ pc \in [Writers -> {"idle", "read", "write", "readBack"}]
    /\ expected \in [Writers -> Nat]
    /\ settings \in [Writers -> Settings]
    /\ previous \in [Writers -> Contents \union {Absent}]
    /\ acked \subseteq Nat \X Settings
    /\ snapshots \subseteq [version : Nat, digest : Contents]
    /\ secret \in [Keys -> {"absent", "late", "stored"}]
    /\ creator \in [Keys -> {"unused", "readBack", "failed", "returned"}]

\* A secret that any version of the configuration refers to can be read, although the
\* write that created it may have had an unknown outcome (_create_secret): a process
\* that resolves a frozen snapshot never finds a reference without its object.
ReferencesResolve ==
    \A i \in 1 .. Len(versions) :
        versions[i].settings # Plain => secret[versions[i].settings] = "stored"

\* The store as its callers see it: the settings of each revision, and what its
\* writers and its snapshots were told. read_snapshot returns the exact version.
Log == INSTANCE ConfigurationLog
          WITH log <- [i \in 1 .. Len(versions) |-> versions[i].settings],
               acked <- acked,
               frozen <- {<<versions[s.version].revision, s.digest.settings>> : s \in snapshots}

\* write_configuration and freeze_configuration implement the log: revisions have no
\* gaps, no update is lost or applied twice, and an acknowledged write or a frozen
\* snapshot keeps its revision and settings whatever late write arrives.
ImplementsLog == Log!LogSpec
=============================================================================
