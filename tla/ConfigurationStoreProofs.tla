---------------------- MODULE ConfigurationStoreProofs ----------------------
(***************************************************************************)
(* The configuration store implements the revision log, and what a         *)
(* configuration refers to exists, for any number of writers, secrets,     *)
(* revisions and late writes.                                              *)
(*                                                                         *)
(* The argument: the revision inside the contents makes every compare-and- *)
(* swap token unique.  A write that can still be applied, by its writer or *)
(* late, carries the revision after the one it replaces, so it is applied  *)
(* only at the end of the history, and at most once.                       *)
(***************************************************************************)
EXTENDS ConfigurationStore, TLAPS, SequenceTheorems

\* The document is the last version, and version i holds revision i.
HistoryInOrder ==
    /\ object = IF versions = <<>> THEN Absent ELSE versions[Len(versions)]
    /\ \A i \in 1 .. Len(versions) : versions[i].revision = i

\* A secret that a write may bring in exists.
IsBacked(s) == s # Plain => secret[s] = "stored"

SecretsInOrder ==
    \A k \in Keys : /\ creator[k] = "returned" => secret[k] = "stored"
                    /\ creator[k] = "unused" => secret[k] = "absent"

\* What a late write would apply is the successor of what it replaces.
LateInOrder ==
    \A x \in late : x.contents.revision = revision(x.expected) + 1 /\ IsBacked(x.contents.settings)

CallsInOrder ==
    \A w \in Writers :
        /\ pc[w] \in {"write", "readBack"} => revision(previous[w]) = expected[w]
        /\ pc[w] # "idle" => IsBacked(settings[w])

AckedAreKept ==
    \A a \in acked : a[1] \in 1 .. Len(versions) /\ versions[a[1]].settings = a[2]

FrozenAreKept ==
    \A s \in snapshots : s.version \in 1 .. Len(versions) /\ versions[s.version] = s.digest

Inv ==
    /\ TypeOK
    /\ HistoryInOrder
    /\ SecretsInOrder
    /\ LateInOrder
    /\ CallsInOrder
    /\ AckedAreKept
    /\ FrozenAreKept
    /\ ReferencesResolve

\* The settings of each revision, as ConfigurationStore!Log sees them.
SettingsLog == [i \in 1 .. Len(versions) |-> versions[i].settings]

Frozen == {<<versions[s.version].revision, s.digest.settings>> : s \in snapshots}
-----------------------------------------------------------------------------
\* A write applied to the document adds the next revision to the history: the effect
\* of WriteAccepted and of LateWriteArrives (compare_and_swap_object) on the versions.
LEMMA AppliedWrite ==
    ASSUME TypeOK, HistoryInOrder, NEW c \in Contents,
           c.revision = revision(object) + 1, object' = c, KeepsVersion
    PROVE  /\ versions' = Append(versions, c)
           /\ HistoryInOrder'
           /\ versions' \in Seq(Contents)
           /\ Len(versions') = Len(versions) + 1
           /\ c.revision = Len(versions')
           /\ versions'[Len(versions')] = c
           /\ \A i \in 1 .. Len(versions) : versions'[i] = versions[i]
<1>1. revision(object) = Len(versions)
  <2>1. CASE versions = <<>>
    BY <2>1 DEF HistoryInOrder, revision
  <2>2. CASE versions # <<>>
    <3>1. Len(versions) \in Nat /\ Len(versions) # 0
      BY <2>2, EmptySeq DEF TypeOK
    <3>2. object \in Contents /\ object.revision = Len(versions)
      BY <2>2, <3>1 DEF HistoryInOrder, TypeOK
    <3> QED BY <3>2, ConfigurationAssumption DEF revision
  <2> QED BY <2>1, <2>2
<1>2. object' # object
  <2>1. CASE object = Absent
    BY <2>1, ConfigurationAssumption
  <2>2. CASE object # Absent
    BY <2>2, <1>1 DEF revision, TypeOK
  <2> QED BY <2>1, <2>2
<1>3. versions' = Append(versions, c)
  BY <1>2 DEF KeepsVersion
<1>4. /\ versions' \in Seq(Contents)
      /\ Len(versions') = Len(versions) + 1
      /\ versions'[Len(versions) + 1] = c
      /\ \A i \in 1 .. Len(versions) : versions'[i] = versions[i]
  BY <1>3 DEF TypeOK
<1>5. c.revision = Len(versions')
  BY <1>1, <1>4
<1>6. HistoryInOrder'
  <2>1. versions' # <<>>
    BY <1>4, EmptySeq DEF TypeOK
  <2>2. object' = versions'[Len(versions')]
    BY <1>4
  <2>3. \A i \in 1 .. Len(versions') : versions'[i].revision = i
    <3> SUFFICES ASSUME NEW i \in 1 .. Len(versions')
                 PROVE  versions'[i].revision = i
      OBVIOUS
    <3>1. CASE i = Len(versions')
      BY <3>1, <1>4, <1>5
    <3>2. CASE i # Len(versions')
      <4>1. i \in 1 .. Len(versions)
        BY <3>2, <1>4 DEF TypeOK
      <4> QED BY <4>1, <1>4 DEF HistoryInOrder
    <3> QED BY <3>1, <3>2
  <2> QED BY <2>1, <2>2, <2>3 DEF HistoryInOrder
<1> QED BY <1>3, <1>4, <1>5, <1>6

\* No step takes a stored secret away (create_object writes each key once).
LEMMA SecretsStay ==
    ASSUME TypeOK, SecretsInOrder, [Next]_vars
    PROVE  /\ secret' \in [Keys -> {"absent", "late", "stored"}]
           /\ creator' \in [Keys -> {"unused", "readBack", "failed", "returned"}]
           /\ SecretsInOrder'
           /\ \A k \in Keys : secret[k] = "stored" => secret'[k] = "stored"
<1>1. CASE \E k \in Keys : SecretStep(k)
  <2> PICK k \in Keys : SecretStep(k)
    BY <1>1
  <2>1. CASE create_secret(k)
    BY <2>1 DEF create_secret, TypeOK, SecretsInOrder
  <2>2. CASE CreateSecretUnknown(k)
    BY <2>2 DEF CreateSecretUnknown, TypeOK, SecretsInOrder
  <2>3. CASE ReadSecretBack(k)
    BY <2>3 DEF ReadSecretBack, TypeOK, SecretsInOrder
  <2>4. CASE CreateSecretFails(k)
    BY <2>4 DEF CreateSecretFails, TypeOK, SecretsInOrder
  <2>5. CASE SecretArrives(k)
    BY <2>5 DEF SecretArrives, TypeOK, SecretsInOrder
  <2> QED BY <2>1, <2>2, <2>3, <2>4, <2>5 DEF SecretStep
<1>2. CASE UNCHANGED secretVars
  BY <1>2 DEF secretVars, TypeOK, SecretsInOrder
<1>3. ASSUME NEW w \in Writers, WriterStep(w)
      PROVE  UNCHANGED secretVars
  BY <1>3 DEF WriterStep, write_configuration, ReadPrevious, RevisionConflicts, WriteSucceeds,
     WriteConflicts, WriteOutcomeUnknown, ReadBackOwn, ReadBackOther, Abandon, AbandonWrite, secretVars
<1>4. WriteArrives \/ freeze_configuration \/ UNCHANGED vars => UNCHANGED secretVars
  BY DEF WriteArrives, freeze_configuration, vars
<1> QED BY <1>1, <1>2, <1>3, <1>4 DEF Next

\* What a step may do to the document and its history: nothing, or one applied write
\* of the next revision whose secret exists.
Applies(c) ==
    /\ c \in Contents
    /\ c.revision = revision(object) + 1
    /\ IsBacked(c.settings)
    /\ object' = c
    /\ KeepsVersion

HistoryStep == UNCHANGED <<object, versions>> \/ \E c \in Contents : Applies(c)

\* A writer's accepted request applies its update.
LEMMA AcceptedApplies ==
    ASSUME Inv, NEW w \in Writers, pc[w] = "write",
           WriteAccepted(previous[w], Updated(w)), KeepsVersion
    PROVE  Applies(Updated(w))
<1>1. Updated(w) \in Contents
  BY DEF Inv, TypeOK, Updated, Contents
<1> QED BY <1>1 DEF Inv, CallsInOrder, Applies, WriteAccepted, Updated

\* A request of unknown outcome applies its update now, or may do so later.
LEMMA UnknownApplies ==
    ASSUME Inv, NEW w \in Writers, pc[w] = "write",
           WriteUnknown(previous[w], Updated(w)), KeepsVersion
    PROVE  /\ HistoryStep
           /\ late' \subseteq late \union {[expected |-> previous[w], contents |-> Updated(w)]}
<1>1. CASE WriteAccepted(previous[w], Updated(w))
  <2>1. Updated(w) \in Contents
    BY DEF Inv, TypeOK, Updated, Contents
  <2> QED BY <1>1, <2>1, AcceptedApplies DEF HistoryStep, WriteAccepted
<1>2. CASE ~WriteAccepted(previous[w], Updated(w))
  <2>1. object' = object
    BY <1>2 DEF WriteUnknown, storeVars
  <2>2. late' \subseteq late \union {[expected |-> previous[w], contents |-> Updated(w)]}
    BY <1>2 DEF WriteUnknown, storeVars
  <2> QED BY <2>1, <2>2 DEF HistoryStep, KeepsVersion
<1> QED BY <1>1, <1>2

\* Every step leaves the history alone or applies one write in order.
LEMMA HistorySteps ==
    ASSUME Inv, [Next]_vars
    PROVE  HistoryStep
<1>1. ASSUME NEW w \in Writers, WriterStep(w)
      PROVE  HistoryStep
  <2>1. CASE WriteSucceeds(w)
    <3>1. Updated(w) \in Contents
      BY DEF Inv, TypeOK, Updated, Contents
    <3> QED BY <2>1, <3>1, AcceptedApplies DEF WriteSucceeds, HistoryStep
  <2>2. CASE WriteOutcomeUnknown(w)
    BY <2>2, UnknownApplies DEF WriteOutcomeUnknown
  <2>3. CASE AbandonWrite(w)
    BY <2>3, UnknownApplies DEF AbandonWrite
  <2>4. CASE WriteConflicts(w)
    BY <2>4 DEF WriteConflicts, WriteRefused, storeVars, HistoryStep
  <2>5. CASE UNCHANGED <<storeVars, versions>>
    BY <2>5 DEF storeVars, HistoryStep
  <2> QED BY <1>1, <2>1, <2>2, <2>3, <2>4, <2>5 DEF WriterStep, write_configuration, ReadPrevious,
         RevisionConflicts, ReadBackOwn, ReadBackOther, Abandon
<1>2. ASSUME NEW k \in Keys, SecretStep(k)
      PROVE  HistoryStep
  BY <1>2 DEF SecretStep, create_secret, CreateSecretUnknown, ReadSecretBack, CreateSecretFails,
     SecretArrives, storeVars, HistoryStep
<1>3. CASE WriteArrives
  <2>1. PICK x \in late : object' = IF object = x.expected THEN x.contents ELSE object
    BY <1>3 DEF WriteArrives, LateWriteArrives
  <2>2. CASE object = x.expected
    <3>1. x.contents \in Contents
      BY DEF Inv, TypeOK
    <3> QED BY <1>3, <2>1, <2>2, <3>1 DEF WriteArrives, Inv, LateInOrder, Applies, HistoryStep
  <2>3. CASE object # x.expected
    BY <1>3, <2>1, <2>3 DEF WriteArrives, KeepsVersion, HistoryStep
  <2> QED BY <2>2, <2>3
<1>4. CASE freeze_configuration \/ UNCHANGED vars
  BY <1>4 DEF freeze_configuration, vars, storeVars, HistoryStep
<1> QED BY <1>1, <1>2, <1>3, <1>4 DEF Next

\* The versions there were stay as they were.
LEMMA VersionsStay ==
    ASSUME Inv, HistoryStep
    PROVE  /\ versions' \in Seq(Contents)
           /\ Len(versions) \in Nat /\ Len(versions') \in Nat
           /\ Len(versions') \in {Len(versions), Len(versions) + 1}
           /\ \A i \in 1 .. Len(versions) : versions'[i] = versions[i]
           /\ object' \in Contents \union {Absent}
           /\ HistoryInOrder'
<1>1. CASE UNCHANGED <<object, versions>>
  BY <1>1 DEF Inv, TypeOK, HistoryInOrder
<1>2. ASSUME NEW c \in Contents, Applies(c)
      PROVE  /\ versions' \in Seq(Contents)
             /\ Len(versions') = Len(versions) + 1
             /\ \A i \in 1 .. Len(versions) : versions'[i] = versions[i]
             /\ HistoryInOrder'
             /\ object' = c
  BY <1>2, AppliedWrite DEF Applies, Inv
<1>3. Len(versions) \in Nat
  BY DEF Inv, TypeOK
<1> QED BY <1>1, <1>2, <1>3 DEF HistoryStep
-----------------------------------------------------------------------------
\* Late writes come from writers, so they stay in order.
LEMMA LateStays ==
    ASSUME Inv, [Next]_vars
    PROVE  /\ late' \subseteq [expected : Contents \union {Absent}, contents : Contents]
           /\ LateInOrder'
<1>1. ASSUME NEW w \in Writers, WriteOutcomeUnknown(w) \/ AbandonWrite(w)
      PROVE  /\ late' \subseteq late \union {[expected |-> previous[w], contents |-> Updated(w)]}
             /\ pc[w] = "write"
  BY <1>1, UnknownApplies DEF WriteOutcomeUnknown, AbandonWrite
<1>2. ASSUME NEW w \in Writers, WriterStep(w), ~(WriteOutcomeUnknown(w) \/ AbandonWrite(w))
      PROVE  late' = late
  BY <1>2 DEF WriterStep, write_configuration, ReadPrevious, RevisionConflicts, WriteSucceeds,
     WriteAccepted, WriteConflicts, WriteRefused, ReadBackOwn, ReadBackOther, Abandon, storeVars
<1>3. ASSUME NEW k \in Keys, SecretStep(k)
      PROVE  late' = late
  BY <1>3 DEF SecretStep, create_secret, CreateSecretUnknown, ReadSecretBack, CreateSecretFails,
     SecretArrives, storeVars
<1>4. WriteArrives => late' \subseteq late
  BY DEF WriteArrives, LateWriteArrives
<1>5. freeze_configuration \/ UNCHANGED vars => late' = late
  BY DEF freeze_configuration, vars, storeVars
<1>6. \/ late' \subseteq late
      \/ \E w \in Writers : /\ late' \subseteq late \union {[expected |-> previous[w], contents |-> Updated(w)]}
                            /\ pc[w] = "write"
  BY <1>1, <1>2, <1>3, <1>4, <1>5 DEF Next
<1>7. ASSUME NEW x \in late
      PROVE  /\ x \in [expected : Contents \union {Absent}, contents : Contents]
             /\ x.contents.revision = revision(x.expected) + 1
             /\ x.contents.settings # Plain => secret'[x.contents.settings] = "stored"
  <2>1. x.contents.settings \in Settings
    BY DEF Inv, TypeOK, Contents
  <2> QED BY <2>1, SecretsStay DEF Inv, TypeOK, LateInOrder, IsBacked, Settings
<1>8. ASSUME NEW w \in Writers, pc[w] = "write"
      PROVE  /\ [expected |-> previous[w], contents |-> Updated(w)]
                     \in [expected : Contents \union {Absent}, contents : Contents]
             /\ Updated(w).revision = revision(previous[w]) + 1
             /\ Updated(w).settings # Plain => secret'[Updated(w).settings] = "stored"
  <2>1. settings[w] \in Settings /\ IsBacked(settings[w])
    BY <1>8 DEF Inv, TypeOK, CallsInOrder
  <2>2. settings[w] # Plain => secret'[settings[w]] = "stored"
    BY <2>1, SecretsStay DEF IsBacked, Settings, Inv
  <2> QED BY <1>8, <2>1, <2>2 DEF Inv, TypeOK, CallsInOrder, Updated, Contents
<1>9. ASSUME NEW x \in late'
      PROVE  /\ x \in [expected : Contents \union {Absent}, contents : Contents]
             /\ x.contents.revision = revision(x.expected) + 1
             /\ x.contents.settings # Plain => secret'[x.contents.settings] = "stored"
  BY <1>6, <1>7, <1>8
<1> QED BY <1>9 DEF LateInOrder, IsBacked, revision

\* The writers' calls keep what they rely on: the document they read had the expected
\* revision, and the secret they refer to exists.
LEMMA CallsStay ==
    ASSUME Inv, [Next]_vars
    PROVE  /\ pc' \in [Writers -> {"idle", "read", "write", "readBack"}]
           /\ expected' \in [Writers -> Nat]
           /\ settings' \in [Writers -> Settings]
           /\ previous' \in [Writers -> Contents \union {Absent}]
           /\ CallsInOrder'
<1>1. CASE UNCHANGED callVars
  <2>1. ASSUME NEW s \in Settings, IsBacked(s)
        PROVE  s # Plain => secret'[s] = "stored"
    BY <2>1, SecretsStay DEF IsBacked, Settings, Inv
  <2> QED BY <1>1, <2>1 DEF callVars, Inv, TypeOK, CallsInOrder, IsBacked, revision
<1>2. ASSUME NEW w \in Writers, WriterStep(w)
      PROVE  /\ pc' \in [Writers -> {"idle", "read", "write", "readBack"}]
             /\ expected' \in [Writers -> Nat]
             /\ settings' \in [Writers -> Settings]
             /\ previous' \in [Writers -> Contents \union {Absent}]
             /\ CallsInOrder'
  <2> USE DEF Inv, TypeOK, CallsInOrder, IsBacked, Goto, Returns, revision, secretVars
  <2>1. CASE write_configuration(w)
    BY <2>1, ConfigurationAssumption DEF write_configuration, SecretsInOrder, Settings
  <2>2. CASE ReadPrevious(w)
    BY <2>2 DEF ReadPrevious
  <2>3. CASE RevisionConflicts(w)
    BY <2>3 DEF RevisionConflicts
  <2>4. CASE WriteSucceeds(w)
    BY <2>4 DEF WriteSucceeds
  <2>5. CASE WriteConflicts(w)
    BY <2>5 DEF WriteConflicts
  <2>6. CASE WriteOutcomeUnknown(w)
    BY <2>6 DEF WriteOutcomeUnknown
  <2>7. CASE ReadBackOwn(w) \/ ReadBackOther(w)
    BY <2>7 DEF ReadBackOwn, ReadBackOther
  <2>8. CASE Abandon(w)
    BY <2>8 DEF Abandon
  <2>9. CASE AbandonWrite(w)
    BY <2>9 DEF AbandonWrite
  <2> QED BY <1>2, <2>1, <2>2, <2>3, <2>4, <2>5, <2>6, <2>7, <2>8, <2>9 DEF WriterStep
<1>3. ASSUME NEW k \in Keys, SecretStep(k)
      PROVE  UNCHANGED callVars
  BY <1>3 DEF SecretStep, create_secret, CreateSecretUnknown, ReadSecretBack, CreateSecretFails,
     SecretArrives, callVars
<1>4. WriteArrives \/ freeze_configuration \/ UNCHANGED vars => UNCHANGED callVars
  BY DEF WriteArrives, freeze_configuration, vars, callVars
<1> QED BY <1>1, <1>2, <1>3, <1>4 DEF Next

LastEntry == <<Len(versions), versions[Len(versions)].settings>>

\* The document that is there is the last version.
LEMMA ObjectIsLast ==
    ASSUME Inv, object # Absent
    PROVE  /\ Len(versions) \in Nat \ {0}
           /\ object = versions[Len(versions)]
           /\ object.revision = Len(versions)
<1>1. versions # <<>> /\ versions \in Seq(Contents)
  BY DEF Inv, TypeOK, HistoryInOrder
<1>2. Len(versions) \in Nat \ {0}
  BY <1>1, EmptySeq
<1>3. object = versions[Len(versions)]
  BY <1>1 DEF Inv, HistoryInOrder
<1>4. Len(versions) \in 1 .. Len(versions)
  BY <1>2
<1> QED BY <1>2, <1>3, <1>4 DEF Inv, HistoryInOrder

\* A writer is told of success only about the last revision.
LEMMA AckSteps ==
    ASSUME Inv, [Next]_vars, acked' # acked
    PROVE  /\ acked' = acked \union {LastEntry'}
           /\ Len(versions') \in Nat \ {0}
           /\ LastEntry' \in Nat \X Settings
           /\ snapshots' = snapshots
<1>1. PICK w \in Writers : WriteSucceeds(w) \/ ReadBackOwn(w)
  <2>1. ASSUME NEW w \in Writers, WriterStep(w), ~WriteSucceeds(w), ~ReadBackOwn(w)
        PROVE  acked' = acked
    BY <2>1 DEF WriterStep, write_configuration, ReadPrevious, RevisionConflicts, WriteConflicts,
       WriteOutcomeUnknown, ReadBackOther, Abandon, AbandonWrite
  <2>2. ASSUME NEW k \in Keys, SecretStep(k)
        PROVE  acked' = acked
    BY <2>2 DEF SecretStep, create_secret, CreateSecretUnknown, ReadSecretBack, CreateSecretFails,
       SecretArrives
  <2>3. WriteArrives \/ freeze_configuration \/ UNCHANGED vars => acked' = acked
    BY DEF WriteArrives, freeze_configuration, vars
  <2> QED BY <2>1, <2>2, <2>3 DEF Next
<1>2. Updated(w) \in Contents /\ Updated(w).settings \in Settings
  BY DEF Inv, TypeOK, Updated, Contents
<1>3. CASE WriteSucceeds(w)
  <2>1. Applies(Updated(w))
    BY <1>3, AcceptedApplies DEF WriteSucceeds
  <2>2. /\ Len(versions') = Len(versions) + 1
        /\ Updated(w).revision = Len(versions')
        /\ versions'[Len(versions')] = Updated(w)
    BY <1>2, <2>1, AppliedWrite DEF Applies, Inv
  <2>3. Len(versions) \in Nat
    BY DEF Inv, TypeOK
  <2>4. LastEntry' = <<Updated(w).revision, Updated(w).settings>>
    BY <2>2 DEF LastEntry
  <2> QED BY <1>2, <1>3, <2>2, <2>3, <2>4 DEF WriteSucceeds, Acks
<1>4. CASE ReadBackOwn(w)
  <2>1. object = Updated(w) /\ versions' = versions
    BY <1>4 DEF ReadBackOwn
  <2>2. object # Absent
    BY <1>2, <2>1, ConfigurationAssumption
  <2>3. LastEntry' = <<Updated(w).revision, Updated(w).settings>>
    BY <2>1, <2>2, ObjectIsLast DEF LastEntry
  <2> QED BY <1>2, <1>4, <2>1, <2>2, <2>3, ObjectIsLast DEF ReadBackOwn, Acks
<1> QED BY <1>1, <1>3, <1>4

\* A snapshot pins the last version.
LEMMA FreezeSteps ==
    ASSUME Inv, [Next]_vars, snapshots' # snapshots
    PROVE  freeze_configuration
<1>1. ASSUME NEW w \in Writers, WriterStep(w)
      PROVE  snapshots' = snapshots
  BY <1>1 DEF WriterStep, write_configuration, ReadPrevious, RevisionConflicts, WriteSucceeds,
     WriteConflicts, WriteOutcomeUnknown, ReadBackOwn, ReadBackOther, Abandon, AbandonWrite
<1>2. ASSUME NEW k \in Keys, SecretStep(k)
      PROVE  snapshots' = snapshots
  BY <1>2 DEF SecretStep, create_secret, CreateSecretUnknown, ReadSecretBack, CreateSecretFails,
     SecretArrives
<1>3. WriteArrives \/ UNCHANGED vars => snapshots' = snapshots
  BY DEF WriteArrives, vars
<1> QED BY <1>1, <1>2, <1>3 DEF Next
-----------------------------------------------------------------------------
\* The invariant holds of the empty bucket with which a project starts.
LEMMA InitEstablishes == Init => Inv
<1> SUFFICES ASSUME Init PROVE Inv
  OBVIOUS
<1>1. Len(versions) = 0 /\ versions \in Seq(Contents)
  BY EmptySeq DEF Init
<1>2. TypeOK
  BY <1>1 DEF Init, StoreInit, TypeOK, Settings
<1> QED BY <1>1, <1>2 DEF Init, StoreInit, Inv, HistoryInOrder, SecretsInOrder, LateInOrder, CallsInOrder,
       AckedAreKept, FrozenAreKept, ReferencesResolve

\* Every step of write_configuration, freeze_configuration and _create_secret, and
\* every late write, preserves the invariant.
LEMMA NextPreserves == Inv /\ [Next]_vars => Inv'
<1> SUFFICES ASSUME Inv, [Next]_vars PROVE Inv'
  OBVIOUS
<1>0. HistoryStep
  BY HistorySteps
<1>1. /\ versions' \in Seq(Contents)
      /\ Len(versions) \in Nat /\ Len(versions') \in Nat
      /\ Len(versions') \in {Len(versions), Len(versions) + 1}
      /\ \A i \in 1 .. Len(versions) : versions'[i] = versions[i]
      /\ object' \in Contents \union {Absent}
      /\ HistoryInOrder'
  BY <1>0, VersionsStay
<1>2. /\ secret' \in [Keys -> {"absent", "late", "stored"}]
      /\ creator' \in [Keys -> {"unused", "readBack", "failed", "returned"}]
      /\ SecretsInOrder'
      /\ \A k \in Keys : secret[k] = "stored" => secret'[k] = "stored"
  BY SecretsStay DEF Inv
<1>3. AckedAreKept' /\ acked' \subseteq Nat \X Settings
  <2>1. CASE acked' = acked
    BY <2>1, <1>1 DEF Inv, TypeOK, AckedAreKept
  <2>2. CASE acked' # acked
    <3>1. /\ acked' = acked \union {LastEntry'}
          /\ Len(versions') \in Nat \ {0}
          /\ LastEntry' \in Nat \X Settings
      BY <2>2, AckSteps
    <3>2. ASSUME NEW a \in acked
          PROVE  a[1] \in 1 .. Len(versions') /\ versions'[a[1]].settings = a[2]
      BY <1>1 DEF Inv, AckedAreKept
    <3>3. LastEntry'[1] \in 1 .. Len(versions') /\ versions'[LastEntry'[1]].settings = LastEntry'[2]
      BY <3>1 DEF LastEntry
    <3>4. AckedAreKept'
      BY <3>1, <3>2, <3>3 DEF AckedAreKept
    <3> QED BY <3>1, <3>4 DEF Inv, TypeOK
  <2> QED BY <2>1, <2>2
<1>4. FrozenAreKept' /\ snapshots' \subseteq [version : Nat, digest : Contents]
  <2>1. CASE snapshots' = snapshots
    BY <2>1, <1>1 DEF Inv, TypeOK, FrozenAreKept
  <2>2. CASE snapshots' # snapshots
    <3>1. freeze_configuration
      BY <2>2, FreezeSteps
    <3>2. /\ object # Absent
          /\ versions' = versions
          /\ snapshots' = snapshots \union {[version |-> Len(versions), digest |-> object]}
      BY <3>1 DEF freeze_configuration
    <3>3. /\ Len(versions) \in Nat \ {0}
          /\ object = versions[Len(versions)]
      BY <3>2, ObjectIsLast
    <3>4. object \in Contents
      BY <3>2 DEF Inv, TypeOK
    <3> QED BY <3>2, <3>3, <3>4 DEF Inv, TypeOK, FrozenAreKept
  <2> QED BY <2>1, <2>2
<1>5. ReferencesResolve'
  <2> SUFFICES ASSUME NEW i \in 1 .. Len(versions'), versions'[i].settings # Plain
               PROVE  secret'[versions'[i].settings] = "stored"
    BY DEF ReferencesResolve
  <2>1. CASE i \in 1 .. Len(versions)
    <3>1. versions[i] \in Contents
      BY <2>1 DEF Inv, TypeOK
    <3>2. secret[versions[i].settings] = "stored"
      BY <2>1, <1>1 DEF Inv, ReferencesResolve
    <3> QED BY <2>1, <3>1, <3>2, <1>1, <1>2 DEF Settings, Contents
  <2>2. CASE i \notin 1 .. Len(versions)
    <3>1. PICK c \in Contents : Applies(c)
      BY <1>0, <2>2 DEF HistoryStep
    <3>2. Len(versions') = Len(versions) + 1 /\ versions'[Len(versions')] = c
      BY <3>1, AppliedWrite DEF Applies, Inv
    <3>3. i = Len(versions')
      BY <2>2, <3>2, <1>1
    <3>4. c.settings \in Keys /\ secret[c.settings] = "stored"
      BY <3>1, <3>2, <3>3 DEF Applies, IsBacked, Contents, Settings
    <3> QED BY <3>2, <3>3, <3>4, <1>2
  <2> QED BY <2>1, <2>2
<1> QED BY <1>1, <1>2, <1>3, <1>4, <1>5, CallsStay, LateStays DEF Inv, TypeOK
-----------------------------------------------------------------------------
\* The inductive invariant of the configuration store (storage.py ConfigurationStore).
THEOREM StoreInvariant == Spec => []Inv
BY InitEstablishes, NextPreserves, PTL DEF Spec

\* Type correctness of the configuration store.
THEOREM TypeCorrect == Spec => []TypeOK
<1>1. Inv => TypeOK
  BY DEF Inv
<1> QED BY <1>1, StoreInvariant, PTL

\* Every secret that a version of the configuration refers to can be read, however
\* the writes that created it and the configuration ended (_create_secret).
THEOREM SecretsResolve == Spec => []ReferencesResolve
<1>1. Inv => ReferencesResolve
  BY DEF Inv
<1> QED BY <1>1, StoreInvariant, PTL
-----------------------------------------------------------------------------
\* The settings of a history are a sequence as long as the history.
LEMMA SettingsOfHistory ==
    ASSUME NEW v \in Seq(Contents)
    PROVE  /\ [i \in 1 .. Len(v) |-> v[i].settings] \in Seq(Settings)
           /\ Len([i \in 1 .. Len(v) |-> v[i].settings]) = Len(v)
<1> DEFINE s == [i \in 1 .. Len(v) |-> v[i].settings]
<1>1. Len(v) \in Nat
  OBVIOUS
<1>2. ASSUME NEW i \in 1 .. Len(v)
      PROVE  s[i] \in Settings
  <2>1. v[i] \in Contents
    OBVIOUS
  <2> QED BY <2>1 DEF Contents
<1>3. s \in [1 .. Len(v) -> Settings]
  BY <1>2
<1>4. s \in Seq(Settings)
  <2> HIDE DEF s
  <2> QED BY <1>1, <1>3, SeqDef
<1>5. Len(s) = Len(v)
  <2>1. DOMAIN s = 1 .. Len(v)
    OBVIOUS
  <2> HIDE DEF s
  <2> QED BY <1>1, <1>4, <2>1, LenProperties
<1> QED BY <1>4, <1>5

\* A step of the store is a step of the revision log, or invisible to it.
LEMMA StepsRefine == Inv /\ [Next]_vars => [Log!LogNext]_(Log!logVars)
<1> SUFFICES ASSUME Inv, [Next]_vars
             PROVE  Log!LogNext \/ (SettingsLog' = SettingsLog /\ acked' = acked /\ Frozen' = Frozen)
  BY DEF Log!logVars, SettingsLog, Frozen
<1>0. Inv' /\ HistoryStep
  BY NextPreserves, HistorySteps
<1>1. /\ Len(versions) \in Nat /\ Len(versions') \in Nat
      /\ \A i \in 1 .. Len(versions) : versions'[i] = versions[i]
  BY <1>0, VersionsStay
<1>2. SettingsLog \in Seq(Settings) /\ Len(SettingsLog) = Len(versions)
  BY SettingsOfHistory DEF SettingsLog, Inv, TypeOK
<1>3. snapshots' = snapshots => Frozen' = Frozen
  BY <1>1 DEF Frozen, Inv, FrozenAreKept
<1>4. CASE acked' = acked /\ snapshots' = snapshots /\ UNCHANGED versions
  BY <1>3, <1>4 DEF SettingsLog
<1>5. ASSUME NEW c \in Contents, Applies(c)
      PROVE  Log!Commit
  <2>1. /\ versions' = Append(versions, c)
        /\ Len(versions') = Len(versions) + 1
        /\ versions'[Len(versions')] = c
    BY <1>5, AppliedWrite DEF Applies, Inv
  <2>2. c.settings \in Settings
    BY DEF Contents
  <2>3. SettingsLog' = Append(SettingsLog, c.settings)
    <3>1. /\ SettingsLog' \in Seq(Settings)
          /\ Len(SettingsLog') = Len(versions) + 1
          /\ \A i \in 1 .. Len(versions) + 1 : SettingsLog'[i] = versions'[i].settings
      <4>1. versions' \in Seq(Contents)
        BY <1>0 DEF Inv, TypeOK
      <4>2. SettingsLog' \in Seq(Settings) /\ Len(SettingsLog') = Len(versions')
        BY <4>1, SettingsOfHistory DEF SettingsLog
      <4> QED BY <2>1, <4>2 DEF SettingsLog
    <3>2. /\ Append(SettingsLog, c.settings) \in Seq(Settings)
          /\ Len(Append(SettingsLog, c.settings)) = Len(versions) + 1
          /\ \A i \in 1 .. Len(versions) : Append(SettingsLog, c.settings)[i] = SettingsLog[i]
          /\ Append(SettingsLog, c.settings)[Len(versions) + 1] = c.settings
      BY <1>2, <2>2
    <3>3. \A i \in 1 .. Len(versions) : SettingsLog[i] = versions[i].settings
      BY DEF SettingsLog
    <3>4. \A i \in 1 .. Len(versions) + 1 : SettingsLog'[i] = Append(SettingsLog, c.settings)[i]
      BY <1>1, <2>1, <3>1, <3>2, <3>3
    <3> QED BY <1>1, <3>1, <3>2, <3>4, SeqEqual
  <2>4. SettingsLog'[Len(SettingsLog')] = c.settings /\ Len(SettingsLog') = Len(versions')
    BY <1>1, <1>2, <2>1, <2>2, <2>3
  <2>5. snapshots' = snapshots
    <3>1. versions' # versions
      BY <1>1, <2>1
    <3> QED BY <3>1, FreezeSteps DEF freeze_configuration
  <2>6. acked' \in {acked, acked \union {<<Len(SettingsLog'), SettingsLog'[Len(SettingsLog')]>>}}
    BY <2>1, <2>4, AckSteps DEF LastEntry
  <2> QED BY <1>3, <2>2, <2>3, <2>5, <2>6 DEF Log!Commit, SettingsLog, Frozen
<1>6. CASE acked' # acked /\ UNCHANGED versions
  <2>1. /\ acked' = acked \union {LastEntry'}
        /\ Len(versions') \in Nat \ {0}
        /\ snapshots' = snapshots
    BY <1>6, AckSteps
  <2>2. Len(versions) \in 1 .. Len(SettingsLog) /\ LastEntry' = <<Len(versions), SettingsLog[Len(versions)]>>
    BY <1>2, <1>6, <2>1 DEF LastEntry, SettingsLog
  <2>3. SettingsLog' = SettingsLog
    BY <1>6 DEF SettingsLog
  <2> QED BY <1>3, <2>1, <2>2, <2>3 DEF Log!LogNext, Log!Acknowledge, SettingsLog, Frozen
<1>7. CASE snapshots' # snapshots
  <2>1. /\ object # Absent
        /\ snapshots' = snapshots \union {[version |-> Len(versions), digest |-> object]}
        /\ versions' = versions /\ acked' = acked
    BY <1>7, FreezeSteps DEF freeze_configuration
  <2>2. /\ Len(versions) \in 1 .. Len(SettingsLog)
        /\ versions[Len(versions)].revision = Len(versions)
        /\ object.settings = SettingsLog[Len(versions)]
    BY <1>2, <2>1, ObjectIsLast DEF SettingsLog
  <2>3. Frozen' = Frozen \union {<<Len(versions), SettingsLog[Len(versions)]>>}
    <3> DEFINE new == [version |-> Len(versions), digest |-> object]
               entry(s) == <<versions[s.version].revision, s.digest.settings>>
    <3>1. entry(new) = <<Len(versions), SettingsLog[Len(versions)]>>
      BY <2>2
    <3>2. Frozen' = {entry(s) : s \in snapshots \union {new}}
      BY <2>1 DEF Frozen
    <3>3. Frozen = {entry(s) : s \in snapshots}
      BY DEF Frozen
    <3> HIDE DEF entry, new
    <3> QED BY <3>1, <3>2, <3>3
  <2>4. SettingsLog' = SettingsLog
    BY <2>1 DEF SettingsLog
  <2> QED BY <2>1, <2>2, <2>3, <2>4 DEF Log!LogNext, Log!Freeze, SettingsLog, Frozen
<1> QED BY <1>0, <1>4, <1>5, <1>6, <1>7 DEF HistoryStep, Log!LogNext

\* The configuration store implements the revision log: no update is lost, repeated or
\* reordered, and what a writer or a snapshot was told of a revision stays true.
THEOREM StoreImplementsLog == Spec => ImplementsLog
<1>1. Init => Log!LogInit
  <2> SUFFICES ASSUME Init PROVE Log!LogInit
    OBVIOUS
  <2>1. SettingsLog \in Seq(Settings) /\ Len(SettingsLog) = 0
    BY DEF Init, SettingsLog
  <2>2. SettingsLog = <<>>
    BY <2>1, EmptySeq
  <2> QED BY <2>2 DEF Init, Log!LogInit, SettingsLog
<1> QED BY <1>1, StepsRefine, StoreInvariant, PTL DEF Spec, ImplementsLog, Log!LogSpec
=============================================================================
