------------------------- MODULE CredentialExchange -------------------------
(***************************************************************************)
(* One connection of the project ConnectionStore, and the credential       *)
(* exchange that changes it: the refresh on use of                         *)
(* projectconfig/provider.py with the records of connections.py, beside    *)
(* the authorization and revocation that Dex Web runs on the same objects  *)
(* (sdkgo/projectconfig/exchange.go, connections.go).                      *)
(*                                                                         *)
(* Callers are calls in any replica or in Dex Web.  They share the         *)
(* connection's head object and the immutable result objects, nothing      *)
(* else.  Each storage call is a step of its own, so any amount of foreign *)
(* work and of time passes between reading the head, writing it and asking *)
(* the provider.  The head is the object of ConditionalObject.             *)
(*                                                                         *)
(* A credential is named by the exchange that produced it; a replaced one  *)
(* by the fence it was stored under.  Time is counted in ticks.            *)
(***************************************************************************)
EXTENDS ConditionalObject

CONSTANTS
    Callers,         \* calls of resolve_with_refresh, of Dex Web and of operators
    Watchers,        \* the callers that keep coming back, for liveness
    Authorizations,  \* OAuth attempt IDs, persisted by Dex Web before use
    None,            \* no value
    Replaced,        \* the origin of a credential stored by replace_credential
    RefreshTimeout,  \* _REFRESH_TIMEOUT
    RefreshWindow,   \* _ADMISSION_TIMEOUT, an admission's deadline
    MaxCalls,        \* bound on the mutations a caller begins
    LastAdmission,   \* bound on when they begin
    MaxTime          \* bound on the clock

ASSUME ExchangeAssumption ==
    /\ Watchers \subseteq Callers
    /\ RefreshTimeout \in Nat \ {0}
    /\ RefreshWindow \in Nat /\ RefreshWindow >= RefreshTimeout
    /\ MaxCalls \in Nat
    /\ LastAdmission \in Nat
    /\ MaxTime \in Nat

VARIABLES
    results,         \* the immutable result object of each attempt, or None
    lateResults,     \* result writes of unknown outcome that have not arrived
    caller,          \* what each caller is doing
    calls,           \* how many mutations each caller began
    authorization,   \* the expected revision and deadline an OAuth attempt persisted
    dispatches,      \* every provider request that was made
    now

vars == <<object, late, results, lateResults, caller, calls, authorization, dispatches, now>>

\* Attempt and invocation IDs are fresh random tokens for every call.
Invocations == Callers \X (1..MaxCalls)
FreshID(c) == <<c, calls[c] + 1>>

Attempts == Authorizations \union Invocations

NoAdmission == [kind |-> "none", id |-> None, fence |-> 0, deadline |-> 0]

Idle == [pc |-> "idle", op |-> "none", base |-> Absent, admission |-> NoAdmission,
         invocation |-> None, since |-> 0]

\* The record that a new connection starts from.
NewConnection == [revision |-> 0, fence |-> 0, status |-> "none", credential |-> None, mutation |-> None]

Init ==
    /\ StoreInit
    /\ results = [a \in Attempts |-> None]
    /\ lateResults = {}
    /\ caller = [c \in Callers |-> Idle]
    /\ calls = [c \in Callers |-> 0]
    /\ authorization = [a \in Authorizations |-> None]
    /\ dispatches = {}
    /\ now = 0
-----------------------------------------------------------------------------
(* The records each operation writes, from the record it read.             *)

Result(admission) == [id |-> admission.id, fence |-> admission.fence]

\* Mutant: the admission does not carry the identity of its invocation.
Admitted_NoInvocation(record, kind, admission, invocation) ==
    [record EXCEPT !.revision = @ + 1, !.fence = @ + 1, !.status = kind,
        !.mutation = [kind |-> kind, invocation |-> None, id |-> admission.id,
                      fence |-> record.fence + 1, baseRevision |-> record.revision,
                      deadline |-> admission.deadline]]

\* _admit_refresh, and beginExchange for an authorization.
Admitted(record, kind, admission, invocation) ==
    [record EXCEPT !.revision = @ + 1, !.fence = @ + 1, !.status = kind,
        !.mutation = [kind |-> kind, invocation |-> invocation, id |-> admission.id,
                      fence |-> record.fence + 1, baseRevision |-> record.revision,
                      deadline |-> admission.deadline]]

publish_result(record, result) ==
    [record EXCEPT !.revision = @ + 1, !.status = "READY", !.credential = result, !.mutation = None]

\* _finish_exchange with status READY: the prior credential stays.
restore_refresh(record) ==
    [record EXCEPT !.revision = @ + 1, !.fence = @ + 1, !.status = "READY", !.mutation = None]

\* _finish_exchange with status REAUTHORIZATION_REQUIRED.
fail_exchange(record) ==
    [record EXCEPT !.revision = @ + 1, !.fence = @ + 1,
        !.status = "REAUTHORIZATION_REQUIRED", !.mutation = None]

replace_credential(record) ==
    [record EXCEPT !.revision = @ + 1, !.fence = @ + 1, !.status = "READY",
        !.credential = [id |-> Replaced, fence |-> record.fence + 1], !.mutation = None]

\* Mutant: the pending mutation survives the revocation.
RevokeConnection_KeepMutation(record) ==
    [record EXCEPT !.revision = @ + 1, !.fence = @ + 1, !.status = "REVOKED", !.credential = None]

RevokeConnection(record) ==
    [record EXCEPT !.revision = @ + 1, !.fence = @ + 1, !.status = "REVOKED",
        !.credential = None, !.mutation = None]

\* What caller c is about to write.
NewRecord(c) ==
    LET k == caller[c]
        record == IF k.base = Absent THEN NewConnection ELSE k.base
    IN  CASE k.op = "refresh"   -> Admitted(record, "REFRESHING", k.admission, k.invocation)
          [] k.op = "authorize" -> Admitted(record, "AUTHORIZING", k.admission, k.invocation)
          [] k.op = "publish"   -> publish_result(record, Result(k.admission))
          [] k.op = "restore"   -> restore_refresh(record)
          [] k.op = "fail"      -> fail_exchange(record)
          [] k.op = "replace"   -> replace_credential(record)
          [] k.op = "revoke"    -> RevokeConnection(record)
-----------------------------------------------------------------------------
(* Beginning a mutation: read the head, decide, and hold what was read.    *)

Begins(c, op, admission) ==
    /\ caller[c].pc = "idle"
    /\ calls[c] < MaxCalls
    /\ now <= LastAdmission
    /\ calls' = [calls EXCEPT ![c] = @ + 1]
    /\ caller' = [caller EXCEPT ![c] = [pc |-> "write", op |-> op, base |-> object,
                     admission |-> admission, invocation |-> FreshID(c), since |-> 0]]
    /\ UNCHANGED <<object, late, results, lateResults, authorization, dispatches, now>>

\* resolve_with_refresh finds a READY credential that needs a refresh.
BeginRefresh(c) ==
    /\ object # Absent
    /\ object.status = "READY"
    /\ Begins(c, "refresh", [kind |-> "REFRESHING", id |-> FreshID(c),
                             fence |-> object.fence + 1, deadline |-> now + RefreshWindow])

\* Dex Web (external) persists an OAuth attempt with the revision it saw.
PersistAuthorization(a) ==
    /\ authorization[a] = None
    /\ now <= LastAdmission
    /\ authorization' = [authorization EXCEPT ![a] =
          [revision |-> IF object = Absent THEN 0 ELSE object.revision,
           deadline |-> now + RefreshWindow]]
    /\ UNCHANGED <<object, late, results, lateResults, caller, calls, dispatches, now>>

\* isCompletedExchange, for the fence of the record itself.
IsCompletedExchange(record, a) ==
    /\ record.status = "READY"
    /\ record.credential = [id |-> a, fence |-> record.fence]

IsAlreadyAdmitted(record, a) ==
    record.mutation # None /\ record.mutation.id = a /\ record.mutation.kind = "AUTHORIZING"

\* BeginCredentialExchange; an attempt that is completed or already admitted gets
\* an admission without dispatch permission, which changes nothing.
BeginAuthorization(c, a) ==
    LET record == IF object = Absent THEN NewConnection ELSE object IN
    /\ authorization[a] # None
    /\ ~IsCompletedExchange(record, a)
    /\ ~IsAlreadyAdmitted(record, a)
    /\ authorization[a].deadline > now
    /\ record.revision = authorization[a].revision
    /\ Begins(c, "authorize", [kind |-> "AUTHORIZING", id |-> a,
                               fence |-> record.fence + 1, deadline |-> authorization[a].deadline])

BeginReplace(c) == Begins(c, "replace", NoAdmission)

BeginRevoke(c) == object # Absent /\ Begins(c, "revoke", NoAdmission)
-----------------------------------------------------------------------------
(* _write_head, for every operation. Only the caller whose admission was   *)
(* accepted goes on, to ask the provider.                                  *)

Continues(c, k) ==
    /\ caller' = [caller EXCEPT ![c] = k]
    /\ UNCHANGED <<results, lateResults, calls, authorization, dispatches, now>>

Returns(c) == Continues(c, Idle)

AfterWrite(c) ==
    IF caller[c].op \in {"refresh", "authorize"} THEN [caller[c] EXCEPT !.pc = "admitted"] ELSE Idle

WriteSucceeds(c) ==
    /\ caller[c].pc = "write"
    /\ WriteAccepted(caller[c].base, NewRecord(c))
    /\ Continues(c, AfterWrite(c))

WriteConflicts(c) ==
    /\ caller[c].pc = "write"
    /\ WriteRefused
    /\ Returns(c)

WriteOutcomeUnknown(c) ==
    /\ caller[c].pc = "write"
    /\ WriteUnknown(caller[c].base, NewRecord(c))
    /\ Continues(c, [caller[c] EXCEPT !.pc = "observe"])

\* Mutant: a head of the expected revision is taken for the own write.
ObserveOwnWrite_Revision(c) ==
    /\ caller[c].pc = "observe"
    /\ object # Absent /\ object.revision = NewRecord(c).revision
    /\ UNCHANGED storeVars
    /\ Continues(c, AfterWrite(c))

\* The read after an unknown outcome finds exactly the bytes written.
ObserveOwnWrite(c) ==
    /\ caller[c].pc = "observe"
    /\ object = NewRecord(c)
    /\ UNCHANGED storeVars
    /\ Continues(c, AfterWrite(c))

\* A call ends early: a storage error, an unknown outcome that stays unknown, a
\* cancelled context, or the death of its process.
Abandon(c) ==
    /\ caller[c].pc # "idle"
    /\ UNCHANGED storeVars
    /\ Returns(c)
-----------------------------------------------------------------------------
(* The provider request of the admitted caller, and what follows it.       *)

Dispatch(c) ==
    /\ caller[c].pc = "admitted"
    /\ caller' = [caller EXCEPT ![c].pc = "provider", ![c].since = now]
    /\ dispatches' = dispatches \union
          {[fence |-> caller[c].admission.fence, id |-> caller[c].admission.id,
            invocation |-> caller[c].invocation]}
    /\ UNCHANGED <<object, late, results, lateResults, calls, authorization, now>>

\* New material is committed; a refusal that needs reauthorization fails the
\* exchange; any other failure of a refresh, material without a future expiry and
\* material that cannot be encoded restore the prior credential.
ProviderAnswers(c) ==
    /\ caller[c].pc = "provider"
    /\ \E next \in {"create", "fail"} \union (IF caller[c].op = "refresh" THEN {"restore"} ELSE {}) :
          Continues(c, [caller[c] EXCEPT !.pc = next])
    /\ UNCHANGED storeVars

\* _commit_refresh creates the immutable result before it looks at the head again. A
\* conflict or an unknown outcome is resolved by reading the result back.
CreateResult(c) ==
    LET id == caller[c].admission.id IN
    /\ caller[c].pc = "create"
    /\ results[id] \in {None, Result(caller[c].admission)}
    /\ results' = [results EXCEPT ![id] = Result(caller[c].admission)]
    /\ caller' = [caller EXCEPT ![c].pc = "publish"]
    /\ UNCHANGED <<object, late, lateResults, calls, authorization, dispatches, now>>

\* The read-back fails too: the result may be there, or may arrive later.
CreateResultUnknown(c) ==
    LET id == caller[c].admission.id IN
    /\ caller[c].pc = "create"
    /\ results[id] = None
    /\ \/ /\ results' = [results EXCEPT ![id] = Result(caller[c].admission)]
          /\ UNCHANGED lateResults
       \/ /\ Cardinality(lateResults) < MaxLate
          /\ lateResults' = lateResults \union {Result(caller[c].admission)}
          /\ UNCHANGED results
    /\ caller' = [caller EXCEPT ![c] = Idle]
    /\ UNCHANGED <<object, late, calls, authorization, dispatches, now>>

IsPublished(admission) ==
    /\ object # Absent
    /\ object.status = "READY"
    /\ object.credential = Result(admission)

\* Mutant: any pending mutation passes for the admitted one.
require_admission_Any(admission) == object # Absent /\ object.mutation # None

require_admission(admission) ==
    /\ object # Absent
    /\ object.mutation # None
    /\ object.status = admission.kind
    /\ object.fence = admission.fence
    /\ object.mutation.id = admission.id
    /\ object.mutation.kind = admission.kind

\* _publish_result and _finish_exchange read the head again. When the result is
\* published already, or the head no longer holds the admission, they write nothing.
ReadAdmitted(c) ==
    LET k == caller[c] IN
    /\ k.pc \in {"publish", "fail", "restore"}
    /\ UNCHANGED storeVars
    /\ IF require_admission(k.admission) /\ ~(k.pc = "publish" /\ IsPublished(k.admission))
       THEN Continues(c, [k EXCEPT !.base = object, !.op = k.pc, !.pc = "write"])
       ELSE Returns(c)
-----------------------------------------------------------------------------
(* _recover_or_wait, by anybody who finds an admission in the head: take   *)
(* the admission from the head, read the result, then the clock.           *)

BeginRecovery(c) ==
    /\ caller[c].pc = "idle"
    /\ object # Absent
    /\ object.mutation # None
    /\ UNCHANGED storeVars
    /\ Continues(c, [Idle EXCEPT !.pc = "recover",
          !.admission = [kind |-> object.status, id |-> object.mutation.id,
                         fence |-> object.fence, deadline |-> object.mutation.deadline]])

\* A result of another fence would fail the identity check of _publish_result.
RecoverResult(c) ==
    /\ caller[c].pc = "recover"
    /\ results[caller[c].admission.id] = Result(caller[c].admission)
    /\ UNCHANGED storeVars
    /\ Continues(c, [caller[c] EXCEPT !.pc = "publish"])

FindNoResult(c) ==
    /\ caller[c].pc = "recover"
    /\ results[caller[c].admission.id] = None
    /\ UNCHANGED storeVars
    /\ Continues(c, [caller[c] EXCEPT !.pc = "expiry"])

\* Mutant: an abandoned admission stays pending for ever.
IsAbandoned_Never(deadline) == FALSE

\* Mutant: an admission counts as abandoned one tick before its deadline.
IsAbandoned_Early(deadline) == now + 1 >= deadline

IsAbandoned(deadline) == now >= deadline

CheckDeadline(c) ==
    LET k == caller[c] IN
    /\ k.pc = "expiry"
    /\ UNCHANGED storeVars
    /\ IF IsAbandoned(k.admission.deadline)
       THEN Continues(c, [k EXCEPT !.pc = IF k.admission.kind = "AUTHORIZING" THEN "fail" ELSE "restore"])
       ELSE Returns(c)
-----------------------------------------------------------------------------
HeadWriteArrives ==
    /\ LateWriteArrives
    /\ UNCHANGED <<results, lateResults, caller, calls, authorization, dispatches, now>>

ResultArrives ==
    /\ \E result \in lateResults :
          /\ lateResults' = lateResults \ {result}
          /\ results' = [results EXCEPT ![result.id] = IF @ = None THEN result ELSE @]
    /\ UNCHANGED <<object, late, caller, calls, authorization, dispatches, now>>

\* A refresh request ends within _REFRESH_TIMEOUT: wait_for cancels it. Nothing bounds the
\* write of the admission before it, nor the read that follows an unknown outcome.
IsOnTime(c, t) ==
    caller[c].pc = "provider" /\ caller[c].op = "refresh" => t - caller[c].since < RefreshTimeout

Tick ==
    /\ now < MaxTime
    /\ \A c \in Callers : IsOnTime(c, now + 1)
    /\ now' = now + 1
    /\ UNCHANGED <<object, late, results, lateResults, caller, calls, authorization, dispatches>>

WriteStep(c) ==
    \/ WriteSucceeds(c)
    \/ WriteConflicts(c)
    \/ WriteOutcomeUnknown(c)
    \/ ObserveOwnWrite(c)

ExchangeStep(c) ==
    \/ Dispatch(c)
    \/ ProviderAnswers(c)
    \/ ReadAdmitted(c)
    \/ CreateResult(c)
    \/ CreateResultUnknown(c)

RecoveryStep(c) ==
    \/ BeginRecovery(c)
    \/ RecoverResult(c)
    \/ FindNoResult(c)
    \/ CheckDeadline(c)

CallerStep(c) ==
    \/ BeginRefresh(c)
    \/ \E a \in Authorizations : BeginAuthorization(c, a)
    \/ BeginReplace(c)
    \/ BeginRevoke(c)
    \/ WriteStep(c)
    \/ ExchangeStep(c)
    \/ RecoveryStep(c)
    \/ Abandon(c)

Next ==
    \/ \E c \in Callers : CallerStep(c)
    \/ \E a \in Authorizations : PersistAuthorization(a)
    \/ HeadWriteArrives
    \/ ResultArrives
    \/ Tick

Spec == Init /\ [][Next]_vars

\* The clock advances and no call hangs; the watchers keep looking at the connection,
\* and storage does not fail every time they ask it.
Fairness ==
    /\ WF_vars(Tick)
    /\ \A c \in Callers : WF_vars(WriteStep(c) \/ ExchangeStep(c) \/ RecoveryStep(c) \/ Abandon(c))
    /\ \A c \in Watchers :
          /\ SF_vars(BeginRecovery(c))
          /\ SF_vars(FindNoResult(c) \/ RecoverResult(c))
          /\ SF_vars(CheckDeadline(c))
          /\ SF_vars(ReadAdmitted(c))
          /\ SF_vars(WriteSucceeds(c))

FairSpec == Spec /\ Fairness
-----------------------------------------------------------------------------
Statuses == {"READY", "AUTHORIZING", "REFRESHING", "REAUTHORIZATION_REQUIRED", "REVOKED"}

ResultRefs == [id : Attempts \union {Replaced}, fence : Nat]

Mutations == [kind : {"AUTHORIZING", "REFRESHING"}, invocation : Invocations, id : Attempts,
              fence : Nat, baseRevision : Nat, deadline : Nat]

Records == [revision : Nat, fence : Nat, status : Statuses,
            credential : ResultRefs \union {None}, mutation : Mutations \union {None}]

\* Neither None nor Absent is a record, and OAuth attempt IDs are no invocation IDs.
ASSUME DistinctAssumption ==
    /\ None \notin ResultRefs
    /\ None \notin Mutations
    /\ Absent \notin Records
    /\ Authorizations \cap Invocations = {}

Phases == {"idle", "write", "observe", "admitted", "provider", "create", "publish", "fail",
           "restore", "recover", "expiry"}

Operations == {"none", "refresh", "authorize", "publish", "restore", "fail", "replace", "revoke"}

Admissions == [kind : {"none", "REFRESHING", "AUTHORIZING"}, id : Attempts \union {None},
               fence : Nat, deadline : Nat]

CallerStates == [pc : Phases, op : Operations, base : Records \union {Absent},
                 admission : Admissions, invocation : Invocations \union {None}, since : Nat]

\* Every variable keeps its type.
TypeOK ==
    /\ object \in Records \union {Absent}
    /\ late \subseteq [expected : Records \union {Absent}, contents : Records]
    /\ results \in [Attempts -> ResultRefs \union {None}]
    /\ lateResults \subseteq ResultRefs
    /\ caller \in [Callers -> CallerStates]
    /\ calls \in [Callers -> 0..MaxCalls]
    /\ authorization \in [Authorizations -> [revision : Nat, deadline : Nat] \union {None}]
    /\ dispatches \subseteq [fence : Nat, id : Attempts, invocation : Invocations]
    /\ now \in 0..MaxTime

\* Whatever the mutations write and in whatever order writes land, _read_record accepts
\* the head: a record it rejects would lock the connection for good. (HeadIsReadable
\* covers OAuth attempts beside refreshes, replacements and revocations.)
HeadReadable ==
    object # Absent =>
        /\ object.revision > 0 /\ object.fence > 0
        /\ object.status \in {"READY", "REFRESHING"} => object.credential # None
        /\ object.status = "REVOKED" => object.credential = None /\ object.mutation = None
        /\ (object.mutation # None) <=> object.status \in {"REFRESHING", "AUTHORIZING"}
        /\ object.mutation # None =>
              /\ object.mutation.kind = object.status
              /\ object.mutation.fence = object.fence
              /\ object.mutation.baseRevision + 1 = object.revision

\* "A conditional head write grants one caller provider dispatch": whatever
\* competing refreshes, unknown outcomes and late writes do, one fence and one attempt
\* reach the provider at most once. (DispatchIsUnique adds retries of an OAuth attempt.)
OneDispatchPerAdmission ==
    \A d, e \in dispatches : d.fence = e.fence \/ d.id = e.id => d = e

\* "Late results cannot overwrite a new fence": a head only takes a credential newer
\* than its fence, or the result of the very exchange it admitted; so nothing brings
\* back what was replaced, revoked or restored.
CredentialMovesForward ==
    [][LET new == object'.credential IN
       /\ object # Absent
       /\ object' # object
       /\ new \notin {None, object.credential}
       => \/ new.fence > object.fence
          \/ /\ object.mutation # None
             /\ new = [id |-> object.mutation.id, fence |-> object.fence]]_vars

IsRotating(c) == caller[c].pc = "provider" /\ caller[c].op = "refresh"

\* "CredentialRefreshing prevents concurrent provider rotation while its admitted
\* caller is active": two active callers never refresh the same stored credential. The
\* code does not keep this promise: the deadline of an admission is fixed before the head
\* write that may take any time, and the request is sent however late that write ends.
NoConcurrentRotation ==
    \A c, d \in Callers :
        IsRotating(c) /\ IsRotating(d) /\ caller[c].base.credential = caller[d].base.credential
        => c = d

\* The request was sent while its admission had _REFRESH_TIMEOUT left.
IsTimely(c) == caller[c].since + RefreshTimeout <= caller[c].admission.deadline

\* What the code keeps of that promise: a refresh request sent in time is never joined by a
\* later admission of the same stored credential, however long that one was under way,
\* whoever recovers admissions and whatever writes arrive late.
TimelyRotationIsExclusive ==
    \A c, d \in Callers :
        /\ IsRotating(c) /\ IsRotating(d)
        /\ caller[c].base.credential = caller[d].base.credential
        /\ caller[c].admission.fence <= caller[d].admission.fence
        /\ IsTimely(c)
        => c = d

HoldsAdmission == object # Absent /\ object.mutation # None

\* An admission does not outlive its callers: the connection leaves REFRESHING and
\* AUTHORIZING again although callers die, writes fail and outcomes stay unknown.
AdmissionEnds == HoldsAdmission ~> ~HoldsAdmission
=============================================================================
