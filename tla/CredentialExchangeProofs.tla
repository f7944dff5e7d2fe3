---------------------- MODULE CredentialExchangeProofs ----------------------
(***************************************************************************)
(* The credential exchange, for any callers, OAuth attempts, timeouts and  *)
(* numbers of calls and late writes.                                       *)
(*                                                                         *)
(* The argument has three layers.  Inv: every record that anybody holds is *)
(* one that _read_record accepts, and every write, on its way or late,     *)
(* follows the record it replaces; so the head's revision only grows and   *)
(* its fence never goes back.  GrantInv: an admission is won by moving the *)
(* head to a fresh fence, so what was admitted lies in the head's past and *)
(* no fence or attempt is admitted twice.  RotationInv: a caller that      *)
(* rotates a credential holds the head until its own deadline, because     *)
(* only a restore brings the credential back and nobody restores earlier.  *)
(***************************************************************************)
EXTENDS CredentialExchange, TLAPS

Revision(r) == IF r = Absent THEN 0 ELSE r.revision

Fence(r) == IF r = Absent THEN 0 ELSE r.fence

Credential(r) == IF r = Absent THEN None ELSE r.credential

\* What _read_record accepts, and what it need not check: a refresh admission is named by
\* its invocation, and the credential was stored under a fence of the past.
WellFormed(r) ==
    /\ r \in Records
    /\ r.revision > 0 /\ r.fence > 0
    /\ r.status \in {"READY", "REFRESHING"} => r.credential # None
    /\ r.status = "REVOKED" => r.credential = None /\ r.mutation = None
    /\ (r.mutation # None) <=> r.status \in {"REFRESHING", "AUTHORIZING"}
    /\ r.mutation # None =>
          /\ r.mutation.kind = r.status
          /\ r.mutation.fence = r.fence
          /\ r.mutation.baseRevision + 1 = r.revision
    /\ r.status = "REFRESHING" => r.mutation.id = r.mutation.invocation
    /\ r.credential # None =>
          /\ r.credential.fence <= r.fence
          /\ r.mutation # None => r.credential.fence < r.fence

\* Record n as an operation may write it over e: what the operations do to the fence, the
\* status and the credential.
Follows(e, n) ==
    /\ n.revision = Revision(e) + 1
    /\ \/ /\ n.fence = Fence(e) + 1
          /\ n.credential = Credential(e)
          /\ \/ n.status = "REFRESHING" /\ e # Absent /\ e.status = "READY"
             \/ n.status \in {"AUTHORIZING", "REAUTHORIZATION_REQUIRED"}
             \/ n.status = "READY" /\ e # Absent /\ e.status = "REFRESHING"
       \/ /\ n.fence = Fence(e) + 1
          /\ n.status = "READY"
          /\ n.credential = [id |-> Replaced, fence |-> n.fence]
       \/ /\ n.fence = Fence(e) + 1
          /\ n.status = "REVOKED"
       \/ /\ e # Absent
          /\ e.mutation # None
          /\ n.fence = e.fence
          /\ n.status = "READY"
          /\ n.credential = [id |-> e.mutation.id, fence |-> e.fence]

\* n returns a refreshing connection to its prior credential.
Restores(e, n) ==
    /\ e # Absent
    /\ e.status = "REFRESHING"
    /\ n.status = "READY"
    /\ n.credential = e.credential

\* The caller was, or asks to be, admitted to the provider.
IsAdmission(c) ==
    LET k == caller[c] IN
    /\ k.admission.fence = Fence(k.base) + 1
    /\ k.invocation = <<c, calls[c]>>
    /\ k.invocation \in Invocations
    /\ \/ /\ k.op = "refresh"
          /\ k.base # Absent
          /\ k.base.status = "READY"
          /\ k.admission.kind = "REFRESHING"
          /\ k.admission.id = k.invocation
       \/ /\ k.op = "authorize"
          /\ k.admission.kind = "AUTHORIZING"
          /\ k.admission.id \in Authorizations
          /\ authorization[k.admission.id] # None
          /\ authorization[k.admission.id].revision = Revision(k.base)

\* The caller knows an admission and read it in the record it is about to replace.
IsCompletion(k) ==
    /\ k.op \in {"publish", "restore", "fail"}
    /\ k.base # Absent
    /\ k.base.mutation # None
    /\ k.base.status = k.admission.kind
    /\ k.base.fence = k.admission.fence
    /\ k.base.mutation.id = k.admission.id
    /\ k.op = "restore" => k.admission.kind = "REFRESHING"

CallerInOrder(c) ==
    LET k == caller[c] IN
    /\ k.base # Absent => WellFormed(k.base)
    /\ k.pc \in {"write", "observe"} =>
          \/ IsAdmission(c)
          \/ IsCompletion(k)
          \/ k.op = "replace"
          \/ k.op = "revoke" /\ k.base # Absent
    /\ k.pc \in {"admitted", "provider"} => IsAdmission(c)
    /\ k.pc \in {"create", "publish", "fail", "restore", "recover", "expiry"} =>
          k.admission.kind # "none" /\ k.admission.id \in Attempts
    /\ k.pc = "restore" => k.admission.kind = "REFRESHING"

LateInOrder ==
    \A w \in late : /\ w.expected # Absent => WellFormed(w.expected)
                    /\ WellFormed(w.contents)
                    /\ Follows(w.expected, w.contents)

Inv ==
    /\ TypeOK
    /\ object # Absent => WellFormed(object)
    /\ LateInOrder
    /\ \A c \in Callers : CallerInOrder(c)
-----------------------------------------------------------------------------
\* The record of an admission, field by field.
LEMMA AdmittedFields ==
    ASSUME NEW r, NEW kind, NEW admission, NEW invocation,
           r = [revision |-> r.revision, fence |-> r.fence, status |-> r.status,
                credential |-> r.credential, mutation |-> r.mutation]
    PROVE  Admitted(r, kind, admission, invocation) =
              [revision |-> r.revision + 1, fence |-> r.fence + 1, status |-> kind,
               credential |-> r.credential,
               mutation |-> [kind |-> kind, invocation |-> invocation, id |-> admission.id,
                  fence |-> r.fence + 1, baseRevision |-> r.revision, deadline |-> admission.deadline]]
<1> DEFINE m == [kind |-> kind, invocation |-> invocation, id |-> admission.id,
                 fence |-> r.fence + 1, baseRevision |-> r.revision, deadline |-> admission.deadline]
           q1 == [r EXCEPT !.revision = r.revision + 1]
           q2 == [q1 EXCEPT !.fence = r.fence + 1]
           q3 == [q2 EXCEPT !.status = kind]
<1>1. Admitted(r, kind, admission, invocation) = [q3 EXCEPT !.mutation = m]
  BY DEF Admitted
<1>2. q1 = [revision |-> r.revision + 1, fence |-> r.fence, status |-> r.status,
            credential |-> r.credential, mutation |-> r.mutation]
  OBVIOUS
<1> HIDE DEF q1
<1>3. q2 = [revision |-> r.revision + 1, fence |-> r.fence + 1, status |-> r.status,
            credential |-> r.credential, mutation |-> r.mutation]
  BY <1>2
<1> HIDE DEF q2
<1>4. q3 = [revision |-> r.revision + 1, fence |-> r.fence + 1, status |-> kind,
            credential |-> r.credential, mutation |-> r.mutation]
  BY <1>3
<1> HIDE DEF q3
<1> HIDE DEF m
<1>5. [q3 EXCEPT !.mutation = m] =
         [revision |-> r.revision + 1, fence |-> r.fence + 1, status |-> kind,
          credential |-> r.credential, mutation |-> m]
  BY <1>4
<1> QED BY <1>1, <1>5 DEF m

\* The records the other operations write, field by field.
LEMMA WrittenFields ==
    ASSUME NEW r,
           r = [revision |-> r.revision, fence |-> r.fence, status |-> r.status,
                credential |-> r.credential, mutation |-> r.mutation]
    PROVE  /\ \A result :
                 publish_result(r, result) =
                    [revision |-> r.revision + 1, fence |-> r.fence, status |-> "READY",
                     credential |-> result, mutation |-> None]
           /\ restore_refresh(r) =
                 [revision |-> r.revision + 1, fence |-> r.fence + 1, status |-> "READY",
                  credential |-> r.credential, mutation |-> None]
           /\ fail_exchange(r) =
                 [revision |-> r.revision + 1, fence |-> r.fence + 1, status |-> "REAUTHORIZATION_REQUIRED",
                  credential |-> r.credential, mutation |-> None]
           /\ replace_credential(r) =
                 [revision |-> r.revision + 1, fence |-> r.fence + 1, status |-> "READY",
                  credential |-> [id |-> Replaced, fence |-> r.fence + 1], mutation |-> None]
           /\ RevokeConnection(r) =
                 [revision |-> r.revision + 1, fence |-> r.fence + 1, status |-> "REVOKED",
                  credential |-> None, mutation |-> None]
<1>2. ASSUME NEW result
      PROVE  publish_result(r, result) =
                [revision |-> r.revision + 1, fence |-> r.fence, status |-> "READY",
                 credential |-> result, mutation |-> None]
  <2> DEFINE q1 == [r EXCEPT !.revision = r.revision + 1]
             q2 == [q1 EXCEPT !.status = "READY"]
             q3 == [q2 EXCEPT !.credential = result]
  <2>1. publish_result(r, result) = [q3 EXCEPT !.mutation = None]
    BY DEF publish_result
  <2>2. q1 = [revision |-> r.revision + 1, fence |-> r.fence, status |-> r.status,
              credential |-> r.credential, mutation |-> r.mutation]
    OBVIOUS
  <2> HIDE DEF q1
  <2>3. q2 = [revision |-> r.revision + 1, fence |-> r.fence, status |-> "READY",
              credential |-> r.credential, mutation |-> r.mutation]
    BY <2>2
  <2> HIDE DEF q2
  <2>4. q3 = [revision |-> r.revision + 1, fence |-> r.fence, status |-> "READY",
              credential |-> result, mutation |-> r.mutation]
    BY <2>3
  <2> HIDE DEF q3
  <2>5. [q3 EXCEPT !.mutation = None] =
           [revision |-> r.revision + 1, fence |-> r.fence, status |-> "READY",
            credential |-> result, mutation |-> None]
    BY <2>4
  <2> QED BY <2>1, <2>5
<1>3. restore_refresh(r) =
         [revision |-> r.revision + 1, fence |-> r.fence + 1, status |-> "READY",
          credential |-> r.credential, mutation |-> None]
  <2> DEFINE q1 == [r EXCEPT !.revision = r.revision + 1]
             q2 == [q1 EXCEPT !.fence = r.fence + 1]
             q3 == [q2 EXCEPT !.status = "READY"]
  <2>1. restore_refresh(r) = [q3 EXCEPT !.mutation = None]
    BY DEF restore_refresh
  <2>2. q1 = [revision |-> r.revision + 1, fence |-> r.fence, status |-> r.status,
              credential |-> r.credential, mutation |-> r.mutation]
    OBVIOUS
  <2> HIDE DEF q1
  <2>3. q2 = [revision |-> r.revision + 1, fence |-> r.fence + 1, status |-> r.status,
              credential |-> r.credential, mutation |-> r.mutation]
    BY <2>2
  <2> HIDE DEF q2
  <2>4. q3 = [revision |-> r.revision + 1, fence |-> r.fence + 1, status |-> "READY",
              credential |-> r.credential, mutation |-> r.mutation]
    BY <2>3
  <2> HIDE DEF q3
  <2>5. [q3 EXCEPT !.mutation = None] =
           [revision |-> r.revision + 1, fence |-> r.fence + 1, status |-> "READY",
            credential |-> r.credential, mutation |-> None]
    BY <2>4
  <2> QED BY <2>1, <2>5
<1>4. fail_exchange(r) =
         [revision |-> r.revision + 1, fence |-> r.fence + 1, status |-> "REAUTHORIZATION_REQUIRED",
          credential |-> r.credential, mutation |-> None]
  <2> DEFINE q1 == [r EXCEPT !.revision = r.revision + 1]
             q2 == [q1 EXCEPT !.fence = r.fence + 1]
             q3 == [q2 EXCEPT !.status = "REAUTHORIZATION_REQUIRED"]
  <2>1. fail_exchange(r) = [q3 EXCEPT !.mutation = None]
    BY DEF fail_exchange
  <2>2. q1 = [revision |-> r.revision + 1, fence |-> r.fence, status |-> r.status,
              credential |-> r.credential, mutation |-> r.mutation]
    OBVIOUS
  <2> HIDE DEF q1
  <2>3. q2 = [revision |-> r.revision + 1, fence |-> r.fence + 1, status |-> r.status,
              credential |-> r.credential, mutation |-> r.mutation]
    BY <2>2
  <2> HIDE DEF q2
  <2>4. q3 = [revision |-> r.revision + 1, fence |-> r.fence + 1, status |-> "REAUTHORIZATION_REQUIRED",
              credential |-> r.credential, mutation |-> r.mutation]
    BY <2>3
  <2> HIDE DEF q3
  <2>5. [q3 EXCEPT !.mutation = None] =
           [revision |-> r.revision + 1, fence |-> r.fence + 1, status |-> "REAUTHORIZATION_REQUIRED",
            credential |-> r.credential, mutation |-> None]
    BY <2>4
  <2> QED BY <2>1, <2>5
<1>5. replace_credential(r) =
         [revision |-> r.revision + 1, fence |-> r.fence + 1, status |-> "READY",
          credential |-> [id |-> Replaced, fence |-> r.fence + 1], mutation |-> None]
  <2> DEFINE q1 == [r EXCEPT !.revision = r.revision + 1]
             q2 == [q1 EXCEPT !.fence = r.fence + 1]
             q3 == [q2 EXCEPT !.status = "READY"]
             q4 == [q3 EXCEPT !.credential = [id |-> Replaced, fence |-> r.fence + 1]]
  <2>1. replace_credential(r) = [q4 EXCEPT !.mutation = None]
    BY DEF replace_credential
  <2>2. q1 = [revision |-> r.revision + 1, fence |-> r.fence, status |-> r.status,
              credential |-> r.credential, mutation |-> r.mutation]
    OBVIOUS
  <2> HIDE DEF q1
  <2>3. q2 = [revision |-> r.revision + 1, fence |-> r.fence + 1, status |-> r.status,
              credential |-> r.credential, mutation |-> r.mutation]
    BY <2>2
  <2> HIDE DEF q2
  <2>4. q3 = [revision |-> r.revision + 1, fence |-> r.fence + 1, status |-> "READY",
              credential |-> r.credential, mutation |-> r.mutation]
    BY <2>3
  <2> HIDE DEF q3
  <2>5. q4 = [revision |-> r.revision + 1, fence |-> r.fence + 1, status |-> "READY",
              credential |-> [id |-> Replaced, fence |-> r.fence + 1], mutation |-> r.mutation]
    BY <2>4
  <2> HIDE DEF q4
  <2>6. [q4 EXCEPT !.mutation = None] =
           [revision |-> r.revision + 1, fence |-> r.fence + 1, status |-> "READY",
            credential |-> [id |-> Replaced, fence |-> r.fence + 1], mutation |-> None]
    BY <2>5
  <2> QED BY <2>1, <2>6
<1>6. RevokeConnection(r) =
         [revision |-> r.revision + 1, fence |-> r.fence + 1, status |-> "REVOKED",
          credential |-> None, mutation |-> None]
  <2> DEFINE q1 == [r EXCEPT !.revision = r.revision + 1]
             q2 == [q1 EXCEPT !.fence = r.fence + 1]
             q3 == [q2 EXCEPT !.status = "REVOKED"]
             q4 == [q3 EXCEPT !.credential = None]
  <2>1. RevokeConnection(r) = [q4 EXCEPT !.mutation = None]
    BY DEF RevokeConnection
  <2>2. q1 = [revision |-> r.revision + 1, fence |-> r.fence, status |-> r.status,
              credential |-> r.credential, mutation |-> r.mutation]
    OBVIOUS
  <2> HIDE DEF q1
  <2>3. q2 = [revision |-> r.revision + 1, fence |-> r.fence + 1, status |-> r.status,
              credential |-> r.credential, mutation |-> r.mutation]
    BY <2>2
  <2> HIDE DEF q2
  <2>4. q3 = [revision |-> r.revision + 1, fence |-> r.fence + 1, status |-> "REVOKED",
              credential |-> r.credential, mutation |-> r.mutation]
    BY <2>3
  <2> HIDE DEF q3
  <2>5. q4 = [revision |-> r.revision + 1, fence |-> r.fence + 1, status |-> "REVOKED",
              credential |-> None, mutation |-> r.mutation]
    BY <2>4
  <2> HIDE DEF q4
  <2>6. [q4 EXCEPT !.mutation = None] =
           [revision |-> r.revision + 1, fence |-> r.fence + 1, status |-> "REVOKED",
            credential |-> None, mutation |-> None]
    BY <2>5
  <2> QED BY <2>1, <2>6
<1> QED BY <1>2, <1>3, <1>4, <1>5, <1>6

\* What each operation of _write_head writes is a record that _read_record accepts, and
\* moves revision, fence and credential as the operation may.
LEMMA NewRecordInOrder ==
    ASSUME Inv, NEW c \in Callers, caller[c].pc \in {"write", "observe"}
    PROVE  /\ WellFormed(NewRecord(c))
           /\ Follows(caller[c].base, NewRecord(c))
           /\ caller[c].op \in {"refresh", "authorize"} =>
                 /\ NewRecord(c).mutation # None
                 /\ NewRecord(c).mutation.id = caller[c].admission.id
                 /\ NewRecord(c).mutation.invocation = caller[c].invocation
                 /\ NewRecord(c).mutation.deadline = caller[c].admission.deadline
                 /\ NewRecord(c).fence = caller[c].admission.fence
                 /\ NewRecord(c).status = caller[c].admission.kind
           /\ Restores(caller[c].base, NewRecord(c)) => caller[c].op = "restore"
<1> DEFINE k == caller[c]
           r == IF k.base = Absent THEN NewConnection ELSE k.base
<1>1. /\ k \in CallerStates
      /\ k.base # Absent => WellFormed(k.base)
      /\ \/ IsAdmission(c)
         \/ IsCompletion(k)
         \/ k.op = "replace"
         \/ k.op = "revoke" /\ k.base # Absent
  BY DEF Inv, CallerInOrder, TypeOK
<1>2. /\ k.admission \in Admissions
      /\ r.revision \in Nat /\ r.fence \in Nat
      /\ r = [revision |-> r.revision, fence |-> r.fence, status |-> r.status,
              credential |-> r.credential, mutation |-> r.mutation]
      /\ r.revision = Revision(k.base) /\ r.fence = Fence(k.base) /\ r.credential = Credential(k.base)
      /\ r.credential \in ResultRefs \union {None}
      /\ r.credential # None => r.credential.fence <= r.fence
  BY <1>1 DEF CallerStates, WellFormed, Records, NewConnection, Revision, Fence, Credential
<1> HIDE DEF r
<1>3. ASSUME IsAdmission(c)
      PROVE  /\ NewRecord(c) = [revision |-> Revision(k.base) + 1, fence |-> Fence(k.base) + 1,
                   status |-> k.admission.kind, credential |-> Credential(k.base),
                   mutation |-> [kind |-> k.admission.kind, invocation |-> k.invocation,
                      id |-> k.admission.id, fence |-> Fence(k.base) + 1,
                      baseRevision |-> Revision(k.base), deadline |-> k.admission.deadline]]
             /\ NewRecord(c).mutation \in Mutations
             /\ NewRecord(c).status \in {"REFRESHING", "AUTHORIZING"}
  <2>1. CASE k.op = "refresh"
    <3>1. NewRecord(c) = Admitted(r, "REFRESHING", k.admission, k.invocation)
      BY <2>1 DEF NewRecord, r
    <3>2. k.admission.kind = "REFRESHING" /\ k.admission.id \in Attempts /\ k.invocation \in Invocations
      BY <1>3, <2>1 DEF IsAdmission, Attempts
    <3>3. NewRecord(c) = [revision |-> Revision(k.base) + 1, fence |-> Fence(k.base) + 1,
             status |-> "REFRESHING", credential |-> Credential(k.base),
             mutation |-> [kind |-> "REFRESHING", invocation |-> k.invocation,
                id |-> k.admission.id, fence |-> Fence(k.base) + 1,
                baseRevision |-> Revision(k.base), deadline |-> k.admission.deadline]]
      <4>1. NewRecord(c) = [revision |-> r.revision + 1, fence |-> r.fence + 1,
               status |-> "REFRESHING", credential |-> r.credential,
               mutation |-> [kind |-> "REFRESHING", invocation |-> k.invocation,
                  id |-> k.admission.id, fence |-> r.fence + 1,
                  baseRevision |-> r.revision, deadline |-> k.admission.deadline]]
        BY <1>2, <3>1, AdmittedFields
      <4> QED BY <1>2, <4>1
    <3> QED BY <1>2, <3>2, <3>3 DEF Mutations, Admissions
  <2>2. CASE k.op = "authorize"
    <3>1. NewRecord(c) = Admitted(r, "AUTHORIZING", k.admission, k.invocation)
      BY <2>2 DEF NewRecord, r
    <3>2. k.admission.kind = "AUTHORIZING" /\ k.admission.id \in Attempts /\ k.invocation \in Invocations
      BY <1>3, <2>2 DEF IsAdmission, Attempts
    <3>3. NewRecord(c) = [revision |-> Revision(k.base) + 1, fence |-> Fence(k.base) + 1,
             status |-> "AUTHORIZING", credential |-> Credential(k.base),
             mutation |-> [kind |-> "AUTHORIZING", invocation |-> k.invocation,
                id |-> k.admission.id, fence |-> Fence(k.base) + 1,
                baseRevision |-> Revision(k.base), deadline |-> k.admission.deadline]]
      <4>1. NewRecord(c) = [revision |-> r.revision + 1, fence |-> r.fence + 1,
               status |-> "AUTHORIZING", credential |-> r.credential,
               mutation |-> [kind |-> "AUTHORIZING", invocation |-> k.invocation,
                  id |-> k.admission.id, fence |-> r.fence + 1,
                  baseRevision |-> r.revision, deadline |-> k.admission.deadline]]
        BY <1>2, <3>1, AdmittedFields
      <4> QED BY <1>2, <4>1
    <3> QED BY <1>2, <3>2, <3>3 DEF Mutations, Admissions
  <2> QED BY <1>3, <2>1, <2>2 DEF IsAdmission
<1>4. CASE IsAdmission(c)
  <2>1. Revision(k.base) \in Nat /\ Fence(k.base) \in Nat /\ Credential(k.base) \in ResultRefs \union {None}
    BY <1>1 DEF Revision, Fence, Credential, WellFormed, Records
  <2>2. /\ Credential(k.base) # None => Credential(k.base).fence <= Fence(k.base)
        /\ k.admission.kind = "REFRESHING" =>
              /\ Credential(k.base) # None /\ k.base # Absent /\ k.base.status = "READY"
              /\ k.admission.id = k.invocation
    BY <1>1, <1>4 DEF IsAdmission, WellFormed, Credential, Fence
  <2>3. WellFormed(NewRecord(c))
    BY <1>3, <1>4, <2>1, <2>2, DistinctAssumption DEF WellFormed, Records, Statuses, ResultRefs
  <2>4. Follows(k.base, NewRecord(c))
    BY <1>3, <1>4, <2>1, <2>2 DEF Follows
  <2>5. NewRecord(c).mutation # None /\ k.admission.fence = Fence(k.base) + 1
    BY <1>3, <1>4, DistinctAssumption DEF IsAdmission
  <2>6. ~Restores(k.base, NewRecord(c))
    BY <1>3, <1>4 DEF Restores
  <2> QED BY <1>3, <1>4, <2>3, <2>4, <2>5, <2>6
<1>5. CASE k.op = "publish" /\ IsCompletion(k)
  <2>1. NewRecord(c) = publish_result(r, Result(k.admission)) /\ r = k.base
    BY <1>5 DEF NewRecord, IsCompletion, r
  <2>2. /\ k.admission.id \in Attempts
        /\ Result(k.admission) \in ResultRefs
    BY <1>1, <1>2, <1>5 DEF IsCompletion, Result, ResultRefs, WellFormed, Records, Mutations, Admissions
  <2>3. NewRecord(c) = [revision |-> Revision(k.base) + 1, fence |-> Fence(k.base),
          status |-> "READY", credential |-> Result(k.admission), mutation |-> None]
    BY <1>2, <2>1, WrittenFields
  <2>4. ~Restores(k.base, NewRecord(c))
    BY <1>1, <1>5, <2>3 DEF Restores, IsCompletion, WellFormed, Result, Records, ResultRefs
  <2> QED BY <1>1, <1>2, <1>5, <2>1, <2>2, <2>3, <2>4, DistinctAssumption
          DEF WellFormed, Follows, Records, Statuses, IsCompletion, Fence, Revision, Result
<1>6. CASE k.op = "restore" /\ IsCompletion(k)
  <2>1. NewRecord(c) = restore_refresh(r) /\ r = k.base
    BY <1>6 DEF NewRecord, IsCompletion, r
  <2>2. NewRecord(c) = [revision |-> Revision(k.base) + 1, fence |-> Fence(k.base) + 1,
          status |-> "READY", credential |-> Credential(k.base), mutation |-> None]
    BY <1>2, <2>1, WrittenFields
  <2> QED BY <1>1, <1>2, <1>6, <2>1, <2>2
          DEF WellFormed, Follows, Records, Statuses, ResultRefs, IsCompletion, Fence, Revision, Credential
<1>7. CASE k.op = "fail"
  <2>1. NewRecord(c) = fail_exchange(r)
    BY <1>7 DEF NewRecord, r
  <2>2. NewRecord(c) = [revision |-> Revision(k.base) + 1, fence |-> Fence(k.base) + 1,
          status |-> "REAUTHORIZATION_REQUIRED", credential |-> Credential(k.base), mutation |-> None]
    BY <1>2, <2>1, WrittenFields
  <2> QED BY <1>2, <1>7, <2>2 DEF Restores, WellFormed, Follows, Records, Statuses, ResultRefs
<1>8. CASE k.op = "replace"
  <2>1. NewRecord(c) = replace_credential(r)
    BY <1>8 DEF NewRecord, r
  <2>2. NewRecord(c) = [revision |-> Revision(k.base) + 1, fence |-> Fence(k.base) + 1,
          status |-> "READY", credential |-> [id |-> Replaced, fence |-> Fence(k.base) + 1],
          mutation |-> None]
    BY <1>2, <2>1, WrittenFields
  <2>3. [id |-> Replaced, fence |-> Fence(k.base) + 1] \in ResultRefs
    BY <1>2 DEF ResultRefs
  <2>4. ~Restores(k.base, NewRecord(c))
    BY <1>1, <1>2, <2>2 DEF Restores, WellFormed, Records, ResultRefs, Fence
  <2> QED BY <1>2, <1>8, <2>2, <2>3, <2>4, DistinctAssumption DEF WellFormed, Follows, Records, Statuses
<1>9. CASE k.op = "revoke"
  <2>1. NewRecord(c) = RevokeConnection(r)
    BY <1>9 DEF NewRecord, r
  <2>2. NewRecord(c) = [revision |-> Revision(k.base) + 1, fence |-> Fence(k.base) + 1,
          status |-> "REVOKED", credential |-> None, mutation |-> None]
    BY <1>2, <2>1, WrittenFields
  <2> QED BY <1>2, <1>9, <2>2 DEF Restores, WellFormed, Follows, Records, Statuses
<1> QED BY <1>1, <1>4, <1>5, <1>6, <1>7, <1>8, <1>9 DEF IsCompletion

\* The first state, with no record and every caller idle, satisfies the invariant.
LEMMA InvInit == ASSUME Init PROVE Inv
<1>1. Idle \in CallerStates /\ calls = [c \in Callers |-> 0] /\ object = Absent /\ late = {}
  BY DEF Init, StoreInit, Idle, CallerStates, NoAdmission, Phases, Operations, Admissions
<1>2. TypeOK
  BY <1>1, ExchangeAssumption DEF Init, TypeOK
<1>3. \A c \in Callers : CallerInOrder(c)
  BY <1>1 DEF Init, CallerInOrder, Idle
<1> QED BY <1>1, <1>2, <1>3 DEF Inv, LateInOrder

\* What a step may do to the head: nothing, or apply the write of a caller at write, or
\* a late one (_write_head).
Applies(e, n) ==
    /\ object = e
    /\ object' = n
    /\ WellFormed(n)
    /\ Follows(e, n)

\* The stored record changes only by a write a caller has under way or by a late one.
LEMMA StoreStep ==
    ASSUME Inv, [Next]_vars
    PROVE  \/ UNCHANGED storeVars
           \/ \E c \in Callers : /\ caller[c].pc = "write"
                                 /\ \/ WriteAccepted(caller[c].base, NewRecord(c))
                                    \/ WriteUnknown(caller[c].base, NewRecord(c))
           \/ LateWriteArrives
<1>1. ASSUME NEW c \in Callers, CallerStep(c)
      PROVE  \/ UNCHANGED storeVars
             \/ /\ caller[c].pc = "write"
                /\ \/ WriteAccepted(caller[c].base, NewRecord(c))
                   \/ WriteUnknown(caller[c].base, NewRecord(c))
  <2>1. CASE WriteStep(c)
    BY <2>1 DEF WriteStep, WriteSucceeds, WriteConflicts, WriteOutcomeUnknown, ObserveOwnWrite, WriteRefused
  <2>2. CASE ExchangeStep(c)
    BY <2>2 DEF ExchangeStep, Dispatch, ProviderAnswers, ReadAdmitted, CreateResult, CreateResultUnknown, storeVars
  <2>3. CASE RecoveryStep(c)
    BY <2>3 DEF RecoveryStep, BeginRecovery, RecoverResult, FindNoResult, CheckDeadline
  <2>4. CASE BeginRefresh(c) \/ BeginReplace(c) \/ BeginRevoke(c) \/ Abandon(c)
    BY <2>4 DEF BeginRefresh, BeginReplace, BeginRevoke, Begins, Abandon, storeVars
  <2>5. CASE \E a \in Authorizations : BeginAuthorization(c, a)
    BY <2>5 DEF BeginAuthorization, Begins, storeVars
  <2> QED BY <1>1, <2>1, <2>2, <2>3, <2>4, <2>5 DEF CallerStep
<1>2. CASE \E a \in Authorizations : PersistAuthorization(a)
  BY <1>2 DEF PersistAuthorization, storeVars
<1>3. CASE HeadWriteArrives
  BY <1>3 DEF HeadWriteArrives
<1>4. CASE ResultArrives \/ Tick \/ UNCHANGED vars
  BY <1>4 DEF ResultArrives, Tick, vars, storeVars
<1> QED BY <1>1, <1>2, <1>3, <1>4 DEF Next

\* The head and the late writes stay in order, and the head changes only by a write that
\* follows it.
LEMMA HeadStep ==
    ASSUME Inv, [Next]_vars
    PROVE  /\ object' # Absent => WellFormed(object')
           /\ object' \in Records \union {Absent}
           /\ LateInOrder'
           /\ late' \subseteq [expected : Records \union {Absent}, contents : Records]
           /\ object' = object \/ (Follows(object, object') /\ WellFormed(object'))
           /\ object # Absent => object' # Absent
<1>0. TypeOK /\ LateInOrder /\ (object # Absent => WellFormed(object)) /\ \A c \in Callers : CallerInOrder(c)
  BY DEF Inv
<1>1. CASE UNCHANGED storeVars
  BY <1>0, <1>1 DEF storeVars, TypeOK, LateInOrder
<1>2. ASSUME NEW c \in Callers, caller[c].pc = "write", WriteAccepted(caller[c].base, NewRecord(c))
      PROVE  /\ WellFormed(object')
             /\ Follows(object, object')
             /\ LateInOrder'
             /\ late' = late
  <2>1. WellFormed(NewRecord(c)) /\ Follows(caller[c].base, NewRecord(c))
    BY <1>2, NewRecordInOrder
  <2> QED BY <1>0, <1>2, <2>1 DEF WriteAccepted, LateInOrder
<1>3. ASSUME NEW c \in Callers, caller[c].pc = "write",
             late' = late \union {[expected |-> caller[c].base, contents |-> NewRecord(c)]},
             UNCHANGED object
      PROVE  LateInOrder' /\ late' \subseteq [expected : Records \union {Absent}, contents : Records]
  <2>1. /\ WellFormed(NewRecord(c)) /\ Follows(caller[c].base, NewRecord(c))
        /\ caller[c].base # Absent => WellFormed(caller[c].base)
    BY <1>0, <1>3, NewRecordInOrder DEF CallerInOrder
  <2>2. LateInOrder'
    BY <1>0, <1>3, <2>1 DEF LateInOrder
  <2>3. caller[c].base \in Records \union {Absent} /\ NewRecord(c) \in Records
    BY <2>1 DEF WellFormed
  <2> QED BY <1>0, <1>3, <2>2, <2>3 DEF TypeOK
<1>4. CASE LateWriteArrives
  <2> PICK w \in late : /\ late' = late \ {w}
                        /\ object' = IF object = w.expected THEN w.contents ELSE object
    BY <1>4 DEF LateWriteArrives
  <2>1. WellFormed(w.contents) /\ Follows(w.expected, w.contents)
    BY <1>0 DEF LateInOrder
  <2>2. LateInOrder' /\ late' \subseteq [expected : Records \union {Absent}, contents : Records]
    BY <1>0 DEF LateInOrder, TypeOK
  <2>3. CASE object = w.expected
    BY <2>1, <2>2, <2>3, DistinctAssumption DEF WellFormed
  <2>4. CASE object # w.expected
    BY <1>0, <2>2, <2>4 DEF TypeOK
  <2> QED BY <2>3, <2>4
<1>5. ASSUME NEW c \in Callers, caller[c].pc = "write", WriteUnknown(caller[c].base, NewRecord(c))
      PROVE  \/ UNCHANGED storeVars
             \/ WriteAccepted(caller[c].base, NewRecord(c))
             \/ /\ late' = late \union {[expected |-> caller[c].base, contents |-> NewRecord(c)]}
                /\ UNCHANGED object
  BY <1>5 DEF WriteUnknown
<1>6. ASSUME WellFormed(object') PROVE object' \in Records /\ object' # Absent
  BY <1>6, DistinctAssumption DEF WellFormed
<1>7. ASSUME NEW c \in Callers, caller[c].pc = "write",
             \/ WriteAccepted(caller[c].base, NewRecord(c))
             \/ WriteUnknown(caller[c].base, NewRecord(c))
      PROVE  \/ UNCHANGED storeVars
             \/ WellFormed(object') /\ Follows(object, object') /\ LateInOrder' /\ late' = late
             \/ /\ LateInOrder' /\ late' \subseteq [expected : Records \union {Absent}, contents : Records]
                /\ object' = object
  BY <1>2, <1>3, <1>5, <1>7
<1>8. CASE \E c \in Callers : /\ caller[c].pc = "write"
                              /\ \/ WriteAccepted(caller[c].base, NewRecord(c))
                                 \/ WriteUnknown(caller[c].base, NewRecord(c))
  BY <1>0, <1>1, <1>6, <1>7, <1>8 DEF TypeOK
<1> QED BY <1>1, <1>4, <1>8, StoreStep

\* A step of caller c changes the state of no other caller.
IsStepOf(c) ==
    /\ \E k \in CallerStates : caller' = [caller EXCEPT ![c] = k]
    /\ \/ calls' = calls
       \/ calls[c] < MaxCalls /\ calls' = [calls EXCEPT ![c] = @ + 1]
    /\ authorization' = authorization

\* A step of one caller leaves every other caller as it was.
LEMMA OthersKeep ==
    ASSUME TypeOK, NEW c \in Callers, IsStepOf(c)
    PROVE  /\ caller' \in [Callers -> CallerStates]
           /\ calls' \in [Callers -> 0 .. MaxCalls]
           /\ \A d \in Callers \ {c} : caller'[d] = caller[d] /\ calls'[d] = calls[d]
<1>1. caller' \in [Callers -> CallerStates] /\ \A d \in Callers \ {c} : caller'[d] = caller[d]
  BY DEF IsStepOf, TypeOK
<1>2. calls' \in [Callers -> 0 .. MaxCalls] /\ \A d \in Callers \ {c} : calls'[d] = calls[d]
  BY ExchangeAssumption DEF IsStepOf, TypeOK
<1> QED BY <1>1, <1>2

\* So when the caller that moved is in order afterwards, all callers are.
LEMMA OthersInOrder ==
    ASSUME Inv, NEW c \in Callers, IsStepOf(c), CallerInOrder(c)'
    PROVE  \A d \in Callers : CallerInOrder(d)'
<1>1. TypeOK /\ authorization' = authorization /\ \A d \in Callers : CallerInOrder(d)
  BY DEF Inv, IsStepOf
<1> SUFFICES ASSUME NEW d \in Callers \ {c} PROVE CallerInOrder(d)'
  OBVIOUS
<1>2. caller'[d] = caller[d] /\ calls'[d] = calls[d]
  BY <1>1, OthersKeep
<1>3. IsAdmission(d) => IsAdmission(d)'
  BY <1>1, <1>2 DEF IsAdmission
<1> QED BY <1>1, <1>2, <1>3 DEF CallerInOrder

\* Beginning a mutation holds the head that was read.
LEMMA BeginsInOrder ==
    ASSUME Inv, NEW c \in Callers, NEW op \in {"refresh", "authorize", "replace", "revoke"},
           NEW admission \in Admissions, Begins(c, op, admission),
           op = "revoke" => object # Absent,
           op = "refresh" => /\ object # Absent /\ object.status = "READY"
                             /\ admission.kind = "REFRESHING" /\ admission.id = FreshID(c),
           op = "authorize" => /\ admission.kind = "AUTHORIZING" /\ admission.id \in Authorizations
                               /\ authorization[admission.id] # None
                               /\ authorization[admission.id].revision = Revision(object),
           op \in {"refresh", "authorize"} => admission.fence = Fence(object) + 1
    PROVE  IsStepOf(c) /\ CallerInOrder(c)'
<1> DEFINE k == [pc |-> "write", op |-> op, base |-> object, admission |-> admission,
                 invocation |-> FreshID(c), since |-> 0]
<1>1. TypeOK /\ (object # Absent => WellFormed(object))
  BY DEF Inv
<1>2. FreshID(c) \in Invocations /\ calls[c] \in Nat
  BY <1>1, ExchangeAssumption DEF FreshID, Begins, TypeOK, Invocations
<1>3. now \in Nat
  BY <1>1, ExchangeAssumption DEF TypeOK
<1>4. k \in CallerStates
  BY <1>1, <1>2, <1>3 DEF CallerStates, Phases, Operations, TypeOK
<1>5. IsStepOf(c)
  BY <1>4 DEF Begins, IsStepOf
<1>6. caller'[c] = k /\ calls'[c] = calls[c] + 1 /\ authorization' = authorization
  BY <1>1 DEF Begins, TypeOK
<1>7. op \in {"refresh", "authorize"} => IsAdmission(c)'
  BY <1>2, <1>6 DEF IsAdmission, FreshID
<1>8. CallerInOrder(c)'
  BY <1>1, <1>6, <1>7 DEF CallerInOrder
<1> QED BY <1>5, <1>8

\* A caller that ends its call holds nothing that could be out of order.
LEMMA IdleInOrder ==
    ASSUME Inv, NEW c \in Callers, caller' = [caller EXCEPT ![c] = Idle],
           UNCHANGED <<calls, authorization>>
    PROVE  IsStepOf(c) /\ CallerInOrder(c)'
<1>1. Idle \in CallerStates
  BY DEF Idle, CallerStates, NoAdmission, Phases, Operations, Admissions
<1>2. caller'[c] = Idle
  BY DEF Inv, TypeOK
<1>3. CallerInOrder(c)'
  BY <1>2 DEF CallerInOrder, Idle
<1> QED BY <1>1, <1>3 DEF IsStepOf

\* A caller that moves on with the same admission and the same record.
LEMMA MovesInOrder ==
    ASSUME Inv, NEW c \in Callers, NEW label \in Phases,
           caller' = [caller EXCEPT ![c] = [caller[c] EXCEPT !.pc = label]],
           UNCHANGED <<calls, authorization>>,
           label \in {"write", "observe"} => caller[c].pc \in {"write", "observe"},
           label \in {"admitted", "provider"} => IsAdmission(c),
           label \in {"create", "publish", "fail", "restore", "recover", "expiry"} =>
              caller[c].admission.kind # "none" /\ caller[c].admission.id \in Attempts,
           label = "restore" => caller[c].admission.kind = "REFRESHING"
    PROVE  /\ IsStepOf(c)
           /\ CallerInOrder(c)'
           /\ caller'[c] = [pc |-> label, op |-> caller[c].op, base |-> caller[c].base,
                 admission |-> caller[c].admission, invocation |-> caller[c].invocation,
                 since |-> caller[c].since]
<1>1. caller \in [Callers -> CallerStates] /\ CallerInOrder(c)
  BY DEF Inv, TypeOK
<1> DEFINE k == [pc |-> label, op |-> caller[c].op, base |-> caller[c].base,
                 admission |-> caller[c].admission, invocation |-> caller[c].invocation,
                 since |-> caller[c].since]
<1>2. [caller[c] EXCEPT !.pc = label] = k /\ k \in CallerStates
  BY <1>1 DEF CallerStates
<1>3. caller'[c] = k
  BY <1>1, <1>2
<1>4. IsStepOf(c)
  BY <1>2 DEF IsStepOf
<1>5. IsAdmission(c) => IsAdmission(c)'
  BY <1>3 DEF IsAdmission
<1>6. IsCompletion(caller[c]) => IsCompletion(caller'[c])
  BY <1>3 DEF IsCompletion
<1>7. CallerInOrder(c)'
  BY <1>1, <1>3, <1>5, <1>6 DEF CallerInOrder
<1> QED BY <1>3, <1>4, <1>7

\* Writing a record, and settling a write of unknown outcome, keep the caller in order.
LEMMA WriteStepInOrder ==
    ASSUME Inv, NEW c \in Callers, WriteStep(c)
    PROVE  IsStepOf(c) /\ CallerInOrder(c)'
<1>1. caller[c].pc \in {"write", "observe"} /\ UNCHANGED <<calls, authorization>>
  BY DEF WriteStep, WriteSucceeds, WriteConflicts, WriteOutcomeUnknown, ObserveOwnWrite, Continues, Returns
<1>2. CASE caller' = [caller EXCEPT ![c] = Idle]
  BY <1>1, <1>2, IdleInOrder
<1>3. CASE caller' = [caller EXCEPT ![c] = [caller[c] EXCEPT !.pc = "observe"]]
  BY <1>1, <1>3, MovesInOrder DEF Phases
<1>4. CASE caller' = [caller EXCEPT ![c] = AfterWrite(c)]
  <2>1. CASE caller[c].op \in {"refresh", "authorize"}
    <3>1. IsAdmission(c)
      BY <1>1, <2>1 DEF Inv, CallerInOrder, IsCompletion
    <3> QED BY <1>1, <1>4, <2>1, <3>1, MovesInOrder DEF AfterWrite, Phases
  <2>2. CASE caller[c].op \notin {"refresh", "authorize"}
    BY <1>1, <1>4, <2>2, IdleInOrder DEF AfterWrite
  <2> QED BY <2>1, <2>2
<1> QED BY <1>2, <1>3, <1>4
        DEF WriteStep, WriteSucceeds, WriteConflicts, WriteOutcomeUnknown, ObserveOwnWrite, Continues, Returns

\* Recovering what another caller was admitted for keeps the recovering caller in order.
LEMMA RecoveryStepInOrder ==
    ASSUME Inv, NEW c \in Callers, RecoveryStep(c)
    PROVE  IsStepOf(c) /\ CallerInOrder(c)'
<1>0. UNCHANGED <<calls, authorization>> /\ CallerInOrder(c) /\ caller \in [Callers -> CallerStates]
  BY DEF RecoveryStep, BeginRecovery, RecoverResult, FindNoResult, CheckDeadline, Continues, Returns, Inv, TypeOK
<1>1. CASE BeginRecovery(c)
  <2> DEFINE admission == [kind |-> object.status, id |-> object.mutation.id,
                           fence |-> object.fence, deadline |-> object.mutation.deadline]
             k == [pc |-> "recover", op |-> "none", base |-> Absent, admission |-> admission,
                   invocation |-> None, since |-> 0]
             q == [Idle EXCEPT !.pc = "recover"]
  <2>1. WellFormed(object) /\ object.mutation # None
    BY <1>1 DEF BeginRecovery, Inv
  <2>2. admission \in Admissions /\ admission.id \in Attempts /\ admission.kind # "none"
    BY <2>1 DEF WellFormed, Records, Mutations, Admissions
  <2>3. k \in CallerStates
    BY <2>2 DEF CallerStates, Phases, Operations
  <2>4. caller' = [caller EXCEPT ![c] = [q EXCEPT !.admission = admission]]
    BY <1>1 DEF BeginRecovery, Continues
  <2>5. q = [pc |-> "recover", op |-> "none", base |-> Absent, admission |-> NoAdmission,
             invocation |-> None, since |-> 0]
    BY DEF Idle
  <2> HIDE DEF q, admission
  <2>6. [q EXCEPT !.admission = admission] = k
    BY <2>5
  <2>7. caller'[c] = k
    BY <1>0, <2>4, <2>6
  <2>8. CallerInOrder(c)'
    BY <2>2, <2>7 DEF CallerInOrder
  <2> QED BY <1>0, <2>3, <2>4, <2>6, <2>8 DEF IsStepOf
<1>2. CASE RecoverResult(c)
  BY <1>0, <1>2, MovesInOrder DEF RecoverResult, Continues, CallerInOrder, Phases
<1>3. CASE FindNoResult(c)
  BY <1>0, <1>3, MovesInOrder DEF FindNoResult, Continues, CallerInOrder, Phases
<1>4. CASE CheckDeadline(c)
  <2>1. caller[c].admission.kind \in {"none", "REFRESHING", "AUTHORIZING"}
    BY <1>0 DEF CallerStates, Admissions
  <2>2. CASE caller' = [caller EXCEPT ![c] = Idle]
    BY <1>0, <2>2, IdleInOrder
  <2>3. CASE /\ caller[c].admission.kind = "AUTHORIZING"
             /\ caller' = [caller EXCEPT ![c] = [caller[c] EXCEPT !.pc = "fail"]]
    BY <1>0, <1>4, <2>3, MovesInOrder DEF CheckDeadline, CallerInOrder, Phases
  <2>4. CASE /\ caller[c].admission.kind # "AUTHORIZING"
             /\ caller' = [caller EXCEPT ![c] = [caller[c] EXCEPT !.pc = "restore"]]
    BY <1>0, <1>4, <2>1, <2>4, MovesInOrder DEF CheckDeadline, CallerInOrder, Phases
  <2> QED BY <1>4, <2>2, <2>3, <2>4 DEF CheckDeadline, Continues, Returns
<1> QED BY <1>1, <1>2, <1>3, <1>4 DEF RecoveryStep

\* Asking the provider keeps the caller in order and leaves all but its position and clock.
LEMMA DispatchInOrder ==
    ASSUME Inv, NEW c \in Callers, Dispatch(c)
    PROVE  /\ IsStepOf(c)
           /\ CallerInOrder(c)'
           /\ caller'[c] = [pc |-> "provider", op |-> caller[c].op, base |-> caller[c].base,
                 admission |-> caller[c].admission, invocation |-> caller[c].invocation, since |-> now]
<1>0. /\ UNCHANGED <<calls, authorization>> /\ CallerInOrder(c) /\ IsAdmission(c)
      /\ caller \in [Callers -> CallerStates] /\ now \in Nat
  BY ExchangeAssumption DEF Dispatch, Inv, TypeOK, CallerInOrder
<1> DEFINE k == [pc |-> "provider", op |-> caller[c].op, base |-> caller[c].base,
                 admission |-> caller[c].admission, invocation |-> caller[c].invocation, since |-> now]
           q == [caller EXCEPT ![c].pc = "provider"]
           j == [pc |-> "provider", op |-> caller[c].op, base |-> caller[c].base,
                 admission |-> caller[c].admission, invocation |-> caller[c].invocation,
                 since |-> caller[c].since]
<1>1. caller' = [q EXCEPT ![c].since = now]
  BY DEF Dispatch
<1>2. j \in CallerStates /\ k \in CallerStates
  BY <1>0 DEF CallerStates, Phases
<1>3. q = [caller EXCEPT ![c] = j]
  <2>1. q = [caller EXCEPT ![c] = [caller[c] EXCEPT !.pc = "provider"]]
    BY <1>0
  <2>2. [caller[c] EXCEPT !.pc = "provider"] = j
    BY <1>0 DEF CallerStates
  <2> QED BY <2>1, <2>2
<1> HIDE DEF q
<1>4. q \in [Callers -> CallerStates] /\ q[c] = j
  BY <1>0, <1>2, <1>3
<1>5. [q EXCEPT ![c].since = now] = [q EXCEPT ![c] = k]
  <2>1. [q EXCEPT ![c].since = now] = [q EXCEPT ![c] = [q[c] EXCEPT !.since = now]]
    BY <1>4
  <2>2. [q[c] EXCEPT !.since = now] = k
    BY <1>4
  <2> QED BY <2>1, <2>2
<1> HIDE DEF j, k
<1>6. caller' = [caller EXCEPT ![c] = k]
  BY <1>0, <1>1, <1>2, <1>3, <1>4, <1>5
<1>7. caller'[c] = k
  BY <1>0, <1>6
<1>8. IsAdmission(c)'
  BY <1>0, <1>7 DEF IsAdmission, k
<1>9. CallerInOrder(c)'
  BY <1>0, <1>7, <1>8 DEF CallerInOrder, k
<1> QED BY <1>0, <1>2, <1>6, <1>7, <1>9 DEF IsStepOf, k

\* _publish_result and _finish_exchange hold the record in which they found the admission.
LEMMA ReadAdmittedInOrder ==
    ASSUME Inv, NEW c \in Callers, ReadAdmitted(c)
    PROVE  /\ IsStepOf(c)
           /\ CallerInOrder(c)'
           /\ \/ caller'[c] = Idle
              \/ /\ require_admission(caller[c].admission)
                 /\ caller'[c] = [pc |-> "write", op |-> caller[c].pc, base |-> object,
                       admission |-> caller[c].admission, invocation |-> caller[c].invocation,
                       since |-> caller[c].since]
<1>0. /\ UNCHANGED <<calls, authorization>> /\ CallerInOrder(c)
      /\ caller \in [Callers -> CallerStates] /\ object \in Records \union {Absent}
      /\ caller[c].pc \in {"publish", "fail", "restore"}
  BY DEF ReadAdmitted, Continues, Returns, Inv, TypeOK
<1>1. CASE caller' = [caller EXCEPT ![c] = Idle]
  BY <1>0, <1>1, IdleInOrder
<1>2. CASE /\ require_admission(caller[c].admission)
           /\ caller' = [caller EXCEPT ![c] =
                            [caller[c] EXCEPT !.base = object, !.op = caller[c].pc, !.pc = "write"]]
  <2> DEFINE k == [pc |-> "write", op |-> caller[c].pc, base |-> object,
                   admission |-> caller[c].admission, invocation |-> caller[c].invocation,
                   since |-> caller[c].since]
             q == [caller[c] EXCEPT !.base = object]
             t == [q EXCEPT !.op = caller[c].pc]
  <2>1. caller' = [caller EXCEPT ![c] = [t EXCEPT !.pc = "write"]]
    BY <1>2
  <2>2. q = [pc |-> caller[c].pc, op |-> caller[c].op, base |-> object,
             admission |-> caller[c].admission, invocation |-> caller[c].invocation,
             since |-> caller[c].since]
    BY <1>0 DEF CallerStates
  <2> HIDE DEF q
  <2>3. t = [pc |-> caller[c].pc, op |-> caller[c].pc, base |-> object,
             admission |-> caller[c].admission, invocation |-> caller[c].invocation,
             since |-> caller[c].since]
    BY <2>2
  <2> HIDE DEF t
  <2>4. [t EXCEPT !.pc = "write"] = k
    BY <2>3
  <2>5. k \in CallerStates
    BY <1>0 DEF CallerStates, Phases, Operations
  <2>6. caller'[c] = k
    BY <1>0, <2>1, <2>4
  <2>7. IsCompletion(k)
    BY <1>0, <1>2 DEF IsCompletion, require_admission, CallerInOrder
  <2>8. WellFormed(object)
    BY <1>2 DEF Inv, require_admission
  <2>9. CallerInOrder(c)'
    BY <2>6, <2>7, <2>8 DEF CallerInOrder
  <2> QED BY <1>0, <1>2, <2>1, <2>4, <2>5, <2>6, <2>9 DEF IsStepOf
<1>3. caller' = [caller EXCEPT ![c] = Idle] => caller'[c] = Idle
  BY <1>0
<1> QED BY <1>1, <1>2, <1>3 DEF ReadAdmitted, Continues, Returns

\* The steps from an admission to its commit, failure or abort keep the caller in order.
LEMMA ExchangeStepInOrder ==
    ASSUME Inv, NEW c \in Callers, ExchangeStep(c)
    PROVE  IsStepOf(c) /\ CallerInOrder(c)'
<1>0. UNCHANGED <<calls, authorization>> /\ CallerInOrder(c) /\ caller \in [Callers -> CallerStates]
  BY DEF ExchangeStep, Dispatch, ProviderAnswers, ReadAdmitted, CreateResult, CreateResultUnknown,
         Continues, Returns, Inv, TypeOK
<1>1. CASE Dispatch(c)
  BY <1>1, DispatchInOrder
<1>2. CASE ProviderAnswers(c)
  <2>1. IsAdmission(c)
    BY <1>0, <1>2 DEF ProviderAnswers, CallerInOrder
  <2>2. /\ caller[c].admission.kind # "none" /\ caller[c].admission.id \in Attempts
        /\ caller[c].op = "refresh" => caller[c].admission.kind = "REFRESHING"
    BY <2>1 DEF IsAdmission, Attempts
  <2>3. PICK next \in {"create", "fail"} \union (IF caller[c].op = "refresh" THEN {"restore"} ELSE {}) :
          caller' = [caller EXCEPT ![c] = [caller[c] EXCEPT !.pc = next]]
    BY <1>2 DEF ProviderAnswers, Continues
  <2> QED BY <1>0, <2>2, <2>3, MovesInOrder DEF Phases
<1>3. CASE ReadAdmitted(c)
  BY <1>3, ReadAdmittedInOrder
<1>4. CASE CreateResult(c)
  <2>1. caller' = [caller EXCEPT ![c] = [caller[c] EXCEPT !.pc = "publish"]]
    BY <1>0, <1>4 DEF CreateResult
  <2> QED BY <1>0, <1>4, <2>1, MovesInOrder DEF CreateResult, CallerInOrder, Phases
<1>5. CASE CreateResultUnknown(c)
  BY <1>0, <1>5, IdleInOrder DEF CreateResultUnknown
<1> QED BY <1>1, <1>2, <1>3, <1>4, <1>5 DEF ExchangeStep

\* Hence every step of a caller does.
LEMMA CallerStepInOrder ==
    ASSUME Inv, NEW c \in Callers, CallerStep(c)
    PROVE  IsStepOf(c) /\ CallerInOrder(c)'
<1>0. /\ TypeOK /\ (object # Absent => WellFormed(object)) /\ NoAdmission \in Admissions
      /\ now + RefreshWindow \in Nat /\ Fence(object) + 1 \in Nat
  BY ExchangeAssumption DEF Inv, TypeOK, NoAdmission, Admissions, Fence, WellFormed, Records
<1>1. CASE BeginRefresh(c)
  <2> DEFINE admission == [kind |-> "REFRESHING", id |-> FreshID(c),
                           fence |-> object.fence + 1, deadline |-> now + RefreshWindow]
  <2>1. FreshID(c) \in Attempts
    BY <1>0, <1>1, ExchangeAssumption DEF BeginRefresh, Begins, FreshID, Attempts, Invocations, TypeOK
  <2>2. admission \in Admissions /\ admission.fence = Fence(object) + 1
    BY <1>0, <1>1, <2>1 DEF BeginRefresh, Admissions, Fence
  <2>3. Begins(c, "refresh", admission) /\ object # Absent /\ object.status = "READY"
    BY <1>1 DEF BeginRefresh
  <2>4. admission.kind = "REFRESHING" /\ admission.id = FreshID(c)
    OBVIOUS
  <2> HIDE DEF admission
  <2> QED BY <2>2, <2>3, <2>4, BeginsInOrder
<1>2. ASSUME NEW a \in Authorizations, BeginAuthorization(c, a)
      PROVE  IsStepOf(c) /\ CallerInOrder(c)'
  <2> DEFINE record == IF object = Absent THEN NewConnection ELSE object
             admission == [kind |-> "AUTHORIZING", id |-> a, fence |-> record.fence + 1,
                           deadline |-> authorization[a].deadline]
  <2>1. authorization[a] # None /\ record.revision = authorization[a].revision /\ Begins(c, "authorize", admission)
    BY <1>2 DEF BeginAuthorization
  <2>2. record.revision = Revision(object) /\ record.fence = Fence(object)
    BY DEF NewConnection, Revision, Fence
  <2>3. authorization[a].deadline \in Nat
    BY <1>0, <2>1 DEF TypeOK
  <2>4. admission \in Admissions
    BY <1>0, <2>2, <2>3 DEF Admissions, Attempts
  <2>5. admission.kind = "AUTHORIZING" /\ admission.id = a /\ admission.fence = Fence(object) + 1
    BY <2>2
  <2> HIDE DEF admission
  <2> QED BY <2>1, <2>2, <2>4, <2>5, BeginsInOrder
<1>3. CASE BeginReplace(c)
  BY <1>0, <1>3, BeginsInOrder DEF BeginReplace
<1>4. CASE BeginRevoke(c)
  BY <1>0, <1>4, BeginsInOrder DEF BeginRevoke
<1>5. CASE Abandon(c)
  BY <1>5, IdleInOrder DEF Abandon, Returns, Continues
<1> QED BY <1>1, <1>2, <1>3, <1>4, <1>5, WriteStepInOrder, ExchangeStepInOrder, RecoveryStepInOrder DEF CallerStep

\* Result objects, dispatches and OAuth attempts keep their types.
LEMMA OtherTypes ==
    ASSUME Inv, [Next]_vars
    PROVE  /\ results' \in [Attempts -> ResultRefs \union {None}]
           /\ lateResults' \subseteq ResultRefs
           /\ authorization' \in [Authorizations -> [revision : Nat, deadline : Nat] \union {None}]
           /\ dispatches' \subseteq [fence : Nat, id : Attempts, invocation : Invocations]
           /\ now' \in 0 .. MaxTime
<1>0. TypeOK /\ \A c \in Callers : CallerInOrder(c)
  BY DEF Inv
<1>1. CASE UNCHANGED <<results, lateResults, authorization, dispatches, now>>
  BY <1>0, <1>1 DEF TypeOK
<1>2. ASSUME NEW c \in Callers, Dispatch(c)
      PROVE  /\ UNCHANGED <<results, lateResults, authorization, now>>
             /\ dispatches' \subseteq [fence : Nat, id : Attempts, invocation : Invocations]
  <2>1. IsAdmission(c) /\ caller[c].admission \in Admissions
    BY <1>0, <1>2 DEF Dispatch, CallerInOrder, TypeOK, CallerStates
  <2>2. caller[c].admission.fence \in Nat /\ caller[c].admission.id \in Attempts /\ caller[c].invocation \in Invocations
    BY <2>1 DEF IsAdmission, Admissions, Attempts
  <2> QED BY <1>0, <1>2, <2>2 DEF Dispatch, TypeOK
<1>3. ASSUME NEW c \in Callers, CreateResult(c) \/ CreateResultUnknown(c)
      PROVE  /\ UNCHANGED <<authorization, dispatches, now>>
             /\ results' \in [Attempts -> ResultRefs \union {None}]
             /\ lateResults' \subseteq ResultRefs
  <2>1. caller[c].admission \in Admissions /\ caller[c].admission.id \in Attempts
    BY <1>0, <1>3 DEF CreateResult, CreateResultUnknown, CallerInOrder, TypeOK, CallerStates
  <2>2. Result(caller[c].admission) \in ResultRefs
    BY <2>1 DEF Result, ResultRefs, Admissions
  <2> QED BY <1>0, <1>3, <2>1, <2>2 DEF CreateResult, CreateResultUnknown, TypeOK
<1>4. ASSUME NEW a \in Authorizations, PersistAuthorization(a)
      PROVE  /\ UNCHANGED <<results, lateResults, dispatches, now>>
             /\ authorization' \in [Authorizations -> [revision : Nat, deadline : Nat] \union {None}]
  <2>1. [revision |-> IF object = Absent THEN 0 ELSE object.revision, deadline |-> now + RefreshWindow]
           \in [revision : Nat, deadline : Nat]
    BY <1>0, ExchangeAssumption DEF TypeOK, Records
  <2> QED BY <1>0, <1>4, <2>1 DEF PersistAuthorization, TypeOK
<1>5. CASE ResultArrives
  <2> PICK result \in lateResults :
          /\ lateResults' = lateResults \ {result}
          /\ results' = [results EXCEPT ![result.id] = IF @ = None THEN result ELSE @]
    BY <1>5 DEF ResultArrives
  <2>1. result \in ResultRefs /\ lateResults' \subseteq ResultRefs
    BY <1>0 DEF TypeOK
  <2>2. results' \in [Attempts -> ResultRefs \union {None}]
    BY <1>0, <2>1 DEF TypeOK
  <2> QED BY <1>0, <1>5, <2>1, <2>2 DEF ResultArrives, TypeOK
<1>6. CASE Tick
  BY <1>0, <1>6, ExchangeAssumption DEF Tick, TypeOK
<1>7. CASE HeadWriteArrives \/ UNCHANGED vars
  BY <1>1, <1>7 DEF HeadWriteArrives, vars
<1>8. ASSUME NEW c \in Callers, CallerStep(c),
             ~(Dispatch(c) \/ CreateResult(c) \/ CreateResultUnknown(c))
      PROVE  UNCHANGED <<results, lateResults, authorization, dispatches, now>>
  BY <1>8 DEF CallerStep, BeginRefresh, BeginAuthorization, BeginReplace, BeginRevoke, Begins, WriteStep,
     WriteSucceeds, WriteConflicts, WriteOutcomeUnknown, ObserveOwnWrite, ExchangeStep, ProviderAnswers,
     ReadAdmitted, RecoveryStep, BeginRecovery, RecoverResult, FindNoResult, CheckDeadline, Abandon,
     Returns, Continues
<1> QED BY <1>0, <1>1, <1>2, <1>3, <1>4, <1>5, <1>6, <1>7, <1>8 DEF Next, TypeOK

\* Every step preserves the invariant.
LEMMA InvStep == ASSUME Inv, [Next]_vars PROVE Inv'
<1>0. TypeOK /\ \A c \in Callers : CallerInOrder(c)
  BY DEF Inv
<1>1. CASE UNCHANGED <<caller, calls, authorization>>
  <2>1. \A c \in Callers : IsAdmission(c)' <=> IsAdmission(c)
    BY <1>1 DEF IsAdmission
  <2>2. \A c \in Callers : CallerInOrder(c)'
    BY <1>0, <1>1, <2>1 DEF CallerInOrder
  <2> QED BY <1>0, <1>1, <2>2, HeadStep, OtherTypes DEF Inv, TypeOK
<1>2. ASSUME NEW a \in Authorizations, PersistAuthorization(a) PROVE Inv'
  <2>1. \A c \in Callers : IsAdmission(c) => IsAdmission(c)'
    BY <1>0, <1>2 DEF IsAdmission, PersistAuthorization, TypeOK
  <2>2. \A c \in Callers : CallerInOrder(c)'
    BY <1>0, <1>2, <2>1 DEF CallerInOrder, PersistAuthorization
  <2> QED BY <1>0, <1>2, <2>2, HeadStep, OtherTypes DEF Inv, TypeOK, PersistAuthorization
<1>3. ASSUME NEW c \in Callers, CallerStep(c) PROVE Inv'
  BY <1>0, <1>3, CallerStepInOrder, OthersInOrder, OthersKeep, HeadStep, OtherTypes DEF Inv, TypeOK
<1>4. HeadWriteArrives \/ ResultArrives \/ Tick \/ UNCHANGED vars => UNCHANGED <<caller, calls, authorization>>
  BY DEF HeadWriteArrives, ResultArrives, Tick, vars
<1> QED BY <1>1, <1>2, <1>3, <1>4 DEF Next

\* The first layer holds in every reachable state.
LEMMA InvHolds == Spec => []Inv
<1>1. Inv /\ UNCHANGED vars => Inv'
  BY InvStep
<1> QED BY InvInit, InvStep, <1>1, PTL DEF Spec

\* Every variable keeps its type, for any callers, attempts, timeouts and late writes.
THEOREM ExchangeTypeCorrect == Spec => []TypeOK
<1>1. Inv => TypeOK
  BY DEF Inv
<1> QED BY InvHolds, <1>1, PTL

\* Whatever interleaving of refreshes, authorizations, replacements, revocations,
\* unknown outcomes and late writes produced it, _read_record accepts the head.
THEOREM HeadIsReadable == Spec => []HeadReadable
<1>1. Inv => HeadReadable
  BY DEF Inv, HeadReadable, WellFormed
<1> QED BY InvHolds, <1>1, PTL

\* No step of anybody, and no late write, brings back a credential that was replaced,
\* revoked or superseded: the head takes a newer credential or its own admission's result.
THEOREM CredentialForward == Spec => CredentialMovesForward
<1>1. ASSUME Inv, [Next]_vars,
             object # Absent, object' # object, object'.credential \notin {None, object.credential}
      PROVE  \/ object'.credential.fence > object.fence
             \/ /\ object.mutation # None
                /\ object'.credential = [id |-> object.mutation.id, fence |-> object.fence]
  <2>1. Follows(object, object') /\ WellFormed(object') /\ WellFormed(object)
    BY <1>1, HeadStep DEF Inv
  <2>2. object.fence \in Nat /\ (object'.status = "REVOKED" => object'.credential = None)
    BY <2>1 DEF WellFormed, Records
  <2> QED BY <1>1, <2>1, <2>2 DEF Follows, Fence, Credential
<1>2. Inv /\ [Next]_vars =>
        [LET new == object'.credential IN
         /\ object # Absent
         /\ object' # object
         /\ new \notin {None, object.credential}
         => \/ new.fence > object.fence
            \/ /\ object.mutation # None
               /\ new = [id |-> object.mutation.id, fence |-> object.fence]]_vars
  BY <1>1
<1> QED BY InvHolds, <1>2, PTL DEF Spec, CredentialMovesForward
-----------------------------------------------------------------------------
(* How one call moves: the summary of the actions that the proofs below     *)
(* split on.                                                               *)

\* The permission to ask the provider that caller c was given.
Grant(c) == [fence |-> caller[c].admission.fence, id |-> caller[c].admission.id,
             invocation |-> caller[c].invocation]

ForProvider == {"refresh", "authorize"}

Turns(c, label) ==
    /\ caller'[c] = [pc |-> label, op |-> caller[c].op, base |-> caller[c].base,
          admission |-> caller[c].admission, invocation |-> caller[c].invocation,
          since |-> caller[c].since]
    /\ calls'[c] = calls[c]

\* The head holds the caller's own admission from now on.
IsAdmittedNow(c) ==
    /\ Turns(c, "admitted")
    /\ caller[c].pc \in {"write", "observe"}
    /\ caller[c].op \in ForProvider
    /\ object' = NewRecord(c)
    /\ caller[c].pc = "write" => object = caller[c].base
    /\ caller[c].pc = "observe" => object = object'

Began(c) ==
    /\ calls'[c] = calls[c] + 1
    /\ caller'[c].pc = "write"
    /\ caller'[c].op \in {"refresh", "authorize", "replace", "revoke"}
    /\ caller'[c].base = object
    /\ object' = object

Turned(c) ==
    \/ caller[c].pc = "write" /\ Turns(c, "observe")
    \/ /\ caller[c].pc = "provider"
       /\ \/ Turns(c, "create") \/ Turns(c, "fail")
          \/ Turns(c, "restore") /\ caller[c].op = "refresh"
    \/ caller[c].pc = "create" /\ Turns(c, "publish")
    \/ caller[c].pc = "recover" /\ (Turns(c, "publish") \/ Turns(c, "expiry"))
    \/ /\ caller[c].pc = "expiry"
       /\ \/ Turns(c, "fail")
          \/ Turns(c, "restore") /\ now >= caller[c].admission.deadline

Dispatched(c) ==
    /\ caller[c].pc = "admitted"
    /\ caller'[c] = [pc |-> "provider", op |-> caller[c].op, base |-> caller[c].base,
          admission |-> caller[c].admission, invocation |-> caller[c].invocation, since |-> now]
    /\ calls'[c] = calls[c]
    /\ object' = object

FoundAdmission(c) ==
    /\ caller[c].pc \in {"publish", "fail", "restore"}
    /\ require_admission(caller[c].admission)
    /\ caller'[c] = [pc |-> "write", op |-> caller[c].pc, base |-> object,
          admission |-> caller[c].admission, invocation |-> caller[c].invocation,
          since |-> caller[c].since]
    /\ calls'[c] = calls[c]
    /\ object' = object

FoundPending(c) ==
    /\ object # Absent
    /\ object.mutation # None
    /\ caller'[c] = [pc |-> "recover", op |-> "none", base |-> Absent,
          admission |-> [kind |-> object.status, id |-> object.mutation.id,
                         fence |-> object.fence, deadline |-> object.mutation.deadline],
          invocation |-> None, since |-> 0]
    /\ calls'[c] = calls[c]
    /\ object' = object

Moves(c) ==
    \/ caller'[c] = Idle /\ calls'[c] = calls[c]
    \/ Began(c)
    \/ Turned(c)
    \/ IsAdmittedNow(c)
    \/ Dispatched(c)
    \/ FoundAdmission(c)
    \/ FoundPending(c)

\* A caller that begins recovery knows the mutation it found pending in the head.
LEMMA RecoveryFound ==
    ASSUME Inv, NEW c \in Callers, BeginRecovery(c)
    PROVE  FoundPending(c)
<1> DEFINE admission == [kind |-> object.status, id |-> object.mutation.id,
                         fence |-> object.fence, deadline |-> object.mutation.deadline]
           q == [Idle EXCEPT !.pc = "recover"]
<1>1. /\ caller' = [caller EXCEPT ![c] = [q EXCEPT !.admission = admission]]
      /\ object # Absent /\ object.mutation # None /\ calls' = calls /\ object' = object
  BY DEF BeginRecovery, Continues, storeVars
<1>2. q = [pc |-> "recover", op |-> "none", base |-> Absent, admission |-> NoAdmission,
           invocation |-> None, since |-> 0]
  BY DEF Idle
<1> HIDE DEF q
<1>3. [q EXCEPT !.admission = admission] =
         [pc |-> "recover", op |-> "none", base |-> Absent, admission |-> admission,
          invocation |-> None, since |-> 0]
  BY <1>2
<1> HIDE DEF admission
<1>4. caller'[c] = [pc |-> "recover", op |-> "none", base |-> Absent, admission |-> admission,
                    invocation |-> None, since |-> 0]
  BY <1>1, <1>3 DEF Inv, TypeOK
<1> QED BY <1>1, <1>4 DEF FoundPending, admission

\* A step that assigns only the position of a caller turns it to that position.
LEMMA TurnsTo ==
    ASSUME Inv, NEW c \in Callers, NEW label,
           caller' = [caller EXCEPT ![c] = [caller[c] EXCEPT !.pc = label]], calls' = calls
    PROVE  Turns(c, label)
<1>1. caller \in [Callers -> CallerStates]
  BY DEF Inv, TypeOK
<1>2. [caller[c] EXCEPT !.pc = label] =
         [pc |-> label, op |-> caller[c].op, base |-> caller[c].base,
          admission |-> caller[c].admission, invocation |-> caller[c].invocation,
          since |-> caller[c].since]
  BY <1>1 DEF CallerStates
<1> QED BY <1>1, <1>2 DEF Turns

\* Every action of a call is one of these moves, and leaves the other calls, the clock and
\* the OAuth attempts alone.
LEMMA CallerMoves ==
    ASSUME Inv, NEW c \in Callers, CallerStep(c)
    PROVE  /\ Moves(c)
           /\ now' = now
           /\ authorization' = authorization
           /\ \A d \in Callers \ {c} : caller'[d] = caller[d] /\ calls'[d] = calls[d]
           /\ \/ dispatches' = dispatches
              \/ caller[c].pc = "admitted" /\ Dispatched(c) /\ dispatches' = dispatches \union {Grant(c)}
<1>0. TypeOK
  BY DEF Inv
<1>1. \A d \in Callers \ {c} : caller'[d] = caller[d] /\ calls'[d] = calls[d]
  BY <1>0, CallerStepInOrder, OthersKeep
<1>2. now' = now /\ authorization' = authorization
  BY DEF CallerStep, BeginRefresh, BeginAuthorization, BeginReplace, BeginRevoke, Begins, WriteStep,
     WriteSucceeds, WriteConflicts, WriteOutcomeUnknown, ObserveOwnWrite, ExchangeStep, ProviderAnswers,
     ReadAdmitted, CreateResult, CreateResultUnknown, Dispatch, RecoveryStep, BeginRecovery, RecoverResult,
     FindNoResult, CheckDeadline, Abandon, Returns, Continues
<1>3. ASSUME caller' = [caller EXCEPT ![c] = Idle], calls' = calls PROVE Moves(c)
  BY <1>0, <1>3 DEF TypeOK, Moves
<1>4. CASE WriteStep(c)
  <2>1. UNCHANGED <<calls, dispatches>>
    BY <1>4 DEF WriteStep, WriteSucceeds, WriteConflicts, WriteOutcomeUnknown, ObserveOwnWrite, Returns, Continues
  <2>2. CASE caller' = [caller EXCEPT ![c] = Idle]
    BY <1>1, <1>2, <1>3, <2>1, <2>2
  <2>3. CASE WriteOutcomeUnknown(c)
    <3>1. Turns(c, "observe") /\ caller[c].pc = "write"
      BY <2>1, <2>3, TurnsTo DEF WriteOutcomeUnknown, Continues
    <3> QED BY <1>1, <1>2, <2>1, <3>1 DEF Moves, Turned
  <2>4. CASE WriteSucceeds(c) /\ caller[c].op \in ForProvider
    <3>1. Turns(c, "admitted")
      BY <2>1, <2>4, TurnsTo DEF WriteSucceeds, Continues, AfterWrite, ForProvider
    <3>2. IsAdmittedNow(c)
      BY <2>4, <3>1 DEF WriteSucceeds, WriteAccepted, IsAdmittedNow
    <3> QED BY <1>1, <1>2, <2>1, <3>2 DEF Moves
  <2>5. CASE ObserveOwnWrite(c) /\ caller[c].op \in ForProvider
    <3>1. Turns(c, "admitted")
      BY <2>1, <2>5, TurnsTo DEF ObserveOwnWrite, Continues, AfterWrite, ForProvider
    <3>2. IsAdmittedNow(c)
      BY <2>5, <3>1 DEF ObserveOwnWrite, IsAdmittedNow, storeVars
    <3> QED BY <1>1, <1>2, <2>1, <3>2 DEF Moves
  <2> QED BY <1>4, <2>2, <2>3, <2>4, <2>5
          DEF WriteStep, WriteSucceeds, WriteConflicts, ObserveOwnWrite, Returns, Continues, AfterWrite, ForProvider
<1>5. CASE ExchangeStep(c)
  <2>1. CASE Dispatch(c)
    <3>1. Dispatched(c) /\ dispatches' = dispatches \union {Grant(c)}
      BY <2>1, DispatchInOrder DEF Dispatch, Dispatched, Grant
    <3> QED BY <1>1, <1>2, <3>1 DEF Moves, Dispatched
  <2>2. CASE ProviderAnswers(c)
    <3>1. PICK next \in {"create", "fail"} \union (IF caller[c].op = "refresh" THEN {"restore"} ELSE {}) :
             Continues(c, [caller[c] EXCEPT !.pc = next])
      BY <2>2 DEF ProviderAnswers
    <3>2. Turns(c, next)
      BY <3>1, TurnsTo DEF Continues
    <3>3. Turned(c) /\ dispatches' = dispatches
      BY <2>2, <3>1, <3>2 DEF Turned, ProviderAnswers, Continues
    <3> QED BY <1>1, <1>2, <3>3 DEF Moves
  <2>3. CASE ReadAdmitted(c)
    <3>1. FoundAdmission(c) \/ (caller'[c] = Idle /\ calls'[c] = calls[c])
      BY <2>3, ReadAdmittedInOrder DEF ReadAdmitted, FoundAdmission, storeVars, Returns, Continues
    <3>2. dispatches' = dispatches
      BY <2>3 DEF ReadAdmitted, Returns, Continues
    <3> QED BY <1>1, <1>2, <3>1, <3>2 DEF Moves
  <2>4. CASE CreateResult(c)
    <3>1. caller' = [caller EXCEPT ![c] = [caller[c] EXCEPT !.pc = "publish"]]
      BY <1>0, <2>4 DEF CreateResult, TypeOK
    <3>2. Turns(c, "publish")
      BY <2>4, <3>1, TurnsTo DEF CreateResult
    <3>3. Turned(c) /\ dispatches' = dispatches
      BY <2>4, <3>2 DEF CreateResult, Turned
    <3> QED BY <1>1, <1>2, <3>3 DEF Moves
  <2>5. CASE CreateResultUnknown(c)
    BY <1>1, <1>2, <1>3, <2>5 DEF CreateResultUnknown
  <2> QED BY <1>5, <2>1, <2>2, <2>3, <2>4, <2>5 DEF ExchangeStep
<1>6. CASE RecoveryStep(c)
  <2>0. UNCHANGED <<calls, dispatches>>
    BY <1>6 DEF RecoveryStep, BeginRecovery, RecoverResult, FindNoResult, CheckDeadline, Returns, Continues
  <2>1. CASE BeginRecovery(c)
    BY <1>1, <1>2, <2>0, <2>1, RecoveryFound DEF Moves
  <2>2. CASE RecoverResult(c)
    <3>1. Turns(c, "publish")
      BY <2>0, <2>2, TurnsTo DEF RecoverResult, Continues
    <3>2. Turned(c)
      BY <2>2, <3>1 DEF RecoverResult, Turned
    <3> QED BY <1>1, <1>2, <2>0, <3>2 DEF Moves
  <2>3. CASE FindNoResult(c)
    <3>1. Turns(c, "expiry")
      BY <2>0, <2>3, TurnsTo DEF FindNoResult, Continues
    <3>2. Turned(c)
      BY <2>3, <3>1 DEF FindNoResult, Turned
    <3> QED BY <1>1, <1>2, <2>0, <3>2 DEF Moves
  <2>4. CASE CheckDeadline(c)
    <3>1. \/ caller' = [caller EXCEPT ![c] = Idle]
          \/ caller' = [caller EXCEPT ![c] = [caller[c] EXCEPT !.pc = "fail"]]
          \/ /\ caller' = [caller EXCEPT ![c] = [caller[c] EXCEPT !.pc = "restore"]]
             /\ now >= caller[c].admission.deadline
      BY <2>4 DEF CheckDeadline, IsAbandoned, Returns, Continues
    <3>2. \/ caller' = [caller EXCEPT ![c] = Idle]
          \/ Turns(c, "fail")
          \/ Turns(c, "restore") /\ now >= caller[c].admission.deadline
      BY <2>0, <3>1, TurnsTo
    <3>3. caller' = [caller EXCEPT ![c] = Idle] \/ Turned(c)
      BY <2>4, <3>2 DEF CheckDeadline, Turned
    <3> QED BY <1>1, <1>2, <1>3, <2>0, <3>3 DEF Moves
  <2> QED BY <1>6, <2>1, <2>2, <2>3, <2>4 DEF RecoveryStep
<1>7. ASSUME NEW op \in {"refresh", "authorize", "replace", "revoke"}, NEW admission, Begins(c, op, admission)
      PROVE  Began(c) /\ dispatches' = dispatches
  BY <1>0, <1>7 DEF Begins, Began, TypeOK
<1>8. CASE BeginRefresh(c)
  <2> DEFINE admission == [kind |-> "REFRESHING", id |-> FreshID(c),
                           fence |-> object.fence + 1, deadline |-> now + RefreshWindow]
  <2>1. Begins(c, "refresh", admission) /\ admission.deadline = now + RefreshWindow
    BY <1>8 DEF BeginRefresh
  <2> HIDE DEF admission
  <2> QED BY <1>1, <1>2, <1>7, <2>1 DEF Moves
<1>9. CASE BeginReplace(c) \/ BeginRevoke(c)
  BY <1>1, <1>2, <1>7, <1>9 DEF BeginReplace, BeginRevoke, Moves
<1>10. CASE \E a \in Authorizations : BeginAuthorization(c, a)
  <2> PICK a \in Authorizations : BeginAuthorization(c, a)
    BY <1>10
  <2>1. PICK admission : Begins(c, "authorize", admission)
    BY DEF BeginAuthorization
  <2> QED BY <1>1, <1>2, <1>7, <2>1 DEF Moves
<1>11. CASE Abandon(c)
  BY <1>1, <1>2, <1>3, <1>11 DEF Abandon, Returns, Continues
<1> QED BY <1>4, <1>5, <1>6, <1>8, <1>9, <1>10, <1>11 DEF CallerStep
-----------------------------------------------------------------------------
(* One provider request per admission.                                     *)

\* The permissions that were given out.
Grants == dispatches \union {Grant(c) : c \in {d \in Callers : caller[d].pc = "admitted"}}

\* The head has held the admission of t: its fence moved past it, or still holds it; and an
\* OAuth attempt is admitted at one revision only.
IsOfThePast(t) ==
    /\ object # Absent
    /\ t.fence <= object.fence
    /\ t.fence = object.fence /\ object.mutation # None =>
          t.id = object.mutation.id /\ t.invocation = object.mutation.invocation
    /\ t.id \in Authorizations =>
          /\ authorization[t.id] # None
          /\ authorization[t.id].revision < object.revision
          /\ authorization[t.id].revision + 1 = object.revision => t.fence = object.fence
    /\ t.id \notin Authorizations => t.id = t.invocation

\* The calls that ask to be admitted, or were, and have not asked the provider.
IsAsking(c) == caller[c].pc \in {"write", "observe", "admitted"} /\ caller[c].op \in ForProvider

\* No request carries the ID of a call that has not made it.
DispatchIsKnown(d) ==
    \A c \in Callers :
        /\ IsAsking(c) => d.invocation # <<c, calls[c]>>
        /\ \A n \in 1 .. MaxCalls : n > calls[c] => d.invocation # <<c, n>>

GrantInv ==
    /\ \A t \in Grants : IsOfThePast(t)
    /\ \A d \in dispatches : DispatchIsKnown(d)
    /\ \A t, u \in Grants : t.fence = u.fence \/ t.id = u.id => t = u

GrantType == [fence : Nat, id : Attempts, invocation : Invocations]

\* Grants are records of the right kind, and an admitted caller holds one.
LEMMA GrantsTyped ==
    ASSUME Inv
    PROVE  /\ Grants \subseteq GrantType
           /\ \A c \in Callers : caller[c].pc = "admitted" => IsAdmission(c)
<1>1. TypeOK /\ \A c \in Callers : CallerInOrder(c)
  BY DEF Inv
<1>2. \A c \in Callers : caller[c].pc = "admitted" => IsAdmission(c)
  BY <1>1 DEF CallerInOrder
<1>3. ASSUME NEW c \in Callers, caller[c].pc = "admitted" PROVE Grant(c) \in GrantType
  <2>1. caller[c].admission \in Admissions
    BY <1>1 DEF TypeOK, CallerStates
  <2> QED BY <1>2, <1>3, <2>1 DEF IsAdmission, Grant, GrantType, Admissions, Attempts
<1> QED BY <1>1, <1>2, <1>3 DEF Grants, TypeOK, GrantType

\* What was admitted stays in the past of the head.
LEMMA PastStays ==
    ASSUME Inv, [Next]_vars, NEW t \in GrantType, IsOfThePast(t)
    PROVE  IsOfThePast(t)'
<1>1. \A a \in Authorizations : authorization[a] # None => authorization'[a] = authorization[a]
  <2>1. ASSUME NEW a \in Authorizations, PersistAuthorization(a)
        PROVE  \A b \in Authorizations : authorization[b] # None => authorization'[b] = authorization[b]
    BY <2>1 DEF PersistAuthorization, Inv, TypeOK
  <2>2. HeadWriteArrives \/ ResultArrives \/ Tick \/ UNCHANGED vars => authorization' = authorization
    BY DEF HeadWriteArrives, ResultArrives, Tick, vars
  <2> QED BY <2>1, <2>2, CallerMoves DEF Next
<1>2. object' # Absent /\ WellFormed(object) /\ WellFormed(object')
  BY HeadStep DEF Inv, IsOfThePast
<1>3. /\ object.fence \in Nat /\ object.revision \in Nat /\ object'.fence \in Nat /\ object'.revision \in Nat
      /\ t.fence \in Nat
      /\ t.id \in Authorizations => authorization[t.id].revision \in Nat
  BY <1>2 DEF WellFormed, Records, GrantType, IsOfThePast, Inv, TypeOK
<1>4. CASE object' = object
  BY <1>1, <1>2, <1>4 DEF IsOfThePast
<1>5. CASE object' # object
  <2>1. /\ object'.revision = object.revision + 1
        /\ \/ object'.fence = object.fence + 1
           \/ object'.fence = object.fence /\ object'.mutation = None
    BY <1>2, <1>5, HeadStep DEF Follows, Fence, Revision, WellFormed, IsOfThePast
  <2>2. t.fence <= object'.fence /\ (t.fence = object'.fence => object'.mutation = None)
    BY <1>3, <2>1 DEF IsOfThePast
  <2>3. t.id \in Authorizations =>
          /\ authorization'[t.id] # None
          /\ authorization'[t.id].revision < object'.revision
          /\ authorization'[t.id].revision + 1 # object'.revision
    BY <1>1, <1>3, <2>1 DEF IsOfThePast
  <2> QED BY <1>2, <2>2, <2>3 DEF IsOfThePast
<1> QED BY <1>4, <1>5

\* A caller that is admitted now is the first with its fence and with its attempt.
LEMMA NewGrantIsFirst ==
    ASSUME Inv, GrantInv, [Next]_vars, NEW c \in Callers, IsAdmittedNow(c), UNCHANGED authorization
    PROVE  /\ IsOfThePast(Grant(c))'
           /\ Grant(c)' = Grant(c)
           /\ \A t \in Grants : t.fence = Grant(c).fence \/ t.id = Grant(c).id => t = Grant(c)
<1> DEFINE k == caller[c]
           n == NewRecord(c)
           u == Grant(c)
<1>1. IsAdmission(c) /\ k.admission \in Admissions /\ (k.base # Absent => WellFormed(k.base))
  BY DEF IsAdmittedNow, ForProvider, Inv, TypeOK, CallerStates, CallerInOrder, IsCompletion
<1>2. /\ WellFormed(n) /\ n.mutation # None
      /\ n.mutation.id = u.id /\ n.mutation.invocation = u.invocation /\ n.fence = u.fence
      /\ n.revision = Revision(k.base) + 1
      /\ u.fence = Fence(k.base) + 1
  BY <1>1, NewRecordInOrder DEF IsAdmittedNow, ForProvider, Grant, Follows, IsAdmission
<1>3. u' = u
  BY DEF IsAdmittedNow, Turns, Grant
<1>4. /\ Revision(k.base) \in Nat /\ Fence(k.base) \in Nat /\ u.fence \in Nat
      /\ u.invocation = <<c, calls[c]>>
      /\ u.id \in Authorizations => /\ authorization[u.id] # None
                                    /\ authorization[u.id].revision = Revision(k.base)
      /\ u.id \notin Authorizations => u.id = u.invocation
      /\ u \in GrantType
  BY <1>1, DistinctAssumption
     DEF IsAdmission, Grant, Revision, Fence, WellFormed, Records, Admissions, GrantType, Attempts
<1> HIDE DEF k, n, u
<1>5. object' = n /\ n # Absent
  BY <1>2, DistinctAssumption DEF IsAdmittedNow, WellFormed, n
<1>6. IsOfThePast(u)'
  BY <1>2, <1>3, <1>4, <1>5 DEF IsOfThePast
<1>7. ASSUME NEW t \in Grants, t.id = u.id, u.id \notin Authorizations PROVE FALSE
  <2>1. t.invocation = <<c, calls[c]>> /\ IsAsking(c) /\ k.pc # "admitted"
    BY <1>4, <1>7 DEF GrantInv, IsOfThePast, IsAdmittedNow, IsAsking, k
  <2>2. CASE t \in dispatches
    BY <2>1, <2>2 DEF GrantInv, DispatchIsKnown
  <2>3. CASE t \notin dispatches
    <3>1. PICK d \in Callers : caller[d].pc = "admitted" /\ t = Grant(d)
      BY <2>3 DEF Grants
    <3>2. t.invocation = <<d, calls[d]>>
      BY <3>1, GrantsTyped DEF Grant, IsAdmission
    <3> QED BY <2>1, <3>1, <3>2 DEF k
  <2> QED BY <2>2, <2>3
<1>8. ASSUME NEW t \in Grants, t.fence = u.fence \/ t.id = u.id PROVE t = u
  <2>1. t \in GrantType /\ IsOfThePast(t)
    BY GrantsTyped DEF GrantInv
  <2>2. CASE k.pc = "write"
    <3>1. object = k.base /\ object # Absent
      BY <2>1, <2>2 DEF IsAdmittedNow, IsOfThePast, k
    <3>2. t.fence < u.fence
      BY <1>2, <1>4, <2>1, <3>1 DEF IsOfThePast, Fence, GrantType
    <3>3. u.id \in Authorizations => t.id # u.id
      BY <1>4, <2>1, <3>1 DEF IsOfThePast, Revision
    <3> QED BY <1>4, <1>7, <1>8, <2>1, <3>2, <3>3 DEF GrantType
  <2>3. CASE k.pc = "observe"
    <3>1. object = n /\ object.mutation # None
      BY <1>2, <1>5, <2>3 DEF IsAdmittedNow, k
    <3>2. t.fence = u.fence => t = u
      BY <1>2, <1>4, <2>1, <3>1 DEF IsOfThePast, GrantType
    <3>3. u.id \in Authorizations /\ t.id = u.id => t.fence = u.fence
      BY <1>2, <1>4, <2>1, <3>1 DEF IsOfThePast
    <3> QED BY <1>7, <1>8, <3>2, <3>3
  <2> QED BY <2>2, <2>3 DEF IsAdmittedNow, k
<1> QED BY <1>3, <1>6, <1>8 DEF u

\* One step gives out at most one permission, and only to the caller it admits.
LEMMA GrantsStep ==
    ASSUME Inv, [Next]_vars
    PROVE  \/ Grants' \subseteq Grants
           \/ \E c \in Callers : IsAdmittedNow(c) /\ authorization' = authorization
                                 /\ Grants' \subseteq Grants \union {Grant(c)'}
<1>1. ASSUME NEW c \in Callers, CallerStep(c)
      PROVE  \/ Grants' \subseteq Grants
             \/ IsAdmittedNow(c) /\ authorization' = authorization /\ Grants' \subseteq Grants \union {Grant(c)'}
  <2>1. /\ Moves(c) /\ authorization' = authorization
        /\ \A d \in Callers \ {c} : caller'[d] = caller[d]
        /\ \/ dispatches' = dispatches
           \/ caller[c].pc = "admitted" /\ dispatches' = dispatches \union {Grant(c)}
    BY <1>1, CallerMoves
  <2>2. dispatches' \subseteq Grants
    BY <2>1 DEF Grants
  <2>3. \A d \in Callers \ {c} : caller'[d].pc = "admitted" => Grant(d)' \in Grants
    BY <2>1 DEF Grants, Grant
  <2>4. CASE IsAdmittedNow(c)
    BY <2>1, <2>2, <2>3, <2>4 DEF Grants
  <2>5. CASE ~IsAdmittedNow(c)
    <3>1. caller'[c].pc # "admitted"
      BY <2>1, <2>5 DEF Moves, Idle, Began, Turned, Turns, Dispatched, FoundAdmission, FoundPending
    <3> QED BY <2>2, <2>3, <3>1 DEF Grants
  <2> QED BY <2>4, <2>5
<1>2. CASE UNCHANGED <<caller, dispatches>>
  BY <1>2 DEF Grants, Grant
<1>3. ASSUME NEW a \in Authorizations, PersistAuthorization(a) PROVE UNCHANGED <<caller, dispatches>>
  BY <1>3 DEF PersistAuthorization
<1>4. HeadWriteArrives \/ ResultArrives \/ Tick \/ UNCHANGED vars => UNCHANGED <<caller, dispatches>>
  BY DEF HeadWriteArrives, ResultArrives, Tick, vars
<1> QED BY <1>1, <1>2, <1>3, <1>4 DEF Next

\* A new call has an ID that no request carries, and a request ends the asking.
LEMMA DispatchesStayKnown ==
    ASSUME Inv, GrantInv, [Next]_vars
    PROVE  \A d \in dispatches' : DispatchIsKnown(d)'
<1>0. TypeOK /\ calls \in [Callers -> Nat] /\ calls' \in [Callers -> 0 .. MaxCalls] /\ MaxCalls \in Nat
  BY InvStep, ExchangeAssumption DEF Inv, TypeOK
<1>1. CASE UNCHANGED <<caller, calls, dispatches>>
  BY <1>1 DEF GrantInv, DispatchIsKnown, IsAsking
<1>2. ASSUME NEW c \in Callers, CallerStep(c), NEW d \in dispatches' PROVE DispatchIsKnown(d)'
  <2>1. /\ Moves(c)
        /\ \A e \in Callers \ {c} : caller'[e] = caller[e] /\ calls'[e] = calls[e]
        /\ \/ dispatches' = dispatches
           \/ caller[c].pc = "admitted" /\ Dispatched(c) /\ dispatches' = dispatches \union {Grant(c)}
    BY <1>2, CallerMoves
  <2>2. calls[c] \in Nat /\ (calls'[c] = calls[c] \/ Began(c))
    BY <1>0, <2>1 DEF Moves, Turned, Turns, IsAdmittedNow, Dispatched, FoundAdmission, FoundPending
  <2>3. CASE d \in dispatches
    <3>1. DispatchIsKnown(d)
      BY <2>3 DEF GrantInv
    <3>2. \A e \in Callers \ {c} : /\ IsAsking(e)' => d.invocation # <<e, calls'[e]>>
                                   /\ \A n \in 1 .. MaxCalls : n > calls'[e] => d.invocation # <<e, n>>
      BY <2>1, <3>1 DEF DispatchIsKnown, IsAsking
    <3>3. \A n \in 1 .. MaxCalls : n > calls'[c] => d.invocation # <<c, n>>
      BY <2>2, <3>1 DEF DispatchIsKnown, Began
    <3>4. IsAsking(c)' => d.invocation # <<c, calls'[c]>>
      <4>1. CASE Began(c)
        BY <1>0, <2>2, <3>1, <4>1 DEF DispatchIsKnown, Began
      <4>2. CASE calls'[c] = calls[c]
        <5>1. IsAsking(c)' => IsAsking(c)
          BY <2>1, <2>2, <4>2 DEF Moves, Idle, Began, Turned, Turns, IsAdmittedNow, Dispatched, FoundAdmission,
             FoundPending, IsAsking, ForProvider
        <5> QED BY <3>1, <4>2, <5>1 DEF DispatchIsKnown
      <4> QED BY <2>2, <4>1, <4>2
    <3> QED BY <3>2, <3>3, <3>4 DEF DispatchIsKnown
  <2>4. CASE d \notin dispatches
    <3>1. d = Grant(c) /\ Dispatched(c) /\ caller[c].pc = "admitted"
      BY <1>2, <2>1, <2>4
    <3>2. d.invocation = <<c, calls[c]>> /\ calls'[c] = calls[c] /\ caller'[c].pc = "provider"
      BY <3>1, GrantsTyped DEF Grant, IsAdmission, Dispatched
    <3> QED BY <2>2, <3>2 DEF DispatchIsKnown, IsAsking
  <2> QED BY <2>3, <2>4
<1>3. ASSUME NEW a \in Authorizations, PersistAuthorization(a) PROVE UNCHANGED <<caller, calls, dispatches>>
  BY <1>3 DEF PersistAuthorization
<1>4. HeadWriteArrives \/ ResultArrives \/ Tick \/ UNCHANGED vars => UNCHANGED <<caller, calls, dispatches>>
  BY DEF HeadWriteArrives, ResultArrives, Tick, vars
<1> QED BY <1>1, <1>2, <1>3, <1>4 DEF Next

\* Every step preserves the second layer.
LEMMA GrantInvStep == ASSUME Inv, GrantInv, [Next]_vars PROVE GrantInv'
<1>1. \A t \in Grants : IsOfThePast(t)'
  BY GrantsTyped, PastStays DEF GrantInv
<1>2. CASE Grants' \subseteq Grants
  <2>1. \A t \in Grants' : IsOfThePast(t)'
    BY <1>1, <1>2
  <2>2. \A t, u \in Grants' : t.fence = u.fence \/ t.id = u.id => t = u
    BY <1>2 DEF GrantInv
  <2> QED BY <2>1, <2>2, DispatchesStayKnown DEF GrantInv
<1>3. ASSUME NEW c \in Callers, IsAdmittedNow(c), authorization' = authorization,
             Grants' \subseteq Grants \union {Grant(c)'}
      PROVE  GrantInv'
  <2>1. /\ IsOfThePast(Grant(c))'
        /\ Grant(c)' = Grant(c)
        /\ \A t \in Grants : t.fence = Grant(c).fence \/ t.id = Grant(c).id => t = Grant(c)
    BY <1>3, NewGrantIsFirst
  <2>2. \A t \in Grants' : IsOfThePast(t)'
    <3> SUFFICES ASSUME NEW t \in Grants' PROVE IsOfThePast(t)'
      OBVIOUS
    <3>1. CASE t \in Grants
      BY <1>1, <3>1
    <3>2. CASE t = Grant(c)'
      BY <2>1, <3>2 DEF IsOfThePast
    <3> QED BY <1>3, <3>1, <3>2
  <2>3. \A t, u \in Grants' : t.fence = u.fence \/ t.id = u.id => t = u
    BY <1>3, <2>1 DEF GrantInv
  <2> QED BY <2>2, <2>3, DispatchesStayKnown DEF GrantInv
<1> QED BY <1>2, <1>3, GrantsStep

\* The second layer holds in every reachable state.
LEMMA GrantInvHolds == Spec => []GrantInv
<1>1. Init => GrantInv
  BY DEF Init, GrantInv, Grants, Idle
<1>2. Inv /\ GrantInv /\ [Next]_vars => GrantInv'
  BY GrantInvStep
<1> QED BY <1>1, <1>2, InvHolds, PTL DEF Spec

\* "A conditional head write grants one caller provider dispatch", for any number of
\* callers, OAuth attempts, calls and late writes, and for any timeouts.
THEOREM DispatchIsUnique == Spec => []OneDispatchPerAdmission
<1>1. GrantInv => OneDispatchPerAdmission
  BY DEF GrantInv, Grants, OneDispatchPerAdmission
<1> QED BY <1>1, GrantInvHolds, PTL
-----------------------------------------------------------------------------
(* A refresh that is sent in time is the only one of its credential.       *)

IsRefreshing(c) ==
    caller[c].pc \in {"write", "observe", "admitted", "provider"} /\ caller[c].op = "refresh"

Rotates(c) == caller[c].pc \in {"admitted", "provider"} /\ caller[c].op = "refresh"

\* The refresh call with ID i was made and is over.
HasEnded(i) ==
    \A c \in Callers :
        /\ IsRefreshing(c) => i # <<c, calls[c]>>
        /\ \A n \in 1 .. MaxCalls : n > calls[c] => i # <<c, n>>

\* A refresh request is over before its timeout.
OnTime(c) ==
    caller[c].op = "refresh" /\ caller[c].pc = "provider" => now < caller[c].since + RefreshTimeout

\* The admission a caller knows is the head's, deadline included, while their fences agree.
KnowsAdmission(c) ==
    LET admission == caller[c].admission IN
    caller[c].pc \notin {"idle", "write", "observe"} =>
        /\ object # Absent
        /\ admission.fence <= object.fence
        /\ admission.fence = object.fence /\ object.mutation # None =>
              object.mutation.deadline = admission.deadline

MayRestore(invocation, deadline) == now >= deadline \/ HasEnded(invocation)

\* Whoever goes to restore a credential found the admission expired, or made it and is done.
RestoreIsJustified(c) ==
    LET k == caller[c] IN
    /\ k.pc = "restore" => MayRestore(k.admission.id, k.admission.deadline)
    /\ k.pc \in {"write", "observe"} /\ k.op = "restore" =>
          MayRestore(k.base.mutation.invocation, k.base.mutation.deadline)

LateIsJustified ==
    \A w \in late :
        Restores(w.expected, w.contents) =>
            MayRestore(w.expected.mutation.invocation, w.expected.mutation.deadline)

\* A head with the fence of a rotating caller has that caller's admission, if it has any.
KnowsInvocation(c) ==
    Rotates(c) /\ caller[c].admission.fence = object.fence /\ object.mutation # None =>
        object.mutation.invocation = caller[c].invocation

\* Before the deadline of a caller that rotates a credential, a head with that credential is
\* not READY, and is REFRESHING only by the caller's own admission.
HeadIsHeld(c) ==
    /\ Rotates(c)
    /\ now < caller[c].admission.deadline
    /\ object.credential = caller[c].base.credential
    =>
        /\ object.status # "READY"
        /\ object.status = "REFRESHING" =>
              /\ object.mutation.invocation = caller[c].invocation
              /\ object.mutation.deadline = caller[c].admission.deadline

RotationInv ==
    /\ \A c \in Callers :
          OnTime(c) /\ KnowsAdmission(c) /\ KnowsInvocation(c) /\ RestoreIsJustified(c) /\ HeadIsHeld(c)
    /\ LateIsJustified
    /\ \A c, d \in Callers :
          /\ Rotates(c) /\ Rotates(d)
          /\ caller[c].base.credential = caller[d].base.credential
          /\ caller[c].admission.fence <= caller[d].admission.fence
          /\ now < caller[c].admission.deadline
          => c = d

\* The numbers in the state of a caller are numbers, for the arithmetic below.
LEMMA CallerTypes ==
    ASSUME Inv, NEW c \in Callers
    PROVE  /\ caller[c] \in CallerStates /\ caller[c].admission \in Admissions
           /\ caller[c].since \in Nat /\ caller[c].admission.deadline \in Nat
           /\ caller[c].admission.fence \in Nat
           /\ calls[c] \in Nat /\ now \in Nat
  BY ExchangeAssumption DEF Inv, TypeOK, CallerStates, Admissions

\* What happens to the other callers, and to every caller when none of them moves.
LEMMA NextMoves ==
    ASSUME Inv, [Next]_vars, NEW c \in Callers
    PROVE  \/ /\ caller'[c] = caller[c] /\ calls'[c] = calls[c]
              /\ now' = now \/ (now' = now + 1 /\ IsOnTime(c, now + 1))
           \/ Moves(c) /\ now' = now
<1>1. ASSUME NEW d \in Callers, CallerStep(d)
      PROVE  \/ caller'[c] = caller[c] /\ calls'[c] = calls[c] /\ now' = now
             \/ Moves(c) /\ now' = now
  BY <1>1, CallerMoves
<1>2. ASSUME NEW a \in Authorizations, PersistAuthorization(a)
      PROVE  caller' = caller /\ calls' = calls /\ now' = now
  BY <1>2 DEF PersistAuthorization
<1>3. HeadWriteArrives \/ ResultArrives \/ UNCHANGED vars => caller' = caller /\ calls' = calls /\ now' = now
  BY DEF HeadWriteArrives, ResultArrives, vars
<1>4. Tick => caller' = caller /\ calls' = calls /\ now' = now + 1 /\ IsOnTime(c, now + 1)
  BY DEF Tick
<1> QED BY <1>1, <1>2, <1>3, <1>4 DEF Next

\* No step makes a request late: it is cancelled at its timeout.
LEMMA OnTimeStays ==
    ASSUME Inv, [Next]_vars, NEW c \in Callers, OnTime(c)
    PROVE  OnTime(c)'
<1>0. caller[c].since \in Nat /\ now \in Nat /\ RefreshTimeout \in Nat /\ RefreshTimeout > 0
  BY CallerTypes, ExchangeAssumption
<1>1. CASE caller'[c] = caller[c] /\ now' = now
  BY <1>1 DEF OnTime
<1>2. CASE caller'[c] = caller[c] /\ now' = now + 1 /\ IsOnTime(c, now + 1)
  BY <1>0, <1>2 DEF OnTime, IsOnTime
<1>3. CASE caller'[c] = Idle
  BY <1>3 DEF OnTime, Idle
<1>4. CASE Began(c) /\ now' = now
  BY <1>0, <1>4 DEF OnTime, Began
<1>5. CASE Turned(c) /\ now' = now
  BY <1>5 DEF OnTime, Turned, Turns
<1>6. CASE IsAdmittedNow(c) /\ now' = now
  BY <1>6 DEF OnTime, IsAdmittedNow, Turns
<1>7. CASE Dispatched(c) /\ now' = now
  BY <1>0, <1>7 DEF OnTime, Dispatched
<1>8. CASE FoundAdmission(c) \/ FoundPending(c)
  BY <1>8 DEF OnTime, FoundAdmission, FoundPending
<1> QED BY <1>1, <1>2, <1>3, <1>4, <1>5, <1>6, <1>7, <1>8, NextMoves DEF Moves

\* A refresh call that ended never comes back.
LEMMA EndedStays ==
    ASSUME Inv, [Next]_vars, NEW i, HasEnded(i)
    PROVE  HasEnded(i)'
<1> SUFFICES ASSUME NEW c \in Callers
             PROVE  /\ IsRefreshing(c)' => i # <<c, calls'[c]>>
                    /\ \A n \in 1 .. MaxCalls : n > calls'[c] => i # <<c, n>>
  BY DEF HasEnded
<1>1. calls[c] \in Nat /\ calls'[c] \in 0 .. MaxCalls /\ MaxCalls \in Nat
  BY CallerTypes, InvStep, ExchangeAssumption DEF Inv, TypeOK
<1>2. CASE Began(c)
  BY <1>1, <1>2 DEF HasEnded, Began
<1>3. CASE ~Began(c)
  <2>1. calls'[c] = calls[c] /\ (IsRefreshing(c)' => IsRefreshing(c))
    <3>1. CASE caller'[c] = caller[c] /\ calls'[c] = calls[c]
      BY <3>1 DEF IsRefreshing
    <3>2. CASE Moves(c)
      BY <1>3, <3>2 DEF Moves, Idle, Turned, Turns, IsAdmittedNow, Dispatched, FoundAdmission, FoundPending, IsRefreshing
    <3> QED BY <3>1, <3>2, NextMoves
  <2> QED BY <2>1 DEF HasEnded
<1> QED BY <1>2, <1>3

\* MayRestore in the next state, of values of this one.
MayRestoreNext(invocation, deadline) ==
    \/ now' >= deadline
    \/ \A c \in Callers : /\ IsRefreshing(c)' => invocation # <<c, calls'[c]>>
                          /\ \A n \in 1 .. MaxCalls : n > calls'[c] => invocation # <<c, n>>

\* The clock only advances, so a justified restoration stays justified.
LEMMA MayRestoreStays ==
    ASSUME Inv, [Next]_vars, NEW i, NEW deadline \in Nat, MayRestore(i, deadline)
    PROVE  MayRestoreNext(i, deadline)
<1>1. now \in Nat /\ (now' = now \/ now' = now + 1)
  <2>1. ASSUME NEW d \in Callers, CallerStep(d) PROVE now' = now
    BY <2>1, CallerMoves
  <2>2. ASSUME NEW a \in Authorizations, PersistAuthorization(a) PROVE now' = now
    BY <2>2 DEF PersistAuthorization
  <2>3. HeadWriteArrives \/ ResultArrives \/ Tick \/ UNCHANGED vars => now' = now \/ now' = now + 1
    BY DEF HeadWriteArrives, ResultArrives, Tick, vars
  <2> QED BY <2>1, <2>2, <2>3, ExchangeAssumption DEF Next, Inv, TypeOK
<1>2. HasEnded(i) => HasEnded(i)'
  BY EndedStays
<1> QED BY <1>1, <1>2 DEF MayRestore, MayRestoreNext, HasEnded

\* A fence of the head's past stays there, and the head keeps the deadline of an admission
\* as long as it keeps its fence.
LEMMA KnowledgeStays ==
    ASSUME Inv, [Next]_vars, NEW f \in Nat, NEW deadline, object # Absent, f <= object.fence,
           f = object.fence /\ object.mutation # None => object.mutation.deadline = deadline
    PROVE  /\ object' # Absent /\ f <= object'.fence
           /\ f = object'.fence /\ object'.mutation # None => object'.mutation.deadline = deadline
<1>1. object' # Absent /\ WellFormed(object) /\ WellFormed(object')
  BY HeadStep DEF Inv
<1>2. object.fence \in Nat /\ object'.fence \in Nat
  BY <1>1 DEF WellFormed, Records
<1>3. CASE object' = object
  BY <1>1, <1>3
<1>4. CASE object' # object
  <2>1. \/ object'.fence = object.fence + 1
        \/ object'.fence = object.fence /\ object'.mutation = None
    BY <1>1, <1>4, HeadStep DEF Follows, Fence, WellFormed
  <2> QED BY <1>1, <1>2, <2>1
<1> QED BY <1>3, <1>4

\* What a caller knows of its admission stays true of the head while their fences agree.
LEMMA KnowsStays ==
    ASSUME Inv, [Next]_vars, NEW c \in Callers, KnowsAdmission(c)
    PROVE  KnowsAdmission(c)'
<1>0. caller[c].admission.fence \in Nat /\ Inv' /\ caller'[c].admission.fence \in Nat
  BY CallerTypes, InvStep, CallerStepInOrder DEF Inv, TypeOK, CallerStates, Admissions
<1>1. CASE /\ caller[c].pc \notin {"idle", "write", "observe"}
           /\ caller'[c].admission = caller[c].admission
  BY <1>0, <1>1, KnowledgeStays DEF KnowsAdmission
<1>2. CASE caller'[c].pc \in {"idle", "write", "observe"}
  BY <1>2 DEF KnowsAdmission
<1>3. CASE IsAdmittedNow(c)
  <2>1. caller[c].op \in {"refresh", "authorize"} /\ caller[c].pc \in {"write", "observe"}
        /\ object' = NewRecord(c) /\ caller'[c].admission = caller[c].admission
    BY <1>3 DEF IsAdmittedNow, ForProvider, Turns
  <2>2. WellFormed(object') /\ object'.mutation.deadline = caller[c].admission.deadline
        /\ object'.fence = caller[c].admission.fence
    BY <2>1, NewRecordInOrder
  <2> QED BY <1>0, <2>1, <2>2, DistinctAssumption DEF KnowsAdmission, WellFormed
<1>4. CASE FoundPending(c)
  BY <1>0, <1>4 DEF FoundPending, KnowsAdmission
<1>5. CASE caller'[c] = caller[c]
  BY <1>1, <1>2, <1>5
<1>6. CASE Moves(c)
  <2>1. CASE Turned(c) \/ Dispatched(c)
    BY <1>1, <1>2, <2>1 DEF Turned, Turns, Dispatched
  <2>2. CASE caller'[c] = Idle \/ Began(c) \/ FoundAdmission(c)
    BY <1>2, <2>2 DEF Idle, Began, FoundAdmission
  <2> QED BY <1>3, <1>4, <1>6, <2>1, <2>2 DEF Moves
<1> QED BY <1>5, <1>6, NextMoves

\* The restore of a caller at write stays justified, and so does what it may still apply.
LEMMA JustifiedStays ==
    ASSUME Inv, [Next]_vars, NEW c \in Callers, OnTime(c), KnowsAdmission(c), RestoreIsJustified(c)
    PROVE  RestoreIsJustified(c)'
<1> DEFINE k == caller[c]
           m == k.base.mutation
<1>0. k.admission.deadline \in Nat /\ calls[c] \in Nat /\ CallerInOrder(c)
  BY CallerTypes DEF Inv
<1> DEFINE next == caller'[c]
<1> SUFFICES /\ next.pc = "restore" => MayRestoreNext(next.admission.id, next.admission.deadline)
             /\ next.pc \in {"write", "observe"} /\ next.op = "restore" =>
                   MayRestoreNext(next.base.mutation.invocation, next.base.mutation.deadline)
  BY DEF RestoreIsJustified, MayRestore, HasEnded, MayRestoreNext
<1>1. CASE caller'[c] = caller[c]
  <2>1. k.pc = "restore" => MayRestoreNext(k.admission.id, k.admission.deadline)
    BY <1>0, MayRestoreStays DEF RestoreIsJustified
  <2>2. k.pc \in {"write", "observe"} /\ k.op = "restore" => m.deadline \in Nat
    BY <1>0 DEF CallerInOrder, IsAdmission, IsCompletion, WellFormed, Records, Mutations
  <2>3. k.pc \in {"write", "observe"} /\ k.op = "restore" => MayRestoreNext(m.invocation, m.deadline)
    BY <2>2, MayRestoreStays DEF RestoreIsJustified
  <2> QED BY <1>1, <2>1, <2>3
<1>2. CASE caller'[c] = Idle \/ Began(c) \/ IsAdmittedNow(c) \/ Dispatched(c) \/ FoundPending(c)
  BY <1>2 DEF Idle, Began, IsAdmittedNow, Turns, Dispatched, FoundPending
<1>3. CASE FoundAdmission(c)
  <2>1. /\ object # Absent /\ object.mutation # None /\ object.fence = k.admission.fence
        /\ object.mutation.id = k.admission.id /\ object.status = k.admission.kind
        /\ caller'[c].base = object /\ caller'[c].op = k.pc /\ caller'[c].pc = "write"
    BY <1>3 DEF FoundAdmission, require_admission
  <2>2. CASE k.pc = "restore"
    <3>1. object.mutation.deadline = k.admission.deadline
      BY <2>1, <2>2 DEF KnowsAdmission
    <3>2. object.mutation.invocation = k.admission.id
      BY <1>0, <2>1, <2>2 DEF CallerInOrder, Inv, WellFormed
    <3>3. MayRestoreNext(k.admission.id, k.admission.deadline)
      BY <1>0, <2>2, MayRestoreStays DEF RestoreIsJustified
    <3> QED BY <2>1, <3>1, <3>2, <3>3
  <2>3. CASE k.pc # "restore"
    BY <2>1, <2>3
  <2> QED BY <2>2, <2>3
<1>4. CASE Turned(c) /\ now' = now
  <2>1. CASE caller'[c].pc # "restore"
    <3>1. CASE k.pc = "write" /\ Turns(c, "observe")
      <4>1. k.op = "restore" => m.deadline \in Nat
        BY <1>0, <3>1 DEF CallerInOrder, IsAdmission, IsCompletion, WellFormed, Records, Mutations
      <4>2. k.op = "restore" => MayRestoreNext(m.invocation, m.deadline)
        BY <3>1, <4>1, MayRestoreStays DEF RestoreIsJustified
      <4> QED BY <3>1, <4>2 DEF Turns
    <3>2. CASE k.pc # "write"
      BY <1>4, <2>1, <3>2 DEF Turned, Turns
    <3> QED BY <1>4, <3>1, <3>2 DEF Turned
  <2>2. CASE k.pc = "provider" /\ Turns(c, "restore") /\ k.op = "refresh"
    <3>1. k.admission.id = <<c, calls[c]>>
      BY <1>0, <2>2 DEF CallerInOrder, IsAdmission
    <3>2. MayRestoreNext(<<c, calls[c]>>, k.admission.deadline)
      <4>1. ~IsRefreshing(c)' /\ calls'[c] = calls[c]
        BY <2>2 DEF IsRefreshing, Turns
      <4>2. \A d \in Callers, n \in Nat : <<c, calls[c]>> = <<d, n>> => d = c /\ n = calls[c]
        OBVIOUS
      <4>3. \A d \in Callers : calls'[d] \in Nat
        BY InvStep, ExchangeAssumption DEF Inv, TypeOK
      <4> QED BY <1>0, <4>1, <4>2, <4>3 DEF MayRestoreNext
    <3> QED BY <2>2, <3>1, <3>2 DEF Turns
  <2>3. CASE k.pc = "expiry" /\ Turns(c, "restore") /\ now >= k.admission.deadline
    BY <1>4, <2>3 DEF MayRestoreNext, Turns
  <2> QED BY <1>4, <2>1, <2>2, <2>3 DEF Turned, Turns
<1> QED BY <1>1, <1>2, <1>3, <1>4, NextMoves DEF Moves

\* A restoration that becomes a late write was justified when it was sent.
LEMMA LateStaysJustified ==
    ASSUME Inv, [Next]_vars, LateIsJustified, \A c \in Callers : RestoreIsJustified(c)
    PROVE  LateIsJustified'
<1>1. ASSUME NEW w \in late, Restores(w.expected, w.contents)
      PROVE  MayRestoreNext(w.expected.mutation.invocation, w.expected.mutation.deadline)
  <2>1. w.expected.mutation.deadline \in Nat
    BY <1>1 DEF Inv, LateInOrder, Restores, WellFormed, Records, Mutations
  <2> QED BY <1>1, <2>1, MayRestoreStays DEF LateIsJustified
<1>2. ASSUME NEW c \in Callers, caller[c].pc = "write", Restores(caller[c].base, NewRecord(c))
      PROVE  MayRestoreNext(caller[c].base.mutation.invocation, caller[c].base.mutation.deadline)
  <2>1. caller[c].op = "restore"
    BY <1>2, NewRecordInOrder
  <2>2. caller[c].base.mutation.deadline \in Nat
    BY <1>2 DEF Inv, CallerInOrder, Restores, WellFormed, Records, Mutations
  <2> QED BY <1>2, <2>1, <2>2, MayRestoreStays DEF RestoreIsJustified
<1>3. \/ late' \subseteq late
      \/ \E c \in Callers :
            /\ caller[c].pc = "write"
            /\ late' = late \union {[expected |-> caller[c].base, contents |-> NewRecord(c)]}
  BY StoreStep DEF storeVars, WriteAccepted, WriteUnknown, LateWriteArrives
<1> SUFFICES \A w \in late' : Restores(w.expected, w.contents) =>
                MayRestoreNext(w.expected.mutation.invocation, w.expected.mutation.deadline)
  BY DEF LateIsJustified, MayRestore, HasEnded, MayRestoreNext
<1> DEFINE Goal == \A w \in late' : Restores(w.expected, w.contents) =>
                      MayRestoreNext(w.expected.mutation.invocation, w.expected.mutation.deadline)
<1>4. ASSUME NEW c \in Callers, caller[c].pc = "write",
             late' = late \union {[expected |-> caller[c].base, contents |-> NewRecord(c)]}
      PROVE  Goal
  BY <1>1, <1>2, <1>4
<1>5. ASSUME late' \subseteq late PROVE Goal
  BY <1>1, <1>5
<1> QED BY <1>3, <1>4, <1>5

\* Whoever restores a credential, now or by a late write, may do so.
LEMMA AppliedRestoreIsJustified ==
    ASSUME Inv, [Next]_vars, LateIsJustified, \A c \in Callers : RestoreIsJustified(c),
           object' # object, Restores(object, object')
    PROVE  MayRestore(object.mutation.invocation, object.mutation.deadline)
<1>1. CASE \E c \in Callers : caller[c].pc = "write" /\ object = caller[c].base /\ object' = NewRecord(c)
  BY <1>1, NewRecordInOrder DEF RestoreIsJustified
<1>2. CASE \E w \in late : object = w.expected /\ object' = w.contents
  BY <1>2 DEF LateIsJustified
<1> QED BY <1>1, <1>2, StoreStep DEF storeVars, WriteAccepted, WriteUnknown, LateWriteArrives

\* A rotating caller read a credential older than its own fence.
LEMMA RotationFacts ==
    ASSUME Inv, NEW c \in Callers, Rotates(c)
    PROVE  /\ IsAdmission(c)
           /\ caller[c].invocation = <<c, calls[c]>>
           /\ caller[c].base # Absent
           /\ caller[c].base.status = "READY"
           /\ caller[c].base.credential # None
           /\ caller[c].base.credential.fence \in Nat
           /\ caller[c].base.credential.fence < caller[c].admission.fence
<1>1. IsAdmission(c) /\ (caller[c].base # Absent => WellFormed(caller[c].base))
  BY DEF Rotates, Inv, CallerInOrder
<1>2. caller[c].base # Absent /\ caller[c].base.status = "READY" /\ caller[c].invocation = <<c, calls[c]>>
      /\ caller[c].admission.fence = caller[c].base.fence + 1
  BY <1>1 DEF IsAdmission, Rotates, Fence
<1>3. /\ caller[c].base.credential # None
      /\ caller[c].base.credential.fence \in Nat
      /\ caller[c].base.fence \in Nat
      /\ caller[c].base.credential.fence <= caller[c].base.fence
  BY <1>1, <1>2 DEF WellFormed, Records, ResultRefs
<1> QED BY <1>1, <1>2, <1>3

\* The head that a rotating caller holds before its deadline is not given back to another rotation of the same
\* credential, whoever writes it.
LEMMA HeldStays ==
    ASSUME Inv, RotationInv, [Next]_vars, NEW c \in Callers,
           Rotates(c), now < caller[c].admission.deadline, object' # object, object'.credential = caller[c].base.credential
    PROVE  object'.status \notin {"READY", "REFRESHING"}
<1> DEFINE x == caller[c].base.credential
<1>1. /\ x # None /\ x.fence \in Nat /\ x.fence < caller[c].admission.fence
      /\ caller[c].invocation = <<c, calls[c]>>
  BY RotationFacts
<1>2. object # Absent /\ caller[c].admission.fence <= object.fence /\ caller[c].admission.fence \in Nat
  BY CallerTypes DEF RotationInv, KnowsAdmission, Rotates
<1>3. WellFormed(object) /\ WellFormed(object') /\ Follows(object, object')
  BY <1>2, HeadStep DEF Inv
<1>4. object.fence \in Nat /\ x.fence < object.fence
  BY <1>1, <1>2, <1>3 DEF WellFormed, Records
<1>5. object.credential = x =>
        /\ object.status # "READY"
        /\ object.status = "REFRESHING" => object.mutation.invocation = <<c, calls[c]>>
                                           /\ object.mutation.deadline = caller[c].admission.deadline
  BY <1>1 DEF RotationInv, HeadIsHeld
<1>6. ~(object.credential = x /\ object.status = "REFRESHING" /\ object'.status = "READY")
  <2> SUFFICES ASSUME object.credential = x, object.status = "REFRESHING", object'.status = "READY"
               PROVE  FALSE
    OBVIOUS
  <2>1. MayRestore(object.mutation.invocation, object.mutation.deadline)
    BY <1>2, AppliedRestoreIsJustified DEF Restores, RotationInv
  <2>2. ~(now >= caller[c].admission.deadline)
    BY CallerTypes
  <2>3. ~HasEnded(<<c, calls[c]>>)
    BY DEF HasEnded, IsRefreshing, Rotates
  <2> QED BY <1>5, <2>1, <2>2, <2>3 DEF MayRestore
<1>7. object'.status \in {"READY", "REFRESHING"} => object.credential = x
  <2>1. CASE object'.credential = object.credential
    BY <2>1
  <2>2. CASE object'.credential = [id |-> Replaced, fence |-> object.fence + 1]
    BY <1>4, <2>2
  <2>3. CASE object'.credential = [id |-> object.mutation.id, fence |-> object.fence]
    BY <1>4, <2>3
  <2> QED BY <1>2, <1>3, <2>1, <2>2, <2>3 DEF Follows, Fence, Credential
<1>8. object'.status = "REFRESHING" => object.status = "READY"
  BY <1>3 DEF Follows
<1>9. object'.status = "READY" => object.credential # x
  <2> SUFFICES ASSUME object'.status = "READY", object.credential = x PROVE FALSE
    OBVIOUS
  <2>1. object.status # "REFRESHING"
    BY <1>6
  <2>2. CASE object'.credential = [id |-> Replaced, fence |-> object.fence + 1]
    BY <1>4, <2>2
  <2>3. CASE object'.credential = [id |-> object.mutation.id, fence |-> object.fence]
    BY <1>4, <2>3
  <2> QED BY <1>2, <1>3, <2>1, <2>2, <2>3 DEF Follows, Fence
<1> QED BY <1>5, <1>7, <1>8, <1>9

\* The admission of a refresh puts its own record at the head.
LEMMA AdmittedHead ==
    ASSUME Inv, NEW c \in Callers, IsAdmittedNow(c), caller[c].op = "refresh"
    PROVE  /\ IsAdmission(c)
           /\ object'.status = "REFRESHING"
           /\ object'.credential = caller[c].base.credential
           /\ object'.mutation.invocation = caller[c].invocation
           /\ object'.mutation.deadline = caller[c].admission.deadline
<1>1. /\ caller[c].pc \in {"write", "observe"} /\ object' = NewRecord(c)
      /\ caller[c].op \in {"refresh", "authorize"}
  BY DEF IsAdmittedNow
<1>2. IsAdmission(c)
  BY <1>1 DEF Inv, CallerInOrder, IsCompletion
<1>3. caller[c].admission.kind = "REFRESHING" /\ caller[c].base # Absent
  BY <1>2 DEF IsAdmission
<1> QED BY <1>1, <1>2, <1>3, NewRecordInOrder DEF Follows, Credential

\* A caller that is admitted while another rotates before its deadline does not rotate the
\* same credential.
LEMMA AdmittedIsAlone ==
    ASSUME Inv, RotationInv, NEW c \in Callers, NEW d \in Callers,
           IsAdmittedNow(c), caller[c].op = "refresh", Rotates(d), now < caller[d].admission.deadline,
           caller[c].base.credential = caller[d].base.credential
    PROVE  c = d
<1>1. /\ object.credential = caller[d].base.credential => object.status # "READY"
      /\ object.credential = caller[d].base.credential /\ object.status = "REFRESHING" =>
            object.mutation.invocation = caller[d].invocation
  BY DEF RotationInv, HeadIsHeld
<1>2. IsAdmission(c) /\ caller[d].invocation = <<d, calls[d]>>
  BY AdmittedHead, RotationFacts
<1>3. CASE caller[c].pc = "write"
  BY <1>1, <1>2, <1>3 DEF IsAdmittedNow, IsAdmission
<1>4. CASE caller[c].pc = "observe"
  <2>1. object.status = "REFRESHING" /\ object.credential = caller[c].base.credential
        /\ object.mutation.invocation = caller[c].invocation
    BY <1>4, AdmittedHead DEF IsAdmittedNow
  <2>2. <<c, calls[c]>> = <<d, calls[d]>>
    BY <1>1, <1>2, <2>1 DEF IsAdmission
  <2> QED BY <2>2
<1> QED BY <1>3, <1>4 DEF IsAdmittedNow

\* A caller is admitted under a fence above those of all that rotate already.
LEMMA AdmittedIsLast ==
    ASSUME Inv, RotationInv, NEW c \in Callers, NEW d \in Callers,
           IsAdmittedNow(c), caller[c].op = "refresh", Rotates(d),
           caller[c].admission.fence <= caller[d].admission.fence
    PROVE  c = d
<1>1. /\ object # Absent /\ caller[d].admission.fence <= object.fence
      /\ caller[d].admission.fence \in Nat /\ caller[c].admission.fence \in Nat
  BY CallerTypes DEF RotationInv, KnowsAdmission, Rotates
<1>2. WellFormed(object) /\ object.fence \in Nat
  BY <1>1 DEF Inv, WellFormed, Records
<1>3. IsAdmission(c) /\ caller[d].invocation = <<d, calls[d]>>
  BY AdmittedHead, RotationFacts
<1>4. CASE caller[c].pc = "write"
  <2>1. object = caller[c].base /\ caller[c].admission.fence = object.fence + 1
    BY <1>1, <1>3, <1>4 DEF IsAdmittedNow, IsAdmission, Fence
  <2> QED BY <1>1, <1>2, <2>1
<1>5. CASE caller[c].pc = "observe"
  <2>1. /\ object' = object /\ object.fence = caller[c].admission.fence
        /\ object.mutation # None /\ object.mutation.invocation = caller[c].invocation
    <3>1. object' = object /\ object = NewRecord(c) /\ caller[c].op \in {"refresh", "authorize"}
      BY <1>5 DEF IsAdmittedNow
    <3>2. object.fence = caller[c].admission.fence /\ object.status = "REFRESHING"
          /\ object.mutation.invocation = caller[c].invocation
      BY <1>3, <1>5, <3>1, NewRecordInOrder, AdmittedHead
    <3> QED BY <1>2, <3>1, <3>2 DEF WellFormed
  <2>2. caller[d].admission.fence = object.fence
    BY <1>1, <1>2, <2>1
  <2>3. <<c, calls[c]>> = <<d, calls[d]>>
    BY <1>3, <2>1, <2>2 DEF RotationInv, KnowsInvocation, IsAdmission
  <2> QED BY <2>3
<1> QED BY <1>4, <1>5 DEF IsAdmittedNow

\* A caller rotates after a step if it did before, or was admitted by the step.
LEMMA RotationStep ==
    ASSUME Inv, [Next]_vars, NEW c \in Callers, Rotates(c)'
    PROVE  /\ caller'[c].base = caller[c].base
           /\ caller'[c].invocation = caller[c].invocation
           /\ caller'[c].admission = caller[c].admission
           /\ Rotates(c) \/ (IsAdmittedNow(c) /\ caller[c].op = "refresh")
<1>1. CASE caller'[c] = caller[c]
  BY <1>1 DEF Rotates
<1>2. CASE Moves(c)
  BY <1>2 DEF Rotates, Moves, Idle, Began, Turned, Turns, IsAdmittedNow, Dispatched, FoundAdmission, FoundPending
<1> QED BY <1>1, <1>2, NextMoves

\* Two callers do not move in one step.
LEMMA OnlyOneMoves ==
    ASSUME Inv, [Next]_vars, NEW c \in Callers, NEW d \in Callers,
           caller'[c] # caller[c], caller'[d] # caller[d]
    PROVE  c = d
<1>1. ASSUME NEW e \in Callers, CallerStep(e) PROVE c = e /\ d = e
  BY <1>1, CallerMoves
<1>2. ASSUME NEW a \in Authorizations, PersistAuthorization(a) PROVE FALSE
  BY <1>2 DEF PersistAuthorization
<1>3. HeadWriteArrives \/ ResultArrives \/ Tick \/ UNCHANGED vars => caller' = caller
  BY DEF HeadWriteArrives, ResultArrives, Tick, vars
<1> QED BY <1>1, <1>2, <1>3 DEF Next

\* What a rotating caller knows of the head's admission stays true.
LEMMA InvocationStays ==
    ASSUME Inv, RotationInv, [Next]_vars, NEW c \in Callers
    PROVE  KnowsInvocation(c)'
<1> SUFFICES ASSUME Rotates(c)', caller'[c].admission.fence = object'.fence, object'.mutation # None
             PROVE  object'.mutation.invocation = caller'[c].invocation
  BY DEF KnowsInvocation
<1>1. /\ caller'[c].invocation = caller[c].invocation /\ caller'[c].admission = caller[c].admission
      /\ Rotates(c) \/ (IsAdmittedNow(c) /\ caller[c].op = "refresh")
  BY RotationStep
<1>2. CASE IsAdmittedNow(c) /\ caller[c].op = "refresh"
  BY <1>1, <1>2, AdmittedHead
<1>3. CASE Rotates(c) /\ object' = object
  BY <1>1, <1>3 DEF RotationInv, KnowsInvocation
<1>4. CASE Rotates(c) /\ object' # object
  <2>1. object # Absent /\ caller[c].admission.fence <= object.fence /\ caller[c].admission.fence \in Nat
    BY <1>4, CallerTypes DEF RotationInv, KnowsAdmission, Rotates
  <2>2. WellFormed(object) /\ WellFormed(object') /\ Follows(object, object')
    BY <1>4, <2>1, HeadStep DEF Inv
  <2>3. object.fence \in Nat /\ object'.fence \in Nat
    BY <2>2 DEF WellFormed, Records
  <2>4. \/ object'.fence = object.fence + 1
        \/ object'.fence = object.fence /\ object'.mutation = None
    BY <2>1, <2>2 DEF Follows, Fence, WellFormed
  <2> QED BY <1>1, <2>1, <2>3, <2>4
<1> QED BY <1>1, <1>2, <1>3, <1>4

\* The clock does not go back, so a deadline that is ahead was ahead before.
LEMMA DeadlineWasAhead ==
    ASSUME Inv, [Next]_vars, NEW c \in Callers, NEW deadline \in Nat, now' < deadline
    PROVE  now < deadline
<1>1. now \in Nat /\ (now' = now \/ now' = now + 1)
  BY NextMoves, CallerTypes
<1> QED BY <1>1

\* Every step preserves the third layer.
LEMMA RotationInvStep ==
    ASSUME Inv, RotationInv, [Next]_vars
    PROVE  RotationInv'
<1>1. ASSUME NEW c \in Callers
      PROVE  OnTime(c)' /\ KnowsAdmission(c)' /\ KnowsInvocation(c)' /\ RestoreIsJustified(c)'
  BY OnTimeStays, KnowsStays, InvocationStays, JustifiedStays DEF RotationInv
<1>2. LateIsJustified'
  BY LateStaysJustified DEF RotationInv
<1>3. ASSUME NEW c \in Callers PROVE HeadIsHeld(c)'
  <2> SUFFICES ASSUME Rotates(c)', now' < caller'[c].admission.deadline,
                      object'.credential = caller'[c].base.credential
               PROVE  /\ object'.status # "READY"
                      /\ object'.status = "REFRESHING" =>
                            /\ object'.mutation.invocation = caller'[c].invocation
                            /\ object'.mutation.deadline = caller'[c].admission.deadline
    BY DEF HeadIsHeld
  <2>1. /\ caller'[c].base = caller[c].base /\ caller'[c].invocation = caller[c].invocation
        /\ caller'[c].admission = caller[c].admission
        /\ Rotates(c) \/ (IsAdmittedNow(c) /\ caller[c].op = "refresh")
    BY RotationStep
  <2>5. now < caller[c].admission.deadline
    BY <2>1, DeadlineWasAhead, CallerTypes
  <2>2. CASE IsAdmittedNow(c) /\ caller[c].op = "refresh"
    BY <2>1, <2>2, AdmittedHead
  <2>3. CASE Rotates(c) /\ object' = object
    BY <2>1, <2>3, <2>5 DEF RotationInv, HeadIsHeld
  <2>4. CASE Rotates(c) /\ object' # object
    BY <2>1, <2>4, <2>5, HeldStays
  <2> QED BY <2>1, <2>2, <2>3, <2>4
<1>4. ASSUME NEW c \in Callers, NEW d \in Callers, Rotates(c)', Rotates(d)',
             caller'[c].base.credential = caller'[d].base.credential,
             caller'[c].admission.fence <= caller'[d].admission.fence,
             now' < caller'[c].admission.deadline
      PROVE  c = d
  <2>1. /\ caller[c].base.credential = caller[d].base.credential
        /\ caller[c].admission.fence <= caller[d].admission.fence
        /\ caller'[c].admission = caller[c].admission
        /\ Rotates(c) \/ (IsAdmittedNow(c) /\ caller[c].op = "refresh")
        /\ Rotates(d) \/ (IsAdmittedNow(d) /\ caller[d].op = "refresh")
    BY <1>4, RotationStep
  <2>6. now < caller[c].admission.deadline
    BY <1>4, <2>1, DeadlineWasAhead, CallerTypes
  <2>2. CASE Rotates(c) /\ Rotates(d)
    BY <2>1, <2>2, <2>6 DEF RotationInv
  <2>3. CASE ~Rotates(c) /\ Rotates(d)
    BY <2>1, <2>3, AdmittedIsLast
  <2>4. CASE Rotates(c) /\ ~Rotates(d)
    BY <2>1, <2>4, <2>6, AdmittedIsAlone
  <2>5. CASE ~Rotates(c) /\ ~Rotates(d)
    <3>1. caller'[c] # caller[c] /\ caller'[d] # caller[d]
      BY <1>4, <2>5 DEF Rotates
    <3> QED BY <3>1, OnlyOneMoves
  <2> QED BY <2>2, <2>3, <2>4, <2>5
<1> QED BY <1>1, <1>2, <1>3, <1>4 DEF RotationInv

\* Of "CredentialRefreshing prevents concurrent provider rotation while its admitted caller is
\* active" the code keeps this, for any number of callers, calls and late writes, for any
\* timeouts, and however long a write takes: a refresh request sent while its admission had the
\* timeout left is never joined by a later one of the same credential.
THEOREM RotationIsExclusive == Spec => []TimelyRotationIsExclusive
<1>1. Init => RotationInv
  BY DEF Init, StoreInit, Idle, RotationInv, OnTime, KnowsAdmission, KnowsInvocation, RestoreIsJustified, HeadIsHeld, Rotates, LateIsJustified
<1>2. Inv /\ RotationInv /\ [Next]_vars => RotationInv'
  BY RotationInvStep
<1>3. Inv /\ RotationInv => TimelyRotationIsExclusive
  <2> SUFFICES ASSUME Inv, RotationInv, NEW c \in Callers, NEW d \in Callers,
                      IsRotating(c), IsRotating(d), IsTimely(c),
                      caller[c].base.credential = caller[d].base.credential,
                      caller[c].admission.fence <= caller[d].admission.fence
               PROVE  c = d
    BY DEF TimelyRotationIsExclusive
  <2>1. now < caller[c].admission.deadline
    BY CallerTypes, ExchangeAssumption DEF RotationInv, OnTime, IsRotating, IsTimely
  <2> QED BY <2>1 DEF RotationInv, Rotates, IsRotating
<1> QED BY <1>1, <1>2, <1>3, InvHolds, PTL DEF Spec
=============================================================================
