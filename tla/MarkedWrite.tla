----------------------------- MODULE MarkedWrite -----------------------------
(***************************************************************************)
(* A connector Step that writes behind a heartbeat checkpoint of its own,  *)
(* not behind the single-dispatch fence: it looks at the Step's last       *)
(* heartbeat value, records a claim, sends, and takes the claim back only  *)
(* when the answer proves that the provider did nothing.  Profile holds    *)
(* what one operation does; MarkedProfiles has the operations.             *)
(*                                                                         *)
(* The operations declare sync durability, under which Dex starts an       *)
(* attempt only after the previous one ended.  An attempt ends by          *)
(* returning, by a crash or by a time-out; its request may be processed at *)
(* any later time.  A heartbeat is acknowledged before Dex stores it       *)
(* (docs/connector-contract.md), so the next attempt may find any earlier  *)
(* value, or none.                                                         *)
(***************************************************************************)
EXTENDS Integers

CONSTANTS Profiles,     \* the operations
          MaxAttempt    \* bound on the attempts Dex makes of the Step

Attempts == 1 .. MaxAttempt

\* Classes of answer: a usable and an unusable 2xx, a request that could not be
\* built or never left, an HTTP status (408 counts as 5xx), and no answer.
Answers == {"ok", "noID", "notBuilt", "notSent", "429", "503", "4xx", "5xx", "lost"}

\* notFound and invalidResponse say nothing about this Step's own write.
Branches == {"accepted", "rejected", "defect", "uncertain", "notFound"}

Profile ==
    [accepts : SUBSET Answers,          \* reported as accepted
     clears : SUBSET Answers,           \* the claim is taken back, then Retry
     rejects : SUBSET Answers,          \* a definite rejection or defect
     unknowns : SUBSET Answers,         \* uncertain
     keeps : SUBSET Answers,            \* Retry; the claim stays for the next attempt
     confirms : SUBSET Answers,         \* read back at once
     refusals : SUBSET Answers,         \* not processed, as this provider documents
     isNumbered : BOOLEAN,              \* a checkpoint names the attempt that may send
     claimsFirst : BOOLEAN,             \* credentials are resolved after the claim
     credentialsFirst : BOOLEAN,        \* they are resolved before the checkpoint is looked at
     sessionFailures : SUBSET (Branches \union {"retry"}),   \* what a resolver failure selects then
     readsBack : BOOLEAN,               \* a later attempt searches for the write
     looksFirst : {"no", "any", "one"}, \* ... also before it claims; "one": several are uncertain
     findsOthers : BOOLEAN,             \* the search goes by content, not by a key of this Step
     unresolved : SUBSET (Branches \union {"retry"})]        \* of a search that confirms nothing

ASSUME MarkedAssumption ==
    /\ MaxAttempt \in Nat \ {0}
    /\ \A p \in Profiles :
          /\ p \in Profile
          /\ UNION {p.accepts, p.clears, p.rejects, p.unknowns, p.keeps, p.confirms} = Answers
          /\ p.accepts \subseteq {"ok", "noID"}
          /\ p.refusals \cap {"ok", "noID", "lost"} = {}

\* An operation takes its claim back only after an answer that proves that nothing
\* was processed.
ClearsOnProof(p) == p.clears \subseteq p.refusals

\* An attempt that looked at the checkpoint settles on a definite branch only after an
\* answer that proves it.
SettlesOnProof(p) ==
    /\ p.rejects \subseteq p.refusals
    /\ "accepted" \notin p.sessionFailures
    /\ {"accepted", "rejected", "defect"} \cap p.unresolved = {}

\* The Step's heartbeat value: nothing, the claim of an attempt, or its permit
\* for the next attempt.
NoCheckpoint == [kind |-> "none", attempt |-> 0]

Claim(n) == [kind |-> "claim", attempt |-> n]

Permit(n) == [kind |-> "permit", attempt |-> n]

VARIABLES
    profile,       \* the operation this Step performs
    attempt,       \* the running attempt, or the last one
    pc,            \* where it is
    checkpoint,    \* the Step's heartbeat value
    frames,        \* every value that was recorded: what Dex may have stored
    lost,          \* history: the attempts after which a recorded claim was not found
    request,       \* the provider's side of each attempt's write
    answer,        \* the class of answer the running attempt received
    result,        \* the branch Dex settled the Step with
    isDisturbed    \* history: something happened that can excuse uncertain

heartbeats == <<checkpoint, frames>>

vars == <<profile, attempt, pc, checkpoint, frames, lost, request, answer, result, isDisturbed>>

Init ==
    /\ profile \in Profiles
    /\ attempt = 1
    /\ pc = "start"
    /\ checkpoint = NoCheckpoint
    /\ frames = {NoCheckpoint}
    /\ lost = {}
    /\ request = [n \in Attempts |-> "none"]
    /\ answer = "none"
    /\ result = "none"
    /\ isDisturbed = FALSE
-----------------------------------------------------------------------------
Notes(isTrouble) == isDisturbed' = (isDisturbed \/ isTrouble)

\* The attempt goes on.
Continues(label, isTrouble) ==
    /\ pc' = label
    /\ Notes(isTrouble)
    /\ UNCHANGED <<profile, attempt, lost, result>>

\* The attempt returns Retry or selects a branch, which settles the Step.
Ends(label, outcome, isTrouble) ==
    /\ pc' = IF outcome = "retry" THEN "retry" ELSE label
    /\ result' = IF outcome = "retry" THEN result ELSE outcome
    /\ Notes(isTrouble)
    /\ UNCHANGED <<profile, attempt, lost>>

Returns(outcome, isTrouble) == Ends("settled", outcome, isTrouble)

\* A heartbeat is acknowledged, or it raises and may have arrived all the same.
Records(c) ==
    /\ checkpoint' = c
    /\ frames' = frames \union {c}

RecordFails(c) == Records(c) \/ UNCHANGED heartbeats

\* What shows that nothing was sent: a permit, or a heartbeat without a value.
Release == IF profile.isNumbered THEN Permit(attempt) ELSE NoCheckpoint

\* A release is recorded at best effort; the attempt returns the same either way.
Releases(outcome) ==
    \/ Records(Release) /\ Returns(outcome, FALSE)
    \/ RecordFails(Release) /\ Returns(outcome, TRUE)

\* Dex starts the next attempt with the last value it stored, or with none.
StartAttempt ==
    /\ pc = "retry"
    /\ attempt < MaxAttempt
    /\ attempt' = attempt + 1
    /\ pc' = "start"
    /\ answer' = "none"
    /\ \E kept \in frames :
          /\ checkpoint' = kept
          /\ lost' = IF checkpoint.kind = "claim" /\ kept.kind # "claim" THEN lost \union {attempt} ELSE lost
          /\ Notes(kept # checkpoint)
    /\ UNCHANGED <<profile, frames, request, result>>

\* The worker dies, or the attempt times out.
Crash ==
    /\ pc \notin {"retry", "settled", "unopened"}
    /\ pc' = "retry"
    /\ isDisturbed' = TRUE
    /\ UNCHANGED <<profile, attempt, heartbeats, lost, request, answer, result>>
-----------------------------------------------------------------------------
(* Before the send.                                                        *)

MaySendNow ==
    IF profile.isNumbered
    THEN checkpoint = (IF attempt = 1 THEN NoCheckpoint ELSE Permit(attempt - 1))
    ELSE checkpoint = NoCheckpoint

\* A credential, or a read made before the checkpoint is looked at, fails: the branch
\* says nothing about earlier attempts.
SessionFails ==
    /\ pc = "start"
    /\ profile.credentialsFirst
    /\ \E outcome \in profile.sessionFailures : Ends("unopened", outcome, FALSE)
    /\ UNCHANGED <<heartbeats, request, answer>>

\* An earlier attempt may have sent, or the checkpoint cannot be read.
FindCheckpoint ==
    /\ pc = "start"
    /\ \E isUnreadable \in BOOLEAN :
          /\ ~MaySendNow \/ isUnreadable
          /\ IF profile.readsBack THEN Continues("readBack", isUnreadable)
                                  ELSE Returns("uncertain", isUnreadable)
    /\ UNCHANGED <<heartbeats, request, answer>>

PassCheckpoint ==
    /\ pc = "start"
    /\ MaySendNow
    /\ Continues("prepare", FALSE)
    /\ UNCHANGED <<heartbeats, request, answer>>

\* Input, credentials or a lookup fail before anything was claimed.
PreparationFails ==
    /\ pc = "prepare"
    /\ ~profile.claimsFirst
    /\ \/ ~profile.isNumbered /\ Returns("retry", FALSE) /\ UNCHANGED heartbeats
       \/ profile.isNumbered /\ Releases("retry")
       \/ Returns("defect", FALSE) /\ UNCHANGED heartbeats
       \/ Returns("rejected", FALSE) /\ UNCHANGED heartbeats
    /\ UNCHANGED <<request, answer>>

RecordClaim ==
    /\ pc = "prepare"
    /\ Records(Claim(attempt))
    /\ Continues("claimed", FALSE)
    /\ UNCHANGED <<request, answer>>

\* Nothing is sent. A numbered operation may permit the next attempt after that.
ClaimFails ==
    /\ pc = "prepare"
    /\ RecordFails(Claim(attempt)) \/ (profile.isNumbered /\ Records(Permit(attempt)))
    /\ Returns("retry", TRUE)
    /\ UNCHANGED <<request, answer>>

\* Credentials are resolved after the claim, and fail.
CredentialsFail ==
    /\ pc = "claimed"
    /\ profile.claimsFirst
    /\ Releases("retry") \/ (Returns("defect", FALSE) /\ UNCHANGED heartbeats)
    /\ UNCHANGED <<request, answer>>
-----------------------------------------------------------------------------
(* The send and its answer.                                                *)

Send ==
    /\ pc = "claimed"
    /\ request' = [request EXCEPT ![attempt] = "inFlight"]
    /\ Continues("sent", FALSE)
    /\ UNCHANGED <<heartbeats, answer>>

\* An answer tells the truth about what the provider did.
Receive ==
    /\ pc = "sent"
    /\ \E r \in Answers :
          /\ r \in {"ok", "noID"} => request[attempt] = "processed"
          /\ r \in profile.refusals => request[attempt] = "refused"
          /\ answer' = r
          /\ Continues("classify", r # "ok" /\ r \notin profile.refusals)
    /\ UNCHANGED <<heartbeats, request>>

ReportAccepted ==
    /\ pc = "classify"
    /\ answer \in profile.accepts
    /\ Returns("accepted", FALSE)
    /\ UNCHANGED <<heartbeats, request, answer>>

\* Mutant: Retry is returned with the claim still recorded.
ClearAndRetry_KeepsClaim ==
    /\ pc = "classify"
    /\ answer \in profile.clears
    /\ Returns("retry", FALSE)
    /\ UNCHANGED <<heartbeats, request, answer>>

ClearAndRetry ==
    /\ pc = "classify"
    /\ answer \in profile.clears
    /\ Releases("retry")
    /\ UNCHANGED <<request, answer>>

\* Some operations take the claim back here too, which a settled Step never reads.
ReturnRejected ==
    /\ pc = "classify"
    /\ answer \in profile.rejects
    /\ Returns(IF answer = "notBuilt" THEN "defect" ELSE "rejected", FALSE)
    /\ UNCHANGED <<heartbeats, request, answer>>

ReturnUncertain ==
    /\ pc = "classify"
    /\ answer \in profile.unknowns
    /\ Returns("uncertain", FALSE)
    /\ UNCHANGED <<heartbeats, request, answer>>

KeepClaim ==
    /\ pc = "classify"
    /\ answer \in profile.keeps
    /\ Returns("retry", FALSE)
    /\ UNCHANGED <<heartbeats, request, answer>>

ConfirmAtOnce ==
    /\ pc = "classify"
    /\ answer \in profile.confirms
    /\ Continues("readBack", FALSE)
    /\ UNCHANGED <<heartbeats, request, answer>>
-----------------------------------------------------------------------------
(* Reading back.                                                           *)

\* Some search before they claim as well: the claim of an earlier attempt may be lost.
IsLooking == pc = "readBack" \/ (pc = "prepare" /\ profile.looksFirst # "no")

\* Mutant: a match of somebody else's counts.
ReadBackFinds_Anything ==
    /\ IsLooking
    /\ Returns("accepted", FALSE)
    /\ UNCHANGED <<heartbeats, request, answer>>

ReadBackFinds ==
    /\ IsLooking
    /\ profile.findsOthers \/ \E n \in Attempts : request[n] = "processed"
    /\ Returns("accepted", FALSE)
    /\ UNCHANGED <<heartbeats, request, answer>>

LookFindsSeveral ==
    /\ pc = "prepare"
    /\ profile.looksFirst = "one"
    /\ \E n, k \in Attempts : n < k /\ request[n] = "processed" /\ request[k] = "processed"
    /\ Returns("uncertain", FALSE)
    /\ UNCHANGED <<heartbeats, request, answer>>

\* Nothing is found, or credentials or the search fail. Some record the claim again.
ReadBackFails ==
    /\ pc = "readBack"
    /\ \E outcome \in profile.unresolved : Returns(outcome, FALSE)
    /\ UNCHANGED <<heartbeats, request, answer>>
-----------------------------------------------------------------------------
\* The provider (external).
Provider ==
    \E n \in Attempts :
        /\ request[n] = "inFlight"
        /\ \E fate \in {"processed", "refused"} : request' = [request EXCEPT ![n] = fate]
        /\ UNCHANGED <<profile, attempt, pc, heartbeats, lost, answer, result, isDisturbed>>

Dex == StartAttempt \/ Crash

Preparation ==
    \/ SessionFails
    \/ FindCheckpoint
    \/ PassCheckpoint
    \/ PreparationFails
    \/ RecordClaim
    \/ ClaimFails
    \/ CredentialsFail

Classification ==
    \/ ReportAccepted
    \/ ClearAndRetry
    \/ ReturnRejected
    \/ ReturnUncertain
    \/ KeepClaim
    \/ ConfirmAtOnce
    \/ ReadBackFinds
    \/ LookFindsSeveral
    \/ ReadBackFails

Next == Dex \/ Preparation \/ Send \/ Receive \/ Classification \/ Provider

Spec == Init /\ [][Next]_vars
-----------------------------------------------------------------------------
Checkpoints == [kind : {"none", "claim", "permit"}, attempt : 0 .. MaxAttempt]

\* Every variable has its type; a value names the attempt that recorded it.
TypeOK ==
    /\ profile \in Profiles
    /\ attempt \in Attempts
    /\ pc \in {"start", "prepare", "claimed", "sent", "classify", "readBack", "retry", "settled",
              "unopened"}
    /\ checkpoint \in Checkpoints
    /\ frames \subseteq Checkpoints
    /\ lost \subseteq Attempts
    /\ request \in [Attempts -> {"none", "inFlight", "processed", "refused"}]
    /\ answer \in Answers \union {"none"}
    /\ result \in Branches \union {"none"}
    /\ isDisturbed \in BOOLEAN

MayBeProcessed(n) == request[n] \in {"inFlight", "processed"}

\* What every operation means to do: no two attempts' writes are or may be processed.
NeverTwice == \A n, k \in Attempts : MayBeProcessed(n) /\ MayBeProcessed(k) => n = k

\* Although attempts crash, time out and lose their answers, a write follows another only
\* when the operation does not number its attempts and a claim recorded since the first of
\* them was lost: every further write costs a lost heartbeat (the claim before each send).
AtMostOneWrite ==
    \A n, k \in Attempts :
        n < k /\ MayBeProcessed(n) /\ MayBeProcessed(k) =>
            ~profile.isNumbered /\ \E m \in lost : n <= m /\ m < k

\* Nothing shows the operation any more that attempt n may have written.
IsForgotten(n) == ~profile.isNumbered /\ \E m \in lost : n <= m

\* After a rejection or a defect no write was or may still be processed.
FailureIsTrue == result \in {"rejected", "defect"} => \A n \in Attempts : ~MayBeProcessed(n)

\* A definite branch is true of every attempt. accepted names a processed write of this
\* Step, except that a search by content may take another's for it, once something went
\* wrong or where it precedes the send; and an attempt that looked at the checkpoint
\* ends with a rejection or a defect only when nothing was written but what a lost
\* claim hides.
HonestOutcome ==
    /\ result = "accepted" =>
          \/ \E n \in Attempts : request[n] = "processed"
          \/ profile.findsOthers /\ (isDisturbed \/ profile.looksFirst # "no")
    /\ pc = "settled" /\ result \in {"rejected", "defect"} =>
          \A n \in Attempts : MayBeProcessed(n) => IsForgotten(n)

\* uncertain is selected only after something went wrong: a Step whose heartbeats and
\* answers all arrive never loses a write it could have retried.
UncertaintyHasCause == result = "uncertain" => isDisturbed
=============================================================================
