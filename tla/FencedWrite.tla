---------------------------- MODULE FencedWrite -----------------------------
(***************************************************************************)
(* A connector's provider write that has no idempotency key: the Step that *)
(* drives the fence of SingleDispatch.  Every such Step of the connectors  *)
(* has the same shape,                                                     *)
(*                                                                         *)
(*   decide; prepare (credentials, lookups, body); dispatch; classify      *)
(*                                                                         *)
(* and they differ in what each class of response means to them.  That     *)
(* difference is the record profile (one per operation, in                 *)
(* ConnectorProfiles); the control they share is here.  SingleDispatch     *)
(* only assumes that its caller records canResend with positive proof and  *)
(* a provider ID of its own write; here the caller does what the code      *)
(* does, a search that may find anything this Step wrote included, so      *)
(* FenceSpec is something to check.                                        *)
(***************************************************************************)
EXTENDS SingleDispatch

CONSTANT Profiles        \* the operations to consider, members of Profile

\* Classes of response: a complete acceptance; 2xx without a usable ID; an ID in an
\* answer that does not confirm the rest; a connection that never opened; an HTTP
\* status (overload is 504 or 529); and no response at all.
Responses == {"ok", "noID", "idOnly", "notSent", "429", "503", "401", "408", "409", "4xx",
              "overload", "5xx", "lost"}

Outcomes == {"none", "accepted", "rejected", "defect", "uncertain", "retry"}

Profile ==
    [accepts : SUBSET Responses,      \* reported as accepted
     resends : SUBSET Responses,      \* record_can_resend, then Retry
     rejects : SUBSET Responses,      \* a definite provider rejection
     unknowns : SUBSET Responses,     \* uncertain
     retries : SUBSET Responses,      \* Retry without a checkpoint
     confirms : SUBSET Responses,     \* record_provider_id, then read back
     saves : SUBSET Responses,        \* record_provider_id, then Retry
     lookups : SUBSET Responses,      \* read back at once
     looksFirst : SUBSET (Responses \union {"none"}),  \* search before acting on it, or before sending
     recordsFound : SUBSET Responses, \* record_provider_id of what a search after it found
     refusals : SUBSET Responses,     \* documented by this provider as not processed
     recordsID : BOOLEAN,             \* record_provider_id after an acceptance
     keepsAcceptance : BOOLEAN,       \* a failing record_provider_id is caught
     resendFailure : {"retry", "uncertain"},  \* when record_can_resend fails
     failClosed : {"uncertain", "defect", "readBack"},  \* on FAIL_CLOSED
     readsBack : SUBSET {"ID", "key"},\* what the read-back can search by
     unresolved : SUBSET {"retry", "uncertain"},  \* of a read-back that confirms nothing
     credentialsFirst : BOOLEAN]      \* credentials are resolved before decide

ASSUME ProfilesAssumption ==
    \A p \in Profiles :
        /\ p \in Profile
        /\ UNION {p.accepts, p.resends, p.rejects, p.unknowns, p.retries,
                  p.confirms, p.saves, p.lookups} = Responses
        /\ "ok" \in p.accepts /\ p.accepts \subseteq {"ok", "noID", "idOnly"}
        /\ p.refusals \cap {"ok", "noID", "idOnly", "lost"} = {}

VARIABLES
    profile,      \* the operation this Step performs
    pc,           \* where each attempt is
    response,     \* the class of response each attempt's send returned
    outcome,      \* what each attempt returned to Dex
    result,       \* the outcome Dex settled the Step with
    isDisturbed   \* history: something went wrong that can excuse an uncertain result

stepVars == <<profile, pc, response, outcome, result, isDisturbed>>

WriteInit ==
    /\ Init
    /\ profile \in Profiles
    /\ pc = [a \in Attempts |-> "start"]
    /\ response = [a \in Attempts |-> "none"]
    /\ outcome = [a \in Attempts |-> "none"]
    /\ result = "none"
    /\ isDisturbed = FALSE
-----------------------------------------------------------------------------
At(a, label) == pc[a] = label

Goto(a, label) == pc' = [pc EXCEPT ![a] = label]

Notes(isTrouble) == isDisturbed' = (isDisturbed \/ isTrouble)

\* The attempt ends. Dex takes its outcome only from the latest attempt, and only
\* when the answer arrives before the attempt times out or its worker dies.
Returns(a, o, isTrouble) ==
    /\ Goto(a, "returned")
    /\ outcome' = [outcome EXCEPT ![a] = o]
    /\ \E isLost \in (IF a = attempt /\ o # "retry" THEN BOOLEAN ELSE {FALSE}) :
          /\ result' = IF a = attempt /\ o # "retry" /\ ~isLost THEN o ELSE result
          /\ Notes(isTrouble \/ isLost)
    /\ UNCHANGED <<profile, response>>

\* A step of the attempt that returns nothing yet.
Continues(a, label, isTrouble) ==
    /\ Goto(a, label)
    /\ Notes(isTrouble)
    /\ UNCHANGED <<profile, outcome, result>>

\* Dex starts another attempt after a Retry, a crash or a timeout.
NextAttempt ==
    /\ result = "none"
    /\ StartAttempt
    /\ Notes(outcome[attempt] # "retry")
    /\ UNCHANGED <<profile, pc, response, outcome, result>>
-----------------------------------------------------------------------------
(* Before the send.                                                        *)

\* The credential resolver, called before decide, fails.
ResolverFails(a) ==
    /\ profile.credentialsFirst
    /\ a <= attempt
    /\ At(a, "start")
    /\ Returns(a, "defect", FALSE)
    /\ UNCHANGED vars

Decide(a) ==
    /\ At(a, "start")
    /\ DecideWithoutCheckpoint(a) \/ DecideFromCheckpoint(a)
    /\ Continues(a, IF decision'[a] = "SendAllowed" THEN "prepare" ELSE "readBack",
                 a > 1 /\ decisionMarker'[a] # marker[a - 1])
    /\ UNCHANGED response

\* Mutant: FAIL_CLOSED is reported as a defect.
FailClosed_Defect(a) ==
    /\ At(a, "start")
    /\ DecideFailClosed(a)
    /\ Returns(a, "defect", TRUE)

FailClosed(a) ==
    /\ At(a, "start")
    /\ DecideFailClosed(a)
    /\ IF profile.failClosed = "readBack"
       THEN Continues(a, "readBack", TRUE) /\ UNCHANGED response
       ELSE Returns(a, profile.failClosed, TRUE)

\* Credentials, a lookup or a slot are not available yet; also dispatch with too
\* little of the write window left.
PreparationFails(a) ==
    /\ At(a, "prepare")
    /\ RecordNotSent(a)
    /\ Returns(a, "retry", marker'[a] # NotSent(a))

\* The input, the configuration or the credential can never work. Some operations
\* record notSent first (a failure of that record is PreparationFails), some do not.
PreparationDefect(a) ==
    /\ At(a, "prepare")
    /\ ~profile.credentialsFirst
    /\ UNCHANGED vars \/ (RecordNotSent(a) /\ marker'[a] = NotSent(a))
    /\ Returns(a, "defect", FALSE)

BeginDispatch(a) ==
    /\ At(a, "prepare")
    /\ DispatchClaims(a)
    /\ Continues(a, "dispatch", FALSE)
    /\ UNCHANGED response

ClaimFails(a) ==
    /\ At(a, "prepare")
    /\ DispatchCheckpointFails(a)
    /\ Returns(a, "retry", marker'[a] # NotSent(a))

\* A cancelled attempt returns nothing to Dex.
ClaimIsCancelled(a) ==
    /\ At(a, "prepare")
    /\ CancelClaim(a)
    /\ Continues(a, "cancelled", TRUE)
    /\ UNCHANGED response
-----------------------------------------------------------------------------
(* The send.                                                               *)

EvidenceOf(r) ==
    IF r \in {"ok", "idOnly"} THEN "accepted"
    ELSE IF r \in profile.refusals THEN "refused" ELSE "ambiguous"

Send(a) == StartSend(a) /\ UNCHANGED stepVars

SendIsSkipped(a) ==
    /\ SkipSend(a)
    /\ response' = [response EXCEPT ![a] = "lost"]
    /\ Continues(a, "dispatch", TRUE)

Receive(a) ==
    /\ FinishSend(a)
    /\ \E r \in Responses :
          /\ evidence'[a] = EvidenceOf(r)
          /\ r = "noID" => request[a] = "processed"
          /\ response' = [response EXCEPT ![a] = r]
          /\ Continues(a, "dispatch", r # "ok" /\ EvidenceOf(r) # "refused")

SendIsInterrupted(a) ==
    /\ InterruptSend(a)
    /\ Continues(a, "cancelled", TRUE)
    /\ UNCHANGED response

EndDispatch(a) ==
    /\ ReturnFromDispatch(a)
    /\ Continues(a, "classify", FALSE)
    /\ UNCHANGED response

RepeatClaim(a) == repeatClaim(a) /\ UNCHANGED stepVars
-----------------------------------------------------------------------------
(* Classifying the response.                                               *)

\* Accepted, after record_provider_id where the operation keeps the ID.
ReturnAccepted(a, keepsID) ==
    IF keepsID
    THEN /\ record_provider_id(a)
         /\ LET isRecorded == marker'[a] = Accepted(a)
            IN  Returns(a, IF isRecorded \/ profile.keepsAcceptance THEN "accepted" ELSE "retry",
                        ~isRecorded)
    ELSE Returns(a, "accepted", FALSE) /\ UNCHANGED vars

ReportAccepted(a) ==
    /\ At(a, "classify")
    /\ response[a] \in profile.accepts
    /\ ReturnAccepted(a, profile.recordsID /\ response[a] = "ok")

\* Mutant: Retry is returned without the checkpoint that permits it.
ReturnCanResend_NoRecord(a) ==
    /\ At(a, "classify")
    /\ response[a] \in profile.resends
    /\ Returns(a, "retry", FALSE)
    /\ UNCHANGED vars

ReturnCanResend(a) ==
    /\ At(a, "classify")
    /\ response[a] \in profile.resends
    /\ record_can_resend(a)
    /\ LET isRecorded == marker'[a] = CanResend(a)
       IN  Returns(a, IF isRecorded THEN "retry" ELSE profile.resendFailure, ~isRecorded)

ReturnRejected(a) ==
    /\ At(a, "classify")
    /\ response[a] \in profile.rejects
    /\ Returns(a, "rejected", FALSE)
    /\ UNCHANGED vars

ReturnUncertain(a) ==
    /\ At(a, "classify")
    /\ response[a] \in profile.unknowns
    /\ Returns(a, "uncertain", FALSE)
    /\ UNCHANGED vars

ReturnRetry(a) ==
    /\ At(a, "classify")
    /\ response[a] \in profile.retries
    /\ Returns(a, "retry", FALSE)
    /\ UNCHANGED vars

Confirm(a) ==
    /\ At(a, "classify")
    /\ response[a] \in profile.confirms
    /\ record_provider_id(a)
    /\ IF marker'[a] = Accepted(a) \/ profile.keepsAcceptance
       THEN Continues(a, "readBack", FALSE) /\ UNCHANGED response
       ELSE Returns(a, "retry", TRUE)

SaveID(a) ==
    /\ At(a, "classify")
    /\ response[a] \in profile.saves
    /\ record_provider_id(a)
    /\ Returns(a, "retry", marker'[a] # Accepted(a))

LookUp(a) ==
    /\ At(a, "classify")
    /\ response[a] \in profile.lookups
    /\ Continues(a, "readBack", FALSE)
    /\ UNCHANGED <<vars, response>>
-----------------------------------------------------------------------------
(* Reading back.                                                           *)

CanSearch(a) ==
    \/ "key" \in profile.readsBack
    \/ "ID" \in profile.readsBack /\ (decisionMarker[a].providerID \/ response[a] \in profile.confirms)

\* A search that finds nothing where the operation only looks first leaves it where
\* it is: the next step is that of its answer, or the send.
IsLooking(a) ==
    \/ At(a, "readBack")
    \/ pc[a] \in {"prepare", "classify"} /\ response[a] \in profile.looksFirst

ReadBackFinds(a) ==
    /\ IsLooking(a)
    /\ CanSearch(a)
    /\ \E b \in Attempts : request[b] = "processed"
    /\ ReturnAccepted(a, response[a] \in profile.recordsFound)

ReadBackFails(a) ==
    /\ At(a, "readBack")
    /\ \E o \in profile.unresolved : Returns(a, o, FALSE)
    /\ UNCHANGED vars
-----------------------------------------------------------------------------
Preparation(a) ==
    \/ ResolverFails(a)
    \/ Decide(a)
    \/ FailClosed(a)
    \/ PreparationFails(a)
    \/ PreparationDefect(a)
    \/ BeginDispatch(a)
    \/ ClaimFails(a)
    \/ ClaimIsCancelled(a)

Dispatch(a) ==
    \/ Send(a)
    \/ SendIsSkipped(a)
    \/ Receive(a)
    \/ SendIsInterrupted(a)
    \/ EndDispatch(a)
    \/ RepeatClaim(a)

Classification(a) ==
    \/ ReportAccepted(a)
    \/ ReturnCanResend(a)
    \/ ReturnRejected(a)
    \/ ReturnUncertain(a)
    \/ ReturnRetry(a)
    \/ Confirm(a)
    \/ SaveID(a)
    \/ LookUp(a)
    \/ ReadBackFinds(a)
    \/ ReadBackFails(a)

Provider(a) == ProviderStep(a) /\ UNCHANGED stepVars

WriteNext ==
    \/ NextAttempt
    \/ \E a \in Attempts : Preparation(a) \/ Dispatch(a) \/ Classification(a) \/ Provider(a)

WriteSpec == WriteInit /\ [][WriteNext]_<<vars, stepVars>>
-----------------------------------------------------------------------------
\* Every variable of the Step keeps its type.
WriteTypeOK ==
    /\ profile \in Profiles
    /\ pc \in [Attempts -> {"start", "prepare", "dispatch", "cancelled", "classify",
                            "readBack", "returned"}]
    /\ response \in [Attempts -> Responses \union {"none"}]
    /\ outcome \in [Attempts -> Outcomes]
    /\ result \in Outcomes \ {"retry"}
    /\ isDisturbed \in BOOLEAN

\* The connectors keep the two obligations the fence puts on its caller: every step
\* of theirs is a step the fence allows, so canResend is recorded only with proof and
\* a provider ID only of a processed write.
FenceSpec == Spec

\* A Step that ends rejected or defect left nothing behind and never will, whatever
\* earlier attempts did.
FailureIsTrue == result \in {"rejected", "defect"} => \A a \in Attempts : ~MayBeProcessed(a)

\* A Step that ends accepted has its write at the provider.
AcceptanceIsTrue == result = "accepted" => \E a \in Attempts : request[a] = "processed"

OutcomeIsTrue == FailureIsTrue /\ AcceptanceIsTrue

\* Uncertain needs an excuse (docs/connector-contract.md: a 429, a 503 or an unsent
\* request ends in Retry): while every heartbeat is kept, every answer is definite
\* and no attempts overlap, a Step is never settled as uncertain.
UncertaintyHasCause == result = "uncertain" => isDisturbed

\* A complete acceptance is what the attempt returns, whether or not the checkpoint
\* that follows it can be written.
AcceptanceIsReported ==
    \A a \in Attempts : response[a] = "ok" /\ At(a, "returned") => outcome[a] = "accepted"

\* What a profile owes the fence: no repeat without a documented refusal, no ID but
\* one the provider returned or a search found.
KeepsObligations(p) ==
    /\ p.resends \subseteq p.refusals
    /\ p.confirms \union p.saves \subseteq {"idOnly"}

\* What a profile owes the flow: no definite failure of an attempt that was not
\* allowed to send.
ReportsHonestly(p) == p.failClosed # "defect" /\ ~p.credentialsFirst

\* An answer was taken for a refusal that the provider does not document as one: the
\* 408 that Slack, Drive, Calendly and Gmail reject.
IsMisjudged == \E a \in Attempts : response[a] \in profile.rejects \ profile.refusals

\* A Step that ends accepted, whether by an answer or a search, has its write; and an
\* operation that owes the flow no guess ends rejected or defect only when nothing was
\* written, unless it took an undocumented answer for a refusal.
HonestOutcome ==
    /\ AcceptanceIsTrue
    /\ ReportsHonestly(profile) /\ ~IsMisjudged => FailureIsTrue

\* The strengthening behind the two theorems on outcomes: a response is backed by the
\* fence's evidence, the position of an attempt agrees with its fence, and a definite
\* failure leaves every attempt settled.
ResponsesAreBacked ==
    \A a \in Attempts :
        /\ response[a] # "none" <=> HasSendFinished(a)
        /\ response[a] \in {"ok", "idOnly", "noID"} => request[a] = "processed"
        /\ response[a] \in profile.refusals => evidence[a] = "refused"

PositionsAgree ==
    \A a \in Attempts :
        /\ At(a, "prepare") => decision[a] = "SendAllowed" /\ sendPhase[a] = "none"
        /\ sendPhase[a] \in {"claimed", "running", "finished"} => At(a, "dispatch")
        /\ At(a, "classify") => sendPhase[a] = "returned"
        /\ a > attempt => At(a, "start") /\ decision[a] = "none"

\* A permit is the last thing its attempt does, so whoever may send follows attempts
\* that returned: what a search finds for an attempt that sent is its own write.
SendersFollowReturned ==
    /\ \A f \in frames : f.state \in {"notSent", "canResend"} => At(f.attempt, "returned")
    /\ \A a \in Attempts : decision[a] = "SendAllowed" => \A b \in 1..(a - 1) : At(b, "returned")

FailuresAreSettled ==
    result \in {"rejected", "defect"} =>
        /\ At(attempt, "returned")
        /\ ~MayBeProcessed(attempt)
        /\ \A b \in 1..(attempt - 1) : Settled(b)

StepInv == WriteTypeOK /\ ResponsesAreBacked /\ PositionsAgree /\ SendersFollowReturned
=============================================================================
