--------------------------- MODULE SingleDispatch ---------------------------
(***************************************************************************)
(* The single-dispatch fence of sdk/singledispatch/fence.py and markers.py *)
(* (sdkgo/singledispatch/fence.go is its twin).                            *)
(*                                                                         *)
(* One Dex Step makes one provider write that has no idempotency key.  Dex *)
(* runs the Step in numbered attempts.  It starts the next attempt when    *)
(* the previous one returned Retry, crashed or merely timed out, so an     *)
(* earlier attempt may still be running beside a later one (nothing here   *)
(* makes an attempt stop; one that crashed just takes no further step).    *)
(* Each attempt owns one Fence; the fences of different attempts share     *)
(* nothing but the heartbeat, and the heartbeat channel is unreliable:     *)
(* frames may be lost after they were acknowledged, refused although they  *)
(* arrived, delayed, and read back stale.                                  *)
(*                                                                         *)
(* Every method of Fence is an action that any task of the attempt may     *)
(* take at any time, because each one runs under the fence's lock.  Dex    *)
(* cancels the task of an attempt that timed out: CancelledError is no     *)
(* Exception, so it leaves dispatch by another path than a failure does.   *)
(* The caller has two obligations, stated in the docstrings of the record  *)
(* methods: it records canResend only with positive proof that the         *)
(* provider did not process the request, and a provider ID only of what    *)
(* its own request made, as the answer names it or a search found it.      *)
(***************************************************************************)
EXTENDS Integers, FiniteSets

CONSTANT MaxAttempt      \* bound on the attempts Dex makes of the Step

ASSUME MaxAttemptAssumption == MaxAttempt \in Nat \ {0}

Attempts == 1..MaxAttempt

VARIABLES
    attempt,         \* the highest attempt Dex has started
    decision,        \* _decision.kind of each attempt
    decisionMarker,  \* _decision.marker
    sendPhase,       \* progress of dispatch: _has_dispatched, the send, _has_send_finished
    hasPreSendRetry, \* _has_pre_send_retry
    marker,          \* _marker, the last checkpoint whose heartbeat was acknowledged
    evidence,        \* what the send callback of each attempt reported to its caller
    request,         \* the provider's side of each attempt's request
    frames,          \* every heartbeat frame that ever reached Dex
    lastFrame        \* the newest frame of each attempt that reached Dex

vars == <<attempt, decision, decisionMarker, sendPhase, hasPreSendRetry, marker,
          evidence, request, frames, lastFrame>>
-----------------------------------------------------------------------------
(* Markers. ZeroMarker stands for None, no checkpoint.                     *)

MarkerStates == {"notSent", "claimed", "canResend"}

Marker == [attempt : Attempts, state : MarkerStates, providerID : BOOLEAN]

ZeroMarker == [attempt |-> 0, state |-> "", providerID |-> FALSE]

\* Mutant: the attempt number is left at its zero value.
MarkerOf_NoAttempt(a, s) == [attempt |-> 0, state |-> s, providerID |-> FALSE]

MarkerOf(a, s) == [attempt |-> a, state |-> s, providerID |-> FALSE]

NotSent(a)   == MarkerOf(a, "notSent")
Claim(a)     == MarkerOf(a, "claimed")
CanResend(a) == MarkerOf(a, "canResend")
Accepted(a)  == [attempt |-> a, state |-> "claimed", providerID |-> TRUE]

DecisionKinds == {"none", "SendAllowed", "ReadBackRequired", "FailClosed"}

SendPhases == {"none", "claimFailed", "claimCancelled", "claimed", "running",
               "finished", "returned", "interrupted"}

HasDispatched(a)   == sendPhase[a] # "none"
HasSendFinished(a) == sendPhase[a] \in {"finished", "returned"}

Init ==
    /\ attempt = 1
    /\ decision        = [a \in Attempts |-> "none"]
    /\ decisionMarker  = [a \in Attempts |-> ZeroMarker]
    /\ sendPhase       = [a \in Attempts |-> "none"]
    /\ hasPreSendRetry = [a \in Attempts |-> FALSE]
    /\ marker          = [a \in Attempts |-> ZeroMarker]
    /\ evidence        = [a \in Attempts |-> "none"]
    /\ request         = [a \in Attempts |-> "unsent"]
    /\ frames          = {}
    /\ lastFrame       = [a \in Attempts |-> ZeroMarker]
-----------------------------------------------------------------------------
(* Dex.                                                                    *)

StartAttempt ==
    /\ attempt < MaxAttempt
    /\ attempt' = attempt + 1
    /\ UNCHANGED <<decision, decisionMarker, sendPhase, hasPreSendRetry, marker,
                   evidence, request, frames, lastFrame>>

\* context.heartbeat returns or raises. A frame that was acknowledged may
\* still never be read (decide may read any frame or none), and a frame whose
\* call failed may have arrived all the same.
HeartbeatArrives(a, m) ==
    /\ frames' = frames \union {m}
    /\ lastFrame' = [lastFrame EXCEPT ![a] = m]

RecordAcknowledged(a, m) ==
    /\ HeartbeatArrives(a, m)
    /\ marker' = [marker EXCEPT ![a] = m]

RecordFails(a, m) ==
    /\ HeartbeatArrives(a, m) \/ UNCHANGED <<frames, lastFrame>>
    /\ UNCHANGED marker

record(a, m) == RecordAcknowledged(a, m) \/ RecordFails(a, m)
-----------------------------------------------------------------------------
(* decide. The result is cached in _decision.                              *)

\* Mutant: any earlier attempt's permit counts, not only the previous one's.
PermitsSend_AnyEarlier(a, previous) ==
    /\ previous.attempt < a
    /\ previous.state \in {"notSent", "canResend"}
    /\ ~previous.providerID

PermitsSend(a, previous) ==
    /\ previous.attempt = a - 1
    /\ previous.state \in {"notSent", "canResend"}
    /\ ~previous.providerID

Decides(a, kind, previous) ==
    /\ a <= attempt
    /\ decision[a] = "none"
    /\ decision' = [decision EXCEPT ![a] = kind]
    /\ decisionMarker' = [decisionMarker EXCEPT ![a] = previous]
    /\ UNCHANGED <<attempt, sendPhase, hasPreSendRetry, marker, evidence, request, frames, lastFrame>>

NoCheckpointDecision(a) == IF a = 1 THEN "SendAllowed" ELSE "ReadBackRequired"

CheckpointDecision(a, previous) ==
    IF PermitsSend(a, previous) THEN "SendAllowed" ELSE "ReadBackRequired"

\* The read failed, or returned another call's checkpoint or an invalid one. (The
\* code keeps a foreign marker in the decision; a FAIL_CLOSED caller never reads it.)
DecideFailClosed(a) == Decides(a, "FailClosed", ZeroMarker)

DecideWithoutCheckpoint(a) == Decides(a, NoCheckpointDecision(a), ZeroMarker)

DecideFromCheckpoint(a) ==
    \E previous \in frames : Decides(a, CheckpointDecision(a, previous), previous)
-----------------------------------------------------------------------------
(* dispatch. Its first critical section records the claim; the send runs   *)
(* outside the lock beside the task that repeats the claim.                *)

\* Mutant: a recorded notSent does not latch the attempt.
MayStillSend_NoLatch(a) == decision[a] = "SendAllowed" /\ ~HasDispatched(a)

MayStillSend(a) ==
    /\ decision[a] = "SendAllowed"
    /\ ~HasDispatched(a)
    /\ ~hasPreSendRetry[a]

\* Mutant: the error of the claim heartbeat is ignored.
DispatchClaims_IgnoreError(a) ==
    /\ MayStillSend(a)
    /\ sendPhase' = [sendPhase EXCEPT ![a] = "claimed"]
    /\ record(a, Claim(a))
    /\ UNCHANGED <<attempt, decision, decisionMarker, hasPreSendRetry, evidence, request>>

DispatchClaims(a) ==
    /\ MayStillSend(a)
    /\ sendPhase' = [sendPhase EXCEPT ![a] = "claimed"]
    /\ RecordAcknowledged(a, Claim(a))
    /\ UNCHANGED <<attempt, decision, decisionMarker, hasPreSendRetry, evidence, request>>

\* The claim heartbeat failed: no send, and a best-effort notSent, inside the
\* same critical section.
DispatchCheckpointFails(a) ==
    /\ MayStillSend(a)
    /\ sendPhase' = [sendPhase EXCEPT ![a] = "claimFailed"]
    /\ hasPreSendRetry' = [hasPreSendRetry EXCEPT ![a] = TRUE]
    /\ \E arrived \in SUBSET {Claim(a), NotSent(a)}, acknowledged \in BOOLEAN :
          /\ acknowledged => NotSent(a) \in arrived
          /\ frames' = frames \union arrived
          /\ lastFrame' = [lastFrame EXCEPT ![a] =
                             IF NotSent(a) \in arrived THEN NotSent(a)
                             ELSE IF Claim(a) \in arrived THEN Claim(a) ELSE @]
          /\ marker' = [marker EXCEPT ![a] = IF acknowledged THEN NotSent(a) ELSE @]
    /\ UNCHANGED <<attempt, decision, decisionMarker, evidence, request>>

\* The task is cancelled while it waits for the claim heartbeat: no handler runs,
\* the attempt counts as dispatched and no method of its fence can do more.
CancelClaim(a) ==
    /\ MayStillSend(a)
    /\ sendPhase' = [sendPhase EXCEPT ![a] = "claimCancelled"]
    /\ RecordFails(a, Claim(a))
    /\ UNCHANGED <<attempt, decision, decisionMarker, hasPreSendRetry, evidence, request>>

\* The claim heartbeat used up the write window: wait_for cancels the send before it
\* starts, and the caller learns nothing but a timeout.
SkipSend(a) ==
    /\ sendPhase[a] = "claimed"
    /\ sendPhase' = [sendPhase EXCEPT ![a] = "finished"]
    /\ evidence' = [evidence EXCEPT ![a] = "ambiguous"]
    /\ UNCHANGED <<attempt, decision, decisionMarker, hasPreSendRetry, marker,
                   request, frames, lastFrame>>

StartSend(a) ==
    /\ sendPhase[a] = "claimed"
    /\ sendPhase' = [sendPhase EXCEPT ![a] = "running"]
    /\ request' = [request EXCEPT ![a] = "inFlight"]
    /\ UNCHANGED <<attempt, decision, decisionMarker, hasPreSendRetry, marker,
                   evidence, frames, lastFrame>>

\* What the send may report: acceptance only of a processed request, refusal only of
\* one that will never be processed, and ambiguity always (a timeout, a cancellation).
FinishSend(a) ==
    /\ sendPhase[a] = "running"
    /\ sendPhase' = [sendPhase EXCEPT ![a] = "finished"]
    /\ \E e \in {"ambiguous"} \union
                (IF request[a] = "processed" THEN {"accepted"} ELSE {}) \union
                (IF request[a] = "refused" THEN {"refused"} ELSE {}) :
          evidence' = [evidence EXCEPT ![a] = e]
    /\ UNCHANGED <<attempt, decision, decisionMarker, hasPreSendRetry, marker,
                   request, frames, lastFrame>>

\* A second cancellation hits the finally block while it waits for the lock: neither
\* _has_send_finished nor stop is ever set, and the repeater runs on by itself.
InterruptSend(a) ==
    /\ sendPhase[a] = "running"
    /\ sendPhase' = [sendPhase EXCEPT ![a] = "interrupted"]
    /\ UNCHANGED <<attempt, decision, decisionMarker, hasPreSendRetry, marker,
                   evidence, request, frames, lastFrame>>

\* The finally block stops the repeater and waits for it.
ReturnFromDispatch(a) ==
    /\ sendPhase[a] = "finished"
    /\ sendPhase' = [sendPhase EXCEPT ![a] = "returned"]
    /\ UNCHANGED <<attempt, decision, decisionMarker, hasPreSendRetry, marker,
                   evidence, request, frames, lastFrame>>

\* Mutant: the repeater does not look at the fence's marker.
repeatClaim_Always(a) ==
    /\ sendPhase[a] \in {"running", "finished", "interrupted"}
    /\ HeartbeatArrives(a, Claim(a))
    /\ UNCHANGED <<attempt, decision, decisionMarker, sendPhase, hasPreSendRetry, marker,
                   evidence, request>>

repeatClaim(a) ==
    /\ sendPhase[a] \in {"running", "finished", "interrupted"}
    /\ marker[a] = Claim(a)
    /\ HeartbeatArrives(a, Claim(a))
    /\ UNCHANGED <<attempt, decision, decisionMarker, sendPhase, hasPreSendRetry, marker,
                   evidence, request>>
-----------------------------------------------------------------------------
(* The checkpoints a caller records.                                       *)

\* Also what dispatch does when too little of the write window is left.
RecordNotSent(a) ==
    /\ MayStillSend(a)
    /\ hasPreSendRetry' = [hasPreSendRetry EXCEPT ![a] = TRUE]
    /\ record(a, NotSent(a))
    /\ UNCHANGED <<attempt, decision, decisionMarker, sendPhase, evidence, request>>

IsClaimHeld(a) == HasSendFinished(a) /\ marker[a].state = "claimed"

record_can_resend(a) ==
    /\ IsClaimHeld(a)
    /\ ~marker[a].providerID
    /\ record(a, CanResend(a))
    /\ UNCHANGED <<attempt, decision, decisionMarker, sendPhase, hasPreSendRetry, evidence, request>>

\* A caller that keeps its obligation.
RecordCanResend(a) == evidence[a] = "refused" /\ record_can_resend(a)

record_provider_id(a) ==
    /\ IsClaimHeld(a)
    /\ record(a, Accepted(a))
    /\ UNCHANGED <<attempt, decision, decisionMarker, sendPhase, hasPreSendRetry, evidence, request>>

\* Mutant: an empty provider ID is recorded like any other.
RecordProviderID_Unchecked(a) == record_provider_id(a)

\* A caller that was given an ID, or found what its request made.
RecordProviderID(a) == request[a] = "processed" /\ record_provider_id(a)
-----------------------------------------------------------------------------
(* The provider (external). A request in flight may be processed at any    *)
(* later time, refused for good (429, 503, a connection that never opened) *)
(* or lost, in which case it stays in flight.                              *)

ProviderProcesses(a) ==
    /\ request[a] = "inFlight"
    /\ request' = [request EXCEPT ![a] = "processed"]
    /\ UNCHANGED <<attempt, decision, decisionMarker, sendPhase, hasPreSendRetry, marker,
                   evidence, frames, lastFrame>>

ProviderRefuses(a) ==
    /\ request[a] = "inFlight"
    /\ request' = [request EXCEPT ![a] = "refused"]
    /\ UNCHANGED <<attempt, decision, decisionMarker, sendPhase, hasPreSendRetry, marker,
                   evidence, frames, lastFrame>>
-----------------------------------------------------------------------------
AttemptStep(a) ==
    \/ DecideFailClosed(a)
    \/ DecideWithoutCheckpoint(a)
    \/ DecideFromCheckpoint(a)
    \/ DispatchClaims(a)
    \/ DispatchCheckpointFails(a)
    \/ CancelClaim(a)
    \/ SkipSend(a)
    \/ StartSend(a)
    \/ FinishSend(a)
    \/ InterruptSend(a)
    \/ ReturnFromDispatch(a)
    \/ repeatClaim(a)
    \/ RecordNotSent(a)
    \/ RecordCanResend(a)
    \/ RecordProviderID(a)

ProviderStep(a) == ProviderProcesses(a) \/ ProviderRefuses(a)

Next == StartAttempt \/ \E a \in Attempts : AttemptStep(a) \/ ProviderStep(a)

Spec == Init /\ [][Next]_vars
-----------------------------------------------------------------------------
\* Every variable keeps its type; a frame is a well-formed marker of an attempt.
TypeOK ==
    /\ attempt \in Attempts
    /\ decision \in [Attempts -> DecisionKinds]
    /\ decisionMarker \in [Attempts -> Marker \union {ZeroMarker}]
    /\ sendPhase \in [Attempts -> SendPhases]
    /\ hasPreSendRetry \in [Attempts -> BOOLEAN]
    /\ marker \in [Attempts -> Marker \union {ZeroMarker}]
    /\ evidence \in [Attempts -> {"none", "ambiguous", "refused", "accepted"}]
    /\ request \in [Attempts -> {"unsent", "inFlight", "processed", "refused"}]
    /\ frames \subseteq Marker
    /\ lastFrame \in [Attempts -> Marker \union {ZeroMarker}]

\* The request of this attempt was processed, or still can be.
MayBeProcessed(a) == request[a] \in {"inFlight", "processed"}

\* The package's promise ("At-most-once provider dispatch"): whatever happens to heartbeats and however attempts overlap,
\* at most one attempt's request was or can still be processed.
AtMostOneWrite ==
    \A a, b \in Attempts : MayBeProcessed(a) /\ MayBeProcessed(b) => a = b

\* A frame that permits the next attempt to send is a proof that its own
\* attempt's request is not and will never be processed, even while that
\* attempt is still running: notSent latches hasPreSendRetry, canResend needs a
\* finished send.
PermitIsProof ==
    \A f \in frames :
        f.state \in {"notSent", "canResend"} =>
            /\ ~MayBeProcessed(f.attempt)
            /\ sendPhase[f.attempt] \notin {"claimed", "running"}

\* The strengthening that makes the two invariants above inductive: an attempt
\* that may send knows that every attempt before it is settled, a frame comes
\* from an attempt that was itself allowed to send, and the latches agree with
\* the request they guard.
Settled(a) == hasPreSendRetry[a] \/ (HasSendFinished(a) /\ request[a] = "refused")

LatchesAgree ==
    \A a \in Attempts :
        /\ sendPhase[a] # "none" \/ hasPreSendRetry[a] => decision[a] = "SendAllowed"
        /\ hasPreSendRetry[a] => sendPhase[a] \in {"none", "claimFailed"}
        /\ sendPhase[a] \in {"none", "claimFailed", "claimCancelled", "claimed"} => request[a] = "unsent"
        /\ sendPhase[a] = "claimFailed" => hasPreSendRetry[a]
        /\ evidence[a] = "refused" => HasSendFinished(a) /\ request[a] = "refused"

PermitsAreSettled ==
    \A f \in frames :
        /\ decision[f.attempt] = "SendAllowed"
        /\ f.state \in {"notSent", "canResend"} => Settled(f.attempt)

SendersFollowSettled ==
    \A a \in Attempts : decision[a] = "SendAllowed" => \A b \in 1..(a - 1) : Settled(b)

FenceInv == TypeOK /\ LatchesAgree /\ PermitsAreSettled /\ SendersFollowSettled

\* Once an attempt's fence holds a decisive checkpoint (a permit or a provider
\* ID), no later frame of that attempt hides it from the next attempt: the claim
\* repeater, which runs until dispatch returns or for ever, goes quiet.
DecisiveCheckpointNotHidden ==
    \A a \in Attempts :
        marker[a] \in {NotSent(a), CanResend(a), Accepted(a)} => lastFrame[a] = marker[a]

\* A provider ID that an attempt is told to read back names a write that the
\* provider really processed.
ReadBackIsGenuine ==
    \A a \in Attempts :
        decisionMarker[a].providerID => request[decisionMarker[a].attempt] = "processed"

\* A request leaves the process only after its claim reached Dex, so that a crash
\* right after the send leaves a checkpoint that forbids another one.
ClaimPrecedesSend ==
    [][\A a \in Attempts :
          request[a] = "unsent" /\ request'[a] # "unsent" => Claim(a) \in frames]_vars

\* The strengthening behind the three properties above: a fence only ever holds a
\* checkpoint of its own attempt and none before it latched, a claimed send has its
\* claim in Dex, and whatever names a provider ID stems from a processed request.
FencesHoldOwnMarkers ==
    \A a \in Attempts :
        /\ marker[a] \in {ZeroMarker, NotSent(a), Claim(a), CanResend(a), Accepted(a)}
        /\ ~HasDispatched(a) /\ ~hasPreSendRetry[a] => marker[a] = ZeroMarker

SendersHaveClaimed == \A a \in Attempts : sendPhase[a] = "claimed" => Claim(a) \in frames

ProviderIDsAreGenuine ==
    /\ \A a \in Attempts : evidence[a] = "accepted" => request[a] = "processed"
    /\ \A f \in frames : f.providerID => request[f.attempt] = "processed"
    /\ ReadBackIsGenuine

CheckpointInv ==
    /\ FenceInv
    /\ FencesHoldOwnMarkers
    /\ SendersHaveClaimed
    /\ ProviderIDsAreGenuine
    /\ DecisiveCheckpointNotHidden
=============================================================================
