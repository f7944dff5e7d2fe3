------------------------- MODULE FencedWriteProofs --------------------------
(***************************************************************************)
(* Proofs about the fence of SingleDispatch and the connectors' writes     *)
(* behind it, for every number of attempts.                                *)
(*                                                                         *)
(* The first half is about the fence.  FenceInv is its inductive           *)
(* invariant, and SendersFollowSettled its heart: a permit frame of        *)
(* attempt a - 1 exists only if a - 1 was itself allowed to send, so       *)
(* everything before a - 1 is settled already, and the frame settles       *)
(* a - 1.                                                                  *)
(*                                                                         *)
(* The second half is about the connectors.  A profile that keeps its two  *)
(* obligations makes every step of the connector a step of the fence, so   *)
(* the fence's theorems hold of the connector; a profile that reports      *)
(* honestly makes the outcome of the Step true.  Both are properties of a  *)
(* table, and the last section proves them of the connectors' tables.      *)
(***************************************************************************)
EXTENDS ConnectorProfiles, TLAPS

\* Every marker an attempt writes is well formed.
LEMMA MarkersWellFormed ==
    ASSUME NEW a \in Attempts
    PROVE  /\ NotSent(a) \in Marker
           /\ Claim(a) \in Marker
           /\ CanResend(a) \in Marker
           /\ Accepted(a) \in Marker
  BY DEF NotSent, Claim, CanResend, Accepted, MarkerOf, Marker, MarkerStates

\* The initial state satisfies the inductive invariant of the fence.
LEMMA FenceInit == Init => FenceInv
  <1>1. Init => TypeOK
    BY MaxAttemptAssumption
    DEF Init, TypeOK, Attempts, DecisionKinds, SendPhases
  <1>2. Init => LatchesAgree /\ PermitsAreSettled /\ SendersFollowSettled
    BY DEF Init, LatchesAgree, PermitsAreSettled, SendersFollowSettled, HasSendFinished
  <1> QED BY <1>1, <1>2 DEF FenceInv

\* A frame added to the soup keeps its type.
LEMMA RecordKeepsType ==
    ASSUME TypeOK, NEW a \in Attempts, NEW m \in Marker, record(a, m)
    PROVE  /\ marker' \in [Attempts -> Marker \union {ZeroMarker}]
           /\ frames' \subseteq Marker
           /\ lastFrame' \in [Attempts -> Marker \union {ZeroMarker}]
  BY DEF TypeOK, record, RecordAcknowledged, RecordFails, HeartbeatArrives

\* Every step of the fence, Dex and the provider keeps every variable's type.
LEMMA TypeStep == TypeOK /\ [Next]_vars => TypeOK'
  <1> SUFFICES ASSUME TypeOK, [Next]_vars PROVE TypeOK'
    OBVIOUS
  <1>1. CASE UNCHANGED vars
    BY <1>1 DEF TypeOK, vars
  <1>2. CASE StartAttempt
    BY <1>2, MaxAttemptAssumption DEF StartAttempt, TypeOK, Attempts
  <1>3. ASSUME NEW a \in Attempts, AttemptStep(a) PROVE TypeOK'
    <2>1. CASE DecideFailClosed(a)
      BY <2>1 DEF DecideFailClosed, Decides, TypeOK, DecisionKinds
    <2>2. CASE DecideWithoutCheckpoint(a)
      BY <2>2 DEF DecideWithoutCheckpoint, NoCheckpointDecision, Decides, TypeOK, DecisionKinds
    <2>3. CASE DecideFromCheckpoint(a)
      BY <2>3 DEF DecideFromCheckpoint, CheckpointDecision, Decides, TypeOK, DecisionKinds
    <2>4. CASE DispatchClaims(a)
      <3>1. record(a, Claim(a))
        BY <2>4 DEF DispatchClaims, record
      <3> QED BY <2>4, <3>1, MarkersWellFormed, RecordKeepsType DEF DispatchClaims, TypeOK, SendPhases
    <2>5. CASE DispatchCheckpointFails(a)
      <3>1. frames' \subseteq Marker
        BY <2>5, MarkersWellFormed DEF DispatchCheckpointFails, TypeOK
      <3>2. /\ marker' \in [Attempts -> Marker \union {ZeroMarker}]
            /\ lastFrame' \in [Attempts -> Marker \union {ZeroMarker}]
        BY <2>5, MarkersWellFormed DEF DispatchCheckpointFails, TypeOK
      <3> QED BY <2>5, <3>1, <3>2 DEF DispatchCheckpointFails, TypeOK, SendPhases
    <2>6. CASE StartSend(a)
      BY <2>6 DEF StartSend, TypeOK, SendPhases
    <2>7. CASE FinishSend(a)
      BY <2>7 DEF FinishSend, TypeOK, SendPhases
    <2>8. CASE InterruptSend(a) \/ SkipSend(a)
      BY <2>8 DEF InterruptSend, SkipSend, TypeOK, SendPhases
    <2>9. CASE ReturnFromDispatch(a)
      BY <2>9 DEF ReturnFromDispatch, TypeOK, SendPhases
    <2>10. CASE repeatClaim(a)
      BY <2>10, MarkersWellFormed DEF repeatClaim, HeartbeatArrives, TypeOK
    <2>11. CASE RecordNotSent(a)
      BY <2>11, MarkersWellFormed, RecordKeepsType DEF RecordNotSent, TypeOK
    <2>12. CASE RecordCanResend(a)
      BY <2>12, MarkersWellFormed, RecordKeepsType DEF RecordCanResend, record_can_resend, TypeOK
    <2>13. CASE RecordProviderID(a)
      BY <2>13, MarkersWellFormed, RecordKeepsType DEF RecordProviderID, record_provider_id, TypeOK
    <2>14. CASE CancelClaim(a)
      <3>1. record(a, Claim(a))
        BY <2>14 DEF CancelClaim, record
      <3> QED BY <2>14, <3>1, MarkersWellFormed, RecordKeepsType DEF CancelClaim, TypeOK, SendPhases
    <2> QED
      BY <1>3, <2>1, <2>2, <2>3, <2>4, <2>5, <2>6, <2>7, <2>8, <2>9, <2>10, <2>11, <2>12, <2>13,
         <2>14
      DEF AttemptStep
  <1>4. ASSUME NEW a \in Attempts, ProviderStep(a) PROVE TypeOK'
    BY <1>4 DEF ProviderStep, ProviderProcesses, ProviderRefuses, TypeOK
  <1> QED BY <1>1, <1>2, <1>3, <1>4 DEF Next

\* The variables of the fence keep their types in every behaviour, for every
\* number of attempts.
THEOREM TypeCorrect == Spec => []TypeOK
  <1>1. Init => TypeOK
    BY FenceInit DEF FenceInv
  <1> QED BY <1>1, TypeStep, PTL DEF Spec
-----------------------------------------------------------------------------
\* Settling is for good: an attempt that recorded a pre-send Retry never sends,
\* and one whose finished request was refused stays refused.
LEMMA SettledIsStable ==
    ASSUME FenceInv, [Next]_vars, NEW b \in Attempts, Settled(b)
    PROVE  Settled(b)'
  <1> USE DEF FenceInv, Settled, HasSendFinished
  <1>1. CASE UNCHANGED vars
    BY <1>1 DEF vars
  <1>2. CASE StartAttempt
    BY <1>2 DEF StartAttempt
  <1>3. ASSUME NEW a \in Attempts, AttemptStep(a) PROVE Settled(b)'
    <2>1. CASE DecideFailClosed(a) \/ DecideWithoutCheckpoint(a) \/ DecideFromCheckpoint(a)
      BY <2>1 DEF DecideFailClosed, DecideWithoutCheckpoint, DecideFromCheckpoint, Decides
    <2>2. CASE DispatchClaims(a) \/ CancelClaim(a)
      BY <2>2 DEF DispatchClaims, CancelClaim, MayStillSend, HasDispatched, TypeOK, LatchesAgree
    <2>3. CASE DispatchCheckpointFails(a)
      BY <2>3 DEF DispatchCheckpointFails, MayStillSend, HasDispatched, TypeOK, LatchesAgree
    <2>4. CASE \/ StartSend(a) \/ SkipSend(a) \/ FinishSend(a)
               \/ InterruptSend(a) \/ ReturnFromDispatch(a)
      BY <2>4 DEF StartSend, SkipSend, FinishSend, InterruptSend, ReturnFromDispatch, TypeOK, LatchesAgree
    <2>5. CASE repeatClaim(a) \/ RecordCanResend(a) \/ RecordProviderID(a)
      BY <2>5 DEF repeatClaim, RecordCanResend, record_can_resend, RecordProviderID, record_provider_id
    <2>6. CASE RecordNotSent(a)
      BY <2>6 DEF RecordNotSent, TypeOK
    <2> QED BY <1>3, <2>1, <2>2, <2>3, <2>4, <2>5, <2>6 DEF AttemptStep
  <1>4. ASSUME NEW a \in Attempts, ProviderStep(a) PROVE Settled(b)'
    BY <1>4 DEF ProviderStep, ProviderProcesses, ProviderRefuses, TypeOK, LatchesAgree
  <1> QED BY <1>1, <1>2, <1>3, <1>4 DEF Next

\* Decide caches its answer, so a decision once made never changes.
LEMMA DecisionIsStable ==
    ASSUME FenceInv, [Next]_vars, NEW b \in Attempts, decision[b] # "none"
    PROVE  decision'[b] = decision[b]
  <1>1. CASE UNCHANGED vars
    BY <1>1 DEF vars
  <1>2. CASE StartAttempt
    BY <1>2 DEF StartAttempt
  <1>3. ASSUME NEW a \in Attempts, AttemptStep(a) PROVE decision'[b] = decision[b]
    BY <1>3
    DEF AttemptStep, DecideFailClosed, DecideWithoutCheckpoint, DecideFromCheckpoint, Decides,
        DispatchClaims, DispatchCheckpointFails, CancelClaim, StartSend, SkipSend, FinishSend,
        InterruptSend, ReturnFromDispatch, repeatClaim, RecordNotSent, RecordCanResend, record_can_resend, RecordProviderID, record_provider_id,
        FenceInv, TypeOK
  <1>4. ASSUME NEW a \in Attempts, ProviderStep(a) PROVE decision'[b] = decision[b]
    BY <1>4 DEF ProviderStep, ProviderProcesses, ProviderRefuses
  <1> QED BY <1>1, <1>2, <1>3, <1>4 DEF Next

\* The latches of every fence keep agreeing with the request they guard.
LEMMA LatchesStep ==
    ASSUME FenceInv, [Next]_vars
    PROVE  LatchesAgree'
  <1> USE DEF FenceInv, LatchesAgree, TypeOK
  <1>1. CASE UNCHANGED vars
    BY <1>1 DEF vars, HasSendFinished
  <1>2. CASE StartAttempt
    BY <1>2 DEF StartAttempt, HasSendFinished
  <1>3. ASSUME NEW a \in Attempts, AttemptStep(a) PROVE LatchesAgree'
    <2> USE DEF HasSendFinished
    <2>1. CASE DecideFailClosed(a) \/ DecideWithoutCheckpoint(a) \/ DecideFromCheckpoint(a)
      BY <2>1 DEF DecideFailClosed, DecideWithoutCheckpoint, DecideFromCheckpoint, Decides
    <2>2. CASE DispatchClaims(a) \/ CancelClaim(a)
      BY <2>2 DEF DispatchClaims, CancelClaim, MayStillSend, HasDispatched
    <2>3. CASE DispatchCheckpointFails(a)
      BY <2>3 DEF DispatchCheckpointFails, MayStillSend, HasDispatched
    <2>4. CASE StartSend(a)
      BY <2>4 DEF StartSend
    <2>5. CASE FinishSend(a)
      BY <2>5 DEF FinishSend
    <2>6. CASE InterruptSend(a) \/ ReturnFromDispatch(a) \/ SkipSend(a)
      BY <2>6 DEF InterruptSend, ReturnFromDispatch, SkipSend
    <2>7. CASE repeatClaim(a) \/ RecordCanResend(a) \/ RecordProviderID(a)
      BY <2>7 DEF repeatClaim, RecordCanResend, record_can_resend, RecordProviderID, record_provider_id
    <2>8. CASE RecordNotSent(a)
      BY <2>8 DEF RecordNotSent, MayStillSend, HasDispatched
    <2> QED BY <1>3, <2>1, <2>2, <2>3, <2>4, <2>5, <2>6, <2>7, <2>8 DEF AttemptStep
  <1>4. ASSUME NEW a \in Attempts, ProviderStep(a) PROVE LatchesAgree'
    BY <1>4 DEF ProviderStep, ProviderProcesses, ProviderRefuses, HasSendFinished
  <1> QED BY <1>1, <1>2, <1>3, <1>4 DEF Next

\* A new frame comes from an attempt that may send, and a new permit from one
\* that this very step has settled.
LEMMA NewFrames ==
    ASSUME FenceInv, [Next]_vars, NEW f \in frames', f \notin frames
    PROVE  /\ f.attempt \in Attempts
           /\ decision[f.attempt] = "SendAllowed"
           /\ f.state \in {"notSent", "canResend"} => Settled(f.attempt)'
  <1> USE DEF FenceInv, NotSent, Claim, CanResend, Accepted, MarkerOf
  <1>1. CASE UNCHANGED vars
    BY <1>1 DEF vars
  <1>2. CASE StartAttempt
    BY <1>2 DEF StartAttempt
  <1>3. ASSUME NEW a \in Attempts, AttemptStep(a)
        PROVE  /\ f.attempt \in Attempts
               /\ decision[f.attempt] = "SendAllowed"
               /\ f.state \in {"notSent", "canResend"} => Settled(f.attempt)'
    <2>1. CASE DecideFailClosed(a) \/ DecideWithoutCheckpoint(a) \/ DecideFromCheckpoint(a)
      BY <2>1 DEF DecideFailClosed, DecideWithoutCheckpoint, DecideFromCheckpoint, Decides
    <2>2. CASE DispatchClaims(a) \/ CancelClaim(a)
      BY <2>2 DEF DispatchClaims, CancelClaim, MayStillSend, RecordAcknowledged, RecordFails, HeartbeatArrives
    <2>3. CASE DispatchCheckpointFails(a)
      BY <2>3 DEF DispatchCheckpointFails, MayStillSend, Settled, TypeOK
    <2>4. CASE \/ StartSend(a) \/ SkipSend(a) \/ FinishSend(a)
               \/ InterruptSend(a) \/ ReturnFromDispatch(a)
      BY <2>4 DEF StartSend, SkipSend, FinishSend, InterruptSend, ReturnFromDispatch
    <2>5. CASE repeatClaim(a)
      BY <2>5 DEF repeatClaim, HeartbeatArrives, LatchesAgree
    <2>6. CASE RecordNotSent(a)
      BY <2>6 DEF RecordNotSent, MayStillSend, record, RecordAcknowledged, RecordFails,
                  HeartbeatArrives, Settled, TypeOK
    <2>7. CASE RecordCanResend(a)
      BY <2>7 DEF RecordCanResend, record_can_resend, IsClaimHeld, record, RecordAcknowledged, RecordFails,
                  HeartbeatArrives, Settled, HasSendFinished, LatchesAgree
    <2>8. CASE RecordProviderID(a)
      BY <2>8 DEF RecordProviderID, record_provider_id, IsClaimHeld, record, RecordAcknowledged, RecordFails,
                  HeartbeatArrives, HasSendFinished, LatchesAgree
    <2> QED BY <1>3, <2>1, <2>2, <2>3, <2>4, <2>5, <2>6, <2>7, <2>8 DEF AttemptStep
  <1>4. ASSUME NEW a \in Attempts, ProviderStep(a) PROVE FALSE
    BY <1>4 DEF ProviderStep, ProviderProcesses, ProviderRefuses
  <1> QED BY <1>1, <1>2, <1>3, <1>4 DEF Next

\* A step that allows a later attempt to send finds the permit of the one before it.
LEMMA SenderHasPermit ==
    ASSUME FenceInv, [Next]_vars, NEW a \in Attempts, a # 1,
           decision[a] # "SendAllowed", decision'[a] = "SendAllowed"
    PROVE  \E previous \in frames : PermitsSend(a, previous)
  <1> USE DEF FenceInv, TypeOK
  <1>1. CASE DecideFromCheckpoint(a)
    <2>1. PICK previous \in frames : Decides(a, CheckpointDecision(a, previous), previous)
      BY <1>1 DEF DecideFromCheckpoint
    <2>2. PermitsSend(a, previous)
      BY <2>1 DEF Decides, CheckpointDecision
    <2> QED BY <2>2
  <1>2. CASE ~DecideFromCheckpoint(a)
    <2>1. PICK c \in Attempts : AttemptStep(c)
      BY DEF Next, vars, StartAttempt, ProviderStep, ProviderProcesses, ProviderRefuses
    <2>2. CASE c = a
      BY <1>2, <2>1, <2>2
      DEF AttemptStep, DecideFailClosed, DecideWithoutCheckpoint, NoCheckpointDecision, Decides,
          DispatchClaims, DispatchCheckpointFails, CancelClaim, StartSend, SkipSend, FinishSend,
          InterruptSend, ReturnFromDispatch, repeatClaim, RecordNotSent, RecordCanResend, record_can_resend, RecordProviderID, record_provider_id
    <2>3. CASE c # a
      BY <2>1, <2>3
      DEF AttemptStep, DecideFailClosed, DecideWithoutCheckpoint, DecideFromCheckpoint, Decides,
          DispatchClaims, DispatchCheckpointFails, CancelClaim, StartSend, SkipSend, FinishSend,
          InterruptSend, ReturnFromDispatch, repeatClaim, RecordNotSent, RecordCanResend, record_can_resend, RecordProviderID, record_provider_id
    <2> QED BY <2>2, <2>3
  <1> QED BY <1>1, <1>2

\* A step that allows an attempt to send finds every earlier attempt settled.
LEMMA NewSender ==
    ASSUME FenceInv, [Next]_vars, NEW a \in Attempts,
           decision[a] # "SendAllowed", decision'[a] = "SendAllowed",
           NEW b \in 1..(a - 1)
    PROVE  Settled(b)
  <1>1. PICK previous \in frames : PermitsSend(a, previous)
    BY SenderHasPermit
  <1>2. a - 1 \in Attempts /\ Settled(a - 1) /\ decision[a - 1] = "SendAllowed"
    BY <1>1 DEF PermitsSend, FenceInv, TypeOK, PermitsAreSettled, Marker
  <1>3. CASE b = a - 1
    BY <1>2, <1>3
  <1>4. CASE b # a - 1
    BY <1>2, <1>4 DEF FenceInv, SendersFollowSettled, Attempts
  <1> QED BY <1>3, <1>4

\* FenceInv is inductive.
LEMMA FenceStep == FenceInv /\ [Next]_vars => FenceInv'
  <1> SUFFICES ASSUME FenceInv, [Next]_vars PROVE FenceInv'
    OBVIOUS
  <1>1. TypeOK'
    BY TypeStep DEF FenceInv
  <1>2. LatchesAgree'
    BY LatchesStep
  <1>3. PermitsAreSettled'
    <2> SUFFICES ASSUME NEW f \in frames'
                 PROVE  /\ decision'[f.attempt] = "SendAllowed"
                        /\ f.state \in {"notSent", "canResend"} => Settled(f.attempt)'
      BY DEF PermitsAreSettled
    <2>1. f.attempt \in Attempts
      BY <1>1 DEF TypeOK, Marker
    <2>2. CASE f \in frames
      <3>1. decision[f.attempt] = "SendAllowed"
        BY <2>2 DEF FenceInv, PermitsAreSettled
      <3>2. f.state \in {"notSent", "canResend"} => Settled(f.attempt)
        BY <2>2 DEF FenceInv, PermitsAreSettled
      <3> QED BY <2>1, <3>1, <3>2, DecisionIsStable, SettledIsStable
    <2>3. CASE f \notin frames
      <3>1. /\ decision[f.attempt] = "SendAllowed"
            /\ f.state \in {"notSent", "canResend"} => Settled(f.attempt)'
        BY <2>3, NewFrames
      <3> QED BY <2>1, <3>1, DecisionIsStable
    <2> QED BY <2>2, <2>3
  <1>4. SendersFollowSettled'
    <2> SUFFICES ASSUME NEW a \in Attempts, decision'[a] = "SendAllowed", NEW b \in 1..(a - 1)
                 PROVE  Settled(b)'
      BY DEF SendersFollowSettled
    <2>1. b \in Attempts
      BY MaxAttemptAssumption DEF Attempts
    <2>2. Settled(b)
      <3>1. CASE decision[a] = "SendAllowed"
        BY <3>1 DEF FenceInv, SendersFollowSettled
      <3>2. CASE decision[a] # "SendAllowed"
        BY <3>2, NewSender
      <3> QED BY <3>1, <3>2
    <2> QED BY <2>1, <2>2, SettledIsStable
  <1> QED BY <1>1, <1>2, <1>3, <1>4 DEF FenceInv

\* A settled attempt's request is not and never will be processed.
LEMMA SettledNotProcessed ==
    ASSUME FenceInv, NEW a \in Attempts, Settled(a)
    PROVE  ~MayBeProcessed(a) /\ sendPhase[a] \notin {"claimed", "running"}
  BY DEF FenceInv, LatchesAgree, Settled, MayBeProcessed, HasSendFinished

\* An attempt whose request may be processed was allowed to send.
LEMMA ProcessedWasAllowed ==
    ASSUME FenceInv, NEW a \in Attempts, MayBeProcessed(a)
    PROVE  decision[a] = "SendAllowed"
  BY DEF FenceInv, LatchesAgree, MayBeProcessed

\* The inductive invariant of the fence holds in every behaviour.
THEOREM FenceInvariant == Spec => []FenceInv
  BY FenceInit, FenceStep, PTL DEF Spec

\* The promise of the package: for every number of attempts, whatever is lost,
\* delayed or read stale and however attempts overlap, at most one attempt's
\* request was or can still be processed by the provider.
THEOREM SingleWrite == Spec => []AtMostOneWrite
  <1>1. FenceInv => AtMostOneWrite
    <2> SUFFICES ASSUME FenceInv, NEW a \in Attempts, NEW b \in Attempts,
                        MayBeProcessed(a), MayBeProcessed(b), a < b
                 PROVE  FALSE
      BY DEF AtMostOneWrite, Attempts
    <2>1. decision[b] = "SendAllowed"
      BY ProcessedWasAllowed
    <2>2. Settled(a)
      BY <2>1 DEF FenceInv, SendersFollowSettled, Attempts
    <2> QED BY <2>2, SettledNotProcessed
  <1> QED BY <1>1, FenceInvariant, PTL

\* Every frame that lets the next attempt send is a proof about its own attempt.
THEOREM PermitsProve == Spec => []PermitIsProof
  <1>1. FenceInv => PermitIsProof
    BY SettledNotProcessed DEF PermitIsProof, FenceInv, PermitsAreSettled, TypeOK, Marker
  <1> QED BY <1>1, FenceInvariant, PTL
-----------------------------------------------------------------------------
\* The initial state satisfies the invariant about checkpoints.
LEMMA CheckpointInit == Init => CheckpointInv
  <1> SUFFICES ASSUME Init PROVE CheckpointInv
    OBVIOUS
  <1>1. FencesHoldOwnMarkers
    BY DEF Init, FencesHoldOwnMarkers
  <1>2. SendersHaveClaimed /\ ProviderIDsAreGenuine
    BY DEF Init, SendersHaveClaimed, ProviderIDsAreGenuine, ReadBackIsGenuine, ZeroMarker
  <1>3. DecisiveCheckpointNotHidden
    BY DEF Init, DecisiveCheckpointNotHidden
  <1> QED BY FenceInit, <1>1, <1>2, <1>3 DEF CheckpointInv

\* The checkpoints of one attempt are pairwise different, and no zero value.
LEMMA MarkersDiffer ==
    ASSUME NEW a \in Attempts
    PROVE  /\ ZeroMarker \notin {NotSent(a), Claim(a), CanResend(a), Accepted(a)}
           /\ Claim(a) \notin {NotSent(a), CanResend(a), Accepted(a)}
           /\ Accepted(a) \notin {NotSent(a), CanResend(a)}
           /\ ZeroMarker.state = "" /\ ~ZeroMarker.providerID
           /\ NotSent(a).state = "notSent" /\ CanResend(a).state = "canResend"
           /\ Claim(a).state = "claimed" /\ ~Claim(a).providerID
           /\ Accepted(a).state = "claimed" /\ Accepted(a).providerID
           /\ Accepted(a).attempt = a
           /\ ~NotSent(a).providerID /\ ~CanResend(a).providerID
  BY DEF ZeroMarker, NotSent, Claim, CanResend, Accepted, MarkerOf

\* The zero marker names no provider ID.
LEMMA ZeroHasNoID == ~ZeroMarker.providerID
  BY DEF ZeroMarker

\* A fence whose marker is decisive keeps its newest frame equal to it, and every
\* fence keeps to the markers of its own attempt, in each step.
LEMMA MarkersStep ==
    ASSUME CheckpointInv, [Next]_vars
    PROVE  FencesHoldOwnMarkers' /\ DecisiveCheckpointNotHidden'
  <1> DEFINE Held(b) ==
        /\ marker[b] \in {ZeroMarker, NotSent(b), Claim(b), CanResend(b), Accepted(b)}
        /\ sendPhase[b] = "none" /\ ~hasPreSendRetry[b] => marker[b] = ZeroMarker
        /\ marker[b] \in {NotSent(b), CanResend(b), Accepted(b)} => lastFrame[b] = marker[b]
  <1> DEFINE HeldNext(b) ==
        /\ marker'[b] \in {ZeroMarker, NotSent(b), Claim(b), CanResend(b), Accepted(b)}
        /\ sendPhase'[b] = "none" /\ ~hasPreSendRetry'[b] => marker'[b] = ZeroMarker
        /\ marker'[b] \in {NotSent(b), CanResend(b), Accepted(b)} =>
              lastFrame'[b] = marker'[b]
  <1> SUFFICES ASSUME NEW b \in Attempts PROVE HeldNext(b)
    BY DEF FencesHoldOwnMarkers, DecisiveCheckpointNotHidden, HasDispatched,
           ZeroMarker, NotSent, Claim, CanResend, Accepted, MarkerOf
  <1>a. Held(b)
    BY DEF CheckpointInv, FencesHoldOwnMarkers, DecisiveCheckpointNotHidden, HasDispatched
  <1>b. /\ sendPhase \in [Attempts -> SendPhases]
        /\ hasPreSendRetry \in [Attempts -> BOOLEAN]
        /\ marker \in [Attempts -> Marker \union {ZeroMarker}]
        /\ lastFrame \in [Attempts -> Marker \union {ZeroMarker}]
    BY DEF CheckpointInv, FenceInv, TypeOK
  <1>c. /\ ZeroMarker \notin {NotSent(b), Claim(b), CanResend(b), Accepted(b)}
        /\ Claim(b) \notin {NotSent(b), CanResend(b), Accepted(b)}
        /\ ZeroMarker.state = "" /\ NotSent(b).state = "notSent" /\ CanResend(b).state = "canResend"
        /\ ~Claim(b).providerID /\ Accepted(b).providerID
    BY MarkersDiffer
  <1>1. CASE UNCHANGED <<marker, lastFrame, sendPhase, hasPreSendRetry>>
    BY <1>1, <1>a
  <1>2. ASSUME NEW a \in Attempts, AttemptStep(a), ~UNCHANGED <<marker, lastFrame, sendPhase, hasPreSendRetry>>
        PROVE  HeldNext(b)
    <2>1. CASE a # b
      BY <1>2, <2>1, <1>a, <1>b
      DEF AttemptStep, DecideFailClosed, DecideWithoutCheckpoint, DecideFromCheckpoint, Decides,
          DispatchClaims, DispatchCheckpointFails, CancelClaim, StartSend, SkipSend, FinishSend,
          InterruptSend, ReturnFromDispatch, repeatClaim, RecordNotSent, RecordCanResend, record_can_resend, RecordProviderID, record_provider_id,
          record, RecordAcknowledged, RecordFails, HeartbeatArrives
    <2>2. CASE DispatchClaims(b) \/ CancelClaim(b)
      BY <2>2, <1>a, <1>b, <1>c
      DEF DispatchClaims, CancelClaim, MayStillSend, HasDispatched, RecordAcknowledged,
          RecordFails, HeartbeatArrives
    <2>3. CASE DispatchCheckpointFails(b)
      BY <2>3, <1>a, <1>b, <1>c DEF DispatchCheckpointFails, MayStillSend, HasDispatched
    <2>4. CASE \/ StartSend(b) \/ SkipSend(b) \/ FinishSend(b)
               \/ InterruptSend(b) \/ ReturnFromDispatch(b)
      BY <2>4, <1>a, <1>b DEF StartSend, SkipSend, FinishSend, InterruptSend, ReturnFromDispatch
    <2>5. CASE repeatClaim(b)
      BY <2>5, <1>a, <1>b, <1>c DEF repeatClaim, HeartbeatArrives
    <2>6. CASE RecordNotSent(b)
      BY <2>6, <1>a, <1>b, <1>c
      DEF RecordNotSent, MayStillSend, HasDispatched, record, RecordAcknowledged, RecordFails,
          HeartbeatArrives
    <2>7. CASE RecordCanResend(b)
      BY <2>7, <1>a, <1>b, <1>c
      DEF RecordCanResend, record_can_resend, IsClaimHeld, HasSendFinished, record, RecordAcknowledged, RecordFails,
          HeartbeatArrives
    <2>8. CASE RecordProviderID(b)
      BY <2>8, <1>a, <1>b, <1>c
      DEF RecordProviderID, record_provider_id, IsClaimHeld, HasSendFinished, record, RecordAcknowledged, RecordFails,
          HeartbeatArrives
    <2> QED
      BY <1>2, <2>1, <2>2, <2>3, <2>4, <2>5, <2>6, <2>7, <2>8
      DEF AttemptStep, DecideFailClosed, DecideWithoutCheckpoint, DecideFromCheckpoint, Decides
  <1>3. CASE StartAttempt \/ UNCHANGED vars \/ \E a \in Attempts : ProviderStep(a)
    BY <1>1, <1>3 DEF StartAttempt, vars, ProviderStep, ProviderProcesses, ProviderRefuses
  <1> QED BY <1>1, <1>2, <1>3 DEF Next

\* A frame that reached Dex stays; a new one with a provider ID comes from a fence
\* whose request the provider processed.
LEMMA FramesStep ==
    ASSUME CheckpointInv, [Next]_vars
    PROVE  /\ frames \subseteq frames'
           /\ \A f \in frames' \ frames :
                 f.providerID => f.attempt \in Attempts /\ request[f.attempt] = "processed"
  <1> USE DEF NotSent, Claim, CanResend, Accepted, MarkerOf
  <1>1. CASE UNCHANGED vars \/ StartAttempt
    BY <1>1 DEF vars, StartAttempt
  <1>2. ASSUME NEW a \in Attempts, AttemptStep(a)
        PROVE  /\ frames \subseteq frames'
               /\ \A f \in frames' \ frames :
                     f.providerID => f.attempt \in Attempts /\ request[f.attempt] = "processed"
    <2>1. CASE DecideFailClosed(a) \/ DecideWithoutCheckpoint(a) \/ DecideFromCheckpoint(a)
      BY <2>1 DEF DecideFailClosed, DecideWithoutCheckpoint, DecideFromCheckpoint, Decides
    <2>2. CASE DispatchClaims(a) \/ CancelClaim(a) \/ repeatClaim(a)
      BY <2>2
      DEF DispatchClaims, CancelClaim, repeatClaim, RecordAcknowledged, RecordFails, HeartbeatArrives
    <2>3. CASE DispatchCheckpointFails(a)
      BY <2>3 DEF DispatchCheckpointFails
    <2>4. CASE \/ StartSend(a) \/ SkipSend(a) \/ FinishSend(a)
               \/ InterruptSend(a) \/ ReturnFromDispatch(a)
      BY <2>4 DEF StartSend, SkipSend, FinishSend, InterruptSend, ReturnFromDispatch
    <2>5. CASE RecordNotSent(a) \/ RecordCanResend(a)
      BY <2>5
      DEF RecordNotSent, RecordCanResend, record_can_resend, record, RecordAcknowledged, RecordFails, HeartbeatArrives
    <2>6. CASE RecordProviderID(a)
      BY <2>6
      DEF RecordProviderID, record_provider_id, record, RecordAcknowledged, RecordFails, HeartbeatArrives
    <2> QED BY <1>2, <2>1, <2>2, <2>3, <2>4, <2>5, <2>6 DEF AttemptStep
  <1>3. ASSUME NEW a \in Attempts, ProviderStep(a) PROVE frames' = frames
    BY <1>3 DEF ProviderStep, ProviderProcesses, ProviderRefuses
  <1> QED BY <1>1, <1>2, <1>3 DEF Next

\* Only Dispatch's claim brings an attempt to the point of sending, and the frame of
\* that claim is in Dex then.
LEMMA ClaimStep ==
    ASSUME CheckpointInv, [Next]_vars
    PROVE  SendersHaveClaimed'
  <1> SUFFICES ASSUME NEW b \in Attempts, sendPhase'[b] = "claimed" PROVE Claim(b) \in frames'
    BY DEF SendersHaveClaimed, Claim, MarkerOf
  <1>1. CASE sendPhase[b] = "claimed"
    BY <1>1, FramesStep DEF CheckpointInv, SendersHaveClaimed
  <1>2. CASE sendPhase[b] # "claimed"
    <2>1. PICK a \in Attempts : AttemptStep(a)
      BY <1>2 DEF Next, vars, StartAttempt, ProviderStep, ProviderProcesses, ProviderRefuses
    <2>2. a = b /\ DispatchClaims(b)
      BY <1>2, <2>1
      DEF AttemptStep, DecideFailClosed, DecideWithoutCheckpoint, DecideFromCheckpoint, Decides,
          DispatchClaims, DispatchCheckpointFails, CancelClaim, StartSend, SkipSend, FinishSend,
          InterruptSend, ReturnFromDispatch, repeatClaim, RecordNotSent, RecordCanResend, record_can_resend, RecordProviderID, record_provider_id,
          CheckpointInv, FenceInv, TypeOK
    <2> QED BY <2>2 DEF DispatchClaims, RecordAcknowledged, HeartbeatArrives
  <1> QED BY <1>1, <1>2

\* A processed request stays processed.
LEMMA ProcessedIsStable ==
    ASSUME CheckpointInv, [Next]_vars, NEW b \in Attempts, request[b] = "processed"
    PROVE  request'[b] = "processed"
  <1>1. CASE UNCHANGED vars \/ StartAttempt
    BY <1>1 DEF vars, StartAttempt
  <1>2. ASSUME NEW a \in Attempts, AttemptStep(a) PROVE request'[b] = "processed"
    BY <1>2
    DEF AttemptStep, DecideFailClosed, DecideWithoutCheckpoint, DecideFromCheckpoint, Decides,
        DispatchClaims, DispatchCheckpointFails, CancelClaim, StartSend, SkipSend, FinishSend,
        InterruptSend, ReturnFromDispatch, repeatClaim, RecordNotSent, RecordCanResend, record_can_resend, RecordProviderID, record_provider_id,
        CheckpointInv, FenceInv, TypeOK, LatchesAgree
  <1>3. ASSUME NEW a \in Attempts, ProviderStep(a) PROVE request'[b] = "processed"
    BY <1>3 DEF ProviderStep, ProviderProcesses, ProviderRefuses, CheckpointInv, FenceInv, TypeOK
  <1> QED BY <1>1, <1>2, <1>3 DEF Next

\* The callback reports acceptance only of a processed request.
LEMMA NewAcceptance ==
    ASSUME CheckpointInv, [Next]_vars, NEW b \in Attempts,
           evidence[b] # "accepted", evidence'[b] = "accepted"
    PROVE  request[b] = "processed"
  <1>1. PICK a \in Attempts : AttemptStep(a)
    BY DEF Next, vars, StartAttempt, ProviderStep, ProviderProcesses, ProviderRefuses
  <1> QED
    BY <1>1
    DEF AttemptStep, DecideFailClosed, DecideWithoutCheckpoint, DecideFromCheckpoint, Decides,
        DispatchClaims, DispatchCheckpointFails, CancelClaim, StartSend, SkipSend, FinishSend,
        InterruptSend, ReturnFromDispatch, repeatClaim, RecordNotSent, RecordCanResend, record_can_resend, RecordProviderID, record_provider_id,
        CheckpointInv, FenceInv, TypeOK

\* An attempt takes the marker of its decision from the frames in Dex.
LEMMA NewDecisionMarker ==
    ASSUME CheckpointInv, [Next]_vars, NEW b \in Attempts, decisionMarker'[b] # decisionMarker[b]
    PROVE  decisionMarker'[b] \in frames \union {ZeroMarker}
  <1>1. PICK a \in Attempts : AttemptStep(a)
    BY DEF Next, vars, StartAttempt, ProviderStep, ProviderProcesses, ProviderRefuses
  <1> QED
    BY <1>1
    DEF AttemptStep, DecideFailClosed, DecideWithoutCheckpoint, DecideFromCheckpoint, Decides,
        DispatchClaims, DispatchCheckpointFails, CancelClaim, StartSend, SkipSend, FinishSend,
        InterruptSend, ReturnFromDispatch, repeatClaim, RecordNotSent, RecordCanResend, record_can_resend, RecordProviderID, record_provider_id,
        CheckpointInv, FenceInv, TypeOK

\* Provider IDs stay genuine: in the callers, in Dex and in the decisions.
LEMMA GenuineStep ==
    ASSUME CheckpointInv, [Next]_vars
    PROVE  ProviderIDsAreGenuine'
  <1> USE DEF CheckpointInv, ProviderIDsAreGenuine
  <1>1. ASSUME NEW b \in Attempts, evidence'[b] = "accepted" PROVE request'[b] = "processed"
    BY <1>1, NewAcceptance, ProcessedIsStable
  <1>2. ASSUME NEW f \in frames', f.providerID PROVE request'[f.attempt] = "processed"
    <2>1. CASE f \in frames
      <3>1. f.attempt \in Attempts
        BY <2>1 DEF FenceInv, TypeOK, Marker
      <3> QED BY <1>2, <2>1, <3>1, ProcessedIsStable
    <2>2. CASE f \notin frames
      <3>1. f.attempt \in Attempts /\ request[f.attempt] = "processed"
        BY <1>2, <2>2, FramesStep
      <3> QED BY <3>1, ProcessedIsStable
    <2> QED BY <2>1, <2>2
  <1>3. ASSUME NEW b \in Attempts, decisionMarker'[b].providerID
        PROVE  request'[decisionMarker'[b].attempt] = "processed"
    <2> DEFINE m == decisionMarker'[b]
    <2>1. CASE m = decisionMarker[b]
      <3>1. request[m.attempt] = "processed"
        BY <1>3, <2>1 DEF ReadBackIsGenuine
      <3>2. m.attempt \in Attempts
        BY <1>3, <2>1, ZeroHasNoID DEF FenceInv, TypeOK, Marker
      <3> QED BY <3>1, <3>2, ProcessedIsStable
    <2>2. CASE m # decisionMarker[b]
      <3>1. m \in frames
        BY <1>3, <2>2, NewDecisionMarker, ZeroHasNoID
      <3>2. m.attempt \in Attempts /\ request[m.attempt] = "processed"
        BY <1>3, <3>1 DEF FenceInv, TypeOK, Marker
      <3> QED BY <3>2, ProcessedIsStable
    <2> QED BY <2>1, <2>2
  <1> QED BY <1>1, <1>2, <1>3 DEF ReadBackIsGenuine

\* The invariant about checkpoints holds in every behaviour.
THEOREM CheckpointInvariant == Spec => []CheckpointInv
  <1>1. CheckpointInv /\ [Next]_vars => CheckpointInv'
    BY FenceStep, MarkersStep, ClaimStep, GenuineStep DEF CheckpointInv
  <1> QED BY <1>1, CheckpointInit, PTL DEF Spec

\* No later frame hides a decisive checkpoint, for every number of attempts.
THEOREM DecisiveStaysVisible == Spec => []DecisiveCheckpointNotHidden
  <1>1. CheckpointInv => DecisiveCheckpointNotHidden
    BY DEF CheckpointInv
  <1> QED BY <1>1, CheckpointInvariant, PTL

\* An attempt is told to read back only a write that really happened.
THEOREM ReadBackCorrect == Spec => []ReadBackIsGenuine
  <1>1. CheckpointInv => ReadBackIsGenuine
    BY DEF CheckpointInv, ProviderIDsAreGenuine
  <1> QED BY <1>1, CheckpointInvariant, PTL

\* No request leaves the process before its claim reached Dex.
THEOREM ClaimsPrecede == Spec => ClaimPrecedesSend
  <1> DEFINE Claimed == \A a \in Attempts :
                 request[a] = "unsent" /\ request'[a] # "unsent" => Claim(a) \in frames
  <1>1. ASSUME CheckpointInv, [Next]_vars PROVE [Claimed]_vars
    <2> SUFFICES ASSUME NEW a \in Attempts, request[a] = "unsent", request'[a] # "unsent"
                 PROVE  Claim(a) \in frames
      OBVIOUS
    <2>1. CASE UNCHANGED vars \/ StartAttempt
      BY <2>1 DEF vars, StartAttempt
    <2>2. ASSUME NEW b \in Attempts, AttemptStep(b) PROVE sendPhase[a] = "claimed"
      BY <1>1, <2>2
      DEF AttemptStep, DecideFailClosed, DecideWithoutCheckpoint, DecideFromCheckpoint, Decides,
          DispatchClaims, DispatchCheckpointFails, CancelClaim, StartSend, SkipSend, FinishSend,
          InterruptSend, ReturnFromDispatch, repeatClaim, RecordNotSent, RecordCanResend, record_can_resend, RecordProviderID, record_provider_id,
          CheckpointInv, FenceInv, TypeOK
    <2>3. ASSUME NEW b \in Attempts, ProviderStep(b) PROVE FALSE
      BY <1>1, <2>3 DEF ProviderStep, ProviderProcesses, ProviderRefuses, CheckpointInv, FenceInv, TypeOK
    <2> QED BY <1>1, <2>1, <2>2, <2>3 DEF Next, CheckpointInv, SendersHaveClaimed
  <1> QED BY <1>1, CheckpointInvariant, PTL DEF Spec, ClaimPrecedesSend
-----------------------------------------------------------------------------
(* The connectors' writes.                                                 *)

\* A profile is a record of the declared shape.
LEMMA ProfileFields ==
    ASSUME NEW p \in Profiles
    PROVE  /\ p \in Profile
           /\ p.accepts \subseteq {"ok", "noID", "idOnly"}
           /\ p.refusals \cap {"ok", "noID", "idOnly", "lost"} = {}
  BY ProfilesAssumption

\* The initial state of the Step satisfies its invariant.
LEMMA StepInit == WriteInit => TypeOK /\ StepInv
  <1> SUFFICES ASSUME WriteInit PROVE TypeOK /\ StepInv
    OBVIOUS
  <1>1. TypeOK
    BY FenceInit DEF WriteInit, FenceInv
  <1>2. WriteTypeOK
    BY DEF WriteInit, WriteTypeOK, Outcomes
  <1>3. ResponsesAreBacked
    <2>1. "none" \notin profile.refusals
      BY ProfileFields DEF WriteInit, Profile, Responses
    <2> QED BY <2>1 DEF WriteInit, Init, ResponsesAreBacked, HasSendFinished
  <1>4. PositionsAgree
    BY DEF WriteInit, Init, PositionsAgree, At
  <1>5. SendersFollowReturned
    BY DEF WriteInit, Init, SendersFollowReturned
  <1> QED BY <1>1, <1>2, <1>3, <1>4, <1>5 DEF StepInv

\* What a search finds for an attempt that sent and has not returned is the write of
\* that attempt: those before it are settled, and nobody after it was allowed to send.
LEMMA FoundIsOwn ==
    ASSUME FenceInv, StepInv, NEW a \in Attempts, ~At(a, "returned"), HasSendFinished(a),
           NEW b \in Attempts, request[b] = "processed"
    PROVE  request[a] = "processed"
  <1>1. decision[a] = "SendAllowed" /\ decision[b] = "SendAllowed"
    BY ProcessedWasAllowed DEF FenceInv, LatchesAgree, HasSendFinished, MayBeProcessed
  <1>2. CASE b < a
    <2>1. Settled(b)
      BY <1>1, <1>2 DEF FenceInv, SendersFollowSettled, Attempts
    <2> QED BY <2>1, SettledNotProcessed DEF MayBeProcessed
  <1>3. CASE b > a
    BY <1>1, <1>3 DEF StepInv, SendersFollowReturned, Attempts
  <1> QED BY <1>2, <1>3, MaxAttemptAssumption DEF Attempts

\* With obligations kept, a connector's step is a step of the fence or leaves it alone.
LEMMA StepIsFenceStep ==
    ASSUME \A p \in Profiles : KeepsObligations(p),
           FenceInv, StepInv, [WriteNext]_<<vars, stepVars>>
    PROVE  [Next]_vars
  <1>1. CASE UNCHANGED <<vars, stepVars>>
    BY <1>1
  <1>2. CASE NextAttempt
    BY <1>2 DEF NextAttempt, Next
  <1>3. ASSUME NEW a \in Attempts, Preparation(a)
        PROVE  [Next]_vars
    BY <1>3 DEF Preparation, ResolverFails, Decide, FailClosed, PreparationFails,
                PreparationDefect, BeginDispatch, ClaimFails, ClaimIsCancelled, Next, AttemptStep
  <1>4. ASSUME NEW a \in Attempts, Dispatch(a)
        PROVE  [Next]_vars
    BY <1>4 DEF Dispatch, Send, SendIsSkipped, Receive, SendIsInterrupted, EndDispatch,
                RepeatClaim, Next, AttemptStep
  <1>5. ASSUME NEW a \in Attempts, Classification(a)
        PROVE  [Next]_vars
    <2>1. KeepsObligations(profile)
      BY DEF StepInv, WriteTypeOK
    <2>2. CASE ReportAccepted(a)
      <3>1. record_provider_id(a) /\ response[a] = "ok" => RecordProviderID(a)
        BY DEF StepInv, ResponsesAreBacked, RecordProviderID
      <3> QED BY <2>2, <3>1 DEF ReportAccepted, ReturnAccepted, Next, AttemptStep
    <2>3. CASE ReturnCanResend(a)
      <3>1. RecordCanResend(a)
        BY <2>1, <2>3 DEF ReturnCanResend, KeepsObligations, StepInv, ResponsesAreBacked, RecordCanResend
      <3> QED BY <3>1 DEF Next, AttemptStep
    <2>4. CASE Confirm(a)
      <3>1. RecordProviderID(a)
        BY <2>1, <2>4 DEF Confirm, KeepsObligations, StepInv, ResponsesAreBacked, RecordProviderID
      <3> QED BY <3>1 DEF Next, AttemptStep
    <2>5. CASE SaveID(a)
      <3>1. RecordProviderID(a)
        BY <2>1, <2>5 DEF SaveID, KeepsObligations, StepInv, ResponsesAreBacked, RecordProviderID
      <3> QED BY <3>1 DEF Next, AttemptStep
    <2>6. CASE ReadBackFinds(a)
      <3>1. record_provider_id(a) => RecordProviderID(a)
        <4> SUFFICES ASSUME record_provider_id(a) PROVE request[a] = "processed"
          BY DEF RecordProviderID
        <4>1. PICK b \in Attempts : request[b] = "processed"
          BY <2>6 DEF ReadBackFinds
        <4>2. ~At(a, "returned") /\ HasSendFinished(a)
          BY <2>6 DEF ReadBackFinds, IsLooking, At, record_provider_id, IsClaimHeld
        <4> QED BY <4>1, <4>2, FoundIsOwn
      <3> QED BY <2>6, <3>1 DEF ReadBackFinds, ReturnAccepted, Next, AttemptStep
    <2> QED BY <1>5, <2>2, <2>3, <2>4, <2>5, <2>6
            DEF Classification, ReturnRejected, ReturnUncertain, ReturnRetry, LookUp,
                ReadBackFails
  <1>6. ASSUME NEW a \in Attempts, Provider(a)
        PROVE  [Next]_vars
    BY <1>6 DEF Provider, Next
  <1> QED BY <1>1, <1>2, <1>3, <1>4, <1>5, <1>6 DEF WriteNext
-----------------------------------------------------------------------------
\* An attempt that returns an outcome, or goes on, keeps the types.
LEMMA ReturnsKeepsType ==
    ASSUME WriteTypeOK, NEW a \in Attempts, NEW o \in Outcomes, NEW t \in BOOLEAN, Returns(a, o, t)
    PROVE  WriteTypeOK'
  BY DEF WriteTypeOK, Returns, Goto, Notes, Outcomes

\* An attempt that moves on to another position stays in the type.
LEMMA ContinuesKeepsType ==
    ASSUME WriteTypeOK, NEW a \in Attempts, NEW t \in BOOLEAN,
           NEW l \in {"prepare", "dispatch", "cancelled", "classify", "readBack"},
           Continues(a, l, t), response' \in [Attempts -> Responses \union {"none"}]
    PROVE  WriteTypeOK'
  BY DEF WriteTypeOK, Continues, Goto, Notes

\* Every step keeps the types of the Step's variables.
LEMMA WriteTypeStep ==
    ASSUME WriteTypeOK, [WriteNext]_<<vars, stepVars>>
    PROVE  WriteTypeOK'
  <1>1. CASE UNCHANGED <<vars, stepVars>>
    BY <1>1 DEF WriteTypeOK, stepVars
  <1>2. CASE NextAttempt
    BY <1>2 DEF NextAttempt, WriteTypeOK, Notes
  <1>p. profile \in Profile
    BY ProfileFields DEF WriteTypeOK
  <1>r. response \in [Attempts -> Responses \union {"none"}]
    BY DEF WriteTypeOK
  <1>3. ASSUME NEW a \in Attempts, Preparation(a)
        PROVE  WriteTypeOK'
    <2>1. CASE ResolverFails(a)
      BY <2>1, ReturnsKeepsType DEF ResolverFails, Outcomes
    <2>2. CASE Decide(a)
      BY <2>2, <1>r, ContinuesKeepsType DEF Decide
    <2>3. CASE FailClosed(a)
      <3>1. CASE profile.failClosed = "readBack"
        BY <2>3, <3>1, <1>r, ContinuesKeepsType DEF FailClosed
      <3>2. CASE profile.failClosed # "readBack"
        <4>1. profile.failClosed \in Outcomes
          BY <1>p, <3>2 DEF Profile, Outcomes
        <4> QED BY <2>3, <3>2, <4>1, ReturnsKeepsType DEF FailClosed
      <3> QED BY <3>1, <3>2
    <2>4. CASE PreparationFails(a)
      BY <2>4, ReturnsKeepsType DEF PreparationFails, Outcomes
    <2>5. CASE PreparationDefect(a)
      BY <2>5, ReturnsKeepsType DEF PreparationDefect, Outcomes
    <2>6. CASE BeginDispatch(a)
      BY <2>6, <1>r, ContinuesKeepsType DEF BeginDispatch
    <2>7. CASE ClaimFails(a)
      BY <2>7, ReturnsKeepsType DEF ClaimFails, Outcomes
    <2>8. CASE ClaimIsCancelled(a)
      BY <2>8, <1>r, ContinuesKeepsType DEF ClaimIsCancelled
    <2> QED BY <1>3, <2>1, <2>2, <2>3, <2>4, <2>5, <2>6, <2>7, <2>8 DEF Preparation
  <1>4. ASSUME NEW a \in Attempts, Dispatch(a)
        PROVE  WriteTypeOK'
    <2>1. CASE Send(a) \/ RepeatClaim(a)
      BY <2>1 DEF Send, RepeatClaim, WriteTypeOK, stepVars
    <2>2. CASE SendIsSkipped(a)
      <3>1. response' \in [Attempts -> Responses \union {"none"}]
        BY <2>2, <1>r DEF SendIsSkipped, Responses
      <3> QED BY <2>2, <3>1, ContinuesKeepsType DEF SendIsSkipped
    <2>3. CASE Receive(a)
      <3> PICK r \in Responses : /\ response' = [response EXCEPT ![a] = r]
                                 /\ Continues(a, "dispatch", r # "ok" /\ EvidenceOf(r) # "refused")
        BY <2>3 DEF Receive
      <3>1. response' \in [Attempts -> Responses \union {"none"}]
        BY <1>r
      <3> QED BY <3>1, ContinuesKeepsType
    <2>4. CASE SendIsInterrupted(a) \/ EndDispatch(a)
      BY <2>4, <1>r, ContinuesKeepsType DEF SendIsInterrupted, EndDispatch
    <2> QED BY <1>4, <2>1, <2>2, <2>3, <2>4 DEF Dispatch
  <1>5. ASSUME NEW a \in Attempts, Classification(a)
        PROVE  WriteTypeOK'
    <2>1. CASE ReportAccepted(a)
      BY <2>1, ReturnsKeepsType DEF ReportAccepted, ReturnAccepted, Outcomes
    <2>2. CASE ReturnCanResend(a)
      BY <2>2, <1>p, ReturnsKeepsType DEF ReturnCanResend, Profile, Outcomes
    <2>3. CASE ReturnRejected(a) \/ ReturnUncertain(a) \/ ReturnRetry(a) \/ ReadBackFinds(a)
      BY <2>3, ReturnsKeepsType
      DEF ReturnRejected, ReturnUncertain, ReturnRetry, ReadBackFinds, IsLooking, ReturnAccepted, Outcomes
    <2>4. CASE Confirm(a)
      BY <2>4, <1>r, ReturnsKeepsType, ContinuesKeepsType DEF Confirm, Outcomes
    <2>5. CASE SaveID(a)
      BY <2>5, ReturnsKeepsType DEF SaveID, Outcomes
    <2>6. CASE LookUp(a)
      BY <2>6, <1>r, ContinuesKeepsType DEF LookUp
    <2>7. CASE ReadBackFails(a)
      <3>1. PICK o \in profile.unresolved : Returns(a, o, FALSE)
        BY <2>7 DEF ReadBackFails
      <3>2. o \in Outcomes
        BY <1>p DEF Profile, Outcomes
      <3> QED BY <3>1, <3>2, ReturnsKeepsType
    <2> QED BY <1>5, <2>1, <2>2, <2>3, <2>4, <2>5, <2>6, <2>7 DEF Classification
  <1>6. ASSUME NEW a \in Attempts, Provider(a)
        PROVE  WriteTypeOK'
    BY <1>6 DEF Provider, WriteTypeOK, stepVars
  <1> QED BY <1>1, <1>2, <1>3, <1>4, <1>5, <1>6 DEF WriteNext
-----------------------------------------------------------------------------
\* A step that touches neither sends nor responses keeps the responses backed.
LEMMA QuietStep ==
    ASSUME ResponsesAreBacked,
           UNCHANGED <<response, profile, sendPhase, evidence, request>>
    PROVE  ResponsesAreBacked'
  BY DEF ResponsesAreBacked, HasSendFinished

\* Every response stays backed by the fence's evidence.
LEMMA ResponsesStep ==
    ASSUME TypeOK, StepInv, [WriteNext]_<<vars, stepVars>>
    PROVE  ResponsesAreBacked'
  <1> USE DEF StepInv
  <1>1. CASE UNCHANGED <<vars, stepVars>>
    BY <1>1, QuietStep DEF vars, stepVars
  <1>2. CASE NextAttempt
    BY <1>2, QuietStep DEF NextAttempt, StartAttempt
  <1>3. ASSUME NEW a \in Attempts, Preparation(a)
        PROVE  ResponsesAreBacked'
    <2>1. UNCHANGED <<response, profile>>
      BY <1>3 DEF Preparation, ResolverFails, Decide, FailClosed, PreparationFails, PreparationDefect,
                  BeginDispatch, ClaimFails, ClaimIsCancelled, Returns, Continues
    <2>2. UNCHANGED <<evidence, request>>
      BY <1>3 DEF Preparation, ResolverFails, Decide, FailClosed, PreparationFails, PreparationDefect,
                  BeginDispatch, ClaimFails, ClaimIsCancelled, vars, DecideFailClosed,
                  DecideWithoutCheckpoint, DecideFromCheckpoint, Decides, RecordNotSent,
                  DispatchClaims, DispatchCheckpointFails, CancelClaim
    <2>3. \/ sendPhase' = sendPhase
          \/ /\ sendPhase[a] = "none"
             /\ \E phase \in {"claimed", "claimFailed", "claimCancelled"} :
                   sendPhase' = [sendPhase EXCEPT ![a] = phase]
      BY <1>3 DEF Preparation, ResolverFails, Decide, FailClosed, PreparationFails, PreparationDefect,
                  BeginDispatch, ClaimFails, ClaimIsCancelled, vars, DecideFailClosed,
                  DecideWithoutCheckpoint, DecideFromCheckpoint, Decides, RecordNotSent,
                  DispatchClaims, DispatchCheckpointFails, CancelClaim, MayStillSend, HasDispatched
    <2>4. \A b \in Attempts : HasSendFinished(b)' <=> HasSendFinished(b)
      BY <2>3 DEF HasSendFinished, TypeOK
    <2> QED BY <2>1, <2>2, <2>4 DEF ResponsesAreBacked
  <1>4. ASSUME NEW a \in Attempts, Dispatch(a)
        PROVE  ResponsesAreBacked'
    <2>0. profile' = profile /\ profile \in Profiles
      BY <1>4 DEF Dispatch, Send, SendIsSkipped, Receive, SendIsInterrupted, EndDispatch, RepeatClaim,
                  Continues, stepVars, WriteTypeOK
    <2>1. CASE Send(a)
      <3>1. \A b \in Attempts : HasSendFinished(b)' = HasSendFinished(b)
        BY <2>1 DEF Send, StartSend, HasSendFinished, TypeOK
      <3>2. \A b \in Attempts : response[b] \in {"ok", "idOnly", "noID"} => request'[b] = "processed"
        <4>1. sendPhase[a] = "claimed" /\ request' = [request EXCEPT ![a] = "inFlight"]
          BY <2>1 DEF Send, StartSend
        <4>2. response[a] = "none"
          BY <4>1 DEF ResponsesAreBacked, HasSendFinished
        <4>3. \A b \in Attempts \ {a} : request'[b] = request[b]
          BY <4>1 DEF TypeOK
        <4> QED BY <4>2, <4>3 DEF ResponsesAreBacked
      <3> QED BY <2>0, <2>1, <3>1, <3>2 DEF Send, StartSend, stepVars, ResponsesAreBacked
    <2>2. CASE RepeatClaim(a)
      BY <2>2, QuietStep DEF RepeatClaim, repeatClaim, stepVars
    <2>3. CASE SendIsSkipped(a)
      BY <2>0, <2>3, ProfileFields
      DEF SendIsSkipped, SkipSend, ResponsesAreBacked, HasSendFinished, TypeOK, WriteTypeOK
    <2>4. CASE Receive(a)
      <3> PICK r \in Responses : /\ evidence'[a] = EvidenceOf(r)
                                 /\ r = "noID" => request[a] = "processed"
                                 /\ response' = [response EXCEPT ![a] = r]
        BY <2>4 DEF Receive
      <3>1. /\ r # "none"
            /\ r \in {"ok", "idOnly"} => evidence'[a] = "accepted"
            /\ r \in profile.refusals => evidence'[a] = "refused"
        BY <2>0, ProfileFields DEF EvidenceOf, Responses
      <3>2. /\ FinishSend(a)
            /\ \A b \in Attempts \ {a} : /\ evidence'[b] = evidence[b]
                                         /\ sendPhase'[b] = sendPhase[b]
                                         /\ response'[b] = response[b]
            /\ sendPhase'[a] = "finished" /\ response'[a] = r /\ request' = request
        BY <2>4 DEF Receive, FinishSend, TypeOK, WriteTypeOK
      <3>3. evidence'[a] = "accepted" => request[a] = "processed"
        BY <3>2 DEF FinishSend, TypeOK
      <3>4. r \in {"ok", "idOnly", "noID"} => request'[a] = "processed"
        BY <3>1, <3>2, <3>3
      <3> QED BY <2>0, <3>1, <3>2, <3>4 DEF ResponsesAreBacked, HasSendFinished
    <2>5. CASE SendIsInterrupted(a)
      BY <2>0, <2>5 DEF SendIsInterrupted, InterruptSend, ResponsesAreBacked, HasSendFinished, TypeOK
    <2>6. CASE EndDispatch(a)
      BY <2>0, <2>6 DEF EndDispatch, ReturnFromDispatch, ResponsesAreBacked, HasSendFinished, TypeOK
    <2> QED BY <1>4, <2>1, <2>2, <2>3, <2>4, <2>5, <2>6 DEF Dispatch
  <1>5. ASSUME NEW a \in Attempts, Classification(a)
        PROVE  ResponsesAreBacked'
    BY <1>5, QuietStep
    DEF Classification, ReportAccepted, ReturnAccepted, ReturnCanResend, ReturnRejected, ReturnUncertain, ReturnRetry,
        Confirm, SaveID, LookUp, ReadBackFinds, IsLooking, ReadBackFails, Returns, Continues,
        record_provider_id, record_can_resend, vars
  <1>6. ASSUME NEW a \in Attempts, Provider(a)
        PROVE  ResponsesAreBacked'
    BY <1>6 DEF Provider, ProviderStep, ProviderProcesses, ProviderRefuses, stepVars,
                ResponsesAreBacked, HasSendFinished, TypeOK
  <1> QED BY <1>1, <1>2, <1>3, <1>4, <1>5, <1>6 DEF WriteNext
-----------------------------------------------------------------------------
\* A step of one attempt keeps the positions of the others, and its own if it ends up
\* where its fence allows.
LEMMA OneAttemptMoves ==
    ASSUME PositionsAgree, WriteTypeOK, NEW a \in Attempts, a <= attempt, attempt' = attempt,
           attempt \in Attempts,
           \A b \in Attempts \ {a} : /\ pc'[b] = pc[b]
                                    /\ decision'[b] = decision[b]
                                    /\ sendPhase'[b] = sendPhase[b],
           pc'[a] = "prepare" => decision'[a] = "SendAllowed" /\ sendPhase'[a] = "none",
           sendPhase'[a] \in {"claimed", "running", "finished"} => pc'[a] = "dispatch",
           pc'[a] = "classify" => sendPhase'[a] = "returned"
    PROVE  PositionsAgree'
  BY DEF PositionsAgree, At, Attempts

\* The position of every attempt agrees with its fence.
LEMMA PositionsStep ==
    ASSUME TypeOK, LatchesAgree, StepInv, [WriteNext]_<<vars, stepVars>>
    PROVE  PositionsAgree'
  <1> USE DEF StepInv
  <1>t. /\ pc \in [Attempts -> {"start", "prepare", "dispatch", "cancelled", "classify",
                                "readBack", "returned"}]
        /\ decision \in [Attempts -> DecisionKinds]
        /\ sendPhase \in [Attempts -> SendPhases]
        /\ attempt \in Attempts
    BY DEF TypeOK, WriteTypeOK
  <1>1. CASE UNCHANGED <<vars, stepVars>>
    BY <1>1 DEF PositionsAgree, At, vars, stepVars
  <1>2. CASE NextAttempt
    BY <1>2, <1>t DEF NextAttempt, StartAttempt, PositionsAgree, At, Attempts
  <1>s. \A a \in Attempts : ~At(a, "start") => a <= attempt
    BY <1>t DEF PositionsAgree, Attempts
  <1>d. \A a \in Attempts : decision[a] # "none" => a <= attempt
    BY <1>t DEF PositionsAgree, Attempts
  <1>3. ASSUME NEW a \in Attempts, Preparation(a)
        PROVE  PositionsAgree'
    <2>0. At(a, "start") => sendPhase[a] \notin {"claimed", "running", "finished"}
      BY DEF PositionsAgree, At
    <2>1. CASE ResolverFails(a)
      BY <2>0, <2>1, <1>t, OneAttemptMoves DEF ResolverFails, Returns, Goto, At, vars
    <2>2. CASE Decide(a)
      <3>1. /\ At(a, "start") /\ a <= attempt /\ attempt' = attempt /\ sendPhase' = sendPhase
            /\ decision[a] = "none"
            /\ \E kind : decision' = [decision EXCEPT ![a] = kind]
            /\ pc' = [pc EXCEPT ![a] = IF decision'[a] = "SendAllowed" THEN "prepare" ELSE "readBack"]
        BY <2>2 DEF Decide, DecideWithoutCheckpoint, DecideFromCheckpoint, Decides, Continues, Goto
      <3>2. sendPhase[a] = "none"
        BY <3>1, <1>t DEF LatchesAgree, SendPhases
      <3> QED BY <3>1, <3>2, <1>t, OneAttemptMoves
    <2>3. CASE FailClosed(a)
      BY <2>0, <2>3, <1>t, OneAttemptMoves
      DEF FailClosed, DecideFailClosed, Decides, Returns, Continues, Goto, At
    <2>4. CASE PreparationFails(a)
      BY <2>4, <1>t, <1>s, OneAttemptMoves
      DEF PreparationFails, RecordNotSent, MayStillSend, HasDispatched, Returns, Goto, At
    <2>5. CASE PreparationDefect(a)
      BY <2>5, <1>t, <1>s, OneAttemptMoves
      DEF PreparationDefect, RecordNotSent, Returns, Goto, At, vars, PositionsAgree
    <2>6. CASE BeginDispatch(a)
      BY <2>6, <1>t, <1>s, OneAttemptMoves DEF BeginDispatch, DispatchClaims, Continues, Goto, At
    <2>7. CASE ClaimFails(a)
      BY <2>7, <1>t, <1>s, OneAttemptMoves DEF ClaimFails, DispatchCheckpointFails, Returns, Goto, At
    <2>8. CASE ClaimIsCancelled(a)
      BY <2>8, <1>t, <1>s, OneAttemptMoves DEF ClaimIsCancelled, CancelClaim, Continues, Goto, At
    <2> QED BY <1>3, <2>1, <2>2, <2>3, <2>4, <2>5, <2>6, <2>7, <2>8 DEF Preparation
  <1>4. ASSUME NEW a \in Attempts, Dispatch(a)
        PROVE  PositionsAgree'
    <2>1. CASE Send(a)
      BY <2>1, <1>t, <1>s, OneAttemptMoves DEF Send, StartSend, stepVars, PositionsAgree, At
    <2>2. CASE RepeatClaim(a)
      BY <2>2 DEF RepeatClaim, repeatClaim, stepVars, PositionsAgree, At
    <2>3. CASE SendIsSkipped(a)
      BY <2>3, <1>t, <1>s, OneAttemptMoves
      DEF SendIsSkipped, SkipSend, Continues, Goto, PositionsAgree, At
    <2>4. CASE Receive(a)
      <3>1. FinishSend(a) /\ pc' = [pc EXCEPT ![a] = "dispatch"]
        BY <2>4 DEF Receive, Continues, Goto
      <3> QED BY <3>1, <1>t, <1>s, OneAttemptMoves DEF FinishSend, PositionsAgree, At
    <2>5. CASE SendIsInterrupted(a)
      BY <2>5, <1>t, <1>s, OneAttemptMoves
      DEF SendIsInterrupted, InterruptSend, Continues, Goto, PositionsAgree, At
    <2>6. CASE EndDispatch(a)
      BY <2>6, <1>t, <1>s, OneAttemptMoves
      DEF EndDispatch, ReturnFromDispatch, Continues, Goto, PositionsAgree, At
    <2> QED BY <1>4, <2>1, <2>2, <2>3, <2>4, <2>5, <2>6 DEF Dispatch
  <1>5. ASSUME NEW a \in Attempts, Classification(a)
        PROVE  PositionsAgree'
    <2>1. UNCHANGED <<attempt, decision, sendPhase>>
      BY <1>5 DEF Classification, ReportAccepted, ReturnAccepted, ReturnCanResend, ReturnRejected, ReturnUncertain,
                  ReturnRetry, Confirm, SaveID, LookUp, ReadBackFinds, IsLooking, ReadBackFails,
                  record_provider_id, record_can_resend, vars
    <2>2. /\ At(a, "classify") \/ At(a, "readBack") \/ At(a, "prepare")
          /\ \/ pc' = [pc EXCEPT ![a] = "returned"]
             \/ pc' = [pc EXCEPT ![a] = "readBack"]
      BY <1>5 DEF Classification, ReportAccepted, ReturnAccepted, ReturnCanResend, ReturnRejected, ReturnUncertain,
                  ReturnRetry, Confirm, SaveID, LookUp, ReadBackFinds, IsLooking, ReadBackFails,
                  Returns, Continues, Goto, At
    <2>3. sendPhase'[a] \notin {"claimed", "running", "finished"}
      BY <2>1, <2>2 DEF PositionsAgree, At
    <2> QED BY <2>1, <2>2, <2>3, <1>t, <1>s, OneAttemptMoves DEF PositionsAgree, At
  <1>6. ASSUME NEW a \in Attempts, Provider(a)
        PROVE  PositionsAgree'
    BY <1>6 DEF Provider, ProviderStep, ProviderProcesses, ProviderRefuses, stepVars, PositionsAgree, At
  <1> QED BY <1>1, <1>2, <1>3, <1>4, <1>5, <1>6 DEF WriteNext
-----------------------------------------------------------------------------
\* An attempt that returned takes no further step of its own.
LEMMA ReturnedStays ==
    ASSUME StepInv, [WriteNext]_<<vars, stepVars>>, NEW a \in Attempts, At(a, "returned")
    PROVE  pc'[a] = "returned"
  <1>t. pc \in [Attempts -> {"start", "prepare", "dispatch", "cancelled", "classify",
                             "readBack", "returned"}]
    BY DEF StepInv, WriteTypeOK
  <1>1. CASE UNCHANGED <<vars, stepVars>> \/ NextAttempt
    BY <1>1 DEF stepVars, NextAttempt, At
  <1>2. ASSUME NEW b \in Attempts, Preparation(b) \/ Classification(b)
        PROVE  pc'[a] = "returned"
    <2>1. ~At(b, "returned") /\ \E l : pc' = [pc EXCEPT ![b] = l]
      BY <1>2 DEF Preparation, ResolverFails, Decide, FailClosed, PreparationFails, PreparationDefect,
                  BeginDispatch, ClaimFails, ClaimIsCancelled, Classification, ReportAccepted, ReturnAccepted,
                  ReturnCanResend, ReturnRejected, ReturnUncertain, ReturnRetry, Confirm, SaveID,
                  LookUp, ReadBackFinds, IsLooking, ReadBackFails, Returns, Continues, Goto, At
    <2> QED BY <1>t, <2>1 DEF At
  <1>3. ASSUME NEW b \in Attempts, Dispatch(b)
        PROVE  pc'[a] = "returned"
    <2>1. CASE Send(b) \/ RepeatClaim(b)
      BY <2>1 DEF Send, RepeatClaim, stepVars, At
    <2>2. CASE SendIsSkipped(b) \/ Receive(b) \/ SendIsInterrupted(b) \/ EndDispatch(b)
      <3>1. sendPhase[b] \in {"claimed", "running", "finished"} /\ \E l : pc' = [pc EXCEPT ![b] = l]
        BY <2>2 DEF SendIsSkipped, SkipSend, Receive, FinishSend, SendIsInterrupted, InterruptSend,
                    EndDispatch, ReturnFromDispatch, Continues, Goto
      <3>2. At(b, "dispatch")
        BY <3>1 DEF StepInv, PositionsAgree
      <3> QED BY <1>t, <3>1, <3>2 DEF At
    <2> QED BY <1>3, <2>1, <2>2 DEF Dispatch
  <1>4. ASSUME NEW b \in Attempts, Provider(b)
        PROVE  pc'[a] = "returned"
    BY <1>4 DEF Provider, stepVars, At
  <1> QED BY <1>1, <1>2, <1>3, <1>4 DEF WriteNext

\* A permit that reaches Dex is the last thing its attempt does.
LEMMA PermitsReturn ==
    ASSUME TypeOK, StepInv, [WriteNext]_<<vars, stepVars>>,
           NEW f \in frames', f \notin frames, f.state \in {"notSent", "canResend"}
    PROVE  f.attempt \in Attempts /\ pc'[f.attempt] = "returned"
  <1>m. \A a \in Attempts : /\ NotSent(a).attempt = a /\ CanResend(a).attempt = a
                            /\ Claim(a).state = "claimed" /\ Accepted(a).state = "claimed"
    BY DEF NotSent, Claim, CanResend, Accepted, MarkerOf
  <1>f. ASSUME NEW a \in Attempts, NEW m,
               record(a, m) \/ RecordFails(a, m) \/ HeartbeatArrives(a, m) \/ RecordAcknowledged(a, m)
        PROVE  f = m
    BY <1>f DEF record, RecordAcknowledged, RecordFails, HeartbeatArrives
  <1>t. pc \in [Attempts -> {"start", "prepare", "dispatch", "cancelled", "classify",
                             "readBack", "returned"}]
    BY DEF StepInv, WriteTypeOK
  <1>1. CASE UNCHANGED <<vars, stepVars>> \/ NextAttempt
    BY <1>1 DEF vars, NextAttempt, StartAttempt
  <1>2. ASSUME NEW a \in Attempts, Preparation(a)
        PROVE  f.attempt \in Attempts /\ pc'[f.attempt] = "returned"
    <2>1. CASE ResolverFails(a) \/ Decide(a) \/ FailClosed(a)
      BY <2>1 DEF ResolverFails, Decide, FailClosed, DecideFailClosed, DecideWithoutCheckpoint,
                  DecideFromCheckpoint, Decides, vars
    <2>2. CASE PreparationFails(a) \/ PreparationDefect(a)
      <3>1. record(a, NotSent(a)) /\ pc' = [pc EXCEPT ![a] = "returned"]
        BY <2>2 DEF PreparationFails, PreparationDefect, RecordNotSent, Returns, Goto, vars
      <3> QED BY <3>1, <1>f, <1>m, <1>t
    <2>3. CASE BeginDispatch(a) \/ ClaimIsCancelled(a)
      <3>1. RecordAcknowledged(a, Claim(a)) \/ RecordFails(a, Claim(a))
        BY <2>3 DEF BeginDispatch, ClaimIsCancelled, DispatchClaims, CancelClaim
      <3> QED BY <3>1, <1>f, <1>m
    <2>4. CASE ClaimFails(a)
      <3>1. frames' \subseteq frames \union {Claim(a), NotSent(a)} /\ pc' = [pc EXCEPT ![a] = "returned"]
        BY <2>4 DEF ClaimFails, DispatchCheckpointFails, Returns, Goto
      <3>2. f = NotSent(a)
        BY <3>1, <1>m
      <3> QED BY <3>1, <3>2, <1>m, <1>t
    <2> QED BY <1>2, <2>1, <2>2, <2>3, <2>4 DEF Preparation
  <1>3. ASSUME NEW a \in Attempts, Dispatch(a)
        PROVE  FALSE
    <2>1. frames' = frames \/ HeartbeatArrives(a, Claim(a))
      BY <1>3 DEF Dispatch, Send, SendIsSkipped, Receive, SendIsInterrupted, EndDispatch, RepeatClaim,
                  StartSend, SkipSend, FinishSend, InterruptSend, ReturnFromDispatch, repeatClaim
    <2> QED BY <2>1, <1>f, <1>m
  <1>4. ASSUME NEW a \in Attempts, Classification(a)
        PROVE  f.attempt \in Attempts /\ pc'[f.attempt] = "returned"
    <2>1. CASE ReturnCanResend(a)
      <3>1. record(a, CanResend(a)) /\ pc' = [pc EXCEPT ![a] = "returned"]
        BY <2>1 DEF ReturnCanResend, record_can_resend, Returns, Goto
      <3> QED BY <3>1, <1>f, <1>m, <1>t
    <2>2. CASE ~ReturnCanResend(a)
      <3>1. frames' = frames \/ record(a, Accepted(a))
        BY <1>4, <2>2
        DEF Classification, ReportAccepted, ReturnAccepted, ReturnRejected, ReturnUncertain, ReturnRetry,
            Confirm, SaveID, LookUp, ReadBackFinds, ReadBackFails, record_provider_id, vars
      <3> QED BY <3>1, <1>f, <1>m
    <2> QED BY <2>1, <2>2
  <1>5. ASSUME NEW a \in Attempts, Provider(a)
        PROVE  FALSE
    BY <1>5 DEF Provider, ProviderStep, ProviderProcesses, ProviderRefuses
  <1> QED BY <1>1, <1>2, <1>3, <1>4, <1>5 DEF WriteNext

\* Whoever may send follows attempts that returned.
LEMMA SendersStep ==
    ASSUME FenceInv, StepInv, [Next]_vars, [WriteNext]_<<vars, stepVars>>
    PROVE  SendersFollowReturned'
  <1>t. \A f \in frames : f.attempt \in Attempts
    BY DEF FenceInv, TypeOK, Marker
  <1>1. ASSUME NEW f \in frames', f.state \in {"notSent", "canResend"}
        PROVE  pc'[f.attempt] = "returned"
    <2>1. CASE f \in frames
      BY <1>1, <1>t, <2>1, ReturnedStays DEF StepInv, SendersFollowReturned
    <2>2. CASE f \notin frames
      BY <1>1, <2>2, PermitsReturn DEF FenceInv
    <2> QED BY <2>1, <2>2
  <1>2. ASSUME NEW a \in Attempts, decision'[a] = "SendAllowed", NEW b \in 1..(a - 1)
        PROVE  pc'[b] = "returned"
    <2>0. b \in Attempts
      BY MaxAttemptAssumption DEF Attempts
    <2>1. At(b, "returned")
      <3>1. CASE decision[a] = "SendAllowed"
        BY <3>1 DEF StepInv, SendersFollowReturned
      <3>2. CASE decision[a] # "SendAllowed"
        <4>1. PICK f \in frames : PermitsSend(a, f)
          BY <1>2, <3>2, SenderHasPermit
        <4>2. a - 1 \in Attempts /\ decision[a - 1] = "SendAllowed" /\ At(a - 1, "returned")
          BY <1>t, <4>1 DEF PermitsSend, FenceInv, PermitsAreSettled, StepInv, SendersFollowReturned
        <4>3. CASE b = a - 1
          BY <4>2, <4>3
        <4>4. CASE b # a - 1
          BY <4>2, <4>4 DEF StepInv, SendersFollowReturned, Attempts
        <4> QED BY <4>3, <4>4
      <3> QED BY <3>1, <3>2
    <2> QED BY <2>0, <2>1, ReturnedStays
  <1> QED BY <1>1, <1>2 DEF SendersFollowReturned, At
-----------------------------------------------------------------------------
\* The fence's invariant and the Step's hold together in every behaviour of a
\* connector whose profile keeps its obligations.
THEOREM StepInvariant ==
    ASSUME \A p \in Profiles : KeepsObligations(p)
    PROVE  WriteSpec => [](FenceInv /\ StepInv)
  <1>1. WriteInit => FenceInv /\ StepInv
    BY StepInit, FenceInit DEF WriteInit
  <1>2. FenceInv /\ StepInv /\ [WriteNext]_<<vars, stepVars>> => (FenceInv /\ StepInv)'
    <2> SUFFICES ASSUME FenceInv, StepInv, [WriteNext]_<<vars, stepVars>>
                 PROVE  FenceInv' /\ StepInv'
      OBVIOUS
    <2>1. FenceInv'
      BY StepIsFenceStep, FenceStep
    <2>2. StepInv'
      BY StepIsFenceStep, WriteTypeStep, ResponsesStep, PositionsStep, SendersStep DEF StepInv, FenceInv
    <2> QED BY <2>1, <2>2
  <1> QED BY <1>1, <1>2, PTL DEF WriteSpec

\* The connectors implement the caller the fence was proved for: a profile that keeps
\* its obligations makes the whole Step a behaviour of the fence's specification.
THEOREM FenceRulesKept ==
    ASSUME \A p \in Profiles : KeepsObligations(p)
    PROVE  WriteSpec => FenceSpec
  <1>1. WriteInit => Init
    BY DEF WriteInit
  <1>2. FenceInv /\ StepInv /\ [WriteNext]_<<vars, stepVars>> => [Next]_vars
    BY StepIsFenceStep
  <1> QED BY <1>1, <1>2, StepInvariant, PTL DEF WriteSpec, FenceSpec, Spec

\* A connector whose profile keeps its obligations never has two writes at the
\* provider, however its attempts crash, overlap and lose their checkpoints.
THEOREM ConnectorWritesOnce ==
    ASSUME \A p \in Profiles : KeepsObligations(p)
    PROVE  WriteSpec => []AtMostOneWrite
  BY FenceRulesKept, SingleWrite, PTL DEF FenceSpec
-----------------------------------------------------------------------------
\* What a return does to the result.
LEMMA ReturnSettles ==
    ASSUME NEW a \in Attempts, NEW o, NEW t \in BOOLEAN, Returns(a, o, t)
    PROVE  result' = result \/ (result' = o /\ a = attempt /\ o # "retry")
  BY DEF Returns

\* What the returns with a choice can return.
LEMMA ChosenReturns ==
    ASSUME NEW a \in Attempts
    PROVE  /\ ReportAccepted(a) \/ ReadBackFinds(a) => \E o \in {"accepted", "retry"}, t \in BOOLEAN : Returns(a, o, t)
           /\ ReturnCanResend(a) => \E o \in {"retry", profile.resendFailure}, t \in BOOLEAN : Returns(a, o, t)
           /\ SaveID(a) \/ PreparationFails(a) \/ ClaimFails(a) =>
                \E t \in BOOLEAN : Returns(a, "retry", t)
           /\ Confirm(a) => (\E t \in BOOLEAN : Returns(a, "retry", t)) \/ result' = result
  BY DEF ReportAccepted, ReadBackFinds, ReturnAccepted, ReturnCanResend, Confirm, Continues, SaveID,
         PreparationFails, ClaimFails

\* The attempt that settles a Step as failed was allowed to send, so every earlier
\* attempt is settled, and its own request is unsent or refused.
LEMMA NewFailure ==
    ASSUME ReportsHonestly(profile), ~IsMisjudged,
           FenceInv, StepInv, [WriteNext]_<<vars, stepVars>>,
           result' # result, result' \in {"rejected", "defect"}
    PROVE  /\ decision[attempt] = "SendAllowed"
           /\ ~MayBeProcessed(attempt)
           /\ pc'[attempt] = "returned"
           /\ UNCHANGED <<attempt, request>>
  <1> USE DEF StepInv
  <1>p. ReportsHonestly(profile) /\ profile \in Profile
    BY ProfileFields DEF WriteTypeOK
  <1>t. pc \in [Attempts -> {"start", "prepare", "dispatch", "cancelled", "classify",
                             "readBack", "returned"}]
    BY DEF WriteTypeOK
  <1>1. PICK a \in Attempts : Preparation(a) \/ Dispatch(a) \/ Classification(a)
    BY DEF WriteNext, NextAttempt, Provider, stepVars
  <1>2. CASE Preparation(a)
    <2>1. PreparationDefect(a)
      <3>1. ~ResolverFails(a)
        BY <1>p DEF ResolverFails, ReportsHonestly
      <3>2. ~Decide(a) /\ ~BeginDispatch(a) /\ ~ClaimIsCancelled(a)
        BY DEF Decide, BeginDispatch, ClaimIsCancelled, Continues
      <3>3. ~FailClosed(a)
        <4> SUFFICES ASSUME FailClosed(a) PROVE FALSE
          OBVIOUS
        <4>1. profile.failClosed \in {"uncertain", "readBack"}
          BY <1>p DEF ReportsHonestly, Profile
        <4> QED BY <4>1, ReturnSettles DEF FailClosed, Continues
      <3>4. ~PreparationFails(a) /\ ~ClaimFails(a)
        BY ReturnSettles, ChosenReturns
      <3> QED BY <1>2, <3>1, <3>2, <3>3, <3>4 DEF Preparation
    <2>2. a = attempt /\ At(a, "prepare") /\ pc'[a] = "returned"
      BY <2>1, <1>t, ReturnSettles DEF PreparationDefect, Returns, Goto
    <2>3. decision[a] = "SendAllowed" /\ sendPhase[a] = "none"
      BY <2>2 DEF PositionsAgree
    <2>4. UNCHANGED <<attempt, request>>
      BY <2>1 DEF PreparationDefect, RecordNotSent, vars
    <2> QED BY <2>2, <2>3, <2>4 DEF FenceInv, LatchesAgree, MayBeProcessed
  <1>3. CASE Dispatch(a)
    BY <1>3 DEF Dispatch, Send, SendIsSkipped, Receive, SendIsInterrupted, EndDispatch, RepeatClaim,
                Continues, stepVars
  <1>4. CASE Classification(a)
    <2>1. ReturnRejected(a)
      <3>1. ~ReportAccepted(a) /\ ~ReadBackFinds(a)
        BY ReturnSettles, ChosenReturns
      <3>2. ~ReturnCanResend(a)
        <4> SUFFICES ASSUME ReturnCanResend(a) PROVE FALSE
          OBVIOUS
        <4>1. profile.resendFailure \in {"retry", "uncertain"}
          BY <1>p DEF Profile
        <4> QED BY <4>1, ReturnSettles, ChosenReturns
      <3>3. ~SaveID(a)
        BY ReturnSettles, ChosenReturns
      <3>6. ~(ReturnUncertain(a) \/ ReturnRetry(a))
        <4> SUFFICES ASSUME ReturnUncertain(a) \/ ReturnRetry(a) PROVE FALSE
          OBVIOUS
        <4> QED BY DEF ReturnUncertain, ReturnRetry, Returns
      <3>4. ~Confirm(a) /\ ~LookUp(a)
        BY ReturnSettles, ChosenReturns DEF LookUp, Continues
      <3>5. ~ReadBackFails(a)
        <4> SUFFICES ASSUME NEW o \in profile.unresolved, Returns(a, o, FALSE) PROVE FALSE
          BY DEF ReadBackFails
        <4>1. o \in {"retry", "uncertain"}
          BY <1>p DEF Profile
        <4> QED BY <4>1, ReturnSettles
      <3> QED BY <1>4, <3>1, <3>2, <3>3, <3>4, <3>5, <3>6 DEF Classification
    <2>2. a = attempt /\ At(a, "classify") /\ pc'[a] = "returned" /\ UNCHANGED <<attempt, request>>
      BY <2>1, <1>t, ReturnSettles DEF ReturnRejected, Returns, Goto, vars
    <2>3. evidence[a] = "refused"
      BY <2>1 DEF ReturnRejected, IsMisjudged, ResponsesAreBacked
    <2>4. decision[a] = "SendAllowed"
      BY <2>2 DEF PositionsAgree, FenceInv, LatchesAgree
    <2> QED BY <2>2, <2>3, <2>4 DEF FenceInv, LatchesAgree, MayBeProcessed
  <1> QED BY <1>1, <1>2, <1>3, <1>4

\* A step that newly settles the Step as accepted follows a processed request.
LEMMA NewAcceptedResult ==
    ASSUME StepInv, [WriteNext]_<<vars, stepVars>>,
           result' # result, result' = "accepted"
    PROVE  \E b \in Attempts : request[b] = "processed"
  <1> USE DEF StepInv
  <1>p. profile \in Profile /\ profile.accepts \subseteq {"ok", "noID", "idOnly"}
    BY ProfileFields DEF WriteTypeOK
  <1>1. PICK a \in Attempts : Preparation(a) \/ Dispatch(a) \/ Classification(a)
    BY DEF WriteNext, NextAttempt, Provider, stepVars
  <1>2. CASE Preparation(a)
    <2>1. profile.failClosed \in {"uncertain", "defect", "readBack"}
      BY <1>p DEF Profile
    <2>2. ~FailClosed(a)
      BY <2>1, ReturnSettles DEF FailClosed, Continues
    <2>3. ~Decide(a) /\ ~BeginDispatch(a) /\ ~ClaimIsCancelled(a)
      BY DEF Decide, BeginDispatch, ClaimIsCancelled, Continues
    <2>4. ~PreparationFails(a) /\ ~ClaimFails(a)
      BY ReturnSettles, ChosenReturns
    <2>5. CASE ResolverFails(a) \/ PreparationDefect(a)
      BY <2>5 DEF ResolverFails, PreparationDefect, Returns
    <2> QED BY <1>2, <2>2, <2>3, <2>4, <2>5 DEF Preparation
  <1>3. CASE Dispatch(a)
    BY <1>3 DEF Dispatch, Send, SendIsSkipped, Receive, SendIsInterrupted, EndDispatch, RepeatClaim,
                Continues, stepVars
  <1>4. CASE Classification(a)
    <2>1. CASE ReportAccepted(a)
      <3>1. response[a] \in {"ok", "noID", "idOnly"}
        BY <2>1, <1>p DEF ReportAccepted, ReturnAccepted
      <3> QED BY <3>1 DEF ResponsesAreBacked
    <2>2. CASE ReadBackFinds(a)
      BY <2>2 DEF ReadBackFinds, IsLooking, ReturnAccepted
    <2>3. CASE ReturnCanResend(a)
      <3>1. profile.resendFailure \in {"retry", "uncertain"}
        BY <1>p DEF Profile
      <3> QED BY <2>3, <3>1, ReturnSettles, ChosenReturns
    <2>4. CASE ReadBackFails(a)
      <3> PICK o \in profile.unresolved : Returns(a, o, FALSE)
        BY <2>4 DEF ReadBackFails
      <3>1. o \in {"retry", "uncertain"}
        BY <1>p DEF Profile
      <3> QED BY <3>1, ReturnSettles
    <2>5. CASE ReturnRejected(a) \/ ReturnUncertain(a) \/ ReturnRetry(a) \/ SaveID(a)
      BY <2>5, ReturnSettles, ChosenReturns DEF ReturnRejected, ReturnUncertain, ReturnRetry, Returns
    <2>6. CASE Confirm(a) \/ LookUp(a)
      BY <2>6, ReturnSettles, ChosenReturns DEF LookUp, Continues
    <2> QED BY <1>4, <2>1, <2>2, <2>3, <2>4, <2>5, <2>6 DEF Classification
  <1> QED BY <1>1, <1>2, <1>3, <1>4

\* A request that cannot be processed stays so while its attempt sends nothing.
LEMMA UnsentStays ==
    ASSUME FenceInv, StepInv, [Next]_vars, NEW a \in Attempts, At(a, "returned"), ~MayBeProcessed(a)
    PROVE  ~MayBeProcessed(a)'
  <1>0. sendPhase[a] # "claimed"
    BY DEF StepInv, PositionsAgree, At
  <1>t. request \in [Attempts -> {"unsent", "inFlight", "processed", "refused"}]
    BY DEF FenceInv, TypeOK
  <1>1. CASE UNCHANGED vars \/ StartAttempt
    BY <1>1 DEF vars, StartAttempt, MayBeProcessed
  <1>2. ASSUME NEW b \in Attempts, AttemptStep(b)
        PROVE  ~MayBeProcessed(a)'
    <2>1. CASE StartSend(b)
      BY <2>1, <1>0, <1>t DEF StartSend, MayBeProcessed
    <2>2. CASE ~StartSend(b)
      <3>1. request' = request
        BY <1>2, <2>2
        DEF AttemptStep, DecideFailClosed, DecideWithoutCheckpoint, DecideFromCheckpoint, Decides,
            DispatchClaims, DispatchCheckpointFails, CancelClaim, SkipSend, FinishSend,
            InterruptSend, ReturnFromDispatch, repeatClaim, RecordNotSent, RecordCanResend,
            record_can_resend, RecordProviderID, record_provider_id
      <3> QED BY <3>1 DEF MayBeProcessed
    <2> QED BY <2>1, <2>2
  <1>3. ASSUME NEW b \in Attempts, ProviderStep(b)
        PROVE  ~MayBeProcessed(a)'
    BY <1>3, <1>t DEF ProviderStep, ProviderProcesses, ProviderRefuses, MayBeProcessed
  <1> QED BY <1>1, <1>2, <1>3 DEF Next

\* Once a Step failed definitely, no attempt of it ever writes.
LEMMA FailuresStaySettled ==
    ASSUME \A p \in Profiles : KeepsObligations(p), ReportsHonestly(profile), ~IsMisjudged,
           FenceInv, StepInv, FailuresAreSettled, [WriteNext]_<<vars, stepVars>>
    PROVE  FailuresAreSettled'
  <1> SUFFICES ASSUME result' \in {"rejected", "defect"} PROVE FailuresAreSettled'
    BY DEF FailuresAreSettled
  <1>n. [Next]_vars
    BY StepIsFenceStep
  <1>t. /\ attempt \in Attempts
        /\ pc \in [Attempts -> {"start", "prepare", "dispatch", "cancelled", "classify",
                                "readBack", "returned"}]
    BY DEF FenceInv, TypeOK, StepInv, WriteTypeOK
  <1>e. \A b \in 1..(attempt - 1) : b \in Attempts
    BY <1>t, MaxAttemptAssumption DEF Attempts
  <1>1. CASE result' # result
    <2>1. /\ decision[attempt] = "SendAllowed" /\ ~MayBeProcessed(attempt)
          /\ pc'[attempt] = "returned" /\ UNCHANGED <<attempt, request>>
      BY <1>1, NewFailure
    <2>2. \A b \in 1..(attempt - 1) : Settled(b)
      BY <1>t, <2>1 DEF FenceInv, SendersFollowSettled
    <2>3. \A b \in 1..(attempt - 1) : Settled(b)'
      BY <1>n, <1>e, <2>2, SettledIsStable
    <2> QED BY <2>1, <2>3 DEF FailuresAreSettled, At, MayBeProcessed
  <1>2. CASE result' = result
    <2>1. /\ At(attempt, "returned") /\ ~MayBeProcessed(attempt)
          /\ \A b \in 1..(attempt - 1) : Settled(b)
      BY <1>2 DEF FailuresAreSettled
    <2>2. attempt' = attempt
      <3>1. ~NextAttempt
        BY <1>2 DEF NextAttempt
      <3> QED BY <1>n, <3>1 DEF WriteNext, NextAttempt, Next, vars, StartAttempt, AttemptStep, ProviderStep,
                  ProviderProcesses, ProviderRefuses, Preparation, ResolverFails, Decide, FailClosed,
                  PreparationFails, PreparationDefect, BeginDispatch, ClaimFails, ClaimIsCancelled,
                  Dispatch, Send, SendIsSkipped, Receive, SendIsInterrupted, EndDispatch, RepeatClaim,
                  Classification, ReportAccepted, ReturnAccepted, ReturnCanResend, ReturnRejected, ReturnUncertain,
                  ReturnRetry, Confirm, SaveID, LookUp, ReadBackFinds, IsLooking, ReadBackFails, Provider,
                  DecideFailClosed, DecideWithoutCheckpoint, DecideFromCheckpoint, Decides,
                  DispatchClaims, DispatchCheckpointFails, CancelClaim, SkipSend, StartSend, FinishSend,
                  InterruptSend, ReturnFromDispatch, repeatClaim, RecordNotSent,
                  record_can_resend, record_provider_id
    <2>3. \A b \in 1..(attempt - 1) : Settled(b)'
      BY <1>n, <1>e, <2>1, SettledIsStable
    <2>4. pc'[attempt] = "returned"
      BY <1>t, <2>1, ReturnedStays
    <2>5. ~MayBeProcessed(attempt)'
      BY <1>n, <1>t, <2>1, <2>2, UnsentStays
    <2> QED BY <2>2, <2>3, <2>4, <2>5 DEF FailuresAreSettled, At, MayBeProcessed
  <1> QED BY <1>1, <1>2

\* A Step performs one operation for good.
LEMMA ProfileIsFixed == [WriteNext]_<<vars, stepVars>> => profile' = profile
  BY DEF WriteNext, NextAttempt, Preparation, Dispatch, Classification, Provider, stepVars,
         ResolverFails, Decide, FailClosed, PreparationFails, PreparationDefect, BeginDispatch,
         ClaimFails, ClaimIsCancelled, Send, SendIsSkipped, Receive, SendIsInterrupted, EndDispatch,
         RepeatClaim, ReportAccepted, ReturnAccepted, ReturnCanResend, ReturnRejected, ReturnUncertain, ReturnRetry,
         Confirm, SaveID, LookUp, ReadBackFinds, IsLooking, ReadBackFails, Returns, Continues

\* An answer stays with its attempt, so what was misjudged once stays so.
LEMMA MisjudgementStays ==
    ASSUME StepInv, [WriteNext]_<<vars, stepVars>>, IsMisjudged
    PROVE  IsMisjudged'
  <1>1. PICK a \in Attempts : response[a] \in profile.rejects \ profile.refusals
    BY DEF IsMisjudged
  <1>2. response[a] # "none" /\ response \in [Attempts -> Responses \union {"none"}]
    BY <1>1, ProfileFields DEF StepInv, WriteTypeOK, Profile, Responses
  <1>3. response'[a] = response[a]
    <2>1. ASSUME NEW b \in Attempts, SendIsSkipped(b) \/ Receive(b) PROVE response'[a] = response[a]
      <3>1. sendPhase[b] \in {"claimed", "running"} /\ \E r : response' = [response EXCEPT ![b] = r]
        BY <2>1 DEF SendIsSkipped, SkipSend, Receive, FinishSend
      <3>2. response[b] = "none"
        BY <3>1 DEF StepInv, ResponsesAreBacked, HasSendFinished
      <3> QED BY <1>2, <3>1, <3>2
    <2>2. ASSUME NEW b \in Attempts, Dispatch(b), ~(SendIsSkipped(b) \/ Receive(b)) PROVE response' = response
      BY <2>2 DEF Dispatch, Send, SendIsInterrupted, EndDispatch, RepeatClaim, stepVars
    <2>3. ASSUME NEW b \in Attempts, Preparation(b) PROVE response' = response
      BY <2>3 DEF Preparation, ResolverFails, Decide, FailClosed, PreparationFails, PreparationDefect,
                  BeginDispatch, ClaimFails, ClaimIsCancelled, Returns
    <2>4. ASSUME NEW b \in Attempts, Classification(b) PROVE response' = response
      BY <2>4 DEF Classification, ReportAccepted, ReturnAccepted, ReturnCanResend, ReturnRejected,
                  ReturnUncertain, ReturnRetry, Confirm, SaveID, LookUp, ReadBackFinds, ReadBackFails,
                  Returns
    <2> QED BY <2>1, <2>2, <2>3, <2>4 DEF WriteNext, NextAttempt, Provider, stepVars
  <1> QED BY <1>1, <1>3, ProfileIsFixed DEF IsMisjudged

HonestInv ==
    /\ AcceptanceIsTrue
    /\ ReportsHonestly(profile) /\ ~IsMisjudged => FailuresAreSettled

\* A Step tells the truth: one that ends accepted has its write at the provider, and one
\* that ends rejected or defect has none and never will, provided its operation reports
\* honestly and misjudged no answer.
THEOREM OutcomesAreTrue ==
    ASSUME \A p \in Profiles : KeepsObligations(p)
    PROVE  WriteSpec => []HonestOutcome
  <1>1. WriteInit => HonestInv
    BY DEF WriteInit, HonestInv, FailuresAreSettled, AcceptanceIsTrue
  <1>2. CheckpointInv /\ FenceInv /\ StepInv /\ HonestInv /\ [WriteNext]_<<vars, stepVars>> => HonestInv'
    <2> SUFFICES ASSUME CheckpointInv, FenceInv, StepInv, HonestInv, [WriteNext]_<<vars, stepVars>>
                 PROVE  HonestInv'
      OBVIOUS
    <2>1. ASSUME ReportsHonestly(profile'), ~IsMisjudged' PROVE FailuresAreSettled'
      <3>1. ReportsHonestly(profile) /\ ~IsMisjudged
        BY <2>1, ProfileIsFixed, MisjudgementStays
      <3> QED BY <3>1, FailuresStaySettled DEF HonestInv
    <2>2. ASSUME result' = "accepted" PROVE \E b \in Attempts : request'[b] = "processed"
      <3>1. \E b \in Attempts : request[b] = "processed"
        BY <2>2, NewAcceptedResult DEF HonestInv, AcceptanceIsTrue
      <3>2. [Next]_vars
        BY StepIsFenceStep
      <3> QED BY <3>1, <3>2, ProcessedIsStable
    <2> QED BY <2>1, <2>2 DEF HonestInv, AcceptanceIsTrue
  <1>3. FenceInv /\ StepInv /\ HonestInv => HonestOutcome
    <2> SUFFICES ASSUME FenceInv, StepInv, FailuresAreSettled, result \in {"rejected", "defect"},
                        NEW b \in Attempts
                 PROVE  ~MayBeProcessed(b)
      BY DEF HonestInv, HonestOutcome, FailureIsTrue
    <2>t. attempt \in Attempts
      BY DEF FenceInv, TypeOK
    <2>1. CASE b = attempt
      BY <2>1 DEF FailuresAreSettled
    <2>2. CASE b < attempt
      <3>1. Settled(b)
        BY <2>t, <2>2 DEF FailuresAreSettled, Attempts
      <3> QED BY <3>1, SettledNotProcessed
    <2>3. CASE b > attempt
      <3>1. decision[b] # "SendAllowed"
        BY <2>3 DEF StepInv, PositionsAgree
      <3> QED BY <3>1, ProcessedWasAllowed
    <2> QED BY <2>t, <2>1, <2>2, <2>3 DEF Attempts
  <1>4. WriteSpec => [](FenceInv /\ StepInv)
    BY StepInvariant
  <1>5. WriteSpec => []CheckpointInv
    <2>1. WriteSpec => FenceSpec
      BY FenceRulesKept
    <2> QED BY <2>1, CheckpointInvariant, PTL DEF FenceSpec
  <1> QED BY <1>1, <1>2, <1>3, <1>4, <1>5, PTL DEF WriteSpec
-----------------------------------------------------------------------------
\* The tables of the connectors: none of them repeats a request without a documented
\* refusal, and none reports a definite failure it cannot know.
THEOREM ConnectorTables == \A p \in DecideFirstWrites : KeepsObligations(p) /\ ReportsHonestly(p)
  <1> USE DEF KeepsObligations, ReportsHonestly, ContractRefusals
  <1>1. KeepsObligations(twilio_sendMessage) /\ ReportsHonestly(twilio_sendMessage)
    BY DEF twilio_sendMessage, RefreshedWrite, ContractWrite
  <1>2. KeepsObligations(bamboohr_addEmployee) /\ ReportsHonestly(bamboohr_addEmployee)
    BY DEF bamboohr_addEmployee, RefreshedWrite, ContractWrite
  <1>3. KeepsObligations(zoom_createMeeting) /\ ReportsHonestly(zoom_createMeeting)
    BY DEF zoom_createMeeting, RefreshedWrite, ContractWrite
  <1>4. KeepsObligations(calendly_createSchedulingLink) /\ ReportsHonestly(calendly_createSchedulingLink)
    BY DEF calendly_createSchedulingLink, RejectsTimeouts, RefreshedWrite, ContractWrite
  <1>5. KeepsObligations(hiver_fencedAttempt) /\ ReportsHonestly(hiver_fencedAttempt)
    BY DEF hiver_fencedAttempt, RefreshedWrite, ContractWrite
  <1>6. KeepsObligations(pipedrive_createObject) /\ ReportsHonestly(pipedrive_createObject)
    BY DEF pipedrive_createObject, RefreshedWrite, ContractWrite
  <1>7. KeepsObligations(front_replyToConversation) /\ ReportsHonestly(front_replyToConversation)
    BY DEF front_replyToConversation, RefreshedWrite, ContractWrite
  <1>8. KeepsObligations(teams_send) /\ ReportsHonestly(teams_send)
    BY DEF teams_send, RefreshedWrite, ContractWrite
  <1>9. KeepsObligations(docs_createDocument) /\ ReportsHonestly(docs_createDocument)
    BY DEF docs_createDocument, RefreshedWrite, ContractWrite
  <1>10. KeepsObligations(drive_uploadFile) /\ ReportsHonestly(drive_uploadFile)
    BY DEF drive_uploadFile, RejectsTimeouts, RefreshedWrite, ContractWrite
  <1>11. KeepsObligations(jira_write) /\ ReportsHonestly(jira_write)
    BY DEF jira_write, RefreshedWrite, ContractWrite
  <1>12. KeepsObligations(reamaze_createConversation) /\ ReportsHonestly(reamaze_createConversation)
    BY DEF reamaze_createConversation, RefreshedWrite, ContractWrite
  <1>13. KeepsObligations(reamaze_replyToConversation) /\ ReportsHonestly(reamaze_replyToConversation)
    BY DEF reamaze_replyToConversation, RefreshedWrite, reamaze_createConversation, ContractWrite
  <1>14. KeepsObligations(slack_postMessage) /\ ReportsHonestly(slack_postMessage)
    BY DEF slack_postMessage, RejectsTimeouts, RefreshedWrite, ContractWrite
  <1>15. KeepsObligations(helpscout_replyToConversation) /\ ReportsHonestly(helpscout_replyToConversation)
    BY DEF helpscout_replyToConversation, RefreshedWrite, ContractWrite
  <1>16. KeepsObligations(notion_createPage) /\ ReportsHonestly(notion_createPage)
    BY DEF notion_createPage, RefreshedWrite, ContractWrite
  <1> QED BY <1>1, <1>2, <1>3, <1>4, <1>5, <1>6, <1>7, <1>8, <1>9, <1>10, <1>11, <1>12, <1>13,
             <1>14, <1>15, <1>16
          DEF DecideFirstWrites, AcceptanceKeepers

\* The operations that take a 408 for a refusal.
TimeoutRejecters == {slack_postMessage, drive_uploadFile, calendly_createSchedulingLink}

\* The other operations reject only what their provider documents as not processed.
LEMMA RejectsAreRefusals == \A p \in DecideFirstWrites \ TimeoutRejecters : p.rejects \subseteq p.refusals
  <1> USE DEF ContractRefusals, RefreshedWrite, ContractWrite
  <1>1. twilio_sendMessage.rejects \subseteq twilio_sendMessage.refusals
    BY DEF twilio_sendMessage
  <1>2. bamboohr_addEmployee.rejects \subseteq bamboohr_addEmployee.refusals
    BY DEF bamboohr_addEmployee
  <1>3. zoom_createMeeting.rejects \subseteq zoom_createMeeting.refusals
    BY DEF zoom_createMeeting
  <1>4. hiver_fencedAttempt.rejects \subseteq hiver_fencedAttempt.refusals
    BY DEF hiver_fencedAttempt
  <1>5. pipedrive_createObject.rejects \subseteq pipedrive_createObject.refusals
    BY DEF pipedrive_createObject
  <1>6. front_replyToConversation.rejects \subseteq front_replyToConversation.refusals
    BY DEF front_replyToConversation
  <1>7. teams_send.rejects \subseteq teams_send.refusals
    BY DEF teams_send
  <1>8. docs_createDocument.rejects \subseteq docs_createDocument.refusals
    BY DEF docs_createDocument
  <1>9. jira_write.rejects \subseteq jira_write.refusals
    BY DEF jira_write
  <1>10. reamaze_createConversation.rejects \subseteq reamaze_createConversation.refusals
    BY DEF reamaze_createConversation
  <1>11. reamaze_replyToConversation.rejects \subseteq reamaze_replyToConversation.refusals
    BY DEF reamaze_replyToConversation, reamaze_createConversation
  <1>12. helpscout_replyToConversation.rejects \subseteq helpscout_replyToConversation.refusals
    BY DEF helpscout_replyToConversation
  <1>13. notion_createPage.rejects \subseteq notion_createPage.refusals
    BY DEF notion_createPage
  <1> QED BY <1>1, <1>2, <1>3, <1>4, <1>5, <1>6, <1>7, <1>8, <1>9, <1>10, <1>11, <1>12, <1>13
          DEF DecideFirstWrites, AcceptanceKeepers, TimeoutRejecters

\* The connectors that ask the fence first and reject only documented refusals, with
\* their real tables: whatever is lost and however attempts overlap, their Steps end
\* with a true outcome.
THEOREM ConnectorOutcomesAreTrue ==
    ASSUME Profiles \subseteq DecideFirstWrites \ TimeoutRejecters
    PROVE  WriteSpec => []OutcomeIsTrue
  <1>1. StepInv /\ HonestOutcome => OutcomeIsTrue
    <2> SUFFICES ASSUME StepInv, HonestOutcome
                 PROVE  OutcomeIsTrue
      OBVIOUS
    <2>1. profile \in DecideFirstWrites \ TimeoutRejecters
      BY DEF StepInv, WriteTypeOK
    <2>2. ReportsHonestly(profile) /\ ~IsMisjudged
      BY <2>1, ConnectorTables, RejectsAreRefusals DEF IsMisjudged
    <2> QED BY <2>2 DEF HonestOutcome, OutcomeIsTrue
  <1>2. \A p \in Profiles : KeepsObligations(p)
    BY ConnectorTables
  <1> QED BY <1>1, <1>2, OutcomesAreTrue, StepInvariant, PTL
-----------------------------------------------------------------------------
\* An operation whose only answer to a complete acceptance is to report it, although the
\* checkpoint of the provider ID fails.
KeepsAcceptance(p) ==
    /\ "ok" \notin UNION {p.resends, p.rejects, p.unknowns, p.retries, p.confirms, p.saves, p.lookups}
    /\ "ok" \notin p.looksFirst
    /\ p.recordsID => p.keepsAcceptance

\* A complete acceptance is on its way to the return, or was returned.
AcceptanceIsOnItsWay ==
    \A a \in Attempts :
        response[a] = "ok" =>
            \/ pc[a] \in {"dispatch", "classify"}
            \/ pc[a] = "returned" /\ outcome[a] = "accepted"

\* A step of one attempt leaves the acceptances of the others alone.
LEMMA OneAcceptanceMoves ==
    ASSUME AcceptanceIsOnItsWay, NEW a \in Attempts,
           \A b \in Attempts \ {a} : pc'[b] = pc[b] /\ outcome'[b] = outcome[b] /\ response'[b] = response[b],
           response'[a] = "ok" =>
               pc'[a] \in {"dispatch", "classify"} \/ (pc'[a] = "returned" /\ outcome'[a] = "accepted")
    PROVE  AcceptanceIsOnItsWay'
  BY DEF AcceptanceIsOnItsWay

\* What a return or a step without one does to the attempts.
LEMMA ReturnMoves ==
    ASSUME WriteTypeOK, NEW a \in Attempts, NEW o \in Outcomes, NEW t \in BOOLEAN, Returns(a, o, t)
    PROVE  /\ \A b \in Attempts \ {a} : pc'[b] = pc[b] /\ outcome'[b] = outcome[b]
           /\ pc'[a] = "returned" /\ outcome'[a] = o
           /\ UNCHANGED <<profile, response>>
  BY DEF WriteTypeOK, Returns, Goto

\* An attempt that moves on changes its own position and settles nothing.
LEMMA ContinueMoves ==
    ASSUME WriteTypeOK, NEW a \in Attempts, NEW l, NEW t \in BOOLEAN, Continues(a, l, t)
    PROVE  /\ \A b \in Attempts \ {a} : pc'[b] = pc[b]
           /\ pc'[a] = l
           /\ UNCHANGED <<profile, outcome, result>>
  BY DEF WriteTypeOK, Continues, Goto

\* Every step keeps an accepted write on its way to an accepted branch.
LEMMA AcceptanceStep ==
    ASSUME StepInv, KeepsAcceptance(profile), AcceptanceIsOnItsWay, [WriteNext]_<<vars, stepVars>>
    PROVE  AcceptanceIsOnItsWay'
  <1>t. WriteTypeOK /\ profile \in Profile
    BY ProfileFields DEF StepInv, WriteTypeOK
  <1>o. {"accepted", "rejected", "defect", "uncertain", "retry"} \subseteq Outcomes
    BY DEF Outcomes
  <1>1. CASE UNCHANGED stepVars
    BY <1>1 DEF stepVars, AcceptanceIsOnItsWay
  <1>2. CASE NextAttempt
    BY <1>2 DEF NextAttempt, AcceptanceIsOnItsWay
  <1>r. ASSUME NEW a \in Attempts, NEW o \in Outcomes, NEW t \in BOOLEAN, Returns(a, o, t),
               response[a] = "ok" => o = "accepted"
        PROVE  AcceptanceIsOnItsWay'
    <2>1. /\ \A b \in Attempts \ {a} : pc'[b] = pc[b] /\ outcome'[b] = outcome[b]
          /\ pc'[a] = "returned" /\ outcome'[a] = o
          /\ response' = response
      BY <1>r, <1>t, ReturnMoves
    <2> QED BY <1>r, <2>1, OneAcceptanceMoves
  <1>c. ASSUME NEW a \in Attempts, NEW l, NEW t \in BOOLEAN, Continues(a, l, t),
               \A b \in Attempts \ {a} : response'[b] = response[b],
               response'[a] = "ok" => l \in {"dispatch", "classify"}
        PROVE  AcceptanceIsOnItsWay'
    <2>1. /\ \A b \in Attempts \ {a} : pc'[b] = pc[b]
          /\ pc'[a] = l
          /\ outcome' = outcome
      BY <1>c, <1>t, ContinueMoves
    <2> QED BY <1>c, <2>1, OneAcceptanceMoves
  <1>3. ASSUME NEW a \in Attempts, Preparation(a)
        PROVE  AcceptanceIsOnItsWay'
    <2>0. response[a] # "ok"
      BY <1>3 DEF Preparation, ResolverFails, Decide, FailClosed, PreparationFails, PreparationDefect,
                  BeginDispatch, ClaimFails, ClaimIsCancelled, At, AcceptanceIsOnItsWay
    <2>1. CASE ResolverFails(a) \/ PreparationFails(a) \/ PreparationDefect(a) \/ ClaimFails(a)
      BY <2>0, <2>1, <1>o, <1>r DEF ResolverFails, PreparationFails, PreparationDefect, ClaimFails
    <2>2. CASE Decide(a) \/ BeginDispatch(a) \/ ClaimIsCancelled(a)
      BY <2>0, <2>2, <1>c DEF Decide, BeginDispatch, ClaimIsCancelled
    <2>3. CASE FailClosed(a)
      <3>1. profile.failClosed \in {"uncertain", "defect", "readBack"}
        BY <1>t DEF Profile
      <3>2. CASE profile.failClosed = "readBack"
        <4>1. Continues(a, "readBack", TRUE) /\ response' = response
          BY <2>3, <3>2 DEF FailClosed
        <4> QED BY <2>0, <4>1, <1>c
      <3>3. CASE profile.failClosed # "readBack"
        BY <2>0, <2>3, <3>1, <3>3, <1>o, <1>r DEF FailClosed
      <3> QED BY <3>2, <3>3
    <2> QED BY <1>3, <2>1, <2>2, <2>3 DEF Preparation
  <1>4. ASSUME NEW a \in Attempts, Dispatch(a)
        PROVE  AcceptanceIsOnItsWay'
    <2>1. CASE Send(a) \/ RepeatClaim(a)
      BY <2>1, <1>1 DEF Send, RepeatClaim
    <2>2. CASE SendIsSkipped(a)
      BY <2>2, <1>t, <1>c DEF SendIsSkipped, WriteTypeOK
    <2>3. CASE Receive(a)
      <3> PICK r \in Responses : /\ response' = [response EXCEPT ![a] = r]
                                 /\ Continues(a, "dispatch", r # "ok" /\ EvidenceOf(r) # "refused")
        BY <2>3 DEF Receive
      <3> QED BY <1>t, <1>c DEF WriteTypeOK
    <2>4. CASE SendIsInterrupted(a)
      <3>1. response[a] # "ok"
        BY <2>4 DEF SendIsInterrupted, InterruptSend, StepInv, ResponsesAreBacked, HasSendFinished
      <3> QED BY <2>4, <3>1, <1>c DEF SendIsInterrupted
    <2>5. CASE EndDispatch(a)
      BY <2>5, <1>c DEF EndDispatch
    <2> QED BY <1>4, <2>1, <2>2, <2>3, <2>4, <2>5 DEF Dispatch
  <1>5. ASSUME NEW a \in Attempts, Classification(a)
        PROVE  AcceptanceIsOnItsWay'
    <2>1. CASE ReportAccepted(a)
      <3>1. CASE profile.recordsID /\ response[a] = "ok"
        BY <2>1, <3>1, <1>o, <1>r DEF ReportAccepted, ReturnAccepted, KeepsAcceptance
      <3>2. CASE ~(profile.recordsID /\ response[a] = "ok")
        BY <2>1, <3>2, <1>o, <1>r DEF ReportAccepted, ReturnAccepted
      <3> QED BY <3>1, <3>2
    <2>2. CASE ReturnCanResend(a)
      <3>1. PICK o \in Outcomes, t \in BOOLEAN : Returns(a, o, t)
        BY <2>2, <1>t, <1>o DEF ReturnCanResend, Profile
      <3>2. response[a] # "ok"
        BY <2>2 DEF ReturnCanResend, KeepsAcceptance
      <3> QED BY <3>1, <3>2, <1>r
    <2>3. CASE ReturnRejected(a) \/ ReturnUncertain(a) \/ ReturnRetry(a)
      <3>1. response[a] # "ok"
        BY <2>3 DEF ReturnRejected, ReturnUncertain, ReturnRetry, KeepsAcceptance
      <3> QED BY <2>3, <3>1, <1>o, <1>r DEF ReturnRejected, ReturnUncertain, ReturnRetry
    <2>4. CASE Confirm(a) \/ SaveID(a) \/ LookUp(a)
      <3>1. response[a] # "ok"
        BY <2>4 DEF Confirm, SaveID, LookUp, KeepsAcceptance
      <3> QED BY <2>4, <3>1, <1>o, <1>r, <1>c DEF Confirm, SaveID, LookUp
    <2>5. CASE ReadBackFinds(a)
      <3>1. PICK o \in Outcomes, t \in BOOLEAN : Returns(a, o, t)
        BY <2>5, <1>o DEF ReadBackFinds, ReturnAccepted
      <3>2. response[a] # "ok"
        BY <2>5 DEF ReadBackFinds, IsLooking, At, AcceptanceIsOnItsWay, KeepsAcceptance
      <3> QED BY <3>1, <3>2, <1>r
    <2>6. CASE ReadBackFails(a)
      <3>1. response[a] # "ok"
        BY <2>6 DEF ReadBackFails, At, AcceptanceIsOnItsWay
      <3>2. PICK o \in Outcomes : Returns(a, o, FALSE)
        BY <2>6, <1>t DEF ReadBackFails, Profile, Outcomes
      <3> QED BY <3>1, <3>2, <1>r
    <2> QED BY <1>5, <2>1, <2>2, <2>3, <2>4, <2>5, <2>6 DEF Classification
  <1>6. ASSUME NEW a \in Attempts, Provider(a)
        PROVE  AcceptanceIsOnItsWay'
    BY <1>6, <1>1 DEF Provider
  <1> QED BY <1>1, <1>2, <1>3, <1>4, <1>5, <1>6 DEF WriteNext

\* The operations that guard the checkpoint keep an acceptance.
LEMMA KeepersKeepAcceptance == \A p \in AcceptanceKeepers : KeepsAcceptance(p)
  <1> USE DEF KeepsAcceptance
  <1>1. KeepsAcceptance(twilio_sendMessage)
    BY DEF twilio_sendMessage, RefreshedWrite, ContractWrite
  <1>2. KeepsAcceptance(bamboohr_addEmployee)
    BY DEF bamboohr_addEmployee, RefreshedWrite, ContractWrite
  <1>3. KeepsAcceptance(zoom_createMeeting)
    BY DEF zoom_createMeeting, RefreshedWrite, ContractWrite
  <1>4. KeepsAcceptance(calendly_createSchedulingLink)
    BY DEF calendly_createSchedulingLink, RejectsTimeouts, RefreshedWrite, ContractWrite
  <1>5. KeepsAcceptance(hiver_fencedAttempt)
    BY DEF hiver_fencedAttempt, RefreshedWrite, ContractWrite
  <1>6. KeepsAcceptance(pipedrive_createObject)
    BY DEF pipedrive_createObject, RefreshedWrite, ContractWrite
  <1>7. KeepsAcceptance(front_replyToConversation)
    BY DEF front_replyToConversation, RefreshedWrite, ContractWrite
  <1>8. KeepsAcceptance(teams_send)
    BY DEF teams_send, RefreshedWrite, ContractWrite
  <1>9. KeepsAcceptance(docs_createDocument)
    BY DEF docs_createDocument, RefreshedWrite, ContractWrite
  <1>10. KeepsAcceptance(drive_uploadFile)
    BY DEF drive_uploadFile, RejectsTimeouts, RefreshedWrite, ContractWrite
  <1>11. KeepsAcceptance(jira_write)
    BY DEF jira_write, RefreshedWrite, ContractWrite
  <1>12. KeepsAcceptance(reamaze_createConversation)
    BY DEF reamaze_createConversation, RefreshedWrite, ContractWrite
  <1>13. KeepsAcceptance(reamaze_replyToConversation)
    BY DEF reamaze_replyToConversation, reamaze_createConversation, RefreshedWrite, ContractWrite
  <1> QED BY <1>1, <1>2, <1>3, <1>4, <1>5, <1>6, <1>7, <1>8, <1>9, <1>10, <1>11, <1>12, <1>13
          DEF AcceptanceKeepers

\* The operations that guard record_provider_id return the acceptance in every attempt,
\* whether or not the heartbeat of the provider ID can be written.
THEOREM AcceptancesAreReported ==
    ASSUME \A p \in Profiles : KeepsObligations(p)
    PROVE  WriteSpec => []GuardedAcceptance
  <1> DEFINE Kept == KeepsAcceptance(profile) => AcceptanceIsOnItsWay
  <1>1. WriteInit => Kept
    BY DEF WriteInit, AcceptanceIsOnItsWay
  <1>2. StepInv /\ Kept /\ [WriteNext]_<<vars, stepVars>> => Kept'
    <2> SUFFICES ASSUME StepInv, Kept, [WriteNext]_<<vars, stepVars>>, KeepsAcceptance(profile)'
                 PROVE  AcceptanceIsOnItsWay'
      OBVIOUS
    <2>1. KeepsAcceptance(profile)
      BY ProfileIsFixed DEF KeepsAcceptance
    <2> QED BY <2>1, AcceptanceStep
  <1>3. Kept => GuardedAcceptance
    BY KeepersKeepAcceptance DEF GuardedAcceptance, AcceptanceIsReported, AcceptanceIsOnItsWay, At
  <1>4. WriteSpec => []StepInv
    BY StepInvariant, PTL
  <1> HIDE DEF Kept
  <1> QED BY <1>1, <1>2, <1>3, <1>4, PTL DEF WriteSpec
-----------------------------------------------------------------------------
\* An operation doubts only what went wrong: a complete acceptance, or an answer documented
\* as a refusal, is never uncertain, repeated without a checkpoint or read back.
DoubtsOnTrouble(p) ==
    ({"ok"} \union p.refusals) \cap UNION {p.unknowns, p.retries, p.confirms, p.saves, p.lookups} = {}

\* The attempt's fence holds a checkpoint that permits the next attempt to send.
HoldsPermit(a) == marker[a] \in {NotSent(a), CanResend(a)}

\* Where an attempt is when nothing has gone wrong yet.
Untroubled(a) ==
    /\ a < attempt => At(a, "returned") /\ outcome[a] = "retry"
    /\ At(a, "returned") /\ outcome[a] = "retry" => HoldsPermit(a)
    /\ pc[a] \notin {"readBack", "cancelled"}
    /\ response[a] \in {"none", "ok"} \union profile.refusals
    /\ At(a, "start") => decision[a] = "none"
    /\ At(a, "returned") \/ outcome[a] = "none"

\* While nothing has gone wrong attempts do not overlap, each one returned Retry with a
\* permit for the next, and the first finds no checkpoint.
Undisturbed ==
    /\ result # "uncertain"
    /\ \A a \in Attempts : Untroubled(a)
    /\ At(1, "start") => frames = {}

CauseInv == ~isDisturbed => Undisturbed

\* The first state is undisturbed.
LEMMA CauseInit == WriteInit => CauseInv
  BY DEF WriteInit, Init, CauseInv, Undisturbed, Untroubled, At, Attempts

\* A disturbance is never forgotten.
LEMMA ReturnsNotes ==
    ASSUME NEW a, NEW o, NEW t \in BOOLEAN, isDisturbed \in BOOLEAN, Returns(a, o, t), ~isDisturbed'
    PROVE  /\ ~isDisturbed /\ ~t
           /\ result' # result => result' = o
  BY DEF Returns, Notes

\* A continuation that met trouble notes it.
LEMMA ContinuesNotes ==
    ASSUME NEW a, NEW l, NEW t \in BOOLEAN, isDisturbed \in BOOLEAN, Continues(a, l, t), ~isDisturbed'
    PROVE  ~isDisturbed /\ ~t
  BY DEF Continues, Notes

\* A step of the latest attempt that ends in an untroubled place.
LEMMA OneAttemptUntroubled ==
    ASSUME Undisturbed, NEW a \in Attempts, a = attempt, attempt' = attempt, profile' = profile,
           \A b \in Attempts \ {a} : /\ pc'[b] = pc[b] /\ outcome'[b] = outcome[b]
                                     /\ marker'[b] = marker[b] /\ response'[b] = response[b]
                                     /\ decision'[b] = decision[b],
           result' # "uncertain",
           pc'[a] = "returned" /\ outcome'[a] = "retry" => HoldsPermit(a)',
           pc'[a] \notin {"start", "readBack", "cancelled"},
           pc'[a] = "returned" \/ outcome'[a] = "none",
           response'[a] \in {"none", "ok"} \union profile.refusals,
           attempt \in Attempts
    PROVE  Undisturbed'
  <1>1. \A b \in Attempts \ {a} : Untroubled(b)'
    BY DEF Undisturbed, Untroubled, At, HoldsPermit
  <1>2. Untroubled(a)'
    BY DEF Untroubled, At, HoldsPermit, Attempts
  <1>3. ~At(1, "start")'
    <2>1. 1 \in Attempts
      BY MaxAttemptAssumption DEF Attempts
    <2>2. CASE a = 1
      BY <2>2 DEF At
    <2>3. CASE a # 1
      <3>1. 1 < attempt
        BY <2>3 DEF Attempts
      <3> QED BY <2>1, <2>3, <3>1 DEF At, Undisturbed, Untroubled
    <2> QED BY <2>2, <2>3
  <1> QED BY <1>1, <1>2, <1>3 DEF Undisturbed

\* The latest attempt returns, with a permit if it asks for a retry.
LEMMA ReturnUntroubled ==
    ASSUME FenceInv, StepInv, Undisturbed, NEW a \in Attempts, a = attempt, attempt' = attempt,
           NEW o \in Outcomes \ {"uncertain"}, NEW t \in BOOLEAN, Returns(a, o, t), ~isDisturbed',
           decision' = decision,
           \A b \in Attempts \ {a} : marker'[b] = marker[b],
           o = "retry" => HoldsPermit(a)'
    PROVE  Undisturbed'
  <1>1. /\ \A b \in Attempts \ {a} : pc'[b] = pc[b] /\ outcome'[b] = outcome[b]
        /\ pc'[a] = "returned" /\ outcome'[a] = o
        /\ UNCHANGED <<profile, response>>
    BY ReturnMoves DEF StepInv
  <1>2. result' # "uncertain"
    BY ReturnsNotes DEF StepInv, WriteTypeOK, Undisturbed
  <1>3. response[a] \in {"none", "ok"} \union profile.refusals
    BY DEF Undisturbed, Untroubled
  <1> QED BY <1>1, <1>2, <1>3, OneAttemptUntroubled DEF FenceInv, TypeOK

\* The latest attempt goes on.
LEMMA ContinueUntroubled ==
    ASSUME FenceInv, StepInv, Undisturbed, NEW a \in Attempts, a = attempt, attempt' = attempt,
           ~At(a, "returned"),
           NEW l \in {"prepare", "dispatch", "classify"}, NEW t \in BOOLEAN, Continues(a, l, t),
           \A b \in Attempts \ {a} : /\ marker'[b] = marker[b] /\ response'[b] = response[b]
                                     /\ decision'[b] = decision[b],
           response'[a] \in {"none", "ok"} \union profile.refusals
    PROVE  Undisturbed'
  <1>1. /\ \A b \in Attempts \ {a} : pc'[b] = pc[b]
        /\ pc'[a] = l
        /\ UNCHANGED <<profile, outcome, result>>
    BY ContinueMoves DEF StepInv
  <1>2. result' # "uncertain" /\ outcome'[a] = "none"
    BY <1>1 DEF Undisturbed, Untroubled
  <1> QED BY <1>1, <1>2, OneAttemptUntroubled DEF FenceInv, TypeOK

\* No step of the Step forgets a disturbance.
LEMMA DisturbanceStays ==
    ASSUME isDisturbed, [WriteNext]_<<vars, stepVars>>
    PROVE  isDisturbed'
  BY DEF WriteNext, NextAttempt, Preparation, Dispatch, Classification, Provider, stepVars,
         ResolverFails, Decide, FailClosed, PreparationFails, PreparationDefect, BeginDispatch,
         ClaimFails, ClaimIsCancelled, Send, SendIsSkipped, Receive, SendIsInterrupted, EndDispatch,
         RepeatClaim, ReportAccepted, ReturnAccepted, ReturnCanResend, ReturnRejected, ReturnUncertain, ReturnRetry,
         Confirm, SaveID, LookUp, ReadBackFinds, IsLooking, ReadBackFails, Returns, Continues, Notes

\* decide lets the attempt send when it reads the permit of the attempt before it.
LEMMA UntroubledDecision ==
    ASSUME FenceInv, StepInv, Undisturbed, NEW a \in Attempts, Decide(a), ~isDisturbed'
    PROVE  Undisturbed'
  <1>t. a <= attempt /\ attempt' = attempt /\ attempt \in Attempts /\ At(a, "start")
    BY DEF Decide, DecideWithoutCheckpoint, DecideFromCheckpoint, Decides, FenceInv, TypeOK
  <1>0. a = attempt
    <2>1. ~(a < attempt)
      BY <1>t DEF Undisturbed, Untroubled, At
    <2> QED BY <1>t, <2>1 DEF Attempts
  <1>1. PICK kind, previous :
          /\ \/ kind = NoCheckpointDecision(a) /\ previous = ZeroMarker
             \/ kind = CheckpointDecision(a, previous) /\ previous \in frames
          /\ Decides(a, kind, previous)
    BY DEF Decide, DecideWithoutCheckpoint, DecideFromCheckpoint
  <1>2. /\ decision'[a] = kind /\ decisionMarker'[a] = previous
        /\ \A b \in Attempts \ {a} : decision'[b] = decision[b]
        /\ marker' = marker
    BY <1>1 DEF Decides, FenceInv, TypeOK
  <1>3. PICK l \in {"prepare", "readBack"}, t \in BOOLEAN :
          /\ Continues(a, l, t)
          /\ l = "readBack" => kind # "SendAllowed"
          /\ t <=> (a > 1 /\ previous # marker[a - 1])
    BY <1>2 DEF Decide
  <1>4. ~t
    BY <1>3, ContinuesNotes DEF StepInv, WriteTypeOK
  <1>5. kind = "SendAllowed"
    <2>1. CASE a = 1
      <3>1. frames = {}
        BY <1>t, <2>1 DEF Undisturbed
      <3> QED BY <1>1, <2>1, <3>1 DEF NoCheckpointDecision
    <2>2. CASE a # 1
      <3>1. a - 1 \in Attempts /\ a - 1 < attempt /\ a > 1 /\ a - 1 # 0
        BY <1>t, <2>2, MaxAttemptAssumption DEF Attempts
      <3>2. HoldsPermit(a - 1) /\ previous = marker[a - 1]
        BY <1>3, <1>4, <3>1 DEF Undisturbed, Untroubled
      <3>3. /\ previous.attempt = a - 1 /\ previous.state \in {"notSent", "canResend"}
            /\ ~previous.providerID
        BY <3>2 DEF HoldsPermit, NotSent, CanResend, MarkerOf
      <3>4. PermitsSend(a, previous)
        BY <3>3 DEF PermitsSend
      <3>5. previous # ZeroMarker
        <4>1. ZeroMarker.attempt = 0
          BY DEF ZeroMarker
        <4> QED BY <3>1, <3>3, <4>1
      <3> QED BY <1>1, <3>4, <3>5 DEF CheckpointDecision
    <2> QED BY <2>1, <2>2
  <1>6. response' = response /\ response[a] \in {"none", "ok"} \union profile.refusals
    BY DEF Decide, Undisturbed, Untroubled
  <1>7. ~At(a, "returned")
    BY <1>t DEF At
  <1> QED BY <1>t, <1>0, <1>2, <1>3, <1>5, <1>6, <1>7, ContinueUntroubled

\* Every step preserves the invariant of undisturbed Steps.
LEMMA CauseStep ==
    ASSUME FenceInv, StepInv, CauseInv, DoubtsOnTrouble(profile), [WriteNext]_<<vars, stepVars>>
    PROVE  CauseInv'
  <1> SUFFICES ASSUME ~isDisturbed' PROVE Undisturbed'
    BY DEF CauseInv
  <1>n. ~isDisturbed /\ Undisturbed
    BY DisturbanceStays DEF CauseInv
  <1>t. /\ attempt \in Attempts /\ isDisturbed \in BOOLEAN /\ profile \in Profile
        /\ marker \in [Attempts -> Marker \union {ZeroMarker}]
        /\ response \in [Attempts -> Responses \union {"none"}]
    BY ProfileFields DEF FenceInv, TypeOK, StepInv, WriteTypeOK
  <1>o. {"accepted", "rejected", "defect", "retry"} \subseteq Outcomes \ {"uncertain"}
    BY DEF Outcomes
  <1>a. \A a \in Attempts : ~At(a, "returned") /\ (~At(a, "start") \/ a <= attempt) => a = attempt
    <2> SUFFICES ASSUME NEW a \in Attempts, ~At(a, "returned"), ~At(a, "start") \/ a <= attempt
                 PROVE  a = attempt
      OBVIOUS
    <2>1. ~(a < attempt)
      BY <1>n DEF Undisturbed, Untroubled
    <2>2. ~(a > attempt)
      BY <1>t DEF StepInv, PositionsAgree, Attempts
    <2> QED BY <1>t, <2>1, <2>2 DEF Attempts
  <1>q. \A a \in Attempts : response[a] \in {"none", "ok"} \union profile.refusals
    BY <1>n DEF Undisturbed, Untroubled
  <1>1. CASE UNCHANGED <<vars, stepVars>>
    BY <1>1, <1>n DEF Undisturbed, Untroubled, At, HoldsPermit, vars, stepVars
  <1>2. CASE NextAttempt
    <2>1. /\ attempt' = attempt + 1 /\ outcome[attempt] = "retry"
          /\ UNCHANGED <<profile, pc, response, outcome, result, marker, decision, frames>>
      BY <1>2 DEF NextAttempt, StartAttempt, Notes
    <2>2. At(attempt, "returned")
      BY <1>n, <1>t, <2>1 DEF Undisturbed, Untroubled
    <2> QED BY <1>n, <1>t, <2>1, <2>2 DEF Undisturbed, Untroubled, At, HoldsPermit, Attempts
  <1>3. ASSUME NEW a \in Attempts, Preparation(a)
        PROVE  Undisturbed'
    <2>1. CASE ResolverFails(a)
      <3>1. /\ a = attempt /\ Returns(a, "defect", FALSE)
            /\ UNCHANGED <<attempt, decision, marker>>
        BY <2>1, <1>a DEF ResolverFails, At, vars
      <3> QED BY <3>1, <1>n, <1>o, ReturnUntroubled
    <2>2. CASE Decide(a)
      BY <2>2, <1>n, UntroubledDecision
    <2>3. CASE FailClosed(a)
      <3>1. \/ Continues(a, "readBack", TRUE)
            \/ Returns(a, profile.failClosed, TRUE)
        BY <2>3 DEF FailClosed
      <3> QED BY <3>1, <1>t, ContinuesNotes, ReturnsNotes
    <2>4. CASE PreparationFails(a)
      <3>1. /\ a = attempt /\ Returns(a, "retry", marker'[a] # NotSent(a))
            /\ UNCHANGED <<attempt, decision>>
        BY <2>4, <1>a DEF PreparationFails, RecordNotSent, At
      <3>2. \A b \in Attempts \ {a} : marker'[b] = marker[b]
        BY <2>4, <1>t DEF PreparationFails, RecordNotSent, record, RecordAcknowledged, RecordFails
      <3>3. marker'[a] = NotSent(a)
        BY <3>1, <1>t, ReturnsNotes
      <3>4. HoldsPermit(a)'
        BY <3>3 DEF HoldsPermit
      <3> QED BY <3>1, <3>2, <3>4, <1>n, <1>o, ReturnUntroubled
    <2>5. CASE PreparationDefect(a)
      <3>1. /\ a = attempt /\ Returns(a, "defect", FALSE)
            /\ UNCHANGED <<attempt, decision>>
        BY <2>5, <1>a DEF PreparationDefect, RecordNotSent, At, vars
      <3>2. \A b \in Attempts \ {a} : marker'[b] = marker[b]
        BY <2>5, <1>t DEF PreparationDefect, RecordNotSent, record, RecordAcknowledged, RecordFails, vars
      <3> QED BY <3>1, <3>2, <1>n, <1>o, ReturnUntroubled
    <2>6. CASE BeginDispatch(a)
      <3>1. /\ a = attempt /\ Continues(a, "dispatch", FALSE) /\ ~At(a, "returned")
            /\ UNCHANGED <<attempt, decision, response>>
        BY <2>6, <1>a DEF BeginDispatch, DispatchClaims, At
      <3>2. \A b \in Attempts \ {a} : marker'[b] = marker[b]
        BY <2>6, <1>t DEF BeginDispatch, DispatchClaims, RecordAcknowledged
      <3> QED BY <3>1, <3>2, <1>n, <1>q, ContinueUntroubled
    <2>7. CASE ClaimFails(a)
      <3>1. /\ a = attempt /\ Returns(a, "retry", marker'[a] # NotSent(a))
            /\ UNCHANGED <<attempt, decision>>
        BY <2>7, <1>a DEF ClaimFails, DispatchCheckpointFails, At
      <3>2. \A b \in Attempts \ {a} : marker'[b] = marker[b]
        BY <2>7, <1>t DEF ClaimFails, DispatchCheckpointFails
      <3>3. marker'[a] = NotSent(a)
        BY <3>1, <1>t, ReturnsNotes
      <3>4. HoldsPermit(a)'
        BY <3>3 DEF HoldsPermit
      <3> QED BY <3>1, <3>2, <3>4, <1>n, <1>o, ReturnUntroubled
    <2>8. CASE ClaimIsCancelled(a)
      BY <2>8, <1>t, ContinuesNotes DEF ClaimIsCancelled
    <2> QED BY <1>3, <2>1, <2>2, <2>3, <2>4, <2>5, <2>6, <2>7, <2>8 DEF Preparation
  <1>4. ASSUME NEW a \in Attempts, Dispatch(a)
        PROVE  Undisturbed'
    <2>1. CASE Send(a)
      BY <2>1, <1>n DEF Send, StartSend, Undisturbed, Untroubled, At, HoldsPermit, stepVars
    <2>2. CASE RepeatClaim(a)
      <3>1. decision[a] = "SendAllowed"
        BY <2>2 DEF RepeatClaim, repeatClaim, FenceInv, LatchesAgree
      <3>2. a <= attempt
        BY <1>t, <3>1 DEF StepInv, PositionsAgree, Attempts
      <3>3. ~At(1, "start")
        <4>1. 1 \in Attempts
          BY MaxAttemptAssumption DEF Attempts
        <4>2. At(1, "start") => attempt = 1 /\ decision[1] = "none"
          BY <1>n, <1>t, <4>1 DEF Undisturbed, Untroubled, At, Attempts
        <4> QED BY <3>1, <3>2, <4>2 DEF Attempts
      <3>4. UNCHANGED <<attempt, decision, marker, profile, pc, response, outcome, result>>
        BY <2>2 DEF RepeatClaim, repeatClaim, stepVars
      <3> QED BY <1>n, <3>3, <3>4 DEF Undisturbed, Untroubled, At, HoldsPermit
    <2>3. CASE SendIsSkipped(a) \/ SendIsInterrupted(a)
      BY <2>3, <1>t, ContinuesNotes DEF SendIsSkipped, SendIsInterrupted
    <2>4. CASE Receive(a)
      <3>1. /\ a = attempt /\ ~At(a, "returned") /\ UNCHANGED <<attempt, decision, marker>>
        BY <2>4, <1>a DEF Receive, FinishSend, StepInv, PositionsAgree, At
      <3>2. PICK r \in Responses : /\ response' = [response EXCEPT ![a] = r]
                                   /\ Continues(a, "dispatch", r # "ok" /\ EvidenceOf(r) # "refused")
        BY <2>4 DEF Receive
      <3>3. r = "ok" \/ r \in profile.refusals
        <4>1. r = "ok" \/ EvidenceOf(r) = "refused"
          BY <3>2, <1>t, ContinuesNotes
        <4> QED BY <4>1 DEF EvidenceOf
      <3>4. response'[a] = r /\ \A b \in Attempts \ {a} : response'[b] = response[b]
        BY <3>2, <1>t
      <3> QED BY <3>1, <3>2, <3>3, <3>4, <1>n, ContinueUntroubled
    <2>5. CASE EndDispatch(a)
      <3>1. /\ a = attempt /\ ~At(a, "returned") /\ UNCHANGED <<attempt, decision, marker, response>>
            /\ Continues(a, "classify", FALSE)
        BY <2>5, <1>a DEF EndDispatch, ReturnFromDispatch, StepInv, PositionsAgree, At
      <3> QED BY <3>1, <1>n, <1>q, ContinueUntroubled
    <2> QED BY <1>4, <2>1, <2>2, <2>3, <2>4, <2>5 DEF Dispatch
  <1>5. ASSUME NEW a \in Attempts, Classification(a)
        PROVE  Undisturbed'
    <2>0. UNCHANGED <<attempt, decision>>
      BY <1>5 DEF Classification, ReportAccepted, ReturnAccepted, ReturnCanResend, ReturnRejected, ReturnUncertain,
                  ReturnRetry, Confirm, SaveID, LookUp, ReadBackFinds, IsLooking, ReadBackFails,
                  record_provider_id, record_can_resend, vars
    <2>1. CASE ReadBackFails(a)
      BY <2>1, <1>n DEF ReadBackFails, At, Undisturbed, Untroubled
    <2>6. CASE ReadBackFinds(a)
      <3>1. a = attempt
        BY <2>6, <1>a, <1>n DEF ReadBackFinds, IsLooking, At, Undisturbed, Untroubled
      <3>2. \A b \in Attempts \ {a} : marker'[b] = marker[b]
        BY <2>6, <1>t DEF ReadBackFinds, ReturnAccepted, record_provider_id, record, RecordAcknowledged, RecordFails, vars
      <3>3. PICK o \in {"accepted", "retry"}, t \in BOOLEAN : Returns(a, o, t) /\ (o = "retry" => t)
        BY <2>6 DEF ReadBackFinds, ReturnAccepted
      <3>4. o = "accepted"
        BY <3>3, <1>t, ReturnsNotes
      <3> QED BY <2>0, <3>1, <3>2, <3>3, <3>4, <1>n, <1>o, ReturnUntroubled
    <2>2. CASE ReturnUncertain(a) \/ ReturnRetry(a) \/ Confirm(a) \/ SaveID(a) \/ LookUp(a)
      <3>1. response[a] \in UNION {profile.unknowns, profile.retries, profile.confirms, profile.saves, profile.lookups}
        BY <2>2 DEF ReturnUncertain, ReturnRetry, Confirm, SaveID, LookUp
      <3>2. response[a] # "none"
        BY <3>1, <1>t DEF Profile, Responses
      <3> QED BY <3>1, <3>2, <1>q DEF DoubtsOnTrouble
    <2>3. CASE ReportAccepted(a)
      <3>1. a = attempt
        BY <2>3, <1>a DEF ReportAccepted, ReturnAccepted, At
      <3>2. \A b \in Attempts \ {a} : marker'[b] = marker[b]
        BY <2>3, <1>t DEF ReportAccepted, ReturnAccepted, record_provider_id, record, RecordAcknowledged, RecordFails, vars
      <3>3. PICK o \in {"accepted", "retry"}, t \in BOOLEAN : Returns(a, o, t) /\ (o = "retry" => t)
        BY <2>3 DEF ReportAccepted, ReturnAccepted
      <3>4. o = "accepted"
        BY <3>3, <1>t, ReturnsNotes
      <3> QED BY <2>0, <3>1, <3>2, <3>3, <3>4, <1>n, <1>o, ReturnUntroubled
    <2>4. CASE ReturnCanResend(a)
      <3>1. a = attempt
        BY <2>4, <1>a DEF ReturnCanResend, At
      <3>2. \A b \in Attempts \ {a} : marker'[b] = marker[b]
        BY <2>4, <1>t DEF ReturnCanResend, record_can_resend, record, RecordAcknowledged, RecordFails
      <3>3. marker'[a] = CanResend(a)
        BY <2>4 DEF ReturnCanResend, Returns, Notes
      <3>4. Returns(a, "retry", FALSE)
        BY <2>4, <3>3 DEF ReturnCanResend
      <3>5. HoldsPermit(a)'
        BY <3>3 DEF HoldsPermit
      <3> QED BY <2>0, <3>1, <3>2, <3>4, <3>5, <1>n, <1>o, ReturnUntroubled
    <2>5. CASE ReturnRejected(a)
      <3>1. a = attempt /\ Returns(a, "rejected", FALSE) /\ marker' = marker
        BY <2>5, <1>a DEF ReturnRejected, At, vars
      <3> QED BY <2>0, <3>1, <1>n, <1>o, ReturnUntroubled
    <2> QED BY <1>5, <2>1, <2>2, <2>3, <2>4, <2>5, <2>6 DEF Classification
  <1>6. ASSUME NEW a \in Attempts, Provider(a)
        PROVE  Undisturbed'
    BY <1>6, <1>n DEF Provider, ProviderStep, ProviderProcesses, ProviderRefuses, stepVars,
                      Undisturbed, Untroubled, At, HoldsPermit
  <1> QED BY <1>1, <1>2, <1>3, <1>4, <1>5, <1>6 DEF WriteNext

\* Uncertain needs an excuse, for any number of attempts and any operations that keep
\* their obligations and doubt only on trouble: while every heartbeat is kept, every
\* answer is definite and no attempts overlap, each Retry leaves the permit that the next
\* attempt's decide finds.
THEOREM UncertaintyIsExcused ==
    ASSUME \A p \in Profiles : KeepsObligations(p) /\ DoubtsOnTrouble(p)
    PROVE  WriteSpec => []UncertaintyHasCause
  <1>1. WriteInit => CauseInv
    BY CauseInit
  <1>2. FenceInv /\ StepInv /\ CauseInv /\ [WriteNext]_<<vars, stepVars>> => CauseInv'
    BY CauseStep DEF StepInv, WriteTypeOK
  <1>3. CauseInv => UncertaintyHasCause
    BY DEF CauseInv, Undisturbed, UncertaintyHasCause
  <1>4. WriteSpec => [](FenceInv /\ StepInv)
    BY StepInvariant
  <1> QED BY <1>1, <1>2, <1>3, <1>4, PTL DEF WriteSpec

\* The operations of the tables doubt only on trouble, Trello's included.
LEMMA ConnectorsDoubtOnTrouble ==
    \A p \in DecideFirstWrites \union {trello_singleDispatch} : DoubtsOnTrouble(p)
  <1> USE DEF DoubtsOnTrouble, ContractRefusals
  <1>1. DoubtsOnTrouble(twilio_sendMessage)
    BY DEF twilio_sendMessage, RefreshedWrite, ContractWrite
  <1>2. DoubtsOnTrouble(bamboohr_addEmployee)
    BY DEF bamboohr_addEmployee, RefreshedWrite, ContractWrite
  <1>3. DoubtsOnTrouble(zoom_createMeeting)
    BY DEF zoom_createMeeting, RefreshedWrite, ContractWrite
  <1>4. DoubtsOnTrouble(calendly_createSchedulingLink)
    BY DEF calendly_createSchedulingLink, RejectsTimeouts, RefreshedWrite, ContractWrite
  <1>5. DoubtsOnTrouble(hiver_fencedAttempt)
    BY DEF hiver_fencedAttempt, RefreshedWrite, ContractWrite
  <1>6. DoubtsOnTrouble(pipedrive_createObject)
    BY DEF pipedrive_createObject, RefreshedWrite, ContractWrite
  <1>7. DoubtsOnTrouble(front_replyToConversation)
    BY DEF front_replyToConversation, RefreshedWrite, ContractWrite
  <1>8. DoubtsOnTrouble(teams_send)
    BY DEF teams_send, RefreshedWrite, ContractWrite
  <1>9. DoubtsOnTrouble(docs_createDocument)
    BY DEF docs_createDocument, RefreshedWrite, ContractWrite
  <1>10. DoubtsOnTrouble(drive_uploadFile)
    BY DEF drive_uploadFile, RejectsTimeouts, RefreshedWrite, ContractWrite
  <1>11. DoubtsOnTrouble(jira_write)
    BY DEF jira_write, RefreshedWrite, ContractWrite
  <1>12. DoubtsOnTrouble(reamaze_createConversation)
    BY DEF reamaze_createConversation, RefreshedWrite, ContractWrite
  <1>13. DoubtsOnTrouble(reamaze_replyToConversation)
    BY DEF reamaze_replyToConversation, reamaze_createConversation, RefreshedWrite, ContractWrite
  <1>14. DoubtsOnTrouble(slack_postMessage)
    BY DEF slack_postMessage, RejectsTimeouts, RefreshedWrite, ContractWrite
  <1>15. DoubtsOnTrouble(helpscout_replyToConversation)
    BY DEF helpscout_replyToConversation, RefreshedWrite, ContractWrite
  <1>16. DoubtsOnTrouble(notion_createPage)
    BY DEF notion_createPage, RefreshedWrite, ContractWrite
  <1>17. DoubtsOnTrouble(trello_singleDispatch)
    BY DEF trello_singleDispatch, RefreshedWrite, ContractWrite
  <1> QED BY <1>1, <1>2, <1>3, <1>4, <1>5, <1>6, <1>7, <1>8, <1>9, <1>10, <1>11, <1>12, <1>13,
             <1>14, <1>15, <1>16, <1>17
          DEF DecideFirstWrites, AcceptanceKeepers

\* The connectors with their real tables settle as uncertain only after something went
\* wrong, for any number of attempts.
THEOREM ConnectorUncertaintyIsExcused ==
    ASSUME Profiles \subseteq DecideFirstWrites \union {trello_singleDispatch}
    PROVE  WriteSpec => []UncertaintyHasCause
  <1>1. KeepsObligations(trello_singleDispatch)
    BY DEF KeepsObligations, trello_singleDispatch, ContractWrite, ContractRefusals
  <1>2. \A p \in Profiles : KeepsObligations(p) /\ DoubtsOnTrouble(p)
    BY <1>1, ConnectorTables, ConnectorsDoubtOnTrouble
  <1> QED BY <1>2, UncertaintyIsExcused
=============================================================================
