-------------------------- MODULE MarkedWriteProofs ---------------------------
(***************************************************************************)
(* Proofs about the writes behind a heartbeat claim, for any number of     *)
(* attempts, any loss of heartbeats and any set of operations that keep    *)
(* the rules ClearsOnProof, SettlesOnProof and DoubtsOnTrouble, and that   *)
(* the operations of MarkedProfiles keep them.                             *)
(***************************************************************************)
EXTENDS MarkedWrite, MarkedProfiles, TLAPS

\* Nothing was or may be processed but what a lost claim hides.
AllForgotten == \A n \in Attempts : MayBeProcessed(n) => IsForgotten(n)

\* A permit that Dex may have stored is true of every attempt up to its own, and the
\* running attempt writes its permit last.
PermitRule ==
    profile.isNumbered =>
        /\ checkpoint \in frames
        /\ \A f \in frames : f.kind = "permit" =>
              /\ f.attempt <= attempt
              /\ pc \in {"start", "prepare", "claimed"} => f.attempt < attempt
              /\ \A n \in Attempts : n <= f.attempt => ~MayBeProcessed(n)

\* Without numbers, whatever is not a claim hides no write but one whose claim was lost.
ClaimRule == ~profile.isNumbered /\ checkpoint.kind # "claim" => AllForgotten

\* A running attempt has passed the checkpoint before it sends, and has recorded its claim.
SendRule ==
    /\ pc \in {"prepare", "claimed"} => AllForgotten
    /\ pc = "claimed" => checkpoint.kind = "claim"
    /\ pc \in {"sent", "classify"} =>
          /\ checkpoint.kind = "claim"
          /\ \A n \in Attempts \ {attempt} : MayBeProcessed(n) => IsForgotten(n)

\* An attempt sends at most once, after it started; claims are lost between attempts.
FreshRule ==
    /\ \A n \in Attempts : n > attempt => request[n] = "none"
    /\ pc \in {"start", "prepare", "claimed"} => request[attempt] = "none"
    /\ \A m \in lost : m < attempt

\* What the answer proves about the write it answers.
AnswerRule ==
    pc = "classify" =>
        /\ answer \in Answers
        /\ answer \in {"ok", "noID"} => request[attempt] = "processed"
        /\ answer \in profile.refusals => request[attempt] = "refused"

IInv ==
    /\ TypeOK
    /\ PermitRule
    /\ ClaimRule
    /\ SendRule
    /\ FreshRule
    /\ AnswerRule
    /\ AtMostOneWrite

AllClearOnProof == \A p \in Profiles : ClearsOnProof(p)
-----------------------------------------------------------------------------
\* The checkpoints the code records have their type.
LEMMA CheckpointTypes ==
    ASSUME TypeOK
    PROVE  /\ Claim(attempt) \in Checkpoints
           /\ Release \in Checkpoints
           /\ Claim(attempt).kind = "claim"
           /\ Release.kind # "claim"
           /\ profile.isNumbered => Release = Permit(attempt)
           /\ Permit(attempt).attempt = attempt
BY MarkedAssumption DEF TypeOK, NoCheckpoint, Claim, Permit, Release, Checkpoints, Attempts

\* What a profile's fields are.
LEMMA ProfileTypes ==
    ASSUME TypeOK
    PROVE  /\ profile \in Profiles
           /\ profile.accepts \subseteq {"ok", "noID"}
           /\ profile.sessionFailures \subseteq (Branches \union {"retry"})
           /\ profile.unresolved \subseteq (Branches \union {"retry"})
           /\ profile.isNumbered \in BOOLEAN
<1>1. profile \in Profile /\ profile.accepts \subseteq {"ok", "noID"} /\ profile \in Profiles
  BY MarkedAssumption DEF TypeOK
<1>2. QED
  BY <1>1 DEF Profile

\* Attempts are positive numbers.
LEMMA AttemptTypes ==
    ASSUME TypeOK
    PROVE  /\ attempt \in Nat \ {0}
           /\ Attempts \subseteq Nat \ {0}
           /\ attempt < MaxAttempt => attempt + 1 \in Attempts
           /\ \A f \in frames : f.attempt \in Nat
BY MarkedAssumption DEF TypeOK, Attempts, Checkpoints

\* The first state satisfies the invariant.
LEMMA InitInvariant == Init => IInv
<1> SUFFICES ASSUME Init PROVE IInv
  OBVIOUS
<1>1. TypeOK
  <2>1. 1 \in Attempts /\ 0 \in 0 .. MaxAttempt
    BY MarkedAssumption DEF Attempts
  <2>2. NoCheckpoint \in Checkpoints
    BY <2>1 DEF NoCheckpoint, Checkpoints
  <2>3. QED
    BY <2>1, <2>2 DEF Init, TypeOK
<1>2. \A n \in Attempts : ~MayBeProcessed(n)
  BY DEF Init, MayBeProcessed
<1>3. AtMostOneWrite /\ AllForgotten
  BY <1>2 DEF AtMostOneWrite, AllForgotten
<1>4. ClaimRule /\ SendRule /\ FreshRule /\ AnswerRule
  BY <1>1, <1>2, <1>3 DEF Init, ClaimRule, SendRule, FreshRule, AnswerRule, TypeOK
<1>5. PermitRule
  BY DEF Init, PermitRule, NoCheckpoint
<1>6. QED
  BY <1>1, <1>3, <1>4, <1>5 DEF IInv
-----------------------------------------------------------------------------
\* What a step keeps when it leaves the attempt and the lost claims alone and no write
\* becomes possible.
LEMMA SameWrites ==
    ASSUME AtMostOneWrite, UNCHANGED <<profile, attempt, lost>>,
           \A n \in Attempts : MayBeProcessed(n)' => MayBeProcessed(n)
    PROVE  /\ AtMostOneWrite'
           /\ AllForgotten => AllForgotten'
           /\ \A n \in Attempts : (MayBeProcessed(n) => IsForgotten(n)) => (MayBeProcessed(n)' => IsForgotten(n)')
BY DEF AtMostOneWrite, AllForgotten, IsForgotten

\* The attempt goes on at a label where it owes nothing new.
LEMMA ContinueStep ==
    ASSUME IInv, NEW label \in {"prepare", "readBack"}, NEW b \in BOOLEAN,
           Continues(label, b), UNCHANGED <<heartbeats, request, answer>>,
           pc \in {"start", "classify"},
           label = "prepare" => pc = "start" /\ AllForgotten
    PROVE  IInv'
<1>1. TypeOK'
  BY DEF IInv, TypeOK, Continues, Notes, heartbeats
<1>2. \A n \in Attempts : MayBeProcessed(n)' <=> MayBeProcessed(n)
  BY DEF MayBeProcessed
<1>3. AtMostOneWrite' /\ (AllForgotten => AllForgotten')
  BY <1>2, SameWrites DEF IInv, Continues
<1>4. PermitRule'
  BY <1>2 DEF IInv, PermitRule, Continues, heartbeats
<1>5. ClaimRule' /\ SendRule'
  BY <1>3 DEF IInv, ClaimRule, SendRule, Continues, heartbeats
<1>6. FreshRule' /\ AnswerRule'
  BY DEF IInv, FreshRule, AnswerRule, Continues
<1> QED
  BY <1>1, <1>3, <1>4, <1>5, <1>6 DEF IInv

\* A step that leaves the provider's side alone and ends the attempt, with the heartbeat as
\* it was or, when nothing is written, with a claim or a release.
LEMMA EndStep ==
    ASSUME IInv, NEW label \in {"settled", "unopened"}, NEW outcome \in Branches \union {"retry"},
           NEW b \in BOOLEAN,
           Ends(label, outcome, b), UNCHANGED <<request, answer>>,
           \/ UNCHANGED heartbeats
           \/ AllForgotten /\ (Records(Claim(attempt)) \/ Records(Release))
    PROVE  IInv'
<1>1. TypeOK'
  <2>1. checkpoint' \in Checkpoints /\ frames' \subseteq Checkpoints
    BY CheckpointTypes DEF IInv, TypeOK, Records, heartbeats
  <2> QED
    BY <2>1 DEF IInv, TypeOK, Ends, Notes, Branches
<1>2. \A n \in Attempts : MayBeProcessed(n)' <=> MayBeProcessed(n)
  BY DEF MayBeProcessed
<1>3. AtMostOneWrite' /\ (AllForgotten => AllForgotten')
  BY <1>2, SameWrites DEF IInv, Ends
<1>4. pc' \in {"retry", "settled", "unopened"} /\ UNCHANGED <<profile, attempt, lost>>
  BY DEF Ends
<1>5. PermitRule'
  <2> SUFFICES ASSUME profile.isNumbered
               PROVE  PermitRule'
    BY <1>4 DEF PermitRule
  <2>1. CASE UNCHANGED heartbeats
    BY <2>1, <1>2, <1>4 DEF IInv, PermitRule, heartbeats
  <2>2. CASE AllForgotten /\ (Records(Claim(attempt)) \/ Records(Release))
    <3>1. \A n \in Attempts : ~MayBeProcessed(n)
      BY <2>2 DEF AllForgotten, IsForgotten
    <3>2. checkpoint' \in frames'
      BY <2>2 DEF Records
    <3>3. \A f \in frames' : f \in frames \/ f.kind # "permit" \/ f = Permit(attempt)
      BY <2>2, CheckpointTypes DEF Records, IInv
    <3>4. \A f \in frames' : f.kind = "permit" => f.attempt <= attempt
      BY <3>3, CheckpointTypes, AttemptTypes DEF IInv, PermitRule
    <3> QED
      BY <3>1, <3>2, <3>4, <1>2, <1>4 DEF PermitRule
  <2> QED
    BY <2>1, <2>2
<1>6. ClaimRule'
  BY <1>3, <1>4 DEF IInv, ClaimRule, heartbeats
<1>7. SendRule' /\ FreshRule' /\ AnswerRule'
  BY <1>4 DEF IInv, SendRule, FreshRule, AnswerRule
<1> QED
  BY <1>1, <1>3, <1>5, <1>6, <1>7 DEF IInv

\* Recording a release after a proof that nothing was processed.
LEMMA ReleaseStep ==
    ASSUME IInv, NEW outcome \in Branches \union {"retry"},
           Releases(outcome), UNCHANGED <<request, answer>>, AllForgotten
    PROVE  IInv'
<1>1. Ends("settled", outcome, FALSE) \/ Ends("settled", outcome, TRUE)
  BY DEF Releases, Returns
<1>2. UNCHANGED heartbeats \/ Records(Release)
  BY DEF Releases, RecordFails
<1>3. QED
  BY <1>1, <1>2, EndStep

\* Dex starts the next attempt with any recorded value.
LEMMA StartStep ==
    ASSUME IInv, StartAttempt
    PROVE  IInv'
<1>1. /\ attempt' = attempt + 1 /\ attempt < MaxAttempt /\ pc = "retry" /\ pc' = "start"
      /\ UNCHANGED <<profile, frames, request, result>>
      /\ checkpoint' \in frames /\ checkpoint' \in Checkpoints
      /\ lost \subseteq lost'
      /\ \A m \in lost' : m \in lost \/ m = attempt
      /\ checkpoint.kind = "claim" /\ checkpoint'.kind # "claim" => attempt \in lost'
  BY DEF StartAttempt, IInv, TypeOK
<1>2. attempt \in Nat \ {0} /\ attempt + 1 \in Attempts /\ Attempts \subseteq Nat
  BY <1>1, AttemptTypes DEF IInv
<1>3. TypeOK'
  <2>1. lost' \subseteq Attempts
    BY <1>1 DEF IInv, TypeOK
  <2>2. isDisturbed' \in BOOLEAN /\ answer' = "none"
    BY DEF StartAttempt, Notes, IInv, TypeOK
  <2> QED
    BY <1>1, <1>2, <2>1, <2>2 DEF IInv, TypeOK
<1>4. \A n \in Attempts : MayBeProcessed(n)' <=> MayBeProcessed(n)
  BY <1>1 DEF MayBeProcessed
<1>5. AtMostOneWrite'
  BY <1>1, <1>4 DEF IInv, AtMostOneWrite
<1>6. PermitRule'
  <2> SUFFICES ASSUME profile.isNumbered
               PROVE  PermitRule'
    BY <1>1 DEF PermitRule
  <2>1. \A f \in frames : f.kind = "permit" => f.attempt <= attempt /\ f.attempt < attempt'
    BY <1>1, <1>2, AttemptTypes DEF IInv, PermitRule
  <2> QED
    BY <1>1, <1>2, <1>4, <2>1, AttemptTypes DEF IInv, PermitRule
<1>7. ClaimRule'
  <2> SUFFICES ASSUME ~profile.isNumbered, checkpoint'.kind # "claim"
               PROVE  AllForgotten'
    BY <1>1 DEF ClaimRule
  <2>1. CASE checkpoint.kind = "claim"
    <3>1. attempt \in lost'
      BY <2>1, <1>1
    <3>2. \A n \in Attempts : MayBeProcessed(n) => n <= attempt
      BY <1>2 DEF IInv, FreshRule, MayBeProcessed
    <3> QED
      BY <3>1, <3>2, <1>1, <1>4 DEF AllForgotten, IsForgotten
  <2>2. CASE checkpoint.kind # "claim"
    BY <2>2, <1>1, <1>4 DEF IInv, ClaimRule, AllForgotten, IsForgotten
  <2> QED
    BY <2>1, <2>2
<1>8. FreshRule'
  <2>1. \A n \in Attempts : n > attempt' => request'[n] = "none"
    BY <1>1, <1>2 DEF IInv, FreshRule
  <2>2. request'[attempt'] = "none"
    BY <1>1, <1>2 DEF IInv, FreshRule
  <2>3. \A m \in lost' : m < attempt'
    BY <1>1, <1>2 DEF IInv, FreshRule, TypeOK
  <2> QED
    BY <2>1, <2>2, <2>3 DEF FreshRule
<1>9. SendRule' /\ AnswerRule'
  BY <1>1 DEF SendRule, AnswerRule
<1> QED
  BY <1>3, <1>5, <1>6, <1>7, <1>8, <1>9 DEF IInv

\* A checkpoint that lets an attempt send hides nothing but lost claims.
LEMMA PassedCheckpoint ==
    ASSUME IInv, pc = "start", MaySendNow
    PROVE  AllForgotten
<1>1. attempt \in Nat \ {0} /\ Attempts \subseteq Nat \ {0}
  BY AttemptTypes DEF IInv
<1>2. CASE ~profile.isNumbered
  BY <1>2 DEF IInv, MaySendNow, ClaimRule, NoCheckpoint
<1>3. CASE profile.isNumbered
  <2>1. \A n \in Attempts : n >= attempt => ~MayBeProcessed(n)
    BY <1>1 DEF IInv, FreshRule, MayBeProcessed
  <2>2. CASE attempt = 1
    BY <2>1, <2>2, <1>1 DEF AllForgotten
  <2>3. CASE attempt # 1
    <3>1. checkpoint = Permit(attempt - 1) /\ checkpoint \in frames
      BY <1>3, <2>3 DEF IInv, MaySendNow, PermitRule
    <3>2. Permit(attempt - 1).kind = "permit" /\ Permit(attempt - 1).attempt = attempt - 1
      BY DEF Permit
    <3>3. \A n \in Attempts : n <= attempt - 1 => ~MayBeProcessed(n)
      BY <1>3, <3>1, <3>2 DEF IInv, PermitRule
    <3> QED
      BY <2>1, <3>3, <1>1 DEF AllForgotten
  <2> QED
    BY <2>2, <2>3
<1> QED
  BY <1>2, <1>3, ProfileTypes DEF IInv

\* The send, after the claim.
LEMMA SendStep ==
    ASSUME IInv, Send
    PROVE  IInv'
<1>1. /\ pc = "claimed" /\ pc' = "sent" /\ request' = [request EXCEPT ![attempt] = "inFlight"]
      /\ UNCHANGED <<profile, attempt, checkpoint, frames, lost, answer, result>>
  BY DEF Send, Continues, heartbeats
<1>2. TypeOK'
  BY <1>1 DEF IInv, TypeOK, Send, Continues, Notes
<1>3. AllForgotten /\ checkpoint.kind = "claim" /\ attempt \in Attempts /\ attempt \in Nat /\ Attempts \subseteq Nat
  BY <1>1, AttemptTypes DEF IInv, SendRule, TypeOK
<1>4. \A n \in Attempts \ {attempt} : request'[n] = request[n]
  BY <1>1 DEF IInv, TypeOK
<1>5. \A n \in Attempts \ {attempt} : MayBeProcessed(n)' => MayBeProcessed(n) /\ IsForgotten(n) /\ n < attempt
  BY <1>3, <1>4 DEF AllForgotten, MayBeProcessed, IInv, FreshRule
<1>6. \A n \in Attempts : IsForgotten(n)' <=> IsForgotten(n)
  BY <1>1 DEF IsForgotten
<1>7. AtMostOneWrite'
  <2> SUFFICES ASSUME NEW n \in Attempts, NEW k \in Attempts, n < k,
                      MayBeProcessed(n)', MayBeProcessed(k)'
               PROVE  ~profile.isNumbered /\ \E m \in lost : n <= m /\ m < k
    BY <1>1 DEF AtMostOneWrite
  <2>1. n # attempt
    BY <1>3, <1>5
  <2>2. CASE k = attempt
    BY <2>1, <2>2, <1>5 DEF IsForgotten, IInv, FreshRule
  <2>3. CASE k # attempt
    BY <2>1, <2>3, <1>5 DEF IInv, AtMostOneWrite
  <2> QED
    BY <2>2, <2>3
<1>8. PermitRule'
  <2> SUFFICES ASSUME profile.isNumbered
               PROVE  PermitRule'
    BY <1>1 DEF PermitRule
  <2>1. \A f \in frames : f.kind = "permit" => f.attempt \in Nat /\ f.attempt < attempt
    BY <1>1, AttemptTypes DEF IInv, PermitRule
  <2>2. \A n \in Attempts : MayBeProcessed(n)' => n = attempt
    BY <1>5 DEF IsForgotten
  <2> QED
    BY <1>1, <1>3, <2>1, <2>2 DEF IInv, PermitRule
<1>9. ClaimRule' /\ SendRule'
  BY <1>1, <1>3, <1>5, <1>6 DEF ClaimRule, SendRule
<1>10. FreshRule' /\ AnswerRule'
  BY <1>1, <1>3, <1>4 DEF IInv, FreshRule, AnswerRule
<1> QED
  BY <1>2, <1>7, <1>8, <1>9, <1>10 DEF IInv

\* The answer.
LEMMA ReceiveStep ==
    ASSUME IInv, Receive
    PROVE  IInv'
<1>1. pc = "sent" /\ pc' = "classify" /\ UNCHANGED <<profile, attempt, checkpoint, frames, lost, request, result>>
  BY DEF Receive, Continues, heartbeats
<1>2. TypeOK' /\ AnswerRule'
  BY DEF IInv, TypeOK, Receive, Continues, Notes, AnswerRule, Answers, heartbeats
<1>3. \A n \in Attempts : MayBeProcessed(n)' <=> MayBeProcessed(n)
  BY <1>1 DEF MayBeProcessed
<1>4. /\ AtMostOneWrite' /\ (AllForgotten => AllForgotten')
      /\ \A n \in Attempts : (MayBeProcessed(n) => IsForgotten(n)) => (MayBeProcessed(n)' => IsForgotten(n)')
  BY <1>1, <1>3, SameWrites DEF IInv
<1>5. PermitRule'
  BY <1>1, <1>3 DEF IInv, PermitRule
<1>6. ClaimRule' /\ SendRule' /\ FreshRule'
  BY <1>1, <1>4 DEF IInv, ClaimRule, SendRule, FreshRule
<1> QED
  BY <1>2, <1>4, <1>5, <1>6 DEF IInv

\* A refusal of the running attempt leaves nothing but what a lost claim hides.
LEMMA RefusedAnswer ==
    ASSUME IInv, pc = "classify", answer \in profile.refusals
    PROVE  AllForgotten
<1>1. ~MayBeProcessed(attempt)
  BY DEF IInv, AnswerRule, MayBeProcessed
<1> QED
  BY <1>1 DEF IInv, SendRule, AllForgotten

\* Every step preserves the invariant when tables take claims back only on proof.
LEMMA StepInvariant ==
    ASSUME AllClearOnProof, IInv, [Next]_vars
    PROVE  IInv'
<1>1. CASE StartAttempt
  BY <1>1, StartStep
<1>2. CASE Crash
  <2>1. TypeOK'
    BY <1>2 DEF IInv, TypeOK, Crash, heartbeats
  <2>2. \A n \in Attempts : MayBeProcessed(n)' <=> MayBeProcessed(n)
    BY <1>2 DEF Crash, MayBeProcessed
  <2>3. AtMostOneWrite' /\ (AllForgotten => AllForgotten')
    BY <1>2, <2>2, SameWrites DEF IInv, Crash
  <2>4. PermitRule'
    BY <1>2, <2>2 DEF IInv, PermitRule, Crash, heartbeats
  <2>5. ClaimRule' /\ SendRule' /\ FreshRule' /\ AnswerRule'
    BY <1>2, <2>3 DEF IInv, Crash, heartbeats, ClaimRule, SendRule, FreshRule, AnswerRule
  <2> QED
    BY <2>1, <2>3, <2>4, <2>5 DEF IInv
<1>3. CASE SessionFails
  <2>1. PICK outcome \in profile.sessionFailures : Ends("unopened", outcome, FALSE)
    BY <1>3 DEF SessionFails
  <2>2. outcome \in Branches \union {"retry"}
    BY ProfileTypes DEF IInv
  <2> QED
    BY <1>3, <2>1, <2>2, EndStep DEF SessionFails
<1>4. CASE FindCheckpoint
  <2>1. PICK b \in BOOLEAN :
          IF profile.readsBack THEN Continues("readBack", b) ELSE Returns("uncertain", b)
    BY <1>4 DEF FindCheckpoint
  <2>2. CASE Continues("readBack", b)
    BY <1>4, <2>2, ContinueStep DEF FindCheckpoint
  <2>3. CASE Returns("uncertain", b)
    BY <1>4, <2>3, EndStep DEF FindCheckpoint, Returns, Branches
  <2>4. QED
    BY <2>1, <2>2, <2>3
<1>5. CASE PassCheckpoint
  BY <1>5, PassedCheckpoint, ContinueStep DEF PassCheckpoint
<1>6. CASE PreparationFails
  <2>1. AllForgotten
    BY <1>6 DEF PreparationFails, IInv, SendRule
  <2>2. CASE Releases("retry")
    BY <2>1, <2>2, <1>6, ReleaseStep DEF PreparationFails
  <2>3. CASE UNCHANGED heartbeats /\ \E o \in {"retry", "defect", "rejected"} : Returns(o, FALSE)
    BY <2>3, <1>6, EndStep DEF PreparationFails, Branches, Returns
  <2>4. QED
    BY <2>2, <2>3, <1>6 DEF PreparationFails
<1>7. CASE RecordClaim
  <2>1. /\ pc = "prepare" /\ pc' = "claimed"
        /\ UNCHANGED <<profile, attempt, lost, request, answer, result>>
        /\ checkpoint' = Claim(attempt) /\ frames' = frames \union {Claim(attempt)}
    BY <1>7 DEF RecordClaim, Continues, Records
  <2>2. AllForgotten /\ Claim(attempt).kind = "claim" /\ Claim(attempt) \in Checkpoints
    BY <2>1, CheckpointTypes DEF IInv, SendRule
  <2>3. TypeOK'
    BY <1>7, <2>1, <2>2 DEF IInv, TypeOK, RecordClaim, Continues, Notes
  <2>4. \A n \in Attempts : MayBeProcessed(n)' <=> MayBeProcessed(n)
    BY <2>1 DEF MayBeProcessed
  <2>5. AtMostOneWrite' /\ AllForgotten'
    BY <2>1, <2>2, <2>4, SameWrites DEF IInv
  <2>6. PermitRule'
    BY <2>1, <2>2, <2>4 DEF IInv, PermitRule
  <2>7. ClaimRule' /\ SendRule' /\ FreshRule' /\ AnswerRule'
    BY <2>1, <2>2, <2>5 DEF IInv, ClaimRule, SendRule, FreshRule, AnswerRule
  <2> QED
    BY <2>3, <2>5, <2>6, <2>7 DEF IInv
<1>8. CASE ClaimFails
  <2>1. AllForgotten
    BY <1>8 DEF ClaimFails, IInv, SendRule
  <2>2. UNCHANGED heartbeats \/ Records(Claim(attempt)) \/ Records(Release)
    BY <1>8 DEF ClaimFails, RecordFails, Release
  <2>3. QED
    BY <2>1, <2>2, <1>8, EndStep DEF ClaimFails, Returns
<1>9. CASE CredentialsFail
  <2>1. AllForgotten
    BY <1>9 DEF CredentialsFail, IInv, SendRule
  <2>2. CASE Releases("retry")
    BY <2>1, <2>2, <1>9, ReleaseStep DEF CredentialsFail
  <2>3. CASE Returns("defect", FALSE) /\ UNCHANGED heartbeats
    BY <2>3, <1>9, EndStep DEF CredentialsFail, Branches, Returns
  <2>4. QED
    BY <2>2, <2>3, <1>9 DEF CredentialsFail
<1>10. CASE Send
  BY <1>10, SendStep
<1>11. CASE Receive
  BY <1>11, ReceiveStep
<1>12. CASE ReportAccepted \/ ReturnRejected \/ ReturnUncertain \/ KeepClaim \/ ReadBackFinds \/ LookFindsSeveral
  <2>1. PICK o \in Branches \union {"retry"} : Returns(o, FALSE)
    BY <1>12 DEF ReportAccepted, ReturnRejected, ReturnUncertain, KeepClaim, ReadBackFinds, LookFindsSeveral, Branches
  <2>2. UNCHANGED <<heartbeats, request, answer>>
    BY <1>12 DEF ReportAccepted, ReturnRejected, ReturnUncertain, KeepClaim, ReadBackFinds, LookFindsSeveral
  <2>3. QED
    BY <2>1, <2>2, EndStep DEF Returns
<1>13. CASE ClearAndRetry
  <2>1. answer \in profile.refusals
    BY <1>13, ProfileTypes DEF IInv, ClearAndRetry, AllClearOnProof, ClearsOnProof
  <2>2. AllForgotten
    BY <2>1, <1>13, RefusedAnswer DEF ClearAndRetry
  <2>3. QED
    BY <2>2, <1>13, ReleaseStep DEF ClearAndRetry
<1>14. CASE ConfirmAtOnce
  BY <1>14, ContinueStep DEF ConfirmAtOnce
<1>15. CASE ReadBackFails
  <2>1. PICK outcome \in profile.unresolved : Returns(outcome, FALSE)
    BY <1>15 DEF ReadBackFails
  <2>2. outcome \in Branches \union {"retry"}
    BY ProfileTypes DEF IInv
  <2> QED
    BY <1>15, <2>1, <2>2, EndStep DEF ReadBackFails, Returns
<1>16. CASE Provider
  <2>1. PICK n \in Attempts, fate \in {"processed", "refused"} :
          request[n] = "inFlight" /\ request' = [request EXCEPT ![n] = fate]
    BY <1>16 DEF Provider
  <2>2. UNCHANGED <<profile, attempt, pc, checkpoint, frames, lost, answer, result, isDisturbed>>
    BY <1>16 DEF Provider, heartbeats
  <2>3. TypeOK'
    BY <2>1, <2>2 DEF IInv, TypeOK
  <2>4. \A k \in Attempts : MayBeProcessed(k)' => MayBeProcessed(k)
    BY <2>1 DEF IInv, MayBeProcessed, TypeOK
  <2>5. /\ AtMostOneWrite' /\ (AllForgotten => AllForgotten')
        /\ \A k \in Attempts : (MayBeProcessed(k) => IsForgotten(k)) => (MayBeProcessed(k)' => IsForgotten(k)')
    BY <2>2, <2>4, SameWrites DEF IInv
  <2>6. AnswerRule'
    BY <2>1, <2>2 DEF IInv, AnswerRule, TypeOK
  <2>7. FreshRule'
    BY <2>1, <2>2 DEF IInv, FreshRule, TypeOK
  <2>8. PermitRule'
    BY <2>2, <2>4 DEF IInv, PermitRule
  <2>9. ClaimRule' /\ SendRule'
    BY <2>2, <2>5 DEF IInv, ClaimRule, SendRule
  <2> QED
    BY <2>3, <2>5, <2>6, <2>7, <2>8, <2>9 DEF IInv
<1>17. CASE UNCHANGED vars
  BY <1>17 DEF vars, IInv, TypeOK, PermitRule, ClaimRule, SendRule, FreshRule, AnswerRule, AtMostOneWrite,
               AllForgotten, IsForgotten, MayBeProcessed
<1>18. QED
  BY <1>1, <1>2, <1>3, <1>4, <1>5, <1>6, <1>7, <1>8, <1>9, <1>10, <1>11, <1>12, <1>13, <1>14, <1>15, <1>16, <1>17
     DEF Next, Dex, Preparation, Classification
-----------------------------------------------------------------------------
\* The inductive invariant of every operation that takes its claim back only on proof
\* (the heartbeat claim, its release and the answers of a connector's write).
THEOREM MarkedInvariant ==
    ASSUME AllClearOnProof
    PROVE  Spec => []IInv
<1>1. Init => IInv
  BY InitInvariant
<1>2. IInv /\ [Next]_vars => IInv'
  BY StepInvariant
<1>3. QED
  BY <1>1, <1>2, PTL DEF Spec

\* A write follows another only where attempts are not numbered and a claim recorded
\* since the first of them was lost, for any number of attempts and any operations that
\* clear on proof.
THEOREM MarkedWritesOnce ==
    ASSUME AllClearOnProof
    PROVE  Spec => []AtMostOneWrite
<1>1. IInv => AtMostOneWrite
  BY DEF IInv
<1>2. QED
  BY <1>1, MarkedInvariant, PTL

\* Type correctness, under the same condition.
THEOREM MarkedTypeCorrect ==
    ASSUME AllClearOnProof
    PROVE  Spec => []TypeOK
<1>1. IInv => TypeOK
  BY DEF IInv
<1>2. QED
  BY <1>1, MarkedInvariant, PTL
-----------------------------------------------------------------------------
\* An operation doubts only what went wrong: a usable answer or a proof that nothing was
\* processed is never kept, read back or reported as uncertain, and a failure before the
\* checkpoint is looked at neither is uncertain nor leaves a numbered Step without permit.
DoubtsOnTrouble(p) ==
    /\ ({"ok"} \union p.refusals) \cap UNION {p.unknowns, p.keeps, p.confirms} = {}
    /\ "uncertain" \notin p.sessionFailures
    /\ p.isNumbered /\ p.credentialsFirst => "retry" \notin p.sessionFailures

\* What lets the next attempt send: its permit, or no claim at all.
Released == checkpoint = Release

\* Without a disturbance every attempt that starts may send, one that ended with Retry has
\* released its claim, and no attempt reads back or has an answer that says nothing.
Undisturbed ==
    /\ pc \in {"start", "prepare"} => MaySendNow
    /\ pc = "retry" => Released
    /\ pc = "classify" => answer \in {"ok"} \union profile.refusals
    /\ pc # "readBack"
    /\ result # "uncertain"

CauseInv ==
    /\ profile \in Profiles
    /\ attempt \in Nat \ {0}
    /\ lost # {} => isDisturbed
    /\ ~isDisturbed => Undisturbed

\* The first state is undisturbed.
LEMMA CauseInit == Init => CauseInv
BY DEF Init, CauseInv, Undisturbed, MaySendNow

\* A disturbed Step satisfies the invariant whatever else it does.
LEMMA DisturbedStep ==
    ASSUME CauseInv, isDisturbed', UNCHANGED <<profile, attempt>>
    PROVE  CauseInv'
BY DEF CauseInv

\* An attempt that ends without a disturbance, and not with uncertain.
LEMMA EndingStep ==
    ASSUME CauseInv, NEW label \in {"settled", "unopened"}, NEW outcome, outcome # "uncertain",
           Ends(label, outcome, FALSE),
           ~isDisturbed /\ outcome = "retry" => checkpoint' = Release
    PROVE  CauseInv'
BY DEF CauseInv, Undisturbed, Ends, Notes, Released, Release

\* A release that is recorded leaves nothing behind; one that fails is a disturbance.
LEMMA ReleasingStep ==
    ASSUME CauseInv, NEW outcome, outcome # "uncertain", Releases(outcome)
    PROVE  CauseInv'
<1>1. CASE Records(Release) /\ Returns(outcome, FALSE)
  BY <1>1, EndingStep DEF Records, Returns
<1>2. CASE RecordFails(Release) /\ Returns(outcome, TRUE)
  BY <1>2, DisturbedStep DEF Returns, Ends, Notes
<1> QED BY <1>1, <1>2 DEF Releases

\* Every step preserves the invariant of undisturbed Steps.
LEMMA CauseStep ==
    ASSUME \A p \in Profiles : DoubtsOnTrouble(p), AtMostOneWrite, CauseInv, [Next]_vars
    PROVE  CauseInv'
<1>0. /\ profile \in Profiles /\ attempt \in Nat \ {0}
      /\ DoubtsOnTrouble(profile)
  BY DEF CauseInv
<1>1. CASE StartAttempt
  <2>1. /\ pc = "retry" /\ pc' = "start" /\ attempt' = attempt + 1
        /\ UNCHANGED <<profile, result>>
    BY <1>1 DEF StartAttempt
  <2>2. PICK kept \in frames :
          /\ checkpoint' = kept
          /\ lost' = IF checkpoint.kind = "claim" /\ kept.kind # "claim" THEN lost \union {attempt} ELSE lost
          /\ Notes(kept # checkpoint)
    BY <1>1 DEF StartAttempt
  <2>3. CASE kept # checkpoint
    <3>1. isDisturbed'
      BY <2>2, <2>3, Zenon DEF Notes
    <3> QED BY <1>0, <2>1, <3>1 DEF CauseInv
  <2>4. CASE kept = checkpoint
    <3>1. UNCHANGED <<checkpoint, lost>> /\ (isDisturbed <=> isDisturbed')
      BY <2>2, <2>4 DEF Notes
    <3>2. Released => MaySendNow'
      BY <1>0, <2>1, <3>1 DEF Released, Release, MaySendNow
    <3> QED BY <1>0, <2>1, <3>1, <3>2 DEF CauseInv, Undisturbed
  <2> QED BY <2>3, <2>4
<1>2. CASE Crash
  BY <1>2, DisturbedStep DEF Crash
<1>3. CASE SessionFails
  <2>1. PICK outcome \in profile.sessionFailures : Ends("unopened", outcome, FALSE)
    BY <1>3 DEF SessionFails
  <2>2. ~isDisturbed /\ outcome = "retry" => checkpoint = Release
    BY <1>0, <1>3 DEF SessionFails, DoubtsOnTrouble, CauseInv, Undisturbed, MaySendNow, Release
  <2>3. checkpoint' = checkpoint
    BY <1>3 DEF SessionFails, heartbeats
  <2> QED BY <1>0, <1>3, <2>1, <2>2, <2>3, EndingStep DEF SessionFails, DoubtsOnTrouble
<1>4. CASE FindCheckpoint
  <2>1. isDisturbed' /\ UNCHANGED <<profile, attempt>>
    BY <1>4 DEF FindCheckpoint, CauseInv, Undisturbed, Continues, Returns, Ends, Notes
  <2> QED BY <2>1, DisturbedStep
<1>5. CASE PassCheckpoint
  BY <1>5 DEF PassCheckpoint, Continues, Notes, heartbeats, CauseInv, Undisturbed, MaySendNow
<1>6. CASE PreparationFails
  <2>1. CASE profile.isNumbered /\ Releases("retry")
    BY <2>1, ReleasingStep
  <2>2. CASE ~profile.isNumbered /\ Returns("retry", FALSE) /\ UNCHANGED heartbeats
    <3>1. ~isDisturbed => checkpoint' = Release
      BY <1>6, <2>2 DEF PreparationFails, heartbeats, CauseInv, Undisturbed, MaySendNow, Release
    <3> QED BY <2>2, <3>1, EndingStep DEF Returns
  <2>3. CASE Returns("defect", FALSE) \/ Returns("rejected", FALSE)
    BY <2>3, EndingStep DEF Returns
  <2> QED BY <1>6, <2>1, <2>2, <2>3 DEF PreparationFails
<1>7. CASE RecordClaim
  BY <1>7 DEF RecordClaim, Continues, Notes, CauseInv, Undisturbed
<1>8. CASE ClaimFails
  BY <1>8, DisturbedStep DEF ClaimFails, Returns, Ends, Notes
<1>9. CASE CredentialsFail
  BY <1>9, ReleasingStep, EndingStep DEF CredentialsFail, Returns
<1>10. CASE Send
  BY <1>10 DEF Send, Continues, Notes, CauseInv, Undisturbed
<1>11. CASE Receive
  BY <1>11 DEF Receive, Continues, Notes, CauseInv, Undisturbed
<1>12. CASE ReportAccepted
  BY <1>12, EndingStep DEF ReportAccepted, Returns
<1>13. CASE ClearAndRetry
  BY <1>13, ReleasingStep DEF ClearAndRetry
<1>14. CASE ReturnRejected
  <2>1. PICK outcome \in {"defect", "rejected"} : Returns(outcome, FALSE)
    BY <1>14 DEF ReturnRejected
  <2> QED BY <2>1, EndingStep DEF Returns
<1>15. CASE ReturnUncertain \/ KeepClaim \/ ConfirmAtOnce
  <2>1. pc = "classify" /\ answer \in UNION {profile.unknowns, profile.keeps, profile.confirms}
    BY <1>15 DEF ReturnUncertain, KeepClaim, ConfirmAtOnce
  <2>2. isDisturbed
    BY <1>0, <2>1 DEF CauseInv, Undisturbed, DoubtsOnTrouble
  <2>3. isDisturbed' /\ UNCHANGED <<profile, attempt>>
    BY <1>15, <2>2 DEF ReturnUncertain, KeepClaim, ConfirmAtOnce, Returns, Ends, Continues, Notes
  <2> QED BY <2>3, DisturbedStep
<1>16. CASE ReadBackFinds
  BY <1>16, EndingStep DEF ReadBackFinds, Returns
<1>17. CASE ReadBackFails
  <2>1. isDisturbed
    BY <1>17 DEF ReadBackFails, CauseInv, Undisturbed
  <2>2. isDisturbed' /\ UNCHANGED <<profile, attempt>>
    BY <1>17, <2>1 DEF ReadBackFails, Returns, Ends, Notes
  <2> QED BY <2>2, DisturbedStep
<1>18. CASE LookFindsSeveral
  <2>1. isDisturbed
    BY <1>18 DEF LookFindsSeveral, AtMostOneWrite, MayBeProcessed, CauseInv
  <2>2. isDisturbed' /\ UNCHANGED <<profile, attempt>>
    BY <1>18, <2>1 DEF LookFindsSeveral, Returns, Ends, Notes
  <2> QED BY <2>2, DisturbedStep
<1>19. CASE Provider \/ UNCHANGED vars
  <2>1. UNCHANGED <<profile, attempt, pc, checkpoint, lost, answer, result, isDisturbed>>
    BY <1>19 DEF Provider, vars, heartbeats
  <2> QED BY <2>1 DEF CauseInv, Undisturbed, MaySendNow, Released, Release
<1> QED
  BY <1>1, <1>2, <1>3, <1>4, <1>5, <1>6, <1>7, <1>8, <1>9, <1>10, <1>11, <1>12, <1>13, <1>14, <1>15, <1>16,
     <1>17, <1>18, <1>19 DEF Next, Dex, Preparation, Classification

\* The invariant of undisturbed Steps, for any operations that clear on proof and doubt
\* only on trouble.
LEMMA MarkedCause ==
    ASSUME AllClearOnProof, \A p \in Profiles : DoubtsOnTrouble(p)
    PROVE  Spec => []CauseInv
<1>1. Init => CauseInv
  BY CauseInit
<1>2. AtMostOneWrite /\ CauseInv /\ [Next]_vars => CauseInv'
  BY CauseStep
<1> QED BY <1>1, <1>2, MarkedWritesOnce, PTL DEF Spec

\* uncertain is selected only after something went wrong (a crash, a heartbeat that raised,
\* an unreadable or lost checkpoint, an answer that says nothing), for any number of attempts and
\* any operations that doubt only on trouble: no permit is forgotten between attempts.
THEOREM MarkedUncertaintyHasCause ==
    ASSUME AllClearOnProof, \A p \in Profiles : DoubtsOnTrouble(p)
    PROVE  Spec => []UncertaintyHasCause
<1>1. CauseInv => UncertaintyHasCause
  BY DEF CauseInv, Undisturbed, UncertaintyHasCause
<1> QED BY <1>1, MarkedCause, PTL
-----------------------------------------------------------------------------
\* A branch keeps its truth while nothing ends and nothing new is written.
LEMMA OutcomeKept ==
    ASSUME IInv, HonestOutcome, UNCHANGED <<profile, result>>,
           isDisturbed => isDisturbed',
           pc' = "settled" => pc = "settled" /\ UNCHANGED lost,
           \A n \in Attempts : MayBeProcessed(n)' => MayBeProcessed(n) \/ pc' # "settled",
           \A n \in Attempts : request[n] = "processed" => request'[n] = "processed"
    PROVE  HonestOutcome'
BY DEF HonestOutcome, IsForgotten

\* An attempt that ends with a true branch.
LEMMA EndsTrue ==
    ASSUME IInv, HonestOutcome, NEW label \in {"settled", "unopened"},
           NEW outcome \in Branches \union {"retry"}, NEW b \in BOOLEAN,
           Ends(label, outcome, b), UNCHANGED request,
           outcome = "accepted" =>
              \/ \E n \in Attempts : request[n] = "processed"
              \/ profile.findsOthers /\ (isDisturbed \/ profile.looksFirst # "no"),
           label = "settled" /\ outcome \in {"rejected", "defect"} => AllForgotten
    PROVE  HonestOutcome'
<1>1. (isDisturbed => isDisturbed') /\ UNCHANGED <<profile, lost>>
  BY DEF Ends, Notes
<1>2. CASE outcome = "retry"
  BY <1>1, <1>2, OutcomeKept DEF Ends, MayBeProcessed
<1>3. CASE outcome # "retry"
  <2>1. result' = outcome /\ pc' = label
    BY <1>3 DEF Ends
  <2>2. AllForgotten => \A n \in Attempts : MayBeProcessed(n)' => IsForgotten(n)'
    BY <1>1 DEF AllForgotten, MayBeProcessed, IsForgotten
  <2> QED
    BY <1>1, <2>1, <2>2 DEF HonestOutcome
<1> QED
  BY <1>2, <1>3

\* Every step preserves the truth of branches for operations that settle on proof.
LEMMA StepOutcome ==
    ASSUME \A p \in Profiles : SettlesOnProof(p), IInv, CauseInv, HonestOutcome, [Next]_vars
    PROVE  HonestOutcome'
<1>0. SettlesOnProof(profile)
  BY DEF IInv, TypeOK
<1>1. CASE StartAttempt \/ Crash \/ PassCheckpoint \/ RecordClaim \/ Receive \/ ConfirmAtOnce
  <2>1. /\ UNCHANGED <<profile, result, request>>
        /\ isDisturbed => isDisturbed'
        /\ pc' # "settled"
    BY <1>1 DEF StartAttempt, Crash, PassCheckpoint, RecordClaim, Receive, ConfirmAtOnce, Continues, Notes
  <2> QED
    BY <2>1, OutcomeKept DEF MayBeProcessed
<1>2. CASE SessionFails
  <2>1. PICK outcome \in profile.sessionFailures : Ends("unopened", outcome, FALSE)
    BY <1>2 DEF SessionFails
  <2>2. outcome \in Branches \union {"retry"} /\ outcome # "accepted"
    BY <1>0, ProfileTypes DEF IInv, SettlesOnProof
  <2> QED
    BY <1>2, <2>1, <2>2, EndsTrue DEF SessionFails
<1>3. CASE FindCheckpoint
  <2>1. PICK b \in BOOLEAN :
          IF profile.readsBack THEN Continues("readBack", b) ELSE Returns("uncertain", b)
    BY <1>3 DEF FindCheckpoint
  <2>2. CASE Continues("readBack", b)
    BY <2>2, <1>3, OutcomeKept DEF FindCheckpoint, Continues, Notes, MayBeProcessed
  <2>3. CASE Returns("uncertain", b)
    BY <2>3, <1>3, EndsTrue DEF FindCheckpoint, Returns, Branches
  <2> QED
    BY <2>1, <2>2, <2>3
<1>4. CASE PreparationFails \/ ClaimFails \/ CredentialsFail
  <2>1. AllForgotten
    BY <1>4 DEF PreparationFails, ClaimFails, CredentialsFail, IInv, SendRule
  <2>2. PICK o \in {"retry", "defect", "rejected"}, b \in BOOLEAN : Returns(o, b)
    BY <1>4 DEF PreparationFails, ClaimFails, CredentialsFail, Releases
  <2>3. UNCHANGED request
    BY <1>4 DEF PreparationFails, ClaimFails, CredentialsFail
  <2> QED
    BY <2>1, <2>2, <2>3, EndsTrue DEF Returns, Branches
<1>5. CASE Send
  <2>1. /\ UNCHANGED <<profile, result>> /\ pc' = "sent" /\ (isDisturbed => isDisturbed')
        /\ pc = "claimed" /\ request' = [request EXCEPT ![attempt] = "inFlight"]
    BY <1>5 DEF Send, Continues, Notes
  <2>2. \A n \in Attempts : request[n] = "processed" => request'[n] = "processed"
    BY <2>1 DEF IInv, FreshRule, TypeOK
  <2> QED
    BY <2>1, <2>2, OutcomeKept
<1>6. CASE ReportAccepted
  <2>1. request[attempt] = "processed" /\ attempt \in Attempts
    BY <1>6, ProfileTypes DEF ReportAccepted, IInv, AnswerRule, TypeOK
  <2> QED
    BY <2>1, <1>6, EndsTrue DEF ReportAccepted, Returns, Branches
<1>7. CASE ClearAndRetry \/ KeepClaim \/ ReturnUncertain \/ LookFindsSeveral
  <2>1. PICK o \in {"retry", "uncertain"}, b \in BOOLEAN : Returns(o, b)
    BY <1>7 DEF ClearAndRetry, KeepClaim, ReturnUncertain, LookFindsSeveral, Releases
  <2> QED
    BY <2>1, <1>7, EndsTrue DEF ClearAndRetry, KeepClaim, ReturnUncertain, LookFindsSeveral, Returns, Branches
<1>8. CASE ReturnRejected
  <2>1. answer \in profile.refusals
    BY <1>0, <1>8 DEF ReturnRejected, SettlesOnProof
  <2>2. AllForgotten
    BY <2>1, <1>8, RefusedAnswer DEF ReturnRejected
  <2>3. PICK o \in {"defect", "rejected"} : Returns(o, FALSE)
    BY <1>8 DEF ReturnRejected
  <2> QED
    BY <2>2, <2>3, <1>8, EndsTrue DEF ReturnRejected, Returns, Branches
<1>9. CASE ReadBackFinds
  <2>1. pc = "readBack" => isDisturbed
    BY DEF CauseInv, Undisturbed
  <2> QED
    BY <2>1, <1>9, EndsTrue DEF ReadBackFinds, IsLooking, Returns, Branches
<1>10. CASE ReadBackFails
  <2>1. PICK outcome \in profile.unresolved : Returns(outcome, FALSE)
    BY <1>10 DEF ReadBackFails
  <2>2. outcome \in Branches \union {"retry"} /\ outcome \notin {"accepted", "rejected", "defect"}
    BY <1>0, ProfileTypes DEF IInv, SettlesOnProof
  <2> QED
    BY <1>10, <2>1, <2>2, EndsTrue DEF ReadBackFails, Returns
<1>11. CASE Provider
  <2>1. PICK n \in Attempts, fate \in {"processed", "refused"} :
          request[n] = "inFlight" /\ request' = [request EXCEPT ![n] = fate]
    BY <1>11 DEF Provider
  <2>2. \A k \in Attempts : MayBeProcessed(k)' => MayBeProcessed(k)
    BY <2>1 DEF MayBeProcessed, IInv, TypeOK
  <2>3. \A k \in Attempts : request[k] = "processed" => request'[k] = "processed"
    BY <2>1 DEF IInv, TypeOK
  <2> QED
    BY <2>2, <2>3, <1>11, OutcomeKept DEF Provider
<1>12. CASE UNCHANGED vars
  BY <1>12, OutcomeKept DEF vars, MayBeProcessed
<1> QED
  BY <1>1, <1>2, <1>3, <1>4, <1>5, <1>6, <1>7, <1>8, <1>9, <1>10, <1>11, <1>12
     DEF Next, Dex, Preparation, Classification

\* A definite branch is true of every attempt, except for what a lost claim hides and a
\* search by content confuses, for any number of attempts and any operations that clear
\* and settle on proof and doubt only on trouble.
THEOREM MarkedOutcomesAreTrue ==
    ASSUME AllClearOnProof, \A p \in Profiles : SettlesOnProof(p) /\ DoubtsOnTrouble(p)
    PROVE  Spec => []HonestOutcome
<1>1. Init => HonestOutcome
  BY DEF Init, HonestOutcome
<1>2. IInv /\ CauseInv /\ HonestOutcome /\ [Next]_vars => HonestOutcome'
  BY StepOutcome
<1>3. Spec => []CauseInv
  BY MarkedCause
<1> QED
  BY <1>1, <1>2, <1>3, MarkedInvariant, PTL DEF Spec
-----------------------------------------------------------------------------
\* The three rules of a classification table.
KeepsRules(p) == ClearsOnProof(p) /\ SettlesOnProof(p) /\ DoubtsOnTrouble(p)

\* Every operation of MarkedProfiles takes its claim back and settles only on proof, and
\* doubts only on trouble (their classification of answers, and what they return when
\* credentials or a search fail).
THEOREM OperationsKeepRules == \A p \in MarkedWrites : KeepsRules(p)
<1> USE DEF KeepsRules, ClearsOnProof, SettlesOnProof, DoubtsOnTrouble, MarkedRefusals
<1>1. KeepsRules(zoho_createTicket)
  BY DEF zoho_createTicket
<1>2. KeepsRules(freshdesk_createTicket)
  BY DEF freshdesk_createTicket, zoho_createTicket
<1>3. KeepsRules(jsm_createTicket)
  BY DEF jsm_createTicket, zoho_createTicket
<1>4. KeepsRules(gorgias_createTicket)
  BY DEF gorgias_createTicket, zoho_createTicket
<1>5. KeepsRules(docusign_createEnvelope)
  BY DEF docusign_createEnvelope, gorgias_createTicket, zoho_createTicket
<1>6. KeepsRules(mailchimp_sendCampaign)
  BY DEF mailchimp_sendCampaign, zoho_createTicket
<1>7. KeepsRules(intercom_replyToConversation)
  BY DEF intercom_replyToConversation, gorgias_createTicket, zoho_createTicket
<1>8. KeepsRules(clickup_createTask)
  BY DEF clickup_createTask, gorgias_createTicket, zoho_createTicket
<1>9. KeepsRules(confluence_addComment)
  BY DEF confluence_addComment, clickup_createTask, gorgias_createTicket, zoho_createTicket
<1>10. KeepsRules(excel_appendTableRows)
  BY DEF excel_appendTableRows, zoho_createTicket
<1>11. KeepsRules(email_sendMessage)
  BY DEF email_sendMessage, zoho_createTicket
<1> HIDE DEF KeepsRules
<1> QED
  BY <1>1, <1>2, <1>3, <1>4, <1>5, <1>6, <1>7, <1>8, <1>9, <1>10, <1>11 DEF MarkedWrites

\* What the rules say of any set of the modelled operations.
LEMMA ModelledOperations ==
    ASSUME Profiles \subseteq MarkedWrites
    PROVE  /\ AllClearOnProof
           /\ \A p \in Profiles : SettlesOnProof(p) /\ DoubtsOnTrouble(p)
BY OperationsKeepRules DEF KeepsRules, AllClearOnProof

\* The modelled operations write a second time only after they lost the claim of the
\* first, for any number of attempts and any loss of heartbeats.
THEOREM OperationsWriteOnce ==
    ASSUME Profiles \subseteq MarkedWrites
    PROVE  Spec => []AtMostOneWrite
BY ModelledOperations, MarkedWritesOnce

\* The operations whose checkpoints name the attempt that may send never write twice,
\* whichever heartbeats are lost.
THEOREM NumberedOperationsNeverWriteTwice ==
    ASSUME Profiles \subseteq NumberedWrites
    PROVE  Spec => []NeverTwice
<1>1. \A p \in NumberedWrites : p \in MarkedWrites /\ p.isNumbered
  BY DEF NumberedWrites, MarkedWrites, freshdesk_createTicket, jsm_createTicket, zoho_createTicket
<1>2. TypeOK /\ AtMostOneWrite => NeverTwice
  <2> SUFFICES ASSUME TypeOK, AtMostOneWrite, NEW n \in Attempts, NEW k \in Attempts,
                      MayBeProcessed(n), MayBeProcessed(k), n # k
               PROVE  FALSE
    BY DEF NeverTwice
  <2>1. profile.isNumbered
    BY <1>1 DEF TypeOK
  <2>2. n < k \/ k < n
    BY AttemptTypes
  <2> QED
    BY <2>1, <2>2 DEF AtMostOneWrite
<1>3. Profiles \subseteq MarkedWrites
  BY <1>1
<1>4. Spec => []AtMostOneWrite /\ []TypeOK
  BY <1>3, ModelledOperations, MarkedWritesOnce, MarkedTypeCorrect
<1> QED
  BY <1>2, <1>4, PTL

\* The modelled operations report the truth, except for what a lost claim hides and a
\* search by content confuses, for any number of attempts.
THEOREM OperationsOutcomesAreTrue ==
    ASSUME Profiles \subseteq MarkedWrites
    PROVE  Spec => []HonestOutcome
BY ModelledOperations, MarkedOutcomesAreTrue

\* The modelled operations select uncertain only after something went wrong, for any
\* number of attempts.
THEOREM OperationsUncertaintyHasCause ==
    ASSUME Profiles \subseteq MarkedWrites
    PROVE  Spec => []UncertaintyHasCause
BY ModelledOperations, MarkedUncertaintyHasCause
=============================================================================
