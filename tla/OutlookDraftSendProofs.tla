----------------------- MODULE OutlookDraftSendProofs -----------------------
(***************************************************************************)
(* What the branches of sendMessage and replyToMessage say is true, and    *)
(* at most one POST /send is or may be accepted, for any number of         *)
(* attempts.                                                               *)
(*                                                                         *)
(* The argument: as long as no crash took a heartbeat with it, a send that *)
(* was or may be accepted is covered by the checkpoint sendDispatched, and *)
(* an attempt that looks for, creates, marks or dispatches a draft found   *)
(* another checkpoint.  Only a refusal takes the checkpoint back, and then *)
(* the refused request was the only one.                                   *)
(***************************************************************************)
EXTENDS OutlookDraftSend, TLAPS

\* What the proofs need of the variables' types.
BasicType ==
    /\ attempt \in Attempts
    /\ sending \in [Attempts -> {"none", "inFlight", "processed", "refused"}]

\* Steps of an attempt that has not sent its draft.
BeforeSend == {"find", "readDraft", "create", "mark", "marking", "dispatch"}

NothingMaySend == \A a \in Attempts : ~MaySend(a)

\* While no heartbeat is lost, the checkpoint covers every send.
SendIsCovered ==
    ~hasLostHeartbeat =>
        /\ \A a \in Attempts : MaySend(a) => checkpoint.phase = "sendDispatched"
        /\ pc \in BeforeSend => NothingMaySend
        /\ pc = "send" => \A a \in Attempts : MaySend(a) => a = attempt
        /\ \A a, b \in Attempts : MaySend(a) /\ MaySend(b) => a = b

\* What moved to Sent Items, or was processed, was submitted.
SubmissionIsKept ==
    /\ sent # {} => submitted # {}
    /\ \A a \in Attempts : sending[a] = "processed" => submitted # {}

Inv ==
    /\ BasicType
    /\ SendIsCovered
    /\ SubmissionIsKept
    /\ result # "none" => pc = "settled"
    /\ SentIsTrue
    /\ RefusalIsTrue

\* The first state satisfies the invariant.
LEMMA InvInit == ASSUME Init PROVE Inv
<1>1. BasicType
  BY OutlookAssumption DEF Init, BasicType, Attempts
<1>2. \A a \in Attempts : ~MaySend(a) /\ sending[a] # "processed"
  BY DEF Init, MaySend
<1> QED BY <1>1, <1>2 DEF Init, Inv, SendIsCovered, NothingMaySend, SubmissionIsKept, SentIsTrue, RefusalIsTrue

\* A step that leaves the sends, the checkpoint and the result alone, and turns to a label
\* that needs no more than the label it comes from.
LEMMA QuietStep ==
    ASSUME Inv, UNCHANGED <<dexVars, sending, submitted, sent, hasLostHeartbeat>>,
           checkpoint'.phase = checkpoint.phase, pc # "settled",
           pc' \in BeforeSend => pc \in BeforeSend,
           pc' \notin {"send", "settled"}
    PROVE  Inv'
  BY DEF Inv, BasicType, SendIsCovered, NothingMaySend, SubmissionIsKept, SentIsTrue, RefusalIsTrue,
         MaySend, dexVars, BeforeSend

\* The Step settles on a branch that says nothing, or that nothing was sent.
LEMMA SettlingStep ==
    ASSUME Inv, NEW branch, NEW where, Settles(branch, where), pc # "settled",
           UNCHANGED <<sending, submitted, sent, hasLostHeartbeat>>,
           hasLostHeartbeat \/ checkpoint'.phase = checkpoint.phase \/ NothingMaySend,
           branch = "sent" => submitted # {},
           branch \in {"notFound", "providerRejected", "defect"} /\ where # "session" /\ ~hasLostHeartbeat
              => NothingMaySend
    PROVE  Inv'
  BY DEF Inv, BasicType, SendIsCovered, NothingMaySend, SubmissionIsKept, SentIsTrue, RefusalIsTrue,
         MaySend, Settles, BeforeSend

\* _before_dispatch tells the truth when nothing can have been sent.
LEMMA BeforeDispatchStep ==
    ASSUME Inv, NEW outcome, NEW where, before_dispatch(outcome, where), pc # "settled",
           UNCHANGED <<heartbeatVars, graphVars>>,
           where # "session" /\ ~hasLostHeartbeat => NothingMaySend
    PROVE  Inv'
<1>1. CASE Goto("retry")
  BY <1>1, QuietStep DEF Goto, heartbeatVars, graphVars, BeforeSend
<1>2. ASSUME NEW branch \in {"notFound", "providerRejected", "defect"}, Settles(branch, where) PROVE Inv'
  BY <1>2, SettlingStep DEF heartbeatVars, graphVars
<1> QED BY <1>1, <1>2 DEF before_dispatch

\* Persisting a heartbeat, a new attempt and a crash preserve the invariant.
LEMMA DexStep == ASSUME Inv, Persist \/ StartAttempt \/ Crash PROVE Inv'
<1>1. CASE Persist
  BY <1>1 DEF Persist, Inv, BasicType, SendIsCovered, NothingMaySend, SubmissionIsKept, SentIsTrue,
         RefusalIsTrue, MaySend, dexVars, graphVars
<1>2. CASE StartAttempt
  BY <1>2, OutlookAssumption DEF StartAttempt, Inv, BasicType, SendIsCovered, NothingMaySend, SubmissionIsKept,
         SentIsTrue, RefusalIsTrue, MaySend, heartbeatVars, graphVars, BeforeSend, Attempts
<1>3. CASE Crash
  BY <1>3 DEF Crash, Inv, BasicType, SendIsCovered, NothingMaySend, SubmissionIsKept, SentIsTrue,
         RefusalIsTrue, MaySend, dexVars, graphVars, BeforeSend
<1> QED BY <1>1, <1>2, <1>3

\* So do the steps in which an attempt acts on the checkpoint it found.
LEMMA ResumeStep == ASSUME Inv, Resume PROVE Inv'
<1>1. CASE CheckpointUnreadable
  BY <1>1, SettlingStep DEF CheckpointUnreadable, heartbeatVars, graphVars
<1>2. CASE SessionFails
  BY <1>2, BeforeDispatchStep DEF SessionFails
<1>3. CASE OpenSession
  <2>1. CASE checkpoint.phase = "sendDispatched"
    BY <1>3, <2>1, QuietStep DEF OpenSession, Goto, heartbeatVars, graphVars, BeforeSend
  <2>2. CASE checkpoint.phase # "sendDispatched"
    <3>1. pc' \in {"readDraft", "find"} /\ UNCHANGED <<dexVars, heartbeatVars, graphVars>> /\ pc = "start"
      BY <1>3, <2>2 DEF OpenSession, Goto
    <3>2. ~hasLostHeartbeat => NothingMaySend
      BY <2>2 DEF Inv, SendIsCovered, NothingMaySend
    <3> QED BY <2>2, <3>1, <3>2 DEF Inv, BasicType, SendIsCovered, NothingMaySend, SubmissionIsKept, SentIsTrue,
            RefusalIsTrue, MaySend, dexVars, heartbeatVars, graphVars, BeforeSend
  <2> QED BY <2>1, <2>2
<1>4. CASE ReadDraft
  <2>1. CASE draft \in sent
    BY <1>4, <2>1, SettlingStep DEF ReadDraft, Inv, SubmissionIsKept, heartbeatVars, graphVars
  <2>2. CASE draft \notin sent
    BY <1>4, <2>2, QuietStep DEF ReadDraft, Goto, heartbeatVars, graphVars, BeforeSend
  <2> QED BY <2>1, <2>2
<1>5. CASE ReadDraftFails
  <2>1. ~hasLostHeartbeat => NothingMaySend
    BY <1>5 DEF ReadDraftFails, Inv, SendIsCovered, BeforeSend
  <2>2. CASE Goto("find")
    BY <1>5, <2>2, QuietStep DEF ReadDraftFails, Goto, heartbeatVars, graphVars, BeforeSend
  <2>3. CASE \E outcome \in FailedOutcomes \ {"not_found"} : before_dispatch(outcome, "readDraft")
    BY <1>5, <2>1, <2>3, BeforeDispatchStep DEF ReadDraftFails
  <2> QED BY <1>5, <2>2, <2>3 DEF ReadDraftFails
<1>6. CASE ConfirmSent
  BY <1>6, SettlingStep DEF ConfirmSent, Inv, SubmissionIsKept, heartbeatVars, graphVars
<1>7. CASE ConfirmLater
  BY <1>7 DEF ConfirmLater, Records, Checkpoint, Goto, Inv, BasicType, SendIsCovered, NothingMaySend,
         SubmissionIsKept, SentIsTrue, RefusalIsTrue, MaySend, dexVars, graphVars, BeforeSend
<1>8. CASE ConfirmGivesUp
  BY <1>8 DEF ConfirmGivesUp, RecordFails, Checkpoint, Settles, Inv, BasicType, SendIsCovered, NothingMaySend,
         SubmissionIsKept, SentIsTrue, RefusalIsTrue, MaySend, heartbeatVars, graphVars, BeforeSend
<1> QED BY <1>1, <1>2, <1>3, <1>4, <1>5, <1>6, <1>7, <1>8 DEF Resume

\* So do the search for the draft and its creation.
LEMMA FindOrCreateStep == ASSUME Inv, FindOrCreate PROVE Inv'
<1>0. pc \in BeforeSend /\ (~hasLostHeartbeat => NothingMaySend)
  BY DEF FindOrCreate, FindSent, FindDraft, FindFails, PostDraft, DraftCreated, DraftUnusable, CreateFails,
         PatchMarker, MarkerPatched, PatchFails, Inv, SendIsCovered, BeforeSend
<1>1. CASE FindSent
  BY <1>1, SettlingStep DEF FindSent, Inv, SubmissionIsKept, heartbeatVars, graphVars
<1>2. CASE FindDraft \/ PostDraft \/ PatchMarker \/ MarkerPatched
  BY <1>2, QuietStep DEF FindDraft, PostDraft, PatchMarker, MarkerPatched, Goto, heartbeatVars, graphVars, BeforeSend
<1>3. CASE FindFails
  BY <1>0, <1>3, BeforeDispatchStep DEF FindFails
<1>4. CASE DraftCreated
  <2>1. /\ pc' \in {"mark", "dispatch"} /\ UNCHANGED <<dexVars, graphVars, hasLostHeartbeat>>
        /\ pc = "create"
    BY <1>4 DEF DraftCreated, Records, RecordFails, Goto
  <2> QED BY <1>0, <2>1 DEF Inv, BasicType, SendIsCovered, NothingMaySend, SubmissionIsKept, SentIsTrue,
          RefusalIsTrue, MaySend, dexVars, graphVars, BeforeSend
<1>5. CASE DraftUnusable
  BY <1>0, <1>5, BeforeDispatchStep DEF DraftUnusable
<1>6. CASE CreateFails
  BY <1>0, <1>6, BeforeDispatchStep DEF CreateFails
<1>7. CASE PatchFails
  <2>1. CASE Goto("retry")
    BY <1>7, <2>1, QuietStep DEF PatchFails, Goto, heartbeatVars, graphVars, BeforeSend
  <2>2. CASE \E outcome \in {"rejected", "defect"} : before_dispatch(outcome, "mark")
    BY <1>0, <1>7, <2>2, BeforeDispatchStep DEF PatchFails
  <2> QED BY <1>7, <2>1, <2>2 DEF PatchFails
<1> QED BY <1>1, <1>2, <1>3, <1>4, <1>5, <1>6, <1>7 DEF FindOrCreate

\* So do the dispatch checkpoint, the send and its answers.
LEMMA DispatchStep == ASSUME Inv, Dispatch PROVE Inv'
<1>1. CASE PostSend
  <2>1. /\ pc = "dispatch" /\ result' = result /\ result = "none"
        /\ UNCHANGED <<dexVars, submitted, sent, hasLostHeartbeat>>
        /\ checkpoint'.phase = "sendDispatched"
    BY <1>1 DEF PostSend, Records, Checkpoint, Goto, dexVars, Inv
  <2>2. ~hasLostHeartbeat => NothingMaySend
    BY <2>1 DEF Inv, SendIsCovered, BeforeSend
  <2>3. CASE pc' = "retry" /\ UNCHANGED sending
    BY <2>1, <2>2, <2>3 DEF Inv, BasicType, SendIsCovered, NothingMaySend, SubmissionIsKept, SentIsTrue,
       RefusalIsTrue, MaySend, dexVars, BeforeSend
  <2>4. CASE pc' = "send" /\ sending' = [sending EXCEPT ![attempt] = "inFlight"]
    <3>1. BasicType'
      BY <2>1, <2>4 DEF Inv, BasicType, dexVars
    <3>2. \A a \in Attempts : a # attempt => sending'[a] = sending[a]
      BY <2>4 DEF Inv, BasicType
    <3>3. sending'[attempt] = "inFlight"
      BY <2>4 DEF Inv, BasicType
    <3>4. ~hasLostHeartbeat => \A a \in Attempts : MaySend(a)' => a = attempt
      BY <2>2, <3>2 DEF NothingMaySend, MaySend
    <3>5. SendIsCovered'
      BY <2>1, <2>4, <3>4 DEF SendIsCovered, BeforeSend, dexVars, MaySend
    <3>6. SubmissionIsKept'
      BY <2>1, <3>2, <3>3 DEF Inv, SubmissionIsKept
    <3> QED BY <2>1, <3>1, <3>5, <3>6 DEF Inv, SentIsTrue, RefusalIsTrue
  <2> QED BY <1>1, <2>3, <2>4 DEF PostSend, Goto
<1>2. CASE DispatchUnrecorded
  <2>1. pc = "dispatch" /\ pc' = "retry" /\ UNCHANGED <<dexVars, graphVars, hasLostHeartbeat>>
    BY <1>2 DEF DispatchUnrecorded, RecordFails, Goto
  <2>2. ~hasLostHeartbeat => NothingMaySend
    BY <2>1 DEF Inv, SendIsCovered, BeforeSend
  <2> QED BY <2>1, <2>2 DEF Inv, BasicType, SendIsCovered, NothingMaySend, SubmissionIsKept, SentIsTrue,
          RefusalIsTrue, MaySend, dexVars, graphVars, BeforeSend
<1>3. CASE SendAccepted
  <2>1. submitted # {}
    BY <1>3 DEF SendAccepted, Inv, BasicType, SubmissionIsKept
  <2> QED BY <1>3, <2>1, SettlingStep DEF SendAccepted, heartbeatVars, graphVars
<1>4. CASE SendRefused
  <2>1. pc = "send" /\ UNCHANGED <<graphVars, hasLostHeartbeat>>
    BY <1>4 DEF SendRefused, Records, RecordFails
  <2>2. ~hasLostHeartbeat => NothingMaySend
    BY <1>4, <2>1 DEF SendRefused, Inv, BasicType, SendIsCovered, NothingMaySend, MaySend
  <2>3. CASE Goto("retry")
    BY <2>1, <2>2, <2>3 DEF Goto, Inv, BasicType, SendIsCovered, NothingMaySend, SubmissionIsKept, SentIsTrue,
       RefusalIsTrue, MaySend, dexVars, graphVars, BeforeSend
  <2>4. CASE Settles("providerRejected", "send")
    BY <2>1, <2>2, <2>4, SettlingStep DEF graphVars
  <2> QED BY <1>4, <2>3, <2>4 DEF SendRefused
<1>5. CASE SendAmbiguous
  BY <1>5, QuietStep DEF SendAmbiguous, Goto, heartbeatVars, graphVars, BeforeSend
<1> QED BY <1>1, <1>2, <1>3, <1>4, <1>5 DEF Dispatch

\* Graph accepts no send that the checkpoint does not cover: it can only decide what is in
\* flight, and what it submits is kept.
LEMMA GraphStep == ASSUME Inv, NEW a \in Attempts, Graph(a) PROVE Inv'
<1>0. UNCHANGED <<dexVars, pc, heartbeatVars>>
  BY DEF Graph, GraphCreates, GraphMarks, GraphSends, GraphRefuses, GraphMovesToSentItems
<1>1. \/ UNCHANGED <<sending, submitted>>
      \/ sending[a] = "inFlight" /\ sending' = [sending EXCEPT ![a] = "refused"] /\ submitted' = submitted
      \/ sending[a] = "inFlight" /\ sending' = [sending EXCEPT ![a] = "processed"] /\ submitted' # {}
  BY DEF Graph, GraphCreates, GraphMarks, GraphSends, GraphRefuses, GraphMovesToSentItems
<1>2. sent' # {} => submitted' # {}
  BY DEF Graph, GraphCreates, GraphMarks, GraphSends, GraphRefuses, GraphMovesToSentItems, Inv, SubmissionIsKept
<1>3. submitted # {} => submitted' # {}
  BY <1>1
<1>4. BasicType'
  BY <1>0, <1>1 DEF Inv, BasicType, dexVars
<1>5. \A b \in Attempts : MaySend(b)' => MaySend(b)
  BY <1>1 DEF Inv, BasicType, MaySend
<1>6. SendIsCovered'
  BY <1>0, <1>5 DEF Inv, SendIsCovered, NothingMaySend, dexVars, heartbeatVars, MaySend
<1>7. \A b \in Attempts : sending'[b] = "processed" => submitted' # {}
  BY <1>1, <1>3 DEF Inv, BasicType, SubmissionIsKept
<1>8. RefusalIsTrue'
  BY <1>0, <1>5 DEF Inv, RefusalIsTrue, dexVars, heartbeatVars, MaySend
<1> QED BY <1>0, <1>2, <1>3, <1>4, <1>6, <1>7, <1>8 DEF Inv, SubmissionIsKept, SentIsTrue, dexVars

\* Hence every step does.
LEMMA InvStep == ASSUME Inv, [Next]_vars PROVE Inv'
<1>1. CASE UNCHANGED vars
  BY <1>1 DEF vars, Inv, BasicType, SendIsCovered, NothingMaySend, SubmissionIsKept, SentIsTrue, RefusalIsTrue,
     MaySend, dexVars, heartbeatVars, graphVars
<1> QED BY <1>1, DexStep, ResumeStep, FindOrCreateStep, DispatchStep, GraphStep DEF Next

\* The invariant holds in every reachable state.
LEMMA InvHolds == Spec => []Inv
<1>1. Init => Inv
  BY InvInit
<1>2. Inv /\ [Next]_vars => Inv'
  BY InvStep
<1> QED BY <1>1, <1>2, PTL DEF Spec

\* At most one POST /send is accepted or may still be, whatever crashes and whichever
\* answers are lost, unless a crash took a heartbeat with it: _dispatch records
\* sendDispatched before the request, and _confirm_dispatched never sends again.
THEOREM SendIsUnique == Spec => []AtMostOneSend
<1>1. Inv => AtMostOneSend
  BY DEF Inv, SendIsCovered, AtMostOneSend
<1> QED BY <1>1, InvHolds, PTL

\* notFound, providerRejected and defect, decided by an answer of Graph, are true in any
\* attempt: _before_dispatch is only reached when no earlier attempt's send may be accepted.
THEOREM RefusalsAreTrue == Spec => []RefusalIsTrue
<1>1. Inv => RefusalIsTrue
  BY DEF Inv
<1> QED BY <1>1, InvHolds, PTL

\* The branch sent is true, with or without lost heartbeats: Graph has accepted the message
\* that _dispatch, _confirm_dispatched, the read of the draft or the lookup reports as sent.
THEOREM SentsAreTrue == Spec => []SentIsTrue
<1>1. Inv => SentIsTrue
  BY DEF Inv
<1> QED BY <1>1, InvHolds, PTL
=============================================================================
