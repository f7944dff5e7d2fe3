-------------------------- MODULE OutlookDraftSend --------------------------
(***************************************************************************)
(* sendMessage and replyToMessage of the Outlook Mail connector            *)
(* (microsoft_outlook_mail/draft_send.py): one message is sent through a   *)
(* draft that carries a marker, under a heartbeat checkpoint of its own    *)
(* (not the single-dispatch fence).                                        *)
(*                                                                         *)
(* Attempts of the Step follow one another; an attempt ends by returning,  *)
(* by a crash or by a time-out that cancels its task, and a request it     *)
(* left behind may take effect at any later time.  A draft is named by the *)
(* attempt whose POST created it.  The marker lookup is taken to be        *)
(* consistent.                                                             *)
(***************************************************************************)
EXTENDS Integers, Sequences, FiniteSets

CONSTANTS MaxAttempt,       \* bound on the attempts Dex makes of the Step
          LosesHeartbeats   \* a crash may lose a heartbeat that was not persisted yet

ASSUME OutlookAssumption == MaxAttempt \in Nat \ {0} /\ LosesHeartbeats \in BOOLEAN

Attempts == 1 .. MaxAttempt

MaximumSendConfirmations == 3

\* None, and the phases draftReady and sendDispatched with their draft.
NoCheckpoint == [phase |-> "none", draft |-> 0, confirmations |-> 0]

Checkpoint(phase, d, n) == [phase |-> phase, draft |-> d, confirmations |-> n]

VARIABLES
    isReply,      \* replyToMessage rather than sendMessage
    attempt,      \* the running attempt, or the last one
    pc,           \* where it is
    draft,        \* the draft it works on
    checkpoint,   \* the Step's heartbeat value at Dex
    persisted,    \* the part of it that a crash cannot lose
    hasLostHeartbeat,  \* history: a crash did lose one
    result,       \* the branch the Step took
    cause,        \* history: where that branch was decided
    creation,     \* Graph's side of each attempt's POST of a draft
    created,      \* history: the drafts in the order of their creation
    marking,      \* Graph's side of the PATCH that marks each reply draft
    marked,       \* drafts that carry the marker
    sending,      \* Graph's side of each attempt's POST /send
    target,       \* the draft of that request
    submitted,    \* drafts that Graph accepted for sending
    sent          \* submitted drafts that have moved to Sent Items

dexVars == <<attempt, result, cause>>
heartbeatVars == <<checkpoint, persisted, hasLostHeartbeat>>
graphVars == <<creation, created, marking, marked, sending, target, submitted, sent>>
vars == <<isReply, dexVars, pc, draft, heartbeatVars, graphVars>>

Init ==
    /\ isReply \in BOOLEAN
    /\ attempt = 1
    /\ pc = "start"
    /\ draft = 0
    /\ checkpoint = NoCheckpoint
    /\ persisted = NoCheckpoint
    /\ hasLostHeartbeat = FALSE
    /\ result = "none"
    /\ cause = "none"
    /\ creation = [a \in Attempts |-> "none"]
    /\ created = <<>>
    /\ marking = [a \in Attempts |-> "none"]
    /\ marked = {}
    /\ sending = [a \in Attempts |-> "none"]
    /\ target = [a \in Attempts |-> 0]
    /\ submitted = {}
    /\ sent = {}
-----------------------------------------------------------------------------
(* Dex.                                                                    *)

\* The heartbeat stream reaches the server some time after heartbeat returned.
Persist ==
    /\ persisted # checkpoint
    /\ persisted' = checkpoint
    /\ UNCHANGED <<isReply, dexVars, pc, draft, checkpoint, hasLostHeartbeat, graphVars>>

StartAttempt ==
    /\ pc = "retry"
    /\ attempt < MaxAttempt
    /\ attempt' = attempt + 1
    /\ pc' = "start"
    /\ draft' = 0
    /\ UNCHANGED <<isReply, result, cause, heartbeatVars, graphVars>>

\* The worker dies, or the attempt times out and its task is cancelled.
Crash ==
    /\ pc \notin {"retry", "settled"}
    /\ pc' = "retry"
    /\ checkpoint' \in {checkpoint} \union (IF LosesHeartbeats THEN {persisted} ELSE {})
    /\ persisted' = checkpoint'
    /\ hasLostHeartbeat' = (hasLostHeartbeat \/ checkpoint' # checkpoint)
    /\ UNCHANGED <<isReply, dexVars, draft, graphVars>>

Goto(label) == pc' = label /\ UNCHANGED <<dexVars, isReply>>

Settles(branch, where) ==
    /\ pc' = "settled"
    /\ result' = branch
    /\ cause' = where
    /\ UNCHANGED <<attempt, isReply>>

\* _record: the heartbeat is acknowledged, or it raises and may have arrived.
Records(c) == checkpoint' = c /\ UNCHANGED <<persisted, hasLostHeartbeat>>

RecordFails(c) == checkpoint' \in {checkpoint, c} /\ UNCHANGED <<persisted, hasLostHeartbeat>>

\* _before_dispatch: what a failed exchange means while nothing was sent.
before_dispatch(outcome, where) ==
    \/ outcome \in {"retry", "ambiguous", "invalid"} /\ Goto("retry")
    \/ outcome = "not_found" /\ Settles(IF isReply THEN "notFound" ELSE "providerRejected", where)
    \/ outcome = "rejected" /\ Settles("providerRejected", where)
    \/ outcome = "defect" /\ Settles("defect", where)

FailedOutcomes == {"retry", "ambiguous", "invalid", "not_found", "rejected", "defect"}
-----------------------------------------------------------------------------
(* _send_draft_once.                                                       *)

\* The checkpoint of an earlier attempt cannot be read.
CheckpointUnreadable ==
    /\ pc = "start"
    /\ checkpoint # NoCheckpoint
    /\ Settles("uncertain", "checkpoint")
    /\ UNCHANGED <<draft, heartbeatVars, graphVars>>

\* Credentials are resolved before the checkpoint's phase is looked at.
SessionFails ==
    /\ pc = "start"
    /\ \E outcome \in {"retry", "rejected", "defect"} : before_dispatch(outcome, "session")
    /\ UNCHANGED <<draft, heartbeatVars, graphVars>>

\* Mutant: a dispatched send is treated like a draft that is ready.
OpenSession_ForgetsDispatch ==
    /\ pc = "start"
    /\ Goto(IF checkpoint = NoCheckpoint THEN "find" ELSE "readDraft")
    /\ draft' = checkpoint.draft
    /\ UNCHANGED <<heartbeatVars, graphVars>>

OpenSession ==
    /\ pc = "start"
    /\ Goto(CASE checkpoint.phase = "sendDispatched" -> "confirm"
              [] checkpoint.phase = "draftReady" -> "readDraft"
              [] OTHER -> "find")
    /\ draft' = checkpoint.draft
    /\ UNCHANGED <<heartbeatVars, graphVars>>

\* A read of one draft by its immutable ID finds it until somebody deletes it.
ReadDraft ==
    /\ pc = "readDraft"
    /\ IF draft \in sent THEN Settles("sent", "readDraft") ELSE Goto("dispatch")
    /\ UNCHANGED <<draft, heartbeatVars, graphVars>>

ReadDraftFails ==
    /\ pc = "readDraft"
    /\ \/ Goto("find")
       \/ \E outcome \in FailedOutcomes \ {"not_found"} : before_dispatch(outcome, "readDraft")
    /\ UNCHANGED <<draft, heartbeatVars, graphVars>>

\* Mutant: any answer about the draft counts as a confirmation.
ConfirmSent_AnyAnswer ==
    /\ pc = "confirm"
    /\ Settles("sent", "confirm")
    /\ UNCHANGED <<draft, heartbeatVars, graphVars>>

\* _confirm_dispatched: the draft shows as sent.
ConfirmSent ==
    /\ pc = "confirm"
    /\ draft \in sent
    /\ Settles("sent", "confirm")
    /\ UNCHANGED <<draft, heartbeatVars, graphVars>>

\* Mutant: a dispatched send that is not confirmed is sent again.
ConfirmLater_Resends ==
    /\ pc = "confirm"
    /\ Goto("dispatch")
    /\ UNCHANGED <<draft, heartbeatVars, graphVars>>

\* It does not yet, or the read fails: a later attempt reads again.
ConfirmLater ==
    /\ pc = "confirm"
    /\ checkpoint.confirmations + 1 < MaximumSendConfirmations
    /\ Records(Checkpoint("sendDispatched", draft, checkpoint.confirmations + 1))
    /\ Goto("retry")
    /\ UNCHANGED <<draft, graphVars>>

ConfirmGivesUp ==
    /\ pc = "confirm"
    /\ IF checkpoint.confirmations + 1 < MaximumSendConfirmations
       THEN RecordFails(Checkpoint("sendDispatched", draft, checkpoint.confirmations + 1))
       ELSE UNCHANGED heartbeatVars
    /\ Settles("uncertain", "confirm")
    /\ UNCHANGED <<draft, graphVars>>
-----------------------------------------------------------------------------
(* _find_create_send.                                                      *)

Marked(d) == d \in marked

\* _find_marked_draft prefers a sent copy, then the draft that was created first.
FindSent ==
    /\ pc = "find"
    /\ \E d \in marked : d \in sent
    /\ Settles("sent", "find")
    /\ UNCHANGED <<draft, heartbeatVars, graphVars>>

FindDraft ==
    /\ pc = "find"
    /\ marked \cap sent = {}
    /\ marked # {}
    /\ draft' = SelectSeq(created, Marked)[1]
    /\ Goto("dispatch")
    /\ UNCHANGED <<heartbeatVars, graphVars>>

FindFails ==
    /\ pc = "find"
    /\ \E outcome \in FailedOutcomes : before_dispatch(outcome, "find")
    /\ UNCHANGED <<draft, heartbeatVars, graphVars>>

\* Nothing carries the marker: POST /messages, createReply or createReplyAll.
PostDraft ==
    /\ pc = "find"
    /\ marked = {}
    /\ creation' = [creation EXCEPT ![attempt] = "inFlight"]
    /\ Goto("create")
    /\ UNCHANGED <<draft, heartbeatVars, created, marking, marked, sending, target, submitted, sent>>

\* The draft was created. Its checkpoint is recorded at best effort.
DraftCreated ==
    /\ pc = "create"
    /\ creation[attempt] = "applied"
    /\ draft' = attempt
    /\ Records(Checkpoint("draftReady", attempt, 0)) \/ RecordFails(Checkpoint("draftReady", attempt, 0))
    /\ Goto(IF isReply THEN "mark" ELSE "dispatch")
    /\ UNCHANGED graphVars

\* A reply draft whose answer is unusable, or that has nobody to reply to, is given up.
DraftUnusable ==
    /\ pc = "create"
    /\ creation[attempt] = "applied"
    /\ before_dispatch(IF isReply THEN "rejected" ELSE "invalid", "create")
    /\ UNCHANGED <<draft, heartbeatVars, graphVars>>

CreateFails ==
    /\ pc = "create"
    /\ \E outcome \in FailedOutcomes \ {"invalid"} :
          /\ outcome # "ambiguous" => creation[attempt] = "refused"
          /\ before_dispatch(outcome, "create")
    /\ UNCHANGED <<draft, heartbeatVars, graphVars>>

\* Only a reply draft is marked by a PATCH of its own.
PatchMarker ==
    /\ pc = "mark"
    /\ marking' = [marking EXCEPT ![attempt] = "inFlight"]
    /\ Goto("marking")
    /\ UNCHANGED <<draft, heartbeatVars, creation, created, marked, sending, target, submitted, sent>>

MarkerPatched ==
    /\ pc = "marking"
    /\ marking[attempt] = "applied"
    /\ Goto("dispatch")
    /\ UNCHANGED <<draft, heartbeatVars, graphVars>>

PatchFails ==
    /\ pc = "marking"
    /\ \/ Goto("retry")
       \/ \E outcome \in {"rejected", "defect"} :
             marking[attempt] = "refused" /\ before_dispatch(outcome, "mark")
    /\ UNCHANGED <<draft, heartbeatVars, graphVars>>
-----------------------------------------------------------------------------
(* _dispatch.                                                              *)

\* The claim is recorded and the request leaves; a crash in between leaves no request.
PostSend ==
    /\ pc = "dispatch"
    /\ Records(Checkpoint("sendDispatched", draft, 0))
    /\ \/ /\ sending' = [sending EXCEPT ![attempt] = "inFlight"]
          /\ target' = [target EXCEPT ![attempt] = draft]
          /\ Goto("send")
       \/ Goto("retry") /\ UNCHANGED <<sending, target>>
    /\ UNCHANGED <<draft, creation, created, marking, marked, submitted, sent>>

DispatchUnrecorded ==
    /\ pc = "dispatch"
    /\ RecordFails(Checkpoint("sendDispatched", draft, 0))
    /\ Goto("retry")
    /\ UNCHANGED <<draft, graphVars>>

SendAccepted ==
    /\ pc = "send"
    /\ sending[attempt] = "processed"
    /\ Settles("sent", "send")
    /\ UNCHANGED <<draft, heartbeatVars, graphVars>>

\* Only a refusal returns the checkpoint to the draft, at best effort.
SendRefused ==
    /\ pc = "send"
    /\ sending[attempt] = "refused"
    /\ Records(Checkpoint("draftReady", draft, 0)) \/ RecordFails(Checkpoint("draftReady", draft, 0))
    /\ Goto("retry") \/ Settles("providerRejected", "send")
    /\ UNCHANGED <<draft, graphVars>>

SendAmbiguous ==
    /\ pc = "send"
    /\ Goto("retry")
    /\ UNCHANGED <<draft, heartbeatVars, graphVars>>
-----------------------------------------------------------------------------
(* Microsoft Graph (external). A request in flight is applied or refused   *)
(* at any time; one that is never answered stays in flight.                *)

GraphCreates(a) ==
    /\ creation[a] = "inFlight"
    /\ creation' = [creation EXCEPT ![a] = "applied"]
    /\ created' = Append(created, a)
    /\ marked' = IF isReply THEN marked ELSE marked \union {a}
    /\ UNCHANGED <<isReply, dexVars, pc, draft, heartbeatVars, marking, sending, target, submitted, sent>>

GraphMarks(a) ==
    /\ marking[a] = "inFlight"
    /\ marking' = [marking EXCEPT ![a] = "applied"]
    /\ marked' = marked \union {a}
    /\ UNCHANGED <<isReply, dexVars, pc, draft, heartbeatVars, creation, created, sending, target, submitted, sent>>

GraphSends(a) ==
    /\ sending[a] = "inFlight"
    /\ sending' = [sending EXCEPT ![a] = "processed"]
    /\ submitted' = submitted \union {target[a]}
    /\ UNCHANGED <<isReply, dexVars, pc, draft, heartbeatVars, creation, created, marking, marked, target, sent>>

GraphRefuses(a) ==
    /\ \/ /\ creation[a] = "inFlight"
          /\ creation' = [creation EXCEPT ![a] = "refused"]
          /\ UNCHANGED <<marking, sending>>
       \/ /\ marking[a] = "inFlight"
          /\ marking' = [marking EXCEPT ![a] = "refused"]
          /\ UNCHANGED <<creation, sending>>
       \/ /\ sending[a] = "inFlight"
          /\ sending' = [sending EXCEPT ![a] = "refused"]
          /\ UNCHANGED <<creation, marking>>
    /\ UNCHANGED <<isReply, dexVars, pc, draft, heartbeatVars, created, marked, target, submitted, sent>>

\* A submitted draft becomes the copy in Sent Items under the same ID.
GraphMovesToSentItems(d) ==
    /\ d \in submitted \ sent
    /\ sent' = sent \union {d}
    /\ UNCHANGED <<isReply, dexVars, pc, draft, heartbeatVars, creation, created, marking, marked, sending, target, submitted>>
-----------------------------------------------------------------------------
Resume ==
    \/ CheckpointUnreadable
    \/ SessionFails
    \/ OpenSession
    \/ ReadDraft
    \/ ReadDraftFails
    \/ ConfirmSent
    \/ ConfirmLater
    \/ ConfirmGivesUp

FindOrCreate ==
    \/ FindSent
    \/ FindDraft
    \/ FindFails
    \/ PostDraft
    \/ DraftCreated
    \/ DraftUnusable
    \/ CreateFails
    \/ PatchMarker
    \/ MarkerPatched
    \/ PatchFails

Dispatch ==
    \/ PostSend
    \/ DispatchUnrecorded
    \/ SendAccepted
    \/ SendRefused
    \/ SendAmbiguous

Graph(a) ==
    \/ GraphCreates(a)
    \/ GraphMarks(a)
    \/ GraphSends(a)
    \/ GraphRefuses(a)
    \/ GraphMovesToSentItems(a)

Next ==
    \/ Persist
    \/ StartAttempt
    \/ Crash
    \/ Resume
    \/ FindOrCreate
    \/ Dispatch
    \/ \E a \in Attempts : Graph(a)

Spec == Init /\ [][Next]_vars
-----------------------------------------------------------------------------
Requests == {"none", "inFlight", "applied", "refused"}

CheckpointType ==
    [phase : {"none", "draftReady", "sendDispatched"}, draft : 0 .. MaxAttempt,
     confirmations : 0 .. MaximumSendConfirmations - 1]

\* Every variable has its type; a checkpoint counts fewer than three confirmations.
TypeOK ==
    /\ isReply \in BOOLEAN
    /\ attempt \in Attempts
    /\ pc \in {"start", "readDraft", "confirm", "find", "create", "mark", "marking", "dispatch",
               "send", "retry", "settled"}
    /\ draft \in 0 .. MaxAttempt
    /\ checkpoint \in CheckpointType
    /\ persisted \in CheckpointType
    /\ hasLostHeartbeat \in BOOLEAN
    /\ result \in {"none", "sent", "notFound", "providerRejected", "uncertain", "defect"}
    /\ creation \in [Attempts -> Requests]
    /\ created \in Seq(Attempts)
    /\ marking \in [Attempts -> Requests]
    /\ marked \subseteq Attempts
    /\ sending \in [Attempts -> {"none", "inFlight", "processed", "refused"}]
    /\ target \in [Attempts -> 0 .. MaxAttempt]
    /\ submitted \subseteq Attempts
    /\ sent \subseteq submitted

MaySend(a) == sending[a] \in {"inFlight", "processed"}

\* At most one POST /send is accepted or may still be, whatever crashes and whichever
\* answers are lost, unless a crash took a heartbeat with it: sendDispatched is recorded
\* before the request, and only a refusal or an unsent request takes it back.
AtMostOneSend ==
    ~hasLostHeartbeat => \A a, b \in Attempts : MaySend(a) /\ MaySend(b) => a = b

\* The message goes out of one draft only, even when an answer to a draft creation was
\* lost and a second draft exists (_find_marked_draft, the draft ID in the checkpoint).
OneDraftIsSent == \A a, b \in Attempts : MaySend(a) /\ MaySend(b) => target[a] = target[b]

\* A branch that says the message was not sent, decided by an answer of Graph, is true:
\* no send of this Step is accepted or may still be, under the same condition.
RefusalIsTrue ==
    /\ result \in {"notFound", "providerRejected", "defect"}
    /\ cause # "session"
    /\ ~hasLostHeartbeat
    => \A a \in Attempts : ~MaySend(a)

\* The branch sent is true, also when a later attempt reports what an earlier one did.
SentIsTrue == result = "sent" => submitted # {}

\* The same of every branch that says so ("; nothing was sent"), whatever decided it.
NothingWasSent ==
    result \in {"notFound", "providerRejected", "defect"} => \A a \in Attempts : ~MaySend(a)

\* A lost answer to the draft creation never creates a second draft of a new message.
OneDraft == ~isReply => Cardinality({a \in Attempts : creation[a] = "applied"}) <= 1
=============================================================================
