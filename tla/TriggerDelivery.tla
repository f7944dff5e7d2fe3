--------------------------- MODULE TriggerDelivery --------------------------
(***************************************************************************)
(* Durable Trigger delivery: the webhook endpoint that acknowledges events *)
(* (sdkgo/webhooktrigger/endpoint.go), the runner that replays before it   *)
(* runs its source (sdkgo/trigger.go), the retry loop of DeliverTrigger    *)
(* (sdkgo/trigger_delivery.go) and the durable target that keeps events in *)
(* the inbox (sdkgo/projectconfig/provider/trigger_inbox.go).              *)
(*                                                                         *)
(* Each replica is a process with HTTP request threads and one runner      *)
(* thread; they meet at the durable target's mutex (holder) and at the     *)
(* source's queue.  A replica may crash at any point and lose everything   *)
(* but the inbox object.  DeliverTrigger's loop is the runner thread       *)
(* entering the mutex again with the event it could not deliver.           *)
(***************************************************************************)
EXTENDS TriggerInbox

CONSTANTS
    QueueCapacity,    \* SourceQueueCapacity
    MaxRequests,      \* bound on the webhook requests, first deliveries and redeliveries
    MaxStops          \* bound on how often runners stop and replicas crash

ASSUME DeliveryAssumption ==
    /\ QueueCapacity \in Nat \ {0}
    /\ MaxRequests \in Nat
    /\ MaxStops \in Nat

VARIABLES
    run,              \* the runner: down, starting, replaying, serving
    todo,             \* the pending events ReplayTriggerDeliveries still has to deliver
    current,          \* the event source.Run took from its queue
    holder,           \* who holds durableTriggerTarget.mutex, and how far it is
    pendingRemoval,   \* durableTriggerTarget.pendingRemoval
    queue,            \* source.deliveries
    request,          \* the HTTP request for an event at a replica
    acked,            \* events answered with 200
    consumed,         \* events the Dex target consumed
    received,         \* how many webhook requests were received
    stops             \* how often a runner stopped or a replica crashed

targetVars  == <<holder, pendingRemoval, consumed>>
runnerVars  == <<run, todo, current>>
requestVars == <<queue, request, acked, received>>
vars == <<inboxVars, targetVars, runnerVars, requestVars, stops>>

NoHolder == [by |-> "none", event |-> NoEvent, step |-> "none"]
Holding(by, e, step) == [by |-> by, event |-> e, step |-> step]

Init ==
    /\ InboxInit
    /\ run = [r \in Replicas |-> "down"]
    /\ todo = [r \in Replicas |-> <<>>]
    /\ current = [r \in Replicas |-> NoEvent]
    /\ holder = [r \in Replicas |-> NoHolder]
    /\ pendingRemoval = [r \in Replicas |-> {}]
    /\ queue = [r \in Replicas |-> <<>>]
    /\ request = [r \in Replicas |-> [e \in Events |-> "none"]]
    /\ acked = {}
    /\ consumed = {}
    /\ received = 0
    /\ stops = 0
-----------------------------------------------------------------------------
(* The webhook request: snapshot the running source, record the event in   *)
(* the inbox, queue it, answer 200. Every other exit answers 503.          *)

ReceiveEvent(r, e) ==
    /\ request[r][e] = "none"
    /\ run[r] = "serving"
    /\ received < MaxRequests
    /\ received' = received + 1
    /\ request' = [request EXCEPT ![r][e] = "admitted"]
    /\ UNCHANGED <<inboxVars, targetVars, runnerVars, queue, acked, stops>>

PrepareTrigger(r, e) ==
    /\ request[r][e] = "admitted"
    /\ holder[r] = NoHolder
    /\ holder' = [holder EXCEPT ![r] = Holding("prepare", e, "update")]
    /\ update' = [update EXCEPT ![r] = Starting("Add", e)]
    /\ UNCHANGED <<object, late, headExists, pendingRemoval, consumed, runnerVars, requestVars, stops>>

\* Mutant: an error of the inbox write is logged and dropped.
PrepareOutcome_DropError(ok) == "recorded"

PrepareOutcome(ok) == IF ok THEN "recorded" ELSE "none"

FinishPrepare(r) ==
    LET e == holder[r].event IN
    /\ holder[r].by = "prepare"
    /\ update[r].phase \in {"ok", "failed"}
    /\ request' = [request EXCEPT ![r][e] = PrepareOutcome(update[r].phase = "ok")]
    /\ holder' = [holder EXCEPT ![r] = NoHolder]
    /\ update' = [update EXCEPT ![r] = NoUpdate]
    /\ UNCHANGED <<object, late, headExists, pendingRemoval, consumed, runnerVars, queue, acked, received, stops>>

QueueEvent(r, e) ==
    /\ request[r][e] = "recorded"
    /\ Len(queue[r]) < QueueCapacity
    /\ queue' = [queue EXCEPT ![r] = Append(@, e)]
    /\ acked' = acked \union {e}
    /\ request' = [request EXCEPT ![r][e] = "none"]
    /\ UNCHANGED <<inboxVars, targetVars, runnerVars, received, stops>>

\* The queue is full or the provider hung up: the event stays recorded.
RefuseRecordedEvent(r, e) ==
    /\ request[r][e] = "recorded"
    /\ request' = [request EXCEPT ![r][e] = "none"]
    /\ UNCHANGED <<inboxVars, targetVars, runnerVars, queue, acked, received, stops>>
-----------------------------------------------------------------------------
(* triggerRunner.Run: replay what is pending, then run the source.         *)

StartRun(r) ==
    /\ run[r] = "down"
    /\ run' = [run EXCEPT ![r] = "starting"]
    /\ UNCHANGED <<inboxVars, targetVars, todo, current, requestVars, stops>>

\* Mutant: the runner starts its source without replaying.
ReadReplay_Skip(r) ==
    /\ run[r] = "starting"
    /\ ReadHead(r)
    /\ run' = [run EXCEPT ![r] = "replaying"]
    /\ UNCHANGED <<update, targetVars, todo, current, requestVars, stops>>

\* Mutant: the newest event is replayed first.
ReadReplay_NewestFirst(r) ==
    /\ run[r] = "starting"
    /\ ReadHead(r)
    /\ run' = [run EXCEPT ![r] = "replaying"]
    /\ LET events == Pending(object') IN
       todo' = [todo EXCEPT ![r] = [i \in 1..Len(events) |-> events[Len(events) + 1 - i]]]
    /\ UNCHANGED <<update, targetVars, current, requestVars, stops>>

\* ReplayTriggerDeliveries reads the pending events without the mutex.
ReadReplay(r) ==
    /\ run[r] = "starting"
    /\ ReadHead(r)
    /\ run' = [run EXCEPT ![r] = "replaying"]
    /\ todo' = [todo EXCEPT ![r] = Pending(object')]
    /\ UNCHANGED <<update, targetVars, current, requestVars, stops>>

ReadReplayFails(r) ==
    /\ run[r] = "starting"
    /\ ReadHeadFails(r)
    /\ run' = [run EXCEPT ![r] = "down"]
    /\ UNCHANGED <<update, targetVars, todo, current, requestVars, stops>>

\* A stored event decodes: it was encoded from the same type, and no other version of
\* the application writes the inbox. One that did not would end every replay.
BeginPendingEvent(r) ==
    /\ run[r] = "replaying"
    /\ todo[r] # <<>>
    /\ holder[r] = NoHolder
    /\ holder' = [holder EXCEPT ![r] = Holding("replay", Head(todo[r]), "check")]
    /\ UNCHANGED <<inboxVars, pendingRemoval, consumed, runnerVars, requestVars, stops>>

\* Replay is over: source.Run activates the source.
ActivateSource(r) ==
    /\ run[r] = "replaying"
    /\ todo[r] = <<>>
    /\ run' = [run EXCEPT ![r] = "serving"]
    /\ UNCHANGED <<inboxVars, targetVars, todo, current, requestVars, stops>>

TakeFromQueue(r) ==
    /\ run[r] = "serving"
    /\ current[r] = NoEvent
    /\ queue[r] # <<>>
    /\ current' = [current EXCEPT ![r] = Head(queue[r])]
    /\ queue' = [queue EXCEPT ![r] = Tail(@)]
    /\ UNCHANGED <<inboxVars, targetVars, run, todo, request, acked, received, stops>>
-----------------------------------------------------------------------------
(* The durable target, under its mutex.                                    *)

\* consume: an event whose removal failed before is only removed.
NextConsumeStep(r, e) == IF e \in pendingRemoval[r] THEN "update" ELSE "target"

StartConsume(r, by, e) ==
    /\ holder' = [holder EXCEPT ![r] = Holding(by, e, NextConsumeStep(r, e))]
    /\ update' = [update EXCEPT ![r] =
                    IF e \in pendingRemoval[r] THEN Starting("Remove", e) ELSE NoUpdate]

HandleTrigger(r) ==
    /\ current[r] # NoEvent
    /\ holder[r] = NoHolder
    /\ StartConsume(r, "deliver", current[r])
    /\ UNCHANGED <<object, late, headExists, pendingRemoval, consumed, runnerVars, requestVars, stops>>

\* DeliverTrigger returned nil for the event at hand.
Delivered(r, by) ==
    /\ todo' = [todo EXCEPT ![r] = IF by = "replay" THEN Tail(@) ELSE @]
    /\ current' = [current EXCEPT ![r] = IF by = "deliver" THEN NoEvent ELSE @]
    /\ UNCHANGED run

\* handlePending, the event is still pending.
PendingEventFound(r) ==
    /\ holder[r].step = "check"
    /\ ReadHead(r)
    /\ holder[r].event \in Elements(Pending(object'))
    /\ StartConsume(r, "replay", holder[r].event)
    /\ UNCHANGED <<pendingRemoval, consumed, runnerVars, requestVars, stops>>

\* handlePending, another delivery consumed it since the replay was read.
PendingEventGone(r) ==
    /\ holder[r].step = "check"
    /\ ReadHead(r)
    /\ holder[r].event \notin Elements(Pending(object'))
    /\ holder' = [holder EXCEPT ![r] = NoHolder]
    /\ Delivered(r, "replay")
    /\ UNCHANGED <<update, pendingRemoval, consumed, requestVars, stops>>

PendingReadFails(r) ==
    /\ holder[r].step = "check"
    /\ ReadHeadFails(r)
    /\ holder' = [holder EXCEPT ![r] = NoHolder]
    /\ UNCHANGED <<update, pendingRemoval, consumed, runnerVars, requestVars, stops>>

\* The Dex target returns nil or an UndeliverableTriggerError.
TargetConsumes(r) ==
    /\ holder[r].step = "target"
    /\ consumed' = consumed \union {holder[r].event}
    /\ holder' = [holder EXCEPT ![r].step = "update"]
    /\ update' = [update EXCEPT ![r] = Starting("Remove", holder[r].event)]
    /\ UNCHANGED <<object, late, headExists, pendingRemoval, runnerVars, requestVars, stops>>

\* Any other error: the event stays pending and DeliverTrigger tries again.
TargetFails(r) ==
    /\ holder[r].step = "target"
    /\ holder' = [holder EXCEPT ![r] = NoHolder]
    /\ UNCHANGED <<inboxVars, pendingRemoval, consumed, runnerVars, requestVars, stops>>

RemoveSucceeds(r) ==
    LET e == holder[r].event IN
    /\ holder[r].by \in {"replay", "deliver"}
    /\ update[r].phase = "ok"
    /\ pendingRemoval' = [pendingRemoval EXCEPT ![r] = @ \ {e}]
    /\ holder' = [holder EXCEPT ![r] = NoHolder]
    /\ update' = [update EXCEPT ![r] = NoUpdate]
    /\ Delivered(r, holder[r].by)
    /\ UNCHANGED <<object, late, headExists, consumed, requestVars, stops>>

RemoveFails(r) ==
    LET e == holder[r].event IN
    /\ holder[r].by \in {"replay", "deliver"}
    /\ update[r].phase = "failed"
    /\ pendingRemoval' = [pendingRemoval EXCEPT ![r] = @ \union {e}]
    /\ holder' = [holder EXCEPT ![r] = NoHolder]
    /\ update' = [update EXCEPT ![r] = NoUpdate]
    /\ UNCHANGED <<object, late, headExists, consumed, runnerVars, requestVars, stops>>

InboxStep(r) ==
    /\ UpdateStep(r)
    /\ UNCHANGED <<targetVars, runnerVars, requestVars, stops>>
-----------------------------------------------------------------------------
\* The runner's context ends, or its source returns; the queue and the durable
\* target outlive it in the process.
StopRun(r) ==
    /\ run[r] # "down"
    /\ holder[r].by \notin {"replay", "deliver"}
    /\ stops < MaxStops
    /\ stops' = stops + 1
    /\ run' = [run EXCEPT ![r] = "down"]
    /\ todo' = [todo EXCEPT ![r] = <<>>]
    /\ current' = [current EXCEPT ![r] = NoEvent]
    /\ UNCHANGED <<inboxVars, targetVars, requestVars>>

\* The process dies and a new one takes its place.
Crash(r) ==
    /\ stops < MaxStops
    /\ stops' = stops + 1
    /\ headExists' = [headExists EXCEPT ![r] = FALSE]
    /\ update' = [update EXCEPT ![r] = NoUpdate]
    /\ run' = [run EXCEPT ![r] = "down"]
    /\ todo' = [todo EXCEPT ![r] = <<>>]
    /\ current' = [current EXCEPT ![r] = NoEvent]
    /\ holder' = [holder EXCEPT ![r] = NoHolder]
    /\ pendingRemoval' = [pendingRemoval EXCEPT ![r] = {}]
    /\ queue' = [queue EXCEPT ![r] = <<>>]
    /\ request' = [request EXCEPT ![r] = [e \in Events |-> "none"]]
    /\ UNCHANGED <<object, late, consumed, acked, received>>

LateWrite ==
    /\ LateWriteArrives
    /\ UNCHANGED <<headExists, update, targetVars, runnerVars, requestVars, stops>>

RequestStep(r) ==
    \/ \E e \in Events :
          \/ ReceiveEvent(r, e)
          \/ PrepareTrigger(r, e)
          \/ QueueEvent(r, e)
          \/ RefuseRecordedEvent(r, e)
    \/ FinishPrepare(r)

RunnerStep(r) ==
    \/ StartRun(r)
    \/ ReadReplay(r)
    \/ ReadReplayFails(r)
    \/ BeginPendingEvent(r)
    \/ ActivateSource(r)
    \/ TakeFromQueue(r)
    \/ HandleTrigger(r)

TargetStep(r) ==
    \/ PendingEventFound(r)
    \/ PendingEventGone(r)
    \/ PendingReadFails(r)
    \/ TargetConsumes(r)
    \/ TargetFails(r)
    \/ RemoveSucceeds(r)
    \/ RemoveFails(r)
    \/ InboxStep(r)

ReplicaStep(r) == RequestStep(r) \/ RunnerStep(r) \/ TargetStep(r) \/ StopRun(r) \/ Crash(r)

Next == LateWrite \/ \E r \in Replicas : ReplicaStep(r)

Spec == Init /\ [][Next]_vars

\* Every thread that can run does (a waiter of a Go mutex is not overtaken for
\* ever), the application restarts a runner that ended, and storage and the Dex
\* target do not fail every time they are asked. Every stored event decodes (see
\* BeginPendingEvent).
Fairness ==
    \A r \in Replicas :
        /\ WF_vars(StartRun(r))
        /\ SF_vars(ReadReplay(r))
        /\ SF_vars(BeginPendingEvent(r))
        /\ WF_vars(ActivateSource(r))
        /\ WF_vars(TakeFromQueue(r))
        /\ SF_vars(HandleTrigger(r))
        /\ WF_vars(FinishPrepare(r))
        /\ WF_vars(TargetStep(r))
        /\ SF_vars(PendingEventFound(r))
        /\ SF_vars(PendingEventGone(r))
        /\ SF_vars(TargetConsumes(r))
        /\ SF_vars(RemoveSucceeds(r))
        /\ SF_vars(ReadForUpdate(r) /\ UNCHANGED <<targetVars, runnerVars, requestVars, stops>>)
        /\ SF_vars(WriteSucceeds(r) /\ UNCHANGED <<targetVars, runnerVars, requestVars, stops>>)

FairSpec == Spec /\ Fairness
-----------------------------------------------------------------------------
Contents == {Absent} \union Seq(Events)

Updates == [kind : {"none", "Add", "Remove"}, event : Events \union {NoEvent},
            phase : {"idle", "read", "write", "observe", "ok", "failed"},
            base : Contents, tries : 0..(MaxInboxAttempts - 1)]

Holders == [by : {"none", "prepare", "replay", "deliver"}, event : Events \union {NoEvent},
            step : {"none", "check", "target", "update"}]

\* Every variable keeps its type.
TypeOK ==
    /\ object \in Contents
    /\ late \subseteq [expected : Contents, contents : Seq(Events)]
    /\ headExists \in [Replicas -> BOOLEAN]
    /\ update \in [Replicas -> Updates]
    /\ run \in [Replicas -> {"down", "starting", "replaying", "serving"}]
    /\ todo \in [Replicas -> Seq(Events)]
    /\ current \in [Replicas -> Events \union {NoEvent}]
    /\ holder \in [Replicas -> Holders]
    /\ pendingRemoval \in [Replicas -> SUBSET Events]
    /\ queue \in [Replicas -> Seq(Events)]
    /\ request \in [Replicas -> [Events -> {"none", "admitted", "recorded"}]]
    /\ acked \subseteq Events
    /\ consumed \subseteq Events
    /\ received \in 0..MaxRequests
    /\ stops \in 0..MaxStops

Recorded == Elements(Pending(object))

\* "An acknowledged event survives a restart": an event answered with 200 is in the inbox
\* or was consumed, whichever step a crash or an unknown outcome follows. (NoAckedEventLost
\* adds any number of replicas and late writes.)
AckedNeverLost == acked \subseteq Recorded \union consumed

\* The inbox holds an event at most once and respects its bound, although replicas
\* write it concurrently and late writes arrive. (InboxStaysWellFormed: for every bound.)
InboxWellFormed ==
    LET events == Pending(object) IN
    /\ Len(events) <= MaxPending
    /\ \A i, j \in 1..Len(events) : events[i] = events[j] => i = j

\* Replay "delivers pending events in order": it hands an event to the target for
\* the first time only when every event ahead of it in the inbox was consumed, also in a
\* run after a restart. (ReplayIsInOrder adds other replicas that change the inbox.)
ReplayInOrder ==
    \A r \in Replicas :
        LET e == holder[r].event
            events == Pending(object)
        IN  holder[r].by = "replay" /\ holder[r].step = "target" /\ e \notin consumed =>
                \A j \in 1..Len(events) :
                    events[j] = e => \A i \in 1..(j - 1) : events[i] \in consumed

\* An update loop that reported success took effect: whatever other replicas and
\* late writes did meanwhile, an added event is recorded or was consumed since.
AddTookEffect ==
    \A r \in Replicas :
        /\ update[r].kind = "Add" /\ update[r].phase = "ok" =>
              update[r].event \in Recorded \union consumed
        /\ \A e \in Events : request[r][e] = "recorded" => e \in Recorded \union consumed

\* The strengthening behind AckedNeverLost and ImplementsLedger. A thread in the
\* target's mutex owns the update loop of its replica, and a replaying one has the
\* event it is at in todo.
HoldersOwnTheirUpdate ==
    \A r \in Replicas :
        /\ holder[r] # NoHolder => holder[r].by # "none" /\ holder[r].event \in Events
        /\ holder[r].step # "update" => update[r] = NoUpdate
        /\ holder[r].by = "prepare" => holder[r].step = "update"
        /\ holder[r].step = "check" => holder[r].by = "replay"
        /\ holder[r].step = "update" =>
              /\ update[r].event = holder[r].event
              /\ update[r].kind = IF holder[r].by = "prepare" THEN "Add" ELSE "Remove"
        /\ holder[r].by = "replay" => run[r] = "replaying" /\ todo[r] # <<>>

\* A write creates the inbox, adds one event, or removes one that was consumed.
IsChange(from, to) ==
    \/ from = Absent /\ to = <<>>
    \/ \E e \in Events : to = AddEvent(Pending(from), e)
    \/ \E e \in consumed : to = RemoveEvent(Pending(from), e)

\* Every removal under way, late ones included, is of an event consumed before.
RemovalsFollowConsumption ==
    /\ \A r \in Replicas :
          /\ pendingRemoval[r] \subseteq consumed
          /\ update[r].kind = "Remove" => update[r].event \in consumed
    /\ \A w \in late : IsChange(w.expected, w.contents)

\* The events a runner still has to deliver.
InHand(r) ==
    Elements(queue[r]) \union Elements(todo[r]) \union
    (({current[r]} \union (IF holder[r].by \in {"replay", "deliver"} THEN {holder[r].event} ELSE {}))
        \ {NoEvent})

InHandIsRecorded == \A r \in Replicas : InHand(r) \subseteq Recorded \union consumed

DeliveryInv ==
    /\ TypeOK
    /\ HoldersOwnTheirUpdate
    /\ RemovalsFollowConsumption
    /\ InHandIsRecorded
    /\ AddTookEffect
    /\ AckedNeverLost

Ledger == INSTANCE EventLedger WITH pending <- Recorded

\* Durable delivery implements the ledger: recorded events only ever leave the
\* inbox after the application consumed them, only recorded events reach the
\* application, only recorded ones are acknowledged. Two replicas compete for the inbox, and
\* a late write may land. (DeliveryImplementsLedger adds crashes and longer inboxes.)
ImplementsLedger == Ledger!Spec

\* "A restarted or replaced replica delivers them": an acknowledged event is
\* consumed in the end, also when its runner stops or its replica crashes between
\* the acknowledgement and the delivery, as long as stored events can be decoded.
AckedIsConsumed == \A e \in Events : e \in acked ~> e \in consumed
=============================================================================
