---------------------------- MODULE TriggerInbox ----------------------------
(***************************************************************************)
(* The Trigger inbox of sdkgo/projectconfig/trigger_inbox.go: one head     *)
(* object holds the pending events of one Trigger binding in the order in  *)
(* which they were acknowledged, and several replicas of the application   *)
(* add and remove events by compare-and-swap.                              *)
(*                                                                         *)
(* update[r] is the update loop that replica r is in.  A replica has at    *)
(* most one, because durableTriggerTarget calls Add and Remove under its   *)
(* mutex.  The event contents play no part, so an event is its ID.         *)
(***************************************************************************)
EXTENDS ConditionalObject, Sequences

CONSTANTS
    Replicas,         \* the processes that share the inbox
    Events,           \* event IDs
    NoEvent,          \* stands for "no event" where an event is expected
    MaxPending,       \* maxPendingTriggerEvents
    MaxInboxAttempts  \* maxTriggerInboxAttempts

ASSUME InboxAssumption ==
    /\ NoEvent \notin Events
    /\ MaxPending \in Nat \ {0}
    /\ MaxInboxAttempts \in Nat \ {0}
    /\ Absent \notin Seq(Events)

VARIABLES headExists,   \* TriggerInbox.headExists of each replica
          update        \* the update loop of each replica

inboxVars == <<object, late, headExists, update>>

\* The event IDs of a document.
Elements(events) == {events[i] : i \in 1..Len(events)}

Pending(contents) == IF contents = Absent THEN <<>> ELSE contents

NoUpdate == [kind |-> "none", event |-> NoEvent, phase |-> "idle", base |-> Absent, tries |-> 0]

InboxInit ==
    /\ StoreInit
    /\ headExists = [r \in Replicas |-> FALSE]
    /\ update = [r \in Replicas |-> NoUpdate]
-----------------------------------------------------------------------------
\* createHead followed by the read of the head. The two calls are one step: what
\* other replicas write between them is what this step could have read had it
\* happened later. A caller uses object', the contents it observed. A conflict
\* counts as "the head exists", an unknown outcome does not.
ReadHead(r) ==
    \/ headExists[r] /\ UNCHANGED <<object, late, headExists>>
    \/ /\ ~headExists[r]
       /\ WriteAccepted(Absent, <<>>) \/ WriteRefused
       /\ headExists' = [headExists EXCEPT ![r] = TRUE]
    \/ /\ ~headExists[r]
       /\ WriteUnknown(Absent, <<>>)
       /\ UNCHANGED headExists

\* createHead or the read returned an error; the head may have been created.
ReadHeadFails(r) == ReadHead(r) \/ UNCHANGED <<object, late, headExists>>
-----------------------------------------------------------------------------
(* The changes that Add and Remove pass to update.                         *)

\* Mutant: the pending events are not searched before the event is appended.
AddEvent_NoSearch(events, e) == Append(events, e)

AddEvent(events, e) == IF e \in Elements(events) THEN events ELSE Append(events, e)

RemoveEvent(events, e) ==
    IF e \in Elements(events)
    THEN LET index == CHOOSE i \in 1..Len(events) : events[i] = e
         IN  SubSeq(events, 1, index - 1) \o SubSeq(events, index + 1, Len(events))
    ELSE events

Change(u, events) ==
    IF u.kind = "Add" THEN AddEvent(events, u.event) ELSE RemoveEvent(events, u.event)

IsInboxFull(u, events) ==
    /\ u.kind = "Add"
    /\ u.event \notin Elements(events)
    /\ Len(events) >= MaxPending

NewContents(u) == Change(u, Pending(u.base))
-----------------------------------------------------------------------------
(* The loop of update. It ends in phase ok (nil) or failed (an error). What *)
(* an iteration read is forgotten with the iteration.                      *)

Starting(kind, e) == [kind |-> kind, event |-> e, phase |-> "read", base |-> Absent, tries |-> 0]

Ended(u, phase) == [u EXCEPT !.phase = phase, !.base = Absent, !.tries = 0]

AfterRead(u, contents) ==
    IF IsInboxFull(u, Pending(contents)) THEN Ended(u, "failed")
    ELSE IF Change(u, Pending(contents)) = Pending(contents) THEN Ended(u, "ok")
    ELSE [u EXCEPT !.phase = "write", !.base = contents]

ReadForUpdate(r) ==
    /\ update[r].phase = "read"
    /\ ReadHead(r)
    /\ update' = [update EXCEPT ![r] = AfterRead(@, object')]

ReadForUpdateFails(r) ==
    /\ update[r].phase = "read"
    /\ ReadHeadFails(r)
    /\ update' = [update EXCEPT ![r] = Ended(@, "failed")]

\* Mutant: the loop condition is attempt <= maxTriggerInboxAttempts.
TryAgain_OneMore(u) ==
    IF u.tries < MaxInboxAttempts
    THEN [u EXCEPT !.phase = "read", !.base = Absent, !.tries = u.tries + 1]
    ELSE Ended(u, "failed")

\* After a conflict or an unknown outcome: read again, or give up with ErrConflict.
TryAgain(u) ==
    IF u.tries + 1 < MaxInboxAttempts
    THEN [u EXCEPT !.phase = "read", !.base = Absent, !.tries = u.tries + 1]
    ELSE Ended(u, "failed")

\* Mutant: the write does not depend on what was read.
WriteSucceeds_Unconditional(r) ==
    /\ update[r].phase = "write"
    /\ object' = NewContents(update[r])
    /\ update' = [update EXCEPT ![r] = Ended(@, "ok")]
    /\ UNCHANGED <<late, headExists>>

WriteSucceeds(r) ==
    /\ update[r].phase = "write"
    /\ WriteAccepted(update[r].base, NewContents(update[r]))
    /\ update' = [update EXCEPT ![r] = Ended(@, "ok")]
    /\ UNCHANGED headExists

WriteConflicts(r) ==
    /\ update[r].phase = "write"
    /\ WriteRefused
    /\ update' = [update EXCEPT ![r] = TryAgain(@)]
    /\ UNCHANGED headExists

WriteOutcomeUnknown(r) ==
    /\ update[r].phase = "write"
    /\ WriteUnknown(update[r].base, NewContents(update[r]))
    /\ update' = [update EXCEPT ![r].phase = "observe"]
    /\ UNCHANGED headExists

\* Any other error: the request was not made or was refused outright.
WriteFails(r) ==
    /\ update[r].phase = "write"
    /\ update' = [update EXCEPT ![r] = Ended(@, "failed")]
    /\ UNCHANGED <<object, late, headExists>>

\* The read that follows an unknown outcome finds exactly what was written.
ObserveOwnWrite(r) ==
    /\ update[r].phase = "observe"
    /\ object = NewContents(update[r])
    /\ update' = [update EXCEPT ![r] = Ended(@, "ok")]
    /\ UNCHANGED <<object, late, headExists>>

\* It finds something else, or fails.
ObserveOther(r) ==
    /\ update[r].phase = "observe"
    /\ update' = [update EXCEPT ![r] = TryAgain(@)]
    /\ UNCHANGED <<object, late, headExists>>

UpdateStep(r) ==
    \/ ReadForUpdate(r)
    \/ ReadForUpdateFails(r)
    \/ WriteSucceeds(r)
    \/ WriteConflicts(r)
    \/ WriteOutcomeUnknown(r)
    \/ WriteFails(r)
    \/ ObserveOwnWrite(r)
    \/ ObserveOther(r)
=============================================================================
