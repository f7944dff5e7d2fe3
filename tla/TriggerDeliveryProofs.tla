----------------------- MODULE TriggerDeliveryProofs ------------------------
(***************************************************************************)
(* Proofs that durable Trigger delivery loses no acknowledged event and    *)
(* implements EventLedger, for every number of replicas, events, requests, *)
(* crashes and late writes.                                                *)
(*                                                                         *)
(* DeliveryInv is the inductive invariant.  Its heart is that every write  *)
(* that can still land, however late, takes at most one event away and     *)
(* only one that was consumed when the write was made; consumption is for  *)
(* good, so it does not matter when the write lands.                       *)
(***************************************************************************)
EXTENDS TriggerDelivery, TLAPS

\* Appending an event adds it to the elements.
LEMMA ElementsAppend ==
    ASSUME NEW s \in Seq(Events), NEW e \in Events
    PROVE  /\ Append(s, e) \in Seq(Events)
           /\ Append(s, e) # s
           /\ Elements(Append(s, e)) = Elements(s) \union {e}
  <1>1. Append(s, e) \in Seq(Events) /\ Len(Append(s, e)) = Len(s) + 1 /\ Len(s) \in Nat
    OBVIOUS
  <1>2. \A i \in 1..(Len(s) + 1) : Append(s, e)[i] = IF i <= Len(s) THEN s[i] ELSE e
    OBVIOUS
  <1> QED BY <1>1, <1>2 DEF Elements

\* The head and the tail of a sequence hold only elements of it.
LEMMA ElementsHeadTail ==
    ASSUME NEW s \in Seq(Events), s # <<>>
    PROVE  /\ Head(s) \in Elements(s)
           /\ Tail(s) \in Seq(Events)
           /\ Elements(Tail(s)) \subseteq Elements(s)
  <1>1. Len(s) \in Nat \ {0} /\ Head(s) = s[1] /\ Tail(s) \in Seq(Events) /\ Len(Tail(s)) = Len(s) - 1
    OBVIOUS
  <1>2. \A i \in 1..(Len(s) - 1) : Tail(s)[i] = s[i + 1]
    OBVIOUS
  <1> QED BY <1>1, <1>2 DEF Elements

\* The elements of a sequence of events are events.
LEMMA ElementsAreEvents ==
    ASSUME NEW s \in Seq(Events)
    PROVE  Elements(s) \subseteq Events
  BY DEF Elements

\* What Add does to the document.
LEMMA AddEventElements ==
    ASSUME NEW s \in Seq(Events), NEW e \in Events
    PROVE  /\ AddEvent(s, e) \in Seq(Events)
           /\ Elements(AddEvent(s, e)) = Elements(s) \union {e}
           /\ AddEvent(s, e) = s => e \in Elements(s)
  BY ElementsAppend DEF AddEvent

\* What Remove does to a document that holds the event: one occurrence is cut out and
\* the events behind it move up.
LEMMA RemoveEventShifts ==
    ASSUME NEW s \in Seq(Events), NEW e \in Events, e \in Elements(s)
    PROVE  /\ RemoveEvent(s, e) \in Seq(Events)
           /\ Len(s) \in Nat /\ Len(RemoveEvent(s, e)) = Len(s) - 1
           /\ \E index \in 1..Len(s) :
                 /\ s[index] = e
                 /\ \A k \in 1..(Len(s) - 1) :
                       RemoveEvent(s, e)[k] = IF k < index THEN s[k] ELSE s[k + 1]
  <1> DEFINE index == CHOOSE i \in 1..Len(s) : s[i] = e
  <1> DEFINE left == SubSeq(s, 1, index - 1)
  <1> DEFINE right == SubSeq(s, index + 1, Len(s))
  <1>0. Len(s) \in Nat
    OBVIOUS
  <1>1. index \in 1..Len(s) /\ s[index] = e
    BY DEF Elements
  <1>2. RemoveEvent(s, e) = left \o right
    BY DEF RemoveEvent
  <1> HIDE DEF index
  <1>3. /\ left \in Seq(Events) /\ Len(left) = index - 1
        /\ \A k \in 1..(index - 1) : left[k] = s[k]
    BY <1>1
  <1>4. /\ right \in Seq(Events) /\ Len(right) = Len(s) - index
        /\ \A k \in 1..(Len(s) - index) : right[k] = s[index + k]
    BY <1>1
  <1> HIDE DEF left, right
  <1>5. left \o right \in Seq(Events) /\ Len(left \o right) = Len(s) - 1
    <2>1. left \o right \in Seq(Events) /\ Len(left \o right) = Len(left) + Len(right)
      BY <1>3, <1>4
    <2> QED BY <2>1, <1>0, <1>1, <1>3, <1>4
  <1>6. \A k \in 1..(Len(s) - 1) : (left \o right)[k] = IF k < index THEN s[k] ELSE s[k + 1]
    BY <1>1, <1>3, <1>4
  <1> QED BY <1>0, <1>1, <1>2, <1>5, <1>6

\* What Remove does to the document: it takes away one occurrence of the event.
LEMMA RemoveEventElements ==
    ASSUME NEW s \in Seq(Events), NEW e \in Events
    PROVE  /\ RemoveEvent(s, e) \in Seq(Events)
           /\ \/ Elements(RemoveEvent(s, e)) = Elements(s)
              \/ Elements(RemoveEvent(s, e)) = Elements(s) \ {e}
  <1> DEFINE rest == RemoveEvent(s, e)
  <1>1. CASE e \notin Elements(s)
    BY <1>1 DEF RemoveEvent
  <1>2. CASE e \in Elements(s)
    <2>1. rest \in Seq(Events) /\ Len(s) \in Nat /\ Len(rest) = Len(s) - 1
      BY <1>2, RemoveEventShifts
    <2>2. PICK index \in 1..Len(s) :
             /\ s[index] = e
             /\ \A k \in 1..(Len(s) - 1) : rest[k] = IF k < index THEN s[k] ELSE s[k + 1]
      BY <1>2, RemoveEventShifts
    <2> HIDE DEF rest
    <2>3. Elements(rest) \subseteq Elements(s)
      BY <2>1, <2>2 DEF Elements
    <2>4. Elements(s) \ {e} \subseteq Elements(rest)
      <3> SUFFICES ASSUME NEW i \in 1..Len(s), s[i] # e PROVE s[i] \in Elements(rest)
        BY DEF Elements
      <3>1. CASE i < index
        <4>1. i \in 1..(Len(s) - 1)
          BY <2>1, <2>2, <3>1
        <4>2. rest[i] = s[i]
          BY <2>2, <3>1, <4>1
        <4> QED BY <2>1, <4>1, <4>2 DEF Elements
      <3>2. CASE i > index
        <4>1. i - 1 \in 1..(Len(s) - 1) /\ ~(i - 1 < index) /\ (i - 1) + 1 = i
          BY <2>1, <2>2, <3>2
        <4>2. rest[i - 1] = s[i]
          BY <2>2, <4>1
        <4> QED BY <2>1, <4>1, <4>2 DEF Elements
      <3> QED BY <2>2, <3>1, <3>2
    <2> QED BY <1>2, <2>1, <2>3, <2>4 DEF rest
  <1> QED BY <1>1, <1>2
-----------------------------------------------------------------------------
(* What a step does to the stored object.                                  *)

\* The document of an inbox is a sequence of events, also before it is created.
LEMMA PendingIsSeq ==
    ASSUME NEW c \in Contents
    PROVE  Pending(c) \in Seq(Events)
  BY DEF Contents, Pending

\* A change is a document again, and adds or takes away at most one event.
LEMMA ChangeElements ==
    ASSUME consumed \subseteq Events, NEW from \in Contents, NEW to, IsChange(from, to)
    PROVE  /\ to \in Seq(Events)
           /\ \/ Elements(to) = Elements(Pending(from))
              \/ \E e \in Events : Elements(to) = Elements(Pending(from)) \union {e}
              \/ \E e \in consumed : Elements(to) = Elements(Pending(from)) \ {e}
  <1>1. Pending(from) \in Seq(Events)
    BY PendingIsSeq
  <1>2. CASE from = Absent /\ to = <<>>
    BY <1>2 DEF Pending
  <1>3. ASSUME NEW e \in Events, to = AddEvent(Pending(from), e)
        PROVE  to \in Seq(Events) /\ Elements(to) = Elements(Pending(from)) \union {e}
    BY <1>1, <1>3, AddEventElements
  <1>4. ASSUME NEW e \in consumed, to = RemoveEvent(Pending(from), e)
        PROVE  /\ to \in Seq(Events)
               /\ \/ Elements(to) = Elements(Pending(from))
                  \/ Elements(to) = Elements(Pending(from)) \ {e}
    <2>1. e \in Events
      OBVIOUS
    <2> QED BY <1>1, <1>4, <2>1, RemoveEventElements
  <1> QED BY <1>2, <1>3, <1>4 DEF IsChange

\* A replica in an update loop holds its mutex for an event.
LEMMA UpdateHasEvent ==
    ASSUME DeliveryInv, NEW r \in Replicas, update[r].phase # "idle"
    PROVE  /\ holder[r].step = "update" /\ holder[r] # NoHolder
           /\ holder[r].event \in Events /\ update[r].event = holder[r].event
           /\ update[r].kind = IF holder[r].by = "prepare" THEN "Add" ELSE "Remove"
           /\ update[r].kind = "Remove" => update[r].event \in consumed
  <1>1. update[r] # NoUpdate
    BY DEF NoUpdate
  <1>2. holder[r].step = "update"
    BY <1>1 DEF DeliveryInv, HoldersOwnTheirUpdate
  <1>3. holder[r] # NoHolder
    BY <1>2 DEF NoHolder
  <1> QED BY <1>2, <1>3 DEF DeliveryInv, HoldersOwnTheirUpdate, RemovalsFollowConsumption

\* What an update loop writes is a change, and holds the event it adds.
LEMMA UpdateWritesChange ==
    ASSUME DeliveryInv, NEW r \in Replicas, update[r].phase # "idle"
    PROVE  /\ IsChange(update[r].base, NewContents(update[r]))
           /\ NewContents(update[r]) \in Seq(Events)
           /\ update[r].kind = "Add" => update[r].event \in Elements(NewContents(update[r]))
  <1>1. update[r].base \in Contents /\ consumed \subseteq Events
    BY DEF DeliveryInv, TypeOK, Updates
  <1>2. /\ update[r].event \in Events
        /\ update[r].kind \in {"Add", "Remove"}
        /\ update[r].kind = "Remove" => update[r].event \in consumed
    BY UpdateHasEvent
  <1>3. IsChange(update[r].base, NewContents(update[r]))
    BY <1>2 DEF IsChange, NewContents, Change
  <1>4. update[r].kind = "Add" => update[r].event \in Elements(NewContents(update[r]))
    BY <1>1, <1>2, PendingIsSeq, AddEventElements DEF NewContents, Change
  <1> QED BY <1>1, <1>3, <1>4, ChangeElements

\* The steps that leave the stored object alone.
LEMMA StoreUntouched ==
    ASSUME NEW r \in Replicas,
           \/ RequestStep(r)
           \/ StartRun(r) \/ BeginPendingEvent(r) \/ ActivateSource(r) \/ TakeFromQueue(r)
           \/ HandleTrigger(r) \/ TargetConsumes(r) \/ TargetFails(r) \/ RemoveSucceeds(r)
           \/ RemoveFails(r) \/ StopRun(r) \/ Crash(r)
    PROVE  UNCHANGED <<object, late>>
  BY DEF RequestStep, ReceiveEvent, PrepareTrigger, QueueEvent, RefuseRecordedEvent,
         FinishPrepare, StartRun, BeginPendingEvent, ActivateSource, TakeFromQueue, HandleTrigger, TargetConsumes,
         TargetFails, RemoveSucceeds, RemoveFails, StopRun, Crash, inboxVars

\* A write of the document a step can make: now, or later when it arrives.
LEMMA WritesAreChanges ==
    ASSUME DeliveryInv, NEW from \in Contents, NEW to \in Seq(Events), IsChange(from, to),
           WriteAccepted(from, to) \/ WriteUnknown(from, to)
    PROVE  /\ object' = object \/ IsChange(object, object')
           /\ \A w \in late' : \/ w \in late
                               \/ /\ w \in [expected : Contents, contents : Seq(Events)]
                                  /\ IsChange(w.expected, w.contents)
  <1>1. CASE WriteAccepted(from, to)
    BY <1>1 DEF WriteAccepted
  <1>2. CASE UNCHANGED storeVars
    BY <1>2 DEF storeVars
  <1>3. CASE late' = late \union {[expected |-> from, contents |-> to]} /\ UNCHANGED object
    BY <1>3
  <1> QED BY <1>1, <1>2, <1>3 DEF WriteUnknown

\* Reading the head creates it at most.
LEMMA ReadHeadIsChange ==
    ASSUME DeliveryInv, NEW r \in Replicas, ReadHead(r) \/ ReadHeadFails(r)
    PROVE  /\ object' = object \/ IsChange(object, object')
           /\ \A w \in late' : \/ w \in late
                               \/ /\ w \in [expected : Contents, contents : Seq(Events)]
                                  /\ IsChange(w.expected, w.contents)
           /\ headExists' \in [Replicas -> BOOLEAN]
  <1>1. headExists' \in [Replicas -> BOOLEAN]
    BY DEF ReadHead, ReadHeadFails, DeliveryInv, TypeOK
  <1>2. IsChange(Absent, <<>>) /\ Absent \in Contents /\ <<>> \in Seq(Events)
    BY DEF IsChange, Contents
  <1>3. CASE WriteAccepted(Absent, <<>>) \/ WriteUnknown(Absent, <<>>)
    BY <1>1, <1>2, <1>3, WritesAreChanges
  <1>4. CASE UNCHANGED <<object, late>>
    BY <1>1, <1>4
  <1> QED BY <1>3, <1>4 DEF ReadHead, ReadHeadFails, WriteRefused, storeVars

\* Every step changes the stored object by at most one legitimate change, and adds
\* only legitimate changes to the writes under way.
LEMMA StoreStep ==
    ASSUME DeliveryInv, [Next]_vars
    PROVE  /\ object' = object \/ IsChange(object, object')
           /\ \A w \in late' : \/ w \in late
                               \/ /\ w \in [expected : Contents, contents : Seq(Events)]
                                  /\ IsChange(w.expected, w.contents)
  <1> DEFINE Effect == /\ object' = object \/ IsChange(object, object')
                       /\ \A w \in late' : \/ w \in late
                                           \/ /\ w \in [expected : Contents, contents : Seq(Events)]
                                              /\ IsChange(w.expected, w.contents)
  <1> SUFFICES Effect
    OBVIOUS
  <1>1. CASE UNCHANGED <<object, late>>
    BY <1>1
  <1>2. CASE LateWrite
    BY <1>2 DEF LateWrite, LateWriteArrives, DeliveryInv, RemovalsFollowConsumption
  <1>3. ASSUME NEW r \in Replicas, ReplicaStep(r), ~UNCHANGED <<object, late>> PROVE Effect
    <2>1. CASE ReadHead(r) \/ ReadHeadFails(r)
      BY <2>1, ReadHeadIsChange
    <2>2. CASE InboxStep(r)
      <3>1. CASE ReadForUpdate(r) \/ ReadForUpdateFails(r)
        BY <2>1, <3>1 DEF ReadForUpdate, ReadForUpdateFails
      <3>2. CASE WriteSucceeds(r) \/ WriteOutcomeUnknown(r)
        <4>1. update[r].phase # "idle" /\ update[r].base \in Contents
          BY <3>2 DEF WriteSucceeds, WriteOutcomeUnknown, DeliveryInv, TypeOK, Updates
        <4> QED BY <3>2, <4>1, UpdateWritesChange, WritesAreChanges
                DEF WriteSucceeds, WriteOutcomeUnknown
      <3>3. CASE WriteConflicts(r) \/ WriteFails(r) \/ ObserveOwnWrite(r) \/ ObserveOther(r)
        BY <1>3, <3>3
        DEF WriteConflicts, WriteFails, ObserveOwnWrite, ObserveOther, WriteRefused, storeVars
      <3> QED BY <2>2, <3>1, <3>2, <3>3 DEF InboxStep, UpdateStep
    <2>3. CASE \/ ReadReplay(r) \/ ReadReplayFails(r)
               \/ PendingEventFound(r) \/ PendingEventGone(r) \/ PendingReadFails(r)
      BY <2>1, <2>3 DEF ReadReplay, ReadReplayFails, PendingEventFound, PendingEventGone, PendingReadFails
    <2> QED BY <1>3, <2>2, <2>3, StoreUntouched DEF ReplicaStep, RunnerStep, TargetStep
  <1>4. CASE UNCHANGED vars
    BY <1>4 DEF vars, inboxVars
  <1> QED BY <1>1, <1>2, <1>3, <1>4 DEF Next

\* Only the Dex target consumes, and it consumes the event it was handed.
LEMMA ConsumedStep ==
    ASSUME DeliveryInv, [Next]_vars
    PROVE  \/ consumed' = consumed
           \/ \E r \in Replicas : /\ holder[r].step = "target" /\ holder[r].event \in Events
                                  /\ consumed' = consumed \union {holder[r].event}
                                  /\ UNCHANGED <<object, late, acked>>
  <1> DEFINE Effect ==
        \/ consumed' = consumed
        \/ \E r \in Replicas : /\ holder[r].step = "target" /\ holder[r].event \in Events
                               /\ consumed' = consumed \union {holder[r].event}
                               /\ UNCHANGED <<object, late, acked>>
  <1> SUFFICES Effect
    OBVIOUS
  <1>1. CASE UNCHANGED vars \/ LateWrite
    BY <1>1 DEF vars, targetVars, LateWrite
  <1>2. ASSUME NEW r \in Replicas, ReplicaStep(r) PROVE Effect
    <2>1. CASE TargetConsumes(r)
      <3>1. holder[r].event \in Events
        BY <2>1 DEF TargetConsumes, NoHolder, DeliveryInv, HoldersOwnTheirUpdate
      <3> QED BY <2>1, <3>1 DEF TargetConsumes, requestVars
    <2>2. CASE RequestStep(r)
      BY <2>2 DEF RequestStep, ReceiveEvent, PrepareTrigger, QueueEvent, RefuseRecordedEvent,
                  FinishPrepare, targetVars
    <2>3. CASE RunnerStep(r)
      BY <2>3 DEF RunnerStep, StartRun, ReadReplay, ReadReplayFails, BeginPendingEvent,
                  ActivateSource, TakeFromQueue, HandleTrigger, targetVars
    <2>4. CASE TargetStep(r) /\ ~TargetConsumes(r)
      BY <2>4 DEF TargetStep, PendingEventFound, PendingEventGone, PendingReadFails, TargetFails,
                  RemoveSucceeds, RemoveFails, InboxStep, targetVars
    <2>5. CASE StopRun(r) \/ Crash(r)
      BY <2>5 DEF StopRun, Crash, targetVars
    <2> QED BY <1>2, <2>1, <2>2, <2>3, <2>4, <2>5 DEF ReplicaStep
  <1> QED BY <1>1, <1>2 DEF Next

\* What is recorded or consumed stays recorded or consumed.
LEMMA SafeStep ==
    ASSUME DeliveryInv, [Next]_vars
    PROVE  /\ consumed \subseteq consumed'
           /\ Recorded \union consumed \subseteq Recorded' \union consumed'
  <1>1. consumed \subseteq consumed'
    BY ConsumedStep
  <1>2. object \in Contents /\ consumed \subseteq Events
    BY DEF DeliveryInv, TypeOK
  <1>3. CASE object' = object
    BY <1>1, <1>3 DEF Recorded
  <1>4. CASE IsChange(object, object')
    <2>1. /\ object' \in Seq(Events)
          /\ \/ Elements(object') = Elements(Pending(object))
             \/ \E e \in Events : Elements(object') = Elements(Pending(object)) \union {e}
             \/ \E e \in consumed : Elements(object') = Elements(Pending(object)) \ {e}
      BY <1>2, <1>4, ChangeElements
    <2>2. Pending(object') = object'
      BY <2>1, InboxAssumption DEF Pending
    <2> QED BY <1>1, <2>1, <2>2 DEF Recorded
  <1> QED BY <1>1, <1>3, <1>4, StoreStep
-----------------------------------------------------------------------------
(* Type correctness.                                                       *)

\* The records of an update loop keep their type.
LEMMA UpdateTypes ==
    ASSUME NEW u \in Updates
    PROVE  /\ NoUpdate \in Updates
           /\ Ended(u, "ok") \in Updates /\ Ended(u, "failed") \in Updates
           /\ TryAgain(u) \in Updates
           /\ [u EXCEPT !.phase = "observe"] \in Updates
           /\ \A c \in Contents : AfterRead(u, c) \in Updates
           /\ \A e \in Events : Starting("Add", e) \in Updates /\ Starting("Remove", e) \in Updates
  <1> USE InboxAssumption
  <1>1. Absent \in Contents /\ 0 \in 0..(MaxInboxAttempts - 1)
    BY DEF Contents
  <1>2. NoUpdate \in Updates
    BY <1>1 DEF NoUpdate, Updates
  <1>3. Ended(u, "ok") \in Updates /\ Ended(u, "failed") \in Updates
    BY <1>1 DEF Ended, Updates
  <1>4. TryAgain(u) \in Updates
    <2>1. u.tries + 1 < MaxInboxAttempts => u.tries + 1 \in 0..(MaxInboxAttempts - 1)
      BY DEF Updates
    <2>2. CASE u.tries + 1 < MaxInboxAttempts
      <3>1. TryAgain(u) = [u EXCEPT !.phase = "read", !.base = Absent, !.tries = u.tries + 1]
        BY <2>2 DEF TryAgain
      <3> QED BY <1>1, <2>1, <2>2, <3>1 DEF Updates
    <2>3. CASE ~(u.tries + 1 < MaxInboxAttempts)
      BY <1>3, <2>3 DEF TryAgain
    <2> QED BY <2>2, <2>3
  <1>5. [u EXCEPT !.phase = "observe"] \in Updates
    BY DEF Updates
  <1>6. \A c \in Contents : AfterRead(u, c) \in Updates
    BY <1>3 DEF AfterRead, Updates
  <1>7. \A e \in Events : Starting("Add", e) \in Updates /\ Starting("Remove", e) \in Updates
    BY <1>1 DEF Starting, Updates
  <1> QED BY <1>2, <1>3, <1>4, <1>5, <1>6, <1>7

\* A thread takes the mutex for an event.
LEMMA HolderTypes ==
    ASSUME NEW e \in Events
    PROVE  /\ NoHolder \in Holders
           /\ \A by \in {"prepare", "replay", "deliver"}, step \in {"check", "target", "update"} :
                 Holding(by, e, step) \in Holders
  BY DEF NoHolder, Holding, Holders

\* The stored object and the writes under way keep their type.
LEMMA StoreTypeStep ==
    ASSUME DeliveryInv, [Next]_vars
    PROVE  /\ object' \in Contents
           /\ late' \subseteq [expected : Contents, contents : Seq(Events)]
           /\ consumed' \subseteq Events
  <1>1. object \in Contents /\ consumed \subseteq Events
        /\ late \subseteq [expected : Contents, contents : Seq(Events)]
    BY DEF DeliveryInv, TypeOK
  <1>2. object' \in Contents
    BY <1>1, StoreStep, ChangeElements DEF Contents
  <1>3. late' \subseteq [expected : Contents, contents : Seq(Events)]
    BY <1>1, StoreStep
  <1> QED BY <1>1, <1>2, <1>3, ConsumedStep

\* An update loop keeps its type.
LEMMA InboxTypeStep ==
    ASSUME DeliveryInv, NEW r \in Replicas, UpdateStep(r), object' \in Contents
    PROVE  headExists' \in [Replicas -> BOOLEAN] /\ update' \in [Replicas -> Updates]
  <1> DEFINE u == update[r]
  <1>1. u \in Updates /\ update \in [Replicas -> Updates] /\ headExists \in [Replicas -> BOOLEAN]
    BY DEF DeliveryInv, TypeOK
  <1>2. CASE ReadForUpdate(r) \/ ReadForUpdateFails(r)
    BY <1>1, <1>2, UpdateTypes, ReadHeadIsChange DEF ReadForUpdate, ReadForUpdateFails
  <1>3. CASE WriteSucceeds(r) \/ ObserveOwnWrite(r)
    BY <1>1, <1>3, UpdateTypes DEF WriteSucceeds, ObserveOwnWrite
  <1>4. CASE WriteConflicts(r) \/ ObserveOther(r)
    BY <1>1, <1>4, UpdateTypes DEF WriteConflicts, ObserveOther
  <1>5. CASE WriteOutcomeUnknown(r)
    BY <1>1, <1>5, UpdateTypes DEF WriteOutcomeUnknown, Updates
  <1>6. CASE WriteFails(r)
    BY <1>1, <1>6, UpdateTypes DEF WriteFails
  <1> QED BY <1>2, <1>3, <1>4, <1>5, <1>6 DEF UpdateStep

\* An event in the mutex, in a replay or in a queue is an event.
LEMMA HandsHoldEvents ==
    ASSUME DeliveryInv, NEW r \in Replicas
    PROVE  /\ holder[r] # NoHolder => holder[r].event \in Events
           /\ holder[r].by # "none" \/ holder[r].step # "none" => holder[r] # NoHolder
           /\ current[r] # NoEvent => current[r] \in Events
           /\ todo[r] \in Seq(Events) /\ queue[r] \in Seq(Events)
           /\ holder[r].by = "replay" => todo[r] # <<>>
           /\ todo[r] # <<>> => Head(todo[r]) \in Events /\ Tail(todo[r]) \in Seq(Events)
           /\ queue[r] # <<>> => Head(queue[r]) \in Events /\ Tail(queue[r]) \in Seq(Events)
  <1>1. todo[r] \in Seq(Events) /\ queue[r] \in Seq(Events) /\ current[r] \in Events \union {NoEvent}
    BY DEF DeliveryInv, TypeOK
  <1>2. /\ holder[r] # NoHolder => holder[r].event \in Events
        /\ holder[r].by = "replay" => todo[r] # <<>>
    BY DEF DeliveryInv, HoldersOwnTheirUpdate
  <1> QED BY <1>1, <1>2, ElementsHeadTail, ElementsAreEvents DEF NoHolder

\* Every step keeps every variable's type.
LEMMA TypeStep ==
    ASSUME DeliveryInv, [Next]_vars
    PROVE  TypeOK'
  <1> USE DEF TypeOK, inboxVars, targetVars, runnerVars, requestVars
  <1>a. TypeOK
    BY DEF DeliveryInv
  <1>b. /\ object' \in Contents
        /\ late' \subseteq [expected : Contents, contents : Seq(Events)]
        /\ consumed' \subseteq Events
    BY StoreTypeStep
  <1>c. NoUpdate \in Updates /\ NoHolder \in Holders
    BY InboxAssumption DEF NoUpdate, Updates, Contents, NoHolder, Holders
  <1>d. Pending(object') \in Seq(Events)
    BY <1>b, PendingIsSeq
  <1>1. CASE UNCHANGED vars
    BY <1>1, <1>a, <1>b DEF vars
  <1>2. CASE LateWrite
    BY <1>2, <1>a, <1>b DEF LateWrite
  <1>3. ASSUME NEW r \in Replicas, ReplicaStep(r) PROVE TypeOK'
    <2>h. /\ holder[r] # NoHolder => holder[r].event \in Events
          /\ holder[r].by # "none" \/ holder[r].step # "none" => holder[r] # NoHolder
          /\ current[r] # NoEvent => current[r] \in Events
          /\ todo[r] \in Seq(Events) /\ queue[r] \in Seq(Events)
          /\ holder[r].by = "replay" => todo[r] # <<>>
          /\ todo[r] # <<>> => Head(todo[r]) \in Events /\ Tail(todo[r]) \in Seq(Events)
          /\ queue[r] # <<>> => Head(queue[r]) \in Events /\ Tail(queue[r]) \in Seq(Events)
      BY HandsHoldEvents
    <2>u. update[r] \in Updates
      BY <1>a
    <2>1. ASSUME NEW e \in Events, ReceiveEvent(r, e) PROVE TypeOK'
      BY <2>1, <1>a, <1>b, DeliveryAssumption DEF ReceiveEvent
    <2>2. ASSUME NEW e \in Events, PrepareTrigger(r, e) PROVE TypeOK'
      BY <2>2, <1>a, <1>b, <2>u, UpdateTypes, HolderTypes DEF PrepareTrigger
    <2>3. ASSUME NEW e \in Events, QueueEvent(r, e) PROVE TypeOK'
      BY <2>3, <1>a, <1>b, <2>h DEF QueueEvent
    <2>4. ASSUME NEW e \in Events, RefuseRecordedEvent(r, e) PROVE TypeOK'
      BY <2>4, <1>a, <1>b DEF RefuseRecordedEvent
    <2>5. CASE FinishPrepare(r)
      BY <2>5, <1>a, <1>b, <1>c DEF FinishPrepare, PrepareOutcome
    <2>6. CASE StartRun(r) \/ ActivateSource(r)
      BY <2>6, <1>a, <1>b DEF StartRun, ActivateSource
    <2>7. CASE ReadReplay(r) \/ ReadReplayFails(r)
      <3>1. headExists' \in [Replicas -> BOOLEAN]
        BY <2>7, ReadHeadIsChange DEF ReadReplay, ReadReplayFails
      <3>2. todo' \in [Replicas -> Seq(Events)]
        BY <2>7, <1>a, <1>d DEF ReadReplay, ReadReplayFails
      <3>3. run' \in [Replicas -> {"down", "starting", "replaying", "serving"}]
        BY <2>7, <1>a DEF ReadReplay, ReadReplayFails
      <3> QED BY <2>7, <1>a, <1>b, <3>1, <3>2, <3>3 DEF ReadReplay, ReadReplayFails
    <2>8. CASE BeginPendingEvent(r)
      BY <2>8, <1>a, <1>b, <2>h, HolderTypes DEF BeginPendingEvent
    <2>9. CASE TakeFromQueue(r)
      BY <2>9, <1>a, <1>b, <2>h DEF TakeFromQueue
    <2>10. CASE HandleTrigger(r)
      BY <2>10, <1>a, <1>b, <1>c, <2>h, <2>u, HolderTypes, UpdateTypes
      DEF HandleTrigger, StartConsume, NextConsumeStep
    <2>11. CASE PendingEventFound(r)
      BY <2>11, <1>a, <1>b, <1>c, <2>h, <2>u, HolderTypes, UpdateTypes, ReadHeadIsChange
      DEF PendingEventFound, StartConsume, NextConsumeStep
    <2>12. CASE PendingEventGone(r)
      <3>1. headExists' \in [Replicas -> BOOLEAN]
        BY <2>12, ReadHeadIsChange DEF PendingEventGone
      <3>2. todo[r] # <<>>
        BY <2>12, <2>h DEF PendingEventGone, DeliveryInv, HoldersOwnTheirUpdate
      <3> QED BY <2>12, <1>a, <1>b, <1>c, <2>h, <3>1, <3>2 DEF PendingEventGone, Delivered
    <2>13. CASE PendingReadFails(r)
      BY <2>13, <1>a, <1>b, <1>c, ReadHeadIsChange DEF PendingReadFails
    <2>14. CASE TargetConsumes(r)
      <3>1. [holder[r] EXCEPT !.step = "update"] \in Holders
        BY <1>a DEF Holders
      <3>2. holder' \in [Replicas -> Holders]
        BY <2>14, <1>a, <3>1 DEF TargetConsumes
      <3>3. update' \in [Replicas -> Updates]
        BY <2>14, <1>a, <2>h, <2>u, UpdateTypes DEF TargetConsumes
      <3> QED BY <2>14, <1>a, <1>b, <3>2, <3>3 DEF TargetConsumes
    <2>15. CASE TargetFails(r)
      BY <2>15, <1>a, <1>b, <1>c DEF TargetFails
    <2>16. CASE RemoveSucceeds(r)
      BY <2>16, <1>a, <1>b, <1>c, <2>h DEF RemoveSucceeds, Delivered
    <2>17. CASE RemoveFails(r)
      BY <2>17, <1>a, <1>b, <1>c, <2>h DEF RemoveFails
    <2>18. CASE InboxStep(r)
      BY <2>18, <1>a, <1>b, InboxTypeStep DEF InboxStep
    <2>19. CASE StopRun(r)
      BY <2>19, <1>a, <1>b, DeliveryAssumption DEF StopRun
    <2>20. CASE Crash(r)
      BY <2>20, <1>a, <1>b, <1>c, DeliveryAssumption DEF Crash
    <2> QED
      BY <1>3, <2>1, <2>2, <2>3, <2>4, <2>5, <2>6, <2>7, <2>8, <2>9, <2>10, <2>11, <2>12, <2>13,
         <2>14, <2>15, <2>16, <2>17, <2>18, <2>19, <2>20
      DEF ReplicaStep, RequestStep, RunnerStep, TargetStep
  <1> QED BY <1>1, <1>2, <1>3 DEF Next
-----------------------------------------------------------------------------
(* The other parts of the invariant.                                       *)

\* A step of one replica leaves the memory of the others alone.
LEMMA OthersUnchanged ==
    ASSUME DeliveryInv, NEW r \in Replicas, ReplicaStep(r), NEW q \in Replicas, q # r
    PROVE  /\ holder'[q] = holder[q] /\ update'[q] = update[q]
           /\ run'[q] = run[q] /\ todo'[q] = todo[q] /\ current'[q] = current[q]
           /\ queue'[q] = queue[q] /\ request'[q] = request[q]
           /\ pendingRemoval'[q] = pendingRemoval[q]
  <1> USE DEF inboxVars, targetVars, runnerVars, requestVars
  <1>a. TypeOK
    BY DEF DeliveryInv
  <1>1. CASE RequestStep(r)
    BY <1>a, <1>1
    DEF TypeOK, RequestStep, ReceiveEvent, PrepareTrigger, QueueEvent, RefuseRecordedEvent, FinishPrepare
  <1>2. CASE RunnerStep(r)
    BY <1>a, <1>2
    DEF TypeOK, RunnerStep, StartRun, ReadReplay, ReadReplayFails, BeginPendingEvent, ActivateSource,
        TakeFromQueue, HandleTrigger, StartConsume
  <1>3. CASE TargetStep(r) /\ ~InboxStep(r)
    BY <1>a, <1>3
    DEF TypeOK, TargetStep, PendingEventFound, PendingEventGone, PendingReadFails, TargetConsumes,
        TargetFails, RemoveSucceeds, RemoveFails, StartConsume, Delivered
  <1>4. CASE InboxStep(r)
    BY <1>a, <1>4
    DEF TypeOK, InboxStep, UpdateStep, ReadForUpdate, ReadForUpdateFails, WriteSucceeds,
        WriteConflicts, WriteOutcomeUnknown, WriteFails, ObserveOwnWrite, ObserveOther
  <1>5. CASE StopRun(r) \/ Crash(r)
    BY <1>a, <1>5 DEF TypeOK, StopRun, Crash
  <1> QED BY <1>1, <1>2, <1>3, <1>4, <1>5 DEF ReplicaStep

\* A step of an update loop changes neither its event nor its kind, and does not
\* leave the loop.
LEMMA UpdateLoopStep ==
    ASSUME DeliveryInv, NEW r \in Replicas, UpdateStep(r)
    PROVE  /\ update[r].phase # "idle"
           /\ update'[r].event = update[r].event /\ update'[r].kind = update[r].kind
  <1>1. update[r] \in Updates /\ update \in [Replicas -> Updates]
    BY DEF DeliveryInv, TypeOK
  <1>2. CASE ReadForUpdate(r)
    <2>1. update'[r] = AfterRead(update[r], object')
      BY <1>1, <1>2 DEF ReadForUpdate
    <2> QED BY <1>1, <1>2, <2>1 DEF ReadForUpdate, AfterRead, Ended, Updates
  <1>3. CASE ReadForUpdateFails(r) \/ WriteSucceeds(r) \/ WriteFails(r) \/ ObserveOwnWrite(r)
    BY <1>1, <1>3 DEF ReadForUpdateFails, WriteSucceeds, WriteFails, ObserveOwnWrite, Ended, Updates
  <1>4. CASE WriteConflicts(r) \/ ObserveOther(r)
    <2>1. update'[r] = TryAgain(update[r])
      BY <1>1, <1>4 DEF WriteConflicts, ObserveOther
    <2> QED BY <1>1, <1>4, <2>1 DEF WriteConflicts, ObserveOther, TryAgain, Ended, Updates
  <1>5. CASE WriteOutcomeUnknown(r)
    BY <1>1, <1>5 DEF WriteOutcomeUnknown, Updates
  <1> QED BY <1>2, <1>3, <1>4, <1>5 DEF UpdateStep

\* Threads in the mutex keep owning their replica's update loop.
LEMMA HoldersStep ==
    ASSUME DeliveryInv, [Next]_vars
    PROVE  HoldersOwnTheirUpdate'
  <1> DEFINE Owns(h, u, n, t) ==
        /\ h # NoHolder => h.by # "none" /\ h.event \in Events
        /\ h.step # "update" => u = NoUpdate
        /\ h.by = "prepare" => h.step = "update"
        /\ h.step = "check" => h.by = "replay"
        /\ h.step = "update" =>
              /\ u.event = h.event
              /\ u.kind = IF h.by = "prepare" THEN "Add" ELSE "Remove"
        /\ h.by = "replay" => n = "replaying" /\ t # <<>>
  <1> SUFFICES ASSUME NEW q \in Replicas PROVE Owns(holder'[q], update'[q], run'[q], todo'[q])
    BY DEF HoldersOwnTheirUpdate, NoHolder, NoUpdate
  <1>a. TypeOK /\ Owns(holder[q], update[q], run[q], todo[q])
    BY DEF DeliveryInv, HoldersOwnTheirUpdate
  <1>n. Owns(NoHolder, NoUpdate, run'[q], todo'[q])
    BY DEF NoHolder
  <1>1. CASE /\ holder'[q] = holder[q] /\ update'[q] = update[q]
             /\ run'[q] = run[q] /\ todo'[q] = todo[q]
    BY <1>1, <1>a
  <1>2. CASE UNCHANGED vars \/ LateWrite
    BY <1>1, <1>2 DEF vars, inboxVars, targetVars, runnerVars, LateWrite
  <1>3. ASSUME NEW r \in Replicas, ReplicaStep(r), r # q
        PROVE  Owns(holder'[q], update'[q], run'[q], todo'[q])
    BY <1>1, <1>3, OthersUnchanged
  <1>4. ASSUME ReplicaStep(q) PROVE Owns(holder'[q], update'[q], run'[q], todo'[q])
    <2> USE DEF inboxVars, targetVars, runnerVars, requestVars
    <2>1. CASE RequestStep(q)
      <3>1. ASSUME NEW e \in Events, PrepareTrigger(q, e)
            PROVE  Owns(holder'[q], update'[q], run'[q], todo'[q])
        BY <1>a, <3>1 DEF TypeOK, PrepareTrigger, Holding, Starting
      <3>2. CASE FinishPrepare(q)
        BY <1>a, <1>n, <3>2 DEF TypeOK, FinishPrepare
      <3> QED BY <1>1, <2>1, <3>1, <3>2 DEF RequestStep, ReceiveEvent, QueueEvent, RefuseRecordedEvent
    <2>2. CASE StartRun(q) \/ ReadReplay(q) \/ ReadReplayFails(q) \/ ActivateSource(q) \/ TakeFromQueue(q)
      BY <1>a, <2>2 DEF TypeOK, StartRun, ReadReplay, ReadReplayFails, ActivateSource, TakeFromQueue
    <2>3. CASE BeginPendingEvent(q)
      <3>1. Head(todo[q]) \in Events
        BY <2>3, HandsHoldEvents DEF BeginPendingEvent
      <3> QED BY <1>a, <2>3, <3>1 DEF TypeOK, BeginPendingEvent, Holding, NoHolder
    <2>4. CASE HandleTrigger(q)
      BY <1>a, <2>4, HandsHoldEvents
      DEF TypeOK, HandleTrigger, StartConsume, NextConsumeStep, Holding, Starting
    <2>5. CASE PendingEventFound(q)
      <3>1. holder[q].by = "replay" /\ holder[q].event \in Events
        BY <1>a, <2>5 DEF PendingEventFound, NoHolder
      <3> QED BY <1>a, <2>5, <3>1
              DEF TypeOK, PendingEventFound, StartConsume, NextConsumeStep, Holding, Starting
    <2>6. CASE PendingEventGone(q) \/ PendingReadFails(q) \/ TargetFails(q)
      <3>1. holder'[q] = NoHolder /\ update'[q] = NoUpdate
        BY <1>a, <2>6 DEF TypeOK, PendingEventGone, PendingReadFails, TargetFails
      <3> QED BY <1>n, <3>1
    <2>7. CASE TargetConsumes(q)
      <3>1. /\ holder'[q] = [holder[q] EXCEPT !.step = "update"] /\ holder[q].step = "target"
            /\ update'[q] = Starting("Remove", holder[q].event)
            /\ run'[q] = run[q] /\ todo'[q] = todo[q] /\ holder[q] \in Holders
        BY <1>a, <2>7 DEF TypeOK, TargetConsumes
      <3>2. holder[q] # NoHolder /\ holder[q].by # "prepare"
        BY <1>a, <3>1 DEF NoHolder
      <3> QED BY <1>a, <3>1, <3>2 DEF Starting, Holders
    <2>8. CASE RemoveSucceeds(q) \/ RemoveFails(q)
      <3>1. holder'[q] = NoHolder /\ update'[q] = NoUpdate
        BY <1>a, <2>8 DEF TypeOK, RemoveSucceeds, RemoveFails
      <3> QED BY <1>n, <3>1
    <2>9. CASE InboxStep(q)
      <3>1. /\ holder'[q] = holder[q] /\ run'[q] = run[q] /\ todo'[q] = todo[q]
            /\ update'[q].event = update[q].event /\ update'[q].kind = update[q].kind
            /\ holder[q].step = "update"
        BY <2>9, UpdateLoopStep, UpdateHasEvent DEF InboxStep
      <3> QED BY <1>a, <3>1
    <2>10. CASE StopRun(q)
      BY <1>a, <2>10 DEF TypeOK, StopRun
    <2>11. CASE Crash(q)
      BY <1>a, <1>n, <2>11 DEF TypeOK, Crash
    <2> QED
      BY <1>4, <2>1, <2>2, <2>3, <2>4, <2>5, <2>6, <2>7, <2>8, <2>9, <2>10, <2>11
      DEF ReplicaStep, RunnerStep, TargetStep
  <1> QED BY <1>2, <1>3, <1>4 DEF Next

\* Every removal under way stays one of a consumed event.
LEMMA RemovalsStep ==
    ASSUME DeliveryInv, [Next]_vars
    PROVE  RemovalsFollowConsumption'
  <1>a. TypeOK /\ consumed \subseteq consumed'
    BY SafeStep DEF DeliveryInv
  <1>1. ASSUME NEW w \in late' PROVE IsChange(w.expected, w.contents)'
    <2>1. IsChange(w.expected, w.contents)
      BY StoreStep DEF DeliveryInv, RemovalsFollowConsumption
    <2> QED BY <1>a, <2>1 DEF IsChange, AddEvent, RemoveEvent, Pending, Elements
  <1>2. ASSUME NEW q \in Replicas
        PROVE  /\ pendingRemoval'[q] \subseteq consumed'
               /\ update'[q].kind = "Remove" => update'[q].event \in consumed'
    <2> DEFINE Removes(p, u) == p \subseteq consumed' /\ (u.kind = "Remove" => u.event \in consumed')
    <2> SUFFICES Removes(pendingRemoval'[q], update'[q])
      OBVIOUS
    <2>a. Removes(pendingRemoval[q], update[q]) /\ Removes(pendingRemoval[q], NoUpdate)
      BY <1>a DEF DeliveryInv, RemovalsFollowConsumption, NoUpdate
    <2>1. CASE pendingRemoval'[q] = pendingRemoval[q] /\ update'[q] \in {update[q], NoUpdate}
      BY <2>1, <2>a
    <2>2. CASE UNCHANGED vars \/ LateWrite
      BY <2>1, <2>2 DEF vars, inboxVars, targetVars, LateWrite
    <2>3. ASSUME NEW r \in Replicas, ReplicaStep(r), r # q PROVE Removes(pendingRemoval'[q], update'[q])
      BY <2>1, <2>3, OthersUnchanged
    <2>4. ASSUME ReplicaStep(q) PROVE Removes(pendingRemoval'[q], update'[q])
      <3> USE DEF inboxVars, targetVars, runnerVars, requestVars
      <3>1. CASE RequestStep(q)
        <4>1. ASSUME NEW e \in Events, PrepareTrigger(q, e) PROVE Removes(pendingRemoval'[q], update'[q])
          BY <1>a, <2>a, <4>1 DEF TypeOK, PrepareTrigger, Starting
        <4>2. CASE FinishPrepare(q)
          BY <1>a, <2>1, <4>2 DEF TypeOK, FinishPrepare
        <4> QED BY <2>1, <3>1, <4>1, <4>2 DEF RequestStep, ReceiveEvent, QueueEvent, RefuseRecordedEvent
      <3>2. CASE RunnerStep(q) /\ ~HandleTrigger(q)
        BY <2>1, <3>2 DEF RunnerStep, StartRun, ReadReplay, ReadReplayFails, BeginPendingEvent,
                          ActivateSource, TakeFromQueue
      <3>3. CASE HandleTrigger(q) \/ PendingEventFound(q)
        BY <1>a, <2>a, <3>3 DEF TypeOK, HandleTrigger, PendingEventFound, StartConsume, Starting
      <3>4. CASE PendingEventGone(q) \/ PendingReadFails(q) \/ TargetFails(q)
        BY <2>1, <3>4 DEF PendingEventGone, PendingReadFails, TargetFails
      <3>5. CASE TargetConsumes(q)
        BY <1>a, <2>a, <3>5 DEF TypeOK, TargetConsumes, Starting
      <3>6. CASE RemoveSucceeds(q)
        BY <1>a, <2>a, <3>6 DEF TypeOK, RemoveSucceeds
      <3>7. CASE RemoveFails(q)
        <4>1. update[q].phase # "idle" /\ holder[q].by # "prepare"
          BY <3>7 DEF RemoveFails
        <4>2. holder[q].event \in consumed
          BY <4>1, UpdateHasEvent
        <4> QED BY <1>a, <2>a, <3>7, <4>2 DEF TypeOK, RemoveFails
      <3>8. CASE InboxStep(q)
        BY <2>a, <3>8, UpdateLoopStep DEF InboxStep
      <3>9. CASE StopRun(q) \/ Crash(q)
        BY <1>a, <2>a, <3>9 DEF TypeOK, StopRun, Crash
      <3> QED
        BY <2>4, <3>1, <3>2, <3>3, <3>4, <3>5, <3>6, <3>7, <3>8, <3>9
        DEF ReplicaStep, RunnerStep, TargetStep
    <2> QED BY <2>2, <2>3, <2>4 DEF Next
  <1> QED BY <1>1, <1>2 DEF RemovalsFollowConsumption

\* What a replica still has to deliver it took from what is recorded or consumed.
LEMMA InHandStep ==
    ASSUME DeliveryInv, [Next]_vars
    PROVE  InHandIsRecorded'
  <1> DEFINE Safe == Recorded' \union consumed'
  <1> DEFINE Hand(k, t, c, h) ==
        Elements(k) \union Elements(t) \union
        (({c} \union (IF h.by \in {"replay", "deliver"} THEN {h.event} ELSE {})) \ {NoEvent})
  <1> SUFFICES ASSUME NEW q \in Replicas
               PROVE  Hand(queue'[q], todo'[q], current'[q], holder'[q]) \subseteq Safe
    BY DEF InHandIsRecorded, InHand, Elements
  <1>a. TypeOK /\ Hand(queue[q], todo[q], current[q], holder[q]) \subseteq Safe
    BY SafeStep DEF DeliveryInv, InHandIsRecorded, InHand
  <1>b. Elements(<<>>) = {}
    BY DEF Elements
  <1>h. NoHolder.by \notin {"replay", "deliver"}
    BY DEF NoHolder
  <1>t. Elements(Pending(object')) \subseteq Safe
    BY DEF Recorded
  <1>s. /\ queue[q] \in Seq(Events) /\ todo[q] \in Seq(Events)
        /\ queue[q] # <<>> => Head(queue[q]) \in Elements(queue[q]) /\ Elements(Tail(queue[q])) \subseteq Elements(queue[q])
        /\ todo[q] # <<>> => Head(todo[q]) \in Elements(todo[q]) /\ Elements(Tail(todo[q])) \subseteq Elements(todo[q])
        /\ holder[q].by = "replay" \/ holder[q].step = "check" => todo[q] # <<>> /\ holder[q].by = "replay"
    BY <1>a, ElementsHeadTail DEF TypeOK, DeliveryInv, HoldersOwnTheirUpdate
  <1>1. CASE /\ queue'[q] = queue[q] /\ todo'[q] = todo[q] /\ current'[q] = current[q]
             /\ holder'[q] = holder[q] \/ holder'[q].by \notin {"replay", "deliver"}
    BY <1>1, <1>a
  <1>2. CASE UNCHANGED vars \/ LateWrite
    BY <1>1, <1>2 DEF vars, targetVars, runnerVars, requestVars, LateWrite
  <1>3. ASSUME NEW r \in Replicas, ReplicaStep(r), r # q
        PROVE  Hand(queue'[q], todo'[q], current'[q], holder'[q]) \subseteq Safe
    BY <1>1, <1>3, OthersUnchanged
  <1>4. ASSUME ReplicaStep(q)
        PROVE  Hand(queue'[q], todo'[q], current'[q], holder'[q]) \subseteq Safe
    <2> USE DEF inboxVars, targetVars, runnerVars, requestVars
    <2>1. ASSUME NEW e \in Events,
                 ReceiveEvent(q, e) \/ PrepareTrigger(q, e) \/ RefuseRecordedEvent(q, e)
          PROVE  Hand(queue'[q], todo'[q], current'[q], holder'[q]) \subseteq Safe
      BY <1>1, <1>a, <2>1 DEF TypeOK, ReceiveEvent, PrepareTrigger, RefuseRecordedEvent, Holding
    <2>2. ASSUME NEW e \in Events, QueueEvent(q, e)
          PROVE  Hand(queue'[q], todo'[q], current'[q], holder'[q]) \subseteq Safe
      <3>1. e \in Safe
        BY <2>2, SafeStep DEF QueueEvent, DeliveryInv, AddTookEffect
      <3>2. queue'[q] = Append(queue[q], e) /\ UNCHANGED <<todo, current, holder>>
        BY <1>a, <2>2 DEF TypeOK, QueueEvent
      <3>3. Elements(queue'[q]) = Elements(queue[q]) \union {e}
        BY <1>s, <3>2, ElementsAppend
      <3> QED BY <1>a, <3>1, <3>2, <3>3
    <2>3. CASE FinishPrepare(q)
      BY <1>1, <1>a, <1>h, <2>3 DEF TypeOK, FinishPrepare
    <2>4. CASE StartRun(q) \/ ReadReplayFails(q) \/ ActivateSource(q)
      BY <1>1, <2>4 DEF StartRun, ReadReplayFails, ActivateSource
    <2>5. CASE ReadReplay(q)
      <3>1. todo'[q] = Pending(object') /\ UNCHANGED <<queue, current, holder>>
        BY <1>a, <2>5 DEF TypeOK, ReadReplay
      <3> QED BY <1>a, <1>t, <3>1
    <2>6. CASE BeginPendingEvent(q)
      <3>1. holder'[q].event = Head(todo[q]) /\ UNCHANGED <<queue, todo, current>> /\ todo[q] # <<>>
        BY <1>a, <2>6 DEF TypeOK, BeginPendingEvent, Holding
      <3> QED BY <1>a, <1>s, <3>1
    <2>7. CASE TakeFromQueue(q)
      <3>1. /\ queue[q] # <<>> /\ queue'[q] = Tail(queue[q]) /\ current'[q] = Head(queue[q])
            /\ UNCHANGED <<todo, holder>>
        BY <1>a, <2>7 DEF TypeOK, TakeFromQueue
      <3> QED BY <1>a, <1>s, <3>1
    <2>8. CASE HandleTrigger(q)
      <3>1. /\ holder'[q].event = current[q] /\ current[q] # NoEvent
            /\ UNCHANGED <<queue, todo, current>>
        BY <1>a, <2>8 DEF TypeOK, HandleTrigger, StartConsume, Holding
      <3> QED BY <1>a, <3>1
    <2>9. CASE PendingEventFound(q)
      <3>1. holder'[q].event = holder[q].event /\ UNCHANGED <<queue, todo, current>>
        BY <1>a, <2>9 DEF TypeOK, PendingEventFound, StartConsume, Holding
      <3>2. holder[q].event \in Safe
        BY <1>t, <2>9 DEF PendingEventFound
      <3> QED BY <1>a, <3>1, <3>2
    <2>10. CASE PendingEventGone(q)
      <3>1. /\ todo'[q] = Tail(todo[q]) /\ todo[q] # <<>>
            /\ current'[q] = current[q] /\ queue'[q] = queue[q] /\ holder'[q] = NoHolder
        BY <1>a, <1>s, <2>10 DEF TypeOK, PendingEventGone, Delivered
      <3> QED BY <1>a, <1>s, <1>h, <3>1
    <2>11. CASE PendingReadFails(q) \/ TargetFails(q) \/ RemoveFails(q)
      BY <1>1, <1>a, <1>h, <2>11 DEF TypeOK, PendingReadFails, TargetFails, RemoveFails
    <2>12. CASE TargetConsumes(q)
      <3>1. /\ holder'[q].event = holder[q].event /\ holder'[q].by = holder[q].by
            /\ UNCHANGED <<queue, todo, current>>
        BY <1>a, <2>12 DEF TypeOK, TargetConsumes, Holders
      <3> QED BY <1>a, <3>1
    <2>13. CASE RemoveSucceeds(q)
      <3>1. /\ todo'[q] = todo[q] \/ (todo[q] # <<>> /\ todo'[q] = Tail(todo[q]))
            /\ current'[q] = current[q] \/ current'[q] = NoEvent
            /\ queue'[q] = queue[q] /\ holder'[q] = NoHolder
        BY <1>a, <1>s, <2>13 DEF TypeOK, RemoveSucceeds, Delivered
      <3> QED BY <1>a, <1>s, <1>h, <3>1
    <2>14. CASE InboxStep(q)
      BY <1>1, <2>14 DEF InboxStep
    <2>15. CASE StopRun(q) \/ Crash(q)
      <3>1. /\ queue'[q] \in {queue[q], <<>>} /\ todo'[q] = <<>> /\ current'[q] = NoEvent
            /\ holder'[q] \in {holder[q], NoHolder}
        BY <1>a, <2>15 DEF TypeOK, StopRun, Crash
      <3> QED BY <1>a, <1>b, <1>h, <3>1
    <2> QED
      BY <1>4, <2>1, <2>2, <2>3, <2>4, <2>5, <2>6, <2>7, <2>8, <2>9, <2>10, <2>11, <2>12, <2>13,
         <2>14, <2>15
      DEF ReplicaStep, RequestStep, RunnerStep, TargetStep
  <1> QED BY <1>2, <1>3, <1>4 DEF Next

\* An update loop that ends well has added its event, or finds it there.
LEMMA AddEndsRecorded ==
    ASSUME DeliveryInv, [Next]_vars, NEW r \in Replicas, UpdateStep(r),
           update'[r].kind = "Add", update'[r].phase = "ok"
    PROVE  update'[r].event \in Recorded'
  <1> DEFINE u == update[r]
  <1>1. /\ u \in Updates /\ update \in [Replicas -> Updates]
        /\ object' \in Contents /\ Pending(object') \in Seq(Events)
    BY StoreTypeStep, PendingIsSeq DEF DeliveryInv, TypeOK
  <1>2. u.phase # "idle" /\ u.kind = "Add" /\ update'[r].event = u.event
    BY UpdateLoopStep
  <1>3. u.event \in Events
    BY <1>2, UpdateHasEvent
  <1>4. NewContents(u) \in Seq(Events) /\ u.event \in Elements(NewContents(u))
    BY <1>2, UpdateWritesChange
  <1>5. CASE ReadForUpdate(r)
    <2>1. update'[r] = AfterRead(u, object') /\ u.phase = "read"
      BY <1>1, <1>5 DEF ReadForUpdate
    <2>2. Change(u, Pending(object')) = Pending(object')
      BY <1>1, <2>1 DEF AfterRead, Ended, Updates
    <2>3. AddEvent(Pending(object'), u.event) = Pending(object')
      BY <1>2, <2>2 DEF Change
    <2> QED BY <1>1, <1>2, <1>3, <2>3, AddEventElements DEF Recorded
  <1>6. CASE WriteSucceeds(r) \/ ObserveOwnWrite(r)
    <2>1. object' = NewContents(u)
      BY <1>6 DEF WriteSucceeds, ObserveOwnWrite, WriteAccepted
    <2>2. Pending(object') = NewContents(u)
      BY <1>4, <2>1, InboxAssumption DEF Pending
    <2> QED BY <1>2, <1>4, <2>2 DEF Recorded
  <1>7. CASE ReadForUpdateFails(r) \/ WriteFails(r) \/ WriteOutcomeUnknown(r)
    BY <1>1, <1>7 DEF ReadForUpdateFails, WriteFails, WriteOutcomeUnknown, Ended, Updates
  <1>8. CASE WriteConflicts(r) \/ ObserveOther(r)
    <2>1. update'[r] = TryAgain(u)
      BY <1>1, <1>8 DEF WriteConflicts, ObserveOther
    <2> QED BY <1>1, <2>1 DEF TryAgain, Ended, Updates
  <1> QED BY <1>5, <1>6, <1>7, <1>8 DEF UpdateStep

\* What was added stays recorded or consumed, and so does what a request recorded.
LEMMA AddStep ==
    ASSUME DeliveryInv, [Next]_vars
    PROVE  AddTookEffect'
  <1> DEFINE Safe == Recorded' \union consumed'
  <1> DEFINE Took(u, h) ==
        /\ u.kind = "Add" /\ u.phase = "ok" => u.event \in Safe
        /\ \A e \in Events : h[e] = "recorded" => e \in Safe
  <1> SUFFICES ASSUME NEW q \in Replicas PROVE Took(update'[q], request'[q])
    BY DEF AddTookEffect
  <1>a. TypeOK /\ Took(update[q], request[q]) /\ Took(NoUpdate, request[q])
    BY SafeStep DEF DeliveryInv, AddTookEffect, NoUpdate
  <1>b. \A e \in Events : request[q] \in [Events -> {"none", "admitted", "recorded"}]
    BY <1>a DEF TypeOK
  <1>1. CASE /\ update'[q] \in {update[q], NoUpdate} \/ update'[q].phase = "read"
             /\ \A e \in Events : request'[q][e] = "recorded" => request[q][e] = "recorded"
    BY <1>1, <1>a
  <1>2. CASE UNCHANGED vars \/ LateWrite
    BY <1>1, <1>2 DEF vars, inboxVars, requestVars, LateWrite
  <1>3. ASSUME NEW r \in Replicas, ReplicaStep(r), r # q PROVE Took(update'[q], request'[q])
    BY <1>1, <1>3, OthersUnchanged
  <1>4. ASSUME ReplicaStep(q) PROVE Took(update'[q], request'[q])
    <2> USE DEF inboxVars, targetVars, runnerVars, requestVars
    <2>1. ASSUME NEW e \in Events, ReceiveEvent(q, e) \/ QueueEvent(q, e) \/ RefuseRecordedEvent(q, e)
          PROVE  Took(update'[q], request'[q])
      <3>1. update'[q] = update[q]
        BY <2>1 DEF ReceiveEvent, QueueEvent, RefuseRecordedEvent
      <3>2. \A f \in Events : request'[q][f] = "recorded" => request[q][f] = "recorded"
        BY <1>a, <2>1 DEF TypeOK, ReceiveEvent, QueueEvent, RefuseRecordedEvent
      <3> QED BY <1>1, <3>1, <3>2
    <2>2. ASSUME NEW e \in Events, PrepareTrigger(q, e) PROVE Took(update'[q], request'[q])
      BY <1>1, <1>a, <2>2 DEF TypeOK, PrepareTrigger, Starting
    <2>3. CASE FinishPrepare(q)
      <3> DEFINE e == holder[q].event
      <3>1. update[q].phase # "idle" /\ update'[q] = NoUpdate
        BY <1>a, <2>3 DEF TypeOK, FinishPrepare
      <3>2. e \in Events /\ update[q].event = e /\ update[q].kind = "Add"
        BY <2>3, <3>1, UpdateHasEvent DEF FinishPrepare
      <3>3. \A f \in Events : f # e => request'[q][f] = request[q][f]
        BY <1>a, <2>3 DEF TypeOK, FinishPrepare
      <3>4. request'[q][e] = "recorded" => e \in Safe
        BY <1>a, <2>3, <3>2 DEF TypeOK, FinishPrepare, PrepareOutcome
      <3> QED BY <1>a, <3>1, <3>3, <3>4
    <2>4. CASE RunnerStep(q) /\ ~HandleTrigger(q)
      BY <1>1, <2>4 DEF RunnerStep, StartRun, ReadReplay, ReadReplayFails, BeginPendingEvent,
                        ActivateSource, TakeFromQueue
    <2>5. CASE HandleTrigger(q) \/ PendingEventFound(q)
      BY <1>1, <1>a, <2>5 DEF TypeOK, HandleTrigger, PendingEventFound, StartConsume, Starting
    <2>6. CASE PendingEventGone(q) \/ PendingReadFails(q) \/ TargetFails(q)
      BY <1>1, <2>6 DEF PendingEventGone, PendingReadFails, TargetFails
    <2>7. CASE TargetConsumes(q)
      BY <1>1, <1>a, <2>7 DEF TypeOK, TargetConsumes, Starting
    <2>8. CASE RemoveSucceeds(q) \/ RemoveFails(q)
      BY <1>1, <1>a, <2>8 DEF TypeOK, RemoveSucceeds, RemoveFails
    <2>9. CASE InboxStep(q)
      BY <1>a, <2>9, AddEndsRecorded DEF InboxStep
    <2>10. CASE StopRun(q) \/ Crash(q)
      BY <1>1, <1>a, <2>10 DEF TypeOK, StopRun, Crash
    <2> QED
      BY <1>4, <2>1, <2>2, <2>3, <2>4, <2>5, <2>6, <2>7, <2>8, <2>9, <2>10
      DEF ReplicaStep, RequestStep, RunnerStep, TargetStep
  <1> QED BY <1>2, <1>3, <1>4 DEF Next

\* The endpoint acknowledges only an event whose request was recorded.
LEMMA AckedStep ==
    ASSUME DeliveryInv, [Next]_vars
    PROVE  \/ acked' = acked
           \/ \E e \in Events : /\ e \in Recorded \union consumed
                                /\ acked' = acked \union {e}
                                /\ UNCHANGED <<object, late, consumed>>
  <1> DEFINE Effect == \/ acked' = acked
                       \/ \E e \in Events : /\ e \in Recorded \union consumed
                                            /\ acked' = acked \union {e}
                                            /\ UNCHANGED <<object, late, consumed>>
  <1> SUFFICES Effect
    OBVIOUS
  <1> USE DEF inboxVars, targetVars, requestVars
  <1>1. CASE UNCHANGED vars \/ LateWrite
    BY <1>1 DEF vars, LateWrite
  <1>2. ASSUME NEW r \in Replicas, ReplicaStep(r) PROVE Effect
    <2>1. ASSUME NEW e \in Events, QueueEvent(r, e) PROVE Effect
      <3>1. e \in Recorded \union consumed
        BY <2>1 DEF QueueEvent, DeliveryInv, AddTookEffect
      <3> QED BY <2>1, <3>1 DEF QueueEvent
    <2>2. CASE RequestStep(r)
      BY <2>1, <2>2 DEF RequestStep, ReceiveEvent, PrepareTrigger, RefuseRecordedEvent, FinishPrepare
    <2>3. CASE RunnerStep(r)
      BY <2>3 DEF RunnerStep, StartRun, ReadReplay, ReadReplayFails, BeginPendingEvent,
                  ActivateSource, TakeFromQueue, HandleTrigger
    <2>4. CASE TargetStep(r)
      BY <2>4 DEF TargetStep, PendingEventFound, PendingEventGone, PendingReadFails, TargetConsumes,
                  TargetFails, RemoveSucceeds, RemoveFails, InboxStep
    <2>5. CASE StopRun(r) \/ Crash(r)
      BY <2>5 DEF StopRun, Crash
    <2> QED BY <1>2, <2>2, <2>3, <2>4, <2>5 DEF ReplicaStep
  <1> QED BY <1>1, <1>2 DEF Next
-----------------------------------------------------------------------------
\* The initial state satisfies the inductive invariant of delivery.
LEMMA DeliveryInit == Init => DeliveryInv
  <1> SUFFICES ASSUME Init PROVE DeliveryInv
    OBVIOUS
  <1> USE DEF Init, InboxInit, StoreInit
  <1>1. TypeOK
    BY InboxAssumption, DeliveryAssumption
    DEF TypeOK, NoUpdate, Updates, Contents, NoHolder, Holders
  <1>2. HoldersOwnTheirUpdate
    BY DEF HoldersOwnTheirUpdate, NoHolder
  <1>3. RemovalsFollowConsumption
    BY DEF RemovalsFollowConsumption, NoUpdate
  <1>4. InHandIsRecorded
    BY DEF InHandIsRecorded, InHand, NoHolder, Elements
  <1>5. AddTookEffect /\ AckedNeverLost
    BY DEF AddTookEffect, AckedNeverLost, NoUpdate
  <1> QED BY <1>1, <1>2, <1>3, <1>4, <1>5 DEF DeliveryInv

\* DeliveryInv is inductive.
LEMMA DeliveryStep == DeliveryInv /\ [Next]_vars => DeliveryInv'
  <1> SUFFICES ASSUME DeliveryInv, [Next]_vars PROVE DeliveryInv'
    OBVIOUS
  <1>1. AckedNeverLost'
    BY SafeStep, AckedStep DEF DeliveryInv, AckedNeverLost
  <1> QED BY <1>1, TypeStep, HoldersStep, RemovalsStep, InHandStep, AddStep DEF DeliveryInv

\* The inductive invariant of delivery holds in every behaviour.
THEOREM DeliveryInvariant == Spec => []DeliveryInv
  BY DeliveryInit, DeliveryStep, PTL DEF Spec

\* Every variable of delivery keeps its type, for every number of replicas, events,
\* requests, crashes and late writes.
THEOREM TypeCorrect == Spec => []TypeOK
  <1>1. DeliveryInv => TypeOK
    BY DEF DeliveryInv
  <1> QED BY <1>1, DeliveryInvariant, PTL

\* An event answered with 200 is in the inbox or was consumed, whatever crashes,
\* conflicts, unknown outcomes and late writes happen to however many replicas.
THEOREM NoAckedEventLost == Spec => []AckedNeverLost
  <1>1. DeliveryInv => AckedNeverLost
    BY DEF DeliveryInv
  <1> QED BY <1>1, DeliveryInvariant, PTL

\* An update loop that reported success took effect, and what it did is not undone
\* before the event is consumed.
THEOREM AddsTakeEffect == Spec => []AddTookEffect
  <1>1. DeliveryInv => AddTookEffect
    BY DEF DeliveryInv
  <1> QED BY <1>1, DeliveryInvariant, PTL

\* The event that the target is about to consume is recorded, or was consumed before.
LEMMA TargetIsRecorded ==
    ASSUME DeliveryInv, NEW r \in Replicas, holder[r].step = "target"
    PROVE  holder[r].event \in Recorded \union consumed
  <1>1. holder[r] # NoHolder
    BY DEF NoHolder
  <1>2. holder[r].by \in {"replay", "deliver"} /\ holder[r].event \in Events
    BY <1>1 DEF DeliveryInv, HoldersOwnTheirUpdate, TypeOK, Holders
  <1>3. holder[r].event # NoEvent
    BY <1>2, InboxAssumption
  <1> QED BY <1>2, <1>3 DEF DeliveryInv, InHandIsRecorded, InHand

\* Durable delivery implements the abstract ledger: every step of it is a step of the
\* ledger or invisible to it.
THEOREM DeliveryImplementsLedger == Spec => ImplementsLedger
  <1>1. Init => Ledger!Init
    BY DEF Init, InboxInit, StoreInit, Ledger!Init, Recorded, Pending, Elements
  <1>2. DeliveryInv /\ [Next]_vars => [Ledger!Next]_(Ledger!ledgerVars)
    <2> SUFFICES ASSUME DeliveryInv, [Next]_vars
                 PROVE  Ledger!Next \/ UNCHANGED <<Recorded, acked, consumed>>
      BY DEF Ledger!ledgerVars
    <2>1. CASE consumed' # consumed
      <3>1. PICK r \in Replicas : /\ holder[r].step = "target" /\ holder[r].event \in Events
                                  /\ consumed' = consumed \union {holder[r].event}
                                  /\ UNCHANGED <<object, late, acked>>
        BY <2>1, ConsumedStep
      <3>2. holder[r].event \in Recorded
        BY <2>1, <3>1, TargetIsRecorded
      <3>3. Ledger!Consume(holder[r].event)
        BY <3>1, <3>2 DEF Ledger!Consume, Recorded
      <3> QED BY <3>1, <3>3 DEF Ledger!Next
    <2>2. CASE acked' # acked
      <3>1. PICK e \in Events : /\ e \in Recorded \union consumed
                                /\ acked' = acked \union {e}
                                /\ UNCHANGED <<object, late, consumed>>
        BY <2>2, AckedStep
      <3>2. Ledger!Acknowledge(e)
        BY <3>1 DEF Ledger!Acknowledge, Recorded
      <3> QED BY <3>2 DEF Ledger!Next
    <2>3. CASE UNCHANGED <<consumed, acked, object>>
      BY <2>3 DEF Recorded
    <2>4. CASE UNCHANGED <<consumed, acked>> /\ object' # object
      <3>1. object \in Contents /\ consumed \subseteq Events /\ IsChange(object, object')
        BY <2>4, StoreStep DEF DeliveryInv, TypeOK
      <3>2. /\ object' \in Seq(Events)
            /\ \/ Elements(object') = Elements(Pending(object))
               \/ \E e \in Events : Elements(object') = Elements(Pending(object)) \union {e}
               \/ \E e \in consumed : Elements(object') = Elements(Pending(object)) \ {e}
        BY <3>1, ChangeElements
      <3>3. Recorded' = Elements(object')
        BY <3>2, InboxAssumption DEF Recorded, Pending
      <3>4. CASE Recorded' = Recorded
        BY <2>4, <3>4
      <3>5. ASSUME NEW e \in Events, Recorded' = Recorded \union {e} PROVE Ledger!Next
        BY <2>4, <3>5 DEF Ledger!Next, Ledger!Record
      <3>6. ASSUME NEW e \in consumed, Recorded' = Recorded \ {e} PROVE Ledger!Next
        BY <2>4, <3>1, <3>6 DEF Ledger!Next, Ledger!Forget
      <3> QED BY <3>2, <3>3, <3>4, <3>5, <3>6 DEF Recorded
    <2> QED BY <2>1, <2>2, <2>3, <2>4
  <1> QED BY <1>1, <1>2, DeliveryInvariant, PTL DEF Spec, ImplementsLedger, Ledger!Spec
-----------------------------------------------------------------------------
(* The inbox keeps its bound and holds no event twice.  Every write is made *)
(* from a document that was read, so what matters is that the document that *)
(* each write under way would store is well formed, also a late one.        *)

\* A document of at most MaxPending events, none of them twice.
Fits(s) ==
    /\ Len(s) <= MaxPending
    /\ \A i, j \in 1..Len(s) : s[i] = s[j] => i = j

WritesFit ==
    /\ Fits(Pending(object))
    /\ \A r \in Replicas : update[r].phase \in {"write", "observe"} => Fits(NewContents(update[r]))
    /\ \A w \in late : Fits(w.contents)

\* Adding an event to a document that has room for it, or holds it, keeps it well formed.
LEMMA AddEventFits ==
    ASSUME NEW s \in Seq(Events), NEW e \in Events, Fits(s), e \in Elements(s) \/ Len(s) < MaxPending
    PROVE  Fits(AddEvent(s, e))
  <1>1. CASE e \in Elements(s)
    BY <1>1 DEF AddEvent
  <1>2. CASE e \notin Elements(s)
    <2>1. AddEvent(s, e) = Append(s, e) /\ Len(s) < MaxPending
      BY <1>2 DEF AddEvent
    <2>2. Len(s) \in Nat /\ Len(Append(s, e)) = Len(s) + 1
      OBVIOUS
    <2>3. \A i \in 1..(Len(s) + 1) : Append(s, e)[i] = IF i <= Len(s) THEN s[i] ELSE e
      OBVIOUS
    <2>4. \A i \in 1..Len(s) : s[i] # e
      BY <1>2 DEF Elements
    <2>5. \A i, j \in 1..(Len(s) + 1) : Append(s, e)[i] = Append(s, e)[j] => i = j
      BY <2>2, <2>3, <2>4 DEF Fits
    <2> QED BY <2>1, <2>2, <2>5, InboxAssumption DEF Fits
  <1> QED BY <1>1, <1>2

\* Removing an event keeps a document well formed.
LEMMA RemoveEventFits ==
    ASSUME NEW s \in Seq(Events), NEW e \in Events, Fits(s)
    PROVE  Fits(RemoveEvent(s, e))
  <1> DEFINE rest == RemoveEvent(s, e)
  <1>1. CASE e \notin Elements(s)
    BY <1>1 DEF RemoveEvent
  <1>2. CASE e \in Elements(s)
    <2>1. Len(s) \in Nat /\ Len(rest) = Len(s) - 1
      BY <1>2, RemoveEventShifts
    <2>2. PICK index \in 1..Len(s) :
             \A k \in 1..(Len(s) - 1) : rest[k] = IF k < index THEN s[k] ELSE s[k + 1]
      BY <1>2, RemoveEventShifts
    <2> HIDE DEF rest
    <2>3. ASSUME NEW i \in 1..Len(rest), NEW j \in 1..Len(rest), rest[i] = rest[j] PROVE i = j
      <3> DEFINE Origin(k) == IF k < index THEN k ELSE k + 1
      <3>1. /\ Origin(i) \in 1..Len(s) /\ rest[i] = s[Origin(i)]
            /\ Origin(j) \in 1..Len(s) /\ rest[j] = s[Origin(j)]
        BY <2>1, <2>2
      <3>2. Origin(i) = Origin(j)
        BY <2>3, <3>1 DEF Fits
      <3> QED BY <2>1, <2>2, <3>2
    <2> QED BY <2>1, <2>3, InboxAssumption DEF Fits, rest
  <1> QED BY <1>1, <1>2

\* An update loop that goes on to write has found room for what it adds.
LEMMA AfterReadFits ==
    ASSUME NEW u \in Updates, NEW c \in Contents, Fits(Pending(c)), u.event \in Events,
           AfterRead(u, c).phase \in {"write", "observe"}
    PROVE  Fits(NewContents(AfterRead(u, c)))
  <1> DEFINE s == Pending(c)
  <1>1. s \in Seq(Events) /\ Len(s) \in Nat
    BY PendingIsSeq
  <1>2. Ended(u, "ok").phase = "ok" /\ Ended(u, "failed").phase = "failed"
    BY DEF Ended, Updates
  <1>3. ~IsInboxFull(u, s) /\ AfterRead(u, c) = [u EXCEPT !.phase = "write", !.base = c]
    BY <1>2 DEF AfterRead
  <1>4. NewContents(AfterRead(u, c)) = Change(u, s)
    BY <1>3 DEF NewContents, Change, Updates
  <1>5. CASE u.kind = "Add"
    <2>1. u.event \in Elements(s) \/ Len(s) < MaxPending
      BY <1>1, <1>3, <1>5, InboxAssumption DEF IsInboxFull
    <2> QED BY <1>1, <1>4, <1>5, <2>1, AddEventFits DEF Change
  <1>6. CASE u.kind # "Add"
    BY <1>1, <1>4, <1>6, RemoveEventFits DEF Change
  <1> QED BY <1>5, <1>6

\* A write of a well-formed document leaves the store well formed, whenever it lands.
LEMMA WritesKeepFit ==
    ASSUME WritesFit, NEW from, NEW to \in Seq(Events), Fits(to),
           WriteAccepted(from, to) \/ WriteUnknown(from, to)
    PROVE  Fits(Pending(object')) /\ \A w \in late' : Fits(w.contents)
  <1>1. Pending(to) = to
    BY InboxAssumption DEF Pending
  <1>2. CASE WriteAccepted(from, to)
    BY <1>1, <1>2 DEF WriteAccepted, WritesFit
  <1>3. CASE UNCHANGED storeVars
    BY <1>3 DEF storeVars, WritesFit
  <1>4. CASE late' = late \union {[expected |-> from, contents |-> to]} /\ UNCHANGED object
    BY <1>4 DEF WritesFit
  <1> QED BY <1>2, <1>3, <1>4 DEF WriteUnknown

\* Reading the head stores the empty document at most.
LEMMA ReadHeadFits ==
    ASSUME WritesFit, NEW r \in Replicas, ReadHead(r) \/ ReadHeadFails(r)
    PROVE  Fits(Pending(object')) /\ \A w \in late' : Fits(w.contents)
  <1>1. <<>> \in Seq(Events) /\ Fits(<<>>)
    BY InboxAssumption DEF Fits
  <1>2. CASE WriteAccepted(Absent, <<>>) \/ WriteUnknown(Absent, <<>>)
    BY <1>1, <1>2, WritesKeepFit
  <1>3. CASE UNCHANGED <<object, late>>
    BY <1>3 DEF WritesFit
  <1> QED BY <1>2, <1>3 DEF ReadHead, ReadHeadFails, WriteRefused, storeVars

\* Every step leaves a well-formed document in the store and on its way to it.
LEMMA StoreFitsStep ==
    ASSUME DeliveryInv, WritesFit, [Next]_vars
    PROVE  Fits(Pending(object')) /\ \A w \in late' : Fits(w.contents)
  <1> DEFINE Effect == Fits(Pending(object')) /\ \A w \in late' : Fits(w.contents)
  <1>1. CASE UNCHANGED <<object, late>>
    BY <1>1 DEF WritesFit
  <1>2. CASE LateWrite
    <2>1. PICK w \in late : /\ late' = late \ {w}
                            /\ object' = IF object = w.expected THEN w.contents ELSE object
      BY <1>2 DEF LateWrite, LateWriteArrives
    <2>2. w.contents \in Seq(Events)
      BY DEF DeliveryInv, TypeOK
    <2>3. Pending(w.contents) = w.contents
      BY <2>2, InboxAssumption DEF Pending
    <2> QED BY <2>1, <2>3 DEF WritesFit
  <1>3. ASSUME NEW r \in Replicas, ReplicaStep(r), ~UNCHANGED <<object, late>> PROVE Effect
    <2>1. CASE ReadHead(r) \/ ReadHeadFails(r)
      BY <2>1, ReadHeadFits
    <2>2. CASE InboxStep(r)
      <3>1. CASE ReadForUpdate(r) \/ ReadForUpdateFails(r)
        BY <2>1, <3>1 DEF ReadForUpdate, ReadForUpdateFails
      <3>2. CASE WriteSucceeds(r) \/ WriteOutcomeUnknown(r)
        <4>1. update[r].phase = "write"
          BY <3>2 DEF WriteSucceeds, WriteOutcomeUnknown
        <4>2. NewContents(update[r]) \in Seq(Events) /\ Fits(NewContents(update[r]))
          BY <4>1, UpdateWritesChange DEF WritesFit
        <4> QED BY <3>2, <4>2, WritesKeepFit DEF WriteSucceeds, WriteOutcomeUnknown
      <3>3. CASE WriteConflicts(r) \/ WriteFails(r) \/ ObserveOwnWrite(r) \/ ObserveOther(r)
        BY <1>3, <3>3
        DEF WriteConflicts, WriteFails, ObserveOwnWrite, ObserveOther, WriteRefused, storeVars
      <3> QED BY <2>2, <3>1, <3>2, <3>3 DEF InboxStep, UpdateStep
    <2>3. CASE \/ ReadReplay(r) \/ ReadReplayFails(r)
               \/ PendingEventFound(r) \/ PendingEventGone(r) \/ PendingReadFails(r)
      BY <2>1, <2>3 DEF ReadReplay, ReadReplayFails, PendingEventFound, PendingEventGone, PendingReadFails
    <2> QED BY <1>3, <2>2, <2>3, StoreUntouched DEF ReplicaStep, RunnerStep, TargetStep
  <1>4. CASE UNCHANGED vars
    BY <1>1, <1>4 DEF vars, inboxVars
  <1> QED BY <1>1, <1>2, <1>3, <1>4 DEF Next

\* Outside its steps an update loop is entered at its first read or left.
LEMMA UpdatesBegin ==
    ASSUME DeliveryInv, NEW q \in Replicas, ReplicaStep(q), ~InboxStep(q)
    PROVE  update'[q] = update[q] \/ update'[q].phase \in {"idle", "read"}
  <1> USE DEF inboxVars, targetVars, runnerVars, requestVars, NoUpdate, Starting
  <1>a. TypeOK
    BY DEF DeliveryInv
  <1>1. CASE RequestStep(q)
    BY <1>a, <1>1
    DEF TypeOK, RequestStep, ReceiveEvent, PrepareTrigger, QueueEvent, RefuseRecordedEvent, FinishPrepare
  <1>2. CASE RunnerStep(q) /\ ~HandleTrigger(q)
    BY <1>2 DEF RunnerStep, StartRun, ReadReplay, ReadReplayFails, BeginPendingEvent,
                ActivateSource, TakeFromQueue
  <1>3. CASE HandleTrigger(q) \/ PendingEventFound(q)
    BY <1>a, <1>3 DEF TypeOK, HandleTrigger, PendingEventFound, StartConsume
  <1>4. CASE PendingEventGone(q) \/ PendingReadFails(q) \/ TargetFails(q)
    BY <1>4 DEF PendingEventGone, PendingReadFails, TargetFails
  <1>5. CASE TargetConsumes(q) \/ RemoveSucceeds(q) \/ RemoveFails(q)
    BY <1>a, <1>5 DEF TypeOK, TargetConsumes, RemoveSucceeds, RemoveFails
  <1>6. CASE StopRun(q) \/ Crash(q)
    BY <1>a, <1>6 DEF TypeOK, StopRun, Crash
  <1> QED BY <1>1, <1>2, <1>3, <1>4, <1>5, <1>6 DEF ReplicaStep, RunnerStep, TargetStep

\* Only an update loop that has read the document decides on a write, and keeps to it.
LEMMA UpdateFitsStep ==
    ASSUME DeliveryInv, WritesFit, [Next]_vars, NEW q \in Replicas,
           update'[q].phase \in {"write", "observe"}
    PROVE  Fits(NewContents(update'[q]))
  <1> DEFINE Effect == Fits(NewContents(update'[q]))
  <1>a. TypeOK /\ update[q] \in Updates /\ update \in [Replicas -> Updates]
    BY DEF DeliveryInv, TypeOK
  <1>1. CASE update'[q] = update[q]
    BY <1>1 DEF WritesFit
  <1>2. CASE UNCHANGED vars \/ LateWrite
    BY <1>1, <1>2 DEF vars, inboxVars, LateWrite
  <1>3. ASSUME NEW r \in Replicas, ReplicaStep(r), r # q PROVE Effect
    BY <1>1, <1>3, OthersUnchanged
  <1>4. CASE InboxStep(q)
    <2> DEFINE u == update[q]
    <2>1. CASE ReadForUpdate(q)
      <3>1. update'[q] = AfterRead(u, object') /\ u.phase = "read"
        BY <1>a, <2>1 DEF ReadForUpdate
      <3>2. u.event \in Events /\ object' \in Contents /\ Fits(Pending(object'))
        BY <3>1, UpdateHasEvent, StoreTypeStep, StoreFitsStep
      <3> QED BY <1>a, <3>1, <3>2, AfterReadFits
    <2>2. CASE \/ ReadForUpdateFails(q) \/ WriteSucceeds(q) \/ WriteFails(q) \/ ObserveOwnWrite(q)
      <3>1. update'[q] \in {Ended(u, "ok"), Ended(u, "failed")}
        BY <1>a, <2>2 DEF ReadForUpdateFails, WriteSucceeds, WriteFails, ObserveOwnWrite
      <3> QED BY <1>a, <3>1 DEF Ended, Updates
    <2>3. CASE WriteConflicts(q) \/ ObserveOther(q)
      <3>1. update'[q] = TryAgain(u)
        BY <1>a, <2>3 DEF WriteConflicts, ObserveOther
      <3> QED BY <1>a, <3>1 DEF TryAgain, Ended, Updates
    <2>4. CASE WriteOutcomeUnknown(q)
      <3>1. update'[q] = [u EXCEPT !.phase = "observe"] /\ u.phase = "write"
        BY <1>a, <2>4 DEF WriteOutcomeUnknown
      <3>2. NewContents(update'[q]) = NewContents(u)
        BY <1>a, <3>1 DEF NewContents, Change, Updates
      <3> QED BY <3>1, <3>2 DEF WritesFit
    <2> QED BY <1>4, <2>1, <2>2, <2>3, <2>4 DEF InboxStep, UpdateStep
  <1>5. CASE ReplicaStep(q) /\ ~InboxStep(q)
    <2>1. update'[q] = update[q] \/ update'[q].phase \in {"idle", "read"}
      BY <1>a, <1>5, UpdatesBegin
    <2> QED BY <1>1, <2>1
  <1> QED BY <1>2, <1>3, <1>4, <1>5 DEF Next

\* What is stored, decided on or under way stays well formed.
LEMMA WritesFitInvariant == Spec => []WritesFit
  <1>1. Init => WritesFit
    <2>1. Init => Pending(object) = <<>> /\ late = {} /\ \A r \in Replicas : update[r].phase = "idle"
      BY DEF Init, InboxInit, StoreInit, NoUpdate, Pending
    <2> QED BY <2>1, InboxAssumption DEF WritesFit, Fits
  <1>2. DeliveryInv /\ WritesFit /\ [Next]_vars => WritesFit'
    <2> SUFFICES ASSUME DeliveryInv, WritesFit, [Next]_vars PROVE WritesFit'
      OBVIOUS
    <2>1. Fits(Pending(object')) /\ \A w \in late' : Fits(w.contents)
      BY StoreFitsStep
    <2>2. \A r \in Replicas : update'[r].phase \in {"write", "observe"} => Fits(NewContents(update'[r]))
      BY UpdateFitsStep
    <2> QED BY <2>1, <2>2 DEF WritesFit
  <1> QED BY <1>1, <1>2, DeliveryInvariant, PTL DEF Spec

\* The inbox never holds an event twice and never more than MaxPending, however many
\* replicas write it concurrently and whenever late writes arrive: the compare-and-swap
\* ties each write to the document in which Add looked for the event and for room.
THEOREM InboxStaysWellFormed == Spec => []InboxWellFormed
  <1>1. WritesFit => InboxWellFormed
    BY DEF WritesFit, Fits, InboxWellFormed
  <1> QED BY <1>1, WritesFitInvariant, PTL
-----------------------------------------------------------------------------
(* Replay delivers in order.  The document may gain events at its end and   *)
(* lose consumed ones anywhere while a replay works on the copy it read, so *)
(* the copy and the document are compared event by event.                   *)

\* Whatever is ahead, in document s, of an event of replay t that is still to be
\* consumed was consumed, or comes before that event in the replay too.
Follows(s, t, done) ==
    \A j \in 1..Len(t), k \in 1..Len(s) :
        s[k] = t[j] /\ t[j] \notin done =>
            \A i \in 1..(k - 1) : s[i] \in done \union {t[m] : m \in 1..(j - 1)}

ReplayFollows ==
    \A r \in Replicas :
        /\ Follows(Pending(object), todo[r], consumed)
        /\ holder[r].by = "replay" => holder[r].event = Head(todo[r])

\* A document without repeats follows itself, and an empty replay follows any document.
LEMMA FollowsItself ==
    ASSUME NEW s \in Seq(Events), NEW done, Fits(s)
    PROVE  Follows(s, s, done) /\ Follows(s, <<>>, done)
  <1>1. Len(s) \in Nat
    OBVIOUS
  <1>2. Follows(s, <<>>, done)
    BY DEF Follows
  <1>3. Follows(s, s, done)
    <2> SUFFICES ASSUME NEW j \in 1..Len(s), NEW k \in 1..Len(s), s[k] = s[j], NEW i \in 1..(k - 1)
                 PROVE  s[i] \in {s[m] : m \in 1..(j - 1)}
      BY DEF Follows
    <2>1. k = j
      BY DEF Fits
    <2> QED BY <2>1
  <1> QED BY <1>2, <1>3

\* Consuming events, and nothing else, keeps a replay in order.
LEMMA FollowsMoreDone ==
    ASSUME NEW s, NEW t, NEW done, NEW more, done \subseteq more, Follows(s, t, done)
    PROVE  Follows(s, t, more)
  BY DEF Follows

\* The replay goes on behind an event that was consumed.
LEMMA FollowsTail ==
    ASSUME NEW s \in Seq(Events), NEW t \in Seq(Events), NEW done, t # <<>>, Head(t) \in done,
           Follows(s, t, done)
    PROVE  Follows(s, Tail(t), done)
  <1>1. /\ Len(t) \in Nat \ {0} /\ Head(t) = t[1] /\ Len(Tail(t)) = Len(t) - 1
        /\ Len(s) \in Nat
    OBVIOUS
  <1>2. \A i \in 1..(Len(t) - 1) : Tail(t)[i] = t[i + 1]
    OBVIOUS
  <1> SUFFICES ASSUME NEW j \in 1..(Len(t) - 1), NEW k \in 1..Len(s),
                      s[k] = Tail(t)[j], Tail(t)[j] \notin done, NEW i \in 1..(k - 1)
               PROVE  s[i] \in done \union {Tail(t)[m] : m \in 1..(j - 1)}
    BY <1>1 DEF Follows
  <1>3. j + 1 \in 1..Len(t) /\ s[k] = t[j + 1] /\ t[j + 1] \notin done /\ (j + 1) - 1 = j
    BY <1>1, <1>2
  <1>4. s[i] \in done \union {t[m] : m \in 1..j}
    BY <1>3 DEF Follows
  <1>5. ASSUME NEW m \in 1..j, m # 1 PROVE t[m] \in {Tail(t)[n] : n \in 1..(j - 1)}
    <2>1. m - 1 \in 1..(j - 1) /\ m - 1 \in 1..(Len(t) - 1) /\ (m - 1) + 1 = m
      BY <1>1, <1>5
    <2>2. Tail(t)[m - 1] = t[m]
      BY <1>2, <2>1
    <2> QED BY <2>1, <2>2
  <1>6. t[1] \in done
    BY <1>1
  <1> QED BY <1>4, <1>5, <1>6

\* An event that is added goes behind everything the replay has yet to deliver.
LEMMA FollowsAdd ==
    ASSUME NEW s \in Seq(Events), NEW t \in Seq(Events), NEW done, NEW e \in Events,
           Elements(t) \subseteq Elements(s) \union done, Follows(s, t, done)
    PROVE  Follows(AddEvent(s, e), t, done)
  <1>1. CASE e \in Elements(s)
    BY <1>1 DEF AddEvent
  <1>2. CASE e \notin Elements(s)
    <2>1. AddEvent(s, e) = Append(s, e)
      BY <1>2 DEF AddEvent
    <2>2. Len(s) \in Nat /\ Len(Append(s, e)) = Len(s) + 1
      OBVIOUS
    <2>3. \A i \in 1..(Len(s) + 1) : Append(s, e)[i] = IF i <= Len(s) THEN s[i] ELSE e
      OBVIOUS
    <2> SUFFICES ASSUME NEW j \in 1..Len(t), NEW k \in 1..(Len(s) + 1),
                        Append(s, e)[k] = t[j], t[j] \notin done, NEW i \in 1..(k - 1)
                 PROVE  Append(s, e)[i] \in done \union {t[m] : m \in 1..(j - 1)}
      BY <2>1, <2>2 DEF Follows
    <2>4. t[j] \in Elements(s)
      BY DEF Elements
    <2>5. k \in 1..Len(s)
      BY <1>2, <2>2, <2>3, <2>4
    <2>6. s[k] = t[j] /\ Append(s, e)[i] = s[i]
      BY <2>2, <2>3, <2>5
    <2> QED BY <2>5, <2>6 DEF Follows
  <1> QED BY <1>1, <1>2

\* Removing an event changes the order of no others.
LEMMA FollowsRemove ==
    ASSUME NEW s \in Seq(Events), NEW t \in Seq(Events), NEW done, NEW e \in Events,
           Follows(s, t, done)
    PROVE  Follows(RemoveEvent(s, e), t, done)
  <1> DEFINE rest == RemoveEvent(s, e)
  <1>1. CASE e \notin Elements(s)
    BY <1>1 DEF RemoveEvent
  <1>2. CASE e \in Elements(s)
    <2>1. Len(s) \in Nat /\ Len(rest) = Len(s) - 1
      BY <1>2, RemoveEventShifts
    <2>2. PICK index \in 1..Len(s) :
             \A k \in 1..(Len(s) - 1) : rest[k] = IF k < index THEN s[k] ELSE s[k + 1]
      BY <1>2, RemoveEventShifts
    <2> HIDE DEF rest
    <2> DEFINE Origin(k) == IF k < index THEN k ELSE k + 1
    <2>3. \A k \in 1..Len(rest) : Origin(k) \in 1..Len(s) /\ rest[k] = s[Origin(k)]
      BY <2>1, <2>2
    <2>4. ASSUME NEW j \in 1..Len(t), NEW k \in 1..Len(rest),
                 rest[k] = t[j], t[j] \notin done, NEW i \in 1..(k - 1)
          PROVE  rest[i] \in done \union {t[m] : m \in 1..(j - 1)}
      <3>1. i \in 1..Len(rest)
        BY <2>1
      <3>2. Origin(k) \in 1..Len(s) /\ s[Origin(k)] = t[j] /\ rest[i] = s[Origin(i)]
        BY <2>3, <2>4, <3>1
      <3>3. Origin(i) \in 1..(Origin(k) - 1)
        BY <2>1, <2>2
      <3> HIDE DEF Origin
      <3> QED BY <2>4, <3>2, <3>3 DEF Follows
    <2> QED BY <2>4 DEF Follows, rest
  <1> QED BY <1>1, <1>2

\* No step of any replica puts anything ahead of what a replay has yet to deliver.
LEMMA FollowsStep ==
    ASSUME DeliveryInv, [Next]_vars, NEW t \in Seq(Events),
           Elements(t) \subseteq Recorded \union consumed, Follows(Pending(object), t, consumed)
    PROVE  Follows(Pending(object'), t, consumed')
  <1>1. consumed \subseteq consumed'
    BY SafeStep
  <1>2. object \in Contents /\ consumed \subseteq Events /\ Pending(object) \in Seq(Events)
    BY PendingIsSeq DEF DeliveryInv, TypeOK
  <1>3. CASE object' = object
    BY <1>1, <1>3, FollowsMoreDone
  <1>4. CASE IsChange(object, object')
    <2>1. Pending(object') = object'
      BY <1>2, <1>4, ChangeElements, InboxAssumption DEF Pending
    <2>2. CASE object = Absent /\ object' = <<>>
      BY <1>1, <2>1, <2>2, FollowsMoreDone DEF Pending
    <2>3. ASSUME NEW e \in Events, object' = AddEvent(Pending(object), e)
          PROVE  Follows(object', t, consumed')
      <3>1. Follows(object', t, consumed)
        BY <1>2, <2>3, FollowsAdd DEF Recorded
      <3> QED BY <1>1, <3>1, FollowsMoreDone
    <2>4. ASSUME NEW e \in consumed, object' = RemoveEvent(Pending(object), e)
          PROVE  Follows(object', t, consumed')
      <3>1. e \in Events
        BY <1>2
      <3>2. Follows(object', t, consumed)
        BY <1>2, <2>4, <3>1, FollowsRemove
      <3> QED BY <1>1, <3>2, FollowsMoreDone
    <2> QED BY <1>4, <2>1, <2>2, <2>3, <2>4 DEF IsChange
  <1> QED BY <1>3, <1>4, StoreStep

\* A replay leaves an event behind only after it was consumed.
LEMMA PassedIsConsumed ==
    ASSUME DeliveryInv, [Next]_vars, NEW q \in Replicas, holder[q].by = "replay",
           PendingEventGone(q) \/ RemoveSucceeds(q)
    PROVE  holder[q].event \in consumed'
  <1> DEFINE e == holder[q].event
  <1>1. e \in Events /\ e # NoEvent
    BY InboxAssumption DEF DeliveryInv, HoldersOwnTheirUpdate, NoHolder
  <1>2. CASE PendingEventGone(q)
    <2>1. e \in Recorded \union consumed
      BY <1>1 DEF DeliveryInv, InHandIsRecorded, InHand
    <2>2. e \notin Recorded'
      BY <1>2 DEF PendingEventGone, Recorded
    <2> QED BY <2>1, <2>2, SafeStep
  <1>3. CASE RemoveSucceeds(q)
    <2>1. update[q].phase # "idle"
      BY <1>3 DEF RemoveSucceeds
    <2>2. e \in consumed
      BY <2>1, UpdateHasEvent
    <2> QED BY <2>2, SafeStep
  <1> QED BY <1>2, <1>3

\* Every step keeps every replay in order.
LEMMA ReplayStep ==
    ASSUME DeliveryInv, WritesFit, ReplayFollows, [Next]_vars
    PROVE  ReplayFollows'
  <1> DEFINE InOrder(h, t) == /\ Follows(Pending(object'), t, consumed')
                              /\ h.by = "replay" => h.event = Head(t)
  <1> SUFFICES ASSUME NEW q \in Replicas PROVE InOrder(holder'[q], todo'[q])
    BY DEF ReplayFollows
  <1>a. TypeOK /\ todo[q] \in Seq(Events) /\ holder[q] \in Holders
    BY DEF DeliveryInv, TypeOK
  <1>b. Pending(object') \in Seq(Events) /\ Fits(Pending(object'))
    BY StoreTypeStep, PendingIsSeq, StoreFitsStep
  <1>c. InOrder(holder[q], todo[q])
    <2>1. Elements(todo[q]) \subseteq Recorded \union consumed
      BY DEF DeliveryInv, InHandIsRecorded, InHand
    <2> QED BY <1>a, <2>1, FollowsStep DEF ReplayFollows
  <1>d. Follows(Pending(object'), <<>>, consumed') /\ Follows(Pending(object'), Pending(object'), consumed')
    BY <1>b, FollowsItself
  <1>e. holder[q].by = "replay" => run[q] = "replaying" /\ todo[q] # <<>>
    BY DEF DeliveryInv, HoldersOwnTheirUpdate
  <1> HIDE DEF InOrder
  <1>1. CASE holder'[q] = holder[q] /\ todo'[q] = todo[q]
    BY <1>1, <1>c
  <1>2. CASE holder'[q].by # "replay" /\ todo'[q] \in {todo[q], <<>>}
    BY <1>2, <1>c, <1>d DEF InOrder
  <1>3. CASE UNCHANGED vars \/ LateWrite
    BY <1>1, <1>3 DEF vars, targetVars, runnerVars, LateWrite
  <1>4. ASSUME NEW r \in Replicas, ReplicaStep(r), r # q PROVE InOrder(holder'[q], todo'[q])
    BY <1>1, <1>4, OthersUnchanged
  <1>5. ASSUME ReplicaStep(q) PROVE InOrder(holder'[q], todo'[q])
    <2> USE DEF inboxVars, targetVars, runnerVars, requestVars
    <2>1. CASE RequestStep(q)
      BY <1>1, <1>2, <1>a, <2>1
      DEF TypeOK, RequestStep, ReceiveEvent, PrepareTrigger, QueueEvent, RefuseRecordedEvent,
          FinishPrepare, Holding, NoHolder
    <2>2. CASE StartRun(q) \/ ReadReplayFails(q) \/ ActivateSource(q) \/ TakeFromQueue(q) \/ InboxStep(q)
      BY <1>1, <2>2 DEF StartRun, ReadReplayFails, ActivateSource, TakeFromQueue, InboxStep
    <2>3. CASE ReadReplay(q)
      <3>1. todo'[q] = Pending(object') /\ holder'[q] = holder[q] /\ run[q] # "replaying"
        BY <1>a, <2>3 DEF TypeOK, ReadReplay
      <3> QED BY <1>d, <1>e, <3>1 DEF InOrder
    <2>4. CASE BeginPendingEvent(q)
      <3>1. holder'[q].event = Head(todo[q]) /\ todo'[q] = todo[q]
        BY <1>a, <2>4 DEF TypeOK, BeginPendingEvent, Holding
      <3> QED BY <1>c, <3>1 DEF InOrder
    <2>5. CASE HandleTrigger(q)
      BY <1>2, <1>a, <2>5 DEF TypeOK, HandleTrigger, StartConsume, Holding
    <2>6. CASE PendingEventFound(q)
      <3>1. holder'[q].event = holder[q].event /\ todo'[q] = todo[q] /\ holder[q].by = "replay"
        BY <1>a, <2>6
        DEF TypeOK, PendingEventFound, StartConsume, Holding, DeliveryInv, HoldersOwnTheirUpdate
      <3> QED BY <1>c, <3>1 DEF InOrder
    <2>7. CASE TargetConsumes(q)
      <3>1. holder'[q].event = holder[q].event /\ holder'[q].by = holder[q].by /\ todo'[q] = todo[q]
        BY <1>a, <2>7 DEF TypeOK, TargetConsumes, Holders
      <3> QED BY <1>c, <3>1 DEF InOrder
    <2>8. CASE PendingReadFails(q) \/ TargetFails(q) \/ RemoveFails(q)
      BY <1>2, <1>a, <2>8 DEF TypeOK, PendingReadFails, TargetFails, RemoveFails, NoHolder
    <2>9. CASE PendingEventGone(q) \/ (RemoveSucceeds(q) /\ holder[q].by = "replay")
      <3>1. holder[q].by = "replay"
        BY <2>9 DEF PendingEventGone, DeliveryInv, HoldersOwnTheirUpdate
      <3>2. todo'[q] = Tail(todo[q]) /\ holder'[q] = NoHolder
        BY <1>a, <2>9 DEF TypeOK, PendingEventGone, RemoveSucceeds, Delivered
      <3>3. Head(todo[q]) \in consumed' /\ todo[q] # <<>> /\ Follows(Pending(object'), todo[q], consumed')
        BY <1>c, <1>e, <2>9, <3>1, PassedIsConsumed DEF InOrder
      <3>4. Follows(Pending(object'), Tail(todo[q]), consumed')
        BY <1>a, <1>b, <3>3, FollowsTail
      <3> QED BY <3>2, <3>4 DEF InOrder, NoHolder
    <2>10. CASE RemoveSucceeds(q) /\ holder[q].by # "replay"
      BY <1>2, <1>a, <2>10 DEF TypeOK, RemoveSucceeds, Delivered, NoHolder
    <2>11. CASE StopRun(q) \/ Crash(q)
      BY <1>2, <1>a, <2>11 DEF TypeOK, StopRun, Crash, NoHolder
    <2> QED
      BY <1>5, <2>1, <2>2, <2>3, <2>4, <2>5, <2>6, <2>7, <2>8, <2>9, <2>10, <2>11
      DEF ReplicaStep, RunnerStep, TargetStep
  <1> QED BY <1>3, <1>4, <1>5 DEF Next

\* Replay hands an event to the target for the first time only when every event ahead of
\* it in the inbox was consumed, also while other replicas add, deliver and remove events
\* of the same inbox and late writes land in it.
THEOREM ReplayIsInOrder == Spec => []ReplayInOrder
  <1>1. Init => ReplayFollows
    BY DEF Init, ReplayFollows, Follows, NoHolder
  <1>2. DeliveryInv /\ WritesFit /\ ReplayFollows /\ [Next]_vars => ReplayFollows'
    BY ReplayStep
  <1>3. DeliveryInv /\ ReplayFollows => ReplayInOrder
    <2> SUFFICES ASSUME DeliveryInv, ReplayFollows, NEW r \in Replicas,
                        holder[r].by = "replay", holder[r].event \notin consumed,
                        NEW j \in 1..Len(Pending(object)), Pending(object)[j] = holder[r].event,
                        NEW i \in 1..(j - 1)
                 PROVE  Pending(object)[i] \in consumed
      BY DEF ReplayInOrder
    <2> DEFINE t == todo[r]
    <2>1. t \in Seq(Events) /\ t # <<>>
      BY DEF DeliveryInv, TypeOK, HoldersOwnTheirUpdate
    <2>2. Len(t) \in Nat \ {0} /\ Head(t) = t[1]
      BY <2>1
    <2>3. 1 \in 1..Len(t) /\ Pending(object)[j] = t[1] /\ t[1] \notin consumed
      BY <2>2 DEF ReplayFollows
    <2>4. Pending(object)[i] \in consumed \union {t[m] : m \in 1..(1 - 1)}
      BY <2>3 DEF ReplayFollows, Follows
    <2> QED BY <2>4
  <1> QED BY <1>1, <1>2, <1>3, DeliveryInvariant, WritesFitInvariant, PTL DEF Spec
=============================================================================
