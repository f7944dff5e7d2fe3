-------------------------- MODULE SharedConnection --------------------------
(***************************************************************************)
(* The broker cache of one shared connection: SharedConnection in          *)
(* projectconfig/broker.py.                                                *)
(*                                                                         *)
(* The tasks of one process share a cached credential, an asyncio lock     *)
(* that is held across a broker read, the time before which the broker is  *)
(* not asked again, and a bounded table of the revision each provider call *)
(* received.  A task reads the clock once, before its broker read, and     *)
(* uses that value after it.  The broker is external: its revisions only   *)
(* grow, and it may renew the credential whenever it likes.                *)
(***************************************************************************)
EXTENDS Integers, FiniteSets

CONSTANTS
    Calls,         \* provider calls
    None,          \* no value
    Lifetime,      \* lifetime of a dated credential, in ticks
    MaxSkew,       \* five minutes
    StaleAge,      \* fifteen minutes, for a credential without expiry
    Backoff,       \* ten seconds
    Retention,     \* ten minutes
    IssuedLimit,   \* 4096 entries of _issued_by_call
    MaxRevision,   \* bound on the broker's revisions
    MaxResolves,   \* bound on the resolutions of one call
    MaxTime        \* bound on the clock

ASSUME SharedAssumption ==
    /\ IsFiniteSet(Calls)
    /\ None \notin Calls \union Nat
    /\ {Lifetime, MaxSkew, StaleAge, Backoff, Retention} \subseteq Nat
    /\ {IssuedLimit, MaxRevision} \subseteq Nat \ {0}
    /\ {MaxResolves, MaxTime} \subseteq Nat

VARIABLES
    cache,          \* _credential
    lock,           \* the holder of _lock
    nextReadAfter,  \* _next_read_after
    issued,         \* _issued_by_call
    call,           \* what each call is doing
    resolves,       \* how many resolutions each call began
    broker,         \* the broker's current credential
    now

vars == <<cache, lock, nextReadAfter, issued, call, resolves, broker, now>>

Times == 0..MaxTime

Credentials == [revision : 1..MaxRevision, issuedAt : Times \union {None},
                expiresAt : 0..(MaxTime + Lifetime) \union {None}, readAt : Times]

\* An entry of the table, with its place in the dict's insertion order.
Entries == [revision : 1..MaxRevision, at : Times, position : Nat]

\* Neither a credential nor an entry is None.
ASSUME DistinctAssumption == None \notin Credentials \union Entries

\* asked is when the call began its resolution, held the credential it was last given and
\* outcome how its last resolution ended; the code keeps none of these.
NewCall == [pc |-> "idle", asked |-> 0, started |-> 0, rejected |-> 0, answer |-> None,
            held |-> None, outcome |-> "none"]

Init ==
    /\ cache = None
    /\ lock = None
    /\ nextReadAfter = 0
    /\ issued = [c \in Calls |-> None]
    /\ call = [c \in Calls |-> NewCall]
    /\ resolves = [c \in Calls |-> 0]
    /\ broker = [revision |-> 1, issuedAt |-> 0, expiresAt |-> Lifetime, readAt |-> 0]
    /\ now = 0
-----------------------------------------------------------------------------
\* Mutant: an expired credential is never noticed.
is_expired_Never(credential, t) == FALSE

is_expired(credential, t) == credential.expiresAt # None /\ credential.expiresAt <= t

Skew(lifetime) == IF lifetime \div 4 < MaxSkew THEN lifetime \div 4 ELSE MaxSkew

is_stale(credential, t) ==
    IF credential.expiresAt = None
    THEN t - credential.readAt >= StaleAge
    ELSE LET start == IF credential.issuedAt = None THEN credential.readAt ELSE credential.issuedAt
             lifetime == credential.expiresAt - start
         IN  t >= credential.expiresAt - (IF lifetime > 0 THEN Skew(lifetime) ELSE 0)

HasEntry(c) == issued[c] # None

Keys(table) == {c \in Calls : table[c] # None}

\* A dict assignment keeps the position of a key that is there already.
WithEntry(c, revision, t) ==
    LET position == IF HasEntry(c) THEN issued[c].position ELSE Cardinality(Keys(issued)) + 1
    IN  [issued EXCEPT ![c] = [revision |-> revision, at |-> t, position |-> position]]

\* The table with only some of its keys, in the same order.
Keeping(table, keys) ==
    [c \in Calls |->
        IF c \in keys
        THEN [table[c] EXCEPT !.position =
                 Cardinality({d \in keys : table[d].position <= table[c].position})]
        ELSE None]

IsOver(table) == Cardinality(Keys(table)) > IssuedLimit

RecentKeys(table, t) == {c \in Keys(table) : table[c].at > t - Retention}

\* All keys but the first in the order.
LaterKeys(table) ==
    {c \in Keys(table) : \E d \in Keys(table) : table[d].position < table[c].position}

\* Mutant: a call that is in the table already keeps its first revision.
record_issued_KeepFirst(c, revision, t) ==
    IF HasEntry(c) THEN issued ELSE WithEntry(c, revision, t)

\* Over the limit, entries of the last ten minutes stay and one of them may go.
record_issued(c, revision, t) ==
    LET all == WithEntry(c, revision, t)
        recent == IF IsOver(all) THEN Keeping(all, RecentKeys(all, t)) ELSE all
    IN  IF IsOver(recent) THEN Keeping(recent, LaterKeys(recent)) ELSE recent
-----------------------------------------------------------------------------
Becomes(c, k) == call' = [call EXCEPT ![c] = k]

\* The call gets the credential, and the table remembers its revision.
Serve(c, credential, t) ==
    /\ issued' = record_issued(c, credential.revision, t)
    /\ Becomes(c, [NewCall EXCEPT !.held = credential, !.outcome = "served"])

Fail(c) ==
    /\ Becomes(c, [NewCall EXCEPT !.held = call[c].held, !.outcome = "failed"])
    /\ UNCHANGED issued

ServeUnlessExpired(c, credential, t) ==
    IF credential = None THEN Fail(c)
    ELSE IF is_expired(credential, t) THEN Fail(c) ELSE Serve(c, credential, t)

\* resolve before it asks for the lock.
IsUsableAtOnce ==
    /\ cache # None
    /\ \/ ~is_expired(cache, now) /\ now < nextReadAfter
       \/ ~is_stale(cache, now)

resolve(c) ==
    /\ call[c].pc = "idle"
    /\ resolves[c] < MaxResolves
    /\ resolves' = [resolves EXCEPT ![c] = @ + 1]
    /\ IF IsUsableAtOnce THEN Serve(c, cache, now)
       ELSE /\ Becomes(c, [call[c] EXCEPT !.pc = "waiting", !.asked = now])
            /\ UNCHANGED issued
    /\ UNCHANGED <<cache, lock, nextReadAfter, broker, now>>

\* Mutant: the lock is not taken.
IsLockFree_Ignored == TRUE

IsLockFree == lock = None

NeedsRead == cache = None \/ (is_stale(cache, now) /\ now >= nextReadAfter)

EnterResolve(c) ==
    /\ call[c].pc = "waiting"
    /\ IsLockFree
    /\ IF NeedsRead
       THEN /\ lock' = c
            /\ Becomes(c, [call[c] EXCEPT !.pc = "reading", !.started = now])
            /\ UNCHANGED issued
       ELSE ServeUnlessExpired(c, cache, now) /\ UNCHANGED lock
    /\ UNCHANGED <<cache, nextReadAfter, resolves, broker, now>>

Release(c) == lock' = IF lock = c THEN None ELSE lock

ReadSucceeds(c) ==
    /\ call[c].pc = "reading"
    /\ call[c].answer # None
    /\ cache' = [call[c].answer EXCEPT !.readAt = now]
    /\ ServeUnlessExpired(c, cache', call[c].started)
    /\ Release(c)
    /\ UNCHANGED <<nextReadAfter, resolves, broker, now>>

\* The broker is unavailable: the cached credential is served while it lives.
ReadUnavailable(c) ==
    /\ call[c].pc = "reading"
    /\ nextReadAfter' = call[c].started + Backoff
    /\ ServeUnlessExpired(c, cache, call[c].started)
    /\ Release(c)
    /\ UNCHANGED <<cache, resolves, broker, now>>

\* Any other error, or the cancellation of the task, leaves the lock's block.
Abort(c) ==
    /\ call[c].pc # "idle"
    /\ Fail(c)
    /\ Release(c)
    /\ UNCHANGED <<cache, nextReadAfter, resolves, broker, now>>
-----------------------------------------------------------------------------
(* resolve_after_rejection, after the provider refused what the call held. *)

resolve_after_rejection(c) ==
    /\ call[c].pc = "idle"
    /\ call[c].outcome = "served"
    /\ resolves[c] < MaxResolves
    /\ resolves' = [resolves EXCEPT ![c] = @ + 1]
    /\ Becomes(c, [call[c] EXCEPT !.pc = "rejected"])
    /\ UNCHANGED <<cache, lock, nextReadAfter, issued, broker, now>>

RejectedRevision(c) ==
    IF HasEntry(c) THEN issued[c].revision ELSE IF cache # None THEN cache.revision ELSE 0

\* Mutant: every rejected call forces a refresh.
IsSuperseded_Never(revision) == FALSE

IsSuperseded(revision) == cache # None /\ cache.revision # revision

EnterRejection(c) ==
    /\ call[c].pc = "rejected"
    /\ IsLockFree
    /\ IF IsSuperseded(RejectedRevision(c))
       THEN Serve(c, cache, now) /\ UNCHANGED lock
       ELSE /\ lock' = c
            /\ Becomes(c, [call[c] EXCEPT !.pc = "rereading", !.started = now,
                              !.rejected = RejectedRevision(c)])
            /\ UNCHANGED issued
    /\ UNCHANGED <<cache, nextReadAfter, resolves, broker, now>>

RereadSucceeds(c) ==
    /\ call[c].pc = "rereading"
    /\ call[c].answer # None
    /\ cache' = [call[c].answer EXCEPT !.readAt = now]
    /\ IF cache'.revision = call[c].rejected THEN Fail(c) ELSE Serve(c, cache', call[c].started)
    /\ Release(c)
    /\ UNCHANGED <<nextReadAfter, resolves, broker, now>>
-----------------------------------------------------------------------------
(* The broker (external) and the clock.                                    *)

Renews ==
    /\ broker.revision < MaxRevision
    /\ \E issuedAt \in {None, now}, expiresAt \in {None, now + Lifetime} :
          broker' = [broker EXCEPT !.revision = @ + 1, !.issuedAt = issuedAt, !.expiresAt = expiresAt]

BrokerRenews ==
    /\ Renews
    /\ UNCHANGED <<cache, lock, nextReadAfter, issued, call, resolves, now>>

\* The answer travels while the broker goes on. A read that names the current revision
\* as rejected makes the broker renew it, if it can.
BrokerAnswers(c) ==
    /\ call[c].pc \in {"reading", "rereading"}
    /\ call[c].answer = None
    /\ \/ UNCHANGED broker
       \/ call[c].pc = "rereading" /\ call[c].rejected = broker.revision /\ Renews
    /\ Becomes(c, [call[c] EXCEPT !.answer = broker'])
    /\ UNCHANGED <<cache, lock, nextReadAfter, issued, resolves, now>>

IsReading(c) == call[c].pc \in {"reading", "rereading"}

\* A broker read may take any time: the client's timeout is one of each phase, and the
\* client can be replaced.
Tick ==
    /\ now < MaxTime
    /\ now' = now + 1
    /\ UNCHANGED <<cache, lock, nextReadAfter, issued, call, resolves, broker>>

CallStep(c) ==
    \/ EnterResolve(c)
    \/ BrokerAnswers(c)
    \/ ReadSucceeds(c)
    \/ ReadUnavailable(c)
    \/ EnterRejection(c)
    \/ RereadSucceeds(c)
    \/ Abort(c)

Next ==
    \/ \E c \in Calls : resolve(c) \/ resolve_after_rejection(c) \/ CallStep(c)
    \/ BrokerRenews
    \/ Tick

Spec == Init /\ [][Next]_vars
-----------------------------------------------------------------------------
CallStates ==
    [pc : {"idle", "waiting", "reading", "rejected", "rereading"}, asked : Times,
     started : Times, rejected : 0..MaxRevision, answer : Credentials \union {None},
     held : Credentials \union {None}, outcome : {"none", "served", "failed"}]

\* Every variable keeps its type.
TypeOK ==
    /\ cache \in Credentials \union {None}
    /\ lock \in Calls \union {None}
    /\ nextReadAfter \in Nat
    /\ issued \in [Calls -> Entries \union {None}]
    /\ call \in [Calls -> CallStates]
    /\ resolves \in [Calls -> 0..MaxResolves]
    /\ broker \in Credentials
    /\ now \in Times

\* A broker answer that was overtaken by a newer one never replaces it in the cache:
\* the lock spans the read, so answers are stored in the order they were given.
RevisionNeverGoesBack ==
    [][cache # None => cache'.revision >= cache.revision]_vars

Served(c) == call[c].outcome = "served" /\ call[c].pc = "idle"

\* A call whose credential the provider refused is given a newer revision or none at
\* all, however other calls move the cache meanwhile and whatever the table forgot.
RejectionMovesForward ==
    [][\A c \in Calls :
          /\ call[c].pc \in {"rejected", "rereading"}
          /\ Served(c)'
          => call'[c].held.revision > call[c].held.revision]_vars

\* "Force broker refresh for the revision this provider call received": a forced read
\* names the revision its own call holds, and only while the cache holds that one too,
\* so that many calls refused at once renew the credential once. (The call's entry may
\* have been evicted from the bounded table: then the code can only guess.)
ForcedReadJustified ==
    \A c \in Calls :
        call[c].pc = "rereading" /\ HasEntry(c) =>
            /\ call[c].rejected = call[c].held.revision
            /\ cache # None /\ cache.revision = call[c].rejected

\* However long resolve waits for the lock and for the broker, and although it serves the
\* cached credential in an outage, the credential it returns was alive when it was asked for.
AliveWhenAsked ==
    [][\A c \in Calls :
          /\ call[c].pc \in {"waiting", "reading"}
          /\ Served(c)'
          => call'[c].held.expiresAt = None \/ call'[c].held.expiresAt > call[c].asked]_vars

\* resolve: "Return an unexpired credential". The code does not keep this promise: a
\* credential that expires during the broker read is returned.
ResolvesUnexpired ==
    [][\A c \in Calls :
          /\ call[c].pc \in {"waiting", "reading"}
          /\ Served(c)'
          => call'[c].held.expiresAt = None \/ call'[c].held.expiresAt > now]_vars
=============================================================================
