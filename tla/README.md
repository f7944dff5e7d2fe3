# Verification of the Dex Connectors Library

TLA+ modules, TLC configurations and TLAPS proofs for the parts of the
Connectors Library whose correctness depends on the order in which attempts,
replicas, tasks, storage calls and provider requests happen. The Python SDK
(`sdkpython/src/dex_connectors/sdk`) and the Python connectors are the reference
for the fence, the connector writes, the credential exchange, the broker, the
configuration store and the Dex Web store; the Go SDK (`sdkgo`) is the reference
for Triggers and for the part of the exchange that Dex Web runs. Paths below are
relative to `src/`; `projectconfig/` is
`sdkpython/src/dex_connectors/sdk/projectconfig/`.

## Running it

    tlc -workers 2 -config MCSingleDispatch.cfg MCSingleDispatch
    tlc -workers 2 -config FencedWrite.cfg MCFencedWrite
    tlc -workers 2 -config TriggerDelivery.cfg MCTriggerDelivery
    tlapm FencedWriteProofs.tla

and likewise for the other configurations of section 3 and the other `...Proofs`
modules. `PROJECT.json` lists every run, the source lines behind every definition,
the hazards, and for each property a deliberately wrong variant of a definition
(the operators `X_Something` commented "Mutant") under which TLC finds that
property violated. No specification uses those variants.

## 1. Inventory

The repository is a catalogue of provider connectors on top of a small SDK that
exists in Python, Go and TypeScript. Most of its lines are the connectors' mapping
of requests and responses, generated bindings and the `connectorctl` tool; the
protocols are in the SDKs and in the connectors' non-idempotent writes.

| Component | State it keeps | Operations | Interacts with | What is hard |
|---|---|---|---|---|
| Single-dispatch fence, `singledispatch/fence.py`, `markers.py` | per attempt: decision, latches, last acknowledged marker | decide, dispatch, record_not_sent, record_can_resend, record_provider_id, the repeater | Dex heartbeats (unreliable), the provider | overlapping attempts, lost or stale heartbeats, cancellation, crash after the send, the repeater racing the caller |
| Connector writes behind the fence (Slack, Twilio, Jira, ...) | none of their own | decide, prepare, dispatch, classify, read back | fence, resolver, provider | what each answer proves; heartbeats failing after an acceptance |
| Connector writes with their own checkpoint (Zoho Desk, Freshdesk, Mailchimp, ...) | a claim or permit in the Step's heartbeat | claim, send, take the claim back, search | Dex, resolver, provider | crash between claim and send, acknowledged claims that are lost, permits of the wrong attempt, failures before the checkpoint is looked at |
| Outlook draft sends, `microsoft_outlook_mail/draft_send.py` | draft ID and phase in the heartbeat | search, create, mark, dispatch, confirm | Dex, Microsoft Graph | requests that take effect after the retry searched |
| Project object storage, `projectconfig/storage.py` | objects under conditional writes | create, compare-and-swap, read | every replica | unknown outcomes, late writes, ETags that recur |
| Configuration store, `projectconfig/storage.py` | configuration document, its versions, secrets | write, freeze, create a secret | storage | writers racing, own write recognised by contents |
| Local Dex Web store, `projectconfig/dexweb_store.py` | heads in memory, digests of what was imported, `connections.json` | import, write back | the Dex Web process | two processes and one file |
| Connection store and credential exchange, `projectconfig/provider.py`, `connections.py`, `sdkgo/projectconfig/exchange.go` | head record (revision, fence, status, credential, mutation), immutable results | begin, commit, fail, abort, recover, replace, revoke | storage, provider | retries by other replicas, late provider answers, deadlines |
| Shared-connection cache, `projectconfig/broker.py` | credential, read back-off, table of issued revisions, lock | resolve, resolve_after_rejection | broker | lock held across a read, bounded table, stale clock |
| Credential broker client, `projectconfig/broker.py` | bearer token, its reference, lock | request, renew | broker, configuration | concurrent renewals across rotations |
| Trigger inbox, `sdkgo/projectconfig/trigger_inbox.go` | ordered pending events in one object | Add, Remove, Pending | storage | concurrent updates, bounded retries, the last free slot |
| Durable Trigger target, `sdkgo/projectconfig/provider/trigger_inbox.go` | mutex, `pendingRemoval` | PrepareTrigger, HandleTrigger, ReplayTriggerDeliveries | inbox, Dex target | removal fails after consumption, replay of a stale snapshot |
| Webhook endpoint, runner, delivery loop, `sdkgo/webhooktrigger`, `trigger.go`, `trigger_delivery.go` | sources, queues, the event being delivered | handle a request, Run, DeliverTrigger | target, provider | crash between 200 and delivery, full queue after recording, restarts |
| Relayed Triggers, Steps, definitions, HTTP helpers, token endpoint, text generation, mocks | none between calls | | | |
| TypeScript SDK, other connector operations, `connectorctl` | | ports, request and response mapping, tooling | | |

What makes each one correct:

- **Fence**: one Step makes at most one provider write; a checkpoint that permits
  another send is true; the repeater does not overwrite it.
- **Connector writes**: the connector uses the fence, or its own claim, so that
  one write at most happens (an operation with a claim of its own: until that claim is lost); a definite branch (accepted, rejected, defect) is
  true of *all* attempts; `uncertain` needs something to have gone wrong.
- **Outlook**: one message is sent; `sent` and a refusal are true.
- **Shared cache and broker**: a call is never given an older revision than before,
  the one it reported as rejected, or a credential that had expired when it asked;
  a token rotation fails no read.
- **Configuration store**: an append-only log of revisions; secrets exist before a
  configuration refers to them.
- **Dex Web store**: a refresh never undoes a newer authorization.
- **Exchange**: an admission reaches the provider at most once; a late result never
  overwrites a newer credential; the record stays readable; an admission ends; a
  request sent in time is the only one that rotates its credential.
- **Inbox and delivery**: an acknowledged event is never lost and is consumed in
  the end; the inbox stays bounded, duplicate-free and ordered.

## 2. Modules

| Module | Models | Extends |
|---|---|---|
| `SingleDispatch` | the fence, the heartbeat channel, the provider | |
| `FencedWrite` | a connector Step that drives the fence | `SingleDispatch` |
| `ConnectorProfiles` | what eighteen connector writes do with each answer | `FencedWrite` |
| `MarkedWrite` | a connector Step with a heartbeat claim of its own | |
| `MarkedProfiles` | what eleven such writes do with each answer | |
| `OutlookDraftSend` | Outlook's sendMessage and replyToMessage | |
| `ConditionalObject` | one stored object under conditional writes | |
| `ConfigurationLog` | the promise of the configuration store (abstract) | |
| `ConfigurationStore` | the configuration store | `ConditionalObject`, instantiates `ConfigurationLog` |
| `DexWebStore` | the local store beside the Dex Web process | |
| `CredentialExchange` | connection store, exchange, resolver | `ConditionalObject` |
| `SharedConnection` | the cache of one shared connection | |
| `BrokerToken` | the bearer token of the broker client | |
| `TriggerInbox` | the inbox and its update loop | `ConditionalObject` |
| `EventLedger` | the promise of durable delivery (abstract) | |
| `TriggerDelivery` | endpoint, runner, target; composes the inbox | `TriggerInbox`, instantiates `EventLedger` |
| `...Proofs` | the theorems of a module (the fence's are in `FencedWriteProofs`, those of both broker modules in `BrokerProofs`) | that module |
| `MC...` | instances and symmetry sets for TLC | |

### SingleDispatch

Dex makes numbered attempts of a Step. It starts the next one when the previous
one ended, crashed or timed out, so all started attempts may run at once. Each
attempt is one `Fence`; the state is indexed by attempt. Each method runs under
the fence's lock and is one action; `dispatch` is split where others can run: the
claim (`DispatchClaims`, `DispatchCheckpointFails`, `CancelClaim`), the send
(`StartSend`, `SkipSend`, `FinishSend`, `InterruptSend`) and the return that waits
for the repeater (`ReturnFromDispatch`). `repeatClaim` is the repeater. The
heartbeat channel may lose what it acknowledged, keep what it refused and return
any frame ever recorded: `frames` is the set of all of them, and a decision reads
any member, none, or fails. A request in flight is processed or refused at any
later time. The budget checks only choose between not sending and the claim, so
durations are not modelled. The two obligations of the caller (canResend only on
positive evidence, a provider ID only when there is one) are guards marked as such.

### FencedWrite and ConnectorProfiles

`FencedWrite` is the caller that `SingleDispatch` only assumes: it composes the
fence with the Step that drives it. The control is common to the connectors;
`profile` says what one operation does with each class of response (accept, repeat,
reject, give up, read back), whether it records the provider ID and guards that
record, and what it does when the fence fails closed. `ConnectorProfiles` reads
these tables off the source of each operation. A search is a step of its own, and
belongs to the operation where the code has it: after an answer that leaves the
outcome open (`lookups`), or before the send and before a busy answer is believed
(`looksFirst`). Google Docs and Gmail record the ID that such a search found
(`recordsFound`), which is a step of the fence like any other. A 408 is a class of its
own, because most operations treat it as unknown and some reject it. `refusals` are the classes that the
provider, or `docs/connector-contract.md`, documents as not processed: that is the
only place where the model believes a document, because nothing in the repository
executes the provider; a 408 is never among them. `FenceSpec` says that the composition is a behaviour of
`SingleDispatch`, so its obligations are met rather than assumed.

### MarkedWrite and MarkedProfiles

The operations that keep a claim in the Step's own heartbeat. They declare sync
durability, so attempts follow one another. What can happen is a crash or time-out at
any point, a heartbeat that is refused and may have arrived all the same, a request
that takes effect after its attempt ended, and the loss of a heartbeat that was
acknowledged (`docs/connector-contract.md:289`): `frames` holds every value that was
recorded, the next attempt finds any of them or none, and `lost` remembers the attempts
whose claim was not found. `claimsFirst`, `credentialsFirst` and `isNumbered` are the
three ways in which the operations order claim, credentials and checkpoint;
`looksFirst` marks the ones that search before they claim, and `findsOthers` those
whose search goes by content (a name and a time, a body, keys of rows, the state of a
campaign) and may find what another made. An attempt that fails before it looked at
the checkpoint ends in `unopened`, any other in `settled`.

### OutlookDraftSend

The same environment, with a search for a marked draft, its creation, the marking,
the dispatch checkpoint, the send and the bounded confirmations each as a step.
A creation or send in flight takes effect at any later time. With `LosesHeartbeats` a
crash may also lose the heartbeats that were not persisted yet; `hasLostHeartbeat`
remembers that one did. `SentIsTrue` holds even then, `AtMostOneSend` and
`RefusalIsTrue` while none was lost, which is the promise of the connector's README.

### ConditionalObject

Reads are strongly consistent. A write is accepted, refused, or of unknown
outcome; an unknown one was applied, will never be, or is kept in `late` and
applied when it arrives if its precondition holds then. An S3 ETag depends on the
contents only, so the contents are the token: the weakest choice, which lets a
late write find its precondition true again. A refusal may happen although the
precondition holds, because S3 answers concurrent requests for a key that way.

### ConfigurationStore

`write_configuration` reads the head, compares the revision with the one its
caller expects, writes, and settles an unknown outcome by reading back and
comparing contents. `_create_secret` writes under a fresh key and reads back.
`freeze_configuration` returns the version it read. The versioned bucket is
`versions`. `ConfigurationLog` is the promise: a gapless sequence of revisions, of
which every acknowledged write and every snapshot is a true record.

### DexWebStore

Heads in the memory of one process, digests of what was imported, and the file
that Dex Web rewrites at any time. A write back is three steps (head, second read
of the file, replacement), because the store's lock does not exclude Dex Web. Two
tasks refresh through the admission rule of `provider.py`; a refresh that fails ends
in READY or REAUTHORIZATION_REQUIRED. Recovery that publishes a result which its task
stored and did not publish has the effect of that task's own publication, so it is not
an action of its own. A crash loses the heads.

### CredentialExchange

One connection. A caller is any call that mutates it, in any replica or in Dex
Web; it holds the record it read, its admission, and its position. Every storage
call is a step of its own. `NewRecord` is the record an operation writes; all of
them go through one write routine (`WriteSucceeds`, `WriteConflicts`,
`WriteOutcomeUnknown`, `ObserveOwnWrite`). An admitted caller asks the provider
(`Dispatch`), then commits, fails or aborts after reading the head again
(`ReadAdmitted`); a commit creates the immutable result before it publishes it.
Recovery by others is `BeginRecovery`, `RecoverResult`, `FindNoResult` and
`CheckDeadline`, in the order of the reads in the code. `Abandon` stands for every
early exit, death included. A credential is the identity of the exchange that
made it (attempt and fence), which is what the code compares; the material is
left out.

Time is a counter of ticks. `RefreshTimeout` is the 30 s provider timeout,
`RefreshWindow` the deadline of 40 s. `Tick` cannot pass a refresh request that
has reached its timeout, because the request is cancelled then. Nothing bounds the
writes and reads between computing the deadline and starting the request, so time may
pass there without limit; `IsTimely` tells the requests that started early enough to
end before their deadline from the late ones.

### SharedConnection and BrokerToken

`SharedConnection`: each call waits for the lock, reads the broker while holding
it, and is served from the cache or the answer; `resolve_after_rejection` looks up
the revision the call was issued. The clock value that the code keeps in a local
variable across the broker read is part of the call's state, and so is the time at
which it asked (`asked`, for the property only). A broker read takes any time: the
client's 40 s are per phase of a request, and the client can be replaced. It fails or
is cancelled at any time. The broker renews whenever it likes. The table of issued
revisions is a function from calls to entries, each with its place in the insertion
order of the dict: an assignment keeps the place of a key that is there, and an
eviction keeps the order of the keys that stay.

`BrokerToken`: a read posts with the cached token; after a refusal it renews under
the lock (unless another read already did), reads the reference and the secret, and
posts once more. The platform publishes and revokes tokens at any time.

### TriggerInbox and TriggerDelivery

The object is a sequence of event IDs. `update[r]` is the compare-and-swap loop of
a replica: read the head (creating it on first use), apply `AddEvent` or
`RemoveEvent`, write, and after a conflict or an unknown outcome observe and try
again at most `MaxInboxAttempts` times. `TriggerDelivery` adds the webhook request
(`ReceiveEvent`, `PrepareTrigger`, `FinishPrepare`, `QueueEvent`), the runner
(`StartRun`, `ReadReplay`, `ActivateSource`, `TakeFromQueue`), and the durable
target under its mutex (`holder`): replay re-reads an event before delivering it,
consumption precedes removal, and a failed removal is remembered in
`pendingRemoval`. `StopRun` ends a runner and keeps the process; `Crash` loses
everything but the object. The byte bound of the inbox refuses an event just as
the event bound does, so one bound stands for both. Backoff delays are not
modelled: a retry may come at any time. A stored event is assumed to decode, because
`PrepareTrigger` encoded it; one that does not would end every replay with an error
(`provider/trigger_inbox.go:122`). `EventLedger` is the abstract promise: four
actions on three sets. The refinement mapping takes `pending` to the event IDs in
the object.

## 3. Runs

| Run | Instance | Shows |
|---|---|---|
| `single_dispatch` | 4 attempts | `TypeOK`, `AtMostOneWrite`, `PermitIsProof`, `DecisiveCheckpointNotHidden`, `ReadBackIsGenuine`, `ClaimPrecedesSend`: overlapping attempts of one Step write at most once and their checkpoints tell the truth |
| `fenced_write` | 18 operations, 3 attempts | `FenceSpec`, `HonestOutcome`, `UncertaintyHasCause`, `GuardedAcceptance`: the connectors keep the fence's rules; `accepted` is always true and a definite failure is where nothing was guessed |
| `marked_write` | 11 operations, 4 attempts, any loss of heartbeats | `AtMostOneWrite`, `HonestOutcome`, `UncertaintyHasCause` of the writes with a claim of their own: a second write, and a failure that is not true, need a lost claim |
| `outlook_send` | 4 attempts, crashes that may lose heartbeats | `AtMostOneSend`, `SentIsTrue`, `RefusalIsTrue` |
| `shared_connection` | 2 calls, 3 resolutions each, 2 revisions, table of 1, time to 4 | `ForcedReadJustified`, `AliveWhenAsked`, `RevisionNeverGoesBack`, `RejectionMovesForward` |
| `broker_token` | 2 readers, 2 reads each, 3 tokens, fair | `SurvivesRotation`, `ReadsFinish` |
| `dexweb_store` | 2 connections, 2 tasks, 2 saves, 2 refreshes | `FileKeepsCurrentMaterial`, `AuthorizationNeverReverts`, `ImportsAreNew` |
| `configuration_store` | 2 writers, 2 secrets, 2 revisions, 1 late write | `TypeOK`, `ReferencesResolve`, `ImplementsLog` |
| `trigger_delivery` | 2 replicas, 2 events, 1 slot, 1 late write, 2 inbox attempts | `TypeOK`, `InboxWellFormed`, `ImplementsLedger` |
| `trigger_liveness` | 1 replica, 2 events, 2 slots, 1 stop or crash, fair | `ReplayInOrder`, `AckedNeverLost`, `AckedIsConsumed` |
| `exchange_safety` | 2 callers with 2 calls, timeout 2, window 3, time to 3, 1 late write | `TypeOK`, `HeadReadable`, `OneDispatchPerAdmission`, `TimelyRotationIsExclusive`, `CredentialMovesForward`, with admissions of any delay |
| `exchange_liveness` | 2 callers, 1 OAuth attempt, fair | `AdmissionEnds` |

`FencedWrite!HonestOutcome` says of every operation that `accepted` names a processed
write. Of a rejection or a defect it says that nothing was or will be written, unless
the operation guesses: Trello resolves credentials before it asks the fence and Gmail
takes a fence that fails closed for a defect (`ReportsHonestly`), and Slack, Drive,
Calendly and Gmail reject a 408 (`IsMisjudged`). `MarkedWrite!HonestOutcome` says the
same of attempts that looked at the checkpoint, except for a write that a lost claim
hides (`IsForgotten`) and, for `accepted`, what a search by content took for the Step's
own. Of the six operations that resolve credentials first it leaves out exactly the
failures of that (`unopened`). Section 5 shows what happens in each excepted case.

`GuardedAcceptance` speaks of the thirteen operations whose guard around the checkpoint
catches every exception; section 5 has Slack, whose guard does not.

### Bounds and why they are enough

- *Three or four attempts.* A permit speaks of the attempt just before; the third
  attempt is the first that can be misled about an attempt two before it. Four are
  used where the state space allows. The main theorems hold for every number.
- *Two replicas, two events, one or two slots.* Each race is between two writers
  of one object; two events are needed for order, for a full inbox and for one
  update erasing the other.
- *One late write, one stop.* A late write needs one other change and one return
  to the same contents to do harm, which a redelivery (`MaxRequests = 2`) provides.
- *Two or one inbox attempts* instead of the code's larger number: enough for one
  retry, or none, and for giving up.
- *Two callers with two calls.* One to hold an admission and one to recover,
  replace or revoke it and then admit again.
- *Ticks.* `RefreshTimeout = 2`, `RefreshWindow = 3` keep the code's relation
  (30 s, 40 s): the slack is one tick, and an admission write may take all three. In `exchange_liveness`, where timing is not
  the subject, both are 1, so every admission can expire.
- *A table of one issued revision* (`IssuedLimit`) overflows with the second call,
  which is what the code's larger table does under load. A dated
  credential lives 4 ticks with a skew of 1, an undated one is stale after 2, issued
  revisions are kept for 2, so that time 4 reaches fresh, stale, expired and forgotten,
  before, during and after a broker read.
- *Three tokens* let the platform rotate once before and once during a renewal.
- *Two saves and two refreshes* of a connection: an authorization can appear before
  and after a refresh of the older one.

No instance has all of these at once; the project splits the questions into
several runs because the product is out of TLC's reach.

Deadlock checking is off where bounded behaviours end because attempts, requests,
calls and ticks run out; it is on in `dexweb_store` and `configuration_store`,
whose steps never run out. Replicas, callers, calls, tasks and writers are
interchangeable and used as symmetry sets, except in the runs with fairness.

### Fairness

`TriggerDelivery!Fairness`: threads that can run do, and a waiter for a Go mutex is
not overtaken for ever (strong fairness of the two entries to the mutex); the
application restarts a runner that ended, which the documentation presumes when it
promises replay "after a restart, on any replica" (`sdkgo/README.md`); storage
and the Dex target do not fail every time (strong fairness of the successful
outcomes). Stored events decode (section 2). Nothing is assumed of webhook requests,
crashes or late writes.

`CredentialExchange!Fairness`: the clock advances, no call hangs (each step of a
call is taken or the call is abandoned), somebody keeps resolving the connection
(strong fairness of recovery), and storage does not fail every time. Nothing is
assumed of the admitted caller: it may die at any point.

`BrokerToken!TokenFairSpec`: an asyncio lock serves its waiters in order (strong fairness
of the steps that may have to wait for it) and every await ends, because requests
have timeouts (weak fairness of the rest). Nothing is assumed of the broker's
answers or of the platform.

## 4. Proofs

Everything below holds for every value of the constants that satisfies the named
assumptions: any number of attempts, replicas, events, reads, writers, crashes and
late writes.

### The fence (`FencedWriteProofs`, first half)

`TypeCorrect`, `FenceInvariant`, `SingleWrite` (`AtMostOneWrite`), `PermitsProve`
(`PermitIsProof`), `DecisiveStaysVisible` (`DecisiveCheckpointNotHidden`),
`ReadBackCorrect` (`ReadBackIsGenuine`), `ClaimsPrecede` (`ClaimPrecedesSend`).

`AtMostOneWrite` and `PermitIsProof` are not inductive: nothing in them relates a
decision to the frame it was made from. `FenceInv` adds

- `LatchesAgree`: the latches and phases of one attempt are consistent (only an
  allowed attempt dispatches, a pre-send latch excludes a send, a refusal known to
  the caller is final at the provider);
- `PermitsAreSettled`: a permit in `frames` belongs to a *settled* attempt, one
  that latched before sending or whose request was refused;
- `SendersFollowSettled`: an attempt that may send follows only settled attempts.

The argument: an attempt obtains permission from a permit of its predecessor. That
permit was recorded by an attempt that was itself allowed to send, so all attempts
before the predecessor are settled; the permit settles the predecessor. Settled is
stable, so when two attempts could both be processed the earlier one would be
settled, which excludes it. `CheckpointInv` adds what the other three need: a
fence holds only checkpoints of its own attempt and none before it latched, a
claimed send has its claim in Dex, and whatever names a provider ID stems from a
processed request. The only assumption on constants is `MaxAttemptAssumption`.

### Connector writes behind the fence (`FencedWriteProofs`, second half)

From `ProfilesAssumption` and tables that keep `KeepsObligations` (repeat only after
a documented refusal, record only an ID that the provider returned or a search found):

- `StepInvariant`: a response is backed by the fence's evidence
  (`ResponsesAreBacked`), an attempt's position agrees with its fence
  (`PositionsAgree`), and whoever may send follows attempts that returned
  (`SendersFollowReturned`);
- `FenceRulesKept`: `WriteSpec => FenceSpec`, each step of the Step is a step of the
  fence or invisible to it. The step that needs the invariant is Google Docs' and
  Gmail's record of an ID that a search found: the fence wants evidence of the attempt's
  own write, and by `FoundIsOwn` nobody else of the Step can have written;
- `ConnectorWritesOnce`: `AtMostOneWrite`, by that refinement and `SingleWrite`;
- `OutcomesAreTrue`: `WriteSpec => []HonestOutcome`. An acceptance rests on an answer or
  on a search, and both on a processed write. A failure is settled only by an
  attempt that was allowed to send, hence follows only settled attempts, and its
  own request was refused or never sent; settled is stable, so no late request
  falsifies it (`FailuresAreSettled`);
- `ConnectorTables`, `RejectsAreRefusals` and `ConnectorOutcomesAreTrue`: the tables of
  the sixteen operations that ask the fence first keep these obligations, and those of
  the thirteen that do not reject a 408 (all but `TimeoutRejecters`) reject documented
  refusals only, so `OutcomeIsTrue` holds of the thirteen without a condition;
- `AcceptancesAreReported` (`GuardedAcceptance`): an attempt of the thirteen operations
  that guard the record of the provider ID, once it read a complete acceptance, returns
  the accepted branch. The invariant (`AcceptanceIsOnItsWay`) follows the acceptance
  from the answer to the branch;
- `UncertaintyIsExcused` and, for the tables themselves (Trello's included),
  `ConnectorUncertaintyIsExcused` (`UncertaintyHasCause`): from tables that doubt only
  on trouble (`DoubtsOnTrouble`: a complete acceptance or a documented refusal is never
  uncertain, repeated without a checkpoint or read back). The invariant (`CauseInv`)
  describes a Step in which nothing went wrong: attempts do not overlap, each earlier
  one returned Retry and holds a permit, and the first finds no checkpoint. So every
  decision permits a send, and `uncertain` has nothing to come from.

### Connector writes with their own checkpoint (`MarkedWriteProofs`)

From `MarkedAssumption`, whichever heartbeats are lost: `MarkedInvariant`,
`MarkedTypeCorrect` and `MarkedWritesOnce` (`AtMostOneWrite`) for tables that take the
claim back only on proof (`ClearsOnProof`), `MarkedOutcomesAreTrue` (`HonestOutcome`) for
those that also settle on proof and doubt only on trouble (`SettlesOnProof`,
`DoubtsOnTrouble`). `OperationsKeepRules` shows that the tables of the eleven operations
are of that kind; `OperationsWriteOnce` and `OperationsOutcomesAreTrue` conclude, and
`NumberedOperationsNeverWriteTwice` states for Freshdesk and Jira Service Management,
whose checkpoints name the attempt that may send, that no loss of heartbeats causes a
second write. The strengthening is

- `PermitRule` (numbered): every permit that Dex may have stored, not only the last
  one, is true of all attempts up to its own, so a stale permit permits nothing;
- `ClaimRule` (not numbered): whenever the heartbeat holds no claim, nothing was or may
  be processed but what an earlier lost claim hides (`IsForgotten`);
- `SendRule`: the same from the checkpoint to the send, and of all other attempts from
  there until the answer is classified, with the claim recorded;
- `AnswerRule`: what an answer proves about the write it answers; `FreshRule`.

`MarkedUncertaintyHasCause` and `OperationsUncertaintyHasCause` state
`UncertaintyHasCause`, the second for the tables of the eleven operations. As behind
the fence, the invariant describes an undisturbed Step: whoever starts may send, and
an attempt that ended with Retry has released its claim.

### Outlook (`OutlookDraftSendProofs`)

`SendIsUnique` (`AtMostOneSend`), `RefusalsAreTrue` (`RefusalIsTrue`) and `SentsAreTrue`
(`SentIsTrue`), from `OutlookAssumption`. The strengthening is `SendIsCovered` (while no
heartbeat was lost, every send that was or may be accepted is covered by the checkpoint
`sendDispatched`, and an attempt before its own send found another checkpoint, so
nothing was or may be sent) and `SubmissionIsKept` (what is in Sent Items, or was
processed, was submitted). Only a refusal takes the checkpoint back, and then the
refused request was the only one. `SentsAreTrue` needs no condition on heartbeats.

### Credential exchange (`CredentialExchangeProofs`)

`ExchangeTypeCorrect` (`TypeOK`), `HeadIsReadable` (`HeadReadable`), `CredentialForward`
(`CredentialMovesForward`), `DispatchIsUnique` (`OneDispatchPerAdmission`) and
`RotationIsExclusive` (`TimelyRotationIsExclusive`), from `ExchangeAssumption` and
`DistinctAssumption` (the markers for "absent" and "no value" are not themselves values,
and the ID of an OAuth attempt is not one of a refresh).
The invariant has three layers, each proved from the ones before it:

- `Inv`: every record that the head, a caller or a late write holds is one that
  `_read_record` accepts, and every write, on its way or late, *follows* the record it
  replaces. So the revision grows with each write and the fence never goes back, and a
  late write whose precondition holds is a legitimate next record.
- `GrantInv`: an admission is won by moving the head to a fresh fence. What was admitted
  lies in the head's past, so no fence and no OAuth attempt is admitted twice, and a
  caller asks the provider once per call.
- `RotationInv`: a refresh request is over within its timeout (`OnTime`), so a timely one
  is over before the deadline of its admission; a caller's idea of that deadline is the
  head's while the fences agree (`KnowsAdmission`), nobody restores a credential before
  the deadline unless the admitted call has ended (`RestoreIsJustified`,
  `LateIsJustified`), and so the head is held against every later admission of the
  credential while a timely request runs (`HeadIsHeld`).

No theorem bounds the time an admission takes or relates `RefreshTimeout` and
`RefreshWindow`. What a request that starts too late does is shown by
`ExchangeSlowAdmission.cfg` (section 5).

### Broker token (`BrokerProofs`)

`TokenInvariant`, `TokenTypeCorrect` and `RotationSurvived` (`SurvivesRotation`). The
strengthening is `LockIsHeld` (exactly the renewing read holds the lock) and
`RenewalsAreRecent` (a renewed token is at least as recent as the head when the
read began).

### Shared-connection cache (`BrokerProofs`)

From `SharedAssumption` (the process makes finitely many calls) and `DistinctAssumption`:
`CacheInvariant`, `SharedTypeCorrect`, `TableIsBounded`, `ForcedReadIsJustified`
(`ForcedReadJustified`), `CacheMovesForward` (`RevisionNeverGoesBack`),
`RefusedCallMovesForward` (`RejectionMovesForward`), `ServesAliveWhenAsked`
(`AliveWhenAsked`) and `OwnRevisionIsRecorded`. `CacheInv` adds to the type

- `LockSpansReads`: exactly the reading call holds the lock, so only it replaces the cache;
- `AnswerIsFresh`: an answer on its way is at least as recent as the cache, which cannot
  move until that answer is stored, and not ahead of the broker;
- `HeldIsBehind`: the cache is at least as recent as what any call holds;
- `EntryAgrees`: an entry of the table names what its call holds;
- `RejectedIsCached`: the revision that a forced read names is still the cached one;
- `AsksFirst`: the clock value that a call compares with was read after it asked;
- `FitsTable`: the table is within its limit, and its places are numbered from one.

The argument for a refused call: it holds at most the cached revision. What it is served
at once differs from the revision its entry names, which is the one it holds, so it is
newer; without an entry nothing is served at once, because the guess is the cached
revision itself. What it is served after a read differs from the cached revision and is
not older, so it is newer than what the call holds. Each action is shown once to be a
`GoodStep` of its call, and a `GoodStep` to keep the invariant of all other calls.

The lemmas about the table (`KeepingKeeps`, `WithEntryAdds`, `KeepingOrder`,
`FirstKeyGoes`, `RecordedIsTrue`, `RecordedFits`) need no induction: that the first key
exists is that the places, a set of natural numbers, have a least element.
`OwnRevisionIsRecorded` has the hypothesis `Retention > 0` (the code's is ten minutes):
an entry that `_record_issued` has just added is the last in the order, and recent, so
neither eviction takes it. An entry of an earlier call may still go when more calls than
the table has room for are in flight: hence `HasEntry` in `ForcedReadJustified`.

### Configuration store (`ConfigurationStoreProofs`)

`StoreInvariant`, `TypeCorrect`, `SecretsResolve` (`ReferencesResolve`) and
`StoreImplementsLog` (`ImplementsLog`). The strengthening says that the document is
the last version (`HistoryInOrder`), that whatever a late write or a caller carries
refers only to stored secrets and is the successor of what it expects
(`SecretsInOrder`, `LateInOrder`, `CallsInOrder`), and that what was acknowledged or
frozen is a version (`AckedAreKept`, `FrozenAreKept`). Because revisions are part of
the contents, contents never recur: a late write whose precondition holds is the
next revision, and equal contents at read-back are that very revision.

### Local Dex Web store (`DexWebStoreProofs`)

`DexWebInvariant`, `FileIsCurrent` (`FileKeepsCurrentMaterial`), `NewerAuthorizationWins`
(`AuthorizationNeverReverts`) and `OnlyNewsIsImported` (`ImportsAreNew`), from
`DexWebAssumption` and `DistinctAssumption`. The invariant has two sides. Between the
file and the store (`ChangesAreNews`, `InUseIsImported`): material in the file that is
not the one last imported is of a newer authorization than the one in use, also in the
copy of the file that a write back is about to put back. Between the head and the tasks
(`KeepsUp`): revisions only grow, so a task that finds the revision it was admitted at
finds the very head it wrote, and what it publishes belongs to the authorization in use.
What the write back itself can lose in the file is not covered: see `DexWebRace` in
section 5.

### Durable delivery (`TriggerDeliveryProofs`)

From `InboxAssumption` and `DeliveryAssumption`: `DeliveryInvariant`, `TypeCorrect`,
`NoAckedEventLost` (`AckedNeverLost`), `AddsTakeEffect` (`AddTookEffect`) and
`DeliveryImplementsLedger` (`ImplementsLedger`).

`AckedNeverLost` says nothing of the writes under way, any of which could erase an
event. `DeliveryInv` adds

- `HoldersOwnTheirUpdate`: the thread in the target's mutex owns the replica's
  update loop, which adds for a request and removes for a delivery;
- `RemovalsFollowConsumption`: the event of a removal, of `pendingRemoval` and of
  every write on its way was consumed before (`IsChange`: a write creates the
  inbox, adds one event, or removes one consumed event);
- `InHandIsRecorded`: what a runner has queued, read for replay or in the target is
  recorded or consumed;
- `AddTookEffect`, which the acknowledgement relies on.

The argument: a compare-and-swap that lands, however late, lands on the contents it
was computed from, so it is a change of the current document. Consumption is for
good, so a removal that was legitimate when it was computed is legitimate when it
lands. Hence "recorded or consumed" never shrinks, and each change of the document
is a `Record` or a `Forget` of the ledger.

`InboxStaysWellFormed` (`InboxWellFormed`) rests on `WritesFit`: what a write under way
or a late one would store is bounded and duplicate-free, because `Add` looked for the
event and for room in the very document that the compare-and-swap expects.
`ReplayIsInOrder` (`ReplayInOrder`) rests on `ReplayFollows`: what stands in the inbox
ahead of an unconsumed event of the replay is consumed or comes before it in the replay.
Additions go behind, removals keep the order of the rest (`RemoveEventShifts`), and the
replay passes an event only once it is consumed.

### Inductive invariants under TLC

Each inductive invariant was checked as an invariant of a small instance before it was
proved: the exchange's three layers on 2.7 million distinct states, Outlook's on 0.7
million, those of the fenced writes on 1.2 million, `MarkedWriteProofs!IInv` on 0.2 million,
`WritesFit` and `ReplayFollows` on 7.8 million, `DexWebInv` on 5.0 million, `CacheInv` on
3.6 million.

### Only model-checked

The liveness properties `AckedIsConsumed`, `AdmissionEnds` and `ReadsFinish`: liveness
under fairness is out of the proof system's reach. Every safety property of the runs is
a theorem.

## 5. Where code and documents differ

Each has a configuration in which TLC finds the property violated. They are kept
apart from the runs of section 3.

| Configuration, module, property | What the code does | What is said |
|---|---|---|
| `ExchangeSlowAdmission`, `MCCredentialExchange`, `NoConcurrentRotation` | `projectconfig/provider.py:213` computes the deadline (timeout plus 10 s) *before* the admission write, and the 30 s timeout starts *after* it. When the write takes more than 10 s, recovery restores the prior credential while the admitted request still runs, and a second caller refreshes the same credential. The Go SDK does the same. | `sdkgo/projectconfig/connections.go:30`: "CredentialRefreshing prevents concurrent provider rotation while its admitted caller is active." |
| `SharedSlowRead`, `MCSharedConnection`, `ResolvesUnexpired` | `projectconfig/broker.py:217` compares the expiry with a clock value from before the broker read: a credential that expired during the read is returned. | `broker.py:197`: "Return an unexpired credential; refresh stale material in one task." |
| `DexWebRace`, `MCDexWebStore`, `SavedAuthorizationKept` | `projectconfig/dexweb_store.py:166` replaces the whole file that line 123 read; an authorization that Dex Web saves in between is lost. | `sdkpython/README.md:331`: "A newer Dex Web authorization wins the race." |
| `FencedTrello`, `MCFencedWrite`, `OutcomeIsTrue` | Trello's `operations.py:459` resolves credentials before it asks the fence and selects defect when they fail; the earlier attempt's card may exist. | `docs/connector-contract.md:253`: "The fence reads the last checkpoint before credentials or provider lookups."; line 259: "an unconfirmable possibly sent write selects `uncertain`". |
| `FencedGmail`, `MCFencedWrite`, `OutcomeIsTrue` | Gmail's `send.py:392` selects defect when the fence fails closed. | `docs/connector-contract.md:259`, as above. |
| `FencedTimeout`, `MCFencedWrite`, `OutcomeIsTrue` | Slack's `client.py:786`, Drive's `operations.py:992` and Calendly's `operations.py:991` reject a 408 as they reject any other 4xx, Gmail's `send.py` too; the request may have been processed. | `docs/connector-contract.md:259`, as above. |
| `FencedSlack`, `MCFencedWrite`, `AcceptanceIsReported` | Slack's `client.py:799` catches `CheckpointError` around `record_provider_id`, which raises whatever the heartbeat raised: the attempt ends with that exception. Help Scout and Notion have the same guard. | `client.py:800`: "The accepted response still identifies the message." |
| `MarkedMailchimp`, `MCMarkedWrite`, `FailureIsTrue` | Mailchimp's `operations.py:621` resolves credentials before it looks at the checkpoint and selects defect when they fail. Intercom, ClickUp, Confluence, Excel and Email have the same order. | Mailchimp `README.md:212`: "A later attempt of the same Step execution that finds it ... selects `alreadySent` ... and `uncertain` otherwise." |
| `MarkedLostClaim`, `MCMarkedWrite`, `NeverTwice` | When the acknowledged claim is lost with the worker, the next attempt finds no claim and sends again (Intercom's `operations.py:798`; Zoho Desk, Mailchimp and Confluence likewise). | Intercom `README.md:181`: "the operation never sends twice in one Step execution"; Confluence `README.md:327`: "the operation sends at most once per Step execution"; Zoho Desk and Mailchimp READMEs: "that direction is safe". `docs/connector-contract.md:289` says that the claim can be lost, and the READMEs of Gorgias, DocuSign, Email, Freshdesk and Jira Service Management say so too. |
| `OutlookSession`, `MCOutlookDraftSend`, `NothingWasSent` | `draft_send.py:441` maps a session that cannot be opened to branches that mean that nothing was sent, before it acts on `sendDispatched`. | Outlook Mail `README.md:282`: a later attempt that finds it "reports `sent` ... before selecting `uncertain`". |
| `OutlookSecondDraft`, `MCOutlookDraftSend`, `OneDraft` | A retry that searches (`draft_send.py:383`) before the earlier creation is applied creates a second draft. | `README.md:278`: "a lost answer to the draft creation never creates a second draft." |
| `OutlookLostHeartbeat`, `MCOutlookDraftSend`, `OneDraftIsSent` | When both heartbeats are lost with the worker (`draft_send.py:247`), the retry may send another draft of the same marker. | `README.md:299`: "one repeated send of the same draft." |

Where the provider is asked to write twice: `MarkedLostClaim` and
`OutlookLostHeartbeat`, after the loss of an acknowledged heartbeat, and
`ExchangeSlowAdmission`, which asks for two rotations. In the other cases
`AtMostOneWrite`, `AtMostOneSend` and `CredentialMovesForward` hold, and what differs is
what is reported or kept. The findings of `PROJECT.json` are these rows.

## 6. Not modelled

The reason for each part is in `PROJECT.json`. In short: static validation
(definitions, configuration UI), stateless transport and decoding (HTTP helpers,
token endpoint, text generation), cryptography, test doubles, the TypeScript port,
tooling, and the reads and idempotent updates of the connectors have no state
between calls. They are most of the repository's lines: the definitions here stand
for a small share of the Python code, because request and response mapping is
abstracted to the class of an answer.

Writes that are left out although they are not idempotent: Asana, Google Sheets
`upsertRow` and Pipedrive `upsertObject` put lookups between their sends; monday
and OpenAI rely on the provider's idempotency key; Confluence `createPage` finds
its page by title instead of a checkpoint.

Abstractions in the modelled parts: event payloads, credential material, signature
checks, object keys, durations of the fence, endpoints with more than one source.
Over-approximations: a defect found while preparing may or may not have recorded
notSent; the search that Gmail makes only on a retry after a rejection is left out (the
rejection is returned); the outcomes of a failed read-back are one set per operation; a 409 of Jira
Service Management counts as a 5xx; Excel keys are assumed new. Environment
assumptions: a class in `refusals` is really not processed (BambooHR's README says
of its 503 that it may be); for `MarkedWrite` and `OutlookDraftSend`, attempts do
not overlap; stored Trigger events decode.

## 7. Plan

Models: several sources for one webhook endpoint; the lookups between the sends of
Asana and Google Sheets; relayed Triggers on top of `BrokerToken`.
