# Verification of elmybot

elmybot is a Discord and Twitch bot that runs on one Cloudflare Worker. The
Worker itself is stateless; everything it remembers lives in Durable Objects
with SQLite storage (`src/src/index.js`, `src/wrangler.jsonc`). This directory
holds TLA+ models of those objects, the TLC configurations that check them and
the TLAPS proofs about them. `PROJECT.json` lists components, runs, hazards,
theorems, and for each definition the lines of code it models.

## 1. The system

### 1.1 How a Durable Object runs

All models share one reading of the platform, taken from how the code relies on
it:

* An object executes one piece of JavaScript at a time. Synchronous code,
  `storage.sql.exec` and `transactionSync` are atomic. Other requests (and the
  alarm) are let in only while the code waits for something outside: a call to
  another object, to Discord or to Twitch, or a digest computed in the background.
  **Every action of a model is the code between two such waits.**
* One `alarm()` runs at a time per object. The platform clears the alarm when it
  starts the handler, and starts the handler again if it throws or is cut off.
  A `fetch` handler may run while `alarm()` waits.
* An object may be evicted at any wait. Memory is lost, SQLite and the alarm
  stay. The actions named `Crash`, `...Evicted` or `...Restarts` are this.
* Calls between objects may fail, or may have had their effect although the
  caller saw a failure.

Time is abstracted in one of three ways. `IntegrationCoordinator`,
`EventSubInbox` and `GroupScheduler` keep countdowns: a column
`next_attempt_at_ms` is the number of ticks until then, `Tick` advances all of
them, and a countdown that reached 0 ("due") stays 0; a duration of a minute and
one of an hour become 1 and 2 ticks, because what the code tells apart is their
order. `StateEventCommit` has an absolute clock, because the deadlines of
different rows count from one instant. Everywhere else a deadline that may pass
is an action of its own (`SealLapses`, `EventExpires`, `LeaseAges`, ...).

### 1.2 Components

| Component | State | Operations | Talks to | Correct when | Module |
|---|---|---|---|---|---|
| `IntegrationCoordinator` (`integrations/coordinator*.js`) | executions, effects, one alarm | submit, read, retry an effect, deliver (alarm) | registry (membership, status), Discord, Twitch | nothing accepted is lost; no effect is delivered twice without a lost outcome; the status is the summary of the effects; a revoked link stops delivery | `IntegrationCoordinator`, `EffectLedger` |
| `TwitchEventSubInbox` (`platforms/twitch/eventsub-inbox.js`) | messages with attempts, one alarm | enqueue, drain (request and alarm), prune | Twitch handler (and through it the coordinator and the scheduler) | each Twitch message is handled at least once and, within its lease, by one drain; an id keeps its content | `EventSubInbox` |
| `GroupScheduler` (`message-scheduling/backend.js`) | jobs, delivery markers, schedule sources, dead letters, one alarm | schedule, replace, cancel, list, deliver (alarm) | Discord, coordinator | an occurrence is delivered once unless its outcome was lost; a repeat advances only over a delivered occurrence; a cancelled job stays cancelled | `GroupScheduler` |
| `IntegrationRegistry` (`integrations/registry*.js`) | invitations, integrations, default links, binding revisions, jobs, standalone successors | invite, verify, resolve, activate, select, revoke, notify (alarm) | realms, both platforms, observers | links, recorded bindings and copied contents agree; a revocation that began is completed | `IntegrationRegistry` |
| State event commit (`state-events/{storage,recovery,local-commit,shareable-commit,binding-authority,command-*}.js`) | origin record, owner record, registry barrier | prepare, commit, fence, recover, repin, retire | group object (origin), realm (owner), registry (binding) | an operation commits at one owner at most; its origin learns the true outcome; a binding change never overtakes a commit in flight | `StateEventCommit` |
| State event delivery (`state-events/{relay,outbox,delivery-*}.js`) | outbox rows, stream records, barriers | append, probe, confirm, retire, reset | the stream, the registry | events reach the stream in the order of their commits, each once, or a gap is declared | `StateEventRelay` |
| `DurableEventStream` (`durable-events/*.js`, `public/event-stream/client.js`) | publications, events, sockets, grants, notices | publish, append, connect, acknowledge, expire | publishers, registry, browsers | a page sees every accepted event in order, or is told of the gap | `DurableEventStream` |
| `ShareableStateRealm` (`shareable-state/*.js`) | namespaces of values with versions, seals, materializations | read, write, commit, seal, freeze, fill, adopt | registry, coordinator, origins, observers | one store to its callers, wherever the state lives | `ShareableNamespace`, `FeatureStore` |
| Feature storage (`framework/feature-storage.js`, `integrations/coordinator.js`) | versioned feature state of an integration | get, set, count, seal | realm | no lost update, also across its adoption by a realm | `ShareableNamespace` |
| State querying (`state-querying/*.js`, `public/state-query/client.js`) | queries, sources, evaluations, subscriptions | register, evaluate, attach, publish, detach | realms, group objects, binding, browsers | a page that stays connected comes to show the current result; what ended leaves nothing behind | `StateQueryObserver` |
| Twitch credentials (`platforms/twitch/channel-auth*.js`, `channel-oauth-coordinator.js`) | authorization, OAuth states, invitations | authorize, validate, refresh, invalidate, disconnect | Twitch, manager, registry | an OAuth state is used once; authorization, links and subscriptions come to agree | `TwitchChannel` |
| EventSub subscriptions (`platforms/twitch/eventsub-{manager,service,registry}.js`) | wanted subscriptions, recovery | configure, reconcile, remove | Twitch | wanted and existing subscriptions converge | `TwitchChannel` |
| Discord and Twitch front ends, actions, features, framework, scripts | none | translate and validate | all of the above | (functional tests) | - |

### 1.3 How the parts interact

A Twitch webhook is stored in the **inbox** before it is answered. A drain hands
it to the Twitch handler, which runs features; a feature may submit an execution
to a **coordinator**, with the Twitch message id as the source event. The
coordinator deduplicates by that id, so the at-least-once inbox becomes
at-most-once acceptance. A Discord command reaches the **scheduler** in the same
way, with a schedule source id. The scheduler's own handler may again submit to a
coordinator, keyed by the occurrence.

The **registry** decides which integration, and with it which **realm**, a group
uses. It answers the coordinator's membership question, copies contents between
realms when a binding moves (sealing and freezing them meanwhile), and tells
watchers of a binding when its revision advanced. Commands that publish state events
prepare an **origin** record in the group's object, commit at the **owner**
(the same object, or the realm through the registry's binding queue) and let
the **relay** carry the event to the **stream**. Ordinary durable events go from
a command through the publisher's ledger straight into the stream. Pages read
streams over sockets and acknowledge; pages that show state queries are served by
an **observer**, which watches the realms and the bindings it read from.

The **Twitch channel** is the one whose authorization the OAuth coordinator
obtained; its manager keeps the EventSub subscriptions that feed the inbox.

### 1.4 What is hard here

* Interleavings at the awaits: a second submission during the membership check, a
  cancellation during a delivery, three drains of one inbox, a drain that outlives
  its lease, an evaluation that finishes after its source moved on.
* A call that had its effect although the caller saw a failure or was evicted.
* Several waiting rows and a single alarm: every path, also the failing ones, must
  leave the alarm at or before the next due row.
* Retention: rows that answer "was this done already?" are deleted by age.
* Revocation and rebinding while work is in flight; state that moves from the
  coordinator into a realm, and from realm to realm, while it is read and written.

The complete list, each item at its line with the properties that watch it, is
`hazards` in `PROJECT.json`.

## 2. Modules

Each component has one module with its state, `Init`, one action per handler
stretch, `Next`, `Spec` and its properties; `MC<module>` gives TLC its constants.
Where several situations are of interest, the constant `Settings` is a set of
records (which requests occur, how many calls may fail, ...), one of which is
chosen at the start of a behaviour, so that one run covers all of them without
paying for their combination.

### 2.1 `IntegrationCoordinator` and `EffectLedger`

State: `executions` and `effects` are the two tables, one record per possible
key, `state = "absent"` for no row. `alarm` is the storage alarm. `worker` is the
one `alarm()` invocation: where it waits (`pc`), the integration status it read
(`linked`), the effect in its handler, and whether the platform accepted the
call. `submits` are POST requests waiting for the registry. `linked` is the
registry's record. `sent`, `orphaned` and `lateCalls` are history: they count
accepted platform calls and are not read by any guard.

| Action | Code |
|---|---|
| `SubmitStart` | validation, first replay check, begin of the membership call |
| `SubmitCommit`, `SubmitReplay`, `SubmitConflict` | the code after that call: replay, conflicting content, conflicting effect key, insert, `setNextAlarm` |
| `MembershipRefused` | registry answered no |
| `AlarmFires`, `RegistryAnswers`, `RegistryFails` | `alarm()` up to and after the status read |
| `deadLetterRemaining` | the branch for a revoked link |
| `claimEffect`, `PlatformAccepts`, `completeEffect`, `failEffect` | one turn of the loop: claim, the outside call, its outcome |
| `AlarmEnds` | pruning and `setNextAlarm` |
| `retryEffect` | the operator's route |
| `Crash`, `Revoke`, `Tick` | platform, registry, time |

`EffectLedger` is what callers are promised: an execution enters whole, each of
its effects ends delivered or failed, a delivered effect is final, a failed one
may be rearmed, only a settled execution is forgotten, and the status is the
summary of the effects. `ImplementsLedger` says that the coordinator implements it
with attempts, leases, alarms and requests in flight hidden.

Abstracted: payloads (an execution is its event id and its set of effect keys),
error texts, the read routes. The membership check inside the claim
transaction reads rows that never change for an active integration and is folded
into `linked`.

### 2.2 `EventSubInbox`

State: `rows` (one record per message id), `before` and `newest` (which row came in an earlier
millisecond than which, and the rows of the current one), `alarm`, `drains` (each running drain, the alarm's or a request's: the row it claimed, with the
attempt number, as it was read). `rows[m].runs` and `rows[m].recovered` are history:
handlers that returned, leases that were found expired. Actions: `enqueue`,
`RequestDrainStarts`, `AlarmFires`, `HandlerEnds` (the outcome of a handler and the claim
of the next row, the first by millisecond of receipt and then by message id (`IdOrder`), or the end of the drain with pruning and `scheduleNextAlarm`),
`Crash`, `Tick`; a handler may outlive its lease. The drains overlap because
`drain()` is reachable from a request and from the alarm; the code's guards are only
the row statuses, which is what the properties are about.

### 2.3 `GroupScheduler`

State: `jobs`, `deliveries` (the markers, with how much of their retention is left),
`sources`, `deadLetters`, `alarm`, `worker`, and `history` (calls, lost outcomes,
markers recorded and forgotten, plans used, jobs made and how each left). Actions:
`schedule` (with its source deduplication and pruning), `cancel`, the turns of the
alarm loop (claim, plan, deliver, record, complete, retry, drop), a completion that
throws because the next occurrence cannot be calculated, `Crash`, `Tick`. Which of
several due jobs goes first is left open, which allows every order the code's ORDER BY
can produce and more. `Loads` gives two situations: one repeating job with two plans, and
two jobs of two source events.

### 2.4 `StateEventCommit`

One operation (one source event, hence one `operationId`) with the rows that
decide about it: `origin` (the `origin:` row of the group's object), `owners` (the
`owner:` row at each realm), `barrier` (the registry's row), and `binding`, the
group's realm with its revision. In memory: `callers` (requests at the origin, with
the copy of the record each read before it waited), `requests` and `job` (the
registry's queue and the operation that holds it), `stray` (calls that somebody gave
up and that may still arrive). `applied` is history: the attempts whose mutation was
applied. `kind` is the operation's declared scope; with `group_local` the origin owns
it and the registry is not asked.

| Action | Code |
|---|---|
| `Start`, `Recover`, `Recovered`, `Prepare`, `Submit` | `commitPrepared` of the Worker and `handleStateEventCommand` at the origin |
| `RetireLookedUp`, `Expire`, `RetireOrigin` | `retire()` in `recovery.js`, and the relay's request for it |
| `RepinStart`, `AtLimit`, `repinStateEventOrigin` | `repin()`: fence the old owner, then compare and swap |
| `CacheReceipt`, `OwnerConfirmed` | `confirmed()`: cache the receipt, acknowledge it, note the acknowledgement |
| `commitLocalStateEvent` | the one transaction of the local kind |
| `CommitTakesQueue`, `Admit`, `CommitAnswered`, `StaleFenced` | `commitWithStateEventBindingAuthority` |
| `LifecycleTakesQueue`, `ResolveLookedUp`, `Resolved` | `recoverLifecycleStateEvents`, `resolveStateEventBarrier`, and the lifecycle operation behind them |
| `Serve*`, `lookup`-, `fence`-, `commit`-, `confirmStateEventOwner` | the owner's transactions |
| `retireStoredStateEventOwner`, `prune` | delivery ended; retention |
| `CallFails`, `OriginEvicted`, `RegistryEvicted` | timeouts, lost answers, evictions |

A call to an owner is sent, served and answered in three steps; a caller that stops
waiting leaves the unserved call in `stray`, from where it is served at any later time or
never. This is what makes the fences and the barrier necessary.

Abstracted: payloads and fingerprints (all attempts of an operation carry the same
request), the token of an attempt (drawn with each epoch), a binding that is not ready
(it matches no route, like another one), the row and byte budgets except that the origin
may be unable to cache a receipt, the cooldown claimed by `prepareStateEventOrigin`,
the `append` barriers of event delivery, and other operations.

### 2.5 `IntegrationRegistry`

State: `inv` and `discovery` (invitations and what was found of their realms), `integ`
(integrations), `default` and `succ` (the selected link of each group, and its
standalone successor), `binding` and `outbox` (recorded revisions, notices due),
`jobs` and `groupJobs` (revocations), `realm` (what each realm holds, its seal, whether it
is frozen), the processes' positions, and the alarm. Everything that may move a binding runs under the object's
FIFO `withBindingAuthority`, the process `Authority`; verifying and resuming an
invitation run beside it, one process each.

| Actions | Code |
|---|---|
| `CreateInvitation`, `ReserveInvitation`, `StartDiscovery`, `VerifyInvitation`, `ResumeInvitation`, `CancelInvitation`, `ResolveInvitationState` | the invitation's requests |
| `Look`, `Inventory`, `PersistDiscovery`, `Rediscover`, `ResolveCandidate`, `CloneSuccessor`, `MarkSuccessorReady` | discovery of what the two sides hold |
| `PlanFinalization`, `AcquireSeal`, `MaterializeFinalization`, `CommitActivation`, `ReleaseSeals`, `Abort` | the finalization with its seals |
| `SetDefaultLink`, `ResolveShareableState` | the operator's selection, a command's resolution |
| `RevokeIntegration`, `RevokeForGroup`, `FreezeIntegration`, `CompleteRevocation` | revocation and its jobs |
| `AlarmFires`, `ClaimNotifications`, `DeliverNotifications`, `WatchBinding`, `UnwatchBinding` | the alarm's batch, watchers |
| `Write`, `SealLapses`, `DeadlinePasses`, `RealmCallFails`, `Evicted` | commands at the realms, time, faults |

Abstracted: one namespace; a value is the number of the write that produced it, so it
is its fingerprint too; one other platform, so that a direction is named by its source
group. Left out: routes (`updateRoute`, 841-930), the audit log, read-only operations;
barriers and durable-event bindings are in 2.4 and 2.7.

### 2.6 `StateEventRelay`

The owner's outbox `rows`, the stream's control row `source`, attempts in progress
(`workers`), appends on their way (`mail`), the `registry`'s binding with barrier and
queue, the destination `dest` (records, backlog, gap, reset fence, the producer's
interest), the `drainer` of wakeups, the page (`consumer`), the operator's `reset`.
Appends and the fences that exclude them are messages that may be handled after their sender gave
up; the other calls are one step whose reply may be lost. The stream reads the stored outcome of an
operation (`delivery-stream.js:104`), waits several times (113-141) and writes what follows from that
reading (`save`, 51-53): a request sent while there was no outcome (`early`) may be handled as if
there were still none (`stale`). Only a repeated event is recognised then, by its receipt (`Replayed`).
Undecided rows whose time is over are maintained by a pass, which an alarm starts only while
some row has a wakeup (`Alarmed`), or by a status request, which nobody owes. The actions follow `outbox.js` (enqueue, claim, finish),
`relay.js` (append, outcome, confirm, retire), `delivery-source.js` and
`delivery-stream.js` (append, acknowledge, expire, prune, the coordinated reset) and
`producer-wakeup.js`.

Abstracted: tokens; the cap of four leases, turns and bursts of an owner with several
streams; the work budget is a nondeterministic `deferCleanup`; times between two
retries coalesce; a record is pruned only with no call left; a local or shared stream is
reset again with the same grant only as the tests do. `reconcile` has no caller in the code
and is left out, like settings pages, capacities in bytes and diagnostics.

### 2.7 `DurableEventStream`

`binding`, `interest`, `notices`, `posting`: the registry's binding of the group, which
streams want to hear of its moves, and the notices. `ledger`, `commands`: the publisher's
ledger and the invocations in progress. `stream`, `grants`, `sockets`: the streams, the
operator's grants, the connections with both ends. Actions by origin: `prepare`, `append`,
`finalize`, `resolve`, `repin` (publisher); `advanceDurableEventBindings`, `claimDue`,
`deliverOne`, `applyBindingNotification` (registry); `issueGrant`, `revokeGrant`,
`acceptDurableEventSocket`, `registerSocket`, `acknowledgeSocketEvent`,
`closeDurableEventSocket`, `alarm` (stream); `PageHandles`, `PageLeaves` (client);
`EventExpires`, `GrantExpires`, `InterestLapses`, `CommandDies`, `DeliveryFails`.

Not modelled: the expiry of ledger rows and receipts after two hours, the ingress rate, an
append that arrives after the registry was evicted, sends that fail, several groups
over one realm, combined appends (2.6).

### 2.8 `StateQueryObserver`

The observer's `row` (queries), `edge` (sources), `seen` (inbox of notifications), `ev`
(evaluations in progress, by who asked), `alarm`, `sub`, `reg`, `link` (subscriptions, the
registration of a socket, the registered socket); outside it `source`, `bound`, `grant`
and the client's `page`. A handler is one action per stretch between two calls.

| Actions | Code |
|---|---|
| `connect`, `RegistrationFails`, `registered` | `registerSocket` with its evaluations |
| `authorizedEvaluation`, `bindingDescriptorsForPlan`, `registerDescriptor`, `unregisterDescriptor`, `storeEvaluation` | one evaluation: read, attach to what was read, store |
| `receiveNotification`, `invalidateStateQueryGrant` | what sources and grants report |
| `alarmFires`, `claimDueQueries`, `renewLiveStateQuery`, `publishStateQueryStreamUpdates` | the alarm |
| `cleanupDetachedSources`, `examine`, `reattach`, `detach`, `detachFails` | the detach of an edge: unregister, look at it again, register what is used again, write it back |
| `eventAfterSequence`, `onMessage`, `webSocketClose`, `closeStateQueryStream`, `pruneHistory` | the socket protocol and its history |
| `AlarmComesLate`, `LeaseAges`, `Restart` | time, eviction |

Abstracted: a query's lease is its subscription's; a registration ends before its lease;
storing, publishing and the next attachment are one step; unregister calls of one mismatch are
one step; a page shows nothing while it is disconnected. Left out: the planner and result
checks (pure functions), capacity limits, the periodic authorization mode, the expiry of
grants, several subscriptions of a page, a second registration while one runs, the partial
failure of a `Promise.all`, commits that change nothing.

### 2.9 `TwitchChannel`

`flow` (OAuth states and invitations), `auth` with its alarm, `call` (handlers in
progress), `config`, `recovery`, `alarm`, `run` (the manager), `queue` (the service's
operations), `entry` (channel registry), `links` (integration registry), `twitch`
(subscriptions, notices, live tokens). Actions: `createInvitation`, `startOAuth`,
`finishOAuth`, `authorize`, `issueGrant` and their alarm (`coordinatorAlarm`);
`validate`, `refresh`, `refreshRejected`, `revoked`, `disconnect`, `verifyPendingIntegration`,
`deactivateLinkedIntegrations` (authorization); `configureChannel`, `deconfigureChannel`,
`queueRecovery`, `alarmBegins` ... `alarmRetries` (manager); `serviceMutates`,
`serviceAnswers` (service); `failedNotice` and what Twitch or its users do
(`SubscriptionFails`, `SubscriptionForgotten`, `TokenExpires`, `UserRevokes`); faults
(`Crash`, outcomes of calls).

Abstracted: delays and work budgets, pagination and the app token's 401 retry (calls that
fail); one handler of each kind at a time; whether a recovery is a duplicate is
left open. Left out: identity and scope rejections, the routes that list or create a
subscription directly, the bot's token (`auth.js`) and the app token's cache. In settings
with `manages = FALSE` the manager's alarm takes no part.

### 2.10 `ShareableNamespace` and `FeatureStore`

`row` is one namespace in a realm with its values, subjects of counters, seal, freeze,
schema and mutation version `mv`; `adoption` and `materials` the rows that make filling it
idempotent; `legacy` the feature's state in the coordinator, with its seal; `adopting` the
adoption in memory, which requests join; `call` what each open request is doing;
`declared` the schema of the installed feature.

| Actions | Code |
|---|---|
| `Ask`, `Receive`, `Handle` (`Data`, `Commits`, `Transition`, `Materializes`, `RunsData`) | `realm.js`: `ensureNamespace`, the wait for an adoption, the operation's transaction |
| `LookAgain` | a reader asks until it is answered |
| `Adopt` (`CoordinatorSeals`, `AdoptionFills`, `AdoptionEnds`, `AdoptionStops`), `AdoptionCallFails` | adoption of the coordinator's state |
| `LegacyWrite`, `LegacyHashes`, `LegacyCounts` | `feature-storage.js` in the coordinator, the digest included |
| `SealLapses`, `RealmEvicted`, `CoordinatorEvicted`, `Deploy` | time, evictions, a new schema |

`FeatureStore` is the promise: one store in which every call takes effect at most once,
between its request and its answer; it may close for a while or for ever, and may be
filled while nobody wrote to it. `ImplementsStore` maps it to the legacy state
until the realm has content (`mv > 0`) and to the realm's rows from then on.

Abstracted: a snapshot is its rows; a value is a number up to `Most`; one deploy,
from schema 1 to 2; the coordinator has room left. Left out: identity binding,
cooldowns, config values, the listing of subjects, the wait for a schema
notification. Legacy operations occur only where the state may be
adopted: of the realms the registry fills, only a new integration's could have a
coordinator, and its legacy state is empty (`registry.js` 2180-2230, 1184).

## 3. Runs

| Run | Shows | Bounds |
|---|---|---|
| `coordinator_delivery` | `LedgerConsistent`, `NoStrandedEffect`, `EveryCallAccounted`, `RevocationBoundsCalls`, `AttemptsExplained`, `ImplementsLedger`, `EveryExecutionSettles`: two submissions that disagree or replay each other, racing alarms that fail or are evicted, a revocation, retention, an operator's retry | 1 event with two effects or none, 2 callers, limit 2, 1 eviction, 1 rearm |
| `registry_lifecycle` | `LinksAgree`, `StateCarriedOver`, `GroupJobFinishes`: two invitations of one guild and two channels, default changes, revocation, the link after it, while commands write | 2 discoveries, 1 write, 1 change |
| `registry_recovery` | `RevocationCompletes`: a revocation is completed by its job | 1 invitation, 1 deadline, 1 failing call, 1 eviction, 1 watched group |
| `inbox_drains` | `MessagesAccounted`, `EveryMessageSettles`: redeliveries and id reuse, overlapping drains | 2 messages, 3 drains of one message each, limit 2, 1 eviction, 1 slow handler |
| `scheduler_delivery` | `JobsAccounted`, `EveryOccurrenceSettles`: failures, throws, markers that age, cancellation, deduplication and pruning | one job of 2 occurrences and 2 plans, or 2 jobs of 2 sources; limit 2, tables of one entry, 1 eviction |
| `commit_recovery` | `OutcomeKnown`, `CommitsGuarded`, `BarrierResolved`: applied once, under the current binding, everybody learns the truth | 2 realms, 2 attempts, 1 rebinding; one requester and 2 lost calls, or two requesters |
| `stream_delivery` | `EventsAccounted`, `ConsumersServed`, `MovedConsumerTold` | seven settings: calm, ageing, moving, regranted, failing, racing, lapsing |
| `relay_delivery` | `OutcomesAgree`, `Settles` | eleven settings: full, losing replies, ageing, resetting, sharing |
| `query_observer` | `NothingUnsaid`, `PagesServed` | six settings: two queries, two pages, a moving binding, a loss with a late alarm, a revoked grant with either |
| `twitch_channel` | `PromisesKept`, `EventuallyAgreed` | nine settings of requests and faults |
| `namespace_store` | `VersionNamesContent`, `ImplementsStore`, `Served` | twelve settings, 3 or 4 calls, 2 open at once, 2 keys |
| `namespace_archive` | `ArchiveStaysReadable` is violated: the archive of a revoked integration refuses its readers after a deploy | the setting `Archived` |

Every run but the last checks `TypeOK` too, which also says what the tables owe each
other (`registry_recovery` leaves it to `registry_lifecycle`). The definitions named by a conjunction (`OutcomeKnown` is four, `OccurrencesAccounted`
seven, ...) are stated and explained one by one in the modules.

Why these bounds are enough to be interesting: the code compares attempts with a
limit, so a limit of two shows "below", "at" and "above" it; one batch limit of
1 shows an alarm that stops with due rows left; two keys are the least with which a
submission can conflict partially; two callers are the least with
which a replay moves the alarm while `alarm()` runs; two lost calls are the least with which
the recovery of a lost call is lost; two realms and one rebinding are the least with
which an operation could be applied twice, two operations the least with an order, two pages
or queries the least that share a source. The source's lifetime and the receipts'
retention are one tick each, equal as in the code, so that the boundary between them
is met by every run. `ATTACH_ATTEMPTS` is 2 instead of 3; the relay's 12 automatic and
20 total attempts are 2 and 4. Bounded by guard: everything named `Max...` in a module, and
what a setting counts. Symmetry is used once, over the two invitations of `registry_lifecycle`,
whose only temporal properties are action properties.

Deadlock is checked where time alone keeps a system going (coordinator, inbox, scheduler,
commit). The other models have no clock: when every request and fault of the setting is used
up and all work is done, nothing may happen any more, and that is the idle system.

### Finding

`namespace_archive`: `ensureNamespace` (`realm.js:490`) runs for every request and refuses a
frozen namespace whose stored schema version is not the declared one, although
`docs/shareable-state-realms.md:129` says "Reads and snapshots remain available, but mutations
and in-place schema upgrades fail closed." After a compatible deploy the archive cannot be
read, frozen again, or copied into a standalone successor (`registry.js:1184`).

### What properties excuse, and where code and documents differ narrowly

A property that would be false is not weakened silently: what breaks it is recorded in
`history` at the step where it happens and named in the property.

* Registry: `expired`, set when a seal lapses (`SealLapses`, at any time). Seals last 60 s from
  `registry.js:2137`, the calls to realms have no deadline, and nothing looks at the lease again before the
  commit (2389-2415). A command the old realm accepts after that is left behind there, although
  `docs/shareable-state-lifecycle-verification.md:19` has it "included or rejected rather than silently
  omitted". `ActivationCarriesChoice` claims it only for a seal that has not expired.
* Stream: `crossed` (a command that saw the binding on its way back repins what another pinned
  to the newer revision), `overlapped` (two commands of one event), `forgotten`
  (publication shortens interest to two hours, `publisher.js:118`, `binding-notifications.js:113`,
  while `docs/durable-event-contract.md:386` promises it for the grant; a replayed append returns before
  the stream takes over the binding, `stream.js:875`, although the registry has moved its interest
  to the new revision, so such a realm stays forgotten), and `taught` (a publication
  that teaches the stream the move makes the later notice stale, so that a consumer with nothing
  to drain stays connected until its grant's alarm, `stream.js:246` and
  `docs/durable-event-contract.md:392`).
* Relay: `Settled` names when a row may rest: attempts used up, waiting for the page, the
  stream cannot take it, a reset fences the source, and `Overtaken`: an append refused before the
  deadline whose attempt ends after it leaves an undecided row without a wakeup (`relay.js:233`, `:244`);
  no alarm (`storage-alarm.js:14-18`) maintains it, although `docs/state-event-delivery.md:81` has it become a
  gap. `overwritten`: a fence, or a gap at the deadline, that was begun before the append committed
  replaces the recorded outcome (`delivery-stream.js:51-53`, against `docs/state-event-delivery.md:63`). A reset interrupted half way is completed only with the
  same grant id; a fresh id per request (`grant-client.js:210`) cannot complete it
  (`delivery-source.js:188`, `docs/state-event-delivery.md:121`).
* Commit: a lost confirmation leaves `originConfirmed` false on the owner's row; when the origin
  record is gone, nothing removes that row (`storage.js:256`). No property bounds it.
* Query observer: `Vouched` (a store clears `pending_reason` unconditionally,
  `live-observation.js:600`; a binding watched later than it was read, `:314`), `lost`
  (registration of a socket with several queries, `stream.js:588`), `removed` (a late close of an
  older socket during registration, `stream.js:1079`), and `stray` (a detach waits for `registerDescriptor`,
  `live-observation.js:1169`, and makes the edge active (1180-1190) although its last query ended
  meanwhile; the next change of the queries detaches it again). The related texts are
  `docs/state-query-contract.md:509` and `docs/state-querying-roadmap.md:151`, `:377`.
* Twitch channel: `overwritten` (the manager writes what it read before it waited,
  `eventsub-manager.js:149`, `:169`, `:207`), `crossed` (an authorization and a disconnect overlap,
  `channel-auth.js:233`, `:381`, `:423`), `torn` (a request dies half way, `:357`, or the
  alarm's invalidation after its calls, `:344`). An error answer of the token endpoint, 429 and 5xx too, counts as
  a refusal (`auth.js:69-75`) and invalidates intact tokens (`channel-auth.js:432-442`). Tokens refreshed just
  before a failing validation are lost (`:309`), an access token may expire between its refresh and
  that validation, and a late notice of a revocation invalidates a newer authorization (`:463`); all
  four count as causes of `reauthorization_required`.
* Namespace: `late` (a legacy counter write checks the seal before it computes a digest,
  `feature-storage.js:568`, and is stored after the seal) and `passed` (a compatible upgrade
  advances the version of an empty namespace before its adoption, `realm.js:677`, which then counts
  as materialized and leaves the legacy state behind, against `docs/feature-state.md:201-205`).
  Each is necessary: without either excuse `ImplementsStore` is violated. Legacy values that exceed the
  declared limits never fit: the adoption fails for ever after the seal (`~Acceptable` in `Served`).

## 4. Fairness

The liveness properties assume, and no more:

* Coordinator, inbox, scheduler: time passes; a due alarm runs (the platform's
  at-least-once promise); code between two waits finishes; a handler's outside call ends, with
  success or failure; the registry is not unreachable for ever (strong fairness of its answer,
  since each failure disables the wait and the next alarm asks again). Nothing is assumed of
  requests, request drains or operators, and no delivery is assumed to succeed: rows settle by
  exhaustion too. For the inbox, strong fairness of the alarm is assumed because each
  enqueue moves the alarm to a second from now; a sender that never pauses for a
  second could postpone it for ever.
* Commit: only the registry is fair: its calls are answered or fail (each is bounded by five
  seconds), its code goes on, and a lifecycle operation that finds a barrier is tried again (the
  registry's alarm retries revocations) and gets its turn (strong fairness: the queue is
  first come, first served). Nothing is assumed of the origin, so
  `BarrierResolved` says that the registry needs no help from whoever left the barrier behind.
* Registry: each process goes on; an armed alarm fires and a seal's lease ends in the end,
  however often work is retried (strong fairness, because retries may disable them in between).
* Stream: the registry's alarm delivers notices, pages handle what they were sent, their
  messages and their end arrive (one weak fairness over all of these, each bounded). The
  stream's alarm has no fairness: it may be as far away as the end of a grant.
* Relay: alarms (only while a row has a wakeup), requests in progress and deadlines go on, and an operator
  retries a reset. Status requests are not owed.
* Query observer: calls are answered, outboxes deliver, alarms fire, leases of each page age.
* Twitch channel: each caller, the manager, the OAuth coordinator and the notices go on;
  no fault and no operator's request is ever owed.
* Namespace: a reader looks again, an adoption goes on, each open call is handled.

## 5. Proofs

| Module | Theorem | Statement |
|---|---|---|
| `CoordinatorAndChannelProofs` | `TypeCorrect` | `Spec => []TypeOK` |
| | `LedgerAlwaysConsistent` | `Spec => []LedgerConsistent` |
| | `RevocationAlwaysBounds` | `Spec => []RevocationBoundsCalls` |
| | `AttemptsAlwaysExplained` | `Spec => []AttemptsExplained` |
| | `EveryCallAlwaysAccounted` | `Spec => []EveryCallAccounted` |
| | `NothingStranded` | `Spec => []NoStrandedEffect` |
| | `LedgerImplemented` | `Spec => ImplementsLedger` |
| | `ChannelTypeCorrect` | `ChannelSettings` implies `Chan!Spec => []Chan!TypeOK` |
| | `PromisesAlwaysKept` | `ChannelSettings` implies `Chan!Spec => []Chan!PromisesKept` |
| `InboxAndQueryProofs` | `TypeCorrect` | `Spec => []TypeOK` |
| | `AlwaysExplained` | `Spec => []HandlingExplained` |
| | `MessagesAlwaysAccounted` | `Spec => MessagesAccounted` |
| | `ObserverTypeCorrect` | `QuerySettings` implies `Obs!Spec => []Obs!TypeOK` |
| | `NothingStaysUnsaid` | `QuerySettings` implies `Obs!Spec => []Obs!NothingUnsaid` |
| `GroupSchedulerProofs` | `TypeCorrect` | `Spec => []TypeOK` |
| | `OccurrencesAlwaysAccounted` | `Spec => []OccurrencesAccounted` |
| | `JobsAlwaysAccounted` | `Spec => JobsAccounted` |
| `ShareableNamespaceProofs` | `TypeCorrect` | `Spec => []TypeOK` |
| | `ContentAlwaysNamed` | `Spec => VersionNamesContent` |
| | `StoreImplemented` | `Spec => ImplementsStore` |
| `StateEventCommitProofs` | `CommitInvariant` | `Spec => []IInv` |
| | `TypeCorrect` | `Spec => []TypeOK` |
| | `OutcomeIsKnown` | `Spec => []OutcomeKnown` |
| | `CommitsAreGuarded` | `Spec => CommitsGuarded` |
| `DurableEventStreamProofs` | `StreamInvariant` | `Spec => []IInv` |
| | `TypeCorrect` | `Spec => []TypeOK` |
| | `EventsAlwaysAccounted` | `Spec => []EventsAccounted` |
| | `ConsumersAlwaysServed` | `Spec => []ConsumersServed` |
| `IntegrationRegistryProofs` | `TypeCorrect` | `Spec => []TypeOK` |
| | `LinksAlwaysAgree` | `Spec => []LinksAgree` |
| | `StateIsCarriedOver` | `Spec => StateCarriedOver` |
| | `SuccessorContinues` | `Spec => SuccessorContinuesArchive` |
| | `GroupJobsFinish` | `Spec => GroupJobFinishes` |
| `StateEventRelayProofs` | `TypeCorrect` | `Spec => []TypeOK` |
| | `OutcomesAlwaysAgree` | `Spec => []OutcomesAgree` |

They hold for every value of the constants that satisfies the named assumptions of the
module: all sets of events, keys, callers, messages, drains, jobs, plans, sources,
settings, realms, grants, connections, groups, invitations, operations, flows, tokens, and all
limits and durations. All safety properties that runs check of these ten
components are proved, and both refinements. Each component has an inductive invariant,
proved with one lemma per action, from which the properties are derived.

Two modules hold two components each that do not use each other: `InboxAndQueryProofs` the inbox
and the observer of queries, `CoordinatorAndChannelProofs` the coordinator and the Twitch channel. Their
variables and definitions have names in common, so the first is extended and the second is an
instance, `Obs` and `Chan`. The assumptions of `StateQueryObserver` and `TwitchChannel` on their
constants (`SettingsAssumption`) are therefore not in force there; the theorems state them as their
hypotheses `QuerySettings` and `ChannelSettings`, word for word, and TLC evaluates the assumptions
in the runs `query_observer` and `twitch_channel`.

### 5.1 Coordinator

`LedgerConsistent` is not inductive: whether a delivery's outcome keeps the tables
consistent depends on what the worker remembers. `IInv` adds that a row
is absent exactly if it belongs to no event, that a worker inside a handler holds an
effect that is still `attempting`, and that a request in flight is one of
`Requests`. From "attempting" follows that the effect's execution is `pending`
(`LiveOwner`), therefore never pruned under the worker; this is the argument for why
retention cannot orphan an effect. The proof has one lemma per action
(`SubmitIInv` ... `RevokeIInv`) over shared lemmas about the tables (`PruneTables`,
`UpdateTables`, `SettleTables`), and `NextIInv` combines them.

The delivery properties rest on `IInv` and one invariant each:

* `RevocationIInv`: late calls and the calls the running batch may still make
  (`CallsLeft`) are together at most a batch. A claim leaves the sum alone, a late call
  moves one unit, and a batch that reads a revoked link has none.
* `AttemptsIInv`: an outstanding effect that is not in a handler is strictly below
  limit plus evictions. `failEffect` gives an effect back only below the limit; an
  eviction gives one back at the bound and raises the bound.
* `EveryCallAccounted` is inductive over `IInv`.
* `WakeIInv`: the alarm comes no later than any outstanding effect is due or than the
  put-off after a registry outage, also while `alarm()` runs. It needs
  `LeaseAssumption`, that `ATTEMPT_LEASE` is at most `RETRY_BASE_DELAY` (both are
  30 s): a replay served while `alarm()` waits sets the alarm to the end of the running
  attempt's lease and thereby replaces the platform's retry of the handler. If the
  object is evicted after that attempt failed, it wakes at the lease's end, though the
  retry may be due before. With a lease longer than the first delay the property fails.

The refinement goes by the usual two facts, `LedgerInit` and `LedgerStep`; that the
stored status is the one the ledger recomputes (`StatusMapped`) is `LedgerConsistent`
read through the mapping.

### 5.2 Inbox

`HandlingExplained` counts attempts against leases that were found expired, and that
count is no invariant by itself: an attempt in progress that fails leaves a row asking
for another. `Counted` charges what is still to come in advance. For each
message, the attempts in progress, the one its row asks for and the handlers that
returned are at most one more than the leases found expired; and the row's attempt
number, what it asks for, what may be retried after it (`Ahead`) and the attempts in
progress whose failure would be retried (`Early`) are together at most
the limit plus the leases found expired. `ReleasePays` and `ClaimPays` are the two
exchanges: an attempt's end pays for the row's next request, an expired
lease for another claim. A turn of `drain()` is proved in two halves, the outcome
for the row it held (`Releases`), which leaves the drain free, then the next claim
(`Claims`) or the return. `AlwaysExplained` includes that a message is never
stranded and that first attempts keep the order of the milliseconds of receipt, whatever the ids; the action property
`SettledStays` follows in `NextSettled`.

### 5.3 Scheduler

`IInv` relates what `alarm()` holds in memory with the row it read it from, which a
request may have replaced or cancelled meanwhile:

* `WorkerInv`: what it prepares or delivers is an occurrence its job has come to and
  that has no marker; if the row still stands there, it carries the same plan.
* `MarkersInv`: a marker is written at most once more than markers were forgotten, and not more
  often while the occurrence is still to be delivered; a job moves on only over a marker.
* `PlansInv`: a plan that reached the platform is the stored plan of its occurrence.
* `SourcesInv`, `DeadInv`: the two bounded tables are suffixes of the sequences of all jobs
  made and failed, at least as long as promised. The first needs that a pruning batch is at
  least a pruning interval (`LimitsAssumption`; 250 and 100 in `backend.js:89-90`): with a
  smaller batch the table grows without bound.
* `AlarmInv`: an alarm that is set is not late, and one is set unless `alarm()` runs.
* `FatesInv`: a job is scheduled from the request that made it until its fate is known.

`Going` states what may become of a row in one step (it appears, keeps its
occurrence or comes to the next one) and carries the parts that only depend on that over every
action; `Moves` does the same for `completeOccurrence` and `failOccurrence`. The action property
`GoneForGood` follows from `FatesInv`: once a job's fate is known, no step of the
alarm that still holds it brings it back.

### 5.4 Namespace and refinement

`IInv` has four parts. `RowInv`: what was never written is empty, and a state that may
still be adopted is neither sealed nor archived. `LegacyInv`: nothing writes to a legacy state
nobody may adopt. `CallsInv`: what an open call that was admitted may
rely on when its transaction runs. `AdoptInv`: an adoption in progress carries exactly what the
coordinator sealed, or a declared excuse happened; and its outcome is recorded only when the
realm has a version.

`ContentAlwaysNamed` then goes action by action over lemmas about the operations
(`SetGood` ... `CountGood`). For `StoreImplemented` each step is mapped to a step of `FeatureStore`
or to a stutter (`Shows`). The crucial cases are the two at which
the mapping `Source` changes from the legacy state to the realm: `AdoptionFillsShows`, where
`AdoptInv` says that both hold the same, and a `Fill` from a snapshot, which only
happens while nothing was written (`MaterializesShows`). Once an excuse is recorded the abstract store
only says that it happened, so every later step of the abstract store is `Excuse`
or a stutter: the theorem is about all behaviours up to the first excuse.

### 5.5 State event commit

`OutcomeKnown` speaks of rows and answers, but whether it survives a step depends on every
attempt that may still be in flight: a call that was given up ten steps ago can be served now.
`IInv` therefore classifies attempts. An attempt is `Dead` if it was not applied and, while the
source event is fresh, its owner's row already answers something else than "absent" to it; it is
`Issued` if, while the event is fresh, it is the origin's own or dead. The invariant says
that every attempt anybody holds (a caller's copy of the record, the registry's job, a queued
request, the barrier, a stray call) is issued. So of all attempts ever made only the origin's
can still be applied: `repin()` replaces the origin's attempt only after the fence answered
"fenced" for it, which is what `Refused` records in the caller that waits. Freshness is part of it:
a row, and with it the fence, may be deleted once the source's lifetime is over (`RowFine`), and from then on
`assertFresh` refuses what the fence would have.

The parts are `AppliedInv` and `OriginInv` (what was applied is the attempt the origin names, and its owner
keeps the receipt while somebody may need it), `OwnersInv` (a receipt is of the applied
attempt, and may be pruned only after the origin cached it), `CallersInv`, `JobInv`, `QueueInv`
and `StrayInv`, whose core is `NoUnguardedCommit`. The proof shows once what the others rely on:
a step that moves the origin and the owners only `Onward` (the event does not become fresh
again, what was applied or came too late stays so, and attempts that are closed, dead or
issued remain it) keeps every caller, job, request and stray call it does not touch
(`OthersStay`). Each action then shows that it moves onward and that what it touches is
again fine. `CommitsGuarded` follows, since `EveryStep` also shows that a step that applies
the mutation does so under the binding that holds.

### 5.6 Durable event stream

`IInv` has three parts besides the types, each about other state, so that most steps need only
one of them. `Serving`: a stream, its consumer and its events. `EventsAccounted` and
`NoStalledConsumer` survive a step only because the one registered socket is that of the
stream's current epoch and grant, and is either idle with nothing retained or holds the least retained event
(`InHand`): a page then handles no event before its predecessors, an acknowledgement frees exactly the
event the page handled, and a later event cannot overtake it. The stream's handlers are operators from a
stream and its sockets to the next (`World`), and so are the lemmas: `PruneServes`,
`SendServes`, `InsertServes`, `TerminateAll` say what each operator preserves, and `HandlerStep` and
`Elsewhere` carry it over to the step, since a handler touches no other realm's connections.

`Informed`: who knows which revision of the binding. Nobody is ahead of the registry, and who has its
revision has its realm (`Past`). `MoveKnown` is the core: a stream at the revision of one of its grants
is watched at that revision while it is the binding's, and has a notice from that revision afterwards.
`MovesAccounted` follows, since such a notice is not stale at that stream. The part of a
notice in delivery is subtle: another notice may replace it meanwhile (`ToldKnows`). This proof
showed that an earlier version of the model took a realm out of `forgotten` at a replayed append, which
teaches the stream nothing.

`Settling`: what commands, ledger and receipts say of an event. Its core is `Behind`: a command's
route is the ledger's or one the ledger has left without a receipt, because who resolves or repins
has seen its stream refuse it and `repin` compares the route; a stream takes an event in
only under the binding's newest revision, which no command that resolves can have. With `Alone` (a command without a rival
settles the row as its stream answered) this gives `OneStreamPerEvent`.

### 5.7 Registry

`LinksAgree` compares the links and the recorded bindings with the integrations, at a moment when no
binding operation is half done. Whether a step preserves it depends on what the process that runs
the binding queue carries from call to call, and on rows that a page may still change. `IInv` says of each
table what the others rely on, and of each process what it may act on:

* `Types`, `Tables`: the types; an integration is made once, from an invitation that
  stays closed; a pair of groups has one active integration; `jobs` lists exactly the
  integrations that are being revoked; a successor is copied from a revoked one, and a group has had at most as many
  successors as there are revoked integrations.
* `Discoveries`: a persisted discovery names one realm for each side, and only realms that may be
  used by the group they were found for (`Known`, `Published`). Without it the commit could bind a group to
  a realm of others.
* `Stores`: archives are frozen, and every successor that is not pending was copied.
* `Records`: `DutyOf` (the queue's process works on what the tables still say: the integration it
  freezes or repairs is still being revoked, the one it activates does not exist yet), `VisitorOf`
  (a page only discovers), `FindingOf` (what has been found so far may be used), `CopyOf` (a
  copy under way is the one of the group's successor or of one already used, and when finished
  holds what was archived) and `SealOf` (a finalization holds the seals of what it has looked
  at, and, unless a seal expired, the content is still what it saw).

Most steps touch one row and one process. What they leave of the others is said once, by the
frames `Onward` (realms are only published, archives stay, no integration or successor is
undone), `Kept` and `Undisturbed`; a step shows that it is one of these and proves the part it
changes. `ActivationCarriesChoice` rests on `SealOf`, which the commit finds true or excused by a seal
that expired on the way; no assumption on durations is made. `SuccessorContinues` is the other half of
`StateCarriedOver`.

### 5.8 Relay

`OutcomesAgree` relates the owner's rows, the stream's records and the order of events; an operation has one
outcome unless a stale request wrote over its record. No single
table implies it, because an append may be handled long after its attempt was given up, a record may be
pruned, a reset discards what a row still waits for, and the binding may move. `IInv` says what each
of them may rely on:

* `RowsTrue`, `WorkersTrue`: a row, and what an attempt learned, says nothing that did not happen at the
  stream (`Said`, `Learned`), and an attempt in progress holds the lease of its row (`Anchored`). With
  `OneLease` at most one undecided row of the stream is leased, also by a lease taken over.
* `RecordsTrue`: the receipts are the events appended, also where a stale request wrote over the record
  (`overwritten`); and the stream keeps its record of an operation until the operation is `Closed`: superseded by a
  reset, or resolved at its owner with no append of it on its way. This is why a late append never stores an event a second time.
* `MessagesTrue`, `QueueTrue`: an append that claims to be the head comes after nothing undecided (`Ahead`),
  whoever handles it and whenever. In a shared stream it carries the number of the barrier that was raised
  for it, or it is excluded by a fence, by its deadline or by the receipt of its event (`Guarded`, `Shut`), which holds
  for a stale reading too; and a binding that moved has no barrier left.
* `CallsTrue`: the registry waits for one request at most, the one its queue is handling, so what it is told
  is the outcome of that call.
* `ResetTrue`: a reset covers every operation the owner had committed, the stream stores none of them from its
  fence on, and the step a reset has come to says what both sides hold.
* `Facts`: `OutcomesAgree` itself, with what it needs to be inductive (`Known`, `EventsTrue`).

A step shows which of two frames it is: `SameStream` (the stream and the queue are left alone; most of the
owner's steps) or `StreamMoved` (what an append, an acknowledgement, an expiry or a pruning adds and
removes), over `Onward` (what happened stays so, what left the stream does not come back). Each
action then proves only what it touches. The order of events is the last part: a step adds
no event, or one that is `Ahead` (`NothingNew`, `OneNew`).

### 5.9 Query observer

`NothingUnsaid` compares a page that has nothing in flight with the row of its query. Nothing
follows from that one step later: an acknowledgement may have brought the page there that was sent
when the row was another one. `OInv` therefore says at every moment what will be shown:

* `OTypes`, `ObserverTables`: the types; a row refers only to edges that have a row, an active edge
  is used or was written back by a detach whose last query ended while it waited, and a row that is gone is empty.
* `Alarms`: only a drain evaluates for the alarm, and it brings a denied query back only if the observer
  knows of the revocation.
* `PagesTrue`: a page joins as long as its registration runs, which evaluates one query at a time under a
  fresh lease; a socket with an event in flight is of a connected page, and nothing waits behind an
  event that was never sent.
* `QueriesTrue`, per page and query. `Flows` is its core: what the page shows, what is in flight and what
  waits in the history follow each other in their numbers (`Follows`), the last of them is
  no older than what the subscription counts as told, and if it carries the number of the row it is
  what the row holds (`UpToDate`). Unless a status event is on its way or the history has a gap: then a
  snapshot or the end follows. `ToldCounted` says when a result counts as told, `Gets` the same as
  `Flows` for the results a registration has gathered, and `Revives` that an evaluation the alarm had begun
  before its query was denied does not let the row come back unseen.

The rows of a page change only in the ways `RowMoves` names, and each of them keeps a query in order
(`QueryStays`). A step touches one page at most; of the others only rows may go (`OthersKept`), and of a
page that is away nothing is asked (`AwayPage`). Publishing merges one event into the flow to
a page (`FlowsOn`), and a message of the page takes one off it (`AcknowledgedFlow`). `p \in
history.lost` and `history.removed`, the excuses of `NothingUnsaid`, are the only states in which nothing is claimed
about a connected page.

### 5.10 Twitch channel

`PromisesKept` says of the status, the flows and the manager's report that they can be relied on, and
none of the three follows from the step before. `CInv` is, beside the types:

* `Handlers`: every handler in progress still has to do what a plan of its kind ends with (`Planned`): what
  it holds is bound to tokens or released from them, and it ends by storing it. The status that is stored
  and the work still due fit each other (`Fitting`).
* `Held`: every token stored, or held by a handler that may store it, can be refreshed or is named in
  `history.ended`. The only gap is the one the alarm makes itself: between refreshing the tokens and storing
  them (`Refreshed`) the stored ones are used up. Then the new one is alive or was ended, and no other
  handler holds it. A refused token outside `ended` would make `reauthorization_required` unjust; an error answer of the
  token endpoint (`refreshRejected`) leads there with tokens intact, which `PromisesKept` names.
* `FlowsOnce`: an invitation or state is pending, being exchanged or used, in one place only.
* `Desired`: the manager's alarm or its handler runs as long as something is wanted, and what the handler
  remembers differs from what is stored only where `overwritten` will say so.
* `Queued`: the caller that waits is the last in the queue, and only the first operation has begun.
* `Subscribed`: what an operation has still to change leaves the subscriptions as it was asked to. A
  creation comes after the deletions of its type (`Orderly`), and a removal deletes all that exist
  (`Emptying`); so nothing is left when the manager writes `deconfigured`, and nothing appears later,
  because the manager then has neither alarm nor operation.

A step is proved for the part that takes it (`CoordinatorAlone`, `ManagerAlone`, `ServiceAlone`, `TwitchAlone`):
the lemmas `SameCalls`, `SameHeld`, `SameFlows` keep what the others hold. For tokens, a step either issues the next one or
forgets none (`TokensMoved`).

The attempt to prove this showed that the model had excused too little: a token that expires between its
refresh and the validation that follows (`channel-auth.js:309`) makes the alarm invalidate the authorization. No
setting had two expiries, so no run met it. `TokenExpires` now names that token in `history.ended`, and the
ninth setting of the run reaches it.

### 5.11 What stays with TLC

Liveness under fairness is out of the prover's reach: `EveryExecutionSettles`,
`EveryMessageSettles`, `EveryOccurrenceSettles`, `BarrierResolved`, `RevocationCompletes`,
`MovedConsumerTold`, `Settles`, `PagesServed`, `EventuallyAgreed`, `Served`. `ArchiveStaysReadable`
is the property of the finding, which a run refutes. No module of this directory declares a
`RECURSIVE` operator.

## 6. Not modelled

`components` in `PROJECT.json` lists each part left out with its reason, and section 2
what each module leaves out. In the modelled objects these are mainly: the scheduler's one-time
import of an old marker table (`backend.js` 670-680); the registry's routes, audit log and
read-only operations; budgets in bytes; the planner and the result checks of queries; the bot's
own token. The front ends, features, framework and scripts keep no state of their own.

## 7. Plan

Done: all modules of section 2, their runs, and the proofs of section 5. Left:

1. Compositions: inbox with coordinator (end-to-end at-most-once acceptance), registry with
   namespace (a finalization over real seals).
