# Verification of the wiki's job queue, its ownership, its chats and its leases

TLA+ models of the concurrent core of this repository, the TLC configurations
that check them on small instances, and TLAPS proofs of what holds in every
instance. The modules follow the Swift sources: a definition says which function
it is, and `PROJECT.json` (`map`) gives the lines.

The repository is a macOS wiki with a daemon (`wikid`) that runs extraction and
ingestion jobs and chat sessions with external agents. Most of it is user
interface, text processing and SQL. What can go wrong in ways a test hardly
reaches is in a dozen actors that share rows, leases and connections across
suspension points. Those are what this project is about: the job queue, the
generation gate, the ownership of the queue between app and daemon, the chat
mirror and the leases of scoped runs are modelled, checked and proved about here.

## 1. Inventory

| Component | State it keeps | Operations | Hard part |
| --- | --- | --- | --- |
| **Queue engine** `WikiFSEngine/QueueEngine.swift` | lifecycle; run state per lane; count of running jobs per provider; wikis with a running ingestion; dispatch entry per job; deferred releases; parked waiters | enqueue, pause, resume, halt, cancelItem, cancelAllInFlight, retryItem, reorderItem, waitForCompletion, start, shutdownForHandoff, dispatchScan, handleWorkerFinished | an actor that suspends in the middle of scans, cancels, halts and settlements; counts rebuilt under live dispatches; hand-off with a deadline |
| **Worker output channel** `QueueWorkerOutputChannel.swift` | the active lease of each job, emissions in flight per lease | admit, invalidate and drain, finish, emitReport | emissions commit on other threads, after the job moved on |
| **Queue store** `WikiFSCore/Core/QueueStore.swift` | job rows, run states, attempt reports | compare-and-set transitions, ordering keys, pruning, report ownership | survives crashes; a report outlives the dispatch that wrote it |
| **Queue event log** `QueueEventLog.swift`, `NotificationFanout.swift` | numbered events in a bounded buffer, subscribers | append, replay from a sequence number | gap detection, a subscriber that is late |
| **Queue host** `wikid/DaemonQueueHost.swift` | ownership state, admissions in flight, drain deficits, the first build | perform, relinquish | an RPC that is admitted, then force-finished, then completes; a build that outlasts a hand-back |
| **Generation gate** `GenerationGate.swift` | per lane: limit, active count, waiters | acquire, release, cancel | a slot handed to a waiter while it is being cancelled |
| **Transport runtime** `DaemonTransportRuntime.swift`, **bridge** `DaemonTransportAppBridge.swift` | candidate connection, state, invalidated ids, three tasks; registrations by candidate | startAdmission, acknowledge, reconnect, stop, deadline, probe; resolve, remove | every await may return to another candidate's world |
| **App queue controller** `LocalQueueRuntimeController.swift`, **hot swap** `QueueEngineHotSwap.swift` | who owns the queue, the handle of the app's own engine, the active client and the calls admitted to each | start, activateDaemon, fallBackAfterRelinquishment, daemonOwnershipBecameUnresolved, dispose; swap | a startup that a transition overtakes; a call admitted to a client that is being retired |
| **App coordinator** `DaemonTransportAppCoordinator.swift` | the event it handles, connected candidate, chat coordinator | one handler per transport event, shutdown | a conversation with the daemon of up to five awaits, under events that make it stale |
| **Scoped run leases** `DaemonRunRegistry`, `DaemonRunRegistrationBroker`, `DaemonScopedRunLeaseManager` | leases and their expiry, listeners, lease to run id | issue, renew, revoke, revokeAll, authorize | `revokeAll` during an issue |
| **Wiki creation** `DaemonWikiCreationCoordinator.swift` | requests, shutdown flag, registry and artifacts on disk | createWiki, beginShutdown, rollback | failure or shutdown between two durable steps |
| **Chat mirror** `ChatClientSync.swift`, `RemoteChatSession.swift` | projection, committed rows, sequence and generation, optimistic backups; snapshot request, retry, history load | apply update or snapshot, append history, submit, fail | lost updates, calls answered out of step with the updates, rows rewritten in place |
| **Chat controller** `DaemonChatController.swift`, `ChatDomain.swift` | session snapshot, queue of turns, ownership of the running one | send, stream, finish, cancel, close, evict | persist, then await, then record; cancel during a close |
| **Session manager** `SessionManager.swift` | sessions, lease counts, loading flights, releases | session(for:), release, shutdown | a flight replaced while a caller waits for it |
| **Cordis runtime** `Cordis/CordisRuntime.swift` | components, activation generations, contexts | activate, provide, withdraw, dispose | a provider withdrawn during an activation; disposals that wait for each other |
| **Quota fallback, turn liveness** | attempts, deadlines | detect, switch provider | a fallback after a late answer |
| Wiki store, page writes, change coalescer, event bus, search | SQLite, change stream | CRUD, catch-up | mostly one transaction at a time |
| Agent launcher, ACP backend, extractor and renderer packages, process groups | external processes | spawn, talk, kill | I/O; the models treat them as the environment |
| App, command-line tools, File Provider, Markdown and links | views | - | no concurrency of its own |

How they interact: the app reaches the daemon over XPC (transport runtime), and
every queue request goes through the queue host, which admits it by ownership
epoch and calls the engine. The engine writes through to the store and starts
workers; a worker calls back into the output channel, on its own threads, and
its end is a call back into the engine. Reports and transcripts are written by
the channel directly to the store, beside the engine. Events go out through the
event log to proxies. Chat sessions take a slot of the generation gate per turn;
the daemon issues them a scoped run lease. Hand-off of the queue between
processes is: host relinquishes, engine shuts down, store closes, another
process starts on the same rows.

The hazards, each at its line, are in `PROJECT.json` (`hazards`), with the
properties that would catch them, or a note where none does.

## 2. Modules

```
QueueStore ── QueueEngine ── QueueProperties ── QueueInvariants ─┐
    │              ├──────── QueueClaims ────────────────────────┼─ QueueMC  (TLC)
    ├─ JobQueue ───┴──────── QueueRefinement ────────────────────┘
    └─ QueueStoreProofs ──────── QueueEngineProofs ──────── QueuePromisesProofs (TLAPS)
                                 (+ QueueInvariants)        (+ QueueRefinement)

GenerationGate ─┬─ GateMC (TLC)
                └─ GenerationGateProofs (TLAPS)

DaemonTransport ─┐                       ┌─ OwnershipMC (TLC)
LocalRuntime ────┼──── QueueOwnership ───┤
QueueHost ───────┘                       └─ OwnershipProofs (TLAPS, on QueueOwnerProofs)

ChatReducer ── ChatSync ─┬─ ChatMC (TLC)
                         └─ ChatInvariants ── ChatSyncProofs (TLAPS)

ScopedRuns ── ScopedRunsProofs (TLAPS)
```

* `QueueStore` - the SQLite statements as operators from rows to rows and from
  reports to reports. A transition is a compare-and-set: on another state it
  changes nothing (the code throws and the engine logs). Of a report it keeps
  which dispatch owns it and whether its targets are absent, emptied, live or
  settled.
* `QueueEngine` - the engine actor, the lease registry of the output channel and
  the tasks they are suspended in. The code between two `await`s that really
  wait is one action; what is suspended is a process with a program counter:
  a dispatch `worker[l]` (from claim to settlement), a scan `scan[s]` (in
  `providerID(for:)`, with the snapshot it walks), a call `client[c]` (cancel,
  cancel-all or halt in `drainOutput`, with what it has left to do) and a waiter
  `waiter[w]`. Awaits that only hop to another actor and return are not
  suspension points of their own. Two are near the edge. The drain of a lease without
  emissions awaits a stream that has finished: whether that gives up the actor is up
  to the library, and the constant `EmptyDrainYields` chooses (the theorems hold for
  both). The finished stream of a lease that was invalidated before never does.
* `QueueProperties` - what the queue promises: type, safety, action and liveness
  properties, and the fairness they need.
* `QueueInvariants` - the inductive invariants.
* `JobQueue` - the promise without the mechanism: jobs, limits, final ends.
  `QueueRefinement` maps rows to jobs and states that the engine implements it.
* `QueueClaims` - a sentence of a comment that the code does not satisfy.
* `QueueMC` - values for the constants.
* `QueueStoreProofs`, `QueueEngineProofs`, `QueuePromisesProofs` - the theorems: about the
  store's operations, the engine's mechanism, and what clients are promised.
* `GenerationGate` - the gate, its callers and their cancellation; with its
  invariant. `GateMC` is an instance of it, `GenerationGateProofs` the theorems.
* `QueueHost` - one daemon process's door to its engine: an operation `op[o]` is a
  process with a step (admitted, building or joined to a build, running), and
  `HostDies` replaces the whole process by a fresh one.
* `LocalRuntime` - the app's queue controller and hot swap: the startup task, one
  transition at a time (`work`), and the calls of the views with the client they
  were admitted to.
* `DaemonTransport` - the transport runtime and the bridge: a loop per candidate,
  cancelled ones too, the XPC line of each, and handlers that have fired and not
  run.
* `QueueOwnership` - the three together with the app's coordinator, whose handler
  `coord` is at one await of its conversation, and with the quit.
* `ChatReducer` - the pure reducer of the mirror, as operators from client states to
  client states and effects. `ChatSync` - the daemon's controller, the updates under
  way, and the session around the reducer. `ChatInvariants` has its inductive invariants.
* `ScopedRuns` - the launcher, the lease manager, the registration broker and the
  registry, with a clock; TLC checks it as it is, its constants are numbers.
* `OwnershipMC`, `ChatMC` - values for TLC; the `...Proofs` modules - the theorems.
  `QueueOwnerProofs` is about `LocalRuntime` and `QueueHost`, the two owners.

Correspondence of state to code: `rows`, `savedRunStates` and `report` are the
tables; `providerActiveCounts`, `activeIngestionWikis`, `runningTasks` (job to
lease, `NoLease` for no entry), `releaseDeferredByRebuild`, `runStates` and
`lifecycle` are the engine's fields of that name; `active` and `inFlight` are the
lease registry; `awaitedWorkers` and `awaitedDrains` are what the shutdown
settlement task captured. `Crash` resets all of it but the tables.

The gate: `activeCount` and `waiters` are its `LaneState`, `didReceiveSlot` and
`didCancel` the flags of a waiter object, kept with the task since the object
lives from `acquire` to its return. The gate is on the main actor, so a method
that does not suspend is one action: the fast path (with the caller's bail if it
was cancelled before), the registration of a waiter, the cancellation handler's
hop, and `release`, which hands the slot to the first live waiter or frees it. A
resumed task runs in a later action (`Begin`, `Bail`, `GiveUp`: the guard of
`AgentLauncher.run`), and a cancellation may come before, between and after all of
these. A caller gives its slot back once; this is what `run` does on each of its
paths, and what interactive turns, which go through flags of the launcher, are
trusted to do.

Ownership: `phase`, `candidate` and `admission` are the runtime's state, candidate
and admission task, `events` its published stream; `registration` is the bridge's
table; `cstate`, `handle` and `route` are the controller's state and handle and the
hot swap's client; `hostState`, `resources`, `build`, `admissionCount`, `deficits` and
`handing` are the host's fields. `local` and `engine` say which engine has
`queue.sqlite` open, which no variable of the program knows. Candidate ids are new
ones in the code; here they come from a set of two and are used again when nothing
of the last use is left. Epochs are left out because every daemon process starts at
epoch 1, so an epoch never tells two processes apart and `replaceUnresolvedDaemon`
never runs. `localFallbackReady` is an outcome no caller sends. What comes from
outside (a line lost or a failed probe, a deadline, a failed or unanswered call, a
shutdown that blocks, a crash, a manual reconnect, a quit) is in `Trouble`, with one
budget for all of it.

Chat: a transcript item is the user message, the answer or the failure notice of a
turn; its text is its length, so "a prefix of the answer" is a smaller number, and
an overlay or a set of rows is a function from items to lengths. `d` is the
controller's snapshot and its ownership of the running turn, `wire` the updates
under way (in order, on one connection, possibly lost), `c` the mirror's reducer
state, and `request`, `hydrate`, `retry`, `attempts` and `loadTo` the tasks of
`RemoteChatSession`. The controller persists a chunk, awaits, and records it: two
actions (`StreamPersisted`, `StreamRecorded`). A send that succeeds changes nothing in
the mirror. `Evict` needs an empty wire: it comes after 300 idle seconds. Left out: a
crash of the daemon, permission requests, usage, preflight failures, provider
switches, run state, and stopping a session with turns in its queue.

Leases: `stage` is the call in which a launch is suspended, `held` the launcher's
`activeScopedRunLease` (and the lease whose loop `scopedRunRenewalTask` is), `issued` the
manager's `runIDsByLease`, `listeners` the broker's table, `bound` the socket files,
`lease` and `left` the registry's state of a lease and the ticks to its expiry. A run is
a launch of one launcher, since different launchers share `revokeAll` and nothing else;
launches overlap because `stopAgent` does nothing to one that has not spawned. Left
out: an activation that fails (nobody else knows a run that is not issued yet, so it
is always prepared), the end of the process, and what a capability authorizes.

Abstractions of the queue, and why they are harmless: payloads, texts, timestamps and SQLite
errors are left out (no property is about them, and errors are logged and
skipped); job ids are never reused, so a deleted row is `pruned`, not `absent`;
finish times are not kept, so `pruneHistory` may delete any terminal rows beyond
the bound; ordering keys are kept as integers, with `Gap` for the code's
distance; an emission is a `begin` or an `update` of the report (transcript and
progress output passes the same admission and changes nothing the properties
read); the deadline of a wait or hand-off may come at any time; `providerID`
answers any member of `Routes`.

## 3. Runs

The run `gate` uses `GateMC`, `ownership`, `reconnect` and `two_owners` use
`OwnershipMC`, `chat` and `chat_cut_off` `ChatMC`, `leases` `ScopedRuns` itself, the
others `QueueMC`. Symmetry is used where the permuted values are alike in every
constant (`slots`: items, scans; `lanes`: scans and the two providers; `ownership`:
candidates; `chat`: turns) and no property is about liveness. `CHECK_DEADLOCK FALSE` in
all runs but `gate`: with dispatches, keys, attempts, turns, launches or troubles at their
bound and all jobs finished, all leases gone, the chat at rest or the app quit, nothing
is left to do.

| Run | Checks | Instance |
| --- | --- | --- |
| `slots` | `TypeOK`, `SlotsAccounted`, `PerWikiExclusion`, `RunningRowOwned`, `ImplementsJobQueue` | two ingestions of one wiki, a limit of two, halt, resume, cancel, retry, duplicate requests, undone claims |
| `lanes` | `CapacityBound`, `OrderIsTotal`, `ReorderPlaces` | three ingestions of two wikis, two providers with a slot each, two suspended scans, one job that has no route and is reordered, key distance 2, retries, undone claims |
| `handoff` | `HandoffQuiescent`, `ReportOwnedByDispatch`, `WaiterTruth`, `OnlyStaleCancelStrands` | one job, a waiter, emissions that outlive `execute`, halt, cancel, cancel-all, retry, hand-off, one crash |
| `live` | `QueuedIsServed`, `WaiterIsAnswered` | two ingestions of one wiki, a waiter, pause, resume, cancel, retry; fair |
| `gate` | `SlotsConserved`, `LaneCapacity`, `WaitsOnlyWhenFull`, `QueueIsExact`, `FirstComeFirstServed`, `WaitEnds` | four tasks on a lane of two, one on a lane nobody configured, cancellation at any time; fair, deadlock checked |
| `ownership` | `TypeOK`, `NoLeakedLine`, `AdmissionMatchesPhase`, `CallsFindTheEngineOpen`, `DaemonRouteHasNoLocalEngine`, `RelinquishedMeansClosed`, `AdmissionBalance`, `AppFollowsTransport`, `HandoverIsExclusive`, `QuitClosesTheQueue` | two candidates, a view that calls, an operation at the host that may outlast the deadline while it builds or runs, two troubles of any kind |
| `reconnect` | `ComesBack`, `QuitEnds` | the same with one trouble, failed probes too; fair |
| `chat` | `TypeOK`, `RecoveryUnderWay`, `AgreesWithDaemon`, `AnswerNotCutShort`, `AcceptedTurnStays` | two turns in one generation or one across two, opened cold or warm, answers of two chunks, turns that complete or fail, one trouble |
| `leases` | `EndpointBacked`, `HeldLeaseIsTended`, `AuthorityEnds` | two launches of a launcher that may overlap, a sweep, a machine that sleeps once, refused launches and failed binds; fair |
| `slot_leak`, `two_owners`, `chat_cut_off` | one claim each, violated | the smallest instance that shows it |

What they show.

* *No two ingestions of a wiki.* Claims test `activeIngestionWikis`, which halt
  and start rebuild from the rows while dispatches of requeued jobs still run
  and settle later. `SlotsAccounted` is the reason this is safe: a taken slot
  has at most one dispatch that will release it.
* *No running row is stranded.* The entry of a running row is a live dispatch
  that works on that attempt and provider, so a late settlement of an old
  dispatch neither completes the new attempt nor takes its entry away.
* *A hand-off is quiet.* A scan suspended when it began claims nothing, and
  `shutDown` is reported only when no emission is pending.
* *Reports belong to their dispatch*, for one cancel or halt at a time and no
  resume during it. Outside that the property fails in the model: only the first
  invalidation of a lease waits for its emissions, so a second call requeues the
  job under an emission that may still begin the report.
* *Waiters* are told "success" only of completed rows, and one step alone leaves any
  behind (`OnlyStaleCancelStrands`): a cancel that drains reads the dispatch before the
  drain and decides after it who resumes the waiters (`cancelItem`,
  QueueEngine.swift:535). If the dispatch has settled meanwhile nobody does, and they wait
  for their deadline: a call is between its look at the row and its registration, a cancel
  tells the worker and drains, the worker settles and the row is queued again, the call
  registers, and the cancel ends the row.
* *The gate loses nothing.* The three ways a suspended task can end (a slot, a
  cancellation, a slot and then a cancellation) meet in one queue. `QueueIsExact`
  is why no continuation is resumed twice or never; `SlotsConserved` counts a task
  that was handed a slot and has not run yet, which is where a lost or doubled
  slot would hide; `WaitsOnlyWhenFull` says that the fast path's test of an empty
  queue and the hand-over fit together, and `FirstComeFirstServed` that nobody
  overtakes.

* *No connection and no admission gets lost.* Every live XPC line is the current
  candidate's or in the hands of a loop that will drop it (`NoLeakedLine`), a
  transport that looks for a daemon has exactly one admission that does
  (`AdmissionMatchesPhase`), and once the coordinator has caught up it agrees with
  the transport about the candidate, the registration, the chat and the queue
  (`AppFollowsTransport`), whichever loop, deadline or handler came late.
* *The queue changes hands when the other side has let go.* The swap barrier keeps
  the closing of the app's store behind every call admitted to it
  (`CallsFindTheEngineOpen`), the proxy comes after the app's engine has closed
  (`DaemonRouteHasNoLocalEngine`), and the app's engine comes back only behind a
  complete hand-back (`HandoverIsExclusive`, with `RelinquishedMeansClosed` at the
  host). What no step of either side prevents is the daemon building an engine
  while the app's own is open: run `two_owners`.
* *Deadlines at the host do not unbalance it.* Admissions and deficits together are
  the operations in flight (`AdmissionBalance`), through forced drains and late
  completions.
* *A quit closes what it finds* in the middle of any transition, and ends.
* *The chat mirror recovers.* A mirror that cannot follow has a snapshot request or
  a retry under way, or has used up its retries and waits for the next update
  (`RecoveryUnderWay`); one that is at the daemon's sequence shows every row and all
  that is streaming (`AgreesWithDaemon`); an update never shortens an answer on the
  screen (`AnswerNotCutShort`); a submission that reports an error takes no turn off
  the screen that the daemon has accepted (`AcceptedTurnStays`). The text of rows that
  were loaded while they grew is the exception: run `chat_cut_off`.
* *A lease lives while its run does, and not longer.* No authority without its socket
  and no socket without its lease, at whatever call a launch, a revocation and the sweep
  interleave (`EndpointBacked`); the lease a launcher holds does not expire between
  two renewals (`HeldLeaseIsTended`: after a machine's sleep the loop is due, and the
  registry renews an expired lease that nobody revoked); and a run that its launcher has
  lost sight of loses its authority for good (`AuthorityEnds`), revoked, or because its
  loop finds another lease held and lets it expire. Its socket may stay: see below.

**Bounds.** `MaxDispatch` leases (3, or 4), `MaxAttempt` retries per job (1),
`MaxKey` (the largest ordering key), `MaxCrash` (1), `HistoryLimit` (the code's
`recentLimit`), and the sizes of `Scans`, `Clients` and `Waiters`. Three leases
are what the hazards need: a dispatch that has not settled, its replacement, and
a third that would take a slot the first released wrongly. One retry separates
two attempts. A scan or a call beyond the slots is not lost but late: its action
is disabled until a slot is free, which is a schedule the code also has. When all
leases are used a scan that could claim waits for ever; this ends a behaviour, it
adds none. `EmptyDrainYields` is true in `lanes`, `handoff` and `slot_leak`, and false in
`slots` and `live`, whose states it multiplies by nine: there `PerWikiExclusion` and its
like rest on the theorems in the other case. `WaiterIsAnswered` fails in it, by the
step that `OnlyStaleCancelStrands` names. In `lanes`, two suspended scans are needed for one to claim what the
other has seen free, and two dispatches to fill both providers; the reordered job has no
route, so that it waits throughout and meets finished and retried jobs that kept or
changed their key.
The gate has no counter to bound. Four tasks on a lane of two give two owners and
two waiters, which is what order, and a cancellation of either waiter during a
hand-over, need.

In `ownership`, `MaxTrouble` is 2: one event makes a conversation stale, a second
strikes the recovery from it. Two candidates are the current one and one that is
going. One caller and one operation suffice because calls and operations meet only
through counts, and the theorems hold for any number of them. The drain deadline may
fire on any admission, one that is building too. In `chat`, `Chunks` is 2 so that there
is a proper prefix, `MaxGen` 2 so that a generation is replaced, `Window` 1 update under
way besides the lost ones, `Retries` the code's number, and `MaxTrouble` 1: one lost
update, failed call, failed submission, press of Stop or reopened view; a second one
changes where the mirror is when the next snapshot comes, which the snapshot forgets.
The constraint `OneMore` of `ChatMC` takes two turns in one generation or one turn
across two, and lets one of two answers have text.

In `leases`, two launches suffice to overlap, since a third meets the earlier ones only
through `held`; `Half` is 2, the smallest for which a renewal in time differs from one at
the last moment; `MaxNaps` 1 sleep of the machine. `Tick` waits for a loop that is due. A launch
between registration and its loop is assumed to take less than half a lifetime of an
hour (five local calls; nothing in the code bounds them), and the machine not to sleep in
it: a lease that ran out before its loop began would be renewed late. `Nap` is the time
that passes while loops are not served.

**Fairness.** Weak fairness of every task that is ready to run (the launch,
scans, commits of emissions, drained calls, registrations): Swift tasks on an
actor are served. Strong fairness of settlements, because the model gives scans
a fixed number of slots and a client may take the freed one again and again; the
code has no such slots. A worker returns because its executor bounds it. No
fairness of clients, deadlines, pause or resume: both liveness properties hold
while the engine runs and the lane is not paused. The gate: weak fairness of
resumed tasks and of cancellation hops, which the main actor serves, and of the
end of a run, since `TurnLivenessPolicy` (ceilingTimeout) ends every turn. None of
arrivals or cancellations. Ownership: weak fairness of the actors' ready tasks, of the
retry timer, of the probe that finds a dead line, of the coordinator and the quit,
of a view's call and an operation at the host coming to their end (each RPC has a
timeout of 30 s, the drain a deadline), and of candidates that can be made and checked.
None of what strikes or of new calls and operations. Leases: weak fairness of launches,
renewal loops, revocations and the clock; none of starts and ends of runs, the sweep or
the machine's sleep.

**What the code does not do, although the repository says so** (`findings`):

1. `slot_leak` - cancel and retry an extraction whose worker has not settled: the
   retry's dispatch replaces the entry, the first worker's settlement returns at
   the ticket check (QueueEngine.swift:1203) before the release, and the count
   it took is not given back until a halt or a relaunch. The comment at 1288
   promises "exactly once per dispatch, on every path".
2. `two_owners` - the app opens its own engine at launch and looks for the daemon at
   the same time; the health check of a candidate is a queue snapshot
   (WikiDaemonConnection.swift:176), for which the daemon's host builds its engine,
   as it does for the daemon's heartbeat. XPCQueueEngineProxy.swift:9 and 17 promise
   one engine and one owner. The trace needs no trouble at all.
3. `chat_cut_off` - the row of a streaming answer is rewritten in place, so a history
   load in mid-answer keeps a prefix at the final cursor; if the updates that follow
   are lost, the snapshot has an empty overlay and the same cursor, and nothing loads
   the row again. plans/chat-architecture-redesign.md:553 (AC.10).

Seen in models or traces of the same specifications, without a run of their own:

* *Queue.* Halt, then resume, while the halted worker unwinds: two ingestion *workers*
  of one wiki run together, although their *rows* never do (plans/queue-engine.md:49
  and 191). A cancel waits for output, meanwhile the worker settles and the job is
  dispatched again; the cancel then cancels the row, and neither tells the new worker
  (QueueEngine.swift:504, against 481) nor answers who registered since (535). A hand-off requeues running rows and leaves
  live targets in their reports, and the next launch settles only the rows it finds
  running (QueueEngine.swift:231, against 147). A scan passes over a job at capacity
  and may give a slot freed later in the same scan to a job behind it
  (plans/queue-engine.md:38 says key order). A blocked job is looked at again only on
  the next event (plans/queue-engine-hardening.md:127 lists it as follow-up). The
  earliest deadline of a job's waiters resumes all of them. Moving a job before its
  own successor when no key lies between sends it to the end.
* *Reconnect twice.* A manual reconnect makes the app take the queue back; a second
  one finds the daemon relinquished, for which `reconnectOutcome` has no answer but
  `.retry` (DaemonTransportAppCoordinator.swift:202-204): the transport connects and is
  rejected for ever and there is no chat, where
  plans/cordis-daemon-transport-services.md:52 keeps the connection for chat.
  `ComesBack` therefore has one disturbance.
* *Interruptions.* One that fires while its candidate waits for acceptance is dropped
  (DaemonTransportRuntime.swift:336), and the queue proxy in front of the views keeps
  the event sink of the process that died (DaemonTransportAppCoordinator.swift:240),
  against WikiDaemonConnection.swift:196-201.
* *Reconnect while a candidate awaits acceptance* publishes no disconnect
  (DaemonTransportRuntime.swift:213).
* *Quit during a swap.* The quit cancels the task that waits in
  `waitForAdmissions(toDrain:)`; a cancelled stream ends at once, and the engine is
  disposed of under an admitted call (QueueEngineHotSwap.swift:97, against 54-56).
  `CallsFindTheEngineOpen` excepts these calls.
* *Late build.* The drain deadline fires on an admission that is building; the build has
  no bound, and when it ends it opens its engine in the relinquished host
  (DaemonQueueHost.swift:176-206 and 240-265), against
  plans/cordis-swift-components.md:297. The history variable `leftBuilding` records that
  a host was relinquished under a build: `RelinquishedMeansClosed` and
  `HandoverIsExclusive` say that there is no other way to such an engine, and
  `OnlyForceLeavesBuilds` that only a forced drain leaves a build behind.
* *Failed startup.* If the queue's startup failed, a quit does not dispose of the
  queue runtime (RendererCompositionOwner.swift:307-316).
* *Chat.* A snapshot that is answered before later updates and arrives after them
  leaves the mirror behind, though synchronized, until the next update. A history
  load during an outstanding optimistic submission discards its backup, so that its
  failure later changes nothing. An optimistic submission marks the projection live,
  so the first update of a new controller is not taken as a change of generation and
  costs a snapshot.

* *Stop during a launch.* A turn cancelled while its session is launching reaches
  `stopAgent`, which does nothing before the spawn commit (AgentLauncher.swift:4405-4433,
  against 4143): the launch goes on, spawns and sends the cancelled prompt (4215), while
  the next turn starts a second launch beside it, whose message `sendInteractiveMessage`
  may drop at its guard (4257). DaemonChatController.swift:793-797 releases a start that a cancellation has overtaken
  "instead of sending a stale prompt".
* *Leases of overlapping launches.* The later answer overwrites `activeScopedRunLease`
  (AgentLauncher.swift:409). The lease it displaces expires, but nobody revokes it: its
  socket, its listener and the manager's entry stay until `revokeAll`, or for ever if it
  was issued after that. plans/agent-sandbox-scoping.md:332 has the endpoint removed on
  cancellation.

## 4. Proofs

`tlapm` checks the eight `...Proofs` modules with no step left open: the queue for any
items, wikis, providers, routes and limits, any number of scans, calls, waiters, and
any bounds; the gate for any tasks, lanes and limits; ownership for any candidates,
callers, operations and troubles; the chat for any turns, any length of an answer, any
number of retries and any bounds; leases for any number of launches, any lifetime and
any sleeps.

Assumptions: `StoreAssumption` (finitely many items, two lanes, a positive key
distance) and `EngineAssumption` (the constants have their types; the bounds are
naturals), `GateAssumption` (finitely many tasks, each with a lane; integer
limits), `CandidateAssumption`, `HostAssumption` (finitely many operations),
`TroubleAssumption`, `ReducerAssumption` (answers have at least one chunk), `SyncAssumption`
(at least one generation), `RunsAssumption`. TLC evaluates them on every
run. `ReportsStayOwned` is conditional on what the queue's clients do: see below.

| Theorem | Property |
| --- | --- |
| `TypeCorrect` | `TypeOK` |
| `OneIngestionPerWiki` | `PerWikiExclusion` |
| `NoStrandedRow` | `RunningRowOwned` |
| `HandoffIsQuiescent` | `HandoffQuiescent` |
| `CapacityIsBounded` | `CapacityBound` |
| `SlotsAreAccounted` | `SlotsAccounted` |
| `KeysOrderTheLane` | `OrderIsTotal` |
| `ReorderGoesWhereItSays` | `ReorderPlaces` |
| `WaitersLearnTheTruth` | `WaiterTruth` |
| `NobodyIsLeftBehind` | `OnlyStaleCancelStrands` |
| `ReportsStayOwned` | `ReportOwnedByDispatch`, as long as `CallsApart` |
| `QueueKeepsItsPromise` | `ImplementsJobQueue` |
| `GateTypes` | the types of the gate (not a run's property) |
| `SlotsAreConserved` | `SlotsConserved` |
| `LaneCapacityHolds` | `LaneCapacity` |
| `NobodyWaitsForAFreeSlot` | `WaitsOnlyWhenFull` |
| `ServedInOrder` | `FirstComeFirstServed` |
| `QueueStaysExact` | `QueueIsExact` |
| `CallsSafe`, `CallsSafeInTheSystem` | `CallsFindTheEngineOpen` |
| `ProxyAlone`, `ProxyAloneInTheSystem` | `DaemonRouteHasNoLocalEngine` |
| `AdmissionsAccounted`, `AdmissionsInTheSystem` | `AdmissionBalance` |
| `RelinquishedClosed`, `RelinquishedClosedInTheSystem` | `RelinquishedMeansClosed` |
| `OnlyForceLeavesBuilds` | (not a run's property) |
| `SystemTypeCorrect` | `TypeOK` of `QueueOwnership` |
| `NoLineLeaks` | `NoLeakedLine` |
| `AdmissionAlwaysMatches` | `AdmissionMatchesPhase` |
| `HandoverExclusive` | `HandoverIsExclusive` |
| `QuitAlwaysCloses` | `QuitClosesTheQueue` |
| `AppAlwaysFollows` | `AppFollowsTransport` |
| `ChatTypes` | `TypeOK` of `ChatSync` |
| `MirrorAgrees` | `AgreesWithDaemon` |
| `AnswersNotCutShort` | `AnswerNotCutShort` |
| `AcceptedTurnsStay` | `AcceptedTurnStays` |
| `NeverLeftWaiting` | `RecoveryUnderWay` |
| `EndpointsBacked` | `EndpointBacked` |
| `HeldLeasesTended` | `HeldLeaseIsTended` |

The first seven follow from `Invariance == Spec => []IInv`. The argument:

* `PerWikiExclusion` is not inductive: a claim trusts `activeIngestionWikis`, so
  one must know that every running ingestion's wiki is in it. That breaks if a
  settlement removes a wiki another job is running in. So `SlotsAccounted` says
  which dispatches will still release a slot (`Attributed`: it has the entry and
  no rebuild has marked it), that their wikis are taken, and that such a dispatch
  is alone in its wiki. A claim keeps this since the wiki was free; a settlement
  since no other job of the wiki is running; a rebuild since it marks every
  dispatch whose row is not running - with `PerWikiExclusion` of the new rows.
* `CapacityBound` is not inductive either: a claim trusts the count. `CountsCover` says that a
  provider's count is at least the number of items its slots are taken for (`Holding`):
  running on it in the store, or with a dispatch on it that has still to release. It is an
  inequality because the count may leak upwards (run `slot_leak`), which costs capacity and
  never exceeds it. A claim adds one item and one to the count; a settlement gives
  one back when it takes its item out of `Holding`; a rebuild counts the rows anew and
  marks every other dispatch.
* `RunningRowOwned` needs `EntriesLive`: an entry is a live dispatch of its own
  item, with a lease issued before, so a new lease is never one in use and a
  settlement by lease `l` concerns one entry.
* `HandoffQuiescent` needs `StoppingSealed`: no lease is active during a
  hand-off, and every emission in flight is among those it waits for.
* `CreatedEmpty` makes a launch start from no entries.

The proof is layered so that the long `Next` is split once per purpose:
`QueueStoreProofs` shows that each store operation keeps the row type and starts
nothing (`Calm`); `TypeStep` has one step per action; `StepKinds` shows that an
action is either `Quiet` (it starts and settles nothing) or a claim, a
settlement or one of the process's own steps; each invariant then has one step
per kind. TLC checked `IInv` as an invariant on all instances first.

On this rests what the clients are promised (`QueuePromisesProofs`). Every step writes the
rows by one operation of the store and may forget some history (`Written`, `Saved`), so
each promise has one step per operation.

* `OrderIsTotal` is inductive with the types. A new key is above the largest one; that
  the largest one exists is induction over a finite set, in which a set of sets stands for the
  predicate (`SubsetInduction`). A key between two others is strictly between them, or the
  job goes to the end. `ReorderPlaces` adds where it then is.
* `WaiterTruth` needs no invariant but the types: `Told` and `WaitRegister` read the row in
  the step in which they answer, and a settlement whose compare-and-set lost tells no success.
* `ImplementsJobQueue` maps a row to its state, provider and attempt. A claim is allowed by
  `activeIngestionWikis` and the counts; that the promise allows it too (on the rows)
  is `WikisAccounted` and `CountsCover`. The attempt at this proof showed a step the promise
  did not have: a claim whose read-back fails is undone (QueueEngine.swift:1073), and of a
  job that was retried that takes the provider away which the retry had kept. It is `Unclaim` now,
  and `slots` includes undone claims.
* `NobodyIsLeftBehind`: whoever ends a job answers its waiters in the same step, or leaves an
  entry whose settlement will; and a waiter registers at a job that has not ended. The one
  step for which this argument fails is the one the property excepts.
* `ReportsStayOwned` assumes that cancels and halts do not overlap and that no lane is resumed
  during a halt (`CallsApart`); without it the property is false, see section 3.
  `EmissionInv` follows an admitted emission that will begin a report: its worker is still
  running (`EmissionsLive`); as long as the row is at its attempt, its dispatch has the entry, the
  row is not waiting to be claimed, and its lease is open or the one call under way waits for it
  (`BeginHolds`). So no other dispatch of that attempt comes before it commits, and
  after the attempt has advanced (`AttemptsAdvance`) the store refuses it.
  That a row is not claimed again under an open lease is `OpenLeaseHolds`; what the waiting call has
  closed and has still to do is `WaitingCallsHold`. The proof is by the kinds of step (`Kinds`):
  claims, settlements, cancels and halts, emissions, and the rest. TLC checked
  `EmissionInv` on instances with one client and two, and with emissions that outlive the worker.

The gate's follow from `GateInvariance == Spec => []GateInv`. `SlotsConserved` needs
`QueueIsExact` (the head of the queue is a suspended task that owns nothing, so a
hand-over replaces one owner by another) and `IdleIsClean` (a task that asks again
starts without old flags; otherwise `release` would skip it). `WaitsOnlyWhenFull`
needs `LaneCapacity`: a task that registers has only seen that the count is not
below the limit. Three lemmas say what appending, popping and removing do to a queue
without repetitions, five how the owners of a lane change and that the count
follows, and then each action has one. `ServedInOrder` is a property of
steps: the invariant makes the first live waiter the first waiter.

Ownership is proved by parts. `PartsRefine` shows that the composed system, seen from
the app's runtime and from the daemon's host, is a behaviour of `LocalSpec` and of
`HostSpec`, whatever the transport and the coordinator do; so the invariants of the
parts, each proved in a module of its own, hold in the system.

* Of the app's side (`LocalIInv`): the route to the app's engine implies that it is
  open and held by the handle (`LocalRoute`, `EngineHeld`); a startup that a transition
  has overtaken installs nothing (`BootPhase`); and `TransitionPhase` says at each step
  of a transition what it has closed already, from which `CallPhase` concludes that
  no call of a retired generation is left when `dispose` begins.
* Of the host: `AdmissionBalance` is inductive with the types. `ClosedIInv` adds that one
  operation owns a build, that an engine is in `resources` or owned by the build
  (`EngineStored`, `StoredOnce`), and what a hand-back in progress has reached
  (`HandingPhase`): from the shutdown on nothing is counted, so whatever still builds was
  given up by the deadline and is among the deficits. A host is then relinquished with its
  engine stopped, and an engine it has later comes from the build that `leftBuilding` tells of.
* Of the transport: no line outlives its use, because a candidate has been checked
  before it is offered (`CandidateChecked`; it may have died between the answer, `Answers`,
  and the loop's resumption, `Checked`), a loop that is making one has told nobody
  (`MakingUnheard`), and handlers fire for dead lines only (`NoticesDead`). Its steps are
  taken by the coordinator too, so it is shown inductive in `OwnershipProofs`, with
  the types of the coordinator and the order of a quit.
* `HandoverExclusive` strengthens the property to `HandoverStands`: while the
  coordinator falls back on the word of a process that is still the same, that
  process is relinquished; and a host leaves that state only by its end.
* `QuitAlwaysCloses`: a quit that has joined the coordinator finds it at rest
  (`RestsWhenQuit`), so from the disposal on no one else begins a transition; and a
  disposal that has come to an end has joined the startup first, which is why nothing can
  put a client in front of the views, or open an engine, afterwards (`QuitClosing`).
* `AppAlwaysFollows` needs to know what is still on its way. While a candidate is offered,
  the offer is the last event (`OfferIsLast`), so an answer that finds its candidate still
  offered finds nothing else to take; a connected transport has published only that and
  interruptions (`ConnectedBehind`); and what the handler has done before it answers
  still stands, because only the coordinator begins transitions, removals concern dead
  connections (`RemovedForGood`), and no loop makes a connection for a candidate that is
  spoken of (`Settled`, which carries `AcceptedBehind` from the mark to the answer). TLC checked
  these on the instance of `ownership` first.

The chat's first three properties follow from `ChatInvariants!IInv`. What they say of the
daemon as it is now cannot be inductive: the mirror lags behind, on the way are updates and
answers of calls that tell of older states, and any of them may be what the mirror takes
next. So the invariant quantifies over the past instead of storing it: there is a function
`H` from the sequence numbers of the present generation to what the daemon streamed and
listed then, and whoever speaks of that generation speaks of it truthfully (`Follows`).

* An answered call tells `H` at its own sequence (`Tells`). An update tells the listed turns
  and the overlay there, a compact one as its difference to the sequence before
  (`TellsUpdate`): which is why it must not be applied unless the mirror is at exactly
  that sequence, and why the first update of a generation may be applied to a mirror that
  knows nothing, since it is never compact (`Proper`).
* The mirror shows at least the text that streamed at its sequence, and has no backup for
  a turn listed there (`Holds`). At the daemon's own sequence that is `AgreesWithDaemon`,
  and `AcceptedTurnStays`, because a failure without a backup changes nothing. A send
  takes a backup only for a turn that no recorded state lists yet.
* A step of the daemon extends `H` by the state it records, or begins a new one when the
  runtime rotates, to which nothing under way belongs (`HistoryWith`, `HistoryGoesOn`). A
  step of the mirror keeps `H`: one lemma per operation of the reducer says what it does
  to the text on the screen, the listed turns and the backups (`SettledSays` to
  `SubmitFailedSays`).
* `AnswerNotCutShort` needs the order of rows and updates (`Ordering`): a row is persisted
  before it is recorded, so the answer of an overlay is in the transcript, and cursors only
  grow along the wire. If an update would cut an answer short that has no committed copy, its
  cursor is therefore behind a row that the mirror has not read (`Loading`), and a load is scheduled.

TLC checked this invariant too, on an instance that records `H` as a variable of its own.

* `NeverLeftWaiting` needs little of the reducer: that every operation but an update
  that cannot be followed leaves a synchronized mirror synchronized and asks for
  nothing, and that such an update asks for a snapshot; `attempts` counts at most
  `Retries`.

The leases' two follow from `RunsInvariance == Spec => []RunsIInv`, which says what exists
of a run (registry entry, socket, listener, manager entry) at each stage of its launch
and of its revocation, that a revocation asked for concerns a finished launch, and that
more than half of the lifetime is left when its loop starts. From there a held
lease has its loop asleep with less to wait than the lease has left, or at work.

Only model-checked: liveness (`QueuedIsServed`, `WaiterIsAnswered`, `WaitEnds`, `ComesBack`,
`QuitEnds`, `AuthorityEnds`: the prover has no ENABLED).

## 5. What is left

In order of importance. Every module keeps parameters as CONSTANTS with named
assumptions, one action per operation, invariants as named conjuncts and no
RECURSIVE operator.

1. *Interactive turns*: how `AgentLauncher` holds a slot per turn behind
   `holdsGenerationSlot`, with sessions that stop and turns that end late; composed
   with the gate.
2. *Wiki creation* (a created wiki is wholly there or wholly gone) and the *session
   manager* (flights and leases).
3. *Cordis* (activation generations, withdrawal, disposal) and quota fallback.

## 6. Not modelled

Everything marked `not_modelled` in `PROJECT.json`, with its reason there: user
interface, process spawning, text processing, SQL that is one transaction, and the
components of section 5.

The only C in the repository is under `Sources/CTreeSitterHighlighting`: the vendored
runtime of tree-sitter and parsers it generates from grammars (half a million lines,
nearly all of them tables). It is third-party and generated, keeps no state of the
wiki, and is called synchronously to colour code blocks; none of it is modelled. The
program itself is Swift, and it is the Swift sources that the map refers to.
