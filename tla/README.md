# NV-Gateway: formal model

NV-Gateway is a Windows desktop application (Electron) that runs a local HTTP
gateway in front of NVIDIA's model API. The gateway is a child Node process: it
holds a pool of API keys, translates OpenAI- and Anthropic-style requests, walks
over the keys when upstream fails, and is supervised by the Electron main process,
which owns the encrypted state file. This directory holds TLA+ modules for the
parts where interleaving, failure, order and time decide correctness, the TLC
configurations that check them, and TLAPS proofs.

Paths below are relative to `src/src/` unless they start otherwise; "child" is the
gateway process, "main" the Electron main process, "admin" the person at the
window (or the script at the admin API).

```
 renderer --ipc--> main ------------------------------------+
   dialogs, pages,  | GatewayLifecycle  spawn / stop / restart|
   pet              | SecureStore       encrypted state       |
                    | Migration, Shell, AppConfig, LogFiles   |
                    +-- ipc channel: private:state,           |
                        persisted / rejected, ports:bound     v
 client --HTTP--> child: router -> failover loop -> one attempt --> NVIDIA
                             \-> models route -> the same keys
                             \-> rotation (key pool) + routing memory
                             \-> admin API (loopback), probe, catalog, ranking
```

The child and main are each single-threaded. Everything between two awaits (or two
callbacks) is atomic, and so is an action here: *one JavaScript turn is one action*.
What separate processes share is the file system; where two of them meet there
(MigrationLock, SecureStore) every file operation another one could see is a step.

## 1. Inventory

| Component | State it keeps | What is hard | Module |
|---|---|---|---|
| **Key pool** `gateway/rotation.mjs` | records (status, backoff, marker, provenance), retry ladders, cursors | verdicts of requests in flight against admin changes, sweeps, a rollback and a restart; a clock set back | `KeyPool` |
| **Routing memory** `gateway/model-key-affinity.mjs` | pins, cooldowns, cache file, one timer | references to keys that are gone; what a debounced write, an eviction, an undo and a restart leave | `KeyPool`, `RoutingMemory` |
| **Durable persistence** `gateway/rotation.mjs`, `main/private-state-channel.ts`, `main/index.ts` | two revision ledgers, projection, pending mutation | lost and late acknowledgements, half-way writes, retries, child restarts | `DurablePersist`, `DurableKeys` |
| **Failover loop** `gateway/server.mjs`, `gateway/failover-policy.mjs` | pass, answered and silent sets, budget, deadline | the eligible set changes while the request walks | `Failover` |
| **Single attempt** `gateway/server.mjs` (`proxyRequest`) | socket, timers, gate, stream, client | timers, breaks, back-pressure and the client's leaving race to settle it | `ProxyAttempt` |
| **Error answers** `gateway/server.mjs` | one error body | a leaf left alone, a rebuilt body under upstream's framing | `ErrorEcho` |
| **Models route** `gateway/server.mjs` | a second walk, a buffered body | as the failover loop; late events of a destroyed request | `ModelsRoute` |
| **Models, catalog, ranking** `gateway/model-discovery.mjs`, `nvidia-catalog-sync.mjs`, `llm-stats-ranking.mjs` | caches, files, a fetch in flight | first outcome counts, empty answers, waiting callers; tolerant matching | `ModelSources`, `Ranking` |
| **Router and guards** `gateway/server.mjs`, `security.mjs`, `validation.mjs` | one request's body | order of refusals, the size limit and its drain timer | `Inbound` |
| **Admin API** `gateway/admin-api.mjs` | — | answers only after durability; background validation | `AdminApi` |
| **Child's life** `gateway/server.mjs`, `logger.mjs` | two listeners, three sinks | flush in a bounded window, refused starts | `ChildLife` |
| **Stream readers and translators** `server.mjs`, `anthropic-adapter.mjs`, `responses-adapter.mjs` | pending text, open blocks | frames cut anywhere; order and end of events | `SseFraming`, `Translate` |
| **Facades' conversations** `anthropic-adapter.mjs`, `responses-adapter.mjs` | none: the client replays | a call must keep its result, its turn and its text over many translations | `Conversation` |
| **Capability probe** `gateway/capability-probe.mjs`, `capability-registry.mjs` | one entry, its file | partial evidence, hysteresis, what is shown against what is sent | `CapabilityProbe` |
| **Performance mode** `gateway/performance-mode.mjs` | window of outcomes, pending candidate, stamp | flapping; a stale reading of the file | `PerformanceMode` |
| **Gateway lifecycle** `main/gateway-lifecycle.ts` | child, operation chain, restart timer, owner record | the child dies at any await; late exits | `GatewayLifecycle` |
| **Secure store** `main/secure-state.ts` | primary, recovery, backups, buffers | a crash between any two file operations, refused renames | `SecureStore` |
| **Migration lock** `main/legacy-migration-exclusion.ts` | directory, owner record, claim | three processes, stale claims | `MigrationLock` |
| **Final migration** `main/final-migration-workflow.ts`, `opencode-jsonc-sync.ts`, … | journal, backups, buffered child states | failure, crash or a user's edit at each phase | `Migration` |
| **Quit, windows, update** `main/index.ts`, `before-quit-guard.ts`, `auto-update.ts`, … | quitting flags, stop awaited, watchdog | a second path to the exit overtakes the first | `Shell` |
| **Main window, tray, GPU, login item** `main/index.ts`, `gpu-fallback.ts`, `login-item.ts` | window pointer, marker, caches | the window dies; relaunch loops | `MainWindow` |
| **Configuration** `main/gateway-runtime.ts`, `models-ipc.ts`, `app-config-ipc.ts` | config.json, its cached reading | writers that await between reading and writing | `AppConfig` |
| **Logs** `main/error-reporter.ts`, `app-logger.ts`, `gateway/logger.mjs` | active file and generations, suppression | files held open by another program | `LogFiles` |
| **Dialogs, feedback** `renderer/App.tsx`, `FeedbackModal.tsx`, … | sessions, timers | late answers and timers of a closed dialog | `Dialogs` |
| **Pages** `renderer/components/Layout.tsx`, `views/*.tsx` | query caches, optimistic values | polls against pushes, switches ahead of their answers | `Views` |
| **Pet** `renderer/pet/*` | rest, speech and activity timers | timers across hide, focus, click and render | `PetRest`, `PetSpeech`, `PetLife` |

`PROJECT.json` lists every component with its status, and the hazards with the
line at which each one bites and the properties that cover it.

## 2. Plan and where it stands

1. `KeyPool` with `KeyPool_proofs`: done, checked and proved.
2. `DurablePersist` implementing `DurableKeys`, `GatewayLifecycle`, `Failover`: done,
   checked; their safety and the refinement proved.
3. The rest of the child (`MCGateway`'s fifteen parts) and of the application
   (`MCDesktop`'s twelve): done, checked. Of the application `SecureStore`,
   `MigrationLock`, `Migration`, `Shell`, `MainWindow`, `AppConfig` and the renderer's
   `Dialogs`, `Views`, `PetRest`, `PetSpeech` and `PetLife` are proved, of the child
   `Inbound`, `AdminApi`, `ChildLife`, `RoutingMemory`, `ProxyAttempt`, `ErrorEcho`,
   `CapabilityProbe`, `PerformanceMode`, `ModelsRoute` and `ModelSources`.
4. With TLC alone: `SseFraming`, `Translate`, `Conversation`, `Ranking` and `LogFiles`.

**Composition.** `Failover` keeps one availability per key, a view of `KeyPool`'s
records any of whose changes `KeyPool` allows; its `Fails` and `Delivers` are the ways
`ProxyAttempt` settles. `DurablePersist` keeps of the pool what its properties need,
and its child crashes and restarts as `GatewayLifecycle`'s does. `Inbound` hands over to
`Failover` and `ModelsRoute`; `SseFraming` cuts what `Translate` translates, and
`ProxyAttempt` is driven by the kinds of chunk they produce. `ChildLife` stops with the
flushes that `RoutingMemory` and `DurablePersist` have in full. `MCGateway` and
`MCDesktop` put machines that share no state side by side: each behaviour is a
behaviour of one part, and a run's property speaks of the part it names.

## 3. The modules

A definition carries the code's name where it can; `PROJECT.json` maps each to its lines.
The arms of a CASE exclude each other: TLC takes the first that holds, and a proof may
assume any of them.

### The child: keys

**KeyPool.** A record has its status, the end of its backoff, the auth marker
(`parkedReason`) and the provenance of a disable. `Requests` are slots for requests in
flight; a slot remembers the key and model it was given, so every verdict arrives an
arbitrary time after its selection, in any order. `Select` is `getNextKey`: sweep,
choice by affinity or by pool order, removal of the chosen key's expired backoff;
`Choice` follows the code's fall-backs one by one. `AuthVerdict`, `QuotaVerdict`,
`ModelRateLimit`, `ShortBackoff`, `CountedFailure` and `Success` are the branches of
`handleKeyError` and the success path. `AddKey`, `RemoveKey` and `SetKeyStatus` make
the live change and record the snapshot of `executeDurableMutation`; `CommitMutation`
and `RollbackMutation` settle it, and verdicts go on between the two. `Reload` is a
graceful restart. `intent` is a history variable: the administrator's last word on
each key. Left out: usage counters other than the order of last use, reordering,
`accessibleModels`, pool-size and duplicate-value checks, error texts.

**RoutingMemory.** The tables of pins and cooldowns as entries with the time they were
made. `Records` is `recordAssignment` and `markRateLimited` with `evictOldest`,
`Scheduled` the one timer, `Persisted` the write through a temporary file, whose failure
counts as written; `Removes` and `RemovalSettles` are the two ends of a key's removal,
the undo putting the entries back over whatever is there. The process may stop, die and
start; the clock may go back.

**DurablePersist and DurableKeys.** The child's durable adapter with its revision
counter, two ordered channels, and main's ledger with the recorded projection. `Begin`
applies a change and sends it; `HandleDurable` is `handleDurablePersist` (revision
check, replay check, write, acknowledgement); `HandleLegacy` the background save. An
answer may be committed, refused with and without a retry, time out or arrive after its
wait. `DurableFaults` and `SaveFaults` say how writes fail: before the primary file is
replaced or between the primary and the recovery file. The code breaks an answer in two
cases: a child started with the state of the launch serves another value than the one
answered, and a change is acknowledged again as a replay after a background save failed
half-way. Nothing in the model rules them out. The history `voided` holds the keys whose
answer met one of them, `failures` how background saves have failed since a write last
succeeded, and two runs show the cases themselves. `DurableKeys` is what administration
promises, without a protocol: "done" is answered only for what is stored, and it binds the
store until the answer is withdrawn; `ImplementsThePromise` is the refinement, with
`stored <- disk.keys` and the answers that stand (`Standing`: all but the voided ones). A
key added again keeps its identity here, where the code draws a new UUID.

### The child: requests

**Inbound.** Method, route, credential, origin, readiness, then the body chunk by chunk
to the limit; the drain timer of an oversized request; the hand-over.

**Failover.** One request's walk over the keys. `avail` is what each key is to this
request; others change it at most `MaxChanges` times while an attempt is in flight, in
any way. `at = "deciding"` is the synchronous part of `tryNext`; `Verdict` looks for an
answer in the code's order: pool-wide status, deadline, silent round, exhausted.

**ProxyAttempt.** One attempt: the modes buffered, pass-through and translated stream,
the pre-commit gate, first-byte, idle, deadline and maximum-duration timers,
back-pressure, the client's leaving, the key's accounting, and the events a destroyed
connection still delivers. Frame contents are abstracted to six kinds of chunk. The first
attempt at a proof showed two mistakes of the model that TLC had not met: a buffered body
that did not end whole could be passed on (the code settles such a one before it writes,
`server.mjs` 2790-2797), and two arms of the first-byte timer's CASE overlapped.

**ErrorEcho.** What a client of each route is told when upstream refuses for good: the
message's slot, the scrubbing leaf by leaf, the envelope, the framing headers.

**ModelsRoute.** The second walk over the keys, with its own deadline and a buffered
body that may stall, overflow, end short or fail after its end.

**SseFraming.** The same bytes cut by three algorithms, as chunks arrive; the chunks are
every cut of every short byte sequence over text, CR, LF and blanks. Its loops are folds
over the text they consume, each turn of which takes at least one byte: the proofs about
other parts of `MCGateway` may not reach a RECURSIVE operator.

**Translate.** Frames become events of an Anthropic message or an OpenAI response:
blocks open and close, calls gather fragments, the stream ends whole, failed or short.

**Conversation.** A client that replays what it was told. Each turn of upstream is
translated to the client and, with the client's answers, back again.

**CapabilityProbe, PerformanceMode.** One model's probe from candidates to verdict,
reconciled with the curated registry, cached, aged and reloaded; the profile chosen by
hand or by the last outcomes, read anew when the file's stamp changes.

**ModelSources, Ranking.** One source of each kind (models, catalog, ranking) with its
fetch, timers, file and waiting callers; and the matcher that decides which entry of the
ranking speaks of one of our models, over ids of up to three tokens.

**AdminApi, ChildLife.** The admin server's key routes with the durable mutation behind
them; the process from its listeners to its exits, with what its three sinks have saved.

### The application

**GatewayLifecycle.** `queue` and `op` are the promise chain (`enqueue`): one operation
at a time, with `op.at` the await it stands at. `proc` holds what is known of each child
process. `RuntimeExit`, `StartupExit`, `UnclaimedExit`, `AwaitedExit` and `LateExit` are
the same event seen by the different listeners. `Escalates` walks from the ipc request
to SIGTERM and SIGKILL; `StopUnconfirmed` gives up and retains the child. `TimerFires`
queues the auto-restart, which looks at the generation only when it runs. A child that
dies of a foreign POSIX signal is not modelled (the package is for Windows), nor are the
prepared initial state of a migration start, output capture and log rotation.

**SecureStore.** Saves, starts, backups and restores one file operation at a time; a
crash anywhere, refused renames, one damaged file.

**MigrationLock.** `mkdir`, record, heartbeat, claim, takeover and release of several
processes; times are reduced to whether an owner lives. `robbed` remembers who removed
the claim of a living process, the one way (besides a verdict on a directory without a
record) in which exclusion is lost.

**Migration.** The workflow's phases with their journal, the two OpenCode files and the
application's own, the child's readiness and its buffered states, compensation of each
step, recovery after a crash; a user may edit a file at any time.

**Shell, MainWindow.** Every path to an exit with its guard, watchdog and deadline, the
window, the tray and the update; the window's deaths and rebirths, what tray and menus
say, the software-rendering relaunch, the login item.

**AppConfig, LogFiles.** Readers and writers of config.json, each failing at each file
step, with edits from outside; the three rotating logs with files held open, suppression
and notices, and the report that is sent from them.

**Dialogs, Views.** Request identities, sessions and timers of the dialogs against the
answers of main; the pages' caches against polls, pushes and switches.

**PetRest, PetSpeech, PetLife.** The rest timers and the hover tracker; the speaking
channel with its re-entrant host and the rounds of tips; activities, celebration, hint
and ambient cadence with the gate that pauses them. Events set state, `Renders` is the
later turn in which React follows.

## 4. The runs

| Run | Instance | Shows |
|---|---|---|
| `keypool` | `parking`: 1 key, 2 requests, clock 0..4, ladders to 2; `routing`: 2 keys, 1 model, 1 request, a clock that may step back | `HoldIsOperatorIntent`, `ProvenanceIsTruthful`, `AuthParkEnds`: two late verdicts, a durable mutation and its rollback, the sweep and a reload never turn a hold into a park or a park into a hold; `SelectionNeverStrands`: for *every* exclusion set an active key is chosen when there is one; `SweepBoundsWindows`, `SelectionBoundsCooldowns`: no window outlives its cap after the clock moved back; the type invariant |
| `durable` | 2 keys, 2 requests, 1 relaunch, a child that crashes, stops and restarts, every write failing both ways, fair | `AnsweredIsOnDisk` and the refinement `ImplementsThePromise`, but for the voided answers; `RetryHeals`: the two ledgers never lock each other out; `DiskAgreesWhenQuiet`; `RuntimeDataReachesDisk`: deferred saves arrive |
| `lifecycle` | 2 children, 2 ports, 3 operator requests, 2 auto-restarts, fair | `ChildIsTracked`, `ServiceIsTrue`, `StopWins`, `QueueDrains`, `CrashIsFollowedUp` |
| `failover_verdicts` | 3 keys in every initial state, caps 1 and 4, 2 changes by others | `HonestVerdict`, `HonestSilence`, `WalkIsSound` |
| `gateway` | `MCGateway`, 15 parts of the child, fair | see below |
| `desktop` | `MCDesktop`, 12 parts of the application, fair | see below |
| `durable_replay_v`, `durable_stale_v`, `failover_budget_v`, `attempt_ghost_v`, `migration_v`, `shell_v` | one property each | violations, see findings |

The properties of `gateway` (a conjunct per part; the module defines each):

| Property | Parts | Says |
|---|---|---|
| `AnswerIsClean` | ProxyAttempt, ErrorEcho | an attempt that passed the request on left the response alone, and a clean end is the end of a whole answer; a refusal reaches the client scrubbed, whole and parseable |
| `KeyIsJudgedFairly` | ProxyAttempt | the key is charged and credited for what upstream did, never for the client, the deadline or the gateway's own network, and never both ways |
| `ListsAreHonest` | ModelsRoute, ModelSources, Ranking | "no key got through" is true; lists survive failed and empty refreshes; a model has its own rank and no other's |
| `ChildKeepsItsWord` | ChildLife, RoutingMemory | never ready with half its ports, a stop flushes, what is unsaved has its timer; what is not queued is on disk, and the bound costs the oldest entries |
| `KeysAreGuarded` | Inbound, AdminApi | no key is spent on a request the router must refuse; only the token changes the pool, and an acknowledged change is in force |
| `StreamsAreHonest` | SseFraming, Translate | the readers see upstream's frames however the bytes are cut; the events are a well-formed account of them with one end |
| `ConversationIsFaithful` | Conversation | calls, results, texts and tools come back to the model as they were said |
| `SettingsAreHonest` | CapabilityProbe, PerformanceMode | what is shown was seen and is what is sent; the mode moves on confirmed evidence and follows the file |
| `RequestsSettle` | six parts | every request, attempt, list and waiting caller is answered, a stop ends, an oversized request is cut off |

Those of `desktop`:

| Property | Parts | Says |
|---|---|---|
| `StateIsSafe` | SecureStore, MigrationLock | an acknowledged save survives crashes and a damaged file; two migrations exclude each other unless a living claim was removed or a directory without a record was judged |
| `MigrationIsAtomic` | Migration | every changed file has its original in a journaled backup; a first run that fails undoes everything; success has done everything |
| `EditsAndReportsKept` | Migration | no write replaces a user's edit by an older version, and what the child reported meanwhile survives |
| `QuitPathsHold`, `QuitEnds` | Shell, MainWindow | a patient quit flushes, an unseen process has a way back; a quit that began ends; window, tray, relaunch and login item hold to what they say |
| `FilesAreHonest` | AppConfig, LogFiles, Dialogs | no writer loses another's change; no gap of a log is forgotten, its files are bounded, ordered and protected; what is sent of a log is its newest part |
| `RendererIsHonest` | Dialogs, Views, PetRest, PetSpeech, PetLife | no late answer reaches a dialog it does not belong to; a quiet page shows what is true; the pet rests, speaks and acts by its events |

**Why the bounds suffice.** The rules of the pool treat keys one by one, except for
selection: one key with two requests shows every race on a record, two keys every
choice. Windows are one or two ticks and ladders reach their cap. Durable mutations are
serial, so two requests give one whose answer is lost and one that fails over it or
replays it; the single retry is part of a request. Two children suffice for the lifecycle
(at most one is current and one retained); two restarts distinguish the last allowed one
from the first. Two changes by others include a deletion and its rollback inside one
request, and three keys make a pass with an answered, a silent and an untried key; the
liveness part uses two keys and one change. An attempt sees four chunks (before the
commit, the commit, after it, the end). `MaxBytes = 8` holds two frames with every mix of
line ends and a cut between any two bytes; `MaxFrame` and `MaxSent` are the size limits
made small. Conversations have two turns of two calls and more in flight; a process
restarts once (`MaxRestarts`) with what its files hold; the performance window is three
with two samples and two confirmations needed. `Names = 3` with `MaxTracked = 2`
evicts; `MaxTime = 1` with `TTL = 0` expires; five events hold a record, its failed
write, a crash, a start and a step back. Three processes are needed for the lock (one
gone, two that judge it stale). Two faults and two crashes put a failure into a
compensation and a crash into a recovery. Logs have two generations and a cap of two
entries, so five entries rotate through all. The dialogs have two requests (an old and a
new one); the pet's pools have two activities, the fewest a shuffle bag does not repeat.

**Symmetry** is used over keys and requests only where a run has no liveness property.
**Deadlock** checks are off where the bounds end behaviours, or a finished request or an
idle application really stops: durable, lifecycle, failover, gateway, desktop. The pool
is checked for deadlock: a selection is always possible.

**Fairness.** Each machine states its own, and the combined runs repeat it per part.
- `DurablePersist`: both event loops keep handling their channel, the wait for an
  acknowledgement has a timer (`awaitAck`), a debounced save has one; nobody is obliged
  to change keys, crash or relaunch.
- `GatewayLifecycle`: every await of an operation has a deadline (startup, ports probe,
  the three waits of `stopChild`), and the restart timer fires; no exit is assumed.
- `Failover`: an attempt in flight ends and the synchronous part runs; a change of the
  pool, the deadline and the client's leaving are not assumed. `ProxyAttempt` justifies
  it: its socket timers, the longest stream, Node's own turns and the response's close
  are fair, no byte of upstream or of the client is.
- `ModelsRoute`: what ends an attempt (the 30-second socket timeout is always possible).
- `ChildLife`: timers fire, a mutation settles by its own timer, `process.exit` exits.
- `Inbound`: the router's turn and the drain timer; a client need not send anything.
- `ModelSources`: the fetch's own timer ends it.
- `Shell`: the lifecycle's stop settles, Electron leaves or the watchdog fires, the
  fatal deadline fires; nobody is obliged to quit.
The other parts state safety only.

## 5. The proofs

Eight modules hold 32 listed theorems, each for every value of the constants. They state
29 of the 35 invariants, action properties and refinements that the passing runs check.

| Module | Theorem | States |
|---|---|---|
| `KeyPool_proofs` | `TypeCorrect` | `[]TypeOK` |
| | `HoldsAreTheOperators`, `ProvenanceTold`, `AuthParksEnd` | `[]HoldIsOperatorIntent`, `[]ProvenanceIsTruthful`, `[]AuthParkEnds` |
| | `SelectionBoundsWindows`, `CooldownsBounded` | `SweepBoundsWindows`, `SelectionBoundsCooldowns` |
| | `NeverStranded` | `[]SelectionNeverStrands` |
| `Failover_proofs` | `TypeCorrect`, `VerdictIsHonest`, `SilenceIsHonest`, `WalkSound` | `[]TypeOK`, `[]HonestVerdict`, `[]HonestSilence`, `[]WalkIsSound` |
| `DurablePersist_proofs` | `TypeCorrect`, `RetryHealsAlways`, `AnswersAreKept`, `FailureLeavesNoTrace` | `[]TypeOK`, `[]RetryHeals`, `[]AnsweredIsOnDisk`, `[]DiskAgreesWhenQuiet` |
| | `ImplementsPromise` | `ImplementsThePromise`, the refinement of `DurableKeys` |
| `GatewayLifecycle_proofs` | `TypeCorrect`, `ChildTracked`, `ServiceTrue`, `StopPrevails` | `[]TypeOK`, `[]ChildIsTracked`, `[]ServiceIsTrue`, `[]StopWins` |
| `MCGateway_proofs` | `KeysKept`, `WordKept`, `SettingsAreSound` | `[]KeysAreGuarded`, `[]ChildKeepsItsWord`, `[]SettingsAreHonest` |
| | `ListsAreKept` | the parts of `ListsAreHonest` about the route and the sources |
| `MCGatewayAttempt_proofs` | `AnswersAreClean`, `KeysAreJudgedFairly` | `[]AnswerIsClean`, `[]KeyIsJudgedFairly` |
| `MCDesktop_proofs` | `StateKept`, `QuitPathsKept` | `[]StateIsSafe`, `[]QuitPathsHold` |
| | `MigrationKept`, `EditsStayReportsStay` | `[]MigrationIsAtomic`, `EditsAndReportsKept` |
| | `ConfigsKept` | the part of `FilesAreHonest` about `config.json` |
| `MCRenderer_proofs` | `RendererIsKept` | `[]RendererIsHonest` |

### What the theorems assume

* `KeyPoolAssumption`: the keys are a finite set, the sentinels are not members, the
  windows are natural numbers with base at most cap and positive bases, and a short
  backoff is at least one unit. Finiteness is used only by `NeverStranded`, where the
  least recently used of some keys must exist.
* `FailoverAssumption`: a finite set of keys, caps and change bounds that are numbers.
* `DurablePersistAssumption`: the constants' types, and that faults are of the two kinds.
  Which faults, crashes, restarts and relaunches happen is left open in all five theorems.
  What the code does not keep is excepted by the properties, not assumed away: the answers
  in `voided`, and for `DiskAgreesWhenQuiet` a background save that failed last.
* `LifecycleAssumption`: the constants' types.
* `StoreLimits` and `OneFault` (`StateKept`): the bounds of the store's history are
  numbers, and at most one file is damaged from outside, which is what two copies can
  survive.
* `ProcsAssumption`: "nobody" and "dead" name no process.
* `IdsAreCounted` (`KeysKept`): the bound on the keys ever added is a number.
* `ConfirmationsAreCounted` (`SettingsAreSound`): the switches a mode waits for are a number.
* `ChangeLimits` (`RendererIsKept`): the bound on the changes of a page is a number.
* The other theorems of `MCGateway_proofs`, `MCGatewayAttempt_proofs` and
  `MCDesktop_proofs` assume nothing.

TLC evaluates each named ASSUME in the runs that extend its module.

### Along which argument

None of the properties is inductive as it stands; each module states what is.

**KeyPool.** The safety properties talk of the records in the pool, but a failed mutation
puts back a record that is in none of them. `IInv` adds that the snapshot of the pending
mutation satisfies the same `RecordOK` with respect to the intent it will restore. The
lemmas follow the code's operations: `ReclaimedOK` and `SweptOK` show that the sweep never
changes whose word holds a record (its clamp keeps an auth window positive because the
auth cap is), `ChoiceActive` that selection hands out active keys only. The action
properties use `SweptBounded`, that after the sweep each window is within the cap of its
status. `NeverStranded` follows `Choice` through its fall-backs: each one offers a
non-empty set or hands over to the next, and the last is every allowed active key.

**Failover.** What a verdict says of all keys must be carried from the keys tried to the
moment it is said, while others change the pool. `IInv` is `Typed`, `Bookkeeping` (which
sets grow together), `BudgetKept` (the attempts against the caps), `OneStatus` (while one
status alone was seen, every key that answered is in the present pass and answered with
it last) and `OnlySilence` (without a loud failure, whatever was tried fell silent).

**DurablePersist.** `Protocol` ties the two processes together through the messages under
way: `IdsAreSpent`, `CountersFollow`, `RequestsAscend`, `RequestIsLast`, `RefusalIsCurrent`
and `ChangeIsVisible` say which revisions can be in either channel, and that nothing
overtakes a pending request except what the protocol refuses. On it rests `Evidence`:
an acknowledgement says that the file holds the child's keys, except while a background
save is `Torn` (it failed after it replaced the primary file, and nothing was written
since), and where file and record differ otherwise nothing under way replays a recorded
revision. `AnswersStand` says that an answer that is not voided is in the file, in the
child and in every message that could still overwrite the file; `Agreement`, that main
will hold what the child serves, or what it serves once the pending change is undone, or a
save failed (`DiskHolds`). The refinement maps `stored` to `disk.keys` and `answered` to
`Standing`, and shows every step to be a step of `DurableKeys` or a stutter, from
`AnswersStand`.

**GatewayLifecycle.** `Conforms` says per place in the operation which process it holds,
which are alive, and what the owner record and the status may be; `OpsShape` what can
wait in the queue. `Restarts` says that at most one restart counts, whether it is
scheduled, queued or begun (`GenerationsPass`, `OneRestart`), and that it is within the
allowance. `StopHolds` says that once a stop has ended nothing lives, no start or retry
waits, and no restart that still counts is on its way.

**Inbound and AdminApi.** `BodyIsRead` says per place of a request what the router has
already checked of it, that one which is only drained is over the limit, and to whom the
safety timer belongs. The admin API is asked by several requests at once while one
mutation waits for the disk: `OneUnderWay` says what the pool and its durable copy hold of
that mutation, `Settled` that they differ nowhere else, `Fresh` that nothing is known of
ids not yet given, `Owned` and `ChecksAreOwn` that models, and validations still under
way, belong to a key an id has or had. `Turned` and `OthersStep` prove once that a request
which is not the mutation's leaves all of it alone.

**ChildLife and RoutingMemory.** `ChildInv` adds to the checked parts that the channel is
open until the stop and that a child that could not bind does not listen. A flush is
followed sink by sink (`KeysSaved`, `LogSaved`, `FlushSaves`), since a pending durable
mutation puts off the keys alone. `MemoryInv` adds `NothingIsLater`: while the clock runs
forward no entry, in the table, on disk, evicted or under removal, is of the future. On it
rests that a record evicts only what is older, and that loading the table again, as every
operation may, changes nothing that is said of it (`Looks`).

**ProxyAttempt.** `AttemptInv` says what a connection may still do to a request that was
passed on or ended. `VerdictInv`: the key is judged once, and not before the outcome.
`UpstreamInv`: while upstream answers nobody has ended the attempt, but a translator that
threw. `FacadeInv` and `TranslatorInv`: what a translated stream has committed to, and who
waits for the translator. `RetryInv`: an attempt passed on has nothing left that could
write. `ContentInv`: what the client holds, whole or told to be less. Each helper has one
lemma that says which fields it leaves alone (`SetDoes`, `FinishDoes`, `DestroyDoes`, ...),
each handler one that it keeps the invariant, so that no proof opens more than one of them.
**ErrorEcho** settles in a few steps and needs only what each step has read.

**CapabilityProbe and PerformanceMode.** `ProbeInv`: the counters are what the replies
tell (evidence, silent probes in a row, modes missed once and still held), and the readers
of an entry agree on it (`ViewsAgree`, `ClampIsListed`). `ModeInv`: the switches asked for
are exactly as many as the evidence agreed on, and a reading thought current is the
file's unless the file changed unseen.

**ModelsRoute and ModelSources.** `ListInv`: a key counted silent is a key of this pass
whose last attempt failed by infrastructure, and the flags remember every other end.
`SourceInv`: a fetch that ended has its outcome, and the ranking file is read before the
first fetch; `IndexIsFaithful` says that the index built from a list finds what is in it.

**AppConfig.** `ConfigInv`: a readable file is what was last meant by its writer, and an
unreadable one means the defaults. A write leaves the file untouched, takes back what was
there, or replaces it (`WriteDoes`).

**SecureStore.** `TimesPass` bounds the times of the copies, `BothHold` says that each of
the two slots holds a file or a newest buffer of one, `FresherWins` that an outdated copy
that would load is older than what either slot holds, `OneDamage` that at most one copy is
damaged, and `WriteStands` and `MemHolds` what the write under way has already replaced
and what memory holds. Together they leave a start no outdated choice.

**MigrationLock.** Exclusion holds until it is `Marred`: a living claim was removed, or a
process settled on a verdict about a directory without a record. Once marred, always
marred (`MarredForGood`); before, `LockBody` holds: one process at most inside, the
directory and its record furnished as its place demands, verdicts no younger than the
directory they judge (`VerdictsAge`), claims only after a verdict on someone who is gone.

**Migration.** `MigInv` has three facts of every run: versions only grow from what the run
first read (`VersionsAge`), the buffer is shut outside the prepared gateway
(`BufferShuts`), and behind each place of the walk its file is done (`WalkIsDone`). A run
that found no journal has more (`OwnRun`): every backup is of an original (`Grounded`,
`BackedUp`), the final steps follow the verification (`Verifies`), no file is written
before its journal entry (`Ahead`), and each compensation finds the later ones finished
(`Undoing`). The actions are taken by kind (`EarlyMove`, `Passes`, `GiveUp`, `TurnBack`,
`Undo`, `Halt`), as most of them differ only in the place they lead to. The action
property is proved from the same invariant: `GoesForward` for the versions, `SuccessTells`
for the reports.

**Shell and MainWindow.** `StopComesFirst` says that while the gateway is up nothing that
only follows a stop has happened, unless a second request was eager; `LeavesByQuit` that
whoever leaves is quitting and only a tray hides the window. For the surfaces,
`OneAtMost` and `PointerTells` tie the number of windows to the pointer, `NamesTell` the
tray and menu to what is, `MarkersAge` the marker to the launch that consumes it, and
`CacheTells` and `ReadsTell` the cached login item to the acts of the user.

**PetRest, PetSpeech, PetLife.** `PointerInv` ties the pointer, the hold and the release
under way to each other, and to whether the window is shown. `TalkInv` counts the random
tips in hand (`Tally`: a round is busy with exactly one, whether it is fetched, waits,
or is spoken), says which timers run for what is on the screen (`Timed`, `Clocked`), and
that exactly the tip that is due is heard. `GateInv` and `SceneInv` say what the life gate
last told its timers, and that a celebration has the canvas.

**Views and Dialogs.** `PageInv` has one part per kind of page: the pushes are the states
that followed the last reading (`StatusTold`), and what is shown differs from the truth
only while an answer that will correct it is under way (`SwitchesTold`, `ModelsTold`).
`DialogInv`: the active session is the latest (`Standing`), calls under way belong to
sessions begun (`Pledged`), and what a dialog says is of its own session (`Spoke`,
`Sending`).

### What stays with TLC

* Liveness, out of the prover's reach: `RuntimeDataReachesDisk`, `QueueDrains`,
  `CrashIsFollowedUp`, `RequestsSettle`, `QuitEnds`.
* What a fold or a recursion computes for data of every size: `Ranking`, `SseFraming`,
  `Translate`, `Conversation`, `LogFiles`. The provers cannot instantiate the induction
  theorems.
* `ListsAreHonest`, `StreamsAreHonest`, `ConversationIsFaithful` and `FilesAreHonest` for
  the parts just named and for a report's newest entries (`ReportIsNewest`, a trimmed
  sequence). The type invariants of `MCGateway` and `MCDesktop`
  bound counters by constants of the runs and are left to TLC; what the proofs need of
  types is in their inductive invariants (`LockStates`, `MigStates`, `ShellStates`,
  `WinStates`, `RouterStates`, `AdminStates`, `ChildStates`, `MemoryStates` and the typed
  parts of the other `...Inv`), without the bounds.
* The six counterexamples of section 6.

## 6. Findings

* `durable_stale_v`: the lifecycle is constructed once with the state read at launch and
  starts *every* child with it (`main/index.ts:275`). After a crash or a retry the new
  child serves the keys of the launch: a disable that was answered as done is undone,
  and the next background save makes that permanent.
* `durable_replay_v`: a disable whose acknowledgement timed out is written and recorded,
  then undone by the reconcile save; if that save fails after it replaced the primary file
  (`main/secure-state.ts:247`), the file says active and the record still says disabled.
  The same disable asked again has the recorded revision and projection and is
  acknowledged without a write (`main/private-state-channel.ts:81`): the administrator is
  told it is done, and a relaunch reads active. The comment at 166 says the record "MUST
  follow whatever actually lands on disk".
* `failover_budget_v`: when all keys are backed off, selecting one clears its backoff;
  if its attempt then costs nothing, it is the only ready key, the pass counts as
  complete and the budget is spent on it, while another active key is never tried
  (`gateway/server.mjs:773`).
* `attempt_ghost_v`: a translator that throws before the commit settles the attempt
  retryable but leaves its upstream request open with its handlers; they answer 502 into,
  or destroy, the response the next attempt uses (`gateway/server.mjs:1962`).
* `migration_v`: after a crash between the replacement of an OpenCode file and its
  verification, a retry whose gateway does not start rolls the state back, drops the
  journal and leaves the file rewritten (`main/final-migration-workflow.ts:182`).
* `shell_v`: a second quit, or a window closed without a tray, while the first quit
  awaits the stop lets Electron exit with the child unflushed
  (`main/before-quit-guard.ts:20`).

**Known behaviour** the properties stay clear of (by a guard, a weaker statement or a
bound), each read in the code and reproducible by widening a part. Where a comment of
the code says otherwise it is named.

*Keys.* A 5xx or plain 429 of another request replaces the hour-long window of an auth
park by seconds (`gateway/rotation.mjs:665`, against the comment at 115). A success pins
its model to a key removed meanwhile (713); selection ignores the pin. A quota verdict on
an auth-parked key keeps `parkedReason`, and the quota branch of the sweep leaves it
(521). The uniform-429 stop counts a silent key as attempted
(`gateway/failover-policy.mjs:182`). `retry` onto a port in
use leaves the status `PORT_IN_USE` while the previous child serves its own port.

*Routing memory.* A failed write counts as written. After a step back the entry just
recorded can be the oldest and be evicted at once. An undone removal may push a table
beyond its bound until the next record. Reads after a step back and the start's prune
change memory without scheduling a write, so a pruned entry may come back after another
step back and a restart.

*Attempt and errors.* A reset after `[DONE]` charges the key through the request's error
handler (`gateway/server.mjs:2870`, against decision 4a at 2286). A translated answer
that overflows at its end ends the client but reports no result. A pass-through stream
broken before its first byte counts a failed use twice. An empty or blank error body is
rewritten although nothing in it is; a flattened text or HTML error keeps upstream's
content type over a JSON body; a FastAPI-style `detail` is replaced by the status on the
messages and responses routes.

*Models route and sources.* An end in mid-body is a final 502 without charge or failover;
a reset after a complete list charges the key; a client that leaves before the answer
leaves the request unsettled. A 200 without `data` replaces the models list by an empty
one for a day. `POST /admin/models/refresh` says `cached: false` although a failed
refresh returns the old list. Turning the ranking off during a fetch still writes its
file. In the matcher the first field of an entry that says anything decides, so an entry
whose id is rejected is not matched by its name; an override whose entry has no rank
gives nothing.

*Router, admin, settings.* An empty chat body goes on to the keys. A full pool answers
409 "Key already exists". An unreadable performance file means the defaults until its
stamp changes; a write of equal size within one tick of the stamp is not seen; switching
to manual does not reset the pending candidate. A mixed probe counts as a negative one;
hysteresis is bypassed when a model reasons without any control.

*Streams and conversations.* The Responses reader waits for the LF after a trailing CR
where the others do not. After an oversized frame cut by its cap or a chunk the observer
and the gate may lose the *next* frame (against the comment near
`gateway/server.mjs:1153`). Content that is no string opens a block before
`message_start` (`gateway/anthropic-adapter.mjs:904`); interleaved fragments of one call
become several `tool_use` blocks; a custom tool whose name comes late is shown as a plain
function call. A streamed text after calls comes back between call and result; a tool
choice may name a dropped tool; an Anthropic message that mixes results, text and
`tool_use` loses the `tool_use`.

*Stop.* A flush behind a pending durable mutation is lost; `handleFatal` flushes only the
log. A window closed without a tray while an update stops the gateway makes the quit
ignored, and if that stop fails an invisible process stays; the install path has no
watchdog.

*Store, lock, migration.* A recovery file older than a kept buffer can win after two
crashes (only unacknowledged state is lost). Two clears of a stale claim let two
migrations in (exclusion is proved up to the removal of a living claim); a recordless old directory looks unchanged while its new owner releases
it. A final persist that fails after the state was committed is persisted over the
rolled-back disk when the prepared gateway stops, and the next launch answers
ALREADY_MIGRATED. A crash between persisting `opencode_lock_prepared` and creating the
marker makes every retry fail with MIGRATION_JOURNAL_RECOVERY_FAILED. Recovery persists
earlier phases again, so a second crash forgets journaled backups.

*Window.* A marker that cannot be written makes a relaunch loop possible (against
`main/index.ts:735`), one that cannot be removed keeps software rendering. A retry from
the tray whose port cannot be written is an unhandled rejection and a fatal shutdown.
External edits of the login item stay unseen until the user's next reading.

*Configuration and logs.* A write over an unreadable file starts from defaults; every
settings writer rewrites invalid scalars to defaults and pins absent ones; a protection
failure reports an error for a file already written. With the oldest generation held open
each rotation overwrites the one below it; `app.jsonl` and `gateway.jsonl` have no
suppression and grow while obstructed; a suppressed count is lost at exit; the first entry
whose write fails is not counted; previews and reports read only the active file; the
reported count names the untrimmed one; `closeLogger` drops its buffer.

*Renderer.* A click on "send errors" between a dialog's opening and its rendering leaves
the dialog unclosable until the count answers. A failure shown within four seconds of a
success is closed by the first one's timer; a second save within the closing window
stores twice; a failed standalone file reports failure though the line was stored; the
diagnostics bundle is one file overwritten by the next feedback. A change made although
its answer was an error is not refetched on the models page; on the settings page the
store can keep an optimistic value when refetched data is unchanged.

*Pet.* **A tip dismissed, acted on or over within the 1.8 s of its hint clears the hint's
timer without resuming the dwell and micro timers (`stopHint`,
`renderer/pet/PetWidget.tsx:1857`), so an alive pet stands still until the next change of
focus, dialog or joy; the comment at 1885 says they "pause for its duration".** Events
while hidden arm rest timers, and the end of a celebration shows a thought with its timer
(against 1763 and 1767); a tip whose fetch answers between a hide and React's effect is
counted while hidden; hide and show within one render would lose an event tip, and joy's
and hint's ends within one render leave timers behind a dialog (both excluded by the
guards named `Flushed`); a cue whose idle callback runs after a click restarts the dwell
during the joy; a long blur and a short hide count as a flicker.

## 7. Not modelled

* `gateway/direct-glm-probe.mjs`, `glm-reasoning.mjs`, `model-limits.mjs`: request shaping
  per model, functions of one request without state.
* `main/state-ownership.ts` beyond the key projection; report sanitisers, redaction
  patterns and the diagnostic archive: text functions.
* IPC wrappers, port scanner, external links: stateless checks around one call.
* Wizard, translations, styles, layout: a sequential form and data.
* Sound synthesis and drawing of the pet: numeric, without decisions. Its cadence is in
  `PetLife`.
* Build and packaging scripts: sequential steps outside the program.

Within the modelled parts: wording, logging, sampling parameters and images of requests,
usage numbers, header allow-lists, the text edits of the JSONC files, the contents of
model limits, environment overrides, and Retry-After values.
