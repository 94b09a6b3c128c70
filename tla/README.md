# Codex Window Reset: verification project

Codex Window Reset is a CLIProxyAPI plugin written in Go. It sends one cheap
"preheat" request per account shortly before a work period, so that the quota
window of the account starts early; it probes accounts by hand, caches quota
snapshots, holds accounts whose long window runs low, and spends reset credits
on the operator's order. This directory models the parts of it where order,
failure and time decide whether it is right, checks them with TLC on small
instances and proves the central safety theorems with TLAPS.

Paths below are relative to the repository; `scheduler.go` is
`internal/schedule/scheduler.go`.

## The system

| part | state it keeps | operations | how it interacts | what makes it correct |
|---|---|---|---|---|
| Preheat scheduler (`schedule/scheduler.go`) | timers with generations, `pendingTerminal`, its copy of the configuration; durable occurrences and next runs | Start, Stop, Reconcile, callbacks of occurrence, compensation, midnight and retry timers | one owner goroutine takes commands from a channel; calls the Runtime's executor and the state repository | a request is never repeated, work that is owed keeps a timer, results are saved in the end |
| Preheat execution (`app/preheat.go`) | none | ExecutePreheat, ExecuteCompensation, CompensationEligible | called by the scheduler; reads configuration, accounts, quota; writes the compensation's due time | only selected, unheld accounts; at most one compensation, of transient failures only |
| Runtime state (`store/runtime_state.go`, `store/atomic_json.go`) | `runtime-state.json` | Load, Update (one transaction) | shared by scheduler, executor and quota service | an error means the old document or, after the rename, the new one; never half of it |
| Quota reset (`app/reset.go`, `store/reset_audit.go`) | reset flights, busy accounts; durable audit | ResetQuota, RecoverPending, ListResetAudit, ClearResetAudit | management calls, concurrent; single flight per idempotency key | one key spends at most one credit, over retries, crashes and concurrent callers |
| Manual probes (`app/manual.go`) | the current run, busy accounts | StartManualProbes, runManual, RefreshQuotas | up to three workers; shares the busy registry with preheats and resets | one operation per account at a time; a run completes, also when cancelled |
| Quota service (`quota/service.go`, `quota/parse.go`) | snapshot cache, flights, guardrail holds (durable) | Refresh, Get, Evaluate, Reset, ClearSnapshots | single-flight refresh shared by callers; holds live in the runtime state | a hold, once entered, lasts until every long window is above the floor; a stale answer never overwrites a fresh one |
| Configuration (`domain/config.go`, `store/config.go`, `app/runtime.go`) | `config.json`, the Runtime's copy, its revision | UpdateSchedule, Simulate | validated, saved, swapped, reconciled under `configMu` | two writers with one revision never both succeed |
| Runtime lifecycle (`app/runtime.go`, `main.go`) | started, stopped, stop context, the plugin's runtime slot | Start, Stop, plugin init, call, shutdown | `configMu`, `mu`, `resetGate`, wait group | after Stop returns nothing is sent; Stop returns |
| Planner (`schedule/planner.go`, `local_time.go`) | none | PlanDay | called by scheduler and simulator | planned instants lie in the preheat window and outside blackouts, staggered by account; nobody is forgotten |
| Simulator (`simulate/service.go`) | none | Run | Simulate | charts partition the date; coverage is that of the cycles' budgets |
| Usage parser (`quota/parse.go`) | none | ParseUsage, credit detail | called by the quota service | an answer is read whole or refused; the short window comes first |
| Probe client (`probe/`) | none | Execute, SSE decoding | HTTP through the host | success means a completed response with the expected output |
| History (`store/history.go`, `store/atomic_json.go`) | `history.json`, its mutex | Append, Load, Clear | written after each operation, cleared by the operator; `writeAtomic` writes every document | an acknowledged record is there until as many newer ones have displaced it |
| Accounts, host bridge, management API, panel | little or none | | | the panel keeps one idempotency key for a confirmed reset |

Hard behaviour: timers race the owner's handlers; a callback may be stale when
it is taken; every write may fail, or fail after it took effect; the process
may die between a claim, a request and its result; the configuration changes
while a handler of the old one is due; shutdown overlaps all of it.
`PROJECT.json` lists each hazard at the line where it bites, with the
properties that watch it.

## Modules

| module | what it is |
|---|---|
| `OccurrenceLifecycle` | abstract: what is promised of every occurrence, whatever happens around it |
| `Scheduler` | the scheduler, the executor as it sees it, the state repository, the clock and the process |
| `MCScheduler` | instances of `Scheduler` for TLC |
| `SchedulerProofs` | TLAPS: types of `Scheduler`, requests bounded; `Scheduler` implements `OccurrenceLifecycle`; claims follow the saved selection; the midnight timer, results and their timers, the timers of all that is owed |
| `CreditOnce` | abstract: what a durable idempotency key promises of an irreversible call |
| `ResetQuota` | concurrent ResetQuota calls, flights, the audit, the shared quota refresh, the consume gate, Stop, crashes; composed with the operator's refreshes |
| `MCResetQuota` | instances of `ResetQuota` for TLC |
| `ResetProofs` | TLAPS: types, ownership of flights, the consume gate; `ResetQuota` implements `CreditOnce`; one consume per recorded use; outcomes are true; credits are there |
| `ManualRun` | health probes: callers, the run with its workers, the busy registry with its three users, Stop |
| `MCManualRun` | instances of `ManualRun` for TLC |
| `ManualProofs` | TLAPS: types, one run, single flight per account, quiet after Stop, exact progress |
| `UsageWindows` | the decision on a sequence of usage windows, as operators |
| `QuotaService` | refreshes, the cache, ClearSnapshots, preheats and the durable guardrail holds; extends `UsageWindows` |
| `MCQuotaService` | instance of `QuotaService` for TLC |
| `QuotaProofs` | TLAPS: types, cleared data, what a hold blocks and what ends it |
| `ScheduleRegister` | abstract: what is promised of the schedule, its revisions and its durability |
| `PluginRuntime` | the plugin slot of `main.go`, the Runtime's life, `config.json`, management calls, calls of the host |
| `PluginProofs` | TLAPS: types, quiet outside a Runtime's life, `PluginRuntime` implements `ScheduleRegister` |
| `DurableLog` | abstract: what is promised of a document on disk |
| `HistoryStore` | the operation history, its mutex and the steps of `writeAtomic`, deaths and losses of power |
| `StoreProofs` | TLAPS: types, acknowledged records are found, `HistoryStore` implements `DurableLog` |
| `Planner`, `Simulator`, `UsagePayload` | the pure algorithms, as operators |
| `Calculations` | asks them every question of a set and judges the answers by references that count single ticks and windows; extends `Simulator` and through it `Planner`, `UsageWindows` and `UsagePayload` |
| `MCCalculations` | the questions |
| `CalculationProofs` | TLAPS: what the planner plans and what the usage parser reports, for every question |
| `SimulatorProofs` | TLAPS: what the simulator counts and what its charts show, for every question |

`Scheduler` and `ResetQuota` meet in the code only in the busy registry and in
`Stop`; each models what it sees of the other as a free choice (a declined
preheat, `RefuseAccount`). `ManualRun` models the registry itself, with preheats
and resets reduced to holding an account and giving it back. `QuotaService`
refines the choice between declining and sending that `Scheduler` leaves to the
executor. `PluginRuntime` is what surrounds them all: their work is its `Job`,
their configuration its `live` and `followed`; `Planner` computes what
`Scheduler` takes as the plan of a configuration. `HistoryStore` shows of one document what
they all take for granted of a write: under its mutex it is one step, with the
ends `ok`, `lost` and `kept`.

### Scheduler

State: `occurrences` and `nextRuns` are `RuntimeState.Occurrences` and
`.NextRuns`, the only variables a crash leaves; `timerDue` is `timers` with
`timerDue`, one per occurrence, one per compensation, one for midnight, one for
the reconcile retry; `inbox` holds the callbacks of timers that have gone off
but that the owner has not taken, each with whether its generation is still the
current one, which is all a generation counter is compared for;
`pendingTerminal` is the map of that name; `owner` says where the owner
goroutine is inside a handler; `rtConfig` is the Runtime's configuration and
`config` the scheduler's. History, read by properties only: `requests` that
were sent; `applied`, whether the last configuration was reconciled, and
`reconciled`, whether any reconciliation of the process was; `misreported`, what
writes of this process that reported an error have done all the same.

A step is what one handler does between two points at which another goroutine,
the clock, the disk or a crash may intervene. `RuntimeStateRepository.Update`
is one transaction under a mutex, so one step. The handlers:

| code | actions |
|---|---|
| `Start` (149), then `Runtime.Start`'s Reconcile | `StartScheduler`, `HandleReconcile` |
| `Runtime.UpdateSchedule`, `Reconcile` (229) | `UpdateSchedule`, `HandleReconcile` |
| `AfterFunc` callbacks, `enqueue` (321) | `FireTimer` |
| `handle` midnight and reconcile retry (292) | `HandleHorizon` |
| `consumeTimer` refusing a callback (548) | `DropStale` |
| `handleOccurrence` (645) | `RetryTerminal` or `ClaimOccurrence`, then executor, `SaveTerminal`, `ReconcileAfterCallback` |
| `handleCompensation` (701) | `RetryTerminal` or `LoadCompensation`, `ClaimCompensation`, then as above |
| `execute` (830), `executePreheat` | `EnterExecutor`, `ExecutorDeclines`, `SendRequest`, `RequestReturns` |
| `Stop` (189), `Runtime.Stop` | `BeginStop`, `StopReturns` |
| the process dying | `Crash` |

`reconcileOwned` with everything it calls (`reconcileTimers`,
`cancelOccurrenceTimers`, `scheduleMidnight`) is the operator `ReconcileOwned`,
one transaction and the timers it leaves.

A write ends in one of `WriteOutcomes`: `ok`; `lost`, an error and the old
document; `kept`, an error and the new document, which is what `writeAtomic`
gives when opening or syncing the directory fails after the rename.

Abstractions. `ClaimCompensation` reads the configuration for the eligibility
(`preheat.go:170`) and claims (`scheduler.go:729`, `734`) in one step, so an
update of the schedule between the two is not explored; before them and after
them it is. A configuration is: enabled, the selected accounts, and the
planned instant of every occurrence (0 where the planner finds no instant; the
code treats it like one in the past). A day has `DayLength` ticks and midnight
is a multiple of it. The host's answers, the guardrail holds, the busy registry
and the quota decision are a free choice between declining (skipped or failed)
and sending; whether a request fails transiently is a free choice too.
Configuration changes keep the account's slots: that removing a skip time
renumbers them belongs to the planner's module.

### Properties of Scheduler

* `TypeOK`.
* `TimerCoverage`: a planned occurrence that the state owns has its own timer
  whenever the owner rests, and a compensation it owes has one. What a write has
  planned although it reported an error waits for the reconciliation that is
  armed for the failure; only if the failure was the answer to the operator's own
  change none is. A compensation that such a write owes has at least the timer
  that repeats the write.
* `RunningHasResult`: an occurrence is running at rest only while its result
  waits in memory, or because its claim has taken effect and reported an error;
  no request follows such a claim (see Known limits).
* `PendingResultHasTimer`: a result that is not in the file yet has a timer that
  will save it, also after reconciliations of a disabled schedule.
* `HorizonAlive`: once a reconciliation of the process has succeeded, the
  midnight timer is there whenever the owner rests, also after later ones have
  failed. A process whose first one failed has none (see Known limits).
* `ClaimsSelected`: no claim for an account the saved configuration does not
  select, unless that change still waits for the owner.
* `RequestsBounded`: at most one preheat, at most one compensation after it.
* `KeepsLifecycle`: the refinement of `OccurrenceLifecycle`, under the mapping
  `StageOf`.
* `RunningSettles`: liveness. While its process lives no occurrence stays
  running, a claim that was misreported and what a failed startup could not
  recover excepted.
* `NextRunHonoured`: liveness. Of a process that has reconciled once: a next run
  that is shown starts or is withdrawn.

### ResetQuota

State: `audit` is `reset-audit.json`, one record per idempotency key and the
only variable of the program that a crash leaves; `flights` is
`Runtime.resetFlights`, a flight named by the call that began it; `fetches` is
`quota.Service.flights`; `calls` says where each ResetQuota call is, with its
key, its account and what it will answer; `phase` is the lifecycle: up, Stop
begun, past its gate, returned, process gone. `credits` is the upstream's.
`consumes`, `applied`, `erased` are history for the properties, `spent` counts
the bounds.

| code | actions |
|---|---|
| `ResetQuota` (31), up to the flight lookup | `Arrive`, `JoinFlight` |
| `FindByKey`, `recoverOrphanedReset` | `FindRecord`, `RecoverOrphan` |
| account checks, `beginResetFlight` | `RefuseAccount`, `BeginFlight` |
| `quota.Service.Refresh` | `StartRefresh`, `AnswerFetch`, `DeliverFetch`, `LeaveFetch` |
| `RefreshQuotas` | `PanelRefresh` |
| `AppendPending`, `handlePendingAppendConflict` | `AppendPending`, `ResolveConflict` |
| `resetConsume`, `Service.Reset`, `finalResetOutcome` | `EnterConsume`, `ConsumeReturns` |
| refresh after the call, `Replace` | `StartRefresh` ... again, `Settle` |
| `finishResetFlight`, `waitResetFlight` | `FinishFlight`, `ReloadRecord` |
| `Start` with `RecoverPending`; `Stop` | `Start`; `BeginStop`, `PassGate`, `StopReturns` |
| `ClearResetAudit`; retention in `loadLocked` | `ClearAudit`; `ExpireRecord` |
| the process dying | `Crash` |

Abstractions and what they rest on.

* The management router passes `context.Background()`, so callers do not cancel.
* The host answers every request in the end; `reply` is 2xx, another status, no
  answer, or nothing was sent. An error status means that no credit was taken,
  a lost answer may mean either. Nobody else spends the account's credits. The
  first two are assumptions about the upstream, outside the repository.
* A failed refresh, and one whose credit count is incomplete, count as no
  credits: `ResetQuota` refuses in each of these cases before its record.
* The busy registry is the account of some live flight; preheats and probes
  that keep an account are `RefuseAccount`.
* The upstream acts on a POST before the call that sent it has failed: that a
  POST which has timed out takes its credit later, after the refresh that
  follows, is not considered.
* `ReloadRecord` answers the owner's `unknown` also where the code would return,
  with the owner's error, a record that has become final meanwhile.
* A retention of a year outlasts every call: `ExpireRecord` needs all calls
  idle. `ClearAudit` does not.
* `Runtime`'s own interface is modelled, on which its tests stop it under live
  resets. Behind the ABI, `runtimeSlot` is held during each management call,
  which excludes those interleavings; it is why `Start` after a stop needs idle
  calls.

### Properties of ResetQuota

* `TypeOK`.
* `ConsumesBounded`: a key sends one consume call, plus one per deletion of its
  evidence.
* `OutcomeTruthful`: no record and no answer says "succeeded" of a reset that
  took no credit, nor "failed" of one that did.
* `KeepsPromise`: the refinement of `CreditOnce`. A key is `Free` without a
  record; it is `Intended` while its flight is between the durable record and
  the return of its call.
* `ConsumesAvailableCredit`: the count a reset acts on still holds at its call,
  though refreshes are shared and may be older than the reset. It holds because
  the busy registry lets the next reset of the account begin only after the
  refresh that follows the last call.
* `NoConsumeAfterGate`: nothing is sent once Stop holds `resetGate`.
* `CallsAnswered`, `StopCompletes`: liveness.
* `OutcomeStands` is what the documents say of stored outcomes, and is violated.

### ManualRun

State: `requests` says where each StartManualProbes call is, with the accounts
it asked for and those it has not looked up in the registry yet; `runs` holds
every run there was, `current` is `Runtime.run`; `busy` is `Runtime.busy`;
`others` are the preheats and resets that hold an account; `phase` is Stop's
progress; `spent` counts the bounds. A worker is in hand of one account at a
time, so a run is `active`, `cancelled`, `completed` and the stage of each of
its accounts: waiting for a worker, to be found, to be acquired, held, to be
counted, done, or skipped. The accounts in hand are the workers at work.

| code | actions |
|---|---|
| `StartManualProbes` (15): first check, discovery, `isBusy` of each account, check and install | `RequestProbes`, `ListAccounts`, `CheckBusy`, `InstallRun` |
| `runManual` (250): the dispatch loop, its `ctx.Done` branch, the end | `Dispatch`, `SkipRest`, `FinishRun` |
| `executeManual` (315), `completeOne` | `FindAccount`, `AcquireBusy`, `ReleaseBusy`, `CompleteOne` |
| the caller's context ending | `CallerCancels` |
| `ExecutePreheat`, `beginResetFlight`, and their releases | `BeginOther`, `EndOther` |
| `Stop` (276) | `BeginStop`, `CancelRun`, `StopReturns` |

Abstractions. The order of a run's accounts is left out: a free worker may get
any of them. The increments of the `ctx.Done` loop are one step, since only
Status reads the counter. Refreshes, the probe and the history record happen
while the account is held and change nothing here. What a preheat or a reset
does with an account is `BeginOther` and `EndOther`; that each of their early
returns releases it is taken from the code's `defer` (`preheat.go:89`,
`reset.go:93`), and a release missed there would not be seen here. A request with empty,
doubled or no keys is refused before it touches anything, and left out.
`RefreshQuotas` uses neither the run nor the registry; its refreshes are in
`ResetQuota`.

### Properties of ManualRun

* `TypeOK`.
* `BusyExact`: an account is in the registry exactly while one probe, preheat
  or reset holds it.
* `OneActiveRun`: one run is active, and it is `Runtime.run`.
* `ProgressExact`: a run's progress never passes its total and ends at it.
* `QuietAfterStop`: once Stop has returned nobody works on an account.
* `RunsEnd`, `StopCompletes`: liveness.

### QuotaService

State: `entries` and `flights` are the maps of `quota.Service`; `holds` is
`RuntimeState.GuardrailHolds`, the only variable that a restart leaves besides
the configuration; `stage` says where each caller is, `views` what the preheat
of an account has read of the cache between `Get` and its transition of the
hold. The busy registry lets one preheat at a time work on an account, so a
preheat goes by the account's name; everybody else who refreshes (panel,
probes, resets) is a `Reader`. A snapshot has the number of the refresh that
brought it and the number of clears before it was stored, for the properties.

| code | actions |
|---|---|
| `Refresh` (78): joining or beginning a flight | `Refresh`, `BeginPreheat` |
| its answer, the cache, the waiting callers | `Succeed`, `Fail` |
| `waitForFlight` when the caller's context ends | `Leave` |
| `ClearSnapshots` | `ClearSnapshots` |
| `Evaluate` (318): `Get`, then `transitionHold` and `decide` | `ReadView`, `EvaluateTransition`, `EvaluateSteady`, `EvaluateBlind` (the state cannot be read) |
| `executePreheat` after its request | `RequestReturns` |
| clock, `UpdateSchedule`, `Stop`, a new process | `Tick`, `Configure`, `Stop`, `Restart` |

`UsageWindows` has the rules: `Long`, `AnyLongAtOrBelow`, `AllLongAbove`,
`Sufficient`, `Decide`. An answer of the upstream is a sequence of windows;
how a payload becomes one is `UsagePayload`.

### Properties of QuotaService

* `TypeOK`.
* `ClearedNotTrusted`: what was cleared comes back, if at all, under an error.
* `HoldEndsByLaterSnapshot`: a hold ends only by a snapshot of a later refresh
  than the one that proved it.
* `HoldBlocksUnproved`: while a hold stands nothing is sent on an error, on a
  stale snapshot or on one with a long window. A fresh snapshot without a long
  window is left out: there `decide` sends, against the documents (see Known
  limits).
* `RefreshesAnswered`: liveness; everybody who waits is answered.

### PluginRuntime

State: `disk` is `config.json`, which outlives the process, as does `read`,
what each client was told by GET; `live` is `Runtime.config`, `followed` what
the scheduler took; `up`, `stopped` and `hosted` are the slot, the Runtime's
stop and the stored host API; `writer` and `readers` are `runtimeSlot`'s
read-write lock, `configMu` the mutex; `call`, `life` and `jobs` say where
management calls, lifecycle calls and background work are. `valid`, `told` are
history.

| code | actions |
|---|---|
| `dispatch` (main.go 585), the router's GET and PUT of `/schedule` | `Ask`, `Dispatch`, `GetSchedule` |
| `UpdateSchedule` (386) | `CompareRevision`, `DiscoverAndValidate`, `SaveConfig`, `SwapConfig`, `ReconcileSchedule` |
| `cliproxy_plugin_init` (main.go 222) | `CallLifecycle`, `AnnounceWriter`, `StopOld`, `StopReturns`, `Load` or `LoadFails`, `Launch` |
| shutdown (main.go 301) | the same up to `StopReturns`, then `ClearHost` |
| `hostCaller`, `host.Client.call` | `CheckContext`, `EnterHost`, `HostReturns` |
| background work of the Runtime | `BeginJob`, `EndJob` |
| the process dying; another program that spoils the file | `Crash`; `Damage` |

Abstractions. A schedule is its revision and a content; that validation accepts
a content is a free choice here (`ValidConfig` of `Planner` is the rule). What
work there is in the background is a `Job`; which one, the other modules say.
A job does not begin once the Runtime has stopped, which abstracts the gate of
the scheduler's `execute` (`scheduler.go:831`, in `Scheduler` the first case of
`EnterExecutor`): that gate going wrong would not be seen here.
Other routes of the router change nothing here and go the way of `GetSchedule`.

### Properties of PluginRuntime

* `TypeOK`.
* `KeepsRegister`: the refinement of `ScheduleRegister`: an update replaces
  exactly the schedule its author had read; what is in force is what a restart
  would find; what was acknowledged is durable, in force and followed.
* `QuietOutsideLife`: no background work and no management call outside the
  life of a Runtime and its host.
* `CallsReturn`: liveness of management calls, initialisation and shutdown,
  which wait for each other and for the host.

After damage to `config.json` the revisions begin at 1 again. A client that had
read revision 1 of the lost file may then replace the new one: the numbers
agree. `valid` takes such readings out of the promise, and the code has nothing
to tell them apart by.

### HistoryStore

State: `file` is what `history.json` names for a reader, `entries` what the
directory may name on the disk; `temp` is each writer's temporary file, `mu` the
repository's mutex; `pc`, `asked` and `items` are where a call is, what it was
called for and what it is going to write. A file has its records, whether it is
whole and whether it was synced. `since` is history: for an acknowledged record
the number of appends since.

| code | actions |
|---|---|
| `Append`, `Clear` and their `mu.Lock` | `Call`, `Lock` |
| `loadLocked`, and what `Append` makes of it | `Load` |
| `writeAtomic`: directory and `CreateTemp`; `Chmod` and `Write`; `Sync` and `Close`; `renameFile`; opening and syncing the directory | `Create`; `Write`; `Sync`; `Rename`; `Settle` |
| an error at any of them; the deferred `Remove` and `Unlock` | `Fails`, `Return` |
| the process dying; the power going | `Die`; `LosePower` |

What a file system does is external: a rename is atomic; what was not synced may
be lost; until the directory was synced any file it named since its last sync
may be the one found. A missing file reads as an empty history and is one here.
A record is a model value. `DirSync` says whether the system can sync
directories; where it cannot (`EINVAL`) `writeAtomic` reports success all the
same. `RuntimeStateRepository.Update` and the audit's updates have the same
order: lock, load, change, `writeAtomic`. `Load` of the history changes nothing.

### Properties of HistoryStore

* `TypeOK`, which bounds every file that may be found by `MaxRecords`.
* `AcknowledgedFound`: an acknowledged record is found, whole, by every reader and
  after every loss of power, until the history is cleared or `MaxRecords` later
  appends have taken effect. For systems that sync directories.
* `KeepsLog`: the refinement of `DurableLog`: an update takes effect in one
  instant, at its rename, on the document as it is then, or not at all; what is
  found after a death is the last document, and after a loss of power one that
  was there since the last acknowledgement.

They are proved, and none of the runs below has them: what TLC can say of two
callers and two records the theorems say of all. `HistoryStore_history.cfg` is
the instance on which TLC agreed with all three (75,469 states); it has a failure,
a death or a loss of power after another, and calls that fill, displace and clear
a history of two.

### Planner, Simulator, UsagePayload, Calculations

These have no state. A local date is the sequence of its minutes, each the wall
minute that it shows, so that a clock put forward leaves some out and one put
back shows some twice; instants are ticks, `Grain` to the minute. `PlanDay`,
`Run` (of the simulator) and `ParseSnapshot` follow the code's order: cursors
over sorted intervals, budgets carried from period to period, bounds sorted and
made unique. What the simulator sorts is a set until `InOrder` lists it; its
loops are functions of how many elements they have taken (`Joined`, `Spent`,
`Segments`, `Marking`). An interval that comes twice makes no difference, since
the code joins it with itself; occurrences that share account and instant remain
different elements, and each has its marker. `Calculations` has one question and
one answer:

| code | action |
|---|---|
| `Runtime.Simulate` with the account and window it assumes for a draft | `AnswerPreview` |
| `UpdateSchedule`'s validation, then planning | `AnswerUpdate` |
| `refreshOwner` on an answer of the upstream | `AnswerUsage` |

Abstractions. The hash that orders the accounts of a slot (SHA-256 of the date,
the slot and the account) is the constant `Hash`, any function of slot and
account, with ties; accounts are numbers in the order of their keys (`Accounts`);
a workday is a flag of the question; the spellings of a payload's fields are one
field each; times are whole numbers. `UsagePayload` begins with the windows that
`collectWindowCandidates` (`parse.go:112-167`) has collected: it drops, without
an error, a window without a duration under an unknown key and one that comes a
second time under another alias, and "every window" below is every window
collected. What Go's `time.Date` makes of the midnights of a date is `Charts` of
the question, external: the first instant of the charts may lie before or after
the first minute of the date, and their last likewise. `IsDate` says what the zones of the world
make of a date: a minute that comes for the first time comes in order.

### Properties of Calculations

* `PlannedWhereAllowed`: a planned instant shows an allowed minute of its
  preheat window. Dates that repeat an hour are exempt, see Known limits.
* `PlanComplete`: what validation lets pass can be planned; every account has
  one occurrence per anchor, missed exactly when no allowed minute is shown (on
  dates that show their last minute, see Known limits).
* `PlanStaggered`: between any two accounts of a slot lies an equal share of its
  allowed time, rounded down to the tick: with `n` accounts in `T` ticks, fewer
  than `T / n` less one never, and so no two at one instant unless there are fewer
  ticks than accounts. The division that places an account drops a fraction, so
  without the rounding it is false when `n` does not divide `T`.
* `CoverageByCycle`: in each cycle the simulator covers exactly the first ticks
  of work up to one budget, and counts them right.
* `ChartsAgree`: both charts divide the time between the two midnights that the
  code takes for the date's, without gap or overlap, show of every tick what was
  counted, and have as many points for an account at an instant as the plan has
  occurrences there. Work and cycles count as far as they lie in that time: on
  dates without one of their midnights it is not that of the date (see Known
  limits).

The work of the references (`WorkTicks`) is that of the calendar, except on dates
that repeat a minute or leave their last one out: there it is what the planner
makes of the periods (see Known limits).

* `SnapshotWhole`: the windows collected from a usage answer are all reported or
  the answer is refused; they have
  whole percentages and the short one first.
* `PercentsAreFractions` is what a test says of percentages, and is violated.

## Runs

| run | instance | shows |
|---|---|---|
| `day` | two accounts due at one instant, ok/lost/kept writes, a crash or shutdown | the invariants of `Scheduler`, `ClaimsSelected`, the refinement |
| `live` | one account, ok/lost/kept writes, a crash or shutdown | both liveness properties |
| `window` | two accounts, nothing fails | violation, see Findings |
| `restart` | two accounts, one restart | violation |
| `reset` | 3 calls, 1 key, 2 accounts | types, one consume per use, truthful outcomes, the refinement |
| `resetlive` | 2 calls, 2 keys, 1 account, operator's refresh, fairness | the count is good at the call; the gate; both liveness properties |
| `replay` | 2 calls, 1 key, nothing fails | violation |
| `probes` | 2 callers, 2 accounts, 2 runs, 1 worker, fairness | the invariants of `ManualRun` and both liveness properties |
| `quota` | 1 account, 1 reader, 3 answers, 2 floors, fairness | the properties of `QuotaService` |
| `config` | 2 clients, 1 host thread, 1 job, 2 contents, 2 mishaps, fairness | the properties of `PluginRuntime` |
| `calc` | 3,000 configurations on 6 dates of 12 minutes and 4 whose charts are shifted, 5,700 payloads | the properties of `Calculations` |
| `onepercent` | the same questions | violation |

Bounds of `Scheduler`. Two occurrences of two accounts, planned at instant 2 on day 0 (or, in
the second configuration, the first account alone at 3; the third configuration
is disabled); midnight is at 4 and the clock stops at 5, with every timer but
midnight's due then: both occurrences, their compensations and a midnight with
a compensation across it fit. One failed write or read, one configuration
change and one crash or shutdown per behaviour (`MaxFaults`, `MaxUpdates`,
`MaxStops`), in `day` and in `live`: each hazard listed needs one or two of them
in an order the run is free to choose, except a result whose retried write fails
again. For that, and for any other number of failures, there are the theorems
(`ResultsTimed`, `OwedRunsTimed`). `CHECK_DEADLOCK FALSE` because time is bounded and a stopped process
may stay down.

Bounds of `ResetQuota`. Three callers are an owner, one that joins it and one
that comes late; a third key or account adds no interaction, since calls meet
only in a key or in an account. `reset` has one key and two accounts (conflicts
of accounts), `resetlive` two keys and one account (conflicts of resets). One
credit per account is the case in which a stale count matters. One failed or
half-reported access, one deletion and one crash or shutdown per behaviour, as
above; the theorems have none of these bounds. `CHECK_DEADLOCK FALSE` because
calls are bounded and a stopped process may stay down.

Bounds of `ManualRun`. Two callers race for the installation; two runs let a
second follow a first that was cancelled or drained; one worker for two accounts
(the code has three workers) leaves an account to be dispatched late or skipped;
two preheats or resets meet a run on both of its accounts. The theorems have
none of these bounds. `CHECK_DEADLOCK FALSE` because requests are
bounded and a stopped runtime does nothing more.

Bounds of `QuotaService`. Holds and caches of different accounts do not meet, so
one account; the preheat and one reader share or replace refreshes, of which
there are at most three (one that proves a hold, one that was begun before a
clear, one that ends the hold), with one clear, one restart and one failed read
or write. The three answers have a low, a middling and no long window; of the
two floors the middling one is above one and below the other. Staleness is two
ticks of three. `CHECK_DEADLOCK FALSE` because refreshes are bounded.

Bounds of `PluginRuntime`. Two clients race for one revision; two lives are an
initialisation and its replacement or shutdown. A second host thread would only
wait at the lock for the first. Two mishaps, of any of the kinds failed or
half-reported save, failed load, failed reconciliation, death and damage, put
one into the recovery from another. `CHECK_DEADLOCK FALSE` because revisions and
lives are bounded. The theorems have none of these bounds.

Bounds of `Calculations`. A date of twelve minutes holds two work periods with a
break, blackouts before and over the preheat window, cycles that cross breaks,
the end of work and the end of the date, and a minute left out (the last one too)
or repeated, inside or outside of the window. Four dates have charts that begin
before or after the date's first minute, or end before or after its last. Four ticks to the minute let two accounts share
a minute, and three do not divide it. Hashes tie in some slots and order the
accounts differently in others. Payloads have up to two windows with every kind of field: absent,
malformed, zero, fraction, percentage, out of range. `CHECK_DEADLOCK FALSE`
because an answered question is the end.

Fairness (`live`). Time passes and a due timer's callback runs (the Go
runtime). The owner's channel is first in first out and an idle owner blocks on
nothing else, so a command that waits again and again is taken: strong fairness
per timer and for Reconcile. A handler that has begun goes on: refreshes and
requests have timeouts. Faults are bounded, which stands for "failures do not
last for ever". No fairness for the operator or the process.

Fairness (`resetlive`). Weak fairness of each call, each refresh, and the two
waits of Stop: goroutines run, the host answers, and a write lock and a wait
group are granted once nobody holds them. No fairness for new calls, Stop,
Start, faults or crashes.

Fairness (`probes`). Weak fairness of the dispatcher of each run, of the
worker of each account, of whoever else holds an account (their requests have
timeouts) and of the steps of Stop: goroutines run, and nothing a worker does
waits for another account. No fairness for callers, cancellations or Stop's
being called.

Fairness (`quota`). Weak fairness of the end of each refresh (the host answers
or its timeout does) and of each step of a preheat. None for readers,
operators, the clock or restarts.

Fairness (`config`). Weak fairness of the steps of calls that have begun, of
lifecycle calls and of background work; strong fairness of taking `configMu`,
because Go's mutex hands itself to whoever has waited a millisecond. A job ends
in the end once the Runtime stops: its requests fail from then on. None for new
calls, jobs, mishaps.

## Findings

Four statements of the repository that the code does not keep, each a run with
`expect: violation`:

1. `window`: CONTEXT.md calls an occurrence missed when its window *elapsed*;
   the reconciliation at the end of one account's handler misses a sibling whose
   timer has just gone off (`scheduler.go:402`).
2. `restart`: ADR-0015 keeps "the next normal occurrence" eligible after a
   restart; `Start` marks all planned occurrences missed, those of the whole
   seven-day horizon included, and they are not planned again. The documents
   disagree with each other: the design (spec:183) says what the code does.
3. `replay`: the design returns the stored outcome for a reused key; a second
   call with the key that looks for the flight too early and for the record late
   enough takes the first call's record for an orphan and overwrites its final
   outcome with unknown (`reset.go:68`). No second credit is spent
   (`ConsumesBounded`), but the known outcome is lost.
4. `onepercent`: a test takes fractions and percentages of one usage to be
   equivalent; a `used_percent` of 1 is read as the fraction 1 and reported as
   an exhausted window (`parse.go:258`).

## Known limits

Met while modelling, and not runs of their own:

* A compensation pending at local midnight is dropped as `selection_removed`
  (`scheduler.go:438`), although the design (spec:205) grants one while account
  and schedule are eligible. `KeepsLifecycle` allows both.
* A restart whose recovery succeeds and whose first reconciliation fails to
  write leaves the process without a retry and without a midnight timer
  (`scheduler.go:285-287`, `runtime.go:269-271`). The next runs that the
  predecessor planned are still shown; nothing starts or withdraws them until the
  operator changes the schedule or the process starts again. `HorizonAlive` and
  `NextRunHonoured` speak of processes that have reconciled once.
* The comment at `scheduler.go:477` says that an occurrence is running only after
  its terminal write failed. `writeAtomic` may fail after the rename: a claim that
  reports such an error is in force, no request follows, and the occurrence stays
  "running" until the next start. `RunningHasResult` and `RunningSettles` name
  this exception.
* `decide` (`quota/service.go:405-420`) sends under a standing hold when a fresh
  snapshot has no long window. CONTEXT.md:119-121, the design (spec:196, 301, 507)
  and ADR-0014 let the hold block preheats until a refresh proves recovery, which
  such a snapshot does not; the hold itself stands (`HoldEndsByLaterSnapshot`).
  `HoldBlocksUnproved` leaves this case out, since the code does not keep it.
* On a date without its own midnight, or before one without it (America/Santiago,
  America/Havana, in some years America/Sao_Paulo), Go's `time.Date` gives 23:00
  of the day before, or east of Greenwich 01:00, and of a midnight that comes
  twice one of the two. The simulator's charts and metrics
  (`simulate/service.go:40-41`) then begin or end an hour off: an hour of another
  date is drawn, or one of this date is not, and work and runs in it do not count.
  `CoverageByCycle` and `ChartsAgree` speak of the time the code takes; such dates
  are in the run.
* A failed write of the startup recovery leaves `startErr` for the life of the
  process and running entries and old next runs in the file; the next start
  repairs them.
* A compensation five minutes later is not checked against blackouts
  (CONTEXT.md:143-144).
* On a date whose last hour is left out (in the zone America/Nuuk, a Saturday in
  March) `resolveWallInterval` finds no minute after a period that ends in that
  hour and gives the whole period up, although its comment (`local_time.go:89`)
  says that the valid portion before the gap is preserved. `PlanComplete` claims
  nothing of what such a date misses.
* On a date that repeats an hour a blackout covers the first showing of its
  minutes only, so an instant may lie in the second; `PlannedWhereAllowed` leaves
  such dates out.
* "Enabling requires at least one Scheduled Account" (spec:161) is not validated:
  an enabled schedule without accounts is accepted and plans nothing.
* Only `Evaluate` establishes a hold. A low snapshot that the panel, a probe or
  the refresh after a request brings establishes none until a preheat evaluates
  it, and a clear between a preheat's refresh and its evaluation makes it fail
  open.
* `ClearHistory` and `ClearResetAudit` clear the store's error code while
  `config.json` is still corrupt (spec:331).
* A save of the configuration that fails after its rename leaves the file one
  revision ahead of memory until the next update or restart.
* Where a write has reported an error after its rename (`kept`), or the system
  cannot sync directories, a loss of power may bring the old document back
  (`DurableLog`'s `perhaps`). The other models let a crash leave the new one.
* Occurrences are never deleted from `runtime-state.json` (`scheduler.go:413`):
  every day adds entries, and every transaction rewrites them all.
* A temporary file outlives the process that dies in a write; nothing reads or
  removes it. `MkdirAll` does not sync the directory's parent, so a loss of power
  soon after the very first write may take the whole directory.
* An answer of 5xx to a reset is recorded as failed; a gateway's may hide a
  credit that was taken. That is the assumption about the upstream in
  `ResetQuota`.

## Proofs

### Scheduler

`SchedulerProofs` assumes `SchedulerAssumption` (types of the constants) and
nothing of the bounds, the plan or the outcomes of writes.

* `TypeCorrect == Spec => []TypeOK`. `TypeOK` is inductive; the lemmas before it
  give the type of each helper, then of each handler.
* `AtMostOneRequest == Spec => []RequestsBounded`. `RequestsBounded` says nothing
  of why a sent occurrence is not claimed again. `RequestAccounting` does: an
  entry that is absent or planned has sent nothing (`EntriesAccounted`), an entry
  with a compensation due has sent its preheat and nothing else, a handler past
  its claim still owes exactly its own request (`OwnerAccounted`), and a result
  in memory is final (`ResultsFinal`). Most steps are `Calm`: they reopen no
  entry and set no compensation; the lemmas `CalmUpdate`, `CalmReconcile` and
  `CalmTerminal` say so of the write, the reconciliation and the terminal write,
  for all three outcomes. What is left are the two claims, the request and its
  return. TLC checked `RequestAccounting` on the `day` instance, with `kept` writes, first.

It also proves `LifecycleKept == Spec => KeepsLifecycle`. To the
account of the requests it adds that an entry with a due time belongs to a
preheat without a compensation (`EntriesWellFormed`) and that a handler finds
the entry it has claimed as it left it (`ClaimInForce`), because only the owner
goroutine writes entries. Every step but the two sends then leaves each
occurrence where it is or takes it one stage on (`Advances`). It needs no
assumption on the writes: for those that report an error after they took effect
it says more than the run does.

And it proves `ClaimsFollow == Spec => ClaimsSelected`, from `Followed`: unless
a Reconcile waits for the owner, the owner's configuration is the saved one or
none at all, the latter after a startup that failed; and from the steps that
claim nothing (`NoneClaimed`), which are all but two.

It proves `HorizonKept == Spec => []HorizonAlive`, and `RunningAnsweredFor` and
`ResultsTimed` for `RunningHasResult` and `PendingResultHasTimer`, all for any
end of any number of writes. The last two are not inductive; `AnswersInv` is:
the occurrence a handler works on is running (`OwnerRuns`), one whose result
waits in memory is past its claim (`OwedClosed`), and so is that of a
compensation about to be claimed (`EligibleFree`); a process that is down has no
results (`DownOwesNothing`); whatever runs has a result, a handler or a claim
that was misreported (`RunningAnswered`); and a result that is not saved has its
timer (`OwedTimed`, of `Unsaved`). That a running occurrence keeps the timer over
a reconciliation, which goes by the entries and not by `pendingTerminal`, is what
the entry and the result together give. `WriteEffect` says of each write what it
did: all, nothing, or all with an error and a note in `misreported`.

`OwedRunsTimed` proves `TimerCoverage` from one assumption, `PlansInTime`, which
is about the model's clock and not about the code: `MaxTime`, the last instant,
stands for every later one, so no plan lies beyond it (at `MaxTime` every timer
but midnight's may go off, and a plan beyond would lose its timer early).
`TimerCoverage` speaks of an owner at rest and is not inductive; `Coverage` speaks
of every state and is, together with `AnswersInv`. A callback that is on its way
carries a timer that is due (`CallbacksDue`), so taking it costs no occurrence
the timer it still waits for. What is planned (`Planned`) has its timer, or is
misreported while another reconciliation is to come (`PlannedTimed`). While
nothing else will reconcile (`Backed`: the retry is armed, a handler is about to,
or the failure was reported), a compensation that is owed (`Waits`) has the timer
that repeats the write, or one that stands for a run which the present
configuration selects and whose due time is the entry's (`WaitTimed`): that is
what lets a handler consume it only to claim it. And between the two looks of the
handler of a compensation nothing changes its mind (`EligibleWaits`).
`ReconcileCoverage` is the heart: after a reconciliation that was saved every
entry has its timer again, whatever it was before.

Model-checked only: liveness (fairness is out of the prover's reach).

### ResetQuota

`ResetProofs` assumes `ResetAssumption`: the null value is no
caller, key or account, and a write ends in one of the three ways. Any number of
callers, keys and accounts, and any bounds.

* `ResetTypeCorrect == Spec => []TypeOK`, from `Inv`: `TypeOK`, `CallsFit` (a
  call that has begun has a key and an account, and an outcome once it is to be
  settled) and `OwnersAgree` (a flight and the call that owns it point at each
  other). `OwnersAgree` is what makes "one flight per key" usable: two calls
  past the commit point have two keys. `MoveKeeps` and `ReplaceKeeps` carry it
  for the moves that leave flights alone; `BeginFlight`, `FinishFlight` and
  `DeliverFetch` have their own lemmas.
* `GateHolds == Spec => NoConsumeAfterGate`, from `GateClosed`: past the gate no
  call is in its consume call. `EnterConsume` is the only step that could bring
  one there, and by then it finds the runtime stopped.
* `PromiseKept == Spec => KeepsPromise`. The per-action lemmas of `ResetProofs`
  also say that the step lets no call past the commit point (`NoNewIntent`), so
  that all steps but two shrink `Intended` and, deletions aside, `Free`; these
  are `GiveUp`. A successful append is `Intend`, a call that was sent `Spend`,
  a deletion `Forget`.
* `OneConsumePerRecord == Spec => []ConsumesBounded`. `ConsumesBounded` is not
  inductive; `Accounted` is: calls made with a key, and the one it may still
  make, are covered by its deletions and its record. It is proved over the steps
  of `CreditOnce` only, by way of the refinement.
* `OutcomesAreTrue == Spec => []OutcomeTruthful`, from `Truth`: whatever is said
  of a key, by its record or by a call, is backed by what the upstream did, and
  a key has taken no more credits than it has sent calls. "Failed" is backed by
  more than "no credit taken": by the one call the key has sent, since by
  `Accounted` a key with undeleted evidence sends no second one. All steps but
  one only repeat what is said or say nothing (`Repeats`); the step that has
  news is `ConsumeReturns`, whose key has an intention and so, without a
  deletion, has sent nothing before.
* `CreditAtConsume == Spec => ConsumesAvailableCredit`, from `Provision`: owners
  of flights have different accounts (`OwnersApart`), a call past its refresh
  has a credit (`CreditThere`), and an answer that promises a credit that is
  gone (`Stale`) either has the call that took the credit waiting for it, which
  keeps the account to itself, or comes after Stop has shut out new flights
  (`NewsFresh`). The second case is real: a stopped call leaves the operator's
  refresh with its stale answer behind.

TLC checked `Inv`, `GateClosed` and `Accounted` on a small instance first.
Model-checked only: liveness.

### ManualRun

`ManualProofs` assumes `ManualAssumption`: accounts are finite in number, the
null value and the two kinds of other holders are no run ids, and there is a
worker. Lemmas say of each action what it does to the runs (`Moves`: one account
of one run comes to another stage).

* `ManualTypeCorrect == Spec => []TypeOK`; `TypeOK` is inductive.
* `OneRunAtATime == Spec => []OneActiveRun`, from `RunInv`: one active run, an
  account under way only in an active run, and none of either after Stop.
* `SingleFlight == Spec => []BusyExact`, from `Exclusive`: an account is busy iff
  somebody holds it, and its holders are equal. `BusyExact` counts the holders;
  `Exclusive` says the same without a cardinality and is inductive.
* `NothingAfterStop == Spec => []QuietAfterStop`, from the two.
* `ProgressAddsUp == Spec => []ProgressExact`, from `Counted`: `completed` is the
  number of accounts done or skipped, at every moment. `SkipRest` adds a set
  disjoint from it; with `RunInv` a run that is no longer active has no others.

Model-checked only: liveness.

### QuotaService

`QuotaProofs` assumes `QuotaAssumption`: types, and that accounts, readers and
the null value differ. Any answers, floors and outcomes of writes.

* `QuotaTypeCorrect == Spec => []TypeOK`.
* `ClearedStaysUntrusted == Spec => []ClearedNotTrusted`, inductive with the
  types: a new snapshot has the present epoch, an old one comes back by `Fail`.
* `HoldEndsLater` and `HoldBlocks`, from `HoldInv`: a preheat works on its
  own account (`OwnTargets`); while a flight is under way nothing in cache, view
  or hold bears its number yet (`AllNumbered`); hence what a preheat gets of a
  flight it has waited for, in the cache or in its view, is later than the hold,
  or an error (`LaterThanHold`).

Model-checked only: `RefreshesAnswered`.

### PluginRuntime

`PluginProofs` assumes `PluginAssumption`. Any clients, threads, jobs, contents
and mishaps.

* `PluginTypeCorrect == Spec => []TypeOK` and
  `PluginQuiet == Spec => []QuietOutsideLife`, from `Ordered`: an update in
  progress holds `configMu` and the slot's read side (`CallsOrdered`), a
  lifecycle call past its announcement is the writer and, once drained, alone
  (`LifeOrdered`).
* `PluginKeepsRegister == Spec => KeepsRegister`, from `Lineage`: revision
  numbers stand for schedules. `NotAfter` says of two schedules that the first
  has the smaller number or is the second. A reading that stems from the present
  file is not after the schedule in force nor the file (`ReadLineage`), the
  schedule in force is not after the file (`FileLineage`), and an update between
  its save and its swap finds its own content in the file (`UpdateLineage`).
  Hence equal revisions under `configMu` mean that the author has read what is
  replaced.

Model-checked only: `CallsReturn`.

### Calculations

`CalculationProofs` assumes `PlannerAssumption` (any length of a date, any
grain, any accounts, any hash), `PreviewAssumption` and `QuestionsAssumption`
(the questions are typed: any configuration, valid or not, any `IsDate`, any
payload). `Answered`, the only invariant of `Calculations`, says that an answer is
what the operators give for the question; the theorems are what the operators
give. Sequences are finite but of any length, so the lemmas are inductions over
their indices. The library's induction theorems take an operator and cannot be
used; `SetInduction` has a set in its place and follows from the well-foundedness
of the order on `Nat` (`WFMin`), `RangeInduction` is its form for `0 .. n`, and
`RecursiveFunction` derives from it that a function which is defined by its
predecessor exists. All recursion in `Planner` is by such functions.

* `PlansStaggered`, `PlansComplete` and `PlansWhereAllowed`, along these lemmas:
  * `SubtractLeaves`: the pass over the sorted blackouts leaves exactly the
    minutes outside them, in periods apart. Its loop invariant is `CutSoFar`:
    below the cursor every minute is decided, and no later blackout begins below
    the cursor unless it is still where it started.
  * `OnsetsInOrder`, `InstantsInOrder`: earliest instants of shown minutes are in
    the order of the minutes, also where some are shown twice. Hence
    `IntervalResolved` and `ResolvedPeriods`: what a date makes of periods apart
    is apart, and `ResolvedTick`: on a date that shows no minute twice its ticks
    show minutes of the period. `NothingResolved`: it makes nothing of them only
    when it shows none of their minutes.
  * `OffsetFalls`, `OffsetInstant`, `OffsetsRise`, `OffsetsReach`: offsets into the
    periods laid end to end are in order and one to one with the ticks in them,
    so that `HeldStretch` and `StretchCounted` count the ticks between two
    instants by the difference of their offsets.
  * `SharesSpread`: the arithmetic of `total * (2 * i - 1) / (2 * n)`.
  * `PlacesTaken`: in a strict order of a finite set the numbers of those that
    come before are `0 .. n - 1`, each once. It numbers the slots (`SlotsApart`),
    the accounts of a slot (`AccountsRanked`) and the windows of an answer.
* `SnapshotsWhole`, from `ParsedWindows` (by `PlacesTaken` the windows of an answer
  are a permutation of those asked for, and the first is none longer than the
  others) and `CompleteCounts`.

Nothing of `Calculations` is model-checked only; `PercentsAreFractions` is false.

### Simulator

`SimulatorProofs` extends `CalculationProofs` and its assumptions. Both theorems
speak of every tick of a date or of its chart, so everything is said of the ticks that a list of
periods holds (`Held`), not of the periods.

* `CoverageCounted == Spec => []CoverageByCycle`:
  * `OrderLists`, from `PlacesTaken`: `InOrder` lists a finite set in a strict
    order, each element once.
  * `MergeHolds`: merged periods are apart and hold the ticks of all of them. The
    loop invariant: what is joined so far is apart, holds the ticks of the periods
    taken, and the next one begins no earlier than the last one joined.
  * `UseStep`, `BudgetUsed`: along the periods of work, what is spent of a budget
    is the first ticks of work in the cycle's window (`FirstOf`), and what is left
    of it is the budget less their number.
  * `WholeCycles`, `WindowOfCycle`, `CyclesApart`, `CyclesCover`: the windows are
    the cycles from the anchor that begin before work ends, clipped to the chart,
    and every tick of work is in one of them and no other.
  * `OverlapsHold`, `IdleCounts`: idle time is the number of ticks in the windows
    outside work, never negative.
  * `WorkOfDate`, `AskedWork`: work is that of the calendar. `AnchorOfPlan`: the
    anchor is an instant of the date, never later than the first work.
* `ChartsDrawn == Spec => []ChartsAgree`:
  * `BoundariesCut`: the sorted instants cut the chart (`Cuts`), from its first to
    its last, and no bound of a period lies inside a piece. So all ticks of a piece
    are alike (`PieceAlike`) and its middle, which is one of them
    (`MiddleInside`), decides for all.
  * `StrategyLine`, an induction over the pieces with `LineSo`: the line so far is
    right up to the bound reached and no two neighbours are alike, whether a piece
    prolongs the last segment (`LineProlonged`) or is appended (`LineAppended`).
  * `PreheatLine`, the same with `ChartSo` and `Marks`: a function from the points
    so far to the occurrences planned so far, one to one and onto, which
    keeps account and instant. `MarksContinued` joins two such functions; two
    bounds have different occurrences since bounds rise. `PointsCounted` turns
    the one that is left at the end into the equality of cardinalities.
  * `PlanMarked`: the occurrences that the chart marks are those not missed, all
    inside the chart and told apart by account and slot.

### HistoryStore

The theorems of `StoreProofs` have the hypothesis `StoreAssumption`: the null value, "clear" and "made" are no
records, and the bound is a natural number, also 0. Any callers, records, bounds,
with and without `DirSync`.

All three rest on `Inv`, which `StoreInvariant` states of every behaviour: whoever
is past the mutex holds it (`Held`); what he is about to write is what his update
makes of the present file (`Prepared`), because nobody else is there to change it
(`Alone`); his temporary file has it, whole when written and synced when it is to
be renamed (`Filled`); hence every file the disk may name is whole and synced
(`Whole`).

* `StoreTypeCorrect == Spec => []TypeOK`.
* `AcknowledgedSurvives == Spec => []AcknowledgedFound`. That a record is somewhere
  in a file does not survive an append; `Durable` does, which says how near to the
  end it is (`Near`): an append moves it by one at most (`ResultKept`, from
  `RecentKept`, on what is left of a sequence when its head is dropped), and a
  record just appended is the last (`JustMade`).
* `LogKept == Spec => KeepsLog`. `Rename` is `Make`, the last step `Acknowledge`, an
  error `Fail`; every other step of a call is a stutter (`GoesUnseen`). A loss of
  power finds a file as it was written (`FoundAgain`, from `Whole`).

Neither checked nor proved: that every call returns, for which the mutex and the
file system would have to be fair.

## Not modelled

* Probe client and SSE decoding: one request and one pass over the lines of its
  answer, without state between calls; its outcome is a free choice elsewhere.
* Account discovery: a stateless projection of the host's auth files, whose
  answer is a free choice elsewhere.
* The web panel: rendering and the operator's draft in one page. What reaches
  the plugin is a `Client` of `PluginRuntime` and a `Caller` of `ResetQuota`.
* The management router beyond `/schedule`, and the marshalling between C and
  Go: no state of their own.
