------------------------------ MODULE Scheduler ------------------------------
(***************************************************************************)
(* The preheat scheduler (internal/schedule/scheduler.go): one owner       *)
(* goroutine takes commands from timers and from Reconcile callers, keeps  *)
(* the durable occurrence state of runtime-state.json, and calls the       *)
(* Runtime's executor for the one preheat request and the at most one      *)
(* compensation request of an occurrence.                                  *)
(*                                                                         *)
(* An occurrence is a stable identity (local date, period, account).  Time *)
(* is a natural number of ticks from 1; 0 is Go's zero time.Time, "not     *)
(* set".  A step is what one handler does between two points at which      *)
(* another goroutine, the file system, the clock or a crash can intervene: *)
(* every RuntimeStateRepository.Update is one transaction, so one step.    *)
(***************************************************************************)
EXTENDS Integers, FiniteSets

CONSTANTS
  Account,       \* Codex accounts
  Occ,           \* occurrence identities
  NoOcc,         \* the "id" of the two timers that belong to no occurrence
  AccountOf,     \* the account of an occurrence
  DateOf,        \* the local date of an occurrence
  Configs,       \* the configurations an operator may save
  DayLength,     \* ticks of a local day
  HorizonDays,   \* schedulerHorizonDays
  RetryDelay,    \* schedulerRetryDelay, in ticks
  CompDelay,     \* the five minutes before a compensation, in ticks
  WriteOutcomes, \* how a write of runtime-state.json may end
  MaxTime,       \* bound: the last instant; it stands for every later one
  MaxFaults,     \* bound: failed reads and writes of a behaviour
  MaxUpdates,    \* bound: configuration changes of a behaviour
  MaxStops       \* bound: crashes and shutdowns of a behaviour

Kind == {"occurrence", "compensation"}
Status == {"absent", "planned", "running", "succeeded", "failed", "skipped", "missed"}

Config == [enabled : BOOLEAN, selected : SUBSET Account, plan : [Occ -> Nat]]

ASSUME SchedulerAssumption ==
  /\ NoOcc \notin Occ
  /\ AccountOf \in [Occ -> Account]
  /\ DateOf \in [Occ -> Nat]
  /\ Configs \subseteq Config
  /\ DayLength \in Nat \ {0}
  /\ HorizonDays \in Nat
  /\ RetryDelay \in Nat \ {0}
  /\ CompDelay \in Nat \ {0}
  /\ WriteOutcomes \subseteq {"ok", "lost", "kept"}
  /\ {MaxTime, MaxFaults, MaxUpdates, MaxStops} \subseteq Nat

OccurrenceTimer(o) == <<"occurrence", o>>
CompensationTimer(o) == <<"compensation", o>>
MidnightTimer == <<"midnight", NoOcc>>
ReconcileRetryTimer == <<"reconcile", NoOcc>>
TimerId == (Kind \X Occ) \cup {MidnightTimer, ReconcileRetryTimer}

VARIABLES
  now,              \* the clock
  phase,            \* the scheduler process: "down", "up" or "stopping"
  startErr,         \* the startup recovery failed: Reconcile refuses for good
  rtConfig,         \* Runtime.config, the configuration that was saved
  config,           \* Scheduler.config, the configuration the owner last took
  reconcilePending, \* a Reconcile caller waits for the owner
  occurrences,      \* durable: RuntimeState.Occurrences
  nextRuns,         \* durable: RuntimeState.NextRuns, 0 when there is no entry
  timerDue,         \* Scheduler.timers and timerDue, 0 when there is no timer
  inbox,            \* callbacks of fired timers that the owner has not taken
  pendingTerminal,  \* Scheduler.pendingTerminal, kind "none" when no entry
  owner,            \* where the owner goroutine is inside a handler
  requests,         \* history: requests sent for an occurrence, by kind
  applied,          \* history: since the last Reconcile a reconciliation succeeded
  reconciled,       \* history: a reconciliation of this process has succeeded
  misreported,      \* history: what writes of this process that reported an
                    \* error have made of an occurrence, as <<id, status>>
  spent             \* what is spent of the bounds

process == <<phase, startErr, rtConfig, config, reconcilePending>>
durable == <<occurrences, nextRuns, misreported>>
history == <<requests, applied, reconciled>>
vars == <<now, phase, startErr, rtConfig, config, reconcilePending, occurrences,
          nextRuns, timerDue, inbox, pendingTerminal, owner, requests, applied, reconciled,
          misreported, spent>>

OccurrenceState == [status : Status, plannedAt : Nat, dueAt : Nat, attempted : BOOLEAN]
PendingTerminal == [kind : Kind \cup {"none"}, status : Status]
OwnerState == [pc : {"idle", "eligibility", "claimed", "admitted", "probing",
                     "finishing", "reconciling"},
               kind : Kind, occ : Occ \cup {NoOcc}, at : Nat, status : Status]

NoConfig == [enabled |-> FALSE, selected |-> {}, plan |-> [o \in Occ |-> 0]]
NoPending == [kind |-> "none", status |-> "absent"]
Absent == [status |-> "absent", plannedAt |-> 0, dueAt |-> 0, attempted |-> FALSE]
Idle == [pc |-> "idle", kind |-> "occurrence", occ |-> NoOcc, at |-> 0, status |-> "absent"]

TypeOK ==
  /\ now \in Nat
  /\ phase \in {"down", "up", "stopping"}
  /\ startErr \in BOOLEAN
  /\ rtConfig \in Configs
  /\ config \in Configs \cup {NoConfig}
  /\ reconcilePending \in BOOLEAN
  /\ occurrences \in [Occ -> OccurrenceState]
  /\ nextRuns \in [Occ -> Nat]
  /\ timerDue \in [TimerId -> Nat]
  /\ inbox \subseteq [timer : TimerId, current : BOOLEAN]
  /\ pendingTerminal \in [Occ -> PendingTerminal]
  /\ owner \in OwnerState
  /\ requests \in [Occ -> [Kind -> Nat]]
  /\ applied \in BOOLEAN /\ reconciled \in BOOLEAN
  /\ misreported \subseteq Occ \X Status
  /\ spent \in [faults : Nat, updates : Nat, stops : Nat]

Init ==
  /\ now = 1
  /\ phase = "down"
  /\ startErr = FALSE
  /\ rtConfig \in Configs
  /\ config = NoConfig
  /\ reconcilePending = FALSE
  /\ occurrences = [o \in Occ |-> Absent]
  /\ nextRuns = [o \in Occ |-> 0]
  /\ timerDue = [t \in TimerId |-> 0]
  /\ inbox = {}
  /\ pendingTerminal = [o \in Occ |-> NoPending]
  /\ owner = Idle
  /\ requests = [o \in Occ |-> [k \in Kind |-> 0]]
  /\ applied = FALSE /\ reconciled = FALSE
  /\ misreported = {}
  /\ spent = [faults |-> 0, updates |-> 0, stops |-> 0]

-----------------------------------------------------------------------------
(***************************************************************************)
(* The durable store.  writeAtomic may fail before the rename ("lost": the *)
(* old document stays) or after it ("kept": an error is reported although  *)
(* the new document is in place).                                          *)
(***************************************************************************)
Spend(out) ==
  /\ out # "ok" => spent.faults < MaxFaults
  /\ spent' = IF out = "ok" THEN spent ELSE [spent EXCEPT !.faults = @ + 1]

Scheduled(e, run) == <<e.status, e.plannedAt, run>>

Update(out, entries, runs) ==
  /\ Spend(out)
  /\ misreported' = misreported \cup
       {<<o, entries[o].status>> : o \in {q \in Occ :
          out = "kept" /\ Scheduled(entries[q], runs[q]) # Scheduled(occurrences[q], nextRuns[q])}}
  /\ occurrences' = IF out = "lost" THEN occurrences ELSE entries
  /\ nextRuns' = IF out = "lost" THEN nextRuns ELSE runs

(***************************************************************************)
(* Timers.  The generation counter of a timer is bumped by every stop and  *)
(* every replacement; what matters of it is whether a callback under way   *)
(* carries the current generation.  Callbacks run in goroutines of their   *)
(* own and race to the channel, so the inbox is a set.                     *)
(***************************************************************************)
Without(taken) == [t \in TimerId |-> IF \E c \in taken : c.timer = t THEN 0 ELSE timerDue[t]]

SetTimers(taken, due) ==
  LET bumped == {t \in TimerId : due[t] # timerDue[t]} \cup {c.timer : c \in taken}
  IN  /\ timerDue' = due
      /\ inbox' = {[c EXCEPT !.current = @ /\ c.timer \notin bumped] : c \in inbox \ taken}

\* Mutant: the generation of the callback is not compared.
ConsumeAnyTimer(c) == timerDue[c.timer] # 0

ConsumeTimer(c) == c.current /\ timerDue[c.timer] # 0

RetryTimer(due, t, at) == IF phase = "up" THEN [due EXCEPT ![t] = at + RetryDelay] ELSE due

ScheduleReconcileRetry(due) ==
  IF due[ReconcileRetryTimer] > now THEN due ELSE RetryTimer(due, ReconcileRetryTimer, now)

Today(t) == t \div DayLength

\* Mutant: the next midnight is taken to be armed already.
KeepMidnight(due) == due

ScheduleMidnight(due) == [due EXCEPT ![MidnightTimer] = (Today(now) + 1) * DayLength]

-----------------------------------------------------------------------------
(***************************************************************************)
(* Reconciliation: what the plan of configuration c makes of the durable   *)
(* entries and of the timers at this instant.                              *)
(***************************************************************************)
Selects(c, o) == c.enabled /\ AccountOf[o] \in c.selected

Desired(c) ==
  {o \in Occ : Selects(c, o) /\ DateOf[o] \in Today(now) .. Today(now) + HorizonDays}

PendingCompensation(e) == e.status = "failed" /\ ~e.attempted /\ e.dueAt # 0

\* Mutant: the reason is written where the status belongs.
MarkReason(e) == [e EXCEPT !.status = "past_due", !.dueAt = 0, !.attempted = FALSE]

MarkMissed(e) == [e EXCEPT !.status = "missed", !.dueAt = 0, !.attempted = FALSE]

\* A planned time that is not in the future is missed; so is one the planner
\* could not place (0).
PlannedEntry(e, at) ==
  IF at <= now THEN MarkMissed([e EXCEPT !.plannedAt = at])
               ELSE [e EXCEPT !.status = "planned", !.plannedAt = at]

ReconciledEntry(c, o) ==
  LET e == occurrences[o]
  IN  CASE o \in Desired(c) /\ e.status \in {"absent", "planned"} -> PlannedEntry(e, c.plan[o])
        [] o \notin Desired(c) /\ PendingCompensation(e) -> MarkMissed(e)
        [] OTHER -> e

ReconciledRun(c, o, e) ==
  CASE o \in Desired(c) /\ e.status = "planned" -> e.plannedAt
    [] o \in Desired(c) /\ PendingCompensation(e) -> e.dueAt
    [] OTHER -> 0

\* Mutant: a running occurrence is taken to need no timer.
ActiveDueUnlessRunning(due, entries, k, o) ==
  LET e == entries[o]
  IN  CASE k = "occurrence" /\ e.status = "planned" /\ e.plannedAt > now -> e.plannedAt
        [] k = "compensation" /\ PendingCompensation(e) -> e.dueAt
        [] OTHER -> 0

\* reconcileTimers: the due time of each occurrence timer, 0 to stop it.
ActiveDue(due, entries, k, o) ==
  LET e == entries[o]
      t == <<k, o>>
  IN  CASE k = "occurrence" /\ e.status = "planned" /\ e.plannedAt > now -> e.plannedAt
        [] k = "compensation" /\ PendingCompensation(e) -> e.dueAt
        [] e.status = "running" /\ pendingTerminal[o].kind = k ->
             IF due[t] # 0 THEN due[t] ELSE RetryTimer(due, t, now)[t]
        [] OTHER -> 0

ReconcileTimers(due, entries) ==
  [t \in TimerId |-> IF t \in Kind \X Occ THEN ActiveDue(due, entries, t[1], t[2]) ELSE due[t]]

\* Mutant: a disabled schedule keeps no timer of an occurrence.
CancelEveryTimer(due) == [t \in TimerId |-> IF t \in Kind \X Occ THEN 0 ELSE due[t]]

\* A disabled schedule keeps only the timers that retry a terminal write.
CancelOccurrenceTimers(due) ==
  [t \in TimerId |-> IF t \in Kind \X Occ /\ pendingTerminal[t[2]].kind # t[1] THEN 0 ELSE due[t]]

ReconciledTimers(c, due, entries) ==
  ScheduleMidnight(IF c.enabled THEN ReconcileTimers(due, entries) ELSE CancelOccurrenceTimers(due))

\* reconcileOwned while the owner handles the callbacks of taken.  onError is
\* what the caller leaves of the timers when the planner or the write fails.
ReconcileOwned(c, out, taken, onError) ==
  LET entries == [o \in Occ |-> ReconciledEntry(c, o)]
      runs == [o \in Occ |-> ReconciledRun(c, o, entries[o])]
  IN  /\ Update(out, entries, runs)
      /\ reconciled' = (out = "ok" \/ reconciled)
      /\ SetTimers(taken, IF out = "ok" THEN ReconciledTimers(c, Without(taken), entries)
                                        ELSE onError)

-----------------------------------------------------------------------------
(***************************************************************************)
(* The environment: the clock, the operator, the process.                  *)
(***************************************************************************)
Tick ==
  /\ now < MaxTime
  /\ now' = now + 1
  /\ UNCHANGED <<process, durable, timerDue, inbox, pendingTerminal, owner, history, spent>>

\* Runtime.UpdateSchedule after validation: the configuration is saved and
\* swapped in, then Reconcile is called and waited for.  configMu admits one
\* caller at a time.  A scheduler whose startup failed refuses at once.
UpdateSchedule ==
  /\ phase = "up" /\ ~reconcilePending
  /\ spent.updates < MaxUpdates
  /\ \E c \in Configs \ {rtConfig} : rtConfig' = c
  /\ reconcilePending' = ~startErr
  /\ spent' = [spent EXCEPT !.updates = @ + 1]
  /\ UNCHANGED <<now, phase, startErr, config, durable, timerDue, inbox, pendingTerminal,
                 owner, history>>

\* Start: whatever a previous process left planned, running or waiting for its
\* compensation is missed.  Runtime.Start then reconciles.
\* Mutants: running work is planned again; running work is left alone.
ResumedEntry(e) ==
  IF e.status = "running" THEN [e EXCEPT !.status = "planned"] ELSE e
RecoveredUnlessRunning(e) ==
  IF e.status = "planned" \/ (~e.attempted /\ e.dueAt # 0) THEN MarkMissed(e) ELSE e

RecoveredEntry(e) ==
  IF e.status \in {"planned", "running"} \/ (~e.attempted /\ e.dueAt # 0) THEN MarkMissed(e) ELSE e

StartScheduler(out) ==
  /\ phase = "down"
  /\ phase' = "up"
  /\ Update(out, [o \in Occ |-> RecoveredEntry(occurrences[o])], nextRuns)
  /\ startErr' = (out # "ok")
  /\ reconcilePending' = (out = "ok")
  /\ UNCHANGED <<now, rtConfig, config, timerDue, inbox, pendingTerminal, owner, history>>

\* The process ends: everything that is not on disk is gone.
ProcessGone ==
  /\ phase' = "down"
  /\ startErr' = FALSE
  /\ config' = NoConfig
  /\ reconcilePending' = FALSE
  /\ timerDue' = [t \in TimerId |-> 0]
  /\ inbox' = {}
  /\ pendingTerminal' = [o \in Occ |-> NoPending]
  /\ owner' = Idle
  /\ applied' = FALSE /\ reconciled' = FALSE
  /\ misreported' = {}
  /\ UNCHANGED <<now, rtConfig, occurrences, nextRuns, requests>>

Crash ==
  /\ phase # "down"
  /\ spent.stops < MaxStops
  /\ spent' = [spent EXCEPT !.stops = @ + 1]
  /\ ProcessGone

\* Scheduler.Stop sets stopping and cancels the context.  Runtime.Stop holds
\* configMu, so no Reconcile caller is waiting.
BeginStop ==
  /\ phase = "up" /\ ~reconcilePending
  /\ spent.stops < MaxStops
  /\ phase' = "stopping"
  /\ spent' = [spent EXCEPT !.stops = @ + 1]
  /\ UNCHANGED <<now, startErr, rtConfig, config, reconcilePending, durable, timerDue, inbox,
                 pendingTerminal, owner, history>>

\* Stop returns once the owner has left its handler and its loop.
StopReturns ==
  /\ phase = "stopping" /\ owner.pc = "idle"
  /\ ProcessGone
  /\ UNCHANGED spent

\* A timer goes off and its callback is on its way to the owner.  At MaxTime
\* every later instant has come, except for midnight.
FireTimer(t) ==
  /\ phase = "up"
  /\ timerDue[t] # 0
  /\ timerDue[t] <= now \/ (now = MaxTime /\ t # MidnightTimer)
  /\ [timer |-> t, current |-> TRUE] \notin inbox
  /\ inbox' = inbox \cup {[timer |-> t, current |-> TRUE]}
  /\ UNCHANGED <<now, process, durable, timerDue, pendingTerminal, owner, history, spent>>

-----------------------------------------------------------------------------
(***************************************************************************)
(* The owner goroutine takes a command.                                    *)
(***************************************************************************)
OwnerTakes(c) == phase = "up" /\ owner.pc = "idle" /\ c \in inbox

HandleReconcile(out) ==
  /\ phase = "up" /\ owner.pc = "idle" /\ reconcilePending
  /\ reconcilePending' = FALSE
  /\ config' = rtConfig
  /\ ReconcileOwned(rtConfig, out, {}, timerDue)
  /\ applied' = (out = "ok")
  /\ UNCHANGED <<now, phase, startErr, rtConfig, pendingTerminal, owner, requests>>

\* A midnight whose reconciliation failed arms the next one all the same.
\* Mutant: it does not.
LoseHorizon(c, due) == due
KeepHorizon(c, due) == IF c.timer = MidnightTimer THEN ScheduleMidnight(due) ELSE due

\* commandMidnight and commandReconcileRetry.
HandleHorizon(c, out) ==
  LET failed == KeepHorizon(c, Without({c}))
  IN  /\ OwnerTakes(c)
      /\ c.timer \in {MidnightTimer, ReconcileRetryTimer}
      /\ ConsumeTimer(c)
      /\ ReconcileOwned(config, out, {c}, ScheduleReconcileRetry(failed))
      /\ applied' = (out = "ok" \/ applied)
      /\ UNCHANGED <<now, process, pendingTerminal, owner, requests>>

\* consumeTimer refuses a callback of a timer stopped or replaced meanwhile.
DropStale(c) ==
  /\ OwnerTakes(c)
  /\ ~ConsumeTimer(c)
  /\ inbox' = inbox \ {c}
  /\ UNCHANGED <<now, process, durable, timerDue, pendingTerminal, owner, history, spent>>

\* What persistTerminal makes of an entry.
TerminalEntry(e, p) ==
  CASE p.kind = "compensation" -> [e EXCEPT !.status = p.status, !.dueAt = 0, !.attempted = TRUE]
    [] p.status # "failed" -> [e EXCEPT !.status = p.status, !.dueAt = 0, !.attempted = FALSE]
    [] OTHER -> [e EXCEPT !.status = p.status]

TerminalRun(e, p) ==
  IF p.kind = "occurrence" /\ PendingCompensation(e) THEN e.dueAt ELSE 0

PersistTerminal(o, p, out) ==
  LET e == TerminalEntry(occurrences[o], p)
  IN  Update(out, [occurrences EXCEPT ![o] = e], [nextRuns EXCEPT ![o] = TerminalRun(e, p)])

\* The retry timer of a terminal write went off: the result is written, the
\* request is not repeated.
RetryTerminal(c, out) ==
  LET o == c.timer[2]
      due == Without({c})
  IN  /\ OwnerTakes(c)
      /\ c.timer \in Kind \X Occ
      /\ ConsumeTimer(c)
      /\ pendingTerminal[o].kind = c.timer[1]
      /\ PersistTerminal(o, pendingTerminal[o], out)
      /\ IF out = "ok"
         THEN /\ pendingTerminal' = [pendingTerminal EXCEPT ![o] = NoPending]
              /\ owner' = [Idle EXCEPT !.pc = "reconciling", !.kind = c.timer[1], !.occ = o]
              /\ SetTimers({c}, due)
         ELSE /\ UNCHANGED <<pendingTerminal, owner>>
              /\ SetTimers({c}, RetryTimer(due, c.timer, now))
      /\ UNCHANGED <<now, process, history>>

\* handleOccurrence: claim a due, owned, selected occurrence.
\* Mutant: the selection is not looked at again.
ClaimableUnselected(o) ==
  LET e == occurrences[o]
  IN  e.status = "planned" /\ e.plannedAt # 0 /\ e.plannedAt <= now /\ nextRuns[o] = e.plannedAt

Claimable(o) ==
  LET e == occurrences[o]
  IN  /\ e.status = "planned"
      /\ e.plannedAt # 0 /\ e.plannedAt <= now
      /\ nextRuns[o] = e.plannedAt
      /\ Selects(config, o)

ClaimOccurrence(c, out) ==
  LET o == c.timer[2]
      due == Without({c})
  IN  /\ OwnerTakes(c)
      /\ c.timer \in {"occurrence"} \X Occ
      /\ ConsumeTimer(c)
      /\ pendingTerminal[o].kind # "occurrence"
      /\ IF Claimable(o)
         THEN Update(out, [occurrences EXCEPT ![o].status = "running"], [nextRuns EXCEPT ![o] = 0])
         ELSE Update(out, occurrences, nextRuns)
      /\ SetTimers({c}, IF out = "ok" THEN due ELSE RetryTimer(due, c.timer, now))
      /\ owner' = IF out = "ok" /\ Claimable(o)
                  THEN [pc |-> "claimed", kind |-> "occurrence", occ |-> o, at |-> now,
                        status |-> "absent"]
                  ELSE owner
      /\ UNCHANGED <<now, process, pendingTerminal, history>>

\* handleCompensation, first look: Load and the conditions of ownership.
CompensationClaimable(o) ==
  LET e == occurrences[o]
  IN  /\ PendingCompensation(e)
      /\ nextRuns[o] = e.dueAt
      /\ Selects(config, o)

LoadCompensation(c, out) ==
  LET o == c.timer[2]
      due == Without({c})
  IN  /\ OwnerTakes(c)
      /\ c.timer \in {"compensation"} \X Occ
      /\ ConsumeTimer(c)
      /\ pendingTerminal[o].kind # "compensation"
      /\ Spend(out)
      /\ SetTimers({c}, IF out = "ok" THEN due ELSE RetryTimer(due, c.timer, now))
      /\ owner' = IF out = "ok" /\ CompensationClaimable(o)
                  THEN [Idle EXCEPT !.pc = "eligibility", !.kind = "compensation", !.occ = o]
                  ELSE owner
      /\ UNCHANGED <<now, process, durable, pendingTerminal, history>>

\* Mutant: the claim does not consume the attempt.
CompensationUnmarked(e, status) == [e EXCEPT !.status = status, !.dueAt = 0]
CompensationClaim(e, status) ==
  [e EXCEPT !.status = status, !.dueAt = 0, !.attempted = TRUE]

\* CompensationEligible answered, from the Runtime's configuration, the host's
\* accounts and the guardrail holds; then the claim, which consumes the attempt
\* whatever the answer is.
ClaimCompensation(eligible, out) ==
  LET o == owner.occ
      status == IF eligible THEN "running" ELSE "skipped"
  IN  /\ owner.pc = "eligibility"
      /\ eligible => Selects(rtConfig, o)
      /\ IF CompensationClaimable(o)
         THEN Update(out, [occurrences EXCEPT ![o] = CompensationClaim(occurrences[o], status)],
                          [nextRuns EXCEPT ![o] = 0])
         ELSE Update(out, occurrences, nextRuns)
      /\ SetTimers({}, IF out = "ok" THEN timerDue
                                     ELSE RetryTimer(timerDue, CompensationTimer(o), now))
      /\ owner' = CASE out = "ok" /\ ~eligible -> [owner EXCEPT !.pc = "reconciling"]
                    [] out = "ok" /\ eligible /\ CompensationClaimable(o) ->
                         [owner EXCEPT !.pc = "claimed"]
                    [] OTHER -> Idle
      /\ UNCHANGED <<now, process, pendingTerminal, history>>

-----------------------------------------------------------------------------
(***************************************************************************)
(* The executor (Runtime.executePreheat), called by the owner goroutine.   *)
(***************************************************************************)
\* execute: nothing passes the gate once stopping is set.  Past it, the
\* executor rereads the Runtime's configuration.
EnterExecutor ==
  /\ owner.pc = "claimed"
  /\ owner' = CASE phase # "up" -> Idle
                [] phase = "up" /\ Selects(rtConfig, owner.occ) -> [owner EXCEPT !.pc = "admitted"]
                [] OTHER -> [owner EXCEPT !.pc = "finishing", !.status = "skipped"]
  /\ UNCHANGED <<now, process, durable, timerDue, inbox, pendingTerminal, history, spent>>

\* No request: the account is gone, disabled or unavailable, a guardrail holds
\* or the window is sufficient (skipped), or the account is busy (failed).
ExecutorDeclines(status) ==
  /\ owner.pc = "admitted"
  /\ owner' = [owner EXCEPT !.pc = "finishing", !.status = status]
  /\ UNCHANGED <<now, process, durable, timerDue, inbox, pendingTerminal, history, spent>>

SendRequest ==
  /\ owner.pc = "admitted"
  /\ owner' = [owner EXCEPT !.pc = "probing"]
  /\ requests' = [requests EXCEPT ![owner.occ][owner.kind] = @ + 1]
  /\ UNCHANGED <<now, process, durable, timerDue, inbox, pendingTerminal, applied,
                 reconciled, spent>>

\* The probe returned.  A preheat writes the due time of its compensation, set
\* for a transient failure, zero otherwise; a failure of that write is ignored.
\* statusForRecord then names the terminal status.
RequestReturns(result, out) ==
  LET o == owner.occ
      dueAt == IF result = "transient" THEN now + CompDelay ELSE 0
      status == IF result = "succeeded" THEN "succeeded" ELSE "failed"
  IN  /\ owner.pc = "probing"
      /\ IF owner.kind = "occurrence"
         THEN Update(out, [occurrences EXCEPT ![o].dueAt = dueAt], nextRuns)
         ELSE out = "ok" /\ UNCHANGED <<durable, spent>>
      /\ owner' = [owner EXCEPT !.pc = "finishing", !.status = status]
      /\ UNCHANGED <<now, process, timerDue, inbox, pendingTerminal, history>>

\* The handler saves the result.  If it cannot, the result stays in memory and
\* a timer retries the write alone.
SaveTerminal(out) ==
  LET o == owner.occ
      p == [kind |-> owner.kind, status |-> owner.status]
      at == IF owner.kind = "occurrence" THEN owner.at ELSE now
  IN  /\ owner.pc = "finishing"
      /\ PersistTerminal(o, p, out)
      /\ pendingTerminal' = [pendingTerminal EXCEPT ![o] = IF out = "ok" THEN NoPending ELSE p]
      /\ SetTimers({}, IF out = "ok" THEN timerDue ELSE RetryTimer(timerDue, <<owner.kind, o>>, at))
      /\ owner' = [owner EXCEPT !.pc = "reconciling", !.at = 0, !.status = "absent"]
      /\ UNCHANGED <<now, process, history>>

ReconcileAfterCallback(out) ==
  /\ owner.pc = "reconciling"
  /\ ReconcileOwned(config, out, {}, ScheduleReconcileRetry(timerDue))
  /\ applied' = (out = "ok" \/ applied)
  /\ owner' = Idle
  /\ UNCHANGED <<now, process, pendingTerminal, requests>>

-----------------------------------------------------------------------------
\* The owner goroutine inside a handler, past its first step.
OwnerContinues ==
  \/ EnterExecutor
  \/ \E status \in {"skipped", "failed"} : ExecutorDeclines(status)
  \/ SendRequest
  \/ \E out \in WriteOutcomes :
       \/ \E eligible \in BOOLEAN : ClaimCompensation(eligible, out)
       \/ \E result \in {"succeeded", "transient", "failed"} : RequestReturns(result, out)
       \/ SaveTerminal(out)
       \/ ReconcileAfterCallback(out)

\* The owner goroutine handles callback c.
OwnerHandles(c) ==
  \/ DropStale(c)
  \/ \E out \in WriteOutcomes :
       HandleHorizon(c, out) \/ RetryTerminal(c, out) \/ ClaimOccurrence(c, out)
  \/ \E out \in WriteOutcomes \ {"kept"} : LoadCompensation(c, out)

Next ==
  \/ Tick
  \/ UpdateSchedule
  \/ Crash
  \/ BeginStop
  \/ StopReturns
  \/ \E out \in WriteOutcomes : StartScheduler(out) \/ HandleReconcile(out)
  \/ \E t \in TimerId : FireTimer(t)
  \/ \E c \in inbox : OwnerHandles(c)
  \/ OwnerContinues

Spec == Init /\ [][Next]_vars

-----------------------------------------------------------------------------
(***************************************************************************)
(* Refinement: the occurrence lifecycle.                                   *)
(***************************************************************************)
StageOf(e) ==
  CASE e.status = "absent" -> "unplanned"
    [] e.status = "planned" -> "planned"
    [] e.status = "running" /\ ~e.attempted -> "preheating"
    [] e.status = "running" /\ e.attempted -> "compensating"
    [] PendingCompensation(e) -> "waiting"
    [] OTHER -> "done"

Lifecycle == INSTANCE OccurrenceLifecycle WITH
  stage <- [o \in Occ |-> StageOf(occurrences[o])],
  sent <- requests

\* Every step of the scheduler moves the occurrences as OccurrenceLifecycle
\* allows: one preheat, one compensation after it, nothing when done.
KeepsLifecycle == Lifecycle!Spec

-----------------------------------------------------------------------------
(***************************************************************************)
(* Safety.                                                                 *)
(***************************************************************************)
\* "A scheduler never repeats a request": over restarts, retried writes, stale
\* callbacks and reconfigurations an occurrence gets at most one request of
\* each kind, and a compensation only after its preheat (scheduler.go:98-101,
\* ADR-0006).
RequestsBounded ==
  \A o \in Occ : /\ requests[o]["occurrence"] <= 1
                 /\ requests[o]["compensation"] <= requests[o]["occurrence"]

Settled == phase = "up" /\ owner.pc = "idle" /\ ~reconcilePending /\ ~startErr

\* A reconciliation is armed, or its failure was reported to the operator.
Replanned == timerDue[ReconcileRetryTimer] # 0 \/ ~applied

\* A planned occurrence the state owns, and a compensation it owes, has the
\* timer that will run it: no failed write, no consumed callback and no
\* configuration change strands it (reconcileTimers, retryTimer,
\* scheduleReconcileRetry).  What a write that reported an error has planned
\* all the same has no timer yet, but another reconciliation will arm it, and
\* so it is with a compensation whose reconciliation failed; unless this was
\* the operator's own, who was told.  A compensation that such a write owes
\* has at least the timer that repeats the write and then reconciles.
TimerCoverage ==
  Settled =>
    \A o \in Occ :
      LET e == occurrences[o]
      IN  /\ e.status = "planned" /\ nextRuns[o] = e.plannedAt /\ e.plannedAt > now =>
               \/ timerDue[OccurrenceTimer(o)] = e.plannedAt
               \/ <<o, "planned">> \in misreported /\ Replanned
          /\ PendingCompensation(e) /\ nextRuns[o] # 0 =>
               \/ timerDue[CompensationTimer(o)] # 0
               \/ Replanned
               \/ pendingTerminal[o].kind = "occurrence" /\ timerDue[OccurrenceTimer(o)] # 0

\* scheduler.go:477, reconcileTimers: "A running occurrence can only remain in
\* this process after its terminal state write failed."  Whatever a crash or a
\* shutdown left running is recovered before the owner first rests.  There is
\* one more way: a claim whose write reported an error although it had taken
\* effect is never followed by a request.
RunningHasResult ==
  Settled => \A o \in Occ :
    occurrences[o].status = "running" =>
      pendingTerminal[o].kind # "none" \/ <<o, "running">> \in misreported

\* A result that is not saved yet, because the occurrence still runs for the
\* request it is of, keeps a timer that will save it, also across the
\* reconciliations between, those of a disabled schedule included
\* (pendingTimer, cancelOccurrenceTimers, scheduler.go:476-491, 815-822).
Unsaved(o, k) ==
  /\ pendingTerminal[o].kind = k
  /\ occurrences[o].status = "running"
  /\ occurrences[o].attempted = (k = "compensation")

PendingResultHasTimer ==
  Settled => \A o \in Occ, k \in Kind : Unsaved(o, k) => timerDue[<<k, o>>] # 0

\* Once a reconciliation of this process succeeded the horizon has its midnight
\* timer, however many fail after it, those of a new configuration included
\* (scheduler.go:299-310).
HorizonAlive == Settled /\ reconciled => timerDue[MidnightTimer] # 0

\* The claim of an occurrence names an account the operator's configuration
\* selects, unless a change to that configuration still waits for the owner
\* (scheduler.go:664-666): a reconciliation that failed does not leave the old
\* selection in force.
ClaimsSelected ==
  [][\A o \in Occ :
       occurrences[o].status # "running" /\ occurrences'[o].status = "running" =>
         reconcilePending \/ Selects(rtConfig, o)]_vars

-----------------------------------------------------------------------------
(***************************************************************************)
(* Liveness.  Time passes, a due timer's callback runs, and the owner's    *)
(* select serves every command that waits: the channel is first in first   *)
(* out, and an idle owner blocks on nothing else.  A handler goes on: each *)
(* request and each refresh has a timeout.  Nothing says that an operator  *)
(* changes the schedule, that the process ends or that it comes back.      *)
(***************************************************************************)
Fairness ==
  /\ WF_vars(Tick)
  /\ \A t \in TimerId : WF_vars(FireTimer(t))
  /\ \A t \in TimerId : SF_vars(\E c \in inbox : c.timer = t /\ OwnerHandles(c))
  /\ SF_vars(\E out \in WriteOutcomes : HandleReconcile(out))
  /\ WF_vars(OwnerContinues)

FairSpec == Spec /\ Fairness

\* An occurrence does not stay "running" while its process lives: the result
\* of the request is saved in the end, however often saving it failed.  A claim
\* that its write misreported, and what a failed startup could not recover, has
\* no request and no result: it stays until the next start.
RunningSettles ==
  \A o \in Occ :
    occurrences[o].status = "running" /\ <<o, "running">> \notin misreported /\ ~startErr
      ~> occurrences[o].status # "running" \/ phase # "up"

\* A next run the panel shows is honoured: it starts, or it is withdrawn.  So
\* says every process that has reconciled once.  One whose first reconciliation
\* failed shows what its predecessor planned, and has neither a retry nor a
\* midnight timer (scheduler.go:285-287, runtime.go:269-271).
NextRunHonoured ==
  \A o \in Occ :
    Settled /\ reconciled /\ nextRuns[o] # 0 ~> nextRuns[o] = 0 \/ phase # "up"

-----------------------------------------------------------------------------
(***************************************************************************)
(* What the repository's documents say and the code does not do.           *)
(***************************************************************************)
\* CONTEXT.md: a missed occurrence is one "whose Preheat Window elapsed before
\* the request ran".  The window is open at the planned instant, and later.
MissedOnlyAfterWindow ==
  [][\A o \in Occ :
       /\ phase = "up" /\ nextRuns[o] # 0
       /\ occurrences[o].status = "planned" /\ occurrences'[o].status = "missed"
       /\ occurrences'[o].plannedAt = occurrences[o].plannedAt
       => now > occurrences[o].plannedAt]_vars

\* ADR-0015: after a restart "the next normal occurrence remains eligible".
RestartKeepsFutureOccurrences ==
  [][\A o \in Occ :
       phase = "down" /\ phase' = "up" /\ occurrences[o].plannedAt > now
         /\ occurrences[o].status = "planned" => occurrences'[o].status = "planned"]_vars

=============================================================================
