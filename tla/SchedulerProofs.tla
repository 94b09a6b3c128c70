--------------------------- MODULE SchedulerProofs ---------------------------
(***************************************************************************)
(* Theorems of Scheduler for every set of accounts and occurrences, every  *)
(* plan, every day length, retry delay and outcome of the writes.          *)
(***************************************************************************)
EXTENDS Scheduler, TLAPS

(***************************************************************************)
(* What the helpers return.                                                *)
(***************************************************************************)
\* A division of naturals is a natural (the local day of an instant).
LEMMA TodayType == ASSUME NEW t \in Nat PROVE Today(t) \in Nat
  BY SchedulerAssumption DEF Today

LEMMA TimerIdType ==
  /\ \A k \in Kind, o \in Occ : <<k, o>> \in TimerId
  /\ MidnightTimer \in TimerId
  /\ ReconcileRetryTimer \in TimerId
  BY DEF TimerId

LEMMA ConfigType ==
  ASSUME TypeOK
  PROVE  rtConfig \in Config /\ config \in Config
<1>1. NoConfig \in Config
  BY DEF NoConfig, Config
<1> QED
  BY <1>1, SchedulerAssumption DEF TypeOK

LEMMA UpdateType ==
  ASSUME TypeOK, NEW out, NEW entries \in [Occ -> OccurrenceState], NEW runs \in [Occ -> Nat],
         Update(out, entries, runs)
  PROVE  /\ occurrences' \in [Occ -> OccurrenceState]
         /\ nextRuns' \in [Occ -> Nat]
         /\ misreported' \subseteq Occ \X Status
         /\ spent' \in [faults : Nat, updates : Nat, stops : Nat]
<1>1. \A o \in Occ : entries[o].status \in Status
  BY DEF OccurrenceState
<1>2. misreported' \subseteq Occ \X Status
  BY <1>1 DEF TypeOK, Update
<1> QED
  BY <1>2 DEF TypeOK, Update, Spend

LEMMA SetTimersType ==
  ASSUME TypeOK, NEW taken, NEW due \in [TimerId -> Nat], SetTimers(taken, due)
  PROVE  /\ timerDue' \in [TimerId -> Nat]
         /\ inbox' \subseteq [timer : TimerId, current : BOOLEAN]
<1> DEFINE bumped == {t \in TimerId : due[t] # timerDue[t]} \cup {c.timer : c \in taken}
           After(c) == [c EXCEPT !.current = @ /\ c.timer \notin bumped]
<1>1. timerDue' = due /\ inbox' = {After(c) : c \in inbox \ taken}
  BY DEF SetTimers
<1>2. ASSUME NEW c \in [timer : TimerId, current : BOOLEAN]
      PROVE  After(c) \in [timer : TimerId, current : BOOLEAN]
  <2>1. (c.current /\ c.timer \notin bumped) \in BOOLEAN
    OBVIOUS
  <2> HIDE DEF bumped
  <2> QED
    BY <2>1, <1>2
<1> HIDE DEF After
<1> QED
  BY <1>1, <1>2 DEF TypeOK

LEMMA WithoutType ==
  ASSUME TypeOK, NEW taken
  PROVE  Without(taken) \in [TimerId -> Nat]
  BY DEF TypeOK, Without

LEMMA RetryTimerType ==
  ASSUME NEW due \in [TimerId -> Nat], NEW t, NEW at \in Nat
  PROVE  RetryTimer(due, t, at) \in [TimerId -> Nat]
<1>1. at + RetryDelay \in Nat
  BY SchedulerAssumption
<1> QED
  BY <1>1 DEF RetryTimer

LEMMA ReconcileRetryType ==
  ASSUME TypeOK, NEW due \in [TimerId -> Nat]
  PROVE  ScheduleReconcileRetry(due) \in [TimerId -> Nat]
  BY RetryTimerType, TimerIdType DEF ScheduleReconcileRetry, TypeOK

LEMMA MidnightType ==
  ASSUME TypeOK, NEW due \in [TimerId -> Nat]
  PROVE  ScheduleMidnight(due) \in [TimerId -> Nat]
<1>1. (Today(now) + 1) * DayLength \in Nat
  BY TodayType, SchedulerAssumption DEF TypeOK
<1> QED
  BY <1>1 DEF ScheduleMidnight

LEMMA ReconciledEntryType ==
  ASSUME TypeOK, NEW c \in Config, NEW o \in Occ
  PROVE  ReconciledEntry(c, o) \in OccurrenceState
<1> DEFINE e == occurrences[o]
<1>1. e \in OccurrenceState /\ c.plan[o] \in Nat
  BY DEF TypeOK, Config
<1>2. PlannedEntry(e, c.plan[o]) \in OccurrenceState /\ MarkMissed(e) \in OccurrenceState
  BY <1>1 DEF PlannedEntry, MarkMissed, OccurrenceState, Status
<1> QED
  BY <1>1, <1>2 DEF ReconciledEntry

LEMMA ReconciledTimersType ==
  ASSUME TypeOK, NEW c \in Config, NEW due \in [TimerId -> Nat],
         NEW entries \in [Occ -> OccurrenceState]
  PROVE  ReconciledTimers(c, due, entries) \in [TimerId -> Nat]
<1>1. ASSUME NEW k \in Kind, NEW o \in Occ
      PROVE  ActiveDue(due, entries, k, o) \in Nat
  <2>1. entries[o].plannedAt \in Nat /\ entries[o].dueAt \in Nat
    BY DEF OccurrenceState
  <2>2. due[<<k, o>>] \in Nat /\ RetryTimer(due, <<k, o>>, now)[<<k, o>>] \in Nat
    BY TimerIdType, RetryTimerType DEF TypeOK
  <2> QED
    BY <2>1, <2>2 DEF ActiveDue
<1>2. ASSUME NEW t \in Kind \X Occ
      PROVE  ActiveDue(due, entries, t[1], t[2]) \in Nat
  BY <1>1
<1>3. ReconcileTimers(due, entries) \in [TimerId -> Nat]
  BY <1>2 DEF ReconcileTimers
<1>4. CancelOccurrenceTimers(due) \in [TimerId -> Nat]
  BY DEF CancelOccurrenceTimers
<1> QED
  BY <1>3, <1>4, MidnightType DEF ReconciledTimers

LEMMA ReconcileOwnedType ==
  ASSUME TypeOK, NEW c \in Config, NEW out, NEW taken, NEW onError \in [TimerId -> Nat],
         ReconcileOwned(c, out, taken, onError)
  PROVE  /\ occurrences' \in [Occ -> OccurrenceState]
         /\ nextRuns' \in [Occ -> Nat]
         /\ timerDue' \in [TimerId -> Nat]
         /\ inbox' \subseteq [timer : TimerId, current : BOOLEAN]
         /\ reconciled' \in BOOLEAN
         /\ misreported' \subseteq Occ \X Status
         /\ spent' \in [faults : Nat, updates : Nat, stops : Nat]
<1> DEFINE entries == [o \in Occ |-> ReconciledEntry(c, o)]
           runs == [o \in Occ |-> ReconciledRun(c, o, entries[o])]
           due == IF out = "ok" THEN ReconciledTimers(c, Without(taken), entries) ELSE onError
<1>1. entries \in [Occ -> OccurrenceState]
  BY ReconciledEntryType
<1>2. runs \in [Occ -> Nat]
  BY <1>1 DEF ReconciledRun, OccurrenceState
<1>3. due \in [TimerId -> Nat]
  BY <1>1, WithoutType, ReconciledTimersType
<1>4. /\ Update(out, entries, runs)
      /\ reconciled' = (out = "ok" \/ reconciled)
      /\ SetTimers(taken, due)
  BY DEF ReconcileOwned
<1> HIDE DEF entries, runs, due
<1>5. reconciled' \in BOOLEAN
  BY <1>4
<1> QED
  BY <1>1, <1>2, <1>3, <1>4, <1>5, UpdateType, SetTimersType

LEMMA CompensationClaimType ==
  ASSUME NEW e \in OccurrenceState, NEW status \in {"running", "skipped"}
  PROVE  CompensationClaim(e, status) \in OccurrenceState
  BY DEF CompensationClaim, OccurrenceState, Status

LEMMA TerminalType ==
  ASSUME NEW e \in OccurrenceState, NEW p \in PendingTerminal
  PROVE  TerminalEntry(e, p) \in OccurrenceState /\ TerminalRun(e, p) \in Nat
<1>1. TerminalEntry(e, p) \in OccurrenceState
  BY DEF TerminalEntry, OccurrenceState, PendingTerminal
<1>2. TerminalRun(e, p) \in Nat
  BY DEF TerminalRun, OccurrenceState
<1> QED
  BY <1>1, <1>2

LEMMA PersistTerminalType ==
  ASSUME TypeOK, NEW o, NEW p \in PendingTerminal, NEW out, PersistTerminal(o, p, out)
  PROVE  /\ occurrences' \in [Occ -> OccurrenceState]
         /\ nextRuns' \in [Occ -> Nat]
         /\ misreported' \subseteq Occ \X Status
         /\ spent' \in [faults : Nat, updates : Nat, stops : Nat]
<1> DEFINE e == TerminalEntry(occurrences[o], p)
           entries == [occurrences EXCEPT ![o] = e]
           runs == [nextRuns EXCEPT ![o] = TerminalRun(e, p)]
<1>1. o \in Occ => e \in OccurrenceState /\ TerminalRun(e, p) \in Nat
  BY TerminalType DEF TypeOK
<1>2. Update(out, entries, runs)
  BY DEF PersistTerminal
<1> HIDE DEF e
<1>3. entries \in [Occ -> OccurrenceState] /\ runs \in [Occ -> Nat]
  BY <1>1 DEF TypeOK
<1> HIDE DEF entries, runs
<1> QED
  BY <1>2, <1>3, UpdateType

(***************************************************************************)
(* Type correctness.                                                       *)
(***************************************************************************)
LEMMA InitType == Init => TypeOK
<1> SUFFICES ASSUME Init PROVE TypeOK
  OBVIOUS
<1>1. Absent \in OccurrenceState /\ NoPending \in PendingTerminal /\ Idle \in OwnerState
  BY DEF Absent, NoPending, Idle, OccurrenceState, PendingTerminal, OwnerState, Kind, Status
<1>2. requests \in [Occ -> [Kind -> Nat]]
  BY DEF Init
<1> QED
  BY <1>1, <1>2 DEF Init, TypeOK

\* The steps of the environment.
LEMMA EnvironmentType ==
  ASSUME TypeOK,
         \/ Tick \/ UpdateSchedule \/ Crash \/ BeginStop \/ StopReturns
         \/ \E out \in WriteOutcomes : StartScheduler(out)
         \/ \E t \in TimerId : FireTimer(t)
  PROVE  TypeOK'
<1>1. CASE Tick
  BY <1>1 DEF Tick, process, durable, history, TypeOK
<1>2. CASE UpdateSchedule
  BY <1>2 DEF UpdateSchedule, durable, history, TypeOK
<1>3. ASSUME ProcessGone, spent' \in [faults : Nat, updates : Nat, stops : Nat]
      PROVE  TypeOK'
  <2>1. NoPending \in PendingTerminal /\ Idle \in OwnerState
    BY DEF NoPending, Idle, PendingTerminal, OwnerState, Kind, Status
  <2> QED
    BY <1>3, <2>1 DEF ProcessGone, durable, history, TypeOK
<1>4. CASE Crash
  BY <1>3, <1>4 DEF Crash, TypeOK
<1>5. CASE BeginStop
  BY <1>5 DEF BeginStop, durable, history, TypeOK
<1>6. CASE StopReturns
  BY <1>3, <1>6 DEF StopReturns, TypeOK
<1>7. ASSUME NEW out \in WriteOutcomes, StartScheduler(out)
      PROVE  TypeOK'
  <2> DEFINE entries == [o \in Occ |-> RecoveredEntry(occurrences[o])]
  <2>1. entries \in [Occ -> OccurrenceState]
    <3>1. ASSUME NEW e \in OccurrenceState
          PROVE  RecoveredEntry(e) \in OccurrenceState
      BY DEF RecoveredEntry, MarkMissed, OccurrenceState, Status
    <3> QED
      BY <3>1 DEF TypeOK
  <2>2. Update(out, entries, nextRuns) /\ nextRuns \in [Occ -> Nat]
    BY <1>7 DEF StartScheduler, TypeOK
  <2> HIDE DEF entries
  <2>3. /\ occurrences' \in [Occ -> OccurrenceState]
        /\ nextRuns' \in [Occ -> Nat]
        /\ misreported' \subseteq Occ \X Status
        /\ spent' \in [faults : Nat, updates : Nat, stops : Nat]
    BY <2>1, <2>2, UpdateType
  <2> QED
    BY <1>7, <2>3 DEF StartScheduler, history, TypeOK
<1>8. ASSUME NEW t \in TimerId, FireTimer(t)
      PROVE  TypeOK'
  <2>1. [timer |-> t, current |-> TRUE] \in [timer : TimerId, current : BOOLEAN]
    OBVIOUS
  <2>2. inbox' \subseteq [timer : TimerId, current : BOOLEAN]
    BY <1>8, <2>1 DEF FireTimer, TypeOK
  <2> QED
    BY <1>8, <2>2 DEF FireTimer, process, durable, history, TypeOK
<1> QED
  BY <1>1, <1>2, <1>4, <1>5, <1>6, <1>7, <1>8

\* The steps that end in a reconciliation.
LEMMA ReconcileType ==
  ASSUME TypeOK, NEW out,
         \/ HandleReconcile(out) \/ ReconcileAfterCallback(out)
         \/ \E c \in inbox : HandleHorizon(c, out)
  PROVE  TypeOK'
<1> USE ConfigType
<1>1. CASE HandleReconcile(out)
  <2>1. ReconcileOwned(rtConfig, out, {}, timerDue) /\ timerDue \in [TimerId -> Nat]
    BY <1>1 DEF HandleReconcile, TypeOK
  <2>2. /\ occurrences' \in [Occ -> OccurrenceState]
        /\ nextRuns' \in [Occ -> Nat]
        /\ timerDue' \in [TimerId -> Nat]
        /\ inbox' \subseteq [timer : TimerId, current : BOOLEAN]
        /\ reconciled' \in BOOLEAN
        /\ misreported' \subseteq Occ \X Status
        /\ spent' \in [faults : Nat, updates : Nat, stops : Nat]
    BY <2>1, ReconcileOwnedType
  <2>3. /\ rtConfig \in Configs /\ config' = rtConfig /\ reconcilePending' = FALSE
        /\ applied' \in BOOLEAN
    BY <1>1 DEF HandleReconcile, TypeOK
  <2> QED
    BY <1>1, <2>2, <2>3 DEF HandleReconcile, TypeOK
<1>2. CASE ReconcileAfterCallback(out)
  <2>1. ScheduleReconcileRetry(timerDue) \in [TimerId -> Nat]
    BY ReconcileRetryType DEF TypeOK
  <2>2. ReconcileOwned(config, out, {}, ScheduleReconcileRetry(timerDue))
    BY <1>2 DEF ReconcileAfterCallback
  <2>3. Idle \in OwnerState
    BY DEF Idle, OwnerState, Kind, Status
  <2>4. applied' \in BOOLEAN
    BY <1>2 DEF ReconcileAfterCallback
  <2> QED
    BY <1>2, <2>1, <2>2, <2>3, <2>4, ReconcileOwnedType DEF ReconcileAfterCallback, process, TypeOK
<1>3. ASSUME NEW c \in inbox, HandleHorizon(c, out)
      PROVE  TypeOK'
  <2> DEFINE due == ScheduleReconcileRetry(KeepHorizon(c, Without({c})))
  <2>1. KeepHorizon(c, Without({c})) \in [TimerId -> Nat]
    BY WithoutType, MidnightType DEF KeepHorizon
  <2>2. due \in [TimerId -> Nat]
    BY <2>1, ReconcileRetryType
  <2>3. ReconcileOwned(config, out, {c}, due)
    BY <1>3 DEF HandleHorizon
  <2>4. applied' \in BOOLEAN
    BY <1>3 DEF HandleHorizon
  <2> HIDE DEF due
  <2> QED
    BY <1>3, <2>2, <2>3, <2>4, ReconcileOwnedType DEF HandleHorizon, process, TypeOK
<1> QED
  BY <1>1, <1>2, <1>3

\* The steps in which the owner takes any other callback.
LEMMA CallbackType ==
  ASSUME TypeOK, NEW c \in inbox, NEW out,
         \/ DropStale(c) \/ RetryTerminal(c, out) \/ ClaimOccurrence(c, out)
         \/ LoadCompensation(c, out)
  PROVE  TypeOK'
<1> DEFINE o == c.timer[2]
           due == Without({c})
<1>1. due \in [TimerId -> Nat] /\ RetryTimer(due, c.timer, now) \in [TimerId -> Nat]
  BY WithoutType, RetryTimerType DEF TypeOK
<1>2. occurrences \in [Occ -> OccurrenceState] /\ nextRuns \in [Occ -> Nat]
  BY DEF TypeOK
<1>3. CASE DropStale(c)
  BY <1>3 DEF DropStale, process, durable, history, TypeOK
<1>4. CASE RetryTerminal(c, out)
  <2>1. o \in Occ /\ c.timer[1] \in Kind
    BY <1>4 DEF RetryTerminal
  <2>2. PersistTerminal(o, pendingTerminal[o], out) /\ pendingTerminal[o] \in PendingTerminal
    BY <1>4, <2>1 DEF RetryTerminal, TypeOK
  <2>3. PICK after \in [TimerId -> Nat] : SetTimers({c}, after)
    BY <1>1, <1>4 DEF RetryTerminal
  <2>4. /\ pendingTerminal' \in [Occ -> PendingTerminal]
        /\ owner' \in OwnerState
    <3>1. NoPending \in PendingTerminal
      BY DEF NoPending, PendingTerminal, Status
    <3>2. [Idle EXCEPT !.pc = "reconciling", !.kind = c.timer[1], !.occ = o] \in OwnerState
      BY <2>1 DEF Idle, OwnerState, Status
    <3> QED
      BY <1>4, <3>1, <3>2 DEF RetryTerminal, TypeOK
  <2> HIDE DEF o
  <2> QED
    BY <1>4, <2>2, <2>3, <2>4, PersistTerminalType, SetTimersType
    DEF RetryTerminal, process, history, TypeOK
<1>5. CASE ClaimOccurrence(c, out)
  <2>1. o \in Occ
    BY <1>5 DEF ClaimOccurrence
  <2>2. PICK entries \in [Occ -> OccurrenceState], runs \in [Occ -> Nat] :
          Update(out, entries, runs)
    <3>1. [occurrences EXCEPT ![o].status = "running"] \in [Occ -> OccurrenceState]
      BY <1>2 DEF OccurrenceState, Status
    <3>2. [nextRuns EXCEPT ![o] = 0] \in [Occ -> Nat]
      BY <1>2
    <3> QED
      BY <1>2, <1>5, <3>1, <3>2 DEF ClaimOccurrence
  <2>3. PICK after \in [TimerId -> Nat] : SetTimers({c}, after)
    BY <1>1, <1>5 DEF ClaimOccurrence
  <2>4. owner' \in OwnerState
    BY <1>5, <2>1 DEF ClaimOccurrence, OwnerState, Kind, Status, TypeOK
  <2> HIDE DEF o
  <2> QED
    BY <1>5, <2>2, <2>3, <2>4, UpdateType, SetTimersType DEF ClaimOccurrence, process, history, TypeOK
<1>6. CASE LoadCompensation(c, out)
  <2>1. o \in Occ
    BY <1>6 DEF LoadCompensation
  <2>2. PICK after \in [TimerId -> Nat] : SetTimers({c}, after)
    BY <1>1, <1>6 DEF LoadCompensation
  <2>3. owner' \in OwnerState
    BY <1>6, <2>1 DEF LoadCompensation, Idle, OwnerState, Kind, Status, TypeOK
  <2>4. spent' \in [faults : Nat, updates : Nat, stops : Nat]
    BY <1>6 DEF LoadCompensation, Spend, TypeOK
  <2> HIDE DEF o
  <2> QED
    BY <1>6, <2>2, <2>3, <2>4, SetTimersType DEF LoadCompensation, process, durable, history, TypeOK
<1> QED
  BY <1>3, <1>4, <1>5, <1>6

\* The steps of the owner inside a handler.
LEMMA HandlerType ==
  ASSUME TypeOK, OwnerContinues
  PROVE  TypeOK'
<1> DEFINE o == owner.occ
<1>1. CASE EnterExecutor
  <2>1. owner' \in OwnerState
    BY <1>1 DEF EnterExecutor, Idle, OwnerState, Kind, Status, TypeOK
  <2> QED
    BY <1>1, <2>1 DEF EnterExecutor, process, durable, history, TypeOK
<1>2. ASSUME NEW status \in {"skipped", "failed"}, ExecutorDeclines(status)
      PROVE  TypeOK'
  <2>1. owner' \in OwnerState
    BY <1>2 DEF ExecutorDeclines, OwnerState, Status, TypeOK
  <2> QED
    BY <1>2, <2>1 DEF ExecutorDeclines, process, durable, history, TypeOK
<1>3. CASE SendRequest
  <2>1. owner' \in OwnerState
    BY <1>3 DEF SendRequest, OwnerState, TypeOK
  <2>2. requests' \in [Occ -> [Kind -> Nat]]
    <3>1. owner.kind \in Kind
      BY DEF OwnerState, TypeOK
    <3>2. requests \in [Occ -> [Kind -> Nat]]
      BY DEF TypeOK
    <3>3. o \in Occ => [requests[o] EXCEPT ![owner.kind] = @ + 1] \in [Kind -> Nat]
      BY <3>1, <3>2
    <3>4. requests' = [requests EXCEPT ![o] = [requests[o] EXCEPT ![owner.kind] = @ + 1]]
      BY <1>3 DEF SendRequest
    <3> HIDE DEF o
    <3> QED
      BY <3>2, <3>3, <3>4
  <2> QED
    BY <1>3, <2>1, <2>2 DEF SendRequest, process, durable, history, TypeOK
<1>4. ASSUME NEW eligible \in BOOLEAN, NEW out, ClaimCompensation(eligible, out)
      PROVE  TypeOK'
  <2> DEFINE status == IF eligible THEN "running" ELSE "skipped"
             claim == [occurrences EXCEPT ![o] = CompensationClaim(occurrences[o], status)]
  <2>1. PICK entries \in [Occ -> OccurrenceState], runs \in [Occ -> Nat] :
          Update(out, entries, runs)
    <3>1. \/ Update(out, claim, [nextRuns EXCEPT ![o] = 0])
          \/ Update(out, occurrences, nextRuns)
      BY <1>4 DEF ClaimCompensation
    <3>2. status \in {"running", "skipped"}
      OBVIOUS
    <3> HIDE DEF status
    <3>3. o \in Occ => CompensationClaim(occurrences[o], status) \in OccurrenceState
      BY <3>2, CompensationClaimType DEF TypeOK
    <3>4. claim \in [Occ -> OccurrenceState]
      BY <3>3 DEF TypeOK
    <3>5. nextRuns \in [Occ -> Nat] /\ [nextRuns EXCEPT ![o] = 0] \in [Occ -> Nat]
      BY DEF TypeOK
    <3>6. occurrences \in [Occ -> OccurrenceState]
      BY DEF TypeOK
    <3> HIDE DEF claim
    <3> QED
      BY <3>4, <3>5, <3>6, <3>1
  <2>2. PICK after \in [TimerId -> Nat] : SetTimers({}, after)
    BY <1>4, RetryTimerType DEF ClaimCompensation, TypeOK
  <2>3. owner' \in OwnerState
    BY <1>4 DEF ClaimCompensation, Idle, OwnerState, Kind, Status, TypeOK
  <2> QED
    BY <1>4, <2>1, <2>2, <2>3, UpdateType, SetTimersType DEF ClaimCompensation, process, history, TypeOK
<1>5. ASSUME NEW result, NEW out, RequestReturns(result, out)
      PROVE  TypeOK'
  <2> DEFINE dueAt == IF result = "transient" THEN now + CompDelay ELSE 0
  <2>1. owner' \in OwnerState
    BY <1>5 DEF RequestReturns, OwnerState, Status, TypeOK
  <2>2. CASE owner.kind = "occurrence"
    <3>1. dueAt \in Nat
      BY SchedulerAssumption DEF TypeOK
    <3>2. [occurrences EXCEPT ![o].dueAt = dueAt] \in [Occ -> OccurrenceState]
      <4> HIDE DEF dueAt
      <4> QED
        BY <3>1 DEF OccurrenceState, TypeOK
    <3>3. Update(out, [occurrences EXCEPT ![o].dueAt = dueAt], nextRuns)
      BY <1>5, <2>2 DEF RequestReturns
    <3>4. nextRuns \in [Occ -> Nat]
      BY DEF TypeOK
    <3> HIDE DEF dueAt
    <3> QED
      BY <1>5, <2>1, <3>2, <3>3, <3>4, UpdateType DEF RequestReturns, process, history, TypeOK
  <2>3. CASE owner.kind # "occurrence"
    BY <1>5, <2>1, <2>3 DEF RequestReturns, process, durable, history, TypeOK
  <2> QED
    BY <2>2, <2>3
<1>6. ASSUME NEW out, SaveTerminal(out)
      PROVE  TypeOK'
  <2> DEFINE p == [kind |-> owner.kind, status |-> owner.status]
             at == IF owner.kind = "occurrence" THEN owner.at ELSE now
  <2>1. p \in PendingTerminal /\ NoPending \in PendingTerminal /\ at \in Nat
    BY DEF PendingTerminal, NoPending, OwnerState, Status, TypeOK
  <2>2. owner' \in OwnerState
    BY <1>6 DEF SaveTerminal, OwnerState, Status, TypeOK
  <2>3. /\ PersistTerminal(o, p, out)
        /\ pendingTerminal' = [pendingTerminal EXCEPT ![o] = IF out = "ok" THEN NoPending ELSE p]
        /\ SetTimers({}, IF out = "ok" THEN timerDue
                                       ELSE RetryTimer(timerDue, <<owner.kind, o>>, at))
    BY <1>6 DEF SaveTerminal
  <2> HIDE DEF p, at
  <2>4. PICK after \in [TimerId -> Nat] : SetTimers({}, after)
    BY <2>1, <2>3, RetryTimerType DEF TypeOK
  <2>5. pendingTerminal' \in [Occ -> PendingTerminal]
    BY <2>1, <2>3 DEF TypeOK
  <2> QED
    BY <1>6, <2>1, <2>2, <2>3, <2>4, <2>5, PersistTerminalType, SetTimersType
    DEF SaveTerminal, process, history, TypeOK
<1>7. ASSUME NEW out, ReconcileAfterCallback(out)
      PROVE  TypeOK'
  BY <1>7, ReconcileType
<1> QED
  BY <1>1, <1>2, <1>3, <1>4, <1>5, <1>6, <1>7 DEF OwnerContinues

LEMMA StepType == TypeOK /\ [Next]_vars => TypeOK'
<1> SUFFICES ASSUME TypeOK, [Next]_vars PROVE TypeOK'
  OBVIOUS
<1>1. CASE UNCHANGED vars
  BY <1>1 DEF vars, TypeOK
<1>2. CASE Next
  <2>1. ASSUME NEW c \in inbox, OwnerHandles(c)
        PROVE  TypeOK'
    BY <2>1, CallbackType, ReconcileType DEF OwnerHandles
  <2> QED
    BY <1>2, <2>1, EnvironmentType, ReconcileType, HandlerType DEF Next
<1> QED
  BY <1>1, <1>2

\* The state keeps its type: no handler stores a status, a time or a timer of
\* another kind, whatever the plan, the writes and the requests do.
THEOREM TypeCorrect == Spec => []TypeOK
<1>1. Init => TypeOK
  BY InitType
<1>2. TypeOK /\ [Next]_vars => TypeOK'
  BY StepType
<1> QED
  BY <1>1, <1>2, PTL DEF Spec

(***************************************************************************)
(* At most one request of each kind.  RequestsBounded is not inductive:    *)
(* nothing in it says why an occurrence that was sent is not claimed once  *)
(* more.  What the durable entry shows of it does: an entry that may still *)
(* be claimed has sent nothing, one that waits for its compensation has    *)
(* sent its preheat alone, and a handler that has claimed is still owed    *)
(* its request.  A result, in memory or not, never reopens an entry.       *)
(***************************************************************************)
Open == {"absent", "planned"}
Final == {"succeeded", "failed", "skipped"}

Sent(o, k) == requests[o][k]

EntriesAccounted ==
  \A o \in Occ :
    /\ Sent(o, "occurrence") <= 1
    /\ Sent(o, "compensation") <= Sent(o, "occurrence")
    /\ occurrences[o].status \in Open => Sent(o, "occurrence") = 0
    /\ occurrences[o].dueAt # 0 => Sent(o, "occurrence") = 1 /\ Sent(o, "compensation") = 0

OwnerAccounted ==
  /\ phase = "down" => owner.pc = "idle"
  /\ owner.pc = "eligibility" => owner.kind = "compensation" /\ owner.occ \in Occ
  /\ owner.pc = "finishing" => owner.status \in Final
  /\ owner.pc \in {"claimed", "admitted", "probing"} =>
       /\ owner.occ \in Occ
       /\ occurrences[owner.occ].status \notin Open
       /\ owner.kind = "compensation" => occurrences[owner.occ].dueAt = 0
       /\ owner.kind = "occurrence" /\ owner.pc # "probing" => Sent(owner.occ, "occurrence") = 0
       /\ \/ owner.kind = "occurrence" /\ owner.pc = "probing"
          \/ owner.kind = "compensation" /\ owner.pc # "probing"
          => Sent(owner.occ, "occurrence") = 1 /\ Sent(owner.occ, "compensation") = 0

ResultsFinal ==
  \A o \in Occ : pendingTerminal[o].kind # "none" => pendingTerminal[o].status \in Final

RequestAccounting == TypeOK /\ EntriesAccounted /\ OwnerAccounted /\ ResultsFinal

\* f follows e without reopening it and without a new compensation.
Calm(e, f) ==
  /\ f.dueAt \in {0, e.dueAt}
  /\ f.status \in Open => e.status \in Open

LEMMA CalmUpdate ==
  ASSUME NEW out, NEW entries, NEW runs, Update(out, entries, runs),
         \A o \in Occ : Calm(occurrences[o], entries[o])
  PROVE  \A o \in Occ : Calm(occurrences[o], occurrences'[o])
  BY DEF Update, Calm

LEMMA CalmEntries ==
  ASSUME EntriesAccounted, requests' = requests,
         \A o \in Occ : Calm(occurrences[o], occurrences'[o])
  PROVE  EntriesAccounted'
  BY DEF EntriesAccounted, Sent, Calm

LEMMA CalmReconcile ==
  ASSUME TypeOK, NEW c, NEW out, NEW taken, NEW onError, ReconcileOwned(c, out, taken, onError)
  PROVE  \A o \in Occ : Calm(occurrences[o], occurrences'[o])
<1> DEFINE entries == [o \in Occ |-> ReconciledEntry(c, o)]
<1>1. ASSUME NEW o \in Occ
      PROVE  Calm(occurrences[o], ReconciledEntry(c, o))
  <2>1. occurrences[o] \in OccurrenceState
    BY DEF TypeOK
  <2> QED
    BY <2>1 DEF ReconciledEntry, PlannedEntry, MarkMissed, Calm, Open, OccurrenceState
<1>2. \A o \in Occ : Calm(occurrences[o], entries[o])
  BY <1>1
<1>3. PICK runs : Update(out, entries, runs)
  BY DEF ReconcileOwned
<1> HIDE DEF entries
<1> QED
  BY <1>2, <1>3, CalmUpdate

LEMMA CalmTerminal ==
  ASSUME TypeOK, NEW o, NEW p \in PendingTerminal, p.status \in Final, NEW out,
         PersistTerminal(o, p, out)
  PROVE  \A q \in Occ : Calm(occurrences[q], occurrences'[q])
<1> DEFINE e == TerminalEntry(occurrences[o], p)
           entries == [occurrences EXCEPT ![o] = e]
<1>1. ASSUME o \in Occ
      PROVE  Calm(occurrences[o], e)
  <2>1. occurrences[o] \in OccurrenceState
    BY <1>1 DEF TypeOK
  <2>2. e.status \in Final /\ e.dueAt \in {0, occurrences[o].dueAt}
    BY <2>1 DEF TerminalEntry, OccurrenceState
  <2> QED
    BY <2>2 DEF Calm, Final, Open
<1>2. PICK runs : Update(out, entries, runs)
  BY DEF PersistTerminal
<1> HIDE DEF e
<1>3. \A q \in Occ : Calm(occurrences[q], entries[q])
  BY <1>1 DEF Calm, TypeOK
<1> HIDE DEF entries
<1> QED
  BY <1>2, <1>3, CalmUpdate

LEMMA InitAccounting == Init => RequestAccounting
<1> SUFFICES ASSUME Init PROVE RequestAccounting
  OBVIOUS
<1>1. EntriesAccounted
  BY DEF Init, EntriesAccounted, Sent, Absent, Open, Kind
<1>2. OwnerAccounted /\ ResultsFinal
  BY DEF Init, OwnerAccounted, ResultsFinal, Idle, NoPending
<1> QED
  BY <1>1, <1>2, InitType DEF RequestAccounting

LEMMA EnvironmentAccounting ==
  ASSUME RequestAccounting,
         \/ Tick \/ UpdateSchedule \/ Crash \/ BeginStop \/ StopReturns
         \/ \E out \in WriteOutcomes : StartScheduler(out)
         \/ \E t \in TimerId : FireTimer(t)
  PROVE  EntriesAccounted' /\ OwnerAccounted' /\ ResultsFinal'
<1> USE DEF RequestAccounting, EntriesAccounted, OwnerAccounted, ResultsFinal, Sent
<1>1. CASE Tick
  BY <1>1 DEF Tick, process, durable, history
<1>2. CASE UpdateSchedule
  BY <1>2 DEF UpdateSchedule, durable, history
<1>3. CASE Crash \/ StopReturns
  BY <1>3 DEF Crash, StopReturns, ProcessGone, durable, history, Idle, NoPending
<1>4. CASE BeginStop
  BY <1>4 DEF BeginStop, durable, history
<1>5. ASSUME NEW out \in WriteOutcomes, StartScheduler(out)
      PROVE  EntriesAccounted' /\ OwnerAccounted' /\ ResultsFinal'
  <2> DEFINE entries == [o \in Occ |-> RecoveredEntry(occurrences[o])]
  <2>1. ASSUME NEW o \in Occ
        PROVE  Calm(occurrences[o], entries[o])
    BY DEF RecoveredEntry, MarkMissed, Calm, Open, OccurrenceState, TypeOK
  <2>2. Update(out, entries, nextRuns)
    BY <1>5 DEF StartScheduler
  <2> HIDE DEF entries
  <2>3. EntriesAccounted'
    BY <1>5, <2>1, <2>2, CalmUpdate, CalmEntries DEF StartScheduler, history
  <2>4. owner.pc = "idle" /\ owner' = owner /\ pendingTerminal' = pendingTerminal
    BY <1>5 DEF StartScheduler
  <2> QED
    BY <2>3, <2>4
<1>6. ASSUME NEW t \in TimerId, FireTimer(t)
      PROVE  EntriesAccounted' /\ OwnerAccounted' /\ ResultsFinal'
  BY <1>6 DEF FireTimer, process, durable, history
<1> QED
  BY <1>1, <1>2, <1>3, <1>4, <1>5, <1>6

LEMMA ReconcileAccounting ==
  ASSUME RequestAccounting, NEW out,
         \/ HandleReconcile(out) \/ ReconcileAfterCallback(out)
         \/ \E c \in inbox : HandleHorizon(c, out)
  PROVE  EntriesAccounted' /\ OwnerAccounted' /\ ResultsFinal'
<1>1. \E c, taken, onError : ReconcileOwned(c, out, taken, onError)
  BY DEF HandleReconcile, ReconcileAfterCallback, HandleHorizon
<1>2. \A o \in Occ : Calm(occurrences[o], occurrences'[o])
  BY <1>1, CalmReconcile DEF RequestAccounting
<1>3. requests' = requests /\ pendingTerminal' = pendingTerminal /\ owner'.pc = "idle"
  <2>1. CASE HandleReconcile(out)
    BY <2>1 DEF HandleReconcile
  <2>2. CASE ReconcileAfterCallback(out)
    BY <2>2 DEF ReconcileAfterCallback, Idle
  <2>3. ASSUME NEW c \in inbox, HandleHorizon(c, out)
        PROVE  requests' = requests /\ pendingTerminal' = pendingTerminal /\ owner'.pc = "idle"
    BY <2>3 DEF HandleHorizon, OwnerTakes
  <2> QED
    BY <2>1, <2>2, <2>3
<1>4. EntriesAccounted'
  BY <1>2, <1>3, CalmEntries DEF RequestAccounting
<1> QED
  BY <1>3, <1>4 DEF RequestAccounting, OwnerAccounted, ResultsFinal

LEMMA CallbackAccounting ==
  ASSUME RequestAccounting, NEW c \in inbox, NEW out,
         \/ DropStale(c) \/ RetryTerminal(c, out) \/ ClaimOccurrence(c, out)
         \/ LoadCompensation(c, out)
  PROVE  EntriesAccounted' /\ OwnerAccounted' /\ ResultsFinal'
<1> DEFINE o == c.timer[2]
<1>1. phase = "up" /\ phase' = phase /\ owner.pc = "idle" /\ requests' = requests
  BY DEF DropStale, RetryTerminal, ClaimOccurrence, LoadCompensation, OwnerTakes, process, history
<1>2. CASE DropStale(c)
  BY <1>1, <1>2
  DEF DropStale, durable, history, RequestAccounting, EntriesAccounted, OwnerAccounted, ResultsFinal, Sent
<1>3. CASE RetryTerminal(c, out)
  <2>1. o \in Occ /\ pendingTerminal[o].kind # "none"
    BY <1>3 DEF RetryTerminal, Kind
  <2>2. PersistTerminal(o, pendingTerminal[o], out) /\ pendingTerminal[o] \in PendingTerminal
    BY <1>3, <2>1 DEF RetryTerminal, RequestAccounting, TypeOK
  <2>3. pendingTerminal[o].status \in Final
    BY <2>1 DEF RequestAccounting, ResultsFinal
  <2>4. EntriesAccounted'
    BY <1>1, <2>2, <2>3, CalmTerminal, CalmEntries DEF RequestAccounting
  <2>5. owner'.pc \in {"idle", "reconciling"}
    BY <1>1, <1>3 DEF RetryTerminal, Idle
  <2>6. ResultsFinal'
    <3>1. \/ pendingTerminal' = pendingTerminal
          \/ pendingTerminal' = [pendingTerminal EXCEPT ![o] = NoPending]
      BY <1>3 DEF RetryTerminal
    <3>2. NoPending.kind = "none"
      BY DEF NoPending
    <3> HIDE DEF o
    <3> QED
      BY <2>1, <3>1, <3>2 DEF RequestAccounting, ResultsFinal, TypeOK
  <2> QED
    BY <1>1, <2>4, <2>5, <2>6 DEF OwnerAccounted
<1>4. CASE ClaimOccurrence(c, out)
  <2> DEFINE claim == [occurrences EXCEPT ![o].status = "running"]
  <2>1. o \in Occ /\ pendingTerminal' = pendingTerminal
    BY <1>4 DEF ClaimOccurrence
  <2>2. ASSUME NEW q \in Occ
        PROVE  Calm(occurrences[q], occurrences[q]) /\ Calm(occurrences[q], claim[q])
    BY <2>1 DEF Calm, Open, OccurrenceState, RequestAccounting, TypeOK
  <2>3. \E runs : Update(out, occurrences, runs) \/ Update(out, claim, runs)
    BY <1>4 DEF ClaimOccurrence
  <2> HIDE DEF claim
  <2>4. EntriesAccounted'
    BY <1>1, <2>2, <2>3, CalmUpdate, CalmEntries DEF RequestAccounting
  <2>5. CASE out = "ok" /\ Claimable(o)
    <3>1. owner' = [pc |-> "claimed", kind |-> "occurrence", occ |-> o, at |-> now,
                    status |-> "absent"]
      BY <1>4, <2>5 DEF ClaimOccurrence
    <3>2. occurrences'[o].status = "running"
      BY <1>4, <2>1, <2>5 DEF ClaimOccurrence, Update, OccurrenceState, RequestAccounting, TypeOK
    <3>3. Sent(o, "occurrence") = 0
      BY <2>1, <2>5 DEF Claimable, RequestAccounting, EntriesAccounted, Open
    <3>4. OwnerAccounted'
      BY <1>1, <2>1, <3>1, <3>2, <3>3 DEF OwnerAccounted, Open, Sent
    <3> QED
      BY <2>1, <2>4, <3>4 DEF RequestAccounting, ResultsFinal
  <2>6. CASE ~(out = "ok" /\ Claimable(o))
    BY <1>1, <1>4, <2>1, <2>4, <2>6
    DEF ClaimOccurrence, RequestAccounting, OwnerAccounted, ResultsFinal
  <2> QED
    BY <2>5, <2>6
<1>5. CASE LoadCompensation(c, out)
  <2>1. /\ owner'.pc \in {"idle", "eligibility"} /\ pendingTerminal' = pendingTerminal
        /\ owner'.pc = "eligibility" => owner'.kind = "compensation" /\ owner'.occ \in Occ
    BY <1>1, <1>5 DEF LoadCompensation, Idle
  <2>2. occurrences' = occurrences
    BY <1>5 DEF LoadCompensation, durable, history
  <2> QED
    BY <1>1, <2>1, <2>2
    DEF RequestAccounting, EntriesAccounted, OwnerAccounted, ResultsFinal, Sent
<1> QED
  BY <1>2, <1>3, <1>4, <1>5

LEMMA HandlerAccounting ==
  ASSUME RequestAccounting, OwnerContinues
  PROVE  EntriesAccounted' /\ OwnerAccounted' /\ ResultsFinal'
<1> DEFINE o == owner.occ
<1>0. /\ TypeOK /\ EntriesAccounted /\ OwnerAccounted /\ ResultsFinal
      /\ owner.kind \in Kind
  BY DEF RequestAccounting, TypeOK, OwnerState
<1>1. CASE EnterExecutor
  <2>1. \/ owner' = Idle
        \/ /\ phase = "up" /\ owner'.kind = owner.kind /\ owner'.occ = o
           /\ \/ owner'.pc = "admitted"
              \/ owner'.pc = "finishing" /\ owner'.status = "skipped"
    BY <1>0, <1>1 DEF EnterExecutor, OwnerState, TypeOK
  <2>2. /\ occurrences' = occurrences /\ requests' = requests
        /\ pendingTerminal' = pendingTerminal /\ phase' = phase
    BY <1>1 DEF EnterExecutor, durable, history, process
  <2>3. owner.pc = "claimed"
    BY <1>1 DEF EnterExecutor
  <2>4. OwnerAccounted'
    BY <1>0, <2>1, <2>2, <2>3 DEF OwnerAccounted, Sent, Final, Idle
  <2> QED
    BY <1>0, <2>2, <2>4 DEF EntriesAccounted, ResultsFinal, Sent
<1>2. ASSUME NEW status \in {"skipped", "failed"}, ExecutorDeclines(status)
      PROVE  EntriesAccounted' /\ OwnerAccounted' /\ ResultsFinal'
  <2>1. /\ owner.pc = "admitted" /\ owner'.pc = "finishing" /\ owner'.status = status
        /\ occurrences' = occurrences /\ requests' = requests
        /\ pendingTerminal' = pendingTerminal /\ phase' = phase
    BY <1>0, <1>2 DEF ExecutorDeclines, durable, history, process, OwnerState, TypeOK
  <2> QED
    BY <1>0, <2>1 DEF EntriesAccounted, OwnerAccounted, ResultsFinal, Sent, Final
<1>3. CASE SendRequest
  <2>1. /\ owner.pc = "admitted" /\ owner'.pc = "probing"
        /\ owner'.kind = owner.kind /\ owner'.occ = o
        /\ occurrences' = occurrences /\ pendingTerminal' = pendingTerminal /\ phase' = phase
    BY <1>0, <1>3 DEF SendRequest, durable, history, process, OwnerState, TypeOK
  <2>2. o \in Occ /\ occurrences[o].status \notin Open
    BY <1>0, <2>1 DEF OwnerAccounted
  <2>3. /\ requests'[o][owner.kind] = requests[o][owner.kind] + 1
        /\ \A q \in Occ, k \in Kind : <<q, k>> # <<o, owner.kind>> => requests'[q][k] = requests[q][k]
    BY <1>0, <1>3, <2>2 DEF SendRequest, TypeOK
  <2>4. \A q \in Occ, k \in Kind : Sent(q, k) \in Nat
    BY <1>0 DEF Sent, TypeOK
  <2>5. CASE owner.kind = "occurrence"
    <3>1. Sent(o, "occurrence") = 0 /\ Sent(o, "compensation") = 0
      BY <1>0, <2>1, <2>2, <2>4, <2>5 DEF OwnerAccounted, EntriesAccounted, Kind
    <3>2. requests'[o]["occurrence"] = 1 /\ requests'[o]["compensation"] = 0
      BY <2>2, <2>3, <2>5, <3>1 DEF Kind, Sent
    <3>3. \A q \in Occ \ {o}, k \in Kind : requests'[q][k] = requests[q][k]
      BY <2>3
    <3>4. EntriesAccounted'
      BY <1>0, <2>1, <2>2, <3>2, <3>3 DEF EntriesAccounted, Kind, Sent
    <3> QED
      BY <1>0, <2>1, <2>2, <2>5, <3>2, <3>4 DEF OwnerAccounted, ResultsFinal, Sent
  <2>6. CASE owner.kind = "compensation"
    <3>1. /\ Sent(o, "occurrence") = 1 /\ Sent(o, "compensation") = 0
          /\ occurrences[o].dueAt = 0
      BY <1>0, <2>1, <2>6 DEF OwnerAccounted
    <3>2. requests'[o]["occurrence"] = 1 /\ requests'[o]["compensation"] = 1
      BY <2>2, <2>3, <2>6, <3>1 DEF Kind, Sent
    <3>3. \A q \in Occ \ {o}, k \in Kind : requests'[q][k] = requests[q][k]
      BY <2>3
    <3>4. EntriesAccounted'
      BY <1>0, <2>1, <2>2, <3>1, <3>2, <3>3 DEF EntriesAccounted, Kind, Sent
    <3> QED
      BY <1>0, <2>1, <2>2, <2>6, <3>1, <3>4 DEF OwnerAccounted, ResultsFinal, Sent
  <2> QED
    BY <1>0, <2>5, <2>6 DEF Kind
<1>4. ASSUME NEW eligible \in BOOLEAN, NEW out, ClaimCompensation(eligible, out)
      PROVE  EntriesAccounted' /\ OwnerAccounted' /\ ResultsFinal'
  <2> DEFINE status == IF eligible THEN "running" ELSE "skipped"
             claim == [occurrences EXCEPT ![o] = CompensationClaim(occurrences[o], status)]
  <2>1. /\ owner.pc = "eligibility" /\ requests' = requests
        /\ pendingTerminal' = pendingTerminal /\ phase' = phase
    BY <1>4 DEF ClaimCompensation, process, history
  <2>2. ASSUME NEW q \in Occ
        PROVE  Calm(occurrences[q], occurrences[q]) /\ Calm(occurrences[q], claim[q])
    BY <1>0 DEF Calm, Open, CompensationClaim, OccurrenceState, TypeOK
  <2>3. \E runs : Update(out, occurrences, runs) \/ Update(out, claim, runs)
    BY <1>4 DEF ClaimCompensation
  <2>4. EntriesAccounted'
    <3> HIDE DEF claim
    <3> QED
      BY <1>0, <2>1, <2>2, <2>3, CalmUpdate, CalmEntries
  <2>5. CASE out = "ok" /\ eligible /\ CompensationClaimable(o)
    <3>1. owner' = [owner EXCEPT !.pc = "claimed"]
      BY <1>4, <2>5 DEF ClaimCompensation
    <3>2. owner'.pc = "claimed" /\ owner'.occ = o /\ owner'.kind = owner.kind
      BY <1>0, <3>1 DEF TypeOK, OwnerState
    <3>3. o \in Occ /\ owner.kind = "compensation"
      BY <1>0, <2>1 DEF OwnerAccounted
    <3>4. occurrences'[o].status = "running" /\ occurrences'[o].dueAt = 0
      <4>1. occurrences' = claim
        BY <1>4, <2>5 DEF ClaimCompensation, Update
      <4> QED
        BY <1>0, <2>5, <3>3, <4>1 DEF CompensationClaim, OccurrenceState, TypeOK
    <3>5. Sent(o, "occurrence") = 1 /\ Sent(o, "compensation") = 0
      BY <1>0, <2>5, <3>3 DEF CompensationClaimable, PendingCompensation, EntriesAccounted
    <3>6. OwnerAccounted'
      BY <1>0, <2>1, <3>2, <3>3, <3>4, <3>5 DEF OwnerAccounted, Sent, Open
    <3> QED
      BY <1>0, <2>1, <2>4, <3>6 DEF ResultsFinal
  <2>6. CASE ~(out = "ok" /\ eligible /\ CompensationClaimable(o))
    <3>1. owner'.pc \in {"idle", "reconciling"} /\ (phase = "down" => FALSE)
      BY <1>0, <1>4, <2>1, <2>6 DEF ClaimCompensation, Idle, OwnerAccounted, OwnerState, TypeOK
    <3> QED
      BY <1>0, <2>1, <2>4, <3>1 DEF OwnerAccounted, ResultsFinal
  <2> QED
    BY <2>5, <2>6
<1>5. ASSUME NEW result, NEW out, RequestReturns(result, out)
      PROVE  EntriesAccounted' /\ OwnerAccounted' /\ ResultsFinal'
  <2> DEFINE dueAt == IF result = "transient" THEN now + CompDelay ELSE 0
             entries == [occurrences EXCEPT ![o].dueAt = dueAt]
  <2>1. /\ owner.pc = "probing" /\ owner'.pc = "finishing" /\ owner'.status \in Final
        /\ requests' = requests /\ pendingTerminal' = pendingTerminal /\ phase' = phase
    BY <1>0, <1>5 DEF RequestReturns, process, history, Final, OwnerState, TypeOK
  <2>2. OwnerAccounted' /\ ResultsFinal'
    BY <1>0, <2>1 DEF OwnerAccounted, ResultsFinal
  <2>3. CASE owner.kind = "occurrence"
    <3>1. /\ o \in Occ /\ occurrences[o].status \notin Open
          /\ Sent(o, "occurrence") = 1 /\ Sent(o, "compensation") = 0
      BY <1>0, <2>1, <2>3 DEF OwnerAccounted
    <3>2. occurrences' = occurrences \/ occurrences' = entries
      BY <1>5, <2>3 DEF RequestReturns, Update
    <3>3. /\ entries[o].status = occurrences[o].status
          /\ \A q \in Occ \ {o} : entries[q] = occurrences[q]
      BY <1>0, <3>1 DEF TypeOK, OccurrenceState
    <3> HIDE DEF entries
    <3> QED
      BY <1>0, <2>1, <2>2, <3>1, <3>2, <3>3 DEF EntriesAccounted, Sent
  <2>4. CASE owner.kind # "occurrence"
    BY <1>0, <1>5, <2>1, <2>2, <2>4 DEF RequestReturns, durable, history, EntriesAccounted, Sent
  <2> QED
    BY <2>3, <2>4
<1>6. ASSUME NEW out, SaveTerminal(out)
      PROVE  EntriesAccounted' /\ OwnerAccounted' /\ ResultsFinal'
  <2> DEFINE p == [kind |-> owner.kind, status |-> owner.status]
  <2>1. /\ owner.pc = "finishing" /\ owner'.pc = "reconciling"
        /\ requests' = requests /\ phase' = phase
    BY <1>0, <1>6 DEF SaveTerminal, process, history, OwnerState, TypeOK
  <2>2. p \in PendingTerminal /\ p.status \in Final
    BY <1>0, <2>1 DEF PendingTerminal, OwnerAccounted, OwnerState, TypeOK
  <2>3. /\ PersistTerminal(o, p, out)
        /\ pendingTerminal' = [pendingTerminal EXCEPT ![o] = IF out = "ok" THEN NoPending ELSE p]
    BY <1>6 DEF SaveTerminal
  <2> HIDE DEF p
  <2>4. EntriesAccounted'
    BY <1>0, <2>1, <2>2, <2>3, CalmTerminal, CalmEntries
  <2>5. ResultsFinal'
    <3>1. NoPending.kind = "none"
      BY DEF NoPending
    <3> QED
      BY <1>0, <2>2, <2>3, <3>1 DEF ResultsFinal, TypeOK
  <2> QED
    BY <1>0, <2>1, <2>4, <2>5 DEF OwnerAccounted
<1>7. ASSUME NEW out, ReconcileAfterCallback(out)
      PROVE  EntriesAccounted' /\ OwnerAccounted' /\ ResultsFinal'
  BY <1>7, ReconcileAccounting
<1> QED
  BY <1>1, <1>2, <1>3, <1>4, <1>5, <1>6, <1>7 DEF OwnerContinues

LEMMA StepAccounting == RequestAccounting /\ [Next]_vars => RequestAccounting'
<1> SUFFICES ASSUME RequestAccounting, [Next]_vars PROVE RequestAccounting'
  OBVIOUS
<1>1. TypeOK'
  BY StepType DEF RequestAccounting
<1>2. CASE UNCHANGED vars
  BY <1>1, <1>2 DEF vars, RequestAccounting, EntriesAccounted, OwnerAccounted, ResultsFinal, Sent
<1>3. CASE Next
  <2>1. ASSUME NEW c \in inbox, OwnerHandles(c)
        PROVE  EntriesAccounted' /\ OwnerAccounted' /\ ResultsFinal'
    BY <2>1, CallbackAccounting, ReconcileAccounting DEF OwnerHandles
  <2>2. EntriesAccounted' /\ OwnerAccounted' /\ ResultsFinal'
    BY <1>3, <2>1, EnvironmentAccounting, ReconcileAccounting, HandlerAccounting DEF Next
  <2> QED
    BY <1>1, <2>2 DEF RequestAccounting
<1> QED
  BY <1>2, <1>3

\* "The external request is never repeated": an occurrence gets at most one
\* preheat request and at most one compensation request, the latter only after
\* the former, through any number of crashes, shutdowns, lost and half-reported
\* writes, stale callbacks and configuration changes.
THEOREM AtMostOneRequest == Spec => []RequestsBounded
<1>1. Init => RequestAccounting
  BY InitAccounting
<1>2. RequestAccounting /\ [Next]_vars => RequestAccounting'
  BY StepAccounting
<1>3. RequestAccounting => RequestsBounded
  BY DEF RequestAccounting, EntriesAccounted, RequestsBounded, Sent
<1> QED
  BY <1>1, <1>2, <1>3, PTL DEF Spec

-----------------------------------------------------------------------------
(***************************************************************************)
(* The scheduler implements OccurrenceLifecycle, with every outcome of its *)
(* writes: also those that report an error although they took effect,      *)
(* which the run "day" leaves out; and it claims nobody whom the saved     *)
(* configuration does not select.                                          *)
(*                                                                         *)
(* The first invariant is the account of the requests and two facts about  *)
(* entries: one with a due time belongs to a preheat that has no           *)
(* compensation yet, and a handler that has claimed an entry finds it as   *)
(* it left it, because only the owner goroutine writes entries.            *)
(***************************************************************************)

WellFormed(e) ==
  /\ e.dueAt # 0 => ~e.attempted /\ e.status \in {"running", "failed"}
  /\ e.status \in Open => ~e.attempted

ClaimInForce ==
  owner.pc \in {"claimed", "admitted", "probing"} =>
    /\ occurrences[owner.occ].status = "running"
    /\ (occurrences[owner.occ].attempted <=> owner.kind = "compensation")

EntriesWellFormed == \A o \in Occ : WellFormed(occurrences[o])

LifecycleInv == RequestAccounting /\ EntriesWellFormed /\ ClaimInForce

\* How an entry may change without a request.
Advances(e, f) ==
  \/ f = e
  \/ e.status \in Open /\ f.status = "planned" /\ f.dueAt = e.dueAt /\ f.attempted = e.attempted
  \/ e.status = "planned" /\ f = [e EXCEPT !.status = "running"]
  \/ PendingCompensation(e) /\ f.status = "running" /\ f.attempted /\ f.dueAt = 0
  \/ f.status \in Final \cup {"missed"} /\ f.dueAt = 0
  \/ f.status = "failed" /\ f.dueAt = e.dueAt /\ f.attempted = e.attempted

LEMMA AdvancedUpdate ==
  ASSUME NEW out, NEW entries, NEW runs, Update(out, entries, runs),
         \A o \in Occ : Advances(occurrences[o], entries[o])
  PROVE  \A o \in Occ : Advances(occurrences[o], occurrences'[o])
  BY DEF Update, Advances

\* An entry that advances stays well formed and makes a move of its lifecycle.
LEMMA AdvancedEntry ==
  ASSUME NEW e \in OccurrenceState, NEW f \in OccurrenceState, WellFormed(e), Advances(e, f),
         e.status \in Open => e.dueAt = 0
  PROVE  /\ WellFormed(f)
         /\ \/ StageOf(f) = StageOf(e)
            \/ StageOf(e) = "unplanned" /\ StageOf(f) = "planned"
            \/ StageOf(e) = "planned" /\ StageOf(f) = "preheating"
            \/ StageOf(e) = "preheating" /\ StageOf(f) = "waiting" /\ e.dueAt # 0
            \/ StageOf(e) = "waiting" /\ StageOf(f) = "compensating"
            \/ StageOf(e) # "done" /\ StageOf(f) = "done"
<1>1. /\ e.status \in Status /\ f.status \in Status
      /\ e.attempted \in BOOLEAN /\ f.attempted \in BOOLEAN
  BY DEF OccurrenceState
<1>2. CASE f = e
  BY <1>2
<1>3. CASE e.status \in Open /\ f.status = "planned" /\ f.dueAt = e.dueAt /\ f.attempted = e.attempted
  <2>1. ~f.attempted
    BY <1>3, Zenon DEF WellFormed
  <2>2. WellFormed(f)
    BY <1>3, <2>1 DEF WellFormed
  <2>3. StageOf(f) = "planned" /\ StageOf(e) \in {"unplanned", "planned"}
    BY <1>1, <1>3, <2>1 DEF StageOf, Open, PendingCompensation
  <2> QED
    BY <2>2, <2>3
<1>4. CASE e.status = "planned" /\ f = [e EXCEPT !.status = "running"]
  <2>1. f.status = "running" /\ f.dueAt = e.dueAt /\ f.attempted = e.attempted
    BY <1>4 DEF OccurrenceState
  <2>2. ~e.attempted
    BY <1>4 DEF WellFormed, Open
  <2>3. ~f.attempted
    BY <2>1, <2>2, Zenon
  <2>4. e.dueAt = 0
    BY <1>4 DEF Open
  <2>5. WellFormed(f)
    BY <2>1, <2>3, <2>4 DEF WellFormed
  <2>6. StageOf(f) = "preheating" /\ StageOf(e) = "planned"
    BY <1>1, <1>4, <2>1, <2>3 DEF StageOf, PendingCompensation
  <2> QED
    BY <2>5, <2>6
<1>5. CASE PendingCompensation(e) /\ f.status = "running" /\ f.attempted /\ f.dueAt = 0
  BY <1>1, <1>5 DEF WellFormed, StageOf, Open, PendingCompensation
<1>6. CASE f.status \in Final \cup {"missed"} /\ f.dueAt = 0
  <2>1. WellFormed(f)
    BY <1>6 DEF WellFormed, Open, Final
  <2>2. StageOf(f) = "done"
    BY <1>6 DEF StageOf, Final, PendingCompensation
  <2> QED
    BY <2>1, <2>2
<1>7. CASE f.status = "failed" /\ f.dueAt = e.dueAt /\ f.attempted = e.attempted
  <2>1. CASE e.dueAt = 0
    BY <1>7, <2>1 DEF StageOf, WellFormed, PendingCompensation, Open
  <2>2. CASE e.dueAt # 0
    BY <1>1, <1>7, <2>2 DEF StageOf, WellFormed, PendingCompensation, Open
  <2> QED
    BY <2>1, <2>2
<1> QED
  BY <1>2, <1>3, <1>4, <1>5, <1>6, <1>7 DEF Advances

(***************************************************************************)
(* Every write of entries lets them advance, and nothing but the owner     *)
(* writes them.                                                            *)
(***************************************************************************)
AllAdvance == \A o \in Occ : Advances(occurrences[o], occurrences'[o])

\* What a step other than SendRequest and RequestReturns keeps.
Steady ==
  /\ requests' = requests
  /\ AllAdvance
  /\ ClaimInForce'

LEMMA UnchangedAdvance == occurrences' = occurrences => AllAdvance
  BY DEF AllAdvance, Advances

LEMMA AdvanceReconcile ==
  ASSUME TypeOK, NEW c, NEW out, NEW taken, NEW onError, ReconcileOwned(c, out, taken, onError)
  PROVE  AllAdvance
<1> DEFINE entries == [o \in Occ |-> ReconciledEntry(c, o)]
<1>1. ASSUME NEW o \in Occ
      PROVE  Advances(occurrences[o], ReconciledEntry(c, o))
  <2>1. occurrences[o] \in OccurrenceState
    BY DEF TypeOK
  <2> QED
    BY <2>1 DEF ReconciledEntry, PlannedEntry, MarkMissed, Advances, Open, OccurrenceState
<1>2. \A o \in Occ : Advances(occurrences[o], entries[o])
  BY <1>1
<1>3. PICK runs : Update(out, entries, runs)
  BY DEF ReconcileOwned
<1> HIDE DEF entries
<1> QED
  BY <1>2, <1>3, AdvancedUpdate DEF AllAdvance

LEMMA AdvanceTerminal ==
  ASSUME TypeOK, NEW o, NEW p \in PendingTerminal, p.status \in Final, NEW out,
         PersistTerminal(o, p, out)
  PROVE  AllAdvance
<1> DEFINE e == TerminalEntry(occurrences[o], p)
           entries == [occurrences EXCEPT ![o] = e]
<1>1. ASSUME o \in Occ
      PROVE  Advances(occurrences[o], e)
  <2>1. occurrences[o] \in OccurrenceState
    BY <1>1 DEF TypeOK
  <2>2. /\ e.status = p.status
        /\ \/ e.dueAt = 0
           \/ /\ e.status = "failed" /\ e.dueAt = occurrences[o].dueAt
              /\ e.attempted = occurrences[o].attempted
    BY <2>1 DEF TerminalEntry, OccurrenceState
  <2> QED
    BY <2>2 DEF Advances
<1>2. PICK runs : Update(out, entries, runs)
  BY DEF PersistTerminal
<1> HIDE DEF e
<1>3. \A q \in Occ : Advances(occurrences[q], entries[q])
  BY <1>1 DEF Advances, TypeOK
<1> HIDE DEF entries
<1> QED
  BY <1>2, <1>3, AdvancedUpdate DEF AllAdvance

LEMMA SteadyEnvironment ==
  ASSUME LifecycleInv,
         \/ Tick \/ UpdateSchedule \/ Crash \/ BeginStop \/ StopReturns
         \/ \E out \in WriteOutcomes : StartScheduler(out)
         \/ \E t \in TimerId : FireTimer(t)
  PROVE  Steady
<1> USE DEF LifecycleInv
<1>1. CASE Tick
  BY <1>1, UnchangedAdvance DEF Tick, process, durable, history, Steady, ClaimInForce
<1>2. CASE UpdateSchedule
  BY <1>2, UnchangedAdvance DEF UpdateSchedule, durable, history, Steady, ClaimInForce
<1>3. CASE Crash \/ StopReturns
  BY <1>3, UnchangedAdvance DEF Crash, StopReturns, ProcessGone, durable, history, Idle, Steady, ClaimInForce
<1>4. CASE BeginStop
  BY <1>4, UnchangedAdvance DEF BeginStop, durable, history, Steady, ClaimInForce
<1>5. ASSUME NEW out \in WriteOutcomes, StartScheduler(out)
      PROVE  Steady
  <2> DEFINE entries == [o \in Occ |-> RecoveredEntry(occurrences[o])]
  <2>1. ASSUME NEW o \in Occ
        PROVE  Advances(occurrences[o], entries[o])
    BY DEF RecoveredEntry, MarkMissed, Advances, OccurrenceState, TypeOK, RequestAccounting
  <2>2. Update(out, entries, nextRuns)
    BY <1>5 DEF StartScheduler
  <2> HIDE DEF entries
  <2>3. AllAdvance
    BY <2>1, <2>2, AdvancedUpdate DEF AllAdvance
  <2>4. owner.pc = "idle" /\ owner' = owner /\ requests' = requests
    BY <1>5 DEF StartScheduler, history, RequestAccounting, OwnerAccounted
  <2> QED
    BY <2>3, <2>4 DEF Steady, ClaimInForce
<1>6. ASSUME NEW t \in TimerId, FireTimer(t)
      PROVE  Steady
  BY <1>6, UnchangedAdvance DEF FireTimer, process, durable, history, Steady, ClaimInForce
<1> QED
  BY <1>1, <1>2, <1>3, <1>4, <1>5, <1>6

LEMMA SteadyReconcile ==
  ASSUME LifecycleInv, NEW out,
         \/ HandleReconcile(out) \/ ReconcileAfterCallback(out)
         \/ \E c \in inbox : HandleHorizon(c, out)
  PROVE  Steady
<1>1. \E c, taken, onError : ReconcileOwned(c, out, taken, onError)
  BY DEF HandleReconcile, ReconcileAfterCallback, HandleHorizon
<1>2. AllAdvance
  BY <1>1, AdvanceReconcile DEF LifecycleInv, RequestAccounting
<1>3. requests' = requests /\ owner'.pc = "idle"
  <2>1. CASE HandleReconcile(out)
    BY <2>1 DEF HandleReconcile
  <2>2. CASE ReconcileAfterCallback(out)
    BY <2>2 DEF ReconcileAfterCallback, Idle
  <2>3. ASSUME NEW c \in inbox, HandleHorizon(c, out)
        PROVE  requests' = requests /\ owner'.pc = "idle"
    BY <2>3 DEF HandleHorizon, OwnerTakes
  <2> QED
    BY <2>1, <2>2, <2>3
<1> QED
  BY <1>2, <1>3 DEF Steady, ClaimInForce

LEMMA SteadyCallback ==
  ASSUME LifecycleInv, NEW c \in inbox, NEW out,
         \/ DropStale(c) \/ RetryTerminal(c, out) \/ ClaimOccurrence(c, out)
         \/ LoadCompensation(c, out)
  PROVE  Steady
<1> DEFINE o == c.timer[2]
<1>0. TypeOK
  BY DEF LifecycleInv, RequestAccounting
<1>1. owner.pc = "idle" /\ requests' = requests
  BY DEF DropStale, RetryTerminal, ClaimOccurrence, LoadCompensation, OwnerTakes, history
<1>2. CASE DropStale(c)
  BY <1>1, <1>2, UnchangedAdvance DEF DropStale, durable, history, Steady, ClaimInForce
<1>3. CASE RetryTerminal(c, out)
  <2>1. o \in Occ /\ pendingTerminal[o].kind # "none"
    BY <1>3 DEF RetryTerminal, Kind
  <2>2. PersistTerminal(o, pendingTerminal[o], out) /\ pendingTerminal[o] \in PendingTerminal
    BY <1>0, <1>3, <2>1 DEF RetryTerminal, TypeOK
  <2>3. pendingTerminal[o].status \in Final
    BY <2>1 DEF LifecycleInv, RequestAccounting, ResultsFinal
  <2>4. AllAdvance
    BY <1>0, <2>2, <2>3, AdvanceTerminal
  <2>5. owner'.pc \in {"idle", "reconciling"}
    BY <1>1, <1>3 DEF RetryTerminal, Idle
  <2> QED
    BY <1>1, <2>4, <2>5 DEF Steady, ClaimInForce
<1>4. CASE ClaimOccurrence(c, out)
  <2> DEFINE claim == [occurrences EXCEPT ![o].status = "running"]
  <2>1. o \in Occ
    BY <1>4 DEF ClaimOccurrence
  <2>2. CASE Claimable(o)
    <3>1. PICK runs : Update(out, claim, runs)
      BY <1>4, <2>2 DEF ClaimOccurrence
    <3>2. occurrences[o] \in OccurrenceState /\ occurrences[o].status = "planned"
      BY <1>0, <2>1, <2>2 DEF Claimable, TypeOK
    <3>3. \A q \in Occ : Advances(occurrences[q], claim[q])
      BY <1>0, <2>1, <3>2 DEF Advances, TypeOK
    <3>4. AllAdvance
      <4> HIDE DEF claim
      <4> QED
        BY <3>1, <3>3, AdvancedUpdate DEF AllAdvance
    <3>5. CASE out = "ok"
      <4>1. owner'.pc = "claimed" /\ owner'.occ = o /\ owner'.kind = "occurrence"
        BY <1>4, <2>2, <3>5 DEF ClaimOccurrence
      <4>2. occurrences'[o].status = "running" /\ occurrences'[o].attempted = occurrences[o].attempted
        BY <1>0, <2>1, <3>1, <3>2, <3>5 DEF Update, TypeOK, OccurrenceState
      <4>3. ~occurrences[o].attempted
        BY <2>1, <3>2 DEF LifecycleInv, EntriesWellFormed, WellFormed, Open
      <4>4. ~occurrences'[o].attempted
        BY <4>2, <4>3, Zenon
      <4> QED
        BY <1>1, <3>4, <4>1, <4>2, <4>4 DEF Steady, ClaimInForce
    <3>6. CASE out # "ok"
      BY <1>1, <1>4, <3>4, <3>6 DEF ClaimOccurrence, Steady, ClaimInForce
    <3> QED
      BY <3>5, <3>6
  <2>3. CASE ~Claimable(o)
    <3>1. occurrences' = occurrences /\ owner' = owner
      BY <1>4, <2>3 DEF ClaimOccurrence, Update
    <3> QED
      BY <1>1, <3>1, UnchangedAdvance DEF Steady, ClaimInForce
  <2> QED
    BY <2>2, <2>3
<1>5. CASE LoadCompensation(c, out)
  <2>1. owner'.pc \in {"idle", "eligibility"} /\ occurrences' = occurrences
    BY <1>1, <1>5 DEF LoadCompensation, Idle, durable, history
  <2> QED
    BY <1>1, <2>1, UnchangedAdvance DEF Steady, ClaimInForce
<1> QED
  BY <1>2, <1>3, <1>4, <1>5

\* The handler of the owner goroutine, but for the two steps around the probe.
LEMMA SteadyHandler ==
  ASSUME LifecycleInv,
         \/ EnterExecutor
         \/ \E status \in {"skipped", "failed"} : ExecutorDeclines(status)
         \/ \E out \in WriteOutcomes :
              \/ \E eligible \in BOOLEAN : ClaimCompensation(eligible, out)
              \/ SaveTerminal(out)
  PROVE  Steady
<1> DEFINE o == owner.occ
<1>0. TypeOK /\ OwnerAccounted /\ owner.kind \in Kind
  BY DEF LifecycleInv, RequestAccounting, TypeOK, OwnerState
<1>1. CASE EnterExecutor
  <2>1. \/ owner'.pc \in {"idle", "finishing"}
        \/ owner'.pc = "admitted" /\ owner'.occ = o /\ owner'.kind = owner.kind
    BY <1>0, <1>1 DEF EnterExecutor, Idle, OwnerState, TypeOK
  <2>2. owner.pc = "claimed" /\ occurrences' = occurrences /\ requests' = requests
    BY <1>1 DEF EnterExecutor, durable, history
  <2> QED
    BY <2>1, <2>2, UnchangedAdvance DEF Steady, LifecycleInv, ClaimInForce
<1>2. ASSUME NEW status \in {"skipped", "failed"}, ExecutorDeclines(status)
      PROVE  Steady
  <2>1. owner'.pc = "finishing" /\ occurrences' = occurrences /\ requests' = requests
    BY <1>0, <1>2 DEF ExecutorDeclines, durable, history, OwnerState, TypeOK
  <2> QED
    BY <2>1, UnchangedAdvance DEF Steady, ClaimInForce
<1>3. ASSUME NEW eligible \in BOOLEAN, NEW out, ClaimCompensation(eligible, out)
      PROVE  Steady
  <2> DEFINE status == IF eligible THEN "running" ELSE "skipped"
             claimed == CompensationClaim(occurrences[o], status)
             claim == [occurrences EXCEPT ![o] = claimed]
  <2>1. /\ owner.pc = "eligibility" /\ requests' = requests
        /\ o \in Occ /\ owner.kind = "compensation"
    BY <1>0, <1>3 DEF ClaimCompensation, history, OwnerAccounted
  <2>2. CASE CompensationClaimable(o)
    <3>1. PICK runs : Update(out, claim, runs)
      BY <1>3, <2>2 DEF ClaimCompensation
    <3>2. PendingCompensation(occurrences[o]) /\ occurrences[o] \in OccurrenceState
      BY <1>0, <2>1, <2>2 DEF CompensationClaimable, TypeOK
    <3>3. claimed.status = status /\ claimed.dueAt = 0 /\ claimed.attempted
      BY <3>2 DEF CompensationClaim, OccurrenceState
    <3>4. Advances(occurrences[o], claimed)
      BY <3>2, <3>3 DEF Advances, Final
    <3> HIDE DEF claimed
    <3>5. \A q \in Occ : Advances(occurrences[q], claim[q])
      BY <1>0, <2>1, <3>4 DEF Advances, TypeOK
    <3>6. AllAdvance
      <4> HIDE DEF claim
      <4> QED
        BY <3>1, <3>5, AdvancedUpdate DEF AllAdvance
    <3>7. CASE out = "ok" /\ eligible
      <4>1. owner' = [owner EXCEPT !.pc = "claimed"]
        BY <1>3, <2>2, <3>7 DEF ClaimCompensation
      <4>2. owner'.occ = o /\ owner'.kind = "compensation"
        BY <1>0, <2>1, <4>1 DEF TypeOK, OwnerState
      <4>3. occurrences'[o] = claimed
        BY <1>0, <2>1, <3>1, <3>7 DEF Update, TypeOK
      <4>4. occurrences'[o].status = "running" /\ occurrences'[o].attempted
        BY <3>3, <3>7, <4>3
      <4> QED
        BY <2>1, <3>6, <4>2, <4>4 DEF Steady, ClaimInForce
    <3>8. CASE ~(out = "ok" /\ eligible)
      <4>1. owner'.pc \in {"idle", "reconciling"}
        BY <1>0, <1>3, <2>1, <3>8 DEF ClaimCompensation, Idle, OwnerState, TypeOK
      <4> QED
        BY <2>1, <3>6, <4>1 DEF Steady, ClaimInForce
    <3> QED
      BY <3>7, <3>8
  <2>3. CASE ~CompensationClaimable(o)
    <3>1. occurrences' = occurrences
      BY <1>3, <2>3 DEF ClaimCompensation, Update
    <3>2. owner'.pc \in {"idle", "reconciling"}
      BY <1>0, <1>3, <2>1, <2>3 DEF ClaimCompensation, Idle, OwnerState, TypeOK
    <3> QED
      BY <2>1, <3>1, <3>2, UnchangedAdvance DEF Steady, ClaimInForce
  <2> QED
    BY <2>2, <2>3
<1>4. ASSUME NEW out, SaveTerminal(out)
      PROVE  Steady
  <2> DEFINE p == [kind |-> owner.kind, status |-> owner.status]
  <2>1. owner.pc = "finishing" /\ owner'.pc = "reconciling" /\ requests' = requests
    BY <1>0, <1>4 DEF SaveTerminal, history, OwnerState, TypeOK
  <2>2. p \in PendingTerminal /\ p.status \in Final
    BY <1>0, <2>1 DEF PendingTerminal, OwnerAccounted, OwnerState, TypeOK
  <2>3. PersistTerminal(o, p, out)
    BY <1>4 DEF SaveTerminal
  <2> HIDE DEF p
  <2>4. AllAdvance
    BY <1>0, <2>2, <2>3, AdvanceTerminal
  <2> QED
    BY <2>1, <2>4 DEF Steady, ClaimInForce
<1> QED
  BY <1>1, <1>2, <1>3, <1>4

(***************************************************************************)
(* The moves of the lifecycle.                                             *)
(***************************************************************************)
LEMMA StageType ==
  ASSUME NEW e \in OccurrenceState
  PROVE  StageOf(e) \in Lifecycle!Stage
<1>1. e.status \in Status /\ e.attempted \in BOOLEAN
  BY DEF OccurrenceState
<1> QED
  BY <1>1 DEF StageOf, Lifecycle!Stage

\* The requests of an occurrence as a record.
LEMMA SentRecord ==
  ASSUME NEW r \in [Kind -> Nat]
  PROVE  r = [occurrence |-> r.occurrence, compensation |-> r.compensation]
  BY DEF Kind

\* A step that sends nothing and lets every entry advance is a lifecycle step.
LEMMA SteadyStep ==
  ASSUME LifecycleInv, TypeOK', Steady
  PROVE  EntriesWellFormed' /\ Lifecycle!Next
<1> DEFINE stage == [q \in Occ |-> StageOf(occurrences[q])]
<1>1. ASSUME NEW o \in Occ
      PROVE  WellFormed(occurrences'[o]) /\ Lifecycle!Quiet(o)
  <2>1. /\ occurrences[o] \in OccurrenceState /\ occurrences'[o] \in OccurrenceState
        /\ WellFormed(occurrences[o]) /\ Advances(occurrences[o], occurrences'[o])
        /\ requests' = requests
    BY DEF LifecycleInv, RequestAccounting, TypeOK, EntriesWellFormed, Steady, AllAdvance
  <2>2. occurrences[o].dueAt # 0 =>
          occurrences[o].status \notin Open /\ requests[o]["occurrence"] = 1
    BY DEF LifecycleInv, RequestAccounting, EntriesAccounted, Sent
  <2>3. Lifecycle!Quiet(o)
    <3>1. stage[o] \in Lifecycle!Stage
      BY <2>1, StageType
    <3>2. stage[o] = StageOf(occurrences[o]) /\ stage'[o] = StageOf(occurrences'[o])
      OBVIOUS
    <3> QED
      BY <2>1, <2>2, <3>1, <3>2, AdvancedEntry DEF Lifecycle!Quiet, Lifecycle!Moves
  <2> QED
    BY <2>1, <2>2, <2>3, AdvancedEntry
<1>2. \A o \in Occ : StageOf(occurrences'[o]) \in Lifecycle!Stage
  BY StageType DEF TypeOK
<1>3. DOMAIN requests' = Occ
  BY DEF TypeOK
<1> QED
  BY <1>1, <1>2, <1>3 DEF EntriesWellFormed, Lifecycle!Next

LEMMA SendStep ==
  ASSUME LifecycleInv, TypeOK', SendRequest
  PROVE  EntriesWellFormed' /\ ClaimInForce' /\ Lifecycle!Next
<1> DEFINE o == owner.occ
<1>0. TypeOK /\ OwnerAccounted /\ EntriesAccounted /\ EntriesWellFormed /\ ClaimInForce
  BY DEF LifecycleInv, RequestAccounting
<1>1. /\ owner.pc = "admitted" /\ owner'.pc = "probing" /\ owner'.occ = o
      /\ owner'.kind = owner.kind /\ owner.kind \in Kind
      /\ occurrences' = occurrences
      /\ requests' = [requests EXCEPT ![o][owner.kind] = @ + 1]
  BY <1>0 DEF SendRequest, durable, history, TypeOK, OwnerState
<1>2. /\ o \in Occ /\ occurrences[o].status = "running"
      /\ occurrences[o].attempted <=> owner.kind = "compensation"
  BY <1>0, <1>1 DEF OwnerAccounted, ClaimInForce
<1>3. EntriesWellFormed' /\ ClaimInForce'
  BY <1>0, <1>1, <1>2 DEF EntriesWellFormed, ClaimInForce
<1>4. \A q \in Occ : StageOf(occurrences'[q]) = StageOf(occurrences[q])
  BY <1>1
<1>5. /\ requests[o] = [occurrence |-> requests[o].occurrence,
                       compensation |-> requests[o].compensation]
      /\ requests'[o] = [occurrence |-> requests'[o].occurrence,
                        compensation |-> requests'[o].compensation]
  <2>1. requests[o] \in [Kind -> Nat] /\ requests'[o] \in [Kind -> Nat]
    BY <1>0, <1>2 DEF TypeOK
  <2> QED
    BY <2>1, SentRecord
<1>6. \A q \in Occ \ {o} : requests'[q] = requests[q]
  BY <1>0, <1>1, <1>2 DEF TypeOK
<1>7. /\ requests'[o][owner.kind] = requests[o][owner.kind] + 1
      /\ \A k \in Kind \ {owner.kind} : requests'[o][k] = requests[o][k]
  BY <1>0, <1>1, <1>2 DEF TypeOK
<1>8. Lifecycle!SendPreheat(o) \/ Lifecycle!SendCompensation(o)
  <2>1. CASE owner.kind = "occurrence"
    <3>1. StageOf(occurrences[o]) = "preheating"
      BY <1>2, <2>1 DEF StageOf, PendingCompensation
    <3>2. requests[o].occurrence = 0 /\ requests[o].compensation = 0
      BY <1>0, <1>1, <1>2, <2>1 DEF OwnerAccounted, EntriesAccounted, Sent, TypeOK, Kind
    <3>3. requests'[o].occurrence = 1 /\ requests'[o].compensation = 0
      BY <1>7, <2>1, <3>2 DEF Kind
    <3>4. requests[o] = Lifecycle!Unsent /\ requests'[o] = [Lifecycle!Unsent EXCEPT !.occurrence = 1]
      BY <1>5, <3>2, <3>3 DEF Lifecycle!Unsent
    <3> QED
      BY <1>2, <1>4, <3>1, <3>4 DEF Lifecycle!SendPreheat
  <2>2. CASE owner.kind = "compensation"
    <3>1. StageOf(occurrences[o]) = "compensating"
      BY <1>2, <2>2 DEF StageOf, PendingCompensation
    <3>2. requests[o].occurrence = 1 /\ requests[o].compensation = 0
      BY <1>0, <1>1, <1>2, <2>2 DEF OwnerAccounted, Sent
    <3>3. requests'[o].occurrence = 1 /\ requests'[o].compensation = 1
      BY <1>7, <2>2, <3>2 DEF Kind
    <3>4. /\ requests[o] = [Lifecycle!Unsent EXCEPT !.occurrence = 1]
          /\ requests'[o] = [requests[o] EXCEPT !.compensation = 1]
      BY <1>5, <3>2, <3>3 DEF Lifecycle!Unsent
    <3> QED
      BY <1>2, <1>4, <3>1, <3>4 DEF Lifecycle!SendCompensation
  <2> QED
    BY <1>1, <2>1, <2>2 DEF Kind
<1>9. \A q \in Occ : Lifecycle!Quiet(q) \/ Lifecycle!SendPreheat(q) \/ Lifecycle!SendCompensation(q)
  BY <1>4, <1>6, <1>8 DEF Lifecycle!Quiet
<1> QED
  BY <1>3, <1>9, StageType DEF TypeOK, Lifecycle!Next

LEMMA ReturnStep ==
  ASSUME LifecycleInv, TypeOK', NEW result, NEW out, RequestReturns(result, out)
  PROVE  EntriesWellFormed' /\ ClaimInForce' /\ Lifecycle!Next
<1> DEFINE o == owner.occ
           dueAt == IF result = "transient" THEN now + CompDelay ELSE 0
           entries == [occurrences EXCEPT ![o].dueAt = dueAt]
<1>0. TypeOK /\ OwnerAccounted /\ EntriesWellFormed /\ ClaimInForce /\ owner.kind \in Kind
  BY DEF LifecycleInv, RequestAccounting, TypeOK, OwnerState
<1>1. /\ owner.pc = "probing" /\ owner'.pc = "finishing" /\ requests' = requests
      /\ \/ occurrences' = occurrences
         \/ owner.kind = "occurrence" /\ occurrences' = entries
  BY <1>0 DEF RequestReturns, Update, durable, history, TypeOK, OwnerState
<1>2. /\ o \in Occ /\ occurrences[o] \in OccurrenceState
      /\ occurrences[o].status = "running"
      /\ occurrences[o].attempted <=> owner.kind = "compensation"
  BY <1>0, <1>1 DEF OwnerAccounted, ClaimInForce, TypeOK
<1>3. ClaimInForce'
  BY <1>1 DEF ClaimInForce
<1>4. \A q \in Occ : /\ WellFormed(occurrences'[q])
                    /\ StageOf(occurrences'[q]) = StageOf(occurrences[q])
  <2>1. CASE occurrences' = occurrences
    BY <1>0, <2>1 DEF EntriesWellFormed
  <2>2. CASE owner.kind = "occurrence" /\ occurrences' = entries
    <3>1. /\ occurrences'[o].status = "running"
          /\ occurrences'[o].attempted = occurrences[o].attempted
          /\ \A q \in Occ \ {o} : occurrences'[q] = occurrences[q]
      BY <1>0, <1>2, <2>2 DEF TypeOK, OccurrenceState
    <3>2. ~occurrences[o].attempted
      BY <1>2, <2>2
    <3>3. ~occurrences'[o].attempted
      BY <3>1, <3>2, Zenon
    <3>4. WellFormed(occurrences'[o]) /\ StageOf(occurrences'[o]) = StageOf(occurrences[o])
      BY <1>2, <3>1, <3>2, <3>3 DEF WellFormed, StageOf, PendingCompensation, Open
    <3> QED
      BY <1>0, <3>1, <3>4 DEF EntriesWellFormed
  <2> QED
    BY <1>1, <2>1, <2>2
<1>5. \A q \in Occ : Lifecycle!Quiet(q)
  BY <1>1, <1>4 DEF Lifecycle!Quiet
<1> QED
  BY <1>3, <1>4, <1>5, StageType DEF EntriesWellFormed, TypeOK, Lifecycle!Next

LEMMA LifecycleInit == Init => LifecycleInv /\ Lifecycle!Init
<1> SUFFICES ASSUME Init PROVE LifecycleInv /\ Lifecycle!Init
  OBVIOUS
<1>1. EntriesWellFormed /\ ClaimInForce
  BY DEF Init, EntriesWellFormed, WellFormed, Absent, ClaimInForce, Idle
<1>2. \A o \in Occ : StageOf(occurrences[o]) = "unplanned"
  BY DEF Init, Absent, StageOf, PendingCompensation
<1>3. requests = [o \in Occ |-> Lifecycle!Unsent]
  BY DEF Init, Kind, Lifecycle!Unsent
<1> QED
  BY <1>1, <1>2, <1>3, InitAccounting DEF LifecycleInv, Lifecycle!Init

LEMMA LifecycleStep ==
  ASSUME LifecycleInv, [Next]_vars
  PROVE  LifecycleInv' /\ [Lifecycle!Next]_(Lifecycle!vars)
<1>1. RequestAccounting' /\ TypeOK'
  BY StepAccounting DEF LifecycleInv, RequestAccounting
<1>2. CASE UNCHANGED vars
  BY <1>1, <1>2
  DEF vars, LifecycleInv, EntriesWellFormed, ClaimInForce, Lifecycle!vars
<1>3. CASE Steady
  BY <1>1, <1>3, SteadyStep DEF Steady, LifecycleInv
<1>4. CASE SendRequest
  BY <1>1, <1>4, SendStep DEF LifecycleInv
<1>5. CASE \E out \in WriteOutcomes, result \in {"succeeded", "transient", "failed"} :
             RequestReturns(result, out)
  BY <1>1, <1>5, ReturnStep DEF LifecycleInv
<1>6. CASE Next
  <2>1. ASSUME NEW c \in inbox, OwnerHandles(c)
        PROVE  Steady
    BY <2>1, SteadyCallback, SteadyReconcile DEF OwnerHandles
  <2>2. CASE OwnerContinues
    BY <1>4, <1>5, <1>3, <2>2, SteadyHandler, SteadyReconcile DEF OwnerContinues
  <2> QED
    BY <1>3, <1>6, <2>1, <2>2, SteadyEnvironment, SteadyReconcile DEF Next
<1> QED
  BY <1>2, <1>6

\* The scheduler implements the lifecycle: whatever writes fail, take effect
\* although they report an error, or are repeated, whatever timers, stops,
\* crashes and schedules come between, an occurrence is planned, preheated,
\* waits, is compensated and is done in this order, and is sent its request
\* only where the lifecycle lets it.
THEOREM LifecycleKept == Spec => KeepsLifecycle
<1>1. Init => LifecycleInv /\ Lifecycle!Init
  BY LifecycleInit
<1>2. LifecycleInv /\ [Next]_vars => LifecycleInv' /\ [Lifecycle!Next]_(Lifecycle!vars)
  BY LifecycleStep
<1> QED
  BY <1>1, <1>2, PTL DEF Spec, KeepsLifecycle, Lifecycle!Spec

(***************************************************************************)
(* Who is claimed.  The owner works by its own copy of the configuration;  *)
(* unless a change waits for it, that copy is the saved configuration, or  *)
(* none at all, by which nobody is selected.                               *)
(***************************************************************************)
Followed ==
  /\ phase = "down" \/ startErr => config = NoConfig
  /\ reconcilePending => ~startErr
  /\ reconcilePending \/ config \in {rtConfig, NoConfig}

LEMMA NobodySelected == \A o \in Occ : ~Selects(NoConfig, o)
  BY DEF Selects, NoConfig

LEMMA StepFollowed ==
  ASSUME Followed, [Next]_vars
  PROVE  Followed'
<1> USE DEF Followed
<1>1. CASE UNCHANGED process
  BY <1>1 DEF process, history
<1>2. CASE UpdateSchedule
  BY <1>2 DEF UpdateSchedule
<1>3. CASE Crash \/ StopReturns
  BY <1>3 DEF Crash, StopReturns, ProcessGone
<1>4. CASE BeginStop
  BY <1>4 DEF BeginStop
<1>5. ASSUME NEW out \in WriteOutcomes, StartScheduler(out)
      PROVE  Followed'
  BY <1>5 DEF StartScheduler
<1>6. ASSUME NEW out \in WriteOutcomes, HandleReconcile(out)
      PROVE  Followed'
  BY <1>6 DEF HandleReconcile
<1>7. ASSUME NEW c \in inbox, OwnerHandles(c)
      PROVE  UNCHANGED process
  BY <1>7 DEF OwnerHandles, DropStale, HandleHorizon, RetryTerminal, ClaimOccurrence,
              LoadCompensation
<1>8. CASE OwnerContinues
  BY <1>1, <1>8 DEF OwnerContinues, EnterExecutor, ExecutorDeclines, SendRequest,
       ClaimCompensation, RequestReturns, SaveTerminal, ReconcileAfterCallback
<1>9. CASE Next
  BY <1>1, <1>2, <1>3, <1>4, <1>5, <1>6, <1>7, <1>8, <1>9 DEF Next, Tick, FireTimer
<1> QED
  BY <1>1, <1>9 DEF vars, process, history

NoneClaimed ==
  \A o \in Occ : occurrences'[o].status = "running" => occurrences[o].status = "running"

LEMMA UnclaimedUpdate ==
  ASSUME NEW out, NEW entries, NEW runs, Update(out, entries, runs),
         \A o \in Occ : entries[o].status = "running" => occurrences[o].status = "running"
  PROVE  NoneClaimed
  BY DEF Update, NoneClaimed

LEMMA UnclaimedReconcile ==
  ASSUME TypeOK, NEW c, NEW out, NEW taken, NEW onError, ReconcileOwned(c, out, taken, onError)
  PROVE  NoneClaimed
<1> DEFINE entries == [o \in Occ |-> ReconciledEntry(c, o)]
<1>1. ASSUME NEW o \in Occ, ReconciledEntry(c, o).status = "running"
      PROVE  occurrences[o].status = "running"
  <2>1. occurrences[o] \in OccurrenceState
    BY DEF TypeOK
  <2> QED
    BY <1>1, <2>1 DEF ReconciledEntry, PlannedEntry, MarkMissed, OccurrenceState
<1>2. \A o \in Occ : entries[o].status = "running" => occurrences[o].status = "running"
  BY <1>1
<1>3. PICK runs : Update(out, entries, runs)
  BY DEF ReconcileOwned
<1> HIDE DEF entries
<1> QED
  BY <1>2, <1>3, UnclaimedUpdate

LEMMA UnclaimedTerminal ==
  ASSUME TypeOK, NEW o, NEW p \in PendingTerminal, p.status \in Final, NEW out,
         PersistTerminal(o, p, out)
  PROVE  NoneClaimed
<1> DEFINE e == TerminalEntry(occurrences[o], p)
           entries == [occurrences EXCEPT ![o] = e]
<1>1. ASSUME o \in Occ
      PROVE  e.status # "running"
  <2>1. occurrences[o] \in OccurrenceState
    BY <1>1 DEF TypeOK
  <2>2. e.status = p.status
    BY <2>1 DEF TerminalEntry, OccurrenceState
  <2> QED
    BY <2>2 DEF Final
<1>2. PICK runs : Update(out, entries, runs)
  BY DEF PersistTerminal
<1> HIDE DEF e
<1>3. \A q \in Occ : entries[q].status = "running" => occurrences[q].status = "running"
  BY <1>1 DEF TypeOK
<1> HIDE DEF entries
<1> QED
  BY <1>2, <1>3, UnclaimedUpdate

Claims(o) == reconcilePending \/ Selects(rtConfig, o)

ClaimedWell == \A o \in Occ :
  occurrences[o].status # "running" /\ occurrences'[o].status = "running" => Claims(o)

LEMMA StepClaims ==
  ASSUME RequestAccounting, Followed, [Next]_vars
  PROVE  ClaimedWell
<1>0. /\ TypeOK /\ OwnerAccounted /\ ResultsFinal
      /\ occurrences \in [Occ -> OccurrenceState] /\ pendingTerminal \in [Occ -> PendingTerminal]
      /\ owner \in OwnerState
  BY DEF RequestAccounting, TypeOK
<1>1. NoneClaimed => ClaimedWell
  BY DEF NoneClaimed, ClaimedWell
<1>2. occurrences' = occurrences => NoneClaimed
  BY DEF NoneClaimed
<1>3. ASSUME NEW out \in WriteOutcomes, StartScheduler(out)
      PROVE  NoneClaimed
  <2> DEFINE entries == [o \in Occ |-> RecoveredEntry(occurrences[o])]
  <2>1. \A o \in Occ : entries[o].status = "running" => occurrences[o].status = "running"
    BY <1>0 DEF RecoveredEntry, MarkMissed, OccurrenceState
  <2>2. Update(out, entries, nextRuns)
    BY <1>3 DEF StartScheduler
  <2> HIDE DEF entries
  <2> QED
    BY <2>1, <2>2, UnclaimedUpdate
<1>4. ASSUME NEW out, HandleReconcile(out) \/ ReconcileAfterCallback(out)
                      \/ \E c \in inbox : HandleHorizon(c, out)
      PROVE  NoneClaimed
  <2>1. \E c, taken, onError : ReconcileOwned(c, out, taken, onError)
    BY <1>4 DEF HandleReconcile, ReconcileAfterCallback, HandleHorizon
  <2> QED
    BY <1>0, <2>1, UnclaimedReconcile
<1>5. ASSUME NEW c \in inbox, NEW out, RetryTerminal(c, out)
      PROVE  NoneClaimed
  <2>1. c.timer[2] \in Occ /\ c.timer[1] # "none" /\ pendingTerminal[c.timer[2]].kind = c.timer[1]
    BY <1>5 DEF RetryTerminal, Kind
  <2>2. /\ pendingTerminal[c.timer[2]] \in PendingTerminal
        /\ pendingTerminal[c.timer[2]].status \in Final
    BY <1>0, <2>1 DEF ResultsFinal
  <2>3. PersistTerminal(c.timer[2], pendingTerminal[c.timer[2]], out)
    BY <1>5 DEF RetryTerminal
  <2> QED
    BY <1>0, <2>2, <2>3, UnclaimedTerminal
<1>6. ASSUME NEW c \in inbox, NEW out, ClaimOccurrence(c, out)
      PROVE  ClaimedWell
  <2> DEFINE o == c.timer[2]
             claim == [occurrences EXCEPT ![o].status = "running"]
  <2>1. CASE Claimable(o)
    <3>1. Claims(o)
      BY <2>1, <1>6, NobodySelected DEF Claimable, Followed, Claims, ClaimOccurrence
    <3>2. occurrences' \in {claim, occurrences}
      BY <1>6, <2>1 DEF ClaimOccurrence, Update
    <3> HIDE DEF o
    <3>3. \A q \in Occ \ {o} : occurrences'[q] = occurrences[q]
      BY <1>0, <3>2
    <3> QED
      BY <3>1, <3>3 DEF ClaimedWell
  <2>2. CASE ~Claimable(o)
    <3>1. occurrences' = occurrences
      BY <1>6, <2>2 DEF ClaimOccurrence, Update
    <3> QED
      BY <1>1, <1>2, <3>1
  <2> QED
    BY <2>1, <2>2
<1>7. ASSUME NEW eligible \in BOOLEAN, NEW out, ClaimCompensation(eligible, out)
      PROVE  ClaimedWell
  <2> DEFINE o == owner.occ
             status == IF eligible THEN "running" ELSE "skipped"
             claim == [occurrences EXCEPT ![o] = CompensationClaim(occurrences[o], status)]
  <2>1. occurrences' \in {claim, occurrences}
    BY <1>7 DEF ClaimCompensation, Update
  <2>2. \A q \in Occ \ {o} : occurrences'[q] = occurrences[q]
    BY <1>0, <2>1
  <2>3. CASE eligible
    <3>1. Claims(o)
      BY <1>7, <2>3 DEF ClaimCompensation, Claims
    <3> QED
      BY <2>2, <3>1 DEF ClaimedWell
  <2>4. CASE ~eligible
    <3>1. o \in Occ => CompensationClaim(occurrences[o], status).status = "skipped"
      BY <1>0, <2>4 DEF CompensationClaim, OccurrenceState
    <3>2. o \in Occ => occurrences'[o].status \in {"skipped", occurrences[o].status}
      BY <1>0, <2>1, <3>1
    <3> QED
      BY <2>2, <3>2 DEF ClaimedWell
  <2> QED
    BY <2>3, <2>4
<1>8. ASSUME NEW result, NEW out, RequestReturns(result, out)
      PROVE  NoneClaimed
  <2> DEFINE dueAt == IF result = "transient" THEN now + CompDelay ELSE 0
             entries == [occurrences EXCEPT ![owner.occ].dueAt = dueAt]
  <2>1. occurrences' \in {entries, occurrences}
    BY <1>8 DEF RequestReturns, Update, durable, history
  <2>2. \A q \in Occ : entries[q].status = occurrences[q].status
    BY <1>0 DEF OccurrenceState
  <2> QED
    BY <2>1, <2>2 DEF NoneClaimed
<1>9. ASSUME NEW out, SaveTerminal(out)
      PROVE  NoneClaimed
  <2> DEFINE p == [kind |-> owner.kind, status |-> owner.status]
  <2>1. p \in PendingTerminal /\ p.status \in Final
    BY <1>0, <1>9 DEF SaveTerminal, PendingTerminal, OwnerAccounted, OwnerState
  <2>2. PersistTerminal(owner.occ, p, out)
    BY <1>9 DEF SaveTerminal
  <2> HIDE DEF p
  <2> QED
    BY <1>0, <2>1, <2>2, UnclaimedTerminal
<1>10. ASSUME NEW c \in inbox, OwnerHandles(c)
       PROVE  ClaimedWell
  BY <1>1, <1>2, <1>4, <1>5, <1>6, <1>10 DEF OwnerHandles, DropStale, LoadCompensation, durable, history
<1>11. CASE OwnerContinues
  BY <1>1, <1>2, <1>4, <1>7, <1>8, <1>9, <1>11
  DEF OwnerContinues, EnterExecutor, ExecutorDeclines, SendRequest, durable, history
<1>12. CASE Tick \/ UpdateSchedule \/ Crash \/ BeginStop \/ StopReturns
            \/ \E t \in TimerId : FireTimer(t)
  BY <1>1, <1>2, <1>12
  DEF Tick, UpdateSchedule, Crash, BeginStop, StopReturns, ProcessGone, FireTimer, durable, history
<1>13. CASE Next
  BY <1>1, <1>3, <1>4, <1>10, <1>11, <1>12, <1>13 DEF Next
<1>14. CASE UNCHANGED vars
  BY <1>1, <1>2, <1>14 DEF vars
<1> QED
  BY <1>13, <1>14

\* scheduler.go 664-666: nobody is claimed whom the saved configuration does not
\* select, unless that change still waits for the owner; a reconciliation that
\* failed does not leave the old selection in force.
THEOREM ClaimsFollow == Spec => ClaimsSelected
<1>1. Init => RequestAccounting /\ Followed
  BY InitAccounting DEF Init, Followed
<1>2. RequestAccounting /\ Followed /\ [Next]_vars => RequestAccounting' /\ Followed'
  BY StepAccounting, StepFollowed
<1>3. RequestAccounting /\ Followed /\ [Next]_vars => [ClaimedWell]_vars
  BY StepClaims
<1>4. ClaimedWell <=> \A o \in Occ :
        occurrences[o].status # "running" /\ occurrences'[o].status = "running" =>
          reconcilePending \/ Selects(rtConfig, o)
  BY DEF ClaimedWell, Claims
<1> QED
  BY <1>1, <1>2, <1>3, <1>4, PTL DEF Spec, ClaimsSelected

-----------------------------------------------------------------------------
(***************************************************************************)
(* Theorems about the timers of Scheduler: once a reconciliation succeeded *)
(* the horizon has its midnight, a result that is not saved keeps the      *)
(* timer that will save it, and what the schedule owes is timed.  A write  *)
(* may report an error and have taken effect all the same; the theorems    *)
(* name what then holds instead.                                           *)
(***************************************************************************)

(***************************************************************************)
(* What the helpers leave of a timer.                                      *)
(***************************************************************************)
LEMMA TimersDistinct ==
  /\ MidnightTimer # ReconcileRetryTimer
  /\ MidnightTimer \notin Kind \X Occ /\ ReconcileRetryTimer \notin Kind \X Occ
  BY DEF MidnightTimer, ReconcileRetryTimer, Kind

LEMMA WithoutKeeps ==
  ASSUME NEW taken, NEW u \in TimerId, \A c \in taken : c.timer # u
  PROVE  Without(taken)[u] = timerDue[u]
  BY DEF Without

LEMMA RetryKeeps ==
  ASSUME NEW due \in [TimerId -> Nat], NEW t, NEW at \in Nat, NEW u \in TimerId, due[u] # 0
  PROVE  RetryTimer(due, t, at)[u] # 0
<1>1. at + RetryDelay \in Nat \ {0}
  BY SchedulerAssumption
<1> QED
  BY <1>1 DEF RetryTimer

LEMMA RetryArms ==
  ASSUME NEW due \in [TimerId -> Nat], NEW t \in TimerId, NEW at \in Nat, phase = "up"
  PROVE  RetryTimer(due, t, at)[t] # 0
<1>1. at + RetryDelay \in Nat \ {0}
  BY SchedulerAssumption
<1> QED
  BY <1>1 DEF RetryTimer

LEMMA ReconcileRetryKeeps ==
  ASSUME TypeOK, NEW due \in [TimerId -> Nat], NEW u \in TimerId, due[u] # 0
  PROVE  ScheduleReconcileRetry(due)[u] # 0
  BY RetryKeeps DEF ScheduleReconcileRetry, TypeOK

LEMMA MidnightKeeps ==
  ASSUME TypeOK, NEW due \in [TimerId -> Nat]
  PROVE  /\ ScheduleMidnight(due)[MidnightTimer] # 0
         /\ \A u \in TimerId \ {MidnightTimer} : ScheduleMidnight(due)[u] = due[u]
<1> DEFINE days == Today(now) + 1
<1>1. days \in Nat \ {0} /\ DayLength \in Nat \ {0}
  BY TodayType, SchedulerAssumption DEF TypeOK
<1> HIDE DEF days
<1>2. days * DayLength # 0
  BY <1>1
<1>3. ScheduleMidnight(due) = [due EXCEPT ![MidnightTimer] = days * DayLength]
  BY DEF ScheduleMidnight, days
<1> QED
  BY <1>2, <1>3, TimerIdType

\* A reconciliation that succeeds arms midnight and keeps the timers of the
\* results that still wait for their write.
LEMMA ReconciledTimersKeep ==
  ASSUME TypeOK, NEW c \in Config, NEW due \in [TimerId -> Nat],
         NEW entries \in [Occ -> OccurrenceState]
  PROVE  /\ ReconciledTimers(c, due, entries)[MidnightTimer] # 0
         /\ \A k \in Kind, o \in Occ :
              pendingTerminal[o].kind = k /\ entries[o].status = "running" /\ due[<<k, o>>] # 0 =>
                ReconciledTimers(c, due, entries)[<<k, o>>] # 0
<1> DEFINE kept == IF c.enabled THEN ReconcileTimers(due, entries) ELSE CancelOccurrenceTimers(due)
<1>1. ASSUME NEW k \in Kind, NEW o \in Occ
      PROVE  ActiveDue(due, entries, k, o) \in Nat
  <2>1. entries[o].plannedAt \in Nat /\ entries[o].dueAt \in Nat
    BY DEF OccurrenceState
  <2>2. due[<<k, o>>] \in Nat /\ RetryTimer(due, <<k, o>>, now)[<<k, o>>] \in Nat
    BY TimerIdType, RetryTimerType DEF TypeOK
  <2> QED
    BY <2>1, <2>2 DEF ActiveDue
<1>2. ReconcileTimers(due, entries) \in [TimerId -> Nat]
  <2>1. ASSUME NEW t \in Kind \X Occ
        PROVE  ActiveDue(due, entries, t[1], t[2]) \in Nat
    BY <1>1
  <2> QED
    BY <2>1 DEF ReconcileTimers
<1>3. CancelOccurrenceTimers(due) \in [TimerId -> Nat]
  BY DEF CancelOccurrenceTimers
<1>4. kept \in [TimerId -> Nat] /\ ReconciledTimers(c, due, entries) = ScheduleMidnight(kept)
  BY <1>2, <1>3 DEF ReconciledTimers
<1>5. ASSUME NEW k \in Kind, NEW o \in Occ, pendingTerminal[o].kind = k,
             entries[o].status = "running", due[<<k, o>>] # 0
      PROVE  kept[<<k, o>>] # 0
  <2>1. <<k, o>> \in Kind \X Occ /\ <<k, o>> \in TimerId
    BY TimerIdType
  <2>2. ReconcileTimers(due, entries)[<<k, o>>] = ActiveDue(due, entries, k, o)
    BY <2>1 DEF ReconcileTimers
  <2>3. ActiveDue(due, entries, k, o) = due[<<k, o>>]
    BY <1>5 DEF ActiveDue, PendingCompensation
  <2>4. CancelOccurrenceTimers(due)[<<k, o>>] = due[<<k, o>>]
    BY <1>5, <2>1 DEF CancelOccurrenceTimers
  <2> QED
    BY <1>5, <2>2, <2>3, <2>4
<1> HIDE DEF kept
<1>6. ASSUME NEW k \in Kind, NEW o \in Occ
      PROVE  <<k, o>> \in TimerId \ {MidnightTimer}
  BY TimerIdType, TimersDistinct
<1> QED
  BY <1>4, <1>5, <1>6, MidnightKeeps

LEMMA ReconcileOwnedKeeps ==
  ASSUME TypeOK, NEW c \in Config, NEW out, NEW taken, NEW onError \in [TimerId -> Nat],
         ReconcileOwned(c, out, taken, onError)
  PROVE  /\ (reconciled => onError[MidnightTimer] # 0) =>
              (reconciled' => timerDue'[MidnightTimer] # 0)
         /\ \A k \in Kind, o \in Occ :
              /\ pendingTerminal[o].kind = k /\ occurrences[o].status = "running"
              /\ Without(taken)[<<k, o>>] # 0 /\ onError[<<k, o>>] # 0
              => timerDue'[<<k, o>>] # 0
<1> DEFINE entries == [o \in Occ |-> ReconciledEntry(c, o)]
           due == IF out = "ok" THEN ReconciledTimers(c, Without(taken), entries) ELSE onError
<1>1. entries \in [Occ -> OccurrenceState] /\ Without(taken) \in [TimerId -> Nat]
  BY ReconciledEntryType, WithoutType
<1>2. /\ reconciled' = (out = "ok" \/ reconciled)
      /\ timerDue' = due
  BY DEF ReconcileOwned, SetTimers
<1>3. \A o \in Occ : occurrences[o].status = "running" => entries[o].status = "running"
  BY DEF ReconciledEntry, PendingCompensation
<1> HIDE DEF entries
<1>4. CASE out = "ok"
  BY <1>1, <1>2, <1>3, <1>4, ReconciledTimersKeep
<1>5. CASE out # "ok"
  BY <1>2, <1>5
<1> QED
  BY <1>4, <1>5

(***************************************************************************)
(* The horizon.                                                            *)
(***************************************************************************)
Horizon == TypeOK /\ (reconciled => timerDue[MidnightTimer] # 0)

LEMMA StepHorizon == Horizon /\ [Next]_vars => Horizon'
<1> SUFFICES ASSUME Horizon, [Next]_vars PROVE reconciled' => timerDue'[MidnightTimer] # 0
  BY StepType DEF Horizon
<1>0. TypeOK /\ timerDue \in [TimerId -> Nat] /\ now \in Nat /\ MidnightTimer \in TimerId
  BY TimerIdType DEF Horizon, TypeOK
<1>1. ASSUME UNCHANGED <<reconciled, timerDue>>
      PROVE  reconciled' => timerDue'[MidnightTimer] # 0
  BY <1>1 DEF Horizon
<1>2. ASSUME reconciled' = reconciled, NEW taken, NEW t, NEW at \in Nat,
             \/ SetTimers(taken, Without(taken))
             \/ SetTimers(taken, RetryTimer(Without(taken), t, at)),
             \A c \in taken : c.timer # MidnightTimer
      PROVE  reconciled' => timerDue'[MidnightTimer] # 0
  <2>1. Without(taken) \in [TimerId -> Nat] /\ Without(taken)[MidnightTimer] = timerDue[MidnightTimer]
    BY <1>0, <1>2, WithoutType, WithoutKeeps
  <2>2. timerDue' \in {Without(taken), RetryTimer(Without(taken), t, at)}
    BY <1>2 DEF SetTimers
  <2> QED
    BY <1>0, <1>2, <2>1, <2>2, RetryKeeps DEF Horizon
<1>3. Without({}) = timerDue
  BY <1>0 DEF Without
<1>4. CASE UNCHANGED vars
  BY <1>1, <1>4 DEF vars
<1>5. CASE Tick \/ UpdateSchedule \/ BeginStop \/ \E t \in TimerId : FireTimer(t)
  BY <1>1, <1>5 DEF Tick, history, UpdateSchedule, BeginStop, FireTimer
<1>6. CASE Crash \/ StopReturns
  BY <1>6 DEF Crash, StopReturns, ProcessGone
<1>7. ASSUME NEW out \in WriteOutcomes, StartScheduler(out)
      PROVE  reconciled' => timerDue'[MidnightTimer] # 0
  BY <1>1, <1>7 DEF StartScheduler, history
<1>8. ASSUME NEW out \in WriteOutcomes, HandleReconcile(out)
      PROVE  reconciled' => timerDue'[MidnightTimer] # 0
  BY <1>0, <1>8, ConfigType, ReconcileOwnedKeeps DEF HandleReconcile, Horizon
<1>9. ASSUME NEW c \in inbox, OwnerHandles(c)
      PROVE  reconciled' => timerDue'[MidnightTimer] # 0
  <2>1. CASE DropStale(c)
    BY <1>1, <2>1 DEF DropStale, history
  <2>2. ASSUME NEW out \in WriteOutcomes, HandleHorizon(c, out)
        PROVE  reconciled' => timerDue'[MidnightTimer] # 0
    <3> DEFINE failed == KeepHorizon(c, Without({c}))
    <3>1. Without({c}) \in [TimerId -> Nat]
      BY <1>0, WithoutType
    <3>2. failed \in [TimerId -> Nat]
      BY <1>0, <3>1, MidnightType DEF KeepHorizon
    <3>3. reconciled => failed[MidnightTimer] # 0
      <4>1. CASE c.timer = MidnightTimer
        BY <1>0, <3>1, <4>1, MidnightKeeps DEF KeepHorizon
      <4>2. CASE c.timer # MidnightTimer
        BY <1>0, <4>2, WithoutKeeps DEF KeepHorizon, Horizon
      <4> QED
        BY <4>1, <4>2
    <3>4. ReconcileOwned(config, out, {c}, ScheduleReconcileRetry(failed))
      BY <2>2 DEF HandleHorizon
    <3> HIDE DEF failed
    <3>5. /\ ScheduleReconcileRetry(failed) \in [TimerId -> Nat]
          /\ reconciled => ScheduleReconcileRetry(failed)[MidnightTimer] # 0
      BY <1>0, <3>2, <3>3, ReconcileRetryType, ReconcileRetryKeeps
    <3> QED
      BY <1>0, <3>4, <3>5, ConfigType, ReconcileOwnedKeeps
  <2>3. ASSUME NEW out, RetryTerminal(c, out) \/ ClaimOccurrence(c, out) \/ LoadCompensation(c, out)
        PROVE  reconciled' => timerDue'[MidnightTimer] # 0
    <3>1. c.timer \in Kind \X Occ /\ reconciled' = reconciled
      BY <2>3 DEF RetryTerminal, history, ClaimOccurrence, LoadCompensation, Kind
    <3>2. \/ SetTimers({c}, Without({c}))
          \/ SetTimers({c}, RetryTimer(Without({c}), c.timer, now))
      BY <2>3 DEF RetryTerminal, history, ClaimOccurrence, LoadCompensation
    <3>3. \A d \in {c} : d.timer # MidnightTimer
      BY <3>1, TimersDistinct
    <3> QED
      BY <1>0, <1>2, <3>1, <3>2, <3>3
  <2> QED
    BY <1>9, <2>1, <2>2, <2>3 DEF OwnerHandles
<1>10. CASE OwnerContinues
  <2>1. CASE EnterExecutor \/ SendRequest \/ \E status \in {"skipped", "failed"} : ExecutorDeclines(status)
    BY <1>1, <2>1 DEF EnterExecutor, history, SendRequest, ExecutorDeclines
  <2>2. ASSUME NEW eligible \in BOOLEAN, NEW out, ClaimCompensation(eligible, out)
        PROVE  reconciled' => timerDue'[MidnightTimer] # 0
    <3>1. /\ reconciled' = reconciled
          /\ \/ SetTimers({}, timerDue)
             \/ SetTimers({}, RetryTimer(timerDue, CompensationTimer(owner.occ), now))
      BY <2>2 DEF ClaimCompensation, history
    <3> QED
      BY <1>0, <1>2, <1>3, <3>1
  <2>3. ASSUME NEW result, NEW out, RequestReturns(result, out)
        PROVE  reconciled' => timerDue'[MidnightTimer] # 0
    BY <1>1, <2>3 DEF RequestReturns, history
  <2>4. ASSUME NEW out, SaveTerminal(out)
        PROVE  reconciled' => timerDue'[MidnightTimer] # 0
    <3>1. owner.at \in Nat
      BY <1>0 DEF TypeOK, OwnerState
    <3>2. PICK at \in Nat : \/ SetTimers({}, timerDue)
                           \/ SetTimers({}, RetryTimer(timerDue, <<owner.kind, owner.occ>>, at))
      BY <1>0, <2>4, <3>1 DEF SaveTerminal, history
    <3> QED
      BY <1>2, <1>3, <2>4, <3>2 DEF SaveTerminal, history
  <2>5. ASSUME NEW out, ReconcileAfterCallback(out)
        PROVE  reconciled' => timerDue'[MidnightTimer] # 0
    <3>1. /\ ScheduleReconcileRetry(timerDue) \in [TimerId -> Nat]
          /\ reconciled => ScheduleReconcileRetry(timerDue)[MidnightTimer] # 0
      BY <1>0, ReconcileRetryType, ReconcileRetryKeeps DEF Horizon
    <3> QED
      BY <1>0, <2>5, <3>1, ConfigType, ReconcileOwnedKeeps DEF ReconcileAfterCallback
  <2> QED
    BY <1>10, <2>1, <2>2, <2>3, <2>4, <2>5 DEF OwnerContinues
<1> QED
  BY <1>4, <1>5, <1>6, <1>7, <1>8, <1>9, <1>10 DEF Next

\* scheduler.go 299-310: once a reconciliation succeeded there is a timer for
\* the next midnight, whatever writes fail and whatever is reconfigured.
THEOREM HorizonKept == Spec => []HorizonAlive
<1>1. Init => Horizon
  BY InitType DEF Init, Horizon
<1>2. Horizon => HorizonAlive
  BY DEF Horizon, HorizonAlive
<1> QED
  BY <1>1, <1>2, StepHorizon, PTL DEF Spec

(***************************************************************************)
(* Results that wait for their write.  What is missing from the two        *)
(* invariants is who answers for a running occurrence while the owner is   *)
(* busy with it, and that a result waits for an occurrence that is past    *)
(* its claim: only then no claim finds an old result of its own kind.  A   *)
(* write may have taken effect although it reported an error: misreported  *)
(* names what it did.                                                      *)
(***************************************************************************)
Busy == {"claimed", "admitted", "probing", "finishing"}
Running(o) == occurrences[o].status = "running"
Owned(o) == owner.pc \in Busy /\ owner.occ = o
Owed(o) == pendingTerminal[o].kind # "none"
Misclaimed(o) == <<o, "running">> \in misreported

OwnerRuns == owner.pc \in Busy => owner.occ \in Occ /\ Running(owner.occ)
OwedClosed == \A o \in Occ : Owed(o) => occurrences[o].status \notin Open
EligibleFree == owner.pc = "eligibility" => pendingTerminal[owner.occ].kind # "compensation"
DownOwesNothing == phase = "down" => owner.pc = "idle" /\ \A o \in Occ : ~Owed(o)
RunningAnswered == phase = "up" /\ ~startErr =>
  \A o \in Occ : Running(o) => Owed(o) \/ Owned(o) \/ Misclaimed(o)
OwedTimed == phase = "up" => \A o \in Occ, k \in Kind : Unsaved(o, k) => timerDue[<<k, o>>] # 0

Answers == OwnerRuns /\ OwedClosed /\ EligibleFree /\ DownOwesNothing /\ RunningAnswered /\ OwedTimed

AnswersInv == RequestAccounting /\ Answers

\* What a write has done: all of it, nothing, or all of it with an error, and
\* then misreported names what it has changed.
LEMMA WriteEffect ==
  ASSUME NEW out \in WriteOutcomes, NEW entries, NEW runs, Update(out, entries, runs)
  PROVE  /\ misreported \subseteq misreported'
         /\ out = "ok" => occurrences' = entries /\ nextRuns' = runs
         /\ out # "ok" => /\ UNCHANGED <<occurrences, nextRuns>> \/ (occurrences' = entries /\ nextRuns' = runs)
                          /\ \A o \in Occ :
                               \/ Scheduled(occurrences'[o], nextRuns'[o]) = Scheduled(occurrences[o], nextRuns[o])
                               \/ <<o, occurrences'[o].status>> \in misreported'
<1>1. out \in {"ok", "lost", "kept"}
  BY SchedulerAssumption
<1>2. CASE out = "lost"
  BY <1>2 DEF Update
<1>3. CASE out = "ok"
  BY <1>3 DEF Update
<1>4. CASE out = "kept"
  <2>1. occurrences' = entries /\ nextRuns' = runs
    BY <1>4 DEF Update
  <2>2. ASSUME NEW o \in Occ, Scheduled(entries[o], runs[o]) # Scheduled(occurrences[o], nextRuns[o])
        PROVE  <<o, entries[o].status>> \in misreported'
    BY <1>4, <2>2 DEF Update
  <2>3. misreported \subseteq misreported'
    BY DEF Update
  <2> QED
    BY <1>4, <2>1, <2>2, <2>3
<1> QED
  BY <1>1, <1>2, <1>3, <1>4

\* An occurrence that runs only since a write that failed is misreported.
LEMMA MisclaimedRuns ==
  ASSUME NEW out \in WriteOutcomes, out # "ok", NEW entries, NEW runs, Update(out, entries, runs),
         NEW o \in Occ, occurrences'[o].status = "running"
  PROVE  Running(o) \/ Misclaimed(o)'
<1>1. \/ Scheduled(occurrences'[o], nextRuns'[o]) = Scheduled(occurrences[o], nextRuns[o])
      \/ <<o, occurrences'[o].status>> \in misreported'
  BY WriteEffect
<1> QED
  BY <1>1 DEF Scheduled, Running, Misclaimed

LEMMA EnvironmentAnswers ==
  ASSUME AnswersInv,
         \/ Tick \/ UpdateSchedule \/ Crash \/ BeginStop \/ StopReturns
         \/ \E out \in WriteOutcomes : StartScheduler(out)
         \/ \E t \in TimerId : FireTimer(t)
  PROVE  Answers'
<1> USE DEF Answers, OwnerRuns, OwedClosed, EligibleFree, DownOwesNothing, RunningAnswered, OwedTimed,
            Running, Owned, Owed, Misclaimed, Unsaved
<1>0. TypeOK /\ Answers
  BY DEF AnswersInv, RequestAccounting
<1>1. CASE Tick
  BY <1>0, <1>1 DEF Tick, process, durable
<1>2. CASE UpdateSchedule
  BY <1>0, <1>2 DEF UpdateSchedule, durable
<1>3. CASE BeginStop
  BY <1>0, <1>3 DEF BeginStop, durable
<1>4. ASSUME NEW t \in TimerId, FireTimer(t)
      PROVE  Answers'
  BY <1>0, <1>4 DEF FireTimer, process, durable
<1>5. CASE Crash \/ StopReturns
  <2>1. phase' = "down" /\ owner'.pc = "idle" /\ \A o \in Occ : pendingTerminal'[o].kind = "none"
    BY <1>5 DEF Crash, StopReturns, ProcessGone, Idle, NoPending
  <2> QED
    BY <2>1 DEF Busy
<1>6. ASSUME NEW out \in WriteOutcomes, StartScheduler(out)
      PROVE  Answers'
  <2>1. /\ phase = "down" /\ phase' = "up" /\ startErr' = (out # "ok")
        /\ UNCHANGED <<pendingTerminal, owner, timerDue>>
    BY <1>6 DEF StartScheduler
  <2>2. owner.pc = "idle" /\ \A o \in Occ : pendingTerminal[o].kind = "none"
    BY <1>0, <2>1
  <2>3. out = "ok" => \A o \in Occ : occurrences'[o].status # "running"
    <3>1. ASSUME NEW o \in Occ
          PROVE  RecoveredEntry(occurrences[o]).status # "running"
      BY <1>0 DEF RecoveredEntry, MarkMissed, OccurrenceState, TypeOK
    <3>2. Update(out, [o \in Occ |-> RecoveredEntry(occurrences[o])], nextRuns)
      BY <1>6 DEF StartScheduler
    <3> QED
      BY <3>1, <3>2 DEF Update
  <2>4. \A o \in Occ, k \in Kind : pendingTerminal[o].kind # k
    BY <2>2 DEF Kind
  <2> QED
    BY <2>1, <2>2, <2>3, <2>4 DEF Busy
<1> QED
  BY <1>1, <1>2, <1>3, <1>4, <1>5, <1>6

\* The owner claims nothing, and the results that wait keep waiting.
LEMMA AnswersKept ==
  ASSUME Answers, UNCHANGED <<phase, startErr, pendingTerminal>>,
         owner'.pc \notin Busy, owner.pc \notin Busy, phase = "up",
         owner'.pc = "eligibility" => pendingTerminal[owner'.occ].kind # "compensation",
         misreported \subseteq misreported',
         \A o \in Occ : occurrences'[o].status \in Open => occurrences[o].status \in Open,
         \A o \in Occ : occurrences'[o].status = "running" => Running(o) \/ Misclaimed(o)',
         \A o \in Occ, k \in Kind : Unsaved(o, k)' => timerDue'[<<k, o>>] # 0
  PROVE  Answers'
<1>1. OwnerRuns' /\ EligibleFree' /\ DownOwesNothing' /\ OwedTimed'
  BY DEF OwnerRuns, EligibleFree, DownOwesNothing, OwedTimed
<1>2. OwedClosed'
  BY DEF Answers, OwedClosed, Owed
<1>3. RunningAnswered'
  BY DEF Answers, RunningAnswered, Running, Owed, Owned, Misclaimed
<1> QED
  BY <1>1, <1>2, <1>3 DEF Answers

LEMMA ReconcileAnswers ==
  ASSUME AnswersInv, NEW out \in WriteOutcomes,
         \/ HandleReconcile(out) \/ (ReconcileAfterCallback(out) /\ phase = "up")
         \/ \E c \in inbox : HandleHorizon(c, out)
  PROVE  Answers'
<1>0. TypeOK /\ Answers /\ timerDue \in [TimerId -> Nat]
  BY DEF AnswersInv, RequestAccounting, TypeOK
<1>1. ASSUME NEW c \in Config, NEW taken, NEW onError \in [TimerId -> Nat],
             ReconcileOwned(c, out, taken, onError),
             \A k \in Kind, o \in Occ : timerDue[<<k, o>>] # 0 =>
               Without(taken)[<<k, o>>] # 0 /\ onError[<<k, o>>] # 0,
             owner.pc \notin Busy, owner'.pc = "idle", phase = "up",
             UNCHANGED <<phase, startErr, pendingTerminal>>
      PROVE  Answers'
  <2> DEFINE entries == [o \in Occ |-> ReconciledEntry(c, o)]
  <2>1. \A o \in Occ : entries[o].status = "running" => entries[o] = occurrences[o]
    <3>1. ASSUME NEW o \in Occ, ReconciledEntry(c, o).status = "running"
          PROVE  ReconciledEntry(c, o) = occurrences[o]
      <4>1. occurrences[o] \in OccurrenceState
        BY <1>0 DEF TypeOK
      <4> QED
        BY <3>1, <4>1 DEF ReconciledEntry, PlannedEntry, MarkMissed, OccurrenceState
    <3> QED
      BY <3>1
  <2>2. PICK runs : Update(out, entries, runs)
    BY <1>1 DEF ReconcileOwned
  <2> HIDE DEF entries
  <2>3. misreported \subseteq misreported' /\ (occurrences' = entries \/ occurrences' = occurrences)
    BY <2>2, WriteEffect
  <2>4. \A o \in Occ : occurrences'[o].status = "running" => occurrences'[o] = occurrences[o]
    BY <2>1, <2>3
  <2>5. \A o \in Occ : occurrences'[o].status \in Open => occurrences[o].status \in Open
    BY <1>0, <1>1, CalmReconcile DEF Calm
  <2>6. ASSUME NEW o \in Occ, NEW k \in Kind, Unsaved(o, k)'
        PROVE  timerDue'[<<k, o>>] # 0
    <3>1. Unsaved(o, k) /\ timerDue[<<k, o>>] # 0
      BY <1>0, <1>1, <2>4, <2>6 DEF Answers, OwedTimed, Unsaved
    <3> QED
      BY <1>0, <1>1, <3>1, ReconcileOwnedKeeps DEF Unsaved
  <2>7. owner'.pc \notin Busy /\ owner'.pc # "eligibility"
    BY <1>1 DEF Busy
  <2> QED
    BY <1>0, <1>1, <2>3, <2>4, <2>5, <2>6, <2>7, AnswersKept DEF Running
<1>2. Without({}) = timerDue
  BY <1>0 DEF Without
<1>3. ASSUME NEW k \in Kind, NEW o \in Occ, timerDue[<<k, o>>] # 0
      PROVE  ScheduleReconcileRetry(timerDue)[<<k, o>>] # 0
  BY <1>0, <1>3, TimerIdType, ReconcileRetryKeeps
<1>4. CASE HandleReconcile(out)
  <2>1. /\ ReconcileOwned(rtConfig, out, {}, timerDue)
        /\ owner.pc = "idle" /\ owner' = owner /\ phase = "up"
        /\ UNCHANGED <<phase, startErr, pendingTerminal>>
    BY <1>4 DEF HandleReconcile
  <2> QED
    BY <1>0, <1>1, <1>2, <2>1, ConfigType DEF Busy
<1>5. CASE ReconcileAfterCallback(out) /\ phase = "up"
  <2>1. /\ ReconcileOwned(config, out, {}, ScheduleReconcileRetry(timerDue))
        /\ owner.pc = "reconciling" /\ owner'.pc = "idle"
        /\ UNCHANGED <<phase, startErr, pendingTerminal>>
    BY <1>5 DEF ReconcileAfterCallback, process, history, Idle
  <2>2. ScheduleReconcileRetry(timerDue) \in [TimerId -> Nat]
    BY <1>0, ReconcileRetryType
  <2> QED
    BY <1>0, <1>1, <1>2, <1>3, <1>5, <2>1, <2>2, ConfigType DEF Busy
<1>6. ASSUME NEW c \in inbox, HandleHorizon(c, out)
      PROVE  Answers'
  <2> DEFINE failed == KeepHorizon(c, Without({c}))
  <2>1. /\ ReconcileOwned(config, out, {c}, ScheduleReconcileRetry(failed))
        /\ owner.pc = "idle" /\ owner' = owner /\ phase = "up"
        /\ UNCHANGED <<phase, startErr, pendingTerminal>>
        /\ c.timer \notin Kind \X Occ
    BY <1>6, TimersDistinct DEF HandleHorizon, OwnerTakes, process, history
  <2>2. failed \in [TimerId -> Nat] /\ Without({c}) \in [TimerId -> Nat]
    BY <1>0, WithoutType, MidnightType DEF KeepHorizon
  <2>3. ASSUME NEW k \in Kind, NEW o \in Occ, timerDue[<<k, o>>] # 0
        PROVE  Without({c})[<<k, o>>] # 0 /\ ScheduleReconcileRetry(failed)[<<k, o>>] # 0
    <3>1. <<k, o>> \in Kind \X Occ /\ <<k, o>> \in TimerId \ {MidnightTimer} /\ c.timer # <<k, o>>
      BY <2>1, TimerIdType, TimersDistinct
    <3>2. Without({c})[<<k, o>>] # 0
      BY <2>3, <3>1, WithoutKeeps
    <3>3. failed[<<k, o>>] # 0
      BY <1>0, <2>2, <3>1, <3>2, MidnightKeeps DEF KeepHorizon
    <3> HIDE DEF failed
    <3> QED
      BY <1>0, <2>2, <3>1, <3>2, <3>3, ReconcileRetryKeeps
  <2>4. ScheduleReconcileRetry(failed) \in [TimerId -> Nat]
    BY <1>0, <2>2, ReconcileRetryType
  <2> HIDE DEF failed
  <2> QED
    BY <1>0, <1>1, <2>1, <2>3, <2>4, ConfigType DEF Busy
<1> QED
  BY <1>4, <1>5, <1>6

\* A handler that arms at most one retry keeps the timers it has not consumed.
LEMMA OthersKeep ==
  ASSUME TypeOK, NEW taken, NEW t, NEW at \in Nat,
         \/ SetTimers(taken, Without(taken))
         \/ SetTimers(taken, RetryTimer(Without(taken), t, at)),
         NEW u \in TimerId, \A c \in taken : c.timer # u, timerDue[u] # 0
  PROVE  timerDue'[u] # 0
<1>1. Without(taken) \in [TimerId -> Nat] /\ Without(taken)[u] = timerDue[u]
  BY WithoutType, WithoutKeeps
<1>2. timerDue' \in {Without(taken), RetryTimer(Without(taken), t, at)}
  BY DEF SetTimers
<1> QED
  BY <1>1, <1>2, RetryKeeps

LEMMA AllKeep ==
  ASSUME TypeOK, NEW t, NEW at \in Nat,
         SetTimers({}, timerDue) \/ SetTimers({}, RetryTimer(timerDue, t, at)),
         NEW u \in TimerId, timerDue[u] # 0
  PROVE  timerDue'[u] # 0
<1>1. timerDue \in [TimerId -> Nat]
  BY DEF TypeOK
<1>2. timerDue' \in {timerDue, RetryTimer(timerDue, t, at)}
  BY DEF SetTimers
<1> QED
  BY <1>1, <1>2, RetryKeeps

LEMMA TerminalStatus ==
  ASSUME NEW e \in OccurrenceState, NEW p \in PendingTerminal, p.status \in Final
  PROVE  TerminalEntry(e, p).status \in Final
<1>1. TerminalEntry(e, p).status = p.status
  BY DEF TerminalEntry, OccurrenceState
<1> QED
  BY <1>1

LEMMA CallbackAnswers ==
  ASSUME AnswersInv, NEW c \in inbox, NEW out \in WriteOutcomes,
         \/ DropStale(c) \/ RetryTerminal(c, out) \/ ClaimOccurrence(c, out)
         \/ LoadCompensation(c, out)
  PROVE  Answers'
<1> DEFINE o == c.timer[2]
<1>0. /\ TypeOK /\ Answers /\ ResultsFinal /\ now \in Nat
      /\ occurrences \in [Occ -> OccurrenceState] /\ pendingTerminal \in [Occ -> PendingTerminal]
      /\ phase = "up" /\ owner.pc = "idle" /\ UNCHANGED <<phase, startErr>>
  BY DEF AnswersInv, RequestAccounting, Answers, TypeOK, DropStale, RetryTerminal,
         ClaimOccurrence, LoadCompensation, OwnerTakes, process
<1>1. /\ \A q \in Occ : Running(q) => Owed(q) \/ Misclaimed(q) \/ startErr
      /\ \A q \in Occ : Owed(q) => occurrences[q].status \notin Open
      /\ \A q \in Occ, k \in Kind : Unsaved(q, k) => timerDue[<<k, q>>] # 0
  BY <1>0 DEF Answers, RunningAnswered, OwedClosed, OwedTimed, Owned, Busy
<1>2. CASE DropStale(c)
  <2>1. UNCHANGED <<occurrences, misreported, pendingTerminal, timerDue, owner>>
    BY <1>2 DEF DropStale, durable
  <2>2. \A q \in Occ, k \in Kind : Unsaved(q, k)' => timerDue'[<<k, q>>] # 0
    BY <1>1, <2>1 DEF Unsaved
  <2> QED
    BY <1>0, <2>1, <2>2, AnswersKept DEF Busy, Running
<1>3. ASSUME \/ RetryTerminal(c, out) \/ ClaimOccurrence(c, out) \/ LoadCompensation(c, out)
      PROVE  /\ c.timer \in Kind \X Occ /\ o \in Occ
             /\ c.timer = <<c.timer[1], o>> /\ c.timer \in TimerId
             /\ \/ SetTimers({c}, Without({c}))
                \/ SetTimers({c}, RetryTimer(Without({c}), c.timer, now))
  BY <1>3, TimerIdType DEF RetryTerminal, ClaimOccurrence, LoadCompensation, Kind
<1>4. ASSUME RetryTerminal(c, out) \/ ClaimOccurrence(c, out) \/ LoadCompensation(c, out),
             NEW k \in Kind, NEW q \in Occ, Unsaved(q, k), <<k, q>> # c.timer
      PROVE  timerDue'[<<k, q>>] # 0
  <2>1. \/ SetTimers({c}, Without({c}))
        \/ SetTimers({c}, RetryTimer(Without({c}), c.timer, now))
    BY <1>3, <1>4
  <2>2. <<k, q>> \in TimerId /\ timerDue[<<k, q>>] # 0 /\ \A d \in {c} : d.timer # <<k, q>>
    BY <1>1, <1>4, TimerIdType
  <2>3. TypeOK /\ now \in Nat
    BY <1>0
  <2>4. CASE SetTimers({c}, Without({c}))
    BY <2>2, <2>4, WithoutKeeps DEF SetTimers
  <2>5. CASE SetTimers({c}, RetryTimer(Without({c}), c.timer, now))
    BY ONLY <2>2, <2>3, <2>5, OthersKeep
  <2> QED
    BY <2>1, <2>4, <2>5
<1>5. CASE RetryTerminal(c, out)
  <2>1. pendingTerminal[o].kind = c.timer[1] /\ Owed(o)
    BY <1>3, <1>5 DEF RetryTerminal, Owed, Kind
  <2>2. pendingTerminal[o] \in PendingTerminal /\ pendingTerminal[o].status \in Final
    BY <1>0, <1>3, <1>5, <2>1 DEF ResultsFinal, Owed
  <2>3. \A q \in Occ \ {o}, k \in Kind : <<k, q>> # c.timer
    BY <1>3, <1>5
  <2> DEFINE entries == [occurrences EXCEPT ![o] = TerminalEntry(occurrences[o], pendingTerminal[o])]
  <2>4. PICK runs : Update(out, entries, runs)
    BY <1>5 DEF RetryTerminal, PersistTerminal
  <2>5. entries[o].status \in Final /\ \A q \in Occ \ {o} : entries[q] = occurrences[q]
    BY <1>0, <1>3, <1>5, <2>2, TerminalStatus
  <2> HIDE DEF entries
  <2>6. /\ misreported \subseteq misreported' /\ (out = "ok" => occurrences' = entries)
        /\ occurrences' = entries \/ occurrences' = occurrences
    BY <2>4, WriteEffect
  <2>7. CASE out = "ok"
    <3>1. /\ pendingTerminal' = [pendingTerminal EXCEPT ![o] = NoPending]
          /\ owner'.pc = "reconciling"
      BY <1>5, <2>7 DEF RetryTerminal, Idle
    <3> HIDE DEF o
    <3>2. /\ \A q \in Occ \ {o} : occurrences'[q] = occurrences[q]
          /\ \A q \in Occ \ {o} : pendingTerminal'[q] = pendingTerminal[q]
          /\ occurrences'[o].status # "running" /\ pendingTerminal'[o].kind = "none"
      BY <1>0, <1>3, <1>5, <2>5, <2>6, <2>7, <3>1 DEF NoPending, Final
    <3>3. \A q \in Occ, k \in Kind : Unsaved(q, k)' => timerDue'[<<k, q>>] # 0
      BY <1>4, <1>5, <2>3, <3>2 DEF Unsaved
    <3>4. OwedClosed' /\ RunningAnswered'
      BY <1>0, <1>1, <2>6, <3>2 DEF OwedClosed, RunningAnswered, Running, Owed, Misclaimed
    <3> QED
      BY <1>0, <3>1, <3>3, <3>4 DEF Answers, OwnerRuns, EligibleFree, DownOwesNothing, OwedTimed, Busy
  <2>8. CASE out # "ok"
    <3>1. UNCHANGED <<pendingTerminal, owner>>
      BY <1>5, <2>8 DEF RetryTerminal
    <3>2. timerDue'[c.timer] # 0
      <4>1. SetTimers({c}, RetryTimer(Without({c}), c.timer, now))
        BY <1>5, <2>8 DEF RetryTerminal
      <4> QED
        BY <1>0, <1>3, <1>5, <4>1, WithoutType, RetryArms DEF SetTimers
    <3>3. \A q \in Occ : occurrences'[q] = occurrences[q] \/ occurrences'[q].status \in Final
      BY <2>5, <2>6
    <3>4. \A q \in Occ : /\ occurrences'[q].status = "running" => Running(q)
                         /\ occurrences'[q].status \in Open => occurrences[q].status \in Open
      BY <3>3 DEF Running, Final, Open
    <3>5. \A q \in Occ, k \in Kind : Unsaved(q, k)' => Unsaved(q, k)
      BY <3>1, <3>3 DEF Unsaved, Final
    <3>6. \A q \in Occ, k \in Kind : Unsaved(q, k)' => timerDue'[<<k, q>>] # 0
      BY <1>4, <1>5, <3>2, <3>5
    <3> QED
      BY <1>0, <2>6, <3>1, <3>4, <3>6, AnswersKept DEF Busy
  <2> QED
    BY <2>7, <2>8
<1>6. CASE ClaimOccurrence(c, out)
  <2>1. /\ pendingTerminal[o].kind # "occurrence" /\ c.timer[1] = "occurrence"
        /\ pendingTerminal' = pendingTerminal
    BY <1>6 DEF ClaimOccurrence, history
  <2>2. Claimable(o) => ~Owed(o)
    BY <1>1, <1>3, <1>6 DEF Claimable, Open
  <2> DEFINE entries == IF Claimable(o) THEN [occurrences EXCEPT ![o].status = "running"]
                                        ELSE occurrences
  <2>3. PICK runs : Update(out, entries, runs)
    <3>1. CASE Claimable(o)
      BY <1>6, <3>1 DEF ClaimOccurrence
    <3>2. CASE ~Claimable(o)
      BY <1>6, <3>2 DEF ClaimOccurrence
    <3> QED
      BY <3>1, <3>2
  <2>4. /\ \A q \in Occ \ {o} : entries[q] = occurrences[q]
        /\ Claimable(o) => entries[o].status = "running"
        /\ ~Claimable(o) => entries = occurrences
    BY <1>0, <1>3, <1>6 DEF OccurrenceState
  <2> HIDE DEF entries
  <2>5. /\ misreported \subseteq misreported' /\ (out = "ok" => occurrences' = entries)
        /\ occurrences' = entries \/ occurrences' = occurrences
    BY <2>3, WriteEffect
  <2>6. \A q \in Occ, k \in Kind : Unsaved(q, k)' => timerDue'[<<k, q>>] # 0
    <3>1. ASSUME NEW q \in Occ, NEW k \in Kind, Unsaved(q, k)'
          PROVE  Unsaved(q, k) /\ <<k, q>> # c.timer
      <4>1. Owed(q) /\ pendingTerminal[q].kind = k
        BY <2>1, <3>1 DEF Unsaved, Owed, Kind
      <4>2. occurrences'[q] = occurrences[q]
        BY <2>2, <2>4, <2>5, <4>1
      <4>3. <<k, q>> # c.timer
        BY <1>3, <1>6, <2>1, <4>1
      <4> QED
        BY <2>1, <3>1, <4>2, <4>3 DEF Unsaved
    <3> QED
      BY <1>4, <1>6, <3>1
  <2>7. CASE out = "ok" /\ Claimable(o)
    <3>1. owner'.pc = "claimed" /\ owner'.occ = o
      BY <1>6, <2>7 DEF ClaimOccurrence
    <3> HIDE DEF o
    <3>2. occurrences'[o].status = "running" /\ \A q \in Occ \ {o} : occurrences'[q] = occurrences[q]
      BY <2>4, <2>5, <2>7
    <3>3. OwnerRuns' /\ OwedClosed' /\ RunningAnswered'
      BY <1>0, <1>1, <1>3, <1>6, <2>1, <2>2, <2>5, <2>7, <3>1, <3>2
      DEF OwnerRuns, OwedClosed, RunningAnswered, Running, Owed, Owned, Misclaimed, Busy
    <3> QED
      BY <1>0, <2>6, <3>1, <3>3 DEF Answers, EligibleFree, DownOwesNothing, OwedTimed
  <2>8. CASE ~(out = "ok" /\ Claimable(o))
    <3>1. owner' = owner
      BY <1>6, <2>8 DEF ClaimOccurrence
    <3>2. \A q \in Occ : occurrences'[q].status = "running" => Running(q) \/ Misclaimed(q)'
      BY <2>3, <2>4, <2>5, <2>8, MisclaimedRuns DEF Running
    <3>3. \A q \in Occ : occurrences'[q].status \in Open => occurrences[q].status \in Open
      BY <2>4, <2>5 DEF Open
    <3> QED
      BY <1>0, <2>1, <2>5, <2>6, <3>1, <3>2, <3>3, AnswersKept DEF Busy
  <2> QED
    BY <2>7, <2>8
<1>7. CASE LoadCompensation(c, out)
  <2>1. /\ pendingTerminal[o].kind # "compensation" /\ c.timer[1] = "compensation"
        /\ UNCHANGED <<pendingTerminal, occurrences, misreported>>
        /\ owner' = owner \/ (owner'.pc = "eligibility" /\ owner'.occ = o)
    BY <1>0, <1>7 DEF LoadCompensation, durable, Idle
  <2>2. \A q \in Occ, k \in Kind : Unsaved(q, k)' => Unsaved(q, k) /\ <<k, q>> # c.timer
    BY <1>3, <1>7, <2>1 DEF Unsaved
  <2>3. \A q \in Occ, k \in Kind : Unsaved(q, k)' => timerDue'[<<k, q>>] # 0
    BY <1>4, <1>7, <2>2
  <2> QED
    BY <1>0, <2>1, <2>3, AnswersKept DEF Busy, Running
<1> QED
  BY <1>2, <1>5, <1>6, <1>7

\* The owner goes on past its claim; when the process is being stopped only
\* what concerns the owner and the results in memory is claimed.
LEMMA HandlerAnswers ==
  ASSUME AnswersInv, OwnerContinues
  PROVE  Answers'
<1> DEFINE o == owner.occ
<1>0. /\ TypeOK /\ Answers /\ OwnerRuns /\ OwedClosed /\ OwnerAccounted /\ now \in Nat
      /\ occurrences \in [Occ -> OccurrenceState] /\ pendingTerminal \in [Occ -> PendingTerminal]
      /\ timerDue \in [TimerId -> Nat] /\ owner.kind \in Kind /\ owner.at \in Nat
  BY DEF AnswersInv, RequestAccounting, Answers, TypeOK, OwnerState
<1>1. phase # "down" /\ UNCHANGED <<phase, startErr>>
  <2>1. owner.pc # "idle"
    BY DEF OwnerContinues, EnterExecutor, ExecutorDeclines, SendRequest, ClaimCompensation,
           RequestReturns, SaveTerminal, ReconcileAfterCallback
  <2>2. UNCHANGED <<phase, startErr>>
    BY DEF OwnerContinues, EnterExecutor, ExecutorDeclines, SendRequest, ClaimCompensation,
           RequestReturns, SaveTerminal, ReconcileAfterCallback, process
  <2> QED
    BY <1>0, <2>1, <2>2 DEF OwnerAccounted
<1>2. \A q \in Occ, k \in Kind : phase = "up" /\ Unsaved(q, k) => timerDue[<<k, q>>] # 0
  BY <1>0 DEF Answers, OwedTimed
<1>3. ASSUME UNCHANGED <<pendingTerminal, timerDue>>, misreported \subseteq misreported',
             \A q \in Occ : /\ occurrences'[q].status = occurrences[q].status
                            /\ occurrences'[q].attempted = occurrences[q].attempted,
             owner.pc \in Busy,
             \/ owner'.pc \in Busy /\ owner'.occ = owner.occ
             \/ owner'.pc \notin Busy \cup {"eligibility"} /\ phase # "up"
      PROVE  Answers'
  <2>1. OwedTimed'
    BY <1>1, <1>2, <1>3 DEF OwedTimed, Unsaved
  <2>2. RunningAnswered'
    BY <1>0, <1>1, <1>3 DEF Answers, RunningAnswered, Running, Owed, Owned, Misclaimed
  <2> QED
    BY <1>0, <1>1, <1>3, <2>1, <2>2
    DEF Answers, OwnerRuns, OwedClosed, EligibleFree, DownOwesNothing, Running, Owed, Busy
<1>4. CASE EnterExecutor
  <2>1. CASE phase # "up"
    BY <1>3, <1>4, <2>1 DEF EnterExecutor, durable, Idle, Busy
  <2>2. CASE phase = "up"
    <3>1. owner'.pc \in {"admitted", "finishing"} /\ owner'.occ = owner.occ
      BY <1>0, <1>4, <2>2 DEF EnterExecutor, TypeOK, OwnerState
    <3> QED
      BY <1>3, <1>4, <3>1 DEF EnterExecutor, durable, Busy
  <2> QED
    BY <2>1, <2>2
<1>5. CASE SendRequest \/ \E status \in {"skipped", "failed"} : ExecutorDeclines(status)
  <2>1. owner'.pc \in {"probing", "finishing"} /\ owner'.occ = owner.occ
    BY <1>0, <1>5 DEF SendRequest, ExecutorDeclines, TypeOK, OwnerState
  <2> QED
    BY <1>3, <1>5, <2>1 DEF SendRequest, ExecutorDeclines, durable, Busy
<1>6. ASSUME NEW result, NEW out \in WriteOutcomes, RequestReturns(result, out)
      PROVE  Answers'
  <2>1. owner'.pc = "finishing" /\ owner'.occ = owner.occ /\ owner.pc = "probing"
    BY <1>0, <1>6 DEF RequestReturns, TypeOK, OwnerState
  <2>2. /\ misreported \subseteq misreported'
        /\ \E at : occurrences' \in {occurrences, [occurrences EXCEPT ![o].dueAt = at]}
    <3>1. CASE owner.kind = "occurrence"
      <4>1. PICK at : Update(out, [occurrences EXCEPT ![o].dueAt = at], nextRuns)
        BY <1>6, <3>1 DEF RequestReturns
      <4> HIDE DEF o
      <4> QED
        BY <4>1, WriteEffect
    <3>2. CASE owner.kind # "occurrence"
      BY <1>6, <3>2 DEF RequestReturns, durable
    <3> QED
      BY <3>1, <3>2
  <2>3. \A q \in Occ : /\ occurrences'[q].status = occurrences[q].status
                       /\ occurrences'[q].attempted = occurrences[q].attempted
    <3> HIDE DEF o
    <3> QED
      BY <1>0, <2>2 DEF OccurrenceState
  <2> QED
    BY <1>3, <1>6, <2>1, <2>2, <2>3 DEF RequestReturns, Busy
<1>7. ASSUME NEW eligible \in BOOLEAN, NEW out \in WriteOutcomes, ClaimCompensation(eligible, out)
      PROVE  Answers'
  <2> DEFINE status == IF eligible THEN "running" ELSE "skipped"
             claimed == CompensationClaim(occurrences[o], status)
             entries == IF CompensationClaimable(o) THEN [occurrences EXCEPT ![o] = claimed]
                                                    ELSE occurrences
  <2>1. /\ owner.pc = "eligibility" /\ o \in Occ /\ pendingTerminal' = pendingTerminal
        /\ pendingTerminal[o].kind # "compensation"
    BY <1>0, <1>7 DEF ClaimCompensation, OwnerAccounted, Answers, EligibleFree
  <2>2. PICK runs : Update(out, entries, runs)
    <3>1. CASE CompensationClaimable(o)
      BY <1>7, <3>1 DEF ClaimCompensation
    <3>2. CASE ~CompensationClaimable(o)
      BY <1>7, <3>2 DEF ClaimCompensation
    <3> QED
      BY <3>1, <3>2
  <2>3. claimed.status = status /\ claimed.attempted = TRUE
    BY <1>0, <2>1 DEF CompensationClaim, OccurrenceState
  <2> HIDE DEF claimed
  <2>4. /\ \A q \in Occ \ {o} : entries[q] = occurrences[q]
        /\ CompensationClaimable(o) => entries[o] = claimed
        /\ ~CompensationClaimable(o) => entries = occurrences
    BY <1>0, <2>1
  <2> HIDE DEF entries
  <2>7. /\ misreported \subseteq misreported' /\ (out = "ok" => occurrences' = entries)
        /\ occurrences' = entries \/ occurrences' = occurrences
    BY <2>2, WriteEffect
  <2>8. OwedTimed'
    <3>1. \/ SetTimers({}, timerDue)
          \/ SetTimers({}, RetryTimer(timerDue, CompensationTimer(o), now))
      BY <1>7 DEF ClaimCompensation
    <3>2. ASSUME NEW q \in Occ, NEW k \in Kind, phase = "up", Unsaved(q, k)'
          PROVE  timerDue'[<<k, q>>] # 0
      <4>1. occurrences'[q] = occurrences[q]
        <5>1. CASE q # o
          BY <2>4, <2>7, <5>1
        <5>2. CASE q = o
          <6>1. occurrences'[o] # claimed
            BY <2>1, <2>3, <3>2, <5>2 DEF Unsaved
          <6> QED
            BY <2>4, <2>7, <5>2, <6>1
        <5> QED
          BY <5>1, <5>2
      <4>2. <<k, q>> \in TimerId /\ timerDue[<<k, q>>] # 0
        BY <1>2, <2>1, <3>2, <4>1, TimerIdType DEF Unsaved
      <4> QED
        BY <1>0, <3>1, <4>2, AllKeep
    <3> QED
      BY <1>1, <3>2 DEF OwedTimed
  <2>9. OwedClosed'
    <3>1. \A q \in Occ : occurrences'[q].status \in Open => occurrences[q].status \in Open
      BY <2>3, <2>4, <2>7 DEF Open
    <3> QED
      BY <1>0, <2>1, <3>1 DEF OwedClosed, Owed
  <2>10. phase = "up" /\ ~startErr => \A q \in Occ : Running(q) => Owed(q) \/ Misclaimed(q)
    BY <1>0, <2>1 DEF Answers, RunningAnswered, Owned, Busy
  <2>11. CASE out = "ok" /\ eligible /\ CompensationClaimable(o)
    <3>1. owner'.pc = "claimed" /\ owner'.occ = o
      BY <1>0, <1>7, <2>11 DEF ClaimCompensation, TypeOK, OwnerState
    <3> HIDE DEF o
    <3>2. occurrences'[o].status = "running" /\ \A q \in Occ \ {o} : occurrences'[q] = occurrences[q]
      BY <2>3, <2>4, <2>7, <2>11
    <3>3. OwnerRuns' /\ RunningAnswered'
      BY <1>1, <2>1, <2>7, <2>10, <3>1, <3>2
      DEF OwnerRuns, RunningAnswered, Running, Owed, Owned, Misclaimed, Busy
    <3> QED
      BY <1>1, <2>8, <2>9, <3>1, <3>3 DEF Answers, EligibleFree, DownOwesNothing
  <2>12. CASE ~(out = "ok" /\ eligible /\ CompensationClaimable(o))
    <3>1. owner'.pc \in {"idle", "reconciling"}
      BY <1>7, <2>12 DEF ClaimCompensation, Idle
    <3>2. \A q \in Occ : occurrences'[q].status = "running" => Running(q) \/ Misclaimed(q)'
      <4>1. CASE out = "ok"
        BY <2>3, <2>4, <2>7, <2>12, <4>1 DEF Running
      <4>2. CASE out # "ok"
        BY <2>2, <4>2, MisclaimedRuns
      <4> QED
        BY <4>1, <4>2
    <3>3. OwnerRuns' /\ RunningAnswered' /\ EligibleFree'
      BY <1>1, <2>1, <2>7, <2>10, <3>1, <3>2
      DEF OwnerRuns, RunningAnswered, EligibleFree, Running, Owed, Misclaimed, Busy
    <3> QED
      BY <1>1, <2>8, <2>9, <3>3 DEF Answers, DownOwesNothing
  <2> QED
    BY <2>11, <2>12
<1>8. ASSUME NEW out \in WriteOutcomes, SaveTerminal(out)
      PROVE  Answers'
  <2> DEFINE p == [kind |-> owner.kind, status |-> owner.status]
             at == IF owner.kind = "occurrence" THEN owner.at ELSE now
             entries == [occurrences EXCEPT ![o] = TerminalEntry(occurrences[o], p)]
  <2>1. /\ owner.pc = "finishing" /\ o \in Occ /\ Running(o) /\ owner.status \in Final
        /\ owner'.pc = "reconciling"
    BY <1>0, <1>8 DEF SaveTerminal, OwnerRuns, Busy, OwnerAccounted
  <2>2. p \in PendingTerminal /\ p.status \in Final /\ at \in Nat /\ p.kind = owner.kind
    BY <1>0, <2>1 DEF PendingTerminal, TypeOK, OwnerState
  <2>3. /\ PersistTerminal(o, p, out)
        /\ pendingTerminal' = [pendingTerminal EXCEPT ![o] = IF out = "ok" THEN NoPending ELSE p]
        /\ SetTimers({}, IF out = "ok" THEN timerDue ELSE RetryTimer(timerDue, <<owner.kind, o>>, at))
    BY <1>8 DEF SaveTerminal
  <2>4. PICK runs : Update(out, entries, runs)
    BY <2>3 DEF PersistTerminal
  <2>5. entries[o].status \in Final /\ \A q \in Occ \ {o} : entries[q] = occurrences[q]
    BY <1>0, <2>1, <2>2, TerminalStatus
  <2> HIDE DEF at, entries
  <2>6. /\ misreported \subseteq misreported' /\ (out = "ok" => occurrences' = entries)
        /\ occurrences' = entries \/ occurrences' = occurrences
    BY <2>4, WriteEffect
  <2>7. \A q \in Occ, k \in Kind : phase = "up" /\ Unsaved(q, k) => timerDue'[<<k, q>>] # 0
    <3>1. \/ SetTimers({}, timerDue)
          \/ SetTimers({}, RetryTimer(timerDue, <<owner.kind, o>>, at))
      BY <2>3
    <3>2. ASSUME NEW q \in Occ, NEW k \in Kind, phase = "up", Unsaved(q, k)
          PROVE  timerDue'[<<k, q>>] # 0
      <4>1. <<k, q>> \in TimerId /\ timerDue[<<k, q>>] # 0
        BY <1>2, <3>2, TimerIdType
      <4> QED
        BY <1>0, <2>2, <3>1, <4>1, AllKeep
    <3> QED
      BY <3>2
  <2>8. phase = "up" /\ out # "ok" => timerDue'[<<owner.kind, o>>] # 0
    BY <1>0, <2>1, <2>2, <2>3, TimerIdType, RetryArms DEF SetTimers
  <2> HIDE DEF o, p
  <2>9. /\ pendingTerminal'[o] = IF out = "ok" THEN NoPending ELSE p
        /\ \A q \in Occ \ {o} : pendingTerminal'[q] = pendingTerminal[q]
        /\ \A q \in Occ \ {o} : occurrences'[q] = occurrences[q]
        /\ occurrences'[o].status \in Final \cup {"running"}
        /\ out = "ok" => occurrences'[o].status \in Final
    BY <1>0, <2>1, <2>3, <2>5, <2>6 DEF Running
  <2>10. OwedTimed'
    <3>1. ASSUME NEW q \in Occ, q = o, NEW k \in Kind, phase = "up", Unsaved(q, k)'
          PROVE  timerDue'[<<k, q>>] # 0
      <4>1. pendingTerminal'[q].kind = k /\ k # "none"
        BY <3>1 DEF Unsaved, Kind
      <4>2. out # "ok" /\ k = owner.kind
        BY <2>2, <2>9, <3>1, <4>1 DEF NoPending
      <4> QED
        BY <2>8, <3>1, <4>2
    <3>2. ASSUME NEW q \in Occ \ {o}, NEW k \in Kind, phase = "up", Unsaved(q, k)'
          PROVE  timerDue'[<<k, q>>] # 0
      BY <2>7, <2>9, <3>2 DEF Unsaved
    <3> QED
      BY <1>1, <3>1, <3>2 DEF OwedTimed
  <2>11. OwedClosed'
    BY <1>0, <2>9 DEF OwedClosed, Owed, Open, Final
  <2>12. RunningAnswered'
    <3>1. phase = "up" /\ ~startErr => \A q \in Occ \ {o} : Running(q) => Owed(q) \/ Misclaimed(q)
      BY <1>0 DEF Answers, RunningAnswered, Owned, o
    <3>2. occurrences'[o].status = "running" => pendingTerminal'[o].kind # "none"
      BY <1>0, <2>2, <2>9 DEF Final, Kind
    <3> QED
      BY <1>1, <2>6, <2>9, <3>1, <3>2 DEF RunningAnswered, Running, Owed, Misclaimed
  <2> QED
    BY <1>1, <2>1, <2>10, <2>11, <2>12 DEF Answers, OwnerRuns, EligibleFree, DownOwesNothing, Busy
<1>9. ASSUME NEW out \in WriteOutcomes, ReconcileAfterCallback(out)
      PROVE  Answers'
  <2>1. CASE phase = "up"
    BY <1>9, <2>1, ReconcileAnswers
  <2>2. CASE phase # "up"
    <3>1. /\ owner'.pc = "idle" /\ pendingTerminal' = pendingTerminal
          /\ ReconcileOwned(config, out, {}, ScheduleReconcileRetry(timerDue))
      BY <1>9 DEF ReconcileAfterCallback, Idle
    <3>2. \A q \in Occ : occurrences'[q].status \in Open => occurrences[q].status \in Open
      BY <1>0, <3>1, CalmReconcile DEF Calm
    <3>3. OwedClosed'
      BY <1>0, <3>1, <3>2 DEF OwedClosed, Owed
    <3> QED
      BY <1>1, <2>2, <3>1, <3>3
      DEF Answers, OwnerRuns, EligibleFree, DownOwesNothing, RunningAnswered, OwedTimed, Busy
  <2> QED
    BY <2>1, <2>2
<1> QED
  BY <1>4, <1>5, <1>6, <1>7, <1>8, <1>9 DEF OwnerContinues

LEMMA InitAnswers == Init => AnswersInv
<1> SUFFICES ASSUME Init PROVE Answers
  BY InitAccounting DEF AnswersInv
<1> QED
  BY DEF Init, Answers, OwnerRuns, OwedClosed, EligibleFree, DownOwesNothing, RunningAnswered,
         OwedTimed, Running, Owed, Owned, Busy, Idle, NoPending, Absent

LEMMA StepAnswers ==
  AnswersInv /\ [Next]_vars => AnswersInv'
<1> SUFFICES ASSUME AnswersInv, [Next]_vars PROVE Answers'
  BY StepAccounting DEF AnswersInv
<1>1. CASE UNCHANGED vars
  BY <1>1 DEF vars, durable, history, AnswersInv, Answers, OwnerRuns, OwedClosed, EligibleFree, DownOwesNothing,
              RunningAnswered, OwedTimed, Running, Owed, Owned, Misclaimed, Unsaved
<1>2. ASSUME NEW c \in inbox, OwnerHandles(c)
      PROVE  Answers'
  <2>1. CASE DropStale(c)
    <3>1. CASE WriteOutcomes = {}
      <4>1. /\ phase = "up" /\ owner.pc = "idle"
            /\ UNCHANGED <<phase, startErr, occurrences, timerDue, pendingTerminal, owner, misreported>>
        BY <2>1 DEF DropStale, OwnerTakes, process, durable, history
      <4> QED
        BY <4>1 DEF AnswersInv, Answers, OwnerRuns, OwedClosed, EligibleFree, DownOwesNothing,
                    RunningAnswered, OwedTimed, Running, Owed, Owned, Misclaimed, Unsaved
    <3>2. CASE WriteOutcomes # {}
      BY <2>1, <3>2, CallbackAnswers
    <3> QED
      BY <3>1, <3>2
  <2> QED
    BY <1>2, <2>1, CallbackAnswers, ReconcileAnswers DEF OwnerHandles
<1>3. CASE Next
  BY <1>2, <1>3, EnvironmentAnswers, ReconcileAnswers, HandlerAnswers DEF Next
<1> QED
  BY <1>1, <1>3

\* scheduler.go 477: an occurrence that the owner left running has its result in
\* memory, whatever became of the writes, unless the claim of it took effect and
\* reported an error (675-678, 757-760): then nobody in this process knows that it runs.
THEOREM RunningAnsweredFor == Spec => []RunningHasResult
<1>1. AnswersInv => RunningHasResult
  BY DEF AnswersInv, Answers, RunningAnswered, RunningHasResult, Settled, Owned, Owed, Running, Busy,
         Misclaimed
<1>2. AnswersInv /\ [Next]_vars => AnswersInv'
  BY StepAnswers
<1> QED
  BY <1>1, <1>2, InitAnswers, PTL DEF Spec

\* scheduler.go 476-491 and 815-822: and that result keeps the timer that will
\* save it, over failed reconciliations, changes of the schedule and disabling,
\* and over any number of further failures of that write, of either kind.
THEOREM ResultsTimed == Spec => []PendingResultHasTimer
<1>1. AnswersInv => PendingResultHasTimer
  BY DEF AnswersInv, Answers, OwedTimed, PendingResultHasTimer, Settled
<1>2. AnswersInv /\ [Next]_vars => AnswersInv'
  BY StepAnswers
<1> QED
  BY <1>1, <1>2, InitAnswers, PTL DEF Spec

(***************************************************************************)
(* Timers cover what is owed.  TimerCoverage is not inductive.  A callback *)
(* may only take the timer of a planned occurrence when its time has come, *)
(* so callbacks under way must carry due timers; a compensation timer may  *)
(* only be consumed for nothing when something else will reconcile, so     *)
(* while nothing else does, the timer stands for a run the present         *)
(* configuration would claim; and between the two looks of the handler of  *)
(* a compensation nothing changes its mind.  What a write plans although   *)
(* it reports an error was planned by a reconciliation, and one that fails *)
(* arms the next or is reported itself; a result that is on disk though    *)
(* its write failed keeps the timer that repeats the write.                *)
(***************************************************************************)
Serving == phase = "up" /\ ~startErr

\* A reconciliation will come, or its failure was reported to the operator.
Backed == timerDue[ReconcileRetryTimer] # 0 \/ ~applied \/ owner.pc = "reconciling"

Planned(o) ==
  LET e == occurrences[o]
  IN  e.status = "planned" /\ nextRuns[o] = e.plannedAt /\ e.plannedAt > now
Waits(o) == PendingCompensation(occurrences[o]) /\ nextRuns[o] # 0

CallbacksDue ==
  \A c \in inbox : c.current /\ c.timer # MidnightTimer => timerDue[c.timer] <= now \/ now = MaxTime

InTime(o) == occurrences[o].status = "planned" => occurrences[o].plannedAt <= MaxTime
PlannedTimed(o) == Planned(o) =>
  \/ timerDue[OccurrenceTimer(o)] = occurrences[o].plannedAt
  \/ <<o, "planned">> \in misreported /\ Backed
WaitTimed(o) == Waits(o) =>
  \/ Backed
  \/ pendingTerminal[o].kind = "occurrence" /\ timerDue[OccurrenceTimer(o)] # 0
  \/ owner.pc = "eligibility" /\ owner.occ = o
  \/ timerDue[CompensationTimer(o)] # 0 /\ nextRuns[o] = occurrences[o].dueAt /\ Selects(config, o)

Covered(o) == InTime(o) /\ (Serving => PlannedTimed(o) /\ WaitTimed(o))

EligibleWaits == Serving /\ owner.pc = "eligibility" => CompensationClaimable(owner.occ)

Coverage == CallbacksDue /\ (\A o \in Occ : Covered(o)) /\ EligibleWaits

CoverageInv == AnswersInv /\ Coverage

\* MaxTime stands for every later instant, so every plan lies within it.
PlansInTime == \A c \in Configs : \A o \in Occ : c.plan[o] <= MaxTime

LEMMA ReconciledInTime ==
  ASSUME PlansInTime, TypeOK, NEW c \in Configs \cup {NoConfig}, NEW o \in Occ, InTime(o)
  PROVE  LET e == ReconciledEntry(c, o)
         IN  e.status = "planned" => e.plannedAt <= MaxTime
<1>1. occurrences[o] \in OccurrenceState /\ c.plan[o] <= MaxTime
  BY SchedulerAssumption DEF PlansInTime, NoConfig, TypeOK
<1> QED
  BY <1>1 DEF ReconciledEntry, PlannedEntry, MarkMissed, InTime, OccurrenceState

LEMMA TimerNames ==
  ASSUME NEW o \in Occ
  PROVE  /\ OccurrenceTimer(o) = <<"occurrence", o>> /\ CompensationTimer(o) = <<"compensation", o>>
         /\ {OccurrenceTimer(o), CompensationTimer(o)} \subseteq TimerId \ {MidnightTimer, ReconcileRetryTimer}
         /\ OccurrenceTimer(o) # CompensationTimer(o)
         /\ \A k \in Kind, q \in Occ \ {o} :
              <<k, q>> # OccurrenceTimer(o) /\ <<k, q>> # CompensationTimer(o)
         /\ ReconcileRetryTimer \in TimerId
  BY TimerIdType, TimersDistinct DEF OccurrenceTimer, CompensationTimer, Kind

\* Replacing a timer takes the callbacks under way off the current ones.
LEMMA CallbacksStayDue ==
  ASSUME TypeOK, CallbacksDue, now' = now, NEW taken, NEW due, SetTimers(taken, due)
  PROVE  CallbacksDue'
<1> SUFFICES ASSUME NEW c \in inbox', c.current, c.timer # MidnightTimer
             PROVE  timerDue'[c.timer] <= now \/ now = MaxTime
  BY DEF CallbacksDue
<1> DEFINE bumped == {t \in TimerId : due[t] # timerDue[t]} \cup {d.timer : d \in taken}
<1>1. timerDue' = due /\ inbox' = {[d EXCEPT !.current = @ /\ d.timer \notin bumped] : d \in inbox \ taken}
  BY DEF SetTimers
<1>2. PICK d \in inbox \ taken : c = [d EXCEPT !.current = @ /\ d.timer \notin bumped]
  BY <1>1
<1>3. d \in [timer : TimerId, current : BOOLEAN]
  BY <1>2 DEF TypeOK
<1>4. c.timer = d.timer /\ d.timer \in TimerId /\ c.current = (d.current /\ d.timer \notin bumped)
  BY <1>2, <1>3
<1>5. due[d.timer] = timerDue[d.timer] /\ d.current
  BY <1>4
<1> QED
  BY <1>1, <1>2, <1>4, <1>5 DEF CallbacksDue

\* A step about occurrence o leaves the others covered.
LEMMA OthersCovered ==
  ASSUME NEW o, \A q \in Occ : Covered(q), UNCHANGED <<now, phase, startErr, config, applied>>,
         owner.pc # "reconciling", owner.pc = "eligibility" => owner.occ = o,
         misreported \subseteq misreported',
         \A q \in Occ \ {o} : /\ occurrences'[q] = occurrences[q] /\ nextRuns'[q] = nextRuns[q]
                              /\ pendingTerminal'[q] = pendingTerminal[q],
         Serving => /\ \A q \in Occ \ {o} :
                         /\ timerDue'[OccurrenceTimer(q)] = timerDue[OccurrenceTimer(q)]
                         /\ timerDue[CompensationTimer(q)] # 0 => timerDue'[CompensationTimer(q)] # 0
                    /\ timerDue[ReconcileRetryTimer] # 0 => timerDue'[ReconcileRetryTimer] # 0
  PROVE  \A q \in Occ \ {o} : Covered(q)'
<1> SUFFICES ASSUME NEW q \in Occ \ {o} PROVE Covered(q)'
  OBVIOUS
<1>1. /\ Covered(q) /\ occurrences'[q] = occurrences[q] /\ nextRuns'[q] = nextRuns[q]
      /\ pendingTerminal'[q] = pendingTerminal[q] /\ Serving' = Serving
  BY DEF Serving
<1>2. InTime(q)'
  BY <1>1 DEF Covered, InTime
<1>3. ASSUME Serving
      PROVE  PlannedTimed(q)' /\ WaitTimed(q)'
  <2>1. PlannedTimed(q) /\ WaitTimed(q)
    BY <1>1, <1>3 DEF Covered
  <2>2. PlannedTimed(q)'
    BY <1>1, <1>3, <2>1 DEF PlannedTimed, Planned, Backed
  <2>3. WaitTimed(q)'
    BY <1>1, <1>3, <2>1 DEF WaitTimed, Waits, Backed, Selects
  <2> QED
    BY <2>2, <2>3
<1> QED
  BY <1>1, <1>2, <1>3 DEF Covered

\* What a handler that consumes taken and arms at most one retry leaves of the
\* other timers.
LEMMA OthersSame ==
  ASSUME TypeOK, NEW taken, NEW t, NEW at \in Nat,
         \/ SetTimers(taken, Without(taken))
         \/ SetTimers(taken, RetryTimer(Without(taken), t, at)),
         NEW u \in TimerId, \A c \in taken : c.timer # u, u # t
  PROVE  timerDue'[u] = timerDue[u]
<1>1. Without(taken) \in [TimerId -> Nat] /\ Without(taken)[u] = timerDue[u]
  BY WithoutType, WithoutKeeps
<1>2. timerDue' \in {Without(taken), RetryTimer(Without(taken), t, at)}
  BY DEF SetTimers
<1>3. RetryTimer(Without(taken), t, at)[u] = Without(taken)[u]
  BY <1>1 DEF RetryTimer
<1> QED
  BY <1>1, <1>2, <1>3

LEMMA EnvironmentCoverage ==
  ASSUME CoverageInv,
         \/ Tick \/ UpdateSchedule \/ Crash \/ BeginStop \/ StopReturns
         \/ \E out \in WriteOutcomes : StartScheduler(out)
         \/ \E t \in TimerId : FireTimer(t)
  PROVE  Coverage'
<1> USE DEF Covered, InTime, PlannedTimed, WaitTimed, Planned, Waits, Backed, EligibleWaits, Serving
<1>0. TypeOK /\ Answers /\ Coverage /\ now \in Nat
  BY DEF CoverageInv, AnswersInv, RequestAccounting, TypeOK
<1>1. CASE Tick
  <2>1. /\ now < MaxTime /\ now' = now + 1
        /\ UNCHANGED <<phase, startErr, config, occurrences, nextRuns, misreported, timerDue, inbox,
                       pendingTerminal, owner, applied>>
    BY <1>1 DEF Tick, process, durable, history
  <2>2. CallbacksDue'
    <3>1. \A c \in inbox : timerDue[c.timer] \in Nat
      BY <1>0 DEF TypeOK
    <3> QED
      BY <1>0, <2>1, <3>1 DEF Coverage, CallbacksDue
  <2>3. ASSUME NEW o \in Occ
        PROVE  Covered(o)'
    <3>1. occurrences[o].plannedAt \in Nat
      BY <1>0 DEF TypeOK, OccurrenceState
    <3>2. InTime(o)' /\ (Serving => WaitTimed(o)')
      BY <1>0, <2>1 DEF Coverage, Selects
    <3>3. Serving => PlannedTimed(o)'
      BY <1>0, <2>1, <3>1 DEF Coverage
    <3> QED
      BY <2>1, <3>2, <3>3
  <2>4. EligibleWaits'
    BY <1>0, <2>1 DEF Coverage, CompensationClaimable, Selects
  <2> QED
    BY <2>2, <2>3, <2>4 DEF Coverage
<1>2. CASE UpdateSchedule
  <2>1. UNCHANGED <<now, phase, startErr, config, occurrences, nextRuns, misreported, timerDue, inbox,
                    pendingTerminal, owner, applied>>
    BY <1>2 DEF UpdateSchedule, durable, history
  <2> QED
    BY <1>0, <2>1 DEF Coverage, CallbacksDue, CompensationClaimable, Selects
<1>3. CASE BeginStop
  BY <1>0, <1>3 DEF BeginStop, durable, history, Coverage, CallbacksDue
<1>4. ASSUME NEW t \in TimerId, FireTimer(t)
      PROVE  Coverage'
  <2>1. /\ t # MidnightTimer => timerDue[t] <= now \/ now = MaxTime
        /\ inbox' = inbox \cup {[timer |-> t, current |-> TRUE]}
        /\ UNCHANGED <<now, phase, startErr, config, occurrences, nextRuns, misreported, timerDue,
                       pendingTerminal, owner, applied>>
    BY <1>4 DEF FireTimer, process, durable, history
  <2>2. CallbacksDue'
    BY <1>0, <2>1 DEF Coverage, CallbacksDue
  <2> QED
    BY <1>0, <2>1, <2>2 DEF Coverage, CompensationClaimable, Selects
<1>5. CASE Crash \/ StopReturns
  <2>1. phase' = "down" /\ inbox' = {} /\ UNCHANGED <<occurrences>>
    BY <1>5 DEF Crash, StopReturns, ProcessGone, durable, history
  <2> QED
    BY <1>0, <2>1 DEF Coverage, CallbacksDue
<1>6. ASSUME NEW out \in WriteOutcomes, StartScheduler(out)
      PROVE  Coverage'
  <2> DEFINE entries == [o \in Occ |-> RecoveredEntry(occurrences[o])]
  <2>1. /\ phase = "down" /\ startErr' = (out # "ok") /\ Update(out, entries, nextRuns)
        /\ UNCHANGED <<now, timerDue, inbox, owner>>
    BY <1>6 DEF StartScheduler, history
  <2>2. owner.pc = "idle"
    BY <1>0, <2>1 DEF Answers, DownOwesNothing
  <2>3. \A o \in Occ : entries[o].status # "planned" /\ ~PendingCompensation(entries[o])
    <3>1. ASSUME NEW o \in Occ
          PROVE  LET e == RecoveredEntry(occurrences[o])
                 IN  e.status # "planned" /\ ~PendingCompensation(e)
      BY <1>0 DEF RecoveredEntry, MarkMissed, PendingCompensation, OccurrenceState, TypeOK
    <3> QED
      BY <3>1
  <2> HIDE DEF entries
  <2>4. (out = "ok" => occurrences' = entries) /\ (occurrences' = entries \/ occurrences' = occurrences)
    BY <2>1, WriteEffect
  <2>5. CASE out = "ok"
    BY <1>0, <2>1, <2>2, <2>3, <2>4, <2>5 DEF Coverage, CallbacksDue
  <2>6. CASE out # "ok"
    BY <1>0, <2>1, <2>2, <2>3, <2>4, <2>6 DEF Coverage, CallbacksDue
  <2> QED
    BY <2>5, <2>6
<1> QED
  BY <1>1, <1>2, <1>3, <1>4, <1>5, <1>6

\* A reconciliation that succeeds arms what it leaves planned or owed, and owes
\* only what the configuration selects.
LEMMA ReconciledCovered ==
  ASSUME PlansInTime, CoverageInv, NEW c \in Configs \cup {NoConfig}, NEW taken, NEW onError,
         ReconcileOwned(c, "ok", taken, onError), "ok" \in WriteOutcomes, phase = "up",
         now' = now, config' = c
  PROVE  \A o \in Occ : Covered(o)'
<1> DEFINE entries == [o \in Occ |-> ReconciledEntry(c, o)]
           runs == [o \in Occ |-> ReconciledRun(c, o, entries[o])]
<1>0. /\ TypeOK /\ Coverage /\ now \in Nat /\ timerDue \in [TimerId -> Nat]
      /\ occurrences \in [Occ -> OccurrenceState] /\ c \in Config
  <2>0. NoConfig \in Config
    BY DEF NoConfig, Config
  <2>1. c \in Config
    BY <2>0, SchedulerAssumption
  <2> QED
    BY <2>1 DEF CoverageInv, AnswersInv, RequestAccounting, TypeOK
<1>1. /\ occurrences' = entries /\ nextRuns' = runs
      /\ timerDue' = ReconciledTimers(c, Without(taken), entries)
  BY DEF ReconcileOwned, SetTimers, Update
<1>2. Without(taken) \in [TimerId -> Nat]
  BY <1>0, WithoutType
<1> SUFFICES ASSUME NEW o \in Occ PROVE Covered(o)'
  OBVIOUS
<1> DEFINE e == entries[o]
<1>3. /\ e = ReconciledEntry(c, o) /\ runs[o] = ReconciledRun(c, o, e)
      /\ entries \in [Occ -> OccurrenceState] /\ e \in OccurrenceState
  BY <1>0, ReconciledEntryType
<1>4. occurrences'[o] = e /\ nextRuns'[o] = runs[o]
  BY <1>1
<1> HIDE DEF entries, runs
<1>5. InTime(o)'
  <2>1. InTime(o)
    BY <1>0 DEF Coverage, Covered
  <2> QED
    BY <1>0, <1>3, <1>4, <2>1, ReconciledInTime DEF InTime
<1>6. ASSUME runs[o] # 0
      PROVE  /\ o \in Desired(c) /\ c.enabled /\ Selects(c, o)
             /\ e.status = "planned" \/ PendingCompensation(e)
             /\ PendingCompensation(e) => runs[o] = e.dueAt
  BY <1>3, <1>6 DEF ReconciledRun, Desired, Selects, PendingCompensation
<1>7. ASSUME c.enabled, NEW k \in Kind
      PROVE  timerDue'[<<k, o>>] = ActiveDue(Without(taken), entries, k, o)
  <2>1. <<k, o>> \in TimerId /\ <<k, o>> # MidnightTimer /\ <<k, o>> \in Kind \X Occ
    BY TimerIdType, TimersDistinct
  <2>2. timerDue' = ScheduleMidnight(ReconcileTimers(Without(taken), entries))
    BY <1>1, <1>7 DEF ReconciledTimers
  <2> QED
    BY <2>1, <2>2 DEF ScheduleMidnight, ReconcileTimers
<1>8. PlannedTimed(o)'
  <2> SUFFICES ASSUME Planned(o)' PROVE timerDue'[OccurrenceTimer(o)] = e.plannedAt
    BY <1>4 DEF PlannedTimed
  <2>1. e.status = "planned" /\ e.plannedAt > now /\ runs[o] = e.plannedAt
    BY <1>4 DEF Planned
  <2>2. runs[o] # 0
    BY <1>0, <1>3, <2>1 DEF OccurrenceState
  <2>3. timerDue'[<<"occurrence", o>>] = ActiveDue(Without(taken), entries, "occurrence", o)
    BY <1>6, <1>7, <2>2 DEF Kind
  <2> QED
    BY <2>1, <2>3 DEF ActiveDue, OccurrenceTimer
<1>9. WaitTimed(o)'
  <2> SUFFICES ASSUME Waits(o)'
               PROVE  /\ timerDue'[CompensationTimer(o)] # 0 /\ runs[o] = e.dueAt
                      /\ Selects(config', o)
    BY <1>4 DEF WaitTimed, Selects
  <2>1. PendingCompensation(e) /\ runs[o] # 0
    BY <1>4 DEF Waits, PendingCompensation
  <2>2. timerDue'[<<"compensation", o>>] = ActiveDue(Without(taken), entries, "compensation", o)
    BY <1>6, <1>7, <2>1 DEF Kind
  <2>3. timerDue'[<<"compensation", o>>] = e.dueAt /\ e.dueAt # 0
    BY <2>1, <2>2 DEF ActiveDue, PendingCompensation
  <2> QED
    BY <1>6, <2>1, <2>3 DEF CompensationTimer, Selects
<1> QED
  BY <1>5, <1>8, <1>9 DEF Covered

\* One that fails leaves the entries and their timers alone, or it has planned
\* them although it failed; then another is armed, or this one was reported.
LEMMA UnreconciledCovered ==
  ASSUME PlansInTime, CoverageInv, NEW c \in Configs \cup {NoConfig}, NEW out \in WriteOutcomes,
         out # "ok", NEW taken, NEW onError, ReconcileOwned(c, out, taken, onError),
         UNCHANGED <<now, phase, startErr>>,
         \A o \in Occ : onError[OccurrenceTimer(o)] = timerDue[OccurrenceTimer(o)],
         phase # "up" \/ Backed'
  PROVE  \A o \in Occ : Covered(o)'
<1> SUFFICES ASSUME NEW o \in Occ PROVE Covered(o)'
  OBVIOUS
<1> DEFINE entries == [q \in Occ |-> ReconciledEntry(c, q)]
<1>1. PICK runs : Update(out, entries, runs)
  BY DEF ReconcileOwned
<1>2. timerDue'[OccurrenceTimer(o)] = timerDue[OccurrenceTimer(o)]
  BY DEF ReconcileOwned, SetTimers
<1>3. entries[o] = ReconciledEntry(c, o)
  OBVIOUS
<1> HIDE DEF entries
<1>4. /\ misreported \subseteq misreported'
      /\ occurrences' = occurrences \/ occurrences' = entries
      /\ \/ Scheduled(occurrences'[o], nextRuns'[o]) = Scheduled(occurrences[o], nextRuns[o])
         \/ <<o, occurrences'[o].status>> \in misreported'
  BY <1>1, WriteEffect
<1>5. TypeOK /\ Covered(o) /\ (Serving' => Serving /\ Backed')
  BY DEF CoverageInv, AnswersInv, RequestAccounting, Coverage, Serving
<1>6. InTime(o)'
  <2>1. InTime(o)
    BY <1>5 DEF Covered
  <2> QED
    BY <1>3, <1>4, <1>5, <2>1, ReconciledInTime DEF InTime
<1>7. ASSUME Serving'
      PROVE  PlannedTimed(o)'
  <2>1. CASE Scheduled(occurrences'[o], nextRuns'[o]) = Scheduled(occurrences[o], nextRuns[o])
    <3>1. /\ occurrences'[o].plannedAt = occurrences[o].plannedAt
          /\ Planned(o)' => Planned(o)
      BY <2>1 DEF Scheduled, Planned
    <3> QED
      BY <1>2, <1>4, <1>5, <1>7, <3>1 DEF Covered, PlannedTimed
  <2>2. CASE <<o, occurrences'[o].status>> \in misreported'
    BY <1>5, <1>7, <2>2 DEF PlannedTimed, Planned
  <2> QED
    BY <1>4, <2>1, <2>2
<1> QED
  BY <1>5, <1>6, <1>7 DEF Covered, WaitTimed

LEMMA RetryIsArmed ==
  ASSUME TypeOK, phase = "up", NEW due \in [TimerId -> Nat]
  PROVE  ScheduleReconcileRetry(due)[ReconcileRetryTimer] # 0
<1>1. now \in Nat /\ due[ReconcileRetryTimer] \in Nat /\ ReconcileRetryTimer \in TimerId
  BY TimerIdType DEF TypeOK
<1> QED
  BY <1>1, RetryArms DEF ScheduleReconcileRetry

LEMMA ReconcileCoverage ==
  ASSUME PlansInTime, CoverageInv, NEW out \in WriteOutcomes,
         \/ HandleReconcile(out) \/ ReconcileAfterCallback(out)
         \/ \E c \in inbox : HandleHorizon(c, out)
  PROVE  Coverage'
<1>0. /\ TypeOK /\ Coverage /\ CallbacksDue /\ timerDue \in [TimerId -> Nat]
      /\ rtConfig \in Configs /\ config \in Configs \cup {NoConfig}
  BY DEF CoverageInv, Coverage, AnswersInv, RequestAccounting, TypeOK
<1>1. CASE HandleReconcile(out)
  <2>1. /\ ReconcileOwned(rtConfig, out, {}, timerDue) /\ config' = rtConfig /\ applied' = (out = "ok")
        /\ owner.pc = "idle" /\ phase = "up" /\ UNCHANGED <<now, owner, phase, startErr>>
    BY <1>1 DEF HandleReconcile
  <2>2. CallbacksDue'
    BY <1>0, <2>1, CallbacksStayDue DEF ReconcileOwned
  <2>3. CASE out = "ok"
    BY <1>0, <2>1, <2>2, <2>3, ReconciledCovered DEF Coverage, EligibleWaits
  <2>4. CASE out # "ok"
    <3>1. Backed'
      BY <2>1, <2>4 DEF Backed
    <3> QED
      BY <1>0, <2>1, <2>2, <2>4, <3>1, UnreconciledCovered DEF Coverage, EligibleWaits
  <2> QED
    BY <2>3, <2>4
<1>2. ASSUME NEW taken, NEW due \in [TimerId -> Nat],
             ReconcileOwned(config, out, taken, ScheduleReconcileRetry(due)),
             \A o \in Occ : due[OccurrenceTimer(o)] = timerDue[OccurrenceTimer(o)],
             UNCHANGED <<now, phase, startErr, config>>, owner'.pc = "idle"
      PROVE  Coverage'
  <2> DEFINE armed == ScheduleReconcileRetry(due)
  <2>1. CallbacksDue' /\ EligibleWaits'
    BY <1>0, <1>2, CallbacksStayDue DEF ReconcileOwned, EligibleWaits
  <2>2. \A o \in Occ : armed[OccurrenceTimer(o)] = timerDue[OccurrenceTimer(o)]
    BY <1>2, TimerNames DEF ScheduleReconcileRetry, RetryTimer
  <2>3. phase = "up" => armed[ReconcileRetryTimer] # 0
    BY <1>0, <1>2, RetryIsArmed
  <2> HIDE DEF armed
  <2>4. CASE phase = "up" /\ out = "ok"
    <3>1. ReconcileOwned(config, "ok", taken, armed)
      BY <1>2, <2>4 DEF armed
    <3> QED
      BY <1>0, <1>2, <2>1, <2>4, <3>1, ReconciledCovered DEF Coverage
  <2>5. CASE phase # "up" /\ out = "ok"
    <3>1. ReconcileOwned(config, "ok", taken, armed)
      BY <1>2, <2>5 DEF armed
    <3>2. \A o \in Occ : InTime(o)'
      <4>1. occurrences' = [o \in Occ |-> ReconciledEntry(config, o)]
        BY <2>5, <3>1 DEF ReconcileOwned, Update
      <4> QED
        BY <1>0, <4>1, ReconciledInTime DEF Coverage, Covered, InTime
    <3> QED
      BY <1>2, <2>1, <2>5, <3>2 DEF Coverage, Covered, Serving
  <2>6. CASE out # "ok"
    <3>1. ReconcileOwned(config, out, taken, armed) /\ timerDue' = armed
      BY <1>2, <2>6 DEF armed, ReconcileOwned, SetTimers
    <3>2. phase # "up" \/ Backed'
      BY <2>3, <3>1 DEF Backed
    <3> QED
      BY <1>0, <1>2, <2>1, <2>2, <2>6, <3>1, <3>2, UnreconciledCovered DEF Coverage
  <2> QED
    BY <2>4, <2>5, <2>6
<1>3. CASE ReconcileAfterCallback(out)
  BY <1>0, <1>2, <1>3 DEF ReconcileAfterCallback, process, history, Idle
<1>4. ASSUME NEW c \in inbox, HandleHorizon(c, out)
      PROVE  Coverage'
  <2> DEFINE failed == KeepHorizon(c, Without({c}))
  <2>1. /\ ReconcileOwned(config, out, {c}, ScheduleReconcileRetry(failed))
        /\ UNCHANGED <<now, phase, startErr, config, owner>> /\ owner.pc = "idle"
        /\ c.timer \in {MidnightTimer, ReconcileRetryTimer}
    BY <1>4 DEF HandleHorizon, OwnerTakes, process, history
  <2>2. failed \in [TimerId -> Nat] /\ Without({c}) \in [TimerId -> Nat]
    BY <1>0, WithoutType, MidnightType DEF KeepHorizon
  <2>3. ASSUME NEW o \in Occ
        PROVE  failed[OccurrenceTimer(o)] = timerDue[OccurrenceTimer(o)]
    <3>1. OccurrenceTimer(o) \in TimerId \ {MidnightTimer} /\ c.timer # OccurrenceTimer(o)
      BY <2>1, TimerNames
    <3>2. Without({c})[OccurrenceTimer(o)] = timerDue[OccurrenceTimer(o)]
      BY <3>1, WithoutKeeps
    <3> QED
      BY <1>0, <2>2, <3>1, <3>2, MidnightKeeps DEF KeepHorizon
  <2> HIDE DEF failed
  <2> QED
    BY <1>2, <2>1, <2>2, <2>3
<1> QED
  BY <1>1, <1>3, <1>4

LEMMA CallbackCoverage ==
  ASSUME CoverageInv, NEW c \in inbox, NEW out \in WriteOutcomes,
         RetryTerminal(c, out) \/ ClaimOccurrence(c, out) \/ LoadCompensation(c, out)
  PROVE  Coverage'
<1> DEFINE o == c.timer[2]
           k == c.timer[1]
<1>0. /\ TypeOK /\ Answers /\ OwedClosed /\ ResultsFinal /\ Coverage /\ CallbacksDue /\ now \in Nat
      /\ timerDue \in [TimerId -> Nat] /\ occurrences \in [Occ -> OccurrenceState]
      /\ pendingTerminal \in [Occ -> PendingTerminal]
      /\ phase = "up" /\ owner.pc = "idle"
      /\ UNCHANGED <<now, phase, startErr, config, applied>>
  BY DEF CoverageInv, Coverage, AnswersInv, RequestAccounting, Answers, TypeOK, RetryTerminal,
         ClaimOccurrence, LoadCompensation, OwnerTakes, process, history
<1>1. c.timer \in Kind \X Occ /\ o \in Occ /\ k \in Kind /\ c.timer = <<k, o>> /\ ConsumeTimer(c)
  BY DEF RetryTerminal, history, ClaimOccurrence, LoadCompensation, Kind
<1>2. SetTimers({c}, Without({c})) \/ SetTimers({c}, RetryTimer(Without({c}), c.timer, now))
  BY DEF RetryTerminal, history, ClaimOccurrence, LoadCompensation
<1>3. CallbacksDue'
  BY <1>0, <1>2, CallbacksStayDue
<1>a. misreported \subseteq misreported'
  BY DEF RetryTerminal, ClaimOccurrence, LoadCompensation, PersistTerminal, Update, durable
<1>b. \A q \in Occ \ {o} : pendingTerminal'[q] = pendingTerminal[q]
  BY <1>0 DEF RetryTerminal, ClaimOccurrence, LoadCompensation
<1> HIDE DEF o, k
<1>4. ASSUME NEW u \in TimerId, c.timer # u
      PROVE  timerDue'[u] = timerDue[u]
  <2>1. \A d \in {c} : d.timer # u
    BY <1>4
  <2>2. TypeOK /\ now \in Nat /\ u # c.timer
    BY <1>0, <1>4
  <2>3. CASE SetTimers({c}, Without({c}))
    BY <2>1, <2>3, WithoutKeeps DEF SetTimers
  <2>4. CASE SetTimers({c}, RetryTimer(Without({c}), c.timer, now))
    BY ONLY <2>1, <2>2, <2>4, OthersSame
  <2> QED
    BY <1>2, <2>3, <2>4
<1>5. ASSUME \A q \in Occ \ {o} : occurrences'[q] = occurrences[q] /\ nextRuns'[q] = nextRuns[q]
      PROVE  \A q \in Occ \ {o} : Covered(q)'
  <2>1. \A q \in Occ \ {o} :
          /\ timerDue'[OccurrenceTimer(q)] = timerDue[OccurrenceTimer(q)]
          /\ timerDue'[CompensationTimer(q)] = timerDue[CompensationTimer(q)]
    BY <1>1, <1>4, TimerNames
  <2>2. timerDue'[ReconcileRetryTimer] = timerDue[ReconcileRetryTimer]
    BY <1>1, <1>4, TimerIdType, TimersDistinct
  <2> QED
    BY <1>0, <1>5, <1>a, <1>b, <2>1, <2>2, OthersCovered DEF Coverage
<1>6. ASSUME UNCHANGED <<occurrences, nextRuns, pendingTerminal>>, owner'.pc = "idle",
             \/ k = "occurrence" /\ (timerDue'[c.timer] # 0 \/ pendingTerminal[o].kind # k)
             \/ k = "compensation" /\ (timerDue'[c.timer] # 0 \/ ~CompensationClaimable(o))
      PROVE  Coverage'
  <2>1. InTime(o) /\ (Serving => PlannedTimed(o) /\ WaitTimed(o)) /\ Serving' = Serving
    BY <1>0, <1>1 DEF Coverage, Covered, Serving
  <2>2. InTime(o)'
    BY <1>6, <2>1 DEF InTime
  <2>3. timerDue'[ReconcileRetryTimer] = timerDue[ReconcileRetryTimer]
    BY <1>1, <1>4, TimerIdType, TimersDistinct
  <2>a. Backed => Backed'
    BY <1>0, <2>3 DEF Backed
  <2>4. ASSUME k = "occurrence", timerDue[c.timer] = occurrences[o].plannedAt
        PROVE  ~Planned(o)
    <3>1. c.timer # MidnightTimer /\ c.timer \in TimerId
      BY <1>1, TimerIdType, TimersDistinct
    <3>2. timerDue[c.timer] <= now \/ now = MaxTime
      BY <1>0, <1>1, <3>1 DEF CallbacksDue, ConsumeTimer
    <3>3. occurrences[o].plannedAt \in Nat /\ MaxTime \in Nat
      BY <1>0, <1>1, SchedulerAssumption DEF OccurrenceState
    <3> QED
      BY <1>0, <2>1, <2>4, <3>2, <3>3 DEF Planned, InTime
  <2>5. Serving => PlannedTimed(o)'
    <3>1. CASE k = "compensation"
      <4>1. timerDue'[OccurrenceTimer(o)] = timerDue[OccurrenceTimer(o)]
        BY <1>1, <1>4, <3>1, TimerNames
      <4> QED
        BY <1>0, <1>6, <1>a, <2>1, <2>a, <4>1 DEF PlannedTimed, Planned
    <3>2. CASE k = "occurrence"
      <4>1. c.timer = OccurrenceTimer(o)
        BY <1>1, <3>2 DEF OccurrenceTimer
      <4> QED
        BY <1>0, <1>6, <1>a, <2>1, <2>a, <2>4, <3>2, <4>1 DEF PlannedTimed, Planned
    <3> QED
      BY <1>6, <3>1, <3>2
  <2>6. Serving => WaitTimed(o)'
    <3>1. CASE k = "occurrence" /\ (timerDue'[c.timer] # 0 \/ pendingTerminal[o].kind # k)
      <4>1. timerDue'[CompensationTimer(o)] = timerDue[CompensationTimer(o)]
        BY <1>1, <1>4, <3>1, TimerNames
      <4>2. c.timer = OccurrenceTimer(o)
        BY <1>1, <3>1 DEF OccurrenceTimer
      <4> QED
        BY <1>0, <1>6, <2>1, <2>a, <3>1, <4>1, <4>2 DEF WaitTimed, Waits, Selects
    <3>2. CASE k = "compensation" /\ (timerDue'[c.timer] # 0 \/ ~CompensationClaimable(o))
      <4>1. c.timer = CompensationTimer(o)
        BY <1>1, <3>2 DEF CompensationTimer
      <4>2. timerDue'[OccurrenceTimer(o)] = timerDue[OccurrenceTimer(o)]
        BY <1>1, <1>4, <3>2, TimerNames
      <4> QED
        BY <1>0, <1>6, <2>1, <2>a, <3>2, <4>1, <4>2
        DEF WaitTimed, Waits, Selects, CompensationClaimable
    <3> QED
      BY <1>6, <3>1, <3>2
  <2> QED
    BY <1>3, <1>5, <1>6, <2>1, <2>2, <2>5, <2>6 DEF Coverage, Covered, EligibleWaits
<1>7. CASE RetryTerminal(c, out)
  <2> DEFINE p == pendingTerminal[o]
             entries == [occurrences EXCEPT ![o] = TerminalEntry(occurrences[o], p)]
             runs == [nextRuns EXCEPT ![o] = TerminalRun(TerminalEntry(occurrences[o], p), p)]
  <2>1. p.kind = k /\ Update(out, entries, runs)
    BY <1>7 DEF RetryTerminal, PersistTerminal, o, k
  <2>2. p \in PendingTerminal /\ p.status \in Final
    BY <1>0, <1>1, <2>1 DEF Kind, ResultsFinal
  <2>3. /\ entries[o] = TerminalEntry(occurrences[o], p) /\ entries[o].status \in Final
        /\ \A q \in Occ \ {o} : entries[q] = occurrences[q] /\ runs[q] = nextRuns[q]
    <3>1. TerminalEntry(occurrences[o], p).status \in Final
      BY <1>0, <1>1, <2>2, TerminalStatus
    <3>2. nextRuns \in [Occ -> Nat]
      BY <1>0 DEF TypeOK
    <3>3. o \in Occ /\ occurrences \in [Occ -> OccurrenceState]
      BY <1>0, <1>1
    <3>4. entries[o] = TerminalEntry(occurrences[o], p)
      BY <3>3
    <3>5. \A q \in Occ \ {o} : entries[q] = occurrences[q] /\ runs[q] = nextRuns[q]
      BY <3>2, <3>3
    <3> QED
      BY <3>1, <3>4, <3>5
  <2>4. k = "compensation" => entries[o].dueAt = 0
    <3> HIDE DEF p, entries, runs
    <3>1. ASSUME NEW e \in OccurrenceState, p.kind = "compensation"
          PROVE  TerminalEntry(e, p).dueAt = 0
      BY <3>1 DEF TerminalEntry, OccurrenceState
    <3> QED
      BY <1>0, <1>1, <2>1, <2>3, <3>1
  <2>5. p = pendingTerminal[o]
    OBVIOUS
  <2> HIDE DEF p, entries, runs
  <2>6. /\ out = "ok" => occurrences' = entries /\ nextRuns' = runs
        /\ UNCHANGED <<occurrences, nextRuns>> \/ (occurrences' = entries /\ nextRuns' = runs)
    BY <2>1, WriteEffect
  <2>7. out # "ok" => owner' = owner /\ pendingTerminal' = pendingTerminal /\ timerDue'[c.timer] # 0
    <3>1. c.timer \in TimerId /\ Without({c}) \in [TimerId -> Nat]
      BY <1>0, <1>1, TimerIdType, WithoutType
    <3> QED
      BY <1>0, <1>7, <3>1, RetryArms DEF RetryTerminal, SetTimers
  <2>8. CASE UNCHANGED <<occurrences, nextRuns>> /\ out # "ok"
    BY <1>0, <1>1, <1>6, <2>7, <2>8 DEF Kind
  <2>9. CASE occurrences' = entries /\ nextRuns' = runs
    <3>1. EligibleWaits' /\ (out = "ok" => owner'.pc = "reconciling")
      BY <1>0, <1>7, <2>7 DEF RetryTerminal, Idle, EligibleWaits
    <3>2. WaitTimed(o)'
      <4>1. CASE out = "ok"
        BY <3>1, <4>1 DEF WaitTimed, Backed
      <4>2. CASE out # "ok" /\ k = "occurrence"
        <5>1. c.timer = OccurrenceTimer(o)
          BY <1>1, <4>2 DEF OccurrenceTimer
        <5> QED
          BY <2>1, <2>5, <2>7, <4>2, <5>1 DEF WaitTimed
      <4>3. CASE k = "compensation"
        BY <2>4, <2>9, <4>3 DEF WaitTimed, Waits, PendingCompensation
      <4> QED
        BY <1>1, <4>1, <4>2, <4>3 DEF Kind
    <3>3. Covered(o)'
      BY <2>3, <2>9, <3>2 DEF Covered, InTime, PlannedTimed, Planned, Final
    <3>4. \A q \in Occ \ {o} : Covered(q)'
      BY <1>5, <2>3, <2>9
    <3> QED
      BY <1>3, <3>1, <3>3, <3>4 DEF Coverage
  <2> QED
    BY <2>6, <2>8, <2>9
<1>8. CASE ClaimOccurrence(c, out)
  <2> DEFINE entries == [occurrences EXCEPT ![o].status = "running"]
             runs == [nextRuns EXCEPT ![o] = 0]
  <2>1. k = "occurrence" /\ pendingTerminal[o].kind # k /\ pendingTerminal' = pendingTerminal
    BY <1>1, <1>8 DEF ClaimOccurrence, k, o
  <2>2. entries[o].status = "running" /\ \A q \in Occ \ {o} : entries[q] = occurrences[q] /\ runs[q] = nextRuns[q]
    BY <1>0, <1>1 DEF OccurrenceState, TypeOK
  <2>3. IF Claimable(o) THEN Update(out, entries, runs) ELSE Update(out, occurrences, nextRuns)
    BY <1>8 DEF ClaimOccurrence, o
  <2> HIDE DEF entries, runs
  <2>4. \/ UNCHANGED <<occurrences, nextRuns>> /\ ~(out = "ok" /\ Claimable(o))
        \/ occurrences' = entries /\ nextRuns' = runs
    BY <2>3, WriteEffect
  <2>5. CASE UNCHANGED <<occurrences, nextRuns>> /\ ~(out = "ok" /\ Claimable(o))
    <3>1. owner' = owner
      BY <1>8, <2>5 DEF ClaimOccurrence, o
    <3> QED
      BY <1>0, <1>6, <2>1, <2>5, <3>1
  <2>6. CASE occurrences' = entries /\ nextRuns' = runs
    <3>1. owner'.pc \in {"idle", "claimed"}
      BY <1>0, <1>8 DEF ClaimOccurrence
    <3>2. Covered(o)'
      BY <2>2, <2>6 DEF Covered, InTime, PlannedTimed, Planned, WaitTimed, Waits, PendingCompensation
    <3>3. \A q \in Occ \ {o} : Covered(q)'
      BY <1>5, <2>2, <2>6
    <3> QED
      BY <1>3, <3>1, <3>2, <3>3 DEF Coverage, EligibleWaits
  <2> QED
    BY <2>4, <2>5, <2>6
<1>9. CASE LoadCompensation(c, out)
  <2>1. k = "compensation" /\ UNCHANGED <<occurrences, nextRuns, pendingTerminal>>
    BY <1>1, <1>9 DEF LoadCompensation, durable, history, k
  <2>2. CASE out = "ok" /\ CompensationClaimable(o)
    <3>1. owner'.pc = "eligibility" /\ owner'.occ = o
      BY <1>9, <2>2 DEF LoadCompensation, history, Idle, o
    <3>2. EligibleWaits'
      BY <1>0, <2>1, <2>2, <3>1 DEF EligibleWaits, CompensationClaimable, Selects
    <3>3. Covered(o)
      BY <1>0, <1>1 DEF Coverage
    <3>4. timerDue'[OccurrenceTimer(o)] = timerDue[OccurrenceTimer(o)]
      BY <1>1, <1>4, <2>1, TimerNames
    <3>5. Backed => Backed'
      <4>1. timerDue'[ReconcileRetryTimer] = timerDue[ReconcileRetryTimer]
        BY <1>1, <1>4, TimerIdType, TimersDistinct
      <4> QED
        BY <1>0, <4>1 DEF Backed
    <3>6. Covered(o)'
      BY <1>0, <1>a, <2>1, <3>1, <3>3, <3>4, <3>5
      DEF Covered, InTime, PlannedTimed, Planned, WaitTimed, Serving
    <3> QED
      BY <1>3, <1>5, <2>1, <3>2, <3>6 DEF Coverage
  <2>3. CASE out = "ok" /\ ~CompensationClaimable(o)
    <3>1. owner' = owner
      BY <1>9, <2>3 DEF LoadCompensation, history, o
    <3> QED
      BY <1>0, <1>6, <2>1, <2>3, <3>1
  <2>4. CASE out # "ok"
    <3>1. owner' = owner /\ SetTimers({c}, RetryTimer(Without({c}), c.timer, now))
      BY <1>9, <2>4 DEF LoadCompensation, history
    <3>2. timerDue'[c.timer] # 0
      BY <1>0, <1>1, <3>1, WithoutType, TimerIdType, RetryArms DEF SetTimers
    <3> QED
      BY <1>0, <1>6, <2>1, <3>1, <3>2
  <2> QED
    BY <2>2, <2>3, <2>4
<1> QED
  BY <1>7, <1>8, <1>9

\* The executor's own steps write nothing and touch no timer.
LEMMA ExecutorStepsAside ==
  ASSUME TypeOK, \/ EnterExecutor \/ SendRequest
                 \/ \E status \in {"skipped", "failed"} : ExecutorDeclines(status)
  PROVE  /\ owner.pc \in Busy /\ owner'.pc \notin {"eligibility", "reconciling"}
         /\ UNCHANGED <<now, phase, startErr, config, occurrences, nextRuns, misreported, timerDue, inbox,
                        pendingTerminal, applied>>
<1>0. owner \in OwnerState
  BY DEF TypeOK
<1>1. CASE EnterExecutor
  <2>1. owner'.pc \in {"idle", "admitted", "finishing"}
    BY <1>0, <1>1 DEF EnterExecutor, history, Idle, OwnerState
  <2> QED
    BY <1>1, <2>1 DEF EnterExecutor, process, durable, history, Busy
<1>2. CASE SendRequest
  BY <1>0, <1>2 DEF SendRequest, OwnerState, process, durable, history, Busy
<1>3. ASSUME NEW status, ExecutorDeclines(status)
      PROVE  /\ owner.pc \in Busy /\ owner'.pc = "finishing"
             /\ UNCHANGED <<now, phase, startErr, config, occurrences, nextRuns, misreported, timerDue, inbox,
                        pendingTerminal, applied>>
  BY <1>0, <1>3 DEF ExecutorDeclines, OwnerState, process, durable, history, Busy
<1> QED
  BY <1>1, <1>2, <1>3

LEMMA HandlerCoverage ==
  ASSUME CoverageInv, NEW out \in WriteOutcomes, owner.pc # "reconciling",
         \/ EnterExecutor \/ SendRequest
         \/ \E status \in {"skipped", "failed"} : ExecutorDeclines(status)
         \/ \E eligible \in BOOLEAN : ClaimCompensation(eligible, out)
         \/ \E result \in {"succeeded", "transient", "failed"} : RequestReturns(result, out)
         \/ SaveTerminal(out)
  PROVE  Coverage'
<1>a. PICK o : o = owner.occ
  OBVIOUS
<1>0. /\ TypeOK /\ Answers /\ OwnerRuns /\ OwnerAccounted /\ Coverage /\ CallbacksDue /\ now \in Nat
      /\ timerDue \in [TimerId -> Nat] /\ occurrences \in [Occ -> OccurrenceState]
      /\ nextRuns \in [Occ -> Nat] /\ owner.kind \in Kind /\ owner.at \in Nat
      /\ UNCHANGED <<now, phase, startErr, config, applied>> /\ Serving' = Serving
  BY DEF CoverageInv, Coverage, AnswersInv, RequestAccounting, Answers, TypeOK, OwnerState, Serving,
         EnterExecutor, SendRequest, ExecutorDeclines, ClaimCompensation, RequestReturns,
         SaveTerminal, process, history
<1>b. misreported \subseteq misreported'
  BY DEF EnterExecutor, SendRequest, ExecutorDeclines, ClaimCompensation, RequestReturns,
         SaveTerminal, PersistTerminal, Update, durable
<1>c. \A q \in Occ \ {o} : pendingTerminal'[q] = pendingTerminal[q]
  <2>1. pendingTerminal \in [Occ -> PendingTerminal]
    BY <1>0 DEF TypeOK
  <2> QED
    BY <1>a, <2>1 DEF EnterExecutor, SendRequest, ExecutorDeclines, ClaimCompensation, RequestReturns,
                      SaveTerminal
\* The occurrence in hand runs, before and after, or its result is final.
<1>1. ASSUME owner.pc \in Busy \cup {"eligibility"}, o \in Occ, owner'.pc # "eligibility",
             CallbacksDue', Covered(o)',
             \A q \in Occ \ {o} : occurrences'[q] = occurrences[q] /\ nextRuns'[q] = nextRuns[q],
             timerDue' = timerDue \/ \E k \in Kind, at \in Nat :
               SetTimers({}, RetryTimer(timerDue, <<k, o>>, at))
      PROVE  Coverage'
  <2>1. ASSUME NEW u \in TimerId, \A k \in Kind : u # <<k, o>>
        PROVE  timerDue'[u] = timerDue[u]
    <3>1. CASE timerDue' = timerDue
      BY <3>1
    <3>2. ASSUME NEW k \in Kind, NEW at \in Nat, SetTimers({}, RetryTimer(timerDue, <<k, o>>, at))
          PROVE  timerDue'[u] = timerDue[u]
      <4>1. timerDue' = RetryTimer(timerDue, <<k, o>>, at)
        BY <3>2 DEF SetTimers
      <4> QED
        BY <1>0, <2>1, <4>1 DEF RetryTimer
    <3> QED
      BY <1>1, <3>1, <3>2
  <2>2. \A q \in Occ \ {o} :
          /\ timerDue'[OccurrenceTimer(q)] = timerDue[OccurrenceTimer(q)]
          /\ timerDue'[CompensationTimer(q)] = timerDue[CompensationTimer(q)]
    <3>1. ASSUME NEW q \in Occ \ {o}, NEW u \in {OccurrenceTimer(q), CompensationTimer(q)}
          PROVE  u \in TimerId /\ \A k \in Kind : u # <<k, o>>
      BY <1>1, <3>1, TimerNames
    <3> QED
      BY <2>1, <3>1
  <2>3. timerDue'[ReconcileRetryTimer] = timerDue[ReconcileRetryTimer]
    BY <1>1, <2>1, TimerIdType, TimersDistinct
  <2>4. \A q \in Occ \ {o} : Covered(q)'
    BY <1>0, <1>1, <2>2, <2>3, <1>a, <1>b, <1>c, OthersCovered DEF Coverage
  <2> QED
    BY <1>1, <2>4 DEF Coverage, EligibleWaits
<1>2. ASSUME NEW q \in Occ, occurrences'[q].status = "running"
      PROVE  Covered(q)'
  BY <1>2 DEF Covered, InTime, PlannedTimed, Planned, WaitTimed, Waits, PendingCompensation
<1>3. ASSUME UNCHANGED <<timerDue, inbox>> PROVE CallbacksDue'
  BY <1>0, <1>3 DEF CallbacksDue
<1>4. CASE EnterExecutor \/ SendRequest \/ \E status \in {"skipped", "failed"} : ExecutorDeclines(status)
  <2>1. /\ owner.pc \in Busy /\ owner'.pc # "eligibility"
        /\ UNCHANGED <<timerDue, inbox, occurrences, nextRuns>>
    BY <1>0, <1>4, ExecutorStepsAside
  <2>2. o \in Occ /\ Running(o)
    BY <1>a, <1>0, <2>1 DEF OwnerRuns
  <2> QED
    BY <1>1, <1>2, <1>3, <2>1, <2>2 DEF Running
<1>5. ASSUME NEW result, RequestReturns(result, out)
      PROVE  Coverage'
  <2>1. owner.pc \in Busy /\ owner'.pc = "finishing" /\ UNCHANGED <<timerDue, inbox>>
    BY <1>0, <1>5 DEF RequestReturns, history, Busy, TypeOK, OwnerState
  <2>2. o \in Occ /\ Running(o)
    BY <1>a, <1>0, <2>1 DEF OwnerRuns
  <2>3. nextRuns' = nextRuns /\ \/ occurrences' = occurrences
                                \/ \E at : occurrences' = [occurrences EXCEPT ![o].dueAt = at]
    BY <1>a, <1>5 DEF RequestReturns, Update, durable
  <2>4. occurrences'[o].status = "running" /\ \A q \in Occ \ {o} : occurrences'[q] = occurrences[q]
    BY <1>0, <2>2, <2>3 DEF Running, OccurrenceState
  <2> QED
    BY <1>1, <1>2, <1>3, <2>1, <2>2, <2>3, <2>4
<1>6. ASSUME NEW eligible \in BOOLEAN, ClaimCompensation(eligible, out)
      PROVE  Coverage'
  <2>1. owner.pc = "eligibility" /\ o \in Occ
    BY <1>a, <1>0, <1>6 DEF ClaimCompensation, history, OwnerAccounted
  <2>2. owner'.pc # "eligibility"
    BY <1>0, <1>6, <2>1 DEF ClaimCompensation, history, Idle, TypeOK, OwnerState
  <2>3. \/ SetTimers({}, timerDue)
        \/ SetTimers({}, RetryTimer(timerDue, CompensationTimer(o), now))
    BY <1>a, <1>6 DEF ClaimCompensation, history
  <2>4. CallbacksDue' /\ (timerDue' = timerDue \/ \E k \in Kind, at \in Nat :
                            SetTimers({}, RetryTimer(timerDue, <<k, o>>, at)))
    <3>1. CallbacksDue'
      BY <1>0, <2>3, CallbacksStayDue
    <3> QED
      BY <1>0, <2>3, <3>1 DEF SetTimers, CompensationTimer, Kind
  <2>5. InTime(o) /\ (Serving => PlannedTimed(o) /\ WaitTimed(o)) /\ (Serving => CompensationClaimable(o))
    BY <1>a, <1>0, <2>1 DEF Coverage, Covered, EligibleWaits
  <2> DEFINE status == IF eligible THEN "running" ELSE "skipped"
             entries == [occurrences EXCEPT ![o] = CompensationClaim(occurrences[o], status)]
             runs == [nextRuns EXCEPT ![o] = 0]
  <2>6. /\ entries[o].status \in {"running", "skipped"}
        /\ \A q \in Occ \ {o} : entries[q] = occurrences[q] /\ runs[q] = nextRuns[q]
    BY <1>0, <2>1 DEF CompensationClaim, OccurrenceState
  <2>7. IF CompensationClaimable(o) THEN Update(out, entries, runs) ELSE Update(out, occurrences, nextRuns)
    BY <1>a, <1>6 DEF ClaimCompensation
  <2> HIDE DEF status, entries, runs
  <2>8. \/ UNCHANGED <<occurrences, nextRuns>> /\ ~(out = "ok" /\ CompensationClaimable(o))
        \/ occurrences' = entries /\ nextRuns' = runs
    BY <2>7, WriteEffect
  <2>9. CASE occurrences' = entries /\ nextRuns' = runs
    <3>1. Covered(o)'
      BY <2>6, <2>9 DEF Covered, InTime, PlannedTimed, Planned, WaitTimed, Waits, PendingCompensation
    <3> QED
      BY <1>1, <2>1, <2>2, <2>4, <2>6, <2>9, <3>1
  <2>10. CASE UNCHANGED <<occurrences, nextRuns>> /\ ~(out = "ok" /\ CompensationClaimable(o))
    <3>1. ASSUME Serving
          PROVE  PlannedTimed(o)' /\ WaitTimed(o)'
      <4>1. CompensationClaimable(o) /\ out # "ok"
        BY <2>5, <2>10, <3>1
      <4>2. SetTimers({}, RetryTimer(timerDue, CompensationTimer(o), now))
        BY <1>a, <1>6, <4>1 DEF ClaimCompensation
      <4>3. timerDue'[CompensationTimer(o)] # 0
        <5>1. CompensationTimer(o) \in TimerId /\ phase = "up"
          BY <2>1, <3>1, TimerNames DEF Serving
        <5> QED
          BY <1>0, <4>2, <5>1, RetryArms DEF SetTimers
      <4>4. PlannedTimed(o)'
        BY <2>10, <4>1 DEF PlannedTimed, Planned, CompensationClaimable, PendingCompensation
      <4>5. WaitTimed(o)'
        BY <1>0, <2>10, <4>1, <4>3 DEF WaitTimed, Waits, CompensationClaimable, Selects
      <4> QED
        BY <4>4, <4>5
    <3>2. Covered(o)'
      BY <1>0, <2>5, <2>10, <3>1 DEF Covered, InTime
    <3> QED
      BY <1>1, <2>1, <2>2, <2>4, <2>10, <3>2
  <2> QED
    BY <2>8, <2>9, <2>10
<1>7. CASE SaveTerminal(out)
  <2> DEFINE p == [kind |-> owner.kind, status |-> owner.status]
             at == IF owner.kind = "occurrence" THEN owner.at ELSE now
  <2>1. /\ owner.pc = "finishing" /\ o \in Occ /\ Running(o) /\ owner.status \in Final
        /\ owner'.pc = "reconciling"
    BY <1>a, <1>0, <1>7 DEF SaveTerminal, history, OwnerRuns, Busy, OwnerAccounted
  <2>2. p \in PendingTerminal /\ p.status \in Final /\ at \in Nat
    BY <1>0, <2>1 DEF PendingTerminal, TypeOK, OwnerState
  <2>3. /\ PersistTerminal(o, p, out)
        /\ SetTimers({}, IF out = "ok" THEN timerDue ELSE RetryTimer(timerDue, <<owner.kind, o>>, at))
    BY <1>a, <1>7 DEF SaveTerminal, history
  <2> HIDE DEF at
  <2>4. CallbacksDue' /\ (timerDue' = timerDue \/ \E k \in Kind, t \in Nat :
                            SetTimers({}, RetryTimer(timerDue, <<k, o>>, t)))
    <3>1. CallbacksDue'
      BY <1>0, <2>3, CallbacksStayDue
    <3>2. CASE out = "ok"
      BY <2>3, <3>1, <3>2 DEF SetTimers
    <3>3. CASE out # "ok"
      <4>1. SetTimers({}, RetryTimer(timerDue, <<owner.kind, o>>, at))
        BY <2>3, <3>3
      <4> QED
        BY <1>0, <2>2, <3>1, <4>1
    <3> QED
      BY <3>2, <3>3
  <2>5. /\ \A q \in Occ \ {o} : occurrences'[q] = occurrences[q] /\ nextRuns'[q] = nextRuns[q]
        /\ occurrences'[o].status \in Final \cup {"running"}
    <3>1. TerminalEntry(occurrences[o], p).status = p.status
      BY <1>0, <2>1 DEF TerminalEntry, OccurrenceState
    <3>2. \/ UNCHANGED <<occurrences, nextRuns>>
          \/ \E run : /\ occurrences' = [occurrences EXCEPT ![o] = TerminalEntry(occurrences[o], p)]
                      /\ nextRuns' = [nextRuns EXCEPT ![o] = run]
      BY <2>3 DEF PersistTerminal, Update
    <3> HIDE DEF p
    <3> QED
      BY <1>0, <2>1, <2>2, <3>1, <3>2 DEF Running
  <2>6. Covered(o)'
    BY <2>1, <2>5 DEF Covered, InTime, PlannedTimed, Planned, WaitTimed, Backed, Final
  <2> QED
    BY <1>1, <2>1, <2>4, <2>5, <2>6 DEF Busy
<1> QED
  BY <1>4, <1>5, <1>6, <1>7

LEMMA StepCoverage ==
  ASSUME PlansInTime
  PROVE  CoverageInv /\ [Next]_vars => CoverageInv'
<1> SUFFICES ASSUME CoverageInv, [Next]_vars PROVE Coverage'
  BY StepAnswers DEF CoverageInv
<1>0. TypeOK /\ Coverage
  BY DEF CoverageInv, AnswersInv, RequestAccounting
<1>1. ASSUME UNCHANGED <<now, phase, startErr, config, occurrences, nextRuns, misreported, timerDue,
                         pendingTerminal, owner, applied>>,
             inbox' \subseteq inbox
      PROVE  Coverage'
  BY <1>0, <1>1 DEF Coverage, CallbacksDue, Covered, InTime, PlannedTimed, Planned, WaitTimed, Waits,
                    Backed, EligibleWaits, Serving, CompensationClaimable, Selects
<1>2. CASE UNCHANGED vars
  BY <1>1, <1>2 DEF vars, durable, history
<1>3. ASSUME NEW c \in inbox, OwnerHandles(c)
      PROVE  Coverage'
  <2>1. CASE DropStale(c)
    BY <1>1, <2>1 DEF DropStale, process, durable, history
  <2> QED
    BY <1>3, <2>1, CallbackCoverage, ReconcileCoverage DEF OwnerHandles
<1>4. CASE OwnerContinues
  <2>1. ASSUME NEW out \in WriteOutcomes, ReconcileAfterCallback(out)
        PROVE  Coverage'
    BY <2>1, ReconcileCoverage
  <2>2. CASE owner.pc = "reconciling"
    BY <1>4, <2>1, <2>2 DEF OwnerContinues, EnterExecutor, history, SendRequest, ExecutorDeclines,
                            ClaimCompensation, RequestReturns, SaveTerminal
  <2>3. ASSUME NEW out \in WriteOutcomes, owner.pc # "reconciling"
        PROVE  Coverage'
    BY <1>4, <2>1, <2>3, HandlerCoverage DEF OwnerContinues
  <2>4. CASE WriteOutcomes = {} /\ owner.pc # "reconciling"
    <3>1. /\ UNCHANGED <<now, phase, startErr, config, occurrences, nextRuns, misreported, timerDue, inbox,
                        pendingTerminal, applied>>
          /\ owner.pc # "eligibility" /\ owner'.pc \notin {"eligibility", "reconciling"}
      BY <1>0, <1>4, <2>4, ExecutorStepsAside DEF OwnerContinues, Busy
    <3> QED
      BY <1>0, <2>4, <3>1 DEF Coverage, CallbacksDue, Covered, InTime, PlannedTimed, Planned, WaitTimed,
                              Waits, Backed, EligibleWaits, Serving, Selects
  <2> QED
    BY <2>2, <2>3, <2>4
<1>5. CASE Next
  BY <1>3, <1>4, <1>5, EnvironmentCoverage, ReconcileCoverage DEF Next
<1> QED
  BY <1>2, <1>5

LEMMA InitCoverage == Init => CoverageInv
<1> SUFFICES ASSUME Init PROVE Coverage
  BY InitAnswers DEF CoverageInv
<1> QED
  BY DEF Init, Coverage, CallbacksDue, Covered, InTime, Serving, EligibleWaits, Absent

\* scheduler.go 284-310, 445-530, 815-822: a planned occurrence the state owns
\* has the timer that runs it, and a compensation it owes is timed, or a
\* reconciliation that will time it is armed, or its failure was reported, or
\* the write that owes it is to be repeated; whichever writes fail, and whether
\* or not a write that fails has taken effect.
THEOREM OwedRunsTimed ==
  ASSUME PlansInTime
  PROVE  Spec => []TimerCoverage
<1>1. CoverageInv => TimerCoverage
  <2>1. ASSUME CoverageInv, Settled, NEW o \in Occ
        PROVE  PlannedTimed(o) /\ WaitTimed(o) /\ owner.pc = "idle" /\ (Backed => Replanned)
    BY <2>1 DEF CoverageInv, Coverage, Covered, Serving, Settled, Backed, Replanned
  <2>2. ASSUME CoverageInv, Settled, NEW o \in Occ, Planned(o)
        PROVE  \/ timerDue[OccurrenceTimer(o)] = occurrences[o].plannedAt
               \/ <<o, "planned">> \in misreported /\ Replanned
    BY <2>1, <2>2 DEF PlannedTimed
  <2>3. ASSUME CoverageInv, Settled, NEW o \in Occ, Waits(o)
        PROVE  \/ timerDue[CompensationTimer(o)] # 0
               \/ Replanned
               \/ pendingTerminal[o].kind = "occurrence" /\ timerDue[OccurrenceTimer(o)] # 0
    BY <2>1, <2>3 DEF WaitTimed
  <2> QED
    BY <2>2, <2>3 DEF Planned, Waits, TimerCoverage
<1>2. CoverageInv /\ [Next]_vars => CoverageInv'
  BY StepCoverage
<1> QED
  BY <1>1, <1>2, InitCoverage, PTL DEF Spec

=============================================================================
