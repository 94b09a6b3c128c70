---------------------------- MODULE PluginRuntime ----------------------------
(***************************************************************************)
(* The plugin as its host sees it (main.go) and the Runtime's life and     *)
(* schedule (internal/app/runtime.go, internal/store/config.go): calls of  *)
(* management clients run under the read side of the runtime slot's lock;  *)
(* initialisation and shutdown take its write side, stop the old Runtime   *)
(* and wait for what it still does; an update of the schedule compares     *)
(* revisions, asks the host for the accounts, saves, swaps and reconciles  *)
(* under configMu.  config.json outlives the process, and so does what a   *)
(* client has read.                                                        *)
(*                                                                         *)
(* Everything a Runtime does in the background (health probes, resets,     *)
(* preheats) is a Job: it passes through calls of the host.                *)
(***************************************************************************)
EXTENDS Naturals

CONSTANTS
  Client,        \* management clients
  HostThread,    \* threads of the host that initialise and shut down
  Job,           \* background work
  Draft,         \* contents of a schedule
  DefaultDraft,  \* the content of domain.DefaultConfig
  Null,          \* nothing, nobody
  Missing,       \* config.json does not exist
  Corrupt,       \* config.json cannot be read as a configuration
  WriteOutcomes, \* how a write of config.json may end
  MaxRevision,   \* bound: revisions that clients replace
  MaxLives,      \* bound: initialisations and shutdowns
  MaxMishaps     \* bound: failed writes, reads and reconciliations, deaths of the
                 \* process, and damages to config.json, all together

Schedule == [revision : Nat, draft : Draft]
Default == [revision |-> 1, draft |-> DefaultDraft]
Successor(s, d) == [revision |-> s.revision + 1, draft |-> d]

ASSUME PluginAssumption ==
  /\ DefaultDraft \in Draft
  /\ Null \notin Schedule \cup Draft \cup Client \cup HostThread
  /\ Missing \notin Schedule /\ Corrupt \notin Schedule
  /\ Missing # Corrupt /\ Null # Missing /\ Null # Corrupt
  /\ WriteOutcomes \subseteq {"ok", "lost", "kept"}
  /\ {MaxRevision, MaxLives, MaxMishaps} \subseteq Nat

VARIABLES
  disk,     \* durable: config.json
  live,     \* Runtime.config; Null: no Runtime
  followed, \* the configuration that the scheduler took last
  up,       \* runtimeSlot.runtime is set
  stopped,  \* Runtime.stopped, and the contexts of its work are cancelled
  hosted,   \* stored_host is set
  writer,   \* the thread that has announced or holds runtimeSlot.Lock
  readers,  \* the clients that hold runtimeSlot.RLock
  configMu, \* the client that holds Runtime.configMu
  call,     \* the call of each client
  life,     \* the lifecycle call of each host thread
  jobs,     \* what each background job does
  read,     \* the client's: the schedule it last read
  valid,    \* history: clients whose reading stems from the present file
  told,     \* history: the last update acknowledged to a client
  lives,    \* initialisations and shutdowns so far
  mishaps   \* failures, crashes and damages so far

runtimeVars == <<live, followed, up, stopped, hosted>>
lockVars == <<writer, readers, configMu>>
clientVars == <<read, valid, told>>
spent == <<lives, mishaps>>
vars == <<disk, runtimeVars, lockVars, call, life, jobs, clientVars, spent>>

CallStage == {"idle", "arrived", "entered", "discover", "save", "swap", "reconcile"}
LifeStage == {"idle", "waiting", "draining", "stopping", "stopped", "starting"}
JobStage == {"idle", "ready", "sending", "calling"}

Call == [stage : CallStage, draft : Draft \cup {Null}]
NoCall == [stage |-> "idle", draft |-> Null]
Life == [stage : LifeStage, kind : {"init", "shutdown"}]

TypeOK ==
  /\ disk \in Schedule \cup {Missing, Corrupt}
  /\ live \in Schedule \cup {Null} /\ followed \in Schedule \cup {Null}
  /\ up \in BOOLEAN /\ stopped \in BOOLEAN /\ hosted \in BOOLEAN
  /\ writer \in HostThread \cup {Null}
  /\ readers \subseteq Client
  /\ configMu \in Client \cup {Null}
  /\ call \in [Client -> Call]
  /\ life \in [HostThread -> Life]
  /\ jobs \in [Job -> JobStage]
  /\ read \in [Client -> Schedule \cup {Null}]
  /\ valid \subseteq Client
  /\ told \in Schedule \cup {Null}
  /\ lives \in Nat /\ mishaps \in Nat

Init ==
  /\ disk = Missing
  /\ live = Null /\ followed = Null
  /\ up = FALSE /\ stopped = FALSE /\ hosted = FALSE
  /\ writer = Null /\ readers = {} /\ configMu = Null
  /\ call = [c \in Client |-> NoCall]
  /\ life = [h \in HostThread |-> [stage |-> "idle", kind |-> "init"]]
  /\ jobs = [j \in Job |-> "idle"]
  /\ read = [c \in Client |-> Null]
  /\ valid = {}
  /\ told = Null
  /\ lives = 0 /\ mishaps = 0

Mishap == mishaps < MaxMishaps /\ mishaps' = mishaps + 1 /\ UNCHANGED lives
MishapIf(fails) == IF fails THEN Mishap ELSE UNCHANGED spent

-----------------------------------------------------------------------------
\* Calls of the management clients.

AtCall(c, stage) == call[c].stage = stage
GoTo(c, stage) == call' = [call EXCEPT ![c].stage = stage]

\* Mutant: only an update that went through gives the mutex back.
ForgottenUnlock(c) == IF configMu = c /\ call[c].stage = "reconcile" THEN Null ELSE configMu

ConfigUnlock(c) == IF configMu = c THEN Null ELSE configMu

\* The call is answered: its deferred unlocks run.
Leave(c) ==
  /\ call' = [call EXCEPT ![c] = NoCall]
  /\ readers' = readers \ {c}
  /\ configMu' = ConfigUnlock(c)
  /\ UNCHANGED writer

\* GET /schedule; it waits for nothing inside the slot's lock.
GetSchedule(c) ==
  /\ AtCall(c, "idle")
  /\ writer = Null /\ up
  /\ read' = [read EXCEPT ![c] = live]
  /\ valid' = valid \cup {c}
  /\ UNCHANGED <<disk, runtimeVars, lockVars, call, life, jobs, told, spent>>

\* PUT /schedule with the revision that the client has read.
Ask(c, d) ==
  /\ AtCall(c, "idle")
  /\ read[c] # Null /\ read[c].revision < MaxRevision
  /\ call' = [call EXCEPT ![c] = [stage |-> "arrived", draft |-> d]]
  /\ UNCHANGED <<disk, runtimeVars, lockVars, life, jobs, clientVars, spent>>

\* A waiting writer keeps new readers out; without a Runtime the answer is a
\* retryable error.
Dispatch(c) ==
  /\ AtCall(c, "arrived") /\ writer = Null
  /\ IF up
     THEN GoTo(c, "entered") /\ readers' = readers \cup {c} /\ UNCHANGED <<writer, configMu>>
     ELSE Leave(c)
  /\ UNCHANGED <<disk, runtimeVars, life, jobs, clientVars, spent>>

\* Mutant: a late writer wins.
AnyRevision(c) == read[c] # Null

SameRevision(c) == read[c].revision = live.revision

CompareRevision(c) ==
  /\ AtCall(c, "entered") /\ configMu = Null
  /\ IF SameRevision(c)
     THEN GoTo(c, "discover") /\ configMu' = c /\ UNCHANGED <<writer, readers>>
     ELSE Leave(c)
  /\ UNCHANGED <<disk, runtimeVars, life, jobs, clientVars, spent>>

\* The host lists the accounts or fails, the draft is valid for them or not.
DiscoverAndValidate(c) ==
  /\ AtCall(c, "discover")
  /\ \/ GoTo(c, "save") /\ UNCHANGED lockVars
     \/ Leave(c)
  /\ UNCHANGED <<disk, runtimeVars, life, jobs, clientVars, spent>>

\* writeAtomic: lost leaves the old file, kept is an error after the rename.
SaveConfig(c, outcome) ==
  /\ AtCall(c, "save")
  /\ disk' = IF outcome = "lost" THEN disk ELSE Successor(live, call[c].draft)
  /\ IF outcome = "ok" THEN GoTo(c, "swap") /\ UNCHANGED lockVars ELSE Leave(c)
  /\ MishapIf(outcome # "ok")
  /\ UNCHANGED <<runtimeVars, life, jobs, clientVars>>

SwapConfig(c) ==
  /\ AtCall(c, "swap")
  /\ live' = Successor(live, call[c].draft)
  /\ GoTo(c, "reconcile")
  /\ UNCHANGED <<disk, followed, up, stopped, hosted, lockVars, life, jobs, clientVars, spent>>

\* A reconciliation that fails answers an error; the schedule stays in force,
\* and the scheduler may have taken it.
ReconcileSchedule(c, succeeds) ==
  /\ AtCall(c, "reconcile")
  /\ followed' \in IF succeeds THEN {live} ELSE {live, followed}
  /\ told' = IF succeeds THEN live ELSE told
  /\ Leave(c)
  /\ MishapIf(~succeeds)
  /\ UNCHANGED <<disk, live, up, stopped, hosted, life, jobs, read, valid>>

UpdateStep(c) ==
  \/ DiscoverAndValidate(c)
  \/ \E outcome \in WriteOutcomes : SaveConfig(c, outcome)
  \/ SwapConfig(c)
  \/ \E succeeds \in BOOLEAN : ReconcileSchedule(c, succeeds)

-----------------------------------------------------------------------------
\* Calls of the host that begin and end a Runtime.

AtLife(h, stage) == life[h].stage = stage
MoveOn(h, stage) == life' = [life EXCEPT ![h].stage = stage]

CallLifecycle(h, kind) ==
  /\ AtLife(h, "idle")
  /\ lives < MaxLives /\ lives' = lives + 1
  /\ life' = [life EXCEPT ![h] = [stage |-> "waiting", kind |-> kind]]
  /\ UNCHANGED <<disk, runtimeVars, lockVars, call, jobs, clientVars, mishaps>>

\* runtimeSlot.Lock: first among writers, then among readers.
AnnounceWriter(h) ==
  /\ AtLife(h, "waiting") /\ writer = Null
  /\ writer' = h
  /\ MoveOn(h, "draining")
  /\ UNCHANGED <<disk, runtimeVars, readers, configMu, call, jobs, clientVars, spent>>

\* Runtime.Stop up to its wait.
StopOld(h) ==
  /\ AtLife(h, "draining") /\ readers = {}
  /\ IF up THEN configMu = Null /\ stopped' = TRUE /\ MoveOn(h, "stopping")
           ELSE UNCHANGED stopped /\ MoveOn(h, "stopped")
  /\ UNCHANGED <<disk, live, followed, up, hosted, lockVars, call, jobs, clientVars, spent>>

\* Mutant: cancelling is taken for ending.
Cancelled == stopped

Resting == \A j \in Job : jobs[j] = "idle"

\* Runtime.Stop has waited for its goroutines.
StopReturns(h) ==
  /\ AtLife(h, "stopping") /\ Resting
  /\ up' = FALSE /\ live' = Null /\ followed' = Null
  /\ MoveOn(h, "stopped")
  /\ UNCHANGED <<disk, stopped, hosted, lockVars, call, jobs, clientVars, spent>>

Finish(h) == MoveOn(h, "idle") /\ writer' = Null /\ UNCHANGED <<readers, configMu>>

\* Mutant: whatever is in the file is taken.
LoadedBlindly(file) == IF file = Missing THEN Default ELSE file

Loaded(file) == IF file \in {Missing, Corrupt} THEN Default ELSE file

\* newRuntime without an error: a configuration that cannot be read gives way
\* to the default in memory, one that does not exist also in the file.
Load(h) ==
  /\ AtLife(h, "stopped") /\ life[h].kind = "init"
  /\ live' = Loaded(disk)
  /\ disk' = IF disk = Missing THEN Default ELSE disk
  /\ valid' = IF disk \in {Missing, Corrupt} THEN {} ELSE valid
  /\ MoveOn(h, "starting")
  /\ UNCHANGED <<followed, up, stopped, hosted, lockVars, call, jobs, read, told, spent>>

\* newRuntime with an error: the file cannot be read at all, or not created.
LoadFails(h) ==
  /\ AtLife(h, "stopped") /\ life[h].kind = "init"
  /\ disk' \in IF disk = Missing /\ "kept" \in WriteOutcomes THEN {Missing, Default} ELSE {disk}
  /\ valid' = IF disk' # disk THEN {} ELSE valid
  /\ hosted' = FALSE
  /\ Mishap
  /\ Finish(h)
  /\ UNCHANGED <<live, followed, up, stopped, call, jobs, read, told>>

\* store_host_api, Runtime.Start and its Reconcile, the slot set.
Launch(h, succeeds) ==
  /\ AtLife(h, "starting")
  /\ hosted' = TRUE
  /\ up' = TRUE /\ stopped' = FALSE
  /\ followed' \in IF succeeds THEN {live} ELSE {live, followed}
  /\ MishapIf(~succeeds)
  /\ Finish(h)
  /\ UNCHANGED <<disk, live, call, jobs, clientVars>>

ClearHost(h) ==
  /\ AtLife(h, "stopped") /\ life[h].kind = "shutdown"
  /\ hosted' = FALSE
  /\ Finish(h)
  /\ UNCHANGED <<disk, live, followed, up, stopped, call, jobs, clientVars, spent>>

LifeStep(h) ==
  \/ AnnounceWriter(h) \/ StopOld(h) \/ StopReturns(h)
  \/ Load(h) \/ LoadFails(h) \/ ClearHost(h)
  \/ \E succeeds \in BOOLEAN : Launch(h, succeeds)

-----------------------------------------------------------------------------
\* Background work.

MoveJob(j, from, to) ==
  /\ jobs[j] = from
  /\ jobs' = [jobs EXCEPT ![j] = to]
  /\ UNCHANGED <<disk, runtimeVars, lockVars, call, life, clientVars, spent>>

\* Whatever begins work looks at stopped under the lock that Stop takes.
BeginJob(j) == up /\ ~stopped /\ MoveJob(j, "idle", "ready")

\* host.Client looks at the context before the call.
CheckContext(j) == ~stopped /\ MoveJob(j, "ready", "sending")
EnterHost(j) == MoveJob(j, "sending", "calling")
HostReturns(j) == MoveJob(j, "calling", "ready")
EndJob(j) == MoveJob(j, "ready", "idle")

-----------------------------------------------------------------------------

Crash ==
  /\ Mishap
  /\ live' = Null /\ followed' = Null
  /\ up' = FALSE /\ stopped' = FALSE /\ hosted' = FALSE
  /\ writer' = Null /\ readers' = {} /\ configMu' = Null
  /\ call' = [c \in Client |-> NoCall]
  /\ life' = [h \in HostThread |-> [stage |-> "idle", kind |-> "init"]]
  /\ jobs' = [j \in Job |-> "idle"]
  /\ UNCHANGED <<disk, clientVars>>

\* Somebody spoils or removes config.json.
Damage ==
  /\ Mishap
  /\ disk' \in {Missing, Corrupt}
  /\ UNCHANGED <<runtimeVars, lockVars, call, life, jobs, clientVars>>

Next ==
  \/ \E c \in Client :
       \/ GetSchedule(c) \/ Dispatch(c) \/ CompareRevision(c) \/ UpdateStep(c)
       \/ \E d \in Draft : Ask(c, d)
  \/ \E h \in HostThread :
       \/ LifeStep(h)
       \/ \E kind \in {"init", "shutdown"} : CallLifecycle(h, kind)
  \/ \E j \in Job : BeginJob(j) \/ CheckContext(j) \/ EnterHost(j) \/ HostReturns(j) \/ EndJob(j)
  \/ Crash
  \/ Damage

Spec == Init /\ [][Next]_vars

\* Goroutines run, and the host answers its calls.  A mutex of Go hands itself
\* to whoever has waited long, hence strong fairness for configMu.
Fairness ==
  /\ \A c \in Client : WF_vars(Dispatch(c)) /\ SF_vars(CompareRevision(c)) /\ WF_vars(UpdateStep(c))
  /\ \A h \in HostThread : WF_vars(LifeStep(h))
  /\ \A j \in Job : /\ WF_vars(CheckContext(j)) /\ WF_vars(EnterHost(j)) /\ WF_vars(HostReturns(j))
                    /\ WF_vars(stopped /\ EndJob(j))

FairSpec == Spec /\ Fairness

-----------------------------------------------------------------------------
\* Properties.

\* README 98 and 210, design spec 163 and 331: no update replaces a schedule
\* that its author has not read, what is in force is what a restart finds, what
\* is acknowledged is in force and followed; over crashes at any step, failed
\* writes with and without effect, restarts and concurrent clients.
Register == INSTANCE ScheduleRegister WITH durable <- disk
KeepsRegister == Register!Spec

\* main.go 84-89 and 301: the host is called only during the life of a Runtime.
\* Neither replacement nor shutdown leaves work behind that still sends, and no
\* call of a client meets a Runtime that is being stopped.
QuietOutsideLife ==
  /\ \A j \in Job : jobs[j] # "idle" => up /\ hosted
  /\ readers # {} => up /\ hosted /\ ~stopped

\* Every management call is answered, and initialisation and shutdown return,
\* although they wait for each other and for the host.
CallsReturn ==
  /\ \A c \in Client : ~AtCall(c, "idle") ~> AtCall(c, "idle")
  /\ \A h \in HostThread : ~AtLife(h, "idle") ~> AtLife(h, "idle")

=============================================================================
