---------------------------- MODULE PluginProofs ----------------------------
(***************************************************************************)
(* Theorems of PluginRuntime for every set of clients, host threads and    *)
(* jobs, every content of a schedule and every outcome of the writes.      *)
(*                                                                         *)
(* The locks come first: who is in the middle of a lifecycle call holds    *)
(* the slot for itself, who updates the schedule holds configMu and reads  *)
(* the slot.  On them rests what the properties say of the Runtime's life  *)
(* and of the revisions.                                                   *)
(***************************************************************************)
EXTENDS PluginRuntime, TLAPS

LEMMA ScheduleFacts ==
  /\ Default \in Schedule
  /\ \A s \in Schedule, d \in Draft :
       /\ Successor(s, d) \in Schedule
       /\ Successor(s, d).revision = s.revision + 1 /\ Successor(s, d).draft = d
  /\ \A s, t \in Schedule : s.revision = t.revision /\ s.draft = t.draft => s = t
  /\ Missing \notin Schedule /\ Corrupt \notin Schedule /\ Null \notin Schedule
  BY PluginAssumption DEF Default, Schedule, Successor

LEMMA LoadedType ==
  ASSUME NEW file \in Schedule \cup {Missing, Corrupt}
  PROVE  Loaded(file) \in Schedule
  BY ScheduleFacts DEF Loaded

LEMMA InitType == Init => TypeOK
<1> SUFFICES ASSUME Init PROVE TypeOK
  OBVIOUS
<1>1. call \in [Client -> Call]
  BY DEF Init, NoCall, Call, CallStage
<1>2. life \in [HostThread -> Life]
  BY DEF Init, Life, LifeStage
<1>3. jobs \in [Job -> JobStage]
  BY DEF Init, JobStage
<1> QED
  BY <1>1, <1>2, <1>3 DEF Init, TypeOK

(***************************************************************************)
(* Who holds what.                                                         *)
(***************************************************************************)
Updating == {"discover", "save", "swap", "reconcile"}
Inside == {"entered"} \cup Updating
Exclusive == {"draining", "stopping", "stopped", "starting"}

CallsOrdered == \A c \in Client :
  /\ AtCall(c, "idle") \/ (call[c].draft \in Draft /\ read[c] # Null)
  /\ call[c].stage \in Inside => c \in readers
  /\ call[c].stage \in Updating => configMu = c

LifeOrdered ==
  /\ \A h \in HostThread :
       /\ life[h].stage \in Exclusive => writer = h
       /\ life[h].stage \in {"stopping", "stopped", "starting"} => readers = {}
       /\ AtLife(h, "stopping") => up /\ stopped
       /\ AtLife(h, "stopped") => ~up /\ live = Null
       /\ AtLife(h, "starting") => ~up /\ live # Null
  /\ live # Null => up \/ \E h \in HostThread : AtLife(h, "starting")
  /\ up => hosted /\ live # Null
  /\ up /\ stopped => writer # Null
  /\ readers # {} => up /\ ~stopped
  /\ \A j \in Job : jobs[j] # "idle" => up

Ordered == TypeOK /\ CallsOrdered /\ LifeOrdered

\* Whoever updates the schedule has a Runtime with one.
LEMMA InsideHasLive ==
  ASSUME Ordered, NEW c \in Client, call[c].stage \in Inside
  PROVE  /\ live \in Schedule /\ call[c].draft \in Draft /\ read[c] \in Schedule
         /\ up /\ c \in readers
<1>1. c \in readers /\ call[c].draft \in Draft /\ read[c] # Null
  BY DEF Ordered, CallsOrdered, AtCall, Inside, Updating
<1>2. up /\ live # Null
  BY <1>1 DEF Ordered, LifeOrdered
<1> QED
  BY <1>1, <1>2 DEF Ordered, TypeOK

(***************************************************************************)
(* Types, one group of actions after the other.                            *)
(***************************************************************************)
LEMMA LeaveType ==
  ASSUME TypeOK, NEW c \in Client, Leave(c)
  PROVE  /\ call' \in [Client -> Call] /\ readers' \subseteq Client
         /\ configMu' \in Client \cup {Null} /\ writer' \in HostThread \cup {Null}
  BY DEF Leave, TypeOK, NoCall, Call, CallStage, ConfigUnlock

LEMMA MoveType ==
  ASSUME TypeOK, NEW c \in Client, NEW stage \in CallStage, GoTo(c, stage)
  PROVE  call' \in [Client -> Call]
  BY DEF GoTo, TypeOK, Call

LEMMA MishapType ==
  ASSUME TypeOK, NEW fails \in BOOLEAN, MishapIf(fails)
  PROVE  lives' \in Nat /\ mishaps' \in Nat
  BY DEF MishapIf, Mishap, spent, TypeOK

LEMMA ClientType ==
  ASSUME Ordered, NEW c \in Client,
         \/ GetSchedule(c) \/ Dispatch(c) \/ CompareRevision(c) \/ UpdateStep(c)
         \/ \E d \in Draft : Ask(c, d)
  PROVE  TypeOK'
<1> USE DEF runtimeVars, lockVars, clientVars, spent
<1>0. TypeOK
  BY DEF Ordered
<1>1. CASE GetSchedule(c)
  BY <1>0, <1>1 DEF GetSchedule, TypeOK
<1>2. ASSUME NEW d \in Draft, Ask(c, d)
      PROVE  TypeOK'
  BY <1>0, <1>2 DEF Ask, TypeOK, Call, CallStage
<1>3. CASE Dispatch(c)
  <2>1. CASE up
    <3>1. call' \in [Client -> Call]
      BY <1>0, <1>3, <2>1, MoveType DEF Dispatch, CallStage
    <3> QED
      BY <1>0, <1>3, <2>1, <3>1 DEF Dispatch, TypeOK
  <2>2. CASE ~up
    BY <1>0, <1>3, <2>2, LeaveType DEF Dispatch, TypeOK
  <2> QED
    BY <2>1, <2>2
<1>4. CASE CompareRevision(c)
  <2>1. CASE SameRevision(c)
    <3>1. call' \in [Client -> Call]
      BY <1>0, <1>4, <2>1, MoveType DEF CompareRevision, CallStage
    <3> QED
      BY <1>0, <1>4, <2>1, <3>1 DEF CompareRevision, TypeOK
  <2>2. CASE ~SameRevision(c)
    BY <1>0, <1>4, <2>2, LeaveType DEF CompareRevision, TypeOK
  <2> QED
    BY <2>1, <2>2
<1>5. CASE DiscoverAndValidate(c)
  BY <1>0, <1>5, LeaveType, MoveType DEF DiscoverAndValidate, TypeOK, CallStage
<1>6. ASSUME NEW outcome \in WriteOutcomes, SaveConfig(c, outcome)
      PROVE  TypeOK'
  <2>1. lives' \in Nat /\ mishaps' \in Nat
    BY <1>0, <1>6, MishapType DEF SaveConfig
  <2>2. disk' \in Schedule \cup {Missing, Corrupt}
    <3>1. Successor(live, call[c].draft) \in Schedule
      BY <1>6, InsideHasLive, ScheduleFacts DEF SaveConfig, AtCall, Inside, Updating
    <3> QED
      BY <1>0, <1>6, <3>1 DEF SaveConfig, TypeOK
  <2>3. /\ call' \in [Client -> Call] /\ readers' \subseteq Client
        /\ configMu' \in Client \cup {Null} /\ writer' \in HostThread \cup {Null}
    BY <1>0, <1>6, LeaveType, MoveType DEF SaveConfig, TypeOK, CallStage
  <2> QED
    BY <1>0, <1>6, <2>1, <2>2, <2>3 DEF SaveConfig, TypeOK
<1>7. CASE SwapConfig(c)
  <2>1. Successor(live, call[c].draft) \in Schedule
    BY <1>7, InsideHasLive, ScheduleFacts DEF SwapConfig, AtCall, Inside, Updating
  <2>2. call' \in [Client -> Call]
    BY <1>0, <1>7, MoveType DEF SwapConfig, CallStage
  <2> QED
    BY <1>0, <1>7, <2>1, <2>2 DEF SwapConfig, TypeOK
<1>8. ASSUME NEW succeeds \in BOOLEAN, ReconcileSchedule(c, succeeds)
      PROVE  TypeOK'
  <2>1. lives' \in Nat /\ mishaps' \in Nat
    BY <1>0, <1>8, MishapType DEF ReconcileSchedule
  <2>2. live \in Schedule
    BY <1>8, InsideHasLive DEF ReconcileSchedule, AtCall, Inside, Updating
  <2> QED
    BY <1>0, <1>8, <2>1, <2>2, LeaveType DEF ReconcileSchedule, TypeOK
<1> QED
  BY <1>1, <1>2, <1>3, <1>4, <1>5, <1>6, <1>7, <1>8 DEF UpdateStep

LEMMA OnlyLifeMoves ==
  ASSUME TypeOK, life' \in [HostThread -> Life],
         UNCHANGED <<disk, live, followed, up, stopped, hosted, writer, readers, configMu, call,
                     jobs, read, valid, told, lives, mishaps>>
  PROVE  TypeOK'
  BY DEF TypeOK

LEMMA LifeType ==
  ASSUME TypeOK, NEW h \in HostThread,
         LifeStep(h) \/ \E kind \in {"init", "shutdown"} : CallLifecycle(h, kind)
  PROVE  TypeOK'
<1> USE DEF runtimeVars, lockVars, clientVars, spent
<1>1. ASSUME NEW stage \in LifeStage, MoveOn(h, stage)
      PROVE  life' \in [HostThread -> Life]
  BY <1>1 DEF MoveOn, TypeOK, Life
<1>2. ASSUME NEW kind \in {"init", "shutdown"}, CallLifecycle(h, kind)
      PROVE  TypeOK'
  BY <1>2 DEF CallLifecycle, TypeOK, Life, LifeStage
<1>3. CASE AnnounceWriter(h)
  <2>1. life' \in [HostThread -> Life]
    BY <1>1, <1>3 DEF AnnounceWriter, LifeStage
  <2> QED
    BY <1>3, <2>1 DEF AnnounceWriter, TypeOK
<1>4. CASE StopOld(h)
  <2>1. life' \in [HostThread -> Life]
    BY <1>1, <1>4 DEF StopOld, LifeStage
  <2>2. CASE up
    <3>1. stopped' = TRUE
      BY <1>4, <2>2 DEF StopOld
    <3> QED
      BY <1>4, <2>1, <3>1 DEF StopOld, TypeOK
  <2>3. CASE ~up
    <3>1. stopped' = stopped
      BY <1>4, <2>3 DEF StopOld
    <3>2. UNCHANGED <<disk, live, followed, up, stopped, hosted, writer, readers, configMu, call,
                      jobs, read, valid, told, lives, mishaps>>
      BY <1>4, <3>1 DEF StopOld
    <3> QED
      BY <2>1, <3>2, OnlyLifeMoves
  <2> QED
    BY <2>2, <2>3
<1>5. CASE StopReturns(h)
  <2>1. life' \in [HostThread -> Life]
    BY <1>1, <1>5 DEF StopReturns, LifeStage
  <2> QED
    BY <1>5, <2>1 DEF StopReturns, TypeOK
<1>6. CASE Load(h)
  <2>1. life' \in [HostThread -> Life]
    BY <1>1, <1>6 DEF Load, LifeStage
  <2>2. live' \in Schedule /\ disk' \in Schedule \cup {Missing, Corrupt}
    BY <1>6, LoadedType, ScheduleFacts DEF Load, TypeOK
  <2> QED
    BY <1>6, <2>1, <2>2 DEF Load, TypeOK
<1>7. CASE LoadFails(h)
  <2>1. life' \in [HostThread -> Life]
    BY <1>1, <1>7 DEF LoadFails, Finish, LifeStage
  <2>2. disk' \in Schedule \cup {Missing, Corrupt}
    BY <1>7, ScheduleFacts DEF LoadFails, TypeOK
  <2>3. valid' \subseteq Client
    BY <1>7 DEF LoadFails, TypeOK
  <2>4. up' \in BOOLEAN /\ stopped' \in BOOLEAN /\ hosted' \in BOOLEAN
    BY <1>7 DEF LoadFails, TypeOK
  <2>5. /\ live' = live /\ followed' = followed /\ writer' = Null /\ readers' = readers
        /\ configMu' = configMu /\ call' = call /\ jobs' = jobs /\ read' = read /\ told' = told
        /\ lives' = lives /\ mishaps' = mishaps + 1
    BY <1>7 DEF LoadFails, Finish, Mishap
  <2> QED
    BY <2>1, <2>2, <2>3, <2>4, <2>5 DEF TypeOK
<1>8. ASSUME NEW succeeds \in BOOLEAN, Launch(h, succeeds)
      PROVE  TypeOK'
  <2>1. life' \in [HostThread -> Life]
    BY <1>1, <1>8 DEF Launch, Finish, LifeStage
  <2>2. lives' \in Nat /\ mishaps' \in Nat
    BY <1>8, MishapType DEF Launch
  <2>3. followed' \in Schedule \cup {Null}
    BY <1>8 DEF Launch, TypeOK
  <2>4. /\ disk' = disk /\ live' = live /\ readers' = readers /\ configMu' = configMu
        /\ call' = call /\ jobs' = jobs /\ read' = read /\ valid' = valid /\ told' = told
    BY <1>8 DEF Launch, Finish
  <2>5. up' \in BOOLEAN /\ stopped' \in BOOLEAN /\ hosted' \in BOOLEAN /\ writer' = Null
    BY <1>8 DEF Launch, Finish
  <2> QED
    BY <2>1, <2>2, <2>3, <2>4, <2>5 DEF TypeOK
<1>9. CASE ClearHost(h)
  <2>1. life' \in [HostThread -> Life]
    BY <1>1, <1>9 DEF ClearHost, Finish, LifeStage
  <2> QED
    BY <1>9, <2>1 DEF ClearHost, Finish, TypeOK
<1> QED
  BY <1>2, <1>3, <1>4, <1>5, <1>6, <1>7, <1>8, <1>9 DEF LifeStep

JobStep(j) == BeginJob(j) \/ CheckContext(j) \/ EnterHost(j) \/ HostReturns(j) \/ EndJob(j)

LEMMA OtherType ==
  ASSUME TypeOK, Crash \/ Damage \/ \E j \in Job : JobStep(j)
  PROVE  TypeOK'
<1> USE DEF runtimeVars, lockVars, clientVars, spent
<1>1. CASE Crash
  <2>1. call' \in [Client -> Call]
    BY <1>1 DEF Crash, NoCall, Call, CallStage
  <2>2. life' \in [HostThread -> Life]
    BY <1>1 DEF Crash, Life, LifeStage
  <2>3. jobs' \in [Job -> JobStage]
    BY <1>1 DEF Crash, JobStage
  <2>4. up' \in BOOLEAN /\ stopped' \in BOOLEAN /\ hosted' \in BOOLEAN
    BY <1>1 DEF Crash
  <2>5. /\ live' = Null /\ followed' = Null /\ writer' = Null /\ readers' = {} /\ configMu' = Null
        /\ disk' = disk /\ read' = read /\ valid' = valid /\ told' = told
        /\ lives' = lives /\ mishaps' = mishaps + 1
    BY <1>1 DEF Crash, Mishap
  <2> QED
    BY <2>1, <2>2, <2>3, <2>4, <2>5 DEF TypeOK
<1>2. CASE Damage
  BY <1>2 DEF Damage, Mishap, TypeOK
<1>3. ASSUME NEW j \in Job, NEW from, NEW to \in JobStage, MoveJob(j, from, to)
      PROVE  TypeOK'
  BY <1>3 DEF MoveJob, TypeOK
<1>4. ASSUME NEW j \in Job, JobStep(j)
      PROVE  \E from, to \in JobStage : MoveJob(j, from, to)
  BY <1>4 DEF JobStep, BeginJob, CheckContext, EnterHost, HostReturns, EndJob, JobStage
<1> QED
  BY <1>1, <1>2, <1>3, <1>4

(***************************************************************************)
(* The locks are kept, one group of actions after the other.               *)
(***************************************************************************)
LEMMA InitOrdered == Init => Ordered
<1> SUFFICES ASSUME Init PROVE Ordered
  OBVIOUS
<1>1. CallsOrdered
  BY DEF Init, CallsOrdered, AtCall, NoCall, Inside, Updating
<1>2. LifeOrdered
  BY DEF Init, LifeOrdered, AtLife, Exclusive
<1> QED
  BY <1>1, <1>2, InitType DEF Ordered

LEMMA GoToFacts ==
  ASSUME TypeOK, NEW c \in Client, NEW stage, GoTo(c, stage)
  PROVE  /\ call'[c].stage = stage /\ call'[c].draft = call[c].draft
         /\ \A b \in Client \ {c} : call'[b] = call[b]
  BY DEF GoTo, TypeOK, Call

LEMMA LeaveFacts ==
  ASSUME TypeOK, NEW c \in Client, Leave(c)
  PROVE  /\ call'[c].stage = "idle"
         /\ \A b \in Client \ {c} : call'[b] = call[b]
         /\ readers' = readers \ {c} /\ writer' = writer
         /\ \A b \in Client \ {c} : configMu = b => configMu' = b
  BY DEF Leave, TypeOK, NoCall, ConfigUnlock

\* A step of one call leaves the others in order.
LEMMA OthersOrdered ==
  ASSUME Ordered, NEW c \in Client,
         \A b \in Client \ {c} : call'[b] = call[b] /\ (read[b] # Null => read'[b] # Null),
         \A b \in Client \ {c} : b \in readers => b \in readers',
         \A b \in Client \ {c} : configMu = b => configMu' = b,
         call'[c].stage = "idle" \/ (call'[c].draft \in Draft /\ read'[c] # Null),
         call'[c].stage \in Inside => c \in readers',
         call'[c].stage \in Updating => configMu' = c
  PROVE  CallsOrdered'
<1> SUFFICES ASSUME NEW b \in Client
             PROVE  /\ call'[b].stage = "idle" \/ (call'[b].draft \in Draft /\ read'[b] # Null)
                    /\ call'[b].stage \in Inside => b \in readers'
                    /\ call'[b].stage \in Updating => configMu' = b
  BY DEF CallsOrdered, AtCall, Inside, Updating
<1>1. CASE b = c
  BY <1>1
<1>2. CASE b # c
  BY <1>2 DEF Ordered, CallsOrdered, AtCall
<1> QED
  BY <1>1, <1>2

\* A step that holds nothing new of the slot leaves the lifecycle in order.
LEMMA LifeOrderedKept ==
  ASSUME Ordered,
         UNCHANGED <<life, writer, up, stopped, hosted, jobs>>,
         readers' \subseteq readers,
         live' = live \/ (readers # {} /\ live' # Null)
  PROVE  LifeOrdered'
  BY DEF Ordered, LifeOrdered, AtLife

LEMMA ClientOrdered ==
  ASSUME Ordered, NEW c \in Client,
         \/ GetSchedule(c) \/ Dispatch(c) \/ CompareRevision(c) \/ UpdateStep(c)
         \/ \E d \in Draft : Ask(c, d)
  PROVE  CallsOrdered' /\ LifeOrdered'
<1> USE DEF runtimeVars, lockVars, clientVars, spent
<1>0. TypeOK /\ CallsOrdered /\ LifeOrdered
  BY DEF Ordered
<1>a. ASSUME Leave(c), UNCHANGED read
      PROVE  CallsOrdered' /\ readers' \subseteq readers /\ writer' = writer
  BY <1>0, <1>a, LeaveFacts, OthersOrdered DEF Inside, Updating
<1>b. ASSUME NEW stage \in Updating, call[c].stage \in Updating, GoTo(c, stage),
             UNCHANGED <<read, readers, configMu>>
      PROVE  CallsOrdered'
  <2>1. call[c].draft \in Draft /\ read[c] # Null /\ c \in readers /\ configMu = c
    BY <1>0, <1>b DEF CallsOrdered, AtCall, Inside, Updating
  <2> QED
    BY <1>0, <1>b, <2>1, GoToFacts, OthersOrdered
<1>1. CASE GetSchedule(c)
  <2>1. live # Null
    BY <1>0, <1>1 DEF GetSchedule, LifeOrdered
  <2>2. CallsOrdered'
    <3>1. read'[c] = live /\ \A b \in Client \ {c} : read'[b] = read[b]
      BY <1>0, <1>1 DEF GetSchedule, TypeOK
    <3>2. \A b \in Client : read[b] # Null => read'[b] # Null
      BY <2>1, <3>1
    <3>3. call' = call /\ readers' = readers /\ configMu' = configMu
      BY <1>1 DEF GetSchedule
    <3> QED
      BY <1>0, <3>2, <3>3 DEF CallsOrdered, AtCall
  <2>3. LifeOrdered'
    BY <1>1, LifeOrderedKept DEF GetSchedule
  <2> QED
    BY <2>2, <2>3
<1>2. ASSUME NEW d \in Draft, Ask(c, d)
      PROVE  CallsOrdered' /\ LifeOrdered'
  <2>1. /\ call'[c].stage = "arrived" /\ call'[c].draft = d
        /\ \A b \in Client \ {c} : call'[b] = call[b]
    BY <1>0, <1>2 DEF Ask, TypeOK
  <2>2. read[c] # Null /\ read' = read /\ readers' = readers /\ configMu' = configMu
    BY <1>2 DEF Ask
  <2>3. CallsOrdered'
    BY <2>1, <2>2, OthersOrdered DEF Inside, Updating
  <2>4. LifeOrdered'
    BY <1>2, LifeOrderedKept DEF Ask
  <2> QED
    BY <2>3, <2>4
<1>3. CASE Dispatch(c)
  <2>1. CASE ~up
    <3>1. CallsOrdered' /\ readers' \subseteq readers /\ writer' = writer
      BY <1>3, <1>a, <2>1 DEF Dispatch
    <3> QED
      BY <1>3, <3>1, LifeOrderedKept DEF Dispatch
  <2>2. CASE up
    <3>1. /\ GoTo(c, "entered") /\ readers' = readers \cup {c} /\ configMu' = configMu
          /\ writer = Null /\ call[c].stage = "arrived" /\ read' = read
      BY <1>3, <2>2 DEF Dispatch, AtCall
    <3>2. call[c].draft \in Draft /\ read[c] # Null
      BY <1>0, <3>1 DEF CallsOrdered, AtCall
    <3>3. CallsOrdered'
      BY <1>0, <3>1, <3>2, GoToFacts, OthersOrdered DEF Inside, Updating
    <3>4. UNCHANGED <<live, life, writer, up, stopped, hosted, jobs>>
      BY <1>3, <2>2 DEF Dispatch
    <3>5. \A h \in HostThread : life[h].stage \notin Exclusive
      BY <1>0, <3>1, PluginAssumption DEF LifeOrdered
    <3>6. ~stopped
      BY <1>0, <2>2, <3>1 DEF LifeOrdered
    <3>7. LifeOrdered'
      BY <1>0, <2>2, <3>4, <3>5, <3>6 DEF LifeOrdered, AtLife, Exclusive
    <3> QED
      BY <3>3, <3>7
  <2> QED
    BY <2>1, <2>2
<1>4. CASE CompareRevision(c)
  <2>1. CASE ~SameRevision(c)
    <3>1. CallsOrdered' /\ readers' \subseteq readers /\ writer' = writer
      BY <1>4, <1>a, <2>1 DEF CompareRevision
    <3> QED
      BY <1>4, <3>1, LifeOrderedKept DEF CompareRevision
  <2>2. CASE SameRevision(c)
    <3>1. /\ GoTo(c, "discover") /\ readers' = readers /\ configMu' = c /\ configMu = Null
          /\ writer' = writer /\ call[c].stage = "entered" /\ read' = read
      BY <1>4, <2>2 DEF CompareRevision, AtCall
    <3>2. call[c].draft \in Draft /\ read[c] # Null /\ c \in readers
      BY <1>0, <3>1 DEF CallsOrdered, AtCall, Inside
    <3>3. \A b \in Client \ {c} : configMu = b => configMu' = b
      BY <3>1, PluginAssumption
    <3>4. CallsOrdered'
      BY <1>0, <3>1, <3>2, <3>3, GoToFacts, OthersOrdered
    <3>5. LifeOrdered'
      BY <1>4, <3>1, LifeOrderedKept DEF CompareRevision
    <3> QED
      BY <3>4, <3>5
  <2> QED
    BY <2>1, <2>2
<1>5. CASE DiscoverAndValidate(c)
  <2>1. CASE Leave(c)
    BY <1>5, <1>a, <2>1, LifeOrderedKept DEF DiscoverAndValidate
  <2>2. CASE GoTo(c, "save") /\ UNCHANGED lockVars
    <3>1. CallsOrdered'
      BY <1>5, <1>b, <2>2 DEF DiscoverAndValidate, AtCall, Updating
    <3> QED
      BY <1>5, <2>2, <3>1, LifeOrderedKept DEF DiscoverAndValidate
  <2> QED
    BY <1>5, <2>1, <2>2 DEF DiscoverAndValidate
<1>6. ASSUME NEW outcome \in WriteOutcomes, SaveConfig(c, outcome)
      PROVE  CallsOrdered' /\ LifeOrdered'
  <2>1. CASE outcome # "ok"
    <3>1. CallsOrdered' /\ readers' \subseteq readers /\ writer' = writer
      BY <1>6, <1>a, <2>1 DEF SaveConfig
    <3> QED
      BY <1>6, <3>1, LifeOrderedKept DEF SaveConfig
  <2>2. CASE outcome = "ok"
    <3>1. CallsOrdered'
      BY <1>6, <1>b, <2>2 DEF SaveConfig, AtCall, Updating
    <3>2. UNCHANGED lockVars
      BY <1>6, <2>2 DEF SaveConfig
    <3> QED
      BY <1>6, <3>1, <3>2, LifeOrderedKept DEF SaveConfig
  <2> QED
    BY <2>1, <2>2
<1>7. CASE SwapConfig(c)
  <2>1. CallsOrdered'
    BY <1>7, <1>b DEF SwapConfig, AtCall, Updating
  <2>2. live' \in Schedule /\ c \in readers
    BY <1>7, InsideHasLive, ScheduleFacts DEF SwapConfig, AtCall, Inside, Updating
  <2>3. LifeOrdered'
    BY <1>7, <2>2, ScheduleFacts, LifeOrderedKept DEF SwapConfig
  <2> QED
    BY <2>1, <2>3
<1>8. ASSUME NEW succeeds \in BOOLEAN, ReconcileSchedule(c, succeeds)
      PROVE  CallsOrdered' /\ LifeOrdered'
  <2>1. CallsOrdered' /\ readers' \subseteq readers /\ writer' = writer
    BY <1>8, <1>a DEF ReconcileSchedule
  <2> QED
    BY <1>8, <2>1, LifeOrderedKept DEF ReconcileSchedule
<1> QED
  BY <1>1, <1>2, <1>3, <1>4, <1>5, <1>6, <1>7, <1>8 DEF UpdateStep

LEMMA MoveOnFacts ==
  ASSUME TypeOK, NEW h \in HostThread, NEW stage, MoveOn(h, stage)
  PROVE  life'[h].stage = stage /\ \A g \in HostThread \ {h} : life'[g] = life[g]
  BY DEF MoveOn, TypeOK, Life

\* Whoever holds the slot is the only one inside a lifecycle call.
LEMMA Alone ==
  ASSUME Ordered, NEW h \in HostThread, life[h].stage \in Exclusive
  PROVE  writer = h /\ \A g \in HostThread \ {h} : life[g].stage \notin Exclusive
  BY DEF Ordered, LifeOrdered

LEMMA HostOrdered ==
  ASSUME Ordered, NEW h \in HostThread,
         LifeStep(h) \/ \E kind \in {"init", "shutdown"} : CallLifecycle(h, kind)
  PROVE  CallsOrdered' /\ LifeOrdered'
<1> USE DEF runtimeVars, lockVars, clientVars, spent
<1>0. TypeOK /\ CallsOrdered /\ LifeOrdered
  BY DEF Ordered
<1>c. ASSUME UNCHANGED <<call, read, readers, configMu>>
      PROVE  CallsOrdered'
  BY <1>0, <1>c DEF CallsOrdered, AtCall
<1>1. ASSUME NEW kind \in {"init", "shutdown"}, CallLifecycle(h, kind)
      PROVE  CallsOrdered' /\ LifeOrdered'
  <2>1. life'[h].stage = "waiting" /\ \A g \in HostThread \ {h} : life'[g] = life[g]
    BY <1>0, <1>1 DEF CallLifecycle, TypeOK
  <2>2. life[h].stage = "idle" /\ UNCHANGED <<runtimeVars, lockVars, jobs>>
    BY <1>1 DEF CallLifecycle, AtLife
  <2>3. LifeOrdered'
    BY <1>0, <2>1, <2>2 DEF LifeOrdered, AtLife, Exclusive
  <2> QED
    BY <1>1, <1>c, <2>3 DEF CallLifecycle
<1>2. CASE AnnounceWriter(h)
  <2>1. life'[h].stage = "draining" /\ \A g \in HostThread \ {h} : life'[g] = life[g]
    BY <1>0, <1>2, MoveOnFacts DEF AnnounceWriter
  <2>2. /\ life[h].stage = "waiting" /\ writer' = h
        /\ UNCHANGED <<runtimeVars, readers, jobs>>
    BY <1>2 DEF AnnounceWriter, AtLife
  <2>3. \A g \in HostThread : life[g].stage \notin Exclusive
    BY <1>0, <1>2, PluginAssumption DEF AnnounceWriter, LifeOrdered
  <2>4. h # Null
    BY PluginAssumption
  <2>5. LifeOrdered'
    BY <1>0, <2>1, <2>2, <2>3, <2>4 DEF LifeOrdered, AtLife, Exclusive
  <2> QED
    BY <1>2, <1>c, <2>5 DEF AnnounceWriter
<1>3. CASE StopOld(h)
  <2>1. writer = h /\ \A g \in HostThread \ {h} : life[g].stage \notin Exclusive
    BY <1>3, Alone DEF StopOld, AtLife, Exclusive
  <2>2. life[h].stage = "draining" /\ readers = {} /\ h # Null
    BY <1>3, PluginAssumption DEF StopOld, AtLife
  <2>3. UNCHANGED <<live, up, hosted, writer, readers, jobs>>
    BY <1>3 DEF StopOld
  <2>4. CASE up
    <3>1. life'[h].stage = "stopping" /\ \A g \in HostThread \ {h} : life'[g] = life[g]
      BY <1>0, <1>3, <2>4, MoveOnFacts DEF StopOld
    <3>2. stopped'
      BY <1>3, <2>4 DEF StopOld
    <3> QED
      BY <1>0, <1>3, <1>c, <2>1, <2>2, <2>3, <2>4, <3>1, <3>2
      DEF StopOld, LifeOrdered, AtLife, Exclusive
  <2>5. CASE ~up
    <3>1. life'[h].stage = "stopped" /\ \A g \in HostThread \ {h} : life'[g] = life[g]
      BY <1>0, <1>3, <2>5, MoveOnFacts DEF StopOld
    <3>2. live = Null
      BY <1>0, <2>1, <2>2, <2>5 DEF LifeOrdered, AtLife, Exclusive
    <3> QED
      BY <1>0, <1>3, <1>c, <2>1, <2>2, <2>3, <2>5, <3>1, <3>2
      DEF StopOld, LifeOrdered, AtLife, Exclusive
  <2> QED
    BY <2>4, <2>5
<1>4. CASE StopReturns(h)
  <2>1. writer = h /\ \A g \in HostThread \ {h} : life[g].stage \notin Exclusive
    BY <1>4, Alone DEF StopReturns, AtLife, Exclusive
  <2>2. life'[h].stage = "stopped" /\ \A g \in HostThread \ {h} : life'[g] = life[g]
    BY <1>0, <1>4, MoveOnFacts DEF StopReturns
  <2>3. readers = {} /\ \A j \in Job : jobs[j] = "idle"
    BY <1>0, <1>4 DEF StopReturns, Resting, LifeOrdered, AtLife
  <2>4. ~up' /\ live' = Null /\ UNCHANGED <<hosted, stopped, writer, readers, jobs>>
    BY <1>4 DEF StopReturns
  <2>5. LifeOrdered'
    BY <1>0, <2>1, <2>2, <2>3, <2>4 DEF LifeOrdered, AtLife, Exclusive
  <2> QED
    BY <1>4, <1>c, <2>5 DEF StopReturns
<1>5. CASE Load(h)
  <2>1. writer = h /\ \A g \in HostThread \ {h} : life[g].stage \notin Exclusive
    BY <1>5, Alone DEF Load, AtLife, Exclusive
  <2>2. life'[h].stage = "starting" /\ \A g \in HostThread \ {h} : life'[g] = life[g]
    BY <1>0, <1>5, MoveOnFacts DEF Load
  <2>3. live' # Null
    BY <1>0, <1>5, LoadedType, ScheduleFacts DEF Load, TypeOK
  <2>4. readers = {} /\ ~up /\ UNCHANGED <<up, hosted, stopped, writer, readers, jobs>>
    BY <1>0, <1>5 DEF Load, LifeOrdered, AtLife
  <2>5. LifeOrdered'
    BY <1>0, <2>1, <2>2, <2>3, <2>4 DEF LifeOrdered, AtLife, Exclusive
  <2> QED
    BY <1>5, <1>c, <2>5 DEF Load
<1>6. ASSUME AtLife(h, "stopped"), Finish(h), UNCHANGED <<live, up, stopped, call, jobs, read>>
      PROVE  CallsOrdered' /\ LifeOrdered'
  <2>1. writer = h /\ \A g \in HostThread \ {h} : life[g].stage \notin Exclusive
    BY <1>6, Alone DEF AtLife, Exclusive
  <2>2. life'[h].stage = "idle" /\ \A g \in HostThread \ {h} : life'[g] = life[g]
    BY <1>0, <1>6, MoveOnFacts DEF Finish
  <2>3. ~up /\ live = Null /\ readers = {} /\ UNCHANGED <<readers, configMu>>
    BY <1>0, <1>6 DEF Finish, LifeOrdered, AtLife
  <2>4. LifeOrdered'
    BY <1>0, <1>6, <2>1, <2>2, <2>3 DEF LifeOrdered, AtLife, Exclusive
  <2> QED
    BY <1>6, <1>c, <2>3, <2>4
<1>7. CASE LoadFails(h) \/ ClearHost(h)
  BY <1>6, <1>7 DEF LoadFails, ClearHost
<1>8. ASSUME NEW succeeds \in BOOLEAN, Launch(h, succeeds)
      PROVE  CallsOrdered' /\ LifeOrdered'
  <2>1. writer = h /\ \A g \in HostThread \ {h} : life[g].stage \notin Exclusive
    BY <1>8, Alone DEF Launch, AtLife, Exclusive
  <2>2. life'[h].stage = "idle" /\ \A g \in HostThread \ {h} : life'[g] = life[g]
    BY <1>0, <1>8, MoveOnFacts DEF Launch, Finish
  <2>3. live # Null /\ readers = {}
    BY <1>0, <1>8 DEF Launch, LifeOrdered, AtLife
  <2>4. hosted' /\ up' /\ ~stopped' /\ UNCHANGED <<live, readers, jobs, configMu>>
    BY <1>8 DEF Launch, Finish
  <2>5. LifeOrdered'
    BY <1>0, <2>1, <2>2, <2>3, <2>4 DEF LifeOrdered, AtLife, Exclusive
  <2> QED
    BY <1>8, <1>c, <2>4, <2>5 DEF Launch
<1> QED
  BY <1>1, <1>2, <1>3, <1>4, <1>5, <1>7, <1>8 DEF LifeStep

LEMMA OtherOrdered ==
  ASSUME Ordered, Crash \/ Damage \/ \E j \in Job : JobStep(j)
  PROVE  CallsOrdered' /\ LifeOrdered'
<1> USE DEF runtimeVars, lockVars, clientVars, spent
<1>0. TypeOK /\ CallsOrdered /\ LifeOrdered
  BY DEF Ordered
<1>1. CASE Crash
  BY <1>1 DEF Crash, CallsOrdered, LifeOrdered, AtCall, AtLife, NoCall, Inside, Updating, Exclusive
<1>2. CASE Damage
  BY <1>0, <1>2 DEF Damage, CallsOrdered, LifeOrdered, AtCall, AtLife
<1>3. ASSUME NEW j \in Job, NEW from, NEW to \in JobStage, MoveJob(j, from, to), up
      PROVE  CallsOrdered' /\ LifeOrdered'
  <2>1. UNCHANGED <<live, up, stopped, hosted, writer, readers, configMu, call, life, read>>
    BY <1>3 DEF MoveJob
  <2>2. CallsOrdered'
    BY <1>0, <2>1 DEF CallsOrdered, AtCall
  <2>3. LifeOrdered'
    BY <1>0, <1>3, <2>1 DEF LifeOrdered, AtLife
  <2> QED
    BY <2>2, <2>3
<1>4. ASSUME NEW j \in Job, JobStep(j)
      PROVE  up /\ \E from, to \in JobStage : MoveJob(j, from, to)
  <2>1. CASE BeginJob(j)
    BY <2>1 DEF BeginJob, JobStage
  <2>2. CASE CheckContext(j)
    BY <1>0, <2>2 DEF CheckContext, MoveJob, LifeOrdered, JobStage
  <2>3. CASE EnterHost(j)
    BY <1>0, <2>3 DEF EnterHost, MoveJob, LifeOrdered, JobStage
  <2>4. CASE HostReturns(j)
    BY <1>0, <2>4 DEF HostReturns, MoveJob, LifeOrdered, JobStage
  <2>5. CASE EndJob(j)
    BY <1>0, <2>5 DEF EndJob, MoveJob, LifeOrdered, JobStage
  <2> QED
    BY <1>4, <2>1, <2>2, <2>3, <2>4, <2>5 DEF JobStep
<1> QED
  BY <1>1, <1>2, <1>3, <1>4

LEMMA StepOrdered == Ordered /\ [Next]_vars => Ordered'
<1> SUFFICES ASSUME Ordered, [Next]_vars PROVE Ordered'
  OBVIOUS
<1>0. TypeOK
  BY DEF Ordered
<1>1. ASSUME NEW c \in Client,
             \/ GetSchedule(c) \/ Dispatch(c) \/ CompareRevision(c) \/ UpdateStep(c)
             \/ \E d \in Draft : Ask(c, d)
      PROVE  Ordered'
  BY <1>1, ClientType, ClientOrdered DEF Ordered
<1>2. ASSUME NEW h \in HostThread,
             LifeStep(h) \/ \E kind \in {"init", "shutdown"} : CallLifecycle(h, kind)
      PROVE  Ordered'
  BY <1>0, <1>2, LifeType, HostOrdered DEF Ordered
<1>3. ASSUME Crash \/ Damage \/ \E j \in Job : JobStep(j)
      PROVE  Ordered'
  BY <1>0, <1>3, OtherType, OtherOrdered DEF Ordered
<1>4. CASE UNCHANGED vars
  BY <1>4 DEF vars, runtimeVars, lockVars, clientVars, spent, Ordered, TypeOK, CallsOrdered,
              LifeOrdered, AtCall, AtLife
<1> QED
  BY <1>1, <1>2, <1>3, <1>4 DEF Next, JobStep

\* Every variable keeps its type: PluginRuntime's TypeOK holds of every client,
\* host thread and job, whatever config.json held and however its writes ended.
THEOREM PluginTypeCorrect == Spec => []TypeOK
<1>1. Ordered => TypeOK
  BY DEF Ordered
<1> QED
  BY <1>1, InitOrdered, StepOrdered, PTL DEF Spec

\* main.go 84-89 and 301: no background work and no call of a client outlives
\* the Runtime that it runs in, and no host is forgotten while one runs.
THEOREM PluginQuiet == Spec => []QuietOutsideLife
<1>1. Ordered => QuietOutsideLife
  BY DEF Ordered, LifeOrdered, QuietOutsideLife
<1> QED
  BY <1>1, InitOrdered, StepOrdered, PTL DEF Spec

(***************************************************************************)
(* Revisions.  The numbers that the code compares stand for the schedules  *)
(* themselves: of two schedules of one file, the one that a client has     *)
(* read, or that is in force, is never the later one, and equal numbers    *)
(* mean the same schedule.                                                 *)
(***************************************************************************)
NotAfter(s, t) == s.revision < t.revision \/ s = t

UpdateLineage == \A c \in Client :
  /\ call[c].stage \in {"discover", "save"} /\ c \in valid => read[c] = live
  /\ AtCall(c, "swap") /\ disk \in Schedule => disk = Successor(live, call[c].draft)
  /\ AtCall(c, "reconcile") /\ disk \in Schedule => disk = live

ReadLineage == \A c \in valid :
  /\ read[c] # Null
  /\ live # Null => NotAfter(read[c], live)
  /\ disk \in Schedule => NotAfter(read[c], disk)

FileLineage == live # Null /\ disk \in Schedule => NotAfter(live, disk)

Lineage == Ordered /\ UpdateLineage /\ ReadLineage /\ FileLineage

LEMMA NotAfterFacts ==
  ASSUME NEW s \in Schedule, NEW t \in Schedule, NEW d \in Draft
  PROVE  /\ NotAfter(s, s)
         /\ NotAfter(s, t) => NotAfter(s, Successor(t, d))
         /\ NotAfter(s, t) /\ s.revision = t.revision => s = t
<1>1. s.revision \in Nat /\ t.revision \in Nat /\ Successor(t, d).revision = t.revision + 1
  BY ScheduleFacts DEF Schedule
<1> QED
  BY <1>1 DEF NotAfter

LEMMA InitLineage == Init => Lineage
  BY InitOrdered, PluginAssumption
  DEF Init, Lineage, UpdateLineage, ReadLineage, FileLineage, AtCall, NoCall

\* A step that touches neither schedule: the others' updates are as they were.
LEMMA LineageKept ==
  ASSUME Lineage, Ordered', UNCHANGED <<disk, live, read, valid>>,
         \A c \in Client :
           \/ call'[c] = call[c]
           \/ call'[c].stage \notin Updating
           \/ call'[c].stage = "discover" /\ (c \in valid => read[c] = live)
           \/ call'[c].stage = "save" /\ call[c].stage = "discover"
  PROVE  Lineage'
<1>1. UpdateLineage'
  BY DEF Lineage, UpdateLineage, AtCall, Updating
<1> QED
  BY <1>1 DEF Lineage, ReadLineage, FileLineage

\* Whoever updates the schedule is alone in doing so.
LEMMA OneUpdate ==
  ASSUME Ordered, NEW c \in Client, call[c].stage \in Updating
  PROVE  \A b \in Client \ {c} : call[b].stage \notin Updating
  BY DEF Ordered, CallsOrdered

\* When no client is inside the slot, only the readings are left.
LEMMA QuietLineage ==
  ASSUME Lineage, Ordered', readers = {}, call' = call, ReadLineage', FileLineage'
  PROVE  Lineage'
<1>1. \A c \in Client : call[c].stage \notin Updating
  BY DEF Lineage, Ordered, CallsOrdered, Inside
<1>2. UpdateLineage'
  BY <1>1 DEF UpdateLineage, AtCall, Updating
<1> QED
  BY <1>2 DEF Lineage

LEMMA ClientLineage ==
  ASSUME Lineage, Ordered', NEW c \in Client,
         \/ GetSchedule(c) \/ Dispatch(c) \/ CompareRevision(c) \/ UpdateStep(c)
         \/ \E d \in Draft : Ask(c, d)
  PROVE  Lineage'
<1> USE DEF runtimeVars, lockVars, clientVars, spent
<1>0. TypeOK /\ Ordered /\ UpdateLineage /\ ReadLineage /\ FileLineage
  BY DEF Lineage, Ordered
<1>1. CASE GetSchedule(c)
  <2>1. live \in Schedule /\ call[c].stage = "idle"
    BY <1>0, <1>1 DEF GetSchedule, Ordered, LifeOrdered, TypeOK, AtCall
  <2>2. /\ read' = [read EXCEPT ![c] = live] /\ valid' = valid \cup {c}
        /\ UNCHANGED <<disk, live, call>>
    BY <1>1 DEF GetSchedule
  <2>3. read'[c] = live /\ \A b \in Client \ {c} : read'[b] = read[b]
    BY <1>0, <2>2 DEF TypeOK
  <2>4. UpdateLineage'
    BY <1>0, <2>1, <2>2, <2>3 DEF UpdateLineage, AtCall
  <2>5. NotAfter(live, live) /\ live # Null
    BY <2>1, NotAfterFacts, ScheduleFacts, PluginAssumption
  <2>6. ReadLineage'
    <3> SUFFICES ASSUME NEW b \in valid'
                 PROVE  /\ read'[b] # Null
                        /\ live # Null => NotAfter(read'[b], live)
                        /\ disk \in Schedule => NotAfter(read'[b], disk)
      BY <2>2 DEF ReadLineage, NotAfter
    <3>1. CASE b = c
      BY <1>0, <2>3, <2>5, <3>1 DEF FileLineage
    <3>2. CASE b # c
      BY <1>0, <2>2, <2>3, <3>2 DEF ReadLineage, TypeOK
    <3> QED
      BY <3>1, <3>2
  <2> QED
    BY <1>0, <2>2, <2>4, <2>6 DEF Lineage, FileLineage, NotAfter
<1>2. ASSUME NEW d \in Draft, Ask(c, d)
      PROVE  Lineage'
  <2>1. call'[c].stage = "arrived" /\ \A b \in Client \ {c} : call'[b] = call[b]
    BY <1>0, <1>2 DEF Ask, TypeOK
  <2>2. UNCHANGED <<disk, live, read, valid>>
    BY <1>2 DEF Ask
  <2> QED
    BY <2>1, <2>2, LineageKept DEF Updating
<1>3. CASE Dispatch(c)
  <2>1. /\ call'[c].stage \in {"idle", "entered"}
        /\ \A b \in Client \ {c} : call'[b] = call[b]
    BY <1>0, <1>3, GoToFacts, LeaveFacts DEF Dispatch
  <2>2. UNCHANGED <<disk, live, read, valid>>
    BY <1>3 DEF Dispatch
  <2> QED
    BY <2>1, <2>2, LineageKept DEF Updating
<1>4. CASE CompareRevision(c)
  <2>1. UNCHANGED <<disk, live, read, valid>>
    BY <1>4 DEF CompareRevision
  <2>2. CASE ~SameRevision(c)
    <3>1. call'[c].stage = "idle" /\ \A b \in Client \ {c} : call'[b] = call[b]
      BY <1>0, <1>4, <2>2, LeaveFacts DEF CompareRevision
    <3> QED
      BY <2>1, <3>1, LineageKept DEF Updating
  <2>3. CASE SameRevision(c)
    <3>1. call'[c].stage = "discover" /\ \A b \in Client \ {c} : call'[b] = call[b]
      BY <1>0, <1>4, <2>3, GoToFacts DEF CompareRevision
    <3>2. live \in Schedule /\ read[c] \in Schedule
      BY <1>0, <1>4, InsideHasLive DEF CompareRevision, AtCall, Inside
    <3>3. c \in valid => read[c] = live
      <4>1. live # Null
        BY <3>2, ScheduleFacts
      <4>2. c \in valid => NotAfter(read[c], live)
        BY <1>0, <4>1 DEF ReadLineage
      <4> QED
        BY <2>3, <3>2, <4>2, NotAfterFacts, PluginAssumption DEF SameRevision
    <3> QED
      BY <2>1, <3>1, <3>3, LineageKept
  <2> QED
    BY <2>2, <2>3
<1>5. CASE DiscoverAndValidate(c)
  <2>1. UNCHANGED <<disk, live, read, valid>> /\ call[c].stage = "discover"
    BY <1>5 DEF DiscoverAndValidate, AtCall
  <2>2. /\ call'[c].stage \in {"idle", "save"}
        /\ \A b \in Client \ {c} : call'[b] = call[b]
    BY <1>0, <1>5, GoToFacts, LeaveFacts DEF DiscoverAndValidate
  <2> QED
    BY <2>1, <2>2, LineageKept DEF Updating
<1>6. ASSUME NEW outcome \in WriteOutcomes, SaveConfig(c, outcome)
      PROVE  Lineage'
  <2>1. /\ call[c].stage = "save" /\ UNCHANGED <<live, read, valid>>
        /\ \A b \in Client \ {c} : call[b].stage \notin Updating
    BY <1>0, <1>6, OneUpdate DEF SaveConfig, AtCall, Updating
  <2>2. live \in Schedule /\ call[c].draft \in Draft
    BY <1>0, <2>1, InsideHasLive DEF Inside, Updating
  <2>3. \A b \in Client \ {c} : call'[b] = call[b]
    BY <1>0, <1>6, GoToFacts, LeaveFacts DEF SaveConfig
  <2>4. CASE outcome = "lost"
    <3>1. disk' = disk /\ call'[c].stage = "idle"
      BY <1>0, <1>6, <2>4, LeaveFacts DEF SaveConfig
    <3> QED
      BY <2>1, <2>3, <3>1, LineageKept DEF Updating
  <2>5. CASE outcome # "lost"
    <3>1. disk' = Successor(live, call[c].draft)
      BY <1>6, <2>5 DEF SaveConfig
    <3>2. \/ call'[c].stage = "idle"
          \/ call'[c].stage = "swap" /\ call'[c].draft = call[c].draft
      BY <1>0, <1>6, GoToFacts, LeaveFacts DEF SaveConfig
    <3>3. UpdateLineage'
      BY <2>1, <2>3, <3>1, <3>2 DEF UpdateLineage, AtCall, Updating
    <3>4. \A s \in Schedule : NotAfter(s, live) => NotAfter(s, disk')
      BY <2>2, <3>1, NotAfterFacts
    <3>5. live # Null
      BY <2>2, ScheduleFacts
    <3>6. ReadLineage'
      <4> SUFFICES ASSUME NEW b \in valid
                   PROVE  read[b] # Null /\ NotAfter(read[b], live) /\ NotAfter(read[b], disk')
        BY <2>1 DEF ReadLineage, NotAfter
      <4>1. read[b] # Null /\ NotAfter(read[b], live) /\ read[b] \in Schedule
        BY <1>0, <3>5 DEF ReadLineage, TypeOK
      <4> QED
        BY <3>4, <4>1
    <3>7. FileLineage'
      <4>1. NotAfter(live, disk')
        BY <2>2, <3>4, NotAfterFacts
      <4> QED
        BY <2>1, <4>1 DEF FileLineage, NotAfter
    <3> QED
      BY <3>3, <3>6, <3>7 DEF Lineage
  <2> QED
    BY <2>4, <2>5
<1>7. CASE SwapConfig(c)
  <2>1. /\ call[c].stage = "swap" /\ UNCHANGED <<disk, read, valid>>
        /\ \A b \in Client \ {c} : call[b].stage \notin Updating
    BY <1>0, <1>7, OneUpdate DEF SwapConfig, AtCall, Updating
  <2>2. live \in Schedule /\ call[c].draft \in Draft /\ live' = Successor(live, call[c].draft)
    BY <1>0, <1>7, <2>1, InsideHasLive DEF SwapConfig, Inside, Updating
  <2>3. call'[c].stage = "reconcile" /\ \A b \in Client \ {c} : call'[b] = call[b]
    BY <1>0, <1>7, GoToFacts DEF SwapConfig
  <2>4. disk \in Schedule => disk = live'
    BY <1>0, <2>1, <2>2 DEF UpdateLineage, AtCall
  <2>5. UpdateLineage'
    BY <2>1, <2>3, <2>4 DEF UpdateLineage, AtCall, Updating
  <2>6. ReadLineage'
    <3> SUFFICES ASSUME NEW b \in valid
                 PROVE  read[b] # Null /\ NotAfter(read[b], live')
                        /\ (disk \in Schedule => NotAfter(read[b], disk))
      BY <2>1 DEF ReadLineage, NotAfter
    <3>1. /\ read[b] # Null /\ NotAfter(read[b], live) /\ read[b] \in Schedule
          /\ (disk \in Schedule => NotAfter(read[b], disk))
      BY <1>0, <2>2, ScheduleFacts DEF ReadLineage, TypeOK
    <3> QED
      BY <2>2, <3>1, NotAfterFacts
  <2>7. FileLineage'
    BY <2>1, <2>4 DEF FileLineage, NotAfter
  <2> QED
    BY <2>5, <2>6, <2>7 DEF Lineage
<1>8. ASSUME NEW succeeds \in BOOLEAN, ReconcileSchedule(c, succeeds)
      PROVE  Lineage'
  <2>1. UNCHANGED <<disk, live, read, valid>>
    BY <1>8 DEF ReconcileSchedule
  <2>2. call'[c].stage = "idle" /\ \A b \in Client \ {c} : call'[b] = call[b]
    BY <1>0, <1>8, LeaveFacts DEF ReconcileSchedule
  <2> QED
    BY <2>1, <2>2, LineageKept DEF Updating
<1> QED
  BY <1>1, <1>2, <1>3, <1>4, <1>5, <1>6, <1>7, <1>8 DEF UpdateStep

LEMMA HostLineage ==
  ASSUME Lineage, Ordered', NEW h \in HostThread,
         LifeStep(h) \/ \E kind \in {"init", "shutdown"} : CallLifecycle(h, kind)
  PROVE  Lineage'
<1> USE DEF runtimeVars, lockVars, clientVars, spent
<1>0. TypeOK /\ Ordered /\ LifeOrdered /\ UpdateLineage /\ ReadLineage /\ FileLineage
  BY DEF Lineage, Ordered
<1>1. ASSUME UNCHANGED <<disk, live, read, valid, call>>
      PROVE  Lineage'
  BY <1>1, LineageKept
<1>2. ASSUME NEW kind \in {"init", "shutdown"}, CallLifecycle(h, kind)
      PROVE  Lineage'
  BY <1>1, <1>2 DEF CallLifecycle
<1>3. CASE AnnounceWriter(h)
  BY <1>1, <1>3 DEF AnnounceWriter
<1>4. CASE StopOld(h)
  BY <1>1, <1>4 DEF StopOld
<1>5. CASE StopReturns(h)
  <2>1. readers = {} /\ call' = call
    BY <1>0, <1>5 DEF StopReturns, AtLife, LifeOrdered
  <2>2. ReadLineage' /\ FileLineage'
    BY <1>0, <1>5 DEF StopReturns, ReadLineage, FileLineage, NotAfter
  <2> QED
    BY <2>1, <2>2, QuietLineage
<1>6. CASE Load(h)
  <2>1. readers = {} /\ call' = call /\ read' = read
    BY <1>0, <1>6 DEF Load, AtLife, LifeOrdered
  <2>2. CASE disk \in Schedule
    <3>1. live' = disk /\ disk' = disk /\ valid' = valid
      BY <1>6, <2>2, ScheduleFacts DEF Load, Loaded
    <3>2. ReadLineage' /\ FileLineage'
      BY <1>0, <2>1, <2>2, <3>1 DEF ReadLineage, FileLineage, NotAfter
    <3> QED
      BY <2>1, <3>2, QuietLineage
  <2>3. CASE disk \notin Schedule
    <3>1. live' = Default /\ disk' \in {disk, Default} /\ valid' = {}
      BY <1>0, <1>6, <2>3 DEF Load, Loaded, TypeOK
    <3>2. ReadLineage' /\ FileLineage'
      BY <2>3, <3>1 DEF ReadLineage, FileLineage, NotAfter
    <3> QED
      BY <2>1, <3>2, QuietLineage
  <2> QED
    BY <2>2, <2>3
<1>7. CASE LoadFails(h)
  <2>1. readers = {} /\ call' = call /\ read' = read /\ live = Null /\ live' = Null
    BY <1>0, <1>7 DEF LoadFails, AtLife, LifeOrdered
  <2>2. CASE disk' = disk
    BY <1>1, <1>7, <2>2 DEF LoadFails
  <2>3. CASE disk' # disk
    <3>1. valid' = {}
      BY <1>7, <2>3 DEF LoadFails
    <3>2. ReadLineage' /\ FileLineage'
      BY <2>1, <3>1 DEF ReadLineage, FileLineage
    <3> QED
      BY <2>1, <3>2, QuietLineage
  <2> QED
    BY <2>2, <2>3
<1>8. ASSUME NEW succeeds \in BOOLEAN, Launch(h, succeeds)
      PROVE  Lineage'
  BY <1>1, <1>8 DEF Launch
<1>9. CASE ClearHost(h)
  BY <1>1, <1>9 DEF ClearHost
<1> QED
  BY <1>2, <1>3, <1>4, <1>5, <1>6, <1>7, <1>8, <1>9 DEF LifeStep

LEMMA OtherLineage ==
  ASSUME Lineage, Ordered', Crash \/ Damage \/ \E j \in Job : JobStep(j)
  PROVE  Lineage'
<1> USE DEF runtimeVars, lockVars, clientVars, spent
<1>1. CASE Crash
  <2>1. call' = [c \in Client |-> NoCall] /\ live' = Null /\ UNCHANGED <<disk, read, valid>>
    BY <1>1 DEF Crash
  <2>2. UpdateLineage'
    BY <2>1 DEF UpdateLineage, AtCall, NoCall
  <2>3. ReadLineage' /\ FileLineage'
    BY <2>1 DEF Lineage, ReadLineage, FileLineage, NotAfter
  <2> QED
    BY <2>2, <2>3 DEF Lineage
<1>2. CASE Damage
  <2>1. disk' \notin Schedule /\ UNCHANGED <<live, call, read, valid>>
    BY <1>2, ScheduleFacts DEF Damage
  <2> QED
    BY <2>1 DEF Lineage, UpdateLineage, ReadLineage, FileLineage, AtCall, NotAfter
<1>3. ASSUME NEW j \in Job, JobStep(j)
      PROVE  UNCHANGED <<disk, live, read, valid, call>>
  BY <1>3 DEF JobStep, BeginJob, CheckContext, EnterHost, HostReturns, EndJob, MoveJob
<1> QED
  BY <1>1, <1>2, <1>3, LineageKept

LEMMA StepLineage == Lineage /\ [Next]_vars => Lineage'
<1> SUFFICES ASSUME Lineage, [Next]_vars PROVE Lineage'
  OBVIOUS
<1>0. Ordered'
  BY StepOrdered DEF Lineage
<1>1. CASE UNCHANGED vars
  <2>1. UNCHANGED <<disk, live, read, valid, call>>
    BY <1>1 DEF vars, runtimeVars, clientVars
  <2> QED
    BY <1>0, <2>1, LineageKept
<1> QED
  BY <1>0, <1>1, ClientLineage, HostLineage, OtherLineage DEF Next, JobStep

(***************************************************************************)
(* The register: every step of the plugin is a step of what it promises,   *)
(* or none.                                                                *)
(***************************************************************************)
LEMMA RegisterInit == Init => Register!Init
  BY PluginAssumption DEF Init, Register!Init, Register!Schedule, Schedule

LEMMA RegisterStutter ==
  ASSUME UNCHANGED <<disk, live, followed, read, valid, told>>
  PROVE  UNCHANGED Register!vars
  BY DEF Register!vars

LEMMA ClientKeepsRegister ==
  ASSUME Lineage, NEW c \in Client,
         \/ GetSchedule(c) \/ Dispatch(c) \/ CompareRevision(c) \/ UpdateStep(c)
         \/ \E d \in Draft : Ask(c, d)
  PROVE  [Register!Next]_(Register!vars)
<1> USE DEF runtimeVars, lockVars, clientVars, spent
<1>0. TypeOK /\ Ordered /\ LifeOrdered /\ UpdateLineage
  BY DEF Lineage, Ordered
<1>1. CASE GetSchedule(c)
  <2>1. Register!Read(c)
    BY <1>0, <1>1 DEF GetSchedule, LifeOrdered, Register!Read
  <2> QED
    BY <2>1 DEF Register!Next
<1>2. ASSUME NEW d \in Draft, Ask(c, d)
      PROVE  [Register!Next]_(Register!vars)
  BY <1>2, RegisterStutter DEF Ask
<1>3. CASE Dispatch(c)
  BY <1>3, RegisterStutter DEF Dispatch
<1>4. CASE CompareRevision(c)
  BY <1>4, RegisterStutter DEF CompareRevision
<1>5. CASE DiscoverAndValidate(c)
  BY <1>5, RegisterStutter DEF DiscoverAndValidate
<1>6. ASSUME NEW outcome \in WriteOutcomes, SaveConfig(c, outcome)
      PROVE  [Register!Next]_(Register!vars)
  <2>1. call[c].stage = "save" /\ UNCHANGED <<live, followed, read, valid, told>>
    BY <1>6 DEF SaveConfig, AtCall
  <2>2. CASE outcome = "lost"
    BY <1>6, <2>1, <2>2, RegisterStutter DEF SaveConfig
  <2>3. CASE outcome # "lost"
    <3>1. live # Null /\ call[c].draft \in Draft
      BY <1>0, <2>1, InsideHasLive, ScheduleFacts DEF Inside, Updating
    <3>2. c \in valid => read[c] = live
      BY <1>0, <2>1 DEF UpdateLineage
    <3>3. Register!Store(c, call[c].draft)
      BY <1>6, <2>1, <2>3, <3>1, <3>2
      DEF SaveConfig, Register!Store, Register!Successor, Successor
    <3> QED
      BY <3>1, <3>3 DEF Register!Next
  <2> QED
    BY <2>2, <2>3
<1>7. CASE SwapConfig(c)
  <2>1. /\ call[c].stage = "swap" /\ live' = Successor(live, call[c].draft)
        /\ UNCHANGED <<disk, followed, read, valid, told>>
    BY <1>7 DEF SwapConfig, AtCall
  <2>2. live # Null /\ call[c].draft \in Draft
    BY <1>0, <2>1, InsideHasLive, ScheduleFacts DEF Inside, Updating
  <2>3. disk \in Schedule => live' = disk
    BY <1>0, <2>1 DEF UpdateLineage, AtCall
  <2>4. Register!PutInForce
    BY <2>1, <2>2, <2>3
    DEF Register!PutInForce, Register!Successor, Register!Schedule, Successor, Schedule
  <2> QED
    BY <2>4 DEF Register!Next
<1>8. ASSUME NEW succeeds \in BOOLEAN, ReconcileSchedule(c, succeeds)
      PROVE  [Register!Next]_(Register!vars)
  <2>1. call[c].stage = "reconcile" /\ UNCHANGED <<disk, live, read, valid>>
    BY <1>8 DEF ReconcileSchedule, AtCall
  <2>2. live # Null
    BY <1>0, <2>1, InsideHasLive, ScheduleFacts DEF Inside, Updating
  <2>3. CASE succeeds
    <3>1. disk \in Schedule => disk = live
      BY <1>0, <2>1 DEF UpdateLineage, AtCall
    <3>2. followed' = live /\ told' = live
      BY <1>8, <2>3 DEF ReconcileSchedule
    <3>3. Register!Acknowledge
      BY <2>1, <2>2, <3>1, <3>2 DEF Register!Acknowledge, Register!Schedule, Schedule
    <3> QED
      BY <3>3 DEF Register!Next
  <2>4. CASE ~succeeds
    <3>1. followed' \in {live, followed} /\ told' = told
      BY <1>8, <2>4 DEF ReconcileSchedule
    <3>2. CASE followed' = live
      BY <2>1, <2>2, <3>1, <3>2 DEF Register!Follow, Register!Next
    <3>3. CASE followed' = followed
      BY <2>1, <3>1, <3>3, RegisterStutter
    <3> QED
      BY <3>1, <3>2, <3>3
  <2> QED
    BY <2>3, <2>4
<1> QED
  BY <1>1, <1>2, <1>3, <1>4, <1>5, <1>6, <1>7, <1>8 DEF UpdateStep

LEMMA HostKeepsRegister ==
  ASSUME Lineage, NEW h \in HostThread,
         LifeStep(h) \/ \E kind \in {"init", "shutdown"} : CallLifecycle(h, kind)
  PROVE  [Register!Next]_(Register!vars)
<1> USE DEF runtimeVars, lockVars, clientVars, spent
<1>0. TypeOK /\ LifeOrdered
  BY DEF Lineage, Ordered
<1>1. ASSUME NEW kind \in {"init", "shutdown"}, CallLifecycle(h, kind)
      PROVE  [Register!Next]_(Register!vars)
  BY <1>1, RegisterStutter DEF CallLifecycle
<1>2. CASE AnnounceWriter(h)
  BY <1>2, RegisterStutter DEF AnnounceWriter
<1>3. CASE StopOld(h)
  BY <1>3, RegisterStutter DEF StopOld
<1>4. CASE StopReturns(h)
  BY <1>4 DEF StopReturns, Register!GoDown, Register!Next
<1>5. CASE Load(h)
  <2>1. live = Null /\ UNCHANGED <<followed, read, told>>
    BY <1>0, <1>5 DEF Load, LifeOrdered, AtLife
  <2>2. CASE disk \in Schedule
    <3>1. live' = disk /\ disk' = disk /\ valid' = valid
      BY <1>5, <2>2, ScheduleFacts DEF Load, Loaded
    <3> QED
      BY <2>1, <2>2, <3>1 DEF Register!Resume, Register!Next, Register!Schedule, Schedule
  <2>3. CASE disk \notin Schedule
    <3>1. live' = Default /\ disk' \in {disk, Default} /\ valid' = {}
      BY <1>0, <1>5, <2>3 DEF Load, Loaded, TypeOK
    <3> QED
      BY <2>1, <2>3, <3>1 DEF Register!Resume, Register!Next, Register!Schedule, Schedule
  <2> QED
    BY <2>2, <2>3
<1>6. CASE LoadFails(h)
  <2>1. live = Null /\ UNCHANGED <<live, followed, read, told>>
    BY <1>0, <1>6 DEF LoadFails, LifeOrdered, AtLife
  <2>2. CASE disk' = disk
    BY <1>6, <2>1, <2>2, RegisterStutter DEF LoadFails
  <2>3. CASE disk' # disk
    <3>1. disk = Missing /\ disk' = Default /\ valid' = {}
      BY <1>6, <2>3 DEF LoadFails
    <3>2. disk \notin Schedule
      BY <3>1, ScheduleFacts
    <3> QED
      BY <2>1, <3>1, <3>2 DEF Register!Resume, Register!Next, Register!Schedule, Schedule
  <2> QED
    BY <2>2, <2>3
<1>7. ASSUME NEW succeeds \in BOOLEAN, Launch(h, succeeds)
      PROVE  [Register!Next]_(Register!vars)
  <2>1. live # Null /\ UNCHANGED <<disk, live, read, valid, told>>
    BY <1>0, <1>7 DEF Launch, LifeOrdered, AtLife
  <2>2. followed' \in {live, followed}
    BY <1>7 DEF Launch
  <2>3. CASE followed' = live
    BY <2>1, <2>3 DEF Register!Follow, Register!Next
  <2>4. CASE followed' = followed
    BY <2>1, <2>4, RegisterStutter
  <2> QED
    BY <2>2, <2>3, <2>4
<1>8. CASE ClearHost(h)
  BY <1>8, RegisterStutter DEF ClearHost
<1> QED
  BY <1>1, <1>2, <1>3, <1>4, <1>5, <1>6, <1>7, <1>8 DEF LifeStep

LEMMA StepKeepsRegister == Lineage /\ [Next]_vars => [Register!Next]_(Register!vars)
<1> SUFFICES ASSUME Lineage, [Next]_vars PROVE [Register!Next]_(Register!vars)
  OBVIOUS
<1> USE DEF runtimeVars, lockVars, clientVars, spent
<1>1. CASE Crash
  BY <1>1 DEF Crash, Register!GoDown, Register!Next
<1>2. CASE Damage
  <2>1. disk' \notin Schedule /\ UNCHANGED <<live, followed, read, valid, told>>
    BY <1>2, ScheduleFacts DEF Damage
  <2> QED
    BY <2>1 DEF Register!Damage, Register!Next, Register!Schedule, Schedule
<1>3. ASSUME NEW j \in Job, JobStep(j)
      PROVE  [Register!Next]_(Register!vars)
  BY <1>3, RegisterStutter
  DEF JobStep, BeginJob, CheckContext, EnterHost, HostReturns, EndJob, MoveJob
<1>4. CASE UNCHANGED vars
  BY <1>4, RegisterStutter DEF vars
<1> QED
  BY <1>1, <1>2, <1>3, <1>4, ClientKeepsRegister, HostKeepsRegister DEF Next, JobStep

\* README 98 and 210, design spec 163 and 331: the plugin, with its locks, its
\* revision numbers and its file, is the register that ScheduleRegister states:
\* no update replaces a schedule that its author has not read, what is in force
\* is what a restart finds, what is acknowledged is in force and followed.
THEOREM PluginKeepsRegister == Spec => KeepsRegister
  BY InitLineage, StepLineage, RegisterInit, StepKeepsRegister, PTL
  DEF Spec, KeepsRegister, Register!Spec

=============================================================================
