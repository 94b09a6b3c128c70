---------------------------- MODULE ManualProofs ----------------------------
(***************************************************************************)
(* Theorems of ManualRun for every number of callers, accounts, runs and   *)
(* workers, and every bound.                                               *)
(***************************************************************************)
EXTENDS ManualRun, FiniteSetTheorems, TLAPS

(***************************************************************************)
(* What a step does to the runs.                                           *)
(***************************************************************************)
\* Account a of run n comes to a stage; the rest of the runs stays.
Moves(n, a, stage) ==
  /\ runs' \in [RunId -> Run]
  /\ \A m \in RunId \ {n} : runs'[m] = runs[m]
  /\ runs'[n].active = runs[n].active
  /\ runs'[n].stage[a] = stage
  /\ \A b \in Account \ {a} : runs'[n].stage[b] = runs[n].stage[b]

LEMMA MovedMoves ==
  ASSUME TypeOK, NEW n \in RunId, NEW a \in Account, NEW stage \in Stage,
         runs' = Moved(n, a, stage)
  PROVE  Moves(n, a, stage) /\ runs'[n].completed = runs[n].completed
<1> DEFINE stages == [runs[n].stage EXCEPT ![a] = stage]
<1>1. runs[n] \in Run /\ runs[n].stage \in [Account -> Stage]
  BY DEF TypeOK, Run
<1>2. stages \in [Account -> Stage]
  BY <1>1
<1>3. stages[a] = stage /\ \A b \in Account \ {a} : stages[b] = runs[n].stage[b]
  BY <1>1
<1>4. runs' = [runs EXCEPT ![n] = [runs[n] EXCEPT !.stage = stages]]
  BY DEF Moved, TypeOK
<1> HIDE DEF stages
<1> QED
  BY <1>1, <1>2, <1>3, <1>4 DEF Moves, TypeOK, Run

LEMMA CompleteOneMoves ==
  ASSUME TypeOK, NEW n \in RunId, NEW a \in Account, CompleteOne(n, a)
  PROVE  Moves(n, a, "done") /\ runs'[n].completed = runs[n].completed + 1
<1> DEFINE stages == [runs[n].stage EXCEPT ![a] = "done"]
<1>1. runs[n] \in Run /\ runs[n].stage \in [Account -> Stage] /\ runs[n].completed \in Nat
  BY DEF TypeOK, Run
<1>2. stages \in [Account -> Stage] /\ runs[n].completed + 1 \in Nat
  BY <1>1 DEF Stage
<1>3. stages[a] = "done" /\ \A b \in Account \ {a} : stages[b] = runs[n].stage[b]
  BY <1>1
<1>4. runs' = [runs EXCEPT ![n] = [runs[n] EXCEPT !.stage = stages,
                                                  !.completed = runs[n].completed + 1]]
  BY DEF CompleteOne, TypeOK
<1> HIDE DEF stages
<1> QED
  BY <1>1, <1>2, <1>3, <1>4 DEF Moves, TypeOK, Run

\* The stages of an account between two moves.
LEMMA StageType ==
  ASSUME TypeOK, NEW n \in RunId
  PROVE  /\ runs[n] \in Run
         /\ runs[n].completed \in Nat
         /\ runs[n].stage \in [Account -> Stage]
  BY DEF TypeOK, Run

LEMMA SkipRestMoves ==
  ASSUME TypeOK, NEW n \in RunId, SkipRest(n)
  PROVE  /\ runs' \in [RunId -> Run]
         /\ \A m \in RunId \ {n} : runs'[m] = runs[m]
         /\ runs'[n].active = runs[n].active
         /\ runs'[n].completed = runs[n].completed + Cardinality(At(n, {"waiting"}))
         /\ \A a \in Account : runs'[n].stage[a] =
              IF runs[n].stage[a] = "waiting" THEN "skipped" ELSE runs[n].stage[a]
<1> DEFINE stages == [a \in Account |-> IF runs[n].stage[a] = "waiting" THEN "skipped"
                                        ELSE runs[n].stage[a]]
<1>1. runs[n] \in Run /\ runs[n].stage \in [Account -> Stage] /\ runs[n].completed \in Nat
  BY StageType
<1>2. stages \in [Account -> Stage]
  BY <1>1 DEF Stage
<1>3. At(n, {"waiting"}) \subseteq Account
  BY DEF At
<1>4. CountedRest(n) \in Nat
  BY <1>1, <1>3, FS_Subset, FS_CardinalityType, ManualAssumption DEF CountedRest
<1>5. runs' = [runs EXCEPT ![n] = [runs[n] EXCEPT !.completed = CountedRest(n),
                                                  !.stage = stages]]
  BY DEF SkipRest, TypeOK
<1>6. \A a \in Account : stages[a] =
        IF runs[n].stage[a] = "waiting" THEN "skipped" ELSE runs[n].stage[a]
  OBVIOUS
<1> HIDE DEF stages
<1>7. [runs[n] EXCEPT !.completed = CountedRest(n), !.stage = stages] \in Run
  BY <1>1, <1>2, <1>4 DEF Run
<1>8. runs'[n] = [runs[n] EXCEPT !.completed = CountedRest(n), !.stage = stages]
  BY <1>5 DEF TypeOK
<1>9. /\ runs'[n].active = runs[n].active
      /\ runs'[n].completed = CountedRest(n)
      /\ runs'[n].stage = stages
  BY <1>1, <1>8 DEF Run
<1> QED
  BY <1>5, <1>6, <1>7, <1>9 DEF TypeOK, CountedRest

\* Steps that end or cancel a run leave its accounts where they are.
Keeps(n) ==
  runs'[n].stage = runs[n].stage /\ runs'[n].completed = runs[n].completed

LEMMA FinishRunMoves ==
  ASSUME TypeOK, NEW n \in RunId, FinishRun(n)
  PROVE  /\ runs' \in [RunId -> Run]
         /\ \A m \in RunId : Keeps(m)
         /\ ~ runs'[n].active
         /\ \A m \in RunId \ {n} : runs'[m] = runs[m]
  BY DEF TypeOK, FinishRun, Keeps, Run

LEMMA CancelRunMoves ==
  ASSUME TypeOK, CancelRun
  PROVE  /\ runs' \in [RunId -> Run]
         /\ \A m \in RunId : Keeps(m) /\ runs'[m].active = runs[m].active
<1>1. CASE current = Null
  BY <1>1 DEF TypeOK, CancelRun, Keeps
<1>2. CASE current # Null
  <2>1. current \in RunId /\ runs' = [runs EXCEPT ![current].cancelled = TRUE]
    BY <1>2 DEF TypeOK, CancelRun
  <2> QED
    BY <2>1 DEF TypeOK, Keeps, Run
<1> QED
  BY <1>1, <1>2

LEMMA CallerCancelsMoves ==
  ASSUME TypeOK, NEW n \in RunId, CallerCancels(n)
  PROVE  /\ runs' \in [RunId -> Run]
         /\ \A m \in RunId : Keeps(m) /\ runs'[m].active = runs[m].active
         /\ UNCHANGED <<phase, busy, requests, current, others, spent>>
  BY DEF TypeOK, CallerCancels, Keeps, Run

LEMMA NewRunType ==
  ASSUME NEW active \in BOOLEAN, NEW keys \in SUBSET Account
  PROVE  /\ NewRun(active, keys) \in Run
         /\ NewRun(active, keys).active = active
         /\ NewRun(active, keys).completed = 0
         /\ \A a \in Account : NewRun(active, keys).stage[a] =
              IF a \in keys THEN "waiting" ELSE "none"
  BY DEF NewRun, Run, Stage

\* A run is installed where there was none.
LEMMA InstallRunMoves ==
  ASSUME TypeOK, NEW q \in Requester, InstallRun(q), runs' # runs
  PROVE  /\ ~ Stopped /\ ~ InProgress
         /\ runs' \in [RunId -> Run]
         /\ current' \in RunId
         /\ Selected(current') = {}
         /\ \A m \in RunId \ {current'} : runs'[m] = runs[m]
         /\ runs'[current'].active
         /\ runs'[current'].completed = 0
         /\ \A a \in Account : runs'[current'].stage[a] \in {"waiting", "none"}
<1>1. PICK n \in RunId :
        /\ Selected(n) = {}
        /\ runs' = [runs EXCEPT ![n] = NewRun(TRUE, requests[q].keys)]
        /\ current' = n
  BY DEF InstallRun
<1>2. Installable
  BY DEF InstallRun
<1>3. requests[q].keys \in SUBSET Account
  BY DEF TypeOK, Request
<1>4. /\ NewRun(TRUE, requests[q].keys) \in Run
      /\ NewRun(TRUE, requests[q].keys).active
      /\ NewRun(TRUE, requests[q].keys).completed = 0
      /\ \A a \in Account : NewRun(TRUE, requests[q].keys).stage[a] =
           IF a \in requests[q].keys THEN "waiting" ELSE "none"
  BY <1>3, NewRunType
<1> QED
  BY <1>1, <1>2, <1>4 DEF TypeOK, Installable

(***************************************************************************)
(* The steps of an account's worker and of the dispatcher are moves.       *)
(***************************************************************************)
Live == {"waiting", "find", "acquire", "holding", "count"}

LEMMA AccountStepMoves ==
  ASSUME TypeOK, NEW n \in RunId, NEW a \in Account, AccountStep(n, a)
  PROVE  /\ runs[n].stage[a] \in Live
         /\ \E stage \in Stage : Moves(n, a, stage)
<1>1. CASE FindAccount(n, a)
  BY <1>1, MovedMoves DEF FindAccount, Live, Stage
<1>2. CASE AcquireBusy(n, a)
  BY <1>2, MovedMoves DEF AcquireBusy, AfterBusy, Live, Stage
<1>3. CASE ReleaseBusy(n, a)
  BY <1>3, MovedMoves DEF ReleaseBusy, Live, Stage
<1>4. CASE CompleteOne(n, a)
  BY <1>4, CompleteOneMoves DEF CompleteOne, Live, Stage
<1> QED
  BY <1>1, <1>2, <1>3, <1>4 DEF AccountStep

LEMMA DispatchMoves ==
  ASSUME TypeOK, NEW n \in RunId, NEW a \in Account, Dispatch(n, a)
  PROVE  runs[n].active /\ Moves(n, a, "find") /\ runs'[n].completed = runs[n].completed
  BY MovedMoves DEF Dispatch, Stage

(***************************************************************************)
(* Types.                                                                  *)
(***************************************************************************)
LEMMA RequestType ==
  ASSUME TypeOK, NEW q \in Requester,
         RequestStep(q) \/ \E keys \in SUBSET Account : RequestProbes(q, keys)
  PROVE  requests' \in [Requester -> Request]
<1>1. requests[q] \in Request /\ NoRequest \in Request
  BY DEF TypeOK, Request, NoRequest
<1>2. CASE ListAccounts(q)
  <2>1. [requests[q] EXCEPT !.pc = "checking"] \in Request
    BY <1>1 DEF Request
  <2> QED
    BY <1>1, <1>2, <2>1 DEF ListAccounts, TypeOK
<1>3. CASE InstallRun(q)
  BY <1>1, <1>3 DEF InstallRun, TypeOK
<1>4. ASSUME NEW a \in Account, CheckBusy(q, a) PROVE requests' \in [Requester -> Request]
  <2> DEFINE checked == [pc |-> IF requests[q].unchecked = {a} THEN "install" ELSE "checking",
                         keys |-> requests[q].keys,
                         unchecked |-> requests[q].unchecked \ {a}]
  <2>1. checked \in Request
    BY <1>1 DEF Request
  <2>2. requests' = [requests EXCEPT ![q] = NoRequest] \/ requests' = [requests EXCEPT ![q] = checked]
    BY <1>4 DEF CheckBusy, TypeOK
  <2> HIDE DEF checked
  <2> QED
    BY <1>1, <2>1, <2>2 DEF TypeOK
<1>5. ASSUME NEW keys \in SUBSET Account, RequestProbes(q, keys)
      PROVE  requests' \in [Requester -> Request]
  <2>1. [pc |-> "listing", keys |-> keys, unchecked |-> keys] \in Request
    BY DEF Request
  <2> QED
    BY <1>5, <2>1 DEF RequestProbes, TypeOK
<1> QED
  BY <1>2, <1>3, <1>4, <1>5 DEF RequestStep

LEMMA RequestStepType ==
  ASSUME TypeOK, NEW q \in Requester,
         RequestStep(q) \/ \E keys \in SUBSET Account : RequestProbes(q, keys)
  PROVE  TypeOK'
<1>1. requests' \in [Requester -> Request]
  BY RequestType
<1>2. UNCHANGED <<phase, busy, others>>
  BY DEF RequestStep, RequestProbes, ListAccounts, CheckBusy, InstallRun
<1>3. spent' \in [requests : Nat, others : Nat]
  <2>1. spent' = spent \/ spent' = [spent EXCEPT !.requests = @ + 1]
    BY DEF RequestStep, RequestProbes, ListAccounts, CheckBusy, InstallRun
  <2> QED
    BY <2>1 DEF TypeOK
<1>4. runs' \in [RunId -> Run] /\ current' \in RunId \cup {Null}
  <2>1. CASE InstallRun(q)
    <3>1. CASE runs' # runs
      BY <2>1, <3>1, InstallRunMoves
    <3>2. CASE runs' = runs
      BY <2>1, <3>2 DEF InstallRun, TypeOK
    <3> QED
      BY <3>1, <3>2
  <2>2. CASE ~ InstallRun(q)
    BY <2>2 DEF RequestStep, RequestProbes, ListAccounts, CheckBusy, TypeOK
  <2> QED
    BY <2>1, <2>2
<1> QED
  BY <1>1, <1>2, <1>3, <1>4 DEF TypeOK

LEMMA TypeStep ==
  ASSUME TypeOK, [Next]_vars
  PROVE  TypeOK'
<1>1. CASE UNCHANGED vars
  BY <1>1 DEF vars, TypeOK
<1>2. ASSUME NEW q \in Requester,
             RequestStep(q) \/ \E keys \in SUBSET Account : RequestProbes(q, keys)
      PROVE  TypeOK'
  BY <1>2, RequestStepType
<1>3. ASSUME NEW n \in RunId, DispatcherStep(n) PROVE TypeOK'
  <2>1. runs' \in [RunId -> Run]
    BY <1>3, DispatchMoves, SkipRestMoves, FinishRunMoves DEF DispatcherStep, Moves
  <2>2. UNCHANGED <<phase, busy, requests, current, others, spent>>
    BY <1>3 DEF DispatcherStep, Dispatch, SkipRest, FinishRun
  <2> QED
    BY <2>1, <2>2 DEF TypeOK
<1>4. ASSUME NEW n \in RunId, NEW a \in Account, AccountStep(n, a) PROVE TypeOK'
  <2>1. runs' \in [RunId -> Run]
    BY <1>4, AccountStepMoves DEF Moves
  <2>2. UNCHANGED <<phase, requests, current, others, spent>> /\ busy' \subseteq Account
    BY <1>4 DEF AccountStep, FindAccount, AcquireBusy, ReleaseBusy, CompleteOne, TypeOK
  <2> QED
    BY <2>1, <2>2 DEF TypeOK
<1>5. ASSUME NEW kind \in Kind, NEW a \in Account, BeginOther(kind, a) \/ EndOther(kind, a)
      PROVE  TypeOK'
  <2>1. UNCHANGED <<phase, requests, runs, current>>
    BY <1>5 DEF BeginOther, EndOther
  <2>2. busy' \subseteq Account /\ others' \subseteq Kind \X Account
    BY <1>5 DEF BeginOther, EndOther, TypeOK
  <2>3. spent' \in [requests : Nat, others : Nat]
    BY <1>5 DEF BeginOther, EndOther, TypeOK
  <2> QED
    BY <2>1, <2>2, <2>3 DEF TypeOK
<1>6. CASE BeginStop \/ StopReturns
  BY <1>6 DEF BeginStop, StopReturns, TypeOK
<1>7. CASE CancelRun
  BY <1>7, CancelRunMoves DEF CancelRun, TypeOK
<1>8. ASSUME NEW n \in RunId, CallerCancels(n) PROVE TypeOK'
  BY <1>8, CallerCancelsMoves DEF TypeOK
<1> QED
  BY <1>1, <1>2, <1>3, <1>4, <1>5, <1>6, <1>7, <1>8 DEF Next, StopStep

LEMMA TypeInit == Init => TypeOK
<1>1. NewRun(FALSE, {}) \in Run
  BY NewRunType
<1>2. NoRequest \in Request
  BY DEF NoRequest, Request
<1>3. ASSUME Init PROVE TypeOK
  <2>1. runs \in [RunId -> Run] /\ requests \in [Requester -> Request]
    BY <1>1, <1>2, <1>3 DEF Init
  <2>2. spent \in [requests : Nat, others : Nat] /\ others \subseteq Kind \X Account
    BY <1>3 DEF Init
  <2> QED
    BY <1>3, <2>1, <2>2 DEF Init, TypeOK
<1> QED
  BY <1>3

\* No handler leaves a registry, request, run or stage of another type.
THEOREM ManualTypeCorrect == Spec => []TypeOK
  BY TypeInit, TypeStep, PTL DEF Spec

(***************************************************************************)
(* Runs: one is active, only an active one has accounts at work, and none  *)
(* is left when Stop has returned.                                         *)
(***************************************************************************)
LiveRuns == \A n \in RunId, a \in Account : runs[n].stage[a] \in Live => runs[n].active

IdleAfterStop == phase = "stopped" => others = {} /\ \A n \in RunId : ~ runs[n].active

RunInv == OneActiveRun /\ LiveRuns /\ IdleAfterStop

\* A move of an account of an active run.
LEMMA MovesRunInv ==
  ASSUME RunInv, NEW n \in RunId, NEW a \in Account, NEW stage, Moves(n, a, stage),
         runs[n].active, UNCHANGED <<phase, current, others>>
  PROVE  RunInv'
<1>1. \A m \in RunId : runs'[m].active = runs[m].active
  BY DEF Moves
<1>2. OneActiveRun' /\ IdleAfterStop'
  BY <1>1 DEF RunInv, OneActiveRun, IdleAfterStop
<1>3. LiveRuns'
  BY <1>1 DEF RunInv, LiveRuns, Moves
<1> QED
  BY <1>2, <1>3 DEF RunInv

LEMMA InstallRunInv ==
  ASSUME TypeOK, RunInv, NEW q \in Requester, InstallRun(q)
  PROVE  RunInv'
<1>1. UNCHANGED <<phase, others>>
  BY DEF InstallRun
<1>2. CASE runs' = runs
  <2>1. current' = current
    <3>1. ASSUME NEW n \in RunId, runs' = [runs EXCEPT ![n] = NewRun(TRUE, requests[q].keys)],
                 Selected(n) = {}, Installable
          PROVE  n = current
      <4>1. requests[q].keys \in SUBSET Account
        BY DEF TypeOK, Request
      <4>2. NewRun(TRUE, requests[q].keys).active
        BY <4>1, NewRunType
      <4>3. runs[n].active
        BY <1>2, <3>1, <4>2 DEF TypeOK
      <4> QED
        BY <4>3 DEF RunInv, OneActiveRun
    <3> QED
      BY <3>1 DEF InstallRun
  <2> QED
    BY <1>1, <1>2, <2>1 DEF RunInv, OneActiveRun, LiveRuns, IdleAfterStop
<1>3. CASE runs' # runs
  <2>1. /\ ~ Stopped /\ ~ InProgress
        /\ current' \in RunId
        /\ \A m \in RunId \ {current'} : runs'[m] = runs[m]
        /\ runs'[current'].active
    BY <1>3, InstallRunMoves
  <2>2. \A m \in RunId : ~ runs[m].active
    BY <2>1, ManualAssumption DEF InProgress, RunInv, OneActiveRun
  <2>3. OneActiveRun'
    BY <2>1, <2>2 DEF OneActiveRun
  <2>4. LiveRuns'
    BY <2>1 DEF RunInv, LiveRuns
  <2>5. IdleAfterStop'
    BY <1>1, <2>1 DEF IdleAfterStop, Stopped
  <2> QED
    BY <2>3, <2>4, <2>5 DEF RunInv
<1> QED
  BY <1>2, <1>3

LEMMA DispatcherRunInv ==
  ASSUME TypeOK, RunInv, NEW n \in RunId, DispatcherStep(n)
  PROVE  RunInv'
<1>1. UNCHANGED <<phase, current, others>>
  BY DEF DispatcherStep, Dispatch, SkipRest, FinishRun
<1>2. ASSUME NEW a \in Account, Dispatch(n, a) PROVE RunInv'
  BY <1>1, <1>2, DispatchMoves, MovesRunInv
<1>3. CASE SkipRest(n)
  <2>1. \A m \in RunId : runs'[m].active = runs[m].active
    BY <1>3, SkipRestMoves
  <2>2. \A m \in RunId, a \in Account : runs'[m].stage[a] \in Live => runs[m].stage[a] \in Live
    BY <1>3, SkipRestMoves DEF Live
  <2> QED
    BY <1>1, <2>1, <2>2 DEF RunInv, OneActiveRun, LiveRuns, IdleAfterStop
<1>4. CASE FinishRun(n)
  <2>1. /\ \A m \in RunId : Keeps(m)
        /\ ~ runs'[n].active
        /\ \A m \in RunId \ {n} : runs'[m] = runs[m]
    BY <1>4, FinishRunMoves
  <2>2. \A a \in Account : runs[n].stage[a] \notin Live
    BY <1>4, StageType DEF FinishRun, Drained, Selected, Finished, At, Live, Stage
  <2>3. OneActiveRun' /\ IdleAfterStop'
    BY <1>1, <2>1 DEF RunInv, OneActiveRun, IdleAfterStop
  <2>4. LiveRuns'
    BY <2>1, <2>2 DEF RunInv, LiveRuns, Keeps
  <2> QED
    BY <2>3, <2>4 DEF RunInv
<1> QED
  BY <1>2, <1>3, <1>4 DEF DispatcherStep

LEMMA RunStep ==
  ASSUME TypeOK, RunInv, [Next]_vars
  PROVE  RunInv'
<1>1. CASE UNCHANGED vars
  BY <1>1 DEF vars, RunInv, OneActiveRun, LiveRuns, IdleAfterStop
<1>2. ASSUME NEW q \in Requester, RequestStep(q), ~ InstallRun(q) PROVE RunInv'
  BY <1>2 DEF RequestStep, ListAccounts, CheckBusy, RunInv, OneActiveRun, LiveRuns, IdleAfterStop
<1>3. ASSUME NEW q \in Requester, NEW keys \in SUBSET Account, RequestProbes(q, keys)
      PROVE  RunInv'
  BY <1>3 DEF RequestProbes, RunInv, OneActiveRun, LiveRuns, IdleAfterStop
<1>4. ASSUME NEW q \in Requester, InstallRun(q) PROVE RunInv'
  BY <1>4, InstallRunInv
<1>5. ASSUME NEW n \in RunId, DispatcherStep(n) PROVE RunInv'
  BY <1>5, DispatcherRunInv
<1>6. ASSUME NEW n \in RunId, NEW a \in Account, AccountStep(n, a) PROVE RunInv'
  <2>1. UNCHANGED <<phase, current, others>>
    BY <1>6 DEF AccountStep, FindAccount, AcquireBusy, ReleaseBusy, CompleteOne
  <2>2. runs[n].active
    BY <1>6, AccountStepMoves DEF RunInv, LiveRuns
  <2> QED
    BY <1>6, <2>1, <2>2, AccountStepMoves, MovesRunInv
<1>7. ASSUME NEW kind \in Kind, NEW a \in Account, BeginOther(kind, a) \/ EndOther(kind, a)
      PROVE  RunInv'
  BY <1>7 DEF BeginOther, EndOther, Acquirable, Stopped, RunInv, OneActiveRun, LiveRuns,
     IdleAfterStop
<1>8. CASE BeginStop \/ StopReturns
  BY <1>8 DEF BeginStop, StopReturns, RunInv, OneActiveRun, LiveRuns, IdleAfterStop
<1>9. CASE CancelRun
  BY <1>9, CancelRunMoves DEF CancelRun, Keeps, RunInv, OneActiveRun, LiveRuns, IdleAfterStop
<1>10. ASSUME NEW n \in RunId, CallerCancels(n) PROVE RunInv'
  BY <1>10, CallerCancelsMoves DEF Keeps, RunInv, OneActiveRun, LiveRuns, IdleAfterStop
<1> QED
  BY <1>1, <1>2, <1>3, <1>4, <1>5, <1>6, <1>7, <1>8, <1>9, <1>10 DEF Next, StopStep

LEMMA RunInit == Init => RunInv
<1> SUFFICES ASSUME Init PROVE RunInv
  OBVIOUS
<1>1. \A n \in RunId : ~ runs[n].active
  BY NewRunType DEF Init
<1>2. \A n \in RunId, a \in Account : runs[n].stage[a] \notin Live
  BY NewRunType DEF Init, Live
<1> QED
  BY <1>1, <1>2 DEF Init, RunInv, OneActiveRun, LiveRuns, IdleAfterStop

LEMMA SpecRunInv == Spec => [](TypeOK /\ RunInv)
  BY TypeInit, TypeStep, RunInit, RunStep, PTL DEF Spec

\* However many callers of StartManualProbes pass the first check at once, one
\* run is active, and it is the one that Status shows and Stop cancels.
THEOREM OneRunAtATime == Spec => []OneActiveRun
<1>1. RunInv => OneActiveRun
  BY DEF RunInv
<1> QED
  BY <1>1, SpecRunInv, PTL

(***************************************************************************)
(* The busy registry.                                                      *)
(***************************************************************************)
Exclusive ==
  \A a \in Account :
    /\ a \in busy <=> Holders(a) # {}
    /\ \A x, y \in Holders(a) : x = y

\* A step that moves nobody to or from holding an account.
LEMMA SameHolders ==
  ASSUME Exclusive, UNCHANGED <<busy, others>>,
         \A n \in RunId, a \in Account :
           runs'[n].stage[a] = "holding" <=> runs[n].stage[a] = "holding"
  PROVE  Exclusive'
<1>1. \A a \in Account : Holders(a)' = Holders(a)
  BY DEF Holders
<1> QED
  BY <1>1 DEF Exclusive

LEMMA MovesHolders ==
  ASSUME Exclusive, NEW n \in RunId, NEW a \in Account, NEW stage, Moves(n, a, stage),
         stage # "holding", runs[n].stage[a] # "holding", UNCHANGED <<busy, others>>
  PROVE  Exclusive'
<1>1. \A m \in RunId, b \in Account :
        runs'[m].stage[b] = "holding" <=> runs[m].stage[b] = "holding"
  BY DEF Moves
<1> QED
  BY <1>1, SameHolders

\* A free account gets one holder, a held one loses its only holder.
LEMMA AcquireHolder ==
  ASSUME Exclusive, NEW a \in Account, NEW x, a \notin busy, busy' = busy \cup {a},
         Holders(a)' = Holders(a) \cup {x},
         \A b \in Account \ {a} : Holders(b)' = Holders(b)
  PROVE  Exclusive'
<1>1. Holders(a)' = {x}
  BY DEF Exclusive
<1> QED
  BY <1>1 DEF Exclusive

LEMMA ReleaseHolder ==
  ASSUME Exclusive, NEW a \in Account, NEW x \in Holders(a), busy' = busy \ {a},
         Holders(a)' = Holders(a) \ {x},
         \A b \in Account \ {a} : Holders(b)' = Holders(b)
  PROVE  Exclusive'
<1>1. Holders(a)' = {}
  BY DEF Exclusive
<1> QED
  BY <1>1 DEF Exclusive

LEMMA AccountHolders ==
  ASSUME TypeOK, Exclusive, NEW n \in RunId, NEW a \in Account, AccountStep(n, a)
  PROVE  Exclusive'
<1>1. others' = others
  BY DEF AccountStep, FindAccount, AcquireBusy, ReleaseBusy, CompleteOne
<1>2. CASE FindAccount(n, a)
  BY <1>2, MovedMoves, MovesHolders DEF FindAccount, Stage
<1>3. CASE AcquireBusy(n, a)
  <2>1. CASE Acquirable(a)
    <3>1. Moves(n, a, "holding") /\ busy' = busy \cup {a} /\ a \notin busy
      BY <1>3, <2>1, MovedMoves DEF AcquireBusy, Acquirable, Stage
    <3>2. Holders(a)' = Holders(a) \cup {n}
      BY <1>1, <3>1 DEF Holders, Moves
    <3>3. \A b \in Account \ {a} : Holders(b)' = Holders(b)
      BY <1>1, <3>1 DEF Holders, Moves
    <3> QED
      BY <3>1, <3>2, <3>3, AcquireHolder
  <2>2. CASE ~ Acquirable(a)
    BY <1>1, <1>3, <2>2, MovedMoves, MovesHolders DEF AcquireBusy, AfterBusy, Stage
  <2> QED
    BY <2>1, <2>2
<1>4. CASE ReleaseBusy(n, a)
  <2>1. Moves(n, a, "count") /\ busy' = busy \ {a} /\ runs[n].stage[a] = "holding"
    BY <1>4, MovedMoves DEF ReleaseBusy, Stage
  <2>2. n \in Holders(a)
    BY <2>1 DEF Holders
  <2>3. n \notin Kind
    BY ManualAssumption DEF Kind
  <2>4. Holders(a)' = Holders(a) \ {n}
    BY <1>1, <2>1, <2>3 DEF Holders, Moves
  <2>5. \A b \in Account \ {a} : Holders(b)' = Holders(b)
    BY <1>1, <2>1 DEF Holders, Moves
  <2> QED
    BY <2>1, <2>2, <2>4, <2>5, ReleaseHolder
<1>5. CASE CompleteOne(n, a)
  BY <1>5, CompleteOneMoves, MovesHolders DEF CompleteOne
<1> QED
  BY <1>2, <1>3, <1>4, <1>5 DEF AccountStep

LEMMA OtherHolders ==
  ASSUME TypeOK, Exclusive, NEW kind \in Kind, NEW a \in Account,
         BeginOther(kind, a) \/ EndOther(kind, a)
  PROVE  Exclusive'
<1>1. runs' = runs
  BY DEF BeginOther, EndOther
<1>2. CASE BeginOther(kind, a)
  <2>1. others' = others \cup {<<kind, a>>} /\ busy' = busy \cup {a} /\ a \notin busy
    BY <1>2 DEF BeginOther, Acquirable
  <2>2. Holders(a)' = Holders(a) \cup {kind}
    BY <1>1, <2>1 DEF Holders
  <2>3. \A b \in Account \ {a} : Holders(b)' = Holders(b)
    BY <1>1, <2>1 DEF Holders
  <2> QED
    BY <2>1, <2>2, <2>3, AcquireHolder
<1>3. CASE EndOther(kind, a)
  <2>1. /\ <<kind, a>> \in others
        /\ others' = others \ {<<kind, a>>}
        /\ busy' = busy \ {a}
    BY <1>3 DEF EndOther
  <2>2. kind \in Holders(a)
    BY <2>1 DEF Holders
  <2>3. kind \notin RunId
    BY ManualAssumption DEF Kind
  <2>4. Holders(a)' = Holders(a) \ {kind}
    BY <1>1, <2>1, <2>3 DEF Holders
  <2>5. \A b \in Account \ {a} : Holders(b)' = Holders(b)
    BY <1>1, <2>1 DEF Holders
  <2> QED
    BY <2>1, <2>2, <2>4, <2>5, ReleaseHolder
<1> QED
  BY <1>2, <1>3

LEMMA ExclusiveStep ==
  ASSUME TypeOK, RunInv, Exclusive, [Next]_vars
  PROVE  Exclusive'
<1>1. CASE UNCHANGED <<busy, others, runs>>
  BY <1>1, SameHolders
<1>2. ASSUME NEW q \in Requester, InstallRun(q) PROVE Exclusive'
  <2>1. UNCHANGED <<busy, others>>
    BY <1>2 DEF InstallRun
  <2>2. CASE runs' # runs
    <3>1. /\ Selected(current') = {}
          /\ current' \in RunId
          /\ \A m \in RunId \ {current'} : runs'[m] = runs[m]
          /\ \A a \in Account : runs'[current'].stage[a] \in {"waiting", "none"}
      BY <1>2, <2>2, InstallRunMoves
    <3>2. \A a \in Account : runs[current'].stage[a] # "holding"
      BY <3>1 DEF Selected, At, Stage
    <3> QED
      BY <2>1, <3>1, <3>2, SameHolders
  <2> QED
    BY <1>1, <2>1, <2>2
<1>3. ASSUME NEW n \in RunId, DispatcherStep(n) PROVE Exclusive'
  <2>1. UNCHANGED <<busy, others>>
    BY <1>3 DEF DispatcherStep, Dispatch, SkipRest, FinishRun
  <2>2. ASSUME NEW a \in Account, Dispatch(n, a) PROVE Exclusive'
    BY <2>1, <2>2, DispatchMoves, MovesHolders DEF Dispatch
  <2>3. CASE SkipRest(n)
    <3>1. \A m \in RunId, a \in Account :
            runs'[m].stage[a] = "holding" <=> runs[m].stage[a] = "holding"
      BY <2>3, SkipRestMoves
    <3> QED
      BY <2>1, <3>1, SameHolders
  <2>4. CASE FinishRun(n)
    BY <2>1, <2>4, FinishRunMoves, SameHolders DEF Keeps
  <2> QED
    BY <1>3, <2>2, <2>3, <2>4 DEF DispatcherStep
<1>4. ASSUME NEW n \in RunId, NEW a \in Account, AccountStep(n, a) PROVE Exclusive'
  BY <1>4, AccountHolders
<1>5. ASSUME NEW kind \in Kind, NEW a \in Account, BeginOther(kind, a) \/ EndOther(kind, a)
      PROVE  Exclusive'
  BY <1>5, OtherHolders
<1>6. CASE CancelRun
  BY <1>6, CancelRunMoves, SameHolders DEF CancelRun, Keeps
<1>7. ASSUME NEW n \in RunId, CallerCancels(n) PROVE Exclusive'
  BY <1>7, CallerCancelsMoves, SameHolders DEF Keeps
<1> QED
  BY <1>1, <1>2, <1>3, <1>4, <1>5, <1>6, <1>7 DEF Next, vars, RequestStep, RequestProbes, ListAccounts,
     CheckBusy, StopStep, BeginStop, StopReturns

LEMMA ExclusiveInit == Init => Exclusive
<1> SUFFICES ASSUME Init PROVE Exclusive
  OBVIOUS
<1>1. \A n \in RunId, a \in Account : runs[n].stage[a] # "holding"
  BY NewRunType DEF Init
<1> QED
  BY <1>1 DEF Init, Exclusive, Holders

LEMMA SpecExclusive == Spec => [](TypeOK /\ RunInv /\ Exclusive)
  BY SpecRunInv, ExclusiveInit, ExclusiveStep, PTL DEF Spec

\* Account-level single flight: probes of a run, preheats and resets hold an
\* account one at a time, and the registry forgets none of them.
THEOREM SingleFlight == Spec => []BusyExact
<1>1. Exclusive => BusyExact
  <2> SUFFICES ASSUME Exclusive, NEW a \in Account
               PROVE  Cardinality(Holders(a)) = IF a \in busy THEN 1 ELSE 0
    BY DEF BusyExact
  <2>1. CASE a \in busy
    <3>1. PICK x : Holders(a) = {x}
      BY <2>1 DEF Exclusive
    <3> QED
      BY <2>1, <3>1, FS_Singleton
  <2>2. CASE a \notin busy
    BY <2>2, FS_EmptySet DEF Exclusive
  <2> QED
    BY <2>1, <2>2
<1> QED
  BY <1>1, SpecExclusive, PTL

\* When Stop has returned no probe, preheat or reset is under way.
THEOREM NothingAfterStop == Spec => []QuietAfterStop
<1>1. RunInv /\ Exclusive /\ TypeOK => QuietAfterStop
  <2> SUFFICES ASSUME RunInv, Exclusive, TypeOK, phase = "stopped"
               PROVE  busy = {} /\ \A n \in RunId : InHand(n) = {}
    BY DEF QuietAfterStop
  <2>1. \A n \in RunId, a \in Account : runs[n].stage[a] \notin Live
    BY DEF RunInv, IdleAfterStop, LiveRuns
  <2>2. \A n \in RunId : InHand(n) = {}
    BY <2>1 DEF InHand, At, Live
  <2>3. \A a \in Account : Holders(a) = {}
    BY <2>1 DEF Holders, Live, RunInv, IdleAfterStop
  <2> QED
    BY <2>2, <2>3 DEF Exclusive, TypeOK
<1> QED
  BY <1>1, SpecExclusive, PTL

(***************************************************************************)
(* Progress: a run has counted the accounts it is done with.               *)
(***************************************************************************)
Counted == \A n \in RunId : runs[n].completed = Cardinality(Finished(n))

LEMMA AtFinite ==
  ASSUME NEW n \in RunId, NEW stages
  PROVE  IsFiniteSet(At(n, stages)) /\ Cardinality(At(n, stages)) \in Nat
<1>1. At(n, stages) \in SUBSET Account
  BY DEF At
<1> QED
  BY <1>1, FS_Subset, FS_CardinalityType, ManualAssumption

LEMMA DisjointSum ==
  ASSUME NEW S, NEW T, IsFiniteSet(S), IsFiniteSet(T), S \cap T = {}
  PROVE  Cardinality(S \cup T) = Cardinality(S) + Cardinality(T)
<1>1. Cardinality(S) \in Nat /\ Cardinality(T) \in Nat
  BY FS_CardinalityType
<1>2. Cardinality(S \cap T) = 0
  BY FS_EmptySet
<1>3. Cardinality(S \cup T) = Cardinality(S) + Cardinality(T) - Cardinality(S \cap T)
  BY FS_Union
<1> QED
  BY <1>1, <1>2, <1>3

\* A run whose accounts and count stay, or stay unfinished.
LEMMA SameCount ==
  ASSUME Counted, NEW n \in RunId, runs'[n].completed = runs[n].completed,
         \A a \in Account : runs'[n].stage[a] \in {"done", "skipped"}
                          <=> runs[n].stage[a] \in {"done", "skipped"}
  PROVE  runs'[n].completed = Cardinality(Finished(n)')
<1>1. Finished(n)' = Finished(n)
  BY DEF Finished, At
<1> QED
  BY <1>1 DEF Counted

LEMMA AccountCounted ==
  ASSUME TypeOK, Counted, NEW n \in RunId, NEW a \in Account, AccountStep(n, a)
  PROVE  Counted'
<1>1. \A m \in RunId \ {n} : runs'[m] = runs[m]
  BY AccountStepMoves DEF Moves
<1>2. \A m \in RunId \ {n} : runs'[m].completed = Cardinality(Finished(m)')
  BY <1>1, SameCount
<1>3. CASE CompleteOne(n, a)
  <2>1. /\ Moves(n, a, "done")
        /\ runs'[n].completed = runs[n].completed + 1
        /\ runs[n].stage[a] = "count"
    BY <1>3, CompleteOneMoves DEF CompleteOne
  <2>2. Finished(n)' = Finished(n) \cup {a} /\ a \notin Finished(n)
    BY <2>1 DEF Finished, At, Moves
  <2>3. Cardinality(Finished(n) \cup {a}) = Cardinality(Finished(n)) + 1
    BY <2>2, AtFinite, FS_AddElement DEF Finished
  <2>4. runs'[n].completed = Cardinality(Finished(n)')
    BY <2>1, <2>2, <2>3 DEF Counted
  <2> QED
    BY <1>2, <2>4 DEF Counted
<1>4. CASE FindAccount(n, a) \/ AcquireBusy(n, a) \/ ReleaseBusy(n, a)
  <2>1. PICK stage \in {"acquire", "holding", "count"} : runs' = Moved(n, a, stage)
    BY <1>4 DEF FindAccount, AcquireBusy, AfterBusy, ReleaseBusy
  <2>2. Moves(n, a, stage) /\ runs'[n].completed = runs[n].completed
    BY <2>1, MovedMoves DEF Stage
  <2>3. runs[n].stage[a] \in Live
    BY AccountStepMoves
  <2>4. runs'[n].completed = Cardinality(Finished(n)')
    BY <2>1, <2>2, <2>3, SameCount DEF Moves, Live
  <2> QED
    BY <1>2, <2>4 DEF Counted
<1> QED
  BY <1>3, <1>4 DEF AccountStep

LEMMA DispatcherCounted ==
  ASSUME TypeOK, Counted, NEW n \in RunId, DispatcherStep(n)
  PROVE  Counted'
<1>1. ASSUME NEW a \in Account, Dispatch(n, a) PROVE Counted'
  <2>1. /\ Moves(n, a, "find")
        /\ runs'[n].completed = runs[n].completed
        /\ runs[n].stage[a] = "waiting"
    BY <1>1, DispatchMoves DEF Dispatch
  <2> QED
    BY <2>1, SameCount DEF Moves, Counted
<1>2. CASE SkipRest(n)
  <2> DEFINE rest == At(n, {"waiting"})
  <2>1. Finished(n)' = Finished(n) \cup rest /\ Finished(n) \cap rest = {}
    BY <1>2, SkipRestMoves DEF Finished, At
  <2>2. Cardinality(Finished(n) \cup rest) = Cardinality(Finished(n)) + Cardinality(rest)
    BY <2>1, AtFinite, DisjointSum DEF Finished
  <2>3. runs'[n].completed = Cardinality(Finished(n)')
    BY <1>2, <2>1, <2>2, SkipRestMoves DEF Counted
  <2>4. \A m \in RunId \ {n} : runs'[m].completed = Cardinality(Finished(m)')
    BY <1>2, SkipRestMoves, SameCount
  <2> QED
    BY <2>3, <2>4 DEF Counted
<1>3. CASE FinishRun(n)
  BY <1>3, FinishRunMoves, SameCount DEF Keeps, Counted
<1> QED
  BY <1>1, <1>2, <1>3 DEF DispatcherStep

LEMMA InstallCounted ==
  ASSUME TypeOK, Counted, NEW q \in Requester, InstallRun(q)
  PROVE  Counted'
<1>1. CASE runs' = runs
  BY <1>1, SameCount DEF Counted
<1>2. CASE runs' # runs
  <2>1. /\ current' \in RunId
        /\ \A m \in RunId \ {current'} : runs'[m] = runs[m]
        /\ runs'[current'].completed = 0
        /\ \A a \in Account : runs'[current'].stage[a] \in {"waiting", "none"}
    BY <1>2, InstallRunMoves
  <2>2. \A m \in RunId : m = current' => Finished(m)' = {}
    BY <2>1 DEF Finished, At
  <2>3. \A m \in RunId : m = current' => runs'[m].completed = Cardinality(Finished(m)')
    BY <2>1, <2>2, FS_EmptySet
  <2>4. \A m \in RunId \ {current'} : runs'[m].completed = Cardinality(Finished(m)')
    BY <2>1, SameCount
  <2> QED
    BY <2>3, <2>4 DEF Counted
<1> QED
  BY <1>1, <1>2

LEMMA CountedStep ==
  ASSUME TypeOK, Counted, [Next]_vars
  PROVE  Counted'
<1>1. CASE runs' = runs
  BY <1>1, SameCount DEF Counted
<1>2. ASSUME NEW q \in Requester, InstallRun(q) PROVE Counted'
  BY <1>2, InstallCounted
<1>3. ASSUME NEW n \in RunId, DispatcherStep(n) PROVE Counted'
  BY <1>3, DispatcherCounted
<1>4. ASSUME NEW n \in RunId, NEW a \in Account, AccountStep(n, a) PROVE Counted'
  BY <1>4, AccountCounted
<1>5. CASE CancelRun
  BY <1>5, CancelRunMoves, SameCount DEF Keeps, Counted
<1>6. ASSUME NEW n \in RunId, CallerCancels(n) PROVE Counted'
  BY <1>6, CallerCancelsMoves, SameCount DEF Keeps, Counted
<1> QED
  BY <1>1, <1>2, <1>3, <1>4, <1>5, <1>6 DEF Next, vars, RequestStep, RequestProbes, ListAccounts,
     CheckBusy, BeginOther, EndOther, StopStep, BeginStop, StopReturns

LEMMA CountedInit == Init => Counted
<1> SUFFICES ASSUME Init, NEW n \in RunId PROVE runs[n].completed = Cardinality(Finished(n))
  BY DEF Counted
<1>1. runs[n].completed = 0 /\ \A a \in Account : runs[n].stage[a] = "none"
  BY NewRunType DEF Init
<1>2. Finished(n) = {}
  BY <1>1 DEF Finished, At
<1> QED
  BY <1>1, <1>2, FS_EmptySet

\* The progress of a run never passes its total and ends at it, whether its
\* accounts were probed, refused or never dispatched.
THEOREM ProgressAddsUp == Spec => []ProgressExact
<1>1. TypeOK /\ RunInv /\ Counted => ProgressExact
  <2> SUFFICES ASSUME TypeOK, RunInv, Counted, NEW n \in RunId
               PROVE  /\ runs[n].completed <= Cardinality(Selected(n))
                      /\ ~ runs[n].active => runs[n].completed = Cardinality(Selected(n))
    BY DEF ProgressExact
  <2>1. Finished(n) \in SUBSET Selected(n)
    BY DEF Finished, Selected, At, Stage
  <2>2. Cardinality(Finished(n)) <= Cardinality(Selected(n))
    BY <2>1, AtFinite, FS_Subset DEF Selected
  <2>3. ASSUME ~ runs[n].active PROVE Selected(n) = Finished(n)
    <3>1. \A a \in Account : runs[n].stage[a] \in Stage \ Live
      BY <2>3, StageType DEF RunInv, LiveRuns
    <3> QED
      BY <3>1 DEF Finished, Selected, At, Stage, Live
  <2> QED
    BY <2>2, <2>3 DEF Counted
<1>2. Spec => []Counted
  BY ManualTypeCorrect, CountedInit, CountedStep, PTL DEF Spec
<1> QED
  BY <1>1, <1>2, SpecRunInv, PTL

=============================================================================
