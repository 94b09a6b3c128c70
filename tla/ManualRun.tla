------------------------------ MODULE ManualRun ------------------------------
(***************************************************************************)
(* Manual health probes (internal/app/manual.go): concurrent calls of      *)
(* StartManualProbes, the one bulk run that may be active, its dispatcher  *)
(* and workers, the busy registry that probes share with preheats and      *)
(* resets (internal/app/runtime.go), and Runtime.Stop.                     *)
(*                                                                         *)
(* A worker is in hand of one account at a time, so a run is described by  *)
(* the stage of each of its accounts; the number of accounts in hand is    *)
(* the number of workers at work.                                          *)
(***************************************************************************)
EXTENDS Integers, FiniteSets

CONSTANTS
  Requester,   \* concurrent calls of StartManualProbes
  Account,     \* Codex accounts
  RunId,       \* ids of runs
  Null,        \* no run
  WorkerLimit, \* workers of a run: three in the code
  MaxRequests, \* bound: calls of StartManualProbes
  MaxOthers    \* bound: preheats and resets

ASSUME ManualAssumption ==
  /\ Null \notin RunId
  /\ RunId \cap {"preheat", "reset"} = {}
  /\ IsFiniteSet(Account)
  /\ {WorkerLimit, MaxRequests, MaxOthers} \subseteq Nat
  /\ WorkerLimit > 0

VARIABLES
  phase,    \* Runtime.stopped and how far Stop is
  busy,     \* Runtime.busy
  requests, \* where each StartManualProbes call is
  runs,     \* every run there was
  current,  \* Runtime.run
  others,   \* preheats and resets that hold an account
  spent     \* what is spent of the bounds

vars == <<phase, busy, requests, runs, current, others, spent>>

Kind == {"preheat", "reset"}
Stage == {"none", "waiting", "find", "acquire", "holding", "count", "done", "skipped"}
Request == [pc : {"idle", "listing", "checking", "install"},
            keys : SUBSET Account, unchecked : SUBSET Account]
Run == [active : BOOLEAN, cancelled : BOOLEAN, completed : Nat, stage : [Account -> Stage]]

TypeOK ==
  /\ phase \in {"up", "stopping", "cancelled", "stopped"}
  /\ busy \subseteq Account
  /\ requests \in [Requester -> Request]
  /\ runs \in [RunId -> Run]
  /\ current \in RunId \cup {Null}
  /\ others \subseteq Kind \X Account
  /\ spent \in [requests : Nat, others : Nat]

NoRequest == [pc |-> "idle", keys |-> {}, unchecked |-> {}]

NewRun(active, keys) ==
  [active |-> active, cancelled |-> FALSE, completed |-> 0,
   stage |-> [a \in Account |-> IF a \in keys THEN "waiting" ELSE "none"]]

Init ==
  /\ phase = "up"
  /\ busy = {}
  /\ requests = [q \in Requester |-> NoRequest]
  /\ runs = [n \in RunId |-> NewRun(FALSE, {})]
  /\ current = Null
  /\ others = {}
  /\ spent = [requests |-> 0, others |-> 0]

Stopped == phase # "up"

\* The accounts of a run at some stages.
At(n, stages) == {a \in Account : runs[n].stage[a] \in stages}

Selected(n) == At(n, Stage \ {"none"})
InHand(n) == At(n, {"find", "acquire", "holding", "count"})
Finished(n) == At(n, {"done", "skipped"})

InProgress == current # Null /\ runs[current].active

-----------------------------------------------------------------------------
(***************************************************************************)
(* StartManualProbes: the checks hold no lock between them and are made    *)
(* again when the run is installed, but for the accounts' being busy,      *)
(* which each worker finds out for itself.                                 *)
(***************************************************************************)
RequestProbes(q, keys) ==
  /\ requests[q].pc = "idle"
  /\ keys # {}
  /\ spent.requests < MaxRequests
  /\ spent' = [spent EXCEPT !.requests = @ + 1]
  /\ ~ Stopped
  /\ ~ InProgress
  /\ requests' = [requests EXCEPT ![q] = [pc |-> "listing", keys |-> keys, unchecked |-> keys]]
  /\ UNCHANGED <<phase, busy, runs, current, others>>

\* Accounts.List fails, leaves out or disables an account, or all are eligible.
ListAccounts(q) ==
  /\ requests[q].pc = "listing"
  /\ \/ requests' = [requests EXCEPT ![q] = NoRequest]
     \/ requests' = [requests EXCEPT ![q].pc = "checking"]
  /\ UNCHANGED <<phase, busy, runs, current, others, spent>>

\* isBusy, of one account after the other.
CheckBusy(q, a) ==
  /\ requests[q].pc = "checking"
  /\ a \in requests[q].unchecked
  /\ \/ /\ a \in busy
        /\ requests' = [requests EXCEPT ![q] = NoRequest]
     \/ /\ a \notin busy
        /\ requests' = [requests EXCEPT
             ![q] = [pc |-> IF @.unchecked = {a} THEN "install" ELSE "checking",
                     keys |-> @.keys,
                     unchecked |-> @.unchecked \ {a}]]
  /\ UNCHANGED <<phase, busy, runs, current, others, spent>>

\* Mutant: only the first check looks for a run in progress.
InstallableBeside == ~ Stopped

\* Mutant: only the first check looks for a shutdown.
InstallableStopped == ~ InProgress

\* The final check, under Runtime.mu.
Installable == ~ Stopped /\ ~ InProgress

InstallRun(q) ==
  /\ requests[q].pc = "install"
  /\ requests' = [requests EXCEPT ![q] = NoRequest]
  /\ \/ /\ ~ Installable
        /\ UNCHANGED <<runs, current>>
     \/ /\ Installable
        /\ \E n \in RunId :
             /\ Selected(n) = {}
             /\ runs' = [runs EXCEPT ![n] = NewRun(TRUE, requests[q].keys)]
             /\ current' = n
  /\ UNCHANGED <<phase, busy, others, spent>>

-----------------------------------------------------------------------------
(***************************************************************************)
(* A run: the dispatcher hands its accounts to the workers that are free,  *)
(* a worker takes an account through its stages.                           *)
(***************************************************************************)
WorkerFree(n) == Cardinality(InHand(n)) < WorkerLimit

Moved(n, a, stage) == [runs EXCEPT ![n].stage[a] = stage]

\* The select of runManual may still choose a free worker when the run has been
\* cancelled.
Dispatch(n, a) ==
  /\ runs[n].active
  /\ runs[n].stage[a] = "waiting"
  /\ WorkerFree(n)
  /\ runs' = Moved(n, a, "find")
  /\ UNCHANGED <<phase, busy, requests, current, others, spent>>

\* Mutant: what was not dispatched is not counted.
UncountedRest(n) == runs[n].completed

\* A cancelled run counts what was not dispatched as completed.
CountedRest(n) == runs[n].completed + Cardinality(At(n, {"waiting"}))

\* The increments of the loop are one step: nothing reads the counter but Status.
SkipRest(n) ==
  /\ runs[n].active
  /\ runs[n].cancelled
  /\ At(n, {"waiting"}) # {}
  /\ runs' = [runs EXCEPT
       ![n].completed = CountedRest(n),
       ![n].stage = [a \in Account |-> IF @[a] = "waiting" THEN "skipped" ELSE @[a]]]
  /\ UNCHANGED <<phase, busy, requests, current, others, spent>>

\* Accounts.Find fails or no longer finds the account eligible, or does.
FindAccount(n, a) ==
  /\ runs[n].stage[a] = "find"
  /\ \E stage \in {"acquire", "count"} : runs' = Moved(n, a, stage)
  /\ UNCHANGED <<phase, busy, requests, current, others, spent>>

\* Mutant: the registry is not asked.
AcquirableAnyway(a) == ~ Stopped /\ a \in Account

\* acquireBusy.
Acquirable(a) == ~ Stopped /\ a \notin busy

\* Mutant: a worker waits for an account to become free.
RetryBusy == "acquire"

\* Mutant: a stage of its own that nobody takes further.
ParkBusy == "busy"

\* A busy account is recorded as such, and done.
AfterBusy == "count"

AcquireBusy(n, a) ==
  /\ runs[n].stage[a] = "acquire"
  /\ \/ /\ Acquirable(a)
        /\ busy' = busy \cup {a}
        /\ runs' = Moved(n, a, "holding")
     \/ /\ ~ Acquirable(a)
        /\ runs' = Moved(n, a, AfterBusy)
        /\ UNCHANGED busy
  /\ UNCHANGED <<phase, requests, current, others, spent>>

\* The refreshes, the probe and the history record come before the deferred
\* releaseBusy; all of them end, and none needs the registry.
ReleaseBusy(n, a) ==
  /\ runs[n].stage[a] = "holding"
  /\ busy' = busy \ {a}
  /\ runs' = Moved(n, a, "count")
  /\ UNCHANGED <<phase, requests, current, others, spent>>

CompleteOne(n, a) ==
  /\ runs[n].stage[a] = "count"
  /\ runs' = [runs EXCEPT ![n].stage[a] = "done", ![n].completed = @ + 1]
  /\ UNCHANGED <<phase, busy, requests, current, others, spent>>

\* Mutant: the run waits until it has seen every account.
DrainedAll(n) == Selected(n) = At(n, {"done"})

\* The jobs are closed and the workers have left.
Drained(n) == Selected(n) = Finished(n)

FinishRun(n) ==
  /\ runs[n].active
  /\ Drained(n)
  /\ runs' = [runs EXCEPT ![n].active = FALSE, ![n].cancelled = TRUE]
  /\ UNCHANGED <<phase, busy, requests, current, others, spent>>

\* The context of a run is derived from that of its caller, who may cancel it.
CallerCancels(n) ==
  /\ runs[n].active
  /\ ~ runs[n].cancelled
  /\ runs' = [runs EXCEPT ![n].cancelled = TRUE]
  /\ UNCHANGED <<phase, busy, requests, current, others, spent>>

-----------------------------------------------------------------------------
(***************************************************************************)
(* The other users of the registry: the scheduler's owner runs one preheat *)
(* at a time, a reset holds its account as long as its flight.             *)
(***************************************************************************)
BeginOther(kind, a) ==
  /\ spent.others < MaxOthers
  /\ spent' = [spent EXCEPT !.others = @ + 1]
  /\ kind = "preheat" => \A b \in Account : <<"preheat", b>> \notin others
  /\ Acquirable(a)
  /\ busy' = busy \cup {a}
  /\ others' = others \cup {<<kind, a>>}
  /\ UNCHANGED <<phase, requests, runs, current>>

EndOther(kind, a) ==
  /\ <<kind, a>> \in others
  /\ busy' = busy \ {a}
  /\ others' = others \ {<<kind, a>>}
  /\ UNCHANGED <<phase, requests, runs, current, spent>>

-----------------------------------------------------------------------------
(***************************************************************************)
(* Runtime.Stop: the flag, the cancellation of the run it found, and the   *)
(* waits for the scheduler's owner and for the goroutines of the Runtime.  *)
(***************************************************************************)
BeginStop ==
  /\ phase = "up"
  /\ phase' = "stopping"
  /\ UNCHANGED <<busy, requests, runs, current, others, spent>>

CancelRun ==
  /\ phase = "stopping"
  /\ phase' = "cancelled"
  /\ runs' = IF current = Null THEN runs ELSE [runs EXCEPT ![current].cancelled = TRUE]
  /\ UNCHANGED <<busy, requests, current, others, spent>>

StopReturns ==
  /\ phase = "cancelled"
  /\ others = {}
  /\ \A n \in RunId : ~ runs[n].active
  /\ phase' = "stopped"
  /\ UNCHANGED <<busy, requests, runs, current, others, spent>>

-----------------------------------------------------------------------------
RequestStep(q) ==
  ListAccounts(q) \/ InstallRun(q) \/ \E a \in Account : CheckBusy(q, a)

AccountStep(n, a) ==
  FindAccount(n, a) \/ AcquireBusy(n, a) \/ ReleaseBusy(n, a) \/ CompleteOne(n, a)

DispatcherStep(n) == SkipRest(n) \/ FinishRun(n) \/ \E a \in Account : Dispatch(n, a)

StopStep == CancelRun \/ StopReturns

Next ==
  \/ \E q \in Requester : RequestStep(q) \/ \E keys \in SUBSET Account : RequestProbes(q, keys)
  \/ \E n \in RunId :
       DispatcherStep(n) \/ CallerCancels(n) \/ \E a \in Account : AccountStep(n, a)
  \/ \E kind \in Kind, a \in Account : BeginOther(kind, a) \/ EndOther(kind, a)
  \/ BeginStop \/ StopStep

Spec == Init /\ [][Next]_vars

Fairness ==
  /\ \A n \in RunId : WF_vars(DispatcherStep(n))
  /\ \A n \in RunId, a \in Account : WF_vars(AccountStep(n, a))
  /\ \A kind \in Kind, a \in Account : WF_vars(EndOther(kind, a))
  /\ WF_vars(StopStep)

FairSpec == Spec /\ Fairness

-----------------------------------------------------------------------------
(***************************************************************************)
(* Properties                                                              *)
(***************************************************************************)
\* The operations that hold an account.
Holders(a) ==
  {n \in RunId : runs[n].stage[a] = "holding"} \cup {kind \in Kind : <<kind, a>> \in others}

\* Account-level single flight: an account is in the registry exactly while one
\* operation holds it. No operation shares it, frees another's, or leaves it
\* behind.
BusyExact ==
  \A a \in Account : Cardinality(Holders(a)) = IF a \in busy THEN 1 ELSE 0

\* However many callers pass the first check, one run is active, and Status and
\* Stop see that one.
OneActiveRun == \A n \in RunId : runs[n].active => n = current

\* The progress that Status shows ends at the total, whether accounts were
\* probed, refused or never dispatched, and never runs past it.
ProgressExact ==
  \A n \in RunId :
    /\ runs[n].completed <= Cardinality(Selected(n))
    /\ ~ runs[n].active => runs[n].completed = Cardinality(Selected(n))

\* After Stop no run is active, no account is held, and none will be.
QuietAfterStop == phase = "stopped" => busy = {} /\ \A n \in RunId : InHand(n) = {}

\* A run ends, also when its accounts are busy or it is cancelled.
RunsEnd == \A n \in RunId : runs[n].active ~> ~ runs[n].active

\* Stop returns.
StopCompletes == phase = "stopping" ~> phase = "stopped"

=============================================================================
