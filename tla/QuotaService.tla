---------------------------- MODULE QuotaService ----------------------------
(***************************************************************************)
(* The quota service (internal/quota/service.go) and the preheats that     *)
(* decide by it (internal/app/preheat.go): refreshes of an account share   *)
(* one flight and write one cache; the operator may clear the cache; a     *)
(* preheat refreshes, evaluates, perhaps sends its request, and refreshes  *)
(* again.  Guardrail holds are durable, the cache is not.                  *)
(*                                                                         *)
(* The busy registry lets one preheat at a time work on an account, so a   *)
(* preheat goes by the name of its account.  Everybody else who refreshes  *)
(* (the panel, health probes, resets) is a Reader.                         *)
(***************************************************************************)
EXTENDS UsageWindows

CONSTANTS
  Account,       \* Codex accounts, and the preheats that work on them
  Reader,        \* other callers of Refresh
  Null,          \* no account, no hold
  Answers,       \* the sequences of windows a usage answer may hold
  Configs,       \* configurations: longFloor, quotaFloor, windowFloor
  WriteOutcomes, \* how a write of runtime-state.json may end
  StaleAfter,    \* snapshotStaleAfter
  MaxTime,       \* bound: the clock
  MaxFlights,    \* bound: refreshes of an account before its last callers
  MaxClears,     \* bound: ClearSnapshots calls
  MaxFaults,     \* bound: failed reads and writes of the state
  MaxRestarts    \* bound: restarts of the process

Window == [minutes : Nat \ {0}, remaining : 0 .. 100, resetAt : Nat, short : BOOLEAN]
Config == [longFloor : 0 .. 100, quotaFloor : 0 .. 100, windowFloor : Nat]

ASSUME QuotaAssumption ==
  /\ Account \cap Reader = {}
  /\ Null \notin Account \cup Reader \cup Nat
  /\ Answers \subseteq Seq(Window) \ {<<>>}
  /\ Configs # {} /\ Configs \subseteq Config
  /\ WriteOutcomes \subseteq {"ok", "lost", "kept"}
  /\ {StaleAfter, MaxTime, MaxFlights, MaxClears, MaxFaults, MaxRestarts} \subseteq Nat

VARIABLES
  running,  \* FALSE once Stop has ended the context of the preheats
  now,      \* the clock
  config,   \* the Runtime's configuration
  entries,  \* Service.entries
  flights,  \* Service.flights
  holds,    \* durable: RuntimeState.GuardrailHolds, the snapshot that proved each
  stage,    \* where each caller is
  target,   \* the account a reader refreshes
  views,    \* what the preheat of an account read of the cache
  counter,  \* history: refreshes of an account begun so far, names a snapshot
  epoch,    \* history: ClearSnapshots calls so far
  spent     \* faults and restarts so far

vars == <<running, now, config, entries, flights, holds, stage, target, views, counter, epoch, spent>>

Caller == Account \cup Reader
Stage == {"idle", "refresh", "evaluate", "decide", "request", "after"}

\* A snapshot is its windows, when the refresh that brought it began, and for
\* the properties which refresh that was and how often the cache was cleared
\* before it was stored.  number 0: no snapshot, only an error.
Snapshot == [windows : Answers \cup {<<>>}, capturedAt : Nat, number : Nat, epoch : Nat]
NoSnapshot == [windows |-> <<>>, capturedAt |-> 0, number |-> 0, epoch |-> 0]
Entry == [present : BOOLEAN, snapshot : Snapshot, failed : BOOLEAN]
NoEntry == [present |-> FALSE, snapshot |-> NoSnapshot, failed |-> FALSE]
Flight == [owner : Caller \cup {Null}, joined : SUBSET Caller, startedAt : Nat, saved : Snapshot]
NoFlight == [owner |-> Null, joined |-> {}, startedAt |-> 0, saved |-> NoSnapshot]
View == [present : BOOLEAN, windows : Answers \cup {<<>>}, number : Nat, failed : BOOLEAN,
         stale : BOOLEAN, now : Nat, cfg : Configs]
NoView(cfg) == [present |-> FALSE, windows |-> <<>>, number |-> 0, failed |-> FALSE,
                stale |-> FALSE, now |-> 0, cfg |-> cfg]

TypeOK ==
  /\ running \in BOOLEAN /\ now \in Nat /\ config \in Configs /\ epoch \in Nat
  /\ entries \in [Account -> Entry]
  /\ flights \in [Account -> Flight]
  /\ holds \in [Account -> Nat \cup {Null}]
  /\ stage \in [Caller -> Stage]
  /\ \A c \in Reader : stage[c] \in {"idle", "refresh"}
  /\ target \in [Caller -> Account]
  /\ views \in [Account -> View]
  /\ counter \in [Account -> Nat]
  /\ spent \in [faults : Nat, restarts : Nat]

Init ==
  /\ running = TRUE /\ now = 1 /\ epoch = 0
  /\ config \in Configs
  /\ entries = [a \in Account |-> NoEntry]
  /\ flights = [a \in Account |-> NoFlight]
  /\ holds = [a \in Account |-> Null]
  /\ stage = [c \in Caller |-> "idle"]
  /\ target \in {t \in [Caller -> Account] : \A a \in Account : t[a] = a}
  /\ views = [a \in Account |-> NoView(config)]
  /\ counter = [a \in Account |-> 0]
  /\ spent = [faults |-> 0, restarts |-> 0]

-----------------------------------------------------------------------------
\* Refresh.

\* Up to the request: join the account's flight, or begin one and remember the
\* cached snapshot.
Share(c) ==
  LET a == target[c] IN
  IF flights[a].owner # Null
  THEN /\ flights' = [flights EXCEPT ![a].joined = @ \cup {c}]
       /\ UNCHANGED counter
  ELSE /\ flights' = [flights EXCEPT ![a] = [owner |-> c, joined |-> {}, startedAt |-> now,
                                             saved |-> entries[a].snapshot]]
       /\ counter' = [counter EXCEPT ![a] = @ + 1]

Refresh(c) ==
  /\ stage[c] = "idle" /\ counter[target[c]] < MaxFlights
  /\ Share(c)
  /\ stage' = [stage EXCEPT ![c] = "refresh"]
  /\ UNCHANGED <<running, now, config, entries, holds, target, views, epoch, spent>>

\* Mutant: those who joined are forgotten.
OwnerOnly(a) == {flights[a].owner}

Waiting(a) == flights[a].joined \cup {flights[a].owner}

\* Mutant: everybody goes on to evaluate.
AnsweredAlike(c) == IF stage[c] = "refresh" THEN "evaluate" ELSE "idle"

\* Where an answer finds and leaves a caller: a preheat goes on after an error
\* too, and evaluates only what it refreshed before its request.
Answered(c) == IF c \in Account /\ stage[c] = "refresh" THEN "evaluate" ELSE "idle"

\* The owner stores its answer, entry e, and everybody who waits gets it.
Land(a, e) ==
  /\ flights[a].owner # Null
  /\ entries' = [entries EXCEPT ![a] = e]
  /\ flights' = [flights EXCEPT ![a] = NoFlight]
  /\ stage' = [c \in Caller |-> IF c \in Waiting(a) THEN Answered(c) ELSE stage[c]]
  /\ UNCHANGED <<running, now, config, holds, target, views, counter, epoch, spent>>

\* A new snapshot replaces the entry, its error included.
Succeed(a) == \E ws \in Answers :
  Land(a, [present |-> TRUE, failed |-> FALSE,
           snapshot |-> [windows |-> ws, capturedAt |-> flights[a].startedAt,
                         number |-> counter[a], epoch |-> epoch]])

\* Mutant: the snapshot is kept as if nothing had happened.
FailQuietly(a) ==
  Land(a, [present |-> TRUE, failed |-> flights[a].saved.number = 0, snapshot |-> flights[a].saved])

\* An error keeps the snapshot that the owner found when it began.
Fail(a) == Land(a, [present |-> TRUE, failed |-> TRUE, snapshot |-> flights[a].saved])

\* waitForFlight, when the context of a caller who joined ends first: a reader's
\* at any time, a preheat's with the runtime.
Leave(c) ==
  /\ c \in Account => ~running
  /\ c \in flights[target[c]].joined
  /\ flights' = [flights EXCEPT ![target[c]].joined = @ \ {c}]
  /\ stage' = [stage EXCEPT ![c] = Answered(c)]
  /\ UNCHANGED <<running, now, config, entries, holds, target, views, counter, epoch, spent>>

\* The end of ClearHistory.
ClearSnapshots ==
  /\ epoch < MaxClears
  /\ epoch' = epoch + 1
  /\ entries' = [a \in Account |-> NoEntry]
  /\ UNCHANGED <<running, now, config, flights, holds, stage, target, views, counter, spent>>

-----------------------------------------------------------------------------
\* Preheats.

\* executePreheat, up to its first refresh: the configuration is taken here.
BeginPreheat(a) ==
  /\ running /\ stage[a] = "idle" /\ counter[a] < MaxFlights
  /\ Share(a)
  /\ stage' = [stage EXCEPT ![a] = "refresh"]
  /\ views' = [views EXCEPT ![a] = NoView(config)]
  /\ UNCHANGED <<running, now, config, entries, holds, target, epoch, spent>>

\* Get: whatever the cache holds by now, the preheat's own answer or not.
Get(a) ==
  LET e == entries[a] IN
  [present |-> e.present, windows |-> e.snapshot.windows, number |-> e.snapshot.number,
   failed |-> e.failed, now |-> now, cfg |-> views[a].cfg,
   stale |-> e.snapshot.number # 0 /\ now - e.snapshot.capturedAt >= StaleAfter]

ReadView(a) ==
  /\ stage[a] = "evaluate"
  /\ views' = [views EXCEPT ![a] = Get(a)]
  /\ stage' = [stage EXCEPT ![a] = "decide"]
  /\ UNCHANGED <<running, now, config, entries, flights, holds, target, counter, epoch, spent>>

\* Mutant: a hold ends on any snapshot, also a remembered one.
HoldAfterAnyView(a) ==
  LET v == views[a] IN
  IF ~v.present THEN holds[a]
  ELSE IF holds[a] = Null /\ AnyLongAtOrBelow(v.windows, v.cfg.longFloor) THEN v.number
  ELSE IF AllLongAbove(v.windows, v.cfg.longFloor) THEN Null
  ELSE holds[a]

\* transitionHold on a readable state: the hold it means to leave.
HoldAfter(a) ==
  LET v == views[a] IN
  IF ~v.present \/ v.failed \/ v.stale THEN holds[a]
  ELSE IF holds[a] = Null /\ AnyLongAtOrBelow(v.windows, v.cfg.longFloor) THEN v.number
  ELSE IF AllLongAbove(v.windows, v.cfg.longFloor) THEN Null
  ELSE holds[a]

Fault == spent.faults < MaxFaults /\ spent' = [spent EXCEPT !.faults = @ + 1]

\* The end of an evaluation and what executePreheat does with the decision.
Act(a, decision) ==
  /\ stage' = [stage EXCEPT ![a] = IF decision \in {"guardrail_hold", "sufficient_window"}
                                   THEN "idle" ELSE "request"]
  /\ views' = [views EXCEPT ![a] = NoView(@.cfg)]
  /\ UNCHANGED <<running, now, config, entries, flights, target, counter, epoch>>

\* The state cannot be read.
EvaluateBlind(a) ==
  /\ stage[a] = "decide"
  /\ Fault
  /\ UNCHANGED holds
  /\ Act(a, "guardrail_hold")

\* The hold changes; a write that reports an error keeps the request back.
EvaluateTransition(a, out) ==
  /\ stage[a] = "decide"
  /\ HoldAfter(a) # holds[a]
  /\ holds' = IF out = "lost" THEN holds ELSE [holds EXCEPT ![a] = HoldAfter(a)]
  /\ IF out = "ok"
     THEN /\ UNCHANGED spent
          /\ Act(a, Decide(views[a], HoldAfter(a) # Null, views[a].cfg))
     ELSE Fault /\ Act(a, "guardrail_hold")

\* The hold stays as it is.
EvaluateSteady(a) ==
  /\ stage[a] = "decide"
  /\ HoldAfter(a) = holds[a]
  /\ UNCHANGED <<holds, spent>>
  /\ Act(a, IF views[a].present THEN Decide(views[a], holds[a] # Null, views[a].cfg)
            ELSE IF holds[a] # Null THEN "guardrail_hold" ELSE "quota_unknown_fail_open")

\* Probe.Execute returns; the snapshot is refreshed again and not evaluated.
RequestReturns(a) ==
  /\ stage[a] = "request"
  /\ Share(a)
  /\ stage' = [stage EXCEPT ![a] = "after"]
  /\ UNCHANGED <<running, now, config, entries, holds, target, views, epoch, spent>>

-----------------------------------------------------------------------------
\* Around them.

Tick ==
  /\ now < MaxTime
  /\ now' = now + 1
  /\ UNCHANGED <<running, config, entries, flights, holds, stage, target, views, counter, epoch, spent>>

\* UpdateSchedule, as far as the quota service sees it.
Configure ==
  /\ config' \in Configs \ {config}
  /\ UNCHANGED <<running, now, entries, flights, holds, stage, target, views, counter, epoch, spent>>

\* Runtime.Stop ends the context of the preheats; what they send from now on
\* fails before it leaves.
Stop ==
  /\ running /\ spent.restarts < MaxRestarts
  /\ running' = FALSE
  /\ UNCHANGED <<now, config, entries, flights, holds, stage, target, views, counter, epoch, spent>>

\* The process ends and another begins: New of the service.
Restart ==
  /\ spent.restarts < MaxRestarts
  /\ spent' = [spent EXCEPT !.restarts = @ + 1]
  /\ entries' = [a \in Account |-> NoEntry]
  /\ flights' = [a \in Account |-> NoFlight]
  /\ stage' = [c \in Caller |-> "idle"]
  /\ views' = [a \in Account |-> NoView(config)]
  /\ running' = TRUE
  /\ UNCHANGED <<now, config, holds, target, counter, epoch>>

Evaluate(a) ==
  \/ EvaluateBlind(a)
  \/ \E out \in WriteOutcomes : EvaluateTransition(a, out)
  \/ EvaluateSteady(a)

Next ==
  \/ \E a \in Account : Succeed(a) \/ Fail(a)
  \/ \E c \in Caller : Leave(c)
  \/ \E c \in Reader : Refresh(c)
  \/ \E a \in Account : BeginPreheat(a) \/ ReadView(a) \/ Evaluate(a) \/ RequestReturns(a)
  \/ ClearSnapshots \/ Tick \/ Configure \/ Stop \/ Restart

Spec == Init /\ [][Next]_vars

\* Goroutines run, and the host answers or fails in the end.
Fairness ==
  \A a \in Account :
    /\ WF_vars(Succeed(a) \/ Fail(a))
    /\ WF_vars(ReadView(a))
    /\ WF_vars(Evaluate(a))
    /\ WF_vars(RequestReturns(a))

FairSpec == Spec /\ Fairness

-----------------------------------------------------------------------------
\* Properties.

\* A snapshot that was in the cache when the operator cleared it can come back
\* (a refresh that began before and fails stores what it remembered), but only
\* under an error, so that no decision takes it for a current one.
ClearedNotTrusted == \A a \in Account :
  LET e == entries[a] IN e.snapshot.number # 0 /\ e.snapshot.epoch < epoch => e.failed

\* A hold ends only by a snapshot of a later refresh than the one that proved
\* it: not by a change of the floor over the same snapshot, nor by a remembered
\* one.  (While the runtime stops a preheat may evaluate what it did not wait for.)
HoldEndsByLaterSnapshot == [][\A a \in Account :
  running /\ holds[a] # Null /\ holds'[a] # holds[a] =>
    holds'[a] = Null /\ views[a].number > holds[a]]_vars

\* While a hold is durable, nothing is sent on what cannot prove recovery: an
\* error, a stale snapshot or one with a long window (decide, transitionHold),
\* whoever refreshed, cleared the cache or moved the floor in between.  This is
\* less than the documents promise: they let a hold block every request
\* (CONTEXT.md, "a persistent block on automatic Preheat Requests"), but decide
\* sends on a fresh snapshot without a long window, and the hold stands.
HoldBlocksUnproved == [][\A a \in Account :
  LET v == views[a] IN
  stage[a] = "decide" /\ holds'[a] # Null /\ (~v.present \/ v.failed \/ v.stale \/ HasLong(v.windows))
    => stage'[a] # "request"]_vars

\* Everybody who asks for a refresh gets an answer; a preheat ends.
RefreshesAnswered == \A c \in Caller : stage[c] # "idle" ~> stage[c] = "idle"

=============================================================================
