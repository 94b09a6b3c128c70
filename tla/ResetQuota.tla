------------------------------ MODULE ResetQuota ------------------------------
(***************************************************************************)
(* Spending a reset credit (internal/app/reset.go): concurrent ResetQuota  *)
(* calls of the management API, the flights that join calls with one       *)
(* idempotency key, the durable audit (internal/store/reset_audit.go), the *)
(* shared quota refresh that a reset reads its credit count from           *)
(* (internal/quota/service.go), Runtime.Stop, crashes and restarts.        *)
(*                                                                         *)
(* A step is what a call does between two points at which another          *)
(* goroutine, the upstream, the disk or a crash may intervene.  Every      *)
(* operation of the audit repository holds its mutex, so it is one step.   *)
(***************************************************************************)
EXTENDS Integers, FiniteSets

CONSTANTS
  Caller,        \* concurrent calls of the management API
  Key,           \* idempotency keys
  Account,       \* Codex accounts
  Null,          \* no caller, no key, no account
  Panel,         \* the owner of a refresh that the operator asked for
  WriteOutcomes, \* how a write of reset-audit.json may end
  MaxCredits,    \* reset credits an account may have at first
  MaxCalls,      \* bound: ResetQuota calls of a behaviour
  MaxRefreshes,  \* bound: refreshes the operator asks for
  MaxFaults,     \* bound: failed reads and writes of the audit
  MaxErasures,   \* bound: deletions of the audit, expiries of a record
  MaxStops       \* bound: crashes and shutdowns

ASSUME ResetAssumption ==
  /\ Null \notin Caller \cup Key \cup Account \cup {Panel}
  /\ Panel \notin Caller
  /\ WriteOutcomes \subseteq {"ok", "lost", "kept"}
  /\ {MaxCredits, MaxCalls, MaxRefreshes, MaxFaults, MaxErasures, MaxStops} \subseteq Nat

VARIABLES
  phase,    \* the runtime: "down", "up", "stopping", "gated", "stopped"
  audit,    \* durable: the record of a key, outcome "none" when there is none
  flights,  \* Runtime.resetFlights: the call that owns a key's flight
  fetches,  \* quota.Service.flights: the refresh under way for an account
  calls,    \* where each ResetQuota call is
  credits,  \* external: the applicable reset credits of an account
  consumes, \* history: consume calls sent with a key
  applied,  \* history: credits that the upstream took for a key
  erased,   \* history: how often the record of a key was deleted
  spent     \* what is spent of the bounds

upstream == <<credits, consumes, applied>>
vars == <<phase, audit, flights, fetches, calls, credits, consumes, applied, erased, spent>>

Outcome == {"pending", "succeeded", "failed", "unknown"}
Record == [outcome : Outcome \cup {"none"}, account : Account \cup {Null}]
Fetch == [owner : Caller \cup {Null, Panel}, answered : BOOLEAN, count : Nat]
Place == {"idle", "lookup", "orphan", "admit", "refresh", "refreshing", "append",
          "conflict", "gate", "consuming", "settle", "finish", "waiting", "reload"}
Result == Outcome \cup {"none", "error"}
Call == [pc : Place, key : Key \cup {Null}, account : Account \cup {Null}, result : Result]

TypeOK ==
  /\ phase \in {"down", "up", "stopping", "gated", "stopped"}
  /\ audit \in [Key -> Record]
  /\ flights \in [Key -> Caller \cup {Null}]
  /\ fetches \in [Account -> Fetch]
  /\ calls \in [Caller -> Call]
  /\ credits \in [Account -> Nat]
  /\ consumes \in [Key -> Nat]
  /\ applied \in [Key -> Nat]
  /\ erased \in [Key -> Nat]
  /\ spent \in [calls : Nat, refreshes : Nat, faults : Nat, erasures : Nat, stops : Nat]

NoRecord == [outcome |-> "none", account |-> Null]
NoCall == [pc |-> "idle", key |-> Null, account |-> Null, result |-> "none"]
NoFetch == [owner |-> Null, answered |-> FALSE, count |-> 0]

Init ==
  /\ phase = "down"
  /\ audit = [k \in Key |-> NoRecord]
  /\ flights = [k \in Key |-> Null]
  /\ fetches = [a \in Account |-> NoFetch]
  /\ calls = [c \in Caller |-> NoCall]
  /\ credits \in [Account -> 0 .. MaxCredits]
  /\ consumes = [k \in Key |-> 0]
  /\ applied = [k \in Key |-> 0]
  /\ erased = [k \in Key |-> 0]
  /\ spent = [calls |-> 0, refreshes |-> 0, faults |-> 0, erasures |-> 0, stops |-> 0]

-----------------------------------------------------------------------------
(***************************************************************************)
(* The audit file.  writeAtomic may fail before the rename ("lost": the    *)
(* old document stays) or after it ("kept": an error, but the new document *)
(* is in place); a read may fail too.                                      *)
(***************************************************************************)
Spend(n) ==
  /\ spent.faults + n <= MaxFaults
  /\ spent' = [spent EXCEPT !.faults = @ + n]

Write(out, records) ==
  /\ Spend(IF out = "ok" THEN 0 ELSE 1)
  /\ audit' = IF out = "lost" THEN audit ELSE records

ReadFails ==
  /\ Spend(1)
  /\ UNCHANGED audit

\* ResetAuditRepository.Replace, of a record that must be there, by the call's
\* own copy of it.
WithRecord(c, outcome) ==
  [audit EXCEPT ![calls[c].key] = [outcome |-> outcome, account |-> calls[c].account]]

HasRecord(k) == audit[k].outcome # "none"

\* Mutant: AppendPending does not look for the key.
AppendableBlindly(k) == k \in Key

\* AppendPending refuses a key that has a record.
Appendable(k) == ~ HasRecord(k)

\* Mutant: a pending record is taken for work that never began, and dropped.
DroppedRecord(r) == IF r.outcome = "pending" THEN NoRecord ELSE r

\* RecoverPending, at startup, of one record.
RecoveredRecord(r) == IF r.outcome = "pending" THEN [r EXCEPT !.outcome = "unknown"] ELSE r

-----------------------------------------------------------------------------
(***************************************************************************)
(* A call leaves with an answer.  "pending" is the answer of a reset that  *)
(* was stopped before the consume call; with it goes the error "outcome    *)
(* unknown", so that is what the client is told.  "error" is every answer  *)
(* that says nothing of an outcome.                                        *)
(***************************************************************************)
Answer(result) == IF result = "pending" THEN "unknown" ELSE result

Goto(c, pc) == calls' = [calls EXCEPT ![c].pc = pc]

GotoWith(c, pc, result) == calls' = [calls EXCEPT ![c].pc = pc, ![c].result = result]

Return(c, result) == GotoWith(c, "idle", Answer(result))

At(c, pc) == calls[c].pc = pc

Stopped == phase \in {"stopping", "gated", "stopped"}

\* The flight of a key, or the busy registry, keeps an account for one reset.
Busy(a) == \E k \in Key : flights[k] # Null /\ calls[flights[k]].account = a

\* Joining the flight of k for account a; another account is a conflict.
JoinFlight(c, k, a) ==
  IF calls[flights[k]].account = a
  THEN calls' = [calls EXCEPT ![c] = [pc |-> "waiting", key |-> k, account |-> a,
                                      result |-> "none"]]
  ELSE calls' = [calls EXCEPT ![c] = [pc |-> "idle", key |-> k, account |-> a,
                                      result |-> "error"]]

\* ResetQuota up to the lookup of a live flight.
Arrive(c, k, a) ==
  /\ phase # "down"
  /\ At(c, "idle")
  /\ spent.calls < MaxCalls
  /\ spent' = [spent EXCEPT !.calls = @ + 1]
  /\ IF flights[k] # Null
     THEN JoinFlight(c, k, a)
     ELSE calls' = [calls EXCEPT ![c] = [pc |-> "lookup", key |-> k, account |-> a,
                                         result |-> "none"]]
  /\ UNCHANGED <<phase, audit, flights, fetches, upstream, erased>>

\* FindByKey: no record, the record of another account, a final one, or a
\* pending one that is taken for an orphan.
FindRecord(c) ==
  LET k == calls[c].key IN
  /\ At(c, "lookup")
  /\ \/ /\ ReadFails
        /\ Return(c, "error")
     \/ /\ ~ HasRecord(k)
        /\ Goto(c, "admit")
        /\ UNCHANGED <<audit, spent>>
     \/ /\ HasRecord(k)
        /\ audit[k].account # calls[c].account
        /\ Return(c, "error")
        /\ UNCHANGED <<audit, spent>>
     \/ /\ HasRecord(k)
        /\ audit[k].account = calls[c].account
        /\ IF audit[k].outcome = "pending" THEN Goto(c, "orphan")
           ELSE Return(c, audit[k].outcome)
        /\ UNCHANGED <<audit, spent>>
  /\ UNCHANGED <<phase, flights, fetches, upstream, erased>>

\* recoverOrphanedReset writes the record it has read, as unknown.  Whether it
\* succeeds or not, the answer is that the outcome is unknown.
RecoverOrphan(c) ==
  LET k == calls[c].key IN
  /\ At(c, "orphan")
  /\ \/ \E out \in WriteOutcomes : HasRecord(k) /\ Write(out, WithRecord(c, "unknown"))
     \/ ReadFails
     \/ ~ HasRecord(k) /\ UNCHANGED <<audit, spent>>
  /\ Return(c, "unknown")
  /\ UNCHANGED <<phase, flights, fetches, upstream, erased>>

\* The account is not found, disabled, unavailable, or busy with a preheat or
\* a probe.
RefuseAccount(c) ==
  /\ At(c, "admit")
  /\ Return(c, "error")
  /\ UNCHANGED <<phase, audit, flights, fetches, upstream, erased, spent>>

\* beginResetFlight, one critical section of Runtime.mu.
BeginFlight(c) ==
  LET k == calls[c].key
      a == calls[c].account
  IN /\ At(c, "admit")
     /\ \/ /\ flights[k] # Null
           /\ JoinFlight(c, k, a)
           /\ UNCHANGED flights
        \/ /\ flights[k] = Null
           /\ Stopped \/ Busy(a)
           /\ Return(c, "error")
           /\ UNCHANGED flights
        \/ /\ flights[k] = Null
           /\ ~ Stopped
           /\ ~ Busy(a)
           /\ flights' = [flights EXCEPT ![k] = c]
           /\ Goto(c, "refresh")
     /\ UNCHANGED <<phase, audit, fetches, upstream, erased, spent>>

-----------------------------------------------------------------------------
(***************************************************************************)
(* quota.Service.Refresh.  The refreshes of one account share a flight, so *)
(* a reset may be given the answer to a question that was asked before it. *)
(* A failed refresh counts as no credits: the reset goes no further.       *)
(***************************************************************************)
OpenFetch(a, owner) ==
  fetches' = [fetches EXCEPT ![a] = [owner |-> owner, answered |-> FALSE, count |-> 0]]

\* The reset opens the flight of its account or joins the one that is there.
StartRefresh(c) ==
  LET a == calls[c].account IN
  /\ At(c, "refresh")
  /\ IF fetches[a].owner = Null THEN OpenFetch(a, c) ELSE UNCHANGED fetches
  /\ Goto(c, "refreshing")
  /\ UNCHANGED <<phase, audit, flights, upstream, erased, spent>>

\* RefreshQuotas of the management API does not ask the busy registry.
PanelRefresh(a) ==
  /\ phase \in {"up", "stopping", "gated"}
  /\ fetches[a].owner = Null
  /\ spent.refreshes < MaxRefreshes
  /\ spent' = [spent EXCEPT !.refreshes = @ + 1]
  /\ OpenFetch(a, Panel)
  /\ UNCHANGED <<phase, audit, flights, calls, upstream, erased>>

\* The upstream answers with the credits of this instant, or fails.
AnswerFetch(a) ==
  /\ fetches[a].owner # Null
  /\ ~ fetches[a].answered
  /\ \E count \in {0, credits[a]} :
       fetches' = [fetches EXCEPT ![a].answered = TRUE, ![a].count = count]
  /\ UNCHANGED <<phase, audit, flights, calls, upstream, erased, spent>>

\* What a refresh is followed by: after the consume call, by settling the
\* record whatever the refresh says.
Refreshed(call, count) ==
  CASE call.result # "none" -> [call EXCEPT !.pc = "settle"]
    [] call.result = "none" /\ count > 0 -> [call EXCEPT !.pc = "append"]
    [] OTHER -> [call EXCEPT !.pc = "finish", !.result = "error"]

\* The flight ends and all who share it get its answer.
DeliverFetch(a) ==
  /\ fetches[a].answered
  /\ fetches' = [fetches EXCEPT ![a] = NoFetch]
  /\ calls' = [c \in Caller |->
                 IF At(c, "refreshing") /\ calls[c].account = a
                 THEN Refreshed(calls[c], fetches[a].count)
                 ELSE calls[c]]
  /\ UNCHANGED <<phase, audit, flights, upstream, erased, spent>>

\* waitForFlight under the cancelled context of a reset that shares a flight.
LeaveFetch(c) ==
  /\ At(c, "refreshing")
  /\ Stopped
  /\ fetches[calls[c].account].owner # c
  /\ calls' = [calls EXCEPT ![c] = Refreshed(@, 0)]
  /\ UNCHANGED <<phase, audit, flights, fetches, upstream, erased, spent>>

-----------------------------------------------------------------------------
(***************************************************************************)
(* The commit point and the consume call.                                  *)
(***************************************************************************)
AppendPending(c) ==
  LET k == calls[c].key IN
  /\ At(c, "append")
  /\ \/ /\ ReadFails
        /\ GotoWith(c, "finish", "error")
     \/ /\ ~ Appendable(k)
        /\ Goto(c, "conflict")
        /\ UNCHANGED <<audit, spent>>
     \/ \E out \in WriteOutcomes :
          /\ Appendable(k)
          /\ Write(out, WithRecord(c, "pending"))
          /\ IF out = "ok" THEN Goto(c, "gate") ELSE GotoWith(c, "finish", "error")
  /\ UNCHANGED <<phase, flights, fetches, upstream, erased>>

\* handlePendingAppendConflict: another call has used the key since FindRecord.
ResolveConflict(c) ==
  LET r == audit[calls[c].key] IN
  /\ At(c, "conflict")
  /\ \/ /\ ReadFails
        /\ GotoWith(c, "finish", "error")
     \/ /\ r.outcome \in {"succeeded", "failed", "unknown"}
        /\ r.account = calls[c].account
        /\ GotoWith(c, "finish", r.outcome)
        /\ UNCHANGED <<audit, spent>>
     \/ /\ \/ r.outcome \in {"none", "pending"}
           \/ r.account # calls[c].account
        /\ GotoWith(c, "finish", "error")
        /\ UNCHANGED <<audit, spent>>
  /\ UNCHANGED <<phase, flights, fetches, upstream, erased>>

\* resetConsume under the read lock of resetGate: stopped and the flight's
\* context are looked at once, before the call.
MayConsume == ~ Stopped

EnterConsume(c) ==
  /\ At(c, "gate")
  /\ IF MayConsume THEN Goto(c, "consuming") ELSE GotoWith(c, "finish", "pending")
  /\ UNCHANGED <<phase, audit, flights, fetches, upstream, erased, spent>>

\* Mutant: the category of the reply is recorded as the outcome.
ReplyCategory(reply) == reply

\* Mutant: whatever is not a success is a failure.
FailedUnlessOk(reply) == IF reply = "ok" THEN "succeeded" ELSE "failed"

\* finalResetOutcome of a reply: 2xx, another status, or no status at all.
FinalResetOutcome(reply) ==
  CASE reply = "ok" -> "succeeded"
    [] reply = "rejected" -> "failed"
    [] reply \in {"lost", "unsent"} -> "unknown"

\* Mutant: the record is settled at once.
SettleAtOnce == "settle"

\* The quota is refreshed again before the record is settled.
AfterConsume == "refresh"

\* quota.Service.Reset.  A call whose answer is lost may have taken a credit;
\* without a credential, or once stopped, nothing is sent at all.
ConsumeReturns(c) ==
  LET k == calls[c].key
      a == calls[c].account
  IN /\ At(c, "consuming")
     /\ \E reply \in {"ok", "rejected", "lost", "unsent"}, taken \in {0, 1} :
          /\ taken <= credits[a]
          /\ reply = "ok" => taken = 1
          /\ reply \in {"rejected", "unsent"} => taken = 0
          /\ credits' = [credits EXCEPT ![a] = @ - taken]
          /\ applied' = [applied EXCEPT ![k] = @ + taken]
          /\ consumes' = IF reply = "unsent" THEN consumes ELSE [consumes EXCEPT ![k] = @ + 1]
          /\ GotoWith(c, AfterConsume, FinalResetOutcome(reply))
     /\ UNCHANGED <<phase, audit, flights, fetches, erased, spent>>

\* The final Replace of the audit.
Settle(c) ==
  LET k == calls[c].key IN
  /\ At(c, "settle")
  /\ \/ \E out \in WriteOutcomes :
          /\ HasRecord(k)
          /\ Write(out, WithRecord(c, calls[c].result))
          /\ IF out = "ok" THEN Goto(c, "finish") ELSE GotoWith(c, "finish", "unknown")
     \/ /\ ReadFails
        /\ GotoWith(c, "finish", "unknown")
     \/ /\ ~ HasRecord(k)
        /\ GotoWith(c, "finish", "unknown")
        /\ UNCHANGED <<audit, spent>>
  /\ UNCHANGED <<phase, flights, fetches, upstream, erased>>

\* Mutant: a reset that was stopped before its consume call wakes nobody.
WokenUnlessStopped(call, result) ==
  IF result = "pending" THEN call ELSE [call EXCEPT !.pc = "reload", !.result = result]

\* finishResetFlight wakes the calls that wait for the flight, with its answer
\* if it stopped before the consume call.
Woken(call, result) ==
  IF result = "pending" THEN [call EXCEPT !.pc = "idle", !.result = "unknown"]
  ELSE [call EXCEPT !.pc = "reload", !.result = result]

\* Mutant: the flight of a stopped reset stays registered.
UnregisteredUnlessStopped(k, result) ==
  IF result = "pending" THEN flights ELSE [flights EXCEPT ![k] = Null]

Unregistered(k, result) == [flights EXCEPT ![k] = Null]

Waits(c, k) == At(c, "waiting") /\ calls[c].key = k

FinishFlight(c) ==
  LET k == calls[c].key
      result == calls[c].result
  IN /\ At(c, "finish")
     /\ flights' = Unregistered(k, result)
     /\ calls' = [d \in Caller |->
                    IF d = c THEN [calls[c] EXCEPT !.pc = "idle", !.result = Answer(result)]
                    ELSE IF Waits(d, k) THEN Woken(calls[d], result)
                    ELSE calls[d]]
     /\ UNCHANGED <<phase, audit, fetches, upstream, erased, spent>>

\* waitResetFlight once the flight is done: an error of the owner stands, else
\* the final record is read again.
ReloadRecord(c) ==
  LET r == audit[calls[c].key] IN
  /\ At(c, "reload")
  /\ \/ /\ ReadFails
        /\ Return(c, "error")
     \/ /\ IF calls[c].result \in {"succeeded", "failed"} /\ r.outcome \notin {"none", "pending"}
           THEN Return(c, r.outcome)
           ELSE Return(c, calls[c].result)
        /\ UNCHANGED <<audit, spent>>
  /\ UNCHANGED <<phase, flights, fetches, upstream, erased>>

-----------------------------------------------------------------------------
(***************************************************************************)
(* The runtime: Start recovers pending records before any call is let in,  *)
(* Stop fences off the consume call and waits for the flights.             *)
(***************************************************************************)
Start ==
  /\ \/ phase = "down"
     \/ phase = "stopped" /\ \A c \in Caller : At(c, "idle")
  /\ phase' = "up"
  /\ \/ ReadFails
     \/ \E out \in WriteOutcomes : Write(out, [k \in Key |-> RecoveredRecord(audit[k])])
  /\ UNCHANGED <<flights, fetches, calls, upstream, erased>>

BeginStop ==
  /\ phase = "up"
  /\ spent.stops < MaxStops
  /\ spent' = [spent EXCEPT !.stops = @ + 1]
  /\ phase' = "stopping"
  /\ UNCHANGED <<audit, flights, fetches, calls, upstream, erased>>

\* Mutant: resetConsume lets go of the gate before the call.
GateFree == FALSE

\* A call in resetConsume holds the read side of resetGate.
GateHeld == \E c \in Caller : At(c, "consuming")

PassGate ==
  /\ phase = "stopping"
  /\ ~ GateHeld
  /\ phase' = "gated"
  /\ UNCHANGED <<audit, flights, fetches, calls, upstream, erased, spent>>

\* The wait group counts the reset flights and the workers of RefreshQuotas.
StopReturns ==
  /\ phase = "gated"
  /\ \A k \in Key : flights[k] = Null
  /\ \A a \in Account : fetches[a].owner = Null
  /\ phase' = "stopped"
  /\ UNCHANGED <<audit, flights, fetches, calls, upstream, erased, spent>>

Crash ==
  /\ phase # "down"
  /\ spent.stops < MaxStops
  /\ spent' = [spent EXCEPT !.stops = @ + 1]
  /\ phase' = "down"
  /\ flights' = [k \in Key |-> Null]
  /\ fetches' = [a \in Account |-> NoFetch]
  /\ calls' = [c \in Caller |-> NoCall]
  /\ UNCHANGED <<audit, upstream, erased>>

EraseRecords(keys) ==
  erased' = [k \in Key |-> IF k \in keys /\ HasRecord(k) THEN erased[k] + 1 ELSE erased[k]]

\* ClearResetAudit, on the operator's word, whatever is under way.
ClearAudit ==
  /\ phase # "down"
  /\ spent.erasures < MaxErasures
  /\ \E out \in WriteOutcomes :
       /\ audit' = IF out = "lost" THEN audit ELSE [k \in Key |-> NoRecord]
       /\ IF out = "lost" THEN UNCHANGED erased ELSE EraseRecords(Key)
       /\ out # "ok" => spent.faults < MaxFaults
       /\ spent' = [spent EXCEPT !.erasures = @ + 1,
                                 !.faults = IF out = "ok" THEN @ ELSE @ + 1]
  /\ UNCHANGED <<phase, flights, fetches, calls, upstream>>

\* loadLocked drops a record after a year; no call lasts that long.
ExpireRecord(k) ==
  /\ phase # "down"
  /\ HasRecord(k)
  /\ \A c \in Caller : At(c, "idle")
  /\ spent.erasures < MaxErasures
  /\ spent' = [spent EXCEPT !.erasures = @ + 1]
  /\ audit' = [audit EXCEPT ![k] = NoRecord]
  /\ EraseRecords({k})
  /\ UNCHANGED <<phase, flights, fetches, calls, upstream>>

-----------------------------------------------------------------------------
CallStep(c) ==
  \/ FindRecord(c) \/ RecoverOrphan(c) \/ RefuseAccount(c) \/ BeginFlight(c)
  \/ StartRefresh(c) \/ LeaveFetch(c)
  \/ AppendPending(c) \/ ResolveConflict(c) \/ EnterConsume(c) \/ ConsumeReturns(c)
  \/ Settle(c) \/ FinishFlight(c) \/ ReloadRecord(c)

FetchStep(a) == AnswerFetch(a) \/ DeliverFetch(a)

Next ==
  \/ \E c \in Caller : CallStep(c)
  \/ \E c \in Caller, k \in Key, a \in Account : Arrive(c, k, a)
  \/ \E a \in Account : FetchStep(a) \/ PanelRefresh(a)
  \/ \E k \in Key : ExpireRecord(k)
  \/ Start \/ BeginStop \/ PassGate \/ StopReturns \/ Crash \/ ClearAudit

Spec == Init /\ [][Next]_vars

Fairness ==
  /\ \A c \in Caller : WF_vars(CallStep(c))
  /\ \A a \in Account : WF_vars(FetchStep(a))
  /\ WF_vars(PassGate)
  /\ WF_vars(StopReturns)

FairSpec == Spec /\ Fairness

-----------------------------------------------------------------------------
(***************************************************************************)
(* Properties                                                              *)
(***************************************************************************)
\* A key sends one consume call, and one more for every time the evidence of
\* its use was deleted: not more through retries, joined calls, crashes,
\* restarts, or writes that fail.
ConsumesBounded == \A k \in Key : consumes[k] <= erased[k] + 1

\* What the record or a caller says of a reset is what the upstream did: after
\* "succeeded" a credit was taken with this key, after "failed" none was.
Truthful(k, outcome) ==
  /\ outcome = "succeeded" => applied[k] > 0
  /\ outcome = "failed" /\ erased[k] = 0 => applied[k] = 0

OutcomeTruthful ==
  /\ \A k \in Key : Truthful(k, audit[k].outcome)
  /\ \A c \in Caller : calls[c].key # Null => Truthful(calls[c].key, calls[c].result)

\* No consume call is sent for an account without credits: what a reset was
\* told before its call still holds at the call, although the operator's
\* refreshes share their answers with it and other resets spend.
ConsumesAvailableCredit ==
  [][\A k \in Key : consumes'[k] # consumes[k] =>
       \E c \in Caller : calls[c].key = k /\ At(c, "consuming")
                          /\ credits[calls[c].account] > 0]_vars

\* Once Stop has passed its gate nothing is sent, although flights go on until
\* Stop has waited for them.
NoConsumeAfterGate == [][consumes' # consumes => phase \notin {"gated", "stopped"}]_vars

\* The runtime keeps the promise of CreditOnce: a record takes the key from the
\* free ones, and the intention lasts until the consume call is over.
Free == {k \in Key : ~ HasRecord(k)}

Committed == {"gate", "consuming"}
Intended == {k \in Key : flights[k] # Null /\ calls[flights[k]].pc \in Committed}

Promise == INSTANCE CreditOnce WITH free <- Free, intended <- Intended

KeepsPromise == Promise!Spec

\* Every call is answered: no call waits for a flight that is gone, and no
\* flight waits for a refresh that is nobody's.
CallsAnswered == \A c \in Caller : calls[c].pc # "idle" ~> calls[c].pc = "idle"

\* Stop returns, whatever was under way when it began.
StopCompletes == phase = "stopping" ~> phase \in {"stopped", "down"}

\* A known outcome of a reset stays until it is deleted.
OutcomeStands ==
  [][\A k \in Key : audit[k].outcome \in {"succeeded", "failed"} =>
       audit'[k] = audit[k] \/ erased'[k] # erased[k]]_vars

=============================================================================
