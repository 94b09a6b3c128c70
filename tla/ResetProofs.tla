----------------------------- MODULE ResetProofs -----------------------------
(***************************************************************************)
(* Theorems of ResetQuota for every number of callers, keys, accounts and  *)
(* credits, every outcome of the writes and every bound.                   *)
(***************************************************************************)
EXTENDS ResetQuota, TLAPS

\* The places of a call that owns the flight of its key.
Owning == {"refresh", "refreshing", "append", "conflict", "gate", "consuming", "settle",
           "finish"}

Fits(call) ==
  /\ call.pc # "idle" => call.key \in Key /\ call.account \in Account
  /\ call.pc \in {"lookup", "admit", "refresh", "refreshing"} =>
       call.result \in Outcome \cup {"none"}
  /\ call.pc = "settle" => call.result \in Outcome

\* A step lets no call past the commit point.
NoNewIntent ==
  \A c \in Caller : calls'[c].pc \in Committed => calls[c].pc \in Committed

CallsFit == \A c \in Caller : Fits(calls[c])

\* Flights and the calls that own them point at each other.
OwnersAgree ==
  /\ \A k \in Key : flights[k] # Null =>
       calls[flights[k]].key = k /\ calls[flights[k]].pc \in Owning
  /\ \A c \in Caller : calls[c].pc \in Owning => flights[calls[c].key] = c

Inv == TypeOK /\ CallsFit /\ OwnersAgree

(***************************************************************************)
(* Moves of one call.                                                      *)
(***************************************************************************)
LEMMA GotoIsMove ==
  ASSUME TypeOK, NEW c \in Caller, NEW pc, Goto(c, pc)
  PROVE  GotoWith(c, pc, calls[c].result)
<1>1. calls[c] \in Call
  BY DEF TypeOK
<1>2. [calls[c] EXCEPT !.pc = pc] = [calls[c] EXCEPT !.pc = pc, !.result = calls[c].result]
  BY <1>1 DEF Call
<1> QED
  BY <1>2 DEF Goto, GotoWith, TypeOK

\* What a move leaves as it was.
LEMMA MoveOnly ==
  ASSUME TypeOK, NEW c \in Caller, NEW pc \in Place, NEW result \in Result,
         GotoWith(c, pc, result)
  PROVE  /\ calls' \in [Caller -> Call]
         /\ calls'[c].pc = pc
         /\ calls'[c].result = result
         /\ calls'[c].key = calls[c].key
         /\ calls'[c].account = calls[c].account
         /\ \A d \in Caller : d # c => calls'[d] = calls[d]
<1>1. calls[c] \in Call
  BY DEF TypeOK
<1>2. calls' = [calls EXCEPT ![c] = [calls[c] EXCEPT !.pc = pc, !.result = result]]
  BY DEF GotoWith, TypeOK
<1>3. [calls[c] EXCEPT !.pc = pc, !.result = result] \in Call
  BY <1>1 DEF Call
<1> QED
  BY <1>1, <1>2, <1>3 DEF TypeOK, Call

\* A call that moves without taking or ending a flight.
LEMMA MoveKeeps ==
  ASSUME Inv, NEW c \in Caller, NEW pc \in Place, NEW result \in Result,
         GotoWith(c, pc, result),
         flights' = flights,
         pc \in Owning <=> calls[c].pc \in Owning,
         pc # "idle" => calls[c].pc # "idle",
         pc \in {"lookup", "admit", "refresh", "refreshing"} => result \in Outcome \cup {"none"},
         pc = "settle" => result \in Outcome
  PROVE  /\ calls' \in [Caller -> Call] /\ CallsFit' /\ OwnersAgree'
         /\ (pc \in Committed => calls[c].pc \in Committed) => NoNewIntent
<1>1. /\ calls' \in [Caller -> Call]
      /\ calls'[c].pc = pc
      /\ calls'[c].result = result
      /\ calls'[c].key = calls[c].key
      /\ calls'[c].account = calls[c].account
      /\ \A d \in Caller : d # c => calls'[d] = calls[d]
  BY MoveOnly DEF Inv
<1>2. CallsFit'
  <2> SUFFICES ASSUME NEW d \in Caller PROVE Fits(calls'[d])
    BY DEF CallsFit
  <2> QED
    BY <1>1 DEF Inv, CallsFit, Fits
<1>3. ASSUME NEW k \in Key, flights'[k] # Null
      PROVE  calls'[flights'[k]].key = k /\ calls'[flights'[k]].pc \in Owning
  <2>1. flights[k] \in Caller
    BY <1>3 DEF Inv, TypeOK
  <2> QED
    BY <1>1, <1>3, <2>1 DEF Inv, OwnersAgree
<1>4. ASSUME NEW d \in Caller, calls'[d].pc \in Owning
      PROVE  flights'[calls'[d].key] = d
  BY <1>1, <1>4 DEF Inv, OwnersAgree
<1>5. (pc \in Committed => calls[c].pc \in Committed) => NoNewIntent
  BY <1>1 DEF NoNewIntent
<1> QED
  BY <1>1, <1>2, <1>3, <1>4, <1>5 DEF OwnersAgree

\* A call that is replaced while it owns no flight, before and after.
LEMMA ReplaceKeeps ==
  ASSUME Inv, NEW c \in Caller, NEW call \in Call, calls' = [calls EXCEPT ![c] = call],
         flights' = flights, calls[c].pc \notin Owning, call.pc \notin Owning, Fits(call)
  PROVE  calls' \in [Caller -> Call] /\ CallsFit' /\ OwnersAgree' /\ NoNewIntent
<1>1. calls'[c] = call /\ \A d \in Caller : d # c => calls'[d] = calls[d]
  BY DEF Inv, TypeOK
<1>2. calls' \in [Caller -> Call]
  BY DEF Inv, TypeOK
<1>3. CallsFit'
  <2> SUFFICES ASSUME NEW d \in Caller PROVE Fits(calls'[d])
    BY DEF CallsFit
  <2> QED
    BY <1>1 DEF Inv, CallsFit
<1>4. ASSUME NEW k \in Key, flights'[k] # Null
      PROVE  calls'[flights'[k]].key = k /\ calls'[flights'[k]].pc \in Owning
  <2>1. flights[k] \in Caller
    BY <1>4 DEF Inv, TypeOK
  <2>2. flights[k] # c
    BY <1>4 DEF Inv, OwnersAgree
  <2> QED
    BY <1>1, <1>4, <2>1, <2>2 DEF Inv, OwnersAgree
<1>5. ASSUME NEW d \in Caller, calls'[d].pc \in Owning
      PROVE  flights'[calls'[d].key] = d
  BY <1>1, <1>5 DEF Inv, OwnersAgree
<1>6. NoNewIntent
  BY <1>1 DEF NoNewIntent, Committed, Owning
<1> QED
  BY <1>2, <1>3, <1>4, <1>5, <1>6 DEF OwnersAgree

(***************************************************************************)
(* The audit and its bounds.                                               *)
(***************************************************************************)
SpentType == [calls : Nat, refreshes : Nat, faults : Nat, erasures : Nat, stops : Nat]

LEMMA WriteType ==
  ASSUME TypeOK, NEW out, NEW records \in [Key -> Record], Write(out, records)
  PROVE  audit' \in [Key -> Record] /\ spent' \in SpentType
  BY DEF TypeOK, Write, Spend, SpentType

LEMMA ReadFailsType ==
  ASSUME TypeOK, ReadFails
  PROVE  audit' \in [Key -> Record] /\ spent' \in SpentType
  BY DEF TypeOK, ReadFails, Spend, SpentType

LEMMA WithRecordType ==
  ASSUME TypeOK, NEW c \in Caller, NEW outcome \in Outcome
  PROVE  WithRecord(c, outcome) \in [Key -> Record]
<1>1. [outcome |-> outcome, account |-> calls[c].account] \in Record
  BY DEF TypeOK, Call, Record
<1> QED
  BY <1>1 DEF TypeOK, WithRecord

LEMMA AnswerType == \A result \in Result : Answer(result) \in Result
  BY DEF Answer, Result, Outcome

\* A step leaves the bounds and every variable but the calls typed.
Quiet == UNCHANGED <<phase, fetches, upstream, erased>>

LEMMA QuietStep ==
  ASSUME Inv, Quiet, audit' \in [Key -> Record], spent' \in SpentType,
         flights' \in [Key -> Caller \cup {Null}],
         calls' \in [Caller -> Call], CallsFit', OwnersAgree'
  PROVE  Inv'
  BY DEF Inv, TypeOK, Quiet, upstream, SpentType

LEMMA OldAudit ==
  ASSUME Inv
  PROVE  audit \in [Key -> Record] /\ spent \in SpentType
  BY DEF Inv, TypeOK, SpentType

\* A joined flight leaves the call waiting, or answered with an error.
LEMMA JoinKeeps ==
  ASSUME Inv, NEW c \in Caller, NEW k \in Key, NEW a \in Account, JoinFlight(c, k, a),
         flights' = flights, calls[c].pc \notin Owning
  PROVE  calls' \in [Caller -> Call] /\ CallsFit' /\ OwnersAgree' /\ NoNewIntent
<1> DEFINE waiting == [pc |-> "waiting", key |-> k, account |-> a, result |-> "none"]
           refused == [pc |-> "idle", key |-> k, account |-> a, result |-> "error"]
<1>1. waiting \in Call /\ Fits(waiting) /\ waiting.pc \notin Owning
  BY DEF Call, Place, Result, Fits, Owning
<1>2. refused \in Call /\ Fits(refused) /\ refused.pc \notin Owning
  BY DEF Call, Place, Result, Fits, Owning
<1>3. calls' = [calls EXCEPT ![c] = waiting] \/ calls' = [calls EXCEPT ![c] = refused]
  BY DEF JoinFlight
<1> HIDE DEF waiting, refused
<1> QED
  BY <1>1, <1>2, <1>3, ReplaceKeeps

LEMMA ArriveInv ==
  ASSUME Inv, NEW c \in Caller, NEW k \in Key, NEW a \in Account, Arrive(c, k, a)
  PROVE  Inv' /\ NoNewIntent
<1> DEFINE lookup == [pc |-> "lookup", key |-> k, account |-> a, result |-> "none"]
<1>1. lookup \in Call /\ Fits(lookup) /\ lookup.pc \notin Owning
  BY DEF Call, Place, Result, Fits, Owning
<1>2. calls[c].pc \notin Owning
  BY DEF Arrive, At, Owning
<1>3. JoinFlight(c, k, a) \/ calls' = [calls EXCEPT ![c] = lookup]
  BY DEF Arrive
<1>4. flights' = flights
  BY DEF Arrive
<1> HIDE DEF lookup
<1>5. calls' \in [Caller -> Call] /\ CallsFit' /\ OwnersAgree' /\ NoNewIntent
  BY <1>1, <1>2, <1>3, <1>4, ReplaceKeeps, JoinKeeps
<1>6. spent' \in SpentType
  BY DEF Arrive, Inv, TypeOK, SpentType
<1>7. Quiet /\ audit' = audit
  BY DEF Arrive, Quiet
<1> QED
  BY <1>4, <1>5, <1>6, <1>7, QuietStep, OldAudit DEF Inv, TypeOK

LEMMA FindRecordInv ==
  ASSUME Inv, NEW c \in Caller, FindRecord(c)
  PROVE  Inv' /\ NoNewIntent
<1>1. /\ Quiet /\ flights' = flights /\ calls[c].pc = "lookup"
  BY DEF FindRecord, Quiet, At
<1>2. audit' \in [Key -> Record] /\ spent' \in SpentType
  BY ReadFailsType, OldAudit DEF FindRecord, Inv
<1>3. calls[c].key \in Key /\ calls[c].result \in Outcome \cup {"none"}
  BY <1>1 DEF Inv, CallsFit, Fits
<1>4. audit[calls[c].key].outcome \in Result
  BY <1>3 DEF Inv, TypeOK, Record, Result
<1>5. \E pc \in {"idle", "admit", "orphan"}, result \in Result :
        GotoWith(c, pc, result) /\ (pc = "admit" => result \in Outcome \cup {"none"})
  <2>1. "error" \in Result
    BY DEF Result
  <2>2. CASE Return(c, "error")
    BY <2>1, <2>2, AnswerType DEF Return
  <2>3. CASE Goto(c, "admit")
    BY <1>3, <2>3, GotoIsMove DEF Inv, Result
  <2>4. CASE Goto(c, "orphan")
    BY <1>3, <2>4, GotoIsMove DEF Inv, Result
  <2>5. CASE Return(c, audit[calls[c].key].outcome)
    BY <1>4, <2>5, AnswerType DEF Return
  <2> QED
    BY <2>2, <2>3, <2>4, <2>5 DEF FindRecord
<1>6. calls' \in [Caller -> Call] /\ CallsFit' /\ OwnersAgree' /\ NoNewIntent
  BY <1>1, <1>5, MoveKeeps DEF Owning, Place, Committed
<1> QED
  BY <1>1, <1>2, <1>6, QuietStep DEF Inv, TypeOK

LEMMA RecoverOrphanInv ==
  ASSUME Inv, NEW c \in Caller, RecoverOrphan(c)
  PROVE  Inv' /\ NoNewIntent
<1>1. /\ Quiet /\ flights' = flights /\ calls[c].pc = "orphan"
      /\ GotoWith(c, "idle", Answer("unknown"))
  BY DEF RecoverOrphan, Quiet, At, Return
<1>2. WithRecord(c, "unknown") \in [Key -> Record]
  BY WithRecordType DEF Inv, Outcome
<1>3. audit' \in [Key -> Record] /\ spent' \in SpentType
  BY <1>2, ReadFailsType, WriteType, OldAudit DEF RecoverOrphan, Inv
<1>4. Answer("unknown") \in Result
  BY DEF Answer, Result, Outcome
<1>5. calls' \in [Caller -> Call] /\ CallsFit' /\ OwnersAgree' /\ NoNewIntent
  BY <1>1, <1>4, MoveKeeps DEF Owning, Place, Committed
<1> QED
  BY <1>1, <1>3, <1>5, QuietStep DEF Inv, TypeOK

LEMMA RefuseAccountInv ==
  ASSUME Inv, NEW c \in Caller, RefuseAccount(c)
  PROVE  Inv' /\ NoNewIntent
<1>1. /\ Quiet /\ flights' = flights /\ calls[c].pc = "admit"
      /\ audit' = audit /\ spent' = spent
      /\ GotoWith(c, "idle", Answer("error"))
  BY DEF RefuseAccount, Quiet, At, Return
<1>2. Answer("error") \in Result
  BY DEF Answer, Result
<1>3. calls' \in [Caller -> Call] /\ CallsFit' /\ OwnersAgree' /\ NoNewIntent
  BY <1>1, <1>2, MoveKeeps DEF Owning, Place, Committed
<1> QED
  BY <1>1, <1>3, QuietStep, OldAudit DEF Inv, TypeOK

LEMMA BeginFlightInv ==
  ASSUME Inv, NEW c \in Caller, BeginFlight(c)
  PROVE  Inv' /\ NoNewIntent
<1> DEFINE k == calls[c].key
           a == calls[c].account
<1>1. Quiet /\ audit' = audit /\ spent' = spent /\ calls[c].pc = "admit"
  BY DEF BeginFlight, Quiet, At
<1>2. k \in Key /\ a \in Account /\ calls[c].result \in Outcome \cup {"none"}
  BY <1>1 DEF Inv, CallsFit, Fits
<1>3. CASE flights' = flights /\ JoinFlight(c, k, a)
  BY <1>1, <1>2, <1>3, JoinKeeps, QuietStep, OldAudit DEF Owning, Inv, TypeOK
<1>4. CASE flights' = flights /\ Return(c, "error")
  <2>1. Answer("error") \in Result /\ GotoWith(c, "idle", Answer("error"))
    BY <1>4 DEF Answer, Result, Return
  <2>2. calls' \in [Caller -> Call] /\ CallsFit' /\ OwnersAgree' /\ NoNewIntent
    BY <1>1, <1>4, <2>1, MoveKeeps DEF Owning, Place, Committed
  <2> QED
    BY <1>1, <1>4, <2>2, QuietStep, OldAudit DEF Inv, TypeOK
<1>5. CASE /\ flights[k] = Null
           /\ flights' = [flights EXCEPT ![k] = c]
           /\ Goto(c, "refresh")
  <2>1. GotoWith(c, "refresh", calls[c].result) /\ calls[c].result \in Result
    BY <1>2, <1>5, GotoIsMove DEF Inv, Result
  <2>2. /\ calls' \in [Caller -> Call]
        /\ calls'[c].pc = "refresh"
        /\ calls'[c].result = calls[c].result
        /\ calls'[c].key = k
        /\ calls'[c].account = a
        /\ \A d \in Caller : d # c => calls'[d] = calls[d]
    BY <2>1, MoveOnly DEF Inv, Place
  <2>3. CallsFit'
    <3> SUFFICES ASSUME NEW d \in Caller PROVE Fits(calls'[d])
      BY DEF CallsFit
    <3> QED
      BY <1>2, <2>2 DEF Inv, CallsFit, Fits
  <2>4. /\ flights' \in [Key -> Caller \cup {Null}]
        /\ flights'[k] = c
        /\ \A j \in Key : j # k => flights'[j] = flights[j]
    BY <1>2, <1>5 DEF Inv, TypeOK
  <2>5. ASSUME NEW j \in Key, flights'[j] # Null
        PROVE  calls'[flights'[j]].key = j /\ calls'[flights'[j]].pc \in Owning
    <3>1. CASE j = k
      BY <2>2, <2>4, <3>1 DEF Owning
    <3>2. CASE j # k
      <4>1. flights[j] \in Caller /\ flights[j] # c
        BY <1>1, <2>4, <2>5, <3>2 DEF Inv, OwnersAgree, TypeOK, Owning
      <4> QED
        BY <2>2, <2>4, <2>5, <3>2, <4>1 DEF Inv, OwnersAgree
    <3> QED
      BY <3>1, <3>2
  <2>6. ASSUME NEW d \in Caller, calls'[d].pc \in Owning
        PROVE  flights'[calls'[d].key] = d
    <3>1. CASE d = c
      BY <2>2, <2>4, <3>1
    <3>2. CASE d # c
      <4>1. calls[d].pc \in Owning /\ calls'[d] = calls[d]
        BY <2>2, <2>6, <3>2
      <4>2. calls[d].key \in Key /\ flights[calls[d].key] = d
        BY <4>1 DEF Inv, OwnersAgree, CallsFit, Fits, Owning
      <4>3. d # Null
        BY ResetAssumption
      <4>4. calls[d].key # k
        BY <1>5, <4>2, <4>3
      <4> QED
        BY <2>4, <4>1, <4>2, <4>4
    <3> QED
      BY <3>1, <3>2
  <2>7. NoNewIntent
    BY <2>2 DEF NoNewIntent, Committed
  <2> QED
    BY <1>1, <2>2, <2>3, <2>4, <2>5, <2>6, <2>7, QuietStep, OldAudit DEF OwnersAgree
<1> QED
  BY <1>3, <1>4, <1>5 DEF BeginFlight

LEMMA OpenFetchType ==
  ASSUME TypeOK, NEW a \in Account, NEW owner \in Caller \cup {Panel}, OpenFetch(a, owner)
  PROVE  fetches' \in [Account -> Fetch]
<1>1. [owner |-> owner, answered |-> FALSE, count |-> 0] \in Fetch
  BY DEF Fetch
<1> QED
  BY <1>1 DEF OpenFetch, TypeOK

LEMMA StartRefreshInv ==
  ASSUME Inv, NEW c \in Caller, StartRefresh(c)
  PROVE  Inv' /\ NoNewIntent
<1>1. /\ flights' = flights /\ calls[c].pc = "refresh" /\ Goto(c, "refreshing")
      /\ UNCHANGED <<phase, audit, upstream, erased, spent>>
  BY DEF StartRefresh, At
<1>2. calls[c].account \in Account /\ calls[c].result \in Outcome \cup {"none"}
  BY <1>1 DEF Inv, CallsFit, Fits
<1>3. fetches' \in [Account -> Fetch]
  BY <1>2, OpenFetchType DEF StartRefresh, Inv, TypeOK
<1>4. calls' \in [Caller -> Call] /\ CallsFit' /\ OwnersAgree' /\ NoNewIntent
  BY <1>1, <1>2, GotoIsMove, MoveKeeps DEF Owning, Place, Committed, Result, Inv
<1> QED
  BY <1>1, <1>3, <1>4 DEF Inv, TypeOK, upstream

LEMMA PanelRefreshInv ==
  ASSUME Inv, NEW a \in Account, PanelRefresh(a)
  PROVE  Inv'
<1>1. fetches' \in [Account -> Fetch]
  BY OpenFetchType DEF PanelRefresh, Inv
<1>2. spent' \in SpentType
  BY DEF PanelRefresh, Inv, TypeOK, SpentType
<1>3. UNCHANGED <<phase, audit, flights, calls, upstream, erased>>
  BY DEF PanelRefresh
<1> QED
  BY <1>1, <1>2, <1>3 DEF Inv, TypeOK, upstream, SpentType, CallsFit, OwnersAgree

LEMMA AnswerFetchInv ==
  ASSUME Inv, NEW a \in Account, AnswerFetch(a)
  PROVE  Inv'
<1>1. PICK count \in {0, credits[a]} :
        fetches' = [fetches EXCEPT ![a].answered = TRUE, ![a].count = count]
  BY DEF AnswerFetch
<1>2. count \in Nat /\ fetches[a] \in Fetch
  BY <1>1 DEF Inv, TypeOK
<1>3. [fetches[a] EXCEPT !.answered = TRUE, !.count = count] \in Fetch
  BY <1>2 DEF Fetch
<1>4. fetches' \in [Account -> Fetch]
  BY <1>1, <1>3 DEF Inv, TypeOK
<1>5. UNCHANGED <<phase, audit, flights, calls, upstream, erased, spent>>
  BY DEF AnswerFetch
<1> QED
  BY <1>4, <1>5 DEF Inv, TypeOK, upstream, CallsFit, OwnersAgree

\* What a delivered refresh does to a call that waits for it.
LEMMA RefreshedCall ==
  ASSUME NEW call \in Call, Fits(call), call.pc = "refreshing", NEW count \in Nat
  PROVE  /\ Refreshed(call, count) \in Call
         /\ Fits(Refreshed(call, count))
         /\ Refreshed(call, count).pc \in {"settle", "append", "finish"}
         /\ Refreshed(call, count).key = call.key
         /\ Refreshed(call, count).account = call.account
<1>1. call.result \in Outcome \cup {"none"}
  BY DEF Fits
<1>2. CASE call.result # "none"
  BY <1>1, <1>2 DEF Refreshed, Call, Place, Fits
<1>3. CASE call.result = "none" /\ count > 0
  BY <1>3 DEF Refreshed, Call, Place, Fits
<1>4. CASE call.result = "none" /\ ~ (count > 0)
  BY <1>4 DEF Refreshed, Call, Place, Result, Fits
<1> QED
  BY <1>2, <1>3, <1>4

\* Calls that a refresh is delivered to keep their flights.
LEMMA DeliveredKeeps ==
  ASSUME Inv, flights' = flights, NEW takers \in SUBSET Caller, NEW count \in Nat,
         \A c \in takers : calls[c].pc = "refreshing",
         calls' = [c \in Caller |-> IF c \in takers THEN Refreshed(calls[c], count) ELSE calls[c]]
  PROVE  calls' \in [Caller -> Call] /\ CallsFit' /\ OwnersAgree' /\ NoNewIntent
<1>1. ASSUME NEW c \in takers
      PROVE  /\ calls'[c] \in Call /\ Fits(calls'[c])
             /\ calls'[c].pc \in {"settle", "append", "finish"}
             /\ calls'[c].key = calls[c].key
  <2>1. calls[c] \in Call /\ Fits(calls[c]) /\ calls[c].pc = "refreshing"
    BY DEF Inv, TypeOK, CallsFit
  <2>2. calls'[c] = Refreshed(calls[c], count)
    OBVIOUS
  <2> QED
    BY <2>1, <2>2, RefreshedCall
<1>2. \A c \in Caller \ takers : calls'[c] = calls[c]
  OBVIOUS
<1>3. calls' \in [Caller -> Call]
  <2>1. \A c \in Caller : calls'[c] \in Call
    BY <1>1, <1>2 DEF Inv, TypeOK
  <2> QED
    BY <2>1
<1>4. CallsFit'
  <2> SUFFICES ASSUME NEW c \in Caller PROVE Fits(calls'[c])
    BY DEF CallsFit
  <2> QED
    BY <1>1, <1>2 DEF Inv, CallsFit
<1>5. \A c \in Caller : calls'[c].key = calls[c].key
                        /\ (calls'[c].pc \in Owning <=> calls[c].pc \in Owning)
  BY <1>1, <1>2 DEF Owning
<1>6. \A k \in Key : flights[k] # Null => flights[k] \in Caller
  BY DEF Inv, TypeOK
<1>7. OwnersAgree'
  BY <1>5, <1>6 DEF Inv, OwnersAgree
<1>8. NoNewIntent
  BY <1>1, <1>2 DEF NoNewIntent, Committed
<1> QED
  BY <1>3, <1>4, <1>7, <1>8

LEMMA DeliverFetchInv ==
  ASSUME Inv, NEW a \in Account, DeliverFetch(a)
  PROVE  Inv' /\ NoNewIntent
<1> DEFINE takers == {c \in Caller : At(c, "refreshing") /\ calls[c].account = a}
<1>1. fetches[a].count \in Nat
  BY DEF Inv, TypeOK, Fetch
<1>2. calls' = [c \in Caller |->
                  IF c \in takers THEN Refreshed(calls[c], fetches[a].count) ELSE calls[c]]
  BY DEF DeliverFetch
<1>3. flights' = flights /\ \A c \in takers : calls[c].pc = "refreshing"
  BY DEF DeliverFetch, At
<1> HIDE DEF takers
<1>4. takers \in SUBSET Caller
  BY DEF takers
<1>5. calls' \in [Caller -> Call] /\ CallsFit' /\ OwnersAgree' /\ NoNewIntent
  BY <1>1, <1>2, <1>3, <1>4, DeliveredKeeps
<1>6. fetches' \in [Account -> Fetch]
  BY DEF DeliverFetch, Inv, TypeOK, NoFetch, Fetch
<1>7. UNCHANGED <<phase, audit, flights, upstream, erased, spent>>
  BY DEF DeliverFetch
<1> QED
  BY <1>5, <1>6, <1>7 DEF Inv, TypeOK, upstream

LEMMA LeaveFetchInv ==
  ASSUME Inv, NEW c \in Caller, LeaveFetch(c)
  PROVE  Inv' /\ NoNewIntent
<1>1. calls' = [calls EXCEPT ![c] = Refreshed(calls[c], 0)]
  BY DEF LeaveFetch, Inv, TypeOK
<1> DEFINE takers == {c}
           count == 0
<1>2. calls' = [d \in Caller |->
                  IF d \in takers THEN Refreshed(calls[d], count) ELSE calls[d]]
  BY <1>1 DEF Inv, TypeOK
<1>3. Quiet /\ flights' = flights /\ audit' = audit /\ spent' = spent
  BY DEF LeaveFetch, Quiet
<1>4. /\ takers \in SUBSET Caller /\ count \in Nat
      /\ \A d \in takers : calls[d].pc = "refreshing"
  BY DEF LeaveFetch, At
<1> HIDE DEF takers, count
<1>5. calls' \in [Caller -> Call] /\ CallsFit' /\ OwnersAgree' /\ NoNewIntent
  BY <1>2, <1>3, <1>4, DeliveredKeeps
<1> QED
  BY <1>3, <1>5, QuietStep, OldAudit DEF Inv, TypeOK

LEMMA AppendPendingInv ==
  ASSUME Inv, NEW c \in Caller, AppendPending(c)
  PROVE  Inv'
<1>1. Quiet /\ flights' = flights /\ calls[c].pc = "append"
  BY DEF AppendPending, Quiet, At
<1>2. WithRecord(c, "pending") \in [Key -> Record]
  BY WithRecordType DEF Inv, Outcome
<1>3. audit' \in [Key -> Record] /\ spent' \in SpentType
  BY <1>2, ReadFailsType, WriteType, OldAudit DEF AppendPending, Inv
<1>4. calls[c].result \in Result /\ "error" \in Result
  BY DEF Inv, TypeOK, Call, Result
<1>5. \E pc \in {"finish", "conflict", "gate"}, result \in Result : GotoWith(c, pc, result)
  BY <1>4, GotoIsMove DEF AppendPending, Inv
<1>6. calls' \in [Caller -> Call] /\ CallsFit' /\ OwnersAgree'
  BY <1>1, <1>5, MoveKeeps DEF Owning, Place
<1> QED
  BY <1>1, <1>3, <1>6, QuietStep DEF Inv, TypeOK

LEMMA ResolveConflictInv ==
  ASSUME Inv, NEW c \in Caller, ResolveConflict(c)
  PROVE  Inv' /\ NoNewIntent
<1>1. Quiet /\ flights' = flights /\ calls[c].pc = "conflict"
  BY DEF ResolveConflict, Quiet, At
<1>2. audit' \in [Key -> Record] /\ spent' \in SpentType
  BY ReadFailsType, OldAudit DEF ResolveConflict, Inv
<1>3. \E result \in Result : GotoWith(c, "finish", result)
  BY DEF ResolveConflict, Result, Outcome
<1>4. calls' \in [Caller -> Call] /\ CallsFit' /\ OwnersAgree' /\ NoNewIntent
  BY <1>1, <1>3, MoveKeeps DEF Owning, Place, Committed
<1> QED
  BY <1>1, <1>2, <1>4, QuietStep DEF Inv, TypeOK

LEMMA EnterConsumeInv ==
  ASSUME Inv, NEW c \in Caller, EnterConsume(c)
  PROVE  Inv' /\ NoNewIntent
<1>1. Quiet /\ flights' = flights /\ audit' = audit /\ spent' = spent /\ calls[c].pc = "gate"
  BY DEF EnterConsume, Quiet, At
<1>2. calls[c].result \in Result /\ "pending" \in Result
  BY DEF Inv, TypeOK, Call, Result, Outcome
<1>3. \E pc \in {"consuming", "finish"}, result \in Result : GotoWith(c, pc, result)
  BY <1>2, GotoIsMove DEF EnterConsume, Inv
<1>4. calls' \in [Caller -> Call] /\ CallsFit' /\ OwnersAgree' /\ NoNewIntent
  BY <1>1, <1>3, MoveKeeps DEF Owning, Place, Committed
<1> QED
  BY <1>1, <1>4, QuietStep, OldAudit DEF Inv, TypeOK

LEMMA FinalOutcomeType ==
  \A reply \in {"ok", "rejected", "lost", "unsent"} : FinalResetOutcome(reply) \in Outcome
  BY DEF FinalResetOutcome, Outcome

LEMMA ConsumeReturnsInv ==
  ASSUME Inv, NEW c \in Caller, ConsumeReturns(c)
  PROVE  Inv' /\ NoNewIntent
<1> DEFINE k == calls[c].key
           a == calls[c].account
<1>1. UNCHANGED <<phase, audit, flights, fetches, erased, spent>> /\ calls[c].pc = "consuming"
  BY DEF ConsumeReturns, At
<1>2. k \in Key /\ a \in Account
  BY <1>1 DEF Inv, CallsFit, Fits
<1>3. PICK reply \in {"ok", "rejected", "lost", "unsent"}, taken \in {0, 1} :
        /\ taken <= credits[a]
        /\ credits' = [credits EXCEPT ![a] = @ - taken]
        /\ applied' = [applied EXCEPT ![k] = @ + taken]
        /\ consumes' = IF reply = "unsent" THEN consumes ELSE [consumes EXCEPT ![k] = @ + 1]
        /\ GotoWith(c, "refresh", FinalResetOutcome(reply))
  BY DEF ConsumeReturns, AfterConsume
<1>4. credits[a] \in Nat /\ credits[a] - taken \in Nat
  BY <1>2, <1>3 DEF Inv, TypeOK
<1>5. credits' \in [Account -> Nat]
  BY <1>3, <1>4 DEF Inv, TypeOK
<1>6. applied' \in [Key -> Nat] /\ consumes' \in [Key -> Nat]
  BY <1>2, <1>3 DEF Inv, TypeOK
<1>7. FinalResetOutcome(reply) \in Outcome
  BY <1>3, FinalOutcomeType
<1>8. calls' \in [Caller -> Call] /\ CallsFit' /\ OwnersAgree' /\ NoNewIntent
  BY <1>1, <1>3, <1>7, MoveKeeps DEF Owning, Place, Committed, Result
<1> QED
  BY <1>1, <1>5, <1>6, <1>8 DEF Inv, TypeOK

LEMMA SettleInv ==
  ASSUME Inv, NEW c \in Caller, Settle(c)
  PROVE  Inv' /\ NoNewIntent
<1>1. Quiet /\ flights' = flights /\ calls[c].pc = "settle"
  BY DEF Settle, Quiet, At
<1>2. calls[c].result \in Outcome
  BY <1>1 DEF Inv, CallsFit, Fits
<1>3. WithRecord(c, calls[c].result) \in [Key -> Record]
  BY <1>2, WithRecordType DEF Inv
<1>4. audit' \in [Key -> Record] /\ spent' \in SpentType
  BY <1>3, ReadFailsType, WriteType, OldAudit DEF Settle, Inv
<1>5. calls[c].result \in Result /\ "unknown" \in Result
  BY <1>2 DEF Result, Outcome
<1>6. \E result \in Result : GotoWith(c, "finish", result)
  BY <1>5, GotoIsMove DEF Settle, Inv
<1>7. calls' \in [Caller -> Call] /\ CallsFit' /\ OwnersAgree' /\ NoNewIntent
  BY <1>1, <1>6, MoveKeeps DEF Owning, Place, Committed
<1> QED
  BY <1>1, <1>4, <1>7, QuietStep DEF Inv, TypeOK

\* The end of a flight takes its owner and the calls that wait for it out of
\* every place that owns one.
LEMMA FinishFlightInv ==
  ASSUME Inv, NEW c \in Caller, FinishFlight(c)
  PROVE  Inv' /\ NoNewIntent
<1> DEFINE k == calls[c].key
           result == calls[c].result
<1>1. Quiet /\ audit' = audit /\ spent' = spent /\ calls[c].pc = "finish"
  BY DEF FinishFlight, Quiet, At
<1>2. k \in Key /\ calls[c] \in Call /\ result \in Result /\ flights[k] = c
  BY <1>1 DEF Inv, TypeOK, CallsFit, Fits, Call, OwnersAgree, Owning
<1>3. /\ flights' = [flights EXCEPT ![k] = Null]
      /\ calls' = [d \in Caller |->
                     IF d = c THEN [calls[c] EXCEPT !.pc = "idle", !.result = Answer(result)]
                     ELSE IF Waits(d, k) THEN Woken(calls[d], result)
                     ELSE calls[d]]
  BY DEF FinishFlight, Unregistered
<1>4. /\ calls'[c] \in Call /\ Fits(calls'[c])
      /\ calls'[c].pc \notin Owning
  BY <1>2, <1>3, AnswerType DEF Call, Place, Fits, Owning
<1>5. ASSUME NEW d \in Caller, d # c, Waits(d, k)
      PROVE  calls'[d] \in Call /\ Fits(calls'[d]) /\ calls'[d].pc \notin Owning
             /\ calls[d].pc \notin Owning
  <2>1. calls[d] \in Call /\ Fits(calls[d]) /\ calls[d].pc = "waiting"
    BY <1>5 DEF Waits, At, Inv, TypeOK, CallsFit
  <2>2. calls'[d] = Woken(calls[d], result)
    BY <1>3, <1>5
  <2>3. "unknown" \in Result
    BY DEF Result, Outcome
  <2>4. Woken(calls[d], result) \in Call /\ Fits(Woken(calls[d], result))
        /\ Woken(calls[d], result).pc \in {"idle", "reload"}
    <3>1. CASE result = "pending"
      BY <2>1, <2>3, <3>1 DEF Woken, Call, Place, Fits
    <3>2. CASE result # "pending"
      BY <1>2, <2>1, <3>2 DEF Woken, Call, Place, Fits
    <3> QED
      BY <3>1, <3>2
  <2> QED
    BY <2>1, <2>2, <2>4 DEF Owning
<1>6. \A d \in Caller : d # c /\ ~ Waits(d, k) => calls'[d] = calls[d]
  BY <1>3
<1>7. calls' \in [Caller -> Call] /\ CallsFit'
  <2>1. \A d \in Caller : calls'[d] \in Call /\ Fits(calls'[d])
    BY <1>4, <1>5, <1>6 DEF Inv, TypeOK, CallsFit
  <2> QED
    BY <1>3, <2>1 DEF CallsFit
<1>8. flights'[k] = Null /\ \A j \in Key : j # k => flights'[j] = flights[j]
  BY <1>2, <1>3 DEF Inv, TypeOK
<1>9. flights' \in [Key -> Caller \cup {Null}]
  BY <1>3 DEF Inv, TypeOK
<1>10. ASSUME NEW j \in Key, flights'[j] # Null
       PROVE  calls'[flights'[j]].key = j /\ calls'[flights'[j]].pc \in Owning
  <2>1. j # k /\ flights'[j] = flights[j] /\ flights[j] \in Caller
    BY <1>8, <1>10 DEF Inv, TypeOK
  <2>2. calls[flights[j]].key = j /\ calls[flights[j]].pc \in Owning
    BY <1>10, <2>1 DEF Inv, OwnersAgree
  <2>3. flights[j] # c /\ ~ Waits(flights[j], k)
    BY <2>1, <2>2 DEF Waits
  <2> QED
    BY <1>6, <2>1, <2>2, <2>3
<1>11. ASSUME NEW d \in Caller, calls'[d].pc \in Owning
       PROVE  flights'[calls'[d].key] = d
  <2>1. d # c /\ calls'[d] = calls[d]
    BY <1>4, <1>5, <1>6, <1>11
  <2>2. calls[d].key \in Key /\ flights[calls[d].key] = d
    BY <1>11, <2>1 DEF Inv, OwnersAgree, CallsFit, Fits, Owning
  <2>3. calls[d].key # k
    BY <1>2, <2>1, <2>2
  <2> QED
    BY <1>8, <2>1, <2>2, <2>3
<1>12. OwnersAgree'
  BY <1>10, <1>11 DEF OwnersAgree
<1>13. NoNewIntent
  BY <1>4, <1>5, <1>6 DEF NoNewIntent, Committed, Owning
<1> QED
  BY <1>1, <1>7, <1>9, <1>12, <1>13, QuietStep, OldAudit

LEMMA ReloadRecordInv ==
  ASSUME Inv, NEW c \in Caller, ReloadRecord(c)
  PROVE  Inv' /\ NoNewIntent
<1>1. Quiet /\ flights' = flights /\ calls[c].pc = "reload"
  BY DEF ReloadRecord, Quiet, At
<1>2. audit' \in [Key -> Record] /\ spent' \in SpentType
  BY ReadFailsType, OldAudit DEF ReloadRecord, Inv
<1>3. /\ audit[calls[c].key].outcome \in Result
      /\ calls[c].result \in Result /\ "error" \in Result
  BY <1>1 DEF Inv, TypeOK, Record, Result, Call, CallsFit, Fits
<1>4. \E result \in Result : GotoWith(c, "idle", result)
  BY <1>3, AnswerType DEF ReloadRecord, Return
<1>5. calls' \in [Caller -> Call] /\ CallsFit' /\ OwnersAgree' /\ NoNewIntent
  BY <1>1, <1>4, MoveKeeps DEF Owning, Place, Committed
<1> QED
  BY <1>1, <1>2, <1>5, QuietStep DEF Inv, TypeOK

(***************************************************************************)
(* The runtime's own steps.                                                *)
(***************************************************************************)
LEMMA RuntimeInv ==
  ASSUME Inv, Start \/ BeginStop \/ PassGate \/ StopReturns
  PROVE  Inv'
<1>1. UNCHANGED <<flights, fetches, calls, upstream, erased>>
  BY DEF Start, BeginStop, PassGate, StopReturns
<1>2. phase' \in {"up", "stopping", "gated", "stopped"}
  BY DEF Start, BeginStop, PassGate, StopReturns
<1>3. [k \in Key |-> RecoveredRecord(audit[k])] \in [Key -> Record]
  BY DEF RecoveredRecord, Inv, TypeOK, Record, Outcome
<1>4. audit' \in [Key -> Record] /\ spent' \in SpentType
  <2>1. CASE Start
    BY <1>3, <2>1, ReadFailsType, WriteType DEF Start, Inv
  <2>2. CASE BeginStop
    BY <2>2, OldAudit DEF BeginStop, SpentType
  <2>3. CASE PassGate \/ StopReturns
    BY <2>3, OldAudit DEF PassGate, StopReturns
  <2> QED
    BY <2>1, <2>2, <2>3
<1> QED
  BY <1>1, <1>2, <1>4 DEF Inv, TypeOK, SpentType, upstream, CallsFit, OwnersAgree

LEMMA CrashInv ==
  ASSUME Inv, Crash
  PROVE  Inv'
<1>1. NoCall \in Call /\ Fits(NoCall) /\ NoCall.pc \notin Owning
  BY DEF NoCall, Call, Place, Result, Fits, Owning
<1>2. calls' = [c \in Caller |-> NoCall] /\ flights' = [k \in Key |-> Null]
  BY DEF Crash
<1>3. calls' \in [Caller -> Call] /\ CallsFit' /\ OwnersAgree'
  BY <1>1, <1>2 DEF CallsFit, OwnersAgree
<1>4. fetches' \in [Account -> Fetch]
  BY DEF Crash, NoFetch, Fetch
<1>5. spent' \in SpentType
  BY DEF Crash, Inv, TypeOK, SpentType
<1>6. phase' = "down" /\ UNCHANGED <<audit, upstream, erased>>
  BY DEF Crash
<1> QED
  BY <1>2, <1>3, <1>4, <1>5, <1>6 DEF Inv, TypeOK, SpentType, upstream

LEMMA EraseType ==
  ASSUME TypeOK, NEW keys, EraseRecords(keys)
  PROVE  erased' \in [Key -> Nat]
  BY DEF TypeOK, EraseRecords

LEMMA EraseInv ==
  ASSUME Inv, ClearAudit \/ \E k \in Key : ExpireRecord(k)
  PROVE  Inv'
<1>1. UNCHANGED <<phase, flights, fetches, calls, upstream>>
  BY DEF ClearAudit, ExpireRecord
<1>2. NoRecord \in Record
  BY DEF NoRecord, Record
<1>3. audit' \in [Key -> Record]
  BY <1>2 DEF ClearAudit, ExpireRecord, Inv, TypeOK
<1>5. erased' \in [Key -> Nat]
  <2>1. CASE ClearAudit
    <3>1. erased' = erased \/ EraseRecords(Key)
      BY <2>1 DEF ClearAudit
    <3> QED
      BY <3>1, EraseType DEF Inv, TypeOK
  <2>2. ASSUME NEW k \in Key, ExpireRecord(k) PROVE erased' \in [Key -> Nat]
    BY <2>2, EraseType DEF ExpireRecord, Inv
  <2> QED
    BY <2>1, <2>2
<1>6. spent' \in SpentType
  <2>1. spent \in SpentType
    BY OldAudit
  <2>2. CASE ClearAudit
    <3>1. PICK out \in WriteOutcomes :
            spent' = [spent EXCEPT !.erasures = @ + 1,
                                   !.faults = IF out = "ok" THEN @ ELSE @ + 1]
      BY <2>2 DEF ClearAudit
    <3> DEFINE faults == IF out = "ok" THEN spent.faults ELSE spent.faults + 1
    <3>2. spent.erasures + 1 \in Nat /\ faults \in Nat
      BY <2>1 DEF SpentType
    <3>3. spent' = [spent EXCEPT !.erasures = spent.erasures + 1, !.faults = faults]
      BY <3>1
    <3> HIDE DEF faults
    <3> QED
      BY <2>1, <3>2, <3>3 DEF SpentType
  <2>3. ASSUME NEW k \in Key, ExpireRecord(k) PROVE spent' \in SpentType
    BY <2>1, <2>3 DEF ExpireRecord, SpentType
  <2> QED
    BY <2>2, <2>3
<1> QED
  BY <1>1, <1>3, <1>5, <1>6 DEF Inv, TypeOK, SpentType, upstream, CallsFit, OwnersAgree

LEMMA InvStep ==
  ASSUME Inv, [Next]_vars
  PROVE  Inv'
<1>1. CASE UNCHANGED vars
  BY <1>1 DEF vars, Inv, TypeOK, CallsFit, OwnersAgree
<1>2. ASSUME NEW c \in Caller, CallStep(c) PROVE Inv'
  BY <1>2, FindRecordInv, RecoverOrphanInv, RefuseAccountInv, BeginFlightInv, StartRefreshInv,
     LeaveFetchInv, AppendPendingInv, ResolveConflictInv, EnterConsumeInv, ConsumeReturnsInv,
     SettleInv, FinishFlightInv, ReloadRecordInv DEF CallStep
<1>3. ASSUME NEW c \in Caller, NEW k \in Key, NEW a \in Account, Arrive(c, k, a) PROVE Inv'
  BY <1>3, ArriveInv
<1>4. ASSUME NEW a \in Account, FetchStep(a) \/ PanelRefresh(a) PROVE Inv'
  BY <1>4, AnswerFetchInv, DeliverFetchInv, PanelRefreshInv DEF FetchStep
<1>5. CASE ClearAudit \/ \E k \in Key : ExpireRecord(k)
  BY <1>5, EraseInv
<1>6. CASE Start \/ BeginStop \/ PassGate \/ StopReturns
  BY <1>6, RuntimeInv
<1>7. CASE Crash
  BY <1>7, CrashInv
<1> QED
  BY <1>1, <1>2, <1>3, <1>4, <1>5, <1>6, <1>7 DEF Next

LEMMA InitInv == Init => Inv
<1> SUFFICES ASSUME Init PROVE Inv
  OBVIOUS
<1>1. NoCall \in Call /\ Fits(NoCall) /\ NoCall.pc \notin Owning
  BY DEF NoCall, Call, Place, Result, Fits, Owning
<1>2. NoRecord \in Record /\ NoFetch \in Fetch
  BY DEF NoRecord, Record, NoFetch, Fetch
<1>3. credits \in [Account -> Nat]
  BY ResetAssumption DEF Init
<1> QED
  BY <1>1, <1>2, <1>3 DEF Init, Inv, TypeOK, CallsFit, OwnersAgree

LEMMA SpecInv == Spec => []Inv
  BY InitInv, InvStep, PTL DEF Spec

\* No handler stores a record, flight, refresh or call of another type.
THEOREM ResetTypeCorrect == Spec => []TypeOK
<1>1. Inv => TypeOK
  BY DEF Inv
<1> QED
  BY <1>1, SpecInv, PTL

(***************************************************************************)
(* The gate: past it, no call is in its consume call.                      *)
(***************************************************************************)
GateClosed == phase \in {"gated", "stopped"} => ~ GateHeld

\* Only EnterConsume moves a call that has come to the gate.
LEMMA GateWaits ==
  ASSUME Inv, NEW c \in Caller, CallStep(c), ~ EnterConsume(c),
         NEW d \in Caller, calls[d].pc = "gate"
  PROVE  calls'[d] = calls[d]
<1>1. CASE FinishFlight(c)
  BY <1>1 DEF FinishFlight, At, Waits
<1>2. CASE ~ FinishFlight(c)
  <2>1. calls[c].pc # "gate"
    BY <1>2 DEF CallStep, FindRecord, RecoverOrphan, RefuseAccount, BeginFlight, StartRefresh,
       LeaveFetch, AppendPending, ResolveConflict, ConsumeReturns, Settle, ReloadRecord, At
  <2>2. \E call : calls' = [calls EXCEPT ![c] = call]
    BY <1>2 DEF CallStep, FindRecord, RecoverOrphan, RefuseAccount, BeginFlight, JoinFlight,
       StartRefresh, LeaveFetch, AppendPending, ResolveConflict, ConsumeReturns, Settle,
       ReloadRecord, Return, Goto, GotoWith
  <2> QED
    BY <2>1, <2>2 DEF Inv, TypeOK
<1> QED
  BY <1>1, <1>2

LEMMA CallStepGate ==
  ASSUME Inv, GateClosed, NEW c \in Caller, CallStep(c)
  PROVE  GateClosed'
<1>1. phase' = phase
  BY DEF CallStep, FindRecord, RecoverOrphan, RefuseAccount, BeginFlight, StartRefresh,
     LeaveFetch, AppendPending, ResolveConflict, EnterConsume, ConsumeReturns, Settle,
     FinishFlight, ReloadRecord
<1> SUFFICES ASSUME phase \in {"gated", "stopped"}, NEW d \in Caller, calls'[d].pc = "consuming"
             PROVE  FALSE
  BY <1>1 DEF GateClosed, GateHeld, At
<1>2. calls[d].pc # "consuming"
  BY DEF GateClosed, GateHeld, At
<1>3. CASE EnterConsume(c)
  <2>1. GotoWith(c, "finish", "pending")
    BY <1>3 DEF EnterConsume, MayConsume, Stopped
  <2> QED
    BY <1>2, <2>1 DEF GotoWith, Inv, TypeOK, Call
<1>4. CASE AppendPending(c)
  BY <1>2, <1>4 DEF AppendPending, Goto, GotoWith, Inv, TypeOK, Call
<1>5. CASE ~ EnterConsume(c) /\ ~ AppendPending(c)
  <2>1. NoNewIntent
    BY <1>5, FindRecordInv, RecoverOrphanInv, RefuseAccountInv, BeginFlightInv, StartRefreshInv,
       LeaveFetchInv, ResolveConflictInv, ConsumeReturnsInv, SettleInv, FinishFlightInv,
       ReloadRecordInv DEF CallStep
  <2>2. calls[d].pc = "gate"
    BY <1>2, <2>1 DEF NoNewIntent, Committed
  <2>3. calls'[d] = calls[d]
    BY <1>5, <2>2, GateWaits
  <2> QED
    BY <2>2, <2>3
<1> QED
  BY <1>3, <1>4, <1>5

LEMMA GateStep ==
  ASSUME Inv, GateClosed, [Next]_vars
  PROVE  GateClosed'
<1>1. CASE UNCHANGED vars
  BY <1>1 DEF vars, GateClosed, GateHeld, At
<1>2. ASSUME NEW c \in Caller, CallStep(c) PROVE GateClosed'
  BY <1>2, CallStepGate
<1>3. ASSUME NEW c \in Caller, NEW k \in Key, NEW a \in Account, Arrive(c, k, a)
      PROVE  GateClosed'
  <2>1. phase' = phase
    BY <1>3 DEF Arrive
  <2>2. calls'[c].pc \in {"waiting", "idle", "lookup"}
    BY <1>3 DEF Arrive, JoinFlight, Inv, TypeOK
  <2>3. \A d \in Caller : d # c => calls'[d] = calls[d]
    BY <1>3 DEF Arrive, JoinFlight, Inv, TypeOK
  <2> QED
    BY <2>1, <2>2, <2>3 DEF GateClosed, GateHeld, At, Inv, TypeOK
<1>4. ASSUME NEW a \in Account, FetchStep(a) \/ PanelRefresh(a) PROVE GateClosed'
  <2>1. phase' = phase
    BY <1>4 DEF FetchStep, AnswerFetch, DeliverFetch, PanelRefresh
  <2>2. CASE calls' = calls
    BY <2>1, <2>2 DEF GateClosed, GateHeld, At
  <2>3. CASE DeliverFetch(a)
    <3>1. \A d \in Caller : calls[d].pc # "refreshing" => calls'[d] = calls[d]
      BY <2>3 DEF DeliverFetch, At
    <3>2. ASSUME NEW d \in Caller, calls[d].pc = "refreshing" PROVE calls'[d].pc # "consuming"
      BY <2>3, <3>2 DEF DeliverFetch, At, Refreshed, Inv, TypeOK, Call
    <3> QED
      BY <2>1, <3>1, <3>2 DEF GateClosed, GateHeld, At
  <2> QED
    BY <1>4, <2>2, <2>3 DEF FetchStep, AnswerFetch, PanelRefresh
<1>5. CASE ClearAudit \/ \E k \in Key : ExpireRecord(k)
  BY <1>5 DEF ClearAudit, ExpireRecord, GateClosed, GateHeld, At
<1>6. CASE Start \/ BeginStop \/ PassGate \/ StopReturns
  BY <1>6 DEF Start, BeginStop, PassGate, StopReturns, GateClosed, GateHeld, At
<1>7. CASE Crash
  BY <1>7 DEF Crash, GateClosed
<1> QED
  BY <1>1, <1>2, <1>3, <1>4, <1>5, <1>6, <1>7 DEF Next

\* Only a call in its consume call sends anything.
LEMMA ConsumeThroughGate ==
  ASSUME GateClosed, [Next]_vars, consumes' # consumes
  PROVE  phase \notin {"gated", "stopped"}
<1>1. PICK c \in Caller : ConsumeReturns(c)
  BY DEF Next, vars, CallStep, FindRecord, RecoverOrphan, RefuseAccount, BeginFlight,
     StartRefresh, LeaveFetch, AppendPending, ResolveConflict, EnterConsume, Settle,
     FinishFlight, ReloadRecord, Arrive, FetchStep, AnswerFetch, DeliverFetch, PanelRefresh,
     ExpireRecord, Start, BeginStop, PassGate, StopReturns, Crash, ClearAudit, upstream
<1> QED
  BY <1>1 DEF ConsumeReturns, GateClosed, GateHeld

\* Once Stop holds the gate no consume call is sent any more: the calls that were
\* past the check have ended, and those that were not find the runtime stopped.
THEOREM GateHolds == Spec => NoConsumeAfterGate
<1>1. Init => GateClosed
  BY DEF Init, GateClosed
<1>2. GateClosed /\ [Next]_vars =>
        [consumes' # consumes => phase \notin {"gated", "stopped"}]_vars
  BY ConsumeThroughGate
<1> QED
  BY <1>1, <1>2, GateStep, SpecInv, PTL DEF Spec, NoConsumeAfterGate

-----------------------------------------------------------------------------
(***************************************************************************)
(* What ResetQuota promises.  It keeps the promise of CreditOnce, and a    *)
(* key therefore sends at most one consume call for every deletion of its  *)
(* evidence, and one.  What is said of a key is what the upstream did, and *)
(* a consume call finds the credit that its reset was told of.             *)
(***************************************************************************)

(***************************************************************************)
(* Steps without an intention or a call.                                   *)
(***************************************************************************)
LEMMA GiveUpStep ==
  ASSUME Free' \subseteq Free, Intended' \subseteq Intended,
         consumes' = consumes, erased' = erased
  PROVE  Promise!Next
  BY DEF Promise!Next, Promise!GiveUp

\* No step but a new record's takes a key from the free ones; a step that
\* lets no call past the commit point makes no key intended.
LEMMA IntendedShrinks ==
  ASSUME Inv, Inv', NoNewIntent,
         \A k \in Key : \/ flights'[k] = flights[k]
                        \/ flights'[k] = Null
                        \/ calls'[flights'[k]].pc \notin Committed
  PROVE  Intended' \subseteq Intended
<1> SUFFICES ASSUME NEW k \in Key, flights'[k] # Null, calls'[flights'[k]].pc \in Committed
             PROVE  flights[k] # Null /\ calls[flights[k]].pc \in Committed
  BY DEF Intended
<1>1. flights'[k] = flights[k]
  OBVIOUS
<1>2. flights[k] \in Caller
  BY <1>1 DEF Inv, TypeOK
<1> QED
  BY <1>1, <1>2 DEF NoNewIntent

LEMMA IntendedShrinksUnderFlights ==
  ASSUME Inv, Inv', NoNewIntent, flights' = flights
  PROVE  Intended' \subseteq Intended
  BY IntendedShrinks

LEMMA WithRecordUses ==
  ASSUME Inv, NEW c \in Caller, NEW outcome \in Outcome, NEW k \in Key,
         WithRecord(c, outcome)[k].outcome = "none"
  PROVE  audit[k].outcome = "none"
<1>1. "none" \notin Outcome
  BY DEF Outcome
<1> QED
  BY <1>1 DEF WithRecord, Inv, TypeOK

LEMMA WriteUses ==
  ASSUME Inv, NEW c \in Caller, NEW outcome \in Outcome, NEW out \in WriteOutcomes,
         Write(out, WithRecord(c, outcome))
  PROVE  Free' \subseteq Free
<1>1. audit' = audit \/ audit' = WithRecord(c, outcome)
  BY DEF Write
<1>2. ASSUME NEW k \in Key, audit'[k].outcome = "none" PROVE audit[k].outcome = "none"
  BY <1>1, <1>2, WithRecordUses
<1> QED
  BY <1>2 DEF Free, HasRecord

LEMMA SameAudit ==
  ASSUME audit' = audit
  PROVE  Free' = Free
  BY DEF Free, HasRecord

(***************************************************************************)
(* The steps of a call.                                                    *)
(***************************************************************************)
LEMMA QuietCallPromise ==
  ASSUME Inv, Inv', NEW c \in Caller,
         \/ FindRecord(c) \/ RecoverOrphan(c) \/ RefuseAccount(c) \/ StartRefresh(c)
         \/ LeaveFetch(c) \/ ResolveConflict(c) \/ EnterConsume(c) \/ Settle(c)
         \/ ReloadRecord(c)
  PROVE  Promise!Next
<1>1. flights' = flights /\ consumes' = consumes /\ erased' = erased
  BY DEF FindRecord, RecoverOrphan, RefuseAccount, StartRefresh, LeaveFetch, ResolveConflict,
     EnterConsume, Settle, ReloadRecord, upstream
<1>2. NoNewIntent
  BY FindRecordInv, RecoverOrphanInv, RefuseAccountInv, StartRefreshInv, LeaveFetchInv,
     ResolveConflictInv, EnterConsumeInv, SettleInv, ReloadRecordInv
<1>3. Free' \subseteq Free
  <2>1. CASE RecoverOrphan(c)
    <3>1. "unknown" \in Outcome
      BY DEF Outcome
    <3> QED
      BY <2>1, <3>1, WriteUses, SameAudit DEF RecoverOrphan, ReadFails
  <2>2. CASE Settle(c)
    <3>1. calls[c].result \in Outcome
      BY <2>2 DEF Settle, At, Inv, CallsFit, Fits
    <3> QED
      BY <2>2, <3>1, WriteUses, SameAudit DEF Settle, ReadFails
  <2>3. CASE ~ RecoverOrphan(c) /\ ~ Settle(c)
    <3>1. audit' = audit
      BY <2>3 DEF FindRecord, RefuseAccount, StartRefresh, LeaveFetch, ResolveConflict,
         EnterConsume, ReloadRecord, ReadFails
    <3> QED
      BY <3>1, SameAudit
  <2> QED
    BY <2>1, <2>2, <2>3
<1> QED
  BY <1>1, <1>2, <1>3, IntendedShrinksUnderFlights, GiveUpStep

LEMMA BeginFlightPromise ==
  ASSUME Inv, Inv', NEW c \in Caller, BeginFlight(c)
  PROVE  Promise!Next
<1> DEFINE k == calls[c].key
<1>1. audit' = audit /\ consumes' = consumes /\ erased' = erased
  BY DEF BeginFlight, upstream
<1>2. NoNewIntent
  BY BeginFlightInv
<1>3. CASE flights' = flights
  BY <1>1, <1>2, <1>3, SameAudit, IntendedShrinksUnderFlights, GiveUpStep
<1>4. CASE flights' # flights
  <2>1. flights' = [flights EXCEPT ![k] = c] /\ Goto(c, "refresh")
    BY <1>4 DEF BeginFlight
  <2>2. calls'[c].pc = "refresh"
    BY <2>1 DEF Goto, Inv, TypeOK, Call
  <2>3. \A j \in Key : flights'[j] = flights[j] \/ calls'[flights'[j]].pc \notin Committed
    BY <2>1, <2>2 DEF Inv, TypeOK, Committed
  <2> QED
    BY <1>1, <1>2, <2>3, SameAudit, IntendedShrinks, GiveUpStep
<1> QED
  BY <1>3, <1>4

LEMMA FinishFlightPromise ==
  ASSUME Inv, Inv', NEW c \in Caller, FinishFlight(c)
  PROVE  Promise!Next
<1>1. audit' = audit /\ consumes' = consumes /\ erased' = erased
  BY DEF FinishFlight, upstream
<1>2. NoNewIntent
  BY FinishFlightInv
<1>3. flights' = [flights EXCEPT ![calls[c].key] = Null]
  BY DEF FinishFlight, Unregistered
<1>4. \A k \in Key : flights'[k] = flights[k] \/ flights'[k] = Null
  BY <1>3 DEF Inv, TypeOK
<1> QED
  BY <1>1, <1>2, <1>4, SameAudit, IntendedShrinks, GiveUpStep

\* An intention is a record that could be appended.
LEMMA AppendPendingPromise ==
  ASSUME Inv, Inv', NEW c \in Caller, AppendPending(c)
  PROVE  Promise!Next
<1> DEFINE k == calls[c].key
<1>1. flights' = flights /\ consumes' = consumes /\ erased' = erased
  BY DEF AppendPending, upstream
<1>2. k \in Key /\ flights[k] = c /\ "pending" \in Outcome
  BY DEF AppendPending, At, Inv, CallsFit, Fits, OwnersAgree, Owning, Outcome
<1>3. CASE Goto(c, "conflict") \/ GotoWith(c, "finish", "error")
  <2>1. NoNewIntent
    BY <1>3 DEF Goto, GotoWith, NoNewIntent, Committed, Inv, TypeOK, Call
  <2>2. Free' \subseteq Free
    BY <1>2, WriteUses, SameAudit DEF AppendPending, ReadFails
  <2> QED
    BY <1>1, <2>1, <2>2, IntendedShrinksUnderFlights, GiveUpStep
<1>4. CASE /\ Appendable(k)
           /\ audit' = WithRecord(c, "pending")
           /\ Goto(c, "gate")
  <2>1. audit' = [audit EXCEPT ![k] = [outcome |-> "pending", account |-> calls[c].account]]
    BY <1>4 DEF WithRecord
  <2>2. k \in Free /\ Free' = Free \ {k}
    BY <1>2, <1>4, <2>1 DEF Free, HasRecord, Appendable, Inv, TypeOK
  <2>3. calls'[c].pc = "gate" /\ \A d \in Caller : d # c => calls'[d] = calls[d]
    BY <1>4 DEF Goto, Inv, TypeOK, Call
  <2>4. \A j \in Key : flights[j] = c => j = k
    BY <1>2, ResetAssumption DEF Inv, OwnersAgree
  <2>5. \A j \in Key : j # k => (j \in Intended' <=> j \in Intended)
    BY <1>1, <2>3, <2>4 DEF Intended, Inv, TypeOK
  <2>6. k \in Intended'
    BY <1>1, <1>2, <2>3, ResetAssumption DEF Intended, Committed
  <2>7. Intended' = Intended \cup {k}
    BY <1>2, <2>5, <2>6 DEF Intended
  <2>8. Promise!Intend(k)
    BY <1>1, <2>2, <2>7 DEF Promise!Intend
  <2> QED
    BY <1>2, <2>8 DEF Promise!Next
<1> QED
  BY <1>3, <1>4 DEF AppendPending, Write

\* A call is made by the one flight that holds its key's intention.
LEMMA ConsumeReturnsPromise ==
  ASSUME Inv, Inv', NEW c \in Caller, ConsumeReturns(c)
  PROVE  Promise!Next
<1> DEFINE k == calls[c].key
<1>1. flights' = flights /\ audit' = audit /\ erased' = erased /\ calls[c].pc = "consuming"
  BY DEF ConsumeReturns, At
<1>2. k \in Key /\ flights[k] = c /\ c # Null
  BY <1>1, ResetAssumption DEF Inv, CallsFit, Fits, OwnersAgree, Owning
<1>3. CASE consumes' = consumes
  BY <1>1, <1>3, ConsumeReturnsInv, SameAudit, IntendedShrinksUnderFlights, GiveUpStep
<1>4. CASE consumes' = [consumes EXCEPT ![k] = @ + 1]
  <2>1. calls'[c].pc = "refresh" /\ \A d \in Caller : d # c => calls'[d] = calls[d]
    BY DEF ConsumeReturns, GotoWith, AfterConsume, Inv, TypeOK, Call
  <2>2. \A j \in Key : flights[j] = c => j = k
    BY <1>2 DEF Inv, OwnersAgree
  <2>3. \A j \in Key : j # k => (j \in Intended' <=> j \in Intended)
    BY <1>1, <2>1, <2>2 DEF Intended, Inv, TypeOK
  <2>4. k \in Intended /\ k \notin Intended'
    BY <1>1, <1>2, <2>1 DEF Intended, Committed
  <2>5. Intended' = Intended \ {k}
    BY <1>2, <2>3, <2>4 DEF Intended
  <2>6. Promise!Spend(k)
    BY <1>1, <1>4, <2>4, <2>5, SameAudit DEF Promise!Spend
  <2> QED
    BY <1>2, <2>6 DEF Promise!Next
<1> QED
  BY <1>3, <1>4 DEF ConsumeReturns

(***************************************************************************)
(* The other steps.                                                        *)
(***************************************************************************)
LEMMA ArrivePromise ==
  ASSUME Inv, Inv', NEW c \in Caller, NEW k \in Key, NEW a \in Account, Arrive(c, k, a)
  PROVE  Promise!Next
<1>1. flights' = flights /\ audit' = audit /\ consumes' = consumes /\ erased' = erased
  BY DEF Arrive, upstream
<1> QED
  BY <1>1, ArriveInv, SameAudit, IntendedShrinksUnderFlights, GiveUpStep

LEMMA FetchPromise ==
  ASSUME Inv, Inv', NEW a \in Account, FetchStep(a) \/ PanelRefresh(a)
  PROVE  Promise!Next
<1>1. flights' = flights /\ audit' = audit /\ consumes' = consumes /\ erased' = erased
  BY DEF FetchStep, AnswerFetch, DeliverFetch, PanelRefresh, upstream
<1>2. NoNewIntent
  <2>1. CASE DeliverFetch(a)
    BY <2>1, DeliverFetchInv
  <2>2. CASE calls' = calls
    BY <2>2 DEF NoNewIntent
  <2> QED
    BY <2>1, <2>2 DEF FetchStep, AnswerFetch, PanelRefresh
<1> QED
  BY <1>1, <1>2, SameAudit, IntendedShrinksUnderFlights, GiveUpStep

LEMMA RuntimePromise ==
  ASSUME Inv, Inv', Start \/ BeginStop \/ PassGate \/ StopReturns
  PROVE  Promise!Next
<1>1. UNCHANGED <<flights, calls, consumes, erased>>
  BY DEF Start, BeginStop, PassGate, StopReturns, upstream
<1>2. NoNewIntent
  BY <1>1 DEF NoNewIntent
<1>3. Free' \subseteq Free
  <2>1. CASE audit' = audit
    BY <2>1, SameAudit
  <2>2. CASE audit' = [k \in Key |-> RecoveredRecord(audit[k])]
    <3>1. \A k \in Key : audit'[k].outcome = "none" => audit[k].outcome = "none"
      BY <2>2 DEF RecoveredRecord, Inv, TypeOK, Record
    <3> QED
      BY <3>1 DEF Free, HasRecord
  <2> QED
    BY <2>1, <2>2 DEF Start, BeginStop, PassGate, StopReturns, ReadFails, Write
<1> QED
  BY <1>1, <1>2, <1>3, IntendedShrinksUnderFlights, GiveUpStep

LEMMA CrashPromise ==
  ASSUME Inv, Inv', Crash
  PROVE  Promise!Next
<1>1. audit' = audit /\ consumes' = consumes /\ erased' = erased
  BY DEF Crash, upstream
<1>2. Intended' = {}
  BY DEF Crash, Intended
<1> QED
  BY <1>1, <1>2, SameAudit, GiveUpStep

\* A deletion frees the keys whose evidence it counts as deleted.
LEMMA ErasePromise ==
  ASSUME Inv, Inv', NEW keys \in SUBSET Key,
         audit' = [k \in Key |-> IF k \in keys THEN NoRecord ELSE audit[k]],
         EraseRecords(keys), UNCHANGED <<flights, calls, consumes>>
  PROVE  Promise!Next
<1> DEFINE forgotten == {k \in keys : HasRecord(k)}
<1>1. Free \cap forgotten = {}
  BY DEF Free
<1>2. \A k \in Key : k \in Free' <=> k \in keys \/ k \in Free
  BY DEF Free, HasRecord, NoRecord
<1>3. Free' = Free \cup forgotten
  BY <1>2 DEF Free
<1>4. erased' = [k \in Key |-> IF k \in forgotten THEN erased[k] + 1 ELSE erased[k]]
  BY DEF EraseRecords
<1>5. Intended' = Intended
  BY DEF Intended
<1>6. Promise!Forget(forgotten)
  BY <1>1, <1>3, <1>4, <1>5 DEF Promise!Forget
<1> QED
  BY <1>6 DEF Promise!Next

LEMMA ForgetPromise ==
  ASSUME Inv, Inv', ClearAudit \/ \E k \in Key : ExpireRecord(k)
  PROVE  [Promise!Next]_(Promise!vars)
<1>1. UNCHANGED <<flights, calls, consumes>>
  BY DEF ClearAudit, ExpireRecord, upstream
<1>2. CASE audit' = audit /\ erased' = erased
  BY <1>1, <1>2, SameAudit DEF Promise!vars, Intended
<1>3. CASE audit' = [k \in Key |-> NoRecord] /\ EraseRecords(Key)
  BY <1>1, <1>3, ErasePromise
<1>4. ASSUME NEW k \in Key, ExpireRecord(k) PROVE Promise!Next
  <2>1. audit' = [j \in Key |-> IF j \in {k} THEN NoRecord ELSE audit[j]]
    BY <1>4 DEF ExpireRecord, Inv, TypeOK
  <2> QED
    BY <1>1, <1>4, <2>1, ErasePromise DEF ExpireRecord
<1> QED
  BY <1>2, <1>3, <1>4 DEF ClearAudit

LEMMA PromiseStep ==
  ASSUME Inv, Inv', [Next]_vars
  PROVE  [Promise!Next]_(Promise!vars)
<1>1. CASE UNCHANGED vars
  BY <1>1 DEF vars, Promise!vars, Free, HasRecord, Intended
<1>2. ASSUME NEW c \in Caller, CallStep(c) PROVE Promise!Next
  BY <1>2, QuietCallPromise, BeginFlightPromise, FinishFlightPromise, AppendPendingPromise,
     ConsumeReturnsPromise DEF CallStep
<1>3. ASSUME NEW c \in Caller, NEW k \in Key, NEW a \in Account, Arrive(c, k, a)
      PROVE  Promise!Next
  BY <1>3, ArrivePromise
<1>4. ASSUME NEW a \in Account, FetchStep(a) \/ PanelRefresh(a) PROVE Promise!Next
  BY <1>4, FetchPromise
<1>5. CASE ClearAudit \/ \E k \in Key : ExpireRecord(k)
  BY <1>5, ForgetPromise
<1>6. CASE Start \/ BeginStop \/ PassGate \/ StopReturns
  BY <1>6, RuntimePromise
<1>7. CASE Crash
  BY <1>7, CrashPromise
<1> QED
  BY <1>1, <1>2, <1>3, <1>4, <1>5, <1>6, <1>7 DEF Next

LEMMA PromiseInit == Init => Promise!Init
  BY DEF Init, Promise!Init, Free, Intended, HasRecord, NoRecord

\* Callers, flights, refreshes, crashes, stops and the audit file keep the
\* promise of a durable idempotency key: a recorded intention comes before each
\* consume call, serves one call, and a used key is free again only when the
\* evidence of its use has been deleted.
THEOREM PromiseKept == Spec => KeepsPromise
<1>1. Inv /\ Inv' /\ [Next]_vars => [Promise!Next]_(Promise!vars)
  BY PromiseStep
<1> QED
  BY <1>1, PromiseInit, SpecInv, PTL DEF Spec, KeepsPromise, Promise!Spec

(***************************************************************************)
(* The account of a key: its consume calls, and the one it may still make, *)
(* are covered by its deletions and by the record it has.                  *)
(***************************************************************************)
Pending(k) == IF k \in Intended THEN 1 ELSE 0

Used(k) == IF k \in Free THEN 0 ELSE 1

Accounted == \A k \in Key : consumes[k] + Pending(k) <= erased[k] + Used(k)

LEMMA AccountedStep ==
  ASSUME TypeOK, TypeOK', Accounted, [Promise!Next]_(Promise!vars)
  PROVE  Accounted'
<1> SUFFICES ASSUME NEW k \in Key
             PROVE  consumes'[k] + Pending(k)' <= erased'[k] + Used(k)'
  BY DEF Accounted
<1>1. /\ consumes[k] + Pending(k) <= erased[k] + Used(k)
      /\ consumes[k] \in Nat /\ erased[k] \in Nat
      /\ consumes'[k] \in Nat /\ erased'[k] \in Nat
  BY DEF Accounted, TypeOK
<1>2. CASE UNCHANGED Promise!vars
  BY <1>1, <1>2 DEF Promise!vars, Pending, Used
<1>3. CASE Promise!GiveUp
  BY <1>1, <1>3 DEF Promise!GiveUp, Pending, Used
<1>4. ASSUME NEW j \in Key, Promise!Intend(j)
      PROVE  consumes'[k] + Pending(k)' <= erased'[k] + Used(k)'
  BY <1>1, <1>4 DEF Promise!Intend, Pending, Used
<1>5. ASSUME NEW j \in Key, Promise!Spend(j)
      PROVE  consumes'[k] + Pending(k)' <= erased'[k] + Used(k)'
  <2>1. consumes'[k] = IF j = k THEN consumes[k] + 1 ELSE consumes[k]
    BY <1>5 DEF Promise!Spend, TypeOK
  <2> QED
    BY <1>1, <1>5, <2>1 DEF Promise!Spend, Pending, Used
<1>6. ASSUME NEW forgotten \in SUBSET Key, Promise!Forget(forgotten)
      PROVE  consumes'[k] + Pending(k)' <= erased'[k] + Used(k)'
  <2>1. erased'[k] = IF k \in forgotten THEN erased[k] + 1 ELSE erased[k]
    BY <1>6 DEF Promise!Forget
  <2> QED
    BY <1>1, <1>6, <2>1 DEF Promise!Forget, Pending, Used
<1> QED
  BY <1>2, <1>3, <1>4, <1>5, <1>6 DEF Promise!Next

LEMMA AccountedInit == Init => Accounted
  BY DEF Init, Accounted, Pending, Used, Free, Intended, HasRecord, NoRecord

\* No key sends more consume calls than one, and one for every time that the
\* evidence of its use was deleted, whatever its callers retry and whatever
\* crashes, stops and failing writes of the audit come between.
THEOREM OneConsumePerRecord == Spec => []ConsumesBounded
<1>1. Accounted /\ Inv /\ Inv' /\ [Next]_vars => Accounted'
  BY PromiseStep, AccountedStep DEF Inv
<1>2. Accounted /\ Inv => ConsumesBounded
  BY DEF Accounted, Inv, TypeOK, ConsumesBounded, Pending, Used
<1> QED
  BY <1>1, <1>2, AccountedInit, SpecInv, PTL DEF Spec

(***************************************************************************)
(* What is said of a key, by its record or by a call, and what backs it.   *)
(* A success is backed by the credit that was taken, a failure by the one  *)
(* call that the key has sent: as it sends no other, none can be taken any *)
(* more.                                                                   *)
(***************************************************************************)
Silent == {"none", "error", "pending", "unknown"}

Said(k, word) ==
  \/ word \in Silent
  \/ word = audit[k].outcome
  \/ \E c \in Caller : calls[c].key = k /\ calls[c].result = word

Backed(k, word) ==
  /\ word = "succeeded" => applied[k] > 0
  /\ word = "failed" /\ erased[k] = 0 => applied[k] = 0 /\ consumes[k] > 0

AllBacked == \A k \in Key : \A word \in Result : Said(k, word) => Backed(k, word)

TakenByCalls == \A k \in Key : applied[k] <= consumes[k]

Truth == AllBacked /\ TakenByCalls

\* A step that sends nothing, and repeats what is said or says nothing.
Repeats ==
  /\ UNCHANGED <<consumes, applied>>
  /\ \A k \in Key : erased'[k] >= erased[k]
  /\ \A k \in Key : Said(k, audit'[k].outcome)
  /\ \A c \in Caller : calls'[c].key \in Key => Said(calls'[c].key, calls'[c].result)

LEMMA RepeatsTruth ==
  ASSUME Inv, Inv', Truth, Repeats
  PROVE  Truth'
<1>1. ASSUME NEW k \in Key, NEW word \in Result, Said(k, word)' PROVE Said(k, word)
  BY <1>1 DEF Said, Repeats
<1>2. ASSUME NEW k \in Key, NEW word \in Result, Said(k, word)' PROVE Backed(k, word)'
  <2>1. Backed(k, word)
    BY <1>1, <1>2 DEF Truth, AllBacked
  <2>2. consumes' = consumes /\ applied' = applied /\ (erased'[k] = 0 => erased[k] = 0)
    BY DEF Repeats, Inv, TypeOK
  <2> QED
    BY <2>1, <2>2 DEF Backed
<1>3. TakenByCalls'
  BY DEF Truth, TakenByCalls, Repeats
<1> QED
  BY <1>2, <1>3 DEF Truth, AllBacked

\* What a call or a record says is said.
LEMMA Spoken ==
  ASSUME Inv
  PROVE  /\ \A k \in Key : Said(k, audit[k].outcome)
         /\ \A c \in Caller : calls[c].key \in Key => Said(calls[c].key, calls[c].result)
  BY DEF Said

LEMMA AnswerSaid ==
  ASSUME NEW k \in Key, NEW word, Said(k, word)
  PROVE  Said(k, Answer(word))
  BY DEF Said, Answer, Silent

\* A step of one call, whose key stays.
LEMMA MoveRepeats ==
  ASSUME Inv, NEW c \in Caller, NEW pc \in Place, NEW word \in Result,
         GotoWith(c, pc, word), calls[c].key \in Key, Said(calls[c].key, word),
         \A k \in Key : Said(k, audit'[k].outcome),
         UNCHANGED <<consumes, applied, erased>>
  PROVE  Repeats
<1>1. /\ calls'[c].key = calls[c].key /\ calls'[c].result = word
      /\ \A d \in Caller : d # c => calls'[d] = calls[d]
  BY MoveOnly DEF Inv
<1>2. ASSUME NEW d \in Caller, calls'[d].key \in Key
      PROVE  Said(calls'[d].key, calls'[d].result)
  BY <1>1, <1>2, Spoken
<1>3. \A k \in Key : erased'[k] >= erased[k]
  BY DEF Inv, TypeOK
<1> QED
  BY <1>2, <1>3 DEF Repeats

LEMMA GotoRepeats ==
  ASSUME Inv, NEW c \in Caller, NEW pc \in Place, Goto(c, pc), calls[c].key \in Key,
         \A k \in Key : Said(k, audit'[k].outcome),
         UNCHANGED <<consumes, applied, erased>>
  PROVE  Repeats
<1>1. GotoWith(c, pc, calls[c].result)
  BY GotoIsMove DEF Inv
<1>2. calls[c].result \in Result
  BY DEF Inv, TypeOK, Call
<1> QED
  BY <1>1, <1>2, MoveRepeats, Spoken

\* A step that replaces one call by one that says nothing.
LEMMA ReplaceRepeats ==
  ASSUME Inv, NEW c \in Caller, NEW call \in Call, call.result \in Silent,
         calls' = [calls EXCEPT ![c] = call], audit' = audit,
         UNCHANGED <<consumes, applied, erased>>
  PROVE  Repeats
<1>1. calls'[c] = call /\ \A d \in Caller : d # c => calls'[d] = calls[d]
  BY DEF Inv, TypeOK
<1>2. ASSUME NEW d \in Caller, calls'[d].key \in Key
      PROVE  Said(calls'[d].key, calls'[d].result)
  <2>1. CASE d = c
    BY <1>1, <2>1 DEF Said
  <2>2. CASE d # c
    BY <1>1, <1>2, <2>2, Spoken
  <2> QED
    BY <2>1, <2>2
<1>3. \A k \in Key : erased'[k] >= erased[k]
  BY DEF Inv, TypeOK
<1> QED
  BY <1>2, <1>3, Spoken DEF Repeats

\* A write of the record that a call has says what is already said, or what
\* the call says.
LEMMA WriteSaid ==
  ASSUME Inv, NEW c \in Caller, NEW word \in Outcome, NEW out \in WriteOutcomes,
         Write(out, WithRecord(c, word)), calls[c].key \in Key, Said(calls[c].key, word)
  PROVE  \A k \in Key : Said(k, audit'[k].outcome)
<1> SUFFICES ASSUME NEW k \in Key PROVE Said(k, audit'[k].outcome)
  OBVIOUS
<1>1. CASE audit' = audit
  BY <1>1, Spoken
<1>2. CASE audit' = WithRecord(c, word)
  <2>1. audit'[k].outcome = IF k = calls[c].key THEN word ELSE audit[k].outcome
    BY <1>2 DEF WithRecord, Inv, TypeOK
  <2> QED
    BY <2>1, Spoken
<1> QED
  BY <1>1, <1>2 DEF Write

LEMMA SilentWords == \A k \in Key : \A word \in Silent : Said(k, word)
  BY DEF Said

LEMMA AllSpoken ==
  ASSUME Inv, audit' = audit
  PROVE  \A k \in Key : Said(k, audit'[k].outcome)
  BY Spoken

\* The moves of one call that leave the audit alone.
LEMMA QuietTruth ==
  ASSUME Inv, NEW c \in Caller,
         \/ FindRecord(c) \/ RefuseAccount(c) \/ StartRefresh(c) \/ LeaveFetch(c)
         \/ ResolveConflict(c) \/ EnterConsume(c) \/ ReloadRecord(c)
  PROVE  Repeats
<1> DEFINE k == calls[c].key
           r == audit[k].outcome
<1>1. /\ audit' = audit /\ UNCHANGED <<consumes, applied, erased>>
      /\ calls[c].pc # "idle"
  BY DEF FindRecord, RefuseAccount, StartRefresh, LeaveFetch, ResolveConflict, EnterConsume,
     ReloadRecord, ReadFails, At, upstream
<1>2. k \in Key /\ calls[c].result \in Result
  BY <1>1 DEF Inv, TypeOK, CallsFit, Fits, Call
<1>3. /\ r \in Result /\ Answer(r) \in Result /\ Answer(calls[c].result) \in Result
      /\ Said(k, r) /\ Said(k, Answer(r))
      /\ Said(k, calls[c].result) /\ Said(k, Answer(calls[c].result))
  BY <1>2, Spoken, AnswerSaid, AnswerType DEF Inv, TypeOK, Record, Result
<1>4. /\ Said(k, "error") /\ Said(k, "pending")
      /\ {"error", "pending"} \subseteq Result /\ Answer("error") = "error"
  BY <1>2, SilentWords DEF Silent, Result, Outcome, Answer
<1>5. SUFFICES \/ \E pc \in Place : Goto(c, pc)
               \/ \E pc \in Place, word \in Result : GotoWith(c, pc, word) /\ Said(k, word)
  BY <1>1, <1>2, AllSpoken, GotoRepeats, MoveRepeats
<1>6. CASE FindRecord(c)
  BY <1>3, <1>4, <1>6 DEF FindRecord, Return, Place
<1>7. CASE RefuseAccount(c)
  BY <1>4, <1>7 DEF RefuseAccount, Return, Place
<1>8. CASE StartRefresh(c)
  BY <1>8 DEF StartRefresh, Place
<1>9. CASE LeaveFetch(c)
  <2>1. /\ calls' = [calls EXCEPT ![c] = Refreshed(calls[c], 0)]
        /\ calls[c] \in Call
    BY <1>9 DEF LeaveFetch, Inv, TypeOK
  <2>2. CASE calls[c].result # "none"
    BY <2>1, <2>2 DEF Refreshed, Goto, Place
  <2>3. CASE calls[c].result = "none"
    <3>1. Refreshed(calls[c], 0) = [calls[c] EXCEPT !.pc = "finish", !.result = "error"]
      BY <2>3 DEF Refreshed
    <3>2. GotoWith(c, "finish", "error")
      BY <2>1, <3>1 DEF GotoWith, Inv, TypeOK
    <3> QED
      BY <1>4, <3>2 DEF Place
  <2> QED
    BY <2>2, <2>3
<1>10. CASE ResolveConflict(c)
  BY <1>3, <1>4, <1>10 DEF ResolveConflict, Place
<1>11. CASE EnterConsume(c)
  BY <1>4, <1>11 DEF EnterConsume, Place
<1>12. CASE ReloadRecord(c)
  BY <1>3, <1>4, <1>12 DEF ReloadRecord, Return, Place
<1> QED
  BY <1>6, <1>7, <1>8, <1>9, <1>10, <1>11, <1>12

\* The moves of one call that write the audit.
LEMMA WriterTruth ==
  ASSUME Inv, NEW c \in Caller, RecoverOrphan(c) \/ AppendPending(c) \/ Settle(c)
  PROVE  Repeats
<1> DEFINE k == calls[c].key
<1>1. UNCHANGED <<consumes, applied, erased>> /\ calls[c].pc # "idle"
  BY DEF RecoverOrphan, AppendPending, Settle, At, upstream
<1>2. k \in Key
  BY <1>1 DEF Inv, CallsFit, Fits
<1>3. /\ \A word \in {"error", "unknown", "pending"} : Said(k, word)
      /\ {"unknown", "pending"} \subseteq Outcome /\ {"error", "unknown"} \subseteq Result
  BY <1>2, SilentWords DEF Silent, Result, Outcome
<1>4. CASE RecoverOrphan(c)
  <2>1. GotoWith(c, "idle", "unknown")
    BY <1>4 DEF RecoverOrphan, Return, Answer
  <2>2. \A j \in Key : Said(j, audit'[j].outcome)
    BY <1>2, <1>3, <1>4, WriteSaid, AllSpoken DEF RecoverOrphan, ReadFails
  <2> QED
    BY <1>1, <1>2, <1>3, <2>1, <2>2, MoveRepeats DEF Place
<1>5. CASE AppendPending(c)
  <2>1. \A j \in Key : Said(j, audit'[j].outcome)
    BY <1>2, <1>3, <1>5, WriteSaid, AllSpoken DEF AppendPending, ReadFails
  <2> QED
    BY <1>1, <1>2, <1>3, <1>5, <2>1, MoveRepeats, GotoRepeats DEF AppendPending, Place
<1>6. CASE Settle(c)
  <2>1. calls[c].result \in Outcome /\ Said(k, calls[c].result)
    BY <1>2, <1>6, Spoken DEF Settle, At, Inv, CallsFit, Fits
  <2>2. \A j \in Key : Said(j, audit'[j].outcome)
    BY <1>2, <1>6, <2>1, WriteSaid, AllSpoken DEF Settle, ReadFails
  <2> QED
    BY <1>1, <1>2, <1>3, <1>6, <2>2, MoveRepeats, GotoRepeats DEF Settle, Place
<1> QED
  BY <1>4, <1>5, <1>6

\* Joining a flight tells a call nothing yet.
LEMMA JoinTruth ==
  ASSUME Inv, NEW c \in Caller, NEW k \in Key, NEW a \in Account, JoinFlight(c, k, a),
         audit' = audit, UNCHANGED <<consumes, applied, erased>>
  PROVE  Repeats
<1>1. PICK call \in {[pc |-> "waiting", key |-> k, account |-> a, result |-> "none"],
                     [pc |-> "idle", key |-> k, account |-> a, result |-> "error"]} :
        calls' = [calls EXCEPT ![c] = call]
  BY DEF JoinFlight
<1>2. call \in Call /\ call.result \in Silent
  BY DEF Call, Place, Result, Outcome, Silent
<1> QED
  BY <1>1, <1>2, ReplaceRepeats

LEMMA ArriveTruth ==
  ASSUME Inv, NEW c \in Caller, NEW k \in Key, NEW a \in Account, Arrive(c, k, a)
  PROVE  Repeats
<1>1. audit' = audit /\ UNCHANGED <<consumes, applied, erased>>
  BY DEF Arrive, upstream
<1>2. CASE JoinFlight(c, k, a)
  BY <1>1, <1>2, JoinTruth
<1>3. CASE calls' = [calls EXCEPT ![c] = [pc |-> "lookup", key |-> k, account |-> a,
                                          result |-> "none"]]
  <2>1. [pc |-> "lookup", key |-> k, account |-> a, result |-> "none"] \in Call
    BY DEF Call, Place, Result
  <2> QED
    BY <1>1, <1>3, <2>1, ReplaceRepeats DEF Silent
<1> QED
  BY <1>2, <1>3 DEF Arrive

LEMMA BeginFlightTruth ==
  ASSUME Inv, NEW c \in Caller, BeginFlight(c)
  PROVE  Repeats
<1>1. audit' = audit /\ UNCHANGED <<consumes, applied, erased>>
  BY DEF BeginFlight, upstream
<1>2. calls[c].key \in Key /\ calls[c].account \in Account
  BY DEF BeginFlight, At, Inv, CallsFit, Fits
<1>3. CASE JoinFlight(c, calls[c].key, calls[c].account)
  BY <1>1, <1>2, <1>3, JoinTruth
<1>4. CASE Return(c, "error")
  <2>1. GotoWith(c, "idle", "error") /\ Said(calls[c].key, "error")
    BY <1>2, <1>4, SilentWords DEF Return, Answer, Silent
  <2> QED
    BY <1>1, <1>2, <2>1, MoveRepeats, AllSpoken DEF Place, Result
<1>5. CASE Goto(c, "refresh")
  BY <1>1, <1>2, <1>5, GotoRepeats, AllSpoken DEF Place
<1> QED
  BY <1>3, <1>4, <1>5 DEF BeginFlight

\* Those who share a flight are told what its owner is told.
LEMMA FinishFlightTruth ==
  ASSUME Inv, NEW c \in Caller, FinishFlight(c)
  PROVE  Repeats
<1> DEFINE k == calls[c].key
           result == calls[c].result
<1>1. audit' = audit /\ UNCHANGED <<consumes, applied, erased>>
  BY DEF FinishFlight, upstream
<1>2. k \in Key /\ Said(k, result) /\ Said(k, Answer(result)) /\ Said(k, "unknown")
  BY Spoken, AnswerSaid, SilentWords DEF FinishFlight, At, Inv, CallsFit, Fits, Silent
<1>3. ASSUME NEW d \in Caller, calls'[d].key \in Key
      PROVE  Said(calls'[d].key, calls'[d].result)
  <2>1. calls[d] \in Call /\ calls[c] \in Call
    BY DEF Inv, TypeOK
  <2>2. CASE d = c
    <3>1. calls'[d] = [calls[c] EXCEPT !.pc = "idle", !.result = Answer(result)]
      BY <2>2 DEF FinishFlight
    <3>2. calls'[d].key = k /\ calls'[d].result = Answer(result)
      BY <2>1, <3>1 DEF Call
    <3> QED
      BY <1>2, <3>2
  <2>3. CASE d # c /\ Waits(d, k)
    <3>1. calls'[d] = Woken(calls[d], result)
      BY <2>3 DEF FinishFlight
    <3>2. calls'[d].key = k /\ calls'[d].result \in {"unknown", result}
      BY <2>1, <2>3, <3>1 DEF Woken, Waits, Call
    <3> QED
      BY <1>2, <3>2
  <2>4. CASE d # c /\ ~ Waits(d, k)
    <3>1. calls'[d] = calls[d]
      BY <2>4 DEF FinishFlight
    <3> QED
      BY <1>3, <3>1, Spoken
  <2> QED
    BY <2>2, <2>3, <2>4
<1>4. \A j \in Key : erased'[j] >= erased[j]
  BY <1>1 DEF Inv, TypeOK
<1> QED
  BY <1>1, <1>3, <1>4, AllSpoken DEF Repeats

\* The steps that change no record, no history and no word of a call.
LEMMA StillRepeats ==
  ASSUME Inv, UNCHANGED <<audit, calls, consumes, applied, erased>>
  PROVE  Repeats
<1>1. \A k \in Key : erased'[k] >= erased[k]
  BY DEF Inv, TypeOK
<1> QED
  BY <1>1, Spoken DEF Repeats

LEMMA FetchTruth ==
  ASSUME Inv, NEW a \in Account, FetchStep(a) \/ PanelRefresh(a)
  PROVE  Repeats
<1>1. audit' = audit /\ UNCHANGED <<consumes, applied, erased>>
  BY DEF FetchStep, AnswerFetch, DeliverFetch, PanelRefresh, upstream
<1>2. CASE calls' = calls
  BY <1>1, <1>2, StillRepeats
<1>3. CASE DeliverFetch(a)
  <2>1. ASSUME NEW c \in Caller, calls'[c].key \in Key
        PROVE  Said(calls'[c].key, calls'[c].result)
    <3>1. calls[c] \in Call
      BY DEF Inv, TypeOK
    <3>2. calls'[c] \in {calls[c], Refreshed(calls[c], fetches[a].count)}
      BY <1>3 DEF DeliverFetch
    <3>3. /\ calls'[c].key = calls[c].key
          /\ calls'[c].result \in {calls[c].result, "error"}
      BY <3>1, <3>2 DEF Refreshed, Call
    <3> QED
      BY <2>1, <3>3, Spoken DEF Said, Silent
  <2>2. \A k \in Key : erased'[k] >= erased[k]
    BY <1>1 DEF Inv, TypeOK
  <2> QED
    BY <1>1, <2>1, <2>2, AllSpoken DEF Repeats
<1> QED
  BY <1>2, <1>3 DEF FetchStep, AnswerFetch, PanelRefresh

LEMMA RuntimeTruth ==
  ASSUME Inv, Start \/ BeginStop \/ PassGate \/ StopReturns
  PROVE  Repeats
<1>1. UNCHANGED <<calls, consumes, applied, erased>>
  BY DEF Start, BeginStop, PassGate, StopReturns, upstream
<1>2. CASE audit' = audit
  BY <1>1, <1>2, StillRepeats
<1>3. CASE audit' = [k \in Key |-> RecoveredRecord(audit[k])]
  <2>1. \A k \in Key : audit'[k].outcome \in {audit[k].outcome, "unknown"}
    BY <1>3 DEF RecoveredRecord, Inv, TypeOK, Record
  <2>2. \A k \in Key : Said(k, audit'[k].outcome)
    BY <2>1, Spoken, SilentWords DEF Silent
  <2>3. \A k \in Key : erased'[k] >= erased[k]
    BY <1>1 DEF Inv, TypeOK
  <2> QED
    BY <1>1, <2>2, <2>3, Spoken DEF Repeats
<1> QED
  BY <1>2, <1>3 DEF Start, BeginStop, PassGate, StopReturns, ReadFails, Write

LEMMA CrashTruth ==
  ASSUME Inv, Crash
  PROVE  Repeats
<1>1. \A c \in Caller : calls'[c].key = Null
  BY DEF Crash, NoCall
<1>2. audit' = audit /\ UNCHANGED <<consumes, applied, erased>>
  BY DEF Crash, upstream
<1>3. \A k \in Key : erased'[k] >= erased[k]
  BY <1>2 DEF Inv, TypeOK
<1> QED
  BY <1>1, <1>2, <1>3, AllSpoken, ResetAssumption DEF Repeats

LEMMA EraseTruth ==
  ASSUME Inv, NEW keys \in SUBSET Key, EraseRecords(keys),
         UNCHANGED <<calls, consumes, applied>>,
         \A k \in Key : audit'[k] \in {audit[k], NoRecord}
  PROVE  Repeats
<1>1. \A k \in Key : Said(k, audit'[k].outcome)
  BY Spoken, SilentWords DEF NoRecord, Silent
<1>2. \A k \in Key : erased'[k] >= erased[k]
  BY DEF EraseRecords, Inv, TypeOK
<1> QED
  BY <1>1, <1>2, Spoken DEF Repeats

LEMMA ForgetTruth ==
  ASSUME Inv, ClearAudit \/ \E k \in Key : ExpireRecord(k)
  PROVE  Repeats
<1>1. UNCHANGED <<calls, consumes, applied>>
  BY DEF ClearAudit, ExpireRecord, upstream
<1>2. CASE audit' = audit /\ erased' = erased
  BY <1>1, <1>2, StillRepeats
<1>3. CASE audit' = [k \in Key |-> NoRecord] /\ EraseRecords(Key)
  BY <1>1, <1>3, EraseTruth
<1>4. ASSUME NEW k \in Key, ExpireRecord(k) PROVE Repeats
  BY <1>1, <1>4, EraseTruth DEF ExpireRecord, Inv, TypeOK
<1> QED
  BY <1>2, <1>3, <1>4 DEF ClearAudit

\* The only new word is that of the consume call.  Its key has an intention,
\* so without a deletion it has sent nothing before and nothing else is known
\* of it.
LEMMA ConsumeReturnsTruth ==
  ASSUME Inv, Inv', Accounted, Truth, NEW c \in Caller, ConsumeReturns(c)
  PROVE  Truth'
<1> DEFINE k == calls[c].key
           a == calls[c].account
<1>1. audit' = audit /\ erased' = erased /\ calls[c].pc = "consuming"
  BY DEF ConsumeReturns, At
<1>2. k \in Key /\ flights[k] = c /\ c # Null /\ calls[c] \in Call
  BY <1>1, ResetAssumption DEF Inv, TypeOK, CallsFit, Fits, OwnersAgree, Owning
<1>3. erased[k] = 0 => consumes[k] = 0 /\ applied[k] = 0
  <2>1. Pending(k) = 1 /\ Used(k) \in {0, 1}
    BY <1>1, <1>2 DEF Pending, Used, Intended, Committed
  <2>2. consumes[k] + Pending(k) <= erased[k] + Used(k) /\ applied[k] <= consumes[k]
    BY <1>2 DEF Accounted, Truth, TakenByCalls
  <2>3. consumes[k] \in Nat /\ applied[k] \in Nat /\ erased[k] \in Nat
    BY <1>2 DEF Inv, TypeOK
  <2> QED
    BY <2>1, <2>2, <2>3
<1>4. PICK reply \in {"ok", "rejected", "lost", "unsent"}, taken \in {0, 1} :
        /\ reply = "ok" => taken = 1
        /\ reply \in {"rejected", "unsent"} => taken = 0
        /\ applied' = [applied EXCEPT ![k] = @ + taken]
        /\ consumes' = IF reply = "unsent" THEN consumes ELSE [consumes EXCEPT ![k] = @ + 1]
        /\ GotoWith(c, "refresh", FinalResetOutcome(reply))
  BY DEF ConsumeReturns, AfterConsume
<1> DEFINE word == FinalResetOutcome(reply)
<1>5. /\ word \in {"succeeded", "failed", "unknown"}
      /\ word = "succeeded" <=> reply = "ok"
      /\ word = "failed" <=> reply = "rejected"
  BY DEF FinalResetOutcome
<1>6. /\ calls'[c].key = k /\ calls'[c].result = word
      /\ \A d \in Caller : d # c => calls'[d] = calls[d]
  BY <1>4, <1>5, MoveOnly DEF Inv, Place, Result, Outcome
<1>7. /\ applied'[k] = applied[k] + taken
      /\ consumes'[k] = IF reply = "unsent" THEN consumes[k] ELSE consumes[k] + 1
      /\ \A j \in Key : j # k => applied'[j] = applied[j] /\ consumes'[j] = consumes[j]
  BY <1>2, <1>4 DEF Inv, TypeOK
<1>8. \A j \in Key : applied[j] \in Nat /\ consumes[j] \in Nat
  BY DEF Inv, TypeOK
<1>9. ASSUME NEW j \in Key, NEW said \in Result, Said(j, said)'
      PROVE  Said(j, said) \/ (j = k /\ said = word)
  BY <1>1, <1>6, <1>9 DEF Said
<1>10. ASSUME NEW j \in Key, NEW said \in Result, Said(j, said)'
       PROVE  Backed(j, said)'
  <2>1. CASE j # k
    <3>1. Backed(j, said)
      BY <1>9, <1>10, <2>1 DEF Truth, AllBacked
    <3> QED
      BY <1>1, <1>7, <2>1, <3>1 DEF Backed
  <2>2. CASE j = k /\ said = word
    BY <1>1, <1>2, <1>3, <1>4, <1>5, <1>7, <1>8, <2>2 DEF Backed
  <2>3. CASE j = k /\ said # word
    <3>1. Backed(k, said)
      BY <1>9, <1>10, <2>3 DEF Truth, AllBacked
    <3>2. said = "failed" => erased[k] # 0
      BY <1>3, <3>1 DEF Backed
    <3> QED
      BY <1>1, <1>2, <1>7, <1>8, <2>3, <3>1, <3>2 DEF Backed
  <2> QED
    BY <2>1, <2>2, <2>3
<1>11. TakenByCalls'
  <2> SUFFICES ASSUME NEW j \in Key PROVE applied'[j] <= consumes'[j]
    BY DEF TakenByCalls
  <2>1. applied[j] <= consumes[j]
    BY DEF Truth, TakenByCalls
  <2> QED
    BY <1>4, <1>7, <1>8, <2>1
<1> QED
  BY <1>10, <1>11 DEF Truth, AllBacked

LEMMA TruthStep ==
  ASSUME Inv, Inv', Accounted, Truth, [Next]_vars
  PROVE  Truth'
<1>1. CASE UNCHANGED vars
  BY <1>1, StillRepeats, RepeatsTruth DEF vars
<1>2. ASSUME NEW c \in Caller, CallStep(c) PROVE Truth'
  BY <1>2, QuietTruth, WriterTruth, BeginFlightTruth, FinishFlightTruth, ConsumeReturnsTruth,
     RepeatsTruth DEF CallStep
<1>3. ASSUME NEW c \in Caller, NEW k \in Key, NEW a \in Account, Arrive(c, k, a)
      PROVE  Truth'
  BY <1>3, ArriveTruth, RepeatsTruth
<1>4. ASSUME NEW a \in Account, FetchStep(a) \/ PanelRefresh(a) PROVE Truth'
  BY <1>4, FetchTruth, RepeatsTruth
<1>5. CASE ClearAudit \/ \E k \in Key : ExpireRecord(k)
  BY <1>5, ForgetTruth, RepeatsTruth
<1>6. CASE Start \/ BeginStop \/ PassGate \/ StopReturns
  BY <1>6, RuntimeTruth, RepeatsTruth
<1>7. CASE Crash
  BY <1>7, CrashTruth, RepeatsTruth
<1> QED
  BY <1>1, <1>2, <1>3, <1>4, <1>5, <1>6, <1>7 DEF Next

LEMMA TruthInit == Init => Truth
<1> SUFFICES ASSUME Init PROVE Truth
  OBVIOUS
<1>1. TakenByCalls
  BY DEF Init, TakenByCalls
<1>2. ASSUME NEW k \in Key, NEW word \in Result, Said(k, word) PROVE word \in Silent
  BY <1>2 DEF Init, NoRecord, NoCall, Said, Silent
<1>3. AllBacked
  BY <1>2 DEF AllBacked, Backed, Silent
<1> QED
  BY <1>1, <1>3 DEF Truth

\* Neither a record nor an answer says "succeeded" of a reset that took no
\* credit, nor, while the evidence of the key stands, "failed" of one that did:
\* through joined calls, orphans, conflicts, lost answers and failing writes.
THEOREM OutcomesAreTrue == Spec => []OutcomeTruthful
<1>1. Accounted /\ Inv /\ Inv' /\ [Next]_vars => Accounted'
  BY PromiseStep, AccountedStep DEF Inv
<1>2. Truth /\ Accounted /\ Inv /\ Inv' /\ [Next]_vars => Truth'
  BY TruthStep
<1>3. Truth /\ Inv => OutcomeTruthful
  <2> SUFFICES ASSUME Truth, Inv PROVE OutcomeTruthful
    OBVIOUS
  <2>1. \A k \in Key : \A word \in Result : Said(k, word) => Truthful(k, word)
    BY DEF Truth, AllBacked, Backed, Truthful
  <2>2. \A k \in Key : audit[k].outcome \in Result
    BY DEF Inv, TypeOK, Record, Result
  <2>3. \A c \in Caller : calls[c].result \in Result /\ calls[c].key \in Key \cup {Null}
    BY DEF Inv, TypeOK, Call
  <2> QED
    BY <2>1, <2>2, <2>3, Spoken DEF OutcomeTruthful
<1> QED
  BY <1>1, <1>2, <1>3, AccountedInit, TruthInit, SpecInv, PTL DEF Spec

(***************************************************************************)
(* The credit a call was told of is there until its consume call.  Resets  *)
(* of one account exclude each other, so only stale news can deceive: an   *)
(* answer from before a consume call is delivered while the call that made *)
(* it still waits for that answer, or after Stop has shut out new flights. *)
(***************************************************************************)
Asking == {"refresh", "refreshing"}
Provided == {"append", "gate", "consuming"}

OwnersApart ==
  \A c, d \in Caller :
    /\ calls[c].pc \in Owning /\ calls[d].pc \in Owning
    /\ calls[c].account = calls[d].account
    => c = d

NothingRuns ==
  /\ phase = "down" => \A c \in Caller : calls[c].pc = "idle"
  /\ phase \in {"down", "stopped"} =>
       /\ \A c \in Caller : calls[c].pc \notin Owning
       /\ \A a \in Account : fetches[a].owner = Null

NoFetchNoNews == \A a \in Account : fetches[a].owner = Null => fetches[a].count = 0

CreditThere == \A c \in Caller : calls[c].pc \in Provided => credits[calls[c].account] > 0

Stale(a) == fetches[a].count > 0 /\ credits[a] = 0

\* A call that asks about a after its consume call.
AsksAfter(c, a) ==
  calls[c].pc \in Asking /\ calls[c].account = a /\ calls[c].result # "none"

NewsFresh ==
  \A a \in Account : Stale(a) =>
    \/ \E c \in Caller : AsksAfter(c, a)
    \/ /\ Stopped
       /\ \A c \in Caller :
            calls[c].pc \in Asking /\ calls[c].account = a => calls[c].result # "none"

Provision == OwnersApart /\ NothingRuns /\ NoFetchNoNews /\ CreditThere /\ NewsFresh

\* A step in which no call asks, takes a flight or is provided.
CalmCall(c) ==
  \/ calls'[c] = calls[c]
  \/ /\ calls[c].pc \notin Asking /\ calls'[c].pc \notin Asking
     /\ calls'[c].pc \in Owning => calls[c].pc \in Owning
     /\ calls'[c].pc \in Owning => calls'[c].account = calls[c].account
     /\ calls'[c].pc \in Provided => calls[c].pc \in Provided
     /\ phase = "down" => calls'[c].pc = "idle"

Calm == UNCHANGED <<phase, fetches, credits>> /\ \A c \in Caller : CalmCall(c)

\* Whose news is stale, no call asks for the first time.
LEMMA StaleAskers ==
  ASSUME Inv, Provision, NEW a \in Account, Stale(a), NEW c \in Caller,
         calls[c].pc \in Asking, calls[c].account = a
  PROVE  calls[c].result # "none"
  BY DEF Provision, NewsFresh, OwnersApart, AsksAfter, Asking, Owning

LEMMA CalmProvision ==
  ASSUME Inv, Provision, Calm
  PROVE  Provision'
<1> USE DEF Calm, CalmCall
<1>1. OwnersApart'
  BY DEF Provision, OwnersApart
<1>2. NothingRuns'
  BY DEF Provision, NothingRuns
<1>3. NoFetchNoNews'
  BY DEF Provision, NoFetchNoNews
<1>4. CreditThere'
  BY DEF Provision, CreditThere, Provided, Owning
<1>5. NewsFresh'
  <2> SUFFICES ASSUME NEW a \in Account, Stale(a)
               PROVE  \/ \E c \in Caller : AsksAfter(c, a)'
                      \/ /\ Stopped'
                         /\ \A c \in Caller :
                              calls'[c].pc \in Asking /\ calls'[c].account = a =>
                                calls'[c].result # "none"
    BY DEF NewsFresh, Stale
  <2>1. CASE \E c \in Caller : AsksAfter(c, a)
    <3>1. PICK c \in Caller : AsksAfter(c, a)
      BY <2>1
    <3>2. AsksAfter(c, a)'
      BY <3>1 DEF AsksAfter
    <3> QED
      BY <3>2
  <2>2. CASE /\ Stopped
             /\ \A c \in Caller :
                  calls[c].pc \in Asking /\ calls[c].account = a => calls[c].result # "none"
    BY <2>2 DEF Stopped
  <2> QED
    BY <2>1, <2>2 DEF Provision, NewsFresh
<1> QED
  BY <1>1, <1>2, <1>3, <1>4, <1>5 DEF Provision

\* A calm move of one call.
LEMMA CalmMove ==
  ASSUME Inv, NEW c \in Caller, NEW pc \in Place, NEW word \in Result, GotoWith(c, pc, word),
         calls[c].pc \notin Asking \cup {"idle"}, pc \notin Asking,
         pc \in Owning => calls[c].pc \in Owning,
         pc \in Provided => calls[c].pc \in Provided,
         NothingRuns, UNCHANGED <<phase, fetches, credits>>
  PROVE  Calm
<1>1. /\ calls'[c].pc = pc /\ calls'[c].account = calls[c].account
      /\ \A d \in Caller : d # c => calls'[d] = calls[d]
  BY MoveOnly DEF Inv
<1>2. phase # "down"
  BY DEF NothingRuns
<1> QED
  BY <1>1, <1>2 DEF Calm, CalmCall

LEMMA CalmGoto ==
  ASSUME Inv, NEW c \in Caller, NEW pc \in Place, Goto(c, pc),
         calls[c].pc \notin Asking \cup {"idle"}, pc \notin Asking,
         pc \in Owning => calls[c].pc \in Owning,
         pc \in Provided => calls[c].pc \in Provided,
         NothingRuns, UNCHANGED <<phase, fetches, credits>>
  PROVE  Calm
<1>1. GotoWith(c, pc, calls[c].result) /\ calls[c].result \in Result
  BY GotoIsMove DEF Inv, TypeOK, Call
<1> QED
  BY <1>1, CalmMove

LEMMA CalmSteps ==
  ASSUME Inv, NothingRuns, NEW c \in Caller,
         \/ FindRecord(c) \/ RecoverOrphan(c) \/ RefuseAccount(c) \/ AppendPending(c)
         \/ ResolveConflict(c) \/ EnterConsume(c) \/ Settle(c) \/ ReloadRecord(c)
  PROVE  Calm
<1>1. UNCHANGED <<phase, fetches, credits>>
  BY DEF FindRecord, RecoverOrphan, RefuseAccount, AppendPending, ResolveConflict,
     EnterConsume, Settle, ReloadRecord, upstream
<1>2. \A word \in Result : Answer(word) \in Result
  BY AnswerType
<1>3. audit[calls[c].key].outcome \in Result \/ calls[c].key = Null
  BY DEF Inv, TypeOK, Call, Record, Result
<1>4. calls[c].result \in Result /\ {"error", "unknown", "pending"} \subseteq Result
  BY DEF Inv, TypeOK, Call, Result, Outcome
<1>5. calls[c].pc # "idle" => calls[c].key # Null
  BY ResetAssumption DEF Inv, CallsFit, Fits
<1> USE DEF Place, Owning, Provided, Asking, At, Return
<1>6. CASE FindRecord(c)
  BY <1>1, <1>2, <1>3, <1>4, <1>5, <1>6, CalmGoto, CalmMove DEF FindRecord
<1>7. CASE RecoverOrphan(c)
  BY <1>1, <1>2, <1>4, <1>7, CalmMove DEF RecoverOrphan
<1>8. CASE RefuseAccount(c)
  BY <1>1, <1>2, <1>4, <1>8, CalmMove DEF RefuseAccount
<1>9. CASE AppendPending(c)
  BY <1>1, <1>4, <1>9, CalmGoto, CalmMove DEF AppendPending
<1>10. CASE ResolveConflict(c)
  BY <1>1, <1>3, <1>4, <1>5, <1>10, CalmMove DEF ResolveConflict
<1>11. CASE EnterConsume(c)
  BY <1>1, <1>4, <1>11, CalmGoto, CalmMove DEF EnterConsume
<1>12. CASE Settle(c)
  BY <1>1, <1>4, <1>12, CalmGoto, CalmMove DEF Settle
<1>13. CASE ReloadRecord(c)
  BY <1>1, <1>2, <1>3, <1>4, <1>5, <1>13, CalmMove DEF ReloadRecord
<1> QED
  BY <1>6, <1>7, <1>8, <1>9, <1>10, <1>11, <1>12, <1>13

\* A call that joins a flight, or is turned away from it.
LEMMA JoinCalm ==
  ASSUME Inv, NEW c \in Caller, NEW k \in Key, NEW a \in Account, JoinFlight(c, k, a),
         calls[c].pc \notin Asking, phase # "down",
         UNCHANGED <<phase, fetches, credits>>
  PROVE  Calm
<1>1. calls'[c].pc \in {"waiting", "idle"} /\ \A d \in Caller : d # c => calls'[d] = calls[d]
  BY DEF JoinFlight, Inv, TypeOK
<1> QED
  BY <1>1 DEF Calm, CalmCall, Asking, Owning, Provided

LEMMA ArriveCalm ==
  ASSUME Inv, NEW c \in Caller, NEW k \in Key, NEW a \in Account, Arrive(c, k, a)
  PROVE  Calm
<1>1. UNCHANGED <<phase, fetches, credits>> /\ phase # "down" /\ calls[c].pc = "idle"
  BY DEF Arrive, At, upstream
<1>2. CASE JoinFlight(c, k, a)
  BY <1>1, <1>2, JoinCalm DEF Asking
<1>3. CASE calls' = [calls EXCEPT ![c] = [pc |-> "lookup", key |-> k, account |-> a,
                                          result |-> "none"]]
  <2>1. calls'[c].pc = "lookup" /\ \A d \in Caller : d # c => calls'[d] = calls[d]
    BY <1>3 DEF Inv, TypeOK
  <2> QED
    BY <1>1, <2>1 DEF Calm, CalmCall, Asking, Owning, Provided
<1> QED
  BY <1>2, <1>3 DEF Arrive

LEMMA FinishFlightCalm ==
  ASSUME Inv, NothingRuns, NEW c \in Caller, FinishFlight(c)
  PROVE  Calm
<1>1. UNCHANGED <<phase, fetches, credits>> /\ calls[c].pc = "finish"
  BY DEF FinishFlight, At, upstream
<1>2. phase # "down"
  BY <1>1 DEF NothingRuns
<1>3. ASSUME NEW d \in Caller PROVE CalmCall(d)
  <2>1. calls[d] \in Call /\ calls[c] \in Call
    BY DEF Inv, TypeOK
  <2>2. CASE d = c
    <3>1. calls'[d] = [calls[c] EXCEPT !.pc = "idle", !.result = Answer(calls[c].result)]
      BY <2>2 DEF FinishFlight
    <3> QED
      BY <1>1, <2>1, <2>2, <3>1 DEF CalmCall, Call, Asking, Owning, Provided
  <2>3. CASE d # c /\ Waits(d, calls[c].key)
    <3>1. calls'[d] = Woken(calls[d], calls[c].result)
      BY <2>3 DEF FinishFlight
    <3>2. calls'[d].pc \in {"idle", "reload"} /\ calls[d].pc = "waiting"
      BY <2>1, <2>3, <3>1 DEF Woken, Waits, At, Call
    <3> QED
      BY <1>2, <3>2 DEF CalmCall, Asking, Owning, Provided
  <2>4. CASE d # c /\ ~ Waits(d, calls[c].key)
    BY <2>4 DEF FinishFlight, CalmCall
  <2> QED
    BY <2>2, <2>3, <2>4
<1> QED
  BY <1>1, <1>3 DEF Calm

\* A flight begins for an account that no other call has, and whose news is
\* not stale: a stale answer has a call that waits for it, or comes after Stop.
LEMMA BeginFlightProvision ==
  ASSUME Inv, Provision, NEW c \in Caller, BeginFlight(c)
  PROVE  Provision'
<1> DEFINE k == calls[c].key
           a == calls[c].account
<1>1. UNCHANGED <<phase, fetches, credits>> /\ calls[c].pc = "admit"
  BY DEF BeginFlight, At, upstream
<1>2. k \in Key /\ a \in Account /\ phase # "down"
  BY <1>1 DEF Provision, NothingRuns, Inv, CallsFit, Fits
<1>3. CASE JoinFlight(c, k, a)
  BY <1>1, <1>2, <1>3, JoinCalm, CalmProvision DEF Asking
<1>4. CASE Return(c, "error")
  <2>1. GotoWith(c, "idle", "error")
    BY <1>4 DEF Return, Answer
  <2> QED
    BY <1>1, <2>1, CalmMove, CalmProvision
       DEF Provision, Place, Result, Asking, Owning, Provided
<1>5. CASE flights[k] = Null /\ ~ Stopped /\ ~ Busy(a) /\ Goto(c, "refresh")
  <2>1. GotoWith(c, "refresh", calls[c].result) /\ calls[c].result \in Result
    BY <1>5, GotoIsMove DEF Inv, TypeOK, Call
  <2>2. /\ calls'[c].pc = "refresh" /\ calls'[c].account = a
        /\ \A d \in Caller : d # c => calls'[d] = calls[d]
    BY <2>1, MoveOnly DEF Inv, Place
  <2>3. ASSUME NEW d \in Caller, calls[d].pc \in Owning PROVE calls[d].account # a
    <3>1. flights[calls[d].key] = d /\ calls[d].key \in Key
      BY <2>3 DEF Inv, OwnersAgree, CallsFit, Fits, Owning
    <3> QED
      BY <1>5, <3>1, ResetAssumption DEF Busy
  <2>4. OwnersApart'
    <3> SUFFICES ASSUME NEW d \in Caller, NEW e \in Caller,
                        calls'[d].pc \in Owning, calls'[e].pc \in Owning,
                        calls'[d].account = calls'[e].account
                 PROVE  d = e
      BY DEF OwnersApart
    <3> QED
      BY <2>2, <2>3 DEF Provision, OwnersApart
  <2>5. NothingRuns'
    BY <1>1, <1>2, <1>5 DEF Provision, NothingRuns, Stopped
  <2>6. NoFetchNoNews' /\ CreditThere'
    BY <1>1, <2>2 DEF Provision, NoFetchNoNews, CreditThere, Provided
  <2>7. NewsFresh'
    <3> SUFFICES ASSUME NEW b \in Account, Stale(b)
                 PROVE  \E d \in Caller : AsksAfter(d, b)'
      BY <1>1 DEF NewsFresh, Stale
    <3>1. PICK d \in Caller : AsksAfter(d, b)
      BY <1>5 DEF Provision, NewsFresh
    <3>2. d # c
      BY <1>1, <3>1 DEF AsksAfter, Asking
    <3>3. AsksAfter(d, b)'
      BY <2>2, <3>1, <3>2 DEF AsksAfter
    <3> QED
      BY <3>3
  <2> QED
    BY <2>4, <2>5, <2>6, <2>7 DEF Provision
<1> QED
  BY <1>3, <1>4, <1>5 DEF BeginFlight

(***************************************************************************)
(* Refreshes: one that opens has no news, and one that is answered has the *)
(* news of this instant.                                                   *)
(***************************************************************************)
LEMMA OpenFetchNews ==
  ASSUME Inv, NEW a \in Account, NEW owner \in Caller \cup {Panel}, OpenFetch(a, owner)
  PROVE  /\ fetches'[a].owner # Null /\ fetches'[a].count = 0
         /\ \A b \in Account : b # a => fetches'[b] = fetches[b]
  BY ResetAssumption DEF OpenFetch, Inv, TypeOK

LEMMA StartRefreshProvision ==
  ASSUME Inv, Provision, NEW c \in Caller, StartRefresh(c)
  PROVE  Provision'
<1> DEFINE a == calls[c].account
<1>1. UNCHANGED <<phase, credits>> /\ calls[c].pc = "refresh" /\ Goto(c, "refreshing")
  BY DEF StartRefresh, At, upstream
<1>2. a \in Account /\ calls[c].result \in Result
  BY <1>1 DEF Inv, TypeOK, Call, CallsFit, Fits
<1>3. GotoWith(c, "refreshing", calls[c].result)
  BY <1>1, GotoIsMove DEF Inv
<1>4. /\ calls'[c].pc = "refreshing" /\ calls'[c].account = a
      /\ calls'[c].result = calls[c].result
      /\ \A d \in Caller : d # c => calls'[d] = calls[d]
  BY <1>2, <1>3, MoveOnly DEF Inv, Place
<1>5. phase \notin {"down", "stopped"}
  BY <1>1 DEF Provision, NothingRuns, Owning
<1>6. \A b \in Account :
        \/ fetches'[b] = fetches[b]
        \/ fetches'[b].owner # Null /\ fetches'[b].count = 0
  BY <1>2, OpenFetchNews DEF StartRefresh
<1>7. OwnersApart'
  BY <1>1, <1>4 DEF Provision, OwnersApart, Owning
<1>8. NothingRuns' /\ NoFetchNoNews'
  BY <1>1, <1>5, <1>6 DEF Provision, NothingRuns, NoFetchNoNews
<1>9. CreditThere'
  BY <1>1, <1>4 DEF Provision, CreditThere, Provided
<1>10. \A d \in Caller, b \in Account : AsksAfter(d, b) => AsksAfter(d, b)'
  BY <1>1, <1>4 DEF AsksAfter, Asking
<1>11. NewsFresh'
  <2> SUFFICES ASSUME NEW b \in Account, Stale(b)'
               PROVE  \/ \E d \in Caller : AsksAfter(d, b)'
                      \/ /\ Stopped'
                         /\ \A d \in Caller :
                              calls'[d].pc \in Asking /\ calls'[d].account = b =>
                                calls'[d].result # "none"
    BY DEF NewsFresh
  <2>1. Stale(b)
    BY <1>1, <1>6 DEF Stale
  <2>2. CASE \E d \in Caller : AsksAfter(d, b)
    BY <1>10, <2>2
  <2>3. CASE /\ Stopped
             /\ \A d \in Caller :
                  calls[d].pc \in Asking /\ calls[d].account = b => calls[d].result # "none"
    BY <1>1, <1>4, <2>3 DEF Stopped, Asking
  <2> QED
    BY <2>1, <2>2, <2>3 DEF Provision, NewsFresh
<1> QED
  BY <1>7, <1>8, <1>9, <1>11 DEF Provision

\* A step that only makes news, or takes it away.
LEMMA NewsProvision ==
  ASSUME Inv, Provision, UNCHANGED <<phase, calls, credits>>,
         \A a \in Account : Stale(a)' => Stale(a),
         NothingRuns', NoFetchNoNews'
  PROVE  Provision'
<1>1. OwnersApart' /\ CreditThere'
  BY DEF Provision, OwnersApart, CreditThere
<1>2. NewsFresh'
  BY DEF Provision, NewsFresh, AsksAfter, Stopped
<1> QED
  BY <1>1, <1>2 DEF Provision

LEMMA NewsSteps ==
  ASSUME Inv, Provision, NEW a \in Account, PanelRefresh(a) \/ AnswerFetch(a)
  PROVE  Provision'
<1>1. UNCHANGED <<phase, calls, credits>>
  BY DEF PanelRefresh, AnswerFetch, upstream
<1>2. CASE PanelRefresh(a)
  <2>1. /\ fetches'[a].owner # Null /\ fetches'[a].count = 0
        /\ \A b \in Account : b # a => fetches'[b] = fetches[b]
    BY <1>2, OpenFetchNews DEF PanelRefresh
  <2>2. phase \in {"up", "stopping", "gated"}
    BY <1>2 DEF PanelRefresh
  <2>3. \A b \in Account : Stale(b)' => Stale(b)
    BY <1>1, <2>1 DEF Stale
  <2>4. NothingRuns' /\ NoFetchNoNews'
    BY <1>1, <2>1, <2>2 DEF Provision, NothingRuns, NoFetchNoNews
  <2> QED
    BY <1>1, <2>3, <2>4, NewsProvision
<1>3. CASE AnswerFetch(a)
  <2>1. PICK count \in {0, credits[a]} :
          fetches' = [fetches EXCEPT ![a] = [fetches[a] EXCEPT !.answered = TRUE,
                                                                !.count = count]]
    BY <1>3 DEF AnswerFetch, Inv, TypeOK
  <2>2. fetches[a] \in Fetch /\ fetches[a].owner # Null
    BY <1>3 DEF AnswerFetch, Inv, TypeOK
  <2>3. /\ fetches'[a].owner = fetches[a].owner /\ fetches'[a].count = count
        /\ \A b \in Account : b # a => fetches'[b] = fetches[b]
    BY <2>1, <2>2 DEF Inv, TypeOK, Fetch
  <2>4. credits[a] \in Nat
    BY DEF Inv, TypeOK
  <2>5. \A b \in Account : Stale(b)' => Stale(b)
    BY <1>1, <2>3, <2>4 DEF Stale
  <2>6. NothingRuns' /\ NoFetchNoNews'
    BY <1>1, <2>2, <2>3 DEF Provision, NothingRuns, NoFetchNoNews
  <2> QED
    BY <1>1, <2>5, <2>6, NewsProvision
<1> QED
  BY <1>2, <1>3

\* What the delivery of a count does to a call.
LEMMA RefreshedPlaces ==
  ASSUME NEW call \in Call, NEW count \in Nat
  PROVE  /\ Refreshed(call, count).account = call.account
         /\ Refreshed(call, count).pc \in {"settle", "append", "finish"}
         /\ Refreshed(call, count).pc = "append" => call.result = "none" /\ count > 0
  BY DEF Refreshed, Call

\* Calls that leave the refresh of a with what they are told of it.
Tells(a, count, told) ==
  /\ UNCHANGED <<phase, credits>>
  /\ \A c \in told : calls[c].pc = "refreshing" /\ calls[c].account = a
  /\ \A c \in Caller :
       calls'[c] = IF c \in told THEN Refreshed(calls[c], count) ELSE calls[c]
  /\ count = 0 \/ count = fetches[a].count
  /\ \A b \in Account : fetches'[b] = fetches[b] \/ (b = a /\ fetches'[b] = NoFetch)
  /\ fetches'[a] = NoFetch \/ Stopped

LEMMA ToldProvision ==
  ASSUME Inv, Provision, NEW a \in Account, NEW count \in Nat, NEW told \in SUBSET Caller,
         Tells(a, count, told)
  PROVE  Provision'
<1> USE DEF Tells
<1>1. \A c \in told : /\ calls'[c].account = a
                      /\ calls'[c].pc \in {"settle", "append", "finish"}
                      /\ calls'[c].pc = "append" => calls[c].result = "none" /\ count > 0
  BY RefreshedPlaces DEF Inv, TypeOK
<1>2. \A c \in Caller : c \notin told => calls'[c] = calls[c]
  OBVIOUS
<1>3. credits[a] \in Nat
  BY DEF Inv, TypeOK
<1>4. OwnersApart'
  BY <1>1, <1>2 DEF Provision, OwnersApart, Owning
<1>5. NothingRuns' /\ NoFetchNoNews'
  BY <1>1, <1>2, ResetAssumption DEF Provision, NothingRuns, NoFetchNoNews, NoFetch, Owning
<1>6. CreditThere'
  <2> SUFFICES ASSUME NEW c \in Caller, calls'[c].pc \in Provided
               PROVE  credits[calls'[c].account] > 0
    BY DEF CreditThere
  <2>1. CASE c \in told
    <3>1. calls[c].result = "none" /\ count > 0
      BY <1>1, <2>1 DEF Provided
    <3>2. ~ Stale(a)
      BY <2>1, <3>1, StaleAskers DEF Asking
    <3> QED
      BY <1>1, <1>3, <2>1, <3>1, <3>2 DEF Stale
  <2>2. CASE c \notin told
    BY <1>2, <2>2 DEF Provision, CreditThere
  <2> QED
    BY <2>1, <2>2
<1>7. NewsFresh'
  <2> SUFFICES ASSUME NEW b \in Account, Stale(b)'
               PROVE  \/ \E c \in Caller : AsksAfter(c, b)'
                      \/ /\ Stopped'
                         /\ \A c \in Caller :
                              calls'[c].pc \in Asking /\ calls'[c].account = b =>
                                calls'[c].result # "none"
    BY DEF NewsFresh
  <2>1. Stale(b) /\ fetches'[b] = fetches[b] /\ (b = a => Stopped)
    BY DEF Stale, NoFetch
  <2>2. \A c \in Caller : calls'[c].pc \in Asking => c \notin told
    BY <1>1 DEF Asking
  <2>3. CASE Stopped
    <3>1. \A c \in Caller :
            calls[c].pc \in Asking /\ calls[c].account = b => calls[c].result # "none"
      BY <2>1, StaleAskers
    <3> QED
      BY <1>2, <2>2, <2>3, <3>1 DEF Stopped
  <2>4. CASE ~ Stopped
    <3>1. PICK c \in Caller : AsksAfter(c, b)
      BY <2>1, <2>4 DEF Provision, NewsFresh
    <3>2. c \notin told
      BY <2>1, <2>4, <3>1 DEF AsksAfter
    <3> QED
      BY <1>2, <3>1, <3>2 DEF AsksAfter
  <2> QED
    BY <2>3, <2>4
<1> QED
  BY <1>4, <1>5, <1>6, <1>7 DEF Provision

LEMMA DeliverFetchProvision ==
  ASSUME Inv, Provision, NEW a \in Account, DeliverFetch(a)
  PROVE  Provision'
<1> DEFINE told == {c \in Caller : calls[c].pc = "refreshing" /\ calls[c].account = a}
<1>1. UNCHANGED <<phase, credits>>
  BY DEF DeliverFetch, upstream
<1>2. fetches[a].count \in Nat
  BY DEF Inv, TypeOK, Fetch
<1>3. \A c \in Caller :
        calls'[c] = IF c \in told THEN Refreshed(calls[c], fetches[a].count) ELSE calls[c]
  BY DEF DeliverFetch, At
<1>4. /\ fetches'[a] = NoFetch
      /\ \A b \in Account : fetches'[b] = fetches[b] \/ (b = a /\ fetches'[b] = NoFetch)
  BY DEF DeliverFetch, Inv, TypeOK
<1> HIDE DEF told
<1>5. told \in SUBSET Caller /\ \A c \in told : calls[c].pc = "refreshing" /\ calls[c].account = a
  BY DEF told
<1>6. Tells(a, fetches[a].count, told)
  BY <1>1, <1>3, <1>4, <1>5 DEF Tells
<1> QED
  BY <1>2, <1>5, <1>6, ToldProvision

LEMMA LeaveFetchProvision ==
  ASSUME Inv, Provision, NEW c \in Caller, LeaveFetch(c)
  PROVE  Provision'
<1> DEFINE a == calls[c].account
<1>1. /\ UNCHANGED <<phase, credits, fetches>>
      /\ calls[c].pc = "refreshing" /\ Stopped
  BY DEF LeaveFetch, At, upstream
<1>2. a \in Account
  BY <1>1 DEF Inv, CallsFit, Fits
<1>3. \A d \in Caller : calls'[d] = IF d \in {c} THEN Refreshed(calls[d], 0) ELSE calls[d]
  BY DEF LeaveFetch, Inv, TypeOK
<1> HIDE DEF a
<1>4. \A d \in {c} : calls[d].pc = "refreshing" /\ calls[d].account = a
  BY <1>1 DEF a
<1>5. Tells(a, 0, {c})
  BY <1>1, <1>3, <1>4 DEF Tells
<1> QED
  BY <1>2, <1>5, ToldProvision

(***************************************************************************)
(* The consume call may leave the account without a credit: from then on   *)
(* its own call asks, and no other call of the account is provided.        *)
(***************************************************************************)
LEMMA ConsumeReturnsProvision ==
  ASSUME Inv, Provision, NEW c \in Caller, ConsumeReturns(c)
  PROVE  Provision'
<1> DEFINE a == calls[c].account
<1>1. UNCHANGED <<phase, fetches>> /\ calls[c].pc = "consuming"
  BY DEF ConsumeReturns, At
<1>2. a \in Account /\ phase \notin {"down", "stopped"}
  BY <1>1 DEF Inv, CallsFit, Fits, Provision, NothingRuns, Owning
<1>3. PICK reply \in {"ok", "rejected", "lost", "unsent"}, taken \in {0, 1} :
        /\ credits' = [credits EXCEPT ![a] = @ - taken]
        /\ GotoWith(c, "refresh", FinalResetOutcome(reply))
  BY DEF ConsumeReturns, AfterConsume
<1>4. FinalResetOutcome(reply) \in Outcome /\ FinalResetOutcome(reply) # "none"
  BY DEF FinalResetOutcome, Outcome
<1>5. /\ calls'[c].pc = "refresh" /\ calls'[c].account = a /\ calls'[c].result # "none"
      /\ \A d \in Caller : d # c => calls'[d] = calls[d]
  BY <1>3, <1>4, MoveOnly DEF Inv, Place, Result
<1>6. \A b \in Account : b # a => credits'[b] = credits[b]
  BY <1>3 DEF Inv, TypeOK
<1>7. OwnersApart'
  BY <1>1, <1>5 DEF Provision, OwnersApart, Owning
<1>8. NothingRuns' /\ NoFetchNoNews'
  BY <1>1, <1>2 DEF Provision, NothingRuns, NoFetchNoNews
<1>9. CreditThere'
  <2> SUFFICES ASSUME NEW d \in Caller, calls'[d].pc \in Provided
               PROVE  credits'[calls'[d].account] > 0
    BY DEF CreditThere
  <2>1. d # c /\ calls'[d] = calls[d]
    BY <1>5 DEF Provided
  <2>2. calls[d].account # a
    BY <1>1, <2>1 DEF Provision, OwnersApart, Provided, Owning
  <2>3. calls[d].account \in Account
    BY <2>1 DEF Inv, CallsFit, Fits, Provided
  <2> QED
    BY <1>6, <2>1, <2>2, <2>3 DEF Provision, CreditThere
<1>10. NewsFresh'
  <2> SUFFICES ASSUME NEW b \in Account, Stale(b)'
               PROVE  \/ \E d \in Caller : AsksAfter(d, b)'
                      \/ /\ Stopped'
                         /\ \A d \in Caller :
                              calls'[d].pc \in Asking /\ calls'[d].account = b =>
                                calls'[d].result # "none"
    BY DEF NewsFresh
  <2>1. CASE b = a
    <3>1. AsksAfter(c, b)'
      BY <1>5, <2>1 DEF AsksAfter, Asking
    <3> QED
      BY <3>1
  <2>2. CASE b # a /\ \E d \in Caller : AsksAfter(d, b)
    <3>1. PICK d \in Caller : AsksAfter(d, b)
      BY <2>2
    <3>2. d # c
      BY <1>1, <3>1 DEF AsksAfter, Asking
    <3>3. AsksAfter(d, b)'
      BY <1>5, <3>1, <3>2 DEF AsksAfter
    <3> QED
      BY <3>3
  <2>3. CASE /\ b # a /\ Stopped
             /\ \A d \in Caller :
                  calls[d].pc \in Asking /\ calls[d].account = b => calls[d].result # "none"
    BY <1>1, <1>5, <2>3 DEF Stopped
  <2>4. b # a => Stale(b)
    BY <1>1, <1>6 DEF Stale
  <2> QED
    BY <2>1, <2>2, <2>3, <2>4 DEF Provision, NewsFresh
<1> QED
  BY <1>7, <1>8, <1>9, <1>10 DEF Provision

(***************************************************************************)
(* Start, Stop and a crash.                                                *)
(***************************************************************************)
LEMMA StartProvision ==
  ASSUME Inv, Provision, Start
  PROVE  Provision'
<1>1. UNCHANGED <<fetches, calls, credits>> /\ phase' = "up" /\ phase \in {"down", "stopped"}
  BY DEF Start, upstream
<1>2. OwnersApart' /\ NothingRuns' /\ NoFetchNoNews' /\ CreditThere'
  BY <1>1 DEF Provision, OwnersApart, NothingRuns, NoFetchNoNews, CreditThere
<1>3. \A a \in Account : fetches'[a].count = 0
  BY <1>1 DEF Provision, NothingRuns, NoFetchNoNews
<1>4. NewsFresh'
  BY <1>3 DEF NewsFresh, Stale
<1> QED
  BY <1>2, <1>4 DEF Provision

LEMMA StopProvision ==
  ASSUME Inv, Provision, BeginStop \/ PassGate \/ StopReturns
  PROVE  Provision'
<1>1. UNCHANGED <<fetches, calls, credits>> /\ phase # "down"
  BY DEF BeginStop, PassGate, StopReturns, upstream
<1>2. phase' \in {"stopping", "gated", "stopped"}
  BY DEF BeginStop, PassGate, StopReturns
<1>3. phase' = "stopped" => \A c \in Caller : calls[c].pc \notin Owning
  <2> SUFFICES ASSUME phase' = "stopped", NEW c \in Caller, calls[c].pc \in Owning
               PROVE  FALSE
    OBVIOUS
  <2>1. StopReturns
    BY DEF BeginStop, PassGate
  <2>2. flights[calls[c].key] = c /\ calls[c].key \in Key
    BY DEF Inv, OwnersAgree, CallsFit, Fits, Owning
  <2> QED
    BY <2>1, <2>2, ResetAssumption DEF StopReturns
<1>4. NothingRuns'
  BY <1>1, <1>2, <1>3 DEF NothingRuns, BeginStop, PassGate, StopReturns
<1>5. OwnersApart' /\ NoFetchNoNews' /\ CreditThere'
  BY <1>1 DEF Provision, OwnersApart, NoFetchNoNews, CreditThere
<1>6. NewsFresh'
  <2>1. Stopped'
    BY <1>2 DEF Stopped
  <2>2. \A a \in Account : Stale(a)' => Stale(a)
    BY <1>1 DEF Stale
  <2> QED
    BY <1>1, <2>1, <2>2, StaleAskers DEF NewsFresh
<1> QED
  BY <1>4, <1>5, <1>6 DEF Provision

LEMMA CrashProvision ==
  ASSUME Inv, Crash
  PROVE  Provision'
<1>1. \A c \in Caller : calls'[c].pc = "idle"
  BY DEF Crash, NoCall
<1>2. \A a \in Account : fetches'[a] = NoFetch
  BY DEF Crash
<1> QED
  BY <1>1, <1>2 DEF Provision, OwnersApart, NothingRuns, NoFetchNoNews, CreditThere,
     NewsFresh, Stale, NoFetch, Owning, Provided

LEMMA ProvisionStep ==
  ASSUME Inv, Provision, [Next]_vars
  PROVE  Provision'
<1>0. NothingRuns
  BY DEF Provision
<1>1. CASE UNCHANGED <<phase, fetches, credits, calls>>
  BY <1>1, CalmProvision DEF Calm, CalmCall
<1>2. ASSUME NEW c \in Caller, CallStep(c) PROVE Provision'
  BY <1>0, <1>2, CalmSteps, FinishFlightCalm, CalmProvision, BeginFlightProvision,
     StartRefreshProvision, LeaveFetchProvision, ConsumeReturnsProvision DEF CallStep
<1>3. ASSUME NEW c \in Caller, NEW k \in Key, NEW a \in Account, Arrive(c, k, a)
      PROVE  Provision'
  BY <1>3, ArriveCalm, CalmProvision
<1>4. ASSUME NEW a \in Account, FetchStep(a) \/ PanelRefresh(a) PROVE Provision'
  BY <1>4, NewsSteps, DeliverFetchProvision DEF FetchStep
<1>5. CASE ClearAudit \/ \E k \in Key : ExpireRecord(k)
  BY <1>1, <1>5 DEF ClearAudit, ExpireRecord, upstream
<1>6. CASE Start \/ BeginStop \/ PassGate \/ StopReturns
  BY <1>6, StartProvision, StopProvision
<1>7. CASE Crash
  BY <1>7, CrashProvision
<1> QED
  BY <1>1, <1>2, <1>3, <1>4, <1>5, <1>6, <1>7 DEF Next, vars

LEMMA ProvisionInit == Init => Provision
  BY DEF Init, NoCall, NoFetch, Provision, OwnersApart, NothingRuns, NoFetchNoNews, CreditThere,
     NewsFresh, Stale, Owning, Provided

\* Only a consume call sends, for the key of its call.
LEMMA OnlyConsumeSends ==
  ASSUME Inv, Provision, [Next]_vars, NEW k \in Key, consumes'[k] # consumes[k]
  PROVE  \E c \in Caller : calls[c].key = k /\ At(c, "consuming")
                            /\ credits[calls[c].account] > 0
<1>1. consumes' # consumes
  OBVIOUS
<1>2. PICK c \in Caller : ConsumeReturns(c)
  BY <1>1 DEF Next, vars, CallStep, FindRecord, RecoverOrphan, RefuseAccount, BeginFlight,
     StartRefresh, LeaveFetch, AppendPending, ResolveConflict, EnterConsume, Settle,
     FinishFlight, ReloadRecord, Arrive, FetchStep, AnswerFetch, DeliverFetch, PanelRefresh,
     ExpireRecord, Start, BeginStop, PassGate, StopReturns, Crash, ClearAudit, upstream
<1>3. At(c, "consuming") /\ credits[calls[c].account] > 0
  BY <1>2 DEF ConsumeReturns, At, Provision, CreditThere, Provided
<1>4. calls[c].key = k
  BY <1>2 DEF ConsumeReturns, Inv, TypeOK
<1> QED
  BY <1>3, <1>4

\* A reset that sends its consume call was told of a credit, and the credit is
\* still there, although its news may be shared with a refresh of the operator
\* and other resets of the account come and go.
THEOREM CreditAtConsume == Spec => ConsumesAvailableCredit
<1>1. Inv /\ Provision /\ [Next]_vars => Provision'
  BY ProvisionStep
<1>2. Inv /\ Provision /\ [Next]_vars =>
        [\A k \in Key : consumes'[k] # consumes[k] =>
           \E c \in Caller : calls[c].key = k /\ At(c, "consuming")
                              /\ credits[calls[c].account] > 0]_vars
  BY OnlyConsumeSends
<1> QED
  BY <1>1, <1>2, ProvisionInit, SpecInv, PTL DEF Spec, ConsumesAvailableCredit

=============================================================================
