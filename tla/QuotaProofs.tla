----------------------------- MODULE QuotaProofs -----------------------------
(***************************************************************************)
(* Theorems of QuotaService for every set of accounts and readers, every   *)
(* answer of the upstream, every configuration and outcome of the writes.  *)
(***************************************************************************)
EXTENDS QuotaService, TLAPS

(***************************************************************************)
(* Type correctness.                                                       *)
(***************************************************************************)
LEMMA NothingType ==
  /\ NoSnapshot \in Snapshot /\ NoEntry \in Entry /\ NoFlight \in Flight
  /\ \A cfg \in Configs : NoView(cfg) \in View
  BY DEF NoSnapshot, NoEntry, NoFlight, NoView, Snapshot, Entry, Flight, View

LEMMA InitType == Init => TypeOK
<1> SUFFICES ASSUME Init PROVE TypeOK
  OBVIOUS
<1>1. /\ running \in BOOLEAN /\ now \in Nat /\ config \in Configs /\ epoch \in Nat
      /\ stage \in [Caller -> Stage] /\ \A c \in Reader : stage[c] \in {"idle", "refresh"}
      /\ target \in [Caller -> Account] /\ holds \in [Account -> Nat \cup {Null}]
      /\ counter \in [Account -> Nat] /\ spent \in [faults : Nat, restarts : Nat]
  BY DEF Init, Stage, Caller
<1>2. /\ entries \in [Account -> Entry] /\ flights \in [Account -> Flight]
      /\ views \in [Account -> View]
  BY <1>1, NothingType DEF Init
<1> QED
  BY <1>1, <1>2 DEF TypeOK

LEMMA ShareType ==
  ASSUME TypeOK, NEW c \in Caller, Share(c)
  PROVE  flights' \in [Account -> Flight] /\ counter' \in [Account -> Nat]
<1> DEFINE a == target[c]
           joined == [flights[a] EXCEPT !.joined = @ \cup {c}]
           begun == [owner |-> c, joined |-> {}, startedAt |-> now, saved |-> entries[a].snapshot]
<1>1. a \in Account /\ flights[a] \in Flight /\ entries[a].snapshot \in Snapshot /\ now \in Nat
  BY DEF TypeOK, Entry
<1>2. joined \in Flight /\ begun \in Flight
  BY <1>1 DEF Flight
<1>3. flights' = [flights EXCEPT ![a] = joined] \/ flights' = [flights EXCEPT ![a] = begun]
  BY DEF Share
<1>4. counter' = counter \/ counter' = [counter EXCEPT ![a] = @ + 1]
  BY DEF Share
<1> HIDE DEF a, joined, begun
<1>5. flights' \in [Account -> Flight]
  BY <1>1, <1>2, <1>3 DEF TypeOK
<1>6. counter' \in [Account -> Nat]
  BY <1>1, <1>4 DEF TypeOK
<1> QED
  BY <1>5, <1>6

LEMMA AnsweredType ==
  ASSUME NEW c \in Caller
  PROVE  Answered(c) \in Stage /\ (c \in Reader => Answered(c) = "idle")
  BY QuotaAssumption DEF Answered, Stage

LEMMA LandType ==
  ASSUME TypeOK, NEW a \in Account, NEW e \in Entry, Land(a, e)
  PROVE  TypeOK'
<1>1. entries' \in [Account -> Entry] /\ flights' \in [Account -> Flight]
  BY NothingType DEF Land, TypeOK
<1>2. /\ stage' \in [Caller -> Stage]
      /\ \A c \in Reader : stage'[c] \in {"idle", "refresh"}
  <2>1. stage' = [c \in Caller |-> IF c \in Waiting(a) THEN Answered(c) ELSE stage[c]]
    BY DEF Land
  <2>2. Reader \subseteq Caller
    BY DEF Caller
  <2> QED
    BY <2>1, <2>2, AnsweredType DEF TypeOK
<1> QED
  BY <1>1, <1>2 DEF Land, TypeOK

LEMMA RefreshType ==
  ASSUME TypeOK,
         \/ \E a \in Account : Succeed(a) \/ Fail(a)
         \/ \E c \in Caller : Leave(c)
         \/ \E c \in Reader : Refresh(c)
         \/ \E a \in Account : BeginPreheat(a) \/ RequestReturns(a)
  PROVE  TypeOK'
<1>1. ASSUME NEW a \in Account, Succeed(a)
      PROVE  TypeOK'
  <2>1. PICK ws \in Answers :
          Land(a, [present |-> TRUE, failed |-> FALSE,
                   snapshot |-> [windows |-> ws, capturedAt |-> flights[a].startedAt,
                                 number |-> counter[a], epoch |-> epoch]])
    BY <1>1 DEF Succeed
  <2>2. flights[a].startedAt \in Nat /\ counter[a] \in Nat /\ epoch \in Nat
    BY DEF TypeOK, Flight
  <2>3. [present |-> TRUE, failed |-> FALSE,
         snapshot |-> [windows |-> ws, capturedAt |-> flights[a].startedAt,
                       number |-> counter[a], epoch |-> epoch]] \in Entry
    BY <2>2 DEF Entry, Snapshot
  <2> QED
    BY <2>1, <2>3, LandType
<1>2. ASSUME NEW a \in Account, Fail(a)
      PROVE  TypeOK'
  <2>1. flights[a].saved \in Snapshot
    BY DEF TypeOK, Flight
  <2>2. [present |-> TRUE, failed |-> TRUE, snapshot |-> flights[a].saved] \in Entry
    BY <2>1 DEF Entry
  <2> QED
    BY <1>2, <2>2, LandType DEF Fail
<1>3. ASSUME NEW c \in Caller, Leave(c)
      PROVE  TypeOK'
  <2>1. /\ stage' \in [Caller -> Stage]
        /\ \A r \in Reader : stage'[r] \in {"idle", "refresh"}
    BY <1>3, AnsweredType DEF Leave, TypeOK
  <2>2. flights' \in [Account -> Flight]
    <3>1. target[c] \in Account /\ flights[target[c]] \in Flight
      BY DEF TypeOK
    <3>2. [flights[target[c]] EXCEPT !.joined = @ \ {c}] \in Flight
      BY <3>1 DEF Flight
    <3>3. flights' = [flights EXCEPT ![target[c]] = [flights[target[c]] EXCEPT !.joined = @ \ {c}]]
      BY <1>3 DEF Leave
    <3> QED
      BY <3>1, <3>2, <3>3 DEF TypeOK
  <2> QED
    BY <1>3, <2>1, <2>2 DEF Leave, TypeOK
<1>4. ASSUME NEW c \in Reader, Refresh(c)
      PROVE  TypeOK'
  <2>1. c \in Caller
    BY DEF Caller
  <2>2. flights' \in [Account -> Flight] /\ counter' \in [Account -> Nat]
    BY <1>4, <2>1, ShareType DEF Refresh
  <2>3. /\ stage' \in [Caller -> Stage]
        /\ \A r \in Reader : stage'[r] \in {"idle", "refresh"}
    BY <1>4, <2>1 DEF Refresh, TypeOK, Stage, Caller
  <2> QED
    BY <1>4, <2>2, <2>3 DEF Refresh, TypeOK
<1>5. ASSUME NEW a \in Account, NEW s \in Stage, Share(a), stage' = [stage EXCEPT ![a] = s]
      PROVE  /\ flights' \in [Account -> Flight] /\ counter' \in [Account -> Nat]
             /\ stage' \in [Caller -> Stage]
             /\ \A r \in Reader : stage'[r] \in {"idle", "refresh"}
  <2>1. a \in Caller /\ a \notin Reader
    BY QuotaAssumption DEF Caller
  <2> QED
    BY <1>5, <2>1, ShareType DEF TypeOK, Caller
<1>6. ASSUME NEW a \in Account, BeginPreheat(a)
      PROVE  TypeOK'
  <2>1. views' \in [Account -> View]
    BY <1>6, NothingType DEF BeginPreheat, TypeOK
  <2>2. /\ flights' \in [Account -> Flight] /\ counter' \in [Account -> Nat]
        /\ stage' \in [Caller -> Stage]
        /\ \A r \in Reader : stage'[r] \in {"idle", "refresh"}
    BY <1>5, <1>6 DEF BeginPreheat, Stage
  <2> QED
    BY <1>6, <2>1, <2>2 DEF BeginPreheat, TypeOK
<1>7. ASSUME NEW a \in Account, RequestReturns(a)
      PROVE  TypeOK'
  <2>1. /\ flights' \in [Account -> Flight] /\ counter' \in [Account -> Nat]
        /\ stage' \in [Caller -> Stage]
        /\ \A r \in Reader : stage'[r] \in {"idle", "refresh"}
    BY <1>5, <1>7 DEF RequestReturns, Stage
  <2> QED
    BY <1>7, <2>1 DEF RequestReturns, TypeOK
<1> QED
  BY <1>1, <1>2, <1>3, <1>4, <1>6, <1>7

LEMMA GetType ==
  ASSUME TypeOK, NEW a \in Account
  PROVE  Get(a) \in View
<1>1. /\ entries[a].present \in BOOLEAN /\ entries[a].failed \in BOOLEAN
      /\ entries[a].snapshot \in Snapshot /\ views[a].cfg \in Configs /\ now \in Nat
  BY DEF TypeOK, Entry, View
<1>2. entries[a].snapshot.windows \in Answers \cup {<<>>} /\ entries[a].snapshot.number \in Nat
  BY <1>1 DEF Snapshot
<1> QED
  BY <1>1, <1>2 DEF Get, View

LEMMA HoldAfterType ==
  ASSUME TypeOK, NEW a \in Account
  PROVE  HoldAfter(a) \in Nat \cup {Null}
<1>1. views[a].number \in Nat /\ holds[a] \in Nat \cup {Null}
  BY DEF TypeOK, View
<1> QED
  BY <1>1 DEF HoldAfter

LEMMA FaultType ==
  ASSUME TypeOK, Fault \/ UNCHANGED spent
  PROVE  spent' \in [faults : Nat, restarts : Nat]
  BY DEF Fault, TypeOK

\* The end of an evaluation.
LEMMA EvaluateType ==
  ASSUME TypeOK, NEW a \in Account, Evaluate(a)
  PROVE  TypeOK'
<1>1. PICK decision : Act(a, decision)
  BY DEF Evaluate, EvaluateBlind, EvaluateTransition, EvaluateSteady
<1>2. /\ stage' \in [Caller -> Stage]
      /\ \A r \in Reader : stage'[r] \in {"idle", "refresh"}
  <2>1. a \in Caller /\ a \notin Reader
    BY QuotaAssumption DEF Caller
  <2> QED
    BY <1>1, <2>1 DEF Act, Stage, TypeOK, Caller
<1>3. views' \in [Account -> View]
  <2>1. NoView(views[a].cfg) \in View
    BY NothingType DEF TypeOK, View
  <2>2. views' = [views EXCEPT ![a] = NoView(views[a].cfg)]
    BY <1>1 DEF Act
  <2> QED
    BY <2>1, <2>2 DEF TypeOK
<1>4. holds' \in [Account -> Nat \cup {Null}]
  <2>1. holds' = holds \/ holds' = [holds EXCEPT ![a] = HoldAfter(a)]
    BY DEF Evaluate, EvaluateBlind, EvaluateTransition, EvaluateSteady
  <2> QED
    BY <2>1, HoldAfterType DEF TypeOK
<1>5. spent' \in [faults : Nat, restarts : Nat]
  BY FaultType DEF Evaluate, EvaluateBlind, EvaluateTransition, EvaluateSteady
<1> QED
  BY <1>1, <1>2, <1>3, <1>4, <1>5 DEF Act, TypeOK

LEMMA OtherType ==
  ASSUME TypeOK,
         \/ \E a \in Account : ReadView(a)
         \/ ClearSnapshots \/ Tick \/ Configure \/ Stop \/ Restart
  PROVE  TypeOK'
<1>1. ASSUME NEW a \in Account, ReadView(a)
      PROVE  TypeOK'
  <2>1. views' \in [Account -> View]
    BY <1>1, GetType DEF ReadView, TypeOK
  <2>2. /\ stage' \in [Caller -> Stage]
        /\ \A r \in Reader : stage'[r] \in {"idle", "refresh"}
    BY <1>1, QuotaAssumption DEF ReadView, TypeOK, Stage, Caller
  <2> QED
    BY <1>1, <2>1, <2>2 DEF ReadView, TypeOK
<1>2. CASE ClearSnapshots
  BY <1>2, NothingType DEF ClearSnapshots, TypeOK
<1>3. CASE Tick
  BY <1>3 DEF Tick, TypeOK
<1>4. CASE Configure
  BY <1>4 DEF Configure, TypeOK
<1>5. CASE Stop
  BY <1>5 DEF Stop, TypeOK
<1>6. CASE Restart
  <2>1. /\ entries' \in [Account -> Entry] /\ flights' \in [Account -> Flight]
        /\ views' \in [Account -> View] /\ stage' \in [Caller -> Stage]
        /\ \A r \in Reader : stage'[r] \in {"idle", "refresh"}
    BY <1>6, NothingType DEF Restart, TypeOK, Stage, Caller
  <2> QED
    BY <1>6, <2>1 DEF Restart, TypeOK
<1> QED
  BY <1>1, <1>2, <1>3, <1>4, <1>5, <1>6

LEMMA StepType == TypeOK /\ [Next]_vars => TypeOK'
<1>1. TypeOK /\ UNCHANGED vars => TypeOK'
  BY DEF vars, TypeOK
<1> QED
  BY <1>1, RefreshType, EvaluateType, OtherType DEF Next

\* Every variable keeps its type.
THEOREM QuotaTypeCorrect == Spec => []TypeOK
  BY InitType, StepType, PTL DEF Spec

(***************************************************************************)
(* What the operator cleared.                                              *)
(***************************************************************************)
LEMMA LandEntries ==
  ASSUME TypeOK, NEW a \in Account, NEW e, Land(a, e)
  PROVE  /\ entries'[a] = e /\ \A b \in Account \ {a} : entries'[b] = entries[b]
         /\ UNCHANGED <<running, holds, views, counter, epoch, target>>
  BY DEF Land, TypeOK

LEMMA StepCleared == TypeOK /\ ClearedNotTrusted /\ [Next]_vars => ClearedNotTrusted'
<1> SUFFICES ASSUME TypeOK, ClearedNotTrusted, [Next]_vars PROVE ClearedNotTrusted'
  OBVIOUS
<1>1. ASSUME UNCHANGED <<entries, epoch>>
      PROVE  ClearedNotTrusted'
  BY <1>1 DEF ClearedNotTrusted
<1>2. ASSUME NEW a \in Account, NEW e, Land(a, e), e.failed \/ e.snapshot.epoch = epoch
      PROVE  ClearedNotTrusted'
  <2>1. epoch' = epoch /\ epoch \in Nat
    BY <1>2 DEF Land, TypeOK
  <2> QED
    BY <1>2, <2>1, LandEntries DEF ClearedNotTrusted
<1>3. CASE \E a \in Account : Succeed(a) \/ Fail(a)
  BY <1>2, <1>3 DEF Succeed, Fail
<1>4. CASE ClearSnapshots \/ Restart
  BY <1>4 DEF ClearSnapshots, Restart, NoEntry, NoSnapshot, ClearedNotTrusted
<1>5. CASE \/ \E c \in Caller : Leave(c)
           \/ \E c \in Reader : Refresh(c)
           \/ \E a \in Account : BeginPreheat(a) \/ ReadView(a) \/ RequestReturns(a)
           \/ Tick \/ Configure \/ Stop
  BY <1>1, <1>5 DEF Leave, Refresh, BeginPreheat, ReadView, RequestReturns, Tick, Configure, Stop
<1>6. CASE \E a \in Account : Evaluate(a)
  BY <1>1, <1>6 DEF Evaluate, EvaluateBlind, EvaluateTransition, EvaluateSteady, Act
<1> QED
  BY <1>1, <1>3, <1>4, <1>5, <1>6 DEF Next, vars

\* service.go 107-118 and 272-279: what comes back of a cleared cache comes back under an
\* error, whichever refreshes were under way when it was cleared.
THEOREM ClearedStaysUntrusted == Spec => []ClearedNotTrusted
<1>1. Init => ClearedNotTrusted
  BY DEF Init, NoEntry, NoSnapshot, ClearedNotTrusted
<1> QED
  BY <1>1, InitType, StepType, StepCleared, PTL DEF Spec

(***************************************************************************)
(* Which refresh a decision rests on.  A hold bears the number of the      *)
(* refresh that proved it.  While a flight is under way nothing in the     *)
(* cache, in a view or in a hold bears its number yet; so what a preheat   *)
(* gets of the flight it waited for is later than the hold, or an error.   *)
(***************************************************************************)
Flying(a) == flights[a].owner # Null

OwnTargets == \A a \in Account :
  /\ target[a] = a
  /\ \A c \in Waiting(a) : c # Null => target[c] = a

Numbered(a, n) == n <= counter[a] /\ (Flying(a) => n < counter[a])

AllNumbered == \A a \in Account :
  /\ Numbered(a, entries[a].snapshot.number)
  /\ Numbered(a, flights[a].saved.number)
  /\ Numbered(a, views[a].number)
  /\ holds[a] # Null => Numbered(a, holds[a])

LaterThanHold == \A a \in Account : running /\ holds[a] # Null =>
  /\ stage[a] = "evaluate" /\ entries[a].present /\ ~entries[a].failed =>
       entries[a].snapshot.number > holds[a]
  /\ stage[a] = "decide" /\ views[a].present /\ ~views[a].failed =>
       views[a].number > holds[a]

HoldInv == TypeOK /\ OwnTargets /\ AllNumbered /\ LaterThanHold

LEMMA InitHold == Init => HoldInv
<1> SUFFICES ASSUME Init PROVE OwnTargets /\ AllNumbered /\ LaterThanHold
  BY InitType DEF HoldInv
<1>1. OwnTargets
  <2>1. \A a \in Account : Waiting(a) = {Null}
    BY DEF Init, Waiting, NoFlight
  <2>2. \A a \in Account : target[a] = a
    BY DEF Init
  <2> QED
    BY <2>1, <2>2 DEF OwnTargets
<1>2. AllNumbered /\ LaterThanHold
  BY DEF Init, AllNumbered, LaterThanHold, Numbered, Flying, NoEntry, NoSnapshot, NoFlight, NoView
<1> QED
  BY <1>1, <1>2

\* A step that stores nothing and begins nothing.
LEMMA HoldKept ==
  ASSUME HoldInv, TypeOK',
         UNCHANGED <<target, flights, counter, entries, views, holds>>,
         running' => running,
         \A a \in Account : stage'[a] = stage[a] \/ stage'[a] \notin {"evaluate", "decide"}
  PROVE  HoldInv'
<1>1. OwnTargets'
  BY DEF HoldInv, OwnTargets, Waiting
<1>2. AllNumbered'
  BY DEF HoldInv, AllNumbered, Numbered, Flying
<1>3. LaterThanHold'
  BY DEF HoldInv, LaterThanHold
<1> QED
  BY <1>1, <1>2, <1>3 DEF HoldInv

LEMMA ShareFacts ==
  ASSUME HoldInv, NEW c \in Caller, Share(c), target' = target
  PROVE  /\ OwnTargets'
         /\ \A a \in Account : flights'[a].saved \in {flights[a].saved, entries[a].snapshot}
         /\ \A a \in Account, n \in Nat : Numbered(a, n) =>
              n <= counter'[a] /\ (flights'[a].owner # Null => n < counter'[a])
<1> DEFINE a == target[c]
           joined == [flights[a] EXCEPT !.joined = @ \cup {c}]
           begun == [owner |-> c, joined |-> {}, startedAt |-> now, saved |-> entries[a].snapshot]
<1>0. /\ a \in Account /\ flights \in [Account -> Flight] /\ counter \in [Account -> Nat]
      /\ flights[a] \in Flight /\ OwnTargets
  BY DEF HoldInv, TypeOK
<1>1. CASE Flying(a)
  <2>1. flights' = [flights EXCEPT ![a] = joined] /\ counter' = counter
    BY <1>1 DEF Share, Flying
  <2>2. joined.owner = flights[a].owner /\ joined.joined = flights[a].joined \cup {c}
        /\ joined.saved = flights[a].saved
    BY <1>0 DEF Flight
  <2> HIDE DEF joined
  <2>3. \A b \in Account \ {a} : flights'[b] = flights[b]
    BY <1>0, <2>1
  <2>4. flights'[a] = joined
    BY <1>0, <2>1
  <2>5. OwnTargets'
    BY <1>0, <2>2, <2>3, <2>4 DEF OwnTargets, Waiting
  <2>6. \A b \in Account : /\ flights'[b].owner = flights[b].owner
                           /\ flights'[b].saved = flights[b].saved
    BY <2>2, <2>3, <2>4
  <2> QED
    BY <2>1, <2>5, <2>6 DEF Numbered, Flying
<1>2. CASE ~Flying(a)
  <2>1. flights' = [flights EXCEPT ![a] = begun] /\ counter' = [counter EXCEPT ![a] = @ + 1]
    BY <1>2 DEF Share, Flying
  <2>2. begun.owner = c /\ begun.joined = {} /\ begun.saved = entries[a].snapshot
    OBVIOUS
  <2> HIDE DEF begun
  <2>3. \A b \in Account \ {a} : flights'[b] = flights[b] /\ counter'[b] = counter[b]
    BY <1>0, <2>1
  <2>4. flights'[a] = begun /\ counter'[a] = counter[a] + 1 /\ counter[a] \in Nat
    BY <1>0, <2>1
  <2>5. OwnTargets'
    BY <1>0, <2>2, <2>3, <2>4 DEF OwnTargets, Waiting
  <2>7. \A b \in Account : flights'[b].saved \in {flights[b].saved, entries[b].snapshot}
    BY <2>2, <2>3, <2>4
  <2> HIDE DEF a
  <2>6. ASSUME NEW b \in Account, NEW n \in Nat, Numbered(b, n)
        PROVE  n <= counter'[b] /\ (flights'[b].owner # Null => n < counter'[b])
    <3>1. CASE b = a
      BY <2>4, <2>6, <3>1 DEF Numbered
    <3>2. CASE b # a
      BY <2>3, <2>6, <3>2 DEF Numbered, Flying
    <3> QED
      BY <3>1, <3>2
  <2> QED
    BY <2>5, <2>6, <2>7
<1> QED
  BY <1>1, <1>2

\* A refresh is asked for: numbers only grow.
LEMMA ShareHold ==
  ASSUME HoldInv, TypeOK', NEW c \in Caller, Share(c), UNCHANGED <<target, running, entries, holds>>,
         NEW s \in {"refresh", "after"}, stage' = [stage EXCEPT ![c] = s],
         \/ views' = views
         \/ \E a \in Account : views' = [views EXCEPT ![a] = NoView(config)] /\ stage[a] = "idle"
  PROVE  HoldInv'
<1>0. TypeOK /\ AllNumbered /\ LaterThanHold /\ stage \in [Caller -> Stage]
  BY DEF HoldInv, TypeOK
<1>1. \A a \in Account : views'[a] = views[a] \/ (views'[a].number = 0 /\ stage[a] = "idle")
  BY <1>0 DEF TypeOK, NoView
<1>2. \A a \in Account : /\ entries[a].snapshot.number \in Nat /\ views[a].number \in Nat
                         /\ flights[a].saved.number \in Nat
                         /\ holds[a] # Null => holds[a] \in Nat
                         /\ counter[a] \in Nat
  BY <1>0 DEF TypeOK, Entry, Flight, Snapshot, View
<1>3. \A a \in Account : Numbered(a, 0)
  <2>1. ASSUME NEW a \in Account
        PROVE  Numbered(a, 0)
    BY <1>0, <1>2 DEF AllNumbered, Numbered
  <2> QED
    BY <2>1
<1>4. AllNumbered'
  <2> SUFFICES ASSUME NEW a \in Account
               PROVE  /\ Numbered(a, entries[a].snapshot.number)'
                      /\ Numbered(a, flights[a].saved.number)'
                      /\ Numbered(a, views[a].number)'
                      /\ holds'[a] # Null => Numbered(a, holds[a])'
    BY DEF AllNumbered
  <2>1. \A n \in Nat : Numbered(a, n) =>
          n <= counter'[a] /\ (flights'[a].owner # Null => n < counter'[a])
    BY ShareFacts
  <2>2. flights'[a].saved \in {flights[a].saved, entries[a].snapshot}
    BY ShareFacts
  <2> QED
    BY <1>0, <1>1, <1>2, <1>3, <2>1, <2>2 DEF AllNumbered, Numbered, Flying
<1>5. LaterThanHold'
  <2>1. \A a \in Account : stage'[a] = stage[a] \/ stage'[a] \in {"refresh", "after"}
    BY <1>0 DEF Caller
  <2> QED
    BY <1>0, <1>1, <2>1 DEF LaterThanHold
<1> QED
  BY <1>4, <1>5, ShareFacts DEF HoldInv

\* A refresh is answered: by a snapshot of its own number, or by an error.
LEMMA LandHold ==
  ASSUME HoldInv, TypeOK', NEW a \in Account, NEW e, Land(a, e),
         \/ e.failed /\ Numbered(a, e.snapshot.number)
         \/ e.snapshot.number = counter[a]
  PROVE  HoldInv'
<1>0. /\ TypeOK /\ OwnTargets /\ AllNumbered /\ LaterThanHold /\ Flying(a)
      /\ stage \in [Caller -> Stage]
  BY DEF HoldInv, Land, Flying, TypeOK
<1>1. /\ entries'[a] = e /\ \A b \in Account \ {a} : entries'[b] = entries[b]
      /\ UNCHANGED <<running, holds, views, counter, target>>
  BY <1>0, LandEntries
<1>2. flights'[a] = NoFlight /\ \A b \in Account \ {a} : flights'[b] = flights[b]
  BY <1>0 DEF Land, TypeOK
<1>3. \A c \in Caller : stage'[c] = IF c \in Waiting(a) THEN Answered(c) ELSE stage[c]
  BY DEF Land
<1>4. OwnTargets'
  BY <1>0, <1>1, <1>2 DEF OwnTargets, Waiting, NoFlight
<1>5. AllNumbered'
  <2>1. counter[a] \in Nat /\ (holds[a] # Null => holds[a] \in Nat) /\ views[a].number \in Nat
    BY <1>0 DEF TypeOK, View
  <2> QED
    BY <1>0, <1>1, <1>2, <2>1 DEF AllNumbered, Numbered, Flying, NoFlight, NoSnapshot
<1>6. LaterThanHold'
  <2> SUFFICES ASSUME NEW b \in Account, running', holds'[b] # Null
               PROVE  /\ stage'[b] = "evaluate" /\ entries'[b].present /\ ~entries'[b].failed =>
                           entries'[b].snapshot.number > holds'[b]
                      /\ stage'[b] = "decide" /\ views'[b].present /\ ~views'[b].failed =>
                           views'[b].number > holds'[b]
    BY DEF LaterThanHold
  <2>0. b \in Caller /\ b # Null
    BY QuotaAssumption DEF Caller
  <2>1. CASE b = a
    <3>1. counter[a] > holds[a]
      BY <1>0, <1>1, <2>1 DEF AllNumbered, Numbered, TypeOK
    <3>2. ~e.failed => e.snapshot.number > holds[a]
      BY <3>1
    <3>3. stage'[b] = "decide" => stage[b] = "decide"
      BY <1>3, <2>0 DEF Answered
    <3> QED
      BY <1>0, <1>1, <2>1, <3>2, <3>3 DEF LaterThanHold
  <2>2. CASE b # a
    <3>1. b \notin Waiting(a)
      BY <1>0, <2>0, <2>2 DEF OwnTargets
    <3> QED
      BY <1>0, <1>1, <1>3, <2>0, <2>2, <3>1 DEF LaterThanHold
  <2> QED
    BY <2>1, <2>2
<1> QED
  BY <1>4, <1>5, <1>6 DEF HoldInv

\* What follows is no refresh: a preheat reads the cache, decides, or ends.
LEMMA ReadHold ==
  ASSUME HoldInv, TypeOK', NEW a \in Account, ReadView(a)
  PROVE  HoldInv'
<1>0. TypeOK /\ AllNumbered /\ LaterThanHold /\ views \in [Account -> View] /\ stage \in [Caller -> Stage]
  BY DEF HoldInv, TypeOK
<1>1. /\ views' = [views EXCEPT ![a] = Get(a)] /\ stage[a] = "evaluate"
      /\ stage' = [stage EXCEPT ![a] = "decide"]
      /\ UNCHANGED <<running, target, flights, counter, entries, holds>>
  BY DEF ReadView
<1>2. /\ Get(a).present = entries[a].present /\ Get(a).failed = entries[a].failed
      /\ Get(a).number = entries[a].snapshot.number
  BY DEF Get
<1>3. views'[a] = Get(a) /\ \A b \in Account \ {a} : views'[b] = views[b] /\ stage'[b] = stage[b]
  BY <1>0, <1>1 DEF Caller
<1>4. OwnTargets'
  BY <1>1 DEF HoldInv, OwnTargets, Waiting
<1>5. AllNumbered'
  BY <1>0, <1>1, <1>2, <1>3 DEF AllNumbered, Numbered, Flying
<1>6. LaterThanHold'
  <2>1. stage'[a] = "decide"
    BY <1>0, <1>1 DEF Caller
  <2> QED
    BY <1>0, <1>1, <1>2, <1>3, <2>1 DEF LaterThanHold
<1> QED
  BY <1>4, <1>5, <1>6 DEF HoldInv

LEMMA EvaluateHold ==
  ASSUME HoldInv, TypeOK', NEW a \in Account, Evaluate(a)
  PROVE  HoldInv'
<1>0. /\ TypeOK /\ AllNumbered /\ LaterThanHold /\ views \in [Account -> View]
      /\ stage \in [Caller -> Stage] /\ holds \in [Account -> Nat \cup {Null}]
  BY DEF HoldInv, TypeOK
<1>1. PICK decision : Act(a, decision)
  BY DEF Evaluate, EvaluateBlind, EvaluateTransition, EvaluateSteady
<1>2. /\ stage'[a] \in {"idle", "request"} /\ views'[a].number = 0
      /\ \A b \in Account \ {a} : views'[b] = views[b] /\ stage'[b] = stage[b]
      /\ UNCHANGED <<running, target, flights, counter, entries>>
  BY <1>0, <1>1 DEF Act, NoView, Caller
<1>3. /\ holds'[a] \in {holds[a], views[a].number, Null}
      /\ \A b \in Account \ {a} : holds'[b] = holds[b]
  <2>1. holds' = holds \/ holds' = [holds EXCEPT ![a] = HoldAfter(a)]
    BY DEF Evaluate, EvaluateBlind, EvaluateTransition, EvaluateSteady
  <2>2. HoldAfter(a) \in {holds[a], views[a].number, Null}
    BY DEF HoldAfter
  <2> QED
    BY <1>0, <2>1, <2>2
<1>4. OwnTargets'
  BY <1>2 DEF HoldInv, OwnTargets, Waiting
<1>5. AllNumbered'
  <2>1. counter[a] \in Nat /\ views[a].number \in Nat /\ Numbered(a, views[a].number)
    BY <1>0 DEF AllNumbered, TypeOK, View
  <2>2. Numbered(a, 0)
    BY <2>1 DEF Numbered
  <2> QED
    BY <1>0, <1>2, <1>3, <2>1, <2>2 DEF AllNumbered, Numbered, Flying
<1>6. LaterThanHold'
  BY <1>0, <1>2, <1>3 DEF LaterThanHold
<1> QED
  BY <1>4, <1>5, <1>6 DEF HoldInv

LEMMA StepHold == HoldInv /\ [Next]_vars => HoldInv'
<1> SUFFICES ASSUME HoldInv, [Next]_vars PROVE HoldInv'
  OBVIOUS
<1>0. TypeOK' /\ TypeOK /\ AllNumbered
  BY StepType DEF HoldInv
<1>1. CASE UNCHANGED vars \/ Tick \/ Configure \/ Stop
  BY <1>0, <1>1, HoldKept DEF vars, Tick, Configure, Stop
<1>2. ASSUME NEW a \in Account, Succeed(a) \/ Fail(a)
      PROVE  HoldInv'
  BY <1>0, <1>2, LandHold DEF Succeed, Fail, AllNumbered
<1>3. ASSUME NEW c \in Caller, Leave(c)
      PROVE  HoldInv'
  <2>1. /\ target[c] \in Account /\ flights[target[c]] \in Flight
        /\ stage \in [Caller -> Stage] /\ flights \in [Account -> Flight]
    BY <1>0 DEF TypeOK
  <2>2. \A a \in Account : /\ flights'[a].owner = flights[a].owner
                           /\ flights'[a].saved = flights[a].saved
                           /\ flights'[a].joined \subseteq flights[a].joined
    BY <1>3, <2>1 DEF Leave, Flight
  <2>3. UNCHANGED <<running, target, counter, entries, views, holds>>
    BY <1>3 DEF Leave
  <2>4. OwnTargets'
    BY <2>2, <2>3 DEF HoldInv, OwnTargets, Waiting
  <2>5. AllNumbered'
    BY <1>0, <2>2, <2>3 DEF AllNumbered, Numbered, Flying
  <2>6. LaterThanHold'
    <3>1. CASE c \in Account
      BY <1>3, <2>3, <3>1 DEF Leave, LaterThanHold
    <3>2. CASE c \notin Account
      <4>1. \A a \in Account : stage'[a] = stage[a]
        BY <1>3, <2>1, <3>2 DEF Leave, Caller
      <4> QED
        BY <2>3, <4>1 DEF HoldInv, LaterThanHold
    <3> QED
      BY <3>1, <3>2
  <2> QED
    BY <1>0, <2>4, <2>5, <2>6 DEF HoldInv
<1>4. ASSUME NEW c \in Reader, Refresh(c)
      PROVE  HoldInv'
  BY <1>0, <1>4, ShareHold DEF Refresh, Caller
<1>5. ASSUME NEW a \in Account, BeginPreheat(a)
      PROVE  HoldInv'
  BY <1>0, <1>5, ShareHold DEF BeginPreheat, Caller
<1>6. ASSUME NEW a \in Account, RequestReturns(a)
      PROVE  HoldInv'
  BY <1>0, <1>6, ShareHold DEF RequestReturns, Caller
<1>7. CASE ClearSnapshots
  <2>1. \A a \in Account : ~entries'[a].present /\ entries'[a].snapshot.number = 0
    BY <1>7 DEF ClearSnapshots, NoEntry, NoSnapshot
  <2>2. UNCHANGED <<running, target, flights, counter, views, holds, stage>>
    BY <1>7 DEF ClearSnapshots
  <2>3. OwnTargets'
    BY <2>2 DEF HoldInv, OwnTargets, Waiting
  <2>4. AllNumbered'
    <3>1. \A a \in Account : Numbered(a, 0)
      BY <1>0 DEF AllNumbered, Numbered, TypeOK, Entry, Snapshot
    <3> QED
      BY <1>0, <2>1, <2>2, <3>1 DEF AllNumbered, Numbered, Flying
  <2>5. LaterThanHold'
    BY <2>1, <2>2 DEF HoldInv, LaterThanHold
  <2> QED
    BY <1>0, <2>3, <2>4, <2>5 DEF HoldInv
<1>8. CASE Restart
  <2>1. \A a \in Account : /\ flights'[a] = NoFlight /\ entries'[a].snapshot.number = 0
                           /\ views'[a].number = 0 /\ stage'[a] = "idle"
    BY <1>8 DEF Restart, NoEntry, NoSnapshot, NoView, Caller
  <2>2. UNCHANGED <<target, counter, holds>>
    BY <1>8 DEF Restart
  <2>3. OwnTargets'
    BY <2>1, <2>2 DEF HoldInv, OwnTargets, Waiting, NoFlight
  <2>4. AllNumbered'
    BY <1>0, <2>1, <2>2 DEF AllNumbered, Numbered, Flying, NoFlight, NoSnapshot, TypeOK
  <2>5. LaterThanHold'
    BY <2>1 DEF LaterThanHold
  <2> QED
    BY <1>0, <2>3, <2>4, <2>5 DEF HoldInv
<1>9. CASE \E a \in Account : ReadView(a) \/ Evaluate(a)
  BY <1>0, <1>9, ReadHold, EvaluateHold
<1> QED
  BY <1>1, <1>2, <1>3, <1>4, <1>5, <1>6, <1>7, <1>8, <1>9 DEF Next

LEMMA HoldSteps ==
  ASSUME HoldInv, [Next]_vars, NEW a \in Account,
         holds'[a] # holds[a] \/ (stage[a] = "decide" /\ stage'[a] = "request")
  PROVE  Evaluate(a)
<1>0. TypeOK /\ stage \in [Caller -> Stage] /\ a \in Caller /\ holds \in [Account -> Nat \cup {Null}]
  BY DEF HoldInv, TypeOK, Caller
<1>1. ASSUME NEW b \in Account, Evaluate(b), b # a
      PROVE  FALSE
  <2>1. \E decision : Act(b, decision)
    BY <1>1 DEF Evaluate, EvaluateBlind, EvaluateTransition, EvaluateSteady
  <2>2. stage'[a] = stage[a]
    BY <1>0, <1>1, <2>1 DEF Act, Caller
  <2>3. holds'[a] = holds[a]
    BY <1>0, <1>1 DEF Evaluate, EvaluateBlind, EvaluateTransition, EvaluateSteady
  <2> QED
    BY <2>2, <2>3
<1>2. ASSUME UNCHANGED holds, stage'[a] = stage[a] \/ stage'[a] # "request"
      PROVE  FALSE
  BY <1>2
<1>3. ASSUME NEW b \in Account, Succeed(b) \/ Fail(b)
      PROVE  FALSE
  BY <1>0, <1>2, <1>3 DEF Succeed, Fail, Land, Answered
<1>4. ASSUME NEW c \in Caller, Leave(c)
      PROVE  FALSE
  BY <1>0, <1>2, <1>4 DEF Leave, Answered
<1>5. ASSUME NEW c \in Caller, Refresh(c) \/ (c \in Account /\ (BeginPreheat(c) \/ ReadView(c) \/ RequestReturns(c)))
      PROVE  FALSE
  BY <1>0, <1>2, <1>5 DEF Refresh, BeginPreheat, ReadView, RequestReturns
<1>6. CASE UNCHANGED vars \/ ClearSnapshots \/ Tick \/ Configure \/ Stop \/ Restart
  BY <1>0, <1>2, <1>6 DEF vars, ClearSnapshots, Tick, Configure, Stop, Restart
<1> QED
  BY <1>1, <1>3, <1>4, <1>5, <1>6 DEF Next, Caller

\* service.go 357-403: a hold ends only on a fresh snapshot of a later refresh
\* than the one that proved it, whoever refreshed and whatever was cleared.
THEOREM HoldEndsLater == Spec => HoldEndsByLaterSnapshot
<1>1. HoldInv /\ [Next]_vars =>
        [\A a \in Account : running /\ holds[a] # Null /\ holds'[a] # holds[a] =>
           holds'[a] = Null /\ views[a].number > holds[a]]_vars
  <2> SUFFICES ASSUME HoldInv, [Next]_vars, NEW a \in Account,
                      running, holds[a] # Null, holds'[a] # holds[a]
               PROVE  holds'[a] = Null /\ views[a].number > holds[a]
    OBVIOUS
  <2>1. Evaluate(a)
    BY HoldSteps
  <2>2. \E out : EvaluateTransition(a, out)
    BY <2>1 DEF Evaluate, EvaluateBlind, EvaluateSteady
  <2>3. holds'[a] = HoldAfter(a) /\ stage[a] = "decide"
    BY <2>2 DEF EvaluateTransition, HoldInv, TypeOK
  <2>4. HoldAfter(a) = Null /\ views[a].present /\ ~views[a].failed
    BY <2>3 DEF HoldAfter
  <2> QED
    BY <2>3, <2>4 DEF HoldInv, LaterThanHold
<1> QED
  BY <1>1, InitHold, StepHold, PTL DEF Spec, HoldEndsByLaterSnapshot

\* Either every long window is above the floor or one is not.
LEMMA LongEitherWay ==
  ASSUME NEW ws \in Answers \cup {<<>>}, NEW floor \in Nat, ~AnyLongAtOrBelow(ws, floor), HasLong(ws)
  PROVE  AllLongAbove(ws, floor)
<1>1. ws \in Seq(Window)
  <2>1. Answers \subseteq Seq(Window)
    BY QuotaAssumption
  <2>2. <<>> \in Seq(Window)
    OBVIOUS
  <2> QED
    BY <2>1, <2>2
<1>2. ASSUME NEW i \in DOMAIN ws
      PROVE  ws[i].remaining \in Nat
  <2>1. ws[i] \in Window
    BY <1>1
  <2>2. \A w \in Window : w.remaining \in 0 .. 100
    BY Zenon DEF Window
  <2>3. 0 .. 100 \subseteq Nat
    OBVIOUS
  <2> QED
    BY <2>1, <2>2, <2>3, Zenon
<1>3. Long(ws) \subseteq DOMAIN ws
  BY DEF Long
<1> QED
  BY <1>2, <1>3 DEF AnyLongAtOrBelow, AllLongAbove

\* service.go 318-420: while a hold is durable, nothing is sent on an error, a
\* stale snapshot or one that lists a long window, over restarts, failed writes,
\* cleared caches and changed floors.
THEOREM HoldBlocks == Spec => HoldBlocksUnproved
<1>1. HoldInv /\ [Next]_vars =>
        [\A a \in Account :
           LET v == views[a] IN
           stage[a] = "decide" /\ holds'[a] # Null /\ (~v.present \/ v.failed \/ v.stale \/ HasLong(v.windows))
             => stage'[a] # "request"]_vars
  <2> SUFFICES ASSUME HoldInv, [Next]_vars, NEW a \in Account,
                      stage[a] = "decide", stage'[a] = "request", holds'[a] # Null
               PROVE  /\ views[a].present /\ ~views[a].failed /\ ~views[a].stale
                      /\ ~HasLong(views[a].windows)
    OBVIOUS
  <2> DEFINE v == views[a]
  <2>0. /\ TypeOK /\ stage \in [Caller -> Stage] /\ a \in Caller /\ v \in View /\ v.cfg \in Configs
        /\ holds \in [Account -> Nat \cup {Null}]
    BY DEF HoldInv, TypeOK, Caller, View
  <2>1. Evaluate(a)
    BY HoldSteps
  <2>2. ASSUME NEW decision, Act(a, decision)
        PROVE  decision \notin {"guardrail_hold", "sufficient_window"}
    BY <2>0, <2>2 DEF Act
  <2>3. ~EvaluateBlind(a)
    BY <2>2 DEF EvaluateBlind
  <2>4. ASSUME NEW out, EvaluateTransition(a, out)
        PROVE  FALSE
    <3>1. out = "ok" /\ Act(a, Decide(v, HoldAfter(a) # Null, v.cfg))
      BY <2>2, <2>4 DEF EvaluateTransition
    <3>2. HoldAfter(a) # Null /\ HoldAfter(a) # holds[a]
      BY <2>0, <2>4, <3>1 DEF EvaluateTransition
    <3>3. AnyLongAtOrBelow(v.windows, v.cfg.longFloor) /\ ~v.failed /\ ~v.stale
      BY <3>2 DEF HoldAfter
    <3>4. Decide(v, HoldAfter(a) # Null, v.cfg) = "guardrail_hold"
      BY <3>3 DEF Decide
    <3> QED
      BY <2>2, <3>1, <3>4
  <2>5. EvaluateSteady(a) /\ holds[a] # Null /\ HoldAfter(a) = holds[a]
    BY <2>1, <2>3, <2>4 DEF Evaluate, EvaluateSteady
  <2>6. v.present /\ Decide(v, TRUE, v.cfg) # "guardrail_hold"
    <3>1. Act(a, IF v.present THEN Decide(v, holds[a] # Null, v.cfg)
                 ELSE IF holds[a] # Null THEN "guardrail_hold" ELSE "quota_unknown_fail_open")
      BY <2>5 DEF EvaluateSteady
    <3>2. v.present
      BY <2>2, <2>5, <3>1
    <3>3. (holds[a] # Null) = TRUE
      BY <2>5
    <3> QED
      BY <2>2, <3>1, <3>2, <3>3
  <2>7. ~v.failed /\ ~v.stale /\ ~AnyLongAtOrBelow(v.windows, v.cfg.longFloor)
    BY <2>6 DEF Decide
  <2>8. ~AllLongAbove(v.windows, v.cfg.longFloor)
    BY <2>5, <2>6, <2>7 DEF HoldAfter
  <2>9. v.windows \in Answers \cup {<<>>} /\ v.cfg.longFloor \in Nat
    <3>1. v.windows \in Answers \cup {<<>>}
      BY <2>0 DEF View
    <3>2. v.cfg \in Config
      BY <2>0, QuotaAssumption
    <3>3. v.cfg.longFloor \in Nat
      BY <3>2 DEF Config
    <3> QED
      BY <3>1, <3>3
  <2>10. ~HasLong(v.windows)
    BY <2>7, <2>8, <2>9, LongEitherWay
  <2> QED
    BY <2>6, <2>7, <2>10
<1> QED
  BY <1>1, InitHold, StepHold, PTL DEF Spec, HoldBlocksUnproved

=============================================================================
