------------------------------- MODULE Planner -------------------------------
(***************************************************************************)
(* Planning one local date: internal/schedule/planner.go, local_time.go    *)
(* and the validation in internal/domain/config.go that it relies on.      *)
(*                                                                         *)
(* A local date is the sequence of its minutes: day[i] is the wall minute  *)
(* that its i-th minute shows.  On an ordinary date that is i - 1; a clock *)
(* put forward leaves wall minutes out, one put back shows some twice.     *)
(* An instant is counted in ticks from the start of the date, Grain ticks  *)
(* to the minute (nanoseconds in the code).                                *)
(***************************************************************************)
EXTENDS Integers, Sequences, FiniteSets, SequencesExt, FiniteSetsExt

CONSTANTS
  DayMinutes,   \* minutesPerLocalDay
  Grain,        \* ticks of a minute
  DefaultCycle, \* minutes of a window cycle when none is configured
  Accounts,     \* account keys, numbered in their order
  Hash          \* the hash of a slot's name and an account key

ASSUME PlannerAssumption ==
  /\ {DayMinutes, Grain, DefaultCycle} \subseteq Nat \ {0}
  /\ Accounts \subseteq Nat
  /\ Hash \in [0 .. DayMinutes - 1 -> [Accounts -> Nat]]

None == -1

\* What a configuration and a date are, before anything is validated.  A clock
\* put back shows again what it has shown; what it shows first, it shows in
\* order.
WallMinute == 0 .. DayMinutes - 1
Period == [start : WallMinute, end : WallMinute]
DraftConfig ==
  [enabled : BOOLEAN, workday : BOOLEAN, accounts : Seq(Accounts), work : Seq(Period),
   blackouts : Seq(Period), lead : Int, span : Int, cycle : Int, budget : Int,
   skips : SUBSET WallMinute]

IsDate(day) ==
  /\ day \in Seq(WallMinute)
  /\ \A i, j \in DOMAIN day :
       i < j => day[i] < day[j] \/ \E h \in DOMAIN day : h <= i /\ day[h] = day[j]

-----------------------------------------------------------------------------
\* ValidateConfig, as far as planning depends on it.

ValidPeriods(ps) ==
  \A i \in DOMAIN ps :
    /\ ps[i].start < ps[i].end
    /\ i > 1 => ps[i].start >= ps[i - 1].end

ValidConfig(cfg) ==
  /\ ValidPeriods(cfg.work) /\ ValidPeriods(cfg.blackouts)
  /\ cfg.cycle > 0
  /\ cfg.budget > 0
  /\ (cfg.lead = None) = (cfg.span = None)
  /\ cfg.lead # None =>
       /\ cfg.lead > 0 /\ cfg.span > 0
       /\ \A i \in DOMAIN cfg.work : cfg.work[i].start >= cfg.lead + cfg.span
  /\ \A i, j \in DOMAIN cfg.accounts : cfg.accounts[i] = cfg.accounts[j] => i = j
  /\ cfg.enabled => cfg.work # <<>> /\ cfg.lead # None

-----------------------------------------------------------------------------
\* Wall minutes and instants.

Shown(day) == Range(day)

\* resolveLocalMinute: the earliest instant that shows the minute.
ResolveMinute(day, minute) == Grain * (Min({i \in DOMAIN day : day[i] = minute}) - 1)

\* firstValidMinute.
FirstValid(day, from, before) ==
  LET valid == {m \in Shown(day) : from <= m /\ m < before}
  IN IF valid = {} THEN None ELSE ResolveMinute(day, Min(valid))

\* Mutant: an interval whose first minute the date leaves out is unusable.
ResolveShown(day, wall) ==
  LET start == IF wall.start \in Shown(day) THEN ResolveMinute(day, wall.start) ELSE None
      end == FirstValid(day, wall.end, DayMinutes)
  IN IF start = None \/ end = None \/ end <= start THEN <<>>
     ELSE <<[start |-> start, end |-> end]>>

\* resolveWallInterval, resolveWindowBoundaries: <<>> when it is unusable.
ResolveInterval(day, wall) ==
  LET start == FirstValid(day, wall.start, wall.end)
      end == FirstValid(day, wall.end, DayMinutes)
  IN IF start = None \/ end = None \/ end <= start THEN <<>>
     ELSE <<[start |-> start, end |-> end]>>

\* subtractBlackouts: one pass over the sorted periods with a cursor.
Cut(base, b, st) ==
  IF st.done \/ b.end <= st.cursor THEN st
  ELSE IF b.start >= base.end THEN [st EXCEPT !.done = TRUE]
  ELSE [cursor |-> b.end, done |-> b.end >= base.end,
        allowed |-> IF b.start <= st.cursor THEN st.allowed
                    ELSE Append(st.allowed, [start |-> st.cursor, end |-> b.start])]

\* The state of the pass after the first i blackouts.
Passed(base, blackouts) ==
  LET after[i \in 0 .. Len(blackouts)] ==
        IF i = 0 THEN [cursor |-> base.start, allowed |-> <<>>, done |-> FALSE]
        ELSE Cut(base, blackouts[i], after[i - 1])
  IN after

Subtract(base, blackouts) ==
  LET last == Passed(base, blackouts)[Len(blackouts)]
  IN IF last.cursor < base.end
     THEN Append(last.allowed, [start |-> last.cursor, end |-> base.end])
     ELSE last.allowed

-----------------------------------------------------------------------------
\* PlanDay.

\* The length of the first k intervals, and of all (intervalDuration).
Elapsed(is) ==
  LET sum[k \in 0 .. Len(is)] == IF k = 0 THEN 0 ELSE sum[k - 1] + (is[k].end - is[k].start)
  IN sum

Duration(is) == Elapsed(is)[Len(is)]

\* instantAtOffset: the intervals laid end to end.
AtOffset(is, offset) ==
  IF offset >= Duration(is) THEN Last(is).end
  ELSE LET k == Min({l \in DOMAIN is : offset < Elapsed(is)[l]})
       IN is[k].start + (offset - Elapsed(is)[k - 1])

\* The starts of window cycles within working hours that are not skipped.
Cycle(cfg) == IF cfg.cycle > 0 THEN cfg.cycle ELSE DefaultCycle

Anchors(cfg) ==
  IF cfg.work = <<>> THEN {}
  ELSE {a \in Head(cfg.work).start .. Last(cfg.work).end - 1 :
          /\ (a - Head(cfg.work).start) % Cycle(cfg) = 0
          /\ \E i \in DOMAIN cfg.work : cfg.work[i].start <= a /\ a < cfg.work[i].end
          /\ a \notin cfg.skips}

\* A slot is numbered by its position among the anchors.
Slot(cfg, anchor) == Cardinality({a \in Anchors(cfg) : a < anchor})

\* Mutant: the lead is forgotten.
WindowWithoutLead(cfg, anchor) == [start |-> anchor - cfg.span, end |-> anchor]

PreheatWindow(cfg, anchor) ==
  [start |-> anchor - cfg.lead - cfg.span, end |-> anchor - cfg.lead]

\* What a date's preheat window leaves of the allowed time, resolved.
Allowed(cfg, day, anchor) ==
  FlattenSeq([i \in DOMAIN Subtract(PreheatWindow(cfg, anchor), cfg.blackouts) |->
                ResolveInterval(day, Subtract(PreheatWindow(cfg, anchor), cfg.blackouts)[i])])

\* rankedAccounts: in each slot the accounts come in the order of their hashes
\* with it, those of one hash in that of their keys.
Before(slot, a, b) ==
  Hash[slot][a] < Hash[slot][b] \/ (Hash[slot][a] = Hash[slot][b] /\ a < b)

Ranked(cfg, slot) ==
  LET keys == Range(cfg.accounts)
  IN [i \in DOMAIN cfg.accounts |->
        CHOOSE a \in keys : Cardinality({b \in keys : Before(slot, b, a)}) = i - 1]

\* Mutant: the accounts crowd into half of the time.
CrowdedOffset(total, n, i) == (total * i) \div (2 * n)

\* The i-th of n accounts stands in the middle of its share of the time.
ShareOffset(total, n, i) == (total * (2 * i - 1)) \div (2 * n)

PlanSlot(cfg, day, anchor) ==
  LET slot == Slot(cfg, anchor)
      ranked == Ranked(cfg, slot)
      n == Len(ranked)
      allowed == Allowed(cfg, day, anchor)
      total == Duration(allowed)
  IN {[account |-> ranked[i], slot |-> slot, missed |-> total = 0,
       plannedAt |-> IF total = 0 THEN None
                     ELSE AtOffset(allowed, ShareOffset(total, n, i))] : i \in 1 .. n}

\* The configuration is refused when a preheat window begins the day before.
PlanFails(cfg) ==
  /\ cfg.accounts # <<>> /\ cfg.work # <<>> /\ cfg.workday
  /\ \/ cfg.lead = None \/ cfg.span = None \/ cfg.lead < 1 \/ cfg.span < 1
     \/ \E a \in Anchors(cfg) : PreheatWindow(cfg, a).start < 0

PlanDay(cfg, day) ==
  IF cfg.accounts = <<>> \/ cfg.work = <<>> \/ ~cfg.workday THEN {}
  ELSE UNION {PlanSlot(cfg, day, a) : a \in Anchors(cfg)}

=============================================================================
