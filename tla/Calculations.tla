---------------------------- MODULE Calculations ----------------------------
(***************************************************************************)
(* The pure parts of the program, each asked every question of a set and   *)
(* its answer judged by a reference: sets of ticks instead of intervals    *)
(* and cursors.                                                            *)
(***************************************************************************)
EXTENDS Simulator, UsageWindows, UsagePayload

CONSTANTS
  ScheduleQuestions, \* [kind |-> "update", cfg, day] or [kind |-> "preview", cfg, day, chart]
  UsageQuestions,    \* [kind |-> "usage", payload, detail]
  PreviewLead,       \* minutes that a preview assumes when none are given
  PreviewSpan

ASSUME PreviewAssumption == {PreviewLead, PreviewSpan} \subseteq Nat \ {0}

\* What a preview takes for its date: from time.Date of its midnight to the same
\* clock a day later.  That is the date where the clocks show both midnights and
\* show them once.  Of a midnight that they skip Go makes the first instant of
\* the date, or one as long before it as they skip, by the zone; of one that
\* they show twice, the first or the second.  Then the chart begins or ends
\* earlier or later than the date.
IsChart(chart) == chart \in [start : Int, end : Nat] /\ chart.start < chart.end

\* The account that a preview assumes when none are given.
PreviewAccount == 0

ASSUME QuestionsAssumption ==
  /\ PreviewAccount \in Accounts
  /\ \A q \in ScheduleQuestions :
       /\ q.kind \in {"update", "preview"} /\ q.cfg \in DraftConfig /\ IsDate(q.day)
       /\ q.kind = "preview" => IsChart(q.chart)
  /\ \A q \in UsageQuestions :
       q.kind = "usage" /\ q.payload \in UsageAnswer /\ q.detail \in CreditInfo

VARIABLES
  question, \* what is asked
  answer    \* what the code computes; Unanswered before it does

vars == <<question, answer>>

Unanswered == <<>>

Init == question \in ScheduleQuestions \cup UsageQuestions /\ answer = Unanswered

\* Runtime.Simulate: a preview of a draft that lacks accounts or a preheat
\* window assumes one of its own.
Drafted(cfg) ==
  LET named == IF cfg.accounts = <<>> THEN [cfg EXCEPT !.accounts = <<PreviewAccount>>] ELSE cfg
  IN IF cfg.lead = None \/ cfg.span = None
     THEN [named EXCEPT !.lead = PreviewLead, !.span = PreviewSpan] ELSE named

Preview(cfg, day, chart) ==
  LET valid == ValidConfig(cfg)
      fails == PlanFails(cfg)
  IN [cfg |-> cfg, valid |-> valid, fails |-> fails,
      run |-> IF valid /\ ~fails THEN Run(cfg, day, chart) ELSE <<>>]

AnswerPreview ==
  /\ answer = Unanswered /\ question.kind = "preview"
  /\ answer' = Preview(Drafted(question.cfg), question.day, question.chart)
  /\ UNCHANGED question

\* UpdateSchedule and the scheduler's reconciliation: validate, then plan.
Update(cfg, day) ==
  LET valid == ValidConfig(cfg)
      fails == PlanFails(cfg)
  IN [cfg |-> cfg, valid |-> valid, fails |-> fails,
      run |-> IF valid /\ ~fails THEN [plan |-> PlanDay(cfg, day)] ELSE <<>>]

AnswerUpdate ==
  /\ answer = Unanswered /\ question.kind = "update"
  /\ answer' = Update(question.cfg, question.day)
  /\ UNCHANGED question

AnswerUsage ==
  /\ answer = Unanswered /\ question.kind = "usage"
  /\ answer' = ParseSnapshot(question.payload, question.detail)
  /\ UNCHANGED question

Next == AnswerPreview \/ AnswerUpdate \/ AnswerUsage

Spec == Init /\ [][Next]_vars

-----------------------------------------------------------------------------
\* References.

Valid == answer # Unanswered /\ question.kind \in {"preview", "update"} /\ answer.valid
Planned == Valid /\ ~answer.fails
Previewed == Planned /\ question.kind = "preview"
Cfg == answer.cfg
Day == question.day
Chart == question.chart
Ticks == 0 .. Grain * Len(Day) - 1

\* The ticks that the charts of a preview show.
Charted == Chart.start .. Chart.end - 1

\* The wall minute that a tick shows.
WallAt(t) == Day[1 + (t \div Grain)]
InPeriods(m, ps) == \E i \in DOMAIN ps : ps[i].start <= m /\ m < ps[i].end
Ordinary == Day = [i \in 1 .. DayMinutes |-> i - 1]
Folded == \E i, j \in DOMAIN Day : i # j /\ Day[i] = Day[j]
AllowedMinute(m, anchor) ==
  /\ anchor - Cfg.lead - Cfg.span <= m /\ m < anchor - Cfg.lead
  /\ ~InPeriods(m, Cfg.blackouts)
TicksIn(is) == {t \in Ticks : \E k \in DOMAIN is : is[k].start <= t /\ t < is[k].end}
ChartedIn(is) == {t \in Charted : \E k \in DOMAIN is : is[k].start <= t /\ t < is[k].end}
\* The charted ticks of work: those of the calendar, where every minute is shown
\* once and the last one is shown (see PlanComplete).
WorkTicks == IF Folded \/ DayMinutes - 1 \notin Shown(Day) THEN ChartedIn(answer.run.work)
             ELSE {t \in Ticks \cap Charted : Cfg.workday /\ InPeriods(WallAt(t), Cfg.work)}

-----------------------------------------------------------------------------
\* Properties.

\* A planned instant shows a minute of its preheat window outside every
\* blackout.  (A date that repeats an hour may show a blackout's minutes twice;
\* the planner keeps to the first.)
PlannedWhereAllowed == Planned /\ ~Folded =>
  \A o \in answer.run.plan : ~o.missed =>
    \E a \in Anchors(Cfg) : Slot(Cfg, a) = o.slot /\ AllowedMinute(WallAt(o.plannedAt), a)

\* What validation lets pass can be planned: every account has one occurrence
\* for every anchor; it is missed exactly when the date shows none of the
\* anchor's allowed minutes.  (A date that leaves its last minutes out has no
\* instant at which a period that ends in them could end: the planner gives the
\* whole period up, so nothing is claimed of what such a date misses.)
PlanComplete ==
  /\ Valid /\ (Cfg.enabled \/ question.kind = "preview") => ~answer.fails
  /\ Planned => \A a \in Anchors(Cfg), acc \in Range(Cfg.accounts) : Cfg.workday =>
       LET mine == {o \in answer.run.plan : o.account = acc /\ o.slot = Slot(Cfg, a)}
       IN /\ Cardinality(mine) = 1
          /\ DayMinutes - 1 \in Shown(Day) =>
               \A o \in mine : o.missed = (\A m \in Shown(Day) : ~AllowedMinute(m, a))

\* The accounts of a slot divide its allowed time evenly: between any two of
\* them lies an equal share of it, rounded down to the tick, so no two fall on
\* one instant unless the time has fewer ticks than the slot has accounts.
PlanStaggered == Planned =>
  \A o, p \in answer.run.plan :
    o # p /\ o.slot = p.slot /\ ~o.missed /\ ~p.missed /\ o.plannedAt <= p.plannedAt =>
      \A a \in Anchors(Cfg) : Slot(Cfg, a) = o.slot =>
        LET time == TicksIn(Allowed(Cfg, Day, a))
            between == {t \in time : o.plannedAt <= t /\ t < p.plannedAt}
        IN (Cardinality(between) + 1) * Len(Cfg.accounts) > Cardinality(time)

\* Within every cycle the simulator gives the first work of at most one budget,
\* and nothing else.
CoverageByCycle == Previewed =>
  \A s \in {answer.run.baseline, answer.run.scheduled} :
    LET covered == ChartedIn(s.available)
        anchor == IF s.windows = <<>> THEN 0 ELSE Head(s.windows).start
        InCycle(t, k) == anchor + k * Grain * Cfg.cycle <= t /\ t < anchor + (k + 1) * Grain * Cfg.cycle
        work == WorkTicks
    IN /\ \A k \in 0 .. Len(Day) :
            LET mine == {t \in work : InCycle(t, k)}
            IN {t \in covered : InCycle(t, k)} =
                 {t \in mine : Cardinality({u \in mine : u < t}) < Grain * Cfg.budget}
       /\ covered \subseteq work
       /\ s.coverage = Cardinality(covered) \div Grain
       /\ s.idle = Cardinality(ChartedIn(s.windows) \ work) \div Grain

\* The strategy's chart divides its time without gap or overlap, no two
\* neighbours alike, and shows of every tick what the metrics count.
StrategyChartAgrees(strategy) ==
  LET line == strategy.timeline
      work == answer.run.work
      Kind(t) == IF t \in WorkTicks
                 THEN IF t \in ChartedIn(strategy.available) THEN "available" ELSE "limited"
                 ELSE IF work # <<>> /\ Head(work).start < t /\ t < Last(work).end
                 THEN "break" ELSE "idle"
  IN /\ Head(line).start = Chart.start /\ Last(line).end = Chart.end
     /\ \A i \in DOMAIN line :
          /\ \A t \in Charted : line[i].start <= t /\ t < line[i].end => line[i].kind = Kind(t)
          /\ i > 1 => line[i].start = line[i - 1].end /\ line[i].kind # line[i - 1].kind

\* The preheat chart has a point for every planned occurrence, at its instant,
\* and pieces of work and of idle time; they follow each other over its time.
PreheatChartAgrees ==
  LET line == answer.run.timeline
      Points(acc, t) == {i \in DOMAIN line : line[i].kind = "preheat" /\ line[i].account = acc
                                             /\ line[i].start = t}
      Due(acc, t) == {o \in answer.run.plan : ~o.missed /\ o.account = acc /\ o.plannedAt = t}
  IN /\ \A o \in answer.run.plan : ~o.missed /\ o.plannedAt \in Charted =>
          Cardinality(Points(o.account, o.plannedAt)) = Cardinality(Due(o.account, o.plannedAt))
     /\ Head(line).start = Chart.start /\ Last(line).end = Chart.end
     /\ \A i \in DOMAIN line :
          /\ i > 1 => line[i].start = line[i - 1].end
          /\ line[i].kind = "preheat" =>
               line[i].end = line[i].start /\ Due(line[i].account, line[i].start) # {}
          /\ line[i].kind # "preheat" => \A t \in Charted : line[i].start <= t /\ t < line[i].end =>
               (line[i].kind = "work") = (t \in WorkTicks)

\* What the operator sees of a date is what was planned and counted.  (Work and
\* runs outside the chart of a date without its midnights are neither.)
ChartsAgree == Previewed =>
  /\ PreheatChartAgrees
  /\ \A strategy \in {answer.run.baseline, answer.run.scheduled} : StrategyChartAgrees(strategy)

Asked == question.payload.windows
Parsed == answer # Unanswered /\ question.kind = "usage" /\ answer.windows # Invalid

\* A snapshot reports every window collected from the answer or is refused; its
\* short window is the one that a preheat and a decision take for the shortest; and
\* when it is complete it names a count, so that a reset never acts on a blank.
SnapshotWhole ==
  /\ Parsed =>
       /\ Len(answer.windows) = Len(Asked)
       /\ ShortestIndex(answer.windows) = 1
       /\ \A i \in DOMAIN answer.windows :
            /\ answer.windows[i].remaining \in 0 .. 100
            /\ answer.windows[i].minutes >= answer.windows[1].minutes
            /\ \E w \in Range(Asked) : answer.windows[i].resetAt = w.resetAt
  /\ answer # Unanswered /\ question.kind = "usage" /\ answer.complete => answer.count >= 0

\* parse_test.go, TestParseUsageAcceptsFractionAndPercentUsageEquivalently: a
\* percentage is read as the fraction that it is.
PercentsAreFractions == Parsed =>
  \A i \in DOMAIN Asked : LET w == Asked[i] IN
    w.used # Absent /\ w.used >= 100 /\ w.used % 100 = 0 =>
      \E k \in DOMAIN answer.windows : answer.windows[k].remaining = 100 - w.used \div 100

=============================================================================
