------------------------------ MODULE Simulator ------------------------------
(***************************************************************************)
(* The strategy simulator: internal/simulate/service.go.  Intervals are    *)
(* [start, end) in ticks of the planner.  `chart' is the interval that the *)
(* code takes for the date, dayStart to dayEnd (see Calculations).  What   *)
(* the code sorts is a set until then: its order, and an element that      *)
(* comes twice, make no difference.                                        *)
(***************************************************************************)
EXTENDS Planner

\* sort.Slice: the elements of a set, each behind those before it in R.
InOrder(S, R) ==
  [k \in 1 .. Cardinality(S) |-> CHOOSE x \in S : Cardinality({y \in S : <<y, x>> \in R}) = k - 1]

NotEmpty(i) == i.end > i.start

Clip(i, lower, upper) == [start |-> Max({i.start, lower}), end |-> Min({i.end, upper})]

\* mergeIntervals: sorted, overlapping and touching ones joined.
Sooner(is) ==
  {p \in is \X is : \/ p[1].start < p[2].start
                    \/ p[1].start = p[2].start /\ p[1].end < p[2].end}

Join(merged, i) ==
  IF merged = <<>> \/ i.start > Last(merged).end THEN Append(merged, i)
  ELSE [merged EXCEPT ![Len(merged)].end = Max({@, i.end})]

\* The first k of the sorted intervals, joined.
Joined(sorted) ==
  LET merged[k \in 0 .. Len(sorted)] ==
        IF k = 0 THEN <<>> ELSE Join(merged[k - 1], sorted[k])
  IN merged

MergeIntervals(is) ==
  LET filtered == {i \in is : NotEmpty(i)}
      sorted == InOrder(filtered, Sooner(filtered))
  IN Joined(sorted)[Len(sorted)]

\* wholeMinutes.
WholeMinutes(ticks) == IF ticks <= 0 THEN 0 ELSE ticks \div Grain

-----------------------------------------------------------------------------
\* Run.

\* The work of the date, resolved, clipped and merged.
Work(cfg, day, chart) ==
  IF ~cfg.workday THEN <<>>
  ELSE LET resolved == UNION {Range(ResolveInterval(day, cfg.work[k])) : k \in DOMAIN cfg.work}
       IN MergeIntervals({Clip(i, chart.start, chart.end) : i \in resolved})

\* The first planned instant moves the cycles forward, never back.
ScheduledAnchor(work, plan, chart) ==
  Min({Head(work).start}
        \cup {o.plannedAt : o \in {p \in plan : ~p.missed /\ p.plannedAt >= chart.start}})

\* cycleAvailability: the cycles from the anchor to the end of work, each with
\* one budget that its work uses up in order.
CycleStarts(work, anchor, cycle) ==
  {start \in anchor .. Last(work).end - 1 : (start - anchor) % (Grain * cycle) = 0}

CycleWindow(start, cycle, chart) ==
  Clip([start |-> start, end |-> start + Grain * cycle], chart.start, chart.end)

\* Mutant: every period of work has the budget anew.
KeepBudget(left, used) == left

Charge(left, used) == left - used

Use(window, period, st) ==
  LET overlap == Clip(period, window.start, window.end)
      used == Min({overlap.end - overlap.start, st.left})
  IN IF ~NotEmpty(overlap) \/ st.left <= 0 THEN st
     ELSE [left |-> Charge(st.left, used),
           spans |-> st.spans \cup {[start |-> overlap.start, end |-> overlap.start + used]}]

\* What the first k periods of work use of a window's budget.
Spent(window, work, budget) ==
  LET after[k \in 0 .. Len(work)] ==
        IF k = 0 THEN [left |-> Grain * budget, spans |-> {}]
        ELSE Use(window, work[k], after[k - 1])
  IN after

UseBudget(window, work, budget) == Spent(window, work, budget)[Len(work)].spans

Cycles(cfg, chart, work, anchor) ==
  LET windows == {CycleWindow(start, cfg.cycle, chart) :
                    start \in CycleStarts(work, anchor, cfg.cycle)}
  IN IF work = <<>> THEN [available |-> <<>>, windows |-> <<>>]
     ELSE [available |-> MergeIntervals(UNION {UseBudget(w, work, cfg.budget) : w \in windows}),
           windows |-> MergeIntervals(windows)]

\* coverageDuration, idleDuration: the cycles' time outside work.
Overlaps(windows, work) ==
  MergeIntervals({Clip(work[p], windows[k].start, windows[k].end) :
                    p \in DOMAIN work, k \in DOMAIN windows})

IdleTicks(windows, work) == Max({0, Duration(windows) - Duration(Overlaps(windows, work))})

-----------------------------------------------------------------------------
\* The charts: the pieces between the instants at which something begins or
\* ends, judged at their middle.

\* Mutant: the ends are left out.
StartsOnly(is) == {is[k].start : k \in DOMAIN is}

Bounds(is) == {is[k].start : k \in DOMAIN is} \cup {is[k].end : k \in DOMAIN is}

Boundaries(instants) == InOrder(instants, {p \in instants \X instants : p[1] < p[2]})

Middle(start, end) == start + (end - start) \div 2

\* containsInstant.
ContainsInstant(is, t) == \E k \in DOMAIN is : is[k].start <= t /\ t < is[k].end

\* strategyTimeline: a piece like the one before it continues that one.
KindAt(work, available, t) ==
  IF ContainsInstant(work, t) THEN IF ContainsInstant(available, t) THEN "available" ELSE "limited"
  ELSE IF work # <<>> /\ t > Head(work).start /\ t < Last(work).end THEN "break" ELSE "idle"

Continue(segments, kind, start, end) ==
  IF segments # <<>> /\ Last(segments).kind = kind
  THEN [segments EXCEPT ![Len(segments)].end = end]
  ELSE Append(segments, [kind |-> kind, start |-> start, end |-> end])

\* The segments of the first k pieces.
Segments(b, work, available) ==
  LET line[k \in 0 .. Len(b) - 1] ==
        IF k = 0 THEN <<>>
        ELSE Continue(line[k - 1], KindAt(work, available, Middle(b[k], b[k + 1])), b[k], b[k + 1])
  IN line

StrategyTimeline(chart, work, available) ==
  LET b == Boundaries({chart.start, chart.end} \cup Bounds(work) \cup Bounds(available))
  IN Segments(b, work, available)[Len(b) - 1]

\* timelineSegments: before a piece a point for every occurrence planned at its
\* start, by account (those of one account as the plan has them).
Marked(chart, plan) ==
  {o \in plan : ~o.missed /\ chart.start <= o.plannedAt /\ o.plannedAt <= chart.end}

ByAccount(S) ==
  {p \in S \X S : \/ p[1].account < p[2].account
                  \/ p[1].account = p[2].account /\ p[1].slot < p[2].slot}

Markers(marked, t) ==
  LET here == {o \in marked : o.plannedAt = t}
      sorted == InOrder(here, ByAccount(here))
  IN [k \in 1 .. Len(sorted) |->
        [kind |-> "preheat", start |-> t, end |-> t, account |-> sorted[k].account]]

Piece(work, start, end) ==
  [kind |-> IF ContainsInstant(work, Middle(start, end)) THEN "work" ELSE "idle",
   start |-> start, end |-> end, account |-> None]

\* The segments up to the k-th bound and the piece that begins there.
Marking(b, work, marked) ==
  LET line[k \in 0 .. Len(b)] ==
        IF k = 0 THEN <<>>
        ELSE line[k - 1] \o Markers(marked, b[k])
               \o (IF k = Len(b) THEN <<>> ELSE <<Piece(work, b[k], b[k + 1])>>)
  IN line

PreheatTimeline(chart, work, plan) ==
  LET marked == Marked(chart, plan)
      b == Boundaries({chart.start, chart.end} \cup Bounds(work) \cup {o.plannedAt : o \in marked})
  IN Marking(b, work, marked)[Len(b)]

-----------------------------------------------------------------------------

Metrics(cfg, chart, work, anchor) ==
  LET c == Cycles(cfg, chart, work, anchor)
  IN [available |-> c.available, windows |-> c.windows,
      coverage |-> WholeMinutes(Duration(c.available)),
      idle |-> WholeMinutes(IdleTicks(c.windows, work)),
      timeline |-> StrategyTimeline(chart, work, c.available)]

Run(cfg, day, chart) ==
  LET work == Work(cfg, day, chart)
      plan == PlanDay(cfg, day)
      base == IF work = <<>> THEN 0 ELSE Head(work).start
      scheduled == IF work = <<>> THEN 0 ELSE ScheduledAnchor(work, plan, chart)
  IN [work |-> work, plan |-> plan,
      timeline |-> PreheatTimeline(chart, work, plan),
      baseline |-> Metrics(cfg, chart, work, base),
      scheduled |-> Metrics(cfg, chart, work, scheduled)]

=============================================================================
