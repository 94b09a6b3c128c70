---------------------------- MODULE UsageWindows ----------------------------
(***************************************************************************)
(* How usage windows are read: quota/service.go 405-484.  A snapshot's     *)
(* windows are a sequence of records with minutes, remaining (percent),    *)
(* resetAt (0 when the upstream named none) and short.                     *)
(***************************************************************************)
EXTENDS Integers, Sequences

\* shortestIndex: among the windows marked short, or among all when none is,
\* the first of the least duration.
ShortestIndex(ws) ==
  LET marked == {i \in DOMAIN ws : ws[i].short}
      from == IF marked = {} THEN DOMAIN ws ELSE marked
  IN CHOOSE i \in from : \A j \in from :
       \/ ws[i].minutes < ws[j].minutes
       \/ ws[i].minutes = ws[j].minutes /\ i <= j

\* Every other window is a long one.
Long(ws) == {i \in DOMAIN ws : i # ShortestIndex(ws)}

HasLong(ws) == Len(ws) >= 2

AnyLongAtOrBelow(ws, floor) == \E i \in Long(ws) : ws[i].remaining <= floor

AllLongAbove(ws, floor) == HasLong(ws) /\ \A i \in Long(ws) : ws[i].remaining > floor

\* The short window has quota and time enough left: decide, 415-418.
Sufficient(ws, cfg, now) ==
  /\ ws # <<>>
  /\ LET short == ws[ShortestIndex(ws)]
     IN /\ short.remaining >= cfg.quotaFloor
        /\ short.resetAt > 0
        /\ short.resetAt - now >= cfg.windowFloor

\* Mutant: the hold is not asked when there is no good view.
DecideUnheld(view, held, cfg) ==
  IF view.failed THEN "quota_unknown_fail_open"
  ELSE IF AnyLongAtOrBelow(view.windows, cfg.longFloor) THEN "guardrail_hold"
  ELSE IF ~view.stale /\ Sufficient(view.windows, cfg, view.now) THEN "sufficient_window"
  ELSE "proceed"

\* decide: a view of the cache, whether the account is held, the configuration.
Decide(view, held, cfg) ==
  IF held /\ (view.failed \/ view.stale) THEN "guardrail_hold"
  ELSE IF view.failed THEN "quota_unknown_fail_open"
  ELSE IF AnyLongAtOrBelow(view.windows, cfg.longFloor) THEN "guardrail_hold"
  ELSE IF ~view.stale /\ Sufficient(view.windows, cfg, view.now) THEN "sufficient_window"
  ELSE "proceed"

=============================================================================
