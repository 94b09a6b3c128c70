----------------------------- MODULE MCScheduler -----------------------------
(***************************************************************************)
(* Instances of Scheduler for TLC: two accounts with one occurrence each;  *)
(* MCScheduler_live.cfg leaves the second account out.                     *)
(***************************************************************************)
EXTENDS Scheduler

CONSTANTS a1, a2, o1, o2

MCAccountOf == [o \in Occ |-> IF o = o1 THEN a1 ELSE a2]

\* Both occurrences on the first local date, instants 1 .. 3.
SameDay == [o \in Occ |-> 0]

Plan(t1, t2) == [o \in Occ |-> IF o = o1 THEN t1 ELSE t2]

\* Both accounts at one instant, another plan without the second account, and
\* a disabled schedule.
DayConfigs ==
  {[enabled |-> TRUE, selected |-> Account, plan |-> Plan(2, 2)],
   [enabled |-> TRUE, selected |-> {a1}, plan |-> Plan(3, 0)],
   [enabled |-> FALSE, selected |-> Account, plan |-> Plan(2, 2)]}

=============================================================================
