------------------------- MODULE OccurrenceLifecycle -------------------------
(***************************************************************************)
(* What the scheduler promises of every occurrence, whatever timers,       *)
(* configuration changes, write failures and restarts come between: at     *)
(* most one preheat request; at most one compensation request, and only    *)
(* after a preheat request; and nothing once the occurrence is done.       *)
(* (ADR-0006, ADR-0015.)  A step may move several occurrences at once.     *)
(***************************************************************************)
EXTENDS Naturals

CONSTANT Occ

VARIABLES
  stage,   \* how far an occurrence has come
  sent     \* the requests sent for it, by kind

vars == <<stage, sent>>

Stage == {"unplanned", "planned", "preheating", "waiting", "compensating", "done"}
Unsent == [occurrence |-> 0, compensation |-> 0]

Init ==
  /\ stage = [o \in Occ |-> "unplanned"]
  /\ sent = [o \in Occ |-> Unsent]

Moves(o, from, to) == stage[o] \in from /\ stage'[o] = to

\* The moves that send nothing.  Planning puts an occurrence on the calendar;
\* waiting is for the one compensation of a preheat request that was sent.
Quiet(o) ==
  /\ sent'[o] = sent[o]
  /\ \/ stage'[o] = stage[o]
     \/ Moves(o, {"unplanned"}, "planned")
     \/ Moves(o, {"planned"}, "preheating")
     \/ Moves(o, {"preheating"}, "waiting") /\ sent[o].occurrence = 1
     \/ Moves(o, {"waiting"}, "compensating")
     \/ Moves(o, Stage \ {"done"}, "done")

SendPreheat(o) ==
  /\ stage[o] = "preheating" /\ stage'[o] = stage[o]
  /\ sent[o] = Unsent
  /\ sent'[o] = [Unsent EXCEPT !.occurrence = 1]

SendCompensation(o) ==
  /\ stage[o] = "compensating" /\ stage'[o] = stage[o]
  /\ sent[o] = [Unsent EXCEPT !.occurrence = 1]
  /\ sent'[o] = [sent[o] EXCEPT !.compensation = 1]

Next ==
  /\ stage' \in [Occ -> Stage]
  /\ DOMAIN sent' = Occ
  /\ \A o \in Occ : Quiet(o) \/ SendPreheat(o) \/ SendCompensation(o)

Spec == Init /\ [][Next]_vars

=============================================================================
