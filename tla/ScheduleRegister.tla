--------------------------- MODULE ScheduleRegister ---------------------------
(***************************************************************************)
(* What the plugin promises of its schedule (design spec 163 and 331,      *)
(* README 98 and 210), whatever happens around it: an update replaces      *)
(* exactly the schedule its author had read, nothing is in force that a    *)
(* restart would not find again, and an acknowledged update is in force.   *)
(* An update that fails may take effect at the next restart or never.      *)
(* That the code compares nothing but revision numbers, and that locks     *)
(* keep writers apart, is PluginRuntime's business.                        *)
(***************************************************************************)
EXTENDS Naturals

CONSTANTS
  Client,  \* authors of updates
  Draft,   \* contents of a schedule
  Default, \* the schedule of a new installation
  Null     \* no schedule

VARIABLES
  durable,  \* what a restart would find
  live,     \* the schedule in force, Null while the plugin is down
  followed, \* the schedule the scheduler works by
  read,     \* what each client last read
  valid,    \* clients whose reading stems from the present file
  told      \* the last update acknowledged to a client

vars == <<durable, live, followed, read, valid, told>>

Schedule == [revision : Nat, draft : Draft]
Successor(s, d) == [revision |-> s.revision + 1, draft |-> d]

Init ==
  /\ durable \notin Schedule
  /\ live = Null /\ followed = Null
  /\ read = [c \in Client |-> Null]
  /\ valid = {}
  /\ told = Null

Read(c) ==
  /\ live # Null
  /\ read' = [read EXCEPT ![c] = live]
  /\ valid' = valid \cup {c}
  /\ UNCHANGED <<durable, live, followed, told>>

\* Only who knows the schedule in force may replace it.
Store(c, d) ==
  /\ live # Null
  /\ c \in valid => read[c] = live
  /\ durable' = Successor(live, d)
  /\ UNCHANGED <<live, followed, read, valid, told>>

\* Only what was stored is put in force (unless the file was spoilt meanwhile).
PutInForce ==
  /\ live # Null
  /\ live' \in {Successor(live, d) : d \in Draft}
  /\ durable \in Schedule => live' = durable
  /\ UNCHANGED <<durable, followed, read, valid, told>>

Follow ==
  /\ live # Null
  /\ followed' = live
  /\ UNCHANGED <<durable, live, read, valid, told>>

\* An update is acknowledged when it is durable, in force and followed.
Acknowledge ==
  /\ live # Null
  /\ durable \in Schedule => durable = live
  /\ followed' = live
  /\ told' = live
  /\ UNCHANGED <<durable, live, read, valid>>

GoDown ==
  /\ live' = Null /\ followed' = Null
  /\ UNCHANGED <<durable, read, valid, told>>

Resume ==
  /\ live = Null
  /\ \/ durable \in Schedule /\ live' = durable /\ UNCHANGED <<durable, valid>>
     \/ durable \notin Schedule /\ valid' = {}
        /\ \/ live' = Default /\ durable' \in {durable, Default}
           \/ live' = Null /\ durable' = Default
  /\ UNCHANGED <<followed, read, told>>

\* Somebody else spoils or removes the file.
Damage ==
  /\ durable' \notin Schedule
  /\ UNCHANGED <<live, followed, read, valid, told>>

Next ==
  \/ \E c \in Client : Read(c) \/ \E d \in Draft : Store(c, d)
  \/ PutInForce \/ Follow \/ Acknowledge \/ GoDown \/ Resume \/ Damage

Spec == Init /\ [][Next]_vars

=============================================================================
