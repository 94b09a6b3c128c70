------------------------------ MODULE DurableLog ------------------------------
(***************************************************************************)
(* What the plugin promises of a document on disk (README 210, design spec *)
(* 331: atomic replacement, synced where the system can): an update takes  *)
(* effect in one instant, on the document as it is then, or not at all;    *)
(* whatever stops between two steps of it, a reader finds a document that  *)
(* was there; and an update that was acknowledged is not lost again.  How  *)
(* the lock, the temporary file and the syncs bring this about is          *)
(* HistoryStore's business.                                                *)
(***************************************************************************)
EXTENDS Naturals, Sequences

CONSTANTS
  Caller,     \* who updates the document
  Record,     \* what an update may append
  MaxRecords, \* how many records are kept
  DirSync,    \* whether the system can sync a directory
  Null        \* no update

VARIABLES
  log,     \* what a reader finds
  perhaps, \* what may be found after a loss of power
  owed     \* each caller's update: to be made, made, or none

vars == <<log, perhaps, owed>>

Clearing == "clear"
Made == "made"
Update == Record \cup {Clearing}

\* The last records of s, as many as are kept.
Recent(s) == IF Len(s) > MaxRecords THEN SubSeq(s, Len(s) - MaxRecords + 1, Len(s)) ELSE s

Result(s, update) == IF update = Clearing THEN <<>> ELSE Recent(Append(s, update))

Init ==
  /\ log = <<>>
  /\ perhaps = {<<>>}
  /\ owed = [c \in Caller |-> Null]

Ask(c, update) ==
  /\ owed[c] = Null
  /\ owed' = [owed EXCEPT ![c] = update]
  /\ UNCHANGED <<log, perhaps>>

Make(c) ==
  /\ owed[c] \in Update
  /\ log' = Result(log, owed[c])
  /\ perhaps' = perhaps \cup {log'}
  /\ owed' = [owed EXCEPT ![c] = Made]

\* Where directories are synced, an update is acknowledged for good.
Acknowledge(c) ==
  /\ owed[c] = Made
  /\ perhaps' = IF DirSync THEN {log} ELSE perhaps
  /\ owed' = [owed EXCEPT ![c] = Null]
  /\ UNCHANGED log

\* An error says nothing of whether the update was made.
Fail(c) ==
  /\ owed[c] # Null
  /\ owed' = [owed EXCEPT ![c] = Null]
  /\ UNCHANGED <<log, perhaps>>

Die ==
  /\ owed' = [c \in Caller |-> Null]
  /\ UNCHANGED <<log, perhaps>>

LosePower ==
  /\ log' \in perhaps
  /\ perhaps' = {log'}
  /\ owed' = [c \in Caller |-> Null]

Next ==
  \/ \E c \in Caller : \/ \E update \in Update : Ask(c, update)
                       \/ Make(c) \/ Acknowledge(c) \/ Fail(c)
  \/ Die \/ LosePower

Spec == Init /\ [][Next]_vars

=============================================================================
