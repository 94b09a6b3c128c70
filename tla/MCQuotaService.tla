--------------------------- MODULE MCQuotaService ---------------------------
(***************************************************************************)
(* Instances of QuotaService for TLC: answers with a low, a middling and   *)
(* no long window, and two floors, of which the middling one is under one  *)
(* and above the other.                                                    *)
(***************************************************************************)
EXTENDS QuotaService

Short(remaining) == [minutes |-> 300, remaining |-> remaining, resetAt |-> 3, short |-> TRUE]
LongWindow(remaining) == [minutes |-> 10080, remaining |-> remaining, resetAt |-> 9, short |-> FALSE]

MCAnswers == {<<Short(0), LongWindow(5)>>, <<Short(0), LongWindow(20)>>, <<Short(100)>>}

MCConfigs == {[longFloor |-> floor, quotaFloor |-> 50, windowFloor |-> 2] : floor \in {10, 30}}

=============================================================================
