---------------------------- MODULE MCResetQuota ----------------------------
(***************************************************************************)
(* Instances of ResetQuota for TLC.  Callers are interchangeable, and so   *)
(* are keys and accounts.                                                  *)
(***************************************************************************)
EXTENDS ResetQuota, TLC

Symmetry == Permutations(Caller) \cup Permutations(Key) \cup Permutations(Account)

=============================================================================
