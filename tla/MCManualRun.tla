----------------------------- MODULE MCManualRun -----------------------------
(***************************************************************************)
(* The instance of ManualRun for TLC is given by MCManualRun_probes.cfg.   *)
(* Callers, accounts and run ids are interchangeable, but symmetry is not  *)
(* sound for the liveness properties that run checks, so none is declared. *)
(***************************************************************************)
EXTENDS ManualRun

=============================================================================
