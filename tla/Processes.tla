------------------------------ MODULE Processes ------------------------------
(***************************************************************************)
(* The processes of an executor: Process on variables of its own, and what *)
(* it promises, named for the run and for the proofs.                      *)
(***************************************************************************)

CONSTANTS Runs, Pids, MaxBytes, Limit

VARIABLES
  isolation, pc, strict, result, lock, guard, child, procs, written, taken,
  reader, got, truncated, orphans, struck

Exec == INSTANCE Process WITH Calls <- Runs

(* See Process: nothing but the call's own processes is ever signalled.    *)
OnlyOwnStruck == Exec!OnlyOwnStruck

(* See Process: what execute reports is true.                              *)
OutcomeTrue == Exec!OutcomeTrue

=============================================================================
