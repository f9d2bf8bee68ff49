----------------------------- MODULE MCExecution -----------------------------
(***************************************************************************)
(* What a turn may do to the machine, for TLC.  A behaviour is one of      *)
(* three, chosen in the beginning, and the variables of the other module   *)
(* rest:                                                                   *)
(*   "trust"  Workspaces;                                                  *)
(*   "one"    Process with one call that writes output, strict or not and  *)
(*            with or without isolation of process trees;                  *)
(*   "two"    Process with two calls that write none, strict and isolated  *)
(*            as every call of the daemon is.                              *)
(* Paths, directories, records and jobs are interchangeable.               *)
(***************************************************************************)
EXTENDS Workspaces, Processes, TLC

VARIABLE part

running == <<isolation, pc, strict, result, lock, guard, child, procs, written,
             taken, reader, got, truncated, orphans, struck>>

Symmetry ==
  Permutations(Paths) \cup Permutations(Inodes) \cup Permutations(Records)
    \cup Permutations(Jobs)

ExecutionInit ==
  /\ part \in {"trust", "one", "two"}
  /\ Init /\ Exec!Init
  /\ part = "one" => ~strict["c2"]
  /\ part # "one" => isolation /\ \A c \in Runs : strict[c]
  /\ part # "trust" =>
       /\ \A p \in Paths : disk[p] = Gone
       /\ daemon = [ceiling |-> "observe", backend |-> "unavailable", toolCalls |-> FALSE]

ExecutionNext ==
  /\ part' = part
  /\ \/ part = "trust" /\ Next /\ UNCHANGED running
     \/ part = "one" /\ Exec!Next /\ pc'["c2"] = "idle" /\ UNCHANGED vars
     \/ part = "two" /\ Exec!Next /\ written' = written /\ UNCHANGED vars

ExecutionSpec == ExecutionInit /\ [][ExecutionNext]_<<part, vars, running>>

=============================================================================
