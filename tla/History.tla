------------------------------- MODULE History -------------------------------
(***************************************************************************)
(* The history of threads: what commands and runners put into the context  *)
(* of a model, and what the projection makes of any events.  Threads is    *)
(* extended and Projection instantiated on variables of its own; what it   *)
(* promises is named here for the runs and for the proofs.                 *)
(***************************************************************************)
EXTENDS Threads

CONSTANTS Threads, Turns, Invs  \* of Projection

VARIABLES status, ancestor, turn, on, inv, of, home, retry

Replay == INSTANCE Projection WITH parent <- ancestor

(* An id is not the value that stands for no id.                           *)
ASSUME HistoryAssumption == Replay!Nothing \notin Threads

(* See Projection: the status of a thread agrees with its live turn.       *)
StatusTellsTruth == Replay!StatusTellsTruth

=============================================================================
