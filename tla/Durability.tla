----------------------------- MODULE Durability -----------------------------
(***************************************************************************)
(* What the daemon keeps over failures and repetitions: the event ledger,  *)
(* the artifact store, the commands of connections that break, and the     *)
(* processes that follow each other on a state directory.  The ledger is   *)
(* extended and the others instantiated on variables of their own; what    *)
(* they promise is named here for the runs and for the proofs.             *)
(***************************************************************************)
EXTENDS Ledger

CONSTANTS
  Putters, Contents, Shard, MaxFailures,              \* of Artifacts
  Conns, Lines, MaxLine, MaxFill, MaxSent, MaxNotes,  \* of Connection
  Procs, Dirs, Free                                   \* of Startup

VARIABLES
  pc, want, temp, synced, dirs, names, parts, safe, stored, failures,
  net, eof, sent, available, buffered, phase, line, reply, initialized, seen,
  out, notes, done, turns, starts, lost,
  stateDir, step, owner, parent, path, turn, saw

Store == INSTANCE Artifacts WITH
  Writers <- Putters, Digests <- Contents, acked <- stored

Retry == INSTANCE Connection WITH receipts <- done

Daemons == INSTANCE Startup

-----------------------------------------------------------------------------
(* See Artifacts: what the store knows it can return whole.                *)
StoredIsWhole == Store!StoredIsWhole

(* See Connection: an accepted turn is launched once or closed.            *)
AcceptedTurnRuns == Retry!AcceptedTurnRuns

(* See Connection: the lines handled are the lines sent.                   *)
FramingInvisible == Retry!FramingInvisible

(* See Startup: the process that serves is the one clients reach.          *)
ServingIsReachable == Daemons!ServingIsReachable

(* See Startup: recovery closes turns of dead processes only.              *)
RecoversTheDeadOnly == Daemons!RecoversTheDeadOnly

=============================================================================
