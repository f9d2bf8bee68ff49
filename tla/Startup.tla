------------------------------ MODULE Startup ------------------------------
(***************************************************************************)
(* Daemon processes that use one socket path, on one state directory or on *)
(* several: the owner lock, recovery, the check and replacement of a       *)
(* socket an earlier process left behind, and the ways a process ends.  A  *)
(* process is started once; a restarted daemon is another process.         *)
(*                                                                         *)
(* flock is released by the end of the process; connecting to a socket     *)
(* succeeds exactly while a process listens on it (external).              *)
(***************************************************************************)
EXTENDS Naturals

CONSTANTS
  Procs,   \* daemon processes
  Dirs,    \* state directories
  Free     \* no process

VARIABLES
  stateDir, \* the state directory a process is started for
  step,     \* where a process is
  owner,    \* holder of the owner.lock of a directory, or Free
  parent,   \* directory of the socket: "missing", "private", "unsafe"
  path,     \* process whose socket the path names, or Free
  turn,     \* process that runs a live turn of a ledger, or Free
  saw       \* what a process found at the path

vars == <<stateDir, step, owner, parent, path, turn, saw>>

Over == {"ended", "already_running", "bad_parent", "socket_in_use"}
Listening(p) == step[p] \in {"bound", "serving"}
Running(p) == step[p] \notin Over \cup {"new"}

Init ==
  /\ stateDir \in [Procs -> Dirs]
  /\ step = [p \in Procs |-> "new"]
  /\ owner = [d \in Dirs |-> Free] /\ turn = [d \in Dirs |-> Free]
  /\ path = Free
  /\ parent \in {"missing", "private", "unsafe"}
  /\ saw = [p \in Procs |-> "unknown"]

Goto(p, s) == step' = [step EXCEPT ![p] = s]

(* A process that ends drops its lock; a turn it ran stays in the ledger.  *)
End(p, how) ==
  /\ Goto(p, how)
  /\ owner' = [d \in Dirs |-> IF owner[d] = p THEN Free ELSE owner[d]]
  /\ UNCHANGED <<parent, path, turn, saw>>

-----------------------------------------------------------------------------
(* Daemon::open_with.                                                      *)

Open(p) ==
  /\ step[p] = "new"
  /\ Goto(p, "opened")
  /\ UNCHANGED <<owner, parent, path, turn, saw>>

LockShared(p) ==
  /\ step[p] = "opened"
  /\ owner' = [owner EXCEPT ![stateDir[p]] = p]
  /\ Goto(p, "owner")
  /\ UNCHANGED <<parent, path, turn, saw>>
TryLockExclusive(p) ==
  /\ step[p] = "opened"
  /\ \/ /\ owner[stateDir[p]] = Free
        /\ owner' = [owner EXCEPT ![stateDir[p]] = p]
        /\ Goto(p, "owner")
        /\ UNCHANGED <<parent, path, turn, saw>>
     \/ owner[stateDir[p]] # Free /\ End(p, "already_running")

RecoverInterruptedTurns(p) ==
  /\ step[p] = "owner"
  /\ turn' = [turn EXCEPT ![stateDir[p]] = Free]
  /\ Goto(p, "recovered")
  /\ UNCHANGED <<owner, parent, path, saw>>

-----------------------------------------------------------------------------
(* serve_unix.                                                             *)

EnsureSocketParent(p) ==
  /\ step[p] = "recovered"
  /\ \/ /\ parent # "unsafe"
        /\ parent' = "private"
        /\ Goto(p, "checked")
        /\ UNCHANGED <<owner, path, turn, saw>>
     \/ parent = "unsafe" /\ End(p, "bad_parent")

(* symlink_metadata, then connect.                                         *)
LookAtPath(p) ==
  /\ step[p] = "checked"
  /\ saw' = [saw EXCEPT ![p] = CASE path = Free -> "nothing"
                                 [] path # Free /\ Listening(path) -> "live"
                                 [] OTHER -> "stale"]
  /\ Goto(p, "connected")
  /\ UNCHANGED <<owner, parent, path, turn>>

RemoveStale(p) ==
  /\ step[p] = "connected"
  /\ \/ saw[p] = "live" /\ End(p, "socket_in_use")
     \/ /\ saw[p] = "nothing"
        /\ Goto(p, "cleared")
        /\ UNCHANGED <<owner, parent, path, turn, saw>>
     \/ /\ saw[p] = "stale" /\ path # Free
        /\ path' = Free
        /\ Goto(p, "cleared")
        /\ UNCHANGED <<owner, parent, turn, saw>>
     \/ saw[p] = "stale" /\ path = Free /\ End(p, "socket_in_use")

(* bind refuses a path that exists.                                        *)
Bind(p) ==
  /\ step[p] = "cleared"
  /\ \/ /\ path = Free /\ path' = p
        /\ Goto(p, "bound")
        /\ UNCHANGED <<owner, parent, turn, saw>>
     \/ path # Free /\ End(p, "socket_in_use")

Serve(p) ==
  /\ step[p] = "bound"
  /\ Goto(p, "serving")
  /\ UNCHANGED <<owner, parent, path, turn, saw>>

AcceptTurn(p) ==
  /\ step[p] = "serving" /\ turn[stateDir[p]] = Free
  /\ turn' = [turn EXCEPT ![stateDir[p]] = p]
  /\ UNCHANGED <<step, owner, parent, path, saw>>

FinishTurn(p) ==
  /\ step[p] = "serving" /\ turn[stateDir[p]] = p
  /\ turn' = [turn EXCEPT ![stateDir[p]] = Free]
  /\ UNCHANGED <<step, owner, parent, path, saw>>

(* Ctrl-C or an error of accept: the file is removed while the daemon      *)
(* value still exists; main returns afterwards.                            *)
CleanupUnlocked(p) ==
  /\ \/ /\ step[p] = "serving"
        /\ owner' = [owner EXCEPT ![stateDir[p]] = Free]
        /\ Goto(p, "unlocked")
        /\ UNCHANGED path
     \/ /\ step[p] = "unlocked"
        /\ path' = Free
        /\ Goto(p, "cleaned")
        /\ UNCHANGED owner
  /\ UNCHANGED <<parent, turn, saw>>
SocketCleanup(p) ==
  /\ step[p] = "serving"
  /\ path' = Free
  /\ Goto(p, "cleaned")
  /\ UNCHANGED <<owner, parent, turn, saw>>

Exit(p) == step[p] = "cleaned" /\ End(p, "ended")

Crash(p) == Running(p) /\ End(p, "ended")

Start(p) ==
  \/ Open(p) \/ TryLockExclusive(p) \/ RecoverInterruptedTurns(p)
  \/ EnsureSocketParent(p) \/ LookAtPath(p) \/ RemoveStale(p) \/ Bind(p)
  \/ Serve(p)

Next ==
  /\ stateDir' = stateDir
  /\ \E p \in Procs :
       \/ Start(p) \/ AcceptTurn(p) \/ FinishTurn(p)
       \/ SocketCleanup(p) \/ Exit(p) \/ Crash(p)

Spec == Init /\ [][Next]_vars

-----------------------------------------------------------------------------
(* Where all daemons use one state directory, a process that listens is    *)
(* the one clients of the path reach: no other process removes or replaces *)
(* its socket, neither while it starts nor with its own clean-up, and a    *)
(* socket left behind by a crash keeps nobody from serving (serve_unix,    *)
(* SocketCleanup, the lock held by DaemonInner).                           *)
ServingIsReachable ==
  (\A p, q \in Procs : stateDir[p] = stateDir[q]) =>
    \A p \in Procs : step[p] # "socket_in_use" /\ (Listening(p) => path = p)

(* Recovery closes the turns of dead processes only, also where daemons of *)
(* several state directories fight for one socket path (open_with).        *)
RecoversTheDeadOnly ==
  [][\A p \in Procs :
       step[p] = "owner" /\ step'[p] = "recovered" =>
         turn[stateDir[p]] = Free \/ ~Running(turn[stateDir[p]])]_vars

=============================================================================
