------------------------------- MODULE Process -------------------------------
(***************************************************************************)
(* ProcessExecutor::execute supervises one child at a time: spawn in a     *)
(* process group of its own, wait with a deadline, kill the group while    *)
(* the unreaped leader pins its number, reap, drain the output, and make   *)
(* sure the group is gone.  The future may be dropped at every await.      *)
(* Process numbers are reused by the operating system, whose part (the     *)
(* target, its descendants, other programs) is modelled from how the code  *)
(* uses it.  stdout and stderr behave alike and are one pipe.              *)
(***************************************************************************)
EXTENDS Naturals, FiniteSets

CONSTANTS
  Calls,     \* calls of execute on one executor
  Pids,      \* process numbers, positive naturals
  MaxBytes,  \* what a target may write (model bound)
  Limit      \* output_limit_bytes

VARIABLES
  isolation, \* whether the sandbox backend isolates process trees
  pc,       \* where each call is
  strict,   \* request.sandbox.process_isolation
  result,   \* "none", "ok", "failed", "unknown" or "dropped"
  lock,     \* holder of the executor's mutex
  guard,    \* ProcessGroupGuard: [leader, group, reaped]
  child,    \* number of the tokio Child, 0 without one
  procs,    \* the process table
  written,  \* bytes written to the pipe
  taken,    \* bytes read from it
  reader,   \* read_capped: "off", "on", "extra" or "done"
  got,      \* bytes retained
  truncated,
  orphans,  \* children dropped before they were reaped
  struck    \* history: owners whose processes were killed by each call

sandbox == <<isolation, strict>>
call == <<pc, sandbox, result, lock, guard, child>>
pipe == <<written, taken, reader, got, truncated>>
vars == <<call, pipe, procs, orphans, struck>>

Nobody == "nobody"
Other == "other"
Free == [state |-> "free", owner |-> Nobody, group |-> 0, holds |-> FALSE,
         stayed |-> FALSE]
NoGuard == [leader |-> 0, group |-> 0, reaped |-> TRUE]

Init ==
  /\ isolation \in BOOLEAN
  /\ pc = [c \in Calls |-> "idle"]
  /\ strict \in [Calls -> BOOLEAN]
  /\ result = [c \in Calls |-> "none"]
  /\ lock = Nobody
  /\ guard = [c \in Calls |-> NoGuard]
  /\ child = [c \in Calls |-> 0]
  /\ procs = [p \in Pids |-> Free]
  /\ written = [c \in Calls |-> 0] /\ taken = [c \in Calls |-> 0]
  /\ reader = [c \in Calls |-> "off"]
  /\ got = [c \in Calls |-> 0] /\ truncated = [c \in Calls |-> FALSE]
  /\ orphans = {}
  /\ struck = [c \in Calls |-> {}]

-----------------------------------------------------------------------------
(* The operating system.                                                   *)
Live == {p \in Pids : procs[p].state = "live"}
Exists == {p \in Pids : procs[p].state # "free"}
Members(g) == {p \in Exists : procs[p].group = g}

(* A number is not given out while a process or a group has it.            *)
Available == {p \in Pids : p \notin Exists /\ Members(p) = {}}

(* Whether a reader of the call's pipe would wait: somebody has it open.   *)
Open(c) == \E p \in Exists :
  procs[p].owner = c /\ procs[p].holds /\ procs[p].state # "zombie"

(* SIGKILL: a process that has it runs no more, but may take time to go.   *)
Killed(P) ==
  [p \in Pids |-> IF p \in P /\ procs[p].state = "live"
                  THEN [procs[p] EXCEPT !.state = "killed"] ELSE procs[p]]

Owners(P) == {procs[p].owner : p \in {p \in P : procs[p].state = "live"}}

(* A child keeps its number until it is waited for.                        *)
Gone(p) ==
  IF p \in orphans \/ \E c \in Calls : child[c] = p
  THEN [procs[p] EXCEPT !.state = "zombie"] ELSE Free

-----------------------------------------------------------------------------
Goto(c, to) == pc' = [pc EXCEPT ![c] = to]

(* process_error: what the invocation's outcome is after an error.         *)
ProcessErrorIgnoresDrain(e) ==
  IF e \in {"Io", "Join", "ProcessGroupUnavailable", "DescendantsMaySurvive"}
  THEN "unknown" ELSE "failed"
ProcessError(e) ==
  IF e \in {"Io", "Join", "OutputDrainTimeout", "ProcessGroupUnavailable",
            "DescendantsMaySurvive"}
  THEN "unknown" ELSE "failed"

(* terminate: never by number once the leader is reaped.                   *)
TerminateAlways(c) == Members(guard[c].group)
Terminate(c) == IF guard[c].reaped THEN {} ELSE Members(guard[c].group)

Kill(c, P) ==
  /\ procs' = Killed(P)
  /\ struck' = [struck EXCEPT ![c] = @ \union Owners(P)]

(* The guards are dropped in reverse order; the mutex is the last.         *)
Unlocks(c) == lock' = Nobody

Call(c) ==
  /\ pc[c] = "idle"
  /\ Goto(c, "queued")
  /\ UNCHANGED <<sandbox, result, lock, guard, child, pipe, procs, orphans, struck>>

Lock(c) ==
  /\ pc[c] = "queued" /\ lock = Nobody
  /\ lock' = c
  /\ Goto(c, "checks")
  /\ UNCHANGED <<sandbox, result, guard, child, pipe, procs, orphans, struck>>

(* Limits, environment, executable, directory and ensure(): no process is  *)
(* spawned for a target that fails one of them.                            *)
Refuse(c, e) ==
  /\ Goto(c, "ended")
  /\ result' = [result EXCEPT ![c] = ProcessError(e)]
  /\ Unlocks(c)
  /\ UNCHANGED <<sandbox, guard, child, pipe, procs, orphans, struck>>

Checks(c) ==
  /\ pc[c] = "checks"
  /\ \/ Refuse(c, "Validation")
     \/ strict[c] /\ ~isolation /\ Refuse(c, "Sandbox")
     \/ /\ strict[c] => isolation
        /\ Goto(c, "handshake")
        /\ UNCHANGED <<sandbox, result, lock, guard, child, pipe, procs,
                       orphans, struck>>

Handshake(c) ==
  /\ pc[c] = "handshake"
  /\ \/ \E e \in {"HandshakeJoin", "Sandbox"} : Refuse(c, e)
     \/ /\ Goto(c, "spawn")
        /\ UNCHANGED <<sandbox, result, lock, guard, child, pipe, procs,
                       orphans, struck>>

Spawn(c) ==
  /\ pc[c] = "spawn"
  /\ \/ Refuse(c, "Spawn")
     \/ \E p \in Available :
          /\ child' = [child EXCEPT ![c] = p]
          /\ procs' = [procs EXCEPT ![p] =
               [state |-> "live", owner |-> c, group |-> p, holds |-> TRUE,
                stayed |-> TRUE]]
          /\ reader' = [reader EXCEPT ![c] = "on"]
          /\ Goto(c, "guard")
          /\ UNCHANGED <<sandbox, result, lock, guard, written, taken, got,
                         truncated, orphans, struck>>

(* ProcessGroupGuard::new: only the group with the child's own number is   *)
(* adopted, and the child may have left it by now.                         *)
Adopt(p) == IF procs[p].group = p THEN p ELSE 0

Observe(c) ==
  /\ pc[c] = "guard"
  /\ guard' = [guard EXCEPT ![c] =
       [leader |-> child[c], group |-> Adopt(child[c]), reaped |-> FALSE]]
  /\ Goto(c, "established")
  /\ UNCHANGED <<sandbox, result, lock, child, pipe, procs, orphans, struck>>

(* Without a group a strict call kills the child and reports that.         *)
Established(c) ==
  /\ pc[c] = "established"
  /\ IF strict[c] /\ guard[c].group = 0
     THEN /\ Goto(c, "unavailable")
          /\ Kill(c, {child[c]})
     ELSE /\ Goto(c, "wait")
          /\ UNCHANGED <<procs, struck>>
  /\ UNCHANGED <<sandbox, result, lock, guard, child, pipe, orphans>>

(* wait_until_exited_unreaped under the request's timeout.                 *)
Exited(c) ==
  /\ pc[c] = "wait" /\ procs[child[c]].state = "zombie"
  /\ Kill(c, Terminate(c))
  /\ Goto(c, "reap")
  /\ UNCHANGED <<sandbox, result, lock, guard, child, pipe, orphans>>

ElapsedSparesLeader(c) ==
  /\ pc[c] = "wait"
  /\ Kill(c, Terminate(c))
  /\ \E to \in {"reap", "failing"} : Goto(c, to)
  /\ UNCHANGED <<sandbox, result, lock, guard, child, pipe, orphans>>
Elapsed(c) ==
  /\ pc[c] = "wait"
  /\ Kill(c, Terminate(c) \union {child[c]})
  /\ \E to \in {"reap", "failing"} : Goto(c, to)
  /\ UNCHANGED <<sandbox, result, lock, guard, child, pipe, orphans>>

(* child.wait: the number is free from here on.                            *)
Reaped(c) ==
  /\ procs[child[c]].state = "zombie"
  /\ procs' = [procs EXCEPT ![child[c]] = Free]
  /\ child' = [child EXCEPT ![c] = 0]

MarkReaped(c) == guard' = [guard EXCEPT ![c].leader = 0, ![c].reaped = TRUE]
Disarm(c) == guard' = [guard EXCEPT ![c] = NoGuard]

Reap(c) ==
  /\ pc[c] = "reap"
  /\ Reaped(c) /\ MarkReaped(c)
  /\ Goto(c, "drain")
  /\ UNCHANGED <<sandbox, result, lock, pipe, orphans, struck>>

(* The error returns: reap as well, then leave through the guards.         *)
Errors(c) ==
  /\ pc[c] \in {"failing", "unavailable"}
  /\ Reaped(c) /\ MarkReaped(c)
  /\ Goto(c, "leaving")
  /\ result' = [result EXCEPT ![c] =
       ProcessError(IF pc[c] = "failing" THEN "Io" ELSE "ProcessGroupUnavailable")]
  /\ UNCHANGED <<sandbox, lock, pipe, orphans, struck>>

(* wait fails: nothing is known of the number, so it is never used again.  *)
WaitFails(c) ==
  /\ pc[c] \in {"reap", "failing", "unavailable"}
  /\ Disarm(c)
  /\ Goto(c, "leaving")
  /\ result' = [result EXCEPT ![c] =
       ProcessError(IF pc[c] = "unavailable" THEN "ProcessGroupUnavailable" ELSE "Io")]
  /\ UNCHANGED <<sandbox, lock, child, pipe, procs, orphans, struck>>

(* read_capped.                                                            *)
Least(a, b) == IF a < b THEN a ELSE b

AfterRead(room, n) ==
  IF n > room THEN "truncated" ELSE IF n = room THEN "extra" ELSE "on"

Read(c, n) ==
  /\ reader[c] = "on" /\ n \in 1 .. written[c] - taken[c]
  /\ LET next == AfterRead(Limit - got[c], n)
     IN /\ reader' = [reader EXCEPT ![c] = IF next = "truncated" THEN "done" ELSE next]
        /\ truncated' = [truncated EXCEPT ![c] = next = "truncated"]
  /\ got' = [got EXCEPT ![c] = @ + Least(n, Limit - @)]
  /\ taken' = [taken EXCEPT ![c] = @ + n]
  /\ UNCHANGED <<written, call, procs, orphans, struck>>

ReadExtra(c) ==
  /\ reader[c] = "extra" /\ written[c] > taken[c]
  /\ reader' = [reader EXCEPT ![c] = "done"]
  /\ truncated' = [truncated EXCEPT ![c] = TRUE]
  /\ taken' = [taken EXCEPT ![c] = @ + 1]
  /\ UNCHANGED <<written, got, call, procs, orphans, struck>>

ReadEof(c) ==
  /\ reader[c] \in {"on", "extra"} /\ written[c] = taken[c] /\ ~Open(c)
  /\ reader' = [reader EXCEPT ![c] = "done"]
  /\ UNCHANGED <<written, taken, got, truncated, call, procs, orphans, struck>>

Drained(c) ==
  /\ pc[c] = "drain" /\ reader[c] = "done"
  /\ Goto(c, "confirm")
  /\ UNCHANGED <<sandbox, result, lock, guard, child, pipe, procs, orphans, struck>>

(* OUTPUT_DRAIN_TIMEOUT, or the reader task fails.                         *)
DrainFails(c) ==
  /\ pc[c] = "drain"
  /\ Goto(c, "leaving")
  /\ \E e \in {"OutputDrainTimeout", "Io", "Join"} :
       result' = [result EXCEPT ![c] = ProcessError(e)]
  /\ UNCHANGED <<sandbox, lock, guard, child, pipe, procs, orphans, struck>>

GroupGone(c) == guard[c].group # 0 /\ Members(guard[c].group) = {}

Confirm(c) ==
  /\ pc[c] = "confirm"
  /\ \/ /\ strict[c] => GroupGone(c)
        /\ result' = [result EXCEPT ![c] = "ok"]
        /\ IF strict[c] THEN Disarm(c) ELSE UNCHANGED guard
     \/ /\ strict[c] /\ ~GroupGone(c)
        /\ result' = [result EXCEPT ![c] = ProcessError("DescendantsMaySurvive")]
        /\ UNCHANGED guard
  /\ Goto(c, "leaving")
  /\ UNCHANGED <<sandbox, lock, child, pipe, procs, orphans, struck>>

(* The future is dropped at an await: only the guards still run.           *)
Drop(c) ==
  /\ pc[c] \in {"handshake", "wait", "reap", "failing", "unavailable",
                "drain", "confirm"}
  /\ result' = [result EXCEPT ![c] = "dropped"]
  /\ Goto(c, "leaving")
  /\ UNCHANGED <<sandbox, lock, guard, child, pipe, procs, orphans, struck>>

DropQueued(c) ==
  /\ pc[c] = "queued"
  /\ result' = [result EXCEPT ![c] = "dropped"]
  /\ Goto(c, "ended")
  /\ UNCHANGED <<sandbox, lock, guard, child, pipe, procs, orphans, struck>>

(* The drops: readers aborted, group terminated, a short wait, then the    *)
(* Child (kill_on_drop), which the runtime reaps later.                    *)
DropGuard(c) ==
  /\ pc[c] = "leaving"
  /\ Kill(c, Terminate(c))
  /\ reader' = [reader EXCEPT ![c] = IF @ = "off" THEN "off" ELSE "done"]
  /\ Goto(c, "lingering")
  /\ UNCHANGED <<sandbox, result, lock, guard, child, written, taken, got,
                 truncated, orphans>>

DropChild(c) ==
  /\ pc[c] = "lingering"
  /\ IF child[c] = 0 THEN UNCHANGED <<procs, struck, orphans>>
     ELSE Kill(c, {child[c]}) /\ orphans' = orphans \union {child[c]}
  /\ child' = [child EXCEPT ![c] = 0]
  /\ Disarm(c)
  /\ Goto(c, "ended")
  /\ Unlocks(c)
  /\ UNCHANGED <<sandbox, result, pipe>>

Execute(c) ==
  \/ Lock(c) \/ Checks(c) \/ Handshake(c) \/ Spawn(c) \/ Observe(c)
  \/ Established(c) \/ Exited(c) \/ Elapsed(c) \/ Reap(c) \/ Errors(c)
  \/ Drained(c) \/ DrainFails(c) \/ Confirm(c) \/ DropGuard(c) \/ DropChild(c)

-----------------------------------------------------------------------------
(* The target and its descendants, and other programs.                     *)
Fork(p) ==
  /\ p \in Live /\ procs[p].owner # Other
  /\ \E q \in Available : procs' = [procs EXCEPT ![q] = procs[p]]
  /\ UNCHANGED <<call, pipe, orphans, struck>>

(* setsid or setpgid, into a new group or another group of the same call.  *)
Regroup(p, g) ==
  /\ p \in Live /\ procs[p].owner # Other /\ procs[p].group # g
  /\ g = p \/ \E q \in Members(g) : procs[q].owner = procs[p].owner
  /\ procs' = [procs EXCEPT ![p].group = g, ![p].stayed = FALSE]
  /\ UNCHANGED <<call, pipe, orphans, struck>>

CloseOutput(p) ==
  /\ p \in Live /\ procs[p].holds
  /\ procs' = [procs EXCEPT ![p].holds = FALSE]
  /\ UNCHANGED <<call, pipe, orphans, struck>>

WriteOutput(p) ==
  /\ p \in Live /\ procs[p].holds
  /\ LET c == procs[p].owner
     IN /\ reader[c] \in {"on", "extra"} /\ written[c] < MaxBytes
        /\ written' = [written EXCEPT ![c] = @ + 1]
  /\ UNCHANGED <<taken, reader, got, truncated, call, procs, orphans, struck>>

Exit(p) ==
  /\ p \in Live
  /\ procs' = [procs EXCEPT ![p] = Gone(p)]
  /\ UNCHANGED <<call, pipe, orphans, struck>>

Die(p) ==
  /\ procs[p].state = "killed"
  /\ procs' = [procs EXCEPT ![p] = Gone(p)]
  /\ UNCHANGED <<call, pipe, orphans, struck>>

OtherStarts(p) ==
  /\ p \in Available
  /\ procs' = [procs EXCEPT ![p] = [state |-> "live", owner |-> Other,
                 group |-> p, holds |-> FALSE, stayed |-> FALSE]]
  /\ UNCHANGED <<call, pipe, orphans, struck>>

(* The runtime's orphan queue.                                             *)
ReapOrphan(p) ==
  /\ p \in orphans /\ procs[p].state = "zombie"
  /\ procs' = [procs EXCEPT ![p] = Free]
  /\ orphans' = orphans \ {p}
  /\ UNCHANGED <<call, pipe, struck>>

System ==
  \E p \in Pids :
    \/ Fork(p) \/ CloseOutput(p) \/ WriteOutput(p) \/ Exit(p) \/ Die(p)
    \/ OtherStarts(p) \/ ReapOrphan(p)
    \/ \E g \in Pids : Regroup(p, g)

Next ==
  \/ \E c \in Calls :
       \/ Call(c) \/ Execute(c) \/ WaitFails(c) \/ Drop(c) \/ DropQueued(c)
       \/ ReadExtra(c) \/ ReadEof(c)
       \/ \E n \in 1 .. MaxBytes : Read(c, n)
  \/ System

Spec == Init /\ [][Next]_vars

-----------------------------------------------------------------------------
(* Whenever numbers are reused, a call only ever kills what it started     *)
(* (terminate, mark_leader_reaped, from_observation).                      *)
OnlyOwnStruck == \A c \in Calls : struck[c] \subseteq {c}

(* An outcome that lets the caller retry means that no target ran: every   *)
(* error after the spawn is reported as unknown (process_error).           *)
FailedMeansNotRun ==
  \A c \in Calls : result[c] = "failed" => reader[c] = "off"

(* A strict call that succeeded leaves nothing behind in the group it      *)
(* created, not even a process that is still dying                         *)
(* (wait_for_termination_async).                                           *)
CleanMeansGone ==
  \A c \in Calls : result[c] = "ok" /\ strict[c] =>
    \A p \in Exists : ~(procs[p].owner = c /\ procs[p].stayed)

(* The output that is returned is what was written up to the limit, and    *)
(* it is marked as cut exactly when there was more (read_capped).          *)
OutputExact ==
  \A c \in Calls : result[c] = "ok" =>
    /\ got[c] = Least(written[c], Limit)
    /\ truncated[c] <=> written[c] > Limit

(* What execute reports about a target is true, whatever the target and    *)
(* its descendants do and wherever execute fails.                          *)
OutcomeTrue == FailedMeansNotRun /\ CleanMeansGone /\ OutputExact

=============================================================================
