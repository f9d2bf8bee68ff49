------------------------------- MODULE Threads -------------------------------
(***************************************************************************)
(* Threads and their forks: the thread and steering commands of the        *)
(* daemon, and the context a runner sends to the model.  A fork refers to  *)
(* a sequence number of its parent; the context of a thread is its lineage *)
(* from the root, each ancestor cut at the number its child recorded.      *)
(*                                                                         *)
(* A log keeps one entry per batch the daemon commits: "user" stands for   *)
(* TurnStarted and the user's item, "call" for the ToolCall item and its   *)
(* proposal, "result" and "unknown" for a ToolResult with the transition   *)
(* it is committed with, "ended" for the terminal state of a turn.  The    *)
(* states a turn passes through in between are those of TurnRunner.        *)
(***************************************************************************)
EXTENDS Naturals, Sequences, FiniteSets

CONSTANTS
  MaxThreads, \* threads ever created (model bound)
  MaxLog,     \* entries of all threads together (model bound)
  MaxTurns,   \* turns of one thread (model bound)
  MaxSteers   \* steering messages of one thread (model bound)

VARIABLES
  log,       \* the ledger, per thread
  parent,    \* parent_thread_id, 0 without one
  cut,       \* parent_seq
  run,       \* where the runner of the live turn is
  messages,  \* the messages the runner last built
  snapshot   \* the parent's context up to the fork point, at the time of it

vars == <<log, parent, cut, run, messages, snapshot>>

Ids == 1 .. MaxThreads
Visible == {"user", "steer", "call", "result", "unknown"}

Init ==
  /\ log = [t \in Ids |-> << >>]
  /\ parent = [t \in Ids |-> 0]
  /\ cut = [t \in Ids |-> 0]
  /\ run = [t \in Ids |-> "none"]
  /\ messages = [t \in Ids |-> << >>]
  /\ snapshot = [t \in Ids |-> << >>]

-----------------------------------------------------------------------------
(* What the projection says about a thread.                                *)

Last(s, K) ==
  LET P == {n \in DOMAIN s : s[n].kind \in K}
  IN IF P = {} THEN "none"
     ELSE s[CHOOSE n \in P : \A m \in P : m <= n].kind

Born(t) == log[t] # << >>
Live(s) == Last(s, {"user", "ended"}) = "user"
Unresolved(s) == Last(s, {"call", "result", "unknown"}) = "unknown"
Status(t) ==
  CASE Last(log[t], {"user", "ended", "archived"}) = "archived" -> "archived"
    [] Last(log[t], {"user", "ended", "archived"}) = "user" -> "active"
    [] OTHER -> "idle"

Count(s, k) == Cardinality({n \in DOMAIN s : s[n].kind = k})
Size[n \in 0 .. MaxThreads] ==
  IF n = 0 THEN 0 ELSE Size[n - 1] + Len(log[n])
Fits == Size[MaxThreads] < MaxLog
NextThread(t) == ~Born(t) /\ \A u \in Ids : u < t => Born(u)

(* load_lineage_events: root first, each ancestor up to the fork point.    *)
InheritedUncapped[t \in Ids] ==
  IF parent[t] = 0 THEN << >>
  ELSE LET p == parent[t]
       IN (IF parent[p] = 0 THEN << >>
           ELSE InheritedUncapped[parent[p]] \o log[parent[p]])
            \o SubSeq(log[p], 1, cut[t])
Inherited[t \in Ids] ==
  IF parent[t] = 0 THEN << >>
  ELSE Inherited[parent[t]] \o SubSeq(log[parent[t]], 1, cut[t])
UncappedOf(t) == InheritedUncapped[t]
InheritedOf(t) == Inherited[t]
Lineage(t) == InheritedOf(t) \o log[t]

(* messages_from_events: steering becomes a user message, everything but   *)
(* the items of the conversation is left out.                              *)
Kept(s, K) ==
  LET kept[n \in 0 .. Len(s)] ==
        IF n = 0 THEN << >>
        ELSE IF s[n].kind \in K THEN Append(kept[n - 1], s[n]) ELSE kept[n - 1]
  IN kept[Len(s)]
MessagesFromEvents(s) == Kept(s, Visible)

Commit(t, k) == log' = [log EXCEPT ![t] = Append(@, [kind |-> k, thread |-> t])]
Goto(t, phase) == run' = [run EXCEPT ![t] = phase]

-----------------------------------------------------------------------------
(* Commands.                                                               *)

ThreadStart(t) ==
  /\ NextThread(t) /\ Fits
  /\ Commit(t, "born")
  /\ UNCHANGED <<parent, cut, run, messages, snapshot>>

ThreadFork(p, t) ==
  /\ NextThread(t) /\ Born(p) /\ Fits
  /\ ~Unresolved(log[p])
  /\ \E at \in 0 .. Len(log[p]) :
       /\ cut' = [cut EXCEPT ![t] = at]
       /\ snapshot' = [snapshot EXCEPT
                         ![t] = SubSeq(Lineage(p), 1, Len(InheritedOf(p)) + at)]
  /\ parent' = [parent EXCEPT ![t] = p]
  /\ Commit(t, "born")
  /\ UNCHANGED <<run, messages>>

MayArchive(t) == Born(t) /\ ~Live(log[t]) /\ Status(t) # "archived"

ThreadArchive(t) ==
  /\ MayArchive(t) /\ Fits
  /\ Commit(t, "archived")
  /\ UNCHANGED <<parent, cut, run, messages, snapshot>>

(* turn/start; launch_turn follows it.                                     *)
TurnStart(t) ==
  /\ Born(t) /\ Status(t) # "archived"
  /\ ~Live(log[t]) /\ ~Unresolved(log[t])
  /\ Count(log[t], "user") < MaxTurns /\ Fits
  /\ Commit(t, "user")
  /\ Goto(t, "ready")
  /\ UNCHANGED <<parent, cut, messages, snapshot>>

TurnSteer(t) ==
  /\ Live(log[t])
  /\ Count(log[t], "steer") < MaxSteers /\ Fits
  /\ Commit(t, "steer")
  /\ UNCHANGED <<parent, cut, run, messages, snapshot>>

(* The parent turn is terminal; a result with the operator's evidence.     *)
Reconcile(t) ==
  /\ Unresolved(log[t]) /\ ~Live(log[t]) /\ Fits
  /\ Commit(t, "result")
  /\ UNCHANGED <<parent, cut, run, messages, snapshot>>

-----------------------------------------------------------------------------
(* The runner.                                                             *)

(* Each round reads the lineage again, outside the gate.                   *)
ReloadOnce(t) ==
  /\ run[t] = "ready"
  /\ messages' = [messages EXCEPT
                    ![t] = IF Last(log[t], {"user", "request"}) = "user"
                           THEN MessagesFromEvents(Lineage(t)) ELSE @]
  /\ Goto(t, "loaded")
  /\ UNCHANGED <<log, parent, cut, snapshot>>

ReloadLineage(t) ==
  /\ run[t] = "ready"
  /\ messages' = [messages EXCEPT ![t] = MessagesFromEvents(Lineage(t))]
  /\ Goto(t, "loaded")
  /\ UNCHANGED <<log, parent, cut, snapshot>>

RequestModel(t) ==
  /\ run[t] = "loaded" /\ Fits
  /\ Commit(t, "request")
  /\ Goto(t, "streaming")
  /\ UNCHANGED <<parent, cut, messages, snapshot>>

ProposeTools(t) ==
  /\ run[t] = "streaming" /\ Fits
  /\ Commit(t, "call")
  /\ Goto(t, "proposed")
  /\ UNCHANGED <<parent, cut, messages, snapshot>>

StartTool(t) ==
  /\ run[t] = "proposed"
  /\ Goto(t, "executing")
  /\ UNCHANGED <<log, parent, cut, messages, snapshot>>

(* A known outcome: the next round follows, or the end of the turn when it *)
(* was interrupted, the budget is spent or the daemon restarted.           *)
PersistOutcome(t) ==
  /\ run[t] \in {"proposed", "executing"} /\ Fits
  /\ Commit(t, "result")
  /\ \E phase \in {"ready", "failing"} : Goto(t, phase)
  /\ UNCHANGED <<parent, cut, messages, snapshot>>

PersistUnknown(t) ==
  /\ run[t] = "executing" /\ Fits
  /\ Commit(t, "unknown")
  /\ Goto(t, "failing")
  /\ UNCHANGED <<parent, cut, messages, snapshot>>

(* complete, fail, cancel, settlement and recovery close a turn, none of   *)
(* them over an open call.                                                 *)
EndAnywhere(t) ==
  /\ run[t] # "none" /\ Fits
  /\ Commit(t, "ended")
  /\ Goto(t, "none")
  /\ UNCHANGED <<parent, cut, messages, snapshot>>

EndTurn(t) ==
  /\ run[t] \in {"ready", "loaded", "streaming", "failing"} /\ Fits
  /\ Commit(t, "ended")
  /\ Goto(t, "none")
  /\ UNCHANGED <<parent, cut, messages, snapshot>>

Runner(t) ==
  \/ ReloadLineage(t) \/ RequestModel(t) \/ ProposeTools(t) \/ StartTool(t)
  \/ PersistOutcome(t) \/ PersistUnknown(t) \/ EndTurn(t)

Next ==
  \E t \in Ids :
    \/ ThreadStart(t) \/ \E p \in Ids : ThreadFork(p, t)
    \/ ThreadArchive(t) \/ TurnStart(t) \/ TurnSteer(t) \/ Reconcile(t)
    \/ Runner(t)

Spec == Init /\ [][Next]_vars

-----------------------------------------------------------------------------
(* What a fork inherits is what its parent's context was up to the fork    *)
(* point, over any number of levels, and nothing that happens to an        *)
(* ancestor afterwards shows through (load_lineage_events).                *)
InheritsSnapshot ==
  \A t \in Ids : Born(t) => InheritedOf(t) = snapshot[t]

ForkedAtRest[t \in Ids] ==
  \/ parent[t] = 0
  \/ /\ ~Live(SubSeq(log[parent[t]], 1, cut[t]))
     /\ ~Unresolved(SubSeq(log[parent[t]], 1, cut[t]))
     /\ ForkedAtRest[parent[t]]

(* Every call is answered before the conversation goes on; steering may    *)
(* come in between.                                                        *)
Paired(s) ==
  LET spoken == Kept(s, Visible \ {"steer"})
  IN \A n \in DOMAIN spoken :
       spoken[n].kind = "call" =>
         /\ n < Len(spoken)
         /\ spoken[n + 1].kind \in {"result", "unknown"}

Resolved(s) ==
  LET spoken == Kept(s, Visible \ {"steer"})
  IN \A n \in DOMAIN spoken :
       spoken[n].kind = "unknown" =>
         n < Len(spoken) /\ spoken[n + 1].kind = "result"

(* A model request never carries a tool call without its result, nor a     *)
(* result still unknown, through interrupts, restarts, reconciliation and  *)
(* steering, in any thread whose fork points lie between turns and after   *)
(* every review (persist_tool_proposals, settle_interrupted_turn,          *)
(* turn_start, thread_fork).                                               *)
RequestsPaired ==
  \A t \in Ids :
    run[t] = "loaded" /\ ForkedAtRest[t] =>
      Paired(messages[t]) /\ Resolved(messages[t])

(* A steering message is in every request that follows the one during      *)
(* which it was accepted (the reload at the head of the agent loop).       *)
SteersReachModel ==
  \A t \in Ids :
    run[t] = "loaded" =>
      \A n, m \in DOMAIN log[t] :
        n < m /\ log[t][n].kind = "steer" /\ log[t][m].kind = "request" =>
          Count(messages[t], "steer") >= Count(SubSeq(log[t], 1, m), "steer")

(* The comment in the agent loop: an unknown result is never fed into      *)
(* another provider round.                                                 *)
UnknownNeverFed ==
  \A t \in Ids : run[t] = "loaded" => Resolved(messages[t])

=============================================================================
