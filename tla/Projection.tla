------------------------------ MODULE Projection ------------------------------
(***************************************************************************)
(* Projection::apply: the gatekeeper of every replay.  The ledger's events *)
(* may come from this daemon, from an older one or from an import, so the  *)
(* model offers any event over small sets of entities in any order; an     *)
(* action is an event the projection accepts, its guard the checks of the  *)
(* match arm.  A rejected event ends the replay with an error and leaves   *)
(* nothing behind.                                                         *)
(*                                                                         *)
(* Event ids and sequence numbers are the subject of Ledger; workspaces    *)
(* and jobs of Workspaces.  Threads here belong to one opened workspace.   *)
(***************************************************************************)
EXTENDS Lifecycles

CONSTANTS Threads, Turns, Invs

VARIABLES
  status,  \* ThreadStatus of every projected thread
  parent,  \* parent_thread_id
  turn,    \* TurnState
  on,      \* thread_id of a turn
  inv,     \* InvocationState
  of,      \* turn_id of an invocation
  home,    \* thread_id of an invocation
  retry    \* invocations proposed as idempotent

vars == <<status, parent, turn, on, inv, of, home, retry>>

Absent == "absent"
Nothing == "nothing"

Statuses == {Absent, "idle", "active", "failed", "archived"}

TypeOK ==
  /\ status \in [Threads -> Statuses]
  /\ parent \in [Threads -> Threads \cup {Nothing}]
  /\ turn \in [Turns -> TurnStates \cup {Absent}]
  /\ on \in [Turns -> Threads \cup {Nothing}]
  /\ inv \in [Invs -> InvStates \cup {Absent}]
  /\ of \in [Invs -> Turns \cup {Nothing}]
  /\ home \in [Invs -> Threads \cup {Nothing}]
  /\ retry \in SUBSET Invs

Init ==
  /\ status = [t \in Threads |-> Absent]
  /\ parent = [t \in Threads |-> Nothing]
  /\ turn = [u \in Turns |-> Absent]
  /\ on = [u \in Turns |-> Nothing]
  /\ inv = [i \in Invs |-> Absent]
  /\ of = [i \in Invs |-> Nothing]
  /\ home = [i \in Invs |-> Nothing]
  /\ retry = {}

ActiveTurns(t) ==
  {u \in Turns : on[u] = t /\ turn[u] \notin TurnTerminal \cup {Absent}}

CanTransitionWithIdempotency(i, from, to) ==
  \/ CanTransitionInvocation(from, to)
  \/ i \in retry /\ from = "unknown" /\ to = "started"

-----------------------------------------------------------------------------
(* Threads.  A thread is inserted as its event describes it, with the      *)
(* status written there; this daemon writes idle ones.                     *)

ThreadStarted(t, s) ==
  /\ status[t] = Absent
  /\ status' = [status EXCEPT ![t] = s]
  /\ UNCHANGED <<parent, turn, on, inv, of, home, retry>>

ThreadForked(t, p, s) ==
  /\ status[t] = Absent /\ status[p] # Absent
  /\ status' = [status EXCEPT ![t] = s]
  /\ parent' = [parent EXCEPT ![t] = p]
  /\ UNCHANGED <<turn, on, inv, of, home, retry>>

ThreadArchived(t) ==
  /\ status[t] # Absent
  /\ status' = [status EXCEPT ![t] = "archived"]
  /\ UNCHANGED <<parent, turn, on, inv, of, home, retry>>

-----------------------------------------------------------------------------
(* Turns.  The events of a turn carry its id; that they are filed under    *)
(* the thread of the turn is checked for the first one only.               *)

StartedTwice(t, u) ==
  /\ status[t] # Absent /\ turn[u] = Absent
  /\ turn' = [turn EXCEPT ![u] = "accepted"]
  /\ on' = [on EXCEPT ![u] = t]
  /\ status' = [status EXCEPT ![t] = "active"]
  /\ UNCHANGED <<parent, inv, of, home, retry>>

TurnStarted(t, u) ==
  /\ status[t] # Absent /\ ActiveTurns(t) = {} /\ turn[u] = Absent
  /\ turn' = [turn EXCEPT ![u] = "accepted"]
  /\ on' = [on EXCEPT ![u] = t]
  /\ status' = [status EXCEPT ![t] = "active"]
  /\ UNCHANGED <<parent, inv, of, home, retry>>

StatusAfter(to) == IF to = "failed" THEN "failed" ELSE "idle"

TurnStateChanged(u, from, to) ==
  /\ turn[u] # Absent /\ turn[u] = from
  /\ CanTransitionTurn(from, to)
  /\ turn' = [turn EXCEPT ![u] = to]
  /\ status' = IF to \in TurnTerminal
               THEN [status EXCEPT ![on[u]] = StatusAfter(to)] ELSE status
  /\ UNCHANGED <<parent, on, inv, of, home, retry>>

-----------------------------------------------------------------------------
(* Invocations.  A proposal names a turn that need not exist.              *)

InvocationProposed(i, t, u, idempotent) ==
  /\ inv[i] = Absent
  /\ inv' = [inv EXCEPT ![i] = "proposed"]
  /\ of' = [of EXCEPT ![i] = u]
  /\ home' = [home EXCEPT ![i] = t]
  /\ retry' = IF idempotent THEN retry \cup {i} ELSE retry
  /\ UNCHANGED <<status, parent, turn, on>>

InvocationStateChanged(i, t, u, from, to) ==
  /\ inv[i] # Absent
  /\ home[i] = t /\ of[i] = u
  /\ inv[i] = from
  /\ CanTransitionWithIdempotency(i, from, to)
  /\ inv' = [inv EXCEPT ![i] = to]
  /\ UNCHANGED <<status, parent, turn, on, of, home, retry>>

InvocationReconciled(i, t, u, to) ==
  /\ inv[i] # Absent
  /\ home[i] = t /\ of[i] = u
  /\ CanReconcileInvocation(inv[i], to)
  /\ inv' = [inv EXCEPT ![i] = to]
  /\ UNCHANGED <<status, parent, turn, on, of, home, retry>>

Next ==
  \/ \E t \in Threads, s \in Statuses \ {Absent} :
       ThreadStarted(t, s) \/ \E p \in Threads : ThreadForked(t, p, s)
  \/ \E t \in Threads : ThreadArchived(t)
  \/ \E t \in Threads, u \in Turns : TurnStarted(t, u)
  \/ \E u \in Turns, from, to \in TurnStates : TurnStateChanged(u, from, to)
  \/ \E i \in Invs, t \in Threads, u \in Turns :
       \/ \E b \in BOOLEAN : InvocationProposed(i, t, u, b)
       \/ \E from, to \in InvStates : InvocationStateChanged(i, t, u, from, to)
       \/ \E to \in InvStates : InvocationReconciled(i, t, u, to)

Spec == Init /\ [][Next]_vars

-----------------------------------------------------------------------------
(* Whatever events a ledger holds, a thread has at most one turn that is   *)
(* not over, and the status a client is shown agrees with it: "idle" and   *)
(* "failed" mean no live turn, and "active" means one as soon as the       *)
(* thread has had a turn (active_turn, workspace_status).  Before its      *)
(* first turn a thread has the status its own event came with, which       *)
(* apply does not judge; the commands of this daemon write "idle".         *)
StatusTellsTruth ==
  \A t \in Threads :
    /\ \A u, v \in ActiveTurns(t) : u = v
    /\ status[t] = "active" /\ (\E u \in Turns : on[u] = t) => ActiveTurns(t) # {}
    /\ status[t] \in {Absent, "idle", "failed"} => ActiveTurns(t) = {}

(* load_lineage_events follows parents until there is none: no ledger that *)
(* replays makes it loop, because a parent is projected before its child.  *)
LineageEnds ==
  \A S \in SUBSET Threads :
    S # {} => \E t \in S : parent[t] \notin S

(* What is over stays over, and the outcome of an execution that could not *)
(* be proven is settled by evidence alone, unless the tool was declared    *)
(* idempotent (can_transition_turn, can_transition_invocation_with_        *)
(* idempotency, can_reconcile_invocation).                                 *)
SettledStaysSettled ==
  [][/\ \A u \in Turns : turn[u] \in TurnTerminal => turn'[u] = turn[u]
     /\ \A i \in Invs :
          /\ inv[i] \in InvTerminal => inv'[i] = inv[i]
          /\ inv[i] = "unknown" /\ i \notin retry =>
               inv'[i] \in {"unknown", "completed", "failed"}
          /\ inv[i] \in PreExecution => inv'[i] # "unknown"]_vars

=============================================================================
