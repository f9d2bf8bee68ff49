------------------------------ MODULE TurnRunner ------------------------------
(***************************************************************************)
(* One thread of the daemon: the turn commands of the control plane, the   *)
(* background runner that drives an accepted turn, the tool workers it     *)
(* spawns, and restart recovery.                                           *)
(*                                                                         *)
(* Durable state is what the event ledger projects to (turn, inv, result,  *)
(* reviewed).  Volatile state is lost in a crash (pc, step, flag, rounds). *)
(* world is what really happened outside the daemon; the ledger can only   *)
(* claim what it has evidence for.                                         *)
(*                                                                         *)
(* One action is one section under the daemon's mutation gate, or one      *)
(* await.  An interrupt commits Cancelling and raises the flag under the   *)
(* gate, so a runner check of the flag that misses it happened before.     *)
(***************************************************************************)
EXTENDS Naturals, FiniteSets, Lifecycles

CONSTANTS
  MaxTurns,    \* turns started on the thread (model bound)
  MaxCalls,    \* AgentLoopLimits.max_tool_calls: tool calls of one turn
  MaxRounds,   \* AgentLoopLimits.max_model_rounds
  MaxWorkers,  \* DEFAULT_MAX_CONCURRENT_TOOL_WORKERS: worker semaphore
  MaxCrashes,  \* daemon crashes (model bound)
  MaxFaults    \* I/O errors that abort a runner mid-way (model bound)

ASSUME BoundsAssumption ==
  /\ MaxTurns \in Nat \ {0} /\ MaxCalls \in Nat \ {0}
  /\ MaxRounds \in Nat \ {0} /\ MaxWorkers \in Nat \ {0}
  /\ MaxCrashes \in Nat /\ MaxFaults \in Nat

Turns == 1 .. MaxTurns
Calls == 1 .. MaxCalls

(* The invocation of the k-th tool call of turn t is <<t, k>>.             *)
Invs == Turns \X Calls
TurnOf(i) == i[1]
CallNo(i) == i[2]

VARIABLES
  daemon,    \* "up", or "recovering" between a crash and serving again
  turn,      \* durable TurnState of every turn
  inv,       \* durable InvocationState of every invocation
  result,    \* polarity of the newest durable ToolResult item
  reviewed,  \* invocations with a tool/reconciled event
  world,     \* what happened to the tool outside the ledger
  pc,        \* where the runner task of a turn is
  step,      \* the runner's in-memory PendingToolInvocation
  flag,      \* the turn's CancellationFlag in active_turns
  rounds,    \* model_rounds of the runner
  crashes, faults

durable  == <<turn, inv, result, reviewed>>
volatile == <<pc, step, flag, rounds>>
bounds   == <<crashes, faults>>
vars == <<daemon, durable, world, volatile, bounds>>

Phases == {"none", "launch", "load", "begin", "building", "requesting",
           "requested", "streaming", "proposing", "proposed", "authorizing",
           "approval", "scheduling", "starting", "integrating", "budget",
           "integrated", "settle", "settling", "done"}

(* PendingToolInvocation: the flags of the record are exclusive, so one    *)
(* value stands for them; the last three are what integration reads.       *)
Steps == {"none", "planned", "consented", "approved", "ready", "starting",
          "started", "preparation_failure", "scheduler_rejected",
          "cancelled_before_start", "integrated"}

TypeOK ==
  /\ daemon \in {"up", "recovering"}
  /\ turn \in [Turns -> {"none"} \cup TurnStates]
  /\ inv \in [Invs -> {"absent"} \cup InvStates]
  /\ result \in [Invs -> {"none", "ok", "error"}]
  /\ reviewed \subseteq Invs
  /\ world \in [Invs -> {"untouched", "running", "ok", "error",
                         "unproven", "lost"}]
  /\ pc \in [Turns -> Phases]
  /\ step \in [Invs -> Steps]
  /\ flag \in [Turns -> {"unregistered", "clear", "set"}]
  /\ rounds \in [Turns -> 0 .. MaxRounds]
  /\ crashes \in 0 .. MaxCrashes
  /\ faults \in 0 .. MaxFaults

Init ==
  /\ daemon = "up"
  /\ turn = [t \in Turns |-> "none"]
  /\ inv = [i \in Invs |-> "absent"]
  /\ result = [i \in Invs |-> "none"]
  /\ reviewed = {}
  /\ world = [i \in Invs |-> "untouched"]
  /\ pc = [t \in Turns |-> "none"]
  /\ step = [i \in Invs |-> "none"]
  /\ flag = [t \in Turns |-> "unregistered"]
  /\ rounds = [t \in Turns |-> 0]
  /\ crashes = 0
  /\ faults = 0

-----------------------------------------------------------------------------
(* What the code reads from the projection.                                *)

Owned(t) == {i \in Invs : TurnOf(i) = t}

Active(t) == turn[t] \in TurnStates \ TurnTerminal

(* has_pending_invocations: not terminal, "unknown" included.              *)
Pending(t) ==
  {i \in Owned(t) : inv[i] \in PreExecution \cup {"started", "unknown"}}

(* has_unsettled_invocations: "unknown" may outlive a failed parent.       *)
Unsettled(t) == {i \in Owned(t) : inv[i] \in PreExecution \cup {"started"}}

UnknownOn(S) == {i \in S : inv[i] = "unknown"}

(* A settlement pass keeps the gate for all of its transactions.           *)
GateFree == daemon = "up" /\ \A t \in Turns : pc[t] # "settling"

(* tool_calls_used: the calls of the turn that were proposed.              *)
Used(t) == {i \in Owned(t) : inv[i] # "absent"}

(* The loops over a batch of calls run in model order.                     *)
InStep(t, S) == {i \in Owned(t) : step[i] \in S}
First(S, i) == i \in S /\ \A j \in S : CallNo(i) <= CallNo(j)

-----------------------------------------------------------------------------
(* Control plane: turn/start, turn/interrupt, invocation/reconcile.        *)

MayStart(t) ==
  /\ turn[t] = "none"
  /\ \A u \in Turns : turn[u] # "none" => turn[u] \in TurnTerminal
  /\ UnknownOn(Invs) = {}

TurnStart(t) ==
  /\ GateFree
  /\ MayStart(t)
  /\ \A u \in Turns : u < t => turn[u] # "none"   \* fresh ids, in order
  /\ turn' = [turn EXCEPT ![t] = "accepted"]
  /\ pc' = [pc EXCEPT ![t] = "launch"]
  /\ UNCHANGED <<daemon, inv, result, reviewed, world, step, flag, rounds,
                 bounds>>

(* launch_turn runs after the gate is released: an interrupt that commits  *)
(* first finds no flag to raise.                                           *)
LaunchTurn(t) ==
  /\ pc[t] = "launch"
  /\ flag' = [flag EXCEPT ![t] = "clear"]
  /\ pc' = [pc EXCEPT ![t] = "load"]
  /\ UNCHANGED <<daemon, durable, world, step, rounds, bounds>>

(* A repeated interrupt of a Cancelling turn records a receipt only, but   *)
(* raises the flag again, which matters if the first one found none.       *)
TurnInterrupt(t) ==
  /\ GateFree
  /\ Active(t)
  /\ turn' = [turn EXCEPT ![t] = "cancelling"]
  /\ flag' = [flag EXCEPT ![t] = IF @ = "unregistered" THEN @ ELSE "set"]
  /\ UNCHANGED <<daemon, inv, result, reviewed, world, pc, step, rounds,
                 bounds>>

InvocationReconcile(i) ==
  /\ GateFree
  /\ inv[i] = "unknown"
  /\ turn[TurnOf(i)] \in TurnTerminal
  /\ \E outcome \in {"completed", "failed"} :
       /\ inv' = [inv EXCEPT ![i] = outcome]
       /\ result' = [result EXCEPT ![i] =
                       IF outcome = "completed" THEN "ok" ELSE "error"]
  /\ reviewed' = reviewed \cup {i}
  /\ UNCHANGED <<daemon, turn, world, volatile, bounds>>

-----------------------------------------------------------------------------
(* Gated helpers of the runner.  An UnexpectedState error, like every      *)
(* early return, leads to the settlement pass.                             *)

Transition(t, from, to, next) ==
  /\ turn' = IF turn[t] = from THEN [turn EXCEPT ![t] = to] ELSE turn
  /\ pc' = [pc EXCEPT ![t] = IF turn[t] = from THEN next ELSE "settle"]

(* fail: an interrupt may have won the gate; with children still pending   *)
(* the turn is left to the settlement pass.                                *)
FailTurn(t, from) ==
  /\ turn' = IF \/ turn[t] = from
                \/ turn[t] = "cancelling" /\ Pending(t) = {}
             THEN [turn EXCEPT ![t] = "failed"] ELSE turn
  /\ pc' = [pc EXCEPT ![t] = "settle"]

FailCurrent(t) ==
  /\ turn' = IF Active(t) /\ Unsettled(t) = {}
             THEN [turn EXCEPT ![t] = "failed"] ELSE turn
  /\ pc' = [pc EXCEPT ![t] = "settle"]

CancelTurn(t) ==
  /\ turn' = IF ~Active(t) THEN turn
             ELSE [turn EXCEPT ![t] = IF Pending(t) = {} THEN "cancelled"
                                      ELSE "cancelling"]
  /\ pc' = [pc EXCEPT ![t] = "settle"]

(* The ToolResult item and the state change are one ledger batch.          *)
RecordOutcome(i, to) ==
  /\ inv' = [inv EXCEPT ![i] = to]
  /\ result' = [result EXCEPT ![i] =
                  IF to = "completed" THEN "ok" ELSE "error"]

invVars == <<inv, result, reviewed, world, step>>

-----------------------------------------------------------------------------
(* run_inner, from loading the turn to the end of the provider stream.     *)

LoadTurn(t) ==
  /\ pc[t] = "load"
  /\ \/ /\ flag[t] = "set" \/ turn[t] = "cancelling"
        /\ CancelTurn(t)
     \/ /\ flag[t] = "clear" /\ turn[t] # "cancelling"
        /\ pc' = [pc EXCEPT ![t] = IF turn[t] = "accepted" THEN "begin"
                                   ELSE "settle"]
        /\ UNCHANGED turn
  /\ UNCHANGED <<daemon, invVars, flag, rounds, bounds>>

BeginContext(t) ==
  /\ pc[t] = "begin"
  /\ Transition(t, "accepted", "building_context", "building")
  /\ UNCHANGED <<daemon, invVars, flag, rounds, bounds>>

(* Bad override, no provider, limits above the ceiling, workspace changed. *)
BuildContext(t) ==
  /\ pc[t] = "building"
  /\ \/ FailTurn(t, "building_context")
     \/ flag[t] = "set" /\ CancelTurn(t)
     \/ Transition(t, "building_context", "requesting_model", "requesting")
  /\ UNCHANGED <<daemon, invVars, flag, rounds, bounds>>

RoundsLeft(t) == rounds[t] < MaxRounds

(* Reload the lineage, check the context budget, persist model/requested.  *)
RequestModel(t) ==
  /\ pc[t] = "requesting"
  /\ \/ FailTurn(t, "requesting_model") /\ UNCHANGED rounds
     \/ /\ RoundsLeft(t)
        /\ Transition(t, "requesting_model", "requesting_model", "requested")
        /\ rounds' = [rounds EXCEPT ![t] = @ + 1]
  /\ UNCHANGED <<daemon, invVars, flag, bounds>>

OpenStream(t) ==
  /\ pc[t] = "requested"
  /\ \/ flag[t] = "set" /\ CancelTurn(t)
     \/ Transition(t, "requesting_model", "streaming", "streaming")
  /\ UNCHANGED <<daemon, invVars, flag, rounds, bounds>>

(* The stream ends: cancelled; a provider failure or a protocol violation; *)
(* a final answer; or tool calls.  complete re-reads the flag under the    *)
(* gate.                                                                   *)
CloseStream(t) ==
  /\ pc[t] = "streaming"
  /\ \/ flag[t] = "set" /\ CancelTurn(t)
     \/ FailTurn(t, "streaming")
     \/ flag[t] # "set" /\ Transition(t, "streaming", "completed", "settle")
     \/ /\ Used(t) # Owned(t)   \* else agent_loop_tool_limit: FailTurn
        /\ Transition(t, "streaming", "proposed_tools", "proposing")
  /\ UNCHANGED <<daemon, invVars, flag, rounds, bounds>>

-----------------------------------------------------------------------------
(* Proposing and authorizing a batch of tool calls.                        *)

(* persist_tool_proposals: one batch with the ToolCall item and a proposal *)
(* per call.  A call whose plan failed keeps its proposal but will not run.*)
ProposeTools(t) ==
  /\ pc[t] = "proposing"
  /\ \/ /\ turn[t] = "proposed_tools"
        /\ \E batch \in SUBSET (Owned(t) \ Used(t)), failed \in SUBSET Owned(t) :
             /\ batch # {} /\ failed \subseteq batch
             /\ \A i \in batch, j \in Owned(t) :
                  CallNo(j) < CallNo(i) => j \in batch \cup Used(t)
             /\ inv' = [i \in Invs |-> IF i \in batch THEN "proposed"
                                       ELSE inv[i]]
             /\ step' = [i \in Invs |->
                           IF i \in failed THEN "preparation_failure"
                           ELSE IF i \in batch THEN "planned" ELSE step[i]]
        /\ pc' = [pc EXCEPT ![t] = "proposed"]
     \/ /\ turn[t] # "proposed_tools"
        /\ pc' = [pc EXCEPT ![t] = "settle"]
        /\ UNCHANGED <<inv, step>>
  /\ UNCHANGED <<daemon, turn, result, reviewed, world, flag, rounds, bounds>>

BeginAuthorizing(t) ==
  /\ pc[t] = "proposed"
  /\ Transition(t, "proposed_tools", "authorizing", "authorizing")
  /\ UNCHANGED <<daemon, invVars, flag, rounds, bounds>>

ToAuthorize(t) == InStep(t, {"planned", "consented", "approved"})

(* persist_invocation_transition refuses once the parent is terminal only, *)
(* so approval bookkeeping may still land on a Cancelling turn.            *)
Authorize(t, i) ==
  /\ pc[t] = "authorizing"
  /\ First(ToAuthorize(t), i)
  /\ turn[t] \notin TurnTerminal
  /\ \/ /\ step[i] \in {"planned", "consented"}   \* read-only, or approved
        /\ inv' = [inv EXCEPT ![i] = "approved"]
        /\ step' = [step EXCEPT ![i] = "approved"]
     \/ /\ step[i] = "approved"
        /\ inv' = [inv EXCEPT ![i] = "prepared"]
        /\ step' = [step EXCEPT ![i] = "ready"]
  /\ UNCHANGED <<daemon, turn, result, reviewed, world, pc, flag, rounds,
                 bounds>>

RequestApproval(t, i) ==
  /\ pc[t] = "authorizing"
  /\ First(ToAuthorize(t), i)
  /\ step[i] = "planned"
  /\ Transition(t, "authorizing", "waiting_for_approval", "approval")
  /\ UNCHANGED <<daemon, invVars, flag, rounds, bounds>>

(* The answer (or the denial a closed connection stands for) arrives.  The *)
(* wait itself does not watch the cancellation flag.                       *)
ReceiveApproval(t, i) ==
  /\ pc[t] = "approval"
  /\ First(ToAuthorize(t), i) /\ step[i] = "planned"
  /\ Transition(t, "waiting_for_approval", "authorizing", "authorizing")
  /\ \E verdict \in {"consented", "preparation_failure"} :
       step' = IF turn[t] = "waiting_for_approval"
               THEN [step EXCEPT ![i] = verdict] ELSE step
  /\ UNCHANGED <<daemon, inv, result, reviewed, world, flag, rounds, bounds>>

BeginScheduling(t) ==
  /\ pc[t] = "authorizing"
  /\ ToAuthorize(t) = {}
  /\ Transition(t, "authorizing", "scheduling", "scheduling")
  /\ UNCHANGED <<daemon, invVars, flag, rounds, bounds>>

BeginExecuting(t) ==
  /\ pc[t] = "scheduling"
  /\ Transition(t, "scheduling", "executing", "starting")
  /\ UNCHANGED <<daemon, invVars, flag, rounds, bounds>>

-----------------------------------------------------------------------------
(* Starting workers.  A worker that was abandoned (timeout, interrupt)     *)
(* keeps its permit until it really ends.                                  *)

Running == {i \in Invs : world[i] = "running"}
ToStart(t) == InStep(t, {"ready", "starting"})

(* Permits are daemon-wide and the search slot is shared by the threads of *)
(* a workspace, so either may be taken at any time.                        *)
KeepBack(t, i) ==
  /\ pc[t] = "starting"
  /\ First(ToStart(t), i)
  /\ step[i] = "ready"
  /\ \/ /\ flag[t] = "set"
        /\ step' = [step EXCEPT ![i] = "cancelled_before_start"]
     \/ step' = [step EXCEPT ![i] = "scheduler_rejected"]
  /\ UNCHANGED <<daemon, durable, world, pc, flag, rounds, bounds>>

(* The execution boundary: durable only while the parent is Executing.     *)
MayCrossBoundaryAlways(t) == turn[t] \notin TurnTerminal
MayCrossBoundary(t) == turn[t] = "executing"

PermitAvailable == Cardinality(Running) < MaxWorkers

PersistStarted(t, i) ==
  /\ pc[t] = "starting"
  /\ First(ToStart(t), i)
  /\ step[i] = "ready"
  /\ PermitAvailable
  /\ IF MayCrossBoundary(t)
     THEN /\ inv' = [inv EXCEPT ![i] = "started"]
          /\ step' = [step EXCEPT ![i] = "starting"]
          /\ UNCHANGED pc
     ELSE /\ pc' = [pc EXCEPT ![t] = "settle"]
          /\ UNCHANGED <<inv, step>>
  /\ UNCHANGED <<daemon, turn, result, reviewed, world, flag, rounds, bounds>>

SpawnWorkerKeepsRecord(t, i) ==
  /\ pc[t] = "starting"
  /\ First(ToStart(t), i)
  /\ step[i] = "starting"
  /\ world' = [world EXCEPT ![i] = "running"]
  /\ UNCHANGED <<daemon, durable, pc, step, flag, rounds, bounds>>

SpawnWorker(t, i) ==
  /\ pc[t] = "starting"
  /\ First(ToStart(t), i)
  /\ step[i] = "starting"
  /\ world' = [world EXCEPT ![i] = "running"]
  /\ step' = [step EXCEPT ![i] = "started"]
  /\ UNCHANGED <<daemon, durable, pc, flag, rounds, bounds>>

(* The tool reports success, a proven failure, or neither (it panicked, or *)
(* its error is outcome_unknown).  External to the runner.                 *)
FinishWorker(i) ==
  /\ world[i] = "running"
  /\ \E report \in {"ok", "error", "unproven"} :
       world' = [world EXCEPT ![i] = report]
  /\ UNCHANGED <<daemon, durable, volatile, bounds>>

AllStarted(t) ==
  /\ pc[t] = "starting"
  /\ ToStart(t) = {}
  /\ pc' = [pc EXCEPT ![t] = "integrating"]
  /\ UNCHANGED <<daemon, durable, world, step, flag, rounds, bounds>>

-----------------------------------------------------------------------------
(* Integrating results, in model order.                                    *)

ToIntegrate(t) ==
  InStep(t, {"started", "preparation_failure", "scheduler_rejected",
             "cancelled_before_start"})

(* wait_for_tool_worker and the classification of its answer: a deadline   *)
(* or a cancellation grace period that ends first leaves "unknown".        *)
ObservedOutcome(i) ==
  CASE step[i] # "started" -> "failed"
    [] step[i] = "started" /\ world[i] = "ok" -> "completed"
    [] step[i] = "started" /\ world[i] = "error" -> "failed"
    [] OTHER -> "unknown"

(* What a call gets once nobody waits for it any more.                     *)
AbandonedOutcome(i) == IF step[i] = "started" THEN "unknown" ELSE "failed"

Integrate(t, i) ==
  /\ pc[t] = "integrating"
  /\ First(ToIntegrate(t), i)
  /\ \/ /\ RecordOutcome(i, ObservedOutcome(i))
        /\ UNCHANGED pc
     \/ /\ flag[t] = "set"
        /\ RecordOutcome(i, AbandonedOutcome(i))
        /\ UNCHANGED pc
     \/ /\ ObservedOutcome(i) # "unknown"   \* result-byte budget exceeded
        /\ RecordOutcome(i, ObservedOutcome(i))
        /\ pc' = [pc EXCEPT ![t] = "budget"]
  /\ step' = [step EXCEPT ![i] = "integrated"]
  /\ UNCHANGED <<daemon, turn, reviewed, world, flag, rounds, bounds>>

AbandonSibling(t, i) ==
  /\ pc[t] = "budget"
  /\ First(ToIntegrate(t), i)
  /\ RecordOutcome(i, AbandonedOutcome(i))
  /\ step' = [step EXCEPT ![i] = "integrated"]
  /\ UNCHANGED <<daemon, turn, reviewed, world, pc, flag, rounds, bounds>>

FailOverBudget(t) ==
  /\ pc[t] = "budget"
  /\ ToIntegrate(t) = {}
  /\ FailCurrent(t)
  /\ UNCHANGED <<daemon, invVars, flag, rounds, bounds>>

(* An unknown result is never fed into another provider round.             *)
FinishBatch(t) ==
  /\ pc[t] = "integrating"
  /\ ToIntegrate(t) = {}
  /\ \/ UnknownOn(Owned(t)) # {} /\ FailCurrent(t)
     \/ /\ UnknownOn(Owned(t)) = {}
        /\ \/ flag[t] = "set" /\ CancelTurn(t)
           \/ Transition(t, "executing", "integrating_results", "integrated")
  /\ UNCHANGED <<daemon, invVars, flag, rounds, bounds>>

NextRound(t) ==
  /\ pc[t] = "integrated"
  /\ IF RoundsLeft(t)
     THEN Transition(t, "integrating_results", "requesting_model",
                     "requesting")
     ELSE FailTurn(t, "integrating_results")
  /\ UNCHANGED <<daemon, invVars, flag, rounds, bounds>>

-----------------------------------------------------------------------------
(* The settlement pass every run ends with.  It acts on a Cancelling turn  *)
(* only, holds the gate throughout, and commits one invocation at a time.  *)

(* run_inner has returned: its records are gone.                           *)
DropLocals(t) ==
  /\ step' = [i \in Invs |-> IF TurnOf(i) = t THEN "none" ELSE step[i]]
  /\ rounds' = [rounds EXCEPT ![t] = 0]

BeginSettlementSkipped(t) ==
  /\ pc[t] = "settle"
  /\ pc' = [pc EXCEPT ![t] = "done"]
  /\ flag' = [flag EXCEPT ![t] = "unregistered"]
  /\ DropLocals(t)
  /\ UNCHANGED <<daemon, durable, world, bounds>>

BeginSettlement(t) ==
  /\ pc[t] = "settle"
  /\ IF turn[t] = "cancelling"
     THEN pc' = [pc EXCEPT ![t] = "settling"] /\ UNCHANGED flag
     ELSE /\ pc' = [pc EXCEPT ![t] = "done"]
          /\ flag' = [flag EXCEPT ![t] = "unregistered"]
  /\ DropLocals(t)
  /\ UNCHANGED <<daemon, durable, world, bounds>>

(* Work that may have run is never called failed.                          *)
InterruptedOutcomeOptimistic(i) == "failed"
InterruptedOutcome(i) == IF inv[i] = "started" THEN "unknown" ELSE "failed"

SettleInvocation(t, i) ==
  /\ pc[t] = "settling"
  /\ i \in Unsettled(t)
  /\ RecordOutcome(i, InterruptedOutcome(i))
  /\ UNCHANGED <<daemon, turn, reviewed, world, volatile, bounds>>

SettledTurnAlwaysCancelled(t) == "cancelled"
SettledTurn(t) == IF Pending(t) = {} THEN "cancelled" ELSE "failed"

SettleTurn(t) ==
  /\ pc[t] = "settling"
  /\ Unsettled(t) = {}
  /\ turn' = [turn EXCEPT ![t] = SettledTurn(t)]
  /\ pc' = [pc EXCEPT ![t] = "done"]
  /\ flag' = [flag EXCEPT ![t] = "unregistered"]
  /\ UNCHANGED <<daemon, invVars, rounds, bounds>>

-----------------------------------------------------------------------------
(* Mishaps.                                                                *)

(* A ledger or I/O error returned by any step of the runner: it is only    *)
(* logged, and the turn stays as it is until an interrupt or a restart.  A *)
(* receipt that cannot be stored means the turn is never launched.         *)
RunnerFault(t) ==
  /\ faults < MaxFaults
  /\ pc[t] \notin {"none", "done"}
  /\ LET next == IF pc[t] \in {"launch", "settle", "settling"}
                 THEN "done" ELSE "settle"
     IN /\ pc' = [pc EXCEPT ![t] = next]
        /\ flag' = IF next = "done"
                   THEN [flag EXCEPT ![t] = "unregistered"] ELSE flag
  /\ faults' = faults + 1
  /\ UNCHANGED <<daemon, durable, world, step, rounds, crashes>>

Crash ==
  /\ crashes < MaxCrashes
  /\ daemon = "up"
  /\ daemon' = "recovering"
  /\ pc' = [t \in Turns |-> "none"]
  /\ step' = [i \in Invs |-> "none"]
  /\ flag' = [t \in Turns |-> "unregistered"]
  /\ rounds' = [t \in Turns |-> 0]
  /\ world' = [i \in Invs |-> IF world[i] = "running" THEN "lost"
                              ELSE world[i]]
  /\ crashes' = crashes + 1
  /\ UNCHANGED <<durable, faults>>

RecoverInvocation(i) ==
  /\ daemon = "recovering"
  /\ inv[i] \in PreExecution \cup {"started"}
  /\ inv' = [inv EXCEPT ![i] = InterruptedOutcome(i)]
  /\ result' = IF inv[i] = "started" THEN result
               ELSE [result EXCEPT ![i] = "error"]
  /\ UNCHANGED <<daemon, turn, reviewed, world, volatile, bounds>>

RecoverTurnsMissesCancelling ==
  /\ daemon = "recovering"
  /\ \A i \in Invs : inv[i] \notin PreExecution \cup {"started"}
  /\ turn' = [t \in Turns |-> IF turn[t] \in TurnDriven THEN "failed"
                              ELSE turn[t]]
  /\ daemon' = "up"
  /\ UNCHANGED <<inv, result, reviewed, world, volatile, bounds>>

RecoverTurns ==
  /\ daemon = "recovering"
  /\ \A i \in Invs : inv[i] \notin PreExecution \cup {"started"}
  /\ turn' = [t \in Turns |-> IF Active(t) THEN "failed" ELSE turn[t]]
  /\ daemon' = "up"
  /\ UNCHANGED <<inv, result, reviewed, world, volatile, bounds>>

-----------------------------------------------------------------------------
RunnerStep(t) ==
  \/ LaunchTurn(t) \/ LoadTurn(t) \/ BeginContext(t) \/ BuildContext(t)
  \/ RequestModel(t) \/ OpenStream(t) \/ CloseStream(t)
  \/ ProposeTools(t) \/ BeginAuthorizing(t)
  \/ \E i \in Owned(t) : Authorize(t, i) \/ RequestApproval(t, i)
  \/ BeginScheduling(t) \/ BeginExecuting(t)
  \/ \E i \in Owned(t) :
       KeepBack(t, i) \/ PersistStarted(t, i) \/ SpawnWorker(t, i)
  \/ AllStarted(t)
  \/ \E i \in Owned(t) : Integrate(t, i) \/ AbandonSibling(t, i)
  \/ FailOverBudget(t) \/ FinishBatch(t) \/ NextRound(t)
  \/ BeginSettlement(t)
  \/ \E i \in Owned(t) : SettleInvocation(t, i)
  \/ SettleTurn(t)

AnswerApproval(t) == \E i \in Owned(t) : ReceiveApproval(t, i)

Recover == (\E i \in Invs : RecoverInvocation(i)) \/ RecoverTurns

Command ==
  \/ \E t \in Turns : TurnStart(t) \/ TurnInterrupt(t)
  \/ \E i \in Invs : InvocationReconcile(i)

Next ==
  \/ Command
  \/ \E t \in Turns : RunnerStep(t) \/ AnswerApproval(t) \/ RunnerFault(t)
  \/ \E i \in Invs : FinishWorker(i)
  \/ Crash
  \/ Recover

Spec == Init /\ [][Next]_vars

(* Tokio keeps polling a spawned runner, every approval request is         *)
(* answered (by the client or by the end of its connection), and a         *)
(* restarted daemon finishes recovery before it serves.                    *)
Fairness ==
  /\ \A t \in Turns : WF_vars(RunnerStep(t)) /\ WF_vars(AnswerApproval(t))
  /\ WF_vars(Recover)

FairSpec == Spec /\ Fairness

-----------------------------------------------------------------------------
(* The runner implements the contract of a thread (TurnContract).          *)

PhaseOf(s) ==
  IF s = "none" THEN "idle"
  ELSE IF s = "cancelling" THEN "stopping"
  ELSE IF s \in TurnTerminal THEN s ELSE "open"

CallOf(s) ==
  IF s = "absent" THEN "absent"
  ELSE IF s \in PreExecution THEN "waiting"
  ELSE IF s = "started" THEN "running"
  ELSE IF s = "unknown" THEN "unresolved" ELSE "settled"

Contract == INSTANCE TurnContract
  WITH Parent <- TurnOf,
       phase <- [t \in Turns |-> PhaseOf(turn[t])],
       call <- [i \in Invs |-> CallOf(inv[i])]

(* Every step of runner, commands, recovery and crash is a step of the     *)
(* contract or invisible to it: nothing executes after an interrupt, no    *)
(* turn closes over a waiting or running call, only an operator resolves   *)
(* what became unknown.                                                    *)
ImplementsContract == Contract!Spec

(* A terminal turn leaves no child behind: a completed or cancelled turn   *)
(* has only settled invocations, a failed one may keep "unknown" ones      *)
(* (settle_interrupted_turn, fail_current, recover_interrupted_turns).     *)
TerminalTurnSettled ==
  \A t \in Turns :
    /\ turn[t] \in TurnTerminal => Unsettled(t) = {}
    /\ turn[t] \in {"completed", "cancelled"} => Pending(t) = {}

(* No durable prefix shows a finished invocation without a ToolResult of   *)
(* the same polarity (append_invocation_outcome and its callers).          *)
OutcomePaired ==
  \A i \in Invs :
    /\ inv[i] = "completed" => result[i] = "ok"
    /\ inv[i] \in {"failed", "cancelled"} => result[i] = "error"
    /\ inv[i] \in {"absent", "started"} \cup PreExecution
         => result[i] = "none"

(* The ledger claims only what it can know: the tool is untouched until    *)
(* Started is durable, and unless an operator reviewed it, a completed     *)
(* invocation really succeeded and a failed one provably did not run or    *)
(* really failed.                                                          *)
EvidenceBacked ==
  \A i \in Invs :
    /\ inv[i] \in {"absent"} \cup PreExecution => world[i] = "untouched"
    /\ inv[i] = "completed" => world[i] = "ok" \/ i \in reviewed
    /\ inv[i] \in {"failed", "cancelled"}
         => world[i] \in {"untouched", "error"} \/ i \in reviewed

(* An unresolved outcome stops the conversation: while one exists, its own *)
(* turn is at the execution boundary or beyond, and no other turn of the   *)
(* thread is live (turn_start, FinishBatch).                               *)
UnknownStopsThread ==
  \A i \in Invs : inv[i] = "unknown" =>
    /\ turn[TurnOf(i)] \in {"executing", "cancelling", "failed"}
    /\ \A t \in Turns : t # TurnOf(i) => ~Active(t)

(* A tool runs at most once, only after its durable Started.               *)
NeverReexecuted ==
  [][\A i \in Invs :
       world[i] # "running" /\ world'[i] = "running"
         => world[i] = "untouched" /\ inv[i] = "started"]_vars

(* Every committed event replays: each durable change is a transition the  *)
(* projection accepts, an unknown outcome leaves only by reconciliation,   *)
(* and execution starts only under a turn that is executing.               *)
TurnReplays(t) ==
  turn'[t] # turn[t] =>
    \/ turn[t] = "none" /\ turn'[t] = "accepted"
    \/ CanTransitionTurn(turn[t], turn'[t])

InvReplays(i) ==
  inv'[i] # inv[i] =>
    \/ inv[i] = "absent" /\ inv'[i] = "proposed"
    \/ /\ CanTransitionInvocation(inv[i], inv'[i])
       /\ turn[TurnOf(i)] \notin TurnTerminal
       /\ inv'[i] = "started" => turn[TurnOf(i)] = "executing"
    \/ CanReconcileInvocation(inv[i], inv'[i]) /\ i \in reviewed'

EventsReplay ==
  [][/\ \A t \in Turns : TurnReplays(t)
     /\ \A i \in Invs : InvReplays(i)]_vars

(* Every accepted turn ends, interrupts, timeouts and crashes included,    *)
(* unless an I/O error aborts a runner (then see RestartRepairs).          *)
TurnsEnd ==
  \A t \in Turns :
    turn[t] = "accepted" ~> turn[t] \in TurnTerminal \/ faults > 0

(* No turn is lost: unless an I/O error aborted it, every live turn of a   *)
(* serving daemon has a runner task that will still act on it, whatever    *)
(* the order of launch, interrupt and settlement.                          *)
LiveTurnHasRunner ==
  \A t \in Turns :
    daemon = "up" /\ faults = 0 /\ Active(t) => pc[t] \notin {"none", "done"}

(* Even a turn that an I/O error left without a runner is closed by the    *)
(* next restart.                                                           *)
RestartRepairs ==
  daemon = "recovering" ~> \A t \in Turns : ~Active(t)

(* docs/PROTOCOL.md on turn/interrupt: the turn ends cancelling ->         *)
(* cancelled when no undecided execution boundary was crossed.  fail       *)
(* closes a Cancelling turn as failed all the same.                        *)
InterruptEndsCancelled ==
  [][\A t \in Turns :
       daemon = "up" /\ turn[t] = "cancelling" /\ turn'[t] = "failed"
         => UnknownOn(Owned(t)) # {}]_vars

-----------------------------------------------------------------------------
(* The inductive invariant behind the properties above.                    *)

(* Phases in which no call of the turn is open, and phases of a batch.     *)
QuietPhases == {"launch", "load", "begin", "building", "requesting",
                "requested", "streaming", "proposing", "integrated"}
BatchPhases == {"proposed", "authorizing", "approval", "scheduling",
                "starting", "integrating", "budget"}

(* While a runner works, the durable state is where it left it, unless an  *)
(* interrupt moved it to cancelling.                                       *)
PhaseMatchesTurn ==
  \A t \in Turns :
    /\ turn[t] = "none" => pc[t] = "none"
    /\ pc[t] \in {"launch", "load", "begin"}
         => turn[t] \in {"accepted", "cancelling"}
    /\ pc[t] = "building" => turn[t] \in {"building_context", "cancelling"}
    /\ pc[t] \in {"requesting", "requested"}
         => turn[t] \in {"requesting_model", "cancelling"}
    /\ pc[t] = "streaming" => turn[t] \in {"streaming", "cancelling"}
    /\ pc[t] \in {"proposing", "proposed"}
         => turn[t] \in {"proposed_tools", "cancelling"}
    /\ pc[t] = "authorizing" => turn[t] \in {"authorizing", "cancelling"}
    /\ pc[t] = "approval" => turn[t] \in {"waiting_for_approval", "cancelling"}
    /\ pc[t] = "scheduling" => turn[t] \in {"scheduling", "cancelling"}
    /\ pc[t] \in {"starting", "integrating", "budget"}
         => turn[t] \in {"executing", "cancelling"}
    /\ pc[t] = "integrated" => turn[t] \in {"integrating_results", "cancelling"}
    /\ pc[t] = "settling" => turn[t] = "cancelling"
    /\ faults = 0 /\ pc[t] = "settle"
         => turn[t] \in {"cancelling"} \cup TurnTerminal

FlagMeansCancelling ==
  \A t \in Turns :
    flag[t] = "set" => turn[t] \in {"cancelling"} \cup TurnTerminal

OneLiveTurn == \A t, u \in Turns : Active(t) /\ Active(u) => t = u

CrashForgets ==
  daemon = "recovering" =>
    \A t \in Turns : pc[t] = "none" /\ flag[t] = "unregistered"

(* An open call belongs to a live turn, an executing one to a turn at or   *)
(* past the execution boundary.                                            *)
OpenCallsUnderLiveTurn ==
  \A i \in Invs :
    /\ inv[i] \in PreExecution => Active(TurnOf(i))
    /\ inv[i] = "started" => turn[TurnOf(i)] \in {"executing", "cancelling"}
    /\ turn[TurnOf(i)] = "none" => inv[i] = "absent"

QuietMeansSettled ==
  \A i \in Invs :
    pc[TurnOf(i)] \in QuietPhases =>
      /\ inv[i] \in {"absent"} \cup InvTerminal
      /\ step[i] \in {"none", "integrated"}
      /\ step[i] = "integrated" => inv[i] \in InvTerminal

(* The runner's records agree with the ledger and with the world.          *)
RecordMatchesLedger ==
  \A i \in Invs :
    /\ turn[TurnOf(i)] = "none" => step[i] = "none"
    /\ pc[TurnOf(i)] \in BatchPhases =>
         /\ step[i] \in {"planned", "consented", "preparation_failure"}
              => inv[i] = "proposed"
         /\ step[i] = "approved" => inv[i] = "approved"
         /\ step[i] \in {"ready", "scheduler_rejected",
                          "cancelled_before_start"} => inv[i] = "prepared"
         /\ step[i] \in {"starting", "started"} => inv[i] = "started"
         /\ step[i] = "none" => inv[i] \in {"absent"} \cup InvTerminal
         /\ step[i] = "integrated" => inv[i] \in {"unknown"} \cup InvTerminal
         /\ inv[i] = "unknown" => pc[TurnOf(i)] \in {"integrating", "budget"}
         /\ step[i] = "starting" => world[i] = "untouched"
         /\ step[i] = "started"
              => world[i] \in {"running", "ok", "error", "unproven"}
    /\ pc[TurnOf(i)] \in {"scheduling", "starting"}
         => step[i] \notin {"planned", "consented", "approved"}
    /\ pc[TurnOf(i)] \in {"integrating", "budget"}
         => step[i] \notin {"planned", "consented", "approved", "ready",
                            "starting"}

IInv ==
  /\ TypeOK
  /\ PhaseMatchesTurn
  /\ FlagMeansCancelling
  /\ OneLiveTurn
  /\ CrashForgets
  /\ OpenCallsUnderLiveTurn
  /\ QuietMeansSettled
  /\ RecordMatchesLedger
  /\ TerminalTurnSettled
  /\ OutcomePaired
  /\ EvidenceBacked
  /\ UnknownStopsThread
  /\ LiveTurnHasRunner

=============================================================================
