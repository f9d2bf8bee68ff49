------------------------------ MODULE Lifecycles ------------------------------
(***************************************************************************)
(* The two lifecycles every other part of the daemon obeys: the states of  *)
(* a turn and of a tool invocation, and the transitions the projection     *)
(* accepts.  An event whose transition is not listed here is rejected by   *)
(* Projection::apply, and since every command and every daemon start first *)
(* replays the ledger, one such event would make the ledger unusable.      *)
(***************************************************************************)

TurnTerminal == {"completed", "cancelled", "failed"}

(* The states a turn passes through while its runner drives it forward.    *)
TurnDriven == {"accepted", "building_context", "requesting_model",
               "streaming", "proposed_tools", "waiting_for_approval",
               "authorizing", "scheduling", "executing",
               "integrating_results", "waiting_for_input"}

TurnStates == TurnDriven \cup {"cancelling"} \cup TurnTerminal

TurnForward ==
  { <<"accepted", "building_context">>,
    <<"building_context", "requesting_model">>,
    <<"building_context", "waiting_for_input">>,
    <<"requesting_model", "streaming">>,
    <<"streaming", "proposed_tools">>,
    <<"streaming", "completed">>,
    <<"proposed_tools", "waiting_for_approval">>,
    <<"proposed_tools", "authorizing">>,
    <<"waiting_for_approval", "authorizing">>,
    <<"authorizing", "waiting_for_approval">>,
    <<"authorizing", "scheduling">>,
    <<"scheduling", "executing">>,
    <<"executing", "integrating_results">>,
    <<"integrating_results", "requesting_model">>,
    <<"integrating_results", "completed">>,
    <<"integrating_results", "waiting_for_input">>,
    <<"waiting_for_input", "building_context">>,
    <<"cancelling", "cancelled">> }

CanTransitionTurn(from, to) ==
  /\ from # to
  /\ from \notin TurnTerminal
  /\ to \in {"cancelling", "failed"} \/ <<from, to>> \in TurnForward

(***************************************************************************)
(* Invocations.  "unknown" is neither terminal nor resumable: the outcome  *)
(* of an execution that was started could not be proven.                   *)
(***************************************************************************)
InvTerminal == {"completed", "failed", "cancelled"}
PreExecution == {"proposed", "approved", "prepared"}
InvStates == PreExecution \cup {"started", "unknown"} \cup InvTerminal

(* The event-sourced transition relation for a non-idempotent tool: the    *)
(* retry edge unknown -> started exists only for idempotent invocations.   *)
CanTransitionInvocation(from, to) ==
  /\ from # to
  /\ \/ <<from, to>> \in { <<"proposed", "approved">>,
                           <<"approved", "prepared">>,
                           <<"prepared", "started">> }
     \/ from = "started" /\ to \in InvTerminal \cup {"unknown"}
     \/ from \in PreExecution /\ to \in {"failed", "cancelled"}

(* The only edge out of "unknown": a tool/reconciled event with evidence.  *)
CanReconcileInvocation(from, to) ==
  from = "unknown" /\ to \in {"completed", "failed"}

=============================================================================
