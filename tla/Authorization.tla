---------------------------- MODULE Authorization ----------------------------
(***************************************************************************)
(* What stands between a proposed call and its effect: tokens and the      *)
(* publication of patches, the tool registry, and the answer of the        *)
(* client.  Authority is extended, the others are instantiated on          *)
(* variables of their own; what they promise is named here for the runs    *)
(* and for the proofs.                                                     *)
(***************************************************************************)
EXTENDS Authority

CONSTANTS
  Registries, Proposals, Names, Tools, Kind, Template, MaxRelinks,
                               \* of ToolRegistry
  Requests, Slots, MaxStray    \* of ApprovalChannel

VARIABLES
  config, world, asked, relinks,
  conn, runner, queue, ids, pending, prompts, frames, said, stray, verdict

Registry == INSTANCE ToolRegistry WITH Calls <- Proposals, call <- asked

Approvals == INSTANCE ApprovalChannel WITH Capacity <- Slots

-----------------------------------------------------------------------------
(* See ApprovalChannel: a verdict is the client's own.                     *)
VerdictIsTheClients == Approvals!VerdictIsTheClients

(* See ToolRegistry: what is executed is what was judged.                  *)
ExecutedAsJudged == Registry!ExecutedAsJudged

=============================================================================
