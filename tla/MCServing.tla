------------------------------ MODULE MCServing ------------------------------
(***************************************************************************)
(* What turns and clients wait for: the events a connection task forwards, *)
(* the approval requests it carries, and the end of a process call.  They  *)
(* touch different state, so a behaviour is one of the part chosen in the  *)
(* beginning while the others rest in their initial state.  The process    *)
(* calls are strict and isolated, as every call of the daemon is, and      *)
(* write no output.                                                        *)
(***************************************************************************)
EXTENDS EventStream, Processes

CONSTANTS Requests  \* approval requests

VARIABLES
  part,
  link, runner, channel, ids, pending, prompts, frames, said, stray, verdict

approving == <<link, runner, channel, ids, pending, prompts, frames, said,
               stray, verdict>>

Approvals == INSTANCE ApprovalChannel WITH
  conn <- link, queue <- channel, Capacity <- 1, MaxStray <- 1

running == <<isolation, pc, strict, result, lock, guard, child, procs, written,
             taken, reader, got, truncated, orphans, struck>>

ServingInit ==
  /\ part \in {"events", "approvals", "processes"}
  /\ Init /\ Approvals!Init /\ Exec!Init
  /\ isolation /\ \A c \in Runs : strict[c]

ServingNext ==
  /\ part' = part
  /\ \/ part = "events" /\ Next /\ UNCHANGED <<approving, running>>
     \/ part = "approvals" /\ Approvals!Next /\ UNCHANGED <<vars, running>>
     \/ part = "processes" /\ Exec!Next /\ written' = written /\ UNCHANGED <<vars, approving>>

(* The gate holder broadcasts what it committed, the connection task and a *)
(* client that reconnects make progress, and a subscription gets the gate  *)
(* although commits compete for it.                                        *)
EventFairness ==
  /\ WF_vars(part = "events" /\ Broadcast)
  /\ WF_vars(part = "events" /\ Connection)
  /\ WF_vars(part = "events" /\ Connect /\ wire = << >>)
  /\ \A t \in Threads : SF_vars(part = "events" /\ Subscribe(t))

(* The connection task serves its channel and its frames, a slot of the    *)
(* channel is not withheld from a sender for ever, and the client answers  *)
(* what it was asked.                                                      *)
ApprovalFairness ==
  /\ \A r \in Requests :
       /\ SF_approving(part = "approvals" /\ Approvals!Send(r))
       /\ WF_approving(part = "approvals" /\ Approvals!SendFails(r))
  /\ WF_approving(part = "approvals" /\ Approvals!Prompt)
  /\ WF_approving(part = "approvals" /\ Approvals!ConsumeApprovalResponse)
  /\ \A i \in Approvals!Ids :
       WF_approving(part = "approvals" /\ Approvals!ClientAnswers(i))

(* The executor's own steps are taken, its timers fire, and a process that *)
(* was sent SIGKILL goes.  Nothing is assumed of targets, which may run    *)
(* for ever.                                                               *)
ProcessFairness ==
  /\ \A c \in Runs : WF_running(part = "processes" /\ Exec!Execute(c))
  /\ \A p \in Pids : WF_running(part = "processes" /\ Exec!Die(p))

ServingSpec ==
  /\ ServingInit /\ [][ServingNext]_<<part, vars, approving, running>>
  /\ EventFairness /\ ApprovalFairness /\ ProcessFairness

(* See ApprovalChannel: no runner waits for ever.                          *)
EveryRequestAnswered == Approvals!EveryRequestAnswered

(* No target, however long it runs or whatever it leaves open, keeps the   *)
(* executor from the next call: a call is made once, so every one that was *)
(* made is over when none is under way, and that comes (the timeouts of    *)
(* execute).                                                               *)
EveryCallEnds ==
  []<>(part = "processes" => \A c \in Runs : pc[c] \in {"idle", "ended"})

=============================================================================
