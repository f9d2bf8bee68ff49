--------------------------- MODULE TurnRunnerProofs ---------------------------
(***************************************************************************)
(* Every reachable state of TurnRunner satisfies IInv, for any number of   *)
(* turns, calls, rounds, workers, crashes and I/O errors; the safety       *)
(* properties of the module, its action properties and its refinement of   *)
(* TurnContract follow.                                                    *)
(*                                                                         *)
(* TerminalTurnSettled and its companions are not inductive alone: that no *)
(* child is open when the runner closes a turn depends on where the runner *)
(* is, which PhaseMatchesTurn and QuietMeansSettled tie to the durable     *)
(* state, and on its in-memory records, which RecordMatchesLedger ties to  *)
(* the ledger and the world.                                               *)
(***************************************************************************)
EXTENDS TurnRunner, TLAPS

(* The vocabulary of states and phases is expanded everywhere.             *)
USE DEF TurnStates, TurnDriven, TurnTerminal, InvStates, PreExecution,
        InvTerminal, Phases, Steps, QuietPhases, BatchPhases

(* Every invocation belongs to a turn of the thread.                       *)
LEMMA ParentIsTurn == \A i \in Invs : TurnOf(i) \in Turns
  BY DEF Invs, TurnOf

-----------------------------------------------------------------------------
(* The empty ledger of a new daemon satisfies the invariant.               *)
LEMMA InitEstablishes == Init => IInv
  BY ParentIsTurn, BoundsAssumption
  DEF Init, IInv, TypeOK, PhaseMatchesTurn, FlagMeansCancelling, OneLiveTurn,
      CrashForgets, OpenCallsUnderLiveTurn, QuietMeansSettled,
      RecordMatchesLedger, TerminalTurnSettled, OutcomePaired, EvidenceBacked,
      UnknownStopsThread, LiveTurnHasRunner, Active, Unsettled, Pending, Owned

(* turn/start, turn/interrupt and invocation/reconcile: a turn starts only *)
(* on a settled thread, and an interrupt touches no call.                  *)
LEMMA CommandKeeps ==
  ASSUME IInv
  PROVE  /\ \A t \in Turns : TurnStart(t) => IInv'
         /\ \A t \in Turns : TurnInterrupt(t) => IInv'
         /\ \A i \in Invs : InvocationReconcile(i) => IInv'
  <1> USE ParentIsTurn, BoundsAssumption
      DEF IInv, TypeOK, PhaseMatchesTurn, FlagMeansCancelling, OneLiveTurn,
          CrashForgets, OpenCallsUnderLiveTurn, QuietMeansSettled,
          RecordMatchesLedger, TerminalTurnSettled, OutcomePaired,
          EvidenceBacked, UnknownStopsThread, LiveTurnHasRunner,
          Active, Unsettled, Pending, Owned, bounds
  <1>1. ASSUME NEW t \in Turns, TurnStart(t) PROVE IInv'
    BY <1>1, SMTT(60) DEF TurnStart, MayStart, GateFree, UnknownOn
  <1>2. ASSUME NEW t \in Turns, TurnInterrupt(t) PROVE IInv'
    BY <1>2, SMTT(60) DEF TurnInterrupt, GateFree
  <1>3. ASSUME NEW i \in Invs, InvocationReconcile(i) PROVE IInv'
    BY <1>3, SMTT(60) DEF InvocationReconcile, GateFree, volatile
  <1> HIDE DEF IInv
  <1>q. QED
    BY <1>1, <1>2, <1>3

(* The runner up to the end of a provider stream: no call of the turn is  *)
(* open, so whatever closes the turn closes it cleanly.                    *)
LEMMA StreamKeeps ==
  ASSUME IInv
  PROVE  /\ \A t \in Turns : LaunchTurn(t) => IInv'
         /\ \A t \in Turns : LoadTurn(t) => IInv'
         /\ \A t \in Turns : BeginContext(t) => IInv'
         /\ \A t \in Turns : BuildContext(t) => IInv'
         /\ \A t \in Turns : RequestModel(t) => IInv'
         /\ \A t \in Turns : OpenStream(t) => IInv'
         /\ \A t \in Turns : CloseStream(t) => IInv'
  <1> USE ParentIsTurn, BoundsAssumption
      DEF IInv, TypeOK, PhaseMatchesTurn, FlagMeansCancelling, OneLiveTurn,
          CrashForgets, OpenCallsUnderLiveTurn, QuietMeansSettled,
          RecordMatchesLedger, TerminalTurnSettled, OutcomePaired,
          EvidenceBacked, UnknownStopsThread, LiveTurnHasRunner,
          Active, Unsettled, Pending, Owned, bounds
  <1>1. ASSUME NEW t \in Turns, LaunchTurn(t) PROVE IInv'
    BY <1>1, SMTT(60) DEF LaunchTurn, durable
  <1>2. ASSUME NEW t \in Turns, LoadTurn(t) PROVE IInv'
    BY <1>2, SMTT(60) DEF LoadTurn, CancelTurn, invVars
  <1>3. ASSUME NEW t \in Turns, BeginContext(t) PROVE IInv'
    BY <1>3, SMTT(60) DEF BeginContext, Transition, invVars
  <1>4. ASSUME NEW t \in Turns, BuildContext(t) PROVE IInv'
    <2> USE <1>4 DEF BuildContext, invVars
    <2>1. CASE FailTurn(t, "building_context")
      BY <2>1 DEF FailTurn
    <2>2. CASE flag[t] = "set" /\ CancelTurn(t)
      BY <2>2 DEF CancelTurn
    <2>3. CASE Transition(t, "building_context", "requesting_model",
                          "requesting")
      BY <2>3 DEF Transition
    <2> QED BY <2>1, <2>2, <2>3
  <1>5. ASSUME NEW t \in Turns, RequestModel(t) PROVE IInv'
    <2> USE <1>5 DEF RequestModel, RoundsLeft, invVars
    <2>1. CASE FailTurn(t, "requesting_model") /\ UNCHANGED rounds
      BY <2>1 DEF FailTurn
    <2>2. CASE /\ rounds[t] < MaxRounds
               /\ Transition(t, "requesting_model", "requesting_model",
                             "requested")
               /\ rounds' = [rounds EXCEPT ![t] = @ + 1]
      BY <2>2 DEF Transition
    <2> QED BY <2>1, <2>2
  <1>6. ASSUME NEW t \in Turns, OpenStream(t) PROVE IInv'
    <2> USE <1>6 DEF OpenStream, invVars
    <2>1. CASE flag[t] = "set" /\ CancelTurn(t)
      BY <2>1 DEF CancelTurn
    <2>2. CASE Transition(t, "requesting_model", "streaming", "streaming")
      BY <2>2 DEF Transition
    <2> QED BY <2>1, <2>2
  <1>7. ASSUME NEW t \in Turns, CloseStream(t) PROVE IInv'
    <2> USE <1>7 DEF CloseStream, invVars
    <2>1. CASE flag[t] = "set" /\ CancelTurn(t)
      BY <2>1 DEF CancelTurn
    <2>2. CASE FailTurn(t, "streaming")
      BY <2>2 DEF FailTurn
    <2>3. CASE Transition(t, "streaming", "completed", "settle")
      BY <2>3 DEF Transition
    <2>4. CASE Transition(t, "streaming", "proposed_tools", "proposing")
      BY <2>4 DEF Transition
    <2> QED BY <2>1, <2>2, <2>3, <2>4
  <1> HIDE DEF IInv
  <1>q. QED
    BY <1>1, <1>2, <1>3, <1>4, <1>5, <1>6, <1>7

(* What persist_tool_proposals commits: fresh calls of the turn become     *)
(* proposed, with a record that will run or only report its failed plan.   *)
LEMMA ProposalBatch ==
  ASSUME NEW t \in Turns, ProposeTools(t), turn[t] = "proposed_tools"
  PROVE  \E batch \in SUBSET Invs :
           /\ \A i \in batch : inv[i] = "absent" /\ TurnOf(i) = t
           /\ inv' = [i \in Invs |-> IF i \in batch THEN "proposed" ELSE inv[i]]
           /\ \E failed \in SUBSET batch :
                step' = [i \in Invs |->
                           IF i \in failed THEN "preparation_failure"
                           ELSE IF i \in batch THEN "planned" ELSE step[i]]
  BY DEF ProposeTools, Used, Owned

(* Proposing and authorizing a batch: every open call has a record that   *)
(* agrees with its durable state.                                          *)
LEMMA AuthorizeKeeps ==
  ASSUME IInv
  PROVE  /\ \A t \in Turns : ProposeTools(t) => IInv'
         /\ \A t \in Turns : BeginAuthorizing(t) => IInv'
         /\ \A t \in Turns : \A i \in Owned(t) : Authorize(t, i) => IInv'
         /\ \A t \in Turns : \A i \in Owned(t) : RequestApproval(t, i) => IInv'
         /\ \A t \in Turns : \A i \in Owned(t) : ReceiveApproval(t, i) => IInv'
         /\ \A t \in Turns : BeginScheduling(t) => IInv'
         /\ \A t \in Turns : BeginExecuting(t) => IInv'
  <1> USE ParentIsTurn, BoundsAssumption
      DEF IInv, TypeOK, PhaseMatchesTurn, FlagMeansCancelling, OneLiveTurn,
          CrashForgets, OpenCallsUnderLiveTurn, QuietMeansSettled,
          RecordMatchesLedger, TerminalTurnSettled, OutcomePaired,
          EvidenceBacked, UnknownStopsThread, LiveTurnHasRunner,
          Active, Unsettled, Pending, Owned, bounds
  <1>1. ASSUME NEW t \in Turns, ProposeTools(t) PROVE IInv'
    <2>1. CASE turn[t] # "proposed_tools"
      BY <1>1, <2>1, SMTT(60) DEF ProposeTools
    <2>2. CASE turn[t] = "proposed_tools"
      <3>1. PICK batch \in SUBSET Invs :
              /\ \A i \in batch : inv[i] = "absent" /\ TurnOf(i) = t
              /\ inv' = [i \in Invs |-> IF i \in batch THEN "proposed"
                                        ELSE inv[i]]
              /\ \E failed \in SUBSET batch :
                   step' = [i \in Invs |->
                              IF i \in failed THEN "preparation_failure"
                              ELSE IF i \in batch THEN "planned" ELSE step[i]]
        BY <1>1, <2>2, ProposalBatch
      <3>2. /\ pc[t] = "proposing" /\ pc' = [pc EXCEPT ![t] = "proposed"]
            /\ UNCHANGED <<daemon, turn, result, reviewed, world, flag, rounds,
                           crashes, faults>>
        BY <1>1, <2>2 DEF ProposeTools
      <3>3. /\ \A i \in batch : inv[i] = "absent" /\ TurnOf(i) = t
            /\ \A i \in Invs :
                 /\ i \notin batch => step'[i] = step[i] /\ inv'[i] = inv[i]
                 /\ i \in batch => /\ inv'[i] = "proposed"
                                   /\ step'[i] \in {"planned",
                                                   "preparation_failure"}
        BY <3>1
      <3>4. TypeOK'
        BY <3>1, <3>2
      <3>5. PhaseMatchesTurn' /\ FlagMeansCancelling' /\ OneLiveTurn'
              /\ CrashForgets' /\ LiveTurnHasRunner'
        BY <2>2, <3>2
      <3>6. OpenCallsUnderLiveTurn' /\ TerminalTurnSettled'
        BY <2>2, <3>2, <3>3
      <3>7. QuietMeansSettled'
        BY <2>2, <3>2, <3>3
      <3>8. RecordMatchesLedger'
        <4> SUFFICES ASSUME NEW i \in Invs PROVE RecordMatchesLedger!(i)'
          BY DEF RecordMatchesLedger
        <4>1. CASE i \in batch
          BY <4>1, <2>2, <3>2, <3>3
        <4>2. CASE i \notin batch /\ TurnOf(i) = t
          BY <4>2, <2>2, <3>2, <3>3
        <4>3. CASE i \notin batch /\ TurnOf(i) # t
          BY <4>3, <2>2, <3>2, <3>3
        <4> QED BY <4>1, <4>2, <4>3
      <3>9. OutcomePaired' /\ EvidenceBacked' /\ UnknownStopsThread'
        BY <2>2, <3>2, <3>3
      <3> QED BY <3>4, <3>5, <3>6, <3>7, <3>8, <3>9
    <2> QED BY <2>1, <2>2
  <1>2. ASSUME NEW t \in Turns, BeginAuthorizing(t) PROVE IInv'
    BY <1>2, SMTT(60) DEF BeginAuthorizing, Transition, invVars
  <1>3. ASSUME NEW t \in Turns, NEW i \in Owned(t), Authorize(t, i) PROVE IInv'
    BY <1>3, SMTT(60) DEF Authorize, First, ToAuthorize, InStep
  <1>4. ASSUME NEW t \in Turns, NEW i \in Owned(t), RequestApproval(t, i) PROVE IInv'
    BY <1>4, SMTT(60) DEF RequestApproval, Transition, First, ToAuthorize,
                        InStep, invVars
  <1>5. ASSUME NEW t \in Turns, NEW i \in Owned(t), ReceiveApproval(t, i) PROVE IInv'
    BY <1>5, SMTT(60) DEF ReceiveApproval, Transition, First, ToAuthorize,
                        InStep
  <1>6. ASSUME NEW t \in Turns, BeginScheduling(t) PROVE IInv'
    BY <1>6, SMTT(60) DEF BeginScheduling, Transition, ToAuthorize, InStep,
                        invVars
  <1>7. ASSUME NEW t \in Turns, BeginExecuting(t) PROVE IInv'
    BY <1>7, SMTT(60) DEF BeginExecuting, Transition, invVars
  <1> HIDE DEF IInv
  <1>q. QED
    BY <1>1, <1>2, <1>3, <1>4, <1>5, <1>6, <1>7

(* Starting workers and what they report: the world is touched only after *)
(* Started is durable.                                                     *)
LEMMA ExecuteKeeps ==
  ASSUME IInv
  PROVE  /\ \A t \in Turns : \A i \in Owned(t) : KeepBack(t, i) => IInv'
         /\ \A t \in Turns : \A i \in Owned(t) : PersistStarted(t, i) => IInv'
         /\ \A t \in Turns : \A i \in Owned(t) : SpawnWorker(t, i) => IInv'
         /\ \A i \in Invs : FinishWorker(i) => IInv'
         /\ \A t \in Turns : AllStarted(t) => IInv'
  <1> USE ParentIsTurn, BoundsAssumption
      DEF IInv, TypeOK, PhaseMatchesTurn, FlagMeansCancelling, OneLiveTurn,
          CrashForgets, OpenCallsUnderLiveTurn, QuietMeansSettled,
          RecordMatchesLedger, TerminalTurnSettled, OutcomePaired,
          EvidenceBacked, UnknownStopsThread, LiveTurnHasRunner,
          Active, Unsettled, Pending, Owned, bounds
  <1>1. ASSUME NEW t \in Turns, NEW i \in Owned(t), KeepBack(t, i) PROVE IInv'
    BY <1>1, SMTT(60) DEF KeepBack, First, ToStart, InStep, durable
  <1>2. ASSUME NEW t \in Turns, NEW i \in Owned(t), PersistStarted(t, i) PROVE IInv'
    BY <1>2, SMTT(60) DEF PersistStarted, MayCrossBoundary, First, ToStart,
                        InStep
  <1>3. ASSUME NEW t \in Turns, NEW i \in Owned(t), SpawnWorker(t, i) PROVE IInv'
    BY <1>3, SMTT(60) DEF SpawnWorker, First, ToStart, InStep, durable
  <1>4. ASSUME NEW i \in Invs, FinishWorker(i) PROVE IInv'
    BY <1>4, SMTT(60) DEF FinishWorker, durable, volatile
  <1>5. ASSUME NEW t \in Turns, AllStarted(t) PROVE IInv'
    BY <1>5, SMTT(60) DEF AllStarted, ToStart, InStep, durable
  <1> HIDE DEF IInv
  <1>q. QED
    BY <1>1, <1>2, <1>3, <1>4, <1>5

(* Integration and the result budget record only what is known, and settle *)
(* the batch before they move on.                                          *)
LEMMA IntegrateKeeps ==
  ASSUME IInv
  PROVE  /\ \A t \in Turns : \A i \in Owned(t) : Integrate(t, i) => IInv'
         /\ \A t \in Turns : \A i \in Owned(t) : AbandonSibling(t, i) => IInv'
         /\ \A t \in Turns : FailOverBudget(t) => IInv'
         /\ \A t \in Turns : FinishBatch(t) => IInv'
         /\ \A t \in Turns : NextRound(t) => IInv'
  <1> USE ParentIsTurn, BoundsAssumption
      DEF IInv, TypeOK, PhaseMatchesTurn, FlagMeansCancelling, OneLiveTurn,
          CrashForgets, OpenCallsUnderLiveTurn, QuietMeansSettled,
          RecordMatchesLedger, TerminalTurnSettled, OutcomePaired,
          EvidenceBacked, UnknownStopsThread, LiveTurnHasRunner,
          Active, Unsettled, Pending, Owned, bounds
  <1>1. ASSUME NEW t \in Turns, NEW i \in Owned(t), Integrate(t, i) PROVE IInv'
    BY <1>1, SMTT(60) DEF Integrate, First, ToIntegrate, InStep, RecordOutcome,
                        ObservedOutcome, AbandonedOutcome
  <1>2. ASSUME NEW t \in Turns, NEW i \in Owned(t), AbandonSibling(t, i) PROVE IInv'
    BY <1>2, SMTT(60) DEF AbandonSibling, First, ToIntegrate, InStep,
                        RecordOutcome, AbandonedOutcome
  <1>3. ASSUME NEW t \in Turns, FailOverBudget(t) PROVE IInv'
    BY <1>3, SMTT(60) DEF FailOverBudget, FailCurrent, ToIntegrate, InStep,
                        invVars
  <1>4. ASSUME NEW t \in Turns, FinishBatch(t) PROVE IInv'
    <2> USE <1>4 DEF FinishBatch, ToIntegrate, InStep, UnknownOn, invVars
    <2>1. CASE FailCurrent(t)
      BY <2>1 DEF FailCurrent
    <2>2. CASE UnknownOn(Owned(t)) = {} /\ flag[t] = "set" /\ CancelTurn(t)
      BY <2>2 DEF CancelTurn
    <2>3. CASE /\ UnknownOn(Owned(t)) = {}
               /\ Transition(t, "executing", "integrating_results",
                             "integrated")
      BY <2>3 DEF Transition
    <2> QED BY <2>1, <2>2, <2>3
  <1>5. ASSUME NEW t \in Turns, NextRound(t) PROVE IInv'
    BY <1>5, SMTT(60) DEF NextRound, RoundsLeft, FailTurn, Transition, invVars
  <1> HIDE DEF IInv
  <1>q. QED
    BY <1>1, <1>2, <1>3, <1>4, <1>5

(* The settlement pass.                                                    *)
LEMMA SettleKeeps ==
  ASSUME IInv
  PROVE  /\ \A t \in Turns : BeginSettlement(t) => IInv'
         /\ \A t \in Turns : \A i \in Owned(t) : SettleInvocation(t, i) => IInv'
         /\ \A t \in Turns : SettleTurn(t) => IInv'
  <1> USE ParentIsTurn, BoundsAssumption
      DEF IInv, TypeOK, PhaseMatchesTurn, FlagMeansCancelling, OneLiveTurn,
          CrashForgets, OpenCallsUnderLiveTurn, QuietMeansSettled,
          RecordMatchesLedger, TerminalTurnSettled, OutcomePaired,
          EvidenceBacked, UnknownStopsThread, LiveTurnHasRunner,
          Active, Unsettled, Pending, Owned, bounds
  <1>1. ASSUME NEW t \in Turns, BeginSettlement(t) PROVE IInv'
    BY <1>1, SMTT(60) DEF BeginSettlement, DropLocals, durable
  <1>2. ASSUME NEW t \in Turns, NEW i \in Owned(t), SettleInvocation(t, i) PROVE IInv'
    BY <1>2, SMTT(60) DEF SettleInvocation, InterruptedOutcome,
                        RecordOutcome, volatile
  <1>3. ASSUME NEW t \in Turns, SettleTurn(t) PROVE IInv'
    BY <1>3, SMTT(60) DEF SettleTurn, SettledTurn, invVars
  <1> HIDE DEF IInv
  <1>q. QED
    BY <1>1, <1>2, <1>3

(* I/O errors, crashes and restart recovery.                                *)
LEMMA MishapKeeps ==
  ASSUME IInv
  PROVE  /\ \A t \in Turns : RunnerFault(t) => IInv'
         /\ Crash => IInv'
         /\ \A i \in Invs : RecoverInvocation(i) => IInv'
         /\ RecoverTurns => IInv'
  <1> USE ParentIsTurn, BoundsAssumption
      DEF IInv, TypeOK, PhaseMatchesTurn, FlagMeansCancelling, OneLiveTurn,
          CrashForgets, OpenCallsUnderLiveTurn, QuietMeansSettled,
          RecordMatchesLedger, TerminalTurnSettled, OutcomePaired,
          EvidenceBacked, UnknownStopsThread, LiveTurnHasRunner,
          Active, Unsettled, Pending, Owned, bounds
  <1>1. ASSUME NEW t \in Turns, RunnerFault(t) PROVE IInv'
    BY <1>1, SMTT(60) DEF RunnerFault, durable
  <1>2. ASSUME Crash PROVE IInv'
    BY <1>2, SMTT(60) DEF Crash, durable
  <1>3. ASSUME NEW i \in Invs, RecoverInvocation(i) PROVE IInv'
    BY <1>3, SMTT(60) DEF RecoverInvocation, InterruptedOutcome, volatile
  <1>4. ASSUME RecoverTurns PROVE IInv'
    BY <1>4, SMTT(60) DEF RecoverTurns, volatile
  <1> HIDE DEF IInv
  <1>q. QED
    BY <1>1, <1>2, <1>3, <1>4

-----------------------------------------------------------------------------
(* Every step of the daemon, a stuttering one included, keeps IInv.        *)
LEMMA NextKeeps == IInv /\ [Next]_vars => IInv'
  <1> SUFFICES ASSUME IInv, [Next]_vars PROVE IInv'
    OBVIOUS
  <1>1. CASE Command
    BY <1>1, CommandKeeps DEF Command
  <1>2. ASSUME NEW t \in Turns, RunnerStep(t) PROVE IInv'
    BY <1>2, StreamKeeps, AuthorizeKeeps, ExecuteKeeps, IntegrateKeeps,
       SettleKeeps DEF RunnerStep
  <1>3. ASSUME NEW t \in Turns, AnswerApproval(t) PROVE IInv'
    BY <1>3, AuthorizeKeeps DEF AnswerApproval
  <1>4. ASSUME NEW t \in Turns, RunnerFault(t) PROVE IInv'
    BY <1>4, MishapKeeps
  <1>5. ASSUME NEW i \in Invs, FinishWorker(i) PROVE IInv'
    BY <1>5, ExecuteKeeps
  <1>6. CASE Crash
    BY <1>6, MishapKeeps
  <1>7. CASE Recover
    BY <1>7, MishapKeeps DEF Recover
  <1>8. CASE UNCHANGED vars
    BY <1>8
    DEF vars, durable, volatile, bounds, IInv, TypeOK, PhaseMatchesTurn,
        FlagMeansCancelling, OneLiveTurn, CrashForgets,
        OpenCallsUnderLiveTurn, QuietMeansSettled, RecordMatchesLedger,
        TerminalTurnSettled, OutcomePaired, EvidenceBacked,
        UnknownStopsThread, LiveTurnHasRunner, Active, Unsettled, Pending
  <1> QED
    BY <1>1, <1>2, <1>3, <1>4, <1>5, <1>6, <1>7, <1>8 DEF Next

(* IInv holds in every reachable state, for every value of the bounds.     *)
THEOREM InductiveInvariant == Spec => []IInv
  BY InitEstablishes, NextKeeps, PTL DEF Spec

(* Every variable of the runner keeps its type.                            *)
THEOREM TypeCorrect == Spec => []TypeOK
  <1>1. IInv => TypeOK
    BY DEF IInv
  <1> QED BY <1>1, InductiveInvariant, PTL

(* A terminal turn leaves no waiting or running call behind, and a         *)
(* completed or cancelled one no unknown outcome either: fail,             *)
(* fail_current, cancel, the settlement pass and recovery keep it so.      *)
THEOREM TerminalTurnsSettle == Spec => []TerminalTurnSettled
  <1>1. IInv => TerminalTurnSettled
    BY DEF IInv
  <1> QED BY <1>1, InductiveInvariant, PTL

(* A finished invocation always has its ToolResult of the same polarity.   *)
THEOREM OutcomesPaired == Spec => []OutcomePaired
  <1>1. IInv => OutcomePaired
    BY DEF IInv
  <1> QED BY <1>1, InductiveInvariant, PTL

(* The ledger never claims success or failure of a tool without evidence,  *)
(* and no tool runs before its durable Started.                            *)
THEOREM ClaimsAreBacked == Spec => []EvidenceBacked
  <1>1. IInv => EvidenceBacked
    BY DEF IInv
  <1> QED BY <1>1, InductiveInvariant, PTL

(* While an outcome is unknown no other turn of the thread is live.        *)
THEOREM UnknownBlocksThread == Spec => []UnknownStopsThread
  <1>1. IInv => UnknownStopsThread
    BY DEF IInv
  <1> QED BY <1>1, InductiveInvariant, PTL

(* Without I/O errors a live turn of a serving daemon always has a runner. *)
THEOREM NoTurnIsLost == Spec => []LiveTurnHasRunner
  <1>1. IInv => LiveTurnHasRunner
    BY DEF IInv
  <1> QED BY <1>1, InductiveInvariant, PTL

-----------------------------------------------------------------------------
(* What one step may do to the durable state.                              *)
Replays == (\A t \in Turns : TurnReplays(t)) /\ (\A i \in Invs : InvReplays(i))

(* Every action commits only events the projection accepts.                *)
LEMMA NextReplays == IInv /\ Next => Replays
  <1> SUFFICES ASSUME IInv, Next PROVE Replays
    OBVIOUS
  <1> USE ParentIsTurn
      DEF IInv, TypeOK, PhaseMatchesTurn, FlagMeansCancelling,
          OpenCallsUnderLiveTurn,
          RecordMatchesLedger, Replays, TurnReplays, InvReplays,
          CanTransitionTurn, CanReconcileInvocation,
          CanTransitionInvocation, TurnForward
  <1>1. ASSUME NEW t \in Turns, TurnStart(t)
        PROVE  Replays
    BY <1>1 DEF TurnStart, MayStart, GateFree
  <1>2. ASSUME NEW t \in Turns, TurnInterrupt(t)
        PROVE  Replays
    BY <1>2 DEF TurnInterrupt, GateFree, Active
  <1>3. ASSUME NEW i \in Invs, InvocationReconcile(i)
        PROVE  Replays
    BY <1>3 DEF InvocationReconcile, volatile
  <1>4. ASSUME NEW t \in Turns, LaunchTurn(t)
        PROVE  Replays
    BY <1>4 DEF LaunchTurn, durable
  <1>5. ASSUME NEW t \in Turns, LoadTurn(t)
        PROVE  Replays
    BY <1>5 DEF LoadTurn, CancelTurn, Active, invVars
  <1>6. ASSUME NEW t \in Turns, BeginContext(t)
        PROVE  Replays
    BY <1>6 DEF BeginContext, Transition, invVars
  <1>7. ASSUME NEW t \in Turns, BuildContext(t)
        PROVE  Replays
    BY <1>7 DEF BuildContext, Transition, FailTurn, CancelTurn, Active,
        invVars
  <1>8. ASSUME NEW t \in Turns, RequestModel(t)
        PROVE  Replays
    BY <1>8 DEF RequestModel, Transition, FailTurn, invVars
  <1>9. ASSUME NEW t \in Turns, OpenStream(t)
        PROVE  Replays
    BY <1>9 DEF OpenStream, Transition, CancelTurn, Active, invVars
  <1>10. ASSUME NEW t \in Turns, CloseStream(t)
        PROVE  Replays
    BY <1>10 DEF CloseStream, Transition, FailTurn, CancelTurn, Active,
        invVars
  <1>11. ASSUME NEW t \in Turns, ProposeTools(t)
        PROVE  Replays
    BY <1>11 DEF ProposeTools, Used, Owned
  <1>12. ASSUME NEW t \in Turns, BeginAuthorizing(t)
        PROVE  Replays
    BY <1>12 DEF BeginAuthorizing, Transition, invVars
  <1>13. ASSUME NEW t \in Turns, NEW i \in Owned(t), Authorize(t, i)
        PROVE  Replays
    BY <1>13 DEF Authorize, First, ToAuthorize, InStep, Owned
  <1>14. ASSUME NEW t \in Turns, NEW i \in Owned(t), RequestApproval(t, i)
        PROVE  Replays
    BY <1>14 DEF RequestApproval, Transition, invVars
  <1>15. ASSUME NEW t \in Turns, NEW i \in Owned(t), ReceiveApproval(t, i)
        PROVE  Replays
    BY <1>15 DEF ReceiveApproval, Transition
  <1>16. ASSUME NEW t \in Turns, BeginScheduling(t)
        PROVE  Replays
    BY <1>16 DEF BeginScheduling, Transition, invVars
  <1>17. ASSUME NEW t \in Turns, BeginExecuting(t)
        PROVE  Replays
    BY <1>17 DEF BeginExecuting, Transition, invVars
  <1>18. ASSUME NEW t \in Turns, NEW i \in Owned(t), KeepBack(t, i)
        PROVE  Replays
    BY <1>18 DEF KeepBack, durable
  <1>19. ASSUME NEW t \in Turns, NEW i \in Owned(t), PersistStarted(t, i)
        PROVE  Replays
    BY <1>19 DEF PersistStarted, MayCrossBoundary, First, ToStart, InStep,
        Owned
  <1>20. ASSUME NEW t \in Turns, NEW i \in Owned(t), SpawnWorker(t, i)
        PROVE  Replays
    BY <1>20 DEF SpawnWorker, durable
  <1>21. ASSUME NEW i \in Invs, FinishWorker(i)
        PROVE  Replays
    BY <1>21 DEF FinishWorker, durable
  <1>22. ASSUME NEW t \in Turns, AllStarted(t)
        PROVE  Replays
    BY <1>22 DEF AllStarted, durable
  <1>23. ASSUME NEW t \in Turns, NEW i \in Owned(t), Integrate(t, i)
        PROVE  Replays
    BY <1>23 DEF Integrate, RecordOutcome, ObservedOutcome,
        AbandonedOutcome, First, ToIntegrate, InStep, Owned
  <1>24. ASSUME NEW t \in Turns, NEW i \in Owned(t), AbandonSibling(t, i)
        PROVE  Replays
    BY <1>24 DEF AbandonSibling, RecordOutcome, AbandonedOutcome, First,
        ToIntegrate, InStep, Owned
  <1>25. ASSUME NEW t \in Turns, FailOverBudget(t)
        PROVE  Replays
    BY <1>25 DEF FailOverBudget, FailCurrent, Active, invVars
  <1>26. ASSUME NEW t \in Turns, FinishBatch(t)
        PROVE  Replays
    BY <1>26 DEF FinishBatch, FailCurrent, CancelTurn, Transition, Active,
        invVars
  <1>27. ASSUME NEW t \in Turns, NextRound(t)
        PROVE  Replays
    BY <1>27 DEF NextRound, RoundsLeft, FailTurn, Transition, invVars
  <1>28. ASSUME NEW t \in Turns, BeginSettlement(t)
        PROVE  Replays
    BY <1>28 DEF BeginSettlement, durable
  <1>29. ASSUME NEW t \in Turns, NEW i \in Owned(t), SettleInvocation(t, i)
        PROVE  Replays
    BY <1>29 DEF SettleInvocation, RecordOutcome, InterruptedOutcome,
        Unsettled, Owned
  <1>30. ASSUME NEW t \in Turns, SettleTurn(t)
        PROVE  Replays
    BY <1>30 DEF SettleTurn, SettledTurn, invVars
  <1>31. ASSUME NEW t \in Turns, RunnerFault(t)
        PROVE  Replays
    BY <1>31 DEF RunnerFault, durable
  <1>32. ASSUME Crash
        PROVE  Replays
    BY <1>32 DEF Crash, durable
  <1>33. ASSUME NEW i \in Invs, RecoverInvocation(i)
        PROVE  Replays
    BY <1>33 DEF RecoverInvocation, InterruptedOutcome, Active
  <1>34. ASSUME RecoverTurns
        PROVE  Replays
    BY <1>34 DEF RecoverTurns, Active
  <1> HIDE DEF IInv, Replays
  <1>r. ASSUME NEW t \in Turns, RunnerStep(t) PROVE Replays
    BY <1>r, <1>4, <1>5, <1>6, <1>7, <1>8, <1>9, <1>10, <1>11, <1>12,
        <1>13, <1>14, <1>16, <1>17, <1>18, <1>19, <1>20, <1>22, <1>23,
        <1>24, <1>25, <1>26, <1>27, <1>28, <1>29, <1>30 DEF RunnerStep
  <1> QED
    BY <1>r, <1>1, <1>2, <1>3, <1>15, <1>21, <1>31, <1>32, <1>33, <1>34 DEF
        Next, Command, AnswerApproval, Recover

(* The ledger stays replayable: no step, crash and recovery included,      *)
(* commits a turn or invocation change that Projection::apply rejects.     *)
THEOREM LedgerReplays == Spec => EventsReplay
  <1>1. IInv /\ [Next]_vars =>
          [(\A t \in Turns : TurnReplays(t)) /\ (\A i \in Invs : InvReplays(i))]_vars
    BY NextReplays DEF Replays
  <1> QED BY <1>1, InductiveInvariant, PTL DEF Spec, EventsReplay

(* Only a spawned worker makes a tool run.                                 *)
RunsOnce == \A i \in Invs :
  world[i] # "running" /\ world'[i] = "running"
    => world[i] = "untouched" /\ inv[i] = "started"

(* Only SpawnWorker sets a tool running, and its record is still fresh.    *)
LEMMA NextRunsOnce == IInv /\ Next => RunsOnce
  <1> SUFFICES ASSUME IInv, Next PROVE RunsOnce
    OBVIOUS
  <1>1. ASSUME NEW t \in Turns, NEW i \in Owned(t), SpawnWorker(t, i)
        PROVE  RunsOnce
    BY <1>1, ParentIsTurn
       DEF SpawnWorker, First, ToStart, InStep, Owned, RunsOnce, IInv, TypeOK,
           RecordMatchesLedger
  <1>2. ASSUME NEW i \in Invs, FinishWorker(i) PROVE RunsOnce
    BY <1>2 DEF FinishWorker, RunsOnce, IInv, TypeOK
  <1>3. CASE Crash
    BY <1>3 DEF Crash, RunsOnce, IInv, TypeOK
  <1>4. CASE Command \/ Recover
    BY <1>4 DEF Command, Recover, TurnStart, TurnInterrupt, RunsOnce,
        InvocationReconcile, RecoverInvocation, RecoverTurns
  <1>5. ASSUME NEW t \in Turns, AnswerApproval(t) \/ RunnerFault(t)
        PROVE  RunsOnce
    BY <1>5 DEF AnswerApproval, ReceiveApproval, RunnerFault, RunsOnce
  <1>6. ASSUME NEW t \in Turns, RunnerStep(t),
               \A i \in Owned(t) : ~SpawnWorker(t, i)
        PROVE  UNCHANGED world
    BY <1>6
    DEF RunnerStep, LaunchTurn, LoadTurn, BeginContext, BuildContext,
        RequestModel, OpenStream, CloseStream, ProposeTools,
        BeginAuthorizing, Authorize, RequestApproval, BeginScheduling,
        BeginExecuting, KeepBack, PersistStarted, AllStarted, Integrate,
        AbandonSibling, FailOverBudget, FinishBatch, NextRound,
        BeginSettlement, SettleInvocation, SettleTurn, invVars
  <1> QED
    BY <1>1, <1>2, <1>3, <1>4, <1>5, <1>6 DEF Next, RunsOnce

(* A tool runs at most once, whatever is retried, interrupted or crashes,  *)
(* and only after its Started event is durable.                            *)
THEOREM ToolsRunOnce == Spec => NeverReexecuted
  <1>1. IInv /\ [Next]_vars =>
          [\A i \in Invs :
             world[i] # "running" /\ world'[i] = "running"
               => world[i] = "untouched" /\ inv[i] = "started"]_vars
    BY NextRunsOnce DEF RunsOnce
  <1> QED BY <1>1, InductiveInvariant, PTL DEF Spec, NeverReexecuted

-----------------------------------------------------------------------------
(* TurnRunner implements TurnContract: under the refinement mapping        *)
(* PhaseOf / CallOf every step of the daemon is a step of the contract or  *)
(* leaves phase and call unchanged.                                        *)
phaseBar == [t \in Turns |-> PhaseOf(turn[t])]
callBar == [i \in Invs |-> CallOf(inv[i])]

(* A step of the contract, or one it does not see.                         *)
Visible == Contract!Next \/ UNCHANGED <<phaseBar, callBar>>

(* The refinement mapping, value by value.                                 *)
LEMMA PhaseValues ==
  /\ PhaseOf("none") = "idle" /\ PhaseOf("cancelling") = "stopping"
  /\ \A s \in TurnDriven : PhaseOf(s) = "open"
  /\ \A s \in TurnTerminal : PhaseOf(s) = s
  BY DEF PhaseOf

(* What an invocation state looks like to the contract.                    *)
LEMMA CallValues ==
  /\ CallOf("absent") = "absent" /\ CallOf("started") = "running"
  /\ CallOf("unknown") = "unresolved"
  /\ \A s \in PreExecution : CallOf(s) = "waiting"
  /\ \A s \in InvTerminal : CallOf(s) = "settled"
  BY DEF CallOf

-----------------------------------------------------------------------------
(* The shapes a step of the durable state can have, each a step of the     *)
(* contract.                                                               *)

(* Moving an open turn between driven states is invisible.                 *)
LEMMA DriveStep ==
  ASSUME TypeOK, NEW t \in Turns, NEW s \in TurnDriven,
         turn[t] \in TurnDriven, turn' = [turn EXCEPT ![t] = s], inv' = inv
  PROVE  Visible
  <1>1. phaseBar' = phaseBar
    BY PhaseValues DEF TypeOK, phaseBar
  <1>2. callBar' = callBar
    BY DEF callBar
  <1> QED BY <1>1, <1>2 DEF Visible

(* A step that changes neither turns nor calls is invisible.               *)
LEMMA StillStep ==
  ASSUME turn' = turn, inv' = inv
  PROVE  Visible
  BY DEF Visible, phaseBar, callBar

(* Moving a live turn to cancelling is a Stop, or invisible.               *)
LEMMA StopStep ==
  ASSUME TypeOK, NEW t \in Turns, Active(t),
         turn' = [turn EXCEPT ![t] = "cancelling"], inv' = inv
  PROVE  Visible
  <1>1. callBar' = callBar
    BY DEF callBar
  <1>2. CASE turn[t] = "cancelling"
    <2>1. turn' = turn
      BY <1>2 DEF TypeOK
    <2> QED BY <2>1, StillStep
  <1>3. CASE turn[t] # "cancelling"
    <2>1. phaseBar[t] = "open"
      BY <1>3, PhaseValues DEF TypeOK, Active, phaseBar
    <2>2. phaseBar' = [phaseBar EXCEPT ![t] = "stopping"]
      BY PhaseValues DEF TypeOK, phaseBar
    <2>3. Contract!Stop(t)
      BY <1>1, <2>1, <2>2, Zenon DEF Contract!Stop, phaseBar, callBar
    <2> QED BY <2>3 DEF Visible, Contract!Next
  <1> QED BY <1>2, <1>3

(* A live turn without waiting or running calls may close.                 *)
LEMMA CloseStep ==
  ASSUME TypeOK, NEW t \in Turns, NEW s \in TurnTerminal,
         Active(t), Unsettled(t) = {},
         s = "completed" => turn[t] \in TurnDriven /\ Pending(t) = {},
         s = "cancelled" => turn[t] = "cancelling" /\ Pending(t) = {},
         turn' = [turn EXCEPT ![t] = s], inv' = inv
  PROVE  Visible
  <1>1. callBar' = callBar
    BY DEF callBar
  <1>2. phaseBar' = [phaseBar EXCEPT ![t] = s]
    BY PhaseValues DEF TypeOK, phaseBar
  <1>3. phaseBar[t] \in {"open", "stopping"}
    BY PhaseValues DEF TypeOK, Active, phaseBar
  <1>4. \A i \in Invs : TurnOf(i) = t =>
          callBar[i] \in {"absent", "unresolved", "settled"}
    BY CallValues DEF TypeOK, Unsettled, Owned, callBar
  <1>5. /\ s = "completed" => phaseBar[t] = "open"
        /\ s = "cancelled" => phaseBar[t] = "stopping"
    BY PhaseValues DEF phaseBar
  <1>6. s \in {"completed", "cancelled"} =>
          \A i \in Invs : TurnOf(i) = t => callBar[i] # "unresolved"
    BY CallValues DEF TypeOK, Pending, Owned, callBar
  <1>7. Contract!CallsOf(t, {"waiting", "running"}) = {}
    BY <1>4 DEF Contract!CallsOf, callBar
  <1>8. s \in {"completed", "cancelled"} =>
          Contract!CallsOf(t, {"unresolved"}) = {}
    BY <1>6 DEF Contract!CallsOf, callBar
  <1>9. Contract!Close(t)
    <2>1. CASE s = "completed"
      BY <2>1, <1>1, <1>2, <1>5, <1>7, <1>8, Zenon
      DEF Contract!Close, phaseBar, callBar
    <2>2. CASE s = "cancelled"
      BY <2>2, <1>1, <1>2, <1>5, <1>7, <1>8, Zenon
      DEF Contract!Close, phaseBar, callBar
    <2>3. CASE s = "failed"
      BY <2>3, <1>1, <1>2, <1>3, <1>7, Zenon
      DEF Contract!Close, phaseBar, callBar
    <2> QED BY <2>1, <2>2, <2>3
  <1> QED BY <1>9 DEF Visible, Contract!Next

(* One call moving along its lifecycle is one contract step.               *)
LEMMA CallStep ==
  ASSUME TypeOK, NEW i \in Invs, NEW s, turn' = turn,
         inv' = [inv EXCEPT ![i] = s],
         \/ inv[i] \in PreExecution /\ s \in PreExecution
         \/ /\ inv[i] \in PreExecution /\ s = "started"
            /\ turn[TurnOf(i)] \in TurnDriven
         \/ /\ inv[i] \in PreExecution \cup {"started"} /\ s \in InvTerminal
            /\ Active(TurnOf(i))
         \/ inv[i] = "started" /\ s = "unknown" /\ Active(TurnOf(i))
         \/ /\ inv[i] = "unknown" /\ s \in InvTerminal
            /\ turn[TurnOf(i)] \in TurnTerminal
  PROVE  Visible
  <1> USE ParentIsTurn
  <1>1. phaseBar' = phaseBar
    BY DEF phaseBar
  <1>2. callBar' = [callBar EXCEPT ![i] = CallOf(s)]
    BY DEF TypeOK, callBar
  <1>3. CASE inv[i] \in PreExecution /\ s \in PreExecution
    <2>1. callBar' = callBar
      BY <1>2, <1>3, CallValues DEF callBar
    <2> QED BY <1>1, <2>1 DEF Visible
  <1>4. CASE /\ inv[i] \in PreExecution /\ s = "started"
             /\ turn[TurnOf(i)] \in TurnDriven
    <2>1. /\ callBar[i] = "waiting" /\ CallOf(s) = "running"
          /\ phaseBar[TurnOf(i)] = "open"
      BY <1>4, CallValues, PhaseValues DEF callBar, phaseBar
    <2>2. Contract!Launch(i)
      BY <1>1, <1>2, <2>1, Zenon DEF Contract!Launch, callBar, phaseBar
    <2> QED BY <2>2 DEF Visible, Contract!Next
  <1>5. CASE /\ inv[i] \in PreExecution \cup {"started"} /\ s \in InvTerminal
             /\ Active(TurnOf(i))
    <2>1. /\ callBar[i] \in {"waiting", "running"} /\ CallOf(s) = "settled"
          /\ phaseBar[TurnOf(i)] \in {"open", "stopping"}
      BY <1>5, CallValues, PhaseValues DEF callBar, phaseBar, Active
    <2>2. Contract!Resolve(i)
      BY <1>1, <1>2, <2>1, Zenon DEF Contract!Resolve, callBar, phaseBar
    <2> QED BY <2>2 DEF Visible, Contract!Next
  <1>6. CASE inv[i] = "started" /\ s = "unknown" /\ Active(TurnOf(i))
    <2>1. /\ callBar[i] = "running" /\ CallOf(s) = "unresolved"
          /\ phaseBar[TurnOf(i)] \in {"open", "stopping"}
      BY <1>6, CallValues, PhaseValues DEF callBar, phaseBar, Active
    <2>2. Contract!Lose(i)
      BY <1>1, <1>2, <2>1, Zenon DEF Contract!Lose, callBar, phaseBar
    <2> QED BY <2>2 DEF Visible, Contract!Next
  <1>7. CASE /\ inv[i] = "unknown" /\ s \in InvTerminal
             /\ turn[TurnOf(i)] \in TurnTerminal
    <2>1. /\ callBar[i] = "unresolved" /\ CallOf(s) = "settled"
          /\ phaseBar[TurnOf(i)] \in {"completed", "cancelled", "failed"}
      BY <1>7, CallValues, PhaseValues DEF callBar, phaseBar
    <2>2. Contract!Review(i)
      BY <1>1, <1>2, <2>1, Zenon
      DEF Contract!Review, Contract!Closed, callBar, phaseBar
    <2> QED BY <2>2 DEF Visible, Contract!Next
  <1> QED BY <1>3, <1>4, <1>5, <1>6, <1>7

(* Accepting a turn on a settled thread is a Start.                        *)
LEMMA StartStep ==
  ASSUME IInv, NEW t \in Turns, TurnStart(t)
  PROVE  Visible
  <1>1. phaseBar' = [phaseBar EXCEPT ![t] = "open"]
    BY PhaseValues DEF TurnStart, IInv, TypeOK, phaseBar
  <1>2. \A u \in Turns :
          phaseBar[u] \in {"idle", "completed", "cancelled", "failed"}
    BY PhaseValues DEF TurnStart, MayStart, phaseBar
  <1>3. \A i \in Invs : callBar[i] # "unresolved"
    BY CallValues DEF TurnStart, MayStart, UnknownOn, callBar, IInv, TypeOK
  <1>4. phaseBar[t] = "idle" /\ UNCHANGED callBar
    BY PhaseValues DEF TurnStart, MayStart, phaseBar, callBar
  <1>5. Contract!Start(t)
    BY <1>1, <1>2, <1>3, <1>4, Zenon
    DEF Contract!Start, Contract!Closed, phaseBar, callBar
  <1> QED BY <1>5 DEF Visible, Contract!Next

(* Proposing fresh calls of an open turn is an Offer.                      *)
LEMMA OfferStep ==
  ASSUME IInv, NEW t \in Turns, ProposeTools(t)
  PROVE  Visible
  <1>1. CASE turn[t] # "proposed_tools"
    BY <1>1, StillStep DEF ProposeTools
  <1>2. CASE turn[t] = "proposed_tools"
    <2>1. PICK batch \in SUBSET Invs :
            /\ \A i \in batch : inv[i] = "absent" /\ TurnOf(i) = t
            /\ inv' = [i \in Invs |-> IF i \in batch THEN "proposed"
                                      ELSE inv[i]]
      BY <1>2, ProposalBatch
    <2>2. phaseBar[t] = "open" /\ phaseBar' = phaseBar
      BY <1>2, PhaseValues DEF ProposeTools, phaseBar
    <2>3. callBar' = [i \in Invs |-> IF i \in batch THEN "waiting"
                                    ELSE callBar[i]]
      BY <2>1, CallValues DEF callBar
    <2>4. batch \in SUBSET Contract!CallsOf(t, {"absent"})
      BY <2>1, CallValues DEF Contract!CallsOf, callBar
    <2>5. Contract!Offer(t)
      BY <2>2, <2>3, <2>4, Zenon DEF Contract!Offer, callBar, phaseBar
    <2> QED BY <2>5 DEF Visible, Contract!Next
  <1> QED BY <1>1, <1>2

-----------------------------------------------------------------------------
(* The gated helpers of the runner.                                        *)

(* transition between driven states, or its early return.                  *)
LEMMA TransitionVisible ==
  ASSUME TypeOK, NEW t \in Turns, NEW from \in TurnDriven, NEW to \in TurnDriven,
         NEW next, Transition(t, from, to, next), inv' = inv
  PROVE  Visible
  BY DriveStep, StillStep DEF Transition

(* fail closes a turn that has nothing pending.                            *)
LEMMA FailVisible ==
  ASSUME TypeOK, NEW t \in Turns, NEW from \in TurnDriven,
         FailTurn(t, from), inv' = inv, turn[t] = from => Unsettled(t) = {}
  PROVE  Visible
  <1>1. CASE turn' = turn
    BY <1>1, StillStep
  <1>2. CASE turn' # turn
    <2>1. /\ Active(t) /\ turn' = [turn EXCEPT ![t] = "failed"]
          /\ Unsettled(t) = {}
      BY <1>2 DEF FailTurn, Active, Pending, Unsettled
    <2> QED BY <2>1, CloseStep
  <1> QED BY <1>1, <1>2

(* fail_current closes a turn that has nothing unsettled.                  *)
LEMMA FailCurrentVisible ==
  ASSUME TypeOK, NEW t \in Turns, FailCurrent(t), inv' = inv
  PROVE  Visible
  BY CloseStep, StillStep DEF FailCurrent

(* cancel closes the turn, or marks it cancelling.                         *)
LEMMA CancelVisible ==
  ASSUME TypeOK, NEW t \in Turns, CancelTurn(t), inv' = inv,
         turn[t] \in {"cancelling"} \cup TurnTerminal
  PROVE  Visible
  <1>1. CASE Active(t) /\ Pending(t) = {}
    <2>1. turn[t] = "cancelling" /\ Unsettled(t) = {}
      BY <1>1 DEF Active, Pending, Unsettled
    <2> QED BY <1>1, <2>1, CloseStep DEF CancelTurn
  <1>2. CASE Active(t) /\ Pending(t) # {}
    BY <1>2, StopStep DEF CancelTurn
  <1>3. CASE ~Active(t)
    BY <1>3, StillStep DEF CancelTurn
  <1> QED BY <1>1, <1>2, <1>3

(* The runner up to the execution boundary.                                *)
LEMMA PrepareVisible ==
  ASSUME IInv, NEW t \in Turns
  PROVE  /\ LaunchTurn(t) => Visible
         /\ LoadTurn(t) => Visible
         /\ BeginContext(t) => Visible
         /\ BuildContext(t) => Visible
         /\ RequestModel(t) => Visible
         /\ OpenStream(t) => Visible
         /\ CloseStream(t) => Visible
         /\ BeginAuthorizing(t) => Visible
         /\ \A i \in Owned(t) : Authorize(t, i) => Visible
         /\ \A i \in Owned(t) : RequestApproval(t, i) => Visible
         /\ \A i \in Owned(t) : ReceiveApproval(t, i) => Visible
         /\ BeginScheduling(t) => Visible
         /\ BeginExecuting(t) => Visible
  <1>t. TypeOK
    BY DEF IInv
  <1>c. flag[t] = "set" => turn[t] \in {"cancelling"} \cup TurnTerminal
    BY DEF IInv, FlagMeansCancelling
  <1>q. pc[t] \in {"building", "requesting", "streaming"}
          => Unsettled(t) = {} /\ Pending(t) = {}
    BY DEF IInv, QuietMeansSettled, QuietPhases, Unsettled, Pending, Owned
  <1>1. ASSUME LaunchTurn(t) PROVE Visible
    BY <1>1, StillStep DEF LaunchTurn, durable
  <1>2. ASSUME LoadTurn(t) PROVE Visible
    BY <1>2, <1>t, <1>c, StillStep, CancelVisible DEF LoadTurn, invVars
  <1>3. ASSUME BeginContext(t) PROVE Visible
    BY <1>3, <1>t, TransitionVisible DEF BeginContext, invVars
  <1>4. ASSUME BuildContext(t) PROVE Visible
    BY <1>4, <1>t, <1>c, <1>q, TransitionVisible, FailVisible, CancelVisible
    DEF BuildContext, invVars
  <1>5. ASSUME RequestModel(t) PROVE Visible
    BY <1>5, <1>t, <1>q, TransitionVisible, FailVisible
    DEF RequestModel, invVars
  <1>6. ASSUME OpenStream(t) PROVE Visible
    BY <1>6, <1>t, <1>c, TransitionVisible, CancelVisible
    DEF OpenStream, invVars
  <1>7. ASSUME CloseStream(t) PROVE Visible
    <2>1. pc[t] = "streaming" /\ inv' = inv
      BY <1>7 DEF CloseStream, invVars
    <2>2. CASE flag[t] = "set" /\ CancelTurn(t)
      BY <2>1, <2>2, <1>t, <1>c, CancelVisible
    <2>3. CASE FailTurn(t, "streaming")
      BY <2>1, <2>3, <1>t, <1>q, FailVisible
    <2>4. CASE Transition(t, "streaming", "completed", "settle")
      <3>1. CASE turn[t] = "streaming"
        BY <2>1, <2>4, <3>1, <1>t, <1>q, CloseStep DEF Transition, Active
      <3>2. CASE turn[t] # "streaming"
        BY <2>1, <2>4, <3>2, StillStep DEF Transition
      <3> QED BY <3>1, <3>2
    <2>5. CASE Transition(t, "streaming", "proposed_tools", "proposing")
      BY <2>1, <2>5, <1>t, TransitionVisible
    <2> QED BY <1>7, <2>2, <2>3, <2>4, <2>5 DEF CloseStream
  <1>8. ASSUME BeginAuthorizing(t) PROVE Visible
    BY <1>8, <1>t, TransitionVisible DEF BeginAuthorizing, invVars
  <1>9. ASSUME NEW i \in Owned(t), Authorize(t, i) PROVE Visible
    <2>1. /\ i \in Invs /\ inv[i] \in PreExecution
          /\ turn' = turn
          /\ \E s \in PreExecution : inv' = [inv EXCEPT ![i] = s]
      BY <1>9 DEF Authorize, First, ToAuthorize, InStep, Owned, IInv,
                  RecordMatchesLedger, BatchPhases
    <2> QED BY <2>1, <1>t, CallStep
  <1>10. ASSUME NEW i \in Owned(t), RequestApproval(t, i) PROVE Visible
    BY <1>10, <1>t, TransitionVisible DEF RequestApproval, invVars
  <1>11. ASSUME NEW i \in Owned(t), ReceiveApproval(t, i) PROVE Visible
    BY <1>11, <1>t, TransitionVisible DEF ReceiveApproval
  <1>12. ASSUME BeginScheduling(t) PROVE Visible
    BY <1>12, <1>t, TransitionVisible DEF BeginScheduling, invVars
  <1>13. ASSUME BeginExecuting(t) PROVE Visible
    BY <1>13, <1>t, TransitionVisible DEF BeginExecuting, invVars
  <1> QED BY <1>1, <1>2, <1>3, <1>4, <1>5, <1>6, <1>7, <1>8, <1>9, <1>10,
             <1>11, <1>12, <1>13

(* The runner from the execution boundary to the end of its settlement.    *)
LEMMA ExecuteVisible ==
  ASSUME IInv, NEW t \in Turns
  PROVE  /\ \A i \in Owned(t) : KeepBack(t, i) => Visible
         /\ \A i \in Owned(t) : PersistStarted(t, i) => Visible
         /\ \A i \in Owned(t) : SpawnWorker(t, i) => Visible
         /\ AllStarted(t) => Visible
         /\ \A i \in Owned(t) : Integrate(t, i) => Visible
         /\ \A i \in Owned(t) : AbandonSibling(t, i) => Visible
         /\ FailOverBudget(t) => Visible
         /\ FinishBatch(t) => Visible
         /\ NextRound(t) => Visible
         /\ BeginSettlement(t) => Visible
         /\ \A i \in Owned(t) : SettleInvocation(t, i) => Visible
         /\ SettleTurn(t) => Visible
  <1>t. TypeOK
    BY DEF IInv
  <1>c. flag[t] = "set" => turn[t] \in {"cancelling"} \cup TurnTerminal
    BY DEF IInv, FlagMeansCancelling
  <1>q. pc[t] = "integrated" => Unsettled(t) = {}
    BY DEF IInv, QuietMeansSettled, QuietPhases, Unsettled, Owned
  <1>b. ASSUME NEW i \in Owned(t), pc[t] \in {"integrating", "budget"},
               First(ToIntegrate(t), i)
        PROVE  /\ i \in Invs /\ TurnOf(i) = t /\ Active(t)
               /\ step[i] = "started" => inv[i] = "started"
               /\ step[i] # "started" => inv[i] \in PreExecution
    BY <1>b DEF First, ToIntegrate, InStep, Owned, IInv, RecordMatchesLedger,
               BatchPhases, PhaseMatchesTurn, Active
  <1>1. ASSUME NEW i \in Owned(t), KeepBack(t, i) PROVE Visible
    BY <1>1, StillStep DEF KeepBack, durable
  <1>2. ASSUME NEW i \in Owned(t), PersistStarted(t, i) PROVE Visible
    <2>1. CASE turn[t] = "executing"
      <3>1. /\ i \in Invs /\ inv[i] \in PreExecution /\ TurnOf(i) = t
            /\ turn' = turn /\ inv' = [inv EXCEPT ![i] = "started"]
        BY <1>2, <2>1 DEF PersistStarted, MayCrossBoundary, First, ToStart,
           InStep, Owned, IInv, RecordMatchesLedger, BatchPhases
      <3> QED BY <2>1, <3>1, <1>t, CallStep
    <2>2. CASE turn[t] # "executing"
      BY <1>2, <2>2, StillStep DEF PersistStarted, MayCrossBoundary
    <2> QED BY <2>1, <2>2
  <1>3. ASSUME NEW i \in Owned(t), SpawnWorker(t, i) PROVE Visible
    BY <1>3, StillStep DEF SpawnWorker, durable
  <1>4. ASSUME AllStarted(t) PROVE Visible
    BY <1>4, StillStep DEF AllStarted, durable
  <1>5. ASSUME NEW i \in Owned(t), Integrate(t, i) PROVE Visible
    <2>1. PICK s : /\ s \in {ObservedOutcome(i), AbandonedOutcome(i)}
                   /\ turn' = turn /\ inv' = [inv EXCEPT ![i] = s]
      BY <1>5 DEF Integrate, RecordOutcome
    <2>2. /\ step[i] = "started" => s \in {"completed", "failed", "unknown"}
          /\ step[i] # "started" => s = "failed"
      BY <2>1 DEF ObservedOutcome, AbandonedOutcome
    <2>3. pc[t] = "integrating" /\ First(ToIntegrate(t), i)
      BY <1>5 DEF Integrate
    <2> QED BY <2>1, <2>2, <2>3, <1>b, <1>t, CallStep
  <1>6. ASSUME NEW i \in Owned(t), AbandonSibling(t, i) PROVE Visible
    <2>1. /\ turn' = turn /\ inv' = [inv EXCEPT ![i] = AbandonedOutcome(i)]
          /\ pc[t] = "budget" /\ First(ToIntegrate(t), i)
      BY <1>6 DEF AbandonSibling, RecordOutcome
    <2>2. /\ step[i] = "started" => AbandonedOutcome(i) = "unknown"
          /\ step[i] # "started" => AbandonedOutcome(i) = "failed"
      BY DEF AbandonedOutcome
    <2> QED BY <2>1, <2>2, <1>b, <1>t, CallStep
  <1>7. ASSUME FailOverBudget(t) PROVE Visible
    BY <1>7, <1>t, FailCurrentVisible DEF FailOverBudget, invVars
  <1>8. ASSUME FinishBatch(t) PROVE Visible
    BY <1>8, <1>t, <1>c, FailCurrentVisible, CancelVisible, TransitionVisible
    DEF FinishBatch, invVars
  <1>9. ASSUME NextRound(t) PROVE Visible
    BY <1>9, <1>t, <1>q, FailVisible, TransitionVisible
    DEF NextRound, invVars
  <1>10. ASSUME BeginSettlement(t) PROVE Visible
    BY <1>10, StillStep DEF BeginSettlement, durable
  <1>11. ASSUME NEW i \in Owned(t), SettleInvocation(t, i) PROVE Visible
    <2>1. /\ i \in Invs /\ TurnOf(i) = t /\ Active(t)
          /\ inv[i] \in PreExecution \cup {"started"}
          /\ turn' = turn /\ inv' = [inv EXCEPT ![i] = InterruptedOutcome(i)]
      BY <1>11 DEF SettleInvocation, RecordOutcome, Unsettled, Owned, IInv,
         PhaseMatchesTurn, Active
    <2>2. /\ inv[i] = "started" => InterruptedOutcome(i) = "unknown"
          /\ inv[i] # "started" => InterruptedOutcome(i) = "failed"
      BY DEF InterruptedOutcome
    <2> QED BY <2>1, <2>2, <1>t, CallStep
  <1>12. ASSUME SettleTurn(t) PROVE Visible
    <2>1. /\ turn[t] = "cancelling" /\ Active(t) /\ Unsettled(t) = {}
          /\ inv' = inv /\ turn' = [turn EXCEPT ![t] = SettledTurn(t)]
      BY <1>12 DEF SettleTurn, IInv, PhaseMatchesTurn, Active, invVars
    <2>2. \/ Pending(t) = {} /\ SettledTurn(t) = "cancelled"
          \/ SettledTurn(t) = "failed"
      BY DEF SettledTurn
    <2> QED BY <2>1, <2>2, <1>t, CloseStep
  <1> QED BY <1>1, <1>2, <1>3, <1>4, <1>5, <1>6, <1>7, <1>8, <1>9, <1>10,
             <1>11, <1>12

(* Commands, crashes and recovery.  Recovery closes every live turn in one *)
(* transaction; a thread has at most one.                                  *)
LEMMA OutsideVisible ==
  ASSUME IInv
  PROVE  /\ Command => Visible
         /\ \A t \in Turns : RunnerFault(t) => Visible
         /\ \A i \in Invs : FinishWorker(i) => Visible
         /\ Crash => Visible
         /\ Recover => Visible
  <1> USE ParentIsTurn
  <1>t. TypeOK
    BY DEF IInv
  <1>1. ASSUME NEW t \in Turns, TurnInterrupt(t) PROVE Visible
    BY <1>1, <1>t, StopStep DEF TurnInterrupt
  <1>2. ASSUME NEW i \in Invs, InvocationReconcile(i) PROVE Visible
    <2>1. PICK s \in {"completed", "failed"} : inv' = [inv EXCEPT ![i] = s]
      BY <1>2 DEF InvocationReconcile
    <2> QED BY <1>2, <2>1, <1>t, CallStep DEF InvocationReconcile
  <1>3. ASSUME Command PROVE Visible
    BY <1>1, <1>2, <1>3, StartStep DEF Command
  <1>4. ASSUME NEW t \in Turns, RunnerFault(t) PROVE Visible
    BY <1>4, StillStep DEF RunnerFault, durable
  <1>5. ASSUME NEW i \in Invs, FinishWorker(i) PROVE Visible
    BY <1>5, StillStep DEF FinishWorker, durable
  <1>6. ASSUME Crash PROVE Visible
    BY <1>6, StillStep DEF Crash, durable
  <1>7. ASSUME NEW i \in Invs, RecoverInvocation(i) PROVE Visible
    <2>1. /\ inv[i] \in PreExecution \cup {"started"} /\ Active(TurnOf(i))
          /\ turn' = turn /\ inv' = [inv EXCEPT ![i] = InterruptedOutcome(i)]
      BY <1>7 DEF RecoverInvocation, IInv, OpenCallsUnderLiveTurn, Active
    <2>2. /\ inv[i] = "started" => InterruptedOutcome(i) = "unknown"
          /\ inv[i] # "started" => InterruptedOutcome(i) = "failed"
      BY DEF InterruptedOutcome
    <2> QED BY <2>1, <2>2, <1>t, CallStep
  <1>8. ASSUME RecoverTurns PROVE Visible
    <2>1. CASE \E t \in Turns : Active(t)
      <3>1. PICK t \in Turns : Active(t)
        BY <2>1
      <3>2. turn' = [turn EXCEPT ![t] = "failed"] /\ inv' = inv
        BY <1>8, <3>1, <1>t DEF RecoverTurns, IInv, OneLiveTurn, TypeOK
      <3>3. Unsettled(t) = {}
        BY <1>8 DEF RecoverTurns, Unsettled, Owned
      <3> QED BY <3>1, <3>2, <3>3, <1>t, CloseStep
    <2>2. CASE ~\E t \in Turns : Active(t)
      <3>1. turn' = turn /\ inv' = inv
        BY <1>8, <2>2, <1>t DEF RecoverTurns, TypeOK
      <3> QED BY <3>1, StillStep
    <2> QED BY <2>1, <2>2
  <1> QED BY <1>3, <1>4, <1>5, <1>6, <1>7, <1>8 DEF Recover

(* The runner, the commands, the workers, crash and recovery together      *)
(* implement the contract of a thread.                                     *)
THEOREM RunnerImplementsContract == Spec => ImplementsContract
  <1>1. Init => Contract!Init
    <2>1. ASSUME Init
          PROVE  /\ phaseBar = [t \in Turns |-> "idle"]
                 /\ callBar = [i \in Invs |-> "absent"]
      BY <2>1, PhaseValues, CallValues DEF Init, phaseBar, callBar
    <2> QED BY <2>1, Zenon DEF Contract!Init, phaseBar, callBar
  <1>2. ASSUME IInv, [Next]_vars PROVE Visible
    <2>1. CASE UNCHANGED vars
      BY <2>1, StillStep DEF vars, durable
    <2>2. ASSUME NEW t \in Turns, RunnerStep(t) PROVE Visible
      BY <1>2, <2>2, PrepareVisible, OfferStep, ExecuteVisible DEF RunnerStep
    <2>3. ASSUME NEW t \in Turns, AnswerApproval(t) PROVE Visible
      BY <1>2, <2>3, PrepareVisible DEF AnswerApproval
    <2> QED BY <1>2, <2>1, <2>2, <2>3, OutsideVisible DEF Next
  <1>3. IInv /\ [Next]_vars =>
          [Contract!Next]_<<[t \in Turns |-> PhaseOf(turn[t])],
                            [i \in Invs |-> CallOf(inv[i])]>>
    BY <1>2, Zenon DEF Visible, phaseBar, callBar
  <1> QED
    BY <1>1, <1>3, InductiveInvariant, PTL
    DEF Spec, ImplementsContract, Contract!Spec

=============================================================================
