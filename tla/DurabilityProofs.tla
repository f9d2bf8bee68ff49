-------------------------- MODULE DurabilityProofs --------------------------
(***************************************************************************)
(* What the daemon keeps over failures and repetitions, for every value of *)
(* the constants: the histories and receipts of the ledger, the contents   *)
(* of the artifact store, turns accepted over several connections and the  *)
(* lines they arrive in, and the processes that follow each other on a     *)
(* state directory.                                                        *)
(*                                                                         *)
(* The components and the names of their promises are those of Durability. *)
(***************************************************************************)
EXTENDS Durability, WellFoundedInduction, SequenceTheorems, FiniteSetTheorems, TLAPS

-----------------------------------------------------------------------------
(* A non-empty set of natural numbers has a least element. With it, what a *)
(* recursive function computes is proved by looking at the first place     *)
(* where the claim fails.                                                  *)
LEMMA LeastElement ==
  ASSUME NEW S, S \subseteq Nat, S # {}
  PROVE  \E n \in S : \A m \in S : n <= m
<1> DEFINE R == OpToRel(<, Nat)
<1>1. IsWellFoundedOn(R, Nat) BY NatLessThanWellFounded, Zenon
<1> HIDE DEF R
<1>2. \E x \in S : \A y \in S : ~ (<<y, x>> \in R)
  BY <1>1, WFMin
<1>3. PICK x \in S : \A y \in S : ~ (<<y, x>> \in R) BY <1>2
<1>4. ASSUME NEW y \in S PROVE x <= y
  <2>1. ~(<<y, x>> \in R) BY <1>3
  <2>2. y \in Nat /\ x \in Nat OBVIOUS
  <2>3. ~(y < x) BY <2>1, <2>2 DEF R, OpToRel
  <2> QED BY <2>2, <2>3
<1> QED BY <1>4

(* h is the run of the invocation over the first N events of l.            *)
Tells(h, l, N) == h = [n \in 0 .. N |-> IF n = 0 THEN "absent" ELSE NextState(h[n - 1], l[n])]

(* There is such a run for every log: the shortest log without one would   *)
(* extend a log that has one.                                              *)
LEMMA StoryExists ==
  ASSUME NEW l, NEW N \in Nat
  PROVE  \E h : Tells(h, l, N)
<1> DEFINE T == {M \in Nat : ~ \E h : Tells(h, l, M)}
<1> SUFFICES ASSUME T # {} PROVE FALSE OBVIOUS
<1> HIDE DEF T
<1>0. T \subseteq Nat BY DEF T
<1>1. PICK M \in T : \A m \in T : M <= m BY <1>0, LeastElement
<1>2. M \in Nat /\ ~ \E h : Tells(h, l, M) BY DEF T
<1>3. CASE M = 0
  <2> DEFINE h == [n \in 0 .. 0 |-> "absent"]
  <2>1. Tells(h, l, 0) BY DEF Tells
  <2> QED BY <1>2, <1>3, <2>1
<1>4. CASE M # 0
  <2>1. M - 1 \in Nat /\ M - 1 \notin T BY <1>1, <1>2, <1>4
  <2>2. PICK g : Tells(g, l, M - 1) BY <2>1 DEF T
  <2> DEFINE h == [n \in 0 .. M |-> IF n = M THEN NextState(g[M - 1], l[M]) ELSE g[n]]
  <2>3. ASSUME NEW n \in 0 .. M
        PROVE  h[n] = IF n = 0 THEN "absent" ELSE NextState(h[n - 1], l[n])
    <3>1. CASE n = M
      <4>1. h[n] = NextState(g[M - 1], l[M]) BY <3>1
      <4>2. h[n - 1] = g[M - 1] BY <1>2, <1>4, <3>1
      <4> QED BY <1>4, <3>1, <4>1, <4>2
    <3>2. CASE n # M
      <4>1. h[n] = g[n] /\ n \in 0 .. M - 1 BY <1>2, <3>2
      <4>2. g[n] = IF n = 0 THEN "absent" ELSE NextState(g[n - 1], l[n]) BY <2>2, <4>1 DEF Tells
      <4>3. n # 0 => h[n - 1] = g[n - 1] BY <1>2, <3>2
      <4> QED BY <4>1, <4>2, <4>3
    <3> QED BY <3>1, <3>2
  <2>4. h = [n \in 0 .. M |-> h[n]] OBVIOUS
  <2> HIDE DEF h
  <2>5. Tells(h, l, M) BY <2>3, <2>4 DEF Tells
  <2> QED BY <1>2, <2>5
<1> QED BY <1>3, <1>4

(* A log that starts like another one tells the same story that far.       *)
LEMMA OneStory ==
  ASSUME NEW g, NEW h, NEW k, NEW l, NEW N \in Nat, NEW M \in Nat, N <= M,
         Tells(g, k, N), Tells(h, l, M), \A n \in 1 .. N : k[n] = l[n],
         NEW n \in 0 .. N
  PROVE  g[n] = h[n]
<1> DEFINE T == {m \in 0 .. N : g[m] # h[m]}
<1> SUFFICES ASSUME T # {} PROVE FALSE OBVIOUS
<1> HIDE DEF T
<1>0. T \subseteq Nat BY DEF T
<1>1. PICK m \in T : \A i \in T : m <= i BY <1>0, LeastElement
<1>2. m \in 0 .. N /\ g[m] # h[m] BY DEF T
<1>3. /\ g[m] = IF m = 0 THEN "absent" ELSE NextState(g[m - 1], k[m])
      /\ h[m] = IF m = 0 THEN "absent" ELSE NextState(h[m - 1], l[m])
  BY <1>2 DEF Tells
<1>4. m # 0 BY <1>2, <1>3
<1>5. m - 1 \in 0 .. N /\ m - 1 \notin T BY <1>1, <1>2, <1>4
<1>6. g[m - 1] = h[m - 1] BY <1>5 DEF T
<1> QED BY <1>2, <1>3, <1>4, <1>6

(* History is the run over the whole log.                                  *)
LEMMA HistoryTells ==
  ASSUME Len(log) \in Nat PROVE Tells(History, log, Len(log))
<1>1. \E h : Tells(h, log, Len(log)) BY StoryExists
<1>2. \E h : h = [n \in 0 .. Len(log) |-> IF n = 0 THEN "absent" ELSE NextState(h[n - 1], log[n])]
  BY <1>1 DEF Tells
<1>3. History = [n \in 0 .. Len(log) |-> IF n = 0 THEN "absent" ELSE NextState(History[n - 1], log[n])]
  BY <1>2, Zenon DEF History
<1> QED BY <1>3 DEF Tells

-----------------------------------------------------------------------------
(* The causes of events no command has caused are not command ids.         *)
LedgerConstants == {"runtime", "imported"} \cap Commands = {}

(* The log is a sequence.                                                  *)
LogIsSeq == log \in Seq(RangeOf(log))
(* Types of the receipts.                                                  *)
ReceiptTypes == receipts \in [Commands -> [digest : Digests \cup {"none"}, response : Nat]]

(* A batch of event inputs, which nobody has numbered yet.                 *)
IsBatch(batch) == /\ batch \in Seq(RangeOf(batch))
                  /\ \A n \in 1 .. Len(batch) : batch[n] = InputOf(batch[n])

(* A function on 1 .. k is a sequence.                                     *)
LEMMA FunctionIsSeq ==
  ASSUME NEW R, NEW k \in Nat, NEW f \in [1 .. k -> R]
  PROVE  f \in Seq(R)
OBVIOUS

(* The length and the domain of the log.                                   *)
LEMMA ALogIsASeq ==
  ASSUME LogIsSeq PROVE Len(log) \in Nat /\ DOMAIN log = 1 .. Len(log)
BY LenProperties DEF LogIsSeq

(* InputOf forgets nothing of an input.                                    *)
LEMMA InputsAreInputs ==
  \A id, thread, kind, from, to, cause :
     InputOf(Input(id, thread, kind, from, to, cause)) = Input(id, thread, kind, from, to, cause)
BY DEF InputOf, Input

(* Batches of one event.                                                   *)
LEMMA OneBatch ==
  ASSUME NEW e, e = InputOf(e)
  PROVE  /\ IsBatch(<<e>>) /\ Len(<<e>>) = 1 /\ <<e>>[1] = e /\ RangeOf(<<e>>) = {e}
BY DEF IsBatch, RangeOf

(* Batches of two events.                                                  *)
LEMMA TwoBatch ==
  ASSUME NEW e, NEW f, e = InputOf(e), f = InputOf(f)
  PROVE  /\ IsBatch(<<e, f>>) /\ Len(<<e, f>>) = 2 /\ <<e, f>>[1] = e /\ <<e, f>>[2] = f
         /\ RangeOf(<<e, f>>) = {e, f}
BY DEF IsBatch, RangeOf

(* append_batch keeps the events that were there and adds those of the     *)
(* batch behind them, with their content.                                  *)
LEMMA LogGrows ==
  ASSUME LogIsSeq, NEW batch, IsBatch(batch), log' = log \o Numbered(batch)
  PROVE  /\ LogIsSeq' /\ Len(log) \in Nat /\ Len(batch) \in Nat /\ DOMAIN log = 1 .. Len(log)
         /\ Len(log') = Len(log) + Len(batch) /\ DOMAIN log' = 1 .. Len(log) + Len(batch)
         /\ \A n \in 1 .. Len(log) : log'[n] = log[n]
         /\ \A n \in 1 .. Len(batch) :
              /\ InputOf(log'[Len(log) + n]) = batch[n]
              /\ log'[Len(log) + n].id = batch[n].id
              /\ log'[Len(log) + n].kind = batch[n].kind
              /\ log'[Len(log) + n].from = batch[n].from
              /\ log'[Len(log) + n].to = batch[n].to
              /\ log'[Len(log) + n].cause = batch[n].cause
<1>1. /\ Len(batch) \in Nat /\ DOMAIN batch = 1 .. Len(batch)
  BY LenProperties DEF IsBatch
<1>2. PICK s : s = Numbered(batch) OBVIOUS
<1>3. ASSUME NEW n \in 1 .. Len(batch)
      PROVE  /\ s[n].id = batch[n].id /\ s[n].thread = batch[n].thread /\ s[n].kind = batch[n].kind
             /\ s[n].from = batch[n].from /\ s[n].to = batch[n].to /\ s[n].cause = batch[n].cause
  BY <1>1, <1>2 DEF Numbered
<1>4. /\ DOMAIN s = 1 .. Len(batch) /\ s = [n \in 1 .. Len(batch) |-> s[n]]
  BY <1>1, <1>2 DEF Numbered
<1> DEFINE A == RangeOf(log) \cup RangeOf(s)
<1>5. s \in Seq(A) /\ Len(s) = Len(batch)
  <2>1. s \in [1 .. Len(batch) -> A] BY <1>4 DEF RangeOf
  <2>2. s \in Seq(A) BY <1>1, <2>1
  <2> QED BY <1>1, <1>4, <2>2, LenProperties
<1>6. log \in Seq(A) /\ Len(log) \in Nat /\ DOMAIN log = 1 .. Len(log)
  <2>1. log \in Seq(RangeOf(log)) BY DEF LogIsSeq
  <2> QED BY <2>1, SeqMonotonic, LenProperties
<1>7. /\ log' \in Seq(A) /\ Len(log') = Len(log) + Len(s)
      /\ \A i \in 1 .. Len(log) + Len(s) : log'[i] =
                     IF i <= Len(log) THEN log[i] ELSE s[i - Len(log)]
  <2>1. log' = log \o s BY <1>2
  <2> HIDE DEF A
  <2>2. /\ log \o s \in Seq(A) /\ Len(log \o s) = Len(log) + Len(s)
        /\ \A i \in 1 .. Len(log) + Len(s) : (log \o s)[i] =
                     IF i <= Len(log) THEN log[i] ELSE s[i - Len(log)]
    BY <1>5, <1>6, ConcatProperties
  <2> QED BY <2>1, <2>2
<1>8. DOMAIN log' = 1 .. Len(log) + Len(batch)
  BY <1>5, <1>7, LenProperties
<1>9. ASSUME NEW n \in 1 .. Len(log) PROVE log'[n] = log[n]
  <2>1. n \in 1 .. Len(log) + Len(s) /\ n <= Len(log) BY <1>1, <1>5, <1>6
  <2> QED BY <1>7, <2>1
<1>10. ASSUME NEW n \in 1 .. Len(batch) PROVE log'[Len(log) + n] = s[n]
  <2>1. Len(log) + n \in 1 .. Len(log) + Len(s) /\ ~(Len(log) + n <= Len(log))
        /\ (Len(log) + n) - Len(log) = n
    BY <1>1, <1>5, <1>6
  <2> QED BY <1>7, <2>1
<1>11. LogIsSeq'
  <2>1. PICK k : k = Len(log) + Len(batch) OBVIOUS
  <2>2. log' \in [1 .. k -> RangeOf(log')]
    BY <1>5, <1>7, <1>8, <2>1, LenProperties DEF RangeOf
  <2>3. k \in Nat BY <1>1, <1>6, <2>1
  <2>4. log' \in Seq(RangeOf(log'))
    BY <2>2, <2>3, FunctionIsSeq
  <2> QED BY <2>4 DEF LogIsSeq, RangeOf
<1>12. ASSUME NEW n \in 1 .. Len(batch) PROVE InputOf(s[n]) = batch[n]
  <2>1. batch[n] = InputOf(batch[n]) BY DEF IsBatch
  <2>2. InputOf(s[n]) = InputOf(batch[n]) BY <1>3 DEF InputOf
  <2> QED BY <2>1, <2>2
<1> QED BY <1>1, <1>3, <1>5, <1>6, <1>7, <1>8, <1>9, <1>10, <1>11, <1>12

-----------------------------------------------------------------------------
(* Acknowledgements. *)

(* A batch that was acknowledged is in the log, newly appended or found    *)
(* there as a replay.                                                      *)
LEMMA BatchIsStored ==
  ASSUME LogIsSeq, NEW batch, IsBatch(batch), AppendBatch(batch)
  PROVE  LogIsSeq' /\ AckedIsStored'
<1>1. CASE IsReplay(batch) /\ UNCHANGED log
  BY <1>1 DEF AppendBatch, IsReplay, AckedIsStored, Matches, LogIsSeq
<1>2. CASE log' = log \o Numbered(batch)
  <2>1. /\ LogIsSeq' /\ Len(log) \in Nat /\ Len(batch) \in Nat
        /\ DOMAIN log' = 1 .. Len(log) + Len(batch)
        /\ \A n \in 1 .. Len(batch) : InputOf(log'[Len(log) + n]) = batch[n]
    BY <1>2, LogGrows
  <2>2. ASSUME NEW n \in 1 .. Len(batch) PROVE Matches(batch[n])'
    <3>1. Len(log) + n \in DOMAIN log' BY <2>1
    <3>2. log'[Len(log) + n] \in RangeOf(log') BY <3>1 DEF RangeOf
    <3>3. InputOf(log'[Len(log) + n]) = batch[n] BY <2>1
    <3> QED BY <3>2, <3>3 DEF Matches, RangeOf, InputOf
  <2>3. DOMAIN batch = 1 .. Len(batch) BY LenProperties DEF IsBatch
  <2>4. acked' = RangeOf(batch) BY DEF AppendBatch
  <2> QED BY <2>1, <2>2, <2>3, <2>4 DEF AckedIsStored, RangeOf
<1> QED BY <1>1, <1>2 DEF AppendBatch

(* The batch of AppendNote and Import.                                     *)
LEMMA NoteIsBatch ==
  ASSUME NEW id, NEW thread, NEW cause
  PROVE  IsBatch(<<Note(id, thread, cause)>>)
BY OneBatch, InputsAreInputs DEF Note

(* The batch of AppendBatchWithReceipt.                                    *)
LEMMA NotesAreBatch ==
  ASSUME NEW i, NEW j, NEW s, NEW t, NEW c
  PROVE  IsBatch(<<Note(i, s, c), Note(j, t, c)>>)
BY TwoBatch, InputsAreInputs DEF Note

(* The batches that settle an invocation.                                  *)
LEMMA OutcomeIsBatch ==
  ASSUME NEW w, NEW thread, NEW kind, NEW from, NEW to, NEW cause
  PROVE  IsBatch(OutcomeBatch(w, thread, kind, from, to, cause))
BY TwoBatch, InputsAreInputs DEF OutcomeBatch

(* The batches of Propose and Advance.                                     *)
LEMMA InputIsBatch ==
  ASSUME NEW id, NEW thread, NEW kind, NEW from, NEW to, NEW cause
  PROVE  IsBatch(<<Input(id, thread, kind, from, to, cause)>>)
BY OneBatch, InputsAreInputs

(* The batch of an outcome that is not known.                              *)
LEMMA InputsAreBatch ==
  ASSUME NEW id, NEW thread, NEW kind, NEW from, NEW to, NEW cause,
         NEW id2, NEW thread2, NEW kind2, NEW from2, NEW to2, NEW cause2
  PROVE  IsBatch(<<Input(id, thread, kind, from, to, cause),
                   Input(id2, thread2, kind2, from2, to2, cause2)>>)
BY TwoBatch, InputsAreInputs

(* The id of the event that proposes the invocation.                       *)
Proposal == <<"runner", "proposal">>

(* e is the result item that goes with the state.                          *)
ResultOf(e, state) == e.kind = "item" /\ e.from = "result" /\ e.to = Polarity(state)

(* What a batch may do to an invocation in state s: reach no invalid       *)
(* state, leave "absent" by the proposal only and enter a terminal state   *)
(* with a result of its polarity in front.                                 *)
MayReach(s, batch, k, state) ==
  /\ state # "invalid"
  /\ state # "absent" => s # "absent" \/ batch[1].id = Proposal
  /\ state \in InvTerminal => state = s \/ \E m \in 1 .. k : ResultOf(batch[m], state)

(* Every event of the batch leads to a state it may reach.                 *)
Tellable(s, batch) ==
  /\ Len(batch) \in {1, 2}
  /\ MayReach(s, batch, 1, NextState(s, batch[1]))
  /\ Len(batch) = 2 => MayReach(s, batch, 2, NextState(NextState(s, batch[1]), batch[2]))

(* An invocation with a state has been proposed.                           *)
Proposed == InvocationState # "absent" => Has(Proposal)

(* What the log tells of the invocation.                                   *)
StoryInv == HistoryReplays /\ Proposed /\ PrefixSafe

(* An ordinary event changes no invocation.                                *)
LEMMA NoteTellable ==
  ASSUME NEW s, s # "invalid", NEW id, NEW thread, NEW cause
  PROVE  Tellable(s, <<Note(id, thread, cause)>>)
BY DEF Tellable, MayReach, Note, Input, NextState

(* Neither do two.                                                         *)
LEMMA NotesTellable ==
  ASSUME NEW s, s # "invalid", NEW i, NEW j, NEW t, NEW u, NEW c
  PROVE  Tellable(s, <<Note(i, t, c), Note(j, u, c)>>)
BY DEF Tellable, MayReach, Note, Input, NextState

(* The proposal starts an invocation.                                      *)
LEMMA ProposalTellable ==
  ASSUME NEW thread, NEW from, NEW to, NEW cause
  PROVE  Tellable("absent", <<Input(Proposal, thread, "tool/proposed", from, to, cause)>>)
BY DEF Tellable, MayReach, Input, NextState, InvTerminal

(* can_transition_to allows the step.                                      *)
LEMMA AdvanceTellable ==
  ASSUME NEW from \in PreExecution \cup {"started"}, NEW to \in PreExecution \cup {"started", "unknown"},
         CanTransitionInvocation(from, to), NEW id, NEW thread, NEW cause
  PROVE  Tellable(from, <<Input(id, thread, "tool/state_changed", from, to, cause)>>)
BY DEF Tellable, MayReach, Input, NextState, InvTerminal, PreExecution

(* The step to unknown comes with an error result.                         *)
LEMMA UnknownTellable ==
  ASSUME NEW i, NEW j, NEW t, NEW u, NEW c
  PROVE  Tellable("started", <<Input(i, t, "tool/state_changed", "started", "unknown", c),
                                Input(j, u, "item", "result", "error", c)>>)
BY DEF Tellable, MayReach, Input, NextState, InvTerminal, CanTransitionInvocation

(* An outcome comes behind the result of its polarity.                     *)
LEMMA OutcomeTellable ==
  ASSUME NEW w, NEW thread, NEW cause, NEW to \in InvTerminal, NEW from, NEW kind,
         \/ /\ kind = "tool/state_changed" /\ CanTransitionInvocation(from, to)
            /\ from \in PreExecution \cup {"started"}
         \/ kind = "tool/reconciled" /\ CanReconcileInvocation(from, to)
  PROVE  Tellable(from, OutcomeBatch(w, thread, kind, from, to, cause))
<1> DEFINE batch == OutcomeBatch(w, thread, kind, from, to, cause)
<1>1. /\ Len(batch) = 2 /\ batch[1].kind = "item" /\ ResultOf(batch[1], to)
      /\ batch[2].kind = kind /\ batch[2].from = from /\ batch[2].to = to
  BY DEF OutcomeBatch, Input, ResultOf
<1> HIDE DEF batch
<1>2. NextState(from, batch[1]) = from BY <1>1 DEF NextState
<1>3. NextState(from, batch[2]) = to BY <1>1 DEF NextState
<1>4. from \notin InvTerminal \cup {"absent", "invalid"} /\ to # "invalid" /\ to # "absent"
  BY DEF PreExecution, InvTerminal, CanReconcileInvocation
<1>5. MayReach(from, batch, 1, from) BY <1>4 DEF MayReach
<1>6. MayReach(from, batch, 2, to) BY <1>1, <1>4 DEF MayReach
<1> QED BY <1>1, <1>2, <1>3, <1>5, <1>6 DEF Tellable, batch

-----------------------------------------------------------------------------
(* The operations of the runtime, which append one batch each.             *)
RuntimeOp ==
  \/ AppendNote \/ Propose \/ Advance
  \/ \E w \in Writers : \/ AppendInvocationOutcome(w) \/ AppendInvocationUnknown(w)
                        \/ AppendInvocationUnknownOutcome(w)
                        \/ AppendInvocationReconciliation(w)

(* No command has caused the batch.                                        *)
IsRuntime(batch) == \A n \in 1 .. Len(batch) : batch[n].cause = "runtime"

(* The batch is appended, and tellable unless it is a replay.              *)
RuntimeBatch(batch) ==
  /\ IsBatch(batch) /\ IsRuntime(batch) /\ AppendBatch(batch) /\ UNCHANGED receipts
  /\ IsNew(batch) => Tellable(InvocationState, batch)

(* A new batch has been checked against the state the log tells            *)
(* (check_invocation_transition runs in the transaction).                  *)
LEMMA CheckedState ==
  ASSUME NEW batch, NEW from, NEW to, Checked(batch, from, to), IsNew(batch),
         IsBatch(batch), Len(batch) \in {1, 2}
  PROVE  InvocationState = from
<1>1. batch[1] \in RangeOf(batch) BY LenProperties DEF RangeOf, IsBatch
<1>2. ~ \A e \in RangeOf(batch) : Has(e.id) BY <1>1 DEF IsNew
<1> QED BY <1>2 DEF Checked

(* Every operation of the runtime appends such a batch.                    *)
LEMMA RuntimeAppends ==
  ASSUME StoryInv, RuntimeOp
  PROVE  \E batch : RuntimeBatch(batch)
<1> USE DEF RuntimeBatch, IsRuntime
<1>1. ASSUME AppendNote PROVE \E batch : RuntimeBatch(batch)
  <2>1. PICK id, t : AppendBatch(<<Note(id, t, "runtime")>>) BY <1>1 DEF AppendNote
  <2> DEFINE batch == <<Note(id, t, "runtime")>>
  <2>2. IsRuntime(batch) BY DEF Note, Input
  <2>3. Tellable(InvocationState, batch) BY NoteTellable DEF StoryInv, HistoryReplays
  <2>4. IsBatch(batch) BY NoteIsBatch
  <2> HIDE DEF batch
  <2> QED BY <1>1, <2>1, <2>2, <2>3, <2>4 DEF AppendNote, batch
<1>2. ASSUME Propose PROVE \E batch : RuntimeBatch(batch)
  <2> DEFINE batch == <<Input(Proposal, Home, "tool/proposed", "none", "none", "runtime")>>
  <2>1. AppendBatch(batch) /\ UNCHANGED receipts BY <1>2 DEF Propose, Proposal
  <2>2. IsRuntime(batch) BY DEF Input
  <2>3. IsBatch(batch) BY InputIsBatch
  <2>4. ASSUME IsNew(batch) PROVE Tellable(InvocationState, batch)
    <3>1. batch[1] \in RangeOf(batch) /\ batch[1].id = Proposal BY DEF RangeOf, Input
    <3>2. ~Has(Proposal) BY <2>4, <3>1 DEF IsNew
    <3>3. InvocationState = "absent" BY <3>2 DEF StoryInv, Proposed
    <3> QED BY <3>3, ProposalTellable
  <2> HIDE DEF batch
  <2> QED BY <2>1, <2>2, <2>3, <2>4
<1>3. ASSUME Advance PROVE \E batch : RuntimeBatch(batch)
  <2>1. PICK from \in PreExecution \cup {"started"}, to \in PreExecution \cup {"started"} :
           /\ InvocationState = from /\ CanTransitionInvocation(from, to)
           /\ AppendBatch(<<Step(from, to)>>)
    BY <1>3 DEF Advance
  <2> DEFINE batch == <<Step(from, to)>>
  <2>2. IsRuntime(batch) BY DEF Step, Input
  <2>3. IsBatch(batch) BY InputIsBatch DEF Step
  <2>4. Tellable(InvocationState, batch) BY <2>1, AdvanceTellable DEF Step
  <2> HIDE DEF batch
  <2> QED BY <1>3, <2>1, <2>2, <2>3, <2>4 DEF Advance, batch
<1>4. ASSUME NEW w \in Writers, AppendInvocationOutcome(w) PROVE \E batch : RuntimeBatch(batch)
  <2>1. PICK t \in Threads, from \in PreExecution \cup {"started"}, to \in InvTerminal :
          LET batch == OutcomeBatch(w, t, "tool/state_changed", from, to, "runtime")
          IN /\ CanTransitionInvocation(from, to)
             /\ Checked(batch, from, to) /\ AppendBatch(batch)
    BY <1>4 DEF AppendInvocationOutcome
  <2> DEFINE batch == OutcomeBatch(w, t, "tool/state_changed", from, to, "runtime")
  <2>2. IsRuntime(batch) /\ Len(batch) = 2 BY DEF OutcomeBatch, Input
  <2>3. IsBatch(batch) BY OutcomeIsBatch
  <2>4. Tellable(from, batch) BY <2>1, OutcomeTellable
  <2>5. Checked(batch, from, to) /\ AppendBatch(batch) BY <2>1
  <2> HIDE DEF batch
  <2>6. IsNew(batch) => InvocationState = from BY <2>2, <2>3, <2>5, CheckedState
  <2> QED BY <1>4, <2>2, <2>3, <2>4, <2>5, <2>6 DEF AppendInvocationOutcome
<1>5. ASSUME NEW w \in Writers, AppendInvocationReconciliation(w)
      PROVE \E batch : RuntimeBatch(batch)
  <2>1. PICK t \in Threads, to \in {"completed", "failed"} :
          LET batch == OutcomeBatch(w, t, "tool/reconciled", "unknown", to, "runtime")
          IN Checked(batch, "unknown", to) /\ AppendBatch(batch)
    BY <1>5 DEF AppendInvocationReconciliation
  <2> DEFINE batch == OutcomeBatch(w, t, "tool/reconciled", "unknown", to, "runtime")
  <2>2. IsRuntime(batch) /\ Len(batch) = 2 BY DEF OutcomeBatch, Input
  <2>3. IsBatch(batch) BY OutcomeIsBatch
  <2>4. Tellable("unknown", batch)
    BY OutcomeTellable, to \in InvTerminal DEF CanReconcileInvocation, InvTerminal
  <2>5. Checked(batch, "unknown", to) /\ AppendBatch(batch) BY <2>1
  <2> HIDE DEF batch
  <2>6. IsNew(batch) => InvocationState = "unknown" BY <2>2, <2>3, <2>5, CheckedState
  <2> QED BY <1>5, <2>2, <2>3, <2>4, <2>5, <2>6 DEF AppendInvocationReconciliation
<1>6. ASSUME NEW w \in Writers, AppendInvocationUnknown(w)
      PROVE \E batch : RuntimeBatch(batch)
  <2>1. PICK t \in Threads :
          LET batch == << Input(<<w, "unknown">>, t, "tool/state_changed",
                             "started", "unknown", "runtime") >>
          IN Checked(batch, "started", "unknown") /\ AppendBatch(batch)
    BY <1>6 DEF AppendInvocationUnknown
  <2> DEFINE batch == << Input(<<w, "unknown">>, t, "tool/state_changed",
                             "started", "unknown", "runtime") >>
  <2>2. IsRuntime(batch) /\ Len(batch) = 1 BY DEF Input
  <2>3. IsBatch(batch) BY InputIsBatch
  <2>4. Tellable("started", batch)
    BY AdvanceTellable, CanTransitionInvocation("started", "unknown")
       DEF CanTransitionInvocation
  <2>5. Checked(batch, "started", "unknown") /\ AppendBatch(batch) BY <2>1
  <2> HIDE DEF batch
  <2>6. IsNew(batch) => InvocationState = "started" BY <2>2, <2>3, <2>5, CheckedState
  <2> QED BY <1>6, <2>2, <2>3, <2>4, <2>5, <2>6 DEF AppendInvocationUnknown
<1>7. ASSUME NEW w \in Writers, AppendInvocationUnknownOutcome(w)
      PROVE \E batch : RuntimeBatch(batch)
  <2>1. PICK t \in Threads :
          LET batch == << Input(<<w, "unknown">>, t, "tool/state_changed",
                             "started", "unknown", "runtime"),
                       Input(<<w, "diagnostic">>, t, "item", "result",
                             "error", "runtime") >>
          IN Checked(batch, "started", "unknown") /\ AppendBatch(batch)
    BY <1>7 DEF AppendInvocationUnknownOutcome
  <2> DEFINE batch == << Input(<<w, "unknown">>, t, "tool/state_changed",
                             "started", "unknown", "runtime"),
                       Input(<<w, "diagnostic">>, t, "item", "result",
                             "error", "runtime") >>
  <2>2. IsRuntime(batch) /\ Len(batch) = 2 BY DEF Input
  <2>3. IsBatch(batch) BY InputsAreBatch
  <2>4. Tellable("started", batch) BY UnknownTellable
  <2>5. Checked(batch, "started", "unknown") /\ AppendBatch(batch) BY <2>1
  <2> HIDE DEF batch
  <2>6. IsNew(batch) => InvocationState = "started" BY <2>2, <2>3, <2>5, CheckedState
  <2> QED BY <1>7, <2>2, <2>3, <2>4, <2>5, <2>6 DEF AppendInvocationUnknownOutcome
<1> QED BY <1>1, <1>2, <1>3, <1>4, <1>5, <1>6, <1>7 DEF RuntimeOp

-----------------------------------------------------------------------------
(* The history grows with the log.                                         *)

(* As HistoryTells, after the step.                                        *)
LEMMA HistoryTellsNext ==
  ASSUME Len(log') \in Nat PROVE Tells(History', log', Len(log'))
<1>1. \E h : Tells(h, log', Len(log')) BY StoryExists
<1>2. \E h : h = [n \in 0 .. Len(log') |-> IF n = 0 THEN "absent" ELSE NextState(h[n - 1], log'[n])]
  BY <1>1 DEF Tells
<1>3. History' = [n \in 0 .. Len(log') |-> IF n = 0 THEN "absent" ELSE NextState(History'[n - 1], log'[n])]
  BY <1>2, Zenon DEF History
<1> QED BY <1>3 DEF Tells

(* The history of a longer log continues the history of the log.           *)
LEMMA HistoryGrows ==
  ASSUME LogIsSeq, NEW batch, IsBatch(batch), log' = log \o Numbered(batch)
  PROVE  /\ \A n \in 0 .. Len(log) : History'[n] = History[n]
         /\ \A n \in 1 .. Len(batch) :
              History'[Len(log) + n] = NextState(History'[Len(log) + n - 1], batch[n])
<1>1. /\ Len(log) \in Nat /\ Len(batch) \in Nat /\ Len(log') = Len(log) + Len(batch)
      /\ \A n \in 1 .. Len(log) : log'[n] = log[n]
  BY LogGrows
<1>2. Tells(History, log, Len(log)) BY <1>1, HistoryTells
<1>3. Tells(History', log', Len(log')) BY <1>1, HistoryTellsNext
<1>4. ASSUME NEW n \in 0 .. Len(log) PROVE History'[n] = History[n]
  <2>1. Len(log) <= Len(log') /\ Len(log') \in Nat /\ \A i \in 1 .. Len(log) : log[i] = log'[i]
    BY <1>1
  <2>2. PICK g, h, k, l, M : g = History /\ h = History' /\ k = log /\ l = log' /\ M = Len(log')
    OBVIOUS
  <2>3. PICK K : K = Len(log) OBVIOUS
  <2>4. /\ K \in Nat /\ M \in Nat /\ K <= M /\ Tells(g, k, K) /\ Tells(h, l, M)
        /\ (\A i \in 1 .. K : k[i] = l[i]) /\ n \in 0 .. K
    BY <1>1, <1>2, <1>3, <2>1, <2>2, <2>3
  <2>5. g[n] = h[n] BY <2>4, OneStory
  <2> QED BY <2>2, <2>5
<1>5. ASSUME NEW n \in 1 .. Len(batch)
      PROVE  History'[Len(log) + n] = NextState(History'[Len(log) + n - 1], batch[n])
  <2>1. Len(log) + n \in 0 .. Len(log') /\ Len(log) + n # 0 BY <1>1
  <2>2. History'[Len(log) + n] = NextState(History'[Len(log) + n - 1], log'[Len(log) + n])
    BY <1>3, <2>1 DEF Tells
  <2>3. /\ log'[Len(log) + n].kind = batch[n].kind
        /\ log'[Len(log) + n].from = batch[n].from
        /\ log'[Len(log) + n].to = batch[n].to
    BY LogGrows
  <2> QED BY <2>2, <2>3 DEF NextState
<1> QED BY <1>4, <1>5

(* A tellable batch keeps what the log tells.                              *)
LEMMA StoryGrows ==
  ASSUME LogIsSeq, StoryInv, NEW batch, IsBatch(batch), log' = log \o Numbered(batch),
         Tellable(InvocationState, batch)
  PROVE  StoryInv'
<1> DEFINE N == Len(log)
           s == InvocationState
<1>1. /\ N \in Nat /\ Len(batch) \in {1, 2} /\ Len(log') = N + Len(batch)
      /\ DOMAIN log = 1 .. N /\ DOMAIN log' = 1 .. N + Len(batch)
      /\ \A n \in 1 .. N : log'[n] = log[n]
      /\ \A n \in 1 .. Len(batch) : /\ log'[N + n].id = batch[n].id
                                    /\ log'[N + n].kind = batch[n].kind
                                    /\ log'[N + n].from = batch[n].from
                                    /\ log'[N + n].to = batch[n].to
  BY LogGrows DEF Tellable
<1>2. /\ \A n \in 0 .. N : History'[n] = History[n]
      /\ \A n \in 1 .. Len(batch) : History'[N + n] = NextState(History'[N + n - 1], batch[n])
  BY HistoryGrows
<1>3. History'[N] = s BY <1>1, <1>2 DEF InvocationState
<1>4. History'[N + 1] = NextState(s, batch[1])
  BY <1>1, <1>2, <1>3
<1>5. Len(batch) = 2 => History'[N + 2] = NextState(NextState(s, batch[1]), batch[2])
  <2>1. SUFFICES ASSUME Len(batch) = 2
                 PROVE  History'[N + 2] = NextState(NextState(s, batch[1]), batch[2])
    OBVIOUS
  <2>2. N + 2 - 1 = N + 1 BY <1>1
  <2> QED BY <1>2, <1>4, <2>1, <2>2
<1>6. ASSUME NEW n \in 1 .. Len(batch) PROVE MayReach(s, batch, n, History'[N + n])
  <2>1. CASE n = 1 BY <1>4, <2>1 DEF Tellable
  <2>2. CASE n = 2
    <3>1. Len(batch) = 2 BY <1>1, <2>2
    <3> QED BY <1>5, <2>2, <3>1 DEF Tellable
  <2>3. n = 1 \/ n = 2
    <3>1. Len(batch) = 1 \/ Len(batch) = 2 BY <1>1
    <3>2. n \in 1 .. Len(batch) OBVIOUS
    <3>3. \A i \in 1 .. 1 : i = 1 OBVIOUS
    <3>4. \A i \in 1 .. 2 : i = 1 \/ i = 2 OBVIOUS
    <3> QED BY <3>1, <3>2, <3>3, <3>4
  <2> QED BY <2>1, <2>2, <2>3
<1>7. InvocationState' = History'[N + Len(batch)] BY <1>1 DEF InvocationState
<1> HIDE DEF s
<1>8. HistoryReplays'
  <2>1. Len(batch) \in 1 .. Len(batch) BY <1>1, SMTT(30)
  <2>2. History'[N + Len(batch)] # "invalid" BY <1>6, <2>1 DEF MayReach
  <2> QED BY <1>7, <2>2 DEF HistoryReplays
<1>9. Proposed'
  <2>1. SUFFICES ASSUME InvocationState' # "absent" PROVE Has(Proposal)'
    BY DEF Proposed
  <2>2. s # "absent" \/ batch[1].id = Proposal
    BY <1>1, <1>6, <1>7, <2>1 DEF MayReach
  <2>3. CASE s # "absent"
    <3>1. Has(Proposal) BY <2>3 DEF StoryInv, Proposed, s
    <3>2. PICK n \in 1 .. N : log[n].id = Proposal BY <1>1, <3>1 DEF Has, RangeOf
    <3>3. n \in DOMAIN log' /\ log'[n].id = Proposal BY <1>1, <3>2
    <3> QED BY <3>3 DEF Has, RangeOf
  <2>4. CASE batch[1].id = Proposal
    <3>1. N + 1 \in DOMAIN log' /\ log'[N + 1].id = Proposal BY <1>1, <2>4
    <3> QED BY <3>1 DEF Has, RangeOf
  <2> QED BY <2>2, <2>3, <2>4
<1>10. PrefixSafe'
  <2> DEFINE h == History'
  <2>1. SUFFICES ASSUME NEW n \in DOMAIN log', History'[n] \in InvTerminal
                 PROVE  \E m \in 1 .. n : ResultOf(log'[m], History'[n])
    BY DEF PrefixSafe, ResultOf
  <2>0. ASSUME NEW i \in 1 .. N, History[i] \in InvTerminal
        PROVE  \E m \in 1 .. i : ResultOf(log'[m], History[i])
    <3>1. PICK m \in 1 .. i : ResultOf(log[m], History[i])
      BY <1>1, <2>0 DEF StoryInv, PrefixSafe, ResultOf
    <3>2. m \in 1 .. N BY <1>1
    <3> QED BY <1>1, <3>1, <3>2
  <2>2. CASE n \in 1 .. N
    <3>1. History'[n] = History[n] BY <1>1, <1>2, <2>2
    <3> QED BY <2>0, <2>1, <2>2, <3>1
  <2>3. CASE n \notin 1 .. N
    <3>1. PICK k \in 1 .. Len(batch) : n = N + k
      <4>1. n - N \in 1 .. Len(batch) /\ n = N + (n - N) BY <1>1, <2>3
      <4> QED BY <4>1
    <3>2. \/ History'[n] = s
          \/ \E m \in 1 .. k : ResultOf(batch[m], History'[n])
      BY <1>6, <2>1, <3>1 DEF MayReach
    <3>3. CASE History'[n] = s
      <4>1. N # 0
        <5>1. SUFFICES ASSUME N = 0 PROVE FALSE OBVIOUS
        <5>2. Tells(History, log, 0) BY <1>1, <5>1, HistoryTells
        <5>3. History[0] = "absent" BY <5>2 DEF Tells
        <5>4. s = "absent" BY <5>1, <5>3 DEF s, InvocationState
        <5> QED BY <2>1, <3>3, <5>4 DEF InvTerminal
      <4>2. s = History[N] BY DEF s, InvocationState
      <4>3. PICK m \in 1 .. N : ResultOf(log'[m], s)
        BY <1>1, <2>0, <2>1, <3>3, <4>1, <4>2
      <4>4. m \in 1 .. n BY <1>1, <3>1
      <4> QED BY <3>3, <4>3, <4>4
    <3>4. CASE \E m \in 1 .. k : ResultOf(batch[m], History'[n])
      <4>1. PICK m \in 1 .. k : ResultOf(batch[m], History'[n]) BY <3>4
      <4>2. N + m \in 1 .. n /\ m \in 1 .. Len(batch) BY <1>1, <3>1
      <4>3. ResultOf(log'[N + m], History'[n]) BY <1>1, <4>1, <4>2 DEF ResultOf
      <4> QED BY <4>2, <4>3
    <3> QED BY <3>2, <3>3, <3>4
  <2> QED BY <2>2, <2>3
<1> QED BY <1>8, <1>9, <1>10 DEF StoryInv

(* An unchanged log tells the same.                                        *)
LEMMA StoryStays ==
  ASSUME StoryInv, log' = log PROVE StoryInv'
<1>1. History' = History BY DEF History
<1>2. InvocationState' = InvocationState BY <1>1 DEF InvocationState
<1>3. HistoryReplays' BY <1>2 DEF StoryInv, HistoryReplays
<1>4. Proposed' BY <1>2 DEF StoryInv, Proposed, Has
<1>5. PrefixSafe' BY <1>1 DEF StoryInv, PrefixSafe
<1> QED BY <1>3, <1>4, <1>5 DEF StoryInv

-----------------------------------------------------------------------------
(* Commands.                                                               *)

(* The places of the events of a command in the log.                       *)
Caused(c) == {n \in DOMAIN log : log[n].cause = c}

(* The events of a command come with its receipt, and from one attempt.    *)
Effects(c) == /\ Caused(c) # {} => receipts[c] # NoReceipt
              /\ \E k \in Nat : Caused(c) \subseteq k .. k + 1

(* What a caller was told is what the receipt says.                        *)
Answers == \A c \in Commands : \A a \in answered :
             a[1] = c => receipts[c] = [digest |-> a[2], response |-> a[3]]

(* What is kept of the commands.                                           *)
CommandInv == ReceiptTypes /\ (\A c \in Commands : Effects(c)) /\ Answers

(* The inductive invariant of Ledger.                                      *)
LedgerInv == LogIsSeq /\ AckedIsStored /\ StoryInv /\ CommandInv

(* The operations on behalf of a command.                                  *)
CommandOp(c, d) ==
  \/ ReplayCommand(c, d) \/ AppendBatchWithReceipt(c, d) \/ RecordCommandReceipt(c, d)
  \/ \E w \in Writers : AppendReconciliationWithReceipt(w, c, d)

(* A batch of other causes adds no event of c.                             *)
LEMMA CausedGrows ==
  ASSUME LogIsSeq, NEW batch, IsBatch(batch), log' = log \o Numbered(batch), NEW c,
         \A n \in 1 .. Len(batch) : batch[n].cause # c
  PROVE  Caused(c)' = Caused(c)
<1>1. /\ Len(log) \in Nat /\ Len(batch) \in Nat /\ DOMAIN log = 1 .. Len(log)
      /\ DOMAIN log' = 1 .. Len(log) + Len(batch)
      /\ \A n \in 1 .. Len(log) : log'[n] = log[n]
      /\ \A n \in 1 .. Len(batch) : log'[Len(log) + n].cause = batch[n].cause
  BY LogGrows
<1>2. ASSUME NEW n \in DOMAIN log' PROVE log'[n].cause = c <=> (n \in DOMAIN log /\ log[n].cause = c)
  <2>1. CASE n \in 1 .. Len(log) BY <1>1, <2>1
  <2>2. CASE n \notin 1 .. Len(log)
    <3>1. n - Len(log) \in 1 .. Len(batch) /\ Len(log) + (n - Len(log)) = n BY <1>1, <2>2
    <3>2. log'[n].cause = batch[n - Len(log)].cause BY <1>1, <3>1
    <3> QED BY <1>1, <2>2, <3>1, <3>2
  <2> QED BY <2>1, <2>2
<1>3. \A n \in DOMAIN log : n \in DOMAIN log' BY <1>1
<1> QED BY <1>2, <1>3 DEF Caused

(* The first batch of a command is next to each other.                     *)
LEMMA CausedByCommand ==
  ASSUME LogIsSeq, NEW batch, IsBatch(batch), log' = log \o Numbered(batch), NEW c,
         Len(batch) = 2, Caused(c) = {}
  PROVE  Caused(c)' \subseteq Len(log) + 1 .. Len(log) + 1 + 1
<1>1. /\ Len(log) \in Nat /\ DOMAIN log = 1 .. Len(log) /\ DOMAIN log' = 1 .. Len(log) + 2
      /\ \A n \in 1 .. Len(log) : log'[n] = log[n]
  BY LogGrows
<1>2. ASSUME NEW n \in 1 .. Len(log) PROVE log'[n].cause # c
  BY <1>1 DEF Caused
<1>3. ASSUME NEW n \in DOMAIN log', log'[n].cause = c PROVE n \in Len(log) + 1 .. Len(log) + 1 + 1
  BY <1>1, <1>2, <1>3
<1> QED BY <1>3 DEF Caused

(* A batch no command has caused keeps what is known of commands.          *)
LEMMA ForeignBatch ==
  ASSUME LogIsSeq, CommandInv, NEW batch, IsBatch(batch),
         log' = log \/ log' = log \o Numbered(batch),
         \A n \in 1 .. Len(batch) : batch[n].cause \notin Commands,
         UNCHANGED receipts, answered' = {}
  PROVE  CommandInv'
<1>1. ASSUME NEW c \in Commands PROVE Caused(c)' = Caused(c)
  <2>1. CASE log' = log BY <2>1 DEF Caused
  <2>2. CASE log' = log \o Numbered(batch) BY <2>2, CausedGrows
  <2> QED BY <2>1, <2>2
<1>2. ASSUME NEW c \in Commands PROVE Effects(c)'
  BY <1>1 DEF CommandInv, Effects
<1>3. ReceiptTypes' BY DEF CommandInv, ReceiptTypes
<1> QED BY <1>2, <1>3 DEF CommandInv, Answers

(* A command without a receipt has no events yet; it gets both at once.    *)
LEMMA ReceiptStored ==
  ASSUME LogIsSeq, CommandInv, NEW c \in Commands, NEW d \in Digests, ReceiptAvailable(c),
         \/ log' = log
         \/ \E batch : /\ IsBatch(batch) /\ Len(batch) = 2 /\ log' = log \o Numbered(batch)
                       /\ \A n \in 1 .. 2 : batch[n].cause = c,
         receipts' = [receipts EXCEPT ![c] = Receipt(d)],
         Answer(c, d, Receipt(d).response)
  PROVE  CommandInv'
<1>1. Len(log) \in Nat BY ALogIsASeq
<1>2. Receipt(d) \in [digest : Digests \cup {"none"}, response : Nat] /\ Receipt(d) # NoReceipt
      /\ Receipt(d) = [digest |-> d, response |-> Receipt(d).response]
  BY <1>1 DEF Receipt, NoReceipt
<1>3. ReceiptTypes' BY <1>2 DEF CommandInv, ReceiptTypes
<1>4. /\ receipts'[c] = Receipt(d)
      /\ \A e \in Commands : e # c => receipts'[e] = receipts[e]
  BY DEF CommandInv, ReceiptTypes
<1>5. Answers' BY <1>2, <1>4 DEF Answers, Answer
<1>6. Caused(c) = {} BY DEF CommandInv, Effects, ReceiptAvailable
<1>7. ASSUME NEW e \in Commands PROVE Effects(e)'
  <2>1. CASE log' = log
    <3>1. Caused(e)' = Caused(e) BY <2>1 DEF Caused
    <3> QED BY <1>2, <1>4, <3>1 DEF CommandInv, Effects
  <2>2. ASSUME NEW batch, IsBatch(batch), Len(batch) = 2, log' = log \o Numbered(batch),
               \A n \in 1 .. 2 : batch[n].cause = c
        PROVE  Effects(e)'
    <3>1. CASE e = c
      <4>1. Caused(c)' \subseteq Len(log) + 1 .. Len(log) + 1 + 1
        BY <1>6, <2>2, CausedByCommand
      <4>2. Len(log) + 1 \in Nat BY <1>1
      <4>3. \E k \in Nat : Caused(c)' \subseteq k .. k + 1 BY <4>1, <4>2
      <4> QED BY <1>2, <1>4, <3>1, <4>3 DEF Effects
    <3>2. CASE e # c
      <4>1. Caused(e)' = Caused(e) BY <2>2, <3>2, CausedGrows
      <4> QED BY <1>4, <3>2, <4>1 DEF CommandInv, Effects
    <3> QED BY <3>1, <3>2
  <2> QED BY <2>1, <2>2
<1> QED BY <1>3, <1>5, <1>7 DEF CommandInv

-----------------------------------------------------------------------------
(* Every step.                                                             *)

(* The operations of the runtime keep the invariant.                       *)
LEMMA RuntimeKeeps ==
  ASSUME LedgerConstants, LedgerInv, RuntimeOp PROVE LedgerInv'
<1>1. PICK batch : RuntimeBatch(batch) BY RuntimeAppends DEF LedgerInv
<1>2. LogIsSeq' /\ AckedIsStored' BY <1>1, BatchIsStored DEF RuntimeBatch, LedgerInv
<1>3. \/ log' = log
      \/ IsNew(batch) /\ log' = log \o Numbered(batch)
  BY <1>1 DEF RuntimeBatch, AppendBatch
<1>4. StoryInv'
  BY <1>1, <1>3, StoryGrows, StoryStays DEF RuntimeBatch, LedgerInv
<1>5. \A n \in 1 .. Len(batch) : batch[n].cause \notin Commands
  BY <1>1 DEF RuntimeBatch, IsRuntime, LedgerConstants
<1>6. UNCHANGED receipts /\ answered' = {}
  BY <1>1 DEF RuntimeBatch, AppendBatch
<1>7. CommandInv'
  BY <1>1, <1>3, <1>5, <1>6, ForeignBatch DEF RuntimeBatch, LedgerInv
<1> QED BY <1>2, <1>4, <1>7 DEF LedgerInv

(* The import of an older session keeps the invariant.                     *)
LEMMA ImportKeeps ==
  ASSUME LedgerConstants, LedgerInv, Import PROVE LedgerInv'
<1>1. PICK id, t : log' = log \o Numbered(<<Note(id, t, "imported")>>)
  BY DEF Import
<1> DEFINE batch == <<Note(id, t, "imported")>>
<1>2. IsBatch(batch) BY NoteIsBatch
<1>3. Tellable(InvocationState, batch) BY NoteTellable DEF LedgerInv, StoryInv, HistoryReplays
<1>4. \A n \in 1 .. Len(batch) : batch[n].cause \notin Commands
  BY DEF Note, Input, LedgerConstants
<1> HIDE DEF batch
<1>5. log' = log \o Numbered(batch) BY <1>1 DEF batch
<1>6. UNCHANGED receipts /\ answered' = {} /\ acked' = {} BY DEF Import
<1>7. LogIsSeq' BY <1>2, <1>5, LogGrows DEF LedgerInv
<1>8. StoryInv' BY <1>2, <1>3, <1>5, StoryGrows DEF LedgerInv
<1>9. CommandInv' BY <1>2, <1>4, <1>5, <1>6, ForeignBatch DEF LedgerInv
<1> QED BY <1>6, <1>7, <1>8, <1>9 DEF LedgerInv, AckedIsStored

(* The operations on behalf of a command keep the invariant.               *)
LEMMA CommandKeeps ==
  ASSUME LedgerInv, NEW c \in Commands, NEW d \in Digests, CommandOp(c, d) PROVE LedgerInv'
<1>1. CASE ReplayCommand(c, d)
  <2>1. /\ UNCHANGED <<log, receipts>> /\ acked' = {}
        /\ answered' = {<<c, d, receipts[c].response>>} /\ receipts[c].digest = d
    BY <1>1 DEF ReplayCommand, Answer
  <2>2. StoryInv' BY <2>1, StoryStays DEF LedgerInv
  <2>3. receipts[c] = [digest |-> d, response |-> receipts[c].response]
    BY <2>1 DEF LedgerInv, CommandInv, ReceiptTypes
  <2>4. Answers' BY <2>1, <2>3 DEF Answers
  <2>5. \A e \in Commands : Effects(e)'
    BY <2>1 DEF LedgerInv, CommandInv, Effects, Caused
  <2>6. ReceiptTypes' BY <2>1 DEF LedgerInv, CommandInv, ReceiptTypes
  <2>7. LogIsSeq' /\ AckedIsStored' BY <2>1 DEF LedgerInv, LogIsSeq, AckedIsStored
  <2> QED BY <2>2, <2>4, <2>5, <2>6, <2>7 DEF LedgerInv, CommandInv
<1>2. CASE RecordCommandReceipt(c, d)
  <2>1. /\ ReceiptAvailable(c) /\ receipts' = [receipts EXCEPT ![c] = Receipt(d)]
        /\ Answer(c, d, Receipt(d).response) /\ log' = log /\ acked' = {}
    BY <1>2 DEF RecordCommandReceipt, Answer
  <2>2. CommandInv' BY <2>1, ReceiptStored DEF LedgerInv
  <2>3. StoryInv' BY <2>1, StoryStays DEF LedgerInv
  <2>4. LogIsSeq' /\ AckedIsStored' BY <2>1 DEF LedgerInv, LogIsSeq, AckedIsStored
  <2> QED BY <2>2, <2>3, <2>4 DEF LedgerInv
<1>3. ASSUME ReceiptAvailable(c), receipts' = [receipts EXCEPT ![c] = Receipt(d)],
             Answer(c, d, Receipt(d).response),
             NEW batch, IsBatch(batch), Len(batch) = 2, log' = log \o Numbered(batch),
             \A n \in 1 .. 2 : batch[n].cause = c, Tellable(InvocationState, batch)
      PROVE  LedgerInv'
  <2>1. CommandInv' BY <1>3, ReceiptStored DEF LedgerInv
  <2>2. StoryInv' BY <1>3, StoryGrows DEF LedgerInv
  <2>3. LogIsSeq' BY <1>3, LogGrows DEF LedgerInv
  <2>4. AckedIsStored' BY <1>3 DEF Answer, AckedIsStored
  <2> QED BY <2>1, <2>2, <2>3, <2>4 DEF LedgerInv
<1>4. CASE AppendBatchWithReceipt(c, d)
  <2>1. PICK i, j, s, t : log' = log \o Numbered(<<Note(i, s, c), Note(j, t, c)>>)
    BY <1>4 DEF AppendBatchWithReceipt
  <2> DEFINE batch == <<Note(i, s, c), Note(j, t, c)>>
  <2>2. IsBatch(batch) BY NotesAreBatch
  <2>3. Len(batch) = 2 /\ \A n \in 1 .. 2 : batch[n].cause = c BY DEF Note, Input
  <2>4. Tellable(InvocationState, batch) BY NotesTellable DEF LedgerInv, StoryInv, HistoryReplays
  <2>5. log' = log \o Numbered(batch) BY <2>1
  <2> HIDE DEF batch
  <2> QED BY <1>3, <1>4, <2>2, <2>3, <2>4, <2>5 DEF AppendBatchWithReceipt
<1>5. ASSUME NEW w \in Writers, AppendReconciliationWithReceipt(w, c, d) PROVE LedgerInv'
  <2>0. /\ ReceiptAvailable(c) /\ receipts' = [receipts EXCEPT ![c] = Receipt(d)]
        /\ Answer(c, d, Receipt(d).response) /\ acked' = {}
    BY <1>5 DEF AppendReconciliationWithReceipt, Answer
  <2>1. PICK t \in Threads, to \in {"completed", "failed"} :
       LET batch == OutcomeBatch(w, t, "tool/reconciled", "unknown", to, c)
       IN /\ Checked(batch, "unknown", to)
          /\ \/ UNCHANGED log
             \/ IsNew(batch) /\ log' = log \o Numbered(batch)
    BY <1>5 DEF AppendReconciliationWithReceipt
  <2> DEFINE batch == OutcomeBatch(w, t, "tool/reconciled", "unknown", to, c)
  <2>2. IsBatch(batch) BY OutcomeIsBatch
  <2>3. Len(batch) = 2 /\ \A n \in 1 .. 2 : batch[n].cause = c BY DEF OutcomeBatch, Input
  <2>4. Tellable("unknown", batch)
    BY OutcomeTellable, to \in InvTerminal DEF CanReconcileInvocation, InvTerminal
  <2>5. /\ Checked(batch, "unknown", to)
        /\ \/ UNCHANGED log
           \/ IsNew(batch) /\ log' = log \o Numbered(batch)
    BY <2>1
  <2> HIDE DEF batch
  <2>6. IsNew(batch) => InvocationState = "unknown" BY <2>2, <2>3, <2>5, CheckedState
  <2>7. CASE UNCHANGED log
    <3>1. CommandInv' BY <2>0, <2>7, ReceiptStored DEF LedgerInv
    <3>2. StoryInv' BY <2>7, StoryStays DEF LedgerInv
    <3>3. LogIsSeq' /\ AckedIsStored' BY <2>0, <2>7 DEF LedgerInv, LogIsSeq, AckedIsStored
    <3> QED BY <3>1, <3>2, <3>3 DEF LedgerInv
  <2>8. CASE IsNew(batch) /\ log' = log \o Numbered(batch)
    BY <1>3, <2>0, <2>2, <2>3, <2>4, <2>6, <2>8
  <2> QED BY <2>5, <2>7, <2>8
<1> QED BY <1>1, <1>2, <1>4, <1>5 DEF CommandOp

(* The invariant of Ledger is inductive.                                   *)
LEMMA LedgerStep ==
  ASSUME LedgerConstants, LedgerInv, [Next]_vars PROVE LedgerInv'
<1>1. CASE UNCHANGED vars
  <2>1. UNCHANGED <<log, receipts, acked, answered>> BY <1>1 DEF vars
  <2>2. StoryInv' BY <2>1, StoryStays DEF LedgerInv
  <2>3. CommandInv' BY <2>1 DEF LedgerInv, CommandInv, Effects, Caused, Answers, ReceiptTypes
  <2>4. LogIsSeq' /\ AckedIsStored' BY <2>1 DEF LedgerInv, LogIsSeq, AckedIsStored, Matches
  <2> QED BY <2>2, <2>3, <2>4 DEF LedgerInv
<1>2. CASE RuntimeOp BY <1>2, RuntimeKeeps
<1>3. CASE Import BY <1>3, ImportKeeps
<1>4. ASSUME NEW c \in Commands, NEW d \in Digests, CommandOp(c, d) PROVE LedgerInv'
  BY <1>4, CommandKeeps
<1> QED BY <1>1, <1>2, <1>3, <1>4 DEF Next, RuntimeOp, CommandOp

(* It holds of an empty ledger.                                            *)
LEMMA LedgerStart == ASSUME Init PROVE LedgerInv
<1>1. log = << >> /\ Len(log) = 0 /\ DOMAIN log = {} BY DEF Init
<1>2. LogIsSeq BY <1>1 DEF LogIsSeq
<1>3. Tells(History, log, 0) BY <1>1, HistoryTells
<1>4. InvocationState = "absent" BY <1>1, <1>3 DEF InvocationState, Tells
<1>5. StoryInv BY <1>1, <1>4 DEF StoryInv, HistoryReplays, Proposed, PrefixSafe
<1>6. AckedIsStored BY DEF Init, AckedIsStored
<1>7. ASSUME NEW c \in Commands PROVE Effects(c)
  <2>1. Caused(c) = {} BY <1>1 DEF Caused
  <2>2. Caused(c) \subseteq 0 .. 0 + 1 BY <2>1
  <2> QED BY <2>1, <2>2 DEF Effects
<1>8. ReceiptTypes BY DEF Init, ReceiptTypes, NoReceipt
<1>9. Answers BY DEF Init, Answers
<1> QED BY <1>2, <1>5, <1>6, <1>7, <1>8, <1>9 DEF LedgerInv, CommandInv

(* It bounds the events of a command: they lie in an interval of two.      *)
LEMMA AppliedOnce ==
  ASSUME LedgerInv PROVE CommandAppliedOnce
<1>1. ASSUME NEW c \in Commands
      PROVE  /\ Caused(c) # {} => receipts[c] # NoReceipt
             /\ Cardinality(Caused(c)) <= 2
             /\ \A a \in answered :
                  a[1] = c => receipts[c] = [digest |-> a[2], response |-> a[3]]
  <2>1. Effects(c) /\ Answers BY DEF LedgerInv, CommandInv
  <2>2. PICK k \in Nat : Caused(c) \subseteq k .. k + 1 BY <2>1 DEF Effects
  <2>3. IsFiniteSet(k .. k + 1) /\ Cardinality(k .. k + 1) = 2
    <3>1. k \in Int /\ k + 1 \in Int /\ k <= k + 1 /\ k + 1 - k + 1 = 2 OBVIOUS
    <3> QED BY <3>1, FS_Interval
  <2>4. IsFiniteSet(Caused(c)) /\ Cardinality(Caused(c)) <= 2
    BY <2>2, <2>3, FS_Subset
  <2> QED BY <2>1, <2>4 DEF Effects, Answers
<1> QED BY <1>1 DEF CommandAppliedOnce, Caused

(* LedgerInv is an invariant of Ledger.                                    *)
LEMMA LedgerInvariant == LedgerConstants => (Spec => []LedgerInv)
<1> SUFFICES ASSUME LedgerConstants PROVE Spec => []LedgerInv OBVIOUS
<1>1. Init => LedgerInv BY LedgerStart
<1>2. LedgerInv /\ [Next]_vars => LedgerInv' BY LedgerStep
<1> QED BY <1>1, <1>2, PTL DEF Spec

(* No history in the ledger makes the projection of an invocation fail,    *)
(* whatever callers retry, repeat or race (append_invocation_outcome and   *)
(* its siblings), for any number of threads, writers, commands and events. *)
THEOREM NoInvalidHistory == LedgerConstants => (Spec => []HistoryReplays)
<1>1. LedgerInv => HistoryReplays BY DEF LedgerInv, StoryInv
<1> QED BY <1>1, LedgerInvariant, PTL

(* Every prefix of the ledger has the result of an invocation before its   *)
(* terminal state, so that a reader of the events up to some point never   *)
(* sees an invocation settled without a result                             *)
(* (append_invocation_outcome).                                            *)
THEOREM ResultBeforeTerminal == LedgerConstants => (Spec => []PrefixSafe)
<1>1. LedgerInv => PrefixSafe BY DEF LedgerInv, StoryInv
<1> QED BY <1>1, LedgerInvariant, PTL

(* What append_batch has reported as committed is in the ledger with the   *)
(* same content, also when the batch was a repetition of an earlier one.   *)
THEOREM AcknowledgedIsStored == LedgerConstants => (Spec => []AckedIsStored)
<1>1. LedgerInv => AckedIsStored BY DEF LedgerInv
<1> QED BY <1>1, LedgerInvariant, PTL

(* A command takes effect at most once, its events exist with its receipt  *)
(* only, and whoever repeats it is told what the receipt says              *)
(* (append_batch_with_receipt, replay_command).                            *)
THEOREM CommandsApplyOnce == LedgerConstants => (Spec => []CommandAppliedOnce)
<1>1. LedgerInv => CommandAppliedOnce BY AppliedOnce
<1> QED BY <1>1, LedgerInvariant, PTL

-----------------------------------------------------------------------------
(* The artifact store.                                                     *)
(* Where a put can be.                                                     *)
Stages == {"idle", "mkdir", "write", "persist", "sync", "verify", "ok", "error"}

(* Types of the state of Artifacts.                                        *)
StoreTypes ==
  /\ pc \in [Putters -> Stages] /\ want \in [Putters -> Contents]
  /\ temp \in [Putters -> 0 .. Store!Whole] /\ synced \in [Putters -> BOOLEAN]
  /\ names \in [Contents -> {"none", "volatile", "durable"}]
  /\ parts \in [Contents -> 0 .. Store!Whole]
  /\ safe \subseteq Contents /\ stored \subseteq Contents /\ failures \in Nat

(* A temporary file is renamed only when it is whole and synced.           *)
PersistsSynced ==
  \A w \in Putters : pc[w] = "persist" => synced[w] /\ temp[w] = Store!Whole

(* A name leads to bytes that are on the disk.                             *)
NamedIsSafe ==
  \A d \in Contents : names[d] # "none" => d \in safe /\ parts[d] = Store!Whole

(* A put past the rename finds its name.                                   *)
DoneIsNamed ==
  \A w \in Putters : pc[w] \in {"sync", "ok"} => names[want[w]] # "none"

(* The inductive invariant of Artifacts.                                   *)
StoreInv == /\ StoreTypes /\ PersistsSynced /\ NamedIsSafe /\ DoneIsNamed
            /\ Store!AckedIsReadable

(* The invariant of Artifacts is inductive, power failures included.       *)
LEMMA StoreStep ==
  ASSUME StoreInv, [Store!Next]_(Store!vars) PROVE StoreInv'
<1> USE DEF StoreInv, StoreTypes, PersistsSynced, NamedIsSafe, DoneIsNamed,
            Store!AckedIsReadable, Store!Whole, Stages, Store!Goto, Store!Disk
<1>1. ASSUME NEW w \in Putters, NEW d \in Contents, Store!Lookup(w, d) PROVE StoreInv'
  BY <1>1 DEF Store!Lookup
<1>2. ASSUME NEW w \in Putters, Store!CreateDirAll(w) PROVE StoreInv'
  BY <1>2 DEF Store!CreateDirAll
<1>3. ASSUME NEW w \in Putters, Store!WriteAll(w) PROVE StoreInv'
  BY <1>3 DEF Store!WriteAll
<1>4. ASSUME NEW w \in Putters, Store!SyncAll(w) PROVE StoreInv'
  BY <1>4 DEF Store!SyncAll
<1>5. ASSUME NEW w \in Putters, Store!PersistNoclobber(w) PROVE StoreInv'
  <2>1. CASE names[want[w]] # "none" BY <1>5, <2>1 DEF Store!PersistNoclobber
  <2>2. CASE names[want[w]] = "none" BY <1>5, <2>2 DEF Store!PersistNoclobber
  <2> QED BY <2>1, <2>2
<1>6. ASSUME NEW w \in Putters, Store!SyncDirectory(w) PROVE StoreInv'
  BY <1>6 DEF Store!SyncDirectory
<1>7. ASSUME NEW w \in Putters, Store!Verify(w) PROVE StoreInv'
  BY <1>7 DEF Store!Verify
<1>8. ASSUME NEW w \in Putters, Store!Error(w) PROVE StoreInv'
  BY <1>8 DEF Store!Error
<1>9. ASSUME NEW w \in Putters, Store!Return(w) PROVE StoreInv'
  BY <1>9 DEF Store!Return
<1>10. CASE Store!Crash BY <1>10 DEF Store!Crash
<1>11. CASE Store!PowerFailure
  <2>1. PICK S \in SUBSET {s \in Store!Shards : dirs[s] = "volatile"},
             N \in SUBSET {d \in Contents : names[d] = "volatile"},
             P \in SUBSET (Contents \ safe) :
       LET gone(d) == dirs[Shard[d]] = "none" \/ Shard[d] \in S \/ d \in N
       IN /\ dirs' = [s \in Store!Shards |->
               IF s \in S \/ dirs[s] = "none" THEN "none" ELSE "durable"]
          /\ names' = [d \in Contents |->
               IF gone(d) \/ names[d] = "none" THEN "none" ELSE "durable"]
          /\ parts' = [d \in Contents |->
               IF gone(d) THEN 0 ELSE IF d \in P THEN parts[d] \div 2 ELSE parts[d]]
          /\ safe' = {d \in Contents : ~gone(d) /\ names[d] # "none"}
    BY <1>11 DEF Store!PowerFailure
  <2> DEFINE gone(d) == dirs[Shard[d]] = "none" \/ Shard[d] \in S \/ d \in N
  <2>2. /\ \A d \in Contents : names'[d] = IF gone(d) \/ names[d] = "none" THEN "none" ELSE "durable"
        /\ \A d \in Contents : parts'[d] =
               IF gone(d) THEN 0 ELSE IF d \in P THEN parts[d] \div 2 ELSE parts[d]
        /\ safe' = {d \in Contents : ~gone(d) /\ names[d] # "none"}
        /\ DOMAIN names' = Contents /\ DOMAIN parts' = Contents
        /\ names' = [d \in Contents |-> names'[d]] /\ parts' = [d \in Contents |-> parts'[d]]
    BY <2>1
  <2> HIDE DEF gone
  <2>3. names' \in [Contents -> {"none", "volatile", "durable"}] /\ safe' \subseteq Contents
    BY <2>2
  <2>4. \A n \in 0 .. 2 : n \div 2 \in 0 .. 2 OBVIOUS
  <2>5. parts' \in [Contents -> 0 .. Store!Whole] BY <2>2, <2>4
  <2>6. NamedIsSafe' BY <2>2
  <2>7. /\ pc' = [w \in Putters |-> "idle"] /\ failures' = failures + 1
        /\ UNCHANGED <<want, temp, synced, stored>>
    BY <1>11 DEF Store!PowerFailure
  <2> QED BY <2>3, <2>5, <2>6, <2>7
<1>12. CASE UNCHANGED Store!vars BY <1>12 DEF Store!vars
<1> QED BY <1>1, <1>2, <1>3, <1>4, <1>5, <1>6, <1>7, <1>8, <1>9, <1>10, <1>11, <1>12
        DEF Store!Next, Store!Put

(* What the store knows by a name or has acknowledged, it can return       *)
(* whole: over power failures after any step, with any number of           *)
(* concurrent puts of the same content, for any assignment of digests to   *)
(* shards (ArtifactStore::put).                                            *)
THEOREM ArtifactsAreWhole == Store!Spec => []StoredIsWhole
<1>1. Store!Init => StoreInv
  BY DEF Store!Init, StoreInv, StoreTypes, PersistsSynced, NamedIsSafe, DoneIsNamed,
         Store!AckedIsReadable, Store!Whole, Stages
<1>2. StoreInv /\ [Store!Next]_(Store!vars) => StoreInv' BY StoreStep
<1>3. StoreInv => StoredIsWhole
  BY DEF StoreInv, StoredIsWhole, Store!StoredIsWhole, Store!NamedIsWhole, NamedIsSafe
<1> QED BY <1>1, <1>2, <1>3, PTL DEF Store!Spec

-----------------------------------------------------------------------------
(* Commands on several connections.                                        *)
(* Types of the part of the state of Connection the launch of turns is     *)
(* about.                                                                  *)
LaunchTypes ==
  /\ phase = [c \in Conns |-> phase[c]] /\ line = [c \in Conns |-> line[c]]
  /\ done = [i \in Commands |-> done[i]]
  /\ turns \in [Commands -> {"none", "accepted", "running", "over"}]
  /\ starts \in [Commands -> {0, 1}]

(* The connection has an accepted turn in its hands.                       *)
Launching(c, i) == phase[c] = "launching" /\ line[c].id = i

(* An accepted turn is in the hands of exactly one connection, or lost     *)
(* with its process.                                                       *)
OnceLaunched ==
  \A i \in Commands :
    /\ done[i] = "none" => turns[i] = "none"
    /\ turns[i] \in {"none", "accepted"} => starts[i] = 0
    /\ turns[i] = "accepted" /\ i \notin lost => \E c \in Conns : Launching(c, i)
    /\ \A c \in Conns : Launching(c, i) =>
         /\ turns[i] = "accepted"
         /\ \A d \in Conns : Launching(d, i) => c = d

(* The inductive invariant of Connection.                                  *)
LaunchInv == LaunchTypes /\ OnceLaunched

(* A step that launches nothing and leaves the durable state alone keeps   *)
(* the invariant.                                                          *)
LEMMA NotLaunched ==
  ASSUME LaunchInv, UNCHANGED Retry!durable,
         phase' = [c \in Conns |-> phase'[c]], line' = [c \in Conns |-> line'[c]],
         \A c \in Conns : /\ (phase'[c] = "launching" <=> phase[c] = "launching")
                          /\ phase[c] = "launching" => line'[c] = line[c]
  PROVE  LaunchInv'
<1>1. \A c \in Conns, i \in Commands : Launching(c, i)' <=> Launching(c, i)
  BY DEF Launching
<1>2. UNCHANGED <<done, turns, starts, lost>> BY DEF Retry!durable
<1>3. OnceLaunched' BY <1>1, <1>2 DEF LaunchInv, OnceLaunched
<1>4. LaunchTypes' BY <1>2 DEF LaunchInv, LaunchTypes
<1> QED BY <1>3, <1>4 DEF LaunchInv

(* The invariant of Connection is inductive.                               *)
LEMMA LaunchStep ==
  ASSUME LaunchInv, [Retry!Next]_(Retry!vars) PROVE LaunchInv'
<1>0. phase = [c \in Conns |-> phase[c]] /\ line = [c \in Conns |-> line[c]]
  BY DEF LaunchInv, LaunchTypes
<1>1. ASSUME NEW c \in Conns,
             \/ Retry!Accept(c) \/ Retry!ClientCloses(c) \/ (\E l \in Lines : Retry!ClientSends(c, l))
             \/ Retry!Fill(c) \/ Retry!Notify(c)
      PROVE  LaunchInv'
  <2>1. /\ UNCHANGED <<Retry!durable, line>>
        /\ \/ phase' = phase
           \/ phase[c] = "new" /\ phase' = [phase EXCEPT ![c] = "reading"]
    BY <1>1 DEF Retry!Accept, Retry!ClientCloses, Retry!ClientSends, Retry!Fill, Retry!Notify
  <2> QED BY <1>0, <2>1, NotLaunched
<1>2. ASSUME NEW c \in Conns, Retry!Take(c) \/ Retry!AtEof(c) PROVE LaunchInv'
  <2>1. /\ phase[c] = "reading" /\ UNCHANGED Retry!durable
        /\ line' = line \/ \E l : line' = [line EXCEPT ![c] = l]
        /\ phase' = phase \/ \E p \in {"refused", "closed", "handling"} : phase' = [phase EXCEPT ![c] = p]
    BY <1>2 DEF Retry!Take, Retry!AtEof, Retry!TooLarge, Retry!Close, Retry!Received
  <2> QED BY <1>0, <2>1, NotLaunched
<1>3. ASSUME NEW c \in Conns, Retry!WriteResponse(c) \/ Retry!Break(c) PROVE LaunchInv'
  <2>1. /\ phase[c] \in {"reading", "writing"} /\ UNCHANGED Retry!durable
        /\ line' = [line EXCEPT ![c] = Retry!Junk]
        /\ \E p \in {"reading", "closed"} : phase' = [phase EXCEPT ![c] = p]
    BY <1>3 DEF Retry!WriteResponse, Retry!Break, Retry!Close
  <2> QED BY <1>0, <2>1, NotLaunched
<1>4. ASSUME NEW c \in Conns, Retry!HandleLine(c) PROVE LaunchInv'
  <2>0. phase[c] = "handling" /\ line' = line BY <1>4 DEF Retry!HandleLine
  <2>1. CASE UNCHANGED Retry!durable /\ phase' = [phase EXCEPT ![c] = "writing"]
    BY <1>0, <2>0, <2>1, NotLaunched
  <2>2. CASE Retry!Dispatch(c)
    <3> DEFINE l == line[c]
    <3>1. CASE /\ done[l.id] = "none" /\ l.k = "start"
               /\ done' = [done EXCEPT ![l.id] = l.k]
               /\ turns' = [turns EXCEPT ![l.id] = "accepted"]
               /\ \/ lost' = lost /\ phase' = [phase EXCEPT ![c] = "launching"]
                  \/ lost' = lost \cup {l.id} /\ phase' = [phase EXCEPT ![c] = "writing"]
               /\ starts' = starts
      <4>1. LaunchTypes' BY <2>0, <3>1 DEF LaunchInv, LaunchTypes
      <4>2. ASSUME NEW i \in Commands, i # l.id
            PROVE  /\ done'[i] = done[i] /\ turns'[i] = turns[i]
                   /\ \A d \in Conns : Launching(d, i)' <=> Launching(d, i)
                   /\ i \in lost' <=> i \in lost
        BY <1>0, <2>0, <3>1, <4>2 DEF LaunchInv, LaunchTypes, Launching
      <4>3. ASSUME l.id \in Commands
            PROVE  /\ done'[l.id] = "start" /\ turns'[l.id] = "accepted" /\ starts'[l.id] = 0
                   /\ \A d \in Conns : ~Launching(d, l.id)
        BY <3>1, <4>3 DEF LaunchInv, LaunchTypes, OnceLaunched
      <4>4. \A d \in Conns : d # c => phase'[d] = phase[d] /\ line'[d] = line[d]
        BY <1>0, <2>0, <3>1
      <4>5. l.id \notin lost' => phase'[c] = "launching" /\ line'[c] = l
        BY <1>0, <2>0, <3>1
      <4>6. OnceLaunched'
        <5> SUFFICES ASSUME NEW i \in Commands
                     PROVE (/\ done[i] = "none" => turns[i] = "none"
                            /\ turns[i] \in {"none", "accepted"} => starts[i] = 0
                            /\ turns[i] = "accepted" /\ i \notin lost => \E d \in Conns : Launching(d, i)
                            /\ \A d \in Conns : Launching(d, i) =>
                                 /\ turns[i] = "accepted"
                                 /\ \A e \in Conns : Launching(e, i) => d = e)'
          BY DEF OnceLaunched
        <5>1. CASE i # l.id BY <3>1, <4>2, <5>1 DEF LaunchInv, OnceLaunched
        <5>2. CASE i = l.id
          BY <2>0, <4>3, <4>4, <4>5, <5>2 DEF Launching
        <5> QED BY <5>1, <5>2
      <4> QED BY <4>1, <4>6 DEF LaunchInv
    <3>2. CASE /\ done[l.id] = "none"
               /\ done' = [done EXCEPT ![l.id] = l.k]
               /\ phase' = [phase EXCEPT ![c] = "writing"]
               /\ UNCHANGED <<turns, starts, lost>>
      <4>1. LaunchTypes' BY <2>0, <3>2 DEF LaunchInv, LaunchTypes
      <4>2. \A d \in Conns, i \in Commands : Launching(d, i)' <=> Launching(d, i)
        BY <1>0, <2>0, <3>2 DEF Launching
      <4>3. \A i \in Commands : done'[i] = "none" => done[i] = "none"
        BY <3>2 DEF LaunchInv, LaunchTypes
      <4> QED BY <3>2, <4>1, <4>2, <4>3 DEF LaunchInv, OnceLaunched
    <3> QED BY <2>1, <2>2, <3>1, <3>2 DEF Retry!Dispatch, Retry!Refuse, Retry!Reply, Retry!durable
  <2>3. Retry!Dispatch(c) \/ (UNCHANGED Retry!durable /\ phase' = [phase EXCEPT ![c] = "writing"])
    BY <1>4 DEF Retry!HandleLine, Retry!Initialize, Retry!Refuse, Retry!Replay, Retry!Conflict,
        Retry!Reply
  <2> QED BY <2>1, <2>2, <2>3
<1>5. ASSUME NEW c \in Conns, Retry!LaunchTurn(c) PROVE LaunchInv'
  <2> DEFINE l == line[c]
  <2>1. /\ phase[c] = "launching" /\ line' = line /\ done' = done /\ lost' = lost
        /\ turns' = [turns EXCEPT ![l.id] = "running"]
        /\ starts' = [starts EXCEPT ![l.id] = @ + 1]
        /\ phase' = [phase EXCEPT ![c] = "writing"]
    BY <1>5 DEF Retry!LaunchTurn
  <2>2. l.id \in Commands => turns[l.id] = "accepted" /\ starts[l.id] = 0
    BY <2>1 DEF LaunchInv, OnceLaunched, Launching
  <2>3. LaunchTypes'
    <3>1. starts' \in [Commands -> {0, 1}]
      <4>1. CASE l.id \in Commands BY <2>1, <2>2, <4>1 DEF LaunchInv, LaunchTypes
      <4>2. CASE l.id \notin Commands BY <2>1, <4>2 DEF LaunchInv, LaunchTypes
      <4> QED BY <4>1, <4>2
    <3>2. turns' \in [Commands -> {"none", "accepted", "running", "over"}]
      BY <2>1 DEF LaunchInv, LaunchTypes
    <3>3. phase' = [d \in Conns |-> phase'[d]] BY <1>0, <2>1
    <3> QED BY <1>0, <2>1, <3>1, <3>2, <3>3 DEF LaunchInv, LaunchTypes
  <2>4. ASSUME NEW i \in Commands
        PROVE  \A d \in Conns : Launching(d, i)' <=> (Launching(d, i) /\ i # l.id)
    <3>1. \A d \in Conns : Launching(d, i) /\ i = l.id => d = c
      BY <2>1 DEF LaunchInv, OnceLaunched, Launching
    <3> QED BY <1>0, <2>1, <3>1 DEF Launching
  <2>5. /\ \A i \in Commands : i # l.id => turns'[i] = turns[i] /\ starts'[i] = starts[i]
        /\ l.id \in Commands => turns'[l.id] = "running"
        /\ l.id \in Commands => done[l.id] # "none"
    BY <2>1, <2>2 DEF LaunchInv, LaunchTypes, OnceLaunched
  <2>6. OnceLaunched' BY <2>1, <2>4, <2>5 DEF LaunchInv, OnceLaunched
  <2> QED BY <2>3, <2>6 DEF LaunchInv
<1>6. CASE Retry!Restart
  <2>1. /\ phase' = [c \in Conns |-> IF phase[c] \in {"new", "refused"} THEN phase[c] ELSE "closed"]
        /\ line' = [c \in Conns |-> Retry!Junk]
        /\ turns' = [i \in Commands |->
                 IF turns[i] \in {"accepted", "running"} THEN "over" ELSE turns[i]]
        /\ UNCHANGED <<done, starts, lost>>
    BY <1>6 DEF Retry!Restart
  <2>2. \A c \in Conns, i \in Commands : ~Launching(c, i)' BY <2>1 DEF Launching
  <2>3. LaunchTypes' BY <2>1 DEF LaunchInv, LaunchTypes
  <2> QED BY <2>1, <2>2, <2>3 DEF LaunchInv, OnceLaunched, LaunchTypes
<1>7. CASE UNCHANGED Retry!vars BY <1>0, <1>7, NotLaunched DEF Retry!vars, Retry!durable
<1> QED BY <1>1, <1>2, <1>3, <1>4, <1>5, <1>6, <1>7 DEF Retry!Next, Retry!Serve

(* A turn that was accepted is launched exactly once or closed, whatever   *)
(* commands are repeated on whichever connections while it happens         *)
(* (handle_line, launch_turn), for any number of connections and commands  *)
(* and lines of any length.                                                *)
THEOREM AcceptedTurnsRunOnce == Retry!Spec => []AcceptedTurnRuns
<1>1. Retry!Init => LaunchInv
  BY DEF Retry!Init, LaunchInv, LaunchTypes, OnceLaunched, Launching
<1>2. LaunchInv /\ [Retry!Next]_(Retry!vars) => LaunchInv' BY LaunchStep
<1>3. LaunchInv => AcceptedTurnRuns
  BY DEF AcceptedTurnRuns, LaunchInv, LaunchTypes, OnceLaunched, Launching, Retry!AcceptedTurnRuns
<1> QED BY <1>1, <1>2, <1>3, PTL DEF Retry!Spec

(* The blank line.                                                         *)
Blank == [Retry!Junk EXCEPT !.k = "blank"]
(* Lengths are natural numbers, and the only line without a token is the   *)
(* blank one.                                                              *)
FrameConstants ==
  /\ MaxLine \in Nat
  /\ \A l \in Lines : l.len \in Nat /\ (l.len = 0 => l = Blank)

(* What is on the wire: a line and a place in it, or the newline.          *)
Token == (Lines \cup {Retry!Junk}) \X Nat

(* The tokens of the i-th line, its newline included; the last line may be *)
(* cut after part of them.                                                 *)
Size(ls, part, i) == IF part > 0 /\ i = Len(ls) THEN part ELSE ls[i].len + 1

(* w holds the lines of ls behind the n-th, each with its newline unless   *)
(* it is the last one and only part of it was sent; the i-th line ends at  *)
(* off[i].                                                                 *)
Chain(w, n, ls, off, part) ==
  /\ n \in 0 .. Len(ls) /\ off \in [n .. Len(ls) -> Nat] /\ part \in Nat
  /\ part > 0 => n < Len(ls) /\ part <= ls[Len(ls)].len
  /\ off[n] = 0 /\ off[Len(ls)] = Len(w)
  /\ \A i, k \in n .. Len(ls) : i <= k => off[i] <= off[k]
  /\ \A i \in n + 1 .. Len(ls) :
       /\ off[i] = off[i - 1] + Size(ls, part, i)
       /\ \A j \in 1 .. ls[i].len : j <= Size(ls, part, i) => w[off[i - 1] + j] = <<ls[i], j>>
       /\ part = 0 \/ i < Len(ls) => w[off[i]] = Retry!NL

(* The tokens of a line are distinct from the newline and tell which line  *)
(* it is.                                                                  *)
LEMMA TokensOf ==
  ASSUME FrameConstants, NEW l \in Lines
  PROVE  /\ Retry!Tokens(l) \in Seq(Token) /\ Len(Retry!Tokens(l)) = l.len /\ l.len \in Nat
         /\ \A j \in 1 .. l.len : Retry!Tokens(l)[j] = <<l, j>>
         /\ \A j \in 1 .. l.len : <<l, j>> # Retry!NL
         /\ l # Retry!Junk
<1>1. l.len \in Nat BY DEF FrameConstants
<1>2. \A j \in 1 .. l.len : <<l, j>> \in Token BY <1>1 DEF Token
<1>3. Retry!Tokens(l) \in [1 .. l.len -> Token] BY <1>2 DEF Retry!Tokens
<1>4. Retry!Tokens(l) \in Seq(Token) /\ Len(Retry!Tokens(l)) = l.len BY <1>1, <1>3
<1>5. \A j \in 1 .. l.len : Retry!Tokens(l)[j] = <<l, j>> BY DEF Retry!Tokens
<1>6. \A j \in 1 .. l.len : <<l, j>> # Retry!NL BY <1>1 DEF Retry!NL
<1>7. l # Retry!Junk
  <2>1. SUFFICES ASSUME l = Retry!Junk PROVE FALSE OBVIOUS
  <2>2. l.len = 0 BY <2>1 DEF Retry!Junk
  <2>3. l = Blank BY <2>2 DEF FrameConstants
  <2>4. Blank.k = "blank" /\ Retry!Junk.k = "junk" BY DEF Blank, Retry!Junk
  <2> QED BY <2>1, <2>3, <2>4
<1> QED BY <1>1, <1>4, <1>5, <1>6, <1>7

(* Nothing is on the wire when all lines have been taken.                  *)
LEMMA ChainEmpty ==
  ASSUME NEW ls, Len(ls) \in Nat
  PROVE  \E off : Chain(<< >>, Len(ls), ls, off, 0)
<1> DEFINE off == [i \in Len(ls) .. Len(ls) |-> 0]
<1>1. Chain(<< >>, Len(ls), ls, off, 0) BY DEF Chain
<1> QED BY <1>1

(* A line, or part of the last one, is sent behind the others.             *)
LEMMA ChainGrows ==
  ASSUME FrameConstants, NEW w \in Seq(Token), NEW n, NEW ls \in Seq(Lines), NEW off,
         Chain(w, n, ls, off, 0), NEW l \in Lines, NEW v \in Seq(Token), NEW part \in Nat,
         Len(v) = IF part > 0 THEN part ELSE l.len + 1, part <= l.len,
         \A j \in 1 .. l.len : j <= Len(v) => v[j] = <<l, j>>,
         part = 0 => v[Len(v)] = Retry!NL
  PROVE  \E f : Chain(w \o v, n, Append(ls, l), f, part)
<1> DEFINE N == Len(ls)
           ms == Append(ls, l)
           x == w \o v
           f == [i \in n .. N + 1 |-> IF i <= N THEN off[i] ELSE Len(w) + Len(v)]
<1>1. /\ N \in Nat /\ Len(ms) = N + 1 /\ ms[N + 1] = l /\ \A i \in 1 .. N : ms[i] = ls[i]
  BY AppendProperties
<1>2. /\ Len(w) \in Nat /\ Len(v) \in Nat /\ Len(x) = Len(w) + Len(v)
      /\ \A i \in 1 .. Len(w) + Len(v) : x[i] = IF i <= Len(w) THEN w[i] ELSE v[i - Len(w)]
  <2>1. Len(w) \in Nat /\ Len(v) \in Nat OBVIOUS
  <2> QED BY <2>1, ConcatProperties
<1>3. l.len \in Nat /\ Len(v) > 0 BY <1>2 DEF FrameConstants
<1>a. \A i \in 1 .. N : ls[i].len \in Nat BY <1>1 DEF FrameConstants
<1> HIDE DEF N, ms, x
<1>4. /\ n \in 0 .. N /\ off \in [n .. N -> Nat] /\ off[n] = 0 /\ off[N] = Len(w)
      /\ \A i, k \in n .. N : i <= k => off[i] <= off[k]
  BY DEF Chain, N
<1>b. \A i \in n .. N : off[i] <= Len(w) BY <1>1, <1>4
<1>5. ASSUME NEW i \in n + 1 .. N
      PROVE  /\ off[i] = off[i - 1] + (ls[i].len + 1)
             /\ \A j \in 1 .. ls[i].len : w[off[i - 1] + j] = <<ls[i], j>>
             /\ w[off[i]] = Retry!NL
  <2>1. Size(ls, 0, i) = ls[i].len + 1 BY DEF Size
  <2>2. i \in 1 .. N BY <1>1, <1>4
  <2>3. ls[i].len \in Nat BY <1>a, <2>2
  <2>4. i \in n + 1 .. Len(ls) BY DEF N
  <2>5. /\ off[i] = off[i - 1] + Size(ls, 0, i)
        /\ \A j \in 1 .. ls[i].len : j <= Size(ls, 0, i) => w[off[i - 1] + j] = <<ls[i], j>>
        /\ w[off[i]] = Retry!NL
    BY <2>4 DEF Chain
  <2>6. off[i] = off[i - 1] + (ls[i].len + 1) BY <2>1, <2>5, Zenon
  <2>7. ASSUME NEW j \in 1 .. ls[i].len PROVE w[off[i - 1] + j] = <<ls[i], j>>
    <3>1. j <= Size(ls, 0, i) BY <2>1, <2>3
    <3> QED BY <2>5, <3>1, Zenon
  <2> QED BY <2>5, <2>6, <2>7, Zenon
<1>6. /\ f \in [n .. N + 1 -> Nat] /\ f[n] = 0 /\ f[N + 1] = Len(x)
      /\ \A i \in n .. N : f[i] = off[i]
  BY <1>1, <1>2, <1>4
<1> HIDE DEF f
<1>7. ASSUME NEW i \in n .. N + 1, NEW k \in n .. N + 1, i <= k
      PROVE  f[i] <= f[k]
  <2>1. CASE k <= N
    <3>1. i \in n .. N /\ k \in n .. N BY <1>1, <1>4, <1>7, <2>1
    <3> QED BY <1>4, <1>6, <1>7, <3>1
  <2>2. CASE ~(k <= N)
    <3>1. k = N + 1 BY <1>1, <1>4, <2>2
    <3>2. CASE i = k BY <1>6, <3>2
    <3>3. CASE i # k
      <4>1. i \in n .. N BY <1>1, <1>4, <3>1, <3>3
      <4>2. f[i] = off[i] /\ off[i] <= Len(w) /\ off[i] \in Nat BY <1>4, <1>6, <1>b, <4>1
      <4> QED BY <1>2, <1>6, <3>1, <4>2
    <3> QED BY <3>2, <3>3
  <2> QED BY <2>1, <2>2
<1>8. ASSUME NEW i \in n + 1 .. N + 1
      PROVE  /\ f[i] = f[i - 1] + Size(ms, part, i)
             /\ \A j \in 1 .. ms[i].len : j <= Size(ms, part, i) => x[f[i - 1] + j] = <<ms[i], j>>
             /\ part = 0 \/ i < Len(ms) => x[f[i]] = Retry!NL
  <2>1. CASE i <= N
    <3>1. i \in n + 1 .. N /\ i \in 1 .. N /\ i - 1 \in n .. N /\ ms[i] = ls[i]
      BY <1>1, <1>4, <2>1
    <3>2. f[i] = off[i] /\ f[i - 1] = off[i - 1] /\ i \in n .. N BY <1>1, <1>4, <1>6, <3>1
    <3>3. Size(ms, part, i) = ls[i].len + 1 BY <1>1, <2>1, <3>1 DEF Size
    <3>4. ls[i].len \in Nat /\ off[i - 1] \in Nat /\ off[i] \in Nat /\ off[i] <= Len(w)
      BY <1>a, <1>b, <1>4, <3>1, <3>2
    <3>5. off[i] = off[i - 1] + (ls[i].len + 1) BY <1>5, <3>1
    <3>6. ASSUME NEW j \in 1 .. ls[i].len PROVE x[f[i - 1] + j] = <<ls[i], j>>
      <4> DEFINE o == off[i - 1]
                 q == off[i]
                 z == ls[i].len
                 m == o + j
      <4>1. /\ o \in Nat /\ q \in Nat /\ z \in Nat /\ q = o + (z + 1) /\ q <= Len(w)
            /\ j \in Nat /\ 1 <= j /\ j <= z
        BY <3>4, <3>5
      <4> HIDE DEF o, q, z
      <4>2. m \in 1 .. Len(w) /\ m \in 1 .. Len(w) + Len(v) /\ m <= Len(w) BY <1>2, <4>1
      <4> HIDE DEF m
      <4>3. x[m] = w[m] BY <1>2, <4>2
      <4> QED BY <1>5, <3>1, <3>2, <4>3, Zenon DEF m, o
    <3>7. x[f[i]] = Retry!NL
      <4> DEFINE o == off[i - 1]
                 q == off[i]
                 z == ls[i].len
      <4>1. o \in Nat /\ q \in Nat /\ z \in Nat /\ q = o + (z + 1) /\ q <= Len(w)
        BY <3>4, <3>5
      <4> HIDE DEF o, q, z
      <4>2. q \in 1 .. Len(w) + Len(v) /\ q <= Len(w) BY <1>2, <4>1
      <4>3. x[q] = w[q] BY <1>2, <4>2
      <4> QED BY <1>5, <3>1, <3>2, <4>3, Zenon DEF q
    <3> QED BY <3>1, <3>2, <3>3, <3>5, <3>6, <3>7
  <2>2. CASE ~(i <= N)
    <3>1. i = N + 1 /\ ms[i] = l BY <1>1, <1>4, <2>2
    <3>2. f[i] = Len(w) + Len(v) /\ f[i - 1] = Len(w)
      <4>1. i - 1 = N /\ N \in n .. N BY <1>1, <1>4, <3>1
      <4> QED BY <1>2, <1>4, <1>6, <3>1, <4>1
    <3>3. Size(ms, part, i) = Len(v) BY <1>1, <3>1 DEF Size
    <3>4. ASSUME NEW j \in 1 .. l.len, j <= Len(v) PROVE x[f[i - 1] + j] = <<l, j>>
      <4>1. Len(w) + j \in 1 .. Len(w) + Len(v) /\ ~(Len(w) + j <= Len(w))
            /\ (Len(w) + j) - Len(w) = j
        BY <1>2, <1>3, <3>4, SMTT(30)
      <4>2. x[Len(w) + j] = v[j] BY <1>2, <4>1
      <4> QED BY <3>2, <3>4, <4>2
    <3>5. part = 0 => x[f[i]] = Retry!NL
      <4>1. Len(w) + Len(v) \in 1 .. Len(w) + Len(v) /\ ~(Len(w) + Len(v) <= Len(w))
            /\ (Len(w) + Len(v)) - Len(w) = Len(v)
        BY <1>2, <1>3
      <4>2. x[Len(w) + Len(v)] = v[Len(v)] BY <1>2, <4>1
      <4> QED BY <3>2, <4>2
    <3>6. ~(i < Len(ms)) BY <1>1, <3>1
    <3> QED BY <3>1, <3>2, <3>3, <3>4, <3>5, <3>6
  <2> QED BY <2>1, <2>2
<1>9. part > 0 => n < Len(ms) /\ part <= ms[Len(ms)].len BY <1>1, <1>4
<1>10. n \in 0 .. Len(ms) BY <1>1, <1>4
<1>11. Chain(x, n, ms, f, part) BY <1>1, <1>6, <1>7, <1>8, <1>9, <1>10 DEF Chain
<1> QED BY <1>11 DEF x, ms

(* The first line on the wire is the next one of ls.                       *)
LEMMA ChainFirst ==
  ASSUME FrameConstants, NEW w \in Seq(Token), NEW n, NEW ls \in Seq(Lines), NEW off, NEW part,
         Chain(w, n, ls, off, part), w # << >>
  PROVE  /\ n + 1 \in 1 .. Len(ls) /\ ls[n + 1] \in Lines /\ ls[n + 1].len \in Nat
         /\ off[n + 1] = Size(ls, part, n + 1) /\ off[n + 1] \in 1 .. Len(w)
         /\ \A j \in 1 .. ls[n + 1].len : j <= off[n + 1] => w[j] = <<ls[n + 1], j>>
         /\ \A j \in 1 .. ls[n + 1].len : j <= off[n + 1] => w[j] # Retry!NL
         /\ IF part = 0 \/ n + 1 < Len(ls)
            THEN off[n + 1] = ls[n + 1].len + 1 /\ w[off[n + 1]] = Retry!NL
            ELSE /\ off[n + 1] = part /\ part <= ls[n + 1].len
                 /\ Len(w) = part /\ n + 1 = Len(ls)
<1>1. n \in 0 .. Len(ls) /\ Len(ls) \in Nat /\ Len(w) \in Nat /\ Len(w) > 0 /\ part \in Nat
  BY DEF Chain
<1>2. n # Len(ls) BY <1>1 DEF Chain
<1>3. n + 1 \in 1 .. Len(ls) /\ n + 1 \in n + 1 .. Len(ls) /\ n + 1 \in n .. Len(ls)
  BY <1>1, <1>2
<1>4. ls[n + 1] \in Lines /\ ls[n + 1].len \in Nat BY <1>3 DEF FrameConstants
<1>5. off[n] = 0 /\ off[n + 1] = off[n] + Size(ls, part, n + 1) /\ off[n + 1] <= Len(w)
      /\ off[n + 1] \in Nat
  <2>1. (n + 1) - 1 = n /\ Len(ls) \in n .. Len(ls) /\ n + 1 <= Len(ls) BY <1>1, <1>3
  <2> QED BY <1>3, <2>1 DEF Chain
<1>6. Size(ls, part, n + 1) \in Nat /\ Size(ls, part, n + 1) > 0 BY <1>1, <1>4 DEF Size
<1>7. off[n + 1] = Size(ls, part, n + 1) /\ off[n + 1] \in 1 .. Len(w) BY <1>1, <1>5, <1>6
<1>8. ASSUME NEW j \in 1 .. ls[n + 1].len, j <= off[n + 1] PROVE w[j] = <<ls[n + 1], j>>
  <2>1. (n + 1) - 1 = n /\ off[n] + j = j BY <1>1, <1>4, <1>5
  <2>2. w[off[(n + 1) - 1] + j] = <<ls[n + 1], j>> BY <1>3, <1>7, <1>8 DEF Chain
  <2> QED BY <2>1, <2>2
<1>9. \A j \in 1 .. ls[n + 1].len : <<ls[n + 1], j>> # Retry!NL BY <1>4, TokensOf
<1>10. CASE part = 0 \/ n + 1 < Len(ls)
  <2>1. Size(ls, part, n + 1) = ls[n + 1].len + 1 BY <1>1, <1>10 DEF Size
  <2>2. w[off[n + 1]] = Retry!NL BY <1>3, <1>10 DEF Chain
  <2> QED BY <1>3, <1>4, <1>7, <1>8, <1>9, <1>10, <2>1, <2>2
<1>11. CASE ~(part = 0 \/ n + 1 < Len(ls))
  <2>1. n + 1 = Len(ls) /\ part > 0 BY <1>1, <1>3, <1>11
  <2>2. Size(ls, part, n + 1) = part BY <2>1 DEF Size
  <2>3. part <= ls[n + 1].len /\ off[n + 1] = Len(w) BY <2>1 DEF Chain
  <2> QED BY <1>3, <1>4, <1>7, <1>8, <1>9, <1>11, <2>1, <2>2, <2>3
<1> QED BY <1>10, <1>11

(* What is behind the first line holds the lines after it.                 *)
LEMMA ChainTaken ==
  ASSUME FrameConstants, NEW w \in Seq(Token), NEW n, NEW ls \in Seq(Lines), NEW off, NEW part,
         Chain(w, n, ls, off, part), w # << >>, part = 0 \/ n + 1 < Len(ls),
         NEW x \in Seq(Token), Len(x) = Len(w) - off[n + 1],
         \A j \in 1 .. Len(x) : x[j] = w[j + off[n + 1]]
  PROVE  \E f : Chain(x, n + 1, ls, f, part)
<1> DEFINE d == off[n + 1]
           f == [i \in n + 1 .. Len(ls) |-> off[i] - d]
<1>1. /\ n + 1 \in 1 .. Len(ls) /\ d \in 1 .. Len(w) BY ChainFirst
<1>2. n \in 0 .. Len(ls) /\ Len(ls) \in Nat /\ Len(w) \in Nat /\ part \in Nat /\ Len(x) \in Nat
      /\ off \in [n .. Len(ls) -> Nat] /\ off[Len(ls)] = Len(w)
  BY DEF Chain
<1>3. \A i \in n + 1 .. Len(ls) : off[i] \in Nat /\ off[i] >= d /\ off[i] <= Len(w)
  <2>1. \A i, k \in n .. Len(ls) : i <= k => off[i] <= off[k] BY DEF Chain
  <2>2. ASSUME NEW i \in n + 1 .. Len(ls) PROVE off[i] \in Nat /\ off[i] >= d /\ off[i] <= Len(w)
    <3>1. i \in n .. Len(ls) /\ n + 1 \in n .. Len(ls) /\ Len(ls) \in n .. Len(ls)
          /\ n + 1 <= i /\ i <= Len(ls)
      BY <1>1, <1>2
    <3>2. d <= off[i] /\ off[i] <= off[Len(ls)] BY <2>1, <3>1
    <3>3. off[i] \in Nat /\ d \in Nat BY <1>2, <3>1
    <3> QED BY <1>2, <3>2, <3>3
  <2> QED BY <2>2
<1> HIDE DEF d
<1>4. f \in [n + 1 .. Len(ls) -> Nat] /\ f[n + 1] = 0 /\ f[Len(ls)] = Len(x)
  <2>1. f \in [n + 1 .. Len(ls) -> Nat] BY <1>1, <1>2, <1>3
  <2>2. f[n + 1] = d - d BY <1>1, <1>2 DEF d
  <2>3. f[Len(ls)] = Len(w) - d BY <1>1, <1>2
  <2> QED BY <1>1, <2>1, <2>2, <2>3 DEF d
<1>5. ASSUME NEW i \in n + 2 .. Len(ls)
      PROVE  /\ off[i] = off[i - 1] + Size(ls, part, i)
             /\ \A j \in 1 .. ls[i].len : j <= Size(ls, part, i) => w[off[i - 1] + j] = <<ls[i], j>>
             /\ part = 0 \/ i < Len(ls) => w[off[i]] = Retry!NL
             /\ ls[i].len \in Nat /\ Size(ls, part, i) \in Nat /\ Size(ls, part, i) > 0
  <2>1. i \in n + 1 .. Len(ls) /\ i \in 1 .. Len(ls) BY <1>2
  <2>2. ls[i].len \in Nat BY <2>1 DEF FrameConstants
  <2>3. Size(ls, part, i) \in Nat /\ Size(ls, part, i) > 0
    <3>1. (Size(ls, part, i) = part /\ part > 0) \/ Size(ls, part, i) = ls[i].len + 1 BY DEF Size
    <3> QED BY <1>2, <2>2, <3>1
  <2> QED BY <2>1, <2>2, <2>3 DEF Chain
<1>6. ASSUME NEW i \in n + 1 .. Len(ls), NEW k \in n + 1 .. Len(ls), i <= k
      PROVE  f[i] <= f[k]
  <2>1. off[i] <= off[k]
    <3>1. i \in n .. Len(ls) /\ k \in n .. Len(ls) BY <1>2
    <3> QED BY <1>6, <3>1 DEF Chain
  <2> QED BY <1>1, <1>3, <2>1
<1>7. ASSUME NEW i \in (n + 1) + 1 .. Len(ls)
      PROVE  /\ f[i] = f[i - 1] + Size(ls, part, i)
             /\ \A j \in 1 .. ls[i].len : j <= Size(ls, part, i) => x[f[i - 1] + j] = <<ls[i], j>>
             /\ part = 0 \/ i < Len(ls) => x[f[i]] = Retry!NL
  <2>1. i \in n + 2 .. Len(ls) /\ i \in n + 1 .. Len(ls) /\ i - 1 \in n + 1 .. Len(ls) BY <1>2
  <2>2. f[i] = off[i] - d /\ f[i - 1] = off[i - 1] - d BY <2>1
  <2>3. /\ off[i] \in Nat /\ off[i] >= d /\ off[i] <= Len(w)
        /\ off[i - 1] \in Nat /\ off[i - 1] >= d
    BY <1>3, <2>1
  <2>4. off[i] = off[i - 1] + Size(ls, part, i) /\ Size(ls, part, i) \in Nat
        /\ Size(ls, part, i) > 0 /\ ls[i].len \in Nat
    BY <1>5, <2>1
  <2>5. f[i] = f[i - 1] + Size(ls, part, i) BY <1>1, <2>2, <2>3, <2>4, SMTT(30)
  <2>6. Len(x) = Len(w) - d BY DEF d
  <2>7. ASSUME NEW j \in 1 .. ls[i].len, j <= Size(ls, part, i)
        PROVE  x[f[i - 1] + j] = <<ls[i], j>>
    <3> DEFINE o == off[i - 1]
               q == off[i]
               z == Size(ls, part, i)
    <3>0. /\ o \in Nat /\ o >= d /\ q = o + z /\ q <= Len(w) /\ z \in Nat /\ j \in Nat /\ j >= 1
          /\ j <= z /\ d \in Nat /\ f[i - 1] = o - d
      BY <1>1, <1>2, <2>2, <2>3, <2>4, <2>7
    <3> HIDE DEF o, q, z
    <3> DEFINE m == (o - d) + j
    <3>1. m \in 1 .. Len(x) /\ m + d = o + j BY <1>2, <2>6, <3>0, SMTT(30)
    <3> HIDE DEF m
    <3>2. x[m] = w[m + d] BY <3>1 DEF d
    <3>3. x[f[i - 1] + j] = w[o + j] BY <3>0, <3>1, <3>2, Zenon DEF m
    <3> QED BY <1>5, <2>1, <2>7, <3>3, Zenon DEF o
  <2>8. ASSUME part = 0 \/ i < Len(ls) PROVE x[f[i]] = Retry!NL
    <3> DEFINE o == off[i - 1]
               q == off[i]
               z == Size(ls, part, i)
    <3>0. /\ o \in Nat /\ o >= d /\ q = o + z /\ q <= Len(w) /\ z \in Nat /\ z >= 1
          /\ d \in Nat /\ f[i] = q - d
      BY <1>1, <1>2, <2>2, <2>3, <2>4
    <3> HIDE DEF o, q, z
    <3>1. f[i] \in 1 .. Len(x) /\ f[i] + d = q BY <1>2, <2>6, <3>0
    <3> USE DEF q
    <3>2. x[f[i]] = w[off[i]] BY <3>1 DEF d
    <3> QED BY <1>5, <2>1, <2>8, <3>2
  <2> QED BY <2>5, <2>7, <2>8
<1> HIDE DEF f
<1>8. part > 0 => n + 1 < Len(ls) /\ part <= ls[Len(ls)].len BY <1>2 DEF Chain
<1>9. n + 1 \in 0 .. Len(ls) BY <1>1, <1>2
<1>10. Chain(x, n + 1, ls, f, part) BY <1>2, <1>4, <1>6, <1>7, <1>8, <1>9 DEF Chain
<1> QED BY <1>10

(* There is no newline in s.                                               *)
NoNewline(s) == \A i \in 1 .. Len(s) : s[i] # Retry!NL

(* w holds the lines of ls behind the n-th; only a client that has closed  *)
(* leaves one of them incomplete.                                          *)
Framed(w, n, ls, e) == \E off, part : Chain(w, n, ls, off, part) /\ (part > 0 => e)

(* Least(Newlines(s)) is the place of the first newline.                   *)
LEMMA LeastIs ==
  ASSUME NEW s \in Seq(Token), Retry!Newlines(s) # {}
  PROVE  /\ Retry!Least(Retry!Newlines(s)) \in 1 .. Len(s)
         /\ s[Retry!Least(Retry!Newlines(s))] = Retry!NL
         /\ \A i \in 1 .. Len(s) : i < Retry!Least(Retry!Newlines(s)) => s[i] # Retry!NL
<1> DEFINE S == Retry!Newlines(s)
<1>1. S \subseteq 1 .. Len(s) /\ S \subseteq Nat BY DEF Retry!Newlines
<1>2. \A i \in 1 .. Len(s) : i \in S <=> s[i] = Retry!NL BY DEF Retry!Newlines
<1> HIDE DEF S
<1>3. \E n \in S : \A m \in S : n <= m
  <2>1. S # {} BY DEF S
  <2> QED BY <1>1, <2>1, LeastElement
<1>4. Retry!Least(S) \in S /\ \A m \in S : Retry!Least(S) <= m BY <1>3, Zenon DEF Retry!Least
<1> DEFINE p == Retry!Least(S)
<1>5. p \in S /\ \A m \in S : p <= m BY <1>4
<1> HIDE DEF p
<1>6. p \in 1 .. Len(s) /\ s[p] = Retry!NL BY <1>1, <1>2, <1>5
<1>7. \A i \in 1 .. Len(s) : i < p => s[i] # Retry!NL BY <1>1, <1>2, <1>5, <1>6
<1> QED BY <1>6, <1>7, Zenon DEF p, S

(* What stands before the first newline is the next line, whole, and what  *)
(* stands behind it holds the rest.                                        *)
LEMMA FirstLine ==
  ASSUME FrameConstants, NEW u \in Seq(Token), NEW n, NEW ls \in Seq(Lines), NEW e,
         Framed(u, n, ls, e), NEW d \in 1 .. Len(u), u[d] = Retry!NL,
         \A i \in 1 .. Len(u) : i < d => u[i] # Retry!NL,
         NEW x \in Seq(Token), Len(x) = Len(u) - d,
         \A j \in 1 .. Len(x) : x[j] = u[j + d]
  PROVE  /\ n + 1 \in 1 .. Len(ls) /\ ls[n + 1] \in Lines /\ ls[n + 1].len = d - 1
         /\ \A j \in 1 .. d - 1 : u[j] = <<ls[n + 1], j>>
         /\ Framed(x, n + 1, ls, e)
<1>1. PICK off, part : Chain(u, n, ls, off, part) /\ (part > 0 => e) BY DEF Framed
<1>2. u # << >> /\ Len(u) \in Nat OBVIOUS
<1> DEFINE k == off[n + 1]
           l == ls[n + 1]
<1>3. /\ n + 1 \in 1 .. Len(ls) /\ l \in Lines /\ l.len \in Nat /\ k \in 1 .. Len(u)
      /\ \A j \in 1 .. l.len : j <= k => u[j] = <<l, j>>
      /\ \A j \in 1 .. l.len : j <= k => u[j] # Retry!NL
      /\ IF part = 0 \/ n + 1 < Len(ls) THEN k = l.len + 1 /\ u[k] = Retry!NL
         ELSE /\ k = part /\ part <= l.len /\ Len(u) = part /\ n + 1 = Len(ls)
  BY <1>1, <1>2, ChainFirst
<1> HIDE DEF k, l
<1>4. part = 0 \/ n + 1 < Len(ls)
  <2>1. SUFFICES ASSUME ~(part = 0 \/ n + 1 < Len(ls)) PROVE FALSE OBVIOUS
  <2>2. k = part /\ part <= l.len /\ Len(u) = part BY <1>3, <2>1
  <2>3. d \in 1 .. l.len /\ d <= k BY <1>2, <1>3, <2>2
  <2> QED BY <1>3, <2>3
<1>5. k = l.len + 1 /\ u[k] = Retry!NL BY <1>3, <1>4
<1>6. k = d
  <2>1. ~(k < d) BY <1>3, <1>5
  <2>2. ~(d < k)
    <3>1. SUFFICES ASSUME d < k PROVE FALSE OBVIOUS
    <3>2. d \in 1 .. l.len /\ d <= k BY <1>2, <1>3, <1>5, <3>1
    <3> QED BY <1>3, <3>2
  <2> QED BY <1>2, <1>3, <2>1, <2>2
<1>7. l.len = d - 1 /\ \A j \in 1 .. d - 1 : u[j] = <<l, j>>
  <2>1. l.len = d - 1 BY <1>2, <1>3, <1>5, <1>6
  <2>2. ASSUME NEW j \in 1 .. d - 1 PROVE u[j] = <<l, j>>
    <3>1. j \in 1 .. l.len /\ j <= k BY <1>6, <2>1
    <3> QED BY <1>3, <3>1
  <2> QED BY <2>1, <2>2
<1>8. off[n + 1] = d BY <1>6 DEF k
<1>9. \E f : Chain(x, n + 1, ls, f, part) BY <1>1, <1>2, <1>4, <1>8, ChainTaken
<1>10. Framed(x, n + 1, ls, e) BY <1>1, <1>9 DEF Framed
<1> QED BY <1>3, <1>7, <1>10 DEF l

(* Tokens without a newline belong to one line, which is at least as long. *)
LEMMA LongLine ==
  ASSUME FrameConstants, NEW u \in Seq(Token), NEW n, NEW ls \in Seq(Lines), NEW e,
         Framed(u, n, ls, e), NEW d \in 1 .. Len(u),
         \A i \in 1 .. d : u[i] # Retry!NL
  PROVE  n + 1 \in 1 .. Len(ls) /\ ls[n + 1].len \in Nat /\ ls[n + 1].len >= d
<1>1. PICK off, part : Chain(u, n, ls, off, part) /\ (part > 0 => e) BY DEF Framed
<1>2. u # << >> /\ Len(u) \in Nat OBVIOUS
<1> DEFINE k == off[n + 1]
           l == ls[n + 1]
<1>3. /\ n + 1 \in 1 .. Len(ls) /\ l \in Lines /\ l.len \in Nat /\ k \in 1 .. Len(u)
      /\ IF part = 0 \/ n + 1 < Len(ls) THEN k = l.len + 1 /\ u[k] = Retry!NL
         ELSE /\ k = part /\ part <= l.len /\ Len(u) = part /\ n + 1 = Len(ls)
  BY <1>1, <1>2, ChainFirst
<1> HIDE DEF k, l
<1>4. l.len >= d
  <2>1. CASE part = 0 \/ n + 1 < Len(ls)
    <3>1. k = l.len + 1 /\ u[k] = Retry!NL BY <1>3, <2>1
    <3>2. k \notin 1 .. d BY <3>1
    <3> QED BY <1>2, <1>3, <3>1, <3>2
  <2>2. CASE ~(part = 0 \/ n + 1 < Len(ls))
    <3>1. part <= l.len /\ Len(u) = part BY <1>3, <2>2
    <3> QED BY <1>2, <1>3, <3>1
  <2> QED BY <2>1, <2>2
<1> QED BY <1>3, <1>4 DEF l

(* A rest without a newline is (part of) the last line of a client that    *)
(* has closed.                                                             *)
LEMMA LastPiece ==
  ASSUME FrameConstants, NEW u \in Seq(Token), NEW n, NEW ls \in Seq(Lines), NEW e,
         Framed(u, n, ls, e), u # << >>, NoNewline(u)
  PROVE  /\ n + 1 = Len(ls) /\ e /\ ls[n + 1] \in Lines
         /\ Len(u) \in 1 .. ls[n + 1].len /\ ls[n + 1].len \in Nat
         /\ \A j \in 1 .. Len(u) : u[j] = <<ls[n + 1], j>>
         /\ Framed(<< >>, n + 1, ls, e)
<1>1. PICK off, part : Chain(u, n, ls, off, part) /\ (part > 0 => e) BY DEF Framed
<1>2. Len(u) \in Nat /\ Len(u) > 0 /\ Len(ls) \in Nat OBVIOUS
<1> DEFINE k == off[n + 1]
           l == ls[n + 1]
<1>3. /\ n + 1 \in 1 .. Len(ls) /\ l \in Lines /\ l.len \in Nat /\ k \in 1 .. Len(u)
      /\ \A j \in 1 .. l.len : j <= k => u[j] = <<l, j>>
      /\ IF part = 0 \/ n + 1 < Len(ls) THEN k = l.len + 1 /\ u[k] = Retry!NL
         ELSE /\ k = part /\ part <= l.len /\ Len(u) = part /\ n + 1 = Len(ls)
  BY <1>1, ChainFirst
<1> HIDE DEF k, l
<1>4. ~(part = 0 \/ n + 1 < Len(ls)) BY <1>3 DEF NoNewline
<1>5. k = part /\ part <= l.len /\ Len(u) = part /\ n + 1 = Len(ls) BY <1>3, <1>4
<1>6. \A j \in 1 .. Len(u) : u[j] = <<l, j>> BY <1>2, <1>3, <1>5
<1>7. PICK f : Chain(<< >>, Len(ls), ls, f, 0) BY <1>2, ChainEmpty
<1>8. Framed(<< >>, n + 1, ls, e) BY <1>5, <1>7 DEF Framed
<1>9. Len(u) \in 1 .. l.len /\ part > 0 BY <1>2, <1>3, <1>5
<1> QED BY <1>1, <1>3, <1>5, <1>6, <1>8, <1>9 DEF l

(* The text of the tokens of a line is that line.                          *)
LEMMA TextOfLine ==
  ASSUME FrameConstants, NEW l \in Lines, NEW s \in Seq(Token), Len(s) = l.len,
         \A j \in 1 .. l.len : s[j] = <<l, j>>
  PROVE  Retry!Text(s) = l
<1>1. l.len \in Nat BY DEF FrameConstants
<1>2. CASE l.len = 0
  <2>1. s = << >> BY <1>2
  <2>2. l = Blank BY <1>2 DEF FrameConstants
  <2> QED BY <2>1, <2>2 DEF Retry!Text, Blank
<1>3. CASE l.len # 0
  <2>1. s # << >> /\ s[1] = <<l, 1>> BY <1>1, <1>3
  <2>2. s[1][1] = l BY <2>1
  <2>3. s = Retry!Tokens(l)
    <3>1. /\ Retry!Tokens(l) \in Seq(Token) /\ Len(Retry!Tokens(l)) = l.len
          /\ \A j \in 1 .. l.len : Retry!Tokens(l)[j] = <<l, j>>
      BY TokensOf
    <3>2. \A j \in 1 .. Len(s) : s[j] = Retry!Tokens(l)[j] BY <3>1
    <3> QED BY <3>1, <3>2, SeqEqual
  <2> QED BY <2>1, <2>2, <2>3, Zenon DEF Retry!Text
<1> QED BY <1>2, <1>3

(* Part of a line is not JSON.                                             *)
LEMMA TextOfPiece ==
  ASSUME FrameConstants, NEW l \in Lines, NEW s \in Seq(Token), Len(s) \in 1 .. l.len,
         \A j \in 1 .. Len(s) : s[j] = <<l, j>>
  PROVE  IF Len(s) = l.len THEN Retry!Text(s) = l ELSE Retry!Text(s) = Retry!Junk
<1>1. l.len \in Nat BY DEF FrameConstants
<1>2. CASE Len(s) = l.len BY <1>2, TextOfLine
<1>3. CASE Len(s) # l.len
  <2>1. s # << >> /\ s[1] = <<l, 1>> BY <1>1
  <2>2. s[1][1] = l BY <2>1
  <2>3. s # Retry!Tokens(l) BY <1>3, TokensOf
  <2>4. Retry!Text(s) = Retry!Junk BY <2>1, <2>2, <2>3, Zenon DEF Retry!Text
  <2> QED BY <1>3, <2>4
<1> QED BY <1>2, <1>3

(* x is what read_frame may return for the n-th line.                      *)
Told(x, ls, n, e) ==
  \/ x = ls[n] /\ ls[n].len <= MaxLine
  \/ x = Retry!Junk /\ n = Len(ls) /\ e

(* The phases in which nothing is read any more.                           *)
Ended == {"closed", "refused"}

(* One connection: what was returned so far is what was sent so far, and   *)
(* what is buffered, available and on the wire, one behind the other, is   *)
(* the rest. Nothing returned is longer than the limit, a refused line is. *)
Sound(ph, e, ls, b, a, w, sn) ==
  /\ ls \in Seq(Lines) /\ b \in Seq(Token) /\ a \in Seq(Token) /\ w \in Seq(Token)
  /\ sn \in Seq(Lines \cup {Retry!Junk}) /\ Len(sn) <= Len(ls)
  /\ \A n \in 1 .. Len(sn) : Told(sn[n], ls, n, e)
  /\ ph = "new" => b = << >> /\ a = << >> /\ w = << >>
  /\ ph = "refused" => ls[Len(sn) + 1].len > MaxLine
  /\ ph \notin Ended =>
       Len(b) <= MaxLine /\ NoNewline(b) /\ Framed(b \o (a \o w), Len(sn), ls, e)

(* The newline is a token.                                                 *)
LEMMA NewlineIsToken == Retry!NL \in Token
BY DEF Retry!NL, Token

(* A new connection is sound.                                              *)
LEMMA SoundStart ==
  FrameConstants => Sound("new", FALSE, << >>, << >>, << >>, << >>, << >>)
<1> SUFFICES ASSUME FrameConstants
             PROVE  Sound("new", FALSE, << >>, << >>, << >>, << >>, << >>)
  OBVIOUS
<1>1. PICK off : Chain(<< >>, Len(<< >>), << >>, off, 0) BY ChainEmpty
<1>2. Framed(<< >>, 0, << >>, FALSE) BY <1>1 DEF Framed
<1>3. << >> \o (<< >> \o << >>) = << >> OBVIOUS
<1>4. Framed(<< >> \o (<< >> \o << >>), Len(<< >>), << >>, FALSE) BY <1>2, <1>3
<1>5. << >> \in Seq(Lines) /\ << >> \in Seq(Token) /\ << >> \in Seq(Lines \cup {Retry!Junk}) OBVIOUS
<1>6. Len(<< >>) <= Len(<< >>) /\ Len(<< >>) <= MaxLine BY DEF FrameConstants
<1>7. NoNewline(<< >>) BY DEF NoNewline
<1>8. \A n \in 1 .. Len(<< >>) : Told(<< >>[n], << >>, n, FALSE) OBVIOUS
<1> QED BY <1>4, <1>5, <1>6, <1>7, <1>8, Zenon DEF Sound

(* What handle_line does leaves the bytes alone.                           *)
LEMMA SoundRephase ==
  ASSUME NEW ph, NEW e, NEW ls, NEW b, NEW a, NEW w, NEW sn, NEW q,
         Sound(ph, e, ls, b, a, w, sn), ph \notin Ended, q \notin {"new", "refused"}
  PROVE  Sound(q, e, ls, b, a, w, sn)
BY DEF Sound

(* A connection may end at any time.                                       *)
LEMMA SoundStopped ==
  ASSUME NEW ph, NEW e, NEW ls, NEW b, NEW a, NEW w, NEW sn, Sound(ph, e, ls, b, a, w, sn)
  PROVE  /\ Sound("closed", e, ls, << >>, << >>, << >>, sn)
         /\ ph \in {"new", "refused"} => Sound(ph, e, ls, << >>, << >>, << >>, sn)
<1>1. << >> \in Seq(Token) OBVIOUS
<1> QED BY <1>1 DEF Sound, Ended

(* The client may close its side at any time.                              *)
LEMMA SoundCloses ==
  ASSUME NEW ph, NEW e \in BOOLEAN, NEW ls, NEW b, NEW a, NEW w, NEW sn,
         Sound(ph, e, ls, b, a, w, sn)
  PROVE  Sound(ph, TRUE, ls, b, a, w, sn)
<1>1. \A x, m : Told(x, ls, m, e) => Told(x, ls, m, TRUE) BY DEF Told
<1>2. \A x, m : Framed(x, m, ls, e) => Framed(x, m, ls, TRUE) BY DEF Framed
<1> QED BY <1>1, <1>2 DEF Sound

(* Concatenation is associative.                                           *)
LEMMA Associative ==
  \A x, y, z \in Seq(Token) : (x \o y) \o z = x \o (y \o z)
<1> SUFFICES ASSUME NEW x \in Seq(Token), NEW y \in Seq(Token), NEW z \in Seq(Token)
             PROVE  (x \o y) \o z = x \o (y \o z)
  BY Zenon
<1> QED BY ConcatAssociative

(* What arrives comes behind what is buffered, available and on the wire.  *)
LEMMA SoundJoins ==
  ASSUME NEW ph, NEW e, NEW ls, NEW b, NEW a, NEW w, NEW sn, Sound(ph, e, ls, b, a, w, sn),
         NEW v \in Seq(Token)
  PROVE  b \o (a \o (w \o v)) = (b \o (a \o w)) \o v
<1>1. PICK x \in Seq(Token) : x = b BY DEF Sound
<1>2. PICK y \in Seq(Token) : y = a BY DEF Sound
<1>3. PICK z \in Seq(Token) : z = w BY DEF Sound
<1>4. y \o z \in Seq(Token) BY ConcatProperties
<1>5. (y \o z) \o v = y \o (z \o v) BY Associative, Zenon
<1>6. (x \o (y \o z)) \o v = x \o ((y \o z) \o v) BY <1>4, Associative, ZenonT(60)
<1>7. x \o (y \o (z \o v)) = (x \o (y \o z)) \o v BY <1>5, <1>6, Zenon
<1> QED BY <1>1, <1>2, <1>3, <1>7, Zenon

(* The client sends a line or part of it.                                  *)
LEMMA SoundGrows ==
  ASSUME FrameConstants, NEW ph, NEW ls, NEW b, NEW a, NEW w, NEW sn,
         Sound(ph, FALSE, ls, b, a, w, sn), ph \notin Ended \cup {"new"},
         NEW l \in Lines, NEW v \in Seq(Token), NEW part \in Nat, NEW e,
         Len(v) = IF part > 0 THEN part ELSE l.len + 1, part <= l.len, part > 0 => e,
         \A j \in 1 .. l.len : j <= Len(v) => v[j] = <<l, j>>,
         part = 0 => v[Len(v)] = Retry!NL
  PROVE  Sound(ph, e, Append(ls, l), b, a, w \o v, sn)
<1> DEFINE u == b \o (a \o w)
           ms == Append(ls, l)
<1>1. /\ ls \in Seq(Lines) /\ b \in Seq(Token) /\ a \in Seq(Token) /\ w \in Seq(Token)
      /\ sn \in Seq(Lines \cup {Retry!Junk}) /\ Len(sn) <= Len(ls)
      /\ Framed(u, Len(sn), ls, FALSE)
  BY DEF Sound
<1>2. a \o w \in Seq(Token) /\ u \in Seq(Token) /\ w \o v \in Seq(Token) BY <1>1, ConcatProperties
<1>3. b \o (a \o (w \o v)) = u \o v BY SoundJoins, SMTT(60)
<1>4. /\ ms \in Seq(Lines) /\ Len(ms) = Len(ls) + 1 /\ \A i \in 1 .. Len(ls) : ms[i] = ls[i]
  BY <1>1, AppendProperties
<1> HIDE DEF u
<1>5. PICK off : Chain(u, Len(sn), ls, off, 0)
  <2>1. PICK off, p : Chain(u, Len(sn), ls, off, p) /\ (p > 0 => FALSE) BY <1>1 DEF Framed
  <2>2. p \in Nat BY <2>1 DEF Chain
  <2>3. p = 0 BY <2>1, <2>2
  <2> QED BY <2>1, <2>3
<1>6. \E f : Chain(u \o v, Len(sn), ms, f, part) BY <1>1, <1>2, <1>5, ChainGrows
<1> HIDE DEF ms
<1>7. Framed(u \o v, Len(sn), ms, e) BY <1>6 DEF Framed
<1>8. Framed(b \o (a \o (w \o v)), Len(sn), ms, e) BY <1>3, <1>7, Zenon
<1>9. ASSUME NEW n \in 1 .. Len(sn) PROVE Told(sn[n], ms, n, e)
  <2>1. Told(sn[n], ls, n, FALSE) BY DEF Sound
  <2>2. n \in 1 .. Len(ls) BY <1>1
  <2> QED BY <1>4, <2>1, <2>2 DEF Told
<1>10. Len(sn) <= Len(ms) BY <1>1, <1>4
<1>11. Sound(ph, e, ms, b, a, w \o v, sn)
  <2>1. Len(b) <= MaxLine /\ NoNewline(b) BY DEF Sound
  <2> QED BY <1>1, <1>2, <1>4, <1>8, <1>9, <1>10, <2>1 DEF Sound, Ended
<1> QED BY <1>11 DEF ms

(* ClientSends in terms of Tokens.                                         *)
LEMMA SoundSends ==
  ASSUME FrameConstants, NEW ph, NEW ls, NEW b, NEW a, NEW w, NEW sn,
         Sound(ph, FALSE, ls, b, a, w, sn), ph \notin Ended \cup {"new"}, NEW l \in Lines
  PROVE  /\ Sound(ph, FALSE, Append(ls, l), b, a, w \o Retry!Tokens(l) \o <<Retry!NL>>, sn)
         /\ \A n \in 1 .. l.len :
              Sound(ph, TRUE, Append(ls, l), b, a, w \o SubSeq(Retry!Tokens(l), 1, n), sn)
<1> DEFINE t == Retry!Tokens(l)
<1>1. /\ t \in Seq(Token) /\ Len(t) = l.len /\ l.len \in Nat
      /\ \A j \in 1 .. l.len : t[j] = <<l, j>>
  BY TokensOf
<1>2. w \in Seq(Token) BY DEF Sound
<1> HIDE DEF t
<1>3. Sound(ph, FALSE, Append(ls, l), b, a, (w \o t) \o <<Retry!NL>>, sn)
  <2> DEFINE v == Append(t, Retry!NL)
  <2>1. /\ v \in Seq(Token) /\ Len(v) = l.len + 1 /\ v[l.len + 1] = Retry!NL
        /\ \A j \in 1 .. l.len : v[j] = <<l, j>>
    BY <1>1, NewlineIsToken, AppendProperties
  <2>2. w \o v = (w \o t) \o <<Retry!NL>>
    <3>1. v = t \o <<Retry!NL>> /\ <<Retry!NL>> \in Seq(Token) BY <1>1, NewlineIsToken,
        AppendIsConcat
    <3>2. (w \o t) \o <<Retry!NL>> = w \o (t \o <<Retry!NL>>) BY <1>1, <1>2, <3>1, ConcatAssociative
    <3> QED BY <3>1, <3>2, Zenon
  <2> HIDE DEF v
  <2>3. Sound(ph, FALSE, Append(ls, l), b, a, w \o v, sn)
    <3>1. Len(v) = IF 0 > 0 THEN 0 ELSE l.len + 1 BY <2>1
    <3>2. 0 \in Nat /\ 0 <= l.len /\ (0 > 0 => FALSE) BY <1>1
    <3>3. \A j \in 1 .. l.len : j <= Len(v) => v[j] = <<l, j>> BY <2>1
    <3>4. 0 = 0 => v[Len(v)] = Retry!NL BY <2>1
    <3> QED BY <2>1, <3>1, <3>2, <3>3, <3>4, SoundGrows
  <2> QED BY <2>2, <2>3, Zenon
<1>4. ASSUME NEW n \in 1 .. l.len
      PROVE  Sound(ph, TRUE, Append(ls, l), b, a, w \o SubSeq(t, 1, n), sn)
  <2> DEFINE v == SubSeq(t, 1, n)
  <2>1. /\ v \in Seq(Token) /\ Len(v) = n /\ \A j \in 1 .. n : v[j] = t[j]
    <3>1. \A j \in 1 .. n : t[j] \in Token BY <1>1
    <3> QED BY <1>1, <3>1, SubSeqProperties
  <2> HIDE DEF v
  <2>2. n \in Nat /\ n > 0 /\ n <= l.len BY <1>1
  <2>3. \A j \in 1 .. l.len : j <= Len(v) => v[j] = <<l, j>> BY <1>1, <2>1, <2>2
  <2>4. Sound(ph, TRUE, Append(ls, l), b, a, w \o v, sn)
    <3>1. Len(v) = IF n > 0 THEN n ELSE l.len + 1 BY <2>1, <2>2
    <3>2. n = 0 => v[Len(v)] = Retry!NL BY <2>2
    <3> QED BY <2>1, <2>2, <2>3, <3>1, <3>2, SoundGrows
  <2> QED BY <2>4 DEF v
<1> QED BY <1>3, <1>4 DEF t

(* fill_buf moves a prefix from the wire to the buffer, of any length.     *)
LEMMA SoundFill ==
  ASSUME NEW ph, NEW e, NEW ls, NEW b, NEW w, NEW sn, Sound(ph, e, ls, b, << >>, w, sn),
         ph \notin Ended \cup {"new"}, NEW n \in 1 .. Len(w)
  PROVE  Sound(ph, e, ls, b, SubSeq(w, 1, n), SubSeq(w, n + 1, Len(w)), sn)
<1>1. w \in Seq(Token) /\ b \in Seq(Token) /\ Len(w) \in Nat BY DEF Sound
<1> DEFINE a == SubSeq(w, 1, n)
           x == SubSeq(w, n + 1, Len(w))
<1>2. a \in Seq(Token)
  <2>1. \A j \in 1 .. n : w[j] \in Token BY <1>1
  <2> QED BY <2>1, SubSeqProperties
<1>3. x \in Seq(Token)
  <2>1. \A j \in n + 1 .. Len(w) : w[j] \in Token BY <1>1
  <2> QED BY <1>1, <2>1, SubSeqProperties
<1>4. a \o x = w
  <2>1. 1 \in 1 .. Len(w) + 1 /\ n \in 1 - 1 .. Len(w) /\ Len(w) \in n .. Len(w) BY <1>1
  <2>2. SubSeq(w, 1, n) \o SubSeq(w, n + 1, Len(w)) = SubSeq(w, 1, Len(w))
    BY <1>1, <2>1, ConcatAdjacentSubSeq
  <2> QED BY <1>1, <2>2, SubSeqFull
<1>5. << >> \o w = w BY <1>1, ConcatEmptySeq
<1> HIDE DEF a, x
<1>6. b \o (a \o x) = b \o (<< >> \o w) BY <1>4, <1>5
<1>7. Sound(ph, e, ls, b, a, x, sn) BY <1>2, <1>3, <1>6 DEF Sound, Ended
<1> QED BY <1>7 DEF a, x

(* A line is returned, and the rest is still to come.                      *)
LEMMA SoundReads ==
  ASSUME FrameConstants, NEW ph, NEW e, NEW ls, NEW b, NEW a, NEW w, NEW sn,
         Sound(ph, e, ls, b, a, w, sn),
         Len(sn) + 1 <= Len(ls), NEW t \in Lines \cup {Retry!Junk}, Told(t, ls, Len(sn) + 1, e),
         NEW y \in Seq(Token), NEW z \in Seq(Token), Framed(y \o z, Len(sn) + 1, ls, e),
         NEW q, q \notin {"new", "refused"}
  PROVE  Sound(q, e, ls, << >>, y, z, Append(sn, t))
<1> DEFINE s == Append(sn, t)
<1>1. /\ ls \in Seq(Lines) /\ sn \in Seq(Lines \cup {Retry!Junk})
      /\ \A n \in 1 .. Len(sn) : Told(sn[n], ls, n, e)
  BY DEF Sound
<1>2. /\ s \in Seq(Lines \cup {Retry!Junk}) /\ Len(s) = Len(sn) + 1 /\ s[Len(sn) + 1] = t
      /\ \A n \in 1 .. Len(sn) : s[n] = sn[n]
  BY <1>1, AppendProperties
<1>3. Len(sn) \in Nat BY <1>1
<1> HIDE DEF s
<1>4. ASSUME NEW n \in 1 .. Len(s) PROVE Told(s[n], ls, n, e)
  <2>1. CASE n = Len(sn) + 1 BY <1>2, <2>1
  <2>2. CASE n # Len(sn) + 1
    <3>1. n \in 1 .. Len(sn) BY <1>2, <1>3, <2>2
    <3> QED BY <1>1, <1>2, <3>1
  <2> QED BY <2>1, <2>2
<1>5. << >> \o (y \o z) = y \o z
  <2>1. y \o z \in Seq(Token) BY ConcatProperties
  <2> QED BY <2>1, ConcatEmptySeq
<1>6. Framed(<< >> \o (y \o z), Len(s), ls, e) BY <1>2, <1>5
<1>7. << >> \in Seq(Token) /\ Len(<< >>) <= MaxLine /\ NoNewline(<< >>)
  BY DEF FrameConstants, NoNewline
<1>8. Len(s) <= Len(ls) BY <1>2
<1>9. Sound(q, e, ls, << >>, y, z, s) BY <1>1, <1>2, <1>4, <1>6, <1>7, <1>8, Zenon DEF Sound
<1> QED BY <1>9 DEF s

(* The elements of a concatenation.                                        *)
LEMMA Paste ==
  ASSUME NEW y \in Seq(Token), NEW z \in Seq(Token)
  PROVE  /\ y \o z \in Seq(Token) /\ Len(y) \in Nat /\ Len(z) \in Nat
         /\ Len(y \o z) = Len(y) + Len(z)
         /\ \A j \in 1 .. Len(y) : (y \o z)[j] = y[j]
         /\ \A j \in 1 .. Len(z) : (y \o z)[Len(y) + j] = z[j]
<1> DEFINE u == y \o z
<1>1. Len(y) \in Nat /\ Len(z) \in Nat OBVIOUS
<1>2. /\ u \in Seq(Token) /\ Len(u) = Len(y) + Len(z)
      /\ \A i \in 1 .. Len(y) + Len(z) : u[i] = IF i <= Len(y) THEN y[i] ELSE z[i - Len(y)]
  BY ConcatProperties
<1> HIDE DEF u
<1>3. ASSUME NEW i \in 1 .. Len(y) PROVE u[i] = y[i]
  <2>1. i \in 1 .. Len(y) + Len(z) /\ i <= Len(y) BY <1>1
  <2> QED BY <1>2, <2>1
<1>4. ASSUME NEW i \in 1 .. Len(z) PROVE u[Len(y) + i] = z[i]
  <2>1. Len(y) + i \in 1 .. Len(y) + Len(z) /\ ~(Len(y) + i <= Len(y)) /\ Len(y) + i - Len(y) = i
    BY <1>1
  <2> QED BY <1>2, <2>1
<1> QED BY <1>1, <1>2, <1>3, <1>4 DEF u

(* The elements of what is buffered, available and on the wire.            *)
LEMMA Joined ==
  ASSUME NEW b \in Seq(Token), NEW a \in Seq(Token), NEW w \in Seq(Token)
  PROVE  /\ b \o (a \o w) \in Seq(Token)
         /\ Len(b) \in Nat /\ Len(a) \in Nat /\ Len(w) \in Nat
         /\ Len(b \o (a \o w)) = Len(b) + Len(a) + Len(w)
         /\ \A i \in 1 .. Len(b) : (b \o (a \o w))[i] = b[i]
         /\ \A i \in 1 .. Len(a) : (b \o (a \o w))[Len(b) + i] = a[i]
         /\ \A i \in 1 .. Len(w) : (b \o (a \o w))[Len(b) + Len(a) + i] = w[i]
<1> DEFINE c == a \o w
           u == b \o c
<1>1. /\ c \in Seq(Token) /\ Len(b) \in Nat /\ Len(a) \in Nat /\ Len(w) \in Nat
      /\ Len(c) = Len(a) + Len(w)
      /\ \A i \in 1 .. Len(a) : c[i] = a[i]
      /\ \A i \in 1 .. Len(w) : c[Len(a) + i] = w[i]
  BY Paste
<1> HIDE DEF c
<1>2. /\ u \in Seq(Token) /\ Len(u) = Len(b) + Len(c)
      /\ \A i \in 1 .. Len(b) : u[i] = b[i]
      /\ \A i \in 1 .. Len(c) : u[Len(b) + i] = c[i]
  BY <1>1, Paste
<1> HIDE DEF u
<1>3. ASSUME NEW i \in 1 .. Len(a) PROVE u[Len(b) + i] = a[i]
  <2>1. i \in 1 .. Len(c) BY <1>1
  <2> QED BY <1>1, <1>2, <2>1
<1>4. ASSUME NEW i \in 1 .. Len(w) PROVE u[Len(b) + Len(a) + i] = w[i]
  <2> DEFINE k == Len(a) + i
  <2>1. k \in 1 .. Len(c) /\ Len(b) + Len(a) + i = Len(b) + k BY <1>1
  <2>2. c[k] = w[i] BY <1>1
  <2> HIDE DEF k
  <2>3. u[Len(b) + k] = c[k] BY <1>2, <2>1
  <2> QED BY <2>1, <2>2, <2>3
<1>5. Len(u) = Len(b) + Len(a) + Len(w) BY <1>1, <1>2
<1>6. /\ u \in Seq(Token) /\ Len(u) = Len(b) + Len(a) + Len(w)
      /\ \A i \in 1 .. Len(b) : u[i] = b[i]
      /\ \A i \in 1 .. Len(a) : u[Len(b) + i] = a[i]
      /\ \A i \in 1 .. Len(w) : u[Len(b) + Len(a) + i] = w[i]
  BY <1>2, <1>3, <1>4, <1>5
<1> QED BY <1>1, <1>6, Zenon DEF u, c

(* With a newline in the buffer, read_frame returns the next line or       *)
(* refuses it.                                                             *)
LEMMA SoundTake ==
  ASSUME FrameConstants, NEW ph, NEW e, NEW ls, NEW b, NEW a, NEW w, NEW sn,
         Sound(ph, e, ls, b, a, w, sn), ph \notin Ended,
         NEW p \in 1 .. Len(a), a[p] = Retry!NL, \A i \in 1 .. Len(a) : i < p => a[i] # Retry!NL
  PROVE  /\ Len(b) + p - 1 > MaxLine => Sound("refused", e, ls, << >>, << >>, << >>, sn)
         /\ Len(b) + p - 1 <= MaxLine =>
              \A q : q \notin {"new", "refused"} =>
                Sound(q, e, ls, << >>, SubSeq(a, p + 1, Len(a)), w,
                      Append(sn, Retry!Text(b \o SubSeq(a, 1, p - 1))))
<1> DEFINE u == b \o (a \o w)
           d == Len(b) + p
           y == SubSeq(a, p + 1, Len(a))
           x == y \o w
           s == SubSeq(a, 1, p - 1)
           t == b \o s
           n == Len(sn)
           l == ls[n + 1]
<1>1. /\ ls \in Seq(Lines) /\ b \in Seq(Token) /\ a \in Seq(Token) /\ w \in Seq(Token)
      /\ sn \in Seq(Lines \cup {Retry!Junk}) /\ Len(sn) <= Len(ls)
      /\ Framed(u, n, ls, e) /\ NoNewline(b)
  BY DEF Sound
<1>2. /\ u \in Seq(Token) /\ Len(b) \in Nat /\ Len(a) \in Nat /\ Len(w) \in Nat
      /\ Len(u) = Len(b) + Len(a) + Len(w)
      /\ \A i \in 1 .. Len(b) : u[i] = b[i]
      /\ \A i \in 1 .. Len(a) : u[Len(b) + i] = a[i]
      /\ \A i \in 1 .. Len(w) : u[Len(b) + Len(a) + i] = w[i]
  BY <1>1, Joined
<1>3. /\ y \in Seq(Token) /\ Len(y) = Len(a) - p /\ \A j \in 1 .. Len(a) - p : y[j] = a[p + j]
  <2>1. \A j \in p + 1 .. Len(a) : a[j] \in Token BY <1>1
  <2>2. /\ y \in Seq(Token)
        /\ Len(y) = IF p + 1 <= Len(a) THEN Len(a) - (p + 1) + 1 ELSE 0
        /\ \A j \in 1 .. Len(a) - (p + 1) + 1 : y[j] = a[p + 1 + j - 1]
    BY <1>2, <2>1, SubSeqProperties
  <2> HIDE DEF y
  <2>3. Len(y) = Len(a) - p BY <1>2, <2>2
  <2>4. ASSUME NEW j \in 1 .. Len(a) - p PROVE y[j] = a[p + j]
    <3>1. j \in 1 .. Len(a) - (p + 1) + 1 /\ p + 1 + j - 1 = p + j BY <1>2
    <3> QED BY <2>2, <3>1
  <2> QED BY <2>2, <2>3, <2>4
<1>4. /\ s \in Seq(Token) /\ Len(s) = p - 1 /\ \A j \in 1 .. p - 1 : s[j] = a[j]
  <2>1. \A j \in 1 .. p - 1 : a[j] \in Token BY <1>1
  <2>2. /\ s \in Seq(Token)
        /\ Len(s) = IF 1 <= p - 1 THEN p - 1 - 1 + 1 ELSE 0
        /\ \A j \in 1 .. p - 1 - 1 + 1 : s[j] = a[1 + j - 1]
    BY <1>2, <2>1, SubSeqProperties
  <2> HIDE DEF s
  <2>3. Len(s) = p - 1 BY <1>2, <2>2
  <2>4. ASSUME NEW j \in 1 .. p - 1 PROVE s[j] = a[j]
    <3>1. j \in 1 .. p - 1 - 1 + 1 /\ 1 + j - 1 = j BY <1>2
    <3> QED BY <2>2, <3>1
  <2> QED BY <2>2, <2>3, <2>4
<1> HIDE DEF u, y, s
<1>5. /\ x \in Seq(Token) /\ Len(x) = Len(y) + Len(w)
      /\ \A j \in 1 .. Len(y) : x[j] = y[j]
      /\ \A j \in 1 .. Len(w) : x[Len(y) + j] = w[j]
  BY <1>1, <1>3, Paste
<1>6. /\ t \in Seq(Token) /\ Len(t) = Len(b) + Len(s)
      /\ \A j \in 1 .. Len(b) : t[j] = b[j]
      /\ \A j \in 1 .. Len(s) : t[Len(b) + j] = s[j]
  BY <1>1, <1>4, Paste
<1> HIDE DEF x, t
<1>7. d \in 1 .. Len(u) /\ u[d] = Retry!NL
  <2>1. u[Len(b) + p] = Retry!NL BY <1>2
  <2> QED BY <1>2, <2>1
<1>8. ASSUME NEW i \in 1 .. Len(u), i < d PROVE u[i] # Retry!NL
  <2>1. CASE i <= Len(b)
    <3>1. i \in 1 .. Len(b) BY <1>2, <2>1
    <3> QED BY <1>1, <1>2, <3>1 DEF NoNewline
  <2>2. CASE ~(i <= Len(b))
    <3> DEFINE k == i - Len(b)
    <3>1. k \in 1 .. Len(a) /\ k < p /\ i = Len(b) + k BY <1>2, <1>8, <2>2
    <3> HIDE DEF k
    <3> QED BY <1>2, <3>1
  <2> QED BY <2>1, <2>2
<1>9. Len(x) = Len(u) - d BY <1>2, <1>3, <1>5
<1>10. ASSUME NEW j \in 1 .. Len(x) PROVE x[j] = u[j + d]
  <2>1. CASE j <= Len(y)
    <3>1. /\ j \in 1 .. Len(y) /\ j \in 1 .. Len(a) - p /\ p + j \in 1 .. Len(a)
          /\ j + d = Len(b) + (p + j)
      BY <1>2, <1>3, <2>1
    <3>2. x[j] = a[p + j] BY <1>3, <1>5, <3>1
    <3>3. u[Len(b) + (p + j)] = a[p + j] BY <1>2, <3>1
    <3> QED BY <3>1, <3>2, <3>3
  <2>2. CASE ~(j <= Len(y))
    <3> DEFINE k == j - Len(y)
    <3>1. k \in 1 .. Len(w) /\ j = Len(y) + k /\ j + d = Len(b) + Len(a) + k
      BY <1>2, <1>3, <1>5, <2>2
    <3> HIDE DEF k, d
    <3>2. x[j] = w[k] BY <1>5, <3>1
    <3>3. u[j + d] = w[k] BY <1>2, <3>1
    <3> QED BY <3>2, <3>3
  <2> QED BY <2>1, <2>2
<1>11. d \in Nat BY <1>7
<1> HIDE DEF d
<1>12. /\ n + 1 \in 1 .. Len(ls) /\ l \in Lines /\ l.len = d - 1
       /\ \A j \in 1 .. d - 1 : u[j] = <<l, j>>
       /\ Framed(x, n + 1, ls, e)
  BY <1>1, <1>2, <1>5, <1>7, <1>8, <1>9, <1>10, FirstLine
<1> HIDE DEF l
<1>13. ASSUME Len(b) + p - 1 > MaxLine
       PROVE  Sound("refused", e, ls, << >>, << >>, << >>, sn)
  <2>1. l.len > MaxLine BY <1>12, <1>13 DEF d
  <2>2. << >> \in Seq(Token) OBVIOUS
  <2>3. ls[Len(sn) + 1].len > MaxLine BY <2>1 DEF l
  <2>4. "refused" # "new" /\ "refused" \in Ended BY DEF Ended
  <2>5. \A i \in 1 .. Len(sn) : Told(sn[i], ls, i, e) BY DEF Sound
  <2> QED BY <1>1, <2>2, <2>3, <2>4, <2>5, Zenon DEF Sound
<1>14. ASSUME Len(b) + p - 1 <= MaxLine, NEW q, q \notin {"new", "refused"}
       PROVE  Sound(q, e, ls, << >>, y, w, Append(sn, Retry!Text(t)))
  <2>1. Len(t) = l.len BY <1>2, <1>4, <1>6, <1>12 DEF d
  <2>2. ASSUME NEW j \in 1 .. l.len PROVE t[j] = <<l, j>>
    <3>1. j \in 1 .. d - 1 BY <1>12
    <3>2. CASE j <= Len(b)
      <4>1. j \in 1 .. Len(b) BY <1>2, <3>1, <3>2
      <4> QED BY <1>2, <1>6, <1>12, <3>1, <4>1
    <3>3. CASE ~(j <= Len(b))
      <4> DEFINE k == j - Len(b)
      <4>1. k \in 1 .. p - 1 /\ k \in 1 .. Len(s) /\ k \in 1 .. Len(a) /\ j = Len(b) + k
        BY <1>2, <1>4, <3>1, <3>3 DEF d
      <4> HIDE DEF k
      <4>2. t[j] = a[k] BY <1>4, <1>6, <4>1
      <4>3. u[j] = a[k] BY <1>2, <4>1
      <4> QED BY <1>12, <3>1, <4>2, <4>3
    <3> QED BY <3>2, <3>3
  <2>3. Retry!Text(t) = l BY <1>6, <1>12, <2>1, <2>2, TextOfLine
  <2>4. l.len <= MaxLine BY <1>12, <1>14 DEF d
  <2>5. Told(Retry!Text(t), ls, Len(sn) + 1, e) BY <2>3, <2>4 DEF Told, l
  <2>6. Len(sn) + 1 <= Len(ls) BY <1>12
  <2>7. Retry!Text(t) \in Lines \cup {Retry!Junk} BY <1>12, <2>3
  <2>8. Framed(y \o w, Len(sn) + 1, ls, e) BY <1>12 DEF x
  <2> QED BY <1>1, <1>3, <1>14, <2>5, <2>6, <2>7, <2>8, SoundReads
<1> QED BY <1>13, <1>14, Zenon DEF y, t, s

(* Without one, it buffers what there is or refuses it.                    *)
LEMMA SoundTakeAll ==
  ASSUME FrameConstants, NEW ph, NEW e, NEW ls, NEW b, NEW a, NEW w, NEW sn,
         Sound(ph, e, ls, b, a, w, sn), ph \notin Ended, a # << >>, NoNewline(a)
  PROVE  /\ Len(b) + Len(a) > MaxLine => Sound("refused", e, ls, << >>, << >>, << >>, sn)
         /\ Len(b) + Len(a) <= MaxLine /\ ph # "new" => Sound(ph, e, ls, b \o a, << >>, w, sn)
<1> DEFINE u == b \o (a \o w)
           d == Len(b) + Len(a)
           n == Len(sn)
<1>1. /\ ls \in Seq(Lines) /\ b \in Seq(Token) /\ a \in Seq(Token) /\ w \in Seq(Token)
      /\ sn \in Seq(Lines \cup {Retry!Junk}) /\ Len(sn) <= Len(ls)
      /\ Framed(u, n, ls, e) /\ NoNewline(b)
  BY DEF Sound
<1>2. /\ u \in Seq(Token) /\ Len(b) \in Nat /\ Len(a) \in Nat /\ Len(w) \in Nat
      /\ Len(u) = Len(b) + Len(a) + Len(w)
      /\ \A i \in 1 .. Len(b) : u[i] = b[i]
      /\ \A i \in 1 .. Len(a) : u[Len(b) + i] = a[i]
  BY <1>1, Joined
<1>3. Len(a) > 0 BY <1>1, <1>2
<1>4. \A i \in 1 .. Len(sn) : Told(sn[i], ls, i, e) BY DEF Sound
<1>5. << >> \in Seq(Token) OBVIOUS
<1>6. ASSUME Len(b) + Len(a) > MaxLine
      PROVE  Sound("refused", e, ls, << >>, << >>, << >>, sn)
  <2> HIDE DEF u
  <2>1. d \in 1 .. Len(u) BY <1>2, <1>3
  <2>2. ASSUME NEW i \in 1 .. d PROVE u[i] # Retry!NL
    <3>1. CASE i <= Len(b)
      <4>1. i \in 1 .. Len(b) BY <1>2, <3>1
      <4> QED BY <1>1, <1>2, <4>1 DEF NoNewline
    <3>2. CASE ~(i <= Len(b))
      <4> DEFINE k == i - Len(b)
      <4>1. k \in 1 .. Len(a) /\ i = Len(b) + k BY <1>2, <3>2
      <4> HIDE DEF k
      <4> QED BY <1>2, <4>1 DEF NoNewline
    <3> QED BY <3>1, <3>2
  <2>3. ls[n + 1].len \in Nat /\ ls[n + 1].len >= d
    BY <1>1, <1>2, <2>1, <2>2, LongLine
  <2>4. ls[Len(sn) + 1].len > MaxLine BY <1>2, <1>6, <2>3 DEF FrameConstants
  <2>5. "refused" # "new" /\ "refused" \in Ended BY DEF Ended
  <2> QED BY <1>1, <1>4, <1>5, <2>4, <2>5, Zenon DEF Sound
<1>7. ASSUME Len(b) + Len(a) <= MaxLine, ph # "new"
      PROVE  Sound(ph, e, ls, b \o a, << >>, w, sn)
  <2>1. /\ b \o a \in Seq(Token) /\ Len(b \o a) = Len(b) + Len(a)
        /\ \A j \in 1 .. Len(b) : (b \o a)[j] = b[j]
        /\ \A j \in 1 .. Len(a) : (b \o a)[Len(b) + j] = a[j]
    BY <1>1, Paste
  <2>2. (b \o a) \o (<< >> \o w) = u
    <3>1. << >> \o w = w BY <1>1, ConcatEmptySeq
    <3>2. PICK x \in Seq(Token) : x = b BY <1>1
    <3>3. PICK y \in Seq(Token) : y = a BY <1>1
    <3>4. PICK z \in Seq(Token) : z = w BY <1>1
    <3>5. (x \o y) \o z = x \o (y \o z) BY Associative, Zenon
    <3> QED BY <3>1, <3>2, <3>3, <3>4, <3>5, Zenon
  <2> DEFINE v == b \o a
  <2> HIDE DEF v, u
  <2>3. Framed(v \o (<< >> \o w), Len(sn), ls, e) BY <1>1, <2>2, Zenon DEF v
  <2>4. ASSUME NEW i \in 1 .. Len(v) PROVE v[i] # Retry!NL
    <3>0. /\ Len(v) = Len(b) + Len(a) /\ \A j \in 1 .. Len(b) : v[j] = b[j]
          /\ \A j \in 1 .. Len(a) : v[Len(b) + j] = a[j]
      BY <2>1 DEF v
    <3>1. CASE i <= Len(b)
      <4>1. i \in 1 .. Len(b) BY <1>2, <3>1
      <4> QED BY <1>1, <3>0, <4>1 DEF NoNewline
    <3>2. CASE ~(i <= Len(b))
      <4> DEFINE k == i - Len(b)
      <4>1. k \in 1 .. Len(a) /\ i = Len(b) + k BY <1>2, <3>0, <3>2
      <4> HIDE DEF k
      <4> QED BY <3>0, <4>1 DEF NoNewline
    <3> QED BY <3>1, <3>2
  <2>5. NoNewline(v) BY <2>4 DEF NoNewline
  <2>6. v \in Seq(Token) /\ Len(v) <= MaxLine BY <1>7, <2>1 DEF v
  <2>7. ph # "refused" BY DEF Ended
  <2>8. Sound(ph, e, ls, v, << >>, w, sn) BY <1>1, <1>4, <1>5, <1>7, <2>3, <2>5, <2>6, <2>7,
      Zenon DEF Sound
  <2> QED BY <2>8 DEF v
<1> QED BY <1>6, <1>7

(* At the end of the stream it returns what it has buffered.               *)
LEMMA SoundEnd ==
  ASSUME FrameConstants, NEW ph, NEW e, NEW ls, NEW b, NEW sn,
         Sound(ph, e, ls, b, << >>, << >>, sn), ph \notin Ended, b # << >>,
         NEW q, q \notin {"new", "refused"}
  PROVE  Sound(q, e, ls, << >>, << >>, << >>, Append(sn, Retry!Text(b)))
<1> DEFINE l == ls[Len(sn) + 1]
<1>1. /\ ls \in Seq(Lines) /\ b \in Seq(Token) /\ NoNewline(b) /\ Len(b) <= MaxLine
      /\ Framed(b \o (<< >> \o << >>), Len(sn), ls, e)
  BY DEF Sound
<1>2. b \o (<< >> \o << >>) = b
  <2>1. << >> \o << >> = << >> OBVIOUS
  <2>2. b \o << >> = b BY <1>1, ConcatEmptySeq
  <2> QED BY <2>1, <2>2
<1>3. Framed(b, Len(sn), ls, e) BY <1>1, <1>2, Zenon
<1>4. /\ Len(sn) + 1 = Len(ls) /\ e /\ l \in Lines /\ Len(b) \in 1 .. l.len /\ l.len \in Nat
      /\ \A j \in 1 .. Len(b) : b[j] = <<l, j>>
      /\ Framed(<< >>, Len(sn) + 1, ls, e)
  BY <1>1, <1>3, LastPiece
<1> HIDE DEF l
<1>5. IF Len(b) = l.len THEN Retry!Text(b) = l ELSE Retry!Text(b) = Retry!Junk BY <1>1, <1>4,
    TextOfPiece
<1>6. Told(Retry!Text(b), ls, Len(sn) + 1, e) /\ Retry!Text(b) \in Lines \cup {Retry!Junk}
  <2>1. CASE Len(b) = l.len
    <3>1. Retry!Text(b) = l /\ l.len <= MaxLine BY <1>1, <1>5, <2>1
    <3> QED BY <1>4, <3>1 DEF Told, l
  <2>2. CASE Len(b) # l.len
    <3>1. Retry!Text(b) = Retry!Junk BY <1>5, <2>2
    <3> QED BY <1>4, <3>1 DEF Told
  <2> QED BY <2>1, <2>2
<1>7. Len(sn) + 1 <= Len(ls)
  <2>1. Len(ls) \in Nat BY <1>1
  <2> QED BY <1>4, <2>1
<1>8. << >> \in Seq(Token) /\ << >> \o << >> = << >> OBVIOUS
<1>9. Framed(<< >> \o << >>, Len(sn) + 1, ls, e) BY <1>4, <1>8
<1> QED BY <1>6, <1>7, <1>8, <1>9, SoundReads

(* The state of the connections by connection.                             *)
FrameTypes ==
  /\ phase = [c \in Conns |-> phase[c]] /\ eof \in [Conns -> BOOLEAN]
  /\ sent = [c \in Conns |-> sent[c]] /\ buffered = [c \in Conns |-> buffered[c]]
  /\ available = [c \in Conns |-> available[c]] /\ net = [c \in Conns |-> net[c]]
  /\ seen = [c \in Conns |-> seen[c]]

(* The inductive invariant of framing.                                     *)
FrameInv ==
  /\ FrameTypes
  /\ \A c \in Conns :
       Sound(phase[c], eof[c], sent[c], buffered[c], available[c], net[c], seen[c])

(* The step of one connection.                                             *)
Becomes(c, p, e, ls, b, a, w, sn) ==
  /\ phase' = [phase EXCEPT ![c] = p] /\ eof' = [eof EXCEPT ![c] = e] /\ e \in BOOLEAN
  /\ sent' = [sent EXCEPT ![c] = ls] /\ buffered' = [buffered EXCEPT ![c] = b]
  /\ available' = [available EXCEPT ![c] = a] /\ net' = [net EXCEPT ![c] = w]
  /\ seen' = [seen EXCEPT ![c] = sn]

(* A step of one connection that leaves it sound keeps the invariant.      *)
LEMMA OneConnection ==
  ASSUME FrameInv, NEW c \in Conns, NEW p, NEW e, NEW ls, NEW b, NEW a, NEW w, NEW sn,
         Becomes(c, p, e, ls, b, a, w, sn), Sound(p, e, ls, b, a, w, sn)
  PROVE  FrameInv'
<1>1. FrameTypes' BY DEF FrameInv, FrameTypes, Becomes
<1>2. ASSUME NEW d \in Conns
      PROVE  Sound(phase'[d], eof'[d], sent'[d], buffered'[d], available'[d], net'[d], seen'[d])
  <2>1. CASE d = c
    <3>1. /\ phase'[d] = p /\ eof'[d] = e /\ sent'[d] = ls /\ buffered'[d] = b
          /\ available'[d] = a /\ net'[d] = w /\ seen'[d] = sn
      BY <2>1 DEF FrameInv, FrameTypes, Becomes
    <3> QED BY <3>1
  <2>2. CASE d # c
    <3>1. /\ phase'[d] = phase[d] /\ eof'[d] = eof[d] /\ sent'[d] = sent[d]
          /\ buffered'[d] = buffered[d] /\ available'[d] = available[d]
          /\ net'[d] = net[d] /\ seen'[d] = seen[d]
      BY <2>2 DEF FrameInv, FrameTypes, Becomes
    <3>2. Sound(phase[d], eof[d], sent[d], buffered[d], available[d], net[d], seen[d])
      BY DEF FrameInv
    <3> QED BY <3>1, <3>2
  <2> QED BY <2>1, <2>2
<1>3. \A d \in Conns :
          Sound(phase'[d], eof'[d], sent'[d], buffered'[d], available'[d], net'[d], seen'[d])
  BY <1>2
<1>4. (\A d \in Conns :
            Sound(phase[d], eof[d], sent[d], buffered[d], available[d], net[d], seen[d]))'
  BY <1>3
<1> QED BY <1>1, <1>4 DEF FrameInv

(* It holds in the beginning.                                              *)
LEMMA FrameStart == FrameConstants /\ Retry!Init => FrameInv
<1> SUFFICES ASSUME FrameConstants, Retry!Init PROVE FrameInv OBVIOUS
<1>1. FrameTypes BY DEF Retry!Init, FrameTypes
<1>2. ASSUME NEW c \in Conns
      PROVE  Sound(phase[c], eof[c], sent[c], buffered[c], available[c], net[c], seen[c])
  <2>1. /\ phase[c] = "new" /\ eof[c] = FALSE /\ sent[c] = << >> /\ buffered[c] = << >>
        /\ available[c] = << >> /\ net[c] = << >> /\ seen[c] = << >>
    BY DEF Retry!Init
  <2> QED BY <2>1, SoundStart
<1> QED BY <1>1, <1>2 DEF FrameInv

(* The invariant of framing is inductive.                                  *)
LEMMA FrameStep ==
  ASSUME FrameConstants, FrameInv, [Retry!Next]_(Retry!vars) PROVE FrameInv'
<1>1. ASSUME NEW c \in Conns
      PROVE  /\ eof[c] \in BOOLEAN
             /\ Sound(phase[c], eof[c], sent[c], buffered[c], available[c], net[c], seen[c])
             /\ phase = [phase EXCEPT ![c] = phase[c]] /\ eof = [eof EXCEPT ![c] = eof[c]]
             /\ sent = [sent EXCEPT ![c] = sent[c]]
             /\ buffered = [buffered EXCEPT ![c] = buffered[c]]
             /\ available = [available EXCEPT ![c] = available[c]]
             /\ net = [net EXCEPT ![c] = net[c]] /\ seen = [seen EXCEPT ![c] = seen[c]]
  BY DEF FrameInv, FrameTypes
<1>2. ASSUME NEW c \in Conns,
             Retry!Accept(c) \/ Retry!HandleLine(c) \/ Retry!LaunchTurn(c) \/ Retry!WriteResponse(c)
      PROVE  FrameInv'
  <2>1. /\ phase[c] \notin Ended
        /\ \E q : q \notin {"new", "refused"} /\ phase' = [phase EXCEPT ![c] = q]
        /\ UNCHANGED <<eof, sent, buffered, available, net, seen>>
    BY <1>2 DEF Retry!Accept, Retry!HandleLine, Retry!LaunchTurn, Retry!WriteResponse,
        Retry!stream, Ended, Retry!Initialize, Retry!Refuse,
                Retry!Replay, Retry!Conflict, Retry!Dispatch, Retry!Reply
  <2>2. PICK q : q \notin {"new", "refused"} /\ phase' = [phase EXCEPT ![c] = q] BY <2>1
  <2>3. Sound(q, eof[c], sent[c], buffered[c], available[c], net[c], seen[c])
    BY <1>1, <2>1, <2>2, SoundRephase
  <2>4. Becomes(c, q, eof[c], sent[c], buffered[c], available[c], net[c], seen[c])
    BY <1>1, <2>1, <2>2 DEF Becomes
  <2> QED BY <2>3, <2>4, OneConnection
<1>3. ASSUME NEW c \in Conns, NEW l \in Lines, Retry!ClientSends(c, l) PROVE FrameInv'
  <2>1. /\ phase[c] \notin Ended \cup {"new"} /\ eof[c] = FALSE
        /\ sent' = [sent EXCEPT ![c] = Append(sent[c], l)]
        /\ UNCHANGED <<phase, buffered, available, seen>>
    BY <1>1, <1>3 DEF Retry!ClientSends, Ended
  <2>2. /\ Sound(phase[c], FALSE, Append(sent[c], l), buffered[c], available[c],
                 net[c] \o Retry!Tokens(l) \o <<Retry!NL>>, seen[c])
        /\ \A n \in 1 .. l.len :
             Sound(phase[c], TRUE, Append(sent[c], l), buffered[c], available[c],
                   net[c] \o SubSeq(Retry!Tokens(l), 1, n), seen[c])
    <3>1. Sound(phase[c], FALSE, sent[c], buffered[c], available[c], net[c], seen[c])
      BY <1>1, <2>1
    <3> QED BY <2>1, <3>1, SoundSends
  <2>3. CASE net' = [net EXCEPT ![c] = @ \o Retry!Tokens(l) \o <<Retry!NL>>] /\ eof' = eof
    <3>1. eof' = [eof EXCEPT ![c] = FALSE] BY <1>1, <2>1, <2>3
    <3> DEFINE v == net[c] \o Retry!Tokens(l) \o <<Retry!NL>>
    <3>2. net' = [net EXCEPT ![c] = v] BY <2>3
    <3>3. Sound(phase[c], FALSE, Append(sent[c], l), buffered[c], available[c], v, seen[c])
      BY <2>2
    <3> HIDE DEF v
    <3>4. Becomes(c, phase[c], FALSE, Append(sent[c], l), buffered[c], available[c], v, seen[c])
      BY <1>1, <2>1, <3>1, <3>2 DEF Becomes
    <3> QED BY <3>3, <3>4, OneConnection
  <2>4. ASSUME NEW n \in 1 .. l.len, net' = [net EXCEPT ![c] = @ \o SubSeq(Retry!Tokens(l), 1, n)],
               eof' = [eof EXCEPT ![c] = TRUE]
        PROVE  FrameInv'
    <3> DEFINE v == net[c] \o SubSeq(Retry!Tokens(l), 1, n)
    <3>2. net' = [net EXCEPT ![c] = v] BY <2>4
    <3>3. Sound(phase[c], TRUE, Append(sent[c], l), buffered[c], available[c], v, seen[c])
      BY <2>2
    <3> HIDE DEF v
    <3>4. Becomes(c, phase[c], TRUE, Append(sent[c], l), buffered[c], available[c], v, seen[c])
      BY <1>1, <2>1, <2>4, <3>2 DEF Becomes
    <3> QED BY <3>3, <3>4, OneConnection
  <2> QED BY <1>3, <2>3, <2>4 DEF Retry!ClientSends
<1>4. ASSUME NEW c \in Conns, Retry!ClientCloses(c) PROVE FrameInv'
  <2>1. Sound(phase[c], TRUE, sent[c], buffered[c], available[c], net[c], seen[c])
    BY <1>1, SoundCloses
  <2>2. /\ eof' = [eof EXCEPT ![c] = TRUE]
        /\ UNCHANGED <<phase, sent, buffered, available, net, seen>>
    BY <1>4 DEF Retry!ClientCloses
  <2>3. Becomes(c, phase[c], TRUE, sent[c], buffered[c], available[c], net[c], seen[c])
    BY <1>1, <2>2 DEF Becomes
  <2> QED BY <2>1, <2>3, OneConnection
<1>5. ASSUME NEW c \in Conns, Retry!Fill(c) PROVE FrameInv'
  <2>1. /\ phase[c] \notin Ended \cup {"new"} /\ available[c] = << >>
        /\ UNCHANGED <<phase, eof, sent, buffered, seen>>
    BY <1>5 DEF Retry!Fill, Ended
  <2>2. PICK n \in 1 .. MaxFill :
          /\ n <= Len(net[c])
          /\ available' = [available EXCEPT ![c] = SubSeq(net[c], 1, n)]
          /\ net' = [net EXCEPT ![c] = SubSeq(@, n + 1, Len(@))]
    BY <1>5 DEF Retry!Fill
  <2>3. Sound(phase[c], eof[c], sent[c], buffered[c], << >>, net[c], seen[c]) BY <1>1, <2>1
  <2>4. n \in 1 .. Len(net[c])
    <3>1. net[c] \in Seq(Token) BY <2>3 DEF Sound
    <3> QED BY <2>2, <3>1
  <2>5. Sound(phase[c], eof[c], sent[c], buffered[c], SubSeq(net[c], 1, n),
              SubSeq(net[c], n + 1, Len(net[c])), seen[c])
    BY <2>1, <2>3, <2>4, SoundFill
  <2>6. Becomes(c, phase[c], eof[c], sent[c], buffered[c], SubSeq(net[c], 1, n),
                SubSeq(net[c], n + 1, Len(net[c])), seen[c])
    BY <1>1, <2>1, <2>2 DEF Becomes
  <2> QED BY <2>5, <2>6, OneConnection
<1>6. ASSUME NEW c \in Conns, NEW how \in {"closed", "refused"}, Retry!Close(c, how),
             Sound(how, eof[c], sent[c], << >>, << >>, << >>, seen[c]),
             UNCHANGED <<eof, sent, seen>>
      PROVE  FrameInv'
  <2>1. Becomes(c, how, eof[c], sent[c], << >>, << >>, << >>, seen[c])
    BY <1>1, <1>6 DEF Becomes, Retry!Close
  <2> QED BY <1>6, <2>1, OneConnection
<1>7. ASSUME NEW c \in Conns, Retry!Take(c) PROVE FrameInv'
  <2> DEFINE a == available[c]
             b == buffered[c]
             p == Retry!Least(Retry!Newlines(a))
  <2>1. /\ phase[c] = "reading" /\ phase[c] \notin Ended /\ a # << >> /\ UNCHANGED <<eof, sent>>
    BY <1>7 DEF Retry!Take, Ended
  <2>2. a \in Seq(Token) BY <1>1 DEF Sound
  <2>3. CASE Retry!Newlines(a) # {}
    <3>1. p \in 1 .. Len(a) /\ a[p] = Retry!NL /\ \A i \in 1 .. Len(a) : i < p => a[i] # Retry!NL
      BY <2>2, <2>3, LeastIs
    <3>2. /\ Len(b) + p - 1 > MaxLine =>
               Sound("refused", eof[c], sent[c], << >>, << >>, << >>, seen[c])
          /\ Len(b) + p - 1 <= MaxLine =>
               \A q : q \notin {"new", "refused"} =>
                 Sound(q, eof[c], sent[c], << >>, SubSeq(a, p + 1, Len(a)), net[c],
                       Append(seen[c], Retry!Text(b \o SubSeq(a, 1, p - 1))))
      <4> HIDE DEF p, a, b
      <4>1. Sound(phase[c], eof[c], sent[c], b, a, net[c], seen[c]) BY <1>1 DEF a, b
      <4> QED BY <2>1, <3>1, <4>1, SoundTake
    <3>3. CASE Len(b) + p - 1 > MaxLine /\ Retry!TooLarge(c)
      BY <1>6, <2>1, <3>2, <3>3 DEF Retry!TooLarge
    <3>4. CASE /\ Len(b) + p - 1 <= MaxLine
               /\ Retry!Received(c, b \o SubSeq(a, 1, p - 1))
               /\ buffered' = [buffered EXCEPT ![c] = << >>]
               /\ available' = [available EXCEPT ![c] = SubSeq(a, p + 1, Len(a))]
               /\ UNCHANGED net
      <4> DEFINE y == SubSeq(a, p + 1, Len(a))
                 s == Append(seen[c], Retry!Text(b \o SubSeq(a, 1, p - 1)))
      <4>1. /\ seen' = [seen EXCEPT ![c] = s]
            /\ phase' = phase \/ phase' = [phase EXCEPT ![c] = "handling"]
        BY <3>4 DEF Retry!Received
      <4>2. PICK q : q \notin {"new", "refused"} /\ phase' = [phase EXCEPT ![c] = q]
        BY <1>1, <2>1, <4>1
      <4>3. Sound(q, eof[c], sent[c], << >>, y, net[c], s) BY <3>2, <3>4, <4>2
      <4>4. available' = [available EXCEPT ![c] = y] BY <3>4
      <4> HIDE DEF y, s, p, a, b
      <4>5. Becomes(c, q, eof[c], sent[c], << >>, y, net[c], s)
        BY <1>1, <2>1, <3>4, <4>1, <4>2, <4>4 DEF Becomes
      <4> QED BY <4>3, <4>5, OneConnection
    <3> QED BY <1>7, <2>3, <3>3, <3>4 DEF Retry!Take
  <2>4. CASE Retry!Newlines(a) = {}
    <3>1. NoNewline(a)
      <4>1. DOMAIN a = 1 .. Len(a) BY <2>2
      <4> QED BY <2>4, <4>1 DEF Retry!Newlines, NoNewline
    <3>2. /\ Len(b) + Len(a) > MaxLine =>
               Sound("refused", eof[c], sent[c], << >>, << >>, << >>, seen[c])
          /\ Len(b) + Len(a) <= MaxLine =>
               Sound(phase[c], eof[c], sent[c], b \o a, << >>, net[c], seen[c])
      <4> HIDE DEF a, b
      <4>1. Sound(phase[c], eof[c], sent[c], b, a, net[c], seen[c]) BY <1>1 DEF a, b
      <4>2. phase[c] # "new" BY <2>1
      <4> QED BY <2>1, <3>1, <4>1, <4>2, SoundTakeAll
    <3>3. CASE Len(b) + Len(a) > MaxLine /\ Retry!TooLarge(c)
      BY <1>6, <2>1, <3>2, <3>3 DEF Retry!TooLarge
    <3>4. CASE /\ Len(b) + Len(a) <= MaxLine
               /\ buffered' = [buffered EXCEPT ![c] = @ \o a]
               /\ available' = [available EXCEPT ![c] = << >>]
               /\ UNCHANGED <<net, seen, phase, line, out>>
      <4> DEFINE v == b \o a
      <4>1. buffered' = [buffered EXCEPT ![c] = v] BY <3>4
      <4>2. Sound(phase[c], eof[c], sent[c], v, << >>, net[c], seen[c]) BY <3>2, <3>4
      <4> HIDE DEF v, a, b
      <4>3. Becomes(c, phase[c], eof[c], sent[c], v, << >>, net[c], seen[c])
        BY <1>1, <2>1, <3>4, <4>1 DEF Becomes
      <4> QED BY <4>2, <4>3, OneConnection
    <3> QED BY <1>7, <2>4, <3>3, <3>4 DEF Retry!Take
  <2> QED BY <2>3, <2>4
<1>8. ASSUME NEW c \in Conns, Retry!AtEof(c) PROVE FrameInv'
  <2>1. /\ phase[c] = "reading" /\ phase[c] \notin Ended /\ UNCHANGED <<eof, sent>>
        /\ net[c] = << >> /\ available[c] = << >>
    BY <1>8 DEF Retry!AtEof, Ended
  <2>2. CASE Retry!Close(c, "closed") /\ UNCHANGED <<seen, line, out>>
    <3>1. Sound("closed", eof[c], sent[c], << >>, << >>, << >>, seen[c]) BY <1>1, SoundStopped
    <3> QED BY <1>6, <2>1, <2>2, <3>1
  <2>3. CASE /\ buffered[c] # << >> /\ Retry!Received(c, buffered[c])
             /\ buffered' = [buffered EXCEPT ![c] = << >>] /\ UNCHANGED <<net, available>>
    <3> DEFINE s == Append(seen[c], Retry!Text(buffered[c]))
    <3>1. /\ seen' = [seen EXCEPT ![c] = s]
          /\ phase' = phase \/ phase' = [phase EXCEPT ![c] = "handling"]
      BY <2>3 DEF Retry!Received
    <3>2. PICK q : q \notin {"new", "refused"} /\ phase' = [phase EXCEPT ![c] = q]
      BY <1>1, <2>1, <3>1
    <3>3. Sound(phase[c], eof[c], sent[c], buffered[c], << >>, << >>, seen[c]) BY <1>1, <2>1
    <3>4. Sound(q, eof[c], sent[c], << >>, << >>, << >>, s) BY <2>1, <2>3, <3>2, <3>3, SoundEnd
    <3> HIDE DEF s
    <3>5. available' = [available EXCEPT ![c] = << >>] /\ net' = [net EXCEPT ![c] = << >>]
      BY <1>1, <2>1, <2>3
    <3>6. Becomes(c, q, eof[c], sent[c], << >>, << >>, << >>, s)
      BY <1>1, <2>1, <2>3, <3>1, <3>2, <3>5 DEF Becomes
    <3> QED BY <3>4, <3>6, OneConnection
  <2> QED BY <1>8, <2>2, <2>3 DEF Retry!AtEof
<1>9. ASSUME UNCHANGED <<phase, eof, sent, buffered, available, net, seen>> PROVE FrameInv'
  <2>1. FrameTypes' BY <1>9 DEF FrameInv, FrameTypes
  <2>2. \A d \in Conns :
          Sound(phase'[d], eof'[d], sent'[d], buffered'[d], available'[d], net'[d], seen'[d])
    BY <1>9 DEF FrameInv
  <2>3. (\A d \in Conns :
            Sound(phase[d], eof[d], sent[d], buffered[d], available[d], net[d], seen[d]))'
    BY <2>2
  <2> QED BY <2>1, <2>3 DEF FrameInv
<1>10. ASSUME NEW c \in Conns, Retry!Break(c) PROVE FrameInv'
  <2>1. Sound("closed", eof[c], sent[c], << >>, << >>, << >>, seen[c]) BY <1>1, SoundStopped
  <2> QED BY <1>6, <1>10, <2>1 DEF Retry!Break
<1>11. ASSUME Retry!Restart PROVE FrameInv'
  <2>1. FrameTypes' BY <1>11 DEF Retry!Restart, FrameInv, FrameTypes
  <2>2. ASSUME NEW d \in Conns
        PROVE  Sound(phase'[d], eof'[d], sent'[d], buffered'[d], available'[d], net'[d], seen'[d])
    <3>1. /\ eof'[d] = eof[d] /\ sent'[d] = sent[d] /\ seen'[d] = seen[d]
          /\ buffered'[d] = << >> /\ available'[d] = << >> /\ net'[d] = << >>
          /\ IF phase[d] \in {"new", "refused"} THEN phase'[d] = phase[d] ELSE phase'[d] = "closed"
      BY <1>11 DEF Retry!Restart
    <3>2. /\ Sound("closed", eof[d], sent[d], << >>, << >>, << >>, seen[d])
          /\ phase[d] \in {"new", "refused"} =>
               Sound(phase[d], eof[d], sent[d], << >>, << >>, << >>, seen[d])
      BY <1>1, SoundStopped
    <3> QED BY <3>1, <3>2
  <2>3. (\A d \in Conns :
            Sound(phase[d], eof[d], sent[d], buffered[d], available[d], net[d], seen[d]))'
    BY <2>2
  <2> QED BY <2>1, <2>3 DEF FrameInv
<1>12. ASSUME NEW c \in Conns, Retry!Notify(c) PROVE FrameInv' BY <1>9, <1>12 DEF Retry!Notify
<1>13. CASE UNCHANGED Retry!vars BY <1>9, <1>13 DEF Retry!vars
<1> QED BY <1>2, <1>3, <1>4, <1>5, <1>7, <1>8, <1>10, <1>11, <1>12, <1>13 DEF Retry!Next,
    Retry!Serve

(* It implies that framing is invisible.                                   *)
LEMMA FrameSays == FrameInv => FramingInvisible
<1> SUFFICES ASSUME FrameInv, NEW c \in Conns
             PROVE  /\ \A n \in DOMAIN seen[c] :
                         /\ n <= Len(sent[c])
                         /\ \/ seen[c][n] = sent[c][n] /\ sent[c][n].len <= MaxLine
                            \/ seen[c][n] = Retry!Junk /\ n = Len(sent[c]) /\ eof[c]
                    /\ phase[c] = "refused" => sent[c][Len(seen[c]) + 1].len > MaxLine
  BY DEF FramingInvisible, Retry!FramingInvisible
<1>1. Sound(phase[c], eof[c], sent[c], buffered[c], available[c], net[c], seen[c]) BY DEF FrameInv
<1> DEFINE s == seen[c]
           l == sent[c]
<1>2. /\ s \in Seq(Lines \cup {Retry!Junk}) /\ l \in Seq(Lines) /\ Len(s) <= Len(l)
      /\ \A n \in 1 .. Len(s) : Told(s[n], l, n, eof[c])
      /\ phase[c] = "refused" => l[Len(s) + 1].len > MaxLine
  BY <1>1 DEF Sound
<1> HIDE DEF s, l
<1>3. DOMAIN s = 1 .. Len(s) /\ Len(s) \in Nat /\ Len(l) \in Nat BY <1>2
<1>4. ASSUME NEW n \in DOMAIN s
      PROVE  /\ n <= Len(l)
             /\ (s[n] = l[n] /\ l[n].len <= MaxLine) \/ (s[n] = Retry!Junk /\ n = Len(l) /\ eof[c])
  <2>1. Told(s[n], l, n, eof[c]) BY <1>2, <1>3
  <2>2. n <= Len(l) BY <1>2, <1>3
  <2> QED BY <2>1, <2>2 DEF Told
<1> QED BY <1>2, <1>4 DEF s, l

(* read_frame returns the lines a client sent, whole and in order, in      *)
(* whichever pieces the bytes arrive and however often a notification      *)
(* drops the future that reads them, and refuses a line exactly if it is   *)
(* longer than the limit, for any lines, any limit and any number of       *)
(* connections (read_frame).                                               *)
THEOREM LinesAreAsSent == FrameConstants => (Retry!Spec => []FramingInvisible)
<1> SUFFICES ASSUME FrameConstants PROVE Retry!Spec => []FramingInvisible OBVIOUS
<1>1. Retry!Init => FrameInv BY FrameStart
<1>2. FrameInv /\ [Retry!Next]_(Retry!vars) => FrameInv' BY FrameStep
<1> QED BY <1>1, <1>2, FrameSays, PTL DEF Retry!Spec

-----------------------------------------------------------------------------
(* Processes on their state directories.                                   *)

(* "Nobody" is no process.                                                 *)
StartupConstants == Free \notin Procs

(* The steps of a process that holds the lock.                             *)
Owning == {"owner", "recovered", "checked", "connected", "cleared", "bound",
           "serving", "cleaned"}

(* Types of the state of Startup.                                          *)
StartupTypes ==
  /\ stateDir \in [Procs -> Dirs]
  /\ step \in [Procs -> Owning \cup Daemons!Over \cup {"new", "opened"}]
  /\ owner \in [Dirs -> Procs \cup {Free}]
  /\ turn \in [Dirs -> Procs \cup {Free}]
  /\ path \in Procs \cup {Free}
  /\ saw \in [Procs -> {"unknown", "nothing", "live", "stale"}]

(* The lock of a directory is held exactly by the process past it.         *)
LockIsHeld ==
  /\ \A p \in Procs : step[p] \in Owning <=> owner[stateDir[p]] = p
  /\ \A d \in Dirs : owner[d] # Free => stateDir[owner[d]] = d

(* A live turn was accepted by a process that serves or has served.        *)
TurnIsServed ==
  \A d \in Dirs : turn[d] # Free =>
    stateDir[turn[d]] = d /\ step[turn[d]] \in Daemons!Over \cup {"serving", "cleaned"}

(* All processes use one state directory.                                  *)
OneDirectory == \A p, q \in Procs : stateDir[p] = stateDir[q]

(* What a starting process saw is still true when it acts on it.           *)
SightIsFresh ==
  OneDirectory => \A p \in Procs :
    /\ step[p] # "socket_in_use"
    /\ Daemons!Listening(p) => path = p
    /\ step[p] = "connected" => /\ saw[p] = "nothing" => path = Free
                                /\ saw[p] = "stale" => path # Free
                                /\ saw[p] \in {"nothing", "stale"}
    /\ step[p] = "cleared" => path = Free

(* The inductive invariant of Startup.                                     *)
StartupInv == StartupTypes /\ LockIsHeld /\ TurnIsServed /\ SightIsFresh

USE DEF Owning, Daemons!Over

(* Every step of Startup keeps its types.                                  *)
LEMMA StartupTypeStep ==
  ASSUME StartupConstants, StartupTypes, [Daemons!Next]_(Daemons!vars)
  PROVE  StartupTypes'
<1>9. stateDir' = stateDir BY DEF Daemons!Next, Daemons!vars
<1> USE <1>9
<1> USE DEF StartupConstants, StartupTypes, Daemons!Goto, Daemons!End
<1>1. ASSUME NEW p \in Procs, Daemons!Start(p) PROVE StartupTypes'
  <2>1. CASE Daemons!Open(p) BY <2>1 DEF Daemons!Open
  <2>2. CASE Daemons!TryLockExclusive(p) BY <2>2 DEF Daemons!TryLockExclusive
  <2>3. CASE Daemons!RecoverInterruptedTurns(p) BY <2>3 DEF Daemons!RecoverInterruptedTurns
  <2>4. CASE Daemons!EnsureSocketParent(p) BY <2>4 DEF Daemons!EnsureSocketParent
  <2>5. CASE Daemons!LookAtPath(p) BY <2>5 DEF Daemons!LookAtPath
  <2>6. CASE Daemons!RemoveStale(p) BY <2>6 DEF Daemons!RemoveStale
  <2>7. CASE Daemons!Bind(p) BY <2>7 DEF Daemons!Bind
  <2>8. CASE Daemons!Serve(p) BY <2>8 DEF Daemons!Serve
  <2> QED BY <1>1, <2>1, <2>2, <2>3, <2>4, <2>5, <2>6, <2>7, <2>8 DEF Daemons!Start
<1>2. ASSUME NEW p \in Procs,
             Daemons!AcceptTurn(p) \/ Daemons!FinishTurn(p) \/ Daemons!SocketCleanup(p) \/ Daemons!Exit(p) \/ Daemons!Crash(p)
      PROVE StartupTypes'
  BY <1>2 DEF Daemons!AcceptTurn, Daemons!FinishTurn, Daemons!SocketCleanup, Daemons!Exit,
      Daemons!Crash
<1>3. CASE UNCHANGED Daemons!vars BY <1>3 DEF Daemons!vars
<1> QED BY <1>1, <1>2, <1>3 DEF Daemons!Next

(* The lock is given to one process at a time and back when it ends.       *)
LEMMA StartupLockStep ==
  ASSUME StartupConstants, StartupTypes, LockIsHeld, [Daemons!Next]_(Daemons!vars)
  PROVE  LockIsHeld'
<1>9. stateDir' = stateDir BY DEF Daemons!Next, Daemons!vars
<1> USE <1>9
<1> USE DEF StartupConstants, StartupTypes, LockIsHeld, Daemons!Goto, Daemons!End
<1>1. ASSUME NEW p \in Procs, Daemons!Start(p) PROVE LockIsHeld'
  <2>1. CASE Daemons!Open(p) BY <2>1 DEF Daemons!Open
  <2>2. CASE Daemons!TryLockExclusive(p) BY <2>2 DEF Daemons!TryLockExclusive
  <2>3. CASE Daemons!RecoverInterruptedTurns(p) BY <2>3 DEF Daemons!RecoverInterruptedTurns
  <2>4. CASE Daemons!EnsureSocketParent(p) BY <2>4 DEF Daemons!EnsureSocketParent
  <2>5. CASE Daemons!LookAtPath(p) BY <2>5 DEF Daemons!LookAtPath
  <2>6. CASE Daemons!RemoveStale(p) BY <2>6 DEF Daemons!RemoveStale
  <2>7. CASE Daemons!Bind(p) BY <2>7 DEF Daemons!Bind
  <2>8. CASE Daemons!Serve(p) BY <2>8 DEF Daemons!Serve
  <2> QED BY <1>1, <2>1, <2>2, <2>3, <2>4, <2>5, <2>6, <2>7, <2>8 DEF Daemons!Start
<1>2. ASSUME NEW p \in Procs,
             Daemons!AcceptTurn(p) \/ Daemons!FinishTurn(p) \/ Daemons!SocketCleanup(p) \/ Daemons!Exit(p) \/ Daemons!Crash(p)
      PROVE LockIsHeld'
  BY <1>2 DEF Daemons!AcceptTurn, Daemons!FinishTurn, Daemons!SocketCleanup, Daemons!Exit,
      Daemons!Crash, Daemons!Running
<1>3. CASE UNCHANGED Daemons!vars BY <1>3 DEF Daemons!vars
<1> QED BY <1>1, <1>2, <1>3 DEF Daemons!Next

(* A live turn belongs to a process that serves or did.                    *)
LEMMA StartupTurnStep ==
  ASSUME StartupConstants, StartupTypes, TurnIsServed, [Daemons!Next]_(Daemons!vars)
  PROVE  TurnIsServed'
<1>9. stateDir' = stateDir BY DEF Daemons!Next, Daemons!vars
<1> USE <1>9
<1> USE DEF StartupConstants, StartupTypes, TurnIsServed, Daemons!Goto, Daemons!End
<1>1. ASSUME NEW p \in Procs, Daemons!Start(p) PROVE TurnIsServed'
  <2>1. CASE Daemons!Open(p) BY <2>1 DEF Daemons!Open
  <2>2. CASE Daemons!TryLockExclusive(p) BY <2>2 DEF Daemons!TryLockExclusive
  <2>3. CASE Daemons!RecoverInterruptedTurns(p) BY <2>3 DEF Daemons!RecoverInterruptedTurns
  <2>4. CASE Daemons!EnsureSocketParent(p) BY <2>4 DEF Daemons!EnsureSocketParent
  <2>5. CASE Daemons!LookAtPath(p) BY <2>5 DEF Daemons!LookAtPath
  <2>6. CASE Daemons!RemoveStale(p) BY <2>6 DEF Daemons!RemoveStale
  <2>7. CASE Daemons!Bind(p) BY <2>7 DEF Daemons!Bind
  <2>8. CASE Daemons!Serve(p) BY <2>8 DEF Daemons!Serve
  <2> QED BY <1>1, <2>1, <2>2, <2>3, <2>4, <2>5, <2>6, <2>7, <2>8 DEF Daemons!Start
<1>2. ASSUME NEW p \in Procs,
             Daemons!AcceptTurn(p) \/ Daemons!FinishTurn(p) \/ Daemons!SocketCleanup(p) \/ Daemons!Exit(p) \/ Daemons!Crash(p)
      PROVE TurnIsServed'
  BY <1>2 DEF Daemons!AcceptTurn, Daemons!FinishTurn, Daemons!SocketCleanup, Daemons!Exit,
      Daemons!Crash, Daemons!Running
<1>3. CASE UNCHANGED Daemons!vars BY <1>3 DEF Daemons!vars
<1> QED BY <1>1, <1>2, <1>3 DEF Daemons!Next

(* Nobody else touches the socket between a look at it and the bind.       *)
LEMMA StartupSightStep ==
  ASSUME StartupConstants, StartupTypes, LockIsHeld, SightIsFresh, [Daemons!Next]_(Daemons!vars)
  PROVE  SightIsFresh'
<1>9. stateDir' = stateDir BY DEF Daemons!Next, Daemons!vars
<1> USE <1>9
<1> SUFFICES ASSUME OneDirectory PROVE SightIsFresh'
  BY DEF SightIsFresh, OneDirectory
(* Only the owner of the directory has passed the lock.                    *)
<1>0. ASSUME NEW p \in Procs, NEW q \in Procs,
             step[p] \in Owning, step[q] \in Owning
      PROVE p = q
  BY <1>0 DEF OneDirectory, LockIsHeld, StartupConstants
<1> USE DEF StartupConstants, StartupTypes, Daemons!Goto, Daemons!End, SightIsFresh, OneDirectory, Daemons!Listening
<1>1. ASSUME NEW p \in Procs, Daemons!Start(p) PROVE SightIsFresh'
  <2>1. CASE Daemons!Open(p) BY <2>1 DEF Daemons!Open
  <2>2. CASE Daemons!TryLockExclusive(p) BY <2>2, <1>0 DEF Daemons!TryLockExclusive
  <2>3. CASE Daemons!RecoverInterruptedTurns(p) BY <2>3 DEF Daemons!RecoverInterruptedTurns
  <2>4. CASE Daemons!EnsureSocketParent(p) BY <2>4 DEF Daemons!EnsureSocketParent
  <2>5. CASE Daemons!LookAtPath(p) BY <2>5, <1>0 DEF Daemons!LookAtPath
  <2>6. CASE Daemons!RemoveStale(p) BY <2>6, <1>0 DEF Daemons!RemoveStale
  <2>7. CASE Daemons!Bind(p) BY <2>7, <1>0 DEF Daemons!Bind
  <2>8. CASE Daemons!Serve(p) BY <2>8, <1>0 DEF Daemons!Serve
  <2> QED BY <1>1, <2>1, <2>2, <2>3, <2>4, <2>5, <2>6, <2>7, <2>8 DEF Daemons!Start
<1>2. ASSUME NEW p \in Procs,
             Daemons!AcceptTurn(p) \/ Daemons!FinishTurn(p) \/ Daemons!SocketCleanup(p) \/ Daemons!Exit(p) \/ Daemons!Crash(p)
      PROVE SightIsFresh'
  BY <1>0, <1>2 DEF Daemons!AcceptTurn, Daemons!FinishTurn, Daemons!SocketCleanup,
      Daemons!Exit, Daemons!Crash, Daemons!Running
<1>3. CASE UNCHANGED Daemons!vars BY <1>3 DEF Daemons!vars
<1> QED BY <1>1, <1>2, <1>3 DEF Daemons!Next

(* StartupInv is an invariant of Startup.                                  *)
LEMMA StartupInvariant == StartupConstants => (Daemons!Spec => []StartupInv)
<1> SUFFICES ASSUME StartupConstants PROVE Daemons!Spec => []StartupInv OBVIOUS
<1>1. Daemons!Init => StartupInv
  BY DEF Daemons!Init, StartupConstants, StartupInv, StartupTypes, LockIsHeld, TurnIsServed,
      SightIsFresh, Daemons!Listening
<1>2. StartupInv /\ [Daemons!Next]_(Daemons!vars) => StartupInv'
  BY StartupTypeStep, StartupLockStep, StartupTurnStep, StartupSightStep DEF StartupInv
<1> QED BY <1>1, <1>2, PTL DEF Daemons!Spec

(* The daemon that serves a state directory is the one clients reach: no   *)
(* other process takes its socket away, for any number of processes,       *)
(* crashes included (acquire_owner_lock, prepare_socket).                  *)
THEOREM SocketLeadsToTheServer == StartupConstants => (Daemons!Spec => []ServingIsReachable)
<1>1. StartupInv => ServingIsReachable
  BY DEF StartupInv, SightIsFresh, ServingIsReachable, Daemons!ServingIsReachable, OneDirectory
<1> QED BY <1>1, StartupInvariant, PTL

(* Recovery closes turns of dead processes only: no step of a starting     *)
(* daemon ends a turn that is still running (recover_interrupted_turns     *)
(* behind the lock), for any number of processes and state directories.    *)
THEOREM OnlyTheDeadAreRecovered == StartupConstants => (Daemons!Spec => RecoversTheDeadOnly)
<1> SUFFICES ASSUME StartupConstants PROVE Daemons!Spec => RecoversTheDeadOnly OBVIOUS
<1> DEFINE A == \A p \in Procs :
       step[p] = "owner" /\ step'[p] = "recovered" =>
         turn[stateDir[p]] = Free \/ ~Daemons!Running(turn[stateDir[p]])
<1>1. StartupInv => A
  <2> SUFFICES ASSUME StartupInv, NEW p \in Procs, step[p] = "owner", turn[stateDir[p]] # Free
               PROVE ~Daemons!Running(turn[stateDir[p]])
    OBVIOUS
  <2> DEFINE q == turn[stateDir[p]]
  <2>1. q \in Procs /\ stateDir[q] = stateDir[p] /\ step[q] \in Daemons!Over \cup {"serving", "cleaned"}
    BY DEF StartupInv, StartupTypes, TurnIsServed, StartupConstants
  <2>2. step[q] \in Owning => q = p
    BY <2>1 DEF StartupInv, LockIsHeld
  <2> QED BY <2>1, <2>2 DEF Daemons!Running
<1>2. StartupInv => [A]_(Daemons!vars) BY <1>1
<1> QED BY <1>2, StartupInvariant, PTL DEF RecoversTheDeadOnly, Daemons!RecoversTheDeadOnly

=============================================================================
