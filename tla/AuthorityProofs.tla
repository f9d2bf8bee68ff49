--------------------------- MODULE AuthorityProofs ---------------------------
(***************************************************************************)
(* What stands between a proposed call and its effect: tokens and the       *)
(* publication of patches, for any tokens, tasks, files, lifetimes and      *)
(* capacities that AuthorityAssumption allows; the tool registry, for any   *)
(* tools, templates and paths; and the verdicts of the client, for any      *)
(* number of requests.                                                      *)
(***************************************************************************)
EXTENDS Authorization, Sequences, SequenceTheorems, FiniteSetTheorems, TLAPS

(* A token in use was prepared, and no earlier than time began.             *)
KnownTokens ==
  /\ \A t \in issued : prepared[t] # NotPrepared
  /\ \A t \in Tokens : prepared[t] # NotPrepared => prepared[t].at <= now
  /\ \A e \in Executors :
       call[e] # Idle => prepared[call[e].token] # NotPrepared
  /\ \A t \in Tokens : permits[t] > 0 => prepared[t] # NotPrepared

(* What a call that passed its first checks may rely on until its token is  *)
(* consumed.                                                                *)
CallsInTime ==
  \A e \in Executors :
    call[e].phase \in Validating =>
      /\ call[e].at < Expires(call[e].token)
      /\ now <= call[e].at + MaxStall

(* Every call runs on an approval or reads only; only patches publish.      *)
CallsApproved ==
  \A e \in Executors :
    /\ call[e] # Idle => call[e].token \in ReadOnly \union approved
    /\ call[e].phase \in {"located", "opened", "verified"} =>
         call[e].token \in Patches

(* A use is on record until no call can meet it any more.                   *)
UseOnRecord ==
  \A t \in Tokens :
    /\ consumed[t] # Never => permits[t] > 0
    /\ consumed[t] # Never => prepared[t].at <= consumed[t]
    /\ (permits[t] > 0 /\ t \notin evicted) =>
         consumed[t] # Never \/ now > prepared[t].at + Retention

(* mutation_gate excludes a second publication of the same turn.            *)
OnePublisher ==
  \A e, f \in Executors :
    /\ call[e].phase \in Publishing /\ call[f].phase \in Publishing
    /\ TurnOf[call[e].token] = TurnOf[call[f].token]
    => e = f

(* The inductive invariant.                                                 *)
IInv ==
  /\ TypeOK
  /\ KnownTokens
  /\ CallsInTime
  /\ CallsApproved
  /\ UseOnRecord
  /\ OnePublisher
  /\ SingleUse
  /\ AuthorityFresh
  /\ NoBlindOverwrite

-----------------------------------------------------------------------------
(* A fresh token has no call, no approval that counts and no use yet.       *)
LEMMA PrepareKeeps ==
  ASSUME IInv, NEW t \in Tokens, Prepare(t)
  PROVE  IInv'
<1> USE AuthorityAssumption DEF IInv, TypeOK, Files, Prepared, NotPrepared,
    Never, Calls, Idle, Phases, Validating, Publishing, TwoOrMore
<1>1. TypeOK'
  BY DEF Prepare, Live, Of
<1>2. KnownTokens'
  BY DEF KnownTokens, Live, Of, Prepare
<1>3. CallsInTime'
  BY DEF CallsInTime, Expires, KnownTokens, Live, Of, Prepare
<1>4. UseOnRecord'
  BY DEF KnownTokens, Live, Of, Prepare, Retention, UseOnRecord
<1>5. AuthorityFresh'
  BY DEF AuthorityFresh, Expires, KnownTokens, Live, Of, Prepare, Retention,
      UseOnRecord
<1>6. NoBlindOverwrite'
  BY DEF CallsApproved, KnownTokens, Live, Of, NoBlindOverwrite, OnePublisher,
      Prepare
<1>7. CallsApproved' /\ OnePublisher' /\ SingleUse'
  BY DEF CallsApproved, OnePublisher, SingleUse, Prepare
<1> QED
  BY <1>1, <1>2, <1>3, <1>4, <1>5, <1>6, <1>7 DEF IInv

(* Pruning only forgets issued tokens.                                      *)
LEMMA PrepareRefusedKeeps ==
  ASSUME IInv, NEW p \in Turns, PrepareRefused(p)
  PROVE  IInv'
<1> USE AuthorityAssumption DEF IInv, TypeOK, Files, Prepared, NotPrepared,
    Never, Calls, Idle, Phases, Validating, Publishing, TwoOrMore
<1>1. TypeOK'
  BY DEF PrepareRefused, Live, Of
<1>2. KnownTokens'
  BY DEF KnownTokens, Live, Of, PrepareRefused
<1>3. CallsInTime' /\ CallsApproved' /\ UseOnRecord' /\ OnePublisher' /\
    SingleUse' /\ AuthorityFresh' /\ NoBlindOverwrite'
  BY DEF CallsInTime, Expires, CallsApproved, UseOnRecord, Retention,
      OnePublisher, SingleUse, AuthorityFresh, NoBlindOverwrite,
      PrepareRefused
<1> QED
  BY <1>1, <1>2, <1>3 DEF IInv

(* A refused approval or execution only prunes.                             *)
LEMMA RefuseKeeps ==
  ASSUME IInv, NEW t \in Tokens, Refuse(t)
  PROVE  IInv'
<1> USE AuthorityAssumption DEF IInv, TypeOK, Files, Prepared, NotPrepared,
    Never, Calls, Idle, Phases, Validating, Publishing, TwoOrMore
<1>1. TypeOK'
  BY DEF Refuse, Live, Of
<1>2. KnownTokens'
  BY DEF KnownTokens, Live, Of, Refuse
<1>3. CallsInTime' /\ CallsApproved' /\ UseOnRecord' /\ OnePublisher' /\
    SingleUse' /\ AuthorityFresh' /\ NoBlindOverwrite'
  BY DEF CallsInTime, Expires, CallsApproved, UseOnRecord, Retention,
      OnePublisher, SingleUse, AuthorityFresh, NoBlindOverwrite, Refuse
<1> QED
  BY <1>1, <1>2, <1>3 DEF IInv

(* An approval adds authority and takes none away.                          *)
LEMMA ApproveOnceKeeps ==
  ASSUME IInv, NEW t \in Tokens, ApproveOnce(t)
  PROVE  IInv'
<1> USE AuthorityAssumption DEF IInv, TypeOK, Files, Prepared, NotPrepared,
    Never, Calls, Idle, Phases, Validating, Publishing, TwoOrMore
<1>1. TypeOK'
  BY DEF ApproveOnce, Live, Of
<1>2. KnownTokens'
  BY DEF ApproveOnce, KnownTokens, Live, Of
<1>3. CallsApproved'
  BY DEF ApproveOnce, CallsApproved, Live, Of
<1>4. AuthorityFresh'
  BY DEF ApproveOnce, AuthorityFresh, Expires, KnownTokens, Live, Of, Retention,
      UseOnRecord
<1>5. NoBlindOverwrite'
  BY DEF ApproveOnce, CallsApproved, KnownTokens, Live, Of, NoBlindOverwrite,
      OnePublisher
<1>6. CallsInTime' /\ UseOnRecord' /\ OnePublisher' /\ SingleUse'
  BY DEF CallsInTime, Expires, UseOnRecord, Retention, OnePublisher,
      SingleUse, ApproveOnce
<1> QED
  BY <1>1, <1>2, <1>3, <1>4, <1>5, <1>6 DEF IInv

(* The first checks establish what the call relies on later.                *)
LEMMA BeginExecuteKeeps ==
  ASSUME IInv, NEW e \in Executors, NEW t \in Tokens, BeginExecute(e, t)
  PROVE  IInv'
<1> USE AuthorityAssumption DEF IInv, TypeOK, Files, Prepared, NotPrepared,
    Never, Calls, Idle, Phases, Validating, Publishing, TwoOrMore
<1>1. TypeOK'
  <2>1. prepared[t] \in Prepared /\ now \in Nat
    BY DEF BeginExecute, IsIssued, KnownTokens
  <2>2. Call("checked", t, now, prepared[t].base, FALSE) \in Calls
    BY <2>1 DEF Call
  <2> QED
    BY <2>2 DEF BeginExecute, Live, Of
<1>2. KnownTokens'
  BY DEF ApprovalValid, BeginExecute, Call, IsIssued, KnownTokens, Live, Of,
      Expires
<1>3. CallsInTime'
  BY DEF ApprovalValid, BeginExecute, Call, CallsInTime, Expires, IsIssued,
      KnownTokens, Live, Of
<1>4. CallsApproved'
  BY DEF ApprovalValid, BeginExecute, Call, CallsApproved, IsIssued, Live, Of,
      KnownTokens, Expires
<1>5. OnePublisher'
  BY DEF ApprovalValid, BeginExecute, Call, IsIssued, Live, Of, OnePublisher
<1>6. NoBlindOverwrite'
  BY DEF ApprovalValid, BeginExecute, Call, CallsApproved, IsIssued,
      KnownTokens, Live, Of, NoBlindOverwrite, OnePublisher
<1>7. UseOnRecord' /\ SingleUse' /\ AuthorityFresh'
  BY DEF UseOnRecord, Retention, SingleUse, AuthorityFresh, Expires,
      BeginExecute
<1> QED
  BY <1>1, <1>2, <1>3, <1>4, <1>5, <1>6, <1>7 DEF IInv

(* A look at the file keeps token and time of the call.                     *)
LEMMA PlanKeeps ==
  ASSUME IInv, NEW e \in Executors, Plan(e)
  PROVE  IInv'
<1> USE AuthorityAssumption DEF IInv, TypeOK, Files, Prepared, NotPrepared,
    Never, Calls, Idle, Phases, Validating, Publishing, TwoOrMore
<1>1. TypeOK'
  BY DEF Plan, Goto, At, Call
<1>2. KnownTokens'
  BY DEF At, Call, Goto, KnownTokens, Plan
<1>3. CallsInTime'
  BY DEF At, Call, CallsInTime, Expires, Goto, KnownTokens, Plan
<1>4. CallsApproved'
  BY DEF At, Call, CallsApproved, Goto, Plan
<1>5. OnePublisher'
  BY DEF At, Call, Goto, OnePublisher, Plan
<1>6. NoBlindOverwrite'
  BY DEF At, Call, CallsApproved, Goto, KnownTokens, NoBlindOverwrite,
      OnePublisher, Plan
<1>7. UseOnRecord' /\ SingleUse' /\ AuthorityFresh'
  BY DEF UseOnRecord, Retention, SingleUse, AuthorityFresh, Expires, Plan,
      Goto
<1> QED
  BY <1>1, <1>2, <1>3, <1>4, <1>5, <1>6, <1>7 DEF IInv

(* The second look keeps token and time of the call.                        *)
LEMMA RevalidateKeeps ==
  ASSUME IInv, NEW e \in Executors, Revalidate(e)
  PROVE  IInv'
<1> USE AuthorityAssumption DEF IInv, TypeOK, Files, Prepared, NotPrepared,
    Never, Calls, Idle, Phases, Validating, Publishing, TwoOrMore
<1>1. TypeOK'
  BY DEF Revalidate, SameBase, Goto, At, Call
<1>2. KnownTokens'
  BY DEF At, Call, Goto, KnownTokens, Revalidate, SameBase
<1>3. CallsInTime'
  BY DEF At, Call, CallsInTime, Expires, Goto, KnownTokens, Revalidate,
      SameBase
<1>4. CallsApproved'
  BY DEF At, Call, CallsApproved, Goto, Revalidate, SameBase
<1>5. OnePublisher'
  BY DEF At, Call, Goto, OnePublisher, Revalidate, SameBase
<1>6. NoBlindOverwrite'
  BY DEF At, Call, CallsApproved, Goto, KnownTokens, NoBlindOverwrite,
      OnePublisher, Revalidate, SameBase
<1>7. UseOnRecord' /\ SingleUse' /\ AuthorityFresh'
  BY DEF UseOnRecord, Retention, SingleUse, AuthorityFresh, Expires,
      Revalidate, Goto
<1> QED
  BY <1>1, <1>2, <1>3, <1>4, <1>5, <1>6, <1>7 DEF IInv

(* The heart of single use: a recorded use cannot have been pruned yet.     *)
LEMMA ConsumeKeeps ==
  ASSUME IInv, NEW e \in Executors, Consume(e)
  PROVE  IInv'
<1> DEFINE t == call[e].token
<1> USE AuthorityAssumption DEF IInv, TypeOK, Files, Prepared, NotPrepared,
    Never, Calls, Idle, Phases, Validating, Publishing, TwoOrMore
<1>1. /\ t \in Tokens /\ call[e] \in Calls
      /\ prepared[t] # NotPrepared /\ prepared[t] \in Prepared
      /\ prepared[t].at <= now
  BY DEF Consume, At, KnownTokens
<1>2. PICK gone \in Victims(TurnOf[t]) :
        /\ consumed' = [u \in Tokens |-> IF u = t THEN now
                                         ELSE IF u \in gone THEN Never
                                         ELSE Remembered(TurnOf[t])[u]]
        /\ evicted' = evicted \union gone
  BY DEF Consume
<1>3. gone \subseteq Tokens
  BY <1>1 DEF Victims, Held, Of
<1>4. now < Expires(t) + MaxStall
  BY <1>1 DEF Consume, At, CallsInTime, Expires
<1>5. t \notin evicted => permits[t] = 0
  <2> SUFFICES ASSUME t \notin evicted, permits[t] # 0 PROVE FALSE
    OBVIOUS
  <2>1. permits[t] > 0
    BY <1>1
  <2>2. now <= prepared[t].at + Retention
    BY <1>1, <1>4 DEF Expires, Retention
  <2>3. consumed[t] # Never /\ prepared[t].at <= consumed[t]
    BY <1>1, <2>1, <2>2 DEF UseOnRecord, Retention
  <2>4. Remembered(TurnOf[t])[t] # Never
    BY <1>1, <2>2, <2>3 DEF Remembered, Retention
  <2> QED
    BY <1>1, <2>4 DEF Consume, Unused, Held, Of
<1>6. TypeOK'
  BY <1>1, <1>2, <1>3 DEF Consume, Remembered
<1>7. KnownTokens' /\ CallsInTime' /\ CallsApproved'
  BY <1>1 DEF Consume, KnownTokens, CallsInTime, CallsApproved, Expires, At
<1>8. UseOnRecord'
  <2> SUFFICES ASSUME NEW u \in Tokens
               PROVE  /\ consumed'[u] # Never => permits'[u] > 0
                      /\ consumed'[u] # Never => prepared[u].at <=
                          consumed'[u]
                      /\ (permits'[u] > 0 /\ u \notin evicted') =>
                           consumed'[u] # Never
                             \/ now > prepared[u].at + Retention
    BY DEF UseOnRecord, Consume, Retention
  <2>1. CASE u = t
    BY <1>1, <1>2, <2>1 DEF Consume
  <2>2. CASE u # t
    <3>1. permits'[u] = permits[u]
      BY <2>2 DEF Consume
    <3>2. CASE u \in gone
      BY <1>2, <2>2, <3>1, <3>2
    <3>3. CASE u \notin gone
      <4>1. consumed'[u] = Remembered(TurnOf[t])[u] /\ (u \in evicted' <=> u \in evicted)
        BY <1>2, <2>2, <3>3
      <4>2. permits[u] > 0 => prepared[u] \in Prepared
        BY DEF KnownTokens
      <4>3. Remembered(TurnOf[t])[u] # Never => Remembered(TurnOf[t])[u] = consumed[u]
        BY DEF Remembered
      <4>4. consumed[u] # Never /\ Remembered(TurnOf[t])[u] = Never =>
              now > prepared[u].at + Retention
        BY <4>2 DEF Remembered, UseOnRecord, Retention
      <4> QED
        BY <3>1, <4>1, <4>3, <4>4 DEF UseOnRecord
    <3> QED
      BY <3>2, <3>3
  <2> QED
    BY <2>1, <2>2
<1>9. OnePublisher' /\ NoBlindOverwrite'
  BY <1>1 DEF Consume, OnePublisher, NoBlindOverwrite
<1>10. SingleUse'
  BY <1>1, <1>2, <1>5 DEF Consume, SingleUse
<1>11. AuthorityFresh'
  <2> SUFFICES ASSUME NEW u \in Tokens
               PROVE  /\ permits'[u] > 0 => u \in ReadOnly \union approved
                      /\ consumed'[u] # Never =>
                           consumed'[u] < Expires(u) + MaxStall
    BY DEF AuthorityFresh, Consume, Expires
  <2>1. CASE u = t
    BY <1>1, <1>2, <1>4, <2>1 DEF Consume, CallsApproved
  <2>2. CASE u # t
    BY <1>2, <2>2 DEF Consume, AuthorityFresh, Remembered
  <2> QED
    BY <2>1, <2>2
<1> QED
  BY <1>6, <1>7, <1>8, <1>9, <1>10, <1>11 DEF IInv

(* Pruning drops only uses that no call can meet any more.                  *)
LEMMA ConsumeRefusedKeeps ==
  ASSUME IInv, NEW e \in Executors, ConsumeRefused(e)
  PROVE  IInv'
<1> USE AuthorityAssumption DEF IInv, TypeOK, Files, Prepared, NotPrepared,
    Never, Calls, Idle, Phases, Validating, Publishing, TwoOrMore
<1>1. TypeOK'
  BY DEF ConsumeRefused, At, Remembered
<1>2. KnownTokens'
  BY DEF At, ConsumeRefused, KnownTokens, Remembered
<1>3. CallsInTime'
  BY DEF At, CallsInTime, ConsumeRefused, Expires, KnownTokens, Remembered
<1>4. CallsApproved'
  BY DEF At, CallsApproved, ConsumeRefused, Remembered
<1>5. UseOnRecord'
  BY DEF At, ConsumeRefused, KnownTokens, Remembered, Retention, UseOnRecord
<1>6. OnePublisher'
  BY DEF At, ConsumeRefused, OnePublisher, Remembered
<1>7. AuthorityFresh'
  BY DEF At, AuthorityFresh, ConsumeRefused, Expires, KnownTokens, Remembered,
      Retention, UseOnRecord
<1>8. NoBlindOverwrite'
  BY DEF At, CallsApproved, ConsumeRefused, KnownTokens, NoBlindOverwrite,
      OnePublisher, Remembered
<1>9. SingleUse'
  BY DEF SingleUse, ConsumeRefused
<1> QED
  BY <1>1, <1>2, <1>3, <1>4, <1>5, <1>6, <1>7, <1>8, <1>9 DEF IInv

(* An ended call leaves no obligation behind.                               *)
LEMMA ReturnKeeps ==
  ASSUME IInv, NEW e \in Executors, Return(e)
  PROVE  IInv'
<1> USE AuthorityAssumption DEF IInv, TypeOK, Files, Prepared, NotPrepared,
    Never, Calls, Idle, Phases, Validating, Publishing, TwoOrMore
<1>1. TypeOK'
  BY DEF Return
<1>2. KnownTokens'
  BY DEF KnownTokens, Return
<1>3. CallsInTime'
  BY DEF CallsInTime, Expires, KnownTokens, Return
<1>4. CallsApproved'
  BY DEF CallsApproved, Return
<1>5. OnePublisher'
  BY DEF OnePublisher, Return
<1>6. NoBlindOverwrite'
  BY DEF CallsApproved, KnownTokens, NoBlindOverwrite, OnePublisher, Return
<1>7. UseOnRecord' /\ SingleUse' /\ AuthorityFresh'
  BY DEF UseOnRecord, Retention, SingleUse, AuthorityFresh, Expires, Return
<1> QED
  BY <1>1, <1>2, <1>3, <1>4, <1>5, <1>6, <1>7 DEF IInv

(* Only patches reach the publication.                                      *)
LEMMA LocateKeeps ==
  ASSUME IInv, NEW e \in Executors, Locate(e)
  PROVE  IInv'
<1> USE AuthorityAssumption DEF IInv, TypeOK, Files, Prepared, NotPrepared,
    Never, Calls, Idle, Phases, Validating, Publishing, TwoOrMore
<1>1. TypeOK'
  BY DEF Locate, Goto, At, Call
<1>2. KnownTokens'
  BY DEF At, Call, Goto, KnownTokens, Locate
<1>3. CallsInTime'
  BY DEF At, Call, CallsInTime, Expires, Goto, KnownTokens, Locate
<1>4. CallsApproved'
  BY DEF At, Call, CallsApproved, Goto, Locate
<1>5. OnePublisher'
  BY DEF At, Call, Goto, Locate, OnePublisher
<1>6. NoBlindOverwrite'
  BY DEF At, Call, CallsApproved, Goto, KnownTokens, Locate, NoBlindOverwrite,
      OnePublisher
<1>7. UseOnRecord' /\ SingleUse' /\ AuthorityFresh'
  BY DEF UseOnRecord, Retention, SingleUse, AuthorityFresh, Expires, Locate,
      Goto
<1> QED
  BY <1>1, <1>2, <1>3, <1>4, <1>5, <1>6, <1>7 DEF IInv

(* The gate admits one publisher.                                           *)
LEMMA OpenBaseKeeps ==
  ASSUME IInv, NEW e \in Executors, OpenBase(e)
  PROVE  IInv'
<1> USE AuthorityAssumption DEF IInv, TypeOK, Files, Prepared, NotPrepared,
    Never, Calls, Idle, Phases, Validating, Publishing, TwoOrMore
<1>1. TypeOK'
  BY DEF OpenBase, MutationGateFree, SameGate, SameContent, Goto, At, Call
<1>2. KnownTokens'
  BY DEF At, Call, Goto, KnownTokens, MutationGateFree, SameGate, OpenBase, SameContent
<1>3. CallsInTime'
  BY DEF At, Call, CallsInTime, Expires, Goto, KnownTokens, MutationGateFree, SameGate,
      OpenBase, SameContent
<1>4. CallsApproved'
  BY DEF At, Call, CallsApproved, Goto, MutationGateFree, SameGate, OpenBase,
      SameContent
<1>5. OnePublisher'
  BY DEF At, Call, Goto, MutationGateFree, SameGate, OnePublisher, OpenBase, SameContent
<1>6. NoBlindOverwrite'
  BY DEF At, Call, CallsApproved, Goto, KnownTokens, MutationGateFree, SameGate,
      NoBlindOverwrite, OnePublisher, OpenBase, SameContent
<1>7. UseOnRecord' /\ SingleUse' /\ AuthorityFresh'
  BY DEF UseOnRecord, Retention, SingleUse, AuthorityFresh, Expires, OpenBase,
      Goto
<1> QED
  BY <1>1, <1>2, <1>3, <1>4, <1>5, <1>6, <1>7 DEF IInv

(* The last check establishes the reviewed content.                         *)
LEMMA VerifyKeeps ==
  ASSUME IInv, NEW e \in Executors, Verify(e)
  PROVE  IInv'
<1> USE AuthorityAssumption DEF IInv, TypeOK, Files, Prepared, NotPrepared,
    Never, Calls, Idle, Phases, Validating, Publishing, TwoOrMore
<1>1. TypeOK'
  BY DEF Verify, SameContent, Goto, At, Call
<1>2. KnownTokens'
  BY DEF At, Call, Goto, KnownTokens, SameContent, Verify
<1>3. CallsInTime'
  BY DEF At, Call, CallsInTime, Expires, Goto, KnownTokens, SameContent,
      Verify
<1>4. CallsApproved'
  BY DEF At, Call, CallsApproved, Goto, SameContent, Verify
<1>5. OnePublisher'
  BY DEF At, Call, Goto, OnePublisher, SameContent, Verify
<1>6. NoBlindOverwrite'
  BY DEF At, Call, CallsApproved, Goto, KnownTokens, NoBlindOverwrite,
      OnePublisher, SameContent, Verify
<1>7. UseOnRecord' /\ SingleUse' /\ AuthorityFresh'
  BY DEF UseOnRecord, Retention, SingleUse, AuthorityFresh, Expires, Verify,
      Goto
<1> QED
  BY <1>1, <1>2, <1>3, <1>4, <1>5, <1>6, <1>7 DEF IInv

(* Of the turn's own patches none is being published but this one, so the   *)
(* others under way are at most raced.                                      *)
LEMMA PublishKeeps ==
  ASSUME IInv, NEW e \in Executors, Publish(e)
  PROVE  IInv'
<1> USE AuthorityAssumption DEF IInv, TypeOK, Files, Prepared, NotPrepared,
    Never, Calls, Idle, Phases, Validating, Publishing, TwoOrMore
<1>1. ASSUME NEW o \in Executors
      PROVE  /\ call'[o] \in Calls \union {Idle}
             /\ call'[o].phase # "idle" =>
                  /\ call[o] \in Calls /\ call'[o] \in Calls
                  /\ call'[o].phase = call[o].phase
                  /\ call'[o].token = call[o].token
                  /\ call'[o].at = call[o].at
                  /\ call'[o].phase = "verified" => call'[o].raced
             /\ call'[o].phase = "idle" => call'[o] = Idle
  <2>1. CASE o = e BY <2>1 DEF Publish
  <2>2. CASE o # e /\ call[o].phase = "verified"
    <3>1. call[o] \in Calls BY <2>2
    <3>2. ~ SameGate(e, o) BY <2>2 DEF Publish, At, SameGate, OnePublisher
    <3>3. call'[o] = [call[o] EXCEPT !.raced = TRUE]
      BY <2>2, <3>2 DEF Publish, Raced
    <3> QED BY <2>2, <3>1, <3>3
  <2>3. CASE o # e /\ call[o].phase # "verified"
    <3>1. call'[o] = call[o] BY <2>3 DEF Publish
    <3>2. call[o] \in Calls \/ call[o] = Idle OBVIOUS
    <3> QED BY <2>3, <3>1, <3>2
  <2> QED BY <2>1, <2>2, <2>3
<1>2. /\ call' = [o \in Executors |-> call'[o]] /\ file' \in Files
      /\ UNCHANGED <<now, prepared, issued, approved, consumed, permits, evicted>>
  <2>1. PICK n \in Nodes : file' = [node |-> n, content |-> Replacement[call[e].token]]
    BY DEF Publish
  <2>2. call[e].token \in Tokens BY DEF Publish, At
  <2> QED BY <2>1, <2>2 DEF Publish
<1>3. TypeOK'
  <2>1. call' \in [Executors -> Calls \union {Idle}] BY <1>1, <1>2
  <2> QED BY <1>2, <2>1
<1>4. KnownTokens'
  <2>1. \A o \in Executors : call'[o] # Idle => prepared[call'[o].token] # NotPrepared
    BY <1>1 DEF KnownTokens
  <2> QED BY <1>2, <2>1 DEF KnownTokens
<1>5. CallsInTime'
  BY <1>1, <1>2 DEF CallsInTime, Expires
<1>6. CallsApproved'
  BY <1>1, <1>2 DEF CallsApproved
<1>7. OnePublisher'
  BY <1>1 DEF OnePublisher
<1>8. NoBlindOverwrite'
  BY <1>1, <1>2 DEF NoBlindOverwrite
<1>9. UseOnRecord' /\ SingleUse' /\ AuthorityFresh'
  BY DEF UseOnRecord, Retention, SingleUse, AuthorityFresh, Expires, Publish
<1> QED
  BY <1>3, <1>4, <1>5, <1>6, <1>7, <1>8, <1>9 DEF IInv

(* A writer outside the daemon marks the verified call as raced.            *)
LEMMA EditKeeps ==
  ASSUME IInv, Edit
  PROVE  IInv'
<1> USE AuthorityAssumption DEF IInv, TypeOK, Files, Prepared, NotPrepared,
    Never, Calls, Idle, Phases, Validating, Publishing, TwoOrMore
<1>1. TypeOK'
  <2>1. call' \in [Executors -> Calls \union {Idle}]
    <3> SUFFICES ASSUME NEW e \in Executors
                 PROVE  call'[e] \in Calls \union {Idle}
      BY DEF Edit, Raced
    <3>1. CASE call[e].phase = "verified"
      <4>1. call[e] \in Calls
        BY <3>1
      <4>2. call'[e] = [call[e] EXCEPT !.raced = TRUE]
        BY <3>1 DEF Edit, Raced
      <4> QED
        BY <4>1, <4>2
    <3>2. CASE call[e].phase # "verified"
      BY <3>2 DEF Edit, Raced
    <3> QED
      BY <3>1, <3>2
  <2> QED
    BY <2>1 DEF Edit, Raced
<1>2. KnownTokens'
  BY DEF Edit, Raced, KnownTokens
<1>3. CallsInTime'
  BY DEF CallsInTime, Edit, Raced, Expires, KnownTokens
<1>4. CallsApproved'
  BY DEF CallsApproved, Edit, Raced
<1>5. OnePublisher'
  BY DEF Edit, Raced, OnePublisher
<1>6. NoBlindOverwrite'
  BY DEF CallsApproved, Edit, Raced, KnownTokens, NoBlindOverwrite, OnePublisher
<1>7. UseOnRecord' /\ SingleUse' /\ AuthorityFresh'
  BY DEF UseOnRecord, Retention, SingleUse, AuthorityFresh, Expires, Edit, Raced
<1> QED
  BY <1>1, <1>2, <1>3, <1>4, <1>5, <1>6, <1>7 DEF IInv

(* Time passes no further than the stall bound of validating calls.         *)
LEMMA TickKeeps ==
  ASSUME IInv, Tick
  PROVE  IInv'
<1> USE AuthorityAssumption DEF IInv, TypeOK, Files, Prepared, NotPrepared,
    Never, Calls, Idle, Phases, Validating, Publishing, TwoOrMore
<1>1. TypeOK'
  BY DEF Tick
<1>2. KnownTokens'
  BY DEF KnownTokens, Tick
<1>3. CallsInTime'
  BY DEF CallsInTime, Expires, KnownTokens, Tick
<1>4. UseOnRecord'
  BY DEF KnownTokens, Retention, Tick, UseOnRecord
<1>5. CallsApproved' /\ OnePublisher' /\ SingleUse' /\ AuthorityFresh' /\
    NoBlindOverwrite'
  BY DEF CallsApproved, OnePublisher, SingleUse, AuthorityFresh, Expires,
      NoBlindOverwrite, Tick
<1> QED
  BY <1>1, <1>2, <1>3, <1>4, <1>5 DEF IInv

-----------------------------------------------------------------------------
(* Every step preserves the invariant.                                      *)
LEMMA NextKeeps ==
  IInv /\ [Next]_vars => IInv'
<1> SUFFICES ASSUME IInv, [Next]_vars PROVE IInv'
  OBVIOUS
<1>1. CASE \E t \in Tokens : Prepare(t)
  BY <1>1, PrepareKeeps
<1>2. CASE \E p \in Turns : PrepareRefused(p)
  BY <1>2, PrepareRefusedKeeps
<1>3. CASE \E t \in Tokens : Refuse(t)
  BY <1>3, RefuseKeeps
<1>4. CASE \E t \in Tokens : ApproveOnce(t)
  BY <1>4, ApproveOnceKeeps
<1>5. CASE \E e \in Executors, t \in Tokens : BeginExecute(e, t)
  BY <1>5, BeginExecuteKeeps
<1>6. CASE \E e \in Executors : Plan(e)
  BY <1>6, PlanKeeps
<1>7. CASE \E e \in Executors : Revalidate(e)
  BY <1>7, RevalidateKeeps
<1>8. CASE \E e \in Executors : Consume(e)
  BY <1>8, ConsumeKeeps
<1>9. CASE \E e \in Executors : ConsumeRefused(e)
  BY <1>9, ConsumeRefusedKeeps
<1>10. CASE \E e \in Executors : Return(e)
  BY <1>10, ReturnKeeps
<1>11. CASE \E e \in Executors : Locate(e)
  BY <1>11, LocateKeeps
<1>12. CASE \E e \in Executors : OpenBase(e)
  BY <1>12, OpenBaseKeeps
<1>13. CASE \E e \in Executors : Verify(e)
  BY <1>13, VerifyKeeps
<1>14. CASE \E e \in Executors : Publish(e)
  BY <1>14, PublishKeeps
<1>15. CASE Edit
  BY <1>15, EditKeeps
<1>16. CASE Tick
  BY <1>16, TickKeeps
<1>17. CASE UNCHANGED vars
  BY <1>17 DEF vars, IInv, TypeOK, KnownTokens, CallsInTime, CallsApproved,
       UseOnRecord, OnePublisher, SingleUse, AuthorityFresh, NoBlindOverwrite,
       Expires, Retention
<1> QED
  BY <1>1, <1>2, <1>3, <1>4, <1>5, <1>6, <1>7, <1>8, <1>9, <1>10, <1>11,
      <1>12, <1>13, <1>14, <1>15, <1>16, <1>17 DEF Next

(* The pipeline starts with empty maps and no calls.                        *)
LEMMA InitHolds ==
  Init => IInv
  BY AuthorityAssumption DEF Init, IInv, TypeOK, KnownTokens, CallsInTime,
     CallsApproved, UseOnRecord, OnePublisher, SingleUse, AuthorityFresh,
     NoBlindOverwrite, Files, Prepared, NotPrepared, Never, Calls, Idle,
         Phases, Validating, Publishing, TwoOrMore

(* The inductive invariant holds in every state of the pipeline.            *)
THEOREM AuthorityInvariant ==
  Spec => []IInv
  BY InitHolds, NextKeeps, PTL DEF Spec

(* A prepared token obtains one execution permit, unless the map of         *)
(* consumed tokens had to drop its entry for lack of room.                  *)
THEOREM TokensAreSingleUse ==
  Spec => []SingleUse
<1>1. IInv => SingleUse
  BY DEF IInv
<1> QED
  BY <1>1, AuthorityInvariant, PTL

(* No permit without approval, none later than a stall after expiry.        *)
THEOREM PermitsAreAuthorised ==
  Spec => []AuthorityFresh
<1>1. IInv => AuthorityFresh
  BY DEF IInv
<1> QED
  BY <1>1, AuthorityInvariant, PTL

(* A patch replaces the content it was reviewed against: for any number of  *)
(* turns that patch the same file at the same time, only a writer who does  *)
(* not share the turn's mutation gate, a program outside the daemon or      *)
(* another turn, can intervene, and only after the last check.              *)
THEOREM PatchesRespectTheirBase ==
  Spec => []NoBlindOverwrite
<1>1. IInv => NoBlindOverwrite
  BY DEF IInv
<1> QED
  BY <1>1, AuthorityInvariant, PTL

-----------------------------------------------------------------------------
(* Tool calls.                                                             *)

(* Every tool is of a kind, and paths are sequences.                       *)
RegistryConstants ==
  /\ Kind \in [Tools -> {"file", "tree", "patch", "process"}]
  /\ \A n \in Names : Len(n) \in Nat
  /\ \A t \in Tools : \A s \in Template[t].read \cup Template[t].write : Len(s.path) \in Nat

(* The paths of the effects have a length.                                 *)
Measured(e) == \A s \in e.read \cup e.write : Len(s.path) \in Nat

(* A call is a record.                                                     *)
IsCall(k) ==
  k = [stage |-> k.stage, registry |-> k.registry, tool |-> k.tool, route |-> k.route,
       args |-> k.args, effects |-> k.effects, shown |-> k.shown, ranBy |-> k.ranBy,
       ran |-> k.ran, raced |-> k.raced]

(* There is a record for every call.                                       *)
CallsAreCalls == asked = [c \in Proposals |-> asked[c]]

(* Only a patch writes, and it has just the effects of the path it names.  *)
PatchOf(n) == [read |-> {Registry!Scope(n, FALSE)}, write |-> {Registry!Scope(n, FALSE)}, runs |-> {}]
WritesItsName(t, n, e) == IF Kind[t] = "patch" THEN e = PatchOf(n) ELSE e.write = {}

(* A plan is about a tool and a path that can be named.                    *)
PlanIsNamed(k) == /\ k.tool \in Tools /\ k.args \in Names /\ Measured(k.effects)
                  /\ WritesItsName(k.tool, k.args, k.effects)

(* A call that was planned has a plan.                                     *)
Planned(k) == k.stage \in {"proposed", "planned", "revalidated", "permit", "executed"} =>
                PlanIsNamed(k)
(* A revalidated call has the effects of the files as they are, unless a   *)
(* name was replaced after the revalidation.                               *)
Seen(k) == k.stage \in {"revalidated", "permit"} /\ ~k.raced =>
             k.effects = Registry!Prepared(k.tool, k.args)
(* From the permit on every call has the effects that were shown.          *)
Compared(k) == k.stage \in {"permit", "executed"} => k.effects = k.shown
(* What ran was within its template, in the registry that planned it, and  *)
(* what was planned unless its name was replaced late.                     *)
Ran(k) == k.stage = "executed" =>
            /\ Registry!VerifyEffectSubset(k.tool, k.effects)
            /\ k.ranBy = k.registry /\ k.tool \in Registry!Registered(k.ranBy)
            /\ k.ran = k.effects \/ (k.raced /\ Kind[k.tool] # "patch")
            /\ WritesItsName(k.tool, k.args, k.ran)
            /\ \A s \in k.ran.read : s.path \in Names \cup {<< >>}

(* What each stage has seen to.                                            *)
CallOK(k) == /\ IsCall(k) /\ Planned(k) /\ Seen(k) /\ Compared(k) /\ Ran(k)

(* The inductive invariant of ToolRegistry.                                *)
RegistryInv ==
  /\ world \in [Names -> Names \cup {Registry!Outside}]
  /\ CallsAreCalls /\ \A c \in Proposals : CallOK(asked[c])

(* Preparation resolves a name to another one that can be named; a patch   *)
(* does not follow it.                                                     *)
LEMMA PreparedIsMeasured ==
  ASSUME RegistryConstants, world \in [Names -> Names \cup {Registry!Outside}],
         NEW t \in Tools, NEW n \in Names, Registry!Prepares(t, n)
  PROVE  LET e == Registry!Prepared(t, n)
         IN /\ world[n] \in Names /\ Measured(e)
            /\ WritesItsName(t, n, e) /\ WritesItsName(t, world[n], e)
            /\ \A s \in e.read : s.path \in Names \cup {<< >>}
<1>1. /\ world[n] \in Names /\ Len(world[n]) \in Nat /\ Len(<< >>) = 0
      /\ Kind[t] = "patch" => world[n] = n
  BY DEF Registry!Prepares, RegistryConstants
<1> USE DEF Registry!Prepared, Measured, Registry!Scope, WritesItsName, PatchOf
<1>2. CASE Kind[t] = "file" BY <1>1, <1>2
<1>3. CASE Kind[t] = "tree" BY <1>1, <1>3
<1>4. CASE Kind[t] = "patch" BY <1>1, <1>4
<1>5. CASE Kind[t] = "process" BY <1>1, <1>5
<1> QED BY <1>1, <1>2, <1>3, <1>4, <1>5 DEF RegistryConstants

(* What is asked of a call depends on the registries and on the files.     *)
LEMMA SameWorld ==
  ASSUME NEW c, CallOK(asked'[c]), UNCHANGED <<config, world>>
  PROVE  CallOK(asked[c])'
<1>1. IsCall(asked[c])' /\ Planned(asked[c])' /\ Compared(asked[c])'
  BY DEF CallOK, IsCall, Planned, Compared
<1>2. Seen(asked[c])' BY DEF CallOK, Seen, Registry!Prepared
<1>3. Ran(asked[c])' BY DEF CallOK, Ran, Registry!Registered, Registry!Switch
<1> QED BY <1>1, <1>2, <1>3 DEF CallOK

(* A step of one call.                                                     *)
LEMMA OneCall ==
  ASSUME RegistryInv, NEW c \in Proposals, NEW k, Registry!Put(c, k), UNCHANGED <<config, world>>, CallOK(k)
  PROVE  RegistryInv'
<1>1. /\ asked' = [d \in Proposals |-> IF d = c THEN k ELSE asked[d]] BY DEF RegistryInv,
    CallsAreCalls, Registry!Put
<1>2. ASSUME NEW d \in Proposals PROVE CallOK(asked'[d])
  BY <1>1 DEF RegistryInv
<1>3. \A d \in Proposals : CallOK(asked[d])' BY <1>2, SameWorld
<1> QED BY <1>1, <1>3 DEF RegistryInv, CallsAreCalls

(* A refused call promises nothing.                                        *)
LEMMA RefusedIsOK ==
  ASSUME RegistryInv, NEW c \in Proposals, Registry!Refused(c), UNCHANGED <<config, world>>
  PROVE  RegistryInv'
<1>1. PICK k : k = [asked[c] EXCEPT !.stage = "refused"] OBVIOUS
<1>2. IsCall(asked[c]) BY DEF RegistryInv, CallOK
<1>3. IsCall(k) /\ k.stage = "refused" BY <1>1, <1>2 DEF IsCall
<1>4. CallOK(k) BY <1>3 DEF CallOK, Planned, Seen, Compared, Ran
<1> QED BY <1>1, <1>4, OneCall DEF Registry!Refused

(* The invariant of ToolRegistry is inductive. Planning again may find     *)
(* other effects, and only the comparison in front of the permit brings    *)
(* the call back to what was shown.                                        *)
LEMMA RegistryStep ==
  ASSUME RegistryConstants, RegistryInv, [Registry!Next]_(Registry!vars) PROVE RegistryInv'
<1>1. ASSUME NEW c \in Proposals, NEW r \in Registries, NEW t \in Tools, NEW n \in Names, Registry!Propose(c, r, t, n)
      PROVE  RegistryInv'
  <2>0. UNCHANGED <<config, world>> BY <1>1 DEF Registry!Propose
  <2>1. CASE Registry!Refused(c) BY <2>0, <2>1, RefusedIsOK
  <2>2. ASSUME NEW route \in {"bound", "pipeline"}, Registry!Prepares(t, n),
               Registry!Put(c, [asked[c] EXCEPT !.stage = "proposed",
                           !.registry = r, !.tool = t, !.route = route,
                           !.args = world[n], !.effects = Registry!Prepared(t, n),
                           !.shown = Registry!Prepared(t, n)])
        PROVE  RegistryInv'
    <3>1. PICK k : k = [asked[c] EXCEPT !.stage = "proposed",
                  !.registry = r, !.tool = t, !.route = route,
                  !.args = world[n], !.effects = Registry!Prepared(t, n),
                  !.shown = Registry!Prepared(t, n)] OBVIOUS
    <3>2. PICK e : e = Registry!Prepared(t, n) OBVIOUS
    <3>3. world[n] \in Names /\ Measured(e) /\ WritesItsName(t, world[n], e)
      BY <2>2, <3>2, PreparedIsMeasured DEF RegistryInv
    <3>4. IsCall(asked[c]) BY DEF RegistryInv, CallOK
    <3>5. /\ IsCall(k) /\ k.stage = "proposed"
          /\ k.tool = t /\ k.args = world[n] /\ k.effects = e /\ k.shown = e
      BY <3>1, <3>2, <3>4 DEF IsCall
    <3>6. CallOK(k) BY <3>3, <3>5 DEF CallOK, Planned, PlanIsNamed, Seen, Compared, Ran
    <3> QED BY <2>0, <2>2, <3>1, <3>6, OneCall
  <2> QED BY <1>1, <2>1, <2>2 DEF Registry!Propose
<1>2. ASSUME NEW c \in Proposals, NEW r \in Registries, Registry!PlanAgain(c, r) PROVE RegistryInv'
  <2>0. UNCHANGED <<config, world>> BY <1>2 DEF Registry!PlanAgain
  <2>1. CASE Registry!Refused(c) BY <2>0, <2>1, RefusedIsOK
  <2>2. PICK o : o = asked[c] OBVIOUS
  <2>3. CallOK(o) /\ o.stage = "proposed" BY <1>2, <2>2 DEF Registry!PlanAgain, RegistryInv
  <2>4. ASSUME NEW k, Registry!Prepares(o.tool, o.args), Registry!Put(c, k),
               k = [o EXCEPT !.stage = "planned", !.registry = r, !.args = world[o.args],
                             !.effects = Registry!Prepared(o.tool, o.args)]
        PROVE  RegistryInv'
    <3>1. PICK e : e = Registry!Prepared(o.tool, o.args) OBVIOUS
    <3>2. o.tool \in Tools /\ o.args \in Names BY <2>3 DEF CallOK, Planned, PlanIsNamed
    <3>3. world[o.args] \in Names /\ Measured(e) /\ WritesItsName(o.tool, world[o.args], e)
      BY <2>4, <3>1, <3>2, PreparedIsMeasured DEF RegistryInv
    <3>4. /\ IsCall(k) /\ k.stage = "planned" /\ k.tool = o.tool
          /\ k.args = world[o.args] /\ k.effects = e
      BY <2>3, <2>4, <3>1 DEF CallOK, IsCall
    <3>5. CallOK(k) BY <3>2, <3>3, <3>4 DEF CallOK, Planned, PlanIsNamed, Seen, Compared, Ran
    <3> QED BY <2>0, <2>4, <3>5, OneCall
  <2> QED BY <1>2, <2>1, <2>2, <2>4 DEF Registry!PlanAgain
<1>3. ASSUME NEW c \in Proposals, NEW r \in Registries, Registry!Revalidate(c, r) PROVE RegistryInv'
  <2>0. UNCHANGED <<config, world>> BY <1>3 DEF Registry!Revalidate
  <2>1. CASE Registry!Refused(c) BY <2>0, <2>1, RefusedIsOK
  <2>2. PICK o : o = asked[c] OBVIOUS
  <2>3. CallOK(o) /\ o.stage = "planned" BY <1>3, <2>2 DEF Registry!Revalidate, RegistryInv
  <2>4. ASSUME NEW k, Registry!Put(c, k), Registry!Unchanged(o),
               k = [o EXCEPT !.stage = "revalidated", !.effects = Registry!Prepared(o.tool, o.args)]
        PROVE  RegistryInv'
    <3>1. PICK e : e = Registry!Prepared(o.tool, o.args) /\ e = o.effects BY <2>4 DEF Registry!Unchanged
    <3>2. /\ IsCall(k) /\ k.stage = "revalidated" /\ k.tool = o.tool
          /\ k.args = o.args /\ k.effects = o.effects
      BY <2>3, <2>4, <3>1 DEF CallOK, IsCall
    <3>3. k.effects = Registry!Prepared(k.tool, k.args) BY <3>1, <3>2
    <3>4. CallOK(k) BY <2>3, <3>2, <3>3 DEF CallOK, Planned, PlanIsNamed, Seen, Compared, Ran
    <3> QED BY <2>0, <2>4, <3>4, OneCall
  <2> QED BY <1>3, <2>1, <2>2, <2>4 DEF Registry!Revalidate
<1>4. ASSUME NEW c \in Proposals, Registry!IntoExecutionPermit(c) PROVE RegistryInv'
  <2>0. UNCHANGED <<config, world>> BY <1>4 DEF Registry!IntoExecutionPermit
  <2>1. CASE Registry!Refused(c) BY <2>0, <2>1, RefusedIsOK
  <2>2. PICK o : o = asked[c] OBVIOUS
  <2>3. CallOK(o) /\ o.stage = "revalidated" BY <1>4, <2>2 DEF Registry!IntoExecutionPermit,
      RegistryInv
  <2>4. ASSUME NEW k, Registry!Put(c, k), Registry!Bound(o), k = [o EXCEPT !.stage = "permit"]
        PROVE  RegistryInv'
    <3>1. /\ IsCall(k) /\ k.stage = "permit" /\ k.tool = o.tool /\ k.raced = o.raced
          /\ k.args = o.args /\ k.effects = o.effects /\ k.shown = o.shown
      BY <2>3, <2>4 DEF CallOK, IsCall
    <3>2. o.effects = o.shown BY <2>4 DEF Registry!Bound
    <3>3. CallOK(k) BY <2>3, <3>1, <3>2 DEF CallOK, Planned, PlanIsNamed, Seen, Compared, Ran
    <3> QED BY <2>0, <2>4, <3>3, OneCall
  <2> QED BY <1>4, <2>1, <2>2, <2>4 DEF Registry!IntoExecutionPermit
<1>5. ASSUME NEW c \in Proposals, NEW r \in Registries, NEW async \in BOOLEAN, Registry!Execute(c, r, async)
      PROVE  RegistryInv'
  <2>0. UNCHANGED <<config, world>> BY <1>5 DEF Registry!Execute
  <2>1. CASE Registry!Refused(c) BY <2>0, <2>1, RefusedIsOK
  <2>2. PICK o : o = asked[c] OBVIOUS
  <2>3. CallOK(o) /\ o.stage = "permit" BY <1>5, <2>2 DEF Registry!Execute, RegistryInv
  <2>4. ASSUME NEW k, Registry!Put(c, k),
               k = [o EXCEPT !.stage = "executed", !.ranBy = r, !.ran = Registry!Prepared(o.tool, o.args)],
               Registry!SameSeal(o, r), o.tool \in Registry!Registered(r),
               Registry!VerifyEffectSubset(o.tool, o.effects), Registry!Prepares(o.tool, o.args)
        PROVE  RegistryInv'
    <3>1. PICK e : e = Registry!Prepared(o.tool, o.args) OBVIOUS
    <3>2. /\ IsCall(k) /\ k.stage = "executed" /\ k.tool = o.tool
          /\ k.args = o.args /\ k.effects = o.effects /\ k.shown = o.shown
          /\ k.registry = o.registry /\ k.ranBy = r /\ k.ran = e /\ k.raced = o.raced
      BY <2>3, <2>4, <3>1 DEF CallOK, IsCall
    <3>3. PlanIsNamed(o) BY <2>3 DEF CallOK, Planned
    <3>4. WritesItsName(o.tool, o.args, e) /\ \A s \in e.read : s.path \in Names \cup {<< >>}
      BY <2>4, <3>1, <3>3, PreparedIsMeasured DEF RegistryInv, PlanIsNamed
    <3>5. e = o.effects \/ (o.raced /\ Kind[o.tool] # "patch")
      <4>1. CASE ~o.raced BY <2>3, <3>1, <4>1 DEF CallOK, Seen
      <4>2. CASE Kind[o.tool] = "patch" BY <3>3, <3>4, <4>2 DEF PlanIsNamed, WritesItsName
      <4> QED BY <4>1, <4>2
    <3>6. Ran(k) BY <2>4, <3>2, <3>4, <3>5 DEF Ran, Registry!SameSeal
    <3>7. Planned(k) /\ Seen(k) /\ Compared(k)
      BY <2>3, <3>2, <3>3 DEF CallOK, Planned, PlanIsNamed, Seen, Compared
    <3> QED BY <2>0, <2>4, <3>2, <3>6, <3>7, OneCall DEF CallOK
  <2> QED BY <1>5, <2>1, <2>2, <2>4 DEF Registry!Execute
<1>6. ASSUME NEW n \in Names, NEW target \in Names \cup {Registry!Outside}, Registry!Relink(n, target)
      PROVE  RegistryInv'
  <2>1. world' \in [Names -> Names \cup {Registry!Outside}] BY <1>6 DEF Registry!Relink, RegistryInv
  <2>2. /\ UNCHANGED config
        /\ asked' = [c \in Proposals |-> [asked[c] EXCEPT !.raced = @ \/ Registry!LosesRace(asked[c])]]
    BY <1>6 DEF Registry!Relink
  <2>3. ASSUME NEW c \in Proposals PROVE CallOK(asked[c])'
    <3>1. PICK o : o = asked[c] OBVIOUS
    <3>2. PICK k : k = asked'[c] OBVIOUS
    <3>3. CallOK(o) BY <3>1 DEF RegistryInv
    <3>4. k = [o EXCEPT !.raced = @ \/ Registry!LosesRace(o)] BY <2>2, <3>1, <3>2
    <3>5. /\ IsCall(k) /\ k.stage = o.stage /\ k.tool = o.tool /\ k.args = o.args
          /\ k.effects = o.effects /\ k.shown = o.shown /\ k.registry = o.registry
          /\ k.ranBy = o.ranBy /\ k.ran = o.ran /\ k.raced = (o.raced \/ Registry!LosesRace(o))
      BY <3>3, <3>4 DEF CallOK, IsCall
    <3>6. Planned(k) /\ Compared(k) BY <3>3, <3>5 DEF CallOK, Planned, PlanIsNamed, Compared
    <3>7. Ran(k) BY <3>3, <3>5 DEF CallOK, Ran
    <3>8. ASSUME k.stage \in {"revalidated", "permit"}, ~k.raced
          PROVE  k.effects = Registry!Prepared(k.tool, k.args)'
      <4>1. ~o.raced /\ ~Registry!LosesRace(o) BY <3>5, <3>8
      <4>2. world'[k.args] = world[k.args] BY <3>5, <3>8, <4>1 DEF Registry!LosesRace
      <4>3. k.effects = Registry!Prepared(k.tool, k.args) BY <3>3, <3>5, <3>8, <4>1 DEF CallOK, Seen
      <4> QED BY <4>2, <4>3 DEF Registry!Prepared
    <3> QED BY <2>2, <3>2, <3>5, <3>6, <3>7, <3>8
      DEF CallOK, IsCall, Planned, Seen, Compared, Ran, Registry!Registered, Registry!Switch
  <2>4. CallsAreCalls' BY <2>2 DEF CallsAreCalls
  <2> QED BY <2>1, <2>3, <2>4 DEF RegistryInv
<1>7. CASE UNCHANGED Registry!vars
  <2>1. UNCHANGED <<config, world>> /\ asked' = asked BY <1>7 DEF Registry!vars
  <2>2. \A c \in Proposals : CallOK(asked[c])' BY <2>1, SameWorld DEF RegistryInv
  <2> QED BY <2>1, <2>2 DEF RegistryInv, CallsAreCalls
<1> QED BY <1>1, <1>2, <1>3, <1>4, <1>5, <1>6, <1>7 DEF Registry!Next

(* A prefix of a prefix is a prefix.                                       *)
LEMMA PrefixesCompose ==
  ASSUME NEW p, NEW q, NEW r, Len(p) \in Nat, Len(q) \in Nat, Len(r) \in Nat,
         Registry!StartsWith(p, q), Registry!StartsWith(q, r)
  PROVE  Registry!StartsWith(p, r)
BY DEF Registry!StartsWith

(* scopes_are_subset means what it says: concrete scopes it accepts reach  *)
(* no path the templates do not cover.                                     *)
LEMMA SubsetCovers ==
  ASSUME RegistryConstants, NEW S, NEW T, Registry!ScopesAreSubset(S, T),
         \A s \in S \cup T : Len(s.path) \in Nat
  PROVE  Registry!Covered(S) \subseteq Registry!Covered(T)
<1> SUFFICES ASSUME NEW n \in Names, NEW s \in S,
                    IF s.recursive THEN Registry!StartsWith(n, s.path) ELSE n = s.path
             PROVE  n \in Registry!Covered(T)
  BY DEF Registry!Covered
<1>1. PICK t \in T : Registry!PathScopeContains(t, s) BY DEF Registry!ScopesAreSubset
<1>2. Len(n) \in Nat /\ Len(s.path) \in Nat /\ Len(t.path) \in Nat BY DEF RegistryConstants
<1>3. CASE t.recursive
  <2>1. Registry!StartsWith(s.path, t.path) BY <1>1, <1>3 DEF Registry!PathScopeContains
  <2>2. Registry!StartsWith(n, t.path) BY <1>2, <2>1, PrefixesCompose
  <2> QED BY <1>3, <2>2 DEF Registry!Covered
<1>4. CASE ~t.recursive
  <2>1. n = t.path BY <1>1, <1>4 DEF Registry!PathScopeContains
  <2> QED BY <1>4, <2>1 DEF Registry!Covered
<1> QED BY <1>3, <1>4

(* The call that runs does what was persisted and shown, within the        *)
(* template of its tool, in the registry that planned it, whatever other   *)
(* programs replace by links before the revalidation; a name replaced      *)
(* after it leads a read or an executable to another path, but never a     *)
(* patch and no read out of the workspace                                  *)
(* (execute_read_only_bound_with_control, InvocationPipeline::execute,     *)
(* revalidate, verify_effect_subset, resolve_expected), for any number of  *)
(* registries, calls, tools and templates.                                 *)
THEOREM RunsWhatWasJudged == RegistryConstants => (Registry!Spec => []ExecutedAsJudged)
<1> SUFFICES ASSUME RegistryConstants PROVE Registry!Spec => []ExecutedAsJudged OBVIOUS
<1>1. Registry!Init => RegistryInv
  <2>1. PICK k : k = Registry!NewCall OBVIOUS
  <2>2. CallOK(k) BY <2>1 DEF Registry!NewCall, CallOK, IsCall, Planned, Seen, Compared, Ran
  <2>3. SUFFICES ASSUME Registry!Init PROVE RegistryInv OBVIOUS
  <2>4. asked = [c \in Proposals |-> k] BY <2>1, <2>3 DEF Registry!Init
  <2>5. \A c \in Proposals : CallOK(asked[c]) BY <2>2, <2>4
  <2>6. world = [n \in Names |-> n] BY <2>3 DEF Registry!Init
  <2> QED BY <2>4, <2>5, <2>6 DEF RegistryInv, CallsAreCalls
<1>2. RegistryInv /\ [Registry!Next]_(Registry!vars) => RegistryInv' BY RegistryStep
<1>3. ASSUME RegistryInv PROVE ExecutedAsJudged
  <2>1. Registry!OwnPlansOnly
    BY <1>3 DEF RegistryInv, CallOK, Ran, Registry!Executed, Registry!OwnPlansOnly
  <2>2. ASSUME NEW c \in Registry!Executed, NEW k, k = asked[c]
        PROVE  /\ k.ran = k.shown \/ (k.raced /\ Kind[k.tool] # "patch")
               /\ k.ran.write = k.shown.write
               /\ \A s \in k.ran.read : s.path \in Names \cup {<< >>}
               /\ Registry!Covered(k.effects.read) \subseteq Registry!Covered(Template[k.tool].read)
               /\ ~k.raced => Registry!Covered(k.ran.read) \subseteq Registry!Covered(Template[k.tool].read)
               /\ Registry!Covered(k.ran.write) \subseteq Registry!Covered(Template[k.tool].write)
    <3>1. CallOK(k) /\ k.stage = "executed" BY <1>3, <2>2 DEF Registry!Executed, RegistryInv
    <3>2. /\ k.tool \in Tools /\ Measured(k.effects) /\ WritesItsName(k.tool, k.args, k.effects)
          /\ k.effects = k.shown
      BY <3>1 DEF CallOK, Planned, PlanIsNamed, Compared
    <3>3. Ran(k) BY <3>1 DEF CallOK
    <3>4. /\ Registry!VerifyEffectSubset(k.tool, k.effects)
          /\ k.ran = k.effects \/ (k.raced /\ Kind[k.tool] # "patch")
          /\ WritesItsName(k.tool, k.args, k.ran)
          /\ \A s \in k.ran.read : s.path \in Names \cup {<< >>}
      BY <3>1, <3>3 DEF Ran
    <3>5. \A s \in Template[k.tool].read \cup Template[k.tool].write : Len(s.path) \in Nat
      BY <3>2 DEF RegistryConstants
    <3>6. Registry!Covered(k.effects.read) \subseteq Registry!Covered(Template[k.tool].read)
      BY <3>2, <3>4, <3>5, SubsetCovers DEF Registry!VerifyEffectSubset, Measured
    <3>7. Registry!Covered(k.effects.write) \subseteq Registry!Covered(Template[k.tool].write)
      BY <3>2, <3>4, <3>5, SubsetCovers DEF Registry!VerifyEffectSubset, Measured
    <3>8. k.ran.write = k.effects.write BY <3>2, <3>4 DEF WritesItsName
    <3> QED BY <3>2, <3>4, <3>6, <3>7, <3>8
  <2>3. Registry!RunsAsProposed /\ Registry!WithinTemplate
    BY <2>2 DEF Registry!RunsAsProposed, Registry!WithinTemplate
  <2> QED BY <2>1, <2>3 DEF ExecutedAsJudged, Registry!ExecutedAsJudged
<1> QED BY <1>1, <1>2, <1>3, PTL DEF Registry!Spec

-----------------------------------------------------------------------------
(* The requests are finitely many, and "nobody" is none of them.           *)
ApprovalConstants == IsFiniteSet(Requests) /\ Approvals!Nobody \notin Requests

(* What a client can answer.                                               *)
Sayings == {"approved", "denied", "error"}
Frame == [id : Approvals!Ids \cup {Approvals!NoId}, verdict : Sayings]

(* Types of the state of ApprovalChannel.                                  *)
ApprovalTypes ==
  /\ Cardinality(Requests) \in Nat
  /\ conn \in {"open", "closed"}
  /\ queue \in Seq(Requests)
  /\ ids \in Nat /\ stray \in Nat
  /\ pending \in [Approvals!Ids -> Requests \cup {Approvals!Nobody}]
  /\ prompts \in [Approvals!Ids -> Requests \cup {Approvals!Nobody}]
  /\ frames \in Seq(Frame)
  /\ said \in [Requests -> Sayings \cup {"none"}]
  /\ verdict \in [Requests -> Approvals!Verdicts \cup {"none"}]

(* Ids are given out once, and a reply end is held under the id of its     *)
(* prompt.                                                                 *)
IdsAreFresh ==
  \A i \in Approvals!Ids : /\ i > ids => prompts[i] = Approvals!Nobody
                           /\ pending[i] # Approvals!Nobody => pending[i] = prompts[i]

(* A frame with an id repeats what the client said to its prompt.          *)
FramesAreSaid ==
  \A n \in 1 .. Len(frames) : frames[n].id # Approvals!NoId =>
    /\ prompts[frames[n].id] # Approvals!Nobody
    /\ said[prompts[frames[n].id]] = frames[n].verdict

(* A client that keeps to the protocol answers what is outstanding, once.  *)
AnswersAreExpected ==
  conn = "open" /\ stray = 0 =>
    /\ \A n \in 1 .. Len(frames) : frames[n].id # Approvals!NoId /\ pending[frames[n].id] # Approvals!Nobody
    /\ \A m, n \in 1 .. Len(frames) : frames[m].id = frames[n].id => m = n
    /\ \A i \in Approvals!Ids : prompts[i] # Approvals!Nobody /\ said[prompts[i]] = "none" =>
                        pending[i] # Approvals!Nobody

(* The inductive invariant of ApprovalChannel.                             *)
ApprovalInv == /\ ApprovalTypes /\ IdsAreFresh /\ FramesAreSaid
               /\ AnswersAreExpected /\ Approvals!VerdictIsTheClients

USE DEF Approvals!Verdicts, Sayings, Approvals!Ids

(* What the client said to a prompt, once it said something, is a saying.  *)
LEMMA SayingsAreTyped ==
  ASSUME ApprovalTypes, NEW i \in Approvals!Ids,
         prompts[i] # Approvals!Nobody, said[prompts[i]] # "none"
  PROVE  prompts[i] \in Requests /\ said[prompts[i]] \in Sayings
<1>1. prompts[i] \in Requests BY DEF ApprovalTypes
<1>2. said[prompts[i]] \in Sayings \cup {"none"} BY <1>1 DEF ApprovalTypes
<1> QED BY <1>1, <1>2

(* The fields of a frame on its way.                                       *)
LEMMA FrameElement ==
  ASSUME NEW s \in Seq(Frame), NEW n \in 1 .. Len(s)
  PROVE  /\ s[n] \in Frame /\ s[n].id \in Approvals!Ids \cup {Approvals!NoId}
         /\ s[n].verdict \in Sayings
<1>1. s[n] \in Frame BY ElementOfSeq
<1> QED BY <1>1 DEF Frame

(* The client adds a frame.                                                *)
LEMMA FrameAppended ==
  ASSUME NEW s \in Seq(Frame), NEW f \in Frame
  PROVE  /\ Append(s, f) \in Seq(Frame)
         /\ Len(Append(s, f)) = Len(s) + 1 /\ Len(s) \in Nat
         /\ \A n \in 1 .. Len(s) : Append(s, f)[n] = s[n]
         /\ Append(s, f)[Len(s) + 1] = f
BY AppendProperties, LenProperties

(* The connection task takes the first frame.                              *)
LEMMA FrameTaken ==
  ASSUME NEW s \in Seq(Frame), s # << >>
  PROVE  /\ Head(s) \in Frame /\ Head(s) = s[1] /\ 1 \in 1 .. Len(s)
         /\ Tail(s) \in Seq(Frame)
         /\ Len(Tail(s)) = Len(s) - 1 /\ Len(s) \in Nat
         /\ \A n \in 1 .. Len(Tail(s)) : Tail(s)[n] = s[n + 1] /\ n + 1 \in 1 .. Len(s)
<1>1. Len(s) \in Nat /\ Len(s) # 0
  BY EmptySeq, LenProperties
<1>2. Head(s) = s[1] /\ Head(s) \in Frame
  BY <1>1, HeadTailProperties, FrameElement
<1>3. /\ Tail(s) \in Seq(Frame) /\ Len(Tail(s)) = Len(s) - 1
      /\ \A n \in 1 .. Len(Tail(s)) : Tail(s)[n] = s[n + 1]
  BY HeadTailProperties
<1> QED BY <1>1, <1>2, <1>3

(* Every action of ApprovalChannel keeps its types.                        *)
LEMMA ApprovalTypeStep ==
  ASSUME ApprovalConstants, ApprovalTypes, [Approvals!Next]_(Approvals!vars)
  PROVE  ApprovalTypes'
<1> USE DEF ApprovalConstants, ApprovalTypes
<1>1. ASSUME NEW r \in Requests, Approvals!Request(r) PROVE ApprovalTypes'
  BY <1>1 DEF Approvals!Request
<1>2. ASSUME NEW r \in Requests, Approvals!Send(r) PROVE ApprovalTypes'
  BY <1>2 DEF Approvals!Send
<1>3. ASSUME NEW r \in Requests, Approvals!SendFails(r) PROVE ApprovalTypes'
  BY <1>3 DEF Approvals!SendFails, Approvals!Deny
<1>4. CASE Approvals!Prompt
  <2>1. Head(queue) \in Requests /\ Tail(queue) \in Seq(Requests)
    BY <1>4, HeadTailProperties DEF Approvals!Prompt
  <2>2. /\ pending' \in [Approvals!Ids -> Requests \cup {Approvals!Nobody}]
        /\ prompts' \in [Approvals!Ids -> Requests \cup {Approvals!Nobody}]
    BY <1>4, <2>1 DEF Approvals!Prompt
  <2> QED BY <1>4, <2>1, <2>2 DEF Approvals!Prompt, Approvals!NextId
<1>5. CASE Approvals!ConsumeApprovalResponse
  <2>1. Tail(frames) \in Seq(Frame)
    BY <1>5, FrameTaken DEF Approvals!ConsumeApprovalResponse
  <2>2. /\ pending' \in [Approvals!Ids -> Requests \cup {Approvals!Nobody}]
        /\ verdict' \in [Requests -> Approvals!Verdicts \cup {"none"}]
    BY <1>5 DEF Approvals!ConsumeApprovalResponse, Approvals!Handle, Approvals!Reply,
        Approvals!DenyPendingApprovals, Approvals!Deny
  <2> QED BY <1>5, <2>1, <2>2 DEF Approvals!ConsumeApprovalResponse
<1>6. CASE Approvals!Close
  BY <1>6 DEF Approvals!Close, Approvals!Deny
<1>7. ASSUME NEW i \in Approvals!Ids, Approvals!ClientAnswers(i) PROVE ApprovalTypes'
  <2>1. PICK v \in Sayings : /\ said' = [said EXCEPT ![prompts[i]] = v]
                             /\ frames' = Append(frames, Approvals!Answer(i, v))
    BY <1>7 DEF Approvals!ClientAnswers
  <2>2. Approvals!Answer(i, v) \in Frame BY DEF Approvals!Answer, Frame
  <2>3. frames' \in Seq(Frame) BY <2>1, <2>2, FrameAppended
  <2> QED BY <1>7, <2>1, <2>3 DEF Approvals!ClientAnswers
<1>8. CASE Approvals!ClientStrays
  <2>1. PICK i \in Approvals!Ids \cup {Approvals!NoId}, v \in Sayings : frames' = Append(frames, Approvals!Answer(i, v))
    BY <1>8 DEF Approvals!ClientStrays
  <2>2. Approvals!Answer(i, v) \in Frame BY DEF Approvals!Answer, Frame
  <2>3. frames' \in Seq(Frame) BY <2>1, <2>2, FrameAppended
  <2> QED BY <1>8, <2>3 DEF Approvals!ClientStrays
<1>9. CASE UNCHANGED Approvals!vars BY <1>9 DEF Approvals!vars
<1> QED BY <1>1, <1>2, <1>3, <1>4, <1>5, <1>6, <1>7, <1>8, <1>9 DEF Approvals!Next,
    Approvals!Connection

(* The invariant of ApprovalChannel is inductive: an id is given out once, *)
(* so that the reply end it holds is the one of the prompt the client      *)
(* answered; without stray frames every answer names an outstanding id.    *)
LEMMA ApprovalStep ==
  ASSUME ApprovalConstants, ApprovalInv, [Approvals!Next]_(Approvals!vars)
  PROVE  ApprovalInv'
<1> DEFINE Rest == IdsAreFresh /\ FramesAreSaid /\ AnswersAreExpected /\ Approvals!VerdictIsTheClients
<1> USE DEF ApprovalInv, Approvals!VerdictIsTheClients, Approvals!ApprovedByClient, Approvals!NoSpuriousDenial
<1>0. ApprovalTypes' BY ApprovalTypeStep
<1> SUFFICES Rest' BY <1>0
<1> USE DEF IdsAreFresh, FramesAreSaid, AnswersAreExpected
<1>1. ASSUME NEW r \in Requests, Approvals!Request(r) PROVE Rest'
  BY <1>1 DEF Approvals!Request
<1>2. ASSUME NEW r \in Requests, Approvals!Send(r) PROVE Rest'
  BY <1>2 DEF Approvals!Send
<1>3. ASSUME NEW r \in Requests, Approvals!SendFails(r) PROVE Rest'
  BY <1>3 DEF Approvals!SendFails, Approvals!Deny
<1>4. CASE Approvals!Prompt
  <2> DEFINE id == ids + 1
  <2>0. /\ conn' = conn /\ frames' = frames /\ said' = said /\ stray' = stray
        /\ verdict' = verdict /\ ids' = id
        /\ pending' = [pending EXCEPT ![id] = Head(queue)]
        /\ prompts' = [prompts EXCEPT ![id] = Head(queue)]
    BY <1>4 DEF Approvals!Prompt, Approvals!NextId
  <2>1. Head(queue) \in Requests /\ Head(queue) # Approvals!Nobody
    BY <1>4, HeadTailProperties DEF Approvals!Prompt, ApprovalTypes, ApprovalConstants
  <2>2. \A i \in Approvals!Ids : i # id => pending'[i] = pending[i] /\ prompts'[i] = prompts[i]
    BY <2>0 DEF ApprovalTypes
  <2>3. id \in Approvals!Ids => /\ pending'[id] = Head(queue) /\ prompts'[id] = Head(queue)
                                /\ prompts[id] = Approvals!Nobody
    BY <2>0 DEF ApprovalTypes
  <2>4. \A n \in 1 .. Len(frames) : frames[n].id \in Approvals!Ids \cup {Approvals!NoId}
    BY FrameElement DEF ApprovalTypes
  <2>5. IdsAreFresh'
    <3> SUFFICES ASSUME NEW i \in Approvals!Ids
                 PROVE  /\ i > id => prompts'[i] = Approvals!Nobody
                        /\ pending'[i] # Approvals!Nobody => pending'[i] = prompts'[i]
      BY <2>0
    <3>1. CASE i = id BY <2>3, <3>1
    <3>2. CASE i # id BY <2>2, <3>2 DEF ApprovalTypes
    <3> QED BY <3>1, <3>2
  <2>6. FramesAreSaid'
    BY <2>0, <2>2, <2>3, <2>4
  <2>7. AnswersAreExpected'
    BY <2>0, <2>1, <2>2, <2>3, <2>4
  <2> QED BY <2>0, <2>5, <2>6, <2>7
<1>5. CASE Approvals!ConsumeApprovalResponse
  <2> DEFINE f == Head(frames)
  <2>0. /\ UNCHANGED <<conn, queue, ids, prompts, said, stray>>
        /\ frames' = Tail(frames) /\ conn = "open" /\ frames # << >>
        /\ Approvals!Handle(f)
    BY <1>5 DEF Approvals!ConsumeApprovalResponse
  <2>1. /\ f \in Frame /\ f = frames[1] /\ 1 \in 1 .. Len(frames)
        /\ Len(frames') = Len(frames) - 1 /\ Len(frames) \in Nat
        /\ \A n \in 1 .. Len(frames') : frames'[n] = frames[n + 1] /\ n + 1 \in 1 .. Len(frames)
    BY <2>0, FrameTaken DEF ApprovalTypes
  <2>2. FramesAreSaid'
    BY <2>0, <2>1
  <2>3. CASE Approvals!Known(f) /\ Approvals!Reply(f)
    <3> DEFINE r == pending[f.id]
    <3>1. /\ f.id \in Approvals!Ids /\ f.id # Approvals!NoId /\ r # Approvals!Nobody /\ r = prompts[f.id] /\ r \in Requests
          /\ said[r] = f.verdict /\ f.verdict \in Sayings
      <4>1. f.id \in Approvals!Ids /\ f.id # Approvals!NoId /\ r # Approvals!Nobody /\ f.verdict \in Sayings
        BY <2>1, <2>3 DEF Approvals!Known, Frame
      <4>2. r = prompts[f.id] /\ said[prompts[f.id]] = f.verdict
        BY <2>1, <4>1
      <4> QED BY <4>1, <4>2 DEF ApprovalTypes
    <3>2. /\ verdict' = [verdict EXCEPT
                      ![r] = IF f.verdict = "approved" THEN "approved" ELSE "denied"]
          /\ pending' = [pending EXCEPT ![f.id] = Approvals!Nobody]
      BY <2>3 DEF Approvals!Reply
    <3>3. IdsAreFresh' BY <2>0, <3>1, <3>2 DEF ApprovalTypes
    <3>4. AnswersAreExpected'
      <4> SUFFICES ASSUME conn = "open", stray = 0
                   PROVE AnswersAreExpected'
         BY <2>0
      <4>1. \A i \in Approvals!Ids : i # f.id => pending'[i] = pending[i]
        BY <3>2 DEF ApprovalTypes
      <4>2. \A n \in 1 .. Len(frames) : frames[n].id \in Approvals!Ids \cup {Approvals!NoId}
        BY FrameElement DEF ApprovalTypes
      <4>3. \A n \in 1 .. Len(frames') : frames'[n].id # f.id
        BY <2>1
      <4>4. \A n \in 1 .. Len(frames') : frames'[n].id # Approvals!NoId /\ pending'[frames'[n].id] # Approvals!Nobody
        <5> SUFFICES ASSUME NEW n \in 1 .. Len(frames')
                     PROVE frames'[n].id # Approvals!NoId /\ pending'[frames'[n].id] # Approvals!Nobody
          OBVIOUS
        <5>1. frames'[n] = frames[n + 1] /\ n + 1 \in 1 .. Len(frames) BY <2>1
        <5>2. frames[n + 1].id # Approvals!NoId /\ pending[frames[n + 1].id] # Approvals!Nobody BY <5>1
        <5> QED BY <4>1, <4>2, <4>3, <5>1, <5>2
      <4>5. \A m, n \in 1 .. Len(frames') : frames'[m].id = frames'[n].id => m = n
        BY <2>1
      <4>6. \A i \in Approvals!Ids : prompts[i] # Approvals!Nobody /\ said[prompts[i]] = "none" =>
                        pending'[i] # Approvals!Nobody
        BY <3>1, <4>1
      <4> QED BY <2>0, <4>4, <4>5, <4>6
    <3>5. Approvals!VerdictIsTheClients'
      BY <2>0, <3>1, <3>2 DEF ApprovalTypes
    <3> QED BY <2>2, <3>3, <3>4, <3>5
  <2>4. CASE ~Approvals!Known(f) /\ Approvals!DenyPendingApprovals
    <3>1. ~(conn = "open" /\ stray = 0)
      BY <2>1, <2>4 DEF Approvals!Known
    <3>2. pending' = [i \in Approvals!Ids |-> Approvals!Nobody] /\
          verdict' = [r \in Requests |-> IF r \in Approvals!Outstanding THEN "denied" ELSE verdict[r]]
      BY <2>4 DEF Approvals!DenyPendingApprovals, Approvals!Deny
    <3> QED BY <2>0, <2>2, <3>1, <3>2
  <2> QED BY <2>0, <2>3, <2>4 DEF Approvals!Handle
<1>6. CASE Approvals!Close
  BY <1>6 DEF Approvals!Close, Approvals!Deny
<1>7. ASSUME NEW i \in Approvals!Ids, Approvals!ClientAnswers(i) PROVE Rest'
  <2>1. PICK v \in Sayings : /\ said' = [said EXCEPT ![prompts[i]] = v]
                             /\ frames' = Append(frames, Approvals!Answer(i, v))
    BY <1>7 DEF Approvals!ClientAnswers
  <2>2. Approvals!Answer(i, v) \in Frame /\ Approvals!Answer(i, v).id = i /\ Approvals!Answer(i, v).verdict = v
    BY DEF Approvals!Answer, Frame
  <2>3. /\ Len(frames') = Len(frames) + 1 /\ Len(frames) \in Nat
        /\ \A n \in 1 .. Len(frames) : frames'[n] = frames[n]
        /\ frames'[Len(frames) + 1] = Approvals!Answer(i, v)
    BY <2>1, <2>2, FrameAppended DEF ApprovalTypes
  <2>4. /\ UNCHANGED <<conn, runner, queue, ids, pending, prompts, stray, verdict>>
        /\ prompts[i] # Approvals!Nobody /\ said[prompts[i]] = "none" /\ prompts[i] \in Requests
    BY <1>7 DEF Approvals!ClientAnswers, ApprovalTypes
  <2>5. /\ \A r \in Requests : r # prompts[i] => said'[r] = said[r]
        /\ said'[prompts[i]] = v
        /\ v # "none"
    BY <2>1, <2>4 DEF ApprovalTypes
  <2>6. \A n \in 1 .. Len(frames) : frames[n].id \in Approvals!Ids \cup {Approvals!NoId}
                 /\ (frames[n].id \in Approvals!Ids => prompts[frames[n].id] \in Requests \cup {Approvals!Nobody})
                 /\ frames[n].verdict # "none"
    BY FrameElement DEF ApprovalTypes, Sayings
  <2>7. \A n \in 1 .. Len(frames') :
          \/ n \in 1 .. Len(frames) /\ frames'[n] = frames[n]
          \/ n = Len(frames) + 1 /\ frames'[n] = Approvals!Answer(i, v)
    BY <2>3
  <2>8. \A n \in 1 .. Len(frames) : frames[n].id # i
    BY <2>4, <2>6 DEF Approvals!NoId
  <2>9. IdsAreFresh' BY <2>4
  <2>10. FramesAreSaid'
    <3> SUFFICES ASSUME NEW n \in 1 .. Len(frames'), frames'[n].id # Approvals!NoId
                 PROVE /\ prompts[frames'[n].id] # Approvals!Nobody
                       /\ said'[prompts[frames'[n].id]] = frames'[n].verdict
      BY <2>4
    <3>1. CASE n \in 1 .. Len(frames) /\ frames'[n] = frames[n]
      <4>1. prompts[frames[n].id] # Approvals!Nobody /\ said[prompts[frames[n].id]] = frames[n].verdict
        BY <3>1
      <4>2. frames[n].id \in Approvals!Ids BY <2>6, <3>1
      <4> QED BY <2>4, <2>5, <2>6, <3>1, <4>1, <4>2
    <3>2. CASE n = Len(frames) + 1 /\ frames'[n] = Approvals!Answer(i, v)
      BY <2>2, <2>4, <2>5, <3>2
    <3> QED BY <2>7, <3>1, <3>2
  <2>11. AnswersAreExpected'
    <3> SUFFICES ASSUME conn = "open", stray = 0 PROVE AnswersAreExpected'
      BY <2>4
    <3>1. pending[i] # Approvals!Nobody BY <2>4
    <3>2. i # Approvals!NoId BY DEF Approvals!NoId
    <3>3. \A n \in 1 .. Len(frames') : frames'[n].id # Approvals!NoId /\ pending[frames'[n].id] # Approvals!Nobody
      BY <2>2, <2>7, <3>1, <3>2
    <3>4. \A m, n \in 1 .. Len(frames') : frames'[m].id = frames'[n].id => m = n
      BY <2>2, <2>7, <2>8
    <3>5. \A j \in Approvals!Ids : prompts[j] # Approvals!Nobody /\ said'[prompts[j]] = "none" =>
                        pending[j] # Approvals!Nobody
      BY <2>4, <2>5 DEF ApprovalTypes
    <3> QED BY <2>4, <3>3, <3>4, <3>5
  <2>12. Approvals!VerdictIsTheClients' BY <2>4, <2>5
  <2> QED BY <2>9, <2>10, <2>11, <2>12
<1>8. CASE Approvals!ClientStrays
  <2>1. PICK i \in Approvals!Ids \cup {Approvals!NoId}, v \in Sayings :
           /\ frames' = Append(frames, Approvals!Answer(i, v))
           /\ i # Approvals!NoId => prompts[i] # Approvals!Nobody /\ said[prompts[i]] = v
    <3>1. CASE frames' = Append(frames, Approvals!Answer(Approvals!NoId, "error"))
      BY <3>1
    <3>2. ASSUME NEW i \in Approvals!Ids, prompts[i] # Approvals!Nobody, said[prompts[i]] # "none",
                 frames' = Append(frames, Approvals!Answer(i, said[prompts[i]]))
          PROVE  said[prompts[i]] \in Sayings
      BY <3>2, SayingsAreTyped
    <3> QED BY <1>8, <3>1, <3>2 DEF Approvals!ClientStrays
  <2>2. Approvals!Answer(i, v) \in Frame /\ Approvals!Answer(i, v).id = i /\ Approvals!Answer(i, v).verdict = v
    BY DEF Approvals!Answer, Frame
  <2>3. /\ Len(frames') = Len(frames) + 1 /\ Len(frames) \in Nat
        /\ \A n \in 1 .. Len(frames) : frames'[n] = frames[n]
        /\ frames'[Len(frames) + 1] = Approvals!Answer(i, v)
    BY <2>1, <2>2, FrameAppended DEF ApprovalTypes
  <2>4. UNCHANGED <<conn, runner, queue, ids, pending, prompts, said, verdict>>
    BY <1>8 DEF Approvals!ClientStrays
  <2>5. stray' # 0
    BY <1>8 DEF Approvals!ClientStrays, ApprovalTypes
  <2>7. \A n \in 1 .. Len(frames') :
          \/ n \in 1 .. Len(frames) /\ frames'[n] = frames[n]
          \/ n = Len(frames) + 1 /\ frames'[n] = Approvals!Answer(i, v)
    BY <2>3
  <2> QED BY <2>1, <2>2, <2>4, <2>5, <2>7
<1>9. CASE UNCHANGED Approvals!vars BY <1>9 DEF Approvals!vars
<1> QED BY <1>1, <1>2, <1>3, <1>4, <1>5, <1>6, <1>7, <1>8, <1>9 DEF Approvals!Next,
    Approvals!Connection

(* The invariant holds on a new connection.                                *)
LEMMA ApprovalStart ==
  ASSUME ApprovalConstants, Approvals!Init PROVE ApprovalInv
<1>1. Cardinality(Requests) \in Nat
  BY FS_CardinalityType DEF ApprovalConstants
<1> QED BY <1>1 DEF Approvals!Init, ApprovalInv, ApprovalTypes, IdsAreFresh, FramesAreSaid,
    AnswersAreExpected, Approvals!VerdictIsTheClients, Approvals!ApprovedByClient, Approvals!NoSpuriousDenial

(* A runner is told what the client said to its own request: an approval   *)
(* always, a denial as long as the connection is open and the client keeps *)
(* to the protocol (consume_approval_response, deny_pending_approvals),    *)
(* for any number of requests, any channel capacity and any number of      *)
(* stray frames.                                                           *)
THEOREM VerdictsAreTheClients ==
  ApprovalConstants => (Approvals!Spec => []VerdictIsTheClients)
<1> SUFFICES ASSUME ApprovalConstants PROVE Approvals!Spec => []VerdictIsTheClients OBVIOUS
<1>1. Approvals!Init => ApprovalInv BY ApprovalStart
<1>2. ApprovalInv /\ [Approvals!Next]_(Approvals!vars) => ApprovalInv' BY ApprovalStep
<1>3. ApprovalInv => VerdictIsTheClients BY DEF ApprovalInv, VerdictIsTheClients
<1> QED BY <1>1, <1>2, <1>3, PTL DEF Approvals!Spec

=============================================================================
