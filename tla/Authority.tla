------------------------------ MODULE Authority ------------------------------
(***************************************************************************)
(* The authority pipelines: a tool call is prepared (judged and bound to a  *)
(* token), approved, and executed after its evidence was taken again; a     *)
(* patch is then published by the workspace.  Every turn has a pipeline of  *)
(* its own, with its own maps of tokens, and opens the workspace for        *)
(* itself.  Several tasks execute at the same time, of one turn or of       *)
(* several, a clone of one prepared invocation may be presented twice,      *)
(* other programs write to the workspace, and time passes in between.       *)
(*                                                                         *)
(* The model has one file.  A file is the object at a name (device and      *)
(* inode) with a content; replacing it may reuse an inode.  Policy is a     *)
(* matter of module Policy: here it only says that Prepare may not happen.  *)
(***************************************************************************)
EXTENDS Integers, FiniteSets

CONSTANTS
  Tokens,       \* prepared tokens, one per prepared invocation
  Turns,        \* turns, each with its pipeline and its open workspace
  TurnOf,       \* Tokens -> the turn whose pipeline prepares the token
  ReadOnly,     \* those whose effects are read-only
  Patches,      \* those of workspace.apply_patch; the others run processes
  Replacement,  \* Tokens -> the content a patch writes
  Executors,    \* tasks that call execute
  Nodes,        \* inodes
  Contents,     \* file contents, told apart by their revision digest
  TTL,          \* DEFAULT_PREPARATION_TTL_SECONDS
  MaxStall,     \* longest time from the expiry check to the consumption
  Capacity,     \* MAX_ISSUED_TOKENS
  MaxTime       \* bound on the clock

ASSUME AuthorityAssumption ==
  /\ ReadOnly \subseteq Tokens
  /\ Patches \subseteq Tokens \ ReadOnly
  /\ TurnOf \in [Tokens -> Turns]
  /\ Replacement \in [Tokens -> Contents]
  /\ TTL \in Nat /\ MaxStall \in Nat /\ MaxTime \in Nat
  /\ Capacity \in Nat \ {0}
  /\ MaxStall <= TTL

VARIABLES
  now,       \* Utc::now()
  file,      \* the file under its name
  prepared,  \* Tokens -> the invocation prepare returned, or NotPrepared
  issued,    \* domains of the issued_tokens of all pipelines
  approved,  \* tokens of which an approved clone exists
  consumed,  \* consumed_tokens: Tokens -> time of consumption, or Never
  call,      \* Executors -> the running call of execute
  permits,   \* Tokens -> permits obtained, counted to TwoOrMore (history)
  evicted    \* tokens removed from consumed_tokens for lack of room (history)

vars == <<now, file, prepared, issued, approved, consumed, call, permits,
          evicted>>

Never == -1
TwoOrMore == 2
Files == [node : Nodes, content : Contents]
NotPrepared == [at |-> Never]
Prepared == [at : Nat, base : Files]

(* Mutant: the record of a use is kept for one lifetime only.               *)
RetentionOneLifetime == TTL

(* CONSUMED_TOKEN_RETENTION_SECONDS.                                        *)
Retention == 2 * TTL

(* Where a call of execute is.  "checked": issued, unexpired, approved;     *)
(* "planned" and "revalidated": after the first and the second look at the  *)
(* file; "permitted": the token is consumed; "located", "opened" and        *)
(* "verified": inside the publication of a patch.                           *)
Validating == {"checked", "planned", "revalidated"}
Publishing == {"opened", "verified"}
Phases == Validating \union Publishing \union {"permitted", "located"}

(* seen is the file the call looked at last, at the time of its expiry      *)
(* check; raced says that somebody who does not share the mutation gate, a  *)
(* program outside the daemon or another turn, wrote after the last look.   *)
Idle == [phase |-> "idle"]
Call(phase, t, at, seen, raced) ==
  [phase |-> phase, token |-> t, at |-> at, seen |-> seen, raced |-> raced]
Calls == [phase : Phases, token : Tokens, at : Nat, seen : Files,
          raced : BOOLEAN]

Init ==
  /\ now = 0
  /\ file \in Files
  /\ prepared = [t \in Tokens |-> NotPrepared]
  /\ issued = {}
  /\ approved = {}
  /\ consumed = [t \in Tokens |-> Never]
  /\ call = [e \in Executors |-> Idle]
  /\ permits = [t \in Tokens |-> 0]
  /\ evicted = {}

-----------------------------------------------------------------------------
Expires(t) == prepared[t].at + TTL

(* The tokens of a pipeline.                                                *)
Of(p) == {t \in Tokens : TurnOf[t] = p}

(* prune_issued_tokens of one pipeline: the presented token survives, so    *)
(* that its own expiry is what the caller hears of.                         *)
Live(p, kept) ==
  {t \in issued : t \notin Of(p) \/ t \in kept \/ Expires(t) >= now}

(* Plan, judge and bind one invocation.  A patch names the revision it      *)
(* expects, the one of the file it was planned on.                          *)
Prepare(t) ==
  /\ prepared[t] = NotPrepared
  /\ Cardinality(Live(TurnOf[t], {}) \cap Of(TurnOf[t])) < Capacity
  /\ prepared' = [prepared EXCEPT ![t] = [at |-> now, base |-> file]]
  /\ issued' = Live(TurnOf[t], {}) \union {t}
  /\ UNCHANGED <<now, file, approved, consumed, call, permits, evicted>>

(* TokenCapacity: the map is full of unexpired tokens.                      *)
PrepareRefused(p) ==
  /\ Cardinality(Live(p, {}) \cap Of(p)) >= Capacity
  /\ issued' = Live(p, {})
  /\ UNCHANGED <<now, file, prepared, approved, consumed, call, permits,
                 evicted>>

(* ensure_issued, for the invocation as prepare returned it.                *)
IsIssued(t) == t \in issued

(* An approval or an execution that fails its first checks, a denial        *)
(* included: the pruning of the map is all that remains of it.              *)
Refuse(t) ==
  /\ prepared[t] # NotPrepared
  /\ issued' = Live(TurnOf[t], {t})
  /\ UNCHANGED <<now, file, prepared, approved, consumed, call, permits,
                 evicted>>

(* The human said yes.  The binding expires with the preparation.           *)
ApproveOnce(t) ==
  /\ IsIssued(t)
  /\ Expires(t) >= now
  /\ issued' = Live(TurnOf[t], {t})
  /\ approved' = IF t \in ReadOnly THEN approved ELSE approved \union {t}
  /\ UNCHANGED <<now, file, prepared, consumed, call, permits, evicted>>

-----------------------------------------------------------------------------
(* execute.                                                                 *)

(* validate_approval refuses at the instant of expiry, for read-only calls  *)
(* as well; only the missing approval is forgiven to them.                  *)
ApprovalValid(t) ==
  /\ Expires(t) > now
  /\ t \in ReadOnly \/ t \in approved

BeginExecute(e, t) ==
  /\ call[e] = Idle
  /\ IsIssued(t)
  /\ ApprovalValid(t)
  /\ issued' = Live(TurnOf[t], {t})
  /\ call' = [call EXCEPT ![e] =
                Call("checked", t, now, prepared[t].base, FALSE)]
  /\ UNCHANGED <<now, file, prepared, approved, consumed, permits, evicted>>

At(e, phase) == call[e].phase = phase

Goto(e, phase) ==
  /\ call' = [call EXCEPT ![e] = Call(phase, @.token, @.at, file, FALSE)]
  /\ UNCHANGED <<now, file, prepared, issued, approved, consumed, permits,
                 evicted>>

(* registry.plan of the normalized arguments, which name the base revision. *)
Plan(e) ==
  /\ At(e, "checked")
  /\ call[e].token \in Patches =>
       file.content = prepared[call[e].token].base.content
  /\ Goto(e, "planned")

(* The file did not change since the plan, and is the one bound to the      *)
(* token: base_revision carries device, inode and digest.                   *)
SameBase(e) ==
  call[e].token \in Patches =>
    file = call[e].seen /\ file = prepared[call[e].token].base

Revalidate(e) ==
  /\ At(e, "planned")
  /\ SameBase(e)
  /\ Goto(e, "revalidated")

(* prune_consumed_tokens of one pipeline.                                   *)
Remembered(p) ==
  [t \in Tokens |->
     IF t \notin Of(p) \/ consumed[t] >= now - Retention
     THEN consumed[t] ELSE Never]

Held(p) == {t \in Of(p) : Remembered(p)[t] # Never}

Unused(t) == t \notin Held(TurnOf[t])

(* The entry that makes room: none, or an oldest one.                       *)
Victims(p) ==
  IF Cardinality(Held(p)) < Capacity THEN {{}}
  ELSE {{v} : v \in {u \in Held(p) : \A w \in Held(p) : consumed[u] <= consumed[w]}}

(* Check and insertion under one lock, then into_execution_permit.          *)
Consume(e) ==
  LET t == call[e].token IN
  /\ At(e, "revalidated")
  /\ Unused(t)
  /\ \E gone \in Victims(TurnOf[t]) :
       /\ consumed' = [u \in Tokens |-> IF u = t THEN now
                                        ELSE IF u \in gone THEN Never
                                        ELSE Remembered(TurnOf[t])[u]]
       /\ evicted' = evicted \union gone
  /\ permits' = [permits EXCEPT ![t] = IF @ < TwoOrMore THEN @ + 1 ELSE @]
  /\ call' = [call EXCEPT ![e] = [@ EXCEPT !.phase = "permitted"]]
  /\ UNCHANGED <<now, file, prepared, issued, approved>>

(* TokenConsumed, after the pruning.                                        *)
ConsumeRefused(e) ==
  /\ At(e, "revalidated")
  /\ ~ Unused(call[e].token)
  /\ consumed' = Remembered(TurnOf[call[e].token])
  /\ call' = [call EXCEPT ![e] = Idle]
  /\ UNCHANGED <<now, file, prepared, issued, approved, permits, evicted>>

(* Any mismatch above or below, an unreadable file, a replaced workspace    *)
(* root, an I/O error; for a process or a read, also the end of its run.    *)
Return(e) ==
  /\ call[e] # Idle
  /\ call' = [call EXCEPT ![e] = Idle]
  /\ UNCHANGED <<now, file, prepared, issued, approved, consumed, permits,
                 evicted>>

-----------------------------------------------------------------------------
(* execute_prepared_mutation and apply_patch_resolved.                      *)

(* The snapshot is compared with the one of the revalidated plan.           *)
Locate(e) ==
  /\ At(e, "permitted")
  /\ call[e].token \in Patches
  /\ file = call[e].seen
  /\ Goto(e, "located")

(* Mutant: each clone of a Workspace has a gate of its own.                 *)
MutationGatePerClone(e) == TRUE

(* mutation_gate is shared by the clones of a Workspace.  Every turn opens  *)
(* one, so it excludes the patches of one turn from each other, and no      *)
(* others.                                                                  *)
SameGate(e, o) == TurnOf[call[o].token] = TurnOf[call[e].token]

MutationGateFree(e) ==
  \A o \in Executors : call[o].phase \in Publishing => ~ SameGate(e, o)

SameContent(e) == file.content = prepared[call[e].token].base.content

(* The gate is taken, the file opened and its digest compared.              *)
OpenBase(e) ==
  /\ At(e, "located")
  /\ MutationGateFree(e)
  /\ SameContent(e)
  /\ Goto(e, "opened")

(* The replacement is on disk under a temporary name; the target is opened  *)
(* again, must be the same object and must still have the base revision.    *)
Verify(e) ==
  /\ At(e, "opened")
  /\ file.node = call[e].seen.node
  /\ SameContent(e)
  /\ Goto(e, "verified")

Raced(e) == [call[e] EXCEPT !.raced = TRUE]

(* renameat over the name.  The temporary file is another inode.  A failed  *)
(* directory sync is reported as uncertain, and the file is replaced too.   *)
Publish(e) ==
  /\ At(e, "verified")
  /\ \E n \in Nodes \ {file.node} :
       file' = [node |-> n, content |-> Replacement[call[e].token]]
  /\ call' = [o \in Executors |->
                IF o = e THEN Idle
                ELSE IF call[o].phase = "verified" /\ ~ SameGate(e, o)
                THEN Raced(o) ELSE call[o]]
  /\ UNCHANGED <<now, prepared, issued, approved, consumed, permits, evicted>>

(* Another program writes to the file or replaces it.                       *)
Edit ==
  /\ file' \in Files \ {file}
  /\ call' = [e \in Executors |->
                IF call[e].phase = "verified" THEN Raced(e) ELSE call[e]]
  /\ UNCHANGED <<now, prepared, issued, approved, consumed, permits, evicted>>

(* Time.  From the expiry check to the consumption execute does not wait    *)
(* for anything but the file system and two short locks.                    *)
Tick ==
  /\ now < MaxTime
  /\ \A e \in Executors :
       call[e].phase \in Validating => now < call[e].at + MaxStall
  /\ now' = now + 1
  /\ UNCHANGED <<file, prepared, issued, approved, consumed, call, permits,
                 evicted>>

Next ==
  \/ \E t \in Tokens : Prepare(t) \/ Refuse(t) \/ ApproveOnce(t)
  \/ \E p \in Turns : PrepareRefused(p)
  \/ \E e \in Executors :
       \/ \E t \in Tokens : BeginExecute(e, t)
       \/ Plan(e) \/ Revalidate(e)
       \/ Consume(e) \/ ConsumeRefused(e)
       \/ Locate(e) \/ OpenBase(e) \/ Verify(e) \/ Publish(e)
       \/ Return(e)
  \/ Edit
  \/ Tick

Spec == Init /\ [][Next]_vars

-----------------------------------------------------------------------------
(* Properties.                                                              *)

TypeOK ==
  /\ now \in 0 .. MaxTime
  /\ file \in Files
  /\ prepared \in [Tokens -> Prepared \union {NotPrepared}]
  /\ issued \subseteq Tokens
  /\ approved \subseteq Tokens
  /\ consumed \in [Tokens -> Nat \union {Never}]
  /\ call \in [Executors -> Calls \union {Idle}]
  /\ permits \in [Tokens -> 0 .. TwoOrMore]
  /\ evicted \subseteq Tokens

(* A prepared token obtains one execution permit, however many clones of    *)
(* the invocation are executed at once or late: the entry in                *)
(* consumed_tokens outlives the last moment at which an execution that      *)
(* passed its expiry check can reach it.  The exception is the code's own:  *)
(* an entry evicted because the map was full.                               *)
SingleUse ==
  \A t \in Tokens : permits[t] > 1 => t \in evicted

(* A patch about to be published was approved, and replaces the very        *)
(* content it was reviewed against, unless somebody who does not share its  *)
(* mutation gate wrote in the instant after the last check (which POSIX     *)
(* cannot exclude): a program outside the daemon, or another turn.  The     *)
(* patches of one turn, prepared together and run at the same time, never   *)
(* overwrite each other (apply_patch_inner).                                *)
NoBlindOverwrite ==
  \A e \in Executors :
    call[e].phase = "verified" =>
      /\ call[e].token \in approved
      /\ call[e].raced \/ file.content = prepared[call[e].token].base.content

(* A permit is obtained on an approval, or for a read, and at most the      *)
(* stall after the token expired, although expiry and approval are checked  *)
(* only at the beginning of execute and the token is taken at its end.      *)
AuthorityFresh ==
  \A t \in Tokens :
    /\ permits[t] > 0 => t \in ReadOnly \union approved
    /\ consumed[t] # Never => consumed[t] < Expires(t) + MaxStall

=============================================================================
