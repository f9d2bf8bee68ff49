-------------------------- MODULE ExecutionProofs ---------------------------
(***************************************************************************)
(* What a turn may do to the machine, for every value of the constants:    *)
(* whose trust it acts on, and which processes are killed on its behalf.   *)
(***************************************************************************)
EXTENDS Workspaces, Processes, Integers, Sequences, TLAPS

-----------------------------------------------------------------------------
(* "None" is no workspace record.                                          *)
WorkspaceConstants == \A id, trust : None # [id |-> id, trust |-> trust]

(* Types of the records of the projection.                                 *)
RecordTypes ==
  /\ ws \in [Records -> {None} \cup [id : Identities, trust : BOOLEAN]]
  /\ jobs \in [Jobs -> {None} \cup [on : Records, mode : Modes, state : {"active", "paused"}]]

(* A record that says trusted speaks for an identity the user trusts now.  *)
TrustIsRecorded ==
  \A w \in Records : ws[w] # None /\ ws[w].trust => ws[w].id \in blessed /\ ws[w].id \in everTrusted

(* A job belongs to a record, and above observe to one that was trusted.   *)
JobsAreTrusted ==
  \A j \in Jobs : jobs[j] # None =>
    /\ ws[jobs[j].on] # None
    /\ jobs[j].mode # "observe" => ws[jobs[j].on].id \in everTrusted

(* A turn that counts as trusted was loaded while its directory was.       *)
TurnIsTrusted ==
  /\ turn.phase \in {"idle", "loaded", "built"}
  /\ turn.phase = "loaded" /\ turn.trust => turn.expected \in turn.blessed
  /\ turn.phase = "built" /\ turn.trust => turn.pinned \in turn.blessed

(* However a directory is named when it is opened, its identity has one    *)
(* record, so there is one place where its trust is kept.                  *)
OneRecordPerIdentity ==
  \A v, w \in Records :
    ws[v] # None /\ ws[w] # None /\ ws[v].id = ws[w].id => v = w

(* The inductive invariant of Workspaces. Withdrawing the trust of one     *)
(* record would leave another one trusted if an identity could have two.   *)
WorkspaceInv ==
  /\ RecordTypes /\ OneRecordPerIdentity /\ TrustIsRecorded /\ JobsAreTrusted
  /\ TurnIsTrusted /\ (acted # None => acted.at \in acted.blessed)

(* The commands keep the invariant.                                        *)
LEMMA CommandsKeep ==
  ASSUME WorkspaceConstants, WorkspaceInv, NEW w \in Records
  PROVE  /\ \A p \in Paths : WorkspaceOpen(p) => WorkspaceInv'
         /\ \A d \in Identities, b \in BOOLEAN : WorkspaceTrust(w, d, b) => WorkspaceInv'
         /\ \A j \in Jobs, m \in Modes : JobCreate(j, w, m) => WorkspaceInv'
         /\ \A j \in Jobs, to \in {"active", "paused"} : JobTransition(j, to) => WorkspaceInv'
<1> USE DEF WorkspaceInv
<1>1. ASSUME NEW p \in Paths, WorkspaceOpen(p) PROVE WorkspaceInv'
  <2>1. PICK v \in Records : ws[v] = None /\ ws' = [ws EXCEPT ![v] = [id |-> Identity(p), trust |-> FALSE]]
    BY <1>1 DEF WorkspaceOpen
  <2>2. UNCHANGED <<daemon, jobs, turn, blessed, everTrusted, acted>> BY <1>1
      DEF WorkspaceOpen
  <2>3. PICK id : id = Identity(p) OBVIOUS
  <2>4. id \in Identities
    <3>1. Canonical(p) \in Paths BY DEF Canonical
    <3> QED BY <1>1, <2>3, <3>1 DEF WorkspaceOpen, Opens, Identity, Identities
  <2>5. \A u \in Records : ws[u] # None => ws[u].id # id
    BY <1>1, <2>3 DEF WorkspaceOpen, Known
  <2>6. /\ ws'[v] = [id |-> id, trust |-> FALSE] /\ ws'[v] # None
        /\ \A u \in Records : u # v => ws'[u] = ws[u]
    BY <2>1, <2>3 DEF RecordTypes, WorkspaceConstants
  <2>7. RecordTypes' BY <2>1, <2>2, <2>3, <2>4 DEF RecordTypes
  <2>8. OneRecordPerIdentity' BY <2>5, <2>6 DEF OneRecordPerIdentity
  <2>9. TrustIsRecorded' BY <2>2, <2>6 DEF TrustIsRecorded
  <2>10. JobsAreTrusted' BY <2>1, <2>2, <2>6 DEF JobsAreTrusted, RecordTypes
  <2>11. TurnIsTrusted'
    BY <2>2 DEF TurnIsTrusted
  <2> QED BY <2>2, <2>7, <2>8, <2>9, <2>10, <2>11
<1>2. ASSUME NEW d \in Identities, NEW b \in BOOLEAN, WorkspaceTrust(w, d, b) PROVE WorkspaceInv'
  <2>1. /\ ws[w] # None /\ d = ws[w].id /\ ws' = [ws EXCEPT ![w].trust = b]
        /\ blessed' = (IF b THEN blessed \cup {d} ELSE blessed \ {d})
        /\ everTrusted' = (IF b THEN everTrusted \cup {d} ELSE everTrusted)
        /\ UNCHANGED <<daemon, jobs, turn, acted>>
    BY <1>2 DEF WorkspaceTrust
  <2>2. /\ ws'[w] = [id |-> d, trust |-> b] /\ ws'[w] # None
        /\ \A u \in Records : u # w => ws'[u] = ws[u]
    BY <2>1 DEF RecordTypes, WorkspaceConstants
  <2>3. RecordTypes' BY <2>1, <2>2 DEF RecordTypes
  <2>4. OneRecordPerIdentity' BY <2>1, <2>2 DEF OneRecordPerIdentity
  <2>5. TrustIsRecorded' BY <2>1, <2>2 DEF TrustIsRecorded, OneRecordPerIdentity
  <2>6. JobsAreTrusted' BY <2>1, <2>2 DEF JobsAreTrusted, RecordTypes
  <2>7. TurnIsTrusted'
    BY <2>1 DEF TurnIsTrusted
  <2> QED BY <2>1, <2>3, <2>4, <2>5, <2>6, <2>7
<1>3. ASSUME NEW j \in Jobs, NEW m \in Modes, JobCreate(j, w, m) PROVE WorkspaceInv'
  <2>1. /\ ws[w] # None /\ (ws[w].trust \/ m = "observe")
        /\ jobs' = [jobs EXCEPT ![j] = [on |-> w, mode |-> m, state |-> "active"]]
        /\ UNCHANGED <<daemon, ws, turn, blessed, everTrusted, acted>>
    BY <1>3 DEF JobCreate
  <2>2. RecordTypes' BY <2>1 DEF RecordTypes
  <2>3. JobsAreTrusted' BY <2>1 DEF JobsAreTrusted, RecordTypes, TrustIsRecorded
  <2>4. OneRecordPerIdentity' /\ TrustIsRecorded' BY <2>1 DEF OneRecordPerIdentity, TrustIsRecorded
  <2>5. TurnIsTrusted'
    BY <2>1 DEF TurnIsTrusted
  <2> QED BY <2>1, <2>2, <2>3, <2>4, <2>5
<1>4. ASSUME NEW j \in Jobs, NEW to \in {"active", "paused"}, JobTransition(j, to) PROVE WorkspaceInv'
  <2>1. /\ jobs[j] # None /\ jobs' = [jobs EXCEPT ![j].state = to]
        /\ UNCHANGED <<daemon, ws, turn, blessed, everTrusted, acted>>
    BY <1>4 DEF JobTransition
  <2>2. RecordTypes' BY <2>1 DEF RecordTypes
  <2>3. JobsAreTrusted' BY <2>1 DEF JobsAreTrusted, RecordTypes
  <2>4. OneRecordPerIdentity' /\ TrustIsRecorded' BY <2>1 DEF OneRecordPerIdentity, TrustIsRecorded
  <2>5. TurnIsTrusted'
    BY <2>1 DEF TurnIsTrusted
  <2> QED BY <2>1, <2>2, <2>3, <2>4, <2>5
<1> QED BY <1>1, <1>2, <1>3, <1>4

(* The steps of a turn keep the invariant; the directory a turn works on   *)
(* has the identity it was loaded for.                                     *)
LEMMA TurnsKeep ==
  ASSUME WorkspaceConstants, WorkspaceInv,
         \/ \E w \in Records : LoadTurn(w)
         \/ BuildContext \/ Mutate \/ EndTurn
  PROVE  WorkspaceInv'
<1> USE DEF WorkspaceInv
<1>1. UNCHANGED <<daemon, ws, jobs, blessed, everTrusted>>
  BY DEF LoadTurn, BuildContext, Mutate, EndTurn
<1>2. RecordTypes' /\ OneRecordPerIdentity' /\ TrustIsRecorded' /\ JobsAreTrusted'
  BY <1>1 DEF RecordTypes, OneRecordPerIdentity, TrustIsRecorded, JobsAreTrusted
<1>3. ASSUME NEW w \in Records, LoadTurn(w) PROVE WorkspaceInv'
  BY <1>1, <1>2, <1>3 DEF LoadTurn, TurnIsTrusted, TrustIsRecorded
<1>4. CASE BuildContext
  <2>1. PICK tools, pinned :
          /\ turn' = [phase |-> "built", trust |-> turn.trust, tools |-> tools,
                      pinned |-> pinned, blessed |-> turn.blessed]
          /\ pinned = turn.expected
    BY <1>4 DEF BuildContext, ValidateWorkspaceIdentity
  <2>2. turn.phase = "loaded" /\ acted' = acted BY <1>4 DEF BuildContext
  <2>3. TurnIsTrusted' BY <2>1, <2>2 DEF TurnIsTrusted
  <2> QED BY <1>1, <1>2, <2>2, <2>3
<1>5. CASE Mutate
  BY <1>1, <1>2, <1>5 DEF Mutate, TurnIsTrusted
<1>6. CASE EndTurn
  BY <1>1, <1>2, <1>6 DEF EndTurn, NoTurn, TurnIsTrusted
<1> QED BY <1>3, <1>4, <1>5, <1>6

(* The invariant of Workspaces is inductive.                               *)
LEMMA WorkspaceStep ==
  ASSUME WorkspaceConstants, WorkspaceInv, [Next]_vars PROVE WorkspaceInv'
<1> USE DEF WorkspaceInv
<1>2. ASSUME NEW p \in Paths, OtherPrograms(p) PROVE WorkspaceInv'
  BY <1>2 DEF OtherPrograms, RecordTypes, OneRecordPerIdentity, TrustIsRecorded, JobsAreTrusted,
     TurnIsTrusted
<1>3. CASE Restart
  BY <1>3 DEF Restart, NoTurn, RecordTypes, OneRecordPerIdentity, TrustIsRecorded, JobsAreTrusted,
     TurnIsTrusted
<1>4. CASE UNCHANGED vars
  BY <1>4 DEF vars, RecordTypes, OneRecordPerIdentity, TrustIsRecorded, JobsAreTrusted,
     TurnIsTrusted
<1>5. ASSUME NEW p \in Paths, WorkspaceOpen(p) PROVE WorkspaceInv'
  <2>1. PICK w \in Records : TRUE BY <1>5 DEF WorkspaceOpen
  <2> QED BY <1>5, <2>1, CommandsKeep
<1>6. ASSUME NEW j \in Jobs, NEW to \in {"active", "paused"}, JobTransition(j, to) PROVE WorkspaceInv'
  <2>1. PICK w \in Records : TRUE BY <1>6 DEF JobTransition, RecordTypes
  <2> QED BY <1>6, <2>1, CommandsKeep
<1>7. ASSUME NEW w \in Records,
             \/ \E d \in Identities, b \in BOOLEAN : WorkspaceTrust(w, d, b)
             \/ \E j \in Jobs, m \in Modes : JobCreate(j, w, m)
             \/ LoadTurn(w)
      PROVE  WorkspaceInv'
  BY <1>7, CommandsKeep, TurnsKeep
<1>8. CASE BuildContext \/ Mutate \/ EndTurn BY <1>8, TurnsKeep
<1> QED BY <1>2, <1>3, <1>4, <1>5, <1>6, <1>7, <1>8 DEF Next

(* WorkspaceInv is an invariant of Workspaces.                             *)
LEMMA WorkspaceInvariant == WorkspaceConstants => (Spec => []WorkspaceInv)
<1> SUFFICES ASSUME WorkspaceConstants PROVE Spec => []WorkspaceInv OBVIOUS
<1>1. Init => WorkspaceInv
  BY DEF Init, NoTurn, WorkspaceInv, RecordTypes, OneRecordPerIdentity, TrustIsRecorded,
     JobsAreTrusted, TurnIsTrusted
<1>2. WorkspaceInv /\ [Next]_vars => WorkspaceInv' BY WorkspaceStep
<1> QED BY <1>1, <1>2, PTL DEF Spec

(* Trust stays with the directory it was given to: no file is changed      *)
(* below a directory the user did not trust when the turn was loaded, and  *)
(* no job above observe exists on one that never was, whatever other       *)
(* programs put in its place and however often the daemon restarts         *)
(* (workspace_trust, validate_workspace_identity, job_create), for any     *)
(* number of paths, directories, records and jobs.                         *)
THEOREM TrustStaysBound == WorkspaceConstants => (Spec => []TrustIsBound)
<1>1. WorkspaceInv => TrustIsBound BY DEF WorkspaceInv, JobsAreTrusted, TrustIsBound
<1> QED BY <1>1, WorkspaceInvariant, PTL

-----------------------------------------------------------------------------
(* Supervised processes.                                                   *)

USE DEF Exec!sandbox

(* Process numbers are positive, and calls are told apart from others.     *)
ProcessConstants ==
  /\ Pids \subseteq Nat \ {0}
  /\ Runs \cap {Exec!Other, Exec!Nobody} = {}
  /\ Limit \in Nat

(* Places of a call that has not spawned anything.                         *)
Before == {"idle", "queued", "checks", "handshake", "spawn"}
(* Places of a call with a child it has not waited for.                    *)
Supervising == {"guard", "established", "wait", "reap", "failing", "unavailable"}
(* The others.                                                             *)
After == {"drain", "confirm", "leaving", "lingering", "ended"}

(* Entries of the process table.                                           *)
Entries == [state : {"free", "live", "killed", "zombie"}, owner : Runs \cup {Exec!Other, Exec!Nobody},
            group : Pids \cup {0}, holds : BOOLEAN, stayed : BOOLEAN]

(* Values of the ProcessGroupGuard.                                        *)
Guards == [leader : Pids \cup {0}, group : Pids \cup {0}, reaped : BOOLEAN]

(* Types of the state of the calls.                                        *)
RunTypes ==
  /\ pc \in [Runs -> Before \cup Supervising \cup After]
  /\ strict \in [Runs -> BOOLEAN]
  /\ result \in [Runs -> {"none", "ok", "failed", "unknown", "dropped"}]
  /\ guard \in [Runs -> Guards]
  /\ child \in [Runs -> Pids \cup {0}]
  /\ struck = [c \in Runs |-> struck[c]]

(* Types of the process table.                                             *)
SystemTypes ==
  /\ procs \in [Pids -> Entries] /\ orphans \subseteq Pids
  /\ \A p \in Exec!Exists : /\ procs[p].owner # Exec!Nobody /\ procs[p].group # 0
                            /\ procs[p].holds => procs[p].owner \in Runs

(* Types of the pipes.                                                     *)
PipeTypes ==
  /\ reader \in [Runs -> {"off", "on", "extra", "done"}]
  /\ written \in [Runs -> Nat] /\ taken \in [Runs -> Nat] /\ got \in [Runs -> Nat]
  /\ truncated \in [Runs -> BOOLEAN]

(* A child that was not waited for keeps its number, and as long as it     *)
(* does nobody else gets into the group of that number.                    *)
ChildIsOwn ==
  \A c \in Runs : child[c] # 0 =>
    /\ child[c] \in Exec!Exists /\ procs[child[c]].owner = c /\ child[c] \notin orphans
    /\ \A p \in Exec!Members(child[c]) : procs[p].owner = c

(* Neither do orphans lose theirs.                                         *)
OrphansExist == orphans \subseteq Exec!Exists

(* A guard that may still strike names the group of a child that was not   *)
(* waited for.                                                             *)
GuardIsFresh ==
  \A c \in Runs :
    /\ pc[c] \in Before \cup {"guard"} => guard[c] = Exec!NoGuard
    /\ pc[c] \in Before => child[c] = 0
    /\ pc[c] \in Supervising => child[c] # 0
    /\ ~guard[c].reaped => guard[c].group \in {0, child[c]} /\ child[c] # 0

(* The processes of a call that never left their group.                    *)
Stayed(c) == {p \in Exec!Exists : procs[p].owner = c /\ procs[p].stayed}

(* They are in the group the guard knows, and gone when a strict call has  *)
(* succeeded.                                                              *)
GroupKnown(c) ==
  /\ pc[c] \in Before => Stayed(c) = {}
  /\ pc[c] = "guard" => \A p \in Stayed(c) : procs[p].group = child[c]
  /\ guard[c].group # 0 => \A p \in Stayed(c) : procs[p].group = guard[c].group
  /\ result[c] = "ok" => pc[c] \notin Before \cup {"guard"}
  /\ result[c] = "ok" /\ strict[c] => Stayed(c) = {}

(* ... for every call.                                                     *)
GroupIsKnown == \A c \in Runs : GroupKnown(c)

(* The retained output is the beginning of what was written.               *)
Exact(c) == got[c] = Exec!Least(written[c], Limit) /\ (truncated[c] <=> written[c] > Limit)

(* A reader that still reads has kept all it took.                         *)
PipeExact(c) ==
  /\ taken[c] <= written[c]
  /\ reader[c] = "off" => written[c] = 0 /\ got[c] = 0 /\ taken[c] = 0 /\ ~truncated[c]
  /\ reader[c] = "on" => got[c] = taken[c] /\ got[c] <= Limit /\ ~truncated[c]
  /\ reader[c] = "extra" => got[c] = taken[c] /\ got[c] = Limit /\ ~truncated[c]

(* What the place of a call and its outcome say about its pipe.            *)
OutcomeKnown(c) ==
  /\ pc[c] \in Before => reader[c] = "off"
  /\ result[c] = "failed" => pc[c] = "ended" /\ reader[c] = "off"
  /\ reader[c] = "done" => Exact(c) \/ pc[c] \in {"lingering", "ended"}
  /\ pc[c] = "confirm" => reader[c] = "done"
  /\ result[c] = "ok" => reader[c] = "done" /\ Exact(c) /\ pc[c] \in {"leaving", "lingering", "ended"}

(* ... for every call.                                                     *)
PipeIsExact == \A c \in Runs : PipeExact(c) /\ OutcomeKnown(c)

(* The inductive invariant of Process.                                     *)
ProcessInv ==
  /\ RunTypes /\ SystemTypes /\ PipeTypes
  /\ ChildIsOwn /\ OrphansExist /\ GuardIsFresh /\ GroupIsKnown /\ PipeIsExact
  /\ Exec!OnlyOwnStruck

(* The spawn fails.                                                        *)
Refusing(c) == pc[c] = "spawn" /\ Exec!Refuse(c, "Spawn")
(* Steps of a call that leave processes and pipe alone.                    *)
Quietly(c) ==
  \/ Exec!Call(c) \/ Exec!Lock(c) \/ Exec!Checks(c) \/ Exec!Handshake(c) \/ Refusing(c) \/ Exec!Observe(c) \/ Exec!Drained(c)
  \/ Exec!DrainFails(c) \/ Exec!Confirm(c) \/ Exec!WaitFails(c) \/ Exec!Drop(c) \/ Exec!DropQueued(c)
(* The spawn succeeds.                                                     *)
Starting(c, p) ==
  /\ pc[c] = "spawn" /\ p \in Exec!Available
  /\ child' = [child EXCEPT ![c] = p]
  /\ procs' = [procs EXCEPT ![p] =
       [state |-> "live", owner |-> c, group |-> p, holds |-> TRUE, stayed |-> TRUE]]
  /\ reader' = [reader EXCEPT ![c] = "on"]
  /\ Exec!Goto(c, "guard")
  /\ UNCHANGED <<strict, result, lock, guard, written, taken, got, truncated, orphans, struck>>
(* Steps that send SIGKILL.                                                *)
Killing(c) == Exec!Established(c) \/ Exec!Exited(c) \/ Exec!Elapsed(c) \/ Exec!DropGuard(c) \/ Exec!DropChild(c)
(* Steps that wait for the child.                                          *)
Reaping(c) == Exec!Reap(c) \/ Exec!Errors(c)
(* Steps of read_capped.                                                   *)
Reading(c) == Exec!ReadExtra(c) \/ Exec!ReadEof(c) \/ \E n \in 1 .. MaxBytes : Exec!Read(c, n)

(* Every step is of one of these kinds, of the operating system, or none.  *)
LEMMA NextIsOfAKind ==
  ASSUME [Exec!Next]_(Exec!vars)
  PROVE  \/ \E c \in Runs : \/ Quietly(c) \/ Killing(c) \/ Reaping(c) \/ Reading(c)
                            \/ \E p \in Pids : Starting(c, p)
         \/ \E p \in Pids : \/ Exec!Fork(p) \/ Exec!CloseOutput(p) \/ Exec!WriteOutput(p) \/ Exec!Exit(p) \/ Exec!Die(p)
                            \/ Exec!OtherStarts(p) \/ Exec!ReapOrphan(p)
                            \/ \E g \in Pids : Exec!Regroup(p, g)
         \/ UNCHANGED Exec!vars
<1>1. ASSUME NEW c \in Runs, Exec!Spawn(c) PROVE Refusing(c) \/ \E p \in Pids : Starting(c, p)
  BY <1>1 DEF Exec!Spawn, Refusing, Starting, Exec!Available
<1> QED BY <1>1 DEF Exec!Next, Exec!Execute, Exec!System, Quietly, Killing, Reaping, Reading

-----------------------------------------------------------------------------
(* What a quiet step leaves alone.                                         *)
LEMMA QuietCalls ==
  ASSUME NEW c \in Runs, Quietly(c)
  PROVE  UNCHANGED <<strict, child, written, taken, reader, got, truncated, procs, orphans, struck>>
BY DEF Quietly, Exec!Call, Exec!Lock, Exec!Checks, Exec!Handshake, Refusing, Exec!Refuse,
    Exec!Observe, Exec!Drained, Exec!DrainFails, Exec!Confirm,
   Exec!WaitFails, Exec!Drop, Exec!DropQueued, Exec!pipe

(* mark_leader_reaped keeps the group.                                     *)
LEMMA MarkedGuard ==
  ASSUME guard \in [Runs -> Guards], NEW c \in Runs, Exec!MarkReaped(c)
  PROVE  /\ guard' \in [Runs -> Guards]
         /\ guard'[c].group = guard[c].group /\ guard'[c].reaped
         /\ \A d \in Runs : d # c => guard'[d] = guard[d]
<1>1. PICK g \in Guards : g = guard[c] OBVIOUS
<1>2. PICK h : h = [g EXCEPT !.leader = 0, !.reaped = TRUE] OBVIOUS
<1>3. guard' = [guard EXCEPT ![c] = h] BY <1>1, <1>2 DEF Exec!MarkReaped
<1>4. h \in Guards /\ h.group = g.group /\ h.reaped BY <1>2 DEF Guards
<1> QED BY <1>1, <1>3, <1>4

(* Every step keeps the types of the calls.                                *)
LEMMA RunTypeStep ==
  ASSUME ProcessConstants, RunTypes, [Exec!Next]_(Exec!vars) PROVE RunTypes'
<1> USE DEF RunTypes, Before, Supervising, After
<1>1. ASSUME NEW c \in Runs, Quietly(c) PROVE RunTypes'
  <2> USE DEF Exec!Goto
  <2>0. UNCHANGED <<strict, child, struck>> BY <1>1, QuietCalls
  <2>1. CASE Exec!Call(c) BY <2>0, <2>1 DEF Exec!Call
  <2>2. CASE Exec!Lock(c) BY <2>0, <2>2 DEF Exec!Lock
  <2>3. CASE Exec!Checks(c) BY <2>0, <2>3 DEF Exec!Checks, Exec!Refuse, Exec!ProcessError
  <2>4. CASE Exec!Handshake(c) BY <2>0, <2>4 DEF Exec!Handshake, Exec!Refuse, Exec!ProcessError
  <2>5. CASE Refusing(c) BY <2>0, <2>5 DEF Refusing, Exec!Refuse, Exec!ProcessError
  <2>6. CASE Exec!Observe(c) BY <2>0, <2>6 DEF Exec!Observe, Exec!Adopt, Guards
  <2>7. CASE Exec!Drained(c) BY <2>0, <2>7 DEF Exec!Drained
  <2>8. CASE Exec!DrainFails(c) BY <2>0, <2>8 DEF Exec!DrainFails, Exec!ProcessError
  <2>9. CASE Exec!Confirm(c)
    <3>0. guard' = guard \/ guard' = [guard EXCEPT ![c] = Exec!NoGuard] BY <2>9
        DEF Exec!Confirm, Exec!Disarm
    <3>n. Exec!NoGuard \in Guards BY DEF Exec!NoGuard, Guards
    <3>1. guard' \in [Runs -> Guards] BY <3>0, <3>n
    <3>2. result' \in [Runs -> {"none", "ok", "failed", "unknown", "dropped"}]
      BY <2>9 DEF Exec!Confirm, Exec!ProcessError
    <3>3. pc' \in [Runs -> Before \cup Supervising \cup After] BY <2>9 DEF Exec!Confirm
    <3> QED BY <2>0, <3>1, <3>2, <3>3
  <2>10. CASE Exec!WaitFails(c) BY <2>0, <2>10 DEF Exec!WaitFails, Exec!ProcessError,
      Exec!Disarm, Exec!NoGuard, Guards
  <2>11. CASE Exec!Drop(c) BY <2>0, <2>11 DEF Exec!Drop
  <2>12. CASE Exec!DropQueued(c) BY <2>0, <2>12 DEF Exec!DropQueued
  <2> QED BY <1>1, <2>1, <2>2, <2>3, <2>4, <2>5, <2>6, <2>7, <2>8, <2>9, <2>10, <2>11,
      <2>12 DEF Quietly
<1>2. ASSUME NEW c \in Runs, NEW p \in Pids, Starting(c, p) PROVE RunTypes'
  BY <1>2 DEF Starting, Exec!Goto
<1>3. ASSUME NEW c \in Runs, Killing(c) PROVE RunTypes'
  <2> USE DEF Exec!Goto, Exec!Kill
  <2>1. CASE Exec!Established(c) BY <2>1 DEF Exec!Established
  <2>2. CASE Exec!Exited(c) BY <2>2 DEF Exec!Exited
  <2>3. CASE Exec!Elapsed(c) BY <2>3 DEF Exec!Elapsed
  <2>4. CASE Exec!DropGuard(c) BY <2>4 DEF Exec!DropGuard
  <2>5. CASE Exec!DropChild(c) BY <2>5 DEF Exec!DropChild, Exec!Disarm, Exec!NoGuard, Guards
  <2> QED BY <1>3, <2>1, <2>2, <2>3, <2>4, <2>5 DEF Killing
<1>4. ASSUME NEW c \in Runs, Reaping(c) PROVE RunTypes'
  <2>1. guard' \in [Runs -> Guards] BY <1>4, MarkedGuard DEF Reaping, Exec!Reap, Exec!Errors
  <2>2. child' \in [Runs -> Pids \cup {0}] /\ UNCHANGED <<strict, struck>>
    BY <1>4 DEF Reaping, Exec!Reap, Exec!Errors, Exec!Reaped
  <2>3. pc' \in [Runs -> Before \cup Supervising \cup After] BY <1>4 DEF Reaping, Exec!Reap,
      Exec!Errors, Exec!Goto
  <2>4. result' \in [Runs -> {"none", "ok", "failed", "unknown", "dropped"}]
    BY <1>4 DEF Reaping, Exec!Reap, Exec!Errors, Exec!ProcessError
  <2> QED BY <2>1, <2>2, <2>3, <2>4
<1>5. ASSUME NEW c \in Runs, Reading(c) PROVE RunTypes'
  BY <1>5 DEF Reading, Exec!Read, Exec!ReadExtra, Exec!ReadEof, Exec!call
<1>6. ASSUME NEW p \in Pids,
             \/ Exec!Fork(p) \/ Exec!CloseOutput(p) \/ Exec!WriteOutput(p) \/ Exec!Exit(p) \/ Exec!Die(p)
             \/ Exec!OtherStarts(p) \/ Exec!ReapOrphan(p) \/ \E g \in Pids : Exec!Regroup(p, g)
      PROVE  RunTypes'
  BY <1>6 DEF Exec!Fork, Exec!CloseOutput, Exec!WriteOutput, Exec!Exit, Exec!Die,
      Exec!OtherStarts, Exec!ReapOrphan, Exec!Regroup, Exec!call
<1>7. CASE UNCHANGED Exec!vars BY <1>7 DEF Exec!vars, Exec!call
<1> QED BY <1>1, <1>2, <1>3, <1>4, <1>5, <1>6, <1>7, NextIsOfAKind

(* Every step keeps the types of the pipes.                                *)
LEMMA PipeTypeStep ==
  ASSUME ProcessConstants, PipeTypes, [Exec!Next]_(Exec!vars) PROVE PipeTypes'
<1> USE DEF PipeTypes
<1>1. ASSUME NEW c \in Runs, Quietly(c) PROVE PipeTypes' BY <1>1, QuietCalls
<1>2. ASSUME NEW c \in Runs, NEW p \in Pids, Starting(c, p) PROVE PipeTypes' BY <1>2 DEF Starting
<1>3. ASSUME NEW c \in Runs, Killing(c) PROVE PipeTypes'
  BY <1>3 DEF Killing, Exec!Established, Exec!Exited, Exec!Elapsed, Exec!DropGuard,
      Exec!DropChild, Exec!pipe
<1>4. ASSUME NEW c \in Runs, Reaping(c) PROVE PipeTypes' BY <1>4 DEF Reaping, Exec!Reap,
    Exec!Errors, Exec!pipe
<1>5. ASSUME NEW c \in Runs, Reading(c) PROVE PipeTypes'
  <2>1. CASE Exec!ReadExtra(c) BY <2>1 DEF Exec!ReadExtra
  <2>2. CASE Exec!ReadEof(c) BY <2>2 DEF Exec!ReadEof
  <2>3. ASSUME NEW n \in 1 .. MaxBytes, Exec!Read(c, n) PROVE PipeTypes'
    <3>1. PICK room : room = Limit - got[c] OBVIOUS
    <3>2. room \in Int /\ n \in Nat BY <2>3, <3>1 DEF ProcessConstants, Exec!Read
    <3>3. got[c] + Exec!Least(n, room) \in Nat BY <3>1, <3>2 DEF Exec!Least, ProcessConstants
    <3>4. got' \in [Runs -> Nat] BY <2>3, <3>1, <3>3 DEF Exec!Read
    <3>5. taken' \in [Runs -> Nat] BY <2>3, <3>2 DEF Exec!Read
    <3>6. reader' \in [Runs -> {"off", "on", "extra", "done"}] BY <2>3 DEF Exec!Read, Exec!AfterRead
    <3>7. truncated' \in [Runs -> BOOLEAN] BY <2>3 DEF Exec!Read
    <3> QED BY <2>3, <3>4, <3>5, <3>6, <3>7 DEF Exec!Read
  <2> QED BY <1>5, <2>1, <2>2, <2>3 DEF Reading
<1>6. ASSUME NEW p \in Pids,
             \/ Exec!Fork(p) \/ Exec!CloseOutput(p) \/ Exec!WriteOutput(p) \/ Exec!Exit(p) \/ Exec!Die(p)
             \/ Exec!OtherStarts(p) \/ Exec!ReapOrphan(p) \/ \E g \in Pids : Exec!Regroup(p, g)
      PROVE  PipeTypes'
  <2>1. CASE Exec!WriteOutput(p)
    <3>1. PICK o : written' = [written EXCEPT ![o] = @ + 1] BY <2>1 DEF Exec!WriteOutput
    <3>2. /\ written' = [x \in Runs |-> written'[x]]
          /\ \A x \in Runs : written'[x] = IF x = o THEN written[x] + 1 ELSE written[x]
      BY <3>1
    <3>3. \A x \in Runs : written'[x] \in Nat BY <3>2
    <3>4. written' \in [Runs -> Nat] BY <3>2, <3>3
    <3> QED BY <2>1, <3>4 DEF Exec!WriteOutput
  <2> QED BY <1>6, <2>1 DEF Exec!Fork, Exec!CloseOutput, Exec!Exit, Exec!Die, Exec!OtherStarts,
      Exec!ReapOrphan, Exec!Regroup, Exec!pipe
<1>7. CASE UNCHANGED Exec!vars BY <1>7 DEF Exec!vars, Exec!pipe
<1> QED BY <1>1, <1>2, <1>3, <1>4, <1>5, <1>6, <1>7, NextIsOfAKind

-----------------------------------------------------------------------------
(* p stays who and where it is.                                            *)
Same(p) ==
  /\ procs'[p].owner = procs[p].owner /\ procs'[p].group = procs[p].group
  /\ procs'[p].stayed <=> procs[p].stayed
  /\ procs'[p].holds => procs[p].holds
  /\ procs'[p].state = "free" <=> procs[p].state = "free"

(* Nothing happens to a process but q.                                     *)
Only(q) == \A p \in Pids : p # q => procs'[p] = procs[p]

(* The process table changes in no process's place.                        *)
Stay == procs' \in [Pids -> Entries] /\ \A p \in Pids : Same(p)
(* q is gone and its number free.                                          *)
Leave(q) == Only(q) /\ procs'[q] = Exec!Free
(* A process of o with a group of its own gets the number q.               *)
Begin(q, o, b) ==
  Only(q) /\ procs'[q] = [state |-> "live", owner |-> o, group |-> q, holds |-> b, stayed |-> b]
(* p has forked q.                                                         *)
Copy(p, q) == Only(q) /\ procs'[q] = procs[p]
(* p has changed to group g.                                               *)
Move(p, g) ==
  /\ Only(p) /\ procs'[p] \in Entries /\ procs'[p].state = "live" /\ procs'[p].owner = procs[p].owner
  /\ procs'[p].group = g /\ ~procs'[p].stayed
  /\ procs'[p].holds => procs[p].holds

(* A process that was sent SIGKILL is still there.                         *)
LEMMA KillStays ==
  ASSUME SystemTypes, NEW P, procs' = Exec!Killed(P) PROVE Stay
<1>1. ASSUME NEW p \in Pids PROVE procs'[p] \in Entries /\ Same(p)
  <2>1. PICK e \in Entries : e = procs[p] BY DEF SystemTypes
  <2>2. procs'[p] = e \/ (e.state = "live" /\ procs'[p] = [e EXCEPT !.state = "killed"])
    BY <2>1 DEF Exec!Killed
  <2>3. CASE procs'[p] = e BY <2>1, <2>3 DEF Same
  <2>4. CASE e.state = "live" /\ procs'[p] = [e EXCEPT !.state = "killed"]
    BY <2>1, <2>4 DEF Same, Entries
  <2> QED BY <2>2, <2>3, <2>4
<1>2. procs' = [p \in Pids |-> procs'[p]] BY DEF Exec!Killed
<1> QED BY <1>1, <1>2 DEF Stay

(* Nothing happens.                                                        *)
LEMMA SameStays ==
  ASSUME SystemTypes, procs' = procs PROVE Stay
BY DEF Stay, Same, SystemTypes

(* A process that ends stays as a zombie if somebody is to wait for it.    *)
LEMMA GoneStaysOrLeaves ==
  ASSUME SystemTypes, NEW p \in Pids, procs[p].state \in {"live", "killed"},
         procs' = [procs EXCEPT ![p] = Exec!Gone(p)]
  PROVE  Stay \/ (Leave(p) /\ p \notin orphans /\ \A c \in Runs : child[c] # p)
<1>1. CASE p \in orphans \/ \E c \in Runs : child[c] = p
  <2>1. PICK e \in Entries : e = procs[p] BY DEF SystemTypes
  <2>2. procs' = [procs EXCEPT ![p] = [e EXCEPT !.state = "zombie"]] BY <1>1, <2>1 DEF Exec!Gone
  <2>3. PICK f : f = [e EXCEPT !.state = "zombie"] OBVIOUS
  <2>4. /\ f \in Entries /\ f.state = "zombie" /\ f.owner = e.owner /\ f.group = e.group
        /\ f.stayed = e.stayed /\ f.holds = e.holds
    BY <2>3 DEF Entries
  <2>5. procs' \in [Pids -> Entries] /\ procs'[p] = f /\ Only(p)
    BY <2>2, <2>3, <2>4 DEF SystemTypes, Only
  <2> QED BY <2>1, <2>4, <2>5 DEF Stay, Same, Only
<1>2. CASE p \notin orphans /\ \A c \in Runs : child[c] # p
  BY <1>2 DEF Exec!Gone, Leave, Only, SystemTypes
<1> QED BY <1>1, <1>2

(* A process closes its output.                                            *)
LEMMA CloseStays ==
  ASSUME SystemTypes, NEW p \in Pids, procs' = [procs EXCEPT ![p].holds = FALSE] PROVE Stay
<1>1. PICK e \in Entries : e = procs[p] BY DEF SystemTypes
<1>2. PICK f : f = [e EXCEPT !.holds = FALSE] OBVIOUS
<1>3. procs' = [procs EXCEPT ![p] = f] BY <1>1, <1>2
<1>4. /\ f \in Entries /\ f.state = e.state /\ f.owner = e.owner /\ f.group = e.group
      /\ f.stayed = e.stayed /\ ~f.holds
  BY <1>2 DEF Entries
<1>5. procs' \in [Pids -> Entries] /\ procs'[p] = f /\ Only(p)
  BY <1>3, <1>4 DEF SystemTypes, Only
<1> QED BY <1>1, <1>4, <1>5 DEF Stay, Same, Only

(* A process calls setsid or setpgid.                                      *)
LEMMA RegroupMoves ==
  ASSUME SystemTypes, NEW p \in Pids, NEW g \in Pids, p \in Exec!Live,
         procs' = [procs EXCEPT ![p].group = g, ![p].stayed = FALSE]
  PROVE  Move(p, g)
<1>1. PICK e \in Entries : e = procs[p] /\ e.state = "live" BY DEF SystemTypes, Exec!Live
<1>2. PICK f : f = [e EXCEPT !.group = g, !.stayed = FALSE] OBVIOUS
<1>3. procs' = [procs EXCEPT ![p] = f] BY <1>1, <1>2
<1>4. /\ f \in Entries /\ f.state = "live" /\ f.owner = e.owner /\ f.group = g
      /\ ~f.stayed /\ f.holds = e.holds
  BY <1>1, <1>2 DEF Entries
<1>5. procs'[p] = f /\ Only(p) BY <1>3 DEF SystemTypes, Only
<1> QED BY <1>1, <1>4, <1>5 DEF Move

(* Each of these changes keeps the types of the table.                     *)
LEMMA SystemTypeKept ==
  ASSUME ProcessConstants, SystemTypes, procs' = [p \in Pids |-> procs'[p]], orphans' \subseteq Pids,
         \/ Stay
         \/ \E q \in Pids : Leave(q)
         \/ \E q \in Pids, c \in Runs : Begin(q, c, TRUE)
         \/ \E q \in Pids : Begin(q, Exec!Other, FALSE)
         \/ \E p \in Exec!Live, q \in Pids : Copy(p, q)
         \/ \E p \in Exec!Live, g \in Pids : Move(p, g)
  PROVE  SystemTypes'
<1> USE DEF SystemTypes, Exec!Exists, Only
<1>1. CASE Stay BY <1>1 DEF Stay, Same
<1>2. ASSUME NEW q \in Pids, Leave(q) PROVE SystemTypes'
  <2>1. Exec!Free \in Entries BY DEF Exec!Free, Entries, ProcessConstants
  <2>2. procs' \in [Pids -> Entries] BY <1>2, <2>1 DEF Leave
  <2> QED BY <1>2, <2>2 DEF Leave, Exec!Free
<1>3. ASSUME NEW q \in Pids, NEW o \in Runs \cup {Exec!Other}, NEW b \in BOOLEAN, Begin(q, o, b),
             b => o \in Runs
      PROVE SystemTypes'
  <2>1. PICK f : f = [state |-> "live", owner |-> o, group |-> q, holds |-> b, stayed |-> b] OBVIOUS
  <2>2. f \in Entries BY <2>1 DEF Entries
  <2>3. procs' \in [Pids -> Entries] BY <1>3, <2>1, <2>2 DEF Begin
  <2>4. f.owner = o /\ f.group = q /\ (f.holds <=> b) BY <2>1
  <2>5. procs'[q] = f BY <1>3, <2>1 DEF Begin
  <2>6. o # Exec!Nobody /\ q # 0 BY DEF ProcessConstants, Exec!Other, Exec!Nobody
  <2> QED BY <1>3, <2>3, <2>4, <2>5, <2>6 DEF Begin
<1>4. ASSUME NEW p \in Exec!Live, NEW q \in Pids, Copy(p, q) PROVE SystemTypes'
  BY <1>4 DEF Copy, Exec!Live
<1>5. ASSUME NEW p \in Exec!Live, NEW g \in Pids, Move(p, g) PROVE SystemTypes'
  <2>1. p \in Pids /\ procs[p].state = "live" BY DEF Exec!Live
  <2>2. procs' \in [Pids -> Entries] BY <1>5, <2>1 DEF Move
  <2>3. g # 0 BY DEF ProcessConstants
  <2> QED BY <1>5, <2>1, <2>2, <2>3 DEF Move
<1> QED BY <1>1, <1>2, <1>3, <1>4, <1>5

-----------------------------------------------------------------------------
(* Nobody comes, goes or moves.                                            *)
Rests == Stay /\ UNCHANGED <<child, orphans>>
(* A child becomes an orphan.                                              *)
Abandons(c) == /\ Stay /\ child' = [child EXCEPT ![c] = 0]
               /\ orphans' = IF child[c] = 0 THEN orphans ELSE orphans \cup {child[c]}
(* A call waits for its child.                                             *)
Reaps(c) == /\ child[c] # 0 /\ Leave(child[c]) /\ child' = [child EXCEPT ![c] = 0] /\ UNCHANGED orphans
(* A process goes that no call waits for.                                  *)
Goes(q) == /\ Leave(q) /\ UNCHANGED child /\ orphans' = orphans \ {q}
           /\ \A c \in Runs : child[c] # q
(* A call gets its child.                                                  *)
Spawns(q, c) == /\ Begin(q, c, TRUE) /\ child' = [child EXCEPT ![c] = q] /\ UNCHANGED orphans
                /\ pc[c] = "spawn" /\ pc' = [pc EXCEPT ![c] = "guard"]
(* Another program starts.                                                 *)
Comes(q) == Begin(q, Exec!Other, FALSE) /\ UNCHANGED <<child, orphans>>
(* A process of a call forks.                                              *)
Forks(p, q) == Copy(p, q) /\ UNCHANGED <<child, orphans>>
(* A process of a call changes its group.                                  *)
Joins(p, g) == /\ Move(p, g) /\ UNCHANGED <<child, orphans>>
               /\ g = p \/ \E q \in Exec!Members(g) : procs[q].owner = procs[p].owner

(* What a step does to the process table, the children and the orphans.    *)
Deed ==
  \/ Rests
  \/ \E c \in Runs : Abandons(c) \/ Reaps(c) \/ \E q \in Exec!Available : Spawns(q, c)
  \/ \E q \in Pids : Goes(q)
  \/ \E q \in Exec!Available : Comes(q) \/ \E p \in Exec!Live : Forks(p, q)
  \/ \E p \in Exec!Live, g \in Pids : Joins(p, g)

(* An entry that is freed is gone.                                         *)
LEMMA ReapedLeaves ==
  ASSUME SystemTypes, NEW q \in Pids, procs' = [procs EXCEPT ![q] = Exec!Free] PROVE Leave(q)
BY DEF Leave, Only, SystemTypes

(* Every step does one of these.                                           *)
LEMMA StepIsADeed ==
  ASSUME ProcessConstants, RunTypes, SystemTypes, GuardIsFresh, ChildIsOwn, [Exec!Next]_(Exec!vars)
  PROVE  Deed
<1>1. ASSUME NEW c \in Runs, Quietly(c) PROVE Deed
  BY <1>1, QuietCalls, SameStays DEF Deed, Rests
<1>2. ASSUME NEW c \in Runs, NEW p \in Pids, Starting(c, p) PROVE Deed
  <2>1. Begin(p, c, TRUE) BY <1>2 DEF Starting, Begin, Only, SystemTypes
  <2> QED BY <1>2, <2>1 DEF Starting, Exec!Goto, Spawns, Deed
<1>3. ASSUME NEW c \in Runs, Killing(c) PROVE Deed
  <2>1. CASE Exec!Established(c) BY <2>1, KillStays, SameStays DEF Exec!Established, Exec!Kill,
      Deed, Rests
  <2>2. CASE Exec!Exited(c) BY <2>2, KillStays DEF Exec!Exited, Exec!Kill, Deed, Rests
  <2>3. CASE Exec!Elapsed(c) BY <2>3, KillStays DEF Exec!Elapsed, Exec!Kill, Deed, Rests
  <2>4. CASE Exec!DropGuard(c) BY <2>4, KillStays DEF Exec!DropGuard, Exec!Kill, Deed, Rests
  <2>5. CASE Exec!DropChild(c)
    <3>1. Stay BY <2>5, KillStays, SameStays DEF Exec!DropChild, Exec!Kill
    <3> QED BY <2>5, <3>1 DEF Exec!DropChild, Deed, Abandons
  <2> QED BY <1>3, <2>1, <2>2, <2>3, <2>4, <2>5 DEF Killing
<1>4. ASSUME NEW c \in Runs, Reaping(c) PROVE Deed
  <2>1. child[c] \in Pids /\ child[c] # 0
    BY <1>4 DEF Reaping, Exec!Reap, Exec!Errors, GuardIsFresh, Supervising, RunTypes
  <2>2. Leave(child[c]) /\ child' = [child EXCEPT ![c] = 0] /\ UNCHANGED orphans
    BY <1>4, <2>1, ReapedLeaves DEF Reaping, Exec!Reap, Exec!Errors, Exec!Reaped
  <2> QED BY <2>1, <2>2 DEF Deed, Reaps
<1>5. ASSUME NEW c \in Runs, Reading(c) PROVE Deed
  BY <1>5, SameStays DEF Reading, Exec!Read, Exec!ReadExtra, Exec!ReadEof, Exec!call, Deed, Rests
<1>6. ASSUME NEW p \in Pids, Exec!Fork(p) PROVE Deed
  <2>1. PICK q \in Exec!Available : procs' = [procs EXCEPT ![q] = procs[p]] BY <1>6 DEF Exec!Fork
  <2>2. Copy(p, q) BY <2>1 DEF Copy, Only, SystemTypes, Exec!Available
  <2> QED BY <1>6, <2>2 DEF Exec!Fork, Forks, Deed, Exec!call
<1>7. ASSUME NEW p \in Pids, Exec!CloseOutput(p) PROVE Deed
  BY <1>7, CloseStays DEF Exec!CloseOutput, Exec!call, Deed, Rests
<1>8. ASSUME NEW p \in Pids, Exec!WriteOutput(p) PROVE Deed
  BY <1>8, SameStays DEF Exec!WriteOutput, Exec!call, Deed, Rests
<1>9. ASSUME NEW p \in Pids, Exec!Exit(p) \/ Exec!Die(p) PROVE Deed
  <2>1. /\ procs[p].state \in {"live", "killed"} /\ procs' = [procs EXCEPT ![p] = Exec!Gone(p)]
        /\ UNCHANGED <<child, orphans>>
    BY <1>9 DEF Exec!Exit, Exec!Die, Exec!Live, Exec!call
  <2>2. CASE Stay BY <2>1, <2>2 DEF Deed, Rests
  <2>3. CASE Leave(p) /\ p \notin orphans /\ \A c \in Runs : child[c] # p
    BY <2>1, <2>3 DEF Deed, Goes
  <2> QED BY <2>1, <2>2, <2>3, GoneStaysOrLeaves
<1>10. ASSUME NEW p \in Pids, Exec!OtherStarts(p) PROVE Deed
  <2>1. Begin(p, Exec!Other, FALSE) BY <1>10 DEF Exec!OtherStarts, Begin, Only, SystemTypes
  <2> QED BY <1>10, <2>1 DEF Exec!OtherStarts, Exec!call, Comes, Deed
<1>11. ASSUME NEW p \in Pids, Exec!ReapOrphan(p) PROVE Deed
  <2>1. Leave(p) BY <1>11, ReapedLeaves DEF Exec!ReapOrphan
  <2>2. \A c \in Runs : child[c] # p BY <1>11 DEF Exec!ReapOrphan, ChildIsOwn, ProcessConstants
  <2> QED BY <1>11, <2>1, <2>2 DEF Exec!ReapOrphan, Exec!call, Goes, Deed
<1>12. ASSUME NEW p \in Pids, NEW g \in Pids, Exec!Regroup(p, g) PROVE Deed
  <2>1. Move(p, g) BY <1>12, RegroupMoves DEF Exec!Regroup
  <2> QED BY <1>12, <2>1 DEF Exec!Regroup, Exec!call, Joins, Deed
<1>13. CASE UNCHANGED Exec!vars BY <1>13, SameStays DEF Exec!vars, Exec!call, Deed, Rests
<1> QED BY <1>1, <1>2, <1>3, <1>4, <1>5, <1>6, <1>7, <1>8, <1>9, <1>10, <1>11, <1>12, <1>13,
    NextIsOfAKind

(* So the types of the table are kept.                                     *)
LEMMA SystemTypeStep ==
  ASSUME ProcessConstants, RunTypes, SystemTypes, Deed, procs' = [p \in Pids |-> procs'[p]]
  PROVE  SystemTypes'
<1>1. orphans' \subseteq Pids
  <2>1. ASSUME NEW c \in Runs, Abandons(c) PROVE orphans' \subseteq Pids
    <3>1. child[c] \in Pids \cup {0} BY DEF RunTypes
    <3> QED BY <2>1, <3>1 DEF Abandons, SystemTypes
  <2> QED BY <2>1 DEF Deed, Rests, Reaps, Goes, Spawns, Comes, Forks, Joins, SystemTypes
<1>2. \/ Stay
      \/ \E q \in Pids : Leave(q)
      \/ \E q \in Pids, c \in Runs : Begin(q, c, TRUE)
      \/ \E q \in Pids : Begin(q, Exec!Other, FALSE)
      \/ \E p \in Exec!Live, q \in Pids : Copy(p, q)
      \/ \E p \in Exec!Live, g \in Pids : Move(p, g)
  <2>1. \A q \in Exec!Available : q \in Pids BY DEF Exec!Available
  <2>2. ASSUME NEW c \in Runs, Reaps(c) PROVE \E q \in Pids : Leave(q)
    BY <2>2 DEF Reaps, RunTypes
  <2> QED BY <2>1, <2>2 DEF Deed, Rests, Abandons, Goes, Spawns, Comes, Forks, Joins
<1> QED BY <1>1, <1>2, SystemTypeKept

(* Nobody else gets the number or joins the group of a child that was not  *)
(* waited for: numbers are given out when neither a process nor a group    *)
(* has them, and a group is joined by its number's process or by processes *)
(* of a member's owner.                                                    *)
LEMMA OwnStep ==
  ASSUME ProcessConstants, RunTypes, SystemTypes, ChildIsOwn, OrphansExist, Deed
  PROVE  ChildIsOwn' /\ OrphansExist'
<1>0. 0 \notin Pids BY DEF ProcessConstants
<1> USE DEF ChildIsOwn, OrphansExist, Exec!Exists, Exec!Members, SystemTypes
<1>1. CASE Rests BY <1>1 DEF Rests, Stay, Same
<1>2. ASSUME NEW c \in Runs, Abandons(c) PROVE ChildIsOwn' /\ OrphansExist'
  <2>1. child'[c] = 0 /\ \A d \in Runs : d # c => child'[d] = child[d] BY <1>2 DEF Abandons,
      RunTypes
  <2>2. \A d \in Runs : d # c /\ child[d] # 0 => child[d] # child[c] OBVIOUS
  <2> QED BY <1>2, <2>1, <2>2 DEF Abandons, Stay, Same
<1>3. ASSUME NEW c \in Runs, Reaps(c) PROVE ChildIsOwn' /\ OrphansExist'
  <2>1. child'[c] = 0 /\ \A d \in Runs : d # c => child'[d] = child[d] BY <1>3 DEF Reaps, RunTypes
  <2>2. \A d \in Runs : d # c /\ child[d] # 0 => child[d] # child[c] OBVIOUS
  <2>3. child[c] \notin orphans /\ child[c] \in Pids BY <1>3 DEF Reaps
  <2> QED BY <1>3, <2>1, <2>2, <2>3 DEF Reaps, Leave, Only, Exec!Free
<1>4. ASSUME NEW q \in Exec!Available, NEW c \in Runs, Spawns(q, c) PROVE ChildIsOwn' /\ OrphansExist'
  <2>1. /\ q \in Pids /\ procs[q].state = "free" /\ \A p \in Pids : procs[p].state # "free" => procs[p].group # q
    BY DEF Exec!Available
  <2>2. child'[c] = q /\ \A d \in Runs : d # c => child'[d] = child[d] BY <1>4 DEF Spawns, RunTypes
  <2>3. /\ procs'[q].state = "live" /\ procs'[q].owner = c /\ procs'[q].group = q
        /\ \A p \in Pids : p # q => procs'[p] = procs[p]
    BY <1>4 DEF Spawns, Begin, Only
  <2>4. UNCHANGED orphans BY <1>4 DEF Spawns
  <2>5. ASSUME NEW d \in Runs, child'[d] # 0
        PROVE  /\ child'[d] \in Pids /\ procs'[child'[d]].state # "free"
               /\ procs'[child'[d]].owner = d /\ child'[d] \notin orphans'
               /\ \A p \in Pids : procs'[p].state # "free" /\ procs'[p].group = child'[d] =>
                    procs'[p].owner = d
    <3>1. CASE d = c BY <2>1, <2>2, <2>3, <2>4, <3>1
    <3>2. CASE d # c
      <4>1. child'[d] = child[d] /\ child[d] \in Pids /\ child[d] # q BY <2>1, <2>2, <2>5, <3>2
      <4> QED BY <2>1, <2>3, <2>4, <2>5, <4>1
    <3> QED BY <3>1, <3>2
  <2> QED BY <2>1, <2>3, <2>4, <2>5
<1>5. ASSUME NEW q \in Pids, Goes(q) PROVE ChildIsOwn' /\ OrphansExist'
  BY <1>0, <1>5 DEF Goes, Leave, Only, Exec!Free
<1>6. ASSUME NEW q \in Exec!Available, Comes(q) PROVE ChildIsOwn' /\ OrphansExist'
  <2>1. /\ q \in Pids /\ procs[q].state = "free" /\ \A p \in Pids : procs[p].state # "free" => procs[p].group # q
    BY DEF Exec!Available
  <2>2. /\ procs'[q].state = "live" /\ procs'[q].group = q
        /\ \A p \in Pids : p # q => procs'[p] = procs[p]
        /\ UNCHANGED <<child, orphans>>
    BY <1>6 DEF Comes, Begin, Only
  <2> QED BY <2>1, <2>2
<1>7. ASSUME NEW q \in Exec!Available, NEW p \in Exec!Live, Forks(p, q) PROVE ChildIsOwn' /\ OrphansExist'
  <2>1. q \in Pids /\ procs[q].state = "free" /\ p \in Pids /\ procs[p].state = "live"
    BY DEF Exec!Available, Exec!Live
  <2>2. procs'[q] = procs[p] /\ (\A r \in Pids : r # q => procs'[r] = procs[r]) /\ UNCHANGED <<child, orphans>>
    BY <1>7 DEF Forks, Copy, Only
  <2> QED BY <2>1, <2>2
<1>8. ASSUME NEW p \in Exec!Live, NEW g \in Pids, Joins(p, g) PROVE ChildIsOwn' /\ OrphansExist'
  <2>1. p \in Pids /\ procs[p].state = "live" BY DEF Exec!Live
  <2>2. /\ procs'[p].state = "live" /\ procs'[p].owner = procs[p].owner /\ procs'[p].group = g
        /\ (\A r \in Pids : r # p => procs'[r] = procs[r]) /\ UNCHANGED <<child, orphans>>
    BY <1>8 DEF Joins, Move, Only
  <2>3. g = p \/ \E q \in Exec!Members(g) : procs[q].owner = procs[p].owner BY <1>8 DEF Joins
  <2>4. OrphansExist' BY <2>1, <2>2
  <2>5. ASSUME NEW c \in Runs, child[c] = g PROVE procs[p].owner = c
    <3>1. g # 0 BY <1>0
    <3> QED BY <2>3, <2>5, <3>1
  <2> QED BY <2>1, <2>2, <2>4, <2>5
<1> QED BY <1>1, <1>2, <1>3, <1>4, <1>5, <1>6, <1>7, <1>8 DEF Deed

(* A process that never left its group is in the group of an older one of  *)
(* its call, or it is the child just spawned.                              *)
LEMMA StayedStep ==
  ASSUME ProcessConstants, RunTypes, SystemTypes, Deed, NEW c \in Runs, NEW p \in Stayed(c)'
  PROVE  \/ \E r \in Stayed(c) : procs'[p].group = procs[r].group
         \/ /\ pc[c] = "spawn" /\ p = child'[c] /\ procs'[p].group = p
            /\ pc' = [pc EXCEPT ![c] = "guard"]
<1> DEFINE Old == \E r \in Stayed(c) : procs'[p].group = procs[r].group
           New == /\ pc[c] = "spawn" /\ p = child'[c] /\ procs'[p].group = p
                  /\ pc' = [pc EXCEPT ![c] = "guard"]
<1>0. p \in Pids /\ procs'[p].state # "free" /\ procs'[p].owner = c /\ procs'[p].stayed
  BY DEF Stayed, Exec!Exists
<1>1. ASSUME procs[p].state # "free", procs[p].owner = c, procs[p].stayed, procs'[p].group = procs[p].group
      PROVE  Old
  BY <1>0, <1>1 DEF Stayed, Exec!Exists
<1>2. CASE Rests BY <1>0, <1>1, <1>2 DEF Rests, Stay, Same
<1>3. ASSUME NEW d \in Runs, Abandons(d) PROVE Old BY <1>0, <1>1, <1>3 DEF Abandons, Stay, Same
<1>4. ASSUME NEW q \in Pids, Leave(q) PROVE Old
  <2>1. p # q BY <1>0, <1>4 DEF Leave, Exec!Free
  <2> QED BY <1>0, <1>1, <1>4, <2>1 DEF Leave, Only
<1>5. ASSUME NEW d \in Runs, Reaps(d) PROVE Old
  BY <1>4, <1>5 DEF Reaps, RunTypes
<1>6. ASSUME NEW d \in Runs, NEW q \in Exec!Available, Spawns(q, d) PROVE Old \/ New
  <2>1. CASE p # q BY <1>0, <1>1, <1>6, <2>1 DEF Spawns, Begin, Only
  <2>2. CASE p = q
    <3>1. procs'[q].owner = d /\ procs'[q].group = q BY <1>6 DEF Spawns, Begin
    <3>2. d = c BY <1>0, <2>2, <3>1
    <3>3. child'[c] = q BY <1>6, <3>2 DEF Spawns, RunTypes
    <3> QED BY <1>6, <2>2, <3>1, <3>2, <3>3 DEF Spawns
  <2> QED BY <2>1, <2>2
<1>7. ASSUME NEW q \in Exec!Available, Comes(q) PROVE Old
  <2>1. procs'[q].owner = Exec!Other BY <1>7 DEF Comes, Begin
  <2>2. p # q BY <1>0, <2>1 DEF ProcessConstants
  <2> QED BY <1>0, <1>1, <1>7, <2>2 DEF Comes, Begin, Only
<1>8. ASSUME NEW q \in Exec!Available, NEW r \in Exec!Live, Forks(r, q) PROVE Old
  <2>1. CASE p # q BY <1>0, <1>1, <1>8, <2>1 DEF Forks, Copy, Only
  <2>2. CASE p = q BY <1>0, <1>8, <2>2 DEF Forks, Copy, Stayed, Exec!Exists, Exec!Live
  <2> QED BY <2>1, <2>2
<1>9. ASSUME NEW r \in Exec!Live, NEW g \in Pids, Joins(r, g) PROVE Old
  <2>1. p # r BY <1>0, <1>9 DEF Joins, Move
  <2> QED BY <1>0, <1>1, <1>9, <2>1 DEF Joins, Move, Only
<1> QED BY <1>2, <1>3, <1>4, <1>5, <1>6, <1>7, <1>8, <1>9 DEF Deed, Goes

-----------------------------------------------------------------------------
(* The guard is fresh whenever it may strike.                              *)
LEMMA GuardStep ==
  ASSUME ProcessConstants, RunTypes, GuardIsFresh, [Exec!Next]_(Exec!vars) PROVE GuardIsFresh'
<1> USE DEF GuardIsFresh, Before, Supervising, RunTypes
<1>1. ASSUME NEW c \in Runs, Quietly(c) PROVE GuardIsFresh'
  <2> USE DEF Exec!Goto
  <2>0. UNCHANGED child BY <1>1, QuietCalls
  <2>1. CASE Exec!Call(c) BY <2>0, <2>1 DEF Exec!Call
  <2>2. CASE Exec!Lock(c) BY <2>0, <2>2 DEF Exec!Lock
  <2>3. CASE Exec!Checks(c) BY <2>0, <2>3 DEF Exec!Checks, Exec!Refuse
  <2>4. CASE Exec!Handshake(c) BY <2>0, <2>4 DEF Exec!Handshake, Exec!Refuse
  <2>5. CASE Refusing(c) BY <2>0, <2>5 DEF Refusing, Exec!Refuse
  <2>6. CASE Exec!Observe(c) BY <2>0, <2>6 DEF Exec!Observe, Exec!Adopt
  <2>7. CASE Exec!Drained(c) BY <2>0, <2>7 DEF Exec!Drained
  <2>8. CASE Exec!DrainFails(c) BY <2>0, <2>8 DEF Exec!DrainFails
  <2>9. CASE Exec!Confirm(c)
    <3>1. guard' = guard \/ guard' = [guard EXCEPT ![c] = Exec!NoGuard] BY <2>9
        DEF Exec!Confirm, Exec!Disarm
    <3>2. pc' = [pc EXCEPT ![c] = "leaving"] BY <2>9 DEF Exec!Confirm
    <3>3. CASE guard' = guard BY <2>0, <3>2, <3>3
    <3>4. CASE guard' = [guard EXCEPT ![c] = Exec!NoGuard] BY <2>0, <3>2, <3>4 DEF Exec!NoGuard
    <3> QED BY <3>1, <3>3, <3>4
  <2>10. CASE Exec!WaitFails(c) BY <2>0, <2>10 DEF Exec!WaitFails, Exec!Disarm, Exec!NoGuard
  <2>11. CASE Exec!Drop(c) BY <2>0, <2>11 DEF Exec!Drop
  <2>12. CASE Exec!DropQueued(c) BY <2>0, <2>12 DEF Exec!DropQueued
  <2> QED BY <1>1, <2>1, <2>2, <2>3, <2>4, <2>5, <2>6, <2>7, <2>8, <2>9, <2>10, <2>11,
      <2>12 DEF Quietly
<1>2. ASSUME NEW c \in Runs, NEW p \in Pids, Starting(c, p) PROVE GuardIsFresh'
  BY <1>2 DEF Starting, Exec!Goto, Exec!NoGuard, ProcessConstants
<1>3. ASSUME NEW c \in Runs, Killing(c) PROVE GuardIsFresh'
  <2> USE DEF Exec!Goto
  <2>1. CASE Exec!Established(c) BY <2>1 DEF Exec!Established
  <2>2. CASE Exec!Exited(c) BY <2>2 DEF Exec!Exited
  <2>3. CASE Exec!Elapsed(c) BY <2>3 DEF Exec!Elapsed
  <2>4. CASE Exec!DropGuard(c) BY <2>4 DEF Exec!DropGuard
  <2>5. CASE Exec!DropChild(c) BY <2>5 DEF Exec!DropChild, Exec!Disarm, Exec!NoGuard
  <2> QED BY <1>3, <2>1, <2>2, <2>3, <2>4, <2>5 DEF Killing
<1>4. ASSUME NEW c \in Runs, Reaping(c) PROVE GuardIsFresh'
  <2>1. guard'[c].reaped /\ \A d \in Runs : d # c => guard'[d] = guard[d]
    BY <1>4, MarkedGuard DEF Reaping, Exec!Reap, Exec!Errors
  <2>2. child'[c] = 0 /\ \A d \in Runs : d # c => child'[d] = child[d]
    BY <1>4 DEF Reaping, Exec!Reap, Exec!Errors, Exec!Reaped
  <2>3. /\ pc'[c] \in {"drain", "leaving"} /\ \A d \in Runs : d # c => pc'[d] = pc[d]
    BY <1>4 DEF Reaping, Exec!Reap, Exec!Errors, Exec!Goto
  <2> QED BY <2>1, <2>2, <2>3
<1>5. ASSUME NEW c \in Runs, Reading(c) PROVE GuardIsFresh'
  BY <1>5 DEF Reading, Exec!Read, Exec!ReadExtra, Exec!ReadEof, Exec!call
<1>6. ASSUME NEW p \in Pids,
             \/ Exec!Fork(p) \/ Exec!CloseOutput(p) \/ Exec!WriteOutput(p) \/ Exec!Exit(p) \/ Exec!Die(p)
             \/ Exec!OtherStarts(p) \/ Exec!ReapOrphan(p) \/ \E g \in Pids : Exec!Regroup(p, g)
      PROVE  GuardIsFresh'
  BY <1>6 DEF Exec!Fork, Exec!CloseOutput, Exec!WriteOutput, Exec!Exit, Exec!Die,
      Exec!OtherStarts, Exec!ReapOrphan, Exec!Regroup, Exec!call
<1>7. CASE UNCHANGED Exec!vars BY <1>7 DEF Exec!vars, Exec!call
<1> QED BY <1>1, <1>2, <1>3, <1>4, <1>5, <1>6, <1>7, NextIsOfAKind

(* What a call strikes is its own.                                         *)
LEMMA StruckStep ==
  ASSUME ProcessConstants, RunTypes, SystemTypes, GuardIsFresh, ChildIsOwn, Exec!OnlyOwnStruck, [Exec!Next]_(Exec!vars)
  PROVE  Exec!OnlyOwnStruck'
<1> USE DEF Exec!OnlyOwnStruck
<1>1. ASSUME UNCHANGED struck PROVE Exec!OnlyOwnStruck' BY <1>1
<1>2. ASSUME NEW c \in Runs, NEW P, Exec!Kill(c, P), \A p \in P : procs[p].owner = c
      PROVE  Exec!OnlyOwnStruck'
  <2>1. Exec!Owners(P) \subseteq {c} BY <1>2 DEF Exec!Owners
  <2>2. struck'[c] = struck[c] \cup Exec!Owners(P) /\ \A d \in Runs : d # c => struck'[d] = struck[d]
    BY <1>2 DEF Exec!Kill, RunTypes
  <2> QED BY <2>1, <2>2
<1>3. ASSUME NEW c \in Runs PROVE \A p \in Exec!Terminate(c) : procs[p].owner = c
  <2>1. SUFFICES ASSUME ~guard[c].reaped, NEW p \in Exec!Members(guard[c].group) PROVE procs[p].owner = c
    BY DEF Exec!Terminate
  <2>2. guard[c].group \in {0, child[c]} /\ child[c] # 0 BY <2>1 DEF GuardIsFresh
  <2>3. guard[c].group # 0 BY <2>1 DEF Exec!Members, Exec!Exists, SystemTypes
  <2> QED BY <2>1, <2>2, <2>3 DEF ChildIsOwn
<1>4. ASSUME NEW c \in Runs, child[c] # 0 PROVE procs[child[c]].owner = c
  BY <1>4 DEF ChildIsOwn
<1>5. ASSUME NEW c \in Runs, Killing(c) PROVE Exec!OnlyOwnStruck'
  <2>1. CASE Exec!Established(c)
    <3>1. child[c] # 0 BY <2>1 DEF Exec!Established, GuardIsFresh, Supervising
    <3> QED BY <1>1, <1>2, <1>4, <2>1, <3>1 DEF Exec!Established
  <2>2. CASE Exec!Exited(c) BY <1>2, <1>3, <2>2 DEF Exec!Exited
  <2>3. CASE Exec!Elapsed(c)
    <3>1. child[c] # 0 BY <2>3 DEF Exec!Elapsed, GuardIsFresh, Supervising
    <3>2. \A p \in Exec!Terminate(c) \union {child[c]} : procs[p].owner = c BY <1>3, <1>4, <3>1
    <3> QED BY <1>2, <2>3, <3>2 DEF Exec!Elapsed
  <2>4. CASE Exec!DropGuard(c) BY <1>2, <1>3, <2>4 DEF Exec!DropGuard
  <2>5. CASE Exec!DropChild(c)
    <3>1. CASE child[c] = 0 BY <1>1, <2>5, <3>1 DEF Exec!DropChild
    <3>2. CASE child[c] # 0 BY <1>2, <1>4, <2>5, <3>2 DEF Exec!DropChild
    <3> QED BY <3>1, <3>2
  <2> QED BY <1>5, <2>1, <2>2, <2>3, <2>4, <2>5 DEF Killing
<1>6. ASSUME NEW c \in Runs,
             Quietly(c) \/ Reaping(c) \/ Reading(c) \/ \E p \in Pids : Starting(c, p)
      PROVE  UNCHANGED struck
  BY <1>6, QuietCalls DEF Reaping, Exec!Reap, Exec!Errors, Reading, Exec!Read, Exec!ReadExtra,
      Exec!ReadEof, Starting
<1>7. ASSUME NEW p \in Pids,
             \/ Exec!Fork(p) \/ Exec!CloseOutput(p) \/ Exec!WriteOutput(p) \/ Exec!Exit(p) \/ Exec!Die(p)
             \/ Exec!OtherStarts(p) \/ Exec!ReapOrphan(p) \/ \E g \in Pids : Exec!Regroup(p, g)
      PROVE  UNCHANGED struck
  BY <1>7 DEF Exec!Fork, Exec!CloseOutput, Exec!WriteOutput, Exec!Exit, Exec!Die,
      Exec!OtherStarts, Exec!ReapOrphan, Exec!Regroup
<1>8. CASE UNCHANGED Exec!vars BY <1>8 DEF Exec!vars
<1> QED BY <1>1, <1>5, <1>6, <1>7, <1>8, NextIsOfAKind

-----------------------------------------------------------------------------
(* A step of c that starts nothing and says nothing wrong of the group.    *)
Steady(c) ==
  /\ pc'[c] \in Before => pc[c] \in Before
  /\ pc'[c] = "guard" => pc[c] = "guard" /\ child'[c] = child[c]
  /\ guard'[c].group # 0 => \/ guard'[c].group = guard[c].group
                            \/ pc[c] = "guard" /\ guard'[c].group = child[c]
  /\ result'[c] = "ok" => \/ result[c] = "ok"
                          \/ pc[c] = "confirm" /\ (strict[c] => Stayed(c) = {})

(* Such a step keeps what is known of the group.                           *)
LEMMA GroupKept ==
  ASSUME ProcessConstants, RunTypes, SystemTypes, Deed, GroupIsKnown, UNCHANGED strict,
         NEW c \in Runs, Steady(c)
  PROVE  GroupKnown(c)'
<1>1. ASSUME NEW p \in Stayed(c)' PROVE \E r \in Stayed(c) : procs'[p].group = procs[r].group
  <2>1. ~(pc[c] = "spawn" /\ pc' = [pc EXCEPT ![c] = "guard"]) BY DEF Steady, RunTypes
  <2> QED BY <1>1, <2>1, StayedStep
<1>2. ASSUME NEW r \in Stayed(c)
      PROVE  /\ pc[c] \notin Before
             /\ pc[c] = "guard" => procs[r].group = child[c]
             /\ guard[c].group # 0 => procs[r].group = guard[c].group
             /\ ~(result[c] = "ok" /\ strict[c])
  BY <1>2 DEF GroupIsKnown, GroupKnown
<1>3. strict'[c] = strict[c] OBVIOUS
<1>4. result'[c] = "ok" => pc'[c] \notin Before \cup {"guard"}
  BY DEF GroupIsKnown, GroupKnown, Steady, Before
<1> QED BY <1>1, <1>2, <1>3, <1>4 DEF Steady, GroupKnown

(* What is known of the groups is kept; a strict call succeeds only after  *)
(* the group was seen empty.                                               *)
LEMMA GroupStep ==
  ASSUME ProcessConstants, RunTypes, SystemTypes, GuardIsFresh, Deed, GroupIsKnown, [Exec!Next]_(Exec!vars)
  PROVE  GroupIsKnown'
<1>1. ASSUME UNCHANGED strict, \A c \in Runs : Steady(c) PROVE GroupIsKnown'
  BY <1>1, GroupKept DEF GroupIsKnown
<1>3. ASSUME NEW c \in Runs, Quietly(c) PROVE GroupIsKnown'
  <2>0. UNCHANGED <<strict, child>> BY <1>3, QuietCalls
  <2> USE DEF Exec!Goto, Before, RunTypes
  <2>1. SUFFICES ASSUME NEW d \in Runs PROVE Steady(d) BY <1>1, <2>0
  <2>2. CASE d # c
    <3>1. pc'[d] = pc[d] /\ guard'[d] = guard[d] /\ result'[d] = result[d]
      BY <1>3, <2>2 DEF Quietly, Exec!Call, Exec!Lock, Exec!Checks, Exec!Handshake, Refusing,
          Exec!Refuse, Exec!Observe, Exec!Drained,
         Exec!DrainFails, Exec!Confirm, Exec!WaitFails, Exec!Drop, Exec!DropQueued, Exec!Disarm
    <3> QED BY <2>0, <3>1 DEF Steady
  <2>3. CASE d = c
    <3> USE DEF Steady
    <3>1. CASE Exec!Call(c) BY <2>0, <2>3, <3>1 DEF Exec!Call
    <3>2. CASE Exec!Lock(c) BY <2>0, <2>3, <3>2 DEF Exec!Lock
    <3>3. CASE Exec!Checks(c) BY <2>0, <2>3, <3>3 DEF Exec!Checks, Exec!Refuse, Exec!ProcessError
    <3>4. CASE Exec!Handshake(c) BY <2>0, <2>3, <3>4 DEF Exec!Handshake, Exec!Refuse,
        Exec!ProcessError
    <3>5. CASE Refusing(c) BY <2>0, <2>3, <3>5 DEF Refusing, Exec!Refuse, Exec!ProcessError
    <3>6. CASE Exec!Observe(c) BY <2>0, <2>3, <3>6 DEF Exec!Observe, Exec!Adopt
    <3>7. CASE Exec!Drained(c) BY <2>0, <2>3, <3>7 DEF Exec!Drained
    <3>8. CASE Exec!DrainFails(c) BY <2>0, <2>3, <3>8 DEF Exec!DrainFails, Exec!ProcessError
    <3>9. CASE Exec!Confirm(c)
      <4>1. guard'[c].group # 0 => guard'[c].group = guard[c].group
        BY <3>9 DEF Exec!Confirm, Exec!Disarm, Exec!NoGuard
      <4>2. pc[c] = "confirm" /\ pc'[c] = "leaving" BY <3>9 DEF Exec!Confirm
      <4>3. ASSUME result'[c] = "ok", strict[c] PROVE Stayed(c) = {}
        <5>1. Exec!GroupGone(c) BY <3>9, <4>3 DEF Exec!Confirm, Exec!ProcessError
        <5> QED BY <5>1 DEF Exec!GroupGone, GroupIsKnown, GroupKnown, Exec!Members, Stayed
      <4> QED BY <2>0, <2>3, <4>1, <4>2, <4>3
    <3>10. CASE Exec!WaitFails(c) BY <2>0, <2>3, <3>10 DEF Exec!WaitFails, Exec!ProcessError,
        Exec!Disarm, Exec!NoGuard
    <3>11. CASE Exec!Drop(c) BY <2>0, <2>3, <3>11 DEF Exec!Drop
    <3>12. CASE Exec!DropQueued(c) BY <2>0, <2>3, <3>12 DEF Exec!DropQueued
    <3> QED BY <1>3, <3>1, <3>2, <3>3, <3>4, <3>5, <3>6, <3>7, <3>8, <3>9, <3>10, <3>11, <3>12
         DEF Quietly
  <2> QED BY <2>2, <2>3
<1>4. ASSUME NEW c \in Runs, NEW p \in Pids, Starting(c, p) PROVE GroupIsKnown'
  <2>0. UNCHANGED <<strict, guard, result>> BY <1>4 DEF Starting
  <2>1. ASSUME NEW d \in Runs, d # c PROVE GroupKnown(d)'
    <3>1. pc'[d] = pc[d] /\ child'[d] = child[d] BY <1>4, <2>1 DEF Starting, Exec!Goto, RunTypes
    <3>2. Steady(d) BY <2>0, <3>1 DEF Steady
    <3> QED BY <2>0, <3>2, GroupKept
  <2>2. GroupKnown(c)'
    <3>1. pc[c] = "spawn" /\ pc'[c] = "guard" BY <1>4 DEF Starting, Exec!Goto, RunTypes
    <3>2. Stayed(c) = {} /\ result[c] # "ok" BY <3>1 DEF GroupIsKnown, GroupKnown, Before
    <3>3. guard[c].group = 0 BY <3>1 DEF GuardIsFresh, Before, Exec!NoGuard
    <3>4. ASSUME NEW q \in Stayed(c)' PROVE procs'[q].group = child'[c]
      BY <3>2, <3>4, StayedStep
    <3> QED BY <2>0, <3>1, <3>2, <3>3, <3>4 DEF GroupKnown, Before
  <2> QED BY <2>1, <2>2 DEF GroupIsKnown
<1>5. ASSUME NEW c \in Runs, Killing(c) PROVE GroupIsKnown'
  <2> USE DEF Exec!Goto, Before, RunTypes, Exec!Disarm, Exec!NoGuard
  <2>1. UNCHANGED <<strict, result>>
    BY <1>5 DEF Killing, Exec!Established, Exec!Exited, Exec!Elapsed, Exec!DropGuard, Exec!DropChild
  <2>2. /\ pc'[c] \notin Before \cup {"guard"} /\ \A d \in Runs : d # c => pc'[d] = pc[d]
        /\ \A d \in Runs : d # c => child'[d] = child[d]
    BY <1>5 DEF Killing, Exec!Established, Exec!Exited, Exec!Elapsed, Exec!DropGuard, Exec!DropChild
  <2>3. \A d \in Runs : guard'[d].group # 0 => guard'[d].group = guard[d].group
    BY <1>5 DEF Killing, Exec!Established, Exec!Exited, Exec!Elapsed, Exec!DropGuard, Exec!DropChild
  <2>4. \A d \in Runs : Steady(d) BY <2>1, <2>2, <2>3 DEF Steady
  <2> QED BY <1>1, <2>1, <2>4
<1>6. ASSUME NEW c \in Runs, Reaping(c) PROVE GroupIsKnown'
  <2> USE DEF Exec!Goto, Before, RunTypes
  <2>1. UNCHANGED strict BY <1>6 DEF Reaping, Exec!Reap, Exec!Errors
  <2>2. /\ pc'[c] \notin Before \cup {"guard"} /\ \A d \in Runs : d # c => pc'[d] = pc[d]
        /\ \A d \in Runs : d # c => child'[d] = child[d]
    BY <1>6 DEF Reaping, Exec!Reap, Exec!Errors, Exec!Reaped
  <2>3. \A d \in Runs : guard'[d].group = guard[d].group
    BY <1>6, MarkedGuard DEF Reaping, Exec!Reap, Exec!Errors
  <2>4. \A d \in Runs : result'[d] = "ok" => result[d] = "ok"
    BY <1>6 DEF Reaping, Exec!Reap, Exec!Errors, Exec!ProcessError
  <2>5. \A d \in Runs : Steady(d) BY <2>1, <2>2, <2>3, <2>4 DEF Steady
  <2> QED BY <1>1, <2>1, <2>5
<1>7. ASSUME NEW c \in Runs, Reading(c) PROVE GroupIsKnown'
  <2>1. UNCHANGED <<strict, pc, guard, result, child>>
    BY <1>7 DEF Reading, Exec!Read, Exec!ReadExtra, Exec!ReadEof, Exec!call
  <2> QED BY <1>1, <2>1 DEF Steady
<1>8. ASSUME NEW p \in Pids,
             \/ Exec!Fork(p) \/ Exec!CloseOutput(p) \/ Exec!WriteOutput(p) \/ Exec!Exit(p) \/ Exec!Die(p)
             \/ Exec!OtherStarts(p) \/ Exec!ReapOrphan(p) \/ \E g \in Pids : Exec!Regroup(p, g)
      PROVE  GroupIsKnown'
  <2>1. UNCHANGED <<strict, pc, guard, result, child>>
    BY <1>8 DEF Exec!Fork, Exec!CloseOutput, Exec!WriteOutput, Exec!Exit, Exec!Die,
        Exec!OtherStarts, Exec!ReapOrphan, Exec!Regroup, Exec!call
  <2> QED BY <1>1, <2>1 DEF Steady
<1>9. CASE UNCHANGED Exec!vars
  <2>1. UNCHANGED <<strict, pc, guard, result, child>> BY <1>9 DEF Exec!vars, Exec!call
  <2> QED BY <1>1, <2>1 DEF Steady
<1> QED BY <1>3, <1>4, <1>5, <1>6, <1>7, <1>8, <1>9, NextIsOfAKind

-----------------------------------------------------------------------------
(* The pipe of a call.                                                     *)
PipeOf(c) == <<written[c], taken[c], reader[c], got[c], truncated[c]>>

(* A step that leaves the pipe alone.                                      *)
LEMMA PipeKept ==
  ASSUME NEW c, PipeExact(c), PipeOf(c)' = PipeOf(c) PROVE PipeExact(c)'
<1>1. /\ written'[c] = written[c] /\ taken'[c] = taken[c] /\ reader'[c] = reader[c] /\ got'[c] = got[c]
      /\ truncated'[c] = truncated[c]
  BY DEF PipeOf
<1> QED BY <1>1 DEF PipeExact

(* ... and the place and the outcome of its call.                          *)
LEMMA OutcomeKept ==
  ASSUME NEW c, OutcomeKnown(c), PipeOf(c)' = PipeOf(c), pc'[c] = pc[c], result'[c] = result[c]
  PROVE  OutcomeKnown(c)'
<1>1. /\ written'[c] = written[c] /\ reader'[c] = reader[c] /\ got'[c] = got[c]
      /\ truncated'[c] = truncated[c]
  BY DEF PipeOf
<1>2. Exact(c)' <=> Exact(c) BY <1>1 DEF Exact
<1> QED BY <1>1, <1>2 DEF OutcomeKnown

(* read_capped keeps the beginning, and notices exactly when there is      *)
(* more; no outcome is reported before it is done, and none of "failed"    *)
(* after the spawn.                                                        *)
LEMMA PipeStep ==
  ASSUME ProcessConstants, RunTypes, SystemTypes, PipeTypes, PipeIsExact, [Exec!Next]_(Exec!vars)
  PROVE  PipeIsExact'
<1>1. ASSUME NEW c \in Runs, Quietly(c) PROVE PipeIsExact'
  <2>1. UNCHANGED <<written, taken, reader, got, truncated>> BY <1>1, QuietCalls
  <2>2. ASSUME NEW d \in Runs PROVE PipeExact(d)'
    BY <2>1 DEF PipeIsExact, PipeExact
  <2>3. \A d \in Runs : Exact(d)' <=> Exact(d) BY <2>1 DEF Exact
  <2>4. ASSUME NEW d \in Runs, d # c PROVE OutcomeKnown(d)'
    <3>1. pc'[d] = pc[d] /\ result'[d] = result[d]
      BY <1>1, <2>4 DEF Quietly, Exec!Call, Exec!Lock, Exec!Checks, Exec!Handshake, Refusing,
          Exec!Refuse, Exec!Observe, Exec!Drained,
         Exec!DrainFails, Exec!Confirm, Exec!WaitFails, Exec!Drop, Exec!DropQueued, Exec!Goto, RunTypes
    <3> QED BY <2>1, <2>3, <3>1 DEF PipeIsExact, OutcomeKnown
  <2>5. OutcomeKnown(c)'
    <3>0. OutcomeKnown(c) BY DEF PipeIsExact
    <3> USE DEF OutcomeKnown, Exec!Goto, Before, RunTypes
    <3>1. CASE Exec!Call(c) BY <2>1, <2>3, <3>0, <3>1 DEF Exec!Call
    <3>2. CASE Exec!Lock(c) BY <2>1, <2>3, <3>0, <3>2 DEF Exec!Lock
    <3>3. CASE Exec!Checks(c) BY <2>1, <2>3, <3>0, <3>3 DEF Exec!Checks, Exec!Refuse,
        Exec!ProcessError
    <3>4. CASE Exec!Handshake(c) BY <2>1, <2>3, <3>0, <3>4 DEF Exec!Handshake, Exec!Refuse,
        Exec!ProcessError
    <3>5. CASE Refusing(c) BY <2>1, <2>3, <3>0, <3>5 DEF Refusing, Exec!Refuse, Exec!ProcessError
    <3>6. CASE Exec!Observe(c) BY <2>1, <2>3, <3>0, <3>6 DEF Exec!Observe
    <3>7. CASE Exec!Drained(c) BY <2>1, <2>3, <3>0, <3>7 DEF Exec!Drained
    <3>8. CASE Exec!DrainFails(c) BY <2>1, <2>3, <3>0, <3>8 DEF Exec!DrainFails, Exec!ProcessError
    <3>9. CASE Exec!Confirm(c) BY <2>1, <2>3, <3>0, <3>9 DEF Exec!Confirm, Exec!ProcessError
    <3>10. CASE Exec!WaitFails(c) BY <2>1, <2>3, <3>0, <3>10 DEF Exec!WaitFails, Exec!ProcessError
    <3>11. CASE Exec!Drop(c) BY <2>1, <2>3, <3>0, <3>11 DEF Exec!Drop
    <3>12. CASE Exec!DropQueued(c) BY <2>1, <2>3, <3>0, <3>12 DEF Exec!DropQueued
    <3> QED BY <1>1, <3>1, <3>2, <3>3, <3>4, <3>5, <3>6, <3>7, <3>8, <3>9, <3>10, <3>11, <3>12
         DEF Quietly
  <2> QED BY <2>2, <2>4, <2>5 DEF PipeIsExact
<1>2. ASSUME NEW c \in Runs, NEW p \in Pids, Starting(c, p) PROVE PipeIsExact'
  <2>1. UNCHANGED <<written, taken, got, truncated, result>> BY <1>2 DEF Starting
  <2>2. ASSUME NEW d \in Runs, d # c PROVE PipeExact(d)' /\ OutcomeKnown(d)'
    <3>1. reader'[d] = reader[d] /\ pc'[d] = pc[d]
      BY <1>2, <2>2 DEF Starting, Exec!Goto, PipeTypes, RunTypes
    <3>2. PipeOf(d)' = PipeOf(d) BY <2>1, <3>1 DEF PipeOf
    <3> QED BY <2>1, <3>1, <3>2, PipeKept, OutcomeKept DEF PipeIsExact
  <2>3. PipeExact(c)' /\ OutcomeKnown(c)'
    <3>1. pc[c] = "spawn" /\ pc'[c] = "guard" /\ reader'[c] = "on"
      BY <1>2 DEF Starting, Exec!Goto, PipeTypes, RunTypes
    <3>2. PipeExact(c) /\ OutcomeKnown(c) BY DEF PipeIsExact
    <3>3. reader[c] = "off" /\ result[c] \notin {"failed", "ok"} BY <3>1, <3>2
        DEF OutcomeKnown, Before
    <3> QED BY <2>1, <3>1, <3>2, <3>3 DEF PipeExact, OutcomeKnown, Before, ProcessConstants
  <2> QED BY <2>2, <2>3 DEF PipeIsExact
<1>3. ASSUME NEW c \in Runs, Killing(c) PROVE PipeIsExact'
  <2>1. UNCHANGED <<written, taken, got, truncated, result>>
    BY <1>3 DEF Killing, Exec!Established, Exec!Exited, Exec!Elapsed, Exec!DropGuard,
        Exec!DropChild, Exec!pipe
  <2>2. \A d \in Runs : d # c => pc'[d] = pc[d] /\ reader'[d] = reader[d]
    BY <1>3 DEF Killing, Exec!Established, Exec!Exited, Exec!Elapsed, Exec!DropGuard,
        Exec!DropChild, Exec!pipe, Exec!Goto, RunTypes, PipeTypes
  <2>3. ASSUME NEW d \in Runs, d # c PROVE PipeExact(d)' /\ OutcomeKnown(d)'
    <3>1. PipeOf(d)' = PipeOf(d) BY <2>1, <2>2, <2>3 DEF PipeOf
    <3> QED BY <2>1, <2>2, <2>3, <3>1, PipeKept, OutcomeKept DEF PipeIsExact
  <2>4. PipeExact(c) /\ OutcomeKnown(c) /\ (Exact(c)' <=> Exact(c)) BY <2>1 DEF PipeIsExact, Exact
  <2>5. CASE Exec!DropGuard(c)
    <3>1. pc[c] = "leaving" /\ pc'[c] = "lingering" /\ reader'[c] = (IF reader[c] = "off" THEN "off" ELSE "done")
      BY <2>5 DEF Exec!DropGuard, Exec!Goto, RunTypes, PipeTypes
    <3>2. PipeExact(c)' BY <2>1, <2>4, <3>1 DEF PipeExact
    <3>3. OutcomeKnown(c)' BY <2>1, <2>4, <3>1 DEF OutcomeKnown, Before
    <3> QED BY <2>3, <3>2, <3>3 DEF PipeIsExact
  <2>6. CASE Exec!Established(c) \/ Exec!Exited(c) \/ Exec!Elapsed(c) \/ Exec!DropChild(c)
    <3>1. /\ reader'[c] = reader[c]
          /\ \/ pc[c] \in {"established", "wait"} /\ pc'[c] \in {"wait", "reap", "failing", "unavailable"}
             \/ pc[c] = "lingering" /\ pc'[c] = "ended"
      BY <2>6 DEF Exec!Established, Exec!Exited, Exec!Elapsed, Exec!DropChild, Exec!Goto,
          RunTypes, Exec!pipe
    <3>2. PipeOf(c)' = PipeOf(c) BY <2>1, <3>1 DEF PipeOf
    <3>3. OutcomeKnown(c)' BY <2>1, <2>4, <3>1 DEF OutcomeKnown, Before
    <3> QED BY <2>3, <2>4, <3>2, <3>3, PipeKept DEF PipeIsExact
  <2> QED BY <1>3, <2>5, <2>6 DEF Killing
<1>4. ASSUME NEW c \in Runs, Reaping(c) PROVE PipeIsExact'
  <2>1. UNCHANGED <<written, taken, reader, got, truncated>> BY <1>4 DEF Reaping, Exec!Reap,
      Exec!Errors, Exec!pipe
  <2>2. \A d \in Runs : d # c => pc'[d] = pc[d] /\ result'[d] = result[d]
    BY <1>4 DEF Reaping, Exec!Reap, Exec!Errors, Exec!Goto, RunTypes
  <2>3. \A d \in Runs : PipeOf(d)' = PipeOf(d) BY <2>1 DEF PipeOf
  <2>4. /\ pc[c] \in {"reap", "failing", "unavailable"} /\ pc'[c] \in {"drain", "leaving"}
        /\ result'[c] \in {result[c], "unknown"}
    BY <1>4 DEF Reaping, Exec!Reap, Exec!Errors, Exec!Goto, RunTypes, Exec!ProcessError
  <2>5. OutcomeKnown(c)'
    <3>1. OutcomeKnown(c) /\ (Exact(c)' <=> Exact(c)) BY <2>1 DEF PipeIsExact, Exact
    <3> QED BY <2>1, <2>4, <3>1 DEF OutcomeKnown, Before
  <2> QED BY <2>2, <2>3, <2>5, PipeKept, OutcomeKept DEF PipeIsExact
<1>5. ASSUME NEW c \in Runs, Reading(c) PROVE PipeIsExact'
  <2>1. UNCHANGED <<written, pc, result>> BY <1>5 DEF Reading, Exec!Read, Exec!ReadExtra,
      Exec!ReadEof, Exec!call
  <2>2. ASSUME NEW d \in Runs, d # c PROVE PipeOf(d)' = PipeOf(d)
    BY <1>5, <2>1, <2>2 DEF Reading, Exec!Read, Exec!ReadExtra, Exec!ReadEof, PipeOf, PipeTypes
  <2>3. PipeExact(c) /\ OutcomeKnown(c) BY DEF PipeIsExact
  <2>4. /\ written[c] \in Nat /\ taken[c] \in Nat /\ got[c] \in Nat /\ Limit \in Nat
    BY DEF PipeTypes, ProcessConstants
  <2>5. reader[c] \in {"on", "extra"} BY <1>5 DEF Reading, Exec!Read, Exec!ReadExtra, Exec!ReadEof
  <2>6. ASSUME PipeExact(c)', reader'[c] # "off", reader'[c] = "done" => Exact(c)' PROVE OutcomeKnown(c)'
    BY <2>1, <2>3, <2>5, <2>6 DEF OutcomeKnown
  <2>7. CASE Exec!ReadExtra(c)
    <3>1. reader'[c] = "done" /\ truncated'[c] /\ taken'[c] = taken[c] + 1 /\ got'[c] = got[c]
          /\ written[c] > taken[c] /\ reader[c] = "extra"
      BY <2>7 DEF Exec!ReadExtra, PipeTypes
    <3>2. got[c] = taken[c] /\ got[c] = Limit BY <2>3, <3>1 DEF PipeExact
    <3>3. PipeExact(c)' BY <2>1, <2>4, <3>1 DEF PipeExact
    <3>4. Exact(c)' BY <2>1, <2>4, <3>1, <3>2 DEF Exact, Exec!Least
    <3> QED BY <2>1, <2>2, <2>6, <3>1, <3>3, <3>4, PipeKept, OutcomeKept DEF PipeIsExact
  <2>8. CASE Exec!ReadEof(c)
    <3>1. reader'[c] = "done" /\ truncated' = truncated /\ taken' = taken /\ got' = got
          /\ written[c] = taken[c]
      BY <2>8 DEF Exec!ReadEof, PipeTypes
    <3>2. got[c] = taken[c] /\ got[c] <= Limit /\ ~truncated[c] BY <2>3, <2>4, <2>5 DEF PipeExact
    <3>3. PipeExact(c)' BY <2>1, <2>3, <3>1 DEF PipeExact
    <3>4. Exact(c)' BY <2>1, <2>4, <3>1, <3>2 DEF Exact, Exec!Least
    <3> QED BY <2>1, <2>2, <2>6, <3>1, <3>3, <3>4, PipeKept, OutcomeKept DEF PipeIsExact
  <2>9. ASSUME NEW n \in 1 .. MaxBytes, Exec!Read(c, n) PROVE PipeIsExact'
    <3>1. PICK next : next = Exec!AfterRead(Limit - got[c], n) OBVIOUS
    <3>2. /\ reader'[c] = (IF next = "truncated" THEN "done" ELSE next)
          /\ truncated'[c] <=> (next = "truncated")
          /\ got'[c] = got[c] + Exec!Least(n, Limit - got[c]) /\ taken'[c] = taken[c] + n
          /\ n \in 1 .. written[c] - taken[c] /\ reader[c] = "on"
      BY <2>9, <3>1 DEF Exec!Read, PipeTypes
    <3>3. got[c] = taken[c] /\ got[c] <= Limit /\ ~truncated[c] BY <2>3, <3>2 DEF PipeExact
    <3>4. n \in Nat /\ n # 0 /\ taken'[c] <= written[c] BY <2>4, <3>2
    <3>5. CASE n > Limit - got[c]
      <4>1. next = "truncated" /\ got'[c] = Limit /\ written[c] > Limit
        BY <2>4, <3>1, <3>2, <3>3, <3>4, <3>5 DEF Exec!AfterRead, Exec!Least
      <4>2. PipeExact(c)' BY <2>1, <2>4, <3>2, <3>4, <4>1 DEF PipeExact
      <4>3. Exact(c)' BY <2>1, <2>4, <3>2, <4>1 DEF Exact, Exec!Least
      <4> QED BY <2>1, <2>2, <2>6, <3>2, <4>1, <4>2, <4>3, PipeKept, OutcomeKept DEF PipeIsExact
    <3>6. CASE ~(n > Limit - got[c])
      <4>1. /\ got'[c] = got[c] + n /\ got'[c] <= Limit
            /\ next = (IF n = Limit - got[c] THEN "extra" ELSE "on")
            /\ n = Limit - got[c] => got'[c] = Limit
        BY <2>4, <3>1, <3>2, <3>3, <3>4, <3>6 DEF Exec!AfterRead, Exec!Least
      <4>2. PipeExact(c)' BY <2>1, <2>4, <3>2, <3>3, <3>4, <4>1 DEF PipeExact
      <4>3. reader'[c] \in {"on", "extra"} BY <3>2, <4>1
      <4> QED BY <2>1, <2>2, <2>6, <4>2, <4>3, PipeKept, OutcomeKept DEF PipeIsExact
    <3> QED BY <3>5, <3>6
  <2> QED BY <1>5, <2>7, <2>8, <2>9 DEF Reading
<1>6. ASSUME NEW p \in Pids, Exec!WriteOutput(p) PROVE PipeIsExact'
  <2>1. PICK c \in Runs : c = procs[p].owner
    BY <1>6 DEF Exec!WriteOutput, Exec!Live, SystemTypes, Exec!Exists
  <2>2. /\ reader[c] \in {"on", "extra"} /\ written' = [written EXCEPT ![c] = @ + 1]
        /\ UNCHANGED <<taken, reader, got, truncated, pc, result>>
    BY <1>6, <2>1 DEF Exec!WriteOutput, Exec!call
  <2>3. ASSUME NEW d \in Runs, d # c PROVE PipeOf(d)' = PipeOf(d)
    BY <2>2, <2>3 DEF PipeOf, PipeTypes
  <2>4. written'[c] = written[c] + 1 /\ written[c] \in Nat /\ taken[c] \in Nat BY <2>2 DEF PipeTypes
  <2>5. PipeExact(c) /\ OutcomeKnown(c) BY DEF PipeIsExact
  <2>6. PipeExact(c)' BY <2>2, <2>4, <2>5 DEF PipeExact
  <2>7. OutcomeKnown(c)' BY <2>2, <2>5 DEF OutcomeKnown
  <2> QED BY <2>2, <2>3, <2>6, <2>7, PipeKept, OutcomeKept DEF PipeIsExact
<1>7. ASSUME UNCHANGED <<written, taken, reader, got, truncated, pc, result>> PROVE PipeIsExact'
  <2>1. \A d \in Runs : PipeOf(d)' = PipeOf(d) BY <1>7 DEF PipeOf
  <2> QED BY <1>7, <2>1, PipeKept, OutcomeKept DEF PipeIsExact
<1>8. ASSUME NEW p \in Pids,
             \/ Exec!Fork(p) \/ Exec!CloseOutput(p) \/ Exec!Exit(p) \/ Exec!Die(p)
             \/ Exec!OtherStarts(p) \/ Exec!ReapOrphan(p) \/ \E g \in Pids : Exec!Regroup(p, g)
      PROVE  PipeIsExact'
  BY <1>7, <1>8 DEF Exec!Fork, Exec!CloseOutput, Exec!Exit, Exec!Die, Exec!OtherStarts,
      Exec!ReapOrphan, Exec!Regroup, Exec!call, Exec!pipe
<1>9. CASE UNCHANGED Exec!vars BY <1>7, <1>9 DEF Exec!vars, Exec!call, Exec!pipe
<1> QED BY <1>1, <1>2, <1>3, <1>4, <1>5, <1>6, <1>8, <1>9, NextIsOfAKind

-----------------------------------------------------------------------------
(* The process table keeps its numbers.                                    *)
LEMMA TableIsATable ==
  ASSUME SystemTypes, [Exec!Next]_(Exec!vars) PROVE procs' = [p \in Pids |-> procs'[p]]
<1>1. procs = [p \in Pids |-> procs[p]] BY DEF SystemTypes
<1>2. \/ procs' = procs
      \/ \E P : procs' = Exec!Killed(P)
      \/ \E p, e : procs' = [procs EXCEPT ![p] = e]
      \/ \E p, g : procs' = [procs EXCEPT ![p].group = g, ![p].stayed = FALSE]
      \/ \E p : procs' = [procs EXCEPT ![p].holds = FALSE]
  <2>1. ASSUME NEW c \in Runs, Quietly(c) PROVE procs' = procs BY <2>1, QuietCalls
  <2>2. ASSUME NEW c \in Runs, Killing(c) PROVE procs' = procs \/ \E P : procs' = Exec!Killed(P)
    BY <2>2 DEF Killing, Exec!Established, Exec!Exited, Exec!Elapsed, Exec!DropGuard,
        Exec!DropChild, Exec!Kill
  <2>3. ASSUME NEW c \in Runs, Reaping(c) \/ Reading(c) \/ \E p \in Pids : Starting(c, p)
        PROVE  procs' = procs \/ \E p, e : procs' = [procs EXCEPT ![p] = e]
    BY <2>3 DEF Reaping, Exec!Reap, Exec!Errors, Exec!Reaped, Reading, Exec!Read,
        Exec!ReadExtra, Exec!ReadEof, Starting
  <2>4. ASSUME NEW p \in Pids,
               \/ Exec!Fork(p) \/ Exec!Exit(p) \/ Exec!Die(p) \/ Exec!OtherStarts(p) \/ Exec!ReapOrphan(p)
        PROVE  \E q, e : procs' = [procs EXCEPT ![q] = e]
    BY <2>4 DEF Exec!Fork, Exec!Exit, Exec!Die, Exec!OtherStarts, Exec!ReapOrphan
  <2>5. ASSUME NEW p \in Pids, Exec!WriteOutput(p) PROVE procs' = procs BY <2>5 DEF Exec!WriteOutput
  <2>6. ASSUME NEW p \in Pids, Exec!CloseOutput(p) PROVE procs' = [procs EXCEPT ![p].holds = FALSE]
    BY <2>6 DEF Exec!CloseOutput
  <2>7. ASSUME NEW p \in Pids, NEW g \in Pids, Exec!Regroup(p, g)
        PROVE  procs' = [procs EXCEPT ![p].group = g, ![p].stayed = FALSE]
    BY <2>7 DEF Exec!Regroup
  <2>8. CASE UNCHANGED Exec!vars BY <2>8 DEF Exec!vars
  <2> QED BY <2>1, <2>2, <2>3, <2>4, <2>5, <2>6, <2>7, <2>8, NextIsOfAKind
<1> QED BY <1>1, <1>2 DEF Exec!Killed

(* ProcessInv is an invariant of Process.                                  *)
LEMMA ProcessInvariant == ProcessConstants => (Exec!Spec => []ProcessInv)
<1> SUFFICES ASSUME ProcessConstants PROVE Exec!Spec => []ProcessInv OBVIOUS
<1>1. ASSUME Exec!Init PROVE ProcessInv
  <2>1. RunTypes BY <1>1 DEF Exec!Init, RunTypes, Before, Guards, Exec!NoGuard
  <2>2. SystemTypes
    <3>1. Exec!Free \in Entries BY DEF Exec!Free, Entries, Exec!Nobody
    <3> QED BY <1>1, <3>1 DEF Exec!Init, SystemTypes, Exec!Exists, Exec!Free
  <2>3. PipeTypes BY <1>1 DEF Exec!Init, PipeTypes
  <2>4. ChildIsOwn /\ OrphansExist BY <1>1 DEF Exec!Init, ChildIsOwn, OrphansExist
  <2>5. GuardIsFresh BY <1>1 DEF Exec!Init, GuardIsFresh, Exec!NoGuard, Before, Supervising
  <2>6. \A c \in Runs : Stayed(c) = {} BY <1>1 DEF Exec!Init, Stayed, Exec!Exists, Exec!Free
  <2>7. GroupIsKnown BY <1>1, <2>6 DEF Exec!Init, GroupIsKnown, GroupKnown
  <2>8. PipeIsExact BY <1>1 DEF Exec!Init, PipeIsExact, PipeExact, OutcomeKnown
  <2>9. Exec!OnlyOwnStruck BY <1>1 DEF Exec!Init, Exec!OnlyOwnStruck
  <2> QED BY <2>1, <2>2, <2>3, <2>4, <2>5, <2>7, <2>8, <2>9 DEF ProcessInv
<1>2. ProcessInv /\ [Exec!Next]_(Exec!vars) => ProcessInv'
  <2> SUFFICES ASSUME ProcessInv, [Exec!Next]_(Exec!vars) PROVE ProcessInv' OBVIOUS
  <2> USE DEF ProcessInv
  <2>1. Deed BY StepIsADeed
  <2>2. RunTypes' /\ PipeTypes' BY RunTypeStep, PipeTypeStep
  <2>3. SystemTypes' BY <2>1, SystemTypeStep, TableIsATable
  <2>4. ChildIsOwn' /\ OrphansExist' BY <2>1, OwnStep
  <2>5. GuardIsFresh' BY GuardStep
  <2>6. GroupIsKnown' BY <2>1, GroupStep
  <2>7. PipeIsExact' BY PipeStep
  <2>8. Exec!OnlyOwnStruck' BY StruckStep
  <2> QED BY <2>2, <2>3, <2>4, <2>5, <2>6, <2>7, <2>8
<1> QED BY <1>1, <1>2, PTL DEF Exec!Spec

(* A call never kills a process it did not start, although the operating   *)
(* system gives the numbers of processes and groups out again, the target  *)
(* moves between groups and the future may be dropped at any await         *)
(* (ProcessGroupGuard), for any number of calls and process numbers.       *)
THEOREM OnlyOwnProcessesAreKilled == ProcessConstants => (Exec!Spec => []OnlyOwnStruck)
<1>1. ProcessInv => OnlyOwnStruck BY DEF ProcessInv, OnlyOwnStruck
<1> QED BY <1>1, ProcessInvariant, PTL

(* What execute reports is true: "failed" only if nothing was started,     *)
(* success of a strict call only when its group is gone, output cut        *)
(* exactly at the limit (process_error, wait_for_termination_async,        *)
(* read_capped), for any number of calls and process numbers and any       *)
(* limit.                                                                  *)
THEOREM OutcomesAreTrue == ProcessConstants => (Exec!Spec => []OutcomeTrue)
<1>1. ASSUME ProcessInv PROVE OutcomeTrue
  <2>1. Exec!FailedMeansNotRun BY <1>1 DEF ProcessInv, PipeIsExact, OutcomeKnown,
      Exec!FailedMeansNotRun
  <2>2. Exec!CleanMeansGone
    BY <1>1 DEF ProcessInv, GroupIsKnown, GroupKnown, Stayed, Exec!CleanMeansGone
  <2>3. Exec!OutputExact BY <1>1 DEF ProcessInv, PipeIsExact, OutcomeKnown, Exact, Exec!OutputExact
  <2> QED BY <2>1, <2>2, <2>3 DEF OutcomeTrue, Exec!OutcomeTrue
<1> QED BY <1>1, ProcessInvariant, PTL

=============================================================================
