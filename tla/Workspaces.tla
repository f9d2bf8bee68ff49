----------------------------- MODULE Workspaces -----------------------------
(***************************************************************************)
(* Workspace records, the user's trust in them, jobs, and what a turn      *)
(* offers to the model, while other programs replace, link and remove the  *)
(* directories.  A record is bound to an identity, the canonical root and  *)
(* the inode found there; trust belongs to the record, and a turn works on *)
(* the directory its record names only if the identity is still the same.  *)
(*                                                                         *)
(* The digest of the code is a hash of the identity and is modelled by the *)
(* identity itself; an inode number is not used again for another          *)
(* directory (external).                                                   *)
(***************************************************************************)
EXTENDS Naturals, FiniteSets

CONSTANTS
  Paths,      \* absolute paths other programs play with
  Inodes,     \* directories
  Records,    \* workspace ids (model bound)
  Jobs,       \* job ids (model bound)
  None        \* no record

VARIABLES
  disk,       \* what a path names: a directory, a link to a path, or nothing
  daemon,     \* host ceiling, probed sandbox and provider of this process
  ws,         \* workspaces of the projection
  jobs,       \* jobs of the projection
  turn,       \* the running turn's context and tool registry
  blessed,    \* identities the user trusts at the moment
  everTrusted,\* identities the user ever trusted
  acted       \* the last mutation: where, and what was trusted at load

vars == <<disk, daemon, ws, jobs, turn, blessed, everTrusted, acted>>

Gone == "gone"
Modes == {"observe", "build", "operate"}
Rank == [m \in Modes |-> CASE m = "observe" -> 0 [] m = "build" -> 1
                           [] OTHER -> 2]
Backends == {"seatbelt", "bubblewrap", "unavailable"}
Identities == [root : Paths, inode : Inodes]
Daemons == [ceiling : Modes, backend : Backends, toolCalls : BOOLEAN]
NoTurn == [phase |-> "idle"]

-----------------------------------------------------------------------------
(* fs::canonicalize follows links; open needs a directory at the end.      *)

Canonical(p) == IF disk[p] \in Paths THEN disk[p] ELSE p
Opens(p) == disk[Canonical(p)] \in Inodes
Identity(p) == [root |-> Canonical(p), inode |-> disk[Canonical(p)]]

(* SandboxBackend::capabilities and ensure; a seatbelt has no process      *)
(* boundary.                                                               *)
Offers(backend) ==
  CASE backend = "bubblewrap" -> {"filesystem", "process", "network"}
    [] backend = "seatbelt" -> {"filesystem", "network"}
    [] OTHER -> {}
Ensure(backend, requirement) ==
  backend # "unavailable" /\ requirement \subseteq Offers(backend)
WriteRequirement == {"filesystem", "network"}
ProcessRequirement == {"filesystem", "process", "network"}

Init ==
  /\ disk \in [Paths -> Inodes \cup {Gone}]
  /\ \A p, q \in Paths : disk[p] = disk[q] /\ disk[p] # Gone => p = q
  /\ daemon \in Daemons
  /\ ws = [w \in Records |-> None]
  /\ jobs = [j \in Jobs |-> None]
  /\ turn = NoTurn
  /\ blessed = {} /\ everTrusted = {} /\ acted = None

(* What initialize announces to a client as ready.                         *)
Ready(requirement) ==
  /\ Ensure(daemon.backend, requirement)
  /\ daemon.toolCalls
  /\ daemon.ceiling # "observe"

-----------------------------------------------------------------------------
(* Commands; the gate makes each of them atomic.  initialize only answers. *)

Known(p) == {w \in Records : ws[w] # None /\ ws[w].id = Identity(p)}

WorkspaceOpen(p) ==
  /\ Opens(p) /\ Known(p) = {}
  /\ \E w \in Records :
       /\ ws[w] = None
       /\ ws' = [ws EXCEPT ![w] = [id |-> Identity(p), trust |-> FALSE]]
  /\ UNCHANGED <<disk, daemon, jobs, turn, blessed, everTrusted, acted>>

(* The client quotes the digest it was shown.                              *)
WorkspaceTrust(w, digest, trust) ==
  /\ ws[w] # None /\ Opens(ws[w].id.root)
  /\ digest = ws[w].id /\ Identity(ws[w].id.root) = ws[w].id
  /\ ws[w].trust # trust
  /\ ws' = [ws EXCEPT ![w].trust = trust]
  /\ blessed' = IF trust THEN blessed \cup {digest} ELSE blessed \ {digest}
  /\ everTrusted' = IF trust THEN everTrusted \cup {digest} ELSE everTrusted
  /\ UNCHANGED <<disk, daemon, jobs, turn, acted>>

JobCreate(j, w, mode) ==
  /\ ws[w] # None /\ jobs[j] = None
  /\ Rank[mode] <= Rank[daemon.ceiling]
  /\ ws[w].trust \/ mode = "observe"
  /\ jobs' = [jobs EXCEPT ![j] = [on |-> w, mode |-> mode, state |-> "active"]]
  /\ UNCHANGED <<disk, daemon, ws, turn, blessed, everTrusted, acted>>

JobTransition(j, to) ==
  /\ jobs[j] # None
  /\ <<jobs[j].state, to>> \in {<<"active", "paused">>, <<"paused", "active">>}
  /\ jobs' = [jobs EXCEPT ![j].state = to]
  /\ UNCHANGED <<disk, daemon, ws, turn, blessed, everTrusted, acted>>

-----------------------------------------------------------------------------
(* A turn: RunContext::load, the tool registry, a mutation.                *)

LoadTurn(w) ==
  /\ turn.phase = "idle" /\ ws[w] # None
  /\ turn' = [phase |-> "loaded", expected |-> ws[w].id,
              trust |-> ws[w].trust, blessed |-> blessed]
  /\ UNCHANGED <<disk, daemon, ws, jobs, blessed, everTrusted, acted>>

SameRootOnly(actual, expected) == actual.root = expected.root
ValidateWorkspaceIdentity(actual, expected) == actual = expected

Registry ==
  {"read"}
    \cup (IF Ensure(daemon.backend, WriteRequirement)
             /\ daemon.ceiling # "observe" THEN {"apply_patch"} ELSE {})
    \cup (IF Ensure(daemon.backend, ProcessRequirement)
             /\ daemon.ceiling # "observe" THEN {"process"} ELSE {})

BuildContext ==
  /\ turn.phase = "loaded"
  /\ \/ /\ ~daemon.toolCalls
        /\ turn' = [phase |-> "built", trust |-> turn.trust, tools |-> {},
                    pinned |-> turn.expected, blessed |-> turn.blessed]
     \/ /\ daemon.toolCalls /\ Opens(turn.expected.root)
        /\ ValidateWorkspaceIdentity(Identity(turn.expected.root), turn.expected)
        /\ turn' = [phase |-> "built", trust |-> turn.trust, tools |-> Registry,
                    pinned |-> Identity(turn.expected.root),
                    blessed |-> turn.blessed]
  /\ UNCHANGED <<disk, daemon, ws, jobs, blessed, everTrusted, acted>>

(* Policy lets a trusted turn write, the approval is the subject of        *)
(* Authority; the write goes through the descriptor opened above and only  *)
(* while the path still names it.                                          *)
Mutate ==
  /\ turn.phase = "built" /\ "apply_patch" \in turn.tools /\ turn.trust
  /\ Opens(turn.pinned.root) /\ Identity(turn.pinned.root) = turn.pinned
  /\ acted' = [at |-> turn.pinned, blessed |-> turn.blessed]
  /\ UNCHANGED <<disk, daemon, ws, jobs, turn, blessed, everTrusted>>

(* The turn ends, also because the root cannot be opened or has changed.   *)
EndTurn ==
  /\ turn.phase # "idle"
  /\ turn' = NoTurn /\ acted' = None
  /\ UNCHANGED <<disk, daemon, ws, jobs, blessed, everTrusted>>

-----------------------------------------------------------------------------
(* The world outside.                                                      *)

OtherPrograms(p) ==
  /\ \/ \E i \in Inodes :
          /\ \A q \in Paths \ {p} : disk[q] # i
          /\ disk' = [disk EXCEPT ![p] = i]
     \/ \E q \in Paths \ {p} : disk[q] \notin Paths /\ disk' = [disk EXCEPT ![p] = q]
     \/ disk' = [disk EXCEPT ![p] = Gone]
  /\ \A q \in Paths : disk'[q] \in Paths => disk'[disk'[q]] \notin Paths
  /\ UNCHANGED <<daemon, ws, jobs, turn, blessed, everTrusted, acted>>

(* Another process on the same state directory: its own flags, and its own *)
(* probe of the sandbox.                                                   *)
Restart ==
  /\ daemon' \in Daemons
  /\ turn' = NoTurn /\ acted' = None
  /\ UNCHANGED <<disk, ws, jobs, blessed, everTrusted>>

Next ==
  \/ \E p \in Paths : WorkspaceOpen(p) \/ OtherPrograms(p)
  \/ \E w \in Records :
       \/ \E d \in Identities, b \in BOOLEAN : WorkspaceTrust(w, d, b)
       \/ \E j \in Jobs, m \in Modes : JobCreate(j, w, m)
       \/ LoadTurn(w)
  \/ \E j \in Jobs, to \in {"active", "paused"} : JobTransition(j, to)
  \/ BuildContext \/ Mutate \/ EndTurn
  \/ Restart

Spec == Init /\ [][Next]_vars

-----------------------------------------------------------------------------
(* Files are changed only below a directory the user trusted, by its       *)
(* digest, when the turn was loaded, and a job above observe belongs to a  *)
(* directory that was trusted once: no replacement, link or restart        *)
(* carries the trust over to another one (workspace_trust,                 *)
(* validate_workspace_identity, job_create).                               *)
TrustIsBound ==
  /\ acted # None => acted.at \in acted.blessed
  /\ \A j \in Jobs :
       jobs[j] # None /\ jobs[j].mode # "observe" =>
         ws[jobs[j].on].id \in everTrusted

(* docs/PROTOCOL.md:57-58: the tools with side effects are offered to the  *)
(* model only under the host ceiling, the probed sandbox and the trust of  *)
(* the workspace.  The registry of a turn (run_inner) asks for the first   *)
(* two; a turn without trust is offered them too and refused by the policy *)
(* when it calls them.                                                     *)
OfferedOnlyUnderTrust ==
  turn.phase = "built" =>
    /\ "apply_patch" \in turn.tools => Ready(WriteRequirement) /\ turn.trust
    /\ "process" \in turn.tools => Ready(ProcessRequirement) /\ turn.trust

=============================================================================
