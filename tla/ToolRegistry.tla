---------------------------- MODULE ToolRegistry ----------------------------
(***************************************************************************)
(* ToolRegistry: each turn builds one over its workspace.  A call is       *)
(* planned when the model proposes it, and what was planned (normalized    *)
(* path and concrete effects) is persisted and may be shown for approval;  *)
(* later it is planned again, revalidated against the files as they are    *)
(* then, compared with what was persisted, turned into a permit and        *)
(* executed, which resolves the name once more.  Between any two of these  *)
(* other programs replace files by links.  A path is a sequence of         *)
(* components; the root is << >>.                                          *)
(***************************************************************************)
EXTENDS Naturals, Sequences

CONSTANTS
  Registries,   \* registries alive at the same time, one per turn
  Calls,        \* tool calls
  Names,        \* paths that may be named in a call
  Tools,        \* registered ids, with their kind
  Kind,         \* Tools -> {"file", "tree", "patch", "process"}
  Template,     \* Tools -> effect template: [read, write, runs]
  MaxRelinks    \* changes by other programs (model bound)

VARIABLES
  config,    \* BuiltInToolRegistryConfig of each registry
  world,     \* what each name resolves to
  call,      \* the calls
  relinks    \* changes so far

vars == <<config, world, call, relinks>>

(* A link that leaves the workspace, or a name that is gone; of an         *)
(* executable, which may lie anywhere, only the latter.                    *)
Outside == <<"..">>
Configs == [mutations : {"none", "hidden", "advertised"},
            process : {"none", "hidden", "advertised"}]
NoEffects == [read |-> {}, write |-> {}, runs |-> {}]
NewCall == [stage |-> "new", registry |-> "none", tool |-> "none",
            route |-> "none", args |-> << >>, effects |-> NoEffects,
            shown |-> NoEffects, ranBy |-> "none", ran |-> NoEffects,
            raced |-> FALSE]   \* raced: relinked since it was revalidated (history)

Init ==
  /\ config \in [Registries -> Configs]
  /\ world = [n \in Names |-> n]
  /\ call = [c \in Calls |-> NewCall]
  /\ relinks = 0

-----------------------------------------------------------------------------
(* Which tools a registry has, and which of them the provider sees.        *)
Switch(r, t) ==
  CASE Kind[t] = "patch" -> config[r].mutations
    [] Kind[t] = "process" -> config[r].process
    [] OTHER -> "advertised"

Registered(r) == {t \in Tools : Switch(r, t) # "none"}
AdvertisedSpecs(r) == {t \in Tools : Switch(r, t) = "advertised"}

(* path_scope_contains and scopes_are_subset.                              *)
StartsWith(p, q) == Len(q) <= Len(p) /\ \A n \in 1 .. Len(q) : p[n] = q[n]

PathScopeContains(template, s) ==
  IF template.recursive THEN StartsWith(s.path, template.path)
  ELSE template.path = s.path /\ ~s.recursive

IsSafeConcretePath(p) == \A n \in 1 .. Len(p) : p[n] # ".."

ScopesAreSubset(concrete, templates) ==
  \A s \in concrete :
    /\ IsSafeConcretePath(s.path)
    /\ \E template \in templates : PathScopeContains(template, s)

VerifyEffectSubset(t, e) ==
  /\ ScopesAreSubset(e.read, Template[t].read)
  /\ ScopesAreSubset(e.write, Template[t].write)
  /\ \A x \in e.runs : <<"*">> \in Template[t].runs \/ x \in Template[t].runs

IsReadOnly(e) == e.write = {} /\ e.runs = {}

(* The adapters' preparation: the name is resolved and the effect is what  *)
(* it resolves to now.  A patch refuses a name that is a link; a process   *)
(* may read the whole tree.                                                *)
Scope(p, recursive) == [path |-> p, recursive |-> recursive]

Prepared(t, name) ==
  LET p == world[name]
  IN CASE Kind[t] = "file" -> [read |-> {Scope(p, FALSE)}, write |-> {}, runs |-> {}]
       [] Kind[t] = "tree" -> [read |-> {Scope(p, TRUE)}, write |-> {}, runs |-> {}]
       [] Kind[t] = "patch" ->
            [read |-> {Scope(p, FALSE)}, write |-> {Scope(p, FALSE)}, runs |-> {}]
       [] Kind[t] = "process" ->
            [read |-> {Scope(<< >>, TRUE)}, write |-> {}, runs |-> {p}]

Prepares(t, name) ==
  /\ world[name] # Outside
  /\ Kind[t] = "patch" => world[name] = name

-----------------------------------------------------------------------------
Put(c, k) == call' = [call EXCEPT ![c] = k]
Refused(c) == Put(c, [call[c] EXCEPT !.stage = "refused"])

(* prepare_tool_proposal: a tool the provider was offered, planned; the    *)
(* plan's path and effects are what is persisted and approved.             *)
Propose(c, r, t, name) ==
  /\ call[c].stage = "new"
  /\ t \in AdvertisedSpecs(r)
  /\ \/ /\ Prepares(t, name) /\ VerifyEffectSubset(t, Prepared(t, name))
        /\ \E route \in {"bound", "pipeline"} :
             /\ route = "bound" => IsReadOnly(Prepared(t, name))
             /\ Put(c, [call[c] EXCEPT !.stage = "proposed",
                  !.registry = r, !.tool = t, !.route = route,
                  !.args = world[name], !.effects = Prepared(t, name),
                  !.shown = Prepared(t, name)])
     \/ /\ ~(Prepares(t, name) /\ VerifyEffectSubset(t, Prepared(t, name)))
        /\ Refused(c)
  /\ UNCHANGED <<config, world, relinks>>

(* Execution starts with a new plan, from the persisted arguments.  A      *)
(* bound read may come to the registry of any turn; a pipeline executes    *)
(* only what it issued itself.                                             *)
PlanAgain(c, r) ==
  LET k == call[c]
  IN /\ k.stage = "proposed"
     /\ IF /\ k.route = "pipeline" => r = k.registry
           /\ k.tool \in Registered(r) /\ Prepares(k.tool, k.args)
           /\ VerifyEffectSubset(k.tool, Prepared(k.tool, k.args))
        THEN Put(c, [k EXCEPT !.stage = "planned", !.registry = r,
                              !.args = world[k.args],
                              !.effects = Prepared(k.tool, k.args)])
        ELSE Refused(c)
     /\ UNCHANGED <<config, world, relinks>>

SameSeal(k, r) == k.registry = r

Unchanged(k) ==
  /\ Prepares(k.tool, k.args)
  /\ Prepared(k.tool, k.args) = k.effects

Revalidate(c, r) ==
  LET k == call[c]
  IN /\ k.stage = "planned"
     /\ IF /\ SameSeal(k, r) /\ k.tool \in Registered(r) /\ Unchanged(k)
           /\ VerifyEffectSubset(k.tool, k.effects)
        THEN Put(c, [k EXCEPT !.stage = "revalidated",
                              !.effects = Prepared(k.tool, k.args)])
        ELSE Refused(c)
     /\ UNCHANGED <<config, world, relinks>>

(* The permit: on both routes the plan is compared with the persisted      *)
(* proposal first; the tokens and approvals of the pipeline are those of   *)
(* module Authority.                                                       *)
BoundToNothing(k) == TRUE
Bound(k) ==
  /\ k.effects = k.shown
  /\ k.route = "bound" => IsReadOnly(k.effects)

IntoExecutionPermit(c) ==
  LET k == call[c]
  IN /\ k.stage = "revalidated"
     /\ IF Bound(k) THEN Put(c, [k EXCEPT !.stage = "permit"]) ELSE Refused(c)
     /\ UNCHANGED <<config, world, relinks>>

(* execute and execute_async: patches and processes only run in the        *)
(* latter.  The adapters resolve the name once more, and what it leads to  *)
(* now is what is read, patched or run.                                    *)
Execute(c, r, async) ==
  LET k == call[c]
  IN /\ k.stage = "permit"
     /\ IF /\ SameSeal(k, r) /\ k.tool \in Registered(r)
           /\ VerifyEffectSubset(k.tool, k.effects)
           /\ Kind[k.tool] \in {"patch", "process"} => async
           /\ Prepares(k.tool, k.args)
        THEN Put(c, [k EXCEPT !.stage = "executed", !.ranBy = r,
                              !.ran = Prepared(k.tool, k.args)])
        ELSE Refused(c)
     /\ UNCHANGED <<config, world, relinks>>

(* Another program replaces a name by a link, or puts it back; a call that *)
(* was already revalidated may not notice.                                 *)
LosesRace(k) ==
  k.stage \in {"revalidated", "permit"} /\ world'[k.args] # world[k.args]

Relink(n, target) ==
  /\ relinks < MaxRelinks /\ world[n] # target
  /\ target \notin {n, Outside} => world[target] = target
  /\ world' = [m \in Names |->
       IF m = n \/ (world[m] = n /\ target # n) THEN target ELSE world[m]]
  /\ call' = [c \in Calls |-> [call[c] EXCEPT !.raced = @ \/ LosesRace(call[c])]]
  /\ relinks' = relinks + 1
  /\ UNCHANGED config

Next ==
  \/ \E c \in Calls, r \in Registries :
       \/ \E t \in Tools, n \in Names : Propose(c, r, t, n)
       \/ PlanAgain(c, r) \/ Revalidate(c, r)
       \/ \E async \in BOOLEAN : Execute(c, r, async)
  \/ \E c \in Calls : IntoExecutionPermit(c)
  \/ \E n \in Names, target \in Names \union {Outside} : Relink(n, target)

Spec == Init /\ [][Next]_vars

-----------------------------------------------------------------------------
Executed == {c \in Calls : call[c].stage = "executed"}

(* The paths a set of scopes stands for, among those that can be named.    *)
Covered(scopes) ==
  {n \in Names : \E s \in scopes :
     IF s.recursive THEN StartsWith(n, s.path) ELSE n = s.path}

(* Whatever was replaced by links since, the call that runs does what was  *)
(* persisted and shown for approval.  Only a name that was replaced after  *)
(* the revalidation may lead a read or an executable elsewhere, since it   *)
(* is resolved once more (read_limited, resolve_directory,                 *)
(* validate_executable); what is read is in the workspace even then, and a *)
(* patch writes the path that was shown without any exception              *)
(* (resolve_expected).                                                     *)
RunsAsProposed ==
  \A c \in Executed :
    LET k == call[c]
    IN /\ k.ran = k.shown \/ (k.raced /\ Kind[k.tool] # "patch")
       /\ k.ran.write = k.shown.write
       /\ \A s \in k.ran.read : s.path \in Names \union {<< >>}

(* No call that runs was judged to reach a path outside its tool's         *)
(* declared effects (verify_effect_subset); none does, but for such a late *)
(* replacement, and none ever writes there.                                *)
WithinTemplate ==
  \A c \in Executed :
    LET k == call[c] t == Template[k.tool]
    IN /\ Covered(k.effects.read) \subseteq Covered(t.read)
       /\ ~k.raced => Covered(k.ran.read) \subseteq Covered(t.read)
       /\ Covered(k.ran.write) \subseteq Covered(t.write)

(* A plan is executed by the registry that made it, never through one of   *)
(* another turn, and a tool that registry does not have never runs (the    *)
(* seal, ToolKey).                                                         *)
OwnPlansOnly ==
  \A c \in Executed :
    /\ call[c].ranBy = call[c].registry
    /\ call[c].tool \in Registered(call[c].ranBy)

(* What is executed is what was judged, up to a name replaced after the    *)
(* last look at it: the effects that were shown, of a tool within its      *)
(* template, by the registry that planned it.                              *)
ExecutedAsJudged == RunsAsProposed /\ WithinTemplate /\ OwnPlansOnly

=============================================================================
