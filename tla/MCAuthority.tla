----------------------------- MODULE MCAuthority -----------------------------
(***************************************************************************)
(* A behaviour is one of the part of Authorization chosen in the           *)
(* beginning; the state of the others rests.                               *)
(***************************************************************************)
EXTENDS Authorization, TLC

VARIABLE part

judging == <<config, world, asked, relinks>>
asking == <<conn, runner, queue, ids, pending, prompts, frames, said, stray,
            verdict>>

(* Tokens and contents are numbers, and patch k writes content k.          *)
OwnContent == [t \in Tokens |-> IF t \in Contents THEN t ELSE 0]

(* The patches belong to one turn.                                         *)
OneTurn == [t \in Tokens |-> CHOOSE p \in Turns : TRUE]

(* Tokens of one turn without files: reads and processes only.             *)
Plain == INSTANCE Authority WITH
  Patches <- {}, Nodes <- {1}, Contents <- {0}, Replacement <- [t \in Tokens |-> 0]

(* Patches of two turns.                                                   *)
Apart == INSTANCE Authority WITH TurnOf <- [t \in Tokens |-> t % 2]

-----------------------------------------------------------------------------
(* A tree with a file in a directory and a file beside it.  Besides the    *)
(* built-in templates, which cover the whole tree, there are narrower ones *)
(* as try_new accepts them: a directory, and a single path.                *)
Root == << >>
Tree == {Root, <<"a">>, <<"a", "b">>, <<"c">>}
ToolNames == {"read", "list", "narrow_list", "narrow_read", "apply_patch", "run"}
Below(path, recursive) == [path |-> path, recursive |-> recursive]
Only(reads, writes, runs) == [read |-> reads, write |-> writes, runs |-> runs]
Everything == {Below(Root, TRUE)}

ToolKind ==
  [t \in ToolNames |->
     CASE t = "apply_patch" -> "patch" [] t = "run" -> "process"
       [] t \in {"list", "narrow_list"} -> "tree" [] OTHER -> "file"]
ToolTemplate ==
  [t \in ToolNames |->
     CASE t = "apply_patch" -> Only(Everything, Everything, {})
       [] t = "run" -> Only(Everything, {}, {<<"*">>})
       [] t = "narrow_list" -> Only({Below(<<"a">>, FALSE)}, {}, {})
       [] t = "narrow_read" -> Only({Below(<<"a">>, TRUE)}, {}, {})
       [] OTHER -> Only(Everything, {}, {})]

-----------------------------------------------------------------------------
AuthorityInit ==
  /\ part \in {"tokens", "patches", "turns", "registry", "approvals"}
  /\ part # "registry" =>
       config = [r \in Registries |-> [mutations |-> "none", process |-> "none"]]
  /\ Registry!Init /\ Approvals!Init
  /\ IF part \in {"patches", "turns"} THEN Init ELSE Plain!Init

AuthorityNext ==
  /\ part' = part
  /\ \/ part = "tokens" /\ Plain!Next /\ UNCHANGED <<judging, asking>>
     \/ part = "patches" /\ Next /\ UNCHANGED <<judging, asking>>
     \/ part = "turns" /\ Apart!Next /\ UNCHANGED <<judging, asking>>
     \/ part = "registry" /\ Registry!Next /\ UNCHANGED <<vars, asking>>
     \/ part = "approvals" /\ Approvals!Next /\ UNCHANGED <<vars, judging>>

AuthoritySpec == AuthorityInit /\ [][AuthorityNext]_<<part, vars, judging, asking>>

(* The patches are the first two tokens, and time plays no part in them.   *)
PatchFocus == part \in {"patches", "turns"} => prepared[3] = NotPrepared /\ now = 0

(* The tasks, and the registries, differ in nothing but their name.        *)
Symmetry == Permutations(Executors) \cup Permutations(Registries)

=============================================================================
