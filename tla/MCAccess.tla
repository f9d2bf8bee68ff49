------------------------------ MODULE MCAccess ------------------------------
(***************************************************************************)
(* A behaviour is one of the part of Access chosen in the beginning; the   *)
(* state of the others rests.                                              *)
(***************************************************************************)
EXTENDS Access

VARIABLE part

patching == <<entry, root, length, stamp, op, pc, dir, file, meta, got, temp,
              hosted, exposed, strayed, others, looked>>
searching == <<job, used, stop, content, rewrites, stopAt>>

-----------------------------------------------------------------------------
(* Grants and effects that exercise wildcards, nested and disjoint paths,  *)
(* the empty scope, exact names and an expiry.                             *)
GrantNames == {"*", "src", "lib", "host"}

src == <<"src">>
lib == <<"src", "lib">>

MakeGrant(mode, scopes, names, expires) ==
  [mode |-> mode, fs |-> [k \in FsKinds |-> scopes], process |-> mode # Observe,
   exact |-> [k \in ExactKinds |-> names], expires |-> expires]

SomeProfiles ==
  { MakeGrant(Operate, {src}, {"*"}, {}),
    MakeGrant(Build, {lib, <<"lib">>}, {"host"}, {1}),
    MakeGrant(Operate, {Star, src}, {"src", "host"}, {2}),
    MakeGrant(Build, {<< >>}, {}, {}),
    MakeGrant(Observe, {src, lib}, {"host"}, {}),
    MakeGrant(Operate, {}, {"src"}, {}) }

MakeEffects(kind, path) ==
  [fs |-> [k \in FsKinds |-> IF k \in {"read", kind} THEN {path} ELSE {}],
   resolved |-> TRUE, process |-> FALSE, exact |-> [k \in ExactKinds |-> {}]]

SomeRequests ==
  { MakeEffects(kind, path) :
      kind \in FsKinds, path \in {src, lib, <<"lib">>} }
  \cup { [MakeEffects("read", lib) EXCEPT !.process = TRUE],
         [MakeEffects("read", src) EXCEPT !.resolved = FALSE] }
  \cup { [MakeEffects("read", lib) EXCEPT !.exact[k] = {"host"}] :
           k \in ExactKinds }

-----------------------------------------------------------------------------
(* Two files in a tree with a directory and a link, whose walk does not   *)
(* follow the order of paths; texts over two letters and the line feed.    *)
Strings(lo, hi) == UNION {[1 .. n -> {"a", "b"}] : n \in lo .. hi}
SomeQueries == Strings(1, 3)
Texts ==
  {<<>>, <<"b">>, <<"a", "a", "a", "a">>, <<"a", "b", "a", "b", "a">>,
   <<"a", "a", "b", "nl", "a">>, <<"nl", "a", "nl", "b", "a">>,
   <<"a", "a", "a", "b", "a", "a">>}
SmallTree ==
  <<[path |-> 3, depth |-> 1, kind |-> "directory"],
    [path |-> 2, depth |-> 2, kind |-> "file"],
    [path |-> 1, depth |-> 1, kind |-> "file"],
    [path |-> 4, depth |-> 1, kind |-> "link"]>>

(* Either one search of any texts while another program writes, or two     *)
(* searches that share a budget too small for both.                        *)
Query(s) == job[s].query
Searched ==
  /\ part # "searches" => Query("s2") = <<"a">>
  /\ part = "searches" =>
       /\ {Query("s1"), Query("s2")} \subseteq {<<"a">>, <<"a", "b">>}
       /\ content = [p \in {1, 2} |-> IF p = 1 THEN <<"a", "a", "a", "a">>
                                     ELSE <<"a", "b", "a", "b", "a">>]
Rests == IF part = "search" THEN job'["s2"] = job["s2"] ELSE rewrites' = 0

-----------------------------------------------------------------------------
AccessInit ==
  /\ part \in {"policy", "file", "search", "searches"}
  /\ part # "policy" => host = Observe
  /\ Init
  /\ part # "file" => op = "read"
  /\ Disk!Init
  /\ Find!Init
  /\ Searched
  /\ part \in {"policy", "file"} =>
       Query("s1") = <<"a">> /\ content = [p \in {1, 2} |-> << >>]

AccessNext ==
  /\ part' = part
  /\ \/ part = "policy" /\ Next /\ UNCHANGED <<patching, searching>>
     \/ part = "file" /\ Disk!Next /\ UNCHANGED <<vars, searching>>
     \/ /\ part \in {"search", "searches"} /\ Find!Next /\ Rests
        /\ UNCHANGED <<vars, patching>>

AccessSpec == AccessInit /\ [][AccessNext]_<<part, vars, patching, searching>>

=============================================================================
