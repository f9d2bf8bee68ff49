--------------------------- MODULE WorkspaceFiles ---------------------------
(***************************************************************************)
(* Reading and replacing a workspace file while other programs rearrange   *)
(* the tree.  An operation starts from the descriptor of the root that was *)
(* opened with the workspace, walks the components without following       *)
(* links, and checks again and again that what it holds is still what the  *)
(* path names.  The operation here names the file "f" in the directory "a" *)
(* of the workspace; aliases are resolved to such a path first.            *)
(*                                                                         *)
(* Root and Sub are directories of the workspace, Out is one outside of    *)
(* it; in and out are files that begin in Sub and Out.  Other programs     *)
(* link, unlink, rename and write, MaxOther times, in the tree, outside of *)
(* it and in a directory they have moved.  A write or a change of links    *)
(* always changes the time stamps of the file (external); that of a        *)
(* directory above it does not.                                            *)
(***************************************************************************)
EXTENDS Naturals, FiniteSets

CONSTANTS
  Limit,     \* the read limit, in units of what a write adds
  MaxOther   \* steps of other programs (model bound)

VARIABLES
  entry,    \* what each name of each directory is: <<kind, object>>
  root,     \* the directory the workspace's root path names
  length,   \* length of each file; a write adds one
  stamp,    \* mtime and ctime of each file
  op,       \* "read" or "patch"
  pc,       \* the next step
  dir,      \* the parent descriptor
  file,     \* the file descriptor
  meta,     \* what fstat said
  got,      \* lengths seen by the first and the second read
  temp,     \* the directory that holds the temporary file
  hosted,   \* files the tree contained during the operation
  exposed,  \* files that had a path outside since the first fstat
  strayed,  \* whether dir was outside: "no", "walking" before the file was
            \* opened, or "reading", only after that
  others,   \* steps other programs took
  looked    \* how many of them before the last look at the parent

vars == <<entry, root, length, stamp, op, pc, dir, file, meta, got, temp,
          hosted, exposed, strayed, others, looked>>
world == <<entry, root, length, stamp, hosted, exposed, strayed, others>>

Dirs == {"Root", "Sub", "Out"}
Files == {"in", "out", "new"}
EntryNames == {"a", "f", "moved"}
Missing == <<"missing", "none">>
Nowhere == "nowhere"
Base == 0
NoMeta == [object |-> "none", stamp |-> 0, len |-> 0, links |-> 0]

Places(x) == {p \in Dirs \X EntryNames : entry[p[1]][p[2]] = <<"object", x>>}
Links(x) == Cardinality(Places(x))
Attached == entry["Root"]["a"] = <<"object", "Sub">>

(* Whether Sub is outside, and the files with a path in or out of the tree.*)
Outside(e) == e["Out"]["moved"] = <<"object", "Sub">>
Contained(e) == {x \in Files : ~Outside(e) /\ e["Sub"]["f"] = <<"object", x>>}
Exposed(e) ==
  {x \in Files : \/ e["Out"]["f"] = <<"object", x>>
                 \/ Outside(e) /\ e["Sub"]["f"] = <<"object", x>>}

Init ==
  /\ entry = [d \in Dirs |->
                [n \in EntryNames |->
                   CASE d = "Root" /\ n = "a" -> <<"object", "Sub">>
                     [] d = "Sub" /\ n = "f" -> <<"object", "in">>
                     [] d = "Out" /\ n = "f" -> <<"object", "out">>
                     [] OTHER -> Missing]]
  /\ root = "Root"
  /\ length = [x \in Files |-> 0] /\ stamp = [x \in Files |-> 0]
  /\ op \in {"read", "patch"} /\ pc = "resolve"
  /\ dir = Nowhere /\ file = Nowhere /\ meta = NoMeta /\ got = <<0, 0>>
  /\ temp = Nowhere
  /\ hosted = {"in"} /\ exposed = {} /\ strayed = "no" /\ others = 0 /\ looked = 0

-----------------------------------------------------------------------------
(* Steps of the operation.                                                 *)

Goto(step) == pc' = step
Held == <<dir, file, meta, got, looked>>

Error ==
  /\ Goto("error") /\ temp' = Nowhere
  /\ UNCHANGED <<world, op, Held>>

LiveIdentity == root = "Root"

(* revalidate_identity between two steps.                                  *)
Revalidate(from, to) ==
  /\ pc = from
  /\ \/ LiveIdentity /\ Goto(to) /\ UNCHANGED <<world, op, Held, temp>>
     \/ ~LiveIdentity /\ Error

(* resolve_existing: canonicalize follows links; the result must lie below *)
(* the root.                                                               *)
Resolve ==
  /\ pc = "canonicalize"
  /\ LET a == entry[root]["a"]
         f == IF a[2] \in Dirs THEN entry[a[2]]["f"] ELSE Missing
     IN \/ /\ a = <<"object", "Sub">> /\ f[1] = "object"
           /\ Goto("resolved")
           /\ UNCHANGED <<world, op, Held, temp>>
        \/ ~(a = <<"object", "Sub">> /\ f[1] = "object") /\ Error

(* open_relative_nofollow, the directory and then the file.                *)
OpenedFollowing(d, n) == entry[d][n][2]
Opened(d, n) == IF entry[d][n][1] = "object" THEN entry[d][n][2] ELSE "none"

OpenDirectory ==
  /\ pc = "open_dir"
  /\ LET d == Opened("Root", "a")
     IN \/ d \in Dirs /\ dir' = d /\ Goto("open_file")
           /\ UNCHANGED <<world, op, file, meta, got, looked, temp>>
        \/ d \notin Dirs /\ Error

Fstat(x) ==
  [object |-> x, stamp |-> stamp[x], len |-> length[x], links |-> Links(x)]

(* The open and its fstat; a regular file with a single link is needed.    *)
EnsureSingleLink(m) == m.links <= 1

OpenFile ==
  /\ pc = "open_file"
  /\ LET x == Opened(dir, "f")
     IN \/ /\ x \in Files /\ EnsureSingleLink(Fstat(x))
           /\ file' = x /\ meta' = Fstat(x)
           /\ exposed' = Exposed(entry)
           /\ Goto("opened")
           /\ UNCHANGED <<entry, root, length, stamp, hosted, strayed, others, op,
                          dir, got, looked, temp>>
        \/ ~(x \in Files /\ EnsureSingleLink(Fstat(x))) /\ Error

CheckLimit ==
  /\ pc = "limit"
  /\ \/ meta.len <= Limit /\ Goto("read1") /\ UNCHANGED <<world, op, Held, temp>>
     \/ meta.len > Limit /\ Error

(* The content is read in two pieces; a read takes at most one byte more   *)
(* than the limit.                                                         *)
ReadPart(n, to) ==
  /\ got' = [got EXCEPT ![n] = length[file]]
  /\ Goto(to)
  /\ UNCHANGED <<world, op, dir, file, meta, looked, temp>>
Read1 == pc = "read1" /\ ReadPart(1, "read2")
Read2 ==
  pc = "read2" /\ ReadPart(2, IF op = "read" THEN "bounded" ELSE "fstat")
Bounded ==
  /\ pc = "bounded"
  /\ \/ got[2] <= Limit /\ Goto("fstat") /\ UNCHANGED <<world, op, Held, temp>>
     \/ got[2] > Limit /\ Error

(* ensure_file_identity_unchanged.                                         *)
Unchanged(m, now) == m = now /\ EnsureSingleLink(now)

(* A patch compares the digest with its base revision as well.             *)
Acceptable ==
  Unchanged(meta, Fstat(file)) /\ (op = "patch" => got[2] = Base)

EnsureUnchanged ==
  /\ pc = "fstat"
  /\ \/ /\ Acceptable
        /\ Goto(IF op = "read" THEN "last"
                ELSE IF temp = Nowhere THEN "temp" ELSE "prepublish")
        /\ UNCHANGED <<world, op, Held, temp>>
     \/ ~Acceptable /\ Error

(* apply_patch_dirfd: write the new file beside the old one, then look at  *)
(* root, parent and target once more.                                      *)
CreateTemp ==
  /\ pc = "temp"
  /\ temp' = dir
  /\ Goto("synced")
  /\ UNCHANGED <<world, op, Held>>

ParentTrusted ==
  /\ pc = "parent"
  /\ looked' = others
  /\ Goto("again")
  /\ UNCHANGED <<world, op, dir, file, meta, got, temp>>
VerifyParentDescriptor ==
  /\ pc = "parent"
  /\ \/ /\ Opened("Root", "a") = dir
        /\ looked' = others
        /\ Goto("again")
        /\ UNCHANGED <<world, op, dir, file, meta, got, temp>>
     \/ Opened("Root", "a") # dir /\ Error

OpenAgain ==
  /\ pc = "again"
  /\ LET x == Opened(dir, "f")
     IN \/ /\ x = file /\ EnsureSingleLink(Fstat(x))
           /\ meta' = Fstat(x) /\ Goto("read1")
           /\ UNCHANGED <<world, op, dir, file, got, looked, temp>>
        \/ ~(x = file /\ EnsureSingleLink(Fstat(x))) /\ Error

Publish ==
  /\ pc = "publish"
  /\ entry' = [entry EXCEPT ![dir]["f"] = <<"object", "new">>]
  /\ temp' = Nowhere
  /\ Goto("published")
  /\ UNCHANGED <<root, length, stamp, hosted, exposed, strayed, others, op, Held>>

Return ==
  /\ pc = "published"
  /\ Goto("done")
  /\ UNCHANGED <<world, op, Held, temp>>

Operation ==
  \/ Revalidate("resolve", "canonicalize") \/ Resolve
  \/ Revalidate("resolved", "open_dir") \/ OpenDirectory \/ OpenFile
  \/ Revalidate("opened", IF op = "read" THEN "limit" ELSE "read1")
  \/ CheckLimit \/ Read1 \/ Read2 \/ Bounded \/ EnsureUnchanged
  \/ Revalidate("last", "done")
  \/ CreateTemp \/ Revalidate("synced", "parent") \/ VerifyParentDescriptor
  \/ OpenAgain \/ Revalidate("prepublish", "publish") \/ Publish \/ Return

-----------------------------------------------------------------------------
(* Other programs.                                                         *)

Touch(S) == stamp' = [x \in Files |-> IF x \in S THEN stamp[x] + 1 ELSE stamp[x]]
Named(e, d, n) == e[d][n][2]

(* The directory is renamed, inside the tree, out of it or back; where it  *)
(* was, a link may take its place.                                         *)
MoveDirectory ==
  /\ \E to \in {<<"Root", "a">>, <<"Root", "moved">>, <<"Out", "moved">>},
        left \in {Missing, <<"link", "Out">>} :
       entry' = [d \in Dirs |->
                   [n \in EntryNames |->
                      CASE <<d, n>> = to -> <<"object", "Sub">>
                        [] <<d, n>> # to /\ <<d, n>> = <<"Root", "a">> -> left
                        [] <<d, n>> # to /\ n = "moved" -> Missing
                        [] OTHER -> entry[d][n]]]
  /\ UNCHANGED <<root, length, stamp>>

(* The file entry: gone, a link, a second name of the file outside, or     *)
(* that file itself; and a second name of the file inside.                 *)
MoveFile ==
  /\ \/ entry' = [entry EXCEPT !["Sub"]["f"] = Missing]
     \/ entry' = [entry EXCEPT !["Sub"]["f"] = <<"link", "out">>]
     \/ entry' = [entry EXCEPT !["Sub"]["f"] = entry["Out"]["f"]]
     \/ entry' = [entry EXCEPT !["Sub"]["f"] = entry["Out"]["f"],
                               !["Out"]["f"] = Missing]
     \/ entry' = [entry EXCEPT !["Out"]["f"] = entry["Sub"]["f"]]
     \/ entry' = [entry EXCEPT !["Out"]["f"] = Missing]
  /\ Touch({x \in Files : \E d \in {"Sub", "Out"} :
                            /\ entry[d]["f"] # entry'[d]["f"]
                            /\ x \in {Named(entry, d, "f"), Named(entry', d, "f")}})
  /\ UNCHANGED <<root, length>>

MoveRoot ==
  /\ root' = IF root = "Root" THEN "Out" ELSE "Root"
  /\ UNCHANGED <<entry, length, stamp>>

Write(x) ==
  /\ length' = [length EXCEPT ![x] = @ + 1]
  /\ Touch({x})
  /\ UNCHANGED <<entry, root>>

OtherPrograms ==
  /\ others < MaxOther /\ others' = others + 1
  /\ pc \notin {"done", "error"}
  /\ \/ MoveDirectory \/ MoveFile \/ MoveRoot
     \/ \E x \in {"in", "out"} : Write(x)
  /\ hosted' = hosted \cup Contained(entry')
  /\ exposed' = exposed \cup Exposed(entry')
  /\ strayed' = IF ~Outside(entry') \/ dir = Nowhere THEN strayed
                ELSE IF file = Nowhere THEN "walking"
                ELSE IF strayed = "no" THEN "reading" ELSE strayed
  /\ UNCHANGED <<op, pc, Held, temp>>

Next == Operation \/ OtherPrograms
Spec == Init /\ [][Next]_vars

-----------------------------------------------------------------------------
(* What a read returns is the content the file had when it was opened,     *)
(* within the limit, and the file has no entry of its own outside.  It was *)
(* in the tree, unless its directory was moved out between the opens of    *)
(* the two, and no path led to it from outside until the last look, unless *)
(* its directory was moved out at all: a read does not look at the         *)
(* directory again.  No link, hard link, moved root or concurrent write    *)
(* shows through (read_limited, open_relative_nofollow,                    *)
(* ensure_file_identity_unchanged).                                        *)
ReadsOnlyInside ==
  [][pc = "fstat" /\ pc' = "last" =>
       /\ got[1] = got[2] /\ got[1] = meta.len /\ got[2] <= Limit
       /\ \A p \in Places(file) : p[1] = "Sub"
       /\ file \notin hosted => strayed = "walking"
       /\ file \in exposed => strayed # "no"]_vars

(* A patch is published in the directory that it examined, and unless      *)
(* another program acted after the last look at the parent, the boundary   *)
(* the module's documentation admits, that directory is in its place in    *)
(* the tree and what is replaced is the file it examined with the content  *)
(* it was made for (apply_patch_dirfd_observed).                           *)
ReplacesWhatItSaw ==
  [][pc = "publish" /\ pc' = "published" =>
       /\ dir = "Sub"
       /\ others = looked =>
            /\ Attached /\ file \in hosted
            /\ entry[dir]["f"] = <<"object", file>> /\ length[file] = Base
    ]_vars

(* No temporary file outlives its operation, wherever its directory was    *)
(* moved meanwhile (DirectoryTempFile::drop).                              *)
NoDebris == pc \in {"done", "error"} => temp = Nowhere

(* A patch replaces what it examined or nothing, and leaves nothing else   *)
(* behind.                                                                 *)
PatchAllOrNothing == ReplacesWhatItSaw /\ []NoDebris

=============================================================================
