------------------------------- MODULE Access -------------------------------
(***************************************************************************)
(* What a call may reach, and what the workspace tools then do: the policy *)
(* that judges calls, reading and patching a file while other programs     *)
(* rearrange the tree, and searching it.  Policy is extended, the others   *)
(* are instantiated on variables of their own; what they promise is named  *)
(* here for the runs and for the proofs.                                   *)
(***************************************************************************)
EXTENDS Policy

CONSTANTS
  Limit, MaxOther,       \* of WorkspaceFiles
  Searches, Queries, Contents, NL, Tree, MaxFiles, MaxDepth, MaxFileBytes,
  MaxScanBytes, MaxMatches, MaxOutput, Multiplier, Interval, SharedLimit,
  MaxRewrites            \* of WorkspaceSearch

VARIABLES
  entry, root, length, stamp, op, pc, dir, file, meta, got, temp, hosted,
  exposed, strayed, others, looked,
  job, used, stop, content, rewrites, stopAt

Disk == INSTANCE WorkspaceFiles

Find == INSTANCE WorkspaceSearch

-----------------------------------------------------------------------------
(* See WorkspaceFiles: reads stay inside and see one moment.               *)
ReadsOnlyInside == Disk!ReadsOnlyInside

(* See WorkspaceFiles: a patch replaces what it examined or nothing.       *)
PatchAllOrNothing == Disk!PatchAllOrNothing

(* See WorkspaceSearch: the matches are the occurrences.                   *)
MatchesExact == Find!MatchesExact

(* See WorkspaceSearch: limits, budget and stop are respected.             *)
SearchBounded == Find!SearchBounded

=============================================================================
