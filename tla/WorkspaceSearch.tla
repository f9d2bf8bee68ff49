--------------------------- MODULE WorkspaceSearch ---------------------------
(***************************************************************************)
(* workspace.search: walk the tree, read each file, report every           *)
(* occurrence of the query with its line and column.  The searches of a    *)
(* turn run in parallel; each matcher operation is charged to its own      *)
(* limit and to a counter all of them share, and every few operations the  *)
(* cancellation flag and the deadline are sampled.  What a search keeps    *)
(* is a record; one action is what happens between two accesses to the     *)
(* shared counter, the flag or the files.  Offsets count from 0 and        *)
(* sequences from 1.                                                       *)
(***************************************************************************)
EXTENDS Naturals, Sequences, FiniteSets

CONSTANTS
  Searches,      \* the search calls of one turn
  Queries,       \* queries, non-empty sequences of letters
  Contents,      \* what a file may hold
  NL,            \* the line feed
  Tree,          \* entries in walk order: [path, depth, kind]
  MaxFiles, MaxDepth, MaxFileBytes, MaxScanBytes, MaxMatches, MaxOutput,
                 \* WorkspaceToolLimits
  Multiplier,    \* SEARCH_OPERATION_MULTIPLIER
  Interval,      \* SEARCH_CONTROL_CHECK_INTERVAL
  SharedLimit,   \* limit of the turn's SearchOperationBudget
  MaxRewrites    \* writes of other programs (model bound)

VARIABLES
  job,       \* the local state of each search
  used,      \* SearchOperationBudget::operations
  stop,      \* "no", or why the turn's searches have to end
  content,   \* the text of each file
  rewrites,  \* writes of other programs so far
  stopAt     \* history: operations of each search when stop was set

vars == <<job, used, stop, content, rewrites, stopAt>>

Paths == {Tree[n].path : n \in {n \in 1 .. Len(Tree) : Tree[n].kind = "file"}}

NewJob(q) ==
  [pc |-> "start", at |-> "prefix", query |-> q,
   prefix |-> [n \in 1 .. Len(q) |-> 0], index |-> 1, matched |-> 0,
   visited |-> 0, todo |-> {}, path |-> 0, text |-> << >>, offset |-> 0,
   cursor |-> 0, line |-> 1, lineStart |-> 0, out |-> << >>, ops |-> 0,
   nextCheck |-> 0, scanned |-> 0, current |-> 0, result |-> "none",
   read |-> << >>, done |-> 0]

Init ==
  /\ \E q \in [Searches -> Queries] : job = [s \in Searches |-> NewJob(q[s])]
  /\ used = 0 /\ stop = "no"
  /\ content \in [Paths -> Contents]
  /\ rewrites = 0
  /\ stopAt = [s \in Searches |-> 0]

(* derived_search_operation_limit; the daemon narrows it for no call.      *)
OperationLimit(j) == Multiplier * MaxScanBytes + 2 * Len(j.query)

Fail(j, why) == [j EXCEPT !.pc = "end", !.result = why]

(* check_now: the flag and the clock.                                      *)
CheckNow(j) == IF stop = "no" THEN j ELSE Fail(j, stop)

(* progress.step() is about to pay for what happens at `where`.            *)
Pay(j, where) == [j EXCEPT !.pc = "step", !.at = where]

(* search_with_control up to the construction of the matcher.              *)
BuildOrWalk(j) ==
  IF j.index < Len(j.query) THEN Pay(j, "prefix") ELSE [j EXCEPT !.pc = "walk"]

Start(j) == CheckNow(BuildOrWalk(j))

-----------------------------------------------------------------------------
(* The matcher.  LiteralMatcher::new, one round of its loop.               *)
BuildPrefix(j) ==
  LET same == j.query[j.index + 1] = j.query[j.matched + 1]
  IN BuildOrWalk(
       IF same
       THEN [j EXCEPT !.matched = @ + 1, !.prefix[j.index + 1] = j.matched + 1,
                      !.index = @ + 1]
       ELSE IF j.matched > 0 THEN [j EXCEPT !.matched = j.prefix[@]]
       ELSE [j EXCEPT !.index = @ + 1])

Byte(j) == j.text[j.offset + 1]

MatchOffset(j) == j.offset + 1 - Len(j.query)

NextByte(j) ==
  IF j.offset + 1 < Len(j.text) THEN Pay([j EXCEPT !.offset = @ + 1], "byte")
  ELSE [j EXCEPT !.pc = "file", !.path = 0, !.text = << >>]

(* The match is reported and its longest border kept, so that overlapping  *)
(* occurrences are found too.                                              *)
AfterForgetting(j) == 0
After(j) == j.prefix[j.matched]

Report(j) ==
  NextByte([j EXCEPT
    !.out = Append(@, [path |-> j.path, offset |-> MatchOffset(j),
                       line |-> j.line,
                       column |-> MatchOffset(j) - j.lineStart + 1]),
    !.matched = After(j)])

MoveCursor(j) ==
  IF j.cursor < MatchOffset(j) THEN Pay(j, "cursor") ELSE Report(j)

(* The byte is compared with the needle, once the while loop around the    *)
(* fallback has ended; a complete match is first checked against the flag  *)
(* and then against the limit on matches.                                  *)
Compare(j) ==
  IF Byte(j) # j.query[j.matched + 1]
  THEN IF j.matched > 0 THEN Pay(j, "shrink") ELSE NextByte(j)
  ELSE LET k == [j EXCEPT !.matched = @ + 1]
       IN IF k.matched < Len(k.query) THEN NextByte(k)
          ELSE IF stop # "no" THEN Fail(k, stop)
          ELSE IF Len(k.out) >= MaxMatches THEN Fail(k, "matches")
          ELSE MoveCursor(k)

Shrink(j) == Compare([j EXCEPT !.matched = j.prefix[@]])

CountLine(j) ==
  LET newline == j.text[j.cursor + 1] = NL
  IN MoveCursor([j EXCEPT
       !.line = IF newline THEN @ + 1 ELSE @,
       !.lineStart = IF newline THEN j.cursor + 1 ELSE @,
       !.cursor = @ + 1])

(* What the operation just paid for does.                                  *)
Work(j) ==
  LET k == [j EXCEPT !.done = @ + 1]
  IN CASE j.at = "prefix" -> BuildPrefix(k)
       [] j.at = "byte"   -> Compare(k)
       [] j.at = "shrink" -> Shrink(k)
       [] j.at = "cursor" -> CountLine(k)

-----------------------------------------------------------------------------
(* step(): the search's own limit first, then the load of the shared one.  *)
Step(j) ==
  LET k == [j EXCEPT !.ops = @ + 1]
  IN IF k.ops > OperationLimit(j)
     THEN Fail(k, IF stop = "no" THEN "own" ELSE stop)
     ELSE [k EXCEPT !.pc = "charge", !.current = used]

(* The end of step(): sample the controls when it is time.                 *)
Least(a, b) == IF a < b THEN a ELSE b

Due(j) == j.ops >= j.nextCheck

Sample(j) ==
  IF ~Due(j) THEN Work(j)
  ELSE IF stop # "no" THEN Fail(j, stop)
  ELSE Work([j EXCEPT !.nextCheck =
               Least(j.ops + Interval, OperationLimit(j) + 1)])

Put(s, j) == job' = [job EXCEPT ![s] = j]

Begin(s) ==
  /\ job[s].pc = "start"
  /\ Put(s, Start(job[s]))
  /\ UNCHANGED <<used, stop, content, rewrites, stopAt>>

StepLocal(s) ==
  /\ job[s].pc = "step"
  /\ Put(s, Step(job[s]))
  /\ UNCHANGED <<used, stop, content, rewrites, stopAt>>

(* try_consume: one round of the compare-exchange loop.  The exchange may  *)
(* fail although the counter still has the value that was read.            *)
Exhausted(s) ==
  /\ job[s].pc = "charge" /\ job[s].current >= SharedLimit
  /\ Put(s, Fail(job[s], IF stop = "no" THEN "shared" ELSE stop))
  /\ UNCHANGED <<used, stop, content, rewrites, stopAt>>

StoreUnconditionally(s) == job[s].pc = "charge" /\ job[s].current < SharedLimit
MayExchange(s) ==
  job[s].pc = "charge" /\ job[s].current < SharedLimit /\ job[s].current = used

Consume(s) ==
  /\ MayExchange(s)
  /\ used' = job[s].current + 1
  /\ Put(s, Sample(job[s]))
  /\ UNCHANGED <<stop, content, rewrites, stopAt>>

Retry(s) ==
  /\ job[s].pc = "charge" /\ job[s].current < SharedLimit
  /\ Put(s, [job[s] EXCEPT !.current = used])
  /\ UNCHANGED <<used, stop, content, rewrites, stopAt>>

-----------------------------------------------------------------------------
(* collect_files_with_control sorts the files it found by path, which is   *)
(* not the order of the walk: `todo` is their set, taken from in order.    *)
First(files) == CHOOSE f \in files : \A g \in files : f.path <= g.path

(* One entry of the walk.                                                  *)
WalkEntry(j) ==
  LET e == Tree[j.visited + 1]
      k == [j EXCEPT !.visited = @ + 1]
  IN IF e.depth > MaxDepth THEN Fail(j, "depth")
     ELSE IF k.visited > MaxFiles THEN Fail(j, "files")
     ELSE IF e.kind # "file" THEN k
     ELSE [k EXCEPT !.todo =
             @ \cup {[path |-> e.path, bytes |-> Len(content[e.path])]}]

Walk(s) ==
  /\ job[s].pc = "walk"
  /\ Put(s, CheckNow(
       IF job[s].visited < Len(Tree) THEN WalkEntry(job[s])
       ELSE [job[s] EXCEPT !.pc = "file"]))
  /\ UNCHANGED <<used, stop, content, rewrites, stopAt>>

(* The next file: the sizes the walk saw are checked, then what is read.   *)
Scan(j, f, text) ==
  LET k == [j EXCEPT !.todo = @ \ {f}, !.path = f.path,
                     !.text = text, !.scanned = @ + Len(text),
                     !.read = Append(@, [path |-> f.path, text |-> text]),
                     !.matched = 0, !.offset = 0, !.cursor = 0,
                     !.line = 1, !.lineStart = 0]
  IN IF Len(text) < Len(j.query)
     THEN CheckNow([k EXCEPT !.path = 0, !.text = << >>])
     ELSE Pay(k, "byte")

OpenNext(j) ==
  LET f    == First(j.todo)
      text == content[f.path]
  IN IF f.bytes > MaxFileBytes \/ Len(text) > MaxFileBytes THEN Fail(j, "size")
     ELSE IF \/ j.scanned + f.bytes > MaxScanBytes
             \/ j.scanned + Len(text) > MaxScanBytes
     THEN Fail(j, "scan")
     ELSE Scan(j, f, text)

(* The search is over: search_with_control, execute_with_control and       *)
(* enforce_output_limit.                                                   *)
Finish(j) ==
  IF Len(j.out) > MaxOutput THEN Fail(j, "output")
  ELSE [j EXCEPT !.pc = "end", !.result = "ok"]

NextFile(s) ==
  /\ job[s].pc = "file"
  /\ Put(s, CheckNow(IF job[s].todo = {} THEN Finish(job[s])
                     ELSE OpenNext(job[s])))
  /\ UNCHANGED <<used, stop, content, rewrites, stopAt>>

(* An entry cannot be read, or the file was replaced by something else.    *)
Unreadable(s) ==
  /\ \/ job[s].pc = "walk" /\ job[s].visited < Len(Tree)
     \/ job[s].pc = "file" /\ job[s].todo # {}
  /\ Put(s, CheckNow(Fail(job[s], "io")))
  /\ UNCHANGED <<used, stop, content, rewrites, stopAt>>

(* The turn is interrupted, or its deadline passes.                        *)
Stop(why) ==
  /\ stop = "no"
  /\ stop' = why
  /\ stopAt' = [s \in Searches |-> job[s].ops]
  /\ UNCHANGED <<job, used, content, rewrites>>

OtherPrograms(p, text) ==
  /\ rewrites < MaxRewrites /\ text # content[p]
  /\ content' = [content EXCEPT ![p] = text]
  /\ rewrites' = rewrites + 1
  /\ UNCHANGED <<job, used, stop, stopAt>>

Search(s) ==
  \/ Begin(s) \/ StepLocal(s) \/ Exhausted(s) \/ Consume(s) \/ Retry(s)
  \/ Walk(s) \/ NextFile(s) \/ Unreadable(s)

Next ==
  \/ \E s \in Searches : Search(s)
  \/ \E why \in {"cancelled", "deadline"} : Stop(why)
  \/ \E p \in Paths, text \in Contents : OtherPrograms(p, text)
  \/ /\ \A s \in Searches : job[s].pc = "end"
     /\ UNCHANGED vars

Spec == Init /\ [][Next]_vars

-----------------------------------------------------------------------------
(* Where the query occurs, by definition.                                  *)
Lines(text, offset) == {n \in 1 .. offset : text[n] = NL}

Occurrences(r, q) ==
  {[path |-> r.path, offset |-> o,
    line |-> 1 + Cardinality(Lines(r.text, o)),
    column |-> IF Lines(r.text, o) = {} THEN o + 1
               ELSE o + 1 - (CHOOSE n \in Lines(r.text, o) :
                               \A m \in Lines(r.text, o) : m <= n)] :
     o \in {o \in 0 .. Len(r.text) :
              o + Len(q) <= Len(r.text) /\ SubSeq(r.text, o + 1, o + Len(q)) = q}}

Before(a, b) == a.path < b.path \/ (a.path = b.path /\ a.offset < b.offset)

(* A search that succeeds read every regular file of the tree once and     *)
(* reports every occurrence of the query, overlapping ones too, with its   *)
(* line and column, in the order of paths and offsets                      *)
(* (LiteralMatcher::collect, search_with_control).                         *)
MatchesExact ==
  \A s \in Searches :
    LET j == job[s]
    IN j.result = "ok" =>
         /\ {j.read[n].path : n \in 1 .. Len(j.read)} = Paths
         /\ {j.out[n] : n \in 1 .. Len(j.out)} =
              UNION {Occurrences(j.read[n], j.query) : n \in 1 .. Len(j.read)}
         /\ \A m, n \in 1 .. Len(j.out) : m < n => Before(j.out[m], j.out[n])

(* The operations performed so far: the n-th one of search s is <<s, n>>.  *)
Performed == UNION {{s} \X (1 .. job[s].done) : s \in Searches}

(* Whatever the searches of a turn do at the same time, together they      *)
(* perform no more operations than the turn's budget: none is paid for     *)
(* twice and none is free (SearchOperationBudget::try_consume).            *)
BudgetHolds == Cardinality(Performed) <= used /\ used <= SharedLimit

(* The limit derived from the bytes a search may read is never the reason  *)
(* for its failure: prefixes, fallbacks and the counting of lines stay     *)
(* linear (derived_search_operation_limit).                                *)
OwnLimitSuffices == \A s \in Searches : job[s].result # "own"

(* Once the turn is interrupted a search performs fewer than Interval      *)
(* further operations (SearchProgress::step).                              *)
StopIsNoticed ==
  stop # "no" => \A s \in Searches : job[s].done < stopAt[s] + Interval

(* A search keeps within what it was allowed: the budget of its turn, its  *)
(* own limit and the operations left after a stop.                         *)
SearchBounded == BudgetHolds /\ OwnLimitSuffices /\ StopIsNoticed

=============================================================================
