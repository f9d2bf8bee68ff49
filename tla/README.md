# TLA+ models of the YeuX Harness daemon

YeuX Harness is an agent runtime: a Rust daemon (`yeuxd`) keeps every fact in an
append-only SQLite event ledger, runs model turns in background tasks, lets the
model call tools under a capability policy, and serves clients over JSON-RPC.
The models here cover the parts whose correctness depends on the *order* of
things: who wins the mutation gate, what is durable when the process dies, what
a retry meets, and what a client can observe. Paths below are relative to
`src/crates/` of the repository.

## 1. Inventory of the system

| Part | State | Operations | Correct when |
|---|---|---|---|
| Turn runner (`yeuxd/src/runner.rs`) | durable turn and invocation states; per run: batch records, cancellation flag, round and call counters; worker semaphore | load, build context, request model, stream, propose, authorize, start workers, integrate, settle | ledger claims only what is known; every turn ends; no tool runs twice |
| Lifecycles and projection (`yeux-core/src/agent.rs`, `invocation.rs`, `projection.rs`) | state rebuilt from events | `can_transition_*`, `Projection::apply` | no committed event is rejected on replay |
| Control plane (`yeuxd/src/commands.rs`) | none of its own; the command gate | workspace, thread, turn, invocation, job commands | one live turn per thread; a command takes effect once |
| Restart recovery (`yeuxd/src/server.rs`, `recover_interrupted_turns`) | none of its own | settle invocations, fail turns | restartable; never re-executes, never invents an outcome |
| Ledger (`yeux-runtime/src/ledger.rs`) | events with per-thread `seq` and global order, command receipts | append, batch, checked invocation appends, receipts, import, replay | dense numbering, append-only, atomic pairs, idempotent retries |
| Connections (`yeuxd/src/server.rs`) | subscriptions, replay window, bounded broadcast receiver, pending approvals | subscribe, replay, forward, close on lag or gap, approval round trip | each client sees each thread exactly once, in order |
| Policy (`yeux-core/src/policy.rs`, `yeuxd/src/grants.rs`) | host mode, workspace trust, layers of a turn | resolve layers, intersect, evaluate | a call passes iff each layer would let it pass |
| Authority pipeline (`yeuxd/src/pipeline.rs`, `yeux-core/src/approval.rs`) | issued and consumed tokens with expiry | prepare, approve, execute, prune | a token executes once, approved, unexpired, unchanged |
| Tool registry and adapters (`yeuxd/src/tools.rs`, `tool_calls.rs`) | sealed plans, assembly buffers | plan, execute, assemble streamed calls | arguments executed are the ones judged |
| Workspace tools (`yeux-runtime/src/workspace*.rs`, `descriptors.rs`) | files through held descriptors | read, search, patch | no write outside the root or over a changed base |
| Processes and sandbox (`process.rs`, `sandbox.rs`) | executor mutex, process-group guard, output buffers | spawn, wait, time out, kill the group, reap, drain | kills only its own; reports what happened; always ends |
| Provider (`provider.rs`) | SSE buffer, call ids, redaction state per field (text, reasoning, provider index) | decode, parse, assemble, redact | chunks are invisible; only whole answers count; no field shows the credential |
| Artifacts (`artifact.rs`) | files under their digest | put, verify, read | a name leads to whole content |
| Frames and commands (`server.rs`, `commands.rs`) | partial line, initialized, receipts | read frame, check, dispatch, record, launch, respond | nothing read is lost; an accepted turn runs once |
| Daemon start (`main.rs`, `server.rs`) | owner lock, socket path | lock, recover, bind, clean up | one owner; the socket leads to it |
| Credentials | I/O | look up | – |
| TUI, protocol package, plugin host (`packages/`) | client side | – | – |

**How the parts interact.** A command is dispatched under the *command gate*, a
mutex the runner also takes (as `mutation_gate`) around every ledger write. Under
it events are committed together with the command's receipt and then broadcast.
`turn/start` commits `accepted`; only after the gate is released does
`launch_turn` register a cancellation flag and spawn the runner. `turn/interrupt`
commits `cancelling` and raises that flag. The runner checks the flag at
scattered points, re-reads the durable state under the gate in every helper, and
always ends with a settlement pass. Tool workers run outside the gate and may
outlive the turn that started them. After a restart recovery settles whatever
was open before the daemon serves again. A connection task replays the ledger up
to the end it saw under the gate and then forwards broadcast events.

**What is hard.** Interrupts between any two steps of the runner, and before it
has a flag at all; deadlines that expire while the worker is about to finish;
one result of a batch breaking the budget while its siblings run; crashes inside
settlement and inside recovery; ledger errors that abort a runner; two writers
settling one invocation; lost acknowledgements and reused ids; a slow reader that
overflows its buffer; asymmetric cases in scope intersection; answers that cross,
repeat or come late; forks cut in the middle of a turn; directories and links
that other programs exchange between a check and a use; bytes that arrive in any
pieces; process numbers that are reused; and power failures between the steps of a
write. The `hazards` of `PROJECT.json` list these with their lines.

## 2. Modules

| Module | Models | Uses |
|---|---|---|
| `Lifecycles` | the transition relations of turns and invocations | – |
| `TurnRunner` | one thread: turn commands, runner, workers, crash, recovery | `Lifecycles`, instance of `TurnContract` |
| `TurnContract` | abstract specification of what a thread promises | – |
| `TurnRunnerProofs` | theorems about the two | `TurnRunner`, TLAPS |
| `Ledger` | events, checked appends, receipts | `Lifecycles` |
| `EventStream` | commit, broadcast, replay, reconnect | – |
| `ApprovalChannel` | approval requests of a connection and their answers | – |
| `Connection` | framing, command checks, receipts, launch | – |
| `Startup` | processes on a state directory and a socket path | – |
| `Authority` | prepared tokens from preparation to publication | – |
| `ToolRegistry` | planning, revalidating and executing a call | – |
| `Policy` | grants, intersection, evaluation | – |
| `Projection` | what `Projection::apply` accepts | `Lifecycles` |
| `Threads` | fork, steer, archive, reconcile and the model's context | – |
| `Workspaces` | records, trust, jobs and the tools a turn is offered | – |
| `WorkspaceFiles`, `WorkspaceSearch` | reading and patching one file; searching a tree | – |
| `Process` | supervision of a child process | – |
| `ModelStream`, `Redactor` | decoding a response; taking the credential out of it | – |
| `Artifacts` | the content-addressed store | – |
| `Durability` | the promises of storing, repeating and starting | `Ledger`, instances of `Artifacts`, `Connection`, `Startup` |
| `History` | the promises of threads and of a replayed history | `Threads`, instance of `Projection` |
| `Authorization` | the promises from a verdict to the effect | `Authority`, instances of `ToolRegistry`, `ApprovalChannel` |
| `Access` | the promises about grants, files and searches | `Policy`, instances of `WorkspaceFiles`, `WorkspaceSearch` |
| `Processes` | the promises of supervision | instance of `Process` |
| `Decoding` | the promises about a provider's output | `ModelStream`, instance of `Redactor` |
| `DurabilityProofs`, `HistoryProofs`, `AuthorityProofs`, `AccessProofs` | theorems about the compositions | `Durability`, `History`, `Authorization`, `Access`; TLAPS |
| `ServingProofs` | theorem about events | `EventStream`, TLAPS |
| `ExecutionProofs` | theorems about trust and processes | `Workspaces`, `Processes`, TLAPS |
| `DecodingProofs` | theorems about responses and redaction | `Decoding`, TLAPS |
| `MCDurability`, `MCServing`, `MCAuthority`, `MCHistory`, `MCDecoding`, `MCAccess`, `MCExecution` | instances for TLC | the above |

`Durability`, `History`, `Authorization`, `Access`, `Processes` and `Decoding` put components
side by side, each on variables of its own, and name what each of them promises. An
`MC` module and a proof module extend the same composition, so a theorem states the
very definition that a run checks.

The `MC` modules put several components into one run. Where components share no
state, a behaviour belongs to the `part` chosen in its initial state and the
variables of the others rest in one initial state. This is a disjoint sum: each
property is checked on exactly the states a run of its own component would have,
and no product of unrelated state spaces is built.

### TurnRunner

*Durable* state is what the ledger projects to: `turn`, `inv` (invocation
`<<t, k>>` is the k-th call of turn t), `result` (polarity of the newest
ToolResult) and `reviewed` (operator reconciliation). *Volatile* state dies with
the process: `pc` (where the runner is), `step` (its `PendingToolInvocation`
records, whose Boolean fields exclude each other and become one value), `flag`
(the entry in `active_turns`) and `rounds`. `world` is what really happened to a
tool; no action of the daemon reads it except through what a worker reports, and
it exists so that properties can compare claims with facts.

One action is one section under the gate, or one await. Consequences worth
knowing when reading it:

* `TurnStart` and `LaunchTurn` are two actions, because the flag is registered
  after the gate is released.
* `Transition`, `FailTurn`, `FailCurrent` and `CancelTurn` are the helpers
  `transition`, `fail`, `fail_current` and `cancel_locked`; each re-reads the
  durable state, and a state that is not the expected one sends the runner to
  settlement.
* A check of the flag and the following gated write are one action. An interrupt
  commits `cancelling` and raises the flag together, so a check that missed the
  flag is a check made before it, and the gated write then meets `cancelling`;
  both orders are reachable because the flag never *forces* an alternative.
* `PersistStarted` and `SpawnWorker` are separate: a crash may come between the
  durable `started` and the spawn, and then nothing ran.
* `Integrate` records what `wait_for_tool_worker` saw. A call whose worker is
  still running gets `unknown`: that is the deadline or the end of the grace
  period. `FinishWorker` may follow, which is also what a `select!` amounts to
  that picks the deadline although the worker has just finished.
* `SettleInvocation` commits one invocation at a time while the gate is held
  (`GateFree`), and a crash may come between any two.
* `RunnerFault` is a ledger or I/O error in any step. The launcher only logs it.
* Worker permits are daemon-wide and the search slot is shared in a workspace,
  so `KeepBack` may refuse a call at any time (other threads hold permits), and
  `PersistStarted` needs a permit that no *running* worker holds, abandoned ones
  included.
* Approved verdicts, provider outcomes, budgets and plan failures are
  nondeterministic. What the turn's items say, steering included, is the subject
  of `Threads`.

`TurnContract` is the view of a client: a turn is idle, open, stopping or closed,
a call absent, waiting, running, unresolved or settled. It has ten lines of rules:
one live turn; none while something is unresolved; nothing starts once the turn
was asked to stop; no turn closes over waiting or running calls; only a review
settles the unresolved. `TurnRunner` implements it under the mapping `PhaseOf` /
`CallOf`.

### Ledger

Each public operation of `EventLedger` is one immediate transaction under the
connection mutex and therefore one action. The invocation under study lives on
`Home`; `Writers` settle it without a common lock (the ledger must be safe on its
own; the daemon's gate is not assumed). Each writer has its own event ids and may
submit them again with the same or with another outcome. `acked` and `answered`
remember what the last operation told its caller, so that "reported as committed"
can be compared with the table. Commands create fresh event ids on each attempt,
as the daemon does. `MaxOrder` plays i64::MAX.

### EventStream

A commit and its broadcast hold the gate (`GateFree`); the daemon may crash in
between. The receiver keeps `Buffer` events and loses the oldest. `Subscribe`
reads the end of the thread under the gate, stores it as the subscription and
opens the replay window; while the window is written the loop reads nothing else,
so live events pile up in the receiver. The client (external) follows the
diagnostics: it reconnects and subscribes after the last event it received.

### Authority

`prepared` is the value `prepare` returned (its time and the file it was planned
on), `issued` and `consumed` are the two maps of `InvocationPipeline`, `approved`
says of which tokens an approved clone exists, and `call[e]` is where task e is
in `execute`. Every turn has a pipeline and opens the workspace for itself
(`TurnOf`): its two maps are its own, and so is the `mutation_gate`, which clones of
one open `Workspace` share (`SameGate`). The checks at the beginning (`BeginExecute`), the two looks at the
file (`Plan`, `Revalidate`), the locked check-and-insert (`Consume`) and the steps
of a publication (`Locate`, `OpenBase`, `Verify`, `Publish`) are separate actions:
time passes, other tasks run and other programs write (`Edit`) between them. A
file is an inode with a content; inodes are reused. `Return` is every later error
and the end of a process or a read. `permits` and `evicted` are history.
`Refuse` is a call that fails its first checks, of which only the pruning remains.
Invocations are presented as `prepare` returned them (the runner keeps them in
memory and a client supplies a verdict only), so the digests that would detect an
altered one are equal here.

What the gate does is visible in the model. Patches of one turn exclude each other
from opening the base to the rename, so the later one meets the changed base.
Patches of two turns do not: the last look of one may precede the rename of the
other, exactly as with a program outside the daemon. `raced` marks a call after
whose last look such a write happened, and `NoBlindOverwrite` states it as its
exception.

`MaxStall` bounds the time from the expiry check to the consumption, during which
`execute` waits for the file system and two short locks only. Single use depends
on it: expiry is checked at the beginning and not again, and the record of a use
is pruned after two lifetimes, so an execution that stalled for more than one
lifetime could use its token a second time. The second limit is capacity: a full
`consumed_tokens` drops its oldest entry although that token may still be valid,
and the model reaches states in which such a token is used twice. The daemon does
not get there, since each turn has its own pipeline and a turn makes at most 128
calls while the map holds 4096.

### ToolRegistry

A call is proposed, planned (normalized arguments and concrete effects, which are
persisted and perhaps shown for approval), revalidated against the tree as it is
then, compared with what was persisted, turned into a permit and executed. Both ways
to a permit plan a second time (`PlanAgain`): a bound read in whatever registry it
comes to, a pipeline in its own. `Execute` resolves the name once more, as the
adapters do (`read_limited`, `resolve_directory`, `validate_executable`,
`resolve_expected`), and `ran` is what it finds then; only a patch insists that it is
the path it was given. `world` says what a name resolves to and
`Relink` (external) changes it between any two steps. A name replaced after the
revalidation (`raced`) may therefore lead a read or an executable elsewhere than was
judged; what is read is still inside the workspace. Paths are sequences of
components; the seal that ties a plan to its registry is the registry's identity.
JSON schemas and argument syntax are left out.

### ApprovalChannel

`queue` is the bounded mpsc channel, `pending` the map from ids to reply ends,
`prompts` and `frames` the two directions of the connection. A frame that names no
outstanding id denies everything outstanding (`Handle`), and so does the end of the
connection, wherever a request is at that moment. Ids are not wrapped: a
connection would need 2^64 prompts. The client is external; it answers what it was
asked and sends up to `MaxStray` frames it should not.

### Policy

Grants are records of path-scope sets, exact-scope sets, a mode, a process bit and
an optional expiry; a path is the sequence of its components. `IntersectTwo` and
`EvaluatePolicy` are the operators of `policy.rs`, `ResolveGrantLayers` that of
`grants.rs`. The state machine loads a turn (layers are resolved once, from the
trust of that moment), changes trust, lets time pass and judges calls.

### Projection, Threads

`Projection` offers *any* event over small sets of ids; an action is an event
`apply` accepts, its guard the checks of the match arm. A rejected event ends the
replay and is no step. The event of a new thread carries its status, and `apply`
inserts it as it is: this daemon writes idle threads, an import may say anything, so
`StatusTellsTruth` says what "active" means only once a thread has had a turn.
`Threads` keeps one log entry per committed batch and
models the commands (`thread/start`, `fork`, `archive`, `turn/start`, `steer`,
`invocation/reconcile`) together with the points where the runner
reloads its lineage and builds messages. `snapshot` is history: the parent's
context at the moment of the fork.

### Workspaces

A record is bound to the canonical root and the inode found there; the digest of
the code is that identity, and an inode is not reused (external). `disk` changes
under the daemon. `Ready` is what `initialize` announces, from the host ceiling, the
probed sandbox and the provider; `BuildContext` derives the tools of a turn by its own
computation (`Registry`). Neither asks for trust, see section 6.

### WorkspaceFiles, WorkspaceSearch

`WorkspaceFiles` is one read or patch of `a/f`, one directory level deep, with a
step per system call: open the parent component by component, fstat, read, look
again, write a temporary file, verify the parent, rename. Other programs act
`MaxOther` times in between: they rename the directory within the tree, out of it and
back, put links in its place, link, unlink and replace the file, also while its
directory is outside, move the root and write. A write or a change of the file's own
links changes its time stamps; moving the directory above it does not. `hosted` are
the files the tree has contained, `exposed` those with a path outside, directly or
through the moved directory, and `strayed` says whether the held directory was
outside: between the two opens ("walking") or only later ("reading"). A patch looks at
its parent again; a read does not, and its property names these two cases.
`WorkspaceSearch` is the walk and the Knuth-Morris-Pratt matcher, one
action for what happens between two accesses to the shared counter, the stop flag
or the files; its result is compared with the plain definition of an occurrence.

### Process

The guard, the mutex, the two ways of waiting, the pipe and the process table.
Standard output and error are one pipe. Numbers are reused by other programs as
soon as the table has freed them. A future may be dropped at every await. The
target and its descendants are external and may do what the operating system
lets them: fork, leave the group, keep the pipe, never end.

### ModelStream, Redactor

A response is a sequence of tokens, two per payload so that it can be cut inside;
every payload ends its lines in LF or in CRLF; the connection may end at every token,
or fail with a transport error (`Disconnect`), and
chunks have any size up to `MaxChunk`. `drain` looks for LF LF in the whole buffer
before it looks for CR LF CR LF. In a body that mixes the two, one chunk may therefore
join two payloads into one block, which is no JSON, where two chunks give two
events: the verdict depends on the chunks, and `ChunkingInvisible` promises it only
for bodies of one style. In every body what is accepted is right. The decoder, `parse_chunk`, the assembler
and the runner's completion rules follow the code; the reference decodes the whole
body at once.

`Redactor` is the streaming matcher with its prefix table, one state
per field (text, reasoning, each provider index), compared with a replacement in the
complete output of the field. A completion closes every field, and deltas after it
are redacted afresh. The consumer joins text and reasoning as they are and arguments
by the call id of the delta (`joined`); the provider decides which ids come under
which index (`KeysOf`). The promises are therefore per field, and for what is joined
under an id as long as id and index only ever come together (`Alone`); for an id under
two indices, or two ids under one, nothing is promised about the joined text. The loops of the
code (over blocks, events, bytes, and the fallback of the matcher) are recursive
functions of the number of rounds, as in `WorkspaceSearch` and `Threads`.

### Connection, Startup, Artifacts

A line in `Connection` is n tokens and a newline; whether it is a JSON envelope is
part of its kind. `read_frame` keeps a partial line when a notification interrupts
it. The path of `turn/start` from the receipt look-up over dispatch and launch to
the response is modelled with breaking connections, repetition on another
connection and restarts. After dispatch the receipt is recorded a second time; if
that write fails the client gets an error and the accepted turn is not launched
before the next restart closes it. `lost` marks this case, and `AcceptedTurnRuns`
states it as its exception.

`Startup` has the steps of `open_with`, `serve_unix` and the socket clean-up. flock
and connect are external. Two daemons with *different* state directories and the
same socket path hold different locks and can take the path from each other, so
`ServingIsReachable` is stated for one state directory.

`Artifacts` distinguishes volatile and durable names and directories; a power
failure keeps what was synced and any part of the rest.

## 3. Runs

| Run | Question | Bounds |
|---|---|---|
| `turn_safety` | Safety of the runner with interrupts, timeouts, budget breaks, a crash and recovery | 2 turns, 2 calls each, 1 round, 1 worker slot, 1 crash |
| `turn_liveness` | Does every accepted turn end, is the contract kept, and does a restart repair what an I/O error left? | 2 turns, 1 call, 2 rounds, 1 crash, 1 error |
| `interrupt_outcome` | Does an interrupt end as the protocol document says? (violated, see 6) | 1 turn, 1 call |
| `fork_unknown` | Is an unknown result ever fed to the model? (violated, see 6) | 2 threads, 1 turn each, 9 entries |
| `tools_offered` | Are tools with effects offered under trust only? (violated, see 6) | 2 paths, 2 directories, 1 record, 1 job |
| `durability` | What is left after crashes, power failures, retries and restarts | ledger: 2 threads, 2 writers, 1 command with 2 inputs, 9 rows; artifacts: 2 writers, 2 digests, 1 power failure; repetition: 2 connections with 2 lines; framing: 1 connection, 3 lines, limit 2; 3 processes, 1 or 2 directories |
| `serving` | Exactly-once delivery, catching up, answered approvals, calls that end | 2 threads, 3 events each, buffer 2, page 2, 1 break or crash; 2 requests, 1 slot, 1 stray frame; 2 strict and isolated process calls, 2 process numbers |
| `authority` | Tokens, patches, plans and verdicts | 3 tokens (1 read), maps of 2, lifetime and stall 2, clock to 4, 2 tasks; 2 patches of one turn or of two, 3 contents, 2 inodes; 2 registries, 6 tools, 4 names, 2 relinks; 3 requests, 1 slot, 1 stray frame |
| `history` | What histories and contexts are possible | 2 threads, 2 turns, 1 invocation of any events; 3 threads, 2 turns and 1 steering each, 9 entries |
| `decoding` | Do pieces matter? | bodies of 2 out of 13 payloads, of 3 that close or call once too often, in either style, of 5 payloads in every mixture, every cut, chunks of 5 tokens, a buffer of 9; credentials of 3 over 2 letters, 2 indices with an output of 5, 2 call ids |
| `access` | Is the intersection exact; do reads, patches and searches stay where they belong? | 6 profiles, 14 effect sets, 3 host modes; 5 steps of other programs; 14 queries, 7 texts, 1 rewrite; 2 searches with a budget for one |
| `execution` | Does trust stay with what was trusted? Does supervision strike and report correctly? | 2 paths, 2 directories, 2 records, 1 job; 1 call with 2 bytes, strict or not, isolated or not; 2 strict and isolated calls; 2 process numbers |

What the runs check:

* `turn_safety` – **TerminalTurnSettled**: a terminal turn has no open
  invocation, a clean one no unknown. **EvidenceBacked**: a claim of success or
  failure is true unless an operator made it. **LiveTurnHasRunner**: no order of
  launch, interrupt and settlement loses a turn. **NeverReexecuted**: a tool runs
  once, after its durable `started`.
* `turn_liveness` – **TurnsEnd** (unless an I/O error aborted a runner),
  **RestartRepairs** (then the next restart closes it), **ImplementsContract**.
* `durability` – **HistoryReplays**: racing writers leave a history the lifecycle
  accepts. **PrefixSafe**: no prefix shows a terminal state without its result.
  **AckedIsStored**: what was reported as committed is in the table as submitted.
  **CommandAppliedOnce**: a repeated command has one effect and one answer, and an
  id used for other parameters is refused. **StoredIsWhole**, **AcceptedTurnRuns**,
  **FramingInvisible** (where a line is cut into pieces, and which notification
  interrupts its reading, does not show), **ServingIsReachable**,
  **RecoversTheDeadOnly**.
* `serving` – **ExactlyOnceInOrder**, **CatchesUp** (a client that reconnects has
  everything in the end), **EveryRequestAnswered** (this discharges the
  assumption of `TurnRunner` that an approval is answered), **EveryCallEnds**: no
  target keeps the executor's mutex for ever; the calls are strict and isolated, as
  every call of the daemon is, and the second waits for the first.
* `authority` – **SingleUse**; **NoBlindOverwrite**: a patch about to be renamed
  into place replaces the content it was reviewed against, with one exception, a
  write after the last check by somebody who does not share the gate: an outside
  program, as `docs/ARCHITECTURE.md` states, or another turn;
  **ExecutedAsJudged**: the effects executed are those proposed, within the
  tool's template, by the registry that planned them, up to a name replaced after
  the revalidation, and for patches without that exception; **VerdictIsTheClients**: an
  approval is always the client's for that request, a denial is its own while it
  keeps to the protocol.
* `history` – **StatusTellsTruth**, **InheritsSnapshot**, **RequestsPaired**: a
  request has every call with its settled result if fork points lie between turns
  and after reviews; **SteersReachModel**.
* `decoding` – **ChunkingInvisible**: what is accepted depends on the bytes that arrived,
  not on the chunks, and with one style of line ends so does the verdict;
  **AcceptedIsWhole**: no broken or contradictory response is acted
  on; **RedactionExact**: exactly the credential is taken out of each field.
* `access` – **DecisionIsMeet**; **ReadsOnlyInside**: a read returns one moment of a file
  that was in the tree and had no path outside, unless its directory was moved out
  meanwhile, and even then one without an entry of its own outside;
  **PatchAllOrNothing**: a patch
  replaces the examined file in the examined directory or leaves nothing behind;
  **MatchesExact**, **SearchBounded**: the turn's budget holds for all its
  searches, were they parallel too (one slot keeps them apart in the daemon), a search's own limit always suffices, a stop is noticed within one
  interval.
* `execution` – **TrustIsBound**; **OnlyOwnStruck**; **OutcomeTrue**: "failed" means the
  target never ran, "clean" means its group is gone, output is what was written and
  marked as cut exactly when it was.

Why the bounds are enough. Two turns are needed for anything about the *next*
turn (unknown outcomes, abandoned workers holding permits) and a third adds no
new relation, since a thread has one live turn. Two calls give a batch with a
finished and an open sibling, and one worker slot makes the second call contend
with the first. Two rounds give the loop back to the provider. One crash reaches
every state in which a crash can leave the ledger; recovery has no state of its
own, so a crash within it is a prefix of it. The theorems of section 5 cover any
values for the runner's safety. Nine rows hold the proposal, three steps, an
unknown pair and a reconciliation pair and leave the tenth refused. Buffer and
page of two, with three events and commits of up to two, give a window of two
pages, a lag, and live events inside a window. Three tokens in
maps of two reach refusal, eviction and a use after eviction; the clock passes
the retention of the first use. Names of executors and registries are symmetric,
and for patches the clock stands still (`PatchFocus`), because `tokens` lets it run; patches are
checked in one turn and in two, which differ in the gate. In
`MCDurability` repetition and framing are two parts of one module (`Focus`): the first
has two connections and short lines, the second one connection and any pieces. In
`MCAccess` one search runs while another program writes, or two share a budget too
small for both (`Rests`). The policy
values contain the wildcard, nested, equal, disjoint and empty scopes, and
expiries on either side. One channel slot makes a second runner wait, and a stray
frame may then meet requests in the channel, in the map and answered. Three
threads give a fork of a fork. Bodies of three payloads hold a call with its
fragment and its finish reason, or three calls where the assembler takes two; bodies
of three that do neither are left to the theorems. A chunk of five tokens ends one
frame and holds another, and after the rest of a frame it overflows the buffer of
nine. Two payloads in different styles are enough for a
boundary of the preferred style behind one of the other. Credentials of three letters
over two have no border, one of one letter, or overlapping ones, and the proof covers
every length. Two indices with two ids give an index with two ids, an id with two
indices, and each alone. Five steps of other programs move the parent away, put another in
its place, and write. Two process numbers give a leader and a descendant, or a
leader and a stranger on a reused number. The calls of the liveness check write
no output (full pipes are in `execution`); a target that neither ends nor closes its
pipe is there. Names that play no part but to be different are symmetric in
`execution`, `history` and `decoding`, where only invariants are checked.

Deadlock is not checked. A thread whose turns have ended, a full ledger, a client
that has caught up, a finished search and an ended call have nothing left to do;
that nobody waits for ever is what the liveness properties say.

## 4. Fairness

* Runner: weak fairness of each runner's steps (Tokio keeps polling a spawned
  task, model streams and tool waits are bounded by deadlines), of the answer to
  an approval request, and of recovery (the daemon does not serve before it).
  The approval assumption is a real one: the runner does not watch its flag
  while it waits, so an interrupted turn ends only once the client answers or its
  connection ends. No fairness is assumed of workers, commands or crashes.
* Stream: weak fairness of the broadcast (the gate holder does not wait), of the
  connection task and of a client that reconnects; strong fairness of `Subscribe`,
  which competes for the gate with an unbounded number of commits.
* Approvals: weak fairness of the connection task and of a client that answers its
  prompts; strong fairness of a runner's send, since Tokio's channel serves waiting
  senders in order.
* Processes: weak fairness of the executor's own steps, its timers included, and of
  the death of a process that was sent SIGKILL. Weak fairness is enough for the
  mutex: each call is made once. None of targets.

Fairness of composed runs is stated in `MCServing`, for the part
that needs it.

## 5. Proofs

All theorems are checked by TLAPS for every value of the constants allowed by the
named assumptions (`BoundsAssumption`, `PolicyAssumption`, `AuthorityAssumption`,
`HistoryAssumption`) or, in the modules that prove several components at once,
by a hypothesis of the theorem: `LedgerConstants`, `FrameConstants`,
`StartupConstants`, `ApprovalConstants`, `WorkspaceConstants`, `RegistryConstants`,
`ProcessConstants`, `ThreadConstants`, `SearchConstants`, `ResponseConstants` and
`SecrecyConstants`. These say what the
declarations in the code say (lengths are natural numbers, a query is not
empty) and that placeholders such as `None` or "nobody"
are none of the things they stand beside; the instances of the runs satisfy them.
The model bounds (`MaxSeq`, `MaxRewrites`, ...) may have any value.

Two arguments recur. Where a claim is about every place of a sequence or every
thread, the least exception is refuted (`LeastElement`, from the well-foundedness
of the natural numbers), since the provers cannot instantiate an induction
scheme. And where a component is proved on variables of its own, the proof is about
an `INSTANCE` of its module, so that one module can hold the theorems of components
that share no state; the composition modules of section 2 declare these instances.

**`TurnRunnerProofs`.** `IInv` is the inductive invariant. The properties are not
inductive by themselves, for these reasons:

* `PhaseMatchesTurn` ties the volatile `pc` to the durable state: each helper
  compares the durable state with the one the runner believes in, and without
  the tie a `FailTurn` could close a turn from a place where calls are open.
* `QuietMeansSettled` and `RecordMatchesLedger` say what the runner's records
  mean: outside a batch nothing is open, inside one every record agrees with the
  ledger and with the world. `EvidenceBacked` and `TerminalTurnSettled` need both.
* `FlagMeansCancelling` lets `CloseStream`, `FinishBatch` and `LoadTurn` use the
  flag in place of the durable state.
* `OneLiveTurn` and `OpenCallsUnderLiveTurn` give `UnknownStopsThread` and the
  argument that a started call belongs to a turn at the execution boundary.
* `CrashForgets` separates recovery from runners.

`InductiveInvariant` proves `Spec => []IInv` with one step per action and, under
it, one per conjunct the action can disturb. From it follow `TypeCorrect`,
`TerminalTurnsSettle`, `OutcomesPaired`, `ClaimsAreBacked`,
`UnknownBlocksThread` and `NoTurnIsLost`; `LedgerReplays` and `ToolsRunOnce` are
the action properties, proved from the invariant step by step.

*The refinement.* `RunnerImplementsContract` shows that initial states map
to initial states and that each action maps to one action of `TurnContract` or to
a stutter. `IInv` is needed where the concrete guard is weaker than the abstract
one: the runner closes a turn by looking at the turn's own pending calls, and
recovery at all of them, and `OneLiveTurn` makes the simultaneous closing of
"every active turn" the closing of one.

**`AuthorityProofs`.** `SingleUse` needs three things about time: a validating
call began before its token expired and has not stalled longer than the bound
(`CallsInTime`), a token is prepared before it is used (`KnownTokens`), and a use
not evicted is on record or older than the retention counted from preparation
(`UseOnRecord`). Together with `MaxStall <= TTL` a second `Consume` meets the record. `NoBlindOverwrite`
needs the exclusion of the patches of one turn by their mutation gate (`OnePublisher`)
and that only approved patches reach it (`CallsApproved`); a patch of another turn
marks those it passes as raced. `TokensAreSingleUse`, `PermitsAreAuthorised`
and `PatchesRespectTheirBase` follow from `AuthorityInvariant`.

*Calls.* `RunsWhatWasJudged`: each stage of a call keeps what the stages before have
seen to (`CallOK`), whatever links are put in place between them, and between
revalidation and execution the name leads where it led unless the call is marked as
raced; for a patch the last resolution must give the path itself. *Verdicts.*
`VerdictsAreTheClients` needs that an id is given out once, that a reply end is held
under the id of its prompt (`IdsAreFresh`), and that a frame with an id repeats what
the client said to it (`FramesAreSaid`).

**`AccessProofs`.** *Policy.* `PolicyIsMeet` proves `DecisionIsMeet` for arbitrary scopes,
effects and profiles. The core is a lemma on path scopes: a path is allowed by an
intersection iff it is allowed by both sides. One direction is transitivity of
the component prefix; the other is that two prefixes of one path are comparable,
so the longer one is in the intersection, whichever side it comes from; the
wildcard is a separate case on either side. Modes, exact scopes and expiries are
meets of their own, and the four layers are three applications of the
two-layer lemma. `CeilingsHold` proves `NoAmbientAuthority` from the meet: the
host and project layers alone refuse what it excludes.

*Files.* `ReadsStayInside` and `PatchesAreWhole` follow from `DiskInv`. A check is
worth something only for as long as nothing happens, and the invariant says what
each one still tells: an unchanged stamp, that the file is as `fstat` saw it and
that a read met nothing else (`StampTells`), and with a link count of one,
that it is still where it was opened, has no entry elsewhere and got a path outside
only if its directory was moved out (`KeptPlace`); the open of the
directory, that the file opened in it was in the tree unless the directory strayed in
between (`OpenIsInside`); the last look at the parent,
that directory and file are still in place unless another program acted since
(`SinceLook`). The number of steps of other programs is unbounded.

*Searches.* `SearchesStayBounded` and `MatchesAreExact` follow from `SearchInv`. Its
part about the matcher is the argument of Knuth, Morris and Pratt: every entry of
the table is the longest border of its prefix (`TableOf`); `matched` is the longest
prefix of the query that the text ends with, and while the fallback runs every longer
candidate has been refuted (`Candidate`, `FallBack`). The part about cost makes
"linear" precise: two operations per letter of the query, then two per byte for
comparisons, of which unused ones are stored in `matched`, and one per byte for the
cursor (`Building`, `AtByte`, `AtMatch`), so that a search has always spent less than
`2 * Len(query) + 3 * bytes`. `OwnLimitSuffices` therefore holds for every
multiplier of at least 3; the code has 4. The budget needs that an exchange raises
the counter by one and leads to at most one operation, and the reaction to a stop
that the next sample is never further away than the interval (`Noticed`).

**`DurabilityProofs`.** *Ledger.* `NoInvalidHistory`, `ResultBeforeTerminal`,
`AcknowledgedIsStored` and `CommandsApplyOnce` follow from `LedgerInv`. What the
properties leave out is what makes a batch acceptable: from the state the log has
brought an invocation to, every event of the batch must lead to a state it may
reach, with a result in front of a terminal one (`Tellable`), and an invocation with
a state has been proposed (`Proposed`), so that a repeated batch is recognised by
the ids of its events and not appended. Receipts need that events of a command
exist only together with its receipt and come from one attempt (`Effects`).

*Artifacts.* `ArtifactsAreWhole` needs that a temporary file is renamed only when
synced (`PersistsSynced`), hence that a name leads to bytes on the disk
(`NamedIsSafe`), and that a put past the rename finds its name (`DoneIsNamed`).

*Connections.* `AcceptedTurnsRunOnce` rests on `OnceLaunched`: an accepted turn is in
the hands of one connection or lost with its process. `LinesAreAsSent` rests on
`Sound`: what `read_frame` returned is what was sent so far, and what is buffered,
available and on the wire, one behind the other, is the rest; a dropped future
changes where bytes lie, never their concatenation.

*Start.* `SocketLeadsToTheServer` and `OnlyTheDeadAreRecovered` need that the lock of
a directory is held exactly by the process past it (`LockIsHeld`) and that what a
starting process saw of the socket is still true when it acts on it
(`SightIsFresh`). Where the processes use several directories the property promises
nothing about the one socket path, and neither does the theorem.

**`ServingProofs`.** `ClientSeesExactlyOnceInOrder` holds for any number of threads,
pages, lags, reconnects and crashes. `StreamInv` says where every event is: the
client is at `Len(seen[t])`, the connection at `Written(t)`, and the wire holds
exactly what lies in between (`WireOK`); a replay in progress ends where its
subscription begins (`WindowOK`).

**`HistoryProofs`.** *Threads.* `ForksKeepTheirContext`, `RequestsCarryResults` and
`SteeringArrives` follow from `ThreadInv`. The contexts are recursive functions over
the ancestors; parents have smaller numbers than their forks (`Forest`). A log is
`Tidy` (a call is followed by its result, an unknown outcome by its review, before
the conversation goes on) and has an open call only under a live turn (`Orderly`), so
that an inherited prefix cut between turns is paired.

*Projection.* The invariant adds to the types that what exists is filed
under something that exists (`Filed`), the truth of the status and the end of every
lineage. One live turn per thread rests on the guard of `TurnStarted` and on the
fact that no later event revives a terminal turn. `LineageEnds` is stated without
recursion, as the absence of a non-empty set of threads closed under parents: a fork
adds a thread no other one has as a parent, so a closed set containing it would
have been closed without it. `StatusAlwaysTrue`, `LineageAlwaysEnds` and
`SettledForGood` hold for any number of threads, turns and invocations.

**`ExecutionProofs`.** *Workspaces.* `TrustStaysBound` needs that an identity has one
record (`OneRecordPerIdentity`): withdrawing the trust of one would leave another
trusted otherwise.

*Processes.* `OnlyOwnProcessesAreKilled` and `OutcomesAreTrue` need that a child nobody has waited for keeps its number, and that while it does no
stranger enters the group of that number (`ChildIsOwn`); that a guard which may still
strike names such a group (`GuardIsFresh`); and for the outcome, that the retained
output is the beginning of what was written (`PipeIsExact`) and that those who never
left the group are where the guard looks (`GroupIsKnown`).

**`DecodingProofs`.** *Responses.* `ChunksDoNotShow` and `OnlyWholeResponses` hold for
bodies of any length over any payloads (`ResponseConstants`: `Bodies` are sequences of
payloads, `MaxChunk` is a number; the limits may have any value) whose lines end in one
style (`OneStyle`); what `ChunkingInvisible` and `AcceptedIsWhole` say of mixed bodies is
model-checked. The inductive
invariant is `Parsed`. While a response is open there is a number n such that the
events of the first n payloads have been applied and the buffer is the wire from the
end of the n-th to `pos`, less than one frame (`Reading`). `Drain` then finds exactly
the frames that the chunk completes: in a wire of one line-end style a boundary can
only lie at the end of a frame (`Laid`, `Fits`), so a search from the left, which
prefers LF to CRLF, cannot stop early or miss one, even with a boundary half arrived.
What is left at the end is a broken payload, and `finish` decodes it as the
reference does. Since `Feed` over a concatenation is `Feed` after `Feed`, the cuts
disappear.

That an accepted response is whole is carried through `Feed` event by event (`Told`):
the state is failed, or the fragments kept are those sent (`Gathered`), ids are
distinct, every announced call is there under its name or under none yet (`Named`),
and completions are counted as the finish reasons and [DONE]s say (`Ended`). The checks
of `Verdict` turn this into `AcceptedIsWhole`.

*Redaction.* `CredentialsAreTakenOut` assumes that the replacement is no character
of a credential (`SecrecyConstants`; the code's has spaces, which
`validate_credential_value` refuses) and that the keys of a field are keys. `Hidden`
says of every field (`FieldHidden`) that what was shown up to its last close is clean and
ends in no beginning of the credential, and that since then it is as
`redact_chunk` left it (`Redacted`, `Open`): what is shown and held back contains no
occurrence, ends with the first `matched` letters of the credential and with no more
of it, and whatever is said next is replaced as it would be after the text itself.
The table is again shown to hold
longest borders. That nothing shown contains the credential needs the replacement to
be foreign to it: an occurrence across a replacement would contain it. A close ends
either in a replacement or with nothing held back, so no occurrence spans it. For the
joined output, a field that holds something back has come with its last key
(`KeysHidden`), so that a close adds the same replacement to field and key.

A recursive function is of use to the provers only once it is known to exist. For
each loop that is a lemma, proved by the least number of rounds without one
(`FallsExists`, `BuildsExists`, `RestsExists`, `MovesExists`, and `LoopExists` for the
loops of the stream); another says that a loop may be interrupted and gone on with
(`LoopShift`). The rest of the proofs uses only the equation of each function.

Four models were changed by an attempted proof. In `WorkspaceFiles` and `ModelStream` a
`CASE` had guards that overlap, where the code has `if` and `else`: TLC takes the
first, but the meaning of such a `CASE` is any of them. `WorkspaceSearch` built its
queue with a sorting operator about which nothing can be proved; the files are now a
set taken from in the order of paths. `Redactor` and, once more, `ModelStream` had
their loops as recursive operators, which the prover does not accept; they are
recursive functions now, with the same states.

Stated by theorems without a run of their own: `TypeOK`, `OutcomePaired`,
`UnknownStopsThread` and `EventsReplay` of the runner, `AuthorityFresh`,
`NoAmbientAuthority`, `LineageEnds` and `SettledStaysSettled`.

Only model-checked: the liveness properties (`TurnsEnd`, `RestartRepairs`,
`CatchesUp`, `EveryRequestAnswered`, `EveryCallEnds`), because the prover does not
handle fairness; and the two properties of responses for bodies that mix line ends.
Every invariant and every action property of a passing run is stated by a theorem, these
two for bodies of one style.

## 6. Divergences between document and code

`docs/PROTOCOL.md:185` says that an interrupt connects the runner's cancellation
flag and persists `cancelling -> cancelled` when no undecided execution boundary
was crossed. Run `interrupt_outcome` shows a turn that ends `failed` instead: the
provider fails, the interrupt commits `cancelling` before the runner takes the
gate, and `fail` (`yeuxd/src/runner.rs:1847`) accepts `cancelling` as a state to
fail from when no call is pending. The turn is closed correctly in every other
respect; a client that waits for `cancelled` gets `failed`.

A comment in the agent loop (`yeuxd/src/runner.rs:1394`) says that an unknown result
is never fed into another provider round. Run `fork_unknown` shows how it is: a
call ends unknown, an operator reconciles it, and `thread/fork`
(`yeuxd/src/commands.rs:413`), which asks only whether something is unresolved
*now* and accepts any earlier sequence number, cuts a fork between the unknown
result and the review. The first request of the fork carries the unknown result
without the review.

`docs/PROTOCOL.md:57-58` says that `workspace.apply_patch` and `process.run` are in the
provider's ToolSpec list only when host ceiling, workspace trust and the probed sandbox
meet the requirements. Run `tools_offered` shows a turn in a workspace that nobody
trusted which is offered `apply_patch`: `run_inner` (`yeuxd/src/runner.rs:559`) asks for
sandbox and ceiling only. Nothing is executed for it; the policy refuses the call.

A smaller observation, without a run: `artifact.rs` calls its storage durable while
`put` does not sync the root that names a new shard directory, so that a power
failure can lose an acknowledged artifact. `StoredIsWhole` therefore promises
readability only while the power stays on.

## 7. Not modelled

Not modelled because they are I/O, wording or the operating system's behaviour:
HTTP and the encoding of requests, JSON schemas and argument syntax, credential
look-up, sandbox profiles and launcher arguments, the descriptor store, commands
that only list or read, diffs, schema migration, the terminal client and the plugin
host. Token and byte counts of the runner are nondeterministic choices. SQLite's
atomic commit is assumed.
