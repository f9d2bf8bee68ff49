-------------------------------- MODULE Ledger --------------------------------
(***************************************************************************)
(* The append-only event ledger and the command receipts, as their callers *)
(* may use them: writers that do not share a lock, retry a batch whose     *)
(* acknowledgement was lost, reuse an event id with other content, or      *)
(* resolve the same invocation twice.                                      *)
(*                                                                         *)
(* Every operation is one immediate SQLite transaction under the           *)
(* connection mutex, so it is one action; SQLite commits all of it or      *)
(* nothing (external).  A caller that did not hear of a commit, because    *)
(* the daemon crashed after it or its connection broke, submits it again.  *)
(***************************************************************************)
EXTENDS Naturals, Sequences, FiniteSets, Lifecycles

CONSTANTS
  Threads,   \* thread ids
  Home,      \* the thread of the invocation under study
  Writers,   \* callers that settle the invocation
  Commands,  \* command ids
  Digests,   \* digests of method and parameters
  Notes,     \* event ids of ordinary events
  MaxOrder   \* i64::MAX, the last append order and sequence SQLite can hold

ASSUME LedgerAssumption ==
  Home \in Threads /\ MaxOrder \in Nat

VARIABLES
  log,       \* events in append order, each with its per-thread seq
  receipts,  \* Commands -> the stored receipt
  acked,     \* the inputs the last operation reported as committed
  answered   \* the command the last operation answered, with its response

vars == <<log, receipts, acked, answered>>

NoReceipt == [digest |-> "none", response |-> 0]

(* NewLedgerEvent.  Only invocation events have a content of their own;    *)
(* "item" carries the polarity of a ToolResult, cause the command id.      *)
Input(id, thread, kind, from, to, cause) ==
  [id |-> id, thread |-> thread, kind |-> kind, from |-> from, to |-> to,
   cause |-> cause]

Init ==
  /\ log = << >>
  /\ receipts = [c \in Commands |-> NoReceipt]
  /\ acked = {}
  /\ answered = {}

-----------------------------------------------------------------------------
(* Reading the tables.                                                     *)

RangeOf(s) == {s[n] : n \in DOMAIN s}

InputOf(e) == Input(e.id, e.thread, e.kind, e.from, e.to, e.cause)

Has(id) == \E e \in RangeOf(log) : e.id = id

(* new_event_matches: every field, not only the id.                        *)
Matches(e) == \E f \in RangeOf(log) : InputOf(f) = e

OnThread(l, thread) == {n \in DOMAIN l : l[n].thread = thread}

LastSeq(thread) == Cardinality(OnThread(log, thread))

(* invocation_state_in: the state the history of the invocation leads to,  *)
(* "invalid" if some event is not a transition from the one before.        *)
NextState(s, e) ==
  CASE e.kind = "tool/proposed" ->
         IF s = "absent" THEN "proposed" ELSE "invalid"
    [] e.kind = "tool/state_changed" ->
         IF s = e.from /\ CanTransitionInvocation(e.from, e.to) THEN e.to
         ELSE "invalid"
    [] e.kind = "tool/reconciled" ->
         IF CanReconcileInvocation(s, e.to) THEN e.to ELSE "invalid"
    [] OTHER -> s

History ==
  LET state[n \in 0 .. Len(log)] ==
        IF n = 0 THEN "absent" ELSE NextState(state[n - 1], log[n])
  IN state

InvocationState == History[Len(log)]

-----------------------------------------------------------------------------
(* append_batch_transaction: a batch whose ids all exist with the same     *)
(* content is a replay; a new batch gets contiguous numbers; a partly      *)
(* known or divergent one is refused.  Numbering refuses to overflow.      *)

DistinctIds(batch) ==
  \A m, n \in DOMAIN batch : batch[m].id = batch[n].id => m = n

IsReplayById(batch) == \A e \in RangeOf(batch) : Has(e.id)
IsReplay(batch) == \A e \in RangeOf(batch) : Matches(e)

IsNew(batch) == \A e \in RangeOf(batch) : ~Has(e.id)

Fits(batch) == Len(log) + Len(batch) <= MaxOrder

Numbered(batch) ==
  [n \in DOMAIN batch |->
     [id |-> batch[n].id, thread |-> batch[n].thread, kind |-> batch[n].kind,
      from |-> batch[n].from, to |-> batch[n].to, cause |-> batch[n].cause,
      seq |-> LastSeq(batch[n].thread)
              + Cardinality({m \in OnThread(batch, batch[n].thread) : m <= n})]]

AppendBatch(batch) ==
  /\ DistinctIds(batch)
  /\ \/ IsReplay(batch) /\ UNCHANGED log
     \/ IsNew(batch) /\ Fits(batch) /\ log' = log \o Numbered(batch)
  /\ acked' = RangeOf(batch)
  /\ answered' = {}

-----------------------------------------------------------------------------
(* Ordinary events: append and import.                                     *)

Note(id, thread, cause) == Input(id, thread, "item", "none", "none", cause)

AppendNote ==
  /\ \E id \in Notes, thread \in Threads :
       AppendBatch(<<Note(<<id, 0>>, thread, "runtime")>>)
  /\ UNCHANGED receipts

(* import: the event brings its own seq, which must be the next one.       *)
Import ==
  /\ \E id \in Notes, thread \in Threads, seq \in 1 .. MaxOrder :
       LET batch == <<Note(<<id, 0>>, thread, "imported")>>
       IN /\ IsNew(batch) /\ seq = LastSeq(thread) + 1
          /\ Fits(batch)
          /\ log' = log \o Numbered(batch)
  /\ acked' = {} /\ answered' = {}
  /\ UNCHANGED receipts

-----------------------------------------------------------------------------
(* The invocation: the runner proposes and advances it through the generic *)
(* append, under the daemon's gate and after checking the projected state. *)

Step(from, to) ==
  Input(<<"runner", to>>, Home, "tool/state_changed", from, to, "runtime")

Propose ==
  /\ AppendBatch(<<Input(<<"runner", "proposal">>, Home, "tool/proposed", "none", "none",
                         "runtime")>>)
  /\ UNCHANGED receipts

Advance ==
  /\ \E from, to \in PreExecution \cup {"started"} :
       /\ InvocationState = from /\ CanTransitionInvocation(from, to)
       /\ AppendBatch(<<Step(from, to)>>)
  /\ UNCHANGED receipts

(* append_invocation_events_checked_transaction: the state precondition,   *)
(* or for a batch that fully exists the state it led to, and the scope of  *)
(* the proposal.                                                           *)
CheckedNotAtAll(batch, from, to) == TRUE
Checked(batch, from, to) ==
  /\ \A e \in RangeOf(batch) : e.thread = Home
  /\ InvocationState =
       IF \A e \in RangeOf(batch) : Has(e.id) THEN to ELSE from

(* Every writer has its own event ids, and may submit them again with the  *)
(* same or with another outcome.  The ToolResult comes first.              *)
Polarity(to) == IF to = "completed" THEN "ok" ELSE "error"

TerminalFirst(w, thread, kind, from, to, cause) ==
  << Input(<<w, "state">>, thread, kind, from, to, cause),
     Input(<<w, "result">>, thread, "item", "result", Polarity(to), cause) >>

OutcomeBatch(w, thread, kind, from, to, cause) ==
  << Input(<<w, "result">>, thread, "item", "result", Polarity(to), cause),
     Input(<<w, "state">>, thread, kind, from, to, cause) >>

AppendInvocationOutcome(w) ==
  /\ \E thread \in Threads, from \in PreExecution \cup {"started"},
       to \in InvTerminal :
       /\ CanTransitionInvocation(from, to)
       /\ LET batch == OutcomeBatch(w, thread, "tool/state_changed", from, to,
                                    "runtime")
          IN Checked(batch, from, to) /\ AppendBatch(batch)
  /\ UNCHANGED receipts

(* Recovery persists the bare marker.                                      *)
AppendInvocationUnknown(w) ==
  /\ \E thread \in Threads :
       LET batch == << Input(<<w, "unknown">>, thread, "tool/state_changed",
                             "started", "unknown", "runtime") >>
       IN Checked(batch, "started", "unknown") /\ AppendBatch(batch)
  /\ UNCHANGED receipts

(* The runner adds a diagnostic for the model.                             *)
AppendInvocationUnknownOutcome(w) ==
  /\ \E thread \in Threads :
       LET batch == << Input(<<w, "unknown">>, thread, "tool/state_changed",
                             "started", "unknown", "runtime"),
                       Input(<<w, "diagnostic">>, thread, "item", "result",
                             "error", "runtime") >>
       IN Checked(batch, "started", "unknown") /\ AppendBatch(batch)
  /\ UNCHANGED receipts

(* A reviewer resolves the unknown outcome, with evidence.                 *)
AppendInvocationReconciliation(w) ==
  /\ \E thread \in Threads, to \in {"completed", "failed"} :
       LET batch == OutcomeBatch(w, thread, "tool/reconciled", "unknown", to,
                                 "runtime")
       IN Checked(batch, "unknown", to) /\ AppendBatch(batch)
  /\ UNCHANGED receipts

-----------------------------------------------------------------------------
(* Commands.  A receipt is looked up first: the same digest replays the    *)
(* stored response, another one is a CommandIdConflict.                    *)

Answer(c, d, response) == answered' = {<<c, d, response>>} /\ acked' = {}

ReplayCommand(c, d) ==
  /\ receipts[c] # NoReceipt /\ receipts[c].digest = d
  /\ Answer(c, d, receipts[c].response)
  /\ UNCHANGED <<log, receipts>>

(* The response names what the command created: here its first event.      *)
Receipt(d) == [digest |-> d, response |-> Len(log) + 1]

ReceiptAvailable(c) == receipts[c] = NoReceipt

CommitEventsReceiptLost(c, d) ==
  /\ ReceiptAvailable(c)
  /\ \E s, t \in Threads :
       LET batch == << Note(<<c, 2 * Len(log)>>, s, c),
                       Note(<<c, 2 * Len(log) + 1>>, t, c) >>
       IN IsNew(batch) /\ Fits(batch) /\ log' = log \o Numbered(batch)
  /\ receipts' \in {receipts, [receipts EXCEPT ![c] = Receipt(d)]}
  /\ Answer(c, d, Receipt(d).response)

(* append_batch_with_receipt: fresh event ids on every attempt.            *)
AppendBatchWithReceipt(c, d) ==
  /\ ReceiptAvailable(c)
  /\ \E s, t \in Threads :
       LET batch == << Note(<<c, 2 * Len(log)>>, s, c),
                       Note(<<c, 2 * Len(log) + 1>>, t, c) >>
       IN IsNew(batch) /\ Fits(batch) /\ log' = log \o Numbered(batch)
  /\ receipts' = [receipts EXCEPT ![c] = Receipt(d)]
  /\ Answer(c, d, Receipt(d).response)

AppendReconciliationWithReceipt(w, c, d) ==
  /\ ReceiptAvailable(c)
  /\ \E thread \in Threads, to \in {"completed", "failed"} :
       LET batch == OutcomeBatch(w, thread, "tool/reconciled", "unknown", to, c)
       IN /\ Checked(batch, "unknown", to)
          /\ DistinctIds(batch)
          /\ \/ IsReplay(batch) /\ UNCHANGED log
             \/ IsNew(batch) /\ Fits(batch) /\ log' = log \o Numbered(batch)
  /\ receipts' = [receipts EXCEPT ![c] = Receipt(d)]
  /\ Answer(c, d, Receipt(d).response)

(* Commands without events.                                                *)
RecordCommandReceipt(c, d) ==
  /\ ReceiptAvailable(c)
  /\ receipts' = [receipts EXCEPT ![c] = Receipt(d)]
  /\ Answer(c, d, Receipt(d).response)
  /\ UNCHANGED log

Next ==
  \/ AppendNote \/ Import
  \/ Propose \/ Advance
  \/ \E w \in Writers : \/ AppendInvocationOutcome(w)
                        \/ AppendInvocationUnknown(w)
                        \/ AppendInvocationUnknownOutcome(w)
                        \/ AppendInvocationReconciliation(w)
  \/ \E c \in Commands, d \in Digests :
       \/ ReplayCommand(c, d)
       \/ AppendBatchWithReceipt(c, d)
       \/ RecordCommandReceipt(c, d)
       \/ \E w \in Writers : AppendReconciliationWithReceipt(w, c, d)

Spec == Init /\ [][Next]_vars

-----------------------------------------------------------------------------

(* Two unsynchronised writers, their retries included, never leave an      *)
(* invocation history the projection would reject                          *)
(* (append_invocation_events_checked closes the check/append race).        *)
HistoryReplays == InvocationState # "invalid"

(* The promise on NewInvocationOutcome: no replay prefix observes a        *)
(* terminal invocation without a ToolResult of its polarity.               *)
PrefixSafe ==
  LET states == History IN
  \A n \in DOMAIN log : states[n] \in InvTerminal =>
    \E m \in 1 .. n : /\ log[m].kind = "item" /\ log[m].from = "result"
                      /\ log[m].to = Polarity(states[n])

(* What a caller was told is committed is in the ledger with exactly the   *)
(* content it submitted, also after a retry with the same event ids.       *)
AckedIsStored == \A e \in acked : Matches(e)

(* A command takes effect at most once and only with its receipt: no event *)
(* caused by a command is in the ledger unless its receipt is, the events  *)
(* are those of one attempt, and every answer is the receipt's, given for  *)
(* the same input only.                                                    *)
CommandAppliedOnce ==
  \A c \in Commands :
    LET caused == {n \in DOMAIN log : log[n].cause = c}
    IN /\ caused # {} => receipts[c] # NoReceipt
       /\ Cardinality(caused) <= 2
       /\ \A a \in answered :
            a[1] = c => receipts[c] = [digest |-> a[2], response |-> a[3]]

=============================================================================
