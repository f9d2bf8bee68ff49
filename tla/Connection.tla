----------------------------- MODULE Connection -----------------------------
(***************************************************************************)
(* The connections of the daemon, from bytes to commands: read_frame cuts  *)
(* the stream into lines while event notifications interrupt it, and       *)
(* handle_line takes a command through its checks, the receipt of an       *)
(* earlier submission, dispatch, the launch of an accepted turn and the    *)
(* response.                                                               *)
(*                                                                         *)
(* A line of length n is n tokens and a newline.  A client may break the   *)
(* connection in the middle of a line, and may submit a command again on   *)
(* another connection while the first one is still being served.  Replay   *)
(* of events is the subject of EventStream, what a command does of         *)
(* Threads, TurnRunner and Workspaces, receipts under failing writes of    *)
(* Ledger.                                                                 *)
(***************************************************************************)
EXTENDS Naturals, Sequences, FiniteSets

CONSTANTS
  Conns,     \* connections
  Commands,  \* command ids
  Lines,     \* what clients send: [k, id, len]
  MaxLine,   \* max_line_bytes
  MaxFill,   \* tokens one fill_buf delivers (model bound)
  MaxSent,   \* lines of one connection (model bound)
  MaxNotes   \* notifications of one connection (model bound)

VARIABLES
  net,         \* tokens on their way, per connection
  eof,         \* the client has closed its side
  sent,        \* the lines it sent, the last one perhaps in part
  available,   \* the BufReader's content
  buffered,    \* the caller's partial line
  phase,       \* "new", "reading", "handling", "launching", "writing",
               \* "closed", or "refused" for a line too large
  line,        \* the line in work
  reply,       \* its response, once decided: "none", "ok", "error"
  initialized, \* ConnectionState::initialized
  seen,        \* lines read_frame returned
  out,         \* responses written: [id, ok]
  notes,       \* notifications written
  receipts,    \* kind of the command a receipt is for
  turns,       \* turn of a turn/start: "none", "accepted", "running", "over"
  starts,      \* launches of a turn
  lost         \* turns whose second receipt write failed

vars == <<net, eof, sent, available, buffered, phase, line, reply, initialized,
          seen, out, notes, receipts, turns, starts, lost>>

stream == <<net, eof, sent, available, buffered, seen, notes>>
durable == <<receipts, turns, starts, lost>>

Junk == [k |-> "junk", id |-> 0, len |-> 0]
NL == <<Junk, 0>>
Tokens(l) == [n \in 1 .. l.len |-> <<l, n>>]

Init ==
  /\ net = [c \in Conns |-> << >>] /\ eof = [c \in Conns |-> FALSE]
  /\ sent = [c \in Conns |-> << >>]
  /\ available = [c \in Conns |-> << >>]
  /\ buffered = [c \in Conns |-> << >>]
  /\ phase = [c \in Conns |-> "new"] /\ line = [c \in Conns |-> Junk]
  /\ reply = [c \in Conns |-> "none"]
  /\ initialized = [c \in Conns |-> FALSE]
  /\ seen = [c \in Conns |-> << >>] /\ out = [c \in Conns |-> << >>]
  /\ notes = [c \in Conns |-> 0]
  /\ receipts = [i \in Commands |-> "none"]
  /\ turns = [i \in Commands |-> "none"]
  /\ starts = [i \in Commands |-> 0]
  /\ lost = {}

-----------------------------------------------------------------------------
(* Clients.                                                                *)

Accept(c) ==
  /\ phase[c] = "new"
  /\ phase' = [phase EXCEPT ![c] = "reading"]
  /\ UNCHANGED <<stream, line, reply, initialized, out, durable>>

ClientSends(c, l) ==
  /\ phase[c] \notin {"new", "closed", "refused"} /\ ~eof[c]
  /\ Len(sent[c]) < MaxSent
  /\ \/ /\ net' = [net EXCEPT ![c] = @ \o Tokens(l) \o <<NL>>]
        /\ UNCHANGED eof
     \/ \E n \in 1 .. l.len :
          /\ net' = [net EXCEPT ![c] = @ \o SubSeq(Tokens(l), 1, n)]
          /\ eof' = [eof EXCEPT ![c] = TRUE]
  /\ sent' = [sent EXCEPT ![c] = Append(@, l)]
  /\ UNCHANGED <<available, buffered, phase, line, reply, initialized, seen,
                 out, notes, durable>>

ClientCloses(c) ==
  /\ phase[c] \notin {"new", "closed", "refused"} /\ ~eof[c]
  /\ eof' = [eof EXCEPT ![c] = TRUE]
  /\ UNCHANGED <<net, sent, available, buffered, phase, line, reply, initialized,
                 seen, out, notes, durable>>

-----------------------------------------------------------------------------
(* read_frame.                                                             *)

Fill(c) ==
  /\ phase[c] = "reading" /\ available[c] = << >>
  /\ \E n \in 1 .. MaxFill :
       /\ n <= Len(net[c])
       /\ available' = [available EXCEPT ![c] = SubSeq(net[c], 1, n)]
       /\ net' = [net EXCEPT ![c] = SubSeq(@, n + 1, Len(@))]
  /\ UNCHANGED <<eof, sent, buffered, phase, line, reply, initialized, seen,
                 out, notes, durable>>

Newlines(s) == {n \in DOMAIN s : s[n] = NL}
Least(S) == CHOOSE n \in S : \A m \in S : n <= m

Close(c, how) ==
  /\ phase' = [phase EXCEPT ![c] = how]
  /\ net' = [net EXCEPT ![c] = << >>]
  /\ available' = [available EXCEPT ![c] = << >>]
  /\ buffered' = [buffered EXCEPT ![c] = << >>]

Respond(c, id, ok) == out' = [out EXCEPT ![c] = Append(@, [id |-> id, ok |-> ok])]

(* The text of a line: anything but one whole line is not JSON.            *)
Text(s) ==
  IF s = << >> THEN [Junk EXCEPT !.k = "blank"]
  ELSE LET l == s[1][1] IN IF s = Tokens(l) THEN l ELSE Junk

(* A blank line and an approval response need no answer; what is not JSON, *)
(* not an envelope or not a version-7 id is answered at once.              *)
Received(c, s) ==
  LET l == Text(s)
  IN /\ seen' = [seen EXCEPT ![c] = Append(@, l)]
     /\ \/ /\ l.k \in {"blank", "response"}
           /\ UNCHANGED <<phase, line, out>>
        \/ /\ l.k = "junk"
           /\ Respond(c, 0, FALSE)
           /\ UNCHANGED <<phase, line>>
        \/ /\ l.k \notin {"blank", "response", "junk"}
           /\ line' = [line EXCEPT ![c] = l]
           /\ phase' = [phase EXCEPT ![c] = "handling"]
           /\ UNCHANGED out

TooLarge(c) ==
  /\ Close(c, "refused")
  /\ Respond(c, 0, FALSE)
  /\ UNCHANGED <<seen, line>>

Take(c) ==
  /\ phase[c] = "reading" /\ available[c] # << >>
  /\ LET a == available[c]
         nl == Newlines(a)
     IN \/ /\ nl # {} /\ Len(buffered[c]) + Least(nl) - 1 > MaxLine
           /\ TooLarge(c)
        \/ /\ nl # {} /\ Len(buffered[c]) + Least(nl) - 1 <= MaxLine
           /\ Received(c, buffered[c] \o SubSeq(a, 1, Least(nl) - 1))
           /\ buffered' = [buffered EXCEPT ![c] = << >>]
           /\ available' = [available EXCEPT
                              ![c] = SubSeq(a, Least(nl) + 1, Len(a))]
           /\ UNCHANGED net
        \/ /\ nl = {} /\ Len(buffered[c]) + Len(a) > MaxLine
           /\ TooLarge(c)
        \/ /\ nl = {} /\ Len(buffered[c]) + Len(a) <= MaxLine
           /\ buffered' = [buffered EXCEPT ![c] = @ \o a]
           /\ available' = [available EXCEPT ![c] = << >>]
           /\ UNCHANGED <<net, seen, phase, line, out>>
  /\ UNCHANGED <<eof, sent, reply, initialized, notes, durable>>

(* End of the stream: a last line without a newline is still a line.       *)
AtEof(c) ==
  /\ phase[c] = "reading" /\ eof[c]
  /\ net[c] = << >> /\ available[c] = << >>
  /\ \/ /\ buffered[c] = << >>
        /\ Close(c, "closed")
        /\ UNCHANGED <<seen, line, out>>
     \/ /\ buffered[c] # << >>
        /\ Received(c, buffered[c])
        /\ buffered' = [buffered EXCEPT ![c] = << >>]
        /\ UNCHANGED <<net, available>>
  /\ UNCHANGED <<eof, sent, reply, initialized, notes, durable>>

(* An event or an approval request wins select!: the read_frame future is  *)
(* dropped between two of its steps, and started anew afterwards.          *)
NotifyLosesPartial(c) ==
  /\ phase[c] = "reading" /\ notes[c] < MaxNotes
  /\ notes' = [notes EXCEPT ![c] = @ + 1]
  /\ buffered' = [buffered EXCEPT ![c] = << >>]
  /\ UNCHANGED <<net, eof, sent, available, phase, line, reply, initialized,
                 seen, out, durable>>
Notify(c) ==
  /\ phase[c] = "reading" /\ notes[c] < MaxNotes
  /\ notes' = [notes EXCEPT ![c] = @ + 1]
  /\ UNCHANGED <<net, eof, sent, available, buffered, phase, line, reply, initialized,
                 seen, out, durable>>

-----------------------------------------------------------------------------
(* handle_line.  Each command holds the gate.                              *)

(* The rest of the iteration: launch, then write the response.             *)
Reply(c, ok, launch) ==
  /\ reply' = [reply EXCEPT ![c] = IF ok THEN "ok" ELSE "error"]
  /\ phase' = [phase EXCEPT ![c] = IF launch THEN "launching" ELSE "writing"]

Refuse(c) ==
  /\ Reply(c, FALSE, FALSE)
  /\ UNCHANGED <<initialized, durable>>

Initialize(c) ==
  /\ \E ok \in BOOLEAN :
       /\ Reply(c, ok, FALSE)
       /\ initialized' = [initialized EXCEPT ![c] = @ \/ ok]
  /\ UNCHANGED durable

(* The receipt of an earlier submission answers, except that a             *)
(* subscription, which leaves no trace in the ledger, is set up again.     *)
Replay(c) ==
  LET l == line[c]
  IN /\ receipts[l.id] = l.k
     /\ \/ Reply(c, TRUE, FALSE)
        \/ l.k = "subscribe" /\ Reply(c, FALSE, FALSE)
     /\ UNCHANGED <<initialized, durable>>

Conflict(c) ==
  /\ receipts[line[c].id] \notin {"none", line[c].k}
  /\ Refuse(c)

(* turn/start commits the turn and its receipt in one transaction; then    *)
(* the same receipt is recorded once more, and an I/O error there keeps    *)
(* the accepted turn from being launched.  Other commands reach the        *)
(* receipt table only here.                                                *)
Dispatch(c) ==
  LET l == line[c]
  IN /\ receipts[l.id] = "none"
     /\ \/ Refuse(c)
        \/ /\ l.k = "start"
           /\ receipts' = [receipts EXCEPT ![l.id] = l.k]
           /\ turns' = [turns EXCEPT ![l.id] = "accepted"]
           /\ \/ Reply(c, TRUE, TRUE) /\ UNCHANGED lost
              \/ Reply(c, FALSE, FALSE) /\ lost' = lost \cup {l.id}
           /\ UNCHANGED <<initialized, starts>>
        \/ /\ l.k # "start"
           /\ receipts' = [receipts EXCEPT ![l.id] = l.k]
           /\ Reply(c, TRUE, FALSE)
           /\ UNCHANGED <<initialized, turns, starts, lost>>

HandleLine(c) ==
  /\ phase[c] = "handling"
  /\ \/ line[c].k = "initialize" /\ Initialize(c)
     \/ line[c].k # "initialize" /\ ~initialized[c] /\ Refuse(c)
     \/ /\ line[c].k # "initialize" /\ initialized[c]
        /\ Replay(c) \/ Conflict(c) \/ Dispatch(c)
  /\ UNCHANGED <<stream, line, out>>

LaunchTurn(c) ==
  /\ phase[c] = "launching"
  /\ turns' = [turns EXCEPT ![line[c].id] = "running"]
  /\ starts' = [starts EXCEPT ![line[c].id] = @ + 1]
  /\ phase' = [phase EXCEPT ![c] = "writing"]
  /\ UNCHANGED <<stream, line, reply, initialized, out, receipts, lost>>

WriteResponse(c) ==
  /\ phase[c] = "writing"
  /\ Respond(c, line[c].id, reply[c] = "ok")
  /\ phase' = [phase EXCEPT ![c] = "reading"]
  /\ line' = [line EXCEPT ![c] = Junk]
  /\ reply' = [reply EXCEPT ![c] = "none"]
  /\ UNCHANGED <<stream, initialized, durable>>

(* A read or a write fails: serve_connection returns.                      *)
BreakBeforeLaunch(c) ==
  /\ phase[c] \in {"reading", "launching", "writing"}
  /\ Close(c, "closed")
  /\ line' = [line EXCEPT ![c] = Junk]
  /\ reply' = [reply EXCEPT ![c] = "none"]
  /\ UNCHANGED <<eof, sent, initialized, seen, out, notes, durable>>
Break(c) ==
  /\ phase[c] \in {"reading", "writing"}
  /\ Close(c, "closed")
  /\ line' = [line EXCEPT ![c] = Junk]
  /\ reply' = [reply EXCEPT ![c] = "none"]
  /\ UNCHANGED <<eof, sent, initialized, seen, out, notes, durable>>

(* The process ends and is started again; recovery closes what was live.   *)
Restart ==
  /\ \E c \in Conns : phase[c] \notin {"new", "closed", "refused"}
  /\ phase' = [c \in Conns |-> IF phase[c] \in {"new", "refused"} THEN phase[c]
                              ELSE "closed"]
  /\ net' = [c \in Conns |-> << >>]
  /\ available' = [c \in Conns |-> << >>]
  /\ buffered' = [c \in Conns |-> << >>]
  /\ line' = [c \in Conns |-> Junk]
  /\ reply' = [c \in Conns |-> "none"]
  /\ turns' = [i \in Commands |->
                 IF turns[i] \in {"accepted", "running"} THEN "over" ELSE turns[i]]
  /\ UNCHANGED <<eof, sent, initialized, seen, out, notes, receipts, starts,
                 lost>>

Serve(c) ==
  Fill(c) \/ Take(c) \/ AtEof(c) \/ HandleLine(c) \/ LaunchTurn(c)
    \/ WriteResponse(c)

Next ==
  \/ \E c \in Conns :
       \/ Accept(c) \/ ClientCloses(c) \/ \E l \in Lines : ClientSends(c, l)
       \/ Serve(c) \/ Notify(c) \/ Break(c)
  \/ Restart

Spec == Init /\ [][Next]_vars

-----------------------------------------------------------------------------
(* What read_frame returns is what was sent, line by line: independent of  *)
(* how the bytes arrive and of notifications in between.  A line is        *)
(* refused exactly if it is longer than the limit (read_frame).            *)
FramingInvisible ==
  \A c \in Conns :
    /\ \A n \in DOMAIN seen[c] :
         /\ n <= Len(sent[c])
         /\ \/ seen[c][n] = sent[c][n] /\ sent[c][n].len <= MaxLine
            \/ seen[c][n] = Junk /\ n = Len(sent[c]) /\ eof[c]
    /\ phase[c] = "refused" => sent[c][Len(seen[c]) + 1].len > MaxLine

(* An accepted turn is launched exactly once, though its client may be     *)
(* gone before the response and may submit the command again on another    *)
(* connection; a restart in between ends it.  Only a failing second        *)
(* receipt write strands it (serve_connection, handle_line, launch_turn).  *)
AcceptedTurnRuns ==
  \A i \in Commands :
    /\ starts[i] <= 1
    /\ turns[i] = "accepted" /\ i \notin lost =>
         \E c \in Conns : phase[c] = "launching" /\ line[c].id = i

=============================================================================
