------------------------------ MODULE EventStream ------------------------------
(***************************************************************************)
(* How a client follows threads: events are committed to the ledger and    *)
(* then broadcast, both under the mutation gate; a connection replays the  *)
(* ledger up to the end it saw when it subscribed and then forwards live   *)
(* events.  Its broadcast buffer is bounded, the connection may break and  *)
(* the daemon may crash between commit and broadcast.                      *)
(*                                                                         *)
(* The client (external) follows the daemon's diagnostic: it reconnects    *)
(* and subscribes once per connection, after the last seq it received.     *)
(***************************************************************************)
EXTENDS Naturals, Sequences

CONSTANTS
  Threads,
  MaxSeq,    \* events of a thread (model bound)
  Buffer,    \* event_buffer: capacity of the broadcast channel
  Page,      \* REPLAY_PAGE_SIZE
  MaxDrops   \* broken connections and daemon crashes (model bound)

ASSUME StreamAssumption ==
  /\ MaxSeq \in Nat /\ MaxDrops \in Nat
  /\ Buffer \in Nat \ {0} /\ Page \in Nat \ {0}

VARIABLES
  last,    \* last_seq of every thread in the ledger
  unsent,  \* committed events the gate holder has not broadcast yet
  conn,    \* "open", "closed", or why the daemon closed it: "gap", "lag"
  queue,   \* events waiting in the connection's broadcast receiver
  lagged,  \* the receiver lost events to the bound
  sub,     \* ConnectionState.subscriptions: last seq handled, per thread
  window,  \* the ReplayWindow being written
  wire,    \* events written to the socket and not read yet
  seen,    \* what the client received, over all its connections
  drops

vars == <<last, unsent, conn, queue, lagged, sub, window, wire, seen, drops>>

NoSub == MaxSeq + 1
NoWindow == [thread |-> "none", after |-> 0, through |-> 0]

Event(t, seq) == [thread |-> t, seq |-> seq]
Span(t, from, to) == [n \in 1 .. (to - from) |-> Event(t, from + n)]
Least(a, b) == IF a < b THEN a ELSE b

Init ==
  /\ last = [t \in Threads |-> 0]
  /\ unsent = << >>
  /\ conn = "closed"
  /\ queue = << >>
  /\ lagged = FALSE
  /\ sub = [t \in Threads |-> NoSub]
  /\ window = NoWindow
  /\ wire = << >>
  /\ seen = [t \in Threads |-> << >>]
  /\ drops = 0

Cursor(t) == IF seen[t] = << >> THEN 0 ELSE seen[t][Len(seen[t])]

-----------------------------------------------------------------------------
(* A command or the runner commits a batch and broadcasts it, in append    *)
(* order, before it releases the gate.                                     *)

GateFree == unsent = << >>

Commit(t) ==
  /\ GateFree
  /\ \E n \in 1 .. 2 :
       /\ last[t] + n <= MaxSeq
       /\ last' = [last EXCEPT ![t] = @ + n]
       /\ unsent' = Span(t, last[t], last[t] + n)
  /\ UNCHANGED <<conn, queue, lagged, sub, window, wire, seen, drops>>

Received(q, e) == IF Len(q) < Buffer THEN Append(q, e) ELSE Append(Tail(q), e)

Broadcast ==
  /\ unsent # << >>
  /\ unsent' = Tail(unsent)
  /\ queue' = IF conn = "open" THEN Received(queue, Head(unsent)) ELSE queue
  /\ lagged' = (lagged \/ (conn = "open" /\ Len(queue) = Buffer))
  /\ UNCHANGED <<last, conn, sub, window, wire, seen, drops>>

-----------------------------------------------------------------------------
(* The connection task.                                                    *)

(* serve_connection starts with a fresh receiver and no subscription; it   *)
(* does not take the gate, so a broadcast may be half done.                *)
Connect ==
  /\ conn # "open"
  /\ conn' = "open"
  /\ queue' = << >> /\ lagged' = FALSE
  /\ sub' = [t \in Threads |-> NoSub]
  /\ window' = NoWindow
  /\ wire' = << >>
  /\ UNCHANGED <<last, unsent, seen, drops>>

(* thread/subscribe reads last_seq under the gate; the connection stores   *)
(* it as the subscription and replays up to it.                            *)
Subscribe(t) ==
  /\ conn = "open" /\ window = NoWindow
  /\ GateFree
  /\ sub[t] = NoSub
  /\ sub' = [sub EXCEPT ![t] = last[t]]
  /\ window' = IF Cursor(t) = last[t] THEN NoWindow
               ELSE [thread |-> t, after |-> Cursor(t), through |-> last[t]]
  /\ UNCHANGED <<last, unsent, conn, queue, lagged, wire, seen, drops>>

(* write_replay: one page of the ledger; the loop reads nothing else       *)
(* until the window is written.                                            *)
ReplayPageUncapped(w) == Least(w.after + Page, last[w.thread])
ReplayPage(w) == Least(w.after + Page, w.through)

WriteReplay ==
  /\ conn = "open" /\ window # NoWindow
  /\ LET upto == ReplayPage(window)
     IN /\ wire' = wire \o Span(window.thread, window.after, upto)
        /\ window' = IF upto >= window.through THEN NoWindow
                     ELSE [window EXCEPT !.after = upto]
  /\ UNCHANGED <<last, unsent, conn, queue, lagged, sub, seen, drops>>

AlreadySent(e) == e.seq <= sub[e.thread]

(* The select! loop receives one live event.                               *)
Deliver ==
  /\ conn = "open" /\ window = NoWindow /\ ~lagged
  /\ queue # << >>
  /\ queue' = Tail(queue)
  /\ LET e == Head(queue)
     IN IF sub[e.thread] = NoSub \/ AlreadySent(e)
        THEN UNCHANGED <<conn, sub, wire>>
        ELSE IF e.seq # sub[e.thread] + 1
        THEN conn' = "gap" /\ UNCHANGED <<sub, wire>>
        ELSE /\ wire' = Append(wire, e)
             /\ sub' = [sub EXCEPT ![e.thread] = e.seq]
             /\ UNCHANGED conn
  /\ UNCHANGED <<last, unsent, lagged, window, seen, drops>>

(* RecvError::Lagged: report event_backpressure and close.                 *)
LagSwallowed ==
  /\ conn = "open" /\ window = NoWindow /\ lagged
  /\ queue' = << >>
  /\ UNCHANGED <<last, unsent, conn, lagged, sub, window, wire, seen, drops>>

CloseLagged ==
  /\ conn = "open" /\ window = NoWindow /\ lagged
  /\ conn' = "lag"
  /\ UNCHANGED <<last, unsent, queue, lagged, sub, window, wire, seen, drops>>

ClientRead ==
  /\ wire # << >>
  /\ wire' = Tail(wire)
  /\ LET e == Head(wire)
     IN seen' = [seen EXCEPT ![e.thread] = Append(@, e.seq)]
  /\ UNCHANGED <<last, unsent, conn, queue, lagged, sub, window, drops>>

-----------------------------------------------------------------------------
(* What the client has not read is lost with a broken connection; a crash  *)
(* of the daemon also loses what was committed and not yet broadcast.      *)
Disconnect ==
  /\ conn = "open" /\ drops < MaxDrops
  /\ drops' = drops + 1
  /\ conn' = "closed" /\ wire' = << >>
  /\ UNCHANGED <<last, unsent, queue, lagged, sub, window, seen>>

Crash ==
  /\ drops < MaxDrops
  /\ drops' = drops + 1
  /\ conn' = "closed" /\ wire' = << >>
  /\ unsent' = << >>
  /\ UNCHANGED <<last, queue, lagged, sub, window, seen>>

Connection == \/ WriteReplay \/ Deliver \/ CloseLagged \/ ClientRead

Next ==
  \/ \E t \in Threads : Commit(t) \/ Subscribe(t)
  \/ Broadcast \/ Connect \/ Connection \/ Disconnect \/ Crash

Spec == Init /\ [][Next]_vars

-----------------------------------------------------------------------------
(* Over all its connections the client sees every thread as 1, 2, 3, ...:  *)
(* no event is lost, repeated or reordered by a replay that meets live     *)
(* events, a full buffer, a reconnect or a crash between commit and        *)
(* broadcast (write_replay, the live branch of serve_connection).          *)
ExactlyOnceInOrder ==
  \A t \in Threads :
    /\ seen[t] = [n \in 1 .. Len(seen[t]) |-> n]
    /\ Len(seen[t]) <= last[t]

(* A client that keeps reconnecting ends up with everything: commits cease *)
(* at MaxSeq here, and from some moment on nothing is missing, whatever    *)
(* was lost on the way (write_replay, close on lag, subscribe).            *)
CatchesUp == <>[](\A t \in Threads : Len(seen[t]) = last[t])

=============================================================================
