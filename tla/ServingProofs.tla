--------------------------- MODULE ServingProofs ----------------------------
(***************************************************************************)
(* What a connection task does for the turns, for every value of the       *)
(* constants: the events a client receives are those of the ledger, once   *)
(* and in order.                                                           *)
(***************************************************************************)
EXTENDS EventStream, FiniteSets, SequenceTheorems, FiniteSetTheorems, TLAPS

(* Events as the model can meet them.                                      *)
Events == [thread : Threads, seq : 1 .. MaxSeq]
Windows == [thread : Threads, after : Nat, through : Nat]

(* Types of the state of EventStream.                                      *)
StreamTypes ==
  /\ last \in [Threads -> 0 .. MaxSeq]
  /\ unsent \in Seq(Events) /\ queue \in Seq(Events) /\ wire \in Seq(Events)
  /\ conn \in {"open", "closed", "gap", "lag"}
  /\ sub \in [Threads -> 0 .. NoSub]
  /\ seen \in [Threads -> Seq(Nat)]
  /\ window \in Windows \cup {NoWindow}

(* What the gate holder and the receiver hold has been committed.          *)
KnownToLedger(s) == \A n \in 1 .. Len(s) : s[n].seq <= last[s[n].thread]

(* Up to where the connection has written thread t to the socket.          *)
Replaying(t) == window # NoWindow /\ window.thread = t
Written(t) == IF Replaying(t) THEN window.after
              ELSE IF sub[t] = NoSub THEN Len(seen[t]) ELSE sub[t]

(* A replay in progress ends where its subscription begins.                *)
WindowOK ==
  window # NoWindow =>
    /\ window \in Windows
    /\ window.after < window.through
    /\ sub[window.thread] = window.through
    /\ window.through # NoSub

(* The wire holds, in ascending order, exactly what was written and not    *)
(* yet read.                                                               *)
WireOf(t) ==
  /\ Len(seen[t]) <= Written(t) /\ Written(t) <= last[t]
  /\ \A n \in 1 .. Len(wire) : wire[n].thread = t =>
       wire[n].seq \in Len(seen[t]) + 1 .. Written(t)
  /\ \A q \in Len(seen[t]) + 1 .. Written(t) :
       \E n \in 1 .. Len(wire) : wire[n] = Event(t, q)
  /\ \A m, n \in 1 .. Len(wire) :
       m < n /\ wire[m].thread = t /\ wire[n].thread = t =>
         wire[m].seq < wire[n].seq

(* A broken connection leaves nothing to read.                             *)
WireOK == IF conn = "closed" THEN wire = << >> ELSE \A t \in Threads : WireOf(t)

(* A subscription never runs ahead of the ledger.                          *)
SubBound == \A t \in Threads : sub[t] = NoSub \/ sub[t] <= last[t]

(* The inductive invariant: the client is at Len(seen[t]), the connection  *)
(* at Written(t), and the wire holds what lies in between.                 *)
StreamInv ==
  /\ StreamTypes
  /\ KnownToLedger(unsent) /\ KnownToLedger(queue)
  /\ SubBound /\ WindowOK
  /\ ExactlyOnceInOrder
  /\ WireOK

(* Sequences of events: elements, head and tail.                           *)
LEMMA SeqOfEvents ==
  ASSUME NEW s \in Seq(Events)
  PROVE  /\ Len(s) \in Nat
         /\ \A n \in 1 .. Len(s) : /\ s[n] \in Events /\ s[n].thread \in Threads
                                   /\ s[n].seq \in 1 .. MaxSeq
         /\ s # << >> => /\ 1 \in 1 .. Len(s) /\ Head(s) = s[1]
                         /\ Tail(s) \in Seq(Events) /\ Len(Tail(s)) = Len(s) - 1
                         /\ \A n \in 1 .. Len(s) - 1 : Tail(s)[n] = s[n + 1]
<1>1. Len(s) \in Nat BY LenProperties
<1>2. \A n \in 1 .. Len(s) : s[n] \in Events BY ElementOfSeq
<1>3. \A n \in 1 .. Len(s) : s[n].thread \in Threads /\ s[n].seq \in 1 .. MaxSeq
  BY <1>2 DEF Events
<1>4. s # << >> => Len(s) # 0 BY EmptySeq
<1>5. s # << >> => /\ Head(s) = s[1]
                   /\ Tail(s) \in Seq(Events) /\ Len(Tail(s)) = Len(s) - 1
                   /\ \A n \in 1 .. Len(s) - 1 : Tail(s)[n] = s[n + 1]
  BY HeadTailProperties
<1> QED BY <1>1, <1>2, <1>3, <1>4, <1>5

(* A page of the ledger is a sequence of consecutive events.               *)
LEMMA SpanOfEvents ==
  ASSUME NEW t \in Threads, NEW a \in Nat, NEW b \in Nat, a <= b, b <= MaxSeq
  PROVE  /\ Span(t, a, b) \in Seq(Events) /\ Len(Span(t, a, b)) = b - a
         /\ \A n \in 1 .. b - a : Span(t, a, b)[n] = Event(t, a + n)
<1>1. \A n \in 1 .. b - a : Event(t, a + n) \in Events
  BY StreamAssumption DEF Event, Events
<1>2. b - a \in Nat OBVIOUS
<1>3. Span(t, a, b) \in [1 .. b - a -> Events]
  BY <1>1 DEF Span
<1>4. Span(t, a, b) \in Seq(Events)
  BY <1>2, <1>3
<1>5. Len(Span(t, a, b)) = b - a
  BY <1>2, <1>3, <1>4, LenProperties
<1> QED BY <1>4, <1>5 DEF Span

(* Appending the next number to 1, 2, 3, ... continues it.                 *)
LEMMA Identity ==
  ASSUME NEW s \in Seq(Nat), s = [n \in 1 .. Len(s) |-> n], NEW q, q = Len(s) + 1
  PROVE  /\ Append(s, q) \in Seq(Nat) /\ Len(Append(s, q)) = q
         /\ Append(s, q) = [n \in 1 .. Len(Append(s, q)) |-> n]
<1>1. Len(s) \in Nat BY LenProperties
<1>2. /\ Append(s, q) \in Seq(Nat) /\ Len(Append(s, q)) = Len(s) + 1
      /\ \A n \in 1 .. Len(s) : Append(s, q)[n] = s[n]
      /\ Append(s, q)[Len(s) + 1] = q
  BY <1>1, AppendProperties
<1>3. \A n \in 1 .. Len(s) + 1 : Append(s, q)[n] = n
  BY <1>1, <1>2
<1>4. Append(s, q) = [n \in 1 .. Len(s) + 1 |-> Append(s, q)[n]]
  BY <1>2, LenProperties
<1> QED BY <1>1, <1>2, <1>3, <1>4

(* Every action of EventStream keeps its types.                            *)
LEMMA StreamTypeStep ==
  ASSUME StreamInv, [Next]_vars
  PROVE  StreamTypes'
<1> USE DEF StreamInv, StreamTypes
<1>1. ASSUME NEW t \in Threads, Commit(t) PROVE StreamTypes'
  <2>1. PICK n \in 1 .. 2 : /\ last[t] + n <= MaxSeq
                            /\ last' = [last EXCEPT ![t] = @ + n]
                            /\ unsent' = Span(t, last[t], last[t] + n)
    BY <1>1 DEF Commit
  <2>2. unsent' \in Seq(Events)
    <3>1. last[t] \in Nat /\ last[t] + n \in Nat /\ last[t] <= last[t] + n
      BY <2>1
    <3> QED BY <2>1, <3>1, SpanOfEvents
  <2>3. last' \in [Threads -> 0 .. MaxSeq]
    BY <2>1
  <2> QED BY <1>1, <2>2, <2>3 DEF Commit, NoSub
<1>2. ASSUME NEW t \in Threads, Subscribe(t) PROVE StreamTypes'
  <2>1. Cursor(t) \in Nat
    <3>1. CASE seen[t] = << >> BY <3>1 DEF Cursor
    <3>2. CASE seen[t] # << >>
      <4>1. Len(seen[t]) \in 1 .. Len(seen[t]) BY <3>2, EmptySeq, LenProperties
      <4> QED BY <3>2, <4>1, ElementOfSeq DEF Cursor
    <3> QED BY <3>1, <3>2
  <2>2. [thread |-> t, after |-> Cursor(t), through |-> last[t]] \in Windows
    BY <2>1 DEF Windows
  <2>3. sub' \in [Threads -> 0 .. NoSub]
    BY <1>2, StreamAssumption DEF Subscribe, NoSub
  <2> QED BY <1>2, <2>2, <2>3 DEF Subscribe
<1>3. CASE Broadcast
  <2>1. unsent' \in Seq(Events) /\ Head(unsent) \in Events
    BY <1>3, SeqOfEvents DEF Broadcast
  <2>2. queue' \in Seq(Events)
    <3>1. CASE Len(queue) < Buffer BY <1>3, <2>1, <3>1, AppendProperties DEF Broadcast, Received
    <3>2. CASE ~(Len(queue) < Buffer)
      <4>1. queue # << >> BY <3>2, StreamAssumption, EmptySeq
      <4>2. Tail(queue) \in Seq(Events) BY <4>1, SeqOfEvents
      <4> QED BY <1>3, <2>1, <3>2, <4>2, AppendProperties DEF Broadcast, Received
    <3> QED BY <3>1, <3>2
  <2> QED BY <1>3, <2>1, <2>2 DEF Broadcast
<1>4. CASE Connect
  BY <1>4, StreamAssumption DEF Connect, NoSub
<1>5. CASE WriteReplay
  <2> DEFINE upto == ReplayPage(window)
             old == window
  <2>1. /\ window \in Windows /\ window.after < window.through
        /\ window.thread \in Threads /\ window.after \in Nat /\ window.through \in Nat
        /\ window.through <= MaxSeq
    <3>1. /\ window \in Windows /\ window.after < window.through
          /\ sub[window.thread] = window.through /\ window.through # NoSub
      BY <1>5 DEF WriteReplay, WindowOK
    <3>2. /\ window.thread \in Threads /\ window.after \in Nat /\ window.through \in Nat
      BY <3>1 DEF Windows
    <3>3. sub[window.thread] <= last[window.thread] BY <3>1, <3>2 DEF SubBound
    <3>4. last[window.thread] \in 0 .. MaxSeq BY <3>2
    <3>5. window.through <= MaxSeq BY <3>1, <3>2, <3>3, <3>4, StreamAssumption
    <3> QED BY <3>1, <3>2, <3>5
  <2>2. /\ upto \in Nat /\ window.after < upto /\ upto <= window.through
        /\ upto <= MaxSeq
    BY <2>1, StreamAssumption DEF ReplayPage, Least
  <2>3. Span(window.thread, window.after, upto) \in Seq(Events)
    BY <2>1, <2>2, SpanOfEvents, window.after <= upto
  <2>4. wire' \in Seq(Events)
    BY <1>5, <2>3, ConcatProperties DEF WriteReplay
  <2>5. window' \in Windows \cup {NoWindow}
    BY <1>5, <2>1, <2>2 DEF WriteReplay, Windows
  <2> QED BY <1>5, <2>4, <2>5 DEF WriteReplay
<1>6. CASE Deliver
  <2>1. queue' \in Seq(Events) /\ Head(queue) \in Events
    BY <1>6, SeqOfEvents DEF Deliver
  <2>2. Append(wire, Head(queue)) \in Seq(Events)
    BY <2>1, AppendProperties
  <2>3. Head(queue).seq \in 0 .. NoSub
    <3>1. Head(queue).seq \in 1 .. MaxSeq BY <2>1 DEF Events
    <3> QED BY <3>1, StreamAssumption DEF NoSub
  <2>4. /\ wire' = wire \/ wire' = Append(wire, Head(queue))
        /\ sub' = sub \/ sub' = [sub EXCEPT ![Head(queue).thread] = Head(queue).seq]
        /\ conn' = conn \/ conn' = "gap"
    BY <1>6 DEF Deliver
  <2> QED BY <1>6, <2>1, <2>2, <2>3, <2>4 DEF Deliver
<1>7. CASE CloseLagged
  BY <1>7 DEF CloseLagged
<1>8. CASE ClientRead
  <2>1. wire' \in Seq(Events) /\ Head(wire) \in Events
    BY <1>8, SeqOfEvents DEF ClientRead
  <2>2. Head(wire).thread \in Threads /\ Head(wire).seq \in Nat
    BY <2>1 DEF Events
  <2>3. Append(seen[Head(wire).thread], Head(wire).seq) \in Seq(Nat)
    BY <2>2, AppendProperties
  <2> QED BY <1>8, <2>1, <2>3 DEF ClientRead
<1>9. CASE Disconnect BY <1>9 DEF Disconnect
<1>10. CASE Crash BY <1>10 DEF Crash
<1>11. CASE UNCHANGED vars BY <1>11 DEF vars
<1> QED BY <1>1, <1>2, <1>3, <1>4, <1>5, <1>6, <1>7, <1>8, <1>9, <1>10, <1>11
        DEF Next, Connection

(* No event is taken back from the ledger.                                 *)
Grown == /\ last' \in [Threads -> Nat]
         /\ \A t \in Threads : last[t] <= last'[t]

(* What was committed stays committed.                                     *)
LEMMA KnownStays ==
  ASSUME StreamTypes, Grown, NEW s \in Seq(Events), KnownToLedger(s)
  PROVE  KnownToLedger(s)'
<1>1. ASSUME NEW n \in 1 .. Len(s) PROVE s[n].seq <= last'[s[n].thread]
  <2>1. s[n].thread \in Threads /\ s[n].seq \in 1 .. MaxSeq BY SeqOfEvents
  <2>2. s[n].seq <= last[s[n].thread] BY DEF KnownToLedger
  <2>3. last[s[n].thread] \in Nat /\ last'[s[n].thread] \in Nat
    BY <2>1 DEF StreamTypes, Grown
  <2> QED BY <2>1, <2>2, <2>3 DEF Grown
<1> QED BY <1>1 DEF KnownToLedger

(* A step that writes nothing to the client and closes the connection at   *)
(* most in order keeps what is promised of the output.                     *)
LEMMA OutputStays ==
  ASSUME StreamInv, Grown, conn' \in {conn, "gap", "lag"}, conn' = conn \/ conn = "open",
         sub' = sub, window' = window, seen' = seen, wire' = wire
  PROVE  SubBound' /\ WindowOK' /\ ExactlyOnceInOrder' /\ WireOK'
<1>1. SubBound'
  BY DEF SubBound, Grown, StreamInv, StreamTypes, NoSub
<1>2. WindowOK' BY DEF WindowOK, StreamInv
<1>3. ASSUME NEW t \in Threads PROVE Len(seen[t]) \in Nat /\ last[t] \in Nat /\ last'[t] \in Nat /\ last[t] <= last'[t]
  BY LenProperties DEF StreamInv, StreamTypes, Grown
<1>4. ExactlyOnceInOrder'
  BY <1>3 DEF StreamInv, ExactlyOnceInOrder
<1>5. ASSUME NEW t \in Threads, WireOf(t) PROVE WireOf(t)'
  <2>1. Written(t)' = Written(t) BY DEF Written, Replaying
  <2>2. Written(t) \in Nat
    <3>1. CASE Replaying(t) BY <3>1 DEF Written, Replaying, StreamInv, WindowOK, Windows
    <3>2. CASE ~Replaying(t) BY <1>3, <3>2 DEF Written, StreamInv, StreamTypes
    <3> QED BY <3>1, <3>2
  <2> QED BY <1>3, <1>5, <2>1, <2>2 DEF WireOf
<1>6. WireOK' BY <1>5 DEF WireOK, StreamInv
<1> QED BY <1>1, <1>2, <1>4, <1>6

(* The numbers the invariant compares; the cursor a client reconnects with *)
(* is the number of events it has seen.                                    *)
LEMMA StreamNumbers ==
  ASSUME StreamInv, NEW t \in Threads
  PROVE  /\ Len(seen[t]) \in Nat /\ last[t] \in Nat /\ last[t] <= MaxSeq
         /\ sub[t] \in Nat /\ Written(t) \in Nat /\ MaxSeq \in Nat /\ NoSub \in Nat
         /\ Len(seen[t]) <= last[t] /\ Cursor(t) = Len(seen[t])
<1>1. Len(seen[t]) \in Nat /\ last[t] \in Nat /\ sub[t] \in Nat /\ MaxSeq \in Nat
      /\ last[t] <= MaxSeq /\ NoSub \in Nat
  BY LenProperties, StreamAssumption DEF StreamInv, StreamTypes, NoSub
<1>2. Written(t) \in Nat
  <2>1. CASE Replaying(t) BY <2>1 DEF Written, Replaying, StreamInv, WindowOK, Windows
  <2>2. CASE ~Replaying(t) BY <1>1, <2>2 DEF Written, StreamInv, StreamTypes
  <2> QED BY <2>1, <2>2
<1>3. Len(seen[t]) <= last[t] BY DEF StreamInv, ExactlyOnceInOrder
<1>4. Cursor(t) = Len(seen[t])
  <2>1. CASE seen[t] = << >> BY <2>1, EmptySeq DEF Cursor
  <2>2. CASE seen[t] # << >>
    <3>1. Len(seen[t]) \in 1 .. Len(seen[t])
      BY <2>2, EmptySeq, LenProperties DEF StreamInv, StreamTypes
    <3>2. seen[t] = [n \in 1 .. Len(seen[t]) |-> n]
      BY DEF StreamInv, ExactlyOnceInOrder
    <3>3. seen[t][Len(seen[t])] = Len(seen[t]) BY <3>1, <3>2
    <3> QED BY <2>2, <3>3 DEF Cursor
  <2> QED BY <2>1, <2>2
<1> QED BY <1>1, <1>2, <1>3, <1>4

(* The invariant without the types.                                        *)
Kept == /\ KnownToLedger(unsent) /\ KnownToLedger(queue) /\ SubBound
        /\ WindowOK /\ ExactlyOnceInOrder /\ WireOK

(* A commit adds events behind everything that was written.                *)
LEMMA CommitKept ==
  ASSUME StreamInv, NEW t \in Threads, Commit(t) PROVE Kept'
<1>1. PICK n \in 1 .. 2 : /\ last[t] + n <= MaxSeq
                          /\ last' = [last EXCEPT ![t] = @ + n]
                          /\ unsent' = Span(t, last[t], last[t] + n)
  BY DEF Commit
<1>2. last[t] \in Nat /\ last[t] + n \in Nat /\ last[t] <= last[t] + n
  BY StreamNumbers
<1>3. Grown BY <1>1, <1>2 DEF Grown, StreamInv, StreamTypes
<1>4. /\ Len(unsent') = n
      /\ \A m \in 1 .. n : unsent'[m] = Event(t, last[t] + m)
  <2>1. /\ Len(unsent') = (last[t] + n) - last[t]
        /\ \A m \in 1 .. (last[t] + n) - last[t] : unsent'[m] = Event(t, last[t] + m)
    BY <1>1, <1>2, SpanOfEvents
  <2>2. (last[t] + n) - last[t] = n BY <1>2
  <2> QED BY <2>1, <2>2
<1>5. last'[t] = last[t] + n BY <1>1 DEF StreamInv, StreamTypes
<1>6. KnownToLedger(unsent)'
  BY <1>2, <1>4, <1>5 DEF KnownToLedger, Event
<1>7. KnownToLedger(queue)'
  BY <1>3, KnownStays DEF StreamInv, Commit, StreamTypes
<1>8. SubBound' /\ WindowOK' /\ ExactlyOnceInOrder' /\ WireOK'
  BY <1>3, OutputStays DEF Commit
<1> QED BY <1>6, <1>7, <1>8 DEF Kept

(* A broadcast hands committed events to the receiver, over its bound too. *)
LEMMA BroadcastKept ==
  ASSUME StreamInv, Broadcast PROVE Kept'
<1> USE DEF StreamInv, StreamTypes
<1>1. Grown BY DEF Grown, Broadcast
<1>2. SubBound' /\ WindowOK' /\ ExactlyOnceInOrder' /\ WireOK'
  BY <1>1, OutputStays DEF Broadcast
<1>3. /\ Head(unsent) = unsent[1] /\ 1 \in 1 .. Len(unsent) /\ Head(unsent) \in Events
      /\ Len(unsent') = Len(unsent) - 1 /\ Len(unsent) \in Nat
      /\ \A n \in 1 .. Len(unsent) - 1 : unsent'[n] = unsent[n + 1]
  BY SeqOfEvents DEF Broadcast
<1>4. KnownToLedger(unsent)'
  BY <1>3 DEF KnownToLedger, Broadcast
<1>5. KnownToLedger(queue)'
  <2> DEFINE e == Head(unsent)
  <2>0. e.seq <= last[e.thread] BY <1>3 DEF KnownToLedger
  <2>1. ASSUME NEW q \in Seq(Events), KnownToLedger(q) PROVE KnownToLedger(Append(q, e))
    <3>1. Len(q) \in Nat /\ Len(Append(q, e)) = Len(q) + 1
          /\ Append(q, e)[Len(q) + 1] = e /\ \A n \in 1 .. Len(q) : Append(q, e)[n] = q[n]
      BY <1>3, AppendProperties, LenProperties
    <3>2. \A n \in 1 .. Len(q) + 1 : n \in 1 .. Len(q) \/ n = Len(q) + 1 BY <3>1
    <3> QED BY <2>0, <2>1, <3>1, <3>2 DEF KnownToLedger
  <2>2. ASSUME Len(queue) >= Buffer PROVE Tail(queue) \in Seq(Events) /\ KnownToLedger(Tail(queue))
    <3>1. queue # << >> BY <2>2, StreamAssumption, EmptySeq
    <3>2. /\ Tail(queue) \in Seq(Events) /\ Len(Tail(queue)) = Len(queue) - 1 /\ Len(queue) \in Nat
          /\ \A n \in 1 .. Len(queue) - 1 : Tail(queue)[n] = queue[n + 1]
      BY <3>1, SeqOfEvents
    <3> QED BY <3>2 DEF KnownToLedger
  <2>3. Len(queue) < Buffer \/ Len(queue) >= Buffer BY LenProperties, StreamAssumption
  <2>4. KnownToLedger(queue') BY <2>1, <2>2, <2>3 DEF Broadcast, Received
  <2> QED BY <2>4 DEF KnownToLedger, Broadcast
<1> QED BY <1>2, <1>4, <1>5 DEF Kept

(* A new connection starts with an empty wire.                             *)
LEMMA ConnectKept ==
  ASSUME StreamInv, Connect PROVE Kept'
<1> USE DEF Connect
<1>1. KnownToLedger(unsent)' /\ KnownToLedger(queue)'
  BY DEF StreamInv, KnownToLedger
<1>2. SubBound' /\ WindowOK' BY DEF SubBound, WindowOK
<1>3. ExactlyOnceInOrder' BY DEF StreamInv, ExactlyOnceInOrder
<1>4. ASSUME NEW t \in Threads PROVE WireOf(t)'
  <2>1. Written(t)' = Len(seen[t]) BY DEF Written, Replaying
  <2> QED BY <2>1, StreamNumbers DEF WireOf
<1> QED BY <1>1, <1>2, <1>3, <1>4 DEF Kept, WireOK

(* A subscription replays from the cursor to the end it read under the     *)
(* gate.                                                                   *)
LEMMA SubscribeKept ==
  ASSUME StreamInv, NEW t \in Threads, Subscribe(t) PROVE Kept'
<1>0. /\ window = NoWindow /\ sub[t] = NoSub /\ sub' = [sub EXCEPT ![t] = last[t]]
      /\ UNCHANGED <<last, unsent, conn, queue, wire, seen>> /\ conn = "open"
  BY DEF Subscribe
<1>1. KnownToLedger(unsent)' /\ KnownToLedger(queue)'
  BY <1>0 DEF StreamInv, KnownToLedger
<1>2. /\ sub'[t] = last[t]
      /\ \A u \in Threads : u # t => sub'[u] = sub[u]
  BY <1>0 DEF StreamInv, StreamTypes
<1>3. SubBound'
  BY <1>0, <1>2, StreamNumbers DEF SubBound, StreamInv, StreamTypes
<1>4. last[t] # NoSub BY StreamNumbers DEF NoSub
<1>5. \/ Len(seen[t]) = last[t] /\ window' = NoWindow
      \/ /\ Len(seen[t]) # last[t]
         /\ window' = [thread |-> t, after |-> Len(seen[t]), through |-> last[t]]
         /\ window' # NoWindow /\ window'.thread = t /\ window'.after = Len(seen[t])
         /\ window'.through = last[t] /\ window'.after < window'.through
  <2>1. CASE Len(seen[t]) = last[t] BY <2>1, StreamNumbers DEF Subscribe
  <2>2. CASE Len(seen[t]) # last[t]
    <3>1. window' = [thread |-> t, after |-> Len(seen[t]), through |-> last[t]]
      BY <2>2, StreamNumbers DEF Subscribe
    <3>2. window'.after < window'.through BY <2>2, <3>1, StreamNumbers
    <3> QED BY <2>2, <3>1, <3>2 DEF NoWindow
  <2> QED BY <2>1, <2>2
<1>6. WindowOK'
  BY <1>2, <1>4, <1>5, StreamNumbers DEF WindowOK, Windows
<1>7. ExactlyOnceInOrder' BY <1>0 DEF StreamInv, ExactlyOnceInOrder
<1>8. ASSUME NEW u \in Threads PROVE WireOf(u)'
  <2>1. WireOf(u) BY <1>0 DEF StreamInv, WireOK
  <2>2. CASE u = t
    <3>1. Written(t) = Len(seen[t]) BY <1>0 DEF Written, Replaying
    <3>2. Written(t)' = Len(seen[t]) BY <1>0, <1>2, <1>4, <1>5 DEF Written, Replaying
    <3> QED BY <1>0, <2>1, <2>2, <3>1, <3>2 DEF WireOf
  <2>3. CASE u # t
    <3>1. Written(u)' = Written(u) BY <1>0, <1>2, <1>5, <2>3 DEF Written, Replaying
    <3> QED BY <1>0, <2>1, <3>1 DEF WireOf
  <2> QED BY <2>2, <2>3
<1> QED BY <1>0, <1>1, <1>3, <1>6, <1>7, <1>8 DEF Kept, WireOK

(* Writing events of t that continue what was written keeps the wire in    *)
(* order, for t and for every other thread.                                *)
LEMMA WireExtended ==
  ASSUME StreamInv, conn = "open", NEW t \in Threads,
         seen' = seen, last' = last,
         NEW b \in Nat, Written(t) <= b, b <= last[t],
         Written(t)' = b, \A u \in Threads : u # t => Written(u)' = Written(u),
         Len(wire') = Len(wire) + (b - Written(t)),
         \A n \in 1 .. Len(wire) : wire'[n] = wire[n],
         \A n \in 1 .. b - Written(t) : wire'[Len(wire) + n] = Event(t, Written(t) + n),
         NEW u \in Threads
  PROVE  WireOf(u)'
<1> DEFINE a == Written(t)
<1>0. /\ a \in Nat /\ Len(wire) \in Nat /\ Len(seen[u]) \in Nat /\ Len(seen[t]) \in Nat /\ Written(u) \in Nat
  BY StreamNumbers, SeqOfEvents DEF StreamInv, StreamTypes
<1>1. WireOf(u) BY DEF StreamInv, WireOK
<1>2. ASSUME NEW n \in 1 .. Len(wire')
      PROVE  \/ n \in 1 .. Len(wire) /\ wire'[n] = wire[n]
             \/ /\ n > Len(wire) /\ wire'[n].thread = t
                /\ wire'[n].seq = a + (n - Len(wire)) /\ n - Len(wire) \in 1 .. b - a
  <2>1. CASE n \in 1 .. Len(wire) BY <2>1
  <2>2. CASE n \notin 1 .. Len(wire)
    <3>1. n - Len(wire) \in 1 .. b - a /\ n > Len(wire) BY <1>0, <2>2
    <3>2. wire'[Len(wire) + (n - Len(wire))] = Event(t, a + (n - Len(wire))) BY <3>1
    <3>3. Len(wire) + (n - Len(wire)) = n BY <1>0
    <3> QED BY <3>1, <3>2, <3>3 DEF Event
  <2> QED BY <2>1, <2>2
<1>3. ASSUME NEW n \in 1 .. Len(wire') , wire'[n].thread = u
      PROVE  wire'[n].seq \in Len(seen[u]) + 1 .. Written(u)'
  <2>1. CASE n \in 1 .. Len(wire) /\ wire'[n] = wire[n]
    <3>1. wire[n].seq \in Len(seen[u]) + 1 .. Written(u) BY <1>1, <1>3, <2>1 DEF WireOf
    <3>2. Written(u)' \in Nat /\ Written(u) <= Written(u)'
      <4>1. CASE u = t BY <1>0, <4>1
      <4>2. CASE u # t BY <1>0, <4>2
      <4> QED BY <4>1, <4>2
    <3> QED BY <1>0, <2>1, <3>1, <3>2
  <2>2. CASE /\ wire'[n].thread = t
             /\ wire'[n].seq = a + (n - Len(wire)) /\ n - Len(wire) \in 1 .. b - a
    <3>1. u = t BY <1>3, <2>2
    <3>2. Len(seen[t]) <= a BY <1>1, <3>1 DEF WireOf
    <3> QED BY <1>0, <2>2, <3>1, <3>2
  <2> QED BY <1>2, <2>1, <2>2
<1>4. ASSUME NEW q \in Len(seen[u]) + 1 .. Written(u)'
      PROVE  \E n \in 1 .. Len(wire') : wire'[n] = Event(u, q)
  <2>1. CASE q <= Written(u)
    <3>1. q \in Len(seen[u]) + 1 .. Written(u) BY <1>0, <2>1
    <3>2. PICK n \in 1 .. Len(wire) : wire[n] = Event(u, q) BY <1>1, <3>1 DEF WireOf
    <3> QED BY <1>0, <3>2
  <2>2. CASE ~(q <= Written(u))
    <3>1. u = t /\ q - a \in 1 .. b - a /\ a + (q - a) = q BY <1>0, <2>2
    <3>2. wire'[Len(wire) + (q - a)] = Event(t, q) BY <3>1
    <3>3. Len(wire) + (q - a) \in 1 .. Len(wire') BY <1>0, <3>1
    <3> QED BY <3>1, <3>2, <3>3
  <2> QED BY <2>1, <2>2
<1>5. ASSUME NEW m \in 1 .. Len(wire'), NEW n \in 1 .. Len(wire'),
             m < n, wire'[m].thread = u, wire'[n].thread = u
      PROVE  wire'[m].seq < wire'[n].seq
  <2>1. CASE n \in 1 .. Len(wire)
    <3>1. m \in 1 .. Len(wire) BY <1>0, <1>5, <2>1
    <3> QED BY <1>1, <1>5, <2>1, <3>1 DEF WireOf
  <2>2. CASE n \notin 1 .. Len(wire)
    <3>1. u = t /\ wire'[n].seq = a + (n - Len(wire)) /\ n > Len(wire) BY <1>2, <1>5, <2>2
    <3>2. CASE m \in 1 .. Len(wire)
      <4>1. wire[m].seq \in Len(seen[u]) + 1 .. a BY <1>1, <1>5, <3>1, <3>2 DEF WireOf
      <4> QED BY <1>0, <3>1, <3>2, <4>1
    <3>3. CASE m \notin 1 .. Len(wire)
      <4>1. wire'[m].seq = a + (m - Len(wire)) BY <1>2, <1>5, <3>3
      <4> QED BY <1>0, <1>5, <3>1, <4>1
    <3> QED BY <3>2, <3>3
  <2> QED BY <2>1, <2>2
<1>6. Len(seen[u]) <= Written(u)' /\ Written(u)' <= last[u]
  BY <1>0, <1>1 DEF WireOf
<1> QED BY <1>3, <1>4, <1>5, <1>6 DEF WireOf, Event

(* A page of the replay continues what was written.                        *)
LEMMA WriteReplayKept ==
  ASSUME StreamInv, WriteReplay PROVE Kept'
<1>t. PICK t : t = window.thread OBVIOUS
<1>b. PICK b : b = ReplayPage(window) OBVIOUS
<1>0. /\ conn = "open" /\ window # NoWindow
      /\ wire' = wire \o Span(t, window.after, b)
      /\ window' = IF b >= window.through THEN NoWindow ELSE [window EXCEPT !.after = b]
      /\ UNCHANGED <<last, unsent, conn, queue, sub, seen>>
  BY <1>t, <1>b DEF WriteReplay
<1>1. /\ window \in Windows /\ window.after < window.through
      /\ sub[t] = window.through /\ window.through # NoSub
  BY <1>0, <1>t DEF WindowOK, StreamInv
<1>2. t \in Threads /\ window.after \in Nat /\ window.through \in Nat
  BY <1>1, <1>t DEF Windows
<1>3. window.through <= last[t] /\ last[t] <= MaxSeq
  BY <1>1, <1>2, StreamNumbers DEF StreamInv, SubBound
<1>4. b \in Nat /\ window.after < b /\ window.after <= b /\ b <= window.through /\ b <= MaxSeq /\ b <= last[t]
  BY <1>b, <1>2, <1>3, <1>1, StreamAssumption, StreamNumbers DEF ReplayPage, Least
<1>5. Written(t) = window.after BY <1>0, <1>t DEF Written, Replaying
<1>6. \/ b = window.through /\ window' = NoWindow
      \/ /\ b < window.through /\ window' # NoWindow /\ window' \in Windows
         /\ window'.thread = t /\ window'.after = b /\ window'.through = window.through
  <2>1. CASE b >= window.through BY <1>0, <1>2, <1>4, <2>1
  <2>2. CASE ~(b >= window.through)
    <3>1. window' = [window EXCEPT !.after = b] BY <1>0, <2>2
    <3>2. /\ window' \in Windows /\ window'.thread = t /\ window'.after = b
          /\ window'.through = window.through
      BY <1>t, <1>1, <1>4, <3>1 DEF Windows
    <3> QED BY <1>2, <1>4, <2>2, <3>2 DEF NoWindow
  <2> QED BY <2>1, <2>2
<1>7. Written(t)' = b
  BY <1>0, <1>1, <1>6 DEF Written, Replaying
<1>8. \A u \in Threads : u # t => Written(u)' = Written(u)
  BY <1>t, <1>0, <1>6 DEF Written, Replaying
<1>9. /\ Span(t, window.after, b) \in Seq(Events) /\ Len(Span(t, window.after, b)) = b - window.after
      /\ \A n \in 1 .. b - window.after : Span(t, window.after, b)[n] = Event(t, window.after + n)
  BY <1>2, <1>4, SpanOfEvents
<1>10. wire \in Seq(Events) /\ Len(wire) \in Nat
  BY SeqOfEvents DEF StreamInv, StreamTypes
<1>11. /\ Len(wire') = Len(wire) + (b - Written(t))
       /\ \A n \in 1 .. Len(wire) : wire'[n] = wire[n]
       /\ \A n \in 1 .. b - Written(t) : wire'[Len(wire) + n] = Event(t, Written(t) + n)
  <2> DEFINE s == Span(t, window.after, b)
  <2>1. /\ Len(wire \o s) = Len(wire) + Len(s)
        /\ \A i \in 1 .. Len(wire) + Len(s) : (wire \o s)[i] =
                     IF i <= Len(wire) THEN wire[i] ELSE s[i - Len(wire)]
    BY <1>9, <1>10, ConcatProperties
  <2>2. ASSUME NEW n \in 1 .. Len(wire) PROVE wire'[n] = wire[n]
    <3>1. n \in 1 .. Len(wire) + Len(s) /\ n <= Len(wire) BY <1>4, <1>9, <1>10, <1>2
    <3> QED BY <1>0, <2>1, <3>1
  <2>3. ASSUME NEW n \in 1 .. b - window.after PROVE wire'[Len(wire) + n] = Event(t, window.after + n)
    <3>1. Len(wire) + n \in 1 .. Len(wire) + Len(s) /\ ~(Len(wire) + n <= Len(wire))
          /\ (Len(wire) + n) - Len(wire) = n
      BY <1>2, <1>4, <1>9, <1>10
    <3>2. (wire \o s)[Len(wire) + n] = s[n] BY <2>1, <3>1
    <3> QED BY <1>0, <1>9, <3>2
  <2> QED BY <1>0, <1>5, <1>9, <2>1, <2>2, <2>3
<1>12. \A u \in Threads : WireOf(u)'
  BY <1>0, <1>2, <1>4, <1>5, <1>7, <1>8, <1>11, WireExtended
<1>13. WindowOK'
  BY <1>0, <1>1, <1>4, <1>6 DEF WindowOK
<1>14. KnownToLedger(unsent)' /\ KnownToLedger(queue)' /\ SubBound' /\ ExactlyOnceInOrder'
  BY <1>0 DEF StreamInv, KnownToLedger, SubBound, ExactlyOnceInOrder
<1> QED BY <1>0, <1>12, <1>13, <1>14 DEF Kept, WireOK

(* A live event is written only if it continues what was written           *)
(* (serve_connection skips what the replay covered and closes on a gap).   *)
LEMMA DeliverKept ==
  ASSUME StreamInv, Deliver PROVE Kept'
<1> DEFINE e == Head(queue)
<1>0. /\ conn = "open" /\ window = NoWindow /\ queue # << >> /\ queue' = Tail(queue)
      /\ UNCHANGED <<last, unsent, window, seen>>
  BY DEF Deliver
<1>1. queue \in Seq(Events) /\ wire \in Seq(Events) BY DEF StreamInv, StreamTypes
<1>2. /\ e = queue[1] /\ 1 \in 1 .. Len(queue) /\ Len(queue) \in Nat
      /\ Len(queue') = Len(queue) - 1
      /\ \A n \in 1 .. Len(queue) - 1 : queue'[n] = queue[n + 1]
      /\ e \in Events /\ e.thread \in Threads /\ e.seq \in 1 .. MaxSeq
  BY <1>0, <1>1, SeqOfEvents
<1>3. KnownToLedger(queue)' /\ KnownToLedger(unsent)'
  BY <1>0, <1>2 DEF StreamInv, KnownToLedger
<1>4. Grown BY <1>0 DEF Grown, StreamInv, StreamTypes
<1>5. CASE conn' \in {conn, "gap"} /\ sub' = sub /\ wire' = wire
  BY <1>0, <1>3, <1>4, <1>5, OutputStays DEF Kept
<1>6. CASE /\ sub[e.thread] # NoSub /\ e.seq = sub[e.thread] + 1
           /\ wire' = Append(wire, e) /\ sub' = [sub EXCEPT ![e.thread] = e.seq]
           /\ conn' = conn
  <2>t. PICK t : t = e.thread OBVIOUS
  <2>b. PICK b : b = e.seq OBVIOUS
  <2>1. /\ sub'[t] = b /\ \A u \in Threads : u # t => sub'[u] = sub[u]
    BY <1>2, <1>6, <2>t, <2>b DEF StreamInv, StreamTypes
  <2>2. b <= last[t] BY <1>2, <2>t, <2>b DEF StreamInv, KnownToLedger
  <2>3. Written(t) = sub[t] /\ b # NoSub
    BY <1>0, <1>2, <1>6, <2>t, <2>b, StreamAssumption DEF Written, Replaying, NoSub
  <2>4. Written(t)' = b BY <1>0, <2>1, <2>3 DEF Written, Replaying
  <2>5. \A u \in Threads : u # t => Written(u)' = Written(u)
    BY <1>0, <2>1 DEF Written, Replaying
  <2>6. /\ Len(wire) \in Nat /\ Len(wire') = Len(wire) + 1
        /\ \A n \in 1 .. Len(wire) : wire'[n] = wire[n]
        /\ wire'[Len(wire) + 1] = e
    BY <1>1, <1>2, <1>6, AppendProperties, LenProperties
  <2>7. e = Event(t, b) BY <1>2, <2>t, <2>b DEF Event, Events
  <2>8. Written(t) \in Nat /\ b \in Nat /\ b - Written(t) = 1 /\ Written(t) + 1 = b /\ Written(t) <= b
    BY <1>2, <1>6, <2>t, <2>b, <2>3, StreamNumbers
  <2>9. \A n \in 1 .. b - Written(t) : wire'[Len(wire) + n] = Event(t, Written(t) + n)
    BY <2>6, <2>7, <2>8
  <2>10. Len(wire') = Len(wire) + (b - Written(t)) BY <2>6, <2>8
  <2>11. t \in Threads BY <1>2, <2>t
  <2>12. \A u \in Threads : WireOf(u)'
    BY <1>0, <2>2, <2>4, <2>5, <2>6, <2>8, <2>9, <2>10, <2>11, WireExtended
  <2>13. SubBound'
    BY <1>0, <2>1, <2>2 DEF StreamInv, SubBound
  <2>14. WindowOK' /\ ExactlyOnceInOrder'
    BY <1>0 DEF StreamInv, WindowOK, ExactlyOnceInOrder
  <2> QED BY <1>0, <1>3, <1>6, <2>12, <2>13, <2>14 DEF Kept, WireOK
<1> QED BY <1>5, <1>6 DEF Deliver

(* The first event of a thread on the wire is the next one for the client. *)
LEMMA ClientReadKept ==
  ASSUME StreamInv, ClientRead PROVE Kept'
<1> USE DEF StreamInv
<1>0. /\ wire # << >> /\ wire' = Tail(wire)
      /\ seen' = [seen EXCEPT ![Head(wire).thread] = Append(@, Head(wire).seq)]
      /\ UNCHANGED <<last, unsent, conn, queue, sub, window>>
  BY DEF ClientRead
<1>1. PICK t, q : t = Head(wire).thread /\ q = Head(wire).seq OBVIOUS
<1>2. /\ Head(wire) = wire[1] /\ 1 \in 1 .. Len(wire) /\ Len(wire) \in Nat
      /\ Len(wire') = Len(wire) - 1
      /\ \A n \in 1 .. Len(wire) - 1 : wire'[n] = wire[n + 1]
      /\ wire[1] \in Events /\ t \in Threads /\ q \in 1 .. MaxSeq
      /\ wire[1].thread = t /\ wire[1].seq = q
  BY <1>0, <1>1, SeqOfEvents DEF StreamTypes
<1>3. conn # "closed" /\ \A u \in Threads : WireOf(u)
  BY <1>0 DEF WireOK
<1>4. Len(seen[t]) \in Nat /\ Written(t) \in Nat /\ seen[t] \in Seq(Nat)
  BY <1>2, StreamNumbers DEF StreamTypes
<1>5. q \in Len(seen[t]) + 1 .. Written(t) BY <1>2, <1>3 DEF WireOf
<1>6. q = Len(seen[t]) + 1
  <2>1. Len(seen[t]) + 1 \in Len(seen[t]) + 1 .. Written(t) BY <1>4, <1>5
  <2>2. PICK n \in 1 .. Len(wire) : wire[n] = Event(t, Len(seen[t]) + 1)
    BY <1>2, <1>3, <2>1 DEF WireOf
  <2>3. wire[n].thread = t /\ wire[n].seq = Len(seen[t]) + 1 BY <2>2 DEF Event
  <2>4. CASE n = 1 BY <1>2, <2>3, <2>4
  <2>5. CASE n # 1
    <3>1. q < wire[n].seq BY <1>2, <1>3, <2>3, <2>5 DEF WireOf
    <3> QED BY <1>4, <1>5, <2>3, <3>1
  <2> QED BY <2>4, <2>5
<1>7. /\ seen'[t] = Append(seen[t], q)
      /\ \A u \in Threads : u # t => seen'[u] = seen[u]
  BY <1>0, <1>1, <1>2 DEF StreamTypes
<1>8. /\ seen'[t] = [n \in 1 .. Len(seen'[t]) |-> n] /\ Len(seen'[t]) = q
  <2>1. seen[t] = [n \in 1 .. Len(seen[t]) |-> n] BY <1>2 DEF ExactlyOnceInOrder
  <2>2. /\ Len(Append(seen[t], q)) = q
        /\ Append(seen[t], q) = [n \in 1 .. Len(Append(seen[t], q)) |-> n]
    BY <1>4, <1>6, <2>1, Identity
  <2> QED BY <1>7, <2>2
<1>9. Written(t) <= last[t] /\ last[t] \in Nat /\ q <= Written(t)
  BY <1>2, <1>3, <1>4, <1>5, StreamNumbers DEF WireOf
<1>10. ExactlyOnceInOrder'
  <2>1. q <= last[t] BY <1>4, <1>2, <1>9
  <2> QED BY <1>0, <1>7, <1>8, <2>1 DEF ExactlyOnceInOrder
<1>11. ASSUME NEW u \in Threads, u # t PROVE WireOf(u)'
  <2>1. Written(u)' = Written(u) BY <1>0, <1>7, <1>11 DEF Written, Replaying
  <2>2. WireOf(u) BY <1>3
  <2>3. \A n \in 1 .. Len(wire') : wire'[n] = wire[n + 1] /\ n + 1 \in 1 .. Len(wire)
    BY <1>2
  <2>4. ASSUME NEW x \in Len(seen[u]) + 1 .. Written(u)
        PROVE \E n \in 1 .. Len(wire') : wire'[n] = Event(u, x)
    <3>1. PICK n \in 1 .. Len(wire) : wire[n] = Event(u, x) BY <2>2 DEF WireOf
    <3>2. n # 1 BY <1>2, <1>11, <3>1 DEF Event
    <3>3. n - 1 \in 1 .. Len(wire) - 1 /\ (n - 1) + 1 = n BY <1>2, <3>2
    <3>4. wire'[n - 1] = wire[n] BY <1>2, <3>3
    <3> QED BY <1>2, <3>1, <3>3, <3>4
  <2>5. ASSUME NEW m \in 1 .. Len(wire'), NEW n \in 1 .. Len(wire'),
               m < n, wire'[m].thread = u, wire'[n].thread = u
        PROVE  wire'[m].seq < wire'[n].seq
    <3>1. m + 1 < n + 1 BY <2>5
    <3>2. /\ wire'[m] = wire[m + 1] /\ m + 1 \in 1 .. Len(wire)
          /\ wire'[n] = wire[n + 1] /\ n + 1 \in 1 .. Len(wire)
      BY <2>3
    <3> QED BY <2>2, <2>5, <3>1, <3>2 DEF WireOf
  <2>6. \A n \in 1 .. Len(wire') : wire'[n].thread = u =>
         wire'[n].seq \in Len(seen[u]) + 1 .. Written(u)
    BY <2>2, <2>3 DEF WireOf
  <2>7. Len(seen[u]) <= Written(u) /\ Written(u) <= last[u] BY <2>2 DEF WireOf
  <2> QED BY <1>0, <1>7, <1>11, <2>1, <2>4, <2>5, <2>6, <2>7 DEF WireOf, Event
<1>12. WireOf(t)'
  <2>1. Written(t)' = Written(t)
    <3>1. CASE Replaying(t) BY <1>0, <3>1 DEF Written, Replaying
    <3>2. CASE ~Replaying(t) /\ sub[t] # NoSub BY <1>0, <3>2 DEF Written, Replaying
    <3>3. CASE ~Replaying(t) /\ sub[t] = NoSub
      BY <1>4, <1>5, <3>3 DEF Written
    <3> QED BY <3>1, <3>2, <3>3
  <2>2. WireOf(t) BY <1>2, <1>3
  <2>3. \A n \in 1 .. Len(wire') : wire'[n] = wire[n + 1] /\ n + 1 \in 1 .. Len(wire)
    BY <1>2
  <2>4. ASSUME NEW x \in q + 1 .. Written(t)
        PROVE \E n \in 1 .. Len(wire') : wire'[n] = Event(t, x)
    <3>1. PICK n \in 1 .. Len(wire) : wire[n] = Event(t, x)
      BY <1>4, <1>6, <2>2, x \in Len(seen[t]) + 1 .. Written(t) DEF WireOf
    <3>2. n # 1 BY <1>2, <3>1 DEF Event
    <3>3. n - 1 \in 1 .. Len(wire) - 1 /\ (n - 1) + 1 = n BY <1>2, <3>2
    <3>4. wire'[n - 1] = wire[n] BY <1>2, <3>3
    <3> QED BY <1>2, <3>1, <3>3, <3>4
  <2>5. ASSUME NEW m \in 1 .. Len(wire'), NEW n \in 1 .. Len(wire'),
               m < n, wire'[m].thread = t, wire'[n].thread = t
        PROVE  wire'[m].seq < wire'[n].seq
    <3>1. m + 1 < n + 1 BY <2>5
    <3>2. /\ wire'[m] = wire[m + 1] /\ m + 1 \in 1 .. Len(wire)
          /\ wire'[n] = wire[n + 1] /\ n + 1 \in 1 .. Len(wire)
      BY <2>3
    <3> QED BY <2>2, <2>5, <3>1, <3>2 DEF WireOf
  <2>6. ASSUME NEW n \in 1 .. Len(wire'), wire'[n].thread = t
        PROVE  wire'[n].seq \in q + 1 .. Written(t)
    <3>1. wire'[n] = wire[n + 1] /\ n + 1 \in 1 .. Len(wire) /\ 1 < n + 1 BY <2>3
    <3>2. q < wire[n + 1].seq BY <1>2, <2>2, <2>6, <3>1 DEF WireOf
    <3>3. wire[n + 1].seq \in Len(seen[t]) + 1 .. Written(t) BY <2>2, <2>6, <3>1 DEF WireOf
    <3> QED BY <1>4, <1>6, <3>1, <3>2, <3>3
  <2> QED BY <1>0, <1>8, <1>9, <2>1, <2>4, <2>5, <2>6 DEF WireOf, Event
<1>13. KnownToLedger(unsent)' /\ KnownToLedger(queue)' /\ SubBound' /\ WindowOK'
  BY <1>0 DEF KnownToLedger, SubBound, WindowOK
<1> QED BY <1>0, <1>3, <1>10, <1>11, <1>12, <1>13 DEF Kept, WireOK

(* The invariant of EventStream is inductive.                              *)
LEMMA StreamStep ==
  ASSUME StreamInv, [Next]_vars PROVE StreamInv'
<1>0. StreamTypes' BY StreamTypeStep
<1> SUFFICES Kept' BY <1>0 DEF Kept, StreamInv
<1>1. CASE CloseLagged
  <2>1. Grown BY <1>1 DEF Grown, StreamInv, StreamTypes, CloseLagged
  <2>2. KnownToLedger(unsent)' /\ KnownToLedger(queue)'
    BY <1>1 DEF StreamInv, KnownToLedger, CloseLagged
  <2> QED BY <1>1, <2>1, <2>2, OutputStays DEF CloseLagged, Kept
<1>2. CASE Disconnect
  BY <1>2 DEF Disconnect, Kept, StreamInv, KnownToLedger, SubBound, WindowOK,
      ExactlyOnceInOrder, WireOK
<1>3. CASE Crash
  BY <1>3 DEF Crash, Kept, StreamInv, KnownToLedger, SubBound, WindowOK, ExactlyOnceInOrder, WireOK
<1>4. CASE UNCHANGED vars
  <2>1. Grown BY <1>4 DEF Grown, StreamInv, StreamTypes, vars
  <2>2. KnownToLedger(unsent)' /\ KnownToLedger(queue)'
    BY <1>4 DEF StreamInv, KnownToLedger, vars
  <2> QED BY <1>4, <2>1, <2>2, OutputStays DEF vars, Kept
<1> QED BY <1>1, <1>2, <1>3, <1>4, CommitKept, SubscribeKept, BroadcastKept, ConnectKept,
           WriteReplayKept, DeliverKept, ClientReadKept DEF Next, Connection

(* The client sees every thread as 1, 2, 3, ... over all its connections,  *)
(* for any number of threads, any buffer and page size and any number of   *)
(* broken connections and crashes (write_replay, the live branch of        *)
(* serve_connection).                                                      *)
THEOREM ClientSeesExactlyOnceInOrder == Spec => []ExactlyOnceInOrder
<1>1. Init => StreamInv
  BY EmptySeq, StreamAssumption DEF Init, StreamInv, StreamTypes, KnownToLedger, SubBound,
      WindowOK, ExactlyOnceInOrder, WireOK, NoSub
<1>2. StreamInv /\ [Next]_vars => StreamInv' BY StreamStep
<1>3. StreamInv => ExactlyOnceInOrder BY DEF StreamInv
<1> QED BY <1>1, <1>2, <1>3, PTL DEF Spec

=============================================================================
