---------------------------- MODULE ModelStream ----------------------------
(***************************************************************************)
(* One response of the model provider, from the bytes of the HTTP body to  *)
(* what the runner does with it: SseDecoder, parse_chunk, the sink with    *)
(* its tool-call assembler, and the checks after the stream.               *)
(*                                                                         *)
(* The body is a sequence of tokens.  A payload is two tokens, so that it  *)
(* can be cut in the middle; CR and LF are the line-end bytes, and every   *)
(* payload ends its lines in one of the two styles.  The connection may    *)
(* end or break anywhere, and the bytes arrive in chunks of any size.      *)
(* Credentials in the output are the subject of Redactor.                  *)
(***************************************************************************)
EXTENDS Naturals, Sequences

CONSTANTS
  Bodies,      \* sequences of payloads a provider sends
  Indices,     \* tool-call indices of the provider
  MaxChunk,    \* tokens that arrive at once (model bound)
  MaxBuffer,   \* MAX_SSE_BUFFER_BYTES
  MaxCalls,    \* max_calls of the assembler
  MaxArgs,     \* argument fragments of one call
  MaxRound     \* argument fragments of one round

VARIABLES
  body,      \* the payloads sent
  wire,      \* their encoding, up to where the connection breaks
  pos,       \* tokens received
  buffer,    \* SseDecoder::buffer
  st,        \* what was parsed, persisted and collected
  verdict    \* what the runner makes of it

vars == <<body, wire, pos, buffer, st, verdict>>

Absent == "absent"
Junk == [k |-> "junk"]

CR == <<0, "r">>
LF == <<0, "n">>
Break(crlf) == IF crlf THEN <<CR, LF, CR, LF>> ELSE <<LF, LF>>
Frame(n, crlf) == <<<<n, "head">>, <<n, "tail">>>> \o Break(crlf)
Encode(b, crlf) ==
  LET upto[n \in 0 .. Len(b)] ==
        IF n = 0 THEN << >> ELSE upto[n - 1] \o Frame(n, crlf[n])
  IN upto[Len(b)]

(* The beginnings of a sequence.                                           *)
Cuts(w) == {SubSeq(w, 1, cut) : cut \in 0 .. Len(w)}

Start ==
  [ids |-> [i \in Indices |-> [id |-> Absent, name |-> Absent]],
   completed |-> FALSE, failed |-> FALSE, text |-> << >>, calls |-> << >>,
   completions |-> 0, stop |-> "end", round |-> 0]

Init ==
  /\ body \in Bodies
  /\ \E crlf \in [1 .. Len(body) -> BOOLEAN] : wire \in Cuts(Encode(body, crlf))
  /\ pos = 0 /\ buffer = << >> /\ st = Start /\ verdict = "open"

-----------------------------------------------------------------------------
(* SseDecoder.                                                             *)

At(s, sep) ==
  {n \in 1 .. Len(s) : n + Len(sep) - 1 <= Len(s)
                         /\ SubSeq(s, n, n + Len(sep) - 1) = sep}
First(S) == CHOOSE n \in S : \A m \in S : n <= m

BoundaryLf(s) ==
  IF At(s, Break(FALSE)) # {} THEN <<First(At(s, Break(FALSE))), 2>> ELSE <<0, 0>>
Boundary(s) ==
  IF At(s, Break(FALSE)) # {} THEN <<First(At(s, Break(FALSE))), 2>>
  ELSE IF At(s, Break(TRUE)) # {} THEN <<First(At(s, Break(TRUE))), 4>>
  ELSE <<0, 0>>

(* decode_sse_block and the JSON parser.  A block may hold several         *)
(* payloads, when a boundary in the preferred style ends it; their data    *)
(* are joined, and two payloads are no JSON.  Nor is half a payload, or    *)
(* [DONE] with a stray carriage return.  Comments have no data, and blocks *)
(* without data are no events.                                             *)
Has(s, token) == \E i \in 1 .. Len(s) : s[i] = token
EndsStray(s, n) == s[Len(s)] = CR /\ s[Len(s) - 1] = <<n, "tail">>

Decode(b, block) ==
  LET begun == {n \in 1 .. Len(b) : b[n].k # "comment" /\ Has(block, <<n, "head">>)}
      n == First(begun)
  IN IF begun = {} THEN << >>
     ELSE IF \/ \E m \in begun : m # n
             \/ ~Has(block, <<n, "tail">>)
             \/ b[n].k = "done" /\ EndsStray(block, n)
     THEN <<Junk>>
     ELSE <<b[n]>>

(* The loop of drain; there are fewer blocks than tokens.                  *)
Drain(b, s) ==
  LET after[n \in 0 .. Len(s)] ==
        IF n = 0 THEN [rest |-> s, events |-> << >>]
        ELSE LET d == after[n - 1]
                 at == Boundary(d.rest)
             IN IF at[1] = 0 THEN d
                ELSE [rest |-> SubSeq(d.rest, at[1] + at[2], Len(d.rest)),
                      events |-> d.events \o Decode(b, SubSeq(d.rest, 1, at[1] - 1))]
  IN after[Len(s)]

-----------------------------------------------------------------------------
(* process_sse_data and the sink.                                          *)

Fail(s) == [s EXCEPT !.failed = TRUE]
Complete(s, stop) ==
  [s EXCEPT !.completed = TRUE, !.completions = @ + 1, !.stop = stop]

Find(calls, id) == {n \in DOMAIN calls : calls[n].id = id}

Push(s, id, name, args) ==
  LET known == Find(s.calls, id) # {}
      opened == IF known THEN s.calls
                ELSE Append(s.calls, [id |-> id, name |-> name, args |-> << >>])
      n == First(Find(opened, id))
      old == opened[n].name
  IN IF \/ id = Absent
        \/ ~known /\ Len(s.calls) >= MaxCalls
        \/ name # Absent /\ old # Absent /\ name # old
        \/ Len(opened[n].args) + Len(args) > MaxArgs
        \/ s.round + Len(args) > MaxRound
     THEN Fail(s)
     ELSE [s EXCEPT
             !.calls = [opened EXCEPT
                          ![n] = [id |-> id,
                                  name |-> IF old = Absent THEN name ELSE old,
                                  args |-> @.args \o args]],
             !.round = @ + Len(args)]

(* parse_chunk remembers id and name per index; a delta that says nothing  *)
(* is no event.                                                            *)
ToolDelta(s, p) ==
  LET old == s.ids[p.index]
      new == [id |-> IF p.id = Absent THEN old.id ELSE p.id,
              name |-> IF p.name = Absent THEN old.name ELSE p.name]
      known == [s EXCEPT !.ids[p.index] = new]
  IN IF p.args = << >> /\ new.id = Absent /\ new.name = Absent THEN known
     ELSE Push(known, new.id, new.name, p.args)

ProcessSseData(s, p) ==
  IF s.failed THEN s
  ELSE CASE p.k = "junk" -> Fail(s)
         [] p.k = "done" -> IF s.completed THEN s ELSE Complete(s, "end")
         [] p.k = "text" -> [s EXCEPT !.text = Append(@, p.v)]
         [] p.k = "call" -> ToolDelta(s, p)
         [] p.k = "finish" -> Complete(s, p.reason)

Feed(s, events) ==
  LET fed[n \in 0 .. Len(events)] ==
        IF n = 0 THEN s ELSE ProcessSseData(fed[n - 1], events[n])
  IN fed[Len(events)]

-----------------------------------------------------------------------------
(* After the stream: stream_inner, finish of the assembler, run_inner.     *)

ValidArgs(args) == args = << >> \/ args = <<"{", "}">>

VerdictOfAny(s) ==
  IF s.failed THEN "failed" ELSE IF s.calls = << >> THEN "answer" ELSE "tools"
Verdict(s) ==
  IF \/ s.failed \/ ~s.completed \/ s.completions # 1
     \/ \E n \in DOMAIN s.calls :
          s.calls[n].name = Absent \/ ~ValidArgs(s.calls[n].args)
     \/ (s.calls = << >>) <=> (s.stop = "tools")
  THEN "failed"
  ELSE IF s.calls = << >> THEN "answer" ELSE "tools"

Receive(n) ==
  /\ verdict = "open" /\ ~st.failed
  /\ pos + n <= Len(wire)
  /\ LET bytes == SubSeq(wire, pos + 1, pos + n)
     IN IF Len(buffer) + n > MaxBuffer
        THEN verdict' = "overflow" /\ UNCHANGED <<buffer, st>>
        ELSE LET d == Drain(body, buffer \o bytes)
             IN /\ buffer' = d.rest
                /\ st' = Feed(st, d.events)
                /\ UNCHANGED verdict
  /\ pos' = pos + n
  /\ UNCHANGED <<body, wire>>

(* The body ends, or an event was refused and the rest is not read.        *)
Finish ==
  /\ verdict = "open"
  /\ pos = Len(wire) \/ st.failed
  /\ st' = IF st.failed \/ buffer = << >> THEN st ELSE Feed(st, Decode(body, buffer))
  /\ verdict' = Verdict(st')
  /\ buffer' = << >>
  /\ UNCHANGED <<body, wire, pos>>

(* An interrupt: the sink refuses the next event, and the runner closes    *)
(* the turn as cancelled whatever came before.                             *)
Cancel ==
  /\ verdict = "open"
  /\ verdict' = "cancelled"
  /\ UNCHANGED <<body, wire, pos, buffer, st>>

(* The transport reports an error in place of a chunk or of the end; what  *)
(* is buffered is dropped.                                                 *)
Disconnect ==
  /\ verdict = "open" /\ ~st.failed
  /\ verdict' = "disconnected"
  /\ UNCHANGED <<body, wire, pos, buffer, st>>

Next == (\E n \in 1 .. MaxChunk : Receive(n)) \/ Finish \/ Disconnect \/ Cancel
Spec == Init /\ [][Next]_vars

-----------------------------------------------------------------------------
(* What a payload is to a reader of the whole wire: nothing if it did not  *)
(* begin, no JSON if it was cut.                                           *)
EventOf(b, w, n) ==
  LET half == ~Has(w, <<n, "tail">>)
  IN IF ~Has(w, <<n, "head">>) \/ b[n].k = "comment" THEN << >>
     ELSE IF half \/ (b[n].k = "done" /\ EndsStray(w, n)) THEN <<Junk>>
     ELSE <<b[n]>>

(* The events of the first n payloads.                                     *)
Events(b, w, n) ==
  LET upto[i \in 0 .. n] ==
        IF i = 0 THEN << >> ELSE upto[i - 1] \o EventOf(b, w, i)
  IN upto[n]

(* The payloads that were delivered, the last one perhaps in part; this is *)
(* what the decoder has to find without knowing where a chunk ends.        *)
Delivered == Events(body, wire, Len(body))

(* All payloads of the wire end their lines in the same style.             *)
OneStyle ==
  \E crlf \in BOOLEAN : wire \in Cuts(Encode(body, [n \in 1 .. Len(body) |-> crlf]))

(* What is accepted depends on the bytes that arrived, never on how they   *)
(* were cut into chunks.  The verdict does not either, if the line ends    *)
(* are of one style throughout; drain looks for LF LF in the whole buffer  *)
(* before it looks for CR LF CR LF, so that a body in both styles may be   *)
(* accepted in small chunks and refused in large ones (SseDecoder::push,   *)
(* drain, finish).                                                         *)
ChunkingInvisible ==
  verdict \in {"answer", "tools", "failed"} =>
    /\ OneStyle => verdict = Verdict(Feed(Start, Delivered))
    /\ verdict # "failed" => st = Feed(Start, Delivered)

Total(lengths) ==
  LET sum[n \in 0 .. Len(lengths)] ==
        IF n = 0 THEN 0 ELSE sum[n - 1] + lengths[n]
  IN sum[Len(lengths)]

Fragments(p) == IF p.k = "call" THEN Len(p.args) ELSE 0
Sent(events) == Total([n \in 1 .. Len(events) |-> Fragments(events[n])])
Kept(calls) == Total([n \in 1 .. Len(calls) |-> Len(calls[n].args)])
Said(events, k) == {n \in 1 .. Len(events) : events[n].k = k}

(* A response is acted on only if it is whole: one completion, by a single *)
(* finish reason or by [DONE] alone; every argument fragment is in one     *)
(* call; a call keeps the name it was announced with; and no broken        *)
(* connection passes for a short answer (emit_model_events, finish,        *)
(* completion_count).                                                      *)
AcceptedIsWhole ==
  verdict \in {"answer", "tools"} =>
    /\ \/ \E n \in 1 .. Len(Delivered) : Said(Delivered, "finish") = {n}
       \/ Said(Delivered, "finish") = {} /\ Said(Delivered, "done") # {}
    /\ Sent(Delivered) = Kept(st.calls)
    /\ \A n \in DOMAIN Delivered, m \in DOMAIN st.calls :
         Delivered[n].k = "call" /\ Delivered[n].id = st.calls[m].id =>
           Delivered[n].name \in {Absent, st.calls[m].name}
    /\ \A n, m \in DOMAIN st.calls : st.calls[n].id = st.calls[m].id => n = m
    /\ verdict = "tools" <=> st.calls # << >>

=============================================================================
