------------------------------ MODULE Redactor ------------------------------
(***************************************************************************)
(* CredentialStreamRedactor: the model's output is searched for the bearer *)
(* value while it streams.  Each field (text, reasoning, each provider     *)
(* index of a tool call) has its own Knuth-Morris-Pratt state; what might  *)
(* be the beginning of the value is held back until the field goes on or   *)
(* is closed.  The consumer concatenates under keys: text and reasoning    *)
(* are keys of their own, the arguments of a call go under the call id     *)
(* that came with the delta (ToolCallAssembler::push), and the provider    *)
(* chooses which ids it sends under an index.  Characters are model        *)
(* values; the replacement is one character that no credential contains.   *)
(***************************************************************************)
EXTENDS Naturals, Sequences, FiniteSets

CONSTANTS
  Letters,    \* characters of credentials and output
  MaxSecret,  \* length of a credential (model bound)
  MaxField,   \* length of the output of a field (model bound)
  MaxDelta,   \* length of one delta (model bound)
  Fields,     \* text, reasoning and the provider indices
  Keys,       \* what the consumer concatenates under
  KeysOf,     \* the keys the deltas of a field may carry
  Limit       \* MAX_ACCUMULATED_OUTPUT_BYTES, for one delta

VARIABLES
  secret,   \* the credential of the request
  matched,  \* SecretStreamState::matched of each field
  last,     \* ToolSecretStreamState::call_id: the key of its last delta
  said,     \* what the provider sent for each field since the last close
  closed,   \* what the sink had been given for each field at that close
  shown,    \* what the sink was given for each field
  joined,   \* what the consumer concatenated under each key
  came,     \* the pairs of a field and a key that came together
  phase     \* "open", or "failed" at the output limit

vars == <<secret, matched, last, said, closed, shown, joined, came, phase>>

Mark == "[redacted]"
NoKey == "none"
Strings(n) == UNION {[1 .. k -> Letters] : k \in 0 .. n}
Secrets == UNION {[1 .. k -> Letters] : k \in 1 .. MaxSecret}

Init ==
  /\ secret \in Secrets
  /\ matched = [f \in Fields |-> 0] /\ last = [f \in Fields |-> NoKey]
  /\ said = [f \in Fields |-> << >>]
  /\ closed = [f \in Fields |-> << >>] /\ shown = [f \in Fields |-> << >>]
  /\ joined = [k \in Keys |-> << >>] /\ came = {}
  /\ phase = "open"

(* The loop of SecretPattern::new and of redact_chunk: shorter and shorter *)
(* beginnings of the value q, until one goes on with c.                    *)
FallBack(q, table, m, c) ==
  LET from[n \in 0 .. m] ==
        IF n > 0 /\ c # q[n + 1] THEN from[table[n]] ELSE n
  IN from[m]

(* SecretPattern::new: for each prefix the length of its longest proper    *)
(* border, built as the code does.                                         *)
Failure(q) ==
  LET table[n \in 1 .. Len(q)] ==
        IF n = 1 THEN <<0>>
        ELSE LET before == table[n - 1]
                 prefix == FallBack(q, before, before[n - 1], q[n])
             IN Append(before, IF q[n] = q[prefix + 1] THEN prefix + 1 ELSE prefix)
  IN table[Len(q)]

(* redact_chunk, one byte: what leaves the withheld prefix is printed.     *)
StepForgetful(q, state, c) ==
  LET m == IF c = q[state.matched + 1] THEN state.matched ELSE 0
      out == state.out \o SubSeq(q, 1, state.matched - m)
  IN IF c # q[m + 1] THEN [matched |-> 0, out |-> Append(out, c)]
     ELSE IF m + 1 = Len(q) THEN [matched |-> 0, out |-> Append(out, Mark)]
     ELSE [matched |-> m + 1, out |-> out]
Step(q, state, c) ==
  LET m == FallBack(q, Failure(q), state.matched, c)
      out == state.out \o SubSeq(q, 1, state.matched - m)
  IN IF c # q[m + 1] THEN [matched |-> 0, out |-> Append(out, c)]
     ELSE IF m + 1 = Len(q) THEN [matched |-> 0, out |-> Append(out, Mark)]
     ELSE [matched |-> m + 1, out |-> out]

RedactChunk(q, m, chunk) ==
  LET after[n \in 0 .. Len(chunk)] ==
        IF n = 0 THEN [matched |-> m, out |-> << >>]
        ELSE Step(q, after[n - 1], chunk[n])
  IN after[Len(chunk)]

(* redact_event for a delta of field f that carries key k.                 *)
Delta(f, k, chunk) ==
  /\ phase = "open" /\ Len(closed[f]) + Len(said[f]) + Len(chunk) <= MaxField
  /\ LET r == RedactChunk(secret, matched[f], chunk)
     IN \/ /\ Len(r.out) <= Limit
           /\ matched' = [matched EXCEPT ![f] = r.matched]
           /\ shown' = [shown EXCEPT ![f] = @ \o r.out]
           /\ joined' = [joined EXCEPT ![k] = @ \o r.out]
           /\ UNCHANGED phase
        \/ /\ Len(r.out) > Limit
           /\ phase' = "failed"
           /\ UNCHANGED <<matched, shown, joined>>
  /\ said' = [said EXCEPT ![f] = @ \o chunk]
  /\ last' = [last EXCEPT ![f] = k] /\ came' = came \union {<<f, k>>}
  /\ UNCHANGED <<secret, closed>>

(* The fields that hold a prefix back and whose last delta carried k.      *)
Pending(k) == {f \in Fields : matched[f] > 0 /\ last[f] = k}

Marks(k) == [n \in 1 .. Cardinality(Pending(k)) |-> Mark]

(* Completed or Failed: each prefix still held back is concealed, under    *)
(* the last key of its field.  Deltas that follow are redacted afresh.     *)
FinishPending ==
  /\ phase = "open"
  /\ shown' = [f \in Fields |->
                 IF matched[f] > 0 THEN Append(shown[f], Mark) ELSE shown[f]]
  /\ joined' = [k \in Keys |-> joined[k] \o Marks(k)]
  /\ matched' = [f \in Fields |-> 0]
  /\ said' = [f \in Fields |-> << >>] /\ closed' = shown'
  /\ UNCHANGED <<secret, last, came, phase>>

Next ==
  \/ \E f \in Fields, c \in Strings(MaxDelta) \ {<< >>} :
       \E k \in KeysOf[f] : Delta(f, k, c)
  \/ FinishPending

Spec == Init /\ [][Next]_vars

-----------------------------------------------------------------------------
Occurs(s, t) ==
  \E n \in 1 .. Len(t) :
    n + Len(s) - 1 <= Len(t) /\ SubSeq(t, n, n + Len(s) - 1) = s

EndsIn(t, s) ==
  Len(s) <= Len(t) /\ SubSeq(t, Len(t) - Len(s) + 1, Len(t)) = s

(* The reference: every leftmost occurrence of q that does not overlap an  *)
(* earlier one is replaced.  rest[n] is this for the last n characters.    *)
Replace(q, t) ==
  LET rest[n \in 0 .. Len(t)] ==
        LET at == Len(t) - n
        IN IF n < Len(q) THEN SubSeq(t, at + 1, Len(t))
           ELSE IF SubSeq(t, at + 1, at + Len(q)) = q
                THEN <<Mark>> \o rest[n - Len(q)]
                ELSE <<t[at + 1]>> \o rest[n - 1]
  IN rest[Len(t)]

(* So far the deltas of f and no others carried k.                         *)
Alone(f, k) == \A p \in came : p[1] = f <=> p[2] = k

(* However the provider cuts the value into deltas, and whatever other     *)
(* fields say in between, no field ever shows it, and a field that was     *)
(* closed does not end in its beginning (redact_chunk, finish_pending).    *)
(* Nor does what the consumer joins under a key, as long as the key and    *)
(* the field only ever came together; for an id under two indices, or two  *)
(* ids under one, no such promise is made: the states are kept by index.   *)
NeverShown ==
  \A f \in Fields :
    /\ ~Occurs(secret, shown[f])
    /\ said[f] = << >> =>
         \A n \in 1 .. Len(secret) - 1 : ~EndsIn(shown[f], SubSeq(secret, 1, n))
    /\ \A k \in Keys : Alone(f, k) => joined[k] = shown[f]

(* Nothing else is lost or changed: what is shown and held back since the  *)
(* last close is the output since then with the occurrences replaced.      *)
RestUnchanged ==
  phase = "open" =>
    \A f \in Fields :
      shown[f] \o SubSeq(secret, 1, matched[f]) = closed[f] \o Replace(secret, said[f])

(* Each field is the provider's with exactly the credential taken out.     *)
RedactionExact == NeverShown /\ RestUnchanged

=============================================================================
