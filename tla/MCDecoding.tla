----------------------------- MODULE MCDecoding -----------------------------
(***************************************************************************)
(* The decoders of the daemon, fed piece by piece: the response stream of  *)
(* a provider, and the redaction of the credential in it.  A behaviour is  *)
(* one of the part chosen in the beginning; the state of the other rests.  *)
(***************************************************************************)
EXTENDS Decoding, TLC

VARIABLE part

hiding == <<secret, matched, last, said, closed, shown, joined, came, redacting>>

-----------------------------------------------------------------------------
(* Responses of up to three payloads: answers, one or two tool calls with  *)
(* their id and name in the first fragment, late, missing or changed, one  *)
(* or two finish reasons, [DONE] early, late or not at all.                *)
ToolCall(i, id, name, args) ==
  [k |-> "call", index |-> i, id |-> id, name |-> name, args |-> args]

Payloads ==
  {[k |-> "text", v |-> "t"], [k |-> "comment"], [k |-> "done"],
   [k |-> "finish", reason |-> "end"], [k |-> "finish", reason |-> "tools"],
   ToolCall(1, "c1", "f", <<"{">>), ToolCall(1, Absent, Absent, <<"}">>),
   ToolCall(1, "c1", "f", <<"{", "}">>), ToolCall(1, "c1", "g", <<"}">>),
   ToolCall(2, "c2", "g", << >>), ToolCall(2, Absent, "g", << >>),
   ToolCall(2, "c1", Absent, <<"}">>), ToolCall(2, "c3", "g", << >>)}

(* Bodies of these may end their lines in both styles.                     *)
Mixable ==
  {[k |-> "text", v |-> "t"], [k |-> "comment"], [k |-> "done"],
   [k |-> "finish", reason |-> "tools"], ToolCall(1, "c1", "f", <<"{", "}">>)}

(* Of three payloads the last completes the response or is a comment, or   *)
(* all are calls and one more than the assembler takes.  Responses without *)
(* a completion are also beginnings of these.                              *)
Closing == {p \in Payloads : p.k \in {"finish", "done", "comment"}}
Calling == {p \in Payloads : p.k = "call" /\ p.id # Absent}
ShortBodies ==
  UNION {[1 .. n -> Payloads] : n \in 0 .. 2}
    \union {b \in [1 .. 3 -> Payloads] : b[3] \in Closing}
    \union {b \in [1 .. 3 -> Calling] : \A n, m \in 1 .. 3 : b[n].id = b[m].id => n = m}

(* Two provider indices: the first may carry two call ids, one of which    *)
(* the second carries too.                                                 *)
CallKeys == [f \in Fields |-> IF f = "i1" THEN {"c1", "c2"} ELSE {"c1"}]

(* The output of all the fields, bounded as a whole.                       *)
Streamed == Len(closed["i1"]) + Len(said["i1"]) + Len(closed["i2"]) + Len(said["i2"])

LetterSymmetry == Permutations(Letters)

-----------------------------------------------------------------------------
DecodingInit ==
  /\ part \in {"response", "credential"}
  /\ part # "response" => body = << >> /\ wire = << >>
  /\ Init
  /\ OneStyle \/ \A n \in DOMAIN body : body[n] \in Mixable
  /\ part # "credential" => secret = [n \in {1} |-> CHOOSE a \in Letters : TRUE]
  /\ Secrecy!Init

DecodingNext ==
  /\ part' = part
  /\ \/ part = "response" /\ Next /\ UNCHANGED hiding
     \/ part = "credential" /\ Secrecy!Next /\ Streamed' <= MaxField /\ UNCHANGED vars

DecodingSpec == DecodingInit /\ [][DecodingNext]_<<part, vars, hiding>>

=============================================================================
