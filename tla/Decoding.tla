------------------------------ MODULE Decoding ------------------------------
(***************************************************************************)
(* The decoders between the provider and the runner, side by side: the     *)
(* response stream, and the redaction of the credential in what it says.   *)
(***************************************************************************)
EXTENDS ModelStream

CONSTANTS  \* of the redactor
  Letters, Fields, Keys, KeysOf, MaxSecret, MaxField, MaxDelta, Limit

VARIABLES secret, matched, last, said, closed, shown, joined, came, redacting

Secrecy == INSTANCE Redactor WITH phase <- redacting

(* See Redactor: exactly the credential is taken out.                      *)
RedactionExact == Secrecy!RedactionExact

=============================================================================
