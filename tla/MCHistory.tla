------------------------------ MODULE MCHistory ------------------------------
(***************************************************************************)
(* A behaviour is one of the part of History chosen in the beginning; the  *)
(* state of the other one rests.                                           *)
(***************************************************************************)
EXTENDS History, TLC

VARIABLE part

replaying == <<status, ancestor, turn, on, inv, of, home, retry>>

HistoryInit == part \in {"projection", "context"} /\ Init /\ Replay!Init

HistoryNext ==
  /\ part' = part
  /\ \/ part = "projection" /\ Replay!Next /\ UNCHANGED vars
     \/ part = "context" /\ Next /\ UNCHANGED replaying

(* Events may name any thread and any turn of the projection.              *)
Symmetry == Permutations(Threads) \cup Permutations(Turns)

HistorySpec == HistoryInit /\ [][HistoryNext]_<<part, vars, replaying>>

=============================================================================
