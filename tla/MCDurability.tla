---------------------------- MODULE MCDurability ----------------------------
(***************************************************************************)
(* The four parts of Durability are modelled on different state, so a      *)
(* behaviour is one of the part chosen in the beginning while the others   *)
(* rest in an initial state.                                               *)
(***************************************************************************)
EXTENDS Durability

VARIABLE part

putting == <<pc, want, temp, synced, dirs, names, parts, safe, stored, failures>>
serving == <<net, eof, sent, available, buffered, phase, line, reply,
             initialized, seen, out, notes, done, turns, starts, lost>>
starting == <<stateDir, step, owner, parent, path, turn, saw>>

(* Two writers and two contents whose digests fall into one shard.         *)
TwoPutters == {"w1", "w2"}
TwoContents == {"d1", "d2"}
OneShard == [d \in TwoContents |-> "s1"]

(* The same turn/start on two connections, its id used for another         *)
(* command; and on one connection a command of two tokens, one longer than *)
(* the limit, and two lines that need no answer.                           *)
Line(k, id, len) == [k |-> k, id |-> id, len |-> len]
Submitted ==
  {Line("initialize", 0, 1)}
  \cup {Line(k, id, 1) : k \in {"start", "subscribe"}, id \in Commands}
Framed ==
  {Line("initialize", 0, 1), Line("response", 0, 1), Line("blank", 0, 0)}
  \cup {Line("read", id, len) : id \in Commands, len \in {2, 3}}
SomeLines == Submitted \cup Framed

(* Three processes on one state directory, or one of them on another.      *)
ThreeProcesses == {"p1", "p2", "p3"}
TwoDirectories == {"s1", "s2"}
Apart == [p \in ThreeProcesses |-> IF p = "p3" THEN "s2" ELSE "s1"]
Together == [p \in ThreeProcesses |-> "s1"]

(* Repetition needs two connections and two short lines of each, framing   *)
(* one connection and three lines in any pieces.                           *)
Sends(c, lines) == \A n \in DOMAIN sent[c] : sent[c][n] \in lines
Focus ==
  /\ part = "retry" => \A c \in Conns :
       /\ Sends(c, Submitted) /\ Len(sent[c]) <= 2
       /\ notes[c] = 0 /\ Len(available[c]) <= 2
  /\ part = "lines" => Sends("c1", Framed) /\ phase["c2"] = "new"

-----------------------------------------------------------------------------
DurabilityInit ==
  /\ part \in {"ledger", "artifacts", "retry", "lines", "startup"}
  /\ Init
  /\ part # "artifacts" => want = [w \in Putters |-> "d1"]
  /\ Store!Init
  /\ Retry!Init
  /\ part # "startup" => parent = "private" /\ stateDir = Together
  /\ stateDir \in {Together, Apart}
  /\ Daemons!Init

DurabilityNext ==
  /\ part' = part
  /\ \/ /\ part = "ledger" /\ Next
        /\ UNCHANGED <<putting, serving, starting>>
     \/ part = "artifacts" /\ Store!Next /\ UNCHANGED <<vars, serving, starting>>
     \/ /\ part \in {"retry", "lines"} /\ Retry!Next /\ Focus'
        /\ UNCHANGED <<vars, putting, starting>>
     \/ part = "startup" /\ Daemons!Next /\ UNCHANGED <<vars, putting, serving>>

DurabilitySpec ==
  DurabilityInit /\ [][DurabilityNext]_<<part, vars, putting, serving, starting>>

=============================================================================
