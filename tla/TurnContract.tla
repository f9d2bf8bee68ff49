----------------------------- MODULE TurnContract -----------------------------
(***************************************************************************)
(* What the daemon promises about the turns of one thread, without the     *)
(* runner: which phases a turn has for a client, what becomes of its tool  *)
(* calls, and when each may change.  TurnRunner implements it.             *)
(***************************************************************************)
CONSTANTS Turns, Invs, Parent(_)

VARIABLES phase, call

Closed == {"completed", "cancelled", "failed"}

CallsOf(t, S) == {i \in Invs : Parent(i) = t /\ call[i] \in S}

Init ==
  /\ phase = [t \in Turns |-> "idle"]
  /\ call = [i \in Invs |-> "absent"]

(* A thread has one live turn, and none while an outcome is unresolved.    *)
Start(t) ==
  /\ \A u \in Turns : phase[u] \in {"idle"} \cup Closed
  /\ \A i \in Invs : call[i] # "unresolved"
  /\ phase[t] = "idle"
  /\ phase' = [phase EXCEPT ![t] = "open"]
  /\ UNCHANGED call

Offer(t) ==
  /\ phase[t] = "open"
  /\ \E S \in SUBSET CallsOf(t, {"absent"}) :
       call' = [i \in Invs |-> IF i \in S THEN "waiting" ELSE call[i]]
  /\ UNCHANGED phase

(* Nothing starts to execute once the turn was asked to stop.              *)
Launch(i) ==
  /\ phase[Parent(i)] = "open"
  /\ call[i] = "waiting"
  /\ call' = [call EXCEPT ![i] = "running"]
  /\ UNCHANGED phase

Resolve(i) ==
  /\ phase[Parent(i)] \in {"open", "stopping"}
  /\ call[i] \in {"waiting", "running"}
  /\ call' = [call EXCEPT ![i] = "settled"]
  /\ UNCHANGED phase

Lose(i) ==
  /\ phase[Parent(i)] \in {"open", "stopping"}
  /\ call[i] = "running"
  /\ call' = [call EXCEPT ![i] = "unresolved"]
  /\ UNCHANGED phase

Review(i) ==
  /\ phase[Parent(i)] \in Closed
  /\ call[i] = "unresolved"
  /\ call' = [call EXCEPT ![i] = "settled"]
  /\ UNCHANGED phase

Stop(t) ==
  /\ phase[t] = "open"
  /\ phase' = [phase EXCEPT ![t] = "stopping"]
  /\ UNCHANGED call

(* A turn closes once nothing of it waits or runs; a clean ending also     *)
(* needs every outcome resolved, and "cancelled" needs a request to stop.  *)
Close(t) ==
  /\ CallsOf(t, {"waiting", "running"}) = {}
  /\ \/ /\ phase[t] = "open" /\ CallsOf(t, {"unresolved"}) = {}
        /\ phase' = [phase EXCEPT ![t] = "completed"]
     \/ /\ phase[t] = "stopping" /\ CallsOf(t, {"unresolved"}) = {}
        /\ phase' = [phase EXCEPT ![t] = "cancelled"]
     \/ /\ phase[t] \in {"open", "stopping"}
        /\ phase' = [phase EXCEPT ![t] = "failed"]
  /\ UNCHANGED call

Next ==
  \/ \E t \in Turns : Start(t) \/ Offer(t) \/ Stop(t) \/ Close(t)
  \/ \E i \in Invs : Launch(i) \/ Resolve(i) \/ Lose(i) \/ Review(i)

Spec == Init /\ [][Next]_<<phase, call>>

=============================================================================
