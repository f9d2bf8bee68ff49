--------------------------- MODULE ApprovalChannel ---------------------------
(***************************************************************************)
(* How a runner obtains a verdict from the client: it puts a request into  *)
(* the bounded channel of its connection, the connection task gives it an  *)
(* id, remembers the reply end under that id and prompts the client; a     *)
(* frame without a method is an answer.  An answer that names no           *)
(* outstanding id denies everything outstanding, and so does the end of    *)
(* the connection.                                                         *)
(*                                                                         *)
(* The client (external) answers each prompt it has read.  Up to MaxStray  *)
(* times it also sends a frame it should not: an answer it has already     *)
(* given, or one without a usable id.                                      *)
(***************************************************************************)
EXTENDS Naturals, Sequences, FiniteSets

CONSTANTS
  Requests,   \* approval requests, each awaited by one runner
  Capacity,   \* capacity of the mpsc channel of a connection
  MaxStray    \* frames a client sends out of turn (model bound)

VARIABLES
  conn,     \* "open" or "closed"
  runner,   \* "idle", "sending", "waiting", "done" for each request
  queue,    \* requests in the mpsc channel
  ids,      \* approval_ids: the last id given out
  pending,  \* pending_approvals: the request whose reply end an id holds
  prompts,  \* <<id, request>> pairs written to the client
  frames,   \* answers on their way to the daemon
  said,     \* what the client answered to the prompt of a request
  stray,    \* frames sent out of turn
  verdict   \* what the runner was told

vars == <<conn, runner, queue, ids, pending, prompts, frames, said, stray,
          verdict>>

Nobody == "nobody"
NoId == 0
Verdicts == {"approved", "denied"}

(* approval_ids is a u64 that wraps; a connection would have to prompt     *)
(* 2^64 times to reuse an id, so the model numbers requests without end.   *)
Ids == 1 .. Cardinality(Requests)

Answer(id, v) == [id |-> id, verdict |-> v]

Outstanding == {r \in Requests : \E i \in Ids : pending[i] = r}
Queued == {queue[n] : n \in DOMAIN queue}

Init ==
  /\ conn = "open"
  /\ runner = [r \in Requests |-> "idle"]
  /\ queue = << >>
  /\ ids = 0
  /\ pending = [i \in Ids |-> Nobody]
  /\ prompts = [i \in Ids |-> Nobody]
  /\ frames = << >>
  /\ said = [r \in Requests |-> "none"]
  /\ stray = 0
  /\ verdict = [r \in Requests |-> "none"]

-----------------------------------------------------------------------------
(* The runner: ConnectionApprovalHandler::request.                         *)

Request(r) ==
  /\ runner[r] = "idle"
  /\ runner' = [runner EXCEPT ![r] = "sending"]
  /\ UNCHANGED <<conn, queue, ids, pending, prompts, frames, said, stray,
                 verdict>>

(* The reply ends in S are used or dropped with a denial.                  *)
Deny(S) ==
  /\ verdict' = [r \in Requests |-> IF r \in S THEN "denied" ELSE verdict[r]]
  /\ runner' = [r \in Requests |-> IF r \in S THEN "done" ELSE runner[r]]

(* send().await waits for a free slot and fails once the connection task   *)
(* has dropped the receiver.                                               *)
Send(r) ==
  /\ runner[r] = "sending"
  /\ conn = "open" /\ Len(queue) < Capacity
  /\ queue' = Append(queue, r)
  /\ runner' = [runner EXCEPT ![r] = "waiting"]
  /\ UNCHANGED <<conn, ids, pending, prompts, frames, said, stray, verdict>>

SendFails(r) ==
  /\ runner[r] = "sending" /\ conn = "closed"
  /\ Deny({r})
  /\ UNCHANGED <<conn, queue, ids, pending, prompts, frames, said, stray>>

-----------------------------------------------------------------------------
(* The connection task.                                                    *)

NextIdFromSize == Cardinality(Outstanding) + 1
NextId == ids + 1

Prompt ==
  /\ conn = "open" /\ queue # << >>
  /\ LET id == NextId
     IN /\ ids' = id
        /\ pending' = [pending EXCEPT ![id] = Head(queue)]
        /\ prompts' = [prompts EXCEPT ![id] = Head(queue)]
  /\ queue' = Tail(queue)
  /\ UNCHANGED <<conn, runner, frames, said, stray, verdict>>

DenyPendingApprovals ==
  /\ Deny(Outstanding)
  /\ pending' = [i \in Ids |-> Nobody]

Known(f) == f.id # NoId /\ pending[f.id] # Nobody

(* An answer without a result of the expected shape is a denial.           *)
Reply(f) ==
  LET r == pending[f.id]
  IN /\ verdict' = [verdict EXCEPT
                      ![r] = IF f.verdict = "approved" THEN "approved"
                             ELSE "denied"]
     /\ runner' = [runner EXCEPT ![r] = "done"]
     /\ pending' = [pending EXCEPT ![f.id] = Nobody]

SkipErrors(f) ==
  \/ Known(f) /\ f.verdict # "error" /\ Reply(f)
  \/ Known(f) /\ f.verdict = "error" /\ UNCHANGED <<verdict, runner, pending>>
  \/ ~Known(f) /\ DenyPendingApprovals
Handle(f) ==
  \/ Known(f) /\ Reply(f)
  \/ ~Known(f) /\ DenyPendingApprovals

ConsumeApprovalResponse ==
  /\ conn = "open" /\ frames # << >>
  /\ Handle(Head(frames))
  /\ frames' = Tail(frames)
  /\ UNCHANGED <<conn, queue, ids, prompts, said, stray>>

Close ==
  /\ conn = "open"
  /\ conn' = "closed"
  /\ Deny(Outstanding \cup Queued)
  /\ pending' = [i \in Ids |-> Nobody]
  /\ queue' = << >>
  /\ frames' = << >>
  /\ UNCHANGED <<ids, prompts, said, stray>>

-----------------------------------------------------------------------------
(* The client.                                                             *)

ClientAnswers(i) ==
  /\ conn = "open" /\ prompts[i] # Nobody
  /\ said[prompts[i]] = "none"
  /\ \E v \in Verdicts \cup {"error"} :
       /\ said' = [said EXCEPT ![prompts[i]] = v]
       /\ frames' = Append(frames, Answer(i, v))
  /\ UNCHANGED <<conn, runner, queue, ids, pending, prompts, stray, verdict>>

ClientStrays ==
  /\ conn = "open" /\ stray < MaxStray
  /\ stray' = stray + 1
  /\ \/ frames' = Append(frames, Answer(NoId, "error"))
     \/ \E i \in Ids :
          /\ prompts[i] # Nobody /\ said[prompts[i]] # "none"
          /\ frames' = Append(frames, Answer(i, said[prompts[i]]))
  /\ UNCHANGED <<conn, runner, queue, ids, pending, prompts, said, verdict>>

Connection == Prompt \/ ConsumeApprovalResponse

Next ==
  \/ \E r \in Requests : Request(r) \/ Send(r) \/ SendFails(r)
  \/ Connection \/ Close
  \/ \E i \in Ids : ClientAnswers(i)
  \/ ClientStrays

Spec == Init /\ [][Next]_vars

-----------------------------------------------------------------------------
(* A runner is told "approved" only if the client approved that very       *)
(* request: late, repeated and crossing answers of the same connection     *)
(* never approve another one (the ids of pending_approvals).               *)
ApprovedByClient ==
  \A r \in Requests : verdict[r] = "approved" => said[r] = "approved"

(* A client that answers each prompt once is never overruled: on an open   *)
(* connection without stray frames a denial is the client's own, although  *)
(* one unknown id would deny everything (consume_approval_response).       *)
NoSpuriousDenial ==
  conn = "open" /\ stray = 0 =>
    \A r \in Requests : verdict[r] = "denied" => said[r] \in {"denied", "error"}

(* Every request gets a verdict once the client answers its prompts or the *)
(* connection ends, in whatever order: this is what the fairness of        *)
(* TurnRunner!ReceiveApproval rests on.                                    *)
EveryRequestAnswered ==
  \A r \in Requests : runner[r] = "sending" ~> verdict[r] # "none"

(* A verdict is the client's own, approval always and denial as long as    *)
(* the client keeps to the protocol.                                       *)
VerdictIsTheClients == ApprovedByClient /\ NoSpuriousDenial

=============================================================================
