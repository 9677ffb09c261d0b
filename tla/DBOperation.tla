---------------------------- MODULE DBOperation ----------------------------
(***************************************************************************)
(* One database operation as a value (IDHANDb/DBOperation): its phase, what *)
(* it ended with, and whether its consumer gave up on it.  Each operator is *)
(* the critical section of the member function of the same name; a member  *)
(* function that throws when its precondition fails has that precondition  *)
(* as a separate operator.                                                 *)
(***************************************************************************)

Phases == {"cold", "queued", "sent", "synchronizing", "completed"}
Outcomes == {"none", "result", "error", "cancelled"}

Operation == [phase : Phases, outcome : Outcomes, consumerCancelled : BOOLEAN]

NewOperation ==
    [phase |-> "cold", outcome |-> "none", consumerCancelled |-> FALSE]

IsCompleted(op) == op.phase = "completed" \/ op.consumerCancelled

CanStart(op) == op.phase = "cold"
Start(op) == [op EXCEPT !.phase = "queued"]

CanMarkQueued(op) == op.phase \in {"cold", "queued"}

CanSend(op) == op.phase = "queued"
Send(op) == [op EXCEPT !.phase = "sent"]

IsSent(op) == op.phase \in {"sent", "synchronizing"}
NeedsSynchronization(op) == op.phase = "synchronizing"

CanAcceptResult(op) == IsSent(op) /\ op.outcome # "result"
AcceptResult(op) == [op EXCEPT !.outcome = "result", !.phase = "synchronizing"]
AcceptFailure(op) == [op EXCEPT !.outcome = "error", !.phase = "synchronizing"]

Complete(op) == [op EXCEPT !.phase = "completed"]

(* An operation that was not sent ends at once; one that was sent goes on
   without its consumer. *)
Abandon(op) ==
    IF op.phase = "completed" THEN op
    ELSE IF op.phase \in {"cold", "queued"}
    THEN [op EXCEPT !.phase = "completed", !.outcome = "cancelled"]
    ELSE [op EXCEPT !.consumerCancelled = TRUE]
=============================================================================
