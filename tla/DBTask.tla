------------------------------- MODULE DBTask -------------------------------
(***************************************************************************)
(* One DBTask: coroutines await a DBOperation (DBTask::Awaiter), the       *)
(* connection sends and completes it, and another thread may abandon it.   *)
(* The operation's mutex makes each critical section one step; between two *)
(* critical sections the threads interleave.                               *)
(***************************************************************************)
EXTENDS DBOperation, Naturals

CONSTANTS Consumers,    \* coroutines that await the task
          None          \* no continuation is registered

ASSUME ConsumerAssumption == None \notin Consumers /\ Consumers # {}

VARIABLES op,           \* the DBOperation
          continuation, \* m_continuation
          posted,       \* handles waiting in the application executor
          resumed,      \* how often each coroutine was resumed
          consumer,     \* where each awaiting coroutine is
          connection,   \* where the connection is with this operation
          wedged        \* the pump threw on this operation

vars == <<op, continuation, posted, resumed, consumer, connection, wedged>>

ConsumerSteps == {"ready", "start", "submit", "push", "register", "suspended",
                  "resume", "take", "finished", "unregistered", "gone",
                  "refused", "rejected", "outcast"}
ConnectionSteps == {"none", "queued", "checked", "sent", "dropped", "retired"}

TypeOK ==
    /\ op \in Operation
    /\ continuation \in Consumers \cup {None}
    /\ posted \in [Consumers -> Nat]
    /\ resumed \in [Consumers -> Nat]
    /\ consumer \in [Consumers -> ConsumerSteps]
    /\ connection \in ConnectionSteps
    /\ wedged \in BOOLEAN

Init ==
    /\ op = NewOperation
    /\ continuation = None
    /\ posted = [c \in Consumers |-> 0]
    /\ resumed = [c \in Consumers |-> 0]
    /\ consumer = [c \in Consumers |-> "ready"]
    /\ connection = "none"
    /\ wedged = FALSE

GoOn(c, from, to) == consumer[c] = from /\ consumer' = [consumer EXCEPT ![c] = to]

(* std::exchange of m_continuation, then resumeOnApplicationExecutor. *)
ResumeContinuation ==
    /\ continuation' = None
    /\ posted' = IF continuation = None THEN posted
                 ELSE [posted EXCEPT ![continuation] = @ + 1]

-----------------------------------------------------------------------------
(* An awaiting coroutine.                                                  *)

AwaitReady(c) ==
    /\ GoOn(c, "ready", IF IsCompleted(op) THEN "resume" ELSE "start")
    /\ UNCHANGED <<op, continuation, posted, resumed, connection, wedged>>

(* await_suspend calls start(), whose starter runs outside the lock. *)
StartOperation(c) ==
    /\ GoOn(c, "start", IF CanStart(op) THEN "submit" ELSE "register")
    /\ op' = IF CanStart(op) THEN Start(op) ELSE op
    /\ UNCHANGED <<continuation, posted, resumed, connection, wedged>>

(* The starter has a connection mark the operation queued ... *)
MarkQueued(c) ==
    /\ GoOn(c, "submit", "push")
    /\ CanMarkQueued(op)
    /\ UNCHANGED <<op, continuation, posted, resumed, connection, wedged>>

(* ... or throws out of await_suspend: the pool does not accept operations,
   or the operation was abandoned meanwhile and markQueued refuses it. *)
SubmitThrows(c) ==
    /\ GoOn(c, "submit", "refused")
    /\ UNCHANGED <<op, continuation, posted, resumed, connection, wedged>>

PushQueued(c) ==
    /\ GoOn(c, "push", "register")
    /\ connection' = "queued"
    /\ UNCHANGED <<op, continuation, posted, resumed, wedged>>

(* Mutant: the continuation is stored without looking at the phase. *)
RegisterBlindly(c) ==
    /\ consumer[c] = "register"
    /\ continuation = None
    /\ consumer' = [consumer EXCEPT ![c] = "suspended"]
    /\ continuation' = c
    /\ UNCHANGED <<op, posted, resumed, connection, wedged>>

(* A second consumer is refused with an exception. *)
RegisterContinuation(c) ==
    /\ GoOn(c, "register", IF continuation # None THEN "refused" ELSE "suspended")
    /\ IF continuation = None /\ ~IsCompleted(op)
       THEN continuation' = c ELSE UNCHANGED continuation
    /\ IF continuation = None /\ IsCompleted(op)
       THEN posted' = [posted EXCEPT ![c] = @ + 1] ELSE UNCHANGED posted
    /\ UNCHANGED <<op, resumed, connection, wedged>>

(* The application executor runs a resumption. *)
ExecutorResumes(c) ==
    /\ posted[c] > 0
    /\ posted' = [posted EXCEPT ![c] = @ - 1]
    /\ resumed' = [resumed EXCEPT ![c] = @ + 1]
    /\ consumer' = [consumer EXCEPT ![c] = IF @ = "suspended" THEN "resume" ELSE @]
    /\ UNCHANGED <<op, continuation, connection, wedged>>

(* await_resume: rethrowIfFailed, then takeResult under the lock again. *)
RethrowIfFailed(c) ==
    /\ GoOn(c, "resume", IF op.consumerCancelled \/ op.outcome # "result"
                         THEN "finished" ELSE "take")
    /\ UNCHANGED <<op, continuation, posted, resumed, connection, wedged>>

TakeResult(c) ==
    /\ GoOn(c, "take", "finished")
    /\ UNCHANGED <<op, continuation, posted, resumed, connection, wedged>>

(* ~Awaiter: unregisterContinuation, then abandon.  A refused coroutine
   destroys its awaiter as well. *)
UnregisterContinuation(c) ==
    /\ \/ GoOn(c, "finished", "unregistered")
       \/ GoOn(c, "refused", "rejected")
    /\ continuation' = None
    /\ UNCHANGED <<op, posted, resumed, connection, wedged>>

DestroyAwaiter(c) ==
    /\ GoOn(c, "unregistered", "gone") \/ GoOn(c, "rejected", "outcast")
    /\ op' = Abandon(op)
    /\ ResumeContinuation
    /\ UNCHANGED <<resumed, connection, wedged>>

-----------------------------------------------------------------------------
(* Another thread, and the connection's pump.                              *)

(* Mutant: abandon resumes the consumer and leaves its handle in place. *)
AbandonKeepsHandle ==
    /\ op.phase # "completed" /\ ~op.consumerCancelled
    /\ op' = Abandon(op)
    /\ posted' = IF continuation = None THEN posted
                 ELSE [posted EXCEPT ![continuation] = @ + 1]
    /\ UNCHANGED <<continuation, resumed, consumer, connection, wedged>>

AbandonTask ==
    /\ op.phase # "completed"
    /\ op' = Abandon(op)
    /\ ResumeContinuation
    /\ UNCHANGED <<resumed, consumer, connection, wedged>>

(* pumpConnected looks at the phase of what it popped. *)
PumpChecks ==
    /\ connection = "queued"
    /\ connection' = IF op.phase = "completed" THEN "dropped" ELSE "checked"
    /\ UNCHANGED <<op, continuation, posted, resumed, consumer, wedged>>

(* send() writes the statement first and checks the phase afterwards; the
   exception of that check leaves the pump. *)
PumpSends ==
    /\ connection = "checked"
    /\ IF CanSend(op)
       THEN op' = Send(op) /\ connection' = "sent" /\ UNCHANGED wedged
       ELSE wedged' = TRUE /\ connection' = "dropped" /\ UNCHANGED op
    /\ UNCHANGED <<continuation, posted, resumed, consumer>>

(* Mutant: the consumer is resumed by the result, before the statement's
   synchronisation point has completed the operation. *)
PumpResumesEarly ==
    /\ connection = "sent"
    /\ op.phase = "sent"
    /\ op' \in {AcceptResult(op), AcceptFailure(op)}
    /\ ResumeContinuation
    /\ UNCHANGED <<resumed, consumer, connection, wedged>>

PumpAccepts ==
    /\ connection = "sent"
    /\ op.phase = "sent"
    /\ op' \in {AcceptResult(op), AcceptFailure(op)}
    /\ UNCHANGED <<continuation, posted, resumed, consumer, connection, wedged>>

PumpCompletes ==
    /\ connection = "sent"
    /\ NeedsSynchronization(op)
    /\ op' = Complete(op)
    /\ connection' = "retired"
    /\ ResumeContinuation
    /\ UNCHANGED <<resumed, consumer, wedged>>

-----------------------------------------------------------------------------
Await(c) ==
    \/ AwaitReady(c) \/ StartOperation(c) \/ MarkQueued(c) \/ SubmitThrows(c)
    \/ PushQueued(c)
    \/ RegisterContinuation(c) \/ RethrowIfFailed(c) \/ TakeResult(c)
    \/ UnregisterContinuation(c) \/ DestroyAwaiter(c)

Pump == PumpChecks \/ PumpSends \/ PumpAccepts \/ PumpCompletes

Next ==
    \/ \E c \in Consumers : Await(c) \/ ExecutorResumes(c)
    \/ AbandonTask \/ Pump

(* Threads that can go on go on, the executor runs what it is given and the
   server answers; nobody is obliged to abandon a task. *)
Fairness ==
    /\ \A c \in Consumers : WF_vars(Await(c)) /\ WF_vars(ExecutorResumes(c))
    /\ WF_vars(Pump)

Spec == Init /\ [][Next]_vars
FairSpec == Spec /\ Fairness

-----------------------------------------------------------------------------
(* A coroutine is resumed at most once, whichever of registerContinuation,
   complete and abandon finds its handle: resuming it twice would run a
   freed frame (DBOperation.cpp:122, 216, 237). *)
ResumedOnce ==
    \A c \in Consumers :
        resumed[c] + posted[c] + (IF continuation = c THEN 1 ELSE 0) <= 1

(* A second consumer was refused and has taken the first one's handle out
   of the operation with its awaiter; no caller awaits a task twice. *)
Unseated == \E c \in Consumers : consumer[c] \in {"rejected", "outcast"}

(* The future as one of the consumers sees it. *)
Watched == CHOOSE c \in Consumers : TRUE

Waiter ==
    CASE consumer[Watched] \in
             {"resume", "take", "finished", "unregistered", "gone"} -> "resumed"
      [] consumer[Watched] = "suspended" -> "waiting"
      [] OTHER -> "absent"

TheFuture == INSTANCE Future WITH settled <- IsCompleted(op), waiter <- Waiter

(* The operation and its consumer behave as a future does: await_resume
   never runs before the operation has completed or been given up, and a
   completed operation stays completed. *)
ImplementsFuture == TheFuture!Spec

(* An awaiting coroutine goes on, even when its operation was abandoned in
   the window that makes the pump throw. *)
SuspendedResumes ==
    \A c \in Consumers :
        consumer[c] = "suspended" ~> consumer[c] # "suspended" \/ Unseated
=============================================================================
