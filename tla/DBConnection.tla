---------------------------- MODULE DBConnection ----------------------------
(***************************************************************************)
(* One PostgreSQL connection (IDHANDb/DBConnection): its queue of          *)
(* operations, the ledger of those in flight, the pump that dispatches     *)
(* them and reads their results through libpq, and drain().                *)
(*                                                                         *)
(* Every critical section of queue_mutex or of an operation's mutex, and   *)
(* every libpq call that exchanges data, is one step of the pump, so that  *)
(* enqueue, abandon and drain interleave with it.  The scheduler is        *)
(* abstracted to its promise: a wake is followed by a pump.                *)
(***************************************************************************)
EXTENDS DBOperation, Naturals, Sequences

CONSTANTS Ops,          \* operations handed to enqueue()
          Abandonable,  \* those whose task may be abandoned
          Roles,        \* roles a connection may be made for
          Budget,       \* pump_operation_budget
          MayBreak      \* the server may close the connection

ASSUME ConnectionAssumption ==
    /\ Abandonable \subseteq Ops
    /\ Roles \subseteq {"normal", "transaction", "management"}
    /\ Budget \in Nat \ {0}
    /\ MayBreak \in BOOLEAN

VARIABLES role,         \* DBConnection::role
          op,           \* the operations
          queued,       \* DBConnection::queued
          inflight,     \* DBConnection::inflight, the ledger
          drained,      \* the baton `drained' is posted
          drainer,      \* where a caller of drain() is
          at,           \* where the pump is
          hand,         \* the operation it holds, which is in neither queue
          count,        \* its loop counters `dispatched' and `retrieved'
          delimiter,    \* its local advanced_delimiter
          flushed,      \* PQflush had nothing left to send
          awake,        \* a wake no pump has begun after
          armed,        \* the interest the socket is watched for
          out,          \* libpq: statements not yet flushed
          commands,     \* libpq: statements not yet answered
          buffer,       \* libpq: input not yet returned
          null,         \* libpq: the null that ends a result is due
          todo,         \* server: statements to run
          answered,     \* server: the first of them has its result
          wire,         \* what it sent and libpq has not read
          serving       \* it has not closed the connection

progress == <<hand, count, delimiter, flushed>>
pump == <<at, progress>>
libpq == <<out, commands, buffer, null>>
server == <<todo, answered, wire, serving>>
vars == <<role, op, queued, inflight, drained, drainer, pump, awake, armed, libpq,
          server>>

(* The pump of a management connection does not use pipeline mode. *)
Pipelined == role # "management"

(* What a statement puts on the wire: its result or error, then the end of
   its synchronisation point. *)
Tokens == [of : Ops, kind : {"result", "error", "sync"}]

TypeOK ==
    /\ role \in Roles
    /\ op \in [Ops -> Operation]
    /\ queued \in Seq(Ops)
    /\ inflight \in Seq(Ops)
    /\ drained \in BOOLEAN
    /\ drainer \in {"absent", "checking", "awaiting", "suspended", "returned"}
    /\ at \in {"idle", "pop", "check", "send", "push", "io", "read", "retire",
              "watch", "dead"}
    /\ hand \in Seq(Ops)
    /\ count \in 0..Budget
    /\ delimiter \in BOOLEAN /\ flushed \in BOOLEAN
    /\ awake \in BOOLEAN
    /\ armed \in {"none", "read", "read_write"}
    /\ out \in Seq(Ops) /\ commands \in Seq(Ops)
    /\ buffer \in Seq(Tokens) /\ null \in BOOLEAN
    /\ todo \in Seq(Ops) /\ answered \in BOOLEAN
    /\ wire \in Seq(Tokens) /\ serving \in BOOLEAN

Init ==
    /\ role \in Roles
    /\ op = [o \in Ops |-> NewOperation]
    /\ queued = <<>>
    /\ inflight = <<>>
    /\ drained = TRUE
    /\ drainer = "absent"
    /\ at = "idle" /\ hand = <<>> /\ count = 0
    /\ delimiter = FALSE /\ flushed = TRUE
    /\ awake = FALSE
    /\ armed = "none"
    /\ out = <<>> /\ commands = <<>> /\ buffer = <<>> /\ null = FALSE
    /\ todo = <<>> /\ answered = FALSE /\ wire = <<>> /\ serving = TRUE

-----------------------------------------------------------------------------
(* Callers: enqueue(), abandon() and drain().                              *)

(* Mutant: enqueue() does not reset the baton. *)
EnqueueKeepsBaton(o) ==
    /\ CanStart(op[o])
    /\ op' = [op EXCEPT ![o] = Start(@)]
    /\ queued' = Append(queued, o)
    /\ awake' = TRUE
    /\ UNCHANGED <<role, inflight, drained, drainer, pump, armed, libpq, server>>

Enqueue(o) ==
    /\ CanStart(op[o])
    /\ op' = [op EXCEPT ![o] = Start(@)]
    /\ drained' = FALSE
    /\ queued' = Append(queued, o)
    /\ awake' = TRUE
    /\ UNCHANGED <<role, inflight, drainer, pump, armed, libpq, server>>

AbandonOperation(o) ==
    /\ o \in Abandonable
    /\ op[o].phase # "completed" /\ ~op[o].consumerCancelled
    /\ op' = [op EXCEPT ![o] = Abandon(@)]
    /\ UNCHANGED <<role, queued, inflight, drained, drainer, pump, awake, armed,
                   libpq, server>>

DrainBegins ==
    /\ drainer = "absent"
    /\ drainer' = "checking"
    /\ UNCHANGED <<role, op, queued, inflight, drained, pump, awake, armed, libpq,
                   server>>

(* drainImpl looks at both queues under the lock, then awaits the baton. *)
DrainChecks ==
    /\ drainer = "checking"
    /\ drainer' = IF queued = <<>> /\ inflight = <<>> THEN "returned" ELSE "awaiting"
    /\ UNCHANGED <<role, op, queued, inflight, drained, pump, awake, armed, libpq,
                   server>>

DrainAwaits ==
    /\ drainer = "awaiting"
    /\ drainer' = IF drained THEN "checking" ELSE "suspended"
    /\ UNCHANGED <<role, op, queued, inflight, drained, pump, awake, armed, libpq,
                   server>>

(* Posting the baton resumes who is suspended on it, though a later enqueue
   may reset it. *)
PostDrainedIfIdle(q, f) ==
    IF q = <<>> /\ f = <<>>
    THEN /\ drained' = TRUE
         /\ drainer' = IF drainer = "suspended" THEN "checking" ELSE drainer
    ELSE UNCHANGED <<drained, drainer>>

-----------------------------------------------------------------------------
(* The pump: dispatching.                                                  *)

Go(step) == at' = step /\ UNCHANGED progress

(* The dispatch loop goes on with the next operation. *)
NextOperation ==
    /\ at' = "pop"
    /\ hand' = <<>>
    /\ count' = count + 1
    /\ UNCHANGED <<delimiter, flushed>>

PumpBegins ==
    /\ at = "idle"
    /\ awake
    /\ awake' = FALSE
    /\ at' = "pop" /\ count' = 0 /\ delimiter' = FALSE
    /\ UNCHANGED <<role, op, queued, inflight, drained, drainer, hand, flushed, armed,
                   libpq, server>>

Dispatchable ==
    /\ count < Budget
    /\ queued # <<>>
    /\ Pipelined \/ inflight = <<>>

PopDispatchable ==
    /\ at = "pop"
    /\ IF Dispatchable
       THEN /\ at' = "check"
            /\ hand' = <<Head(queued)>>
            /\ queued' = Tail(queued)
            /\ UNCHANGED <<count, delimiter, flushed>>
       ELSE Go("io") /\ UNCHANGED queued
    /\ UNCHANGED <<role, op, inflight, drained, drainer, awake, armed, libpq, server>>

(* An operation that was abandoned while it was queued is dropped. *)
CheckPhase(o) ==
    /\ at = "check" /\ hand = <<o>>
    /\ IF op[o].phase = "completed"
       THEN /\ NextOperation
            /\ PostDrainedIfIdle(queued, inflight)
       ELSE Go("send") /\ UNCHANGED <<drained, drainer>>
    /\ UNCHANGED <<role, op, queued, inflight, awake, armed, libpq, server>>

(* DBOperation::send gives the statement to libpq, then checks the phase;
   an exception leaves the pump for good. *)
SendOperation(o) ==
    /\ at = "send" /\ hand = <<o>>
    /\ out' = Append(out, o)
    /\ commands' = Append(commands, o)
    /\ IF CanSend(op[o])
       THEN op' = [op EXCEPT ![o] = Send(@)] /\ Go("push")
       ELSE UNCHANGED op /\ Go("dead")
    /\ UNCHANGED <<role, queued, inflight, drained, drainer, awake, armed, buffer, null,
                   server>>

(* libpq refuses a statement for a connection that is gone: send() returns
   false and the pump throws, with the operation out of the queue. *)
SendFails(o) ==
    /\ at = "send" /\ hand = <<o>>
    /\ ~serving
    /\ Go("dead")
    /\ UNCHANGED <<role, op, queued, inflight, drained, drainer, awake, armed, libpq,
                   server>>

(* Mutant: the ledger is filled from the front. *)
PushInflightFirst(o) ==
    /\ at = "push" /\ hand = <<o>>
    /\ inflight' = <<o>> \o inflight
    /\ NextOperation
    /\ UNCHANGED <<role, op, queued, drained, drainer, awake, armed, libpq, server>>

PushInflight(o) ==
    /\ at = "push" /\ hand = <<o>>
    /\ inflight' = Append(inflight, o)
    /\ NextOperation
    /\ UNCHANGED <<role, op, queued, drained, drainer, awake, armed, libpq, server>>

-----------------------------------------------------------------------------
(* The pump: flushing and reading.                                         *)

(* PQisBusy: with input b, no result can be returned without reading more. *)
Busy(b) == ~null /\ commands # <<>> /\ b = <<>>

(* PQflush sends what the socket takes, PQconsumeInput reads what is there. *)
Flush(n) ==
    /\ at = "io"
    /\ serving \/ wire # <<>>
    /\ out' = SubSeq(out, n + 1, Len(out))
    /\ todo' = todo \o SubSeq(out, 1, n)
    /\ buffer' = buffer \o wire
    /\ wire' = <<>>
    /\ at' = IF Busy(buffer') THEN "watch" ELSE "read"
    /\ count' = 0
    /\ flushed' = (out' = <<>>)
    /\ UNCHANGED <<role, op, queued, inflight, drained, drainer, hand, delimiter, awake,
                   armed, commands, null, answered, serving>>

FlushAndConsume == \E n \in 0..Len(out) : Flush(n)

(* PQconsumeInput fails at the end of a closed connection's data, and the
   exception leaves the pump. *)
ConnectionFails ==
    /\ at = "io"
    /\ ~serving /\ wire = <<>>
    /\ Go("dead")
    /\ UNCHANGED <<role, op, queued, inflight, drained, drainer, awake, armed, libpq,
                   server>>

Reading == at = "read" /\ count < Budget

(* PQgetResult on an empty buffer flushes and waits for the socket while a
   command is unanswered. *)
GetResultBlocks ==
    /\ Reading
    /\ Busy(buffer)
    /\ out # <<>> \/ wire # <<>>
    /\ todo' = todo \o out
    /\ out' = <<>>
    /\ buffer' = wire
    /\ wire' = <<>>
    /\ UNCHANGED <<role, op, queued, inflight, drained, drainer, pump, awake, armed,
                   commands, null, answered, serving>>

(* When the connection closes meanwhile, PQgetResult makes an error result of
   it for the head of the ledger; without pipeline mode the null that follows
   completes and retires the operation.  libpq then has no socket left, so the
   pump throws when it comes to watch it or has the next operation to send. *)
GetResultFails ==
    /\ Reading
    /\ Busy(buffer)
    /\ ~serving /\ wire = <<>>
    /\ IF Pipelined
       THEN /\ op' = [op EXCEPT ![Head(inflight)] = AcceptFailure(@)]
            /\ UNCHANGED <<inflight, drained, drainer>>
       ELSE /\ op' = [op EXCEPT ![Head(inflight)] = Complete(AcceptFailure(@))]
            /\ inflight' = Tail(inflight)
            /\ PostDrainedIfIdle(queued, inflight')
    /\ Go("dead")
    /\ UNCHANGED <<role, queued, awake, armed, libpq, server>>

(* Without pipeline mode the synchronisation point shows as the null that
   ends the results. *)
ReturnsNull ==
    \/ null
    \/ commands = <<>>
    \/ ~Pipelined /\ buffer # <<>> /\ Head(buffer).kind = "sync"

NullReturned ==
    /\ null' = FALSE
    /\ IF ~Pipelined /\ commands # <<>>
       THEN buffer' = Tail(buffer) /\ commands' = Tail(commands)
       ELSE UNCHANGED <<buffer, commands>>
    /\ UNCHANGED out

(* A null is skipped once on the way to the synchronisation point; without
   pipeline mode it completes the operation; otherwise it ends the loop. *)
GetNull ==
    /\ Reading
    /\ ReturnsNull
    /\ NullReturned
    /\ \/ /\ Pipelined /\ inflight # <<>>
          /\ NeedsSynchronization(op[Head(inflight)]) /\ ~delimiter
          /\ delimiter' = TRUE
          /\ count' = count + 1
          /\ UNCHANGED <<op, at, hand, flushed>>
       \/ /\ ~Pipelined /\ inflight # <<>>
          /\ op' = [op EXCEPT ![Head(inflight)] = Complete(@)]
          /\ Go("retire")
       \/ /\ IF Pipelined /\ inflight # <<>>
             THEN ~NeedsSynchronization(op[Head(inflight)]) \/ delimiter
             ELSE inflight = <<>>
          /\ Go("watch")
          /\ UNCHANGED op
    /\ UNCHANGED <<role, queued, inflight, drained, drainer, awake, armed, server>>

(* A result is credited to the head of the ledger; when there is none, or it
   cannot take the result, the exception leaves the pump. *)
CanTake(o, token) ==
    IF token.kind = "result" THEN CanAcceptResult(op[o]) ELSE IsSent(op[o])

Take(o, token) ==
    CASE token.kind = "result" -> AcceptResult(op[o])
      [] token.kind = "error" -> AcceptFailure(op[o])
      [] token.kind = "sync" -> Complete(op[o])

ResultReturned ==
    LET sync == Head(buffer).kind = "sync"
    IN /\ buffer' = Tail(buffer)
       /\ commands' = IF sync THEN Tail(commands) ELSE commands
       /\ null' = (Pipelined /\ ~sync)
       /\ UNCHANGED out

(* Mutant: an error retires its operation at once, as if no synchronisation
   point followed it. *)
GetResultRetiresError ==
    /\ Reading
    /\ ~ReturnsNull
    /\ buffer # <<>>
    /\ ResultReturned
    /\ IF inflight # <<>> /\ CanTake(Head(inflight), Head(buffer))
       THEN /\ at' = IF Head(buffer).kind # "result" THEN "retire" ELSE at
            /\ count' = count + 1
            /\ delimiter' = FALSE
            /\ op' = [op EXCEPT ![Head(inflight)] =
                         Take(Head(inflight), Head(buffer))]
            /\ UNCHANGED <<hand, flushed>>
       ELSE Go("dead") /\ UNCHANGED op
    /\ UNCHANGED <<role, queued, inflight, drained, drainer, awake, armed, server>>

GetResult ==
    /\ Reading
    /\ ~ReturnsNull
    /\ buffer # <<>>
    /\ ResultReturned
    /\ IF inflight # <<>> /\ CanTake(Head(inflight), Head(buffer))
       THEN /\ at' = IF Head(buffer).kind = "sync" THEN "retire" ELSE at
            /\ count' = count + 1
            /\ delimiter' = FALSE
            /\ op' = [op EXCEPT ![Head(inflight)] =
                         Take(Head(inflight), Head(buffer))]
            /\ UNCHANGED <<hand, flushed>>
       ELSE Go("dead") /\ UNCHANGED op
    /\ UNCHANGED <<role, queued, inflight, drained, drainer, awake, armed, server>>

(* retireHead() pops the ledger and posts the baton in two critical sections.
   An enqueue between them leaves what an enqueue before them does: the baton
   stays reset.  A drain check between them finds both queues empty and
   returns, as it does after the post. *)
RetireHead ==
    /\ at = "retire"
    /\ inflight' = Tail(inflight)
    /\ PostDrainedIfIdle(queued, inflight')
    /\ Go(IF Pipelined THEN "read" ELSE "watch")
    /\ UNCHANGED <<role, op, queued, awake, armed, libpq, server>>

(* The budget is spent: the loop ends, whatever libpq still holds. *)
BudgetSpent ==
    /\ at = "read"
    /\ count = Budget
    /\ Go("watch")
    /\ UNCHANGED <<role, op, queued, inflight, drained, drainer, awake, armed, libpq,
                   server>>

(* Mutant: only queued operations count as work. *)
WatchForQueued ==
    /\ at = "watch"
    /\ armed' = IF queued = <<>> THEN armed
                ELSE IF flushed THEN "read" ELSE "read_write"
    /\ Go("idle")
    /\ UNCHANGED <<role, op, queued, inflight, drained, drainer, awake, libpq, server>>

(* With work left the pump arms the socket; then it returns. *)
WatchSocket ==
    /\ at = "watch"
    /\ armed' = IF queued = <<>> /\ inflight = <<>> THEN armed
                ELSE IF flushed THEN "read" ELSE "read_write"
    /\ Go("idle")
    /\ UNCHANGED <<role, op, queued, inflight, drained, drainer, awake, libpq, server>>

-----------------------------------------------------------------------------
(* The reactor's poller, and the server.                                   *)

SocketReady ==
    \/ wire # <<>>
    \/ ~serving
    \/ armed = "read_write"

PollerWakes ==
    /\ armed # "none"
    /\ SocketReady
    /\ armed' = "none"
    /\ awake' = TRUE
    /\ UNCHANGED <<role, op, queued, inflight, drained, drainer, pump, libpq, server>>

(* The result of a statement and the end of its synchronisation point may
   arrive apart. *)
ServerAnswers ==
    /\ serving
    /\ todo # <<>>
    /\ answered' = ~answered
    /\ IF answered
       THEN /\ wire' = Append(wire, [of |-> Head(todo), kind |-> "sync"])
            /\ todo' = Tail(todo)
       ELSE /\ \E kind \in {"result", "error"} :
                 wire' = Append(wire, [of |-> Head(todo), kind |-> kind])
            /\ UNCHANGED todo
    /\ UNCHANGED <<role, op, queued, inflight, drained, drainer, pump, awake, armed,
                   libpq, serving>>

ServerCloses ==
    /\ MayBreak
    /\ serving
    /\ serving' = FALSE
    /\ UNCHANGED <<role, op, queued, inflight, drained, drainer, pump, awake, armed,
                   libpq, todo, answered, wire>>

-----------------------------------------------------------------------------
Dispatch(o) == CheckPhase(o) \/ SendOperation(o) \/ SendFails(o) \/ PushInflight(o)

Read == \/ GetResultBlocks \/ GetResultFails \/ GetNull \/ GetResult
        \/ RetireHead \/ BudgetSpent

PumpStep ==
    \/ PumpBegins \/ PopDispatchable \/ (\E o \in Ops : Dispatch(o))
    \/ FlushAndConsume \/ ConnectionFails \/ Read \/ WatchSocket

Drain == DrainChecks \/ DrainAwaits

Next ==
    \/ \E o \in Ops : Enqueue(o) \/ AbandonOperation(o)
    \/ DrainBegins \/ Drain
    \/ PumpStep \/ PollerWakes
    \/ ServerAnswers \/ ServerCloses

Spec == Init /\ [][Next]_vars

(* The reactor's threads and the application's executor run, and the server
   answers what it was sent, at the latest when its statement_timeout ends
   the statement.  The socket does not stay full: it drains as the server
   reads. *)
FairSpec ==
    /\ Spec
    /\ WF_vars(PumpStep) /\ WF_vars(PollerWakes)
    /\ WF_vars(ServerAnswers) /\ WF_vars(Drain)
    /\ SF_vars(Flush(Len(out)))

-----------------------------------------------------------------------------
(* The ledger holds the operations libpq still owes an answer for, in the
   same order, whenever the pump is not between a libpq call and the change
   of the ledger that belongs to it; so no result arrives without a ledger
   entry (pumpConnected throws then). *)
LedgerMirrorsLibpq ==
    CASE at = "push" -> commands = inflight \o hand
      [] at = "retire" -> inflight # <<>> /\ commands = Tail(inflight)
      [] at = "dead" -> TRUE
      [] OTHER -> commands = inflight

(* What PQgetResult returns next is the answer to the operation at the head
   of the ledger, to which pumpConnected credits it, and that operation can
   take it. *)
CreditedToOwner ==
    (at = "read" /\ buffer # <<>> /\ ~ReturnsNull)
        => /\ inflight # <<>>
           /\ Head(inflight) = Head(buffer).of
           /\ CanTake(Head(inflight), Head(buffer))

(* The baton drain() waits for is posted only while no operation is queued,
   in the pump's hand or in flight, although enqueue() resets it and the pump
   posts it concurrently. *)
BatonTellsTruth ==
    drained => queued = <<>> /\ inflight = <<>> /\ hand = <<>>

(* The read budget ran out with results left inside libpq, where the poller
   does not see them: nothing but another enqueue() goes on reading. *)
Stalled == at = "idle" /\ ~awake /\ buffer # <<>>

(* Every operation handed to enqueue() on a pipelined connection is
   completed, however its answer is cut into packets, unless the pump died of
   a lost connection or of an operation abandoned under it, or has stalled. *)
OperationsEnd ==
    \A o \in Ops :
        (op[o].phase # "cold" /\ Pipelined)
            ~> (op[o].phase = "completed" \/ at = "dead" \/ Stalled)

=============================================================================
