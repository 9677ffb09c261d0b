---------------------------- MODULE DBTaskProofs ----------------------------
(***************************************************************************)
(* A coroutine that awaits a database operation is resumed at most once,   *)
(* and the operation is a future to it, for any number of coroutines.      *)
(***************************************************************************)
EXTENDS DBTask, TLAPS

HandleType ==
    /\ continuation \in Consumers \cup {None}
    /\ posted \in [Consumers -> Nat]
    /\ resumed \in [Consumers -> Nat]
    /\ consumer \in [Consumers -> ConsumerSteps]

(* The handle of c is nowhere: neither stored, nor posted, nor resumed. *)
Fresh(c) == continuation # c /\ posted[c] = 0 /\ resumed[c] = 0

(* The handle of c is in one place at most. *)
OnePlace(c) ==
    /\ posted[c] + resumed[c] <= 1
    /\ continuation = c => posted[c] = 0 /\ resumed[c] = 0

(* A coroutine that has not registered has given its handle to nobody. *)
Unregistered == {"ready", "start", "submit", "push", "register"}

IInv ==
    /\ HandleType
    /\ \A c \in Consumers : OnePlace(c)
    /\ \A c \in Consumers : consumer[c] \in Unregistered => Fresh(c)

(* Nobody has given a handle away at the start. *)
LEMMA InitIInv == Init => IInv
BY ConsumerAssumption
   DEF Init, IInv, HandleType, OnePlace, Fresh, Unregistered, ConsumerSteps

(* complete(), abandon() and ~Awaiter move a stored handle to the executor. *)
LEMMA ResumeKeeps ==
    ASSUME IInv, ResumeContinuation, UNCHANGED <<resumed, consumer>>
    PROVE  IInv'
BY ConsumerAssumption
   DEF IInv, HandleType, OnePlace, Fresh, Unregistered, ResumeContinuation

(* A step of an awaiting coroutine that leaves all handles where they are. *)
LEMMA MoveKeeps ==
    ASSUME IInv, NEW c \in Consumers, NEW to \in ConsumerSteps,
           consumer' = [consumer EXCEPT ![c] = to],
           UNCHANGED <<continuation, posted, resumed>>,
           to \in Unregistered => consumer[c] \in Unregistered
    PROVE  IInv'
BY DEF IInv, HandleType, OnePlace, Fresh, Unregistered

(* Every step of an awaiting coroutine keeps the invariant. *)
LEMMA AwaitKeeps ==
    ASSUME IInv, NEW c \in Consumers, Await(c)
    PROVE  IInv'
<1> USE DEF GoOn
<1>1. CASE AwaitReady(c)
  BY <1>1, MoveKeeps DEF AwaitReady, ConsumerSteps, Unregistered
<1>2. CASE StartOperation(c)
  BY <1>2, MoveKeeps DEF StartOperation, ConsumerSteps, Unregistered
<1>3. CASE MarkQueued(c)
  BY <1>3, MoveKeeps DEF MarkQueued, ConsumerSteps, Unregistered
<1>4. CASE SubmitThrows(c)
  BY <1>4, MoveKeeps DEF SubmitThrows, ConsumerSteps, Unregistered
<1>5. CASE PushQueued(c)
  BY <1>5, MoveKeeps DEF PushQueued, ConsumerSteps, Unregistered
<1>6. CASE RegisterContinuation(c)
  <2>1. Fresh(c) /\ consumer' = [consumer EXCEPT ![c] =
                       IF continuation # None THEN "refused" ELSE "suspended"]
    BY <1>6 DEF RegisterContinuation, IInv, Unregistered
  <2>2. CASE continuation = None /\ ~IsCompleted(op)
    BY <1>6, <2>1, <2>2, ConsumerAssumption
       DEF RegisterContinuation, IInv, HandleType, OnePlace, Fresh, Unregistered,
           ConsumerSteps
  <2>3. CASE continuation = None /\ IsCompleted(op)
    <3>1. /\ posted' = [posted EXCEPT ![c] = @ + 1]
          /\ UNCHANGED <<continuation, resumed>>
          /\ consumer' = [consumer EXCEPT ![c] = "suspended"]
      BY <1>6, <2>1, <2>3 DEF RegisterContinuation
    <3>2. HandleType'
      BY <3>1 DEF IInv, HandleType, ConsumerSteps
    <3>3. ASSUME NEW d \in Consumers
          PROVE  OnePlace(d)' /\ (consumer'[d] \in Unregistered => Fresh(d)')
      <4>1. CASE d = c
        BY <2>1, <3>1, <4>1 DEF IInv, HandleType, OnePlace, Fresh, Unregistered
      <4>2. CASE d # c
        BY <3>1, <4>2 DEF IInv, HandleType, OnePlace, Fresh
      <4> QED BY <4>1, <4>2
    <3> QED BY <3>2, <3>3 DEF IInv
  <2>4. CASE continuation # None
    BY <1>6, <2>4, MoveKeeps
       DEF RegisterContinuation, ConsumerSteps, Unregistered
  <2> QED BY <2>2, <2>3, <2>4
<1>7. CASE RethrowIfFailed(c)
  BY <1>7, MoveKeeps DEF RethrowIfFailed, ConsumerSteps, Unregistered
<1>8. CASE TakeResult(c)
  BY <1>8, MoveKeeps DEF TakeResult, ConsumerSteps, Unregistered
<1>9. CASE UnregisterContinuation(c)
  BY <1>9, ConsumerAssumption
     DEF UnregisterContinuation, IInv, HandleType, OnePlace, Fresh, Unregistered,
         ConsumerSteps
<1>10. CASE DestroyAwaiter(c)
  <2>1. PICK to \in {"gone", "outcast"} : consumer' = [consumer EXCEPT ![c] = to]
    BY <1>10 DEF DestroyAwaiter
  <2>2. ResumeContinuation /\ UNCHANGED resumed
    BY <1>10 DEF DestroyAwaiter
  <2>3. HandleType'
    BY <2>1, <2>2 DEF ResumeContinuation, IInv, HandleType, ConsumerSteps
  <2>4. ASSUME NEW d \in Consumers PROVE OnePlace(d)'
    BY <2>2, ConsumerAssumption DEF ResumeContinuation, IInv, HandleType, OnePlace
  <2>5. ASSUME NEW d \in Consumers, consumer'[d] \in Unregistered PROVE Fresh(d)'
    <3>1. consumer[d] \in Unregistered
      BY <2>1, <2>5 DEF IInv, HandleType, Unregistered
    <3> QED
      BY <2>2, <3>1, ConsumerAssumption DEF ResumeContinuation, IInv, HandleType, Fresh
  <2> QED BY <2>3, <2>4, <2>5 DEF IInv
<1> QED BY <1>1, <1>2, <1>3, <1>4, <1>5, <1>6, <1>7, <1>8, <1>9, <1>10 DEF Await

(* The executor runs a posted handle, which is then nowhere else. *)
LEMMA ExecutorKeeps ==
    ASSUME IInv, NEW c \in Consumers, ExecutorResumes(c)
    PROVE  IInv'
BY DEF IInv, HandleType, OnePlace, Fresh, Unregistered, ExecutorResumes,
       ConsumerSteps

(* IInv is inductive. *)
LEMMA NextIInv == IInv /\ [Next]_vars => IInv'
<1> SUFFICES ASSUME IInv, [Next]_vars PROVE IInv'
  OBVIOUS
<1>1. CASE UNCHANGED vars
  BY <1>1 DEF vars, IInv, HandleType, OnePlace, Fresh, Unregistered
<1>2. CASE AbandonTask \/ PumpCompletes
  BY <1>2, ResumeKeeps DEF AbandonTask, PumpCompletes
<1>3. CASE PumpChecks \/ PumpSends \/ PumpAccepts
  BY <1>3 DEF PumpChecks, PumpSends, PumpAccepts, IInv, HandleType, OnePlace,
              Fresh, Unregistered
<1> QED BY <1>1, <1>2, <1>3, AwaitKeeps, ExecutorKeeps DEF Next, Pump

(* The inductive invariant holds in every reachable state of a task. *)
THEOREM HandleTheorem == Spec => []IInv
BY InitIInv, NextIInv, PTL DEF Spec

(* registerContinuation, complete, abandon and ~Awaiter never resume a
   coroutine twice. *)
THEOREM ResumedOnceTheorem == Spec => []ResumedOnce
<1>1. IInv => ResumedOnce
  BY DEF IInv, HandleType, OnePlace, ResumedOnce
<1> QED BY <1>1, HandleTheorem, PTL

-----------------------------------------------------------------------------
(* The refinement of Future.                                               *)

Resumed == {"resume", "take", "finished", "unregistered", "gone"}

(* Nobody is posted to the executor or has gone on before the operation has
   completed or been given up. *)
Settled ==
    /\ op \in Operation
    /\ HandleType
    /\ \A c \in Consumers : posted[c] > 0 \/ consumer[c] \in Resumed => IsCompleted(op)

(* What a step does to the future: a settled one stays settled, and a
   coroutine that goes on had its handle in the executor or found the
   operation completed in await_ready. *)
FutureStep ==
    /\ op' \in Operation
    /\ IsCompleted(op) => IsCompleted(op')
    /\ \A c \in Consumers : consumer[c] \in Resumed => consumer'[c] \in Resumed
    /\ \A c \in Consumers : consumer[c] = "suspended" => consumer'[c] \in Resumed \cup {"suspended"}
    /\ \A c \in Consumers : consumer'[c] # consumer[c] /\ consumer'[c] \in Resumed \cup {"suspended"} =>
           IsCompleted(op') = IsCompleted(op) \/ (consumer[c] \in Resumed /\ consumer'[c] \in Resumed)
    /\ \A c \in Consumers : consumer'[c] \in Resumed => IsCompleted(op')

(* abandon() settles an operation, whatever its phase was. *)
LEMMA AbandonSettles ==
    ASSUME NEW o \in Operation
    PROVE  Abandon(o) \in Operation /\ IsCompleted(Abandon(o))
BY DEF Abandon, Operation, Phases, Outcomes, IsCompleted

(* No other member function unsettles one. *)
LEMMA PhasesKeep ==
    ASSUME NEW o \in Operation
    PROVE  /\ CanStart(o) => Start(o) \in Operation /\ IsCompleted(Start(o)) = IsCompleted(o)
           /\ CanSend(o) => Send(o) \in Operation /\ IsCompleted(Send(o)) = IsCompleted(o)
           /\ o.phase = "sent" =>
                \A n \in {AcceptResult(o), AcceptFailure(o)} :
                    n \in Operation /\ IsCompleted(n) = IsCompleted(o)
           /\ Complete(o) \in Operation /\ IsCompleted(Complete(o))
BY DEF CanStart, Start, CanSend, Send, AcceptResult, AcceptFailure, Complete, Operation,
       Phases, Outcomes, IsCompleted

(* A step that settles the operation may post a stored handle. *)
LEMMA SettleKeeps ==
    ASSUME Settled, op' \in Operation, IsCompleted(op'), HandleType',
           \A c \in Consumers : consumer'[c] = consumer[c] \/ consumer[c] \in {"unregistered", "rejected"},
           \A c \in Consumers : consumer[c] = "unregistered" => consumer'[c] \in {"unregistered", "gone"},
           \A c \in Consumers : consumer[c] = "rejected" => consumer'[c] \in {"rejected", "outcast"}
    PROVE  Settled' /\ FutureStep
BY DEF Settled, FutureStep, Resumed

(* Every step of an awaiting coroutine keeps the promise. *)
LEMMA AwaitSettled ==
    ASSUME IInv, IInv', Settled, NEW c \in Consumers, Await(c)
    PROVE  Settled' /\ FutureStep
<1> USE DEF GoOn
<1>t. HandleType /\ HandleType' /\ op \in Operation
  BY DEF IInv, Settled
<1>1. CASE AwaitReady(c)
  BY <1>1, <1>t DEF AwaitReady, Settled, FutureStep, Resumed, HandleType
<1>2. CASE StartOperation(c)
  <2>1. op' \in Operation /\ IsCompleted(op') = IsCompleted(op)
    BY <1>2, <1>t, PhasesKeep DEF StartOperation
  <2> QED BY <1>2, <1>t, <2>1 DEF StartOperation, Settled, FutureStep, Resumed, HandleType
<1>3. CASE MarkQueued(c) \/ SubmitThrows(c) \/ PushQueued(c)
  BY <1>3, <1>t DEF MarkQueued, SubmitThrows, PushQueued, Settled, FutureStep, Resumed, HandleType
<1>4. CASE RegisterContinuation(c)
  BY <1>4, <1>t DEF RegisterContinuation, Settled, FutureStep, Resumed, HandleType
<1>5. CASE RethrowIfFailed(c) \/ TakeResult(c) \/ UnregisterContinuation(c)
  BY <1>5, <1>t DEF RethrowIfFailed, TakeResult, UnregisterContinuation, Settled, FutureStep,
     Resumed, HandleType
<1>6. CASE DestroyAwaiter(c)
  <2>1. op' \in Operation /\ IsCompleted(op')
    BY <1>6, <1>t, AbandonSettles DEF DestroyAwaiter
  <2>2. /\ \A d \in Consumers : consumer'[d] = consumer[d] \/ consumer[d] \in {"unregistered", "rejected"}
        /\ \A d \in Consumers : consumer[d] = "unregistered" => consumer'[d] \in {"unregistered", "gone"}
        /\ \A d \in Consumers : consumer[d] = "rejected" => consumer'[d] \in {"rejected", "outcast"}
    BY <1>6, <1>t DEF DestroyAwaiter, HandleType
  <2> QED BY <1>t, <2>1, <2>2, SettleKeeps
<1> QED BY <1>1, <1>2, <1>3, <1>4, <1>5, <1>6 DEF Await

(* Every step keeps the promise. *)
LEMMA StepSettled == IInv /\ IInv' /\ Settled /\ [Next]_vars => Settled' /\ FutureStep
<1> SUFFICES ASSUME IInv, IInv', Settled, [Next]_vars PROVE Settled' /\ FutureStep
  OBVIOUS
<1>t. HandleType /\ HandleType' /\ op \in Operation
  BY DEF IInv, Settled
<1>1. CASE UNCHANGED vars
  BY <1>1, <1>t DEF vars, Settled, FutureStep, Resumed
<1>2. ASSUME NEW c \in Consumers, ExecutorResumes(c) PROVE Settled' /\ FutureStep
  BY <1>2, <1>t DEF ExecutorResumes, Settled, FutureStep, Resumed, HandleType
<1>3. CASE AbandonTask \/ PumpCompletes
  <2>1. op' \in Operation /\ IsCompleted(op') /\ UNCHANGED consumer
    BY <1>3, <1>t, AbandonSettles, PhasesKeep DEF AbandonTask, PumpCompletes
  <2> QED BY <1>t, <2>1, SettleKeeps
<1>4. CASE PumpChecks \/ PumpSends \/ PumpAccepts
  <2>1. op' \in Operation /\ IsCompleted(op') = IsCompleted(op) /\ UNCHANGED <<consumer, posted>>
    BY <1>4, <1>t, PhasesKeep DEF PumpChecks, PumpSends, PumpAccepts
  <2> QED BY <1>t, <2>1 DEF Settled, FutureStep, Resumed
<1> QED BY <1>1, <1>2, <1>3, <1>4, AwaitSettled DEF Next, Pump

(* Nobody goes on before the operation has settled. *)
LEMMA SettledTheorem == Spec => []Settled
<1>1. Init => Settled
  BY DEF Init, Settled, NewOperation, Operation, Phases, Outcomes, HandleType, Resumed, ConsumerSteps
<1> QED BY <1>1, StepSettled, HandleTheorem, PTL DEF Spec

(* Such a step is one of the future's, or none. *)
LEMMA StepRefines ==
    ASSUME Settled, Settled', FutureStep
    PROVE  [TheFuture!Next]_<<IsCompleted(op), Waiter>>
<1>1. Watched \in Consumers
  BY ConsumerAssumption DEF Watched
<1>2. /\ Waiter = "resumed" <=> consumer[Watched] \in Resumed
      /\ Waiter = "waiting" <=> consumer[Watched] = "suspended"
      /\ Waiter \in {"absent", "waiting", "resumed"}
  BY DEF Waiter, Resumed
<1>3. /\ Waiter' = "resumed" <=> consumer'[Watched] \in Resumed
      /\ Waiter' = "waiting" <=> consumer'[Watched] = "suspended"
      /\ Waiter' \in {"absent", "waiting", "resumed"}
  BY DEF Waiter, Resumed
<1>4. IsCompleted(op) \in BOOLEAN /\ IsCompleted(op') \in BOOLEAN
  BY DEF IsCompleted, Settled, Operation
<1>5. CASE Waiter' = Waiter
  BY <1>4, <1>5 DEF FutureStep, TheFuture!Next, TheFuture!Settle
<1>6. CASE Waiter' # Waiter
  <2>1. /\ Waiter' \in {"waiting", "resumed"} /\ consumer'[Watched] # consumer[Watched]
        /\ Waiter \in {"absent", "waiting"}
        /\ Waiter' = "waiting" => Waiter = "absent"
    BY <1>1, <1>2, <1>3, <1>6 DEF FutureStep, Resumed
  <2>2. IsCompleted(op') = IsCompleted(op)
    BY <1>1, <1>2, <1>3, <2>1 DEF FutureStep, Resumed
  <2>3. CASE Waiter' = "waiting"
    BY <2>1, <2>2, <2>3 DEF TheFuture!Next, TheFuture!Wait
  <2>4. CASE Waiter' = "resumed"
    <3>1. IsCompleted(op)
      BY <1>1, <1>3, <2>2, <2>4 DEF FutureStep
    <3> QED BY <2>1, <2>2, <2>4, <3>1 DEF TheFuture!Next, TheFuture!Resume
  <2> QED BY <2>1, <2>3, <2>4
<1> QED BY <1>5, <1>6

(* An operation and the coroutine that awaits it are a future: await_resume
   runs once, never before the operation has completed or been given up, and
   what has settled stays settled. *)
THEOREM TaskImplementsFuture == Spec => ImplementsFuture
<1>1. Init => TheFuture!Init
  <2>1. Watched \in Consumers
    BY ConsumerAssumption DEF Watched
  <2> QED BY <2>1 DEF Init, TheFuture!Init, NewOperation, IsCompleted, Waiter
<1>2. IInv /\ IInv' /\ Settled /\ Settled' /\ [Next]_vars => [TheFuture!Next]_<<IsCompleted(op), Waiter>>
  BY StepSettled, StepRefines
<1> QED BY <1>1, <1>2, HandleTheorem, SettledTheorem, PTL DEF Spec, ImplementsFuture, TheFuture!Spec

-----------------------------------------------------------------------------
(* No coroutine is left suspended.                                         *)

(* Somebody has still to do something about the operation: the connection has
   it, its starter is on the way to one, or a refused awaiter is about to
   abandon it. *)
Underway ==
    \/ connection \in {"queued", "checked", "sent"}
    \/ \E d \in Consumers : consumer[d] \in {"submit", "push", "refused"}

(* A suspended coroutine is in the executor, or its handle is stored in an
   operation that has not ended and that somebody has still to end
   (DBOperation::registerContinuation, complete, abandon). *)
SuspendedIsAwaited ==
    \A c \in Consumers : consumer[c] = "suspended" =>
        \/ Unseated
        \/ posted[c] > 0
        \/ continuation = c /\ ~IsCompleted(op) /\ Underway

(* The operation's phase follows the connection: it is started once, and only
   the connection that has it sends it. *)
Course ==
    /\ connection = "none" => op.phase \in {"cold", "queued", "completed"}
    /\ connection # "none" => op.phase # "cold"
    /\ connection \in {"queued", "checked"} => op.phase \in {"queued", "completed"}
    /\ \A d \in Consumers : consumer[d] \in {"submit", "push"} =>
           connection = "none" /\ op.phase # "cold"
    /\ \A d, e \in Consumers :
           consumer[d] \in {"submit", "push"} /\ consumer[e] \in {"submit", "push"} => d = e
    /\ \A d \in Consumers : consumer[d] = "register" => op.phase # "cold"

AwaitedInv ==
    /\ IsCompleted(op) => continuation = None
    /\ op.phase # "cold" /\ ~IsCompleted(op) => Underway \/ Unseated
    /\ SuspendedIsAwaited

(* acceptResult and acceptFailure leave an operation to be synchronised. *)
LEMMA AcceptedPhase ==
    ASSUME NEW o \in Operation
    PROVE  \A n \in {AcceptResult(o), AcceptFailure(o)} : n.phase = "synchronizing"
<1>1. DOMAIN o = {"phase", "outcome", "consumerCancelled"}
  BY DEF Operation
<1>2. AcceptResult(o).phase = "synchronizing"
  BY <1>1 DEF AcceptResult
<1>3. AcceptFailure(o).phase = "synchronizing"
  BY <1>1 DEF AcceptFailure
<1> QED BY <1>2, <1>3

(* Every step keeps the course of the operation. *)
LEMMA CourseKept ==
    ASSUME IInv, Settled, Course, [Next]_vars
    PROVE  Course'
<1> USE DEF GoOn, Course
<1>t. HandleType /\ op \in Operation
  BY DEF Settled
<1>1. ASSUME NEW c \in Consumers, AwaitReady(c) PROVE Course'
  BY <1>t, <1>1 DEF AwaitReady, HandleType
<1>2. ASSUME NEW c \in Consumers, StartOperation(c) PROVE Course'
  BY <1>t, <1>2 DEF StartOperation, CanStart, Start, HandleType, Operation
<1>3. ASSUME NEW c \in Consumers, MarkQueued(c) \/ SubmitThrows(c) \/ PushQueued(c)
      PROVE  Course'
  BY <1>t, <1>3 DEF MarkQueued, SubmitThrows, PushQueued, HandleType
<1>4. ASSUME NEW c \in Consumers,
             RegisterContinuation(c) \/ RethrowIfFailed(c) \/ TakeResult(c)
               \/ UnregisterContinuation(c) \/ ExecutorResumes(c)
      PROVE  Course'
  <2>1. /\ UNCHANGED <<op, connection>>
        /\ \A d \in Consumers : consumer'[d] \in {"submit", "push", "register"} =>
               consumer'[d] = consumer[d]
    BY <1>t, <1>4 DEF RegisterContinuation, RethrowIfFailed, TakeResult,
       UnregisterContinuation, ExecutorResumes, HandleType
  <2> QED BY <2>1
<1>5. CASE AbandonTask \/ \E c \in Consumers : DestroyAwaiter(c)
  <2>1. /\ op' = Abandon(op) /\ UNCHANGED connection
        /\ \A d \in Consumers : consumer'[d] \in {"submit", "push", "register"} =>
               consumer'[d] = consumer[d]
    BY <1>t, <1>5 DEF AbandonTask, DestroyAwaiter, HandleType
  <2>2. op'.phase = op.phase \/ op'.phase = "completed"
    BY <1>t, <2>1 DEF Abandon, Operation
  <2> QED BY <2>1, <2>2
<1>6. CASE Pump
  <2>1. UNCHANGED consumer
    BY <1>6 DEF Pump, PumpChecks, PumpSends, PumpAccepts, PumpCompletes
  <2>2. /\ connection # "none" /\ connection' # "none" /\ op'.phase # "cold"
        /\ connection' \in {"queued", "checked"} => op'.phase \in {"queued", "completed"}
    <3>1. CASE PumpChecks
      BY <3>1 DEF PumpChecks
    <3>2. CASE PumpSends
      BY <1>t, <3>2 DEF PumpSends, Send, CanSend, Operation
    <3>3. CASE PumpAccepts
      <4>1. op'.phase = "synchronizing"
        BY <1>t, <3>3, AcceptedPhase DEF PumpAccepts
      <4> QED BY <3>3, <4>1 DEF PumpAccepts
    <3>4. CASE PumpCompletes
      BY <1>t, <3>4 DEF PumpCompletes, Complete, Operation
    <3> QED BY <1>6, <3>1, <3>2, <3>3, <3>4 DEF Pump
  <2> QED BY <2>1, <2>2
<1>7. CASE UNCHANGED vars
  BY <1>7 DEF vars
<1> QED BY <1>1, <1>2, <1>3, <1>4, <1>5, <1>6, <1>7 DEF Next, Await

(* A step that ends the operation has posted the stored handle. *)
LEMMA EndingPosts ==
    ASSUME IInv, AwaitedInv, ResumeContinuation, IsCompleted(op'),
           \A d \in Consumers : consumer'[d] = "suspended" => consumer[d] = "suspended",
           Unseated => Unseated'
    PROVE  AwaitedInv'
<1>1. \A d \in Consumers :
        /\ posted[d] > 0 => posted'[d] > 0
        /\ continuation = d => posted'[d] > 0
  BY ConsumerAssumption DEF ResumeContinuation, IInv, HandleType
<1> QED BY <1>1 DEF ResumeContinuation, AwaitedInv, SuspendedIsAwaited

(* A step that leaves the handles alone and keeps the operation under way. *)
LEMMA QuietKeepsAwaited ==
    ASSUME AwaitedInv, UNCHANGED <<continuation, posted>>,
           IsCompleted(op') = IsCompleted(op),
           op.phase = "cold" => op'.phase = "cold" \/ Underway',
           \A d \in Consumers : consumer'[d] = "suspended" => consumer[d] = "suspended",
           Unseated => Unseated',
           Underway /\ ~IsCompleted(op) => Underway'
    PROVE  AwaitedInv'
BY DEF AwaitedInv, SuspendedIsAwaited

(* Every step keeps a suspended coroutine awaited. *)
LEMMA AwaitedKept ==
    ASSUME IInv, Settled, Course, AwaitedInv, [Next]_vars
    PROVE  AwaitedInv'
<1> USE DEF GoOn
<1>t. HandleType /\ op \in Operation
  BY DEF Settled
<1>1. ASSUME NEW c \in Consumers,
             \/ AwaitReady(c) \/ StartOperation(c) \/ MarkQueued(c) \/ SubmitThrows(c)
             \/ PushQueued(c) \/ RethrowIfFailed(c) \/ TakeResult(c)
      PROVE  AwaitedInv'
  <2>1. /\ UNCHANGED <<continuation, posted>>
        /\ \A d \in Consumers : consumer'[d] = "suspended" => consumer[d] = "suspended"
        /\ \A d \in Consumers : consumer[d] \in {"rejected", "outcast"} => consumer'[d] = consumer[d]
    BY <1>t, <1>1 DEF AwaitReady, StartOperation, MarkQueued, SubmitThrows, PushQueued,
       RethrowIfFailed, TakeResult, HandleType
  <2>2. /\ \A d \in Consumers : consumer[d] = "refused" => consumer'[d] = "refused"
        /\ \A d \in Consumers : consumer[d] \in {"submit", "push"} =>
               consumer'[d] \in {"submit", "push", "refused"} \/ connection' = "queued"
        /\ connection' = connection \/ connection' = "queued"
    BY <1>t, <1>1 DEF AwaitReady, StartOperation, MarkQueued, SubmitThrows, PushQueued,
       RethrowIfFailed, TakeResult, HandleType
  <2>3. /\ IsCompleted(op') = IsCompleted(op)
        /\ op' = op \/ consumer'[c] = "submit"
    BY <1>t, <1>1, PhasesKeep DEF AwaitReady, StartOperation, MarkQueued, SubmitThrows, PushQueued,
       RethrowIfFailed, TakeResult, HandleType
  <2>4. Unseated => Unseated'
    BY <2>1 DEF Unseated
  <2>5. (Underway => Underway') /\ (op.phase = "cold" => op'.phase = "cold" \/ Underway')
    BY <2>2, <2>3 DEF Underway
  <2> QED BY <2>1, <2>3, <2>4, <2>5, QuietKeepsAwaited
<1>2. ASSUME NEW c \in Consumers, RegisterContinuation(c) PROVE AwaitedInv'
  <2>1. /\ op' = op /\ connection' = connection
        /\ op.phase # "cold"
        /\ \A d \in Consumers \ {c} : consumer'[d] = consumer[d] /\ posted'[d] = posted[d]
        /\ consumer[c] = "register"
        /\ consumer'[c] = IF continuation # None THEN "refused" ELSE "suspended"
    BY <1>t, <1>2 DEF RegisterContinuation, Course, HandleType
  <2>2. (Unseated => Unseated') /\ (Underway => Underway')
    BY <2>1 DEF Unseated, Underway
  <2>3. CASE continuation # None
    BY <1>2, <2>1, <2>2, <2>3 DEF RegisterContinuation, AwaitedInv, SuspendedIsAwaited
  <2>4. CASE continuation = None /\ IsCompleted(op)
    <3>1. posted'[c] > 0 /\ continuation' = None
      BY <1>t, <1>2, <2>4 DEF RegisterContinuation, HandleType
    <3> QED BY <2>1, <2>2, <2>4, <3>1 DEF AwaitedInv, SuspendedIsAwaited
  <2>5. CASE continuation = None /\ ~IsCompleted(op)
    <3>1. continuation' = c /\ posted' = posted
      BY <1>2, <2>5 DEF RegisterContinuation
    <3>2. \A d \in Consumers : continuation # d
      BY <2>5, ConsumerAssumption
    <3> QED BY <2>1, <2>2, <2>5, <3>1, <3>2 DEF AwaitedInv, SuspendedIsAwaited
  <2> QED BY <2>3, <2>4, <2>5
<1>3. ASSUME NEW c \in Consumers, UnregisterContinuation(c) PROVE AwaitedInv'
  <2>1. /\ op' = op /\ connection' = connection /\ posted' = posted
        /\ \A d \in Consumers \ {c} : consumer'[d] = consumer[d]
        /\ continuation' = None
    BY <1>t, <1>3 DEF UnregisterContinuation, HandleType
  <2>2. CASE consumer[c] = "finished" /\ consumer'[c] = "unregistered"
    <3>1. IsCompleted(op)
      BY <2>2 DEF Settled, Resumed
    <3>2. (Unseated => Unseated') /\ continuation = None
      BY <2>1, <2>2, <3>1 DEF Unseated, AwaitedInv
    <3> QED BY <2>1, <2>2, <3>1, <3>2 DEF AwaitedInv, SuspendedIsAwaited
  <2>3. CASE consumer'[c] = "rejected"
    <3>1. Unseated'
      BY <2>3 DEF Unseated
    <3> QED BY <2>1, <3>1 DEF AwaitedInv, SuspendedIsAwaited
  <2> QED BY <1>t, <1>3, <2>2, <2>3 DEF UnregisterContinuation, HandleType
<1>4. ASSUME NEW c \in Consumers, ExecutorResumes(c) PROVE AwaitedInv'
  <2>1. /\ op' = op /\ connection' = connection /\ continuation' = continuation
        /\ \A d \in Consumers \ {c} : consumer'[d] = consumer[d] /\ posted'[d] = posted[d]
        /\ consumer'[c] # "suspended"
        /\ consumer[c] # "suspended" => consumer'[c] = consumer[c]
    BY <1>t, <1>4 DEF ExecutorResumes, HandleType
  <2>2. (Unseated => Unseated') /\ (Underway => Underway')
    BY <2>1 DEF Unseated, Underway
  <2> QED BY <2>1, <2>2 DEF AwaitedInv, SuspendedIsAwaited
<1>5. CASE AbandonTask \/ PumpCompletes \/ \E c \in Consumers : DestroyAwaiter(c)
  <2>1. /\ ResumeContinuation /\ IsCompleted(op')
        /\ \A d \in Consumers : consumer'[d] = "suspended" => consumer[d] = "suspended"
        /\ \A d \in Consumers :
               consumer[d] \in {"rejected", "outcast"} => consumer'[d] \in {"rejected", "outcast"}
    BY <1>t, <1>5, AbandonSettles, PhasesKeep
       DEF AbandonTask, PumpCompletes, DestroyAwaiter, HandleType
  <2>2. Unseated => Unseated'
    BY <2>1 DEF Unseated
  <2> QED BY <2>1, <2>2, EndingPosts
<1>6. CASE PumpChecks \/ PumpSends \/ PumpAccepts
  <2>1. /\ UNCHANGED <<continuation, posted, consumer>>
        /\ IsCompleted(op') = IsCompleted(op)
        /\ op.phase # "cold"
    BY <1>t, <1>6, PhasesKeep DEF PumpChecks, PumpSends, PumpAccepts, Course
  <2>2. ~IsCompleted(op) => connection' \in {"queued", "checked", "sent"}
    BY <1>t, <1>6 DEF PumpChecks, PumpSends, PumpAccepts, Course, IsCompleted, CanSend
  <2>3. (Unseated => Unseated') /\ (~IsCompleted(op) => Underway')
    BY <2>1, <2>2 DEF Unseated, Underway
  <2> QED BY <2>1, <2>3, QuietKeepsAwaited
<1>7. CASE UNCHANGED vars
  BY <1>7 DEF vars, AwaitedInv, SuspendedIsAwaited, Underway, Unseated
<1> QED BY <1>1, <1>2, <1>3, <1>4, <1>5, <1>6, <1>7 DEF Next, Await, Pump

(* No interleaving of registerContinuation, complete, abandon and ~Awaiter
   leaves a coroutine suspended with its handle nowhere, or stored in an
   operation that has ended or that nobody will end: the part of
   SuspendedResumes that no scheduling can make up for. *)
THEOREM NoCoroutineIsStranded == Spec => []SuspendedIsAwaited
<1>1. Init => Course /\ AwaitedInv
  BY DEF Init, Course, AwaitedInv, SuspendedIsAwaited, NewOperation, IsCompleted
<1>2. AwaitedInv => SuspendedIsAwaited
  BY DEF AwaitedInv
<1> QED BY <1>1, <1>2, CourseKept, AwaitedKept, HandleTheorem, SettledTheorem, PTL DEF Spec
=============================================================================
