------------------------- MODULE DBConnectionProofs -------------------------
(***************************************************************************)
(* The ledger of a connection mirrors what libpq owes it, the drained      *)
(* baton tells the truth, and every result is credited to the operation    *)
(* that asked for it, for every set of operations, every role and every    *)
(* budget.                                                                 *)
(***************************************************************************)
EXTENDS DBConnection, DBReactor, Integers, SequenceTheorems, TLAPS

-----------------------------------------------------------------------------
(* The reactor.  DBConnection has one pump, although any worker thread may run
   it: what follows shows that one at a time does, for any number of callers
   and of worker threads. *)

(* `scheduled' is a licence with one holder at most: a queued task, a
   worker between taking the task and Release, or the pump that threw. *)
HeldBy(w) == workerPc[w] \in Owning

Licence ==
    /\ \A v, w \in Workers : HeldBy(v) /\ HeldBy(w) => v = w
    /\ tasks = 1 => scheduled /\ \A w \in Workers : ~HeldBy(w)
    /\ wedged => scheduled /\ tasks = 0 /\ \A w \in Workers : ~HeldBy(w)
    /\ ~scheduled => \A w \in Workers : ~HeldBy(w)

ReactorInv == ReactorTypeOK /\ Licence

(* The initial state satisfies the inductive invariant. *)
LEMMA InitReactor == ReactorInit => ReactorInv
<1> SUFFICES ASSUME ReactorInit PROVE ReactorInv
  OBVIOUS
<1>1. ReactorTypeOK
  BY DEF ReactorInit, ReactorTypeOK, CallerSteps, WorkerSteps
<1>2. \A w \in Workers : ~HeldBy(w)
  BY DEF ReactorInit, HeldBy, Owning
<1>3. Licence
  BY <1>2 DEF ReactorInit, Licence
<1> QED BY <1>1, <1>3 DEF ReactorInv

(* request() keeps the licence unique: it adds a task only when the exchange
   found it free. *)
LEMMA CallerKeepsLicence ==
  ASSUME ReactorInv, NEW c \in Callers, CallerStep(c)
  PROVE  ReactorInv'
<1> USE DEF ReactorInv, ReactorTypeOK, Licence, HeldBy, Owning,
            CallerSteps, WorkerSteps, Goto
<1>1. CASE Schedule(c)
  BY <1>1 DEF Schedule
<1>2. CASE StorePending(c)
  BY <1>2 DEF StorePending
<1>3. CASE ExchangeScheduled(c)
  BY <1>3 DEF ExchangeScheduled
<1> QED BY <1>1, <1>2, <1>3 DEF CallerStep

(* A worker inherits the licence from the task and gives it back once. *)
LEMMA LoopKeepsLicence ==
  ASSUME ReactorInv, NEW w \in Workers, LoopStep(w)
  PROVE  ReactorInv'
<1> USE DEF ReactorInv, ReactorTypeOK, Licence, HeldBy, Owning,
            CallerSteps, WorkerSteps, Goto
<1>1. CASE TakeTask(w)
  BY <1>1 DEF TakeTask
<1>2. CASE ClearPending(w)
  BY <1>2, Zenon DEF ClearPending
<1>3. CASE EnterPump(w)
  BY <1>3, Zenon DEF EnterPump
<1>4. CASE Recheck(w)
  BY <1>4 DEF Recheck
<1>5. CASE Release(w)
  BY <1>5 DEF Release
<1>6. CASE LateCheck(w)
  BY <1>6, Zenon DEF LateCheck
<1>7. CASE Retake(w)
  BY <1>7 DEF Retake
<1> QED BY <1>1, <1>2, <1>3, <1>4, <1>5, <1>6, <1>7 DEF LoopStep

(* What pump() does to the socket and how it ends do not move the licence. *)
LEMMA PumpKeepsLicence ==
  ASSUME ReactorInv, NEW w \in Workers, PumpRuns(w)
  PROVE  ReactorInv'
<1> USE DEF ReactorInv, ReactorTypeOK, Licence, HeldBy, Owning,
            CallerSteps, WorkerSteps, Goto
<1>1. CASE PumpReads(w)
  BY <1>1 DEF PumpReads
<1>2. CASE PumpWatches(w)
  BY <1>2 DEF PumpWatches
<1>3. CASE PumpReturns(w)
  BY <1>3 DEF PumpReturns
<1>4. CASE PumpThrows(w)
  BY <1>4 DEF PumpThrows
<1> QED BY <1>1, <1>2, <1>3, <1>4 DEF PumpRuns

(* The poller, the socket and stop() leave the licence alone. *)
LEMMA OthersKeepLicence ==
  ASSUME ReactorInv,
         \/ SocketTurnsReady \/ EpollReturns \/ Stop
         \/ UNCHANGED reactorVars
  PROVE  ReactorInv'
<1> USE DEF ReactorInv, ReactorTypeOK, Licence, HeldBy, Owning,
            CallerSteps, WorkerSteps, Goto
<1>1. CASE SocketTurnsReady
  BY <1>1 DEF SocketTurnsReady
<1>2. CASE EpollReturns
  BY <1>2, Zenon DEF EpollReturns, Callers
<1>3. CASE Stop
  BY <1>3 DEF Stop, BeginStop, JoinPoller, StopWorkers
<1>4. CASE UNCHANGED reactorVars
  BY <1>4 DEF reactorVars
<1> QED BY <1>1, <1>2, <1>3, <1>4

(* The licence has one holder at most in every reachable state. *)
THEOREM LicenceTheorem == ReactorSpec => []ReactorInv
<1>1. ReactorInv /\ [ReactorNext]_reactorVars => ReactorInv'
  BY CallerKeepsLicence, LoopKeepsLicence, PumpKeepsLicence, OthersKeepLicence DEF ReactorNext
<1> QED BY InitReactor, <1>1, PTL DEF ReactorSpec

(* Only one worker at a time is inside DBConnection::pump(), whatever the
   number of callers and worker threads. *)
THEOREM Serialized == ReactorSpec => []PumpIsSerialized
<1>1. ReactorInv => PumpIsSerialized
  BY DEF ReactorInv, Licence, HeldBy, Owning, PumpIsSerialized
<1> QED BY LicenceTheorem, <1>1, PTL

(* A pump is still to come on w: its task is queued, w is about to enter pump()
   or to take the licence back, or the request is pending and w, or the caller
   that stored it, has still to look. *)
Owed(w) ==
    \/ tasks = 1
    \/ workerPc[w] \in {"clear", "enter", "retake"}
    \/ pending /\ \/ workerPc[w] \in Owning \cup {"late"}
                  \/ \E c \in Callers : callerPc[c] = "exchange"

(* With one worker thread, a request that no pump has begun after is owed one,
   unless a pump threw (DBReactor::request).  With two threads this is false,
   as EveryRequestPumped is. *)
LoneWorkerOwes ==
    \A w \in Workers : threads = {w} /\ needed => wedged \/ Owed(w)

(* The licence is taken only with a task, a holder, or a pump that threw; a
   thread the pool does not have is nowhere. *)
Used ==
    /\ scheduled => wedged \/ tasks = 1 \/ \E w \in Workers : HeldBy(w)
    /\ \A w \in Workers : w \notin threads => workerPc[w] = "idle"

OwedInv == Used /\ LoneWorkerOwes

(* request() leaves a task, or a holder of the licence that will look again. *)
LEMMA CallerOwes ==
  ASSUME ReactorInv, OwedInv, NEW c \in Callers, CallerStep(c)
  PROVE  OwedInv'
<1> USE DEF ReactorInv, ReactorTypeOK, Goto
<1>1. UNCHANGED <<threads, workerPc, wedged>>
  BY DEF CallerStep, Schedule, StorePending, ExchangeScheduled
<1>2. Used'
  <2>1. CASE Schedule(c) \/ StorePending(c)
    <3>1. UNCHANGED <<scheduled, tasks>>
      BY <2>1 DEF Schedule, StorePending
    <3> QED BY <1>1, <3>1, Zenon DEF OwedInv, Used, HeldBy
  <2>2. CASE ExchangeScheduled(c)
    <3>1. scheduled' => wedged \/ tasks' = 1 \/ \E w \in Workers : HeldBy(w)
      BY <2>2 DEF ExchangeScheduled, Licence, OwedInv, Used
    <3> QED BY <1>1, <3>1, Zenon DEF OwedInv, Used, HeldBy
  <2> QED BY <2>1, <2>2 DEF CallerStep
<1>3. ASSUME NEW w \in Workers, threads = {w}, needed', ~wedged
      PROVE  Owed(w)'
  <2>1. CASE Schedule(c)
    BY <1>3, <2>1, Zenon DEF Schedule, OwedInv, LoneWorkerOwes, Owed
  <2>2. CASE StorePending(c)
    BY <2>2, Zenon DEF StorePending, Owed
  <2>3. CASE ExchangeScheduled(c)
    <3>1. CASE ~scheduled
      BY <2>3, <3>1 DEF ExchangeScheduled, Owed, Licence
    <3>2. CASE scheduled
      <4>1. tasks = 1 \/ HeldBy(w)
        BY <1>3, <3>2 DEF OwedInv, Used, HeldBy, Owning
      <4>2. Owed(w)
        BY <1>3, <2>3 DEF OwedInv, LoneWorkerOwes, ExchangeScheduled
      <4> QED BY <2>3, <3>2, <4>1, <4>2, Zenon DEF ExchangeScheduled, Owed, HeldBy
    <3> QED BY <3>1, <3>2
  <2> QED BY <2>1, <2>2, <2>3 DEF CallerStep
<1> QED BY <1>1, <1>2, <1>3 DEF OwedInv, LoneWorkerOwes

(* The worker looks at `pending' after it has cleared it, after the pump and
   after it has given the licence back. *)
LEMMA LoopOwes ==
  ASSUME ReactorInv, OwedInv, NEW v \in Workers, LoopStep(v)
  PROVE  OwedInv'
<1> USE DEF ReactorInv, ReactorTypeOK, Goto
<1>1. /\ UNCHANGED <<threads, callerPc, wedged>>
      /\ v \in threads
      /\ \A w \in Workers \ {v} : workerPc'[w] = workerPc[w]
  BY DEF LoopStep, TakeTask, ClearPending, EnterPump, Recheck, Release, LateCheck, Retake,
         OwedInv, Used
<1>2. Used'
  <2>1. CASE TakeTask(v)
    BY <1>1, <2>1 DEF TakeTask, OwedInv, Used, HeldBy, Owning
  <2>2. CASE ClearPending(v) \/ EnterPump(v) \/ Recheck(v) \/ LateCheck(v)
    BY <1>1, <2>2 DEF ClearPending, EnterPump, Recheck, LateCheck, OwedInv, Used, HeldBy, Owning
  <2>3. CASE Release(v)
    BY <1>1, <2>3 DEF Release, OwedInv, Used
  <2>4. CASE Retake(v)
    BY <1>1, <2>4 DEF Retake, OwedInv, Used, HeldBy, Owning
  <2> QED BY <2>1, <2>2, <2>3, <2>4 DEF LoopStep
<1>3. ASSUME NEW w \in Workers, threads = {w}, needed', ~wedged
      PROVE  Owed(w)'
  <2>1. v = w /\ workerPc[w] \in WorkerSteps
    BY <1>1, <1>3
  <2>2. CASE TakeTask(w)
    BY <2>2 DEF TakeTask, Owed
  <2>3. CASE ClearPending(w)
    BY <2>3 DEF ClearPending, Owed
  <2>4. CASE EnterPump(w)
    BY <1>3, <2>4 DEF EnterPump
  <2>5. CASE Recheck(w) \/ LateCheck(w) \/ Release(w)
    <3>1. /\ workerPc[w] \in {"recheck", "release", "late"}
          /\ needed /\ tasks' = tasks
          /\ pending => \/ workerPc'[w] \in {"clear", "retake"}
                        \/ pending' /\ workerPc'[w] = "late"
      <4>1. CASE Recheck(w)
        BY <1>3, <4>1 DEF Recheck
      <4>2. CASE LateCheck(w)
        BY <1>3, <4>2 DEF LateCheck
      <4>3. CASE Release(w)
        BY <1>3, <4>3 DEF Release
      <4> QED BY <2>5, <4>1, <4>2, <4>3
    <3>2. tasks = 1 \/ pending
      BY <1>3, <3>1 DEF OwedInv, LoneWorkerOwes, Owed
    <3> QED BY <3>1, <3>2 DEF Owed
  <2>6. CASE Retake(w)
    <3>1. CASE ~scheduled
      BY <2>6, <3>1 DEF Retake, Owed
    <3>2. CASE scheduled
      <4>1. tasks = 1
        BY <1>3, <2>6, <3>2 DEF Retake, OwedInv, Used, HeldBy, Owning
      <4> QED BY <2>6, <4>1 DEF Retake, Owed
    <3> QED BY <3>1, <3>2
  <2> QED BY <2>1, <2>2, <2>3, <2>4, <2>5, <2>6 DEF LoopStep
<1> QED BY <1>1, <1>2, <1>3 DEF OwedInv, LoneWorkerOwes

(* pump(), the poller, the socket and stop() owe nothing new. *)
LEMMA OthersOwe ==
  ASSUME ReactorInv, OwedInv,
         \/ \E w \in Workers : PumpRuns(w)
         \/ SocketTurnsReady \/ EpollReturns \/ Stop
         \/ UNCHANGED reactorVars
  PROVE  OwedInv'
<1> USE DEF ReactorInv, ReactorTypeOK, Goto
<1>1. ASSUME NEW v \in Workers, PumpReturns(v) \/ PumpThrows(v) PROVE OwedInv'
  <2>1. /\ UNCHANGED <<threads, callerPc, pending, scheduled, tasks, needed>>
        /\ workerPc[v] = "pump"
        /\ \A w \in Workers \ {v} : workerPc'[w] = workerPc[w]
        /\ \/ workerPc'[v] = "recheck" /\ wedged' = wedged
           \/ workerPc'[v] = "idle" /\ wedged'
    BY <1>1 DEF PumpReturns, PumpThrows
  <2>2. Used'
    BY <2>1 DEF OwedInv, Used, HeldBy, Owning
  <2>3. LoneWorkerOwes'
    BY <2>1 DEF OwedInv, LoneWorkerOwes, Owed, Owning
  <2> QED BY <2>2, <2>3 DEF OwedInv
<1>2. CASE EpollReturns
  <2>1. /\ UNCHANGED <<threads, pending, scheduled, tasks, workerPc, needed, wedged>>
        /\ \A c \in Callers : callerPc[c] = "exchange" => callerPc'[c] = "exchange"
    BY <1>2 DEF EpollReturns
  <2> QED BY <2>1, Zenon DEF OwedInv, Used, LoneWorkerOwes, Owed, HeldBy
<1>3. CASE \/ \E w \in Workers : PumpReads(w) \/ PumpWatches(w)
           \/ SocketTurnsReady \/ Stop \/ UNCHANGED reactorVars
  <2>1. UNCHANGED <<threads, pending, scheduled, tasks, callerPc, workerPc, needed, wedged>>
    BY <1>3 DEF PumpReads, PumpWatches, SocketTurnsReady, Stop, BeginStop, JoinPoller,
                StopWorkers, reactorVars
  <2> QED BY <2>1, Zenon DEF OwedInv, Used, LoneWorkerOwes, Owed, HeldBy
<1> QED BY <1>1, <1>2, <1>3 DEF PumpRuns

(* With one worker thread no request is lost, for any number of requesters: the
   part of LoneWorkerPumps that no scheduling can make up for
   (DBReactor.cpp:82-95). *)
THEOREM NoRequestIsLost == ReactorSpec => []LoneWorkerOwes
<1>1. ReactorInit => OwedInv
  BY DEF ReactorInit, OwedInv, Used, LoneWorkerOwes
<1>2. ReactorInv /\ OwedInv /\ [ReactorNext]_reactorVars => OwedInv'
  BY CallerOwes, LoopOwes, OthersOwe DEF ReactorNext
<1>3. OwedInv => LoneWorkerOwes
  BY DEF OwedInv
<1> QED BY <1>1, <1>2, <1>3, LicenceTheorem, PTL DEF ReactorSpec

-----------------------------------------------------------------------------
(* The ledger and the baton. *)

(* From here steps are for Zenon; those with arithmetic, records or sequences name SMT. *)
USE Zenon

(* The three queues, and what the pump holds, are sequences of operations. *)
SeqInv ==
    /\ queued \in Seq(Ops)
    /\ inflight \in Seq(Ops)
    /\ commands \in Seq(Ops)

(* The pump holds an operation exactly between taking it from one queue and
   appending it to the other. *)
HandInv ==
    /\ at \in {"check", "send", "push"} => \E o \in Ops : hand = <<o>>
    /\ at \in {"idle", "pop", "io", "read", "retire", "watch"} => hand = <<>>

IInv == SeqInv /\ HandInv /\ LedgerMirrorsLibpq /\ BatonTellsTruth

(* Before anything is enqueued every queue is empty and the baton posted. *)
LEMMA InitIInv == Init => IInv
BY SMT DEF Init, IInv, SeqInv, HandInv, LedgerMirrorsLibpq, BatonTellsTruth

(* A step that leaves the queues, the pump and libpq's commands alone. *)
LEMMA Stutter ==
    ASSUME IInv,
           UNCHANGED <<queued, inflight, commands, at, hand>>,
           drained' => drained
    PROVE  IInv'
BY DEF IInv, SeqInv, HandInv, LedgerMirrorsLibpq, BatonTellsTruth

(* enqueue() resets the baton with the append. *)
LEMMA EnqueueKeeps ==
    ASSUME IInv, NEW o \in Ops, Enqueue(o)
    PROVE  IInv'
<1>1. UNCHANGED <<inflight, commands, at, hand>> /\ queued' \in Seq(Ops) /\ ~drained'
  BY SMT DEF Enqueue, pump, progress, libpq, IInv, SeqInv
<1> QED
  BY <1>1 DEF IInv, SeqInv, HandInv, LedgerMirrorsLibpq, BatonTellsTruth

(* Dispatching: an operation goes from the queue through the pump's hand to
   libpq and then to the ledger. *)
LEMMA DispatchKeeps ==
    ASSUME IInv,
           PumpBegins \/ PopDispatchable \/ (\E o \in Ops : Dispatch(o))
    PROVE  IInv'
<1>1. CASE PumpBegins
  BY <1>1 DEF PumpBegins, IInv, SeqInv, HandInv, LedgerMirrorsLibpq,
              BatonTellsTruth, libpq
<1>2. CASE PopDispatchable
  <2>1. UNCHANGED <<inflight, commands, drained>> /\ at = "pop"
    BY <1>2 DEF PopDispatchable, libpq
  <2>2. CASE Dispatchable
    <3>1. at' = "check" /\ hand' = <<Head(queued)>> /\ queued' = Tail(queued)
      BY <1>2, <2>2 DEF PopDispatchable
    <3>2. queued # <<>> /\ Head(queued) \in Ops /\ Tail(queued) \in Seq(Ops)
      BY <2>2, SMT DEF Dispatchable, IInv, SeqInv
    <3>3. ~drained
      BY <3>2 DEF IInv, BatonTellsTruth
    <3> QED
      BY <2>1, <3>1, <3>2, <3>3
         DEF IInv, SeqInv, HandInv, LedgerMirrorsLibpq, BatonTellsTruth
  <2>3. CASE ~Dispatchable
    <3>1. at' = "io" /\ UNCHANGED <<hand, queued>>
      BY <1>2, <2>3 DEF PopDispatchable, Go, progress
    <3> QED
      BY <2>1, <3>1
         DEF IInv, SeqInv, HandInv, LedgerMirrorsLibpq, BatonTellsTruth
  <2> QED BY <2>2, <2>3
<1>3. ASSUME NEW o \in Ops, CheckPhase(o) PROVE IInv'
  <2>1. UNCHANGED <<queued, inflight, commands>> /\ at = "check" /\ hand = <<o>>
    BY <1>3 DEF CheckPhase, libpq
  <2>2. commands = inflight /\ ~drained
    BY <2>1 DEF IInv, LedgerMirrorsLibpq, BatonTellsTruth
  <2>3. CASE op[o].phase = "completed"
    <3>1. at' = "pop" /\ hand' = <<>>
      BY <1>3, <2>3 DEF CheckPhase, NextOperation
    <3>2. drained' => queued = <<>> /\ inflight = <<>>
      BY <1>3, <2>2, <2>3 DEF CheckPhase, PostDrainedIfIdle
    <3> QED
      BY <2>1, <2>2, <3>1, <3>2
         DEF IInv, SeqInv, HandInv, LedgerMirrorsLibpq, BatonTellsTruth
  <2>4. CASE op[o].phase # "completed"
    <3>1. at' = "send" /\ UNCHANGED <<hand, drained>>
      BY <1>3, <2>4 DEF CheckPhase, Go, progress
    <3> QED
      BY <2>1, <2>2, <3>1
         DEF IInv, SeqInv, HandInv, LedgerMirrorsLibpq, BatonTellsTruth
  <2> QED BY <2>3, <2>4
<1>4. ASSUME NEW o \in Ops, SendOperation(o) PROVE IInv'
  <2>1. /\ UNCHANGED <<queued, inflight, hand, drained>>
        /\ at = "send" /\ hand = <<o>> /\ at' \in {"push", "dead"}
        /\ commands' = Append(commands, o)
    BY <1>4 DEF SendOperation, Go, progress
  <2>2. commands = inflight /\ inflight \in Seq(Ops)
    BY <2>1 DEF IInv, SeqInv, LedgerMirrorsLibpq
  <2>3. commands' = inflight \o <<o>> /\ commands' \in Seq(Ops)
    BY <2>1, <2>2, SMT
  <2> QED
    BY <2>1, <2>2, <2>3
       DEF IInv, SeqInv, HandInv, LedgerMirrorsLibpq, BatonTellsTruth
<1>5. ASSUME NEW o \in Ops, PushInflight(o) PROVE IInv'
  <2>1. /\ UNCHANGED <<queued, commands, drained>>
        /\ at = "push" /\ hand = <<o>> /\ at' = "pop" /\ hand' = <<>>
        /\ inflight' = Append(inflight, o)
    BY <1>5 DEF PushInflight, NextOperation, libpq
  <2>2. commands = inflight \o <<o>> /\ inflight \in Seq(Ops) /\ ~drained
    BY <2>1 DEF IInv, SeqInv, LedgerMirrorsLibpq, BatonTellsTruth
  <2>3. inflight' = commands /\ inflight' \in Seq(Ops)
    BY <2>1, <2>2, SMT
  <2> QED
    BY <2>1, <2>2, <2>3
       DEF IInv, SeqInv, HandInv, LedgerMirrorsLibpq, BatonTellsTruth
<1>6. ASSUME NEW o \in Ops, SendFails(o) PROVE IInv'
  <2>1. at = "send" /\ at' = "dead" /\ UNCHANGED <<queued, inflight, commands, drained, hand>>
    BY <1>6 DEF SendFails, Go, progress, libpq
  <2> QED
    BY <2>1 DEF IInv, SeqInv, HandInv, LedgerMirrorsLibpq, BatonTellsTruth
<1> QED BY <1>1, <1>2, <1>3, <1>4, <1>5, <1>6 DEF Dispatch

(* Reading: libpq strikes a command off together with the ledger, one pump
   step apart. *)
LEMMA ReadKeeps ==
    ASSUME IInv, Read
    PROVE  IInv'
<1>1. CASE GetResultBlocks
  BY <1>1, Stutter DEF GetResultBlocks, pump, progress
<1>2. CASE GetResultFails
  <2>1. /\ at = "read" /\ at' = "dead" /\ commands # <<>>
        /\ UNCHANGED <<queued, commands, hand>>
    BY <1>2 DEF GetResultFails, Reading, Busy, Go, progress, libpq
  <2>2. commands = inflight /\ inflight \in Seq(Ops) /\ hand = <<>> /\ ~drained
    BY <2>1 DEF IInv, SeqInv, HandInv, LedgerMirrorsLibpq, BatonTellsTruth
  <2>3. CASE Pipelined
    <3>1. UNCHANGED <<inflight, drained>>
      BY <1>2, <2>3 DEF GetResultFails
    <3> QED
      BY <2>1, <3>1 DEF IInv, SeqInv, HandInv, LedgerMirrorsLibpq, BatonTellsTruth
  <2>4. CASE ~Pipelined
    <3>1. inflight' = Tail(inflight) /\ PostDrainedIfIdle(queued, inflight')
      BY <1>2, <2>4 DEF GetResultFails
    <3>2. Tail(inflight) \in Seq(Ops)
      BY <2>1, <2>2, SMT
    <3>3. drained' => queued = <<>> /\ inflight' = <<>>
      BY <2>2, <3>1 DEF PostDrainedIfIdle
    <3> QED
      BY <2>1, <2>2, <3>1, <3>2, <3>3
         DEF IInv, SeqInv, HandInv, LedgerMirrorsLibpq, BatonTellsTruth
  <2> QED BY <2>3, <2>4
<1>3. CASE GetNull
  <2>1. at = "read" /\ UNCHANGED <<queued, inflight, drained, hand>>
    BY <1>3 DEF GetNull, Reading, Go, progress
  <2>2. commands = inflight /\ inflight \in Seq(Ops)
    BY <2>1 DEF IInv, SeqInv, LedgerMirrorsLibpq
  <2>3. CASE ~Pipelined /\ inflight # <<>>
    <3>1. at' = "retire" /\ commands' = Tail(commands)
      BY <1>3, <2>2, <2>3 DEF GetNull, NullReturned, Go
    <3>2. Tail(commands) \in Seq(Ops)
      BY <2>2, <2>3, SMT
    <3> QED
      BY <2>1, <2>2, <2>3, <3>1, <3>2
         DEF IInv, SeqInv, HandInv, LedgerMirrorsLibpq, BatonTellsTruth
  <2>4. CASE Pipelined \/ inflight = <<>>
    <3>1. at' \in {"read", "watch"} /\ UNCHANGED commands
      BY <1>3, <2>1, <2>2, <2>4 DEF GetNull, NullReturned, Go
    <3> QED
      BY <2>1, <2>2, <3>1
         DEF IInv, SeqInv, HandInv, LedgerMirrorsLibpq, BatonTellsTruth
  <2> QED BY <2>3, <2>4
<1>4. CASE GetResult
  <2>1. at = "read" /\ UNCHANGED <<queued, inflight, drained, hand>>
    BY <1>4 DEF GetResult, Reading, Go, progress
  <2>2. commands = inflight /\ inflight \in Seq(Ops) /\ commands # <<>>
    BY <1>4, <2>1 DEF GetResult, ReturnsNull, IInv, SeqInv, LedgerMirrorsLibpq
  <2>3. Tail(commands) \in Seq(Ops)
    BY <2>2, SMT
  <2>4. CASE Head(buffer).kind = "sync"
    <3>1. at' \in {"retire", "dead"} /\ commands' = Tail(commands)
      BY <1>4, <2>4 DEF GetResult, ResultReturned, Go
    <3> QED
      BY <2>1, <2>2, <2>3, <3>1
         DEF IInv, SeqInv, HandInv, LedgerMirrorsLibpq, BatonTellsTruth
  <2>5. CASE Head(buffer).kind # "sync"
    <3>1. at' \in {"read", "dead"} /\ UNCHANGED commands
      BY <1>4, <2>1, <2>5 DEF GetResult, ResultReturned, Go
    <3> QED
      BY <2>1, <2>2, <3>1
         DEF IInv, SeqInv, HandInv, LedgerMirrorsLibpq, BatonTellsTruth
  <2> QED BY <2>4, <2>5
<1>5. CASE RetireHead
  <2>1. /\ at = "retire" /\ at' \in {"read", "watch"}
        /\ inflight' = Tail(inflight)
        /\ UNCHANGED <<queued, commands, hand>>
    BY <1>5 DEF RetireHead, Go, progress, libpq
  <2>2. /\ commands = Tail(inflight) /\ inflight \in Seq(Ops) /\ inflight # <<>>
        /\ ~drained /\ hand = <<>>
    BY <2>1 DEF IInv, SeqInv, HandInv, LedgerMirrorsLibpq, BatonTellsTruth
  <2>3. Tail(inflight) \in Seq(Ops)
    BY <2>2, SMT
  <2>4. drained' => queued = <<>> /\ inflight' = <<>>
    BY <1>5, <2>2 DEF RetireHead, PostDrainedIfIdle
  <2> QED
    BY <2>1, <2>2, <2>3, <2>4
       DEF IInv, SeqInv, HandInv, LedgerMirrorsLibpq, BatonTellsTruth
<1>6. CASE BudgetSpent
  BY <1>6 DEF BudgetSpent, Go, progress, libpq, IInv, SeqInv, HandInv,
              LedgerMirrorsLibpq, BatonTellsTruth
<1> QED BY <1>1, <1>2, <1>3, <1>4, <1>5, <1>6 DEF Read

(* The pump's other steps move only its program counter. *)
LEMMA PumpKeeps ==
    ASSUME IInv, PumpStep
    PROVE  IInv'
<1>1. CASE FlushAndConsume
  <2>1. PICK n \in 0..Len(out) : Flush(n)
    BY <1>1 DEF FlushAndConsume
  <2>2. /\ at = "io" /\ at' \in {"watch", "read"}
        /\ UNCHANGED <<queued, inflight, commands, hand, drained>>
    BY <2>1 DEF Flush
  <2> QED
    BY <2>2 DEF IInv, SeqInv, HandInv, LedgerMirrorsLibpq, BatonTellsTruth
<1>2. CASE ConnectionFails
  BY <1>2 DEF ConnectionFails, Go, progress, libpq, IInv, SeqInv, HandInv,
              LedgerMirrorsLibpq, BatonTellsTruth
<1>3. CASE WatchSocket
  BY <1>3 DEF WatchSocket, Go, progress, libpq, IInv, SeqInv, HandInv,
              LedgerMirrorsLibpq, BatonTellsTruth
<1> QED BY <1>1, <1>2, <1>3, DispatchKeeps, ReadKeeps DEF PumpStep

(* IInv is inductive. *)
LEMMA NextIInv == IInv /\ [Next]_vars => IInv'
<1> SUFFICES ASSUME IInv, [Next]_vars PROVE IInv'
  OBVIOUS
<1>1. CASE UNCHANGED vars
  BY <1>1, Stutter DEF vars, pump, progress, libpq
<1>2. ASSUME NEW o \in Ops, AbandonOperation(o) PROVE IInv'
  BY <1>2, Stutter DEF AbandonOperation, pump, progress, libpq
<1>3. CASE DrainBegins \/ Drain
  BY <1>3, Stutter, SMT DEF DrainBegins, Drain, DrainChecks, DrainAwaits, pump,
                       progress, libpq
<1>4. CASE PollerWakes \/ ServerAnswers \/ ServerCloses
  BY <1>4, Stutter, SMT DEF PollerWakes, ServerAnswers, ServerCloses, pump, progress,
                       libpq
<1> QED BY <1>1, <1>2, <1>3, <1>4, EnqueueKeeps, PumpKeeps DEF Next

(* The inductive invariant holds in every reachable state of a connection. *)
THEOREM LedgerTheorem == Spec => []IInv
BY InitIInv, NextIInv, PTL DEF Spec

(* The ledger lists what libpq still owes an answer for, so pumpConnected
   never sees a result without a ledger entry. *)
THEOREM LedgerMirrors == Spec => []LedgerMirrorsLibpq
<1>1. IInv => LedgerMirrorsLibpq
  BY DEF IInv
<1> QED BY <1>1, LedgerTheorem, PTL

(* The drained baton is posted only while no operation is anywhere between
   enqueue() and retireHead(). *)
THEOREM BatonTruth == Spec => []BatonTellsTruth
<1>1. IInv => BatonTellsTruth
  BY DEF IInv
<1> QED BY <1>1, LedgerTheorem, PTL

-----------------------------------------------------------------------------
(* Whose answer libpq returns.  t: what the server has sent and libpq has not
   returned; c: the statements libpq is owed an answer for; u: those the
   server has not finished; h and a: 1 if the first of c has its result, and
   the first of u. *)
Stream(c, t, u, h, a) ==
    /\ Len(t) + h = 2 * (Len(c) - Len(u)) + a /\ a <= Len(u)
    /\ \A j \in 1..Len(u) : u[j] = c[Len(c) - Len(u) + j]
    /\ \A d \in 1..Len(c) :
         /\ 2 * d - 1 - h \in 1..Len(t) =>
                t[2 * d - 1 - h].of = c[d] /\ t[2 * d - 1 - h].kind # "sync"
         /\ 2 * d - h \in 1..Len(t) => t[2 * d - h].of = c[d] /\ t[2 * d - h].kind = "sync"

(* A statement is sent. *)
LEMMA StreamSends ==
    ASSUME NEW c \in Seq(Ops), NEW t \in Seq(Tokens), NEW u \in Seq(Ops), NEW o \in Ops,
           NEW h \in {0, 1}, NEW a \in {0, 1}, Stream(c, t, u, h, a)
    PROVE  Stream(Append(c, o), t, Append(u, o), h, a)
<1>1. PICK cc : cc = Append(c, o)
  OBVIOUS
<1>2. PICK uu : uu = Append(u, o)
  OBVIOUS
<1>3. /\ Len(c) \in Nat /\ Len(u) \in Nat /\ Len(t) \in Nat
      /\ Len(cc) = Len(c) + 1 /\ cc[Len(c) + 1] = o /\ \A i \in 1..Len(c) : cc[i] = c[i]
      /\ Len(uu) = Len(u) + 1 /\ uu[Len(u) + 1] = o /\ \A i \in 1..Len(u) : uu[i] = u[i]
  BY <1>1, <1>2, SMT
<1>4. /\ Len(t) + h = 2 * (Len(c) - Len(u)) + a /\ a <= Len(u)
      /\ \A j \in 1..Len(u) : u[j] = c[Len(c) - Len(u) + j]
  BY DEF Stream
<1>5. Len(c) - Len(u) >= 0
  BY <1>3, <1>4, SMT
<1>6. Len(t) + h = 2 * (Len(cc) - Len(uu)) + a /\ a <= Len(uu)
  BY <1>3, <1>4, SMT
<1>7. ASSUME NEW j \in 1..Len(uu) PROVE uu[j] = cc[Len(cc) - Len(uu) + j]
  <2>1. CASE j = Len(u) + 1
    BY <1>3, <2>1, SMT
  <2>2. CASE j \in 1..Len(u)
    <3>1. Len(c) - Len(u) + j \in 1..Len(c) /\ Len(cc) - Len(uu) + j = Len(c) - Len(u) + j
      BY <1>3, <1>5, <2>2, SMT
    <3> QED BY <1>3, <1>4, <2>2, <3>1
  <2> QED BY <1>3, <2>1, <2>2, SMT
<1>8. ASSUME NEW d \in 1..Len(cc)
      PROVE  /\ 2 * d - 1 - h \in 1..Len(t) =>
                    t[2 * d - 1 - h].of = cc[d] /\ t[2 * d - 1 - h].kind # "sync"
             /\ 2 * d - h \in 1..Len(t) => t[2 * d - h].of = cc[d] /\ t[2 * d - h].kind = "sync"
  <2>1. CASE d \in 1..Len(c)
    BY <1>3, <2>1 DEF Stream
  <2>2. CASE d = Len(c) + 1
    <3>1. 2 * d - 1 - h > Len(t) /\ 2 * d - h > Len(t)
      BY <1>3, <1>4, <2>2, SMT
    <3> QED BY <1>3, <3>1, SMT
  <2> QED BY <1>3, <2>1, <2>2, SMT
<1> QED BY <1>1, <1>2, <1>6, <1>7, <1>8 DEF Stream

(* Counting answers: n have come, m statements are owed one, k of them are not
   finished.  One more that comes is for the first that is not finished ... *)
LEMMA ComesFor ==
    ASSUME NEW n \in Nat, NEW m \in Nat, NEW k \in Nat, NEW h \in {0, 1}, NEW a \in {0, 1},
           n + h = 2 * (m - k) + a, NEW d \in Int, NEW i \in {0, 1}, 2 * d - i - h = n + 1
    PROVE  d = m - k + 1 /\ a = 1 - i
<1>1. CASE i = 0
  BY <1>1, SMT
<1>2. CASE i = 1
  BY <1>2, SMT
<1> QED BY <1>1, <1>2

(* ... or one is returned. *)
LEMMA Goes ==
    ASSUME NEW n \in Nat, NEW m \in Nat, NEW k \in Nat, NEW h \in {0, 1}, NEW a \in {0, 1},
           n + h = 2 * (m - k) + a
    PROVE  (n - 1) + (1 - h) = 2 * ((m - h) - k) + a
BY SMT

(* The server has a result, or has finished with a statement. *)
LEMMA StreamAnswers ==
    ASSUME NEW c \in Seq(Ops), NEW t \in Seq(Tokens), NEW u \in Seq(Ops),
           NEW h \in {0, 1}, NEW a \in {0, 1}, Stream(c, t, u, h, a), u # <<>>,
           NEW e \in Tokens, e.of = u[1], a = 1 <=> e.kind = "sync"
    PROVE  Stream(c, Append(t, e), IF a = 1 THEN Tail(u) ELSE u, h, 1 - a)
<1>1. PICK tt : tt = Append(t, e)
  OBVIOUS
<1>2. PICK uu : uu = IF a = 1 THEN Tail(u) ELSE u
  OBVIOUS
<1>3. /\ Len(c) \in Nat /\ Len(u) \in Nat /\ Len(t) \in Nat /\ Len(u) > 0
      /\ Len(tt) = Len(t) + 1 /\ tt[Len(t) + 1] = e /\ \A i \in 1..Len(t) : tt[i] = t[i]
  BY <1>1, SMT
<1>4. Len(uu) = Len(u) - a /\ \A j \in 1..(Len(u) - a) : uu[j] = u[j + a]
  <2>1. CASE a = 1
    BY <1>2, <1>3, <2>1, SMT
  <2>2. CASE a = 0
    BY <1>2, <1>3, <2>2, SMT
  <2> QED BY <2>1, <2>2
<1>5. /\ Len(t) + h = 2 * (Len(c) - Len(u)) + a /\ a <= Len(u)
      /\ \A j \in 1..Len(u) : u[j] = c[Len(c) - Len(u) + j]
  BY DEF Stream
<1>6. Len(tt) + h = 2 * (Len(c) - Len(uu)) + (1 - a) /\ 1 - a <= Len(uu)
  <2>1. (Len(t) + 1) + h = 2 * (Len(c) - (Len(u) - a)) + (1 - a)
    <3>1. PICK n \in Nat, m \in Nat, k \in Nat : n = Len(t) /\ m = Len(c) /\ k = Len(u)
      BY <1>3
    <3>2. n + h = 2 * (m - k) + a
      BY <1>5, <3>1
    <3>3. (n + 1) + h = 2 * (m - (k - a)) + (1 - a)
      BY <3>2, SMT
    <3> QED BY <3>1, <3>3
  <2>2. 1 - a <= Len(u) - a
    BY <1>3, SMT
  <2> QED BY <1>3, <1>4, <2>1, <2>2
<1>7. ASSUME NEW j \in 1..Len(uu) PROVE uu[j] = c[Len(c) - Len(uu) + j]
  <2>1. j + a \in 1..Len(u) /\ Len(c) - Len(uu) + j = Len(c) - Len(u) + (j + a) /\ uu[j] = u[j + a]
    <3>1. PICK m \in Nat, k \in Nat : m = Len(c) /\ k = Len(u)
      BY <1>3
    <3>2. Len(uu) = k - a /\ j \in 1..(k - a)
      BY <1>4, <3>1
    <3>3. j + a \in 1..k /\ m - (k - a) + j = m - k + (j + a)
      BY <3>2, SMT
    <3> QED BY <1>4, <3>1, <3>2, <3>3
  <2> QED BY <1>5, <2>1
<1>8. e.of = c[Len(c) - Len(u) + 1]
  <2>1. 1 \in 1..Len(u)
    BY <1>3, SMT
  <2> QED BY <1>5, <2>1
<1>9. ASSUME NEW d \in 1..Len(c)
      PROVE  /\ 2 * d - 1 - h \in 1..Len(tt) =>
                    tt[2 * d - 1 - h].of = c[d] /\ tt[2 * d - 1 - h].kind # "sync"
             /\ 2 * d - h \in 1..Len(tt) => tt[2 * d - h].of = c[d] /\ tt[2 * d - h].kind = "sync"
  <2>1. ASSUME 2 * d - 1 - h \in 1..Len(tt)
        PROVE  tt[2 * d - 1 - h].of = c[d] /\ tt[2 * d - 1 - h].kind # "sync"
    <3>1. CASE 2 * d - 1 - h \in 1..Len(t)
      BY <1>3, <3>1 DEF Stream
    <3>2. CASE 2 * d - 1 - h = Len(t) + 1
      <4>1. d = Len(c) - Len(u) + 1 /\ a = 0
        <5>1. PICK n \in Nat, m \in Nat, k \in Nat : n = Len(t) /\ m = Len(c) /\ k = Len(u)
          BY <1>3
        <5>2. d \in Int /\ 2 * d - 1 - h = n + 1 /\ n + h = 2 * (m - k) + a
          BY <1>5, <3>2, <5>1, SMT
        <5>3. d = m - k + 1 /\ a = 1 - 1
          BY <5>2, ComesFor, SMT
        <5> QED BY <5>1, <5>3, SMT
      <4>2. tt[2 * d - 1 - h] = e /\ e.of = c[d] /\ e.kind # "sync"
        BY <1>3, <1>8, <3>2, <4>1, SMT
      <4> QED BY <4>2
    <3>3. PICK x \in 1..(Len(t) + 1) : x = 2 * d - 1 - h
      BY <1>3, <2>1
    <3>4. x \in 1..Len(t) \/ x = Len(t) + 1
      BY <1>3, SMT
    <3> QED BY <3>1, <3>2, <3>3, <3>4
  <2>2. ASSUME 2 * d - h \in 1..Len(tt)
        PROVE  tt[2 * d - h].of = c[d] /\ tt[2 * d - h].kind = "sync"
    <3>1. CASE 2 * d - h \in 1..Len(t)
      BY <1>3, <3>1 DEF Stream
    <3>2. CASE 2 * d - h = Len(t) + 1
      <4>1. d = Len(c) - Len(u) + 1 /\ a = 1
        <5>1. PICK n \in Nat, m \in Nat, k \in Nat : n = Len(t) /\ m = Len(c) /\ k = Len(u)
          BY <1>3, SMT
        <5>2. d \in Int /\ 2 * d - 0 - h = n + 1 /\ n + h = 2 * (m - k) + a
          BY <1>5, <3>2, <5>1, SMT
        <5>3. d = m - k + 1 /\ a = 1 - 0
          BY <5>2, ComesFor, SMT
        <5> QED BY <5>1, <5>3, SMT
      <4>2. tt[2 * d - h] = e /\ e.of = c[d] /\ e.kind = "sync"
        BY <1>3, <1>8, <3>2, <4>1
      <4> QED BY <4>2
    <3>3. 2 * d - h \in 1..Len(t) \/ 2 * d - h = Len(t) + 1
      BY <1>3, <2>2, SMT
    <3> QED BY <3>1, <3>2, <3>3
  <2> QED BY <2>1, <2>2
<1> QED BY <1>1, <1>2, <1>6, <1>7, <1>9 DEF Stream

(* libpq returns the first of what has come: a result, which its statement
   has then, or the end of its synchronisation point. *)
LEMMA StreamReturns ==
    ASSUME NEW c \in Seq(Ops), NEW t \in Seq(Tokens), NEW u \in Seq(Ops),
           NEW h \in {0, 1}, NEW a \in {0, 1}, Stream(c, t, u, h, a), c # <<>>, t # <<>>
    PROVE  /\ t[1].of = c[1] /\ (h = 1 <=> t[1].kind = "sync")
           /\ Stream(IF h = 1 THEN Tail(c) ELSE c, Tail(t), u, 1 - h, a)
<1>1. PICK tt : tt = Tail(t)
  OBVIOUS
<1>2. PICK cc : cc = IF h = 1 THEN Tail(c) ELSE c
  OBVIOUS
<1>3. /\ Len(c) \in Nat /\ Len(u) \in Nat /\ Len(t) \in Nat /\ Len(t) > 0 /\ Len(c) > 0
      /\ Len(tt) = Len(t) - 1 /\ \A i \in 1..(Len(t) - 1) : tt[i] = t[i + 1]
  BY <1>1, SMT
<1>4. Len(cc) = Len(c) - h /\ \A j \in 1..(Len(c) - h) : cc[j] = c[j + h]
  <2>1. CASE h = 1
    BY <1>2, <1>3, <2>1, SMT
  <2>2. CASE h = 0
    BY <1>2, <1>3, <2>2, SMT
  <2> QED BY <2>1, <2>2
<1>5. /\ Len(t) + h = 2 * (Len(c) - Len(u)) + a /\ a <= Len(u)
      /\ \A j \in 1..Len(u) : u[j] = c[Len(c) - Len(u) + j]
  BY DEF Stream
<1>6. t[1].of = c[1] /\ (h = 1 <=> t[1].kind = "sync")
  <2>1. 1 \in 1..Len(c) /\ 1 \in 1..Len(t)
    BY <1>3, SMT
  <2>2. /\ 2 * 1 - 1 - h \in 1..Len(t) =>
                t[2 * 1 - 1 - h].of = c[1] /\ t[2 * 1 - 1 - h].kind # "sync"
        /\ 2 * 1 - h \in 1..Len(t) => t[2 * 1 - h].of = c[1] /\ t[2 * 1 - h].kind = "sync"
    BY <2>1 DEF Stream
  <2>3. CASE h = 1
    <3>1. 2 * 1 - h = 1
      BY <2>3, SMT
    <3> QED BY <2>1, <2>2, <2>3, <3>1
  <2>4. CASE h = 0
    <3>1. 2 * 1 - 1 - h = 1
      BY <2>4, SMT
    <3> QED BY <2>1, <2>2, <2>4, <3>1, SMT
  <2> QED BY <2>3, <2>4
<1>7. Len(tt) + (1 - h) = 2 * (Len(cc) - Len(u)) + a
  <2>1. (Len(t) - 1) + (1 - h) = 2 * ((Len(c) - h) - Len(u)) + a
    <3>1. PICK n \in Nat, m \in Nat, k \in Nat : n = Len(t) /\ m = Len(c) /\ k = Len(u)
      BY <1>3
    <3>2. n + h = 2 * (m - k) + a
      BY <1>5, <3>1
    <3>3. (n - 1) + (1 - h) = 2 * ((m - h) - k) + a
      BY <3>2, Goes, SMT
    <3> QED BY <3>1, <3>3
  <2> QED BY <1>3, <1>4, <2>1
<1>8. ASSUME NEW j \in 1..Len(u) PROVE u[j] = cc[Len(cc) - Len(u) + j]
  <2>1. Len(cc) - Len(u) + j \in 1..(Len(c) - h) /\ (Len(cc) - Len(u) + j) + h = Len(c) - Len(u) + j
    BY <1>3, <1>4, <1>5, SMT
  <2> QED BY <1>4, <1>5, <2>1
<1>9. ASSUME NEW d \in 1..Len(cc)
      PROVE  /\ 2 * d - 1 - (1 - h) \in 1..Len(tt) =>
                    /\ tt[2 * d - 1 - (1 - h)].of = cc[d]
                    /\ tt[2 * d - 1 - (1 - h)].kind # "sync"
             /\ 2 * d - (1 - h) \in 1..Len(tt) =>
                    tt[2 * d - (1 - h)].of = cc[d] /\ tt[2 * d - (1 - h)].kind = "sync"
  <2>1. d + h \in 1..Len(c) /\ cc[d] = c[d + h]
    BY <1>3, <1>4, SMT
  <2>2. /\ 2 * (d + h) - 1 - h \in 1..Len(t) =>
                t[2 * (d + h) - 1 - h].of = c[d + h] /\ t[2 * (d + h) - 1 - h].kind # "sync"
        /\ 2 * (d + h) - h \in 1..Len(t) =>
                t[2 * (d + h) - h].of = c[d + h] /\ t[2 * (d + h) - h].kind = "sync"
    BY <2>1 DEF Stream
  <2>3. ASSUME 2 * d - 1 - (1 - h) \in 1..Len(tt)
        PROVE  /\ tt[2 * d - 1 - (1 - h)].of = cc[d]
               /\ tt[2 * d - 1 - (1 - h)].kind # "sync"
    <3>1. /\ 2 * (d + h) - 1 - h \in 1..Len(t)
          /\ (2 * d - 1 - (1 - h)) + 1 = 2 * (d + h) - 1 - h
          /\ 2 * d - 1 - (1 - h) \in 1..(Len(t) - 1)
      BY <1>3, <2>3, SMT
    <3>2. tt[2 * d - 1 - (1 - h)] = t[2 * (d + h) - 1 - h]
      BY <1>3, <3>1
    <3> QED BY <2>1, <2>2, <3>1, <3>2
  <2>4. ASSUME 2 * d - (1 - h) \in 1..Len(tt)
        PROVE  tt[2 * d - (1 - h)].of = cc[d] /\ tt[2 * d - (1 - h)].kind = "sync"
    <3>1. /\ 2 * (d + h) - h \in 1..Len(t)
          /\ (2 * d - (1 - h)) + 1 = 2 * (d + h) - h
          /\ 2 * d - (1 - h) \in 1..(Len(t) - 1)
      BY <1>3, <2>4, SMT
    <3>2. tt[2 * d - (1 - h)] = t[2 * (d + h) - h]
      BY <1>3, <3>1
    <3> QED BY <2>1, <2>2, <3>1, <3>2
  <2> QED BY <2>3, <2>4
<1> QED BY <1>1, <1>2, <1>5, <1>6, <1>7, <1>8, <1>9 DEF Stream

Bit(b) == IF b THEN 1 ELSE 0

(* The operation at the head of libpq's commands has its result. *)
HasResult == commands # <<>> /\ op[commands[1]].phase = "synchronizing"

(* What has not been sent, or not answered, has no outcome. *)
Kinds ==
    /\ op \in [Ops -> Operation]
    /\ commands \in Seq(Ops) /\ out \in Seq(Ops) /\ todo \in Seq(Ops)
    /\ buffer \in Seq(Tokens) /\ wire \in Seq(Tokens)
    /\ answered \in BOOLEAN /\ null \in BOOLEAN /\ (~Pipelined => ~null)
    /\ \A o \in Ops : op[o].phase \in {"cold", "queued", "sent"} => op[o].outcome = "none"

(* Every statement libpq is owed an answer for was sent once, only the first
   may have its result, and what has come of the answers is theirs in order. *)
Owned ==
    /\ \A i \in 1..Len(commands) :
         op[commands[i]].phase = "sent" \/ (i = 1 /\ op[commands[i]].phase = "synchronizing")
    /\ \A i, j \in 1..Len(commands) : commands[i] = commands[j] => i = j
    /\ Stream(commands, buffer \o wire, todo \o out, Bit(HasResult), Bit(answered))

OInv == Kinds /\ (at # "dead" => Owned)

(* The queues of statements and of answers may be joined in any order. *)
LEMMA Associates ==
    /\ \A f, g, h \in Seq(Ops) : (f \o g) \o h = f \o (g \o h)
    /\ \A f, g, h \in Seq(Tokens) : (f \o g) \o h = f \o (g \o h)
<1>1. ASSUME NEW f \in Seq(Ops), NEW g \in Seq(Ops), NEW h \in Seq(Ops)
      PROVE  (f \o g) \o h = f \o (g \o h)
  BY ConcatAssociative, SMT
<1>2. ASSUME NEW f \in Seq(Tokens), NEW g \in Seq(Tokens), NEW h \in Seq(Tokens)
      PROVE  (f \o g) \o h = f \o (g \o h)
  BY ConcatAssociative, SMT
<1> QED BY <1>1, <1>2

(* The head of a concatenation leaves. *)
LEMMA TailConcat ==
    ASSUME NEW S, NEW f \in Seq(S), NEW g \in Seq(S), f # <<>>
    PROVE  /\ f \o g # <<>> /\ (f \o g)[1] = Head(f) /\ (f \o g)[1] = f[1]
           /\ Tail(f \o g) = Tail(f) \o g
<1>0. f \o g \in Seq(S) /\ Tail(f) \in Seq(S) /\ Tail(f) \o g \in Seq(S)
  BY ConcatProperties, SMT
<1>1. PICK w \in Seq(S) : w = f \o g
  BY <1>0
<1>2. PICK v \in Seq(S) : v = Tail(f) \o g
  BY <1>0
<1>3. /\ Len(f) \in Nat /\ Len(g) \in Nat /\ Len(f) > 0 /\ Head(f) = f[1]
      /\ Len(w) = Len(f) + Len(g)
      /\ \A i \in 1..(Len(f) + Len(g)) : w[i] = IF i <= Len(f) THEN f[i] ELSE g[i - Len(f)]
  BY <1>1, SMT
<1>4. /\ Tail(f) \in Seq(S) /\ Len(Tail(f)) = Len(f) - 1
      /\ \A i \in 1..(Len(f) - 1) : Tail(f)[i] = f[i + 1]
  BY <1>3, SMT
<1>5. /\ Len(v) = (Len(f) - 1) + Len(g)
      /\ \A i \in 1..((Len(f) - 1) + Len(g)) :
             v[i] = IF i <= Len(f) - 1 THEN Tail(f)[i] ELSE g[i - (Len(f) - 1)]
  BY <1>2, <1>4, ConcatProperties, SMT
<1>6. w # <<>> /\ w[1] = f[1]
  BY <1>3, SMT
<1>7. /\ Tail(w) \in Seq(S) /\ Len(Tail(w)) = Len(w) - 1
      /\ \A i \in 1..(Len(w) - 1) : Tail(w)[i] = w[i + 1]
  BY <1>6, SMT
<1>8. ASSUME NEW i \in 1..Len(v) PROVE Tail(w)[i] = v[i]
  <2>1. Tail(w)[i] = w[i + 1] /\ i + 1 \in 1..(Len(f) + Len(g)) /\ i \in 1..((Len(f) - 1) + Len(g))
    BY <1>3, <1>5, <1>7, SMT
  <2>2. CASE i <= Len(f) - 1
    <3>1. v[i] = f[i + 1] /\ w[i + 1] = f[i + 1]
      BY <1>3, <1>4, <1>5, <2>1, <2>2, SMT
    <3> QED BY <2>1, <3>1
  <2>3. CASE ~(i <= Len(f) - 1)
    <3>1. v[i] = g[i - (Len(f) - 1)] /\ w[i + 1] = g[(i + 1) - Len(f)]
      BY <1>3, <1>5, <2>1, <2>3, SMT
    <3>2. i - (Len(f) - 1) = (i + 1) - Len(f)
      BY <1>3, SMT
    <3> QED BY <2>1, <3>1, <3>2
  <2> QED BY <2>2, <2>3
<1>9. Len(Tail(w)) = Len(v)
  BY <1>3, <1>5, <1>7, SMT
<1>10. Tail(w) = v
  BY <1>7, <1>8, <1>9, SeqEqual
<1> QED BY <1>1, <1>2, <1>3, <1>6, <1>10

(* The lists libpq and the server share stay what they are. *)
LEMMA OwnedStays ==
    ASSUME Kinds, Owned, commands' = commands, answered' = answered,
           buffer' \o wire' = buffer \o wire, todo' \o out' = todo \o out,
           \A i \in 1..Len(commands) : op'[commands[i]].phase = op[commands[i]].phase
    PROVE  Owned'
<1>1. commands # <<>> => 1 \in 1..Len(commands)
  BY SMT DEF Kinds
<1>2. HasResult' <=> HasResult
  BY <1>1 DEF HasResult
<1>3. Bit(HasResult') = Bit(HasResult) /\ Bit(answered') = Bit(answered)
  BY <1>2 DEF Bit
<1>4. Stream(commands, buffer \o wire, todo \o out, Bit(HasResult), Bit(answered))'
  BY <1>3 DEF Owned
<1> QED BY <1>4 DEF Owned

(* enqueue() and abandon() do not touch what was sent. *)
LEMMA CallerOwns ==
    ASSUME Kinds, Owned, NEW o \in Ops, Enqueue(o) \/ AbandonOperation(o)
    PROVE  Owned'
<1>1. UNCHANGED <<commands, answered, buffer, wire, todo, out>>
  BY DEF Enqueue, AbandonOperation, libpq, server
<1>2. \A i \in 1..Len(commands) : commands[i] \in Ops
  BY SMT DEF Kinds
<1>3. /\ op' = [op EXCEPT ![o] = op'[o]]
      /\ op[o].phase \in {"sent", "synchronizing"} => op'[o].phase = op[o].phase
  <2>1. CASE Enqueue(o)
    BY <2>1 DEF Enqueue, Kinds, CanStart
  <2>2. CASE AbandonOperation(o)
    <3>1. op[o] \in Operation /\ op' = [op EXCEPT ![o] = Abandon(op[o])] /\ op'[o] = Abandon(op[o])
      BY <2>2 DEF AbandonOperation, Kinds
    <3>2. op[o].phase \in {"sent", "synchronizing"} => Abandon(op[o]).phase = op[o].phase
      BY <3>1 DEF Abandon, Operation
    <3> QED BY <3>1, <3>2
  <2> QED BY <2>1, <2>2
<1>4. ASSUME NEW i \in 1..Len(commands) PROVE op'[commands[i]].phase = op[commands[i]].phase
  <2>1. op[commands[i]].phase \in {"sent", "synchronizing"}
    BY DEF Owned
  <2> QED BY <1>2, <1>3, <2>1 DEF Kinds
<1> QED BY <1>1, <1>4, OwnedStays

(* DBOperation::send. *)
LEMMA SendOwns ==
    ASSUME Kinds, Owned, NEW o \in Ops, SendOperation(o), at' # "dead"
    PROVE  Owned'
<1>1. /\ out' = Append(out, o) /\ commands' = Append(commands, o)
      /\ CanSend(op[o]) /\ op' = [op EXCEPT ![o] = Send(@)]
      /\ UNCHANGED <<answered, buffer, wire, todo>>
  BY DEF SendOperation, Go, server
<1>2. PICK c \in Seq(Ops) : c = commands
  BY DEF Kinds
<1>3. PICK cc : cc = commands'
  OBVIOUS
<1>4. /\ Len(c) \in Nat /\ Len(cc) = Len(c) + 1
      /\ cc[Len(c) + 1] = o /\ \A i \in 1..Len(c) : cc[i] = c[i]
  BY <1>1, <1>2, <1>3, SMT
<1>5. \A i \in 1..Len(c) : c[i] \in Ops /\ c[i] # o /\ op'[c[i]] = op[c[i]]
  BY <1>1, <1>2, SMT DEF Owned, Kinds, CanSend
<1>6. op'[o].phase = "sent"
  BY <1>1 DEF Kinds, Send, Operation
<1>7. \A i \in 1..Len(cc) : i \in 1..Len(c) \/ i = Len(c) + 1
  BY <1>4, SMT
<1>8. \A i \in 1..Len(cc) :
          op'[cc[i]].phase = "sent" \/ (i = 1 /\ op'[cc[i]].phase = "synchronizing")
  <2>1. ASSUME NEW i \in 1..Len(c)
        PROVE  op'[cc[i]].phase = "sent" \/ (i = 1 /\ op'[cc[i]].phase = "synchronizing")
    <3>1. op[c[i]].phase = "sent" \/ (i = 1 /\ op[c[i]].phase = "synchronizing")
      BY <1>2 DEF Owned
    <3>2. cc[i] = c[i] /\ op'[c[i]] = op[c[i]]
      BY <1>4, <1>5
    <3> QED BY <3>1, <3>2
  <2>2. op'[cc[Len(c) + 1]].phase = "sent"
    BY <1>4, <1>6
  <2> QED BY <1>7, <2>1, <2>2
<1>9. \A i, j \in 1..Len(cc) : cc[i] = cc[j] => i = j
  <2>1. \A i, j \in 1..Len(c) : c[i] = c[j] => i = j
    BY <1>2 DEF Owned
  <2> QED BY <1>4, <1>5, <1>7, <2>1, SMTT(30)
<1>10. Bit(HasResult') = Bit(HasResult) /\ Bit(answered') = Bit(answered)
  <2>1. CASE c = <<>>
    BY <1>1, <1>2, <1>3, <1>4, <1>6, <2>1, SMT DEF HasResult, Bit
  <2>2. CASE c # <<>>
    <3>1. 1 \in 1..Len(c) /\ cc # <<>>
      BY <1>2, <1>4, <2>2, SMT
    <3>2. HasResult' <=> HasResult
      BY <1>2, <1>3, <1>4, <1>5, <2>2, <3>1, SMT DEF HasResult
    <3> QED BY <1>1, <3>2 DEF Bit
  <2> QED BY <2>1, <2>2
<1>11. /\ buffer \o wire \in Seq(Tokens) /\ todo \o out \in Seq(Ops)
       /\ todo \o Append(out, o) = Append(todo \o out, o)
  <2>1. buffer \o wire \in Seq(Tokens) /\ todo \o out \in Seq(Ops)
    BY SMT DEF Kinds
  <2>2. todo \o Append(out, o) = Append(todo \o out, o)
    <3>1. Append(out, o) = out \o <<o>> /\ Append(todo \o out, o) = (todo \o out) \o <<o>>
      BY <2>1, AppendIsConcat DEF Kinds
    <3>2. (todo \o out) \o <<o>> = todo \o (out \o <<o>>)
      BY Associates, SMT DEF Kinds
    <3> QED BY <3>1, <3>2
  <2> QED BY <2>1, <2>2
<1>12. Bit(HasResult) \in {0, 1} /\ Bit(answered) \in {0, 1}
  BY DEF Bit
<1>13. Stream(commands, buffer \o wire, todo \o out, Bit(HasResult), Bit(answered))
  BY DEF Owned
<1>14. Stream(Append(commands, o), buffer \o wire, Append(todo \o out, o), Bit(HasResult),
              Bit(answered))
  BY <1>2, <1>11, <1>12, <1>13, StreamSends
<1>15. Stream(commands', buffer' \o wire', todo' \o out', Bit(HasResult'), Bit(answered'))
  BY <1>1, <1>10, <1>11, <1>14
<1> QED BY <1>3, <1>8, <1>9, <1>15 DEF Owned

(* PQflush and PQconsumeInput, and the wait of PQgetResult. *)
LEMMA FlushOwns ==
    ASSUME Kinds, Owned, FlushAndConsume \/ GetResultBlocks
    PROVE  Owned'
<1>1. UNCHANGED <<commands, answered, op>>
  BY DEF FlushAndConsume, Flush, GetResultBlocks
<1>2. /\ buffer \in Seq(Tokens) /\ wire \in Seq(Tokens) /\ out \in Seq(Ops) /\ todo \in Seq(Ops)
      /\ Len(out) \in Nat
  BY SMT DEF Kinds
<1>3. CASE FlushAndConsume
  <2>1. PICK n \in 0..Len(out) : Flush(n)
    BY <1>3 DEF FlushAndConsume
  <2>2. /\ out' = SubSeq(out, n + 1, Len(out)) /\ todo' = todo \o SubSeq(out, 1, n)
        /\ buffer' = buffer \o wire /\ wire' = <<>>
    BY <2>1 DEF Flush
  <2>3. buffer' \o wire' = buffer \o wire
    <3>1. buffer \o wire \in Seq(Tokens)
      BY <1>2, SMT
    <3> QED BY <2>2, <3>1, ConcatEmptySeq
  <2>4. todo' \o out' = todo \o out
    <3>1. SubSeq(out, 1, n) \in Seq(Ops) /\ SubSeq(out, n + 1, Len(out)) \in Seq(Ops)
      BY <1>2, SMT
    <3>2. SubSeq(out, 1, n) \o SubSeq(out, n + 1, Len(out)) = out
      <4>1. 1 \in 1..(Len(out) + 1) /\ n \in (1 - 1)..Len(out) /\ Len(out) \in n..Len(out)
        BY <1>2, SMT
      <4>2. SubSeq(out, 1, n) \o SubSeq(out, n + 1, Len(out)) = SubSeq(out, 1, Len(out))
        BY <1>2, <4>1, ConcatAdjacentSubSeq
      <4> QED BY <1>2, <4>2, SubSeqFull
    <3>3. PICK f \in Seq(Ops), g \in Seq(Ops) :
              f = SubSeq(out, 1, n) /\ g = SubSeq(out, n + 1, Len(out))
      BY <3>1
    <3>4. (todo \o f) \o g = todo \o (f \o g)
      <4>1. todo \in Seq(Ops)
        BY <1>2
      <4> QED BY <4>1, Associates
    <3> QED BY <2>2, <3>2, <3>3, <3>4
  <2> QED BY <1>1, <2>3, <2>4, OwnedStays
<1>4. CASE GetResultBlocks
  <2>1. /\ buffer = <<>> /\ buffer' = wire /\ wire' = <<>>
        /\ todo' = todo \o out /\ out' = <<>>
    BY <1>4 DEF GetResultBlocks, Busy
  <2>2. buffer' \o wire' = buffer \o wire
    BY <1>2, <2>1, ConcatEmptySeq
  <2>3. todo' \o out' = todo \o out
    <3>1. todo \o out \in Seq(Ops)
      BY <1>2, SMT
    <3> QED BY <2>1, <3>1, ConcatEmptySeq
  <2> QED BY <1>1, <2>2, <2>3, OwnedStays
<1> QED BY <1>3, <1>4

(* The server answers. *)
LEMMA ServerOwns ==
    ASSUME Kinds, Owned, ServerAnswers
    PROVE  Owned'
<1>1. UNCHANGED <<commands, op, buffer, out>> /\ todo # <<>>
  BY DEF ServerAnswers, libpq
<1>2. PICK k \in {"result", "error", "sync"} :
          /\ wire' = Append(wire, [of |-> Head(todo), kind |-> k])
          /\ todo' = IF answered THEN Tail(todo) ELSE todo
          /\ answered <=> k = "sync"
          /\ answered' = ~answered
  BY DEF ServerAnswers
<1>3. PICK e \in Tokens : e = [of |-> Head(todo), kind |-> k]
  <2>1. Head(todo) \in Ops
    BY <1>1, SMT DEF Kinds
  <2>2. [of |-> Head(todo), kind |-> k] \in Tokens
    BY <2>1 DEF Tokens
  <2> QED BY <2>2
<1>4. /\ buffer \in Seq(Tokens) /\ wire \in Seq(Tokens) /\ out \in Seq(Ops) /\ todo \in Seq(Ops)
      /\ commands \in Seq(Ops) /\ answered \in BOOLEAN
  BY DEF Kinds
<1>5. PICK t \in Seq(Tokens), u \in Seq(Ops) : t = buffer \o wire /\ u = todo \o out
  <2>1. buffer \o wire \in Seq(Tokens) /\ todo \o out \in Seq(Ops)
    BY <1>4, ConcatProperties
  <2> QED BY <2>1
<1>6. buffer' \o wire' = Append(t, e)
  <2>1. Append(wire, e) = wire \o <<e>> /\ Append(t, e) = t \o <<e>>
    BY <1>4, AppendIsConcat
  <2>2. (buffer \o wire) \o <<e>> = buffer \o (wire \o <<e>>)
    <3>1. <<e>> \in Seq(Tokens)
      BY SMT
    <3> QED BY <1>4, <3>1, Associates
  <2> QED BY <1>1, <1>2, <1>3, <1>5, <2>1, <2>2
<1>7. u # <<>> /\ u[1] = Head(todo) /\ Tail(u) = Tail(todo) \o out
  <2>1. /\ todo \o out # <<>> /\ (todo \o out)[1] = Head(todo)
        /\ Tail(todo \o out) = Tail(todo) \o out
    BY <1>1, <1>4, TailConcat
  <2> QED BY <1>5, <2>1
<1>8. todo' \o out' = IF Bit(answered) = 1 THEN Tail(u) ELSE u
  <2>1. CASE answered
    <3>1. Bit(answered) = 1 /\ todo' = Tail(todo) /\ out' = out
      BY <1>1, <1>2, <2>1 DEF Bit
    <3> QED BY <1>7, <3>1
  <2>2. CASE ~answered
    <3>1. Bit(answered) # 1 /\ todo' = todo /\ out' = out
      BY <1>1, <1>2, <2>2, SMT DEF Bit
    <3> QED BY <1>5, <3>1
  <2> QED BY <2>1, <2>2
<1>9. Stream(commands, t, u, Bit(HasResult), Bit(answered))
  BY <1>5 DEF Owned
<1>10. /\ Bit(HasResult) \in {0, 1} /\ Bit(answered) \in {0, 1}
       /\ Bit(answered) = 1 <=> e.kind = "sync"
       /\ e.of = u[1] /\ Bit(answered') = 1 - Bit(answered)
  <2>1. e.of = u[1] /\ e.kind = k
    BY <1>3, <1>7
  <2>2. Bit(HasResult) \in {0, 1}
    BY DEF Bit
  <2>3. CASE answered
    <3>1. Bit(answered) = 1 /\ Bit(answered') = 0 /\ k = "sync"
      BY <1>2, <2>3 DEF Bit
    <3> QED BY <2>1, <2>2, <3>1, SMT
  <2>4. CASE ~answered
    <3>1. Bit(answered) = 0 /\ Bit(answered') = 1 /\ k # "sync"
      BY <1>2, <2>4 DEF Bit
    <3> QED BY <2>1, <2>2, <3>1, SMT
  <2> QED BY <2>3, <2>4
<1>11. Stream(commands, Append(t, e), IF Bit(answered) = 1 THEN Tail(u) ELSE u,
              Bit(HasResult), 1 - Bit(answered))
  BY <1>4, <1>7, <1>9, <1>10, StreamAnswers, SMT
<1>12. Bit(HasResult') = Bit(HasResult)
  BY <1>1 DEF HasResult
<1>13. Stream(commands', buffer' \o wire', todo' \o out', Bit(HasResult'), Bit(answered'))
  BY <1>1, <1>6, <1>8, <1>10, <1>11, <1>12
<1> QED BY <1>1, <1>13 DEF Owned

(* What PQgetResult comes to next is the answer to the oldest statement. *)
LEMMA NextAnswer ==
    ASSUME Kinds, Owned, commands # <<>>, buffer # <<>>
    PROVE  /\ Head(buffer).of = commands[1]
           /\ HasResult <=> Head(buffer).kind = "sync"
           /\ Stream(IF HasResult THEN Tail(commands) ELSE commands, Tail(buffer) \o wire,
                     todo \o out, 1 - Bit(HasResult), Bit(answered))
<1>1. /\ buffer \in Seq(Tokens) /\ wire \in Seq(Tokens) /\ out \in Seq(Ops) /\ todo \in Seq(Ops)
      /\ commands \in Seq(Ops)
  BY DEF Kinds
<1>2. PICK t \in Seq(Tokens), u \in Seq(Ops) : t = buffer \o wire /\ u = todo \o out
  <2>1. buffer \o wire \in Seq(Tokens) /\ todo \o out \in Seq(Ops)
    BY <1>1, ConcatProperties
  <2> QED BY <2>1
<1>3. t # <<>> /\ t[1] = Head(buffer) /\ Tail(t) = Tail(buffer) \o wire
  BY <1>1, <1>2, TailConcat, SMT
<1>4. PICK h \in {0, 1}, a \in {0, 1} : h = Bit(HasResult) /\ a = Bit(answered)
  BY DEF Bit
<1>5. HasResult <=> h = 1
  BY <1>4, SMT DEF Bit
<1>6. Stream(commands, t, u, h, a)
  BY <1>2, <1>4 DEF Owned
<1>7. t[1].of = commands[1] /\ (h = 1 <=> t[1].kind = "sync")
  BY <1>1, <1>3, <1>6, StreamReturns, SMT
<1>8. Stream(IF h = 1 THEN Tail(commands) ELSE commands, Tail(t), u, 1 - h, a)
  BY <1>1, <1>3, <1>6, StreamReturns, SMT
<1>9. Head(buffer).of = commands[1] /\ (HasResult <=> Head(buffer).kind = "sync")
  BY <1>3, <1>5, <1>7
<1>10. Stream(IF HasResult THEN Tail(commands) ELSE commands, Tail(buffer) \o wire,
              todo \o out, 1 - Bit(HasResult), Bit(answered))
  BY <1>2, <1>3, <1>4, <1>5, <1>8
<1> QED BY <1>9, <1>10

(* An answer is returned: a result lets its operation wait for the
   synchronisation point, the synchronisation point strikes the statement off. *)
LEMMA ReturnOwns ==
    ASSUME Kinds, Owned, commands # <<>>, buffer # <<>>,
           UNCHANGED <<wire, todo, out, answered>>, buffer' = Tail(buffer),
           commands' = IF Head(buffer).kind = "sync" THEN Tail(commands) ELSE commands,
           NEW x, op' = [op EXCEPT ![commands[1]] = x],
           Head(buffer).kind # "sync" => x.phase = "synchronizing"
    PROVE  Owned'
<1>1. HasResult <=> Head(buffer).kind = "sync"
  BY NextAnswer
<1>2. Stream(IF HasResult THEN Tail(commands) ELSE commands, Tail(buffer) \o wire,
             todo \o out, 1 - Bit(HasResult), Bit(answered))
  BY NextAnswer
<1>3. PICK c \in Seq(Ops) : c = commands
  BY DEF Kinds
<1>4. /\ Len(c) \in Nat /\ 1 \in 1..Len(c) /\ c # <<>> /\ \A i \in 1..Len(c) : c[i] \in Ops
      /\ \A i, j \in 1..Len(c) : c[i] = c[j] => i = j
      /\ \A i \in 1..Len(c) : i # 1 => op[c[i]].phase = "sent"
  BY <1>3, SMT DEF Owned
<1>5. \A i \in 1..Len(c) : i # 1 => op'[c[i]] = op[c[i]]
  BY <1>3, <1>4 DEF Kinds
<1>6. op'[c[1]] = x
  BY <1>3, <1>4 DEF Kinds
<1>7. CASE HasResult
  <2>1. PICK d \in Seq(Ops) : d = Tail(c)
    <3>1. Tail(c) \in Seq(Ops)
      BY <1>4, SMT
    <3> QED BY <3>1
  <2>2. /\ Len(d) = Len(c) - 1
        /\ \A i \in 1..Len(d) : d[i] = c[i + 1] /\ i + 1 \in 1..Len(c) /\ i + 1 # 1
    BY <1>4, <2>1, SMT
  <2>3. commands' = d /\ Len(d) \in Nat
    <3>1. commands' = d
      BY <1>1, <1>3, <1>7, <2>1
    <3>2. Len(d) \in Nat
      BY SMT
    <3> QED BY <3>1, <3>2
  <2>4. \A i \in 1..Len(d) : op'[d[i]].phase = "sent"
    BY <1>4, <1>5, <2>2, SMTT(30)
  <2>5. \A i, j \in 1..Len(d) : d[i] = d[j] => i = j
    <3> SUFFICES ASSUME NEW i \in 1..Len(d), NEW j \in 1..Len(d), d[i] = d[j] PROVE i = j
      OBVIOUS
    <3>1. i + 1 = j + 1
      BY <1>4, <2>2
    <3> QED BY <2>3, <3>1, SMT
  <2>6. ~HasResult'
    <3>1. d # <<>> => 1 \in 1..Len(d)
      BY <2>1, SMT
    <3> QED BY <2>3, <2>4, <3>1 DEF HasResult
  <2>7. Bit(HasResult') = 1 - Bit(HasResult) /\ Bit(answered') = Bit(answered)
    BY <1>7, <2>6, SMT DEF Bit
  <2>8. Stream(commands', buffer' \o wire', todo' \o out', Bit(HasResult'), Bit(answered'))
    BY <1>2, <1>3, <1>7, <2>1, <2>3, <2>7
  <2> QED BY <2>3, <2>4, <2>5, <2>8, SMT DEF Owned
<1>8. CASE ~HasResult
  <2>1. commands' = c
    BY <1>1, <1>3, <1>8
  <2>2. op'[c[1]].phase = "synchronizing"
    BY <1>1, <1>6, <1>8
  <2>3. HasResult'
    BY <1>4, <2>1, <2>2 DEF HasResult
  <2>4. Bit(HasResult') = 1 - Bit(HasResult) /\ Bit(answered') = Bit(answered)
    BY <1>8, <2>3, SMT DEF Bit
  <2>5. Stream(commands', buffer' \o wire', todo' \o out', Bit(HasResult'), Bit(answered'))
    BY <1>2, <1>3, <1>8, <2>1, <2>4
  <2>6. \A i \in 1..Len(c) : op'[c[i]].phase = "sent" \/ (i = 1 /\ op'[c[i]].phase = "synchronizing")
    BY <1>4, <1>5, <2>2
  <2> QED BY <1>4, <2>1, <2>5, <2>6, SMT DEF Owned
<1> QED BY <1>7, <1>8

(* PQgetResult returns a result or a null that ends one. *)
LEMMA ReadOwns ==
    ASSUME IInv, Kinds, Owned, GetResult \/ GetNull, at' # "dead"
    PROVE  Owned'
<1>1. commands = inflight /\ commands \in Seq(Ops)
  BY DEF GetResult, GetNull, Reading, IInv, LedgerMirrorsLibpq, Kinds
<1>2. UNCHANGED <<wire, todo, out, answered>>
  BY DEF GetResult, GetNull, ResultReturned, NullReturned, server
<1>3. commands # <<>> => commands[1] = Head(inflight) /\ commands[1] \in Ops
  BY <1>1, SMT
<1>4. CASE GetResult
  <2>1. /\ inflight # <<>> /\ buffer # <<>> /\ buffer' = Tail(buffer)
        /\ commands' = IF Head(buffer).kind = "sync" THEN Tail(commands) ELSE commands
        /\ op' = [op EXCEPT ![Head(inflight)] = Take(Head(inflight), Head(buffer))]
    BY <1>4 DEF GetResult, ResultReturned, Go
  <2>2. PICK x : x = Take(Head(inflight), Head(buffer))
    OBVIOUS
  <2>3. ASSUME Head(buffer).kind # "sync" PROVE x.phase = "synchronizing"
    <3>1. Head(buffer) \in Tokens /\ op[Head(inflight)] \in Operation
      BY <1>1, <1>3, <2>1, SMT DEF Kinds
    <3>2. Head(buffer).kind \in {"result", "error"}
      BY <2>3, <3>1 DEF Tokens
    <3> QED
      BY <2>2, <3>1, <3>2 DEF Take, AcceptResult, AcceptFailure, Operation
  <2>4. op' = [op EXCEPT ![commands[1]] = x]
    BY <1>1, <1>3, <2>1, <2>2
  <2> QED BY <1>1, <1>2, <2>1, <2>3, <2>4, ReturnOwns
<1>5. CASE GetNull /\ ~Pipelined /\ commands # <<>>
  <2>1. buffer # <<>> /\ Head(buffer).kind = "sync"
    BY <1>5 DEF GetNull, ReturnsNull, Kinds
  <2>2. /\ buffer' = Tail(buffer) /\ commands' = Tail(commands)
        /\ op' = [op EXCEPT ![Head(inflight)] = Complete(op[Head(inflight)])]
    BY <1>1, <1>5 DEF GetNull, NullReturned
  <2>3. PICK x : x = Complete(op[Head(inflight)])
    OBVIOUS
  <2>4. op' = [op EXCEPT ![commands[1]] = x]
    BY <1>3, <1>5, <2>2, <2>3
  <2> QED BY <1>2, <1>5, <2>1, <2>2, <2>4, ReturnOwns
<1>6. CASE GetNull /\ (Pipelined \/ commands = <<>>)
  <2>1. UNCHANGED <<buffer, commands, op>>
    BY <1>1, <1>6 DEF GetNull, NullReturned
  <2> QED BY <1>2, <2>1, OwnedStays
<1> QED BY <1>4, <1>5, <1>6

(* The steps that leave the statements and their answers alone. *)
LEMMA OthersOwn ==
    ASSUME Kinds, Owned, UNCHANGED <<op, commands, answered, buffer, wire, todo, out>>
    PROVE  Owned'
BY OwnedStays

(* Every step of the connection that does not end the pump for good. *)
LEMMA NextOwned ==
    ASSUME IInv, Kinds, Owned, [Next]_vars, at' # "dead"
    PROVE  Owned'
<1>1. CASE \E o \in Ops : Enqueue(o) \/ AbandonOperation(o)
  BY <1>1, CallerOwns
<1>2. CASE DrainBegins \/ Drain \/ PollerWakes \/ PumpBegins \/ PopDispatchable
  BY <1>2, OthersOwn DEF DrainBegins, Drain, DrainChecks, DrainAwaits, PollerWakes,
     PumpBegins, PopDispatchable, libpq, server
<1>3. ASSUME NEW o \in Ops, Dispatch(o) PROVE Owned'
  <2>1. CASE SendOperation(o)
    BY <2>1, SendOwns
  <2>2. CASE CheckPhase(o) \/ PushInflight(o)
    BY <2>2, OthersOwn DEF CheckPhase, PushInflight, libpq, server
  <2>3. CASE SendFails(o)
    BY <2>3 DEF SendFails, Go
  <2> QED BY <1>3, <2>1, <2>2, <2>3 DEF Dispatch
<1>4. CASE FlushAndConsume \/ GetResultBlocks
  BY <1>4, FlushOwns
<1>5. CASE GetResult \/ GetNull
  BY <1>5, ReadOwns
<1>6. CASE ConnectionFails \/ GetResultFails
  BY <1>6 DEF ConnectionFails, GetResultFails, Go
<1>7. CASE RetireHead \/ BudgetSpent \/ WatchSocket
  BY <1>7, OthersOwn DEF RetireHead, BudgetSpent, WatchSocket, libpq, server
<1>8. CASE ServerAnswers
  BY <1>8, ServerOwns
<1>9. CASE ServerCloses \/ UNCHANGED vars
  BY <1>9, OthersOwn DEF ServerCloses, vars, libpq, server
<1> QED
  BY <1>1, <1>2, <1>3, <1>4, <1>5, <1>6, <1>7, <1>8, <1>9 DEF Next, PumpStep, Read

(* A change of one operation keeps what is known of the operations. *)
LEMMA OpKinds ==
    ASSUME Kinds, NEW o \in Ops, NEW x \in Operation, op' = [op EXCEPT ![o] = x],
           x.phase \in {"cold", "queued", "sent"} => x.outcome = "none"
    PROVE  /\ op' \in [Ops -> Operation]
           /\ \A p \in Ops : op'[p].phase \in {"cold", "queued", "sent"} => op'[p].outcome = "none"
<1>1. op' \in [Ops -> Operation]
  BY DEF Kinds
<1>2. ASSUME NEW p \in Ops, op'[p].phase \in {"cold", "queued", "sent"} PROVE op'[p].outcome = "none"
  <2>1. CASE p = o
    <3>1. op'[p] = x
      BY <2>1 DEF Kinds
    <3> QED BY <1>2, <3>1
  <2>2. CASE p # o
    <3>1. op'[p] = op[p]
      BY <2>2 DEF Kinds
    <3> QED BY <1>2, <3>1 DEF Kinds
  <2> QED BY <2>1, <2>2
<1> QED BY <1>1, <1>2

(* What a caller, send() and the reading of results do to an operation. *)
LEMMA OpStep ==
    ASSUME IInv, Kinds, [Next]_vars
    PROVE  /\ op' \in [Ops -> Operation]
           /\ \A p \in Ops : op'[p].phase \in {"cold", "queued", "sent"} => op'[p].outcome = "none"
<1>1. ASSUME NEW o \in Ops
      PROVE  /\ op[o] \in Operation
             /\ op[o].phase \in {"cold", "queued", "sent"} => op[o].outcome = "none"
  BY DEF Kinds
<1>2. ASSUME NEW o \in Ops
      PROVE  /\ AcceptResult(op[o]) \in Operation /\ AcceptResult(op[o]).phase = "synchronizing"
             /\ AcceptFailure(op[o]) \in Operation /\ AcceptFailure(op[o]).phase = "synchronizing"
             /\ Complete(op[o]) \in Operation /\ Complete(op[o]).phase = "completed"
             /\ Complete(AcceptFailure(op[o])) \in Operation
             /\ Complete(AcceptFailure(op[o])).phase = "completed"
  BY <1>1 DEF AcceptResult, AcceptFailure, Complete, Operation, Phases, Outcomes
<1>3. CASE UNCHANGED op
  BY <1>3 DEF Kinds
<1>4. ASSUME NEW o \in Ops, Enqueue(o) \/ SendOperation(o), op' # op
      PROVE  \E x \in Operation : op' = [op EXCEPT ![o] = x] /\ x.outcome = "none"
  <2>1. op[o].phase \in {"cold", "queued"}
    BY <1>4 DEF Enqueue, SendOperation, CanStart, CanSend
  <2>2. op[o] \in Operation /\ op[o].outcome = "none"
    BY <1>1, <2>1
  <2>3. /\ Start(op[o]) \in Operation /\ Start(op[o]).outcome = "none"
        /\ Send(op[o]) \in Operation /\ Send(op[o]).outcome = "none"
    BY <2>2 DEF Start, Send, Operation, Phases, Outcomes
  <2>4. op' = [op EXCEPT ![o] = Start(op[o])] \/ op' = [op EXCEPT ![o] = Send(op[o])]
    BY <1>4 DEF Enqueue, SendOperation
  <2> QED BY <2>3, <2>4
<1>5. CASE op' # op /\ \E o \in Ops : Enqueue(o) \/ SendOperation(o)
  <2>1. PICK o \in Ops : Enqueue(o) \/ SendOperation(o)
    BY <1>5
  <2>2. PICK x \in Operation : op' = [op EXCEPT ![o] = x] /\ x.outcome = "none"
    BY <1>4, <1>5, <2>1
  <2> QED BY <2>2, OpKinds
<1>6. CASE \E o \in Ops : AbandonOperation(o)
  <2>1. PICK o \in Ops : AbandonOperation(o)
    BY <1>6
  <2>2. op' = [op EXCEPT ![o] = Abandon(op[o])]
    BY <2>1 DEF AbandonOperation
  <2>3. /\ Abandon(op[o]) \in Operation
        /\ Abandon(op[o]).phase \in {"cold", "queued", "sent"} => Abandon(op[o]).outcome = "none"
    BY <1>1 DEF Abandon, Operation, Phases, Outcomes
  <2> QED BY <2>2, <2>3, OpKinds
<1>7. CASE op' # op /\ (GetResult \/ GetNull \/ GetResultFails)
  <2>1. commands = inflight /\ inflight \in Seq(Ops) /\ inflight # <<>>
    BY <1>7 DEF GetResult, GetNull, GetResultFails, Reading, Busy, Go, IInv, SeqInv,
                LedgerMirrorsLibpq
  <2>2. PICK o \in Ops : o = Head(inflight)
    BY <2>1, SMT
  <2>3. \/ op' = [op EXCEPT ![o] = AcceptFailure(op[o])]
        \/ op' = [op EXCEPT ![o] = Complete(op[o])]
        \/ op' = [op EXCEPT ![o] = Complete(AcceptFailure(op[o]))]
        \/ (op' = [op EXCEPT ![o] = Take(o, Head(buffer))] /\ buffer # <<>>)
    BY <1>7, <2>2 DEF GetResult, GetNull, GetResultFails
  <2>4. buffer # <<>> => Head(buffer).kind \in {"result", "error", "sync"}
    <3>1. buffer # <<>> => Head(buffer) \in Tokens
      BY SMT DEF Kinds
    <3> QED BY <3>1 DEF Tokens
  <2>5. buffer # <<>> => Take(o, Head(buffer)) \in
          {AcceptResult(op[o]), AcceptFailure(op[o]), Complete(op[o])}
    BY <2>4 DEF Take
  <2>6. \E x \in {AcceptResult(op[o]), AcceptFailure(op[o]), Complete(op[o]),
                  Complete(AcceptFailure(op[o]))} :
          op' = [op EXCEPT ![o] = x]
    BY <2>3, <2>5
  <2>7. PICK x \in Operation :
          op' = [op EXCEPT ![o] = x] /\ x.phase \in {"synchronizing", "completed"}
    BY <1>2, <2>6
  <2> QED BY <2>7, OpKinds
<1>8. CASE DrainBegins \/ Drain \/ PollerWakes \/ PumpBegins \/ PopDispatchable
           \/ FlushAndConsume \/ GetResultBlocks \/ ConnectionFails
  BY <1>3, <1>8 DEF DrainBegins, Drain, DrainChecks, DrainAwaits, PollerWakes, PumpBegins,
     PopDispatchable, FlushAndConsume, Flush, GetResultBlocks, ConnectionFails
<1>9. CASE RetireHead \/ BudgetSpent \/ WatchSocket \/ ServerAnswers \/ ServerCloses
           \/ UNCHANGED vars
           \/ \E o \in Ops : CheckPhase(o) \/ SendFails(o) \/ PushInflight(o)
  BY <1>3, <1>9 DEF RetireHead, BudgetSpent, WatchSocket, ServerAnswers, ServerCloses, vars,
     CheckPhase, SendFails, PushInflight
<1> QED
  BY <1>3, <1>5, <1>6, <1>7, <1>8, <1>9 DEF Next, PumpStep, Dispatch, Read

(* The lists of libpq and of the server keep their types, and a management
   connection is never owed the null of a pipeline. *)
LEMMA ListStep ==
    ASSUME IInv, IInv', Kinds, [Next]_vars
    PROVE  /\ commands' \in Seq(Ops) /\ out' \in Seq(Ops) /\ todo' \in Seq(Ops)
           /\ buffer' \in Seq(Tokens) /\ wire' \in Seq(Tokens)
           /\ answered' \in BOOLEAN /\ null' \in BOOLEAN /\ (~Pipelined' => ~null')
<1>1. commands' \in Seq(Ops)
  BY DEF IInv, SeqInv
<1>2. CASE UNCHANGED <<out, todo, buffer, wire, answered, null, role>>
  BY <1>1, <1>2 DEF Kinds, Pipelined
<1>3. ASSUME NEW o \in Ops, SendOperation(o)
      PROVE  out' \in Seq(Ops) /\ UNCHANGED <<todo, buffer, wire, answered, null, role>>
  BY <1>3, SMT DEF SendOperation, Kinds, server
<1>4. CASE FlushAndConsume
  <2>1. PICK n \in 0..Len(out) : Flush(n)
    BY <1>4 DEF FlushAndConsume
  <2>2. /\ out' = SubSeq(out, n + 1, Len(out)) /\ todo' = todo \o SubSeq(out, 1, n)
        /\ buffer' = buffer \o wire /\ wire' = <<>> /\ UNCHANGED <<answered, null, role>>
    BY <2>1 DEF Flush
  <2>3. SubSeq(out, n + 1, Len(out)) \in Seq(Ops) /\ SubSeq(out, 1, n) \in Seq(Ops)
    BY SMT DEF Kinds
  <2> QED BY <1>1, <2>2, <2>3, SMT DEF Kinds, Pipelined
<1>5. CASE GetResultBlocks
  BY <1>1, <1>5, SMT DEF GetResultBlocks, Kinds, Pipelined
<1>6. CASE GetResult
  <2>1. buffer # <<>> /\ buffer' = Tail(buffer) /\ null' = (Pipelined /\ Head(buffer).kind # "sync")
        /\ UNCHANGED <<out, todo, wire, answered, role>>
    BY <1>6 DEF GetResult, ResultReturned, server
  <2>2. Tail(buffer) \in Seq(Tokens)
    BY <2>1, SMT DEF Kinds
  <2>3. null' \in BOOLEAN /\ (~Pipelined' => ~null')
    BY <2>1 DEF Pipelined
  <2> QED BY <1>1, <2>1, <2>2, <2>3 DEF Kinds
<1>7. CASE GetNull
  <2>1. /\ ~null' /\ null' \in BOOLEAN /\ UNCHANGED <<out, todo, wire, answered, role>>
        /\ (buffer' = buffer \/ (buffer' = Tail(buffer) /\ ~Pipelined /\ commands # <<>>))
    BY <1>7 DEF GetNull, NullReturned, server
  <2>2. (~Pipelined /\ commands # <<>>) => buffer # <<>>
    BY <1>7 DEF GetNull, ReturnsNull, Kinds
  <2>3. buffer' \in Seq(Tokens)
    <3>1. buffer # <<>> => Tail(buffer) \in Seq(Tokens)
      BY SMT DEF Kinds
    <3> QED BY <2>1, <2>2, <3>1 DEF Kinds
  <2> QED BY <1>1, <2>1, <2>3 DEF Kinds
<1>8. CASE ServerAnswers
  <2>1. /\ todo # <<>> /\ answered' = ~answered /\ UNCHANGED <<out, buffer, null, role>>
        /\ todo' = todo \/ todo' = Tail(todo)
    BY <1>8 DEF ServerAnswers, libpq
  <2>2. PICK k \in {"result", "error", "sync"} :
          wire' = Append(wire, [of |-> Head(todo), kind |-> k])
    BY <1>8 DEF ServerAnswers
  <2>3. Head(todo) \in Ops /\ Tail(todo) \in Seq(Ops)
    BY <2>1, SMT DEF Kinds
  <2>4. [of |-> Head(todo), kind |-> k] \in Tokens
    BY <2>3 DEF Tokens
  <2>5. wire' \in Seq(Tokens)
    BY <2>2, <2>4, SMT DEF Kinds
  <2>6. answered' \in BOOLEAN
    BY <2>1
  <2> QED BY <1>1, <2>1, <2>3, <2>5, <2>6 DEF Kinds, Pipelined
<1>9. CASE \E o \in Ops : \/ Enqueue(o) \/ AbandonOperation(o) \/ CheckPhase(o)
                        \/ SendFails(o) \/ PushInflight(o)
  BY <1>2, <1>9 DEF Enqueue, AbandonOperation, CheckPhase, SendFails, PushInflight, libpq,
     server
<1>10. CASE DrainBegins \/ Drain \/ PollerWakes \/ PumpBegins \/ PopDispatchable
            \/ ConnectionFails \/ GetResultFails
  BY <1>2, <1>10 DEF DrainBegins, Drain, DrainChecks, DrainAwaits, PollerWakes, PumpBegins,
     PopDispatchable, ConnectionFails, GetResultFails, libpq, server
<1>11. CASE RetireHead \/ BudgetSpent \/ WatchSocket \/ ServerCloses \/ UNCHANGED vars
  BY <1>2, <1>11 DEF RetireHead, BudgetSpent, WatchSocket, ServerCloses, vars, libpq, server
<1>12. CASE \E o \in Ops : SendOperation(o)
  BY <1>1, <1>3, <1>12 DEF Kinds, Pipelined
<1> QED
  BY <1>4, <1>5, <1>6, <1>7, <1>8, <1>9, <1>10, <1>11, <1>12
     DEF Next, PumpStep, Dispatch, Read

(* A dead pump takes no further step. *)
LEMMA DeadStays ==
    ASSUME at = "dead", [Next]_vars
    PROVE  at' = "dead"
BY DEF Next, Enqueue, AbandonOperation, DrainBegins, Drain, DrainChecks, DrainAwaits,
       PumpStep, PumpBegins, PopDispatchable, Dispatch, CheckPhase, SendOperation,
       SendFails, PushInflight, FlushAndConsume, Flush, ConnectionFails, Read, GetResultBlocks,
       GetResultFails, GetNull, GetResult, RetireHead, BudgetSpent, WatchSocket, Reading,
       PollerWakes, ServerAnswers, ServerCloses, pump, vars

LEMMA NextOInv == IInv /\ OInv /\ [Next]_vars => OInv'
<1> SUFFICES ASSUME IInv, OInv, [Next]_vars PROVE OInv'
  OBVIOUS
<1>1. IInv'
  BY NextIInv
<1>2. Kinds
  BY DEF OInv
<1>3. Kinds'
  <2>1. /\ op' \in [Ops -> Operation]
        /\ \A p \in Ops : op'[p].phase \in {"cold", "queued", "sent"} => op'[p].outcome = "none"
    BY <1>2, OpStep
  <2>2. /\ commands' \in Seq(Ops) /\ out' \in Seq(Ops) /\ todo' \in Seq(Ops)
        /\ buffer' \in Seq(Tokens) /\ wire' \in Seq(Tokens)
        /\ answered' \in BOOLEAN /\ null' \in BOOLEAN /\ (~Pipelined' => ~null')
    BY <1>1, <1>2, ListStep
  <2> QED BY <2>1, <2>2 DEF Kinds
<1>4. ASSUME at' # "dead" PROVE Owned'
  <2>1. at # "dead"
    BY <1>4, DeadStays
  <2>2. Owned
    BY <2>1 DEF OInv
  <2> QED BY <1>2, <1>4, <2>2, NextOwned
<1> QED BY <1>3, <1>4 DEF OInv

(* Before anything is sent nothing is owed. *)
LEMMA InitOInv == Init => OInv
<1> SUFFICES ASSUME Init PROVE OInv
  OBVIOUS
<1>1. /\ op = [o \in Ops |-> NewOperation] /\ null = FALSE /\ answered = FALSE
      /\ commands = <<>> /\ out = <<>> /\ todo = <<>> /\ buffer = <<>> /\ wire = <<>>
  BY DEF Init
<1>2. NewOperation \in Operation /\ NewOperation.outcome = "none"
  BY DEF NewOperation, Operation, Phases, Outcomes
<1>3. Kinds
  <2>1. op \in [Ops -> Operation] /\ \A o \in Ops : op[o].outcome = "none"
    BY <1>1, <1>2
  <2>2. commands \in Seq(Ops) /\ out \in Seq(Ops) /\ todo \in Seq(Ops)
    BY <1>1, SMT
  <2>3. buffer \in Seq(Tokens) /\ wire \in Seq(Tokens)
    BY <1>1, SMT
  <2>4. answered \in BOOLEAN /\ null \in BOOLEAN /\ (~Pipelined => ~null)
    BY <1>1
  <2>5. \A o \in Ops : op[o].phase \in {"cold", "queued", "sent"} => op[o].outcome = "none"
    BY <2>1
  <2> QED BY <2>1, <2>2, <2>3, <2>4, <2>5 DEF Kinds
<1>4. Bit(HasResult) = 0 /\ Bit(answered) = 0
  BY <1>1 DEF Bit, HasResult
<1>5. buffer \o wire = <<>> /\ todo \o out = <<>>
  BY <1>1, SMT
<1>6. Stream(<<>>, <<>>, <<>>, 0, 0)
  BY SMT DEF Stream
<1>7. Owned
  BY <1>1, <1>4, <1>5, <1>6, SMT DEF Owned
<1> QED BY <1>3, <1>7 DEF OInv

(* An answer that is returned finds its own operation at the head of the
   ledger, and that operation waits for it. *)
LEMMA OInvCredits == IInv /\ OInv => CreditedToOwner
<1> SUFFICES ASSUME IInv, OInv, at = "read", buffer # <<>>, ~ReturnsNull
             PROVE  /\ inflight # <<>> /\ Head(inflight) = Head(buffer).of
                    /\ CanTake(Head(inflight), Head(buffer))
  BY DEF CreditedToOwner
<1>1. Kinds /\ Owned
  BY DEF OInv
<1>2. commands = inflight /\ inflight \in Seq(Ops) /\ inflight # <<>>
  BY DEF IInv, SeqInv, LedgerMirrorsLibpq, ReturnsNull
<1>3. Head(inflight) = commands[1] /\ 1 \in 1..Len(commands) /\ commands[1] \in Ops
  BY <1>2, SMT
<1>4. Head(buffer).of = commands[1]
  BY <1>1, <1>2, NextAnswer
<1>5. HasResult <=> Head(buffer).kind = "sync"
  BY <1>1, <1>2, NextAnswer
<1>6. op[commands[1]].phase \in {"sent", "synchronizing"}
  BY <1>1, <1>3 DEF Owned
<1>7. Head(buffer).kind = "result" => op[commands[1]].outcome = "none"
  BY <1>1, <1>2, <1>3, <1>5, <1>6 DEF HasResult, Kinds
<1> QED
  BY <1>2, <1>3, <1>4, <1>6, <1>7 DEF CanTake, CanAcceptResult, IsSent

(* However the server's answers are cut into packets and whichever operation
   is abandoned or enqueued meanwhile, the result PQgetResult returns is
   credited to the operation that asked for it, and pumpConnected never throws
   over an operation that cannot take its result. *)
THEOREM ResultsAreCredited == Spec => []CreditedToOwner
<1>1. Spec => []IInv
  BY LedgerTheorem
<1>2. IInv /\ OInv /\ [Next]_vars => OInv'
  BY NextOInv
<1>3. Init => OInv
  BY InitOInv
<1>4. IInv /\ OInv => CreditedToOwner
  BY OInvCredits
<1> QED BY <1>1, <1>2, <1>3, <1>4, PTL DEF Spec
=============================================================================
