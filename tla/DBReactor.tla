----------------------------- MODULE DBReactor -----------------------------
(***************************************************************************)
(* The pump scheduler of one database connection (IDHANDb/DBReactor).      *)
(*                                                                         *)
(* Threads ask for the connection to be pumped through request(): the      *)
(* application threads through schedule(), the poller when the armed       *)
(* socket becomes ready.  Two atomics of the Watch decide who runs pump(): *)
(* `scheduled' is the licence to run it, `pending' says that a request     *)
(* arrived since the last pump began.  Every atomic access of request() is *)
(* one step, so that requests and pumps interleave as the threads do.      *)
(***************************************************************************)
EXTENDS Naturals

CONSTANTS Requesters,   \* application threads that call schedule()
          Poller,       \* the reactor's epoll thread
          Workers       \* threads m_workers may have

ASSUME PollerAssumption == Poller \notin Requesters

Callers == Requesters \cup {Poller}

VARIABLES threads,      \* threads m_workers was made with
          pending,      \* Watch::pending
          scheduled,    \* Watch::scheduled
          tasks,        \* closures waiting in the queue of m_workers
          callerPc,     \* where each caller is inside request()
          workerPc,     \* where each worker is inside the closure
          interest,     \* the one-shot epoll interest is set
          ready,        \* the socket is ready
          lifecycle,    \* how far stop() has come
          needed,       \* history: a request no pump has begun after
          wedged        \* history: a pump threw and kept the licence

reactorVars == <<threads, pending, scheduled, tasks, callerPc, workerPc, interest,
          ready, lifecycle, needed, wedged>>

CallerSteps == {"idle", "store", "exchange"}
WorkerSteps == {"idle", "clear", "enter", "pump", "recheck", "release",
                "late", "retake"}

ReactorTypeOK ==
    /\ threads \in SUBSET Workers
    /\ pending \in BOOLEAN
    /\ scheduled \in BOOLEAN
    /\ tasks \in {0, 1}
    /\ callerPc \in [Callers -> CallerSteps]
    /\ workerPc \in [Workers -> WorkerSteps]
    /\ interest \in BOOLEAN
    /\ ready \in BOOLEAN
    /\ lifecycle \in {"running", "stopping", "joined", "stopped"}
    /\ needed \in BOOLEAN
    /\ wedged \in BOOLEAN

(* The constructor refuses a pool of no threads. *)
ReactorInit ==
    /\ threads \in SUBSET Workers \ {{}}
    /\ pending = FALSE
    /\ scheduled = FALSE
    /\ tasks = 0
    /\ callerPc = [c \in Callers |-> "idle"]
    /\ workerPc = [w \in Workers |-> "idle"]
    /\ interest = FALSE
    /\ ready = FALSE
    /\ lifecycle = "running"
    /\ needed = FALSE
    /\ wedged = FALSE

-----------------------------------------------------------------------------
(* request(): called by schedule() and by the poller.                      *)

Goto(pc, p, from, to) == pc[p] = from /\ pc' = [pc EXCEPT ![p] = to]

Schedule(c) ==
    /\ c \in Requesters
    /\ Goto(callerPc, c, "idle", "store")
    /\ UNCHANGED <<threads, pending, scheduled, tasks, workerPc, interest, ready,
                   lifecycle, needed, wedged>>

StorePending(c) ==
    /\ Goto(callerPc, c, "store", "exchange")
    /\ pending' = TRUE
    /\ needed' = TRUE
    /\ UNCHANGED <<threads, scheduled, tasks, workerPc, interest, ready, lifecycle, wedged>>

ExchangeScheduled(c) ==
    /\ Goto(callerPc, c, "exchange", "idle")
    /\ scheduled' = TRUE
    /\ tasks' = IF scheduled THEN tasks ELSE tasks + 1
    /\ UNCHANGED <<threads, pending, workerPc, interest, ready, lifecycle, needed, wedged>>

-----------------------------------------------------------------------------
(* The closure request() hands to m_workers.                               *)

TakeTask(w) ==
    /\ w \in threads
    /\ lifecycle # "stopped"
    /\ tasks > 0
    /\ Goto(workerPc, w, "idle", "clear")
    /\ tasks' = tasks - 1
    /\ UNCHANGED <<threads, pending, scheduled, callerPc, interest, ready, lifecycle,
                   needed, wedged>>

ClearPending(w) ==
    /\ Goto(workerPc, w, "clear", "enter")
    /\ pending' = FALSE
    /\ UNCHANGED <<threads, scheduled, tasks, callerPc, interest, ready, lifecycle,
                   needed, wedged>>

EnterPump(w) ==
    /\ Goto(workerPc, w, "enter", "pump")
    /\ needed' = FALSE
    /\ UNCHANGED <<threads, pending, scheduled, tasks, callerPc, interest, ready,
                   lifecycle, wedged>>

(* pump() reads the socket dry. *)
PumpReads(w) ==
    /\ workerPc[w] = "pump"
    /\ ready' = FALSE
    /\ UNCHANGED <<threads, pending, scheduled, tasks, callerPc, workerPc, interest,
                   lifecycle, needed, wedged>>

(* pump() calls watch(), which arms the one-shot interest; watch() throws
   when the reactor is stopping (PumpThrows). *)
PumpWatches(w) ==
    /\ workerPc[w] = "pump"
    /\ lifecycle = "running"
    /\ interest' = TRUE
    /\ UNCHANGED <<threads, pending, scheduled, tasks, callerPc, workerPc, ready,
                   lifecycle, needed, wedged>>

PumpReturns(w) ==
    /\ Goto(workerPc, w, "pump", "recheck")
    /\ UNCHANGED <<threads, pending, scheduled, tasks, callerPc, interest, ready,
                   lifecycle, needed, wedged>>

(* An exception out of pump() leaves the closure; the pool thread swallows
   it and nothing clears `scheduled'. *)
PumpThrows(w) ==
    /\ Goto(workerPc, w, "pump", "idle")
    /\ wedged' = TRUE
    /\ UNCHANGED <<threads, pending, scheduled, tasks, callerPc, interest, ready,
                   lifecycle, needed>>

Recheck(w) ==
    /\ workerPc[w] = "recheck"
    /\ workerPc' = [workerPc EXCEPT ![w] = IF pending THEN "clear" ELSE "release"]
    /\ pending' = FALSE
    /\ UNCHANGED <<threads, scheduled, tasks, callerPc, interest, ready, lifecycle,
                   needed, wedged>>

Release(w) ==
    /\ Goto(workerPc, w, "release", "late")
    /\ scheduled' = FALSE
    /\ UNCHANGED <<threads, pending, tasks, callerPc, interest, ready, lifecycle,
                   needed, wedged>>

(* Mutant: the closure ends once it has given the licence back. *)
LateCheckMissing(w) ==
    /\ Goto(workerPc, w, "late", "idle")
    /\ UNCHANGED <<threads, pending, scheduled, tasks, callerPc, interest, ready,
                   lifecycle, needed, wedged>>

LateCheck(w) ==
    /\ workerPc[w] = "late"
    /\ workerPc' = [workerPc EXCEPT ![w] = IF pending THEN "retake" ELSE "idle"]
    /\ pending' = FALSE
    /\ UNCHANGED <<threads, scheduled, tasks, callerPc, interest, ready, lifecycle,
                   needed, wedged>>

(* Mutant: the licence is taken back without looking who holds it. *)
RetakeIgnored(w) ==
    /\ Goto(workerPc, w, "retake", "clear")
    /\ scheduled' = TRUE
    /\ UNCHANGED <<threads, pending, tasks, callerPc, interest, ready, lifecycle,
                   needed, wedged>>

Retake(w) ==
    /\ workerPc[w] = "retake"
    /\ workerPc' = [workerPc EXCEPT ![w] = IF scheduled THEN "idle" ELSE "clear"]
    /\ scheduled' = TRUE
    /\ UNCHANGED <<threads, pending, tasks, callerPc, interest, ready, lifecycle,
                   needed, wedged>>

-----------------------------------------------------------------------------
(* The poller, the socket and stop().                                      *)

SocketTurnsReady ==
    /\ ready' = TRUE
    /\ UNCHANGED <<threads, pending, scheduled, tasks, callerPc, workerPc, interest,
                   lifecycle, needed, wedged>>

(* epoll_wait returns the connection; EPOLLONESHOT disarms it. *)
EpollReturns ==
    /\ lifecycle = "running"
    /\ interest /\ ready
    /\ Goto(callerPc, Poller, "idle", "store")
    /\ interest' = FALSE
    /\ UNCHANGED <<threads, pending, scheduled, tasks, workerPc, ready, lifecycle,
                   needed, wedged>>

BeginStop ==
    /\ lifecycle = "running"
    /\ lifecycle' = "stopping"
    /\ UNCHANGED <<threads, pending, scheduled, tasks, callerPc, workerPc, interest,
                   ready, needed, wedged>>

JoinPoller ==
    /\ lifecycle = "stopping"
    /\ callerPc[Poller] = "idle"
    /\ lifecycle' = "joined"
    /\ UNCHANGED <<threads, pending, scheduled, tasks, callerPc, workerPc, interest,
                   ready, needed, wedged>>

(* CPUThreadPoolExecutor::stop() lets running closures finish and discards
   the queued ones. *)
StopWorkers ==
    /\ lifecycle = "joined"
    /\ lifecycle' = "stopped"
    /\ UNCHANGED <<threads, pending, scheduled, tasks, callerPc, workerPc, interest,
                   ready, needed, wedged>>

-----------------------------------------------------------------------------
CallerStep(c) == Schedule(c) \/ StorePending(c) \/ ExchangeScheduled(c)

LoopStep(w) ==
    \/ TakeTask(w) \/ ClearPending(w) \/ EnterPump(w) \/ Recheck(w)
    \/ Release(w) \/ LateCheck(w) \/ Retake(w)

PumpRuns(w) == PumpReads(w) \/ PumpWatches(w) \/ PumpReturns(w) \/ PumpThrows(w)

Stop == BeginStop \/ JoinPoller \/ StopWorkers

ReactorNext ==
    \/ \E c \in Callers : CallerStep(c)
    \/ \E w \in Workers : LoopStep(w) \/ PumpRuns(w)
    \/ SocketTurnsReady \/ EpollReturns \/ Stop

(* The operating system runs every thread that can take a step, and pump()
   comes to an end.  Nothing makes anybody call schedule() or stop(). *)
ReactorFairness ==
    /\ \A c \in Callers : WF_reactorVars(StorePending(c) \/ ExchangeScheduled(c))
    /\ \A w \in Workers : WF_reactorVars(LoopStep(w))
    /\ \A w \in Workers : WF_reactorVars(PumpReturns(w) \/ PumpThrows(w))
    /\ WF_reactorVars(EpollReturns)

ReactorSpec == ReactorInit /\ [][ReactorNext]_reactorVars
ReactorFairSpec == ReactorSpec /\ ReactorFairness

-----------------------------------------------------------------------------
(* "Only the serialized pump may operate on its PGconn"
   (DBConnection.hpp:94): two workers are never inside pump() at once, even
   while requests race with a worker that gives the licence back. *)
PumpIsSerialized ==
    \A v, w \in Workers :
        workerPc[v] = "pump" /\ workerPc[w] = "pump" => v = w

Lone == \E w \in Workers : threads = {w}

(* A worker between taking a task and giving the licence back. *)
Owning == {"clear", "enter", "pump", "recheck", "release"}

Answered == ~needed \/ wedged \/ lifecycle # "running"

(* With one worker thread every request is followed by a pump that begins
   after it, unless a pump threw or the reactor is being stopped. *)
LoneWorkerPumps == (needed /\ Lone) ~> Answered

(* The same of any number of worker threads, which request() is written
   for: the pump behind a queued rollback, commit or query does run. *)
EveryRequestPumped == needed ~> Answered
=============================================================================
