----------------------------- MODULE JobRuntime -----------------------------
(***************************************************************************)
(* The job runtime (jobs/JobContext.cpp): a runner thread moves queued     *)
(* jobs to a thread pool, a cleanup thread forgets finished ones, and the  *)
(* destructor stops both.                                                  *)
(*                                                                         *)
(* A job is a coroutine.  Its frame lives while the runtime's table, its   *)
(* queue or a closure of the pool refers to the job.  The condition        *)
(* variables are modelled with the window between the test of a predicate  *)
(* (under m_queue_mtx) and the wait: the stop flags are stored and         *)
(* notified without the mutex and may fall into it.                        *)
(***************************************************************************)
EXTENDS Naturals, Sequences, Functions

CONSTANTS Jobs

VARIABLES queue,      \* m_queue
          jobs,       \* the keys of m_jobs
          where,      \* how far a job has come
          held,       \* jobs that a closure in the pool refers to
          finished,   \* m_done of a job's status
          requested,  \* m_cleanup_requested of a job's status
          soft, hard, \* m_soft_stop, m_hard_stop
          runner,     \* the runner thread
          cleaner,    \* the cleanup thread
          main,       \* the thread in ~JobRuntime
          timedOut    \* the destructor gave up waiting for jobs

runtimeVars == <<queue, jobs, where, held, finished, requested, soft, hard, runner, cleaner,
          main, timedOut>>

stops == <<soft, hard, main, timedOut>>
work == <<queue, jobs, where, held, finished, requested>>

RuntimeInit ==
    /\ queue = <<>> /\ jobs = {} /\ held = {} /\ finished = {} /\ requested = {}
    /\ where = [j \in Jobs |-> "new"]
    /\ soft = FALSE /\ hard = FALSE /\ timedOut = FALSE
    /\ runner = "top" /\ cleaner = "sweeps" /\ main = "serving"

(* m_queue_mtx: every action that takes it is one step, except for a thread
   that has tested its predicate and is about to wait. *)
Unlocked == runner # "checked" /\ cleaner # "checked"

Woken(thread, asleep, awake) == IF thread = asleep THEN awake ELSE thread

-----------------------------------------------------------------------------
(* Jobs.                                                                   *)

(* Mutant: the queue is changed without the mutex. *)
EnqueueUnlocked(j) ==
    /\ main = "serving"
    /\ where[j] = "new"
    /\ queue' = Append(queue, j)
    /\ jobs' = jobs \cup {j}
    /\ where' = [where EXCEPT ![j] = "queued"]
    /\ runner' = Woken(runner, "blocked", "tests")
    /\ UNCHANGED <<held, finished, requested, stops, cleaner>>

(* enqueue().  Only the running server queues jobs: the runtime is destroyed
   after the HTTP server and the services have stopped. *)
Enqueue(j) ==
    /\ main = "serving"
    /\ where[j] = "new"
    /\ Unlocked
    /\ queue' = Append(queue, j)
    /\ jobs' = jobs \cup {j}
    /\ where' = [where EXCEPT ![j] = "queued"]
    /\ runner' = Woken(runner, "blocked", "tests")
    /\ UNCHANGED <<held, finished, requested, stops, cleaner>>

(* JobContext::run() on a thread of the pool. *)
Run(j) ==
    /\ main # "destroyed"
    /\ where[j] = "pooled"
    /\ where' = [where EXCEPT ![j] = "running"]
    /\ UNCHANGED <<queue, jobs, held, finished, requested, stops, runner, cleaner>>

(* The job awaits something; run() returns and the pool drops its closure. *)
Suspend(j) ==
    /\ where[j] = "running"
    /\ where' = [where EXCEPT ![j] = "suspended"]
    /\ held' = held \ {j}
    /\ UNCHANGED <<queue, jobs, finished, requested, stops, runner, cleaner>>

(* What it awaits resumes it, on a thread that holds no reference to it. *)
Resume(j) ==
    /\ where[j] = "suspended"
    /\ main # "destroyed"
    /\ where' = [where EXCEPT ![j] = "running"]
    /\ UNCHANGED <<queue, jobs, held, finished, requested, stops, runner, cleaner>>

(* Mutant: the job is marked done before it is suspended for good. *)
MarkDoneEarly(j) ==
    /\ where[j] = "running"
    /\ \/ /\ j \notin finished
          /\ finished' = finished \cup {j}
          /\ UNCHANGED <<where, held>>
       \/ /\ j \in finished
          /\ where' = [where EXCEPT ![j] = "over"]
          /\ held' = held \ {j}
          /\ UNCHANGED finished
    /\ UNCHANGED <<queue, jobs, requested, stops, runner, cleaner>>

(* The coroutine returns or throws and is suspended at its end; only then
   does the final awaiter, with a reference to the status of its own, set
   m_done. *)
MarkDone(j) ==
    /\ \/ /\ where[j] = "running"
          /\ where' = [where EXCEPT ![j] = "final"]
          /\ UNCHANGED <<finished, held>>
       \/ /\ where[j] = "final"
          /\ where' = [where EXCEPT ![j] = "over"]
          /\ finished' = finished \cup {j}
          /\ held' = held \ {j}
    /\ UNCHANGED <<queue, jobs, requested, stops, runner, cleaner>>

(* The status of a finished job is fetched. *)
Fetch(j) ==
    /\ main = "serving"
    /\ j \in jobs \cap finished
    /\ requested' = requested \cup {j}
    /\ UNCHANGED <<queue, jobs, where, held, finished, stops, runner, cleaner>>

-----------------------------------------------------------------------------
(* The runner thread.                                                      *)

(* The head of runner()'s loop. *)
RunnerLoops ==
    /\ runner = "top"
    /\ soft => Unlocked
    /\ runner' = IF hard \/ (soft /\ queue = <<>>) THEN "exited" ELSE "tests"
    /\ UNCHANGED <<work, stops, cleaner>>

(* getNextJob() finds something to return for: a job, or a stop. *)
GetNextJob ==
    /\ runner = "tests"
    /\ Unlocked
    /\ queue # <<>> \/ hard \/ soft
    /\ runner' = "top"
    /\ IF queue = <<>> THEN UNCHANGED work
       ELSE /\ queue' = Tail(queue)
            /\ where' = [where EXCEPT ![Head(queue)] = "pooled"]
            /\ held' = held \cup {Head(queue)}
            /\ UNCHANGED <<jobs, finished, requested>>
    /\ UNCHANGED <<stops, cleaner>>

(* It finds nothing, and waits: first the test, then the wait. *)
RunnerWaits ==
    /\ \/ /\ runner = "tests"
          /\ Unlocked
          /\ queue = <<>> /\ ~hard /\ ~soft
          /\ runner' = "checked"
       \/ /\ runner = "checked"
          /\ runner' = "blocked"
    /\ UNCHANGED <<work, stops, cleaner>>

SpuriousWakeup ==
    /\ runner = "blocked"
    /\ runner' = "tests"
    /\ UNCHANGED <<work, stops, cleaner>>

-----------------------------------------------------------------------------
(* The cleanup thread.                                                     *)

(* It forgets the finished jobs whose status was fetched, and those that are
   older than the retention period: any of the others. *)
Sweep ==
    /\ cleaner = "sweeps"
    /\ Unlocked
    /\ IF hard THEN cleaner' = "exited" /\ UNCHANGED jobs
       ELSE /\ \E old \in SUBSET (jobs \cap finished) :
                    jobs' = jobs \ (old \cup (requested \cap finished))
            /\ cleaner' = "checked"
    /\ UNCHANGED <<queue, where, held, finished, requested, stops, runner>>

(* It sleeps until it is notified or ten seconds have passed. *)
CleanerSleeps ==
    /\ \/ cleaner = "checked" /\ cleaner' = "sleeps"
       \/ cleaner = "sleeps" /\ cleaner' = "sweeps"
    /\ UNCHANGED <<work, stops, runner>>

-----------------------------------------------------------------------------
(* ~JobRuntime.                                                            *)

(* requestStop(): the flag, then the notification. *)
RequestStop ==
    /\ \/ /\ main = "serving"
          /\ soft' = TRUE
          /\ main' = "notifies"
          /\ UNCHANGED runner
       \/ /\ main = "notifies"
          /\ runner' = Woken(runner, "blocked", "tests")
          /\ main' = "polls"
          /\ UNCHANGED soft
    /\ UNCHANGED <<work, hard, timedOut, cleaner>>

AllFinished == queue = <<>> /\ jobs \subseteq finished

(* Mutant: the jobs are looked at without the mutex. *)
PollUnlocked ==
    /\ main = "polls"
    /\ AllFinished
    /\ main' = "stops"
    /\ UNCHANGED <<work, soft, hard, timedOut, runner, cleaner>>

(* The destructor looks at the jobs until all have finished. *)
PollFinished ==
    /\ main = "polls"
    /\ Unlocked
    /\ AllFinished
    /\ main' = "stops"
    /\ UNCHANGED <<work, soft, hard, timedOut, runner, cleaner>>

(* After ten seconds, and at least one look, it goes on without them. *)
PollTimesOut ==
    /\ main = "polls"
    /\ Unlocked
    /\ ~AllFinished
    /\ main' = "stops"
    /\ timedOut' = TRUE
    /\ UNCHANGED <<work, soft, hard, runner, cleaner>>

HardStop ==
    /\ \/ /\ main = "stops"
          /\ hard' = TRUE
          /\ main' = "notifies all"
          /\ UNCHANGED <<runner, cleaner>>
       \/ /\ main = "notifies all"
          /\ runner' = Woken(runner, "blocked", "tests")
          /\ cleaner' = Woken(cleaner, "sleeps", "sweeps")
          /\ main' = "joins"
          /\ UNCHANGED hard
    /\ UNCHANGED <<work, soft, timedOut>>

(* The threads are joined and the members destroyed: the table and the queue
   of jobs, then the pool with the closures it has not run.  The pool's
   destructor waits for the ones that run; they end as they would before. *)
Destroy ==
    /\ main = "joins"
    /\ runner = "exited" /\ cleaner = "exited"
    /\ jobs' = {} /\ queue' = <<>> /\ held' = {j \in held : where[j] = "running"}
    /\ main' = "destroyed"
    /\ UNCHANGED <<where, finished, requested, soft, hard, timedOut, runner, cleaner>>

-----------------------------------------------------------------------------
Runner == RunnerLoops \/ GetNextJob \/ RunnerWaits
Cleaner == Sweep \/ CleanerSleeps
Stop == PollFinished \/ PollTimesOut \/ HardStop \/ Destroy

RuntimeNext ==
    \/ \E j \in Jobs : \/ Enqueue(j) \/ Run(j) \/ Suspend(j) \/ Resume(j)
                       \/ MarkDone(j) \/ Fetch(j)
    \/ Runner \/ SpuriousWakeup
    \/ Cleaner
    \/ RequestStop \/ Stop

RuntimeSpec == RuntimeInit /\ [][RuntimeNext]_runtimeVars

(* Threads that can run do, and get the mutex when it is free again and again
   (its holders sleep in between: 10 s, 100 ms, or until they are notified);
   the pool runs what it is given, and a destructor that has begun goes on.
   Jobs need not end. *)
RuntimeFairSpec ==
    /\ RuntimeSpec
    /\ SF_runtimeVars(Runner) /\ SF_runtimeVars(Cleaner)
    /\ WF_runtimeVars(main # "serving" /\ RequestStop) /\ SF_runtimeVars(Stop)
    /\ \A j \in Jobs : WF_runtimeVars(Run(j))

-----------------------------------------------------------------------------
(* The frame of a job that has not reached its end is not destroyed: cleanup()
   takes only jobs suspended for good, and the destructor leaves none behind
   unless its ten seconds ran out. *)
FrameOutlivesJob ==
    \A j \in Jobs :
        where[j] \in {"queued", "pooled", "running", "suspended"} =>
            \/ j \in jobs \cup held \cup Range(queue)
            \/ timedOut /\ main = "destroyed"

(* A queued job is handed to the pool, also when the server is already
   stopping, unless the destructor's ten seconds run out. *)
EveryJobRuns ==
    \A j \in Jobs : where[j] = "queued" ~> where[j] # "queued" \/ timedOut

(* The destructor returns: no thread sleeps through the stop, although the
   flags are set and notified without the mutex. *)
ShutdownEnds == main # "serving" ~> main = "destroyed"

=============================================================================
