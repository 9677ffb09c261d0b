---------------------------- MODULE EventProofs ----------------------------
(***************************************************************************)
(* Jobs and events of the server, for any number of jobs, entities and     *)
(* subscribers: the runtime that keeps a job, the hub that reports it, and *)
(* the hub whose streams clients read.                                     *)
(***************************************************************************)
EXTENDS SSEEventHub, JobEventHub, JobRuntime, FiniteSetTheorems, TLAPS

(* Steps are for Zenon; those with arithmetic, records or sequences name SMT. *)
USE Zenon

-----------------------------------------------------------------------------
(* The job runtime. *)

Unfinished == {"queued", "pooled", "running", "suspended"}

(* A queued job is in the queue once. *)
Queued ==
    /\ queue \in Seq(Jobs)
    /\ \A i \in 1..Len(queue) : where[queue[i]] = "queued"
    /\ \A i, k \in 1..Len(queue) : queue[i] = queue[k] => i = k

(* A job that has not ended is in the table and not marked as done, and there
   is none when the destructor has seen that all have finished. *)
Kept ==
    /\ where \in [Jobs -> Unfinished \cup {"new", "final", "over"}]
    /\ \A j \in Jobs : where[j] \in Unfinished =>
         /\ j \notin finished
         /\ main # "destroyed" => j \in jobs
         /\ main \notin {"serving", "notifies", "polls"} => timedOut
    /\ \A j \in Jobs : where[j] = "new" => j \notin finished

RuntimeInv == Queued /\ Kept

(* A runtime that was just made has no jobs. *)
LEMMA InitRuntime == RuntimeInit => RuntimeInv
BY SMT DEF RuntimeInit, RuntimeInv, Queued, Kept, Unfinished

(* enqueue() puts a new job into the table and the queue. *)
LEMMA EnqueueKept ==
    ASSUME RuntimeInv, NEW j \in Jobs, Enqueue(j)
    PROVE  RuntimeInv'
<1>1. /\ queue \in Seq(Jobs) /\ queue' = Append(queue, j)
      /\ where[j] = "new" /\ where' = [where EXCEPT ![j] = "queued"]
      /\ jobs' = jobs \cup {j} /\ main = "serving"
      /\ UNCHANGED <<finished, main, timedOut>>
  BY DEF RuntimeInv, Queued, Enqueue, stops
<1>2. PICK n \in Nat : n = Len(queue)
  BY <1>1, SMT
<1>3. /\ Len(queue') = n + 1 /\ queue'[n + 1] = j
      /\ \A i \in 1..n : queue'[i] = queue[i] /\ queue[i] \in Jobs /\ queue[i] # j
  BY <1>1, <1>2, SMT DEF RuntimeInv, Queued
<1>4. Queued'
  BY <1>1, <1>2, <1>3, SMT DEF RuntimeInv, Queued, Kept
<1>5. Kept'
  BY <1>1 DEF RuntimeInv, Kept, Unfinished
<1> QED BY <1>4, <1>5 DEF RuntimeInv

(* A job is given to the pool, by getNextJob(): it leaves the queue. *)
LEMMA GetNextKept ==
    ASSUME RuntimeInv, GetNextJob
    PROVE  RuntimeInv'
<1>1. CASE queue = <<>>
  BY <1>1 DEF RuntimeInv, Queued, Kept, GetNextJob, work, stops
<1>2. CASE queue # <<>>
  <2>1. /\ queue \in Seq(Jobs) /\ queue' = Tail(queue)
        /\ where' = [where EXCEPT ![Head(queue)] = "pooled"]
        /\ UNCHANGED <<jobs, finished, main, timedOut>>
    BY <1>2 DEF RuntimeInv, Queued, GetNextJob, stops
  <2>2. PICK n \in Nat : n = Len(queue)
    BY <2>1, SMT
  <2>3. n > 0 /\ Head(queue) = queue[1] /\ queue[1] \in Jobs /\ where[queue[1]] = "queued"
    BY <1>2, <2>1, <2>2, SMT DEF RuntimeInv, Queued
  <2>4. /\ queue' \in Seq(Jobs) /\ Len(queue') = n - 1
        /\ \A i \in 1..n-1 : queue'[i] = queue[i + 1] /\ i + 1 \in 1..n
    BY <1>2, <2>1, <2>2, <2>3, SMT
  <2>5. \A i \in 1..n-1 : queue[i + 1] \in Jobs /\ queue[i + 1] # queue[1]
    BY <2>1, <2>2, <2>3, <2>4, SMT DEF RuntimeInv, Queued
  <2>6. Queued'
    BY <2>1, <2>2, <2>3, <2>4, <2>5, SMT DEF RuntimeInv, Queued, Kept
  <2>7. Kept'
    BY <2>1, <2>3 DEF RuntimeInv, Kept, Unfinished
  <2> QED BY <2>6, <2>7 DEF RuntimeInv
<1> QED BY <1>1, <1>2

(* A job that was taken out of the queue moves on, or ends and is marked. *)
LEMMA MovesKept ==
    ASSUME RuntimeInv, NEW j \in Jobs,
           where[j] \in {"pooled", "running", "suspended", "final"},
           \/ /\ where'[j] \in {"running", "suspended", "final"}
              /\ where[j] # "final"
              /\ UNCHANGED finished
           \/ where'[j] = "over" /\ finished' = finished \cup {j},
           where' = [where EXCEPT ![j] = where'[j]],
           UNCHANGED <<queue, jobs, main, timedOut>>
    PROVE  RuntimeInv'
<1>1. Queued'
  BY SMT DEF RuntimeInv, Queued, Kept
<1>2. Kept'
  BY DEF RuntimeInv, Kept, Unfinished
<1> QED BY <1>1, <1>2 DEF RuntimeInv

(* What one job does keeps the invariant. *)
LEMMA JobKept ==
    ASSUME RuntimeInv, NEW j \in Jobs,
           \/ Enqueue(j) \/ Run(j) \/ Suspend(j)
           \/ Resume(j) \/ MarkDone(j) \/ Fetch(j)
    PROVE  RuntimeInv'
<1>0. where \in [Jobs -> Unfinished \cup {"new", "final", "over"}]
  BY DEF RuntimeInv, Kept
<1>1. CASE Run(j)
  <2>1. /\ where[j] = "pooled" /\ where'[j] = "running"
        /\ where' = [where EXCEPT ![j] = where'[j]]
        /\ UNCHANGED <<queue, jobs, finished, main, timedOut>>
    BY <1>0, <1>1 DEF Run, stops
  <2> QED BY <2>1, MovesKept
<1>2. CASE Suspend(j)
  <2>1. /\ where[j] = "running" /\ where'[j] = "suspended"
        /\ where' = [where EXCEPT ![j] = where'[j]]
        /\ UNCHANGED <<queue, jobs, finished, main, timedOut>>
    BY <1>0, <1>2 DEF Suspend, stops
  <2> QED BY <2>1, MovesKept
<1>3. CASE Resume(j)
  <2>1. /\ where[j] = "suspended" /\ where'[j] = "running"
        /\ where' = [where EXCEPT ![j] = where'[j]]
        /\ UNCHANGED <<queue, jobs, finished, main, timedOut>>
    BY <1>0, <1>3 DEF Resume, stops
  <2> QED BY <2>1, MovesKept
<1>4. CASE MarkDone(j)
  <2>1. /\ \/ where[j] = "running" /\ where'[j] = "final" /\ UNCHANGED finished
           \/ where[j] = "final" /\ where'[j] = "over" /\ finished' = finished \cup {j}
        /\ where' = [where EXCEPT ![j] = where'[j]]
        /\ UNCHANGED <<queue, jobs, main, timedOut>>
    BY <1>0, <1>4 DEF MarkDone, stops
  <2> QED BY <2>1, MovesKept
<1>5. CASE Fetch(j)
  BY <1>5 DEF RuntimeInv, Queued, Kept, Fetch, stops
<1> QED BY <1>1, <1>2, <1>3, <1>4, <1>5, EnqueueKept

(* The two threads and the destructor. *)
LEMMA ThreadsKept ==
    ASSUME RuntimeInv,
           \/ RunnerLoops \/ RunnerWaits \/ SpuriousWakeup
           \/ Cleaner \/ RequestStop \/ Stop
           \/ UNCHANGED runtimeVars
    PROVE  RuntimeInv'
<1> USE DEF RuntimeInv, Queued, Kept, work, stops
<1>1. CASE RunnerLoops \/ RunnerWaits \/ SpuriousWakeup
           \/ CleanerSleeps \/ UNCHANGED runtimeVars
  BY <1>1, SMT DEF RunnerLoops, RunnerWaits, SpuriousWakeup,
              CleanerSleeps, runtimeVars
<1>2. CASE Sweep
  BY <1>2 DEF Sweep
<1>3. CASE RequestStop
  BY <1>3 DEF RequestStop
<1>4. CASE PollFinished
  BY <1>4, SMT DEF PollFinished, AllFinished
<1>5. CASE PollTimesOut
  BY <1>5 DEF PollTimesOut
<1>6. CASE HardStop
  BY <1>6 DEF HardStop
<1>7. CASE Destroy
  BY <1>7, SMT DEF Destroy
<1> QED BY <1>1, <1>2, <1>3, <1>4, <1>5, <1>6, <1>7 DEF Cleaner, Stop

(* Where a job is kept at each stage of its life, in every reachable state. *)
THEOREM RuntimeTheorem == RuntimeSpec => []RuntimeInv
<1>1. RuntimeInv /\ [RuntimeNext]_runtimeVars => RuntimeInv'
  BY JobKept, GetNextKept, ThreadsKept DEF RuntimeNext, Runner
<1> QED BY <1>1, InitRuntime, PTL DEF RuntimeSpec

(* The frame of a job that has not ended is referred to by the table, the queue
   or the pool until the destructor gives up waiting for it (cleanup() and
   ~JobRuntime). *)
THEOREM FramesOutliveJobs == RuntimeSpec => []FrameOutlivesJob
<1>1. RuntimeInv => FrameOutlivesJob
  BY DEF RuntimeInv, Kept, Unfinished, FrameOutlivesJob
<1> QED BY <1>1, RuntimeTheorem, PTL

(* A queued job is in the queue, and the runner, which alone takes it out, is
   awake and has not left; and the destructor joins no runner that sleeps
   (JobRuntime::getNextJob, runner, enqueue and the destructor). *)
RunnerAttends ==
    /\ \A j \in Jobs : where[j] = "queued" =>
         timedOut \/ (j \in Range(queue) /\ runner \in {"top", "tests"})
    /\ main = "joins" => runner \in {"top", "tests", "exited"}

Ending == {"stops", "notifies all", "joins", "destroyed"}

(* The runner at each of its places, and what the destructor has seen of it: a
   stop that is announced keeps the runner from beginning to wait, and by the
   time all was looked at under the mutex it does wait or has come back. *)
Attended ==
    /\ runner \in {"top", "tests", "checked", "blocked", "exited"}
    /\ main \in {"serving", "notifies", "polls"} \cup Ending
    /\ runner \in {"checked", "blocked"} => queue = <<>>
    /\ runner = "exited" => soft /\ (queue = <<>> \/ timedOut)
    /\ soft <=> main # "serving"
    /\ hard => main \in Ending
    /\ main \in Ending => runner # "checked" /\ (queue = <<>> \/ timedOut)
    /\ main \in {"joins", "destroyed"} => runner # "blocked"

(* Every queued job is in the queue, until all is destroyed. *)
Waits == \A j \in Jobs : where[j] = "queued" /\ main # "destroyed" =>
             \E i \in 1..Len(queue) : queue[i] = j

(* A step that leaves the queue and the jobs alone, or puts a job into it while
   the runner does not hold the mutex. *)
LEMMA ThreadsAttended ==
    ASSUME RuntimeInv, Attended, [RuntimeNext]_runtimeVars
    PROVE  Attended'
<1> USE DEF Attended, Ending, work, stops, Unlocked, Woken
<1>1. ASSUME NEW j \in Jobs, Enqueue(j) PROVE Attended'
  BY <1>1 DEF Enqueue
<1>2. ASSUME NEW j \in Jobs, Run(j) \/ Suspend(j) \/ Resume(j) \/ MarkDone(j) \/ Fetch(j)
      PROVE  Attended'
  <2>1. UNCHANGED <<queue, soft, hard, main, timedOut, runner>>
    BY <1>2 DEF Run, Suspend, Resume, MarkDone, Fetch
  <2> QED BY <2>1
<1>3. CASE RunnerLoops
  BY <1>3 DEF RunnerLoops
<1>4. CASE GetNextJob
  <2>1. CASE queue = <<>>
    BY <1>4, <2>1 DEF GetNextJob
  <2>2. CASE queue # <<>>
    <3>1. runner = "tests" /\ runner' = "top" /\ UNCHANGED <<soft, hard, main, timedOut>>
      BY <1>4 DEF GetNextJob
    <3> QED BY <2>2, <3>1
  <2> QED BY <2>1, <2>2
<1>5. CASE RunnerWaits \/ SpuriousWakeup
  <2>1. UNCHANGED <<queue, soft, hard, main, timedOut>>
    BY <1>5 DEF RunnerWaits, SpuriousWakeup
  <2>2. CASE RunnerWaits /\ runner = "tests"
    <3>1. runner' = "checked" /\ queue = <<>> /\ main = "serving"
      BY <2>2 DEF RunnerWaits
    <3> QED BY <2>1, <3>1
  <2>3. CASE RunnerWaits /\ runner = "checked"
    <3>1. runner' = "blocked" /\ queue = <<>> /\ main \notin Ending
      BY <2>3 DEF RunnerWaits
    <3> QED BY <2>1, <3>1
  <2>4. CASE SpuriousWakeup
    <3>1. runner' = "tests"
      BY <2>4 DEF SpuriousWakeup
    <3> QED BY <2>1, <3>1
  <2> QED BY <1>5, <2>2, <2>3, <2>4 DEF RunnerWaits
<1>6. CASE Cleaner
  <2>1. UNCHANGED <<queue, soft, hard, main, timedOut, runner>>
    BY <1>6 DEF Cleaner, Sweep, CleanerSleeps
  <2> QED BY <2>1
<1>7. CASE RequestStop
  BY <1>7 DEF RequestStop
<1>8. CASE PollFinished \/ PollTimesOut
  BY <1>8 DEF PollFinished, PollTimesOut, AllFinished
<1>9. CASE HardStop
  BY <1>9 DEF HardStop
<1>10. CASE Destroy
  BY <1>10 DEF Destroy
<1>11. CASE UNCHANGED runtimeVars
  BY <1>11 DEF runtimeVars
<1> QED BY <1>1, <1>2, <1>3, <1>4, <1>5, <1>6, <1>7, <1>8, <1>9, <1>10, <1>11
        DEF RuntimeNext, Runner, Stop

(* A job leaves the queue only when the runner takes it. *)
LEMMA QueueHolds ==
    ASSUME RuntimeInv, Waits, [RuntimeNext]_runtimeVars
    PROVE  Waits'
<1>0. queue \in Seq(Jobs) /\ where \in [Jobs -> Unfinished \cup {"new", "final", "over"}]
  BY DEF RuntimeInv, Queued, Kept
<1>1. ASSUME NEW j \in Jobs, Enqueue(j) PROVE Waits'
  <2>1. /\ queue' = Append(queue, j) /\ where' = [where EXCEPT ![j] = "queued"]
        /\ UNCHANGED main
    BY <1>1 DEF Enqueue, stops
  <2> QED BY <1>0, <2>1, SMT DEF Waits
<1>2. ASSUME NEW j \in Jobs, Run(j) \/ Suspend(j) \/ Resume(j) \/ MarkDone(j) \/ Fetch(j)
      PROVE  Waits'
  <2>1. /\ UNCHANGED <<queue, main>>
        /\ \A k \in Jobs : where'[k] = "queued" => where[k] = "queued"
    BY <1>0, <1>2 DEF Run, Suspend, Resume, MarkDone, Fetch, stops
  <2> QED BY <2>1 DEF Waits
<1>3. CASE GetNextJob /\ queue # <<>>
  <2>1. /\ queue' = Tail(queue) /\ where' = [where EXCEPT ![Head(queue)] = "pooled"]
        /\ UNCHANGED main
    BY <1>3 DEF GetNextJob, stops
  <2>2. PICK n \in Nat : n = Len(queue) /\ n > 0
    BY <1>0, <1>3, SMT
  <2>3. /\ Head(queue) = queue[1] /\ queue[1] \in Jobs /\ Len(queue') = n - 1
        /\ \A i \in 1..n : i # 1 => i - 1 \in 1..n-1 /\ queue'[i - 1] = queue[i]
    BY <1>0, <1>3, <2>1, <2>2, SMT
  <2>4. ASSUME NEW k \in Jobs, where'[k] = "queued", main' # "destroyed"
        PROVE  \E i \in 1..Len(queue') : queue'[i] = k
    <3>1. where[k] = "queued" /\ k # queue[1]
      BY <1>0, <2>1, <2>3, <2>4
    <3>2. PICK i \in 1..n : queue[i] = k
      BY <2>1, <2>2, <2>4, <3>1 DEF Waits
    <3> QED BY <2>3, <3>1, <3>2
  <2> QED BY <2>4 DEF Waits
<1>4. CASE UNCHANGED <<queue, where>> /\ (main = "destroyed" => main' = "destroyed")
  BY <1>4 DEF Waits
<1>5. CASE Destroy
  BY <1>5 DEF Destroy, Waits
<1>6. CASE GetNextJob /\ queue = <<>>
  BY <1>4, <1>6 DEF GetNextJob, work, stops
<1>7. CASE \/ RunnerLoops \/ RunnerWaits \/ SpuriousWakeup \/ Cleaner \/ RequestStop
           \/ PollFinished \/ PollTimesOut \/ HardStop \/ UNCHANGED runtimeVars
  <2>1. UNCHANGED <<queue, where>> /\ (main = "destroyed" => main' = "destroyed")
    BY <1>7 DEF RunnerLoops, RunnerWaits, SpuriousWakeup, Cleaner, Sweep, CleanerSleeps,
                RequestStop, PollFinished, PollTimesOut, HardStop, runtimeVars, work, stops
  <2> QED BY <1>4, <2>1
<1> QED BY <1>1, <1>2, <1>3, <1>5, <1>6, <1>7 DEF RuntimeNext, Runner, Stop

(* No queued job is left behind by a runner that sleeps or has gone, and no stop
   by one that sleeps, although the flags are set and notified without the mutex
   (JobContext.cpp:52 and 178): the part of EveryJobRuns and ShutdownEnds that no
   scheduling can make up for. *)
THEOREM NoJobIsLeftBehind == RuntimeSpec => []RunnerAttends
<1>1. RuntimeInit => Attended /\ Waits
  BY DEF RuntimeInit, Attended, Waits, Ending
<1>2. RuntimeInv /\ Attended /\ Waits => RunnerAttends
  <2> SUFFICES ASSUME RuntimeInv, Attended, Waits PROVE RunnerAttends
    OBVIOUS
  <2>1. main = "joins" => runner \in {"top", "tests", "exited"}
    BY DEF Attended, Ending
  <2>2. ASSUME NEW j \in Jobs, where[j] = "queued", ~timedOut
        PROVE  j \in Range(queue) /\ runner \in {"top", "tests"}
    <3>1. main # "destroyed"
      BY <2>2 DEF RuntimeInv, Kept, Unfinished
    <3>2. PICK i \in 1..Len(queue) : queue[i] = j
      BY <2>2, <3>1 DEF Waits
    <3>3. queue # <<>> /\ i \in DOMAIN queue
      BY <3>2, SMT DEF RuntimeInv, Queued
    <3>4. j \in Range(queue)
      BY <3>2, <3>3 DEF Range
    <3>5. runner \in {"top", "tests"}
      BY <2>2, <3>3 DEF Attended
    <3> QED BY <3>4, <3>5
  <2> QED BY <2>1, <2>2 DEF RunnerAttends
<1>3. RuntimeInv /\ Attended /\ Waits /\ [RuntimeNext]_runtimeVars => (Attended /\ Waits)'
  BY ThreadsAttended, QueueHolds
<1> QED BY <1>1, <1>2, <1>3, RuntimeTheorem, PTL DEF RuntimeSpec

-----------------------------------------------------------------------------
(* The hub of the jobs. *)

(* What a snapshot of j may say: nothing the job has not reported, and that it
   has completed only with all it ever reported. *)
Truthful(event, j) ==
    /\ event.started => started[j]
    /\ event.data <= data[j]
    /\ event.completed => done[j] /\ event.data = data[j]

(* What it says goes on from what the stream says. *)
Succeeds(event, j) ==
    stream[j] \in Updates =>
        /\ stream[j].data <= event.data
        /\ stream[j].started => event.started
        /\ stream[j].completed => event.completed

(* The same of the start time alone, which is read first. *)
Begun(event, j) ==
    /\ event.started => started[j]
    /\ stream[j] \in Updates /\ stream[j].started => event.started

HubTyped ==
    /\ MaxData \in Nat
    /\ data \in [JobIds -> 0..MaxData]
    /\ started \in [JobIds -> BOOLEAN] /\ done \in [JobIds -> BOOLEAN]
    /\ stream \in [JobIds -> Updates \cup {None, Gone}]

(* A job is known from its addition until its removal, which is the last that
   the stream tells of it; it has started before it runs or ends. *)
KnownOnce ==
    \A j \in JobIds :
        /\ job[j] = "new" => j \notin known /\ ~done[j]
        /\ job[j] \in {"runs", "changed", "over"} => started[j]
        /\ done[j] => started[j] /\ job[j] \in {"changed", "over"}
        /\ stream[j] = Gone => j \notin known /\ job[j] # "new"
        /\ stream[j] \in Updates => j \in known

(* The stream and the snapshot, at each place of the publisher. *)
Reports ==
    /\ job \in [JobIds -> {"new", "queued", "runs", "changed", "over"}]
    /\ \A j \in JobIds :
         /\ stream[j] \in Updates => Truthful(stream[j], j)
         /\ publisher = <<"reads done", j>> => snapshot \in Updates /\ Begun(snapshot, j)
         /\ publisher = <<"reads more", j>> =>
              /\ snapshot \in Updates /\ Begun(snapshot, j)
              /\ snapshot.completed => done[j]
              /\ stream[j] \in Updates /\ stream[j].completed => snapshot.completed
         /\ publisher = <<"locks", j>> =>
              /\ snapshot \in Updates
              /\ Truthful(snapshot, j) /\ Succeeds(snapshot, j)

HubInv == HubTyped /\ KnownOnce /\ Reports

(* An update, a removal and no event at all are told apart. *)
LEMMA EventKinds ==
    /\ \A u \in Updates :
         /\ u.started \in BOOLEAN /\ u.completed \in BOOLEAN /\ u.data \in 0..MaxData
         /\ u # Gone /\ u # None
         /\ u = Update(u.started, u.completed, u.data)
    /\ Gone \notin Updates /\ None \notin Updates
    /\ Gone # None
    /\ \A b, d \in BOOLEAN, n \in 0..MaxData :
         /\ Update(b, d, n) \in Updates /\ Update(b, d, n).started = b
         /\ Update(b, d, n).completed = d /\ Update(b, d, n).data = n
<1>1. \A b, d \in BOOLEAN, n \in 0..MaxData :
        /\ Update(b, d, n) \in Updates /\ Update(b, d, n).started = b
        /\ Update(b, d, n).completed = d /\ Update(b, d, n).data = n
        /\ Update(b, d, n).kind = "status"
  BY SMT DEF Updates, Update
<1>2. \A u \in Updates :
        \E b, d \in BOOLEAN, n \in 0..MaxData : u = Update(b, d, n)
  BY SMT DEF Updates
<1>3. Gone.kind = "removed" /\ None.kind = "none"
  BY DEF Gone, None
<1>4. \A u \in Updates :
        /\ u.started \in BOOLEAN /\ u.completed \in BOOLEAN /\ u.data \in 0..MaxData
        /\ u.kind = "status" /\ u = Update(u.started, u.completed, u.data)
  <2> SUFFICES ASSUME NEW u \in Updates
               PROVE  /\ u.started \in BOOLEAN /\ u.completed \in BOOLEAN /\ u.data \in 0..MaxData
                      /\ u.kind = "status" /\ u = Update(u.started, u.completed, u.data)
    OBVIOUS
  <2>1. PICK b \in BOOLEAN, d \in BOOLEAN, n \in 0..MaxData : u = Update(b, d, n)
    BY <1>2
  <2>2. u.started = b /\ u.completed = d /\ u.data = n /\ u.kind = "status"
    BY <2>1, SMT DEF Update
  <2> QED BY <2>1, <2>2
<1>5. \A u \in Updates : u # Gone /\ u # None
  BY <1>3, <1>4
<1>6. Gone # None
  BY <1>3
<1> QED BY <1>1, <1>4, <1>5, <1>6, SMT

(* The fields of an update. *)
LEMMA UpdateFields ==
    ASSUME NEW b \in BOOLEAN, NEW d \in BOOLEAN, NEW n \in 0..MaxData
    PROVE  /\ Update(b, d, n) \in Updates /\ Update(b, d, n).started = b
           /\ Update(b, d, n).completed = d /\ Update(b, d, n).data = n
BY SMT DEF Updates, Update

(* What a further read makes of a snapshot. *)
LEMMA SnapshotEdits ==
    ASSUME NEW u \in Updates, NEW d \in BOOLEAN, NEW n \in 0..MaxData
    PROVE  /\ [u EXCEPT !.completed = d] = Update(u.started, d, u.data)
           /\ [u EXCEPT !.data = n] = Update(u.started, u.completed, n)
<1>1. PICK b \in BOOLEAN, c \in BOOLEAN, m \in 0..MaxData : u = Update(b, c, m)
  BY SMT DEF Updates
<1>2. u.started = b /\ u.completed = c /\ u.data = m
  BY <1>1, SMT DEF Update
<1>3. [u EXCEPT !.completed = d] = Update(b, d, m)
  BY <1>1, SMT DEF Update
<1>4. [u EXCEPT !.data = n] = Update(b, c, n)
  BY <1>1, SMT DEF Update
<1> QED BY <1>2, <1>3, <1>4

(* No job has been added. *)
LEMMA HubInit ==
    ASSUME MaxData \in Nat, JobHubInit
    PROVE  HubInv
<1>1. /\ started = [j \in JobIds |-> FALSE]
      /\ data = [j \in JobIds |-> 0] /\ done = [j \in JobIds |-> FALSE]
      /\ job = [j \in JobIds |-> "new"] /\ known = {} /\ publisher = <<"waits">>
      /\ stream = [j \in JobIds |-> None]
  BY DEF JobHubInit, Idle
<1>2. HubTyped /\ KnownOnce
  BY <1>1, EventKinds, SMT DEF HubTyped, KnownOnce
<1>3. Reports
  BY <1>1, EventKinds DEF Reports
<1> QED BY <1>2, <1>3 DEF HubInv

(* A job is added, changes, ends, or tells the hub: the stream and the snapshot
   stay, and what they say stays true. *)
LEMMA StatusReports ==
    ASSUME HubInv, NEW j \in JobIds,
           Add(j) \/ Start(j) \/ Change(j) \/ Finish(j) \/ Changed(j)
    PROVE  HubInv'
<1> USE DEF HubInv, HubTyped, publishing
<1>1. UNCHANGED <<publisher, snapshot, stream>>
  BY DEF Add, Start, Change, Finish, Changed
<1>2. CASE Add(j)
  BY <1>1, <1>2 DEF Add, KnownOnce, Reports, Truthful, Succeeds, Begun
<1>3. CASE Change(j)
  <2>1. /\ data' = [data EXCEPT ![j] = data[j] + 1] /\ data[j] < MaxData
        /\ job[j] = "runs" /\ job' = [job EXCEPT ![j] = "changed"]
        /\ UNCHANGED <<started, done, known>> /\ ~done[j]
    BY <1>3 DEF Change, KnownOnce
  <2>2. HubTyped' /\ KnownOnce'
    BY <1>1, <2>1, SMT DEF KnownOnce
  <2>3. \A k \in JobIds, u \in Updates : Truthful(u, k) => Truthful(u, k)'
    <3> SUFFICES ASSUME NEW k \in JobIds, NEW u \in Updates, Truthful(u, k)
                 PROVE  Truthful(u, k)'
      OBVIOUS
    <3>1. u.data \in 0..MaxData /\ data[k] \in 0..MaxData /\ data'[k] \in 0..MaxData
      BY <2>2, EventKinds
    <3>2. data'[k] >= data[k] /\ (done[k] => data'[k] = data[k]) /\ done'[k] = done[k]
      BY <2>1, SMT
    <3>3. (u.started => started'[k]) /\ u.data <= data'[k] /\ (u.completed => done'[k] /\ u.data = data'[k])
      BY <2>1, <3>1, <3>2, SMT DEF Truthful
    <3> QED BY <3>3 DEF Truthful
  <2> QED BY <1>1, <2>1, <2>2, <2>3 DEF Reports, Succeeds, Begun
<1>4. CASE Finish(j)
  BY <1>1, <1>4 DEF Finish, KnownOnce, Reports, Truthful, Succeeds, Begun
<1>5. CASE Changed(j)
  BY <1>1, <1>5 DEF Changed, Notified, KnownOnce, Reports, Truthful, Succeeds, Begun
<1>6. CASE Start(j)
  BY <1>1, <1>6 DEF Start, KnownOnce, Reports, Truthful, Succeeds, Begun
<1> QED BY <1>2, <1>3, <1>4, <1>5, <1>6

(* cleanup() removes a job: the stream says so, and says no more of it. *)
LEMMA RemoveReports ==
    ASSUME HubInv, NEW j \in JobIds, RemoveJob(j)
    PROVE  HubInv'
<1>1. /\ done[j] /\ known' = known \ {j} /\ stream' = [stream EXCEPT ![j] = Gone]
      /\ UNCHANGED <<started, data, done, job, publisher, snapshot>>
  BY DEF RemoveJob, status, publishing
<1>2. /\ stream' \in [JobIds -> Updates \cup {None, Gone}]
      /\ \A k \in JobIds : stream'[k] = IF k = j THEN Gone ELSE stream[k]
  BY <1>1 DEF HubInv, HubTyped
<1>3. \A k \in JobIds : stream'[k] \in Updates => stream'[k] = stream[k] /\ k # j
  <2>1. Gone \notin Updates
    BY EventKinds
  <2> QED BY <1>2, <2>1
<1>4. Reports'
  BY <1>1, <1>3 DEF HubInv, Reports, Truthful, Succeeds, Begun
<1>5. HubTyped' /\ KnownOnce'
  BY <1>1, <1>2, <1>3 DEF HubInv, HubTyped, KnownOnce
<1> QED BY <1>4, <1>5 DEF HubInv

(* snapshot() reads m_done before the rest: when it reads that, a job that had
   ended reports what it will always report. *)
LEMMA SnapshotReports ==
    ASSUME HubInv, NEW j \in JobIds, Snapshot(j)
    PROVE  HubInv'
<1>1. UNCHANGED <<started, data, done, job, known, stream>>
  BY DEF Snapshot, status
<1>2. HubTyped' /\ KnownOnce'
  BY <1>1 DEF HubInv, HubTyped, KnownOnce
<1>3. started[j] \in BOOLEAN /\ done[j] \in BOOLEAN /\ data[j] \in 0..MaxData /\ 0 \in 0..MaxData
  BY SMT DEF HubInv, HubTyped
<1>4. stream[j] \in Updates => Truthful(stream[j], j)
  BY DEF HubInv, Reports
<1>5. CASE publisher = <<"reads", j>>
  <2>1. publisher' = <<"reads done", j>> /\ snapshot' = Update(started[j], FALSE, 0)
    BY <1>5 DEF Snapshot
  <2>2. snapshot' \in Updates /\ snapshot'.started = started[j]
    BY <1>3, <2>1, EventKinds
  <2>3. Begun(snapshot, j)'
    BY <1>1, <1>4, <2>2 DEF Begun, Truthful
  <2>4. \A k \in JobIds : /\ publisher' # <<"reads more", k>> /\ publisher' # <<"locks", k>>
                          /\ publisher' = <<"reads done", k>> => k = j
    BY <2>1
  <2>5. Reports'
    BY <1>1, <2>2, <2>3, <2>4 DEF HubInv, Reports, Truthful
  <2> QED BY <1>2, <2>5 DEF HubInv
<1>6. CASE publisher = <<"reads done", j>>
  <2>1. publisher' = <<"reads more", j>> /\ snapshot' = [snapshot EXCEPT !.completed = done[j]]
    BY <1>6 DEF Snapshot
  <2>2. snapshot \in Updates /\ Begun(snapshot, j)
    BY <1>6 DEF HubInv, Reports
  <2>3. snapshot' = Update(snapshot.started, done[j], snapshot.data)
    BY <1>3, <2>1, <2>2, SnapshotEdits
  <2>4. /\ snapshot' \in Updates /\ snapshot'.completed = done[j]
        /\ snapshot'.started = snapshot.started
    <3>1. snapshot.started \in BOOLEAN /\ snapshot.data \in 0..MaxData
      BY <2>2, EventKinds
    <3> QED BY <1>3, <2>3, <3>1, UpdateFields, SMT
  <2>5. Begun(snapshot, j)' /\ (stream[j] \in Updates /\ stream[j].completed => done[j])
    BY <1>1, <1>4, <2>2, <2>4 DEF Begun, Truthful
  <2>6. \A k \in JobIds : /\ publisher' # <<"reads done", k>> /\ publisher' # <<"locks", k>>
                          /\ publisher' = <<"reads more", k>> => k = j
    BY <2>1
  <2>7. Reports'
    BY <1>1, <2>4, <2>5, <2>6 DEF HubInv, Reports, Truthful
  <2> QED BY <1>2, <2>7 DEF HubInv
<1>7. CASE publisher = <<"reads more", j>>
  <2>1. publisher' = <<"locks", j>> /\ snapshot' = [snapshot EXCEPT !.data = data[j]]
    BY <1>7 DEF Snapshot
  <2>2. /\ snapshot \in Updates /\ Begun(snapshot, j) /\ (snapshot.completed => done[j])
        /\ stream[j] \in Updates /\ stream[j].completed => snapshot.completed
    BY <1>7 DEF HubInv, Reports
  <2>3. snapshot' = Update(snapshot.started, snapshot.completed, data[j])
    BY <1>3, <2>1, <2>2, SnapshotEdits
  <2>4. /\ snapshot' \in Updates /\ snapshot'.completed = snapshot.completed
        /\ snapshot'.data = data[j] /\ snapshot'.started = snapshot.started
    <3>1. snapshot.started \in BOOLEAN /\ snapshot.completed \in BOOLEAN
      BY <2>2, EventKinds
    <3> QED BY <1>3, <2>3, <3>1, UpdateFields, SMT
  <2>5. data[j] <= data[j]
    BY <1>3, SMT
  <2>6. \A k \in JobIds : /\ publisher' # <<"reads done", k>> /\ publisher' # <<"reads more", k>>
                          /\ publisher' = <<"locks", k>> => k = j
    BY <2>1
  <2>7. Truthful(snapshot, j)' /\ Succeeds(snapshot, j)'
    BY <1>1, <1>4, <2>2, <2>4, <2>5 DEF Truthful, Succeeds, Begun
  <2>8. Reports'
    BY <1>1, <2>4, <2>6, <2>7 DEF HubInv, Reports, Truthful
  <2> QED BY <1>2, <2>8, SMT DEF HubInv
<1> QED BY <1>5, <1>6, <1>7 DEF Snapshot

(* The snapshot is published, of a job that is still known. *)
LEMMA PublishReports ==
    ASSUME HubInv, NEW j \in JobIds, PublishSnapshot(j)
    PROVE  HubInv'
<1>1. /\ publisher = <<"locks", j>> /\ publisher' = <<"picks">>
      /\ stream' = IF j \in known THEN [stream EXCEPT ![j] = snapshot] ELSE stream
      /\ UNCHANGED <<started, data, done, job, known>>
  BY DEF PublishSnapshot, status, Idle
<1>2. snapshot \in Updates /\ Truthful(snapshot, j)
  BY <1>1 DEF HubInv, Reports
<1>3. HubTyped' /\ KnownOnce'
  <2>1. snapshot # Gone
    BY <1>2, EventKinds
  <2>2. /\ stream' \in [JobIds -> Updates \cup {None, Gone}]
        /\ \A k \in JobIds : \/ stream'[k] = stream[k]
                              \/ (k = j /\ stream'[k] = snapshot /\ k \in known)
    BY <1>1, <1>2 DEF HubInv, HubTyped
  <2> QED BY <1>1, <2>1, <2>2 DEF HubInv, HubTyped, KnownOnce
<1>4. \A k \in JobIds : /\ publisher' # <<"reads done", k>> /\ publisher' # <<"reads more", k>>
                        /\ publisher' # <<"locks", k>>
  BY <1>1
<1>5. Reports'
  BY <1>1, <1>2, <1>4 DEF HubInv, HubTyped, Reports, Truthful
<1> QED BY <1>3, <1>5 DEF HubInv

(* The publisher gathers and picks: it holds no snapshot. *)
LEMMA PublisherReports ==
    ASSUME HubInv,
           \/ PublisherWakes \/ TakeDirty \/ BatchDone
           \/ \E j \in JobIds : PickJob(j)
           \/ UNCHANGED jobHubVars
    PROVE  HubInv'
<1>1. /\ UNCHANGED <<started, data, done, job, known, stream, snapshot>>
      /\ \/ publisher' = publisher
         \/ publisher' = <<"gathers">> \/ publisher' = <<"picks">> \/ publisher' = <<"waits">>
         \/ \E j \in JobIds : publisher' = <<"reads", j>>
  BY DEF PublisherWakes, TakeDirty, BatchDone, PickJob,
         jobHubVars, status, Idle
<1>2. HubTyped' /\ KnownOnce'
  BY <1>1 DEF HubInv, HubTyped, KnownOnce
<1>3. CASE publisher' = publisher
  BY <1>1, <1>2, <1>3 DEF HubInv, Reports, Truthful, Succeeds, Begun
<1>4. CASE publisher' # publisher
  <2>1. \A k \in JobIds : /\ publisher' # <<"reads done", k>> /\ publisher' # <<"reads more", k>>
                          /\ publisher' # <<"locks", k>>
    <3>1. CASE \E j \in JobIds : publisher' = <<"reads", j>>
      BY <3>1, SMT
    <3>2. CASE publisher' = <<"gathers">>
      BY <3>2
    <3>3. CASE publisher' = <<"picks">>
      BY <3>3
    <3>4. CASE publisher' = <<"waits">>
      BY <3>4
    <3> QED BY <1>1, <1>4, <3>1, <3>2, <3>3, <3>4
  <2> QED BY <1>1, <1>2, <2>1 DEF HubInv, Reports, Truthful
<1> QED BY <1>3, <1>4

(* What the hub knows holds in every reachable state. *)
THEOREM JobHubTheorem == JobHubSpec => []HubInv
<1>1. HubInv /\ [JobHubNext]_jobHubVars => HubInv'
  BY StatusReports, RemoveReports, SnapshotReports, PublishReports, PublisherReports
     DEF JobHubNext, Publisher
<1>2. JobHubInit => HubInv
  BY MaxDataAssumption, HubInit
<1> QED BY <1>1, <1>2, PTL DEF JobHubSpec

(* Only the publisher and cleanup() write to the stream. *)
LEMMA StreamWrites ==
    ASSUME HubInv, [JobHubNext]_jobHubVars, NEW j \in JobIds
    PROVE  \/ stream'[j] = stream[j]
           \/ stream'[j] = Gone
           \/ stream'[j] \in Updates /\ Succeeds(stream'[j], j) /\ j \in known
<1>1. CASE \E k \in JobIds : RemoveJob(k)
  BY <1>1 DEF HubInv, HubTyped, RemoveJob
<1>2. CASE \E k \in JobIds : PublishSnapshot(k)
  <2>1. PICK k \in JobIds : PublishSnapshot(k)
    BY <1>2
  <2>2. snapshot \in Updates /\ Succeeds(snapshot, k)
    BY <2>1 DEF HubInv, Reports, PublishSnapshot
  <2> QED BY <2>1, <2>2 DEF HubInv, HubTyped, PublishSnapshot
<1>3. CASE UNCHANGED stream
  BY <1>3
<1> QED BY <1>1, <1>2, <1>3
  DEF JobHubNext, jobHubVars, Publisher, Add, Start, Change, Finish,
      Changed, PublisherWakes, TakeDirty, BatchDone,
      PickJob, Snapshot

(* On the stream a job never reports less, never runs again after it completed,
   and is silent after its removal (JobEventHub::run and remove). *)
THEOREM JobsNeverGoBack == JobHubSpec => ReportsNeverGoBack
<1>1. HubInv /\ [JobHubNext]_jobHubVars =>
        \A j \in JobIds :
          /\ stream[j] = Gone => stream'[j] = Gone
          /\ stream[j] \in Updates /\ stream'[j] \in Updates =>
                /\ stream[j].data <= stream'[j].data
                /\ stream[j].started => stream'[j].started
                /\ stream[j].completed => stream'[j].completed
  <2> SUFFICES ASSUME HubInv, [JobHubNext]_jobHubVars, NEW j \in JobIds
               PROVE  /\ stream[j] = Gone => stream'[j] = Gone
                      /\ stream[j] \in Updates /\ stream'[j] \in Updates =>
                            /\ stream[j].data <= stream'[j].data
                            /\ stream[j].started => stream'[j].started
                            /\ stream[j].completed => stream'[j].completed
    OBVIOUS
  <2>1. CASE stream'[j] = stream[j]
    BY <2>1, EventKinds, SMT
  <2>2. CASE stream'[j] = Gone
    BY <2>2, EventKinds
  <2>3. CASE stream'[j] \in Updates /\ Succeeds(stream'[j], j) /\ j \in known
    BY <2>3 DEF HubInv, KnownOnce, Succeeds
  <2> QED BY <2>1, <2>2, <2>3, StreamWrites
<1> QED BY <1>1, JobHubTheorem, PTL DEF JobHubSpec, ReportsNeverGoBack

(* The stream tells the state of every job the hub knows, or a report of it is
   on its way. *)
DueInv ==
    /\ publisher = <<"waits">> \/ publisher = <<"gathers">> => batch = {}
    /\ \A j \in JobIds : job[j] # "new" => j \in known \/ stream[j] = Gone
    /\ \A j \in JobIds : j \in known => Due(j) \/ stream[j] = Update(started[j], done[j], data[j])

(* When the publisher waits, nothing is marked and no job is about to mark
   itself, the stream tells the state of every job the hub knows, and the
   removal of every other that was added. *)
QuietStreamIsCurrent ==
    publisher = Idle("waits") /\ dirty = {} /\ (\A j \in JobIds : job[j] # "changed") =>
        \A j \in JobIds : job[j] # "new" =>
            stream[j] = IF j \in known THEN Update(started[j], done[j], data[j]) ELSE Gone

(* A publisher that waits, gathers or picks is at no job. *)
LEMMA AtNoJob ==
    ASSUME NEW at, at = <<"waits">> \/ at = <<"gathers">> \/ at = <<"picks">>, NEW k
    PROVE  at # <<"reads", k>> /\ at # <<"reads done", k>> /\ at # <<"reads more", k>>
           /\ at # <<"locks", k>>
<1>1. /\ <<"waits">> # <<"reads", k>> /\ <<"waits">> # <<"reads done", k>>
      /\ <<"waits">> # <<"reads more", k>> /\ <<"waits">> # <<"locks", k>>
  OBVIOUS
<1>2. /\ <<"gathers">> # <<"reads", k>> /\ <<"gathers">> # <<"reads done", k>>
      /\ <<"gathers">> # <<"reads more", k>> /\ <<"gathers">> # <<"locks", k>>
  OBVIOUS
<1>3. /\ <<"picks">> # <<"reads", k>> /\ <<"picks">> # <<"reads done", k>>
      /\ <<"picks">> # <<"reads more", k>> /\ <<"picks">> # <<"locks", k>>
  OBVIOUS
<1> QED BY <1>1, <1>2, <1>3

(* A publisher that is at a job is at no other, and at one place of it. *)
Elsewhere(k) == /\ publisher # <<"reads", k>> /\ publisher # <<"reads done", k>>
                /\ publisher # <<"reads more", k>> /\ publisher # <<"locks", k>>

(* A job that changes marks itself; the hub forgets a mark only with the job. *)
LEMMA StatusDue ==
    ASSUME HubInv, DueInv, NEW j \in JobIds,
           Add(j) \/ Start(j) \/ Change(j) \/ Finish(j) \/ Changed(j) \/ RemoveJob(j)
    PROVE  DueInv'
<1>0. /\ job \in [JobIds -> {"new", "queued", "runs", "changed", "over"}]
      /\ data \in [JobIds -> 0..MaxData] /\ done \in [JobIds -> BOOLEAN]
      /\ started \in [JobIds -> BOOLEAN]
      /\ stream \in [JobIds -> Updates \cup {None, Gone}]
  BY DEF HubInv, HubTyped, Reports
<1>1. UNCHANGED <<batch, publisher, snapshot>>
  BY DEF Add, Start, Change, Finish, Changed, RemoveJob, publishing
<1>2. \A k \in JobIds \ {j} :
        /\ job'[k] = job[k] /\ data'[k] = data[k] /\ done'[k] = done[k]
        /\ started'[k] = started[k]
        /\ stream'[k] = stream[k]
        /\ k \in known' <=> k \in known
        /\ k \in dirty => k \in dirty'
  BY <1>0 DEF Add, Start, Change, Finish, Changed, RemoveJob, publishing, status, Notified
<1>3. \A k \in JobIds \ {j} : Due(k) => Due(k)'
  BY <1>1, <1>2 DEF Due
<1>4. j \in known' => Due(j)' \/ stream'[j] = Update(started'[j], done'[j], data'[j])
  <2>1. CASE Add(j)
    BY <2>1 DEF Add, Due
  <2>2. CASE Start(j) \/ Change(j) \/ Finish(j)
    BY <1>0, <2>2 DEF Start, Change, Finish, Due
  <2>3. CASE Changed(j)
    BY <2>3 DEF Changed, Due
  <2>4. CASE RemoveJob(j)
    BY <2>4 DEF RemoveJob
  <2> QED BY <2>1, <2>2, <2>3, <2>4
<1>5. job'[j] # "new" => j \in known' \/ stream'[j] = Gone
  <2>1. CASE Add(j)
    BY <2>1 DEF Add
  <2>2. CASE Start(j) \/ Change(j) \/ Finish(j) \/ Changed(j)
    BY <1>0, <2>2 DEF Start, Change, Finish, Changed, DueInv
  <2>3. CASE RemoveJob(j)
    BY <1>0, <2>3 DEF RemoveJob
  <2> QED BY <2>1, <2>2, <2>3
<1> QED BY <1>1, <1>2, <1>3, <1>4, <1>5 DEF DueInv

(* The publisher takes the marks over and reads every job it takes one of. *)
LEMMA PublisherDue ==
    ASSUME HubInv, DueInv, Publisher \/ UNCHANGED jobHubVars
    PROVE  DueInv'
<1>0. /\ stream \in [JobIds -> Updates \cup {None, Gone}]
      /\ \A k \in JobIds : started[k] \in BOOLEAN /\ done[k] \in BOOLEAN /\ data[k] \in 0..MaxData
  BY DEF HubInv, HubTyped
<1>1. CASE PublisherWakes \/ TakeDirty \/ BatchDone
  <2>1. /\ publisher = <<"waits">> \/ publisher = <<"gathers">> \/ publisher = <<"picks">>
        /\ dirty' \cup batch' = dirty \cup batch
        /\ UNCHANGED <<started, data, done, job, known, stream>>
    BY <1>1 DEF PublisherWakes, TakeDirty, BatchDone, status, Idle, DueInv
  <2>2. publisher' = <<"waits">> \/ publisher' = <<"gathers">> => batch' = {}
    <3>1. CASE PublisherWakes
      BY <3>1 DEF PublisherWakes, Idle, DueInv
    <3>2. CASE TakeDirty
      BY <3>2 DEF TakeDirty, Idle
    <3>3. CASE BatchDone
      BY <3>3 DEF BatchDone
    <3> QED BY <1>1, <3>1, <3>2, <3>3
  <2>3. \A k \in JobIds : Elsewhere(k)
    BY <2>1, AtNoJob DEF Elsewhere
  <2> QED BY <2>1, <2>2, <2>3 DEF DueInv, Due, Elsewhere
<1>2. ASSUME NEW j \in JobIds, PickJob(j) PROVE DueInv'
  <2>1. /\ publisher = <<"picks">> /\ batch' = batch \ {j}
        /\ publisher' = IF j \in known THEN <<"reads", j>> ELSE <<"picks">>
        /\ UNCHANGED <<started, data, done, job, known, dirty, stream>>
    BY <1>2 DEF PickJob, status, Idle
  <2>2. publisher' # <<"waits">> /\ publisher' # <<"gathers">>
    BY <2>1
  <2>3. \A k \in JobIds : Elsewhere(k)
    BY <2>1, AtNoJob DEF Elsewhere
  <2> QED BY <2>1, <2>2, <2>3 DEF DueInv, Due, Elsewhere
<1>3. ASSUME NEW j \in JobIds, Snapshot(j) PROVE DueInv'
  <2>1. UNCHANGED <<started, data, done, job, known, dirty, batch, stream>>
    BY <1>3 DEF Snapshot, status
  <2>2. CASE publisher = <<"reads", j>>
    <3>1. publisher' = <<"reads done", j>> /\ snapshot' = Update(started[j], FALSE, 0)
      BY <1>3, <2>2 DEF Snapshot
    <3>2. snapshot'.started = started[j]
      <4>1. 0 \in 0..MaxData /\ started[j] \in BOOLEAN
        BY <1>0, MaxDataAssumption, SMT
      <4>2. Update(started[j], FALSE, 0).started = started[j]
        BY <4>1, UpdateFields
      <4> QED BY <3>1, <4>2
    <3>3. publisher' # <<"waits">> /\ publisher' # <<"gathers">>
      BY <3>1
    <3>4. \A k \in JobIds \ {j} : Elsewhere(k)
      BY <2>2 DEF Elsewhere
    <3> QED BY <2>1, <3>1, <3>2, <3>3, <3>4 DEF DueInv, Due, Elsewhere
  <2>3. CASE publisher = <<"reads done", j>>
    <3>1. publisher' = <<"reads more", j>> /\ snapshot' = [snapshot EXCEPT !.completed = done[j]]
      BY <1>3, <2>3 DEF Snapshot
    <3>2. snapshot'.started = snapshot.started /\ snapshot'.completed = done[j]
      <4>1. snapshot \in Updates
        BY <2>3 DEF HubInv, Reports
      <4>2. snapshot' = Update(snapshot.started, done[j], snapshot.data)
        BY <1>0, <3>1, <4>1, SnapshotEdits
      <4>3. snapshot.started \in BOOLEAN /\ snapshot.data \in 0..MaxData
        BY <4>1, EventKinds
      <4> QED BY <1>0, <4>2, <4>3, UpdateFields, SMT
    <3>3. publisher' # <<"waits">> /\ publisher' # <<"gathers">>
      BY <3>1
    <3>4. /\ publisher # <<"reads", j>> /\ publisher # <<"reads more", j>> /\ publisher # <<"locks", j>>
          /\ \A k \in JobIds \ {j} : Elsewhere(k)
      BY <2>3 DEF Elsewhere
    <3> QED BY <2>1, <3>1, <3>2, <3>3, <3>4 DEF DueInv, Due, Elsewhere
  <2>4. CASE publisher = <<"reads more", j>>
    <3>1. publisher' = <<"locks", j>> /\ snapshot' = [snapshot EXCEPT !.data = data[j]]
      BY <1>3, <2>4 DEF Snapshot
    <3>2. snapshot.started = started[j] /\ snapshot.completed = done[j] =>
            snapshot' = Update(started[j], done[j], data[j])
      <4>1. snapshot \in Updates
        BY <2>4 DEF HubInv, Reports
      <4>2. snapshot' = Update(snapshot.started, snapshot.completed, data[j])
        BY <1>0, <3>1, <4>1, SnapshotEdits
      <4> QED BY <4>2, SMT
    <3>3. publisher' # <<"waits">> /\ publisher' # <<"gathers">>
      BY <3>1
    <3>4. /\ publisher # <<"reads", j>> /\ publisher # <<"reads done", j>> /\ publisher # <<"locks", j>>
          /\ \A k \in JobIds \ {j} : Elsewhere(k)
      BY <2>4 DEF Elsewhere
    <3> QED BY <2>1, <3>1, <3>2, <3>3, <3>4 DEF DueInv, Due, Elsewhere
  <2> QED BY <1>3, <2>2, <2>3, <2>4 DEF Snapshot
<1>4. ASSUME NEW j \in JobIds, PublishSnapshot(j) PROVE DueInv'
  <2>1. /\ publisher = <<"locks", j>> /\ publisher' = <<"picks">>
        /\ stream' = IF j \in known THEN [stream EXCEPT ![j] = snapshot] ELSE stream
        /\ UNCHANGED <<started, data, done, job, known, dirty, batch>>
    BY <1>4 DEF PublishSnapshot, status, Idle
  <2>2. stream[j] = Update(started[j], done[j], data[j]) => snapshot = Update(started[j], done[j], data[j])
    <3>1. snapshot \in Updates /\ Truthful(snapshot, j) /\ Succeeds(snapshot, j)
      BY <2>1 DEF HubInv, Reports
    <3> SUFFICES ASSUME stream[j] = Update(started[j], done[j], data[j])
                 PROVE  snapshot = Update(started[j], done[j], data[j])
      OBVIOUS
    <3>2. /\ stream[j] \in Updates /\ stream[j].data = data[j] /\ stream[j].completed = done[j]
          /\ stream[j].started = started[j] /\ snapshot.started \in BOOLEAN
          /\ snapshot.completed \in BOOLEAN /\ snapshot.data \in Nat /\ data[j] \in Nat
          /\ snapshot = Update(snapshot.started, snapshot.completed, snapshot.data)
      <4>1. /\ stream[j] \in Updates /\ stream[j].data = data[j] /\ stream[j].completed = done[j]
            /\ stream[j].started = started[j]
        BY <1>0, UpdateFields, SMT
      <4>2. /\ snapshot.started \in BOOLEAN /\ snapshot.completed \in BOOLEAN
            /\ snapshot.data \in 0..MaxData
            /\ snapshot = Update(snapshot.started, snapshot.completed, snapshot.data)
        BY <3>1, EventKinds
      <4>3. \A n \in 0..MaxData : n \in Nat
        BY MaxDataAssumption, SMT
      <4> QED BY <1>0, <4>1, <4>2, <4>3
    <3>3. /\ snapshot.data <= data[j] /\ data[j] <= snapshot.data
          /\ snapshot.completed <=> done[j]
          /\ snapshot.started <=> started[j]
      BY <3>1, <3>2 DEF Truthful, Succeeds
    <3>4. snapshot.data = data[j]
      BY <3>2, <3>3, SMT
    <3>5. snapshot.completed = done[j] /\ snapshot.started = started[j]
      BY <1>0, <3>2, <3>3
    <3> QED BY <3>2, <3>4, <3>5
  <2>3. publisher' # <<"waits">> /\ publisher' # <<"gathers">>
    BY <2>1
  <2>4. /\ publisher # <<"reads", j>> /\ publisher # <<"reads done", j>>
        /\ publisher # <<"reads more", j>> /\ \A k \in JobIds \ {j} : Elsewhere(k)
    BY <2>1 DEF Elsewhere
  <2>5. /\ \A k \in JobIds \ {j} : stream'[k] = stream[k]
        /\ stream'[j] = IF j \in known THEN snapshot ELSE stream[j]
    BY <1>0, <2>1
  <2> QED BY <2>1, <2>2, <2>3, <2>4, <2>5 DEF DueInv, Due, Elsewhere
<1>5. CASE UNCHANGED jobHubVars
  BY <1>5 DEF jobHubVars, DueInv, Due
<1> QED BY <1>1, <1>2, <1>3, <1>4, <1>5 DEF Publisher

(* What is not told yet is on its way in every reachable state. *)
LEMMA DueTheorem == JobHubSpec => []DueInv
<1>1. JobHubInit => DueInv
  BY DEF JobHubInit, DueInv, Idle
<1>2. HubInv /\ DueInv /\ [JobHubNext]_jobHubVars => DueInv'
  BY StatusDue, PublisherDue DEF JobHubNext
<1> QED BY <1>1, <1>2, JobHubTheorem, PTL DEF JobHubSpec

(* An event that says a job has completed carries everything it ever reported,
   and its start time unless a report that has it is due, for any number of jobs
   and changes (JobTaskStatus::snapshot). *)
THEOREM CompletionsAreFinal == JobHubSpec => []CompletedIsFinal
<1>1. HubInv /\ DueInv => CompletedIsFinal
  <2> SUFFICES ASSUME HubInv, DueInv, NEW j \in JobIds, stream[j] \in Updates, stream[j].completed
               PROVE  stream[j].data = data[j] /\ (stream[j].started \/ Due(j))
    BY DEF CompletedIsFinal
  <2>1. done[j] /\ stream[j].data = data[j] /\ started[j] /\ j \in known
    BY DEF HubInv, Reports, Truthful, KnownOnce
  <2>2. CASE stream[j] = Update(started[j], done[j], data[j])
    <3>1. started[j] \in BOOLEAN /\ done[j] \in BOOLEAN /\ data[j] \in 0..MaxData
      BY DEF HubInv, HubTyped
    <3>2. stream[j].started = started[j]
      BY <2>2, <3>1, UpdateFields, SMT
    <3> QED BY <2>1, <3>2
  <2>3. CASE Due(j)
    BY <2>1, <2>3
  <2> QED BY <2>1, <2>2, <2>3 DEF DueInv
<1> QED BY <1>1, JobHubTheorem, DueTheorem, PTL

(* No change of a job is forgotten, although jobs change while the publisher
   works through the marks it has taken (JobEventHub.cpp:74): this is the part of
   EveryChangePublished that no scheduling can make up for. *)
THEOREM NoChangeIsForgotten == JobHubSpec => []QuietStreamIsCurrent
<1>1. DueInv => QuietStreamIsCurrent
  <2> SUFFICES ASSUME DueInv, publisher = Idle("waits"), dirty = {},
                      \A j \in JobIds : job[j] # "changed",
                      NEW j \in JobIds, job[j] # "new"
               PROVE  stream[j] = IF j \in known THEN Update(started[j], done[j], data[j]) ELSE Gone
    BY DEF QuietStreamIsCurrent
  <2>1. publisher = <<"waits">>
    BY DEF Idle
  <2>2. Elsewhere(j)
    BY <2>1, AtNoJob DEF Elsewhere
  <2> QED BY <2>1, <2>2 DEF DueInv, Due, Elsewhere
<1> QED BY <1>1, DueTheorem, PTL

-----------------------------------------------------------------------------
(* The queue of one subscriber. *)

Kinds == {"update", "snapshot", "initial", "complete", "keepalive", "shutdown"}

Events == [kind : Kinds, entity : Entities \cup {NoEntity}, change : Nat]

(* How two events of one entity follow one another: its stored snapshot, what
   the events route read of it, and its update, which tells no earlier change
   than either. *)
Precedes(a, b) ==
    /\ a.kind # "update"
    /\ \/ b.kind = "update" /\ a.change <= b.change
       \/ a.kind = "snapshot" /\ b.kind = "initial"

(* The events of one entity are in order; there is one keepalive at most, and
   nothing follows the end of the stream. *)
Tidy(q) ==
    /\ q \in Seq(Events)
    /\ \A i \in 1..Len(q) : q[i].entity # NoEntity <=> q[i].kind \in {"update", "snapshot", "initial"}
    /\ \A i, k \in 1..Len(q) : i < k /\ q[i].entity = q[k].entity /\ q[i].entity # NoEntity =>
         Precedes(q[i], q[k])
    /\ \A i, k \in 1..Len(q) : q[i].kind = "keepalive" /\ q[k].kind = "keepalive" => i = k
    /\ \A i \in 1..Len(q) : q[i].kind = "shutdown" => i = Len(q)

(* i is where q speaks of e for the last time. *)
LastOf(q, e, i) == i \in About(q, e) /\ \A k \in About(q, e) : k <= i

(* Read to the end, q tells a reader who has been told old that e is at n. *)
Tells(q, e, old, n) ==
    IF About(q, e) = {} THEN old = n
    ELSE \E i \in 1..Len(q) : LastOf(q, e, i) /\ q[i].change = n

(* What q says of e lies between two changes, but what the route read may be
   older. *)
Between(q, e, low, high) ==
    \A i \in 1..Len(q) : q[i].entity = e =>
        (q[i].kind # "initial" => low <= q[i].change) /\ q[i].change <= high

(* An event and its fields. *)
LEMMA EventFields ==
    /\ \A k \in Kinds, e \in Entities \cup {NoEntity}, n \in Nat :
         /\ Event(k, e, n) \in Events
         /\ Event(k, e, n).kind = k /\ Event(k, e, n).entity = e /\ Event(k, e, n).change = n
    /\ \A v \in Events :
         v.kind \in Kinds /\ v.entity \in Entities \cup {NoEntity} /\ v.change \in Nat
BY DEF Event, Events

(* The last event of an entity is the one that View looks at. *)
LEMMA LastIsMax ==
    ASSUME NEW q \in Seq(Events), NEW e, NEW i, LastOf(q, e, i)
    PROVE  Max(About(q, e)) = i
<1>1. About(q, e) \subseteq Nat
  BY SMT DEF About
<1>2. i \in About(q, e) /\ \A k \in About(q, e) : i >= k
  BY <1>1 DEF LastOf
<1>3. \A k \in About(q, e) : (\A m \in About(q, e) : k >= m) => k = i
  BY <1>1, <1>2, SMT
<1> QED BY <1>2, <1>3 DEF Max

(* Nothing follows an update of the same entity. *)
LEMMA UpdateIsLast ==
    ASSUME NEW q, Tidy(q), NEW i \in 1..Len(q), q[i].kind = "update"
    PROVE  LastOf(q, q[i].entity, i)
<1>1. q[i].entity # NoEntity /\ DOMAIN q = 1..Len(q) /\ Len(q) \in Nat
  BY SMT DEF Tidy
<1>2. \A k \in About(q, q[i].entity) : ~(i < k)
  BY <1>1 DEF Tidy, About, Precedes
<1> QED BY <1>1, <1>2, SMT DEF LastOf, About

(* An update goes to the end of a queue, or into the place of an older one. *)
LEMMA CoalescedAt ==
    ASSUME NEW q, Tidy(q), NEW e \in Entities, NEW n \in Nat
    PROVE  \/ /\ \A i \in 1..Len(q) : q[i].kind = "update" => q[i].entity # e
              /\ Coalesced(q, Event("update", e, n)) = Append(q, Event("update", e, n))
           \/ \E i \in 1..Len(q) :
                /\ q[i].kind = "update" /\ q[i].entity = e
                /\ Coalesced(q, Event("update", e, n)) = [q EXCEPT ![i] = Event("update", e, n)]
<1> DEFINE event == Event("update", e, n)
           same == {i \in DOMAIN q : q[i].kind = "update" /\ q[i].entity = event.entity}
<1>1. DOMAIN q = 1..Len(q)
  BY SMT DEF Tidy
<1>2. event.entity = e
  BY DEF Event
<1>3. Coalesced(q, event) = IF same = {} THEN Append(q, event)
                            ELSE [q EXCEPT ![CHOOSE i \in same : TRUE] = event]
  BY DEF Coalesced
<1>4. CASE same = {}
  BY <1>1, <1>2, <1>3, <1>4
<1>5. CASE same # {}
  <2>1. PICK i \in same : i = CHOOSE k \in same : TRUE
    BY <1>5
  <2>2. i \in 1..Len(q) /\ q[i].kind = "update" /\ q[i].entity = e
    BY <1>1, <1>2
  <2>3. Coalesced(q, event) = [q EXCEPT ![i] = event]
    BY <1>3, <1>5, <2>1
  <2> QED BY <2>2, <2>3
<1> QED BY <1>4, <1>5

(* Replaced or appended, the update is the last of its entity, and what is
   said of the others stays where it was. *)
LEMMA CoalescedTells ==
    ASSUME NEW q, Tidy(q), NEW e \in Entities, NEW n \in Nat,
           \A i \in 1..Len(q) : q[i].kind # "shutdown",
           NEW low \in Nat, Between(q, e, low, n), low <= n
    PROVE  LET p == Coalesced(q, Event("update", e, n))
           IN /\ Tidy(p)
              /\ \A old : Tells(p, e, old, n)
              /\ Between(p, e, low, n)
              /\ \A i \in 1..Len(p) : p[i].kind # "shutdown"
              /\ \A f \in Entities \ {e} : \A old, m : Tells(q, f, old, m) => Tells(p, f, old, m)
              /\ \A f \in Entities \ {e} : \A l, h : Between(q, f, l, h) => Between(p, f, l, h)
<1> DEFINE event == Event("update", e, n)
           p == Coalesced(q, event)
<1>1. /\ event \in Events /\ event.kind = "update" /\ event.entity = e /\ event.change = n
      /\ e # NoEntity
  BY EventFields, HubAssumption, SMT DEF Kinds
<1>2. q \in Seq(Events) /\ Len(q) \in Nat
  BY SMT DEF Tidy
<1>3. PICK at \in 1..Len(q)+1 :
        /\ p \in Seq(Events) /\ at \in 1..Len(p) /\ Len(p) >= Len(q) /\ p[at] = event
        /\ \A i \in 1..Len(p) : i # at => i \in 1..Len(q) /\ p[i] = q[i]
        /\ at \in 1..Len(q) => q[at].kind = "update" /\ q[at].entity = e
        /\ at = Len(q) + 1 => \A i \in 1..Len(q) : q[i].kind = "update" => q[i].entity # e
        /\ at = Len(q) + 1 => Len(p) = Len(q) + 1
        /\ at \in 1..Len(q) => Len(p) = Len(q)
  <2>1. CASE /\ \A i \in 1..Len(q) : q[i].kind = "update" => q[i].entity # e
             /\ p = Append(q, event)
    <3>1. /\ p \in Seq(Events) /\ Len(p) = Len(q) + 1 /\ p[Len(q) + 1] = event
          /\ \A i \in 1..Len(q) : p[i] = q[i]
      BY <1>1, <1>2, <2>1, SMTT(30)
    <3> HIDE DEF p, event
    <3> QED BY <1>2, <2>1, <3>1, SMT
  <2>2. CASE \E i \in 1..Len(q) : /\ q[i].kind = "update" /\ q[i].entity = e
                                  /\ p = [q EXCEPT ![i] = event]
    <3>1. PICK at \in 1..Len(q) : /\ q[at].kind = "update" /\ q[at].entity = e
                                  /\ p = [q EXCEPT ![at] = event]
      BY <2>2
    <3>2. /\ p \in Seq(Events) /\ Len(p) = Len(q) /\ p[at] = event
          /\ \A i \in 1..Len(q) : i # at => p[i] = q[i]
      BY <1>1, <1>2, <3>1, SMT
    <3>3. at \in 1..Len(q)+1 /\ at # Len(q) + 1 /\ Len(q) >= Len(q)
      BY <1>2, SMT
    <3> HIDE DEF p, event
    <3> QED BY <3>1, <3>2, <3>3
  <2> QED BY <2>1, <2>2, CoalescedAt, SMT
<1> HIDE DEF p, event
<1>4. DOMAIN p = 1..Len(p) /\ DOMAIN q = 1..Len(q) /\ Len(p) \in Nat
  BY <1>2, <1>3, SMT
<1>5. \A i \in 1..Len(p) : i # at => q[i].kind \in Kinds /\ q[i].change \in Nat
  BY <1>2, <1>3, EventFields, SMT
<1>6. \A i \in 1..Len(q) : q[i].entity = e => i <= at
  <2> SUFFICES ASSUME NEW i \in 1..Len(q), q[i].entity = e, at < i PROVE FALSE
    BY <1>2, SMT
  <2>1. at \in 1..Len(q) /\ q[at].kind = "update" /\ q[at].entity = e
    BY <1>2, <1>3, SMT
  <2> QED BY <1>1, <2>1 DEF Tidy, Precedes
<1>7. Tidy(p)
  <2>1. \A i \in 1..Len(p) : p[i].entity # NoEntity <=> p[i].kind \in {"update", "snapshot", "initial"}
    BY <1>1, <1>3, SMT DEF Tidy
  <2>2. ASSUME NEW i \in 1..Len(p), NEW k \in 1..Len(p), i < k,
               p[i].entity = p[k].entity, p[i].entity # NoEntity
        PROVE  Precedes(p[i], p[k])
    <3>1. CASE i = at
      <4>1. k # at /\ k \in 1..Len(q) /\ q[k].entity = e
        BY <1>1, <1>3, <2>2, <3>1, SMT
      <4> QED BY <1>6, <2>2, <3>1, <4>1, SMT
    <3>2. CASE k = at
      <4>1. i \in 1..Len(q) /\ p[i] = q[i] /\ q[i].entity = e
        BY <1>1, <1>3, <2>2, <3>2, SMT
      <4>2. q[i].kind \in {"update", "snapshot", "initial"} /\ q[i].change <= n /\ q[i].change \in Nat
        <5>1. q[i].kind \in {"update", "snapshot", "initial"}
          BY <1>1, <4>1 DEF Tidy
        <5>2. q[i].change <= n
          BY <4>1 DEF Between
        <5>3. q[i] \in Events
          BY <1>2, <4>1, SMT
        <5> QED BY <5>1, <5>2, <5>3, EventFields
      <4>3. q[i].kind # "update"
        <5>1. CASE at = Len(q) + 1
          BY <1>3, <4>1, <5>1
        <5>2. CASE at \in 1..Len(q)
          <6>1. q[at].entity = e /\ i < at
            BY <1>3, <2>2, <3>2, <5>2
          <6> QED BY <1>1, <4>1, <5>2, <6>1 DEF Tidy, Precedes
        <5> QED BY <1>2, <5>1, <5>2, SMT
      <4>4. p[k].kind = "update" /\ p[i].change <= p[k].change /\ p[i].kind # "update"
        BY <1>1, <1>3, <3>2, <4>1, <4>2, <4>3
      <4> QED BY <4>4 DEF Precedes
    <3>3. CASE i # at /\ k # at
      BY <1>3, <2>2, <3>3, SMT DEF Tidy
    <3> QED BY <3>1, <3>2, <3>3
  <2>3. \A i, k \in 1..Len(p) : p[i].kind = "keepalive" /\ p[k].kind = "keepalive" => i = k
    BY <1>1, <1>3, SMT DEF Tidy
  <2>4. \A i \in 1..Len(p) : p[i].kind # "shutdown"
    BY <1>1, <1>3
  <2> QED BY <1>3, <2>1, <2>2, <2>3, <2>4 DEF Tidy
<1>8. LastOf(p, e, at)
  <2>1. at \in About(p, e)
    BY <1>1, <1>3, <1>4 DEF About
  <2>2. \A k \in About(p, e) : k # at => k \in 1..Len(q) /\ q[k].entity = e
    BY <1>3, <1>4 DEF About
  <2>3. at <= at
    BY <1>2, SMT
  <2> QED BY <1>6, <2>1, <2>2, <2>3 DEF LastOf
<1>9. \A old : Tells(p, e, old, n)
  BY <1>1, <1>3, <1>8 DEF Tells, LastOf
<1>10. Between(p, e, low, n)
  BY <1>1, <1>2, <1>3, <1>5, SMT DEF Between
<1>11. \A i \in 1..Len(p) : p[i].kind # "shutdown"
  BY <1>1, <1>3, SMT
<1>12. \A f \in Entities \ {e} : About(p, f) = About(q, f)
  <2> SUFFICES ASSUME NEW f \in Entities \ {e}
               PROVE  \A i : i \in About(p, f) <=> i \in About(q, f)
    OBVIOUS
  <2>1. \A i \in About(p, f) : i # at /\ i \in 1..Len(q) /\ q[i].entity = f
    BY <1>1, <1>3, <1>4 DEF About
  <2>2. \A i \in About(q, f) : i # at /\ i \in 1..Len(p)
    <3>1. \A i \in About(q, f) : i \in 1..Len(q) /\ q[i].entity = f
      BY <1>4 DEF About
    <3>2. Len(p) >= Len(q)
      BY <1>3
    <3>3. \A i \in 1..Len(q) : i \in 1..Len(p)
      BY <1>2, <1>4, <3>2, SMT
    <3> QED BY <1>3, <3>1, <3>3
  <2>3. \A i \in About(q, f) : p[i].entity = f
    BY <1>3, <1>4, <2>2 DEF About
  <2> QED BY <1>4, <2>1, <2>2, <2>3 DEF About
<1>13. \A f \in Entities \ {e} : \A i \in About(q, f) : i # at /\ i \in 1..Len(p) /\ p[i] = q[i]
  BY <1>1, <1>2, <1>3, <1>4, <1>12 DEF About
<1>14. \A f \in Entities \ {e} : \A old, m : Tells(q, f, old, m) => Tells(p, f, old, m)
  BY <1>12, <1>13 DEF Tells, LastOf
<1>15. \A f \in Entities \ {e} : \A l, h : Between(q, f, l, h) => Between(p, f, l, h)
  BY <1>1, <1>3 DEF Between
<1> QED BY <1>7, <1>9, <1>10, <1>11, <1>14, <1>15 DEF p, event

(* The first event is read: the reader has been told what it says. *)
LEMMA TailTells ==
    ASSUME NEW q, Tidy(q), q # <<>>
    PROVE  /\ Tidy(Tail(q)) /\ Head(q) \in Events
           /\ (\A i \in 1..Len(q) : q[i].kind # "shutdown") =>
                \A i \in 1..Len(Tail(q)) : Tail(q)[i].kind # "shutdown"
           /\ \A e \in Entities \ {Head(q).entity} : \A old, n :
                Tells(q, e, old, n) => Tells(Tail(q), e, old, n)
           /\ \A e \in Entities \ {Head(q).entity} : \A l, h :
                Between(q, e, l, h) => Between(Tail(q), e, l, h)
           /\ Head(q).entity # NoEntity => \A old, n :
                Tells(q, Head(q).entity, old, n) =>
                    Tells(Tail(q), Head(q).entity, Head(q).change, n)
           /\ Head(q).entity # NoEntity => \A l, h :
                Between(q, Head(q).entity, l, h) =>
                    /\ Between(Tail(q), Head(q).entity, Head(q).change, h)
                    /\ Head(q).kind # "initial" => l <= Head(q).change
                    /\ Head(q).change <= h
<1> DEFINE p == Tail(q)
<1>1. q \in Seq(Events)
  BY DEF Tidy
<1>2. PICK m \in Nat : Len(q) = m + 1
  <2>1. Len(q) \in Nat /\ Len(q) # 0
    BY <1>1, SMT
  <2>2. Len(q) - 1 \in Nat /\ Len(q) = (Len(q) - 1) + 1
    BY <2>1, SMT
  <2> QED BY <2>2
<1>3. Head(q) = q[1] /\ q[1] \in Events /\ 1 \in 1..Len(q)
  BY <1>1, <1>2, SMT
<1>4. /\ p \in Seq(Events) /\ Len(p) = m
      /\ \A i \in 1..m : p[i] = q[i + 1]
  BY <1>1, <1>2, SMT
<1>5. DOMAIN q = 1..(m + 1) /\ DOMAIN p = 1..m
  BY <1>1, <1>2, <1>4, SMT
<1> HIDE DEF p
<1>6. \A i \in 1..m : i + 1 \in 1..Len(q) /\ i + 1 # 1
  BY <1>2, SMT
<1>7. Tidy(p)
  <2>1. \A i \in 1..m : p[i].entity # NoEntity <=> p[i].kind \in {"update", "snapshot", "initial"}
    BY <1>4, <1>6, SMT DEF Tidy
  <2>2. ASSUME NEW i \in 1..m, NEW k \in 1..m, i < k,
               p[i].entity = p[k].entity, p[i].entity # NoEntity
        PROVE  Precedes(p[i], p[k])
    <3>1. /\ i + 1 \in 1..Len(q) /\ k + 1 \in 1..Len(q) /\ i + 1 < k + 1
          /\ p[i] = q[i + 1] /\ p[k] = q[k + 1]
      BY <1>4, <1>6, <2>2, SMT
    <3> QED BY <2>2, <3>1 DEF Tidy
  <2>3. ASSUME NEW i \in 1..m, NEW k \in 1..m, p[i].kind = "keepalive", p[k].kind = "keepalive"
        PROVE  i = k
    <3>1. /\ i + 1 \in 1..Len(q) /\ k + 1 \in 1..Len(q)
          /\ p[i] = q[i + 1] /\ p[k] = q[k + 1]
      BY <1>4, <1>6
    <3>2. i + 1 = k + 1
      BY <2>3, <3>1 DEF Tidy
    <3> QED BY <3>2, SMT
  <2>4. ASSUME NEW i \in 1..m, p[i].kind = "shutdown"
        PROVE  i = m
    <3>1. i + 1 = Len(q)
      BY <1>4, <1>6, <2>4 DEF Tidy
    <3> QED BY <1>2, <3>1, SMT
  <2> QED BY <1>4, <2>1, <2>2, <2>3, <2>4 DEF Tidy
<1>8. (\A i \in 1..Len(q) : q[i].kind # "shutdown") => \A i \in 1..Len(p) : p[i].kind # "shutdown"
  BY <1>4, <1>6
<1>9. \A e : \A i \in About(p, e) : i \in 1..m /\ i + 1 \in About(q, e)
  BY <1>2, <1>4, <1>5, <1>6 DEF About
<1>10. \A e : \A i \in About(q, e) : i # 1 => i - 1 \in About(p, e) /\ i - 1 \in 1..m
  <2> SUFFICES ASSUME NEW e, NEW i \in About(q, e), i # 1
               PROVE  i - 1 \in About(p, e) /\ i - 1 \in 1..m
    OBVIOUS
  <2>1. i \in 1..(m + 1) /\ q[i].entity = e
    BY <1>5 DEF About
  <2>2. i - 1 \in 1..m /\ (i - 1) + 1 = i
    BY <2>1, SMT
  <2>3. p[i - 1] = q[i]
    BY <1>4, <2>2
  <2> QED BY <1>5, <2>1, <2>2, <2>3 DEF About
<1>11. ASSUME NEW e, NEW old, NEW n, NEW new, Tells(q, e, old, n),
              q[1].entity # e => new = old, q[1].entity = e => new = q[1].change
       PROVE  Tells(p, e, new, n)
  <2>1. CASE About(q, e) = {}
    <3>1. About(p, e) = {} /\ q[1].entity # e
      BY <1>2, <1>3, <1>5, <1>9, <2>1 DEF About
    <3> QED BY <1>11, <2>1, <3>1 DEF Tells
  <2>2. CASE About(q, e) # {}
    <3>1. PICK i \in 1..Len(q) : LastOf(q, e, i) /\ q[i].change = n
      BY <1>11, <2>2 DEF Tells
    <3>2. CASE i = 1
      <4>1. About(p, e) = {}
        <5> SUFFICES ASSUME NEW k \in About(p, e) PROVE FALSE
          OBVIOUS
        <5>1. k \in 1..m /\ k + 1 <= 1
          BY <1>9, <3>1, <3>2 DEF LastOf
        <5> QED BY <5>1, SMT
      <4>2. q[1].entity = e
        BY <3>1, <3>2 DEF LastOf, About
      <4> QED BY <1>11, <3>1, <3>2, <4>1, <4>2 DEF Tells
    <3>3. CASE i # 1
      <4>1. i \in About(q, e) /\ i - 1 \in About(p, e) /\ i - 1 \in 1..m
        BY <1>10, <3>1, <3>3 DEF LastOf
      <4>2. \A k \in About(p, e) : k <= i - 1
        <5> SUFFICES ASSUME NEW k \in About(p, e) PROVE k <= i - 1
          OBVIOUS
        <5>1. k \in 1..m /\ k + 1 <= i
          BY <1>9, <3>1 DEF LastOf
        <5> QED BY <5>1, SMT
      <4>3. p[i - 1] = q[i]
        <5>1. (i - 1) + 1 = i
          BY SMT
        <5> QED BY <1>4, <4>1, <5>1
      <4>4. LastOf(p, e, i - 1) /\ p[i - 1].change = n
        BY <3>1, <4>1, <4>2, <4>3 DEF LastOf
      <4> QED BY <1>4, <4>1, <4>4 DEF Tells
    <3> QED BY <3>2, <3>3
  <2> QED BY <2>1, <2>2
<1>12. \A e, l, h : Between(q, e, l, h) => Between(p, e, l, h)
  BY <1>4, <1>6 DEF Between
<1>13. ASSUME q[1].entity # NoEntity, NEW l, NEW h, Between(q, q[1].entity, l, h)
       PROVE  /\ Between(p, q[1].entity, q[1].change, h)
              /\ q[1].kind # "initial" => l <= q[1].change
              /\ q[1].change <= h
  <2>1. \A i \in 1..m : p[i].entity = q[1].entity /\ p[i].kind # "initial" =>
                           q[1].change <= p[i].change
    <3> SUFFICES ASSUME NEW i \in 1..m, p[i].entity = q[1].entity, p[i].kind # "initial"
                 PROVE  q[1].change <= p[i].change
      OBVIOUS
    <3>1. 1 < i + 1 /\ i + 1 \in 1..Len(q) /\ p[i] = q[i + 1]
      BY <1>2, <1>4, SMT
    <3> QED BY <1>3, <1>13, <3>1 DEF Tidy, Precedes
  <2> QED BY <1>3, <1>4, <1>12, <1>13, <2>1 DEF Between
<1> QED BY <1>3, <1>7, <1>8, <1>11, <1>12, <1>13 DEF p

(* A keepalive or the end of the stream alone in a queue. *)
LEMMA LoneEvent ==
    ASSUME NEW kind \in {"keepalive", "shutdown"}, NEW n \in Nat
    PROVE  LET p == <<Event(kind, NoEntity, n)>>
           IN /\ Tidy(p) /\ Len(p) = 1 /\ p[1].kind = kind
              /\ \A e \in Entities : \A old : Tells(p, e, old, old)
              /\ \A e \in Entities : \A l, h : Between(p, e, l, h)
<1> DEFINE event == Event(kind, NoEntity, n)
           p == <<event>>
<1>1. event \in Events /\ event.kind = kind /\ event.entity = NoEntity
  BY EventFields, SMT DEF Kinds
<1> HIDE DEF event
<1>2. p \in Seq(Events) /\ Len(p) = 1 /\ p[1] = event /\ DOMAIN p = 1..1
  BY <1>1, SMT
<1> HIDE DEF p
<1>3. \A i \in 1..Len(p) : i = 1
  BY <1>2, SMT
<1>4. Tidy(p)
  BY <1>1, <1>2, <1>3 DEF Tidy
<1>5. \A e \in Entities : About(p, e) = {}
  BY <1>1, <1>2, <1>3, HubAssumption DEF About
<1>6. \A e \in Entities : \A l, h : Between(p, e, l, h)
  BY <1>1, <1>2, <1>3, HubAssumption DEF Between
<1> QED BY <1>1, <1>2, <1>4, <1>5, <1>6 DEF Tells, p, event

(* The end of the stream is put behind what is pending. *)
LEMMA EndTells ==
    ASSUME NEW q, Tidy(q), \A i \in 1..Len(q) : q[i].kind # "shutdown", NEW n \in Nat
    PROVE  LET p == Append(q, Event("shutdown", NoEntity, n))
           IN /\ Tidy(p)
              /\ \A e \in Entities : \A l, h : Between(q, e, l, h) => Between(p, e, l, h)
<1> DEFINE event == Event("shutdown", NoEntity, n)
           p == Append(q, event)
<1>1. event \in Events /\ event.kind = "shutdown" /\ event.entity = NoEntity
  BY EventFields, SMT DEF Kinds
<1> HIDE DEF event
<1>2. q \in Seq(Events)
  BY DEF Tidy
<1>3. PICK m \in Nat : m = Len(q)
  BY <1>2, SMT
<1>4. /\ p \in Seq(Events) /\ Len(p) = m + 1 /\ p[m + 1] = event
      /\ \A i \in 1..m : p[i] = q[i]
  BY <1>1, <1>2, <1>3, SMT
<1> HIDE DEF p
<1>5. \A i \in 1..Len(p) : i = m + 1 \/ (i \in 1..Len(q) /\ p[i] = q[i])
  <2>1. \A i \in 1..Len(p) : i = m + 1 \/ i \in 1..m
    BY <1>4, SMT
  <2> QED BY <1>3, <1>4, <2>1
<1>6. \A i \in 1..Len(p) : p[i].entity # NoEntity <=> p[i].kind \in {"update", "snapshot", "initial"}
  BY <1>1, <1>4, <1>5, SMT DEF Tidy
<1>7. ASSUME NEW i \in 1..Len(p), NEW k \in 1..Len(p), i < k,
             p[i].entity = p[k].entity, p[i].entity # NoEntity
      PROVE  Precedes(p[i], p[k])
  <2>1. i # m + 1 /\ k # m + 1
    BY <1>1, <1>4, <1>7
  <2>2. i \in 1..Len(q) /\ p[i] = q[i] /\ k \in 1..Len(q) /\ p[k] = q[k]
    BY <1>5, <2>1
  <2> QED BY <1>7, <2>2 DEF Tidy
<1>8. ASSUME NEW i \in 1..Len(p), NEW k \in 1..Len(p),
             p[i].kind = "keepalive", p[k].kind = "keepalive"
      PROVE  i = k
  <2>1. i # m + 1 /\ k # m + 1
    BY <1>1, <1>4, <1>8
  <2>2. i \in 1..Len(q) /\ p[i] = q[i] /\ k \in 1..Len(q) /\ p[k] = q[k]
    BY <1>5, <2>1, SMT
  <2> QED BY <1>8, <2>2 DEF Tidy
<1>9. \A i \in 1..Len(p) : p[i].kind = "shutdown" => i = Len(p)
  BY <1>4, <1>5
<1>10. Tidy(p)
  BY <1>4, <1>6, <1>7, <1>8, <1>9 DEF Tidy
<1>11. \A e \in Entities : \A l, h : Between(q, e, l, h) => Between(p, e, l, h)
  BY <1>1, <1>4, <1>5, HubAssumption DEF Between
<1> QED BY <1>10, <1>11 DEF p, event

(* A new subscriber's queue: the stored snapshots of what it follows, once
   each, what the events route read, once each, and the marker. *)
LEMMA SnapshotsTell ==
    ASSUME NEW S \in SUBSET Entities, NEW D \in SUBSET Entities,
           snapshots \in [Entities -> Nat], sequence \in Nat,
           NEW s, \A e \in D : initial[s][e] \in Nat,
           NEW stored \in Orders(S), NEW read \in Orders(D)
    PROVE  LET p == Append([i \in DOMAIN stored |-> SnapshotEvent(stored[i])]
                             \o [i \in DOMAIN read |-> InitialEvent(s, read[i])],
                           Event("complete", NoEntity, sequence))
           IN /\ Tidy(p)
              /\ \A i \in 1..Len(p) : p[i].kind # "shutdown"
              /\ \A e \in S \ D : \A old : Tells(p, e, old, snapshots[e])
              /\ \A e \in Entities : \A high \in Nat :
                   snapshots[e] <= high /\ (e \in D => initial[s][e] <= high) =>
                       Between(p, e, 0, high)
<1> DEFINE q == [i \in DOMAIN stored |-> SnapshotEvent(stored[i])]
           r == [i \in DOMAIN read |-> InitialEvent(s, read[i])]
           event == Event("complete", NoEntity, sequence)
           p == Append(q \o r, event)
<1>1. event \in Events /\ event.kind = "complete" /\ event.entity = NoEntity
  BY EventFields, SMT DEF Kinds
<1>2. PICK m \in Nat, n \in Nat : m = Cardinality(S) /\ n = Cardinality(D)
  BY FS_Subset, FS_CardinalityType, HubAssumption
<1>3. /\ stored \in [1..m -> S]
      /\ \A i, k \in 1..m : stored[i] = stored[k] => i = k
      /\ \A e \in S : \E i \in 1..m : stored[i] = e
  BY <1>2 DEF Orders, Bijection, Injection, Surjection, IsInjective
<1>4. /\ read \in [1..n -> D]
      /\ \A i, k \in 1..n : read[i] = read[k] => i = k
  BY <1>2 DEF Orders, Bijection, Injection, Surjection, IsInjective
<1>5. \A e \in Entities : /\ SnapshotEvent(e) \in Events /\ SnapshotEvent(e).kind = "snapshot"
                          /\ SnapshotEvent(e).entity = e /\ SnapshotEvent(e).change = snapshots[e]
  BY EventFields, SMT DEF SnapshotEvent, Kinds
<1>6. \A e \in D : /\ InitialEvent(s, e) \in Events /\ InitialEvent(s, e).kind = "initial"
                   /\ InitialEvent(s, e).entity = e /\ InitialEvent(s, e).change = initial[s][e]
  BY EventFields, SMT DEF InitialEvent, Kinds
<1>7. q \in Seq(Events) /\ Len(q) = m /\ \A i \in 1..m : q[i] = SnapshotEvent(stored[i])
  <2>1. q \in [1..m -> Events]
    BY <1>3, <1>5
  <2> QED BY <1>3, <2>1, SMT
<1>8. r \in Seq(Events) /\ Len(r) = n /\ \A i \in 1..n : r[i] = InitialEvent(s, read[i])
  <2>1. r \in [1..n -> Events]
    BY <1>4, <1>6
  <2> QED BY <1>4, <2>1, SMT
<1> HIDE DEF q, r, event
<1>9. /\ q \o r \in Seq(Events) /\ Len(q \o r) = m + n
      /\ \A i \in 1..m : (q \o r)[i] = q[i]
      /\ \A i \in 1..n : (q \o r)[m + i] = r[i]
  <2>0. q \in Seq(Events) /\ r \in Seq(Events)
    BY <1>7, <1>8
  <2>1. q \o r \in Seq(Events) /\ Len(q \o r) = m + n
    <3>1. q \o r \in Seq(Events)
      BY <2>0, SMT
    <3>2. Len(q \o r) = Len(q) + Len(r)
      BY <2>0, SMT
    <3> QED BY <1>7, <1>8, <3>1, <3>2
  <2>2. \A i \in 1..m : (q \o r)[i] = q[i]
    BY <1>7, <1>8, SMT
  <2>3. \A i \in 1..n : (q \o r)[m + i] = r[i]
    BY <1>7, <1>8, SMT
  <2> QED BY <2>1, <2>2, <2>3
<1>10. /\ p \in Seq(Events) /\ Len(p) = m + n + 1 /\ p[m + n + 1] = event
       /\ \A i \in 1..m : p[i] = q[i]
       /\ \A i \in 1..n : p[m + i] = r[i]
  <2> DEFINE c == q \o r
  <2>1. \A i \in 1..m : i \in 1..Len(c)
    BY <1>9, SMT
  <2>2. \A i \in 1..n : m + i \in 1..Len(c)
    BY <1>9, SMT
  <2>3. c \in Seq(Events)
    BY <1>9
  <2>4. Len(c) = m + n
    BY <1>9
  <2> HIDE DEF c
  <2>5. /\ Append(c, event) \in Seq(Events) /\ Len(Append(c, event)) = Len(c) + 1
        /\ Append(c, event)[Len(c) + 1] = event
        /\ \A i \in 1..Len(c) : Append(c, event)[i] = c[i]
    BY <1>1, <2>3, SMT
  <2>6. p = Append(c, event)
    BY DEF c
  <2>7. /\ \A i \in 1..m : c[i] = q[i]
        /\ \A i \in 1..n : c[m + i] = r[i]
    BY <1>9 DEF c
  <2> HIDE DEF p
  <2> QED BY <2>1, <2>2, <2>4, <2>5, <2>6, <2>7
<1> HIDE DEF p
<1>11. \A i \in 1..m : /\ p[i].kind = "snapshot" /\ p[i].entity = stored[i] /\ stored[i] \in S
                       /\ p[i].change = snapshots[stored[i]] /\ i \in 1..Len(p)
  <2>1. \A i \in 1..m : i \in 1..Len(p)
    BY <1>10, SMT
  <2>2. \A i \in 1..m : stored[i] \in S /\ p[i] = SnapshotEvent(stored[i])
    BY <1>3, <1>7, <1>10
  <2> SUFFICES ASSUME NEW i \in 1..m
               PROVE  /\ p[i].kind = "snapshot" /\ p[i].entity = stored[i]
                      /\ p[i].change = snapshots[stored[i]]
    BY <2>1, <2>2
  <2>3. stored[i] \in Entities /\ p[i] = SnapshotEvent(stored[i])
    BY <2>2
  <2> QED BY <1>5, <2>3
<1>12. ASSUME NEW i \in 1..Len(p), i \notin 1..m, i # m + n + 1
       PROVE  /\ i - m \in 1..n /\ p[i].kind = "initial" /\ p[i].entity = read[i - m]
              /\ read[i - m] \in D /\ p[i].change = initial[s][read[i - m]]
  <2>1. i - m \in 1..n /\ m + (i - m) = i
    BY <1>10, <1>12, SMT
  <2>2. p[i] = InitialEvent(s, read[i - m])
    BY <1>8, <1>10, <2>1
  <2>3. read[i - m] \in D
    BY <1>4, <2>1
  <2> QED BY <1>6, <2>1, <2>2, <2>3
<1>13. DOMAIN p = 1..Len(p) /\ m + n + 1 \in 1..Len(p)
  BY <1>10, SMT
<1>14. \A i \in 1..Len(p) : p[i].kind # "shutdown" /\ p[i].kind # "keepalive"
  BY <1>1, <1>10, <1>11, <1>12
<1>15. \A i \in 1..Len(p) : p[i].entity # NoEntity <=> i # m + n + 1
  BY <1>1, <1>10, <1>11, <1>12, HubAssumption
<1>16. ASSUME NEW i \in 1..Len(p), NEW k \in 1..Len(p), i < k,
              p[i].entity = p[k].entity, p[i].entity # NoEntity
       PROVE  Precedes(p[i], p[k])
  <2>1. i # m + n + 1 /\ k # m + n + 1 /\ i # k
    BY <1>10, <1>15, <1>16, SMT
  <2>2. CASE i \in 1..m /\ k \in 1..m
    <3>1. stored[i] = stored[k]
      BY <1>11, <1>16, <2>2
    <3> QED BY <1>3, <2>1, <2>2, <3>1
  <2>3. CASE i \in 1..m /\ k \notin 1..m
    BY <1>11, <1>12, <2>1, <2>3 DEF Precedes
  <2>4. CASE i \notin 1..m
    <3>1. k \notin 1..m
      BY <1>10, <1>16, <2>4, SMT
    <3>2. i - m \in 1..n /\ k - m \in 1..n /\ read[i - m] = read[k - m]
      BY <1>12, <1>16, <2>1, <2>4, <3>1
    <3>3. i - m = k - m
      BY <1>4, <3>2
    <3> QED BY <1>10, <2>1, <3>3, SMT
  <2> QED BY <2>2, <2>3, <2>4
<1>17. Tidy(p)
  <2>1. \A i \in 1..Len(p) :
          p[i].entity # NoEntity <=> p[i].kind \in {"update", "snapshot", "initial"}
    BY <1>1, <1>10, <1>11, <1>12, <1>15
  <2> QED BY <1>10, <1>14, <1>16, <2>1 DEF Tidy
<1>18. ASSUME NEW e \in S \ D, NEW old
       PROVE  Tells(p, e, old, snapshots[e])
  <2>1. PICK i \in 1..m : stored[i] = e
    BY <1>3
  <2>2. i \in 1..Len(p) /\ p[i].entity = e /\ p[i].change = snapshots[e] /\ e # NoEntity
    BY <1>11, <2>1, HubAssumption
  <2>3. \A k \in About(p, e) : k = i
    <3> SUFFICES ASSUME NEW k \in 1..Len(p), p[k].entity = e PROVE k = i
      BY <1>13 DEF About
    <3>1. k # m + n + 1
      BY <1>15, <2>2
    <3>2. k \in 1..m
      BY <1>12, <3>1
    <3>3. stored[k] = stored[i]
      BY <1>11, <2>1, <3>2
    <3> QED BY <1>3, <2>1, <3>2, <3>3
  <2>4. LastOf(p, e, i)
    BY <1>13, <2>2, <2>3, SMT DEF LastOf, About
  <2> QED BY <2>2, <2>4 DEF Tells, LastOf
<1>19. ASSUME NEW e \in Entities, NEW high \in Nat, snapshots[e] <= high,
              e \in D => initial[s][e] <= high
       PROVE  Between(p, e, 0, high)
  <2> SUFFICES ASSUME NEW i \in 1..Len(p), p[i].entity = e
               PROVE  (p[i].kind # "initial" => 0 <= p[i].change) /\ p[i].change <= high
    BY DEF Between
  <2>1. i # m + n + 1
    BY <1>15, HubAssumption
  <2>2. CASE i \in 1..m
    <3>1. p[i].change = snapshots[e]
      BY <1>11, <2>2
    <3> QED BY <1>19, <3>1, SMT
  <2>3. CASE i \notin 1..m
    BY <1>12, <1>19, <2>1, <2>3
  <2> QED BY <2>2, <2>3
<1> QED BY <1>14, <1>17, <1>18, <1>19 DEF p, q, r, event

-----------------------------------------------------------------------------
(* The hub and its subscribers. *)

Readers == {"absent", "listed", "looking", "writing", "reset", "suspended", "ended"}

FeedTyped ==
    /\ sequence \in Nat /\ subscribed \subseteq Subscribers
    /\ latest \in [Entities -> Nat] /\ snapshots \in [Entities -> Nat]
    /\ pending \in [Subscribers -> Seq(Events)]
    /\ closed \in [Subscribers -> BOOLEAN] /\ reader \in [Subscribers -> Readers]
    /\ joined \in [Subscribers -> [Entities -> Nat]] /\ seen \in [Subscribers -> [Entities -> Nat]]
    /\ DOMAIN initial = Subscribers

(* A stored snapshot is the last change of its entity. *)
Stored ==
    \A e \in Entities : snapshots[e] # 0 => snapshots[e] = latest[e]

(* A later last change keeps what a queue says between the two. *)
LEMMA BetweenWidens ==
    ASSUME NEW q, Tidy(q), NEW e, NEW low, NEW high \in Nat, NEW later \in Nat, high <= later,
           Between(q, e, low, high)
    PROVE  Between(q, e, low, later)
<1>1. \A i \in 1..Len(q) : q[i].change \in Nat
  BY EventFields, SMT DEF Tidy
<1>2. \A i \in 1..Len(q) : q[i].entity = e =>
          (q[i].kind # "initial" => low <= q[i].change) /\ q[i].change <= high
  BY DEF Between
<1> QED BY <1>1, <1>2, SMT DEF Between

(* What s must be told of e. *)
Owes(s, e) ==
    latest[e] > joined[s][e] \/ (snapshots[e] # 0 /\ e \notin DOMAIN initial[s])

(* What the events route read for s is at most one change ahead of the hub. *)
Read(s) ==
    /\ DOMAIN initial[s] \subseteq Entities
    /\ \A e \in DOMAIN initial[s] : initial[s][e] \in Nat /\ initial[s][e] <= latest[e] + 1

(* The queue of s is tidy and open as long as the subscription is, it speaks of
   changes between what s was told and the next one, and an open one tells the
   last of what s is owed. *)
Fed(s) ==
    /\ Tidy(pending[s])
    /\ ~closed[s] => \A i \in 1..Len(pending[s]) : pending[s][i].kind # "shutdown"
    /\ Read(s)
    /\ \A e \in Entities : /\ seen[s][e] <= latest[e] + 1
                           /\ Between(pending[s], e, seen[s][e], latest[e] + 1)
    /\ s \in subscribed /\ ~closed[s] =>
         \A e \in Follows[s] : Owes(s, e) => Tells(pending[s], e, seen[s][e], latest[e])
    /\ reader[s] \in {"absent", "listed"} =>
         s \notin subscribed /\ ~closed[s] /\ \A e \in Entities : seen[s][e] = 0

FeedInv == FeedTyped /\ Stored /\ \A s \in Subscribers : Fed(s)

(* Nothing is pending for anybody. *)
LEMMA FeedInit == Init => FeedInv
<1> SUFFICES ASSUME Init PROVE FeedInv
  OBVIOUS
<1>1. FeedTyped /\ Stored
  BY SMT DEF Init, FeedTyped, Stored, Readers
<1>2. Tidy(<<>>)
  BY SMT DEF Tidy
<1>3. \A e, l, h : Between(<<>>, e, l, h)
  BY SMT DEF Between
<1>4. \A s \in Subscribers : Fed(s)
  BY <1>2, <1>3, SMT DEF Init, Fed, Read
<1> QED BY <1>1, <1>4 DEF FeedInv

(* publish() and remove(): every open subscriber that follows the entity
   is told, and nobody else's queue changes. *)
LEMMA AnnounceFeeds ==
    ASSUME FeedInv, NEW e \in Entities, Announce(e), NEW r,
           r = 0 \/ r = latest'[e], snapshots' = [snapshots EXCEPT ![e] = r]
    PROVE  FeedInv'
<1>1. /\ sequence \in Nat /\ sequence' = sequence + 1
      /\ latest' = [latest EXCEPT ![e] = latest[e] + 1]
      /\ UNCHANGED <<subscribed, closed, initial, joined, seen>>
      /\ latest \in [Entities -> Nat] /\ snapshots \in [Entities -> Nat]
  BY DEF Announce, FeedInv, FeedTyped
<1> DEFINE n == latest[e] + 1
<1>2. /\ latest' \in [Entities -> Nat] /\ snapshots' \in [Entities -> Nat]
      /\ latest'[e] = n /\ n \in Nat /\ latest[e] \in Nat /\ sequence' \in Nat
      /\ n + 1 \in Nat /\ n <= n + 1 /\ n <= n
      /\ \A f \in Entities \ {e} : latest'[f] = latest[f] /\ snapshots'[f] = snapshots[f]
  BY <1>1, SMT DEF FeedInv, Stored
<1>3. Stored'
  BY <1>1, <1>2, SMT DEF FeedInv, Stored
<1>4. ASSUME NEW s \in Subscribers
      PROVE  /\ s \in Listeners(e) =>
                  pending'[s] = Coalesced(pending[s], Event("update", e, n))
             /\ s \notin Listeners(e) => pending'[s] = pending[s]
             /\ reader'[s] \in Readers
             /\ reader'[s] \in {"absent", "listed"} => reader[s] \in {"absent", "listed"}
  BY <1>1, <1>2 DEF Announce, Post, FeedInv, FeedTyped, Readers
<1> HIDE DEF n
<1>5. ASSUME NEW s \in Subscribers
      PROVE  Fed(s)'
  <2>1. Fed(s) /\ seen[s] \in [Entities -> Nat] /\ seen[s][e] \in Nat /\ latest[e] \in Nat
    BY <1>1 DEF FeedInv, FeedTyped
  <2>2. \A f \in Entities : seen'[s][f] <= latest'[f] + 1
    BY <1>1, <1>2, <2>1, SMT DEF Fed, n
  <2>3. /\ reader'[s] \in {"absent", "listed"} =>
             s \notin subscribed' /\ ~closed'[s] /\ \A f \in Entities : seen'[s][f] = 0
        /\ Read(s)'
    <3>1. Read(s)'
      <4>1. initial' = initial /\ Read(s)
        BY <1>1, <2>1 DEF Fed
      <4>2. \A f \in Entities : latest[f] \in Nat /\ latest'[f] \in Nat /\ latest[f] <= latest'[f]
        BY <1>1, <1>2, SMT DEF n
      <4>3. ASSUME NEW f \in DOMAIN initial[s]
            PROVE  initial[s][f] \in Nat /\ initial[s][f] <= latest'[f] + 1
        <5>1. f \in Entities /\ initial[s][f] \in Nat /\ initial[s][f] <= latest[f] + 1
          BY <4>1 DEF Read
        <5> QED BY <4>2, <5>1, SMT
      <4> QED BY <4>1, <4>3 DEF Read
    <3> QED BY <1>1, <1>4, <2>1, <3>1 DEF Fed
  <2>4. CASE s \in Listeners(e)
    <3> DEFINE p == Coalesced(pending[s], Event("update", e, n))
    <3>1. s \in subscribed /\ ~closed[s] /\ e \in Follows[s]
      BY <2>4 DEF Listeners
    <3>2. /\ seen[s][e] <= n /\ Between(pending[s], e, seen[s][e], n)
          /\ Tidy(pending[s]) /\ \A i \in 1..Len(pending[s]) : pending[s][i].kind # "shutdown"
          /\ seen[s][e] \in Nat /\ n \in Nat
      BY <1>2, <2>1, <3>1 DEF Fed, n
    <3>3. /\ Tidy(p)
          /\ \A old : Tells(p, e, old, n)
          /\ Between(p, e, seen[s][e], n)
          /\ \A i \in 1..Len(p) : p[i].kind # "shutdown"
          /\ \A f \in Entities \ {e} : \A old, m :
               Tells(pending[s], f, old, m) => Tells(p, f, old, m)
          /\ \A f \in Entities \ {e} : \A l, h : Between(pending[s], f, l, h) => Between(p, f, l, h)
      BY <3>2, CoalescedTells
    <3> HIDE DEF p
    <3>4. pending'[s] = p
      BY <1>4, <2>4 DEF p
    <3>5. \A f \in Entities : Between(p, f, seen'[s][f], latest'[f] + 1)
      <4>1. Between(p, e, seen[s][e], n + 1)
        BY <1>2, <3>3, BetweenWidens
      <4> QED BY <1>1, <1>2, <2>1, <3>3, <4>1 DEF Fed
    <3>6. \A f \in Follows[s] : Owes(s, f)' => Tells(p, f, seen'[s][f], latest'[f])
      <4>1. Follows[s] \subseteq Entities
        BY HubAssumption
      <4>2. \A f \in Follows[s] \ {e} : Owes(s, f)' => Owes(s, f)
        BY <1>1, <1>2, <4>1 DEF Owes
      <4> QED BY <1>1, <1>2, <2>1, <3>1, <3>3, <4>1, <4>2 DEF Fed
    <3> QED BY <1>1, <2>2, <2>3, <3>3, <3>4, <3>5, <3>6 DEF Fed
  <2>5. CASE s \notin Listeners(e)
    <3>1. pending'[s] = pending[s]
      BY <1>4, <2>5
    <3>2. Between(pending[s], e, seen[s][e], latest'[e] + 1)
      <4>1. Tidy(pending[s]) /\ Between(pending[s], e, seen[s][e], n)
        BY <2>1 DEF Fed, n
      <4> QED BY <1>2, <4>1, BetweenWidens
    <3>3. \A f \in Entities : Between(pending[s], f, seen[s][f], latest'[f] + 1)
      BY <1>2, <2>1, <3>2 DEF Fed
    <3>4. s \in subscribed /\ ~closed[s] => e \notin Follows[s]
      BY <2>5 DEF Listeners
    <3>5. \A f \in Follows[s] : f # e => f \in Entities /\ (Owes(s, f)' => Owes(s, f))
      BY <1>1, <1>2, HubAssumption DEF Owes
    <3>6. s \in subscribed /\ ~closed[s] =>
            \A f \in Follows[s] : Owes(s, f)' => Tells(pending[s], f, seen[s][f], latest'[f])
      BY <1>2, <2>1, <3>4, <3>5 DEF Fed
    <3> QED BY <1>1, <2>1, <2>2, <2>3, <3>1, <3>3, <3>6 DEF Fed
  <2> QED BY <2>4, <2>5
<1>6. FeedTyped'
  <2>1. \A s \in Subscribers : pending'[s] \in Seq(Events)
    BY <1>5 DEF Fed, Tidy
  <2>2. pending' = [s \in Subscribers |-> pending'[s]]
    BY SMT DEF Announce
  <2>3. reader' = [s \in Subscribers |-> reader'[s]]
    BY DEF Announce, Post
  <2> QED BY <1>1, <1>2, <1>4, <2>1, <2>2, <2>3 DEF FeedInv, FeedTyped
<1> QED BY <1>3, <1>5, <1>6 DEF FeedInv

(* heartbeat(): a keepalive for the open subscribers that have nothing pending. *)
LEMMA HeartbeatFeeds ==
    ASSUME FeedInv, Heartbeat
    PROVE  FeedInv'
<1>1. /\ sequence \in Nat /\ sequence' = sequence + 1 /\ sequence + 1 \in Nat
      /\ UNCHANGED <<snapshots, latest, subscribed, closed, initial, joined, seen>>
  BY SMT DEF Heartbeat, FeedInv, FeedTyped
<1>2. Stored'
  BY <1>1, SMT DEF FeedInv, FeedTyped, Stored
<1> DEFINE beat == <<Event("keepalive", NoEntity, sequence + 1)>>
<1>3. ASSUME NEW s \in Subscribers
      PROVE  /\ \/ pending'[s] = pending[s]
                \/ pending[s] = <<>> /\ pending'[s] = beat
             /\ reader'[s] \in Readers
             /\ reader'[s] \in {"absent", "listed"} => reader[s] \in {"absent", "listed"}
  BY <1>1 DEF Heartbeat, Post, FeedInv, FeedTyped, Readers
<1>4. ASSUME NEW s \in Subscribers
      PROVE  Fed(s)'
  <2>1. Fed(s)
    BY DEF FeedInv
  <2>2. (\A e : Owes(s, e)' <=> Owes(s, e)) /\ Read(s)'
    BY <1>1, <2>1 DEF Owes, Fed, Read
  <2>3. CASE pending'[s] = pending[s]
    BY <1>1, <1>3, <2>1, <2>2, <2>3 DEF Fed
  <2>4. CASE pending[s] = <<>> /\ pending'[s] = beat
    <3>1. /\ Tidy(beat) /\ \A i \in 1..Len(beat) : beat[i].kind # "shutdown"
          /\ \A e \in Entities : \A old : Tells(beat, e, old, old)
          /\ \A e \in Entities : \A l, h : Between(beat, e, l, h)
      BY <1>1, LoneEvent, SMT
    <3> HIDE DEF beat
    <3>2. \A e, old, n : Tells(<<>>, e, old, n) => old = n
      BY SMT DEF Tells, About
    <3>3. \A e \in Follows[s] : e \in Entities
      BY HubAssumption
    <3>4. s \in subscribed /\ ~closed[s] =>
            \A e \in Follows[s] : Owes(s, e) => seen[s][e] = latest[e]
      BY <2>1, <2>4, <3>2 DEF Fed
    <3>5. s \in subscribed /\ ~closed[s] =>
            \A e \in Follows[s] : Owes(s, e) => Tells(beat, e, seen[s][e], latest[e])
      BY <3>1, <3>3, <3>4
    <3> QED BY <1>1, <1>3, <2>1, <2>2, <2>4, <3>1, <3>5 DEF Fed
  <2> QED BY <1>3, <2>3, <2>4
<1>5. FeedTyped'
  <2>1. \A s \in Subscribers : pending'[s] \in Seq(Events)
    BY <1>4 DEF Fed, Tidy
  <2>2. /\ pending' = [s \in Subscribers |-> pending'[s]]
        /\ reader' = [s \in Subscribers |-> reader'[s]]
    BY DEF Heartbeat, Post
  <2> QED BY <1>1, <1>3, <2>1, <2>2 DEF FeedInv, FeedTyped
<1> QED BY <1>2, <1>4, <1>5 DEF FeedInv

(* shutdown() ends the open queues and closes them. *)
LEMMA ShutdownFeeds ==
    ASSUME FeedInv, Shutdown
    PROVE  FeedInv'
<1>1. /\ sequence \in Nat /\ sequence' = sequence + 1 /\ sequence + 1 \in Nat
      /\ UNCHANGED <<snapshots, latest, subscribed, initial, joined, seen>>
  BY SMT DEF Shutdown, FeedInv, FeedTyped
<1>2. Stored'
  BY <1>1, SMT DEF FeedInv, FeedTyped, Stored
<1> DEFINE event == Event("shutdown", NoEntity, sequence + 1)
<1>3. ASSUME NEW s \in Subscribers
      PROVE  /\ \/ /\ pending'[s] = pending[s] /\ closed'[s] = closed[s]
                   /\ s \in subscribed => closed[s]
                \/ /\ pending'[s] = Append(pending[s], event) /\ closed'[s]
                   /\ s \in subscribed /\ ~closed[s]
             /\ closed'[s] \in BOOLEAN /\ reader'[s] \in Readers
             /\ reader'[s] \in {"absent", "listed"} => reader[s] \in {"absent", "listed"}
  BY <1>1 DEF Shutdown, Post, FeedInv, FeedTyped, Readers
<1>4. ASSUME NEW s \in Subscribers
      PROVE  Fed(s)'
  <2>1. Fed(s)
    BY DEF FeedInv
  <2>2. CASE /\ pending'[s] = pending[s] /\ closed'[s] = closed[s]
             /\ s \in subscribed => closed[s]
    BY <1>1, <1>3, <2>1, <2>2 DEF Fed, Read
  <2>3. CASE /\ pending'[s] = Append(pending[s], event) /\ closed'[s]
             /\ s \in subscribed /\ ~closed[s]
    <3> DEFINE p == Append(pending[s], event)
    <3>1. /\ Tidy(p)
          /\ \A e \in Entities : \A l, h : Between(pending[s], e, l, h) => Between(p, e, l, h)
      BY <1>1, <2>1, <2>3, EndTells DEF Fed
    <3>2. pending'[s] = p
      BY <2>3
    <3> HIDE DEF p
    <3> QED BY <1>1, <1>3, <2>1, <2>3, <3>1, <3>2 DEF Fed, Read
  <2> QED BY <1>3, <2>2, <2>3
<1>5. FeedTyped'
  <2>1. \A s \in Subscribers : pending'[s] \in Seq(Events)
    BY <1>4 DEF Fed, Tidy
  <2>2. /\ pending' = [s \in Subscribers |-> pending'[s]]
        /\ closed' = [s \in Subscribers |-> closed'[s]]
        /\ reader' = [s \in Subscribers |-> reader'[s]]
    BY DEF Shutdown, Post
  <2> QED BY <1>1, <1>3, <2>1, <2>2 DEF FeedInv, FeedTyped
<1> QED BY <1>2, <1>4, <1>5 DEF FeedInv

(* A step of one subscriber leaves what the others are fed alone. *)
LEMMA OthersFed ==
    ASSUME FeedInv, NEW s \in Subscribers,
           UNCHANGED <<sequence, latest, snapshots>>,
           \A r \in Subscribers \ {s} :
               /\ pending'[r] = pending[r] /\ closed'[r] = closed[r]
               /\ seen'[r] = seen[r] /\ joined'[r] = joined[r] /\ reader'[r] = reader[r]
               /\ initial'[r] = initial[r]
               /\ r \in subscribed' <=> r \in subscribed,
           Fed(s)', FeedTyped'
    PROVE  FeedInv'
<1>1. Stored'
  BY DEF FeedInv, Stored
<1>2. ASSUME NEW r \in Subscribers \ {s}
      PROVE  Fed(r)'
  <2>1. Fed(r) /\ \A e : Owes(r, e)' <=> Owes(r, e)
    BY DEF FeedInv, Owes
  <2> QED BY <2>1 DEF Fed, Read
<1> QED BY <1>1, <1>2 DEF FeedInv

(* The events route reads what it lists before it subscribes. *)
LEMMA ListFeeds ==
    ASSUME FeedInv, NEW s \in Subscribers, ListInitial(s)
    PROVE  FeedInv'
<1>1. /\ FeedTyped /\ Fed(s)
      /\ UNCHANGED <<sequence, latest, snapshots, subscribed, pending, closed, joined, seen>>
      /\ reader[s] = "absent" /\ reader' = [reader EXCEPT ![s] = "listed"]
  BY DEF FeedInv, ListInitial, hub
<1>2. PICK present \in SUBSET (Listed \cap Follows[s]) : \E ahead \in SUBSET present :
        initial' = [initial EXCEPT ![s] =
                      [e \in present |-> IF e \in ahead THEN latest[e] + 1 ELSE latest[e]]]
  BY DEF ListInitial
<1>3. /\ DOMAIN initial' = Subscribers
      /\ \A r \in Subscribers \ {s} : initial'[r] = initial[r]
      /\ DOMAIN initial'[s] = present
      /\ \A e \in present : initial'[s][e] = latest[e] + 1 \/ initial'[s][e] = latest[e]
  BY <1>1, <1>2 DEF FeedTyped
<1>4. Read(s)'
  <2>1. present \subseteq Entities
    BY <1>2, HubAssumption
  <2>2. \A e \in present : latest[e] \in Nat
    BY <1>1, <2>1 DEF FeedTyped
  <2>3. \A e \in present : initial'[s][e] \in Nat /\ initial'[s][e] <= latest[e] + 1
    BY <1>3, <2>2, SMT
  <2> QED BY <1>1, <1>3, <2>1, <2>3 DEF Read
<1>5. /\ reader' \in [Subscribers -> Readers]
      /\ \A r \in Subscribers \ {s} : reader'[r] = reader[r]
      /\ s \notin subscribed /\ ~closed[s] /\ \A e \in Entities : seen[s][e] = 0
  BY <1>1 DEF FeedTyped, Fed, Readers
<1>6. FeedTyped'
  BY <1>1, <1>3, <1>5 DEF FeedTyped
<1>7. Fed(s)'
  BY <1>1, <1>4, <1>5 DEF Fed
<1> QED BY <1>1, <1>3, <1>5, <1>6, <1>7, OthersFed

(* subscribeEvents(): the stored snapshots under the lock, so that the updates that
   follow go on from them, and what the events route had read. *)
LEMMA SubscribeFeeds ==
    ASSUME FeedInv, NEW s \in Subscribers, Subscribe(s)
    PROVE  FeedInv'
<1>1. /\ FeedTyped /\ Fed(s) /\ Stored
      /\ UNCHANGED <<sequence, latest, snapshots, initial, seen>>
      /\ joined' = [joined EXCEPT ![s] = latest]
      /\ reader[s] = "listed" /\ reader' = [reader EXCEPT ![s] = "looking"]
  BY DEF FeedInv, Subscribe, hub
<1>2. /\ joined' \in [Subscribers -> [Entities -> Nat]] /\ reader' \in [Subscribers -> Readers]
      /\ joined'[s] = latest /\ reader'[s] = "looking"
      /\ s \notin subscribed /\ ~closed[s] /\ \A e \in Entities : seen[s][e] = 0
      /\ \A r \in Subscribers \ {s} : joined'[r] = joined[r] /\ reader'[r] = reader[r]
  BY <1>1 DEF FeedTyped, Fed, Readers
<1>3. CASE shut
  <2> DEFINE p == <<Event("shutdown", NoEntity, sequence)>>
  <2>1. /\ pending' = [pending EXCEPT ![s] = p] /\ closed' = [closed EXCEPT ![s] = TRUE]
        /\ UNCHANGED subscribed
    BY <1>3 DEF Subscribe
  <2>2. Tidy(p) /\ \A e \in Entities : \A l, h : Between(p, e, l, h)
    BY <1>1, LoneEvent DEF FeedTyped
  <2>3. p \in Seq(Events)
    BY <2>2 DEF Tidy
  <2> HIDE DEF p
  <2>4. FeedTyped'
    BY <1>1, <1>2, <2>1, <2>3 DEF FeedTyped
  <2>5. pending'[s] = p /\ closed'[s]
    BY <1>1, <2>1 DEF FeedTyped
  <2>6. Fed(s)'
    BY <1>1, <1>2, <2>2, <2>5 DEF Fed, Read
  <2> QED BY <1>1, <1>2, <2>1, <2>4, <2>6, OthersFed DEF FeedTyped
<1>4. CASE ~shut
  <2> DEFINE S == {e \in Follows[s] : snapshots[e] # 0}
             D == DOMAIN initial[s]
  <2>1. PICK stored \in Orders(S), read \in Orders(D) :
          pending' = [pending EXCEPT ![s] =
                        Append([i \in DOMAIN stored |-> SnapshotEvent(stored[i])]
                                 \o [i \in DOMAIN read |-> InitialEvent(s, read[i])],
                               Event("complete", NoEntity, sequence))]
    BY <1>4 DEF Subscribe
  <2> DEFINE p == Append([i \in DOMAIN stored |-> SnapshotEvent(stored[i])]
                           \o [i \in DOMAIN read |-> InitialEvent(s, read[i])],
                         Event("complete", NoEntity, sequence))
  <2>2. subscribed' = subscribed \cup {s} /\ UNCHANGED closed
    BY <1>4 DEF Subscribe
  <2>3. /\ S \subseteq Entities /\ Follows[s] \subseteq Entities /\ D \subseteq Entities
        /\ \A e \in D : initial[s][e] \in Nat /\ initial[s][e] <= latest[e] + 1
    BY <1>1, HubAssumption DEF Fed, Read
  <2>4. /\ Tidy(p)
        /\ \A i \in 1..Len(p) : p[i].kind # "shutdown"
        /\ \A e \in S \ D : \A old : Tells(p, e, old, snapshots[e])
        /\ \A e \in Entities : \A high \in Nat :
             snapshots[e] <= high /\ (e \in D => initial[s][e] <= high) => Between(p, e, 0, high)
    <3>1. /\ S \in SUBSET Entities /\ D \in SUBSET Entities
          /\ \A e \in D : initial[s][e] \in Nat
          /\ snapshots \in [Entities -> Nat] /\ sequence \in Nat
      BY <1>1, <2>3 DEF FeedTyped
    <3> HIDE DEF S, D
    <3> QED BY <3>1, SnapshotsTell
  <2>5. pending' = [pending EXCEPT ![s] = p]
    BY <2>1
  <2> HIDE DEF p
  <2>6. p \in Seq(Events)
    BY <2>4 DEF Tidy
  <2>7. FeedTyped'
    BY <1>1, <1>2, <2>2, <2>5, <2>6 DEF FeedTyped
  <2>8. pending'[s] = p
    BY <1>1, <2>5 DEF FeedTyped
  <2>9. \A e \in Entities : Between(p, e, seen'[s][e], latest'[e] + 1)
    <3> SUFFICES ASSUME NEW e \in Entities PROVE Between(p, e, 0, latest[e] + 1)
      BY <1>1, <1>2
    <3>1. snapshots[e] \in Nat /\ latest[e] \in Nat
      BY <1>1 DEF FeedTyped
    <3>2. snapshots[e] = 0 \/ snapshots[e] = latest[e]
      BY <1>1 DEF Stored
    <3>3. snapshots[e] <= latest[e] + 1 /\ latest[e] + 1 \in Nat
      BY <3>1, <3>2, SMT
    <3> HIDE DEF D
    <3> QED BY <2>3, <2>4, <3>3
  <2>10. \A e \in Follows[s] : Owes(s, e)' => e \in S \ D /\ snapshots[e] = latest[e]
    <3>1. \A e \in Entities : ~(latest[e] > latest[e])
      BY <1>1, SMT DEF FeedTyped
    <3>2. \A e \in Follows[s] : Owes(s, e)' => snapshots[e] # 0 /\ e \notin D
      BY <1>1, <1>2, <2>3, <3>1 DEF Owes
    <3> QED BY <1>1, <2>3, <3>2 DEF Stored
  <2>11. (\A e \in Entities : seen'[s][e] <= latest'[e] + 1) /\ Read(s)'
    BY <1>1 DEF Fed, Read
  <2>12. Fed(s)'
    <3> HIDE DEF S, D
    <3> QED BY <1>1, <1>2, <2>2, <2>4, <2>8, <2>9, <2>10, <2>11 DEF Fed
  <2> QED BY <1>1, <1>2, <2>2, <2>5, <2>7, <2>12, OthersFed DEF FeedTyped
<1> QED BY <1>3, <1>4

(* next() takes the first event under the lock, or finds none. *)
LEMMA LooksFeeds ==
    ASSUME FeedInv, NEW s \in Subscribers, NextLooks(s)
    PROVE  FeedInv'
<1>1. /\ FeedTyped /\ Fed(s)
      /\ UNCHANGED <<sequence, latest, snapshots, subscribed, closed, initial, joined>>
      /\ reader[s] = "looking"
  BY DEF FeedInv, NextLooks, hub
<1>2. PICK to \in Readers \ {"absent", "listed"} : reader' = [reader EXCEPT ![s] = to]
  BY DEF NextLooks, Readers
<1>3. /\ reader' \in [Subscribers -> Readers] /\ reader'[s] \notin {"absent", "listed"}
      /\ \A r \in Subscribers \ {s} : reader'[r] = reader[r]
  BY <1>1, <1>2 DEF FeedTyped
<1>4. (\A e : Owes(s, e)' <=> Owes(s, e)) /\ Read(s)'
  BY <1>1 DEF Owes, Fed, Read
<1>5. CASE pending[s] = <<>>
  <2>1. UNCHANGED <<pending, seen>>
    BY <1>5 DEF NextLooks
  <2>2. FeedTyped'
    BY <1>1, <1>3, <2>1 DEF FeedTyped
  <2>3. Fed(s)'
    BY <1>1, <1>3, <1>4, <2>1 DEF Fed
  <2> QED BY <1>1, <1>3, <2>1, <2>2, <2>3, OthersFed
<1>6. CASE pending[s] # <<>>
  <2> DEFINE q == pending[s]
             first == Head(q)
  <2>1. /\ pending' = [pending EXCEPT ![s] = Tail(q)]
        /\ seen' = IF first.entity = NoEntity THEN seen
                   ELSE [seen EXCEPT ![s][first.entity] = first.change]
    BY <1>6 DEF NextLooks
  <2>2. Tidy(q)
    BY <1>1 DEF Fed
  <2>3. /\ Tidy(Tail(q)) /\ first \in Events
        /\ (\A i \in 1..Len(q) : q[i].kind # "shutdown") =>
             \A i \in 1..Len(Tail(q)) : Tail(q)[i].kind # "shutdown"
        /\ \A e \in Entities \ {first.entity} : \A old, n :
             Tells(q, e, old, n) => Tells(Tail(q), e, old, n)
        /\ \A e \in Entities \ {first.entity} : \A l, h :
             Between(q, e, l, h) => Between(Tail(q), e, l, h)
        /\ first.entity # NoEntity => \A old, n :
             Tells(q, first.entity, old, n) => Tells(Tail(q), first.entity, first.change, n)
        /\ first.entity # NoEntity => \A l, h :
             Between(q, first.entity, l, h) =>
                 /\ Between(Tail(q), first.entity, first.change, h)
                 /\ first.change <= h
    BY <1>6, <2>2, TailTells
  <2>4. first.entity \in Entities \cup {NoEntity} /\ first.change \in Nat
    BY <2>3, EventFields
  <2> HIDE DEF q, first
  <2>5. pending'[s] = Tail(q) /\ Tail(q) \in Seq(Events)
    BY <1>1, <2>1, <2>3 DEF FeedTyped, Tidy
  <2>6. /\ seen' \in [Subscribers -> [Entities -> Nat]]
        /\ \A r \in Subscribers \ {s} : seen'[r] = seen[r]
        /\ \A e \in Entities : seen'[s][e] = IF e = first.entity THEN first.change ELSE seen[s][e]
    BY <1>1, <2>1, <2>4, HubAssumption DEF FeedTyped
  <2>7. FeedTyped'
    BY <1>1, <1>3, <2>1, <2>5, <2>6 DEF FeedTyped
  <2>8. \A e \in Entities : /\ seen[s][e] <= latest[e] + 1
                            /\ Between(q, e, seen[s][e], latest[e] + 1)
                            /\ e # NoEntity
    BY <1>1, HubAssumption DEF Fed, q
  <2>9. \A e \in Entities : /\ seen'[s][e] <= latest[e] + 1
                            /\ Between(Tail(q), e, seen'[s][e], latest[e] + 1)
    BY <2>3, <2>6, <2>8
  <2>10. \A e \in Entities :
           Tells(q, e, seen[s][e], latest[e]) => Tells(Tail(q), e, seen'[s][e], latest[e])
    BY <2>3, <2>6, <2>8, SMTT(30)
  <2>11. s \in subscribed /\ ~closed[s] =>
           \A e \in Follows[s] : Owes(s, e)' => Tells(Tail(q), e, seen'[s][e], latest[e])
    <3>1. \A e \in Follows[s] : e \in Entities
      BY HubAssumption
    <3> QED BY <1>1, <1>4, <2>10, <3>1 DEF Fed, q
  <2>12. ~closed[s] => \A i \in 1..Len(Tail(q)) : Tail(q)[i].kind # "shutdown"
    BY <1>1, <2>3 DEF Fed, q
  <2>13. Fed(s)'
    BY <1>1, <1>3, <1>4, <2>3, <2>5, <2>9, <2>11, <2>12 DEF Fed
  <2>14. \A r \in Subscribers \ {s} : pending'[r] = pending[r]
    BY <1>1, <2>1 DEF FeedTyped
  <2> QED BY <1>1, <1>3, <2>6, <2>7, <2>13, <2>14, OthersFed
<1> QED BY <1>5, <1>6

(* next() awaits its baton, the event is written, or the client goes away. *)
LEMMA ReaderFeeds ==
    ASSUME FeedInv, NEW s \in Subscribers, NextAwaits(s) \/ ReadBodyEvent(s) \/ StopReading(s)
    PROVE  FeedInv'
<1>1. FeedTyped /\ Fed(s) /\ UNCHANGED <<sequence, latest, snapshots, pending, initial, joined, seen>>
  BY DEF FeedInv, NextAwaits, ReadBodyEvent, StopReading, hub, subscription
<1>2. PICK to \in Readers \ {"absent", "listed"} : reader' = [reader EXCEPT ![s] = to]
  BY DEF NextAwaits, ReadBodyEvent, StopReading, Readers
<1>3. /\ reader' \in [Subscribers -> Readers] /\ reader'[s] \notin {"absent", "listed"}
      /\ \A r \in Subscribers \ {s} : reader'[r] = reader[r]
  BY <1>1, <1>2 DEF FeedTyped
<1>4. \/ UNCHANGED <<subscribed, closed>>
      \/ subscribed' = subscribed \ {s} /\ closed' = [closed EXCEPT ![s] = TRUE]
  BY DEF NextAwaits, ReadBodyEvent, StopReading, subscription
<1>5. /\ FeedTyped' /\ (~closed'[s] => ~closed[s]) /\ (s \in subscribed' => s \in subscribed)
      /\ \A r \in Subscribers \ {s} :
           closed'[r] = closed[r] /\ (r \in subscribed' <=> r \in subscribed)
  BY <1>1, <1>3, <1>4 DEF FeedTyped
<1>6. (\A e : Owes(s, e)' <=> Owes(s, e)) /\ Read(s)'
  BY <1>1 DEF Owes, Fed, Read
<1>7. Fed(s)'
  BY <1>1, <1>3, <1>5, <1>6 DEF Fed
<1> QED BY <1>1, <1>3, <1>5, <1>7, OthersFed

(* Every step keeps the subscribers fed. *)
LEMMA FeedStep == FeedInv /\ [Next]_vars => FeedInv'
<1> SUFFICES ASSUME FeedInv, [Next]_vars PROVE FeedInv'
  OBVIOUS
<1>1. CASE \E e \in Entities : RemoveEntity(e) \/ \E retain \in BOOLEAN : Publish(e, retain)
  <2>1. PICK e \in Entities : RemoveEntity(e) \/ \E retain \in BOOLEAN : Publish(e, retain)
    BY <1>1
  <2>2. Announce(e) /\ \E r : (r = 0 \/ r = latest'[e]) /\ snapshots' = [snapshots EXCEPT ![e] = r]
    BY <2>1 DEF RemoveEntity, Publish
  <2> QED BY <2>2, AnnounceFeeds
<1>2. CASE UNCHANGED vars
  <2>1. UNCHANGED <<sequence, latest, snapshots, subscribed, pending, closed, initial, joined,
                    seen, reader>>
    BY <1>2 DEF vars, hub, subscription
  <2>2. FeedTyped' /\ Stored'
    BY <2>1 DEF FeedInv, FeedTyped, Stored
  <2>3. \A s \in Subscribers : Fed(s)'
    BY <2>1 DEF FeedInv, Fed, Read, Owes
  <2> QED BY <2>2, <2>3 DEF FeedInv
<1> QED BY <1>1, <1>2, HeartbeatFeeds, ShutdownFeeds, ListFeeds, SubscribeFeeds, LooksFeeds, ReaderFeeds
        DEF Next, Reader

(* What a subscriber has been told, and what its queue tells, in every
   reachable state. *)
THEOREM FeedTheorem == Spec => []FeedInv
BY FeedInit, FeedStep, PTL DEF Spec

(* An open subscription's queue, read to the end, tells the last change of
   everything that changed since it subscribed, and of every stored snapshot
   that initial_events does not speak of, for any number of entities,
   subscribers and events (publish(), remove() and subscribeEvents()). *)
THEOREM NothingIsMissed == Spec => []NothingMissed
<1>1. FeedInv => NothingMissed
  <2> SUFFICES ASSUME FeedInv, NEW s \in subscribed, ~closed[s], NEW e \in Follows[s], Owes(s, e)
               PROVE  View(s, e) = latest[e]
    BY DEF NothingMissed, Owes
  <2>1. s \in Subscribers /\ Fed(s) /\ pending[s] \in Seq(Events)
    BY DEF FeedInv, FeedTyped
  <2>2. Tells(pending[s], e, seen[s][e], latest[e])
    BY <2>1 DEF Fed
  <2>3. CASE About(pending[s], e) = {}
    BY <2>2, <2>3 DEF Tells, View
  <2>4. CASE About(pending[s], e) # {}
    <3>1. PICK i \in 1..Len(pending[s]) :
            LastOf(pending[s], e, i) /\ pending[s][i].change = latest[e]
      BY <2>2, <2>4 DEF Tells
    <3>2. Max(About(pending[s], e)) = i
      BY <2>1, <3>1, LastIsMax
    <3> QED BY <2>4, <3>1, <3>2 DEF View
  <2> QED BY <2>3, <2>4
<1> QED BY <1>1, FeedTheorem, PTL

(* Pending updates coalesce, there is one keepalive at most, and nothing
   follows the end of the stream. *)
THEOREM QueuesAreWellFormed == Spec => []QueueWellFormed
<1>1. FeedInv => QueueWellFormed
  <2> SUFFICES ASSUME FeedInv, NEW s \in Subscribers
               PROVE  LET q == pending[s]
                      IN /\ \A i, j \in DOMAIN q :
                              /\ q[i].kind = "update" /\ q[j].kind = "update"
                              /\ q[i].entity = q[j].entity
                              => i = j
                         /\ \A i, j \in DOMAIN q :
                              q[i].kind = "keepalive" /\ q[j].kind = "keepalive" => i = j
                         /\ \A i \in DOMAIN q : q[i].kind = "shutdown" => i = Len(q)
    BY DEF QueueWellFormed
  <2> DEFINE q == pending[s]
  <2>1. Tidy(q) /\ DOMAIN q = 1..Len(q) /\ Len(q) \in Nat
    BY SMTT(30) DEF FeedInv, Fed, Tidy
  <2> HIDE DEF q
  <2>2. ASSUME NEW i \in 1..Len(q), NEW j \in 1..Len(q), q[i].kind = "update",
               q[j].kind = "update", q[i].entity = q[j].entity
        PROVE  i = j
    <3>1. j <= i /\ i <= j
      <4>1. LastOf(q, q[i].entity, i) /\ LastOf(q, q[j].entity, j)
        BY <2>1, <2>2, UpdateIsLast
      <4> QED BY <2>2, <4>1 DEF LastOf
    <3> QED BY <3>1, <2>1, SMT
  <2> QED BY <2>1, <2>2 DEF Tidy, q
<1> QED BY <1>1, FeedTheorem, PTL

(* What a client is told of an entity goes back only by an event of
   initial_events, although updates are replaced in place (publish() and
   SSESubscription::next). *)
THEOREM ClientsNeverGoBack == Spec => NeverGoesBack
<1>1. FeedInv /\ [Next]_vars =>
        \A s \in Subscribers, e \in Entities :
            seen'[s][e] < seen[s][e] => Head(pending[s]).kind = "initial"
  <2> SUFFICES ASSUME FeedInv, [Next]_vars, NEW s \in Subscribers, NEW e \in Entities,
                      Head(pending[s]).kind # "initial"
               PROVE  ~(seen'[s][e] < seen[s][e])
    OBVIOUS
  <2>1. seen \in [Subscribers -> [Entities -> Nat]] /\ seen[s][e] \in Nat
    BY DEF FeedInv, FeedTyped
  <2>2. CASE \E r \in Subscribers : NextLooks(r)
    <3>1. PICK r \in Subscribers : NextLooks(r)
      BY <2>2
    <3>2. \/ UNCHANGED seen
          \/ /\ pending[r] # <<>> /\ Head(pending[r]).entity # NoEntity
             /\ seen' = [seen EXCEPT ![r][Head(pending[r]).entity] = Head(pending[r]).change]
      BY <3>1 DEF NextLooks
    <3>3. CASE UNCHANGED seen
      BY <2>1, <3>3, SMT
    <3>4. CASE /\ pending[r] # <<>> /\ Head(pending[r]).entity # NoEntity
               /\ seen' = [seen EXCEPT ![r][Head(pending[r]).entity] = Head(pending[r]).change]
      <4> DEFINE first == Head(pending[r])
      <4>1. Tidy(pending[r])
        BY DEF FeedInv, Fed
      <4>2. /\ first \in Events
            /\ \A l, h : Between(pending[r], first.entity, l, h) =>
                            (first.kind # "initial" => l <= first.change)
        BY <3>4, <4>1, TailTells
      <4>3. first.entity \in Entities /\ first.change \in Nat
        BY <3>4, <4>2, EventFields
      <4>4. Between(pending[r], first.entity, seen[r][first.entity], latest[first.entity] + 1)
        BY <4>3 DEF FeedInv, Fed
      <4>5. s = r => seen[r][first.entity] <= first.change
        BY <4>2, <4>4
      <4>6. seen'[s][e] = IF s = r /\ e = first.entity THEN first.change ELSE seen[s][e]
        BY <2>1, <3>4, <4>3
      <4> HIDE DEF first
      <4> QED BY <2>1, <4>3, <4>5, <4>6, SMT
    <3> QED BY <3>2, <3>3, <3>4
  <2>3. CASE UNCHANGED seen
    BY <2>1, <2>3, SMT
  <2>4. (\E r \in Subscribers : NextLooks(r)) \/ UNCHANGED seen
    BY DEF Next, vars, Reader, RemoveEntity, Publish, Announce, Heartbeat, Shutdown, ListInitial,
           Subscribe, NextAwaits, ReadBodyEvent, StopReading
  <2> QED BY <2>2, <2>3, <2>4
<1> QED BY <1>1, FeedTheorem, PTL DEF Spec, NeverGoesBack
-----------------------------------------------------------------------------
(* The readers of the event hub. *)

(* A reader sleeps only while there is nothing for it: its queue is empty and
   its subscription open (SSESubscription::next).  This is the part of
   EveryEventRead that no scheduling can make up for. *)
SleepsOnlyWhenIdle ==
    \A s \in Subscribers : reader[s] = "suspended" => pending[s] = <<>> /\ ~closed[s]

(* The same of a reader that has released the lock and is about to sleep,
   unless its baton was posted since. *)
WakeInv ==
    /\ readable \in [Subscribers -> BOOLEAN]
    /\ \A s \in Subscribers :
         reader[s] = "suspended" \/ (reader[s] = "reset" /\ ~readable[s]) =>
             pending[s] = <<>> /\ ~closed[s]

(* A posted baton: who is posted to is awake or will not sleep, the others have
   the queue they had. *)
LEMMA PostWakes ==
    ASSUME FeedInv, WakeInv, NEW S, Post(S),
           \A s \in Subscribers \ S : pending'[s] = pending[s] /\ closed'[s] = closed[s]
    PROVE  WakeInv'
BY DEF Post, WakeInv, FeedInv, FeedTyped, Readers

(* Every step of the hub and of a reader keeps it. *)
LEMMA WakeStep == FeedInv /\ WakeInv /\ [Next]_vars => WakeInv'
<1> SUFFICES ASSUME FeedInv, WakeInv, [Next]_vars PROVE WakeInv'
  OBVIOUS
<1>0. /\ pending \in [Subscribers -> Seq(Events)] /\ closed \in [Subscribers -> BOOLEAN]
      /\ reader \in [Subscribers -> Readers]
  BY DEF FeedInv, FeedTyped
<1>1. ASSUME NEW e \in Entities, Announce(e) PROVE WakeInv'
  BY <1>1, PostWakes DEF Announce
<1>2. CASE Heartbeat
  BY <1>2, PostWakes DEF Heartbeat
<1>3. CASE Shutdown
  <2>1. \A s \in Subscribers \ {s \in subscribed : ~closed[s]} :
          pending'[s] = pending[s] /\ closed'[s] = closed[s]
    BY <1>0, <1>3 DEF Shutdown
  <2> QED BY <1>3, <2>1, PostWakes DEF Shutdown
<1>4. ASSUME NEW s \in Subscribers, ListInitial(s) \/ Subscribe(s) PROVE WakeInv'
  BY <1>0, <1>4 DEF ListInitial, Subscribe, WakeInv
<1>5. ASSUME NEW s \in Subscribers, NextLooks(s) PROVE WakeInv'
  <2>1. CASE pending[s] = <<>>
    BY <1>0, <1>5, <2>1 DEF NextLooks, WakeInv
  <2>2. CASE pending[s] # <<>>
    BY <1>0, <1>5, <2>2 DEF NextLooks, WakeInv
  <2> QED BY <2>1, <2>2
<1>6. ASSUME NEW s \in Subscribers, NextAwaits(s) PROVE WakeInv'
  BY <1>0, <1>6 DEF NextAwaits, subscription, WakeInv
<1>7. ASSUME NEW s \in Subscribers, ReadBodyEvent(s) PROVE WakeInv'
  BY <1>0, <1>7 DEF ReadBodyEvent, subscription, WakeInv
<1>8. ASSUME NEW s \in Subscribers, StopReading(s) PROVE WakeInv'
  BY <1>0, <1>8 DEF StopReading, WakeInv
<1>9. CASE UNCHANGED vars
  BY <1>9 DEF vars, subscription, WakeInv
<1> QED BY <1>1, <1>2, <1>3, <1>4, <1>5, <1>6, <1>7, <1>8, <1>9
        DEF Next, Reader, Publish, RemoveEntity

(* No reader sleeps through an event or the end of its subscription, whatever
   happens between its look at the queue and its wait (SSEEventHub.cpp:73). *)
THEOREM NoEventIsSleptThrough == Spec => []SleepsOnlyWhenIdle
<1>1. Init => WakeInv
  BY DEF Init, WakeInv
<1>2. WakeInv => SleepsOnlyWhenIdle
  BY DEF WakeInv, SleepsOnlyWhenIdle
<1> QED BY <1>1, <1>2, WakeStep, FeedTheorem, PTL DEF Spec

=============================================================================
