# IDHAN: specifications, model checking and proofs

IDHAN is a media server: clients upload, tag, search and download files; a
downloader fetches files from other sites; PostgreSQL holds everything but the
files. The source is C++ with coroutines that resume on thread pools. What is
hard to test in it is the concurrency between those coroutines, the threads that
drive libpq, libcurl and the downloader's scripts, the child processes that run
media modules, and the event streams. This directory models that part.

Contents: the system and its parts, the modules, the runs with their bounds and
fairness, the proofs, the findings, what is not modelled, the plan.
`PROJECT.json` holds the same in machine-readable form: which definition models
which lines (`map`), which mutation of the code each property detects
(`mutants`), and where the code is exposed to what (`hazards`).

## 1. The system

| Part | State | Operations | Interacts with |
|---|---|---|---|
| DBReactor | per connection: `pending`, `scheduled`, armed interest; epoll; worker pool | request/schedule, pump loop, poll, stop | connections (pump), kernel |
| DBOperation, DBTask | phase, outcome, continuation, consumer-cancelled | await, register, complete, abandon, unregister | connection, executor |
| DBConnection | queue, ledger of operations in flight, libpq, baton `drained` | enqueue, pump, drain, handshake | reactor, operations, server |
| DBPool, DBTransaction | startup, available leases, phase of each transaction | start, transaction, query, commit, rollback, destructor, drain | connections, server |
| SSEEventHub, SSEBodySource | sequence, snapshots, subscriptions and their queues | publish, remove, heartbeat, subscribe, read, stop, shutdown | event publishers, HTTP sessions |
| JobEventHub, JobTaskStatus | status of a job, dirty set, publisher | add, changed, remove, publish | jobs, SSE hub |
| JobRuntime | job queue and table, two threads, stop flags | enqueue, run, suspend, clean up, stop | jobs, event hub |
| LanePolicy | interval, next slot, pause | claim, failed, limited, reset, configure | lane |
| LanePool, Lane, LaneShard, IoThread | lanes by host, queue, places in flight, wakeup gate, transfers | send, dispatch, pump, start, finish, cancel, sweep, shutdown | policy, libcurl, sessions |
| SessionContext, ScriptRunner | works, pending requests and imports, claimed URLs, counts, script threads | submit, begin, step, follow, track, settle, abandon, retire, cancel, close, wait, stop | lanes, scripts, imports, observer |
| DownloadSessionManager | live sessions and their rows | sessionFor, submit, destroy, shutdown | sessions, database |
| WorkerPool, WorkerProcess | shared and isolated child processes, calls, manifest, heartbeats | acquire, call, handleFrame, failAll, terminate, retry, maintain, shutdown | child processes |
| WorkerRunner, runCallback | the child's queue and threads; a callback of a module | run, heartbeat, call back | the server's pool |
| ImportFile, ClusterManager | files of a cluster, file rows | importFile, storeRecordFile, reload | file system, database |
| IOUring | submission and completion rings, watcher | read, write, rename, remove | kernel, coroutines |
| Tag triggers (SQL) | aliases, parents, siblings, mappings | insert, delete | database |
| HTTP server, API handlers, search, metadata, migrations, client | mostly none of their own | requests, SQL, formatting | everything |

The path of a query: a coroutine awaits a `DBTask`; `enqueue` puts its operation
on a connection and asks the reactor to `schedule` a pump; one worker thread at a
time runs `pump()`, which sends operations, reads results and completes them;
completion posts the coroutine to its executor. A transaction leases a
connection from the pool for its life. The path of a download: a session sends
an exchange to the `LanePool`, which finds the lane of the host; the lane asks
its policy for a slot and starts the transfer on the thread of a shard; the
answer, or an error, comes back through the callback into the inbox of the script
thread that holds the work. The path of a file through a media module: a caller
acquires a child process from the `WorkerPool`, waits for its manifest, registers
its call and posts it; the result, or the death of the child, resumes it. A
module may call back into the server, which dispatches that call to a process of
its own.

What has to be right: one pump at a time and a pump after every request; a
coroutine resumed once; a result credited to the statement that asked for it;
leases neither lost nor shared; clients told every change and not put back by one;
coroutine frames alive while jobs run; the rate and the pauses of a host kept;
every exchange answered once, its place in the lane given back, and cancellation
effective in every window; a session's counts equal to what they count, its
executions alive while something points at them, its observer alive while a
script thread may call it, its end reported and its shutdown returning; a call
into a module resumed once, run by a process that has the right modules and is
not waiting for it, and ended however the process dies.

The behaviours that make this hard, with their lines, are the `hazards` of
`PROJECT.json`.

## 2. The modules

| Module | Code | Notes |
|---|---|---|
| `DBReactor` | IDHANDb DBReactor.cpp | every atomic access of `request()` is a step |
| `DBOperation` | DBOperation.cpp | the operation as a value, one operator per member function; used by the next two |
| `DBTask` | DBTask, DBOperation.cpp | awaiting coroutines against the pump and an abandoning thread |
| `Future` | (abstract) | what an awaitable promises; `DBTask` implements it |
| `DBConnection` | DBConnection.cpp | the pump of an established connection, libpq's queues, the wire and the server |
| `DBPool` | DBPool.cpp, DBTransaction.cpp | leases and the server's transaction state |
| `SSEEventHub` | IDHANHttp SSEEventHub.cpp, SSEBodySource.cpp, the handler of the event stream in httpapi/downloaderDebug.cpp | hub operations under `m_mutex`, the handler's reads before and the reading coroutine between them |
| `JobEventHub` | jobs/JobEventHub.cpp, JobTaskStatus.cpp | snapshots taken without the lock, in three reads |
| `JobRuntime` | jobs/JobContext.cpp | condition variables with the window between test and wait |
| `LanePolicy` | http/LanePolicy.cpp | a discrete clock |
| `Lane` | http/LanePool.cpp, Lane.cpp, LaneShard.cpp, IoThread.cpp | one host; the policy grants or refuses |
| `Session` | SessionContext.cpp, js/ScriptRunner.cpp, DownloadSessionManager.cpp, DownloaderContext.cpp | one session, from `submit()` to the end of `destroy()` or `shutdown()` |
| `WorkerProcess` | modules/WorkerProcess.cpp, WorkerRunner.cpp | a process and the calls in it, as values; one operator per effect; used by the next |
| `WorkerPool` | modules/WorkerPool.cpp, ModuleLoader.cpp | callers, callbacks, the IO thread of each process, maintenance and shutdown |
| `*Proofs` | | theorems about the module they are named after; `EventProofs` about `SSEEventHub`, `JobEventHub` and `JobRuntime`, `DBConnectionProofs` also about `DBReactor` |
| `MC*` | | instances for TLC |

A step is a critical section, an atomic access, or a call into libpq or libcurl
that exchanges data; everything between two of them interleaves. Variables have
the names of the members they stand for, or a comment that names the member.
Operators whose comment begins with "Mutant" are not part of a specification:
each is a changed form of the definition after it, and shows that a property
notices such a change.

How the modules build on each other: `DBConnection` uses the reactor's promise
that a wake is followed by a pump (`LoneWorkerPumps`; the finding of section 5
says when the reactor breaks it). `DBPool` uses the connection's promise that
operations run in order and complete (`OperationsEnd`). `DBTask` sees the
connection as the thread that sends and completes its operation, and is shown to
refine `Future` through `settled <- IsCompleted(op)` and the consumer's place as
`waiter`. `JobEventHub` publishes into a stream that stands for an `SSEEventHub`.
`Lane` takes the policy as granting or refusing any claim. `Session` sees the
lanes as answering each transfer once, later or at once and also while they shut
down, which is what `AnsweredOnce` and `EveryExchangeAnswered` say of them.
`WorkerPool` composes any number of processes of `WorkerProcess` with the callers
and with the callbacks their children make.

### Abstractions

* `DBConnection`: the handshake (`pumpHandshake`), statistics and
  `restoreLease` are left out. A pump that has thrown is `dead`; so is one of a
  management connection whose last operation ended with the lost connection,
  since the next thing it asks of libpq throws. An operation is its phase and outcome; a
  result is the operation it answers and whether it is the end of its answer.
* `DBPool`: a connection is a queue whose operations complete; `submit()`, which
  chooses a connection for a plain query, is left out. `drain()` does not come
  during `start()`, for whose end the server waits (ServerContext.cpp:254), and a
  query made in a transaction is awaited before the transaction ends or never.
* `SSEEventHub`: the payload of an event is the state of its entity, told apart by
  the number of the change that made it. `ListInitial` is the handler's read of
  the rate limits and of the session rows, which are changed before the hub is
  told: what it reads may be one change ahead of the hub, and an entity may be
  gone there or known only there. The registry of hubs, the rendering of debug
  events and the deletion of the body source in `stopReading()` are left out, and
  so are two threads that publish one entity at a time (section 5).
* `JobEventHub`: a job's report is whether it has started, whether it has ended,
  and the number of its changes. The publisher's
  exception path and the hub's stop are left out.
* `JobRuntime`: a pool thread is always free in the end; jobs are enqueued only
  while the server serves. (JobContext.cpp:18-19 has a comment on the order of
  destruction that no longer matches the members; nothing rests on it.)
* `LanePolicy`: counters, the parsing of headers and the concurrency are left
  out. A deadline is an integer tick.
* `Lane`: one host and one shard per lane (shards share the lane's counters and
  do not know each other). Bodies, sinks, cookies and snapshots are left out.
  A deadline may be reused, so a replaced wakeup may also fire for its
  successor: that adds behaviours. A gate records whether its generation is
  the policy's. A stopped lane's wakeups are forgotten, as `pump()` does nothing
  there. An exchange has a cancellation flag of its own, where the code's is shared
  by the exchanges of a session: the model cancels them one by one. The tasks of
  an IO thread are one queue in the order they were posted; the event base keeps
  those a thread posts to itself in a second one.
* `Session`: a script is the calls it makes (`request`, `import`, `follow`) and
  the moment its promise is settled. The passes of a script thread over its
  works and its inbox are unordered, as one pass may find any of them ready, and
  the 250 ms of its wait are left out. One session is modelled, and its owner's
  calls are made by one thread in the order of `destroy()` or of `shutdown()`.
  `wait()` sees the flag of `close()` at once, as it does on one thread (section 5).
  URL types, cookies, secrets, diagnostics, snapshots and the rows that the
  observer writes are left out.
* `WorkerPool`: a child that crashes or hangs takes no more steps until the IO
  thread terminates its process, which it may do at any time. A result that the
  child cannot send is lost (`LoseResult`), and so may be the reply to a callback
  (`ReturnFrom`); the process lives on. `terminate()` is the
  exchange of `m_alive`, then one step that settles the manifest's waiters, kills
  the child and fails its calls, in that order. Sending a result and reading it are one step, and so
  are sending a call and its being taken by a thread of the child. A post that
  fails on a live process is modelled. A call that needs a process when the
  instance has no unused one waits for a destroyed one or fails to start it.
  Payloads, passed descriptors, `describe_only`, prewarming (it acquires like a
  call), RECLAIM frames and snapshots are left out, and so is a second manifest
  from one child, which the runner never sends.

## 3. The runs

`tlc -config X.cfg M` in this directory. Sizes are distinct states.

| Run | Checks | Instance | States |
|---|---|---|---|
| `reactor` | `PumpIsSerialized`, `LoneWorkerPumps` | 2 requesters, poller, 1 or 2 workers | 63,576 |
| `reactor_lost_wakeup` | `EveryRequestPumped` (violated) | 2 workers | |
| `task` | `ResumedOnce`, `ImplementsFuture`, `SuspendedResumes` | 2 consumers | 1,988 |
| `connection` | `LedgerMirrorsLibpq`, `CreditedToOwner`, `BatonTellsTruth`, `OperationsEnd` | 2 operations, pipelined or management, budget 4, breaking connection | 241,328 |
| `pool` | `LeaseConserved`, `LeaseReturnedClean`, `WaiterServed` | 1 connection, 3 transactions | 240,818 |
| `sse_hub` | `NothingMissed`, `QueueWellFormed`, `NeverGoesBack`, `EveryEventRead` | 2 entities, 2 subscribers with different selectors, 1 entity that the handler reads, 3 events | 1,164,613 |
| `job_events` | `CompletedIsFinal`, `ReportsNeverGoBack`, `EveryChangePublished` | 2 jobs, 2 changes each | 419,331 |
| `job_runtime` | `FrameOutlivesJob`, `EveryJobRuns`, `ShutdownEnds` | 3 jobs | 122,794 |
| `lane_policy` | `RateHonoured`, `NoClaimInPause`, `PauseNotCompounded` | intervals 0, 2, 5, maximum 4, clock 7 to 20 | 269,688 |
| `lane` | `AnsweredOnce`, `SlotsCounted`, `CancelReaches`, `EveryExchangeAnswered` | 2 exchanges, 1 place, 1 redirect or retry, 1 cancellation, 2 lanes in turn, 2 deadlines | 273,742 |
| `session` | `CountersHonest`, `ExecutionOutlivesRequest`, `DrainNotLost`, `FollowedOnce`, `ShutdownOutlastsUse`, `SessionDrains`, `EndReturns` | 2 script threads, 2 submitted pages, 1 link both follow, 1 transfer, at most 1 work starting | 582,091 |
| `worker` | `RegisteredWhileParked`, `NoStaleIndex`, `ProcessesKeptApart`, `EverythingEnds` | 2 callers, 1 callback, 2 processes, 1 thread per child, callbacks 1 deep | 1,452,698 |

What each shows is in the `about` of the run. Every passing run explores its
instance completely, and every property of a passing run is violated by the
mutant that `PROJECT.json` names for it.

### Why the bounds are enough

* `reactor`: the races are between a worker that gives the licence back, a
  request, and a second worker; two requesters make requests overlap, and `Init`
  chooses how many workers there are. Serialisation is proved for any number.
* `task`: a second consumer is the error case of `registerContinuation`; a third
  takes the same path as the second.
* `connection`: two operations give a head and a successor, so that a result
  can be credited to the wrong one. The code's read budget is 64
  turns and an answer takes three, so it ends inside the 22nd; 4 ends inside
  the second.
* `pool`: one connection makes all three callers compete; one holds, one waits
  first and one waits behind it. Several connections are in the proof.
* `sse_hub`: three events are one to be replaced, one to replace it and one of
  another entity in between; removals count as well. One entity is also read by
  the handler before it subscribes, one is known to the hub only.
* `job_events`: a start, two changes and the end; two jobs share a batch.
* `job_runtime`: one job running, one queued and one done.
* `lane_policy`: the clock begins at 7 so that a slot at the epoch lies further
  back than any interval, and runs for thirteen ticks: a pause and three claims
  after it at the maximum interval, of a lane whose configured interval of 5 is
  above it. The proofs have no bound on the clock and none on the intervals.
* `lane`: with one place the second exchange always waits for the first. The
  second lane is the one made after a sweep retired the first. Two deadlines
  let a nearer wakeup replace a later one.
* `session`: two threads follow the same link, one may discard while the other
  settles, and with one start slot the second page waits for the first. The
  transfer is a script's request or import, or the import of a URL that is a
  file. The counts,
  the lifetimes and the claims are proved for any number of each.
* `worker`: one caller's process dies under the other, or one holds the process
  its callback must not get; the second process is the fresh one of a retry or
  the isolated one of a callback. Processes are reused after their destruction.
  The safety properties are proved for any number of each.

Deadlock checking is off where the system may rest: when all requests, jobs or
exchanges of the instance are done nothing has to happen.

### Fairness

Weak fairness of a thread's or a coroutine's next step stands for the operating
system and the executors, which run what can run. Nobody is obliged to call an
operation: requests, abandonment, cancellation, subscription, drain and shutdown
have no fairness. Beyond that:

* `DBConnection`: weak fairness of the server's answers (a `statement_timeout`
  ends a statement at the latest), and strong fairness of a flush that writes
  all, because a full socket drains as the server reads.
* `DBPool`: strong fairness of `TakeLease`: folly's bounded queue serves its
  waiters; and an object goes out of scope some time (`Drop`).
* `JobRuntime`: strong fairness of the runner, the cleaner and the stopping
  thread, which compete for one mutex whose holders sleep in between. Jobs need
  not end.
* `Lane`: strong fairness of a granted claim, because a pause ends; weak fairness
  of the end of a transfer. That is an assumption about the network: libcurl is
  given a connect timeout, and a total one only when it is configured
  (LaneShard.cpp:275).
* `Session`: the lanes answer what they were sent, and every script settles its
  promise in the end. The first is `EveryExchangeAnswered`; the second is an
  assumption about the scripts, since nothing in the code ends one that never
  settles before the session is closed. A script need not send or follow
  anything.
* `WorkerPool`: weak fairness of one disjunction of everything but heartbeats,
  losses, retirement, new calls and `shutdown()`. It is enough because each of its steps brings some
  call or process nearer its end and only heartbeats repeat for ever. It includes
  that a module's call ends or its process is terminated, which the liveness
  check of `ioLoop` does for a child that falls silent and nothing does for one
  that loops while its heartbeats go on.

## 4. The proofs

`tlapm M.tla` for the eight `*Proofs` modules. All constants are arbitrary, under
the assumptions named in the modules (`PollerAssumption`, `ConsumerAssumption`,
`ConnectionAssumption`, `PoolAssumption`, `PolicyAssumption`, `LaneAssumption`,
`WorkerAssumption`, `SessionAssumption`, `HubAssumption`,
`MaxDataAssumption`), which only say that model values are distinct, sets finite
where they are counted, and numbers natural.

* **`DBTaskProofs`: `HandleTheorem`, `ResumedOnceTheorem`, `TaskImplementsFuture`,
  `NoCoroutineIsStranded`.** A coroutine's handle is in one place at most: stored in the operation, posted, or resumed; one that has
  not registered has given its handle to nobody. The second part is what makes
  the first inductive. The refinement of `Future` follows step by step: the pump's
  completion and an abandonment settle the future, a registration and a
  resumption change its waiter, everything else leaves it alone. That a suspended
  coroutine is never forgotten (`SuspendedIsAwaited`) needs the way of the operation
  (`Course`): it is started once, its phase follows the connection, so a pump that
  finds it unsendable finds it ended. A second consumer's awaiter takes the
  first one's handle away; the theorem excepts that (`Unseated`), as
  `SuspendedResumes` does.
* **`DBConnectionProofs`, the reactor: `LicenceTheorem`, `Serialized`,
  `NoRequestIsLost`.** `PumpIsSerialized` is not inductive: a queued closure could start beside a running pump. `Licence` adds
  where the licence is: in the queue, at one worker, or lost with a pump that
  threw, and nowhere when `scheduled` is false. `NoRequestIsLost` speaks of a
  lone worker: a request is owed a pump (`Owed`) by the queued closure, by the worker,
  or, while it is still pending, by whoever has yet to look at it. It needs that a
  licence is only ever held by somebody (`Used`). With two workers it is false
  (section 5). The proofs are beside those of the connection that it drives.
* **`DBConnectionProofs`, the connection: `LedgerTheorem`, `LedgerMirrors`, `BatonTruth`,
  `ResultsAreCredited`.** The
  ledger and libpq's queue of commands are changed in different steps, so the
  invariant says how they differ at each place of the pump, and what the pump
  holds in between (`HandInv`). For whose answer comes next, `Stream` says what is on
  its way through libpq: each statement is answered by one result and one end of
  its answer, in the order of the statements, beginning with what the first one
  still lacks and ending with what the server has done. `Owned` states it of
  libpq's commands, its buffer and the wire, and that only the first command may
  have its result already (`Kinds` is the type of the queues involved). Sending
  makes the stream's statements longer, the server's step appends an answer,
  `PQgetResult` takes the first, a flush only moves the boundary between the parts.
* **`DBPoolProofs`: `LeaseTheorem`, `LeasesConserved`, `LeasesReturnClean`,
  `NoLeaseIsStranded`.** `LeaseConserved` speaks of the leases held and the queue of free ones. That a release puts back a lease
  which is held and not yet free needs the caller's place (`Held`), and that an
  answer of the server moves only the caller who waits for it needs the pending
  entries (`Awaited`, `Single`). `Unpublished` and `Waiting` cover startup.
  That a lease comes back clean needs what the server knows of its holder at each
  place of the transaction (`Serves`: nothing is open before BEGIN was answered and
  after COMMIT or ROLLBACK was, and what is enqueued in between is the
  transaction's own), that a connection without a holder rests (`Rests`),
  and that a query task made in a transaction and never started cannot reach the
  connection later (`Tasked`). Together they are `CInv`. From `CInv` follows also that
  what a holder waits for is enqueued with only its own queries before it; with
  `Owned`, that a transaction in use has an object to be dropped, no lease is left
  with nobody to return it (`LeasesComeBack`).
* **`LanePolicyProofs`: `RateTheorem`, `PauseTheorem`, `PauseIsNotCompounded`.** `Schedule` relates the next
  slot to the last two claims, the pause and the interval in force (`Spacing`). For
  a configured interval above the maximum a failure shortens the interval to the
  maximum (section 5); what makes the induction go through is that the spacing
  only shrinks within a schedule and never below the shorter of the two
  (`WideningKeepsSpacing`). The last two are action properties: a claim and an answer are
  examined against the pause they find.
* **`LaneProofs`: `LaneTheorem`, `AnsweredExactlyOnce`, `PlacesCounted`,
  `CancelAlwaysReaches`.** An exchange is answered by whoever takes it out of a
  queue or a shard, so that it is answered once needs it to be in one place: every
  entry of a queue (`InQueue`), every posted start (`InPosts`) and every transfer of
  a shard (`InShard`) is where its exchange's state says and occurs nowhere else.
  The places are then counted (`Balanced`), with the thread that dispatches a retry
  or gives its place back as the one place which is neither posted nor active
  (`Driven`). For cancellation the two sides of the race are related: the flag is
  set before a canceller looks for lanes (`Flagged`) and `start()` reads it, a lane
  with anything in it was made by the pool and is in its table or shutting down
  (`Known`, `Listed`), and a stopped lane's shutdown is posted behind all it started
  (`Followed`). `Reached` is the property for a canceller at any of its steps.
* **`WorkerPoolProofs`: `RegistrationIsExact`, `ProcessesAreKeptApart`,
  `StaleProcessRunsNothing`.** The three invariants are proved together. `Placed`
  says that a call which is in a process has one that was started, and has a
  frame only while it is parked; `Registered` that it is entered there exactly
  while parked, and not after `failAll()`; `InHand` that a call the IO thread is
  about to resume is still parked, and that a live process with a stale manifest
  is about to be rejected. Without the last, a call posted in between could run.
* **`SessionProofs`: `CountersAreHonest`, `ExecutionsOutliveRequests`,
  `DrainsAreReported`, `LinksAreFollowedOnce`, `ShutdownOutlasts`.** One invariant, `IInv`, with one
  lemma per action. The counts are lowered "if > 0", so that they are exact needs
  them to be positive wherever they are lowered: the work is still in a counted
  phase (`Queued`: once in the runner's queue or once in the discarded list) or
  the entry is still in `m_pending` (`Pended`). `Pended` also ties a request to
  its resident work, which makes `abandon()` the only way to lose one; and a work
  counted in keeps the session from being reported as drained, which is what
  `DrainNotLost` needs. `Linked` keeps an unseen URL untouched until `claim()`.
  `ShutdownOutlasts` needs a second one, `SInv`: the owner's remaining calls are the
  end of the list of `destroy()` or of `shutdown()` (`Hosted`), so the place in the
  list tells what was done; a script thread leaves nothing taken, resident or
  unreported behind when it ends (`Left`); and the script threads have ended after
  the join (`Joined`). It says nothing of the transfer callbacks, whose threads are
  joined after the sessions are dropped (section 5). It uses
  that threads and transfers have names of their own (`SessionAssumption`).

* **`EventProofs`, the job runtime: `RuntimeTheorem`, `FramesOutliveJobs`,
  `NoJobIsLeftBehind`.** `RuntimeInv` says that an entry of the queue is there once and
  its job is queued (`Queued`), and that a job which has not ended is in the table and
  not marked as done, and outlives the destructor's polling only if that timed out
  (`Kept`). For the runner, `Attended` says what holds at each of its places and at
  each step of the destructor: it waits only on an empty queue, leaves only after
  the stop was announced, and is not between its test and its wait once the destructor
  has looked at the queue under the mutex; `Waits` that a queued job is in the queue.
* **`EventProofs`, the job hub: `JobHubTheorem`, `CompletionsAreFinal`,
  `JobsNeverGoBack`, `NoChangeIsForgotten`.** A snapshot is taken in three steps while the job runs (the start
  time, m_done, the rest), and is
  published later. `Truthful` says that neither the snapshot nor the stream is ahead
  of the job and that one which says "completed" has the final data, already when
  only m_done was read; `Succeeds` that the snapshot in the publisher's hand is no
  older than what the stream has; `KnownOnce` that a job is added once, so that a
  removed one stays unknown. `Due` lists where a change can be that the stream does not
  tell yet (`DueInv`); when it can be nowhere the stream is current
  (`QuietStreamIsCurrent`), and a completed event without its start time has one of
  these places left to be corrected from.
* **`EventProofs`, the event hub: `FeedTheorem`, `NothingIsMissed`, `QueuesAreWellFormed`,
  `ClientsNeverGoBack`, `NoEventIsSleptThrough`.** `Tidy` describes a subscriber's queue: an entity occurs at most
  as one stored snapshot, one initial event and one update, in that order, so
  replacing an update where it stands
  does not reorder what the client hears of one entity. `Fed` relates the
  queue to the hub: all it says of an entity lies between the change the client was told last
  and the next change, only an initial event may be older (`Between`), and an open
  queue ends, for each entity whose last change the client is owed (`Owes`), with
  that change (`Tells`). `Stored` says the same of the stored
  snapshots, from which a new queue is made in any order. The entities must be
  finitely many. `WakeInv` extends `SleepsOnlyWhenIdle` to a reader that has
  released the lock and is about to sleep.

Only model-checked: liveness, which is out of the prover's reach
(`LoneWorkerPumps`, `SuspendedResumes`, `OperationsEnd`, `WaiterServed`, `EveryEventRead`,
`EveryChangePublished`, `EveryJobRuns`, `ShutdownEnds`, `EveryExchangeAnswered`,
`SessionDrains`, `EndReturns`, `EverythingEnds`). Every safety
property, action property and refinement that a run checks is proved.

Of a liveness property the part that fairness cannot repair is a safety property:
no state in which somebody waits and nobody is left to wake them. It is proved for
any instance beside `LoneWorkerPumps` (`NoRequestIsLost`), `SuspendedResumes`
(`NoCoroutineIsStranded`), `WaiterServed` (`NoLeaseIsStranded`), `EveryEventRead`
(`NoEventIsSleptThrough`), `EveryChangePublished` (`NoChangeIsForgotten`), and `EveryJobRuns`
and `ShutdownEnds` (`NoJobIsLeftBehind`). These statements are theorems only; no run
has them as a property. For a call parked in a worker process (`EverythingEnds`)
`RegistrationIsExact` says it.

## 5. Findings

**A lost pump request** (`reactor_lost_wakeup`, DBReactor.cpp:90). With two worker
threads, one that has given the licence back can consume the request that the
other's recheck was to find, fail to retake the licence and leave. With one
worker this cannot happen (`LoneWorkerPumps`).

### Exposures

Behaviours of the code that the models contain, or that reading it showed, and
that the properties above except or do not speak of. In the database layer:

* When the read budget is spent, the pump waits for the socket although results
  may be left in libpq's buffer (DBConnection.cpp:240). The operations behind
  them wait for the next wake; `OperationsEnd` excepts it as `Stalled`.
* `drain()` may return while the pump has an operation in its hand that is in
  neither queue (DBConnection.cpp:467).
* Without pipeline mode a finished operation does not dispatch the next one
  (DBConnection.cpp:441); one enqueued during the handshake is not pumped when
  the connection becomes connected (DBConnection.cpp:419).
* A caller that waits for a lease when `drain()` begins still gets one
  (DBPool.cpp:89).

In the downloader:

* The cap on the widened interval is applied last, so after a failure a
  configured interval above the cap becomes the cap (LanePolicy.cpp:121), and
  nothing keeps a configured interval below it (ScriptRegistry.cpp:98).
  `RateHonoured` speaks of the interval in force and says that it shrinks to the
  cap and no further. With the configured interval in its place TLC finds, in 17
  states, a failure and three claims of which the last comes one configured
  interval after the first instead of later.
* A cancellation between the flag's check and `submit()` leaves an exchange
  queued until a slot starts it (LanePool.cpp:390): it is answered, but late.
* `Lane::submit` of a stopped lane calls the callback with the lane's mutex held
  (Lane.cpp:35); `LanePool::complete` does not come back to the lane on an error.
* `IoThread::stop` ends a loop with tasks posted to it (IoThread.cpp:56), so a
  shard's shutdown may not run.
* `destroy()` frees the observer when the session is idle, while the script
  thread whose `retire()` made it idle has still to call `onFinished()`. The test
  at src/tests/downloader/hostFailures.cpp:73 takes care of this for its own
  observer: "Join before destroying the borrowed observer, including its
  onFinished callback." `ShutdownOutlastsUse` therefore speaks of `shutdown()`,
  which joins the threads first. Of `destroy()` TLC finds the contrary in 13
  states: a page is retired at once, its thread has yet to call `onFinished()`, and
  `destroy()` finds the session idle, closes it and drops it.
* `shutdown()` drops the sessions at DownloadSessionManager.cpp:327, under the
  comment "Workers and transfer callbacks borrow the observers owned by these
  sessions.", and joins the threads that run transfer callbacks only afterwards, at
  :329. `LanePool::shutdown` posts to those threads and does not wait.
  `ShutdownOutlastsUse` leaves transfer callbacks out; with them TLC finds in 23
  states an import that is answered after the runner stopped, whose callback
  reports the session drained to an observer that is gone.
* `close()` stores its flag and notifies without the mutex of `wait()`
  (SessionContext.cpp:126), so a `destroy()` between its test and its wait misses the
  `close()` of a `shutdown()` on another thread, and returns only when the session
  drains. The model has one owner.
* An import that is answered and in the inbox when the runner stops is dropped;
  its file is stored and its work is not told.
* `SessionContext::wait` of a closed session returns at once
  (SessionContext.cpp:139), while its header says "Blocks until the session is
  idle."
* `onFinished()` may come while an `onImported()` is still to come, since the entry
  leaves `m_pending` before the observer is called.
* With a limit of 0 requests in flight no work ever starts (`SessionAssumption`
  excludes it).

In the server:

* A child that cannot send a result (WorkerRunner.cpp:729) and a server that
  cannot send the reply to a callback (ModuleLoader.cpp:585) log it and go on, and
  nobody has a timeout: the call waits as long as its process lives. A call in the
  shared process is freed by its retirement or by the shutdown; a single-use
  process, or one that was dropped from the pool, is known only to the call that
  waits in it, so nothing ends either. `EverythingEnds` excepts what depends on
  such a process.
* The handler of the event stream reads the rate limits and sessions before it
  subscribes, and the hub queues them behind its stored snapshots
  (SSEEventHub.cpp:180): a client may be told a newer state, then an older one, and
  keep the older one until the entity changes again. `NothingMissed` and
  `NeverGoesBack` except the events of that read and nothing else.
* `LanePool::publish` takes the state of a lane under its mutex and publishes it
  without, so two threads may publish the states of one lane in the wrong order.
  The model has one publisher per entity; the next publication corrects it.
* The snapshot of a job reads the start time before `m_done` (JobTaskStatus.cpp:37):
  of a job that starts and ends in between, a "completed" event has no start time.
  `CompletedIsFinal` says that an event which has it is then still to come.
* A second manifest from one child would make `ioLoop` wait for a mutex it holds
  (WorkerProcess.cpp:300); the runner sends one.
* `WorkerPool::maintain` looks at a count of calls that a caller which holds the
  worker has not raised yet (WorkerPool.cpp:160): the call then fails with the
  process and is retried, which `worker` includes.
* `notifySubmit` throws after the ring's tail was moved (IOUringLinux.cpp:327).
* The destructor of the job runtime gives jobs ten seconds and destroys their
  frames then (JobContext.cpp:164); `FrameOutlivesJob` excepts it.

## 6. Not modelled

The components with status `not_modelled` in `PROJECT.json` each give the reason. In
short: conversions, formatting, parsing, search queries and numeric code are out
of TLC's reach or without state; the HTTP server is a wrapper of its library;
handlers and maintenance loops are sequential SQL; migrations are a list of
scripts. Three parts have state and are still left out:

* `ImportFile` is one coroutine per file. What a crash leaves behind is decided by
  the durability of the file system and of the database's commit, and two
  imports of one file meet only in SQL; neither is in this repository.
* The tag triggers are PL/pgSQL. Their hazard is two concurrent transactions, so a
  faithful model begins with PostgreSQL's snapshots and locks.
* `IOUring` shares its rings with the kernel, whose half of the protocol would have
  to be taken from its documentation.

## 7. Plan

Modules: the handshake of `DBConnection`; `submit()` of the pool; a composition of
`DBReactor` with `DBConnection` in which the wake is the reactor's own; several
sessions under one `DownloadSessionManager`, with the rows it resumes from.
