------------------------------ MODULE Session ------------------------------
(***************************************************************************)
(* One download session (IDHANDownloader/SessionContext), the script       *)
(* threads that run its work (js/ScriptRunner), the lanes that answer its  *)
(* transfers, and the two ways its owner ends it (DownloadSessionManager:: *)
(* destroy, and shutdown with DownloaderContext::shutdown).                *)
(*                                                                         *)
(* A work is a URL: a root is submitted by a thread of its own, a link is  *)
(* followed by a script.  A script is abstracted to the calls it makes     *)
(* into the session and to when its promises (the module's, then the       *)
(* parser's) are settled.  The passes of a script thread's loop (drain the *)
(* inbox, advance, start) are steps it takes in any order: the loop comes  *)
(* round at least every 250 ms.  An inbox is the set of the transfers in   *)
(* it.                                                                     *)
(***************************************************************************)
EXTENDS Naturals, Sequences, FiniteSets

CONSTANTS Workers, Roots, Links, Transfers,
          Limit      \* SessionOptions::inflight_requests

ASSUME SessionAssumption ==
    /\ Limit \in Nat \ {0}
    /\ Roots \cap Links = {} /\ Workers \cap (Roots \cup Links) = {}
    /\ Transfers \cap (Workers \cup Roots) = {}
    /\ {"none", "host"} \cap (Workers \cup Roots \cup Links \cup Transfers) = {}
    /\ IsFiniteSet(Workers) /\ IsFiniteSet(Roots \cup Links) /\ IsFiniteSet(Transfers)

VARIABLES cancelled, closed,     \* m_cancelled, m_closed
          reported,              \* m_drained_reported
          seen,                  \* m_seen
          count,                 \* m_outstanding, m_queued, m_inflight_requests, m_starting
          pending,               \* m_pending
          transfer,              \* what a pending entry and its callback know
          phase, stage,          \* where a work is, and whether its script is done
          claims,                \* how often a link was claimed by follow()
          running, queue,        \* m_running, m_queue of the runner
          home,                  \* the worker a work is resident on
          starting, follow, pc,  \* a worker's start slot, the link it follows, its place
          drain,                 \* where an actor is in reportDrainedIfIdle()
          calls, dropped,        \* what a host thread has still to call, and to retire
          owner, lanes           \* who holds the observer; whether the IO threads run

session == <<cancelled, closed, seen, count, pending>>
works == <<phase, stage, claims, home>>
runner == <<running, queue>>
worker == <<starting, follow, pc>>
host == <<calls, dropped, owner, lanes>>
vars == <<session, reported, transfer, works, runner, worker, drain, host>>

Works == Roots \cup Links
Actors == Workers \cup Roots \cup Transfers \cup {"host"}
None == "none"

Unused == [at |-> "unused", import |-> FALSE, work |-> None, worker |-> None]

DestroyCalls == <<"discard", "retire", "wait", "close", "discard", "retire", "drop">>
ShutdownCalls == <<"discard", "retire", "wait", "stop", "join", "retire", "lanes", "drop",
                   "reset">>

Init ==
    /\ cancelled = FALSE /\ closed = FALSE /\ reported = FALSE
    /\ seen = {} /\ pending = {}
    /\ count = [outstanding |-> 0, queued |-> 0, inflight |-> 0, starting |-> 0]
    /\ transfer = [t \in Transfers |-> Unused]
    /\ phase = [i \in Works |-> "new"]
    /\ stage = [i \in Works |-> "runs"]
    /\ claims = [i \in Links |-> 0]
    /\ home = [i \in Works |-> None]
    /\ running = TRUE /\ queue = <<>>
    /\ starting = [w \in Workers |-> None]
    /\ follow = [w \in Workers |-> None]
    /\ pc = [w \in Workers |-> "loops"]
    /\ drain = [a \in Actors |-> "no"]
    /\ calls = <<>>
    /\ dropped = {}
    /\ owner = "manager" /\ lanes = TRUE

Accepts == ~cancelled /\ ~closed
Idle == count.outstanding = 0 /\ pending = {}

-----------------------------------------------------------------------------
(* The end of a work.                                                      *)

(* retire() counts the work out under m_mutex, and goes on to
   reportDrainedIfIdle(). *)
Retire(a, i, counts) ==
    /\ phase' = [phase EXCEPT ![i] = "retired"]
    /\ stage' = [stage EXCEPT ![i] = "runs"]
    /\ home' = [home EXCEPT ![i] = None]
    /\ count' = [counts EXCEPT !.outstanding = @ - 1]
    /\ drain' = [drain EXCEPT ![a] = "check"]

Lowered(n) == IF n > 0 THEN n - 1 ELSE n

RetireQueued(a, i) == Retire(a, i, [count EXCEPT !.queued = Lowered(@)])

(* reportDrainedIfIdle(): under m_mutex it decides that the session has
   drained, and notifies; the observer is told afterwards. *)
ReportDrained(a) ==
    /\ drain[a] = "check"
    /\ IF Idle /\ ~reported
       THEN /\ reported' = TRUE
            /\ drain' = [drain EXCEPT ![a] = "finish"]
       ELSE /\ drain' = [drain EXCEPT ![a] = "no"]
            /\ UNCHANGED reported
    /\ UNCHANGED <<session, transfer, works, runner, worker, host>>

OnFinished(a) ==
    /\ drain[a] = "finish"
    /\ drain' = [drain EXCEPT ![a] = "no"]
    /\ UNCHANGED <<session, reported, transfer, works, runner, worker, host>>

-----------------------------------------------------------------------------
(* submit(), and the part of follow() that it shares.                      *)

(* The host's submit() finds the session through its manager, and open. *)
Submit(i) ==
    /\ phase[i] = "new"
    /\ owner = "manager" /\ Accepts
    /\ phase' = [phase EXCEPT ![i] = "reserved"]
    /\ UNCHANGED <<session, reported, transfer, stage, claims, home, runner, worker, drain, host>>

Enqueues(a, i) == IF i \in Roots THEN a = i ELSE a \in Workers /\ follow[a] = i /\ pc[a] = "loops"

(* enqueue() counts the work first ... *)
Enqueue(a, i) ==
    /\ Enqueues(a, i)
    /\ phase[i] = "reserved"
    /\ phase' = [phase EXCEPT ![i] = "counted"]
    /\ seen' = seen \cup {i}
    /\ count' = [count EXCEPT !.queued = @ + 1, !.outstanding = @ + 1]
    /\ reported' = FALSE
    /\ UNCHANGED <<cancelled, closed, pending, transfer, stage, claims, home,
                   runner, worker, drain, host>>

FollowOver(a) == [w \in Workers |-> IF w = a THEN None ELSE follow[w]]

(* Mutant: a refused work stays counted. *)
SubmitUncounted(a, i) ==
    /\ Enqueues(a, i)
    /\ phase[i] = "counted"
    /\ follow' = FollowOver(a)
    /\ phase' = [phase EXCEPT ![i] = IF running /\ Accepts THEN "queued" ELSE "refused"]
    /\ queue' = IF running /\ Accepts THEN Append(queue, i) ELSE queue
    /\ UNCHANGED <<session, reported, transfer, stage, claims, home, running, starting, pc, drain, host>>

(* ... and then hands it to the runner, which asks acceptsWork() under the
   lock of its queue; a refused work is retired again. *)
RunnerSubmit(a, i) ==
    /\ Enqueues(a, i)
    /\ phase[i] = "counted"
    /\ follow' = FollowOver(a)
    /\ IF running /\ Accepts
       THEN /\ queue' = Append(queue, i)
            /\ phase' = [phase EXCEPT ![i] = "queued"]
            /\ UNCHANGED <<stage, home, count, drain>>
       ELSE /\ RetireQueued(a, i)
            /\ UNCHANGED queue
    /\ UNCHANGED <<cancelled, closed, seen, pending, reported, transfer, claims,
                   running, starting, pc, host>>

-----------------------------------------------------------------------------
(* A script thread takes a work and starts it.                             *)

Free(w) == pc[w] = "loops" /\ follow[w] = None /\ drain[w] = "no"
Looping(w) == Free(w) /\ starting[w] = None

(* take() and reserveStart(): a work leaves the queue only with a start slot. *)
Take(w) ==
    /\ Looping(w) /\ running
    /\ queue # <<>>
    /\ Accepts
    /\ count.inflight + count.starting < Limit
    /\ starting' = [starting EXCEPT ![w] = Head(queue)]
    /\ phase' = [phase EXCEPT ![Head(queue)] = "taken"]
    /\ queue' = Tail(queue)
    /\ count' = [count EXCEPT !.starting = @ + 1]
    /\ UNCHANGED <<cancelled, closed, seen, pending, reported, transfer, stage, claims, home,
                   running, follow, pc, drain, host>>

Dequeued == [count EXCEPT !.queued = Lowered(@)]

(* track() registers a transfer before it is sent. *)
Track(w, i, t, import, counts) ==
    /\ transfer[t].at = "unused"
    /\ transfer' = [transfer EXCEPT ![t] =
                       [at |-> "sent", import |-> import, worker |-> w,
                        work |-> IF import THEN None ELSE i]]
    /\ pending' = pending \cup {t}
    /\ count' = [counts EXCEPT !.inflight = @ + 1]

(* beginWork(): the work cannot start; or its URL is a file, imported at
   once if the import is not refused or reused; or its script is loaded. *)
BeginWork(w) ==
    LET i == starting[w] IN
    /\ Free(w) /\ i # None
    /\ phase[i] = "taken"
    /\ \/ /\ Retire(w, i, Dequeued)
          /\ UNCHANGED <<pending, transfer>>
       \/ /\ home' = [home EXCEPT ![i] = w]
          /\ phase' = [phase EXCEPT ![i] = "resident"]
          /\ \/ /\ stage' = [stage EXCEPT ![i] = "done"]
                /\ \/ \E t \in Transfers : Track(w, i, t, TRUE, Dequeued)
                   \/ count' = Dequeued /\ UNCHANGED <<pending, transfer>>
             \/ count' = Dequeued /\ UNCHANGED <<stage, pending, transfer>>
          /\ UNCHANGED drain
    /\ UNCHANGED <<cancelled, closed, seen, reported, claims, runner, worker, host>>

Requests(i) == {t \in pending : transfer[t].work = i /\ ~transfer[t].import}

(* Mutant: abandon() leaves the in-flight count alone. *)
AbandonedCounted(i, counts) == counts

(* abandon() forgets the requests of a work; its imports stay. *)
Abandoned(i, counts) ==
    [counts EXCEPT !.inflight = @ - Cardinality(Requests(i))]

(* Mutant: beginWork() returns before the work is retired. *)
EvaluateForgets(w) ==
    LET i == starting[w] IN
    /\ Free(w) /\ i # None
    /\ phase[i] = "resident" /\ stage[i] = "runs"
    /\ pending' = pending \ Requests(i)
    /\ count' = [count EXCEPT !.inflight = @ - Cardinality(Requests(i)), !.starting = @ - 1]
    /\ starting' = [starting EXCEPT ![w] = None]
    /\ home' = [home EXCEPT ![i] = None]
    /\ UNCHANGED <<cancelled, closed, seen, reported, transfer, phase, stage, claims,
                   runner, follow, pc, drain, host>>

(* The module's evaluation throws in beginWork(). *)
EvaluateFails(w) ==
    LET i == starting[w] IN
    /\ Free(w) /\ i # None
    /\ phase[i] = "resident" /\ stage[i] = "runs"
    /\ pending' = pending \ Requests(i)
    /\ Retire(w, i, Abandoned(i, count))
    /\ UNCHANGED <<cancelled, closed, seen, reported, transfer, claims, runner, worker, host>>

-----------------------------------------------------------------------------
(* A script runs: what it calls, and what step() finds of its promise.     *)

Runs(w, i) ==
    /\ Free(w)
    /\ home[i] = w /\ phase[i] = "resident"
    /\ starting[w] \in {None, i}

(* idhan.request() and idhan.import(). *)
StartTransfer(w, i) ==
    /\ Runs(w, i)
    /\ stage[i] = "runs"
    /\ \E t \in Transfers, import \in BOOLEAN : Track(w, i, t, import, count)
    /\ UNCHANGED <<cancelled, closed, seen, reported, works, runner, worker, drain, host>>

(* follow() looks at m_seen, and asks the observer without the lock ... *)
Follow(w, i, u) ==
    /\ Runs(w, i)
    /\ stage[i] = "runs"
    /\ Accepts
    /\ u \notin seen
    /\ follow' = [follow EXCEPT ![w] = u]
    /\ pc' = [pc EXCEPT ![w] = "claims"]
    /\ UNCHANGED <<session, reported, transfer, works, runner, starting, drain, host>>

(* Mutant: the link was not seen a moment ago, so it is taken. *)
ClaimBlindly(w) ==
    LET u == follow[w] IN
    /\ pc[w] = "claims"
    /\ pc' = [pc EXCEPT ![w] = "loops"]
    /\ seen' = seen \cup {u}
    /\ claims' = [claims EXCEPT ![u] = @ + 1]
    /\ phase' = [phase EXCEPT ![u] = "reserved"]
    /\ UNCHANGED <<cancelled, closed, count, pending, reported, transfer, stage, home,
                   runner, starting, follow, drain, host>>

(* ... it may be imported already; else it is claimed, unless it was seen
   meanwhile.  A link that is filtered changes nothing. *)
Claim(w) ==
    LET u == follow[w] IN
    /\ pc[w] = "claims"
    /\ pc' = [pc EXCEPT ![w] = "loops"]
    /\ \/ /\ u \notin seen
          /\ seen' = seen \cup {u}
          /\ claims' = [claims EXCEPT ![u] = @ + 1]
          /\ phase' = [phase EXCEPT ![u] = "reserved"]
          /\ UNCHANGED follow
       \/ /\ seen' = seen \cup {u}
          /\ follow' = FollowOver(w)
          /\ UNCHANGED <<claims, phase>>
    /\ UNCHANGED <<cancelled, closed, count, pending, reported, transfer, stage, home,
                   runner, starting, drain, host>>

(* startWork() steps a new work once, which may send its first transfers,
   before it gives up the start slot; a work that could not start gives the
   slot up at once. *)
ReleaseStart(w) ==
    /\ Free(w) /\ starting[w] # None
    /\ phase[starting[w]] \in {"resident", "retired"}
    /\ starting' = [starting EXCEPT ![w] = None]
    /\ count' = [count EXCEPT !.starting = Lowered(@)]
    /\ UNCHANGED <<cancelled, closed, seen, pending, reported, transfer, works, runner,
                   follow, pc, drain, host>>

(* advance(): when the promise of a script is settled the work has its
   outcome ... *)
Step(w, i) ==
    /\ Runs(w, i) /\ starting[w] = None
    /\ stage[i] = "runs"
    /\ stage' = [stage EXCEPT ![i] = "done"]
    /\ UNCHANGED <<session, reported, transfer, phase, claims, home, runner, worker, drain, host>>

(* Mutant: a work is released with its outcome, whatever it has in flight. *)
ReleaseEarly(w, i) ==
    /\ Runs(w, i) /\ starting[w] = None
    /\ stage[i] = "done"
    /\ Retire(w, i, count)
    /\ UNCHANGED <<cancelled, closed, seen, pending, reported, transfer, claims,
                   runner, worker, host>>

(* ... and a work that is done is released when its requests are. *)
Release(w, i) ==
    /\ Runs(w, i) /\ starting[w] = None
    /\ stage[i] = "done"
    /\ Requests(i) = {}
    /\ Retire(w, i, count)
    /\ UNCHANGED <<cancelled, closed, seen, pending, reported, transfer, claims,
                   runner, worker, host>>

-----------------------------------------------------------------------------
(* A transfer is answered, and its answer settled by the worker it is of.  *)

At(t, place) == [transfer EXCEPT ![t].at = place]
Over(t) == [transfer EXCEPT ![t] = [Unused EXCEPT !.at = "over"]]

(* deliver() on a thread of the lanes stores the answer, unless the entry
   was abandoned, and complete() looks whether the runner still runs; ... *)
Answer(t) ==
    /\ transfer[t].at = "sent" /\ lanes
    /\ transfer' = IF t \notin pending THEN Over(t) ELSE At(t, IF running THEN "passed" ELSE "refused")
    /\ UNCHANGED <<session, reported, works, runner, worker, drain, host>>

(* ... the answer goes into the inbox of the worker; ... *)
Inbox(t) ==
    /\ transfer[t].at = "passed"
    /\ transfer' = At(t, "inbox")
    /\ UNCHANGED <<session, reported, works, runner, worker, drain, host>>

(* ... if it was refused the entry is erased here. *)
Refused(t) ==
    /\ transfer[t].at = "refused"
    /\ transfer' = Over(t)
    /\ pending' = pending \ {t}
    /\ count' = IF t \in pending THEN [count EXCEPT !.inflight = Lowered(@)] ELSE count
    /\ drain' = [drain EXCEPT ![t] = "check"]
    /\ UNCHANGED <<cancelled, closed, seen, reported, works, runner, worker, host>>

(* settle() takes the entry out of m_pending ... *)
Settle(w, t) ==
    /\ Looping(w)
    /\ transfer[t].at = "inbox" /\ transfer[t].worker = w
    /\ IF t \in pending
       THEN /\ pending' = pending \ {t}
            /\ count' = [count EXCEPT !.inflight = Lowered(@)]
            /\ transfer' = At(t, "settling")
            /\ pc' = [pc EXCEPT ![w] = "settles"]
       ELSE /\ transfer' = Over(t)
            /\ UNCHANGED <<pending, count, pc>>
    /\ UNCHANGED <<cancelled, closed, seen, reported, works, runner, starting, follow, drain, host>>

(* Mutant: settle() leaves the look at the session to retire(). *)
SettledQuietly(w, t) ==
    /\ pc[w] = "settles"
    /\ transfer[t].at = "settling" /\ transfer[t].worker = w
    /\ transfer' = Over(t)
    /\ pc' = [pc EXCEPT ![w] = "loops"]
    /\ UNCHANGED <<session, reported, works, runner, starting, follow, drain, host>>

(* ... tells the observer or the script, and then looks at the session. *)
Settled(w, t) ==
    /\ pc[w] = "settles"
    /\ transfer[t].at = "settling" /\ transfer[t].worker = w
    /\ transfer' = Over(t)
    /\ pc' = [pc EXCEPT ![w] = "loops"]
    /\ drain' = [drain EXCEPT ![w] = "check"]
    /\ UNCHANGED <<session, reported, works, runner, starting, follow, host>>

-----------------------------------------------------------------------------
(* The end of a script thread.                                             *)

(* The loop ends, and discardAll() abandons and releases what is resident. *)
LoopEnds(w) ==
    /\ Looping(w) /\ ~running
    /\ pc' = [pc EXCEPT ![w] = "discards"]
    /\ UNCHANGED <<session, reported, transfer, works, runner, starting, follow, drain, host>>

Residents(w) == {i \in Works : home[i] = w /\ phase[i] = "resident"}

DiscardOne(w) ==
    /\ pc[w] = "discards" /\ drain[w] = "no"
    /\ \E i \in Residents(w) :
          /\ pending' = pending \ Requests(i)
          /\ Retire(w, i, Abandoned(i, count))
    /\ UNCHANGED <<cancelled, closed, seen, reported, transfer, claims, runner, worker, host>>

(* What is left in the inbox is dropped, with its entries in m_pending. *)
ClearInbox(w) ==
    /\ pc[w] = "discards" /\ drain[w] = "no"
    /\ Residents(w) = {}
    /\ pc' = [pc EXCEPT ![w] = "ended"]
    /\ transfer' = [t \in Transfers |->
                        IF transfer[t].at = "inbox" /\ transfer[t].worker = w
                        THEN [Unused EXCEPT !.at = "lost", !.import = transfer[t].import]
                        ELSE transfer[t]]
    /\ UNCHANGED <<session, reported, works, runner, starting, follow, drain, host>>

-----------------------------------------------------------------------------
(* The thread of the host that ends the session makes its calls in order.  *)

Calling(call) == calls # <<>> /\ Head(calls) = call /\ drain["host"] = "no"

(* DownloadSessionManager::destroy() takes the session from the manager and
   cancels it; the lanes answer a cancelled transfer like any other. *)
Destroy ==
    /\ owner = "manager"
    /\ owner' = "destroy"
    /\ cancelled' = TRUE
    /\ calls' = DestroyCalls
    /\ UNCHANGED <<closed, seen, count, pending, reported, transfer, works, runner, worker, drain,
                   dropped, lanes>>

(* Its shutdown() takes the sessions that are left and closes them. *)
Shutdown ==
    /\ owner = "manager"
    /\ owner' = "shutdown"
    /\ closed' = TRUE
    /\ calls' = ShutdownCalls
    /\ UNCHANGED <<cancelled, seen, count, pending, reported, transfer, works, runner, worker, drain,
                   dropped, lanes>>

Close ==
    /\ Calling("close")
    /\ closed' = TRUE
    /\ calls' = Tail(calls)
    /\ UNCHANGED <<cancelled, seen, count, pending, reported, transfer, works, runner, worker, drain,
                   dropped, owner, lanes>>

(* Mutant: stop() does not join the script threads. *)
DiscardUnjoined ==
    /\ Calling("discard") \/ Calling("join")
    /\ dropped' = {queue[n] : n \in 1..Len(queue)}
    /\ queue' = <<>>
    /\ calls' = IF queue = <<>> THEN Tail(Tail(calls)) ELSE Tail(calls)
    /\ UNCHANGED <<session, reported, transfer, works, running, worker, drain, owner, lanes>>

(* ScriptRunner::discard(), and the end of stop() after the join. *)
Discard ==
    /\ \/ Calling("discard")
       \/ Calling("join") /\ \A w \in Workers : pc[w] = "ended"
    /\ dropped' = {queue[n] : n \in 1..Len(queue)}
    /\ queue' = <<>>
    /\ calls' = IF queue = <<>> THEN Tail(Tail(calls)) ELSE Tail(calls)
    /\ UNCHANGED <<session, reported, transfer, works, running, worker, drain, owner, lanes>>

RetireDropped ==
    /\ Calling("retire")
    /\ \E i \in dropped :
          /\ RetireQueued("host", i)
          /\ dropped' = dropped \ {i}
          /\ calls' = IF dropped = {i} THEN Tail(calls) ELSE calls
    /\ UNCHANGED <<cancelled, closed, seen, pending, reported, transfer, claims,
                   runner, worker, owner, lanes>>

(* wait() blocks until the session is idle, or closed. *)
Wait ==
    /\ Calling("wait")
    /\ closed \/ Idle
    /\ calls' = Tail(calls)
    /\ UNCHANGED <<session, reported, transfer, works, runner, worker, drain, dropped, owner, lanes>>

(* ScriptRunner::stop(). *)
Stop ==
    /\ Calling("stop")
    /\ running' = FALSE
    /\ calls' = Tail(calls)
    /\ UNCHANGED <<session, reported, transfer, works, queue, worker, drain, dropped, owner, lanes>>

(* LanePool::shutdown() posts the end of the shards to the IO threads and asks
   their loops to end; it waits for neither, and they may still answer. *)
StopLanes ==
    /\ Calling("lanes")
    /\ calls' = Tail(calls)
    /\ UNCHANGED <<session, reported, transfer, works, runner, worker, drain, dropped, owner, lanes>>

(* The host's session goes, and its observer with it. *)
Drop ==
    /\ Calling("drop")
    /\ owner' = None
    /\ calls' = Tail(calls)
    /\ UNCHANGED <<session, reported, transfer, works, runner, worker, drain, dropped, lanes>>

InCallback(t) == transfer[t].at \in {"passed", "refused"} \/ drain[t] # "no"

(* The downloader goes after the sessions, and ~IoThread joins the threads
   that run the callbacks. *)
JoinLanes ==
    /\ Calling("reset")
    /\ \A t \in Transfers : ~InCallback(t)
    /\ lanes' = FALSE
    /\ calls' = Tail(calls)
    /\ UNCHANGED <<session, reported, transfer, works, runner, worker, drain, dropped, owner>>

-----------------------------------------------------------------------------
Submitter(i) == Enqueue(i, i) \/ RunnerSubmit(i, i)

Script(w) ==
    \/ \E i \in Works : StartTransfer(w, i)
    \/ \E i \in Works, u \in Links : Follow(w, i, u)

Thread(w) ==
    \/ Take(w) \/ BeginWork(w) \/ EvaluateFails(w) \/ ReleaseStart(w) \/ Claim(w)
    \/ LoopEnds(w) \/ DiscardOne(w) \/ ClearInbox(w)
    \/ \E i \in Works : Step(w, i) \/ Release(w, i) \/ Enqueue(w, i) \/ RunnerSubmit(w, i)
    \/ \E t \in Transfers : Settle(w, t) \/ Settled(w, t)

Deliver(t) == Answer(t) \/ Inbox(t) \/ Refused(t)

Ends ==
    \/ Close \/ Discard \/ RetireDropped \/ Wait \/ Stop \/ StopLanes \/ Drop \/ JoinLanes

Drains(a) == ReportDrained(a) \/ OnFinished(a)

Next ==
    \/ \E i \in Roots : Submit(i) \/ Submitter(i)
    \/ \E w \in Workers : Thread(w) \/ Script(w)
    \/ \E t \in Transfers : Deliver(t)
    \/ Ends
    \/ \E a \in Actors : Drains(a)
    \/ Destroy \/ Shutdown

Spec == Init /\ [][Next]_vars

(* Threads run, the lanes answer while their threads do, and every script is settled
   in the end; nobody has to submit, to call into the session or to end it. *)
FairSpec ==
    /\ Spec
    /\ WF_vars(\E i \in Roots : Submitter(i))
    /\ \A w \in Workers : WF_vars(Thread(w))
    /\ WF_vars(\E t \in Transfers : Deliver(t))
    /\ WF_vars(Ends)
    /\ WF_vars(\E a \in Actors : Drains(a))

-----------------------------------------------------------------------------
(* The counters agree with what they count, although each is changed by
   several threads and lowered only "if > 0": m_outstanding the works counted
   in and not retired, m_queued those not begun, m_inflight_requests the
   entries of m_pending, m_starting the workers that start a work.  idle(),
   wait() and reserveStart() go by them. *)
CountersHonest ==
    LET Counted(places) == Cardinality({i \in Works : phase[i] \in places}) IN
    /\ count.outstanding = Counted({"counted", "queued", "taken", "resident"})
    /\ count.queued = Counted({"counted", "queued", "taken"})
    /\ count.inflight = Cardinality(pending)
    /\ count.starting = Cardinality({w \in Workers : starting[w] # None})

(* A pending request's execution is resident on the worker that will settle
   it: settle() follows Pending::execution without a lock. *)
ExecutionOutlivesRequest ==
    \A t \in pending : ~transfer[t].import =>
        /\ phase[transfer[t].work] = "resident"
        /\ home[transfer[t].work] = transfer[t].worker

(* A session that is idle and has not said so is about to: some thread is on
   its way into reportDrainedIfIdle().  And one that has said so is idle. *)
DrainNotLost ==
    /\ reported => Idle
    /\ Idle /\ ~reported /\ (\E i \in Works : phase[i] = "retired") =>
          \/ \E a \in Actors : drain[a] = "check"
          \/ \E w \in Workers : pc[w] = "settles"

(* Concurrent scripts that follow one link queue it once. *)
FollowedOnce == \A u \in Links : claims[u] <= 1

ObserverGone ==
    /\ owner = None
    /\ \A i \in Roots : phase[i] \notin {"reserved", "counted"} /\ drain[i] = "no"

ScriptsUseObserver ==
    \/ \E a \in Actors \ Transfers : drain[a] = "finish"
    \/ \E w \in Workers : pc[w] = "settles"
    \/ \E i \in Works : phase[i] \in {"taken", "resident"}

(* When shutdown() frees the observer, which the script threads borrow, none
   of them is still to call it: the runner has been stopped, its threads have
   ended and left no work behind, and neither they nor the host are in a
   report.  The transfer callbacks that borrow it as well are not included:
   their threads are joined later. *)
ShutdownOutlastsUse == ObserverGone /\ ~running => ~ScriptsUseObserver

(* The session drains: every work that was let in is retired, by its outcome,
   by the discard of the queue or by the stop of the runner; and every
   transfer is settled, unless the runner stops before. *)
SessionDrains == ~Idle ~> count.outstanding = 0 /\ (pending = {} \/ ~running)

(* destroy() and shutdown() return, whatever is in flight when they start. *)
EndReturns == calls # <<>> ~> calls = <<>>
=============================================================================
