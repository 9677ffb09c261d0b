-------------------------------- MODULE Lane --------------------------------
(***************************************************************************)
(* HTTP requests to one host (IDHANDownloader/http: LanePool, Lane,        *)
(* LaneShard, IoThread).  An exchange is dispatched to the lane of its     *)
(* host, queued there, started on the thread of the lane's shard when the  *)
(* policy lets it, and answered; a redirect or a 429 dispatches it again   *)
(* from that thread.  Another thread may cancel it, and a sweep retires    *)
(* the lane when it is idle.                                               *)
(*                                                                         *)
(* Every critical section is one step.  A lane has one shard: the shards   *)
(* of a lane share its counters and do not know of each other.             *)
(***************************************************************************)
EXTENDS Naturals, Sequences, FiniteSets, Functions

CONSTANTS Exchanges,
          Cancellable,  \* those somebody may cancel
          MaxLanes,     \* bound on the lanes made for the host
          Ceiling,      \* LanePolicy::concurrency
          Deadlines,    \* when a refused claim may be tried again
          MaxHops       \* bound on the redirects and retries of all exchanges

ASSUME LaneAssumption ==
    /\ Cancellable \subseteq Exchanges
    /\ MaxLanes \in Nat \ {0} /\ Ceiling \in Nat \ {0}
    /\ Deadlines \subseteq Nat \ {0}
    /\ MaxHops \in Nat

VARIABLES
    \* the exchanges
    at,          \* where an exchange is
    lane,        \* the lane it was dispatched to
    via,         \* the lane whose thread dispatches it, 0: the sender's
    hops,        \* how often one was dispatched again
    answers,     \* how often its callback was called
    flag,        \* its cancellation flag
    canceller,   \* where the caller of LanePool::cancel is
    aim,         \* the lane that caller found
    \* the pool
    current,     \* the host's entry of m_lanes, 0: none
    made,        \* lanes made so far
    shutting,    \* lanes taken out of m_lanes and not yet shut down
    pool,        \* "running" or "stopped": LanePool::m_stopped
    \* the lanes
    queue, inflight, stopped, gate,   \* m_queue, m_in_flight, m_stopped, m_gate
    timers,      \* wakeups posted to m_timer_thread, by their deadline
    due,         \* somebody is about to call pump()
    posts,       \* tasks posted to the shard's thread
    active,      \* LaneShard::m_active
    thread       \* what that thread is doing

exchange == <<at, lane, via, hops, answers>>
cancel == <<flag, canceller, aim>>
wakeup == <<gate, timers>>
shard == <<posts, active>>
vars == <<exchange, cancel, current, made, shutting, pool, queue,
          inflight, stopped, wakeup, due, shard, thread>>

Lanes == 1..MaxLanes

Post(task, x) == [task |-> task, of |-> x]
Shutdown == [task |-> "shutdown"]

(* m_gate.  fresh: its generation is the policy's.  What it holds besides is
   not looked at when it is not armed. *)
Unarmed == [armed |-> FALSE, deadline |-> 0, fresh |-> FALSE]
Armed(d) == [armed |-> TRUE, deadline |-> d, fresh |-> TRUE]

Init ==
    /\ at = [x \in Exchanges |-> "unsent"]
    /\ lane = [x \in Exchanges |-> 0]
    /\ via = [x \in Exchanges |-> 0]
    /\ hops = 0
    /\ answers = [x \in Exchanges |-> 0]
    /\ flag = [x \in Exchanges |-> FALSE]
    /\ canceller = [x \in Exchanges |-> "idle"]
    /\ aim = [x \in Exchanges |-> 0]
    /\ current = 0 /\ made = 0 /\ shutting = {}
    /\ pool = "running"
    /\ queue = [l \in Lanes |-> <<>>]
    /\ inflight = [l \in Lanes |-> 0]
    /\ stopped = [l \in Lanes |-> FALSE]
    /\ gate = [l \in Lanes |-> Unarmed]
    /\ timers = [l \in Lanes |-> {}]
    /\ due = [l \in Lanes |-> FALSE]
    /\ posts = [l \in Lanes |-> <<>>]
    /\ active = [l \in Lanes |-> {}]
    /\ thread = [l \in Lanes |-> "idle"]

(* The callbacks of the exchanges S are called.  lane and via are locals of
   a dispatch() and are forgotten when it returns. *)
Answer(S) ==
    /\ at' = [x \in Exchanges |-> IF x \in S THEN "answered" ELSE at[x]]
    /\ answers' = [x \in Exchanges |-> answers[x] + (IF x \in S THEN 1 ELSE 0)]
    /\ lane' = [x \in Exchanges |-> IF x \in S THEN 0 ELSE lane[x]]
    /\ via' = [x \in Exchanges |-> IF x \in S THEN 0 ELSE via[x]]
    /\ UNCHANGED hops

MoveTo(x, place) ==
    /\ at' = [at EXCEPT ![x] = place]
    /\ UNCHANGED <<lane, via, hops, answers>>

-----------------------------------------------------------------------------
(* LanePool::dispatch.                                                     *)

(* dispatch() returns, on a shard's thread to the finish() it came from. *)
DispatchEnds(x) ==
    thread' = IF via[x] = 0 THEN thread ELSE [thread EXCEPT ![via[x]] = "ending"]

(* Sessions send from the script runner, which is stopped before the pool. *)
Send(x) ==
    /\ at[x] = "unsent"
    /\ pool = "running"
    /\ MoveTo(x, "new")
    /\ UNCHANGED <<cancel, current, made, shutting, pool, queue,
                   inflight, stopped, wakeup, due, shard, thread>>

(* A cancelled exchange and one with a bad URL are answered at once. *)
CheckFlag(x) ==
    /\ at[x] = "new"
    /\ \/ Answer({x}) /\ DispatchEnds(x)
       \/ ~flag[x] /\ MoveTo(x, "checked") /\ UNCHANGED thread
    /\ UNCHANGED <<cancel, current, made, shutting, pool, queue,
                   inflight, stopped, wakeup, due, shard>>

LaneFor(x) ==
    /\ at[x] = "checked"
    /\ \/ /\ pool # "running"
          /\ Answer({x}) /\ DispatchEnds(x)
          /\ UNCHANGED <<current, made>>
       \/ /\ pool = "running"
          /\ current' = IF current = 0 THEN made + 1 ELSE current
          /\ made' = IF current = 0 THEN made + 1 ELSE made
          /\ at' = [at EXCEPT ![x] = "found"]
          /\ lane' = [lane EXCEPT ![x] = current']
          /\ UNCHANGED <<via, hops, answers, thread>>
    /\ UNCHANGED <<cancel, shutting, pool, queue, inflight, stopped,
                   wakeup, due, shard>>

Submit(x) ==
    /\ at[x] = "found"
    /\ IF stopped[lane[x]]
       THEN Answer({x}) /\ UNCHANGED <<queue, due>>
       ELSE /\ queue' = [queue EXCEPT ![lane[x]] = Append(@, x)]
            /\ due' = [due EXCEPT ![lane[x]] = TRUE]
            /\ at' = [at EXCEPT ![x] = "queued"]
            /\ lane' = [lane EXCEPT ![x] = 0]
            /\ via' = [via EXCEPT ![x] = 0]
            /\ UNCHANGED <<hops, answers>>
    /\ DispatchEnds(x)
    /\ UNCHANGED <<cancel, current, made, shutting, pool, inflight,
                   stopped, wakeup, shard>>

-----------------------------------------------------------------------------
(* Lane::pump.                                                             *)

Free(l) ==
    IF stopped[l] \/ inflight[l] >= Ceiling THEN 0
    ELSE IF Len(queue[l]) < Ceiling - inflight[l] THEN Len(queue[l])
    ELSE Ceiling - inflight[l]

(* A wakeup that is armed for no later replaces none. *)
Arm(l, d) ==
    IF gate[l].armed /\ gate[l].fresh /\ gate[l].deadline <= d
    THEN UNCHANGED wakeup
    ELSE /\ gate' = [gate EXCEPT ![l] = Armed(d)]
         /\ timers' = [timers EXCEPT ![l] = @ \cup {d}]

(* The first n of the queue are started. *)
StartFirst(l, n) ==
    LET started == SubSeq(queue[l], 1, n)
    IN  /\ queue' = [queue EXCEPT ![l] = SubSeq(@, n + 1, Len(@))]
        /\ inflight' = [inflight EXCEPT ![l] = @ + n]
        /\ posts' = [posts EXCEPT ![l] =
                        @ \o [i \in 1..n |-> Post("start", started[i])]]
        /\ at' = [x \in Exchanges |->
                     IF x \in Range(started) THEN "posted" ELSE at[x]]

(* pump() starts all it can, or stops at the first claim the policy refuses
   and arms a wakeup. *)
Pump(l, n) ==
    /\ due[l]
    /\ n \in 0..Free(l)
    /\ due' = [due EXCEPT ![l] = FALSE]
    /\ StartFirst(l, n)
    /\ IF n = Free(l) THEN UNCHANGED wakeup ELSE \E d \in Deadlines : Arm(l, d)
    /\ UNCHANGED <<lane, via, hops, answers, cancel, current, made, shutting,
                   pool, stopped, active, thread>>

(* The wakeup of a gate that was replaced does nothing. *)
TimerFires(l, d) ==
    /\ d \in timers[l]
    /\ timers' = [timers EXCEPT ![l] = @ \ {d}]
    /\ IF gate[l].armed /\ gate[l].deadline = d
       THEN /\ gate' = [gate EXCEPT ![l] = Unarmed]
            /\ due' = [due EXCEPT ![l] = TRUE]
       ELSE UNCHANGED <<gate, due>>
    /\ UNCHANGED <<exchange, cancel, current, made, shutting, pool,
                   queue, inflight, stopped, shard, thread>>

(* LanePool::resetBackoff: the host's policy, which outlives its lanes,
   begins a generation, and the lane is pumped.  Without an armed gate it
   would only pump once more. *)
ResetBackoff ==
    /\ \E l \in Lanes : gate[l].fresh
    /\ gate' = [l \in Lanes |-> [gate[l] EXCEPT !.fresh = FALSE]]
    /\ due' = [l \in Lanes |-> due[l] \/ l = current]
    /\ UNCHANGED <<exchange, cancel, current, made, shutting, pool, queue,
                   inflight, stopped, timers, shard, thread>>

-----------------------------------------------------------------------------
(* The shard's thread.                                                     *)

Runs(l, task) ==
    /\ thread[l] = "idle"
    /\ posts[l] # <<>>
    /\ Head(posts[l]).task = task
    /\ posts' = [posts EXCEPT ![l] = Tail(@)]

(* Mutant: start() does not look at the flag. *)
StartBlindly(l, x) ==
    /\ Runs(l, "start") /\ Head(posts[l]).of = x
    /\ \/ /\ Answer({x})
          /\ thread' = [thread EXCEPT ![l] = "ending"]
          /\ UNCHANGED active
       \/ /\ active' = [active EXCEPT ![l] = @ \cup {x}]
          /\ MoveTo(x, "active")
          /\ UNCHANGED thread
    /\ UNCHANGED <<cancel, current, made, shutting, pool, queue,
                   inflight, stopped, wakeup, due>>

(* Mutant: a cancelled start() keeps its place in the lane. *)
StartLeaks(l, x) ==
    /\ Runs(l, "start") /\ Head(posts[l]).of = x
    /\ \/ /\ Answer({x})
          /\ UNCHANGED <<active, thread>>
       \/ /\ ~flag[x]
          /\ active' = [active EXCEPT ![l] = @ \cup {x}]
          /\ MoveTo(x, "active")
          /\ UNCHANGED thread
    /\ UNCHANGED <<cancel, current, made, shutting, pool, queue,
                   inflight, stopped, wakeup, due>>

(* start() answers a cancelled exchange, and one that libcurl refuses. *)
Start(l, x) ==
    /\ Runs(l, "start") /\ Head(posts[l]).of = x
    /\ \/ /\ Answer({x})
          /\ thread' = [thread EXCEPT ![l] = "ending"]
          /\ UNCHANGED active
       \/ /\ ~flag[x]
          /\ active' = [active EXCEPT ![l] = @ \cup {x}]
          /\ MoveTo(x, "active")
          /\ UNCHANGED thread
    /\ UNCHANGED <<cancel, current, made, shutting, pool, queue,
                   inflight, stopped, wakeup, due>>

(* finish(): the transfer failed or was answered ... *)
FinishAnswers(l, x) ==
    /\ thread[l] = "idle" /\ x \in active[l]
    /\ active' = [active EXCEPT ![l] = @ \ {x}]
    /\ thread' = [thread EXCEPT ![l] = "ending"]
    /\ Answer({x})
    /\ UNCHANGED <<cancel, current, made, shutting, pool, queue,
                   inflight, stopped, wakeup, due, posts>>

(* ... or a 429 or a redirect makes complete() dispatch it again. *)
FinishDispatches(l, x) ==
    /\ thread[l] = "idle" /\ x \in active[l]
    /\ hops < MaxHops
    /\ active' = [active EXCEPT ![l] = @ \ {x}]
    /\ thread' = [thread EXCEPT ![l] = "dispatching"]
    /\ at' = [at EXCEPT ![x] = "new"]
    /\ via' = [via EXCEPT ![x] = l]
    /\ hops' = hops + 1
    /\ UNCHANGED <<lane, answers, cancel, current, made, shutting, pool, queue, inflight, stopped, wakeup, due, posts>>

(* Mutant: a place that becomes free does not wake the queue. *)
TransferFinishedQuietly(l) ==
    /\ thread[l] = "ending"
    /\ inflight' = [inflight EXCEPT ![l] = IF @ > 0 THEN @ - 1 ELSE 0]
    /\ thread' = [thread EXCEPT ![l] = "idle"]
    /\ UNCHANGED <<exchange, cancel, current, made, shutting, pool,
                   queue, stopped, wakeup, shard, due>>

OnTransferFinished(l) ==
    /\ thread[l] = "ending"
    /\ inflight' = [inflight EXCEPT ![l] = IF @ > 0 THEN @ - 1 ELSE 0]
    /\ due' = [due EXCEPT ![l] = ~stopped[l]]
    /\ thread' = [thread EXCEPT ![l] = "idle"]
    /\ UNCHANGED <<exchange, cancel, current, made, shutting, pool,
                   queue, stopped, wakeup, shard>>

(* LaneShard::cancel. *)
CancelActive(l, x) ==
    /\ Runs(l, "cancel") /\ Head(posts[l]).of = x
    /\ IF x \in active[l]
       THEN /\ active' = [active EXCEPT ![l] = @ \ {x}]
            /\ thread' = [thread EXCEPT ![l] = "ending"]
            /\ Answer({x})
       ELSE UNCHANGED <<exchange, active, thread>>
    /\ UNCHANGED <<cancel, current, made, shutting, pool, queue,
                   inflight, stopped, wakeup, due>>

(* LaneShard::shutdown. *)
ShutDownShard(l) ==
    /\ Runs(l, "shutdown")
    /\ active' = [active EXCEPT ![l] = {}]
    /\ Answer(active[l])
    /\ UNCHANGED <<cancel, current, made, shutting, pool, queue,
                   inflight, stopped, wakeup, due, thread>>

-----------------------------------------------------------------------------
(* LanePool::cancel: the flag, the lanes, then each lane.                  *)

MarkCancelled(x) ==
    /\ x \in Cancellable
    /\ canceller[x] = "idle"
    /\ at[x] \notin {"unsent", "answered"}
    /\ flag' = [flag EXCEPT ![x] = TRUE]
    /\ canceller' = [canceller EXCEPT ![x] = "marked"]
    /\ UNCHANGED <<exchange, aim, current, made, shutting, pool,
                   queue, inflight, stopped, wakeup, due, shard, thread>>

ListLanes(x) ==
    /\ canceller[x] = "marked"
    /\ aim' = [aim EXCEPT ![x] = current]
    /\ canceller' = [canceller EXCEPT ![x] = IF current = 0 THEN "done" ELSE "listed"]
    /\ UNCHANGED <<exchange, flag, current, made, shutting, pool,
                   queue, inflight, stopped, wakeup, due, shard, thread>>

(* Mutant: Lane::cancel answers what it finds and leaves it in the queue. *)
CancelLaneKeeps(x) ==
    LET l == aim[x]
    IN  /\ canceller[x] = "listed"
        /\ canceller' = [canceller EXCEPT ![x] = "done"]
        /\ aim' = [aim EXCEPT ![x] = 0]
        /\ Answer({x} \cap Range(queue[l]))
        /\ posts' = [posts EXCEPT ![l] = IF stopped[l] THEN @
                                         ELSE Append(@, Post("cancel", x))]
        /\ UNCHANGED <<flag, current, made, shutting, pool,
                       queue, inflight, stopped, wakeup, due, active, thread>>

(* The queue after the loop that erases what has the flag of x, which is x
   itself: an exchange is queued once. *)
Without(q, x) ==
    IF \E i \in 1..Len(q) : q[i] = x
    THEN LET i == CHOOSE i \in 1..Len(q) : q[i] = x
         IN  [j \in 1..(Len(q) - 1) |-> q[IF j < i THEN j ELSE j + 1]]
    ELSE q

CancelLane(x) ==
    LET l == aim[x]
    IN  /\ canceller[x] = "listed"
        /\ canceller' = [canceller EXCEPT ![x] = "done"]
        /\ aim' = [aim EXCEPT ![x] = 0]
        /\ queue' = [queue EXCEPT ![l] = Without(@, x)]
        /\ Answer({x} \cap Range(queue[l]))
        /\ posts' = [posts EXCEPT ![l] = IF stopped[l] THEN @
                                         ELSE Append(@, Post("cancel", x))]
        /\ UNCHANGED <<flag, current, made, shutting, pool,
                       inflight, stopped, wakeup, due, active, thread>>

-----------------------------------------------------------------------------
(* LanePool::sweep and shutdown.                                           *)

(* It may be any time since the last exchange was queued. *)
Retirable(l) == queue[l] = <<>> /\ inflight[l] = 0

(* sweep() takes an idle lane out of the table ... *)
Retire ==
    /\ pool = "running"
    /\ current # 0 /\ made < MaxLanes
    /\ Retirable(current)
    /\ shutting' = shutting \cup {current}
    /\ current' = 0
    /\ UNCHANGED <<exchange, cancel, made, pool, queue, inflight,
                   stopped, wakeup, due, shard, thread>>

(* SessionContext::wait returns at once for a closed session, so exchanges
   may be outstanding when DownloaderContext::shutdown comes here.  At the end
   IoPool::stop ends the threads' loops, whatever is posted to them: they
   just take no more steps. *)
ShutdownPool ==
    /\ pool = "running"
    /\ pool' = "stopped"
    /\ shutting' = shutting \cup (IF current = 0 THEN {} ELSE {current})
    /\ current' = 0
    /\ UNCHANGED <<exchange, cancel, made, queue, inflight, stopped,
                   wakeup, due, shard, thread>>

(* ... and shuts it down afterwards: what it has queued meanwhile is
   answered, what it has started is left to the shard's thread.  pump()
   finds nothing to do in a stopped lane: its wakeups are forgotten. *)
ShutDownLane(l) ==
    /\ l \in shutting
    /\ shutting' = shutting \ {l}
    /\ stopped' = [stopped EXCEPT ![l] = TRUE]
    /\ queue' = [queue EXCEPT ![l] = <<>>]
    /\ posts' = [posts EXCEPT ![l] = Append(@, Shutdown)]
    /\ Answer(Range(queue[l]))
    /\ gate' = [gate EXCEPT ![l] = Unarmed]
    /\ timers' = [timers EXCEPT ![l] = {}]
    /\ due' = [due EXCEPT ![l] = FALSE]
    /\ UNCHANGED <<cancel, current, made, pool, inflight, active, thread>>

-----------------------------------------------------------------------------
Dispatch(x) == CheckFlag(x) \/ LaneFor(x) \/ Submit(x)

Task(l) ==
    \/ \E x \in Exchanges : Start(l, x) \/ CancelActive(l, x)
    \/ ShutDownShard(l) \/ OnTransferFinished(l)

Network(l, x) == FinishAnswers(l, x) \/ FinishDispatches(l, x)

Cancel(x) == ListLanes(x) \/ CancelLane(x)

Next ==
    \/ \E x \in Exchanges : Send(x) \/ Dispatch(x) \/ MarkCancelled(x) \/ Cancel(x)
    \/ \E l \in Lanes : \/ \E n \in 0..Ceiling : Pump(l, n)
                        \/ \E d \in Deadlines : TimerFires(l, d)
                        \/ Task(l)
                        \/ \E x \in Exchanges : Network(l, x)
                        \/ ShutDownLane(l)
    \/ ResetBackoff \/ Retire \/ ShutdownPool

Spec == Init /\ [][Next]_vars

(* Threads go on, timers fire, the network ends every transfer (libcurl has a
   connect timeout, and a total one only where a request sets it), and a pause
   of the policy is over some time, so that a claim that is tried again and
   again is granted. *)
FairSpec ==
    /\ Spec
    /\ \A x \in Exchanges : WF_vars(Dispatch(x))
    /\ \A l \in Lanes :
         /\ SF_vars(\E n \in 1..Ceiling : Pump(l, n))
         /\ WF_vars(\E d \in Deadlines : TimerFires(l, d))
         /\ WF_vars(Task(l))
         /\ WF_vars(\E x \in Exchanges : Network(l, x))

-----------------------------------------------------------------------------
(* The callback of an exchange is called once, although the queue, the
   shard, a canceller and a shutdown may each find it. *)
AnsweredOnce ==
    \A x \in Exchanges : answers[x] = IF at[x] = "answered" THEN 1 ELSE 0

Starting(l) == {i \in 1..Len(posts[l]) : posts[l][i].task = "start"}

(* m_in_flight counts the transfers a lane has started and not given back,
   on every error path, and stays within the ceiling: a place that leaks
   would narrow the lane until it stands still. *)
SlotsCounted ==
    \A l \in Lanes :
        ~stopped[l] =>
            /\ inflight[l] = Cardinality(active[l]) + Cardinality(Starting(l))
                               + (IF thread[l] = "idle" THEN 0 ELSE 1)
            /\ inflight[l] <= Ceiling

(* Once LanePool::cancel has returned, a transfer of the exchange is only
   left on a thread that has still to run the cancellation or a shutdown,
   whatever window of dispatch() it came in. *)
CancelReaches ==
    \A x \in Exchanges, l \in Lanes :
        (canceller[x] = "done" /\ x \in active[l]) =>
            \/ Post("cancel", x) \in Range(posts[l])
            \/ Shutdown \in Range(posts[l])
            \/ l \in shutting

(* Every exchange that is sent is answered: no queued one is left without a
   wakeup when a claim is refused, a place becomes free, the gate is
   replaced or the lane is retired under it.  A pool that shuts down may end
   its threads before they have answered. *)
EveryExchangeAnswered ==
    \A x \in Exchanges :
        at[x] = "new" ~> at[x] = "answered" \/ pool # "running"
=============================================================================
