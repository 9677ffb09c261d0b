----------------------------- MODULE WorkerPool -----------------------------
(***************************************************************************)
(* The pool of one module library (modules/WorkerPool.cpp): who gets which *)
(* process, the retry of a call whose process died, retirement and         *)
(* shutdown; and the callbacks that modules raise (ModuleLoader.cpp,       *)
(* runCallback), each a call of its own in a process of its own.           *)
(***************************************************************************)
EXTENDS WorkerProcess

VARIABLES persistent,    \* m_residency is PERSISTENT
          shared,        \* m_worker
          shuttingDown,  \* m_shutting_down
          retiring,      \* processes that maintain() or shutdown() took out
          attempt        \* which attempt of dispatch() a call is in

pool == <<persistent, shared, shuttingDown, retiring, attempt>>
vars == <<process, pool>>

Init ==
    /\ proc = [p \in Processes |-> Unused]
    /\ calls = {}
    /\ pc = [k \in Calls |-> IF k \in Callers THEN "acquires" ELSE "new"]
    /\ on = [k \in Calls |-> None]
    /\ outcome = [k \in Calls |-> None]
    /\ at = [k \in Calls |-> None]
    /\ raised = [n \in Nested |-> Unraised]
    /\ persistent \in BOOLEAN
    /\ shared = None
    /\ shuttingDown = FALSE
    /\ retiring = {}
    /\ attempt = [k \in Calls |-> 0]

-----------------------------------------------------------------------------
(* dispatch().  The server's calls are there from the start and take their *)
(* first step when they like; a nested call begins when it is raised.      *)

Isolated(k) == k \in Nested
Joins(k) == ~Isolated(k) /\ persistent
SingleUse(k) == Isolated(k) \/ ~persistent

(* Mutant: a callback is not isolated from the persistent worker. *)
AcquireSharedAlways(k) ==
    /\ pc[k] = "acquires"
    /\ persistent /\ shared # None
    /\ ~shuttingDown
    /\ Alive(shared)
    /\ on' = [on EXCEPT ![k] = shared]
    /\ pc' = [pc EXCEPT ![k] = "awaits"]
    /\ UNCHANGED <<proc, calls, outcome, at, raised, pool>>

(* acquire(), under m_mutex: the shared process if it is alive, ... *)
AcquireShared(k) ==
    /\ pc[k] = "acquires"
    /\ Joins(k) /\ shared # None
    /\ ~shuttingDown
    /\ Alive(shared)
    /\ on' = [on EXCEPT ![k] = shared]
    /\ pc' = [pc EXCEPT ![k] = "awaits"]
    /\ UNCHANGED <<proc, calls, outcome, at, raised, pool>>

NoShared == shared \notin {p \in Processes : Alive(p)}

(* Mutant: acquire() starts a process after shutdown(). *)
AcquireNewAnytime(k) ==
    LET p == CHOOSE q \in Processes : proc[q].state = "unused" IN
    /\ pc[k] = "acquires"
    /\ Joins(k) => NoShared
    /\ \E q \in Processes : proc[q].state = "unused"
    /\ proc' = [proc EXCEPT ![p] = Started(IF Joins(k) THEN "shared" ELSE "single")]
    /\ shared' = IF Joins(k) THEN p ELSE shared
    /\ on' = [on EXCEPT ![k] = p]
    /\ pc' = [pc EXCEPT ![k] = "awaits"]
    /\ UNCHANGED <<calls, outcome, at, raised, persistent, shuttingDown, retiring, attempt>>

(* ... or a new one, ... *)
AcquireNew(k) ==
    LET p == CHOOSE q \in Processes : proc[q].state = "unused" IN
    /\ pc[k] = "acquires"
    /\ ~shuttingDown
    /\ Joins(k) => NoShared
    /\ \E q \in Processes : proc[q].state = "unused"
    /\ proc' = [proc EXCEPT ![p] = Started(IF Joins(k) THEN "shared" ELSE "single")]
    /\ shared' = IF Joins(k) THEN p ELSE shared
    /\ on' = [on EXCEPT ![k] = p]
    /\ pc' = [pc EXCEPT ![k] = "awaits"]
    /\ UNCHANGED <<calls, outcome, at, raised, persistent, shuttingDown, retiring, attempt>>

(* dispatch() returns.  A nested call returns to runCallback(), which posts
   CALLBACK_RESULT to the process that waits for it, if that still lives; a
   post() that fails is only logged, and the module waits on. *)
ReturnFrom(k) ==
    /\ pc' = [pc EXCEPT ![k] = "over"]
    /\ on' = [on EXCEPT ![k] = None]
    /\ outcome' = [outcome EXCEPT ![k] = None]
    /\ attempt' = [attempt EXCEPT ![k] = 0]
    /\ \/ raised' = IF k \in Nested THEN [raised EXCEPT ![k] = Unraised] ELSE raised
       \/ /\ k \in Nested /\ Alive(raised[k].by)
          /\ UNCHANGED raised
    /\ UNCHANGED <<calls, at, persistent, shared, shuttingDown, retiring>>

(* ... or none: the system shuts down, or start() fails. *)
AcquireFails(k) ==
    /\ pc[k] = "acquires"
    /\ shuttingDown \/ ~Joins(k) \/ NoShared
    /\ ReturnFrom(k)
    /\ UNCHANGED proc

(* call() has returned; a process for one call ends with it, ... *)
EndSingleUse(k) ==
    /\ pc[k] = "returned"
    /\ SingleUse(k) /\ Alive(on[k])
    /\ pc' = [pc EXCEPT ![k] = "ends"]
    /\ proc' = Terminated(on[k])
    /\ UNCHANGED <<calls, on, outcome, at, raised, pool>>

(* ... and dispatch() goes on when terminate() has done its work, or had
   nothing to do. *)
Decides(k) ==
    \/ pc[k] = "returned" /\ ~(SingleUse(k) /\ Alive(on[k]))
    \/ pc[k] = "ends" /\ proc[on[k]].state = "ended"

(* An answer, or the second failure, is the outcome. *)
Return(k) ==
    /\ Decides(k)
    /\ outcome[k] = "answered" \/ attempt[k] = 1
    /\ ReturnFrom(k)
    /\ UNCHANGED proc

Dropped(p) == [proc EXCEPT ![p].kind = IF @ = "shared" THEN "dropped" ELSE @]

(* The first failure is tried again; the process of a failed call is not
   handed out again. *)
Retry(k) ==
    LET drops == outcome[k] = "died" /\ shared = on[k] IN
    /\ Decides(k)
    /\ outcome[k] # "answered" /\ attempt[k] = 0
    /\ attempt' = [attempt EXCEPT ![k] = 1]
    /\ shared' = IF drops THEN None ELSE shared
    /\ proc' = IF drops THEN Dropped(on[k]) ELSE proc
    /\ outcome' = [outcome EXCEPT ![k] = None]
    /\ on' = [on EXCEPT ![k] = None]
    /\ pc' = [pc EXCEPT ![k] = "acquires"]
    /\ UNCHANGED <<calls, at, raised, persistent, shuttingDown, retiring>>

-----------------------------------------------------------------------------
(* Callbacks.                                                              *)

Depth(k) == IF k \in Nested THEN raised[k].depth ELSE 0

(* A module calls back while it runs k: its thread waits in
   dispatchCallback(), and runCallback() dispatches a nested call unless the
   nesting is too deep. *)
RaiseCallback(k, n) ==
    /\ pc[n] = "new"
    /\ at[k] = "running" /\ ~Blocked(k)
    /\ Up(on[k]) /\ Reads(on[k])
    /\ Depth(k) + 1 <= MaxDepth
    /\ raised' = [raised EXCEPT ![n] = [call |-> k, by |-> on[k], depth |-> Depth(k) + 1]]
    /\ pc' = [pc EXCEPT ![n] = "acquires"]
    /\ UNCHANGED <<proc, calls, on, outcome, at, pool>>

-----------------------------------------------------------------------------
(* Retirement, shutdown and destruction.                                   *)

(* maintain() takes out the shared process when its last heartbeat counted no
   running call and it was too large or idle; ... *)
Maintain ==
    /\ shared # None
    /\ Alive(shared) /\ ~proc[shared].busy
    /\ retiring' = retiring \cup {shared}
    /\ shared' = None
    /\ UNCHANGED <<process, persistent, shuttingDown, attempt>>

Shutdown ==
    /\ ~shuttingDown
    /\ shuttingDown' = TRUE
    /\ retiring' = IF shared = None THEN retiring ELSE retiring \cup {shared}
    /\ shared' = None
    /\ UNCHANGED <<process, persistent, attempt>>

(* ... and it is terminated after the unlock. *)
TerminateRetired(p) ==
    /\ p \in retiring
    /\ retiring' = retiring \ {p}
    /\ proc' = IF Alive(p) THEN Terminated(p) ELSE proc
    /\ UNCHANGED <<calls, call, at, raised, persistent, shared, shuttingDown, attempt>>

(* The shared_ptrs to a process. *)
Owned(p) ==
    \/ p = shared \/ p \in retiring
    \/ \E k \in Calls : on[k] = p
    \/ \E n \in Nested : pc[n] # "over" /\ raised[n].by = p

(* ~WorkerProcess, on the thread of the last owner. *)
Destroy(p) ==
    /\ ~Owned(p)
    /\ \/ Alive(p) /\ proc' = Terminated(p)
       \/ /\ proc[p].state = "ended" /\ proc[p].io = "loops"
          /\ proc' = [proc EXCEPT ![p] = Unused]
    /\ UNCHANGED <<calls, call, at, raised, pool>>

-----------------------------------------------------------------------------
InProcess(k) == AwaitManifest(k) \/ ManifestTimesOut(k) \/ Register(k) \/ Post(k)

InPool(k) ==
    \/ AcquireShared(k) \/ AcquireNew(k) \/ AcquireFails(k)
    \/ EndSingleUse(k) \/ Return(k) \/ Retry(k)

Progress ==
    \/ \E k \in Calls : InPool(k) \/ (InProcess(k) /\ UNCHANGED pool)
    \/ \E p \in Processes : /\ Io(p) \/ FailAll(p) \/ \E k \in Calls : RunCall(p, k)
                           /\ UNCHANGED pool
    \/ \E p \in Processes : TerminateRetired(p) \/ Destroy(p)

Next ==
    \/ Progress
    \/ \E k \in Calls, n \in Nested : RaiseCallback(k, n)
    \/ \E p \in Processes : /\ Heartbeat(p) \/ IoTerminates(p) \/ \E k \in Calls : LoseResult(p, k)
                           /\ UNCHANGED pool
    \/ Maintain \/ Shutdown

Spec == Init /\ [][Next]_vars

(* Threads run, a module's calls end unless their process does, and a process
   that is silent or gone is noticed; nothing has to be dispatched, to fail,
   to be retired or to shut down.  Every step of Progress brings a call or a
   process nearer to its end, so one condition is enough for all of them. *)
FairSpec == Spec /\ WF_vars(Progress)

-----------------------------------------------------------------------------
(* A call is registered with a process exactly while its coroutine is parked
   in it, so that result, failed post and failAll() resume it once; and none
   is left registered with a process that has been failed. *)
RegisteredWhileParked ==
    /\ calls = {<<k, on[k]>> : k \in {c \in Calls : pc[c] = "parked"}}
    /\ \A c \in calls : proc[c[2]].state \notin {"unused", "ended"}

(* No call runs in a process whose modules are not the ones the server has
   indexed.  A call may be registered and posted between the stale manifest
   and terminate(), but only the IO thread sends frames. *)
NoStaleIndex ==
    \A k \in Calls : at[k] = "running" => proc[on[k]].manifest = "valid"

CallbacksIsolated ==
    \A n \in Nested : on[n] # None =>
        /\ on[n] # shared
        /\ \A k \in Calls \ {n} : on[k] # on[n]

OneSharedProcess ==
    \A p \in Processes : Alive(p) /\ proc[p].kind = "shared" => p = shared \/ p \in retiring

(* "A callback dispatch is isolated from the persistent worker": its process
   is not the shared one and no other call is in it.  And there is one live
   process for the shared calls: any other is about to be terminated by
   maintain() or shutdown(), or was given up by a call whose frame it did not
   take, although callers that fail replace it without knowing of each
   other. *)
ProcessesKeptApart == CallbacksIsolated /\ OneSharedProcess

(* A result, or the reply to a callback, was lost in p. *)
LostIn(p) ==
    \/ In(p, "lost") # {}
    \/ \E n \in Nested : pc[n] = "over" /\ raised[n].by = p

(* What is lost keeps the calls of its process and, when a callback runs
   there, whoever waits for the callback. *)
Kept(k) ==
    \E p \in Processes : LostIn(p) /\ (on[k] = p \/ \E n \in Nested : on[n] = p)

(* Every call returns to its client, although processes die, hang and are
   retired and modules wait for their own callbacks, unless the result or a
   callback's reply was lost in the process it depends on, which lives on: no
   other call is held up.  And once shutdown() has been called no process is
   left, except where something was lost in one that shutdown() does not know,
   a single-use or dropped one. *)
CallsEnd == \A k \in Calls : pc[k] \in {"new", "over"} \/ Kept(k)
ProcessesEnd ==
    \/ \A p \in Processes : proc[p].state = "unused"
    \/ \E p \in Processes : LostIn(p) /\ proc[p].kind # "shared"
Settled == CallsEnd /\ (shuttingDown => ProcessesEnd)
EverythingEnds == ~Settled ~> Settled
=============================================================================
