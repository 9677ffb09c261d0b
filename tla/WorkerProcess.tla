--------------------------- MODULE WorkerProcess ---------------------------
(***************************************************************************)
(* The server's side of a module worker (modules/WorkerProcess.cpp) and    *)
(* the child process behind it (IDHANModules/runner-src/WorkerRunner.cpp). *)
(*                                                                         *)
(* A call is one coroutine in WorkerPool::dispatch.  It waits for the      *)
(* process's manifest, registers in m_calls, is posted to the child and is *)
(* resumed by its result or by the process's end.  Frames are abstracted   *)
(* to the calls they are about.  A child that crashed or hangs is one that *)
(* takes no further step until the IO thread finds out, which it may do at *)
(* any time.                                                               *)
(***************************************************************************)
EXTENDS Naturals, FiniteSets

CONSTANTS Callers,      \* calls of the server
          Nested,       \* calls that modules raise as callbacks
          Processes,    \* the processes that can exist at once
          PoolThreads,  \* threads of a child that run calls
          MaxDepth      \* modules.max_call_depth

VARIABLES proc,       \* the WorkerProcesses
          calls,      \* m_calls: the pairs of a call and the process that holds it
          pc, on,     \* where a call is, and its process
          outcome,    \* what its CallOutcome says
          at,         \* where its frame is
          raised      \* who raised a nested call, and at which depth

call == <<pc, on, outcome>>
process == <<proc, calls, pc, on, outcome, at, raised>>

Calls == Callers \cup Nested
None == "none"

ASSUME WorkerAssumption ==
    /\ PoolThreads \in Nat \ {0} /\ MaxDepth \in Nat
    /\ Callers \cap Nested = {} /\ None \notin Processes
    /\ "loops" \notin Calls /\ "rejects" \notin Calls

(* state: m_alive, and how far terminate() is; io: what the IO thread is in
   the middle of; busy: the last heartbeat counted running calls. *)
Unused == [state |-> "unused", kind |-> None, manifest |-> None, io |-> "loops", busy |-> FALSE]

Unraised == [call |-> None, by |-> None, depth |-> 0]

(* start(): a child is forked and m_alive set. *)
Started(kind) == [Unused EXCEPT !.state = "alive", !.kind = kind]

Alive(p) == proc[p].state = "alive"
ManifestSeen(p) == proc[p].manifest # None

(* terminate() up to the exchange of m_alive: one thread goes on. *)
Terminated(p) == [proc EXCEPT ![p] = [@ EXCEPT !.state = "ends", !.kind = None, !.busy = FALSE]]

-----------------------------------------------------------------------------
(* A call in a process: awaitManifestAsync() and call().                   *)

Waiters(p) == {k \in Calls : pc[k] = "waits" /\ on[k] = p}
Held(p) == {k \in Calls : <<k, p>> \in calls}

(* await_resume(): where a call goes when its wait for p's manifest is over. *)
Onward(p) == IF ManifestSeen(p) THEN "registers" ELSE "returned"

(* addManifestWaiter() stores nothing when there is nothing to wait for. *)
AwaitManifest(k) ==
    LET p == on[k] IN
    /\ pc[k] = "awaits"
    /\ pc' = [pc EXCEPT ![k] = IF ManifestSeen(p) \/ ~Alive(p) THEN Onward(p) ELSE "waits"]
    /\ outcome' = [outcome EXCEPT ![k] = IF pc'[k] = "returned" THEN "silent" ELSE @]
    /\ UNCHANGED <<proc, calls, on, at, raised>>

(* The timer resumes the call, and dispatch() ends the silent process. *)
ManifestTimesOut(k) ==
    /\ pc[k] = "waits"
    /\ Alive(on[k]) /\ ~ManifestSeen(on[k])
    /\ pc' = [pc EXCEPT ![k] = "ends"]
    /\ outcome' = [outcome EXCEPT ![k] = "silent"]
    /\ proc' = Terminated(on[k])
    /\ UNCHANGED <<calls, on, at, raised>>

(* Mutant: await_suspend() does not look at m_alive. *)
RegisterAnyway(k) ==
    /\ pc[k] = "registers"
    /\ calls' = calls \cup {<<k, on[k]>>}
    /\ at' = [at EXCEPT ![k] = "posting"]
    /\ pc' = [pc EXCEPT ![k] = "parked"]
    /\ UNCHANGED <<proc, on, outcome, raised>>

(* await_suspend() registers the call under m_calls_mutex if the process is
   alive, ... *)
Register(k) ==
    /\ pc[k] = "registers"
    /\ IF Alive(on[k])
       THEN /\ calls' = calls \cup {<<k, on[k]>>}
            /\ at' = [at EXCEPT ![k] = "posting"]
            /\ pc' = [pc EXCEPT ![k] = "parked"]
            /\ UNCHANGED outcome
       ELSE /\ outcome' = [outcome EXCEPT ![k] = "died"]
            /\ pc' = [pc EXCEPT ![k] = "returned"]
            /\ UNCHANGED <<calls, at>>
    /\ UNCHANGED <<proc, on, raised>>

(* finish(): only a call that is still registered is resumed. *)
Finish(k, p, result) ==
    /\ calls' = calls \ {<<k, p>>}
    /\ IF <<k, p>> \in calls
       THEN /\ outcome' = [outcome EXCEPT ![k] = result]
            /\ pc' = [pc EXCEPT ![k] = "returned"]
       ELSE UNCHANGED <<outcome, pc>>

(* ... and posts it.  post() fails when the process has died, or when the
   frame cannot be queued; if failAll() came first there is nothing left to
   finish. *)
Post(k) ==
    /\ at[k] = "posting"
    /\ \/ /\ Alive(on[k])
          /\ at' = [at EXCEPT ![k] = "queued"]
          /\ UNCHANGED <<calls, pc, outcome>>
       \/ /\ at' = [at EXCEPT ![k] = None]
          /\ Finish(k, on[k], "died")
    /\ UNCHANGED <<proc, on, raised>>

-----------------------------------------------------------------------------
(* The child.                                                              *)

(* The IO thread is in its loop: only there are frames sent and read. *)
Reads(p) == Alive(p) /\ proc[p].io = "loops"

Up(p) == Alive(p) /\ ManifestSeen(p)
In(p, place) == {k \in Calls : on[k] = p /\ at[k] = place}

(* The reply to a callback of k has still to come, or was lost: the pool
   thread of k waits for it, with no limit. *)
Blocked(k) == \E n \in Nested : raised[n].call = k /\ raised[n].by = on[k]

(* The IO thread sends what post() queued, and workerLoop() takes the call
   from the child's m_queue. *)
RunCall(p, k) ==
    /\ Reads(p) /\ Up(p)
    /\ k \in In(p, "queued")
    /\ Cardinality(In(p, "running")) < PoolThreads
    /\ at' = [at EXCEPT ![k] = "running"]
    /\ UNCHANGED <<proc, calls, call, raised>>

(* send() fails: the result is too large, or a descriptor of it cannot be
   duplicated.  That is logged; the thread takes the next call, and nothing
   tells the server. *)
LoseResult(p, k) ==
    /\ Up(p)
    /\ k \in In(p, "running") /\ ~Blocked(k)
    /\ at' = [at EXCEPT ![k] = "lost"]
    /\ UNCHANGED <<proc, calls, call, raised>>

(* The child counts its running calls; only maintain() looks at the count,
   and only at the shared process's. *)
Heartbeat(p) ==
    /\ Up(p) /\ proc[p].kind = "shared"
    /\ proc' = [proc EXCEPT ![p].busy = In(p, "running") # {}]
    /\ UNCHANGED <<calls, call, at, raised>>

-----------------------------------------------------------------------------
(* The IO thread.                                                          *)

(* handleFrame() of the manifest: the waiters are settled, unless it is not
   the one that was registered; ... *)
HandleManifest(p) ==
    /\ Reads(p) /\ ~ManifestSeen(p)
    /\ \/ /\ proc' = [proc EXCEPT ![p].manifest = "valid"]
          /\ pc' = [k \in Calls |-> IF k \in Waiters(p) THEN "registers" ELSE pc[k]]
       \/ /\ proc' = [proc EXCEPT ![p].manifest = "stale", ![p].io = "rejects"]
          /\ UNCHANGED pc
    /\ UNCHANGED <<calls, on, outcome, at, raised>>

(* Mutant: a stale manifest settles the waiters like any other. *)
RejectSettles(p) ==
    /\ proc[p].io = "rejects"
    /\ proc' = [proc EXCEPT ![p].io = "loops"]
    /\ pc' = [k \in Calls |-> IF k \in Waiters(p) THEN "registers" ELSE pc[k]]
    /\ UNCHANGED <<calls, on, outcome, at, raised>>

(* ... then the process ends. *)
RejectManifest(p) ==
    /\ proc[p].io = "rejects"
    /\ proc' = [IF Alive(p) THEN Terminated(p) ELSE proc EXCEPT ![p].io = "loops"]
    /\ UNCHANGED <<calls, call, at, raised>>

(* runCall() has sent a result, or the module's error, and it is read; ... *)
ReadResult(p, k) ==
    /\ Reads(p) /\ Up(p)
    /\ k \in In(p, "running") /\ ~Blocked(k)
    /\ proc' = [proc EXCEPT ![p].io = k]
    /\ at' = [at EXCEPT ![k] = None]
    /\ UNCHANGED <<calls, call, raised>>

(* ... it is finished when terminate() may have begun. *)
FinishResult(p, k) ==
    /\ proc[p].io = k
    /\ proc' = [proc EXCEPT ![p].io = "loops"]
    /\ Finish(k, p, "answered")
    /\ UNCHANGED <<on, at, raised>>

(* The channel is closed or broken, a frame invalid, the heartbeat late. *)
IoTerminates(p) ==
    /\ Reads(p)
    /\ proc' = Terminated(p)
    /\ UNCHANGED <<calls, call, at, raised>>

(* The rest of terminate(): settleManifestWaiters(), SIGKILL and waitpid(),
   and failAll(), which resumes what is registered with worker_died.  The
   threads that waited for a lost reply are gone with the child. *)
FailAll(p) ==
    /\ proc[p].state = "ends"
    /\ proc' = [proc EXCEPT ![p].state = "ended"]
    /\ calls' = {c \in calls : c[2] # p}
    /\ pc' = [k \in Calls |-> IF k \in Held(p) THEN "returned"
                              ELSE IF k \in Waiters(p) THEN Onward(p) ELSE pc[k]]
    /\ outcome' = [k \in Calls |-> IF k \in Held(p) THEN "died"
                                   ELSE IF k \in Waiters(p) /\ ~ManifestSeen(p) THEN "silent"
                                   ELSE outcome[k]]
    /\ at' = [k \in Calls |-> IF on[k] = p THEN None ELSE at[k]]
    /\ raised' = [n \in Nested |-> IF pc[n] = "over" /\ raised[n].by = p THEN Unraised ELSE raised[n]]
    /\ UNCHANGED on

-----------------------------------------------------------------------------
Io(p) ==
    \/ HandleManifest(p) \/ RejectManifest(p)
    \/ \E k \in Calls : ReadResult(p, k) \/ FinishResult(p, k)
=============================================================================
