-------------------------- MODULE WorkerPoolProofs --------------------------
(***************************************************************************)
(* The pool's safety for any number of calls, callbacks and processes: one *)
(* inductive invariant, and the invariants of the run `worker' from it.    *)
(***************************************************************************)
EXTENDS WorkerPool, TLAPS

Places == {"new", "acquires", "awaits", "waits", "registers", "parked", "returned", "ends", "over"}
InProcessPlaces == {"awaits", "waits", "registers", "parked", "returned", "ends"}

Proc == [state : {"unused", "alive", "ends", "ended"},
         kind : {None, "shared", "single", "dropped"},
         manifest : {None, "valid", "stale"},
         io : {"loops", "rejects"} \cup Calls,
         busy : BOOLEAN]

TypeInv ==
    /\ proc \in [Processes -> Proc]
    /\ calls \subseteq Calls \X Processes
    /\ pc \in [Calls -> Places]
    /\ on \in [Calls -> Processes \cup {None}]
    /\ at \in [Calls -> {None, "posting", "queued", "running", "lost"}]
    /\ shared \in Processes \cup {None}
    /\ retiring \subseteq Processes

(* A call that is in a process has one, a process that someone holds has been
   started, and a call has a frame only while it is parked. *)
Placed ==
    /\ \A k \in Calls : pc[k] \in InProcessPlaces => on[k] \in Processes
    /\ \A p \in Processes : proc[p].state = "unused" => p # shared /\ \A k \in Calls : on[k] # p
    /\ \A k \in Calls : at[k] # None => pc[k] = "parked"

Registered ==
    /\ \A k \in Calls, p \in Processes : <<k, p>> \in calls <=> pc[k] = "parked" /\ on[k] = p
    /\ \A k \in Calls : pc[k] = "parked" => proc[on[k]].state \in {"alive", "ends"}

(* While the IO thread finishes a call that failAll() has not met yet, the call
   is parked and has no frame; a stale manifest is being rejected. *)
InHand ==
    /\ \A p \in Processes, k \in Calls :
          proc[p].io = k /\ proc[p].state \in {"alive", "ends"}
              => on[k] = p /\ pc[k] = "parked" /\ at[k] = None
    /\ \A p \in Processes : Alive(p) /\ proc[p].manifest = "stale" => proc[p].io = "rejects"

IInv == /\ TypeInv /\ Placed /\ Registered /\ InHand
        /\ NoStaleIndex /\ CallbacksIsolated /\ OneSharedProcess

-----------------------------------------------------------------------------
(* terminate() leaves a process of the same kind behind. *)
LEMMA TerminatedTyped ==
    ASSUME TypeInv, NEW p \in Processes
    PROVE  Terminated(p) \in [Processes -> Proc]
<1>1. proc[p] \in Proc
  BY DEF TypeInv
<1>2. [proc[p] EXCEPT !.state = "ends", !.kind = None, !.busy = FALSE] \in Proc
  BY <1>1 DEF Proc
<1> QED BY <1>2 DEF TypeInv, Terminated

(* AwaitManifest preserves the invariant. *)
LEMMA AwaitManifestKeeps ==
    ASSUME IInv, NEW k \in Calls, AwaitManifest(k), UNCHANGED pool
    PROVE  IInv'
<1>1. TypeInv'
  BY DEF IInv, TypeInv, Proc, Places, AwaitManifest, pool, Onward, ManifestSeen
<1>2. Placed' /\ Registered' /\ InHand' /\ NoStaleIndex' /\ CallbacksIsolated' /\ OneSharedProcess'
  BY DEF IInv, TypeInv, Placed, InProcessPlaces, Registered, InHand, Alive, NoStaleIndex,
     CallbacksIsolated, OneSharedProcess, AwaitManifest, pool, Onward, ManifestSeen
<1> QED BY <1>1, <1>2 DEF IInv

(* ManifestTimesOut preserves the invariant. *)
LEMMA ManifestTimesOutKeeps ==
    ASSUME IInv, NEW k \in Calls, ManifestTimesOut(k), UNCHANGED pool
    PROVE  IInv'
<1>1. TypeInv'
  BY TerminatedTyped DEF IInv, TypeInv, Placed, Places, InProcessPlaces, ManifestTimesOut, pool
<1>2. Placed' /\ Registered' /\ InHand' /\ NoStaleIndex' /\ CallbacksIsolated' /\ OneSharedProcess'
  BY DEF IInv, TypeInv, Placed, InProcessPlaces, Registered, InHand, Alive, NoStaleIndex,
     CallbacksIsolated, OneSharedProcess, ManifestTimesOut, pool, Terminated, ManifestSeen
<1> QED BY <1>1, <1>2 DEF IInv

(* Register preserves the invariant. *)
LEMMA RegisterKeeps ==
    ASSUME IInv, NEW k \in Calls, Register(k), UNCHANGED pool
    PROVE  IInv'
<1>1. TypeInv'
  BY DEF IInv, TypeInv, Placed, Proc, Places, Calls, InProcessPlaces, Alive, None, Register,
     pool
<1>2. Placed' /\ Registered' /\ InHand' /\ NoStaleIndex' /\ CallbacksIsolated' /\ OneSharedProcess'
  BY DEF IInv, TypeInv, Placed, InProcessPlaces, Registered, Calls, Alive, None, InHand,
     NoStaleIndex, CallbacksIsolated, OneSharedProcess, Register, pool
<1> QED BY <1>1, <1>2 DEF IInv

(* Post preserves the invariant. *)
LEMMA PostKeeps ==
    ASSUME IInv, NEW k \in Calls, Post(k), UNCHANGED pool
    PROVE  IInv'
<1>1. TypeInv'
  BY DEF IInv, TypeInv, Proc, Places, Post, pool, Finish
<1>2. Placed' /\ Registered' /\ InHand' /\ NoStaleIndex' /\ CallbacksIsolated' /\ OneSharedProcess'
  BY DEF IInv, TypeInv, Placed, InProcessPlaces, Calls, Alive, None, Registered, InHand,
     NoStaleIndex, CallbacksIsolated, OneSharedProcess, Post, pool, Finish
<1> QED BY <1>1, <1>2 DEF IInv

(* RunCall preserves the invariant. *)
LEMMA RunCallKeeps ==
    ASSUME IInv, NEW p \in Processes, NEW k \in Calls, RunCall(p, k), UNCHANGED pool
    PROVE  IInv'
<1>1. TypeInv'
  BY DEF IInv, TypeInv, Proc, Places, RunCall, pool, Reads, Up, In, ManifestSeen, call
<1>2. Placed' /\ Registered' /\ InHand' /\ CallbacksIsolated' /\ OneSharedProcess'
  BY DEF IInv, TypeInv, Placed, InProcessPlaces, Calls, Alive, None, Registered, InHand,
     CallbacksIsolated, OneSharedProcess, RunCall, pool, Reads, Up, In, ManifestSeen, call
<1>3. NoStaleIndex'
  BY DEF IInv, TypeInv, Placed, Registered, InHand, NoStaleIndex, Calls, InProcessPlaces, Alive,
     None, Proc, RunCall, pool, Reads, Up, In, ManifestSeen, call
<1> QED BY <1>1, <1>2, <1>3 DEF IInv

(* LoseResult preserves the invariant. *)
LEMMA LoseResultKeeps ==
    ASSUME IInv, NEW p \in Processes, NEW k \in Calls, LoseResult(p, k), UNCHANGED pool
    PROVE  IInv'
<1>1. TypeInv'
  BY DEF IInv, TypeInv, Proc, Places, LoseResult, pool, Up, In, ManifestSeen, call
<1>2. Placed' /\ Registered' /\ InHand' /\ NoStaleIndex' /\ CallbacksIsolated' /\ OneSharedProcess'
  BY DEF IInv, TypeInv, Placed, InProcessPlaces, Calls, Alive, None, Registered, InHand,
     NoStaleIndex, CallbacksIsolated, OneSharedProcess, LoseResult, pool, Up, In, ManifestSeen, call
<1> QED BY <1>1, <1>2 DEF IInv

(* Heartbeat preserves the invariant. *)
LEMMA HeartbeatKeeps ==
    ASSUME IInv, NEW p \in Processes, Heartbeat(p), UNCHANGED pool
    PROVE  IInv'
<1>1. TypeInv'
  <2>1. PICK b \in BOOLEAN : proc' = [proc EXCEPT ![p].busy = b]
    BY DEF Heartbeat
  <2> QED BY <2>1 DEF IInv, TypeInv, Proc, Heartbeat, pool, call
<1>2. Placed' /\ Registered' /\ InHand' /\ NoStaleIndex' /\ CallbacksIsolated' /\ OneSharedProcess'
  BY DEF IInv, TypeInv, Placed, InProcessPlaces, Registered, InHand, Alive, NoStaleIndex,
     CallbacksIsolated, OneSharedProcess, Heartbeat, pool, Up, call
<1> QED BY <1>1, <1>2 DEF IInv

(* HandleManifest preserves the invariant. *)
LEMMA HandleManifestKeeps ==
    ASSUME IInv, NEW p \in Processes, HandleManifest(p), UNCHANGED pool
    PROVE  IInv'
<1>1. TypeInv'
  BY DEF IInv, TypeInv, Proc, Places, HandleManifest, pool, Reads, ManifestSeen, Waiters
<1>2. CallbacksIsolated'
  BY DEF IInv, TypeInv, CallbacksIsolated, HandleManifest, pool, Reads, ManifestSeen, Waiters
<1>3. Placed'
  BY DEF IInv, TypeInv, Placed, InProcessPlaces, Calls, Alive, None, Proc, HandleManifest, pool,
     Reads, ManifestSeen, Waiters
<1>4. Registered'
  BY DEF IInv, TypeInv, Placed, Registered, Calls, InProcessPlaces, Alive, None, Proc,
     HandleManifest, pool, Reads, ManifestSeen, Waiters
<1>5. InHand'
  BY DEF IInv, TypeInv, Placed, InHand, Alive, Calls, InProcessPlaces, None, Proc,
     HandleManifest, pool, Reads, ManifestSeen, Waiters
<1>6. NoStaleIndex'
  BY DEF IInv, TypeInv, Placed, NoStaleIndex, Calls, InProcessPlaces, Alive, None, Proc,
     HandleManifest, pool, Reads, ManifestSeen, Waiters
<1>7. OneSharedProcess'
  BY DEF IInv, TypeInv, Placed, OneSharedProcess, Alive, InProcessPlaces, None, Proc,
     HandleManifest, pool, Reads, ManifestSeen, Waiters
<1> QED BY <1>1, <1>2, <1>3, <1>4, <1>5, <1>6, <1>7 DEF IInv

(* RejectManifest preserves the invariant. *)
LEMMA RejectManifestKeeps ==
    ASSUME IInv, NEW p \in Processes, RejectManifest(p), UNCHANGED pool
    PROVE  IInv'
<1>1. CASE Alive(p)
  <2>1. TypeInv'
    <3>1. Terminated(p) \in [Processes -> Proc]
      BY DEF IInv, TypeInv, Proc, Terminated
    <3>2. [Terminated(p) EXCEPT ![p].io = "loops"] \in [Processes -> Proc]
      BY <3>1 DEF Proc
    <3> QED BY <1>1, <3>2 DEF IInv, TypeInv, RejectManifest, pool, call
  <2>2. Placed' /\ CallbacksIsolated' /\ OneSharedProcess'
    BY <1>1 DEF IInv, TypeInv, Placed, InProcessPlaces, CallbacksIsolated, OneSharedProcess,
       Alive, RejectManifest, pool, Terminated, call
  <2>3. Registered'
    BY <1>1 DEF IInv, TypeInv, Placed, Registered, Calls, InProcessPlaces, Alive, None, Proc,
       RejectManifest, pool, Terminated, call
  <2>4. InHand'
    BY <1>1, WorkerAssumption DEF IInv, TypeInv, Placed, Registered, InHand, NoStaleIndex,
       CallbacksIsolated, OneSharedProcess, Places, InProcessPlaces, Alive, Calls, Proc, None,
       RejectManifest, pool, Terminated, call
  <2>5. NoStaleIndex'
    BY <1>1 DEF IInv, TypeInv, Placed, NoStaleIndex, Calls, InProcessPlaces, Alive, None, Proc,
       RejectManifest, pool, Terminated, call
  <2> QED BY <2>1, <2>2, <2>3, <2>4, <2>5 DEF IInv
<1>2. CASE ~Alive(p)
  <2>1. TypeInv'
    BY <1>2, WorkerAssumption DEF IInv, TypeInv, Placed, Registered, InHand, NoStaleIndex,
       CallbacksIsolated, OneSharedProcess, Places, InProcessPlaces, Alive, Calls, Proc, None,
       RejectManifest, pool, Terminated, call
  <2>2. Placed' /\ CallbacksIsolated' /\ OneSharedProcess'
    BY <1>2 DEF IInv, TypeInv, Placed, InProcessPlaces, CallbacksIsolated, OneSharedProcess,
       Alive, RejectManifest, pool, Terminated, call
  <2>3. Registered'
    BY <1>2 DEF IInv, TypeInv, Placed, Registered, Calls, InProcessPlaces, Alive, None, Proc,
       RejectManifest, pool, Terminated, call
  <2>4. InHand'
    BY <1>2, WorkerAssumption DEF IInv, TypeInv, Placed, Registered, InHand, NoStaleIndex,
       CallbacksIsolated, OneSharedProcess, Places, InProcessPlaces, Alive, Calls, Proc, None,
       RejectManifest, pool, Terminated, call
  <2>5. NoStaleIndex'
    BY <1>2 DEF IInv, TypeInv, Placed, NoStaleIndex, Calls, InProcessPlaces, Alive, None, Proc,
       RejectManifest, pool, Terminated, call
  <2> QED BY <2>1, <2>2, <2>3, <2>4, <2>5 DEF IInv
<1> QED BY <1>1, <1>2 DEF RejectManifest

(* ReadResult preserves the invariant. *)
LEMMA ReadResultKeeps ==
    ASSUME IInv, NEW p \in Processes, NEW k \in Calls, ReadResult(p, k), UNCHANGED pool
    PROVE  IInv'
<1>1. TypeInv'
  BY DEF IInv, TypeInv, Proc, Places, ReadResult, pool, Reads, Up, In, ManifestSeen, call
<1>2. Placed' /\ Registered' /\ NoStaleIndex' /\ CallbacksIsolated' /\ OneSharedProcess'
  BY DEF IInv, TypeInv, Placed, InProcessPlaces, Registered, NoStaleIndex, CallbacksIsolated,
     OneSharedProcess, Alive, ReadResult, pool, Reads, Up, In, ManifestSeen, call
<1>3. InHand'
  BY DEF IInv, TypeInv, Placed, InHand, Alive, Calls, InProcessPlaces, None, Proc, ReadResult,
     pool, Reads, Up, In, ManifestSeen, call
<1> QED BY <1>1, <1>2, <1>3 DEF IInv

(* FinishResult preserves the invariant. *)
LEMMA FinishResultKeeps ==
    ASSUME IInv, NEW p \in Processes, NEW k \in Calls, FinishResult(p, k), UNCHANGED pool
    PROVE  IInv'
<1>1. TypeInv'
  BY DEF IInv, TypeInv, Proc, Places, FinishResult, pool, Finish
<1>2. Registered' /\ NoStaleIndex' /\ CallbacksIsolated' /\ OneSharedProcess'
  BY DEF IInv, TypeInv, Registered, NoStaleIndex, CallbacksIsolated, OneSharedProcess, Alive,
     FinishResult, pool, Finish
<1>3. Placed'
  BY DEF IInv, TypeInv, Placed, Registered, InHand, InProcessPlaces, Calls, Alive, None, Proc,
     FinishResult, pool, Finish
<1>4. InHand'
  BY WorkerAssumption DEF IInv, TypeInv, Placed, Registered, InHand, NoStaleIndex,
     CallbacksIsolated, OneSharedProcess, Places, InProcessPlaces, Alive, Calls, Proc, None,
     FinishResult, pool, Finish
<1> QED BY <1>1, <1>2, <1>3, <1>4 DEF IInv

(* IoTerminates preserves the invariant. *)
LEMMA IoTerminatesKeeps ==
    ASSUME IInv, NEW p \in Processes, IoTerminates(p), UNCHANGED pool
    PROVE  IInv'
<1>1. TypeInv'
  BY TerminatedTyped DEF IInv, TypeInv, IoTerminates, pool, call
<1>2. Placed' /\ Registered' /\ InHand' /\ NoStaleIndex' /\ CallbacksIsolated' /\ OneSharedProcess'
  BY DEF IInv, TypeInv, Placed, InProcessPlaces, Registered, InHand, Alive, NoStaleIndex,
     CallbacksIsolated, OneSharedProcess, IoTerminates, pool, Reads, Terminated, call
<1> QED BY <1>1, <1>2 DEF IInv

(* FailAll preserves the invariant. *)
LEMMA FailAllKeeps ==
    ASSUME IInv, NEW p \in Processes, FailAll(p), UNCHANGED pool
    PROVE  IInv'
<1>1. TypeInv'
  BY DEF IInv, TypeInv, Proc, Places, FailAll, pool, Waiters, Held, Onward, ManifestSeen
<1>2. Registered' /\ NoStaleIndex' /\ CallbacksIsolated' /\ OneSharedProcess'
  BY DEF IInv, TypeInv, Registered, NoStaleIndex, Calls, Alive, None, CallbacksIsolated,
     OneSharedProcess, FailAll, pool, Waiters, Held, Onward, ManifestSeen
<1>3. Placed'
  BY DEF IInv, TypeInv, Placed, Registered, InHand, InProcessPlaces, Calls, Alive, None, Proc,
     FailAll, pool, Waiters, Held, Onward, ManifestSeen
<1>4. InHand'
  BY DEF IInv, TypeInv, Placed, Registered, InHand, Alive, Calls, InProcessPlaces, None, Proc,
     FailAll, pool, Waiters, Held, Onward, ManifestSeen
<1> QED BY <1>1, <1>2, <1>3, <1>4 DEF IInv

(* AcquireShared preserves the invariant. *)
LEMMA AcquireSharedKeeps ==
    ASSUME IInv, NEW k \in Calls, AcquireShared(k)
    PROVE  IInv'
<1>1. TypeInv'
  BY DEF IInv, TypeInv, Proc, Places, AcquireShared, Joins, Isolated, pool
<1>2. Placed' /\ Registered' /\ InHand' /\ CallbacksIsolated' /\ OneSharedProcess'
  BY DEF IInv, TypeInv, Placed, InProcessPlaces, Registered, InHand, Alive, CallbacksIsolated,
     OneSharedProcess, AcquireShared, Joins, Isolated, pool
<1>3. NoStaleIndex'
  BY DEF IInv, TypeInv, Placed, NoStaleIndex, Calls, InProcessPlaces, Alive, None, Proc,
     AcquireShared, Joins, Isolated, pool
<1> QED BY <1>1, <1>2, <1>3 DEF IInv

(* AcquireNew preserves the invariant. *)
LEMMA AcquireNewKeeps ==
    ASSUME IInv, NEW k \in Calls, AcquireNew(k)
    PROVE  IInv'
<1>1. TypeInv'
  BY DEF IInv, TypeInv, Proc, Places, AcquireNew, Joins, Isolated, NoShared, Started, Unused
<1>2. Placed' /\ Registered' /\ OneSharedProcess'
  BY DEF IInv, TypeInv, Placed, InProcessPlaces, Registered, OneSharedProcess, Alive,
     AcquireNew, Joins, Isolated, NoShared, Started, Unused
<1>3. InHand'
  BY WorkerAssumption DEF IInv, TypeInv, Placed, Registered, InHand, NoStaleIndex,
     CallbacksIsolated, OneSharedProcess, Places, InProcessPlaces, Alive, Calls, Proc, None,
     AcquireNew, Joins, Isolated, NoShared, Started, Unused
<1>4. NoStaleIndex'
  BY DEF IInv, TypeInv, Placed, NoStaleIndex, Calls, InProcessPlaces, Alive, None, Proc,
     AcquireNew, Joins, Isolated, NoShared, Started, Unused
<1>5. CallbacksIsolated'
  BY DEF IInv, TypeInv, Placed, CallbacksIsolated, Calls, InProcessPlaces, Alive, None, Proc,
     AcquireNew, Joins, Isolated, NoShared, Started, Unused
<1> QED BY <1>1, <1>2, <1>3, <1>4, <1>5 DEF IInv

(* AcquireFails preserves the invariant. *)
LEMMA AcquireFailsKeeps ==
    ASSUME IInv, NEW k \in Calls, AcquireFails(k)
    PROVE  IInv'
<1>1. TypeInv'
  BY DEF IInv, TypeInv, Proc, Places, AcquireFails, ReturnFrom
<1>2. Registered' /\ InHand' /\ CallbacksIsolated' /\ OneSharedProcess'
  BY DEF IInv, TypeInv, Registered, InHand, Alive, CallbacksIsolated, OneSharedProcess,
     AcquireFails, ReturnFrom
<1>3. Placed'
  BY WorkerAssumption DEF IInv, TypeInv, Placed, Registered, InHand, NoStaleIndex,
     CallbacksIsolated, OneSharedProcess, Places, InProcessPlaces, Alive, Calls, Proc, None,
     AcquireFails, ReturnFrom
<1>4. NoStaleIndex'
  BY DEF IInv, TypeInv, Placed, NoStaleIndex, Calls, InProcessPlaces, Alive, None, Proc,
     AcquireFails, ReturnFrom
<1> QED BY <1>1, <1>2, <1>3, <1>4 DEF IInv

(* EndSingleUse preserves the invariant. *)
LEMMA EndSingleUseKeeps ==
    ASSUME IInv, NEW k \in Calls, EndSingleUse(k)
    PROVE  IInv'
<1>1. TypeInv'
  BY TerminatedTyped DEF IInv, TypeInv, Placed, Places, InProcessPlaces, EndSingleUse, pool
<1>2. Placed' /\ Registered' /\ InHand' /\ NoStaleIndex' /\ CallbacksIsolated' /\ OneSharedProcess'
  BY DEF IInv, TypeInv, Placed, InProcessPlaces, Registered, InHand, Alive, NoStaleIndex,
     CallbacksIsolated, OneSharedProcess, EndSingleUse, Terminated, pool
<1> QED BY <1>1, <1>2 DEF IInv

(* Return preserves the invariant. *)
LEMMA ReturnKeeps ==
    ASSUME IInv, NEW k \in Calls, Return(k)
    PROVE  IInv'
<1>1. TypeInv'
  BY DEF IInv, TypeInv, Proc, Places, Return, ReturnFrom, Decides
<1>2. Registered' /\ InHand' /\ CallbacksIsolated' /\ OneSharedProcess'
  BY DEF IInv, TypeInv, Registered, InHand, Alive, CallbacksIsolated, OneSharedProcess, Return,
     ReturnFrom, Decides
<1>3. Placed'
  BY WorkerAssumption DEF IInv, TypeInv, Placed, Registered, InHand, NoStaleIndex,
     CallbacksIsolated, OneSharedProcess, Places, InProcessPlaces, Alive, Calls, Proc, None,
     Return, ReturnFrom, Decides
<1>4. NoStaleIndex'
  BY DEF IInv, TypeInv, Placed, NoStaleIndex, Calls, InProcessPlaces, Alive, None, Proc, Return,
     ReturnFrom, Decides
<1> QED BY <1>1, <1>2, <1>3, <1>4 DEF IInv

(* Retry preserves the invariant. *)
LEMMA RetryKeeps ==
    ASSUME IInv, NEW k \in Calls, Retry(k)
    PROVE  IInv'
<1>1. TypeInv'
  BY DEF IInv, TypeInv, Placed, Proc, Places, Calls, InProcessPlaces, Alive, None, Retry,
     Decides, Dropped
<1>2. Registered' /\ InHand' /\ CallbacksIsolated' /\ OneSharedProcess'
  BY DEF IInv, TypeInv, Registered, InHand, Alive, CallbacksIsolated, OneSharedProcess, Retry,
     Decides, Dropped
<1>3. Placed'
  BY WorkerAssumption DEF IInv, TypeInv, Placed, Registered, InHand, NoStaleIndex,
     CallbacksIsolated, OneSharedProcess, Places, InProcessPlaces, Alive, Calls, Proc, None,
     Retry, Decides, Dropped
<1>4. NoStaleIndex'
  BY DEF IInv, TypeInv, Placed, NoStaleIndex, Calls, InProcessPlaces, Alive, None, Proc, Retry,
     Decides, Dropped
<1> QED BY <1>1, <1>2, <1>3, <1>4 DEF IInv

(* RaiseCallback preserves the invariant. *)
LEMMA RaiseCallbackKeeps ==
    ASSUME IInv, NEW k \in Calls, NEW n \in Nested, RaiseCallback(k, n)
    PROVE  IInv'
<1>1. TypeInv'
  BY DEF IInv, TypeInv, Proc, Places, RaiseCallback, pool
<1>2. Placed' /\ Registered' /\ InHand' /\ NoStaleIndex' /\ CallbacksIsolated' /\ OneSharedProcess'
  BY DEF IInv, TypeInv, Placed, InProcessPlaces, Registered, InHand, Alive, NoStaleIndex,
     CallbacksIsolated, OneSharedProcess, RaiseCallback, pool
<1> QED BY <1>1, <1>2 DEF IInv

(* Maintain preserves the invariant. *)
LEMMA MaintainKeeps ==
    ASSUME IInv, Maintain
    PROVE  IInv'
<1>1. TypeInv'
  BY DEF IInv, TypeInv, Proc, Places, Maintain, process
<1>2. Registered' /\ InHand' /\ NoStaleIndex' /\ CallbacksIsolated' /\ OneSharedProcess'
  BY DEF IInv, TypeInv, Registered, InHand, Alive, NoStaleIndex, CallbacksIsolated,
     OneSharedProcess, Maintain, process
<1>3. Placed'
  BY WorkerAssumption DEF IInv, TypeInv, Placed, Registered, InHand, NoStaleIndex,
     CallbacksIsolated, OneSharedProcess, Places, InProcessPlaces, Alive, Calls, Proc, None,
     Maintain, process
<1> QED BY <1>1, <1>2, <1>3 DEF IInv

(* Shutdown preserves the invariant. *)
LEMMA ShutdownKeeps ==
    ASSUME IInv, Shutdown
    PROVE  IInv'
<1>1. TypeInv'
  BY DEF IInv, TypeInv, Proc, Places, Shutdown, process
<1>2. Registered' /\ InHand' /\ NoStaleIndex' /\ CallbacksIsolated' /\ OneSharedProcess'
  BY DEF IInv, TypeInv, Registered, InHand, Alive, NoStaleIndex, CallbacksIsolated,
     OneSharedProcess, Shutdown, process
<1>3. Placed'
  BY WorkerAssumption DEF IInv, TypeInv, Placed, Registered, InHand, NoStaleIndex,
     CallbacksIsolated, OneSharedProcess, Places, InProcessPlaces, Alive, Calls, Proc, None,
     Shutdown, process
<1> QED BY <1>1, <1>2, <1>3 DEF IInv

(* TerminateRetired preserves the invariant. *)
LEMMA TerminateRetiredKeeps ==
    ASSUME IInv, NEW p \in Processes, TerminateRetired(p)
    PROVE  IInv'
<1>1. TypeInv'
  BY TerminatedTyped DEF IInv, TypeInv, TerminateRetired, call
<1>2. Placed' /\ Registered' /\ InHand' /\ NoStaleIndex' /\ CallbacksIsolated' /\ OneSharedProcess'
  BY DEF IInv, TypeInv, Placed, InProcessPlaces, Registered, InHand, Alive, NoStaleIndex,
     CallbacksIsolated, OneSharedProcess, TerminateRetired, Terminated, call
<1> QED BY <1>1, <1>2 DEF IInv

(* Destroy preserves the invariant. *)
LEMMA DestroyKeeps ==
    ASSUME IInv, NEW p \in Processes, Destroy(p)
    PROVE  IInv'
<1>1. CASE Alive(p) /\ proc' = Terminated(p)
  <2>1. TypeInv'
    BY <1>1, TerminatedTyped DEF IInv, TypeInv, Destroy, call, pool
  <2>2. Placed' /\ CallbacksIsolated'
    BY <1>1 DEF IInv, TypeInv, Placed, InProcessPlaces, CallbacksIsolated, Destroy, Terminated,
       Owned, Unused, call, pool
  <2>3. Registered'
    BY <1>1 DEF IInv, TypeInv, Placed, Registered, Calls, InProcessPlaces, Alive, None, Proc,
       Destroy, Terminated, Owned, Unused, call, pool
  <2>4. InHand'
    BY <1>1, WorkerAssumption DEF IInv, TypeInv, Placed, Registered, InHand, NoStaleIndex,
       CallbacksIsolated, OneSharedProcess, Places, InProcessPlaces, Alive, Calls, Proc, None,
       Destroy, Terminated, Owned, Unused, call, pool
  <2>5. NoStaleIndex'
    BY <1>1 DEF IInv, TypeInv, Placed, NoStaleIndex, Calls, InProcessPlaces, Alive, None, Proc,
       Destroy, Terminated, Owned, Unused, call, pool
  <2>6. OneSharedProcess'
    BY <1>1, WorkerAssumption DEF IInv, TypeInv, Placed, Registered, InHand, NoStaleIndex,
       CallbacksIsolated, OneSharedProcess, Places, InProcessPlaces, Alive, Calls, Proc, None,
       Destroy, Terminated, Owned, Unused, call, pool
  <2> QED BY <2>1, <2>2, <2>3, <2>4, <2>5, <2>6 DEF IInv
<1>2. CASE proc[p].state = "ended" /\ proc[p].io = "loops" /\ proc' = [proc EXCEPT ![p] = Unused]
  <2>1. TypeInv'
    BY <1>2, WorkerAssumption DEF IInv, TypeInv, Placed, Registered, InHand, NoStaleIndex,
       CallbacksIsolated, OneSharedProcess, Places, InProcessPlaces, Alive, Calls, Proc, None,
       Destroy, Terminated, Owned, Unused, call, pool
  <2>2. Placed' /\ CallbacksIsolated'
    BY <1>2 DEF IInv, TypeInv, Placed, InProcessPlaces, CallbacksIsolated, Destroy, Terminated,
       Owned, Unused, call, pool
  <2>3. Registered'
    BY <1>2 DEF IInv, TypeInv, Placed, Registered, Calls, InProcessPlaces, Alive, None, Proc,
       Destroy, Terminated, Owned, Unused, call, pool
  <2>4. InHand'
    BY <1>2, WorkerAssumption DEF IInv, TypeInv, Placed, Registered, InHand, NoStaleIndex,
       CallbacksIsolated, OneSharedProcess, Places, InProcessPlaces, Alive, Calls, Proc, None,
       Destroy, Terminated, Owned, Unused, call, pool
  <2>5. NoStaleIndex'
    BY <1>2 DEF IInv, TypeInv, Placed, NoStaleIndex, Calls, InProcessPlaces, Alive, None, Proc,
       Destroy, Terminated, Owned, Unused, call, pool
  <2>6. OneSharedProcess'
    BY <1>2, WorkerAssumption DEF IInv, TypeInv, Placed, Registered, InHand, NoStaleIndex,
       CallbacksIsolated, OneSharedProcess, Places, InProcessPlaces, Alive, Calls, Proc, None,
       Destroy, Terminated, Owned, Unused, call, pool
  <2> QED BY <2>1, <2>2, <2>3, <2>4, <2>5, <2>6 DEF IInv
<1> QED BY <1>1, <1>2 DEF Destroy

-----------------------------------------------------------------------------
(* The invariant holds when the pool is created. *)
LEMMA InitHolds == Init => IInv
  BY WorkerAssumption DEF Init, IInv, TypeInv, Placed, Registered, InHand, NoStaleIndex,
     CallbacksIsolated, OneSharedProcess, Places, InProcessPlaces, Alive, Calls, Proc, None, Unused

(* It does not depend on anything but the variables. *)
LEMMA StutterKeeps == IInv /\ UNCHANGED vars => IInv'
  BY DEF IInv, TypeInv, Placed, Registered, InHand, NoStaleIndex, CallbacksIsolated,
     OneSharedProcess, Alive, vars, process, pool

(* Every step preserves it, by the lemmas for the actions. *)
LEMMA StepKeeps == IInv /\ [Next]_vars => IInv'
<1> SUFFICES ASSUME IInv, [Next]_vars PROVE IInv'
  OBVIOUS
<1>1. ASSUME NEW k \in Calls, InProcess(k), UNCHANGED pool PROVE IInv'
  BY <1>1, AwaitManifestKeeps, ManifestTimesOutKeeps, RegisterKeeps, PostKeeps DEF InProcess
<1>2. ASSUME NEW k \in Calls, InPool(k) PROVE IInv'
  BY <1>2, AcquireSharedKeeps, AcquireNewKeeps, AcquireFailsKeeps, EndSingleUseKeeps,
     ReturnKeeps, RetryKeeps DEF InPool
<1>3. ASSUME NEW p \in Processes, Io(p), UNCHANGED pool PROVE IInv'
  BY <1>3, HandleManifestKeeps, RejectManifestKeeps, ReadResultKeeps, FinishResultKeeps DEF Io
<1>4. CASE Progress
  BY <1>1, <1>2, <1>3, <1>4, FailAllKeeps, RunCallKeeps, TerminateRetiredKeeps, DestroyKeeps
     DEF Progress
<1>5. CASE \E k \in Calls, n \in Nested : RaiseCallback(k, n)
  BY <1>5, RaiseCallbackKeeps
<1>6. CASE \E p \in Processes : /\ \/ Heartbeat(p) \/ IoTerminates(p)
                                  \/ \E k \in Calls : LoseResult(p, k)
                               /\ UNCHANGED pool
  BY <1>6, HeartbeatKeeps, IoTerminatesKeeps, LoseResultKeeps
<1>7. CASE Maintain \/ Shutdown
  BY <1>7, MaintainKeeps, ShutdownKeeps
<1>8. CASE UNCHANGED vars
  BY <1>8, StutterKeeps
<1> QED BY <1>4, <1>5, <1>6, <1>7, <1>8 DEF Next

(* It is an invariant. *)
LEMMA IInvHolds == Spec => []IInv
<1>1. Init => IInv
  BY InitHolds
<1>2. IInv /\ [Next]_vars => IInv'
  BY StepKeeps
<1> QED BY <1>1, <1>2, PTL DEF Spec

(* A call is registered with a process exactly while it is parked there, and
   never with a process that has been failed: finish(), failAll() and a failed
   post() resume a call once between them. *)
THEOREM RegistrationIsExact == Spec => []RegisteredWhileParked
<1>1. IInv => RegisteredWhileParked
  <2> SUFFICES ASSUME IInv PROVE RegisteredWhileParked
    OBVIOUS
  <2>1. \A c \in calls : \E k \in Calls : pc[k] = "parked" /\ c = <<k, on[k]>>
    BY DEF IInv, TypeInv, Registered
  <2>2. \A k \in Calls : pc[k] = "parked" => <<k, on[k]>> \in calls
    BY DEF IInv, Placed, InProcessPlaces, Registered
  <2>3. \A c \in calls : proc[c[2]].state \notin {"unused", "ended"}
    BY <2>1 DEF IInv, Registered
  <2> QED BY <2>1, <2>2, <2>3 DEF RegisteredWhileParked
<1> QED BY IInvHolds, <1>1, PTL

(* However calls, callbacks, retries and failures interleave, a callback's
   process is not the shared one and holds no other call, and there is one
   live shared process that is not being retired. *)
THEOREM ProcessesAreKeptApart == Spec => []ProcessesKeptApart
<1>1. IInv => ProcessesKeptApart
  BY DEF IInv, ProcessesKeptApart
<1> QED BY IInvHolds, <1>1, PTL

(* A process whose manifest does not match the registered one never runs a
   call, although calls can be registered with it. *)
THEOREM StaleProcessRunsNothing == Spec => []NoStaleIndex
<1>1. IInv => NoStaleIndex
  BY DEF IInv
<1> QED BY IInvHolds, <1>1, PTL
=============================================================================
