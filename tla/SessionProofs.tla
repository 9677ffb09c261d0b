--------------------------- MODULE SessionProofs ---------------------------
(***************************************************************************)
(* The safety of a session for any number of scripts, works and transfers: *)
(* one inductive invariant and four invariants of the run `session' from   *)
(* it; then, on top of it, the order in which a shutdown ends the script   *)
(* threads, the lanes and the observer.                                    *)
(***************************************************************************)
EXTENDS Session, FiniteSetTheorems, TLAPS

(* Steps are for Zenon; those with arithmetic, records or sequences name SMT. *)
USE Zenon

Counters == [outstanding : Int, queued : Int, inflight : Int, starting : Int]
Phases == {"new", "reserved", "counted", "queued", "taken", "resident", "retired"}
Places == {"unused", "sent", "passed", "refused", "inbox", "settling", "over", "lost"}
Entries == [at : Places, import : BOOLEAN, work : Works \cup {None}, worker : Workers \cup {None}]

Typed ==
    /\ count \in Counters
    /\ seen \subseteq Works
    /\ pending \subseteq Transfers
    /\ transfer \in [Transfers -> Entries]
    /\ phase \in [Works -> Phases]
    /\ home \in [Works -> Workers \cup {None}]
    /\ claims \in [Links -> Nat]
    /\ queue \in Seq(Works)
    /\ dropped \subseteq Works
    /\ starting \in [Workers -> Works \cup {None}]
    /\ follow \in [Workers -> Links \cup {None}]
    /\ pc \in [Workers -> {"loops", "claims", "settles", "discards", "ended"}]
    /\ \A w \in Workers : pc[w] = "claims" => follow[w] \in Links
    /\ drain \in [Actors -> {"no", "check", "finish"}]

(* A link is untouched until it is seen. *)
Linked ==
    \A u \in Links : /\ claims[u] <= 1
                     /\ u \notin seen => phase[u] = "new" /\ claims[u] = 0

(* A work is in the runner's queue once, or dropped from it. *)
Queued ==
    /\ \A m \in 1..Len(queue) : phase[queue[m]] = "queued" /\ queue[m] \notin dropped
    /\ \A m, n \in 1..Len(queue) : queue[m] = queue[n] => m = n
    /\ \A i \in dropped : phase[i] = "queued"

(* What is in m_pending has been sent, and its callback or its inbox entry
   is still to come; a request belongs to a resident work. *)
Pended ==
    /\ \A t \in pending : transfer[t].at \in {"sent", "passed", "refused", "inbox", "lost"}
    /\ \A t \in pending : ~transfer[t].import => transfer[t].work \in Works
    /\ ExecutionOutlivesRequest

Counted(ph, places) == {i \in Works : ph[i] \in places}
Outstanding == {"counted", "queued", "taken", "resident"}
Waiting == {"counted", "queued", "taken"}
Starters(st) == {w \in Workers : st[w] # None}

Counts ==
    /\ count.outstanding = Cardinality(Counted(phase, Outstanding))
    /\ count.queued = Cardinality(Counted(phase, Waiting))
    /\ count.inflight = Cardinality(pending)
    /\ count.starting = Cardinality(Starters(starting))

IInv == Typed /\ Linked /\ Queued /\ Pended /\ Counts /\ DrainNotLost

-----------------------------------------------------------------------------
(* How the counted sets change with one element.                           *)

(* A set of works is finite. *)
LEMMA CountedFinite ==
    ASSUME NEW ph, NEW places
    PROVE  IsFiniteSet(Counted(ph, places)) /\ Cardinality(Counted(ph, places)) \in Nat
<1>1. Counted(ph, places) \subseteq Roots \cup Links
  BY DEF Counted, Works
<1> QED BY <1>1, SessionAssumption, FS_Subset, FS_CardinalityType

(* One work goes from a place to another. *)
LEMMA CountedMoves ==
    ASSUME phase \in [Works -> Phases], NEW i \in Works, NEW v,
           phase' = [phase EXCEPT ![i] = v], NEW places
    PROVE  /\ Cardinality(Counted(phase, places)) \in Nat
           /\ phase[i] \in places => Cardinality(Counted(phase, places)) > 0
           /\ phase[i] \in places /\ v \notin places =>
                Cardinality(Counted(phase', places)) = Cardinality(Counted(phase, places)) - 1
           /\ phase[i] \notin places /\ v \in places =>
                Cardinality(Counted(phase', places)) = Cardinality(Counted(phase, places)) + 1
           /\ (phase[i] \in places <=> v \in places) =>
                Counted(phase', places) = Counted(phase, places)
<1> DEFINE S == Counted(phase, places)
           T == Counted(phase', places)
<1>1. IsFiniteSet(S) /\ Cardinality(S) \in Nat /\ IsFiniteSet(T) /\ Cardinality(T) \in Nat
  BY CountedFinite
<1>2. ASSUME phase[i] \in places PROVE Cardinality(S) > 0
  <2>1. i \in S
    BY <1>2 DEF Counted
  <2>2. S # {}
    BY <2>1
  <2> HIDE DEF S
  <2> QED BY <1>1, <2>2, FS_EmptySet, SMT
<1>3. ASSUME phase[i] \in places, v \notin places PROVE Cardinality(T) = Cardinality(S) - 1
  <2>1. i \in S /\ T = S \ {i}
    BY <1>3 DEF Counted
  <2> HIDE DEF S, T
  <2> QED BY <1>1, <2>1, FS_RemoveElement
<1>4. ASSUME phase[i] \notin places, v \in places PROVE Cardinality(T) = Cardinality(S) + 1
  <2>1. i \notin S /\ T = S \cup {i}
    BY <1>4 DEF Counted
  <2> HIDE DEF S, T
  <2> QED BY <1>1, <2>1, FS_AddElement
<1>5. (phase[i] \in places <=> v \in places) => T = S
  BY DEF Counted
<1> QED BY <1>1, <1>2, <1>3, <1>4, <1>5

(* An entry of m_pending comes or goes. *)
LEMMA PendingMoves ==
    ASSUME pending \subseteq Transfers, NEW t \in Transfers
    PROVE  /\ Cardinality(pending) \in Nat
           /\ t \in pending => /\ Cardinality(pending) > 0
                               /\ Cardinality(pending \ {t}) = Cardinality(pending) - 1
           /\ t \notin pending => /\ pending \ {t} = pending
                                  /\ Cardinality(pending \cup {t}) = Cardinality(pending) + 1
<1>1. IsFiniteSet(pending) /\ Cardinality(pending) \in Nat
  BY SessionAssumption, FS_Subset, FS_CardinalityType
<1>2. ASSUME t \in pending
      PROVE  Cardinality(pending) > 0 /\ Cardinality(pending \ {t}) = Cardinality(pending) - 1
  BY <1>1, <1>2, FS_EmptySet, FS_RemoveElement, SMT
<1>3. ASSUME t \notin pending PROVE Cardinality(pending \cup {t}) = Cardinality(pending) + 1
  BY <1>1, <1>3, FS_AddElement
<1> QED BY <1>1, <1>2, <1>3

(* abandon() counts out what it erases. *)
LEMMA PendingAbandoned ==
    ASSUME pending \subseteq Transfers, NEW i
    PROVE  /\ Cardinality(pending) \in Nat /\ Cardinality(Requests(i)) \in Nat
           /\ Cardinality(pending \ Requests(i)) = Cardinality(pending) - Cardinality(Requests(i))
<1>1. IsFiniteSet(pending) /\ Cardinality(pending) \in Nat
  BY SessionAssumption, FS_Subset, FS_CardinalityType
<1>2. Requests(i) \subseteq pending /\ pending \cap Requests(i) = Requests(i)
  BY DEF Requests
<1>3. IsFiniteSet(Requests(i)) /\ Cardinality(Requests(i)) \in Nat
  BY <1>1, <1>2, FS_Subset, FS_CardinalityType
<1> QED BY <1>1, <1>2, <1>3, FS_Difference, ZenonT(30)

(* A start slot is taken or given up. *)
LEMMA StartersMove ==
    ASSUME starting \in [Workers -> Works \cup {None}], NEW w \in Workers, NEW i \in Works
    PROVE  /\ Cardinality(Starters(starting)) \in Nat
           /\ starting[w] # None =>
                /\ Cardinality(Starters(starting)) > 0
                /\ Cardinality(Starters([starting EXCEPT ![w] = None])) = Cardinality(Starters(starting)) - 1
           /\ starting[w] = None =>
                Cardinality(Starters([starting EXCEPT ![w] = i])) = Cardinality(Starters(starting)) + 1
<1> DEFINE S == Starters(starting)
           N == Starters([starting EXCEPT ![w] = None])
           A == Starters([starting EXCEPT ![w] = i])
<1>1. i # None
  BY SessionAssumption DEF Works, None
<1>2. IsFiniteSet(S) /\ Cardinality(S) \in Nat
  <2>1. S \subseteq Workers
    BY DEF Starters
  <2> QED BY <2>1, SessionAssumption, FS_Subset, FS_CardinalityType
<1>3. ASSUME starting[w] # None PROVE Cardinality(S) > 0 /\ Cardinality(N) = Cardinality(S) - 1
  <2>1. w \in S /\ N = S \ {w}
    BY <1>3 DEF Starters
  <2> HIDE DEF S, N
  <2> QED BY <1>2, <2>1, FS_EmptySet, FS_RemoveElement, SMT
<1>4. ASSUME starting[w] = None PROVE Cardinality(A) = Cardinality(S) + 1
  <2>1. w \notin S /\ A = S \cup {w}
    BY <1>1, <1>4 DEF Starters
  <2> HIDE DEF S, A
  <2> QED BY <1>2, <2>1, FS_AddElement
<1> QED BY <1>2, <1>3, <1>4

(* The answer of a transfer moves on. *)
LEMMA AtTyped ==
    ASSUME transfer \in [Transfers -> Entries], NEW t \in Transfers, NEW place \in Places
    PROVE  /\ At(t, place) \in [Transfers -> Entries]
           /\ At(t, place)[t].at = place
           /\ At(t, place)[t].import = transfer[t].import
           /\ At(t, place)[t].work = transfer[t].work
           /\ At(t, place)[t].worker = transfer[t].worker
           /\ \A s \in Transfers \ {t} : At(t, place)[s] = transfer[s]
BY DEF At, Entries

(* A transfer is over. *)
LEMMA OverTyped ==
    ASSUME transfer \in [Transfers -> Entries], NEW t \in Transfers
    PROVE  /\ Over(t) \in [Transfers -> Entries]
           /\ Over(t)[t].at = "over"
           /\ \A s \in Transfers \ {t} : Over(t)[s] = transfer[s]
<1>1. [Unused EXCEPT !.at = "over"] \in Entries /\ [Unused EXCEPT !.at = "over"].at = "over"
  BY DEF Unused, Entries, Places
<1> QED BY <1>1 DEF Over

-----------------------------------------------------------------------------
(* What an entry of m_pending keeps while its answer moves. *)
Goes(t) ==
    /\ transfer'[t].at \in {"sent", "passed", "refused", "inbox", "lost"}
    /\ transfer'[t].import = transfer[t].import
    /\ transfer'[t].work = transfer[t].work
    /\ transfer'[t].worker = transfer[t].worker

(* An answer moves within the places of a pending entry. *)
LEMMA AtKeeps ==
    ASSUME Typed, Pended, NEW t \in Transfers, NEW place \in {"passed", "refused", "inbox"},
           transfer' = At(t, place)
    PROVE  \A s \in pending : Goes(s)
<1>1. place \in Places
  BY DEF Places
<1> TAKE s \in pending
<1>2. CASE s = t
  BY <1>1, <1>2, AtTyped, SMT DEF Typed, Goes
<1>3. CASE s # t
  <2>1. transfer'[s] = transfer[s]
    BY <1>1, <1>3, AtTyped, SMT DEF Typed
  <2> QED BY <2>1 DEF Pended, Goes
<1> QED BY <1>2, <1>3

(* Entries that are left keep their execution as long as no work moves. *)
LEMMA PendedGoes ==
    ASSUME Pended, pending' \subseteq pending, UNCHANGED <<phase, home>>,
           \A t \in pending' : Goes(t)
    PROVE  Pended'
BY DEF Pended, ExecutionOutlivesRequest, Goes

-----------------------------------------------------------------------------
(* Steps that move no work, no count and no entry.                         *)

(* Three of the conjuncts are about what such a step leaves alone. *)
LEMMA Quiet ==
    ASSUME IInv, Typed', Pended', DrainNotLost',
           UNCHANGED <<count, seen, pending, phase, claims, queue, dropped, starting>>
    PROVE  IInv'
BY DEF IInv, Linked, Queued, Counts, Counted, Starters

(* ReportDrained preserves the invariant. *)
LEMMA ReportDrainedKeeps ==
    ASSUME IInv, NEW a \in Actors, ReportDrained(a)
    PROVE  IInv'
<1>1. Typed'
  BY DEF IInv, Typed, ReportDrained, session, works, runner, worker, host
<1>2. Pended'
  BY DEF IInv, Typed, Pended, ExecutionOutlivesRequest, ReportDrained, session, works,
     runner, worker, host
<1>3. DrainNotLost'
  BY DEF IInv, Typed, DrainNotLost, Idle, ReportDrained, session, works, runner, worker,
     host
<1>4. UNCHANGED <<count, seen, pending, phase, claims, queue, dropped, starting>>
  BY DEF ReportDrained, session, works, runner, worker, host
<1> QED BY <1>1, <1>2, <1>3, <1>4, Quiet

(* OnFinished preserves the invariant. *)
LEMMA OnFinishedKeeps ==
    ASSUME IInv, NEW a \in Actors, OnFinished(a)
    PROVE  IInv'
<1>1. Typed'
  BY DEF IInv, Typed, OnFinished, session, works, runner, worker, host
<1>2. Pended'
  BY DEF IInv, Typed, Pended, ExecutionOutlivesRequest, OnFinished, session, works,
     runner, worker, host
<1>3. DrainNotLost'
  BY DEF IInv, Typed, DrainNotLost, Idle, OnFinished, session, works, runner, worker, host
<1>4. UNCHANGED <<count, seen, pending, phase, claims, queue, dropped, starting>>
  BY DEF OnFinished, session, works, runner, worker, host
<1> QED BY <1>1, <1>2, <1>3, <1>4, Quiet

(* Step preserves the invariant. *)
LEMMA StepOfScriptKeeps ==
    ASSUME IInv, NEW w \in Workers, NEW i \in Works, Step(w, i)
    PROVE  IInv'
<1>1. Typed'
  BY DEF IInv, Typed, Step, Runs, Free, session, works, runner, worker, host
<1>2. Pended'
  BY DEF IInv, Typed, Pended, ExecutionOutlivesRequest, Step, Runs, Free, session, works,
     runner, worker, host
<1>3. DrainNotLost'
  BY DEF IInv, Typed, DrainNotLost, Idle, Step, Runs, Free, session, works, runner,
     worker, host
<1>4. UNCHANGED <<count, seen, pending, phase, claims, queue, dropped, starting>>
  BY DEF Step, Runs, Free, session, works, runner, worker, host
<1> QED BY <1>1, <1>2, <1>3, <1>4, Quiet

(* Answer preserves the invariant. *)
LEMMA AnswerKeeps ==
    ASSUME IInv, NEW t \in Transfers, Answer(t)
    PROVE  IInv'
<1>1. Typed'
  BY AtTyped, OverTyped DEF IInv, Typed, Places, Answer, session, works, runner, worker,
     host
<1>2. Pended'
  <2>1. ASSUME NEW s \in pending PROVE Goes(s)
    <3>1. CASE t \notin pending
      BY <3>1, OverTyped DEF IInv, Typed, Pended, Goes, Answer
    <3>2. CASE t \in pending
      <4>1. PICK place \in {"passed", "refused"} : transfer' = At(t, place)
        BY <3>2 DEF Answer
      <4> QED BY <4>1, AtKeeps DEF IInv
    <3> QED BY <3>1, <3>2
  <2> QED BY <2>1, PendedGoes DEF IInv, Answer, session, works
<1>3. DrainNotLost'
  BY DEF IInv, Typed, DrainNotLost, Idle, Answer, session, works, runner, worker, host
<1>4. UNCHANGED <<count, seen, pending, phase, claims, queue, dropped, starting>>
  BY DEF Answer, session, works, runner, worker, host
<1> QED BY <1>1, <1>2, <1>3, <1>4, Quiet

(* Inbox preserves the invariant. *)
LEMMA InboxKeeps ==
    ASSUME IInv, NEW t \in Transfers, Inbox(t)
    PROVE  IInv'
<1>1. Typed'
  BY AtTyped DEF IInv, Typed, Places, Inbox, session, works, runner, worker, host
<1>2. Pended'
  <2>1. \A s \in pending : Goes(s)
    BY AtKeeps DEF IInv, Inbox
  <2> QED BY <2>1, PendedGoes DEF IInv, Inbox, session, works
<1>3. DrainNotLost'
  BY DEF IInv, Typed, DrainNotLost, Idle, Inbox, session, works, runner, worker, host
<1>4. UNCHANGED <<count, seen, pending, phase, claims, queue, dropped, starting>>
  BY DEF Inbox, session, works, runner, worker, host
<1> QED BY <1>1, <1>2, <1>3, <1>4, Quiet

(* Settled preserves the invariant. *)
LEMMA SettledKeeps ==
    ASSUME IInv, NEW w \in Workers, NEW t \in Transfers, Settled(w, t)
    PROVE  IInv'
<1>1. Typed'
  BY OverTyped DEF IInv, Typed, Places, Actors, Settled, session, works, runner, worker,
     host
<1>2. Pended'
  <2>1. \A s \in pending : Goes(s)
    BY OverTyped DEF IInv, Typed, Places, Pended, Goes, Settled
  <2> QED BY <2>1, PendedGoes DEF IInv, Settled, session, works
<1>3. DrainNotLost'
  BY DEF IInv, Typed, DrainNotLost, Idle, Actors, Settled, session, works, runner, worker,
     host
<1>4. UNCHANGED <<count, seen, pending, phase, claims, queue, dropped, starting>>
  BY DEF Settled, session, works, runner, worker, host
<1> QED BY <1>1, <1>2, <1>3, <1>4, Quiet

(* LoopEnds preserves the invariant. *)
LEMMA LoopEndsKeeps ==
    ASSUME IInv, NEW w \in Workers, LoopEnds(w)
    PROVE  IInv'
<1>1. Typed'
  BY DEF IInv, Typed, LoopEnds, Looping, Free, session, works, runner, worker, host
<1>2. Pended'
  BY DEF IInv, Typed, Pended, ExecutionOutlivesRequest, LoopEnds, Looping, Free, session,
     works, runner, worker, host
<1>3. DrainNotLost'
  BY DEF IInv, Typed, DrainNotLost, Idle, LoopEnds, Looping, Free, session, works, runner,
     worker, host
<1>4. UNCHANGED <<count, seen, pending, phase, claims, queue, dropped, starting>>
  BY DEF LoopEnds, Looping, Free, session, works, runner, worker, host
<1> QED BY <1>1, <1>2, <1>3, <1>4, Quiet

(* Close preserves the invariant. *)
LEMMA CloseKeeps ==
    ASSUME IInv, Close
    PROVE  IInv'
<1>1. Typed'
  BY DEF IInv, Typed, Close, Calling, session, works, runner, worker, host
<1>2. Pended'
  BY DEF IInv, Typed, Pended, ExecutionOutlivesRequest, Close, Calling, session, works,
     runner, worker, host
<1>3. DrainNotLost'
  BY DEF IInv, Typed, DrainNotLost, Idle, Close, Calling, session, works, runner, worker,
     host
<1>4. UNCHANGED <<count, seen, pending, phase, claims, queue, dropped, starting>>
  BY DEF Close, Calling, session, works, runner, worker, host
<1> QED BY <1>1, <1>2, <1>3, <1>4, Quiet

(* Wait preserves the invariant. *)
LEMMA WaitKeeps ==
    ASSUME IInv, Wait
    PROVE  IInv'
<1>1. Typed'
  BY DEF IInv, Typed, Wait, Calling, session, works, runner, worker, host
<1>2. Pended'
  BY DEF IInv, Typed, Pended, ExecutionOutlivesRequest, Wait, Calling, session, works,
     runner, worker, host
<1>3. DrainNotLost'
  BY DEF IInv, Typed, DrainNotLost, Idle, Wait, Calling, session, works, runner, worker,
     host
<1>4. UNCHANGED <<count, seen, pending, phase, claims, queue, dropped, starting>>
  BY DEF Wait, Calling, session, works, runner, worker, host
<1> QED BY <1>1, <1>2, <1>3, <1>4, Quiet

(* Stop preserves the invariant. *)
LEMMA StopKeeps ==
    ASSUME IInv, Stop
    PROVE  IInv'
<1>1. Typed'
  BY DEF IInv, Typed, Stop, Calling, session, works, runner, worker, host
<1>2. Pended'
  BY DEF IInv, Typed, Pended, ExecutionOutlivesRequest, Stop, Calling, session, works,
     runner, worker, host
<1>3. DrainNotLost'
  BY DEF IInv, Typed, DrainNotLost, Idle, Stop, Calling, session, works, runner, worker,
     host
<1>4. UNCHANGED <<count, seen, pending, phase, claims, queue, dropped, starting>>
  BY DEF Stop, Calling, session, works, runner, worker, host
<1> QED BY <1>1, <1>2, <1>3, <1>4, Quiet

(* StopLanes preserves the invariant. *)
LEMMA StopLanesKeeps ==
    ASSUME IInv, StopLanes
    PROVE  IInv'
<1>1. Typed'
  BY DEF IInv, Typed, StopLanes, Calling, session, works, runner, worker, host
<1>2. Pended'
  BY DEF IInv, Typed, Pended, ExecutionOutlivesRequest, StopLanes, Calling, session,
     works, runner, worker, host
<1>3. DrainNotLost'
  BY DEF IInv, Typed, DrainNotLost, Idle, StopLanes, Calling, session, works, runner,
     worker, host
<1>4. UNCHANGED <<count, seen, pending, phase, claims, queue, dropped, starting>>
  BY DEF StopLanes, Calling, session, works, runner, worker, host
<1> QED BY <1>1, <1>2, <1>3, <1>4, Quiet

(* JoinLanes preserves the invariant. *)
LEMMA JoinLanesKeeps ==
    ASSUME IInv, JoinLanes
    PROVE  IInv'
<1>1. Typed'
  BY DEF IInv, Typed, JoinLanes, Calling, session, works, runner, worker, host
<1>2. Pended'
  BY DEF IInv, Typed, Pended, ExecutionOutlivesRequest, JoinLanes, Calling, session,
     works, runner, worker, host
<1>3. DrainNotLost'
  BY DEF IInv, Typed, DrainNotLost, Idle, JoinLanes, Calling, session, works, runner,
     worker, host
<1>4. UNCHANGED <<count, seen, pending, phase, claims, queue, dropped, starting>>
  BY DEF JoinLanes, Calling, session, works, runner, worker, host
<1> QED BY <1>1, <1>2, <1>3, <1>4, Quiet

(* Drop preserves the invariant. *)
LEMMA DropKeeps ==
    ASSUME IInv, Drop
    PROVE  IInv'
<1>1. Typed'
  BY DEF IInv, Typed, Drop, Calling, session, works, runner, worker, host
<1>2. Pended'
  BY DEF IInv, Typed, Pended, ExecutionOutlivesRequest, Drop, Calling, session, works,
     runner, worker, host
<1>3. DrainNotLost'
  BY DEF IInv, Typed, DrainNotLost, Idle, Drop, Calling, session, works, runner, worker,
     host
<1>4. UNCHANGED <<count, seen, pending, phase, claims, queue, dropped, starting>>
  BY DEF Drop, Calling, session, works, runner, worker, host
<1> QED BY <1>1, <1>2, <1>3, <1>4, Quiet

(* Destroy preserves the invariant. *)
LEMMA DestroyKeeps ==
    ASSUME IInv, Destroy
    PROVE  IInv'
<1>1. Typed'
  BY DEF IInv, Typed, Destroy, session, works, runner, worker, host
<1>2. Pended'
  BY DEF IInv, Typed, Pended, ExecutionOutlivesRequest, Destroy, session, works, runner,
     worker, host
<1>3. DrainNotLost'
  BY DEF IInv, Typed, DrainNotLost, Idle, Destroy, session, works, runner, worker, host
<1>4. UNCHANGED <<count, seen, pending, phase, claims, queue, dropped, starting>>
  BY DEF Destroy, session, works, runner, worker, host
<1> QED BY <1>1, <1>2, <1>3, <1>4, Quiet

(* Shutdown preserves the invariant. *)
LEMMA ShutdownKeeps ==
    ASSUME IInv, Shutdown
    PROVE  IInv'
<1>1. Typed'
  BY DEF IInv, Typed, Shutdown, session, works, runner, worker, host
<1>2. Pended'
  BY DEF IInv, Typed, Pended, ExecutionOutlivesRequest, Shutdown, session, works, runner,
     worker, host
<1>3. DrainNotLost'
  BY DEF IInv, Typed, DrainNotLost, Idle, Shutdown, session, works, runner, worker, host
<1>4. UNCHANGED <<count, seen, pending, phase, claims, queue, dropped, starting>>
  BY DEF Shutdown, session, works, runner, worker, host
<1> QED BY <1>1, <1>2, <1>3, <1>4, Quiet

-----------------------------------------------------------------------------
(* The end of a work.                                                      *)

(* Only a resident work has requests. *)
LEMMA NoRequests ==
    ASSUME Pended, NEW i \in Works, phase[i] # "resident"
    PROVE  Requests(i) = {}
BY DEF Pended, ExecutionOutlivesRequest, Requests

(* retire() with whatever its caller has done before: a work that was counted
   in is counted out, its requests are forgotten, and its thread looks whether
   the session has drained. *)
LEMMA RetireKeeps ==
    ASSUME IInv, NEW a \in Actors, NEW i \in Works, NEW counts \in Counters,
           Retire(a, i, counts),
           phase[i] \in Outstanding,
           phase[i] = "queued" => i \in dropped,
           pending' = pending \ Requests(i),
           counts.outstanding = count.outstanding,
           counts.queued = IF phase[i] \in Waiting THEN Lowered(count.queued) ELSE count.queued,
           counts.inflight = count.inflight - Cardinality(Requests(i)),
           counts.starting = count.starting,
           dropped' = dropped \ {i},
           follow' \in [Workers -> Links \cup {None}],
           \A w \in Workers : pc[w] = "claims" => follow'[w] = follow[w],
           UNCHANGED <<seen, reported, transfer, claims, queue, starting, pc>>
    PROVE  IInv'
<1>1. /\ phase' = [phase EXCEPT ![i] = "retired"]
      /\ home' = [home EXCEPT ![i] = None]
      /\ count' = [counts EXCEPT !.outstanding = @ - 1]
      /\ drain' = [drain EXCEPT ![a] = "check"]
  BY DEF Retire
<1>2. Typed'
  <2>1. count' \in Counters
    BY <1>1, SMT DEF Counters
  <2>2. phase' \in [Works -> Phases] /\ home' \in [Works -> Workers \cup {None}]
    BY <1>1 DEF IInv, Typed, Phases
  <2> QED BY <1>1, <2>1, <2>2 DEF IInv, Typed
<1>3. Linked'
  BY <1>1, SMT DEF IInv, Typed, Linked, Outstanding
<1>4. Queued'
  <2>1. \A m \in 1..Len(queue) : queue[m] # i
    BY DEF IInv, Queued
  <2>2. \A m \in 1..Len(queue) : queue[m] \in Works
    BY SMT DEF IInv, Typed
  <2> QED BY <1>1, <2>1, <2>2, SMT DEF IInv, Typed, Queued
<1>5. Pended'
  BY <1>1 DEF IInv, Typed, Pended, ExecutionOutlivesRequest, Requests
<1>6. Counts'
  <2>1. /\ Cardinality(Counted(phase', Outstanding)) = count.outstanding - 1
        /\ Cardinality(Counted(phase', Waiting)) = IF phase[i] \in Waiting THEN count.queued - 1 ELSE count.queued
        /\ phase[i] \in Waiting => count.queued > 0
    <3>1. "retired" \in Phases /\ "retired" \notin Outstanding /\ "retired" \notin Waiting
      BY DEF Phases, Outstanding, Waiting
    <3>2. Cardinality(Counted(phase', Outstanding)) = Cardinality(Counted(phase, Outstanding)) - 1
      BY <1>1, <3>1, CountedMoves, ZenonT(30) DEF IInv, Typed
    <3>3. phase[i] \in Waiting =>
             /\ Cardinality(Counted(phase, Waiting)) > 0
             /\ Cardinality(Counted(phase', Waiting)) = Cardinality(Counted(phase, Waiting)) - 1
      BY <1>1, <3>1, CountedMoves, ZenonT(30) DEF IInv, Typed
    <3>4. phase[i] \notin Waiting => Counted(phase', Waiting) = Counted(phase, Waiting)
      BY <1>1, <3>1, CountedMoves DEF IInv, Typed
    <3> QED BY <3>2, <3>3, <3>4 DEF IInv, Counts
  <2>2. Cardinality(pending') = count.inflight - Cardinality(Requests(i))
    BY PendingAbandoned DEF IInv, Typed, Counts
  <2>3. count' \in Counters /\ count'.outstanding = count.outstanding - 1
        /\ count'.queued = counts.queued /\ count'.inflight = counts.inflight
        /\ count'.starting = counts.starting
    BY <1>1, SMT DEF Counters
  <2> QED BY <2>1, <2>2, <2>3 DEF IInv, Counts, Lowered
<1>7. DrainNotLost'
  <2>1. ~reported
    <3>1. Cardinality(Counted(phase, Outstanding)) > 0
      BY <1>1, CountedMoves DEF IInv, Typed
    <3> QED BY <3>1, SMT DEF IInv, Counts, DrainNotLost, Idle
  <2>2. drain'[a] = "check"
    BY <1>1 DEF IInv, Typed
  <2> QED BY <2>1, <2>2 DEF DrainNotLost
<1> QED BY <1>2, <1>3, <1>4, <1>5, <1>6, <1>7 DEF IInv

(* The counters of a work that leaves the queue. *)
LEMMA DequeuedCounts ==
    ASSUME Typed
    PROVE  /\ Dequeued \in Counters
           /\ Dequeued.outstanding = count.outstanding
           /\ Dequeued.queued = Lowered(count.queued)
           /\ Dequeued.inflight = count.inflight
           /\ Dequeued.starting = count.starting
BY SMT DEF Typed, Counters, Dequeued, Lowered

(* The counters of a work whose requests are abandoned. *)
LEMMA AbandonedCounts ==
    ASSUME Typed, NEW i
    PROVE  /\ Abandoned(i, count) \in Counters
           /\ Abandoned(i, count).outstanding = count.outstanding
           /\ Abandoned(i, count).queued = count.queued
           /\ Abandoned(i, count).inflight = count.inflight - Cardinality(Requests(i))
           /\ Abandoned(i, count).starting = count.starting
<1>1. Cardinality(Requests(i)) \in Nat
  BY PendingAbandoned DEF Typed
<1>2. count.inflight - Cardinality(Requests(i)) \in Int
  BY <1>1, SMT DEF Typed, Counters
<1>3. Abandoned(i, count) = [count EXCEPT !.inflight = count.inflight - Cardinality(Requests(i))]
  BY DEF Abandoned
<1> DEFINE n == count.inflight - Cardinality(Requests(i))
<1> HIDE DEF n
<1>4. n \in Int /\ Abandoned(i, count) = [count EXCEPT !.inflight = n]
  BY <1>2, <1>3 DEF n
<1>5. /\ Abandoned(i, count) \in Counters
      /\ Abandoned(i, count).outstanding = count.outstanding
      /\ Abandoned(i, count).queued = count.queued
      /\ Abandoned(i, count).inflight = n
      /\ Abandoned(i, count).starting = count.starting
  BY <1>4 DEF Typed, Counters
<1> QED BY <1>5 DEF n

(* RetireDropped preserves the invariant. *)
LEMMA RetireDroppedKeeps ==
    ASSUME IInv, RetireDropped
    PROVE  IInv'
<1>1. PICK i \in dropped : RetireQueued("host", i) /\ dropped' = dropped \ {i}
  BY DEF RetireDropped
<1>2. i \in Works /\ phase[i] = "queued" /\ "host" \in Actors
  BY DEF IInv, Typed, Queued, Actors
<1>3. Requests(i) = {} /\ Cardinality({}) = 0
  BY <1>2, NoRequests, FS_EmptySet DEF IInv
<1>4. Retire("host", i, Dequeued)
  BY <1>1 DEF RetireQueued, Dequeued
<1>5. UNCHANGED <<seen, reported, pending, transfer, claims, queue, starting, follow, pc>>
  BY DEF RetireDropped, runner, worker
<1>6. phase[i] \in Outstanding /\ phase[i] \in Waiting
  BY <1>2 DEF Outstanding, Waiting
<1>7. Dequeued.inflight = count.inflight - Cardinality(Requests(i))
  BY <1>3, DequeuedCounts, SMT DEF IInv, Typed, Counters
<1>8. pending' = pending \ Requests(i)
  BY <1>3, <1>5
<1> QED BY <1>1, <1>2, <1>4, <1>5, <1>6, <1>7, <1>8, DequeuedCounts, RetireKeeps DEF IInv, Typed

(* Release preserves the invariant. *)
LEMMA ReleaseKeeps ==
    ASSUME IInv, NEW w \in Workers, NEW i \in Works, Release(w, i)
    PROVE  IInv'
<1>1. w \in Actors /\ phase[i] = "resident" /\ Requests(i) = {} /\ Cardinality({}) = 0
  BY FS_EmptySet DEF Release, Runs, Actors
<1>2. Retire(w, i, count)
  BY DEF Release
<1>3. UNCHANGED <<seen, reported, pending, transfer, claims, queue, starting, follow, pc, dropped>>
  BY DEF Release, runner, worker, host
<1>4. i \notin dropped
  BY <1>1 DEF IInv, Queued
<1>5. phase[i] \in Outstanding /\ phase[i] \notin Waiting
  BY <1>1 DEF Outstanding, Waiting
<1>6. count.inflight = count.inflight - Cardinality(Requests(i))
  BY <1>1, SMT DEF IInv, Typed, Counters
<1>7. pending' = pending \ Requests(i) /\ dropped' = dropped \ {i}
  BY <1>1, <1>3, <1>4
<1> QED BY <1>1, <1>2, <1>3, <1>5, <1>6, <1>7, RetireKeeps DEF IInv, Typed

(* A resident work is abandoned and retired, by beginWork() or by
   discardAll(). *)
LEMMA AbandonKeeps ==
    ASSUME IInv, NEW w \in Workers, NEW i \in Works,
           phase[i] = "resident",
           pending' = pending \ Requests(i),
           Retire(w, i, Abandoned(i, count)),
           UNCHANGED <<seen, reported, transfer, claims, queue, starting, follow, pc, dropped>>
    PROVE  IInv'
<1>1. w \in Actors /\ i \notin dropped
  BY DEF IInv, Queued, Actors
<1>2. phase[i] \in Outstanding /\ phase[i] \notin Waiting
  BY DEF Outstanding, Waiting
<1> QED BY <1>1, <1>2, AbandonedCounts, RetireKeeps DEF IInv, Typed

(* EvaluateFails preserves the invariant. *)
LEMMA EvaluateFailsKeeps ==
    ASSUME IInv, NEW w \in Workers, EvaluateFails(w)
    PROVE  IInv'
BY AbandonKeeps DEF EvaluateFails, IInv, Typed, runner, worker, host

(* DiscardOne preserves the invariant. *)
LEMMA DiscardOneKeeps ==
    ASSUME IInv, NEW w \in Workers, DiscardOne(w)
    PROVE  IInv'
<1>1. PICK i \in Residents(w) : pending' = pending \ Requests(i) /\ Retire(w, i, Abandoned(i, count))
  BY DEF DiscardOne
<1> QED BY <1>1, AbandonKeeps DEF DiscardOne, Residents, runner, worker, host

-----------------------------------------------------------------------------
(* A work on its way to a script thread.                                   *)

(* A work that moves between places that count alike. *)
LEMMA CountsStay ==
    ASSUME IInv, NEW i \in Works, NEW v, phase' = [phase EXCEPT ![i] = v],
           phase[i] \in Outstanding <=> v \in Outstanding,
           phase[i] \in Waiting <=> v \in Waiting
    PROVE  /\ Counted(phase', Outstanding) = Counted(phase, Outstanding)
           /\ Counted(phase', Waiting) = Counted(phase, Waiting)
BY CountedMoves DEF IInv, Typed

(* Submit preserves the invariant. *)
LEMMA SubmitKeeps ==
    ASSUME IInv, NEW i \in Roots, Submit(i)
    PROVE  IInv'
<1>1. i \in Works /\ i \notin Links /\ phase[i] = "new" /\ phase' = [phase EXCEPT ![i] = "reserved"]
  BY SessionAssumption DEF Submit, Works
<1>2. UNCHANGED <<count, seen, pending, transfer, home, claims, queue, dropped, starting, follow, pc,
                  drain, reported>>
  BY DEF Submit, session, runner, worker, host
<1>3. Typed'
  BY <1>1, <1>2 DEF IInv, Typed, Phases
<1>4. Linked'
  BY <1>1, <1>2 DEF IInv, Typed, Linked, Works
<1>5. Queued'
  BY <1>1, <1>2, SMT DEF IInv, Typed, Queued
<1>6. Pended'
  BY <1>1, <1>2 DEF IInv, Typed, Pended, ExecutionOutlivesRequest
<1>7. Counts'
  <2>1. "new" \notin Outstanding /\ "reserved" \notin Outstanding /\ "new" \notin Waiting /\ "reserved" \notin Waiting
    BY DEF Outstanding, Waiting
  <2> QED BY <1>1, <1>2, <2>1, CountsStay DEF IInv, Counts
<1>8. DrainNotLost'
  BY <1>1, <1>2 DEF IInv, Typed, DrainNotLost, Idle
<1> QED BY <1>3, <1>4, <1>5, <1>6, <1>7, <1>8 DEF IInv

(* Enqueue preserves the invariant. *)
LEMMA EnqueueKeeps ==
    ASSUME IInv, NEW a, NEW i \in Works, Enqueue(a, i)
    PROVE  IInv'
<1>1. /\ phase[i] = "reserved" /\ phase' = [phase EXCEPT ![i] = "counted"]
      /\ seen' = seen \cup {i}
      /\ count' = [count EXCEPT !.queued = @ + 1, !.outstanding = @ + 1]
      /\ reported' = FALSE
  BY DEF Enqueue
<1>2. UNCHANGED <<pending, transfer, home, claims, queue, dropped, starting, follow, pc, drain>>
  BY DEF Enqueue, runner, worker, host
<1>3. Typed'
  <2>1. count' \in Counters
    <3>1. count \in Counters /\ count.queued + 1 \in Int /\ count.outstanding + 1 \in Int
      BY SMT DEF IInv, Typed, Counters
    <3>2. count' = [count EXCEPT !.queued = count.queued + 1, !.outstanding = count.outstanding + 1]
      BY <1>1, <3>1 DEF Counters
    <3> QED BY <3>1, <3>2 DEF Counters
  <2>2. phase' \in [Works -> Phases]
    BY <1>1 DEF IInv, Typed, Phases
  <2> QED BY <1>1, <1>2, <2>1, <2>2 DEF IInv, Typed
<1>4. Linked'
  BY <1>1, <1>2, SMT DEF IInv, Typed, Linked
<1>5. Queued'
  BY <1>1, <1>2, SMT DEF IInv, Typed, Queued
<1>6. Pended'
  BY <1>1, <1>2 DEF IInv, Typed, Pended, ExecutionOutlivesRequest
<1>7. Counts' /\ count'.outstanding > 0
  <2>1. "reserved" \notin Outstanding /\ "counted" \in Outstanding /\ "reserved" \notin Waiting /\ "counted" \in Waiting
    BY DEF Outstanding, Waiting
  <2>2. /\ Cardinality(Counted(phase, Outstanding)) \in Nat
        /\ Cardinality(Counted(phase', Outstanding)) = Cardinality(Counted(phase, Outstanding)) + 1
    BY <1>1, <2>1, CountedMoves, ZenonT(30) DEF IInv, Typed
  <2>3. Cardinality(Counted(phase', Waiting)) = Cardinality(Counted(phase, Waiting)) + 1
    BY <1>1, <2>1, CountedMoves, ZenonT(30) DEF IInv, Typed
  <2>4. /\ count'.outstanding = count.outstanding + 1 /\ count'.queued = count.queued + 1
        /\ count'.inflight = count.inflight /\ count'.starting = count.starting
    BY <1>1 DEF IInv, Typed, Counters
  <2> QED BY <1>2, <2>2, <2>3, <2>4, SMT DEF IInv, Counts
<1>8. DrainNotLost'
  BY <1>1, <1>7, SMT DEF DrainNotLost, Idle
<1> QED BY <1>3, <1>4, <1>5, <1>6, <1>7, <1>8 DEF IInv

(* RunnerSubmit preserves the invariant. *)
LEMMA RunnerSubmitKeeps ==
    ASSUME IInv, NEW i \in Works, NEW a \in Workers \cup {i}, RunnerSubmit(a, i)
    PROVE  IInv'
<1>1. phase[i] = "counted" /\ follow' = FollowOver(a)
  BY DEF RunnerSubmit
<1>2. UNCHANGED <<seen, pending, reported, transfer, claims, starting, pc, dropped>>
  BY DEF RunnerSubmit, host
<1>3. /\ follow' \in [Workers -> Links \cup {None}]
      /\ \A w \in Workers : pc[w] = "claims" => follow'[w] = follow[w]
      /\ a \in Actors
  BY <1>1, SessionAssumption, SMT DEF IInv, Typed, FollowOver, RunnerSubmit, Enqueues, Works, Actors
<1>4. CASE running /\ Accepts
  <2>1. /\ queue' = Append(queue, i)
        /\ phase' = [phase EXCEPT ![i] = "queued"]
        /\ UNCHANGED <<home, count, drain>>
    BY <1>4 DEF RunnerSubmit
  <2>2. Typed'
    BY <1>2, <1>3, <2>1, SMT DEF IInv, Typed, Phases
  <2>3. Linked'
    BY <1>1, <1>2, <2>1, SMT DEF IInv, Typed, Linked
  <2>4. Queued'
    <3>1. \A m \in 1..Len(queue) : queue[m] \in Works /\ queue[m] # i
      BY <1>1, SMT DEF IInv, Typed, Queued
    <3>2. i \notin dropped
      BY <1>1 DEF IInv, Queued
    <3>3. /\ Len(queue') = Len(queue) + 1 /\ queue'[Len(queue) + 1] = i /\ Len(queue) \in Nat
          /\ \A m \in 1..Len(queue) : queue'[m] = queue[m]
      BY <2>1, SMT DEF IInv, Typed
    <3>4. phase'[i] = "queued" /\ \A j \in Works \ {i} : phase'[j] = phase[j]
      BY <2>1 DEF IInv, Typed
    <3>5. /\ \A m \in 1..Len(queue) : phase[queue[m]] = "queued" /\ queue[m] \notin dropped
          /\ \A m, n \in 1..Len(queue) : queue[m] = queue[n] => m = n
          /\ \A j \in dropped : phase[j] = "queued" /\ j \in Works
      BY DEF IInv, Typed, Queued
    <3>6. ASSUME NEW m \in 1..Len(queue')
          PROVE  m \in 1..Len(queue) \/ m = Len(queue) + 1
      BY <3>3, SMT
    <3>7. ASSUME NEW m \in 1..Len(queue')
          PROVE  phase'[queue'[m]] = "queued" /\ queue'[m] \notin dropped'
      BY <1>2, <3>1, <3>2, <3>3, <3>4, <3>5, <3>6, SMT
    <3>8. ASSUME NEW m \in 1..Len(queue'), NEW n \in 1..Len(queue'), queue'[m] = queue'[n]
          PROVE  m = n
      <4>1. CASE m \in 1..Len(queue) /\ n \in 1..Len(queue)
        BY <3>3, <3>5, <3>8, <4>1
      <4>2. CASE m \in 1..Len(queue) /\ n = Len(queue) + 1
        BY <3>1, <3>3, <3>8, <4>2
      <4>3. CASE m = Len(queue) + 1 /\ n \in 1..Len(queue)
        BY <3>1, <3>3, <3>8, <4>3
      <4> QED BY <3>6, <4>1, <4>2, <4>3
    <3>9. \A j \in dropped' : phase'[j] = "queued"
      BY <1>2, <3>2, <3>4, <3>5
    <3> QED BY <3>7, <3>8, <3>9 DEF Queued
  <2>5. Pended'
    BY <1>1, <1>2, <2>1, SMT DEF IInv, Typed, Pended, ExecutionOutlivesRequest
  <2>6. Counts'
    <3>1. "counted" \in Outstanding /\ "queued" \in Outstanding /\ "counted" \in Waiting /\ "queued" \in Waiting
      BY DEF Outstanding, Waiting
    <3> QED BY <1>1, <1>2, <2>1, <3>1, CountsStay DEF IInv, Counts
  <2>7. DrainNotLost'
    BY <1>1, <1>2, <2>1 DEF IInv, Typed, DrainNotLost, Idle
  <2> QED BY <2>2, <2>3, <2>4, <2>5, <2>6, <2>7 DEF IInv
<1>5. CASE ~(running /\ Accepts)
  <2>1. Retire(a, i, Dequeued) /\ UNCHANGED queue
    BY <1>5 DEF RunnerSubmit, RetireQueued, Dequeued
  <2>2. Requests(i) = {} /\ Cardinality({}) = 0 /\ i \notin dropped
    BY <1>1, NoRequests, FS_EmptySet DEF IInv, Queued
  <2>3. Dequeued.inflight = count.inflight - Cardinality(Requests(i))
    BY <2>2, DequeuedCounts, SMT DEF IInv, Typed, Counters
  <2>4. pending' = pending \ Requests(i) /\ dropped' = dropped \ {i}
    BY <1>2, <2>2
  <2>5. phase[i] \in Outstanding /\ phase[i] \in Waiting
    BY <1>1 DEF Outstanding, Waiting
  <2> QED BY <1>1, <1>2, <1>3, <2>1, <2>3, <2>4, <2>5, DequeuedCounts, RetireKeeps, SMT DEF IInv
<1> QED BY <1>4, <1>5

(* m_starting changes alone. *)
LEMMA StartingSet ==
    ASSUME Typed, NEW n \in Int, count' = [count EXCEPT !.starting = n]
    PROVE  /\ count' \in Counters
           /\ count'.outstanding = count.outstanding /\ count'.queued = count.queued
           /\ count'.inflight = count.inflight /\ count'.starting = n
BY DEF Typed, Counters

(* m_inflight_requests changes alone. *)
LEMMA InflightSet ==
    ASSUME Typed, NEW n \in Int, count' = [count EXCEPT !.inflight = n]
    PROVE  /\ count' \in Counters
           /\ count'.outstanding = count.outstanding /\ count'.queued = count.queued
           /\ count'.starting = count.starting /\ count'.inflight = n
BY DEF Typed, Counters

(* Take preserves the invariant. *)
LEMMA TakeKeeps ==
    ASSUME IInv, NEW w \in Workers, Take(w)
    PROVE  IInv'
<1> DEFINE i == Head(queue)
<1>1. /\ queue # <<>> /\ starting[w] = None
      /\ starting' = [starting EXCEPT ![w] = i]
      /\ phase' = [phase EXCEPT ![i] = "taken"]
      /\ queue' = Tail(queue)
      /\ count' = [count EXCEPT !.starting = @ + 1]
  BY DEF Take, Looping
<1>2. UNCHANGED <<seen, pending, reported, transfer, claims, home, follow, pc, drain, dropped>>
  BY DEF Take, host
<1>3. /\ i \in Works /\ i = queue[1] /\ Len(queue) \in Nat \ {0}
      /\ Len(queue') = Len(queue) - 1 /\ queue' \in Seq(Works)
      /\ \A m \in 1..Len(queue') : queue'[m] = queue[m + 1] /\ m + 1 \in 1..Len(queue)
  <2>1. queue \in Seq(Works) /\ queue # <<>>
    BY <1>1 DEF IInv, Typed
  <2>2. Len(queue) \in Nat \ {0} /\ i = queue[1] /\ i \in Works
    BY <2>1, SMT
  <2>3. Tail(queue) \in Seq(Works) /\ Len(Tail(queue)) = Len(queue) - 1
    BY <2>1, SMT
  <2>4. \A m \in 1..Len(queue) - 1 : Tail(queue)[m] = queue[m + 1] /\ m + 1 \in 1..Len(queue)
    BY <2>1, <2>2, SMT
  <2> HIDE DEF i
  <2> QED BY <1>1, <2>2, <2>3, <2>4
<1>4. phase[i] = "queued" /\ i \notin dropped
  <2>1. 1 \in 1..Len(queue)
    BY <1>3, SMT
  <2> QED BY <1>3, <2>1 DEF IInv, Queued
<1> HIDE DEF i
<1>5. Typed'
  <2>1. count' \in Counters
    <3>1. count.starting + 1 \in Int
      BY SMT DEF IInv, Typed, Counters
    <3> QED BY <1>1, <3>1, StartingSet DEF IInv
  <2> QED BY <1>1, <1>2, <1>3, <2>1 DEF IInv, Typed, Phases
<1>6. Linked'
  BY <1>1, <1>2, <1>3, <1>4, SMT DEF IInv, Typed, Linked
<1>7. Queued'
  <2>a. 1 \in 1..Len(queue)
    BY <1>3, SMT
  <2>b. /\ \A m \in 1..Len(queue) : phase[queue[m]] = "queued" /\ queue[m] \notin dropped
        /\ \A m, n \in 1..Len(queue) : queue[m] = queue[n] => m = n
    BY DEF IInv, Queued
  <2>1. ASSUME NEW m \in 1..Len(queue')
        PROVE  queue'[m] # i /\ phase[queue'[m]] = "queued" /\ queue'[m] \notin dropped
    <3>1. m \in Nat \ {0} /\ queue'[m] = queue[m + 1] /\ m + 1 \in 1..Len(queue)
      BY <1>3, SMT
    <3>2. m + 1 # 1
      BY <3>1, SMT
    <3>3. queue[m + 1] # queue[1]
      BY <2>a, <2>b, <3>1, <3>2
    <3> QED BY <1>3, <2>b, <3>1, <3>3
  <2>2. ASSUME NEW m \in 1..Len(queue'), NEW n \in 1..Len(queue'), queue'[m] = queue'[n]
        PROVE  m = n
    <3>1. m + 1 \in 1..Len(queue) /\ n + 1 \in 1..Len(queue) /\ queue[m + 1] = queue[n + 1]
      BY <1>3, <2>2
    <3>2. m + 1 = n + 1 /\ m \in Int /\ n \in Int
      BY <2>b, <3>1, SMT
    <3> QED BY <3>2, SMT
  <2>3. \A m \in 1..Len(queue') : queue'[m] \in Works
    <3>1. \A m \in 1..Len(queue) : queue[m] \in Works
      BY SMT DEF IInv, Typed
    <3> QED BY <1>3, <3>1
  <2>4. \A m \in 1..Len(queue') : phase'[queue'[m]] = "queued"
    BY <1>1, <2>1, <2>3 DEF IInv, Typed
  <2>5. \A j \in dropped' : phase'[j] = "queued"
    BY <1>1, <1>2, <1>4 DEF IInv, Typed, Queued
  <2> QED BY <1>2, <2>1, <2>2, <2>4, <2>5 DEF Queued
<1>8. Pended'
  BY <1>1, <1>2, <1>4 DEF IInv, Typed, Pended, ExecutionOutlivesRequest
<1>9. Counts'
  <2>1. "taken" \in Outstanding /\ "queued" \in Outstanding /\ "taken" \in Waiting /\ "queued" \in Waiting
    BY DEF Outstanding, Waiting
  <2>2. Counted(phase', Outstanding) = Counted(phase, Outstanding) /\ Counted(phase', Waiting) = Counted(phase, Waiting)
    BY <1>1, <1>3, <1>4, <2>1, CountsStay
  <2>3. Cardinality(Starters(starting')) = Cardinality(Starters(starting)) + 1
    BY <1>1, <1>3, StartersMove DEF IInv, Typed
  <2>4. /\ count'.outstanding = count.outstanding /\ count'.queued = count.queued
        /\ count'.inflight = count.inflight /\ count'.starting = count.starting + 1
    BY <1>1 DEF IInv, Typed, Counters
  <2> QED BY <1>2, <2>2, <2>3, <2>4 DEF IInv, Counts
<1>10. DrainNotLost'
  <2>1. count'.outstanding = count.outstanding
    BY <1>1 DEF IInv, Typed, Counters
  <2> QED BY <1>1, <1>2, <1>3, <2>1 DEF IInv, Typed, DrainNotLost, Idle
<1> QED BY <1>5, <1>6, <1>7, <1>8, <1>9, <1>10 DEF IInv

(* ReleaseStart preserves the invariant. *)
LEMMA ReleaseStartKeeps ==
    ASSUME IInv, NEW w \in Workers, ReleaseStart(w)
    PROVE  IInv'
<1>1. /\ starting[w] # None
      /\ starting' = [starting EXCEPT ![w] = None]
      /\ count' = [count EXCEPT !.starting = Lowered(@)]
  BY DEF ReleaseStart
<1>2. UNCHANGED <<seen, pending, reported, transfer, phase, home, claims, queue, follow, pc, drain, dropped>>
  BY DEF ReleaseStart, works, runner, host
<1>3. /\ Cardinality(Starters(starting)) > 0 /\ Cardinality(Starters(starting)) \in Nat
      /\ Cardinality(Starters(starting')) = Cardinality(Starters(starting)) - 1
  <2>1. starting[w] \in Works
    BY <1>1 DEF IInv, Typed
  <2> QED BY <1>1, <2>1, StartersMove DEF IInv, Typed
<1>4. count.starting > 0
  BY <1>3 DEF IInv, Counts
<1>5. count' = [count EXCEPT !.starting = count.starting - 1]
  BY <1>1, <1>4 DEF IInv, Typed, Counters, Lowered
<1>6. /\ count' \in Counters
      /\ count'.outstanding = count.outstanding /\ count'.queued = count.queued
      /\ count'.inflight = count.inflight /\ count'.starting = count.starting - 1
  <2>1. count.starting - 1 \in Int
    BY SMT DEF IInv, Typed, Counters
  <2> QED BY <1>5, <2>1, StartingSet DEF IInv
<1>7. Typed'
  BY <1>1, <1>2, <1>6 DEF IInv, Typed
<1>8. Counts'
  BY <1>2, <1>3, <1>6 DEF IInv, Counts
<1>9. Linked' /\ Queued'
  BY <1>2, SMT DEF IInv, Linked, Queued
<1>10. Pended'
  BY <1>2 DEF IInv, Pended, ExecutionOutlivesRequest
<1>11. DrainNotLost'
  BY <1>2, <1>6 DEF IInv, DrainNotLost, Idle
<1> QED BY <1>7, <1>8, <1>9, <1>10, <1>11 DEF IInv

-----------------------------------------------------------------------------
(* Transfers come and go.                                                  *)

(* What track() adds. *)
Tracked(w, i, t, import, counts) ==
    /\ t \notin pending /\ pending' = pending \cup {t}
    /\ transfer' \in [Transfers -> Entries]
    /\ \A s \in Transfers \ {t} : transfer'[s] = transfer[s]
    /\ transfer'[t].at = "sent" /\ transfer'[t].worker = w
    /\ transfer'[t].import = import
    /\ ~import => transfer'[t].work = i
    /\ Cardinality(pending') = Cardinality(pending) + 1
    /\ count' \in Counters
    /\ count'.outstanding = counts.outstanding /\ count'.queued = counts.queued
    /\ count'.starting = counts.starting /\ count'.inflight = counts.inflight + 1

(* track() adds it. *)
LEMMA TrackFacts ==
    ASSUME IInv, NEW w \in Workers, NEW i \in Works, NEW t \in Transfers, NEW import \in BOOLEAN,
           NEW counts \in Counters, Track(w, i, t, import, counts)
    PROVE  Tracked(w, i, t, import, counts)
<1> DEFINE e == [at |-> "sent", import |-> import, worker |-> w,
                 work |-> IF import THEN None ELSE i]
<1>1. e \in Entries /\ e.at = "sent" /\ e.worker = w /\ e.import = import /\ (~import => e.work = i)
  <2>1. CASE import = TRUE
    BY <2>1 DEF Entries, Places
  <2>2. CASE import = FALSE
    BY <2>2 DEF Entries, Places
  <2> QED BY <2>1, <2>2
<1>2. transfer' = [transfer EXCEPT ![t] = e] /\ pending' = pending \cup {t}
  BY DEF Track
<1> HIDE DEF e
<1>3. t \notin pending
  BY DEF IInv, Pended, Track
<1>4. Cardinality(pending') = Cardinality(pending) + 1
  BY <1>2, <1>3, PendingMoves DEF IInv, Typed
<1>5. /\ count' \in Counters
      /\ count'.outstanding = counts.outstanding /\ count'.queued = counts.queued
      /\ count'.starting = counts.starting /\ count'.inflight = counts.inflight + 1
  <2>1. counts.inflight + 1 \in Int
    BY SMT DEF Counters
  <2>2. count' = [counts EXCEPT !.inflight = counts.inflight + 1]
    BY DEF Track
  <2> QED BY <2>1, <2>2 DEF Counters
<1>6. /\ transfer' \in [Transfers -> Entries]
      /\ \A s \in Transfers \ {t} : transfer'[s] = transfer[s]
      /\ transfer'[t] = e
  BY <1>1, <1>2 DEF IInv, Typed
<1> QED BY <1>1, <1>2, <1>3, <1>4, <1>5, <1>6 DEF Tracked

(* A session with a work counted in has not reported that it has drained. *)
LEMMA Unreported ==
    ASSUME IInv, NEW i \in Works, phase[i] \in Outstanding
    PROVE  ~reported /\ count.outstanding > 0
<1>1. i \in Counted(phase, Outstanding)
  BY DEF Counted
<1>2. Cardinality(Counted(phase, Outstanding)) > 0
  BY <1>1, CountedFinite, FS_EmptySet, SMT
<1> QED BY <1>2, SMT DEF IInv, Counts, DrainNotLost, Idle

(* StartTransfer preserves the invariant. *)
LEMMA StartTransferKeeps ==
    ASSUME IInv, NEW w \in Workers, NEW i \in Works, StartTransfer(w, i)
    PROVE  IInv'
<1>1. phase[i] = "resident" /\ home[i] = w
  BY DEF StartTransfer, Runs
<1>2. UNCHANGED <<seen, reported, phase, home, claims, queue, starting, follow, pc, drain, dropped>>
  BY DEF StartTransfer, works, runner, worker, host
<1>3. PICK t \in Transfers, import \in BOOLEAN : Track(w, i, t, import, count)
  BY DEF StartTransfer
<1>4. count \in Counters
  BY DEF IInv, Typed
<1>5. /\ t \notin pending /\ pending' = pending \cup {t}
      /\ transfer' \in [Transfers -> Entries]
      /\ \A s \in Transfers \ {t} : transfer'[s] = transfer[s]
      /\ transfer'[t].at = "sent" /\ transfer'[t].worker = w
      /\ ~transfer'[t].import => transfer'[t].work = i
      /\ Cardinality(pending') = Cardinality(pending) + 1
      /\ count' \in Counters
      /\ count'.outstanding = count.outstanding /\ count'.queued = count.queued
      /\ count'.starting = count.starting /\ count'.inflight = count.inflight + 1
  <2>1. Tracked(w, i, t, import, count)
    BY <1>3, <1>4, TrackFacts
  <2> QED BY <2>1 DEF Tracked
<1>6. Typed'
  BY <1>2, <1>5 DEF IInv, Typed
<1>7. Linked' /\ Queued'
  BY <1>2 DEF IInv, Linked, Queued
<1>8. Pended'
  <2>1. \A s \in pending : transfer'[s] = transfer[s]
    BY <1>5 DEF IInv, Typed
  <2>2. \A s \in pending' : s = t \/ s \in pending
    BY <1>5
  <2>3. \A s \in pending : /\ transfer[s].at \in {"sent", "passed", "refused", "inbox", "lost"}
                           /\ ~transfer[s].import => transfer[s].work \in Works
    BY DEF IInv, Pended
  <2>4. \A s \in pending' : /\ transfer'[s].at \in {"sent", "passed", "refused", "inbox", "lost"}
                            /\ ~transfer'[s].import => transfer'[s].work \in Works
    BY <1>5, <2>1, <2>2, <2>3
  <2>5. ExecutionOutlivesRequest'
    BY <1>1, <1>2, <1>5, <2>1, <2>2, SMT DEF IInv, Pended, ExecutionOutlivesRequest
  <2> QED BY <2>4, <2>5 DEF Pended
<1>9. Counts'
  BY <1>2, <1>5 DEF IInv, Counts
<1>10. DrainNotLost'
  <2>1. phase[i] \in Outstanding
    BY <1>1 DEF Outstanding
  <2> QED BY <1>2, <1>5, <2>1, Unreported DEF DrainNotLost, Idle
<1> QED BY <1>6, <1>7, <1>8, <1>9, <1>10 DEF IInv

(* BeginWork preserves the invariant. *)
LEMMA BeginWorkKeeps ==
    ASSUME IInv, NEW w \in Workers, BeginWork(w)
    PROVE  IInv'
<1> DEFINE i == starting[w]
<1>1. i \in Works /\ phase[i] = "taken" /\ w \in Actors
  BY DEF BeginWork, IInv, Typed, Actors
<1>2. UNCHANGED <<seen, reported, claims, queue, starting, follow, pc, dropped>>
  BY DEF BeginWork, runner, worker, host
<1>3. Requests(i) = {} /\ Cardinality({}) = 0 /\ i \notin dropped
  BY <1>1, NoRequests, FS_EmptySet DEF IInv, Queued
<1>4. phase[i] \in Outstanding /\ phase[i] \in Waiting
  BY <1>1 DEF Outstanding, Waiting
<1>5. Dequeued.queued = count.queued - 1 /\ count.queued > 0
  <2>1. i \in Counted(phase, Waiting)
    BY <1>1, <1>4 DEF Counted
  <2>2. Cardinality(Counted(phase, Waiting)) > 0
    BY <2>1, CountedFinite, FS_EmptySet, SMT
  <2> QED BY <2>2, DequeuedCounts DEF IInv, Counts, Lowered
<1>6. CASE Retire(w, i, Dequeued) /\ UNCHANGED <<pending, transfer>>
  <2>1. Dequeued.inflight = count.inflight - Cardinality(Requests(i))
    BY <1>3, DequeuedCounts, SMT DEF IInv, Typed, Counters
  <2>2. pending' = pending \ Requests(i) /\ dropped' = dropped \ {i}
    BY <1>2, <1>3, <1>6
  <2> HIDE DEF i
  <2> QED BY <1>1, <1>2, <1>4, <1>6, <2>1, <2>2, DequeuedCounts, RetireKeeps DEF IInv, Typed
<1>7. ASSUME home' = [home EXCEPT ![i] = w], phase' = [phase EXCEPT ![i] = "resident"], UNCHANGED drain,
             \/ \E t \in Transfers : Track(w, i, t, TRUE, Dequeued)
             \/ count' = Dequeued /\ UNCHANGED <<pending, transfer>>
      PROVE  IInv'
  <2>1. /\ count' \in Counters
        /\ count'.outstanding = count.outstanding /\ count'.queued = count.queued - 1
        /\ count'.starting = count.starting
        /\ transfer' \in [Transfers -> Entries]
        /\ pending' \subseteq Transfers
        /\ count'.inflight - count.inflight = Cardinality(pending') - Cardinality(pending)
        /\ \A t \in pending' : /\ t \notin pending => transfer'[t].at = "sent" /\ transfer'[t].import
                               /\ t \in pending => transfer'[t] = transfer[t]
    <3>1. CASE count' = Dequeued /\ UNCHANGED <<pending, transfer>>
      <4>1. Cardinality(pending) \in Nat
        BY SessionAssumption, FS_Subset, FS_CardinalityType DEF IInv, Typed
      <4> QED BY <1>5, <3>1, <4>1, DequeuedCounts, SMT DEF IInv, Typed, Counters
    <3>2. ASSUME NEW t \in Transfers, Track(w, i, t, TRUE, Dequeued)
          PROVE  /\ count' \in Counters
                 /\ count'.outstanding = count.outstanding /\ count'.queued = count.queued - 1
                 /\ count'.starting = count.starting
                 /\ transfer' \in [Transfers -> Entries]
                 /\ pending' \subseteq Transfers
                 /\ count'.inflight - count.inflight = Cardinality(pending') - Cardinality(pending)
                 /\ \A s \in pending' : /\ s \notin pending => transfer'[s].at = "sent" /\ transfer'[s].import
                                        /\ s \in pending => transfer'[s] = transfer[s]
      <4>1. Dequeued \in Counters
        BY DequeuedCounts DEF IInv
      <4> HIDE DEF i
      <4>w. PICK b \in BOOLEAN : b = TRUE /\ Track(w, i, t, b, Dequeued)
        <5> WITNESS TRUE \in BOOLEAN
        <5> QED BY <3>2
      <4>b. Track(w, i, t, b, Dequeued)
        BY <4>w
      <4>2. /\ t \notin pending /\ pending' = pending \cup {t}
            /\ transfer' \in [Transfers -> Entries]
            /\ \A s \in Transfers \ {t} : transfer'[s] = transfer[s]
            /\ transfer'[t].at = "sent"
            /\ transfer'[t].import = b
            /\ Cardinality(pending') = Cardinality(pending) + 1
            /\ count' \in Counters
            /\ count'.outstanding = Dequeued.outstanding /\ count'.queued = Dequeued.queued
            /\ count'.starting = Dequeued.starting /\ count'.inflight = Dequeued.inflight + 1
        <5>1. Tracked(w, i, t, b, Dequeued)
          BY <1>1, <4>1, <4>b, TrackFacts
        <5> QED BY <5>1 DEF Tracked
      <4>3. Cardinality(pending) \in Nat
        BY SessionAssumption, FS_Subset, FS_CardinalityType DEF IInv, Typed
      <4>4. pending \subseteq Transfers
        BY DEF IInv, Typed
      <4>5. count'.inflight - count.inflight = Cardinality(pending') - Cardinality(pending)
        BY <4>2, <4>3, DequeuedCounts, SMT DEF IInv, Typed, Counters
      <4> QED BY <1>5, <4>w, <4>2, <4>4, <4>5, DequeuedCounts DEF IInv
    <3> QED BY <1>7, <3>1, <3>2
  <2> HIDE DEF i
  <2>2. Typed'
    BY <1>1, <1>2, <1>7, <2>1 DEF IInv, Typed, Phases
  <2>3. Linked'
    BY <1>1, <1>2, <1>7, SMT DEF IInv, Typed, Linked
  <2>4. Queued'
    <3>1. \A m \in 1..Len(queue) : queue[m] \in Works /\ queue[m] # i
      BY <1>1, SMT DEF IInv, Typed, Queued
    <3>2. \A j \in Works \ {i} : phase'[j] = phase[j]
      BY <1>7 DEF IInv, Typed
    <3>3. \A j \in dropped : j # i /\ j \in Works
      BY <1>3 DEF IInv, Typed
    <3> QED BY <1>2, <3>1, <3>2, <3>3 DEF IInv, Queued
  <2>5. Pended'
    <3>1. \A t \in pending' : transfer'[t].at \in {"sent", "passed", "refused", "inbox", "lost"}
      BY <2>1 DEF IInv, Pended
    <3>2. \A t \in pending' : ~transfer'[t].import => t \in pending /\ transfer'[t] = transfer[t]
      BY <2>1
    <3>3. \A j \in Works : phase[j] = "resident" => phase'[j] = "resident" /\ home'[j] = home[j]
      BY <1>1, <1>7 DEF IInv, Typed
    <3>4. ASSUME NEW t \in pending', ~transfer'[t].import
          PROVE  /\ transfer'[t].work \in Works /\ phase'[transfer'[t].work] = "resident"
                 /\ home'[transfer'[t].work] = transfer'[t].worker
      <4>1. t \in pending /\ transfer'[t] = transfer[t]
        BY <3>2, <3>4
      <4>2. /\ transfer[t].work \in Works /\ phase[transfer[t].work] = "resident"
            /\ home[transfer[t].work] = transfer[t].worker
        BY <3>4, <4>1 DEF IInv, Pended, ExecutionOutlivesRequest
      <4> QED BY <3>3, <4>1, <4>2
    <3> QED BY <3>1, <3>4 DEF Pended, ExecutionOutlivesRequest
  <2>6. Counts'
    <3>1. "resident" \in Outstanding /\ "resident" \notin Waiting
      BY DEF Outstanding, Waiting
    <3>2. Counted(phase', Outstanding) = Counted(phase, Outstanding)
      BY <1>1, <1>4, <1>7, <3>1, CountedMoves, ZenonT(30) DEF IInv, Typed
    <3>3. Cardinality(Counted(phase', Waiting)) = Cardinality(Counted(phase, Waiting)) - 1
      BY <1>1, <1>4, <1>7, <3>1, CountedMoves, ZenonT(30) DEF IInv, Typed
    <3>4. Cardinality(pending) \in Nat /\ Cardinality(pending') \in Nat
      BY <2>1, SessionAssumption, FS_Subset, FS_CardinalityType DEF IInv, Typed
    <3>5. count'.inflight = Cardinality(pending')
      BY <2>1, <3>4, SMT DEF IInv, Counts, Counters
    <3> QED BY <1>2, <2>1, <3>2, <3>3, <3>5 DEF IInv, Counts
  <2>7. DrainNotLost'
    BY <1>1, <1>2, <1>4, <2>1, Unreported, SMT DEF DrainNotLost, Idle
  <2> QED BY <2>2, <2>3, <2>4, <2>5, <2>6, <2>7 DEF IInv
<1> QED BY <1>6, <1>7 DEF BeginWork

(* An entry is taken out of m_pending, by settle() or by a refused answer. *)
LEMMA EraseCounts ==
    ASSUME IInv, NEW t \in pending, pending' = pending \ {t},
           count' = [count EXCEPT !.inflight = Lowered(@)]
    PROVE  /\ count' \in Counters
           /\ count'.outstanding = count.outstanding /\ count'.queued = count.queued
           /\ count'.starting = count.starting /\ count'.inflight = Cardinality(pending')
<1>1. count.inflight = Cardinality(pending) /\ count.inflight > 0 /\ count.inflight \in Nat
      /\ Cardinality(pending') = Cardinality(pending) - 1
  BY PendingMoves DEF IInv, Typed, Counts
<1>2. count' = [count EXCEPT !.inflight = count.inflight - 1]
  BY <1>1 DEF Lowered
<1>3. count.inflight - 1 \in Int
  BY <1>1, SMT
<1> QED BY <1>1, <1>2, <1>3, InflightSet DEF IInv

(* Refused preserves the invariant. *)
LEMMA RefusedKeeps ==
    ASSUME IInv, NEW t \in Transfers, Refused(t)
    PROVE  IInv'
<1>1. /\ transfer' = Over(t) /\ pending' = pending \ {t}
      /\ drain' = [drain EXCEPT ![t] = "check"] /\ t \in Actors
  BY DEF Refused, Actors
<1>2. UNCHANGED <<seen, reported, phase, home, claims, queue, starting, follow, pc, dropped>>
  BY DEF Refused, works, runner, worker, host
<1>3. /\ count' \in Counters
      /\ count'.outstanding = count.outstanding /\ count'.queued = count.queued
      /\ count'.starting = count.starting /\ count'.inflight = Cardinality(pending')
  <2>1. CASE t \in pending
    BY <1>1, <2>1, EraseCounts DEF Refused
  <2>2. CASE t \notin pending
    BY <1>1, <2>2, PendingMoves DEF Refused, IInv, Typed, Counts
  <2> QED BY <2>1, <2>2
<1>4. Typed'
  BY <1>1, <1>2, <1>3, OverTyped DEF IInv, Typed
<1>5. Linked' /\ Queued' /\ Counts'
  BY <1>2, <1>3, SMT DEF IInv, Linked, Queued, Counts
<1>6. Pended'
  <2>1. \A s \in pending' : Goes(s)
    BY <1>1, OverTyped, SMT DEF IInv, Typed, Pended, Goes
  <2> QED BY <1>1, <1>2, <2>1, PendedGoes DEF IInv
<1>7. DrainNotLost'
  <2>1. drain'[t] = "check"
    BY <1>1 DEF IInv, Typed
  <2> QED BY <1>1, <1>2, <1>3, <2>1 DEF IInv, DrainNotLost, Idle
<1> QED BY <1>4, <1>5, <1>6, <1>7 DEF IInv

(* Settle preserves the invariant. *)
LEMMA SettleKeeps ==
    ASSUME IInv, NEW w \in Workers, NEW t \in Transfers, Settle(w, t)
    PROVE  IInv'
<1>1. UNCHANGED <<seen, reported, phase, home, claims, queue, starting, follow, drain, dropped>>
  BY DEF Settle, works, runner, host
<1>2. CASE t \in pending
  <2>1. /\ pending' = pending \ {t} /\ transfer' = At(t, "settling")
        /\ pc' = [pc EXCEPT ![w] = "settles"]
        /\ count' = [count EXCEPT !.inflight = Lowered(@)]
    BY <1>2 DEF Settle
  <2>2. /\ count' \in Counters
        /\ count'.outstanding = count.outstanding /\ count'.queued = count.queued
        /\ count'.starting = count.starting /\ count'.inflight = Cardinality(pending')
    BY <1>2, <2>1, EraseCounts
  <2>3. "settling" \in Places
    BY DEF Places
  <2>4. Typed'
    BY <1>1, <2>1, <2>2, <2>3, AtTyped DEF IInv, Typed
  <2>5. Linked' /\ Queued' /\ Counts'
    BY <1>1, <2>2, SMT DEF IInv, Linked, Queued, Counts
  <2>6. Pended'
    <3>1. \A s \in pending' : transfer'[s] = transfer[s]
      BY <2>1, <2>3, AtTyped, SMT DEF IInv, Typed
    <3>2. \A s \in pending' : Goes(s)
      BY <2>1, <3>1 DEF IInv, Pended, Goes
    <3> QED BY <1>1, <2>1, <3>2, PendedGoes DEF IInv
  <2>7. DrainNotLost'
    <3>1. pc'[w] = "settles"
      BY <2>1 DEF IInv, Typed
    <3>2. ~reported
      BY <1>2 DEF IInv, DrainNotLost, Idle
    <3> QED BY <1>1, <3>1, <3>2 DEF DrainNotLost
  <2> QED BY <2>4, <2>5, <2>6, <2>7 DEF IInv
<1>3. CASE t \notin pending
  <2>1. transfer' = Over(t) /\ UNCHANGED <<pending, count, pc>>
    BY <1>3 DEF Settle
  <2>2. Typed'
    BY <1>1, <2>1, OverTyped DEF IInv, Typed
  <2>3. Pended'
    <3>1. \A s \in pending' : Goes(s)
      BY <1>3, <2>1, OverTyped, SMT DEF IInv, Typed, Pended, Goes
    <3> QED BY <1>1, <2>1, <3>1, PendedGoes DEF IInv
  <2>4. DrainNotLost'
    BY <1>1, <2>1 DEF IInv, DrainNotLost, Idle
  <2> QED BY <1>1, <2>1, <2>2, <2>3, <2>4, Quiet
<1> QED BY <1>2, <1>3

(* ClearInbox preserves the invariant: what it drops of a request is no
   longer in m_pending, as no work is resident on the worker. *)
LEMMA ClearInboxKeeps ==
    ASSUME IInv, NEW w \in Workers, ClearInbox(w)
    PROVE  IInv'
<1>1. /\ pc[w] = "discards" /\ pc' = [pc EXCEPT ![w] = "ended"]
      /\ Residents(w) = {}
  BY DEF ClearInbox
<1>2. UNCHANGED <<session, reported, works, runner, starting, follow, drain, host>>
  BY DEF ClearInbox
<1> DEFINE Lost(t) == [Unused EXCEPT !.at = "lost", !.import = transfer[t].import]
<1>3. /\ transfer' = [t \in Transfers |-> IF transfer[t].at = "inbox" /\ transfer[t].worker = w
                                          THEN Lost(t) ELSE transfer[t]]
      /\ \A t \in Transfers : /\ Lost(t) \in Entries /\ Lost(t).at = "lost"
                              /\ Lost(t).import = transfer[t].import
  <2>1. ASSUME NEW t \in Transfers
        PROVE  Lost(t) \in Entries /\ Lost(t).at = "lost" /\ Lost(t).import = transfer[t].import
    <3>1. PICK b \in BOOLEAN : transfer[t].import = b
      BY DEF IInv, Typed, Entries
    <3> QED BY <3>1 DEF Unused, Entries, Places
  <2> QED BY <2>1 DEF ClearInbox
<1> HIDE DEF Lost
<1>4. transfer' \in [Transfers -> Entries]
  BY <1>3 DEF IInv, Typed
<1>5. Typed'
  BY <1>1, <1>2, <1>4 DEF IInv, Typed, session, works, runner, host
<1>6. Pended'
  <2>1. ASSUME NEW t \in pending PROVE /\ transfer'[t].at \in {"sent", "passed", "refused", "inbox", "lost"}
                                       /\ \/ transfer'[t] = transfer[t]
                                          \/ transfer'[t].import
    <3>1. CASE transfer[t].at = "inbox" /\ transfer[t].worker = w
      <4>1. transfer'[t] = Lost(t)
        BY <1>3, <3>1 DEF IInv, Typed
      <4>2. transfer[t].import
        BY <1>1, <3>1 DEF IInv, Pended, ExecutionOutlivesRequest, Residents
      <4> QED BY <1>3, <4>1, <4>2, SMT DEF IInv, Typed
    <3>2. CASE ~(transfer[t].at = "inbox" /\ transfer[t].worker = w)
      BY <1>3, <3>2 DEF IInv, Typed, Pended
    <3> QED BY <3>1, <3>2
  <2> QED BY <1>2, <2>1 DEF IInv, Pended, ExecutionOutlivesRequest, session, works
<1>7. DrainNotLost'
  BY <1>1, <1>2 DEF IInv, Typed, DrainNotLost, Idle, session, works
<1> QED BY <1>2, <1>5, <1>6, <1>7, Quiet DEF session, works, runner, host

-----------------------------------------------------------------------------
(* Links, and the discarded queue.                                         *)

(* Follow preserves the invariant. *)
LEMMA FollowKeeps ==
    ASSUME IInv, NEW w \in Workers, NEW i \in Works, NEW u \in Links, Follow(w, i, u)
    PROVE  IInv'
<1>1. /\ follow' = [follow EXCEPT ![w] = u] /\ pc' = [pc EXCEPT ![w] = "claims"]
      /\ pc[w] = "loops"
  BY DEF Follow, Runs, Free
<1>2. UNCHANGED <<session, reported, transfer, works, runner, starting, drain, host>>
  BY DEF Follow
<1>3. Typed'
  BY <1>1, <1>2 DEF IInv, Typed, session, works, runner, host
<1>4. Pended'
  BY <1>2 DEF IInv, Pended, ExecutionOutlivesRequest, session, works
<1>5. DrainNotLost'
  BY <1>1, <1>2 DEF IInv, Typed, DrainNotLost, Idle, session, works
<1> QED BY <1>2, <1>3, <1>4, <1>5, Quiet DEF session, works, runner, host

(* Claim preserves the invariant. *)
LEMMA ClaimKeeps ==
    ASSUME IInv, NEW w \in Workers, Claim(w)
    PROVE  IInv'
<1> DEFINE u == follow[w]
<1>1. u \in Links /\ u \in Works /\ pc[w] = "claims" /\ pc' = [pc EXCEPT ![w] = "loops"]
      /\ seen' = seen \cup {u}
  BY DEF Claim, IInv, Typed, Works
<1>2. UNCHANGED <<count, pending, reported, transfer, home, queue, starting, drain, dropped>>
  BY DEF Claim, runner, host
<1>3. /\ follow' \in [Workers -> Links \cup {None}]
      /\ \A v \in Workers : v # w => follow'[v] = follow[v]
  BY SMT DEF Claim, FollowOver, IInv, Typed
<1>4. DrainNotLost' \/ phase' # phase
  BY <1>1, <1>2 DEF IInv, Typed, DrainNotLost, Idle
<1>5. CASE UNCHANGED <<claims, phase>>
  <2>1. Typed'
    BY <1>1, <1>2, <1>3, <1>5 DEF IInv, Typed
  <2>2. Linked' /\ Queued' /\ Counts'
    BY <1>1, <1>2, <1>5, SMT DEF IInv, Linked, Queued, Counts
  <2>3. Pended'
    BY <1>2, <1>5 DEF IInv, Pended, ExecutionOutlivesRequest
  <2> QED BY <1>4, <1>5, <2>1, <2>2, <2>3 DEF IInv
<1>6. CASE /\ u \notin seen
           /\ claims' = [claims EXCEPT ![u] = @ + 1]
           /\ phase' = [phase EXCEPT ![u] = "reserved"]
  <2> HIDE DEF u
  <2>1. phase[u] = "new" /\ claims[u] = 0 /\ claims'[u] = 1
    BY <1>1, <1>6, SMT DEF IInv, Typed, Linked
  <2>2. Typed'
    <3>1. claims' \in [Links -> Nat] /\ phase' \in [Works -> Phases]
      BY <1>1, <1>6, SMT DEF IInv, Typed, Phases
    <3> QED BY <1>1, <1>2, <1>3, <3>1 DEF IInv, Typed
  <2>3. Linked'
    BY <1>1, <1>6, <2>1, SMT DEF IInv, Typed, Linked
  <2>4. Queued'
    BY <1>1, <1>2, <1>6, <2>1, SMT DEF IInv, Typed, Queued
  <2>5. Pended'
    BY <1>1, <1>2, <1>6, <2>1, SMT DEF IInv, Typed, Pended, ExecutionOutlivesRequest
  <2>6. Counts'
    <3>1. "new" \notin Outstanding /\ "reserved" \notin Outstanding /\ "new" \notin Waiting /\ "reserved" \notin Waiting
      BY DEF Outstanding, Waiting
    <3>2. Counted(phase', Outstanding) = Counted(phase, Outstanding) /\ Counted(phase', Waiting) = Counted(phase, Waiting)
      BY <1>1, <1>6, <2>1, <3>1, CountsStay
    <3> QED BY <1>2, <3>2 DEF IInv, Counts
  <2>7. DrainNotLost'
    BY <1>1, <1>2, <1>6, <2>1 DEF IInv, Typed, DrainNotLost, Idle
  <2> QED BY <2>2, <2>3, <2>4, <2>5, <2>6, <2>7 DEF IInv
<1> QED BY <1>5, <1>6 DEF Claim

(* Discard preserves the invariant. *)
LEMMA DiscardKeeps ==
    ASSUME IInv, Discard
    PROVE  IInv'
<1>1. dropped' = {queue[n] : n \in 1..Len(queue)} /\ queue' = <<>>
  BY DEF Discard
<1>2. UNCHANGED <<session, reported, transfer, works, worker, drain>>
  BY DEF Discard
<1>3. \A i \in dropped' : i \in Works /\ phase[i] = "queued"
  BY <1>1, SMT DEF IInv, Typed, Queued
<1>4. Typed'
  BY <1>1, <1>2, <1>3, SMT DEF IInv, Typed, session, works, worker
<1>5. Queued'
  BY <1>1, <1>2, <1>3, SMT DEF Queued, works
<1>6. Linked' /\ Counts'
  BY <1>2 DEF IInv, Linked, Counts, session, works, worker
<1>7. Pended'
  BY <1>2 DEF IInv, Pended, ExecutionOutlivesRequest, session, works
<1>8. DrainNotLost'
  BY <1>2 DEF IInv, DrainNotLost, Idle, session, works, worker
<1> QED BY <1>4, <1>5, <1>6, <1>7, <1>8 DEF IInv

-----------------------------------------------------------------------------
(* A session begins empty. *)
LEMMA InitHolds == Init => IInv
<1> SUFFICES ASSUME Init PROVE IInv
  OBVIOUS
<1>1. Typed
  <2>1. count \in Counters
    BY SMT DEF Init, Counters
  <2>2. transfer \in [Transfers -> Entries]
    BY DEF Init, Unused, Entries, Places
  <2> QED BY <2>1, <2>2, SMT DEF Init, Typed, Phases
<1>2. Linked /\ Queued /\ Pended
  BY SMT DEF Init, Linked, Queued, Pended, ExecutionOutlivesRequest, Works
<1>3. Counts
  <2>1. Counted(phase, Outstanding) = {} /\ Counted(phase, Waiting) = {} /\ Starters(starting) = {}
    BY DEF Init, Counted, Outstanding, Waiting, Starters
  <2> QED BY <2>1, FS_EmptySet DEF Init, Counts
<1>4. DrainNotLost
  BY DEF Init, DrainNotLost
<1> QED BY <1>1, <1>2, <1>3, <1>4 DEF IInv

(* Every step preserves the invariant. *)
LEMMA StepKeeps == IInv /\ [Next]_vars => IInv'
<1> SUFFICES ASSUME IInv, [Next]_vars PROVE IInv'
  OBVIOUS
<1>1. CASE UNCHANGED vars
  <2>1. Typed' /\ Pended' /\ DrainNotLost'
    BY <1>1 DEF vars, session, works, runner, worker, host, IInv, Typed, Pended,
       ExecutionOutlivesRequest, DrainNotLost, Idle
  <2> QED BY <1>1, <2>1, Quiet, SMT DEF vars, session, works, runner, worker, host
<1>2. ASSUME NEW i \in Roots, Submit(i) \/ Submitter(i) PROVE IInv'
  BY <1>2, SubmitKeeps, EnqueueKeeps, RunnerSubmitKeeps DEF Submitter, Works
<1>3. ASSUME NEW w \in Workers, Thread(w) PROVE IInv'
  BY <1>3, TakeKeeps, BeginWorkKeeps, EvaluateFailsKeeps, ReleaseStartKeeps, ClaimKeeps,
     LoopEndsKeeps, DiscardOneKeeps, ClearInboxKeeps, StepOfScriptKeeps, ReleaseKeeps, EnqueueKeeps,
     RunnerSubmitKeeps, SettleKeeps, SettledKeeps DEF Thread
<1>4. ASSUME NEW w \in Workers, Script(w) PROVE IInv'
  BY <1>4, StartTransferKeeps, FollowKeeps DEF Script
<1>5. ASSUME NEW t \in Transfers, Deliver(t) PROVE IInv'
  BY <1>5, AnswerKeeps, InboxKeeps, RefusedKeeps DEF Deliver
<1>6. CASE Ends
  BY <1>6, CloseKeeps, DiscardKeeps, RetireDroppedKeeps, WaitKeeps, StopKeeps, StopLanesKeeps,
     DropKeeps, JoinLanesKeeps DEF Ends
<1>7. ASSUME NEW a \in Actors, Drains(a) PROVE IInv'
  BY <1>7, ReportDrainedKeeps, OnFinishedKeeps DEF Drains
<1>8. CASE Destroy \/ Shutdown
  BY <1>8, DestroyKeeps, ShutdownKeeps
<1> QED BY <1>1, <1>2, <1>3, <1>4, <1>5, <1>6, <1>7, <1>8, SMT DEF Next

(* The invariant holds in every state. *)
LEMMA IInvHolds == Spec => []IInv
BY InitHolds, StepKeeps, PTL DEF Spec

(* m_outstanding, m_queued, m_inflight_requests and m_starting are what they
   count, whichever threads submit, run, answer, discard and stop. *)
THEOREM CountersAreHonest == Spec => []CountersHonest
<1>1. IInv => CountersHonest
  BY DEF IInv, Counts, Counted, Outstanding, Waiting, Starters, CountersHonest
<1> QED BY <1>1, IInvHolds, PTL

(* settle() finds the execution of a pending request where the entry says. *)
THEOREM ExecutionsOutliveRequests == Spec => []ExecutionOutlivesRequest
<1>1. IInv => ExecutionOutlivesRequest
  BY DEF IInv, Pended
<1> QED BY <1>1, IInvHolds, PTL

(* A session that its last work left idle has said so in reportDrainedIfIdle(),
   or a thread is on its way there; and it says so only while it is idle. *)
THEOREM DrainsAreReported == Spec => []DrainNotLost
<1>1. IInv => DrainNotLost
  BY DEF IInv
<1> QED BY <1>1, IInvHolds, PTL

(* follow() queues a link once, however many scripts follow it at a time. *)
THEOREM LinksAreFollowedOnce == Spec => []FollowedOnce
<1>1. IInv => FollowedOnce
  BY DEF IInv, Linked, FollowedOnce
<1> QED BY <1>1, IInvHolds, PTL

-----------------------------------------------------------------------------
(* The shutdown.                                                           *)

Calls == {"discard", "retire", "wait", "close", "stop", "join", "lanes", "drop", "reset"}

(* s is what is left of the calls in full. *)
Suffix(s, full) ==
    /\ Len(s) <= Len(full)
    /\ \A k \in 1..Len(s) : s[k] = full[Len(full) - Len(s) + k]

(* The thread that ends the session is within its calls, and after the
   observer has gone only the join of the IO threads is left. *)
Hosted ==
    /\ owner \in {"manager", "destroy", "shutdown", None}
    /\ calls \in Seq(Calls)
    /\ owner = "destroy" => Suffix(calls, DestroyCalls)
    /\ owner = "shutdown" => Suffix(calls, ShutdownCalls)
    /\ owner = "manager" => calls = <<>>
    /\ owner = None => Len(calls) = 0 \/ (Len(calls) = 1 /\ Head(calls) = "reset")
    /\ owner = None => drain["host"] = "no"

(* A script thread that has ended left nothing behind. *)
Left ==
    /\ \A w \in Workers : pc[w] \in {"discards", "ended"} => starting[w] = None
    /\ \A w \in Workers : pc[w] = "ended" => drain[w] = "no"
    /\ \A i \in Works : phase[i] = "taken" => \E w \in Workers : starting[w] = i
    /\ \A i \in Works : phase[i] = "resident" => home[i] \in Workers /\ pc[home[i]] # "ended"

(* After the join the script threads have ended; only shutdown() stops the
   runner. *)
Joined ==
    /\ (owner = "shutdown" /\ Len(calls) <= 4) => \A w \in Workers : pc[w] = "ended"
    /\ (owner = None /\ ~running) => \A w \in Workers : pc[w] = "ended"
    /\ owner \in {"manager", "destroy"} => running

SInv == Hosted /\ Left /\ Joined

(* The next call, and what is left after it. *)
LEMMA SuffixTail ==
    ASSUME NEW full \in Seq(Calls), NEW s \in Seq(Calls), Suffix(s, full), s # <<>>
    PROVE  /\ Tail(s) \in Seq(Calls) /\ Len(Tail(s)) = Len(s) - 1 /\ Suffix(Tail(s), full)
           /\ Len(s) \in 1..Len(full) /\ Head(s) = full[Len(full) - Len(s) + 1]
<1>1. PICK r \in Seq(Calls) : r = Tail(s)
  <2>1. Tail(s) \in Seq(Calls)
    BY SMT
  <2> QED BY <2>1
<1>2. /\ Len(s) \in Nat /\ Len(full) \in Nat /\ Len(s) > 0 /\ Len(s) <= Len(full)
      /\ Len(r) = Len(s) - 1 /\ \A k \in 1..(Len(s) - 1) : r[k] = s[k + 1]
  BY <1>1, SMT DEF Suffix
<1>3. \A k \in 1..Len(s) : s[k] = full[Len(full) - Len(s) + k]
  BY DEF Suffix
<1>4. Head(s) = full[Len(full) - Len(s) + 1]
  BY <1>2, <1>3, SMT
<1>5. ASSUME NEW k \in 1..Len(r) PROVE r[k] = full[Len(full) - Len(r) + k]
  <2>1. r[k] = s[k + 1] /\ k + 1 \in 1..Len(s)
    BY <1>2, SMT
  <2>2. s[k + 1] = full[Len(full) - Len(s) + (k + 1)]
    BY <1>3, <2>1
  <2>3. Len(full) - Len(s) + (k + 1) = Len(full) - Len(r) + k
    BY <1>2, SMT
  <2> QED BY <2>1, <2>2, <2>3
<1>6. Suffix(r, full)
  BY <1>2, <1>5, SMT DEF Suffix
<1> QED BY <1>1, <1>2, <1>4, <1>6, SMT

(* The calls of destroy() and shutdown(). *)
LEMMA CallLists ==
    /\ ShutdownCalls \in Seq(Calls) /\ Len(ShutdownCalls) = 9
    /\ DestroyCalls \in Seq(Calls) /\ Len(DestroyCalls) = 7
    /\ \A j \in 1..9 : /\ ShutdownCalls[j] = "join" <=> j = 5
                       /\ ShutdownCalls[j] = "lanes" <=> j = 7
                       /\ ShutdownCalls[j] = "drop" <=> j = 8
                       /\ ShutdownCalls[j] = "discard" <=> j = 1
    /\ \A j \in 1..7 : /\ DestroyCalls[j] # "lanes" /\ DestroyCalls[j] # "join" /\ DestroyCalls[j] # "stop"
                       /\ DestroyCalls[j] = "drop" <=> j = 7
<1>1. ShutdownCalls \in Seq(Calls) /\ Len(ShutdownCalls) = 9
  BY SMT DEF ShutdownCalls, Calls
<1>2. DestroyCalls \in Seq(Calls) /\ Len(DestroyCalls) = 7
  BY SMT DEF DestroyCalls, Calls
<1>3. /\ ShutdownCalls[1] = "discard" /\ ShutdownCalls[2] = "retire" /\ ShutdownCalls[3] = "wait"
      /\ ShutdownCalls[4] = "stop" /\ ShutdownCalls[5] = "join" /\ ShutdownCalls[6] = "retire"
      /\ ShutdownCalls[7] = "lanes" /\ ShutdownCalls[8] = "drop" /\ ShutdownCalls[9] = "reset"
  BY DEF ShutdownCalls
<1>4. /\ DestroyCalls[1] = "discard" /\ DestroyCalls[2] = "retire" /\ DestroyCalls[3] = "wait"
      /\ DestroyCalls[4] = "close" /\ DestroyCalls[5] = "discard" /\ DestroyCalls[6] = "retire"
      /\ DestroyCalls[7] = "drop"
  BY DEF DestroyCalls
<1>5. \A j \in 1..9 : j = 1 \/ j = 2 \/ j = 3 \/ j = 4 \/ j = 5 \/ j = 6 \/ j = 7 \/ j = 8 \/ j = 9
  BY SMT
<1>6. \A j \in 1..9 : /\ ShutdownCalls[j] = "join" <=> j = 5
                      /\ ShutdownCalls[j] = "lanes" <=> j = 7
                      /\ ShutdownCalls[j] = "drop" <=> j = 8
                      /\ ShutdownCalls[j] = "discard" <=> j = 1
  BY <1>3, <1>5
<1>7. \A j \in 1..7 : j = 1 \/ j = 2 \/ j = 3 \/ j = 4 \/ j = 5 \/ j = 6 \/ j = 7
  BY SMT
<1>8. \A j \in 1..7 : /\ DestroyCalls[j] # "lanes" /\ DestroyCalls[j] # "join" /\ DestroyCalls[j] # "stop"
                      /\ DestroyCalls[j] = "drop" <=> j = 7
  BY <1>4, <1>7
<1> QED BY <1>1, <1>2, <1>6, <1>8

(* The last call of shutdown(). *)
LEMMA LastCall ==
    ASSUME NEW r \in Seq(Calls), Len(r) = 1, Suffix(r, ShutdownCalls)
    PROVE  Head(r) = "reset"
<1>1. Head(r) = r[1] /\ 1 \in 1..Len(r)
  BY SMT
<1>2. Len(ShutdownCalls) - Len(r) + 1 = 9
  BY CallLists, SMT
<1>3. r[1] = ShutdownCalls[Len(ShutdownCalls) - Len(r) + 1]
  BY <1>1 DEF Suffix
<1>4. ShutdownCalls[9] = "reset"
  BY DEF ShutdownCalls
<1> QED BY <1>1, <1>2, <1>3, <1>4

(* Where a thread is that makes a call. *)
LEMMA CallingAt ==
    ASSUME Hosted, NEW call, Calling(call), call # "reset"
    PROVE  /\ owner \in {"destroy", "shutdown"} /\ calls # <<>> /\ drain["host"] = "no"
           /\ Len(calls) \in Nat /\ Len(calls) > 0
           /\ owner = "destroy" => /\ Suffix(Tail(calls), DestroyCalls) /\ Len(calls) <= 7
                                   /\ DestroyCalls[8 - Len(calls)] = call
           /\ owner = "shutdown" => /\ Suffix(Tail(calls), ShutdownCalls) /\ Len(calls) <= 9
                                    /\ ShutdownCalls[10 - Len(calls)] = call
           /\ Tail(calls) \in Seq(Calls) /\ Len(Tail(calls)) = Len(calls) - 1
<1>1. calls # <<>> /\ Head(calls) = call /\ drain["host"] = "no" /\ calls \in Seq(Calls)
  BY DEF Calling, Hosted
<1>2. owner \in {"destroy", "shutdown"}
  <2>1. Len(calls) # 0 /\ Head(calls) # "reset"
    BY <1>1, SMT
  <2> QED BY <1>1, <2>1 DEF Hosted
<1>3. Len(calls) \in Nat /\ Len(calls) > 0 /\ Tail(calls) \in Seq(Calls) /\ Len(Tail(calls)) = Len(calls) - 1
  BY <1>1, SMT
<1>4. ASSUME owner = "destroy"
      PROVE  /\ Suffix(Tail(calls), DestroyCalls) /\ Len(calls) <= 7
             /\ DestroyCalls[8 - Len(calls)] = call
  <2>1. Suffix(calls, DestroyCalls)
    BY <1>4 DEF Hosted
  <2>2. Suffix(Tail(calls), DestroyCalls) /\ Len(calls) \in 1..Len(DestroyCalls)
        /\ Head(calls) = DestroyCalls[Len(DestroyCalls) - Len(calls) + 1]
    BY <1>1, <2>1, CallLists, SuffixTail, ZenonT(30)
  <2>3. Len(DestroyCalls) = 7
    BY CallLists
  <2>4. Len(DestroyCalls) - Len(calls) + 1 = 8 - Len(calls) /\ Len(calls) <= 7
    <3>1. PICK n \in Nat : n = Len(calls)
      BY <1>3
    <3>2. n \in 1..7
      BY <2>2, <2>3, <3>1
    <3>3. 7 - n + 1 = 8 - n /\ n <= 7
      BY <3>2, SMT
    <3> QED BY <2>3, <3>1, <3>3
  <2> QED BY <1>1, <2>2, <2>4
<1>5. ASSUME owner = "shutdown"
      PROVE  /\ Suffix(Tail(calls), ShutdownCalls) /\ Len(calls) <= 9
             /\ ShutdownCalls[10 - Len(calls)] = call
  <2>1. Suffix(calls, ShutdownCalls)
    BY <1>5 DEF Hosted
  <2>2. Suffix(Tail(calls), ShutdownCalls) /\ Len(calls) \in 1..Len(ShutdownCalls)
        /\ Head(calls) = ShutdownCalls[Len(ShutdownCalls) - Len(calls) + 1]
    BY <1>1, <2>1, CallLists, SuffixTail, ZenonT(30)
  <2>3. Len(ShutdownCalls) = 9
    BY CallLists
  <2>4. Len(ShutdownCalls) - Len(calls) + 1 = 10 - Len(calls) /\ Len(calls) <= 9
    <3>1. PICK n \in Nat : n = Len(calls)
      BY <1>3, ZenonT(30)
    <3>2. n \in 1..9
      BY <2>2, <2>3, <3>1
    <3>3. 9 - n + 1 = 10 - n /\ n <= 9
      BY <3>2, SMT
    <3> QED BY <2>3, <3>1, <3>3
  <2> QED BY <1>1, <2>2, <2>4
<1> QED BY <1>1, <1>2, <1>3, <1>4, <1>5

-----------------------------------------------------------------------------
(* The threads of a session have names of their own. *)
LEMMA Distinct ==
    /\ "host" \notin Workers /\ "host" \notin Roots /\ "host" \notin Transfers
    /\ None \notin Works /\ None \notin Workers
    /\ \A t \in Transfers : t \notin Workers /\ t \notin Roots
    /\ \A w \in Workers : w \notin Roots /\ w \in Actors
BY SessionAssumption DEF None, Works, Actors

(* A script thread that takes a step has not ended, so the host is before its
   join. *)
LEMMA ThreadJoined ==
    ASSUME Hosted, Joined, NEW w \in Workers, pc[w] # "ended", UNCHANGED <<owner, calls, running>>,
           \A a \in Actors \ {w} : drain'[a] = drain[a]
    PROVE  Hosted' /\ Joined'
<1>1. "host" \in Actors \ {w}
  BY Distinct DEF Actors
<1>2. Hosted'
  BY <1>1 DEF Hosted
<1>3. Joined'
  BY DEF Joined
<1> QED BY <1>2, <1>3

(* Works move on, but none is taken or becomes resident. *)
LEMMA LeftStays ==
    ASSUME Left, UNCHANGED <<starting>>,
           \A w \in Workers : pc'[w] = pc[w] \/ (pc[w] # "ended" /\ pc'[w] \in {"loops", "claims", "settles"}),
           \A i \in Works : \/ phase'[i] \notin {"taken", "resident"}
                            \/ phase'[i] = phase[i] /\ home'[i] = home[i],
           \A w \in Workers : pc[w] = "ended" => drain'[w] = drain[w]
    PROVE  Left'
<1>1. \A w \in Workers : pc'[w] \in {"discards", "ended"} => pc'[w] = pc[w]
  OBVIOUS
<1>2. \A w \in Workers : pc'[w] = "ended" => pc[w] = "ended" /\ drain'[w] = "no"
  BY <1>1 DEF Left
<1>3. \A i \in Works : phase'[i] = "taken" => \E w \in Workers : starting'[w] = i
  BY DEF Left
<1>4. ASSUME NEW i \in Works, phase'[i] = "resident" PROVE home'[i] \in Workers /\ pc'[home'[i]] # "ended"
  <2>1. home'[i] = home[i] /\ home[i] \in Workers /\ pc[home[i]] # "ended"
    BY <1>4, SMT DEF Left
  <2> QED BY <1>2, <2>1
<1>5. \A w \in Workers : pc'[w] \in {"discards", "ended"} => starting'[w] = None
  BY <1>1 DEF Left
<1> QED BY <1>2, <1>3, <1>4, <1>5 DEF Left

(* A thread that submits a root. *)
LEMMA SubmitShut ==
    ASSUME IInv, SInv, NEW i \in Roots, Submit(i) \/ Enqueue(i, i) \/ RunnerSubmit(i, i)
    PROVE  SInv'
<1>1. /\ i \in Works /\ i \in Actors /\ i \notin Workers /\ i # "host" /\ i \notin Transfers
  BY Distinct DEF Works, Actors
<1>2. /\ UNCHANGED <<owner, calls, running, pc, starting, transfer>>
      /\ \A a \in Actors \ {i} : drain'[a] = drain[a]
      /\ \A j \in Works \ {i} : phase'[j] = phase[j] /\ home'[j] = home[j]
      /\ phase'[i] \notin {"taken", "resident"}
  <2>1. CASE Submit(i)
    BY <2>1, <1>1 DEF Submit, runner, host, worker, IInv, Typed
  <2>2. CASE Enqueue(i, i)
    BY <2>2, <1>1 DEF Enqueue, runner, host, worker, IInv, Typed
  <2>3. CASE RunnerSubmit(i, i)
    BY <2>3, <1>1 DEF RunnerSubmit, RetireQueued, Retire, runner, host, IInv, Typed
  <2> QED BY <2>1, <2>2, <2>3
<1>3. \A w \in Workers : w \in Actors \ {i}
  BY <1>1, Distinct
<1>4. Left'
  BY <1>2, <1>3, LeftStays DEF SInv
<1>5. Hosted'
  BY <1>1, <1>2 DEF SInv, Hosted, Actors
<1>6. Joined'
  BY <1>1, <1>2 DEF SInv, Joined, Actors
<1> QED BY <1>4, <1>5, <1>6 DEF SInv

(* A script thread takes a step that neither takes a work nor makes one
   resident nor ends the thread. *)
LEMMA ThreadShut ==
    ASSUME SInv, NEW w \in Workers, pc[w] # "ended", UNCHANGED <<owner, calls, running, starting>>,
           \A a \in Actors \ {w} : drain'[a] = drain[a],
           \A v \in Workers \ {w} : pc'[v] = pc[v],
           pc'[w] = pc[w] \/ pc'[w] \in {"loops", "claims", "settles"},
           \A i \in Works : \/ phase'[i] \notin {"taken", "resident"}
                            \/ phase'[i] = phase[i] /\ home'[i] = home[i]
    PROVE  SInv'
<1>1. \A v \in Workers : v # w => v \in Actors \ {w}
  BY Distinct
<1>2. \A v \in Workers : pc'[v] = pc[v] \/ (pc[v] # "ended" /\ pc'[v] \in {"loops", "claims", "settles"})
  OBVIOUS
<1>3. \A v \in Workers : pc[v] = "ended" => drain'[v] = drain[v]
  BY <1>1
<1>4. Left'
  BY <1>2, <1>3, LeftStays DEF SInv
<1>5. Hosted' /\ Joined'
  BY ThreadJoined DEF SInv
<1> QED BY <1>4, <1>5 DEF SInv

(* Retiring a work. *)
LEMMA RetireShut ==
    ASSUME IInv, NEW a \in Actors, NEW i \in Works, NEW counts, Retire(a, i, counts)
    PROVE  /\ \A b \in Actors \ {a} : drain'[b] = drain[b]
           /\ \A j \in Works : \/ phase'[j] \notin {"taken", "resident"}
                               \/ phase'[j] = phase[j] /\ home'[j] = home[j]
BY DEF Retire, IInv, Typed

(* The steps of a script thread that leave its start slot alone. *)
LEMMA ScriptShut ==
    ASSUME IInv, SInv, NEW w \in Workers, NEW i \in Works,
           \/ EvaluateFails(w) \/ DiscardOne(w) \/ Release(w, i)
           \/ Step(w, i) \/ StartTransfer(w, i) \/ (\E u \in Links : Follow(w, i, u))
           \/ Enqueue(w, i) \/ RunnerSubmit(w, i)
    PROVE  SInv'
<1>0. w \in Actors /\ pc \in [Workers -> {"loops", "claims", "settles", "discards", "ended"}]
  BY Distinct DEF IInv, Typed
<1>1. CASE EvaluateFails(w)
  <2>1. PICK j \in Works : j = starting[w] /\ Retire(w, j, Abandoned(j, count))
    BY <1>1 DEF EvaluateFails, IInv, Typed
  <2>2. pc[w] # "ended" /\ UNCHANGED <<owner, calls, running, starting, pc>>
    BY <1>1 DEF EvaluateFails, Free, worker, runner, host
  <2> QED BY <1>0, <2>1, <2>2, RetireShut, ThreadShut
<1>2. CASE DiscardOne(w)
  <2>1. PICK j \in Works : Retire(w, j, Abandoned(j, count))
    BY <1>2 DEF DiscardOne, Residents
  <2>2. pc[w] # "ended" /\ UNCHANGED <<owner, calls, running, starting, pc>>
    BY <1>2 DEF DiscardOne, worker, runner, host
  <2> QED BY <1>0, <2>1, <2>2, RetireShut, ThreadShut
<1>3. CASE Release(w, i)
  <2>1. Retire(w, i, count)
    BY <1>3 DEF Release
  <2>2. pc[w] # "ended" /\ UNCHANGED <<owner, calls, running, starting, pc>>
    BY <1>3 DEF Release, Runs, Free, worker, runner, host
  <2> QED BY <1>0, <2>1, <2>2, RetireShut, ThreadShut
<1>4. CASE Step(w, i) \/ StartTransfer(w, i)
  <2>1. pc[w] # "ended" /\ UNCHANGED <<owner, calls, running, starting, pc, phase, home, drain>>
    BY <1>4 DEF Step, StartTransfer, Runs, Free, works, worker, runner, host
  <2> QED BY <2>1, ThreadShut
<1>5. CASE \E u \in Links : Follow(w, i, u)
  <2>1. /\ pc[w] # "ended" /\ UNCHANGED <<owner, calls, running, starting, phase, home, drain>>
        /\ pc' = [pc EXCEPT ![w] = "claims"]
    BY <1>5 DEF Follow, Runs, Free, works, runner, host
  <2>2. pc'[w] = "claims" /\ \A v \in Workers \ {w} : pc'[v] = pc[v]
    BY <1>0, <2>1
  <2> QED BY <2>1, <2>2, ThreadShut
<1>6. CASE Enqueue(w, i)
  <2>1. pc[w] # "ended"
    BY <1>6, Distinct DEF Enqueue, Enqueues
  <2>2. /\ UNCHANGED <<owner, calls, running, starting, pc, home, drain>>
        /\ phase' = [phase EXCEPT ![i] = "counted"]
    BY <1>6 DEF Enqueue, worker, runner, host
  <2>3. \A j \in Works : phase'[j] \notin {"taken", "resident"} \/ (phase'[j] = phase[j] /\ home'[j] = home[j])
    BY <2>2 DEF IInv, Typed
  <2> QED BY <2>1, <2>2, <2>3, ThreadShut
<1>7. CASE RunnerSubmit(w, i)
  <2>1. pc[w] # "ended" /\ UNCHANGED <<owner, calls, running, starting, pc>>
    BY <1>7, Distinct DEF RunnerSubmit, Enqueues, runner, host
  <2>2. CASE running /\ Accepts
    <3>1. UNCHANGED <<home, drain>> /\ phase' = [phase EXCEPT ![i] = "queued"]
      BY <1>7, <2>2 DEF RunnerSubmit
    <3>2. \A j \in Works : phase'[j] \notin {"taken", "resident"} \/ (phase'[j] = phase[j] /\ home'[j] = home[j])
      BY <3>1 DEF IInv, Typed
    <3> QED BY <2>1, <3>1, <3>2, ThreadShut
  <2>3. CASE ~(running /\ Accepts)
    <3>1. Retire(w, i, [count EXCEPT !.queued = Lowered(@)])
      BY <1>7, <2>3 DEF RunnerSubmit, RetireQueued
    <3> QED BY <1>0, <2>1, <3>1, RetireShut, ThreadShut
  <2> QED BY <2>2, <2>3
<1> QED BY <1>1, <1>2, <1>3, <1>4, <1>5, <1>6, <1>7

(* A script thread claims a link, or settles a transfer. *)
LEMMA SettleShut ==
    ASSUME IInv, SInv, NEW w \in Workers,
           Claim(w) \/ (\E t \in Transfers : Settle(w, t) \/ Settled(w, t))
    PROVE  SInv'
<1>0. w \in Actors /\ pc \in [Workers -> {"loops", "claims", "settles", "discards", "ended"}]
      /\ drain \in [Actors -> {"no", "check", "finish"}]
  BY Distinct DEF IInv, Typed
<1>1. CASE Claim(w)
  <2>1. /\ pc[w] = "claims" /\ pc' = [pc EXCEPT ![w] = "loops"] /\ follow[w] \in Works
        /\ UNCHANGED <<owner, calls, running, starting, home, drain>>
        /\ phase' = [phase EXCEPT ![follow[w]] = "reserved"] \/ UNCHANGED phase
    BY <1>1 DEF Claim, runner, host, IInv, Typed, Works
  <2>2. \A j \in Works : phase'[j] \notin {"taken", "resident"} \/ (phase'[j] = phase[j] /\ home'[j] = home[j])
    BY <2>1 DEF IInv, Typed
  <2>3. pc'[w] = "loops" /\ \A v \in Workers \ {w} : pc'[v] = pc[v]
    BY <1>0, <2>1
  <2> QED BY <2>1, <2>2, <2>3, ThreadShut
<1>2. CASE \E t \in Transfers : Settle(w, t) \/ Settled(w, t)
  <2>1. PICK t \in Transfers : Settle(w, t) \/ Settled(w, t)
    BY <1>2
  <2>2. /\ pc[w] # "ended" /\ UNCHANGED <<owner, calls, running, starting, phase, home>>
        /\ UNCHANGED pc \/ (\E p \in {"loops", "settles"} : pc' = [pc EXCEPT ![w] = p])
        /\ UNCHANGED drain \/ drain' = [drain EXCEPT ![w] = "check"]
    BY <2>1 DEF Settle, Settled, Looping, Free, works, runner, host
  <2>3. /\ \A v \in Workers \ {w} : pc'[v] = pc[v]
        /\ pc'[w] = pc[w] \/ pc'[w] \in {"loops", "claims", "settles"}
    BY <1>0, <2>2
  <2>4. \A a \in Actors \ {w} : drain'[a] = drain[a]
    BY <1>0, <2>2
  <2> QED BY <2>2, <2>3, <2>4, ThreadShut
<1> QED BY <1>1, <1>2

(* A script thread takes a work, starts it and gives up its start slot. *)
LEMMA StartShut ==
    ASSUME IInv, SInv, NEW w \in Workers, Take(w) \/ BeginWork(w) \/ ReleaseStart(w)
    PROVE  SInv'
<1>1. /\ w \in Actors /\ pc[w] = "loops" /\ UNCHANGED <<owner, calls, running, pc>>
  BY Distinct DEF Take, BeginWork, ReleaseStart, Looping, Free, worker, runner, host
<1>2. CASE Take(w)
  <2>1. PICK i \in Works : i = Head(queue)
    BY <1>2, SMT DEF Take, IInv, Typed
  <2>2. /\ starting[w] = None /\ starting' = [starting EXCEPT ![w] = i]
        /\ phase' = [phase EXCEPT ![i] = "taken"] /\ UNCHANGED <<home, drain>>
    BY <1>2, <2>1 DEF Take, Looping
  <2>3. /\ starting'[w] = i /\ \A v \in Workers \ {w} : starting'[v] = starting[v]
        /\ phase'[i] = "taken" /\ \A j \in Works \ {i} : phase'[j] = phase[j]
    BY <2>2 DEF IInv, Typed
  <2>4. ASSUME NEW j \in Works, phase'[j] = "taken" PROVE \E v \in Workers : starting'[v] = j
    <3>1. CASE j = i
      BY <2>3, <3>1
    <3>2. CASE j # i
      <4>1. PICK v \in Workers : starting[v] = j
        BY <2>3, <2>4, <3>2 DEF SInv, Left
      <4>2. v # w
        BY <2>2, <4>1, Distinct
      <4> QED BY <2>3, <4>1, <4>2
    <3> QED BY <3>1, <3>2
  <2>5. \A j \in Works : phase'[j] = "resident" => home'[j] \in Workers /\ pc'[home'[j]] # "ended"
    BY <1>1, <2>2, <2>3, SMT DEF SInv, Left
  <2>6. Left'
    BY <1>1, <2>2, <2>3, <2>4, <2>5, SMT DEF SInv, Left
  <2>7. Hosted' /\ Joined'
    BY <1>1, <2>2, ThreadJoined DEF SInv
  <2> QED BY <2>6, <2>7 DEF SInv
<1>3. CASE BeginWork(w)
  <2>1. PICK i \in Works : i = starting[w]
    BY <1>3 DEF BeginWork, IInv, Typed
  <2>2. UNCHANGED starting
    BY <1>3 DEF BeginWork, worker
  <2>3. CASE Retire(w, i, Dequeued)
    BY <1>1, <2>2, <2>3, RetireShut, ThreadShut
  <2>4. CASE /\ home' = [home EXCEPT ![i] = w] /\ phase' = [phase EXCEPT ![i] = "resident"]
             /\ UNCHANGED drain
    <3>1. /\ home'[i] = w /\ phase'[i] = "resident"
          /\ \A j \in Works \ {i} : home'[j] = home[j] /\ phase'[j] = phase[j]
      BY <2>4 DEF IInv, Typed
    <3>2. Left'
      <4>1. /\ \A v \in Workers : pc'[v] \in {"discards", "ended"} => starting'[v] = None
            /\ \A v \in Workers : pc'[v] = "ended" => drain'[v] = "no"
        BY <1>1, <2>2, <2>4 DEF SInv, Left
      <4>2. \A j \in Works : phase'[j] = "taken" => \E v \in Workers : starting'[v] = j
        <5>1. \A j \in Works : phase'[j] = "taken" => phase[j] = "taken"
          BY <3>1
        <5> QED BY <2>2, <5>1 DEF SInv, Left
      <4>3. \A j \in Works : phase'[j] = "resident" => home'[j] \in Workers /\ pc'[home'[j]] # "ended"
        BY <1>1, <3>1, SMT DEF SInv, Left
      <4> QED BY <4>1, <4>2, <4>3 DEF Left
    <3>3. Hosted' /\ Joined'
      BY <1>1, <2>4, ThreadJoined DEF SInv
    <3> QED BY <3>2, <3>3, SMT DEF SInv
  <2> QED BY <1>3, <2>1, <2>3, <2>4 DEF BeginWork
<1>4. CASE ReleaseStart(w)
  <2>1. /\ starting' = [starting EXCEPT ![w] = None] /\ UNCHANGED <<phase, home, drain>>
        /\ phase[starting[w]] # "taken"
    BY <1>4 DEF ReleaseStart, works
  <2>2. starting'[w] = None /\ \A v \in Workers \ {w} : starting'[v] = starting[v]
    BY <2>1 DEF IInv, Typed
  <2>3. ASSUME NEW j \in Works, phase[j] = "taken" PROVE \E v \in Workers : starting'[v] = j
    <3>1. PICK v \in Workers : starting[v] = j
      BY <2>3 DEF SInv, Left
    <3>2. v # w
      BY <2>1, <2>3, <3>1
    <3> QED BY <2>2, <3>1, <3>2
  <2>4. Left'
    BY <1>1, <2>1, <2>2, <2>3 DEF SInv, Left
  <2>5. Hosted' /\ Joined'
    BY <1>1, <2>1, ThreadJoined DEF SInv
  <2> QED BY <2>4, <2>5 DEF SInv
<1> QED BY <1>2, <1>3, <1>4

(* A script thread ends. *)
LEMMA EndShut ==
    ASSUME IInv, SInv, NEW w \in Workers, LoopEnds(w) \/ ClearInbox(w)
    PROVE  SInv'
<1>1. /\ pc[w] # "ended" /\ UNCHANGED <<owner, calls, running, starting, phase, home, drain>>
      /\ starting[w] = None /\ drain[w] = "no"
  BY DEF LoopEnds, ClearInbox, Looping, Free, works, runner, host, SInv, Left
<1>2. PICK p \in {"discards", "ended"} : pc' = [pc EXCEPT ![w] = p] /\ (p = "ended" => Residents(w) = {})
  BY DEF LoopEnds, ClearInbox
<1>3. pc'[w] = p /\ \A v \in Workers \ {w} : pc'[v] = pc[v]
  BY <1>2 DEF IInv, Typed
<1>4. ASSUME NEW j \in Works, phase[j] = "resident" PROVE home[j] \in Workers /\ pc'[home[j]] # "ended"
  <2>1. home[j] \in Workers /\ pc[home[j]] # "ended"
    BY <1>4 DEF SInv, Left
  <2>2. CASE home[j] = w
    BY <1>2, <1>3, <1>4, <2>1, <2>2 DEF Residents
  <2>3. CASE home[j] # w
    BY <1>3, <2>1, <2>3
  <2> QED BY <2>2, <2>3
<1>5. Left'
  BY <1>1, <1>3, <1>4 DEF SInv, Left
<1>6. Hosted' /\ Joined'
  BY <1>1, ThreadJoined DEF SInv
<1> QED BY <1>5, <1>6 DEF SInv

(* A transfer is answered, at any time before the IO threads are joined. *)
LEMMA DeliverShut ==
    ASSUME IInv, SInv, NEW t \in Transfers, Deliver(t)
    PROVE  SInv'
<1>1. t \in Actors /\ t \notin Workers /\ t # "host"
  BY Distinct DEF Actors
<1>2. /\ UNCHANGED <<owner, calls, running, pc, starting, phase, home>>
      /\ UNCHANGED drain \/ drain' = [drain EXCEPT ![t] = "check"]
  BY DEF Deliver, Answer, Inbox, Refused, works, worker, runner, host
<1>4. \A a \in Actors \ {t} : drain'[a] = drain[a]
  BY <1>1, <1>2 DEF IInv, Typed
<1>5. \A v \in Workers : v \in Actors \ {t}
  BY <1>1, Distinct
<1>6. Left'
  BY <1>2, <1>4, <1>5, LeftStays DEF SInv
<1>7. Hosted'
  BY <1>1, <1>2, <1>4 DEF SInv, Hosted, Actors
<1>8. Joined'
  BY <1>2 DEF SInv, Joined
<1> QED BY <1>6, <1>7, <1>8 DEF SInv

(* reportDrainedIfIdle(): who is in it was in it before. *)
LEMMA DrainsShut ==
    ASSUME IInv, SInv, NEW a \in Actors, Drains(a)
    PROVE  SInv'
<1>1. /\ UNCHANGED <<owner, calls, running, pc, starting, phase, home, transfer>>
      /\ drain[a] # "no" /\ \E v : drain' = [drain EXCEPT ![a] = v]
  BY DEF Drains, ReportDrained, OnFinished, works, worker, runner, host
<1>2. \A b \in Actors : drain[b] = "no" => drain'[b] = "no"
  BY <1>1 DEF IInv, Typed
<1>3. \A w \in Workers : pc[w] = "ended" => drain'[w] = drain[w]
  BY <1>2, Distinct DEF SInv, Left
<1>4. Left'
  BY <1>1, <1>3, LeftStays DEF SInv
<1>5. Hosted'
  BY <1>1, <1>2 DEF SInv, Hosted, Actors
<1>6. Joined'
  BY <1>1, <1>2 DEF SInv, Joined, Actors
<1> QED BY <1>4, <1>5, <1>6 DEF SInv

(* A call is made: what is left of the calls, and where the host is then. *)
LEMMA CallMoves ==
    ASSUME Hosted, NEW call, Calling(call), call # "reset", UNCHANGED owner,
           \/ calls' = Tail(calls)
           \/ call \in {"discard", "join"} /\ calls' = Tail(Tail(calls))
    PROVE  /\ owner = "destroy" => Suffix(calls', DestroyCalls)
           /\ owner = "shutdown" => Suffix(calls', ShutdownCalls)
           /\ calls' \in Seq(Calls)
           /\ Len(calls') \in Nat /\ Len(calls) \in Nat /\ Len(calls') <= Len(calls)
           /\ (owner = "shutdown" /\ Len(calls') <= 4) => Len(calls) <= 4 \/ call = "join"
<1>1. /\ owner \in {"destroy", "shutdown"} /\ Len(calls) \in Nat /\ Len(calls) > 0
      /\ owner = "destroy" => /\ Suffix(Tail(calls), DestroyCalls) /\ Len(calls) <= 7
                              /\ DestroyCalls[8 - Len(calls)] = call
      /\ owner = "shutdown" => /\ Suffix(Tail(calls), ShutdownCalls) /\ Len(calls) <= 9
                               /\ ShutdownCalls[10 - Len(calls)] = call
      /\ Tail(calls) \in Seq(Calls) /\ Len(Tail(calls)) = Len(calls) - 1
  BY CallingAt
<1>2. PICK n \in Nat : n = Len(calls) /\ n > 0
  BY <1>1
<1>3. /\ ShutdownCalls \in Seq(Calls) /\ DestroyCalls \in Seq(Calls)
      /\ \A j \in 1..9 : /\ ShutdownCalls[j] = "join" <=> j = 5
                         /\ ShutdownCalls[j] = "discard" <=> j = 1
                         /\ ShutdownCalls[j] = "drop" <=> j = 8
      /\ \A j \in 1..7 : DestroyCalls[j] = "drop" <=> j = 7
  BY CallLists
<1>4. CASE calls' = Tail(calls)
  <2>1. Len(calls') = n - 1
    BY <1>1, <1>2, <1>4
  <2>2. ASSUME owner = "shutdown", n - 1 <= 4, ~(n <= 4) PROVE call = "join"
    <3>1. n = 5 /\ 10 - n = 5
      BY <1>2, <2>2, SMT
    <3> QED BY <1>1, <1>2, <1>3, <2>2, <3>1, SMT
  <2> QED BY <1>1, <1>2, <1>4, <2>1, <2>2, SMT
<1>5. CASE call \in {"discard", "join"} /\ calls' = Tail(Tail(calls))
  <2>1. n # 1
    <3>1. ASSUME n = 1 PROVE call = "drop"
      <4>1. owner = "destroy"
        <5>1. ASSUME owner = "shutdown" PROVE FALSE
          <6>1. 10 - n = 9
            BY <3>1, SMT
          <6>2. ShutdownCalls[9] = call
            BY <1>1, <1>2, <5>1, <6>1
          <6>3. call # "join" /\ call # "discard"
            BY <1>3, <6>2, SMT
          <6> QED BY <1>5, <6>3
        <5> QED BY <1>1, <5>1
      <4>2. 8 - n = 7
        BY <3>1, SMT
      <4> QED BY <1>1, <1>2, <1>3, <4>1, <4>2, SMT
    <3> QED BY <1>5, <3>1
  <2>2. PICK r \in Seq(Calls) : r = Tail(calls)
    BY <1>1
  <2>3. r # <<>> /\ Len(r) = n - 1
    <3>1. Len(Tail(calls)) = Len(calls) - 1
      BY <1>1
    <3>2. Len(r) = n - 1 /\ Len(r) # 0
      BY <1>2, <2>1, <2>2, <3>1, SMT
    <3> QED BY <3>2, SMT
  <2>4. owner = "destroy" => Suffix(Tail(r), DestroyCalls)
    BY <1>1, <1>3, <2>2, <2>3, SuffixTail
  <2>5. owner = "shutdown" => Suffix(Tail(r), ShutdownCalls)
    BY <1>1, <1>3, <2>2, <2>3, SuffixTail
  <2>6. Tail(r) \in Seq(Calls) /\ Len(Tail(r)) = n - 2
    BY <1>2, <2>3, SMT
  <2>7. ASSUME owner = "shutdown", n - 2 <= 4, ~(n <= 4) PROVE call = "join"
    <3>1. n = 5 \/ n = 6
      BY <1>2, <2>7, SMT
    <3>2. ShutdownCalls[10 - n] = call
      BY <1>1, <1>2, <2>7
    <3>3. ASSUME n = 6 PROVE FALSE
      <4>1. 10 - n = 4 /\ 4 \in 1..9
        BY <3>3, SMT
      <4>2. call # "join" /\ call # "discard"
        BY <1>3, <3>2, <4>1, SMT
      <4> QED BY <1>5, <4>2
    <3>4. ASSUME n = 5 PROVE call = "join"
      <4>1. 10 - n = 5 /\ 5 \in 1..9
        BY <3>4, SMT
      <4> QED BY <1>3, <3>2, <4>1
    <3> QED BY <3>1, <3>3, <3>4
  <2>8. n - 2 \in Nat /\ n - 2 <= n
    BY <1>2, <2>1, SMT
  <2> QED BY <1>2, <1>5, <2>2, <2>4, <2>5, <2>6, <2>7, <2>8
<1> QED BY <1>4, <1>5

(* The host's calls but the last three: the script threads have ended when the
   join is over. *)
LEMMA CallShut ==
    ASSUME IInv, SInv, Close \/ Discard \/ RetireDropped \/ Wait \/ Stop
    PROVE  SInv'
<1>1. PICK call \in Calls :
          /\ Calling(call)
          /\ \/ calls' = calls \/ calls' = Tail(calls)
             \/ call \in {"discard", "join"} /\ calls' = Tail(Tail(calls))
          /\ call # "reset" /\ (call = "stop" \/ running' = running)
          /\ call = "join" => \A w \in Workers : pc[w] = "ended"
  BY DEF Close, Discard, RetireDropped, Wait, Stop, Calls, runner
<1>2. /\ UNCHANGED <<owner, pc, starting, transfer>>
      /\ \A a \in Actors \ {"host"} : drain'[a] = drain[a]
      /\ \A j \in Works : \/ phase'[j] \notin {"taken", "resident"}
                          \/ phase'[j] = phase[j] /\ home'[j] = home[j]
  <2>1. CASE RetireDropped
    <3>1. PICK i \in Works : Retire("host", i, [count EXCEPT !.queued = Lowered(@)])
      BY <2>1 DEF RetireDropped, RetireQueued, IInv, Typed
    <3>2. "host" \in Actors
      BY DEF Actors
    <3> QED BY <2>1, <3>1, <3>2, RetireShut DEF RetireDropped, worker
  <2>2. CASE Close \/ Discard \/ Wait \/ Stop
    BY <2>2 DEF Close, Discard, Wait, Stop, works, worker
  <2> QED BY <2>1, <2>2
<1>3. \A w \in Workers : w \in Actors \ {"host"}
  BY Distinct
<1>5. Left'
  BY <1>2, <1>3, LeftStays DEF SInv
<1>6. owner \in {"destroy", "shutdown"} /\ calls # <<>>
  BY <1>1, CallingAt DEF SInv
<1>7. /\ owner = "destroy" => Suffix(calls', DestroyCalls)
      /\ owner = "shutdown" => Suffix(calls', ShutdownCalls)
      /\ calls' \in Seq(Calls)
      /\ Len(calls') \in Nat /\ Len(calls) \in Nat /\ Len(calls') <= Len(calls)
      /\ (owner = "shutdown" /\ Len(calls') <= 4) => Len(calls) <= 4 \/ call = "join"
  <2>1. CASE calls' = calls
    BY <2>1, CallingAt, SMT DEF SInv, Hosted
  <2>2. CASE calls' # calls
    BY <1>1, <1>2, <2>2, CallMoves DEF SInv
  <2> QED BY <2>1, <2>2
<1>8. owner # "manager" /\ owner # None
  BY <1>6 DEF None
<1>9. Hosted'
  BY <1>2, <1>6, <1>7, <1>8 DEF SInv, Hosted
<1>10. owner = "destroy" => running'
  <2>1. ASSUME owner = "destroy" PROVE call # "stop"
    <3>1. DestroyCalls[8 - Len(calls)] = call /\ Len(calls) \in Nat /\ Len(calls) > 0 /\ Len(calls) <= 7
      BY <1>1, <2>1, CallingAt DEF SInv
    <3>2. 8 - Len(calls) \in 1..7
      BY <3>1, SMT
    <3> QED BY <3>1, <3>2, CallLists
  <2>2. ASSUME owner = "destroy" PROVE running'
    <3>1. running' = running
      BY <1>1, <2>1, <2>2
    <3>2. running
      BY <2>2 DEF SInv, Joined
    <3> QED BY <3>1, <3>2
  <2> QED BY <2>2
<1>11. Joined'
  BY <1>1, <1>2, <1>7, <1>8, <1>10 DEF SInv, Joined
<1> QED BY <1>5, <1>9, <1>11 DEF SInv

(* LanePool::shutdown(), and the end of the observer. *)
LEMMA LastShut ==
    ASSUME IInv, SInv, StopLanes \/ Drop
    PROVE  SInv'
<1>1. UNCHANGED <<pc, starting, phase, home, drain, running>> /\ calls' = Tail(calls)
  BY DEF StopLanes, Drop, works, worker, runner
<1>2. Left'
  BY <1>1, LeftStays DEF SInv
<1>3. /\ \A j \in 1..9 : /\ ShutdownCalls[j] = "lanes" <=> j = 7
                         /\ ShutdownCalls[j] = "drop" <=> j = 8
      /\ \A j \in 1..7 : DestroyCalls[j] # "lanes" /\ (DestroyCalls[j] = "drop" <=> j = 7)
  BY CallLists
<1>4. PICK call \in {"lanes", "drop"} : Calling(call) /\ (call = "lanes" <=> StopLanes) /\ (call = "drop" <=> Drop)
  BY DEF StopLanes, Drop, Calling
<1>5. /\ owner \in {"destroy", "shutdown"} /\ drain["host"] = "no"
      /\ Len(calls) \in Nat /\ Len(calls) > 0
      /\ owner = "destroy" => /\ Suffix(Tail(calls), DestroyCalls) /\ Len(calls) <= 7
                              /\ DestroyCalls[8 - Len(calls)] = call
      /\ owner = "shutdown" => /\ Suffix(Tail(calls), ShutdownCalls) /\ Len(calls) <= 9
                               /\ ShutdownCalls[10 - Len(calls)] = call
      /\ Tail(calls) \in Seq(Calls) /\ Len(Tail(calls)) = Len(calls) - 1
  BY <1>4, CallingAt DEF SInv
<1>6. PICK n \in 1..9 : n = Len(calls) /\ (owner = "destroy" => n <= 7)
  <2>1. PICK m \in Nat : m = Len(calls)
    BY <1>5
  <2>2. m > 0 /\ (m <= 9 \/ m <= 7) /\ (owner = "destroy" => m <= 7)
    BY <1>5, <2>1
  <2>3. m \in 1..9
    BY <2>2, SMT
  <2> QED BY <2>1, <2>2, <2>3
<1>7. 10 - n \in 1..9 /\ (n <= 7 => 8 - n \in 1..7)
  <2>1. \A k \in 1..9 : 10 - k \in 1..9 /\ (k <= 7 => 8 - k \in 1..7)
    BY SMT
  <2> QED BY <2>1
<1>8. CASE StopLanes
  <2>1. call = "lanes"
    BY <1>4, <1>8
  <2>2. owner = "shutdown" /\ 10 - n = 7
    BY <1>3, <1>5, <1>6, <1>7, <2>1
  <2>3. n = 3
    BY <1>6, <2>2, SMT
  <2>4. UNCHANGED owner
    BY <1>8 DEF StopLanes
  <2>5. \A w \in Workers : pc[w] = "ended"
    BY <1>6, <2>2, <2>3, SMT DEF SInv, Joined
  <2>6. Joined'
    BY <1>1, <2>2, <2>4, <2>5 DEF Joined, None
  <2>7. Hosted'
    BY <1>1, <1>5, <2>2, <2>4 DEF Hosted, None
  <2> QED BY <1>2, <2>6, <2>7 DEF SInv
<1>9. CASE Drop
  <2>1. call = "drop" /\ owner' = None
    BY <1>4, <1>9 DEF Drop
  <2>2. CASE owner = "shutdown"
    <3>1. 10 - n = 8
      BY <1>3, <1>5, <1>6, <1>7, <2>1, <2>2
    <3>2. n = 2
      BY <1>6, <3>1, SMT
    <3>3. Len(calls') = 1 /\ Head(calls') = "reset"
      <4>0. Len(Tail(calls)) = n - 1 /\ n - 1 = 1
        <5>1. n - 1 = 1
          BY <3>2, SMT
        <5> QED BY <1>5, <1>6, <5>1
      <4>1. PICK r \in Seq(Calls) : r = Tail(calls) /\ Len(r) = 1
        BY <1>5, <4>0
      <4>2. Suffix(r, ShutdownCalls)
        BY <1>5, <2>2, <4>1
      <4> QED BY <1>1, <4>1, <4>2, LastCall
    <3>4. \A w \in Workers : pc[w] = "ended"
      BY <1>6, <2>2, <3>2, SMT DEF SInv, Joined
    <3>5. Hosted'
      BY <1>1, <1>5, <2>1, <3>3 DEF Hosted, None
    <3>6. Joined'
      BY <1>1, <2>1, <3>4 DEF Joined, None
    <3> QED BY <1>2, <3>5, <3>6 DEF SInv
  <2>3. CASE owner = "destroy"
    <3>1. n = 1
      BY <1>3, <1>5, <1>6, <1>7, <2>1, <2>3, SMT
    <3>2. Len(calls') = 0
      BY <1>1, <1>5, <1>6, <3>1, SMT
    <3>3. Hosted'
      BY <1>1, <1>5, <2>1, <3>2 DEF Hosted, None
    <3>4. Joined'
      BY <1>1, <2>1, <2>3 DEF SInv, Joined, None
    <3> QED BY <1>2, <3>3, <3>4 DEF SInv
  <2> QED BY <1>5, <2>2, <2>3
<1> QED BY <1>8, <1>9

(* The IO threads are joined when the observer has gone. *)
LEMMA JoinShut ==
    ASSUME IInv, SInv, JoinLanes
    PROVE  SInv'
<1>1. /\ UNCHANGED <<owner, running, pc, starting, phase, home, drain>>
      /\ calls # <<>> /\ Head(calls) = "reset" /\ calls' = Tail(calls) /\ drain["host"] = "no"
  BY DEF JoinLanes, Calling, works, worker, runner
<1>2. Left'
  BY <1>1, LeftStays DEF SInv
<1>3. calls \in Seq(Calls)
  BY DEF SInv, Hosted
<1>4. Tail(calls) \in Seq(Calls) /\ Len(calls) \in Nat /\ Len(Tail(calls)) = Len(calls) - 1
  BY <1>1, <1>3, SMT
<1>5. owner = "destroy" => Suffix(Tail(calls), DestroyCalls)
  BY <1>1, <1>3, CallLists, SuffixTail DEF SInv, Hosted
<1>6. ASSUME owner = "shutdown"
      PROVE  /\ Suffix(Tail(calls), ShutdownCalls) /\ Len(calls) \in 1..9
             /\ "reset" = ShutdownCalls[9 - Len(calls) + 1]
  <2>1. Suffix(calls, ShutdownCalls) /\ ShutdownCalls \in Seq(Calls) /\ Len(ShutdownCalls) = 9
    BY <1>6, CallLists DEF SInv, Hosted
  <2>2. /\ Suffix(Tail(calls), ShutdownCalls) /\ Len(calls) \in 1..Len(ShutdownCalls)
        /\ Head(calls) = ShutdownCalls[Len(ShutdownCalls) - Len(calls) + 1]
    BY <1>1, <1>3, <2>1, SuffixTail
  <2> QED BY <1>1, <2>1, <2>2
<1>7. owner = None => Len(Tail(calls)) = 0
  <2>1. Len(calls) # 0
    BY <1>1, <1>3, SMT
  <2>2. owner = None => Len(calls) = 1
    BY <2>1 DEF SInv, Hosted
  <2>3. 1 - 1 = 0
    BY SMT
  <2> QED BY <1>4, <2>2, <2>3
<1>8. Hosted'
  BY <1>1, <1>4, <1>5, <1>6, <1>7 DEF SInv, Hosted
<1>9. ASSUME owner = "shutdown" PROVE Len(calls) <= 4
  <2>1. PICK n \in 1..9 : n = Len(calls)
    BY <1>6, <1>9
  <2>2. ShutdownCalls[9 - n + 1] = "reset"
    BY <1>6, <1>9, <2>1
  <2>3. \A j \in 1..8 : ShutdownCalls[j] # "reset"
    <3>1. \A j \in 1..8 : j = 1 \/ j = 2 \/ j = 3 \/ j = 4 \/ j = 5 \/ j = 6 \/ j = 7 \/ j = 8
      BY SMT
    <3>2. /\ ShutdownCalls[1] = "discard" /\ ShutdownCalls[2] = "retire" /\ ShutdownCalls[3] = "wait"
          /\ ShutdownCalls[4] = "stop" /\ ShutdownCalls[5] = "join" /\ ShutdownCalls[6] = "retire"
          /\ ShutdownCalls[7] = "lanes" /\ ShutdownCalls[8] = "drop"
      BY DEF ShutdownCalls
    <3> QED BY <3>1, <3>2
  <2>4. n = 1
    BY <2>2, <2>3, SMT
  <2> QED BY <2>1, <2>4, SMT
<1>10. Joined'
  BY <1>1, <1>9 DEF SInv, Joined
<1> QED BY <1>2, <1>8, <1>10 DEF SInv

(* destroy() and shutdown() begin while the session is its manager's. *)
LEMMA BeginShut ==
    ASSUME IInv, SInv, Destroy \/ Shutdown
    PROVE  SInv'
<1>1. /\ owner = "manager" /\ UNCHANGED <<pc, starting, phase, home, drain, running>>
      /\ \/ owner' = "destroy" /\ calls' = DestroyCalls
         \/ owner' = "shutdown" /\ calls' = ShutdownCalls
  BY DEF Destroy, Shutdown, works, worker, runner
<1>2. running
  BY <1>1 DEF SInv, Joined
<1>3. Left'
  BY <1>1, LeftStays DEF SInv
<1>4. /\ DestroyCalls \in Seq(Calls) /\ ShutdownCalls \in Seq(Calls)
      /\ Len(DestroyCalls) = 7 /\ Len(ShutdownCalls) = 9
  BY CallLists
<1>5. ASSUME NEW s \in Seq(Calls) PROVE Suffix(s, s)
  <2>1. Len(s) \in Nat /\ \A k \in 1..Len(s) : Len(s) - Len(s) + k = k
    BY SMT
  <2> QED BY <2>1, SMT DEF Suffix
<1>6. Hosted'
  BY <1>1, <1>4, <1>5 DEF Hosted, None
<1>7. Joined'
  <2>1. owner' = "shutdown" => ~(Len(calls') <= 4)
    <3>1. owner' = "shutdown" => calls' = ShutdownCalls
      BY <1>1
    <3>2. ~(Len(ShutdownCalls) <= 4)
      BY <1>4, SMT
    <3> QED BY <3>1, <3>2
  <2>2. running' /\ owner' # None
    BY <1>1, <1>2 DEF None
  <2> QED BY <2>1, <2>2 DEF Joined
<1> QED BY <1>3, <1>6, <1>7 DEF SInv

(* Every step preserves it. *)
LEMMA NextShut == IInv /\ SInv /\ [Next]_vars => SInv'
<1> SUFFICES ASSUME IInv, SInv, [Next]_vars PROVE SInv'
  OBVIOUS
<1>1. CASE UNCHANGED vars
  BY <1>1 DEF vars, session, works, runner, worker, host, SInv, Hosted, Left, Joined
<1>2. ASSUME NEW i \in Roots, Submit(i) \/ Submitter(i) PROVE SInv'
  BY <1>2, SubmitShut DEF Submitter
<1>3. ASSUME NEW w \in Workers, Thread(w) \/ Script(w) PROVE SInv'
  <2>1. CASE Take(w) \/ BeginWork(w) \/ ReleaseStart(w)
    BY <2>1, StartShut
  <2>2. CASE LoopEnds(w) \/ ClearInbox(w)
    BY <2>2, EndShut
  <2>3. CASE Claim(w) \/ (\E t \in Transfers : Settle(w, t) \/ Settled(w, t))
    BY <2>3, SettleShut
  <2>4. CASE EvaluateFails(w)
    <3>1. PICK i \in Works : i = starting[w]
      BY <2>4 DEF EvaluateFails, IInv, Typed
    <3> QED BY <2>4, ScriptShut
  <2>5. CASE DiscardOne(w)
    <3>1. PICK i \in Works : i \in Residents(w)
      BY <2>5 DEF DiscardOne, Residents
    <3> QED BY <2>5, ScriptShut
  <2>6. ASSUME NEW i \in Works,
               \/ Step(w, i) \/ Release(w, i) \/ Enqueue(w, i) \/ RunnerSubmit(w, i)
               \/ StartTransfer(w, i) \/ (\E u \in Links : Follow(w, i, u))
        PROVE  SInv'
    BY <2>6, ScriptShut
  <2> QED BY <1>3, <2>1, <2>2, <2>3, <2>4, <2>5, <2>6 DEF Thread, Script
<1>4. ASSUME NEW t \in Transfers, Deliver(t) PROVE SInv'
  BY <1>4, DeliverShut
<1>5. CASE Ends
  BY <1>5, CallShut, LastShut, JoinShut DEF Ends
<1>6. ASSUME NEW a \in Actors, Drains(a) PROVE SInv'
  BY <1>6, DrainsShut
<1>7. CASE Destroy \/ Shutdown
  BY <1>7, BeginShut
<1> QED BY <1>1, <1>2, <1>3, <1>4, <1>5, <1>6, <1>7 DEF Next

(* When shutdown() frees the observer no script thread borrows it any more:
   the threads were joined before, and an ended thread leaves nothing. *)
THEOREM ShutdownOutlasts == Spec => []ShutdownOutlastsUse
<1>1. Init => SInv
  BY SessionAssumption, SMT DEF Init, SInv, Hosted, Left, Joined, Works, Actors, Calls
<1>2. ASSUME IInv, SInv, ObserverGone, ~running PROVE ~ScriptsUseObserver
  <2>1. /\ \A w \in Workers : pc[w] = "ended" /\ drain[w] = "no"
        /\ \A i \in Roots : drain[i] = "no"
        /\ drain["host"] = "no"
    BY <1>2 DEF SInv, Hosted, Left, Joined, ObserverGone
  <2>2. \A a \in Actors \ Transfers : drain[a] # "finish"
    BY <2>1 DEF Actors
  <2>3. \A i \in Works : phase[i] # "taken" /\ phase[i] # "resident"
    <3>1. ASSUME NEW i \in Works, phase[i] = "taken" PROVE FALSE
      <4>1. PICK w \in Workers : starting[w] = i
        BY <1>2, <3>1 DEF SInv, Left
      <4>2. starting[w] = None
        BY <1>2, <2>1 DEF SInv, Left
      <4> QED BY <4>1, <4>2, Distinct
    <3>2. ASSUME NEW i \in Works, phase[i] = "resident" PROVE FALSE
      BY <1>2, <2>1, <3>2 DEF SInv, Left
    <3> QED BY <3>1, <3>2
  <2> QED BY <2>1, <2>2, <2>3 DEF ScriptsUseObserver
<1>3. IInv /\ SInv => ShutdownOutlastsUse
  BY <1>2 DEF ShutdownOutlastsUse
<1> QED BY <1>1, <1>3, IInvHolds, NextShut, PTL DEF Spec
=============================================================================
