---------------------------- MODULE SSEEventHub ----------------------------
(***************************************************************************)
(* The hub that feeds server-sent events to its subscribers                *)
(* (IDHANHttp/SSEEventHub) and the body source that reads one subscription *)
(* (IDHANHttp/SSEBodySource).  m_mutex makes every hub operation one step; *)
(* the reader suspends on its baton between two of them.                   *)
(*                                                                         *)
(* An entity stands for a type and an entity key.  A payload is the state  *)
(* of its entity, told apart by the number of the change that made it; a   *)
(* removal is a change.                                                    *)
(***************************************************************************)
EXTENDS Naturals, Sequences, FiniteSetsExt

CONSTANTS Entities, Subscribers,
          Follows,       \* the entities a subscriber's selectors match
          Listed,        \* the entities whose state the events route reads itself
          MaxSequence    \* bound on m_sequence

NoEntity == "none"

ASSUME HubAssumption ==
    /\ Follows \in [Subscribers -> SUBSET Entities]
    /\ Listed \subseteq Entities
    /\ IsFiniteSet(Entities) /\ NoEntity \notin Entities
    /\ MaxSequence \in Nat

VARIABLES sequence,      \* m_sequence
          shut,          \* m_shutdown
          snapshots,     \* m_snapshots: retained payloads, 0 for none
          subscribed,    \* m_subscribers
          pending,       \* SSESubscriber::pending
          closed,        \* SSESubscriber::closed
          readable,      \* SSESubscriber::readable is posted
          reader,        \* where the coroutine that calls next() is
          latest,        \* the number of each entity's last change
          initial,       \* initial_events: what a subscriber's route read itself
          joined,        \* latest, when a subscriber was added
          seen           \* the last change of each entity a reader was given

hub == <<sequence, shut, snapshots, latest>>
subscription == <<subscribed, pending, closed, readable, initial, joined>>
vars == <<hub, subscription, reader, seen>>

Event(kind, entity, change) == [kind |-> kind, entity |-> entity, change |-> change]

Init ==
    /\ sequence = 0
    /\ shut = FALSE
    /\ snapshots = [e \in Entities |-> 0]
    /\ subscribed = {}
    /\ pending = [s \in Subscribers |-> <<>>]
    /\ closed = [s \in Subscribers |-> FALSE]
    /\ readable = [s \in Subscribers |-> FALSE]
    /\ reader = [s \in Subscribers |-> "absent"]
    /\ latest = [e \in Entities |-> 0]
    /\ initial = [s \in Subscribers |-> <<>>]
    /\ joined = [s \in Subscribers |-> [e \in Entities |-> 0]]
    /\ seen = [s \in Subscribers |-> [e \in Entities |-> 0]]

-----------------------------------------------------------------------------
(* Publishers.                                                             *)

(* Posting the baton resumes the reader suspended on it; reset() later does
   not take that back. *)
Post(S) ==
    /\ readable' = [s \in Subscribers |-> readable[s] \/ s \in S]
    /\ reader' = [s \in Subscribers |->
                    IF s \in S /\ reader[s] = "suspended" THEN "looking"
                    ELSE reader[s]]

(* Mutant: an update is dropped when anything is pending for its entity. *)
CoalescedWithSnapshot(queue, event) ==
    IF \E i \in DOMAIN queue : queue[i].entity = event.entity THEN queue
    ELSE Append(queue, event)

(* Mutant: an update goes to the front of the queue. *)
CoalescedFirst(queue, event) ==
    <<event>> \o SelectSeq(queue, LAMBDA e : e.kind # "update"
                                             \/ e.entity # event.entity)

(* A pending update of the same entity is replaced where it stands. *)
Coalesced(queue, event) ==
    LET same == {i \in DOMAIN queue : queue[i].kind = "update"
                                      /\ queue[i].entity = event.entity}
    IN IF same = {} THEN Append(queue, event)
       ELSE [queue EXCEPT ![CHOOSE i \in same : TRUE] = event]

Listeners(e) == {s \in subscribed : ~closed[s] /\ e \in Follows[s]}

Announce(e) ==
    /\ sequence < MaxSequence
    /\ sequence' = sequence + 1
    /\ latest' = [latest EXCEPT ![e] = @ + 1]
    /\ pending' = [s \in Subscribers |->
                     IF s \in Listeners(e)
                     THEN Coalesced(pending[s], Event("update", e, latest'[e]))
                     ELSE pending[s]]
    /\ Post(Listeners(e))
    /\ UNCHANGED <<shut, subscribed, closed, initial, joined, seen>>

Publish(e, retain) ==
    /\ Announce(e)
    /\ snapshots' = [snapshots EXCEPT ![e] = IF retain THEN latest'[e] ELSE 0]

RemoveEntity(e) ==
    /\ Announce(e)
    /\ snapshots' = [snapshots EXCEPT ![e] = 0]

(* Mutant: a heartbeat reaches busy and closed subscriptions too. *)
HeartbeatAlways ==
    /\ sequence < MaxSequence
    /\ sequence' = sequence + 1
    /\ pending' = [s \in Subscribers |->
                     IF s \in subscribed
                     THEN Append(pending[s], Event("keepalive", NoEntity, sequence'))
                     ELSE pending[s]]
    /\ Post(subscribed)
    /\ UNCHANGED <<shut, snapshots, latest, subscribed, closed, initial, joined, seen>>

Heartbeat ==
    /\ sequence < MaxSequence
    /\ sequence' = sequence + 1
    /\ LET idle == {s \in subscribed : ~closed[s] /\ pending[s] = <<>>}
       IN /\ pending' = [s \in Subscribers |->
                           IF s \in idle
                           THEN <<Event("keepalive", NoEntity, sequence')>>
                           ELSE pending[s]]
          /\ Post(idle)
    /\ UNCHANGED <<shut, snapshots, latest, subscribed, closed, initial, joined, seen>>

Shutdown ==
    /\ ~shut
    /\ sequence < MaxSequence
    /\ shut' = TRUE
    /\ sequence' = sequence + 1
    /\ LET open == {s \in subscribed : ~closed[s]}
       IN /\ pending' = [s \in Subscribers |->
                           IF s \in open
                           THEN Append(pending[s],
                                       Event("shutdown", NoEntity, sequence'))
                           ELSE pending[s]]
          /\ closed' = [s \in Subscribers |-> closed[s] \/ s \in open]
          /\ Post(open)
    /\ UNCHANGED <<snapshots, latest, subscribed, initial, joined, seen>>

-----------------------------------------------------------------------------
(* Subscribers.                                                            *)

Orders(S) == Bijection(1..Cardinality(S), S)

SnapshotEvent(e) == Event("snapshot", e, snapshots[e])

InitialEvent(s, e) == Event("initial", e, initial[s][e])

(* Before it subscribes, the events route reads the rate limits and the
   sessions where they are kept, without the hub's lock.  There they are changed
   before the hub is told, so a state may be one change ahead of it, an entity
   may be gone already, and sessions of earlier runs are known only there. *)
ListInitial(s) ==
    /\ reader[s] = "absent"
    /\ reader' = [reader EXCEPT ![s] = "listed"]
    /\ \E present \in SUBSET (Listed \cap Follows[s]) : \E ahead \in SUBSET present :
         initial' = [initial EXCEPT ![s] =
                       [e \in present |-> IF e \in ahead THEN latest[e] + 1 ELSE latest[e]]]
    /\ UNCHANGED <<hub, subscribed, pending, closed, readable, joined, seen>>

(* The stored snapshots come first, in the order of an unordered_map, then
   initial_events, and a marker ends them. *)
Subscribe(s) ==
    /\ reader[s] = "listed"
    /\ reader' = [reader EXCEPT ![s] = "looking"]
    /\ joined' = [joined EXCEPT ![s] = latest]
    /\ IF shut
       THEN /\ pending' = [pending EXCEPT ![s] =
                             <<Event("shutdown", NoEntity, sequence)>>]
            /\ closed' = [closed EXCEPT ![s] = TRUE]
            /\ readable' = [readable EXCEPT ![s] = TRUE]
            /\ UNCHANGED subscribed
       ELSE /\ \E stored \in Orders({e \in Follows[s] : snapshots[e] # 0}),
                  read \in Orders(DOMAIN initial[s]) :
                 pending' = [pending EXCEPT ![s] =
                    Append([i \in DOMAIN stored |-> SnapshotEvent(stored[i])]
                             \o [i \in DOMAIN read |-> InitialEvent(s, read[i])],
                           Event("complete", NoEntity, sequence))]
            /\ subscribed' = subscribed \cup {s}
            /\ UNCHANGED <<closed, readable>>
    /\ UNCHANGED <<hub, initial, seen>>

(* next() takes the first event, ends at a closed subscription, or resets
   the baton, all under the lock; the lock is released before it awaits. *)
NextLooks(s) ==
    /\ reader[s] = "looking"
    /\ IF pending[s] # <<>>
       THEN LET event == Head(pending[s])
            IN /\ pending' = [pending EXCEPT ![s] = Tail(@)]
               /\ seen' = IF event.entity = NoEntity THEN seen
                          ELSE [seen EXCEPT ![s][event.entity] = event.change]
               /\ reader' = [reader EXCEPT ![s] =
                               IF event.kind = "shutdown" THEN "ended"
                               ELSE "writing"]
               /\ UNCHANGED readable
       ELSE /\ reader' = [reader EXCEPT ![s] = IF closed[s] THEN "ended" ELSE "reset"]
            /\ readable' = [readable EXCEPT ![s] = closed[s] /\ @]
            /\ UNCHANGED <<pending, seen>>
    /\ UNCHANGED <<hub, subscribed, closed, initial, joined>>

(* Mutant: the baton is reset after the lock was released. *)
ResetAfterUnlock(s) ==
    /\ reader[s] = "reset"
    /\ readable' = [readable EXCEPT ![s] = FALSE]
    /\ reader' = [reader EXCEPT ![s] = "suspended"]
    /\ UNCHANGED <<hub, subscribed, pending, closed, initial, joined, seen>>

NextAwaits(s) ==
    /\ reader[s] = "reset"
    /\ reader' = [reader EXCEPT ![s] = IF readable[s] THEN "looking" ELSE "suspended"]
    /\ UNCHANGED <<hub, subscription, seen>>

(* readBodyEvent writes the event and is called again. *)
ReadBodyEvent(s) ==
    /\ reader[s] = "writing"
    /\ reader' = [reader EXCEPT ![s] = "looking"]
    /\ UNCHANGED <<hub, subscription, seen>>

(* stopReading() closes the subscription of a client that went away; a
   reader suspended in next() finds no hub and ends. *)
StopReading(s) ==
    /\ s \in subscribed
    /\ closed' = [closed EXCEPT ![s] = TRUE]
    /\ readable' = [readable EXCEPT ![s] = TRUE]
    /\ subscribed' = subscribed \ {s}
    /\ reader' = [reader EXCEPT ![s] = "ended"]
    /\ UNCHANGED <<hub, pending, initial, joined, seen>>

-----------------------------------------------------------------------------
Reader(s) == NextLooks(s) \/ NextAwaits(s) \/ ReadBodyEvent(s)

Next ==
    \/ \E e \in Entities : RemoveEntity(e) \/ \E retain \in BOOLEAN : Publish(e, retain)
    \/ Heartbeat \/ Shutdown
    \/ \E s \in Subscribers : ListInitial(s) \/ Subscribe(s) \/ Reader(s) \/ StopReading(s)

Spec == Init /\ [][Next]_vars

(* A reader that can run is run, and the session writes what it is given. *)
FairSpec == Spec /\ \A s \in Subscribers : WF_vars(Reader(s))

-----------------------------------------------------------------------------
(* What a subscriber will know of e when it has read all that is pending. *)
About(queue, e) == {i \in DOMAIN queue : queue[i].entity = e}

View(s, e) ==
    IF About(pending[s], e) = {} THEN seen[s][e]
    ELSE pending[s][Max(About(pending[s], e))].change

(* An open subscription misses no change of what it follows: read to the
   end, its queue tells the last change of every entity that has changed
   since it subscribed, and of every stored snapshot that the events route did
   not list itself.  What the route lists is read before the hub is locked and
   queued behind the snapshots, so it may be stale until the entity changes
   again. *)
NothingMissed ==
    \A s \in subscribed : ~closed[s] =>
        \A e \in Follows[s] :
            \/ latest[e] > joined[s][e]
            \/ snapshots[e] # 0 /\ e \notin DOMAIN initial[s]
            => View(s, e) = latest[e]

(* "Pending updates coalesce by type and entity": a slow client's queue is
   bounded by what it follows, because it holds at most one update of an
   entity and one keepalive; and nothing follows the shutdown event, at which
   the body source ends its stream. *)
QueueWellFormed ==
    \A s \in Subscribers :
        /\ \A i, j \in DOMAIN pending[s] :
             /\ pending[s][i].kind = "update" /\ pending[s][j].kind = "update"
             /\ pending[s][i].entity = pending[s][j].entity
             => i = j
        /\ \A i, j \in DOMAIN pending[s] :
             pending[s][i].kind = "keepalive" /\ pending[s][j].kind = "keepalive" => i = j
        /\ \A i \in DOMAIN pending[s] :
             pending[s][i].kind = "shutdown" => i = Len(pending[s])

(* What a client is told of one entity goes back to an earlier state only by
   an event of initial_events, ahead of the marker that ends the snapshots:
   never by an update, although updates are replaced in place and so overtake
   one another. *)
NeverGoesBack ==
    [][\A s \in Subscribers, e \in Entities :
         seen'[s][e] < seen[s][e] => Head(pending[s]).kind = "initial"]_vars

(* "no post can be lost between observing an empty queue and awaiting the
   baton": every pending event is read, unless the client goes away. *)
EveryEventRead ==
    \A s \in Subscribers :
        pending[s] # <<>> ~> pending[s] = <<>> \/ reader[s] = "ended"
=============================================================================
