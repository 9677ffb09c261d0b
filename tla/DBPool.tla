------------------------------- MODULE DBPool -------------------------------
(***************************************************************************)
(* The connection pool (IDHANDb/DBPool) and the transactions that lease    *)
(* its connections (IDHANDb/DBTransaction): start(), transaction(),        *)
(* query(), commit(), rollback() and the destructor, with the state of the *)
(* server's transaction on every connection.                               *)
(*                                                                         *)
(* A connection is what DBConnection promises of it: the operations        *)
(* enqueued on it run in order, one at a time, and each one completes.     *)
(***************************************************************************)
EXTENDS Naturals, Sequences, FiniteSets, SequencesExt

CONSTANTS Connections,   \* transaction connections of the pool
          Transactions,  \* calls of transaction()
          None

ASSUME PoolAssumption ==
    None \notin Connections \cup Transactions /\ IsFiniteSet(Connections)

VARIABLES pool,        \* m_starting, m_started, m_draining
          connected,   \* connections start() has connected
          available,   \* m_available_transactions, a FIFO queue
          caller,      \* where each caller of transaction() is
          phase,       \* DBTransaction::State::current_phase
          lease,       \* DBTransaction::State::connection
          final,       \* the command that ends the transaction
          object,      \* the DBTransaction object is alive
          task,        \* a task made by query()
          bound,       \* the connection that task captured
          pending,     \* operations enqueued on each connection
          open,        \* the transaction open on the server, per connection
          aborted,     \* that transaction has failed
          effects      \* where the query of each transaction ran

startup == <<pool, connected>>
query == <<task, bound>>
state == <<phase, lease, final, object>>
server == <<open, aborted, effects>>

vars == <<startup, available, caller, state, query, pending, server>>

Commands == {"BEGIN", "query", "COMMIT", "ROLLBACK"}

TypeOK ==
    /\ pool \in {"cold", "starting", "started", "draining"}
    /\ connected \subseteq Connections
    /\ available \in Seq(Connections)
    /\ caller \in [Transactions -> {"absent", "waiting", "beginning", "begun",
                                    "begin_failed", "using", "finishing",
                                    "ending", "ended", "releasing", "done",
                                    "refused"}]
    /\ phase \in [Transactions -> {"none", "active", "finalizing", "completed"}]
    /\ lease \in [Transactions -> Connections \cup {None}]
    /\ final \in [Transactions -> {"none", "COMMIT", "ROLLBACK"}]
    /\ object \in [Transactions -> BOOLEAN]
    /\ bound \in [Transactions -> Connections \cup {None}]
    /\ task \in [Transactions -> {"none", "cold", "started", "ended"}]
    /\ pending \in [Connections -> Seq([of : Transactions, command : Commands])]
    /\ open \in [Connections -> Transactions \cup {None}]
    /\ aborted \in [Connections -> BOOLEAN]
    /\ effects \in [Transactions -> {"none", "pending", "committed",
                                     "rolled_back", "outside"}]

Init ==
    /\ pool = "cold"
    /\ connected = {}
    /\ available = <<>>
    /\ caller = [t \in Transactions |-> "absent"]
    /\ phase = [t \in Transactions |-> "none"]
    /\ lease = [t \in Transactions |-> None]
    /\ final = [t \in Transactions |-> "none"]
    /\ object = [t \in Transactions |-> FALSE]
    /\ bound = [t \in Transactions |-> None]
    /\ task = [t \in Transactions |-> "none"]
    /\ pending = [c \in Connections |-> <<>>]
    /\ open = [c \in Connections |-> None]
    /\ aborted = [c \in Connections |-> FALSE]
    /\ effects = [t \in Transactions |-> "none"]

Goes(t, place) == caller' = [caller EXCEPT ![t] = place]

Enqueue(c, t, command) ==
    pending' = [pending EXCEPT ![c] =
                   Append(@, [of |-> t, command |-> command])]

-----------------------------------------------------------------------------
(* DBPool::start connects one connection after the other; a failure leaves
   the pool as it was, and start() may be called again. *)

StartBegins ==
    /\ pool = "cold"
    /\ pool' = "starting"
    /\ connected' = {}
    /\ UNCHANGED <<available, caller, state, query, pending, server>>

ConnectionEstablished(c) ==
    /\ pool = "starting"
    /\ c \notin connected
    /\ connected' = connected \cup {c}
    /\ UNCHANGED <<pool, available, caller, state, query, pending, server>>

StartFails ==
    /\ pool = "starting"
    /\ connected # Connections
    /\ pool' = "cold"
    /\ UNCHANGED <<connected, available, caller, state, query, pending, server>>

StartPublishes ==
    /\ pool = "starting"
    /\ connected = Connections
    /\ pool' = "started"
    /\ available' = SetToSeq(Connections)
    /\ UNCHANGED <<connected, caller, state, query, pending, server>>

(* The server waits for start() to return before anything else has the pool,
   so drain() comes before a start or after it. *)
DrainBegins ==
    /\ pool \in {"cold", "started"}
    /\ pool' = "draining"
    /\ UNCHANGED <<connected, available, caller, state, query, pending, server>>

-----------------------------------------------------------------------------
(* DBPool::transaction.                                                    *)

RequestTransaction(t) ==
    /\ caller[t] = "absent"
    /\ Goes(t, IF pool = "started" THEN "waiting" ELSE "refused")
    /\ UNCHANGED <<startup, available, state, query, pending, server>>

TakeLease(t) ==
    /\ caller[t] = "waiting"
    /\ available # <<>>
    /\ available' = Tail(available)
    /\ lease' = [lease EXCEPT ![t] = Head(available)]
    /\ Goes(t, "beginning")
    /\ Enqueue(Head(available), t, "BEGIN")
    /\ UNCHANGED <<startup, phase, final, object, query, server>>

BeginSucceeds(t) ==
    /\ caller[t] = "begun"
    /\ Goes(t, "using")
    /\ phase' = [phase EXCEPT ![t] = "active"]
    /\ object' = [object EXCEPT ![t] = TRUE]
    /\ UNCHANGED <<startup, available, lease, final, query, pending, server>>

ReturnLease(t) ==
    /\ available' = Append(available, lease[t])
    /\ lease' = [lease EXCEPT ![t] = None]

(* Mutant: the lease is not returned when BEGIN fails. *)
BeginFailsKeepsLease(t) ==
    /\ caller[t] = "begin_failed"
    /\ lease' = [lease EXCEPT ![t] = None]
    /\ Goes(t, "refused")
    /\ UNCHANGED <<startup, available, phase, final, object, query, pending,
                   server>>

BeginFails(t) ==
    /\ caller[t] = "begin_failed"
    /\ ReturnLease(t)
    /\ Goes(t, "refused")
    /\ UNCHANGED <<startup, phase, final, object, query, pending, server>>

-----------------------------------------------------------------------------
(* DBTransaction.                                                          *)

(* query() checks the phase and makes a cold task, which captures the
   connection. *)
Query(t) ==
    /\ object[t]
    /\ phase[t] = "active"
    /\ task[t] = "none"
    /\ task' = [task EXCEPT ![t] = "cold"]
    /\ bound' = [bound EXCEPT ![t] = lease[t]]
    /\ UNCHANGED <<startup, available, caller, state, pending, server>>

(* Awaiting the task enqueues its operation without another look at the
   phase; every caller awaits it before it ends the transaction. *)
StartTask(t) ==
    /\ task[t] = "cold"
    /\ phase[t] = "active"
    /\ task' = [task EXCEPT ![t] = "started"]
    /\ Enqueue(bound[t], t, "query")
    /\ UNCHANGED <<startup, available, caller, state, bound, server>>

BeginFinalize(t, command) ==
    /\ phase' = [phase EXCEPT ![t] = "finalizing"]
    /\ final' = [final EXCEPT ![t] = command]
    /\ Goes(t, "finishing")

(* commit() and rollback() refuse unless the phase is active. *)
Commit(t) ==
    /\ object[t]
    /\ phase[t] = "active"
    /\ BeginFinalize(t, "COMMIT")
    /\ UNCHANGED <<startup, available, lease, object, query, pending, server>>

Rollback(t) ==
    /\ object[t]
    /\ phase[t] = "active"
    /\ BeginFinalize(t, "ROLLBACK")
    /\ UNCHANGED <<startup, available, lease, object, query, pending, server>>

(* Mutant: the destructor releases the lease without a rollback. *)
DropReleases(t) ==
    /\ object[t]
    /\ object' = [object EXCEPT ![t] = FALSE]
    /\ IF phase[t] = "active" THEN Goes(t, "ended") ELSE UNCHANGED caller
    /\ UNCHANGED <<startup, available, phase, final, lease, query, pending, server>>

(* The destructor, and a move assignment over the object, queue a rollback
   of an active transaction and leave any other alone. *)
Drop(t) ==
    /\ object[t]
    /\ object' = [object EXCEPT ![t] = FALSE]
    /\ IF phase[t] = "active" THEN BeginFinalize(t, "ROLLBACK")
       ELSE UNCHANGED <<phase, final, caller>>
    /\ UNCHANGED <<startup, available, lease, query, pending, server>>

(* finalize() runs its command on the leased connection. *)
FinalizeStarts(t) ==
    /\ caller[t] = "finishing"
    /\ Goes(t, "ending")
    /\ Enqueue(lease[t], t, final[t])
    /\ UNCHANGED <<startup, available, state, query, server>>

(* releaseLease() completes the phase under the mutex and returns the
   connection after it. *)
CompletePhase(t) ==
    /\ caller[t] = "ended"
    /\ phase' = [phase EXCEPT ![t] = "completed"]
    /\ Goes(t, "releasing")
    /\ UNCHANGED <<startup, available, lease, final, object, query, pending,
                   server>>

ReleaseLease(t) ==
    /\ caller[t] = "releasing"
    /\ ReturnLease(t)
    /\ Goes(t, "done")
    /\ UNCHANGED <<startup, phase, final, object, query, pending, server>>

-----------------------------------------------------------------------------
(* The server runs the head of a connection's operations; the coroutine that
   awaits it is resumed with the outcome.  Outside a transaction a query
   commits by itself. *)

Runs(c, t, command) ==
    /\ pending[c] # <<>>
    /\ Head(pending[c]) = [of |-> t, command |-> command]
    /\ pending' = [pending EXCEPT ![c] = Tail(@)]

ServerBegins(c, t) ==
    /\ Runs(c, t, "BEGIN")
    /\ \/ /\ Goes(t, "begun")
          /\ open' = [open EXCEPT ![c] = IF @ = None THEN t ELSE @]
       \/ Goes(t, "begin_failed") /\ UNCHANGED open
    /\ UNCHANGED <<startup, available, state, query, aborted, effects>>

ServerQueries(c, t) ==
    /\ Runs(c, t, "query")
    /\ task' = [task EXCEPT ![t] = "ended"]
    /\ \/ /\ ~aborted[c]
          /\ effects' = [effects EXCEPT ![t] = IF open[c] = t THEN "pending"
                                               ELSE "outside"]
          /\ UNCHANGED aborted
       \/ /\ aborted' = [aborted EXCEPT ![c] = (open[c] # None)]
          /\ UNCHANGED effects
    /\ UNCHANGED <<startup, available, caller, state, bound, open>>

(* COMMIT of a failed transaction, or a COMMIT that fails, rolls back. *)
ServerEnds(c, t) ==
    /\ \/ /\ Runs(c, t, "COMMIT")
          /\ \E ending \in {"rolled_back"} \cup
                            (IF aborted[c] THEN {} ELSE {"committed"}) :
               effects' = [u \in Transactions |->
                             IF effects[u] = "pending" /\ open[c] = u THEN ending
                             ELSE effects[u]]
       \/ /\ Runs(c, t, "ROLLBACK")
          /\ effects' = [u \in Transactions |->
                            IF effects[u] = "pending" /\ open[c] = u
                            THEN "rolled_back" ELSE effects[u]]
    /\ open' = [open EXCEPT ![c] = None]
    /\ aborted' = [aborted EXCEPT ![c] = FALSE]
    /\ Goes(t, "ended")
    /\ UNCHANGED <<startup, available, state, query>>

-----------------------------------------------------------------------------
Startup ==
    \/ StartBegins \/ StartFails \/ StartPublishes
    \/ \E c \in Connections : ConnectionEstablished(c)

Acquire(t) == TakeLease(t) \/ BeginSucceeds(t) \/ BeginFails(t)
Release(t) == FinalizeStarts(t) \/ CompletePhase(t) \/ ReleaseLease(t)
Use(t) == Query(t) \/ StartTask(t)
End(t) == Commit(t) \/ Rollback(t) \/ Drop(t)
Serve(c, t) == ServerBegins(c, t) \/ ServerQueries(c, t) \/ ServerEnds(c, t)

Next ==
    \/ Startup \/ DrainBegins
    \/ \E t \in Transactions :
         \/ RequestTransaction(t) \/ Acquire(t) \/ Use(t) \/ End(t) \/ Release(t)
         \/ \E c \in Connections : Serve(c, t)

Spec == Init /\ [][Next]_vars

(* Coroutines that can go on are run, operations complete, and an object goes
   out of scope some time.  The bounded queue serves its waiters in turn. *)
FairSpec ==
    /\ Spec
    /\ \A t \in Transactions :
         /\ WF_vars(Acquire(t)) /\ SF_vars(TakeLease(t))
         /\ WF_vars(Drop(t)) /\ WF_vars(Release(t))
         /\ \A c \in Connections : WF_vars(Serve(c, t))

-----------------------------------------------------------------------------
Leased == {lease[t] : t \in Transactions} \ {None}

(* Once the pool has started every connection is either available, once, or
   leased to one transaction: DBPool hands none out twice and loses none on
   any error path. *)
LeaseConserved ==
    (connected = Connections /\ pool # "starting") =>
        /\ Range(available) \cup Leased = Connections
        /\ Range(available) \cap Leased = {}
        /\ IsInjective(available)
        /\ \A t, u \in Transactions : lease[t] = lease[u] => t = u \/ lease[t] = None

(* A connection comes back to the pool only when no transaction is open on
   its server session, so that the next BEGIN starts a transaction of its
   own. *)
LeaseReturnedClean ==
    \A c \in Range(available) :
        open[c] = None /\ ~aborted[c] /\ pending[c] = <<>>

(* A caller waiting for a lease gets one, as long as transaction objects do
   not live for ever. *)
WaiterServed ==
    \A t \in Transactions : caller[t] = "waiting" ~> caller[t] # "waiting"
=============================================================================
