---------------------------- MODULE DBPoolProofs ----------------------------
(* The leases of the pool, and the state a connection comes back in, for every
   finite set of connections and any number of transactions. *)
EXTENDS DBPool, FiniteSetTheorems, FunctionTheorems, TLAPS

(* Steps are for Zenon; those with arithmetic, records or sequences name SMT. *)
USE Zenon

Places == {"absent", "waiting", "beginning", "begun", "begin_failed", "using",
           "finishing", "ending", "ended", "releasing", "done", "refused"}
Phases == {"none", "active", "finalizing", "completed"}
Entries == [of : Transactions, command : Commands]

(* The part of the state the argument is about. *)
Typed ==
    /\ pool \in {"cold", "starting", "started", "draining"}
    /\ connected \subseteq Connections
    /\ available \in Seq(Connections)
    /\ caller \in [Transactions -> Places]
    /\ phase \in [Transactions -> Phases]
    /\ lease \in [Transactions -> Connections \cup {None}]
    /\ final \in [Transactions -> {"none", "COMMIT", "ROLLBACK"}]
    /\ pending \in [Connections -> Seq(Entries)]

Holding == {"beginning", "begun", "begin_failed", "using", "finishing", "ending",
            "ended", "releasing"}

(* A caller has a lease exactly from its dequeue to its release. *)
Held == \A t \in Transactions : lease[t] # None <=> caller[t] \in Holding

(* An object exists, and its phase is active, while its caller uses it. *)
Used ==
    \A t \in Transactions :
        /\ phase[t] = "active" => caller[t] = "using"
        /\ caller[t] = "finishing" => final[t] \in {"COMMIT", "ROLLBACK"}

(* A BEGIN, COMMIT or ROLLBACK on a connection is awaited by its caller ... *)
Awaited ==
    \A c \in Connections : \A i \in 1..Len(pending[c]) :
        LET e == pending[c][i]
        IN  /\ e.command = "BEGIN" => caller[e.of] = "beginning"
            /\ e.command \in {"COMMIT", "ROLLBACK"} => caller[e.of] = "ending"

(* ... and is the only one of its transaction. *)
Single ==
    \A c, d \in Connections :
        \A i \in 1..Len(pending[c]), j \in 1..Len(pending[d]) :
            /\ pending[c][i].command # "query"
            /\ pending[d][j].command # "query"
            /\ pending[c][i].of = pending[d][j].of
            => c = d /\ i = j

(* Before start() has published the leases there is none. *)
Unpublished ==
    (pool \in {"cold", "starting"} \/ connected # Connections) =>
        available = <<>> /\ \A t \in Transactions : lease[t] = None

Waiting ==
    (\E t \in Transactions : caller[t] = "waiting")
        => pool \in {"started", "draining"} /\ connected = Connections

IInv ==
    /\ Typed /\ Held /\ Used /\ Awaited /\ Single /\ Unpublished /\ Waiting
    /\ pool = "started" => connected = Connections
    /\ pool = "cold" /\ connected = Connections => Connections = {}
    /\ LeaseConserved
-----------------------------------------------------------------------------
(* What happens to the queue of leases. *)

(* The head of a queue without repetitions leaves it for good. *)
LEMMA TakeHead ==
    ASSUME NEW S, NEW q \in Seq(S), q # <<>>, IsInjective(q)
    PROVE  /\ Head(q) \in S /\ Tail(q) \in Seq(S)
           /\ Head(q) \in Range(q)
           /\ Range(Tail(q)) = Range(q) \ {Head(q)}
           /\ IsInjective(Tail(q))
<1>1. /\ Head(q) = q[1] /\ Len(q) \in Nat \ {0} /\ DOMAIN q = 1..Len(q)
      /\ Tail(q) \in Seq(S) /\ DOMAIN Tail(q) = 1..(Len(q) - 1)
      /\ \A i \in 1..(Len(q) - 1) : Tail(q)[i] = q[i + 1]
  BY SMT
<1>2. \A i \in 2..Len(q) : i - 1 \in DOMAIN Tail(q) /\ Tail(q)[i - 1] = q[i]
  BY <1>1, SMT
<1>3. \A i \in DOMAIN q : i = 1 \/ i \in 2..Len(q)
  BY <1>1, SMT
<1>4. IsInjective(Tail(q))
  BY <1>1, SMT DEF IsInjective
<1>5. ASSUME NEW x \in Range(Tail(q)) PROVE x \in Range(q) \ {Head(q)}
  BY <1>1, <1>5, SMT DEF Range, IsInjective
<1>6. ASSUME NEW x \in Range(q), x # Head(q) PROVE x \in Range(Tail(q))
  <2>1. PICK i \in DOMAIN q : x = q[i] BY <1>6 DEF Range
  <2>2. i \in 2..Len(q) BY <1>1, <1>3, <1>6, <2>1
  <2> QED BY <1>2, <2>1, <2>2 DEF Range
<1>7. Head(q) \in Range(q) BY <1>1, SMT DEF Range
<1> QED BY <1>1, <1>4, <1>5, <1>6, <1>7, SMT

(* A queue without repetitions stays one when something new is appended. *)
LEMMA PutBack ==
    ASSUME NEW S, NEW q \in Seq(S), NEW x \in S, x \notin Range(q), IsInjective(q)
    PROVE  /\ Append(q, x) \in Seq(S)
           /\ Range(Append(q, x)) = Range(q) \cup {x}
           /\ IsInjective(Append(q, x))
<1>1. /\ Len(q) \in Nat /\ DOMAIN q = 1..Len(q)
      /\ Append(q, x) \in Seq(S) /\ DOMAIN Append(q, x) = 1..(Len(q) + 1)
      /\ Append(q, x)[Len(q) + 1] = x
      /\ \A i \in 1..Len(q) : Append(q, x)[i] = q[i]
  BY SMT
<1>2. \A i \in 1..(Len(q) + 1) : i \in 1..Len(q) \/ i = Len(q) + 1
  BY <1>1, SMT
<1>3. Range(Append(q, x)) = Range(q) \cup {x}
  <2>1. ASSUME NEW y \in Range(Append(q, x)) PROVE y \in Range(q) \cup {x}
    BY <1>1, <1>2, <2>1 DEF Range
  <2>2. ASSUME NEW y \in Range(q) PROVE y \in Range(Append(q, x))
    BY <1>1, <2>2, SMT DEF Range
  <2>3. Len(q) + 1 \in DOMAIN Append(q, x) BY <1>1, SMT
  <2>4. x \in Range(Append(q, x)) BY <1>1, <2>3 DEF Range
  <2> QED BY <2>1, <2>2, <2>4
<1>4. IsInjective(Append(q, x))
  BY <1>1, <1>2 DEF IsInjective, Range
<1> QED BY <1>1, <1>3, <1>4

(* A finite set can be listed without repetitions. *)
LEMMA Listed ==
    ASSUME NEW S, IsFiniteSet(S)
    PROVE  /\ SetToSeq(S) \in Seq(S)
           /\ Range(SetToSeq(S)) = S
           /\ IsInjective(SetToSeq(S))
<1> DEFINE n == Cardinality(S)
<1>1. n \in Nat /\ ExistsBijection(1..n, S)
  BY FS_CardinalityType
<1>2. PICK b : b \in Bijection(1..n, S)
  BY <1>1 DEF ExistsBijection
<1>3. b \in [1..n -> S] /\ IsInjective(b)
  BY <1>2 DEF Bijection, Injection
<1>4. SetToSeq(S) \in [1..n -> S] /\ IsInjective(SetToSeq(S))
  BY <1>3 DEF SetToSeq
<1>5. Range(SetToSeq(S)) = S
  <2>1. SetToSeq(S) \in Injection(1..n, S)
    BY <1>4 DEF Injection
  <2>2. SetToSeq(S) \in Bijection(1..n, Range(SetToSeq(S)))
    BY <2>1, Fun_InjMeansBijImage
  <2>3. Cardinality(Range(SetToSeq(S))) = n
    BY <1>1, <2>2, FS_CountingElements DEF ExistsBijection
  <2>4. Range(SetToSeq(S)) \in SUBSET S
    BY <1>4 DEF Range
  <2> QED BY <2>3, <2>4, FS_Subset
<1> QED BY <1>1, <1>4, <1>5, SMT

-----------------------------------------------------------------------------
(* What a step on the lease of one transaction leaves. *)

Published == connected = Connections /\ pool # "starting"

(* Dequeuing a lease moves it from the queue to the caller. *)
LEMMA Taken ==
    ASSUME NEW t \in Transactions, Typed, Unpublished, LeaseConserved,
           lease[t] = None, available # <<>>, available' = Tail(available),
           lease' = [lease EXCEPT ![t] = Head(available)], UNCHANGED startup
    PROVE  /\ Published
           /\ available' \in Seq(Connections)
           /\ lease' \in [Transactions -> Connections \cup {None}]
           /\ Head(available) \in Connections
           /\ LeaseConserved'
<1> USE PoolAssumption
<1>1. Published
  BY DEF Unpublished, Published, Typed
<1>2. /\ Range(available) \cup Leased = Connections
      /\ Range(available) \cap Leased = {} /\ IsInjective(available)
      /\ \A v, u \in Transactions : lease[v] = lease[u] => v = u \/ lease[v] = None
  BY <1>1 DEF LeaseConserved, Published
<1>3. /\ Head(available) \in Connections /\ available' \in Seq(Connections)
      /\ Head(available) \in Range(available)
      /\ Range(available') = Range(available) \ {Head(available)}
      /\ IsInjective(available')
  BY <1>2, TakeHead DEF Typed
<1>4. /\ lease' \in [Transactions -> Connections \cup {None}]
      /\ lease'[t] = Head(available)
      /\ \A u \in Transactions \ {t} : lease'[u] = lease[u]
  BY <1>3 DEF Typed
<1>5. Leased' = Leased \cup {Head(available)}
  BY <1>3, <1>4, SMT DEF Leased
<1>6. \A u \in Transactions : lease[u] # Head(available)
  BY <1>2, <1>3 DEF Leased
<1>7. ASSUME NEW v \in Transactions, NEW u \in Transactions, lease'[v] = lease'[u]
      PROVE  v = u \/ lease'[v] = None
  BY <1>2, <1>4, <1>6, <1>7
<1>8. /\ Range(available') \cup Leased' = Connections
      /\ Range(available') \cap Leased' = {}
  BY <1>2, <1>3, <1>5
<1> QED BY <1>1, <1>3, <1>4, <1>7, <1>8, SMT DEF LeaseConserved, startup

(* Returning one moves it back, and whoever returns it had it alone. *)
LEMMA Returned ==
    ASSUME NEW t \in Transactions, Typed, Unpublished, LeaseConserved,
           lease[t] # None, ReturnLease(t), UNCHANGED startup
    PROVE  /\ Published
           /\ available' \in Seq(Connections)
           /\ lease' \in [Transactions -> Connections \cup {None}]
           /\ LeaseConserved'
<1> USE PoolAssumption
<1>1. Published
  BY DEF Unpublished, Published, Typed
<1>2. /\ Range(available) \cup Leased = Connections
      /\ Range(available) \cap Leased = {} /\ IsInjective(available)
      /\ \A v, u \in Transactions : lease[v] = lease[u] => v = u \/ lease[v] = None
  BY <1>1 DEF LeaseConserved, Published
<1>3. /\ lease[t] \in Connections /\ lease[t] \in Leased
      /\ lease[t] \notin Range(available)
  BY <1>2, SMT DEF Typed, Leased
<1>4. /\ available' \in Seq(Connections)
      /\ Range(available') = Range(available) \cup {lease[t]}
      /\ IsInjective(available')
  BY <1>2, <1>3, PutBack, SMT DEF Typed, ReturnLease
<1>5. /\ lease' \in [Transactions -> Connections \cup {None}]
      /\ lease'[t] = None
      /\ \A u \in Transactions \ {t} : lease'[u] = lease[u]
  BY DEF Typed, ReturnLease
<1>6. Leased' = Leased \ {lease[t]}
  BY <1>2, <1>5, SMT DEF Leased
<1>7. ASSUME NEW v \in Transactions, NEW u \in Transactions, lease'[v] = lease'[u]
      PROVE  v = u \/ lease'[v] = None
  BY <1>2, <1>5, <1>7
<1>8. /\ Range(available') \cup Leased' = Connections
      /\ Range(available') \cap Leased' = {}
  BY <1>2, <1>3, <1>4, <1>6, SMT
<1> QED BY <1>1, <1>4, <1>5, <1>7, <1>8, SMT DEF LeaseConserved, startup

-----------------------------------------------------------------------------
(* What a step on the operations of one connection leaves. *)

(* Every pending operation names its transaction and its command. *)
LEMMA EntryOf ==
    ASSUME Typed, NEW d \in Connections, NEW i \in 1..Len(pending[d])
    PROVE  /\ pending[d][i] \in Entries
           /\ pending[d][i].of \in Transactions /\ pending[d][i].command \in Commands
<1>1. pending[d] \in Seq(Entries) BY DEF Typed
<1>2. pending[d][i] \in Entries BY <1>1, SMT
<1> QED BY <1>2 DEF Entries

(* A command is appended by a caller that awaits nothing, which then awaits
   it; a query is appended without a change of the caller. *)
LEMMA Enqueued ==
    ASSUME NEW t \in Transactions, NEW c \in Connections, NEW command \in Commands,
           NEW place \in Places,
           Typed, Awaited, Single, Enqueue(c, t, command),
           \/ command = "query" /\ caller' = caller
           \/ /\ command # "query" /\ Goes(t, place)
              /\ caller[t] \notin {"beginning", "ending"}
              /\ place = IF command = "BEGIN" THEN "beginning" ELSE "ending"
    PROVE  /\ pending' \in [Connections -> Seq(Entries)]
           /\ Awaited' /\ Single'
<1> DEFINE e == [of |-> t, command |-> command]
<1>1. /\ pending[c] \in Seq(Entries)
      /\ e \in Entries
  BY DEF Typed, Entries
<1>2. /\ pending' \in [Connections -> Seq(Entries)]
      /\ pending'[c] = Append(pending[c], e)
      /\ \A d \in Connections \ {c} : pending'[d] = pending[d]
  BY <1>1, SMT DEF Typed, Enqueue
<1>3. \A d \in Connections : \A i \in 1..Len(pending'[d]) :
         \/ i \in 1..Len(pending[d]) /\ pending'[d][i] = pending[d][i]
         \/ d = c /\ i = Len(pending[c]) + 1 /\ pending'[d][i] = e
  BY <1>1, <1>2, SMT
<1>4. \A d \in Connections : \A i \in 1..Len(pending[d]) :
         pending[d][i].of \in Transactions /\ pending[d][i].command \in Commands
  BY EntryOf
<1>5. command # "query" => \A d \in Connections : \A i \in 1..Len(pending[d]) :
         pending[d][i].command # "query" => pending[d][i].of # t
  BY <1>4, SMT DEF Awaited, Commands
<1>6. /\ \A u \in Transactions : u # t => caller'[u] = caller[u]
      /\ command # "query" => caller'[t] = place
  BY DEF Typed, Goes
<1>7. Awaited'
  <2>1. e.of = t /\ e.command = command OBVIOUS
  <2>2. command = "query" => caller' = caller OBVIOUS
  <2> HIDE DEF e
  <2> SUFFICES ASSUME NEW d \in Connections, NEW i \in 1..Len(pending'[d])
               PROVE  /\ pending'[d][i].command = "BEGIN"
                           => caller'[pending'[d][i].of] = "beginning"
                      /\ pending'[d][i].command \in {"COMMIT", "ROLLBACK"}
                           => caller'[pending'[d][i].of] = "ending"
    BY DEF Awaited
  <2>3. CASE i \in 1..Len(pending[d]) /\ pending'[d][i] = pending[d][i]
    BY <1>4, <1>5, <1>6, <2>2, <2>3, SMT DEF Awaited
  <2>4. CASE pending'[d][i] = e
    BY <1>6, <2>1, <2>4
  <2> QED BY <1>3, <2>3, <2>4
<1>8. Single'
  <2> SUFFICES ASSUME NEW a \in Connections, NEW b \in Connections,
                      NEW i \in 1..Len(pending'[a]), NEW j \in 1..Len(pending'[b]),
                      pending'[a][i].command # "query",
                      pending'[b][j].command # "query",
                      pending'[a][i].of = pending'[b][j].of
               PROVE  a = b /\ i = j
    BY SMT DEF Single
  <2>1. e.of = t /\ e.command = command OBVIOUS
  <2>2. CASE i \in 1..Len(pending[a]) /\ pending'[a][i] = pending[a][i]
    <3>1. j \in 1..Len(pending[b]) /\ pending'[b][j] = pending[b][j]
      BY <1>3, <1>5, <2>1, <2>2, SMT
    <3> QED BY <2>2, <3>1, SMT DEF Single
  <2>3. CASE a = c /\ i = Len(pending[c]) + 1 /\ pending'[a][i] = e
    <3>1. b = c /\ j = Len(pending[c]) + 1
      BY <1>3, <1>5, <2>1, <2>3, SMT
    <3> QED BY <2>3, <3>1, SMT
  <2> QED BY <1>3, <2>2, <2>3, SMT
<1> QED BY <1>2, <1>7, <1>8, SMT

(* The head of a connection's operations leaves, and with a command what its
   caller awaited. *)
LEMMA Ran ==
    ASSUME NEW t \in Transactions, NEW c \in Connections, NEW command \in Commands,
           NEW place \in Places,
           Typed, Awaited, Single, Runs(c, t, command),
           IF command = "query" THEN caller' = caller ELSE Goes(t, place)
    PROVE  /\ pending' \in [Connections -> Seq(Entries)]
           /\ Awaited' /\ Single'
           /\ command = "BEGIN" => caller[t] = "beginning"
           /\ command \in {"COMMIT", "ROLLBACK"} => caller[t] = "ending"
<1>1. /\ pending[c] \in Seq(Entries)
      /\ pending[c] # <<>>
      /\ pending[c][1] = [of |-> t, command |-> command]
      /\ 1 \in 1..Len(pending[c])
  BY SMT DEF Typed, Runs
<1>2. /\ pending' \in [Connections -> Seq(Entries)]
      /\ pending'[c] = Tail(pending[c])
      /\ \A d \in Connections \ {c} : pending'[d] = pending[d]
  BY <1>1, SMT DEF Typed, Runs
<1> DEFINE old(d, i) == IF d = c THEN i + 1 ELSE i
<1>3. \A d \in Connections : \A i \in 1..Len(pending'[d]) :
         /\ old(d, i) \in 1..Len(pending[d])
         /\ pending'[d][i] = pending[d][old(d, i)]
         /\ ~(d = c /\ old(d, i) = 1)
  <2>1. \A i \in 1..Len(pending'[c]) :
          /\ i + 1 \in 1..Len(pending[c]) /\ i + 1 # 1
          /\ pending'[c][i] = pending[c][i + 1]
    BY <1>1, <1>2, SMT
  <2> QED BY <1>2, <2>1, ZenonT(30)
<1>4. \A d \in Connections : \A i \in 1..Len(pending[d]) :
         pending[d][i].of \in Transactions /\ pending[d][i].command \in Commands
  BY EntryOf
<1>5. \A u \in Transactions : u # t => caller'[u] = caller[u]
  BY DEF Typed, Goes
<1>6. command # "query" => \A d \in Connections : \A i \in 1..Len(pending[d]) :
         /\ pending[d][i].command # "query" /\ pending[d][i].of = t
         => d = c /\ i = 1
  BY <1>1, <1>4, SMT DEF Single
<1>7. command # "query" => \A d \in Connections : \A i \in 1..Len(pending'[d]) :
         pending'[d][i].command # "query" => pending'[d][i].of # t
  <2> HIDE DEF old
  <2> QED BY <1>3, <1>6, SMT
<1>8. ASSUME NEW d \in Connections, NEW i \in 1..Len(pending'[d])
      PROVE  /\ pending'[d][i].command = "BEGIN"
                  => caller'[pending'[d][i].of] = "beginning"
             /\ pending'[d][i].command \in {"COMMIT", "ROLLBACK"}
                  => caller'[pending'[d][i].of] = "ending"
  <2>1. PICK j \in 1..Len(pending[d]) : pending'[d][i] = pending[d][j]
    BY <1>3
  <2>2. /\ pending[d][j].command = "BEGIN" => caller[pending[d][j].of] = "beginning"
        /\ pending[d][j].command \in {"COMMIT", "ROLLBACK"}
              => caller[pending[d][j].of] = "ending"
        /\ pending[d][j].of \in Transactions
    BY <1>4 DEF Awaited
  <2> QED BY <1>5, <1>7, <2>1, <2>2
<1>9. Single'
  <2>1. ASSUME NEW a \in Connections, NEW i \in 1..Len(pending'[a]),
               NEW j \in 1..Len(pending'[a]), old(a, i) = old(a, j)
        PROVE  i = j
    BY <2>1, SMT
  <2> HIDE DEF old
  <2> SUFFICES ASSUME NEW a \in Connections, NEW b \in Connections,
                      NEW i \in 1..Len(pending'[a]), NEW j \in 1..Len(pending'[b]),
                      pending'[a][i].command # "query",
                      pending'[b][j].command # "query",
                      pending'[a][i].of = pending'[b][j].of
               PROVE  a = b /\ i = j
    BY SMT DEF Single
  <2>2. a = b /\ old(a, i) = old(b, j)
    <3>1. /\ old(a, i) \in 1..Len(pending[a])
          /\ pending[a][old(a, i)] = pending'[a][i]
          /\ old(b, j) \in 1..Len(pending[b])
          /\ pending[b][old(b, j)] = pending'[b][j]
      BY <1>3
    <3>2. ASSUME NEW x \in 1..Len(pending[a]), NEW y \in 1..Len(pending[b]),
                 pending[a][x].command # "query", pending[b][y].command # "query",
                 pending[a][x].of = pending[b][y].of
          PROVE  a = b /\ x = y
      BY <3>2 DEF Single
    <3> QED BY <3>1, <3>2, SMTT(30)
  <2> QED BY <2>1, <2>2, SMT
<1>10. /\ command = "BEGIN" => caller[t] = "beginning"
       /\ command \in {"COMMIT", "ROLLBACK"} => caller[t] = "ending"
  BY <1>1, SMT DEF Awaited
<1> QED BY <1>2, <1>8, <1>9, <1>10 DEF Awaited

(* A caller that awaits nothing goes on. *)
LEMMA Moved ==
    ASSUME NEW t \in Transactions, NEW place, Typed, Awaited, Single,
           caller[t] \notin {"beginning", "ending"}, Goes(t, place),
           UNCHANGED pending
    PROVE  Awaited' /\ Single'
<1>1. \A d \in Connections : \A i \in 1..Len(pending[d]) :
         pending[d][i].of \in Transactions /\ pending[d][i].command \in Commands
  BY EntryOf
<1>2. \A u \in Transactions : u # t => caller'[u] = caller[u]
  BY DEF Typed, Goes
<1>3. Awaited'
  <2> SUFFICES ASSUME NEW d \in Connections, NEW i \in 1..Len(pending[d])
               PROVE  /\ pending[d][i].command = "BEGIN"
                           => caller'[pending[d][i].of] = "beginning"
                      /\ pending[d][i].command \in {"COMMIT", "ROLLBACK"}
                           => caller'[pending[d][i].of] = "ending"
    BY DEF Awaited
  <2>1. /\ pending[d][i].command = "BEGIN" => caller[pending[d][i].of] = "beginning"
        /\ pending[d][i].command \in {"COMMIT", "ROLLBACK"}
             => caller[pending[d][i].of] = "ending"
        /\ pending[d][i].of \in Transactions
    BY <1>1 DEF Awaited
  <2> QED BY <1>2, <2>1
<1>4. Single'
  BY SMTT(30) DEF Single
<1> QED BY <1>3, <1>4

-----------------------------------------------------------------------------
(* The pool as it is constructed. *)
LEMMA InitHolds ==
    ASSUME Init
    PROVE  IInv
<1> USE PoolAssumption
<1>1. Typed BY SMT DEF Init, Typed, Places, Phases
<1>2. Held /\ Used /\ Unpublished /\ Waiting
  BY DEF Init, Held, Holding, Used, Unpublished, Waiting
<1>3. Awaited /\ Single BY SMT DEF Init, Awaited, Single
<1>4. LeaseConserved
  <2>1. Range(available) = {} /\ IsInjective(available)
    BY SMT DEF Init, Range, IsInjective
  <2>2. Leased = {} BY DEF Init, Leased
  <2> QED BY <2>1, <2>2 DEF Init, LeaseConserved
<1> QED BY <1>1, <1>2, <1>3, <1>4, SMT DEF IInv, Init

(* start() and drain(). *)
LEMMA StartupStep ==
    ASSUME IInv, Startup \/ DrainBegins
    PROVE  IInv'
<1> USE PoolAssumption
<1>1. /\ UNCHANGED <<caller, state, query, pending, server>>
      /\ pool' \in {"cold", "starting", "started", "draining"}
      /\ connected' \subseteq Connections
  BY DEF Startup, DrainBegins, StartBegins, StartFails, StartPublishes,
         ConnectionEstablished, IInv, Typed
<1>2. Held' /\ Used' /\ Awaited' /\ Single'
  BY <1>1, SMT DEF IInv, Held, Used, Awaited, Single, state
<1>3. CASE StartPublishes
  <2>1. /\ available' \in Seq(Connections) /\ Range(available') = Connections
        /\ IsInjective(available')
    BY <1>3, Listed DEF StartPublishes
  <2>2. /\ pool = "starting" /\ pool' = "started" /\ connected' = Connections
        /\ lease' = lease /\ \A t \in Transactions : lease[t] = None
    BY <1>3 DEF StartPublishes, state, IInv, Unpublished
  <2>3. Typed' BY <1>1, <2>1 DEF Typed, IInv, state
  <2>4. Unpublished' /\ Waiting' BY <2>2 DEF Unpublished, Waiting
  <2>5. Leased' = {} BY <2>2 DEF Leased
  <2>6. LeaseConserved' BY <2>1, <2>2, <2>5 DEF LeaseConserved
  <2> QED BY <1>2, <2>2, <2>3, <2>4, <2>6 DEF IInv
<1>4. CASE StartBegins \/ StartFails \/ (\E c \in Connections : ConnectionEstablished(c))
  <2>1. /\ available' = available /\ lease' = lease /\ caller' = caller
        /\ pool \in {"cold", "starting"} /\ pool' \in {"cold", "starting"}
        /\ (pool' = "cold" => connected' # Connections)
    BY <1>4 DEF StartBegins, StartFails, ConnectionEstablished, state
  <2>2. available = <<>> /\ \A t \in Transactions : lease[t] = None
    BY <2>1 DEF IInv, Unpublished
  <2>3. Typed' BY <1>1, <2>1 DEF Typed, IInv, state
  <2>4. ~ \E t \in Transactions : caller[t] = "waiting"
    BY <2>1 DEF IInv, Waiting
  <2>5. Unpublished' /\ Waiting'
    BY <2>1, <2>2, <2>4 DEF Unpublished, Waiting
  <2>6. LeaseConserved' BY <2>1 DEF LeaseConserved
  <2> QED BY <1>2, <2>1, <2>3, <2>5, <2>6, SMT DEF IInv
<1>5. CASE DrainBegins
  <2>1. /\ available' = available /\ lease' = lease /\ caller' = caller
        /\ connected' = connected /\ pool \in {"cold", "started"}
        /\ pool' = "draining"
    BY <1>5 DEF DrainBegins, state
  <2>2. Typed' BY <1>1, <2>1 DEF Typed, IInv, state
  <2>3. Unpublished' BY <2>1 DEF IInv, Unpublished
  <2>4. Waiting' BY <2>1 DEF IInv, Waiting
  <2>5. LeaseConserved' BY <2>1 DEF IInv, LeaseConserved, Leased
  <2> QED BY <1>2, <2>1, <2>2, <2>3, <2>4, <2>5 DEF IInv
<1> QED BY <1>3, <1>4, <1>5, SMT DEF Startup

(* A step that leaves pool, queue and leases alone. *)
LEMMA LeasesKept ==
    ASSUME IInv, UNCHANGED <<startup, available, lease>>,
           caller' \in [Transactions -> Places],
           final' \in [Transactions -> {"none", "COMMIT", "ROLLBACK"}],
           phase' \in [Transactions -> Phases],
           pending' \in [Connections -> Seq(Entries)],
           Held', Used', Awaited', Single', Waiting'
    PROVE  IInv'
<1>1. Typed' BY DEF IInv, Typed, startup
<1>2. Unpublished' BY DEF IInv, Unpublished, startup
<1>3. LeaseConserved' BY DEF IInv, LeaseConserved, Leased, startup
<1> QED BY <1>1, <1>2, <1>3, SMT DEF IInv, startup

(* A lease returned by a caller that has no more use for it. *)
LEMMA ReleaseStep ==
    ASSUME IInv, NEW t \in Transactions, ReturnLease(t),
           NEW from \in {"begin_failed", "releasing"}, caller[t] = from,
           NEW to \in {"refused", "done"}, Goes(t, to),
           UNCHANGED <<startup, phase, final, pending>>
    PROVE  IInv'
<1> USE PoolAssumption
<1>1. /\ Typed /\ Held /\ Used /\ Awaited /\ Single /\ Unpublished /\ Waiting
      /\ LeaseConserved
  BY DEF IInv
<1>2. lease[t] # None BY <1>1 DEF Held, Holding
<1>3. /\ Published /\ available' \in Seq(Connections)
      /\ lease' \in [Transactions -> Connections \cup {None}] /\ LeaseConserved'
  BY <1>1, <1>2, Returned
<1>4. Awaited' /\ Single' BY <1>1, Moved
<1>5. /\ caller' \in [Transactions -> Places] /\ caller'[t] = to
      /\ \A u \in Transactions \ {t} : caller'[u] = caller[u]
      /\ lease'[t] = None
      /\ \A u \in Transactions \ {t} : lease'[u] = lease[u]
  BY <1>1 DEF Goes, Typed, ReturnLease, Places
<1>6. Held' /\ Used' BY <1>1, <1>5 DEF Held, Holding, Used
<1>7. Typed' BY <1>1, <1>3, <1>5 DEF Typed, startup
<1>8. pool \in {"started", "draining"} \/ pool = "cold"
  BY <1>1, <1>3 DEF Published, Typed
<1>9. pool # "cold" BY <1>1, <1>2 DEF Unpublished
<1>10. Unpublished' /\ Waiting'
  BY <1>1, <1>3, <1>8, <1>9 DEF Unpublished, Waiting, Published, startup
<1> QED BY <1>3, <1>4, <1>6, <1>7, <1>10, SMT DEF IInv, startup

(* transaction(): waiting for a lease, and BEGIN. *)
LEMMA AcquireStep ==
    ASSUME IInv, NEW t \in Transactions, RequestTransaction(t) \/ Acquire(t)
    PROVE  IInv'
<1> USE PoolAssumption
<1>0. /\ Typed /\ Held /\ Used /\ Awaited /\ Single /\ Unpublished /\ Waiting
      /\ LeaseConserved /\ (pool = "started" => connected = Connections)
      /\ (pool = "cold" /\ connected = Connections => Connections = {})
  BY DEF IInv
<1>1. /\ caller \in [Transactions -> Places] /\ phase \in [Transactions -> Phases]
      /\ final \in [Transactions -> {"none", "COMMIT", "ROLLBACK"}]
      /\ pending \in [Connections -> Seq(Entries)]
  BY <1>0 DEF Typed
<1>2. CASE RequestTransaction(t)
  <2>1. PICK place \in {"waiting", "refused"} :
           Goes(t, place) /\ (place = "waiting" => pool = "started")
    BY <1>2 DEF RequestTransaction
  <2>2. /\ UNCHANGED <<startup, available, lease, phase, final, pending>>
        /\ caller[t] = "absent"
    BY <1>2 DEF RequestTransaction, state
  <2>3. /\ caller' \in [Transactions -> Places] /\ caller'[t] = place
        /\ \A u \in Transactions \ {t} : caller'[u] = caller[u]
    BY <1>1, <2>1 DEF Goes, Places
  <2>4. Awaited' /\ Single' BY <1>0, <2>1, <2>2, Moved
  <2>5. Held' /\ Used' BY <1>0, <2>2, <2>3 DEF Held, Holding, Used
  <2>6. Waiting' BY <1>0, <2>1, <2>2, <2>3 DEF Waiting, startup
  <2> QED BY <1>1, <2>2, <2>3, <2>4, <2>5, <2>6, LeasesKept, SMT
<1>3. CASE TakeLease(t)
  <2>1. /\ caller[t] = "waiting" /\ available # <<>> /\ available' = Tail(available)
        /\ lease' = [lease EXCEPT ![t] = Head(available)]
        /\ Goes(t, "beginning") /\ Enqueue(Head(available), t, "BEGIN")
        /\ UNCHANGED <<startup, phase, final>>
    BY <1>3 DEF TakeLease
  <2>2. lease[t] = None BY <1>0, <2>1 DEF Held, Holding
  <2>3. /\ Published /\ available' \in Seq(Connections)
        /\ lease' \in [Transactions -> Connections \cup {None}]
        /\ Head(available) \in Connections /\ LeaseConserved'
    BY <1>0, <2>1, <2>2, Taken
  <2>4. /\ pending' \in [Connections -> Seq(Entries)] /\ Awaited' /\ Single'
    BY <1>0, <2>1, <2>3, Enqueued DEF Commands, Places
  <2>5. /\ caller' \in [Transactions -> Places] /\ caller'[t] = "beginning"
        /\ \A u \in Transactions \ {t} : caller'[u] = caller[u]
        /\ lease'[t] = Head(available)
        /\ \A u \in Transactions \ {t} : lease'[u] = lease[u]
    BY <1>0, <1>1, <2>1 DEF Goes, Typed, Places
  <2>6. Held' /\ Used' BY <1>0, <2>1, <2>3, <2>5, SMT DEF Held, Holding, Used
  <2>7. Typed' BY <1>0, <2>1, <2>3, <2>4, <2>5 DEF Typed, startup
  <2>8. pool \in {"started", "draining"} BY <1>0, <2>1 DEF Waiting
  <2>9. Unpublished' /\ Waiting'
    BY <1>0, <2>1, <2>3, <2>8 DEF Unpublished, Waiting, Published, startup
  <2> QED BY <1>0, <2>1, <2>3, <2>4, <2>6, <2>7, <2>9 DEF IInv, startup
<1>4. CASE BeginSucceeds(t)
  <2>1. /\ caller[t] = "begun" /\ Goes(t, "using")
        /\ phase' = [phase EXCEPT ![t] = "active"]
        /\ UNCHANGED <<startup, available, lease, final, pending>>
    BY <1>4 DEF BeginSucceeds
  <2>2. /\ caller' \in [Transactions -> Places] /\ caller'[t] = "using"
        /\ \A u \in Transactions \ {t} : caller'[u] = caller[u]
        /\ phase' \in [Transactions -> Phases]
        /\ \A u \in Transactions \ {t} : phase'[u] = phase[u]
    BY <1>1, <2>1 DEF Goes, Places, Phases
  <2>3. Awaited' /\ Single' BY <1>0, <2>1, Moved
  <2>4. Held' /\ Used' BY <1>0, <2>1, <2>2 DEF Held, Holding, Used
  <2>5. Waiting' BY <1>0, <2>1, <2>2 DEF Waiting, startup
  <2> QED BY <1>1, <2>1, <2>2, <2>3, <2>4, <2>5, LeasesKept
<1>5. CASE BeginFails(t)
  <2>1. /\ caller[t] = "begin_failed" /\ Goes(t, "refused") /\ ReturnLease(t)
        /\ UNCHANGED <<startup, phase, final, pending>>
    BY <1>5 DEF BeginFails
  <2> QED BY <2>1, ReleaseStep
<1> QED BY <1>2, <1>3, <1>4, <1>5 DEF Acquire

(* The transaction object and the end of the transaction. *)
LEMMA TransactionStep ==
    ASSUME IInv, NEW t \in Transactions, Use(t) \/ End(t) \/ Release(t)
    PROVE  IInv'
<1> USE PoolAssumption
<1>0. /\ Typed /\ Held /\ Used /\ Awaited /\ Single /\ Unpublished /\ Waiting
      /\ LeaseConserved
  BY DEF IInv
<1>1. /\ caller \in [Transactions -> Places] /\ phase \in [Transactions -> Phases]
      /\ final \in [Transactions -> {"none", "COMMIT", "ROLLBACK"}]
      /\ pending \in [Connections -> Seq(Entries)]
  BY <1>0 DEF Typed
<1>2. CASE Query(t)
  <2>1. UNCHANGED <<startup, available, lease, caller, phase, final, pending>>
    BY <1>2 DEF Query, state
  <2>2. Held' /\ Used' /\ Awaited' /\ Single' /\ Waiting'
    BY <1>0, <2>1, SMT DEF Held, Used, Awaited, Single, Waiting, startup
  <2> QED BY <1>1, <2>1, <2>2, LeasesKept
<1>3. CASE StartTask(t)
  <2>1. /\ UNCHANGED <<startup, available, lease, caller, phase, final>>
        /\ Enqueue(bound[t], t, "query")
    BY <1>3 DEF StartTask, state
  <2>2. /\ pending' \in [Connections -> Seq(Entries)] /\ Awaited' /\ Single'
    <3>1. CASE bound[t] \in Connections
      BY <1>0, <2>1, <3>1, Enqueued DEF Commands, Places
    <3>2. CASE bound[t] \notin Connections
      <4>1. pending' = pending BY <1>1, <2>1, <3>2 DEF Enqueue
      <4> QED BY <1>0, <1>1, <2>1, <4>1, SMTT(30) DEF Awaited, Single
    <3> QED BY <3>1, <3>2
  <2>3. Held' /\ Used' /\ Waiting'
    BY <1>0, <2>1 DEF Held, Used, Waiting, startup
  <2> QED BY <1>1, <2>1, <2>2, <2>3, LeasesKept, SMTT(30)
<1>4. CASE End(t)
  <2>1. CASE UNCHANGED <<caller, phase, final>>
    <3>1. UNCHANGED <<startup, available, lease, caller, phase, final, pending>>
      BY <1>4, <2>1 DEF End, Commit, Rollback, Drop, BeginFinalize
    <3>2. Held' /\ Used' /\ Awaited' /\ Single' /\ Waiting'
      BY <1>0, <3>1, SMT DEF Held, Used, Awaited, Single, Waiting, startup
    <3> QED BY <1>1, <3>1, <3>2, LeasesKept, SMT
  <2>2. CASE ~ UNCHANGED <<caller, phase, final>>
    <3>1. PICK command \in {"COMMIT", "ROLLBACK"} : BeginFinalize(t, command)
      BY <1>4, <2>2 DEF End, Commit, Rollback, Drop
    <3>2. phase[t] = "active" /\ UNCHANGED <<startup, available, lease, pending>>
      BY <1>4, <2>2 DEF End, Commit, Rollback, Drop
    <3>3. caller[t] = "using" BY <1>0, <3>2 DEF Used
    <3>4. /\ caller' \in [Transactions -> Places] /\ caller'[t] = "finishing"
          /\ phase' \in [Transactions -> Phases] /\ phase'[t] = "finalizing"
          /\ final' \in [Transactions -> {"none", "COMMIT", "ROLLBACK"}]
          /\ final'[t] = command
          /\ \A u \in Transactions \ {t} :
                caller'[u] = caller[u] /\ phase'[u] = phase[u] /\ final'[u] = final[u]
      BY <1>1, <3>1 DEF BeginFinalize, Goes, Places, Phases
    <3>5. Awaited' /\ Single'
      BY <1>0, <3>1, <3>2, <3>3, Moved DEF BeginFinalize
    <3>6. Held' /\ Used' /\ Waiting'
      BY <1>0, <3>2, <3>3, <3>4 DEF Held, Holding, Used, Waiting, startup
    <3> QED BY <1>1, <3>2, <3>4, <3>5, <3>6, LeasesKept, SMT
  <2> QED BY <2>1, <2>2
<1>5. CASE FinalizeStarts(t)
  <2>1. /\ caller[t] = "finishing" /\ Goes(t, "ending")
        /\ Enqueue(lease[t], t, final[t])
        /\ UNCHANGED <<startup, available, lease, phase, final>>
    BY <1>5 DEF FinalizeStarts, state
  <2>2. lease[t] \in Connections /\ final[t] \in {"COMMIT", "ROLLBACK"}
    BY <1>0, <2>1 DEF Held, Holding, Used, Typed
  <2>3. /\ pending' \in [Connections -> Seq(Entries)] /\ Awaited' /\ Single'
    BY <1>0, <2>1, <2>2, Enqueued DEF Commands, Places
  <2>4. /\ caller' \in [Transactions -> Places] /\ caller'[t] = "ending"
        /\ \A u \in Transactions \ {t} : caller'[u] = caller[u]
    BY <1>1, <2>1 DEF Goes, Places
  <2>5. Held' /\ Used' /\ Waiting'
    BY <1>0, <2>1, <2>4 DEF Held, Holding, Used, Waiting, startup
  <2> QED BY <1>1, <2>1, <2>3, <2>4, <2>5, LeasesKept, SMTT(30)
<1>6. CASE CompletePhase(t)
  <2>1. /\ caller[t] = "ended" /\ Goes(t, "releasing")
        /\ phase' = [phase EXCEPT ![t] = "completed"]
        /\ UNCHANGED <<startup, available, lease, final, pending>>
    BY <1>6 DEF CompletePhase
  <2>2. /\ caller' \in [Transactions -> Places] /\ caller'[t] = "releasing"
        /\ phase' \in [Transactions -> Phases] /\ phase'[t] = "completed"
        /\ \A u \in Transactions \ {t} :
              caller'[u] = caller[u] /\ phase'[u] = phase[u]
    BY <1>1, <2>1 DEF Goes, Places, Phases
  <2>3. Awaited' /\ Single' BY <1>0, <2>1, Moved
  <2>4. Held' /\ Used' /\ Waiting'
    BY <1>0, <2>1, <2>2, SMT DEF Held, Holding, Used, Waiting, startup
  <2> QED BY <1>1, <2>1, <2>2, <2>3, <2>4, LeasesKept
<1>7. CASE ReleaseLease(t)
  BY <1>7, ReleaseStep DEF ReleaseLease
<1> QED BY <1>2, <1>3, <1>4, <1>5, <1>6, <1>7 DEF Use, Release

(* The server runs one operation. *)
LEMMA ServeStep ==
    ASSUME IInv, NEW t \in Transactions, NEW c \in Connections, Serve(c, t)
    PROVE  IInv'
<1> USE PoolAssumption
<1>0. /\ Typed /\ Held /\ Used /\ Awaited /\ Single /\ Unpublished /\ Waiting
      /\ LeaseConserved
  BY DEF IInv
<1>1. /\ caller \in [Transactions -> Places] /\ phase \in [Transactions -> Phases]
      /\ final \in [Transactions -> {"none", "COMMIT", "ROLLBACK"}]
  BY <1>0 DEF Typed
<1>2. UNCHANGED <<startup, available, lease, phase, final>>
  BY DEF Serve, ServerBegins, ServerQueries, ServerEnds, state
<1>3. CASE ServerQueries(c, t)
  <2>1. Runs(c, t, "query") /\ caller' = caller
    BY <1>3 DEF ServerQueries
  <2>2. /\ pending' \in [Connections -> Seq(Entries)] /\ Awaited' /\ Single'
    BY <1>0, <2>1, Ran DEF Commands, Places
  <2>3. Held' /\ Used' /\ Waiting'
    BY <1>0, <1>2, <2>1 DEF Held, Used, Waiting, startup
  <2> QED BY <1>1, <1>2, <2>1, <2>2, <2>3, LeasesKept, SMTT(30)
<1>4. CASE ServerBegins(c, t) \/ ServerEnds(c, t)
  <2>1. PICK command \in {"BEGIN", "COMMIT", "ROLLBACK"},
             place \in {"begun", "begin_failed", "ended"} :
           Runs(c, t, command) /\ Goes(t, place)
    BY <1>4 DEF ServerBegins, ServerEnds
  <2>2. /\ pending' \in [Connections -> Seq(Entries)] /\ Awaited' /\ Single'
        /\ caller[t] \in {"beginning", "ending"}
    BY <1>0, <2>1, Ran DEF Commands, Places
  <2>3. /\ caller' \in [Transactions -> Places] /\ caller'[t] = place
        /\ \A u \in Transactions \ {t} : caller'[u] = caller[u]
    BY <1>1, <2>1 DEF Goes, Places
  <2>4. UNCHANGED <<phase, lease, final, pool, connected, available>>
    BY <1>2 DEF startup
  <2>5. place \in Holding /\ caller[t] \in Holding
    BY <2>1, <2>2 DEF Holding
  <2>6. Held'
    BY <1>0, <2>3, <2>4, <2>5 DEF Held
  <2>7. Used'
    BY <1>0, <2>1, <2>2, <2>3, <2>4 DEF Used
  <2>8. Waiting'
    BY <1>0, <2>1, <2>2, <2>3, <2>4 DEF Waiting
  <2> QED BY <1>1, <1>2, <2>2, <2>3, <2>6, <2>7, <2>8, LeasesKept, SMT
<1> QED BY <1>3, <1>4 DEF Serve

-----------------------------------------------------------------------------
(* Stuttering. *)
LEMMA Unchanged ==
    ASSUME IInv, UNCHANGED vars
    PROVE  IInv'
<1>1. UNCHANGED <<pool, connected, available, caller, phase, lease, final, pending>>
  BY DEF vars, startup, state
<1>2. Typed' /\ Unpublished'
  BY <1>1 DEF IInv, Typed, Unpublished
<1>3. Held' /\ Used' /\ Waiting'
  BY <1>1 DEF IInv, Held, Used, Waiting
<1>4. Awaited' /\ Single'
  BY <1>1, SMT DEF IInv, Awaited, Single
<1>5. LeaseConserved'
  BY <1>1 DEF IInv, LeaseConserved, Leased
<1> QED BY <1>1, <1>2, <1>3, <1>4, <1>5 DEF IInv

(* Leases are conserved because a caller has one exactly between its dequeue
   and its release, which in turn needs that the BEGIN or COMMIT a connection
   answers is the only one its caller awaits. *)
THEOREM LeaseTheorem == Spec => []IInv
<1>1. Init => IInv
  BY InitHolds
<1>2. IInv /\ [Next]_vars => IInv'
  BY StartupStep, AcquireStep, TransactionStep, ServeStep, Unchanged DEF Next
<1> QED BY <1>1, <1>2, PTL DEF Spec

(* Once DBPool::start has published the connections, each of them is available
   once or leased to one transaction, on every path of transaction(),
   commit(), rollback() and the destructor. *)
THEOREM LeasesConserved == Spec => []LeaseConserved
<1>1. IInv => LeaseConserved
  BY DEF IInv
<1> QED BY <1>1, LeaseTheorem, PTL

-----------------------------------------------------------------------------
(* What is enqueued on a leased connection, by the place of its holder.    *)

Blank(c) == open[c] = None /\ aborted[c] = FALSE
Ask(t, command) == [of |-> t, command |-> command]
Queries(t, q, n) == \A i \in 1..n : q[i] = Ask(t, "query")

Serves(t, c) ==
    /\ caller[t] = "beginning" => pending[c] = <<Ask(t, "BEGIN")>> /\ Blank(c)
    /\ caller[t] = "begun" => pending[c] = <<>>
    /\ caller[t] \in {"begin_failed", "ended", "releasing"} => pending[c] = <<>> /\ Blank(c)
    /\ caller[t] \in {"using", "finishing"} => Queries(t, pending[c], Len(pending[c]))
    /\ caller[t] = "ending" =>
         /\ Len(pending[c]) > 0
         /\ Queries(t, pending[c], Len(pending[c]) - 1)
         /\ pending[c][Len(pending[c])] \in {Ask(t, "COMMIT"), Ask(t, "ROLLBACK")}

ServerTyped ==
    /\ open \in [Connections -> Transactions \cup {None}]
    /\ aborted \in [Connections -> BOOLEAN]
    /\ task \in [Transactions -> {"none", "cold", "started", "ended"}]
    /\ bound \in [Transactions -> Connections \cup {None}]

(* A task exists once its transaction does, and captures its connection. *)
Tasked(t) ==
    /\ task[t] # "none" => caller[t] \notin {"absent", "waiting", "beginning", "begun"}
    /\ task[t] = "cold" /\ phase[t] = "active" => bound[t] = lease[t]

(* A connection that nobody leases has nothing enqueued and nothing open. *)
Rests(c) == (\A t \in Transactions : lease[t] # c) => pending[c] = <<>> /\ Blank(c)

CInv ==
    /\ ServerTyped
    /\ \A t \in Transactions, c \in Connections : lease[t] = c => Serves(t, c)
    /\ \A c \in Connections : Rests(c)
    /\ \A t \in Transactions : Tasked(t)

(* A connection has one holder, and none while it is available. *)
LEMMA Exclusive ==
    ASSUME IInv, NEW t \in Transactions, lease[t] # None
    PROVE  /\ \A u \in Transactions \ {t} : lease[u] # lease[t]
           /\ lease[t] \notin Range(available)
           /\ lease[t] \in Connections
<1>1. connected = Connections /\ pool # "starting"
  BY DEF IInv, Unpublished, Typed
<1>2. lease[t] \in Leased
  BY DEF Leased
<1>3. lease[t] \in Connections
  BY DEF IInv, Typed
<1> QED BY <1>1, <1>2, <1>3 DEF IInv, LeaseConserved

(* A step of one caller on its own connection. *)
LEMMA Local ==
    ASSUME CInv, ServerTyped', NEW t \in Transactions, NEW c \in Connections,
           \A u \in Transactions \ {t} : lease[u] # c,
           \A u \in Transactions \ {t} :
               /\ lease'[u] = lease[u] /\ caller'[u] = caller[u] /\ phase'[u] = phase[u]
               /\ task'[u] = task[u] /\ bound'[u] = bound[u],
           \A d \in Connections \ {c} :
               pending'[d] = pending[d] /\ open'[d] = open[d] /\ aborted'[d] = aborted[d],
           lease[t] \in {c, None}, lease'[t] \in {c, None},
           lease'[t] = c => Serves(t, c)',
           lease'[t] = None => pending'[c] = <<>> /\ Blank(c)',
           Tasked(t)'
    PROVE  CInv'
<1> USE PoolAssumption
<1>1. ASSUME NEW u \in Transactions, NEW d \in Connections, lease'[u] = d PROVE Serves(u, d)'
  <2>1. CASE u = t
    <3>1. d = c
      BY <1>1, <2>1
    <3> QED BY <1>1, <2>1, <3>1
  <2>2. CASE u # t
    <3>1. d # c /\ lease[u] = d /\ Serves(u, d)
      BY <1>1, <2>2 DEF CInv
    <3>2. /\ pending'[d] = pending[d] /\ open'[d] = open[d] /\ aborted'[d] = aborted[d]
          /\ caller'[u] = caller[u]
      BY <2>2, <3>1
    <3> QED BY <3>1, <3>2 DEF Serves, Blank
  <2> QED BY <2>1, <2>2
<1>2. ASSUME NEW d \in Connections PROVE Rests(d)'
  <2>1. CASE d = c
    BY <2>1 DEF Rests
  <2>2. CASE d # c
    <3>1. /\ pending'[d] = pending[d] /\ open'[d] = open[d] /\ aborted'[d] = aborted[d]
      BY <2>2
    <3>2. (\A u \in Transactions : lease'[u] # d) => \A u \in Transactions : lease[u] # d
      BY <2>2, SMT
    <3> QED BY <3>1, <3>2 DEF CInv, Rests, Blank
  <2> QED BY <2>1, <2>2
<1>3. ASSUME NEW u \in Transactions PROVE Tasked(u)'
  BY DEF CInv, Tasked
<1> QED BY <1>1, <1>2, <1>3 DEF CInv

(* A step of one caller that touches no connection. *)
LEMMA Aside ==
    ASSUME CInv, ServerTyped', NEW t \in Transactions,
           UNCHANGED <<lease, pending, open, aborted>>,
           \A u \in Transactions \ {t} :
               /\ caller'[u] = caller[u] /\ phase'[u] = phase[u]
               /\ task'[u] = task[u] /\ bound'[u] = bound[u],
           \A c \in Connections : lease[t] = c => Serves(t, c)',
           Tasked(t)'
    PROVE  CInv'
<1>1. ASSUME NEW u \in Transactions, NEW d \in Connections, lease'[u] = d PROVE Serves(u, d)'
  <2>1. CASE u = t
    BY <1>1, <2>1
  <2>2. CASE u # t
    <3>1. lease[u] = d /\ Serves(u, d) /\ caller'[u] = caller[u]
      BY <1>1, <2>2 DEF CInv
    <3> QED BY <3>1 DEF Serves, Blank
  <2> QED BY <2>1, <2>2
<1>2. ASSUME NEW d \in Connections PROVE Rests(d)'
  BY DEF CInv, Rests, Blank
<1>3. ASSUME NEW u \in Transactions PROVE Tasked(u)'
  BY DEF CInv, Tasked
<1> QED BY <1>1, <1>2, <1>3 DEF CInv

(* What a connection has enqueued is its holder's. *)
LEMMA HeadOwner ==
    ASSUME IInv, CInv, NEW c \in Connections, NEW t \in Transactions, NEW command,
           Runs(c, t, command)
    PROVE  /\ lease[t] = c /\ Serves(t, c)
           /\ command = "BEGIN" => caller[t] = "beginning"
           /\ command = "query" => caller[t] \in {"using", "finishing", "ending"}
           /\ command \in {"COMMIT", "ROLLBACK"} => caller[t] = "ending" /\ Len(pending[c]) = 1
<1>1. pending[c] # <<>> /\ Head(pending[c]) = Ask(t, command)
  BY DEF Runs, Ask
<1>2. PICK u \in Transactions : lease[u] = c
  BY <1>1 DEF CInv, Rests
<1>3. Serves(u, c) /\ caller[u] \in Holding
  BY <1>2, PoolAssumption DEF CInv, IInv, Held
<1>4. pending[c] \in Seq(Entries)
  BY DEF IInv, Typed
<1>5. Len(pending[c]) \in Nat \ {0} /\ pending[c][1] = Ask(t, command) /\ 1 \in 1..Len(pending[c])
  BY <1>1, <1>4, SMT
<1>6. ASSUME NEW v, NEW k, Ask(t, command) = Ask(v, k) PROVE t = v /\ command = k
  BY <1>6 DEF Ask
<1>7. CASE caller[u] = "beginning"
  <2>1. Ask(t, command) = Ask(u, "BEGIN")
    BY <1>3, <1>5, <1>7, SMT DEF Serves
  <2>2. t = u /\ command = "BEGIN"
    BY <1>6, <2>1
  <2> QED BY <1>2, <1>3, <1>7, <2>2
<1>8. CASE caller[u] \in {"begun", "begin_failed", "ended", "releasing"}
  BY <1>1, <1>3, <1>8 DEF Serves
<1>9. CASE caller[u] \in {"using", "finishing"}
  <2>1. Ask(t, command) = Ask(u, "query")
    BY <1>3, <1>5, <1>9 DEF Serves, Queries
  <2>2. t = u /\ command = "query"
    BY <1>6, <2>1
  <2> QED BY <1>2, <1>3, <1>9, <2>2
<1>10. CASE caller[u] = "ending" /\ Len(pending[c]) = 1
  <2>1. Ask(t, command) \in {Ask(u, "COMMIT"), Ask(u, "ROLLBACK")}
    BY <1>3, <1>5, <1>10 DEF Serves
  <2>2. t = u /\ command \in {"COMMIT", "ROLLBACK"}
    BY <1>6, <2>1
  <2> QED BY <1>2, <1>3, <1>10, <2>2
<1>11. CASE caller[u] = "ending" /\ Len(pending[c]) # 1
  <2>0. \A n \in Nat \ {0} : n # 1 => 1 \in 1..(n - 1)
    BY SMT
  <2>1. 1 \in 1..(Len(pending[c]) - 1)
    BY <1>5, <1>11, <2>0
  <2>2. Ask(t, command) = Ask(u, "query")
    BY <1>3, <1>5, <1>11, <2>1 DEF Serves, Queries
  <2>3. t = u /\ command = "query"
    BY <1>6, <2>2, SMT
  <2> QED BY <1>2, <1>3, <1>11, <2>3
<1> QED BY <1>3, <1>7, <1>8, <1>9, <1>10, <1>11 DEF Holding

(* The queue of operations as it grows and shrinks. *)
LEMMA QueueMoves ==
    ASSUME NEW q \in Seq(Entries)
    PROVE  /\ Len(q) \in Nat
           /\ \A e \in Entries :
                /\ Len(Append(q, e)) = Len(q) + 1 /\ Append(q, e)[Len(q) + 1] = e
                /\ \A i \in 1..Len(q) : Append(q, e)[i] = q[i]
           /\ q # <<>> =>
                /\ Len(q) > 0 /\ Len(Tail(q)) = Len(q) - 1
                /\ \A i \in 1..(Len(q) - 1) : Tail(q)[i] = q[i + 1]
                /\ Len(q) = 1 => Tail(q) = <<>>
BY SMT

(* The steps of acquiring and releasing a lease preserve the invariant. *)
LEMMA LeaseClean ==
    ASSUME IInv, IInv', CInv, NEW t \in Transactions,
           RequestTransaction(t) \/ Acquire(t) \/ Release(t)
    PROVE  CInv'
<1> USE PoolAssumption
<1>0. /\ caller \in [Transactions -> Places] /\ phase \in [Transactions -> Phases]
      /\ lease \in [Transactions -> Connections \cup {None}]
      /\ pending \in [Connections -> Seq(Entries)]
      /\ available \in Seq(Connections)
      /\ ServerTyped
  BY DEF IInv, Typed, CInv
<1>1. UNCHANGED <<open, aborted, task, bound>> /\ ServerTyped'
  BY <1>0 DEF RequestTransaction, Acquire, Release, TakeLease, BeginSucceeds, BeginFails, FinalizeStarts,
     CompletePhase, ReleaseLease, server, query, ServerTyped
<1>2. Tasked(t)
  BY DEF CInv
<1>3. CASE RequestTransaction(t)
  <2>1. lease[t] = None /\ caller[t] = "absent"
    BY <1>3 DEF RequestTransaction, IInv, Held, Holding
  <2>2. UNCHANGED <<lease, pending, phase>>
        /\ \A u \in Transactions \ {t} : caller'[u] = caller[u]
    BY <1>0, <1>3 DEF RequestTransaction, Goes, state
  <2>3. Tasked(t)'
    BY <1>1, <1>2, <2>1, <2>2 DEF Tasked
  <2> QED BY <1>1, <2>1, <2>2, <2>3, Aside
<1>4. CASE TakeLease(t)
  <2>0. PICK c \in Connections : c = Head(available) /\ c \in Range(available)
    BY <1>0, <1>4, SMT DEF TakeLease, Range
  <2>1. /\ lease' = [lease EXCEPT ![t] = c] /\ caller' = [caller EXCEPT ![t] = "beginning"]
        /\ pending' = [pending EXCEPT ![c] = Append(@, [of |-> t, command |-> "BEGIN"])]
        /\ available # <<>> /\ caller[t] = "waiting" /\ UNCHANGED phase
    BY <1>4, <2>0 DEF TakeLease, Goes, Enqueue
  <2>3. \A u \in Transactions : lease[u] # c
    BY <2>0, Exclusive
  <2>4. pending[c] = <<>> /\ Blank(c)
    BY <2>3 DEF CInv, Rests
  <2>5. pending'[c] = <<Ask(t, "BEGIN")>>
    BY <1>0, <2>1, <2>4, SMT DEF Ask
  <2>6. Serves(t, c)'
    BY <1>0, <1>1, <2>1, <2>4, <2>5 DEF Serves, Blank
  <2>7. Tasked(t)'
    BY <1>0, <1>1, <1>2, <2>1, SMT DEF Tasked, IInv, Used
  <2>8. /\ \A u \in Transactions \ {t} : lease'[u] = lease[u] /\ caller'[u] = caller[u]
        /\ \A d \in Connections \ {c} : pending'[d] = pending[d]
        /\ lease'[t] = c /\ lease[t] = None
    BY <1>0, <2>1 DEF IInv, Held, Holding
  <2> QED BY <1>1, <2>1, <2>3, <2>6, <2>7, <2>8, Local, SMT
<1>5. CASE BeginSucceeds(t)
  <2>1. /\ UNCHANGED <<lease, pending>> /\ caller' = [caller EXCEPT ![t] = "using"] /\ caller[t] = "begun"
        /\ \A u \in Transactions \ {t} : phase'[u] = phase[u]
    BY <1>0, <1>5 DEF BeginSucceeds, Goes
  <2>2. ASSUME NEW c \in Connections, lease[t] = c PROVE Serves(t, c)'
    <3>1. pending[c] = <<>>
      BY <2>1, <2>2 DEF CInv, Serves
    <3> QED BY <1>0, <2>1, <3>1, SMT DEF Serves, Queries
  <2>3. Tasked(t)'
    BY <1>1, <1>2, <2>1 DEF Tasked
  <2> QED BY <1>0, <1>1, <2>1, <2>2, <2>3, Aside, SMT
<1>6. CASE BeginFails(t) \/ ReleaseLease(t)
  <2>1. PICK place \in {"refused", "done"} : caller' = [caller EXCEPT ![t] = place]
    BY <1>6 DEF BeginFails, ReleaseLease, Goes
  <2>2. /\ lease' = [lease EXCEPT ![t] = None] /\ UNCHANGED <<phase, pending>>
        /\ caller[t] \in {"begin_failed", "releasing"}
    BY <1>6 DEF BeginFails, ReleaseLease, ReturnLease
  <2>3. lease[t] # None
    BY <2>2 DEF IInv, Held, Holding
  <2>4. PICK c \in Connections : lease[t] = c /\ \A u \in Transactions \ {t} : lease[u] # c
    BY <2>3, Exclusive
  <2>5. pending[c] = <<>> /\ Blank(c)
    BY <2>2, <2>4 DEF CInv, Serves
  <2>6. pending'[c] = <<>> /\ Blank(c)'
    BY <1>1, <2>2, <2>5 DEF Blank
  <2>7. Tasked(t)'
    <3>1. phase[t] # "active" /\ caller'[t] \in {"refused", "done"}
      BY <1>0, <2>1, <2>2 DEF IInv, Used
    <3> QED BY <1>1, <2>2, <3>1, SMT DEF Tasked
  <2>8. /\ \A u \in Transactions \ {t} : lease'[u] = lease[u] /\ caller'[u] = caller[u]
        /\ lease'[t] = None /\ lease[t] = c
    BY <1>0, <2>1, <2>2, <2>4, SMT
  <2>9. lease'[t] # c
    BY <2>4, <2>8
  <2> QED BY <1>1, <2>2, <2>4, <2>6, <2>7, <2>8, <2>9, Local
<1>7. CASE FinalizeStarts(t)
  <2>2. lease[t] # None
    BY <1>7 DEF FinalizeStarts, IInv, Held, Holding
  <2>3. PICK c \in Connections : lease[t] = c /\ \A u \in Transactions \ {t} : lease[u] # c
    BY <2>2, Exclusive
  <2> DEFINE q == pending[c]
             e == [of |-> t, command |-> final[t]]
  <2>1. /\ caller[t] = "finishing" /\ caller' = [caller EXCEPT ![t] = "ending"]
        /\ pending' = [pending EXCEPT ![c] = Append(q, e)]
        /\ UNCHANGED <<lease, phase>>
    BY <1>7, <2>3 DEF FinalizeStarts, Goes, Enqueue, state
  <2>4. e \in Entries /\ e \in {Ask(t, "COMMIT"), Ask(t, "ROLLBACK")}
    <3>1. final[t] \in {"COMMIT", "ROLLBACK"}
      BY <2>1 DEF IInv, Used
    <3> QED BY <3>1 DEF Entries, Commands, Ask
  <2>5. Queries(t, q, Len(q)) /\ q \in Seq(Entries)
    BY <1>0, <2>1, <2>3 DEF CInv, Serves
  <2> HIDE DEF q, e
  <2>6. pending'[c] = Append(q, e)
    BY <1>0, <2>1, <2>3, SMT
  <2>7. /\ Len(pending'[c]) = Len(q) + 1 /\ Len(q) \in Nat
        /\ pending'[c][Len(q) + 1] = e /\ \A i \in 1..Len(q) : pending'[c][i] = q[i]
    BY <2>4, <2>5, <2>6, QueueMoves, SMT
  <2>8. Serves(t, c)'
    <3>1. Len(pending'[c]) > 0 /\ Len(pending'[c]) - 1 = Len(q)
      BY <2>7, SMT
    <3>2. Queries(t, pending'[c], Len(pending'[c]) - 1)
      BY <2>5, <2>7, <3>1 DEF Queries
    <3>3. pending'[c][Len(pending'[c])] \in {Ask(t, "COMMIT"), Ask(t, "ROLLBACK")}
      BY <2>4, <2>7
    <3>4. caller'[t] = "ending"
      BY <1>0, <2>1
    <3> QED BY <3>1, <3>2, <3>3, <3>4 DEF Serves
  <2>9. Tasked(t)'
    BY <1>0, <1>1, <1>2, <2>1, SMT DEF Tasked
  <2>10. /\ \A u \in Transactions \ {t} : caller'[u] = caller[u]
         /\ \A d \in Connections \ {c} : pending'[d] = pending[d]
         /\ lease[t] = c
    BY <1>0, <2>1, <2>3, SMT
  <2> QED BY <1>1, <2>1, <2>3, <2>8, <2>9, <2>10, Local, SMT
<1>8. CASE CompletePhase(t)
  <2>1. /\ UNCHANGED <<lease, pending>> /\ caller' = [caller EXCEPT ![t] = "releasing"] /\ caller[t] = "ended"
        /\ phase' = [phase EXCEPT ![t] = "completed"]
    BY <1>8 DEF CompletePhase, Goes
  <2>2. ASSUME NEW c \in Connections, lease[t] = c PROVE Serves(t, c)'
    <3>1. pending[c] = <<>> /\ Blank(c)
      BY <2>1, <2>2 DEF CInv, Serves
    <3> QED BY <1>0, <1>1, <2>1, <3>1, SMT DEF Serves, Blank
  <2>3. Tasked(t)'
    BY <1>0, <1>1, <1>2, <2>1, SMT DEF Tasked
  <2>4. \A u \in Transactions \ {t} : caller'[u] = caller[u] /\ phase'[u] = phase[u]
    BY <1>0, <2>1
  <2> QED BY <1>1, <2>1, <2>2, <2>3, <2>4, Aside, SMT
<1> QED BY <1>3, <1>4, <1>5, <1>6, <1>7, <1>8, SMT DEF Acquire, Release

(* The steps of using and ending a transaction preserve the invariant. *)
LEMMA UseClean ==
    ASSUME IInv, IInv', CInv, NEW t \in Transactions, Use(t) \/ End(t)
    PROVE  CInv'
<1> USE PoolAssumption
<1>0. /\ caller \in [Transactions -> Places] /\ phase \in [Transactions -> Phases]
      /\ lease \in [Transactions -> Connections \cup {None}]
      /\ pending \in [Connections -> Seq(Entries)]
      /\ ServerTyped
  BY DEF IInv, Typed, CInv
<1>1. UNCHANGED <<open, aborted, lease>>
  BY DEF Use, End, Query, StartTask, Commit, Rollback, Drop, server, state
<1>2. Tasked(t)
  BY DEF CInv
<1>3. CASE Query(t)
  <2>1. /\ UNCHANGED <<pending, caller, phase>> /\ phase[t] = "active"
        /\ task' = [task EXCEPT ![t] = "cold"] /\ bound' = [bound EXCEPT ![t] = lease[t]]
    BY <1>3 DEF Query, state
  <2>2. caller[t] = "using"
    BY <2>1 DEF IInv, Used
  <2>3. ServerTyped'
    BY <1>0, <1>1, <2>1 DEF ServerTyped
  <2>4. ASSUME NEW c \in Connections, lease[t] = c PROVE Serves(t, c)'
    BY <1>1, <2>1, <2>4 DEF CInv, Serves, Blank
  <2>5. Tasked(t)'
    BY <1>0, <1>1, <2>1, <2>2 DEF Tasked, ServerTyped
  <2>6. \A u \in Transactions \ {t} : task'[u] = task[u] /\ bound'[u] = bound[u]
    BY <1>0, <2>1 DEF ServerTyped
  <2> QED BY <1>1, <2>1, <2>3, <2>4, <2>5, <2>6, Aside, SMT
<1>4. CASE StartTask(t)
  <2>1. caller[t] = "using" /\ phase[t] = "active" /\ task[t] = "cold" /\ bound[t] = lease[t]
    BY <1>2, <1>4 DEF StartTask, IInv, Used, Tasked
  <2>2. PICK c \in Connections : lease[t] = c /\ \A u \in Transactions \ {t} : lease[u] # c
    <3>1. lease[t] # None
      BY <2>1 DEF IInv, Held, Holding
    <3> QED BY <3>1, Exclusive
  <2> DEFINE q == pending[c]
             e == [of |-> t, command |-> "query"]
  <2>3. /\ pending' = [pending EXCEPT ![c] = Append(q, e)]
        /\ task' = [task EXCEPT ![t] = "started"]
        /\ UNCHANGED <<caller, phase, bound>>
    BY <1>4, <2>1, <2>2 DEF StartTask, Enqueue, state
  <2>4. e \in Entries /\ e = Ask(t, "query")
    BY DEF Entries, Commands, Ask
  <2>5. Queries(t, q, Len(q)) /\ q \in Seq(Entries)
    BY <1>0, <2>1, <2>2 DEF CInv, Serves
  <2> HIDE DEF q, e
  <2>6. pending'[c] = Append(q, e)
    BY <1>0, <2>3
  <2>7. /\ Len(pending'[c]) = Len(q) + 1 /\ Len(q) \in Nat
        /\ pending'[c][Len(q) + 1] = e /\ \A i \in 1..Len(q) : pending'[c][i] = q[i]
    BY <2>4, <2>5, <2>6, QueueMoves, SMT
  <2>8. Serves(t, c)'
    <3>1. \A i \in 1..(Len(q) + 1) : i \in 1..Len(q) \/ i = Len(q) + 1
      BY <2>7, SMT
    <3>2. Queries(t, pending'[c], Len(pending'[c]))
      BY <2>4, <2>5, <2>7, <3>1 DEF Queries
    <3>3. caller'[t] = "using"
      BY <2>1, <2>3
    <3> QED BY <3>2, <3>3 DEF Serves
  <2>9. ServerTyped'
    BY <1>0, <1>1, <2>3 DEF ServerTyped
  <2>10. Tasked(t)'
    BY <1>0, <2>1, <2>3 DEF Tasked, ServerTyped
  <2>11. /\ \A u \in Transactions \ {t} : task'[u] = task[u]
         /\ \A d \in Connections \ {c} : pending'[d] = pending[d]
    BY <1>0, <2>3 DEF ServerTyped
  <2> QED BY <1>1, <2>2, <2>3, <2>8, <2>9, <2>10, <2>11, Local, SMT
<1>5. CASE End(t)
  <2>1. UNCHANGED <<pending, task, bound>>
    BY <1>5 DEF End, Commit, Rollback, Drop, query
  <2>2. \/ UNCHANGED <<caller, phase>>
        \/ /\ phase[t] = "active"
           /\ phase' = [phase EXCEPT ![t] = "finalizing"]
           /\ caller' = [caller EXCEPT ![t] = "finishing"]
    BY <1>5 DEF End, Commit, Rollback, Drop, BeginFinalize, Goes
  <2>3. ServerTyped'
    BY <1>0, <1>1, <2>1 DEF ServerTyped
  <2>4. ASSUME NEW c \in Connections, lease[t] = c PROVE Serves(t, c)'
    <3>1. Serves(t, c)
      BY <2>4 DEF CInv
    <3>2. CASE UNCHANGED <<caller, phase>>
      BY <1>1, <2>1, <3>1, <3>2, SMT DEF Serves, Blank
    <3>3. CASE phase[t] = "active" /\ caller' = [caller EXCEPT ![t] = "finishing"]
      <4>1. caller[t] = "using" /\ caller'[t] = "finishing"
        BY <1>0, <3>3 DEF IInv, Used
      <4> QED BY <2>1, <3>1, <4>1 DEF Serves
    <3> QED BY <2>2, <3>2, <3>3
  <2>5. Tasked(t)'
    BY <1>0, <1>1, <1>2, <2>1, <2>2, SMT DEF Tasked
  <2>6. \A u \in Transactions \ {t} : caller'[u] = caller[u] /\ phase'[u] = phase[u]
    BY <1>0, <2>2
  <2> QED BY <1>1, <2>1, <2>3, <2>4, <2>5, <2>6, Aside, SMT
<1> QED BY <1>3, <1>4, <1>5 DEF Use

(* The server's steps preserve the invariant. *)
LEMMA ServeClean ==
    ASSUME IInv, IInv', CInv, NEW c \in Connections, NEW t \in Transactions, Serve(c, t)
    PROVE  CInv'
<1> USE PoolAssumption
<1>0. /\ caller \in [Transactions -> Places] /\ phase \in [Transactions -> Phases]
      /\ lease \in [Transactions -> Connections \cup {None}]
      /\ pending \in [Connections -> Seq(Entries)]
      /\ ServerTyped
  BY DEF IInv, Typed, CInv
<1>1. UNCHANGED <<lease, phase, bound>>
  BY DEF Serve, ServerBegins, ServerQueries, ServerEnds, state, query
<1>2. PICK command \in Commands : Runs(c, t, command)
  BY DEF Serve, ServerBegins, ServerQueries, ServerEnds, Commands
<1>3. lease[t] = c /\ Serves(t, c)
  BY <1>2, HeadOwner
<1>4. \A u \in Transactions \ {t} : lease[u] # c
  BY <1>3, Exclusive
<1> DEFINE q == pending[c]
<1>5. /\ pending' = [pending EXCEPT ![c] = Tail(q)] /\ q # <<>> /\ q \in Seq(Entries)
      /\ pending'[c] = Tail(q)
      /\ \A d \in Connections \ {c} : pending'[d] = pending[d]
  BY <1>0, <1>2 DEF Runs
<1>6. /\ Len(q) \in Nat /\ Len(q) > 0 /\ Len(Tail(q)) = Len(q) - 1
      /\ \A i \in 1..(Len(q) - 1) : Tail(q)[i] = q[i + 1]
      /\ Len(q) = 1 => Tail(q) = <<>>
  BY <1>5, QueueMoves
<1>7. Tasked(t)
  BY DEF CInv
<1>8. CASE ServerBegins(c, t)
  <2>1. /\ caller[t] = "beginning" /\ UNCHANGED <<task, aborted>>
        /\ \/ /\ caller' = [caller EXCEPT ![t] = "begun"]
              /\ open' = [open EXCEPT ![c] = IF @ = None THEN t ELSE @]
           \/ caller' = [caller EXCEPT ![t] = "begin_failed"] /\ UNCHANGED open
    BY <1>8, HeadOwner DEF ServerBegins, Goes, query
  <2>2. q = <<Ask(t, "BEGIN")>> /\ Blank(c)
    BY <1>3, <2>1 DEF Serves
  <2>3. pending'[c] = <<>>
    <3>1. Len(q) = 1
      BY <2>2, SMT
    <3> QED BY <1>5, <1>6, <3>1, ZenonT(30)
  <2> HIDE DEF q
  <2>4. ServerTyped'
    <3>1. CASE UNCHANGED open
      BY <1>0, <1>1, <2>1, <3>1, SMT DEF ServerTyped
    <3>2. CASE open' = [open EXCEPT ![c] = IF @ = None THEN t ELSE @]
      <4>1. open \in [Connections -> Transactions \cup {None}]
        BY <1>0 DEF ServerTyped
      <4>2. open' \in [Connections -> Transactions \cup {None}]
        BY <3>2, <4>1
      <4> QED BY <1>0, <1>1, <2>1, <4>2, SMT DEF ServerTyped
    <3> QED BY <2>1, <3>1, <3>2, SMT
  <2>5. Serves(t, c)'
    BY <1>0, <2>1, <2>2, <2>3, SMT DEF Serves, Blank
  <2>6. Tasked(t)'
    <3>1. task[t] = "none"
      BY <1>7, <2>1 DEF Tasked
    <3> QED BY <2>1, <3>1 DEF Tasked
  <2>7. /\ \A u \in Transactions \ {t} : caller'[u] = caller[u]
        /\ \A d \in Connections \ {c} : open'[d] = open[d]
    BY <1>0, <2>1 DEF ServerTyped
  <2> QED BY <1>1, <1>3, <1>4, <1>5, <2>1, <2>4, <2>5, <2>6, <2>7, Local, SMT
<1>9. CASE ServerQueries(c, t)
  <2>1. /\ UNCHANGED <<caller, open>> /\ task' = [task EXCEPT ![t] = "ended"]
        /\ UNCHANGED aborted \/ aborted' = [aborted EXCEPT ![c] = (open[c] # None)]
        /\ caller[t] \in {"using", "finishing", "ending"}
    BY <1>9, HeadOwner DEF ServerQueries
  <2>2. q[1] = Ask(t, "query")
    BY <1>5, <1>9, SMT DEF ServerQueries, Runs, Ask
  <2>3. ServerTyped'
    BY <1>0, <1>1, <2>1 DEF ServerTyped
  <2> HIDE DEF q
  <2>4. ASSUME NEW n \in Nat, n < Len(q), Queries(t, q, n + 1) PROVE Queries(t, Tail(q), n)
    <3> SUFFICES ASSUME NEW i \in 1..n PROVE Tail(q)[i] = Ask(t, "query")
      BY DEF Queries
    <3>1. i \in 1..(Len(q) - 1) /\ i + 1 \in 1..(n + 1)
      BY <1>6, <2>4, SMT
    <3> QED BY <1>6, <2>4, <3>1 DEF Queries
  <2>5. Serves(t, c)'
    <3>1. CASE caller[t] \in {"using", "finishing"}
      <4>1. Queries(t, q, Len(q)) /\ Len(q) - 1 \in Nat /\ Len(q) - 1 < Len(q) /\ (Len(q) - 1) + 1 = Len(q)
        BY <1>3, <1>6, <3>1, SMT DEF Serves, q
      <4>2. Queries(t, Tail(q), Len(q) - 1)
        BY <2>4, <4>1
      <4> QED BY <1>5, <1>6, <2>1, <3>1, <4>2, ZenonT(30) DEF Serves
    <3>2. CASE caller[t] = "ending"
      <4>1. Queries(t, q, Len(q) - 1) /\ q[Len(q)] \in {Ask(t, "COMMIT"), Ask(t, "ROLLBACK")}
        BY <1>3, <3>2 DEF Serves, q
      <4>2. Len(q) # 1
        BY <2>2, <4>1, SMT DEF Ask
      <4>3. Len(q) - 2 \in Nat /\ Len(q) - 2 < Len(q) /\ (Len(q) - 2) + 1 = Len(q) - 1
        <5>1. \A n \in Nat : n > 0 /\ n # 1 => n - 2 \in Nat /\ n - 2 < n /\ (n - 2) + 1 = n - 1
          BY SMT
        <5> QED BY <1>6, <4>2, <5>1, ZenonT(30)
      <4>4. Queries(t, Tail(q), Len(q) - 2)
        BY <2>4, <4>1, <4>3, SMT
      <4>5. Tail(q)[Len(q) - 1] = q[Len(q)]
        BY <1>6, <4>3, SMT
      <4>6. Len(Tail(q)) > 0 /\ Len(Tail(q)) - 1 = Len(q) - 2
        BY <1>6, <4>3, SMT
      <4> QED BY <1>5, <1>6, <2>1, <3>2, <4>1, <4>4, <4>5, <4>6 DEF Serves
    <3> QED BY <2>1, <3>1, <3>2
  <2>6. Tasked(t)'
    BY <1>0, <1>1, <2>1 DEF Tasked, ServerTyped
  <2>7. /\ \A u \in Transactions \ {t} : task'[u] = task[u]
        /\ \A d \in Connections \ {c} : aborted'[d] = aborted[d]
    BY <1>0, <2>1 DEF ServerTyped
  <2> QED BY <1>1, <1>3, <1>4, <1>5, <2>1, <2>3, <2>5, <2>6, <2>7, Local, SMT
<1>10. CASE ServerEnds(c, t)
  <2>1. /\ caller' = [caller EXCEPT ![t] = "ended"] /\ UNCHANGED task
        /\ open' = [open EXCEPT ![c] = None] /\ aborted' = [aborted EXCEPT ![c] = FALSE]
    BY <1>10 DEF ServerEnds, Goes, query
  <2>2. caller[t] = "ending" /\ Len(q) = 1
    BY <1>10, HeadOwner DEF ServerEnds
  <2>3. pending'[c] = <<>>
    BY <1>5, <1>6, <2>2
  <2> HIDE DEF q
  <2>4. ServerTyped'
    BY <1>0, <1>1, <2>1 DEF ServerTyped
  <2>5. Serves(t, c)'
    BY <1>0, <2>1, <2>3 DEF Serves, Blank, ServerTyped
  <2>6. Tasked(t)'
    BY <1>0, <1>1, <1>7, <2>1 DEF Tasked
  <2>7. /\ \A u \in Transactions \ {t} : caller'[u] = caller[u]
        /\ \A d \in Connections \ {c} : open'[d] = open[d] /\ aborted'[d] = aborted[d]
    BY <1>0, <2>1 DEF ServerTyped
  <2> QED BY <1>1, <1>3, <1>4, <1>5, <2>1, <2>4, <2>5, <2>6, <2>7, Local, ZenonT(30)
<1> QED BY <1>8, <1>9, <1>10 DEF Serve

(* Every step preserves the invariant. *)
LEMMA CleanStep == IInv /\ IInv' /\ CInv /\ [Next]_vars => CInv'
<1> SUFFICES ASSUME IInv, IInv', CInv, [Next]_vars PROVE CInv'
  OBVIOUS
<1>1. CASE Startup \/ DrainBegins \/ UNCHANGED vars
  <2>1. UNCHANGED <<caller, phase, lease, task, bound, pending, open, aborted>>
    BY <1>1 DEF Startup, StartBegins, StartFails, StartPublishes, ConnectionEstablished, DrainBegins,
       vars, state, query, server
  <2> QED BY <2>1, SMT DEF CInv, ServerTyped, Serves, Blank, Queries, Rests, Tasked
<1> QED BY <1>1, LeaseClean, UseClean, ServeClean DEF Next

(* What is enqueued on a leased connection follows its holder. *)
LEMMA CleanTheorem == Spec => []CInv
<1>1. Init => CInv
  BY PoolAssumption, SMT DEF Init, CInv, ServerTyped, Serves, Blank, Rests, Tasked
<1> QED BY <1>1, CleanStep, LeaseTheorem, PTL DEF Spec

(* A connection comes back to the pool with nothing enqueued and no open or
   failed transaction, on every path of transaction(), commit(), rollback() and
   the destructor, for any number of connections and callers. *)
THEOREM LeasesReturnClean == Spec => []LeaseReturnedClean
<1>1. IInv /\ CInv => LeaseReturnedClean
  <2> SUFFICES ASSUME IInv, CInv, NEW c \in Range(available)
               PROVE  open[c] = None /\ ~aborted[c] /\ pending[c] = <<>>
    BY DEF LeaseReturnedClean
  <2>1. c \in Connections
    BY SMT DEF IInv, Typed, Range
  <2>2. \A t \in Transactions : lease[t] # c
    BY <2>1, Exclusive, PoolAssumption
  <2> QED BY <2>1, <2>2 DEF CInv, Rests, Blank
<1> QED BY <1>1, CleanTheorem, LeaseTheorem, PTL

-----------------------------------------------------------------------------
(* No lease is stranded.                                                   *)

(* While its caller uses a transaction the object is there to be dropped. *)
Owned ==
    /\ object \in [Transactions -> BOOLEAN]
    /\ \A t \in Transactions : caller[t] = "using" => object[t] /\ phase[t] = "active"

(* The command that t awaits is on the way: only queries of t are before it on
   the connection of t. *)
Answered(t, commands) ==
    LET q == pending[lease[t]]
    IN  \E n \in 1..Len(q) :
          /\ q[n] \in {Ask(t, command) : command \in commands}
          /\ Queries(t, q, n - 1)

(* Whoever has a lease has still to give it back, and waits only for the
   server, on whose connection nothing of another transaction is before it; and
   a caller of transaction() finds none available only while each one is held. *)
LeasesComeBack ==
    /\ \A t \in Transactions : lease[t] # None =>
         \/ caller[t] \in {"begun", "begin_failed", "finishing", "ended", "releasing"}
         \/ caller[t] = "using" /\ object[t] /\ phase[t] = "active"
         \/ caller[t] = "beginning" /\ Answered(t, {"BEGIN"})
         \/ caller[t] = "ending" /\ Answered(t, {"COMMIT", "ROLLBACK"})
    /\ \A t \in Transactions : caller[t] = "waiting" /\ available = <<>> =>
         \A c \in Connections : \E u \in Transactions : lease[u] = c

(* Only the destructor ends an object, and it ends its use as well. *)
LEMMA OwnedStep == IInv /\ Owned /\ [Next]_vars => Owned'
<1> SUFFICES ASSUME IInv, Owned, [Next]_vars PROVE Owned'
  OBVIOUS
<1>t. /\ caller \in [Transactions -> Places] /\ phase \in [Transactions -> Phases]
      /\ object \in [Transactions -> BOOLEAN]
  BY DEF IInv, Typed, Owned
<1>1. ASSUME NEW t \in Transactions, BeginSucceeds(t) PROVE Owned'
  BY <1>t, <1>1, SMT DEF BeginSucceeds, Goes, Owned
<1>2. ASSUME NEW t \in Transactions, Drop(t) PROVE Owned'
  <2>1. CASE phase[t] = "active"
    BY <1>t, <1>2, <2>1, SMT DEF Drop, BeginFinalize, Goes, Owned
  <2>2. CASE phase[t] # "active"
    BY <1>t, <1>2, <2>2, SMT DEF Drop, Owned
  <2> QED BY <2>1, <2>2
<1>3. ASSUME NEW t \in Transactions, NEW place \in Places \ {"using"},
             \/ Goes(t, place) /\ \A u \in Transactions \ {t} : phase'[u] = phase[u]
             \/ UNCHANGED <<caller, phase>>,
             UNCHANGED object
      PROVE  Owned'
  BY <1>t, <1>3, SMT DEF Goes, Owned
<1>4. CASE Startup \/ DrainBegins \/ UNCHANGED vars
  <2>1. UNCHANGED <<caller, phase, object>>
    BY <1>4 DEF Startup, StartBegins, StartFails, StartPublishes, ConnectionEstablished,
       DrainBegins, vars, state
  <2> QED BY <2>1 DEF Owned
<1>5. ASSUME NEW t \in Transactions,
             RequestTransaction(t) \/ TakeLease(t) \/ BeginFails(t) \/ Use(t) \/ Commit(t) \/ Rollback(t)
               \/ Release(t) \/ \E c \in Connections : Serve(c, t)
      PROVE  Owned'
  <2>1. UNCHANGED object
    BY <1>5 DEF RequestTransaction, TakeLease, BeginFails, Use, Query, StartTask, Commit, Rollback,
       Release, FinalizeStarts, CompletePhase, ReleaseLease, Serve, ServerBegins, ServerQueries,
       ServerEnds, state
  <2>2. CASE RequestTransaction(t)
    BY <1>3, <2>1, <2>2 DEF RequestTransaction, Places, state
  <2>3. CASE TakeLease(t) \/ BeginFails(t)
    BY <1>3, <2>1, <2>3 DEF TakeLease, BeginFails, Places
  <2>4. CASE Use(t)
    BY <2>4 DEF Use, Query, StartTask, state, Owned
  <2>5. CASE Commit(t) \/ Rollback(t)
    <3>1. \A u \in Transactions \ {t} : phase'[u] = phase[u]
      BY <1>t, <2>5 DEF Commit, Rollback, BeginFinalize
    <3> QED BY <1>3, <2>1, <2>5, <3>1 DEF Commit, Rollback, BeginFinalize, Places
  <2>6. CASE Release(t)
    <3>1. \A u \in Transactions \ {t} : phase'[u] = phase[u]
      BY <1>t, <2>6 DEF Release, FinalizeStarts, CompletePhase, ReleaseLease, state
    <3> QED BY <1>3, <2>1, <2>6, <3>1 DEF Release, FinalizeStarts, CompletePhase, ReleaseLease, Places
  <2>7. CASE \E c \in Connections : Serve(c, t)
    BY <1>3, <2>1, <2>7 DEF Serve, ServerBegins, ServerQueries, ServerEnds, Places, state
  <2> QED BY <1>5, <2>2, <2>3, <2>4, <2>5, <2>6, <2>7
<1> QED BY <1>1, <1>2, <1>4, <1>5 DEF Next, Acquire, End

(* On no path of transaction(), commit(), rollback() and the destructor does a
   lease end up with nobody who will return it, for any number of connections
   and callers: the part of WaiterServed that no scheduling can make up for
   (DBPool.cpp, DBTransaction.cpp). *)
THEOREM NoLeaseIsStranded == Spec => []LeasesComeBack
<1>1. Init => Owned
  BY DEF Init, Owned
<1>2. ASSUME IInv, CInv, Owned PROVE LeasesComeBack
  <2>1. ASSUME NEW t \in Transactions, lease[t] # None, caller[t] = "beginning"
        PROVE  Answered(t, {"BEGIN"})
    <3>1. lease[t] \in Connections /\ pending[lease[t]] = <<Ask(t, "BEGIN")>>
      BY <1>2, <2>1 DEF IInv, Typed, CInv, Serves
    <3> QED BY <3>1, SMT DEF Answered, Queries
  <2>2. ASSUME NEW t \in Transactions, lease[t] # None, caller[t] = "ending"
        PROVE  Answered(t, {"COMMIT", "ROLLBACK"})
    <3> DEFINE q == pending[lease[t]]
    <3>1. lease[t] \in Connections
      BY <1>2, <2>2 DEF IInv, Typed
    <3>2. /\ Len(q) > 0
          /\ Queries(t, q, Len(q) - 1)
          /\ q[Len(q)] \in {Ask(t, "COMMIT"), Ask(t, "ROLLBACK")}
      BY <1>2, <2>2, <3>1 DEF CInv, Serves
    <3>3. q \in Seq(Entries)
      BY <1>2, <3>1 DEF IInv, Typed
    <3>4. Len(q) \in 1..Len(q)
      BY <3>2, <3>3, SMT
    <3>5. q[Len(q)] \in {Ask(t, command) : command \in {"COMMIT", "ROLLBACK"}}
      BY <3>2
    <3> QED BY <3>2, <3>4, <3>5 DEF Answered
  <2>3. ASSUME NEW t \in Transactions, lease[t] # None
        PROVE  caller[t] \in Holding
    BY <1>2, <2>3 DEF IInv, Held
  <2>4. ASSUME NEW t \in Transactions, caller[t] = "waiting", available = <<>>,
               NEW c \in Connections
        PROVE  \E u \in Transactions : lease[u] = c
    <3>1. connected = Connections /\ pool # "starting"
      BY <1>2, <2>4 DEF IInv, Waiting
    <3>2. Range(available) \cup Leased = Connections
      BY <1>2, <3>1 DEF IInv, LeaseConserved
    <3>3. Range(available) = {}
      BY <2>4, SMT DEF Range
    <3> QED BY <3>2, <3>3 DEF Leased
  <2> QED BY <1>2, <2>1, <2>2, <2>3, <2>4 DEF LeasesComeBack, Holding, Owned
<1> QED BY <1>1, <1>2, OwnedStep, CleanTheorem, LeaseTheorem, PTL DEF Spec
=============================================================================
