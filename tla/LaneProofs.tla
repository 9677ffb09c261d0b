----------------------------- MODULE LaneProofs -----------------------------
(* The lanes of a host, for every finite or infinite set of exchanges and any
   number of lanes, places and redirects: an exchange is answered once, the
   places of a lane are counted, and a cancellation reaches the transfer. *)
EXTENDS Lane, FiniteSetTheorems, TLAPS

(* Steps are for Zenon; those with arithmetic, records or sequences name SMT. *)
USE Zenon


Places == {"unsent", "new", "checked", "found", "queued", "posted", "active", "answered"}
Tasks == [task : {"start", "cancel"}, of : Exchanges] \cup {Shutdown}

(* The part of the state the argument is about. *)
Typed ==
    /\ at \in [Exchanges -> Places]
    /\ lane \in [Exchanges -> 0..MaxLanes]
    /\ via \in [Exchanges -> 0..MaxLanes]
    /\ answers \in [Exchanges -> Nat]
    /\ canceller \in [Exchanges -> {"idle", "marked", "listed", "done"}]
    /\ aim \in [Exchanges -> 0..MaxLanes]
    /\ current \in 0..MaxLanes /\ made \in 0..MaxLanes
    /\ shutting \subseteq Lanes
    /\ queue \in [Lanes -> Seq(Exchanges)]
    /\ posts \in [Lanes -> Seq(Tasks)]
    /\ active \in [Lanes -> SUBSET Exchanges]

(* What dispatch() and cancel() hold on to is a lane, and there is room for
   another one while the pool may make it. *)
Aimed ==
    /\ current = 0 /\ pool = "running" => made < MaxLanes
    /\ \A x \in Exchanges : at[x] = "found" => lane[x] # 0
    /\ \A x \in Exchanges : canceller[x] = "listed" => aim[x] # 0

(* An exchange that a queue, a posted start or a shard has, is where its place
   says, and nobody else has it. *)
InQueue ==
    \A l \in Lanes : \A i \in 1..Len(queue[l]) :
        /\ at[queue[l][i]] = "queued"
        /\ \A m \in Lanes : \A j \in 1..Len(queue[m]) :
               queue[l][i] = queue[m][j] => l = m /\ i = j

InPosts ==
    \A l \in Lanes : \A i \in Starting(l) :
        /\ at[posts[l][i].of] = "posted"
        /\ \A m \in Lanes : \A j \in Starting(m) :
               posts[l][i].of = posts[m][j].of => l = m /\ i = j

InShard ==
    \A l \in Lanes : \A x \in active[l] :
        at[x] = "active" /\ \A m \in Lanes : x \in active[m] => l = m

Located == InQueue /\ InPosts /\ InShard
IInv == Typed /\ Aimed /\ Located /\ AnsweredOnce

-----------------------------------------------------------------------------
(* Sequences as they grow and shrink. *)
LEMMA Grows ==
    ASSUME NEW S, NEW q \in Seq(S), NEW e \in S
    PROVE  /\ Append(q, e) \in Seq(S) /\ Len(q) \in Nat
           /\ Len(Append(q, e)) = Len(q) + 1 /\ Append(q, e)[Len(q) + 1] = e
           /\ \A i \in 1..Len(q) : Append(q, e)[i] = q[i]
BY SMT

(* The head leaves. *)
LEMMA Shrinks ==
    ASSUME NEW S, NEW q \in Seq(S), q # <<>>
    PROVE  /\ Tail(q) \in Seq(S) /\ Len(q) \in Nat /\ Len(q) > 0
           /\ Head(q) = q[1] /\ q[1] \in S
           /\ Len(Tail(q)) = Len(q) - 1
           /\ \A i \in 1..(Len(q) - 1) : Tail(q)[i] = q[i + 1]
BY SMT

(* The first n leave. *)
LEMMA Splits ==
    ASSUME NEW S, NEW q \in Seq(S), NEW n \in Nat, n <= Len(q)
    PROVE  /\ Len(q) \in Nat
           /\ SubSeq(q, 1, n) \in Seq(S) /\ Len(SubSeq(q, 1, n)) = n
           /\ \A i \in 1..n : SubSeq(q, 1, n)[i] = q[i]
           /\ SubSeq(q, n + 1, Len(q)) \in Seq(S)
           /\ Len(SubSeq(q, n + 1, Len(q))) = Len(q) - n
           /\ \A i \in 1..(Len(q) - n) : SubSeq(q, n + 1, Len(q))[i] = q[n + i]
<1>1. Len(q) \in Nat /\ \A i \in 1..Len(q) : q[i] \in S
  BY SMT
<1>2. \A i \in 1..n : i \in 1..Len(q)
  BY <1>1, SMT
<1>3. \A i \in 1..(Len(q) - n) : n + i \in 1..Len(q)
  BY <1>1, SMT
<1>4. SubSeq(q, 1, n) = [i \in 1..n |-> q[i]]
  BY <1>1, SMT
<1>5. SubSeq(q, n + 1, Len(q)) = [i \in 1..(Len(q) - n) |-> q[n + i]]
  BY <1>1, SMT
<1>6. SubSeq(q, 1, n) \in Seq(S) /\ Len(SubSeq(q, 1, n)) = n
  BY <1>1, <1>2, <1>4, SMT
<1>7. Len(q) - n \in Nat
  BY <1>1, SMT
<1>8. SubSeq(q, n + 1, Len(q)) \in Seq(S) /\ Len(SubSeq(q, n + 1, Len(q))) = Len(q) - n
  BY <1>1, <1>3, <1>5, <1>7, SMT
<1> QED BY <1>1, <1>4, <1>5, <1>6, <1>8

(* One follows the other. *)
LEMMA Joins ==
    ASSUME NEW S, NEW a \in Seq(S), NEW b \in Seq(S)
    PROVE  /\ a \o b \in Seq(S) /\ Len(a) \in Nat /\ Len(b) \in Nat
           /\ Len(a \o b) = Len(a) + Len(b)
           /\ \A j \in 1..Len(a) : (a \o b)[j] = a[j]
           /\ \A j \in 1..Len(b) : (a \o b)[Len(a) + j] = b[j]
<1>1. /\ a \o b \in Seq(S) /\ Len(a) \in Nat /\ Len(b) \in Nat
      /\ Len(a \o b) = Len(a) + Len(b)
  BY SMT
<1>2. ASSUME NEW j \in 1..Len(a) PROVE (a \o b)[j] = a[j]
  BY <1>1, SMT
<1>3. ASSUME NEW j \in 1..Len(b) PROVE (a \o b)[Len(a) + j] = b[j]
  BY <1>1, SMT
<1> QED BY <1>1, <1>2, <1>3

(* One leaves, wherever it is. *)
LEMMA Leaves ==
    ASSUME NEW S, NEW q \in Seq(S), NEW x, NEW k \in 1..Len(q), q[k] = x,
           \A j \in 1..Len(q) : q[j] = x => j = k
    PROVE  /\ Without(q, x) \in Seq(S) /\ Len(q) \in Nat
           /\ Len(Without(q, x)) = Len(q) - 1
           /\ \A j \in 1..(Len(q) - 1) :
                Without(q, x)[j] = q[IF j < k THEN j ELSE j + 1]
<1>1. Len(q) \in Nat /\ Len(q) - 1 \in Nat /\ \A j \in 1..Len(q) : q[j] \in S
  BY SMT
<1>2. (CHOOSE i \in 1..Len(q) : q[i] = x) = k
  OBVIOUS
<1>3. Without(q, x) = [j \in 1..(Len(q) - 1) |-> q[IF j < k THEN j ELSE j + 1]]
  BY <1>2 DEF Without
<1>4. \A j \in 1..(Len(q) - 1) : (IF j < k THEN j ELSE j + 1) \in 1..Len(q)
  BY <1>1, SMT
<1> QED BY <1>1, <1>3, <1>4, SMT

-----------------------------------------------------------------------------
(* The queues of the lanes. *)

(* What is queued is an exchange. *)
LEMMA QueueNames ==
    ASSUME Typed, NEW l \in Lanes
    PROVE  /\ Len(queue[l]) \in Nat /\ Range(queue[l]) = {queue[l][i] : i \in 1..Len(queue[l])}
           /\ \A i \in 1..Len(queue[l]) : queue[l][i] \in Exchanges
<1>1. PICK q \in Seq(Exchanges) : q = queue[l]
  BY DEF Typed
<1>2. DOMAIN q = 1..Len(q) /\ Len(q) \in Nat /\ \A i \in 1..Len(q) : q[i] \in Exchanges
  BY SMT
<1> QED BY <1>1, <1>2 DEF Range

(* Nothing queued moves. *)
LEMMA QueueStays ==
    ASSUME Typed, InQueue, queue' = queue,
           \A x \in Exchanges : at[x] = "queued" => at'[x] = "queued"
    PROVE  InQueue'
<1>1. \A l \in Lanes : \A i \in 1..Len(queue[l]) : queue[l][i] \in Exchanges
  BY SMT DEF Typed
<1> QED BY <1>1, SMT DEF InQueue

(* Something joins the end of a queue. *)
LEMMA QueueGrows ==
    ASSUME Typed, InQueue, NEW l \in Lanes, NEW x \in Exchanges, at[x] # "queued",
           queue' = [queue EXCEPT ![l] = Append(@, x)],
           at' = [at EXCEPT ![x] = "queued"]
    PROVE  InQueue' /\ queue' \in [Lanes -> Seq(Exchanges)]
<1>1. queue \in [Lanes -> Seq(Exchanges)] /\ at \in [Exchanges -> Places]
  BY DEF Typed
<1>2. PICK q \in Seq(Exchanges) : q = queue[l]
  BY <1>1
<1>3. queue'[l] = Append(q, x) /\ \A m \in Lanes \ {l} : queue'[m] = queue[m]
  BY <1>1, <1>2
<1>4. /\ Append(q, x) \in Seq(Exchanges) /\ Len(q) \in Nat
      /\ Len(Append(q, x)) = Len(q) + 1 /\ Append(q, x)[Len(q) + 1] = x
      /\ \A i \in 1..Len(q) : Append(q, x)[i] = q[i]
  BY Grows, SMT
<1>5. \A m \in Lanes : \A i \in 1..Len(queue[m]) :
         queue[m][i] \in Exchanges /\ queue[m][i] # x /\ at'[queue[m][i]] = "queued"
  BY <1>1, SMT DEF InQueue
<1>6. at'[x] = "queued"
  BY <1>1
<1>7. \A m \in Lanes : \A i \in 1..Len(queue'[m]) :
         \/ i \in 1..Len(queue[m]) /\ queue'[m][i] = queue[m][i]
         \/ m = l /\ i = Len(q) + 1 /\ queue'[m][i] = x
  <2> TAKE m \in Lanes
  <2> TAKE i \in 1..Len(queue'[m])
  <2>1. CASE m = l
    <3>1. i \in 1..Len(q) \/ i = Len(q) + 1
      BY <1>3, <1>4, <2>1, SMT
    <3> QED BY <1>2, <1>3, <1>4, <2>1, <3>1, SMT
  <2>2. CASE m # l
    BY <1>3, <2>2
  <2> QED BY <2>1, <2>2
<1>8. InQueue'
  <2> SUFFICES ASSUME NEW m \in Lanes, NEW i \in 1..Len(queue'[m]),
                      NEW k \in Lanes, NEW j \in 1..Len(queue'[k])
               PROVE  /\ at'[queue'[m][i]] = "queued"
                      /\ queue'[m][i] = queue'[k][j] => m = k /\ i = j
    BY SMT DEF InQueue
  <2> QED BY <1>5, <1>6, <1>7, SMT DEF InQueue
<1>9. queue' \in [Lanes -> Seq(Exchanges)]
  BY <1>1, <1>2, <1>4
<1> QED BY <1>8, <1>9

(* Something leaves a queue, and the rest keeps its order. *)
LEMMA QueueShrinks ==
    ASSUME Typed, InQueue, NEW l \in Lanes, NEW f,
           \A m \in Lanes \ {l} : queue'[m] = queue[m],
           \A i \in 1..Len(queue'[l]) :
               f[i] \in 1..Len(queue[l]) /\ queue'[l][i] = queue[l][f[i]],
           \A i, j \in 1..Len(queue'[l]) : f[i] = f[j] => i = j,
           \A m \in Lanes : \A i \in 1..Len(queue'[m]) : at'[queue'[m][i]] = "queued"
    PROVE  InQueue'
<1> SUFFICES ASSUME NEW m \in Lanes, NEW i \in 1..Len(queue'[m]),
                    NEW k \in Lanes, NEW j \in 1..Len(queue'[k]),
                    queue'[m][i] = queue'[k][j]
             PROVE  m = k /\ i = j
  BY SMT DEF InQueue
<1>1. CASE m = l /\ k = l
  <2>1. /\ f[i] \in 1..Len(queue[l]) /\ queue[l][f[i]] = queue'[l][i]
        /\ f[j] \in 1..Len(queue[l]) /\ queue[l][f[j]] = queue'[l][j]
    BY <1>1
  <2>2. f[i] = f[j]
    BY <1>1, <2>1, SMT DEF InQueue
  <2> QED BY <1>1, <2>2
<1>2. CASE m # l /\ k # l
  BY <1>2, SMT DEF InQueue
<1>3. CASE m = l /\ k # l
  <2>1. f[i] \in 1..Len(queue[l]) /\ j \in 1..Len(queue[k]) /\ queue[l][f[i]] = queue[k][j]
    BY <1>3
  <2> QED BY <1>3, <2>1, SMT DEF InQueue
<1>4. CASE m # l /\ k = l
  <2>1. f[j] \in 1..Len(queue[l]) /\ i \in 1..Len(queue[m]) /\ queue[l][f[j]] = queue[m][i]
    BY <1>4
  <2> QED BY <1>4, <2>1, SMT DEF InQueue
<1> QED BY <1>1, <1>2, <1>3, <1>4

-----------------------------------------------------------------------------
(* The tasks of the shards' threads. *)

(* A task that is a start names its exchange. *)
LEMMA StartNames ==
    ASSUME Typed, NEW l \in Lanes, NEW i \in Starting(l)
    PROVE  i \in 1..Len(posts[l]) /\ posts[l][i].of \in Exchanges /\ posts[l][i].task = "start"
<1>1. i \in 1..Len(posts[l]) /\ posts[l][i] \in Tasks /\ posts[l][i].task = "start"
  BY SMT DEF Typed, Starting
<1>2. posts[l][i] # Shutdown
  BY <1>1, SMT DEF Shutdown
<1> QED BY <1>1, <1>2 DEF Tasks

(* No start is posted or run. *)
LEMMA PostsStay ==
    ASSUME Typed, InPosts, posts' = posts,
           \A x \in Exchanges : at[x] = "posted" => at'[x] = "posted"
    PROVE  InPosts'
<1>1. \A l \in Lanes : \A i \in Starting(l) : posts[l][i].of \in Exchanges
  BY StartNames
<1>2. \A l \in Lanes : Starting(l)' = Starting(l)
  BY DEF Starting
<1> QED BY <1>1, <1>2, SMT DEF InPosts

(* The starts that are left are ones that were there before. *)
LEMMA PostsShrink ==
    ASSUME Typed, InPosts, NEW l \in Lanes, NEW f,
           \A m \in Lanes \ {l} : posts'[m] = posts[m],
           \A i \in Starting(l)' :
               f[i] \in Starting(l) /\ posts'[l][i] = posts[l][f[i]],
           \A i, j \in Starting(l)' : f[i] = f[j] => i = j,
           \A m \in Lanes : \A i \in Starting(m)' : at'[posts'[m][i].of] = "posted"
    PROVE  InPosts'
<1>1. \A m \in Lanes \ {l} : Starting(m)' = Starting(m)
  BY SMT DEF Starting
<1> SUFFICES ASSUME NEW m \in Lanes, NEW i \in Starting(m)',
                    NEW k \in Lanes, NEW j \in Starting(k)',
                    posts'[m][i].of = posts'[k][j].of
             PROVE  m = k /\ i = j
  BY SMT DEF InPosts
<1>2. CASE m = l /\ k = l
  <2>1. f[i] \in Starting(l) /\ f[j] \in Starting(l) /\ posts[l][f[i]].of = posts[l][f[j]].of
    BY <1>2
  <2>2. f[i] = f[j]
    BY <2>1, SMT DEF InPosts
  <2> QED BY <1>2, <2>2
<1>3. CASE m # l /\ k # l
  BY <1>1, <1>3, SMT DEF InPosts
<1>4. CASE m = l /\ k # l
  <2>1. f[i] \in Starting(l) /\ j \in Starting(k) /\ posts[l][f[i]].of = posts[k][j].of
    BY <1>1, <1>4, SMT
  <2> QED BY <1>4, <2>1, SMT DEF InPosts
<1>5. CASE m # l /\ k = l
  <2>1. f[j] \in Starting(l) /\ i \in Starting(m) /\ posts[l][f[j]].of = posts[m][i].of
    BY <1>1, <1>5, SMT
  <2> QED BY <1>5, <2>1, SMT DEF InPosts
<1> QED BY <1>2, <1>3, <1>4, <1>5

(* A task that is no start is posted. *)
LEMMA PostOther ==
    ASSUME Typed, InPosts, NEW l \in Lanes, NEW e \in Tasks, e.task # "start",
           posts'[l] = Append(posts[l], e), \A m \in Lanes \ {l} : posts'[m] = posts[m],
           \A x \in Exchanges : at[x] = "posted" => at'[x] = "posted"
    PROVE  InPosts' /\ Starting(l)' = Starting(l)
<1>1. PICK q \in Seq(Tasks) : q = posts[l]
  BY DEF Typed
<1>2. /\ Len(q) \in Nat
      /\ Len(Append(q, e)) = Len(q) + 1 /\ Append(q, e)[Len(q) + 1] = e
      /\ \A i \in 1..Len(q) : Append(q, e)[i] = q[i]
  BY Grows, SMT
<1>3. Starting(l)' = Starting(l)
  <2>1. \A i \in 1..(Len(q) + 1) : i \in 1..Len(q) \/ i = Len(q) + 1
    BY <1>2, SMT
  <2> QED BY <1>1, <1>2, <2>1, SMT DEF Starting
<1>4. \A i \in Starting(l) : posts'[l][i] = posts[l][i]
  BY <1>1, <1>2 DEF Starting
<1>5. PICK f : f = [i \in Starting(l) |-> i]
  OBVIOUS
<1>6. \A i \in Starting(l)' : /\ f[i] = i /\ f[i] \in Starting(l)
                              /\ posts'[l][i] = posts[l][f[i]]
  BY <1>3, <1>4, <1>5
<1>7. ASSUME NEW m \in Lanes, NEW i \in Starting(m)' PROVE at'[posts'[m][i].of] = "posted"
  <2>1. i \in Starting(m) /\ posts'[m][i] = posts[m][i]
    BY <1>3, <1>4, <1>7 DEF Starting
  <2>2. at[posts[m][i].of] = "posted" /\ posts[m][i].of \in Exchanges
    BY <2>1, StartNames DEF InPosts
  <2> QED BY <2>1, <2>2
<1>8. /\ \A i \in Starting(l)' : f[i] \in Starting(l) /\ posts'[l][i] = posts[l][f[i]]
      /\ \A i, j \in Starting(l)' : f[i] = f[j] => i = j
  <2>1. \A i \in Starting(l)' : f[i] \in Starting(l) /\ posts'[l][i] = posts[l][f[i]]
    BY <1>6
  <2>2. \A i, j \in Starting(l)' : f[i] = f[j] => i = j
    BY <1>6, SMT
  <2> QED BY <2>1, <2>2
<1>9. InPosts'
  BY <1>7, <1>8, PostsShrink
<1> QED BY <1>3, <1>9

StartsFirst(l, x) == posts[l][1].task = "start" /\ posts[l][1].of = x

(* The thread of a shard takes its first task. *)
LEMMA PostTaken ==
    ASSUME Typed, InPosts, NEW l \in Lanes, posts[l] # <<>>,
           posts'[l] = Tail(posts[l]), \A m \in Lanes \ {l} : posts'[m] = posts[m],
           \A x \in Exchanges :
               at[x] = "posted" => (at'[x] = "posted" \/ StartsFirst(l, x))
    PROVE  InPosts'
<1>1. PICK q \in Seq(Tasks) : q = posts[l]
  BY DEF Typed
<1>2. /\ Len(q) \in Nat /\ Len(q) > 0
      /\ Len(Tail(q)) = Len(q) - 1
      /\ \A i \in 1..(Len(q) - 1) : Tail(q)[i] = q[i + 1]
  BY <1>1, Shrinks
<1>3. PICK f : f = [i \in 1..(Len(q) - 1) |-> i + 1]
  OBVIOUS
<1>4. ASSUME NEW i \in Starting(l)'
      PROVE  /\ i \in 1..(Len(q) - 1) /\ f[i] = i + 1 /\ f[i] # 1
             /\ f[i] \in Starting(l) /\ posts'[l][i] = posts[l][f[i]]
  <2>1. i \in 1..(Len(q) - 1) /\ posts'[l][i] = Tail(q)[i] /\ Tail(q)[i].task = "start"
    BY <1>1, <1>2, <1>4 DEF Starting
  <2>2. f[i] = i + 1 /\ i + 1 # 1 /\ i + 1 \in 1..Len(q) /\ Tail(q)[i] = q[i + 1]
    BY <1>2, <1>3, <2>1, SMT
  <2> QED BY <1>1, <2>1, <2>2 DEF Starting
<1>5. \A i, j \in Starting(l)' : f[i] = f[j] => i = j
  BY <1>4, SMT
<1>6. ASSUME NEW m \in Lanes, NEW i \in Starting(m)' PROVE at'[posts'[m][i].of] = "posted"
  <2>1. PICK k \in Starting(m) : posts'[m][i] = posts[m][k] /\ (m = l => k # 1)
    <3>1. CASE m = l
      BY <1>4, <1>6, <3>1
    <3>2. CASE m # l
      BY <1>6, <3>2 DEF Starting
    <3> QED BY <3>1, <3>2
  <2>2. at[posts[m][k].of] = "posted" /\ posts[m][k].of \in Exchanges
    BY StartNames DEF InPosts
  <2>3. ~StartsFirst(l, posts[m][k].of)
    <3>1. posts[l][1].task = "start" => 1 \in Starting(l)
      BY <1>1, <1>2, SMT DEF Starting
    <3> QED BY <2>1, <3>1, SMT DEF InPosts, StartsFirst
  <2> QED BY <2>1, <2>2, <2>3
<1>7. \A i \in Starting(l)' : f[i] \in Starting(l) /\ posts'[l][i] = posts[l][f[i]]
  BY <1>4
<1> QED BY <1>5, <1>6, <1>7, PostsShrink

(* pump() posts a start for each exchange it takes from the queue. *)
LEMMA PostStarts ==
    ASSUME Typed, InPosts, NEW l \in Lanes, NEW s \in Seq(Exchanges),
           posts'[l] = posts[l] \o [i \in 1..Len(s) |-> Post("start", s[i])],
           \A m \in Lanes \ {l} : posts'[m] = posts[m],
           \A i \in 1..Len(s) : at[s[i]] # "posted" /\ at'[s[i]] = "posted",
           \A i, j \in 1..Len(s) : s[i] = s[j] => i = j,
           \A x \in Exchanges : at[x] = "posted" => at'[x] = "posted"
    PROVE  /\ InPosts' /\ posts'[l] \in Seq(Tasks)
           /\ Starting(l)' = Starting(l) \cup ((Len(posts[l]) + 1)..(Len(posts[l]) + Len(s)))
<1>1. PICK q \in Seq(Tasks) : q = posts[l]
  BY DEF Typed
<1>2. PICK b : b = [i \in 1..Len(s) |-> Post("start", s[i])]
  OBVIOUS
<1>3. /\ Len(s) \in Nat /\ b \in Seq(Tasks) /\ Len(b) = Len(s)
      /\ \A i \in 1..Len(s) : s[i] \in Exchanges /\ b[i].task = "start" /\ b[i].of = s[i]
  <2>1. Len(s) \in Nat /\ \A i \in 1..Len(s) : s[i] \in Exchanges
    BY SMT
  <2>2. \A i \in 1..Len(s) : Post("start", s[i]) \in Tasks
    BY <2>1 DEF Post, Tasks
  <2>3. b \in Seq(Tasks) /\ Len(b) = Len(s)
    BY <1>2, <2>1, <2>2, SMT
  <2>4. \A i \in 1..Len(s) : b[i].task = "start" /\ b[i].of = s[i]
    BY <1>2 DEF Post
  <2> QED BY <2>1, <2>3, <2>4
<1>4. /\ q \o b \in Seq(Tasks) /\ Len(q) \in Nat /\ Len(q \o b) = Len(q) + Len(b)
      /\ \A i \in 1..Len(q) : (q \o b)[i] = q[i]
      /\ \A i \in 1..Len(b) : (q \o b)[Len(q) + i] = b[i]
  <2>1. b \in Seq(Tasks)
    BY <1>3
  <2>2. q \o b \in Seq(Tasks) /\ Len(q) \in Nat /\ Len(q \o b) = Len(q) + Len(b)
    BY <2>1, Joins, SMT
  <2>3. \A i \in 1..Len(q) : (q \o b)[i] = q[i]
    BY <2>1, Joins, SMT
  <2>4. \A i \in 1..Len(b) : (q \o b)[Len(q) + i] = b[i]
    BY <2>1, Joins, SMT
  <2> QED BY <2>2, <2>3, <2>4
<1>5. posts'[l] = q \o b
  BY <1>1, <1>2
<1>6. ASSUME NEW i \in 1..(Len(q) + Len(s))
      PROVE  i \in 1..Len(q) \/ (i > Len(q) /\ i - Len(q) \in 1..Len(s) /\ i = Len(q) + (i - Len(q)))
  BY <1>3, <1>4, SMT
<1>7. ASSUME NEW i \in Starting(l)'
      PROVE  \/ i \in Starting(l) /\ i <= Len(q) /\ posts'[l][i] = posts[l][i]
             \/ i > Len(q) /\ i - Len(q) \in 1..Len(s) /\ posts'[l][i].of = s[i - Len(q)]
  <2>1. i \in 1..(Len(q) + Len(s)) /\ posts'[l][i].task = "start"
    BY <1>3, <1>4, <1>5, <1>7 DEF Starting
  <2>2. CASE i \in 1..Len(q)
    BY <1>1, <1>4, <1>5, <2>1, <2>2, SMT DEF Starting
  <2>3. CASE i > Len(q) /\ i - Len(q) \in 1..Len(s) /\ i = Len(q) + (i - Len(q))
    <3>1. PICK k \in 1..Len(s) : k = i - Len(q) /\ i = Len(q) + k
      BY <2>3
    <3>2. (q \o b)[Len(q) + k] = b[k] /\ b[k].of = s[k]
      BY <1>3, <1>4
    <3>3. posts'[l][i].of = s[k]
      BY <1>5, <3>1, <3>2
    <3> QED BY <2>3, <3>1, <3>3
  <2> QED BY <1>6, <2>1, <2>2, <2>3
<1>8. Starting(l)' = Starting(l) \cup ((Len(q) + 1)..(Len(q) + Len(s)))
  <2>1. ASSUME NEW i \in Starting(l) PROVE i \in Starting(l)'
    <3>1. i \in 1..Len(q) /\ q[i].task = "start"
      BY <1>1, <2>1 DEF Starting
    <3>2. i \in 1..Len(q \o b) /\ (q \o b)[i] = q[i]
      BY <1>3, <1>4, <3>1, SMT
    <3> QED BY <1>5, <3>1, <3>2 DEF Starting
  <2>2. ASSUME NEW i \in (Len(q) + 1)..(Len(q) + Len(s)) PROVE i \in Starting(l)'
    <3>1. i \in 1..Len(q \o b) /\ i - Len(q) \in 1..Len(b) /\ i = Len(q) + (i - Len(q))
      BY <1>3, <1>4, SMT
    <3>2. (q \o b)[i].task = "start"
      BY <1>3, <1>4, <3>1, SMT
    <3> QED BY <1>5, <3>1, <3>2 DEF Starting
  <2>3. ASSUME NEW i \in Starting(l)'
        PROVE  i \in Starting(l) \cup ((Len(q) + 1)..(Len(q) + Len(s)))
    <3>1. i \in 1..(Len(q) + Len(s))
      BY <1>3, <1>4, <1>5, <2>3 DEF Starting
    <3>2. i > Len(q) => i \in (Len(q) + 1)..(Len(q) + Len(s))
      BY <1>3, <1>4, <3>1, SMT
    <3> QED BY <1>7, <2>3, <3>2
  <2> QED BY <2>1, <2>2, <2>3
<1>9. \A m \in Lanes \ {l} : Starting(m)' = Starting(m)
  BY DEF Starting
<1>10. \A m \in Lanes : \A i \in Starting(m)' :
          \/ /\ i \in Starting(m) /\ posts'[m][i] = posts[m][i] /\ (m = l => i <= Len(q))
             /\ at[posts[m][i].of] = "posted" /\ posts[m][i].of \in Exchanges
          \/ /\ m = l /\ i > Len(q) /\ i - Len(q) \in 1..Len(s)
             /\ posts'[m][i].of = s[i - Len(q)]
  <2> TAKE m \in Lanes
  <2> TAKE i \in Starting(m)'
  <2>1. CASE m = l
    BY <1>7, <2>1, StartNames, ZenonT(30) DEF InPosts
  <2>2. CASE m # l
    BY <1>9, <2>2, StartNames, SMT DEF InPosts
  <2> QED BY <2>1, <2>2
<1>11. InPosts'
  <2> SUFFICES ASSUME NEW m \in Lanes, NEW i \in Starting(m)',
                      NEW k \in Lanes, NEW j \in Starting(k)'
               PROVE  /\ at'[posts'[m][i].of] = "posted"
                      /\ posts'[m][i].of = posts'[k][j].of => m = k /\ i = j
    BY SMT DEF InPosts
  <2>1. at'[posts'[m][i].of] = "posted"
    BY <1>10, SMT
  <2>2. CASE i \in Starting(m) /\ posts'[m][i] = posts[m][i] /\ at[posts[m][i].of] = "posted"
    <3>1. CASE j \in Starting(k) /\ posts'[k][j] = posts[k][j]
      BY <2>1, <2>2, <3>1, SMT DEF InPosts
    <3>2. CASE k = l /\ j - Len(q) \in 1..Len(s) /\ posts'[k][j].of = s[j - Len(q)]
      BY <2>1, <2>2, <3>2, SMT
    <3> QED BY <1>10, <3>1, <3>2
  <2>3. CASE m = l /\ i > Len(q) /\ i - Len(q) \in 1..Len(s) /\ posts'[m][i].of = s[i - Len(q)]
    <3>1. CASE j \in Starting(k) /\ posts'[k][j] = posts[k][j] /\ at[posts[k][j].of] = "posted"
      BY <2>1, <2>3, <3>1, SMT
    <3>2. CASE k = l /\ j > Len(q) /\ j - Len(q) \in 1..Len(s) /\ posts'[k][j].of = s[j - Len(q)]
      <4>1. i \in Nat /\ j \in Nat
        BY <1>4, <2>3, <3>2, SMT DEF Starting
      <4>2. s[i - Len(q)] = s[j - Len(q)] => i - Len(q) = j - Len(q)
        BY <2>3, <3>2
      <4> QED BY <1>4, <2>1, <2>3, <3>2, <4>1, <4>2, SMT
    <3> QED BY <1>10, <3>1, <3>2, SMT
  <2> QED BY <1>10, <2>1, <2>2, <2>3, SMT
<1> QED BY <1>1, <1>4, <1>5, <1>8, <1>11

-----------------------------------------------------------------------------
(* The transfers of the shards. *)

(* A shard's transfers are ones it had, or one that no shard had. *)
LEMMA ShardMoves ==
    ASSUME Typed, InShard, NEW l \in Lanes,
           \A m \in Lanes : \A x \in active'[m] :
               at'[x] = "active" /\ (x \in active[m] \/ (m = l /\ at[x] # "active"))
    PROVE  InShard'
BY SMT DEF InShard

(* No transfer begins or ends. *)
LEMMA ShardStays ==
    ASSUME Typed, InShard, active' = active,
           \A x \in Exchanges : at[x] = "active" => at'[x] = "active"
    PROVE  InShard'
<1>1. \A l \in Lanes : \A x \in active[l] : x \in Exchanges
  BY DEF Typed
<1> QED BY <1>1 DEF InShard

(* A step that no queue, no shard and no thread's task takes part in. *)
LEMMA Elsewhere ==
    ASSUME Typed, Located, UNCHANGED <<queue, posts, active>>,
           \A x \in Exchanges :
               at[x] \in {"queued", "posted", "active"} => at'[x] = at[x]
    PROVE  Located'
<1>1. InQueue'
  BY QueueStays DEF Located
<1>2. InPosts'
  BY PostsStay DEF Located
<1>3. InShard'
  BY ShardStays DEF Located
<1> QED BY <1>1, <1>2, <1>3 DEF Located

(* Callbacks are called of exchanges that are not answered yet. *)
LEMMA Answers ==
    ASSUME Typed, Aimed, AnsweredOnce, NEW S \in SUBSET Exchanges, Answer(S),
           \A x \in S : at[x] # "answered"
    PROVE  /\ AnsweredOnce'
           /\ at' \in [Exchanges -> Places] /\ answers' \in [Exchanges -> Nat]
           /\ lane' \in [Exchanges -> 0..MaxLanes] /\ via' \in [Exchanges -> 0..MaxLanes]
           /\ \A x \in Exchanges :
                IF x \in S THEN at'[x] = "answered" ELSE at'[x] = at[x] /\ lane'[x] = lane[x]
           /\ \A x \in Exchanges : at'[x] = "found" => lane'[x] # 0
<1>1. MaxLanes \in Nat
  BY LaneAssumption
<1>2. /\ at' \in [Exchanges -> Places] /\ answers' \in [Exchanges -> Nat]
      /\ lane' \in [Exchanges -> 0..MaxLanes] /\ via' \in [Exchanges -> 0..MaxLanes]
  BY <1>1, SMT DEF Typed, Answer, Places
<1>3. \A x \in Exchanges :
         /\ at'[x] = IF x \in S THEN "answered" ELSE at[x]
         /\ answers'[x] = answers[x] + (IF x \in S THEN 1 ELSE 0)
         /\ lane'[x] = IF x \in S THEN 0 ELSE lane[x]
  BY DEF Answer
<1>4. AnsweredOnce'
  <2> SUFFICES ASSUME NEW x \in Exchanges
               PROVE  answers'[x] = IF at'[x] = "answered" THEN 1 ELSE 0
    BY DEF AnsweredOnce
  <2>1. answers[x] = IF at[x] = "answered" THEN 1 ELSE 0
    BY DEF AnsweredOnce
  <2>2. CASE x \in S
    BY <1>3, <2>1, <2>2, SMT
  <2>3. CASE x \notin S
    BY <1>3, <2>1, <2>3, SMT
  <2> QED BY <2>2, <2>3
<1> QED BY <1>2, <1>3, <1>4 DEF Aimed

-----------------------------------------------------------------------------
(* What a step has to show when it leaves the pool and the cancellers alone. *)
LEMMA Kept ==
    ASSUME IInv, UNCHANGED <<canceller, aim, current, made, shutting, pool>>,
           at' \in [Exchanges -> Places], answers' \in [Exchanges -> Nat],
           lane' \in [Exchanges -> 0..MaxLanes], via' \in [Exchanges -> 0..MaxLanes],
           queue' \in [Lanes -> Seq(Exchanges)], posts' \in [Lanes -> Seq(Tasks)],
           active' \in [Lanes -> SUBSET Exchanges],
           \A x \in Exchanges : at'[x] = "found" => lane'[x] # 0,
           Located', AnsweredOnce'
    PROVE  IInv'
<1>1. Typed'
  BY DEF IInv, Typed
<1>2. Aimed'
  BY DEF IInv, Aimed
<1> QED BY <1>1, <1>2 DEF IInv

(* An exchange moves, and no callback is called. *)
LEMMA Moves ==
    ASSUME Typed, Aimed, AnsweredOnce, NEW x \in Exchanges, NEW p \in Places,
           at[x] # "answered", p # "answered", p # "found", MoveTo(x, p)
    PROVE  /\ AnsweredOnce'
           /\ at' \in [Exchanges -> Places] /\ answers' \in [Exchanges -> Nat]
           /\ lane' \in [Exchanges -> 0..MaxLanes] /\ via' \in [Exchanges -> 0..MaxLanes]
           /\ at'[x] = p /\ \A y \in Exchanges \ {x} : at'[y] = at[y]
           /\ \A y \in Exchanges : at'[y] = "found" => lane'[y] # 0
<1>1. at' = [at EXCEPT ![x] = p] /\ UNCHANGED <<lane, via, answers>>
  BY DEF MoveTo
<1>2. at' \in [Exchanges -> Places] /\ at'[x] = p /\ \A y \in Exchanges \ {x} : at'[y] = at[y]
  BY <1>1 DEF Typed
<1>3. AnsweredOnce'
  BY <1>1, <1>2 DEF AnsweredOnce
<1> QED BY <1>1, <1>2, <1>3 DEF Typed, Aimed

(* Send and dispatch(), up to the lane. *)
LEMMA DispatchStep ==
    ASSUME IInv, NEW x \in Exchanges, Send(x) \/ CheckFlag(x) \/ LaneFor(x)
    PROVE  IInv'
<1>0. Typed /\ Aimed /\ Located /\ AnsweredOnce /\ UNCHANGED <<queue, posts, active>>
  BY DEF IInv, Send, CheckFlag, LaneFor, shard
<1>1. /\ queue' \in [Lanes -> Seq(Exchanges)] /\ posts' \in [Lanes -> Seq(Tasks)]
      /\ active' \in [Lanes -> SUBSET Exchanges]
  BY <1>0 DEF Typed
<1>2. at[x] \in {"unsent", "new", "checked"}
  BY DEF Send, CheckFlag, LaneFor
<1>3. CASE Answer({x}) /\ UNCHANGED <<canceller, aim, current, made, shutting, pool>>
  <2>1. /\ AnsweredOnce'
        /\ at' \in [Exchanges -> Places] /\ answers' \in [Exchanges -> Nat]
        /\ lane' \in [Exchanges -> 0..MaxLanes] /\ via' \in [Exchanges -> 0..MaxLanes]
        /\ \A y \in Exchanges \ {x} : at'[y] = at[y]
        /\ \A y \in Exchanges : at'[y] = "found" => lane'[y] # 0
    <3>1. {x} \in SUBSET Exchanges /\ \A y \in {x} : at[y] # "answered"
      BY <1>2
    <3> QED BY <1>0, <1>3, <3>1, Answers
  <2>2. Located'
    BY <1>0, <1>2, <2>1, Elsewhere
  <2> QED BY <1>1, <1>3, <2>1, <2>2, Kept
<1>4. CASE /\ MoveTo(x, "new") \/ MoveTo(x, "checked")
           /\ UNCHANGED <<canceller, aim, current, made, shutting, pool>>
  <2>1. PICK p \in {"new", "checked"} : MoveTo(x, p)
    BY <1>4
  <2>2. /\ AnsweredOnce'
        /\ at' \in [Exchanges -> Places] /\ answers' \in [Exchanges -> Nat]
        /\ lane' \in [Exchanges -> 0..MaxLanes] /\ via' \in [Exchanges -> 0..MaxLanes]
        /\ \A y \in Exchanges \ {x} : at'[y] = at[y]
        /\ \A y \in Exchanges : at'[y] = "found" => lane'[y] # 0
    <3>1. p \in Places /\ at[x] # "answered" /\ p # "answered" /\ p # "found"
      BY <1>2 DEF Places
    <3> QED BY <1>0, <2>1, <3>1, Moves
  <2>3. Located'
    BY <1>0, <1>2, <2>2, Elsewhere
  <2> QED BY <1>1, <1>4, <2>2, <2>3, Kept
<1>5. CASE /\ pool = "running" /\ UNCHANGED <<canceller, aim, shutting, pool, via, answers>>
           /\ current' = IF current = 0 THEN made + 1 ELSE current
           /\ made' = IF current = 0 THEN made + 1 ELSE made
           /\ at' = [at EXCEPT ![x] = "found"] /\ lane' = [lane EXCEPT ![x] = current']
  <2>1. current' \in 1..MaxLanes /\ made' \in 0..MaxLanes /\ current' # 0
    BY <1>0, <1>5, LaneAssumption, SMT DEF Typed, Aimed
  <2>2. /\ at' \in [Exchanges -> Places] /\ lane' \in [Exchanges -> 0..MaxLanes]
        /\ at'[x] = "found" /\ lane'[x] # 0
        /\ \A y \in Exchanges \ {x} : at'[y] = at[y] /\ lane'[y] = lane[y]
    <3>1. at \in [Exchanges -> Places] /\ lane \in [Exchanges -> 0..MaxLanes]
      BY <1>0 DEF Typed
    <3>2. current' \in 0..MaxLanes /\ "found" \in Places
      BY <2>1, LaneAssumption, SMT DEF Places
    <3> QED BY <1>5, <2>1, <3>1, <3>2
  <2>3. Located'
    BY <1>0, <1>2, <2>2, Elsewhere
  <2>4. AnsweredOnce'
    BY <1>0, <1>2, <1>5, <2>2 DEF AnsweredOnce
  <2>5. Typed'
    BY <1>0, <1>1, <1>5, <2>1, <2>2, LaneAssumption DEF Typed
  <2>6. Aimed'
    BY <1>0, <1>5, <2>1, <2>2 DEF Aimed
  <2> QED BY <2>3, <2>4, <2>5, <2>6 DEF IInv
<1>6. CASE Send(x)
  BY <1>4, <1>6 DEF Send, cancel
<1>7. CASE CheckFlag(x)
  BY <1>3, <1>4, <1>7 DEF CheckFlag, cancel
<1>8. CASE LaneFor(x)
  BY <1>3, <1>5, <1>8 DEF LaneFor, cancel
<1> QED BY <1>6, <1>7, <1>8

(* A sequence of a lane is replaced. *)
LEMMA PostsReplaced ==
    ASSUME Typed, NEW l \in Lanes, NEW q \in Seq(Tasks), posts' = [posts EXCEPT ![l] = q]
    PROVE  /\ posts' \in [Lanes -> Seq(Tasks)] /\ posts'[l] = q
           /\ \A m \in Lanes \ {l} : posts'[m] = posts[m]
BY DEF Typed

(* The queue of one lane is replaced. *)
LEMMA QueueReplaced ==
    ASSUME Typed, NEW l \in Lanes, NEW q \in Seq(Exchanges), queue' = [queue EXCEPT ![l] = q]
    PROVE  /\ queue' \in [Lanes -> Seq(Exchanges)] /\ queue'[l] = q
           /\ \A m \in Lanes \ {l} : queue'[m] = queue[m]
BY DEF Typed

(* Lane::submit. *)
LEMMA SubmitStep ==
    ASSUME IInv, NEW x \in Exchanges, Submit(x)
    PROVE  IInv'
<1>0. Typed /\ Aimed /\ Located /\ AnsweredOnce /\ InQueue /\ InPosts /\ InShard
  BY DEF IInv, Located
<1>1. /\ UNCHANGED <<posts, active, canceller, aim, current, made, shutting, pool>>
      /\ at[x] = "found"
  BY DEF Submit, shard, cancel
<1>2. /\ posts' \in [Lanes -> Seq(Tasks)] /\ active' \in [Lanes -> SUBSET Exchanges]
  BY <1>0, <1>1 DEF Typed
<1>3. CASE Answer({x}) /\ UNCHANGED queue
  <2>1. /\ AnsweredOnce'
        /\ at' \in [Exchanges -> Places] /\ answers' \in [Exchanges -> Nat]
        /\ lane' \in [Exchanges -> 0..MaxLanes] /\ via' \in [Exchanges -> 0..MaxLanes]
        /\ \A y \in Exchanges \ {x} : at'[y] = at[y]
        /\ \A y \in Exchanges : at'[y] = "found" => lane'[y] # 0
    <3>1. {x} \in SUBSET Exchanges /\ \A y \in {x} : at[y] # "answered"
      BY <1>1
    <3> QED BY <1>0, <1>3, <3>1, Answers
  <2>2. Located'
    BY <1>0, <1>1, <1>3, <2>1, Elsewhere
  <2>3. queue' \in [Lanes -> Seq(Exchanges)]
    BY <1>0, <1>3 DEF Typed
  <2> QED BY <1>1, <1>2, <2>1, <2>2, <2>3, Kept
<1>4. CASE /\ queue' = [queue EXCEPT ![lane[x]] = Append(@, x)]
           /\ at' = [at EXCEPT ![x] = "queued"]
           /\ lane' = [lane EXCEPT ![x] = 0] /\ via' = [via EXCEPT ![x] = 0]
           /\ UNCHANGED answers
  <2>1. PICK l \in Lanes : l = lane[x]
    BY <1>0, <1>1, LaneAssumption, SMT DEF Typed, Aimed, Lanes
  <2>2. InQueue' /\ queue' \in [Lanes -> Seq(Exchanges)]
    <3>1. queue' = [queue EXCEPT ![l] = Append(@, x)] /\ at' = [at EXCEPT ![x] = "queued"]
      BY <1>4, <2>1
    <3> QED BY <1>0, <1>1, <3>1, QueueGrows
  <2>3. /\ at' \in [Exchanges -> Places] /\ at'[x] = "queued"
        /\ lane' \in [Exchanges -> 0..MaxLanes] /\ via' \in [Exchanges -> 0..MaxLanes]
        /\ \A y \in Exchanges \ {x} : at'[y] = at[y] /\ lane'[y] = lane[y]
    <3>1. /\ at \in [Exchanges -> Places] /\ lane \in [Exchanges -> 0..MaxLanes]
          /\ via \in [Exchanges -> 0..MaxLanes]
      BY <1>0 DEF Typed
    <3>2. "queued" \in Places /\ 0 \in 0..MaxLanes
      BY LaneAssumption, SMT DEF Places
    <3> QED BY <1>4, <3>1, <3>2
  <2>4. InPosts'
    BY <1>0, <1>1, <2>3, PostsStay
  <2>5. InShard'
    BY <1>0, <1>1, <2>3, ShardStays
  <2>6. AnsweredOnce'
    BY <1>0, <1>1, <1>4, <2>3 DEF AnsweredOnce
  <2>7. \A y \in Exchanges : at'[y] = "found" => lane'[y] # 0
    BY <1>0, <2>3 DEF Aimed
  <2>8. answers' \in [Exchanges -> Nat]
    BY <1>0, <1>4 DEF Typed
  <2>9. Located'
    BY <2>2, <2>4, <2>5 DEF Located
  <2> QED BY <1>1, <1>2, <2>2, <2>3, <2>6, <2>7, <2>8, <2>9, Kept
<1> QED BY <1>3, <1>4 DEF Submit

(* Lane::pump. *)
LEMMA PumpStep ==
    ASSUME IInv, NEW l \in Lanes, NEW n \in Nat, n <= Len(queue[l]), StartFirst(l, n),
           UNCHANGED <<lane, via, answers, canceller, aim, current, made, shutting, pool, active>>
    PROVE  IInv'
<1>0. Typed /\ Aimed /\ Located /\ AnsweredOnce /\ InQueue /\ InPosts /\ InShard
  BY DEF IInv, Located
<1>1. PICK q \in Seq(Exchanges) : q = queue[l]
  BY <1>0 DEF Typed
<1>2. PICK s \in Seq(Exchanges) :
         s = SubSeq(q, 1, n) /\ Len(s) = n /\ \A i \in 1..n : s[i] = q[i]
  <2>1. SubSeq(q, 1, n) \in Seq(Exchanges) /\ Len(SubSeq(q, 1, n)) = n
    BY <1>1, Splits, SMT
  <2>2. \A i \in 1..n : SubSeq(q, 1, n)[i] = q[i]
    BY <1>1, Splits, SMT
  <2> QED BY <2>1, <2>2
<1>3. PICK r \in Seq(Exchanges) :
         /\ r = SubSeq(q, n + 1, Len(q)) /\ Len(r) = Len(q) - n
         /\ \A i \in 1..(Len(q) - n) : r[i] = q[n + i]
  <2>1. SubSeq(q, n + 1, Len(q)) \in Seq(Exchanges) /\ Len(SubSeq(q, n + 1, Len(q))) = Len(q) - n
    BY <1>1, Splits, SMT
  <2>2. \A i \in 1..(Len(q) - n) : SubSeq(q, n + 1, Len(q))[i] = q[n + i]
    BY <1>1, Splits, SMT
  <2> QED BY <2>1, <2>2
<1>4. /\ queue' = [queue EXCEPT ![l] = r]
      /\ posts' = [posts EXCEPT ![l] = @ \o [i \in 1..Len(s) |-> Post("start", s[i])]]
      /\ at' = [x \in Exchanges |-> IF x \in Range(s) THEN "posted" ELSE at[x]]
  BY <1>1, <1>2, <1>3 DEF StartFirst
<1>5. queue' \in [Lanes -> Seq(Exchanges)] /\ queue'[l] = r /\ \A m \in Lanes \ {l} : queue'[m] = queue[m]
  BY <1>0, <1>4, QueueReplaced
<1>6. Len(q) \in Nat /\ Len(q) - n \in Nat
  <2>1. PICK k \in Nat : k = Len(q) /\ n <= k
    BY <1>1, SMT
  <2>2. k - n \in Nat
    BY <2>1, SMT
  <2> QED BY <2>1, <2>2
<1>7. \A x \in Exchanges : x \in Range(s) <=> \E i \in 1..n : x = q[i]
  <2>1. DOMAIN s = 1..n
    BY <1>2, SMT
  <2> QED BY <1>2, <2>1 DEF Range
<1>8. \A i \in 1..n : i \in 1..Len(q) /\ q[i] \in Exchanges /\ at[q[i]] = "queued" /\ at'[q[i]] = "posted"
  <2> TAKE i \in 1..n
  <2>1. i \in 1..Len(q)
    BY <1>1, <1>6, SMT
  <2>2. q[i] \in Exchanges /\ at[q[i]] = "queued"
    BY <1>0, <1>1, <2>1, SMT DEF InQueue
  <2>3. at'[q[i]] = "posted"
    BY <1>4, <1>7, <2>2
  <2> QED BY <2>1, <2>2, <2>3
<1>9. at' \in [Exchanges -> Places]
  BY <1>0, <1>4 DEF Typed, Places
<1>10. \A x \in Exchanges : at'[x] = at[x] \/ (at[x] = "queued" /\ at'[x] = "posted")
  BY <1>4, <1>7, <1>8, SMT
<1>11. InQueue'
  <2>1. PICK f : f = [i \in 1..(Len(q) - n) |-> n + i]
    OBVIOUS
  <2>2. \A i \in 1..Len(queue'[l]) :
           /\ i \in 1..(Len(q) - n) /\ f[i] = n + i /\ f[i] \in 1..Len(queue[l])
           /\ queue'[l][i] = queue[l][f[i]]
    <3>1. PICK k \in Nat : k = Len(q) /\ k - n \in Nat
      BY <1>6
    <3>2. queue'[l] = r /\ Len(queue'[l]) = k - n /\ queue[l] = q
      BY <1>1, <1>3, <1>5, <3>1
    <3>3. \A i \in 1..(k - n) : f[i] = n + i /\ r[i] = q[n + i]
      BY <1>3, <2>1, <3>1
    <3>4. \A i \in 1..(k - n) : n + i \in 1..k
      BY <3>1, SMT
    <3> QED BY <3>1, <3>2, <3>3, <3>4, SMT
  <2>3. \A i, j \in 1..Len(queue'[l]) : f[i] = f[j] => i = j
    BY <2>2, SMT
  <2>4. ASSUME NEW m \in Lanes, NEW i \in 1..Len(queue'[m])
        PROVE  at'[queue'[m][i]] = "queued"
    <3>1. PICK k \in 1..Len(queue[m]) : queue'[m][i] = queue[m][k] /\ (m = l => k > n)
      <4>1. CASE m = l
        <5>1. f[i] \in 1..Len(queue[m]) /\ queue'[m][i] = queue[m][f[i]] /\ f[i] > n
          BY <1>6, <2>2, <2>4, <4>1, SMT
        <5> QED BY <5>1
      <4>2. CASE m # l
        BY <1>5, <2>4, <4>2
      <4> QED BY <4>1, <4>2
    <3>2. queue[m][k] \in Exchanges /\ at[queue[m][k]] = "queued"
      BY <1>0, SMT DEF InQueue, Typed
    <3>3. \A j \in 1..n : queue[m][k] # q[j]
      <4> TAKE j \in 1..n
      <4>1. j \in 1..Len(queue[l]) /\ (m = l => j # k)
        BY <1>1, <1>8, <3>1, SMT
      <4> QED BY <1>0, <1>1, <3>1, <4>1, SMT DEF InQueue
    <3> QED BY <1>4, <1>7, <3>1, <3>2, <3>3
  <2>5. \A i \in 1..Len(queue'[l]) : f[i] \in 1..Len(queue[l]) /\ queue'[l][i] = queue[l][f[i]]
    BY <2>2
  <2> QED BY <1>0, <1>5, <2>3, <2>4, <2>5, QueueShrinks, SMTT(30)
<1>12. InPosts' /\ posts' \in [Lanes -> Seq(Tasks)]
  <2>1. posts \in [Lanes -> Seq(Tasks)]
    BY <1>0 DEF Typed
  <2>2. /\ posts'[l] = posts[l] \o [i \in 1..Len(s) |-> Post("start", s[i])]
        /\ \A m \in Lanes \ {l} : posts'[m] = posts[m]
        /\ DOMAIN posts' = Lanes
    BY <1>4, <2>1
  <2>3. \A i \in 1..Len(s) : at[s[i]] # "posted" /\ at'[s[i]] = "posted"
    BY <1>2, <1>8
  <2>4. \A i, j \in 1..Len(s) : s[i] = s[j] => i = j
    BY <1>0, <1>1, <1>2, <1>8, SMT DEF InQueue
  <2>5. \A x \in Exchanges : at[x] = "posted" => at'[x] = "posted"
    BY <1>10
  <2>6. InPosts' /\ posts'[l] \in Seq(Tasks)
    BY <1>0, <2>2, <2>3, <2>4, <2>5, PostStarts
  <2>7. posts' \in [Lanes -> Seq(Tasks)]
    <3>1. \A m \in Lanes : posts'[m] \in Seq(Tasks)
      BY <2>1, <2>2, <2>6
    <3>2. posts' = [m \in Lanes |-> posts'[m]]
      BY <1>4, <2>1
    <3> QED BY <3>1, <3>2
  <2> QED BY <2>6, <2>7
<1>13. InShard'
  BY <1>0, <1>10, ShardStays
<1>14. AnsweredOnce'
  BY <1>0, <1>10 DEF AnsweredOnce
<1>15. \A x \in Exchanges : at'[x] = "found" => lane'[x] # 0
  BY <1>0, <1>10 DEF Aimed
<1>16. /\ answers' \in [Exchanges -> Nat] /\ active' \in [Lanes -> SUBSET Exchanges]
       /\ lane' \in [Exchanges -> 0..MaxLanes] /\ via' \in [Exchanges -> 0..MaxLanes]
  BY <1>0 DEF Typed
<1>17. Located'
  BY <1>11, <1>12, <1>13 DEF Located
<1> QED BY <1>5, <1>9, <1>12, <1>14, <1>15, <1>16, <1>17, Kept

(* LaneShard::start. *)
LEMMA StartStep ==
    ASSUME IInv, NEW l \in Lanes, NEW x \in Exchanges, Start(l, x)
    PROVE  IInv'
<1>0. Typed /\ Aimed /\ Located /\ AnsweredOnce /\ InQueue /\ InPosts /\ InShard
  BY DEF IInv, Located
<1>1. /\ UNCHANGED <<queue, canceller, aim, current, made, shutting, pool>>
      /\ posts[l] # <<>> /\ posts' = [posts EXCEPT ![l] = Tail(@)]
      /\ Head(posts[l]).task = "start" /\ Head(posts[l]).of = x
  BY DEF Start, Runs, cancel
<1>2. PICK q \in Seq(Tasks) : q = posts[l]
  BY <1>0 DEF Typed
<1>3. Tail(q) \in Seq(Tasks) /\ Head(q) = q[1] /\ 1 \in 1..Len(q)
  BY <1>1, <1>2, SMT
<1>4. posts' \in [Lanes -> Seq(Tasks)] /\ posts'[l] = Tail(posts[l]) /\ \A m \in Lanes \ {l} : posts'[m] = posts[m]
  BY <1>0, <1>1, <1>2, <1>3, PostsReplaced
<1>5. posts[l][1].task = "start" /\ posts[l][1].of = x /\ at[x] = "posted"
  BY <1>0, <1>1, <1>2, <1>3, SMT DEF InPosts, Starting
<1>6. queue' \in [Lanes -> Seq(Exchanges)]
  BY <1>0, <1>1 DEF Typed
<1>7. CASE Answer({x}) /\ UNCHANGED active
  <2>1. /\ AnsweredOnce'
        /\ at' \in [Exchanges -> Places] /\ answers' \in [Exchanges -> Nat]
        /\ lane' \in [Exchanges -> 0..MaxLanes] /\ via' \in [Exchanges -> 0..MaxLanes]
        /\ \A y \in Exchanges \ {x} : at'[y] = at[y]
        /\ \A y \in Exchanges : at'[y] = "found" => lane'[y] # 0
    <3>1. {x} \in SUBSET Exchanges /\ \A y \in {x} : at[y] # "answered"
      BY <1>5
    <3> QED BY <1>0, <1>7, <3>1, Answers
  <2>2. InQueue'
    BY <1>0, <1>1, <1>5, <2>1, QueueStays
  <2>3. InPosts'
    <3>1. \A y \in Exchanges :
             at[y] = "posted" => (at'[y] = "posted" \/ StartsFirst(l, y))
      BY <1>5, <2>1 DEF StartsFirst
    <3>2. posts[l] # <<>>
      BY <1>1
    <3> QED BY <1>0, <1>4, <3>1, <3>2, PostTaken
  <2>4. InShard'
    BY <1>0, <1>5, <1>7, <2>1, ShardStays
  <2>5. active' \in [Lanes -> SUBSET Exchanges]
    BY <1>0, <1>7 DEF Typed
  <2>6. Located'
    BY <2>2, <2>3, <2>4 DEF Located
  <2> QED BY <1>1, <1>4, <1>6, <2>1, <2>5, <2>6, Kept
<1>8. CASE MoveTo(x, "active") /\ active' = [active EXCEPT ![l] = @ \cup {x}]
  <2>1. /\ AnsweredOnce'
        /\ at' \in [Exchanges -> Places] /\ answers' \in [Exchanges -> Nat]
        /\ lane' \in [Exchanges -> 0..MaxLanes] /\ via' \in [Exchanges -> 0..MaxLanes]
        /\ at'[x] = "active" /\ \A y \in Exchanges \ {x} : at'[y] = at[y]
        /\ \A y \in Exchanges : at'[y] = "found" => lane'[y] # 0
    <3>1. "active" \in Places /\ at[x] # "answered"
      BY <1>5 DEF Places
    <3> QED BY <1>0, <1>8, <3>1, Moves
  <2>2. InQueue'
    BY <1>0, <1>1, <1>5, <2>1, QueueStays
  <2>3. InPosts'
    <3>1. \A y \in Exchanges :
             at[y] = "posted" => (at'[y] = "posted" \/ StartsFirst(l, y))
      BY <1>5, <2>1 DEF StartsFirst
    <3>2. posts[l] # <<>>
      BY <1>1, SMT
    <3> QED BY <1>0, <1>4, <3>1, <3>2, PostTaken, SMT
  <2>4. active' \in [Lanes -> SUBSET Exchanges]
    BY <1>0, <1>8 DEF Typed
  <2>5. InShard'
    <3>1. \A m \in Lanes : \A y \in active'[m] : y \in active[m] \/ (m = l /\ y = x)
      BY <1>0, <1>8 DEF Typed
    <3>2. \A m \in Lanes : \A y \in active[m] : y \in Exchanges /\ at[y] = "active"
      BY <1>0 DEF InShard, Typed
    <3>3. \A m \in Lanes : \A y \in active'[m] :
             at'[y] = "active" /\ (y \in active[m] \/ (m = l /\ at[y] # "active"))
      BY <1>5, <2>1, <3>1, <3>2, SMT
    <3> QED BY <1>0, <3>3, ShardMoves
  <2>6. Located'
    BY <2>2, <2>3, <2>5, SMT DEF Located
  <2> QED BY <1>1, <1>4, <1>6, <2>1, <2>4, <2>6, Kept
<1> QED BY <1>7, <1>8 DEF Start

(* Transfers of a shard end, and their callbacks are called. *)
LEMMA Ended ==
    ASSUME IInv, NEW l \in Lanes, NEW S \in SUBSET active[l], Answer(S),
           active' = [active EXCEPT ![l] = @ \ S],
           UNCHANGED <<queue, canceller, aim, current, made, shutting, pool>>,
           posts' \in [Lanes -> Seq(Tasks)], posts'[l] = posts[l] \/ posts'[l] = Tail(posts[l]),
           posts'[l] # posts[l] => posts[l] # <<>>,
           \A m \in Lanes \ {l} : posts'[m] = posts[m]
    PROVE  IInv'
<1>0. Typed /\ Aimed /\ Located /\ AnsweredOnce /\ InQueue /\ InPosts /\ InShard
  BY DEF IInv, Located
<1>1. S \in SUBSET Exchanges /\ \A x \in S : at[x] = "active"
  BY <1>0 DEF Typed, InShard
<1>2. /\ AnsweredOnce'
      /\ at' \in [Exchanges -> Places] /\ answers' \in [Exchanges -> Nat]
      /\ lane' \in [Exchanges -> 0..MaxLanes] /\ via' \in [Exchanges -> 0..MaxLanes]
      /\ \A y \in Exchanges : IF y \in S THEN at'[y] = "answered" ELSE at'[y] = at[y]
      /\ \A y \in Exchanges : at'[y] = "found" => lane'[y] # 0
  BY <1>0, <1>1, Answers
<1>3. InQueue'
  BY <1>0, <1>1, <1>2, QueueStays
<1>4. InPosts'
  <2>1. \A x \in Exchanges : at[x] = "posted" => at'[x] = "posted"
    BY <1>1, <1>2
  <2>2. CASE posts'[l] = posts[l]
    <3>1. posts' = posts
      BY <1>0, <2>2, SMT DEF Typed
    <3> QED BY <1>0, <2>1, <3>1, PostsStay
  <2>3. CASE posts'[l] # posts[l]
    <3>1. \A y \in Exchanges :
             at[y] = "posted" => (at'[y] = "posted" \/ StartsFirst(l, y))
      BY <2>1
    <3> QED BY <1>0, <2>3, <3>1, PostTaken
  <2> QED BY <2>2, <2>3
<1>5. active' \in [Lanes -> SUBSET Exchanges] /\ queue' \in [Lanes -> Seq(Exchanges)]
  BY <1>0 DEF Typed
<1>6. InShard'
  <2>1. \A m \in Lanes : \A y \in active'[m] : y \in active[m] /\ (m = l => y \notin S)
    BY <1>0 DEF Typed
  <2>2. \A m \in Lanes : \A y \in active[m] :
           y \in Exchanges /\ at[y] = "active" /\ (y \in S => m = l)
    BY <1>0 DEF InShard, Typed
  <2>3. \A m \in Lanes : \A y \in active'[m] :
           at'[y] = "active" /\ (y \in active[m] \/ (m = l /\ at[y] # "active"))
    BY <1>2, <2>1, <2>2
  <2> QED BY <1>0, <2>3, ShardMoves
<1>7. Located'
  BY <1>3, <1>4, <1>6 DEF Located
<1> QED BY <1>2, <1>5, <1>7, Kept

(* finish(), cancel() and shutdown() of a shard. *)
LEMMA ShardStep ==
    ASSUME IInv, NEW l \in Lanes, NEW x,
           \/ FinishAnswers(l, x) \/ FinishDispatches(l, x)
           \/ CancelActive(l, x) \/ ShutDownShard(l)
    PROVE  IInv'
<1>0. Typed /\ Aimed /\ Located /\ AnsweredOnce /\ InQueue /\ InPosts /\ InShard
  BY DEF IInv, Located
<1>1. posts \in [Lanes -> Seq(Tasks)] /\ active \in [Lanes -> SUBSET Exchanges]
  BY <1>0 DEF Typed
<1>2. CASE FinishAnswers(l, x)
  <2>1. /\ UNCHANGED <<queue, canceller, aim, current, made, shutting, pool, posts>>
        /\ {x} \in SUBSET active[l] /\ Answer({x}) /\ active' = [active EXCEPT ![l] = @ \ {x}]
    BY <1>2 DEF FinishAnswers, cancel
  <2> QED BY <1>1, <2>1, Ended
<1>3. CASE CancelActive(l, x) \/ ShutDownShard(l)
  <2>1. posts[l] # <<>> /\ posts' = [posts EXCEPT ![l] = Tail(@)] /\ Head(posts[l]).task # "start"
    BY <1>3 DEF CancelActive, ShutDownShard, Runs
  <2>2. PICK q \in Seq(Tasks) : q = posts[l]
    BY <1>1
  <2>3. Tail(q) \in Seq(Tasks) /\ Head(q) = q[1]
    BY <2>1, <2>2, SMT
  <2>4. /\ posts' \in [Lanes -> Seq(Tasks)] /\ posts'[l] = Tail(posts[l])
        /\ \A m \in Lanes \ {l} : posts'[m] = posts[m]
    BY <1>0, <2>1, <2>2, <2>3, PostsReplaced
  <2>5. CASE \E S \in SUBSET active[l] :
               /\ Answer(S) /\ active' = [active EXCEPT ![l] = @ \ S]
               /\ UNCHANGED <<queue, canceller, aim, current, made, shutting, pool>>
    <3>1. PICK S \in SUBSET active[l] :
               /\ Answer(S) /\ active' = [active EXCEPT ![l] = @ \ S]
               /\ UNCHANGED <<queue, canceller, aim, current, made, shutting, pool>>
      BY <2>5
    <3>2. posts[l] # <<>>
      BY <2>1
    <3> QED BY <2>4, <3>1, <3>2, Ended
  <2>6. CASE UNCHANGED <<at, lane, via, answers, active, queue, canceller, aim, current, made,
                         shutting, pool>>
    <3>1. InPosts'
      <4>1. /\ posts[l] # <<>>
            /\ \A y \in Exchanges :
                 at[y] = "posted" => (at'[y] = "posted" \/ StartsFirst(l, y))
        BY <2>1, <2>6
      <4> QED BY <1>0, <2>4, <4>1, PostTaken
    <3>2. InQueue' /\ InShard'
      BY <1>0, <2>6, QueueStays, ShardStays
    <3>3. Typed' /\ Aimed' /\ AnsweredOnce'
      BY <1>0, <2>4, <2>6 DEF Typed, Aimed, AnsweredOnce
    <3> QED BY <3>1, <3>2, <3>3 DEF IInv, Located
  <2>7. CASE CancelActive(l, x)
    <3>1. CASE x \in active[l]
      <4>1. /\ {x} \in SUBSET active[l] /\ Answer({x}) /\ active' = [active EXCEPT ![l] = @ \ {x}]
            /\ UNCHANGED <<queue, canceller, aim, current, made, shutting, pool>>
        BY <2>7, <3>1 DEF CancelActive, cancel
      <4> QED BY <2>5, <4>1
    <3>2. CASE x \notin active[l]
      BY <2>6, <2>7, <3>2 DEF CancelActive, cancel, exchange
    <3> QED BY <3>1, <3>2
  <2>8. CASE ShutDownShard(l)
    <3>1. Answer(active[l]) /\ active' = [active EXCEPT ![l] = {}]
          /\ UNCHANGED <<queue, canceller, aim, current, made, shutting, pool>>
      BY <2>8 DEF ShutDownShard, cancel
    <3>2. active[l] \in SUBSET active[l] /\ active' = [active EXCEPT ![l] = @ \ active[l]]
      BY <1>1, <3>1
    <3> QED BY <2>5, <3>1, <3>2
  <2> QED BY <1>3, <2>7, <2>8
<1>4. CASE FinishDispatches(l, x)
  <2>1. /\ UNCHANGED <<queue, canceller, aim, current, made, shutting, pool, posts, lane, answers>>
        /\ x \in active[l] /\ active' = [active EXCEPT ![l] = @ \ {x}]
        /\ at' = [at EXCEPT ![x] = "new"] /\ via' = [via EXCEPT ![x] = l]
    BY <1>4 DEF FinishDispatches, cancel
  <2>2. x \in Exchanges /\ at[x] = "active" /\ \A m \in Lanes \ {l} : x \notin active[m]
    BY <1>0, <1>1, <2>1 DEF InShard
  <2>3. /\ at' \in [Exchanges -> Places] /\ at'[x] = "new"
        /\ \A y \in Exchanges \ {x} : at'[y] = at[y]
        /\ via' \in [Exchanges -> 0..MaxLanes]
    BY <1>0, <2>1, <2>2, LaneAssumption, SMT DEF Typed, Places, Lanes
  <2>4. /\ active' \in [Lanes -> SUBSET Exchanges]
        /\ \A m \in Lanes : \A y \in active'[m] : y \in active[m] /\ y \in Exchanges /\ y # x
    BY <1>1, <2>1, <2>2
  <2>5. InQueue' /\ InPosts'
    BY <1>0, <2>1, <2>2, <2>3, QueueStays, PostsStay
  <2>6. InShard'
    <3>1. \A m \in Lanes : \A y \in active'[m] :
             at'[y] = "active" /\ (y \in active[m] \/ (m = l /\ at[y] # "active"))
      BY <1>0, <2>3, <2>4 DEF InShard
    <3> QED BY <1>0, <3>1, ShardMoves
  <2>7. AnsweredOnce'
    BY <1>0, <2>1, <2>2, <2>3 DEF AnsweredOnce
  <2>8. \A y \in Exchanges : at'[y] = "found" => lane'[y] # 0
    BY <1>0, <2>1, <2>3 DEF Aimed
  <2>9. /\ answers' \in [Exchanges -> Nat] /\ lane' \in [Exchanges -> 0..MaxLanes]
        /\ queue' \in [Lanes -> Seq(Exchanges)] /\ posts' \in [Lanes -> Seq(Tasks)]
    BY <1>0, <2>1 DEF Typed
  <2>10. Located'
    BY <2>5, <2>6 DEF Located
  <2> QED BY <2>1, <2>3, <2>4, <2>7, <2>8, <2>9, <2>10, Kept, SMT
<1> QED BY <1>2, <1>3, <1>4

(* LanePool::cancel. *)
LEMMA CancelStep ==
    ASSUME IInv, NEW x \in Exchanges, MarkCancelled(x) \/ ListLanes(x) \/ CancelLane(x)
    PROVE  IInv'
<1>0. Typed /\ Aimed /\ Located /\ AnsweredOnce /\ InQueue /\ InPosts /\ InShard
  BY DEF IInv, Located
<1>1. CASE MarkCancelled(x) \/ ListLanes(x)
  <2>1. UNCHANGED <<at, lane, via, answers, queue, posts, active, current, made, shutting, pool>>
    BY <1>1 DEF MarkCancelled, ListLanes, exchange, shard
  <2>2. /\ canceller' \in [Exchanges -> {"idle", "marked", "listed", "done"}]
        /\ aim' \in [Exchanges -> 0..MaxLanes]
        /\ \A y \in Exchanges : canceller'[y] = "listed" => aim'[y] # 0
    <3>1. /\ canceller \in [Exchanges -> {"idle", "marked", "listed", "done"}]
          /\ aim \in [Exchanges -> 0..MaxLanes] /\ current \in 0..MaxLanes
      BY <1>0 DEF Typed
    <3>2. CASE MarkCancelled(x)
      BY <1>0, <3>1, <3>2 DEF MarkCancelled, Aimed
    <3>3. CASE ListLanes(x)
      BY <1>0, <3>1, <3>3 DEF ListLanes, Aimed
    <3> QED BY <1>1, <3>2, <3>3
  <2>3. Located'
    BY <1>0, <2>1, Elsewhere
  <2>4. Typed' /\ Aimed' /\ AnsweredOnce'
    BY <1>0, <2>1, <2>2 DEF Typed, Aimed, AnsweredOnce
  <2> QED BY <2>3, <2>4 DEF IInv
<1>2. CASE CancelLane(x)
  <2>1. PICK l \in Lanes : l = aim[x]
    BY <1>0, <1>2, LaneAssumption, SMT DEF CancelLane, Typed, Aimed, Lanes
  <2>2. /\ canceller' = [canceller EXCEPT ![x] = "done"] /\ aim' = [aim EXCEPT ![x] = 0]
        /\ queue' = [queue EXCEPT ![l] = Without(queue[l], x)]
        /\ Answer({x} \cap Range(queue[l]))
        /\ posts' = [posts EXCEPT ![l] = IF stopped[l] THEN @ ELSE Append(@, Post("cancel", x))]
        /\ UNCHANGED <<current, made, shutting, pool, active>>
    BY <1>2, <2>1 DEF CancelLane
  <2>3. PICK q \in Seq(Exchanges) : q = queue[l]
    BY <1>0 DEF Typed
  <2>4. \A y \in {x} \cap Range(q) : at[y] = "queued"
    <3>1. \A i \in 1..Len(q) : at[q[i]] = "queued"
      BY <1>0, <2>3 DEF InQueue
    <3> QED BY <2>3, <3>1, SMT DEF Range
  <2>5. /\ AnsweredOnce'
        /\ at' \in [Exchanges -> Places] /\ answers' \in [Exchanges -> Nat]
        /\ lane' \in [Exchanges -> 0..MaxLanes] /\ via' \in [Exchanges -> 0..MaxLanes]
        /\ \A y \in Exchanges : IF y \in {x} \cap Range(q) THEN at'[y] = "answered" ELSE at'[y] = at[y]
        /\ \A y \in Exchanges : at'[y] = "found" => lane'[y] # 0
    <3>1. {x} \cap Range(q) \in SUBSET Exchanges /\ \A y \in {x} \cap Range(q) : at[y] # "answered"
      BY <2>4
    <3>2. Answer({x} \cap Range(q))
      BY <2>2, <2>3
    <3> QED BY <1>0, <3>1, <3>2, Answers
  <2>6. InQueue' /\ queue' \in [Lanes -> Seq(Exchanges)]
    <3>1. CASE x \notin Range(q)
      <4>1. Without(q, x) = q
        BY <3>1, SMT DEF Without, Range
      <4>2. queue' = queue
        BY <1>0, <2>2, <2>3, <4>1 DEF Typed
      <4>3. \A y \in Exchanges : at[y] = "queued" => at'[y] = "queued"
        BY <2>5, <3>1
      <4> QED BY <1>0, <4>2, <4>3, QueueStays DEF Typed
    <3>2. CASE x \in Range(q)
      <4>1. PICK k \in 1..Len(q) : q[k] = x /\ \A j \in 1..Len(q) : q[j] = x => j = k
        <5>1. \A i, j \in 1..Len(q) : q[i] = q[j] => i = j
          BY <1>0, <2>3, SMT DEF InQueue
        <5>2. \E i \in 1..Len(q) : q[i] = x
          BY <2>3, <3>2, SMT DEF Range
        <5> QED BY <5>1, <5>2
      <4>2. /\ Without(q, x) \in Seq(Exchanges) /\ Len(q) \in Nat
            /\ Len(Without(q, x)) = Len(q) - 1
            /\ \A j \in 1..(Len(q) - 1) : Without(q, x)[j] = q[IF j < k THEN j ELSE j + 1]
        BY <4>1, Leaves
      <4>3. /\ queue' \in [Lanes -> Seq(Exchanges)] /\ queue'[l] = Without(q, x)
            /\ \A m \in Lanes \ {l} : queue'[m] = queue[m]
        BY <1>0, <2>2, <2>3, <4>2, QueueReplaced
      <4>4. PICK f : f = [j \in 1..(Len(q) - 1) |-> IF j < k THEN j ELSE j + 1]
        OBVIOUS
      <4>5. ASSUME NEW j \in 1..Len(queue'[l])
            PROVE  /\ j \in 1..(Len(q) - 1) /\ f[j] = IF j < k THEN j ELSE j + 1
                   /\ f[j] \in 1..Len(queue[l]) /\ f[j] # k /\ queue'[l][j] = queue[l][f[j]]
        <5>1. j \in 1..(Len(q) - 1)
          BY <4>2, <4>3, <4>5
        <5>2. /\ f[j] = IF j < k THEN j ELSE j + 1
              /\ f[j] \in 1..Len(q) /\ f[j] # k
          BY <4>1, <4>2, <4>4, <5>1, SMT
        <5>3. queue'[l][j] = q[f[j]]
          BY <4>2, <4>3, <5>1, <5>2
        <5> QED BY <2>3, <5>1, <5>2, <5>3
      <4>6. \A i, j \in 1..Len(queue'[l]) : f[i] = f[j] => i = j
        BY <4>1, <4>2, <4>5, SMT
      <4>7. ASSUME NEW m \in Lanes, NEW i \in 1..Len(queue'[m]) PROVE at'[queue'[m][i]] = "queued"
        <5>1. PICK j \in 1..Len(queue[m]) : queue'[m][i] = queue[m][j] /\ (m = l => j # k)
          <6>1. CASE m = l
            BY <4>5, <4>7, <6>1
          <6>2. CASE m # l
            BY <4>3, <4>7, <6>2
          <6> QED BY <6>1, <6>2
        <5>2. queue[m][j] \in Exchanges /\ at[queue[m][j]] = "queued" /\ queue[m][j] # x
          <6>1. queue[m][j] \in Exchanges /\ at[queue[m][j]] = "queued"
            BY <1>0, QueueNames DEF InQueue
          <6>2. k \in 1..Len(queue[l]) /\ queue[l][k] = x
            BY <2>3, <4>1
          <6>3. queue[m][j] # queue[l][k]
            BY <1>0, <5>1, <6>2, SMT DEF InQueue
          <6> QED BY <6>1, <6>2, <6>3
        <5> QED BY <2>5, <5>1, <5>2
      <4>8. \A i \in 1..Len(queue'[l]) : f[i] \in 1..Len(queue[l]) /\ queue'[l][i] = queue[l][f[i]]
        BY <4>5
      <4>9. \A m \in Lanes \ {l} : queue'[m] = queue[m]
        BY <4>3
      <4>10. InQueue'
        BY <1>0, <4>6, <4>7, <4>8, <4>9, QueueShrinks, SMTT(30)
      <4> QED BY <4>3, <4>10
    <3> QED BY <3>1, <3>2
  <2>7. InPosts' /\ posts' \in [Lanes -> Seq(Tasks)]
    <3>1. \A y \in Exchanges : at[y] = "posted" => at'[y] = "posted"
      BY <2>4, <2>5
    <3>2. CASE stopped[l]
      <4>1. posts' = posts
        BY <1>0, <2>2, <3>2 DEF Typed
      <4> QED BY <1>0, <3>1, <4>1, PostsStay DEF Typed
    <3>3. CASE ~stopped[l]
      <4>1. Post("cancel", x) \in Tasks /\ Post("cancel", x).task # "start"
        BY DEF Post, Tasks
      <4>2. PICK p \in Seq(Tasks) : p = posts[l]
        BY <1>0 DEF Typed
      <4>3. Append(p, Post("cancel", x)) \in Seq(Tasks)
        BY <4>1, SMT
      <4>4. /\ posts' \in [Lanes -> Seq(Tasks)] /\ posts'[l] = Append(p, Post("cancel", x))
            /\ \A m \in Lanes \ {l} : posts'[m] = posts[m]
        <5>1. posts' = [posts EXCEPT ![l] = Append(p, Post("cancel", x))]
          BY <2>2, <3>3, <4>2
        <5> QED BY <1>0, <4>3, <5>1, PostsReplaced
      <4> QED BY <1>0, <3>1, <4>1, <4>2, <4>4, PostOther
    <3> QED BY <3>2, <3>3
  <2>8. InShard'
    <3>1. \A y \in Exchanges : at[y] = "active" => at'[y] = "active"
      BY <2>4, <2>5
    <3> QED BY <1>0, <2>2, <3>1, ShardStays
  <2>9. /\ canceller' \in [Exchanges -> {"idle", "marked", "listed", "done"}]
        /\ aim' \in [Exchanges -> 0..MaxLanes]
        /\ \A y \in Exchanges : canceller'[y] = "listed" => aim'[y] # 0
    <3>1. 0 \in 0..MaxLanes
      BY LaneAssumption, SMT
    <3> QED BY <1>0, <2>2, <3>1 DEF Typed, Aimed
  <2>10. Typed'
    BY <1>0, <2>2, <2>5, <2>6, <2>7, <2>9 DEF Typed
  <2>11. Aimed'
    BY <1>0, <2>2, <2>5, <2>9 DEF Aimed
  <2> QED BY <2>5, <2>6, <2>7, <2>8, <2>10, <2>11 DEF IInv, Located
<1> QED BY <1>1, <1>2

(* sweep() and shutdown(), and the lanes they shut down. *)
LEMMA ShutdownStep ==
    ASSUME IInv, Retire \/ ShutdownPool \/ \E l \in Lanes : ShutDownLane(l)
    PROVE  IInv'
<1>0. Typed /\ Aimed /\ Located /\ AnsweredOnce /\ InQueue /\ InPosts /\ InShard
  BY DEF IInv, Located
<1>1. CASE Retire \/ ShutdownPool
  <2>1. UNCHANGED <<at, lane, via, answers, queue, posts, active, canceller, aim, made>>
    BY <1>1 DEF Retire, ShutdownPool, exchange, shard, cancel
  <2>2. /\ current' = 0 /\ shutting' \subseteq Lanes
        /\ pool' = "running" => made < MaxLanes
    <3>1. current # 0 => current \in Lanes
      BY <1>0, LaneAssumption, SMT DEF Typed, Lanes
    <3>2. CASE Retire
      BY <1>0, <3>1, <3>2 DEF Retire, Typed
    <3>3. CASE ShutdownPool
      BY <1>0, <3>1, <3>3 DEF ShutdownPool, Typed
    <3> QED BY <1>1, <3>2, <3>3
  <2>3. Located'
    BY <1>0, <2>1, Elsewhere
  <2>4. Typed'
    BY <1>0, <2>1, <2>2, LaneAssumption, SMT DEF Typed
  <2>5. Aimed' /\ AnsweredOnce'
    BY <1>0, <2>1, <2>2 DEF Aimed, AnsweredOnce
  <2> QED BY <2>3, <2>4, <2>5 DEF IInv
<1>2. ASSUME NEW l \in Lanes, ShutDownLane(l) PROVE IInv'
  <2>1. /\ UNCHANGED <<canceller, aim, current, made, pool, active>>
        /\ shutting' \subseteq Lanes
        /\ queue' = [queue EXCEPT ![l] = <<>>] /\ Answer(Range(queue[l]))
        /\ posts' = [posts EXCEPT ![l] = Append(@, Shutdown)]
    BY <1>0, <1>2 DEF ShutDownLane, cancel, Typed
  <2>2. \A y \in Range(queue[l]) : y \in Exchanges /\ at[y] = "queued"
    <3>1. Range(queue[l]) = {queue[l][i] : i \in 1..Len(queue[l])}
      BY <1>0, QueueNames
    <3> TAKE y \in Range(queue[l])
    <3>2. PICK i \in 1..Len(queue[l]) : y = queue[l][i]
      BY <3>1
    <3> QED BY <1>0, <3>2, QueueNames DEF InQueue
  <2>3. /\ AnsweredOnce'
        /\ at' \in [Exchanges -> Places] /\ answers' \in [Exchanges -> Nat]
        /\ lane' \in [Exchanges -> 0..MaxLanes] /\ via' \in [Exchanges -> 0..MaxLanes]
        /\ \A y \in Exchanges : IF y \in Range(queue[l]) THEN at'[y] = "answered" ELSE at'[y] = at[y]
        /\ \A y \in Exchanges : at'[y] = "found" => lane'[y] # 0
    <3>1. Range(queue[l]) \in SUBSET Exchanges /\ \A y \in Range(queue[l]) : at[y] # "answered"
      BY <2>2
    <3> QED BY <1>0, <2>1, <3>1, Answers
  <2>4. InQueue' /\ queue' \in [Lanes -> Seq(Exchanges)]
    <3>1. /\ queue' \in [Lanes -> Seq(Exchanges)] /\ queue'[l] = <<>>
          /\ \A m \in Lanes \ {l} : queue'[m] = queue[m]
      <4>1. <<>> \in Seq(Exchanges)
        BY SMT
      <4> QED BY <1>0, <2>1, <4>1, QueueReplaced
    <3>2. ASSUME NEW m \in Lanes, NEW i \in 1..Len(queue'[m])
          PROVE  /\ m # l /\ queue'[m][i] = queue[m][i] /\ i \in 1..Len(queue[m])
                 /\ at'[queue[m][i]] = "queued"
      <4>1. m # l /\ queue'[m][i] = queue[m][i] /\ i \in 1..Len(queue[m])
        BY <3>1, <3>2, SMT
      <4>2. queue[m][i] \in Exchanges /\ at[queue[m][i]] = "queued"
        BY <1>0, <4>1, QueueNames DEF InQueue
      <4>3. queue[m][i] \notin Range(queue[l])
        <5>1. Range(queue[l]) = {queue[l][j] : j \in 1..Len(queue[l])}
          BY <1>0, QueueNames
        <5>2. \A j \in 1..Len(queue[l]) : queue[m][i] # queue[l][j]
          BY <1>0, <4>1 DEF InQueue
        <5> QED BY <5>1, <5>2
      <4> QED BY <2>3, <4>1, <4>2, <4>3
    <3>3. InQueue'
      BY <1>0, <3>2, SMT DEF InQueue
    <3> QED BY <3>1, <3>3
  <2>5. InPosts' /\ posts' \in [Lanes -> Seq(Tasks)]
    <3>1. \A y \in Exchanges : at[y] = "posted" => at'[y] = "posted"
      BY <2>2, <2>3
    <3>2. Shutdown \in Tasks /\ Shutdown.task # "start"
      BY DEF Shutdown, Tasks
    <3>3. PICK p \in Seq(Tasks) : p = posts[l]
      BY <1>0 DEF Typed
    <3>4. Append(p, Shutdown) \in Seq(Tasks)
      BY <3>2, SMT
    <3>5. /\ posts' \in [Lanes -> Seq(Tasks)] /\ posts'[l] = Append(p, Shutdown)
          /\ \A m \in Lanes \ {l} : posts'[m] = posts[m]
      BY <1>0, <2>1, <3>3, <3>4, PostsReplaced
    <3> QED BY <1>0, <3>1, <3>2, <3>3, <3>5, PostOther
  <2>6. InShard'
    <3>1. \A y \in Exchanges : at[y] = "active" => at'[y] = "active"
      BY <2>2, <2>3
    <3> QED BY <1>0, <2>1, <3>1, ShardStays
  <2>7. Typed'
    BY <1>0, <2>1, <2>3, <2>4, <2>5 DEF Typed
  <2>8. Aimed'
    BY <1>0, <2>1, <2>3 DEF Aimed
  <2> QED BY <2>3, <2>4, <2>5, <2>6, <2>7, <2>8 DEF IInv, Located
<1> QED BY <1>1, <1>2

(* Steps that none of this is about. *)
LEMMA OtherStep ==
    ASSUME IInv, UNCHANGED <<at, lane, via, answers, queue, posts, active, canceller, aim,
                             current, made, shutting, pool>>
    PROVE  IInv'
<1>1. Located'
  BY Elsewhere DEF IInv
<1> QED BY <1>1 DEF IInv, Typed, Aimed, AnsweredOnce

Counts == inflight \in [Lanes -> Nat]

(* m_in_flight is a number. *)
LEMMA CountsStep == Counts /\ [Next]_vars => Counts'
<1> SUFFICES ASSUME Counts, [Next]_vars PROVE Counts'
  OBVIOUS
<1>1. ASSUME NEW l \in Lanes, NEW n \in 0..Ceiling, Pump(l, n) PROVE Counts'
  BY <1>1, LaneAssumption, SMT DEF Counts, Pump, StartFirst
<1>2. ASSUME NEW l \in Lanes, OnTransferFinished(l) PROVE Counts'
  BY <1>2, SMT DEF Counts, OnTransferFinished
<1>3. CASE UNCHANGED inflight
  BY <1>3 DEF Counts
<1> QED BY <1>1, <1>2, <1>3, ZenonT(30) DEF Next, vars, Send, Dispatch, CheckFlag, LaneFor, Submit,
      MarkCancelled, Cancel, ListLanes, CancelLane, TimerFires, Task, Start, CancelActive,
      ShutDownShard, Network, FinishAnswers, FinishDispatches, ShutDownLane, ResetBackoff,
      Retire, ShutdownPool

(* Every step keeps the invariant. *)
LEMMA IInvStep == Counts /\ IInv /\ [Next]_vars => IInv'
<1> SUFFICES ASSUME Counts, IInv, [Next]_vars PROVE IInv'
  OBVIOUS
<1>1. ASSUME NEW x \in Exchanges, Send(x) \/ Dispatch(x) \/ MarkCancelled(x) \/ Cancel(x)
      PROVE  IInv'
  BY <1>1, DispatchStep, SubmitStep, CancelStep DEF Dispatch, Cancel
<1>2. ASSUME NEW l \in Lanes, NEW n \in 0..Ceiling, Pump(l, n)
      PROVE  IInv'
  <2>1. n \in Nat /\ n <= Len(queue[l])
    <3>1. Len(queue[l]) \in Nat /\ inflight[l] \in Nat /\ Ceiling \in Nat /\ n \in Nat
      BY <1>2, QueueNames, LaneAssumption, SMT DEF IInv, Counts
    <3>2. n \in 0..Free(l)
      BY <1>2 DEF Pump
    <3> QED BY <3>1, <3>2, SMT DEF Free
  <2>2. /\ StartFirst(l, n)
        /\ UNCHANGED <<lane, via, answers, canceller, aim, current, made, shutting, pool, active>>
    BY <1>2 DEF Pump, cancel
  <2> QED BY <2>1, <2>2, PumpStep
<1>3. ASSUME \/ \E l \in Lanes : (\E d \in Deadlines : TimerFires(l, d)) \/ OnTransferFinished(l)
             \/ ResetBackoff \/ UNCHANGED vars
      PROVE  IInv'
  <2>1. UNCHANGED <<at, lane, via, answers, queue, posts, active, canceller, aim, current, made,
                    shutting, pool>>
    BY <1>3 DEF TimerFires, OnTransferFinished, ResetBackoff, vars, exchange, shard, cancel
  <2> QED BY <2>1, OtherStep
<1>4. ASSUME NEW l \in Lanes, Task(l) \/ \E x \in Exchanges : Network(l, x)
      PROVE  IInv'
  <2>1. ASSUME NEW x \in Exchanges, Start(l, x) PROVE IInv'
    BY <2>1, StartStep
  <2>2. ASSUME NEW x, \/ CancelActive(l, x) \/ FinishAnswers(l, x)
                      \/ FinishDispatches(l, x) \/ ShutDownShard(l)
        PROVE  IInv'
    BY <2>2, ShardStep
  <2> QED BY <1>3, <1>4, <2>1, <2>2 DEF Task, Network
<1> QED BY <1>1, <1>2, <1>3, <1>4, ShutdownStep DEF Next

(* Every exchange is in one place, and everyone who could answer it looks
   there: the inductive invariant of the lanes. *)
THEOREM LaneTheorem == Spec => [](Counts /\ IInv)
<1>1. Init => Counts /\ IInv
  BY LaneAssumption, SMT DEF Init, Counts, IInv, Typed, Aimed, Located, InQueue, InPosts, InShard,
     Starting, AnsweredOnce, Places, Tasks, Lanes
<1> QED BY <1>1, CountsStep, IInvStep, PTL DEF Spec

(* The callback of an exchange is called once, whoever finds it first: its
   transfer, LanePool::cancel, a refused submit() or a shutdown. *)
THEOREM AnsweredExactlyOnce == Spec => []AnsweredOnce
<1>1. IInv => AnsweredOnce
  BY DEF IInv
<1> QED BY <1>1, LaneTheorem, PTL

-----------------------------------------------------------------------------
(* What a lane and the thread of its shard do. *)

(* A thread that dispatches does so for one exchange, and a shutdown is posted
   only by a lane that has stopped. *)
Driven ==
    /\ thread \in [Lanes -> {"idle", "dispatching", "ending"}]
    /\ stopped \in [Lanes -> BOOLEAN]
    /\ \A x \in Exchanges : via[x] # 0 => thread[via[x]] = "dispatching"
    /\ \A x, y \in Exchanges : via[x] = via[y] => x = y \/ via[x] = 0
    /\ \A l \in Lanes : \A i \in 1..Len(posts[l]) :
           posts[l][i].task = "shutdown" => stopped[l]

(* How many exchanges pump() takes off the queue. *)
LEMMA PumpRoom ==
    ASSUME Counts, Typed, NEW l \in Lanes, NEW n, Pump(l, n)
    PROVE  /\ n \in Nat /\ n <= Len(queue[l])
           /\ n = 0 \/ (~stopped[l] /\ inflight[l] + n <= Ceiling /\ queue[l] # <<>>)
<1>1. n \in 0..Free(l) /\ inflight[l] \in Nat /\ Ceiling \in Nat
  BY LaneAssumption DEF Pump, Counts
<1>2. PICK q \in Seq(Exchanges) : q = queue[l]
  BY DEF Typed
<1>3. Len(q) \in Nat /\ (Len(q) # 0 => q # <<>>)
  BY SMT
<1>4. n \in Nat /\ n <= Len(q) /\ (n = 0 \/ (~stopped[l] /\ inflight[l] + n <= Ceiling))
  BY <1>1, <1>2, <1>3, SMT DEF Free
<1>5. n = 0 \/ queue[l] # <<>>
  BY <1>2, <1>3, <1>4, SMT
<1> QED BY <1>2, <1>4, <1>5

(* What pump() posts. *)
LEMMA PumpPosts ==
    ASSUME Counts, Typed, NEW l \in Lanes, NEW n, Pump(l, n)
    PROVE  /\ \A m \in Lanes \ {l} : posts'[m] = posts[m]
           /\ \A i \in 1..Len(posts[l]) : i \in 1..Len(posts'[l]) /\ posts'[l][i] = posts[l][i]
           /\ Len(posts[l]) \in Nat /\ Len(posts'[l]) = Len(posts[l]) + n
           /\ Starting(l)' = Starting(l) \cup ((Len(posts[l]) + 1)..(Len(posts[l]) + n))
<1>1. PICK q \in Seq(Exchanges) : q = queue[l]
  BY DEF Typed
<1>2. n \in Nat /\ n <= Len(q)
  BY <1>1, PumpRoom
<1>3. PICK s \in Seq(Exchanges) : s = SubSeq(q, 1, n)
  BY <1>1, <1>2, Splits
<1>4. Len(s) = n
  BY <1>1, <1>2, <1>3, Splits, SMT
<1>5. PICK p \in Seq(Tasks) : p = posts[l]
  BY DEF Typed
<1>6. PICK r : r = [i \in 1..n |-> Post("start", s[i])]
  OBVIOUS
<1>7. r \in Seq(Tasks) /\ Len(r) = n /\ \A i \in 1..n : r[i] = Post("start", s[i])
  <2>1. \A i \in 1..n : s[i] \in Exchanges
    BY <1>4, SMT
  <2>2. \A i \in 1..n : Post("start", s[i]) \in Tasks
    BY <2>1 DEF Tasks, Post
  <2> QED BY <1>2, <1>6, <2>2, SMT
<1>8. posts' = [posts EXCEPT ![l] = p \o r]
  BY <1>1, <1>3, <1>5, <1>6 DEF Pump, StartFirst
<1>9. Len(p) \in Nat /\ p \o r \in Seq(Tasks) /\ Len(p \o r) = Len(p) + n
  BY <1>2, <1>7, Joins
<1>10. \A i \in 1..Len(p) : (p \o r)[i] = p[i]
  BY <1>7, Joins, SMT
<1>11. \A i \in 1..n : (p \o r)[Len(p) + i] = r[i]
  BY <1>7, Joins, SMT
<1>12. posts'[l] = p \o r /\ \A m \in Lanes \ {l} : posts'[m] = posts[m]
  BY <1>8, <1>9, PostsReplaced
<1>13. Starting(l)' = Starting(l) \cup ((Len(p) + 1)..(Len(p) + n))
  <2>1. Starting(l) = {i \in 1..Len(p) : p[i].task = "start"}
    BY <1>5 DEF Starting
  <2>2. Starting(l)' = {i \in 1..(Len(p) + n) : (p \o r)[i].task = "start"}
    BY <1>9, <1>12 DEF Starting
  <2>3. ASSUME NEW i \in (Len(p) + 1)..(Len(p) + n) PROVE (p \o r)[i].task = "start"
    <3>1. i - Len(p) \in 1..n /\ Len(p) + (i - Len(p)) = i
      BY <1>2, <1>9, <2>3, SMT
    <3>2. (p \o r)[i] = Post("start", s[i - Len(p)])
      BY <1>7, <1>11, <3>1
    <3> QED BY <3>2, SMT DEF Post
  <2>4. \A i \in 1..(Len(p) + n) : i \in 1..Len(p) \/ i \in (Len(p) + 1)..(Len(p) + n)
    BY <1>2, <1>9, SMT
  <2>5. \A i : i \in 1..Len(p) \/ i \in (Len(p) + 1)..(Len(p) + n) => i \in 1..(Len(p) + n)
    BY <1>2, <1>9, SMT
  <2> QED BY <1>10, <2>1, <2>2, <2>3, <2>4, <2>5
<1>14. \A i \in 1..Len(p) : i \in 1..Len(posts'[l]) /\ posts'[l][i] = p[i]
  <2>1. \A i \in 1..Len(p) : i \in 1..(Len(p) + n)
    BY <1>2, <1>9, SMT
  <2> QED BY <1>9, <1>10, <1>12, <2>1
<1> QED BY <1>5, <1>9, <1>12, <1>13, <1>14

(* A shard's thread takes the first task posted to it. *)
LEMMA TaskRun ==
    ASSUME Typed, NEW l \in Lanes, NEW task, Runs(l, task)
    PROVE  /\ thread[l] = "idle" /\ posts[l] # <<>> /\ posts[l][1].task = task
           /\ posts'[l] = Tail(posts[l]) /\ \A m \in Lanes \ {l} : posts'[m] = posts[m]
<1>1. thread[l] = "idle" /\ posts[l] # <<>> /\ posts' = [posts EXCEPT ![l] = Tail(posts[l])]
  BY DEF Runs
<1>2. PICK q \in Seq(Tasks) : q = posts[l]
  BY DEF Typed
<1>3. Head(q) = q[1] /\ Tail(q) \in Seq(Tasks)
  BY <1>1, <1>2, Shrinks
<1>4. posts[l][1].task = task
  BY <1>2, <1>3 DEF Runs
<1>5. posts'[l] = Tail(posts[l]) /\ \A m \in Lanes \ {l} : posts'[m] = posts[m]
  BY <1>1, <1>2, <1>3, PostsReplaced
<1> QED BY <1>1, <1>4, <1>5

-----------------------------------------------------------------------------
(* A cancellation and the transfers. *)

(* A lane that has anything was made by the pool. *)
Busy(l) == queue[l] # <<>> \/ Starting(l) # {} \/ active[l] # {}
Known ==
    /\ current <= made /\ \A x \in Exchanges : lane[x] <= made
    /\ \A l \in Lanes : Busy(l) => l <= made

(* A lane the pool has made is in its table until it is shut down. *)
Listed == \A l \in Lanes : l <= made => l = current \/ l \in shutting \/ stopped[l]

(* The shutdowns posted to a shard. *)
Ending(l) == {j \in 1..Len(posts[l]) : posts[l][j].task = "shutdown"}

(* A stopped lane has posted a shutdown behind everything it has started. *)
Followed ==
    \A l \in Lanes : stopped[l] =>
        /\ active[l] # {} => Ending(l) # {}
        /\ \A i \in Starting(l) : \E j \in Ending(l) : j > i

Flagged == flag \in [Exchanges -> BOOLEAN] /\ \A x \in Exchanges : canceller[x] # "idle" => flag[x]

Posted(l, x) == \E j \in 1..Len(posts[l]) : posts[l][j] = Post("cancel", x)

(* The canceller of a transfer goes to its lane, unless a shutdown does. *)
Reached ==
    \A l \in Lanes : \A x \in active[l] :
        /\ canceller[x] = "listed" => l = aim[x] \/ l \in shutting \/ stopped[l]
        /\ canceller[x] = "done" => Posted(l, x) \/ l \in shutting \/ stopped[l]

Reach == Known /\ Listed /\ Followed /\ Flagged /\ Reached

(* The flag is set before anything else is done. *)
LEMMA FlaggedStep == Typed /\ Flagged /\ [Next]_vars => Flagged'
<1> SUFFICES ASSUME Typed, Flagged, [Next]_vars PROVE Flagged'
  OBVIOUS
<1>1. ASSUME NEW x \in Exchanges, MarkCancelled(x) PROVE Flagged'
  BY <1>1 DEF Flagged, MarkCancelled, Typed
<1>2. ASSUME NEW x \in Exchanges, ListLanes(x) \/ CancelLane(x) PROVE Flagged'
  BY <1>2, SMT DEF Flagged, ListLanes, CancelLane, Typed
<1>3. CASE UNCHANGED <<flag, canceller>>
  BY <1>3 DEF Flagged
<1> QED BY <1>1, <1>2, <1>3, ZenonT(30) DEF Next, vars, Send, Dispatch, CheckFlag, LaneFor, Submit, Pump,
      Cancel, TimerFires, Task, Start, CancelActive, ShutDownShard, OnTransferFinished, Network,
      FinishAnswers, FinishDispatches, ShutDownLane, ResetBackoff, Retire, ShutdownPool, cancel

(* A lane leaves the table to be shut down. *)
LEMMA ListedStep == Typed /\ Driven /\ Known /\ Listed /\ [Next]_vars => Listed'
<1> SUFFICES ASSUME Typed, Driven, Known, Listed, [Next]_vars PROVE Listed'
  OBVIOUS
<1>0. current \in Nat /\ made \in Nat
  BY LaneAssumption, SMT DEF Typed
<1>1. ASSUME NEW x \in Exchanges, LaneFor(x) PROVE Listed'
  <2>1. UNCHANGED <<shutting, stopped>>
    BY <1>1 DEF LaneFor
  <2>2. CASE UNCHANGED <<current, made>>
    BY <2>1, <2>2 DEF Listed
  <2>3. CASE current = 0 /\ current' = made + 1 /\ made' = made + 1
    <3>1. ASSUME NEW l \in Lanes, l <= made'
          PROVE  l = current' \/ l \in shutting' \/ stopped'[l]
      <4>1. l \in Nat /\ l # 0
        BY LaneAssumption, SMT DEF Lanes
      <4>2. l = made + 1 \/ l <= made
        BY <1>0, <2>3, <3>1, <4>1, SMT
      <4> QED BY <2>1, <2>3, <4>1, <4>2 DEF Listed
    <3> QED BY <3>1 DEF Listed
  <2> QED BY <1>1, <2>2, <2>3 DEF LaneFor
<1>2. CASE Retire \/ ShutdownPool
  <2>1. UNCHANGED <<made, stopped>>
    BY <1>2 DEF Retire, ShutdownPool
  <2>2. \A l \in Lanes : l = current \/ l \in shutting => l \in shutting'
    BY <1>2, LaneAssumption, SMT DEF Retire, ShutdownPool, Lanes
  <2> QED BY <2>1, <2>2 DEF Listed
<1>3. ASSUME NEW l \in Lanes, ShutDownLane(l) PROVE Listed'
  <2>1. /\ UNCHANGED <<made, current>>
        /\ stopped'[l] /\ \A m \in Lanes : stopped[m] => stopped'[m]
        /\ \A m \in shutting : m = l \/ m \in shutting'
    BY <1>3 DEF ShutDownLane, Driven
  <2> QED BY <2>1 DEF Listed
<1>4. CASE UNCHANGED <<current, made, shutting, stopped>>
  BY <1>4 DEF Listed
<1> QED BY <1>1, <1>2, <1>3, <1>4, ZenonT(30) DEF Next, vars, Send, Dispatch, CheckFlag, Submit, Pump,
      MarkCancelled, Cancel, ListLanes, CancelLane, TimerFires, Task, Start, CancelActive,
      ShutDownShard, OnTransferFinished, Network, FinishAnswers, FinishDispatches, ResetBackoff

(* Tasks that stay in front stay where they are. *)
LEMMA PostsKept ==
    ASSUME NEW l \in Lanes,
           \A i \in 1..Len(posts[l]) : i \in 1..Len(posts'[l]) /\ posts'[l][i] = posts[l][i]
    PROVE  /\ Ending(l) \subseteq Ending(l)'
           /\ \A x \in Exchanges : Posted(l, x) => Posted(l, x)'
BY DEF Ending, Posted

(* The first task leaves. *)
LEMMA PostsTaken ==
    ASSUME Typed, NEW l \in Lanes, posts[l] # <<>>, posts'[l] = Tail(posts[l])
    PROVE  /\ \A i \in Starting(l)' : i + 1 \in Starting(l) /\ i \in Nat
           /\ \A j \in Ending(l) : j \in Nat /\ (j > 1 => j - 1 \in Ending(l)')
           /\ \A j \in Ending(l) : j = 1 \/ j > 1
           /\ 1 \in Ending(l) => posts[l][1].task = "shutdown"
           /\ \A x \in Exchanges : Posted(l, x) => Posted(l, x)' \/ posts[l][1] = Post("cancel", x)
<1>1. PICK q \in Seq(Tasks) : q = posts[l]
  BY DEF Typed
<1>2. /\ Len(q) \in Nat /\ Len(q) > 0
      /\ Len(Tail(q)) = Len(q) - 1
      /\ \A i \in 1..(Len(q) - 1) : Tail(q)[i] = q[i + 1]
  BY <1>1, Shrinks
<1>3. PICK r : r = posts'[l]
  OBVIOUS
<1>4. Len(r) = Len(q) - 1 /\ \A i \in 1..(Len(q) - 1) : r[i] = q[i + 1]
  BY <1>1, <1>2, <1>3
<1>5. /\ Starting(l) = {i \in 1..Len(q) : q[i].task = "start"}
      /\ Ending(l) = {i \in 1..Len(q) : q[i].task = "shutdown"}
      /\ \A x \in Exchanges : Posted(l, x) <=> \E j \in 1..Len(q) : q[j] = Post("cancel", x)
  BY <1>1 DEF Starting, Ending, Posted
<1>6. /\ Starting(l)' = {i \in 1..Len(r) : r[i].task = "start"}
      /\ Ending(l)' = {i \in 1..Len(r) : r[i].task = "shutdown"}
      /\ \A x \in Exchanges : Posted(l, x)' <=> \E j \in 1..Len(r) : r[j] = Post("cancel", x)
  BY <1>3 DEF Starting, Ending, Posted
<1>7. \A i \in Starting(l)' : i + 1 \in Starting(l) /\ i \in Nat
  BY <1>2, <1>4, <1>5, <1>6, SMTT(30)
<1>8. \A j \in 1..Len(q) : j > 1 => j - 1 \in 1..Len(r) /\ r[j - 1] = q[j]
  BY <1>2, <1>4, SMT
<1>9. \A j \in 1..Len(q) : j \in Nat /\ (j = 1 \/ j > 1)
  BY <1>2, SMT
<1>10. \A j \in Ending(l) : j \in Nat /\ (j > 1 => j - 1 \in Ending(l)')
  BY <1>5, <1>6, <1>8, <1>9
<1>11. \A x \in Exchanges : Posted(l, x) => Posted(l, x)' \/ q[1] = Post("cancel", x)
  BY <1>5, <1>6, <1>8, <1>9, SMT
<1> QED BY <1>1, <1>5, <1>7, <1>9, <1>10, <1>11

(* Nobody comes to know a lane that was not made. *)
LEMMA KnownKept ==
    ASSUME Typed, Known, UNCHANGED made, current' = current \/ current' = 0,
           \A x \in Exchanges : lane'[x] = lane[x] \/ lane'[x] = 0,
           \A l \in Lanes : Busy(l)' => Busy(l) \/ l <= made
    PROVE  Known'
<1>1. made \in Nat
  BY LaneAssumption, SMT DEF Typed
<1>2. current' <= made' /\ \A x \in Exchanges : lane'[x] <= made'
  <2>1. current' <= made
    <3>1. current <= made /\ 0 <= made
      BY <1>1, SMT DEF Known
    <3> QED BY <3>1
  <2>2. \A x \in Exchanges : lane'[x] <= made
    <3>1. 0 <= made /\ \A x \in Exchanges : lane[x] <= made
      BY <1>1, SMT DEF Known
    <3> QED BY <3>1
  <2> QED BY <2>1, <2>2
<1>3. \A l \in Lanes : Busy(l)' => l <= made'
  BY DEF Known
<1> QED BY <1>2, <1>3 DEF Known

(* A stopped lane starts nothing. *)
LEMMA FollowedKept ==
    ASSUME Followed,
           \A l \in Lanes : stopped'[l] =>
               /\ stopped[l] /\ Starting(l)' \subseteq Starting(l) /\ Ending(l) \subseteq Ending(l)'
               /\ active'[l] # {} => active[l] # {}
    PROVE  Followed'
<1> SUFFICES ASSUME NEW l \in Lanes, stopped'[l]
             PROVE  /\ active'[l] # {} => Ending(l)' # {}
                    /\ \A i \in Starting(l)' : \E j \in Ending(l)' : j > i
  BY DEF Followed
<1>1. /\ stopped[l] /\ Starting(l)' \subseteq Starting(l) /\ Ending(l) \subseteq Ending(l)'
      /\ active'[l] # {} => active[l] # {}
  OBVIOUS
<1>2. /\ active[l] # {} => Ending(l) # {}
      /\ \A i \in Starting(l) : \E j \in Ending(l) : j > i
  BY <1>1 DEF Followed
<1> QED BY <1>1, <1>2

(* A stopped lane's shard takes a task. *)
LEMMA FollowedTaken ==
    ASSUME Typed, Followed, NEW l \in Lanes, posts[l] # <<>>, posts'[l] = Tail(posts[l]),
           \A m \in Lanes \ {l} : posts'[m] = posts[m] /\ active'[m] = active[m],
           UNCHANGED stopped,
           active'[l] # {} => \/ posts[l][1].task = "start"
                              \/ active[l] # {} /\ posts[l][1].task # "shutdown"
    PROVE  Followed'
<1>1. ASSUME NEW m \in Lanes, m # l, stopped'[m]
      PROVE  /\ active'[m] # {} => Ending(m)' # {}
             /\ \A i \in Starting(m)' : \E j \in Ending(m)' : j > i
  <2>1. Starting(m)' = Starting(m) /\ Ending(m)' = Ending(m) /\ active'[m] = active[m] /\ stopped[m]
    BY <1>1 DEF Starting, Ending
  <2> QED BY <2>1 DEF Followed
<1>2. ASSUME stopped'[l]
      PROVE  /\ active'[l] # {} => Ending(l)' # {}
             /\ \A i \in Starting(l)' : \E j \in Ending(l)' : j > i
  <2>1. /\ active[l] # {} => Ending(l) # {}
        /\ \A i \in Starting(l) : \E j \in Ending(l) : j > i
    BY <1>2 DEF Followed
  <2>2. \A i \in Starting(l)' : i + 1 \in Starting(l) /\ i \in Nat
    BY PostsTaken
  <2>3. \A j \in Ending(l) : j \in Nat /\ (j > 1 => j - 1 \in Ending(l)')
    BY PostsTaken
  <2>4. (\A j \in Ending(l) : j = 1 \/ j > 1) /\ (1 \in Ending(l) => posts[l][1].task = "shutdown")
    BY PostsTaken
  <2>5. ASSUME NEW i \in Starting(l)' PROVE \E j \in Ending(l)' : j > i
    <3>1. PICK j \in Ending(l) : j > i + 1
      BY <2>1, <2>2
    <3>2. j \in Nat /\ j > 1 /\ j - 1 > i /\ i \in Nat
      BY <2>2, <2>3, <3>1, SMT
    <3>3. j - 1 \in Ending(l)'
      BY <2>3, <3>2
    <3> QED BY <3>2, <3>3
  <2>6. ASSUME active'[l] # {} PROVE Ending(l)' # {}
    <3>1. CASE posts[l][1].task = "start"
      <4>1. 1 \in Starting(l)
        <5>1. PICK q \in Seq(Tasks) : q = posts[l]
          BY DEF Typed
        <5>2. Len(q) \in Nat /\ Len(q) > 0
          BY <5>1, Shrinks
        <5> QED BY <3>1, <5>1, <5>2, SMT DEF Starting
      <4>2. PICK j \in Ending(l) : j > 1
        BY <2>1, <4>1
      <4> QED BY <2>3, <4>2
    <3>2. CASE active[l] # {} /\ posts[l][1].task # "shutdown"
      <4>1. PICK j \in Ending(l) : TRUE
        BY <2>1, <3>2
      <4>2. j > 1
        BY <2>4, <3>2, <4>1
      <4> QED BY <2>3, <4>1, <4>2
    <3> QED BY <2>6, <3>1, <3>2
  <2> QED BY <2>5, <2>6
<1> QED BY <1>1, <1>2 DEF Followed

(* What the canceller is about to do, or has done, stays. *)
LEMMA ReachedKept ==
    ASSUME Reached,
           \A l \in Lanes : \A x \in active'[l] : x \in active[l] \/ canceller'[x] = "idle",
           \A l \in Lanes : \A x \in active'[l] : Posted(l, x) => Posted(l, x)',
           \A l \in Lanes : l \in shutting \/ stopped[l] => l \in shutting' \/ stopped'[l],
           \A x \in Exchanges : canceller'[x] = canceller[x] /\ aim'[x] = aim[x],
           \A l \in Lanes : active'[l] \subseteq Exchanges
    PROVE  Reached'
<1> SUFFICES ASSUME NEW l \in Lanes, NEW x \in active'[l]
             PROVE  /\ canceller'[x] = "listed" => l = aim'[x] \/ l \in shutting' \/ stopped'[l]
                    /\ canceller'[x] = "done" => Posted(l, x)' \/ l \in shutting' \/ stopped'[l]
  BY DEF Reached
<1>1. x \in Exchanges /\ canceller'[x] = canceller[x] /\ aim'[x] = aim[x]
  OBVIOUS
<1>2. CASE x \in active[l]
  BY <1>1, <1>2 DEF Reached
<1>3. CASE canceller'[x] = "idle"
  BY <1>3
<1> QED BY <1>2, <1>3

(* Steps that leave the shards and the cancellers alone. *)
LEMMA ApartReach ==
    ASSUME Reach, UNCHANGED <<posts, stopped, canceller, aim>>,
           \A l \in Lanes : active'[l] \subseteq active[l] /\ active[l] \subseteq Exchanges,
           shutting \subseteq shutting'
    PROVE  Followed' /\ Reached'
<1>1. \A l \in Lanes : Starting(l)' = Starting(l) /\ Ending(l)' = Ending(l)
  BY DEF Starting, Ending
<1>2. \A l \in Lanes, x \in Exchanges : Posted(l, x)' = Posted(l, x)
  BY DEF Posted
<1>3. Followed'
  BY <1>1, FollowedKept DEF Reach
<1>4. Reached'
  <2>1. \A l \in Lanes : \A x \in active'[l] : x \in active[l] \/ canceller'[x] = "idle"
    OBVIOUS
  <2>2. \A l \in Lanes : \A x \in active'[l] : Posted(l, x) => Posted(l, x)'
    BY <1>2
  <2> QED BY <2>1, <2>2, ReachedKept DEF Reach
<1> QED BY <1>3, <1>4

(* dispatch(). *)
LEMMA DispatchReach ==
    ASSUME IInv, Reach, NEW x \in Exchanges, Send(x) \/ Dispatch(x)
    PROVE  Known' /\ Followed' /\ Reached'
<1>0. Typed /\ Aimed /\ Known
  BY DEF IInv, Reach
<1>1. UNCHANGED <<posts, active, stopped, canceller, aim, shutting>>
  BY DEF Send, Dispatch, CheckFlag, LaneFor, Submit, shard, cancel
<1>2. Followed' /\ Reached'
  BY <1>0, <1>1, ApartReach DEF Typed
<1>3. \A l \in Lanes : Starting(l)' = Starting(l) /\ active'[l] = active[l]
  BY <1>1 DEF Starting
<1>4. CASE Send(x) \/ CheckFlag(x)
  <2>1. UNCHANGED <<made, current, queue>> /\ \A y \in Exchanges : lane'[y] = lane[y] \/ lane'[y] = 0
    BY <1>4 DEF Send, CheckFlag, MoveTo, Answer
  <2>2. \A l \in Lanes : Busy(l)' => Busy(l)
    BY <1>3, <2>1 DEF Busy
  <2> QED BY <1>0, <1>2, <2>1, <2>2, KnownKept
<1>5. CASE LaneFor(x)
  <2>1. queue' = queue /\ \A l \in Lanes : Busy(l)' => Busy(l)
    BY <1>3, <1>5 DEF LaneFor, Busy
  <2>2. CASE pool # "running"
    <3>1. UNCHANGED <<made, current>> /\ \A y \in Exchanges : lane'[y] = lane[y] \/ lane'[y] = 0
      BY <1>5, <2>2 DEF LaneFor, Answer
    <3> QED BY <1>0, <1>2, <2>1, <3>1, KnownKept
  <2>3. CASE pool = "running"
    <3>1. /\ current' = IF current = 0 THEN made + 1 ELSE current
          /\ made' = IF current = 0 THEN made + 1 ELSE made
          /\ lane' = [lane EXCEPT ![x] = current']
      BY <1>5, <2>3 DEF LaneFor
    <3>2. current \in Nat /\ made \in Nat /\ made <= made' /\ made' \in Nat
      BY <1>0, <3>1, LaneAssumption, SMT DEF Typed
    <3>3. current' <= made'
      BY <1>0, <3>1, <3>2, SMT DEF Known
    <3>4. \A y \in Exchanges : lane'[y] <= made'
      <4>1. \A y \in Exchanges : lane[y] \in Nat /\ lane[y] <= made
        BY <1>0, LaneAssumption, SMT DEF Typed, Known
      <4>2. \A y \in Exchanges : lane'[y] = lane[y] \/ lane'[y] = current'
        BY <1>0, <3>1 DEF Typed
      <4>3. \A y \in Exchanges : lane[y] <= made'
        BY <3>2, <4>1, SMT
      <4> QED BY <3>3, <4>2, <4>3
    <3>5. \A l \in Lanes : Busy(l)' => l <= made'
      <4>1. \A l \in Lanes : l \in Nat
        BY LaneAssumption, SMT DEF Lanes
      <4> QED BY <1>0, <2>1, <3>2, <4>1, SMT DEF Known
    <3> QED BY <1>2, <3>3, <3>4, <3>5 DEF Known
  <2> QED BY <2>2, <2>3
<1>6. CASE Submit(x)
  <2>1. UNCHANGED <<made, current>> /\ \A y \in Exchanges : lane'[y] = lane[y] \/ lane'[y] = 0
    BY <1>0, <1>6 DEF Submit, Answer, Typed
  <2>2. \A l \in Lanes : queue'[l] = queue[l] \/ l = lane[x]
    BY <1>0, <1>6 DEF Submit, Typed
  <2>3. \A l \in Lanes : Busy(l)' => Busy(l) \/ l <= made
    BY <1>0, <1>3, <2>2 DEF Busy, Known
  <2> QED BY <1>0, <1>2, <2>1, <2>3, KnownKept
<1> QED BY <1>4, <1>5, <1>6 DEF Dispatch

(* pump(). *)
LEMMA PumpReach ==
    ASSUME Counts, IInv, Reach, NEW l \in Lanes, NEW n, Pump(l, n)
    PROVE  Known' /\ Followed' /\ Reached'
<1>0. Typed /\ Known /\ Followed /\ Reached
  BY DEF IInv, Reach
<1>1. n \in Nat /\ (n = 0 \/ (~stopped[l] /\ queue[l] # <<>>))
  <2>1. n \in Nat
    BY <1>0, PumpRoom
  <2>2. n # 0 => ~stopped[l] /\ queue[l] # <<>>
    BY <1>0, PumpRoom, SMT
  <2> QED BY <2>1, <2>2
<1>2. \A m \in Lanes \ {l} : posts'[m] = posts[m]
  BY <1>0, PumpPosts
<1>3. \A i \in 1..Len(posts[l]) : i \in 1..Len(posts'[l]) /\ posts'[l][i] = posts[l][i]
  BY <1>0, PumpPosts
<1>4. /\ Len(posts[l]) \in Nat
      /\ Starting(l)' = Starting(l) \cup ((Len(posts[l]) + 1)..(Len(posts[l]) + n))
  BY <1>0, PumpPosts
<1>5. UNCHANGED <<made, current, lane, stopped, canceller, aim, shutting, active>>
  BY DEF Pump, cancel
<1>6. n = 0 => Starting(l)' = Starting(l)
  BY <1>4, SMT
<1>7. \A m \in Lanes \ {l} : Starting(m)' = Starting(m)
  BY <1>2 DEF Starting
<1>8. \A m \in Lanes : \A i \in 1..Len(posts[m]) : i \in 1..Len(posts'[m]) /\ posts'[m][i] = posts[m][i]
  BY <1>2, <1>3
<1>9. \A m \in Lanes : Ending(m) \subseteq Ending(m)'
  BY <1>8, PostsKept
<1>10. \A m \in Lanes : \A x \in Exchanges : Posted(m, x) => Posted(m, x)'
  BY <1>8, PostsKept
<1>11. Followed'
  BY <1>0, <1>1, <1>5, <1>6, <1>7, <1>9, FollowedKept
<1>12. Reached'
  BY <1>0, <1>5, <1>10, ReachedKept DEF Typed
<1>13. Known'
  <2>1. ASSUME NEW m \in Lanes, Busy(m)' PROVE Busy(m)
    <3>1. CASE m # l
      <4>1. queue'[m] = queue[m]
        BY <1>0, <3>1 DEF Pump, StartFirst, Typed
      <4> QED BY <1>5, <1>7, <2>1, <3>1, <4>1 DEF Busy
    <3>2. CASE m = l /\ queue[l] = <<>>
      <4>1. n = 0
        BY <1>1, <3>2
      <4>2. queue'[l] = SubSeq(queue[l], 1, Len(queue[l]))
        BY <1>0, <4>1, SMT DEF Pump, StartFirst, Typed
      <4>3. queue'[l] = <<>>
        BY <3>2, <4>2, SMT
      <4> QED BY <1>5, <1>6, <2>1, <3>2, <4>1, <4>3 DEF Busy
    <3> QED BY <3>1, <3>2 DEF Busy
  <2> QED BY <1>0, <1>5, <2>1, KnownKept
<1> QED BY <1>11, <1>12, <1>13

(* A task of the shard's thread. *)
LEMMA TaskReach ==
    ASSUME IInv, Driven, Reach, IInv', NEW l \in Lanes,
           NEW task, Runs(l, task), UNCHANGED <<made, current, stopped, canceller, aim, shutting, queue>>,
           \A x \in Exchanges : lane'[x] = lane[x] \/ lane'[x] = 0,
           \A m \in Lanes \ {l} : active'[m] = active[m],
           task = "shutdown" => active'[l] = {},
           task # "start" => active'[l] \subseteq active[l],
           \A x \in active'[l] : x \in active[l] \/ canceller[x] = "idle",
           \A x \in active'[l] : posts[l][1] # Post("cancel", x)
    PROVE  Known' /\ Followed' /\ Reached'
<1>0. Typed /\ Known /\ Followed /\ Reached
  BY DEF IInv, Reach
<1>1. /\ posts[l] # <<>> /\ posts[l][1].task = task
      /\ posts'[l] = Tail(posts[l]) /\ \A m \in Lanes \ {l} : posts'[m] = posts[m]
  BY <1>0, TaskRun
<1>2. Followed'
  <2>1. active'[l] # {} => \/ posts[l][1].task = "start"
                           \/ active[l] # {} /\ posts[l][1].task # "shutdown"
    BY <1>1
  <2>2. \A m \in Lanes \ {l} : posts'[m] = posts[m] /\ active'[m] = active[m]
    BY <1>1
  <2> QED BY <1>0, <1>1, <2>1, <2>2, FollowedTaken
<1>3. \A m \in Lanes : active'[m] \subseteq Exchanges
  BY DEF IInv, Typed
<1>4. Reached'
  <2>1. \A m \in Lanes : \A x \in active'[m] : x \in active[m] \/ canceller'[x] = "idle"
    OBVIOUS
  <2>2. ASSUME NEW m \in Lanes, NEW x \in active'[m], Posted(m, x) PROVE Posted(m, x)'
    <3>1. CASE m # l
      BY <1>1, <2>2, <3>1 DEF Posted
    <3>2. CASE m = l
      <4>1. x \in Exchanges /\ posts[l][1] # Post("cancel", x)
        BY <1>3, <3>2
      <4>2. \A y \in Exchanges : Posted(l, y) => Posted(l, y)' \/ posts[l][1] = Post("cancel", y)
        BY <1>0, <1>1, PostsTaken
      <4> QED BY <2>2, <3>2, <4>1, <4>2
    <3> QED BY <3>1, <3>2
  <2> QED BY <1>0, <1>3, <2>1, <2>2, ReachedKept
<1>5. Known'
  <2>1. ASSUME NEW m \in Lanes, Busy(m)' PROVE Busy(m)
    <3>1. CASE m # l
      <4>1. Starting(m)' = Starting(m)
        BY <1>1, <3>1, SMTT(30) DEF Starting
      <4> QED BY <2>1, <3>1, <4>1 DEF Busy
    <3>2. CASE m = l /\ Starting(l)' # {}
      <4>1. \A i \in Starting(l)' : i + 1 \in Starting(l)
        BY <1>0, <1>1, PostsTaken
      <4> QED BY <3>2, <4>1 DEF Busy
    <3>3. CASE m = l /\ active'[l] # {}
      <4>1. CASE task # "start"
        BY <3>3, <4>1 DEF Busy
      <4>2. CASE task = "start"
        <5>1. PICK q \in Seq(Tasks) : q = posts[l]
          BY <1>0 DEF Typed
        <5>2. Len(q) \in Nat /\ Len(q) > 0
          BY <1>1, <5>1, Shrinks
        <5>3. 1 \in Starting(l)
          BY <1>1, <4>2, <5>1, <5>2, SMT DEF Starting
        <5> QED BY <3>3, <5>3 DEF Busy
      <4> QED BY <4>1, <4>2
    <3> QED BY <2>1, <3>1, <3>2, <3>3 DEF Busy
  <2> QED BY <1>0, <2>1, KnownKept
<1> QED BY <1>2, <1>4, <1>5

(* The shard's thread. *)
LEMMA ShardReach ==
    ASSUME IInv, Driven, Reach, IInv', NEW l \in Lanes, Task(l) \/ \E x \in Exchanges : Network(l, x)
    PROVE  Known' /\ Followed' /\ Reached'
<1>0. Typed /\ Known /\ Flagged /\ \A m \in Lanes : active[m] \subseteq Exchanges
  BY DEF IInv, Reach, Typed
<1>1. ASSUME NEW x \in Exchanges, Start(l, x) PROVE Known' /\ Followed' /\ Reached'
  <2>1. /\ Runs(l, "start")
        /\ UNCHANGED <<made, current, stopped, canceller, aim, shutting, queue>>
        /\ \A y \in Exchanges : lane'[y] = lane[y] \/ lane'[y] = 0
    BY <1>1 DEF Start, Answer, MoveTo, cancel
  <2>2. \A m \in Lanes \ {l} : active'[m] = active[m]
    BY <1>0, <1>1 DEF Start, Typed
  <2>3. \A y \in active'[l] : y \in active[l] \/ canceller[y] = "idle"
    <3>1. active'[l] = active[l] \/ (~flag[x] /\ active'[l] = active[l] \cup {x})
      BY <1>0, <1>1 DEF Start, Typed
    <3> QED BY <1>0, <3>1 DEF Flagged
  <2>4. posts[l][1].task = "start"
    BY <1>0, <2>1, TaskRun
  <2>5. \A y \in active'[l] : posts[l][1] # Post("cancel", y)
    BY <2>4, SMT DEF Post
  <2> QED BY <2>1, <2>2, <2>3, <2>5, TaskReach
<1>2. ASSUME NEW x \in Exchanges, CancelActive(l, x) PROVE Known' /\ Followed' /\ Reached'
  <2>1. /\ Runs(l, "cancel")
        /\ UNCHANGED <<made, current, stopped, canceller, aim, shutting, queue>>
        /\ \A y \in Exchanges : lane'[y] = lane[y] \/ lane'[y] = 0
    BY <1>2 DEF CancelActive, Answer, cancel, exchange
  <2>2. /\ \A m \in Lanes \ {l} : active'[m] = active[m]
        /\ active'[l] = active[l] \ {x}
    BY <1>0, <1>2 DEF CancelActive, Typed
  <2>3. posts[l][1].of = x
    <3>1. PICK q \in Seq(Tasks) : q = posts[l]
      BY <1>0 DEF Typed
    <3>2. Head(q) = q[1]
      BY <2>1, <3>1, Shrinks DEF Runs
    <3> QED BY <1>2, <3>1, <3>2 DEF CancelActive
  <2>4. \A y \in active'[l] : posts[l][1] # Post("cancel", y)
    BY <2>2, <2>3, SMT DEF Post
  <2> QED BY <2>1, <2>2, <2>4, TaskReach
<1>3. ASSUME ShutDownShard(l) PROVE Known' /\ Followed' /\ Reached'
  <2>1. /\ Runs(l, "shutdown")
        /\ UNCHANGED <<made, current, stopped, canceller, aim, shutting, queue>>
        /\ \A y \in Exchanges : lane'[y] = lane[y] \/ lane'[y] = 0
    BY <1>3 DEF ShutDownShard, Answer, cancel
  <2>2. active'[l] = {} /\ \A m \in Lanes \ {l} : active'[m] = active[m]
    BY <1>0, <1>3 DEF ShutDownShard, Typed
  <2> QED BY <2>1, <2>2, TaskReach
<1>4. ASSUME OnTransferFinished(l) \/ \E x \in Exchanges : Network(l, x)
      PROVE  Known' /\ Followed' /\ Reached'
  <2>1. /\ UNCHANGED <<posts, stopped, canceller, aim, shutting, queue, made, current>>
        /\ \A y \in Exchanges : lane'[y] = lane[y] \/ lane'[y] = 0
    BY <1>4 DEF OnTransferFinished, Network, FinishAnswers, FinishDispatches, Answer, shard,
       cancel, exchange
  <2>2. \A m \in Lanes : active'[m] \subseteq active[m]
    <3>1. active' = active \/ \E x \in Exchanges : active' = [active EXCEPT ![l] = @ \ {x}]
      BY <1>4 DEF OnTransferFinished, Network, FinishAnswers, FinishDispatches, shard
    <3> QED BY <1>0, <3>1 DEF Typed
  <2>3. Followed' /\ Reached'
    BY <1>0, <2>1, <2>2, ApartReach
  <2>4. \A m \in Lanes : Busy(m)' => Busy(m)
    BY <2>1, <2>2 DEF Busy, Starting
  <2> QED BY <1>0, <2>1, <2>3, <2>4, KnownKept
<1> QED BY <1>1, <1>2, <1>3, <1>4 DEF Task

(* The first two steps of LanePool::cancel: a transfer is in a lane of the
   table, or its lane is being shut down. *)
LEMMA ListReach ==
    ASSUME IInv, Reach, NEW x \in Exchanges, MarkCancelled(x) \/ ListLanes(x)
    PROVE  Known' /\ Followed' /\ Reached'
<1>0. /\ Typed /\ Known /\ Followed /\ Reached /\ Listed
      /\ \A m \in Lanes : active[m] \subseteq Exchanges
  BY DEF IInv, Reach, Typed
<1>1. UNCHANGED <<posts, stopped, shutting, queue, made, current, lane, active>>
  BY DEF MarkCancelled, ListLanes, shard, exchange
<1>2. \A l \in Lanes : /\ Starting(l)' = Starting(l) /\ Ending(l)' = Ending(l) /\ Busy(l)' = Busy(l)
                       /\ \A y \in Exchanges : Posted(l, y)' = Posted(l, y)
  BY <1>1 DEF Starting, Ending, Busy, Posted
<1>3. Known'
  BY <1>0, <1>1, <1>2, KnownKept
<1>4. Followed'
  BY <1>0, <1>1, <1>2, FollowedKept
<1>5. Reached'
  <2> SUFFICES ASSUME NEW l \in Lanes, NEW y \in active'[l]
               PROVE  /\ canceller'[y] = "listed" => l = aim'[y] \/ l \in shutting' \/ stopped'[l]
                      /\ canceller'[y] = "done" => Posted(l, y)' \/ l \in shutting' \/ stopped'[l]
    BY DEF Reached
  <2>1. y \in Exchanges /\ y \in active[l]
    BY <1>0, <1>1
  <2>2. CASE y # x
    <3>1. canceller'[y] = canceller[y] /\ aim'[y] = aim[y]
      BY <1>0, <2>1, <2>2 DEF MarkCancelled, ListLanes, Typed
    <3> QED BY <1>0, <1>1, <1>2, <2>1, <3>1 DEF Reached
  <2>3. CASE y = x /\ MarkCancelled(x)
    BY <1>0, <2>3 DEF MarkCancelled, Typed
  <2>4. CASE y = x /\ ListLanes(x)
    <3>1. aim'[x] = current /\ canceller'[x] = IF current = 0 THEN "done" ELSE "listed"
      BY <1>0, <2>4 DEF ListLanes, Typed
    <3>2. l <= made
      BY <1>0, <2>1 DEF Known, Busy
    <3>3. l = current \/ l \in shutting \/ stopped[l]
      BY <1>0, <3>2 DEF Listed
    <3>4. l # 0
      BY LaneAssumption, SMT DEF Lanes
    <3>5. canceller'[y] = "listed" => l = aim'[y] \/ l \in shutting' \/ stopped'[l]
      BY <1>1, <2>4, <3>1, <3>3
    <3>6. canceller'[y] = "done" => l \in shutting' \/ stopped'[l]
      <4>1. canceller'[x] = "done" => current = 0
        BY <3>1
      <4> QED BY <1>1, <2>4, <3>3, <3>4, <4>1
    <3> QED BY <3>5, <3>6
  <2> QED BY <2>2, <2>3, <2>4
<1> QED BY <1>3, <1>4, <1>5

(* A task that is posted and is no start. *)
LEMMA AppendReach ==
    ASSUME Typed, NEW l \in Lanes, NEW e \in Tasks, e.task # "start",
           posts' = [posts EXCEPT ![l] = Append(@, e)]
    PROVE  /\ \A m \in Lanes : Ending(m) \subseteq Ending(m)' /\ Starting(m)' = Starting(m)
           /\ \A m \in Lanes : \A x \in Exchanges : Posted(m, x) => Posted(m, x)'
           /\ e.task = "shutdown" => Len(posts[l]) + 1 \in Ending(l)' /\ Len(posts[l]) \in Nat
           /\ \A x \in Exchanges : e = Post("cancel", x) => Posted(l, x)'
<1>1. PICK q \in Seq(Tasks) : q = posts[l]
  BY DEF Typed
<1>2. /\ Append(q, e) \in Seq(Tasks) /\ Len(q) \in Nat
      /\ Len(Append(q, e)) = Len(q) + 1 /\ Append(q, e)[Len(q) + 1] = e
      /\ \A i \in 1..Len(q) : Append(q, e)[i] = q[i]
  BY Grows, SMT
<1>3. PICK r : r = Append(q, e)
  OBVIOUS
<1>4. posts'[l] = r /\ \A m \in Lanes \ {l} : posts'[m] = posts[m]
  <2>1. posts' = [posts EXCEPT ![l] = r]
    BY <1>1, <1>3
  <2> QED BY <1>2, <1>3, <2>1, PostsReplaced
<1>5. /\ Len(q) \in Nat /\ Len(r) = Len(q) + 1 /\ r[Len(q) + 1] = e
      /\ \A i \in 1..Len(q) : r[i] = q[i]
  BY <1>2, <1>3
<1>6. \A i \in 1..Len(q) : i \in 1..Len(r) /\ r[i] = q[i]
  BY <1>5, SMT
<1>7. \A m \in Lanes : \A i \in 1..Len(posts[m]) : i \in 1..Len(posts'[m]) /\ posts'[m][i] = posts[m][i]
  BY <1>1, <1>4, <1>6
<1>8. \A m \in Lanes : Ending(m) \subseteq Ending(m)'
  BY <1>7, PostsKept
<1>9. \A m \in Lanes : \A x \in Exchanges : Posted(m, x) => Posted(m, x)'
  BY <1>7, PostsKept
<1>10. Starting(l)' = Starting(l)
  <2>1. Starting(l)' = {i \in 1..Len(r) : r[i].task = "start"}
    BY <1>4 DEF Starting
  <2>2. Starting(l) = {i \in 1..Len(q) : q[i].task = "start"}
    BY <1>1 DEF Starting
  <2>3. \A i \in 1..Len(r) : i \in 1..Len(q) \/ i = Len(q) + 1
    BY <1>5, SMT
  <2> QED BY <1>5, <1>6, <2>1, <2>2, <2>3
<1>11. \A m \in Lanes \ {l} : Starting(m)' = Starting(m)
  BY <1>4 DEF Starting
<1>12. Len(q) + 1 \in 1..Len(r)
  BY <1>5, SMT
<1>13. e.task = "shutdown" => Len(q) + 1 \in Ending(l)'
  BY <1>4, <1>5, <1>12 DEF Ending
<1>14. \A x \in Exchanges : e = Post("cancel", x) => Posted(l, x)'
  BY <1>4, <1>5, <1>12 DEF Posted
<1> QED BY <1>1, <1>5, <1>8, <1>9, <1>10, <1>11, <1>13, <1>14

(* The last step of LanePool::cancel: what it posts finds the transfer. *)
LEMMA CancelReach ==
    ASSUME IInv, Driven, Reach, NEW x \in Exchanges, CancelLane(x)
    PROVE  Known' /\ Followed' /\ Reached'
<1>0. /\ Typed /\ Aimed /\ Known /\ Followed /\ Reached
      /\ \A m \in Lanes : active[m] \subseteq Exchanges
  BY DEF IInv, Reach, Typed
<1>1. PICK l \in Lanes : l = aim[x]
  BY <1>0, LaneAssumption, SMT DEF CancelLane, Typed, Aimed, Lanes
<1>2. /\ canceller[x] = "listed"
      /\ queue' = [queue EXCEPT ![l] = Without(queue[l], x)]
      /\ posts' = [posts EXCEPT ![l] = IF stopped[l] THEN @ ELSE Append(@, Post("cancel", x))]
      /\ UNCHANGED <<stopped, shutting, made, current, active>>
      /\ \A y \in Exchanges : lane'[y] = lane[y] \/ lane'[y] = 0
  BY <1>1 DEF CancelLane, Answer
<1>3. /\ \A m \in Lanes : Ending(m) \subseteq Ending(m)' /\ Starting(m)' = Starting(m)
      /\ \A m \in Lanes : \A y \in Exchanges : Posted(m, y) => Posted(m, y)'
      /\ Posted(l, x)' \/ stopped[l]
  <2>1. CASE stopped[l]
    <3>1. posts' = posts
      BY <1>0, <1>2, <2>1 DEF Typed
    <3> QED BY <2>1, <3>1 DEF Starting, Ending, Posted
  <2>2. CASE ~stopped[l]
    <3>1. Post("cancel", x) \in Tasks /\ Post("cancel", x).task # "start"
      BY DEF Post, Tasks
    <3>2. posts' = [posts EXCEPT ![l] = Append(@, Post("cancel", x))]
      BY <1>2, <2>2
    <3>3. \A m \in Lanes : Ending(m) \subseteq Ending(m)' /\ Starting(m)' = Starting(m)
      BY <1>0, <3>1, <3>2, AppendReach
    <3>4. \A m \in Lanes : \A y \in Exchanges : Posted(m, y) => Posted(m, y)'
      BY <1>0, <3>1, <3>2, AppendReach
    <3>5. Posted(l, x)'
      BY <1>0, <3>1, <3>2, AppendReach
    <3> QED BY <3>3, <3>4, <3>5
  <2> QED BY <2>1, <2>2
<1>4. Followed'
  BY <1>0, <1>2, <1>3, FollowedKept
<1>5. Known'
  <2>1. ASSUME NEW m \in Lanes, Busy(m)' PROVE Busy(m)
    <3>1. queue[m] = <<>> => queue'[m] = <<>>
      <4>1. queue[l] = <<>> => Without(queue[l], x) = queue[l]
        BY SMT DEF Without
      <4> QED BY <1>0, <1>2, <4>1 DEF Typed
    <3> QED BY <1>2, <1>3, <2>1, <3>1 DEF Busy
  <2> QED BY <1>0, <1>2, <2>1, KnownKept
<1>6. Reached'
  <2> SUFFICES ASSUME NEW m \in Lanes, NEW y \in active'[m]
               PROVE  /\ canceller'[y] = "listed" => m = aim'[y] \/ m \in shutting' \/ stopped'[m]
                      /\ canceller'[y] = "done" => Posted(m, y)' \/ m \in shutting' \/ stopped'[m]
    BY DEF Reached
  <2>1. y \in Exchanges /\ y \in active[m]
    BY <1>0, <1>2
  <2>2. CASE y # x
    <3>1. canceller'[y] = canceller[y] /\ aim'[y] = aim[y]
      BY <1>0, <2>1, <2>2 DEF CancelLane, Typed
    <3> QED BY <1>0, <1>2, <1>3, <2>1, <3>1 DEF Reached
  <2>3. CASE y = x
    <3>1. canceller'[x] = "done"
      BY <1>0 DEF CancelLane, Typed
    <3>2. m = l \/ m \in shutting \/ stopped[m]
      BY <1>0, <1>1, <1>2, <2>1, <2>3 DEF Reached
    <3> QED BY <1>2, <1>3, <2>3, <3>1, <3>2
  <2> QED BY <2>2, <2>3
<1> QED BY <1>4, <1>5, <1>6

(* sweep() and shutdown(): what is in a lane is left to its shard. *)
LEMMA ShutdownReach ==
    ASSUME IInv, Driven, Reach, Retire \/ ShutdownPool \/ \E l \in Lanes : ShutDownLane(l)
    PROVE  Known' /\ Followed' /\ Reached'
<1>0. /\ Typed /\ Known /\ Followed /\ Reached /\ InPosts /\ Driven
      /\ \A m \in Lanes : active[m] \subseteq Exchanges
  BY DEF IInv, Reach, Typed, Located
<1>1. CASE Retire \/ ShutdownPool
  <2>1. /\ UNCHANGED <<posts, stopped, canceller, aim, active, queue, made, lane>>
        /\ shutting \subseteq shutting' /\ current' = 0
    BY <1>1 DEF Retire, ShutdownPool, exchange, cancel, shard
  <2>2. Followed' /\ Reached'
    BY <1>0, <2>1, ApartReach
  <2>3. \A m \in Lanes : Busy(m)' => Busy(m)
    BY <2>1 DEF Busy, Starting
  <2> QED BY <1>0, <2>1, <2>2, <2>3, KnownKept
<1>2. ASSUME NEW l \in Lanes, ShutDownLane(l) PROVE Known' /\ Followed' /\ Reached'
  <2>1. /\ UNCHANGED <<canceller, aim, active, current, made>>
        /\ posts' = [posts EXCEPT ![l] = Append(@, Shutdown)]
        /\ queue' = [queue EXCEPT ![l] = <<>>]
        /\ \A y \in Exchanges : lane'[y] = lane[y] \/ lane'[y] = 0
        /\ \A m \in shutting : m = l \/ m \in shutting'
    BY <1>2 DEF ShutDownLane, Answer, cancel
  <2>2. stopped'[l] /\ \A m \in Lanes \ {l} : stopped'[m] = stopped[m]
    BY <1>0, <1>2, SMTT(30) DEF ShutDownLane, Driven
  <2>3. Shutdown \in Tasks /\ Shutdown.task = "shutdown"
    BY DEF Shutdown, Tasks
  <2>4. \A m \in Lanes : Ending(m) \subseteq Ending(m)' /\ Starting(m)' = Starting(m)
    BY <1>0, <2>1, <2>3, AppendReach
  <2>5. \A m \in Lanes : \A y \in Exchanges : Posted(m, y) => Posted(m, y)'
    BY <1>0, <2>1, <2>3, AppendReach
  <2>6. Len(posts[l]) + 1 \in Ending(l)' /\ Len(posts[l]) \in Nat
    BY <1>0, <2>1, <2>3, AppendReach
  <2>7. Followed'
    <3>1. ASSUME NEW m \in Lanes, m # l, stopped'[m]
          PROVE  /\ active'[m] # {} => Ending(m)' # {}
                 /\ \A i \in Starting(m)' : \E j \in Ending(m)' : j > i
      <4>1. stopped[m] /\ active'[m] = active[m]
        BY <2>1, <2>2, <3>1
      <4>2. /\ active[m] # {} => Ending(m) # {}
            /\ \A i \in Starting(m) : \E j \in Ending(m) : j > i
        BY <1>0, <4>1 DEF Followed
      <4> QED BY <2>4, <4>1, <4>2
    <3>2. Ending(l)' # {} /\ \A i \in Starting(l)' : \E j \in Ending(l)' : j > i
      <4>1. \A i \in Starting(l)' : i \in 1..Len(posts[l])
        BY <2>4 DEF Starting
      <4> QED BY <2>6, <4>1, SMT
    <3> QED BY <3>1, <3>2 DEF Followed
  <2>8. Reached'
    BY <1>0, <2>1, <2>2, <2>5, ReachedKept
  <2>9. Known'
    <3>1. \A m \in Lanes : queue'[m] = queue[m] \/ queue'[m] = <<>>
      BY <1>0, <2>1 DEF Typed
    <3>2. \A m \in Lanes : Busy(m)' => Busy(m)
      BY <2>1, <2>4, <3>1 DEF Busy
    <3> QED BY <1>0, <2>1, <3>2, KnownKept
  <2> QED BY <2>7, <2>8, <2>9
<1> QED BY <1>1, <1>2

(* Every step keeps the cancellations on their way. *)
LEMMA ReachStep == Counts /\ IInv /\ Driven /\ Reach /\ [Next]_vars => Reach'
<1> SUFFICES ASSUME Counts, IInv, Driven, Reach, [Next]_vars PROVE Reach'
  OBVIOUS
<1>0. IInv'
  BY IInvStep
<1>1. Flagged' /\ Listed'
  BY FlaggedStep, ListedStep DEF IInv, Reach
<1>2. CASE \/ \E l \in Lanes : \E d \in Deadlines : TimerFires(l, d)
           \/ ResetBackoff \/ UNCHANGED vars
  <2>1. UNCHANGED <<posts, stopped, canceller, aim, active, shutting, queue, made, current, lane>>
    BY <1>2 DEF TimerFires, ResetBackoff, vars, exchange, cancel, shard
  <2>2. Followed' /\ Reached'
    BY <2>1, ApartReach DEF IInv, Typed
  <2>3. \A m \in Lanes : Busy(m)' => Busy(m)
    BY <2>1 DEF Busy, Starting
  <2>4. Known'
    BY <2>1, <2>3, KnownKept DEF IInv, Reach
  <2> QED BY <1>1, <2>2, <2>4 DEF Reach
<1>3. CASE \E x \in Exchanges : Send(x) \/ Dispatch(x) \/ MarkCancelled(x) \/ Cancel(x)
  <2>1. Known' /\ Followed' /\ Reached'
    BY <1>3, DispatchReach, ListReach, CancelReach DEF Cancel
  <2> QED BY <1>1, <2>1 DEF Reach
<1>4. CASE \/ \E l \in Lanes : \/ \E n \in 0..Ceiling : Pump(l, n)
                               \/ Task(l) \/ \E x \in Exchanges : Network(l, x)
                               \/ ShutDownLane(l)
           \/ Retire \/ ShutdownPool
  <2>1. Known' /\ Followed' /\ Reached'
    BY <1>0, <1>4, PumpReach, ShardReach, ShutdownReach
  <2> QED BY <1>1, <2>1, SMT DEF Reach
<1> QED BY <1>2, <1>3, <1>4 DEF Next

-----------------------------------------------------------------------------
(* The places of a lane. *)
Taken(l) ==
    Cardinality(active[l]) + Cardinality(Starting(l)) + (IF thread[l] = "idle" THEN 0 ELSE 1)

Balanced(l) ==
    /\ IsFiniteSet(active[l])
    /\ ~stopped[l] => inflight[l] = Taken(l) /\ inflight[l] <= Ceiling

Slots == Driven /\ \A l \in Lanes : Balanced(l)

(* A lane whose part of the state stays keeps its balance. *)
LEMMA BalanceStays ==
    ASSUME NEW l \in Lanes, Balanced(l), Starting(l)' = Starting(l), active'[l] = active[l],
           thread'[l] = "idle" <=> thread[l] = "idle",
           inflight'[l] = inflight[l], stopped'[l] = stopped[l]
    PROVE  Balanced(l)'
BY DEF Balanced, Taken

(* The starts posted to a shard are finitely many. *)
LEMMA StartsFinite ==
    ASSUME Typed, NEW l \in Lanes
    PROVE  /\ IsFiniteSet(Starting(l)) /\ Cardinality(Starting(l)) \in Nat
           /\ Starting(l) \subseteq 1..Len(posts[l]) /\ Len(posts[l]) \in Nat
<1>1. Len(posts[l]) \in Nat
  BY SMT DEF Typed
<1>2. IsFiniteSet(1..Len(posts[l]))
  BY <1>1, FS_Interval, SMT
<1>3. Starting(l) \in SUBSET (1..Len(posts[l]))
  BY DEF Starting
<1>4. IsFiniteSet(Starting(l))
  BY <1>2, <1>3, FS_Subset
<1> QED BY <1>1, <1>3, <1>4, FS_CardinalityType

(* pump() posts n of them. *)
LEMMA StartsPosted ==
    ASSUME Typed, NEW l \in Lanes, NEW n \in Nat,
           Starting(l)' = Starting(l) \cup ((Len(posts[l]) + 1)..(Len(posts[l]) + n))
    PROVE  Cardinality(Starting(l)') = Cardinality(Starting(l)) + n
<1>1. /\ IsFiniteSet(Starting(l)) /\ Cardinality(Starting(l)) \in Nat
      /\ Starting(l) \subseteq 1..Len(posts[l]) /\ Len(posts[l]) \in Nat
  BY StartsFinite
<1>2. PICK T : T = (Len(posts[l]) + 1)..(Len(posts[l]) + n)
  OBVIOUS
<1>3. IsFiniteSet(T) /\ Cardinality(T) = n
  <2>1. Len(posts[l]) + 1 \in Int /\ Len(posts[l]) + n \in Int
    BY <1>1, SMT
  <2>2. /\ IsFiniteSet(T)
        /\ Cardinality(T) = IF Len(posts[l]) + 1 > Len(posts[l]) + n THEN 0
                            ELSE (Len(posts[l]) + n) - (Len(posts[l]) + 1) + 1
    BY <1>2, <2>1, FS_Interval
  <2> QED BY <1>1, <2>2, SMT
<1>4. Starting(l) \cap T = {}
  BY <1>1, <1>2, SMT
<1>5. Cardinality(Starting(l) \cup T) = Cardinality(Starting(l)) + Cardinality(T) - Cardinality({})
  BY <1>1, <1>3, <1>4, FS_Union, SMT
<1> QED BY <1>1, <1>2, <1>3, <1>5, FS_EmptySet, SMT

(* The shard's thread takes the first task of its loop. *)
LEMMA StartsTaken ==
    ASSUME Typed, NEW l \in Lanes, posts[l] # <<>>, posts'[l] = Tail(posts[l])
    PROVE  Cardinality(Starting(l)') =
               Cardinality(Starting(l)) - (IF posts[l][1].task = "start" THEN 1 ELSE 0)
<1>1. /\ IsFiniteSet(Starting(l)) /\ Cardinality(Starting(l)) \in Nat
  BY StartsFinite
<1>2. PICK q \in Seq(Tasks) : q = posts[l]
  BY DEF Typed
<1>3. /\ Len(q) \in Nat /\ Len(q) > 0
      /\ Len(Tail(q)) = Len(q) - 1
      /\ \A i \in 1..(Len(q) - 1) : Tail(q)[i] = q[i + 1]
  BY <1>2, Shrinks
<1>4. PICK T : T = Starting(l) \ {1}
  OBVIOUS
<1>5. Starting(l)' = {i \in 1..(Len(q) - 1) : q[i + 1].task = "start"}
  BY <1>2, <1>3, SMT DEF Starting
<1>6. Starting(l) = {i \in 1..Len(q) : q[i].task = "start"}
  BY <1>2 DEF Starting
<1>7. PICK f : f = [i \in T |-> i - 1]
  OBVIOUS
<1>8. f \in [T -> Starting(l)']
  <2>1. ASSUME NEW i \in T PROVE i - 1 \in Starting(l)'
    <3>1. i \in 1..Len(q) /\ i # 1 /\ q[i].task = "start"
      BY <1>4, <1>6, <2>1
    <3>2. i - 1 \in 1..(Len(q) - 1) /\ (i - 1) + 1 = i
      BY <1>3, <3>1, SMT
    <3> QED BY <1>5, <3>1, <3>2
  <2> QED BY <1>7, <2>1
<1>9. \A i, j \in T : f[i] = f[j] => i = j
  BY <1>3, <1>4, <1>6, <1>7, SMT
<1>10. \A j \in Starting(l)' : \E i \in T : f[i] = j
  <2> TAKE j \in Starting(l)'
  <2>1. j \in 1..(Len(q) - 1) /\ q[j + 1].task = "start"
    BY <1>5
  <2>2. j + 1 \in 1..Len(q) /\ j + 1 # 1 /\ (j + 1) - 1 = j
    BY <1>3, <2>1, SMT
  <2>3. j + 1 \in T
    BY <1>4, <1>6, <2>1, <2>2
  <2> QED BY <1>7, <2>2, <2>3
<1>11. ExistsBijection(T, Starting(l)')
  BY <1>8, <1>9, <1>10 DEF ExistsBijection, Bijection, Injection, Surjection, IsInjective
<1>12. /\ IsFiniteSet(T)
       /\ Cardinality(T) = IF 1 \in Starting(l) THEN Cardinality(Starting(l)) - 1
                           ELSE Cardinality(Starting(l))
  BY <1>1, <1>4, FS_RemoveElement
<1>13. Cardinality(Starting(l)') = Cardinality(T)
  BY <1>11, <1>12, FS_Bijection
<1>14. 1 \in Starting(l) <=> posts[l][1].task = "start"
  BY <1>2, <1>3, <1>6, SMT
<1> QED BY <1>1, <1>12, <1>13, <1>14, SMT

(* A step of one lane. *)
LEMMA OneLane ==
    ASSUME Slots, NEW l \in Lanes, Driven', Balanced(l)',
           \A m \in Lanes \ {l} :
               /\ posts'[m] = posts[m] /\ active'[m] = active[m] /\ thread'[m] = thread[m]
               /\ inflight'[m] = inflight[m] /\ stopped'[m] = stopped[m]
    PROVE  Slots'
<1>1. ASSUME NEW m \in Lanes, m # l PROVE Balanced(m)'
  <2>1. Starting(m)' = Starting(m)
    BY <1>1 DEF Starting
  <2>2. Balanced(m)
    BY DEF Slots
  <2> QED BY <1>1, <2>1, <2>2, BalanceStays
<1> QED BY <1>1 DEF Slots

(* dispatch() goes on, or returns to the finish() it came from. *)
LEMMA DispatchSlots ==
    ASSUME Typed, Slots, NEW x \in Exchanges, UNCHANGED <<posts, active, inflight, stopped>>,
           \/ UNCHANGED <<via, thread>>
           \/ DispatchEnds(x) /\ via'[x] = 0 /\ \A y \in Exchanges \ {x} : via'[y] = via[y]
    PROVE  Slots'
<1>1. Driven /\ \A l \in Lanes : Balanced(l)
  BY DEF Slots
<1>2. \A l \in Lanes : thread'[l] = "idle" <=> thread[l] = "idle"
  <2>1. CASE DispatchEnds(x) /\ via[x] # 0
    BY <1>1, <2>1 DEF DispatchEnds, Driven
  <2>2. CASE thread' = thread
    BY <2>2
  <2> QED BY <2>1, <2>2 DEF DispatchEnds
<1>3. Driven'
  <2>1. CASE UNCHANGED <<via, thread>>
    BY <1>1, <2>1 DEF Driven
  <2>2. CASE DispatchEnds(x) /\ via'[x] = 0 /\ \A y \in Exchanges \ {x} : via'[y] = via[y]
    <3>1. thread' \in [Lanes -> {"idle", "dispatching", "ending"}]
      BY <1>1, <2>2 DEF DispatchEnds, Driven
    <3>2. ASSUME NEW y \in Exchanges, via'[y] # 0
          PROVE  y # x /\ via'[y] = via[y] /\ via[y] \in Lanes /\ thread'[via[y]] = "dispatching"
      <4>1. y # x /\ via'[y] = via[y] /\ via[y] # 0 /\ via[y] \in Lanes
        BY <2>2, <3>2, LaneAssumption, SMT DEF Typed, Lanes
      <4>2. thread[via[y]] = "dispatching" /\ via[y] # via[x]
        BY <1>1, <4>1 DEF Driven
      <4> QED BY <1>1, <2>2, <4>1, <4>2 DEF DispatchEnds, Driven
    <3>3. \A y, z \in Exchanges : via'[y] = via'[z] => y = z \/ via'[y] = 0
      BY <1>1, <3>2, SMTT(30) DEF Driven
    <3> QED BY <1>1, <3>1, <3>2, <3>3 DEF Driven
  <2> QED BY <2>1, <2>2
<1>4. ASSUME NEW l \in Lanes PROVE Balanced(l)'
  <2>1. Starting(l)' = Starting(l)
    BY DEF Starting
  <2> QED BY <1>1, <1>2, <2>1, BalanceStays
<1> QED BY <1>3, <1>4 DEF Slots

(* A task is posted that is no start. *)
LEMMA PostSlots ==
    ASSUME Typed, InPosts, Slots, NEW l \in Lanes, NEW e \in Tasks, e.task # "start",
           posts' = [posts EXCEPT ![l] = Append(@, e)],
           \A x \in Exchanges : at[x] = "posted" => at'[x] = "posted",
           \A x \in Exchanges : via'[x] = via[x] \/ via'[x] = 0,
           UNCHANGED <<active, thread, inflight>>,
           stopped' \in [Lanes -> BOOLEAN], \A m \in Lanes \ {l} : stopped'[m] = stopped[m],
           e.task = "shutdown" \/ stopped'[l] = stopped[l],
           e.task = "shutdown" => stopped'[l]
    PROVE  Slots'
<1>0. Driven /\ Balanced(l)
  BY DEF Slots
<1>1. PICK q \in Seq(Tasks) : q = posts[l]
  BY DEF Typed
<1>2. /\ Append(q, e) \in Seq(Tasks) /\ Len(q) \in Nat
      /\ Len(Append(q, e)) = Len(q) + 1 /\ Append(q, e)[Len(q) + 1] = e
      /\ \A i \in 1..Len(q) : Append(q, e)[i] = q[i]
  BY Grows, SMTT(30)
<1>3. posts'[l] = Append(q, e) /\ \A m \in Lanes \ {l} : posts'[m] = posts[m]
  <2>1. posts' = [posts EXCEPT ![l] = Append(q, e)]
    BY <1>1
  <2> QED BY <1>2, <2>1, PostsReplaced
<1>4. Starting(l)' = Starting(l)
  BY <1>1, <1>3, PostOther
<1>5. Driven'
  <2>1. ASSUME NEW m \in Lanes, NEW i \in 1..Len(posts'[m]), posts'[m][i].task = "shutdown"
        PROVE  stopped'[m]
    <3>1. CASE m # l
      BY <1>0, <1>3, <2>1, <3>1 DEF Driven
    <3>2. CASE m = l /\ i \in 1..Len(q)
      <4>1. posts[l][i].task = "shutdown" /\ i \in 1..Len(posts[l])
        BY <1>1, <1>2, <1>3, <2>1, <3>2, SMT
      <4>2. stopped[l]
        BY <1>0, <4>1 DEF Driven
      <4> QED BY <3>2, <4>2
    <3>3. CASE m = l /\ i = Len(q) + 1
      BY <1>2, <1>3, <2>1, <3>3
    <3>4. m = l => i \in 1..Len(q) \/ i = Len(q) + 1
      BY <1>2, <1>3, SMT
    <3> QED BY <3>1, <3>2, <3>3, <3>4
  <2>2. \A x, y \in Exchanges : via'[x] = via'[y] => x = y \/ via'[x] = 0
    BY <1>0, SMT DEF Driven
  <2>3. \A x \in Exchanges : via'[x] # 0 => thread'[via'[x]] = "dispatching"
    BY <1>0 DEF Driven
  <2> QED BY <1>0, <2>1, <2>2, <2>3 DEF Driven
<1>6. Balanced(l)'
  <2>1. CASE stopped'[l] = stopped[l]
    BY <1>0, <1>4, <2>1, BalanceStays
  <2>2. CASE stopped'[l]
    BY <1>0, <2>2 DEF Balanced
  <2> QED BY <2>1, <2>2
<1> QED BY <1>3, <1>5, <1>6, OneLane

(* The thread of a shard goes on with something else than a dispatch(). *)
LEMMA DrivenStays ==
    ASSUME Typed, Driven, NEW l \in Lanes, thread[l] # "dispatching",
           NEW t \in {"idle", "ending"}, thread' = [thread EXCEPT ![l] = t],
           \A m \in Lanes : posts'[m] = posts[m] \/ (posts[m] # <<>> /\ posts'[m] = Tail(posts[m])),
           \A x \in Exchanges : via'[x] = via[x] \/ via'[x] = 0,
           stopped' = stopped
    PROVE  Driven'
<1>1. ASSUME NEW m \in Lanes, NEW i \in 1..Len(posts'[m]), posts'[m][i].task = "shutdown"
      PROVE  stopped'[m]
  <2>1. CASE posts'[m] = posts[m]
    BY <1>1, <2>1 DEF Driven
  <2>2. CASE posts[m] # <<>> /\ posts'[m] = Tail(posts[m])
    <3>1. PICK q \in Seq(Tasks) : q = posts[m]
      BY DEF Typed
    <3>2. /\ Len(q) \in Nat /\ Len(Tail(q)) = Len(q) - 1
          /\ \A j \in 1..(Len(q) - 1) : Tail(q)[j] = q[j + 1]
      BY <2>2, <3>1, Shrinks
    <3>3. i \in 1..(Len(q) - 1) /\ i + 1 \in 1..Len(q)
      BY <2>2, <3>1, <3>2, SMT
    <3>4. q[i + 1].task = "shutdown"
      BY <1>1, <2>2, <3>1, <3>2, <3>3
    <3> QED BY <3>1, <3>3, <3>4 DEF Driven
  <2> QED BY <2>1, <2>2
<1>2. ASSUME NEW x \in Exchanges, via'[x] # 0 PROVE thread'[via'[x]] = "dispatching"
  <2>1. via'[x] = via[x] /\ via[x] # 0 /\ via[x] \in Lanes
    BY <1>2, LaneAssumption, SMT DEF Typed, Lanes
  <2>2. thread[via[x]] = "dispatching"
    BY <2>1 DEF Driven
  <2> QED BY <2>1, <2>2 DEF Driven
<1>3. \A x, y \in Exchanges : via'[x] = via'[y] => x = y \/ via'[x] = 0
  BY SMT DEF Driven
<1>4. thread' \in [Lanes -> {"idle", "dispatching", "ending"}] /\ stopped' \in [Lanes -> BOOLEAN]
  BY DEF Driven
<1> QED BY <1>1, <1>2, <1>3, <1>4 DEF Driven

(* pump(): the places it takes are the starts it posts, and are free. *)
LEMMA PumpSlots ==
    ASSUME Counts, IInv, Slots, NEW l \in Lanes, NEW n, Pump(l, n)
    PROVE  Slots'
<1>0. Typed /\ Driven /\ Balanced(l) /\ inflight[l] \in Nat /\ Ceiling \in Nat
  BY LaneAssumption DEF IInv, Slots, Counts
<1>1. n \in Nat /\ (n = 0 \/ (~stopped[l] /\ inflight[l] + n <= Ceiling))
  BY <1>0, PumpRoom
<1>2. \A m \in Lanes \ {l} : posts'[m] = posts[m]
  BY <1>0, PumpPosts
<1>3. \A i \in 1..Len(posts[l]) : i \in 1..Len(posts'[l]) /\ posts'[l][i] = posts[l][i]
  BY <1>0, PumpPosts
<1>4. /\ Len(posts[l]) \in Nat /\ Len(posts'[l]) = Len(posts[l]) + n
      /\ Starting(l)' = Starting(l) \cup ((Len(posts[l]) + 1)..(Len(posts[l]) + n))
  BY <1>0, PumpPosts
<1>5. Cardinality(Starting(l)') = Cardinality(Starting(l)) + n
  BY <1>0, <1>1, <1>4, StartsPosted, ZenonT(30)
<1>6. /\ UNCHANGED <<via, thread, stopped, active>>
      /\ inflight'[l] = inflight[l] + n /\ \A m \in Lanes \ {l} : inflight'[m] = inflight[m]
  BY DEF Pump, StartFirst, Counts
<1>7. Driven'
  <2>1. ASSUME NEW m \in Lanes, NEW i \in 1..Len(posts'[m]), posts'[m][i].task = "shutdown"
        PROVE  stopped'[m]
    <3>1. CASE m # l
      BY <1>0, <1>2, <1>6, <2>1, <3>1, SMT DEF Driven
    <3>2. CASE m = l
      <4>1. i \in 1..(Len(posts[l]) + n)
        BY <1>4, <3>2
      <4>2. i \notin (Len(posts[l]) + 1)..(Len(posts[l]) + n)
        BY <1>4, <2>1, <3>2 DEF Starting
      <4>3. i \in 1..Len(posts[l])
        BY <1>1, <1>4, <4>1, <4>2, SMT
      <4>4. posts[l][i].task = "shutdown"
        BY <1>3, <2>1, <3>2, <4>3
      <4> QED BY <1>0, <1>6, <3>2, <4>3, <4>4, SMT DEF Driven
    <3> QED BY <3>1, <3>2
  <2> QED BY <1>0, <1>6, <2>1 DEF Driven
<1>8. Balanced(l)'
  <2>1. Cardinality(active[l]) \in Nat /\ Cardinality(Starting(l)) \in Nat
    BY <1>0, FS_CardinalityType, StartsFinite DEF Balanced
  <2> QED BY <1>0, <1>1, <1>5, <1>6, <2>1, SMT DEF Balanced, Taken
<1> QED BY <1>2, <1>6, <1>7, <1>8, OneLane

(* A task is taken from the loop of a shard. *)
LEMMA TaskTaken ==
    ASSUME Typed, Slots, NEW l \in Lanes, NEW task, Runs(l, task)
    PROVE  /\ thread[l] = "idle" /\ posts[l] # <<>> /\ posts[l][1].task = task
           /\ posts'[l] = Tail(posts[l]) /\ \A m \in Lanes \ {l} : posts'[m] = posts[m]
           /\ Cardinality(Starting(l)) \in Nat /\ Cardinality(Starting(l)') \in Nat
           /\ Cardinality(Starting(l)') = Cardinality(Starting(l)) - (IF task = "start" THEN 1 ELSE 0)
           /\ IsFiniteSet(active[l]) /\ Cardinality(active[l]) \in Nat
<1>1. /\ thread[l] = "idle" /\ posts[l] # <<>> /\ posts[l][1].task = task
      /\ posts'[l] = Tail(posts[l]) /\ \A m \in Lanes \ {l} : posts'[m] = posts[m]
  BY TaskRun
<1>2. PICK q \in Seq(Tasks) : q = posts[l]
  BY DEF Typed
<1>3. Tail(q) \in Seq(Tasks)
  BY <1>1, <1>2, Shrinks
<1>4. Cardinality(Starting(l)') = Cardinality(Starting(l)) - (IF task = "start" THEN 1 ELSE 0)
  BY <1>1, StartsTaken
<1>5. Cardinality(Starting(l)) \in Nat
  BY StartsFinite
<1>6. Cardinality(Starting(l)') \in Nat
  <2>1. Starting(l)' \in SUBSET (1..Len(Tail(q))) /\ Len(Tail(q)) \in Nat
    BY <1>1, <1>2, <1>3, SMT DEF Starting
  <2>2. IsFiniteSet(1..Len(Tail(q)))
    BY <2>1, FS_Interval, SMT
  <2>3. IsFiniteSet(Starting(l)')
    BY <2>1, <2>2, FS_Subset
  <2> QED BY <2>3, FS_CardinalityType
<1>7. IsFiniteSet(active[l])
  BY DEF Slots, Balanced
<1>8. Cardinality(active[l]) \in Nat
  BY <1>7, FS_CardinalityType
<1> QED BY <1>1, <1>4, <1>5, <1>6, <1>7, <1>8

(* A place that was taken in one way is taken in another. *)
LEMMA Rebalanced ==
    ASSUME NEW l \in Lanes, Balanced(l), IsFiniteSet(active'[l]),
           ~stopped[l] => Taken(l)' = Taken(l),
           inflight'[l] = inflight[l], stopped'[l] = stopped[l]
    PROVE  Balanced(l)'
BY DEF Balanced

(* A posted start becomes a transfer, or is answered. *)
LEMMA StartSlots ==
    ASSUME IInv, Slots, NEW l \in Lanes, NEW x \in Exchanges, Start(l, x)
    PROVE  Slots'
<1>0. Typed /\ InPosts /\ InShard /\ Driven /\ Balanced(l)
  BY DEF IInv, Located, Slots
<1>1. Runs(l, "start") /\ UNCHANGED <<inflight, stopped>>
  BY DEF Start
<1>2. /\ thread[l] = "idle" /\ posts[l] # <<>> /\ posts[l][1].task = "start"
      /\ posts'[l] = Tail(posts[l]) /\ \A m \in Lanes \ {l} : posts'[m] = posts[m]
      /\ Cardinality(Starting(l)) \in Nat /\ Cardinality(Starting(l)') \in Nat
      /\ Cardinality(Starting(l)') = Cardinality(Starting(l)) - 1
      /\ IsFiniteSet(active[l]) /\ Cardinality(active[l]) \in Nat
  BY <1>0, <1>1, TaskTaken
<1>3. \A y \in Exchanges : via'[y] = via[y] \/ via'[y] = 0
  BY DEF Start, Answer, MoveTo
<1>4. \A m \in Lanes : posts'[m] = posts[m] \/ (posts[m] # <<>> /\ posts'[m] = Tail(posts[m]))
  BY <1>2
<1>5. thread[l] # "dispatching" /\ stopped' = stopped
  BY <1>1, <1>2
<1>6. CASE thread' = [thread EXCEPT ![l] = "ending"] /\ UNCHANGED active
  <2>1. Driven'
    BY <1>0, <1>3, <1>6, <1>4, <1>5, DrivenStays
  <2>2. Taken(l)' = Taken(l)
    <3>1. thread'[l] = "ending"
      BY <1>0, <1>6 DEF Driven
    <3> QED BY <1>2, <1>6, <3>1, SMT DEF Taken
  <2>3. Balanced(l)'
    BY <1>0, <1>1, <1>2, <1>6, <2>2, Rebalanced
  <2>4. \A m \in Lanes \ {l} : thread'[m] = thread[m]
    BY <1>0, <1>6 DEF Driven
  <2> QED BY <1>1, <1>2, <1>6, <2>1, <2>3, <2>4, OneLane
<1>7. CASE active' = [active EXCEPT ![l] = @ \cup {x}] /\ UNCHANGED thread
  <2>1. Driven'
    <3>1. thread' = [thread EXCEPT ![l] = "idle"]
      BY <1>0, <1>2, <1>7 DEF Driven
    <3> QED BY <1>0, <1>3, <3>1, <1>4, <1>5, DrivenStays
  <2>2. x \notin active[l]
    <3>1. PICK q \in Seq(Tasks) : q = posts[l]
      BY <1>0 DEF Typed
    <3>2. Head(q) = q[1] /\ Len(q) \in Nat /\ Len(q) > 0
      BY <1>2, <3>1, Shrinks
    <3>3. 1 \in Starting(l)
      BY <1>2, <3>1, <3>2, SMT DEF Starting
    <3>4. posts[l][1].of = x
      BY <3>1, <3>2 DEF Start
    <3>5. at[x] = "posted"
      BY <1>0, <3>3, <3>4 DEF InPosts
    <3> QED BY <1>0, <3>5 DEF InShard
  <2>3. active'[l] = active[l] \cup {x} /\ \A m \in Lanes \ {l} : active'[m] = active[m]
    BY <1>0, <1>7 DEF Typed
  <2>4. IsFiniteSet(active'[l]) /\ Cardinality(active'[l]) = Cardinality(active[l]) + 1
    <3>1. IsFiniteSet(active[l])
      BY <1>2
    <3> QED BY <2>2, <2>3, <3>1, FS_AddElement, ZenonT(30)
  <2>5. Taken(l)' = Taken(l)
    BY <1>2, <1>7, <2>4, SMT DEF Taken
  <2>6. Balanced(l)'
    BY <1>0, <1>1, <2>4, <2>5, Rebalanced
  <2> QED BY <1>1, <1>2, <1>7, <2>1, <2>3, <2>6, OneLane
<1> QED BY <1>6, <1>7 DEF Start

(* A transfer leaves the shard and its place is the thread's. *)
LEMMA LeavesShard ==
    ASSUME Typed, Slots, NEW l \in Lanes, NEW x \in active[l], thread[l] = "idle",
           Driven', Cardinality(Starting(l)') = Cardinality(Starting(l)),
           active' = [active EXCEPT ![l] = @ \ {x}],
           NEW t, t # "idle", thread' = [thread EXCEPT ![l] = t],
           \A m \in Lanes \ {l} : posts'[m] = posts[m],
           UNCHANGED <<inflight, stopped>>
    PROVE  Slots'
<1>1. Driven /\ Balanced(l)
  BY DEF Slots
<1>2. active'[l] = active[l] \ {x} /\ \A m \in Lanes \ {l} : active'[m] = active[m]
  BY DEF Typed
<1>3. thread'[l] = t /\ \A m \in Lanes \ {l} : thread'[m] = thread[m]
  BY <1>1 DEF Driven
<1>4. IsFiniteSet(active[l])
  BY <1>1 DEF Balanced
<1>5. IsFiniteSet(active'[l]) /\ Cardinality(active'[l]) = Cardinality(active[l]) - 1
  BY <1>2, <1>4, FS_RemoveElement
<1>6. Cardinality(active[l]) \in Nat /\ Cardinality(Starting(l)) \in Nat
  BY <1>4, FS_CardinalityType, StartsFinite
<1>7. Taken(l)' = Taken(l)
  BY <1>3, <1>5, <1>6, SMT DEF Taken
<1>8. Balanced(l)'
  BY <1>1, <1>5, <1>7, Rebalanced
<1> QED BY <1>2, <1>3, <1>8, OneLane

(* finish() with an answer. *)
LEMMA FinishSlots ==
    ASSUME IInv, Slots, NEW l \in Lanes, NEW x \in Exchanges, FinishAnswers(l, x)
    PROVE  Slots'
<1>0. Typed /\ Driven
  BY DEF IInv, Slots
<1>1. /\ x \in active[l] /\ thread[l] = "idle" /\ thread[l] # "dispatching"
      /\ active' = [active EXCEPT ![l] = @ \ {x}]
      /\ thread' = [thread EXCEPT ![l] = "ending"]
      /\ UNCHANGED <<inflight, stopped, posts>>
  BY DEF FinishAnswers
<1>2. \A y \in Exchanges : via'[y] = via[y] \/ via'[y] = 0
  BY DEF FinishAnswers, Answer
<1>3. \A m \in Lanes : posts'[m] = posts[m]
  BY <1>1
<1>4. Driven'
  BY <1>0, <1>1, <1>2, <1>3, DrivenStays
<1>5. Starting(l)' = Starting(l)
  BY <1>1 DEF Starting
<1> QED BY <1>0, <1>1, <1>3, <1>4, <1>5, LeavesShard

(* finish() that dispatches again. *)
LEMMA RedirectSlots ==
    ASSUME IInv, Slots, NEW l \in Lanes, NEW x \in Exchanges, FinishDispatches(l, x)
    PROVE  Slots'
<1>0. Typed /\ Driven
  BY DEF IInv, Slots
<1>1. /\ x \in active[l] /\ thread[l] = "idle"
      /\ active' = [active EXCEPT ![l] = @ \ {x}]
      /\ thread' = [thread EXCEPT ![l] = "dispatching"]
      /\ via' = [via EXCEPT ![x] = l]
      /\ UNCHANGED <<inflight, stopped, posts>>
  BY DEF FinishDispatches
<1>2. via'[x] = l /\ \A y \in Exchanges \ {x} : via'[y] = via[y]
  BY <1>0, <1>1 DEF Typed
<1>3. thread'[l] = "dispatching" /\ \A m \in Lanes \ {l} : thread'[m] = thread[m]
  BY <1>0, <1>1 DEF Driven
<1>4. \A y \in Exchanges : via[y] # 0 => via[y] # l /\ via[y] \in Lanes
  BY <1>0, <1>1, LaneAssumption, SMT DEF Typed, Driven, Lanes
<1>5. \A y \in Exchanges : via'[y] # 0 => thread'[via'[y]] = "dispatching"
  BY <1>0, <1>2, <1>3, <1>4, SMT DEF Driven
<1>6. l # 0
  BY LaneAssumption, SMT DEF Lanes
<1>7. \A y, z \in Exchanges : via'[y] = via'[z] => y = z \/ via'[y] = 0
  BY <1>0, <1>2, <1>4, <1>6, SMT DEF Driven
<1>8. Driven'
  BY <1>0, <1>1, <1>5, <1>7, SMT DEF Driven
<1>9. Starting(l)' = Starting(l)
  BY <1>1 DEF Starting
<1> QED BY <1>0, <1>1, <1>8, <1>9, LeavesShard

(* LaneShard::cancel. *)
LEMMA CancelSlots ==
    ASSUME IInv, Slots, NEW l \in Lanes, NEW x \in Exchanges, CancelActive(l, x)
    PROVE  Slots'
<1>0. Typed /\ Driven /\ Balanced(l)
  BY DEF IInv, Slots
<1>1. Runs(l, "cancel") /\ UNCHANGED <<inflight, stopped>>
  BY DEF CancelActive
<1>2. /\ thread[l] = "idle" /\ posts[l] # <<>>
      /\ posts'[l] = Tail(posts[l]) /\ \A m \in Lanes \ {l} : posts'[m] = posts[m]
      /\ Cardinality(Starting(l)) \in Nat
      /\ Cardinality(Starting(l)') = Cardinality(Starting(l)) - 0
      /\ IsFiniteSet(active[l])
  BY <1>0, <1>1, TaskTaken, SMT
<1>3. \A y \in Exchanges : via'[y] = via[y] \/ via'[y] = 0
  BY DEF CancelActive, Answer, exchange
<1>4. \A m \in Lanes : posts'[m] = posts[m] \/ (posts[m] # <<>> /\ posts'[m] = Tail(posts[m]))
  BY <1>2
<1>5. thread[l] # "dispatching" /\ stopped' = stopped
  BY <1>1, <1>2
<1>6. Cardinality(Starting(l)') = Cardinality(Starting(l))
  BY <1>2, SMT
<1>7. CASE x \in active[l]
  <2>1. active' = [active EXCEPT ![l] = @ \ {x}] /\ thread' = [thread EXCEPT ![l] = "ending"]
    BY <1>7 DEF CancelActive
  <2>2. Driven'
    BY <1>0, <1>3, <1>4, <1>5, <2>1, DrivenStays, ZenonT(30)
  <2> QED BY <1>0, <1>1, <1>2, <1>6, <1>7, <2>1, <2>2, LeavesShard
<1>8. CASE x \notin active[l]
  <2>1. UNCHANGED <<active, thread>>
    BY <1>8 DEF CancelActive
  <2>2. Driven'
    <3>1. thread' = [thread EXCEPT ![l] = "idle"]
      BY <1>0, <1>2, <2>1 DEF Driven
    <3> QED BY <1>0, <1>3, <1>4, <1>5, <3>1, DrivenStays, ZenonT(30)
  <2>3. Taken(l)' = Taken(l)
    BY <1>6, <2>1 DEF Taken
  <2>4. Balanced(l)'
    BY <1>0, <1>1, <1>2, <2>1, <2>3, Rebalanced
  <2> QED BY <1>1, <1>2, <2>1, <2>2, <2>4, OneLane, SMTT(30)
<1> QED BY <1>7, <1>8

(* LaneShard::shutdown runs in a lane that is stopped. *)
LEMMA ShutdownSlots ==
    ASSUME IInv, Slots, NEW l \in Lanes, ShutDownShard(l)
    PROVE  Slots'
<1>0. Typed /\ Driven /\ Balanced(l)
  BY DEF IInv, Slots
<1>1. Runs(l, "shutdown") /\ UNCHANGED <<inflight, stopped, thread>>
  BY DEF ShutDownShard
<1>2. /\ thread[l] = "idle" /\ posts[l] # <<>> /\ posts[l][1].task = "shutdown"
      /\ posts'[l] = Tail(posts[l]) /\ \A m \in Lanes \ {l} : posts'[m] = posts[m]
  BY <1>0, <1>1, TaskTaken
<1>3. \A y \in Exchanges : via'[y] = via[y] \/ via'[y] = 0
  BY DEF ShutDownShard, Answer
<1>4. \A m \in Lanes : posts'[m] = posts[m] \/ (posts[m] # <<>> /\ posts'[m] = Tail(posts[m]))
  BY <1>2
<1>5. thread[l] # "dispatching" /\ stopped' = stopped /\ thread' = [thread EXCEPT ![l] = "idle"]
  BY <1>0, <1>1, <1>2 DEF Driven
<1>6. Driven'
  BY <1>0, <1>3, <1>4, <1>5, DrivenStays
<1>7. active'[l] = {} /\ \A m \in Lanes \ {l} : active'[m] = active[m]
  BY <1>0 DEF ShutDownShard, Typed
<1>8. stopped[l]
  <2>1. PICK q \in Seq(Tasks) : q = posts[l]
    BY <1>0 DEF Typed
  <2>2. Len(q) \in Nat /\ Len(q) > 0
    BY <1>2, <2>1, Shrinks
  <2>3. 1 \in 1..Len(posts[l])
    BY <2>1, <2>2, SMT
  <2> QED BY <1>0, <1>2, <2>3 DEF Driven
<1>9. Balanced(l)'
  BY <1>1, <1>7, <1>8, FS_EmptySet DEF Balanced
<1> QED BY <1>1, <1>2, <1>6, <1>7, <1>9, OneLane

(* onTransferFinished() gives the place back. *)
LEMMA EndSlots ==
    ASSUME Counts, IInv, Slots, NEW l \in Lanes, OnTransferFinished(l)
    PROVE  Slots'
<1>0. Typed /\ Driven /\ Balanced(l) /\ inflight \in [Lanes -> Nat]
  BY DEF IInv, Slots, Counts
<1>1. /\ thread[l] = "ending" /\ thread[l] # "dispatching"
      /\ thread' = [thread EXCEPT ![l] = "idle"]
      /\ inflight' = [inflight EXCEPT ![l] = IF @ > 0 THEN @ - 1 ELSE 0]
      /\ UNCHANGED <<via, stopped, posts, active>>
  BY DEF OnTransferFinished, exchange, shard
<1>2. \A m \in Lanes : posts'[m] = posts[m]
  BY <1>1
<1>3. Driven'
  BY <1>0, <1>1, <1>2, DrivenStays
<1>4. Starting(l)' = Starting(l)
  BY <1>1 DEF Starting
<1>5. /\ thread'[l] = "idle" /\ \A m \in Lanes \ {l} : thread'[m] = thread[m]
      /\ inflight'[l] = IF inflight[l] > 0 THEN inflight[l] - 1 ELSE 0
      /\ \A m \in Lanes \ {l} : inflight'[m] = inflight[m]
  BY <1>0, <1>1 DEF Driven
<1>6. Cardinality(active[l]) \in Nat /\ Cardinality(Starting(l)) \in Nat
  BY <1>0, FS_CardinalityType, StartsFinite DEF Balanced
<1>7. Balanced(l)'
  BY <1>0, <1>1, <1>4, <1>5, <1>6, LaneAssumption, SMTT(30) DEF Balanced, Taken
<1> QED BY <1>1, <1>2, <1>3, <1>5, <1>7, OneLane

(* Nothing that counts changes. *)
LEMMA StaySlots ==
    ASSUME Slots, UNCHANGED <<posts, active, thread, inflight, stopped>>,
           \A x \in Exchanges : via'[x] = via[x] \/ via'[x] = 0
    PROVE  Slots'
<1>1. Driven /\ \A l \in Lanes : Balanced(l)
  BY DEF Slots
<1>2. Driven'
  BY <1>1 DEF Driven
<1>3. ASSUME NEW l \in Lanes PROVE Balanced(l)'
  <2>1. Starting(l)' = Starting(l)
    BY DEF Starting
  <2> QED BY <1>1, <2>1, BalanceStays
<1> QED BY <1>2, <1>3 DEF Slots

(* LanePool::cancel in a lane. *)
LEMMA CancelLaneSlots ==
    ASSUME IInv, Slots, NEW x \in Exchanges, CancelLane(x)
    PROVE  Slots'
<1>0. Typed /\ Aimed /\ InQueue /\ InPosts /\ Driven
  BY DEF IInv, Located, Slots
<1>1. PICK l \in Lanes : l = aim[x]
  BY <1>0, LaneAssumption, SMT DEF CancelLane, Typed, Aimed, Lanes
<1>2. /\ Answer({x} \cap Range(queue[l]))
      /\ posts' = [posts EXCEPT ![l] = IF stopped[l] THEN @ ELSE Append(@, Post("cancel", x))]
      /\ UNCHANGED <<active, thread, inflight, stopped>>
  BY <1>1, SMT DEF CancelLane
<1>3. \A y \in Exchanges : via'[y] = via[y] \/ via'[y] = 0
  BY <1>2 DEF Answer
<1>4. CASE stopped[l]
  <2>1. posts' = posts
    BY <1>0, <1>2, <1>4 DEF Typed
  <2> QED BY <1>2, <1>3, <2>1, StaySlots
<1>5. CASE ~stopped[l]
  <2>1. Post("cancel", x) \in Tasks /\ Post("cancel", x).task = "cancel"
    BY DEF Post, Tasks
  <2>2. posts' = [posts EXCEPT ![l] = Append(@, Post("cancel", x))]
    BY <1>2, <1>5
  <2>3. \A y \in Exchanges : at[y] = "posted" => at'[y] = "posted"
    <3>1. Range(queue[l]) = {queue[l][j] : j \in 1..Len(queue[l])}
      BY <1>0, QueueNames
    <3>2. \A y \in {x} \cap Range(queue[l]) : at[y] = "queued"
      BY <1>0, <3>1, SMT DEF InQueue
    <3> QED BY <1>2, <3>2 DEF Answer
  <2>4. stopped' \in [Lanes -> BOOLEAN] /\ \A m \in Lanes : stopped'[m] = stopped[m]
    BY <1>0, <1>2 DEF Driven
  <2> QED BY <1>0, <1>2, <1>3, <2>1, <2>2, <2>3, <2>4, PostSlots
<1> QED BY <1>4, <1>5

(* A lane is shut down: its places are no longer counted. *)
LEMMA ShutLaneSlots ==
    ASSUME IInv, Slots, NEW l \in Lanes, ShutDownLane(l)
    PROVE  Slots'
<1>0. Typed /\ InQueue /\ InPosts /\ Driven
  BY DEF IInv, Located, Slots
<1>1. /\ stopped' = [stopped EXCEPT ![l] = TRUE]
      /\ posts' = [posts EXCEPT ![l] = Append(@, Shutdown)]
      /\ Answer(Range(queue[l]))
      /\ UNCHANGED <<active, thread, inflight>>
  BY SMT DEF ShutDownLane
<1>2. Shutdown \in Tasks /\ Shutdown.task = "shutdown"
  BY DEF Shutdown, Tasks
<1>3. \A y \in Exchanges : via'[y] = via[y] \/ via'[y] = 0
  BY <1>1 DEF Answer
<1>4. \A y \in Exchanges : at[y] = "posted" => at'[y] = "posted"
  <2>1. Range(queue[l]) = {queue[l][j] : j \in 1..Len(queue[l])}
    BY <1>0, QueueNames
  <2>2. \A y \in Range(queue[l]) : at[y] = "queued"
    BY <1>0, <2>1, SMT DEF InQueue
  <2> QED BY <1>1, <2>2 DEF Answer
<1>5. /\ stopped' \in [Lanes -> BOOLEAN] /\ stopped'[l]
      /\ \A m \in Lanes \ {l} : stopped'[m] = stopped[m]
  BY <1>0, <1>1 DEF Driven
<1> QED BY <1>0, <1>1, <1>2, <1>3, <1>4, <1>5, PostSlots, ZenonT(30)

(* Every step keeps the count. *)
LEMMA SlotsStep == Counts /\ IInv /\ Slots /\ [Next]_vars => Slots'
<1> SUFFICES ASSUME Counts, IInv, Slots, [Next]_vars PROVE Slots'
  OBVIOUS
<1>0. Typed
  BY DEF IInv
<1>1. ASSUME NEW x \in Exchanges, Dispatch(x) PROVE Slots'
  <2>1. /\ UNCHANGED <<posts, active, inflight, stopped>>
        /\ \/ UNCHANGED <<via, thread>>
           \/ DispatchEnds(x) /\ via'[x] = 0 /\ \A y \in Exchanges \ {x} : via'[y] = via[y]
    <3>1. CASE CheckFlag(x)
      BY <3>1 DEF CheckFlag, Answer, MoveTo, shard
    <3>2. CASE LaneFor(x)
      BY <3>2 DEF LaneFor, Answer, shard
    <3>3. CASE Submit(x)
      BY <1>0, <3>3 DEF Submit, Answer, shard, Typed
    <3> QED BY <1>1, <3>1, <3>2, <3>3, SMT DEF Dispatch
  <2> QED BY <1>0, <2>1, DispatchSlots
<1>2. CASE \/ \E x \in Exchanges : Send(x) \/ MarkCancelled(x) \/ ListLanes(x)
           \/ \E l \in Lanes : \E d \in Deadlines : TimerFires(l, d)
           \/ ResetBackoff \/ Retire \/ ShutdownPool \/ UNCHANGED vars
  <2>1. UNCHANGED <<via, posts, active, thread, inflight, stopped>>
    BY <1>2 DEF Send, MoveTo, MarkCancelled, ListLanes, TimerFires, ResetBackoff, Retire,
       ShutdownPool, vars, exchange, shard
  <2> QED BY <2>1, StaySlots
<1>3. ASSUME NEW l \in Lanes, Task(l) \/ \E x \in Exchanges : Network(l, x)
      PROVE  Slots'
  BY <1>3, StartSlots, CancelSlots, ShutdownSlots, EndSlots, FinishSlots, RedirectSlots
     DEF Task, Network
<1> QED BY <1>1, <1>2, <1>3, PumpSlots, CancelLaneSlots, ShutLaneSlots, SMT DEF Next, Cancel

(* Nothing is in flight at first. *)
LEMMA SlotsInit == Init => Slots
<1>1. ASSUME Init, NEW l \in Lanes PROVE Balanced(l)
  <2>1. /\ active[l] = {} /\ posts[l] = <<>> /\ thread[l] = "idle"
        /\ inflight[l] = 0 /\ stopped[l] = FALSE
    BY <1>1 DEF Init
  <2>2. Starting(l) = {}
    BY <2>1, SMTT(30) DEF Starting
  <2> QED BY <2>1, <2>2, FS_EmptySet, LaneAssumption, SMTT(30) DEF Balanced, Taken
<1>2. Init => Driven
  BY SMT DEF Init, Driven
<1> QED BY <1>1, <1>2 DEF Slots

(* m_in_flight of a lane that is not stopped is the number of its transfers,
   of those it has posted and of the one that is ending on the shard's thread,
   and never exceeds the policy's concurrency: no error path of start(),
   finish() or cancel() leaks a place or gives one back twice. *)
THEOREM PlacesCounted == Spec => []SlotsCounted
<1>1. Slots => SlotsCounted
  BY SMT DEF Slots, Balanced, Taken, SlotsCounted
<1> QED BY <1>1, SlotsInit, SlotsStep, LaneTheorem, PTL DEF Spec

(* Once LanePool::cancel has returned, a transfer of the exchange is left only
   on a shard that has still to run the cancellation or a shutdown, whatever
   dispatch(), pump() and sweep() did between its three steps. *)
THEOREM CancelAlwaysReaches == Spec => []CancelReaches
<1>1. Init => Slots /\ Reach
  <2>1. Init => Reach
    BY LaneAssumption, SMT DEF Init, Reach, Known, Listed, Followed, Flagged, Reached, Busy, Starting, Lanes
  <2> QED BY <2>1, SlotsInit
<1>2. IInv /\ Reach => CancelReaches
  <2> SUFFICES ASSUME IInv, Reach, NEW x \in Exchanges, NEW l \in Lanes,
                      canceller[x] = "done", x \in active[l]
               PROVE  \/ Post("cancel", x) \in Range(posts[l])
                      \/ Shutdown \in Range(posts[l])
                      \/ l \in shutting
    BY SMT DEF CancelReaches
  <2>1. PICK q \in Seq(Tasks) : q = posts[l]
    BY DEF IInv, Typed
  <2>2. \A i \in 1..Len(q) : q[i] \in Range(q) /\ q[i] \in Tasks
    BY SMT DEF Range
  <2>3. CASE Posted(l, x)
    BY <2>1, <2>2, <2>3 DEF Posted
  <2>4. CASE stopped[l]
    <3>1. PICK j \in 1..Len(q) : q[j].task = "shutdown"
      BY <2>1, <2>4 DEF Reach, Followed, Ending
    <3>2. q[j] = Shutdown
      BY <2>2, <3>1 DEF Tasks, Shutdown
    <3> QED BY <2>1, <2>2, <3>2
  <2> QED BY <2>3, <2>4 DEF Reach, Reached
<1>3. Slots => Driven
  BY DEF Slots
<1> QED BY <1>1, <1>2, <1>3, SlotsStep, ReachStep, LaneTheorem, PTL DEF Spec
=============================================================================
