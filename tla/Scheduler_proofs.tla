-------------------------- MODULE Scheduler_proofs --------------------------
(***************************************************************************)
(* Theorems about the scheduler: the queues agree with the requests'       *)
(* states, and requests run in the order that the policy promises.         *)
(***************************************************************************)
EXTENDS Scheduler, KVAccounting

-----------------------------------------------------------------------------
(* Queues of requests. *)

\* A queue without repetitions.
Queue(q) == q \in Seq(Reqs) /\ Distinct(q)

\* The queue q is what the queue p becomes when the requests S join it.
Joined(q, p, S) == Queue(q) /\ Elements(q) = Elements(p) \cup S

(* Requests are numbers.                                                   *)
LEMMA ReqsAreNumbers == Reqs \subseteq Nat /\ 0 \notin Reqs
<1>1. Cardinality(Reqs) \in Nat
  BY KVCacheManagerAssumption, FS_CardinalityType
<1> QED BY <1>1, SchedulerAssumption

(* Request.__lt__ orders the requests totally.                             *)
LEMMA BeforeIsTotal ==
    ASSUME NEW r \in Reqs, NEW q \in Reqs, NEW x \in Reqs
    PROVE  /\ r # q => Before(r, q) \/ Before(q, r)
           /\ ~(Before(r, q) /\ Before(q, r)) /\ ~Before(r, r)
           /\ Before(r, q) /\ Before(q, x) => Before(r, x)
<1>1. /\ Priority[r] \in Int /\ Priority[q] \in Int /\ Priority[x] \in Int
      /\ r \in Nat /\ q \in Nat /\ x \in Nat
  BY SchedulerAssumption, ReqsAreNumbers
<1> QED BY <1>1 DEF Before

(* Two queues one after the other.                                         *)
LEMMA QueueJoin ==
    ASSUME NEW a, NEW b, Queue(a), Queue(b), Elements(a) \cap Elements(b) = {}
    PROVE  Queue(a \o b) /\ Elements(a \o b) = Elements(a) \cup Elements(b)
<1>1. a \in Seq(Reqs) /\ b \in Seq(Reqs) /\ Distinct(a) /\ Distinct(b)
  BY DEF Queue
<1>2. /\ a \o b \in Seq(Reqs) /\ Elements(a \o b) = Elements(a) \cup Elements(b)
      /\ Distinct(a \o b)
  BY <1>1, JoinElements
<1> QED BY <1>2 DEF Queue

(* A queue of one request.                                                 *)
LEMMA QueueOfOne ==
    ASSUME NEW r \in Reqs
    PROVE  Queue(<<r>>) /\ Elements(<<r>>) = {r}
  BY DEF Queue, Elements, Distinct

(* Some of the requests of a queue.                                        *)
LEMMA QueueOnly ==
    ASSUME NEW q, Queue(q), NEW S
    PROVE  /\ Queue(Only(q, S)) /\ Elements(Only(q, S)) = Elements(q) \cap S
           /\ InSameOrder(Only(q, S), q)
<1>1. q \in Seq(Reqs) /\ Distinct(q)
  BY DEF Queue
<1>2. \A i, j \in 1..Len(q) : q[i] = q[j] /\ q[i] \in S => i = j
  BY <1>1 DEF Distinct
<1>3. /\ Only(q, S) \in Seq(Reqs) /\ Elements(Only(q, S)) = Elements(q) \cap S
      /\ Distinct(Only(q, S))
  BY <1>1, <1>2, OnlyKeeps
<1>4. InSameOrder(Only(q, S), q)
  BY <1>1, OnlyOrder
<1> QED BY <1>3, <1>4 DEF Queue

(* The requests in a queue.                                                *)
LEMMA QueueElements ==
    ASSUME NEW q, Queue(q)
    PROVE  /\ q \in Seq(Reqs) /\ Elements(q) \subseteq Reqs /\ Len(q) \in Nat
           /\ q = <<>> <=> Elements(q) = {}
           /\ q = <<>> <=> Len(q) = 0
<1>1. q \in Seq(Reqs) /\ Len(q) \in Nat
  BY DEF Queue
<1>2. Elements(q) \subseteq Reqs
  BY <1>1 DEF Elements
<1>3. q = <<>> <=> Len(q) = 0
  BY <1>1, EmptySeq
<1>4. Len(q) # 0 => q[1] \in Elements(q)
  BY <1>1 DEF Elements
<1>5. Len(q) = 0 => Elements(q) = {}
  BY <1>1 DEF Elements
<1> QED BY <1>1, <1>2, <1>3, <1>4, <1>5

(* A queue without one of its requests.                                    *)
LEMMA WithoutFacts ==
    ASSUME NEW q, Queue(q), NEW r
    PROVE  /\ Queue(Without(q, r)) /\ Elements(Without(q, r)) = Elements(q) \ {r}
           /\ InSameOrder(Without(q, r), q)
<1>1. Elements(q) \cap (Reqs \ {r}) = Elements(q) \ {r}
  BY QueueElements
<1>2. /\ Queue(Only(q, Reqs \ {r})) /\ InSameOrder(Only(q, Reqs \ {r}), q)
      /\ Elements(Only(q, Reqs \ {r})) = Elements(q) \cap (Reqs \ {r})
  BY QueueOnly
<1> QED BY <1>1, <1>2 DEF Without

\* The order of the waiting queue: of arrival, or of priority.
Ahead(x, y) == IF Policy = "fcfs" THEN x < y ELSE Before(x, y)
Ordered(q) == \A i, j \in 1..Len(q) : i < j => Ahead(q[i], q[j])

(* Leaving some out keeps the order.                                       *)
LEMMA OrderedPart ==
    ASSUME NEW q, Ordered(q), NEW o, InSameOrder(o, q)
    PROVE  Ordered(o)
  BY DEF Ordered, InSameOrder

(* A queue after another is in order when both are and each request of the *)
(* first is ahead of each of the second.                                   *)
LEMMA OrderedJoin ==
    ASSUME NEW a \in Seq(Reqs), NEW b \in Seq(Reqs)
    PROVE  Ordered(a \o b) <=>
              Ordered(a) /\ Ordered(b) /\ \A x \in Elements(a), y \in Elements(b) : Ahead(x, y)
<1> DEFINE w == a \o b
           m == Len(a)
           n == Len(b)
<1>1. m \in Nat /\ n \in Nat
  OBVIOUS
<1>2. /\ Len(w) = m + n
      /\ \A i \in 1..m : w[i] = a[i]
      /\ \A i \in 1..n : w[m + i] = b[i]
      /\ \A i \in 1..(m + n) : i \in 1..m \/ i - m \in 1..n
  BY JoinFacts
<1> HIDE DEF w
<1>3. \A i \in 1..(m + n) : i \in 1..m \/ (i - m \in 1..n /\ w[i] = b[i - m])
  <2> TAKE i \in 1..(m + n)
  <2>1. i \in 1..m \/ (i - m \in 1..n /\ m + (i - m) = i)
    BY <1>1, <1>2
  <2> QED BY <2>1, <1>2
<1>4. ASSUME Ordered(w)
      PROVE  Ordered(a) /\ Ordered(b) /\ \A x \in Elements(a), y \in Elements(b) : Ahead(x, y)
  <2>1. \A i, j \in 1..(m + n) : i < j => Ahead(w[i], w[j])
    BY <1>2, <1>4 DEF Ordered
  <2>2. Ordered(a)
    <3>1. \A i \in 1..m : i \in 1..(m + n)
      BY <1>1
    <3> QED BY <3>1, <2>1, <1>2 DEF Ordered
  <2>3. Ordered(b)
    <3> SUFFICES ASSUME NEW i \in 1..n, NEW j \in 1..n, i < j PROVE Ahead(b[i], b[j])
      BY DEF Ordered
    <3>1. m + i \in 1..(m + n) /\ m + j \in 1..(m + n) /\ m + i < m + j
      BY <1>1
    <3>2. w[m + i] = b[i] /\ w[m + j] = b[j]
      BY <1>2
    <3>3. Ahead(w[m + i], w[m + j])
      BY <3>1, <2>1
    <3> QED BY <3>2, <3>3
  <2>4. \A i \in 1..m, j \in 1..n : Ahead(a[i], b[j])
    <3> TAKE i \in 1..m, j \in 1..n
    <3>1. i \in 1..(m + n) /\ m + j \in 1..(m + n) /\ i < m + j
      BY <1>1
    <3>2. Ahead(w[i], w[m + j])
      BY <3>1, <2>1
    <3> QED BY <3>2, <1>2
  <2> QED BY <2>2, <2>3, <2>4 DEF Elements
<1>5. ASSUME Ordered(a), Ordered(b), \A x \in Elements(a), y \in Elements(b) : Ahead(x, y)
      PROVE  Ordered(w)
  <2> SUFFICES ASSUME NEW i \in 1..(m + n), NEW j \in 1..(m + n), i < j PROVE Ahead(w[i], w[j])
    BY <1>2 DEF Ordered
  <2>1. CASE j \in 1..m
    <3>1. i \in 1..m /\ w[i] = a[i] /\ w[j] = a[j]
      BY <2>1, <1>1, <1>2
    <3> QED BY <2>1, <3>1, <1>5 DEF Ordered
  <2>2. CASE i \in 1..m /\ j \notin 1..m
    <3>1. w[i] = a[i] /\ j - m \in 1..n /\ w[j] = b[j - m]
      BY <2>2, <1>2, <1>3
    <3>2. a[i] \in Elements(a) /\ b[j - m] \in Elements(b)
      BY <2>2, <3>1 DEF Elements
    <3> QED BY <3>1, <3>2, <1>5
  <2>3. CASE i \notin 1..m
    <3>1. i - m \in 1..n /\ w[i] = b[i - m]
      BY <2>3, <1>3
    <3>2. j \notin 1..m /\ j - m \in 1..n /\ w[j] = b[j - m]
      BY <2>3, <1>1, <1>3
    <3>3. i - m < j - m
      BY <1>1
    <3> QED BY <3>1, <3>2, <3>3, <1>5 DEF Ordered
  <2> QED BY <2>1, <2>2, <2>3
<1> QED BY <1>4, <1>5 DEF w

(* A queue of one request is in order.                                     *)
LEMMA OrderedOne ==
    ASSUME NEW r
    PROVE  Ordered(<<r>>)
  BY DEF Ordered

(* PriorityRequestQueue.add_request.                                       *)
LEMMA InsertKeeps ==
    ASSUME NEW q, Queue(q), NEW r \in Reqs, r \notin Elements(q)
    PROVE  Joined(Insert(q, r), q, {r})
<1> DEFINE A == {x \in Reqs : Before(x, r)}
           B == {x \in Reqs : Before(r, x)}
           a == Only(q, A)
           b == Only(q, B)
           one == <<r>>
<1>1. Elements(q) \subseteq Reqs
  BY QueueElements
<1>2. Queue(a) /\ Elements(a) = Elements(q) \cap A
  BY QueueOnly
<1>3. Queue(b) /\ Elements(b) = Elements(q) \cap B
  BY QueueOnly
<1>4. Queue(one) /\ Elements(one) = {r}
  BY QueueOfOne
<1>5. Insert(q, r) = a \o one \o b
  BY DEF Insert
<1>6. A \cap B = {} /\ r \notin A \cup B /\ Elements(q) \subseteq A \cup B
  BY <1>1, BeforeIsTotal
<1> HIDE DEF A, B, a, b, one
<1> DEFINE w == a \o one
<1>7. Queue(w) /\ Elements(w) = Elements(a) \cup Elements(one)
  <2>1. Elements(a) \cap Elements(one) = {}
    BY <1>2, <1>4, <1>6
  <2> QED BY <2>1, <1>2, <1>4, QueueJoin
<1> HIDE DEF w
<1>8. Queue(w \o b) /\ Elements(w \o b) = Elements(w) \cup Elements(b)
  <2>1. Elements(w) \cap Elements(b) = {}
    BY <1>2, <1>3, <1>4, <1>6, <1>7
  <2> QED BY <2>1, <1>3, <1>7, QueueJoin
<1>9. Elements(w) \cup Elements(b) = Elements(q) \cup {r}
  BY <1>2, <1>3, <1>4, <1>6, <1>7
<1> QED BY <1>5, <1>8, <1>9 DEF Joined, w

(* It keeps the order.                                                     *)
LEMMA InsertOrdered ==
    ASSUME Policy # "fcfs", NEW q, Queue(q), NEW r \in Reqs, Ordered(q)
    PROVE  Ordered(Insert(q, r))
<1> DEFINE A == {x \in Reqs : Before(x, r)}
           B == {x \in Reqs : Before(r, x)}
           a == Only(q, A)
           b == Only(q, B)
           one == <<r>>
<1>2. Queue(a) /\ Elements(a) = Elements(q) \cap A /\ InSameOrder(a, q)
  BY QueueOnly
<1>3. Queue(b) /\ Elements(b) = Elements(q) \cap B /\ InSameOrder(b, q)
  BY QueueOnly
<1>4. Queue(one) /\ Elements(one) = {r} /\ Ordered(one)
  BY QueueOfOne, OrderedOne
<1>5. Insert(q, r) = a \o one \o b
  BY DEF Insert
<1>6. /\ \A x \in A : Ahead(x, r)
      /\ \A y \in B : Ahead(r, y)
      /\ \A x \in A, y \in B : Ahead(x, y)
  BY BeforeIsTotal DEF Ahead
<1> HIDE DEF A, B, a, b, one
<1>7. Ordered(a) /\ Ordered(b) /\ a \in Seq(Reqs) /\ b \in Seq(Reqs) /\ one \in Seq(Reqs)
  BY <1>2, <1>3, <1>4, OrderedPart DEF Queue
<1> DEFINE w == a \o one
<1>8. w \in Seq(Reqs) /\ Elements(w) = Elements(a) \cup Elements(one)
  BY <1>7, JoinElements
<1>9. Ordered(w)
  <2>1. \A x \in Elements(a), y \in Elements(one) : Ahead(x, y)
    BY <1>2, <1>4, <1>6
  <2> QED BY <2>1, <1>4, <1>7, OrderedJoin
<1> HIDE DEF w
<1>10. \A x \in Elements(w), y \in Elements(b) : Ahead(x, y)
  BY <1>2, <1>3, <1>4, <1>6, <1>8
<1>11. Ordered(w \o b)
  BY <1>7, <1>8, <1>9, <1>10, OrderedJoin
<1> QED BY <1>5, <1>11 DEF w

(* Its type.                                                               *)
LEMMA InsertType ==
    ASSUME NEW q \in Seq(Reqs), NEW r \in Reqs
    PROVE  Insert(q, r) \in Seq(Reqs)
<1>1. Only(q, {x \in Reqs : Before(x, r)}) \in Seq(Reqs)
  BY OnlyKeeps
<1>2. Only(q, {x \in Reqs : Before(r, x)}) \in Seq(Reqs)
  BY OnlyKeeps
<1> QED BY <1>1, <1>2 DEF Insert

(* PriorityRequestQueue.prepend_requests: one after the other.             *)
LEMMA InsertAllKeeps ==
    ASSUME NEW q, Queue(q), NEW s, Queue(s), Elements(q) \cap Elements(s) = {}
    PROVE  /\ Joined(InsertAll(q, s), q, Elements(s))
           /\ Policy # "fcfs" /\ Ordered(q) => Ordered(InsertAll(q, s))
<1> DEFINE n == Len(s)
           Def(f) == f = [i \in 0..n |-> IF i = 0 THEN q ELSE Insert(f[i - 1], s[i])]
           v == CHOOSE f : Def(f)
           G == [x \in Seq(Reqs) \X (1..n) |-> Insert(x[1], s[x[2]])]
<1>1. n \in Nat /\ (\A i \in 1..n : s[i] \in Reqs) /\ Distinct(s) /\ q \in Seq(Reqs)
  BY DEF Queue
<1>2. InsertAll(q, s) = v[n]
  BY DEF InsertAll
<1>3. G \in [Seq(Reqs) \X (1..n) -> Seq(Reqs)]
  <2>1. \A x \in Seq(Reqs) \X (1..n) : Insert(x[1], s[x[2]]) \in Seq(Reqs)
    BY <1>1, InsertType
  <2> QED BY <2>1
<1>4. \A p \in Seq(Reqs), i \in 1..n : G[<<p, i>>] = Insert(p, s[i])
  OBVIOUS
<1> HIDE DEF G, v
<1>5. PICK f \in [0..n -> Seq(Reqs)] : f[0] = q /\ \A i \in 1..n : f[i] = G[<<f[i - 1], i>>]
  <2> DEFINE V == Seq(Reqs)
  <2>1. n \in Nat /\ q \in V /\ G \in [V \X (1..n) -> V]
    BY <1>1, <1>3
  <2> HIDE DEF V, n
  <2>2. HasRecursion(V, n, q, G)
    BY <2>1, RecursionExists
  <2> QED BY <2>2 DEF HasRecursion, V, n
<1>6. \A i \in 1..n : i - 1 \in 0..n /\ f[i] = Insert(f[i - 1], s[i])
  <2> TAKE i \in 1..n
  <2>1. i - 1 \in 0..n
    BY <1>1
  <2>2. f[i - 1] \in Seq(Reqs)
    BY <2>1
  <2> QED BY <2>1, <2>2, <1>4, <1>5
<1>7. Def(f)
  <2>1. \A i \in 0..n : f[i] = IF i = 0 THEN q ELSE Insert(f[i - 1], s[i])
    <3> TAKE i \in 0..n
    <3>1. i = 0 \/ i \in 1..n
      BY <1>1
    <3> QED BY <3>1, <1>5, <1>6
  <2> QED BY <2>1
<1>8. Def(v)
  BY <1>7 DEF v
<1>9. v[0] = q /\ \A i \in 1..n : v[i] = Insert(v[i - 1], s[i])
  <2>1. \A i \in 0..n : v[i] = IF i = 0 THEN q ELSE Insert(v[i - 1], s[i])
    BY <1>8, Zenon
  <2> QED BY <2>1, <1>1
<1> DEFINE Upto(i) == {s[k] : k \in 1..i}
           Sorted(i) == Policy # "fcfs" /\ Ordered(q) => Ordered(v[i])
           T == {i \in 0..n : ~(Joined(v[i], q, Upto(i)) /\ Sorted(i))}
<1>10. T = {}
  <2> SUFFICES ASSUME T # {} PROVE FALSE
    OBVIOUS
  <2>1. PICK m \in T : \A k \in T : m <= k
    <3>1. T \in SUBSET Nat
      BY <1>1
    <3> HIDE DEF T
    <3> QED BY <3>1, LeastElement
  <2>2. m \in 0..n /\ ~(Joined(v[m], q, Upto(m)) /\ Sorted(m))
    BY <2>1
  <2>3. m # 0
    <3>1. Upto(0) = {}
      OBVIOUS
    <3>2. Joined(v[0], q, Upto(0)) /\ Sorted(0)
      BY <3>1, <1>9 DEF Joined
    <3> QED BY <3>2, <2>2
  <2>4. m \in 1..n /\ m - 1 \in 0..n /\ m - 1 \notin T
    <3> HIDE DEF T
    <3> QED BY <2>1, <2>2, <2>3, <1>1
  <2>5. Joined(v[m - 1], q, Upto(m - 1)) /\ Sorted(m - 1)
    BY <2>4
  <2>6. Upto(m) = Upto(m - 1) \cup {s[m]}
    BY <2>4, <1>1
  <2>7. s[m] \notin Upto(m - 1) /\ s[m] \notin Elements(q) /\ s[m] \in Reqs
    <3>1. \A k \in 1..(m - 1) : k \in 1..n /\ k # m
      BY <2>4, <1>1
    <3>2. s[m] \notin Upto(m - 1)
      BY <3>1, <2>4, <1>1 DEF Distinct
    <3>3. s[m] \in Elements(s) /\ s[m] \in Reqs
      BY <2>4, <1>1 DEF Elements
    <3> QED BY <3>2, <3>3
  <2> HIDE DEF Upto
  <2>8. s[m] \notin Elements(v[m - 1]) /\ Queue(v[m - 1])
    BY <2>5, <2>7 DEF Joined
  <2>9. Joined(Insert(v[m - 1], s[m]), v[m - 1], {s[m]})
    BY <2>7, <2>8, InsertKeeps
  <2>10. Joined(v[m], q, Upto(m))
    BY <2>4, <2>5, <2>6, <2>9, <1>9 DEF Joined
  <2>11. Sorted(m)
    <3> SUFFICES ASSUME Policy # "fcfs", Ordered(q) PROVE Ordered(v[m])
      OBVIOUS
    <3>1. Ordered(v[m - 1])
      BY <2>5
    <3>2. Ordered(Insert(v[m - 1], s[m]))
      BY <3>1, <2>7, <2>8, InsertOrdered
    <3> QED BY <3>2, <2>4, <1>9
  <2> QED BY <2>2, <2>10, <2>11
<1>11. Joined(v[n], q, Upto(n)) /\ Sorted(n)
  <2>1. n \in 0..n
    BY <1>1
  <2> HIDE DEF Upto
  <2> QED BY <2>1, <1>10
<1>12. Upto(n) = Elements(s)
  BY DEF Elements
<1> HIDE DEF Upto
<1> QED BY <1>2, <1>11, <1>12

(* What each queue becomes, whatever the policy.                           *)
LEMMA AddFacts ==
    ASSUME NEW q, Queue(q), NEW r \in Reqs, r \notin Elements(q)
    PROVE  Joined(add_to(q, r), q, {r}) /\ Joined(prepend(q, r), q, {r})
<1>1. Joined(Insert(q, r), q, {r})
  BY InsertKeeps
<1>2. Joined(Append(q, r), q, {r})
  <2>1. q \in Seq(Reqs) /\ Distinct(q)
    BY DEF Queue
  <2>2. /\ Append(q, r) \in Seq(Reqs) /\ Elements(Append(q, r)) = Elements(q) \cup {r}
        /\ Distinct(Append(q, r))
    BY <2>1, AppendElements
  <2> QED BY <2>2 DEF Joined, Queue
<1> DEFINE one == <<r>>
<1>3. Queue(one) /\ Elements(one) = {r}
  BY QueueOfOne
<1>4. prepend(q, r) = IF Policy = "fcfs" THEN one \o q ELSE Insert(q, r)
  BY DEF prepend
<1> HIDE DEF one
<1>5. Queue(one \o q) /\ Elements(one \o q) = Elements(one) \cup Elements(q)
  BY <1>3, QueueJoin
<1>6. Joined(one \o q, q, {r})
  BY <1>3, <1>5 DEF Joined
<1>7. Joined(prepend(q, r), q, {r})
  BY <1>1, <1>4, <1>6
<1> QED BY <1>1, <1>2, <1>7 DEF add_to

(* The same of several requests.                                           *)
LEMMA PrependFacts ==
    ASSUME NEW q, Queue(q), NEW s, Queue(s), Elements(q) \cap Elements(s) = {}
    PROVE  Joined(prepend_requests(q, s), q, Elements(s))
<1>1. Joined(InsertAll(q, s), q, Elements(s))
  BY InsertAllKeeps
<1>2. Queue(s \o q) /\ Elements(s \o q) = Elements(s) \cup Elements(q)
  BY QueueJoin
<1> QED BY <1>1, <1>2 DEF prepend_requests, Joined

-----------------------------------------------------------------------------
(* Queues and states. *)

Finished == {"FINISHED_STOPPED", "FINISHED_LENGTH_CAPPED", "FINISHED_ABORTED", "FINISHED_ERROR"}
Pending  == {"WAITING", "WAITING_FOR_REMOTE_KVS", "PREEMPTED"}
Statuses == {"NEW", "RUNNING"} \cup Pending \cup Finished

\* With the states st the requests of the waiting queue w, those skipped s and the
\* running ones u are where they belong.
Match(st, w, s, u) ==
    /\ st \in [Reqs -> Statuses]
    /\ Queue(w) /\ Queue(s) /\ Queue(u)
    /\ Elements(w) \cap Elements(s) = {}
    /\ Elements(w) \cup Elements(s) = {r \in Reqs : st[r] \in Pending}
    /\ Elements(u) = {r \in Reqs : st[r] = "RUNNING"}

(* A request arrives.                                                      *)
LEMMA MatchAdd ==
    ASSUME NEW st, NEW w, NEW s, NEW u, Match(st, w, s, u), NEW r \in Reqs, st[r] = "NEW"
    PROVE  Match([st EXCEPT ![r] = "WAITING"], add_to(w, r), s, u)
<1> USE DEF Match
<1>1. r \notin Elements(w) /\ r \notin Elements(s) /\ r \notin Elements(u)
  BY DEF Pending
<1>2. Joined(add_to(w, r), w, {r})
  BY <1>1, AddFacts
<1>3. Queue(add_to(w, r)) /\ Elements(add_to(w, r)) = Elements(w) \cup {r}
  BY <1>2 DEF Joined
<1> DEFINE v == [st EXCEPT ![r] = "WAITING"]
<1>4. v \in [Reqs -> Statuses]
  BY DEF Statuses, Pending
<1>5. {q \in Reqs : v[q] \in Pending} = {q \in Reqs : st[q] \in Pending} \cup {r}
  BY DEF Pending
<1>6. {q \in Reqs : v[q] = "RUNNING"} = {q \in Reqs : st[q] = "RUNNING"}
  OBVIOUS
<1> HIDE DEF v
<1> QED BY <1>1, <1>3, <1>4, <1>5, <1>6 DEF v

(* A request ends: it leaves the queue that its state tells.               *)
LEMMA MatchEnd ==
    ASSUME NEW st, NEW w, NEW s, NEW u, Match(st, w, s, u), s = <<>>,
           NEW r, NEW new \in Finished
    PROVE  Match([st EXCEPT ![r] = new], IF st[r] = "RUNNING" THEN w ELSE Without(w, r), s,
                 IF st[r] = "RUNNING" THEN Without(u, r) ELSE u)
<1> DEFINE v == [st EXCEPT ![r] = new]
           w1 == IF st[r] = "RUNNING" THEN w ELSE Without(w, r)
           u1 == IF st[r] = "RUNNING" THEN Without(u, r) ELSE u
<1>0. /\ st \in [Reqs -> Statuses] /\ Queue(w) /\ Queue(s) /\ Queue(u)
      /\ Elements(w) \cap Elements(s) = {}
      /\ Elements(w) \cup Elements(s) = {q \in Reqs : st[q] \in Pending}
      /\ Elements(u) = {q \in Reqs : st[q] = "RUNNING"}
  BY DEF Match
<1>1. Elements(s) = {}
  BY <1>0, QueueElements
<1>2. Queue(Without(w, r)) /\ Elements(Without(w, r)) = Elements(w) \ {r}
  BY <1>0, WithoutFacts
<1>3. Queue(Without(u, r)) /\ Elements(Without(u, r)) = Elements(u) \ {r}
  BY <1>0, WithoutFacts
<1>4. v \in [Reqs -> Statuses]
  BY <1>0 DEF Statuses
<1>5. {q \in Reqs : v[q] \in Pending} = {q \in Reqs : st[q] \in Pending} \ {r}
  BY <1>0 DEF Pending, Finished
<1>6. {q \in Reqs : v[q] = "RUNNING"} = {q \in Reqs : st[q] = "RUNNING"} \ {r}
  BY <1>0 DEF Finished
<1>7. st[r] = "RUNNING" => r \notin {q \in Reqs : st[q] \in Pending}
  BY DEF Pending
<1> HIDE DEF v
<1>8. Queue(w1) /\ Elements(w1) = Elements(w) \ {r}
  BY <1>0, <1>1, <1>2, <1>7
<1>9. Queue(u1) /\ Elements(u1) = Elements(u) \ {r}
  BY <1>0, <1>3
<1> HIDE DEF w1, u1
<1>10. Match(v, w1, s, u1)
  BY <1>0, <1>1, <1>4, <1>5, <1>6, <1>8, <1>9 DEF Match
<1> QED BY <1>10 DEF v, w1, u1

(* A running request is preempted.                                         *)
LEMMA MatchPreempt ==
    ASSUME NEW st, NEW w, NEW s, NEW u, Match(st, w, s, u), s = <<>>, NEW r \in Elements(u)
    PROVE  Match([st EXCEPT ![r] = "PREEMPTED"], prepend(w, r), s, Without(u, r))
<1> DEFINE v == [st EXCEPT ![r] = "PREEMPTED"]
<1>0. /\ st \in [Reqs -> Statuses] /\ Queue(w) /\ Queue(s) /\ Queue(u)
      /\ Elements(w) \cap Elements(s) = {}
      /\ Elements(w) \cup Elements(s) = {q \in Reqs : st[q] \in Pending}
      /\ Elements(u) = {q \in Reqs : st[q] = "RUNNING"}
  BY DEF Match
<1>1. Elements(s) = {}
  BY <1>0, QueueElements
<1>2. r \in Reqs /\ st[r] = "RUNNING" /\ r \notin Elements(w)
  BY <1>0 DEF Pending
<1>3. Queue(Without(u, r)) /\ Elements(Without(u, r)) = Elements(u) \ {r}
  BY <1>0, WithoutFacts
<1>4. Joined(prepend(w, r), w, {r})
  BY <1>0, <1>2, AddFacts
<1>5. Queue(prepend(w, r)) /\ Elements(prepend(w, r)) = Elements(w) \cup {r}
  BY <1>4 DEF Joined
<1>6. v \in [Reqs -> Statuses]
  BY <1>0 DEF Statuses, Pending
<1>7. {q \in Reqs : v[q] \in Pending} = {q \in Reqs : st[q] \in Pending} \cup {r}
  BY <1>0, <1>2 DEF Pending
<1>8. {q \in Reqs : v[q] = "RUNNING"} = {q \in Reqs : st[q] = "RUNNING"} \ {r}
  BY <1>0
<1> HIDE DEF v
<1>9. Match(v, prepend(w, r), s, Without(u, r))
  BY <1>0, <1>1, <1>3, <1>5, <1>6, <1>7, <1>8 DEF Match
<1> QED BY <1>9 DEF v

(* All running requests are preempted.                                     *)
LEMMA MatchReset ==
    ASSUME NEW st, NEW w, NEW s, NEW u, Match(st, w, s, u), s = <<>>
    PROVE  Match([r \in Reqs |-> IF r \in Elements(u) THEN "PREEMPTED" ELSE st[r]],
                 prepend_requests(w, u), s, <<>>)
<1> DEFINE v == [r \in Reqs |-> IF r \in Elements(u) THEN "PREEMPTED" ELSE st[r]]
           none == <<>>
<1>0. /\ st \in [Reqs -> Statuses] /\ Queue(w) /\ Queue(s) /\ Queue(u)
      /\ Elements(w) \cap Elements(s) = {}
      /\ Elements(w) \cup Elements(s) = {q \in Reqs : st[q] \in Pending}
      /\ Elements(u) = {q \in Reqs : st[q] = "RUNNING"}
  BY DEF Match
<1>1. Elements(s) = {}
  BY <1>0, QueueElements
<1>2. Elements(w) \cap Elements(u) = {}
  BY <1>0 DEF Pending
<1>3. Joined(prepend_requests(w, u), w, Elements(u))
  BY <1>0, <1>2, PrependFacts
<1>4. Queue(prepend_requests(w, u)) /\ Elements(prepend_requests(w, u)) = Elements(w) \cup Elements(u)
  BY <1>3 DEF Joined
<1>5. Queue(none) /\ Elements(none) = {}
  BY <1>0, <1>1
<1>6. v \in [Reqs -> Statuses]
  BY <1>0 DEF Statuses, Pending
<1>7. {q \in Reqs : v[q] \in Pending} = {q \in Reqs : st[q] \in Pending} \cup Elements(u)
  BY <1>0 DEF Pending
<1>8. {q \in Reqs : v[q] = "RUNNING"} = {}
  BY <1>0
<1> HIDE DEF v, none
<1>9. Match(v, prepend_requests(w, u), s, none)
  BY <1>0, <1>1, <1>4, <1>5, <1>6, <1>7, <1>8 DEF Match
<1> QED BY <1>9 DEF v, none

(* The first of a queue, and the rest.                                     *)
LEMMA QueueTail ==
    ASSUME NEW q, Queue(q), q # <<>>
    PROVE  /\ q[1] \in Elements(q) /\ Queue(Tail(q)) /\ Elements(Tail(q)) = Elements(q) \ {q[1]}
<1>1. q \in Seq(Reqs) /\ Distinct(q)
  BY DEF Queue
<1>2. /\ q[1] \in Elements(q) /\ Tail(q) \in Seq(Reqs)
      /\ Distinct(Tail(q)) /\ Elements(Tail(q)) = Elements(q) \ {q[1]}
  BY <1>1, TailElements
<1> QED BY <1>2 DEF Queue

(* A queue with one more request.                                          *)
LEMMA QueueAppend ==
    ASSUME NEW q, Queue(q), NEW r \in Reqs, r \notin Elements(q)
    PROVE  Queue(Append(q, r)) /\ Elements(Append(q, r)) = Elements(q) \cup {r}
<1>1. q \in Seq(Reqs) /\ Distinct(q)
  BY DEF Queue
<1>2. /\ Append(q, r) \in Seq(Reqs) /\ Elements(Append(q, r)) = Elements(q) \cup {r}
      /\ Distinct(Append(q, r))
  BY <1>1, AppendElements
<1> QED BY <1>2 DEF Queue

(* The first waiting request starts to run.                                *)
LEMMA MatchAdmit ==
    ASSUME NEW st, NEW w, NEW s, NEW u, Match(st, w, s, u), w # <<>>, NEW r, r = w[1]
    PROVE  Match([st EXCEPT ![r] = "RUNNING"], Tail(w), s, Append(u, r))
<1> DEFINE v == [st EXCEPT ![r] = "RUNNING"]
<1>0. /\ st \in [Reqs -> Statuses] /\ Queue(w) /\ Queue(s) /\ Queue(u)
      /\ Elements(w) \cap Elements(s) = {}
      /\ Elements(w) \cup Elements(s) = {q \in Reqs : st[q] \in Pending}
      /\ Elements(u) = {q \in Reqs : st[q] = "RUNNING"}
  BY DEF Match
<1>1. r \in Elements(w) /\ Queue(Tail(w)) /\ Elements(Tail(w)) = Elements(w) \ {r}
  BY <1>0, QueueTail
<1>2. r \in Reqs /\ st[r] \in Pending /\ r \notin Elements(s)
  BY <1>0, <1>1
<1>3. r \notin Elements(u)
  BY <1>0, <1>2 DEF Pending
<1>4. Queue(Append(u, r)) /\ Elements(Append(u, r)) = Elements(u) \cup {r}
  BY <1>0, <1>2, <1>3, QueueAppend
<1>5. v \in [Reqs -> Statuses]
  BY <1>0 DEF Statuses
<1>6. {q \in Reqs : v[q] \in Pending} = {q \in Reqs : st[q] \in Pending} \ {r}
  BY <1>0 DEF Pending
<1>7. {q \in Reqs : v[q] = "RUNNING"} = {q \in Reqs : st[q] = "RUNNING"} \cup {r}
  BY <1>0, <1>2
<1> HIDE DEF v
<1>8. Match(v, Tail(w), s, Append(u, r))
  BY <1>0, <1>1, <1>2, <1>4, <1>5, <1>6, <1>7 DEF Match
<1> QED BY <1>8 DEF v

(* A waiting request goes to another state of waiting.                     *)
LEMMA MatchStill ==
    ASSUME NEW st, NEW w, NEW s, NEW u, Match(st, w, s, u), NEW r \in Elements(w), NEW new \in Pending
    PROVE  Match([st EXCEPT ![r] = new], w, s, u)
<1> DEFINE v == [st EXCEPT ![r] = new]
<1>0. /\ st \in [Reqs -> Statuses] /\ Queue(w) /\ Queue(s) /\ Queue(u)
      /\ Elements(w) \cap Elements(s) = {}
      /\ Elements(w) \cup Elements(s) = {q \in Reqs : st[q] \in Pending}
      /\ Elements(u) = {q \in Reqs : st[q] = "RUNNING"}
  BY DEF Match
<1>1. r \in Reqs /\ st[r] \in Pending
  BY <1>0
<1>2. v \in [Reqs -> Statuses]
  BY <1>0 DEF Statuses
<1>3. {q \in Reqs : v[q] \in Pending} = {q \in Reqs : st[q] \in Pending}
  BY <1>0, <1>1
<1>4. {q \in Reqs : v[q] = "RUNNING"} = {q \in Reqs : st[q] = "RUNNING"}
  BY <1>0, <1>1 DEF Pending
<1> HIDE DEF v
<1>5. Match(v, w, s, u)
  BY <1>0, <1>2, <1>3, <1>4 DEF Match
<1> QED BY <1>5 DEF v

(* The first waiting request is passed over.                               *)
LEMMA MatchSkip ==
    ASSUME NEW st, NEW w, NEW s, NEW u, Match(st, w, s, u), w # <<>>, NEW r, r = w[1]
    PROVE  Match(st, Tail(w), Append(s, r), u)
<1>0. /\ st \in [Reqs -> Statuses] /\ Queue(w) /\ Queue(s) /\ Queue(u)
      /\ Elements(w) \cap Elements(s) = {}
      /\ Elements(w) \cup Elements(s) = {q \in Reqs : st[q] \in Pending}
      /\ Elements(u) = {q \in Reqs : st[q] = "RUNNING"}
  BY DEF Match
<1>1. r \in Elements(w) /\ Queue(Tail(w)) /\ Elements(Tail(w)) = Elements(w) \ {r}
  BY <1>0, QueueTail
<1>2. r \in Reqs /\ r \notin Elements(s)
  BY <1>0, <1>1
<1>3. Queue(Append(s, r)) /\ Elements(Append(s, r)) = Elements(s) \cup {r}
  BY <1>0, <1>2, QueueAppend
<1>4. /\ Elements(Tail(w)) \cap Elements(Append(s, r)) = {}
      /\ Elements(Tail(w)) \cup Elements(Append(s, r)) = Elements(w) \cup Elements(s)
  BY <1>0, <1>1, <1>3
<1> QED BY <1>0, <1>1, <1>3, <1>4 DEF Match

(* What was passed over goes back to the waiting queue.                    *)
LEMMA MatchBack ==
    ASSUME NEW st, NEW w, NEW s, NEW u, Match(st, w, s, u)
    PROVE  Match(st, prepend_requests(w, s), <<>>, u)
<1> DEFINE none == <<>>
<1>0. /\ st \in [Reqs -> Statuses] /\ Queue(w) /\ Queue(s) /\ Queue(u)
      /\ Elements(w) \cap Elements(s) = {}
      /\ Elements(w) \cup Elements(s) = {q \in Reqs : st[q] \in Pending}
      /\ Elements(u) = {q \in Reqs : st[q] = "RUNNING"}
  BY DEF Match
<1>1. Joined(prepend_requests(w, s), w, Elements(s))
  BY <1>0, PrependFacts
<1>2. Queue(prepend_requests(w, s)) /\ Elements(prepend_requests(w, s)) = Elements(w) \cup Elements(s)
  BY <1>1 DEF Joined
<1>3. Queue(none) /\ Elements(none) = {}
  BY DEF Queue, Elements, Distinct
<1> HIDE DEF none
<1>4. Match(st, prepend_requests(w, s), none, u)
  BY <1>0, <1>2, <1>3 DEF Match
<1> QED BY <1>4 DEF none

(* Somebody can be preempted while anybody runs; under the priority policy *)
(* nobody that runs is less urgent.                                        *)
LEMMA VictimRuns ==
    ASSUME Queue(running), running # <<>>
    PROVE  /\ Victim \in Elements(running)
           /\ Policy # "fcfs" => \A x \in Elements(running) : ~Before(Victim, x)
<1>1. Elements(running) \subseteq Reqs /\ Elements(running) # {} /\ Len(running) \in Nat /\ Len(running) # 0
  BY QueueElements
<1>2. CASE Policy = "fcfs"
  BY <1>1, <1>2 DEF Victim, Elements
<1>3. CASE Policy # "fcfs"
  <2> DEFINE E == Elements(running)
             Behind(v) == {x \in E : Before(v, x)}
             T == {Cardinality(Behind(v)) : v \in E}
  <2>1. IsFiniteSet(E)
    BY <1>1, KVCacheManagerAssumption, FS_Subset
  <2>2. \A v \in E : IsFiniteSet(Behind(v)) /\ Cardinality(Behind(v)) \in Nat
    BY <2>1, FS_Subset, FS_CardinalityType
  <2>3. T \in SUBSET Nat /\ T # {}
    BY <2>2, <1>1
  <2>4. PICK m \in T : \A k \in T : m <= k
    <3> HIDE DEF T
    <3> QED BY <2>3, LeastElement
  <2>5. PICK v \in E : m = Cardinality(Behind(v))
    BY <2>4
  <2>6. \A x \in E : ~Before(v, x)
    <3> SUFFICES ASSUME NEW x \in E, Before(v, x) PROVE FALSE
      OBVIOUS
    <3>1. Behind(x) \subseteq Behind(v) /\ Behind(x) # Behind(v)
      <4>1. \A y \in E : Before(x, y) => Before(v, y)
        BY <1>1, BeforeIsTotal
      <4>2. x \in Behind(v) /\ x \notin Behind(x)
        BY <1>1, BeforeIsTotal
      <4> QED BY <4>1, <4>2
    <3> HIDE DEF Behind
    <3>2. Cardinality(Behind(x)) < Cardinality(Behind(v))
      BY <2>2, <3>1, FS_Subset
    <3>3. Cardinality(Behind(x)) \in T /\ Cardinality(Behind(v)) \in Nat /\ Cardinality(Behind(x)) \in Nat
      BY <2>2
    <3> HIDE DEF T
    <3>4. m <= Cardinality(Behind(x))
      BY <3>3, <2>4
    <3> QED BY <3>2, <3>3, <3>4, <2>5
  <2> HIDE DEF T, Behind
  <2>7. \E w \in E : \A x \in E : ~Before(w, x)
    BY <2>6
  <2> QED BY <2>7, <1>3 DEF Victim
<1> QED BY <1>2, <1>3

(* Only drops what is not in S.                                            *)
LEMMA OnlyShorter ==
    ASSUME NEW U, NEW s \in Seq(U), NEW S, NEW x \in Elements(s), x \notin S
    PROVE  Only(s, S) \in Seq(U) /\ Len(Only(s, S)) < Len(s)
<1> DEFINE n == Len(s)
<1>1. n \in Nat /\ \A i \in 1..n : s[i] \in U
  OBVIOUS
<1>a. PICK F \in [0..Len(s) -> Seq(U)] : Unfolds(F, s, S)
  BY OnlyUnfolds
<1>2. /\ Only(s, S) = F[n]
      /\ F[0] = <<>>
      /\ \A i \in 1..n : F[i] = IF s[i] \in S THEN Append(F[i - 1], s[i]) ELSE F[i - 1]
  BY <1>a DEF Unfolds
<1>b. PICK d \in 1..n : s[d] = x
  BY DEF Elements
<1> DEFINE Short(i) == Len(F[i]) <= i /\ (i >= d => Len(F[i]) < i)
           T == {i \in 0..n : ~Short(i)}
<1>3. T = {}
  <2> SUFFICES ASSUME T # {} PROVE FALSE
    OBVIOUS
  <2>1. PICK m \in T : \A k \in T : m <= k
    <3>1. T \in SUBSET Nat
      BY <1>1
    <3> HIDE DEF T
    <3> QED BY <3>1, LeastElement
  <2>2. m \in 0..n /\ ~Short(m)
    BY <2>1
  <2>3. m # 0
    <3>1. Len(F[0]) = 0 /\ ~(0 >= d)
      BY <1>2, <1>1, EmptySeq
    <3> QED BY <3>1, <2>2
  <2>4. m \in 1..n /\ m - 1 \in 0..n /\ m - 1 \notin T
    <3> HIDE DEF T
    <3> QED BY <2>1, <2>2, <2>3, <1>1
  <2> DEFINE f == F[m - 1]
  <2>5. Short(m - 1) /\ f \in Seq(U) /\ s[m] \in U
    BY <2>4, <1>1
  <2>6. Len(f) \in Nat /\ Len(f) <= m - 1 /\ (m - 1 >= d => Len(f) < m - 1)
    BY <2>5
  <2>7. Len(F[m]) = Len(f) + (IF s[m] \in S THEN 1 ELSE 0)
    <3>1. F[m] = IF s[m] \in S THEN Append(f, s[m]) ELSE f
      BY <2>4, <1>2
    <3> HIDE DEF f
    <3>2. Len(Append(f, s[m])) = Len(f) + 1
      BY <2>5, AppendProperties
    <3>3. CASE s[m] \in S
      BY <3>1, <3>2, <3>3
    <3>4. CASE s[m] \notin S
      BY <3>1, <3>4, <2>6
    <3> QED BY <3>3, <3>4
  <2> HIDE DEF f
  <2>8. m = d => s[m] \notin S
    BY <1>b
  <2>9. Short(m)
    BY <2>4, <2>6, <2>7, <2>8, <1>1, <1>b
  <2> QED BY <2>2, <2>9
<1>4. Short(n)
  <2>1. n \in 0..n
    BY <1>1
  <2> QED BY <2>1, <1>3
<1>5. n \in 0..n /\ F[n] \in Seq(U)
  BY <1>1
<1> QED BY <1>1, <1>2, <1>4, <1>5, <1>b

\* A sequence, whatever is in it.
IsSeq(s) == s \in Seq(Elements(s))

(* Appending to it.                                                        *)
LEMMA AppendIsSeq ==
    ASSUME NEW s, IsSeq(s), NEW x
    PROVE  IsSeq(Append(s, x)) /\ Len(Append(s, x)) = Len(s) + 1 /\ Len(s) \in Nat
<1> DEFINE U == Elements(s) \cup {x}
<1>1. s \in Seq(U) /\ x \in U /\ Len(s) \in Nat
  BY DEF IsSeq
<1> HIDE DEF U
<1>2. /\ Append(s, x) \in Seq(U) /\ Len(Append(s, x)) = Len(s) + 1
      /\ Elements(Append(s, x)) = Elements(s) \cup {x}
  BY <1>1, AppendElements
<1> QED BY <1>1, <1>2 DEF IsSeq, U

(* Leaving some of it out.                                                 *)
LEMMA OnlyIsSeq ==
    ASSUME NEW s, IsSeq(s), NEW S
    PROVE  /\ IsSeq(Only(s, S)) /\ Len(Only(s, S)) \in Nat /\ Elements(Only(s, S)) = Elements(s) \cap S
           /\ (\E x \in Elements(s) : x \notin S) => Len(Only(s, S)) < Len(s)
<1> DEFINE U == Elements(s)
           o == Only(s, S)
<1>1. s \in Seq(U)
  BY DEF IsSeq
<1>2. o \in Seq(U) /\ Elements(o) = Elements(s) \cap S
  BY <1>1, OnlyKeeps
<1>3. (\E x \in Elements(s) : x \notin S) => Len(o) < Len(s)
  BY <1>1, OnlyShorter
<1> HIDE DEF o, U
<1>4. o \in Seq(Elements(o))
  <2>1. Len(o) \in Nat /\ \A i \in 1..Len(o) : o[i] \in Elements(o)
    BY <1>2 DEF Elements
  <2> QED BY <1>2, <2>1
<1>5. Len(o) \in Nat
  BY <1>2
<1> QED BY <1>2, <1>3, <1>4, <1>5 DEF IsSeq, o

-----------------------------------------------------------------------------
(* The invariant of the queues. *)

\* Where the loops of schedule() are: the running requests before req_index have
\* been looked at, and the one slots are being allocated for is among the running.
Loop ==
    /\ IsSeq(scheduled) /\ req_index \in Int
    /\ pc \in {"running", "alloc"} => Len(scheduled) < req_index
    /\ Settled => scheduled = <<>>
    /\ pc = "alloc" => current.req \in Elements(running)
    /\ pc # "waiting" => skipped = <<>>

QueueInv == Match(status, waiting, skipped, running) /\ Loop

(* The inductive invariant implies QueuesMatchStatus.                      *)
LEMMA QueueInvMatches == QueueInv => QueuesMatchStatus
<1> SUFFICES ASSUME QueueInv PROVE QueuesMatchStatus
  OBVIOUS
<1>0. /\ Queue(waiting) /\ Queue(running)
      /\ Elements(waiting) \cap Elements(skipped) = {}
      /\ Elements(waiting) \cup Elements(skipped) = {q \in Reqs : status[q] \in Pending}
      /\ Elements(running) = {q \in Reqs : status[q] = "RUNNING"}
  BY DEF QueueInv, Match
<1>1. ASSUME NEW q, Queue(q) PROVE IsInjective(q)
  <2>1. q \in Seq(Reqs) /\ \A i, j \in 1..Len(q) : q[i] = q[j] => i = j
    BY <1>1 DEF Queue, Distinct
  <2>2. DOMAIN q = 1..Len(q)
    BY <2>1
  <2> QED BY <2>1, <2>2 DEF IsInjective
<1> QED BY <1>0, <1>1 DEF QueuesMatchStatus, Pending

(* No request has arrived yet.                                             *)
LEMMA InitQueue == Init => QueueInv
<1> SUFFICES ASSUME Init PROVE QueueInv
  OBVIOUS
<1> DEFINE none == <<>>
<1>1. Queue(none) /\ Elements(none) = {} /\ IsSeq(none)
  BY DEF Queue, Elements, Distinct, IsSeq
<1>2. /\ waiting = none /\ running = none /\ skipped = none /\ scheduled = none
      /\ status = [r \in Reqs |-> "NEW"] /\ pc = "idle" /\ req_index = 1
  BY DEF Init
<1> HIDE DEF none
<1>3. Match(status, waiting, skipped, running)
  BY <1>1, <1>2 DEF Match, Statuses, Pending
<1>4. Loop
  BY <1>1, <1>2 DEF Loop, none
<1> QED BY <1>3, <1>4 DEF QueueInv

(* An end of a request, whatever the reason, keeps the queues right.       *)
LEMMA EndKeepsQueue ==
    ASSUME QueueInv, skipped = <<>>, NEW r, NEW new \in Finished, RemoveFromQueue(r),
           status' = [status EXCEPT ![r] = new]
    PROVE  Match(status', waiting', skipped, running')
<1>1. Match(status, waiting, skipped, running)
  BY DEF QueueInv
<1>2. /\ running' = IF status[r] = "RUNNING" THEN Without(running, r) ELSE running
      /\ waiting' = IF status[r] = "RUNNING" THEN waiting ELSE Without(waiting, r)
  BY DEF RemoveFromQueue
<1> QED BY <1>1, <1>2, MatchEnd

(* What the client asks for keeps the queues right.                        *)
LEMMA ClientQueue ==
    ASSUME QueueInv, Client
    PROVE  QueueInv'
<1>0. Match(status, waiting, skipped, running) /\ Loop
  BY DEF QueueInv
<1>1. ASSUME NEW r \in Reqs, AddRequest(r) PROVE QueueInv'
  <2>1. Match(status', waiting', skipped, running)
    BY <1>0, <1>1, MatchAdd DEF AddRequest
  <2> QED BY <1>0, <1>1, <2>1 DEF AddRequest, QueueInv, Loop, Settled, locals
<1>2. ASSUME NEW r \in Reqs, AbortRequest(r) PROVE QueueInv'
  <2>1. skipped = <<>> /\ pc \in {"idle", "await"}
    BY <1>0, <1>2 DEF Loop, AbortRequest
  <2>2. Match(status', waiting', skipped, running')
    BY <1>2, <2>1, EndKeepsQueue DEF AbortRequest, Finished
  <2> QED BY <1>0, <1>2, <2>1, <2>2 DEF AbortRequest, QueueInv, Loop, Settled, locals
<1>3. ASSUME NEW force \in ResetModes, ResetPrefixCache(force) PROVE QueueInv'
  <2> DEFINE S == IF force THEN Elements(running) ELSE {}
  <2>1. skipped = <<>> /\ pc = "idle"
    BY <1>0, <1>3 DEF Loop, ResetPrefixCache
  <2>2. /\ status' = [r \in Reqs |-> IF r \in S THEN "PREEMPTED" ELSE status[r]]
        /\ waiting' = IF force THEN prepend_requests(waiting, running) ELSE waiting
        /\ running' = IF force THEN <<>> ELSE running
        /\ UNCHANGED <<pc, locals>>
    BY <1>3 DEF ResetPrefixCache
  <2>3. Match(status', waiting', skipped, running')
    <3>1. CASE force
      <4>1. Match([r \in Reqs |-> IF r \in Elements(running) THEN "PREEMPTED" ELSE status[r]],
                  prepend_requests(waiting, running), skipped, <<>>)
        BY <1>0, <2>1, MatchReset
      <4> QED BY <4>1, <2>2, <3>1
    <3>2. CASE ~force
      <4>1. status' = status
        BY <1>0, <2>2, <3>2 DEF Match
      <4> QED BY <4>1, <1>0, <2>2, <3>2
    <3> QED BY <3>1, <3>2
  <2> QED BY <1>0, <2>1, <2>2, <2>3 DEF QueueInv, Loop, Settled, locals
<1> QED BY <1>1, <1>2, <1>3 DEF Client

(* The loop over the running requests keeps the queues right.              *)
LEMMA RunningQueue ==
    ASSUME QueueInv, BeginSchedule \/ SkipRunning \/ PickRunning \/ ScheduleRunning \/ Preempt
                     \/ EndRunning
    PROVE  QueueInv'
<1>0. Match(status, waiting, skipped, running) /\ Loop
  BY DEF QueueInv
<1>a. Queue(running) /\ running \in Seq(Reqs) /\ Len(running) \in Nat
  BY <1>0 DEF Match, Queue
<1>b. IsSeq(scheduled) /\ Len(scheduled) \in Nat /\ req_index \in Int
  BY <1>0 DEF Loop, IsSeq
<1>1. CASE BeginSchedule
  <2>1. scheduled = <<>> /\ Len(scheduled) = 0
    BY <1>0, <1>1, EmptySeq DEF Loop, BeginSchedule, Settled
  <2> QED BY <1>0, <1>1, <2>1 DEF BeginSchedule, QueueInv, Loop, Settled, requests, queues
<1>2. CASE SkipRunning
  BY <1>0, <1>2, <1>b DEF SkipRunning, InRunningLoop, QueueInv, Loop, Settled, requests, queues
<1>3. CASE PickRunning
  <2>1. req_index \in 1..Len(running)
    BY <1>0, <1>3, <1>a, <1>b DEF PickRunning, InRunningLoop, Loop
  <2>2. running[req_index] \in Elements(running)
    BY <2>1 DEF Elements
  <2>3. current'.req \in Elements(running)
    BY <1>3, <2>2 DEF PickRunning
  <2> QED BY <1>0, <1>3, <2>3 DEF PickRunning, InRunningLoop, QueueInv, Loop, Settled, requests, queues
<1>4. CASE ScheduleRunning
  <2>1. IsSeq(scheduled') /\ Len(scheduled') = Len(scheduled) + 1
    BY <1>4, <1>b, AppendIsSeq DEF ScheduleRunning
  <2> QED BY <1>0, <1>4, <1>b, <2>1 DEF ScheduleRunning, QueueInv, Loop, Settled, requests, queues
<1>5. CASE Preempt
  <2> DEFINE v == Victim
             S == {x \in Elements(scheduled) : x.req # v}
  <2>1. pc = "alloc" /\ skipped = <<>> /\ current.req \in Elements(running)
    BY <1>0, <1>5 DEF Loop, Preempt
  <2>2. running # <<>>
    BY <2>1, <1>a, QueueElements
  <2>3. v \in Elements(running)
    BY <1>a, <2>2, VictimRuns
  <2>4. /\ status' = [status EXCEPT ![v] = "PREEMPTED"] /\ waiting' = prepend(waiting, v)
        /\ running' = Without(running, v) /\ skipped' = skipped
    BY <1>5 DEF Preempt, _preempt_request
  <2>5. /\ scheduled' = IF Undo(v) THEN Only(scheduled, S) ELSE scheduled
        /\ req_index' = req_index - IF Undo(v) THEN 1 ELSE 0
        /\ pc' = IF v = current.req THEN "finish" ELSE "alloc"
        /\ v # current.req => current' = current
    BY <1>5 DEF Preempt
  <2> HIDE DEF v
  <2>6. Match(status', waiting', skipped', running')
    BY <1>0, <2>1, <2>3, <2>4, MatchPreempt
  <2>7. Elements(running') = Elements(running) \ {v}
    BY <1>a, <2>4, WithoutFacts
  <2>8. IsSeq(scheduled') /\ req_index' \in Int /\ Len(scheduled') < req_index'
    <3>1. CASE Undo(v)
      <4>1. PICK i \in DOMAIN scheduled : scheduled[i].req = v
        BY <3>1 DEF Undo, IsScheduled
      <4>2. scheduled[i] \in Elements(scheduled) /\ scheduled[i] \notin S
        BY <4>1, <1>b DEF Elements, IsSeq
      <4> HIDE DEF S
      <4>3. /\ IsSeq(Only(scheduled, S)) /\ Len(Only(scheduled, S)) \in Nat
            /\ Len(Only(scheduled, S)) < Len(scheduled)
        BY <4>2, <1>b, OnlyIsSeq
      <4>4. Len(scheduled) < req_index
        BY <1>0, <2>1 DEF Loop
      <4>5. scheduled' = Only(scheduled, S) /\ req_index' = req_index - 1
        BY <2>5, <3>1
      <4> QED BY <4>3, <4>4, <4>5, <1>b
    <3>2. CASE ~Undo(v)
      <4>1. scheduled' = scheduled /\ req_index' = req_index
        BY <2>5, <3>2, <1>b
      <4> QED BY <4>1, <1>0, <1>b, <2>1 DEF Loop
    <3> QED BY <3>1, <3>2
  <2>9. Loop'
    BY <2>1, <2>4, <2>5, <2>7, <2>8 DEF Loop, Settled
  <2> QED BY <2>6, <2>9 DEF QueueInv
<1>6. CASE EndRunning
  BY <1>0, <1>6 DEF EndRunning, InRunningLoop, QueueInv, Loop, Settled, requests, queues, locals
<1> QED BY <1>1, <1>2, <1>3, <1>4, <1>5, <1>6

(* The loop over the waiting requests keeps the queues right.              *)
LEMMA WaitingQueue ==
    ASSUME QueueInv, NEW o,
           SkipWaiting \/ _update_waiting_for_remote_kv \/ ScheduleWaiting(o) \/ LoadWaiting(o)
           \/ EndWaiting(o)
    PROVE  QueueInv'
<1>0. Match(status, waiting, skipped, running) /\ Loop
  BY DEF QueueInv
<1>a. IsSeq(scheduled) /\ Len(scheduled) \in Nat /\ req_index \in Int
  BY <1>0 DEF Loop, IsSeq
<1> DEFINE r == waiting[1]
<1>b. ASSUME LooksAtWaiting PROVE pc = "waiting" /\ waiting # <<>> /\ r \in Elements(waiting)
  <2>1. pc = "waiting" /\ waiting # <<>>
    BY <1>b DEF LooksAtWaiting
  <2>2. Queue(waiting)
    BY <1>0 DEF Match
  <2> QED BY <2>1, <2>2, QueueTail
<1>1. CASE SkipWaiting
  <2>1. LooksAtWaiting /\ waiting' = Tail(waiting) /\ skipped' = Append(skipped, r)
    BY <1>1 DEF SkipWaiting
  <2> HIDE DEF r
  <2>2. Match(status, waiting', skipped', running)
    BY <1>0, <1>b, <2>1, MatchSkip DEF r
  <2> QED BY <1>0, <1>1, <1>b, <2>1, <2>2 DEF SkipWaiting, QueueInv, Loop, Settled, requests
<1>2. CASE _update_waiting_for_remote_kv
  <2> DEFINE new == IF num_preemptions[r] > 0 THEN "PREEMPTED" ELSE "WAITING"
  <2>1. LooksAtWaiting /\ status' = [status EXCEPT ![r] = new] /\ UNCHANGED <<queues, locals, pc>>
    BY <1>2 DEF _update_waiting_for_remote_kv
  <2>2. new \in Pending
    BY DEF Pending
  <2> HIDE DEF r, new
  <2>3. Match(status', waiting, skipped, running)
    BY <1>0, <1>b, <2>1, <2>2, MatchStill
  <2> QED BY <1>0, <1>b, <2>1, <2>3 DEF QueueInv, Loop, Settled, queues, locals
<1>3. CASE ScheduleWaiting(o)
  <2>1. /\ LooksAtWaiting /\ waiting' = Tail(waiting) /\ running' = Append(running, r)
        /\ status' = [status EXCEPT ![r] = "RUNNING"]
        /\ UNCHANGED <<pc, req_index, current, skipped>>
    BY <1>3 DEF ScheduleWaiting, CanAdmit, AsksForSlots, Considers
  <2>2. \E x : scheduled' = Append(scheduled, x)
    BY <1>3 DEF ScheduleWaiting
  <2>3. IsSeq(scheduled')
    BY <2>2, <1>a, AppendIsSeq
  <2> HIDE DEF r
  <2>4. Match(status', waiting', skipped, running')
    BY <1>0, <1>b, <2>1, MatchAdmit DEF r
  <2> QED BY <1>0, <1>b, <2>1, <2>3, <2>4 DEF QueueInv, Loop, Settled
<1>4. CASE LoadWaiting(o)
  <2>1. /\ LooksAtWaiting /\ waiting' = Tail(waiting) /\ skipped' = Append(skipped, r)
        /\ status' = [status EXCEPT ![r] = "WAITING_FOR_REMOTE_KVS"]
        /\ UNCHANGED <<pc, req_index, current, running, scheduled>>
    BY <1>4 DEF LoadWaiting, CanAdmit, AsksForSlots, Considers
  <2> HIDE DEF r
  <2>2. Match(status', waiting, skipped, running)
    <3>1. "WAITING_FOR_REMOTE_KVS" \in Pending
      BY DEF Pending
    <3> QED BY <1>0, <1>b, <2>1, <3>1, MatchStill
  <2>3. Match(status', waiting', skipped', running)
    BY <1>b, <2>1, <2>2, MatchSkip DEF r
  <2> QED BY <1>0, <1>b, <2>1, <2>3 DEF QueueInv, Loop, Settled
<1>5. CASE EndWaiting(o)
  <2>1. /\ waiting' = prepend_requests(waiting, skipped) /\ skipped' = <<>> /\ pc' = "finish"
        /\ UNCHANGED <<status, running, req_index, current, scheduled>>
    BY <1>5 DEF EndWaiting, requests
  <2>2. Match(status, prepend_requests(waiting, skipped), <<>>, running)
    BY <1>0, MatchBack
  <2> QED BY <1>0, <2>1, <2>2 DEF QueueInv, Loop, Settled
<1> QED BY <1>1, <1>2, <1>3, <1>4, <1>5

(* Processing the output of a batch keeps the queues right.                *)
LEMMA OutputQueue ==
    ASSUME QueueInv, NEW bad, NEW eos,
           FinishSchedule(bad) \/ AwaitLast \/ BeginUpdate \/ SkipOutput \/ DiscardOutput
           \/ AcceptOutput(eos) \/ (\E r \in Reqs : FailRequest(r) \/ FreeSent(r)) \/ EndUpdate
    PROVE  QueueInv'
<1>0. Match(status, waiting, skipped, running) /\ Loop
  BY DEF QueueInv
<1>1. CASE FinishSchedule(bad)
  <2>1. /\ UNCHANGED <<status, queues, skipped>> /\ pc' \in {"await", "idle"} /\ pc = "finish"
        /\ req_index' = 1 /\ scheduled' = <<>>
    BY <1>1 DEF FinishSchedule
  <2>2. IsSeq(<<>>)
    BY DEF IsSeq
  <2> QED BY <1>0, <2>1, <2>2 DEF QueueInv, Loop, Settled, queues
<1>2. ASSUME UNCHANGED <<status, queues, locals>>, Settled, Settled' PROVE QueueInv'
  <2>1. UNCHANGED <<status, waiting, running, req_index, current, scheduled, skipped>>
    BY <1>2 DEF queues, locals
  <2>2. pc # "waiting" /\ pc' \notin {"waiting", "running", "alloc"}
    BY <1>2 DEF Settled
  <2> HIDE DEF Settled
  <2> QED BY <1>0, <1>2, <2>1, <2>2 DEF QueueInv, Loop
<1>3. CASE AwaitLast
  BY <1>2, <1>3 DEF AwaitLast, Settled, requests
<1>4. CASE BeginUpdate
  BY <1>2, <1>4 DEF BeginUpdate, Settled
<1>5. CASE SkipOutput \/ DiscardOutput
  BY <1>2, <1>5 DEF SkipOutput, DiscardOutput, NextOutput, Settled, requests
<1>6. CASE AcceptOutput(eos)
  <2> DEFINE r == output[1].req
             n == Len(Append(tokens[r], output[1].token))
             stop == StopStatus(r, n, eos)
  <2>1. /\ pc = "output" /\ Settled' /\ UNCHANGED locals
        /\ stop # "NONE" => RemoveFromQueue(r) /\ status' = [status EXCEPT ![r] = stop]
        /\ stop = "NONE" => UNCHANGED <<status, queues>>
    BY <1>6 DEF AcceptOutput, NextOutput, Settled
  <2>2. stop # "NONE" => stop \in Finished
    BY DEF StopStatus, Finished
  <2> HIDE DEF r, n, stop
  <2>3. CASE stop # "NONE"
    <3>1. skipped = <<>>
      BY <1>0, <2>1 DEF Loop
    <3>2. Match(status', waiting', skipped, running')
      BY <2>1, <2>2, <2>3, <3>1, EndKeepsQueue
    <3> QED BY <1>0, <2>1, <3>1, <3>2 DEF QueueInv, Loop, Settled, locals
  <2>4. CASE stop = "NONE"
    BY <1>2, <2>1, <2>4 DEF Settled
  <2> QED BY <2>3, <2>4
<1>7. ASSUME NEW r \in Reqs, FailRequest(r) PROVE QueueInv'
  <2>1. pc = "transfer" /\ UNCHANGED <<pc, locals>>
    BY <1>7 DEF FailRequest
  <2>2. skipped = <<>>
    BY <1>0, <2>1 DEF Loop
  <2>3. Match(status', waiting', skipped, running')
    BY <1>7, <2>2, EndKeepsQueue DEF FailRequest, Finished
  <2> QED BY <1>0, <2>1, <2>2, <2>3 DEF QueueInv, Loop, Settled, locals
<1>8. ASSUME NEW r \in Reqs, FreeSent(r) PROVE QueueInv'
  BY <1>2, <1>8 DEF FreeSent, Settled, requests
<1>9. CASE EndUpdate
  BY <1>2, <1>9 DEF EndUpdate, Settled, requests
<1> QED BY <1>1, <1>3, <1>4, <1>5, <1>6, <1>7, <1>8, <1>9

(* The connector does not touch the queues.                                *)
LEMMA ConnectorQueue ==
    ASSUME QueueInv, Connector
    PROVE  QueueInv'
<1>0. Match(status, waiting, skipped, running) /\ Loop
  BY DEF QueueInv
<1>1. UNCHANGED <<status, queues, locals, pc>>
  BY DEF Connector, LookupDone, LoadFails, LoadDone, SendDone, requests
<1> QED BY <1>0, <1>1 DEF QueueInv, Loop, Settled, queues, locals

(* Every step keeps the queues right.                                      *)
LEMMA NextQueue == QueueInv /\ [Next]_vars => QueueInv'
<1> SUFFICES ASSUME QueueInv, [Next]_vars PROVE QueueInv'
  OBVIOUS
<1>1. CASE Client
  BY <1>1, ClientQueue
<1>2. CASE Engine
  BY <1>2, RunningQueue, WaitingQueue, OutputQueue DEF Engine
<1>3. CASE Connector
  BY <1>3, ConnectorQueue
<1>4. CASE UNCHANGED vars
  BY <1>4 DEF vars, QueueInv, Loop, Settled, requests, queues, locals
<1> QED BY <1>1, <1>2, <1>3, <1>4 DEF Next

(***************************************************************************)
(* Every unfinished request is in exactly one of the queues, once, and its *)
(* status tells in which: an abort, a stop, a preemption or a failed load  *)
(* at any moment, with or without a connector, finds it there and leaves   *)
(* no trace of it behind.                                                  *)
(***************************************************************************)
THEOREM QueuesAlwaysMatch == Spec => []QueuesMatchStatus
<1>1. Spec => []QueueInv
  BY InitQueue, NextQueue, PTL DEF Spec
<1> QED BY <1>1, QueueInvMatches, PTL

-----------------------------------------------------------------------------
(* Without a connector: the order in which requests run. *)

\* Nobody waits for a connector.
NoTransfer ==
    /\ answered = Reqs /\ skipped = <<>> /\ pc # "transfer"
    /\ \A r \in Reqs : ~IsLoading(r)

(* Initially.                                                              *)
LEMMA InitTransfer == Init /\ ~HasConnector => NoTransfer
<1> SUFFICES ASSUME Init, ~HasConnector PROVE NoTransfer
  OBVIOUS
<1>1. \A r \in Reqs : Offers[r] = {}
  BY SchedulerAssumption
<1> QED BY <1>1 DEF Init, NoTransfer, IsLoading

(* Without a connector there is nothing on offer.                          *)
LEMMA NoOfferMade ==
    ASSUME ~HasConnector, QueueInv, NEW o, Considers(o)
    PROVE  o = NoOffer
<1> DEFINE r == waiting[1]
<1>1. waiting # <<>> /\ Queue(waiting)
  BY DEF Considers, LooksAtWaiting, QueueInv, Match
<1>2. r \in Reqs
  BY <1>1, QueueTail, QueueElements
<1>3. Offers[r] = {}
  BY <1>2, SchedulerAssumption
<1>4. \A n : Answers(r, n) = {NoOffer}
  BY <1>3 DEF Answers
<1> QED BY <1>4 DEF Considers

(* And nobody ever waits for one.                                          *)
LEMMA NextTransfer == ~HasConnector /\ QueueInv /\ NoTransfer /\ [Next]_vars => NoTransfer'
<1> SUFFICES ASSUME ~HasConnector, QueueInv, NoTransfer, [Next]_vars PROVE NoTransfer'
  OBVIOUS
<1>0. /\ answered = Reqs /\ skipped = <<>> /\ pc # "transfer" /\ \A r \in Reqs : ~IsLoading(r)
      /\ status \in [Reqs -> Statuses]
  BY DEF NoTransfer, QueueInv, Match
<1>a. ASSUME LooksAtWaiting PROVE waiting[1] \in Reqs /\ waiting[1] \in answered /\ ~IsLoading(waiting[1])
  <2>1. waiting # <<>> /\ Queue(waiting)
    BY <1>a DEF LooksAtWaiting, QueueInv, Match
  <2>2. waiting[1] \in Reqs
    BY <2>1, QueueTail, QueueElements
  <2> QED BY <2>2, <1>0
<1>1. ASSUME NEW r, NEW new, new # "WAITING_FOR_REMOTE_KVS", status' = [status EXCEPT ![r] = new]
      PROVE  \A q \in Reqs : ~IsLoading(q)'
  BY <1>0, <1>1 DEF IsLoading
<1>2. CASE Client
  <2>1. UNCHANGED <<answered, skipped, pc>>
    BY <1>2 DEF Client, AddRequest, AbortRequest, ResetPrefixCache, remote, locals
  <2>2. \A q \in Reqs : ~IsLoading(q)'
    <3>1. ASSUME NEW r \in Reqs, AddRequest(r) PROVE \A q \in Reqs : ~IsLoading(q)'
      BY <1>1, <3>1 DEF AddRequest
    <3>2. ASSUME NEW r \in Reqs, AbortRequest(r) PROVE \A q \in Reqs : ~IsLoading(q)'
      BY <1>1, <3>2 DEF AbortRequest
    <3>3. ASSUME NEW force \in ResetModes, ResetPrefixCache(force) PROVE \A q \in Reqs : ~IsLoading(q)'
      BY <1>0, <3>3 DEF ResetPrefixCache, IsLoading
    <3> QED BY <1>2, <3>1, <3>2, <3>3 DEF Client
  <2> QED BY <1>0, <2>1, <2>2 DEF NoTransfer
<1>3. CASE BeginSchedule \/ SkipRunning \/ PickRunning \/ ScheduleRunning \/ EndRunning
  BY <1>0, <1>3 DEF BeginSchedule, SkipRunning, PickRunning, ScheduleRunning, EndRunning, NoTransfer,
                    IsLoading, requests, remote, locals
<1>4. CASE Preempt
  <2>1. status' = [status EXCEPT ![Victim] = "PREEMPTED"] /\ UNCHANGED <<skipped, remote>>
        /\ pc' \in {"finish", "alloc"}
    BY <1>4 DEF Preempt, _preempt_request
  <2>2. \A q \in Reqs : ~IsLoading(q)'
    BY <1>1, <2>1
  <2> QED BY <1>0, <2>1, <2>2 DEF NoTransfer, remote
<1>5. CASE SkipWaiting \/ _update_waiting_for_remote_kv
  BY <1>5, <1>a DEF SkipWaiting, _update_waiting_for_remote_kv, Skips
<1>6. ASSUME NEW o, ScheduleWaiting(o) PROVE NoTransfer'
  <2>1. status' = [status EXCEPT ![waiting[1]] = "RUNNING"] /\ UNCHANGED <<skipped, remote, pc>>
    BY <1>6 DEF ScheduleWaiting
  <2>2. \A q \in Reqs : ~IsLoading(q)'
    BY <1>1, <2>1
  <2> QED BY <1>0, <2>1, <2>2 DEF NoTransfer, remote
<1>7. ASSUME NEW o, LoadWaiting(o) PROVE NoTransfer'
  <2>1. o = NoOffer
    BY <1>7, NoOfferMade DEF LoadWaiting, CanAdmit, AsksForSlots
  <2> QED BY <1>7, <2>1 DEF LoadWaiting, NoOffer
<1>8. ASSUME NEW o, EndWaiting(o) PROVE NoTransfer'
  BY <1>0, <1>8 DEF EndWaiting, NoTransfer, IsLoading, requests, remote
<1>9. ASSUME NEW bad, FinishSchedule(bad) PROVE NoTransfer'
  BY <1>0, <1>9 DEF FinishSchedule, NoTransfer, IsLoading
<1>10. CASE AwaitLast \/ BeginUpdate \/ SkipOutput \/ DiscardOutput
  BY <1>0, <1>10 DEF AwaitLast, BeginUpdate, SkipOutput, DiscardOutput, NextOutput, NoTransfer,
                     IsLoading, requests, remote, locals
<1>11. ASSUME NEW eos, AcceptOutput(eos) PROVE NoTransfer'
  <2> DEFINE r == output[1].req
             n == Len(Append(tokens[r], output[1].token))
             stop == StopStatus(r, n, eos)
  <2>1. /\ UNCHANGED <<locals, answered>> /\ pc' # "transfer"
        /\ status' = [status EXCEPT ![r] = stop] \/ UNCHANGED status
    BY <1>11 DEF AcceptOutput, NextOutput
  <2>2. stop # "WAITING_FOR_REMOTE_KVS"
    BY DEF StopStatus
  <2> HIDE DEF r, stop
  <2>3. \A q \in Reqs : ~IsLoading(q)'
    <3>1. CASE status' = [status EXCEPT ![r] = stop]
      BY <3>1, <2>2, <1>1
    <3>2. CASE UNCHANGED status
      BY <3>2, <1>0 DEF IsLoading
    <3> QED BY <2>1, <3>1, <3>2
  <2> QED BY <1>0, <2>1, <2>3 DEF NoTransfer, locals
<1>12. ASSUME NEW r, FailRequest(r) \/ FreeSent(r) \/ EndUpdate PROVE NoTransfer'
  BY <1>0, <1>12 DEF FailRequest, FreeSent, EndUpdate
<1>13. CASE Connector
  BY <1>0, <1>13 DEF Connector, LookupDone, LoadFails, LoadDone, SendDone, NoTransfer, IsLoading,
                     requests, locals
<1>14. CASE UNCHANGED vars
  BY <1>0, <1>14 DEF vars, NoTransfer, IsLoading, requests, remote, locals
<1> QED BY <1>2, <1>3, <1>4, <1>5, <1>6, <1>7, <1>8, <1>9, <1>10, <1>11, <1>12, <1>13, <1>14
        DEF Next, Engine

-----------------------------------------------------------------------------
(* Batches are about requests that have arrived. *)

Arrivals == {r \in Reqs : status[r] # "NEW"}

\* s is a sequence of records, each of which is about a request of A.
Named(s, A) == IsSeq(s) /\ \A i \in 1..Len(s) : s[i].req \in A

(* Appending such a record.                                                *)
LEMMA NamedAppend ==
    ASSUME NEW s, NEW A, Named(s, A), NEW x, x.req \in A
    PROVE  Named(Append(s, x), A)
<1> DEFINE w == Append(s, x)
<1>1. IsSeq(s) /\ \A i \in 1..Len(s) : s[i].req \in A
  BY DEF Named
<1>2. IsSeq(w) /\ Len(w) = Len(s) + 1 /\ Len(s) \in Nat
  BY <1>1, AppendIsSeq
<1>3. w[Len(s) + 1] = x /\ \A i \in 1..Len(s) : w[i] = s[i]
  <2> DEFINE U == Elements(s) \cup {x}
  <2>1. s \in Seq(U) /\ x \in U
    BY <1>1 DEF IsSeq
  <2> HIDE DEF U
  <2> QED BY <2>1, AppendElements
<1> HIDE DEF w
<1>4. \A i \in 1..Len(w) : i \in 1..Len(s) \/ i = Len(s) + 1
  BY <1>2
<1>5. \A i \in 1..Len(w) : w[i].req \in A
  BY <1>1, <1>3, <1>4
<1> QED BY <1>2, <1>5 DEF Named, w

(* The sequence without its first record.                                  *)
LEMMA TailIsSeq ==
    ASSUME NEW s, IsSeq(s), s # <<>>
    PROVE  /\ IsSeq(Tail(s)) /\ Len(s) \in Nat /\ Len(s) >= 1 /\ Len(Tail(s)) = Len(s) - 1
           /\ \A i \in 1..Len(Tail(s)) : Tail(s)[i] = s[i + 1] /\ i + 1 \in 1..Len(s)
<1> DEFINE U == Elements(s)
<1>1. s \in Seq(U)
  BY DEF IsSeq
<1> HIDE DEF U
<1>2. /\ Tail(s) \in Seq(U) /\ Len(s) \in Nat /\ Len(s) >= 1 /\ Len(Tail(s)) = Len(s) - 1
      /\ \A i \in 1..Len(Tail(s)) : Tail(s)[i] = s[i + 1] /\ i + 1 \in 1..Len(s)
  BY <1>1, TailElements
<1> DEFINE w == Tail(s)
<1>3. w \in Seq(U) /\ Len(w) \in Nat
  BY <1>2
<1> HIDE DEF w
<1>4. \A i \in 1..Len(w) : w[i] \in Elements(w)
  BY DEF Elements
<1>5. w \in Seq(Elements(w))
  BY <1>3, <1>4
<1> QED BY <1>2, <1>5 DEF IsSeq, w

(* Some of the records.                                                    *)
LEMMA NamedOnly ==
    ASSUME NEW s, NEW A, Named(s, A), NEW S
    PROVE  Named(Only(s, S), A)
<1>1. IsSeq(s) /\ \A x \in Elements(s) : x.req \in A
  BY DEF Named, Elements
<1>2. IsSeq(Only(s, S)) /\ Elements(Only(s, S)) = Elements(s) \cap S
  BY <1>1, OnlyIsSeq
<1>3. \A x \in Elements(Only(s, S)) : x.req \in A
  BY <1>1, <1>2
<1> DEFINE o == Only(s, S)
<1> HIDE DEF o
<1>4. \A i \in 1..Len(o) : o[i] \in Elements(o)
  BY DEF Elements
<1> QED BY <1>2, <1>3, <1>4 DEF Named, o

(* More requests have arrived.                                             *)
LEMMA NamedGrows ==
    ASSUME NEW s, NEW A, NEW B, Named(s, A), A \subseteq B
    PROVE  Named(s, B)
  BY DEF Named

BatchInv ==
    /\ Named(scheduled, Arrivals) /\ Named(output, Arrivals)
    /\ IsSeq(inflight) /\ \A k \in 1..Len(inflight) : Named(inflight[k], Arrivals)
    /\ pc = "await" => inflight # <<>>
    /\ pc = "output" => output # <<>>

(* No request becomes new again.                                           *)
LEMMA ArrivalsGrow == QueueInv /\ [Next]_vars => Arrivals \subseteq Arrivals'
<1> SUFFICES ASSUME QueueInv, [Next]_vars PROVE Arrivals \subseteq Arrivals'
  OBVIOUS
<1>0. status \in [Reqs -> Statuses]
  BY DEF QueueInv, Match
<1>1. ASSUME NEW r, NEW new, new # "NEW", status' = [status EXCEPT ![r] = new]
      PROVE  Arrivals \subseteq Arrivals'
  BY <1>0, <1>1 DEF Arrivals
<1>2. ASSUME UNCHANGED status PROVE Arrivals \subseteq Arrivals'
  BY <1>2 DEF Arrivals
<1>3. ASSUME NEW r \in Reqs, AddRequest(r) \/ AbortRequest(r) \/ FailRequest(r)
      PROVE  Arrivals \subseteq Arrivals'
  BY <1>1, <1>3 DEF AddRequest, AbortRequest, FailRequest
<1>4. ASSUME NEW force \in ResetModes, ResetPrefixCache(force) PROVE Arrivals \subseteq Arrivals'
  BY <1>0, <1>4 DEF ResetPrefixCache, Arrivals
<1>5. CASE Preempt
  BY <1>1, <1>5 DEF Preempt, _preempt_request
<1>6. CASE _update_waiting_for_remote_kv
  <2>1. status' = [status EXCEPT ![waiting[1]] = "PREEMPTED"]
        \/ status' = [status EXCEPT ![waiting[1]] = "WAITING"]
    BY <1>6 DEF _update_waiting_for_remote_kv
  <2> QED BY <1>1, <2>1
<1>7. ASSUME NEW o, ScheduleWaiting(o) \/ LoadWaiting(o) PROVE Arrivals \subseteq Arrivals'
  BY <1>1, <1>7 DEF ScheduleWaiting, LoadWaiting
<1>8. ASSUME NEW eos, AcceptOutput(eos) PROVE Arrivals \subseteq Arrivals'
  <2> DEFINE r == output[1].req
             n == Len(Append(tokens[r], output[1].token))
             stop == StopStatus(r, n, eos)
  <2>1. status' = [status EXCEPT ![r] = stop] \/ UNCHANGED status
    BY <1>8 DEF AcceptOutput
  <2>2. stop # "NEW"
    BY DEF StopStatus
  <2> HIDE DEF r, stop
  <2> QED BY <2>1, <2>2, <1>1, <1>2
<1>9. CASE \/ BeginSchedule \/ SkipRunning \/ PickRunning \/ ScheduleRunning \/ EndRunning
           \/ SkipWaiting \/ (\E o : EndWaiting(o)) \/ (\E bad : FinishSchedule(bad))
           \/ AwaitLast \/ BeginUpdate \/ SkipOutput \/ DiscardOutput \/ EndUpdate
           \/ (\E r : FreeSent(r)) \/ Connector \/ UNCHANGED vars
  <2>1. UNCHANGED status
    BY <1>9 DEF BeginSchedule, SkipRunning, PickRunning, ScheduleRunning, EndRunning, SkipWaiting,
                EndWaiting, FinishSchedule, AwaitLast, BeginUpdate, SkipOutput, DiscardOutput,
                EndUpdate, FreeSent, Connector, LookupDone, LoadFails, LoadDone, SendDone, vars, requests
  <2> QED BY <2>1, <1>2
<1> QED BY <1>3, <1>4, <1>5, <1>6, <1>7, <1>8, <1>9 DEF Next, Client, Engine

(* There are no batches yet.                                               *)
LEMMA InitBatch == Init => BatchInv
<1> SUFFICES ASSUME Init PROVE BatchInv
  OBVIOUS
<1> DEFINE none == <<>>
<1>1. IsSeq(none) /\ Len(none) = 0
  BY DEF IsSeq
<1>2. scheduled = none /\ output = none /\ inflight = none /\ pc = "idle"
  BY DEF Init
<1> HIDE DEF none
<1> QED BY <1>1, <1>2 DEF BatchInv, Named

(* A batch names the requests that were scheduled.                         *)
LEMMA BatchNamed ==
    ASSUME NEW m, NEW A, Named(scheduled, A)
    PROVE  Named(Batch(m), A)
<1> DEFINE b == Batch(m)
           n == Len(scheduled)
<1>1. n \in Nat /\ DOMAIN scheduled = 1..n
  BY DEF Named, IsSeq
<1>2. b = [i \in 1..n |-> [req |-> scheduled[i].req, token |-> Sampled(m, scheduled[i].req)]]
  BY <1>1 DEF Batch
<1>3. \A i \in 1..n : b[i].req = scheduled[i].req
  BY <1>2
<1>4. DOMAIN b = 1..n /\ b = [i \in 1..n |-> b[i]]
  BY <1>2
<1> HIDE DEF b, n
<1>5. b \in Seq({b[i] : i \in 1..n}) /\ Len(b) = n
  <2> DEFINE U == {b[i] : i \in 1..n}
  <2>1. b \in [1..n -> U]
    BY <1>4
  <2> HIDE DEF U
  <2> QED BY <2>1, <1>1, FunctionIsSeq DEF U
<1>6. Elements(b) = {b[i] : i \in 1..n}
  BY <1>5 DEF Elements
<1>7. \A i \in 1..Len(b) : b[i].req \in A
  BY <1>3, <1>5 DEF Named, n
<1> QED BY <1>5, <1>6, <1>7 DEF Named, IsSeq, b

(* Every step keeps the batches about requests that have arrived.          *)
LEMMA NextBatch == QueueInv /\ BatchInv /\ [Next]_vars => BatchInv'
<1> SUFFICES ASSUME QueueInv, BatchInv, [Next]_vars PROVE BatchInv'
  OBVIOUS
<1> DEFINE A == Arrivals'
<1>0. /\ Named(scheduled, Arrivals) /\ Named(output, Arrivals)
      /\ IsSeq(inflight) /\ \A k \in 1..Len(inflight) : Named(inflight[k], Arrivals)
      /\ pc = "await" => inflight # <<>>
      /\ pc = "output" => output # <<>>
  BY DEF BatchInv
<1>1. Arrivals \subseteq A
  BY ArrivalsGrow
<1>2. /\ Named(scheduled, A) /\ Named(output, A)
      /\ \A k \in 1..Len(inflight) : Named(inflight[k], A)
  BY <1>0, <1>1, NamedGrows
<1>3. BatchInv' <=> /\ Named(scheduled', A) /\ Named(output', A)
                    /\ IsSeq(inflight') /\ \A k \in 1..Len(inflight') : Named(inflight'[k], A)
                    /\ pc' = "await" => inflight' # <<>>
                    /\ pc' = "output" => output' # <<>>
  BY DEF BatchInv
<1>4. Queue(running) /\ Queue(waiting) /\ Elements(running) \cup Elements(waiting) \subseteq Arrivals
  BY DEF QueueInv, Match, Arrivals, Pending
<1> HIDE DEF A
<1>5. ASSUME UNCHANGED <<output, inflight>>, Named(scheduled', A),
             pc' # pc => pc' \notin {"await", "output"}
      PROVE  BatchInv'
  BY <1>0, <1>2, <1>3, <1>5
<1>6. ASSUME UNCHANGED <<scheduled, output, inflight>>, pc' # pc => pc' \notin {"await", "output"}
      PROVE  BatchInv'
  BY <1>2, <1>5, <1>6
<1>7. CASE Client
  BY <1>6, <1>7 DEF Client, AddRequest, AbortRequest, ResetPrefixCache, locals
<1>8. CASE BeginSchedule \/ SkipRunning \/ PickRunning \/ EndRunning
  BY <1>6, <1>8 DEF BeginSchedule, SkipRunning, PickRunning, EndRunning, locals
<1>9. CASE ScheduleRunning
  <2>1. current.req \in A
    BY <1>1, <1>4, <1>9 DEF QueueInv, Loop, ScheduleRunning
  <2>2. Named(Append(scheduled, current), A)
    BY <2>1, <1>2, NamedAppend
  <2> QED BY <1>5, <1>9, <2>2 DEF ScheduleRunning
<1>10. CASE Preempt
  <2> DEFINE S == {x \in Elements(scheduled) : x.req # Victim}
  <2>1. Named(Only(scheduled, S), A)
    BY <1>2, NamedOnly
  <2>2. scheduled' = Only(scheduled, S) \/ scheduled' = scheduled
    BY <1>10 DEF Preempt
  <2>3. UNCHANGED <<output, inflight>> /\ pc' \notin {"await", "output"}
    BY <1>10 DEF Preempt
  <2> QED BY <1>2, <1>5, <2>1, <2>2, <2>3
<1>11. CASE SkipWaiting \/ _update_waiting_for_remote_kv \/ (\E o : LoadWaiting(o) \/ EndWaiting(o))
  BY <1>6, <1>11 DEF SkipWaiting, _update_waiting_for_remote_kv, LoadWaiting, EndWaiting, locals
<1>12. ASSUME NEW o, ScheduleWaiting(o) PROVE BatchInv'
  <2> DEFINE r == waiting[1]
             x == [req |-> r, n |-> WaitingArgs(r, o).new, external |-> o.external]
  <2>1. waiting # <<>>
    BY <1>12 DEF ScheduleWaiting, CanAdmit, AsksForSlots, Considers, LooksAtWaiting
  <2>2. r \in A
    BY <1>1, <1>4, <2>1, QueueTail
  <2>3. x.req = r /\ scheduled' = Append(scheduled, x) /\ UNCHANGED <<output, inflight, pc>>
    BY <1>12 DEF ScheduleWaiting
  <2> HIDE DEF r, x
  <2>4. Named(scheduled', A)
    BY <1>2, <2>2, <2>3, NamedAppend
  <2> QED BY <1>5, <2>3, <2>4
<1>13. ASSUME NEW bad, FinishSchedule(bad) PROVE BatchInv'
  <2> DEFINE b == Batch(mem')
             none == <<>>
  <2>1. /\ inflight' = Append(inflight, b) /\ scheduled' = none /\ UNCHANGED output
        /\ pc' \in {"await", "idle"}
    BY <1>13 DEF FinishSchedule
  <2>2. Named(b, A)
    BY <1>2, BatchNamed
  <2>3. Named(none, A)
    BY DEF Named, IsSeq
  <2> HIDE DEF b, none
  <2>4. IsSeq(inflight') /\ Len(inflight') = Len(inflight) + 1 /\ Len(inflight) \in Nat
    BY <1>0, <2>1, AppendIsSeq
  <2>5. inflight'[Len(inflight) + 1] = b /\ \A k \in 1..Len(inflight) : inflight'[k] = inflight[k]
    <3> DEFINE U == Elements(inflight) \cup {b}
    <3>1. inflight \in Seq(U) /\ b \in U
      BY <1>0 DEF IsSeq
    <3> HIDE DEF U
    <3> QED BY <3>1, <2>1, AppendElements
  <2>6. \A k \in 1..Len(inflight') : k \in 1..Len(inflight) \/ k = Len(inflight) + 1
    BY <2>4
  <2>7. \A k \in 1..Len(inflight') : Named(inflight'[k], A)
    BY <1>2, <2>2, <2>5, <2>6
  <2>8. inflight' # <<>>
    <3>1. Len(inflight') # 0
      BY <2>4
    <3> QED BY <3>1, EmptySeq
  <2> QED BY <1>2, <1>3, <2>1, <2>3, <2>4, <2>7, <2>8
<1>14. CASE AwaitLast
  BY <1>0, <1>2, <1>3, <1>14 DEF AwaitLast, locals
<1>15. CASE BeginUpdate
  <2>1. /\ inflight' = Tail(inflight) /\ output' = inflight[1] /\ UNCHANGED scheduled
        /\ pc = "await" /\ pc' # "await" /\ (pc' = "output" => output' # <<>>)
    <3>1. output' = Head(inflight)
      BY <1>15 DEF BeginUpdate
    <3> QED BY <1>15, <3>1 DEF BeginUpdate, locals
  <2>2. /\ IsSeq(Tail(inflight)) /\ Len(inflight) \in Nat /\ Len(inflight) >= 1
        /\ \A i \in 1..Len(Tail(inflight)) :
              Tail(inflight)[i] = inflight[i + 1] /\ i + 1 \in 1..Len(inflight)
    BY <1>0, <2>1, TailIsSeq
  <2>3. 1 \in 1..Len(inflight)
    BY <2>2
  <2>4. \A i \in 1..Len(Tail(inflight)) : Named(Tail(inflight)[i], A)
    BY <2>2, <1>2
  <2>5. Named(inflight[1], A)
    BY <1>2, <2>3
  <2> QED BY <1>2, <1>3, <2>1, <2>2, <2>4, <2>5
<1>16. ASSUME pc = "output", NextOutput, UNCHANGED <<scheduled, inflight>> PROVE BatchInv'
  <2>1. /\ output' = Tail(output)
        /\ pc' # "await" /\ (pc' = "output" => Len(output) > 1)
    BY <1>16 DEF NextOutput
  <2>2. /\ IsSeq(Tail(output)) /\ Len(output) \in Nat /\ Len(Tail(output)) = Len(output) - 1
        /\ \A i \in 1..Len(Tail(output)) : Tail(output)[i] = output[i + 1] /\ i + 1 \in 1..Len(output)
    BY <1>0, <1>16, TailIsSeq DEF Named
  <2>3. Named(output', A)
    BY <1>2, <2>1, <2>2 DEF Named
  <2>4. pc' = "output" => output' # <<>>
    <3>1. pc' = "output" => Len(output') # 0
      BY <2>1, <2>2
    <3> QED BY <3>1, EmptySeq
  <2> QED BY <1>0, <1>2, <1>3, <1>16, <2>1, <2>3, <2>4
<1>17. CASE SkipOutput \/ DiscardOutput \/ (\E eos : AcceptOutput(eos))
  BY <1>16, <1>17 DEF SkipOutput, DiscardOutput, AcceptOutput, locals
<1>18. CASE (\E r : FailRequest(r) \/ FreeSent(r)) \/ EndUpdate \/ Connector \/ UNCHANGED vars
  BY <1>6, <1>18 DEF FailRequest, FreeSent, EndUpdate, Connector, LookupDone, LoadFails, LoadDone,
                     SendDone, vars, locals
<1> QED BY <1>7, <1>8, <1>9, <1>10, <1>11, <1>12, <1>13, <1>14, <1>15, <1>17, <1>18
        DEF Next, Engine

-----------------------------------------------------------------------------
(* What the policies promise. *)

\* The first of the queue moves up.
OrderedRest(q) == Ordered(Tail(q)) /\ \A y \in Elements(Tail(q)) : Ahead(q[1], y)

(* The rest of a queue in order comes after its first.                     *)
LEMMA OrderedTail ==
    ASSUME NEW q, Queue(q), q # <<>>, Ordered(q)
    PROVE  OrderedRest(q)
<1> DEFINE t == Tail(q)
<1>1. q \in Seq(Reqs)
  BY DEF Queue
<1>2. /\ Len(q) \in Nat /\ Len(q) >= 1 /\ Len(t) = Len(q) - 1
      /\ \A i \in 1..Len(t) : t[i] = q[i + 1] /\ i + 1 \in 1..Len(q)
  BY <1>1, TailElements
<1> HIDE DEF t
<1>3. \A i, j \in 1..Len(t) : i < j => Ahead(t[i], t[j])
  <2> SUFFICES ASSUME NEW i \in 1..Len(t), NEW j \in 1..Len(t), i < j PROVE Ahead(t[i], t[j])
    OBVIOUS
  <2>1. i + 1 < j + 1
    OBVIOUS
  <2> QED BY <2>1, <1>2 DEF Ordered
<1>4. \A j \in 1..Len(t) : Ahead(q[1], t[j])
  <2> SUFFICES ASSUME NEW j \in 1..Len(t) PROVE Ahead(q[1], t[j])
    OBVIOUS
  <2>1. 1 < j + 1 /\ 1 \in 1..Len(q)
    BY <1>2
  <2> QED BY <2>1, <1>2 DEF Ordered
<1> QED BY <1>3, <1>4 DEF OrderedRest, Ordered, Elements, t

(* One more at the end of a queue in order.                                *)
LEMMA OrderedAppend ==
    ASSUME NEW q, Queue(q), Ordered(q), NEW r \in Reqs, \A x \in Elements(q) : Ahead(x, r)
    PROVE  Ordered(Append(q, r))
<1> DEFINE one == <<r>>
<1>1. q \in Seq(Reqs) /\ one \in Seq(Reqs)
  BY DEF Queue
<1>2. Append(q, r) = q \o one
  BY <1>1, AppendIsConcat
<1>3. Ordered(one) /\ Elements(one) = {r}
  BY OrderedOne, QueueOfOne
<1> HIDE DEF one
<1>4. Ordered(q \o one)
  BY <1>1, <1>3, OrderedJoin
<1> QED BY <1>2, <1>4

(* One more in front of it.                                                *)
LEMMA OrderedFront ==
    ASSUME NEW q, Queue(q), Ordered(q), NEW r \in Reqs, \A x \in Elements(q) : Ahead(r, x)
    PROVE  Ordered(<<r>> \o q)
<1> DEFINE one == <<r>>
<1>1. q \in Seq(Reqs) /\ one \in Seq(Reqs)
  BY DEF Queue
<1>2. Ordered(one) /\ Elements(one) = {r}
  BY OrderedOne, QueueOfOne
<1> HIDE DEF one
<1>3. Ordered(one \o q)
  BY <1>1, <1>2, OrderedJoin
<1> QED BY <1>3 DEF one

\* What a step may do to the queues: a request arrives, leaves, is preempted, all
\* are preempted, one is admitted, and the loop over the waiting requests ends.
Arrive(r) == /\ status[r] = "NEW" /\ \A q \in 1..(r - 1) : status[q] # "NEW"
             /\ status' = [status EXCEPT ![r] = "WAITING"]
             /\ waiting' = add_to(waiting, r) /\ running' = running
Leave(r) == /\ r \in Arrivals
            /\ \E new \in Finished : status' = [status EXCEPT ![r] = new]
            /\ RemoveFromQueue(r)
MoveBack(v) == /\ running # <<>> /\ v = Victim
               /\ status' = [status EXCEPT ![v] = "PREEMPTED"]
               /\ waiting' = prepend(waiting, v) /\ running' = Without(running, v)
MoveAllBack == /\ status' = [r \in Reqs |-> IF r \in Elements(running) THEN "PREEMPTED" ELSE status[r]]
               /\ waiting' = prepend_requests(waiting, running) /\ running' = <<>>
Admit(r) == /\ waiting # <<>> /\ r = waiting[1]
            /\ status' = [status EXCEPT ![r] = "RUNNING"]
            /\ waiting' = Tail(waiting) /\ running' = Append(running, r)
LoopEnds == /\ waiting' = prepend_requests(waiting, <<>>) /\ UNCHANGED <<status, running>>

QueueStep == \/ UNCHANGED <<status, waiting, running>> \/ MoveAllBack \/ LoopEnds
             \/ \E r \in Reqs : Arrive(r) \/ Leave(r) \/ MoveBack(r) \/ Admit(r)

(* Without a connector every step does one of these.                       *)
LEMMA NextIsQueueStep ==
    ASSUME ~HasConnector, QueueInv, NoTransfer, BatchInv, [Next]_vars
    PROVE  QueueStep
<1>0. /\ Match(status, waiting, skipped, running) /\ Loop /\ skipped = <<>>
      /\ \A r \in Reqs : ~IsLoading(r)
  BY DEF QueueInv, NoTransfer
<1>1. /\ status \in [Reqs -> Statuses] /\ Queue(waiting) /\ Queue(running)
      /\ Elements(running) \subseteq Reqs /\ Elements(waiting) \subseteq Reqs
  BY <1>0 DEF Match
<1>2. ASSUME NEW r \in Reqs, AddRequest(r) PROVE QueueStep
  BY <1>2 DEF AddRequest, QueueStep, Arrive
<1>3. ASSUME NEW r \in Reqs, AbortRequest(r) PROVE QueueStep
  BY <1>3 DEF AbortRequest, QueueStep, Leave, Arrivals, Finished
<1>4. ASSUME NEW force \in ResetModes, ResetPrefixCache(force) PROVE QueueStep
  <2>1. CASE force
    BY <1>4, <2>1 DEF ResetPrefixCache, QueueStep, MoveAllBack
  <2>2. CASE ~force
    <3>1. status' = [r \in Reqs |-> status[r]] /\ UNCHANGED <<waiting, running>>
      BY <1>4, <2>2 DEF ResetPrefixCache
    <3> QED BY <1>1, <3>1 DEF QueueStep
  <2> QED BY <2>1, <2>2
<1>5. CASE Preempt
  <2>1. running # <<>>
    BY <1>0, <1>1, <1>5, QueueElements DEF Loop, Preempt
  <2>2. Victim \in Reqs
    BY <1>1, <2>1, VictimRuns
  <2>3. MoveBack(Victim)
    BY <1>5, <2>1 DEF Preempt, _preempt_request, MoveBack
  <2> QED BY <2>2, <2>3 DEF QueueStep
<1>6. CASE SkipWaiting \/ _update_waiting_for_remote_kv
  <2>1. waiting # <<>>
    BY <1>6 DEF SkipWaiting, _update_waiting_for_remote_kv, LooksAtWaiting
  <2>2. waiting[1] \in Reqs
    BY <1>1, <2>1, QueueTail
  <2> QED BY <1>0, <1>6, <2>2 DEF SkipWaiting, _update_waiting_for_remote_kv, Skips, NoTransfer
<1>7. ASSUME NEW o, ScheduleWaiting(o) PROVE QueueStep
  <2>1. waiting # <<>>
    BY <1>7 DEF ScheduleWaiting, CanAdmit, AsksForSlots, Considers, LooksAtWaiting
  <2>2. waiting[1] \in Reqs
    BY <1>1, <2>1, QueueTail
  <2>3. Admit(waiting[1])
    BY <1>7, <2>1 DEF ScheduleWaiting, Admit
  <2> QED BY <2>2, <2>3 DEF QueueStep
<1>8. ASSUME NEW o, LoadWaiting(o) PROVE QueueStep
  <2>1. o = NoOffer
    BY <1>8, NoOfferMade DEF LoadWaiting, CanAdmit, AsksForSlots
  <2> QED BY <1>8, <2>1 DEF LoadWaiting, NoOffer
<1>9. ASSUME NEW o, EndWaiting(o) PROVE QueueStep
  BY <1>0, <1>9 DEF EndWaiting, QueueStep, LoopEnds, requests
<1>10. ASSUME NEW eos, AcceptOutput(eos) PROVE QueueStep
  <2> DEFINE r == output[1].req
             n == Len(Append(tokens[r], output[1].token))
             stop == StopStatus(r, n, eos)
  <2>1. /\ pc = "output"
        /\ stop # "NONE" => RemoveFromQueue(r) /\ status' = [status EXCEPT ![r] = stop]
        /\ stop = "NONE" => UNCHANGED <<status, queues>>
    BY <1>10 DEF AcceptOutput
  <2>2. stop # "NONE" => stop \in Finished
    BY DEF StopStatus, Finished
  <2>3. r \in Arrivals
    <3>1. Named(output, Arrivals) /\ output # <<>>
      BY <2>1 DEF BatchInv
    <3>2. IsSeq(output)
      BY <3>1 DEF Named
    <3>3. Len(output) \in Nat /\ Len(output) >= 1
      BY <3>1, <3>2, TailIsSeq
    <3>4. 1 \in 1..Len(output)
      BY <3>3
    <3> QED BY <3>1, <3>4 DEF Named
  <2>4. r \in Reqs
    BY <2>3 DEF Arrivals
  <2> HIDE DEF r, n, stop
  <2>5. CASE stop # "NONE"
    <3>1. Leave(r)
      BY <2>1, <2>2, <2>3, <2>5 DEF Leave
    <3> QED BY <2>4, <3>1 DEF QueueStep
  <2>6. CASE stop = "NONE"
    BY <2>1, <2>6 DEF QueueStep, queues
  <2> QED BY <2>5, <2>6
<1>11. ASSUME NEW r, FailRequest(r) PROVE QueueStep
  BY <1>11 DEF FailRequest, NoTransfer
<1>12. CASE \/ BeginSchedule \/ SkipRunning \/ PickRunning \/ ScheduleRunning \/ EndRunning
            \/ (\E bad : FinishSchedule(bad)) \/ AwaitLast \/ BeginUpdate \/ SkipOutput \/ DiscardOutput
            \/ EndUpdate \/ (\E r : FreeSent(r)) \/ Connector \/ UNCHANGED vars
  <2>1. UNCHANGED <<status, waiting, running>>
    BY <1>12 DEF BeginSchedule, SkipRunning, PickRunning, ScheduleRunning, EndRunning, FinishSchedule,
                 AwaitLast, BeginUpdate, SkipOutput, DiscardOutput, EndUpdate, FreeSent, Connector,
                 LookupDone, LoadFails, LoadDone, SendDone, vars, requests, queues
  <2> QED BY <2>1 DEF QueueStep
<1> QED BY <1>2, <1>3, <1>4, <1>5, <1>6, <1>7, <1>8, <1>9, <1>10, <1>11, <1>12
        DEF Next, Client, Engine

\* First come, first served: the running requests came before the waiting ones, in
\* each queue they are in the order of their arrival, and they arrive in order.
InOrderOfArrival == \A r, q \in Reqs : r < q /\ status[r] = "NEW" => status[q] = "NEW"
InLine(w, u) == Ordered(w) /\ Ordered(u) /\ \A x \in Elements(u), y \in Elements(w) : Ahead(x, y)
FcfsInv == InLine(waiting, running) /\ InOrderOfArrival

(* No step changes the order of first come, first served.                  *)
LEMMA FcfsStep ==
    ASSUME Policy = "fcfs", QueueInv, NoTransfer, FcfsInv, QueueStep
    PROVE  FcfsInv'
<1>0. /\ status \in [Reqs -> Statuses] /\ Queue(waiting) /\ Queue(running)
      /\ Elements(waiting) \subseteq {r \in Reqs : status[r] \in Pending}
      /\ Elements(running) = {r \in Reqs : status[r] = "RUNNING"}
      /\ waiting \in Seq(Reqs) /\ running \in Seq(Reqs)
  BY DEF QueueInv, Match, Queue
<1>1. /\ Ordered(waiting) /\ Ordered(running) /\ InOrderOfArrival
      /\ \A x \in Elements(running), y \in Elements(waiting) : Ahead(x, y)
  BY DEF FcfsInv, InLine
<1>2. \A x, y : Ahead(x, y) <=> x < y
  BY DEF Ahead
<1>3. FcfsInv' <=> InLine(waiting', running') /\ InOrderOfArrival'
  BY DEF FcfsInv
<1>4. ASSUME \A q \in Reqs : status'[q] = "NEW" <=> status[q] = "NEW" PROVE InOrderOfArrival'
  BY <1>1, <1>4 DEF InOrderOfArrival
<1>5. CASE UNCHANGED <<status, waiting, running>>
  BY <1>1, <1>3, <1>4, <1>5 DEF InLine
<1>6. ASSUME NEW r \in Reqs, Arrive(r) PROVE FcfsInv'
  <2>1. /\ status[r] = "NEW" /\ (\A q \in 1..(r - 1) : status[q] # "NEW")
        /\ status' = [status EXCEPT ![r] = "WAITING"]
        /\ waiting' = Append(waiting, r) /\ running' = running
    BY <1>6 DEF Arrive, add_to
  <2>2. \A x \in Reqs : status[x] # "NEW" => x < r
    <3> SUFFICES ASSUME NEW x \in Reqs, status[x] # "NEW", ~(x < r) PROVE FALSE
      OBVIOUS
    <3>1. x \in Nat /\ r \in Nat /\ x # r
      BY <2>1, ReqsAreNumbers
    <3>2. r < x
      BY <3>1
    <3> QED BY <3>2, <2>1, <1>1 DEF InOrderOfArrival
  <2>3. \A x \in Elements(waiting) \cup Elements(running) : Ahead(x, r)
    BY <1>0, <1>2, <2>2 DEF Pending
  <2>4. Ordered(waiting')
    BY <1>0, <1>1, <2>1, <2>3, OrderedAppend
  <2>5. Elements(waiting') = Elements(waiting) \cup {r}
    BY <1>0, <2>1, AppendElements
  <2>6. InLine(waiting', running')
    BY <1>1, <2>1, <2>3, <2>4, <2>5 DEF InLine
  <2>7. InOrderOfArrival'
    <3> SUFFICES ASSUME NEW a \in Reqs, NEW b \in Reqs, a < b, status'[a] = "NEW"
                 PROVE  status'[b] = "NEW"
      BY DEF InOrderOfArrival
    <3>1. a # r /\ status[a] = "NEW"
      BY <1>0, <2>1
    <3>2. status[b] = "NEW"
      BY <3>1, <1>1 DEF InOrderOfArrival
    <3>3. b # r
      <4> SUFFICES ASSUME b = r PROVE FALSE
        OBVIOUS
      <4>1. a \in Nat /\ a # 0
        BY ReqsAreNumbers
      <4>2. a \in 1..(r - 1)
        BY <4>1, ReqsAreNumbers
      <4> QED BY <4>2, <2>1, <3>1
    <3> QED BY <3>2, <3>3, <2>1, <1>0
  <2> QED BY <1>3, <2>6, <2>7
<1>7. ASSUME NEW r \in Reqs, Leave(r) PROVE FcfsInv'
  <2>1. PICK new \in Finished : status' = [status EXCEPT ![r] = new]
    BY <1>7 DEF Leave
  <2>2. /\ status[r] # "NEW" /\ new # "NEW"
        /\ running' = IF status[r] = "RUNNING" THEN Without(running, r) ELSE running
        /\ waiting' = IF status[r] = "RUNNING" THEN waiting ELSE Without(waiting, r)
    BY <1>7 DEF Leave, RemoveFromQueue, Arrivals, Finished
  <2>3. ASSUME NEW q, Queue(q), Ordered(q)
        PROVE  Ordered(Without(q, r)) /\ Elements(Without(q, r)) \subseteq Elements(q)
    BY <2>3, WithoutFacts, OrderedPart
  <2>4. InLine(waiting', running')
    <3>1. Ordered(waiting') /\ Elements(waiting') \subseteq Elements(waiting)
      BY <1>0, <1>1, <2>2, <2>3
    <3>2. Ordered(running') /\ Elements(running') \subseteq Elements(running)
      BY <1>0, <1>1, <2>2, <2>3
    <3> QED BY <1>1, <3>1, <3>2 DEF InLine
  <2>5. InOrderOfArrival'
    BY <1>0, <1>4, <2>1, <2>2
  <2> QED BY <1>3, <2>4, <2>5
<1>8. ASSUME NEW v \in Reqs, MoveBack(v) PROVE FcfsInv'
  <2>1. /\ running # <<>> /\ v = running[Len(running)]
        /\ status' = [status EXCEPT ![v] = "PREEMPTED"]
        /\ waiting' = <<v>> \o waiting /\ running' = Without(running, v)
    BY <1>8 DEF MoveBack, Victim, prepend
  <2>2. Len(running) \in Nat /\ Len(running) # 0
    BY <1>0, <2>1, QueueElements
  <2>3. v \in Elements(running)
    BY <2>1, <2>2 DEF Elements
  <2>4. \A x \in Elements(running) : x # v => Ahead(x, v)
    <3> SUFFICES ASSUME NEW i \in 1..Len(running), running[i] # v PROVE Ahead(running[i], v)
      BY DEF Elements
    <3>1. i < Len(running) /\ Len(running) \in 1..Len(running)
      BY <2>1, <2>2
    <3> QED BY <3>1, <1>1, <2>1 DEF Ordered
  <2>5. Ordered(waiting')
    BY <1>0, <1>1, <2>1, <2>3, OrderedFront
  <2>6. Elements(waiting') = Elements(waiting) \cup {v}
    <3>1. v \notin Elements(waiting)
      BY <1>0, <2>3 DEF Pending
    <3>2. Joined(prepend(waiting, v), waiting, {v})
      BY <1>0, <3>1, AddFacts
    <3> QED BY <2>1, <3>2 DEF prepend, Joined
  <2>7. Ordered(running') /\ Elements(running') = Elements(running) \ {v}
    BY <1>0, <1>1, <2>1, WithoutFacts, OrderedPart
  <2>8. InLine(waiting', running')
    BY <1>1, <2>4, <2>5, <2>6, <2>7 DEF InLine
  <2>9. InOrderOfArrival'
    <3>1. status[v] = "RUNNING"
      BY <1>0, <2>3
    <3> QED BY <1>0, <1>4, <2>1, <3>1
  <2> QED BY <1>3, <2>8, <2>9
<1>9. CASE MoveAllBack
  <2> DEFINE none == <<>>
  <2>1. /\ status' = [r \in Reqs |-> IF r \in Elements(running) THEN "PREEMPTED" ELSE status[r]]
        /\ waiting' = running \o waiting /\ running' = none
    BY <1>9 DEF MoveAllBack, prepend_requests
  <2>2. Elements(none) = {} /\ Ordered(none)
    BY DEF Elements, Ordered
  <2> HIDE DEF none
  <2>3. Ordered(running \o waiting)
    BY <1>0, <1>1, OrderedJoin
  <2>4. InLine(waiting', running')
    BY <2>1, <2>2, <2>3 DEF InLine
  <2>5. InOrderOfArrival'
    BY <1>0, <1>4, <2>1
  <2> QED BY <1>3, <2>4, <2>5
<1>10. ASSUME NEW r \in Reqs, Admit(r) PROVE FcfsInv'
  <2>1. /\ waiting # <<>> /\ r = waiting[1]
        /\ status' = [status EXCEPT ![r] = "RUNNING"]
        /\ waiting' = Tail(waiting) /\ running' = Append(running, r)
    BY <1>10 DEF Admit
  <2>2. r \in Elements(waiting) /\ Elements(waiting') = Elements(waiting) \ {r}
    BY <1>0, <2>1, QueueTail
  <2>3. OrderedRest(waiting)
    BY <1>0, <1>1, <2>1, OrderedTail
  <2>4. Ordered(waiting') /\ \A y \in Elements(waiting') : Ahead(r, y)
    BY <2>1, <2>3 DEF OrderedRest
  <2>5. Ordered(running')
    BY <1>0, <1>1, <2>1, <2>2, OrderedAppend
  <2>6. Elements(running') = Elements(running) \cup {r}
    BY <1>0, <2>1, AppendElements
  <2>7. InLine(waiting', running')
    BY <1>1, <2>2, <2>4, <2>5, <2>6 DEF InLine
  <2>8. InOrderOfArrival'
    <3>1. status[r] # "NEW"
      BY <1>0, <2>2 DEF Pending
    <3> QED BY <1>0, <1>4, <2>1, <3>1
  <2> QED BY <1>3, <2>7, <2>8
<1>11. CASE LoopEnds
  <2> DEFINE none == <<>>
  <2>1. waiting' = none \o waiting /\ UNCHANGED <<status, running>>
    BY <1>11 DEF LoopEnds, prepend_requests
  <2>2. none \o waiting = waiting
    BY <1>0, ConcatEmptySeq
  <2> HIDE DEF none
  <2> QED BY <1>5, <2>1, <2>2
<1> QED BY <1>5, <1>6, <1>7, <1>8, <1>9, <1>10, <1>11 DEF QueueStep

\* Priority: the waiting queue is in order, and whoever was preempted is less
\* urgent than everybody who is running.
PriorityInv == Ordered(waiting) /\ PreemptedIsLeastUrgent

(* No step lets a less urgent request run before one that was preempted.   *)
LEMMA PriorityStep ==
    ASSUME Policy # "fcfs", QueueInv, NoTransfer, PriorityInv, QueueStep
    PROVE  PriorityInv'
<1>0. /\ status \in [Reqs -> Statuses] /\ Queue(waiting) /\ Queue(running)
      /\ Elements(waiting) = {r \in Reqs : status[r] \in Pending}
      /\ Elements(running) = {r \in Reqs : status[r] = "RUNNING"}
  <2>1. skipped = <<>> /\ Match(status, waiting, skipped, running)
    BY DEF QueueInv, NoTransfer
  <2>2. Elements(skipped) = {}
    BY <2>1, QueueElements DEF Match
  <2> QED BY <2>1, <2>2 DEF Match
<1>1. Ordered(waiting) /\ \A r, v \in Reqs : status[r] = "RUNNING" /\ status[v] = "PREEMPTED" => Before(r, v)
  BY DEF PriorityInv, PreemptedIsLeastUrgent
<1>2. ASSUME Ordered(waiting'),
             \A r, v \in Reqs : status'[r] = "RUNNING" /\ status'[v] = "PREEMPTED" => Before(r, v)
      PROVE  PriorityInv'
  BY <1>2 DEF PriorityInv, PreemptedIsLeastUrgent, Before
<1>3. ASSUME Ordered(waiting'), NEW r \in Reqs, NEW new \in Finished \cup {"WAITING"},
             status' = [status EXCEPT ![r] = new]
      PROVE  PriorityInv'
  BY <1>0, <1>1, <1>2, <1>3 DEF Finished
<1>4. CASE UNCHANGED <<status, waiting, running>>
  BY <1>1, <1>2, <1>4 DEF Ordered
<1>5. ASSUME NEW r \in Reqs, Arrive(r) PROVE PriorityInv'
  <2>1. waiting' = Insert(waiting, r) /\ status' = [status EXCEPT ![r] = "WAITING"]
    BY <1>5 DEF Arrive, add_to
  <2>2. Ordered(Insert(waiting, r))
    BY <1>0, <1>1, InsertOrdered
  <2> QED BY <1>3, <2>1, <2>2
<1>6. ASSUME NEW r \in Reqs, Leave(r) PROVE PriorityInv'
  <2>1. PICK new \in Finished : status' = [status EXCEPT ![r] = new]
    BY <1>6 DEF Leave
  <2>2. waiting' = IF status[r] = "RUNNING" THEN waiting ELSE Without(waiting, r)
    BY <1>6 DEF Leave, RemoveFromQueue
  <2>3. Ordered(Without(waiting, r))
    BY <1>0, <1>1, WithoutFacts, OrderedPart
  <2> QED BY <1>1, <1>3, <2>1, <2>2, <2>3
<1>7. ASSUME NEW v \in Reqs, MoveBack(v) PROVE PriorityInv'
  <2>1. /\ running # <<>> /\ v = Victim
        /\ status' = [status EXCEPT ![v] = "PREEMPTED"]
        /\ waiting' = Insert(waiting, v)
    BY <1>7 DEF MoveBack, prepend
  <2>2. Ordered(waiting')
    BY <1>0, <1>1, <2>1, InsertOrdered
  <2>3. \A x \in Elements(running) : x # v => Before(x, v)
    <3>1. \A x \in Elements(running) : ~Before(v, x)
      BY <1>0, <2>1, VictimRuns
    <3> QED BY <1>0, <3>1, BeforeIsTotal
  <2>4. \A r, q \in Reqs : status'[r] = "RUNNING" /\ status'[q] = "PREEMPTED" => Before(r, q)
    BY <1>0, <1>1, <2>1, <2>3
  <2> QED BY <1>2, <2>2, <2>4
<1>8. CASE MoveAllBack
  <2>1. /\ status' = [r \in Reqs |-> IF r \in Elements(running) THEN "PREEMPTED" ELSE status[r]]
        /\ waiting' = InsertAll(waiting, running)
    BY <1>8 DEF MoveAllBack, prepend_requests
  <2>2. Elements(waiting) \cap Elements(running) = {}
    BY <1>0 DEF Pending
  <2>3. Ordered(waiting')
    BY <1>0, <1>1, <2>1, <2>2, InsertAllKeeps
  <2>4. \A r \in Reqs : status'[r] # "RUNNING"
    BY <1>0, <2>1
  <2> QED BY <1>2, <2>3, <2>4
<1>9. ASSUME NEW r \in Reqs, Admit(r) PROVE PriorityInv'
  <2>1. /\ waiting # <<>> /\ r = waiting[1]
        /\ status' = [status EXCEPT ![r] = "RUNNING"] /\ waiting' = Tail(waiting)
    BY <1>9 DEF Admit
  <2>2. Elements(Tail(waiting)) = Elements(waiting) \ {r}
    BY <1>0, <2>1, QueueTail
  <2>3. OrderedRest(waiting)
    BY <1>0, <1>1, <2>1, OrderedTail
  <2>4. Ordered(waiting') /\ \A y \in Elements(waiting) : y # r => Before(r, y)
    BY <2>1, <2>2, <2>3 DEF OrderedRest, Ahead
  <2>5. \A q, v \in Reqs : status'[q] = "RUNNING" /\ status'[v] = "PREEMPTED" => Before(q, v)
    BY <1>0, <1>1, <2>1, <2>4 DEF Pending
  <2> QED BY <1>2, <2>4, <2>5
<1>10. CASE LoopEnds
  <2> DEFINE none == <<>>
  <2>1. waiting' = InsertAll(waiting, none) /\ UNCHANGED <<status, running>>
    BY <1>10 DEF LoopEnds, prepend_requests
  <2>2. Queue(none) /\ Elements(none) = {}
    BY DEF Queue, Elements, Distinct
  <2> HIDE DEF none
  <2>3. Ordered(waiting')
    BY <1>0, <1>1, <2>1, <2>2, InsertAllKeeps
  <2> QED BY <1>1, <1>2, <2>1, <2>3
<1> QED BY <1>4, <1>5, <1>6, <1>7, <1>8, <1>9, <1>10 DEF QueueStep

\* What the policy asks for.
PolicyInv == IF Policy = "fcfs" THEN FcfsInv ELSE PriorityInv

\* The inductive invariant without a connector.
OrderInv == QueueInv /\ NoTransfer /\ BatchInv /\ PolicyInv

(* Initially nobody waits or runs.                                         *)
LEMMA InitOrder == Init /\ ~HasConnector => OrderInv
<1> SUFFICES ASSUME Init, ~HasConnector PROVE OrderInv
  OBVIOUS
<1>1. QueueInv /\ NoTransfer /\ BatchInv
  BY InitQueue, InitTransfer, InitBatch
<1> DEFINE none == <<>>
<1>2. waiting = none /\ running = none /\ status = [r \in Reqs |-> "NEW"]
  BY DEF Init
<1>3. Ordered(none) /\ Elements(none) = {}
  BY DEF Ordered, Elements
<1> HIDE DEF none
<1>4. FcfsInv
  BY <1>2, <1>3 DEF FcfsInv, InLine, InOrderOfArrival
<1>5. PriorityInv
  BY <1>2, <1>3 DEF PriorityInv, PreemptedIsLeastUrgent
<1> QED BY <1>1, <1>4, <1>5 DEF OrderInv, PolicyInv

(* Every step keeps it.                                                    *)
LEMMA NextOrder == ~HasConnector /\ OrderInv /\ [Next]_vars => OrderInv'
<1> SUFFICES ASSUME ~HasConnector, OrderInv, [Next]_vars PROVE OrderInv'
  OBVIOUS
<1>0. QueueInv /\ NoTransfer /\ BatchInv /\ PolicyInv
  BY DEF OrderInv
<1>1. QueueInv' /\ NoTransfer' /\ BatchInv'
  BY <1>0, NextQueue, NextTransfer, NextBatch
<1>2. QueueStep
  BY <1>0, NextIsQueueStep
<1>3. PolicyInv'
  <2>1. CASE Policy = "fcfs"
    BY <1>0, <1>2, <2>1, FcfsStep DEF PolicyInv
  <2>2. CASE Policy # "fcfs"
    BY <1>0, <1>2, <2>2, PriorityStep DEF PolicyInv
  <2> QED BY <2>1, <2>2
<1> QED BY <1>1, <1>3 DEF OrderInv

(* What follows from it.                                                   *)
LEMMA OrderInvSuffices ==
    ASSUME OrderInv
    PROVE  (Policy = "fcfs" => FcfsOrder) /\ (Policy # "fcfs" => PreemptedIsLeastUrgent)
<1>1. PolicyInv /\ running \in Seq(Reqs) /\ waiting \in Seq(Reqs)
  BY DEF OrderInv, QueueInv, Match, Queue
<1>2. Policy = "fcfs" => FcfsOrder
  <2> SUFFICES ASSUME Policy = "fcfs" PROVE FcfsOrder
    OBVIOUS
  <2>1. Ordered(running \o waiting)
    BY <1>1, OrderedJoin DEF PolicyInv, FcfsInv, InLine
  <2> DEFINE q == running \o waiting
  <2> HIDE DEF q
  <2>2. \A i, j \in 1..Len(q) : i < j => q[i] < q[j]
    BY <2>1 DEF Ordered, Ahead, q
  <2> QED BY <2>2 DEF FcfsOrder, q
<1>3. Policy # "fcfs" => PreemptedIsLeastUrgent
  BY <1>1 DEF PolicyInv, PriorityInv
<1> QED BY <1>2, <1>3

(***************************************************************************)
(* First come, first served, without a KV connector: whatever arrives,     *)
(* stops, is aborted, preempted or reset, the running requests followed by *)
(* the waiting ones are always in the order of their arrival.              *)
(***************************************************************************)
THEOREM FcfsNeverOvertakes == Spec => [](Policy = "fcfs" /\ ~HasConnector => FcfsOrder)
<1>1. CASE HasConnector
  <2>1. Policy = "fcfs" /\ ~HasConnector => FcfsOrder
    BY <1>1
  <2> QED BY <2>1, PTL
<1>2. CASE ~HasConnector
  <2>1. Init => OrderInv
    BY <1>2, InitOrder
  <2>2. OrderInv /\ [Next]_vars => OrderInv'
    BY <1>2, NextOrder
  <2>3. OrderInv => (Policy = "fcfs" /\ ~HasConnector => FcfsOrder)
    BY OrderInvSuffices
  <2> QED BY <2>1, <2>2, <2>3, PTL DEF Spec
<1> QED BY <1>1, <1>2

(***************************************************************************)
(* The priority policy, without a KV connector: whoever was preempted is   *)
(* less urgent than everybody who is running, until it runs again.         *)
(***************************************************************************)
THEOREM PriorityPreemptsTheLeastUrgent ==
    Spec => [](Policy # "fcfs" /\ ~HasConnector => PreemptedIsLeastUrgent)
<1>1. CASE HasConnector
  <2>1. Policy # "fcfs" /\ ~HasConnector => PreemptedIsLeastUrgent
    BY <1>1
  <2> QED BY <2>1, PTL
<1>2. CASE ~HasConnector
  <2>1. Init => OrderInv
    BY <1>2, InitOrder
  <2>2. OrderInv /\ [Next]_vars => OrderInv'
    BY <1>2, NextOrder
  <2>3. OrderInv => (Policy # "fcfs" /\ ~HasConnector => PreemptedIsLeastUrgent)
    BY OrderInvSuffices
  <2> QED BY <2>1, <2>2, <2>3, PTL DEF Spec
<1> QED BY <1>1, <1>2
=============================================================================
