----------------------- MODULE SchedulerBlocks_proofs -----------------------
(***************************************************************************)
(* Theorems about the scheduler and the KV cache manager together: the     *)
(* blocks are accounted for whatever is scheduled, preempted, aborted,     *)
(* reset, loaded, sent or fails, what is finished stays so, and every step *)
(* keeps to the limits of tokens and of running requests.                  *)
(***************************************************************************)
EXTENDS Scheduler_proofs, KVCacheManager_proofs

-----------------------------------------------------------------------------
(* The invariant. *)

\* The requests' tokens and counters, and the token budget.
Numbers ==
    /\ tokens \in [Reqs -> Seq(Nat)] /\ \A r \in Reqs : Len(tokens[r]) >= 1
    /\ num_computed_tokens \in [Reqs -> Int] /\ num_output_placeholders \in [Reqs -> Nat]
    /\ num_cached_tokens \in [Reqs -> Int]
    /\ token_budget \in Int

\* The tokens that batches bring.
BringsTokens(b) == \A i \in 1..Len(b) : b[i].token \in Nat
TokenInv == /\ BringsTokens(output)
            /\ \A k \in 1..Len(inflight) : BringsTokens(inflight[k])

\* The request of x is running, and has or expects all the tokens it is scheduled for.
Fits(x) ==
    /\ x.req \in Reqs /\ x.n \in Int
    /\ status[x.req] = "RUNNING"
    /\ num_computed_tokens[x.req] + x.n <= Len(tokens[x.req]) + num_output_placeholders[x.req]

\* The loop over the running requests has passed r.
Passed(r) == \E j \in 1..Len(running) : j < req_index /\ running[j] = r

\* What schedule() has picked so far.
Picked ==
    /\ \A i \in 1..Len(scheduled) : Fits(scheduled[i])
    /\ pc \in {"running", "alloc"} /\ Policy = "fcfs" =>
          \A i \in 1..Len(scheduled) : Passed(scheduled[i].req)
    /\ pc = "alloc" =>
          /\ Fits(current)
          /\ Policy = "fcfs" => req_index \in 1..Len(running) /\ running[req_index] = current.req

\* Batch t is about r: 0 is the one whose output is processed, 1 the oldest in flight.
About(b, r) == \E i \in 1..Len(b) : b[i].req = r
InFlight(r, t) == \/ t = 0 /\ About(output, r)
                  \/ t \in 1..Len(inflight) /\ About(inflight[t], r)
Quiet(r) == \A t \in Int : ~InFlight(r, t)

\* The load of r goes on; its end is reported with batch t, or with -1 it is known.
IsBeingLoaded(r) == \E l \in loads : l.req = r
Notice(r, t) == \/ t = -1 /\ r \in finished_recving
                \/ t = 0 /\ r \in report.recved
                \/ t \in 1..Len(reports) /\ r \in reports[t].recved

\* There is a report with every batch, and one load for a request.
Report == [recved : SUBSET Reqs, sent : SUBSET Reqs, invalid : SUBSET Blocks]
Paired ==
    /\ reports \in Seq(Report) /\ report \in Report /\ Len(reports) = Len(inflight)
    /\ pc # "output" => output = <<>>
    /\ \A l \in loads : l = [req |-> l.req, blocks |-> l.blocks, bad |-> l.bad,
                             from |-> l.from, to |-> l.to]
    /\ \A l, m \in loads : l.req = m.req => l = m

\* A load is for a request that waits for it or is finished, and is reported once:
\* with a batch formed no earlier than the last one that is about the request.
Told(r) ==
    /\ \A t, u \in Int : Notice(r, t) /\ Notice(r, u) => t = u
    /\ IsBeingLoaded(r) => \A t \in Int : ~Notice(r, t)
    /\ IsBeingLoaded(r) \/ (\E t \in Int : Notice(r, t)) => IsLoading(r) \/ status[r] \in Finished
    /\ IsLoading(r) => \A t, u \in Int : Notice(r, t) /\ InFlight(r, u) => u <= t

LoadInv == Paired /\ \A r \in Reqs : Told(r)

\* A request has not computed more tokens than it has or expects; what waits does not
\* have more blocks than its tokens fill.
Bounded(r) ==
    /\ num_cached_tokens[r] < Len(tokens[r])
    /\ status[r] = "RUNNING" =>
          num_computed_tokens[r] <= Len(tokens[r]) + num_output_placeholders[r]
    /\ status[r] \in Pending \cup {"NEW"} =>
          /\ num_computed_tokens[r] < Len(tokens[r])
          /\ Within(kv.req_to_blocks[r], Len(tokens[r]))

\* Who may have blocks: as BlockAccounting says, and those of a request that waits
\* are counted, since they were given to it for a connector; once they are loaded no
\* batch brings the request another token.
MayHold(r) ==
    kv.req_to_blocks[r] # <<>> =>
       \/ status[r] = "RUNNING" \/ (status[r] \in Finished /\ r \in sending)
       \/ /\ status[r] \in Pending /\ HasConnector /\ kv.num_cached_block[r] # Untracked
          /\ \/ IsLoading(r)
             \/ Quiet(r) /\ (num_computed_tokens[r] > 0 \/ Len(tokens[r]) = 1)

Rightful == /\ \A r \in Reqs : Bounded(r) /\ MayHold(r)
            /\ ~HasConnector => \A r \in Reqs : ~IsLoading(r)

\* The inductive invariant.
BlockInv == /\ QueueInv /\ BatchInv
            /\ Numbers /\ TokenInv /\ Picked /\ LoadInv /\ Rightful /\ KVInv(kv)

-----------------------------------------------------------------------------
(* Operators. *)

(* When one of the queue leaves, the others close up.                      *)
LEMMA WithoutAt ==
    ASSUME NEW q, Queue(q), NEW p \in 1..Len(q), NEW o, o = Without(q, q[p])
    PROVE  /\ Len(q) \in Nat /\ Len(o) = Len(q) - 1
           /\ \A i \in 1..(Len(q) - 1) : o[i] = IF i < p THEN q[i] ELSE q[i + 1]
<1> DEFINE n == Len(q)
           S == Reqs \ {q[p]}
<1>1. q \in Seq(Reqs) /\ Distinct(q) /\ n \in Nat /\ n # 0 /\ \A i \in 1..n : q[i] \in Reqs
  BY QueueElements DEF Queue
<1>2. PICK F \in [0..n -> Seq(Reqs)] : Unfolds(F, q, S)
  BY <1>1, OnlyUnfolds
<1>3. /\ o = F[n] /\ F[0] = <<>>
      /\ \A i \in 1..n : F[i] = IF q[i] \in S THEN Append(F[i - 1], q[i]) ELSE F[i - 1]
  BY <1>2 DEF Unfolds, Without
<1>4. \A i \in 1..n : q[i] \in S <=> i # p
  BY <1>1 DEF Distinct
<1> HIDE DEF S
<1> DEFINE Good(m) == /\ Len(F[m]) = IF m < p THEN m ELSE m - 1
                      /\ \A i \in 1..Len(F[m]) : F[m][i] = IF i < p THEN q[i] ELSE q[i + 1]
           T == {m \in 0..n : ~Good(m)}
<1>5. T = {}
  <2> SUFFICES ASSUME T # {} PROVE FALSE
    OBVIOUS
  <2>1. PICK m \in T : \A k \in T : m <= k
    <3>1. T \in SUBSET Nat
      BY <1>1
    <3> HIDE DEF T
    <3> QED BY <3>1, LeastElement
  <2>2. m \in 0..n /\ ~Good(m)
    BY <2>1
  <2>3. Good(0)
    BY <1>3
  <2>4. m \in 1..n /\ m - 1 \in 0..n /\ m - 1 \notin T
    <3>1. m # 0
      BY <2>2, <2>3
    <3> HIDE DEF T
    <3> QED BY <2>1, <2>2, <3>1, <1>1
  <2>5. Good(m - 1)
    BY <2>4
  <2> DEFINE f == F[m - 1]
  <2>6. /\ f \in Seq(Reqs) /\ q[m] \in Reqs /\ Len(f) \in Nat
        /\ Len(f) = IF m - 1 < p THEN m - 1 ELSE m - 2
        /\ \A i \in 1..Len(f) : f[i] = IF i < p THEN q[i] ELSE q[i + 1]
    <3>1. Len(f) = IF m - 1 < p THEN m - 1 ELSE (m - 1) - 1
      BY <2>5
    <3>2. \A i \in 1..Len(f) : f[i] = IF i < p THEN q[i] ELSE q[i + 1]
      BY <2>5
    <3>3. f \in Seq(Reqs) /\ q[m] \in Reqs /\ m \in Nat
      <4>1. f \in Seq(Reqs)
        BY <2>4
      <4>2. q[m] \in Reqs
        BY <2>4, <1>1
      <4>3. m \in Nat
        <5> HIDE DEF n, T, f
        <5> QED BY <2>4, <1>1
      <4> QED BY <4>1, <4>2, <4>3
    <3> HIDE DEF f
    <3>4. Len(f) \in Nat
      BY <3>3
    <3> QED BY <3>1, <3>2, <3>3, <3>4
  <2>7. F[m] = IF m # p THEN Append(f, q[m]) ELSE f
    BY <2>4, <1>3, <1>4
  <2> HIDE DEF f, Good
  <2>8. CASE m = p
    BY <2>4, <2>6, <2>7, <2>8 DEF Good
  <2>9. CASE m # p
    <3>1. /\ Len(F[m]) = Len(f) + 1 /\ F[m][Len(f) + 1] = q[m]
          /\ \A i \in 1..Len(f) : F[m][i] = f[i]
      BY <2>6, <2>7, <2>9, AppendElements
    <3>2. Len(F[m]) = IF m < p THEN m ELSE m - 1
      BY <2>4, <2>6, <2>9, <3>1
    <3>3. ASSUME NEW i \in 1..Len(F[m]) PROVE F[m][i] = IF i < p THEN q[i] ELSE q[i + 1]
      <4>1. i \in 1..Len(f) \/ i = Len(f) + 1
        BY <3>1, <3>3, <2>6
      <4>2. CASE i \in 1..Len(f)
        BY <4>2, <3>1, <2>6
      <4>3. CASE i = Len(f) + 1
        <5>1. F[m][i] = q[m] /\ (i < p => i = m) /\ (~(i < p) => i + 1 = m)
          BY <4>3, <3>1, <2>4, <2>6, <2>9
        <5> QED BY <5>1
      <4> QED BY <4>1, <4>2, <4>3
    <3> QED BY <3>2, <3>3 DEF Good
  <2> QED BY <2>2, <2>8, <2>9
<1>6. Good(n)
  <2>1. n \in 0..n
    BY <1>1
  <2> HIDE DEF Good
  <2> QED BY <2>1, <1>5
<1>7. ~(n < p)
  BY <1>1
<1> QED BY <1>1, <1>3, <1>6, <1>7

(* The victim of the fcfs policy is the last of the queue; the others stay *)
(* where they are.                                                         *)
LEMMA WithoutLast ==
    ASSUME NEW q, Queue(q), q # <<>>, NEW o, o = Without(q, q[Len(q)])
    PROVE  Len(o) = Len(q) - 1 /\ \A i \in 1..(Len(q) - 1) : o[i] = q[i]
<1>1. Len(q) \in 1..Len(q)
  BY QueueElements
<1>2. /\ Len(q) \in Nat /\ Len(o) = Len(q) - 1
      /\ \A i \in 1..(Len(q) - 1) : o[i] = IF i < Len(q) THEN q[i] ELSE q[i + 1]
  BY <1>1, WithoutAt
<1> QED BY <1>2

(* A prefix hit is not longer than the request.                            *)
LEMMA HitLength ==
    ASSUME NEW k, KVInv(k), NEW s \in Seq(Nat), Len(s) >= 1, NEW hit, hit = get_computed_blocks(k, s)
    PROVE  /\ Usable(hit, k.pool) /\ hit \in Seq(Blocks) /\ Len(hit) \in Nat
           /\ Len(hit) * BlockSize < Len(s)
<1> DEFINE p == k.pool
           hs == block_hashes(s)
           d == (Len(s) - 1) \div BlockSize
<1>1. p \in Pools /\ MapOK(p.cached, p.block_hash)
  BY InOrder DEF Accounted
<1>2. Usable(hit, p) /\ hit \in Seq(Blocks)
  <2>1. Usable(hit, p)
    BY ComputedBlocksFacts
  <2> QED BY <2>1 DEF Usable
<1>3. Len(hit) \in Nat
  BY <1>2
<1>4. Len(s) \in Nat /\ Len(s) - 1 \in Nat /\ BlockSize \in Nat /\ BlockSize > 0
  BY KVCacheManagerAssumption
<1>5. d \in Nat /\ d * BlockSize <= Len(s) - 1
  BY <1>4, DivFacts
<1>6. CASE hit = <<>>
  <2>1. Len(hit) * BlockSize = 0
    BY <1>6, <1>4
  <2> QED BY <2>1, <1>2, <1>3, <1>4
<1>7. CASE hit # <<>>
  <2>0. EnableCaching
    BY <1>7 DEF get_computed_blocks
  <2> HIDE DEF p
  <2>1. GoodHit(hit, p, s)
    <3>1. CASE SlidingWindow = 0
      <4>1. hit = FullAttentionHit(p, hs, Len(s) - 1)
        BY <2>0, <3>1 DEF get_computed_blocks, p
      <4> QED BY <4>1, <1>1, FullAttentionHitFacts
    <3>2. CASE SlidingWindow # 0
      <4>1. hit = SlidingWindowHit(p, hs, Len(s) - 1)
        BY <2>0, <3>2 DEF get_computed_blocks, p
      <4> QED BY <3>2, <4>1, <1>1, SlidingWindowHitFacts
    <3> QED BY <3>1, <3>2
  <2>2. Len(hit) <= d
    BY <2>1 DEF GoodHit
  <2> HIDE DEF d
  <2> DEFINE l == Len(hit)
  <2>3. l * BlockSize <= d * BlockSize /\ l * BlockSize \in Nat /\ d * BlockSize \in Nat
    <3>1. l \in Nat /\ l <= d
      BY <1>3, <2>2
    <3> HIDE DEF l
    <3> QED BY <3>1, <1>4, <1>5, TimesMonotone
  <2>4. l * BlockSize < Len(s)
    BY <2>3, <1>4, <1>5
  <2> QED BY <2>4, <1>2, <1>3 DEF p
<1> QED BY <1>6, <1>7

\* From k to m the requests S have lost their blocks and nobody else any.
LoseBlocks(k, m, S) ==
    \A q \in Reqs : IF q \in S THEN m.req_to_blocks[q] = <<>>
                    ELSE /\ m.req_to_blocks[q] = k.req_to_blocks[q]
                         /\ m.num_cached_block[q] = k.num_cached_block[q]

(* reset_prefix_cache preempts everybody who is running.                   *)
LEMMA AllFreedFacts ==
    ASSUME KVInv(kv), Queue(running)
    PROVE  KVInv(AllFreed) /\ LoseBlocks(kv, AllFreed, Elements(running))
<1> DEFINE n == Len(running)
           Def(f) == f = [i \in 0..n |-> IF i = 0 THEN kv ELSE free(f[i - 1], running[n + 1 - i])]
           v == CHOOSE f : Def(f)
           V == {k \in Managers : KVInv(k)}
           G == [x \in V \X (1..n) |-> free(x[1], running[n + 1 - x[2]])]
<1>1. n \in Nat /\ \A i \in 1..n : running[i] \in Reqs
  BY QueueElements DEF Queue
<1>2. AllFreed = v[n]
  BY DEF AllFreed
<1>3. kv \in V
  BY InOrder
<1>4. \A k \in V : KVInv(k)
  OBVIOUS
<1>5. \A i \in 1..n : n + 1 - i \in 1..n /\ running[n + 1 - i] \in Reqs
  BY <1>1
<1>6. \A k, i : k \in V /\ i \in 1..n => free(k, running[n + 1 - i]) \in V
  <2> SUFFICES ASSUME NEW k \in V, NEW i \in 1..n PROVE free(k, running[n + 1 - i]) \in V
    OBVIOUS
  <2> DEFINE r == running[n + 1 - i]
             m == free(k, r)
  <2>1. r \in Reqs
    BY <1>5
  <2> HIDE DEF r
  <2>2. KVInv(m)
    BY <2>1, <1>4, FreeKeeps
  <2> HIDE DEF m
  <2>3. m \in V
    BY <2>2, InOrder
  <2> QED BY <2>3 DEF m, r
<1> HIDE DEF V, v
<1>7. G \in [V \X (1..n) -> V]
  BY <1>6
<1>8. \A k \in V, i \in 1..n : G[<<k, i>>] = free(k, running[n + 1 - i])
  OBVIOUS
<1> HIDE DEF G
<1>9. PICK f \in [0..n -> V] : f[0] = kv /\ \A i \in 1..n : f[i] = G[<<f[i - 1], i>>]
  <2>1. n \in Nat /\ kv \in V /\ G \in [V \X (1..n) -> V]
    BY <1>1, <1>3, <1>7
  <2> HIDE DEF n
  <2>2. HasRecursion(V, n, kv, G)
    BY <2>1, RecursionExists
  <2> QED BY <2>2 DEF HasRecursion, n
<1>10. \A i \in 1..n : i - 1 \in 0..n /\ f[i] = free(f[i - 1], running[n + 1 - i])
  <2> TAKE i \in 1..n
  <2>1. i - 1 \in 0..n
    BY <1>1
  <2>2. f[i - 1] \in V
    BY <2>1
  <2> QED BY <2>1, <2>2, <1>8, <1>9
<1>11. Def(f)
  <2>1. \A i \in 0..n : f[i] = IF i = 0 THEN kv ELSE free(f[i - 1], running[n + 1 - i])
    <3> TAKE i \in 0..n
    <3>1. i = 0 \/ i \in 1..n
      BY <1>1
    <3> QED BY <3>1, <1>9, <1>10
  <2> QED BY <2>1
<1>12. Def(v)
  BY <1>11 DEF v
<1>13. v[0] = kv /\ \A i \in 1..n : v[i] = free(v[i - 1], running[n + 1 - i])
  <2>1. \A i \in 0..n : v[i] = IF i = 0 THEN kv ELSE free(v[i - 1], running[n + 1 - i])
    BY <1>12, Zenon
  <2> QED BY <2>1, <1>1
<1> DEFINE LastOf(i) == {running[n + 1 - j] : j \in 1..i}
           Good(i) == KVInv(v[i]) /\ LoseBlocks(kv, v[i], LastOf(i))
           T == {i \in 0..n : ~Good(i)}
<1>14. T = {}
  <2> SUFFICES ASSUME T # {} PROVE FALSE
    OBVIOUS
  <2>1. PICK m \in T : \A k \in T : m <= k
    <3>1. T \in SUBSET Nat
      BY <1>1
    <3> HIDE DEF T
    <3> QED BY <3>1, LeastElement
  <2>2. m \in 0..n /\ ~Good(m)
    BY <2>1
  <2>3. m # 0
    <3>1. LastOf(0) = {}
      OBVIOUS
    <3>2. Good(0)
      BY <3>1, <1>13 DEF LoseBlocks
    <3> QED BY <3>2, <2>2
  <2>4. m \in 1..n /\ m - 1 \in 0..n /\ m - 1 \notin T
    <3> HIDE DEF T
    <3> QED BY <2>1, <2>2, <2>3, <1>1
  <2>5. Good(m - 1)
    BY <2>4
  <2> DEFINE r == running[n + 1 - m]
             k == v[m - 1]
             S == LastOf(m - 1)
  <2>6. LastOf(m) = S \cup {r}
    <3>1. 1..m = (1..(m - 1)) \cup {m}
      BY <2>4, <1>1
    <3> QED BY <3>1
  <2>7. KVInv(k) /\ LoseBlocks(kv, k, S) /\ r \in Reqs /\ v[m] = free(k, r)
    BY <2>4, <2>5, <1>5, <1>13
  <2> HIDE DEF r, k, LastOf, S
  <2>8. KVInv(free(k, r)) /\ OthersSame(k, free(k, r), r) /\ free(k, r).req_to_blocks[r] = <<>>
    BY <2>7, FreeKeeps, FreeFrame
  <2>9. LoseBlocks(kv, free(k, r), S \cup {r})
    BY <2>7, <2>8 DEF LoseBlocks, OthersSame
  <2>10. Good(m)
    BY <2>6, <2>7, <2>8, <2>9
  <2> QED BY <2>2, <2>10
<1>15. Good(n)
  <2>1. n \in 0..n
    BY <1>1
  <2> HIDE DEF Good
  <2> QED BY <2>1, <1>14
<1>16. LastOf(n) = Elements(running)
  <2>1. \A i \in 1..n : running[i] \in LastOf(n)
    <3> TAKE i \in 1..n
    <3>1. n + 1 - i \in 1..n /\ n + 1 - (n + 1 - i) = i
      BY <1>1
    <3> QED BY <3>1
  <2> QED BY <2>1, <1>5 DEF Elements
<1> HIDE DEF LastOf
<1> QED BY <1>2, <1>15, <1>16

\* What _update_requests_with_invalid_blocks keeps.
Effects == [reqs : SUBSET Reqs, marked : SUBSET Blocks, evict : SUBSET Blocks,
            computed : [Reqs -> Int]]

\* The requests S may have fallen back, to fewer tokens than they have.
FallBack(c, d, S) ==
    \A q \in Reqs : d[q] = c[q] \/ (q \in S /\ d[q] < Len(tokens[q]))

\* What the scheduler relies on when blocks have failed to load.
CanFallBack(q) ==
    /\ num_cached_tokens[q] < Len(tokens[q])
    /\ IsLoading(q) => Within(kv.req_to_blocks[q], Len(tokens[q]))

(* One request.                                                            *)
LEMMA AffectedFacts ==
    ASSUME KVInv(kv), Numbers, NEW x \in Effects, NEW r \in Reqs, CanFallBack(r),
           NEW y, y = Affected(x, r)
    PROVE  y \in Effects /\ FallBack(x.computed, y.computed, {r})
<1> DEFINE table == kv.req_to_blocks[r]
           e == ExternalBlocks(r, x.computed[r])
           hit == {i \in 1..e : table[i] \in Head(reports).invalid}
           own == {i \in hit : table[i] \notin x.marked}
           first == CHOOSE i \in own : \A j \in own : i <= j
           mark == {table[i] : i \in own}
           back == IF own = {} THEN num_cached_tokens[r] ELSE (first - 1) * BlockSize
           ev == IF own = {} THEN {} ELSE {table[i] : i \in first..Len(table)}
           full == Len(table) * BlockSize
           num == IF ~IsLoading(r) THEN num_cached_tokens[r]
                  ELSE IF r \in failed_recving THEN x.computed[r] ELSE full
<1>1. /\ table \in Seq(Blocks) /\ Len(table) \in Nat /\ \A i \in 1..Len(table) : table[i] \in Blocks
  <2>1. kv.req_to_blocks \in [Reqs -> Seq(Blocks)]
    BY InOrder
  <2> QED BY <2>1
<1>2. /\ num_cached_tokens[r] \in Int /\ Len(tokens[r]) \in Nat /\ num_cached_tokens[r] < Len(tokens[r])
      /\ IsLoading(r) => Within(table, Len(tokens[r]))
  BY DEF Numbers, CanFallBack
<1>3. BlockSize \in Nat /\ BlockSize > 0
  BY KVCacheManagerAssumption
<1>4. y = IF hit = {} THEN x
          ELSE [x EXCEPT !.reqs = @ \cup {r}, !.marked = @ \cup mark, !.computed[r] = back,
                         !.evict = @ \cup ev]
  BY DEF Affected
<1>5. e = MinOf(Len(table), cdiv(num, BlockSize))
  BY DEF ExternalBlocks
<1>6. x.reqs \in SUBSET Reqs /\ x.marked \in SUBSET Blocks /\ x.evict \in SUBSET Blocks
      /\ x.computed \in [Reqs -> Int]
  BY DEF Effects
<1>7. num \in Int
  <2>1. full \in Int
    BY <1>1, <1>3
  <2> HIDE DEF full
  <2> QED BY <2>1, <1>2, <1>6
<1>8. e \in Int /\ e <= Len(table) /\ e <= cdiv(num, BlockSize)
  <2>1. cdiv(num, BlockSize) \in Int
    BY <1>7, CdivType
  <2> QED BY <2>1, <1>1, <1>5 DEF MinOf
<1>9. ~IsLoading(r) => num = num_cached_tokens[r]
  OBVIOUS
<1> HIDE DEF table, e, num, full
<1>10. hit \in SUBSET (1..Len(table)) /\ own \in SUBSET hit
  BY <1>1, <1>8
<1>11. mark \in SUBSET Blocks
  BY <1>1, <1>10
<1>12. ASSUME own # {}
       PROVE  first \in 1..e /\ first \in 1..Len(table)
  <2> HIDE DEF own, hit
  <2>1. own \in SUBSET Nat
    BY <1>10, <1>1
  <2>2. \E i \in own : \A j \in own : i <= j
    BY <2>1, <1>12, LeastElement
  <2>3. first \in own
    BY <2>2
  <2>4. first \in hit /\ first \in 1..Len(table)
    BY <2>3, <1>10
  <2> QED BY <2>4 DEF hit
<1> HIDE DEF own, first, hit
<1>13. back \in Int /\ back < Len(tokens[r])
  <2>1. CASE own = {}
    BY <2>1, <1>2
  <2>2. CASE own # {}
    <3>1. first \in Nat \ {0} /\ first <= e /\ first <= Len(table)
      BY <2>2, <1>8, <1>1, <1>12
    <3>2. (first - 1) * BlockSize \in Int
      BY <3>1, <1>3
    <3>3. CASE ~IsLoading(r)
      <4>1. first <= cdiv(num, BlockSize)
        <5>1. cdiv(num, BlockSize) \in Int
          BY <1>7, CdivType
        <5> QED BY <5>1, <3>1, <1>8
      <4>2. (first - 1) * BlockSize < num
        BY <4>1, <3>1, <1>7, WithinCdiv
      <4>3. (first - 1) * BlockSize < num_cached_tokens[r]
        BY <4>2, <3>3, <1>9
      <4> QED BY <4>3, <3>2, <2>2, <1>2
    <3>4. CASE IsLoading(r)
      <4>1. (Len(table) - 1) * BlockSize < Len(tokens[r])
        BY <3>4, <3>1, <1>1, <1>2 DEF Within
      <4> DEFINE a == first - 1
                 b == Len(table) - 1
      <4>2. a \in Nat /\ b \in Nat /\ a <= b
        BY <3>1, <1>1
      <4> HIDE DEF a, b
      <4>3. a * BlockSize <= b * BlockSize /\ a * BlockSize \in Nat /\ b * BlockSize \in Nat
        BY <4>2, <1>3, TimesMonotone
      <4>4. a * BlockSize < Len(tokens[r])
        BY <4>1, <4>3, <1>2 DEF b
      <4> QED BY <4>4, <3>2, <2>2 DEF a
    <3> QED BY <3>3, <3>4
  <2> QED BY <2>1, <2>2
<1>14. ev \in SUBSET Blocks
  <2>1. CASE own = {}
    BY <2>1
  <2>2. CASE own # {}
    <3>1. \A i \in first..Len(table) : i \in 1..Len(table)
      BY <2>2, <1>1, <1>12
    <3> QED BY <3>1, <1>1
  <2> QED BY <2>1, <2>2
<1> HIDE DEF back, ev, mark
<1>15. CASE hit = {}
  BY <1>15, <1>4 DEF FallBack
<1>16. CASE hit # {}
  <2>1. y = [x EXCEPT !.reqs = @ \cup {r}, !.marked = @ \cup mark, !.computed[r] = back,
                      !.evict = @ \cup ev]
    BY <1>16, <1>4
  <2>2. x = [reqs |-> x.reqs, marked |-> x.marked, evict |-> x.evict, computed |-> x.computed]
    BY DEF Effects
  <2>3. y = [reqs |-> x.reqs \cup {r}, marked |-> x.marked \cup mark, evict |-> x.evict \cup ev,
             computed |-> [x.computed EXCEPT ![r] = back]]
    BY <2>1, <2>2
  <2>4. [x.computed EXCEPT ![r] = back] \in [Reqs -> Int]
    BY <1>6, <1>13
  <2>5. y \in Effects
    BY <2>3, <2>4, <1>6, <1>11, <1>14 DEF Effects
  <2>6. FallBack(x.computed, y.computed, {r})
    <3>1. y.computed = [x.computed EXCEPT ![r] = back]
      BY <2>3
    <3> QED BY <3>1, <1>6, <1>13 DEF FallBack
  <2> QED BY <2>5, <2>6
<1> QED BY <1>15, <1>16

(* A list of requests, one after the other.                                *)
LEMMA AllAffectedFacts ==
    ASSUME KVInv(kv), Numbers, NEW c \in [Reqs -> Int], NEW s \in Seq(Reqs),
           \A q \in Elements(s) : CanFallBack(q)
    PROVE  /\ AllAffected(c, s) \in Effects
           /\ FallBack(c, AllAffected(c, s).computed, Elements(s))
<1> DEFINE n == Len(s)
           u == Unaffected(c)
           Def(f) == f = [i \in 0..n |-> IF i = 0 THEN u ELSE Affected(f[i - 1], s[i])]
           v == CHOOSE f : Def(f)
           G == [x \in Effects \X (1..n) |-> Affected(x[1], s[x[2]])]
<1>1. n \in Nat /\ \A i \in 1..n : s[i] \in Reqs /\ CanFallBack(s[i])
  BY DEF Elements
<1>2. AllAffected(c, s) = v[n]
  BY DEF AllAffected
<1>3. u \in Effects /\ u.computed = c
  BY DEF Unaffected, Effects
<1>4. \A x \in Effects, i \in 1..n : Affected(x, s[i]) \in Effects
  BY <1>1, AffectedFacts
<1> HIDE DEF u, v
<1>5. G \in [Effects \X (1..n) -> Effects]
  BY <1>4
<1>6. \A x \in Effects, i \in 1..n : G[<<x, i>>] = Affected(x, s[i])
  OBVIOUS
<1> HIDE DEF G
<1>7. PICK f \in [0..n -> Effects] : f[0] = u /\ \A i \in 1..n : f[i] = G[<<f[i - 1], i>>]
  <2>1. n \in Nat /\ u \in Effects /\ G \in [Effects \X (1..n) -> Effects]
    BY <1>1, <1>3, <1>5
  <2> HIDE DEF n
  <2>2. HasRecursion(Effects, n, u, G)
    BY <2>1, RecursionExists
  <2> QED BY <2>2 DEF HasRecursion, n
<1>8. \A i \in 1..n : i - 1 \in 0..n /\ f[i] = Affected(f[i - 1], s[i])
  <2> TAKE i \in 1..n
  <2>1. i - 1 \in 0..n
    BY <1>1
  <2>2. f[i - 1] \in Effects
    BY <2>1
  <2> QED BY <2>1, <2>2, <1>6, <1>7
<1>9. Def(f)
  <2>1. \A i \in 0..n : f[i] = IF i = 0 THEN u ELSE Affected(f[i - 1], s[i])
    <3> TAKE i \in 0..n
    <3>1. i = 0 \/ i \in 1..n
      BY <1>1
    <3> QED BY <3>1, <1>7, <1>8
  <2> QED BY <2>1
<1>10. Def(v)
  BY <1>9 DEF v
<1>11. v[0] = u /\ \A i \in 1..n : v[i] = Affected(v[i - 1], s[i])
  <2>1. \A i \in 0..n : v[i] = IF i = 0 THEN u ELSE Affected(v[i - 1], s[i])
    BY <1>10, Zenon
  <2> QED BY <2>1, <1>1
<1> DEFINE E == Elements(s)
           Good(i) == v[i] \in Effects /\ FallBack(c, v[i].computed, E)
           T == {i \in 0..n : ~Good(i)}
<1>12. T = {}
  <2> SUFFICES ASSUME T # {} PROVE FALSE
    OBVIOUS
  <2>1. PICK m \in T : \A k \in T : m <= k
    <3>1. T \in SUBSET Nat
      BY <1>1
    <3> HIDE DEF T
    <3> QED BY <3>1, LeastElement
  <2>2. m \in 0..n /\ ~Good(m)
    BY <2>1
  <2>3. m # 0
    <3>1. Good(0)
      BY <1>3, <1>11 DEF FallBack
    <3> QED BY <3>1, <2>2
  <2>4. m \in 1..n /\ m - 1 \in 0..n /\ m - 1 \notin T
    <3> HIDE DEF T
    <3> QED BY <2>1, <2>2, <2>3, <1>1
  <2>5. Good(m - 1)
    BY <2>4
  <2> DEFINE x == v[m - 1]
             r == s[m]
             y == v[m]
  <2>6. /\ x \in Effects /\ FallBack(c, x.computed, E) /\ y = Affected(x, r)
        /\ r \in Reqs /\ CanFallBack(r) /\ r \in E
    BY <2>4, <2>5, <1>1, <1>11 DEF Elements
  <2> HIDE DEF x, r, y, E
  <2>7. y \in Effects /\ FallBack(x.computed, y.computed, {r})
    BY <2>6, AffectedFacts
  <2>8. FallBack(c, y.computed, E)
    BY <2>6, <2>7 DEF FallBack
  <2>9. Good(m)
    BY <2>7, <2>8 DEF y
  <2> QED BY <2>2, <2>9
<1>13. Good(n)
  <2>1. n \in 0..n
    BY <1>1
  <2> HIDE DEF Good
  <2> QED BY <2>1, <1>12
<1> QED BY <1>2, <1>13

(* The arguments of allocate_slots for a running request.                  *)
LEMMA RunningArgsOK ==
    ASSUME KVInv(kv), Numbers, NEW r \in Reqs, NEW n \in Int
    PROVE  ArgsOK(kv, r, RunningArgs(r, n))
<1> DEFINE none == <<>>
<1>1. tokens[r] \in Seq(Nat) /\ num_computed_tokens[r] \in Int /\ none \in Seq(Blocks)
  BY DEF Numbers
<1> HIDE DEF none
<1>2. RunningArgs(r, n) = [tokens |-> tokens[r], computed |-> num_computed_tokens[r], new |-> n,
                           hit |-> none, external |-> 0, lookahead |-> 0, delay |-> FALSE]
  BY DEF RunningArgs, none
<1> DEFINE a == RunningArgs(r, n)
<1>3. /\ a.tokens = tokens[r] /\ a.computed = num_computed_tokens[r] /\ a.new = n /\ a.hit = none
      /\ a.external = 0 /\ a.lookahead = 0
  BY <1>2
<1> HIDE DEF a
<1>4. ArgsOK(kv, r, a)
  BY <1>1, <1>3 DEF ArgsOK, none
<1> QED BY <1>4 DEF a

\* What is true of the arguments a of allocate_slots for a waiting request r, for
\* which the connector offers o.
AsksWithin(r, o, a) ==
    /\ ArgsOK(kv, r, a)
    /\ TotalComputed(a) \in Int /\ TotalComputed(a) <= Len(tokens[r])
    /\ ~o.async => TotalComputed(a) < Len(tokens[r])
    /\ a.new \in Int /\ TotalComputed(a) + a.new <= Len(tokens[r])
    /\ ~o.async => a.new > 0 /\ a.new <= token_budget
    /\ LocalComputed(a) + a.external <= Len(tokens[r])
    /\ o.async => /\ num_computed_tokens[r] = 0 /\ a.computed \in Nat
                  /\ SlotsNeeded(a) <= Len(tokens[r])
                  /\ a.hit # <<>> \/ a.external > 0

(* The request at the head of the waiting queue.                           *)
LEMMA FirstWaits ==
    ASSUME QueueInv, waiting # <<>>
    PROVE  /\ waiting[1] \in Reqs /\ waiting[1] \in Elements(waiting)
           /\ status[waiting[1]] \in Pending
<1>1. Queue(waiting) /\ Elements(waiting) \subseteq {r \in Reqs : status[r] \in Pending}
  BY DEF QueueInv, Match
<1>2. waiting[1] \in Elements(waiting)
  BY <1>1, QueueTail
<1> QED BY <1>1, <1>2

\* The offer o for r, L tokens long, is not too much on top of a hit of h tokens.
OffersWithin(r, o, h, L) ==
    /\ o.external \in Nat /\ h + o.external <= L /\ o.async \in BOOLEAN
    /\ o.async => h + o.external = L \/ o.external > 0
    /\ ~o.async => h + o.external < L
    /\ o # NoOffer => Offers[r] # {}

(* What the connector may offer on top of a prefix hit.                    *)
LEMMA OfferFacts ==
    ASSUME NEW r, NEW n, NEW o \in Answers(r, n), NEW L \in Nat, L = Len(tokens[r]), L >= 1,
           NEW h \in Nat, h = n * BlockSize, h < L
    PROVE  OffersWithin(r, o, h, L)
<1> USE DEF OffersWithin
<1> DEFINE lacks == L - h
           whole == {e \in 1..(lacks - 1) : e % BlockSize = 0}
           S == IF "sync" \in Offers[r] THEN [external : whole, async : {FALSE}] ELSE {}
           A == IF "async" \in Offers[r] THEN [external : whole \cup {lacks}, async : {TRUE}] ELSE {}
<1>1. Answers(r, n) = {NoOffer} \cup S \cup A
  BY DEF Answers
<1>2. lacks \in Nat /\ \A e \in whole : e \in Nat /\ e > 0 /\ e < lacks
  OBVIOUS
<1> HIDE DEF whole
<1>3. CASE o = NoOffer
  BY <1>3 DEF NoOffer
<1>4. CASE o \in S
  <2>1. o.external \in whole /\ o.async = FALSE /\ Offers[r] # {}
    BY <1>4
  <2>2. o.external \in Nat /\ h + o.external <= L /\ h + o.external < L
    BY <2>1, <1>2
  <2>3. ~o.async /\ o.async \in BOOLEAN
    BY <2>1
  <2> QED BY <2>1, <2>2, <2>3, Zenon
<1>5. CASE o \in A
  <2>1. o.external \in whole \cup {lacks} /\ o.async = TRUE /\ Offers[r] # {}
    BY <1>5
  <2>2. o.external \in Nat /\ h + o.external <= L /\ (h + o.external = L \/ o.external > 0)
    BY <2>1, <1>2
  <2>3. o.async \in BOOLEAN
    BY <2>1
  <2> QED BY <2>1, <2>2, <2>3, Zenon
<1> QED BY <1>1, <1>3, <1>4, <1>5

(* At most n tokens, as far as the long prefill threshold allows.          *)
LEMMA CappedFacts ==
    ASSUME NEW n \in Int
    PROVE  Capped(n) \in Int /\ Capped(n) <= n /\ (n > 0 => Capped(n) > 0)
  BY SchedulerAssumption DEF Capped

(* The first waiting request asks for no more than its tokens.             *)
LEMMA WaitingArgsFacts ==
    ASSUME KVInv(kv), Numbers, QueueInv, Rightful, NEW o, Considers(o),
           NEW r, r = waiting[1], NEW a, a = WaitingArgs(r, o)
    PROVE  /\ r \in Reqs /\ status[r] \in Pending /\ ~IsLoading(r)
           /\ AsksWithin(r, o, a)
           /\ o.async => HasConnector
<1> DEFINE c == num_computed_tokens[r]
           L == Len(tokens[r])
           hit == IF c = 0 THEN get_computed_blocks(kv, tokens[r]) ELSE <<>>
           h == Len(hit) * BlockSize
           x == o.external
           base == c + h + x
           new == IF o.async THEN 0 ELSE MinOf(Capped(L - base), token_budget)
<1>1. r \in Reqs /\ status[r] \in Pending /\ ~IsLoading(r)
  BY FirstWaits DEF Considers, LooksAtWaiting
<1>2. /\ tokens[r] \in Seq(Nat) /\ L \in Nat /\ L >= 1 /\ c \in Int /\ token_budget \in Int
      /\ token_budget > 0 /\ BlockSize \in Nat /\ MaxModelLen \in Nat
  BY <1>1, KVCacheManagerAssumption DEF Numbers, Considers, LooksAtWaiting
<1>3. c < L
  BY <1>1 DEF Rightful, Bounded
<1>4. kv.req_to_blocks[r] = <<>> \/ kv.num_cached_block[r] # Untracked
  BY <1>1 DEF Rightful, MayHold, Pending, Finished
<1>5. a = [tokens |-> tokens[r], computed |-> c, new |-> new, hit |-> hit, external |-> x,
           lookahead |-> 0, delay |-> o.async]
  BY DEF WaitingArgs
<1>6. /\ hit \in Seq(Blocks) /\ Len(hit) \in Nat /\ h \in Nat /\ h < L
      /\ c # 0 => hit = <<>> /\ h = 0
      /\ c = 0 => Usable(hit, kv.pool)
  <2>1. CASE c = 0
    <3>1. hit = get_computed_blocks(kv, tokens[r])
      BY <2>1
    <3> HIDE DEF hit
    <3>2. /\ Usable(hit, kv.pool) /\ hit \in Seq(Blocks) /\ Len(hit) \in Nat /\ h < L
      BY <3>1, <1>2, HitLength
    <3>3. h \in Nat
      BY <3>2, <1>2
    <3> QED BY <2>1, <3>2, <3>3
  <2>2. CASE c # 0
    <3>1. hit = <<>>
      BY <2>2
    <3>2. hit \in Seq(Blocks) /\ Len(hit) = 0
      <4> HIDE DEF hit
      <4> QED BY <3>1
    <3>3. h = 0
      BY <3>2, <1>2
    <3> QED BY <2>2, <3>1, <3>2, <3>3, <1>2
  <2> QED BY <2>1, <2>2
<1>7. /\ a.tokens = tokens[r] /\ a.computed = c /\ a.new = new /\ a.hit = hit /\ a.external = x
      /\ a.lookahead = 0
  BY <1>5
<1>8. /\ x \in Nat /\ base <= L /\ o.async \in BOOLEAN
      /\ ~o.async => base < L
      /\ c # 0 => x = 0 /\ ~o.async
      /\ o.async => h + x = L \/ x > 0
      /\ o # NoOffer => Offers[r] # {}
  <2>1. o \in IF c = 0 THEN Answers(r, Len(a.hit)) ELSE {NoOffer}
    BY DEF Considers
  <2>2. CASE c = 0
    <3>1. o \in Answers(r, Len(hit))
      BY <2>1, <2>2, <1>7
    <3> HIDE DEF hit
    <3>2. /\ x \in Nat /\ h + x <= L /\ o.async \in BOOLEAN
          /\ ~o.async => h + x < L
          /\ o.async => h + x = L \/ x > 0
          /\ o # NoOffer => Offers[r] # {}
      <4> DEFINE n == Len(hit)
      <4>1. h = n * BlockSize /\ o \in Answers(r, n)
        BY <3>1
      <4>2. h \in Nat /\ h < L
        BY <1>6
      <4>3. L = Len(tokens[r]) /\ L \in Nat /\ L >= 1
        BY <1>2
      <4> HIDE DEF n, h, L
      <4>4. OffersWithin(r, o, h, L)
        BY <4>1, <4>2, <4>3, OfferFacts
      <4> QED BY <4>4 DEF OffersWithin
    <3> QED BY <3>2, <2>2, <1>2, <1>6
  <2>3. CASE c # 0
    <3>1. o = NoOffer
      BY <2>1, <2>3
    <3>2. x = 0 /\ o.async \in BOOLEAN /\ ~o.async
      BY <3>1 DEF NoOffer
    <3>3. base < L /\ base <= L /\ x \in Nat
      BY <3>2, <2>3, <1>2, <1>3, <1>6
    <3> HIDE DEF base, x
    <3> QED BY <3>1, <3>2, <3>3, <2>3, Zenon
  <2> QED BY <2>2, <2>3
<1> HIDE DEF hit, h, x, c
<1>9. /\ base \in Int /\ new \in Int /\ base + new <= L
      /\ ~o.async => new > 0 /\ new <= token_budget
  <2>1. base \in Int /\ L - base \in Int
    BY <1>2, <1>6, <1>8
  <2> HIDE DEF base
  <2>2. /\ Capped(L - base) \in Int /\ Capped(L - base) <= L - base
        /\ (L - base > 0 => Capped(L - base) > 0)
    BY <2>1, CappedFacts
  <2>3. /\ new \in Int /\ (o.async => new = 0) /\ (~o.async => new <= L - base)
        /\ ~o.async => new <= token_budget /\ (L - base > 0 => new > 0)
    BY <2>1, <2>2, <1>2, <1>8 DEF MinOf
  <2> HIDE DEF new, L
  <2> QED BY <2>1, <2>3, <1>2, <1>8
<1> HIDE DEF new
<1>10. LocalComputed(a) = c + h /\ TotalComputed(a) = MinOf(c + h + x, MaxModelLen)
  BY <1>7 DEF LocalComputed, TotalComputed, h
<1>11. TotalComputed(a) \in Int /\ TotalComputed(a) <= base
  BY <1>2, <1>6, <1>8, <1>10 DEF MinOf
<1>12. SlotsNeeded(a) = MinOf(TotalComputed(a) + new + 0, MaxModelLen)
  BY <1>7 DEF SlotsNeeded
<1> DEFINE t == TotalComputed(a)
<1>13. t <= L /\ (~o.async => t < L) /\ t + new <= L /\ SlotsNeeded(a) <= L
  <2>1. t \in Int /\ t <= base /\ SlotsNeeded(a) = MinOf(t + new + 0, MaxModelLen)
    BY <1>11, <1>12
  <2> HIDE DEF t, base, L
  <2> QED BY <2>1, <1>2, <1>8, <1>9 DEF MinOf
<1>14. ArgsOK(kv, r, a)
  <2>1. /\ a.tokens \in Seq(Nat) /\ a.hit \in Seq(Blocks)
        /\ a.computed \in Int /\ a.new \in Int /\ a.external \in Nat /\ a.lookahead \in Nat
    BY <1>2, <1>6, <1>7, <1>8, <1>9
  <2>2. c # 0 => a.hit = <<>> /\ a.external = 0
    BY <1>6, <1>7, <1>8
  <2>3. c = 0 => Usable(a.hit, kv.pool) /\ a.computed \in Nat
    BY <1>6, <1>7
  <2>4. kv.req_to_blocks[r] = <<>> => Len(kv.req_to_blocks[r]) = 0
    OBVIOUS
  <2> QED BY <2>1, <2>2, <2>3, <2>4, <1>4 DEF ArgsOK
<1>15. LocalComputed(a) + a.external <= L
  BY <1>7, <1>8, <1>10
<1>16. o.async => c = 0 /\ a.computed \in Nat /\ (a.hit # <<>> \/ a.external > 0)
  <2> SUFFICES ASSUME o.async PROVE c = 0 /\ a.computed \in Nat /\ (a.hit # <<>> \/ a.external > 0)
    OBVIOUS
  <2>1. c = 0 /\ a.computed = 0
    BY <1>7, <1>8
  <2>2. x > 0 \/ h # 0
    <3>1. h + x = L \/ x > 0
      BY <1>8
    <3>2. x \in Nat /\ h \in Nat /\ L \in Nat /\ L >= 1
      BY <1>2, <1>6, <1>8
    <3> HIDE DEF L
    <3> QED BY <3>1, <3>2
  <2>3. hit = <<>> => h = 0
    BY <1>2 DEF h
  <2> QED BY <2>1, <2>2, <2>3, <1>7
<1>17. AsksWithin(r, o, a)
  <2>1. /\ a.new \in Int /\ TotalComputed(a) + a.new <= L
        /\ ~o.async => a.new > 0 /\ a.new <= token_budget
    BY <1>7, <1>9, <1>13
  <2> QED BY <2>1, <1>11, <1>13, <1>14, <1>15, <1>16 DEF AsksWithin, c
<1>18. o.async => HasConnector
  <2> SUFFICES ASSUME o.async, ~HasConnector PROVE FALSE
    OBVIOUS
  <2>1. o # NoOffer
    BY DEF NoOffer
  <2> QED BY <2>1, <1>1, <1>8, SchedulerAssumption
<1> QED BY <1>1, <1>17, <1>18

-----------------------------------------------------------------------------
(* Batches. *)

(* What is in a sequence after Append.                                     *)
LEMMA AppendCases ==
    ASSUME NEW s, IsSeq(s), NEW x
    PROVE  /\ Len(s) \in Nat /\ Len(Append(s, x)) = Len(s) + 1
           /\ \A i \in 1..Len(Append(s, x)) :
                 (i \in 1..Len(s) /\ Append(s, x)[i] = s[i]) \/ Append(s, x)[i] = x
<1> DEFINE U == Elements(s) \cup {x}
<1>1. s \in Seq(U) /\ x \in U /\ Len(s) \in Nat
  BY DEF IsSeq
<1> HIDE DEF U
<1>2. /\ Len(Append(s, x)) = Len(s) + 1 /\ Append(s, x)[Len(s) + 1] = x
      /\ \A i \in 1..Len(s) : Append(s, x)[i] = s[i]
  BY <1>1, AppendElements
<1>3. \A i \in 1..(Len(s) + 1) : i \in 1..Len(s) \/ i = Len(s) + 1
  BY <1>1
<1> QED BY <1>1, <1>2, <1>3

(* How many tokens schedule() has picked for a request.                    *)
LEMMA ScheduledFacts ==
    ASSUME Picked, IsSeq(scheduled), NEW r \in Reqs, Numbers
    PROVE  /\ ScheduledTokens(r) \in Int
           /\ status[r] # "RUNNING" => ScheduledTokens(r) = 0
           /\ \/ ScheduledTokens(r) = 0
              \/ num_computed_tokens[r] + ScheduledTokens(r)
                     <= Len(tokens[r]) + num_output_placeholders[r]
<1>1. DOMAIN scheduled = 1..Len(scheduled)
  BY DEF IsSeq
<1>2. CASE ~IsScheduled(r)
  BY <1>2 DEF ScheduledTokens
<1>3. CASE IsScheduled(r)
  <2> DEFINE i == CHOOSE j \in DOMAIN scheduled : scheduled[j].req = r
  <2>1. i \in 1..Len(scheduled) /\ scheduled[i].req = r
    BY <1>1, <1>3 DEF IsScheduled
  <2>2. ScheduledTokens(r) = scheduled[i].n
    BY <1>3 DEF ScheduledTokens
  <2> HIDE DEF i
  <2>3. Fits(scheduled[i])
    BY <2>1 DEF Picked
  <2>4. /\ scheduled[i].n \in Int /\ status[r] = "RUNNING"
        /\ num_computed_tokens[r] + scheduled[i].n <= Len(tokens[r]) + num_output_placeholders[r]
    BY <2>1, <2>3 DEF Fits
  <2> QED BY <2>2, <2>4
<1> QED BY <1>2, <1>3

(* What a batch brings.                                                    *)
LEMMA BatchEntries ==
    ASSUME Picked, IsSeq(scheduled), Numbers, NEW m
    PROVE  BringsTokens(Batch(m)) /\ \A r : About(Batch(m), r) => status[r] = "RUNNING"
<1> DEFINE b == Batch(m)
           n == Len(scheduled)
<1>1. n \in Nat /\ DOMAIN scheduled = 1..n
  BY DEF IsSeq
<1>2. b = [i \in 1..n |-> [req |-> scheduled[i].req, token |-> Sampled(m, scheduled[i].req)]]
  BY <1>1 DEF Batch
<1>3. \A i \in 1..n : b[i].req = scheduled[i].req /\ b[i].token = Sampled(m, scheduled[i].req)
  BY <1>2
<1>4. Len(b) = n
  <2>1. b = [i \in 1..n |-> b[i]]
    BY <1>2
  <2> DEFINE U == {b[i] : i \in 1..n}
  <2>2. \A i \in 1..n : b[i] \in U
    OBVIOUS
  <2> HIDE DEF b, n, U
  <2> QED BY <2>1, <2>2, <1>1, FunctionIsSeq
<1> HIDE DEF b
<1>5. \A i \in 1..n : Fits(scheduled[i])
  BY DEF Picked
<1> HIDE DEF n
<1>6. \A r : About(b, r) => status[r] = "RUNNING"
  <2> SUFFICES ASSUME NEW i \in 1..n PROVE status[b[i].req] = "RUNNING"
    BY <1>4 DEF About
  <2>1. status[scheduled[i].req] = "RUNNING"
    BY <1>5 DEF Fits
  <2> QED BY <2>1, <1>3
<1>7. ASSUME NEW r \in Reqs PROVE Sampled(m, r) \in Nat
  <2> DEFINE k == num_computed_tokens[r] + ScheduledTokens(r)
             w == WorkerText(r)
             extra == [i \in 1..num_output_placeholders[r] |-> Out(Len(tokens[r]) + i)]
  <2>1. num_computed_tokens[r] \in Int /\ tokens[r] \in Seq(Nat) /\ num_output_placeholders[r] \in Nat
    BY DEF Numbers
  <2>2. k \in Int
    BY <2>1, ScheduledFacts
  <2>3. Len(w) \in Nat
    <3>1. Len(tokens[r]) \in Nat
      BY <2>1
    <3>2. extra \in Seq(Nat)
      <4>1. \A i \in 1..num_output_placeholders[r] : Out(Len(tokens[r]) + i) \in Nat
        BY <2>1, <3>1 DEF Out
      <4> QED BY <4>1, <2>1
    <3>3. w = tokens[r] \o extra
      BY DEF WorkerText
    <3> HIDE DEF w, extra
    <3>4. w \in Seq(Nat)
      BY <3>2, <3>3, <2>1
    <3> QED BY <3>4
  <2>4. Sampled(m, r) = IF k < Len(w) THEN NoToken
                        ELSE IF TextIsWritten(m, kv, r, w, k) THEN Out(k + 1) ELSE BadToken
    BY DEF Sampled
  <2> HIDE DEF k, w
  <2> QED BY <2>2, <2>3, <2>4 DEF NoToken, Out, BadToken
<1>8. BringsTokens(b)
  <2> SUFFICES ASSUME NEW i \in 1..n PROVE b[i].token \in Nat
    BY <1>4 DEF BringsTokens
  <2>1. scheduled[i].req \in Reqs
    BY <1>5 DEF Fits
  <2> QED BY <2>1, <1>3, <1>7
<1> QED BY <1>6, <1>8 DEF b

(* Every step keeps the tokens of the batches in flight.                   *)
LEMMA NextTokens == BlockInv /\ [Next]_vars => TokenInv'
<1> SUFFICES ASSUME BlockInv, [Next]_vars PROVE TokenInv'
  OBVIOUS
<1>0. /\ BringsTokens(output) /\ \A k \in 1..Len(inflight) : BringsTokens(inflight[k])
      /\ IsSeq(inflight) /\ IsSeq(output) /\ IsSeq(scheduled) /\ Picked /\ Numbers
      /\ pc = "await" => inflight # <<>>
      /\ pc = "output" => output # <<>>
  BY DEF BlockInv, TokenInv, BatchInv, Named
<1>1. TokenInv' <=> /\ BringsTokens(output')
                    /\ \A k \in 1..Len(inflight') : BringsTokens(inflight'[k])
  BY DEF TokenInv, BringsTokens
<1>2. CASE UNCHANGED <<output, inflight>>
  BY <1>0, <1>1, <1>2
<1>3. ASSUME NEW bad, FinishSchedule(bad) PROVE TokenInv'
  <2> DEFINE b == Batch(mem')
  <2>1. inflight' = Append(inflight, b) /\ UNCHANGED output
    BY <1>3 DEF FinishSchedule
  <2>2. BringsTokens(b)
    BY <1>0, BatchEntries
  <2> HIDE DEF b
  <2>3. \A k \in 1..Len(inflight') : (k \in 1..Len(inflight) /\ inflight'[k] = inflight[k]) \/ inflight'[k] = b
    BY <2>1, <1>0, AppendCases
  <2> QED BY <2>1, <2>2, <2>3, <1>0, <1>1
<1>4. CASE BeginUpdate
  <2>1. inflight' = Tail(inflight) /\ output' = Head(inflight) /\ pc = "await"
    BY <1>4 DEF BeginUpdate
  <2>2. /\ Len(inflight) \in Nat /\ Len(inflight) >= 1
        /\ \A i \in 1..Len(Tail(inflight)) : Tail(inflight)[i] = inflight[i + 1] /\ i + 1 \in 1..Len(inflight)
    BY <1>0, <2>1, TailIsSeq
  <2>3. 1 \in 1..Len(inflight) /\ output' = inflight[1]
    BY <2>1, <2>2
  <2> QED BY <2>1, <2>2, <2>3, <1>0, <1>1
<1>5. ASSUME pc = "output", NextOutput, UNCHANGED inflight PROVE TokenInv'
  <2>1. output' = Tail(output)
    BY <1>5 DEF NextOutput
  <2>2. \A i \in 1..Len(Tail(output)) : Tail(output)[i] = output[i + 1] /\ i + 1 \in 1..Len(output)
    BY <1>0, <1>5, TailIsSeq
  <2>3. BringsTokens(output')
    BY <2>1, <2>2, <1>0 DEF BringsTokens
  <2> QED BY <2>3, <1>0, <1>1, <1>5
<1>6. CASE SkipOutput \/ DiscardOutput \/ \E eos \in BOOLEAN : AcceptOutput(eos)
  BY <1>5, <1>6 DEF SkipOutput, DiscardOutput, AcceptOutput
<1>7. CASE Client \/ Connector \/ UNCHANGED vars
  BY <1>2, <1>7 DEF Client, AddRequest, AbortRequest, ResetPrefixCache, Connector, LookupDone,
                    LoadFails, LoadDone, SendDone, vars
<1>8. CASE BeginSchedule \/ SkipRunning \/ PickRunning \/ ScheduleRunning \/ Preempt \/ EndRunning
  BY <1>2, <1>8 DEF BeginSchedule, SkipRunning, PickRunning, ScheduleRunning, Preempt, EndRunning
<1>9. ASSUME NEW o, SkipWaiting \/ _update_waiting_for_remote_kv \/ ScheduleWaiting(o) \/ LoadWaiting(o)
                    \/ EndWaiting(o)
      PROVE  TokenInv'
  BY <1>2, <1>9 DEF SkipWaiting, _update_waiting_for_remote_kv, ScheduleWaiting, LoadWaiting, EndWaiting
<1>10. ASSUME NEW r, AwaitLast \/ FailRequest(r) \/ FreeSent(r) \/ EndUpdate PROVE TokenInv'
  BY <1>2, <1>10 DEF AwaitLast, FailRequest, FreeSent, EndUpdate
<1> QED BY <1>3, <1>4, <1>6, <1>7, <1>8, <1>9, <1>10 DEF Next, Engine

(* A step that adds nothing keeps what is known of the loads.              *)
LEMMA ToldKept ==
    ASSUME NEW r \in Reqs, Told(r),
           \A t \in Int : (Notice(r, t)' => Notice(r, t)) /\ (InFlight(r, t)' => InFlight(r, t)),
           IsBeingLoaded(r)' => IsBeingLoaded(r),
           IsLoading(r)' => IsLoading(r),
           IsLoading(r) \/ status[r] \in Finished => IsLoading(r)' \/ status'[r] \in Finished
    PROVE  Told(r)'
<1>1. /\ \A t, u \in Int : Notice(r, t) /\ Notice(r, u) => t = u
      /\ IsBeingLoaded(r) => \A t \in Int : ~Notice(r, t)
      /\ IsBeingLoaded(r) \/ (\E t \in Int : Notice(r, t)) => IsLoading(r) \/ status[r] \in Finished
      /\ IsLoading(r) => \A t, u \in Int : Notice(r, t) /\ InFlight(r, u) => u <= t
  BY DEF Told
<1>2. /\ \A t, u \in Int : Notice(r, t)' /\ Notice(r, u)' => t = u
      /\ IsBeingLoaded(r)' => \A t \in Int : ~Notice(r, t)'
      /\ IsBeingLoaded(r)' \/ (\E t \in Int : Notice(r, t)') => IsLoading(r)' \/ status'[r] \in Finished
      /\ IsLoading(r)' => \A t, u \in Int : Notice(r, t)' /\ InFlight(r, u)' => u <= t
  BY <1>1
<1> QED BY <1>2 DEF Told

\* Nothing of the batches and the loads changes.
SameLoads == UNCHANGED <<inflight, output, reports, report, finished_recving, loads>>

\* Nobody who loads or is finished stops to, and nobody starts to load.
Settles == \A r \in Reqs :
    /\ IsLoading(r)' => IsLoading(r)
    /\ IsLoading(r) \/ status[r] \in Finished => IsLoading(r)' \/ status'[r] \in Finished

(* A request that finishes, or starts to run or to wait when it does not   *)
(* load.                                                                   *)
LEMMA SettlesWhen ==
    ASSUME status \in [Reqs -> Statuses], NEW q, NEW new, status' = [status EXCEPT ![q] = new],
           \/ new \in Finished
           \/ new \in {"WAITING", "PREEMPTED", "RUNNING"} /\ status[q] \in {"NEW", "WAITING", "PREEMPTED", "RUNNING"}
    PROVE  Settles
<1> SUFFICES ASSUME NEW r \in Reqs
             PROVE  /\ IsLoading(r)' => IsLoading(r)
                    /\ IsLoading(r) \/ status[r] \in Finished => IsLoading(r)' \/ status'[r] \in Finished
  BY DEF Settles
<1>1. CASE r # q
  BY <1>1 DEF IsLoading
<1>2. CASE r = q
  BY <1>2 DEF IsLoading, Finished
<1> QED BY <1>1, <1>2

(* The loads in steps that have nothing to do with them.                   *)
LEMMA LoadsRest ==
    ASSUME LoadInv, SameLoads, Settles, pc' = "output" \/ pc # "output" \/ output = <<>>
    PROVE  LoadInv'
<1>1. Paired /\ \A r \in Reqs : Told(r)
  BY DEF LoadInv
<1>2. Paired'
  BY <1>1 DEF Paired, SameLoads
<1>3. ASSUME NEW r \in Reqs PROVE Told(r)'
  <2>1. /\ \A t \in Int : (Notice(r, t)' => Notice(r, t)) /\ (InFlight(r, t)' => InFlight(r, t))
        /\ IsBeingLoaded(r)' => IsBeingLoaded(r)
    BY DEF SameLoads, Notice, InFlight, IsBeingLoaded, About
  <2> QED BY <2>1, <1>1, ToldKept DEF Settles
<1> QED BY <1>2, <1>3 DEF LoadInv

(* An output is taken.                                                     *)
LEMMA LoadsNextOutput ==
    ASSUME BlockInv, pc = "output", NextOutput, Settles,
           UNCHANGED <<inflight, reports, report, finished_recving, loads>>
    PROVE  LoadInv'
<1>1. Paired /\ (\A r \in Reqs : Told(r)) /\ IsSeq(output) /\ output # <<>>
  BY DEF BlockInv, LoadInv, BatchInv, Named
<1>2. output' = Tail(output) /\ pc' = IF Len(output) > 1 THEN "output" ELSE IF HasConnector THEN "transfer" ELSE "idle"
  BY DEF NextOutput
<1>3. /\ IsSeq(Tail(output)) /\ Len(output) \in Nat /\ Len(output) >= 1 /\ Len(Tail(output)) = Len(output) - 1
      /\ \A i \in 1..Len(Tail(output)) : Tail(output)[i] = output[i + 1] /\ i + 1 \in 1..Len(output)
  BY <1>1, TailIsSeq
<1>4. pc' # "output" => output' = <<>>
  <2> SUFFICES ASSUME pc' # "output" PROVE Tail(output) = <<>>
    BY <1>2
  <2>1. ~(Len(output) > 1)
    BY <1>2
  <2>2. Len(Tail(output)) = 0
    <3> DEFINE m == Len(output)
               k == Len(Tail(output))
    <3>1. m \in Nat /\ m >= 1 /\ k = m - 1 /\ ~(m > 1)
      BY <2>1, <1>3
    <3> HIDE DEF m, k
    <3>2. k = 0
      BY <3>1
    <3> QED BY <3>2 DEF k
  <2> QED BY <2>2, <1>3, EmptySeq DEF IsSeq
<1>5. Paired'
  BY <1>1, <1>4 DEF Paired
<1>6. ASSUME NEW r \in Reqs PROVE Told(r)'
  <2>1. About(output', r) => About(output, r)
    BY <1>2, <1>3 DEF About
  <2>2. /\ \A t \in Int : (Notice(r, t)' => Notice(r, t)) /\ (InFlight(r, t)' => InFlight(r, t))
        /\ IsBeingLoaded(r)' => IsBeingLoaded(r)
    BY <2>1 DEF Notice, InFlight, IsBeingLoaded, About
  <2> QED BY <2>2, <1>1, ToldKept DEF Settles
<1> QED BY <1>5, <1>6 DEF LoadInv

(* A load starts: the request neither loads nor was loaded before.         *)
LEMMA LoadsStart ==
    ASSUME BlockInv, NEW o, LoadWaiting(o)
    PROVE  LoadInv'
<1>0. PICK r, x : /\ r = waiting[1]
                  /\ x = [req |-> r, blocks |-> kv'.req_to_blocks[r], bad |-> {},
                          from |-> LocalComputed(WaitingArgs(r, o)), to |-> TotalComputed(WaitingArgs(r, o))]
  OBVIOUS
<1>1. Paired /\ (\A q \in Reqs : Told(q)) /\ QueueInv /\ status \in [Reqs -> Statuses]
  BY DEF BlockInv, LoadInv, QueueInv, Match
<1>2. /\ loads' = loads \cup {x} /\ waiting # <<>> /\ ~IsLoading(r)
      /\ status' = [status EXCEPT ![r] = "WAITING_FOR_REMOTE_KVS"] /\ pc = "waiting" /\ pc' = pc
      /\ UNCHANGED <<inflight, output, reports, report, finished_recving>>
  BY <1>0 DEF LoadWaiting, CanAdmit, AsksForSlots, Considers, LooksAtWaiting
<1>3. r \in Reqs /\ status[r] \in Pending
  BY <1>0, <1>1, <1>2, FirstWaits
<1>4. ~IsBeingLoaded(r) /\ \A t \in Int : ~Notice(r, t)
  BY <1>1, <1>2, <1>3 DEF Told, Pending, Finished
<1>5. x.req = r /\ x = [req |-> x.req, blocks |-> x.blocks, bad |-> x.bad, from |-> x.from, to |-> x.to]
  BY <1>0
<1>6. Paired'
  <2>1. \A l \in loads : l.req # r
    BY <1>4 DEF IsBeingLoaded
  <2> QED BY <2>1, <1>1, <1>2, <1>5 DEF Paired
<1>7. \A q, t : (Notice(q, t)' <=> Notice(q, t)) /\ (InFlight(q, t)' <=> InFlight(q, t))
  BY <1>2 DEF Notice, InFlight, About
<1>8. ASSUME NEW q \in Reqs PROVE Told(q)'
  <2>1. CASE q = r
    <3>1. IsLoading(r)'
      BY <1>1, <1>2, <1>3 DEF IsLoading
    <3>2. \A t \in Int : ~Notice(r, t)'
      BY <1>4, <1>7
    <3> QED BY <2>1, <3>1, <3>2 DEF Told
  <2>2. CASE q # r
    <3>1. status'[q] = status[q] /\ (IsLoading(q)' <=> IsLoading(q))
      BY <2>2, <1>2 DEF IsLoading
    <3>2. IsBeingLoaded(q)' => IsBeingLoaded(q)
      BY <2>2, <1>2, <1>5 DEF IsBeingLoaded
    <3> QED BY <3>1, <3>2, <1>1, <1>7, ToldKept
  <2> QED BY <2>1, <2>2
<1> QED BY <1>6, <1>8 DEF LoadInv

(* A request learns that it is loaded.                                     *)
LEMMA LoadsKnown ==
    ASSUME BlockInv, _update_waiting_for_remote_kv
    PROVE  LoadInv'
<1>0. PICK r : r = waiting[1]
  OBVIOUS
<1>1. Paired /\ (\A q \in Reqs : Told(q)) /\ QueueInv /\ status \in [Reqs -> Statuses]
  BY DEF BlockInv, LoadInv, QueueInv, Match
<1>2. /\ waiting # <<>> /\ IsLoading(r) /\ r \in finished_recving /\ pc' = pc
      /\ status' = [status EXCEPT ![r] = IF num_preemptions[r] > 0 THEN "PREEMPTED" ELSE "WAITING"]
      /\ finished_recving' = finished_recving \ {r}
      /\ UNCHANGED <<inflight, output, reports, report, loads>>
  BY <1>0 DEF _update_waiting_for_remote_kv, LooksAtWaiting, Skips
<1>3. r \in Reqs
  BY <1>0, <1>1, <1>2, FirstWaits
<1>4. Paired'
  BY <1>1, <1>2 DEF Paired
<1>5. /\ \A q, t : InFlight(q, t)' <=> InFlight(q, t)
      /\ \A q : IsBeingLoaded(q)' <=> IsBeingLoaded(q)
      /\ \A q, t : Notice(q, t)' <=> Notice(q, t) /\ ~(q = r /\ t = -1)
  BY <1>2 DEF Notice, InFlight, About, IsBeingLoaded
<1>6. ASSUME NEW q \in Reqs PROVE Told(q)'
  <2>1. CASE q = r
    <3>1. Notice(r, -1) /\ Told(r)
      BY <1>1, <1>2, <1>3 DEF Notice
    <3>2. ~IsBeingLoaded(r) /\ \A t \in Int : Notice(r, t) => t = -1
      BY <3>1 DEF Told
    <3>3. ~IsBeingLoaded(r)' /\ \A t \in Int : ~Notice(r, t)'
      BY <3>2, <1>5
    <3> QED BY <2>1, <3>3 DEF Told
  <2>2. CASE q # r
    <3>1. status'[q] = status[q] /\ (IsLoading(q)' <=> IsLoading(q))
      BY <2>2, <1>2 DEF IsLoading
    <3> QED BY <3>1, <1>1, <1>5, ToldKept
  <2> QED BY <2>1, <2>2
<1> QED BY <1>4, <1>6 DEF LoadInv

(* A batch is formed: it is about requests that run, and reports no load.  *)
LEMMA LoadsFinishSchedule ==
    ASSUME BlockInv, NEW bad \in SUBSET Blocks, FinishSchedule(bad)
    PROVE  LoadInv'
<1> DEFINE b == Batch(mem')
           x == [Nothing EXCEPT !.invalid = bad]
<1>1. /\ Paired /\ (\A r \in Reqs : Told(r)) /\ IsSeq(inflight) /\ IsSeq(scheduled) /\ Picked /\ Numbers
  BY DEF BlockInv, LoadInv, BatchInv, Named
<1>2. /\ inflight' = Append(inflight, b) /\ reports' = Append(reports, x)
      /\ pc = "finish" /\ pc' \in {"await", "idle"}
      /\ UNCHANGED <<status, output, report, finished_recving, loads>>
  BY DEF FinishSchedule
<1>3. \A r : About(b, r) => status[r] = "RUNNING"
  BY <1>1, BatchEntries
<1>4. x \in Report /\ x.recved = {}
  BY DEF Report, Nothing
<1> HIDE DEF b, x
<1> DEFINE n == Len(inflight)
<1>5. /\ n \in Nat /\ Len(inflight') = n + 1
      /\ \A i \in 1..(n + 1) : (i \in 1..n /\ inflight'[i] = inflight[i]) \/ inflight'[i] = b
  BY <1>1, <1>2, AppendCases
<1>6. /\ reports \in Seq(Report) /\ Len(reports) = n
      /\ reports' \in Seq(Report) /\ Len(reports') = n + 1
      /\ \A i \in 1..n : reports'[i] = reports[i]
      /\ reports'[n + 1] = x
  BY <1>1, <1>2, <1>4 DEF Paired
<1>7. Paired'
  BY <1>1, <1>2, <1>5, <1>6 DEF Paired
<1>8. ASSUME NEW r \in Reqs PROVE Told(r)'
  <2>1. \A t \in Int : Notice(r, t)' => Notice(r, t)
    <3> SUFFICES ASSUME NEW t \in Int, Notice(r, t)' PROVE Notice(r, t)
      OBVIOUS
    <3>1. CASE t \in 1..Len(reports') /\ r \in reports'[t].recved
      <4>1. t # n + 1
        BY <3>1, <1>6, <1>4
      <4>2. t \in 1..n /\ reports'[t] = reports[t]
        BY <3>1, <4>1, <1>5, <1>6
      <4> QED BY <3>1, <4>2, <1>6 DEF Notice
    <3> QED BY <3>1, <1>2 DEF Notice
  <2>2. IsBeingLoaded(r)' => IsBeingLoaded(r)
    BY <1>2 DEF IsBeingLoaded
  <2>3. IsLoading(r)' <=> IsLoading(r)
    BY <1>2 DEF IsLoading
  <2>4. status[r] # "RUNNING" => \A t \in Int : InFlight(r, t)' => InFlight(r, t)
    <3> SUFFICES ASSUME status[r] # "RUNNING", NEW t \in Int, InFlight(r, t)' PROVE InFlight(r, t)
      OBVIOUS
    <3>1. CASE t \in 1..Len(inflight') /\ About(inflight'[t], r)
      <4>1. inflight'[t] # b
        BY <3>1, <1>3
      <4>2. t \in 1..n /\ inflight'[t] = inflight[t]
        BY <3>1, <4>1, <1>5
      <4> QED BY <3>1, <4>2 DEF InFlight
    <3> QED BY <3>1, <1>2 DEF InFlight, About
  <2>5. CASE status[r] # "RUNNING"
    BY <2>1, <2>2, <2>3, <2>4, <2>5, <1>1, <1>2, ToldKept
  <2>6. CASE status[r] = "RUNNING"
    <3>1. ~IsBeingLoaded(r) /\ \A t \in Int : ~Notice(r, t)
      BY <2>6, <1>1 DEF Told, IsLoading, Finished
    <3>2. ~IsBeingLoaded(r)' /\ \A t \in Int : ~Notice(r, t)'
      BY <3>1, <2>1, <2>2
    <3> QED BY <3>2 DEF Told
  <2> QED BY <2>5, <2>6
<1> QED BY <1>7, <1>8 DEF LoadInv

(* The oldest batch is done: its report is the one that is looked at.      *)
LEMMA LoadsBeginUpdate ==
    ASSUME BlockInv, BeginUpdate
    PROVE  LoadInv'
<1>1. /\ Paired /\ (\A r \in Reqs : Told(r)) /\ IsSeq(inflight)
      /\ (pc = "await" => inflight # <<>>)
  BY DEF BlockInv, LoadInv, BatchInv
<1>2. /\ inflight' = Tail(inflight) /\ output' = Head(inflight) /\ reports' = Tail(reports)
      /\ report' = [Head(reports) EXCEPT !.invalid = {}] /\ pc = "await"
      /\ pc' = (IF Head(inflight) # <<>> THEN "output" ELSE IF HasConnector THEN "transfer" ELSE "idle")
      /\ UNCHANGED <<status, finished_recving, loads>>
  BY DEF BeginUpdate
<1> DEFINE n == Len(inflight)
<1>3. /\ n \in Nat /\ n >= 1 /\ Len(inflight') = n - 1 /\ output' = inflight[1]
      /\ \A i \in 1..Len(inflight') : inflight'[i] = inflight[i + 1]
  BY <1>1, <1>2, TailIsSeq
<1> HIDE DEF n
<1>4. /\ reports \in Seq(Report) /\ Len(reports) = n
  BY <1>1 DEF Paired, n
<1>5. /\ reports' \in Seq(Report) /\ Len(reports') = n - 1 /\ Head(reports) = reports[1]
      /\ reports[1] \in Report
      /\ \A i \in 1..(n - 1) : reports'[i] = reports[i + 1]
  BY <1>2, <1>3, <1>4
<1>6. report' \in Report /\ report'.recved = reports[1].recved
  BY <1>2, <1>5 DEF Report
<1>7. Paired'
  <2>1. pc' # "output" => output' = <<>>
    BY <1>2
  <2> QED BY <2>1, <1>1, <1>2, <1>3, <1>5, <1>6 DEF Paired
<1>8. ASSUME NEW r \in Reqs PROVE Told(r)'
  <2>1. ASSUME NEW t \in Int, Notice(r, t)'
        PROVE  IF t = -1 THEN Notice(r, -1) ELSE t >= 0 /\ t + 1 \in Int /\ Notice(r, t + 1)
    <3>1. CASE t = -1
      BY <3>1, <2>1, <1>2 DEF Notice
    <3>2. CASE t = 0
      BY <3>2, <2>1, <1>3, <1>4, <1>6 DEF Notice
    <3>3. CASE t \in 1..(n - 1)
      BY <3>3, <2>1, <1>3, <1>4, <1>5 DEF Notice
    <3> QED BY <3>1, <3>2, <3>3, <2>1, <1>5 DEF Notice
  <2>2. ASSUME NEW t \in Int, InFlight(r, t)'
        PROVE  t >= 0 /\ t + 1 \in Int /\ InFlight(r, t + 1)
    <3>1. CASE t = 0
      BY <3>1, <2>2, <1>3 DEF InFlight, About, n
    <3>2. CASE t \in 1..(n - 1)
      BY <3>2, <2>2, <1>3 DEF InFlight, About, n
    <3> QED BY <3>1, <3>2, <2>2, <1>3 DEF InFlight
  <2>3. (IsBeingLoaded(r)' <=> IsBeingLoaded(r)) /\ (IsLoading(r)' <=> IsLoading(r)) /\ status'[r] = status[r]
    BY <1>2 DEF IsBeingLoaded, IsLoading
  <2>4. /\ \A t, u \in Int : Notice(r, t) /\ Notice(r, u) => t = u
        /\ IsBeingLoaded(r) => \A t \in Int : ~Notice(r, t)
        /\ IsBeingLoaded(r) \/ (\E t \in Int : Notice(r, t)) => IsLoading(r) \/ status[r] \in Finished
        /\ IsLoading(r) => \A t, u \in Int : Notice(r, t) /\ InFlight(r, u) => u <= t
    BY <1>1 DEF Told
  <2>5. ASSUME NEW t \in Int, NEW u \in Int, Notice(r, t)', Notice(r, u)' PROVE t = u
    BY <2>1, <2>4, <2>5
  <2>6. ASSUME NEW t \in Int, Notice(r, t)' PROVE \E u \in Int : Notice(r, u)
    BY <2>1, <2>6
  <2>7. ASSUME IsLoading(r)', NEW t \in Int, NEW u \in Int, Notice(r, t)', InFlight(r, u)' PROVE u <= t
    <3>1. InFlight(r, u + 1) /\ u >= 0 /\ u + 1 \in Int
      BY <2>2, <2>7
    <3>2. CASE t = -1
      <4>1. u + 1 <= -1
        BY <3>1, <3>2, <2>1, <2>3, <2>4, <2>7
      <4> QED BY <4>1, <3>1
    <3>3. CASE t # -1
      <4>1. u + 1 <= t + 1
        BY <3>1, <3>3, <2>1, <2>3, <2>4, <2>7
      <4> QED BY <4>1, <3>1
    <3> QED BY <3>2, <3>3
  <2> QED BY <2>3, <2>4, <2>5, <2>6, <2>7 DEF Told
<1> QED BY <1>7, <1>8 DEF LoadInv

(* The scheduler learns what was loaded, when the output is processed.     *)
LEMMA LoadsEndUpdate ==
    ASSUME BlockInv, EndUpdate
    PROVE  LoadInv'
<1>1. Paired /\ (\A r \in Reqs : Told(r))
  BY DEF BlockInv, LoadInv
<1>2. /\ finished_recving' = finished_recving \cup report.recved
      /\ report' = [report EXCEPT !.recved = {}] /\ pc = "transfer"
      /\ UNCHANGED <<status, inflight, output, reports, loads>>
  BY DEF EndUpdate, requests
<1>3. report' \in Report /\ report'.recved = {} /\ output = <<>>
  BY <1>1, <1>2 DEF Paired, Report
<1>4. Paired'
  BY <1>1, <1>2, <1>3 DEF Paired
<1>5. ASSUME NEW r \in Reqs PROVE Told(r)'
  <2>1. ASSUME NEW t \in Int, Notice(r, t)'
        PROVE  IF t = -1 THEN Notice(r, -1) \/ Notice(r, 0) ELSE t # 0 /\ Notice(r, t)
    BY <2>1, <1>2, <1>3 DEF Notice
  <2>2. ASSUME NEW t \in Int, InFlight(r, t)' PROVE InFlight(r, t) /\ t > 0
    BY <2>2, <1>2, <1>3 DEF InFlight, About
  <2>3. (IsBeingLoaded(r)' <=> IsBeingLoaded(r)) /\ (IsLoading(r)' <=> IsLoading(r)) /\ status'[r] = status[r]
    BY <1>2 DEF IsBeingLoaded, IsLoading
  <2>4. /\ \A t, u \in Int : Notice(r, t) /\ Notice(r, u) => t = u
        /\ IsBeingLoaded(r) => \A t \in Int : ~Notice(r, t)
        /\ IsBeingLoaded(r) \/ (\E t \in Int : Notice(r, t)) => IsLoading(r) \/ status[r] \in Finished
        /\ IsLoading(r) => \A t, u \in Int : Notice(r, t) /\ InFlight(r, u) => u <= t
    BY <1>1 DEF Told
  <2>5. ASSUME NEW t \in Int, NEW u \in Int, Notice(r, t)', Notice(r, u)' PROVE t = u
    BY <2>1, <2>4, <2>5
  <2>6. ASSUME NEW t \in Int, Notice(r, t)' PROVE \E u \in Int : Notice(r, u)
    BY <2>1, <2>6
  <2>7. ASSUME IsLoading(r)', NEW t \in Int, NEW u \in Int, Notice(r, t)', InFlight(r, u)' PROVE u <= t
    BY <2>1, <2>2, <2>3, <2>4, <2>7
  <2> QED BY <2>3, <2>4, <2>5, <2>6, <2>7 DEF Told
<1> QED BY <1>4, <1>5 DEF LoadInv

(* What the workers notice goes to the youngest report.                    *)
LEMMA YoungestReport ==
    ASSUME Paired, Executing, IsSeq(inflight), NEW f \in {"recved", "sent", "invalid"}, NEW x,
           f = "invalid" => x \in Blocks, f # "invalid" => x \in Reqs,
           reports' = WithYoungest(f, x)
    PROVE  /\ reports' \in Seq(Report) /\ Len(reports') = Len(reports) /\ Len(reports) \in 1..Len(inflight)
           /\ \A i \in 1..Len(reports) : i # Len(reports) => reports'[i] = reports[i]
           /\ reports'[Len(reports)].recved = 
                 reports[Len(reports)].recved \cup (IF f = "recved" THEN {x} ELSE {})
<1> DEFINE n == Len(reports)
           y == [reports[n] EXCEPT ![f] = @ \cup {x}]
<1>1. reports \in Seq(Report) /\ n = Len(inflight) /\ n \in Nat
  BY DEF Paired
<1>2. n >= 1
  <2>1. inflight # <<>>
    BY DEF Executing
  <2>2. Len(inflight) # 0
    BY <2>1, EmptySeq DEF IsSeq
  <2> QED BY <2>2, <1>1
<1>3. reports[n] \in Report
  BY <1>1, <1>2
<1>4. y \in Report /\ y.recved = reports[n].recved \cup (IF f = "recved" THEN {x} ELSE {})
  BY <1>3 DEF Report
<1>5. reports' = [reports EXCEPT ![n] = y]
  BY DEF WithYoungest
<1> HIDE DEF y, n
<1>6. reports' \in Seq(Report) /\ Len(reports') = n /\ reports'[n] = y
      /\ \A i \in 1..n : i # n => reports'[i] = reports[i]
  BY <1>1, <1>2, <1>4, <1>5 DEF n
<1> QED BY <1>1, <1>2, <1>4, <1>6 DEF n

(* A load ends.                                                            *)
LEMMA LoadsDone ==
    ASSUME BlockInv, NEW r \in Reqs, LoadDone(r)
    PROVE  LoadInv'
<1>1. Paired /\ (\A q \in Reqs : Told(q)) /\ IsSeq(inflight)
  BY DEF BlockInv, LoadInv, BatchInv
<1>2. /\ Executing /\ reports' = WithYoungest("recved", r)
      /\ UNCHANGED <<status, inflight, output, report, finished_recving, pc>>
  BY DEF LoadDone, requests
<1>3. PICK l \in loads : l.req = r /\ loads' = loads \ {l}
  BY DEF LoadDone
<1> DEFINE n == Len(reports)
<1>4. /\ reports' \in Seq(Report) /\ Len(reports') = n /\ n \in 1..Len(inflight)
      /\ \A i \in 1..n : i # n => reports'[i] = reports[i]
      /\ reports'[n].recved = reports[n].recved \cup {r}
  BY <1>1, <1>2, YoungestReport
<1>n. n = Len(inflight) /\ n \in Nat
  BY <1>1 DEF Paired
<1>5. Paired'
  BY <1>1, <1>2, <1>3, <1>4 DEF Paired
<1>6. \A q \in Reqs : IsBeingLoaded(q)' <=> IsBeingLoaded(q) /\ q # r
  BY <1>1, <1>3 DEF IsBeingLoaded, Paired
<1> HIDE DEF n
<1>7. \A q \in Reqs, t \in Int : Notice(q, t)' <=> Notice(q, t) \/ (q = r /\ t = n)
  <2> SUFFICES ASSUME NEW q \in Reqs, NEW t \in Int PROVE Notice(q, t)' <=> Notice(q, t) \/ (q = r /\ t = n)
    OBVIOUS
  <2>1. CASE t \in 1..n
    <3>1. q \in reports'[t].recved <=> q \in reports[t].recved \/ (q = r /\ t = n)
      BY <2>1, <1>4
    <3> QED BY <2>1, <3>1, <1>4, <1>n DEF Notice, n
  <2>2. CASE t \notin 1..n
    BY <2>2, <1>2, <1>4, <1>n DEF Notice, n
  <2> QED BY <2>1, <2>2
<1>8. \A q, t : InFlight(q, t)' <=> InFlight(q, t)
  BY <1>2 DEF InFlight, About
<1>9. ASSUME NEW q \in Reqs PROVE Told(q)'
  <2>1. status'[q] = status[q] /\ (IsLoading(q)' <=> IsLoading(q))
    BY <1>2 DEF IsLoading
  <2>2. CASE q = r
    <3>1. IsBeingLoaded(r)
      BY <1>3 DEF IsBeingLoaded
    <3>2. (\A t \in Int : ~Notice(r, t)) /\ (IsLoading(r) \/ status[r] \in Finished)
      BY <3>1, <1>1 DEF Told
    <3>3. \A t \in Int : Notice(r, t)' <=> t = n
      BY <3>2, <1>7
    <3>4. \A u \in Int : InFlight(r, u) => u <= n
      BY <1>n DEF InFlight
    <3>5. ~IsBeingLoaded(r)'
      BY <1>6
    <3> QED BY <2>1, <2>2, <3>2, <3>3, <3>4, <3>5, <1>8 DEF Told
  <2>3. CASE q # r
    <3>1. IsBeingLoaded(q)' => IsBeingLoaded(q)
      BY <1>6
    <3>2. \A t \in Int : (Notice(q, t)' => Notice(q, t)) /\ (InFlight(q, t)' => InFlight(q, t))
      BY <2>3, <1>7, <1>8
    <3> QED BY <2>1, <3>1, <3>2, <1>1, ToldKept
  <2> QED BY <2>2, <2>3
<1> QED BY <1>5, <1>9 DEF LoadInv

(* A block fails to load, or something is sent.                            *)
LEMMA LoadsOther ==
    ASSUME BlockInv, \/ \E b \in Blocks : LoadFails(b)
                     \/ \E r \in Reqs : SendDone(r)
    PROVE  LoadInv'
<1>1. Paired /\ (\A q \in Reqs : Told(q)) /\ IsSeq(inflight)
  BY DEF BlockInv, LoadInv, BatchInv
<1>2. /\ Executing /\ UNCHANGED <<status, inflight, output, report, finished_recving, pc>>
      /\ \E f \in {"sent", "invalid"}, x \in Blocks \cup Reqs :
            /\ reports' = WithYoungest(f, x)
            /\ (f = "invalid" => x \in Blocks) /\ (f # "invalid" => x \in Reqs)
  BY DEF LoadFails, SendDone, requests
<1>3. /\ \A l \in loads' : l = [req |-> l.req, blocks |-> l.blocks, bad |-> l.bad, from |-> l.from, to |-> l.to]
      /\ \A l, m \in loads' : l.req = m.req => l = m
      /\ \A l \in loads' : \E m \in loads : m.req = l.req
  <2>1. CASE UNCHANGED loads
    BY <2>1, <1>1 DEF Paired
  <2>2. ASSUME NEW b \in Blocks, NEW l \in loads, loads' = (loads \ {l}) \cup {[l EXCEPT !.bad = @ \cup {b}]}
        PROVE  <1>3
    <3> DEFINE x == [l EXCEPT !.bad = @ \cup {b}]
    <3>1. l = [req |-> l.req, blocks |-> l.blocks, bad |-> l.bad, from |-> l.from, to |-> l.to]
      BY <1>1 DEF Paired
    <3>2. /\ x.req = l.req
          /\ x = [req |-> x.req, blocks |-> x.blocks, bad |-> x.bad, from |-> x.from, to |-> x.to]
      BY <3>1
    <3>3. loads' = (loads \ {l}) \cup {x}
      BY <2>2
    <3> HIDE DEF x
    <3>4. \A m \in loads' : m = x \/ (m \in loads /\ m # l)
      BY <3>3
    <3>5. \A k, m \in loads : k.req = m.req => k = m
      BY <1>1 DEF Paired
    <3>6. \A k \in loads : k = [req |-> k.req, blocks |-> k.blocks, bad |-> k.bad, from |-> k.from, to |-> k.to]
      BY <1>1 DEF Paired
    <3>7. \A k, m \in loads' : k.req = m.req => k = m
      BY <3>2, <3>4, <3>5
    <3>8. \A k \in loads' : k = [req |-> k.req, blocks |-> k.blocks, bad |-> k.bad, from |-> k.from, to |-> k.to]
      BY <3>2, <3>4, <3>6
    <3>9. \A k \in loads' : \E m \in loads : m.req = k.req
      BY <3>2, <3>4
    <3> QED BY <3>7, <3>8, <3>9
  <2> QED BY <2>1, <2>2 DEF LoadFails, SendDone
<1> DEFINE n == Len(reports)
<1>4. /\ reports' \in Seq(Report) /\ Len(reports') = n
      /\ \A i \in 1..n : reports'[i].recved = reports[i].recved
  <2>1. PICK f \in {"sent", "invalid"}, x \in Blocks \cup Reqs :
            /\ reports' = WithYoungest(f, x)
            /\ (f = "invalid" => x \in Blocks) /\ (f # "invalid" => x \in Reqs)
    BY <1>2
  <2>2. /\ reports' \in Seq(Report) /\ Len(reports') = n
        /\ \A i \in 1..n : i # n => reports'[i] = reports[i]
        /\ reports'[n].recved = reports[n].recved \cup {}
    BY <2>1, <1>1, <1>2, YoungestReport
  <2> QED BY <2>2
<1>5. Paired'
  BY <1>1, <1>2, <1>3, <1>4 DEF Paired
<1> HIDE DEF n
<1>6. ASSUME NEW q \in Reqs PROVE Told(q)'
  <2>1. IsBeingLoaded(q)' => IsBeingLoaded(q)
    BY <1>3 DEF IsBeingLoaded
  <2>2. \A t \in Int : (Notice(q, t)' => Notice(q, t)) /\ (InFlight(q, t)' => InFlight(q, t))
    BY <1>2, <1>4 DEF Notice, InFlight, About, n
  <2>3. status'[q] = status[q] /\ (IsLoading(q)' <=> IsLoading(q))
    BY <1>2 DEF IsLoading
  <2> QED BY <2>1, <2>2, <2>3, <1>1, ToldKept
<1> QED BY <1>5, <1>6 DEF LoadInv

(* Every step keeps what is known of the loads.                            *)
LEMMA NextLoads == BlockInv /\ [Next]_vars => LoadInv'
<1> SUFFICES ASSUME BlockInv, [Next]_vars PROVE LoadInv'
  OBVIOUS
<1>1. /\ LoadInv /\ status \in [Reqs -> Statuses] /\ QueueInv
      /\ Elements(running) = {r \in Reqs : status[r] = "RUNNING"}
      /\ pc = "output" => output[1].req \in Reqs
  <2>1. LoadInv /\ QueueInv /\ Named(output, Arrivals) /\ (pc = "output" => output # <<>>)
    BY DEF BlockInv, BatchInv
  <2>2. pc = "output" => 1 \in 1..Len(output)
    BY <2>1, TailIsSeq DEF Named
  <2> QED BY <2>1, <2>2 DEF QueueInv, Match, Named, Arrivals
<1>2. ASSUME UNCHANGED status PROVE Settles
  BY <1>2 DEF Settles, IsLoading
<1>3. CASE Client
  <2>1. ASSUME NEW r \in Reqs, AddRequest(r) PROVE LoadInv'
    <3>1. Settles
      BY <1>1, <2>1, SettlesWhen DEF AddRequest
    <3> QED BY <3>1, <2>1, <1>1, LoadsRest DEF AddRequest, SameLoads, remote
  <2>2. ASSUME NEW r \in Reqs, AbortRequest(r) PROVE LoadInv'
    <3>1. Settles
      BY <1>1, <2>2, SettlesWhen DEF AbortRequest, Finished
    <3> QED BY <3>1, <2>2, <1>1, LoadsRest DEF AbortRequest, SameLoads
  <2>3. ASSUME NEW force \in ResetModes, ResetPrefixCache(force) PROVE LoadInv'
    <3> DEFINE S == IF force THEN Elements(running) ELSE {}
    <3>1. /\ status' = [r \in Reqs |-> IF r \in S THEN "PREEMPTED" ELSE status[r]]
          /\ \A r \in S : status[r] = "RUNNING"
      BY <1>1, <2>3 DEF ResetPrefixCache
    <3> HIDE DEF S
    <3>2. Settles
      <4> SUFFICES ASSUME NEW r \in Reqs
                   PROVE  /\ IsLoading(r)' => IsLoading(r)
                          /\ IsLoading(r) \/ status[r] \in Finished => IsLoading(r)' \/ status'[r] \in Finished
        BY DEF Settles
      <4> QED BY <3>1 DEF IsLoading, Finished
    <3> QED BY <3>2, <2>3, <1>1, LoadsRest DEF ResetPrefixCache, SameLoads, remote
  <2> QED BY <1>3, <2>1, <2>2, <2>3 DEF Client
<1>4. CASE BeginSchedule \/ SkipRunning \/ PickRunning \/ ScheduleRunning \/ EndRunning \/ AwaitLast
  <2>1. UNCHANGED status /\ SameLoads /\ pc # "output"
    BY <1>4 DEF BeginSchedule, SkipRunning, PickRunning, ScheduleRunning, EndRunning, AwaitLast,
                InRunningLoop, SameLoads, requests, remote
  <2> QED BY <2>1, <1>1, <1>2, LoadsRest
<1>5. CASE Preempt
  <2>1. Victim \in Reqs /\ status[Victim] = "RUNNING"
    <3>1. Queue(running) /\ running # <<>>
      BY <1>1, <1>5, QueueElements DEF Preempt, QueueInv, Match, Loop
    <3> QED BY <3>1, <1>1, VictimRuns
  <2>2. status' = [status EXCEPT ![Victim] = "PREEMPTED"] /\ SameLoads /\ pc # "output"
    BY <1>5 DEF Preempt, _preempt_request, SameLoads, remote
  <2>3. Settles
    BY <2>1, <2>2, <1>1, SettlesWhen
  <2> QED BY <2>2, <2>3, <1>1, LoadsRest
<1>6. ASSUME NEW o, SkipWaiting \/ EndWaiting(o) PROVE LoadInv'
  <2>1. UNCHANGED status /\ SameLoads /\ pc # "output"
    BY <1>6 DEF SkipWaiting, EndWaiting, LooksAtWaiting, SameLoads, requests, remote
  <2> QED BY <2>1, <1>1, <1>2, LoadsRest
<1>7. ASSUME NEW o, ScheduleWaiting(o) PROVE LoadInv'
  <2>1. /\ status' = [status EXCEPT ![waiting[1]] = "RUNNING"] /\ SameLoads /\ pc # "output"
        /\ waiting # <<>> /\ ~IsLoading(waiting[1])
    BY <1>7 DEF ScheduleWaiting, CanAdmit, AsksForSlots, Considers, LooksAtWaiting, SameLoads, remote
  <2>2. waiting[1] \in Reqs /\ status[waiting[1]] \in Pending
    BY <2>1, <1>1, FirstWaits
  <2>3. Settles
    BY <2>1, <2>2, <1>1, SettlesWhen DEF Pending, IsLoading
  <2> QED BY <2>1, <2>3, <1>1, LoadsRest
<1>8. CASE SkipOutput \/ DiscardOutput
  <2>1. UNCHANGED status /\ pc = "output" /\ NextOutput
        /\ UNCHANGED <<inflight, reports, report, finished_recving, loads>>
    BY <1>8 DEF SkipOutput, DiscardOutput, requests, remote
  <2> QED BY <2>1, <1>2, LoadsNextOutput
<1>9. ASSUME NEW eos \in BOOLEAN, AcceptOutput(eos) PROVE LoadInv'
  <2> DEFINE r == output[1].req
             n == Len(Append(tokens[r], output[1].token))
             stop == StopStatus(r, n, eos)
  <2>1. /\ pc = "output" /\ NextOutput
        /\ UNCHANGED <<inflight, reports, report, finished_recving, loads>>
        /\ (status' = [status EXCEPT ![r] = stop] /\ stop # "NONE") \/ UNCHANGED status
    BY <1>9 DEF AcceptOutput
  <2>2. stop # "NONE" => stop \in Finished
    BY DEF StopStatus, Finished
  <2> HIDE DEF r, stop
  <2>3. Settles
    BY <2>1, <2>2, <1>1, <1>2, SettlesWhen
  <2> QED BY <2>1, <2>3, LoadsNextOutput
<1>10. ASSUME NEW r \in Reqs, FailRequest(r) PROVE LoadInv'
  <2>1. Settles
    BY <1>1, <1>10, SettlesWhen DEF FailRequest, Finished
  <2> QED BY <2>1, <1>1, <1>10, LoadsRest DEF FailRequest, SameLoads
<1>11. ASSUME NEW r \in Reqs, FreeSent(r) PROVE LoadInv'
  <2>1. /\ UNCHANGED <<status, inflight, output, reports, finished_recving, loads>> /\ pc' = pc
        /\ report' = [report EXCEPT !.sent = @ \ {r}]
    BY <1>11 DEF FreeSent, requests
  <2>2. Paired /\ \A q \in Reqs : Told(q)
    BY <1>1 DEF LoadInv
  <2>3. report' \in Report /\ report'.recved = report.recved
    BY <2>1, <2>2 DEF Paired, Report
  <2>4. Paired'
    BY <2>1, <2>2, <2>3 DEF Paired
  <2>5. ASSUME NEW q \in Reqs PROVE Told(q)'
    <3>1. /\ \A t \in Int : (Notice(q, t)' => Notice(q, t)) /\ (InFlight(q, t)' => InFlight(q, t))
          /\ IsBeingLoaded(q)' => IsBeingLoaded(q)
      BY <2>1, <2>3 DEF Notice, InFlight, IsBeingLoaded, About
    <3>2. status'[q] = status[q] /\ (IsLoading(q)' <=> IsLoading(q))
      BY <2>1 DEF IsLoading
    <3> QED BY <3>1, <3>2, <2>2, ToldKept
  <2> QED BY <2>4, <2>5 DEF LoadInv
<1>12. ASSUME NEW r, LookupDone(r) \/ UNCHANGED vars PROVE LoadInv'
  <2>1. UNCHANGED status /\ SameLoads /\ (pc' = "output" \/ pc # "output")
    BY <1>12 DEF LookupDone, Executing, SameLoads, requests, remote, vars
  <2> QED BY <2>1, <1>1, <1>2, LoadsRest
<1> QED BY <1>3, <1>4, <1>5, <1>6, <1>7, <1>8, <1>9, <1>10, <1>11, <1>12, LoadsStart, LoadsKnown,
           LoadsFinishSchedule, LoadsBeginUpdate, LoadsEndUpdate, LoadsDone, LoadsOther
        DEF Next, Engine, Connector

\* Who does not run and is in no batch is in none after the step.
Calm == \A r \in Reqs : status[r] # "RUNNING" /\ Quiet(r) => Quiet(r)'

(* Every step brings only running requests into a batch.                   *)
LEMMA NextCalm == BlockInv /\ [Next]_vars => Calm
<1> SUFFICES ASSUME BlockInv, [Next]_vars, NEW r \in Reqs, status[r] # "RUNNING", Quiet(r)
             PROVE  Quiet(r)'
  BY DEF Calm
<1>1. ~About(output, r) /\ \A k \in 1..Len(inflight) : ~About(inflight[k], r)
  BY DEF Quiet, InFlight
<1>2. /\ IsSeq(inflight) /\ IsSeq(output) /\ IsSeq(scheduled) /\ Picked /\ Numbers
      /\ pc = "await" => inflight # <<>>
      /\ pc = "output" => output # <<>>
  BY DEF BlockInv, BatchInv, Named
<1>3. ASSUME ~About(output', r), \A k \in 1..Len(inflight') : ~About(inflight'[k], r) PROVE Quiet(r)'
  BY <1>3 DEF Quiet, InFlight, About
<1>4. CASE UNCHANGED <<output, inflight>>
  BY <1>1, <1>3, <1>4
<1>5. ASSUME NEW bad, FinishSchedule(bad) PROVE Quiet(r)'
  <2> DEFINE b == Batch(mem')
  <2>1. inflight' = Append(inflight, b) /\ UNCHANGED output
    BY <1>5 DEF FinishSchedule
  <2>2. ~About(b, r)
    BY <1>2, BatchEntries
  <2> HIDE DEF b
  <2>3. \A k \in 1..Len(inflight') : (k \in 1..Len(inflight) /\ inflight'[k] = inflight[k]) \/ inflight'[k] = b
    BY <2>1, <1>2, AppendCases
  <2> QED BY <2>1, <2>2, <2>3, <1>1, <1>3
<1>6. CASE BeginUpdate
  <2>1. inflight' = Tail(inflight) /\ output' = Head(inflight) /\ pc = "await"
    BY <1>6 DEF BeginUpdate
  <2>2. /\ Len(inflight) \in Nat /\ Len(inflight) >= 1
        /\ \A i \in 1..Len(Tail(inflight)) : Tail(inflight)[i] = inflight[i + 1] /\ i + 1 \in 1..Len(inflight)
    BY <1>2, <2>1, TailIsSeq
  <2>3. 1 \in 1..Len(inflight) /\ output' = inflight[1]
    BY <2>1, <2>2
  <2> QED BY <2>1, <2>2, <2>3, <1>1, <1>3
<1>7. ASSUME pc = "output", NextOutput, UNCHANGED inflight PROVE Quiet(r)'
  <2>1. output' = Tail(output)
    BY <1>7 DEF NextOutput
  <2>2. \A i \in 1..Len(Tail(output)) : Tail(output)[i] = output[i + 1] /\ i + 1 \in 1..Len(output)
    BY <1>2, <1>7, TailIsSeq
  <2>3. ~About(output', r)
    BY <2>1, <2>2, <1>1 DEF About
  <2> QED BY <2>3, <1>1, <1>3, <1>7
<1>8. CASE SkipOutput \/ DiscardOutput \/ \E eos \in BOOLEAN : AcceptOutput(eos)
  BY <1>7, <1>8 DEF SkipOutput, DiscardOutput, AcceptOutput
<1>9. CASE Client \/ Connector \/ UNCHANGED vars
  BY <1>4, <1>9 DEF Client, AddRequest, AbortRequest, ResetPrefixCache, Connector, LookupDone,
                    LoadFails, LoadDone, SendDone, vars
<1>10. CASE BeginSchedule \/ SkipRunning \/ PickRunning \/ ScheduleRunning \/ Preempt \/ EndRunning
  BY <1>4, <1>10 DEF BeginSchedule, SkipRunning, PickRunning, ScheduleRunning, Preempt, EndRunning
<1>11. ASSUME NEW o, SkipWaiting \/ _update_waiting_for_remote_kv \/ ScheduleWaiting(o) \/ LoadWaiting(o)
                     \/ EndWaiting(o)
       PROVE  Quiet(r)'
  BY <1>4, <1>11 DEF SkipWaiting, _update_waiting_for_remote_kv, ScheduleWaiting, LoadWaiting, EndWaiting
<1>12. ASSUME NEW q, AwaitLast \/ FailRequest(q) \/ FreeSent(q) \/ EndUpdate PROVE Quiet(r)'
  BY <1>4, <1>12 DEF AwaitLast, FailRequest, FreeSent, EndUpdate
<1> QED BY <1>5, <1>6, <1>8, <1>9, <1>10, <1>11, <1>12 DEF Next, Engine

-----------------------------------------------------------------------------
(* Requests and their blocks: one action after the other. *)

Sound == Numbers /\ Rightful /\ KVInv(kv)

\* A step that changes nothing of the requests that are not in S.
Others(S) ==
    \A q \in Reqs \ S :
        /\ status'[q] = status[q] /\ tokens'[q] = tokens[q]
        /\ num_computed_tokens'[q] = num_computed_tokens[q]
        /\ num_output_placeholders'[q] = num_output_placeholders[q]
        /\ num_cached_tokens'[q] = num_cached_tokens[q]
        /\ kv'.req_to_blocks[q] = kv.req_to_blocks[q]
        /\ kv'.num_cached_block[q] = kv.num_cached_block[q]
        /\ q \in sending => q \in sending'

\* After the step r is as it should be.
Allowed(r) == /\ Bounded(r)' /\ MayHold(r)'
              /\ ~HasConnector => ~IsLoading(r)'

(* It is enough to look at those.                                          *)
LEMMA RightfulRest ==
    ASSUME Rightful, Calm, NEW S, Others(S), \A r \in Reqs \cap S : Allowed(r)
    PROVE  Rightful'
<1> SUFFICES ASSUME NEW q \in Reqs PROVE Allowed(q)
  BY DEF Rightful, Allowed
<1>1. CASE q \in S
  BY <1>1
<1>2. CASE q \notin S
  <2>1. Bounded(q) /\ MayHold(q) /\ (~HasConnector => ~IsLoading(q))
    BY DEF Rightful
  <2>2. /\ status'[q] = status[q] /\ tokens'[q] = tokens[q]
        /\ num_computed_tokens'[q] = num_computed_tokens[q]
        /\ num_output_placeholders'[q] = num_output_placeholders[q]
        /\ num_cached_tokens'[q] = num_cached_tokens[q]
        /\ kv'.req_to_blocks[q] = kv.req_to_blocks[q]
        /\ kv'.num_cached_block[q] = kv.num_cached_block[q]
        /\ q \in sending => q \in sending'
    BY <1>2 DEF Others
  <2>3. Bounded(q)'
    BY <2>1, <2>2 DEF Bounded, Within
  <2>4. MayHold(q)'
    <3>1. status[q] \in Pending /\ Quiet(q) => Quiet(q)'
      BY DEF Calm, Pending
    <3> QED BY <2>1, <2>2, <3>1 DEF MayHold, IsLoading
  <2>5. ~HasConnector => ~IsLoading(q)'
    BY <2>1, <2>2 DEF IsLoading
  <2> QED BY <2>3, <2>4, <2>5 DEF Allowed
<1> QED BY <1>1, <1>2

\* The counters and tokens are as they were.
SameNumbers == UNCHANGED <<tokens, num_computed_tokens, num_output_placeholders, num_cached_tokens>>

(* Steps that touch neither requests nor blocks.                           *)
LEMMA QuietStep ==
    ASSUME BlockInv, Calm, SameNumbers, UNCHANGED <<status, kv, sending>>, token_budget' \in Int
    PROVE  Sound'
<1>1. Numbers /\ Rightful /\ KVInv(kv)
  BY DEF BlockInv
<1>2. Numbers'
  BY <1>1 DEF Numbers, SameNumbers
<1>3. KVInv(kv')
  BY <1>1
<1>4. Others({})
  BY DEF Others, SameNumbers
<1>5. Rightful'
  BY <1>1, <1>4, RightfulRest
<1> QED BY <1>2, <1>3, <1>5 DEF Sound

(* Who changes nothing but its own request does, and gives its blocks back *)
(* or has them sent, is finished for good.                                 *)
LEMMA FreeRequestFacts ==
    ASSUME NEW k, KVInv(k), NEW r \in Reqs, NEW n \in Int, _free_request(k, r, n)
    PROVE  /\ KVInv(kv') /\ OthersSame(k, kv', r)
           /\ kv'.req_to_blocks[r] = <<>> \/ r \in sending'
           /\ \A q : q \in sending => q \in sending'
<1> DEFINE handed == IF HasConnector THEN remove_skipped_blocks(k, r, n) ELSE k
           later == SendsLater(k, r)
<1>1. /\ kv' = IF later THEN handed ELSE free(handed, r)
      /\ sending' = IF later THEN sending \cup {r} ELSE sending
  BY DEF _free_request
<1>2. KVInv(handed) /\ OthersSame(k, handed, r)
  <2>1. CASE HasConnector
    BY <2>1, RemoveSkippedKeeps, RemoveSkippedFrame
  <2>2. CASE ~HasConnector
    BY <2>2 DEF OthersSame
  <2> QED BY <2>1, <2>2
<1> HIDE DEF handed, later
<1>3. /\ KVInv(free(handed, r)) /\ OthersSame(handed, free(handed, r), r)
      /\ free(handed, r).req_to_blocks[r] = <<>>
  BY <1>2, FreeKeeps, FreeFrame
<1>4. OthersSame(k, free(handed, r), r)
  BY <1>2, <1>3, OthersSameTwice
<1> QED BY <1>1, <1>2, <1>3, <1>4

(* A request that is finished and has lost its blocks, or is sending them. *)
LEMMA FinishedAllowed ==
    ASSUME NEW r, status'[r] \in Finished, num_cached_tokens'[r] < Len(tokens'[r]),
           kv'.req_to_blocks[r] = <<>> \/ r \in sending'
    PROVE  Allowed(r)
<1>1. Bounded(r)'
  BY DEF Bounded, Finished, Pending
<1>2. MayHold(r)'
  BY DEF MayHold
<1> QED BY <1>1, <1>2 DEF Allowed, IsLoading, Finished

(* A request leaves: it is aborted or fails.                               *)
LEMMA LeaveSound ==
    ASSUME BlockInv, Calm, NEW r \in Reqs, NEW new \in Finished, status' = [status EXCEPT ![r] = new],
           _free_request(kv, r, Len(tokens[r])), SameNumbers, UNCHANGED token_budget
    PROVE  Sound'
<1>1. Numbers /\ Rightful /\ KVInv(kv) /\ status \in [Reqs -> Statuses]
  BY DEF BlockInv, QueueInv, Match
<1>2. Numbers'
  BY <1>1 DEF Numbers, SameNumbers
<1>3. Len(tokens[r]) \in Int
  BY <1>1 DEF Numbers
<1>4. /\ KVInv(kv') /\ OthersSame(kv, kv', r)
      /\ kv'.req_to_blocks[r] = <<>> \/ r \in sending'
      /\ \A q : q \in sending => q \in sending'
  BY <1>1, <1>3, FreeRequestFacts
<1>5. Others({r})
  BY <1>1, <1>4 DEF Others, OthersSame, SameNumbers
<1>6. Allowed(r)
  <2>1. num_cached_tokens'[r] < Len(tokens'[r])
    BY <1>1 DEF Rightful, Bounded, SameNumbers
  <2>2. status'[r] \in Finished
    BY <1>1
  <2> QED BY <2>1, <2>2, <1>4, FinishedAllowed
<1>7. Rightful'
  BY <1>1, <1>5, <1>6, RightfulRest
<1> QED BY <1>2, <1>4, <1>7 DEF Sound

(* A request arrives; it has no blocks.                                    *)
LEMMA AddSound ==
    ASSUME BlockInv, Calm, NEW r \in Reqs, AddRequest(r)
    PROVE  Sound'
<1>1. Numbers /\ Rightful /\ KVInv(kv) /\ status \in [Reqs -> Statuses]
  BY DEF BlockInv, QueueInv, Match
<1>2. /\ status[r] = "NEW" /\ status' = [status EXCEPT ![r] = "WAITING"]
      /\ SameNumbers /\ UNCHANGED <<token_budget, kv, sending>>
  BY DEF AddRequest, SameNumbers, history, locals, remote
<1>3. Numbers' /\ KVInv(kv')
  BY <1>1, <1>2 DEF Numbers, SameNumbers
<1>4. Others({r})
  BY <1>1, <1>2 DEF Others, SameNumbers
<1>5. Bounded(r) /\ MayHold(r)
  BY <1>1 DEF Rightful
<1>6. Allowed(r)
  <2>1. status'[r] = "WAITING"
    BY <1>1, <1>2
  <2>2. Bounded(r)'
    BY <1>2, <1>5, <2>1 DEF Bounded, Within, SameNumbers, Pending
  <2>3. kv'.req_to_blocks[r] = <<>>
    BY <1>2, <1>5 DEF MayHold, Finished, Pending
  <2>4. MayHold(r)'
    BY <2>3 DEF MayHold
  <2> QED BY <2>1, <2>2, <2>4 DEF Allowed, IsLoading
<1>7. Rightful'
  BY <1>1, <1>4, <1>6, RightfulRest
<1> QED BY <1>3, <1>7 DEF Sound

(* reset_prefix_cache: who was running starts again, without blocks.       *)
LEMMA ResetSound ==
    ASSUME BlockInv, Calm, NEW force \in ResetModes, ResetPrefixCache(force)
    PROVE  Sound'
<1> DEFINE S == IF force THEN Elements(running) ELSE {}
           freed == IF force THEN AllFreed ELSE kv
<1>1. /\ Numbers /\ Rightful /\ KVInv(kv) /\ status \in [Reqs -> Statuses]
      /\ Queue(running) /\ Elements(running) = {r \in Reqs : status[r] = "RUNNING"}
  BY DEF BlockInv, QueueInv, Match
<1>2. /\ status' = [r \in Reqs |-> IF r \in S THEN "PREEMPTED" ELSE status[r]]
      /\ num_computed_tokens' = [r \in Reqs |-> IF r \in S THEN 0 ELSE num_computed_tokens[r]]
      /\ num_output_placeholders' = [r \in Reqs |-> IF r \in S THEN 0 ELSE num_output_placeholders[r]]
      /\ kv' = IF CanResetCache(freed.pool) THEN [freed EXCEPT !.pool = reset_prefix_cache(@)] ELSE freed
      /\ UNCHANGED <<tokens, num_cached_tokens, token_budget, sending>>
  BY DEF ResetPrefixCache, locals, remote
<1>3. KVInv(freed) /\ LoseBlocks(kv, freed, S)
  <2>1. CASE force
    BY <2>1, <1>1, AllFreedFacts
  <2>2. CASE ~force
    BY <2>2, <1>1 DEF LoseBlocks
  <2> QED BY <2>1, <2>2, SchedulerAssumption
<1>4. S \subseteq Reqs /\ \A r \in S : status[r] = "RUNNING"
  BY <1>1
<1> HIDE DEF S, freed
<1>5. KVInv(kv')
  <2>1. CASE CanResetCache(freed.pool)
    BY <2>1, <1>2, <1>3, ResetManager
  <2>2. CASE ~CanResetCache(freed.pool)
    BY <2>2, <1>2, <1>3
  <2> QED BY <2>1, <2>2
<1>6. kv'.req_to_blocks = freed.req_to_blocks /\ kv'.num_cached_block = freed.num_cached_block
  <2>1. freed \in Managers
    BY <1>3, InOrder
  <2> QED BY <2>1, <1>2 DEF Managers
<1>7. Numbers'
  BY <1>1, <1>2 DEF Numbers
<1>8. Others(S)
  BY <1>1, <1>2, <1>3, <1>6 DEF Others, LoseBlocks, Numbers
<1>9. ASSUME NEW r \in S PROVE Allowed(r)
  <2>1. /\ r \in Reqs /\ status'[r] = "PREEMPTED" /\ num_computed_tokens'[r] = 0
        /\ kv'.req_to_blocks[r] = <<>>
    BY <1>2, <1>3, <1>4, <1>6, <1>9 DEF LoseBlocks
  <2>2. num_cached_tokens'[r] < Len(tokens'[r]) /\ 0 < Len(tokens'[r])
    BY <1>1, <1>2, <2>1 DEF Rightful, Bounded, Numbers
  <2>3. Bounded(r)'
    BY <2>1, <2>2 DEF Bounded, Within
  <2>4. MayHold(r)'
    BY <2>1 DEF MayHold
  <2> QED BY <2>1, <2>3, <2>4 DEF Allowed, IsLoading
<1>10. Rightful'
  BY <1>1, <1>8, <1>9, RightfulRest
<1> QED BY <1>5, <1>7, <1>10 DEF Sound

(* What the client does.                                                   *)
LEMMA ClientSound ==
    ASSUME BlockInv, Calm, Client
    PROVE  Sound'
<1>1. ASSUME NEW r \in Reqs, AbortRequest(r) PROVE Sound'
  BY <1>1, LeaveSound DEF AbortRequest, Finished, SameNumbers, history, locals
<1> QED BY <1>1, AddSound, ResetSound DEF Client

(* A running request gets its blocks.                                      *)
LEMMA ScheduleRunningSound ==
    ASSUME BlockInv, Calm, ScheduleRunning
    PROVE  Sound'
<1>0. PICK r : r = current.req
  OBVIOUS
<1> DEFINE a == RunningArgs(r, current.n)
<1>1. /\ Numbers /\ Rightful /\ KVInv(kv) /\ status \in [Reqs -> Statuses] /\ Picked
  BY DEF BlockInv, QueueInv, Match
<1>2. /\ kv' = allocate_slots(kv, r, a) /\ token_budget' = token_budget - current.n
      /\ UNCHANGED <<status, sending>> /\ SameNumbers /\ pc = "alloc"
  BY <1>0 DEF ScheduleRunning, SameNumbers, requests, history, remote
<1>3. r \in Reqs /\ current.n \in Int /\ status[r] = "RUNNING"
  BY <1>0, <1>1, <1>2 DEF Picked, Fits
<1>4. ArgsOK(kv, r, a)
  BY <1>1, <1>3, RunningArgsOK
<1> HIDE DEF a
<1>5. KVInv(kv') /\ OthersSame(kv, kv', r)
  <2>1. Allots(kv, kv', r, a)
    BY <1>1, <1>2, <1>3, <1>4, AllocateSlotsFrame
  <2> QED BY <2>1, <1>1, <1>2, <1>3, <1>4, AllocateSlotsKeeps DEF Allots
<1>6. Numbers'
  BY <1>1, <1>2, <1>3 DEF Numbers, SameNumbers
<1>7. Others({r})
  BY <1>2, <1>5 DEF Others, OthersSame, SameNumbers
<1>8. Allowed(r)
  <2>1. status'[r] = "RUNNING"
    BY <1>2, <1>3
  <2>2. Bounded(r)'
    BY <1>1, <1>2, <1>3, <2>1 DEF Rightful, Bounded, SameNumbers, Pending
  <2>3. MayHold(r)'
    BY <2>1 DEF MayHold
  <2> QED BY <2>1, <2>2, <2>3 DEF Allowed, IsLoading
<1>9. Rightful'
  BY <1>1, <1>7, <1>8, RightfulRest
<1> QED BY <1>5, <1>6, <1>9 DEF Sound

(* A running request is preempted: it gives back its blocks.               *)
LEMMA PreemptSound ==
    ASSUME BlockInv, Calm, Preempt
    PROVE  Sound'
<1>0. PICK r, v : r = current.req /\ v = Victim
  OBVIOUS
<1> DEFINE a == RunningArgs(r, current.n)
           k == Trimmed(kv, r, a)
<1>1. /\ Numbers /\ Rightful /\ KVInv(kv) /\ Picked
      /\ status \in [Reqs -> Statuses] /\ Queue(running)
      /\ Elements(running) = {q \in Reqs : status[q] = "RUNNING"}
      /\ IsSeq(scheduled) /\ (pc = "alloc" => current.req \in Elements(running))
  BY DEF BlockInv, QueueInv, Match, Loop
<1>2. /\ kv' = free(k, v) /\ status' = [status EXCEPT ![v] = "PREEMPTED"]
      /\ num_computed_tokens' = [num_computed_tokens EXCEPT ![v] = 0]
      /\ token_budget' = token_budget + IF Undo(v) THEN ScheduledTokens(v) ELSE 0
      /\ UNCHANGED <<tokens, num_output_placeholders, num_cached_tokens, sending>> /\ pc = "alloc"
  BY <1>0 DEF Preempt, _preempt_request, remote
<1>3. r \in Reqs /\ current.n \in Int /\ status[r] = "RUNNING"
  BY <1>0, <1>1, <1>2 DEF Picked, Fits
<1>4. v \in Reqs /\ status[v] = "RUNNING"
  <2>1. running # <<>>
    BY <1>1, <1>2, QueueElements
  <2> QED BY <2>1, <1>0, <1>1, VictimRuns
<1>5. ArgsOK(kv, r, a)
  BY <1>1, <1>3, RunningArgsOK
<1> HIDE DEF a
<1>6. KVInv(k) /\ OthersSame(kv, k, r)
  BY <1>1, <1>3, <1>5, TrimmedKeeps, TrimmedFrame
<1> HIDE DEF k
<1>7. KVInv(kv') /\ OthersSame(k, kv', v) /\ kv'.req_to_blocks[v] = <<>>
  BY <1>2, <1>4, <1>6, FreeKeeps, FreeFrame
<1>8. Numbers'
  <2>1. ScheduledTokens(v) \in Int
    BY <1>1, <1>4, ScheduledFacts
  <2>2. token_budget \in Int
    BY <1>1 DEF Numbers
  <2>3. token_budget' \in Int
    <3>1. CASE Undo(v)
      BY <3>1, <2>1, <2>2, <1>2
    <3>2. CASE ~Undo(v)
      BY <3>2, <2>2, <1>2
    <3> QED BY <3>1, <3>2
  <2>4. /\ num_computed_tokens' \in [Reqs -> Int]
        /\ UNCHANGED <<tokens, num_output_placeholders, num_cached_tokens>>
    BY <1>1, <1>2, <1>4 DEF Numbers
  <2> QED BY <2>3, <2>4, <1>1 DEF Numbers
<1>9. Others({r, v})
  BY <1>1, <1>2, <1>6, <1>7 DEF Others, OthersSame, Numbers
<1>10. Bounded(r) /\ Bounded(v)
  BY <1>1, <1>3, <1>4 DEF Rightful
<1>11. Allowed(v)
  <2>1. status'[v] = "PREEMPTED" /\ num_computed_tokens'[v] = 0
    BY <1>1, <1>2, <1>4 DEF Numbers
  <2>2. num_cached_tokens'[v] < Len(tokens'[v]) /\ 0 < Len(tokens'[v])
    BY <1>1, <1>2, <1>4, <1>10 DEF Bounded, Numbers
  <2>3. Bounded(v)'
    BY <1>7, <2>1, <2>2 DEF Bounded, Within
  <2>4. MayHold(v)'
    BY <1>7 DEF MayHold
  <2> QED BY <2>1, <2>3, <2>4 DEF Allowed, IsLoading
<1>12. ASSUME r # v PROVE Allowed(r)
  <2>1. status'[r] = "RUNNING" /\ num_computed_tokens'[r] = num_computed_tokens[r]
    BY <1>1, <1>2, <1>3, <1>12 DEF Numbers
  <2>2. Bounded(r)'
    BY <1>2, <1>3, <1>10, <2>1 DEF Bounded, Pending
  <2>3. MayHold(r)'
    BY <2>1 DEF MayHold
  <2> QED BY <2>1, <2>2, <2>3 DEF Allowed, IsLoading
<1>13. Rightful'
  <2>1. \A q \in Reqs \cap {r, v} : Allowed(q)
    BY <1>11, <1>12
  <2> QED BY <2>1, <1>1, <1>9, RightfulRest
<1> QED BY <1>7, <1>8, <1>13 DEF Sound

(* The loop over the waiting requests: what was loaded, or failed to.      *)
LEMMA LoadedSound ==
    ASSUME BlockInv, Calm, _update_waiting_for_remote_kv
    PROVE  Sound'
<1>0. PICK r : r = waiting[1]
  OBVIOUS
<1>1. /\ Numbers /\ Rightful /\ KVInv(kv) /\ QueueInv
      /\ status \in [Reqs -> Statuses]
  BY DEF BlockInv, QueueInv, Match
<1>2. /\ kv' = AfterLoad(r).kv /\ IsLoading(r) /\ waiting # <<>>
      /\ num_computed_tokens' = [num_computed_tokens EXCEPT ![r] = AfterLoad(r).computed]
      /\ status' = [status EXCEPT ![r] = IF num_preemptions[r] > 0 THEN "PREEMPTED" ELSE "WAITING"]
      /\ UNCHANGED <<tokens, num_output_placeholders, num_cached_tokens, sending, token_budget>>
  BY <1>0 DEF _update_waiting_for_remote_kv, LooksAtWaiting, history, locals
<1>3. r \in Reqs
  BY <1>0, <1>1, <1>2, FirstWaits
<1> DEFINE L == Len(tokens[r])
           table == kv.req_to_blocks[r]
           c == num_computed_tokens[r]
           n == LoadedTokens(r)
           l == Len(table)
<1>4. /\ tokens[r] \in Seq(Nat) /\ L \in Nat /\ L >= 1 /\ c \in Int /\ table \in Seq(Blocks)
      /\ l \in Nat /\ BlockSize \in Nat /\ BlockSize > 0
  BY <1>1, <1>3, InOrder, KVCacheManagerAssumption DEF Numbers
<1>5. HasConnector /\ Bounded(r) /\ MayHold(r)
  BY <1>1, <1>2, <1>3 DEF Rightful
<1>6. /\ c < L /\ Within(table, L) /\ num_cached_tokens[r] < L
      /\ table # <<>> => kv.num_cached_block[r] # Untracked
  BY <1>2, <1>5 DEF Bounded, MayHold, IsLoading, Pending, Finished
<1>7. n \in Int /\ n < L /\ (l > 0 => n > 0 \/ L = 1)
  <2> DEFINE m == l * BlockSize
  <2>1. m \in Nat /\ (l > 0 => m > 0)
    BY <1>4
  <2> HIDE DEF m, l
  <2>2. n = LET k == MinOf(m, L) IN IF k = L THEN k - 1 ELSE k
    BY DEF LoadedTokens, m, l
  <2> HIDE DEF L, n
  <2> QED BY <2>1, <2>2, <1>4 DEF MinOf
<1> HIDE DEF n
<1> DEFINE d == AfterLoad(r).computed
<1>8. /\ KVInv(kv') /\ OthersSame(kv, kv', r) /\ d \in Int /\ d < L
      /\ \/ kv'.req_to_blocks[r] = <<>>
         \/ /\ kv'.req_to_blocks[r] = table /\ (table # <<>> => d > 0 \/ L = 1)
            /\ table # <<>> => kv'.num_cached_block[r] # Untracked
  <2>1. ASSUME NEW e \in Int, e < L, l > 0 => e > 0 \/ L = 1,
               AfterLoad(r) = [kv |-> cache_blocks(kv, r, tokens[r], e), computed |-> e]
        PROVE  <1>8
    <3>1. kv' = cache_blocks(kv, r, tokens[r], e) /\ d = e
      BY <1>2, <2>1
    <3>2. KVInv(kv')
      BY <3>1, <2>1, <1>1, <1>3, <1>4, CacheBlocksKeeps
    <3>3. /\ OthersSame(kv, kv', r) /\ kv'.req_to_blocks = kv.req_to_blocks
          /\ kv.num_cached_block[r] # Untracked => kv'.num_cached_block[r] # Untracked
      BY <3>1, <1>1, <1>3, CacheBlocksFrame
    <3>4. table # <<>> => l > 0
      BY <1>4
    <3> HIDE DEF d, table, L, l
    <3> QED BY <2>1, <3>1, <3>2, <3>3, <3>4, <1>6 DEF table
  <2>2. CASE r \notin failed_recving
    <3>1. AfterLoad(r) = [kv |-> cache_blocks(kv, r, tokens[r], n), computed |-> n]
      BY <2>2 DEF AfterLoad, n
    <3> QED BY <3>1, <2>1, <1>7
  <2>3. CASE r \in failed_recving /\ c > 0
    <3>1. AfterLoad(r) = [kv |-> cache_blocks(kv, r, tokens[r], c), computed |-> c]
      BY <2>3 DEF AfterLoad
    <3> QED BY <3>1, <2>1, <2>3, <1>4, <1>6
  <2>4. CASE r \in failed_recving /\ ~(c > 0)
    <3>1. AfterLoad(r) = [kv |-> free(kv, r), computed |-> 0]
      BY <2>4 DEF AfterLoad
    <3>2. kv' = free(kv, r) /\ d = 0
      BY <3>1, <1>2
    <3> HIDE DEF d
    <3> QED BY <3>2, <1>1, <1>3, <1>4, FreeKeeps, FreeFrame
  <2> QED BY <2>2, <2>3, <2>4
<1> HIDE DEF d
<1>9. /\ num_computed_tokens'[r] = d /\ status'[r] \in {"PREEMPTED", "WAITING"}
      /\ Len(tokens'[r]) = L
  BY <1>1, <1>2, <1>3 DEF Numbers, d
<1>10. Numbers'
  BY <1>1, <1>2, <1>3, <1>8 DEF Numbers, d
<1>11. Others({r})
  BY <1>1, <1>2, <1>8 DEF Others, OthersSame, Numbers
<1>12. Allowed(r)
  <2>0. Quiet(r)'
    <3>1. Notice(r, -1) /\ Told(r) /\ IsLoading(r) /\ status[r] # "RUNNING"
      BY <1>0, <1>2, <1>3 DEF _update_waiting_for_remote_kv, Skips, Notice, BlockInv, LoadInv, IsLoading
    <3>2. \A u \in Int : InFlight(r, u) => u <= -1
      BY <3>1 DEF Told
    <3>3. \A u \in Int : InFlight(r, u) => u >= 0
      BY DEF InFlight
    <3>4. Quiet(r)
      BY <3>2, <3>3 DEF Quiet
    <3> QED BY <3>1, <3>4, <1>3 DEF Calm
  <2>1. Within(kv'.req_to_blocks[r], L)
    BY <1>6, <1>8 DEF Within
  <2>2. num_cached_tokens'[r] < L
    BY <1>2, <1>6
  <2> HIDE DEF L, table, c, l
  <2>3. Bounded(r)'
    BY <1>8, <1>9, <2>1, <2>2 DEF Bounded, Pending
  <2>4. MayHold(r)'
    BY <1>5, <1>8, <1>9, <2>0 DEF MayHold, Pending
  <2> QED BY <1>9, <2>3, <2>4 DEF Allowed, IsLoading
<1>13. Rightful'
  BY <1>1, <1>11, <1>12, RightfulRest
<1> QED BY <1>8, <1>10, <1>13 DEF Sound

(* The first waiting request runs.                                         *)
LEMMA ScheduleWaitingSound ==
    ASSUME BlockInv, Calm, NEW o, ScheduleWaiting(o)
    PROVE  Sound'
<1>0. PICK r, a : r = waiting[1] /\ a = WaitingArgs(r, o)
  OBVIOUS
<1>1. /\ Numbers /\ Rightful /\ KVInv(kv) /\ QueueInv
      /\ status \in [Reqs -> Statuses]
  BY DEF BlockInv, QueueInv, Match
<1>2. /\ Considers(o) /\ kv' = allocate_slots(kv, r, a)
      /\ status' = [status EXCEPT ![r] = "RUNNING"]
      /\ num_computed_tokens' = [num_computed_tokens EXCEPT ![r] = TotalComputed(a)]
      /\ num_cached_tokens' =
             [num_cached_tokens EXCEPT ![r] = IF @ < 0 THEN TotalComputed(a) ELSE @]
      /\ token_budget' = token_budget - a.new
      /\ UNCHANGED <<tokens, num_output_placeholders, sending>> /\ ~o.async
  BY <1>0 DEF ScheduleWaiting, CanAdmit, AsksForSlots, remote
<1>3. r \in Reqs /\ AsksWithin(r, o, a)
  BY <1>0, <1>1, <1>2, WaitingArgsFacts
<1> DEFINE t == TotalComputed(a)
<1>4. /\ ArgsOK(kv, r, a) /\ t \in Int /\ t < Len(tokens[r]) /\ a.new \in Int
  BY <1>2, <1>3 DEF AsksWithin
<1> HIDE DEF t
<1>5. KVInv(kv') /\ OthersSame(kv, kv', r)
  <2>1. Allots(kv, kv', r, a)
    BY <1>1, <1>2, <1>3, <1>4, AllocateSlotsFrame
  <2> QED BY <2>1, <1>1, <1>2, <1>3, <1>4, AllocateSlotsKeeps DEF Allots
<1>6. Numbers'
  <2>1. num_cached_tokens' \in [Reqs -> Int]
    BY <1>1, <1>2, <1>4 DEF Numbers, t
  <2> QED BY <2>1, <1>1, <1>2, <1>4 DEF Numbers, t
<1>7. Others({r})
  BY <1>1, <1>2, <1>5 DEF Others, OthersSame, Numbers
<1>8. Allowed(r)
  <2>1. status'[r] = "RUNNING" /\ num_computed_tokens'[r] = t /\ tokens'[r] = tokens[r]
    BY <1>1, <1>2, <1>3 DEF Numbers, t
  <2>2. num_cached_tokens'[r] = t \/ num_cached_tokens'[r] = num_cached_tokens[r]
    BY <1>1, <1>2, <1>3 DEF Numbers, t
  <2>3. num_cached_tokens[r] < Len(tokens[r])
    BY <1>1, <1>3 DEF Rightful, Bounded
  <2>4. t <= Len(tokens[r]) + num_output_placeholders'[r]
    <3>1. Len(tokens[r]) \in Nat /\ num_output_placeholders'[r] \in Nat
      BY <1>1, <1>2, <1>3 DEF Numbers
    <3> QED BY <3>1, <1>4
  <2>5. Bounded(r)'
    BY <2>1, <2>2, <2>3, <2>4, <1>4 DEF Bounded, Pending
  <2>6. MayHold(r)'
    BY <2>1 DEF MayHold
  <2> QED BY <2>1, <2>5, <2>6 DEF Allowed, IsLoading
<1>9. Rightful'
  BY <1>1, <1>7, <1>8, RightfulRest
<1> QED BY <1>5, <1>6, <1>9 DEF Sound

(* The first waiting request gets blocks for a connector to load into.     *)
LEMMA LoadWaitingSound ==
    ASSUME BlockInv, Calm, NEW o, LoadWaiting(o)
    PROVE  Sound'
<1>0. PICK r, a : r = waiting[1] /\ a = WaitingArgs(r, o)
  OBVIOUS
<1>1. /\ Numbers /\ Rightful /\ KVInv(kv) /\ QueueInv
      /\ status \in [Reqs -> Statuses]
  BY DEF BlockInv, QueueInv, Match
<1>2. /\ Considers(o) /\ SlotsFit(kv, r, a) /\ o.async /\ kv' = allocate_slots(kv, r, a)
      /\ status' = [status EXCEPT ![r] = "WAITING_FOR_REMOTE_KVS"]
      /\ SameNumbers /\ UNCHANGED <<token_budget, sending>>
  BY <1>0 DEF LoadWaiting, CanAdmit, AsksForSlots, SameNumbers, history
<1>3. r \in Reqs /\ status[r] \in Pending /\ AsksWithin(r, o, a) /\ HasConnector
  BY <1>0, <1>1, <1>2, WaitingArgsFacts
<1> DEFINE L == Len(tokens[r])
<1>4. /\ ArgsOK(kv, r, a) /\ a.computed \in Nat /\ SlotsNeeded(a) <= L
      /\ LocalComputed(a) + a.external <= L /\ (a.hit # <<>> \/ a.external > 0)
  BY <1>2, <1>3 DEF AsksWithin
<1>5. Allots(kv, kv', r, a) /\ kv'.num_cached_block[r] # Untracked
  BY <1>1, <1>2, <1>3, <1>4, AllocateSlotsFrame
<1>6. KVInv(kv') /\ OthersSame(kv, kv', r)
  BY <1>5, <1>1, <1>2, <1>3, <1>4, AllocateSlotsKeeps DEF Allots
<1>7. Numbers'
  BY <1>1, <1>2 DEF Numbers, SameNumbers
<1>8. Others({r})
  BY <1>1, <1>2, <1>6 DEF Others, OthersSame, SameNumbers
<1>9. Allowed(r)
  <2>1. status'[r] = "WAITING_FOR_REMOTE_KVS"
    BY <1>1, <1>2, <1>3
  <2>2. /\ num_cached_tokens[r] < L /\ num_computed_tokens[r] < L
        /\ Within(kv.req_to_blocks[r], L) /\ L \in Int
    BY <1>1, <1>3 DEF Rightful, Bounded, Numbers
  <2> HIDE DEF L
  <2>3. Within(kv'.req_to_blocks[r], L)
    BY <1>4, <1>5, <2>2 DEF Allots
  <2>4. Bounded(r)'
    BY <2>1, <2>2, <2>3, <1>2 DEF Bounded, SameNumbers, L
  <2>5. MayHold(r)'
    BY <2>1, <1>3, <1>5 DEF MayHold, IsLoading, Pending
  <2> QED BY <2>4, <2>5, <1>3 DEF Allowed
<1>10. Rightful'
  BY <1>1, <1>8, <1>9, RightfulRest
<1> QED BY <1>6, <1>7, <1>10 DEF Sound

(* The loop over the waiting requests ends; an attempt that failed leaves  *)
(* the request as many blocks as it had.                                   *)
LEMMA EndWaitingSound ==
    ASSUME BlockInv, Calm, NEW o, EndWaiting(o)
    PROVE  Sound'
<1>0. PICK r, a : r = waiting[1] /\ a = WaitingArgs(r, o)
  OBVIOUS
<1>1. /\ Numbers /\ Rightful /\ KVInv(kv) /\ QueueInv
      /\ status \in [Reqs -> Statuses]
  BY DEF BlockInv, QueueInv, Match
<1>2. /\ kv' = IF AsksForSlots(o) THEN allocate_slots(kv, r, a) ELSE kv
      /\ AsksForSlots(o) => Considers(o) /\ ~SlotsFit(kv, r, a)
      /\ SameNumbers /\ UNCHANGED <<status, token_budget, sending>>
  BY <1>0 DEF EndWaiting, CanAdmit, AsksForSlots, Considers, SameNumbers, requests, history, remote
<1>3. CASE ~AsksForSlots(o)
  <2>1. UNCHANGED kv /\ token_budget' \in Int
    BY <1>1, <1>2, <1>3 DEF Numbers
  <2> QED BY <2>1, <1>2, QuietStep
<1>4. CASE AsksForSlots(o)
  <2>1. Considers(o) /\ ~SlotsFit(kv, r, a) /\ kv' = allocate_slots(kv, r, a)
    BY <1>2, <1>4
  <2>2. r \in Reqs /\ ArgsOK(kv, r, a)
    <3>1. r \in Reqs /\ AsksWithin(r, o, a)
      BY <1>0, <1>1, <2>1, WaitingArgsFacts
    <3> QED BY <3>1 DEF AsksWithin
  <2>3. Allots(kv, kv', r, a) /\ Len(kv'.req_to_blocks[r]) = Len(kv.req_to_blocks[r])
    BY <1>1, <2>1, <2>2, AllocateSlotsFrame
  <2>4. KVInv(kv')
    BY <1>1, <2>1, <2>2, AllocateSlotsKeeps
  <2>5. /\ OthersSame(kv, kv', r)
        /\ kv.num_cached_block[r] # Untracked => kv'.num_cached_block[r] # Untracked
    BY <2>3 DEF Allots
  <2>6. kv'.req_to_blocks[r] # <<>> => kv.req_to_blocks[r] # <<>>
    <3>1. kv'.req_to_blocks[r] \in Seq(Blocks) /\ kv.req_to_blocks[r] \in Seq(Blocks)
      BY <1>1, <2>2, <2>4, InOrder
    <3> QED BY <3>1, <2>3, EmptySeq
  <2>7. Numbers'
    BY <1>1, <1>2 DEF Numbers, SameNumbers
  <2>8. Others({r})
    BY <1>2, <2>5 DEF Others, OthersSame, SameNumbers
  <2>9. Allowed(r)
    <3>1. Bounded(r) /\ MayHold(r) /\ (~HasConnector => ~IsLoading(r))
      BY <1>1, <2>2 DEF Rightful
    <3>2. Bounded(r)'
      BY <3>1, <1>2, <2>3 DEF Bounded, Within, SameNumbers
    <3>3. MayHold(r)'
      <4>1. status[r] \in Pending /\ Quiet(r) => Quiet(r)'
        BY <2>2 DEF Calm, Pending
      <4> QED BY <3>1, <4>1, <1>2, <2>5, <2>6 DEF MayHold, SameNumbers, IsLoading
    <3> QED BY <3>1, <3>2, <3>3, <1>2 DEF Allowed, IsLoading
  <2>10. Rightful'
    BY <1>1, <2>8, <2>9, RightfulRest
  <2> QED BY <2>4, <2>7, <2>10 DEF Sound
<1> QED BY <1>3, <1>4

(* The end of schedule(): what is scheduled counts as computed.            *)
LEMMA FinishScheduleSound ==
    ASSUME BlockInv, Calm, NEW bad, FinishSchedule(bad)
    PROVE  Sound'
<1> DEFINE more(r) == IF ExpectsToken(r) THEN 1 ELSE 0
<1>1. /\ Numbers /\ Rightful /\ KVInv(kv) /\ Picked /\ IsSeq(scheduled)
  BY DEF BlockInv, QueueInv, Loop
<1>2. /\ num_computed_tokens' = [r \in Reqs |-> num_computed_tokens[r] + ScheduledTokens(r)]
      /\ num_output_placeholders' = [r \in Reqs |-> num_output_placeholders[r] + more(r)]
      /\ token_budget' = 0
      /\ UNCHANGED <<status, tokens, num_cached_tokens, kv, sending>>
  BY DEF FinishSchedule, _update_after_schedule, history
<1>3. \A r \in Reqs : more(r) \in Nat
  OBVIOUS
<1> HIDE DEF more
<1>4. ASSUME NEW r \in Reqs
      PROVE  /\ num_computed_tokens[r] \in Int /\ num_output_placeholders[r] \in Nat
             /\ Len(tokens[r]) \in Nat /\ num_cached_tokens[r] \in Int
             /\ ScheduledTokens(r) \in Int
             /\ status[r] # "RUNNING" => ScheduledTokens(r) = 0
             /\ \/ ScheduledTokens(r) = 0
                \/ num_computed_tokens[r] + ScheduledTokens(r)
                       <= Len(tokens[r]) + num_output_placeholders[r]
  <2>1. /\ num_computed_tokens[r] \in Int /\ num_output_placeholders[r] \in Nat
        /\ Len(tokens[r]) \in Nat /\ num_cached_tokens[r] \in Int
    BY <1>1 DEF Numbers
  <2> QED BY <2>1, <1>1, ScheduledFacts
<1>5. Numbers'
  <2>1. num_computed_tokens' \in [Reqs -> Int]
    BY <1>2, <1>4
  <2>2. num_output_placeholders' \in [Reqs -> Nat]
    <3>1. \A r \in Reqs : num_output_placeholders[r] + more(r) \in Nat
      BY <1>3, <1>4
    <3> QED BY <3>1, <1>2
  <2> QED BY <2>1, <2>2, <1>1, <1>2 DEF Numbers
<1>6. Others(Reqs)
  BY DEF Others
<1>7. ASSUME NEW r \in Reqs PROVE Allowed(r)
  <2>1. Bounded(r) /\ MayHold(r) /\ (~HasConnector => ~IsLoading(r))
    BY <1>1 DEF Rightful
  <2>2. /\ num_computed_tokens'[r] = num_computed_tokens[r] + ScheduledTokens(r)
        /\ num_output_placeholders'[r] = num_output_placeholders[r] + more(r)
    BY <1>2
  <2>3. status[r] # "RUNNING" => num_computed_tokens'[r] = num_computed_tokens[r]
    BY <1>4, <2>2
  <2>4. status[r] = "RUNNING" =>
           num_computed_tokens'[r] <= Len(tokens[r]) + num_output_placeholders'[r]
    <3> SUFFICES ASSUME status[r] = "RUNNING"
                 PROVE  num_computed_tokens'[r] <= Len(tokens[r]) + num_output_placeholders'[r]
      OBVIOUS
    <3>1. num_computed_tokens[r] <= Len(tokens[r]) + num_output_placeholders[r]
      BY <2>1 DEF Bounded
    <3> DEFINE x == num_computed_tokens[r]
               y == Len(tokens[r])
               z == num_output_placeholders[r]
               s == ScheduledTokens(r)
               m == more(r)
    <3>2. /\ x \in Int /\ y \in Nat /\ z \in Nat /\ s \in Int /\ m \in Nat
          /\ x <= y + z /\ (s = 0 \/ x + s <= y + z)
      BY <3>1, <1>3, <1>4
    <3> HIDE DEF x, y, z, s, m
    <3>3. x + s <= y + (z + m)
      BY <3>2
    <3> QED BY <3>3, <2>2 DEF x, y, z, s, m
  <2>5. Bounded(r)'
    BY <2>1, <2>3, <2>4, <1>2 DEF Bounded, Pending, Within
  <2>6. MayHold(r)'
    <3>1. status[r] \in Pending /\ Quiet(r) => Quiet(r)'
      BY DEF Calm, Pending
    <3> QED BY <2>1, <2>3, <3>1, <1>2 DEF MayHold, IsLoading, Pending
  <2> QED BY <2>1, <2>5, <2>6, <1>2 DEF Allowed, IsLoading
<1>8. Rightful'
  BY <1>1, <1>6, <1>7, RightfulRest
<1> QED BY <1>1, <1>2, <1>5, <1>8 DEF Sound

(* The start of update_from_output: only requests that run, or whose load  *)
(* is in progress, fall back.                                              *)
LEMMA UpdateFallsBack ==
    ASSUME BlockInv, BeginUpdate
    PROVE  /\ num_computed_tokens' \in [Reqs -> Int] /\ KVInv(kv')
           /\ kv'.req_to_blocks = kv.req_to_blocks /\ kv'.num_cached_block = kv.num_cached_block
           /\ UNCHANGED <<status, tokens, num_output_placeholders, num_cached_tokens, token_budget, sending>>
           /\ \A r \in Reqs : \/ num_computed_tokens'[r] = num_computed_tokens[r]
                             \/ /\ num_computed_tokens'[r] < Len(tokens[r])
                                /\ IsLoading(r) \/ status[r] = "RUNNING"
<1> DEFINE wl == Only(waiting, {r \in Reqs : IsLoading(r)})
           x == AllAffected(num_computed_tokens, wl)
           y == AllAffected(x.computed, running)
<1>1. /\ Numbers /\ Rightful /\ KVInv(kv) /\ Queue(waiting) /\ Queue(running)
      /\ Elements(running) = {r \in Reqs : status[r] = "RUNNING"}
      /\ status \in [Reqs -> Statuses]
  BY DEF BlockInv, QueueInv, Match
<1>2. /\ num_computed_tokens' = y.computed
      /\ kv' = [kv EXCEPT !.pool = evict_blocks(@, y.evict)] \/ kv' = kv
      /\ UNCHANGED <<status, tokens, num_output_placeholders, num_cached_tokens, token_budget, sending>>
  BY DEF BeginUpdate, history, locals
<1>3. wl \in Seq(Reqs) /\ Elements(wl) = Elements(waiting) \cap {r \in Reqs : IsLoading(r)}
  <2>1. Queue(wl) /\ Elements(wl) = Elements(waiting) \cap {r \in Reqs : IsLoading(r)}
    BY <1>1, QueueOnly
  <2> QED BY <2>1 DEF Queue
<1>4. \A q \in Reqs : CanFallBack(q)
  <2> SUFFICES ASSUME NEW q \in Reqs PROVE CanFallBack(q)
    OBVIOUS
  <2>1. Bounded(q)
    BY <1>1 DEF Rightful
  <2> QED BY <2>1 DEF Bounded, CanFallBack, IsLoading, Pending
<1>5. num_computed_tokens \in [Reqs -> Int] /\ running \in Seq(Reqs) /\ Elements(running) \subseteq Reqs
  BY <1>1 DEF Numbers, Queue
<1> HIDE DEF wl
<1>6. x \in Effects /\ FallBack(num_computed_tokens, x.computed, Elements(wl))
  BY <1>1, <1>3, <1>4, <1>5, AllAffectedFacts
<1> HIDE DEF x
<1>7. y \in Effects /\ FallBack(x.computed, y.computed, Elements(running))
  <2> DEFINE c == x.computed
  <2>1. c \in [Reqs -> Int]
    BY <1>6 DEF Effects
  <2> HIDE DEF c
  <2>2. AllAffected(c, running) \in Effects /\ FallBack(c, AllAffected(c, running).computed, Elements(running))
    BY <2>1, <1>1, <1>4, <1>5, AllAffectedFacts
  <2> QED BY <2>2 DEF c
<1> HIDE DEF y
<1>8. y.computed \in [Reqs -> Int] /\ y.evict \in SUBSET Blocks
  BY <1>7 DEF Effects
<1>9. KVInv(kv')
  BY <1>1, <1>2, <1>8, EvictManager
<1>10. kv'.req_to_blocks = kv.req_to_blocks /\ kv'.num_cached_block = kv.num_cached_block
  <2>1. kv \in Managers
    BY <1>1, InOrder
  <2> QED BY <2>1, <1>2 DEF Managers
<1>11. ASSUME NEW r \in Reqs
       PROVE  \/ num_computed_tokens'[r] = num_computed_tokens[r]
              \/ /\ num_computed_tokens'[r] < Len(tokens[r])
                 /\ IsLoading(r) \/ status[r] = "RUNNING"
  BY <1>1, <1>2, <1>3, <1>6, <1>7, <1>11 DEF FallBack
<1> QED BY <1>2, <1>8, <1>9, <1>10, <1>11

(* They stay bounded, and their blocks where they are.                     *)
LEMMA BeginUpdateSound ==
    ASSUME BlockInv, Calm, BeginUpdate
    PROVE  Sound'
<1>1. Numbers /\ Rightful
  BY DEF BlockInv
<1>2. /\ num_computed_tokens' \in [Reqs -> Int] /\ KVInv(kv')
      /\ kv'.req_to_blocks = kv.req_to_blocks /\ kv'.num_cached_block = kv.num_cached_block
      /\ UNCHANGED <<status, tokens, num_output_placeholders, num_cached_tokens, token_budget, sending>>
  BY UpdateFallsBack
<1>3. Numbers'
  BY <1>1, <1>2 DEF Numbers
<1>4. Others(Reqs)
  BY DEF Others
<1>5. ASSUME NEW r \in Reqs PROVE Allowed(r)
  <2>1. Bounded(r) /\ MayHold(r) /\ (~HasConnector => ~IsLoading(r))
    BY <1>1 DEF Rightful
  <2>2. \/ num_computed_tokens'[r] = num_computed_tokens[r]
        \/ /\ num_computed_tokens'[r] < Len(tokens[r])
           /\ IsLoading(r) \/ status[r] = "RUNNING"
    BY UpdateFallsBack
  <2>3. Len(tokens[r]) \in Nat /\ num_output_placeholders[r] \in Nat /\ num_computed_tokens'[r] \in Int
    BY <1>1, <1>2 DEF Numbers
  <2>4. Bounded(r)'
    <3>1. status[r] = "RUNNING" =>
             num_computed_tokens'[r] <= Len(tokens[r]) + num_output_placeholders[r]
      BY <2>1, <2>2, <2>3 DEF Bounded, IsLoading
    <3>2. status[r] \in Pending \cup {"NEW"} =>
             num_computed_tokens'[r] < Len(tokens[r]) /\ Within(kv.req_to_blocks[r], Len(tokens[r]))
      BY <2>1, <2>2 DEF Bounded
    <3>3. num_cached_tokens[r] < Len(tokens[r])
      BY <2>1 DEF Bounded
    <3> QED BY <3>1, <3>2, <3>3, <1>2 DEF Bounded, Within
  <2>5. MayHold(r)'
    <3>1. CASE IsLoading(r) \/ status[r] = "RUNNING"
      BY <3>1, <2>1, <1>2 DEF MayHold, IsLoading, Pending, Finished
    <3>2. CASE ~(IsLoading(r) \/ status[r] = "RUNNING")
      <4>1. Quiet(r) => Quiet(r)'
        BY <3>2 DEF Calm
      <4> QED BY <3>2, <4>1, <2>1, <2>2, <1>2 DEF MayHold, IsLoading
    <3> QED BY <3>1, <3>2
  <2> QED BY <2>1, <2>4, <2>5, <1>2 DEF Allowed, IsLoading
<1>6. Rightful'
  BY <1>1, <1>4, <1>5, RightfulRest
<1> QED BY <1>2, <1>3, <1>6 DEF Sound

(* A request was sent: it has no blocks any more.                          *)
LEMMA FreeSentSound ==
    ASSUME BlockInv, Calm, NEW r \in Reqs, FreeSent(r)
    PROVE  Sound'
<1>1. /\ Numbers /\ Rightful /\ KVInv(kv)
  BY DEF BlockInv
<1>2. /\ kv' = free(kv, r) /\ sending' = sending \ {r}
      /\ SameNumbers /\ UNCHANGED <<status, token_budget>>
  BY DEF FreeSent, SameNumbers, requests, history, locals
<1>3. KVInv(kv') /\ OthersSame(kv, kv', r) /\ kv'.req_to_blocks[r] = <<>>
  BY <1>1, <1>2, FreeKeeps, FreeFrame
<1>4. Numbers'
  BY <1>1, <1>2 DEF Numbers, SameNumbers
<1>5. Others({r})
  BY <1>2, <1>3 DEF Others, OthersSame, SameNumbers
<1>6. Allowed(r)
  <2>1. Bounded(r) /\ (~HasConnector => ~IsLoading(r))
    BY <1>1 DEF Rightful
  <2>2. Bounded(r)'
    BY <2>1, <1>2, <1>3 DEF Bounded, Within, SameNumbers
  <2>3. MayHold(r)'
    BY <1>3 DEF MayHold
  <2> QED BY <2>1, <2>2, <2>3, <1>2 DEF Allowed, IsLoading
<1>7. Rightful'
  BY <1>1, <1>5, <1>6, RightfulRest
<1> QED BY <1>3, <1>4, <1>7 DEF Sound

(* A token for a request that goes on or is done with it.                  *)
LEMMA AcceptSound ==
    ASSUME BlockInv, Calm, NEW eos \in BOOLEAN, AcceptOutput(eos)
    PROVE  Sound'
<1>0. PICK r, text, p, stop, k :
         /\ r = output[1].req /\ text = Append(tokens[r], output[1].token)
         /\ p = num_output_placeholders[r] - (IF Async THEN 1 ELSE 0)
         /\ stop = StopStatus(r, Len(text), eos)
         /\ k = CacheAfterToken(r, text, p)
  OBVIOUS
<1>1. /\ Numbers /\ Rightful /\ KVInv(kv) /\ IsSeq(output) /\ (pc = "output" => output # <<>>)
      /\ status \in [Reqs -> Statuses] /\ BringsTokens(output)
      /\ \A i \in 1..Len(output) : output[i].req \in Arrivals
  BY DEF BlockInv, QueueInv, Match, BatchInv, Named, TokenInv
<1>2. /\ pc = "output" /\ p >= 0 /\ tokens' = [tokens EXCEPT ![r] = text]
      /\ num_output_placeholders' = [num_output_placeholders EXCEPT ![r] = p]
      /\ IF stop # "NONE"
         THEN status' = [status EXCEPT ![r] = stop] /\ _free_request(k, r, Len(text))
         ELSE kv' = k /\ UNCHANGED <<status, sending>>
      /\ UNCHANGED <<num_computed_tokens, num_cached_tokens, token_budget>>
  BY <1>0 DEF AcceptOutput, history, locals
<1>3. 1 \in 1..Len(output)
  <2>1. Len(output) \in Nat /\ Len(output) >= 1
    BY <1>1, <1>2, TailIsSeq
  <2> QED BY <2>1
<1>4. r \in Reqs /\ status[r] # "NEW" /\ output[1].token \in Nat /\ ~Quiet(r)
  BY <1>0, <1>1, <1>2, <1>3 DEF Arrivals, BringsTokens, Quiet, InFlight, About
<1> DEFINE L == Len(tokens[r])
           c == num_computed_tokens[r]
           h == num_output_placeholders[r]
<1>5. /\ tokens[r] \in Seq(Nat) /\ L \in Nat /\ L >= 1 /\ c \in Int /\ h \in Nat
  BY <1>1, <1>4 DEF Numbers
<1>6. text \in Seq(Nat) /\ Len(text) = L + 1
  BY <1>0, <1>4, <1>5
<1>7. p \in Nat /\ h <= p + 1 /\ (~Async => p = h) /\ (Async => h = p + 1)
  <2>1. p = IF Async THEN h - 1 ELSE h
    BY <1>0, <1>5, SchedulerAssumption
  <2> QED BY <2>1, <1>2, <1>5
<1> HIDE DEF L, c, h
<1>8. Bounded(r) /\ MayHold(r) /\ (~HasConnector => ~IsLoading(r))
  BY <1>1, <1>4 DEF Rightful
<1>9. /\ KVInv(k) /\ OthersSame(kv, k, r) /\ k.req_to_blocks = kv.req_to_blocks
      /\ status[r] # "RUNNING" => k = kv
  <2>1. CASE Async /\ status[r] = "RUNNING"
    <3> DEFINE n == c - p
    <3>1. k = cache_blocks(kv, r, text, n)
      BY <2>1, <1>0 DEF CacheAfterToken, c
    <3>2. c <= L + h
      BY <2>1, <1>8 DEF Bounded, L, c, h
    <3>3. n \in Int /\ n <= Len(text)
      <4>1. L \in Nat /\ c \in Int /\ h \in Nat /\ p \in Nat /\ h <= p + 1
        BY <1>5, <1>7
      <4>2. n \in Int /\ n <= L + 1
        BY <3>2, <4>1
      <4> QED BY <4>2, <1>6
    <3> HIDE DEF n
    <3>4. KVInv(k)
      BY <3>1, <3>3, <1>1, <1>4, <1>6, CacheBlocksKeeps
    <3>5. OthersSame(kv, k, r) /\ k.req_to_blocks = kv.req_to_blocks
      BY <3>1, <3>3, <1>1, <1>4, CacheBlocksFrame
    <3> QED BY <2>1, <3>4, <3>5
  <2>2. CASE ~(Async /\ status[r] = "RUNNING")
    <3>1. k = kv
      BY <2>2, <1>0 DEF CacheAfterToken
    <3> QED BY <3>1, <1>1 DEF OthersSame
  <2> QED BY <2>1, <2>2
<1>10. Numbers'
  <2>1. tokens' \in [Reqs -> Seq(Nat)] /\ \A q \in Reqs : Len(tokens'[q]) >= 1
    <3>1. Len(text) >= 1
      BY <1>5, <1>6 DEF L
    <3> QED BY <3>1, <1>1, <1>2, <1>4, <1>6 DEF Numbers
  <2>2. num_output_placeholders' \in [Reqs -> Nat]
    BY <1>1, <1>2, <1>7 DEF Numbers
  <2> QED BY <2>1, <2>2, <1>1, <1>2 DEF Numbers
<1>11. tokens'[r] = text /\ num_output_placeholders'[r] = p
  BY <1>1, <1>2, <1>4 DEF Numbers
<1>12. num_cached_tokens'[r] < Len(tokens'[r])
  <2>1. num_cached_tokens[r] < L /\ num_cached_tokens[r] \in Int
    BY <1>1, <1>4, <1>8 DEF Bounded, L, Numbers
  <2> QED BY <2>1, <1>2, <1>5, <1>6, <1>11 DEF L
<1>13. CASE stop # "NONE"
  <2>1. stop \in Finished
    BY <1>0, <1>13 DEF StopStatus, Finished
  <2>2. Len(text) \in Int /\ _free_request(k, r, Len(text)) /\ status' = [status EXCEPT ![r] = stop]
    BY <1>2, <1>6, <1>13
  <2>3. /\ KVInv(kv') /\ OthersSame(k, kv', r)
        /\ kv'.req_to_blocks[r] = <<>> \/ r \in sending'
        /\ \A q : q \in sending => q \in sending'
    BY <1>4, <1>9, <2>2, FreeRequestFacts
  <2>4. OthersSame(kv, kv', r)
    BY <1>9, <2>3, OthersSameTwice
  <2>5. Others({r})
    BY <1>1, <1>2, <2>2, <2>3, <2>4 DEF Others, OthersSame, Numbers
  <2>6. Allowed(r)
    <3>1. status'[r] \in Finished
      BY <1>1, <1>4, <2>1, <2>2
    <3> QED BY <3>1, <2>3, <1>12, FinishedAllowed
  <2>7. Rightful'
    BY <1>1, <2>5, <2>6, RightfulRest
  <2> QED BY <2>3, <2>7, <1>10 DEF Sound
<1>14. CASE stop = "NONE"
  <2>1. kv' = k /\ UNCHANGED <<status, sending>>
    BY <1>2, <1>14
  <2>2. Others({r})
    BY <1>1, <1>2, <1>9, <2>1 DEF Others, OthersSame, Numbers
  <2>3. Allowed(r)
    <3>1. status[r] = "RUNNING" => num_computed_tokens'[r] <= Len(tokens'[r]) + num_output_placeholders'[r]
      <4> SUFFICES ASSUME status[r] = "RUNNING"
                   PROVE  num_computed_tokens'[r] <= Len(tokens'[r]) + num_output_placeholders'[r]
        OBVIOUS
      <4>1. c <= L + h
        BY <1>8 DEF Bounded, L, c, h
      <4>2. c <= (L + 1) + p
        BY <4>1, <1>5, <1>7 DEF L, c, h
      <4> QED BY <4>2, <1>2, <1>6, <1>11 DEF c
    <3>2. status[r] \in Pending =>
             num_computed_tokens'[r] < Len(tokens'[r]) /\ Within(kv'.req_to_blocks[r], Len(tokens'[r]))
      <4> SUFFICES ASSUME status[r] \in Pending
                   PROVE  num_computed_tokens'[r] < Len(tokens'[r]) /\ Within(kv'.req_to_blocks[r], Len(tokens'[r]))
        OBVIOUS
      <4>1. c < L /\ Within(kv.req_to_blocks[r], L)
        BY <1>8 DEF Bounded, L, c
      <4>2. num_computed_tokens'[r] < Len(tokens'[r])
        BY <4>1, <1>2, <1>5, <1>6, <1>11 DEF c, L
      <4>3. Within(kv.req_to_blocks[r], L + 1)
        <5> DEFINE l == Len(kv.req_to_blocks[r])
                   i == (l - 1) * BlockSize
        <5>1. l \in Nat /\ BlockSize \in Nat
          BY <1>1, <1>4, InOrder, KVCacheManagerAssumption
        <5>2. i \in Int /\ L \in Nat /\ (l = 0 \/ i < L)
          BY <5>1, <4>1, <1>5 DEF Within
        <5> HIDE DEF i, l
        <5>3. l = 0 \/ i < L + 1
          BY <5>2
        <5> QED BY <5>3 DEF Within, i, l
      <4>4. kv'.req_to_blocks[r] = kv.req_to_blocks[r] /\ Len(tokens'[r]) = L + 1
        BY <1>6, <1>9, <1>11, <2>1
      <4> QED BY <4>2, <4>3, <4>4
    <3>3. Bounded(r)'
      BY <3>1, <3>2, <1>4, <1>12, <2>1 DEF Bounded
    <3>4. MayHold(r)'
      <4>1. status[r] \in Pending => kv.req_to_blocks[r] = <<>> \/ (IsLoading(r) /\ HasConnector /\ kv.num_cached_block[r] # Untracked)
        BY <1>4, <1>8 DEF MayHold, Pending, Finished
      <4>2. status[r] \in Pending => kv' = kv
        BY <1>9, <2>1 DEF Pending
      <4>3. CASE status[r] \in Pending
        BY <4>1, <4>2, <4>3, <2>1 DEF MayHold, IsLoading
      <4>4. CASE status[r] \notin Pending
        BY <4>4, <1>8, <1>9, <2>1 DEF MayHold
      <4> QED BY <4>3, <4>4
    <3> QED BY <3>3, <3>4, <1>8, <2>1 DEF Allowed, IsLoading
  <2>4. Rightful'
    BY <1>1, <2>2, <2>3, RightfulRest
  <2> QED BY <2>1, <2>4, <1>9, <1>10 DEF Sound
<1> QED BY <1>13, <1>14

(* Every step keeps the requests and the blocks in order.                  *)
LEMMA NextSound == BlockInv /\ [Next]_vars => Sound'
<1> SUFFICES ASSUME BlockInv, [Next]_vars PROVE Sound'
  OBVIOUS
<1>1. token_budget \in Int /\ MaxNumScheduledTokens \in Int /\ Calm
  BY NextCalm, SchedulerAssumption DEF BlockInv, Numbers
<1>2. CASE BeginSchedule \/ SkipRunning \/ PickRunning \/ EndRunning \/ SkipWaiting \/ AwaitLast
  <2>1. SameNumbers /\ UNCHANGED <<status, kv, sending>> /\ token_budget' \in Int
    BY <1>1, <1>2 DEF BeginSchedule, SkipRunning, PickRunning, EndRunning, SkipWaiting, AwaitLast,
                      SameNumbers, requests, history, locals, remote
  <2> QED BY <2>1, <1>1, QuietStep
<1>3. CASE SkipOutput \/ DiscardOutput \/ EndUpdate \/ UNCHANGED vars
  <2>1. SameNumbers /\ UNCHANGED <<status, kv, sending>> /\ token_budget' \in Int
    BY <1>1, <1>3 DEF SkipOutput, DiscardOutput, EndUpdate, vars,
                      SameNumbers, requests, history, locals, remote
  <2> QED BY <2>1, <1>1, QuietStep
<1>4. CASE Connector
  <2>1. SameNumbers /\ UNCHANGED <<status, kv, sending>> /\ token_budget' \in Int
    BY <1>1, <1>4 DEF Connector, LookupDone, LoadFails, LoadDone, SendDone,
                      SameNumbers, requests, history, locals
  <2> QED BY <2>1, <1>1, QuietStep
<1>5. ASSUME NEW r \in Reqs, FailRequest(r) PROVE Sound'
  BY <1>1, <1>5, LeaveSound DEF FailRequest, Finished, SameNumbers, history, locals
<1> QED BY <1>1, <1>2, <1>3, <1>4, <1>5, ClientSound, ScheduleRunningSound, PreemptSound, LoadedSound,
           ScheduleWaitingSound, LoadWaitingSound, EndWaitingSound, FinishScheduleSound,
           BeginUpdateSound, AcceptSound, FreeSentSound
        DEF Next, Engine

-----------------------------------------------------------------------------
(* What schedule() has picked. *)

(* What fits goes on fitting while its request is left alone.              *)
LEMMA StillFits ==
    ASSUME NEW x, Fits(x), status'[x.req] = status[x.req], tokens'[x.req] = tokens[x.req],
           num_computed_tokens'[x.req] = num_computed_tokens[x.req],
           num_output_placeholders'[x.req] = num_output_placeholders[x.req]
    PROVE  Fits(x)'
  BY DEF Fits

(* Outside of schedule() nothing is picked.                                *)
LEMMA NothingPicked ==
    ASSUME scheduled' = <<>>, pc' # "alloc"
    PROVE  Picked'
<1>1. Len(scheduled') = 0
  OBVIOUS
<1>2. \A i \in 1..Len(scheduled') : FALSE
  BY <1>1
<1> QED BY <1>2 DEF Picked

(* A running request is considered.                                        *)
LEMMA PickRunningPicked ==
    ASSUME BlockInv, PickRunning
    PROVE  Picked'
<1> DEFINE r == running[req_index]
           n == NumNewTokens(r)
           m == Len(tokens[r]) + num_output_placeholders[r] - num_computed_tokens[r]
<1>1. /\ Picked /\ Numbers /\ Queue(running) /\ IsSeq(scheduled) /\ req_index \in Int
      /\ Elements(running) = {q \in Reqs : status[q] = "RUNNING"}
      /\ pc = "running" => Len(scheduled) < req_index
  BY DEF BlockInv, QueueInv, Match, Loop
<1>2. /\ pc = "running" /\ req_index <= Len(running) /\ current' = [req |-> r, n |-> n, external |-> 0]
      /\ UNCHANGED <<requests, running, req_index, scheduled>>
  BY DEF PickRunning, InRunningLoop, queues
<1>3. req_index \in 1..Len(running) /\ r \in Reqs /\ status[r] = "RUNNING"
  <2>1. Len(scheduled) \in Nat /\ Len(running) \in Nat
    BY <1>1, QueueElements DEF IsSeq
  <2>2. req_index \in 1..Len(running)
    BY <2>1, <1>1, <1>2
  <2>3. r \in Elements(running)
    BY <2>2 DEF Elements
  <2> QED BY <2>2, <2>3, <1>1
<1>4. m \in Int /\ token_budget \in Int /\ num_computed_tokens[r] \in Int /\ MaxModelLen \in Int
      /\ Len(tokens[r]) \in Nat /\ num_output_placeholders[r] \in Nat
  BY <1>1, <1>3, KVCacheManagerAssumption DEF Numbers
<1>5. n \in Int /\ n <= m
  <2>1. Capped(m) \in Int /\ Capped(m) <= m
    BY <1>4, CappedFacts
  <2>2. n = MinOf(MinOf(Capped(m), token_budget), MaxModelLen - 1 - num_computed_tokens[r])
    BY DEF NumNewTokens
  <2> HIDE DEF m, n
  <2> DEFINE e == Capped(m)
             f == MaxModelLen - 1 - num_computed_tokens[r]
  <2>3. e \in Int /\ f \in Int /\ e <= m /\ n = MinOf(MinOf(e, token_budget), f)
    BY <2>1, <2>2, <1>4
  <2> HIDE DEF e, f
  <2> QED BY <2>3, <1>4 DEF MinOf
<1>6. num_computed_tokens[r] + n <= Len(tokens[r]) + num_output_placeholders[r]
  <2>1. m = Len(tokens[r]) + num_output_placeholders[r] - num_computed_tokens[r]
    OBVIOUS
  <2> HIDE DEF n, m, r
  <2> QED BY <2>1, <1>4, <1>5
<1> HIDE DEF n, m
<1>7. current'.req = r /\ current'.n = n
  BY <1>2
<1> HIDE DEF r
<1>8. Fits(current)'
  BY <1>2, <1>3, <1>5, <1>6, <1>7 DEF Fits, requests
<1>9. ASSUME NEW i \in 1..Len(scheduled) PROVE Fits(scheduled[i])'
  BY <1>1, <1>2, <1>9 DEF Picked, Fits, requests
<1>10. ASSUME Policy = "fcfs", NEW i \in 1..Len(scheduled) PROVE Passed(scheduled[i].req)'
  BY <1>1, <1>2, <1>10 DEF Picked, Passed
<1> QED BY <1>2, <1>3, <1>7, <1>8, <1>9, <1>10 DEF Picked, r

(* The running request gets its slots.                                     *)
LEMMA ScheduleRunningPicked ==
    ASSUME BlockInv, ScheduleRunning
    PROVE  Picked'
<1>1. /\ Picked /\ Queue(running) /\ IsSeq(scheduled) /\ req_index \in Int
  BY DEF BlockInv, QueueInv, Match, Loop
<1>2. /\ pc = "alloc" /\ scheduled' = Append(scheduled, current) /\ req_index' = req_index + 1
      /\ UNCHANGED <<requests, running>> /\ pc' = "running"
  BY DEF ScheduleRunning, queues
<1>3. Fits(current) /\ \A i \in 1..Len(scheduled) : Fits(scheduled[i])
  BY <1>1, <1>2 DEF Picked
<1>4. ASSUME NEW i \in 1..Len(scheduled')
      PROVE  Fits(scheduled[i])' /\ (Policy = "fcfs" => Passed(scheduled[i].req)')
  <2>1. PICK x : x = scheduled'[i]
    OBVIOUS
  <2>2. (i \in 1..Len(scheduled) /\ x = scheduled[i]) \/ x = current
    BY <1>1, <1>2, <1>4, <2>1, AppendCases
  <2>3. Fits(x)
    BY <1>3, <2>2
  <2>4. Fits(x)'
    BY <2>3, <1>2 DEF Fits, requests
  <2>5. ASSUME Policy = "fcfs" PROVE Passed(x.req)'
    <3>1. \E j \in 1..Len(running) : j <= req_index /\ running[j] = x.req
      BY <1>1, <1>2, <2>2, <2>5 DEF Picked, Passed
    <3>2. PICK j \in 1..Len(running) : j <= req_index /\ running[j] = x.req
      BY <3>1
    <3>3. j < req_index' /\ j \in 1..Len(running')
      BY <1>1, <1>2, <3>2
    <3> QED BY <1>2, <3>2, <3>3 DEF Passed
  <2> QED BY <2>1, <2>4, <2>5 DEF Fits, Passed
<1> QED BY <1>2, <1>4 DEF Picked

(* What is scheduled when the victim is preempted is not the victim.       *)
LEMMA PreemptLeaves ==
    ASSUME BlockInv, Preempt, NEW v, v = Victim, NEW i \in 1..Len(scheduled'), NEW x, x = scheduled'[i]
    PROVE  x \in Elements(scheduled) /\ x.req # v
<1> DEFINE n == Len(running)
<1>1. Picked /\ Queue(running) /\ IsSeq(scheduled) /\ pc = "alloc"
  BY DEF BlockInv, QueueInv, Match, Loop, Preempt
<1>2. scheduled' = IF Undo(v) THEN Only(scheduled, {y \in Elements(scheduled) : y.req # v}) ELSE scheduled
  BY DEF Preempt
<1>3. CASE Policy = "fcfs"
  <2>1. v = running[n] /\ scheduled' = scheduled
    BY <1>2, <1>3 DEF Victim, Undo
  <2>2. i \in 1..Len(scheduled) /\ x = scheduled[i]
    BY <2>1
  <2>3. PICK j \in 1..n : j < req_index /\ running[j] = x.req
    BY <1>1, <1>3, <2>2 DEF Picked, Passed
  <2>4. req_index \in 1..n /\ n \in Nat /\ Distinct(running)
    BY <1>1, <1>3, QueueElements DEF Picked, Queue
  <2>5. j < n /\ n \in 1..n
    BY <2>3, <2>4
  <2>6. running[j] # running[n]
    BY <2>3, <2>4, <2>5 DEF Distinct
  <2> QED BY <2>1, <2>2, <2>3, <2>6 DEF Elements
<1>4. CASE Undo(v)
  <2> DEFINE S == {y \in Elements(scheduled) : y.req # v}
  <2>1. scheduled' = Only(scheduled, S)
    BY <1>2, <1>4
  <2>2. Elements(scheduled') = Elements(scheduled) \cap S
    <3> HIDE DEF S
    <3> QED BY <2>1, <1>1, OnlyIsSeq
  <2>3. x \in Elements(scheduled')
    BY DEF Elements
  <2> QED BY <2>2, <2>3
<1>5. CASE Policy # "fcfs" /\ ~Undo(v)
  <2>1. scheduled' = scheduled /\ ~IsScheduled(v)
    BY <1>2, <1>5, SchedulerAssumption DEF Undo
  <2>2. DOMAIN scheduled = 1..Len(scheduled) /\ i \in 1..Len(scheduled) /\ x = scheduled[i]
    BY <1>1, <2>1 DEF IsSeq
  <2> QED BY <2>1, <2>2 DEF IsScheduled, Elements
<1> QED BY <1>3, <1>4, <1>5

(* The rest of what schedule() has picked goes on fitting.                 *)
LEMMA PreemptPicked ==
    ASSUME BlockInv, Preempt
    PROVE  Picked'
<1>0. PICK r, v : r = current.req /\ v = Victim
  OBVIOUS
<1>1. /\ Picked /\ Numbers /\ Queue(running) /\ IsSeq(scheduled) /\ req_index \in Int
      /\ status \in [Reqs -> Statuses]
      /\ Elements(running) = {q \in Reqs : status[q] = "RUNNING"}
  BY DEF BlockInv, QueueInv, Match, Loop
<1>2. /\ pc = "alloc" /\ status' = [status EXCEPT ![v] = "PREEMPTED"]
      /\ num_computed_tokens' = [num_computed_tokens EXCEPT ![v] = 0]
      /\ UNCHANGED <<tokens, num_output_placeholders>>
      /\ running' = Without(running, v)
      /\ scheduled' = IF Undo(v) THEN Only(scheduled, {x \in Elements(scheduled) : x.req # v})
                      ELSE scheduled
      /\ req_index' = req_index - IF Undo(v) THEN 1 ELSE 0
      /\ pc' = IF v = r THEN "finish" ELSE "alloc"
      /\ current' = IF v = r THEN Nobody ELSE current
  BY <1>0 DEF Preempt, _preempt_request
<1> DEFINE n == Len(running)
<1>3. /\ Fits(current) /\ \A i \in 1..Len(scheduled) : Fits(scheduled[i])
      /\ Policy = "fcfs" =>
           /\ \A i \in 1..Len(scheduled) : Passed(scheduled[i].req)
           /\ req_index \in 1..n /\ running[req_index] = r
  BY <1>0, <1>1, <1>2 DEF Picked
<1>4. running \in Seq(Reqs) /\ n \in Nat /\ Distinct(running)
  BY <1>1, QueueElements DEF Queue
<1>5. ASSUME Policy = "fcfs" PROVE v = running[n] /\ ~Undo(v) /\ scheduled' = scheduled /\ req_index' = req_index
  <2>1. v = running[n] /\ ~Undo(v)
    BY <1>0, <1>5 DEF Victim, Undo
  <2> QED BY <2>1, <1>1, <1>2
<1>6. ASSUME NEW i \in 1..Len(scheduled')
      PROVE  Fits(scheduled[i])'
  <2>1. PICK x : x = scheduled'[i]
    OBVIOUS
  <2>2. x \in Elements(scheduled) /\ x.req # v
    BY <1>0, <1>6, <2>1, PreemptLeaves
  <2>3. Fits(x)
    BY <2>2, <1>3 DEF Elements
  <2>4. x.req \in Reqs
    BY <2>3 DEF Fits
  <2>5. Fits(x)'
    BY <2>2, <2>3, <2>4, <1>1, <1>2, StillFits DEF Numbers
  <2> QED BY <2>1, <2>5 DEF Fits
<1>7. ASSUME v # r PROVE Fits(current)'
  <2>1. PICK x : x = current
    OBVIOUS
  <2>2. Fits(x) /\ x.req \in Reqs /\ x.req # v
    BY <1>0, <1>3, <1>7, <2>1 DEF Fits
  <2>3. Fits(x)'
    BY <2>2, <1>1, <1>2, StillFits DEF Numbers
  <2>4. current' = x
    BY <2>1, <1>2, <1>7
  <2> QED BY <2>3, <2>4 DEF Fits
<1>8. ASSUME v # r, Policy = "fcfs"
      PROVE  /\ \A i \in 1..Len(scheduled') : Passed(scheduled[i].req)'
             /\ req_index' \in 1..Len(running') /\ running'[req_index'] = current'.req
  <2>1. v = running[n] /\ scheduled' = scheduled /\ req_index' = req_index
    BY <1>5, <1>8
  <2>2. running # <<>>
    BY <1>1, <1>3, <1>8, QueueElements
  <2>3. Len(running') = n - 1 /\ \A i \in 1..(n - 1) : running'[i] = running[i]
    BY <2>1, <2>2, <1>1, <1>2, WithoutLast
  <2>4. req_index \in 1..(n - 1)
    <3>1. req_index # n
      BY <2>1, <1>3, <1>8
    <3> QED BY <3>1, <1>3, <1>4, <1>8
  <2>5. ASSUME NEW i \in 1..Len(scheduled) PROVE Passed(scheduled[i].req)'
    <3>1. PICK j \in 1..n : j < req_index /\ running[j] = scheduled[i].req
      BY <1>3, <1>8 DEF Passed
    <3>2. j \in 1..(n - 1)
      BY <3>1, <2>4, <1>4
    <3>3. j \in 1..Len(running') /\ j < req_index' /\ running'[j] = scheduled'[i].req
      BY <3>1, <3>2, <2>1, <2>3
    <3> QED BY <3>3 DEF Passed
  <2>6. current' = current
    BY <1>2, <1>8
  <2> QED BY <2>1, <2>3, <2>4, <2>5, <2>6, <1>0, <1>3, <1>8
<1>9. CASE v = r
  <2>1. pc' = "finish"
    BY <1>2, <1>9
  <2> QED BY <2>1, <1>6 DEF Picked
<1>10. CASE v # r
  BY <1>6, <1>7, <1>8, <1>10 DEF Picked
<1> QED BY <1>9, <1>10

(* Steps of the loop over the waiting requests that schedule nobody, and   *)
(* the steps between the loops.                                            *)
LEMMA StillPicked ==
    ASSUME Picked, IsSeq(scheduled), NEW r, status[r] # "RUNNING",
           UNCHANGED <<scheduled, tokens, num_output_placeholders>>,
           \A q \in Reqs \ {r} : status'[q] = status[q] /\ num_computed_tokens'[q] = num_computed_tokens[q],
           pc' \notin {"running", "alloc"}
    PROVE  Picked'
<1>1. ASSUME NEW i \in 1..Len(scheduled') PROVE Fits(scheduled[i])'
  <2>1. PICK x : x = scheduled'[i]
    OBVIOUS
  <2>2. Fits(x)
    BY <1>1, <2>1 DEF Picked
  <2>3. x.req \in Reqs \ {r}
    BY <2>2 DEF Fits
  <2>4. Fits(x)'
    BY <2>2, <2>3, StillFits
  <2> QED BY <2>1, <2>4 DEF Fits
<1> QED BY <1>1 DEF Picked

(* The first waiting request is scheduled.                                 *)
LEMMA ScheduleWaitingPicked ==
    ASSUME BlockInv, NEW o, ScheduleWaiting(o)
    PROVE  Picked'
<1>0. PICK r, a, e : /\ r = waiting[1] /\ a = WaitingArgs(r, o)
                     /\ e = [req |-> r, n |-> a.new, external |-> o.external]
  OBVIOUS
<1>1. /\ Numbers /\ Rightful /\ KVInv(kv) /\ QueueInv /\ Picked
      /\ status \in [Reqs -> Statuses] /\ IsSeq(scheduled)
  BY DEF BlockInv, QueueInv, Match, Loop
<1>2. /\ Considers(o) /\ pc = "waiting" /\ UNCHANGED pc
      /\ status' = [status EXCEPT ![r] = "RUNNING"]
      /\ num_computed_tokens' = [num_computed_tokens EXCEPT ![r] = TotalComputed(a)]
      /\ scheduled' = Append(scheduled, e)
      /\ UNCHANGED <<tokens, num_output_placeholders>>
  BY <1>0 DEF ScheduleWaiting, CanAdmit, AsksForSlots, Considers, LooksAtWaiting
<1>3. r \in Reqs /\ status[r] \in Pending /\ AsksWithin(r, o, a)
  BY <1>0, <1>1, <1>2, WaitingArgsFacts
<1> DEFINE t == TotalComputed(a)
           m == a.new
<1>4. t \in Int /\ m \in Int /\ t + m <= Len(tokens[r])
  BY <1>3 DEF AsksWithin
<1>5. e.req = r /\ e.n = m
  BY <1>0
<1> HIDE DEF t, m
<1>6. Fits(e)'
  <2>1. status'[r] = "RUNNING" /\ num_computed_tokens'[r] = t /\ tokens'[r] = tokens[r]
    BY <1>1, <1>2, <1>3 DEF Numbers, t
  <2>2. Len(tokens[r]) \in Nat /\ num_output_placeholders'[r] \in Nat
    BY <1>1, <1>2, <1>3 DEF Numbers
  <2>3. t + m <= Len(tokens[r]) + num_output_placeholders'[r]
    BY <2>2, <1>4
  <2> QED BY <2>1, <2>3, <1>3, <1>4, <1>5 DEF Fits
<1>7. ASSUME NEW i \in 1..Len(scheduled') PROVE Fits(scheduled[i])'
  <2>1. PICK x : x = scheduled'[i]
    OBVIOUS
  <2>2. (i \in 1..Len(scheduled) /\ x = scheduled[i]) \/ x = e
    BY <1>1, <1>2, <1>7, <2>1, AppendCases
  <2>3. CASE x = e
    BY <1>6, <2>1, <2>3 DEF Fits
  <2>4. CASE i \in 1..Len(scheduled) /\ x = scheduled[i]
    <3>1. Fits(x)
      BY <1>1, <2>4 DEF Picked
    <3>2. x.req \in Reqs /\ x.req # r
      BY <3>1, <1>3 DEF Fits, Pending
    <3>3. Fits(x)'
      BY <3>1, <3>2, <1>1, <1>2, StillFits DEF Numbers
    <3> QED BY <2>1, <3>3 DEF Fits
  <2> QED BY <2>2, <2>3, <2>4
<1> QED BY <1>2, <1>7 DEF Picked

(* Every step keeps what schedule() has picked in order.                   *)
LEMMA NextPicked == BlockInv /\ [Next]_vars => Picked'
<1> SUFFICES ASSUME BlockInv, [Next]_vars PROVE Picked'
  OBVIOUS
<1>1. /\ Picked /\ QueueInv /\ IsSeq(scheduled) /\ (Settled => scheduled = <<>>)
      /\ req_index \in Int /\ status \in [Reqs -> Statuses] /\ num_computed_tokens \in [Reqs -> Int]
  BY DEF BlockInv, QueueInv, Loop, Match, Numbers
<1>2. ASSUME Settled, UNCHANGED scheduled, pc' # "alloc" PROVE Picked'
  BY <1>1, <1>2, NothingPicked
<1>3. CASE Client
  BY <1>2, <1>3 DEF Client, AddRequest, AbortRequest, ResetPrefixCache, locals, Settled
<1>4. CASE BeginSchedule \/ AwaitLast \/ BeginUpdate \/ EndUpdate
  BY <1>2, <1>4 DEF BeginSchedule, AwaitLast, BeginUpdate, EndUpdate, locals, Settled
<1>5. CASE SkipOutput \/ DiscardOutput \/ \E eos \in BOOLEAN : AcceptOutput(eos)
  BY <1>2, <1>5 DEF SkipOutput, DiscardOutput, AcceptOutput, NextOutput, locals, Settled
<1>6. ASSUME NEW r, FailRequest(r) \/ FreeSent(r) PROVE Picked'
  BY <1>2, <1>6 DEF FailRequest, FreeSent, locals, Settled
<1>7. CASE Connector
  BY <1>2, <1>7 DEF Connector, LookupDone, LoadFails, LoadDone, SendDone, Executing, locals, Settled
<1>8. ASSUME NEW bad, FinishSchedule(bad) PROVE Picked'
  BY <1>8, NothingPicked DEF FinishSchedule
<1>9. CASE SkipRunning
  <2>1. req_index' = req_index + 1 /\ UNCHANGED <<requests, running, scheduled, pc>> /\ pc = "running"
    BY <1>9 DEF SkipRunning, InRunningLoop, queues
  <2>2. ASSUME NEW i \in 1..Len(scheduled) PROVE Fits(scheduled[i])'
    BY <1>1, <2>1, <2>2 DEF Picked, Fits, requests
  <2>3. ASSUME Policy = "fcfs", NEW i \in 1..Len(scheduled) PROVE Passed(scheduled[i].req)'
    <3>1. PICK j \in 1..Len(running) : j < req_index /\ running[j] = scheduled[i].req
      BY <1>1, <2>1, <2>3 DEF Picked, Passed
    <3>2. j < req_index'
      BY <1>1, <2>1, <3>1
    <3> QED BY <2>1, <3>1, <3>2 DEF Passed
  <2> QED BY <2>1, <2>2, <2>3 DEF Picked
<1>10. CASE EndRunning
  <2>1. UNCHANGED <<requests, scheduled>> /\ pc' \notin {"running", "alloc"}
    BY <1>10 DEF EndRunning, locals
  <2>2. ASSUME NEW i \in 1..Len(scheduled) PROVE Fits(scheduled[i])'
    BY <1>1, <2>1, <2>2 DEF Picked, Fits, requests
  <2> QED BY <2>1, <2>2 DEF Picked
<1>11. ASSUME NEW o, SkipWaiting \/ EndWaiting(o) PROVE Picked'
  <2>1. UNCHANGED <<requests, scheduled>> /\ pc' \notin {"running", "alloc"}
    BY <1>11 DEF SkipWaiting, EndWaiting, LooksAtWaiting
  <2>2. ASSUME NEW i \in 1..Len(scheduled) PROVE Fits(scheduled[i])'
    BY <1>1, <2>1, <2>2 DEF Picked, Fits, requests
  <2> QED BY <2>1, <2>2 DEF Picked
<1>12. ASSUME NEW o, _update_waiting_for_remote_kv \/ LoadWaiting(o) PROVE Picked'
  <2>1. PICK r : r = waiting[1]
    OBVIOUS
  <2>2. /\ waiting # <<>> /\ pc' = "waiting"
        /\ UNCHANGED <<scheduled, tokens, num_output_placeholders>>
        /\ \A q \in Reqs \ {r} : status'[q] = status[q] /\ num_computed_tokens'[q] = num_computed_tokens[q]
    BY <1>1, <1>12, <2>1 DEF _update_waiting_for_remote_kv, LoadWaiting, CanAdmit, AsksForSlots, Considers,
                             LooksAtWaiting, locals
  <2>3. status[r] # "RUNNING"
    BY <1>1, <2>1, <2>2, FirstWaits DEF Pending
  <2> QED BY <2>2, <2>3, <1>1, StillPicked
<1>13. CASE UNCHANGED vars
  BY <1>1, <1>13 DEF vars, requests, queues, locals, Picked, Fits, Passed
<1> QED BY <1>3, <1>4, <1>5, <1>6, <1>7, <1>8, <1>9, <1>10, <1>11, <1>12, <1>13, PickRunningPicked,
           ScheduleRunningPicked, PreemptPicked, ScheduleWaitingPicked
        DEF Next, Engine

-----------------------------------------------------------------------------
(* The theorems. *)

(* Initially there are no batches, no blocks in use and no requests.       *)
LEMMA InitBlocks == Init => BlockInv
<1> SUFFICES ASSUME Init PROVE BlockInv
  OBVIOUS
<1>1. QueueInv /\ BatchInv
  BY InitQueue, InitBatch
<1>2. /\ tokens = Prompt /\ num_computed_tokens = [r \in Reqs |-> 0]
      /\ num_output_placeholders = [r \in Reqs |-> 0] /\ num_cached_tokens = [r \in Reqs |-> -1]
      /\ token_budget = 0 /\ status = [r \in Reqs |-> "NEW"] /\ kv = InitManager
      /\ scheduled = <<>> /\ output = <<>> /\ inflight = <<>> /\ pc = "idle"
  BY DEF Init
<1>3. Prompt \in [Reqs -> Seq(Nat)] /\ \A r \in Reqs : Len(Prompt[r]) >= 1
  BY SchedulerAssumption
<1>4. Numbers
  BY <1>2, <1>3 DEF Numbers
<1>5. Len(scheduled) = 0 /\ Len(output) = 0 /\ Len(inflight) = 0
  BY <1>2
<1>6. TokenInv /\ Picked
  BY <1>2, <1>5 DEF TokenInv, BringsTokens, Picked
<1>9. LoadInv
  <2>1. /\ loads = {} /\ reports = <<>> /\ report = Nothing /\ finished_recving = {}
    BY DEF Init
  <2>2. report \in Report /\ report.recved = {} /\ reports \in Seq(Report) /\ Len(reports) = 0
    BY <2>1 DEF Report, Nothing
  <2>3. Paired
    BY <2>1, <2>2, <1>2, <1>5 DEF Paired
  <2>4. ASSUME NEW r \in Reqs PROVE Told(r)
    <3>1. ~IsBeingLoaded(r) /\ \A t \in Int : ~Notice(r, t)
      BY <2>1, <2>2 DEF IsBeingLoaded, Notice
    <3> QED BY <3>1 DEF Told
  <2> QED BY <2>3, <2>4 DEF LoadInv
<1>7. KVInv(kv)
  BY <1>2, InitInOrder
<1>8. Rightful
  <2>1. \A r \in Reqs : kv.req_to_blocks[r] = <<>>
    BY <1>2 DEF InitManager
  <2>2. ASSUME NEW r \in Reqs PROVE Bounded(r) /\ MayHold(r) /\ ~IsLoading(r)
    <3>1. /\ status[r] = "NEW" /\ num_computed_tokens[r] = 0 /\ num_cached_tokens[r] = -1
          /\ Len(tokens[r]) >= 1 /\ Len(tokens[r]) \in Nat
      BY <1>2, <1>3
    <3>2. Bounded(r)
      BY <2>1, <3>1 DEF Bounded, Within
    <3> QED BY <2>1, <3>1, <3>2 DEF MayHold, IsLoading
  <2> QED BY <2>2 DEF Rightful
<1> QED BY <1>1, <1>4, <1>6, <1>7, <1>8, <1>9 DEF BlockInv

(* Every step keeps the invariant.                                         *)
LEMMA NextBlocks == BlockInv /\ [Next]_vars => BlockInv'
<1> SUFFICES ASSUME BlockInv, [Next]_vars PROVE BlockInv'
  OBVIOUS
<1>1. QueueInv /\ BatchInv
  BY DEF BlockInv
<1>2. QueueInv' /\ BatchInv'
  BY <1>1, NextQueue, NextBatch
<1>3. TokenInv' /\ LoadInv' /\ Picked'
  BY NextTokens, NextLoads, NextPicked
<1>4. Sound'
  BY NextSound
<1> QED BY <1>2, <1>3, <1>4 DEF BlockInv, Sound

(* It is more than BlockAccounting.                                        *)
LEMMA BlockInvSuffices == BlockInv => BlockAccounting
<1> SUFFICES ASSUME BlockInv PROVE BlockAccounting
  OBVIOUS
<1>1. KVInv(kv) /\ Rightful
  BY DEF BlockInv
<1>2. CountsHolders(kv) /\ FreeIsUnheld(kv.pool)
  BY <1>1, InOrderIsCorrect
<1>3. ASSUME NEW r \in Reqs, kv.req_to_blocks[r] # <<>>
      PROVE  \/ status[r] = "RUNNING" \/ IsLoading(r) \/ (IsFinished(r) /\ r \in sending)
             \/ /\ status[r] \in {"WAITING", "PREEMPTED"}
                /\ num_computed_tokens[r] > 0 \/ Len(tokens[r]) = 1
  <2>1. MayHold(r)
    BY <1>1 DEF Rightful
  <2> QED BY <1>3, <2>1 DEF MayHold, IsLoading, IsFinished, Pending, Finished
<1> QED BY <1>2, <1>3 DEF BlockAccounting

(* With every policy, with and without asynchronous scheduling, chunked    *)
(* prefill, a sliding window and a connector, whatever it offers, loads,   *)
(* fails to load and sends: reference counts are the numbers of holders,   *)
(* the free queue is the rest, and who was preempted, aborted, failed,     *)
(* finished or sent has given back its blocks.  schedule(),                *)
(* update_from_output, finish_requests and reset_prefix_cache leak and     *)
(* free twice nothing.                                                     *)
THEOREM SchedulerAccountsForBlocks == Spec => []BlockAccounting
<1>1. Spec => []BlockInv
  BY InitBlocks, NextBlocks, PTL DEF Spec
<1> QED BY <1>1, BlockInvSuffices, PTL

\* Without a connector nothing is sent.
FinalInv == BlockInv /\ NoTransfer /\ sending = {}

(* Every step keeps it.                                                    *)
LEMMA NextFinal == ~HasConnector /\ FinalInv /\ [Next]_vars => FinalInv'
<1> SUFFICES ASSUME ~HasConnector, FinalInv, [Next]_vars PROVE FinalInv'
  OBVIOUS
<1>1. BlockInv /\ NoTransfer /\ QueueInv /\ sending = {} /\ Sends = {}
  BY SchedulerAssumption DEF FinalInv, BlockInv
<1>2. BlockInv' /\ NoTransfer'
  BY <1>1, NextBlocks, NextTransfer
<1>3. ASSUME NEW k, NEW r, NEW n, _free_request(k, r, n) PROVE sending' = {}
  BY <1>1, <1>3 DEF _free_request, SendsLater
<1>4. ASSUME Client \/ Connector \/ UNCHANGED vars PROVE sending' = {}
  BY <1>1, <1>3, <1>4 DEF Client, AddRequest, AbortRequest, ResetPrefixCache, Connector, LookupDone,
                          LoadFails, LoadDone, SendDone, vars, remote
<1>5. ASSUME BeginSchedule \/ SkipRunning \/ PickRunning \/ ScheduleRunning \/ Preempt \/ EndRunning
      PROVE  sending' = {}
  BY <1>1, <1>5 DEF BeginSchedule, SkipRunning, PickRunning, ScheduleRunning, Preempt, EndRunning, remote
<1>6. ASSUME NEW o, SkipWaiting \/ _update_waiting_for_remote_kv \/ ScheduleWaiting(o) \/ LoadWaiting(o)
                    \/ EndWaiting(o)
      PROVE  sending' = {}
  BY <1>1, <1>6 DEF SkipWaiting, _update_waiting_for_remote_kv, ScheduleWaiting, LoadWaiting,
                    EndWaiting, remote
<1>7. ASSUME NEW bad, FinishSchedule(bad) \/ AwaitLast \/ BeginUpdate \/ SkipOutput \/ DiscardOutput
                      \/ EndUpdate
      PROVE  sending' = {}
  BY <1>1, <1>7 DEF FinishSchedule, AwaitLast, BeginUpdate, SkipOutput, DiscardOutput, EndUpdate, remote
<1>8. ASSUME NEW eos, AcceptOutput(eos) PROVE sending' = {}
  BY <1>1, <1>3, <1>8 DEF AcceptOutput
<1>9. ASSUME NEW r, FailRequest(r) \/ FreeSent(r) PROVE sending' = {}
  BY <1>1, <1>3, <1>9 DEF FailRequest, FreeSent
<1>10. sending' = {}
  BY <1>1, <1>4, <1>5, <1>6, <1>7, <1>8, <1>9 DEF Next, Engine
<1> QED BY <1>2, <1>10 DEF FinalInv

\* The requests that are finished do not change.
Final == \A r \in Reqs : status[r] \in Finished => status'[r] = status[r] /\ tokens'[r] = tokens[r]

(* Nobody changes the status or the tokens of a finished request.          *)
LEMMA FinishedStays ==
    ASSUME ~HasConnector, FinalInv, [Next]_vars
    PROVE  Final
<1>1. /\ QueueInv /\ BatchInv /\ NoTransfer /\ sending = {} /\ status \in [Reqs -> Statuses]
      /\ Queue(running) /\ Elements(running) = {r \in Reqs : status[r] = "RUNNING"}
      /\ tokens \in [Reqs -> Seq(Nat)] /\ pc # "transfer"
      /\ pc = "alloc" => current.req \in Elements(running)
  BY DEF FinalInv, BlockInv, QueueInv, Match, NoTransfer, Numbers, Loop
<1>2. ASSUME NEW r, status[r] \notin Finished,
             \A q \in Reqs \ {r} : status'[q] = status[q] /\ tokens'[q] = tokens[q]
      PROVE  Final
  BY <1>2 DEF Final
<1>3. ASSUME UNCHANGED <<status, tokens>> PROVE Final
  BY <1>3 DEF Final
<1>4. ASSUME NEW r \in Reqs, AddRequest(r) \/ AbortRequest(r) PROVE Final
  <2>1. /\ status[r] \notin Finished
        /\ \A q \in Reqs \ {r} : status'[q] = status[q] /\ tokens'[q] = tokens[q]
    BY <1>1, <1>4 DEF AddRequest, AbortRequest, IsFinished, Finished
  <2> QED BY <2>1, <1>2
<1>5. ASSUME NEW force \in ResetModes, ResetPrefixCache(force) PROVE Final
  <2> DEFINE S == IF force THEN Elements(running) ELSE {}
  <2>1. /\ status' = [r \in Reqs |-> IF r \in S THEN "PREEMPTED" ELSE status[r]] /\ UNCHANGED tokens
    BY <1>5 DEF ResetPrefixCache
  <2>2. \A r \in Reqs : status[r] \in Finished => r \notin S
    BY <1>1 DEF Finished
  <2> HIDE DEF S
  <2> QED BY <2>1, <2>2 DEF Final
<1>6. CASE Preempt
  <2>1. PICK v : v = Victim
    OBVIOUS
  <2>2. pc = "alloc" /\ status' = [status EXCEPT ![v] = "PREEMPTED"] /\ UNCHANGED tokens
    BY <1>6, <2>1 DEF Preempt, _preempt_request
  <2>3. running # <<>>
    BY <1>1, <2>2, QueueElements
  <2>4. status[v] = "RUNNING"
    BY <1>1, <2>1, <2>3, VictimRuns
  <2> QED BY <1>1, <1>2, <2>2, <2>4 DEF Finished
<1>7. ASSUME NEW o, _update_waiting_for_remote_kv \/ ScheduleWaiting(o) \/ LoadWaiting(o) PROVE Final
  <2>1. PICK r : r = waiting[1]
    OBVIOUS
  <2>2. waiting # <<>> /\ \A q \in Reqs \ {r} : status'[q] = status[q] /\ tokens'[q] = tokens[q]
    BY <1>1, <1>7, <2>1 DEF _update_waiting_for_remote_kv, ScheduleWaiting, LoadWaiting, CanAdmit,
                            AsksForSlots, Considers, LooksAtWaiting
  <2>3. status[r] \in Pending
    BY <1>1, <2>1, <2>2, FirstWaits
  <2> QED BY <1>2, <2>2, <2>3 DEF Pending, Finished
<1>8. ASSUME NEW eos, AcceptOutput(eos) PROVE Final
  <2>1. PICK r, new, text : /\ r = output[1].req /\ text = Append(tokens[r], output[1].token)
                            /\ new = StopStatus(r, Len(text), eos)
    OBVIOUS
  <2>2. /\ ~IsGone(r) /\ tokens' = [tokens EXCEPT ![r] = text]
        /\ status' = [status EXCEPT ![r] = new] \/ UNCHANGED status
    BY <1>8, <2>1 DEF AcceptOutput
  <2>3. status[r] \notin Finished
    BY <1>1, <2>2 DEF IsGone, IsFinished, Finished
  <2>4. \A q \in Reqs \ {r} : status'[q] = status[q] /\ tokens'[q] = tokens[q]
    BY <1>1, <2>2
  <2> QED BY <1>2, <2>3, <2>4
<1>9. CASE BeginSchedule \/ SkipRunning \/ PickRunning \/ ScheduleRunning \/ EndRunning \/ SkipWaiting
  BY <1>3, <1>9 DEF BeginSchedule, SkipRunning, PickRunning, ScheduleRunning, EndRunning, SkipWaiting,
                    requests
<1>10. ASSUME NEW o, EndWaiting(o) \/ FinishSchedule(o) \/ AwaitLast \/ BeginUpdate PROVE Final
  BY <1>3, <1>10 DEF EndWaiting, FinishSchedule, AwaitLast, BeginUpdate, requests
<1>11. ASSUME NEW r, FailRequest(r) \/ FreeSent(r) \/ EndUpdate PROVE Final
  BY <1>1, <1>11 DEF FailRequest, FreeSent, EndUpdate
<1>12. CASE SkipOutput \/ DiscardOutput \/ Connector \/ UNCHANGED vars
  BY <1>3, <1>12 DEF SkipOutput, DiscardOutput, Connector, LookupDone, LoadFails, LoadDone, SendDone,
                     vars, requests
<1> QED BY <1>4, <1>5, <1>6, <1>7, <1>8, <1>9, <1>10, <1>11, <1>12 DEF Next, Engine, Client

(* Nor does it get any blocks.                                             *)
LEMMA FinalStep ==
    ASSUME ~HasConnector, FinalInv, FinalInv', [Next]_vars, NEW r \in Reqs, IsFinished(r)
    PROVE  status'[r] = status[r] /\ tokens'[r] = tokens[r] /\ kv'.req_to_blocks[r] = <<>>
<1>1. status[r] \in Finished
  BY DEF IsFinished, Finished
<1>2. status'[r] = status[r] /\ tokens'[r] = tokens[r]
  <2>1. Final
    BY FinishedStays
  <2> QED BY <2>1, <1>1 DEF Final
<1>3. MayHold(r)' /\ sending' = {}
  BY DEF FinalInv, BlockInv, Rightful
<1>4. kv'.req_to_blocks[r] = <<>>
  BY <1>1, <1>2, <1>3 DEF MayHold, Finished, Pending
<1> QED BY <1>2, <1>4

(* Without a connector, a batch that was in flight when its request        *)
(* finished or was aborted changes nothing of it any more:                 *)
(* update_from_output ignores requests that are gone, whatever was         *)
(* scheduled, preempted or reset in between, and none of their blocks is   *)
(* left.                                                                   *)
THEOREM FinishedStaysFinal == ~HasConnector => (Spec => FinishedIsFinal)
<1> SUFFICES ASSUME ~HasConnector PROVE Spec => FinishedIsFinal
  OBVIOUS
<1>1. Init => FinalInv
  <2>1. Init => sending = {}
    BY DEF Init
  <2> QED BY <2>1, InitBlocks, InitTransfer DEF FinalInv
<1>2. FinalInv /\ [Next]_vars => FinalInv'
  BY NextFinal
<1>3. FinalInv /\ FinalInv' /\ [Next]_vars =>
         [\A r \in Reqs : IsFinished(r) =>
             status'[r] = status[r] /\ tokens'[r] = tokens[r]
             /\ (r \in sending \/ kv'.req_to_blocks[r] = <<>>)]_vars
  BY FinalStep
<1> QED BY <1>1, <1>2, <1>3, PTL DEF Spec, FinishedIsFinal

-----------------------------------------------------------------------------
(* The limits of a step: sums of scheduled tokens. *)

\* A sequence of records with a number of tokens each.
Counted(s) == IsSeq(s) /\ \A i \in 1..Len(s) : s[i].n \in Int

\* F[i] is the sum for the first i of them.
Sums(F, s) ==
    /\ TotalTokens(s) = F[Len(s)] /\ F[0] = 0
    /\ \A i \in 1..Len(s) : F[i] = F[i - 1] + s[i].n

(* What TotalTokens returns, one element at a time.                        *)
LEMMA TotalUnfolds ==
    ASSUME NEW s, Counted(s)
    PROVE  \E F \in [0..Len(s) -> Int] : Sums(F, s)
<1> DEFINE n == Len(s)
           Def(f) == f = [i \in 0..n |-> IF i = 0 THEN 0 ELSE f[i - 1] + s[i].n]
           v == CHOOSE f : Def(f)
           G == [x \in Int \X (1..n) |-> x[1] + s[x[2]].n]
<1>1. n \in Nat /\ \A i \in 1..n : s[i].n \in Int
  BY DEF Counted, IsSeq
<1>2. TotalTokens(s) = v[n]
  BY DEF TotalTokens
<1> HIDE DEF v
<1>3. \A k, i : k \in Int /\ i \in 1..n => k + s[i].n \in Int
  BY <1>1
<1>4. G \in [Int \X (1..n) -> Int]
  BY <1>3
<1>5. \A k \in Int, i \in 1..n : G[<<k, i>>] = k + s[i].n
  OBVIOUS
<1> HIDE DEF G
<1>6. PICK f \in [0..n -> Int] : f[0] = 0 /\ \A i \in 1..n : f[i] = G[<<f[i - 1], i>>]
  <2>1. n \in Nat /\ 0 \in Int /\ G \in [Int \X (1..n) -> Int]
    BY <1>1, <1>4
  <2> HIDE DEF n
  <2>2. HasRecursion(Int, n, 0, G)
    BY <2>1, RecursionExists
  <2> QED BY <2>2 DEF HasRecursion, n
<1>7. \A i \in 1..n : i - 1 \in 0..n /\ f[i] = f[i - 1] + s[i].n
  <2> TAKE i \in 1..n
  <2>1. i - 1 \in 0..n
    BY <1>1
  <2>2. f[i - 1] \in Int
    BY <2>1
  <2> QED BY <2>1, <2>2, <1>5, <1>6
<1>8. Def(f)
  <2>1. \A i \in 0..n : f[i] = IF i = 0 THEN 0 ELSE f[i - 1] + s[i].n
    <3> TAKE i \in 0..n
    <3>1. i = 0 \/ i \in 1..n
      BY <1>1
    <3> QED BY <3>1, <1>6, <1>7
  <2> QED BY <2>1
<1>9. Def(v)
  BY <1>8 DEF v
<1>10. ASSUME NEW g \in {f, v} PROVE g[0] = 0 /\ \A i \in 1..n : g[i] = g[i - 1] + s[i].n
  <2>1. Def(g)
    BY <1>8, <1>9, <1>10
  <2>2. \A i \in 0..n : g[i] = IF i = 0 THEN 0 ELSE g[i - 1] + s[i].n
    BY <2>1, Zenon
  <2> QED BY <2>2, <1>1
<1>11. DOMAIN v = 0..n /\ v = [i \in 0..n |-> v[i]]
  <2>1. \E g : v = [i \in 0..n |-> g[i]]
    <3>1. v = [i \in 0..n |-> IF i = 0 THEN 0 ELSE v[i - 1] + s[i].n]
      BY <1>9
    <3>2. \A i \in 0..n : v[i] = IF i = 0 THEN 0 ELSE v[i - 1] + s[i].n
      BY <3>1, Zenon
    <3>3. v = [i \in 0..n |-> v[i]]
      BY <3>1, <3>2
    <3> QED BY <3>3
  <2> QED BY <2>1
<1> DEFINE Same(i) == v[i] = f[i]
           T == {i \in 0..n : ~Same(i)}
<1>12. T = {}
  <2> SUFFICES ASSUME T # {} PROVE FALSE
    OBVIOUS
  <2>1. PICK m \in T : \A k \in T : m <= k
    <3>1. T \in SUBSET Nat
      BY <1>1
    <3> HIDE DEF T
    <3> QED BY <3>1, LeastElement
  <2>2. m \in 0..n /\ ~Same(m)
    BY <2>1
  <2>3. m # 0
    BY <2>2, <1>10
  <2>4. m \in 1..n /\ m - 1 \in 0..n /\ m - 1 \notin T
    <3> HIDE DEF T
    <3> QED BY <2>1, <2>2, <2>3, <1>1
  <2> QED BY <2>2, <2>4, <1>10
<1>13. v \in [0..n -> Int]
  <2>1. \A i \in 0..n : v[i] = f[i] /\ f[i] \in Int
    BY <1>12
  <2> QED BY <2>1, <1>11
<1>14. Sums(v, s)
  BY <1>2, <1>10 DEF Sums
<1> QED BY <1>13, <1>14

(* Nothing is nothing.                                                     *)
LEMMA TotalOfNone == TotalTokens(<<>>) = 0
<1> DEFINE none == <<>>
<1>1. Len(none) = 0 /\ none \in Seq({})
  OBVIOUS
<1> HIDE DEF none
<1>2. Counted(none)
  BY <1>1 DEF Counted, IsSeq
<1>3. PICK F \in [0..Len(none) -> Int] : Sums(F, none)
  BY <1>2, TotalUnfolds
<1>4. TotalTokens(none) = 0
  BY <1>1, <1>3 DEF Sums
<1> QED BY <1>4 DEF none

(* The records of a set, each with a number of tokens, make such a sequence. *)
LEMMA CountedIn ==
    ASSUME NEW U, \A x \in U : x.n \in Int, NEW s \in Seq(U)
    PROVE  Counted(s)
<1>1. Len(s) \in Nat /\ \A i \in 1..Len(s) : s[i] \in U /\ s[i] \in Elements(s)
  BY DEF Elements
<1>2. s \in Seq(Elements(s))
  BY <1>1
<1> QED BY <1>1, <1>2 DEF Counted, IsSeq

(* One more record counts for what it has.                                 *)
LEMMA TotalOfAppend ==
    ASSUME NEW s, Counted(s), NEW x, x.n \in Int
    PROVE  /\ Counted(Append(s, x)) /\ TotalTokens(s) \in Int
           /\ TotalTokens(Append(s, x)) = TotalTokens(s) + x.n
<1> DEFINE w == Append(s, x)
           U == Elements(s) \cup {x}
           n == Len(s)
<1>1. s \in Seq(U) /\ x \in U /\ n \in Nat
  BY DEF Counted, IsSeq
<1>2. \A y \in U : y.n \in Int
  BY DEF Counted, Elements
<1> HIDE DEF U
<1>3. w \in Seq(U) /\ Len(w) = n + 1 /\ w[n + 1] = x /\ \A i \in 1..n : w[i] = s[i]
  BY <1>1, AppendElements
<1> HIDE DEF w
<1>4. Counted(w)
  BY <1>2, <1>3, CountedIn
<1>5. PICK F \in [0..n -> Int] : Sums(F, s)
  BY TotalUnfolds
<1>6. PICK H \in [0..Len(w) -> Int] : Sums(H, w)
  BY <1>4, TotalUnfolds
<1>7. /\ TotalTokens(s) = F[n] /\ F[0] = 0 /\ \A i \in 1..n : F[i] = F[i - 1] + s[i].n
      /\ TotalTokens(w) = H[n + 1] /\ H[0] = 0
      /\ \A i \in 1..(n + 1) : H[i] = H[i - 1] + w[i].n
  BY <1>3, <1>5, <1>6 DEF Sums
<1> DEFINE T == {i \in 0..n : H[i] # F[i]}
<1>8. T = {}
  <2> SUFFICES ASSUME T # {} PROVE FALSE
    OBVIOUS
  <2>1. PICK m \in T : \A k \in T : m <= k
    <3>1. T \in SUBSET Nat
      BY <1>1
    <3> HIDE DEF T
    <3> QED BY <3>1, LeastElement
  <2>2. m \in 0..n /\ H[m] # F[m]
    BY <2>1
  <2>3. m # 0
    BY <2>2, <1>7
  <2>4. m \in 1..n /\ m \in 1..(n + 1) /\ m - 1 \in 0..n /\ m - 1 \notin T
    <3> HIDE DEF T
    <3> QED BY <2>1, <2>2, <2>3, <1>1
  <2>5. H[m - 1] = F[m - 1] /\ w[m] = s[m]
    BY <2>4, <1>3
  <2> QED BY <2>2, <2>4, <2>5, <1>7
<1>9. H[n] = F[n]
  <2>1. n \in 0..n
    BY <1>1
  <2> QED BY <2>1, <1>8
<1>10. H[n + 1] = H[n] + x.n
  <2>1. n + 1 \in 1..(n + 1) /\ (n + 1) - 1 = n
    BY <1>1
  <2> QED BY <2>1, <1>3, <1>7
<1>11. F[n] \in Int
  <2>1. n \in 0..n
    BY <1>1
  <2> QED BY <2>1
<1> QED BY <1>4, <1>7, <1>9, <1>10, <1>11 DEF w

(* Without one of its records it is less by what that one has.             *)
LEMMA TotalOfRest ==
    ASSUME NEW s, Counted(s), NEW S, NEW d \in 1..Len(s),
           \A i \in 1..Len(s) : s[i] \in S <=> i # d
    PROVE  /\ Counted(Only(s, S)) /\ TotalTokens(s) \in Int
           /\ TotalTokens(Only(s, S)) = TotalTokens(s) - s[d].n
<1> DEFINE n == Len(s)
           U == Elements(s)
<1>1. s \in Seq(U) /\ n \in Nat /\ \A i \in 1..n : s[i] \in U /\ s[i].n \in Int
  BY DEF Counted, IsSeq, Elements
<1>2. \A x \in U : x.n \in Int
  BY DEF Counted, Elements
<1> HIDE DEF U
<1>3. PICK F \in [0..n -> Seq(U)] : Unfolds(F, s, S)
  BY <1>1, OnlyUnfolds
<1>4. /\ Only(s, S) = F[n] /\ F[0] = <<>>
      /\ \A i \in 1..n : F[i] = IF s[i] \in S THEN Append(F[i - 1], s[i]) ELSE F[i - 1]
  BY <1>3 DEF Unfolds
<1>5. PICK H \in [0..n -> Int] : Sums(H, s)
  BY TotalUnfolds
<1>6. TotalTokens(s) = H[n] /\ H[0] = 0 /\ \A i \in 1..n : H[i] = H[i - 1] + s[i].n
  BY <1>5 DEF Sums
<1> DEFINE Good(i) == TotalTokens(F[i]) = H[i] - IF d <= i THEN s[d].n ELSE 0
           T == {i \in 0..n : ~Good(i)}
<1>7. T = {}
  <2> SUFFICES ASSUME T # {} PROVE FALSE
    OBVIOUS
  <2>1. PICK m \in T : \A k \in T : m <= k
    <3>1. T \in SUBSET Nat
      BY <1>1
    <3> HIDE DEF T
    <3> QED BY <3>1, LeastElement
  <2>2. m \in 0..n /\ ~Good(m)
    BY <2>1
  <2>3. m # 0
    <3>1. TotalTokens(F[0]) = 0 /\ H[0] = 0 /\ ~(d <= 0)
      BY <1>1, <1>4, <1>6, TotalOfNone
    <3> QED BY <3>1, <2>2
  <2>4. m \in 1..n /\ m - 1 \in 0..n /\ m - 1 \notin T
    <3> HIDE DEF T
    <3> QED BY <2>1, <2>2, <2>3, <1>1
  <2>5. Good(m - 1)
    BY <2>4
  <2>6. /\ F[m - 1] \in Seq(U) /\ s[m].n \in Int /\ H[m - 1] \in Int /\ s[d].n \in Int
        /\ d \in Int /\ m \in Int
    <3>1. F[m - 1] \in Seq(U) /\ H[m - 1] \in Int
      BY <2>4
    <3>2. s[m].n \in Int /\ s[d].n \in Int
      BY <2>4, <1>1
    <3>3. d \in Int /\ m \in Int
      BY <2>4, <1>1
    <3> QED BY <3>1, <3>2, <3>3
  <2>7. Counted(F[m - 1])
    BY <2>6, <1>2, CountedIn
  <2>8. CASE m = d
    <3>1. F[m] = F[m - 1] /\ H[m] = H[m - 1] + s[d].n
      BY <2>4, <2>8, <1>4, <1>6
    <3>2. TotalTokens(F[m - 1]) = H[m - 1]
      BY <2>5, <2>6, <2>8
    <3> QED BY <2>2, <2>6, <2>8, <3>1, <3>2
  <2>9. CASE m # d
    <3>0. F[m] = Append(F[m - 1], s[m])
      BY <2>4, <2>9, <1>4
    <3>1. H[m] = H[m - 1] + s[m].n
      BY <2>4, <1>6
    <3>2. TotalTokens(F[m]) = TotalTokens(F[m - 1]) + s[m].n
      BY <2>6, <2>7, <3>0, TotalOfAppend
    <3>3. PICK x, y, z : x = s[d].n /\ y = s[m].n /\ z = H[m - 1]
      OBVIOUS
    <3>4. x \in Int /\ y \in Int /\ z \in Int /\ H[m] = z + y
      BY <2>6, <3>1, <3>3
    <3>5. CASE d <= m
      <4>1. d <= m - 1
        BY <3>5, <2>6, <2>9
      <4>2. TotalTokens(F[m]) = (z - x) + y
        BY <4>1, <2>5, <3>2, <3>3
      <4>3. (z - x) + y = (z + y) - x
        BY <3>4
      <4> QED BY <4>2, <4>3, <3>3, <3>4, <3>5, <2>2
    <3>6. CASE ~(d <= m)
      <4>1. ~(d <= m - 1)
        BY <3>6, <2>6
      <4>2. TotalTokens(F[m]) = (z - 0) + y
        BY <4>1, <2>5, <3>2, <3>3
      <4>3. (z - 0) + y = (z + y) - 0
        BY <3>4
      <4> QED BY <4>2, <4>3, <3>4, <3>6, <2>2
    <3> QED BY <3>5, <3>6
  <2> QED BY <2>8, <2>9
<1>8. n \in 0..n /\ F[n] \in Seq(U) /\ H[n] \in Int /\ d <= n
  BY <1>1
<1>9. Good(n)
  BY <1>7, <1>8
<1>10. Counted(F[n])
  BY <1>2, <1>8, CountedIn
<1> QED BY <1>4, <1>6, <1>8, <1>9, <1>10

-----------------------------------------------------------------------------
(* The invariant of the limits. *)

\* An unfinished request has fewer tokens than the model takes, and so it has
\* computed when it runs.
Short(r) ==
    /\ status[r] \notin Finished => Len(tokens[r]) < MaxModelLen
    /\ status[r] = "RUNNING" => num_computed_tokens[r] < MaxModelLen

\* Something is scheduled, and no more than the model takes.
Worth(x) == x.n > 0 /\ num_computed_tokens[x.req] + x.n < MaxModelLen

\* Nobody is in s twice.
Once(s) == \A i, j \in 1..Len(s) : s[i].req = s[j].req => i = j

\* Every request is scheduled once, and the loop over the running requests has passed
\* it: the loop does not come to it again, and gives back what it was scheduled for
\* when it is preempted.
Entries ==
    /\ \A i \in 1..Len(scheduled) : Worth(scheduled[i])
    /\ Once(scheduled)
    /\ pc \in {"running", "alloc"} => \A i \in 1..Len(scheduled) : Passed(scheduled[i].req)

\* The running request that slots are being allocated for; those preempted meanwhile
\* may have been in front of it.
Allocating ==
    pc = "alloc" =>
       /\ Worth(current) /\ current.n <= token_budget /\ ~IsScheduled(current.req)
       /\ \E j \in 1..Len(running) : j <= req_index /\ running[j] = current.req

\* What is left of the token budget.
Budget ==
    /\ token_budget >= 0
    /\ TotalTokens(scheduled) + token_budget = (IF Settled THEN 0 ELSE MaxNumScheduledTokens)

LimitInv == /\ \A r \in Reqs : Short(r)
            /\ Len(running) <= MaxNumRunningReqs
            /\ Entries /\ Allocating /\ Budget

(* A request that does not grow stays short.                               *)
LEMMA StaysShort ==
    ASSUME Numbers, Numbers', NEW r \in Reqs, Short(r), tokens'[r] = tokens[r],
           status'[r] \notin Finished => status[r] \notin Finished,
           status'[r] = "RUNNING" =>
              \/ status[r] = "RUNNING" /\ num_computed_tokens'[r] = num_computed_tokens[r]
              \/ num_computed_tokens'[r] < Len(tokens[r])
    PROVE  Short(r)'
<1>1. status'[r] \notin Finished => Len(tokens'[r]) < MaxModelLen
  BY DEF Short
<1>2. ASSUME status'[r] = "RUNNING" PROVE num_computed_tokens'[r] < MaxModelLen
  <2>1. Len(tokens[r]) < MaxModelLen
    BY <1>2 DEF Short, Finished
  <2>2. CASE num_computed_tokens'[r] = num_computed_tokens[r] /\ status[r] = "RUNNING"
    BY <2>2 DEF Short
  <2>3. CASE num_computed_tokens'[r] < Len(tokens[r])
    <3>1. num_computed_tokens'[r] \in Int /\ Len(tokens[r]) \in Nat /\ MaxModelLen \in Nat
      BY KVCacheManagerAssumption DEF Numbers
    <3> QED BY <2>1, <2>3, <3>1
  <2> QED BY <1>2, <2>2, <2>3
<1> QED BY <1>1, <1>2 DEF Short

(* How many tokens a request is scheduled for.                             *)
LEMMA ScheduledWorth ==
    ASSUME Entries, IsSeq(scheduled), NEW r
    PROVE  ScheduledTokens(r) = 0 \/ num_computed_tokens[r] + ScheduledTokens(r) < MaxModelLen
<1>1. DOMAIN scheduled = 1..Len(scheduled)
  BY DEF IsSeq
<1>2. CASE ~IsScheduled(r)
  BY <1>2 DEF ScheduledTokens
<1>3. CASE IsScheduled(r)
  <2> DEFINE i == CHOOSE j \in DOMAIN scheduled : scheduled[j].req = r
  <2>1. i \in 1..Len(scheduled) /\ scheduled[i].req = r
    BY <1>1, <1>3 DEF IsScheduled
  <2>2. ScheduledTokens(r) = scheduled[i].n
    BY <1>3 DEF ScheduledTokens
  <2> HIDE DEF i
  <2> QED BY <2>1, <2>2 DEF Entries, Worth
<1> QED BY <1>2, <1>3

(* Every step keeps the requests short: check_stop ends them in time, and  *)
(* a running one is not scheduled beyond max_model_len.                    *)
LEMMA NextShort ==
    ASSUME BlockInv, LimitInv, [Next]_vars, NEW r \in Reqs
    PROVE  Short(r)'
<1>1. /\ Numbers /\ QueueInv /\ Queue(running) /\ Short(r) /\ Entries /\ IsSeq(scheduled)
      /\ Elements(running) = {q \in Reqs : status[q] = "RUNNING"}
      /\ status \in [Reqs -> Statuses]
      /\ pc = "alloc" => current.req \in Elements(running)
  BY DEF BlockInv, QueueInv, Match, Loop, LimitInv
<1>2. Numbers'
  BY NextBlocks DEF BlockInv
<1>3. ASSUME UNCHANGED <<tokens, status, num_computed_tokens>> PROVE Short(r)'
  BY <1>1, <1>3 DEF Short
<1>4. ASSUME NEW q, tokens' = tokens, \A p \in Reqs \ {q} : status'[p] = status[p]
                                         /\ num_computed_tokens'[p] = num_computed_tokens[p],
             q \in Reqs => /\ status'[q] \in Finished \/ status[q] \notin Finished
                           /\ status'[q] # "RUNNING" \/ num_computed_tokens'[q] < Len(tokens[q])
      PROVE  Short(r)'
  <2>1. CASE r = q
    BY <1>1, <1>2, <1>4, <2>1, StaysShort
  <2>2. CASE r # q
    BY <1>1, <1>2, <1>4, <2>2, StaysShort
  <2> QED BY <2>1, <2>2
<1>5. ASSUME NEW q \in Reqs, AddRequest(q) \/ AbortRequest(q) \/ FailRequest(q) PROVE Short(r)'
  <2>1. /\ tokens' = tokens /\ num_computed_tokens' = num_computed_tokens
        /\ \/ status[q] = "NEW" /\ status' = [status EXCEPT ![q] = "WAITING"]
           \/ status' = [status EXCEPT ![q] = "FINISHED_ABORTED"]
           \/ status' = [status EXCEPT ![q] = "FINISHED_ERROR"]
    BY <1>5 DEF AddRequest, AbortRequest, FailRequest
  <2>2. \A p \in Reqs \ {q} : status'[p] = status[p] /\ num_computed_tokens'[p] = num_computed_tokens[p]
    BY <1>1, <2>1
  <2>3. status'[q] \in Finished \/ status[q] \notin Finished
    BY <1>1, <2>1 DEF Finished
  <2>4. status'[q] # "RUNNING"
    BY <1>1, <2>1
  <2> QED BY <1>4, <2>1, <2>2, <2>3, <2>4
<1>6. ASSUME NEW force \in ResetModes, ResetPrefixCache(force) PROVE Short(r)'
  <2> DEFINE S == IF force THEN Elements(running) ELSE {}
  <2>1. /\ status' = [p \in Reqs |-> IF p \in S THEN "PREEMPTED" ELSE status[p]] /\ UNCHANGED tokens
        /\ num_computed_tokens' = [p \in Reqs |-> IF p \in S THEN 0 ELSE num_computed_tokens[p]]
    BY <1>6 DEF ResetPrefixCache
  <2>2. \A p \in S : status[p] \notin Finished
    BY <1>1 DEF Finished
  <2> HIDE DEF S
  <2>3. CASE r \in S
    <3>1. status'[r] # "RUNNING" /\ status[r] \notin Finished
      BY <2>1, <2>2, <2>3
    <3> QED BY <1>1, <1>2, <2>1, <3>1, StaysShort
  <2>4. CASE r \notin S
    <3>1. status'[r] = status[r] /\ num_computed_tokens'[r] = num_computed_tokens[r]
      BY <2>1, <2>4
    <3> QED BY <1>1, <1>2, <2>1, <3>1, StaysShort
  <2> QED BY <2>3, <2>4
<1>7. CASE Preempt
  <2>1. PICK v : v = Victim
    OBVIOUS
  <2>2. /\ pc = "alloc" /\ status' = [status EXCEPT ![v] = "PREEMPTED"] /\ UNCHANGED tokens
        /\ num_computed_tokens' = [num_computed_tokens EXCEPT ![v] = 0]
    BY <1>7, <2>1 DEF Preempt, _preempt_request
  <2>3. running # <<>>
    BY <1>1, <2>2, QueueElements
  <2>4. status[v] = "RUNNING" /\ v \in Reqs
    BY <1>1, <2>1, <2>3, VictimRuns
  <2>5. \A p \in Reqs \ {v} : status'[p] = status[p] /\ num_computed_tokens'[p] = num_computed_tokens[p]
    BY <1>1, <2>2 DEF Numbers
  <2>6. status[v] \notin Finished /\ status'[v] # "RUNNING"
    BY <1>1, <2>2, <2>4 DEF Finished
  <2> QED BY <1>4, <2>2, <2>5, <2>6
<1>8. CASE _update_waiting_for_remote_kv
  <2>1. PICK q : q = waiting[1]
    OBVIOUS
  <2>2. /\ waiting # <<>> /\ UNCHANGED tokens /\ IsLoading(q)
        /\ num_computed_tokens' = [num_computed_tokens EXCEPT ![q] = AfterLoad(q).computed]
        /\ status' = [status EXCEPT ![q] = IF num_preemptions[q] > 0 THEN "PREEMPTED" ELSE "WAITING"]
    BY <1>8, <2>1 DEF _update_waiting_for_remote_kv, LooksAtWaiting
  <2>3. \A p \in Reqs \ {q} : status'[p] = status[p] /\ num_computed_tokens'[p] = num_computed_tokens[p]
    BY <1>1, <2>2 DEF Numbers
  <2>4. q \in Reqs => status[q] \notin Finished /\ status'[q] # "RUNNING"
    BY <1>1, <2>2 DEF Finished, IsLoading
  <2> QED BY <1>4, <2>2, <2>3, <2>4
<1>9. ASSUME NEW o, ScheduleWaiting(o) PROVE Short(r)'
  <2>1. PICK q, a : q = waiting[1] /\ a = WaitingArgs(q, o)
    OBVIOUS
  <2>2. /\ Considers(o) /\ UNCHANGED tokens /\ ~o.async
        /\ num_computed_tokens' = [num_computed_tokens EXCEPT ![q] = TotalComputed(a)]
        /\ status' = [status EXCEPT ![q] = "RUNNING"]
    BY <1>9, <2>1 DEF ScheduleWaiting, CanAdmit, AsksForSlots
  <2>3. \A p \in Reqs \ {q} : status'[p] = status[p] /\ num_computed_tokens'[p] = num_computed_tokens[p]
    BY <1>1, <2>2 DEF Numbers
  <2>4. KVInv(kv) /\ Rightful
    BY DEF BlockInv
  <2>5. q \in Reqs /\ status[q] \in Pending /\ AsksWithin(q, o, a)
    BY <1>1, <2>1, <2>2, <2>4, WaitingArgsFacts
  <2>6. status[q] \notin Finished /\ num_computed_tokens'[q] < Len(tokens[q])
    BY <1>1, <2>2, <2>5 DEF Finished, Pending, AsksWithin, Numbers
  <2> QED BY <1>4, <2>2, <2>3, <2>6
<1>10. ASSUME NEW o, LoadWaiting(o) PROVE Short(r)'
  <2>1. PICK q : q = waiting[1]
    OBVIOUS
  <2>2. /\ waiting # <<>> /\ UNCHANGED <<tokens, num_computed_tokens>>
        /\ status' = [status EXCEPT ![q] = "WAITING_FOR_REMOTE_KVS"]
    BY <1>10, <2>1 DEF LoadWaiting, CanAdmit, AsksForSlots, Considers, LooksAtWaiting
  <2>3. \A p \in Reqs \ {q} : status'[p] = status[p] /\ num_computed_tokens'[p] = num_computed_tokens[p]
    BY <1>1, <2>2
  <2>4. q \in Reqs /\ status[q] \in Pending
    BY <1>1, <2>1, <2>2, FirstWaits
  <2>5. status[q] \notin Finished /\ status'[q] # "RUNNING"
    BY <1>1, <2>2, <2>4 DEF Finished, Pending
  <2> QED BY <1>4, <2>2, <2>3, <2>5
<1>11. ASSUME NEW bad, FinishSchedule(bad) PROVE Short(r)'
  <2>1. /\ num_computed_tokens'[r] = num_computed_tokens[r] + ScheduledTokens(r)
        /\ UNCHANGED <<status, tokens>>
    BY <1>11 DEF FinishSchedule, _update_after_schedule
  <2>2. ScheduledTokens(r) = 0 \/ num_computed_tokens[r] + ScheduledTokens(r) < MaxModelLen
    BY <1>1, ScheduledWorth
  <2>3. num_computed_tokens[r] \in Int
    BY <1>1 DEF Numbers
  <2>4. num_computed_tokens'[r] = num_computed_tokens[r] \/ num_computed_tokens'[r] < MaxModelLen
    BY <2>1, <2>2, <2>3
  <2> QED BY <1>1, <2>1, <2>4 DEF Short
<1>12. CASE BeginUpdate
  <2>1. /\ UNCHANGED <<status, tokens>>
        /\ num_computed_tokens'[r] = num_computed_tokens[r] \/ num_computed_tokens'[r] < Len(tokens[r])
    BY <1>12, UpdateFallsBack
  <2> QED BY <1>1, <1>2, <2>1, StaysShort
<1>13. ASSUME NEW eos, AcceptOutput(eos) PROVE Short(r)'
  <2>1. PICK q, new, text : /\ q = output[1].req /\ text = Append(tokens[q], output[1].token)
                            /\ new = StopStatus(q, Len(text), eos)
    OBVIOUS
  <2>2. /\ tokens' = [tokens EXCEPT ![q] = text] /\ UNCHANGED num_computed_tokens
        /\ IF new # "NONE" THEN status' = [status EXCEPT ![q] = new] ELSE UNCHANGED status
    BY <1>13, <2>1 DEF AcceptOutput
  <2>3. new = "NONE" \/ new \in Finished
    BY <2>1 DEF StopStatus, Finished
  <2>4. CASE r # q
    <3>1. tokens'[r] = tokens[r] /\ status'[r] = status[r]
      BY <1>1, <2>2, <2>4 DEF Numbers
    <3> QED BY <1>1, <2>2, <3>1 DEF Short
  <2>5. CASE r = q /\ new = "NONE"
    <3>1. ~(Len(text) >= MaxModelLen)
      BY <2>1, <2>5 DEF StopStatus
    <3>2. tokens'[r] = text /\ UNCHANGED status
      BY <1>1, <2>2, <2>5 DEF Numbers
    <3>3. Len(tokens'[r]) < MaxModelLen
      <4>1. Len(tokens'[r]) \in Nat /\ MaxModelLen \in Nat
        BY <1>2, KVCacheManagerAssumption DEF Numbers
      <4> QED BY <3>1, <3>2, <4>1
    <3> QED BY <1>1, <2>2, <3>2, <3>3 DEF Short
  <2>6. CASE r = q /\ new # "NONE"
    <3>1. status'[r] \in Finished
      BY <1>1, <2>2, <2>3, <2>6
    <3> QED BY <3>1 DEF Short, Finished
  <2> QED BY <2>4, <2>5, <2>6
<1>14. CASE BeginSchedule \/ SkipRunning \/ PickRunning \/ ScheduleRunning \/ EndRunning \/ SkipWaiting
  BY <1>3, <1>14 DEF BeginSchedule, SkipRunning, PickRunning, ScheduleRunning, EndRunning, SkipWaiting,
                     requests
<1>15. ASSUME NEW o, EndWaiting(o) \/ FreeSent(o) \/ AwaitLast \/ EndUpdate PROVE Short(r)'
  BY <1>3, <1>15 DEF EndWaiting, FreeSent, AwaitLast, EndUpdate, requests
<1>16. CASE SkipOutput \/ DiscardOutput \/ Connector \/ UNCHANGED vars
  BY <1>3, <1>16 DEF SkipOutput, DiscardOutput, Connector, LookupDone, LoadFails, LoadDone, SendDone,
                     vars, requests
<1> QED BY <1>5, <1>6, <1>7, <1>8, <1>9, <1>10, <1>11, <1>12, <1>13, <1>14, <1>15, <1>16
        DEF Next, Engine, Client

\* What there is to keep but the requests' lengths.
Limits == Len(running) <= MaxNumRunningReqs /\ Entries /\ Allocating /\ Budget

(* Between calls of schedule() nothing is scheduled.                       *)
LEMMA NothingScheduled ==
    ASSUME Len(running') <= MaxNumRunningReqs, scheduled' = <<>>, token_budget' = 0, Settled'
    PROVE  Limits'
<1>1. Len(scheduled') = 0 /\ TotalTokens(scheduled') = 0
  BY TotalOfNone
<1>2. Entries'
  BY <1>1 DEF Entries, Once
<1>3. Allocating'
  BY DEF Allocating, Settled
<1>4. Budget'
  BY <1>1 DEF Budget
<1> QED BY <1>2, <1>3, <1>4 DEF Limits

(* So it was before a step between calls.                                  *)
LEMMA SettledStep ==
    ASSUME BlockInv, LimitInv, [Next]_vars, Settled, Settled', UNCHANGED <<scheduled, token_budget>>,
           Len(running') <= Len(running)
    PROVE  Limits'
<1>1. /\ scheduled = <<>> /\ token_budget \in Int /\ Queue(running) /\ Len(running) <= MaxNumRunningReqs
      /\ TotalTokens(scheduled) + token_budget = 0
  BY DEF BlockInv, QueueInv, Match, Loop, Numbers, LimitInv, Budget
<1>2. token_budget = 0
  BY <1>1, TotalOfNone
<1>3. running' \in Seq(Reqs) /\ running \in Seq(Reqs)
  <2>1. Queue(running)'
    BY NextQueue DEF BlockInv, QueueInv, Match
  <2> QED BY <1>1, <2>1 DEF Queue
<1>4. Len(running') <= MaxNumRunningReqs
  BY <1>1, <1>3, SchedulerAssumption
<1> QED BY <1>1, <1>2, <1>4, NothingScheduled

(* Who has the status of the running leaves the queue of the running.      *)
LEMMA RemovalShortens ==
    ASSUME BlockInv, NEW r \in Reqs, RemoveFromQueue(r)
    PROVE  Len(running') <= Len(running)
<1>1. Queue(running) /\ Elements(running) = {q \in Reqs : status[q] = "RUNNING"}
  BY DEF BlockInv, QueueInv, Match
<1>2. Len(running) \in Nat
  BY <1>1, QueueElements
<1>3. CASE status[r] = "RUNNING"
  <2>1. running' = Without(running, r) /\ r \in Elements(running)
    BY <1>1, <1>3 DEF RemoveFromQueue
  <2>2. PICK p \in 1..Len(running) : running[p] = r
    BY <2>1 DEF Elements
  <2>3. Len(running') = Len(running) - 1
    BY <1>1, <2>1, <2>2, WithoutAt
  <2> QED BY <2>3, <1>2
<1>4. CASE status[r] # "RUNNING"
  <2>1. running' = running
    BY <1>4 DEF RemoveFromQueue
  <2> QED BY <2>1, <1>2
<1> QED BY <1>3, <1>4

(* Steps of schedule() that schedule nothing and leave alone who is        *)
(* scheduled.                                                              *)
LEMMA StillWithin ==
    ASSUME BlockInv, LimitInv, UNCHANGED <<running, scheduled, token_budget>>,
           \A q \in Reqs : status[q] = "RUNNING" => num_computed_tokens'[q] = num_computed_tokens[q],
           ~Settled, pc' \in {"waiting", "finish"}
    PROVE  Limits'
<1>1. /\ Entries /\ Budget /\ Len(running) <= MaxNumRunningReqs
      /\ \A i \in 1..Len(scheduled) : Fits(scheduled[i])
  BY DEF LimitInv, BlockInv, Picked
<1>2. Entries'
  <2>1. ASSUME NEW i \in 1..Len(scheduled) PROVE Worth(scheduled[i])'
    <3>1. scheduled[i].req \in Reqs /\ status[scheduled[i].req] = "RUNNING"
      BY <1>1, <2>1 DEF Fits
    <3> QED BY <1>1, <2>1, <3>1 DEF Entries, Worth
  <2> QED BY <1>1, <2>1 DEF Entries
<1>3. Allocating'
  BY DEF Allocating
<1>4. Budget'
  BY <1>1 DEF Budget, Settled
<1> QED BY <1>1, <1>2, <1>3, <1>4 DEF Limits

(* schedule() starts with the whole budget.                                *)
LEMMA BeginScheduleWithin ==
    ASSUME BlockInv, LimitInv, BeginSchedule
    PROVE  Limits'
<1>1. /\ scheduled = <<>> /\ Len(running) <= MaxNumRunningReqs
      /\ pc' = "running" /\ token_budget' = MaxNumScheduledTokens /\ UNCHANGED <<running, scheduled>>
  BY DEF BlockInv, QueueInv, Loop, LimitInv, BeginSchedule, Settled, queues
<1>2. Len(scheduled') = 0 /\ TotalTokens(scheduled') = 0
  BY <1>1, TotalOfNone
<1>3. Entries'
  BY <1>2 DEF Entries, Once
<1>4. Allocating'
  BY <1>1 DEF Allocating
<1>5. Budget'
  BY <1>1, <1>2, SchedulerAssumption DEF Budget, Settled
<1> QED BY <1>1, <1>3, <1>4, <1>5 DEF Limits

(* A running request is passed over.                                       *)
LEMMA SkipRunningWithin ==
    ASSUME BlockInv, LimitInv, SkipRunning
    PROVE  Limits'
<1>1. /\ Entries /\ Budget /\ Len(running) <= MaxNumRunningReqs /\ req_index \in Int
  BY DEF LimitInv, BlockInv, QueueInv, Loop
<1>2. /\ pc = "running" /\ pc' = "running" /\ req_index' = req_index + 1
      /\ UNCHANGED <<running, scheduled, num_computed_tokens, token_budget>>
  BY DEF SkipRunning, InRunningLoop, requests, queues
<1>3. ASSUME NEW i \in 1..Len(scheduled) PROVE Passed(scheduled[i].req)' /\ Worth(scheduled[i])'
  <2>1. PICK j \in 1..Len(running) : j < req_index /\ running[j] = scheduled[i].req
    BY <1>1, <1>2, <1>3 DEF Entries, Passed
  <2>2. j < req_index'
    BY <1>1, <1>2, <2>1
  <2>3. Worth(scheduled[i])
    BY <1>1, <1>3 DEF Entries
  <2> QED BY <1>2, <2>1, <2>2, <2>3 DEF Passed, Worth
<1>4. Entries'
  BY <1>1, <1>2, <1>3 DEF Entries
<1>5. Allocating' /\ Budget'
  BY <1>1, <1>2 DEF Allocating, Budget, Settled
<1> QED BY <1>1, <1>2, <1>4, <1>5 DEF Limits

(* A running request is considered: it was not scheduled before, and there *)
(* is something to compute.                                                *)
LEMMA PickRunningWithin ==
    ASSUME BlockInv, LimitInv, PickRunning
    PROVE  Limits'
<1>0. PICK r, n : r = running[req_index] /\ n = NumNewTokens(r)
  OBVIOUS
<1>1. /\ Entries /\ Budget /\ Len(running) <= MaxNumRunningReqs /\ req_index \in Int
      /\ \A q \in Reqs : Short(q)
      /\ Numbers /\ Rightful /\ Queue(running) /\ IsSeq(scheduled)
      /\ Elements(running) = {q \in Reqs : status[q] = "RUNNING"}
      /\ pc = "running" => Len(scheduled) < req_index
  BY DEF LimitInv, BlockInv, QueueInv, Match, Loop
<1>2. /\ pc = "running" /\ req_index <= Len(running) /\ token_budget > 0 /\ n # 0
      /\ current' = [req |-> r, n |-> n, external |-> 0] /\ pc' = "alloc"
      /\ UNCHANGED <<running, req_index, scheduled, num_computed_tokens, token_budget>>
  BY <1>0 DEF PickRunning, InRunningLoop, queues, requests
<1>3. req_index \in 1..Len(running) /\ r \in Reqs /\ status[r] = "RUNNING" /\ Distinct(running)
  <2>1. Len(scheduled) \in Nat /\ Len(running) \in Nat
    BY <1>1, QueueElements DEF IsSeq
  <2>2. req_index \in 1..Len(running)
    BY <2>1, <1>1, <1>2
  <2>3. r \in Elements(running)
    BY <2>2, <1>0 DEF Elements
  <2> QED BY <2>2, <2>3, <1>1 DEF Queue
<1> DEFINE c == num_computed_tokens[r]
           m == Len(tokens[r]) + num_output_placeholders[r] - c
           e == Capped(m)
           f == MaxModelLen - 1 - c
<1>4. c \in Int /\ m \in Int /\ f \in Int /\ token_budget \in Int /\ MaxModelLen \in Int
  BY <1>1, <1>3, KVCacheManagerAssumption DEF Numbers
<1>5. m >= 0 /\ f >= 0
  <2>1. c <= Len(tokens[r]) + num_output_placeholders[r] /\ c < MaxModelLen
    BY <1>1, <1>3 DEF Rightful, Bounded, Short
  <2>2. Len(tokens[r]) \in Nat /\ num_output_placeholders[r] \in Nat
    BY <1>1, <1>3 DEF Numbers
  <2> QED BY <1>4, <2>1, <2>2
<1>6. e \in Int /\ (m > 0 => e > 0) /\ e <= m /\ (m = 0 => e = 0)
  <2> HIDE DEF m
  <2>1. e \in Int /\ (m > 0 => e > 0) /\ e <= m
    BY <1>4, CappedFacts
  <2>2. m = 0 => e = 0
    BY SchedulerAssumption DEF Capped
  <2> QED BY <2>1, <2>2
<1>7. n = MinOf(MinOf(e, token_budget), f)
  BY <1>0 DEF NumNewTokens
<1> HIDE DEF e, f, m
<1>8. n \in Int /\ n > 0 /\ n <= token_budget /\ n <= f
  BY <1>2, <1>4, <1>5, <1>6, <1>7 DEF MinOf
<1>9. c + n < MaxModelLen
  BY <1>4, <1>8 DEF f
<1>10. current'.req = r /\ current'.n = n
  BY <1>2
<1>11. Worth(current)'
  <2>1. num_computed_tokens'[current'.req] = c
    BY <1>2, <1>10
  <2> QED BY <2>1, <1>8, <1>9, <1>10 DEF Worth
<1>12. ~IsScheduled(r)
  <2> SUFFICES ASSUME NEW i \in DOMAIN scheduled, scheduled[i].req = r PROVE FALSE
    BY DEF IsScheduled
  <2>1. i \in 1..Len(scheduled)
    BY <1>1 DEF IsSeq
  <2>2. PICK j \in 1..Len(running) : j < req_index /\ running[j] = r
    BY <1>1, <1>2, <2>1 DEF Entries, Passed
  <2>3. j = req_index
    BY <1>0, <1>3, <2>2 DEF Distinct
  <2> QED BY <2>2, <2>3, <1>1
<1>13. Allocating'
  <2>1. ~IsScheduled(current.req)'
    BY <1>2, <1>10, <1>12 DEF IsScheduled
  <2>2. \E j \in 1..Len(running') : j <= req_index' /\ running'[j] = current'.req
    BY <1>0, <1>2, <1>3, <1>10
  <2>3. current'.n <= token_budget'
    BY <1>2, <1>8, <1>10
  <2> QED BY <1>11, <2>1, <2>2, <2>3 DEF Allocating
<1>14. Entries'
  <2>1. \A i \in 1..Len(scheduled) : Passed(scheduled[i].req)' /\ Worth(scheduled[i])'
    BY <1>1, <1>2 DEF Entries, Passed, Worth
  <2> QED BY <1>1, <1>2, <2>1 DEF Entries
<1>15. Budget'
  BY <1>1, <1>2 DEF Budget, Settled
<1> QED BY <1>1, <1>2, <1>13, <1>14, <1>15 DEF Limits

(* What is scheduled is counted.                                           *)
LEMMA ScheduledCounted ==
    ASSUME BlockInv
    PROVE  Counted(scheduled) /\ DOMAIN scheduled = 1..Len(scheduled)
<1>1. IsSeq(scheduled) /\ \A i \in 1..Len(scheduled) : scheduled[i].n \in Int
  BY DEF BlockInv, QueueInv, Loop, Picked, Fits
<1> QED BY <1>1 DEF Counted, IsSeq

(* One more request is scheduled.                                          *)
LEMMA OneMoreOnce ==
    ASSUME NEW s, IsSeq(s), Once(s), NEW x, \A i \in 1..Len(s) : s[i].req # x.req,
           NEW w, w = Append(s, x)
    PROVE  Once(w)
<1> DEFINE U == Elements(s) \cup {x}
<1>1. s \in Seq(U) /\ x \in U /\ Len(s) \in Nat
  BY DEF IsSeq
<1> HIDE DEF U
<1>2. /\ Len(w) = Len(s) + 1 /\ w[Len(s) + 1] = x
      /\ \A i \in 1..Len(s) : w[i] = s[i]
  BY <1>1, AppendElements
<1>3. \A i \in 1..Len(w) : i \in 1..Len(s) \/ i = Len(s) + 1
  BY <1>1, <1>2
<1> QED BY <1>2, <1>3 DEF Once

(* The running request gets its slots.                                     *)
LEMMA ScheduleRunningWithin ==
    ASSUME BlockInv, LimitInv, ScheduleRunning
    PROVE  Limits'
<1>0. PICK c : c = current
  OBVIOUS
<1>1. /\ Entries /\ Budget /\ Allocating /\ Len(running) <= MaxNumRunningReqs /\ req_index \in Int
      /\ token_budget \in Int /\ IsSeq(scheduled) /\ Counted(scheduled)
      /\ DOMAIN scheduled = 1..Len(scheduled)
  BY ScheduledCounted DEF LimitInv, BlockInv, QueueInv, Loop, Numbers
<1>2. /\ pc = "alloc" /\ pc' = "running" /\ scheduled' = Append(scheduled, c)
      /\ token_budget' = token_budget - c.n /\ req_index' = req_index + 1
      /\ UNCHANGED <<running, num_computed_tokens>>
  BY <1>0 DEF ScheduleRunning, requests, queues
<1>3. c.n \in Int
  BY <1>0, <1>2 DEF BlockInv, Picked, Fits
<1>4. /\ Worth(c) /\ c.n <= token_budget /\ ~IsScheduled(c.req)
      /\ \E j \in 1..Len(running) : j <= req_index /\ running[j] = c.req
  BY <1>0, <1>1, <1>2 DEF Allocating
<1>5. ASSUME NEW i \in 1..Len(scheduled')
      PROVE  Passed(scheduled[i].req)' /\ Worth(scheduled[i])'
  <2>1. PICK x : x = scheduled'[i]
    OBVIOUS
  <2>2. (i \in 1..Len(scheduled) /\ x = scheduled[i]) \/ x = c
    BY <1>1, <1>2, <1>5, <2>1, AppendCases
  <2>3. Worth(x)
    BY <2>2, <1>1, <1>4 DEF Entries
  <2>4. \E j \in 1..Len(running) : j <= req_index /\ running[j] = x.req
    <3>1. CASE x = c
      BY <3>1, <1>4
    <3>2. CASE i \in 1..Len(scheduled) /\ x = scheduled[i]
      <4>1. Passed(x.req)
        BY <3>2, <1>1, <1>2 DEF Entries
      <4>2. PICK j \in 1..Len(running) : j < req_index /\ running[j] = x.req
        BY <4>1 DEF Passed
      <4>3. j <= req_index
        BY <4>2, <1>1
      <4> QED BY <4>2, <4>3
    <3> QED BY <2>2, <3>1, <3>2
  <2>5. PICK j \in 1..Len(running) : j <= req_index /\ running[j] = x.req
    BY <2>4
  <2>6. j < req_index'
    BY <2>5, <1>1, <1>2
  <2> QED BY <2>1, <2>3, <2>5, <2>6, <1>2 DEF Passed, Worth
<1>6. Once(scheduled')
  <2>1. \A i \in 1..Len(scheduled) : scheduled[i].req # c.req
    BY <1>1, <1>4 DEF IsScheduled
  <2>2. Once(scheduled)
    BY <1>1 DEF Entries
  <2> QED BY <2>1, <2>2, <1>1, <1>2, OneMoreOnce
<1>7. Entries'
  BY <1>5, <1>6 DEF Entries
<1>8. Budget'
  <2>1. TotalTokens(scheduled') = TotalTokens(scheduled) + c.n /\ TotalTokens(scheduled) \in Int
    BY <1>1, <1>2, <1>3, TotalOfAppend
  <2>2. TotalTokens(scheduled) + token_budget = MaxNumScheduledTokens
    BY <1>1, <1>2 DEF Budget, Settled
  <2>3. token_budget' >= 0 /\ TotalTokens(scheduled') + token_budget' = MaxNumScheduledTokens
    BY <2>1, <2>2, <1>1, <1>2, <1>3, <1>4
  <2> QED BY <2>3, <1>2 DEF Budget, Settled
<1>9. Allocating'
  BY <1>2 DEF Allocating
<1> QED BY <1>1, <1>2, <1>7, <1>8, <1>9 DEF Limits

(* A waiting request is scheduled: the loop stops at the limit of running  *)
(* requests.                                                               *)
LEMMA ScheduleWaitingWithin ==
    ASSUME BlockInv, LimitInv, NEW o, ScheduleWaiting(o)
    PROVE  Limits'
<1>0. PICK r, a, e : /\ r = waiting[1] /\ a = WaitingArgs(r, o)
                     /\ e = [req |-> r, n |-> a.new, external |-> o.external]
  OBVIOUS
<1>1. /\ Entries /\ Budget /\ Len(running) <= MaxNumRunningReqs /\ \A q \in Reqs : Short(q)
      /\ Numbers /\ Rightful /\ KVInv(kv) /\ QueueInv /\ Queue(running)
      /\ IsSeq(scheduled) /\ Counted(scheduled) /\ DOMAIN scheduled = 1..Len(scheduled)
      /\ \A i \in 1..Len(scheduled) : Fits(scheduled[i])
  BY ScheduledCounted DEF LimitInv, BlockInv, QueueInv, Loop, Match, Picked
<1>2. /\ Considers(o) /\ ~o.async /\ pc = "waiting" /\ pc' = "waiting" /\ Len(running) # MaxNumRunningReqs
      /\ num_computed_tokens' = [num_computed_tokens EXCEPT ![r] = TotalComputed(a)]
      /\ scheduled' = Append(scheduled, e) /\ token_budget' = token_budget - a.new
      /\ running' = Append(running, r)
  BY <1>0 DEF ScheduleWaiting, CanAdmit, AsksForSlots, Considers, LooksAtWaiting
<1>3. r \in Reqs /\ status[r] \in Pending /\ AsksWithin(r, o, a)
  BY <1>0, <1>1, <1>2, WaitingArgsFacts
<1> DEFINE t == TotalComputed(a)
           m == a.new
<1>4. /\ t \in Int /\ m \in Int /\ t + m <= Len(tokens[r]) /\ m > 0 /\ m <= token_budget
      /\ Len(tokens[r]) < MaxModelLen /\ Len(tokens[r]) \in Nat /\ token_budget \in Int
      /\ MaxModelLen \in Nat
  <2>1. t \in Int /\ m \in Int /\ t + m <= Len(tokens[r])
    BY <1>3 DEF AsksWithin
  <2>2. m > 0 /\ m <= token_budget
    BY <1>2, <1>3 DEF AsksWithin
  <2>3. status[r] \notin Finished
    BY <1>3 DEF Pending, Finished
  <2>4. Len(tokens[r]) < MaxModelLen
    BY <1>1, <1>3, <2>3 DEF Short
  <2> QED BY <2>1, <2>2, <2>4, <1>1, <1>3, KVCacheManagerAssumption DEF Numbers
<1>5. e.req = r /\ e.n = m
  BY <1>0
<1>6. num_computed_tokens'[r] = t /\ \A q \in Reqs \ {r} : num_computed_tokens'[q] = num_computed_tokens[q]
  BY <1>1, <1>2, <1>3 DEF Numbers
<1> HIDE DEF t, m
<1> DEFINE Fine(x) == x.n > 0 /\ num_computed_tokens'[x.req] + x.n < MaxModelLen
<1>7. Fine(e)
  <2>1. t + m < MaxModelLen
    BY <1>4
  <2> QED BY <2>1, <1>4, <1>5, <1>6
<1>8. ASSUME NEW i \in 1..Len(scheduled) PROVE scheduled[i].req # r /\ Fine(scheduled[i])
  <2>0. PICK x : x = scheduled[i]
    OBVIOUS
  <2>1. x.req \in Reqs /\ status[x.req] = "RUNNING"
    BY <1>1, <1>8, <2>0 DEF Fits
  <2>2. x.req # r
    BY <2>1, <1>3 DEF Pending
  <2>3. Worth(x)
    BY <2>0, <1>1, <1>8 DEF Entries
  <2>4. num_computed_tokens'[x.req] = num_computed_tokens[x.req]
    BY <2>1, <2>2, <1>6
  <2>5. Fine(x)
    BY <2>3, <2>4 DEF Worth
  <2> QED BY <2>0, <2>2, <2>5
<1>9. Entries'
  <2>1. ASSUME NEW i \in 1..Len(scheduled') PROVE Worth(scheduled[i])'
    <3>1. PICK x : x = scheduled'[i]
      OBVIOUS
    <3>2. (i \in 1..Len(scheduled) /\ x = scheduled[i]) \/ x = e
      BY <1>1, <1>2, <2>1, <3>1, AppendCases
    <3>3. Fine(x)
      <4>1. CASE x = e
        BY <4>1, <1>7
      <4>2. CASE i \in 1..Len(scheduled) /\ x = scheduled[i]
        BY <4>2, <1>8
      <4> QED BY <3>2, <4>1, <4>2
    <3> QED BY <3>1, <3>3 DEF Worth
  <2>2. Once(scheduled)
    BY <1>1 DEF Entries
  <2>3. \A i \in 1..Len(scheduled) : scheduled[i].req # e.req
    BY <1>5, <1>8
  <2>4. Once(scheduled')
    BY <2>2, <2>3, <1>1, <1>2, OneMoreOnce
  <2> QED BY <2>1, <2>4, <1>2 DEF Entries
<1>10. Budget'
  <2>1. TotalTokens(scheduled') = TotalTokens(scheduled) + m /\ TotalTokens(scheduled) \in Int
    BY <1>1, <1>2, <1>4, <1>5, TotalOfAppend
  <2>2. TotalTokens(scheduled) + token_budget = MaxNumScheduledTokens
    BY <1>1, <1>2 DEF Budget, Settled
  <2>3. token_budget' = token_budget - m
    BY <1>2 DEF m
  <2>4. token_budget' >= 0 /\ TotalTokens(scheduled') + token_budget' = MaxNumScheduledTokens
    BY <2>1, <2>2, <2>3, <1>4
  <2> QED BY <2>4, <1>2 DEF Budget, Settled
<1>11. Len(running') <= MaxNumRunningReqs
  <2>1. running \in Seq(Reqs) /\ Len(running) \in Nat
    BY <1>1, QueueElements DEF Queue
  <2>2. Len(running') = Len(running) + 1
    BY <2>1, <1>2, <1>3
  <2> QED BY <2>1, <2>2, <1>1, <1>2, SchedulerAssumption
<1>12. Allocating'
  BY <1>2 DEF Allocating
<1> QED BY <1>9, <1>10, <1>11, <1>12 DEF Limits

(* When one of the queue leaves, each other is where it was, or closer by  *)
(* one when it was behind.                                                 *)
LEMMA ClosesUp ==
    ASSUME NEW q, Queue(q), NEW p \in 1..Len(q), NEW o, o = Without(q, q[p]),
           NEW j \in 1..Len(q), j # p
    PROVE  \E k \in 1..Len(o) : o[k] = q[j] /\ k = IF j < p THEN j ELSE j - 1
<1> DEFINE k == IF j < p THEN j ELSE j - 1
<1>1. /\ Len(q) \in Nat /\ Len(o) = Len(q) - 1
      /\ \A i \in 1..(Len(q) - 1) : o[i] = IF i < p THEN q[i] ELSE q[i + 1]
  BY WithoutAt
<1>2. CASE j < p
  <2>1. j \in 1..(Len(q) - 1)
    BY <1>1, <1>2
  <2> QED BY <1>1, <1>2, <2>1
<1>3. CASE ~(j < p)
  <2>1. j - 1 \in 1..(Len(q) - 1) /\ ~(j - 1 < p) /\ (j - 1) + 1 = j
    BY <1>1, <1>3
  <2> QED BY <1>1, <1>3, <2>1
<1> QED BY <1>2, <1>3

\* x is in the queue q, in front of position m.
InFront(q, x, m) == \E k \in 1..Len(q) : k < m /\ q[k] = x

(* A victim of this step had its place in front of the loop's; when it is  *)
(* taken out, the loop steps back by one and still has passed who it had.  *)
LEMMA StillPassed ==
    ASSUME NEW q, Queue(q), NEW p \in 1..Len(q), NEW o, o = Without(q, q[p]),
           NEW d \in {0, 1}, NEW m \in Int, d = 1 => p < m,
           NEW j \in 1..Len(q), j # p, j < m
    PROVE  InFront(o, q[j], m - d)
<1>1. PICK k \in 1..Len(o) : o[k] = q[j] /\ k = IF j < p THEN j ELSE j - 1
  BY ClosesUp
<1>2. k < m - d
  BY <1>1
<1> QED BY <1>1, <1>2 DEF InFront

(* Without a request everybody else is scheduled once, as before.          *)
LEMMA OthersOnce ==
    ASSUME NEW s, IsSeq(s), Once(s), NEW v, NEW o, o = Only(s, {x \in Elements(s) : x.req # v})
    PROVE  Once(o)
<1> DEFINE U == Elements(s)
           S == {x \in U : x.req # v}
<1>1. s \in Seq(U)
  BY DEF IsSeq
<1>2. \A i, j \in 1..Len(s) : s[i] = s[j] /\ s[i] \in S => i = j
  BY DEF Once
<1>3. Elements(s) = U
  OBVIOUS
<1> HIDE DEF U
<1>4. o = Only(s, S)
  BY <1>3
<1> HIDE DEF S
<1>5. Elements(o) = Elements(s) \cap S /\ Distinct(o)
  <2>1. /\ Elements(Only(s, S)) = Elements(s) \cap S
        /\ (\A i, j \in 1..Len(s) : s[i] = s[j] /\ s[i] \in S => i = j) => Distinct(Only(s, S))
    BY <1>1, OnlyKeeps
  <2> QED BY <2>1, <1>2, <1>4
<1>6. ASSUME NEW i \in 1..Len(o), NEW j \in 1..Len(o), o[i].req = o[j].req PROVE i = j
  <2>1. o[i] \in Elements(s) /\ o[j] \in Elements(s)
    BY <1>5 DEF Elements
  <2>2. PICK a \in 1..Len(s) : s[a] = o[i]
    BY <2>1 DEF Elements
  <2>3. PICK b \in 1..Len(s) : s[b] = o[j]
    BY <2>1 DEF Elements
  <2>4. a = b
    BY <2>2, <2>3, <1>6 DEF Once
  <2>5. o[i] = o[j]
    BY <2>2, <2>3, <2>4
  <2> QED BY <2>5, <1>5 DEF Distinct
<1> QED BY <1>6 DEF Once

(* What a request was scheduled for goes out of the total with it.         *)
LEMMA TotalWithout ==
    ASSUME NEW s, Counted(s), Once(s),
           NEW d \in 1..Len(s), NEW o, o = Only(s, {x \in Elements(s) : x.req # s[d].req})
    PROVE  /\ Counted(o) /\ TotalTokens(s) \in Int
           /\ TotalTokens(o) = TotalTokens(s) - s[d].n
<1> DEFINE S == {x \in Elements(s) : x.req # s[d].req}
<1>1. \A i \in 1..Len(s) : s[i] \in S <=> i # d
  <2> TAKE i \in 1..Len(s)
  <2>1. s[i] \in Elements(s)
    BY DEF Elements
  <2> QED BY <2>1 DEF Once
<1> HIDE DEF S
<1>2. /\ Counted(Only(s, S)) /\ TotalTokens(s) \in Int
      /\ TotalTokens(Only(s, S)) = TotalTokens(s) - s[d].n
  BY <1>1, TotalOfRest
<1> QED BY <1>2 DEF S

(* A running request is preempted: what this step had scheduled for it     *)
(* goes back to the budget.                                                *)
LEMMA PreemptWithin ==
    ASSUME BlockInv, LimitInv, Preempt
    PROVE  Limits'
<1>0. PICK r, v, u : r = current.req /\ v = Victim /\ u = Undo(v)
  OBVIOUS
<1>1. /\ Entries /\ Budget /\ Allocating /\ Len(running) <= MaxNumRunningReqs
      /\ Picked /\ Numbers /\ Queue(running) /\ IsSeq(scheduled) /\ req_index \in Int
      /\ Counted(scheduled) /\ DOMAIN scheduled = 1..Len(scheduled) /\ token_budget \in Int
  BY ScheduledCounted DEF LimitInv, BlockInv, QueueInv, Match, Loop, Numbers
<1>2. /\ pc = "alloc" /\ num_computed_tokens' = [num_computed_tokens EXCEPT ![v] = 0]
      /\ running' = Without(running, v)
      /\ scheduled' = IF u THEN Only(scheduled, {x \in Elements(scheduled) : x.req # v})
                      ELSE scheduled
      /\ token_budget' = token_budget + IF u THEN ScheduledTokens(v) ELSE 0
      /\ req_index' = req_index - IF u THEN 1 ELSE 0
      /\ pc' = IF v = r THEN "finish" ELSE "alloc"
      /\ current' = IF v = r THEN Nobody ELSE current
  BY <1>0 DEF Preempt, _preempt_request
<1>3. /\ Worth(current) /\ current.n <= token_budget /\ ~IsScheduled(r) /\ current.req \in Reqs
      /\ \E j \in 1..Len(running) : j <= req_index /\ running[j] = r
  BY <1>0, <1>1, <1>2 DEF Allocating, Picked, Fits
<1>4. PICK p \in 1..Len(running) : running[p] = v
  <2>1. running # <<>>
    <3>1. r \in Elements(running)
      BY <1>3 DEF Elements
    <3> QED BY <3>1, <1>1, QueueElements
  <2> QED BY <2>1, <1>0, <1>1, VictimRuns DEF Elements
<1>5. Len(running) \in Nat /\ Len(running') = Len(running) - 1 /\ v \in Reqs
  <2>1. Len(running) \in Nat /\ Len(running') = Len(running) - 1
    BY <1>1, <1>2, <1>4, WithoutAt
  <2>2. v \in Elements(running)
    BY <1>4 DEF Elements
  <2> QED BY <2>1, <2>2, <1>1, QueueElements
<1>6. Len(running') <= MaxNumRunningReqs
  BY <1>1, <1>5, SchedulerAssumption
<1> DEFINE d == IF u THEN 1 ELSE 0
<1>7. d \in {0, 1} /\ (d = 1 => p < req_index) /\ req_index' = req_index - d
  <2>1. ASSUME u PROVE p < req_index
    <3>1. PICK i \in 1..Len(scheduled) : scheduled[i].req = v
      BY <1>0, <1>1, <2>1 DEF Undo, IsScheduled
    <3>2. PICK j \in 1..Len(running) : j < req_index /\ running[j] = v
      BY <1>1, <1>2, <3>1 DEF Entries, Passed
    <3>3. j = p
      BY <1>1, <1>4, <3>2 DEF Queue, Distinct
    <3> QED BY <3>2, <3>3
  <2> QED BY <2>1, <1>2
<1> HIDE DEF d
<1>8. ASSUME NEW j \in 1..Len(running), running[j] # v, NEW m \in Int, j < m, d = 1 => p < m
      PROVE  InFront(running', running[j], m - d)
  <2>1. j # p
    BY <1>4, <1>8
  <2>2. running' = Without(running, running[p])
    BY <1>2, <1>4
  <2> QED BY <2>1, <2>2, <1>1, <1>7, <1>8, StillPassed
<1>9. ASSUME NEW x, Worth(x), x.req \in Reqs, x.req # v PROVE Worth(x)'
  <2>1. num_computed_tokens'[x.req] = num_computed_tokens[x.req]
    BY <1>1, <1>2, <1>9 DEF Numbers
  <2> QED BY <2>1, <1>9 DEF Worth
<1>10. ASSUME NEW i \in 1..Len(scheduled'), NEW x, x = scheduled'[i]
       PROVE  Worth(x)' /\ Passed(x.req)' /\ x.req # r
  <2>1. x \in Elements(scheduled) /\ x.req # v
    BY <1>0, <1>10, PreemptLeaves
  <2>2. PICK a \in 1..Len(scheduled) : scheduled[a] = x
    BY <2>1 DEF Elements
  <2>3. x.req \in Reqs /\ Worth(x)
    BY <1>1, <2>2 DEF Entries, Picked, Fits
  <2>4. Worth(x)'
    BY <2>1, <2>3, <1>9
  <2>5. PICK j \in 1..Len(running) : j < req_index /\ running[j] = x.req
    BY <1>1, <1>2, <2>2 DEF Entries, Passed
  <2>6. InFront(running', x.req, req_index - d)
    BY <1>1, <1>7, <1>8, <2>1, <2>5
  <2>7. x.req # r
    BY <1>1, <1>3, <2>2 DEF IsScheduled
  <2> QED BY <2>4, <2>6, <2>7, <1>7 DEF Passed, InFront
<1>11. Once(scheduled')
  <2>1. Once(scheduled)
    BY <1>1 DEF Entries
  <2>2. CASE u
    <3>1. scheduled' = Only(scheduled, {x \in Elements(scheduled) : x.req # v})
      BY <1>2, <2>2
    <3> QED BY <2>1, <3>1, <1>1, OthersOnce
  <2>3. CASE ~u
    BY <2>1, <2>3, <1>2
  <2> QED BY <2>2, <2>3
<1>12. Entries'
  <2>1. ASSUME NEW i \in 1..Len(scheduled') PROVE Worth(scheduled[i])' /\ Passed(scheduled[i].req)'
    <3>1. PICK x : x = scheduled'[i]
      OBVIOUS
    <3>2. Worth(x)' /\ Passed(x.req)'
      BY <1>10, <2>1, <3>1
    <3> QED BY <3>1, <3>2 DEF Worth, Passed
  <2> QED BY <2>1, <1>11 DEF Entries
<1>13. /\ token_budget' >= token_budget
       /\ TotalTokens(scheduled') + token_budget' = TotalTokens(scheduled) + token_budget
  <2>1. CASE u
    <3>1. scheduled' = Only(scheduled, {x \in Elements(scheduled) : x.req # v})
          /\ token_budget' = token_budget + ScheduledTokens(v) /\ IsScheduled(v)
      BY <1>0, <1>2, <2>1 DEF Undo
    <3> DEFINE i == CHOOSE j \in DOMAIN scheduled : scheduled[j].req = v
    <3>2. i \in 1..Len(scheduled) /\ scheduled[i].req = v /\ ScheduledTokens(v) = scheduled[i].n
      BY <1>1, <3>1 DEF IsScheduled, ScheduledTokens
    <3> HIDE DEF i
    <3>3. Once(scheduled)
      BY <1>1 DEF Entries
    <3>4. TotalTokens(scheduled) \in Int /\ TotalTokens(scheduled') = TotalTokens(scheduled) - scheduled[i].n
      BY <1>1, <3>1, <3>2, <3>3, TotalWithout
    <3>5. scheduled[i].n \in Int /\ scheduled[i].n > 0
      BY <1>1, <3>2 DEF Entries, Worth, Counted
    <3> QED BY <1>1, <3>1, <3>2, <3>4, <3>5
  <2>2. CASE ~u
    <3>1. scheduled' = scheduled /\ token_budget' = token_budget
      BY <1>1, <1>2, <2>2
    <3> QED BY <3>1, <1>1
  <2> QED BY <2>1, <2>2
<1>14. token_budget' \in Int
  <2>1. Numbers'
    BY NextBlocks DEF BlockInv, Next, Engine
  <2> QED BY <2>1 DEF Numbers
<1>15. Budget'
  <2>1. token_budget >= 0 /\ TotalTokens(scheduled) + token_budget = MaxNumScheduledTokens
    BY <1>1, <1>2 DEF Budget, Settled
  <2>2. token_budget' >= 0 /\ TotalTokens(scheduled') + token_budget' = MaxNumScheduledTokens
    BY <2>1, <1>1, <1>13, <1>14
  <2> QED BY <2>2, <1>2 DEF Budget, Settled
<1>16. Allocating'
  <2>1. SUFFICES ASSUME v # r PROVE Allocating'
    BY <1>2 DEF Allocating
  <2>2. PICK c : c = current /\ c = current'
    BY <1>2, <2>1
  <2>3. Worth(c)'
    BY <1>0, <1>3, <1>9, <2>1, <2>2
  <2>4. c.n <= token_budget'
    <3>1. c.n \in Int /\ c.n <= token_budget
      BY <1>1, <1>2, <1>3, <2>2 DEF Picked, Fits
    <3> QED BY <3>1, <1>1, <1>13, <1>14
  <2>5. \A i \in DOMAIN scheduled' : scheduled'[i].req # r
    <3>1. DOMAIN scheduled' = 1..Len(scheduled')
      <4>1. BlockInv'
        BY NextBlocks DEF Next, Engine
      <4>2. Loop'
        BY <4>1 DEF BlockInv, QueueInv
      <4> QED BY <4>2 DEF Loop, IsSeq
    <3> QED BY <3>1, <1>10
  <2>6. \E j \in 1..Len(running') : j <= req_index' /\ running'[j] = r
    <3>1. PICK j \in 1..Len(running) : j <= req_index /\ running[j] = r
      BY <1>3
    <3>2. j < req_index + 1 /\ req_index + 1 \in Int /\ (d = 1 => p < req_index + 1)
      BY <3>1, <1>1, <1>7
    <3>3. InFront(running', r, (req_index + 1) - d)
      BY <3>1, <3>2, <1>8, <2>1
    <3>4. PICK k \in 1..Len(running') : k < (req_index + 1) - d /\ running'[k] = r
      BY <3>3 DEF InFront
    <3>5. k <= req_index'
      BY <3>4, <1>1, <1>7
    <3> QED BY <3>4, <3>5
  <2>7. c.req = r
    BY <1>0, <2>2
  <2> QED BY <2>2, <2>3, <2>4, <2>5, <2>6, <2>7 DEF Allocating, Worth, IsScheduled
<1> QED BY <1>6, <1>12, <1>15, <1>16 DEF Limits

(* Every step keeps to the limits.                                         *)
LEMMA NextLimits == BlockInv /\ LimitInv /\ [Next]_vars => LimitInv'
<1> SUFFICES ASSUME BlockInv, LimitInv, [Next]_vars PROVE LimitInv'
  OBVIOUS
<1>1. \A r \in Reqs : Short(r)'
  BY NextShort
<1>2. Queue(running) /\ Len(running) \in Nat
  BY QueueElements DEF BlockInv, QueueInv, Match
<1>3. ASSUME Settled, Settled', UNCHANGED <<scheduled, token_budget>>, Len(running') <= Len(running)
      PROVE  Limits'
  BY <1>3, SettledStep
<1>4. ASSUME Settled, Settled', UNCHANGED <<scheduled, token_budget, running>> PROVE Limits'
  BY <1>2, <1>3, <1>4
<1>5. ASSUME NEW r \in Reqs, AddRequest(r) PROVE Limits'
  BY <1>4, <1>5 DEF AddRequest, Settled, locals
<1>6. ASSUME NEW r \in Reqs, AbortRequest(r) \/ FailRequest(r) PROVE Limits'
  <2>1. RemoveFromQueue(r) /\ Settled /\ Settled' /\ UNCHANGED <<scheduled, token_budget>>
    BY <1>6 DEF AbortRequest, FailRequest, Settled, locals
  <2>2. Len(running') <= Len(running)
    BY <2>1, RemovalShortens
  <2> QED BY <2>1, <2>2, <1>3
<1>7. ASSUME NEW force \in ResetModes, ResetPrefixCache(force) PROVE Limits'
  <2>1. /\ Settled /\ Settled' /\ UNCHANGED <<scheduled, token_budget>>
        /\ running' = IF force THEN <<>> ELSE running
    BY <1>7 DEF ResetPrefixCache, Settled, locals
  <2>2. Len(running') <= Len(running)
    <3>1. running' = <<>> \/ running' = running
      BY <2>1
    <3>2. ASSUME running' = <<>> PROVE Len(running') = 0
      BY <3>2
    <3> QED BY <3>1, <3>2, <1>2
  <2> QED BY <2>1, <2>2, <1>3
<1>8. ASSUME AwaitLast \/ BeginUpdate \/ EndUpdate PROVE Limits'
  <2>1. Settled /\ Settled' /\ UNCHANGED <<locals, queues>>
    BY <1>8 DEF AwaitLast, BeginUpdate, EndUpdate, Settled
  <2>2. UNCHANGED <<scheduled, token_budget, running>>
    BY <2>1 DEF locals, queues
  <2> QED BY <2>1, <2>2, <1>4
<1>9. ASSUME SkipOutput \/ DiscardOutput PROVE Limits'
  <2>1. Settled /\ Settled' /\ UNCHANGED <<locals, queues>>
    BY <1>9 DEF SkipOutput, DiscardOutput, NextOutput, Settled
  <2>2. UNCHANGED <<scheduled, token_budget, running>>
    BY <2>1 DEF locals, queues
  <2> QED BY <2>1, <2>2, <1>4
<1>10. ASSUME NEW eos \in BOOLEAN, AcceptOutput(eos) PROVE Limits'
  <2>1. PICK r : r = output[1].req
    OBVIOUS
  <2>2. /\ Settled /\ Settled' /\ UNCHANGED <<scheduled, token_budget>> /\ ~IsGone(r) /\ pc = "output"
        /\ RemoveFromQueue(r) \/ UNCHANGED running
    BY <1>10, <2>1 DEF AcceptOutput, NextOutput, Settled, locals, queues
  <2>3. r \in Reqs
    <3>1. Named(output, Arrivals) /\ output # <<>>
      BY <2>2 DEF BlockInv, BatchInv
    <3>2. 1 \in 1..Len(output)
      BY <3>1 DEF Named, IsSeq
    <3> QED BY <2>1, <3>1, <3>2 DEF Named, Arrivals
  <2>4. Len(running') <= Len(running)
    BY <2>2, <2>3, <1>2, RemovalShortens
  <2> QED BY <2>2, <2>4, <1>3
<1>11. ASSUME NEW r \in Reqs, FreeSent(r) PROVE Limits'
  BY <1>4, <1>11 DEF FreeSent, Settled, locals, queues
<1>12. ASSUME Connector PROVE Limits'
  <2>1. Settled /\ Settled' /\ UNCHANGED <<locals, queues>>
    BY <1>12 DEF Connector, LookupDone, LoadFails, LoadDone, SendDone, Executing, Settled
  <2>2. UNCHANGED <<scheduled, token_budget, running>>
    BY <2>1 DEF locals, queues
  <2> QED BY <2>1, <2>2, <1>4
<1>13. ASSUME NEW bad, FinishSchedule(bad) PROVE Limits'
  <2>1. scheduled' = <<>> /\ token_budget' = 0 /\ Settled' /\ UNCHANGED running
    BY <1>13 DEF FinishSchedule, Settled, queues
  <2>2. Len(running) <= MaxNumRunningReqs
    BY DEF LimitInv
  <2> QED BY <2>1, <2>2, NothingScheduled
<1>14. ASSUME EndRunning \/ SkipWaiting \/ \E o \in AllAnswers : LoadWaiting(o) \/ EndWaiting(o) PROVE Limits'
  <2>1. /\ UNCHANGED <<running, scheduled, token_budget, num_computed_tokens>>
        /\ ~Settled /\ pc' \in {"waiting", "finish"}
    BY <1>14 DEF EndRunning, SkipWaiting, LoadWaiting, EndWaiting, CanAdmit, AsksForSlots, Considers,
                 LooksAtWaiting, Settled, locals, queues, requests
  <2>2. /\ UNCHANGED <<running, scheduled, token_budget>>
        /\ \A q \in Reqs : status[q] = "RUNNING" => num_computed_tokens'[q] = num_computed_tokens[q]
    BY <2>1
  <2> QED BY <2>1, <2>2, StillWithin
<1>15. ASSUME _update_waiting_for_remote_kv PROVE Limits'
  <2>1. PICK r : r = waiting[1]
    OBVIOUS
  <2>2. /\ UNCHANGED <<running, scheduled, token_budget>> /\ ~Settled /\ pc' = "waiting" /\ IsLoading(r)
        /\ num_computed_tokens' = [num_computed_tokens EXCEPT ![r] = AfterLoad(r).computed]
    BY <1>15, <2>1 DEF _update_waiting_for_remote_kv, LooksAtWaiting, Settled, locals, queues
  <2>3. \A q \in Reqs : status[q] = "RUNNING" => num_computed_tokens'[q] = num_computed_tokens[q]
    BY <2>2 DEF IsLoading, BlockInv, Numbers
  <2>4. pc' \in {"waiting", "finish"}
    BY <2>2
  <2> QED BY <2>2, <2>3, <2>4, StillWithin
<1>16. ASSUME UNCHANGED vars PROVE Limits'
  <2>1. UNCHANGED <<running, scheduled, token_budget, num_computed_tokens, pc, current, req_index>>
    BY <1>16 DEF vars, requests, queues, locals
  <2>2. /\ Entries /\ Allocating /\ Budget /\ Len(running) <= MaxNumRunningReqs
    BY DEF LimitInv
  <2>3. Entries'
    BY <2>1, <2>2 DEF Entries, Worth, Passed
  <2>4. Allocating'
    BY <2>1, <2>2 DEF Allocating, Worth, IsScheduled
  <2>5. Budget'
    BY <2>1, <2>2 DEF Budget, Settled
  <2> QED BY <2>1, <2>2, <2>3, <2>4, <2>5 DEF Limits
<1>17. ASSUME NEW o \in AllAnswers, ScheduleWaiting(o) PROVE Limits'
  BY <1>17, ScheduleWaitingWithin
<1>18. ASSUME BeginSchedule \/ SkipRunning \/ PickRunning \/ ScheduleRunning \/ Preempt PROVE Limits'
  BY <1>18, BeginScheduleWithin, SkipRunningWithin, PickRunningWithin, ScheduleRunningWithin, PreemptWithin
<1>19. ASSUME Client PROVE Limits'
  BY <1>5, <1>6, <1>7, <1>19 DEF Client
<1>20. ASSUME Engine PROVE Limits'
  <2>1. \/ AwaitLast \/ BeginUpdate \/ EndUpdate \/ SkipOutput \/ DiscardOutput
        \/ EndRunning \/ SkipWaiting \/ _update_waiting_for_remote_kv
        \/ BeginSchedule \/ SkipRunning \/ PickRunning \/ ScheduleRunning \/ Preempt
        \/ \E o \in AllAnswers : ScheduleWaiting(o) \/ LoadWaiting(o) \/ EndWaiting(o)
        \/ \E r \in Reqs : FailRequest(r) \/ FreeSent(r)
        \/ \E bad \in SUBSET Blocks : FinishSchedule(bad)
        \/ \E eos \in BOOLEAN : AcceptOutput(eos)
    BY <1>20, Zenon DEF Engine
  <2> QED BY <2>1, <1>6, <1>8, <1>9, <1>10, <1>11, <1>13, <1>14, <1>15, <1>17, <1>18
<1>21. Limits'
  BY <1>12, <1>16, <1>19, <1>20 DEF Next
<1> QED BY <1>1, <1>21 DEF LimitInv, Limits

(* The prompts are short and nothing is scheduled yet.                     *)
LEMMA InitLimits == Init => LimitInv
<1> SUFFICES ASSUME Init PROVE LimitInv
  OBVIOUS
<1>1. /\ tokens = Prompt /\ status = [r \in Reqs |-> "NEW"] /\ pc = "idle"
      /\ running = <<>> /\ scheduled = <<>> /\ token_budget = 0
  BY DEF Init
<1>2. ASSUME NEW r \in Reqs PROVE Short(r)
  <2>1. Len(Prompt[r]) \in 1..(MaxModelLen - 1) /\ MaxModelLen \in Nat
    BY SchedulerAssumption, KVCacheManagerAssumption
  <2> QED BY <2>1, <1>1 DEF Short
<1>3. Len(running) = 0 /\ Len(scheduled) = 0 /\ TotalTokens(scheduled) = 0
  BY <1>1, TotalOfNone
<1>4. Entries /\ Allocating /\ Budget
  BY <1>1, <1>3 DEF Entries, Once, Allocating, Budget, Settled
<1>5. Len(running) <= MaxNumRunningReqs
  BY <1>3, SchedulerAssumption
<1> QED BY <1>2, <1>4, <1>5 DEF LimitInv

(* It is more than ScheduleWithinLimits.                                   *)
LEMMA LimitInvSuffices == BlockInv /\ LimitInv => ScheduleWithinLimits
<1> SUFFICES ASSUME BlockInv, LimitInv PROVE ScheduleWithinLimits
  OBVIOUS
<1>1. DOMAIN scheduled = 1..Len(scheduled)
  BY ScheduledCounted
<1>2. \A i \in 1..Len(scheduled) : status[scheduled[i].req] = "RUNNING"
  BY DEF BlockInv, Picked, Fits
<1>3. \A i \in 1..Len(scheduled) : scheduled[i].n > 0
  BY DEF LimitInv, Entries, Worth
<1> QED BY <1>1, <1>2, <1>3 DEF LimitInv, Entries, Once, Budget, ScheduleWithinLimits

(* The assertions of schedule() hold whatever it meets: it schedules at    *)
(* least one and in all at most max_num_scheduled_tokens tokens, for no    *)
(* request twice, and has at most max_num_running_reqs running; under the  *)
(* priority policy a victim that was scheduled in the same step gives      *)
(* exactly its tokens back to the budget, and the loop over the running    *)
(* requests meets nobody again although it steps back.                     *)
THEOREM ScheduleStaysWithinLimits == Spec => []ScheduleWithinLimits
<1>1. Init => BlockInv /\ LimitInv
  BY InitBlocks, InitLimits
<1>2. (BlockInv /\ LimitInv) /\ [Next]_vars => (BlockInv /\ LimitInv)'
  BY NextBlocks, NextLimits
<1>3. Spec => [](BlockInv /\ LimitInv)
  BY <1>1, <1>2, PTL DEF Spec
<1> QED BY <1>3, LimitInvSuffices, PTL
=============================================================================
