------------------------ MODULE KVCacheSystem_proofs ------------------------
(***************************************************************************)
(* For every number of blocks, requests, tokens and every window: whatever *)
(* a scheduler does with the KV cache manager, no block is leaked or freed *)
(* while in use, the prefix cache map agrees with the blocks' hashes, no   *)
(* block is cached twice, a prefix counted as common is common, and the    *)
(* memory holds what the hash of a cached block says and what a request    *)
(* counts as computed.                                                     *)
(***************************************************************************)
EXTENDS KVCacheSystem, KVCacheManager_proofs

-----------------------------------------------------------------------------
\* The invariant: the bookkeeping is in order, and every request has tokens.
SystemInv ==
    /\ KVInv(kv)
    /\ tokens \in [Reqs -> Seq(Nat)] /\ \A r \in Reqs : Len(tokens[r]) >= 1
    /\ num_computed_tokens \in [Reqs -> Nat]

(* allocate_slots is called with proper arguments.                         *)
LEMMA StartArgsOK ==
    ASSUME SystemInv, NEW r \in Reqs, Idle(r), NEW ext \in Nat, NEW n \in Nat
    PROVE  ArgsOK(kv, r, StartArgs(r, ext, n))
<1>1. tokens[r] \in Seq(Nat) /\ Len(tokens[r]) >= 1 /\ KVInv(kv)
  BY DEF SystemInv
<1> DEFINE hit == get_computed_blocks(kv, tokens[r])
           a == StartArgs(r, ext, n)
<1>2. Usable(hit, kv.pool)
  BY <1>1, ComputedBlocksFacts
<1>3. hit \in Seq(Blocks)
  BY <1>2 DEF Usable
<1>4. Len(kv.req_to_blocks[r]) = 0
  BY DEF Idle
<1> HIDE DEF hit
<1>5. /\ a.tokens = tokens[r] /\ a.computed = 0 /\ a.new = n /\ a.hit = hit
      /\ a.external = ext /\ a.lookahead = 0
  BY DEF StartArgs, hit
<1> HIDE DEF a
<1> QED BY <1>1, <1>2, <1>3, <1>4, <1>5 DEF ArgsOK, a

(* The same for a running request.                                         *)
LEMMA ExtendArgsOK ==
    ASSUME SystemInv, NEW r \in Reqs, NEW n \in Nat
    PROVE  ArgsOK(kv, r, ExtendArgs(r, n))
<1>1. tokens[r] \in Seq(Nat) /\ num_computed_tokens[r] \in Nat /\ Lookahead \in Nat
  BY KVCacheSystemAssumption DEF SystemInv
<1> DEFINE a == ExtendArgs(r, n)
<1>2. /\ a.tokens = tokens[r] /\ a.computed = num_computed_tokens[r] /\ a.new = n
      /\ a.hit = <<>> /\ a.external = 0 /\ a.lookahead = Lookahead
  BY DEF ExtendArgs
<1>3. <<>> \in Seq(Blocks)
  OBVIOUS
<1> HIDE DEF a
<1> QED BY <1>1, <1>2, <1>3 DEF ArgsOK, a

(* Initially everything is in order.                                       *)
LEMMA InitSystem == Init => SystemInv
<1> SUFFICES ASSUME Init PROVE SystemInv
  OBVIOUS
<1>1. KVInv(kv)
  BY InitInOrder DEF Init
<1>2. tokens \in [Reqs -> Seq(Nat)] /\ \A r \in Reqs : Len(tokens[r]) >= 1
  BY KVCacheSystemAssumption DEF Init
<1>3. num_computed_tokens \in [Reqs -> Nat]
  BY DEF Init
<1> QED BY <1>1, <1>2, <1>3 DEF SystemInv

(* Every step keeps everything in order.                                   *)
LEMMA NextSystem == SystemInv /\ [Next]_vars => SystemInv'
<1> SUFFICES ASSUME SystemInv, [Next]_vars PROVE SystemInv'
  OBVIOUS
<1>1. /\ KVInv(kv) /\ tokens \in [Reqs -> Seq(Nat)] /\ \A r \in Reqs : Len(tokens[r]) >= 1
      /\ num_computed_tokens \in [Reqs -> Nat]
  BY DEF SystemInv
<1>2. MaxModelLen \in Nat
  BY KVCacheManagerAssumption
<1>3. ASSUME NEW r \in Reqs, NEW ext \in 0..MaxModelLen, NEW n \in 1..MaxModelLen, Start(r, ext, n)
      PROVE  SystemInv'
  <2> DEFINE a == StartArgs(r, ext, n)
  <2>1. ext \in Nat /\ n \in Nat
    BY <1>2
  <2>2. Idle(r) /\ kv' = allocate_slots(kv, r, a) /\ tokens' = tokens
    BY <1>3 DEF Start
  <2>3. ArgsOK(kv, r, a)
    BY <2>1, <2>2, StartArgsOK
  <2>4. \/ num_computed_tokens' = [num_computed_tokens EXCEPT ![r] = TotalComputed(a) + n]
        \/ num_computed_tokens' = num_computed_tokens
    BY <1>3 DEF Start
  <2>0. a.computed \in Nat
    BY DEF StartArgs
  <2> HIDE DEF a
  <2>5. KVInv(kv')
    BY <1>1, <2>2, <2>3, AllocateSlotsKeeps
  <2>6. TotalComputed(a) + n \in Nat
    <3>1. TotalComputed(a) \in Nat
      BY <2>0, <2>3, ArgsNumbers
    <3> QED BY <3>1, <2>1
  <2>7. num_computed_tokens' \in [Reqs -> Nat]
    BY <1>1, <2>4, <2>6
  <2> QED BY <1>1, <2>2, <2>5, <2>7 DEF SystemInv
<1>4. ASSUME NEW r \in Reqs, NEW ext \in 1..MaxModelLen, StartLoading(r, ext)
      PROVE  SystemInv'
  <2> DEFINE a == StartArgs(r, ext, 0)
  <2>1. ext \in Nat
    BY <1>2
  <2>2. /\ Idle(r) /\ kv' = allocate_slots(kv, r, a)
        /\ tokens' = tokens /\ num_computed_tokens' = num_computed_tokens
    BY <1>4 DEF StartLoading
  <2>3. ArgsOK(kv, r, a)
    BY <2>1, <2>2, StartArgsOK
  <2> HIDE DEF a
  <2>4. KVInv(kv')
    BY <1>1, <2>2, <2>3, AllocateSlotsKeeps
  <2> QED BY <1>1, <2>2, <2>4 DEF SystemInv
<1>5. ASSUME NEW r \in Reqs, FinishLoading(r)
      PROVE  SystemInv'
  <2> DEFINE size == Len(kv.req_to_blocks[r]) * BlockSize
             have == MinOf(size, Len(tokens[r]))
             n == IF have = Len(tokens[r]) THEN have - 1 ELSE have
  <2>1. /\ kv' = cache_blocks(kv, r, tokens[r], n)
        /\ num_computed_tokens' = [num_computed_tokens EXCEPT ![r] = n] /\ tokens' = tokens
    BY <1>5 DEF FinishLoading
  <2>2. size \in Nat /\ Len(tokens[r]) \in Nat /\ Len(tokens[r]) >= 1 /\ tokens[r] \in Seq(Nat)
    <3>1. Len(kv.req_to_blocks[r]) \in Nat
      BY <1>1, InOrder
    <3>2. BlockSize \in Nat /\ BlockSize > 0
      BY KVCacheManagerAssumption
    <3>3. size \in Nat
      BY <3>1, <3>2, TimesMonotone
    <3> QED BY <3>3, <1>1
  <2> HIDE DEF size
  <2>3. n \in 0..Len(tokens[r]) /\ n \in Nat
    BY <2>2 DEF MinOf
  <2> HIDE DEF n
  <2>4. KVInv(kv')
    BY <1>1, <2>1, <2>2, <2>3, CacheBlocksKeeps
  <2>5. num_computed_tokens' \in [Reqs -> Nat]
    BY <1>1, <2>1, <2>3
  <2> QED BY <1>1, <2>1, <2>4, <2>5 DEF SystemInv
<1>6. ASSUME NEW r \in Reqs, NEW n \in 1..MaxModelLen, Extend(r, n)
      PROVE  SystemInv'
  <2> DEFINE a == ExtendArgs(r, n)
  <2>1. n \in Nat
    BY <1>2
  <2>2. kv' = allocate_slots(kv, r, a) /\ tokens' = tokens
    BY <1>6 DEF Extend
  <2>3. ArgsOK(kv, r, a)
    BY <2>1, ExtendArgsOK
  <2> HIDE DEF a
  <2>4. KVInv(kv')
    BY <1>1, <2>2, <2>3, AllocateSlotsKeeps
  <2>5. \/ num_computed_tokens' = [num_computed_tokens EXCEPT ![r] = @ + n]
        \/ num_computed_tokens' = num_computed_tokens
    BY <1>6 DEF Extend
  <2>6. num_computed_tokens' \in [Reqs -> Nat]
    <3>1. num_computed_tokens \in [Reqs -> Nat]
      BY <1>1
    <3>2. num_computed_tokens[r] + n \in Nat
      BY <3>1, <2>1
    <3> QED BY <3>1, <3>2, <2>5
  <2> QED BY <1>1, <2>2, <2>4, <2>6 DEF SystemInv
<1>7. ASSUME NEW r \in Reqs, NEW t \in Vocab, Sample(r, t)
      PROVE  SystemInv'
  <2>1. /\ tokens' = [tokens EXCEPT ![r] = Append(tokens[r], t)]
        /\ kv' = kv /\ num_computed_tokens' = num_computed_tokens
    BY <1>7 DEF Sample
  <2>2. t \in Nat
    BY KVCacheSystemAssumption
  <2>3. Append(tokens[r], t) \in Seq(Nat) /\ Len(Append(tokens[r], t)) >= 1
    <3> DEFINE s == tokens[r]
    <3>1. s \in Seq(Nat)
      BY <1>1
    <3> HIDE DEF s
    <3>2. Append(s, t) \in Seq(Nat) /\ Len(Append(s, t)) = Len(s) + 1 /\ Len(s) \in Nat
      BY <3>1, <2>2, AppendProperties
    <3> QED BY <3>2 DEF s
  <2>4. tokens' \in [Reqs -> Seq(Nat)] /\ \A q \in Reqs : Len(tokens'[q]) >= 1
    BY <1>1, <2>1, <2>3
  <2> QED BY <1>1, <2>1, <2>4 DEF SystemInv
<1>8. ASSUME NEW r \in Reqs, NEW finished \in BOOLEAN, Free(r, finished)
      PROVE  SystemInv'
  <2>1. /\ kv' = free(kv, r)
        /\ num_computed_tokens' = [num_computed_tokens EXCEPT ![r] = 0]
        /\ tokens' = [tokens EXCEPT ![r] = IF finished THEN Prompt[r] ELSE tokens[r]]
    BY <1>8 DEF Free
  <2>2. KVInv(kv')
    BY <1>1, <2>1, FreeKeeps
  <2>3. Prompt[r] \in Seq(Nat) /\ Len(Prompt[r]) >= 1
    BY KVCacheSystemAssumption
  <2>4. tokens' \in [Reqs -> Seq(Nat)] /\ \A q \in Reqs : Len(tokens'[q]) >= 1
    BY <1>1, <2>1, <2>3
  <2>5. num_computed_tokens' \in [Reqs -> Nat]
    BY <1>1, <2>1
  <2> QED BY <2>2, <2>4, <2>5 DEF SystemInv
<1>9. ASSUME NEW b \in Blocks, Evict({b})
      PROVE  SystemInv'
  <2>1. /\ kv' = [kv EXCEPT !.pool = evict_blocks(@, {b})]
        /\ tokens' = tokens /\ num_computed_tokens' = num_computed_tokens
    BY <1>9 DEF Evict
  <2>2. {b} \in SUBSET Blocks
    OBVIOUS
  <2>3. KVInv(kv')
    BY <1>1, <2>1, <2>2, EvictManager
  <2> QED BY <1>1, <2>1, <2>3 DEF SystemInv
<1>10. CASE Reset
  <2>1. /\ kv' = [kv EXCEPT !.pool = reset_prefix_cache(@)]
        /\ tokens' = tokens /\ num_computed_tokens' = num_computed_tokens
    BY <1>10 DEF Reset
  <2>2. KVInv(kv')
    BY <1>1, <2>1, ResetManager
  <2> QED BY <1>1, <2>1, <2>2 DEF SystemInv
<1>11. CASE UNCHANGED vars
  BY <1>1, <1>11 DEF vars, SystemInv
<1> QED BY <1>3, <1>4, <1>5, <1>6, <1>7, <1>8, <1>9, <1>10, <1>11 DEF Next

(* The invariant of the system.                                            *)
THEOREM AlwaysInOrder == Spec => []SystemInv
  BY InitSystem, NextSystem, PTL DEF Spec

(* No block is leaked or freed while in use: at all times a block's         *)
(* reference count is the number of its holders, and the free queue lists  *)
(* exactly the blocks that have none, each once (touch, free_blocks,       *)
(* get_new_blocks of block_pool.py under every order of calls).            *)
THEOREM BlocksAccounted == Spec => []BlockAccounting
<1>1. SystemInv => BlockAccounting
  BY InOrderIsCorrect DEF SystemInv, BlockAccounting
<1> QED BY <1>1, AlwaysInOrder, PTL

(* The map from hashes to blocks and the blocks' own hashes agree at all    *)
(* times (BlockHashToBlockMap and _maybe_evict_cached_block).              *)
THEOREM HashMapAlwaysConsistent == Spec => []HashMapConsistent
<1>1. SystemInv => HashMapConsistent
  BY InOrderIsCorrect DEF SystemInv, HashMapConsistent
<1> QED BY <1>1, AlwaysInOrder, PTL

(* The assertions of cache_full_blocks and the block_hash setter hold: what *)
(* a request has not counted as cached has no hash, and shared blocks are  *)
(* at the same place in every table.                                       *)
THEOREM NeverCachedTwice == Spec => []NothingCachedTwice
<1>1. SystemInv => NothingCachedTwice
  BY InOrderIsCorrect DEF SystemInv, NothingCachedTwice
<1> QED BY <1>1, AlwaysInOrder, PTL

-----------------------------------------------------------------------------
(* The common prefix. *)

\* Whoever has blocks is known to the manager, and nobody counts the null block.
HoldersKnown(k) ==
    /\ \A r \in Reqs : Len(k.req_to_blocks[r]) > 0 => r \in k.known
    /\ k.pool.ref_cnt[NullBlock] = 0

(* An operation on the table of one request keeps that.                    *)
LEMMA HoldersStayKnown ==
    ASSUME NEW k, HoldersKnown(k), NEW m, NEW r \in Reqs, OthersSame(k, m, r),
           \/ m.known = k.known \cup {r}
           \/ m.known = k.known /\ Len(m.req_to_blocks[r]) = Len(k.req_to_blocks[r])
           \/ m.known = k.known \ {r} /\ m.req_to_blocks[r] = <<>>
    PROVE  HoldersKnown(m)
<1>1. m.pool.ref_cnt[NullBlock] = 0
  BY DEF HoldersKnown, OthersSame
<1>2. ASSUME NEW q \in Reqs, Len(m.req_to_blocks[q]) > 0 PROVE q \in m.known
  <2>1. CASE q # r
    <3>1. m.req_to_blocks[q] = k.req_to_blocks[q]
      BY <2>1 DEF OthersSame
    <3>2. q \in k.known
      BY <1>2, <3>1 DEF HoldersKnown
    <3> QED BY <2>1, <3>2
  <2>2. CASE q = r
    <3>1. m.req_to_blocks[r] # <<>>
      BY <1>2, <2>2
    <3> QED BY <1>2, <2>2, <3>1 DEF HoldersKnown
  <2> QED BY <2>1, <2>2
<1> QED BY <1>1, <1>2 DEF HoldersKnown

(* Every step keeps it.                                                    *)
LEMMA NextHoldersKnown ==
    SystemInv /\ HoldersKnown(kv) /\ [Next]_vars => HoldersKnown(kv')
<1> SUFFICES ASSUME SystemInv, HoldersKnown(kv), [Next]_vars PROVE HoldersKnown(kv')
  OBVIOUS
<1>1. KVInv(kv) /\ MaxModelLen \in Nat /\ tokens \in [Reqs -> Seq(Nat)] /\ kv \in Managers
      /\ kv.pool \in Pools
  BY KVCacheManagerAssumption, InOrder DEF SystemInv
<1>2. ASSUME NEW r \in Reqs, NEW a, ArgsOK(kv, r, a), kv' = allocate_slots(kv, r, a)
      PROVE  HoldersKnown(kv')
  <2>1. /\ OthersSame(kv, kv', r)
        /\ \/ kv'.known = kv.known \cup {r}
           \/ kv'.known = kv.known /\ Len(kv'.req_to_blocks[r]) = Len(kv.req_to_blocks[r])
    BY <1>1, <1>2, AllocateSlotsFrame DEF Allots
  <2> QED BY <2>1, HoldersStayKnown
<1>3. ASSUME NEW q, kv' = [kv EXCEPT !.pool = q], q.ref_cnt = kv.pool.ref_cnt
      PROVE  HoldersKnown(kv')
  <2>1. kv'.pool = q /\ kv'.known = kv.known /\ kv'.req_to_blocks = kv.req_to_blocks
    BY <1>1, <1>3 DEF Managers
  <2> QED BY <1>3, <2>1 DEF HoldersKnown
<1>4. ASSUME NEW r \in Reqs, NEW ext \in 0..MaxModelLen, NEW n \in 1..MaxModelLen, Start(r, ext, n)
      PROVE  HoldersKnown(kv')
  <2> DEFINE a == StartArgs(r, ext, n)
  <2>1. ext \in Nat /\ n \in Nat /\ Idle(r) /\ kv' = allocate_slots(kv, r, a)
    BY <1>1, <1>4 DEF Start
  <2>2. ArgsOK(kv, r, a)
    BY <2>1, StartArgsOK
  <2> HIDE DEF a
  <2> QED BY <2>1, <2>2, <1>2
<1>5. ASSUME NEW r \in Reqs, NEW ext \in 1..MaxModelLen, StartLoading(r, ext)
      PROVE  HoldersKnown(kv')
  <2> DEFINE a == StartArgs(r, ext, 0)
  <2>1. ext \in Nat /\ Idle(r) /\ kv' = allocate_slots(kv, r, a)
    BY <1>1, <1>5 DEF StartLoading
  <2>2. ArgsOK(kv, r, a)
    BY <2>1, StartArgsOK
  <2> HIDE DEF a
  <2> QED BY <2>1, <2>2, <1>2
<1>6. ASSUME NEW r \in Reqs, FinishLoading(r)
      PROVE  HoldersKnown(kv')
  <2> DEFINE size == Len(kv.req_to_blocks[r]) * BlockSize
             have == MinOf(size, Len(tokens[r]))
             n == IF have = Len(tokens[r]) THEN have - 1 ELSE have
  <2>1. kv' = cache_blocks(kv, r, tokens[r], n)
    BY <1>6 DEF FinishLoading
  <2>2. n \in Int
    <3>1. Len(kv.req_to_blocks[r]) \in Nat /\ BlockSize \in Nat
      BY <1>1, InOrder, KVCacheManagerAssumption
    <3>2. size \in Int /\ Len(tokens[r]) \in Nat
      BY <1>1, <3>1
    <3> HIDE DEF size
    <3> QED BY <3>2 DEF MinOf
  <2> HIDE DEF n
  <2>3. /\ OthersSame(kv, kv', r) /\ kv'.known = kv.known
        /\ kv'.req_to_blocks = kv.req_to_blocks
    BY <1>1, <2>1, <2>2, CacheBlocksFrame
  <2> QED BY <2>3, HoldersStayKnown
<1>7. ASSUME NEW r \in Reqs, NEW n \in 1..MaxModelLen, Extend(r, n)
      PROVE  HoldersKnown(kv')
  <2> DEFINE a == ExtendArgs(r, n)
  <2>1. n \in Nat /\ kv' = allocate_slots(kv, r, a)
    BY <1>1, <1>7 DEF Extend
  <2>2. ArgsOK(kv, r, a)
    BY <2>1, ExtendArgsOK
  <2> HIDE DEF a
  <2> QED BY <2>1, <2>2, <1>2
<1>8. ASSUME NEW r \in Reqs, NEW finished \in BOOLEAN, Free(r, finished)
      PROVE  HoldersKnown(kv')
  <2>1. kv' = free(kv, r)
    BY <1>8 DEF Free
  <2>2. /\ OthersSame(kv, kv', r) /\ kv'.known = kv.known \ {r}
        /\ kv'.req_to_blocks[r] = <<>>
    BY <1>1, <2>1, FreeFrame
  <2> QED BY <2>2, HoldersStayKnown
<1>9. ASSUME NEW b \in Blocks, Evict({b}) PROVE HoldersKnown(kv')
  <2> DEFINE q == evict_blocks(kv.pool, {b})
  <2>1. kv' = [kv EXCEPT !.pool = q]
    BY <1>9 DEF Evict
  <2>2. q.ref_cnt = kv.pool.ref_cnt
    BY <1>1 DEF evict_blocks, Pools
  <2> HIDE DEF q
  <2> QED BY <2>1, <2>2, <1>3
<1>10. CASE Reset
  <2> DEFINE q == reset_prefix_cache(kv.pool)
  <2>1. kv' = [kv EXCEPT !.pool = q]
    BY <1>10 DEF Reset
  <2>2. q.ref_cnt = kv.pool.ref_cnt
    BY <1>1 DEF reset_prefix_cache, Pools
  <2> HIDE DEF q
  <2> QED BY <2>1, <2>2, <1>3
<1>11. CASE (\E r \in Reqs, t \in Vocab : Sample(r, t)) \/ UNCHANGED vars
  <2>1. kv' = kv
    BY <1>11 DEF Sample, vars
  <2> QED BY <2>1
<1> QED BY <1>4, <1>5, <1>6, <1>7, <1>8, <1>9, <1>10, <1>11 DEF Next

(* The leading blocks that as many requests hold as are known are in every  *)
(* table that has blocks at all, at the same place.                        *)
LEMMA CommonPrefix ==
    ASSUME SystemInv, HoldersKnown(kv)
    PROVE  CommonPrefixSound
<1> DEFINE t == kv.req_to_blocks
           rc == kv.pool.ref_cnt
<1>1. /\ KVInv(kv) /\ t \in [Reqs -> Seq(Blocks)] /\ kv.known \in SUBSET Reqs
      /\ Counts(rc, t) /\ InPlace(t)
  BY InOrder DEF SystemInv, Accounted, TablesOK
<1> SUFFICES ASSUME NEW r \in Reqs, NEW q \in Reqs, ~Idle(r), ~Idle(q)
             PROVE  LET n == get_num_common_prefix_blocks(kv, r) IN
                    n <= Len(t[q]) /\ SubSeq(t[q], 1, n) = SubSeq(t[r], 1, n)
  BY DEF CommonPrefixSound
<1> DEFINE bs == t[r]
           cs == t[q]
           n == get_num_common_prefix_blocks(kv, r)
           common == {m \in 0..Len(bs) : \A i \in 1..m : rc[bs[i]] = Cardinality(kv.known)}
<1>2. /\ bs \in Seq(Blocks) /\ cs \in Seq(Blocks) /\ Len(bs) \in Nat /\ Len(cs) \in Nat
      /\ Len(bs) > 0 /\ Len(cs) > 0
  <2>1. bs \in Seq(Blocks) /\ cs \in Seq(Blocks) /\ bs # <<>> /\ cs # <<>>
    BY <1>1 DEF Idle
  <2> HIDE DEF bs, cs
  <2> QED BY <2>1
<1>3. r \in kv.known /\ q \in kv.known /\ IsFiniteSet(kv.known)
  <2>1. IsFiniteSet(Reqs)
    BY KVCacheManagerAssumption
  <2>2. IsFiniteSet(kv.known)
    BY <2>1, <1>1, FS_Subset
  <2> QED BY <1>2, <2>2 DEF HoldersKnown
<1>4. n = 0 \/ n \in common
  <2>1. CASE SlidingWindow # 0
    BY <2>1 DEF get_num_common_prefix_blocks
  <2>2. CASE SlidingWindow = 0
    <3>1. n = CHOOSE x \in common : \A m \in common : m <= x
      BY <2>2 DEF get_num_common_prefix_blocks
    <3>2. 0 \in common
      BY <1>2
    <3>3. common \in SUBSET Nat /\ (\A m \in common : m <= Len(bs)) /\ common # {}
      BY <1>2, <3>2
    <3> HIDE DEF common, n, bs
    <3>4. \E x \in common : \A m \in common : m <= x
      BY <1>2, <3>3, GreatestElement
    <3> QED BY <3>1, <3>4
  <2> QED BY <2>1, <2>2
<1>5. n \in 0..Len(bs) /\ \A i \in 1..n : rc[bs[i]] = Cardinality(kv.known)
  <2>1. CASE n = 0
    BY <2>1, <1>2
  <2>2. CASE n \in common
    <3> HIDE DEF n
    <3> QED BY <2>2
  <2> QED BY <2>1, <2>2, <1>4
<1> HIDE DEF n
<1>6. ASSUME NEW i \in 1..n PROVE i \in 1..Len(cs) /\ cs[i] = bs[i]
  <2> DEFINE b == bs[i]
             H == Holders(t, b)
  <2>1. i \in 1..Len(bs) /\ b \in Blocks /\ rc[b] = Cardinality(kv.known)
    BY <1>2, <1>5
  <2>2. b # NullBlock
    <3>1. Cardinality(kv.known) # 0
      <4>1. kv.known # {}
        BY <1>3
      <4> QED BY <4>1, <1>3, FS_EmptySet
    <3> QED BY <3>1, <2>1 DEF HoldersKnown
  <2>3. rc[b] = Cardinality(H)
    <3> HIDE DEF b
    <3> QED BY <2>1, <2>2, <1>1 DEF Counts
  <2>4. H \subseteq kv.known
    <3> SUFFICES ASSUME NEW x \in H PROVE x \in kv.known
      OBVIOUS
    <3>1. x \in Reqs /\ b \in Elements(t[x])
      BY DEF Holders
    <3>2. Len(t[x]) > 0
      <4>1. t[x] \in Seq(Blocks)
        BY <3>1, <1>1
      <4> QED BY <3>1, <4>1 DEF Elements
    <3> QED BY <3>1, <3>2 DEF HoldersKnown
  <2>5. H = kv.known
    <3> HIDE DEF H
    <3> QED BY <2>1, <2>3, <2>4, <1>3, FS_Subset
  <2>6. b \in Elements(cs)
    BY <2>5, <1>3 DEF Holders
  <2>7. PICK j \in 1..Len(cs) : cs[j] = b
    BY <2>6 DEF Elements
  <2>8. i = j
    BY <2>1, <2>2, <2>7, <1>1 DEF InPlace
  <2> QED BY <2>7, <2>8
<1> HIDE DEF bs, cs
<1>7. n <= Len(cs)
  <2>1. CASE n = 0
    BY <2>1, <1>2
  <2>2. CASE n # 0
    <3>1. n \in 1..n
      BY <2>2, <1>2, <1>5
    <3>2. n \in 1..Len(cs)
      BY <3>1, <1>6
    <3> QED BY <3>2, <1>2
  <2> QED BY <2>1, <2>2
<1>8. SubSeq(cs, 1, n) = SubSeq(bs, 1, n)
  <2>1. n \in Nat /\ n <= Len(bs) /\ n <= Len(cs)
    BY <1>2, <1>5, <1>7
  <2>2. SubSeq(cs, 1, n) = [i \in 1..n |-> cs[i]] /\ SubSeq(bs, 1, n) = [i \in 1..n |-> bs[i]]
    BY <2>1, <1>2
  <2> QED BY <2>2, <1>6
<1> QED BY <1>7, <1>8 DEF bs, cs, n

(* The blocks that get_num_common_prefix_blocks of kv_cache_manager.py      *)
(* counts as common to all running requests really are every table's first  *)
(* blocks, whatever was shared, evicted or freed before.                   *)
THEOREM CommonPrefixAlwaysSound == Spec => []CommonPrefixSound
<1>1. Init => HoldersKnown(kv)
  BY NullIsBlock DEF Init, HoldersKnown, InitManager, InitPool
<1>2. SystemInv /\ HoldersKnown(kv) => CommonPrefixSound
  BY CommonPrefix
<1>3. SystemInv /\ HoldersKnown(kv) /\ [Next]_vars => HoldersKnown(kv)'
  BY NextHoldersKnown
<1> QED BY <1>1, <1>2, <1>3, InitSystem, NextSystem, PTL DEF Spec

-----------------------------------------------------------------------------
(* The contents of the memory.                                             *)

\* The number of the token in slot s of the i-th block of a table.
At(i, s) == (i - 1) * BlockSize + s

(* Division by the block size has one result.                              *)
LEMMA DivUnique ==
    ASSUME NEW b \in Nat, b > 0, NEW k \in Nat, NEW c \in 0..(b - 1), NEW a, a = k * b + c
    PROVE  a \in Nat /\ a \div b = k /\ a % b = c
<1>1. k * b \in Nat
  BY TimesMonotone
<1>2. a \in Nat /\ k * b <= a /\ a < k * b + b
  BY <1>1
<1> DEFINE d == a \div b
<1>3. d \in Nat /\ d * b <= a /\ a < d * b + b
  BY <1>2, DivFacts
<1>4. a % b = a - d * b
  BY <1>2
<1> HIDE DEF d
<1>5. ASSUME NEW x \in Nat, NEW y \in Nat, x * b <= a, a < y * b + b PROVE ~(y < x)
  <2> SUFFICES ASSUME y < x PROVE FALSE
    OBVIOUS
  <2>1. y + 1 \in Nat /\ y + 1 <= x
    OBVIOUS
  <2>2. (y + 1) * b <= x * b
    BY <2>1, TimesMonotone
  <2>3. (y + 1) * b = y * b + b
    OBVIOUS
  <2>4. x * b \in Nat /\ y * b \in Nat
    BY TimesMonotone
  <2> QED BY <2>2, <2>3, <2>4, <1>2, <1>5
<1>6. ~(d < k) /\ ~(k < d)
  BY <1>2, <1>3, <1>5
<1>7. d = k
  BY <1>3, <1>6
<1> QED BY <1>1, <1>2, <1>4, <1>7 DEF d

(* Tokens and places in a table are in one-to-one correspondence.          *)
LEMMA AtFacts ==
    ASSUME NEW i \in Nat \ {0}, NEW s \in 1..BlockSize
    PROVE  /\ At(i, s) \in Nat /\ At(i, s) >= 1 /\ BlockIndex(At(i, s)) = i
           /\ SlotOf(At(i, s)) = s
           /\ i * BlockSize \in Nat /\ (i - 1) * BlockSize \in Nat
           /\ i * BlockSize = (i - 1) * BlockSize + BlockSize /\ At(i, s) <= i * BlockSize
<1>1. BlockSize \in Nat /\ BlockSize > 0
  BY KVCacheManagerAssumption
<1> DEFINE k == i - 1
           x == k * BlockSize
<1>2. k \in Nat /\ s - 1 \in 0..(BlockSize - 1) /\ i = k + 1
  BY <1>1
<1>3. x \in Nat /\ i * BlockSize = x + BlockSize
  <2>1. x \in Nat
    BY <1>1, <1>2, TimesMonotone
  <2>2. (k + 1) * BlockSize = k * BlockSize + BlockSize
    BY <1>1, <1>2
  <2> QED BY <2>1, <2>2, <1>2
<1>4. At(i, s) = x + s
  BY DEF At
<1>5. At(i, s) - 1 = x + (s - 1)
  BY <1>3, <1>4, <1>1
<1>6. (At(i, s) - 1) \div BlockSize = k /\ (At(i, s) - 1) % BlockSize = s - 1
  <2> DEFINE a == At(i, s) - 1
             c == s - 1
  <2>1. c \in 0..(BlockSize - 1) /\ a = k * BlockSize + c
    BY <1>2, <1>5
  <2> HIDE DEF a, c, k
  <2>2. a \div BlockSize = k /\ a % BlockSize = c
    BY <1>1, <1>2, <2>1, DivUnique
  <2> QED BY <2>2 DEF a, c
<1> HIDE DEF k, x
<1>7. BlockIndex(At(i, s)) = i /\ SlotOf(At(i, s)) = s
  BY <1>1, <1>2, <1>6 DEF BlockIndex, SlotOf
<1>8. At(i, s) \in Nat /\ At(i, s) >= 1 /\ At(i, s) <= i * BlockSize /\ i * BlockSize \in Nat
  BY <1>1, <1>3, <1>4
<1> QED BY <1>3, <1>7, <1>8 DEF k, x

(* The same for the places of a table.                                     *)
LEMMA AtIn ==
    ASSUME NEW n \in Nat, NEW i \in 1..n, NEW s \in 1..BlockSize
    PROVE  /\ At(i, s) \in Nat /\ At(i, s) >= 1 /\ BlockIndex(At(i, s)) = i
           /\ SlotOf(At(i, s)) = s
           /\ i * BlockSize \in Nat /\ (i - 1) * BlockSize \in Nat
           /\ i * BlockSize = (i - 1) * BlockSize + BlockSize /\ At(i, s) <= i * BlockSize
<1>1. i \in Nat \ {0}
  OBVIOUS
<1> QED BY <1>1, AtFacts

(* The other way round.                                                    *)
LEMMA PlaceFacts ==
    ASSUME NEW q \in Nat \ {0}
    PROVE  /\ BlockIndex(q) \in Nat \ {0} /\ SlotOf(q) \in 1..BlockSize
           /\ At(BlockIndex(q), SlotOf(q)) = q
<1>1. BlockSize \in Nat /\ BlockSize > 0
  BY KVCacheManagerAssumption
<1> DEFINE a == q - 1
           d == a \div BlockSize
<1>2. a \in Nat
  OBVIOUS
<1>3. d \in Nat /\ d * BlockSize <= a /\ a < d * BlockSize + BlockSize /\ d * BlockSize \in Nat
  BY <1>1, <1>2, DivFacts, TimesMonotone
<1>4. a % BlockSize = a - d * BlockSize
  BY <1>1, <1>2
<1>5. BlockIndex(q) = d + 1 /\ SlotOf(q) = (a % BlockSize) + 1
  BY DEF BlockIndex, SlotOf
<1> HIDE DEF d
<1>6. BlockIndex(q) - 1 = d
  BY <1>3, <1>5
<1>7. At(BlockIndex(q), SlotOf(q)) = d * BlockSize + SlotOf(q)
  BY <1>6 DEF At
<1> QED BY <1>1, <1>3, <1>4, <1>5, <1>7

(* A place within the first n blocks holds one of their tokens.            *)
LEMMA PlaceWithin ==
    ASSUME NEW q \in Nat \ {0}, NEW n \in Nat
    PROVE  BlockIndex(q) <= n <=> q <= n * BlockSize
<1>1. BlockSize \in Nat /\ BlockSize > 0
  BY KVCacheManagerAssumption
<1> DEFINE i == BlockIndex(q)
           s == SlotOf(q)
<1>2. i \in Nat \ {0} /\ s \in 1..BlockSize /\ At(i, s) = q
  BY PlaceFacts
<1> HIDE DEF i, s
<1>3. q = (i - 1) * BlockSize + s /\ (i - 1) * BlockSize \in Nat /\ q <= i * BlockSize
  BY <1>2, AtFacts DEF At
<1>4. n * BlockSize \in Nat /\ i * BlockSize \in Nat
  BY <1>1, <1>2, TimesMonotone
<1>5. i <= n => i * BlockSize <= n * BlockSize
  BY <1>1, <1>2, TimesMonotone
<1>6. ~(i <= n) => n * BlockSize <= (i - 1) * BlockSize
  <2>1. ~(i <= n) => i - 1 \in Nat /\ n <= i - 1
    BY <1>2
  <2> QED BY <2>1, <1>1, TimesMonotone
<1>7. i <= n <=> q <= n * BlockSize
  BY <1>1, <1>2, <1>3, <1>4, <1>5, <1>6
<1> QED BY <1>7 DEF i

Memories == [Blocks -> [1..BlockSize -> Seq(Nat)]]

\* What the worker writes through a table goes to the places of the tokens and to
\* no other block.
WritesOnly(m, mw, table, text, from, to) ==
    /\ mw \in Memories
    /\ \A i \in 1..Len(table), s \in 1..BlockSize :
          table[i] # NullBlock /\ At(i, s) > from /\ At(i, s) <= to
              => mw[table[i]][s] = SubSeq(text, 1, At(i, s))
    /\ \A i \in 1..Len(table), s \in 1..BlockSize :
          table[i] # NullBlock /\ At(i, s) <= from => mw[table[i]][s] = m[table[i]][s]
    /\ \A b \in Blocks :
          (\A i \in 1..Len(table) : table[i] = b => i * BlockSize <= from) => mw[b] = m[b]

(* That is so whenever the table is long enough for the tokens written.    *)
LEMMA WrittenFacts ==
    ASSUME NEW m \in Memories, NEW table \in Seq(Blocks), OnceEach(table),
           NEW text \in Seq(Nat), NEW from \in Nat, NEW to \in Nat,
           to <= Len(table) * BlockSize, to <= Len(text),
           NEW mw, mw = Written(m, table, text, from, to)
    PROVE  WritesOnly(m, mw, table, text, from, to)
<1> DEFINE Goes(q, b, s) == SlotOf(q) = s /\ table[BlockIndex(q)] = b
           new(b, s) == IF \E q \in (from + 1)..to : Goes(q, b, s)
                        THEN SubSeq(text, 1, CHOOSE q \in (from + 1)..to : Goes(q, b, s))
                        ELSE m[b][s]
<1>0. BlockSize \in Nat /\ BlockSize > 0 /\ Len(table) \in Nat
  BY KVCacheManagerAssumption
<1>1. mw = [b \in Blocks |-> [s \in 1..BlockSize |-> new(b, s)]]
  BY DEF Written
<1>2. ASSUME NEW q \in (from + 1)..to PROVE /\ q \in Nat \ {0} /\ BlockIndex(q) \in 1..Len(table)
                                            /\ SlotOf(q) \in 1..BlockSize
                                            /\ At(BlockIndex(q), SlotOf(q)) = q
  <2>1. q \in Nat \ {0} /\ q <= Len(table) * BlockSize
    <3>1. Len(table) * BlockSize \in Nat
      BY <1>0, TimesMonotone
    <3> QED BY <3>1
  <2>2. BlockIndex(q) <= Len(table)
    BY <2>1, <1>0, PlaceWithin
  <2>3. /\ BlockIndex(q) \in Nat \ {0} /\ SlotOf(q) \in 1..BlockSize
        /\ At(BlockIndex(q), SlotOf(q)) = q
    BY <2>1, PlaceFacts
  <2>4. BlockIndex(q) \in 1..Len(table)
    BY <2>2, <2>3, <1>0
  <2> QED BY <2>1, <2>3, <2>4
<1>3. ASSUME NEW i \in 1..Len(table), NEW s \in 1..BlockSize, table[i] # NullBlock,
             NEW q \in (from + 1)..to, Goes(q, table[i], s)
      PROVE  q = At(i, s)
  <2>1. BlockIndex(q) \in 1..Len(table) /\ At(BlockIndex(q), SlotOf(q)) = q
    BY <1>2
  <2>2. BlockIndex(q) = i
    BY <2>1, <1>3 DEF OnceEach
  <2> QED BY <2>1, <2>2, <1>3
<1>4. ASSUME NEW i \in 1..Len(table), NEW s \in 1..BlockSize
      PROVE  /\ At(i, s) \in Nat /\ At(i, s) >= 1 /\ BlockIndex(At(i, s)) = i /\ SlotOf(At(i, s)) = s
             /\ At(i, s) <= i * BlockSize /\ i * BlockSize \in Nat
  <2>1. i \in Nat \ {0}
    BY <1>0
  <2> QED BY <2>1, AtFacts
<1>5. ASSUME NEW b \in Blocks, NEW s \in 1..BlockSize PROVE mw[b][s] = new(b, s)
  <2> HIDE DEF new
  <2>1. mw[b] = [x \in 1..BlockSize |-> new(b, x)]
    BY <1>1
  <2> QED BY <2>1
<1>6. ASSUME NEW b \in Blocks, NEW s \in 1..BlockSize PROVE new(b, s) \in Seq(Nat)
  <2>1. m[b][s] \in Seq(Nat)
    BY DEF Memories
  <2>2. CASE \E q \in (from + 1)..to : Goes(q, b, s)
    <3> DEFINE c == CHOOSE q \in (from + 1)..to : Goes(q, b, s)
    <3>1. c \in (from + 1)..to
      BY <2>2
    <3> HIDE DEF c
    <3>2. SubSeq(text, 1, c) \in Seq(Nat)
      BY <3>1
    <3> QED BY <2>2, <3>2 DEF c
  <2> QED BY <2>1, <2>2
<1>7. mw \in Memories
  <2> HIDE DEF new
  <2>1. \A b \in Blocks : [s \in 1..BlockSize |-> new(b, s)] \in [1..BlockSize -> Seq(Nat)]
    BY <1>6
  <2> QED BY <1>1, <2>1 DEF Memories
<1>8. ASSUME NEW i \in 1..Len(table), NEW s \in 1..BlockSize,
             table[i] # NullBlock, At(i, s) > from, At(i, s) <= to
      PROVE  mw[table[i]][s] = SubSeq(text, 1, At(i, s))
  <2>1. table[i] \in Blocks /\ At(i, s) \in (from + 1)..to
    BY <1>8, <1>4
  <2>2. Goes(At(i, s), table[i], s)
    BY <1>4
  <2> DEFINE c == CHOOSE q \in (from + 1)..to : Goes(q, table[i], s)
  <2>3. c \in (from + 1)..to /\ Goes(c, table[i], s)
    BY <2>1, <2>2
  <2>4. c = At(i, s)
    <3> HIDE DEF c
    <3> QED BY <2>3, <1>3, <1>8
  <2>5. new(table[i], s) = SubSeq(text, 1, c)
    BY <2>1, <2>2
  <2> HIDE DEF c, new
  <2> QED BY <2>1, <2>4, <2>5, <1>5
<1>9. ASSUME NEW i \in 1..Len(table), NEW s \in 1..BlockSize,
             table[i] # NullBlock, At(i, s) <= from
      PROVE  mw[table[i]][s] = m[table[i]][s]
  <2>1. ~\E q \in (from + 1)..to : Goes(q, table[i], s)
    <3> SUFFICES ASSUME NEW q \in (from + 1)..to, Goes(q, table[i], s) PROVE FALSE
      OBVIOUS
    <3>1. q = At(i, s)
      BY <1>3, <1>9
    <3> QED BY <3>1, <1>9, <1>4
  <2>2. new(table[i], s) = m[table[i]][s]
    BY <2>1
  <2> HIDE DEF new
  <2>3. table[i] \in Blocks
    OBVIOUS
  <2> QED BY <2>2, <2>3, <1>5
<1>10. ASSUME NEW b \in Blocks, \A i \in 1..Len(table) : table[i] = b => i * BlockSize <= from
       PROVE  mw[b] = m[b]
  <2>1. ASSUME NEW s \in 1..BlockSize PROVE new(b, s) = m[b][s]
    <3>1. ~\E q \in (from + 1)..to : Goes(q, b, s)
      <4> SUFFICES ASSUME NEW q \in (from + 1)..to, Goes(q, b, s) PROVE FALSE
        OBVIOUS
      <4> DEFINE i == BlockIndex(q)
      <4>1. i \in 1..Len(table) /\ SlotOf(q) \in 1..BlockSize /\ At(i, SlotOf(q)) = q
        BY <1>2
      <4>2. i * BlockSize <= from
        BY <4>1, <1>10
      <4>3. q <= i * BlockSize /\ i * BlockSize \in Nat
        BY <4>1, <1>4
      <4> HIDE DEF i
      <4> QED BY <4>2, <4>3
    <3> QED BY <3>1
  <2> HIDE DEF new
  <2>2. mw[b] = [s \in 1..BlockSize |-> new(b, s)]
    BY <1>1
  <2>3. m[b] = [s \in 1..BlockSize |-> m[b][s]]
    BY DEF Memories
  <2> QED BY <2>1, <2>2, <2>3
<1> QED BY <1>7, <1>8, <1>9, <1>10 DEF WritesOnly

(* What a table or a hash leads to is kept.                                *)
LEMMA KeepFacts ==
    ASSUME NEW k \in Managers, NEW m \in Memories, NEW mk, mk = Keep(m, k)
    PROVE  /\ mk \in Memories
           /\ \A b \in Blocks : b # NullBlock /\ k.pool.block_hash[b] # NoHash => mk[b] = m[b]
           /\ \A r \in Reqs : \A i \in 1..Len(k.req_to_blocks[r]) :
                 k.req_to_blocks[r][i] # NullBlock
                     => mk[k.req_to_blocks[r][i]] = m[k.req_to_blocks[r][i]]
<1> DEFINE stale == [s \in 1..BlockSize |-> Stale]
<1>1. mk = [b \in Blocks |-> IF b # NullBlock /\ (b \in Held(k) \/ k.pool.block_hash[b] # NoHash)
                             THEN m[b] ELSE stale]
  BY DEF Keep
<1>2. stale \in [1..BlockSize -> Seq(Nat)]
  BY DEF Stale
<1> HIDE DEF stale
<1>3. mk \in Memories
  BY <1>1, <1>2 DEF Memories
<1>4. ASSUME NEW r \in Reqs, NEW i \in 1..Len(k.req_to_blocks[r]), k.req_to_blocks[r][i] # NullBlock
      PROVE  mk[k.req_to_blocks[r][i]] = m[k.req_to_blocks[r][i]]
  <2> DEFINE b == k.req_to_blocks[r][i]
  <2>1. k.req_to_blocks[r] \in Seq(Blocks)
    BY DEF Managers
  <2>2. b \in Blocks /\ b \in Elements(k.req_to_blocks[r])
    BY <2>1 DEF Elements
  <2>3. b \in Held(k)
    BY <2>2 DEF Held
  <2> QED BY <1>1, <1>4, <2>2, <2>3
<1> QED BY <1>1, <1>3, <1>4

\* What cache_blocks does for n tokens of r: the blocks past those counted that
\* they fill get their hashes, nothing else changes.
HashesFilled(k, k2, r, text, n) ==
    /\ k2.req_to_blocks = k.req_to_blocks
    /\ \A q \in Reqs : q # r => k2.num_cached_block[q] = k.num_cached_block[q]
    /\ k2.num_cached_block[r] = k.num_cached_block[r] \/ k2.num_cached_block[r] = n \div BlockSize
    /\ \A b \in Blocks :
          \/ k2.pool.block_hash[b] = k.pool.block_hash[b]
          \/ \E i \in 1..Len(k.req_to_blocks[r]) :
                /\ i > k.num_cached_block[r] /\ i * BlockSize <= n
                /\ k.req_to_blocks[r][i] = b /\ b # NullBlock
                /\ k2.pool.block_hash[b] = SubSeq(text, 1, i * BlockSize)

(* A full block is within the tokens that fill it.                         *)
LEMMA FullBlocks ==
    ASSUME NEW i \in Nat, NEW n \in Nat, i <= n \div BlockSize
    PROVE  i * BlockSize <= n /\ i * BlockSize \in Nat
<1>1. BlockSize \in Nat /\ BlockSize > 0
  BY KVCacheManagerAssumption
<1> DEFINE d == n \div BlockSize
<1>2. d \in Nat /\ d * BlockSize <= n
  BY <1>1, DivFacts
<1> HIDE DEF d
<1>3. i * BlockSize <= d * BlockSize /\ i * BlockSize \in Nat /\ d * BlockSize \in Nat
  BY <1>1, <1>2, TimesMonotone DEF d
<1> QED BY <1>2, <1>3

(* cache_blocks does that.                                                 *)
LEMMA CacheBlocksHashes ==
    ASSUME NEW k, KVInv(k), NEW r \in Reqs, NEW text \in Seq(Nat), NEW n \in Nat, n <= Len(text),
           NEW k2, k2 = cache_blocks(k, r, text, n)
    PROVE  HashesFilled(k, k2, r, text, n)
<1> DEFINE from == MaxOf(k.num_cached_block[r], 0)
           to == n \div BlockSize
           hs == block_hashes(text)
           bs == k.req_to_blocks[r]
           p == k.pool
           q == cache_full_blocks(p, hs, bs, from, to)
<1>1. /\ k \in Managers /\ p \in Pools /\ k.num_cached_block \in [Reqs -> Int]
      /\ bs \in Seq(Blocks)
  BY InOrder
<1>2. CASE ~EnableCaching \/ from >= to
  <2>1. k2 = k
    BY <1>2 DEF cache_blocks
  <2> QED BY <2>1 DEF HashesFilled
<1>3. CASE ~(~EnableCaching \/ from >= to)
  <2>1. k2 = [k EXCEPT !.pool = q, !.num_cached_block[r] = to]
    BY <1>3 DEF cache_blocks
  <2> DEFINE new == NewlyCached(hs, bs, from, to)
             ch == NewHashes(p.block_hash, hs, bs, from, to)
             d == insert(p.cached, new)
  <2>2. q.block_hash = ch
    <3>1. q = [p EXCEPT !.cached = d, !.block_hash = ch]
      BY DEF cache_full_blocks, NewlyCached, NewHashes, Filled
    <3> HIDE DEF d, ch, q
    <3> QED BY <3>1, <1>1 DEF Pools
  <2> HIDE DEF q
  <2>3. /\ k2.pool = q /\ k2.req_to_blocks = k.req_to_blocks
        /\ k2.num_cached_block = [k.num_cached_block EXCEPT ![r] = to]
    BY <2>1, <1>1 DEF Managers
  <2>4. k2.num_cached_block[r] = to /\ \A x \in Reqs : x # r => k2.num_cached_block[x] = k.num_cached_block[x]
    BY <2>3, <1>1
  <2>5. from \in Nat /\ from >= k.num_cached_block[r] /\ k.num_cached_block[r] \in Int /\ to \in Nat
    <3>1. k.num_cached_block[r] \in Int
      BY <1>1
    <3>2. BlockSize \in Nat /\ BlockSize > 0
      BY KVCacheManagerAssumption
    <3>3. to \in Nat
      BY <3>2, DivFacts
    <3> HIDE DEF to
    <3> QED BY <3>1, <3>3 DEF MaxOf
  <2>6. to <= Len(text) \div BlockSize
    <3>1. Len(text) \in Nat /\ BlockSize \in Nat /\ BlockSize > 0
      BY KVCacheManagerAssumption
    <3> QED BY <3>1, DivMonotone
  <2>7. ASSUME NEW b \in Blocks, k2.pool.block_hash[b] # p.block_hash[b]
        PROVE  \E i \in 1..Len(bs) :
                  /\ i > k.num_cached_block[r] /\ i * BlockSize <= n /\ bs[i] = b /\ b # NullBlock
                  /\ k2.pool.block_hash[b] = SubSeq(text, 1, i * BlockSize)
    <3> HIDE DEF from, bs, p
    <3>1. /\ \E j \in Filled(bs, from, to) : bs[j] = b
          /\ ch[b] = hs[CHOOSE j \in Filled(bs, from, to) : bs[j] = b]
      <4> HIDE DEF hs, to
      <4> QED BY <2>2, <2>3, <2>7 DEF NewHashes
    <3> DEFINE i == CHOOSE j \in Filled(bs, from, to) : bs[j] = b
    <3>2. i \in Filled(bs, from, to) /\ bs[i] = b /\ ch[b] = hs[i]
      BY <3>1
    <3> HIDE DEF i, to, ch, hs
    <3>3. i \in 1..Len(bs) /\ i > from /\ i <= to /\ i \in Nat /\ bs[i] # NullBlock
      BY <3>2, <2>5, <1>1 DEF Filled
    <3>4. i * BlockSize <= n
      BY <3>3, FullBlocks DEF to
    <3>5. hs[i] = SubSeq(text, 1, i * BlockSize)
      <4>1. Len(text) \div BlockSize \in Nat
        BY KVCacheManagerAssumption, DivFacts
      <4>2. i \in 1..(Len(text) \div BlockSize)
        BY <3>3, <2>6, <2>5, <4>1
      <4> QED BY <4>2 DEF block_hashes, hs
    <3>6. i > k.num_cached_block[r]
      BY <3>3, <2>5
    <3> QED BY <3>2, <3>3, <3>4, <3>5, <3>6, <2>2, <2>3
  <2> HIDE DEF to, p, bs
  <2> QED BY <2>3, <2>4, <2>7 DEF HashesFilled, to, p, bs
<1> QED BY <1>2, <1>3

-----------------------------------------------------------------------------
\* The first d tokens of a request are in memory, except in null blocks.
Seen(m, table, text, d) ==
    \A i \in 1..Len(table), s \in 1..BlockSize :
        table[i] # NullBlock /\ At(i, s) <= d => m[table[i]][s] = SubSeq(text, 1, At(i, s))

\* The table is long enough for them, and blocks counted as cached are full.
Frontier(table, nc, d) ==
    /\ nc <= Len(table) /\ d <= Len(table) * BlockSize
    /\ \A i \in 1..Len(table) : i <= nc /\ table[i] # NullBlock => i * BlockSize <= d

Row(m, table, nc, text, d) ==
    /\ text \in Seq(Nat) /\ d \in Nat /\ d <= Len(text)
    /\ Seen(m, table, text, d) /\ Frontier(table, nc, d)

\* The memory m holds what the manager k believes: done[r] tokens of text[r] for
\* each request r, and under every hash the tokens it stands for.
MemOK(m, k, text, done) ==
    /\ m \in Memories /\ HashedIsWritten(m, k)
    /\ \A r \in Reqs : Row(m, k.req_to_blocks[r], k.num_cached_block[r], text[r], done[r])

(* Forgetting what nothing leads to does no harm.                          *)
LEMMA KeepMemOK ==
    ASSUME NEW k, KVInv(k), NEW m, NEW text, NEW done, MemOK(m, k, text, done)
    PROVE  MemOK(Keep(m, k), k, text, done)
<1> DEFINE mk == Keep(m, k)
           t == k.req_to_blocks
<1>1. k \in Managers /\ m \in Memories /\ k.pool.block_hash[NullBlock] = NoHash
  BY InOrder DEF Accounted, MapOK, MemOK
<1>2. /\ mk \in Memories
      /\ \A b \in Blocks : b # NullBlock /\ k.pool.block_hash[b] # NoHash => mk[b] = m[b]
      /\ \A r \in Reqs : \A i \in 1..Len(t[r]) : t[r][i] # NullBlock => mk[t[r][i]] = m[t[r][i]]
  BY <1>1, KeepFacts
<1> HIDE DEF mk
<1>3. HashedIsWritten(mk, k)
  BY <1>1, <1>2 DEF HashedIsWritten, MemOK
<1>4. ASSUME NEW r \in Reqs PROVE Row(mk, t[r], k.num_cached_block[r], text[r], done[r])
  <2>1. Row(m, t[r], k.num_cached_block[r], text[r], done[r])
    BY DEF MemOK
  <2>2. Seen(mk, t[r], text[r], done[r])
    <3>1. Seen(m, t[r], text[r], done[r])
      BY <2>1 DEF Row
    <3>2. \A i \in 1..Len(t[r]) : t[r][i] # NullBlock => mk[t[r][i]] = m[t[r][i]]
      BY <1>2
    <3> HIDE DEF t
    <3> QED BY <3>1, <3>2 DEF Seen
  <2> QED BY <2>1, <2>2 DEF Row
<1> QED BY <1>2, <1>3, <1>4 DEF MemOK, mk

(* The prefix of a prefix.                                                 *)
LEMMA PrefixOfPrefix ==
    ASSUME NEW text \in Seq(Nat), NEW j \in Nat, j <= Len(text), NEW i \in Nat, i <= j
    PROVE  SubSeq(SubSeq(text, 1, j), 1, i) = SubSeq(text, 1, i) /\ Len(SubSeq(text, 1, j)) = j
<1> DEFINE h == SubSeq(text, 1, j)
<1>1. h = [x \in 1..j |-> text[x]] /\ h \in Seq(Nat) /\ Len(h) = j
  OBVIOUS
<1>2. \A x \in 1..j : h[x] = text[x]
  BY <1>1
<1> HIDE DEF h
<1>3. SubSeq(h, 1, i) = [x \in 1..i |-> h[x]] /\ SubSeq(text, 1, i) = [x \in 1..i |-> text[x]]
  BY <1>1
<1>4. \A x \in 1..i : h[x] = text[x]
  BY <1>2
<1> QED BY <1>1, <1>3, <1>4 DEF h

(* The worker computes the tokens of r from done[r] to to, and cache_blocks  *)
(* hashes the blocks that n of them fill: nobody else's contents and no     *)
(* hashed block are overwritten, and what gets a hash is complete.         *)
LEMMA WriteMemOK ==
    ASSUME NEW k, KVInv(k), NEW m, NEW text, NEW done \in [Reqs -> Nat], MemOK(m, k, text, done),
           NEW r \in Reqs, NEW to \in Nat, to <= Len(text[r]),
           to <= Len(k.req_to_blocks[r]) * BlockSize,
           NEW n \in Nat, NEW d \in Nat, n <= d, d <= to,
           \A i \in 1..Len(k.req_to_blocks[r]) :
               i <= k.num_cached_block[r] /\ k.req_to_blocks[r][i] # NullBlock => i * BlockSize <= d,
           NEW mw, mw = Written(m, k.req_to_blocks[r], text[r], done[r], to),
           NEW k2, HashesFilled(k, k2, r, text[r], n)
    PROVE  MemOK(mw, k2, text, [done EXCEPT ![r] = d])
<1> DEFINE t == k.req_to_blocks
           nc == k.num_cached_block
           bh == k.pool.block_hash
           from == done[r]
           tr == t[r]
           tx == text[r]
<1>1. /\ t \in [Reqs -> Seq(Blocks)] /\ nc \in [Reqs -> Int] /\ Private(nc, t) /\ Unhashed(nc, t, bh)
      /\ bh[NullBlock] = NoHash
  BY InOrder DEF Accounted, MapOK, TablesOK
<1>2. OnceEach(tr) /\ tr \in Seq(Blocks) /\ Len(tr) \in Nat
  BY <1>1, TableOnce
<1>3. Row(m, tr, nc[r], tx, from) /\ m \in Memories /\ HashedIsWritten(m, k)
  BY DEF MemOK
<1>4. tx \in Seq(Nat) /\ from \in Nat
  BY <1>3 DEF Row
<1>0. BlockSize \in Nat /\ BlockSize > 0
  BY KVCacheManagerAssumption
<1> HIDE DEF from, tr, tx
<1>5. WritesOnly(m, mw, tr, tx, from, to)
  BY <1>2, <1>3, <1>4, WrittenFacts DEF from, tr, tx
<1>6. ASSUME NEW b \in Blocks,
             \A j \in 1..Len(tr) : tr[j] = b => j <= nc[r] /\ b # NullBlock
      PROVE  mw[b] = m[b]
  <2>1. \A j \in 1..Len(tr) : tr[j] = b => j * BlockSize <= from
    BY <1>3, <1>6 DEF Row, Frontier
  <2> QED BY <2>1, <1>5 DEF WritesOnly
<1>7. ASSUME NEW x \in Reqs, x # r, NEW i \in 1..Len(t[x]), t[x][i] # NullBlock
      PROVE  mw[t[x][i]] = m[t[x][i]]
  <2>1. t[x][i] \in Blocks
    BY <1>1
  <2>2. ASSUME NEW j \in 1..Len(tr), tr[j] = t[x][i] PROVE j <= nc[r]
    <3>1. nc[r] \in Int
      BY <1>1
    <3>2. j > nc[r] => r = x
      BY <1>1, <1>7, <2>2 DEF Private, tr
    <3> QED BY <3>1, <3>2, <1>7, <1>2
  <2> QED BY <2>1, <2>2, <1>6, <1>7
<1>8. ASSUME NEW b \in Blocks, bh[b] # NoHash PROVE mw[b] = m[b]
  <2>1. b # NullBlock
    BY <1>1, <1>8
  <2>2. ASSUME NEW j \in 1..Len(tr), tr[j] = b PROVE j <= nc[r]
    <3>1. nc[r] \in Int
      BY <1>1
    <3>2. ~(j > nc[r])
      BY <1>1, <1>8, <2>2 DEF Unhashed, tr
    <3> QED BY <3>1, <3>2, <1>2
  <2> QED BY <2>1, <2>2, <1>6
<1>9. ASSUME NEW i \in 1..Len(tr), NEW s \in 1..BlockSize, tr[i] # NullBlock, At(i, s) <= to
      PROVE  mw[tr[i]][s] = SubSeq(tx, 1, At(i, s))
  <2>0. At(i, s) \in Nat
    BY <1>2, AtIn
  <2>1. CASE At(i, s) <= from
    <3>1. mw[tr[i]][s] = m[tr[i]][s]
      BY <2>1, <1>5, <1>9 DEF WritesOnly
    <3>2. m[tr[i]][s] = SubSeq(tx, 1, At(i, s))
      BY <2>1, <1>3, <1>9 DEF Row, Seen
    <3> QED BY <3>1, <3>2
  <2>2. CASE At(i, s) > from
    BY <2>2, <1>5, <1>9 DEF WritesOnly
  <2> QED BY <2>0, <2>1, <2>2, <1>4
<1>10. k2.req_to_blocks = t
  BY DEF HashesFilled
<1>11. ASSUME NEW b \in Blocks, k2.pool.block_hash[b] # NoHash, NEW s \in 1..BlockSize
       PROVE  mw[b][s] = SubSeq(k2.pool.block_hash[b], 1, Len(k2.pool.block_hash[b]) - BlockSize + s)
  <2> DEFINE h == k2.pool.block_hash[b]
  <2>1. CASE h = bh[b]
    <3>1. mw[b] = m[b]
      BY <2>1, <1>8, <1>11
    <3> QED BY <2>1, <3>1, <1>3, <1>11 DEF HashedIsWritten
  <2>2. CASE h # bh[b]
    <3>1. PICK i \in 1..Len(tr) : /\ i * BlockSize <= n /\ tr[i] = b /\ b # NullBlock
                                 /\ h = SubSeq(tx, 1, i * BlockSize)
      BY <2>2 DEF HashesFilled, tr, tx
    <3> HIDE DEF h
    <3>3. /\ At(i, s) \in Nat /\ At(i, s) <= i * BlockSize /\ i * BlockSize \in Nat
          /\ i * BlockSize - BlockSize + s = At(i, s)
      <4>1. /\ i * BlockSize = (i - 1) * BlockSize + BlockSize /\ (i - 1) * BlockSize \in Nat
            /\ At(i, s) \in Nat /\ At(i, s) <= i * BlockSize /\ i * BlockSize \in Nat
        BY <1>2, AtIn
      <4> QED BY <4>1, <1>0 DEF At
    <3>4. mw[b][s] = SubSeq(tx, 1, At(i, s))
      <4>1. At(i, s) <= to
        BY <3>1, <3>3
      <4> QED BY <3>1, <4>1, <1>9
    <3>5. i * BlockSize <= Len(tx) /\ Len(tx) \in Nat
      BY <3>1, <3>3, <1>4 DEF tx
    <3>6. SubSeq(h, 1, At(i, s)) = SubSeq(tx, 1, At(i, s)) /\ Len(h) = i * BlockSize
      BY <3>1, <3>3, <3>5, <1>4, PrefixOfPrefix
    <3> QED BY <3>3, <3>4, <3>6 DEF h
  <2> QED BY <2>1, <2>2
<1>12. HashedIsWritten(mw, k2)
  BY <1>11 DEF HashedIsWritten
<1> DEFINE done2 == [done EXCEPT ![r] = d]
<1>13. ASSUME NEW x \in Reqs, x # r
       PROVE  Row(mw, k2.req_to_blocks[x], k2.num_cached_block[x], text[x], done2[x])
  <2>1. k2.num_cached_block[x] = nc[x] /\ done2[x] = done[x]
    BY <1>13 DEF HashesFilled
  <2>2. Row(m, t[x], nc[x], text[x], done[x])
    BY DEF MemOK
  <2>3. Seen(mw, t[x], text[x], done[x])
    BY <2>2, <1>7, <1>13 DEF Row, Seen
  <2> QED BY <2>1, <2>2, <2>3, <1>10 DEF Row
<1>14. Row(mw, k2.req_to_blocks[r], k2.num_cached_block[r], text[r], done2[r])
  <2>1. done2[r] = d /\ d <= Len(tx) /\ d <= Len(tr) * BlockSize
    <3>1. Len(tx) \in Nat /\ Len(tr) * BlockSize \in Nat
      BY <1>0, <1>2, <1>4, TimesMonotone
    <3> QED BY <3>1 DEF tx, tr
  <2>2. Seen(mw, tr, tx, d)
    <3> SUFFICES ASSUME NEW i \in 1..Len(tr), NEW s \in 1..BlockSize, tr[i] # NullBlock, At(i, s) <= d
                 PROVE  mw[tr[i]][s] = SubSeq(tx, 1, At(i, s))
      BY DEF Seen
    <3>1. At(i, s) \in Nat
      BY <1>2, AtIn
    <3> QED BY <3>1, <1>9
  <2>3. Frontier(tr, k2.num_cached_block[r], d)
    <3>1. CASE k2.num_cached_block[r] = nc[r]
      BY <3>1, <2>1, <1>3 DEF Frontier, Row, tr
    <3>2. CASE k2.num_cached_block[r] = n \div BlockSize
      <4> DEFINE c == n \div BlockSize
      <4>1. c \in Nat /\ c * BlockSize <= n /\ c * BlockSize \in Nat
        BY <1>0, DivFacts, TimesMonotone
      <4>2. ASSUME NEW i \in 1..Len(tr), i <= c PROVE i * BlockSize <= d
        <5>1. i * BlockSize <= n /\ i * BlockSize \in Nat
          BY <4>2, <1>2, FullBlocks
        <5> QED BY <5>1
      <4> HIDE DEF c
      <4>3. c <= Len(tr)
        <5>1. Len(tr) * BlockSize \in Nat
          BY <1>0, <1>2, TimesMonotone
        <5>2. c * BlockSize <= Len(tr) * BlockSize
          BY <4>1, <5>1, <2>1
        <5> QED BY <5>2, <4>1, <1>0, <1>2, TimesMonotone
      <4> QED BY <3>2, <4>2, <4>3, <2>1 DEF Frontier, c
    <3> QED BY <3>1, <3>2 DEF HashesFilled
  <2> QED BY <2>1, <2>2, <2>3, <1>4, <1>10 DEF Row, tr, tx
<1> HIDE DEF done2
<1>15. \A x \in Reqs : Row(mw, k2.req_to_blocks[x], k2.num_cached_block[x], text[x], done2[x])
  BY <1>13, <1>14
<1>16. mw \in Memories
  BY <1>5 DEF WritesOnly
<1> QED BY <1>12, <1>15, <1>16 DEF MemOK, done2

-----------------------------------------------------------------------------
(* What an allocation gives: how long the table gets, and which of its     *)
(* blocks are which.                                                       *)

NoNewHashes(bh, ch) == \A b \in Blocks : ch[b] = NoHash \/ ch[b] = bh[b]

\* get_new_blocks turned the pool p into q and returned ret.
Takes(p, q, n, ret) ==
    /\ ret \in Seq(Blocks) /\ \A i \in 1..Len(ret) : ret[i] # NullBlock
    /\ q.free \in Seq(Blocks) /\ Len(q.free) = Len(p.free) - Len(ret)
    /\ n <= Len(p.free) => Len(ret) >= n
    /\ Len(ret) = 0 \/ Len(ret) <= n
    /\ NoNewHashes(p.block_hash, q.block_hash)

(* get_new_blocks hands out as many blocks as it is asked for when there    *)
(* are enough, and gives no block a hash.                                  *)
LEMMA GetNewBlocksTakes ==
    ASSUME NEW p \in Pools, Distinct(p.free), NullBlock \notin Elements(p.free), NEW n \in Int
    PROVE  Takes(p, get_new_blocks(p, n), n, NewBlocks(p, n))
<1> DEFINE fq == p.free
           ret == NewBlocks(p, n)
           x == IF EnableCaching THEN evict_blocks(p, Elements(ret)) ELSE p
           gq == SubSeq(fq, Cardinality(Elements(ret)) + 1, Len(fq))
           cnt == [b \in Blocks |-> IF b \in Elements(ret) THEN x.ref_cnt[b] + 1 ELSE x.ref_cnt[b]]
           q == get_new_blocks(p, n)
           m == IF n <= 0 THEN 0 ELSE IF n <= Len(fq) THEN n ELSE Len(fq)
<1>1. fq \in Seq(Blocks) /\ Len(fq) \in Nat
  BY DEF Pools
<1>2. m \in 0..Len(fq) /\ (n <= Len(fq) => m >= n) /\ (m = 0 \/ m <= n)
  BY <1>1
<1>3. ret = SubSeq(fq, 1, m)
  <2>1. ret = SubSeq(fq, 1, IF n <= Len(fq) THEN n ELSE Len(fq))
    BY DEF NewBlocks
  <2>2. CASE n <= 0
    <3>1. SubSeq(fq, 1, n) = <<>> /\ SubSeq(fq, 1, 0) = <<>>
      BY <2>2, <1>1
    <3> QED BY <2>1, <2>2, <3>1, <1>1
  <2>3. CASE n > 0
    BY <2>1, <2>3, <1>1
  <2> QED BY <2>2, <2>3
<1> HIDE DEF m
<1>4. Split(fq, m, ret, SubSeq(fq, m + 1, Len(fq)))
  BY <1>1, <1>2, <1>3, SplitQueue
<1>5. gq = SubSeq(fq, m + 1, Len(fq)) /\ ret \in Seq(Blocks) /\ Len(ret) = m
      /\ Elements(ret) \subseteq Elements(fq)
  BY <1>4 DEF Split
<1>6. gq \in Seq(Blocks) /\ Len(gq) = Len(fq) - m
  <2>1. m \in Nat /\ m <= Len(fq)
    BY <1>1, <1>2
  <2> HIDE DEF fq, gq
  <2>2. Len(SubSeq(fq, m + 1, Len(fq))) = Len(fq) - m /\ SubSeq(fq, m + 1, Len(fq)) \in Seq(Blocks)
    BY <2>1, <1>1
  <2> QED BY <2>2, <1>5
<1>7. \A i \in 1..Len(ret) : ret[i] # NullBlock
  BY <1>5 DEF Elements
<1>8. /\ x.free = fq /\ DOMAIN x = {"free", "ref_cnt", "block_hash", "cached"}
      /\ NoNewHashes(p.block_hash, x.block_hash)
  <2>1. CASE ~EnableCaching
    BY <2>1 DEF NoNewHashes, Pools
  <2>2. CASE EnableCaching
    BY <2>2 DEF NoNewHashes, Pools, evict_blocks
  <2> QED BY <2>1, <2>2
<1>9. q = [x EXCEPT !.free = SubSeq(x.free, Cardinality(Elements(ret)) + 1, Len(x.free)), !.ref_cnt = cnt]
  BY DEF get_new_blocks
<1> HIDE DEF x, cnt, q, ret
<1>10. q.free = gq /\ q.block_hash = x.block_hash
  BY <1>8, <1>9
<1> HIDE DEF gq
<1> QED BY <1>1, <1>2, <1>5, <1>6, <1>7, <1>8, <1>10 DEF Takes, q, ret

\* table starts with base; what follows is not the null block.
Grown(base, table) ==
    /\ Len(base) <= Len(table)
    /\ \A i \in 1..Len(base) : table[i] = base[i]
    /\ \A i \in 1..Len(table) : i > Len(base) => table[i] # NullBlock

(* A table grows by new blocks.                                            *)
LEMMA JoinGrown ==
    ASSUME NEW base \in Seq(Blocks), NEW ret \in Seq(Blocks), \A i \in 1..Len(ret) : ret[i] # NullBlock
    PROVE  Grown(base, base \o ret) /\ Len(base \o ret) = Len(base) + Len(ret)
<1> DEFINE u == base \o ret
<1>1. /\ u \in Seq(Blocks) /\ Len(u) = Len(base) + Len(ret)
      /\ \A i \in 1..Len(base) : u[i] = base[i]
      /\ \A i \in 1..Len(ret) : u[Len(base) + i] = ret[i]
  BY ConcatFacts
<1> HIDE DEF u
<1>2. ASSUME NEW i \in 1..Len(u), i > Len(base) PROVE u[i] # NullBlock
  <2>1. i - Len(base) \in 1..Len(ret) /\ Len(base) + (i - Len(base)) = i
    BY <1>1, <1>2
  <2> QED BY <2>1, <1>1
<1> QED BY <1>1, <1>2 DEF Grown, u

(* Twice.                                                                  *)
LEMMA GrownTwice ==
    ASSUME NEW a \in Seq(Blocks), NEW b \in Seq(Blocks), NEW c \in Seq(Blocks),
           Grown(a, b), Grown(b, c)
    PROVE  Grown(a, c)
<1>1. Len(a) \in Nat /\ Len(b) \in Nat /\ Len(c) \in Nat
  OBVIOUS
<1>2. Len(a) <= Len(b) /\ Len(b) <= Len(c)
  BY DEF Grown
<1>3. \A i \in 1..Len(a) : c[i] = a[i]
  BY <1>1, <1>2 DEF Grown
<1>4. ASSUME NEW i \in 1..Len(c), i > Len(a) PROVE c[i] # NullBlock
  <2>1. CASE i <= Len(b)
    <3>1. i \in 1..Len(b)
      BY <2>1, <1>1
    <3> QED BY <3>1, <1>4 DEF Grown
  <2>2. CASE i > Len(b)
    BY <2>2 DEF Grown
  <2> QED BY <2>1, <2>2, <1>1
<1> QED BY <1>1, <1>2, <1>3, <1>4 DEF Grown

(* So many blocks are enough for so many tokens.                           *)
LEMMA CdivEnough ==
    ASSUME NEW n \in Int, NEW l \in Nat, cdiv(n, BlockSize) <= l
    PROVE  n <= l * BlockSize
<1>1. BlockSize \in Nat /\ BlockSize > 0
  BY KVCacheManagerAssumption
<1> DEFINE a == n + BlockSize - 1
           c == a \div BlockSize
<1>2. a \in Int
  BY <1>1
<1>3. c \in Int /\ a < c * BlockSize + BlockSize
  BY <1>1, <1>2, DivInt
<1>4. c <= l
  BY DEF cdiv
<1>5. l * BlockSize \in Nat
  BY <1>1, TimesMonotone
<1> HIDE DEF c
<1>6. CASE c < 0
  <2>1. c * BlockSize + BlockSize <= 0
    BY <1>1, <1>3, <1>6
  <2>2. c * BlockSize \in Int
    BY <1>1, <1>3
  <2> QED BY <2>1, <2>2, <1>1, <1>3, <1>5
<1>7. CASE c >= 0
  <2>1. c \in Nat
    BY <1>3, <1>7
  <2>2. c * BlockSize <= l * BlockSize /\ c * BlockSize \in Nat
    BY <2>1, <1>1, <1>4, TimesMonotone
  <2> QED BY <2>2, <1>1, <1>3, <1>5
<1> QED BY <1>3, <1>6, <1>7

\* allocate_new_blocks turned k into w: room for num tokens.
Roomy(k, w, r, num) ==
    /\ Grown(k.req_to_blocks[r], w.req_to_blocks[r])
    /\ NoNewHashes(k.pool.block_hash, w.pool.block_hash)
    /\ w.num_cached_block = k.num_cached_block
    /\ num <= Len(w.req_to_blocks[r]) * BlockSize

(* That is so when enough blocks are free.                                 *)
LEMMA AllocateNewRoomy ==
    ASSUME NEW k, KVInv(k), NEW r \in Reqs, NEW num \in Int,
           cdiv(num, BlockSize) - Len(k.req_to_blocks[r]) <= Len(k.pool.free),
           NEW w, w = allocate_new_blocks(k, r, num)
    PROVE  Roomy(k, w, r, num)
<1> DEFINE p == k.pool
           bs == k.req_to_blocks[r]
           c == cdiv(num, BlockSize)
           n == MaxOf(c - Len(bs), 0)
           ret == NewBlocks(p, n)
           q == get_new_blocks(p, n)
<1>1. /\ k \in Managers /\ p \in Pools /\ k.req_to_blocks \in [Reqs -> Seq(Blocks)]
      /\ bs \in Seq(Blocks) /\ Len(bs) \in Nat /\ Len(p.free) \in Nat
      /\ Distinct(p.free) /\ NullBlock \notin Elements(p.free)
  BY InOrder, FreeHasNoNull DEF Accounted, FreeList
<1>2. w = [k EXCEPT !.pool = q, !.req_to_blocks[r] = bs \o ret, !.known = @ \cup {r}]
  BY DEF allocate_new_blocks
<1>3. c \in Int
  BY CdivType
<1> HIDE DEF c
<1>4. n \in Int /\ n <= Len(p.free) /\ n >= c - Len(bs)
  BY <1>1, <1>3 DEF MaxOf, c
<1> HIDE DEF n, p
<1>5. Takes(p, q, n, ret)
  BY <1>1, <1>4, GetNewBlocksTakes
<1> HIDE DEF q, ret, bs
<1>6. ret \in Seq(Blocks) /\ (\A i \in 1..Len(ret) : ret[i] # NullBlock) /\ Len(ret) >= n
  BY <1>4, <1>5 DEF Takes
<1> DEFINE new == bs \o ret
<1>7. Grown(bs, new) /\ Len(new) = Len(bs) + Len(ret)
  BY <1>1, <1>6, JoinGrown
<1> HIDE DEF new
<1>8. w.pool = q /\ w.req_to_blocks[r] = new /\ w.num_cached_block = k.num_cached_block
  <2>1. /\ w.pool = q /\ w.num_cached_block = k.num_cached_block
        /\ w.req_to_blocks = [k.req_to_blocks EXCEPT ![r] = new]
    BY <1>1, <1>2 DEF Managers, new
  <2> QED BY <2>1, <1>1
<1>9. Len(new) \in Nat /\ c <= Len(new)
  BY <1>1, <1>3, <1>4, <1>6, <1>7
<1>10. num <= Len(new) * BlockSize
  BY <1>9, CdivEnough DEF c
<1> QED BY <1>5, <1>7, <1>8, <1>10 DEF Roomy, Takes, bs, p

(* A queue has as many blocks as places.                                   *)
LEMMA DistinctCardinality ==
    ASSUME NEW s \in Seq(Blocks), Distinct(s)
    PROVE  IsFiniteSet(Elements(s)) /\ Cardinality(Elements(s)) = Len(s)
<1>1. Len(s) \in Nat /\ SubSeq(s, 1, Len(s)) = s
  OBVIOUS
<1>2. Len(s) \in 0..Len(s)
  BY <1>1
<1>3. Split(s, Len(s), SubSeq(s, 1, Len(s)), SubSeq(s, Len(s) + 1, Len(s)))
  BY <1>2, SplitQueue
<1>4. Cardinality(Elements(s)) = Len(s)
  BY <1>1, <1>3 DEF Split
<1>5. IsFiniteSet(Elements(s))
  <2>1. IsFiniteSet(Blocks)
    BY BlockPoolAssumption, FS_Interval DEF Blocks
  <2>2. Elements(s) \subseteq Blocks
    BY DEF Elements
  <2> QED BY <2>1, <2>2, FS_Subset
<1> QED BY <1>4, <1>5

\* The hit blocks that have to leave the free queue.
Evictable(hit, nskip, rc) ==
    {i \in (nskip + 1)..Len(hit) : hit[i] # NullBlock /\ rc[hit[i]] = 0}

(* They are a finite number.                                               *)
LEMMA EvictableFinite ==
    ASSUME NEW hit \in Seq(Blocks), NEW nskip \in Nat, NEW rc
    PROVE  /\ IsFiniteSet(Evictable(hit, nskip, rc))
           /\ Cardinality(Evictable(hit, nskip, rc)) \in Nat
           /\ Len(hit) = 0 => Cardinality(Evictable(hit, nskip, rc)) = 0
<1> DEFINE E == Evictable(hit, nskip, rc)
<1>1. IsFiniteSet((nskip + 1)..Len(hit))
  BY FS_Interval
<1>2. E \subseteq (nskip + 1)..Len(hit)
  BY DEF Evictable
<1> HIDE DEF E
<1>3. IsFiniteSet(E) /\ Cardinality(E) \in Nat
  BY <1>1, <1>2, FS_Subset, FS_CardinalityType
<1>4. ASSUME Len(hit) = 0 PROVE Cardinality(E) = 0
  <2>1. E = {}
    BY <1>2, <1>4
  <2> QED BY <2>1, FS_EmptySet
<1> QED BY <1>3, <1>4 DEF E

(* touch takes no more than those from the free queue.                     *)
LEMMA TouchLength ==
    ASSUME NEW p \in Pools, FreeList(p.free, p.ref_cnt), NEW hit \in Seq(Blocks), NEW nskip \in Nat,
           NEW gq, gq = Only(p.free, Blocks \ Elements(SubSeq(hit, nskip + 1, Len(hit))))
    PROVE  /\ gq \in Seq(Blocks) /\ Distinct(gq) /\ NullBlock \notin Elements(gq)
           /\ Len(gq) >= Len(p.free) - Cardinality(Evictable(hit, nskip, p.ref_cnt))
<1> DEFINE fq == p.free
           rc == p.ref_cnt
           kept == SubSeq(hit, nskip + 1, Len(hit))
           E == Evictable(hit, nskip, rc)
           f == [i \in E |-> hit[i]]
           T == {hit[i] : i \in E}
<1>1. fq \in Seq(Blocks) /\ Distinct(fq) /\ Elements(fq) = {b \in Blocks \ {NullBlock} : rc[b] = 0}
  BY DEF Pools, FreeList
<1>2. gq \in Seq(Blocks) /\ Distinct(gq) /\ Elements(gq) = Elements(fq) \cap (Blocks \ Elements(kept))
  <2> HIDE DEF kept, fq
  <2>1. \A i, j \in 1..Len(fq) : fq[i] = fq[j] /\ fq[i] \in Blocks \ Elements(kept) => i = j
    BY <1>1 DEF Distinct
  <2> QED BY <1>1, <2>1, OnlyFacts DEF fq, kept
<1>3. IsFiniteSet(E) /\ Cardinality(E) \in Nat
  BY EvictableFinite
<1>4. IsFiniteSet(T) /\ Cardinality(T) <= Cardinality(E)
  <2>1. f \in [E -> T] /\ \A x \in T : \E i \in E : f[i] = x
    OBVIOUS
  <2> HIDE DEF f, T, E
  <2>2. f \in Surjection(E, T)
    BY <2>1, Fun_IsSurj
  <2> QED BY <2>2, <1>3, FS_Surjection
<1>5. Elements(fq) \subseteq Elements(gq) \cup T
  <2> SUFFICES ASSUME NEW b \in Elements(fq), b \notin Elements(gq) PROVE b \in T
    OBVIOUS
  <2>1. b \in Blocks \ {NullBlock} /\ rc[b] = 0
    BY <1>1
  <2>2. b \in Elements(kept)
    BY <2>1, <1>2
  <2>3. PICK j \in 1..Len(kept) : kept[j] = b
    BY <2>2 DEF Elements
  <2>4. /\ \A i \in 1..Len(kept) : kept[i] = hit[nskip + i] /\ nskip + i \in (nskip + 1)..Len(hit)
    <3>1. Len(hit) \in Nat /\ Len(kept) = IF nskip + 1 <= Len(hit) THEN Len(hit) - nskip ELSE 0
      OBVIOUS
    <3> QED BY <3>1
  <2>5. nskip + j \in E /\ hit[nskip + j] = b
    BY <2>1, <2>3, <2>4 DEF Evictable
  <2> QED BY <2>5
<1>6. /\ IsFiniteSet(Elements(fq)) /\ Cardinality(Elements(fq)) = Len(fq)
      /\ IsFiniteSet(Elements(gq)) /\ Cardinality(Elements(gq)) = Len(gq)
  <2> HIDE DEF fq
  <2> QED BY <1>1, <1>2, DistinctCardinality
<1> HIDE DEF T, E, fq, rc
<1> DEFINE F == Elements(fq)
           G == Elements(gq)
           U == G \cup T
           I == G \cap T
<1>7. /\ IsFiniteSet(U) /\ Cardinality(U) = Cardinality(G) + Cardinality(T) - Cardinality(I)
      /\ Cardinality(I) \in Nat /\ Cardinality(G) \in Nat /\ Cardinality(T) \in Nat
  <2> HIDE DEF G
  <2>1. IsFiniteSet(I) /\ I \subseteq G
    <3>1. I \subseteq G
      OBVIOUS
    <3> HIDE DEF I
    <3> QED BY <3>1, <1>6, FS_Subset DEF G
  <2>2. IsFiniteSet(U) /\ Cardinality(U) = Cardinality(G) + Cardinality(T) - Cardinality(I)
    BY <1>4, <1>6, FS_Union DEF G
  <2> QED BY <2>1, <2>2, <1>4, <1>6, FS_CardinalityType DEF G
<1>8. Cardinality(F) <= Cardinality(U) /\ Cardinality(U) \in Nat
  <2>1. F \in SUBSET U
    BY <1>5
  <2> HIDE DEF F, U
  <2> QED BY <2>1, <1>7, FS_Subset, FS_CardinalityType
<1> HIDE DEF U, I
<1>9. Len(gq) >= Len(fq) - Cardinality(E)
  <2>1. Len(gq) \in Nat /\ Len(fq) \in Nat
    BY <1>1, <1>2
  <2> QED BY <2>1, <1>3, <1>4, <1>6, <1>7, <1>8
<1> QED BY <1>1, <1>2, <1>9 DEF E, fq, rc

\* allocate_new_computed_blocks turned k into x.
HoldsPrefix(k, x, r, nskip, hit) ==
    /\ Grown(HitTable(nskip, hit), x.req_to_blocks[r])
    /\ x.num_cached_block[r] = Len(HitTable(nskip, hit))
    /\ NoNewHashes(k.pool.block_hash, x.pool.block_hash)
    /\ Len(x.req_to_blocks[r]) + Len(x.pool.free) >=
          Len(HitTable(nskip, hit)) + Len(k.pool.free)
              - Cardinality(Evictable(hit, nskip, k.pool.ref_cnt))

(* The table starts with the hit, null blocks before the window; what it    *)
(* holds and what is left add up.                                          *)
LEMMA AllocateComputedHolds ==
    ASSUME NEW k, KVInv(k), NEW r \in Reqs, Len(k.req_to_blocks[r]) = 0,
           k.num_cached_block[r] = Untracked,
           NEW hit, Usable(hit, k.pool), NEW local \in Nat, NEW external \in Nat,
           NEW x, x = allocate_new_computed_blocks(k, r, hit, local, external),
           NEW nskip, nskip = get_num_skipped_tokens(local + external) \div BlockSize
    PROVE  HoldsPrefix(k, x, r, nskip, hit)
<1> DEFINE p == k.pool
           bs == k.req_to_blocks[r]
           total == local + external
           skipped_tokens == get_num_skipped_tokens(total)
           kept == SubSeq(hit, nskip + 1, Len(hit))
           ext == IF nskip > 0 THEN MinOf(total - skipped_tokens, external) ELSE external
           table == HitTable(nskip, hit)
           p1 == IF EnableCaching THEN touch(p, kept) ELSE p
           c == cdiv(total, BlockSize)
           n == IF ext > 0 THEN c - Len(table) ELSE 0
           ret == NewBlocks(p1, n)
           q == get_new_blocks(p1, n)
           new == bs \o table \o ret
           E == Evictable(hit, nskip, p.ref_cnt)
<1>1. x = [k EXCEPT !.pool = q, !.req_to_blocks[r] = new, !.num_cached_block[r] = Len(table)]
  BY ZenonT(30) DEF allocate_new_computed_blocks, HitTable
<1>2. /\ k \in Managers /\ p \in Pools /\ bs \in Seq(Blocks) /\ k.req_to_blocks \in [Reqs -> Seq(Blocks)]
      /\ k.num_cached_block \in [Reqs -> Int] /\ FreeList(p.free, p.ref_cnt)
      /\ NullBlock \notin Elements(p.free)
  BY InOrder, FreeHasNoNull DEF Accounted
<1>3. total \in Int /\ nskip \in Nat /\ c \in Int
  <2>1. total \in Int
    OBVIOUS
  <2> HIDE DEF total
  <2> QED BY <2>1, SkippedBlocks, CdivType DEF total
<1>4. hit \in Seq(Blocks) /\ Len(hit) \in Nat /\ (hit # <<>> => EnableCaching)
  BY DEF Usable
<1>5. table \in Seq(Blocks) /\ Len(table) \in Nat
  BY <1>3, <1>4, HitTableLength
<1>6. Cardinality(E) \in Nat
  BY <1>3, <1>4, EvictableFinite
<1> HIDE DEF table, E
<1>7. /\ p1 \in Pools /\ Distinct(p1.free) /\ NullBlock \notin Elements(p1.free)
      /\ p1.block_hash = p.block_hash /\ Len(p1.free) >= Len(p.free) - Cardinality(E)
  <2>1. CASE ~EnableCaching
    <3>1. Len(p.free) \in Nat
      BY <1>2 DEF Pools
    <3> HIDE DEF p
    <3> QED BY <2>1, <3>1, <1>2, <1>6 DEF FreeList
  <2>2. CASE EnableCaching
    <3> DEFINE fq == Only(p.free, Blocks \ Elements(kept))
               cnt == [b \in Blocks |->
                        p.ref_cnt[b] + IF b = NullBlock THEN 0
                                       ELSE Cardinality({i \in DOMAIN kept : kept[i] = b})]
    <3>1. p1 = [p EXCEPT !.free = fq, !.ref_cnt = cnt]
      BY <2>2 DEF touch
    <3>2. fq \in Seq(Blocks) /\ Distinct(fq) /\ NullBlock \notin Elements(fq)
          /\ Len(fq) >= Len(p.free) - Cardinality(E)
      <4> HIDE DEF p
      <4> QED BY <1>2, <1>3, <1>4, TouchLength DEF E
    <3>3. cnt \in [Blocks -> Nat]
      <4> DEFINE add(b) == IF b = NullBlock THEN 0
                           ELSE Cardinality({i \in DOMAIN kept : kept[i] = b})
      <4>0. p.ref_cnt \in [Blocks -> Nat]
        BY <1>2 DEF Pools
      <4> HIDE DEF p1, p
      <4> SUFFICES ASSUME NEW b \in Blocks PROVE add(b) \in Nat
        <5>1. cnt = [b \in Blocks |-> p.ref_cnt[b] + add(b)]
          OBVIOUS
        <5> HIDE DEF cnt, add
        <5> QED BY <4>0, <5>1
      <4>2. Cardinality({i \in DOMAIN kept : kept[i] = b}) \in Nat
        <5>1. kept \in Seq(Blocks)
          BY <1>3, <1>4
        <5> HIDE DEF kept
        <5>2. DOMAIN kept = 1..Len(kept) /\ Len(kept) \in Nat
          BY <5>1
        <5>3. IsFiniteSet(1..Len(kept))
          BY <5>2, FS_Interval
        <5>4. {i \in DOMAIN kept : kept[i] = b} \subseteq 1..Len(kept)
          BY <5>2
        <5>5. IsFiniteSet({i \in DOMAIN kept : kept[i] = b})
          BY <5>3, <5>4, FS_Subset
        <5> QED BY <5>5, FS_CardinalityType
      <4> QED BY <4>2
    <3> HIDE DEF fq, cnt, p1, p
    <3>4. p1 \in Pools /\ p1.free = fq /\ p1.block_hash = p.block_hash
      BY <3>1, <3>2, <3>3, <1>2 DEF Pools
    <3> QED BY <3>2, <3>4
  <2> QED BY <2>1, <2>2
<1>8. n \in Int
  <2> HIDE DEF ext, c
  <2> QED BY <1>3, <1>5
<1> HIDE DEF p1, n
<1>9. Takes(p1, q, n, ret)
  BY <1>7, <1>8, GetNewBlocksTakes
<1> HIDE DEF q, ret, bs
<1>10. new = table \o ret
  <2>1. bs = <<>>
    BY <1>2 DEF bs
  <2>2. bs \o table = table
    BY <2>1, <1>5
  <2> QED BY <2>2
<1>11. Grown(table, new) /\ Len(new) = Len(table) + Len(ret)
  BY <1>5, <1>9, <1>10, JoinGrown DEF Takes
<1> HIDE DEF new
<1>12. x.pool = q /\ x.req_to_blocks[r] = new /\ x.num_cached_block[r] = Len(table)
  <2>1. /\ x.pool = q
        /\ x.req_to_blocks = [k.req_to_blocks EXCEPT ![r] = new]
        /\ x.num_cached_block = [k.num_cached_block EXCEPT ![r] = Len(table)]
    BY <1>1, <1>2 DEF Managers
  <2> QED BY <2>1, <1>2
<1>13. Len(new) + Len(q.free) >= Len(table) + Len(p.free) - Cardinality(E)
  <2>1. Len(q.free) = Len(p1.free) - Len(ret) /\ Len(ret) \in Nat
    BY <1>9 DEF Takes
  <2> HIDE DEF p
  <2>2. p1.free \in Seq(Blocks) /\ p.free \in Seq(Blocks)
    BY <1>2, <1>7 DEF Pools
  <2>3. Len(p1.free) \in Nat /\ Len(p.free) \in Nat
    BY <2>2
  <2>4. Len(p1.free) >= Len(p.free) - Cardinality(E)
    BY <1>7
  <2>5. Len(new) = Len(table) + Len(ret) /\ Len(table) \in Nat /\ Cardinality(E) \in Nat
    BY <1>5, <1>6, <1>11
  <2>6. ASSUME NEW a \in Nat, NEW b \in Nat, NEW f \in Nat, NEW g \in Nat, NEW h \in Nat,
               f >= g - h
        PROVE  (a + b) + (f - b) >= a + g - h
    BY <2>6
  <2>7. (Len(table) + Len(ret)) + (Len(p1.free) - Len(ret)) >= Len(table) + Len(p.free) - Cardinality(E)
    BY <2>1, <2>3, <2>4, <2>5, <2>6
  <2> QED BY <2>1, <2>5, <2>7
<1>14. NoNewHashes(p.block_hash, q.block_hash)
  BY <1>7, <1>9 DEF Takes
<1> QED BY <1>11, <1>12, <1>13, <1>14 DEF HoldsPrefix, table, E, p

\* What remove_skipped_blocks leaves of the table of r: n tokens are computed.
CutTable(table, cut, n) ==
    /\ Len(cut) = Len(table)
    /\ \A i \in 1..Len(table) :
          cut[i] = table[i] \/ (cut[i] = NullBlock /\ i * BlockSize <= get_num_skipped_tokens(n))

(* It only puts null blocks, in places no longer looked at.                *)
LEMMA RemoveSkippedCuts ==
    ASSUME NEW k, KVInv(k), NEW r \in Reqs, NEW n \in Int, NEW k2, k2 = remove_skipped_blocks(k, r, n)
    PROVE  CutTable(k.req_to_blocks[r], k2.req_to_blocks[r], n)
<1> DEFINE t == k.req_to_blocks
           bs == t[r]
           d == get_num_skipped_tokens(n) \div BlockSize
           skipped == MinOf(d, Len(bs))
           nulls == {i \in 1..skipped : bs[i] = NullBlock}
           last == IF nulls = {} THEN 0 ELSE CHOOSE i \in nulls : \A j \in nulls : j <= i
           new == [i \in DOMAIN bs |-> IF i \in (last + 1)..skipped THEN NullBlock ELSE bs[i]]
           q == free_blocks(k.pool, Reverse(SubSeq(bs, last + 1, skipped)))
<1>1. k \in Managers /\ t \in [Reqs -> Seq(Blocks)]
  BY InOrder
<1>2. bs \in Seq(Blocks) /\ Len(bs) \in Nat /\ DOMAIN bs = 1..Len(bs)
  BY <1>1
<1>3. k2 = [k EXCEPT !.pool = q, !.req_to_blocks = [t EXCEPT ![r] = new]]
  BY DEF remove_skipped_blocks
<1> HIDE DEF q
<1>4. k2.req_to_blocks[r] = new
  <2> HIDE DEF new
  <2>1. k2.req_to_blocks = [t EXCEPT ![r] = new]
    BY <1>1, <1>3 DEF Managers
  <2> QED BY <2>1, <1>1
<1> HIDE DEF bs, last
<1>5. d \in Nat /\ get_num_skipped_tokens(n) \in Nat
  BY SkippedBlocks
<1>6. ASSUME NEW i \in 1..Len(bs), i \in (last + 1)..skipped
      PROVE  i * BlockSize <= get_num_skipped_tokens(n)
  <2>1. skipped <= d /\ skipped \in Nat
    <3> HIDE DEF d
    <3> QED BY <1>2, <1>5 DEF MinOf
  <2>2. i \in Nat /\ i <= d
    <3> HIDE DEF skipped, d
    <3> QED BY <2>1, <1>2, <1>5, <1>6
  <2> QED BY <2>2, <1>5, FullBlocks
<1> HIDE DEF skipped
<1>7. new \in [1..Len(bs) -> {new[i] : i \in 1..Len(bs)}]
      /\ \A i \in 1..Len(bs) : new[i] = IF i \in (last + 1)..skipped THEN NullBlock ELSE bs[i]
  BY <1>2
<1>8. Len(new) = Len(bs)
  <2> HIDE DEF new
  <2>1. new = [i \in 1..Len(bs) |-> new[i]]
    BY <1>7
  <2>2. \A i \in 1..Len(bs) : new[i] \in {new[j] : j \in 1..Len(bs)}
    OBVIOUS
  <2> QED BY <2>1, <2>2, <1>2, FunctionIsSeq
<1> HIDE DEF new
<1> QED BY <1>4, <1>6, <1>7, <1>8 DEF CutTable, bs

\* What Trimmed leaves.
Trims(k, k2, r, n) ==
    /\ KVInv(k2) /\ OthersSame(k, k2, r) /\ CutTable(k.req_to_blocks[r], k2.req_to_blocks[r], n)
    /\ k2.num_cached_block = k.num_cached_block
    /\ k2.pool.block_hash = k.pool.block_hash

(* Trimmed does that, for the tokens allocate_slots counts as computed.    *)
LEMMA TrimmedTrims ==
    ASSUME NEW k, KVInv(k), NEW r \in Reqs, NEW a, ArgsOK(k, r, a)
    PROVE  Trims(k, Trimmed(k, r, a), r, TotalComputed(a))
<1> DEFINE n == TotalComputed(a)
           m == remove_skipped_blocks(k, r, n)
           k2 == Trimmed(k, r, a)
<1>1. n \in Int
  BY ArgsNumbers
<1>2. KVInv(m) /\ m.num_cached_block = k.num_cached_block /\ m.pool.block_hash = k.pool.block_hash
  BY <1>1, RemoveSkippedKeeps
<1>3. CutTable(k.req_to_blocks[r], m.req_to_blocks[r], n)
  BY <1>1, RemoveSkippedCuts
<1>4. k2 = [m EXCEPT !.known = @ \cup LooksUp(r, n)] /\ LooksUp(r, n) \in SUBSET Reqs
  BY DEF Trimmed, LooksUp
<1> HIDE DEF m
<1>5. KVInv(k2) /\ k2.pool = m.pool /\ k2.req_to_blocks = m.req_to_blocks
      /\ k2.num_cached_block = m.num_cached_block
  <2> HIDE DEF k2
  <2> QED BY <1>2, <1>4, KnownKeeps
<1>6. OthersSame(k, k2, r)
  BY TrimmedFrame
<1> QED BY <1>2, <1>3, <1>5, <1>6 DEF Trims

(* A row survives the cut: null blocks promise nothing.                    *)
LEMMA RowCut ==
    ASSUME NEW m, NEW table, NEW cut, NEW n, CutTable(table, cut, n), NEW nc, NEW text, NEW d,
           Row(m, table, nc, text, d)
    PROVE  Row(m, cut, nc, text, d)
  BY DEF CutTable, Row, Seen, Frontier

(* New blocks behind the table promise nothing either.                     *)
LEMMA RowGrown ==
    ASSUME NEW m, NEW table \in Seq(Blocks), NEW grown \in Seq(Blocks), Grown(table, grown),
           NEW nc \in Int, NEW text, NEW d, Row(m, table, nc, text, d)
    PROVE  Row(m, grown, nc, text, d)
<1>1. /\ Len(table) \in Nat /\ Len(grown) \in Nat /\ Len(table) <= Len(grown)
      /\ BlockSize \in Nat /\ BlockSize > 0
  BY KVCacheManagerAssumption DEF Grown
<1>2. d \in Nat /\ text \in Seq(Nat) /\ d <= Len(text) /\ nc <= Len(table) /\ d <= Len(table) * BlockSize
  BY DEF Row, Frontier
<1>3. Len(table) * BlockSize <= Len(grown) * BlockSize
      /\ Len(table) * BlockSize \in Nat /\ Len(grown) * BlockSize \in Nat
  BY <1>1, TimesMonotone
<1>4. Seen(m, grown, text, d)
  <2> SUFFICES ASSUME NEW i \in 1..Len(grown), NEW s \in 1..BlockSize,
                      grown[i] # NullBlock, At(i, s) <= d
               PROVE  m[grown[i]][s] = SubSeq(text, 1, At(i, s))
    BY DEF Seen
  <2>1. At(i, s) \in Nat \ {0} /\ BlockIndex(At(i, s)) = i
    <3>1. At(i, s) \in Nat /\ At(i, s) >= 1 /\ BlockIndex(At(i, s)) = i
      BY <1>1, AtIn
    <3> QED BY <3>1
  <2>2. At(i, s) <= Len(table) * BlockSize
    BY <2>1, <1>2, <1>3
  <2>3. i <= Len(table)
    BY <2>1, <2>2, <1>1, PlaceWithin
  <2>4. i \in 1..Len(table)
    BY <2>3, <1>1
  <2>5. grown[i] = table[i]
    BY <2>4 DEF Grown
  <2> QED BY <2>4, <2>5 DEF Row, Seen
<1>5. Frontier(grown, nc, d)
  <2>1. nc <= Len(grown) /\ d <= Len(grown) * BlockSize
    <3>1. nc <= Len(grown)
      BY <1>1, <1>2
    <3> DEFINE x == Len(table) * BlockSize
               y == Len(grown) * BlockSize
    <3>2. d <= x /\ x <= y /\ d \in Nat /\ x \in Nat /\ y \in Nat
      BY <1>2, <1>3
    <3> HIDE DEF x, y
    <3>3. d <= y
      BY <3>2
    <3> QED BY <3>1, <3>3 DEF y
  <2>2. ASSUME NEW i \in 1..Len(grown), i <= nc, grown[i] # NullBlock PROVE i * BlockSize <= d
    <3>1. i \in 1..Len(table)
      BY <2>2, <1>1, <1>2
    <3>2. grown[i] = table[i]
      BY <3>1 DEF Grown
    <3> QED BY <3>1, <3>2, <2>2 DEF Row, Frontier
  <2> QED BY <2>1, <2>2 DEF Frontier
<1> QED BY <1>2, <1>4, <1>5 DEF Row

(* A request without blocks has nothing computed.                          *)
LEMMA RowEmpty ==
    ASSUME NEW m, NEW table, Len(table) = 0, NEW text \in Seq(Nat)
    PROVE  Row(m, table, Untracked, text, 0)
<1>1. BlockSize \in Nat /\ BlockSize > 0 /\ Len(text) \in Nat
  BY KVCacheManagerAssumption
<1>2. 0 * BlockSize = 0
  BY <1>1
<1> QED BY <1>1, <1>2 DEF Row, Seen, Frontier, Untracked

(* A sampled token does not touch what is computed.                        *)
LEMMA RowAppended ==
    ASSUME NEW m, NEW table, Len(table) \in Nat, NEW nc, NEW text, NEW d, NEW x \in Nat, Row(m, table, nc, text, d)
    PROVE  Row(m, table, nc, Append(text, x), d)
<1> DEFINE longer == Append(text, x)
<1>1. text \in Seq(Nat) /\ d \in Nat /\ d <= Len(text) /\ Len(text) \in Nat
  BY DEF Row
<1>2. longer \in Seq(Nat) /\ Len(longer) = Len(text) + 1 /\ \A j \in 1..Len(text) : longer[j] = text[j]
  BY <1>1, AppendElements
<1> HIDE DEF longer
<1>3. ASSUME NEW e \in Nat, e <= Len(text) PROVE SubSeq(longer, 1, e) = SubSeq(text, 1, e)
  <2>1. SubSeq(text, 1, e) = [j \in 1..e |-> text[j]] /\ SubSeq(longer, 1, e) = [j \in 1..e |-> longer[j]]
    BY <1>1, <1>2, <1>3
  <2>2. \A j \in 1..e : longer[j] = text[j]
    BY <1>1, <1>2, <1>3
  <2> QED BY <2>1, <2>2
<1>4. Seen(m, table, longer, d)
  <2> SUFFICES ASSUME NEW i \in 1..Len(table), NEW s \in 1..BlockSize,
                      table[i] # NullBlock, At(i, s) <= d
               PROVE  m[table[i]][s] = SubSeq(longer, 1, At(i, s))
    BY DEF Seen
  <2>1. At(i, s) \in Nat
    BY AtIn
  <2>2. At(i, s) <= Len(text)
    BY <2>1, <1>1
  <2>3. SubSeq(longer, 1, At(i, s)) = SubSeq(text, 1, At(i, s))
    BY <2>1, <2>2, <1>3
  <2> QED BY <2>3 DEF Row, Seen
<1>5. d <= Len(longer)
  BY <1>1, <1>2
<1> QED BY <1>1, <1>2, <1>4, <1>5 DEF Row, longer

(* Only the row of r has changed, and no hash is new.                      *)
LEMMA RowMemOK ==
    ASSUME NEW m, NEW k, NEW k2, NEW text, NEW text2, NEW done, NEW done2, NEW r \in Reqs,
           MemOK(m, k, text, done), NoNewHashes(k.pool.block_hash, k2.pool.block_hash),
           \A q \in Reqs : q # r => /\ k2.req_to_blocks[q] = k.req_to_blocks[q]
                                    /\ k2.num_cached_block[q] = k.num_cached_block[q]
                                    /\ text2[q] = text[q] /\ done2[q] = done[q],
           Row(m, k2.req_to_blocks[r], k2.num_cached_block[r], text2[r], done2[r])
    PROVE  MemOK(m, k2, text2, done2)
<1>1. HashedIsWritten(m, k2)
  BY DEF MemOK, NoNewHashes, HashedIsWritten
<1>2. ASSUME NEW q \in Reqs
      PROVE  Row(m, k2.req_to_blocks[q], k2.num_cached_block[q], text2[q], done2[q])
  <2>1. CASE q = r
    BY <2>1
  <2>2. CASE q # r
    BY <2>2 DEF MemOK
  <2> QED BY <2>1, <2>2
<1> QED BY <1>1, <1>2 DEF MemOK

\* A hit ends before the last of the tokens, and has a block wherever attention
\* for the token after it looks.
Reaches(table, n) == \A i \in 1..Len(table) : i * BlockSize > get_num_skipped_tokens(n) => table[i] # NullBlock
HitReaches(hit, tokens_) ==
    Len(hit) <= (Len(tokens_) - 1) \div BlockSize /\ Reaches(hit, Len(hit) * BlockSize)

(* The null block is never a cached one.                                   *)
LEMMA CachedNotNull ==
    ASSUME NEW p \in Pools, MapOK(p.cached, p.block_hash), NEW h, IsCached(p, h)
    PROVE  get_cached_block(p, h) \in Blocks \ {NullBlock}
<1>1. get_cached_block(p, h) \in Blocks /\ p.block_hash[get_cached_block(p, h)] = h
  BY CachedBlock
<1>2. h \in DOMAIN p.cached
  BY DEF IsCached
<1> QED BY <1>1, <1>2 DEF MapOK

(* DropLast shortens.                                                      *)
LEMMA DropLastLength ==
    ASSUME NEW s \in Seq(Blocks), NEW n \in Nat
    PROVE  Len(DropLast(s, n)) = MaxOf(Len(s) - n, 0)
<1> DEFINE m == MaxOf(Len(s) - n, 0)
<1>1. Len(s) \in Nat /\ m \in Nat /\ m <= Len(s)
  BY DEF MaxOf
<1>2. DropLast(s, n) = SubSeq(s, 1, m)
  BY DEF DropLast
<1> HIDE DEF m
<1> QED BY <1>1, <1>2 DEF m

(* The hit of full attention.                                              *)
LEMMA FullAttentionHitReaches ==
    ASSUME NEW p \in Pools, MapOK(p.cached, p.block_hash),
           NEW text \in Seq(Nat), Len(text) >= 1,
           NEW hit, hit = FullAttentionHit(p, block_hashes(text), Len(text) - 1)
    PROVE  HitReaches(hit, text)
<1> DEFINE hs == block_hashes(text)
           L == (Len(text) - 1) \div BlockSize
           limit == MinOf(L, Len(hs))
           n == CHOOSE k \in 0..limit :
                  /\ \A i \in 1..k : IsCached(p, hs[i])
                  /\ k < limit => ~IsCached(p, hs[k + 1])
           blocks == [i \in 1..n |-> get_cached_block(p, hs[i])]
           drop == IF UseEagle THEN 1 ELSE 0
<1>1. hit = DropLast(blocks, drop)
  BY DEF FullAttentionHit
<1>2. L \in Nat /\ Len(hs) \in Nat
  BY HitLimit
<1> HIDE DEF L, hs
<1>3. limit \in Nat /\ limit <= L
  BY <1>2 DEF MinOf
<1> HIDE DEF limit
<1>4. n \in 0..limit /\ \A i \in 1..n : IsCached(p, hs[i])
  BY <1>3, LongestPrefix
<1> HIDE DEF n
<1>5. n \in Nat /\ n <= L /\ \A i \in 1..n : get_cached_block(p, hs[i]) \in Blocks \ {NullBlock}
  <2>1. n \in Nat /\ n <= L
    BY <1>2, <1>3, <1>4
  <2> QED BY <2>1, <1>4, CachedNotNull
<1>6. blocks \in Seq(Blocks) /\ Len(blocks) = n /\ \A i \in 1..n : blocks[i] # NullBlock
  BY <1>5
<1> HIDE DEF blocks
<1>7. drop \in Nat
  OBVIOUS
<1> HIDE DEF drop
<1>8. hit \in Seq(Blocks) /\ Len(hit) <= n /\ \A i \in 1..Len(hit) : hit[i] # NullBlock
  BY <1>1, <1>6, <1>7, DropLastFacts
<1>9. Len(hit) <= L
  BY <1>2, <1>5, <1>8
<1> QED BY <1>8, <1>9 DEF HitReaches, Reaches, L

(* Within the window, a run of enough blocks has no null block.            *)
LEMMA RunCoversWindow ==
    ASSUME SlidingWindow # 0, NEW g \in Nat,
           NEW run \in Nat, run >= cdiv(SlidingWindow - 1, BlockSize) + g,
           NEW e \in Nat, e >= g, NEW i \in Nat \ {0},
           i * BlockSize > get_num_skipped_tokens((e - g) * BlockSize)
    PROVE  i > e - run
<1>1. BlockSize \in Nat /\ BlockSize > 0 /\ SlidingWindow \in Nat /\ SlidingWindow - 1 \in Nat
  BY KVCacheManagerAssumption
<1> DEFINE c == cdiv(SlidingWindow - 1, BlockSize)
           l == e - g
<1>2. c \in Nat /\ l \in Nat
  BY <1>1, CdivType
<1>3. SlidingWindow - 1 <= c * BlockSize
  BY <1>1, <1>2, CdivEnough
<1> HIDE DEF c
<1> SUFFICES ASSUME ~(i > e - run) PROVE FALSE
  OBVIOUS
<1>4. i + c <= l
  BY <1>2 DEF c, l
<1> HIDE DEF l
<1>5. (i + c) * BlockSize <= l * BlockSize /\ l * BlockSize \in Nat /\ c * BlockSize \in Nat
      /\ i * BlockSize \in Nat
  <2>1. i + c \in Nat /\ i \in Nat
    BY <1>2
  <2> QED BY <2>1, <1>1, <1>2, <1>4, TimesMonotone
<1>6. (i + c) * BlockSize = i * BlockSize + c * BlockSize
  BY <1>1, <1>2
<1>7. get_num_skipped_tokens(l * BlockSize) >= l * BlockSize - SlidingWindow + 1
  <2> DEFINE x == l * BlockSize
  <2> HIDE DEF x
  <2>1. x \in Nat
    BY <1>5 DEF x
  <2>2. get_num_skipped_tokens(x) >= x - SlidingWindow + 1
    BY <2>1, <1>1 DEF get_num_skipped_tokens, MaxOf
  <2> QED BY <2>2 DEF x
<1>8. get_num_skipped_tokens(l * BlockSize) \in Nat
  BY <1>5, SkippedBlocks
<1>9. i * BlockSize > get_num_skipped_tokens(l * BlockSize)
  BY DEF l
<1> DEFINE a == i * BlockSize
           b == c * BlockSize
           x == l * BlockSize
           y == get_num_skipped_tokens(x)
<1>10. /\ a \in Nat /\ b \in Nat /\ x \in Nat /\ y \in Nat /\ a + b <= x
       /\ SlidingWindow - 1 <= b /\ y >= x - SlidingWindow + 1 /\ a > y
  BY <1>3, <1>5, <1>6, <1>7, <1>8, <1>9
<1> HIDE DEF a, b, x, y
<1> QED BY <1>1, <1>10

(* The hit of sliding window attention.                                    *)
LEMMA SlidingWindowHitReaches ==
    ASSUME NEW p \in Pools, MapOK(p.cached, p.block_hash), SlidingWindow # 0,
           NEW text \in Seq(Nat), Len(text) >= 1,
           NEW hit, hit = SlidingWindowHit(p, block_hashes(text), Len(text) - 1)
    PROVE  HitReaches(hit, text)
<1> DEFINE hs == block_hashes(text)
           drop == IF UseEagle THEN 1 ELSE 0
           need == cdiv(SlidingWindow - 1, BlockSize) + drop
           limit == (Len(text) - 1) \div BlockSize
           run == MaxOf(need, 1)
           Ends == {e \in run..limit : \A i \in (e - run + 1)..e : IsCached(p, hs[i])}
           prefix == CHOOSE k \in 0..limit :
                  /\ \A i \in 1..k : IsCached(p, hs[i])
                  /\ k < limit => ~IsCached(p, hs[k + 1])
           e == CHOOSE x \in Ends : \A y \in Ends : y <= x
           rear == [i \in 1..e |-> IF i > e - run THEN get_cached_block(p, hs[i]) ELSE NullBlock]
           front == [i \in 1..prefix |-> get_cached_block(p, hs[i])]
           blocks == IF Ends # {} THEN rear ELSE front
<1>1. hit = DropLast(blocks, drop)
  BY DEF SlidingWindowHit
<1>2. limit \in Nat
  BY HitLimit
<1>3. drop \in Nat /\ drop <= 1
  OBVIOUS
<1> HIDE DEF drop
<1>4. run \in Nat /\ run >= need /\ run >= 1
  <2>1. SlidingWindow - 1 \in Nat
    BY KVCacheManagerAssumption
  <2>2. cdiv(SlidingWindow - 1, BlockSize) \in Nat
    BY <2>1, CdivType
  <2> QED BY <2>2, <1>3 DEF MaxOf
<1>5. run >= cdiv(SlidingWindow - 1, BlockSize) + drop
  BY <1>4
<1> HIDE DEF limit, hs, need, run
<1>6. ASSUME Ends # {} PROVE HitReaches(hit, text)
  <2>1. Ends \in SUBSET Nat /\ \A y \in Ends : y <= limit
    BY <1>2, <1>4
  <2>2. \E m \in Ends : \A k \in Ends : k <= m
    <3> HIDE DEF Ends
    <3> QED BY <1>2, <1>6, <2>1, GreatestElement
  <2>3. e \in Ends
    <3> HIDE DEF Ends
    <3> QED BY <2>2
  <2>4. e \in run..limit /\ \A i \in (e - run + 1)..e : IsCached(p, hs[i])
    <3> HIDE DEF e
    <3> QED BY <2>3
  <2>a. blocks = rear
    BY <1>6
  <2> HIDE DEF Ends, e, blocks
  <2>5. e \in Nat /\ e <= limit /\ e >= drop /\ e - drop \in Nat
    BY <2>4, <1>2, <1>3, <1>4
  <2>6. \A i \in 1..e : i > e - run => get_cached_block(p, hs[i]) \in Blocks \ {NullBlock}
    <3> SUFFICES ASSUME NEW i \in 1..e, i > e - run
                 PROVE  get_cached_block(p, hs[i]) \in Blocks \ {NullBlock}
      OBVIOUS
    <3>1. i \in (e - run + 1)..e
      BY <2>5, <1>4
    <3>2. IsCached(p, hs[i])
      BY <3>1, <2>4
    <3> QED BY <3>2, CachedNotNull
  <2>7. rear \in Seq(Blocks) /\ Len(rear) = e /\ \A i \in 1..e : i > e - run => rear[i] # NullBlock
    BY <2>5, <2>6, NullIsBlock
  <2> HIDE DEF rear
  <2>8. hit = DropLast(rear, drop)
    BY <1>1, <2>a
  <2>9. Len(hit) = e - drop
    <3>1. Len(hit) = MaxOf(e - drop, 0)
      BY <2>7, <2>8, <1>3, DropLastLength
    <3> QED BY <3>1, <2>5 DEF MaxOf
  <2>10. \A i \in 1..Len(hit) : i \in 1..e /\ hit[i] = rear[i]
    BY <2>7, <2>8, <1>3, DropLastFacts
  <2>11. ASSUME NEW i \in 1..Len(hit), i * BlockSize > get_num_skipped_tokens(Len(hit) * BlockSize)
         PROVE  hit[i] # NullBlock
    <3>1. i \in Nat \ {0}
      BY <2>5, <2>9
    <3>2. i * BlockSize > get_num_skipped_tokens((e - drop) * BlockSize)
      BY <2>9, <2>11
    <3>3. i > e - run
      BY <3>1, <3>2, <2>5, <1>3, <1>4, <1>5, RunCoversWindow
    <3> QED BY <3>3, <2>7, <2>10
  <2>12. Len(hit) <= limit
    BY <2>5, <2>9, <1>2, <1>3
  <2> QED BY <2>11, <2>12 DEF HitReaches, Reaches, limit
<1>7. ASSUME Ends = {} PROVE HitReaches(hit, text)
  <2>1. prefix \in 0..limit /\ \A i \in 1..prefix : IsCached(p, hs[i])
    BY <1>2, LongestPrefix
  <2>a. blocks = front
    BY <1>7
  <2> HIDE DEF prefix, blocks, Ends
  <2>2. prefix \in Nat /\ prefix <= limit
        /\ \A i \in 1..prefix : get_cached_block(p, hs[i]) \in Blocks \ {NullBlock}
    <3>1. prefix \in Nat /\ prefix <= limit
      BY <2>1, <1>2
    <3> QED BY <3>1, <2>1, CachedNotNull
  <2>3. front \in Seq(Blocks) /\ Len(front) = prefix /\ \A i \in 1..prefix : front[i] # NullBlock
    BY <2>2
  <2> HIDE DEF front
  <2>4. hit \in Seq(Blocks) /\ Len(hit) <= prefix /\ \A i \in 1..Len(hit) : hit[i] # NullBlock
    BY <1>1, <1>3, <2>a, <2>3, DropLastFacts
  <2>5. Len(hit) <= limit
    BY <2>2, <2>4, <1>2
  <2> QED BY <2>4, <2>5 DEF HitReaches, Reaches, limit
<1> HIDE DEF Ends
<1> QED BY <1>6, <1>7

\* A prefix hit of text: its blocks have the hashes of the text's prefixes.
HitOf(hit, bh, text) ==
    /\ hit \in Seq(Blocks) /\ Reaches(hit, Len(hit) * BlockSize)
    /\ Len(hit) * BlockSize \in Nat /\ Len(hit) * BlockSize < Len(text)
    /\ \A i \in 1..Len(hit) : hit[i] # NullBlock => bh[hit[i]] = SubSeq(text, 1, i * BlockSize)

(* get_computed_blocks finds such a hit.                                   *)
LEMMA ComputedBlocksHit ==
    ASSUME NEW k, KVInv(k), NEW text \in Seq(Nat), Len(text) >= 1, NEW hit, hit = get_computed_blocks(k, text)
    PROVE  HitOf(hit, k.pool.block_hash, text)
<1> DEFINE p == k.pool
           hs == block_hashes(text)
           d == Len(text) \div BlockSize
<1>1. p \in Pools /\ MapOK(p.cached, p.block_hash)
  BY InOrder DEF Accounted
<1>2. BlockSize \in Nat /\ BlockSize > 0 /\ Len(text) \in Nat
  BY KVCacheManagerAssumption
<1>3. CASE ~EnableCaching
  <2>1. hit = <<>> /\ Len(hit) = 0
    BY <1>3 DEF get_computed_blocks
  <2>2. 0 * BlockSize = 0
    BY <1>2
  <2> QED BY <2>1, <2>2, <1>2 DEF HitOf, Reaches
<1>4. CASE EnableCaching
  <2> HIDE DEF p
  <2>1. GoodHit(hit, p, text) /\ HitReaches(hit, text)
    <3>1. CASE SlidingWindow = 0
      <4>1. hit = FullAttentionHit(p, hs, Len(text) - 1)
        BY <1>4, <3>1 DEF get_computed_blocks, p
      <4> QED BY <4>1, <1>1, FullAttentionHitFacts, FullAttentionHitReaches
    <3>2. CASE SlidingWindow # 0
      <4>1. hit = SlidingWindowHit(p, hs, Len(text) - 1)
        BY <1>4, <3>2 DEF get_computed_blocks, p
      <4> QED BY <3>2, <4>1, <1>1, SlidingWindowHitFacts, SlidingWindowHitReaches
    <3> QED BY <3>1, <3>2
  <2>2. hit \in Seq(Blocks) /\ Len(hit) <= d /\ HitsIn(hit, p, hs) /\ Reaches(hit, Len(hit) * BlockSize)
    BY <2>1, HitLimit DEF GoodHit, HitReaches
  <2>3. d \in Nat
    BY HitLimit
  <2>4. ASSUME NEW i \in 1..Len(hit), hit[i] # NullBlock
        PROVE  p.block_hash[hit[i]] = SubSeq(text, 1, i * BlockSize)
    <3>1. IsCached(p, hs[i]) /\ hit[i] = get_cached_block(p, hs[i])
      BY <2>2, <2>4 DEF HitsIn
    <3>2. p.block_hash[hit[i]] = hs[i]
      <4> HIDE DEF hs
      <4> QED BY <3>1, <1>1, CachedBlock
    <3>3. i \in 1..d
      <4> HIDE DEF d
      <4> QED BY <2>2, <2>3
    <3>4. hs[i] = SubSeq(text, 1, i * BlockSize)
      BY <3>3 DEF block_hashes
    <3> QED BY <3>2, <3>4
  <2>5. Len(hit) * BlockSize <= Len(text) - 1 /\ Len(hit) * BlockSize \in Nat
    <3>1. Len(hit) <= (Len(text) - 1) \div BlockSize /\ Len(text) - 1 \in Nat /\ Len(hit) \in Nat
      BY <2>1, <2>2, <1>2 DEF HitReaches
    <3> QED BY <3>1, FullBlocks
  <2>6. Len(hit) * BlockSize < Len(text)
    <3> DEFINE x == Len(hit) * BlockSize
    <3> HIDE DEF x
    <3>1. x < Len(text)
      BY <2>5, <1>2 DEF x
    <3> QED BY <3>1 DEF x
  <2> QED BY <2>2, <2>4, <2>5, <2>6 DEF HitOf, p
<1> QED BY <1>3, <1>4

(* The blocks of the table made for a hit.                                 *)
LEMMA HitTableEntries ==
    ASSUME NEW hit \in Seq(Blocks), NEW n \in Nat, NEW i \in 1..Len(HitTable(n, hit))
    PROVE  /\ i > n => i \in 1..Len(hit) /\ HitTable(n, hit)[i] = hit[i]
           /\ HitTable(n, hit)[i] # NullBlock => i > n
<1> DEFINE kept == SubSeq(hit, n + 1, Len(hit))
           nulls == [j \in 1..n |-> NullBlock]
           table == HitTable(n, hit)
<1>1. Len(hit) \in Nat /\ Len(table) = IF n <= Len(hit) THEN Len(hit) ELSE n
  BY HitTableLength
<1>2. /\ kept \in Seq(Blocks) /\ Len(kept) = IF n + 1 <= Len(hit) THEN Len(hit) - n ELSE 0
      /\ \A j \in 1..Len(kept) : kept[j] = hit[n + j]
  BY <1>1
<1>3. nulls \in Seq(Blocks) /\ Len(nulls) = n /\ \A j \in 1..n : nulls[j] = NullBlock
  BY NullIsBlock
<1>4. table = nulls \o kept
  BY DEF HitTable
<1> HIDE DEF nulls, kept, table
<1>5. /\ \A j \in 1..n : table[j] = nulls[j]
      /\ \A j \in 1..Len(kept) : table[n + j] = kept[j]
  BY <1>2, <1>3, <1>4, ConcatFacts
<1>6. i \in 1..Len(table)
  BY DEF table
<1>7. ASSUME i > n PROVE i \in 1..Len(hit) /\ table[i] = hit[i]
  <2>1. i \in 1..Len(hit) /\ i - n \in 1..Len(kept) /\ n + (i - n) = i
    BY <1>1, <1>2, <1>6, <1>7
  <2>2. table[n + (i - n)] = kept[i - n] /\ kept[i - n] = hit[n + (i - n)]
    BY <2>1, <1>2, <1>5
  <2> QED BY <2>1, <2>2
<1>8. ASSUME ~(i > n) PROVE table[i] = NullBlock
  <2>1. i \in 1..n
    BY <1>1, <1>6, <1>8
  <2> QED BY <2>1, <1>3, <1>5
<1> QED BY <1>7, <1>8 DEF table

(* A hit brings in contents that are already there.                        *)
LEMMA RowHit ==
    ASSUME NEW m \in Memories, NEW k, KVInv(k), HashedIsWritten(m, k), NEW text \in Seq(Nat),
           NEW hit, HitOf(hit, k.pool.block_hash, text), NEW n \in Nat,
           NEW table, table = HitTable(n, hit),
           NEW d \in Nat, Len(hit) * BlockSize <= d, d <= Len(table) * BlockSize, d <= Len(text)
    PROVE  Row(m, table, Len(table), text, d)
<1> DEFINE bh == k.pool.block_hash
<1>1. /\ hit \in Seq(Blocks) /\ Len(hit) \in Nat /\ BlockSize \in Nat /\ BlockSize > 0
      /\ Len(hit) * BlockSize \in Nat /\ Len(hit) * BlockSize < Len(text) /\ Len(text) \in Nat
      /\ \A i \in 1..Len(hit) : hit[i] # NullBlock => bh[hit[i]] = SubSeq(text, 1, i * BlockSize)
  BY KVCacheManagerAssumption DEF HitOf
<1>2. table \in Seq(Blocks) /\ Len(table) \in Nat
  BY <1>1, HitTableLength
<1>3. bh \in [Blocks -> Seq(Nat)] /\ NoHash = <<>>
  BY InOrder, KVCacheManagerAssumption
<1>4. ASSUME NEW i \in 1..Len(table), table[i] # NullBlock
      PROVE  /\ i \in Nat \ {0} /\ i \in 1..Len(hit) /\ table[i] = hit[i]
             /\ i * BlockSize \in Nat /\ i * BlockSize <= Len(hit) * BlockSize
  <2>1. i \in 1..Len(hit) /\ table[i] = hit[i]
    BY <1>1, <1>4, HitTableEntries
  <2>2. i \in Nat \ {0} /\ i <= Len(hit)
    BY <2>1, <1>1
  <2> QED BY <2>1, <2>2, <1>1, TimesMonotone
<1>5. Frontier(table, Len(table), d)
  <2>1. ASSUME NEW i \in 1..Len(table), table[i] # NullBlock PROVE i * BlockSize <= d
    <3> DEFINE x == i * BlockSize
               y == Len(hit) * BlockSize
    <3>1. x \in Nat /\ y \in Nat /\ x <= y /\ y <= d
      BY <2>1, <1>1, <1>4
    <3> HIDE DEF x, y
    <3>2. x <= d
      BY <3>1
    <3> QED BY <3>2 DEF x
  <2>2. Len(table) <= Len(table)
    BY <1>2
  <2> QED BY <2>1, <2>2 DEF Frontier
<1>6. Seen(m, table, text, d)
  <2> SUFFICES ASSUME NEW i \in 1..Len(table), NEW s \in 1..BlockSize, table[i] # NullBlock
               PROVE  m[table[i]][s] = SubSeq(text, 1, At(i, s))
    BY DEF Seen
  <2> DEFINE x == i * BlockSize
             h == SubSeq(text, 1, x)
  <2>1. bh[table[i]] = h /\ table[i] \in Blocks
    <3>1. i \in 1..Len(hit) /\ table[i] = hit[i]
      BY <1>4
    <3>2. hit[i] # NullBlock /\ hit[i] \in Blocks
      BY <3>1, <1>1
    <3>3. bh[hit[i]] = SubSeq(text, 1, i * BlockSize)
      BY <3>1, <3>2, <1>1
    <3> QED BY <3>1, <3>2, <3>3
  <2>2. /\ x \in Nat /\ x <= Len(text) /\ x >= BlockSize
        /\ At(i, s) \in Nat /\ At(i, s) <= x /\ At(i, s) = x - BlockSize + s
    <3>1. x \in Nat /\ x <= Len(text)
      <4> DEFINE y == Len(hit) * BlockSize
      <4>1. x \in Nat /\ y \in Nat /\ x <= y /\ y < Len(text)
        BY <1>1, <1>4
      <4> HIDE DEF x, y
      <4> QED BY <4>1, <1>1
    <3>2. /\ At(i, s) \in Nat /\ At(i, s) <= x /\ (i - 1) * BlockSize \in Nat
          /\ x = (i - 1) * BlockSize + BlockSize
      BY <1>4, AtFacts
    <3>3. At(i, s) = (i - 1) * BlockSize + s
      BY DEF At
    <3> DEFINE z == (i - 1) * BlockSize
    <3> HIDE DEF x, z
    <3>4. x = z + BlockSize /\ z \in Nat /\ At(i, s) = z + s
      BY <3>2, <3>3 DEF z
    <3>5. s \in Nat /\ s >= 1 /\ s <= BlockSize /\ BlockSize \in Nat
      BY KVCacheManagerAssumption
    <3>6. x >= BlockSize /\ At(i, s) = x - BlockSize + s
      BY <3>4, <3>5
    <3> QED BY <3>1, <3>2, <3>6
  <2> HIDE DEF x
  <2>3. Len(h) = x /\ SubSeq(h, 1, At(i, s)) = SubSeq(text, 1, At(i, s))
    BY <2>2, PrefixOfPrefix
  <2>4. h # NoHash
    <3> HIDE DEF h
    <3>1. Len(h) # 0
      BY <2>2, <2>3, <1>1
    <3> QED BY <3>1, <1>3
  <2> HIDE DEF h
  <2>5. m[table[i]][s] = SubSeq(h, 1, Len(h) - BlockSize + s)
    BY <2>1, <2>4 DEF HashedIsWritten
  <2>6. Len(h) - BlockSize + s = At(i, s)
    BY <2>2, <2>3
  <2> QED BY <2>3, <2>5, <2>6
<1> QED BY <1>5, <1>6 DEF Row

(* No new hashes, and then none again.                                     *)
LEMMA NoNewHashesTwice ==
    ASSUME NEW bh, NEW ch, NEW dh, NoNewHashes(bh, ch), NoNewHashes(ch, dh)
    PROVE  NoNewHashes(bh, dh)
  BY DEF NoNewHashes

\* WithSlots for a request that brings no prefix.
PlainSlots(k, w, r, a) ==
    /\ Grown(Trimmed(k, r, a).req_to_blocks[r], w.req_to_blocks[r])
    /\ w.num_cached_block = k.num_cached_block
    /\ NoNewHashes(k.pool.block_hash, w.pool.block_hash)
    /\ SlotsNeeded(a) <= Len(w.req_to_blocks[r]) * BlockSize

(* When SlotsFit says so, there is room for all the tokens.                *)
LEMMA PlainSlotsFit ==
    ASSUME NEW k, KVInv(k), NEW r \in Reqs, NEW a, ArgsOK(k, r, a), SlotsFit(k, r, a),
           a.hit = <<>>, a.external = 0,
           get_num_skipped_tokens(LocalComputed(a) + a.external) \div BlockSize <= Len(k.req_to_blocks[r]),
           NEW w, w = WithSlots(k, r, a)
    PROVE  PlainSlots(k, w, r, a)
<1> DEFINE tr == Trimmed(k, r, a)
           need == SlotsNeeded(a)
           sk == get_num_skipped_tokens(LocalComputed(a) + a.external) \div BlockSize
           c == cdiv(need, BlockSize)
           have == Len(tr.req_to_blocks[r])
           E == {i \in (MaxOf(0, sk - have) + 1)..Len(a.hit) :
                         a.hit[i] # NullBlock /\ tr.pool.ref_cnt[a.hit[i]] = 0}
<1>1. need \in Int /\ LocalComputed(a) + a.external \in Int
  <2>1. need \in Int /\ LocalComputed(a) \in Int
    BY ArgsNumbers
  <2>2. a.external \in Nat
    BY DEF ArgsOK
  <2> QED BY <2>1, <2>2
<1>2. sk \in Nat /\ c \in Int
  BY <1>1, SkippedBlocks, CdivType
<1>3. /\ KVInv(tr) /\ tr.num_cached_block = k.num_cached_block /\ tr.pool.block_hash = k.pool.block_hash
      /\ have = Len(k.req_to_blocks[r])
  BY TrimmedTrims DEF Trims, CutTable
<1>4. w = allocate_new_blocks(tr, r, need)
  BY DEF WithSlots
<1>5. (IF tr.num_cached_block[r] # Untracked THEN MaxOf(c - have, 0)
       ELSE MaxOf(c - MaxOf(sk, Len(a.hit) + have), 0) + Cardinality(E)) <= Len(tr.pool.free)
  BY DEF SlotsFit, get_num_blocks_to_allocate, get_num_free_blocks
<1>6. Cardinality(E) \in Nat
  <2>1. Len(a.hit) = 0
    OBVIOUS
  <2>2. E = {}
    <3> DEFINE x == MaxOf(0, sk - have) + 1
    <3> SUFFICES ASSUME NEW i \in x..Len(a.hit) PROVE FALSE
      OBVIOUS
    <3>1. have \in Nat
      BY <1>3, InOrder
    <3> HIDE DEF sk, have
    <3>2. x \in Int /\ x >= 1
      BY <3>1, <1>2 DEF MaxOf
    <3> HIDE DEF x
    <3> QED BY <2>1, <3>2
  <2> HIDE DEF E
  <2>3. Cardinality(E) = 0
    BY <2>2, FS_EmptySet
  <2> QED BY <2>3
<1>7. have \in Nat /\ Len(tr.pool.free) \in Nat /\ sk <= have
  BY <1>3, InOrder
<1> HIDE DEF tr, need, sk, c, have, E
<1>8. c - have <= Len(tr.pool.free)
  <2>1. CASE tr.num_cached_block[r] # Untracked
    <3>1. MaxOf(c - have, 0) <= Len(tr.pool.free)
      BY <1>5, <2>1
    <3> QED BY <3>1, <1>2, <1>7 DEF MaxOf
  <2>2. CASE ~(tr.num_cached_block[r] # Untracked)
    <3>0. Len(a.hit) = 0
      OBVIOUS
    <3>1. MaxOf(c - MaxOf(sk, 0 + have), 0) + Cardinality(E) <= Len(tr.pool.free)
      BY <1>5, <2>2, <3>0
    <3>2. MaxOf(sk, 0 + have) = have
      BY <1>2, <1>7 DEF MaxOf
    <3>3. MaxOf(c - have, 0) \in Nat /\ c - have <= MaxOf(c - have, 0)
      BY <1>2, <1>7 DEF MaxOf
    <3> QED BY <3>1, <3>2, <3>3, <1>2, <1>6, <1>7
  <2> QED BY <2>1, <2>2
<1>9. Roomy(tr, w, r, need)
  BY <1>1, <1>3, <1>4, <1>8, AllocateNewRoomy DEF c, have
<1> QED BY <1>3, <1>9 DEF Roomy, PlainSlots, tr, need

\* WithSlots for a request that brings a hit or external tokens.
PrefixSlots(k, w, r, a) ==
    LET table == HitTable(get_num_skipped_tokens(LocalComputed(a) + a.external) \div BlockSize, a.hit) IN
    /\ Grown(table, w.req_to_blocks[r])
    /\ w.num_cached_block[r] = Len(table)
    /\ NoNewHashes(k.pool.block_hash, w.pool.block_hash)
    /\ SlotsNeeded(a) <= Len(w.req_to_blocks[r]) * BlockSize

(* Here too there is room: SlotsFit has counted the hit blocks that leave  *)
(* the free queue.                                                         *)
LEMMA PrefixSlotsFit ==
    ASSUME NEW k, KVInv(k), NEW r \in Reqs, NEW a, ArgsOK(k, r, a), SlotsFit(k, r, a),
           a.hit # <<>> \/ a.external > 0, a.computed \in Nat,
           Len(k.req_to_blocks[r]) = 0, k.num_cached_block[r] = Untracked, Usable(a.hit, k.pool),
           NEW w, w = WithSlots(k, r, a)
    PROVE  PrefixSlots(k, w, r, a)
<1> DEFINE tr == Trimmed(k, r, a)
           need == SlotsNeeded(a)
           local == LocalComputed(a)
           sk == get_num_skipped_tokens(local + a.external) \div BlockSize
           c == cdiv(need, BlockSize)
           have == Len(tr.req_to_blocks[r])
           table == HitTable(sk, a.hit)
           E == Evictable(a.hit, sk, tr.pool.ref_cnt)
           x == allocate_new_computed_blocks(tr, r, a.hit, local, a.external)
<1>1. need \in Int /\ local \in Nat /\ a.external \in Nat /\ a.hit \in Seq(Blocks) /\ Len(a.hit) \in Nat
  <2>1. need \in Int /\ local \in Nat
    BY ArgsNumbers
  <2>2. a.external \in Nat /\ a.hit \in Seq(Blocks)
    BY DEF ArgsOK
  <2> QED BY <2>1, <2>2
<1>2. sk \in Nat /\ c \in Int
  <2>1. local + a.external \in Int
    BY <1>1
  <2> QED BY <1>1, <2>1, SkippedBlocks, CdivType
<1>3. /\ KVInv(tr) /\ tr.num_cached_block = k.num_cached_block /\ tr.pool.block_hash = k.pool.block_hash
      /\ have = 0
  BY TrimmedTrims DEF Trims, CutTable
<1>4. Usable(a.hit, tr.pool)
  BY <1>3 DEF Usable
<1>5. w = allocate_new_blocks(x, r, need)
  BY DEF WithSlots
<1>6. MaxOf(c - MaxOf(sk, Len(a.hit) + have), 0) + Cardinality(E) <= Len(tr.pool.free)
  <2> DEFINE F == {i \in (MaxOf(0, sk - have) + 1)..Len(a.hit) :
                         a.hit[i] # NullBlock /\ tr.pool.ref_cnt[a.hit[i]] = 0}
  <2>1. tr.num_cached_block[r] = Untracked
    BY <1>3
  <2>2. MaxOf(c - MaxOf(sk, Len(a.hit) + have), 0) + Cardinality(F) <= Len(tr.pool.free)
    BY <2>1 DEF SlotsFit, get_num_blocks_to_allocate, get_num_free_blocks
  <2>3. F = E
    <3> HIDE DEF sk, have
    <3>1. MaxOf(0, sk - have) = sk
      BY <1>2, <1>3 DEF MaxOf
    <3> QED BY <3>1 DEF Evictable
  <2> QED BY <2>2, <2>3
<1>7. Cardinality(E) \in Nat
  BY <1>1, <1>2, EvictableFinite
<1>8. table \in Seq(Blocks) /\ Len(table) = IF sk <= Len(a.hit) THEN Len(a.hit) ELSE sk
  BY <1>1, <1>2, HitTableLength
<1>9. KVInv(x) /\ HoldsPrefix(tr, x, r, sk, a.hit)
  BY <1>1, <1>3, <1>4, AllocateComputedKeeps, AllocateComputedHolds
<1>10. Len(tr.pool.free) \in Nat /\ x.req_to_blocks[r] \in Seq(Blocks) /\ Len(x.pool.free) \in Nat
       /\ Len(x.req_to_blocks[r]) \in Nat
  <2> HIDE DEF tr, x
  <2> QED BY <1>3, <1>9, InOrder
<1>11. Len(x.req_to_blocks[r]) + Len(x.pool.free) >= Len(table) + Len(tr.pool.free) - Cardinality(E)
  BY <1>9 DEF HoldsPrefix
<1> HIDE DEF tr, x, need, local, sk, c, have, E, table
<1>12. c - Len(x.req_to_blocks[r]) <= Len(x.pool.free)
  <2>1. MaxOf(sk, Len(a.hit) + have) = Len(table)
    BY <1>1, <1>2, <1>3, <1>8 DEF MaxOf
  <2>2. Len(table) \in Nat
    BY <1>8
  <2>3. MaxOf(c - Len(table), 0) + Cardinality(E) <= Len(tr.pool.free)
    BY <1>6, <2>1
  <2>4. MaxOf(c - Len(table), 0) \in Nat /\ c - Len(table) <= MaxOf(c - Len(table), 0)
    BY <1>2, <2>2 DEF MaxOf
  <2> DEFINE mx == MaxOf(c - Len(table), 0)
             ce == Cardinality(E)
             f == Len(tr.pool.free)
             g == Len(x.pool.free)
             l == Len(table)
             y == Len(x.req_to_blocks[r])
  <2>5. /\ mx \in Nat /\ ce \in Nat /\ f \in Nat /\ g \in Nat /\ l \in Nat /\ y \in Nat
        /\ mx + ce <= f /\ c - l <= mx /\ y + g >= l + f - ce
    BY <2>2, <2>3, <2>4, <1>7, <1>10, <1>11
  <2> HIDE DEF mx, ce, f, g, l, y
  <2>6. c - y <= g
    BY <2>5, <1>2
  <2> QED BY <2>6 DEF y, g
<1>13. Roomy(x, w, r, need)
  BY <1>1, <1>5, <1>9, <1>12, AllocateNewRoomy DEF c
<1>14. KVInv(w)
  BY <1>1, <1>5, <1>9, AllocateNewKeeps
<1>15. w.req_to_blocks[r] \in Seq(Blocks)
  BY <1>14, InOrder
<1>16. Grown(table, w.req_to_blocks[r])
  BY <1>8, <1>9, <1>10, <1>13, <1>15, GrownTwice DEF HoldsPrefix, Roomy, table
<1>17. w.num_cached_block[r] = Len(table)
  BY <1>9, <1>13 DEF HoldsPrefix, Roomy, table
<1>18. NoNewHashes(k.pool.block_hash, w.pool.block_hash)
  <2>1. NoNewHashes(k.pool.block_hash, x.pool.block_hash)
    BY <1>3, <1>9 DEF HoldsPrefix
  <2> QED BY <2>1, <1>13, NoNewHashesTwice DEF Roomy
<1>19. need <= Len(w.req_to_blocks[r]) * BlockSize
  BY <1>13 DEF Roomy
<1> QED BY <1>16, <1>17, <1>18, <1>19 DEF PrefixSlots, table, sk, local, need

(* The window only moves on.                                               *)
LEMMA SkippedMonotone ==
    ASSUME NEW a \in Int, NEW b \in Int, a <= b
    PROVE  get_num_skipped_tokens(a) <= get_num_skipped_tokens(b)
  BY KVCacheManagerAssumption DEF get_num_skipped_tokens, MaxOf

(* What is looked at from far on was looked at from near.                  *)
LEMMA ReachesOn ==
    ASSUME NEW table \in Seq(Blocks), NEW a \in Int, NEW b \in Int, a <= b, Reaches(table, a)
    PROVE  Reaches(table, b)
<1> SUFFICES ASSUME NEW i \in 1..Len(table), i * BlockSize > get_num_skipped_tokens(b)
             PROVE  table[i] # NullBlock
  BY DEF Reaches
<1>1. i \in Nat /\ BlockSize \in Nat /\ BlockSize > 0
  BY KVCacheManagerAssumption
<1> DEFINE x == i * BlockSize
           y == get_num_skipped_tokens(a)
           z == get_num_skipped_tokens(b)
<1>2. x \in Nat /\ y \in Nat /\ z \in Nat /\ y <= z /\ x > z
  BY <1>1, TimesMonotone, SkippedBlocks, SkippedMonotone
<1> HIDE DEF x, y, z
<1>3. x > y
  BY <1>2
<1> QED BY <1>3 DEF Reaches, x, y

(* New blocks are not null.                                                *)
LEMMA ReachesGrown ==
    ASSUME NEW table \in Seq(Blocks), NEW grown \in Seq(Blocks), Grown(table, grown),
           NEW n, Reaches(table, n)
    PROVE  Reaches(grown, n)
<1> SUFFICES ASSUME NEW i \in 1..Len(grown), i * BlockSize > get_num_skipped_tokens(n)
             PROVE  grown[i] # NullBlock
  BY DEF Reaches
<1>1. CASE i > Len(table)
  BY <1>1 DEF Grown
<1>2. CASE ~(i > Len(table))
  <2>1. i \in 1..Len(table)
    BY <1>2
  <2> QED BY <2>1 DEF Grown, Reaches
<1> QED BY <1>1, <1>2

(* remove_skipped_blocks cuts nothing that is still looked at.             *)
LEMMA ReachesCut ==
    ASSUME NEW table \in Seq(Blocks), NEW cut, NEW n \in Int, CutTable(table, cut, n), Reaches(table, n)
    PROVE  Reaches(cut, n)
<1> SUFFICES ASSUME NEW i \in 1..Len(cut), i * BlockSize > get_num_skipped_tokens(n)
             PROVE  cut[i] # NullBlock
  BY DEF Reaches
<1>1. i \in 1..Len(table) /\ i \in Nat /\ BlockSize \in Nat /\ BlockSize > 0
  BY KVCacheManagerAssumption DEF CutTable
<1>2. i * BlockSize \in Nat /\ get_num_skipped_tokens(n) \in Nat
  BY <1>1, TimesMonotone, SkippedBlocks
<1>3. ~(i * BlockSize <= get_num_skipped_tokens(n))
  BY <1>2
<1>4. cut[i] = table[i]
  BY <1>1, <1>3 DEF CutTable
<1> QED BY <1>1, <1>4 DEF Reaches

(* The table made for a hit has a block wherever attention looks after the *)
(* external tokens.                                                        *)
LEMMA ReachesHit ==
    ASSUME NEW hit \in Seq(Blocks), Reaches(hit, Len(hit) * BlockSize), NEW n \in Nat,
           Len(hit) * BlockSize <= n,
           NEW table, table = HitTable(get_num_skipped_tokens(n) \div BlockSize, hit)
    PROVE  Reaches(table, n)
<1> DEFINE sk == get_num_skipped_tokens(n)
           d == sk \div BlockSize
<1>1. sk \in Nat /\ d \in Nat
  BY SkippedBlocks
<1>2. Len(hit) \in Nat /\ BlockSize \in Nat /\ BlockSize > 0 /\ Len(hit) * BlockSize \in Nat
  BY KVCacheManagerAssumption, TimesMonotone
<1>3. table \in Seq(Blocks) /\ Len(table) \in Nat
  BY <1>1, HitTableLength
<1>4. Reaches(hit, n)
  BY <1>2, ReachesOn
<1> SUFFICES ASSUME NEW i \in 1..Len(table), i * BlockSize > sk PROVE table[i] # NullBlock
  BY DEF Reaches
<1>5. i > d
  <2> SUFFICES ASSUME ~(i > d) PROVE FALSE
    OBVIOUS
  <2>1. i \in Nat /\ i <= d
    <3> HIDE DEF d
    <3> QED BY <1>1, <1>3
  <2>2. i * BlockSize <= sk /\ i * BlockSize \in Nat
    BY <2>1, <1>1, FullBlocks
  <2> HIDE DEF sk
  <2> QED BY <2>2, <1>1
<1>6. i \in 1..Len(hit) /\ table[i] = hit[i]
  BY <1>1, <1>5, HitTableEntries
<1> QED BY <1>4, <1>6 DEF Reaches

\* The hashed blocks of a table that is being loaded end before the last token.
EndsBefore(table, nc, text) ==
    \A i \in 1..Len(table) : i <= nc /\ table[i] # NullBlock => i * BlockSize < Len(text)

\* What allocate_slots does for a request from the waiting queue, before it hashes
\* blocks: the hit is in the table with its contents, and there is room.
Started(k, w, r, a, m, text) ==
    LET table == w.req_to_blocks[r] IN
    /\ KVInv(w) /\ OthersSame(k, w, r) /\ NoNewHashes(k.pool.block_hash, w.pool.block_hash)
    /\ SlotsNeeded(a) <= Len(table) * BlockSize
    /\ Row(m, table, w.num_cached_block[r], text, LocalComputed(a))
    /\ Reaches(table, LocalComputed(a) + a.external)
    /\ a.external > 0 =>
          /\ w.num_cached_block[r] \in Nat
          /\ Row(m, table, w.num_cached_block[r], text, w.num_cached_block[r] * BlockSize)
          /\ EndsBefore(table, w.num_cached_block[r], text)

(* A request with a hit or external tokens.                                *)
LEMMA PrefixStarted ==
    ASSUME NEW k, KVInv(k), NEW r \in Reqs, NEW m \in Memories, HashedIsWritten(m, k),
           NEW text \in Seq(Nat), Len(text) >= 1,
           NEW a, ArgsOK(k, r, a), SlotsFit(k, r, a), a.hit = get_computed_blocks(k, text), a.computed = 0,
           Len(k.req_to_blocks[r]) = 0, k.num_cached_block[r] = Untracked,
           a.hit # <<>> \/ a.external > 0, LocalComputed(a) + a.external <= Len(text),
           NEW w, w = WithSlots(k, r, a)
    PROVE  Started(k, w, r, a, m, text)
<1> DEFINE local == LocalComputed(a)
           n == local + a.external
           sk == get_num_skipped_tokens(n) \div BlockSize
           hit == a.hit
           table == HitTable(sk, hit)
           u == w.req_to_blocks[r]
           nc == w.num_cached_block[r]
<1>1. HitOf(hit, k.pool.block_hash, text) /\ Usable(hit, k.pool)
  BY ComputedBlocksHit, ComputedBlocksFacts
<1>2. /\ hit \in Seq(Blocks) /\ Reaches(hit, Len(hit) * BlockSize) /\ Len(hit) \in Nat
      /\ Len(hit) * BlockSize \in Nat /\ Len(hit) * BlockSize < Len(text)
      /\ Len(text) \in Nat /\ BlockSize \in Nat /\ BlockSize > 0
  BY <1>1, KVCacheManagerAssumption DEF HitOf
<1>3. local = Len(hit) * BlockSize
  BY <1>2 DEF LocalComputed
<1>4. a.external \in Nat
  BY DEF ArgsOK
<1> HIDE DEF local
<1>5. n \in Nat /\ Len(hit) * BlockSize <= n /\ n <= Len(text)
  <2> DEFINE x == Len(hit) * BlockSize
  <2>1. local = x /\ x \in Nat
    BY <1>2, <1>3
  <2> HIDE DEF x
  <2>2. n \in Nat /\ x <= n
    BY <2>1, <1>4
  <2> QED BY <2>2 DEF x, local
<1>6. a.computed \in Nat
  OBVIOUS
<1>7. PrefixSlots(k, w, r, a)
  BY <1>1, <1>6, PrefixSlotsFit
<1>8. /\ Grown(table, u) /\ nc = Len(table)
      /\ NoNewHashes(k.pool.block_hash, w.pool.block_hash) /\ SlotsNeeded(a) <= Len(u) * BlockSize
  BY <1>7 DEF PrefixSlots, local
<1>9. KVInv(w) /\ OthersSame(k, w, r)
  BY WithSlotsFrame DEF Allots
<1>10. u \in Seq(Blocks) /\ nc \in Int
  BY <1>9, InOrder
<1> HIDE DEF u, nc, n, hit
<1>11. sk \in Nat /\ sk * BlockSize <= n
  BY <1>5, SkippedBlocks, SkippedAtMost
<1> HIDE DEF sk
<1>12. table \in Seq(Blocks) /\ Len(table) = IF sk <= Len(hit) THEN Len(hit) ELSE sk
  BY <1>2, <1>11, HitTableLength
<1>13. Reaches(u, n)
  <2>1. Reaches(table, n)
    BY <1>2, <1>5, ReachesHit DEF sk
  <2> HIDE DEF table
  <2> QED BY <2>1, <1>8, <1>10, <1>12, ReachesGrown
<1> DEFINE l == Len(table)
           y == l * BlockSize
           x == Len(hit) * BlockSize
<1>14. l \in Nat /\ Len(hit) <= l
  BY <1>2, <1>11, <1>12
<1>15. y \in Nat /\ x \in Nat /\ x <= y /\ y <= Len(text) /\ x <= Len(text) /\ x < Len(text)
  <2>1. y \in Nat /\ x \in Nat /\ x <= y
    <3> HIDE DEF l
    <3> QED BY <1>2, <1>14, TimesMonotone
  <2>2. y <= Len(text)
    <3>1. CASE sk <= Len(hit)
      <4>1. y = x
        BY <3>1, <1>12
      <4> HIDE DEF x, y
      <4>2. x < Len(text)
        BY <1>2 DEF x
      <4> QED BY <4>1, <4>2, <2>1, <1>2
    <3>2. CASE ~(sk <= Len(hit))
      <4>1. y = sk * BlockSize
        BY <3>2, <1>12
      <4> HIDE DEF y
      <4> QED BY <4>1, <2>1, <1>2, <1>5, <1>11
    <3> QED BY <3>1, <3>2
  <2>3. x < Len(text)
    BY <1>2
  <2> HIDE DEF x, y
  <2> QED BY <2>1, <2>2, <2>3, <1>2
<1>16. ASSUME NEW d \in Nat, x <= d, d <= y PROVE Row(m, u, nc, text, d)
  <2>0. d <= Len(text)
    <3> HIDE DEF x, y
    <3> QED BY <1>15, <1>16, <1>2
  <2>1. Row(m, table, Len(table), text, d)
    BY <2>0, <1>1, <1>11, <1>16, RowHit DEF hit
  <2> HIDE DEF table
  <2> QED BY <2>1, <1>8, <1>10, <1>12, RowGrown
<1>17. Row(m, u, nc, text, x) /\ Row(m, u, nc, text, y)
  <2>1. x <= x /\ y <= y
    <3> HIDE DEF x, y
    <3> QED BY <1>15
  <2> HIDE DEF x, y
  <2> QED BY <2>1, <1>15, <1>16
<1>18. EndsBefore(u, nc, text)
  <2> SUFFICES ASSUME NEW i \in 1..Len(u), i <= nc, u[i] # NullBlock PROVE i * BlockSize < Len(text)
    BY DEF EndsBefore
  <2>1. i \in 1..l
    BY <1>8, <1>10, <1>14
  <2>2. u[i] = table[i]
    BY <2>1, <1>8 DEF Grown
  <2>3. i \in 1..Len(hit)
    BY <2>1, <2>2, <1>2, <1>11, HitTableEntries
  <2>4. i \in Nat /\ i <= Len(hit)
    BY <2>3, <1>2
  <2>5. i * BlockSize <= x /\ i * BlockSize \in Nat
    BY <2>4, <1>2, TimesMonotone
  <2> HIDE DEF x
  <2> QED BY <2>5, <1>15, <1>2
<1> QED BY <1>3, <1>8, <1>9, <1>13, <1>14, <1>17, <1>18 DEF Started, local, u, nc, n

(* One without.                                                            *)
LEMMA PlainStarted ==
    ASSUME NEW k, KVInv(k), NEW r \in Reqs, NEW m,
           NEW text \in Seq(Nat),
           NEW a, ArgsOK(k, r, a), SlotsFit(k, r, a), a.hit = <<>>, a.external = 0, a.computed = 0,
           Len(k.req_to_blocks[r]) = 0, k.num_cached_block[r] = Untracked,
           NEW w, w = WithSlots(k, r, a)
    PROVE  Started(k, w, r, a, m, text)
<1> DEFINE tr == Trimmed(k, r, a)
           base == tr.req_to_blocks[r]
           u == w.req_to_blocks[r]
           nc == w.num_cached_block[r]
<1>1. BlockSize \in Nat /\ BlockSize > 0
  BY KVCacheManagerAssumption
<1>2. LocalComputed(a) = 0 /\ LocalComputed(a) + a.external = 0
  <2>1. Len(a.hit) = 0
    OBVIOUS
  <2>2. 0 * BlockSize = 0
    BY <1>1
  <2> QED BY <2>1, <2>2 DEF LocalComputed
<1>3. get_num_skipped_tokens(0) \div BlockSize <= 0
  <2>1. get_num_skipped_tokens(0) = 0
    BY KVCacheManagerAssumption DEF get_num_skipped_tokens, MaxOf
  <2>2. 0 \div BlockSize = 0
    BY <1>1
  <2> QED BY <2>1, <2>2
<1>4. PlainSlots(k, w, r, a)
  BY <1>2, <1>3, PlainSlotsFit
<1>5. /\ Grown(base, u) /\ nc = Untracked
      /\ NoNewHashes(k.pool.block_hash, w.pool.block_hash) /\ SlotsNeeded(a) <= Len(u) * BlockSize
  BY <1>4 DEF PlainSlots
<1>6. KVInv(w) /\ OthersSame(k, w, r)
  BY WithSlotsFrame DEF Allots
<1>7. u \in Seq(Blocks)
  BY <1>6, InOrder
<1>8. KVInv(tr) /\ Len(base) = 0
  BY TrimmedTrims DEF Trims, CutTable
<1>9. base \in Seq(Blocks)
  BY <1>8, InOrder
<1> HIDE DEF base, u, nc
<1>10. Row(m, base, Untracked, text, 0)
  BY <1>8, RowEmpty
<1>11. Row(m, u, nc, text, 0)
  <2>1. Untracked \in Int
    BY DEF Untracked
  <2> QED BY <2>1, <1>5, <1>7, <1>9, <1>10, RowGrown
<1>12. Reaches(u, 0)
  <2>1. Reaches(base, 0)
    BY <1>8 DEF Reaches
  <2> QED BY <2>1, <1>5, <1>7, <1>9, ReachesGrown
<1> QED BY <1>2, <1>5, <1>6, <1>11, <1>12 DEF Started, u, nc

(* Either way.                                                             *)
LEMMA WaitingStarted ==
    ASSUME NEW k, KVInv(k), NEW r \in Reqs, NEW m \in Memories, HashedIsWritten(m, k),
           NEW text \in Seq(Nat), Len(text) >= 1,
           NEW a, ArgsOK(k, r, a), SlotsFit(k, r, a), a.hit = get_computed_blocks(k, text), a.computed = 0,
           Len(k.req_to_blocks[r]) = 0, k.num_cached_block[r] = Untracked,
           LocalComputed(a) + a.external <= Len(text),
           NEW w, w = WithSlots(k, r, a)
    PROVE  Started(k, w, r, a, m, text)
<1>1. CASE a.hit # <<>> \/ a.external > 0
  BY <1>1, PrefixStarted
<1>2. CASE ~(a.hit # <<>> \/ a.external > 0)
  <2>1. a.hit = <<>> /\ a.external = 0
    BY <1>2 DEF ArgsOK
  <2> QED BY <2>1, PlainStarted
<1> QED BY <1>1, <1>2

-----------------------------------------------------------------------------
\* How far the memory of r is filled: a request that is loading has what it hit.
DoneOf(k, ld, num) ==
    [r \in Reqs |-> IF r \in ld THEN MaxOf(k.num_cached_block[r], 0) * BlockSize ELSE num[r]]

\* A connector that offers the last token too, with a window, may let a needed
\* block be skipped.
WholeWindow == SlidingWindow = 0 \/ Connector # "all"

\* The rest of what is true of a request r: a block wherever attention looks.
WindowOK(k, text, ld, num, r) ==
    LET table == k.req_to_blocks[r] IN
    IF r \in ld THEN /\ SlidingWindow # 0 => Len(table) * BlockSize < Len(text[r])
                     /\ Reaches(table, Len(table) * BlockSize)
    ELSE Reaches(table, num[r])
RequestOK(k, text, ld, num, r) ==
    /\ Len(text[r]) <= MaxModelLen
    /\ Len(k.req_to_blocks[r]) = 0 => k.num_cached_block[r] = Untracked /\ r \notin ld
    /\ r \in ld => num[r] = 0 /\ EndsBefore(k.req_to_blocks[r], k.num_cached_block[r], text[r])
    /\ WholeWindow => WindowOK(k, text, ld, num, r)

MemState(m, k, text, ld, num) ==
    /\ ld \subseteq Reqs /\ MemOK(m, k, text, DoneOf(k, ld, num))
    /\ \A r \in Reqs : RequestOK(k, text, ld, num, r)

\* Only r changes.
RestSame(k, k2, text, text2, ld, ld2, num, num2, r) ==
    \A q \in Reqs : q # r => /\ k2.req_to_blocks[q] = k.req_to_blocks[q]
                             /\ k2.num_cached_block[q] = k.num_cached_block[q]
                             /\ text2[q] = text[q] /\ num2[q] = num[q] /\ (q \in ld2 <=> q \in ld)

(* Then it is enough to look at the memory and at r.                       *)
LEMMA RequestStep ==
    ASSUME NEW m, NEW k, NEW text, NEW ld, NEW num, MemState(m, k, text, ld, num), NEW r \in Reqs,
           NEW m2, NEW k2, NEW text2, NEW ld2 \in SUBSET Reqs, NEW num2,
           RestSame(k, k2, text, text2, ld, ld2, num, num2, r),
           NEW done, \A q \in Reqs : q # r => done[q] = DoneOf(k, ld, num)[q],
           done[r] = IF r \in ld2 THEN MaxOf(k2.num_cached_block[r], 0) * BlockSize ELSE num2[r],
           MemOK(m2, k2, text2, done), RequestOK(k2, text2, ld2, num2, r)
    PROVE  MemState(m2, k2, text2, ld2, num2)
<1> DEFINE done2 == DoneOf(k2, ld2, num2)
<1>1. ASSUME NEW q \in Reqs PROVE done2[q] = done[q]
  <2>1. CASE q = r
    BY <2>1 DEF DoneOf
  <2>2. CASE q # r
    BY <2>2 DEF DoneOf, RestSame
  <2> QED BY <2>1, <2>2
<1>2. MemOK(m2, k2, text2, done2)
  <2> HIDE DEF done2
  <2> QED BY <1>1 DEF MemOK
<1>3. ASSUME NEW q \in Reqs PROVE RequestOK(k2, text2, ld2, num2, q)
  <2>1. CASE q = r
    BY <2>1
  <2>2. CASE q # r
    <3>1. RequestOK(k, text, ld, num, q)
      BY DEF MemState
    <3> QED BY <2>2, <3>1 DEF RestSame, RequestOK, WindowOK
  <2> QED BY <2>1, <2>2
<1> QED BY <1>2, <1>3 DEF MemState

(* The numbers of the invariant.                                           *)
LEMMA DoneNumbers ==
    ASSUME NEW m, NEW k, NEW text, NEW ld, NEW num, MemState(m, k, text, ld, num)
    PROVE  /\ DoneOf(k, ld, num) \in [Reqs -> Nat] /\ m \in Memories /\ HashedIsWritten(m, k)
           /\ \A r \in Reqs : /\ r \notin ld => DoneOf(k, ld, num)[r] = num[r]
                              /\ r \in ld => DoneOf(k, ld, num)[r] =
                                                MaxOf(k.num_cached_block[r], 0) * BlockSize
                              /\ RequestOK(k, text, ld, num, r)
                              /\ Row(m, k.req_to_blocks[r], k.num_cached_block[r], text[r],
                                     DoneOf(k, ld, num)[r])
<1> DEFINE done == DoneOf(k, ld, num)
<1>1. \A r \in Reqs : Row(m, k.req_to_blocks[r], k.num_cached_block[r], text[r], done[r])
  BY DEF MemState, MemOK
<1>2. \A r \in Reqs : done[r] \in Nat
  <2> HIDE DEF done
  <2> QED BY <1>1 DEF Row
<1>3. done = [r \in Reqs |-> done[r]]
  BY DEF DoneOf
<1>4. done \in [Reqs -> Nat]
  <2> HIDE DEF done
  <2> QED BY <1>2, <1>3
<1> QED BY <1>1, <1>4 DEF MemState, MemOK, DoneOf

(* A request without blocks has nothing computed.                          *)
LEMMA IdleHasNothing ==
    ASSUME NEW m, NEW k, NEW text, NEW ld, NEW num, MemState(m, k, text, ld, num),
           NEW r \in Reqs, Len(k.req_to_blocks[r]) = 0
    PROVE  r \notin ld /\ num[r] = 0 /\ k.num_cached_block[r] = Untracked
<1>1. r \notin ld /\ k.num_cached_block[r] = Untracked
  BY DEF MemState, RequestOK
<1>2. Row(m, k.req_to_blocks[r], k.num_cached_block[r], text[r], num[r])
  BY <1>1, DoneNumbers
<1>3. num[r] \in Nat /\ num[r] <= 0 * BlockSize /\ 0 * BlockSize = 0
  BY <1>2, KVCacheManagerAssumption DEF Row, Frontier
<1> QED BY <1>1, <1>3

(* allocate_slots finds no room: it has only trimmed the table.            *)
LEMMA TrimmedStep ==
    ASSUME NEW m, NEW k, KVInv(k), NEW text, NEW ld, NEW num \in [Reqs -> Nat], MemState(m, k, text, ld, num),
           NEW r \in Reqs, r \notin ld, NEW a, ArgsOK(k, r, a),
           TotalComputed(a) = num[r] \/ Len(k.req_to_blocks[r]) = 0,
           NEW k2, k2 = Trimmed(k, r, a)
    PROVE  MemState(Keep(m, k2), k2, text, ld, num)
<1> DEFINE done == DoneOf(k, ld, num)
           n == TotalComputed(a)
<1>1. /\ KVInv(k2) /\ OthersSame(k, k2, r) /\ CutTable(k.req_to_blocks[r], k2.req_to_blocks[r], n)
      /\ k2.num_cached_block = k.num_cached_block /\ k2.pool.block_hash = k.pool.block_hash
  BY TrimmedTrims DEF Trims
<1>2. /\ done[r] = num[r] /\ RequestOK(k, text, ld, num, r)
      /\ Row(m, k.req_to_blocks[r], k.num_cached_block[r], text[r], done[r])
  BY DoneNumbers
<1>3. Row(m, k2.req_to_blocks[r], k2.num_cached_block[r], text[r], done[r])
  BY <1>1, <1>2, RowCut
<1> HIDE DEF done
<1>4. NoNewHashes(k.pool.block_hash, k2.pool.block_hash)
  BY <1>1 DEF NoNewHashes
<1>5. MemOK(m, k, text, done)
  BY DEF MemState, done
<1>6. MemOK(m, k2, text, done)
  BY <1>1, <1>3, <1>4, <1>5, RowMemOK DEF OthersSame
<1>7. MemOK(Keep(m, k2), k2, text, done)
  BY <1>1, <1>6, KeepMemOK
<1>8. RequestOK(k2, text, ld, num, r)
  <2>1. Len(k2.req_to_blocks[r]) = Len(k.req_to_blocks[r])
    BY <1>1 DEF CutTable
  <2>2. ASSUME WholeWindow PROVE Reaches(k2.req_to_blocks[r], num[r])
    <3>1. Reaches(k.req_to_blocks[r], num[r])
      BY <1>2, <2>2 DEF RequestOK, WindowOK
    <3>2. k.req_to_blocks[r] \in Seq(Blocks)
      BY InOrder
    <3>3. CASE n = num[r]
      <4>1. num[r] \in Int
        OBVIOUS
      <4> HIDE DEF n
      <4> QED BY <3>1, <3>2, <3>3, <4>1, <1>1, ReachesCut
    <3>4. CASE Len(k.req_to_blocks[r]) = 0
      BY <3>4, <2>1 DEF Reaches
    <3> QED BY <3>3, <3>4
  <2> QED BY <1>1, <1>2, <2>1, <2>2 DEF RequestOK, WindowOK
<1>9. RestSame(k, k2, text, text, ld, ld, num, num, r)
  BY <1>1 DEF RestSame, OthersSame
<1>10. ld \in SUBSET Reqs
  BY DEF MemState
<1> QED BY <1>2, <1>7, <1>8, <1>9, <1>10, RequestStep DEF done

(* What a connector offers is within the request's tokens.                 *)
LEMMA ExternalWithin ==
    ASSUME NEW r \in Reqs, NEW ext \in ExternalChoices(r),
           NEW x \in Nat, x = Len(get_computed_blocks(kv, tokens[r])) * BlockSize,
           Len(tokens[r]) \in Nat, x < Len(tokens[r])
    PROVE  /\ ext \in Nat /\ x + ext <= Len(tokens[r])
           /\ Connector # "all" => ext = 0 \/ (x + ext < Len(tokens[r]) /\ (x + ext) % BlockSize = 0)
<1> DEFINE lacks == Len(tokens[r]) - x
           B == {e \in 1..(lacks - 1) : (x + e) % BlockSize = 0}
<1>1. ExternalChoices(r) = {0} \cup (IF Connector = "none" THEN {} ELSE B)
                               \cup (IF Connector = "all" THEN {lacks} ELSE {})
  BY DEF ExternalChoices
<1>2. lacks \in Nat
  OBVIOUS
<1>3. CASE ext = 0
  BY <1>3
<1>4. CASE ext \in B
  <2>1. ext \in 1..(lacks - 1) /\ (x + ext) % BlockSize = 0
    BY <1>4
  <2>2. ext \in Nat /\ x + ext < Len(tokens[r])
    BY <2>1
  <2> QED BY <2>1, <2>2
<1>5. CASE Connector = "all" /\ ext = lacks
  BY <1>5
<1> HIDE DEF B, lacks
<1> QED BY <1>1, <1>3, <1>4, <1>5

\* allocate_slots is called for a waiting request r.
StartsWith(r, ext, n, a) ==
    /\ ArgsOK(kv, r, a) /\ a.tokens = tokens[r] /\ a.computed = 0 /\ a.new = n
    /\ a.hit = get_computed_blocks(kv, tokens[r]) /\ a.external = ext /\ a.lookahead = 0
    /\ a.delay = (n = 0) /\ a = StartArgs(r, ext, n)
    /\ Len(kv.req_to_blocks[r]) = 0 /\ r \notin loading /\ num_computed_tokens[r] = 0
    /\ kv.num_cached_block[r] = Untracked
    /\ ext \in Nat /\ LocalComputed(a) = Len(a.hit) * BlockSize /\ LocalComputed(a) \in Nat
    /\ LocalComputed(a) + ext <= Len(tokens[r]) /\ TotalComputed(a) = LocalComputed(a) + ext
    /\ Connector # "all" =>
          ext = 0 \/ (LocalComputed(a) + ext < Len(tokens[r]) /\ (LocalComputed(a) + ext) % BlockSize = 0)

SystemMem == MemState(mem, kv, tokens, loading, num_computed_tokens)

(* These are its arguments.                                                *)
LEMMA StartArguments ==
    ASSUME SystemInv, SystemMem, NEW r \in Reqs, Idle(r), NEW ext \in ExternalChoices(r), NEW n \in Nat
    PROVE  StartsWith(r, ext, n, StartArgs(r, ext, n))
<1> DEFINE a == StartArgs(r, ext, n)
           hit == get_computed_blocks(kv, tokens[r])
           x == Len(hit) * BlockSize
<1>1. KVInv(kv) /\ tokens[r] \in Seq(Nat) /\ Len(tokens[r]) >= 1
  BY DEF SystemInv
<1>2. HitOf(hit, kv.pool.block_hash, tokens[r])
  BY <1>1, ComputedBlocksHit
<1>3. x \in Nat /\ x < Len(tokens[r]) /\ Len(tokens[r]) \in Nat
  BY <1>1, <1>2 DEF HitOf
<1>4. /\ ext \in Nat /\ x + ext <= Len(tokens[r])
      /\ Connector # "all" => ext = 0 \/ (x + ext < Len(tokens[r]) /\ (x + ext) % BlockSize = 0)
  BY <1>3, ExternalWithin
<1>5. ArgsOK(kv, r, a)
  BY <1>4, StartArgsOK
<1>6. /\ a.tokens = tokens[r] /\ a.computed = 0 /\ a.new = n /\ a.hit = hit /\ a.external = ext
      /\ a.lookahead = 0 /\ a.delay = (n = 0)
  BY DEF StartArgs
<1>7. Len(kv.req_to_blocks[r]) = 0
  BY DEF Idle
<1>8. r \notin loading /\ num_computed_tokens[r] = 0 /\ kv.num_cached_block[r] = Untracked
  BY <1>7, IdleHasNothing DEF SystemMem
<1> HIDE DEF x, hit
<1>9. LocalComputed(a) = x
  <2> HIDE DEF a
  <2>1. LocalComputed(a) = 0 + Len(hit) * BlockSize
    BY <1>6 DEF LocalComputed
  <2>2. 0 + x = x
    BY <1>3
  <2> QED BY <2>1, <2>2 DEF x
<1>10. TotalComputed(a) = x + ext
  <2> HIDE DEF a
  <2>1. Len(tokens[r]) <= MaxModelLen
    BY DEF SystemMem, MemState, RequestOK
  <2>2. x + ext <= MaxModelLen
    BY <2>1, <1>3, <1>4, KVCacheManagerAssumption
  <2> QED BY <2>2, <1>6, <1>9 DEF TotalComputed, MinOf
<1>11. LocalComputed(a) = Len(a.hit) * BlockSize
  <2> HIDE DEF a
  <2> QED BY <1>6, <1>9 DEF x
<1> DEFINE y == LocalComputed(a)
<1>12. /\ y \in Nat /\ y + ext <= Len(tokens[r]) /\ TotalComputed(a) = y + ext
       /\ Connector # "all" => ext = 0 \/ (y + ext < Len(tokens[r]) /\ (y + ext) % BlockSize = 0)
  BY <1>3, <1>4, <1>9, <1>10
<1> HIDE DEF a
<1> QED BY <1>4, <1>5, <1>6, <1>7, <1>8, <1>11, <1>12 DEF StartsWith, hit, a

(* A waiting request is scheduled.                                         *)
LEMMA StartMem ==
    ASSUME SystemInv, SystemMem, NEW r \in Reqs, NEW ext, NEW n \in 1..MaxModelLen, Start(r, ext, n)
    PROVE  MemState(mem', kv', tokens', loading', num_computed_tokens')
<1> DEFINE a == StartArgs(r, ext, n)
           text == tokens[r]
           local == LocalComputed(a)
           to == TotalComputed(a) + n
           w == WithSlots(kv, r, a)
           done == DoneOf(kv, loading, num_computed_tokens)
<1>1. n \in Nat /\ n >= 1 /\ n # 0
  BY KVCacheManagerAssumption
<1>2. /\ Idle(r) /\ ext \in ExternalChoices(r) /\ to <= Len(text)
      /\ kv' = allocate_slots(kv, r, a) /\ tokens' = tokens /\ loading' = loading
  BY DEF Start
<1>3. StartsWith(r, ext, n, a)
  BY <1>1, <1>2, StartArguments
<1>4. KVInv(kv) /\ text \in Seq(Nat) /\ Len(text) >= 1 /\ Len(text) \in Nat
      /\ num_computed_tokens \in [Reqs -> Nat]
  BY DEF SystemInv
<1>5. /\ done \in [Reqs -> Nat] /\ mem \in Memories /\ HashedIsWritten(mem, kv)
      /\ RequestOK(kv, tokens, loading, num_computed_tokens, r)
  BY DoneNumbers DEF SystemMem
<1>6. CASE ~SlotsFit(kv, r, a)
  <2>1. /\ mem' = Keep(mem, kv') /\ num_computed_tokens' = num_computed_tokens
        /\ kv' = Trimmed(kv, r, a)
    BY <1>2, <1>6 DEF Start, allocate_slots
  <2>2. MemState(Keep(mem, kv'), kv', tokens, loading, num_computed_tokens)
    <3> HIDE DEF a
    <3> QED BY <1>3, <1>4, <2>1, TrimmedStep DEF StartsWith, SystemMem
  <2> QED BY <1>2, <2>1, <2>2
<1>7. CASE SlotsFit(kv, r, a)
  <2>1. /\ num_computed_tokens' = [num_computed_tokens EXCEPT ![r] = to]
        /\ mem' = Keep(Written(mem, kv'.req_to_blocks[r], text, local, to), kv')
    BY <1>7 DEF Start
  <2> HIDE DEF a, to
  <2>2. kv' = cache_blocks(w, r, text, TokensToCache(a))
    BY <1>1, <1>2, <1>3, <1>7 DEF allocate_slots, StartsWith
  <2>3. local \in Nat /\ TotalComputed(a) \in Nat /\ TotalComputed(a) = local + ext /\ ext \in Nat
    BY <1>3 DEF StartsWith
  <2>4. to \in Nat /\ local <= to /\ local + ext <= to /\ to >= 1
    BY <2>3, <1>1 DEF to
  <2>5. TokensToCache(a) = to
    BY <2>4, <1>2, <1>3, <1>4 DEF TokensToCache, StartsWith, MinOf, to
  <2>6. SlotsNeeded(a) = to
    <3>1. Len(text) <= MaxModelLen /\ MaxModelLen \in Nat
      BY <1>5, KVCacheManagerAssumption DEF RequestOK
    <3>2. to + 0 = to /\ to <= MaxModelLen
      BY <3>1, <2>4, <1>2, <1>4
    <3> QED BY <3>2, <1>3 DEF SlotsNeeded, StartsWith, MinOf, to
  <2>7. Started(kv, w, r, a, mem, text)
    BY <1>3, <1>4, <1>5, <1>7, WaitingStarted DEF StartsWith
  <2>8. /\ KVInv(w) /\ OthersSame(kv, w, r) /\ NoNewHashes(kv.pool.block_hash, w.pool.block_hash)
        /\ to <= Len(w.req_to_blocks[r]) * BlockSize
        /\ Row(mem, w.req_to_blocks[r], w.num_cached_block[r], text, local)
        /\ Reaches(w.req_to_blocks[r], local + ext)
    BY <2>6, <2>7, <1>3 DEF Started, StartsWith
  <2> HIDE DEF w, local
  <2> DEFINE done1 == [done EXCEPT ![r] = local]
             done2 == [done1 EXCEPT ![r] = to]
             mw == Written(mem, w.req_to_blocks[r], text, done1[r], to)
  <2> HIDE DEF done
  <2>9. done1 \in [Reqs -> Nat] /\ done1[r] = local /\ \A q \in Reqs : q # r => done1[q] = done[q]
    BY <2>3, <1>5
  <2>10. MemOK(mem, w, tokens, done1)
    <3>1. MemOK(mem, kv, tokens, done)
      BY DEF SystemMem, MemState, done
    <3> HIDE DEF done1
    <3> QED BY <2>8, <2>9, <3>1, RowMemOK DEF OthersSame
  <2>11. HashesFilled(w, kv', r, text, to)
    BY <2>2, <2>4, <2>5, <2>8, <1>2, <1>4, CacheBlocksHashes
  <2>12. \A i \in 1..Len(w.req_to_blocks[r]) :
             i <= w.num_cached_block[r] /\ w.req_to_blocks[r][i] # NullBlock => i * BlockSize <= to
    <3> SUFFICES ASSUME NEW i \in 1..Len(w.req_to_blocks[r]), i <= w.num_cached_block[r],
                        w.req_to_blocks[r][i] # NullBlock
                 PROVE  i * BlockSize <= to
      OBVIOUS
    <3>1. i * BlockSize <= local
      BY <2>8 DEF Row, Frontier
    <3>2. i * BlockSize \in Nat
      <4>1. i \in Nat
        OBVIOUS
      <4> QED BY <4>1, KVCacheManagerAssumption, TimesMonotone
    <3> QED BY <3>1, <3>2, <2>3, <2>4
  <2>13. to <= to
    BY <2>4
  <2> HIDE DEF text
  <2>14. MemOK(mw, kv', tokens, done2)
    <3> HIDE DEF done1
    <3> QED BY <2>4, <2>8, <2>9, <2>10, <2>11, <2>12, <2>13, <1>2, WriteMemOK DEF text
  <2>15. KVInv(kv')
    BY <1>2, <1>3, <1>4, AllocateSlotsKeeps DEF StartsWith
  <2>16. kv'.req_to_blocks = w.req_to_blocks
    BY <2>11 DEF HashesFilled
  <2>17. mem' = Keep(mw, kv')
    BY <2>1, <2>9, <2>16
  <2>18. MemOK(mem', kv', tokens, done2)
    <3> HIDE DEF mw, done2
    <3> QED BY <2>14, <2>15, <2>17, KeepMemOK
  <2>19. num_computed_tokens'[r] = to /\ \A q \in Reqs : q # r => num_computed_tokens'[q] = num_computed_tokens[q]
    BY <2>1, <1>4
  <2>20. done2[r] = to /\ \A q \in Reqs : q # r => done2[q] = done[q]
    BY <2>9
  <2> HIDE DEF done2, mw
  <2>21. RestSame(kv, kv', tokens, tokens, loading, loading, num_computed_tokens, num_computed_tokens', r)
    BY <2>8, <2>11, <2>16, <2>19 DEF RestSame, OthersSame, HashesFilled
  <2>22. r \notin loading /\ loading \in SUBSET Reqs
    BY <1>3 DEF StartsWith, SystemMem, MemState
  <2>23. w.req_to_blocks[r] \in Seq(Blocks)
    BY <2>8, InOrder
  <2>24. Len(kv'.req_to_blocks[r]) # 0
    <3>1. 0 * BlockSize = 0
      BY KVCacheManagerAssumption
    <3> QED BY <3>1, <2>4, <2>8, <2>16
  <2>25. Reaches(kv'.req_to_blocks[r], to)
    BY <2>3, <2>4, <2>8, <2>16, <2>23, ReachesOn
  <2>26. RequestOK(kv', tokens, loading, num_computed_tokens', r)
    BY <2>19, <2>22, <2>24, <2>25, <1>5 DEF RequestOK, WindowOK
  <2>27. done2[r] = IF r \in loading THEN MaxOf(kv'.num_cached_block[r], 0) * BlockSize
                    ELSE num_computed_tokens'[r]
    BY <2>19, <2>20, <2>22
  <2>28. MemState(mem', kv', tokens, loading, num_computed_tokens')
    BY <2>18, <2>20, <2>21, <2>22, <2>26, <2>27, RequestStep DEF SystemMem, done
  <2> QED BY <2>28, <1>2
<1> QED BY <1>6, <1>7

(* Whole blocks: what ends within n ends at n.                             *)
LEMMA WholeBlocks ==
    ASSUME NEW n \in Nat, n % BlockSize = 0, NEW table \in Seq(Blocks), Within(table, n)
    PROVE  Len(table) * BlockSize <= n
<1>1. BlockSize \in Nat /\ BlockSize > 0 /\ Len(table) \in Nat
  BY KVCacheManagerAssumption
<1> DEFINE d == n \div BlockSize
           l == Len(table)
<1>2. d \in Nat /\ n = d * BlockSize
  <2>1. d \in Nat /\ d * BlockSize <= n /\ n < d * BlockSize + BlockSize
    BY <1>1, DivFacts
  <2>2. n % BlockSize = n - d * BlockSize
    BY <1>1
  <2>3. d * BlockSize \in Nat
    BY <1>1, <2>1, TimesMonotone
  <2> HIDE DEF d
  <2> QED BY <2>1, <2>2, <2>3
<1> HIDE DEF d
<1>3. CASE l = 0
  <2>1. 0 * BlockSize = 0
    BY <1>1
  <2> QED BY <2>1, <1>3
<1>4. CASE l # 0
  <2>1. (l - 1) * BlockSize < n /\ l - 1 \in Nat
    BY <1>1, <1>4 DEF Within
  <2>2. ~(d <= l - 1)
    <3> SUFFICES ASSUME d <= l - 1 PROVE FALSE
      OBVIOUS
    <3>1. d * BlockSize <= (l - 1) * BlockSize /\ (l - 1) * BlockSize \in Nat
      BY <2>1, <1>1, <1>2, TimesMonotone
    <3> HIDE DEF l
    <3> QED BY <3>1, <2>1, <1>2
  <2>3. l <= d /\ l \in Nat
    BY <2>1, <2>2, <1>1, <1>2
  <2> HIDE DEF l
  <2>4. l * BlockSize <= d * BlockSize
    BY <2>3, <1>1, <1>2, TimesMonotone
  <2> QED BY <2>4, <1>2 DEF l
<1> QED BY <1>3, <1>4

(* A waiting request gets slots, their contents come later.                *)
LEMMA StartLoadingMem ==
    ASSUME SystemInv, SystemMem, NEW r \in Reqs, NEW ext \in 1..MaxModelLen, StartLoading(r, ext)
    PROVE  MemState(mem', kv', tokens', loading', num_computed_tokens')
<1> DEFINE a == StartArgs(r, ext, 0)
           text == tokens[r]
           n == LocalComputed(a) + ext
           w == WithSlots(kv, r, a)
           u == w.req_to_blocks[r]
           nc == w.num_cached_block[r]
           done == DoneOf(kv, loading, num_computed_tokens)
<1>1. 0 \in Nat /\ ext > 0
  BY KVCacheManagerAssumption
<1>2. /\ Idle(r) /\ ext \in ExternalChoices(r) /\ mem' = Keep(mem, kv')
      /\ kv' = allocate_slots(kv, r, a) /\ tokens' = tokens /\ num_computed_tokens' = num_computed_tokens
  BY DEF StartLoading
<1>3. StartsWith(r, ext, 0, a)
  BY <1>1, <1>2, StartArguments
<1>4. KVInv(kv) /\ text \in Seq(Nat) /\ Len(text) >= 1 /\ Len(text) \in Nat
      /\ num_computed_tokens \in [Reqs -> Nat]
  BY DEF SystemInv
<1>5. /\ done \in [Reqs -> Nat] /\ mem \in Memories /\ HashedIsWritten(mem, kv)
      /\ RequestOK(kv, tokens, loading, num_computed_tokens, r) /\ loading \subseteq Reqs
  BY DoneNumbers DEF SystemMem, MemState
<1>6. CASE ~SlotsFit(kv, r, a)
  <2>1. loading' = loading /\ kv' = Trimmed(kv, r, a)
    BY <1>2, <1>6 DEF StartLoading, allocate_slots
  <2>2. MemState(Keep(mem, kv'), kv', tokens, loading, num_computed_tokens)
    <3> HIDE DEF a
    <3> QED BY <1>3, <1>4, <2>1, TrimmedStep DEF StartsWith, SystemMem
  <2> QED BY <1>2, <2>1, <2>2
<1>7. CASE SlotsFit(kv, r, a)
  <2>1. loading' = loading \cup {r}
    BY <1>7 DEF StartLoading
  <2> HIDE DEF a
  <2>2. kv' = w
    BY <1>2, <1>3, <1>7 DEF allocate_slots, StartsWith
  <2>3. /\ LocalComputed(a) \in Nat /\ ext \in Nat /\ TotalComputed(a) = n /\ n \in Nat /\ n >= 1
        /\ n <= Len(text)
    BY <1>1, <1>3 DEF StartsWith
  <2>4. SlotsNeeded(a) = n
    <3>1. Len(text) <= MaxModelLen /\ MaxModelLen \in Nat
      BY <1>5, KVCacheManagerAssumption DEF RequestOK
    <3> HIDE DEF n
    <3>2. (n + 0) + 0 = n /\ n <= MaxModelLen
      BY <3>1, <2>3, <1>4
    <3> QED BY <3>2, <2>3, <1>3 DEF SlotsNeeded, StartsWith, MinOf
  <2>5. Started(kv, w, r, a, mem, text)
    BY <1>3, <1>4, <1>5, <1>7, WaitingStarted DEF StartsWith
  <2>6. a.external = ext
    BY <1>3 DEF StartsWith
  <2>7. /\ KVInv(w) /\ OthersSame(kv, w, r) /\ NoNewHashes(kv.pool.block_hash, w.pool.block_hash)
        /\ n <= Len(u) * BlockSize /\ Reaches(u, n)
        /\ nc \in Nat /\ Row(mem, u, nc, text, nc * BlockSize) /\ EndsBefore(u, nc, text)
    BY <2>4, <2>5, <2>6, <1>1 DEF Started
  <2>8. u \in Seq(Blocks) /\ Len(u) \in Nat /\ BlockSize \in Nat /\ BlockSize > 0
    BY <2>7, InOrder, KVCacheManagerAssumption
  <2>9. Len(u) * BlockSize \in Nat
    BY <2>8, TimesMonotone
  <2>10. Allots(kv, w, r, a)
    BY <1>3, <1>4, WithSlotsFrame DEF StartsWith
  <2>11. Within(u, n)
    <3>1. Within(kv.req_to_blocks[r], n) /\ a.computed \in Nat
      BY <1>3 DEF StartsWith, Within
    <3>2. n <= n /\ n \in Int
      BY <2>3
    <3> QED BY <3>1, <3>2, <2>4, <2>6, <2>10 DEF Allots
  <2> HIDE DEF n, u, nc, w, text, done
  <2>12. Reaches(u, Len(u) * BlockSize)
    BY <2>3, <2>7, <2>8, <2>9, ReachesOn
  <2>13. ASSUME WholeWindow, SlidingWindow # 0 PROVE Len(u) * BlockSize < Len(text)
    <3>1. n < Len(text) /\ n % BlockSize = 0
      BY <1>1, <1>3, <2>13 DEF WholeWindow, StartsWith, n, text
    <3>2. Len(u) * BlockSize <= n
      BY <3>1, <2>3, <2>8, <2>11, WholeBlocks
    <3> QED BY <3>1, <3>2, <2>3, <2>9, <1>4
  <2>14. Len(u) # 0
    <3>1. 0 * BlockSize = 0
      BY <2>8
    <3> QED BY <3>1, <2>3, <2>7
  <2> DEFINE done2 == [done EXCEPT ![r] = nc * BlockSize]
  <2>15. done2[r] = nc * BlockSize /\ \A q \in Reqs : q # r => done2[q] = done[q]
    BY <1>5
  <2> HIDE DEF done2
  <2>16. MemOK(mem, kv, tokens, done)
    BY DEF SystemMem, MemState, done
  <2>17. MemOK(mem, w, tokens, done2)
    BY <2>7, <2>15, <2>16, RowMemOK DEF OthersSame, u, nc, text
  <2>18. MemOK(mem', kv', tokens, done2)
    BY <2>2, <2>7, <2>17, <1>2, KeepMemOK
  <2>19. RestSame(kv, kv', tokens, tokens, loading, loading', num_computed_tokens, num_computed_tokens, r)
    BY <2>1, <2>2, <2>7 DEF RestSame, OthersSame
  <2>20. r \in loading' /\ loading' \in SUBSET Reqs
    BY <2>1, <1>5
  <2>21. RequestOK(kv', tokens, loading', num_computed_tokens, r)
    <3>1. num_computed_tokens[r] = 0
      BY <1>3 DEF StartsWith
    <3>2. kv'.req_to_blocks[r] = u /\ kv'.num_cached_block[r] = nc
      BY <2>2 DEF u, nc
    <3> QED BY <3>1, <3>2, <2>7, <2>12, <2>13, <2>14, <2>20, <1>5 DEF RequestOK, WindowOK, text
  <2>22. done2[r] = IF r \in loading' THEN MaxOf(kv'.num_cached_block[r], 0) * BlockSize
                    ELSE num_computed_tokens[r]
    <3>1. kv'.num_cached_block[r] = nc /\ MaxOf(nc, 0) = nc
      BY <2>2, <2>7 DEF nc, MaxOf
    <3> QED BY <3>1, <2>15, <2>20
  <2>23. MemState(mem', kv', tokens, loading', num_computed_tokens)
    BY <2>15, <2>18, <2>19, <2>20, <2>21, <2>22, RequestStep DEF SystemMem, done
  <2> QED BY <2>23, <1>2
<1> QED BY <1>6, <1>7

(* The KV has arrived.                                                     *)
LEMMA FinishLoadingMem ==
    ASSUME SystemInv, SystemMem, NEW r \in Reqs, FinishLoading(r)
    PROVE  MemState(mem', kv', tokens', loading', num_computed_tokens')
<1> DEFINE table == kv.req_to_blocks[r]
           nc == kv.num_cached_block[r]
           text == tokens[r]
           all == Len(table) * BlockSize
           have == MinOf(all, Len(text))
           n == IF have = Len(text) THEN have - 1 ELSE have
           local == MaxOf(nc, 0) * BlockSize
           done == DoneOf(kv, loading, num_computed_tokens)
           done2 == [done EXCEPT ![r] = n]
           mw == Written(mem, table, text, done[r], have)
<1>1. /\ r \in loading /\ loading' = loading \ {r} /\ kv' = cache_blocks(kv, r, text, n)
      /\ num_computed_tokens' = [num_computed_tokens EXCEPT ![r] = n]
      /\ mem' = Keep(Written(mem, table, text, local, have), kv') /\ tokens' = tokens
  BY DEF FinishLoading
<1>2. KVInv(kv) /\ text \in Seq(Nat) /\ Len(text) >= 1 /\ Len(text) \in Nat
      /\ num_computed_tokens \in [Reqs -> Nat]
  BY DEF SystemInv
<1>3. /\ done \in [Reqs -> Nat] /\ mem \in Memories /\ done[r] = local
      /\ RequestOK(kv, tokens, loading, num_computed_tokens, r) /\ loading \subseteq Reqs
  BY <1>1, DoneNumbers DEF SystemMem, MemState
<1>4. table \in Seq(Blocks) /\ Len(table) \in Nat /\ BlockSize \in Nat /\ BlockSize > 0
  BY <1>2, InOrder, KVCacheManagerAssumption
<1>5. Len(table) # 0 /\ EndsBefore(table, nc, text)
  BY <1>1, <1>3 DEF RequestOK
<1>6. all \in Nat /\ all >= 1
  <2>1. all \in Nat
    BY <1>4, TimesMonotone
  <2>2. all # 0 * BlockSize /\ 0 * BlockSize = 0
    BY <1>4, <1>5, TimesMonotone
  <2> HIDE DEF all
  <2> QED BY <2>1, <2>2
<1>7. ASSUME NEW i \in 1..Len(table) PROVE i * BlockSize \in Nat /\ i * BlockSize <= all
  <2>1. i \in Nat /\ i <= Len(table)
    BY <1>4
  <2> QED BY <2>1, <1>4, TimesMonotone
<1>8. MemOK(mem, kv, tokens, done)
  BY DEF SystemMem, MemState
<1> HIDE DEF all, local, done
<1>9. /\ have \in Nat /\ have >= 1 /\ have <= all /\ have <= Len(text)
      /\ ((have = all /\ all < Len(text)) \/ have = Len(text))
  BY <1>2, <1>6 DEF MinOf
<1> HIDE DEF have
<1>10. n \in Nat /\ n <= have /\ n <= n /\ n <= Len(text)
       /\ ((n = all /\ all < Len(text)) \/ n = Len(text) - 1)
  BY <1>2, <1>9
<1>11. all < Len(text) => n = all
  <2>1. all < Len(text) => have = all /\ have # Len(text)
    BY <1>2, <1>6 DEF have, MinOf
  <2> QED BY <2>1
<1> HIDE DEF n, table, nc, text
<1>12. ASSUME NEW i \in 1..Len(table), i <= nc, table[i] # NullBlock PROVE i * BlockSize <= n
  <2>1. i * BlockSize < Len(text)
    BY <1>5, <1>12 DEF EndsBefore
  <2>2. i * BlockSize \in Nat /\ i * BlockSize <= all
    BY <1>7
  <2> QED BY <2>1, <2>2, <1>2, <1>6, <1>10
<1>13. HashesFilled(kv, kv', r, text, n)
  BY <1>1, <1>2, <1>10, CacheBlocksHashes
<1>14. MemOK(mw, kv', tokens, done2)
  <2>1. have <= Len(kv.req_to_blocks[r]) * BlockSize /\ have <= Len(tokens[r])
    BY <1>9 DEF all, table, text
  <2>2. \A i \in 1..Len(kv.req_to_blocks[r]) :
            i <= kv.num_cached_block[r] /\ kv.req_to_blocks[r][i] # NullBlock => i * BlockSize <= n
    BY <1>12 DEF table, nc
  <2>3. HashesFilled(kv, kv', r, tokens[r], n)
    BY <1>13 DEF text
  <2>4. mw = Written(mem, kv.req_to_blocks[r], tokens[r], done[r], have)
    BY DEF table, text
  <2>5. have \in Nat /\ n \in Nat /\ n <= n /\ n <= have
    BY <1>9, <1>10
  <2> HIDE DEF mw
  <2> QED BY <2>1, <2>2, <2>3, <2>4, <2>5, <1>2, <1>3, <1>8, WriteMemOK
<1>15. KVInv(kv')
  <2>1. n \in Int
    BY <1>10
  <2> QED BY <2>1, <1>1, <1>2, <1>10, CacheBlocksKeeps
<1>16. MemOK(mem', kv', tokens, done2)
  <2>1. mem' = Keep(mw, kv')
    BY <1>1, <1>3
  <2> HIDE DEF mw, done2
  <2> QED BY <2>1, <1>14, <1>15, KeepMemOK
<1>17. done2[r] = n /\ \A q \in Reqs : q # r => done2[q] = done[q]
  BY <1>3
<1>18. num_computed_tokens'[r] = n /\ \A q \in Reqs : q # r => num_computed_tokens'[q] = num_computed_tokens[q]
  BY <1>1, <1>2
<1> HIDE DEF done2, mw
<1>19. RestSame(kv, kv', tokens, tokens, loading, loading', num_computed_tokens, num_computed_tokens', r)
  BY <1>1, <1>13, <1>18 DEF RestSame, HashesFilled
<1>20. kv'.req_to_blocks[r] = table
  BY <1>13 DEF HashesFilled, table
<1>21. ASSUME WholeWindow PROVE Reaches(table, n)
  <2>1. /\ SlidingWindow # 0 => all < Len(text)
        /\ Reaches(table, all)
    BY <1>1, <1>3, <1>21 DEF RequestOK, WindowOK, table, all, text
  <2>2. CASE SlidingWindow = 0
    <3>1. get_num_skipped_tokens(n) = get_num_skipped_tokens(all)
      BY <2>2 DEF get_num_skipped_tokens
    <3> QED BY <2>1, <3>1 DEF Reaches
  <2>3. CASE SlidingWindow # 0
    BY <2>1, <2>3, <1>11
  <2> QED BY <2>2, <2>3
<1>22. r \notin loading' /\ loading' \in SUBSET Reqs
  BY <1>1, <1>3
<1>23. RequestOK(kv', tokens, loading', num_computed_tokens', r)
  BY <1>3, <1>5, <1>18, <1>20, <1>21, <1>22 DEF RequestOK, WindowOK
<1>24. done2[r] = IF r \in loading' THEN MaxOf(kv'.num_cached_block[r], 0) * BlockSize
                  ELSE num_computed_tokens'[r]
  BY <1>17, <1>18, <1>22
<1>25. MemState(mem', kv', tokens, loading', num_computed_tokens')
  BY <1>16, <1>17, <1>19, <1>22, <1>23, <1>24, RequestStep DEF SystemMem, done
<1> QED BY <1>25, <1>1

(* A running request gets more slots.                                      *)
LEMMA ExtendMem ==
    ASSUME SystemInv, SystemMem, NEW r \in Reqs, NEW n \in 1..MaxModelLen, Extend(r, n)
    PROVE  MemState(mem', kv', tokens', loading', num_computed_tokens')
<1> DEFINE a == ExtendArgs(r, n)
           text == tokens[r]
           from == num_computed_tokens[r]
           to == from + n
           w == WithSlots(kv, r, a)
           tr == Trimmed(kv, r, a)
           done == DoneOf(kv, loading, num_computed_tokens)
<1>1. n \in Nat /\ n >= 1 /\ BlockSize \in Nat /\ BlockSize > 0 /\ MaxModelLen \in Nat /\ Lookahead \in Nat
  BY KVCacheManagerAssumption, KVCacheSystemAssumption
<1>2. /\ ~Idle(r) /\ r \notin loading /\ to <= Len(text)
      /\ kv' = allocate_slots(kv, r, a) /\ tokens' = tokens /\ loading' = loading
  BY DEF Extend
<1>3. KVInv(kv) /\ text \in Seq(Nat) /\ Len(text) \in Nat
      /\ num_computed_tokens \in [Reqs -> Nat] /\ from \in Nat
  BY DEF SystemInv
<1>4. /\ done \in [Reqs -> Nat] /\ mem \in Memories /\ done[r] = from
      /\ RequestOK(kv, tokens, loading, num_computed_tokens, r) /\ loading \subseteq Reqs
      /\ Row(mem, kv.req_to_blocks[r], kv.num_cached_block[r], text, from)
  BY <1>2, DoneNumbers DEF SystemMem, MemState
<1>5. ArgsOK(kv, r, a)
  BY <1>1, ExtendArgsOK
<1>6. /\ a.tokens = text /\ a.computed = from /\ a.new = n /\ a.hit = <<>> /\ a.external = 0
      /\ a.lookahead = Lookahead /\ ~a.delay
  BY DEF ExtendArgs
<1>7. kv.req_to_blocks[r] \in Seq(Blocks) /\ Len(kv.req_to_blocks[r]) \in Nat
      /\ Len(kv.req_to_blocks[r]) # 0
  BY <1>2, <1>3, InOrder DEF Idle
<1> HIDE DEF a
<1>8. LocalComputed(a) = from /\ LocalComputed(a) + a.external = from
  <2>1. Len(a.hit) = 0 /\ 0 * BlockSize = 0
    BY <1>1, <1>6
  <2> QED BY <2>1, <1>3, <1>6 DEF LocalComputed
<1>9. from <= MaxModelLen /\ to <= MaxModelLen /\ to \in Nat
  <2>1. Len(text) <= MaxModelLen
    BY <1>4 DEF RequestOK
  <2> QED BY <2>1, <1>1, <1>2, <1>3
<1>10. TotalComputed(a) = from
  BY <1>8, <1>9 DEF TotalComputed, MinOf
<1>11. CASE ~SlotsFit(kv, r, a)
  <2>1. /\ mem' = Keep(mem, kv') /\ num_computed_tokens' = num_computed_tokens /\ kv' = tr
    BY <1>2, <1>11 DEF Extend, allocate_slots, a
  <2>2. MemState(Keep(mem, kv'), kv', tokens, loading, num_computed_tokens)
    BY <1>2, <1>3, <1>5, <1>10, <2>1, TrimmedStep DEF SystemMem
  <2> QED BY <1>2, <2>1, <2>2
<1>12. CASE SlotsFit(kv, r, a)
  <2>1. /\ num_computed_tokens' = [num_computed_tokens EXCEPT ![r] = to]
        /\ mem' = Keep(Written(mem, kv'.req_to_blocks[r], text, from, to), kv')
    BY <1>12 DEF Extend, a
  <2> HIDE DEF to
  <2>2. kv' = cache_blocks(w, r, text, TokensToCache(a))
    BY <1>2, <1>6, <1>12 DEF allocate_slots
  <2>3. TokensToCache(a) = to
    BY <1>2, <1>6, <1>10 DEF TokensToCache, MinOf, to
  <2>4. to <= SlotsNeeded(a) /\ SlotsNeeded(a) \in Nat /\ to >= 1 /\ from <= to
    <3>1. SlotsNeeded(a) = MinOf(to + Lookahead, MaxModelLen)
      BY <1>6, <1>10 DEF SlotsNeeded, to
    <3>2. to >= 1 /\ from <= to
      BY <1>1, <1>3 DEF to
    <3> QED BY <3>1, <3>2, <1>1, <1>9 DEF MinOf
  <2>5. get_num_skipped_tokens(from) \div BlockSize <= Len(kv.req_to_blocks[r])
    <3> DEFINE d == get_num_skipped_tokens(from) \div BlockSize
               l == Len(kv.req_to_blocks[r])
    <3>1. d \in Nat /\ d * BlockSize <= from
      BY <1>3, SkippedBlocks, SkippedAtMost
    <3>2. from <= l * BlockSize
      BY <1>4 DEF Row, Frontier
    <3>3. l \in Nat
      BY <1>7
    <3> HIDE DEF d, l
    <3>4. d * BlockSize \in Nat /\ l * BlockSize \in Nat
      BY <3>1, <3>3, <1>1, TimesMonotone
    <3>5. d * BlockSize <= l * BlockSize
      BY <3>1, <3>2, <3>4, <1>3
    <3>6. d <= l
      BY <3>1, <3>3, <3>5, <1>1, TimesMonotone
    <3> QED BY <3>6 DEF d, l
  <2>6. PlainSlots(kv, w, r, a)
    BY <2>5, <1>3, <1>5, <1>6, <1>8, <1>12, PlainSlotsFit
  <2>7. /\ Grown(tr.req_to_blocks[r], w.req_to_blocks[r]) /\ w.num_cached_block = kv.num_cached_block
        /\ NoNewHashes(kv.pool.block_hash, w.pool.block_hash)
        /\ SlotsNeeded(a) <= Len(w.req_to_blocks[r]) * BlockSize
    BY <2>6 DEF PlainSlots
  <2>8. KVInv(w) /\ OthersSame(kv, w, r)
    BY <1>3, <1>5, WithSlotsFrame DEF Allots
  <2>9. KVInv(tr) /\ CutTable(kv.req_to_blocks[r], tr.req_to_blocks[r], from)
    BY <1>3, <1>5, <1>10, TrimmedTrims DEF Trims
  <2>10. /\ tr.req_to_blocks[r] \in Seq(Blocks) /\ w.req_to_blocks[r] \in Seq(Blocks)
         /\ Len(w.req_to_blocks[r]) \in Nat /\ w.num_cached_block[r] \in Int
    <3> HIDE DEF tr, w
    <3> QED BY <2>8, <2>9, InOrder
  <2> HIDE DEF tr, w
  <2>11. Row(mem, w.req_to_blocks[r], w.num_cached_block[r], text, from)
    <3>1. Row(mem, tr.req_to_blocks[r], w.num_cached_block[r], text, from)
      BY <2>7, <2>9, <1>4, RowCut
    <3> QED BY <3>1, <2>7, <2>10, RowGrown
  <2>12. to <= Len(w.req_to_blocks[r]) * BlockSize
    <3> DEFINE x == Len(w.req_to_blocks[r]) * BlockSize
    <3>1. x \in Nat /\ SlotsNeeded(a) <= x
      BY <2>7, <2>10, <1>1, TimesMonotone
    <3> HIDE DEF x
    <3>2. to <= x
      BY <3>1, <2>4, <1>9
    <3> QED BY <3>2 DEF x
  <2> DEFINE done2 == [done EXCEPT ![r] = to]
             mw == Written(mem, w.req_to_blocks[r], text, done[r], to)
  <2> HIDE DEF done
  <2>13. MemOK(mem, w, tokens, done)
    <3>1. MemOK(mem, kv, tokens, done)
      BY DEF SystemMem, MemState, done
    <3> QED BY <2>7, <2>8, <2>11, <3>1, <1>4, RowMemOK DEF OthersSame
  <2>14. HashesFilled(w, kv', r, text, to)
    BY <2>2, <2>3, <2>8, <1>2, <1>3, <1>9, CacheBlocksHashes
  <2>15. ASSUME NEW i \in 1..Len(w.req_to_blocks[r]), i <= w.num_cached_block[r],
                w.req_to_blocks[r][i] # NullBlock
         PROVE  i * BlockSize <= to
    <3>1. i * BlockSize <= from
      BY <2>11, <2>15 DEF Row, Frontier
    <3>2. i * BlockSize \in Nat
      <4>1. i \in Nat
        BY <2>10
      <4> QED BY <4>1, <1>1, TimesMonotone
    <3> HIDE DEF from
    <3> QED BY <3>1, <3>2, <2>4, <1>3, <1>9
  <2>16. to <= to
    BY <1>9
  <2> HIDE DEF text
  <2>17. MemOK(mw, kv', tokens, done2)
    BY <2>8, <2>12, <2>13, <2>14, <2>15, <2>16, <1>2, <1>4, <1>9, WriteMemOK DEF text
  <2>18. KVInv(kv')
    BY <1>2, <1>3, <1>5, AllocateSlotsKeeps
  <2>19. kv'.req_to_blocks = w.req_to_blocks
    BY <2>14 DEF HashesFilled
  <2>20. MemOK(mem', kv', tokens, done2)
    <3>1. mem' = Keep(mw, kv')
      BY <2>1, <2>19, <1>4
    <3> HIDE DEF mw, done2
    <3> QED BY <3>1, <2>17, <2>18, KeepMemOK
  <2>21. num_computed_tokens'[r] = to /\ \A q \in Reqs : q # r => num_computed_tokens'[q] = num_computed_tokens[q]
    BY <2>1, <1>3
  <2>22. done2[r] = to /\ \A q \in Reqs : q # r => done2[q] = done[q]
    BY <1>4
  <2> HIDE DEF done2, mw
  <2>23. RestSame(kv, kv', tokens, tokens, loading, loading, num_computed_tokens, num_computed_tokens', r)
    BY <2>8, <2>14, <2>19, <2>21 DEF RestSame, OthersSame, HashesFilled
  <2>24. Len(kv'.req_to_blocks[r]) # 0
    <3>1. Len(tr.req_to_blocks[r]) = Len(kv.req_to_blocks[r])
      BY <2>9 DEF CutTable
    <3>2. Len(tr.req_to_blocks[r]) <= Len(w.req_to_blocks[r])
      BY <2>7 DEF Grown
    <3> QED BY <3>1, <3>2, <2>10, <2>19, <1>7
  <2>25. ASSUME WholeWindow PROVE Reaches(kv'.req_to_blocks[r], to)
    <3>1. Reaches(kv.req_to_blocks[r], from)
      BY <2>25, <1>2, <1>4 DEF RequestOK, WindowOK
    <3>2. from \in Int /\ to \in Int
      BY <1>3, <1>9
    <3> HIDE DEF from
    <3>3. Reaches(tr.req_to_blocks[r], from)
      BY <3>1, <3>2, <2>9, <1>7, ReachesCut
    <3>4. Reaches(w.req_to_blocks[r], from)
      BY <3>3, <2>7, <2>10, ReachesGrown
    <3>5. Reaches(w.req_to_blocks[r], to)
      BY <3>2, <3>4, <2>4, <2>10, ReachesOn
    <3> QED BY <3>5, <2>19
  <2>26. RequestOK(kv', tokens, loading, num_computed_tokens', r)
    BY <2>21, <2>24, <2>25, <1>2, <1>4 DEF RequestOK, WindowOK
  <2>27. done2[r] = IF r \in loading THEN MaxOf(kv'.num_cached_block[r], 0) * BlockSize
                    ELSE num_computed_tokens'[r]
    BY <2>21, <2>22, <1>2
  <2>28. MemState(mem', kv', tokens, loading, num_computed_tokens')
    BY <2>20, <2>22, <2>23, <2>26, <2>27, <1>4, RequestStep DEF SystemMem, done
  <2> QED BY <2>28, <1>2
<1> QED BY <1>11, <1>12

(* A token is sampled.                                                     *)
LEMMA SampleMem ==
    ASSUME SystemInv, SystemMem, NEW r \in Reqs, NEW t \in Vocab, Sample(r, t)
    PROVE  MemState(mem', kv', tokens', loading', num_computed_tokens')
<1> DEFINE done == DoneOf(kv, loading, num_computed_tokens)
           text == tokens[r]
           longer == Append(text, t)
<1>1. /\ num_computed_tokens[r] = Len(text) /\ Len(text) < MaxModelLen
      /\ tokens' = [tokens EXCEPT ![r] = longer]
      /\ kv' = kv /\ mem' = mem /\ loading' = loading /\ num_computed_tokens' = num_computed_tokens
  BY DEF Sample
<1>2. KVInv(kv) /\ tokens \in [Reqs -> Seq(Nat)] /\ text \in Seq(Nat) /\ Len(text) >= 1 /\ Len(text) \in Nat
  BY DEF SystemInv
<1>3. /\ mem \in Memories /\ RequestOK(kv, tokens, loading, num_computed_tokens, r) /\ loading \subseteq Reqs
      /\ Row(mem, kv.req_to_blocks[r], kv.num_cached_block[r], text, done[r])
  BY DoneNumbers DEF SystemMem, MemState
<1>4. r \notin loading
  BY <1>1, <1>2, <1>3 DEF RequestOK
<1>5. done[r] = num_computed_tokens[r]
  BY <1>4 DEF DoneOf
<1>6. MemOK(mem, kv, tokens, done)
  BY DEF SystemMem, MemState
<1> HIDE DEF done
<1>7. Row(mem, kv.req_to_blocks[r], kv.num_cached_block[r], longer, done[r])
  <2>1. Len(kv.req_to_blocks[r]) \in Nat /\ t \in Nat
    BY <1>2, InOrder, KVCacheSystemAssumption
  <2> QED BY <2>1, <1>3, RowAppended
<1>8. longer \in Seq(Nat) /\ Len(longer) = Len(text) + 1
  <2>1. t \in Nat
    BY KVCacheSystemAssumption
  <2> QED BY <2>1, <1>2, AppendElements
<1> HIDE DEF longer
<1>9. tokens'[r] = longer /\ \A q \in Reqs : q # r => tokens'[q] = tokens[q]
  BY <1>1, <1>2
<1>10. MemOK(mem, kv, tokens', done)
  <2>1. NoNewHashes(kv.pool.block_hash, kv.pool.block_hash)
    BY DEF NoNewHashes
  <2>2. PICK m, k, t2 : m = mem /\ k = kv /\ t2 = tokens'
    OBVIOUS
  <2>3. /\ MemOK(m, k, tokens, done) /\ NoNewHashes(k.pool.block_hash, k.pool.block_hash)
        /\ Row(m, k.req_to_blocks[r], k.num_cached_block[r], t2[r], done[r])
        /\ \A q \in Reqs : q # r => t2[q] = tokens[q]
    BY <2>1, <2>2, <1>6, <1>7, <1>9
  <2>4. MemOK(m, k, t2, done)
    BY <2>3, RowMemOK
  <2> QED BY <2>2, <2>4
<1>11. RestSame(kv, kv, tokens, tokens', loading, loading, num_computed_tokens, num_computed_tokens, r)
  BY <1>9 DEF RestSame
<1>12. RequestOK(kv, tokens', loading, num_computed_tokens, r)
  <2>1. Len(tokens'[r]) <= MaxModelLen
    BY <1>1, <1>2, <1>8, <1>9, KVCacheManagerAssumption
  <2> QED BY <2>1, <1>3, <1>4 DEF RequestOK, WindowOK
<1>13. loading \in SUBSET Reqs
  BY <1>3
<1>14. MemState(mem, kv, tokens', loading, num_computed_tokens)
  BY <1>4, <1>5, <1>10, <1>11, <1>12, <1>13, RequestStep DEF SystemMem, done
<1> QED BY <1>14, <1>1

(* A request is preempted or finishes.                                     *)
LEMMA FreeMem ==
    ASSUME SystemInv, SystemMem, NEW r \in Reqs, NEW finished \in BOOLEAN, Free(r, finished)
    PROVE  MemState(mem', kv', tokens', loading', num_computed_tokens')
<1> DEFINE done == DoneOf(kv, loading, num_computed_tokens)
           text == IF finished THEN Prompt[r] ELSE tokens[r]
           done2 == [done EXCEPT ![r] = 0]
<1>1. /\ r \notin loading /\ kv' = free(kv, r)
      /\ num_computed_tokens' = [num_computed_tokens EXCEPT ![r] = 0]
      /\ tokens' = [tokens EXCEPT ![r] = text] /\ mem' = Keep(mem, kv') /\ loading' = loading
  BY DEF Free
<1>2. KVInv(kv) /\ tokens \in [Reqs -> Seq(Nat)] /\ num_computed_tokens \in [Reqs -> Nat]
  BY DEF SystemInv
<1>3. /\ done \in [Reqs -> Nat] /\ mem \in Memories /\ RequestOK(kv, tokens, loading, num_computed_tokens, r)
      /\ loading \subseteq Reqs
  BY DoneNumbers DEF SystemMem, MemState
<1>4. text \in Seq(Nat) /\ Len(text) <= MaxModelLen
  <2>1. Prompt[r] \in Seq(Nat) /\ Len(Prompt[r]) <= MaxModelLen
    BY KVCacheSystemAssumption, KVCacheManagerAssumption
  <2>2. tokens[r] \in Seq(Nat) /\ Len(tokens[r]) <= MaxModelLen
    BY <1>2, <1>3 DEF RequestOK
  <2> QED BY <2>1, <2>2
<1>5. /\ OthersSame(kv, kv', r) /\ kv'.req_to_blocks[r] = <<>> /\ kv'.num_cached_block[r] = Untracked
      /\ KVInv(kv')
  BY <1>1, <1>2, FreeFrame, FreeKeeps
<1>6. kv'.pool.block_hash = kv.pool.block_hash
  <2> DEFINE q == free_blocks(kv.pool, Reverse(kv.req_to_blocks[r]))
  <2>1. kv \in Managers /\ kv.pool \in Pools
    BY <1>2, InOrder
  <2>2. kv'.pool = q
    BY <1>1, <2>1 DEF free, Managers
  <2>3. q.block_hash = kv.pool.block_hash
    <3>1. q = [free |-> q.free, ref_cnt |-> q.ref_cnt,
               block_hash |-> kv.pool.block_hash, cached |-> kv.pool.cached]
      BY <2>1, FreeBlocksParts
    <3> HIDE DEF q
    <3> QED BY <3>1
  <2> QED BY <2>2, <2>3
<1>7. MemOK(mem, kv, tokens, done)
  BY DEF SystemMem, MemState
<1> HIDE DEF done, text
<1>8. tokens'[r] = text /\ \A q \in Reqs : q # r => tokens'[q] = tokens[q]
  BY <1>1, <1>2
<1>9. num_computed_tokens'[r] = 0 /\ \A q \in Reqs : q # r => num_computed_tokens'[q] = num_computed_tokens[q]
  BY <1>1, <1>2
<1>10. done2[r] = 0 /\ \A q \in Reqs : q # r => done2[q] = done[q]
  BY <1>3
<1> HIDE DEF done2
<1>11. Len(kv'.req_to_blocks[r]) = 0
  BY <1>5
<1>12. Row(mem, kv'.req_to_blocks[r], kv'.num_cached_block[r], tokens'[r], done2[r])
  BY <1>4, <1>5, <1>8, <1>10, <1>11, RowEmpty
<1>13. NoNewHashes(kv.pool.block_hash, kv'.pool.block_hash)
  BY <1>6 DEF NoNewHashes
<1>14. MemOK(mem, kv', tokens', done2)
  <2>1. \A q \in Reqs : q # r => /\ kv'.req_to_blocks[q] = kv.req_to_blocks[q]
                                  /\ kv'.num_cached_block[q] = kv.num_cached_block[q]
                                  /\ tokens'[q] = tokens[q] /\ done2[q] = done[q]
    BY <1>5, <1>8, <1>10 DEF OthersSame
  <2> QED BY <2>1, <1>7, <1>12, <1>13, RowMemOK
<1>15. MemOK(mem', kv', tokens', done2)
  BY <1>1, <1>5, <1>14, KeepMemOK
<1>16. RestSame(kv, kv', tokens, tokens', loading, loading, num_computed_tokens, num_computed_tokens', r)
  BY <1>5, <1>8, <1>9 DEF RestSame, OthersSame
<1>17. RequestOK(kv', tokens', loading, num_computed_tokens', r)
  BY <1>1, <1>4, <1>5, <1>8, <1>11 DEF RequestOK, WindowOK, Reaches
<1>18. loading \in SUBSET Reqs
  BY <1>3
<1>19. done2[r] = IF r \in loading THEN MaxOf(kv'.num_cached_block[r], 0) * BlockSize
                  ELSE num_computed_tokens'[r]
  BY <1>1, <1>9, <1>10
<1>20. MemState(mem', kv', tokens', loading, num_computed_tokens')
  BY <1>10, <1>15, <1>16, <1>17, <1>18, <1>19, RequestStep DEF SystemMem, done
<1> QED BY <1>20, <1>1

(* Blocks leave the prefix cache, and nothing else changes.                *)
LEMMA ForgetMem ==
    ASSUME NEW m, NEW k, NEW text, NEW ld, NEW num, MemState(m, k, text, ld, num),
           NEW k2, KVInv(k2), NoNewHashes(k.pool.block_hash, k2.pool.block_hash),
           k2.req_to_blocks = k.req_to_blocks, k2.num_cached_block = k.num_cached_block
    PROVE  MemState(Keep(m, k2), k2, text, ld, num)
<1>1. DoneOf(k2, ld, num) = DoneOf(k, ld, num)
  BY DEF DoneOf
<1> DEFINE done == DoneOf(k, ld, num)
<1>2. MemOK(m, k, text, done)
  BY DEF MemState
<1> HIDE DEF done
<1>3. HashedIsWritten(m, k2)
  BY <1>2 DEF MemOK, NoNewHashes, HashedIsWritten
<1>4. MemOK(m, k2, text, done)
  BY <1>2, <1>3 DEF MemOK
<1>5. MemOK(Keep(m, k2), k2, text, done)
  BY <1>4, KeepMemOK
<1>6. ASSUME NEW r \in Reqs PROVE RequestOK(k2, text, ld, num, r)
  <2>1. RequestOK(k, text, ld, num, r)
    BY DEF MemState
  <2> QED BY <2>1 DEF RequestOK, WindowOK
<1> QED BY <1>1, <1>5, <1>6 DEF MemState, done

(* evict_blocks does that.                                                 *)
LEMMA EvictMem ==
    ASSUME SystemInv, SystemMem, NEW S \in SUBSET Blocks, Evict(S)
    PROVE  MemState(mem', kv', tokens', loading', num_computed_tokens')
<1> DEFINE p == kv.pool
           q == evict_blocks(p, S)
<1>1. /\ kv' = [kv EXCEPT !.pool = q] /\ mem' = Keep(mem, kv')
      /\ tokens' = tokens /\ loading' = loading /\ num_computed_tokens' = num_computed_tokens
  BY DEF Evict
<1>2. KVInv(kv) /\ kv \in Managers /\ p \in Pools
  BY InOrder DEF SystemInv
<1>3. KVInv(kv')
  BY <1>1, <1>2, EvictManager
<1>4. NoNewHashes(p.block_hash, q.block_hash)
  <2> DEFINE listed == {b \in S : /\ p.block_hash[b] \in DOMAIN p.cached
                                  /\ b \in Elements(p.cached[p.block_hash[b]])}
             ch == [b \in Blocks |-> IF b \in listed THEN NoHash ELSE p.block_hash[b]]
  <2>1. q = [p EXCEPT !.cached = pop(p.cached, listed), !.block_hash = ch]
    BY DEF evict_blocks
  <2>2. NoNewHashes(p.block_hash, ch)
    BY DEF NoNewHashes
  <2> HIDE DEF ch, listed, p, q
  <2>3. q.block_hash = ch
    BY <2>1, <1>2 DEF Pools
  <2> QED BY <2>2, <2>3
<1> HIDE DEF q
<1>5. /\ kv'.pool = q /\ kv'.req_to_blocks = kv.req_to_blocks
      /\ kv'.num_cached_block = kv.num_cached_block
  BY <1>1, <1>2 DEF Managers
<1>6. MemState(Keep(mem, kv'), kv', tokens, loading, num_computed_tokens)
  BY <1>3, <1>4, <1>5, ForgetMem DEF SystemMem
<1> QED BY <1>1, <1>6

(* So does reset_prefix_cache.                                             *)
LEMMA ResetMem ==
    ASSUME SystemInv, SystemMem, Reset
    PROVE  MemState(mem', kv', tokens', loading', num_computed_tokens')
<1> DEFINE p == kv.pool
           q == reset_prefix_cache(p)
<1>1. /\ kv' = [kv EXCEPT !.pool = q] /\ mem' = Keep(mem, kv')
      /\ tokens' = tokens /\ loading' = loading /\ num_computed_tokens' = num_computed_tokens
  BY DEF Reset
<1>2. KVInv(kv) /\ kv \in Managers /\ p \in Pools
  BY InOrder DEF SystemInv
<1>3. KVInv(kv')
  BY <1>1, <1>2, ResetManager
<1>4. NoNewHashes(p.block_hash, q.block_hash)
  <2>1. q.block_hash = [b \in Blocks |-> NoHash]
    BY <1>2 DEF reset_prefix_cache, Pools
  <2> QED BY <2>1 DEF NoNewHashes
<1> HIDE DEF q
<1>5. /\ kv'.pool = q /\ kv'.req_to_blocks = kv.req_to_blocks
      /\ kv'.num_cached_block = kv.num_cached_block
  BY <1>1, <1>2 DEF Managers
<1>6. MemState(Keep(mem, kv'), kv', tokens, loading, num_computed_tokens)
  BY <1>3, <1>4, <1>5, ForgetMem DEF SystemMem
<1> QED BY <1>1, <1>6

(* At the start nothing is computed.                                       *)
LEMMA InitMem == Init => SystemMem
<1> SUFFICES ASSUME Init PROVE SystemMem
  OBVIOUS
<1>1. /\ kv = InitManager /\ tokens = Prompt /\ num_computed_tokens = [r \in Reqs |-> 0]
      /\ loading = {} /\ mem = InitMemory
  BY DEF Init
<1>2. /\ \A b \in Blocks : kv.pool.block_hash[b] = NoHash
      /\ \A r \in Reqs : kv.req_to_blocks[r] = <<>> /\ kv.num_cached_block[r] = Untracked
  BY <1>1 DEF InitManager, InitPool
<1>3. mem \in Memories
  BY <1>1 DEF InitMemory, Memories, Stale
<1>4. HashedIsWritten(mem, kv)
  BY <1>2 DEF HashedIsWritten
<1> DEFINE done == DoneOf(kv, loading, num_computed_tokens)
<1>5. ASSUME NEW r \in Reqs
      PROVE  /\ Row(mem, kv.req_to_blocks[r], kv.num_cached_block[r], tokens[r], done[r])
             /\ RequestOK(kv, tokens, loading, num_computed_tokens, r)
  <2>1. Prompt[r] \in Seq(Nat) /\ Len(Prompt[r]) <= MaxModelLen
    BY KVCacheSystemAssumption, KVCacheManagerAssumption
  <2>2. done[r] = 0 /\ Len(kv.req_to_blocks[r]) = 0
    BY <1>1, <1>2 DEF DoneOf
  <2> HIDE DEF done
  <2>3. Row(mem, kv.req_to_blocks[r], kv.num_cached_block[r], tokens[r], done[r])
    BY <1>1, <1>2, <2>1, <2>2, RowEmpty
  <2>4. RequestOK(kv, tokens, loading, num_computed_tokens, r)
    BY <1>1, <1>2, <2>1, <2>2 DEF RequestOK, WindowOK, Reaches
  <2> QED BY <2>3, <2>4
<1> HIDE DEF done
<1>6. MemOK(mem, kv, tokens, done)
  BY <1>3, <1>4, <1>5 DEF MemOK
<1> QED BY <1>1, <1>5, <1>6 DEF SystemMem, MemState, done

(* Every action keeps what is said of the memory.                          *)
LEMMA NextMem == SystemInv /\ SystemMem /\ [Next]_vars => SystemMem'
<1> SUFFICES ASSUME SystemInv, SystemMem, [Next]_vars PROVE SystemMem'
  OBVIOUS
<1> SUFFICES MemState(mem', kv', tokens', loading', num_computed_tokens')
  BY DEF SystemMem
<1>1. ASSUME NEW r \in Reqs, NEW ext \in 0..MaxModelLen, NEW n \in 1..MaxModelLen, Start(r, ext, n)
      PROVE  MemState(mem', kv', tokens', loading', num_computed_tokens')
  BY <1>1, StartMem
<1>2. ASSUME NEW r \in Reqs, NEW ext \in 1..MaxModelLen, StartLoading(r, ext)
      PROVE  MemState(mem', kv', tokens', loading', num_computed_tokens')
  BY <1>2, StartLoadingMem
<1>3. ASSUME NEW r \in Reqs, FinishLoading(r)
      PROVE  MemState(mem', kv', tokens', loading', num_computed_tokens')
  BY <1>3, FinishLoadingMem
<1>4. ASSUME NEW r \in Reqs, NEW n \in 1..MaxModelLen, Extend(r, n)
      PROVE  MemState(mem', kv', tokens', loading', num_computed_tokens')
  BY <1>4, ExtendMem
<1>5. ASSUME NEW r \in Reqs, NEW t \in Vocab, Sample(r, t)
      PROVE  MemState(mem', kv', tokens', loading', num_computed_tokens')
  BY <1>5, SampleMem
<1>6. ASSUME NEW r \in Reqs, NEW finished \in BOOLEAN, Free(r, finished)
      PROVE  MemState(mem', kv', tokens', loading', num_computed_tokens')
  BY <1>6, FreeMem
<1>7. ASSUME NEW b \in Blocks, Evict({b})
      PROVE  MemState(mem', kv', tokens', loading', num_computed_tokens')
  <2>1. {b} \in SUBSET Blocks
    OBVIOUS
  <2> QED BY <2>1, <1>7, EvictMem
<1>8. CASE Reset
  BY <1>8, ResetMem
<1>9. CASE UNCHANGED vars
  BY <1>9 DEF vars, SystemMem
<1> QED BY <1>1, <1>2, <1>3, <1>4, <1>5, <1>6, <1>7, <1>8, <1>9 DEF Next

(* Spec => []CachedIsComputed: with every window, with eviction and with   *)
(* every connector, a block in the prefix cache holds the keys and values  *)
(* of exactly the tokens that its hash stands for.                         *)
THEOREM CachedAlwaysComputed == Spec => []CachedIsComputed
<1>1. SystemMem => CachedIsComputed
  BY DEF SystemMem, MemState, MemOK, CachedIsComputed
<1> QED BY <1>1, InitSystem, NextSystem, InitMem, NextMem, PTL DEF Spec

(* What attention looks at is in the request's own blocks.                 *)
LEMMA MemoryHoldsText ==
    ASSUME SystemInv, SystemMem, WholeWindow
    PROVE  ComputedIsInMemory
<1> SUFFICES ASSUME NEW r \in Reqs, r \notin loading,
                    NEW q \in FirstReached(num_computed_tokens[r])..num_computed_tokens[r]
             PROVE  /\ BlockIndex(q) <= Len(kv.req_to_blocks[r])
                    /\ mem[kv.req_to_blocks[r][BlockIndex(q)]][SlotOf(q)] = SubSeq(tokens[r], 1, q)
  BY DEF ComputedIsInMemory, TextIsWritten
<1> DEFINE n == num_computed_tokens[r]
           table == kv.req_to_blocks[r]
           i == BlockIndex(q)
           s == SlotOf(q)
<1>1. /\ Row(mem, table, kv.num_cached_block[r], tokens[r], n) /\ Reaches(table, n)
  <2>1. /\ RequestOK(kv, tokens, loading, num_computed_tokens, r)
        /\ Row(mem, table, kv.num_cached_block[r], tokens[r], n)
    BY DoneNumbers DEF SystemMem
  <2> QED BY <2>1 DEF RequestOK, WindowOK
<1>2. KVInv(kv) /\ n \in Nat
  BY DEF SystemInv
<1>3. table \in Seq(Blocks) /\ Len(table) \in Nat /\ BlockSize \in Nat /\ BlockSize > 0
      /\ SlidingWindow \in Nat
  BY <1>2, InOrder, KVCacheManagerAssumption
<1>4. n <= Len(table) * BlockSize /\ Len(table) * BlockSize \in Nat
  BY <1>1, <1>3, TimesMonotone DEF Row, Frontier
<1> HIDE DEF n, table
<1>5. q \in FirstReached(n)..n
  BY DEF n
<1>6. q \in Nat \ {0} /\ q <= n /\ q > get_num_skipped_tokens(n)
  <2>1. FirstReached(n) \in Nat /\ FirstReached(n) >= 1 /\ FirstReached(n) > get_num_skipped_tokens(n)
    BY <1>2, <1>3 DEF FirstReached, get_num_skipped_tokens, MaxOf
  <2>2. get_num_skipped_tokens(n) \in Nat
    BY <1>2, SkippedBlocks
  <2> QED BY <2>1, <2>2, <1>2, <1>5
<1>7. i \in Nat \ {0} /\ s \in 1..BlockSize /\ At(i, s) = q
  BY <1>6, PlaceFacts
<1>8. i <= Len(table)
  <2>1. q <= Len(table) * BlockSize
    BY <1>2, <1>4, <1>6
  <2> QED BY <2>1, <1>3, <1>6, PlaceWithin
<1> HIDE DEF i, s
<1>9. i \in 1..Len(table)
  BY <1>3, <1>7, <1>8
<1>10. i * BlockSize > get_num_skipped_tokens(n)
  <2>1. i * BlockSize \in Nat /\ q <= i * BlockSize
    BY <1>7, AtFacts
  <2>2. get_num_skipped_tokens(n) \in Nat
    BY <1>2, SkippedBlocks
  <2> QED BY <2>1, <2>2, <1>6
<1>11. table[i] # NullBlock
  BY <1>1, <1>9, <1>10 DEF Reaches
<1>12. mem[table[i]][s] = SubSeq(tokens[r], 1, q)
  BY <1>1, <1>6, <1>7, <1>9, <1>11 DEF Row, Seen
<1> QED BY <1>8, <1>12 DEF i, s, table

(* Spec => []ComputedIsInMemory, for full attention with every connector   *)
(* and for a window with one that never offers the last token: what a      *)
(* request counts as computed and attention still looks at is in the       *)
(* request's own blocks.  MCKVCacheWindowLoad.cfg shows why the hypothesis *)
(* is needed.                                                              *)
THEOREM ComputedAlwaysInMemory ==
    ASSUME SlidingWindow = 0 \/ Connector # "all"
    PROVE  Spec => []ComputedIsInMemory
<1>1. WholeWindow
  BY DEF WholeWindow
<1>2. SystemInv /\ SystemMem => ComputedIsInMemory
  BY <1>1, MemoryHoldsText
<1> QED BY <1>2, InitSystem, NextSystem, InitMem, NextMem, PTL DEF Spec
=============================================================================
