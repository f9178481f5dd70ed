--------------------------- MODULE KVCacheManager ---------------------------
(***************************************************************************)
(* KVCacheManager (kv_cache_manager.py) with the unitary coordinator and   *)
(* one single-type manager (single_type_kv_cache_manager.py): full          *)
(* attention when SlidingWindow = 0, sliding window attention otherwise.   *)
(* Operations on a manager value kv:                                       *)
(*   kv.pool              the block pool                                   *)
(*   kv.req_to_blocks     the block table of each request, <<>> if it has   *)
(*                        none                                             *)
(*   kv.known             the keys of req_to_blocks, a defaultdict: reading   *)
(*                        the table of a request creates an empty one        *)
(*   kv.num_cached_block  how many of its blocks carry a hash, or Untracked *)
(*                                                                         *)
(* The hash of a request's i-th full block stands for all its tokens up to *)
(* the end of that block; it is modelled by that token sequence itself.    *)
(***************************************************************************)
EXTENDS BlockPool

CONSTANTS Reqs,           \* request ids
          BlockSize,
          MaxModelLen,    \* max_model_len
          SlidingWindow,  \* sliding_window, 0 for full attention
          UseEagle        \* use_eagle: the last hit block is recomputed

Untracked == -1           \* request_id not in num_cached_block

ASSUME KVCacheManagerAssumption ==
    /\ BlockSize \in Nat \ {0} /\ MaxModelLen \in Nat \ {0}
    /\ SlidingWindow \in Nat /\ UseEagle \in BOOLEAN
    /\ IsFiniteSet(Reqs)
    /\ NoHash = <<>>     \* what no token sequence of a full block equals

MinOf(a, b)  == IF a <= b THEN a ELSE b
MaxOf(a, b)  == IF a >= b THEN a ELSE b
cdiv(a, b) == (a + b - 1) \div b

\* Request.block_hashes: one hash per full block of the request's tokens.
block_hashes(tokens) ==
    [i \in 1..(Len(tokens) \div BlockSize) |-> SubSeq(tokens, 1, i * BlockSize)]

InitManager == [pool             |-> InitPool,
                req_to_blocks    |-> [r \in Reqs |-> <<>>],
                known            |-> {},
                num_cached_block |-> [r \in Reqs |-> Untracked]]

\* Mutant: the window is taken to be one token shorter.
get_num_skipped_tokens_late(n) ==
    IF SlidingWindow = 0 THEN 0 ELSE MaxOf(0, n - SlidingWindow + 2)

\* The tokens that attention for the next token, number n + 1, does not reach.
get_num_skipped_tokens(n) ==
    IF SlidingWindow = 0 THEN 0 ELSE MaxOf(0, n - SlidingWindow + 1)

-----------------------------------------------------------------------------
(* find_longest_cache_hit: the blocks of the longest usable cached prefix of *)
(* at most max_length tokens.                                              *)

DropLast(s, n) == SubSeq(s, 1, MaxOf(Len(s) - n, 0))

\* FullAttentionManager: from the first block up to the first miss.
FullAttentionHit(p, hashes, max_length) ==
    LET limit == MinOf(max_length \div BlockSize, Len(hashes))
        hit == CHOOSE n \in 0..limit :
                  /\ \A i \in 1..n : IsCached(p, hashes[i])
                  /\ n < limit => ~IsCached(p, hashes[n + 1])
        blocks == [i \in 1..hit |-> get_cached_block(p, hashes[i])]
    IN DropLast(blocks, IF UseEagle THEN 1 ELSE 0)

\* SlidingWindowManager: the rightmost run of enough consecutive cached blocks
\* to fill the window, null blocks before it; failing that, the cached blocks
\* at the very beginning.
SlidingWindowHit(p, hashes, max_length) ==
    LET need == cdiv(SlidingWindow - 1, BlockSize) + (IF UseEagle THEN 1 ELSE 0)
        limit == max_length \div BlockSize
        run == MaxOf(need, 1)   \* the loop tests the run after adding a block
        Ends == {e \in run..limit :
                    \A i \in (e - run + 1)..e : IsCached(p, hashes[i])}
        prefix == CHOOSE n \in 0..limit :
                    /\ \A i \in 1..n : IsCached(p, hashes[i])
                    /\ n < limit => ~IsCached(p, hashes[n + 1])
        e == CHOOSE x \in Ends : \A y \in Ends : y <= x
        blocks == IF Ends # {}
                  THEN [i \in 1..e |-> IF i > e - run THEN get_cached_block(p, hashes[i])
                                       ELSE NullBlock]
                  ELSE [i \in 1..prefix |-> get_cached_block(p, hashes[i])]
    IN DropLast(blocks, IF UseEagle THEN 1 ELSE 0)

\* get_computed_blocks: at least the last token is always recomputed.
get_computed_blocks(kv, tokens) ==
    IF ~EnableCaching THEN <<>>
    ELSE IF SlidingWindow = 0
    THEN FullAttentionHit(kv.pool, block_hashes(tokens), Len(tokens) - 1)
    ELSE SlidingWindowHit(kv.pool, block_hashes(tokens), Len(tokens) - 1)

-----------------------------------------------------------------------------
\* remove_skipped_blocks: blocks that fell out of the window are replaced by the
\* null block, from the newest to the first one already replaced, and freed in
\* that order.
remove_skipped_blocks(kv, r, total_computed) ==
    LET bs == kv.req_to_blocks[r]
        skipped == MinOf(get_num_skipped_tokens(total_computed) \div BlockSize, Len(bs))
        nulls == {i \in 1..skipped : bs[i] = NullBlock}
        last == IF nulls = {} THEN 0 ELSE CHOOSE i \in nulls : \A j \in nulls : j <= i
        removed == Reverse(SubSeq(bs, last + 1, skipped))
    IN [kv EXCEPT !.pool = free_blocks(@, removed),
                  !.req_to_blocks[r] =
                      [i \in DOMAIN bs |-> IF i \in (last + 1)..skipped THEN NullBlock
                                           ELSE bs[i]]]

\* get_num_blocks_to_allocate: new blocks, plus the hit blocks that must leave
\* the free queue.
get_num_blocks_to_allocate(kv, r, num_tokens, hit, total_computed) ==
    LET required == cdiv(num_tokens, BlockSize)
        have == Len(kv.req_to_blocks[r])
        skipped == get_num_skipped_tokens(total_computed) \div BlockSize
        evictable == {i \in (MaxOf(0, skipped - have) + 1)..Len(hit) :
                         hit[i] # NullBlock /\ kv.pool.ref_cnt[hit[i]] = 0}
    IN IF kv.num_cached_block[r] # Untracked
       THEN MaxOf(required - have, 0)
       ELSE MaxOf(required - MaxOf(skipped, Len(hit) + have), 0) + Cardinality(evictable)

\* allocate_new_computed_blocks: hold the hit blocks (null blocks stand in for
\* those outside the window), then blocks for externally computed tokens.
allocate_new_computed_blocks(kv, r, hit, local, external) ==
    IF kv.num_cached_block[r] # Untracked THEN kv
    ELSE LET total == local + external
             skipped_tokens == get_num_skipped_tokens(total)
             skipped == skipped_tokens \div BlockSize
             kept == SubSeq(hit, skipped + 1, Len(hit))
             ext == IF skipped > 0 THEN MinOf(total - skipped_tokens, external) ELSE external
             table == [i \in 1..skipped |-> NullBlock] \o kept
             touched == IF EnableCaching THEN touch(kv.pool, kept) ELSE kv.pool
             n == IF ext > 0 THEN cdiv(total, BlockSize) - Len(table) ELSE 0
         IN [kv EXCEPT !.pool = get_new_blocks(touched, n),
                       !.req_to_blocks[r] = @ \o table \o NewBlocks(touched, n),
                       !.num_cached_block[r] = Len(table)]

\* allocate_new_blocks: slots for num_tokens tokens.
allocate_new_blocks(kv, r, num_tokens) ==
    LET n == MaxOf(cdiv(num_tokens, BlockSize) - Len(kv.req_to_blocks[r]), 0)
    IN [kv EXCEPT !.pool = get_new_blocks(@, n),
                  !.req_to_blocks[r] = @ \o NewBlocks(kv.pool, n), !.known = @ \cup {r}]

\* Mutant: num_cached_block is not advanced.
cache_blocks_uncounted(kv, r, tokens, num_tokens) ==
    LET from == MaxOf(kv.num_cached_block[r], 0)
        to == num_tokens \div BlockSize
    IN IF ~EnableCaching \/ from >= to THEN kv
       ELSE [kv EXCEPT !.pool = cache_full_blocks(@, block_hashes(tokens),
                                                  kv.req_to_blocks[r], from, to)]

\* cache_blocks: hash the blocks that num_tokens tokens fill.
cache_blocks(kv, r, tokens, num_tokens) ==
    LET from == MaxOf(kv.num_cached_block[r], 0)
        to == num_tokens \div BlockSize
    IN IF ~EnableCaching \/ from >= to THEN kv
       ELSE [kv EXCEPT !.pool = cache_full_blocks(@, block_hashes(tokens),
                                                  kv.req_to_blocks[r], from, to),
                       !.num_cached_block[r] = to]

-----------------------------------------------------------------------------
(* allocate_slots for the request r: a is its arguments [tokens, computed,  *)
(* new, hit, external, lookahead, delay].  It first frees what left the    *)
(* window, then gives up (SlotsFit is FALSE) or allocates.                 *)

LocalComputed(a) == a.computed + Len(a.hit) * BlockSize
TotalComputed(a) == MinOf(LocalComputed(a) + a.external, MaxModelLen)
SlotsNeeded(a)   == MinOf(TotalComputed(a) + a.new + a.lookahead, MaxModelLen)

\* remove_skipped_blocks looks at the table of r only if n tokens exceed the window.
LooksUp(r, n) == IF get_num_skipped_tokens(n) > 0 THEN {r} ELSE {}

Trimmed(kv, r, a) ==
    [remove_skipped_blocks(kv, r, TotalComputed(a)) EXCEPT
        !.known = @ \cup LooksUp(r, TotalComputed(a))]

SlotsFit(kv, r, a) ==
    get_num_blocks_to_allocate(Trimmed(kv, r, a), r, SlotsNeeded(a), a.hit,
                               LocalComputed(a) + a.external)
        <= get_num_free_blocks(Trimmed(kv, r, a).pool)

\* Blocks for the tokens a prefix hit or a connector provides, then for the new
\* ones.
WithSlots(kv, r, a) ==
    LET trimmed == Trimmed(kv, r, a)
        prefix == IF a.hit # <<>> \/ a.external > 0
                  THEN allocate_new_computed_blocks(trimmed, r, a.hit, LocalComputed(a),
                                                    a.external)
                  ELSE trimmed
    IN allocate_new_blocks(prefix, r, SlotsNeeded(a))

\* Only tokens the request really has are hashed, never lookahead slots.
TokensToCache(a) == MinOf(TotalComputed(a) + a.new, Len(a.tokens))

\* Mutant: delay_cache_blocks is ignored.
allocate_slots_eager(kv, r, a) ==
    IF ~SlotsFit(kv, r, a) THEN Trimmed(kv, r, a)
    ELSE cache_blocks(WithSlots(kv, r, a), r, a.tokens, TokensToCache(a))

allocate_slots(kv, r, a) ==
    IF ~SlotsFit(kv, r, a) THEN Trimmed(kv, r, a)
    ELSE IF a.delay THEN WithSlots(kv, r, a)
    ELSE cache_blocks(WithSlots(kv, r, a), r, a.tokens, TokensToCache(a))

\* Mutant: the head of the table is freed first.
free_unreversed(kv, r) ==
    [kv EXCEPT !.pool = free_blocks(@, kv.req_to_blocks[r]),
               !.req_to_blocks[r] = <<>>, !.known = @ \ {r},
               !.num_cached_block[r] = Untracked]

\* Mutant: the table survives.
free_keep_table(kv, r) ==
    [kv EXCEPT !.pool = free_blocks(@, Reverse(kv.req_to_blocks[r])),
               !.num_cached_block[r] = Untracked]

\* free: the tail of the table is freed, and so evicted, first.
free(kv, r) ==
    [kv EXCEPT !.pool = free_blocks(@, Reverse(kv.req_to_blocks[r])),
               !.req_to_blocks[r] = <<>>, !.known = @ \ {r},
               !.num_cached_block[r] = Untracked]

\* Mutant: the request itself is not counted among the holders.
get_num_common_prefix_blocks_off(kv, r) ==
    LET bs == kv.req_to_blocks[r]
        others == Cardinality(kv.known \ {r})
        common == {n \in 0..Len(bs) : \A i \in 1..n : kv.pool.ref_cnt[bs[i]] >= others}
    IN CHOOSE n \in common : \A m \in common : m <= n

\* get_num_common_prefix_blocks: the leading blocks of r that as many requests
\* hold as there are tables; 0 with a sliding window.
get_num_common_prefix_blocks(kv, r) ==
    LET bs == kv.req_to_blocks[r]
        Shared(n) == \A i \in 1..n : kv.pool.ref_cnt[bs[i]] = Cardinality(kv.known)
        common == {n \in 0..Len(bs) : Shared(n)}
    IN IF SlidingWindow # 0 THEN 0
       ELSE CHOOSE n \in common : \A m \in common : m <= n

-----------------------------------------------------------------------------
(* What makes a manager consistent. *)

\* The places block b has in block tables.
Places(kv, b) ==
    UNION {{<<r, i>> : i \in {j \in 1..Len(kv.req_to_blocks[r]) :
                                 kv.req_to_blocks[r][j] = b}} : r \in Reqs}

\* A block's reference count is the number of places in block tables it has.
CountsHolders(kv) ==
    \A b \in Blocks \ {NullBlock} : kv.pool.ref_cnt[b] = Cardinality(Places(kv, b))

\* A request holds a block at most once, and a block that two requests share is
\* at the same place in both tables.
SharedInPlace(kv) ==
    \A r, q \in Reqs :
        \A i \in 1..Len(kv.req_to_blocks[r]), j \in 1..Len(kv.req_to_blocks[q]) :
            LET b == kv.req_to_blocks[r][i] IN
            b = kv.req_to_blocks[q][j] /\ b # NullBlock /\ <<r, i>> # <<q, j>> =>
                i = j /\ r # q

\* The blocks a request has not counted as cached carry no hash, so that caching
\* them later does not meet a hash (the assertion in the block_hash setter).
UncountedIsUnhashed(kv) ==
    \A r \in Reqs :
        \A i \in (MaxOf(kv.num_cached_block[r], 0) + 1)..Len(kv.req_to_blocks[r]) :
            kv.pool.block_hash[kv.req_to_blocks[r][i]] = NoHash
=============================================================================
