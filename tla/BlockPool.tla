----------------------------- MODULE BlockPool ------------------------------
(***************************************************************************)
(* BlockPool and BlockHashToBlockMap of vllm/v1/core/block_pool.py, as      *)
(* operations on a pool value.  The engine core is single threaded and a   *)
(* scheduler step makes several pool calls, so the callers (KVCacheManager *)
(* and, through it, Scheduler) compose these operations in one step.       *)
(*                                                                         *)
(* A pool p has                                                            *)
(*   p.free        free_block_queue, next block to evict first (a sequence; *)
(*                 module FreeKVCacheBlockQueue models the linked list)    *)
(*   p.ref_cnt     per block, how many requests hold it; the null block's   *)
(*                 count is never read and stays 0                         *)
(*   p.block_hash  per block, the hash it is cached under or NoHash        *)
(*   p.cached      cached_block_hash_to_block: from each cached hash to the *)
(*                 blocks that carry it, in insertion order                *)
(***************************************************************************)
EXTENDS Integers, Sequences, FiniteSets, SequencesExt

CONSTANTS NumBlocks,      \* num_gpu_blocks, the null block included
          EnableCaching,  \* enable_caching
          NoHash          \* a block_hash of None

ASSUME BlockPoolAssumption == NumBlocks \in Nat \ {0} /\ EnableCaching \in BOOLEAN

Blocks    == 0..(NumBlocks - 1)
NullBlock == 0              \* the block __init__ pops first

Elements(s) == {s[i] : i \in 1..Len(s)}

\* The list comprehension [b for b in s if b in S]: SelectSeq, as a recursive
\* function that the proofs can unfold.
Only(s, S) ==
    LET F[i \in 0..Len(s)] == IF i = 0 THEN <<>>
                              ELSE IF s[i] \in S THEN Append(F[i - 1], s[i])
                              ELSE F[i - 1]
    IN F[Len(s)]

\* BlockPool.__init__
InitPool == [free       |-> [i \in 1..(NumBlocks - 1) |-> i],
             ref_cnt    |-> [b \in Blocks |-> 0],
             block_hash |-> [b \in Blocks |-> NoHash],
             cached     |-> <<>>]

get_num_free_blocks(p) == Len(p.free)

-----------------------------------------------------------------------------
(* BlockHashToBlockMap *)

\* get_cached_block / get_one_block: the first block inserted under the hash.
IsCached(p, h)         == h \in DOMAIN p.cached
get_cached_block(p, h) == Head(p.cached[h])

\* insert, for each hash of the function new (hash -> block) at once.
insert(cached, new) ==
    [h \in DOMAIN cached \cup DOMAIN new |->
        IF h \notin DOMAIN cached THEN <<new[h]>>
        ELSE IF h \notin DOMAIN new \/ new[h] \in Elements(cached[h]) THEN cached[h]
        ELSE Append(cached[h], new[h])]

\* pop, for every block of S at once; a hash left without blocks disappears.
pop(cached, S) ==
    LET rest == [h \in DOMAIN cached |-> Only(cached[h], Blocks \ S)]
    IN [h \in {k \in DOMAIN rest : rest[k] # <<>>} |-> rest[h]]

-----------------------------------------------------------------------------
\* Mutant: the block forgets nothing when the map drops it.
evict_blocks_keep_hash(p, S) ==
    [p EXCEPT !.cached = pop(@, {b \in S : p.block_hash[b] # NoHash})]

\* _maybe_evict_cached_block for every block of S: a block that the map does
\* not list under its own hash keeps that hash.
evict_blocks(p, S) ==
    LET listed == {b \in S : /\ p.block_hash[b] \in DOMAIN p.cached
                             /\ b \in Elements(p.cached[p.block_hash[b]])}
    IN [p EXCEPT !.cached = pop(@, listed),
                 !.block_hash = [b \in Blocks |-> IF b \in listed THEN NoHash ELSE @[b]]]

\* The blocks get_new_blocks(n) returns, and the pool it leaves.  When fewer than
\* n blocks are free the code raises ValueError; here the caller then gets the
\* few there are, and finds its table too short.
NewBlocks(p, n) == SubSeq(p.free, 1, IF n <= Len(p.free) THEN n ELSE Len(p.free))

get_new_blocks(p, n) ==
    LET ret == Elements(NewBlocks(p, n))
        q == IF EnableCaching THEN evict_blocks(p, ret) ELSE p
    IN [q EXCEPT !.free = SubSeq(@, Cardinality(ret) + 1, Len(@)),
                 !.ref_cnt = [b \in Blocks |-> IF b \in ret THEN @[b] + 1 ELSE @[b]]]

\* Mutant: a hit block stays in the free queue.
touch_no_dequeue(p, bs) ==
    [p EXCEPT !.ref_cnt = [b \in Blocks |->
        @[b] + IF b \in Elements(bs) \ {NullBlock} THEN 1 ELSE 0]]

\* touch: one more holder; a block nobody held leaves the free queue.
touch(p, bs) ==
    LET S == Elements(bs) IN
    [p EXCEPT !.free = Only(@, Blocks \ S),
              !.ref_cnt = [b \in Blocks |->
                  @[b] + IF b = NullBlock THEN 0
                         ELSE Cardinality({i \in DOMAIN bs : bs[i] = b})]]

\* Mutant: blocks are freed whatever their count is.
free_blocks_shared(p, ordered) ==
    [p EXCEPT !.ref_cnt = [b \in Blocks |-> @[b] - IF b \in Elements(ordered) THEN 1 ELSE 0],
              !.free = @ \o Only(ordered, Blocks \ {NullBlock})]

\* free_blocks: one holder less; blocks nobody holds any more join the end of
\* the free queue in the given order, the null block never.
free_blocks(p, ordered) ==
    LET cnt == [b \in Blocks |->
                  p.ref_cnt[b] - IF b = NullBlock THEN 0
                                 ELSE Cardinality({i \in DOMAIN ordered : ordered[i] = b})]
    IN [p EXCEPT !.ref_cnt = cnt,
                 !.free = @ \o Only(ordered, {b \in Blocks \ {NullBlock} : cnt[b] = 0})]

\* cache_full_blocks: the full blocks numbered from+1 .. to of a request, as far
\* as its table goes, get the request's hashes; null blocks are skipped.
cache_full_blocks(p, hashes, bs, from, to) ==
    LET idx == {i \in (from + 1)..to : i <= Len(bs) /\ bs[i] # NullBlock}
        new == [h \in {hashes[i] : i \in idx} |->
                   bs[CHOOSE i \in idx : hashes[i] = h]]
    IN [p EXCEPT !.cached = insert(@, new),
                 !.block_hash = [b \in Blocks |->
                     IF \E i \in idx : bs[i] = b
                     THEN hashes[CHOOSE i \in idx : bs[i] = b] ELSE @[b]]]

\* reset_prefix_cache: only when no block but the null block is in use.
CanResetCache(p) == NumBlocks - get_num_free_blocks(p) = 1
reset_prefix_cache(p) ==
    [p EXCEPT !.cached = <<>>, !.block_hash = [b \in Blocks |-> NoHash]]

-----------------------------------------------------------------------------
(* What makes a pool consistent. *)

\* The free queue lists exactly the blocks nobody holds, each once, and never
\* the null block.
FreeIsUnheld(p) ==
    /\ \A i, j \in 1..Len(p.free) : p.free[i] = p.free[j] => i = j
    /\ Elements(p.free) = {b \in Blocks \ {NullBlock} : p.ref_cnt[b] = 0}

\* The hash map and the blocks' own hashes say the same.
MapMatchesHashes(p) ==
    /\ \A h \in DOMAIN p.cached :
          /\ p.cached[h] # <<>>
          /\ \A i, j \in 1..Len(p.cached[h]) : p.cached[h][i] = p.cached[h][j] => i = j
    /\ \A h \in DOMAIN p.cached : \A b \in Elements(p.cached[h]) : p.block_hash[b] = h
    /\ \A b \in Blocks : p.block_hash[b] # NoHash =>
          /\ p.block_hash[b] \in DOMAIN p.cached
          /\ b \in Elements(p.cached[p.block_hash[b]])
    /\ p.block_hash[NullBlock] = NoHash
=============================================================================
