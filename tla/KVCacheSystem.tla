--------------------------- MODULE KVCacheSystem ----------------------------
(***************************************************************************)
(* A KVCacheManager in use: requests come, hit the prefix cache, get slots *)
(* for a prefill chunk or a decoded token, wait for KV that a connector    *)
(* loads, are preempted or finish, in any order a scheduler could choose.  *)
(* The order is left open here; module Scheduler fixes it.                 *)
(*                                                                         *)
(* mem is what the worker's KV cache memory holds (module KVMemory).       *)
(***************************************************************************)
EXTENDS KVMemory

CONSTANTS Prompt,         \* request -> prompt_token_ids
          Vocab,          \* tokens the model may sample
          Lookahead,      \* num_lookahead_tokens
          Connector,      \* what a KV connector offers: "none", "blocks", "all"
          AllowEvict      \* evict_blocks is called (blocks that failed to load)

ASSUME KVCacheSystemAssumption ==
    /\ Prompt \in [Reqs -> Seq(Nat)] /\ \A r \in Reqs : Len(Prompt[r]) \in 1..MaxModelLen
    /\ Vocab \subseteq Nat
    /\ Lookahead \in Nat /\ Connector \in {"none", "blocks", "all"} /\ AllowEvict \in BOOLEAN

VARIABLES kv,
          tokens,               \* all_token_ids per request
          num_computed_tokens,
          loading,              \* requests in WAITING_FOR_REMOTE_KVS
          mem

vars == <<kv, tokens, num_computed_tokens, loading, mem>>

Init == /\ kv = InitManager
        /\ tokens = Prompt
        /\ num_computed_tokens = [r \in Reqs |-> 0]
        /\ loading = {}
        /\ mem = InitMemory

-----------------------------------------------------------------------------
Idle(r) == kv.req_to_blocks[r] = <<>>

\* The arguments of allocate_slots for a request from the waiting queue: n new
\* tokens after the local hit and ext tokens of a connector.
StartArgs(r, ext, n) ==
    [tokens |-> tokens[r], computed |-> 0, new |-> n,
     hit |-> get_computed_blocks(kv, tokens[r]), external |-> ext,
     lookahead |-> 0, delay |-> n = 0]

\* For a running request.
ExtendArgs(r, n) ==
    [tokens |-> tokens[r], computed |-> num_computed_tokens[r], new |-> n,
     hit |-> <<>>, external |-> 0, lookahead |-> Lookahead, delay |-> FALSE]

\* A connector offers whole blocks after the local hit, short of the last token,
\* or (NixlConnector) all that the request still lacks.
ExternalChoices(r) ==
    LET hit == Len(get_computed_blocks(kv, tokens[r])) * BlockSize
        lacks == Len(tokens[r]) - hit
    IN {0} \cup (IF Connector = "none" THEN {}
                 ELSE {e \in 1..(lacks - 1) : (hit + e) % BlockSize = 0})
           \cup (IF Connector = "all" THEN {lacks} ELSE {})

\* Schedule a waiting request with n tokens to compute.
Start(r, ext, n) ==
    LET a == StartArgs(r, ext, n) IN
    /\ Idle(r) /\ ext \in ExternalChoices(r)
    /\ n >= 1 /\ TotalComputed(a) + n <= Len(tokens[r])
    /\ kv' = allocate_slots(kv, r, a)
    /\ IF SlotsFit(kv, r, a)
       THEN /\ num_computed_tokens' = [num_computed_tokens EXCEPT ![r] = TotalComputed(a) + n]
            /\ mem' = Keep(Written(mem, kv'.req_to_blocks[r], tokens[r],
                                   LocalComputed(a), TotalComputed(a) + n), kv')
       ELSE mem' = Keep(mem, kv') /\ UNCHANGED num_computed_tokens
    /\ UNCHANGED <<tokens, loading>>

\* load_kv_async: slots now, contents later.
StartLoading(r, ext) ==
    LET a == StartArgs(r, ext, 0) IN
    /\ Idle(r) /\ ext \in ExternalChoices(r)
    /\ kv' = allocate_slots(kv, r, a)
    /\ loading' = IF SlotsFit(kv, r, a) THEN loading \cup {r} ELSE loading
    /\ mem' = Keep(mem, kv')
    /\ UNCHANGED <<tokens, num_computed_tokens>>

\* _update_waiting_for_remote_kv: the KV has arrived; the last token of a fully
\* loaded request is computed again.
FinishLoading(r) ==
    LET table == kv.req_to_blocks[r]
        have == MinOf(Len(table) * BlockSize, Len(tokens[r]))
        n == IF have = Len(tokens[r]) THEN have - 1 ELSE have
        local == MaxOf(kv.num_cached_block[r], 0) * BlockSize
    IN /\ r \in loading
       /\ loading' = loading \ {r}
       /\ kv' = cache_blocks(kv, r, tokens[r], n)
       /\ num_computed_tokens' = [num_computed_tokens EXCEPT ![r] = n]
       /\ mem' = Keep(Written(mem, table, tokens[r], local, have), kv')
       /\ UNCHANGED tokens

\* Schedule n more tokens of a running request.
Extend(r, n) ==
    LET a == ExtendArgs(r, n) IN
    /\ ~Idle(r) /\ r \notin loading
    /\ n >= 1 /\ num_computed_tokens[r] + n <= Len(tokens[r])
    /\ kv' = allocate_slots(kv, r, a)
    /\ IF SlotsFit(kv, r, a)
       THEN /\ num_computed_tokens' = [num_computed_tokens EXCEPT ![r] = @ + n]
            /\ mem' = Keep(Written(mem, kv'.req_to_blocks[r], tokens[r],
                                   num_computed_tokens[r], num_computed_tokens[r] + n), kv')
       ELSE mem' = Keep(mem, kv') /\ UNCHANGED num_computed_tokens
    /\ UNCHANGED <<tokens, loading>>

\* The model has computed every token of the request and samples the next.
Sample(r, t) ==
    /\ num_computed_tokens[r] = Len(tokens[r]) /\ Len(tokens[r]) < MaxModelLen
    /\ tokens' = [tokens EXCEPT ![r] = Append(@, t)]
    /\ UNCHANGED <<kv, num_computed_tokens, loading, mem>>

\* The request is preempted and keeps its tokens, or finishes and its id is
\* used again; also one that has no blocks yet.  A request that is loading keeps
\* its blocks until the KV is there.
Free(r, finished) ==
    /\ r \in kv.known /\ r \notin loading
    /\ kv' = free(kv, r)
    /\ num_computed_tokens' = [num_computed_tokens EXCEPT ![r] = 0]
    /\ tokens' = [tokens EXCEPT ![r] = IF finished THEN Prompt[r] ELSE @]
    /\ mem' = Keep(mem, kv')
    /\ UNCHANGED loading

Evict(S) ==
    /\ AllowEvict
    /\ kv' = [kv EXCEPT !.pool = evict_blocks(@, S)]
    /\ kv' # kv
    /\ mem' = Keep(mem, kv')
    /\ UNCHANGED <<tokens, num_computed_tokens, loading>>

Reset ==
    /\ CanResetCache(kv.pool)
    /\ kv' = [kv EXCEPT !.pool = reset_prefix_cache(@)]
    /\ mem' = Keep(mem, kv')
    /\ UNCHANGED <<tokens, num_computed_tokens, loading>>

Next ==
    \/ \E r \in Reqs, ext \in 0..MaxModelLen, n \in 1..MaxModelLen : Start(r, ext, n)
    \/ \E r \in Reqs, ext \in 1..MaxModelLen : StartLoading(r, ext)
    \/ \E r \in Reqs : FinishLoading(r)
    \/ \E r \in Reqs, n \in 1..MaxModelLen : Extend(r, n)
    \/ \E r \in Reqs, t \in Vocab : Sample(r, t)
    \/ \E r \in Reqs, finished \in BOOLEAN : Free(r, finished)
    \/ \E b \in Blocks : Evict({b})
    \/ Reset

Spec == Init /\ [][Next]_vars

-----------------------------------------------------------------------------
\* Reference counts never drop below zero, and a request never counts more tokens
\* as computed than it has.
TypeOK ==
    /\ kv.pool.free \in Seq(Blocks)
    /\ kv.pool.ref_cnt \in [Blocks -> Nat]
    /\ \A r \in Reqs : kv.req_to_blocks[r] \in Seq(Blocks)
    /\ \A r \in Reqs : kv.num_cached_block[r] \in {Untracked} \cup (0..MaxModelLen)
    /\ \A r \in Reqs : num_computed_tokens[r] \in 0..Len(tokens[r])
    /\ loading \subseteq Reqs

\* No block is leaked or freed while in use: reference counts are the numbers of
\* holders, and the free queue is the blocks with none.
BlockAccounting == CountsHolders(kv) /\ FreeIsUnheld(kv.pool)

\* The prefix cache map and the blocks' hashes agree at all times.
HashMapConsistent == MapMatchesHashes(kv.pool)

\* A block in the prefix cache holds the keys and values of exactly the tokens
\* its hash stands for (blocks of a load in progress are not cached early).
CachedIsComputed == HashedIsWritten(mem, kv)

\* Every token a request counts as computed, and that attention still looks at,
\* has its keys and values in the request's own table: no other request's write,
\* no eviction, no window release destroyed it.
ComputedIsInMemory ==
    \A r \in Reqs : r \notin loading =>
        TextIsWritten(mem, kv, r, tokens[r], num_computed_tokens[r])

\* The assertions of cache_full_blocks and the block_hash setter cannot fail:
\* what a request has not cached yet has no hash, also after evictions, hits on
\* duplicated blocks and preemption.
NothingCachedTwice == UncountedIsUnhashed(kv) /\ SharedInPlace(kv)

\* "If a block hash is not in the cached_block_hash_to_id, the following block
\* hashes are not computed yet for sure": a cached prefix is cached from its
\* first block on (full attention, no explicit eviction).
PrefixClosed ==
    \A h \in DOMAIN kv.pool.cached :
        Len(h) > BlockSize => IsCached(kv.pool, SubSeq(h, 1, Len(h) - BlockSize))

\* The blocks counted as common to all requests really hold the same tokens for
\* every request that has blocks (cascade attention computes them once).
CommonPrefixSound ==
    \A r, q \in Reqs : ~Idle(r) /\ ~Idle(q) =>
        LET n == get_num_common_prefix_blocks(kv, r) IN
        /\ n <= Len(kv.req_to_blocks[q])
        /\ SubSeq(kv.req_to_blocks[q], 1, n) = SubSeq(kv.req_to_blocks[r], 1, n)
=============================================================================
