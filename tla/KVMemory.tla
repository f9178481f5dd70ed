------------------------------ MODULE KVMemory ------------------------------
(***************************************************************************)
(* The contents of the workers' KV cache memory: m[b][s] is the token       *)
(* prefix whose last token's keys and values were written to slot s of     *)
(* block b, Stale when nothing useful was.  No code of the scheduler reads *)
(* it; the properties compare the KV cache manager's bookkeeping with it.  *)
(***************************************************************************)
EXTENDS KVCacheManager

Stale == <<>>

InitMemory == [b \in Blocks |-> [s \in 1..BlockSize |-> Stale]]

\* Where the q-th token of a request goes: slot of which block of its table.
SlotOf(q) == ((q - 1) % BlockSize) + 1
BlockIndex(q) == ((q - 1) \div BlockSize) + 1

Held(k) == UNION {Elements(k.req_to_blocks[r]) : r \in Reqs}

\* Contents that no table and no hash leads to are forgotten.
Keep(m, k) ==
    [b \in Blocks |-> IF b # NullBlock /\ (b \in Held(k) \/ k.pool.block_hash[b] # NoHash)
                      THEN m[b] ELSE [s \in 1..BlockSize |-> Stale]]

\* The worker writes the tokens numbered from+1 .. to of text through table.
Written(m, table, text, from, to) ==
    [b \in Blocks |-> [s \in 1..BlockSize |->
        IF \E q \in (from + 1)..to : SlotOf(q) = s /\ table[BlockIndex(q)] = b
        THEN SubSeq(text, 1, CHOOSE q \in (from + 1)..to :
                                SlotOf(q) = s /\ table[BlockIndex(q)] = b)
        ELSE m[b][s]]]

-----------------------------------------------------------------------------
\* A block in the prefix cache holds the keys and values of exactly the tokens
\* its hash stands for.
HashedIsWritten(m, k) ==
    \A b \in Blocks : k.pool.block_hash[b] # NoHash =>
        LET h == k.pool.block_hash[b] IN
        \A s \in 1..BlockSize : m[b][s] = SubSeq(h, 1, Len(h) - BlockSize + s)

\* Attention for token number n + 1 reaches back over SlidingWindow tokens, itself
\* included, or over all of them.
FirstReached(n) == IF SlidingWindow = 0 THEN 1 ELSE MaxOf(1, n + 2 - SlidingWindow)

\* The first n tokens of text, as far as attention for the next token looks at
\* them, are in memory where r's block table says.
TextIsWritten(m, k, r, text, n) ==
    \A q \in FirstReached(n)..n :
        /\ BlockIndex(q) <= Len(k.req_to_blocks[r])
        /\ m[k.req_to_blocks[r][BlockIndex(q)]][SlotOf(q)] = SubSeq(text, 1, q)
=============================================================================
