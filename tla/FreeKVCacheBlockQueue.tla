----------------------- MODULE FreeKVCacheBlockQueue ------------------------
(***************************************************************************)
(* FreeKVCacheBlockQueue of vllm/v1/core/kv_cache_utils.py: the free blocks *)
(* of the pool as a doubly linked list threaded through the blocks'        *)
(* prev_free_block and next_free_block fields, between a fake head and a   *)
(* fake tail.  The caller (BlockPool) is the environment: it only puts back *)
(* blocks it holds and only removes blocks it does not hold.               *)
(***************************************************************************)
EXTENDS Integers, Sequences, FiniteSets

CONSTANTS NumBlocks,          \* num_gpu_blocks
          FakeHead, FakeTail, \* the two sentinels
          None                \* Python's None

Blocks == 0..(NumBlocks - 1)
Nodes  == Blocks \cup {FakeHead, FakeTail}

ASSUME QueueAssumption ==
    /\ NumBlocks \in Nat
    /\ FakeHead \notin Blocks /\ FakeTail \notin Blocks
    /\ None \notin Nodes /\ FakeHead # FakeTail

VARIABLES prev_free_block, next_free_block,  \* the links, per node
          num_free_blocks,                   \* the queue's own count
          held                               \* what the caller has taken out

vars == <<prev_free_block, next_free_block, num_free_blocks, held>>

TypeOK ==
    /\ prev_free_block \in [Nodes -> Nodes \cup {None}]
    /\ next_free_block \in [Nodes -> Nodes \cup {None}]
    /\ num_free_blocks \in Nat
    /\ held \subseteq Blocks

-----------------------------------------------------------------------------
\* The links that chain the sequence q between the two sentinels.
PrevIn(q, i) == IF i = 1 THEN FakeHead ELSE q[i - 1]
NextIn(q, i) == IF i = Len(q) THEN FakeTail ELSE q[i + 1]

\* __init__: the blocks in the order of their ids, between the sentinels.
Init ==
    /\ num_free_blocks = NumBlocks
    /\ prev_free_block = [x \in Nodes |->
          CASE x = FakeHead -> None
            [] x = FakeTail -> IF NumBlocks = 0 THEN FakeHead ELSE NumBlocks - 1
            [] OTHER -> IF x = 0 THEN FakeHead ELSE x - 1]
    /\ next_free_block = [x \in Nodes |->
          CASE x = FakeTail -> None
            [] x = FakeHead -> IF NumBlocks = 0 THEN FakeTail ELSE 0
            [] OTHER -> IF x = NumBlocks - 1 THEN FakeTail ELSE x + 1]
    /\ held = {}

\* popleft: unlinks the first block; an empty list raises and changes nothing.
popleft ==
    LET first == next_free_block[FakeHead]
        second == next_free_block[first]
    IN /\ first \notin {FakeTail, None}
       /\ second # None
       /\ next_free_block' = [next_free_block EXCEPT ![FakeHead] = second,
                                                     ![first] = None]
       /\ prev_free_block' = [prev_free_block EXCEPT ![second] = FakeHead,
                                                     ![first] = None]
       /\ num_free_blocks' = num_free_blocks - 1
       /\ held' = held \cup {first}

\* The node the walk of popleft_n stands on after i steps from the head.
Walk(n) ==
    LET w[i \in 0..n] == IF i = 0 THEN FakeHead
                         ELSE IF w[i - 1] = None THEN None
                         ELSE next_free_block[w[i - 1]]
    IN w

\* popleft_n: walks over the first n blocks, clearing their links as it goes,
\* then joins the head to the block the walk ended on.
popleft_n(n) ==
    /\ n > 0 /\ num_free_blocks >= n
    /\ LET w == Walk(n)
           curr == next_free_block[w[n]]
           popped == {w[i] : i \in 1..n}
           Unlink(f) == [x \in Nodes |-> IF x \in popped THEN None ELSE f[x]]
       IN /\ None \notin popped
          /\ IF curr # None
             THEN /\ next_free_block' = [Unlink(next_free_block) EXCEPT ![FakeHead] = curr]
                  /\ prev_free_block' = [Unlink(prev_free_block) EXCEPT ![curr] = FakeHead]
             ELSE /\ next_free_block' = Unlink(next_free_block)
                  /\ prev_free_block' = Unlink(prev_free_block)
          /\ held' = held \cup popped
    /\ num_free_blocks' = num_free_blocks - n

\* Mutant: the successor keeps pointing back at the removed block.
remove_one_way(b) ==
    /\ b \notin held /\ prev_free_block[b] # None /\ next_free_block[b] # None
    /\ next_free_block' = [next_free_block EXCEPT
           ![prev_free_block[b]] = next_free_block[b], ![b] = None]
    /\ prev_free_block' = [prev_free_block EXCEPT ![b] = None]
    /\ num_free_blocks' = num_free_blocks - 1
    /\ held' = held \cup {b}

\* remove: unlinks a block from the middle; a block that is not linked raises.
remove(b) ==
    LET p == prev_free_block[b]
        n == next_free_block[b]
    IN /\ b \notin held
       /\ p # None /\ n # None
       /\ next_free_block' = [next_free_block EXCEPT ![p] = n, ![b] = None]
       /\ prev_free_block' = [prev_free_block EXCEPT ![n] = p, ![b] = None]
       /\ num_free_blocks' = num_free_blocks - 1
       /\ held' = held \cup {b}

\* Mutant: the count is not kept.
append_uncounted(b) ==
    LET last == prev_free_block[FakeTail]
    IN /\ b \in held /\ last # None
       /\ next_free_block' = [next_free_block EXCEPT ![last] = b, ![b] = FakeTail]
       /\ prev_free_block' = [prev_free_block EXCEPT ![FakeTail] = b, ![b] = last]
       /\ held' = held \ {b}
       /\ UNCHANGED num_free_blocks

\* Mutant: the block joins the front.
append_front(b) ==
    LET first == next_free_block[FakeHead]
    IN /\ b \in held /\ first # None
       /\ next_free_block' = [next_free_block EXCEPT ![FakeHead] = b, ![b] = first]
       /\ prev_free_block' = [prev_free_block EXCEPT ![first] = b, ![b] = FakeHead]
       /\ num_free_blocks' = num_free_blocks + 1
       /\ held' = held \ {b}

\* append: links a block in front of the fake tail.
append(b) ==
    LET last == prev_free_block[FakeTail]
    IN /\ b \in held
       /\ last # None
       /\ next_free_block' = [next_free_block EXCEPT ![last] = b, ![b] = FakeTail]
       /\ prev_free_block' = [prev_free_block EXCEPT ![FakeTail] = b, ![b] = last]
       /\ num_free_blocks' = num_free_blocks + 1
       /\ held' = held \ {b}

IndexIn(bs, x) == CHOOSE i \in 1..Len(bs) : bs[i] = x

\* append_n: chains a list of distinct blocks after the last one.
append_n(bs) ==
    LET last == prev_free_block[FakeTail]
        n == Len(bs)
        added == {bs[i] : i \in 1..n}
    IN /\ n > 0 /\ added \subseteq held
       /\ last # None
       /\ next_free_block' = [x \in Nodes |->
             IF x \in added THEN NextIn(bs, IndexIn(bs, x))
             ELSE IF x = last THEN bs[1] ELSE next_free_block[x]]
       /\ prev_free_block' = [x \in Nodes |->
             IF x = bs[1] THEN last
             ELSE IF x \in added THEN bs[IndexIn(bs, x) - 1]
             ELSE IF x = FakeTail THEN bs[n] ELSE prev_free_block[x]]
       /\ num_free_blocks' = num_free_blocks + n
       /\ held' = held \ added

\* The lists of distinct blocks the caller may hand back at once.
ListsOf(S) == {bs \in [1..Cardinality(S) -> S] :
                  \A i, j \in DOMAIN bs : bs[i] = bs[j] => i = j}

Next ==
    \/ popleft
    \/ \E n \in 1..NumBlocks : popleft_n(n)
    \/ \E b \in Blocks : remove(b) \/ append(b)
    \/ \E S \in SUBSET held : \E bs \in ListsOf(S) : append_n(bs)

Spec == Init /\ [][Next]_vars

-----------------------------------------------------------------------------
\* get_all_free_blocks: from the head, follow next_free_block until a node
\* without a successor, the fake tail.
get_all_free_blocks ==
    LET N == Cardinality(Nodes)
        w == Walk(N)
        end == CHOOSE i \in 1..N : /\ next_free_block[w[i]] = None
                                   /\ \A j \in 1..(i - 1) : next_free_block[w[j]] # None
    IN [i \in 1..(end - 1) |-> w[i]]

\* The sequence q is what the links spell out, in both directions, and nothing
\* else is linked.
Represents(q) ==
    /\ \A i, j \in 1..Len(q) : q[i] = q[j] => i = j
    /\ {q[i] : i \in 1..Len(q)} = Blocks \ held
    /\ num_free_blocks = Len(q)
    /\ \A i \in 1..Len(q) : /\ prev_free_block[q[i]] = PrevIn(q, i)
                            /\ next_free_block[q[i]] = NextIn(q, i)
    /\ next_free_block[FakeHead] = IF Len(q) = 0 THEN FakeTail ELSE q[1]
    /\ prev_free_block[FakeTail] = IF Len(q) = 0 THEN FakeHead ELSE q[Len(q)]
    /\ next_free_block[FakeTail] = None /\ prev_free_block[FakeHead] = None
    /\ \A b \in held : prev_free_block[b] = None /\ next_free_block[b] = None

\* Whatever the pool pops, removes from the middle and gives back, in any
\* order, the prev and next links stay two readings of one list of exactly the
\* blocks not handed out, num_free_blocks is its length ("out of sync with the
\* free list" never happens) and blocks handed out keep no link into it, so
\* remove() on a listed block and popleft_n(n <= num_free_blocks) never raise.
WellLinked ==
    \E n \in 0..NumBlocks : \E q \in [1..n -> Blocks] : Represents(q)

Promise == INSTANCE FreeBlockQueue WITH queue <- get_all_free_blocks

\* The linked list implements the sequence of free blocks: each operation of
\* FreeKVCacheBlockQueue, seen through get_all_free_blocks, takes from the
\* front, takes from the middle or puts back at the end, in order.
ImplementsQueue == Promise!ASpec
=============================================================================
