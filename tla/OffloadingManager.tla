-------------------------- MODULE OffloadingManager -------------------------
(***************************************************************************)
(* LRUOffloadingManager (vllm/v1/kv_offload/lru_manager.py) over a          *)
(* CPUBackend (backends/cpu.py), as operations on a manager value m:       *)
(*   m.blocks   the hashes offloaded or being offloaded, least recently    *)
(*              used first (an OrderedDict)                                 *)
(*   m.ref_cnt  per hash, the loads reading its block; NotReady (-1) until  *)
(*              its store is complete                                      *)
(*   m.block_id per hash, the CPU block                                    *)
(*   m.num_allocated_blocks, m.allocated_blocks_free_list: the backend      *)
(***************************************************************************)
EXTENDS Integers, Sequences, FiniteSets, SequencesExt

CONSTANT NumCPUBlocks     \* num_blocks of the backend

NotReady == -1

New == [blocks |-> <<>>, ref_cnt |-> <<>>, block_id |-> <<>>,
        num_allocated_blocks |-> 0, allocated_blocks_free_list |-> <<>>]

Has(m, h)      == h \in DOMAIN m.ref_cnt
is_ready(m, h) == Has(m, h) /\ m.ref_cnt[h] # NotReady

\* lookup: how many of the hashes, from the first on, are ready.
lookup(m, hashes) ==
    CHOOSE n \in 0..Len(hashes) :
        /\ \A i \in 1..n : is_ready(m, hashes[i])
        /\ n < Len(hashes) => ~is_ready(m, hashes[n + 1])

\* touch: to the end of the order, the first hash last.
touch(m, hashes) ==
    LET known == SelectSeq(hashes, LAMBDA h : Has(m, h)) IN
    [m EXCEPT !.blocks = SelectSeq(@, LAMBDA h : h \notin ToSet(known)) \o Reverse(known)]

-----------------------------------------------------------------------------
(* Loads keep their blocks from being evicted. *)

prepare_load(m, hashes) ==
    [m EXCEPT !.ref_cnt = [h \in DOMAIN @ |-> IF h \in ToSet(hashes) THEN @[h] + 1 ELSE @[h]]]

\* Mutant: the block is not released.
complete_load_kept(m, S) == m

complete_load(m, S) ==
    [m EXCEPT !.ref_cnt = [h \in DOMAIN @ |-> IF h \in S THEN @[h] - 1 ELSE @[h]]]

-----------------------------------------------------------------------------
(* Stores. *)

get_num_free_blocks(m) ==
    Len(m.allocated_blocks_free_list) + NumCPUBlocks - m.num_allocated_blocks

\* The hashes of a store that are not offloaded yet.
ToStore(m, hashes) == SelectSeq(hashes, LAMBDA h : ~Has(m, h))

\* Blocks that no transfer uses, in the order in which they would go.
Evictable(m) == SelectSeq(m.blocks, LAMBDA h : m.ref_cnt[h] = 0)

Lacking(m, hashes)  == Len(ToStore(m, hashes)) - get_num_free_blocks(m)
CanStore(m, hashes) == Lacking(m, hashes) <= Len(Evictable(m))

\* The blocks to_evict leave the manager and go to the backend's free list.
Evicted(m, to_evict) ==
    LET left == DOMAIN m.ref_cnt \ ToSet(to_evict) IN
    [m EXCEPT !.blocks = SelectSeq(@, LAMBDA h : h \in left),
              !.ref_cnt = [h \in left |-> @[h]],
              !.block_id = [h \in left |-> @[h]],
              !.allocated_blocks_free_list =
                  @ \o [i \in DOMAIN to_evict |-> m.block_id[to_evict[i]]]]

\* allocate_blocks(n): fresh blocks first, then the latest ones freed.
Allocated(m, n) ==
    LET fresh == IF n <= NumCPUBlocks - m.num_allocated_blocks THEN n
                 ELSE NumCPUBlocks - m.num_allocated_blocks
        list == m.allocated_blocks_free_list
    IN [ids  |-> [i \in 1..n |-> IF i <= fresh THEN m.num_allocated_blocks + i - 1
                                 ELSE list[Len(list) - (i - fresh) + 1]],
        num  |-> m.num_allocated_blocks + fresh,
        list |-> SubSeq(list, 1, Len(list) - (n - fresh))]

\* prepare_store, when CanStore: evict what is needed, then a block that is not
\* ready for each new hash.
prepare_store(m, hashes) ==
    LET new  == ToStore(m, hashes)
        room == Evicted(m, SubSeq(Evictable(m), 1, Lacking(m, hashes)))
        a    == Allocated(room, Len(new))
        old  == DOMAIN room.ref_cnt
        Place(h) == CHOOSE i \in DOMAIN new : new[i] = h
    IN [blocks   |-> room.blocks \o new,
        ref_cnt  |-> [h \in old \cup ToSet(new) |-> IF h \in old THEN room.ref_cnt[h]
                                                    ELSE NotReady],
        block_id |-> [h \in old \cup ToSet(new) |-> IF h \in old THEN room.block_id[h]
                                                    ELSE a.ids[Place(h)]],
        num_allocated_blocks       |-> a.num,
        allocated_blocks_free_list |-> a.list]

\* complete_store: what was not ready is.
complete_store(m, S) ==
    [m EXCEPT !.ref_cnt = [h \in DOMAIN @ |-> IF h \in S /\ @[h] = NotReady THEN 0 ELSE @[h]]]
=============================================================================
