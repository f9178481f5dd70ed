--------------------------- MODULE FreeBlockQueue ---------------------------
(***************************************************************************)
(* What the queue of free KV-cache blocks promises: a sequence of distinct *)
(* blocks in eviction order.  Blocks leave at the front or, when a cached  *)
(* block is hit again, from anywhere in the middle; they come back at the  *)
(* end.  vllm/v1/core/kv_cache_utils.py implements it as a doubly linked   *)
(* list threaded through the blocks; module FreeKVCacheBlockQueue models   *)
(* that list and is checked to implement this specification.               *)
(***************************************************************************)
EXTENDS Integers, Sequences, SequencesExt

CONSTANT NumBlocks   \* num_gpu_blocks

Blocks == 0..(NumBlocks - 1)

VARIABLES queue,   \* the free blocks, next to be evicted first
          held     \* the blocks the pool has handed out

avars == <<queue, held>>

AInit == queue = [i \in 1..NumBlocks |-> i - 1] /\ held = {}

Take(n) ==
    /\ n \in 1..Len(queue)
    /\ held' = held \cup {queue[i] : i \in 1..n}
    /\ queue' = SubSeq(queue, n + 1, Len(queue))

TakeFromMiddle(i) ==
    /\ i \in 1..Len(queue)
    /\ held' = held \cup {queue[i]}
    /\ queue' = RemoveAt(queue, i)

PutBack(bs) ==
    /\ Len(bs) > 0
    /\ held' = held \ {bs[i] : i \in 1..Len(bs)}
    /\ queue' = queue \o bs

ANext ==
    \/ \E n \in 1..NumBlocks : Take(n)
    \/ \E i \in 1..NumBlocks : TakeFromMiddle(i)
    \/ \E n \in 1..NumBlocks : \E bs \in [1..n -> held] :
           (\A i, j \in 1..n : bs[i] = bs[j] => i = j) /\ PutBack(bs)

ASpec == AInit /\ [][ANext]_avars
=============================================================================
