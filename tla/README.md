# Formal model of lopt_vllm

TLA+ specifications of the parts of this repository that decide what is
computed, when and where: the LoPT parallel tokenizer that this repository adds,
and the engine of vLLM it is built into (scheduler, KV cache manager, block pool,
KV connectors and offloading, the shared memory queue to the workers, data parallel
waves). The repository is `src/`; paths below are relative to it, `v1/` stands for
`vllm/vllm/v1/`, `core/` for `v1/core/` and `dist/` for `vllm/vllm/distributed/`.

Run a check with `tlc -config X.cfg M`, the proofs of a module with `tlapm M.tla`;
they are in the modules `*_proofs` and `KVAccounting`. `PROJECT.json`
lists the runs, the mutants that show that each property can fail, the source lines
of each definition, the hazards, the findings and the theorems.

## 1. Inventory

| Component | State | Operations | Hard because | Right when |
|---|---|---|---|---|
| Free block queue, `core/kv_cache_utils.py` | links in the block objects, a counter | popleft, popleft_n, remove, append, append_n | link surgery at front, middle and end of one list | it is a queue from whose middle one may take |
| Block pool, `core/block_pool.py` | reference counts, block hashes, hash map | get_new_blocks, touch, free_blocks, cache_full_blocks, evict, reset | a free block stays in the cache until it is reused | nothing leaks, nothing in use is freed, the map is truthful |
| KV cache manager, `core/kv_cache_manager.py`, `core/single_type_kv_cache_manager.py`, `core/kv_cache_coordinator.py` | block tables, number of cached blocks per request | get_computed_blocks, allocate_slots, cache_blocks, free, remove_skipped_blocks | sharing, windows, slots whose contents come later | what counts as computed or cached is in memory |
| Scheduler and async scheduler, `core/sched/` | queues, status and progress of requests, placeholders, transfers reported and expected | schedule, update_from_output, add, abort, preempt, reset | outputs and transfers are reported for requests that were preempted, aborted, reset or resumed in between | outputs are in order, every request finishes, limits hold, transfers use the request's own blocks |
| Request queues, `core/sched/request_queue.py` | a deque or a heap | add, pop, prepend, remove | preempted and skipped requests come back | order of the policy |
| Engine core, `v1/engine/core.py` | batches in flight | run_busy_loop, step, step_with_batch_queue | aborts while waiting for a batch | never waits for nothing |
| KV offloading, `dist/kv_transfer/kv_connector/v1/offloading_connector.py`, `v1/kv_offload/` | stores and loads per request, LRU order and reference counts of CPU blocks, transfers under way | lookup, prepare and complete of loads and stores, the copies, get_finished | copies run beside the steps; stores begin one step late; two block sizes | what is offered was stored, what was loaded is right, no block is lost |
| Shared memory broadcast, `dist/device_communicators/shm_broadcast.py` | ring of chunks with flags, sockets, indices | enqueue, dequeue, wait_until_ready | no locks | every reader gets every message once, in order |
| Data parallel waves, `v1/engine/coordinator.py`, `core.py`, `core_client.py` | wave number and running flag of each front end, engine and the coordinator | add, abort, FIRST_REQ, START_DP_WAVE, wave_complete, the collective operations | messages cross; a forward pass needs everybody | engines run together, are numbered alike, and nobody waits alone |
| LoPT tokenizer, `vllm/vllm/tokenizers/lopt_wrapper.py`, `lopt_utils.py`, `benchmarks/csrc/match_merge.cpp` | worker pool | chunk, tokenize in parallel, match, merge, fall back | tokens near a cut depend on the cut | result equals that of the serial tokenizer |
| LoPT in the server, `vllm/vllm/entrypoints/openai/serving_completion.py` | the tokenizer or None | create_completion | every fallback changes the type of the result | every acceptable text is served |
| Hybrid coordinator, encoder cache, speculative decoding, structured output, executors, output processor | see PROJECT.json | | | not modelled; section 7 |
| Models, kernels, API surface, configuration, benchmark | | | numerics and I/O | not modelled |

How they interact: the server tokenizes a prompt (LoPT when enabled) and hands a
request to the engine core over a queue. The core's single thread alternates
between reading that queue and one engine step: the scheduler forms a batch,
asking the KV cache manager for slots, which takes blocks from the pool, and the
connector for blocks that are elsewhere; the batch goes to the workers over the
shared memory queue; they execute batches in order and asynchronously, and move
blocks beside them; outputs and finished transfers come back to
`update_from_output`. There are no locks in this part: the races are between what
the scheduler knows and what batches and transfers in flight are about to report. With
data parallelism several such engines step together, and a coordinator tells them
when to begin.

## 2. Modules

| Module | Models | Notes |
|---|---|---|
| `FreeBlockQueue` | what the queue promises | abstract: a sequence and the set of blocks taken out |
| `FreeKVCacheBlockQueue` | the linked list | one action per method; `held` is the blocks outside, a history variable that supplies legal arguments |
| `FreeKVCacheBlockQueue_proofs` | | theorems: the links stay a list, and the list is the abstract queue |
| `BlockPool` | the pool as a value, its methods as operators | a scheduler step makes many pool calls in one go, so methods are functions of the pool |
| `KVCacheManager` | manager, unitary coordinator, full attention (`SlidingWindow = 0`) or sliding window manager | also values and operators. `known` is the key set of the defaultdict `req_to_blocks`, in which looking up a table creates an empty one |
| `KVAccounting`, `KVCacheManager_proofs` | | lemmas on reference counts, free list, hash map and tables; every operation of the manager keeps them in order, and leaves other requests alone |
| `KVMemory` | contents of the cache memory | external: which token prefix each slot holds. Only properties, and the copies of the offloading worker, read it |
| `KVCacheSystem` | a manager in use | start, load asynchronously, extend, sample, free, evict, reset, in any order, so that its properties hold for any scheduler |
| `KVCacheSystem_proofs` | | theorems: accounting, hash map, nothing cached twice, common prefix |
| `Scheduler` | Scheduler, AsyncScheduler, queues, engine core loop, and any KV connector | composes `KVCacheManager` and `KVMemory`; each iteration of a loop of `schedule` and of `update_from_output` is a step; `pc` says where the core is. With `HasConnector`, a request may be offered blocks at once (`sync`), in the background (`async`) or after a while (`late`); loads may fail, under either failure policy; blocks of `Sends` are kept until they are sent. What the workers notice of transfers comes with the output of a batch (`reports`, one per batch in flight), so that with several batches it is late by as many |
| `Scheduler_proofs` | | theorems: queues and statuses match, order of both policies |
| `SchedulerBlocks_proofs` | | theorems about scheduler and KV cache manager together: accounting of blocks, finished requests stay as they are, a step keeps to its limits |
| `OffloadingManager` | LRU manager and CPU backend | a value and operators |
| `OffloadingConnector` | one connector in full: its scheduler side, its worker side, the copies | composes `KVCacheManager`, `KVMemory` and `OffloadingManager`. Of the scheduler it keeps the order of calls and leaves order of admission and choice of victim open. The victim is a request that this step has not scheduled yet: with the priority policy it may be one that it has (`scheduler.py:391`), which is in `Scheduler` and the finding `priority_cache` |
| `BroadcastQueue` | what the shared memory queue promises | abstract: every reader receives what was sent, in order |
| `ShmBroadcast` | `MessageQueue` and `ShmRingBuffer` | one step per access to a flag or to data |
| `ShmBroadcast_proofs` | | theorems: unread data is intact, the ring is the abstract queue |
| `DataParallelWaves` | front ends, coordinator and engines | a request is the number of forward passes it needs; messages between any two are in order and otherwise delayed at will |
| `DataParallelWaves_proofs` | | theorems: collective operations match, waves are numbered alike |
| `LoptTokenizer` | LoPT from the request to the reply | the tokenizer is an external, nondeterministic function of the text |
| `MC...` | instances for TLC | constants only |

Abstractions. A block hash is the token prefix it stands for: a hash chain without
collisions. What the language model samples is determined by the text, so a token
of the output is its position (`Out(q)`); a wrong position is a wrong output. A
batch's effect on memory is applied when the batch is formed, since workers execute
batches in order; its tokens come later. (In `OffloadingConnector`, where copies read
the memory in between, it is applied when the batch is executed.) Pool calls that
would raise for lack of blocks return a short list, which the properties notice. KV
events, metrics and logging are left out.

In `ShmBroadcast` memory is sequentially consistent. The sum of the read flags and
their resetting are one step each: nobody else changes a read flag in the direction
that would matter.

In `DataParallelWaves` the excluded engine of `FIRST_REQ` is nobody: the front end
sends the engine's identity, which is bytes (`core_client.py:1167`), and the engine
compares it with its index. The `exclude` of a `start_wave` report is an index and
does exclude.

In `LoptTokenizer` a text is its length and a tokenization the sequence of start
offsets, all that `match` looks at; a character may be two tokens with one
offset. Cutting a text may change the tokens within `Edge` characters of a cut in any
way, and no others. Chunk and minimal tail (100) are scaled down; the threshold is the
code's. The overlap is not in proportion: the code takes an eighth of the chunk, the runs
a whole chunk (7 of 7), since it has to be at least twice `Edge` and an eighth of a chunk that
TLC can enumerate is not. `match` and `merge` work on the offsets that two
neighbours share and do not depend on how much of a chunk that is.

Operators named `<op>_<how>` with a comment saying so are mutants: plausible mistakes
that a property must detect. No specification uses them.

## 3. Runs

| Run | Question | Bounds |
|---|---|---|
| `free_block_queue` | do the links stay a list, and is it the abstract queue (refinement, `get_all_free_blocks` as the mapping) | 5 blocks: front, middle, end and both neighbours are distinct |
| `kv_cache_full` | full attention: accounting, map, memory, prefix closure, common prefix | 3 usable blocks of 2 tokens, 3 requests, two with a common prefix, at most 4 tokens: sharing, duplicates, eviction and failing allocations all occur |
| `kv_cache_window` | sliding window, eagle, lookahead slots, single evictions and a connector: nothing dropped that is still in a window, nothing cached early or twice | window of 3 tokens over blocks of 2: windows that end inside and at the end of a block |
| `scheduler_async` | AsyncScheduler: placeholders, two batches in flight | three requests in a pool of 4 usable blocks that forces preemption, prefill in chunks of 2, aborts, stop tokens, a reset. A batch may also be done at once, so one batch at a time is included |
| `scheduler_priority` | AsyncScheduler with priorities, two batches in flight, a connector and a forced reset: queues, accounting, limits, victims, whose blocks are loaded into | three requests in a pool of 3 usable blocks; arrival order opposite to priority, so that later arrivals push out earlier ones, also in a step that scheduled these; the first is loaded between steps, and may fail under either policy or be aborted meanwhile. Outputs, contents and liveness are left out, see findings. The loaded request is the least urgent one: one that a forced reset preempts waits for its load while others run, and would not be in the order of `PreemptedIsLeastUrgent` |
| `scheduler_connector` | the synchronous scheduler with a connector, one batch at a time: what is hashed, whose blocks are sent, does everybody finish | three requests that share their first block, one loaded in either way and sent at the end, one looked up late; one failing load, asynchronous with the recompute policy and synchronous with the fail policy; no abort of a loading request: the findings need the rest; pool of 5 usable blocks |
| `kv_offload` | offloading to the CPU and back | GPU blocks of one token, two to a CPU block, so that hits end inside a CPU block; 4 usable GPU blocks and 3 CPU blocks, fewer than five requests need, so that both sides evict |
| `shm_broadcast` | is the ring with its sockets the broadcast queue (refinement with liveness), does `enqueue` return | two local readers, one remote; ring of 2 chunks and 6 messages: three rounds, with large messages in a row and alone, and time limits on two |
| `dp_waves` | collective operations, wave numbers, nobody left waiting, everybody informed | 2 engines, 2 front ends, a request of one and one of two passes, the second may be aborted; an all-reduce every 2 steps: waves end between, before and after the requests |
| `lopt_lossless` | is the merge lossless, does `match` find the longest run | texts of one, two and three chunks of 7 characters; all tokenizations with tokens of one or two characters, two characters that are two tokens, all disturbances up to 3 characters from a cut; the tokenizer may be missing |

The properties are explained where they are defined. The ones to read first:
`ComputedIsInMemory` (what attention reads is there), `CachedIsComputed` (a prefix
hit returns the right data), `BlockAccounting`, `OutputInOrder`,
`PlaceholdersInFlight`, `FinishedIsFinal`, `EveryRequestFinishes`,
`LoadsIntoOwnBlocks`, `SentIsIntact`, `ReadyIsStored`, `ImplementsBroadcast`,
`WavesAgree`, `NoneLeftWaitingUnlessAborted`, `Lossless` and `MatchIsLongestRun`.

`Lossless` depends on the tokenizer. It holds when `Edge` is at most
`MismatchThres + 2` characters, so that an accepted run cannot lie within the
disturbed zone, and twice `Edge` is at most the overlap; beyond that, chunks may
agree on a long run of wrong tokens. Nothing in the code checks either, so these are
assumptions about real tokenizers.

Counters are bounded by the number of requests, their maximal tokens, `MaxResets`,
`MaxLoadFailures`, `MaxMessages` and `MaxModelLen`. `Republish` of the coordinator is bounded by what
somebody has not heard yet. No state constraint is used.

Fairness. Of the engine: the busy loop never stops while it has work, so
`EngineFairness` is weak fairness of `Engine` with its ENABLED written out
(`EngineHasWork`), which is cheaper for TLC. `WorkerFairness`, weak fairness of
`BeginUpdate`, says that a batch in flight is eventually done: the engine blocks
on the future of the oldest batch, and the executor completes or raises.
`ConnectorFairness` says that some transfer or lookup under way ends, as long as the
engine steps: a connector that never answers is outside what the scheduler can handle.
In `ShmBroadcast` the writer carries on a call it has begun and each reader keeps
reading: the busy loop of a worker does nothing but dequeue and execute; nobody is
obliged to enqueue. Nothing is assumed of clients. `DataParallelWaves` and
`OffloadingConnector` state no fairness: their properties are safety; that nobody waits
for ever is stated of the states in which nothing but a client can move (`AtRest`).

Deadlock is not checked where the system rightly stops: when all requests have been
served, all messages have been received, or all engines are paused. That
it does not stop earlier is what `EveryRequestFinishes`, `ImplementsBroadcast` and
`NoneLeftWaitingUnlessAborted` say. The other runs check for deadlock.

## 4. Findings

Each is a run that TLC finds violated; PROJECT.json quotes the text it
contradicts.

- `priority_cache`: a request that is preempted in the very step that scheduled it
  leaves hashed blocks that were never computed.
- `lopt_match_failure`: the announced fallback ends in an error response. (The array it returns
  is refused by `renderer.py:263`, where comparing it with `""` has no truth value in current
  versions of NumPy, or else by `parse.py:63`.)

Other instances of the same models that TLC finds violated. Five have a config:

- `MCKVCacheWindowLoad.cfg` (module `MCKVCacheWindow`, `ComputedIsInMemory`): with a
  sliding window and a connector that loads a whole prompt, the last token is
  recomputed (`scheduler.py:1729`) after the block its window begins in was dropped.
- `MCAbortedLoad.cfg` (`MCSchedulerPriority`, `CachedIsComputed`): `finish_requests` frees the
  blocks of a request that is aborted while the connector still loads into them
  (`scheduler.py:1492`), since connectors ask to keep blocks only for sends; another
  request gets them, fills and hashes them, and then the load overwrites them. The same
  happens when one block of an asynchronous load fails under the fail policy while the
  rest of it is under way (`scheduler.py:1275`).
- `MCAsyncReset.cfg` (`MCScheduler`, `OutputInOrder`): a forced reset sets
  `discard_latest_async_tokens` for every running request, whether or not a token of it is
  in flight (`scheduler.py:1544`). When none is, the first token after the reset is
  discarded, although it repeats nothing, and the client misses it.
- `MCAsyncResetHang.cfg` (`MCScheduler`, `EveryRequestFinishes`):
  `discard_latest_async_tokens` does not know which token it is meant for; when it
  takes one of a later batch, the request waits for ever for its placeholder
  (`async_scheduler.py:50`).
- `MCDataParallelAbort.cfg` (`MCDataParallelWaves`, `NoneLeftWaiting`): a paused engine
  gets a request of a wave that has ended, asks for the next wave and is left out of
  `START_DP_WAVE`; the request is aborted before the engine takes its next step, and
  the other engines wait in a forward pass that it does not join.

The others need only other constants:

- `OutputInOrder` with `Async = FALSE`, `BatchQueueSize = 2` and `ResetModes = {TRUE}` (the
  synchronous scheduler ignores the flag and doubles a token), and, with requests that
  resume quickly, with `BatchQueueSize = 3` (a preempted request resumes before its
  token arrives).
- `OutputInOrder` with a connector, `BatchQueueSize = 2` and a synchronous load that fails:
  `update_from_output` drops the tokens of the requests affected in the batch that reports the failure, but
  a later batch with the next chunk is already in flight, and its token is accepted (a prompt of four tokens, computed one by one).
- `CachedIsComputed` with a connector, `BatchQueueSize = 3` and two forced resets: tokens that arrive while
  the request is loading lengthen its text, and `_update_waiting_for_remote_kv` counts and hashes
  all that its blocks have room for, more than was loaded.
- `CachedIsComputed` in the connector's run when `MayFail.recompute` has `"sync"`: blocks
  of a synchronous load are hashed at once; when the load fails and the loading
  request was aborted in the meantime, nobody evicts them.
- `EveryRequestFinishes` in the connector's run with `NumBlocks = 5`, two output tokens for
  the first two requests and `Sends = {1, 3}`: a preempted request at the front of the
  queue does not fit, and the loop over the queue ends there (`scheduler.py:629`), so that a loaded
  request behind it, which holds the blocks, never runs.
- `AlwaysServed` with `Builds = {FALSE}` (`create_completion` calls None) and with
  `TextLens = {5}` (the short path passes `add_special_tokens` as `text_pair`).

The passing runs leave out what these need. A forced reset while some request is loading raises
RuntimeError after it has preempted the running ones (`scheduler.py:1554`); the model goes on from there.

Read in the code while modelling, and outside the models: a reader whose socket times out
after it has marked a chunk is one message behind from then on (`shm_broadcast.py:629`),
and buffers received out of band are views of a chunk that may be overwritten (`:627`);
`touch` of the ARC manager moves a block it has just removed (`arc_manager.py:90-93`), and
its `prepare_store` may give up after some evictions (`:162`); a forced reset preempts
requests without telling the connector (`scheduler.py:1540`); a load to the GPU does
not wait for the forward passes under way (`cpu_gpu.py:137`), which matters with
asynchronous scheduling; blocks kept for stores come back only with the output of another step;
the number that tells local from loaded blocks is that of the first
admission (`scheduler.py:1813`); the retry of the benchmark compares with a string that is
never returned (`benchmarks/run_lopt.py:213`).

## 5. Proofs

Every theorem holds for all values of the constants that satisfy the named
assumptions (`QueueAssumption`, `BlockPoolAssumption`, `KVCacheManagerAssumption`,
`KVCacheSystemAssumption`, `SchedulerAssumption`, `ShmAssumption`, `WavesAssumption`).
Most of what they say is what kind of thing a constant is (a positive number of blocks,
a finite set of requests, a policy that is one of the two). Beyond that,
`SchedulerAssumption` numbers requests in the order of arrival, has prompts of at least one token and
shorter than `max_model_len` (the front end refuses others), gives `AsyncScheduler` two batches in flight
(`multiproc_executor.py:412`), and without a connector there are no offers and no sends. With one, the number
of batches, resets, failures and aborts are as free as without. TLC evaluates each assumption on the runs.

| Theorem | States | For every |
|---|---|---|
| `QueueTypeOK`, `QueueWellLinked` | `TypeOK`, `WellLinked` of the free block queue | number of blocks |
| `QueueImplements` | `ImplementsQueue`: the linked list is the abstract queue | number of blocks |
| `BlocksAccounted` | `BlockAccounting` of `KVCacheSystem` | pool, block size, window, requests, order of calls |
| `HashMapAlwaysConsistent` | `HashMapConsistent` | the same |
| `NeverCachedTwice` | `NothingCachedTwice`: an assertion of `cache_full_blocks` cannot fail | the same |
| `CommonPrefixAlwaysSound` | `CommonPrefixSound` | the same |
| `CachedAlwaysComputed` | `CachedIsComputed` of `KVCacheSystem`: a cached block holds the tokens of its hash | the same, and any connector, lookahead and vocabulary |
| `ComputedAlwaysInMemory` | `ComputedIsInMemory` of `KVCacheSystem`: what a request counts as computed is in its own blocks | the same, with full attention or a connector that leaves the last token to be computed |
| `QueuesAlwaysMatch` | `QueuesMatchStatus` of `Scheduler` | requests, policy, batches in flight, resets, with or without connector |
| `FcfsNeverOvertakes` | `FcfsOrder` | requests and batches in flight, no connector, first come first served |
| `PriorityPreemptsTheLeastUrgent` | `PreemptedIsLeastUrgent` | the same, priority policy |
| `SchedulerAccountsForBlocks` | `BlockAccounting` of `Scheduler` | pool, block size, window, requests, policy, batches in flight, chunked prefill or not, resets of either kind, with or without connector and whatever it offers, loads, fails to load and sends, also when a loading request is aborted |
| `FinishedStaysFinal` | `FinishedIsFinal` | the same, no connector |
| `ScheduleStaysWithinLimits` | `ScheduleWithinLimits` | as for `SchedulerAccountsForBlocks`, and the limits themselves |
| `BroadcastTypeOK`, `RingIntact` | `TypeOK`, `UnreadIsIntact` of `ShmBroadcast` | readers, chunks, messages |
| `BroadcastSafety` | the safety part of `ImplementsBroadcast`: each step is a step of `BroadcastQueue` or none | the same |
| `CollectivesAlwaysMatch`, `WavesAlwaysAgree` | `CollectivesMatch`, `WavesAgree` | engines, front ends, requests |
| `BeliefsAlwaysConverge` | `BeliefsConverge` | two or more engines, front ends, requests, aborts |
| `NobodyLeftWaiting` | `NoneLeftWaitingUnlessAborted` | engines, front ends, requests |

Every inductive invariant was an invariant of a TLC run before it was proved.

**Free block queue.** `WellLinked` says that some sequence lists the free blocks; it is
not inductive without the types, so the invariant is
`IInv == TypeOK /\ \E q \in Seq(Blocks) : Represents(q)`. `Represents(q)` ties the
forward links, the backward links, the counter and the blocks outside to one
sequence `q`. For each operation the proof names the new sequence (a suffix for
`popleft` and `popleft_n`, `q` without one element for `remove`, an extension for
`append` and `append_n`) and shows that the links represent it. `popleft_n` walks the
list; that its `n` steps are the first `n` elements of `q` is a lemma. For the
refinement, `get_all_free_blocks` returns the one `q` that is represented (`ListRead`), so
that the new sequence of each operation is the next state of the abstract queue.

**KV cache.** `KVInv` is the bookkeeping of a manager: reference counts are numbers of
holders (`Counts`), the free queue lists the blocks without one, once (`FreeList`),
map and hashes agree (`MapOK`, `OffIsEmpty`). These alone are not preserved. A prefix
hit followed by `cache_blocks` could hash a block again unless blocks past
`num_cached_block` have no hash (`Unhashed`) and belong to nobody else (`Private`);
and that a table never lists a block twice rests on a block having the same place in
every table (`InPlace`), which in turn holds because its hash covers the tokens up to
the end of that place (`HashPlace`), so that a hit puts it there. Each operation of the
manager is shown to keep `KVInv` (`FreeKeeps`, `RemoveSkippedKeeps`, `AllocateSlotsKeeps`,
`CacheBlocksKeeps`, `EvictManager`, `ResetManager`), whatever the caller. `SystemInv` adds
what `KVCacheSystem` knows of its requests, and shows that calls are legal. For the common
prefix, whoever holds blocks is in the key set that the code counts (`HoldersKnown`), so that a
block with as many holders as keys is held by all, by `InPlace` at one place.

**Contents of the memory.** `SystemMem` is the invariant on top of `SystemInv`. `HashedIsWritten` is the claim
about cached blocks: slot by slot, the memory holds the prefixes of the text that the hash stands for. For the tables,
`Row` says how far the memory of a request is written (`Seen`: each slot up to that token, null blocks
excepted) and that this reaches at least to the end of what is cached (`Frontier`): without it a step
that writes the next tokens could run over a block that others share. That writing only touches blocks that
nobody else holds and that carry no hash is `Private` and `Unhashed` of `KVInv`, which is where the bookkeeping is
used. `RequestOK` has what the steps of a request need: a load under way counts no token as computed and ends
before the last token that may be sampled (`EndsBefore`), a request without blocks is not tracked, and no
text is longer than the model allows. The memory of a block that is handed out again is nobody's, so that
`get_new_blocks`, which takes its hash first, cannot break a row. Under a window a hit may begin with
null blocks; `WindowOK` and `Reaches` say that no block that attention still looks at is one of
them. This is where the hypothesis of `ComputedAlwaysInMemory` enters: after a load of a whole prompt the code
takes the last token back, and with a window the block that the shorter prefix needs may be gone
already (`MCKVCacheWindowLoad.cfg`, section 4). `CachedAlwaysComputed` needs no hypothesis.

**Scheduler.** `QueueInv` is `Match` (each request is in the queue its status says, once)
and `Loop` (the local variables of `schedule` and `update_from_output` at each `pc`: who
is the current request, whom the skipped list holds, who is in the copy of `running`
that is walked). A late output must be for a request that has arrived and, if it
stops, be removed from the queue that it is in at that moment: `BatchInv`. With it every
action is a `QueueStep`: a move of one request or a group between queues, which says
nothing of blocks or tokens. The two orders are proved of `QueueStep`. For first come
first served, `InLine` says that running requests followed by waiting ones are in
order of arrival, and `InOrderOfArrival` that a new one has the largest number; the victim
of a preemption is the last that runs, and goes to the front. For the priority policy the heap
is in order, and who is preempted is less urgent than every running request. Both need `NoTransfer`: without
a connector nobody waits for a transfer. With a connector a request whose blocks are being
loaded rightly lets others pass, so that neither order is promised.

**Scheduler and blocks.** `BlockInv` puts `QueueInv`, `BatchInv` and the manager's `KVInv` together
with what makes every call of the manager legal and says who may hold blocks. `Rightful`: nobody has
computed more tokens than it has or expects (`Bounded`: with placeholders for tokens in flight when it runs,
without when it waits), and who has blocks runs, or is finished and sends them, or waits with a
connector and its blocks are counted in `num_cached_block` (`MayHold`). That count matters: a request with blocks but
without it would be given a prefix hit on top of them. `Picked`: what `schedule` has picked belongs to
running requests and stays within their tokens. For first come first served this holds because the
victim is the last of `running` while everything picked is before `req_index` (`Passed`); for the priority policy
because a victim that was picked is taken out again. `Quiet`, a part of `MayHold`, says
that a waiting request whose blocks have been loaded is in no batch in flight: a token that still arrived for it could
end it, or lengthen it, while it waits to go on with those blocks. With one batch at a time that is plain; with several, a request may be preempted while
batches with it are in flight, be offered a load and wait for it, all before the last of them is processed. It stays
in `WAITING_FOR_REMOTE_KVS` until the load is reported, and `LoadInv` says why that is late enough: the report of a load comes with a batch no older
than the youngest when the load ended (`Paired`: one report per batch), and batches are processed in order, so that
once the report is read every batch that may name the request has been (`Told`). `Told` follows a load through its
stations (under way, reported with a batch in flight, with the batch being processed, known to the scheduler) and says of each which batches may still name
the request; `NextLoads` shows it for every action. `TokenInv`: batches bring tokens. Each action is then shown to leave the requests it
does not name as they were (`Others`) and those it names as they should be (`Allowed`), `LoseBlocks` and
`FallBack` being what the two recursive functions `AllFreed` and `AllAffected` do. `FinishedIsFinal` follows:
without a connector nothing is ever in `sending`, so that `IsGone` recognizes every finished request. With a
connector it is not claimed: an aborted request whose blocks are being sent still accepts the token in flight.

**Limits of a step.** `LimitInv` is the invariant of `ScheduleWithinLimits` on top of `BlockInv`. `Budget` says that what is
scheduled and what is left of the budget add up; what `TotalTokens` makes of an appended, and of a removed, element are
lemmas (`TotalOfAppend`, `TotalOfRest`). That nobody is scheduled twice, also under the priority policy, where the
loop steps back when a victim is taken out, rests on `Entries`: whoever is scheduled has its place in front of `req_index`, so
that stepping back by one after that place closed up lands behind everybody who is left (`StillPassed`). A victim
in front of the loop that was not scheduled moves the loop past one request, which loses its turn in this step but breaks
no limit; this is why `Allocating` only says that the current request is at `req_index` or before it. That at
least one token is scheduled needs that requests which run have computed less than `max_model_len`, else the cap
of `schedule` at that length could ask for nothing or for a negative number: `Short`, which `check_stop` maintains by ending a
request at that length (`StopStatus`), and `Worth`, the cap itself.

**Shared memory broadcast.** `RingInv` says where writer and readers are: the indices agree
with the numbers of messages (`IndicesAgree`), the flags of a chunk tell who has yet to read it
(`FlagsTellUnread`), an unread chunk holds its message (`UnreadHoldsMessage`), and what
a process between two accesses has already seen still holds: a writer that saw all flags set may
write, since only it can reset them, and a reader that saw an unread chunk may read,
since the writer waits for it. For the refinement, `QueueInv` adds what the sockets hold and that
what a reader has received is a prefix of what was sent.

**Data parallel waves.** `InStep`: the step counters of all engines are always equal, are 0 at
the all-reduce, and engines enter it together; hence nobody is in a forward pass then. `WaveInv`:
some number `W` is the current wave, engines are at `W` or, when running down the previous
all-reduce, still at `W - 1`, and no message under way nor any belief names a later one.

The other two theorems speak of states in which every message has arrived, so the invariants behind them say which
message is on its way until then. `Coming` is the wave that runs, or comes when the engines are paused; it changes
when the result of an all-reduce is that nobody has requests (`Ends`). For `BeliefsAlwaysConverge`: a front end that
has read everything agrees with the coordinator, or has just sent it a note (`Beliefs`); the report of a wave that
ended is on its way as long as the coordinator does not know (`Reported`); a wave that the
coordinator has started has an engine that runs or a start message on its way to one (`StartedGoes`). The last needs a
second engine, since the start message excludes the one that asked. The code starts a coordinator only for more than
one rank (`needs_dp_coordinator`).

For `NobodyLeftWaiting`, `CallInv` follows a call from the engine that has something to do (`Awake`) to all
others: if an engine is awake, the wave has been called for (`Called`), that is, the coordinator has started it, or a note
of a front end or an engine's question is on its way to it; once it is started every engine is awake or has a
start message to read (`Told`); an engine that asks is awake, so that it need not be told; a request of the coming
wave that is under way has been called for too. Three facts support it: a request is added once, to the engine it was
sent to (`AddsOnce`); an engine votes for the end of a wave only when it has no requests, and has none until it acts on the result
(`VotesTrue`); a start message for the coming wave means that the coordinator has started it (`StartsKnown`). An abort breaks
`CallInv`, since the engine that asked may fall asleep again and is not told (finding in section 4): hence
`SomeAborted \/ CallInv`.

Induction. The provers have no induction over data; the proofs use that a non-empty set of natural
numbers has a least element (`LeastElement`), which the library's well-foundedness of the naturals gives
without an operator parameter, and argue about a least counterexample. That a recursive
function such as `AllFreed` or `InsertAll` satisfies its equation is derived in the same way
(`RecursionExists`).

What the proofs found in the model: the two arms of the CASE with which `insert` put a request into
the heap overlapped when a request is compared with itself, and so did those of `Sampled`; TLC takes the first,
the semantics leaves the choice open. Both now are exclusive. `placeholders`
could not be shown to be non-negative without the code's own condition, which is now a guard.

Only model-checked, and why:

- liveness (`EveryRequestFinishes`, `ImplementsBroadcast` beyond safety, `AlwaysServed`) and ENABLED: out of the prover's
  reach;
- `CachedIsComputed` and `SentIsIntact` of `Scheduler`, `LoadsIntoOwnBlocks`, `PrefixClosed`, and `ReadyIsStored` and
  `ComputedIsInMemory` of `OffloadingConnector`: the same kind of argument as for `KVCacheSystem`, over many more
  intermediate states;
- `PlaceholdersInFlight`: cardinalities over all batches in flight, each of which changes when a request leaves or is
  reset;
- `OutputInOrder`: for every batch in flight, which position its token has, after any discarded tokens;
- `Lossless` and `MatchIsLongestRun`: recursion over the text and the tokens.

## 6. Plan

Prove next, in this order:

1. `OffloadAccounting`: lemmas on `Evicted`, `Allocated` and `prepare_store`;
2. the type invariants of `KVCacheSystem` and `Scheduler`;
3. `CachedIsComputed` of `Scheduler` with the lemmas on memory that `KVCacheSystem_proofs` has.

## 7. Not modelled, and why

- The ARC manager, the hybrid coordinator, chunked local attention, mamba, cross attention
  and sink managers: variants of modelled components with their own state; several cache
  groups in one pool need instances that TLC does not finish.
- Encoder cache, speculative decoding, structured output, LoRA limits, pooling: further inputs
  of `schedule`. Each multiplies the states of `Scheduler`; each would need an instance of its own.
- Transfer libraries behind the connectors (nixl, mooncake, lmcache): external. Their interface is
  in `Scheduler`.
- Executors, worker death, start-up, shutdown, elastic scaling: processes and signals; the
  code's reaction is to stop.
- Output processor and front end streams, HTTP surface, command line, configuration: parsing and
  I/O around the engine client.
- Models, kernels, quantization: numerics, and by far the largest part of the source; no
  control state that a model checker could explore.
- A tokenizer worker that dies: `pool.map` then never returns; the code has no reaction to model.
- The benchmark: a sequential retry loop around measurements.
