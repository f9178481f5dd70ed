------------------------- MODULE OffloadingConnector ------------------------
(***************************************************************************)
(* Offloading of KV blocks to CPU memory: OffloadingConnectorScheduler and  *)
(* OffloadingConnectorWorker (offloading_connector.py), the LRU manager     *)
(* (module OffloadingManager) and the two copy directions of                *)
(* kv_offload/worker/cpu_gpu.py, at work in the engine's steps: schedule,  *)
(* execute, update.  The copies run beside the steps.                       *)
(*                                                                         *)
(* The KV cache manager is module KVCacheManager and mem its memory.  Of    *)
(* the scheduler (module Scheduler) only the order of its calls is kept:   *)
(* any order of admission, and whom to preempt is open.                    *)
(***************************************************************************)
EXTENDS KVMemory

CONSTANTS Prompt,         \* request -> prompt_token_ids
          MaxTokens,      \* request -> max_tokens
          BlockSizeFactor,\* block_size_factor: GPU blocks to an offloaded block
          NumCPUBlocks,   \* num_blocks of the CPU backend
          MaxChunk,       \* long_prefill_token_threshold
          MayAbort        \* requests a client may abort, unless they are loading

Manager == INSTANCE OffloadingManager

OffloadedSize == BlockSizeFactor * BlockSize
CPUBlocks     == 0..(NumCPUBlocks - 1)

ASSUME OffloadingAssumption ==
    /\ BlockSizeFactor \in Nat \ {0} /\ NumCPUBlocks \in Nat \ {0} /\ MaxChunk \in Nat \ {0}
    /\ OffloadedSize >= 2     \* a load never leaves a request with nothing computed
    /\ EnableCaching /\ SlidingWindow = 0
    /\ \A r \in Reqs : Len(Prompt[r]) + MaxTokens[r] <= MaxModelLen

VARIABLES kv, mem,
          tokens, num_computed_tokens,
          status,        \* WAITING, LOADING, RUNNING, PREEMPTED, FINISHED (blocks kept), GONE
          preempted_once,       \* num_preemptions > 0
          finished_recving,     \* finished_recving_kv_req_ids
          finished,             \* finished_req_ids
          step,          \* the engine step under way
          con,           \* OffloadingConnectorScheduler
          wrk,           \* OffloadingConnectorWorker and its transfers
          cpu            \* CPU block -> contents of its GPU-sized parts

engine == <<kv, mem, tokens, num_computed_tokens, status, preempted_once,
            finished_recving, finished>>
vars == <<engine, step, con, wrk, cpu>>

Empty == <<>>            \* the function with no argument, a dict without keys
NoStep == [phase |-> "idle", order |-> <<>>, new |-> Empty, blocks |-> Empty,
           resumed |-> {}, preempted |-> {}, finished |-> {}]

Init ==
    /\ kv = InitManager /\ mem = InitMemory
    /\ tokens = Prompt /\ num_computed_tokens = [r \in Reqs |-> 0]
    /\ status = [r \in Reqs |-> "WAITING"]
    /\ preempted_once = {} /\ finished_recving = {} /\ finished = {}
    /\ step = NoStep
    /\ con = [request_block_ids |-> Empty, reqs_to_load |-> <<>>,
              reqs_to_store |-> <<>>, next_stored_block_idx |-> Empty,
              reqs_being_stored |-> Empty, reqs_being_loaded |-> Empty,
              manager |-> Manager!New]
    /\ wrk = [unsubmitted |-> <<>>, stores |-> <<>>, loads |-> <<>>,
              stored |-> <<>>, loaded |-> {}, store_jobs |-> Empty, waiting |-> {}]
    /\ cpu = [c \in CPUBlocks |-> [i \in 1..BlockSizeFactor |-> [s \in 1..BlockSize |-> Stale]]]

Without(f, S) == [x \in DOMAIN f \ S |-> f[x]]
With(f, r, v) == (r :> v) @@ f

\* _get_block_hashes: the hashes of offloaded blocks from+1 .. to of a request, as
\* far as its tokens go.
_get_block_hashes(r, from, to) ==
    [i \in 1..(MinOf(to, Len(tokens[r]) \div OffloadedSize) - from) |->
        SubSeq(tokens[r], 1, (from + i) * OffloadedSize)]

-----------------------------------------------------------------------------
(* schedule(): the calls the scheduler makes on the connector. *)

\* get_num_new_matched_tokens touches all blocks of the request ...
TouchAll(m, r) == Manager!touch(m, _get_block_hashes(r, 0, MaxModelLen))

\* ... and offers what the CPU has beyond the n tokens the GPU has.
get_num_new_matched_tokens(r, n) ==
    LET full  == (Len(tokens[r]) \div OffloadedSize) * OffloadedSize
        start == n \div OffloadedSize
        hits  == Manager!lookup(con.manager, _get_block_hashes(r, start, MaxModelLen))
        extra == OffloadedSize * (start + hits) - n
    IN IF full - n < OffloadedSize \/ hits = 0 \/ extra < OffloadedSize THEN 0 ELSE extra

\* update_state_after_alloc: the request starts anew; with tokens to load, the CPU
\* blocks are held and the load goes with the next metadata.
update_state_after_alloc(c, k, r, external) ==
    LET table    == k.req_to_blocks[r]
        on_gpu   == Cardinality({i \in DOMAIN table : k.pool.block_hash[table[i]] # NoHash})
        start    == (on_gpu * BlockSize) \div OffloadedSize
        num      == (on_gpu * BlockSize + external) \div OffloadedSize
        hashes   == _get_block_hashes(r, start, num)
        job      == [req |-> r,
                     src |-> [i \in DOMAIN hashes |-> c.manager.block_id[hashes[i]]],
                     dst |-> SubSeq(table, on_gpu + 1, Len(table))]
        anew     == [c EXCEPT !.request_block_ids = With(@, r, <<>>)]
    IN IF external = 0 THEN anew
       ELSE [anew EXCEPT !.manager = Manager!prepare_load(@, hashes),
                         !.reqs_to_load = Append(@, job),
                         !.reqs_being_loaded = With(@, r, ToSet(hashes)),
                         !.next_stored_block_idx = With(@, r, num)]

Running   == {r \in Reqs : status[r] = "RUNNING"}
Unfinished(r) == status[r] \notin {"FINISHED", "GONE"}

BeginSchedule ==
    /\ step.phase = "idle"
    /\ finished # {} \/ \E r \in Reqs : Unfinished(r)
    /\ step' = [step EXCEPT !.phase = "running"]
    /\ UNCHANGED <<engine, con, wrk, cpu>>

NumNew(r, have) == MinOf(Len(tokens[r]) - have, MaxChunk)

RunningArgs(r) ==
    [tokens |-> tokens[r], computed |-> num_computed_tokens[r],
     new |-> NumNew(r, num_computed_tokens[r]), hit |-> <<>>, external |-> 0,
     lookahead |-> 0, delay |-> FALSE]

Unscheduled == {r \in Running : r \notin DOMAIN step.new}

Scheduled(r, n, blocks) ==
    [step EXCEPT !.order = Append(@, r), !.new = With(@, r, n), !.blocks = With(@, r, blocks)]

ScheduleRunning(r) ==
    LET a == RunningArgs(r) IN
    /\ step.phase = "running" /\ r \in Unscheduled
    /\ SlotsFit(kv, r, a)
    /\ kv' = allocate_slots(kv, r, a)
    /\ step' = Scheduled(r, a.new, SubSeq(kv'.req_to_blocks[r], Len(kv.req_to_blocks[r]) + 1,
                                          Len(kv'.req_to_blocks[r])))
    /\ mem' = Keep(mem, kv')
    /\ UNCHANGED <<tokens, num_computed_tokens, status, preempted_once, finished_recving,
                   finished, con, wrk, cpu>>

\* A running request does not get its slots: one is preempted.
Preempt(r) ==
    /\ step.phase = "running" /\ r \in Unscheduled
    /\ \E q \in Unscheduled : ~SlotsFit(kv, q, RunningArgs(q))
    /\ kv' = free(kv, r) /\ mem' = Keep(mem, kv')
    /\ status' = [status EXCEPT ![r] = "PREEMPTED"]
    /\ preempted_once' = preempted_once \cup {r}
    /\ num_computed_tokens' = [num_computed_tokens EXCEPT ![r] = 0]
    /\ step' = [step EXCEPT !.preempted = @ \cup {r}]
    /\ UNCHANGED <<tokens, finished_recving, finished, con, wrk, cpu>>

EndRunning ==
    /\ step.phase = "running" /\ Unscheduled = {}
    /\ step' = [step EXCEPT !.phase = "waiting"]
    /\ UNCHANGED <<engine, con, wrk, cpu>>

\* The waiting queue is only looked at when nobody was preempted.
LooksAtWaiting == step.phase = "waiting" /\ step.preempted = {}

\* _update_waiting_for_remote_kv: the load was reported finished.
Loaded(r) ==
    LET have == MinOf(Len(kv.req_to_blocks[r]) * BlockSize, Len(tokens[r]))
        n == IF have = Len(tokens[r]) THEN have - 1 ELSE have
    IN /\ LooksAtWaiting /\ status[r] = "LOADING" /\ r \in finished_recving
       /\ kv' = cache_blocks(kv, r, tokens[r], n) /\ mem' = Keep(mem, kv')
       /\ num_computed_tokens' = [num_computed_tokens EXCEPT ![r] = n]
       /\ status' = [status EXCEPT ![r] = IF r \in preempted_once THEN "PREEMPTED"
                                          ELSE "WAITING"]
       /\ finished_recving' = finished_recving \ {r}
       /\ UNCHANGED <<tokens, preempted_once, finished, step, con, wrk, cpu>>

\* A waiting request: local hit, connector's offer, slots, then it loads or runs.
Hit(r) == IF num_computed_tokens[r] = 0 THEN get_computed_blocks(kv, tokens[r]) ELSE <<>>

External(r) ==
    IF num_computed_tokens[r] # 0 THEN 0
    ELSE get_num_new_matched_tokens(r, Len(Hit(r)) * BlockSize)

WaitingArgs(r) ==
    LET have == num_computed_tokens[r] + Len(Hit(r)) * BlockSize
        loads == External(r) > 0
    IN [tokens |-> tokens[r], computed |-> num_computed_tokens[r],
        new |-> IF loads THEN 0 ELSE NumNew(r, have),
        hit |-> Hit(r), external |-> External(r), lookahead |-> 0, delay |-> loads]

ScheduleWaiting(r) ==
    LET a == WaitingArgs(r)
        c == IF num_computed_tokens[r] = 0 THEN [con EXCEPT !.manager = TouchAll(@, r)]
             ELSE con
    IN /\ LooksAtWaiting /\ status[r] \in {"WAITING", "PREEMPTED"}
       /\ kv' = allocate_slots(kv, r, a) /\ mem' = Keep(mem, kv')
       /\ IF ~SlotsFit(kv, r, a)
          THEN /\ con' = c
               /\ step' = [step EXCEPT !.phase = "scheduled"]
               /\ UNCHANGED <<status, num_computed_tokens>>
          ELSE /\ con' = update_state_after_alloc(c, kv', r, a.external)
               /\ IF a.delay
                  THEN /\ status' = [status EXCEPT ![r] = "LOADING"]
                       /\ UNCHANGED <<num_computed_tokens, step>>
                  ELSE /\ status' = [status EXCEPT ![r] = "RUNNING"]
                       /\ num_computed_tokens' = [num_computed_tokens EXCEPT
                                                     ![r] = TotalComputed(a)]
                       /\ step' = [Scheduled(r, a.new, kv'.req_to_blocks[r]) EXCEPT
                                      !.resumed = IF status[r] = "PREEMPTED" THEN @ \cup {r}
                                                  ELSE @]
       /\ UNCHANGED <<tokens, preempted_once, finished_recving, finished, wrk, cpu>>

-----------------------------------------------------------------------------
(* build_connector_meta *)

\* _get_reqs_to_store for one scheduled request: offer the manager the offloaded
\* blocks that this step completes.
StoreBlocks(c, r) ==
    LET ids    == (IF r \in step.resumed THEN <<>> ELSE c.request_block_ids[r])
                      \o step.blocks[r]
        num    == (num_computed_tokens[r] + step.new[r]) \div OffloadedSize
        start  == IF r \in DOMAIN c.next_stored_block_idx THEN c.next_stored_block_idx[r] ELSE 0
        hashes == _get_block_hashes(r, start, num)
        new    == Manager!ToStore(c.manager, hashes)
        m      == Manager!prepare_store(c.manager, hashes)
        noted  == [c EXCEPT !.request_block_ids = With(@, r, ids)]
        Index(h) == CHOOSE i \in DOMAIN hashes : hashes[i] = h
        job    == [req |-> r,
                   src |-> [j \in 1..(Len(new) * BlockSizeFactor) |->
                               ids[(start + Index(new[((j - 1) \div BlockSizeFactor) + 1]) - 1)
                                       * BlockSizeFactor + ((j - 1) % BlockSizeFactor) + 1]],
                   dst |-> [i \in DOMAIN new |-> m.block_id[new[i]]]]
        before == IF r \in DOMAIN c.reqs_being_stored THEN c.reqs_being_stored[r] ELSE {}
    IN IF num <= start \/ ~Manager!CanStore(c.manager, hashes) THEN noted
       ELSE IF new = <<>> THEN [noted EXCEPT !.next_stored_block_idx = With(@, r, num)]
       ELSE [noted EXCEPT !.next_stored_block_idx = With(@, r, num),
                          !.manager = Manager!touch(m, _get_block_hashes(r, 0, num)),
                          !.reqs_to_store = Append(@, job),
                          !.reqs_being_stored = With(@, r, before \cup ToSet(new))]

\* The worker will wait for the stores of preempted requests, so that they count
\* as complete; the request keeps an empty entry.
CompletePreempted(c) ==
    LET P == step.preempted \cap DOMAIN c.reqs_being_stored IN
    [c EXCEPT !.manager = Manager!complete_store(@, UNION {c.reqs_being_stored[r] : r \in P}),
              !.reqs_being_stored = [r \in DOMAIN @ |-> IF r \in P THEN {} ELSE @[r]]]

\* The order of the scheduler output: new requests, running ones, resumed ones.
OutputOrder ==
    LET IsNew(r) == step.blocks[r] = kv.req_to_blocks[r]
    IN SelectSeq(step.order, LAMBDA r : IsNew(r) /\ r \notin step.resumed)
           \o SelectSeq(step.order, LAMBDA r : ~IsNew(r) /\ r \notin step.resumed)
           \o SelectSeq(step.order, LAMBDA r : r \in step.resumed)

build_connector_meta(c) == CompletePreempted(FoldLeft(StoreBlocks, c, OutputOrder))

FinishSchedule ==
    /\ step.phase \in {"waiting", "scheduled"}
    /\ con' = build_connector_meta(con)
    /\ num_computed_tokens' = [r \in Reqs |-> num_computed_tokens[r] +
                                  IF r \in DOMAIN step.new THEN step.new[r] ELSE 0]
    /\ step' = [step EXCEPT !.phase = "execute", !.finished = finished]
    /\ finished' = {}
    /\ UNCHANGED <<kv, mem, tokens, status, preempted_once, finished_recving, wrk, cpu>>

-----------------------------------------------------------------------------
(* The worker.  Stores are put off to the beginning of the next step. *)

Submitted(w) == [w EXCEPT !.stores = @ \o w.unsubmitted, !.unsubmitted = <<>>]

\* handle_preemptions submits the stores that were put off ...
HandlePreemptions ==
    /\ step.phase = "execute" /\ step.preempted # {}
    /\ wrk' = Submitted(wrk)
    /\ step' = [step EXCEPT !.phase = "wait"]
    /\ UNCHANGED <<engine, con, cpu>>

\* ... and waits for those of the preempted requests.
StoresOf(P) == {i \in DOMAIN wrk.stores : wrk.stores[i].req \in P}

\* Mutant: nobody waits.
WaitIsOver_none == step.phase \in {"execute", "wait"}

WaitIsOver ==
    \/ step.phase = "execute" /\ step.preempted = {}
    \/ step.phase = "wait" /\ StoresOf(step.preempted) = {}

\* prepare_store_kv: the new stores wait for the next step, as jobs of their
\* requests.
prepare_store_kv(w, jobs) ==
    LET R == {jobs[i].req : i \in DOMAIN jobs} IN
    [w EXCEPT !.unsubmitted = @ \o jobs,
              !.store_jobs = [r \in DOMAIN @ \cup R |->
                                 (IF r \in DOMAIN @ THEN @[r] ELSE 0)
                                     + Cardinality({i \in DOMAIN jobs : jobs[i].req = r})]]

\* The forward pass writes the keys and values of every scheduled token.
Computed ==
    FoldLeft(LAMBDA m, r : Written(m, kv.req_to_blocks[r], tokens[r],
                                   num_computed_tokens[r] - step.new[r],
                                   num_computed_tokens[r]),
             mem, step.order)

ExecuteModel ==
    /\ WaitIsOver
    /\ wrk' = prepare_store_kv([Submitted(wrk) EXCEPT !.loads = @ \o con.reqs_to_load],
                               con.reqs_to_store)
    /\ con' = [con EXCEPT !.reqs_to_load = <<>>, !.reqs_to_store = <<>>]
    /\ mem' = Computed
    /\ step' = [step EXCEPT !.phase = "update"]
    /\ UNCHANGED <<kv, tokens, num_computed_tokens, status, preempted_once,
                   finished_recving, finished, cpu>>

\* transfer_async: each direction copies its jobs one after the other.  A part of a
\* CPU block is as large as a GPU block.
Part(job, blocks, i) == blocks[job[((i - 1) \div BlockSizeFactor) + 1]]
                              [((i - 1) % BlockSizeFactor) + 1]

CopyToCPU ==
    LET job == Head(wrk.stores)
        Place(c) == CHOOSE i \in DOMAIN job.dst : job.dst[i] = c
    IN /\ wrk.stores # <<>>
       /\ cpu' = [c \in CPUBlocks |->
                     IF c \in ToSet(job.dst)
                     THEN [i \in 1..BlockSizeFactor |->
                              mem[job.src[(Place(c) - 1) * BlockSizeFactor + i]]]
                     ELSE cpu[c]]
       /\ wrk' = [wrk EXCEPT !.stores = Tail(@), !.stored = Append(@, job.req)]
       /\ UNCHANGED <<engine, step, con>>

\* Mutant: the parts that the GPU has already are copied too.
Skipped_none(job) == 0

\* src_sub_blocks_to_skip: the parts in front that the GPU has already.
Skipped(job) == (BlockSizeFactor - (Len(job.dst) % BlockSizeFactor)) % BlockSizeFactor

CopyToGPU ==
    LET job == Head(wrk.loads)
        Place(b) == CHOOSE i \in DOMAIN job.dst : job.dst[i] = b
    IN /\ wrk.loads # <<>>
       /\ mem' = [b \in Blocks |->
                     IF b \in ToSet(job.dst) THEN Part(job.src, cpu, Place(b) + Skipped(job))
                     ELSE mem[b]]
       /\ wrk' = [wrk EXCEPT !.loads = Tail(@), !.loaded = @ \cup {job.req}]
       /\ UNCHANGED <<kv, tokens, num_computed_tokens, status, preempted_once,
                      finished_recving, finished, step, con, cpu>>

-----------------------------------------------------------------------------
(* get_finished and update_from_output *)

\* The requests with jobs after those that finished are taken off.
JobsLeft == [r \in DOMAIN wrk.store_jobs |->
                wrk.store_jobs[r] - Cardinality({i \in DOMAIN wrk.stored : wrk.stored[i] = r})]

\* Of the requests that finished earlier, those whose last store is done; of those
\* the step announces as finished, the ones with no store left.
finished_sending ==
    {r \in wrk.waiting : r \in ToSet(wrk.stored) /\ JobsLeft[r] = 0}
        \cup {r \in step.finished \cap DOMAIN JobsLeft : JobsLeft[r] = 0}

\* Mutant: a request is forgotten with its last job.
AfterReport_forgotten ==
    [wrk EXCEPT !.stored = <<>>, !.loaded = {},
                !.store_jobs = Without(JobsLeft, {r \in DOMAIN JobsLeft : JobsLeft[r] = 0}),
                !.waiting = (@ \ finished_sending)
                    \cup {r \in step.finished \cap DOMAIN JobsLeft : JobsLeft[r] > 0}]

AfterReport ==
    [wrk EXCEPT !.stored = <<>>, !.loaded = {},
                !.store_jobs = Without(JobsLeft, finished_sending),
                !.waiting = (@ \ finished_sending)
                    \cup {r \in step.finished \cap DOMAIN JobsLeft : JobsLeft[r] > 0}]

\* request_finished: True, the blocks are kept, if stores of the request are not
\* reported yet.
IsKept(c, r) == r \in DOMAIN c.reqs_being_stored

request_finished(c, S) ==
    [c EXCEPT !.request_block_ids = Without(@, S), !.next_stored_block_idx = Without(@, S)]

\* update_connector_output
update_connector_output(c, sent, received) ==
    LET stored == UNION {c.reqs_being_stored[r] : r \in sent \cap DOMAIN c.reqs_being_stored}
        loads == received \cap DOMAIN c.reqs_being_loaded
    IN [c EXCEPT !.manager = FoldLeft(LAMBDA m, r : Manager!complete_load(m,
                                                        c.reqs_being_loaded[r]),
                                      Manager!complete_store(@, stored), SetToSeq(loads)),
                 !.reqs_being_stored = Without(@, sent),
                 !.reqs_being_loaded = Without(@, received)]

\* Requests whose last known token was computed get the next one; at max_tokens
\* they stop.
Answered == {r \in DOMAIN step.new : num_computed_tokens[r] = Len(tokens[r])}
Stops(r) == Len(tokens[r]) + 1 - Len(Prompt[r]) = MaxTokens[r]
Out == 1                 \* whatever the model samples

UpdateFromOutput ==
    LET stopped == {r \in Answered : Stops(r)}
        sent    == finished_sending
        freed   == {r \in stopped : ~IsKept(con, r)}
    IN /\ step.phase = "update"
       /\ tokens' = [r \in Reqs |-> IF r \in Answered THEN Append(tokens[r], Out)
                                     ELSE tokens[r]]
       /\ con' = update_connector_output(request_finished(con, stopped), sent, wrk.loaded)
       /\ wrk' = AfterReport
       /\ status' = [r \in Reqs |-> CASE r \in freed \cup sent -> "GONE"
                                       [] r \in stopped \ freed -> "FINISHED"
                                       [] OTHER -> status[r]]
       /\ kv' = FoldLeft(free, kv, SetToSeq(freed) \o SetToSeq(sent))
       /\ mem' = Keep(mem, kv')
       /\ finished_recving' = finished_recving \cup wrk.loaded
       /\ finished' = finished \cup stopped
       /\ step' = NoStep
       /\ UNCHANGED <<num_computed_tokens, preempted_once, cpu>>

\* finish_requests, between two steps.
AbortRequest(r) ==
    /\ step.phase = "idle" /\ r \in MayAbort
    /\ status[r] \in {"WAITING", "PREEMPTED", "RUNNING"}
    /\ status' = [status EXCEPT ![r] = IF IsKept(con, r) THEN "FINISHED" ELSE "GONE"]
    /\ kv' = IF IsKept(con, r) THEN kv ELSE free(kv, r)
    /\ mem' = Keep(mem, kv')
    /\ con' = request_finished(con, {r})
    /\ finished' = finished \cup {r}
    /\ UNCHANGED <<tokens, num_computed_tokens, preempted_once, finished_recving,
                   step, wrk, cpu>>

Next ==
    \/ BeginSchedule \/ EndRunning \/ FinishSchedule
    \/ HandlePreemptions \/ ExecuteModel \/ UpdateFromOutput
    \/ CopyToCPU \/ CopyToGPU
    \/ \E r \in Reqs : \/ ScheduleRunning(r) \/ Preempt(r)
                       \/ Loaded(r) \/ ScheduleWaiting(r)
                       \/ AbortRequest(r)

Spec == Init /\ [][Next]_vars

-----------------------------------------------------------------------------
\* A CPU block that lookup offers holds the keys and values of exactly the tokens its
\* hash stands for: no load reads a block whose store is still running, and no
\* store reads GPU blocks that were given away in between.  (From build_connector_meta
\* until its wait is over, stores the worker waits for already count as complete.)
ReadyIsStored ==
    step.phase \notin {"execute", "wait"} =>
        \A h \in {x \in DOMAIN con.manager.ref_cnt : Manager!is_ready(con.manager, x)},
           i \in 1..BlockSizeFactor, s \in 1..BlockSize :
            cpu[con.manager.block_id[h]][i][s] =
                SubSeq(h, 1, Len(h) - OffloadedSize + (i - 1) * BlockSize + s)

\* Every token a request counts as computed is in the request's own GPU blocks,
\* also after a load that began in the middle of an offloaded block, and after the
\* CPU block it came from was given to others.  (Between the forward pass of one step
\* and the scheduling of the next.)
ComputedIsInMemory ==
    step.phase \in {"update", "idle"} =>
        \A r \in {x \in Reqs : status[x] \in {"RUNNING", "WAITING", "PREEMPTED"}} :
            TextIsWritten(mem, kv, r, tokens[r], num_computed_tokens[r])

\* CPU blocks are neither lost nor used twice, a block is held by exactly the loads
\* that are to read it, is not ready exactly while a request is storing it, and is
\* still there when complete_store and complete_load look it up.
OffloadAccounting ==
    LET m == con.manager
        used == {m.block_id[h] : h \in DOMAIN m.block_id}
        Loading(h) == {r \in DOMAIN con.reqs_being_loaded : h \in con.reqs_being_loaded[r]}
        Storing(h) == {r \in DOMAIN con.reqs_being_stored : h \in con.reqs_being_stored[r]}
    IN /\ ToSet(m.blocks) = DOMAIN m.ref_cnt /\ DOMAIN m.block_id = DOMAIN m.ref_cnt
       /\ Cardinality(used) = Cardinality(DOMAIN m.block_id)
       /\ used \cap ToSet(m.allocated_blocks_free_list) = {}
       /\ Cardinality(used) + Len(m.allocated_blocks_free_list) = m.num_allocated_blocks
       /\ UNION Range(con.reqs_being_stored) \subseteq DOMAIN m.ref_cnt
       /\ UNION Range(con.reqs_being_loaded) \subseteq DOMAIN m.ref_cnt
       /\ \A h \in DOMAIN m.ref_cnt :
             /\ Manager!is_ready(m, h) =>
                    Storing(h) = {} /\ m.ref_cnt[h] = Cardinality(Loading(h))
             /\ ~Manager!is_ready(m, h) => Cardinality(Storing(h)) = 1

\* A request whose blocks are kept for its stores is still going to be reported:
\* the scheduler has yet to announce it, or the worker waits for a job of it.
KeptIsReported ==
    \A r \in Reqs : status[r] = "FINISHED" =>
        \/ r \in finished
        \/ r \in step.finished
        \/ r \in wrk.waiting /\ wrk.store_jobs[r] > 0
=============================================================================
