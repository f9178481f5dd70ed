----------------------------- MODULE Scheduler ------------------------------
(***************************************************************************)
(* Scheduler and AsyncScheduler (vllm/v1/core/sched/) driven by the busy    *)
(* loop of EngineCore (vllm/v1/engine/core.py), over KVCacheManager.        *)
(*                                                                         *)
(* One call of schedule() is several steps, one per iteration of its loops *)
(* (pc "running", "alloc", "waiting", "finish"); so is one call of          *)
(* update_from_output (pc "output").  Nothing else happens in between: the *)
(* engine core is single threaded.  Client requests come in between calls  *)
(* (pc "idle"), aborts also while the core waits for a batch (pc "await").  *)
(*                                                                         *)
(* BatchQueueSize batches may be in flight: 1 for step(), more for          *)
(* step_with_batch_queue (2 with asynchronous scheduling, the pipeline     *)
(* depth otherwise).  The workers execute batches in order, so the effect  *)
(* of a batch on mem is applied when it is formed.                          *)
(*                                                                         *)
(* With a KV connector a request may get the KV of a prefix from elsewhere: *)
(* loaded within the step, or asynchronously, waiting in state             *)
(* WAITING_FOR_REMOTE_KVS; blocks may fail to load; and the blocks of a    *)
(* finished request may have to stay until they are sent.  The connector   *)
(* itself is the interface of kv_connector/v1/base.py: any answer and any  *)
(* order of completions that it allows.                                    *)
(***************************************************************************)
EXTENDS KVMemory

CONSTANTS Prompt,                   \* request -> prompt_token_ids
          MaxTokens,                \* request -> sampling_params.max_tokens
          Priority,                 \* request -> priority, smaller is first
          Policy,                   \* "fcfs" or "priority"
          Async,                    \* AsyncScheduler instead of Scheduler
          BatchQueueSize,           \* max_concurrent_batches
          MaxNumScheduledTokens,    \* max_num_scheduled_tokens
          MaxNumRunningReqs,        \* max_num_running_reqs
          LongPrefillThreshold,     \* long_prefill_token_threshold, 0 is none
          EnableChunkedPrefill,     \* enable_chunked_prefill
          MayAbort,                 \* requests a client may abort
          MayEos,                   \* requests that may end before max_tokens
          ResetModes,               \* values of reset_running_requests in use
          MaxResets,                \* bound on calls of reset_prefix_cache
          HasConnector,             \* a KV connector is configured
          Offers,                   \* request -> what the connector has for it:
                                    \* "sync", "async", "late" (asks for time first)
          Sends,                    \* requests whose blocks the connector sends
          MayFail,                  \* kv_load_failure_policy -> the loads, "sync" or
                                    \* "async", some blocks of which may fail
          MaxLoadFailures,          \* bound on the blocks that fail to load
          AbortLoading              \* aborts may hit a request that is loading

ASSUME SchedulerAssumption ==
    /\ Reqs = 1..Cardinality(Reqs)   \* numbered in the order of arrival
    /\ Policy \in {"fcfs", "priority"} /\ Async \in BOOLEAN
    /\ BatchQueueSize \in Nat \ {0} /\ (Async => BatchQueueSize = 2)
    /\ MaxNumScheduledTokens \in Nat \ {0} /\ MaxNumRunningReqs \in Nat \ {0}
    /\ LongPrefillThreshold \in Nat /\ EnableChunkedPrefill \in BOOLEAN
    /\ Prompt \in [Reqs -> Seq(Nat)] /\ Priority \in [Reqs -> Int]
    /\ \A r \in Reqs : MaxTokens[r] >= 1 /\ Len(Prompt[r]) \in 1..(MaxModelLen - 1)
    /\ MayAbort \subseteq Reqs /\ MayEos \subseteq Reqs
    /\ ResetModes \subseteq BOOLEAN /\ MaxResets \in Nat
    /\ \A r \in Reqs : Offers[r] \subseteq {"sync", "async", "late"}
    /\ Sends \subseteq Reqs /\ MaxLoadFailures \in Nat /\ AbortLoading \in BOOLEAN
    /\ DOMAIN MayFail \subseteq {"recompute", "fail"} /\ DOMAIN MayFail # {}
    /\ HasConnector \in BOOLEAN
    /\ ~HasConnector => Sends = {} /\ \A r \in Reqs : Offers[r] = {}

VARIABLES status,                   \* RequestStatus; NEW before add_request
          waiting, running,         \* the queues, sequences of requests
          tokens,                   \* all_token_ids
          num_computed_tokens,
          num_output_placeholders,
          discard_latest_async_tokens,
          num_cached_tokens,        \* -1 until the request is first scheduled
          num_preemptions,          \* 0 or 1: only whether there were any counts
          load_failure_policy,      \* the configuration, which never changes
          finished_req_ids,
          kv, mem,
          pc,
          req_index, token_budget,  \* locals of schedule()
          current,                  \* request and num_new_tokens being allocated
          scheduled,                \* num_scheduled_tokens, in insertion order
          preempted,                \* preempted_reqs is not empty
          skipped,                  \* skipped_waiting_requests
          inflight,                 \* batch_queue, oldest first
          output,                   \* what update_from_output has left to do
          num_resets,
          finished_recving,         \* finished_recving_kv_req_ids
          failed_recving,           \* failed_recving_kv_req_ids
          failed,                   \* failed_kv_load_req_ids of update_from_output
          sending,                  \* finished requests that still have their blocks
          answered,                 \* requests the connector can tell about
          loads,                    \* asynchronous loads in progress
          reports,                  \* KVConnectorOutput of each batch in flight: requests
                                    \* recved and sent, blocks invalid
          report,                   \* the one that update_from_output is at
          num_load_failures

requests == <<status, tokens, num_computed_tokens, num_output_placeholders,
              discard_latest_async_tokens>>
history  == <<num_cached_tokens, num_preemptions, load_failure_policy>>
queues   == <<waiting, running>>
locals   == <<req_index, token_budget, current, scheduled, preempted, skipped>>
remote   == <<finished_recving, failed_recving, failed, sending, answered, loads, reports,
              report, num_load_failures>>
vars == <<requests, history, queues, finished_req_ids, kv, mem, pc, locals, inflight,
          output, num_resets, remote>>

Nobody  == [req |-> 0, n |-> 0, external |-> 0]
NoToken == 0
Nothing == [recved |-> {}, sent |-> {}, invalid |-> {}]

\* The token at position q of a request's output.  What the model samples is
\* determined by the text so far; only the position matters here.
Out(q) == 100 + q

Init ==
    /\ status = [r \in Reqs |-> "NEW"]
    /\ waiting = <<>> /\ running = <<>>
    /\ tokens = Prompt
    /\ num_computed_tokens = [r \in Reqs |-> 0]
    /\ num_output_placeholders = [r \in Reqs |-> 0]
    /\ discard_latest_async_tokens = [r \in Reqs |-> FALSE]
    /\ finished_req_ids = {}
    /\ kv = InitManager /\ mem = InitMemory
    /\ pc = "idle"
    /\ req_index = 1 /\ token_budget = 0 /\ current = Nobody
    /\ scheduled = <<>> /\ preempted = FALSE
    /\ inflight = <<>> /\ output = <<>>
    /\ num_resets = 0
    /\ num_cached_tokens = [r \in Reqs |-> -1] /\ num_preemptions = [r \in Reqs |-> 0]
    /\ load_failure_policy \in DOMAIN MayFail
    /\ skipped = <<>>
    /\ finished_recving = {} /\ failed_recving = {} /\ failed = {} /\ sending = {}
    /\ answered = {r \in Reqs : "late" \notin Offers[r]}
    /\ loads = {} /\ reports = <<>> /\ report = Nothing /\ num_load_failures = 0

-----------------------------------------------------------------------------
(* Request queues: FCFSRequestQueue and PriorityRequestQueue. *)

\* Request.__lt__; requests are numbered in the order of arrival.
Before(r, q) == Priority[r] < Priority[q] \/ (Priority[r] = Priority[q] /\ r < q)

Insert(q, r) == Only(q, {x \in Reqs : Before(x, r)}) \o <<r>>
                    \o Only(q, {x \in Reqs : Before(r, x)})

\* The requests of s inserted one after the other.
InsertAll(q, s) ==
    LET F[i \in 0..Len(s)] == IF i = 0 THEN q ELSE Insert(F[i - 1], s[i]) IN F[Len(s)]

\* Mutants: a preempted request queues up at the end, or is lost; what was skipped
\* is lost.
prepend_last(q, r) == Append(q, r)
prepend_lost(q, r) == q
prepend_requests_lost(q, s) == q

add_to(q, r)  == IF Policy = "fcfs" THEN Append(q, r) ELSE Insert(q, r)
prepend(q, r) == IF Policy = "fcfs" THEN <<r>> \o q ELSE Insert(q, r)
Without(q, r) == Only(q, Reqs \ {r})

\* prepend_requests: what was skipped goes back where it was.
prepend_requests(q, s) == IF Policy = "fcfs" THEN s \o q ELSE InsertAll(q, s)

IsFinished(r) == status[r] \in {"FINISHED_STOPPED", "FINISHED_LENGTH_CAPPED",
                                "FINISHED_ABORTED", "FINISHED_ERROR"}
IsLoading(r)  == status[r] = "WAITING_FOR_REMOTE_KVS"

has_requests == Len(waiting) + Len(running) > 0 \/ finished_req_ids # {}

-----------------------------------------------------------------------------
(* Between steps: _process_input_queue handles client requests. *)

\* add_request
AddRequest(r) ==
    /\ pc = "idle" /\ Len(inflight) < BatchQueueSize
    /\ status[r] = "NEW" /\ \A q \in 1..(r - 1) : status[q] # "NEW"
    /\ status' = [status EXCEPT ![r] = "WAITING"]
    /\ waiting' = add_to(waiting, r)
    /\ UNCHANGED <<tokens, num_computed_tokens, num_output_placeholders,
                   discard_latest_async_tokens, history, running, finished_req_ids, kv, mem,
                   pc, locals, inflight, output, num_resets, remote>>

\* The queues without r, which its status says where to find.
RemoveFromQueue(r) ==
    /\ running' = IF status[r] = "RUNNING" THEN Without(running, r) ELSE running
    /\ waiting' = IF status[r] = "RUNNING" THEN waiting ELSE Without(waiting, r)

\* request_finished: the connector asks to keep the blocks of a request until
\* they are sent.
SendsLater(k, r) == r \in Sends /\ ~IsLoading(r) /\ k.req_to_blocks[r] # <<>>

\* Mutant: the blocks are freed at once.
_free_request_now(k, r, n) ==
    /\ kv' = free(k, r) /\ mem' = Keep(mem, kv')
    /\ sending' = IF SendsLater(k, r) THEN sending \cup {r} ELSE sending
    /\ finished_req_ids' = finished_req_ids \cup {r}

\* _connector_finished, and unless it keeps the blocks _free_blocks; k is the
\* manager that the call finds, n the number of tokens of r.
_free_request(k, r, n) ==
    LET handed == IF HasConnector THEN remove_skipped_blocks(k, r, n) ELSE k
    IN /\ kv' = IF SendsLater(k, r) THEN handed ELSE free(handed, r)
       /\ mem' = Keep(mem, kv')
       /\ sending' = IF SendsLater(k, r) THEN sending \cup {r} ELSE sending
       /\ finished_req_ids' = finished_req_ids \cup {r}

\* finish_requests(r, FINISHED_ABORTED): from the input queue, or from the aborts
\* queue just before an output is processed.
AbortRequest(r) ==
    /\ pc \in {"idle", "await"} /\ r \in MayAbort
    /\ status[r] # "NEW" /\ ~IsFinished(r)
    /\ IsLoading(r) => AbortLoading
    /\ status' = [status EXCEPT ![r] = "FINISHED_ABORTED"]
    /\ RemoveFromQueue(r)
    /\ _free_request(kv, r, Len(tokens[r]))
    /\ UNCHANGED <<tokens, num_computed_tokens, num_output_placeholders,
                   discard_latest_async_tokens, history, pc, locals, inflight, output,
                   num_resets, finished_recving, failed_recving, failed, answered, loads,
                   reports, report, num_load_failures>>

\* The pool after preempting all running requests, the last one first.
AllFreed_none == kv   \* mutant: the blocks are kept
AllFreed ==
    LET n == Len(running)
        F[i \in 0..n] == IF i = 0 THEN kv ELSE free(F[i - 1], running[n + 1 - i])
    IN F[n]

\* reset_prefix_cache(reset_running_requests = force): the last running request
\* goes back to the waiting queue first, so that they keep their order there.
ResetPrefixCache(force) ==
    LET S == IF force THEN Elements(running) ELSE {}
        freed == IF force THEN AllFreed ELSE kv
    IN /\ pc = "idle" /\ Len(inflight) < BatchQueueSize
       /\ num_resets < MaxResets /\ num_resets' = num_resets + 1
       /\ status' = [r \in Reqs |-> IF r \in S THEN "PREEMPTED" ELSE status[r]]
       /\ num_computed_tokens' =
              [r \in Reqs |-> IF r \in S THEN 0 ELSE num_computed_tokens[r]]
       /\ num_output_placeholders' =
              [r \in Reqs |-> IF r \in S THEN 0 ELSE num_output_placeholders[r]]
       /\ discard_latest_async_tokens' =
              [r \in Reqs |-> r \in S \/ discard_latest_async_tokens[r]]
       /\ waiting' = IF force THEN prepend_requests(waiting, running) ELSE waiting
       /\ running' = IF force THEN <<>> ELSE running
       /\ kv' = IF CanResetCache(freed.pool)
                THEN [freed EXCEPT !.pool = reset_prefix_cache(@)] ELSE freed
       /\ mem' = Keep(mem, kv')
       /\ num_preemptions' = [r \in Reqs |-> IF r \in S THEN 1 ELSE num_preemptions[r]]
       /\ UNCHANGED <<tokens, num_cached_tokens, load_failure_policy, finished_req_ids, pc,
                      locals, inflight, output, remote>>

-----------------------------------------------------------------------------
(* schedule() *)

BeginSchedule ==
    /\ pc = "idle" /\ has_requests /\ Len(inflight) < BatchQueueSize
    /\ pc' = "running"
    /\ req_index' = 1 /\ token_budget' = MaxNumScheduledTokens
    /\ UNCHANGED <<requests, history, queues, finished_req_ids, kv, mem, current, scheduled,
                   preempted, skipped, inflight, output, num_resets, remote>>

Capped(n) == IF 0 < LongPrefillThreshold /\ LongPrefillThreshold < n
             THEN LongPrefillThreshold ELSE n

\* The previous step has certainly reached max_tokens.
AtMaxTokens(r) ==
    /\ num_output_placeholders[r] > 0
    /\ num_computed_tokens[r] + 2 - num_output_placeholders[r]
           >= Len(Prompt[r]) + MaxTokens[r]

NumNewTokens(r) ==
    MinOf(MinOf(Capped(Len(tokens[r]) + num_output_placeholders[r] - num_computed_tokens[r]),
                token_budget),
          MaxModelLen - 1 - num_computed_tokens[r])

InRunningLoop == pc = "running" /\ req_index <= Len(running) /\ token_budget > 0

SkipRunning ==
    /\ InRunningLoop
    /\ AtMaxTokens(running[req_index]) \/ NumNewTokens(running[req_index]) = 0
    /\ req_index' = req_index + 1
    /\ UNCHANGED <<requests, history, queues, finished_req_ids, kv, mem, pc, token_budget,
                   current, scheduled, preempted, skipped, inflight, output, num_resets,
                   remote>>

PickRunning ==
    LET r == running[req_index] IN
    /\ InRunningLoop
    /\ ~AtMaxTokens(r) /\ NumNewTokens(r) # 0
    /\ current' = [req |-> r, n |-> NumNewTokens(r), external |-> 0]
    /\ pc' = "alloc"
    /\ UNCHANGED <<requests, history, queues, finished_req_ids, kv, mem, req_index,
                   token_budget, scheduled, preempted, skipped, inflight, output, num_resets,
                   remote>>

RunningArgs(r, n) ==
    [tokens |-> tokens[r], computed |-> num_computed_tokens[r], new |-> n, hit |-> <<>>,
     external |-> 0, lookahead |-> 0, delay |-> FALSE]

ScheduleRunning ==
    LET r == current.req
        a == RunningArgs(r, current.n)
    IN /\ pc = "alloc"
       /\ SlotsFit(kv, r, a)
       /\ kv' = allocate_slots(kv, r, a) /\ mem' = Keep(mem, kv')
       /\ scheduled' = Append(scheduled, current)
       /\ token_budget' = token_budget - current.n
       /\ req_index' = req_index + 1
       /\ current' = Nobody
       /\ pc' = "running"
       /\ UNCHANGED <<requests, history, queues, finished_req_ids, preempted, skipped,
                      inflight, output, num_resets, remote>>

Victim_last == running[Len(running)]   \* mutant: priorities are ignored

\* The request to preempt: the last running one, or the one of lowest priority.
Victim == IF Policy = "fcfs" THEN running[Len(running)]
          ELSE CHOOSE v \in Elements(running) : \A x \in Elements(running) : ~Before(v, x)

IsScheduled(r) == \E i \in DOMAIN scheduled : scheduled[i].req = r
ScheduledTokens(r) ==
    IF IsScheduled(r)
    THEN scheduled[CHOOSE i \in DOMAIN scheduled : scheduled[i].req = r].n ELSE 0

\* A victim that this step had scheduled already is taken out of it again.
Undo_never(v) == FALSE   \* mutant
Undo(v) == Policy = "priority" /\ IsScheduled(v)

\* The victim gives back its blocks and waits to be computed from the start.
_preempt_request(k, v) ==
    /\ kv' = free(k, v) /\ mem' = Keep(mem, kv')
    /\ status' = [status EXCEPT ![v] = "PREEMPTED"]
    /\ num_computed_tokens' = [num_computed_tokens EXCEPT ![v] = 0]
    /\ num_preemptions' = [num_preemptions EXCEPT ![v] = 1]
    /\ waiting' = prepend(waiting, v)

\* allocate_slots gave up: preempt the victim and try again, unless the victim is
\* the request itself.
Preempt ==
    LET r == current.req
        v == Victim
        a == RunningArgs(r, current.n)
        undo == Undo(v)
    IN /\ pc = "alloc"
       /\ ~SlotsFit(kv, r, a)
       /\ _preempt_request(Trimmed(kv, r, a), v)
       /\ running' = Without(running, v)
       /\ preempted' = TRUE
       /\ scheduled' = IF undo THEN Only(scheduled, {x \in Elements(scheduled) : x.req # v})
                     ELSE scheduled
       /\ token_budget' = token_budget + IF undo THEN ScheduledTokens(v) ELSE 0
       /\ req_index' = req_index - IF undo THEN 1 ELSE 0
       /\ pc' = IF v = r THEN "finish" ELSE "alloc"
       /\ current' = IF v = r THEN Nobody ELSE current
       /\ UNCHANGED <<tokens, num_output_placeholders, discard_latest_async_tokens,
                      num_cached_tokens, load_failure_policy, finished_req_ids, skipped,
                      inflight, output, num_resets, remote>>

EndRunning ==
    /\ pc = "running" /\ ~InRunningLoop
    /\ pc' = IF preempted THEN "finish" ELSE "waiting"
    /\ UNCHANGED <<requests, history, queues, finished_req_ids, kv, mem, locals, inflight,
                   output, num_resets, remote>>

(* The loop over the waiting requests. *)

\* What get_num_new_matched_tokens may answer after a local hit of n blocks: no
\* tokens, or whole blocks short of the last token, or asynchronously everything.
NoOffer == [external |-> 0, async |-> FALSE]
Answers(r, n) ==
    LET lacks == Len(tokens[r]) - n * BlockSize
        whole == {e \in 1..(lacks - 1) : e % BlockSize = 0}
    IN {NoOffer}
       \cup (IF "sync" \in Offers[r] THEN [external : whole, async : {FALSE}] ELSE {})
       \cup (IF "async" \in Offers[r] THEN [external : whole \cup {lacks}, async : {TRUE}]
             ELSE {})

\* Mutant: blocks are cached while they are still being loaded.
WaitingArgs_eager(r, o) ==
    LET hit == IF num_computed_tokens[r] = 0 THEN get_computed_blocks(kv, tokens[r]) ELSE <<>>
        base == num_computed_tokens[r] + Len(hit) * BlockSize + o.external
    IN [tokens |-> tokens[r], computed |-> num_computed_tokens[r],
        new |-> IF o.async THEN 0 ELSE MinOf(Capped(Len(tokens[r]) - base), token_budget),
        hit |-> hit, external |-> o.external, lookahead |-> 0, delay |-> FALSE]

\* The waiting request's arguments for allocate_slots.
WaitingArgs(r, o) ==
    LET hit == IF num_computed_tokens[r] = 0 THEN get_computed_blocks(kv, tokens[r]) ELSE <<>>
        base == num_computed_tokens[r] + Len(hit) * BlockSize + o.external
    IN [tokens |-> tokens[r], computed |-> num_computed_tokens[r],
        new |-> IF o.async THEN 0 ELSE MinOf(Capped(Len(tokens[r]) - base), token_budget),
        hit |-> hit, external |-> o.external, lookahead |-> 0, delay |-> o.async]

\* Without chunked prefill a request that exceeds the budget ends the loop.
PrefillFits(r, a) == \/ EnableChunkedPrefill \/ a.delay
                     \/ Capped(Len(tokens[r]) - TotalComputed(a)) <= token_budget

LooksAtWaiting == /\ pc = "waiting" /\ waiting # <<>> /\ token_budget > 0
                  /\ Len(running) # MaxNumRunningReqs

\* Mutant: a request that is loading is taken for ready.
Skips_unreported(r) == ~IsLoading(r) /\ num_computed_tokens[r] = 0 /\ r \notin answered

\* The request is passed over: its KV is still on the way, or the connector needs
\* more time to tell what it has.
Skips(r) == IF IsLoading(r) THEN r \notin finished_recving
            ELSE num_computed_tokens[r] = 0 /\ r \notin answered

SkipWaiting ==
    /\ LooksAtWaiting /\ Skips(waiting[1])
    /\ skipped' = Append(skipped, waiting[1])
    /\ waiting' = Tail(waiting)
    /\ UNCHANGED <<requests, history, running, finished_req_ids, kv, mem, pc, req_index,
                   token_budget, current, scheduled, preempted, inflight, output, num_resets,
                   remote>>

\* The tokens that a request has after its load: those in the blocks it was given,
\* but the last token is computed again.
LoadedTokens(r) ==
    LET n == MinOf(Len(kv.req_to_blocks[r]) * BlockSize, Len(tokens[r]))
    IN IF n = Len(tokens[r]) THEN n - 1 ELSE n

\* Mutant: what failed to load is taken for loaded.
AfterLoad_all(r) == [kv |-> cache_blocks(kv, r, tokens[r], LoadedTokens(r)),
                     computed |-> LoadedTokens(r)]

\* The manager and num_computed_tokens after a load; after a failed one, with the
\* tokens before the failure or from the start.
AfterLoad(r) ==
    CASE r \notin failed_recving -> [kv |-> cache_blocks(kv, r, tokens[r], LoadedTokens(r)),
                                     computed |-> LoadedTokens(r)]
      [] r \in failed_recving /\ num_computed_tokens[r] > 0 ->
             [kv |-> cache_blocks(kv, r, tokens[r], num_computed_tokens[r]),
              computed |-> num_computed_tokens[r]]
      [] OTHER -> [kv |-> free(kv, r), computed |-> 0]

\* _update_waiting_for_remote_kv; the iteration goes on with the request.
_update_waiting_for_remote_kv ==
    LET r == waiting[1] IN
    /\ LooksAtWaiting /\ IsLoading(r) /\ ~Skips(r)
    /\ kv' = AfterLoad(r).kv /\ mem' = Keep(mem, kv')
    /\ num_computed_tokens' = [num_computed_tokens EXCEPT ![r] = AfterLoad(r).computed]
    /\ status' = [status EXCEPT ![r] = IF num_preemptions[r] > 0 THEN "PREEMPTED"
                                       ELSE "WAITING"]
    /\ failed_recving' = failed_recving \ {r}
    /\ finished_recving' = finished_recving \ {r}
    /\ UNCHANGED <<tokens, num_output_placeholders, discard_latest_async_tokens, history,
                   queues, finished_req_ids, pc, locals, inflight, output, num_resets, failed,
                   sending, answered, loads, reports, report, num_load_failures>>

\* The loop gets as far as asking for slots for the first waiting request, for
\* which the connector has the offer o.
Considers(o) ==
    LET r == waiting[1] IN
    /\ LooksAtWaiting /\ ~IsLoading(r) /\ ~Skips(r)
    /\ o \in IF num_computed_tokens[r] = 0 THEN Answers(r, Len(WaitingArgs(r, o).hit))
             ELSE {NoOffer}

AsksForSlots(o) == Considers(o) /\ PrefillFits(waiting[1], WaitingArgs(waiting[1], o))

CanAdmit(o) == AsksForSlots(o) /\ SlotsFit(kv, waiting[1], WaitingArgs(waiting[1], o))

ScheduleWaiting(o) ==
    LET r == waiting[1]
        a == WaitingArgs(r, o)
    IN /\ CanAdmit(o) /\ ~o.async
       /\ kv' = allocate_slots(kv, r, a) /\ mem' = Keep(mem, kv')
       /\ waiting' = Tail(waiting)
       /\ running' = Append(running, r)
       /\ status' = [status EXCEPT ![r] = "RUNNING"]
       /\ num_computed_tokens' = [num_computed_tokens EXCEPT ![r] = TotalComputed(a)]
       /\ num_cached_tokens' =
              [num_cached_tokens EXCEPT ![r] = IF @ < 0 THEN TotalComputed(a) ELSE @]
       /\ scheduled' = Append(scheduled, [req |-> r, n |-> a.new, external |-> o.external])
       /\ token_budget' = token_budget - a.new
       /\ UNCHANGED <<tokens, num_output_placeholders, discard_latest_async_tokens,
                      num_preemptions, load_failure_policy, finished_req_ids, pc, req_index,
                      current, preempted, skipped, inflight, output, num_resets, remote>>

\* load_kv_async: the request gets blocks and waits until they are loaded.
LoadWaiting(o) ==
    LET r == waiting[1]
        a == WaitingArgs(r, o)
    IN /\ CanAdmit(o) /\ o.async
       /\ kv' = allocate_slots(kv, r, a) /\ mem' = Keep(mem, kv')
       /\ loads' = loads \cup {[req |-> r, blocks |-> kv'.req_to_blocks[r], bad |-> {},
                                from |-> LocalComputed(a), to |-> TotalComputed(a)]}
       /\ status' = [status EXCEPT ![r] = "WAITING_FOR_REMOTE_KVS"]
       /\ waiting' = Tail(waiting)
       /\ skipped' = Append(skipped, r)
       /\ UNCHANGED <<tokens, num_computed_tokens, num_output_placeholders,
                      discard_latest_async_tokens, history, running, finished_req_ids, pc,
                      req_index, token_budget, current, scheduled, preempted, inflight,
                      output, num_resets, finished_recving, failed_recving, failed, sending,
                      answered, reports, report, num_load_failures>>

\* The loop ends: there is nothing to look at, or the first waiting request does
\* not fit, perhaps because allocate_slots has given up.
EndWaiting(o) ==
    /\ pc = "waiting"
    /\ IF LooksAtWaiting THEN Considers(o) /\ ~CanAdmit(o) ELSE o = NoOffer
    /\ kv' = IF AsksForSlots(o) THEN allocate_slots(kv, waiting[1], WaitingArgs(waiting[1], o))
             ELSE kv
    /\ waiting' = prepend_requests(waiting, skipped) /\ skipped' = <<>>
    /\ pc' = "finish"
    /\ UNCHANGED <<requests, history, running, finished_req_ids, mem, req_index, token_budget,
                   current, scheduled, preempted, inflight, output, num_resets, remote>>

-----------------------------------------------------------------------------
(* The batch. *)

\* All the tokens of r that the workers know: the scheduler's and those that
\* batches in flight are sampling.
WorkerText(r) ==
    tokens[r] \o [i \in 1..num_output_placeholders[r] |-> Out(Len(tokens[r]) + i)]

\* The workers sample for a request all of whose tokens are computed, from what m
\* holds once the batch is written.
BadToken == 99
Sampled_always(m, r) ==   \* mutant: also in the middle of a prefill
    Out(num_computed_tokens[r] + ScheduledTokens(r) + 1)
Sampled(m, r) ==
    LET n == num_computed_tokens[r] + ScheduledTokens(r) IN
    IF n < Len(WorkerText(r)) THEN NoToken
    ELSE IF TextIsWritten(m, kv, r, WorkerText(r), n) THEN Out(n + 1)
    ELSE BadToken

Batch(m) == [i \in DOMAIN scheduled |->
                [req |-> scheduled[i].req, token |-> Sampled(m, scheduled[i].req)]]

\* Blocks into which this batch loads.
SyncBlocks ==
    UNION {{kv.req_to_blocks[x.req][BlockIndex(q)] :
               q \in (num_computed_tokens[x.req] - x.external + 1)..num_computed_tokens[x.req]}
           : x \in Elements(scheduled)}

\* Some blocks hold nothing useful.
Spoiled(m, bad) == [b \in Blocks |-> IF b \in bad THEN [s \in 1..BlockSize |-> Stale]
                                     ELSE m[b]]

\* Each request of the batch loads the tokens a connector has, but for the blocks
\* bad, and writes its scheduled tokens: what it computes from keys and values that
\* are not there is of no use either.
WriteScheduled(m, x, bad) ==
    LET table == kv.req_to_blocks[x.req]
        text == WorkerText(x.req)
        n == num_computed_tokens[x.req]
        loaded == Spoiled(Written(m, table, text, n - x.external, n), bad)
    IN IF TextIsWritten(loaded, kv, x.req, text, n)
       THEN Written(loaded, table, text, n, n + x.n)
       ELSE Written(loaded, table, [i \in 1..(n + x.n) |-> BadToken], n, n + x.n)

\* AsyncScheduler expects a token from a request whose known tokens and
\* placeholders are all computed after this step.
ExpectsToken_always(r) == Async /\ IsScheduled(r)   \* mutant
ExpectsToken(r) ==
    /\ Async /\ IsScheduled(r)
    /\ num_computed_tokens[r] + ScheduledTokens(r)
           = Len(tokens[r]) + num_output_placeholders[r]

\* Of Scheduler and of AsyncScheduler.
_update_after_schedule ==
    /\ num_computed_tokens' = [r \in Reqs |-> num_computed_tokens[r] + ScheduledTokens(r)]
    /\ num_output_placeholders' =
           [r \in Reqs |-> num_output_placeholders[r] + IF ExpectsToken(r) THEN 1 ELSE 0]
    /\ finished_req_ids' = {}

\* The end of schedule() and the execution of the batch; bad are blocks that fail
\* to load.  The core then waits for the oldest batch when the queue is full or
\* the new batch is empty, or when that batch happens to be done already.
FinishSchedule(bad) ==
    /\ pc = "finish"
    /\ bad \subseteq (IF "sync" \in MayFail[load_failure_policy] THEN SyncBlocks ELSE {})
    /\ num_load_failures' = num_load_failures + Cardinality(bad)
    /\ num_load_failures' <= MaxLoadFailures
    /\ _update_after_schedule
    /\ mem' = Keep(FoldLeft(LAMBDA m, x : WriteScheduled(m, x, bad), mem, scheduled), kv)
    /\ inflight' = Append(inflight, Batch(mem'))
    /\ reports' = Append(reports, [Nothing EXCEPT !.invalid = bad])
    /\ \/ pc' = "await"
       \/ /\ scheduled # <<>> /\ Len(inflight) + 1 < BatchQueueSize
          /\ pc' = "idle"
    /\ req_index' = 1 /\ token_budget' = 0 /\ scheduled' = <<>> /\ preempted' = FALSE
    /\ UNCHANGED <<status, tokens, discard_latest_async_tokens, history, queues, kv, current,
                   skipped, output, num_resets, finished_recving, failed_recving, failed,
                   sending, answered, loads, report>>

\* Nothing to schedule, but batches in flight.
AwaitLast ==
    /\ pc = "idle" /\ ~has_requests /\ inflight # <<>>
    /\ pc' = "await"
    /\ UNCHANGED <<requests, history, queues, finished_req_ids, kv, mem, locals, inflight,
                   output, num_resets, remote>>

-----------------------------------------------------------------------------
(* The connector's side in the workers, while they execute batches.  What they  *)
(* notice comes with the youngest batch: it does not matter to a batch formed  *)
(* later whether they noticed it before or after that.                        *)

Executing == pc \in {"idle", "await"} /\ inflight # <<>>
WithYoungest(f, x) == [reports EXCEPT ![Len(reports)][f] = @ \cup {x}]

\* The connector has found out what it has for r.
LookupDone(r) ==
    /\ Executing /\ r \notin answered
    /\ answered' = answered \cup {r}
    /\ UNCHANGED <<requests, history, queues, finished_req_ids, kv, mem, pc, locals, inflight,
                   output, num_resets, finished_recving, failed_recving, failed, sending,
                   loads, reports, report, num_load_failures>>

\* Block b of a load fails, which is reported at once or with the end of the load.
LoadFails(b) ==
    /\ Executing /\ num_load_failures < MaxLoadFailures
    /\ "async" \in MayFail[load_failure_policy]
    /\ \E l \in loads :
          /\ b \in {l.blocks[BlockIndex(q)] : q \in (l.from + 1)..l.to} \ l.bad
          /\ loads' = (loads \ {l}) \cup {[l EXCEPT !.bad = @ \cup {b}]}
    /\ reports' = WithYoungest("invalid", b)
    /\ num_load_failures' = num_load_failures + 1
    /\ UNCHANGED <<requests, history, queues, finished_req_ids, kv, mem, pc, locals, inflight,
                   output, num_resets, finished_recving, failed_recving, failed, sending,
                   answered, report>>

\* The load of r ends; it wrote to the blocks it was started with.
LoadDone(r) ==
    /\ Executing
    /\ \E l \in loads :
          /\ l.req = r
          /\ loads' = loads \ {l}
          /\ mem' = Keep(Spoiled(Written(mem, l.blocks, tokens[r], l.from, l.to), l.bad), kv)
    /\ reports' = WithYoungest("recved", r)
    /\ UNCHANGED <<requests, history, queues, finished_req_ids, kv, pc, locals, inflight,
                   output, num_resets, finished_recving, failed_recving, failed, sending,
                   answered, report, num_load_failures>>

\* The blocks of the finished request r are sent; the workers know since the batch
\* before that it is finished.
SendDone(r) ==
    /\ Executing /\ r \in sending \ finished_req_ids
    /\ \A i \in DOMAIN reports : r \notin reports[i].sent
    /\ reports' = WithYoungest("sent", r)
    /\ UNCHANGED <<requests, history, queues, finished_req_ids, kv, mem, pc, locals, inflight,
                   output, num_resets, finished_recving, failed_recving, failed, sending,
                   answered, loads, report, num_load_failures>>

-----------------------------------------------------------------------------
(* update_from_output *)

\* How many blocks of r may hold externally computed tokens; computed: its
\* num_computed_tokens.
ExternalBlocks(r, computed) ==
    MinOf(Len(kv.req_to_blocks[r]),
          cdiv(IF ~IsLoading(r) THEN num_cached_tokens[r]
               ELSE IF r \in failed_recving THEN computed
               ELSE Len(kv.req_to_blocks[r]) * BlockSize, BlockSize))

\* _update_requests_with_invalid_blocks for one request: it falls back to its first
\* invalid block that no request before it will compute again.
Affected(x, r) ==
    LET table == kv.req_to_blocks[r]
        hit == {i \in 1..ExternalBlocks(r, x.computed[r]) : table[i] \in Head(reports).invalid}
        own == {i \in hit : table[i] \notin x.marked}
        first == CHOOSE i \in own : \A j \in own : i <= j
    IN IF hit = {} THEN x
       ELSE [x EXCEPT !.reqs = @ \cup {r},
                      !.marked = @ \cup {table[i] : i \in own},
                      !.computed[r] = IF own = {} THEN num_cached_tokens[r]
                                      ELSE (first - 1) * BlockSize,
                      !.evict = @ \cup (IF own = {} THEN {}
                                        ELSE {table[i] : i \in first..Len(table)})]

Unaffected(computed) == [reqs |-> {}, marked |-> {}, evict |-> {}, computed |-> computed]

\* _update_requests_with_invalid_blocks for the requests of s.
AllAffected(computed, s) ==
    LET F[i \in 0..Len(s)] == IF i = 0 THEN Unaffected(computed) ELSE Affected(F[i - 1], s[i])
    IN F[Len(s)]

\* The start of update_from_output, with _handle_invalid_blocks: first the requests
\* that are loading, then the running ones.
BeginUpdate ==
    LET async == AllAffected(num_computed_tokens,
                             Only(waiting, {r \in Reqs : IsLoading(r)}))
        sync == AllAffected(async.computed, running)
    IN /\ pc = "await"
       /\ output' = Head(inflight) /\ inflight' = Tail(inflight)
       /\ num_computed_tokens' = sync.computed
       /\ IF load_failure_policy = "fail"
          THEN /\ failed' = async.reqs \cup sync.reqs
               /\ kv' = [kv EXCEPT !.pool = evict_blocks(@, sync.evict)]
               /\ mem' = Keep(mem, kv')
               /\ UNCHANGED failed_recving
          ELSE /\ failed' = sync.reqs
               /\ failed_recving' = failed_recving \cup async.reqs
               /\ UNCHANGED <<kv, mem>>
       /\ report' = [Head(reports) EXCEPT !.invalid = {}] /\ reports' = Tail(reports)
       /\ pc' = IF Head(inflight) # <<>> THEN "output"
                ELSE IF HasConnector THEN "transfer" ELSE "idle"
       /\ UNCHANGED <<status, tokens, num_output_placeholders, discard_latest_async_tokens,
                      history, queues, finished_req_ids, locals, num_resets,
                      finished_recving, sending, answered, loads, num_load_failures>>

NextOutput == /\ output' = Tail(output)
              /\ pc' = IF Len(output) > 1 THEN "output"
                       ELSE IF HasConnector THEN "transfer" ELSE "idle"

\* The request left while its batch was in flight, or what it computed is of no use.
IsGone_never(r) == FALSE   \* mutant
IsGone(r) == r \in failed \/ (IsFinished(r) /\ r \notin sending)

\* The request is gone, or it is still in prefill and there is no token.
SkipOutput ==
    /\ pc = "output"
    /\ IsGone(output[1].req) \/ output[1].token = NoToken
    /\ NextOutput
    /\ UNCHANGED <<requests, history, queues, finished_req_ids, kv, mem, locals, inflight,
                   num_resets, remote>>

\* AsyncScheduler: the token in flight at a forced preemption.
DiscardOutput ==
    LET r == output[1].req IN
    /\ pc = "output"
    /\ Async /\ ~IsGone(r) /\ output[1].token # NoToken
    /\ discard_latest_async_tokens[r]
    /\ discard_latest_async_tokens' = [discard_latest_async_tokens EXCEPT ![r] = FALSE]
    /\ NextOutput
    /\ UNCHANGED <<status, tokens, num_computed_tokens, num_output_placeholders, history,
                   queues, finished_req_ids, kv, mem, locals, inflight, num_resets, remote>>

\* Mutant: only max_tokens ends a request.
StopStatus_no_model_len(r, len, eos) ==
    IF eos THEN "FINISHED_STOPPED"
    ELSE IF len - Len(Prompt[r]) >= MaxTokens[r] THEN "FINISHED_LENGTH_CAPPED" ELSE "NONE"

\* check_stop; eos: the token is a stop token; "NONE" when the request goes on.
StopStatus(r, len, eos) ==
    IF eos THEN "FINISHED_STOPPED"
    ELSE IF len >= MaxModelLen \/ len - Len(Prompt[r]) >= MaxTokens[r]
    THEN "FINISHED_LENGTH_CAPPED" ELSE "NONE"

\* Mutant: tokens still in flight are taken for known.
CacheAfterToken_early(r, text, placeholders) ==
    IF Async /\ status[r] = "RUNNING"
    THEN cache_blocks(kv, r, text, MinOf(num_computed_tokens[r] + 1, Len(text))) ELSE kv

\* AsyncScheduler caches the blocks that the accepted token completes.
CacheAfterToken(r, text, placeholders) ==
    IF Async /\ status[r] = "RUNNING"
    THEN cache_blocks(kv, r, text, num_computed_tokens[r] - placeholders) ELSE kv

\* A token for the request; eos: it is a stop token.  AsyncScheduler asserts that
\* num_output_placeholders does not become negative: the engine ends there, and
\* PlaceholdersInFlight says that it does not come to that.
AcceptOutput(eos) ==
    LET r == output[1].req
        text == Append(tokens[r], output[1].token)
        placeholders == num_output_placeholders[r] - IF Async THEN 1 ELSE 0
        stop == StopStatus(r, Len(text), eos)
        cached == CacheAfterToken(r, text, placeholders)
    IN /\ pc = "output"
       /\ ~IsGone(r) /\ output[1].token # NoToken
       /\ ~(Async /\ discard_latest_async_tokens[r])
       /\ placeholders >= 0
       /\ eos => r \in MayEos
       /\ tokens' = [tokens EXCEPT ![r] = text]
       /\ num_output_placeholders' = [num_output_placeholders EXCEPT ![r] = placeholders]
       /\ IF stop # "NONE"
          THEN /\ status' = [status EXCEPT ![r] = stop]
               /\ RemoveFromQueue(r) /\ _free_request(cached, r, Len(text))
          ELSE /\ kv' = cached /\ mem' = Keep(mem, kv')
               /\ UNCHANGED <<status, queues, finished_req_ids, sending>>
       /\ NextOutput
       /\ UNCHANGED <<num_computed_tokens, discard_latest_async_tokens, history, locals,
                      inflight, num_resets, finished_recving, failed_recving, failed, answered,
                      loads, reports, report, num_load_failures>>

\* kv_load_failure_policy "fail": finish_requests(r, FINISHED_ERROR).
FailRequest(r) ==
    /\ pc = "transfer" /\ load_failure_policy = "fail" /\ r \in failed
    /\ failed' = failed \ {r}
    /\ status' = [status EXCEPT ![r] = "FINISHED_ERROR"]
    /\ RemoveFromQueue(r)
    /\ _free_request(kv, r, Len(tokens[r]))
    /\ UNCHANGED <<tokens, num_computed_tokens, num_output_placeholders,
                   discard_latest_async_tokens, history, pc, locals, inflight, output,
                   num_resets, finished_recving, failed_recving, answered, loads, reports,
                   report, num_load_failures>>

AllFailed == load_failure_policy = "fail" => failed = {}

\* _update_from_kv_xfer_finished: _free_blocks for a request that was sent.
FreeSent(r) ==
    /\ pc = "transfer" /\ AllFailed /\ r \in report.sent
    /\ report' = [report EXCEPT !.sent = @ \ {r}]
    /\ kv' = free(kv, r) /\ mem' = Keep(mem, kv')
    /\ sending' = sending \ {r}
    /\ UNCHANGED <<requests, history, queues, finished_req_ids, pc, locals, inflight, output,
                   num_resets, finished_recving, failed_recving, failed, answered, loads,
                   reports, num_load_failures>>

EndUpdate ==
    /\ pc = "transfer" /\ AllFailed /\ report.sent = {}
    /\ finished_recving' = finished_recving \cup report.recved
    /\ report' = [report EXCEPT !.recved = {}]
    /\ failed' = {}
    /\ pc' = "idle"
    /\ UNCHANGED <<requests, history, queues, finished_req_ids, kv, mem, locals, inflight,
                   output, num_resets, failed_recving, sending, answered, loads, reports,
                   num_load_failures>>

-----------------------------------------------------------------------------
Client == \/ \E r \in Reqs : AddRequest(r)
          \/ \E r \in Reqs : AbortRequest(r)
          \/ \E force \in ResetModes : ResetPrefixCache(force)

AllAnswers == [external : 0..MaxModelLen, async : BOOLEAN]

Engine == \/ BeginSchedule \/ SkipRunning \/ PickRunning \/ ScheduleRunning \/ Preempt
          \/ EndRunning \/ SkipWaiting \/ _update_waiting_for_remote_kv
          \/ \E o \in AllAnswers : ScheduleWaiting(o)
          \/ \E o \in AllAnswers : LoadWaiting(o)
          \/ \E o \in AllAnswers : EndWaiting(o)
          \/ \E bad \in SUBSET Blocks : FinishSchedule(bad)
          \/ AwaitLast \/ BeginUpdate \/ SkipOutput \/ DiscardOutput
          \/ \E eos \in BOOLEAN : AcceptOutput(eos)
          \/ \E r \in Reqs : FailRequest(r)
          \/ \E r \in Reqs : FreeSent(r)
          \/ EndUpdate

Connector == \/ \E r \in Reqs : LookupDone(r)
             \/ \E b \in Blocks : LoadFails(b)
             \/ \E r \in Reqs : LoadDone(r)
             \/ \E r \in Reqs : SendDone(r)

Next == Client \/ Engine \/ Connector

\* When the busy loop has something to do; this is ENABLED Engine.
EngineHasWork == pc # "idle" \/ has_requests \/ inflight # <<>>

\* The engine core's loop never stops while it has work (this is weak fairness of
\* Engine with its ENABLED written out), and the workers finish every batch.
EngineFairness == []<>(~EngineHasWork) \/ []<><<Engine>>_vars
WorkerFairness == WF_vars(BeginUpdate)

Spec == Init /\ [][Next]_vars /\ EngineFairness /\ WorkerFairness

\* Every transfer ends and every lookup is answered, as long as batches, even
\* empty ones, give the workers the occasion to notice; there are only finitely
\* many of them.
TransferEnds == \E r \in Reqs : LookupDone(r) \/ LoadDone(r) \/ SendDone(r)
TransferPending == answered # Reqs \/ loads # {} \/ sending # {}
ConnectorFairness == []<>(~(EngineHasWork /\ TransferPending)) \/ []<><<TransferEnds>>_vars

ConnectorSpec == Spec /\ ConnectorFairness

-----------------------------------------------------------------------------
TypeOK ==
    /\ status \in [Reqs -> {"NEW", "WAITING", "WAITING_FOR_REMOTE_KVS", "RUNNING",
                            "PREEMPTED", "FINISHED_STOPPED", "FINISHED_LENGTH_CAPPED",
                            "FINISHED_ABORTED", "FINISHED_ERROR"}]
    /\ waiting \in Seq(Reqs) /\ running \in Seq(Reqs)
    /\ num_computed_tokens \in [Reqs -> 0..MaxModelLen]
    /\ num_output_placeholders \in [Reqs -> Nat]
    /\ discard_latest_async_tokens \in [Reqs -> BOOLEAN]
    /\ finished_req_ids \subseteq Reqs
    /\ pc \in {"idle", "running", "alloc", "waiting", "finish", "await", "output",
               "transfer"}
    /\ finished_recving \cup failed_recving \cup failed \cup sending \cup answered
           \subseteq Reqs
    /\ token_budget \in 0..MaxNumScheduledTokens
    /\ Len(inflight) <= BatchQueueSize

\* Between calls of schedule() every submitted batch has its effect on memory.
Settled == pc \in {"idle", "await", "output", "transfer"}

NoFailureToReport == \A i \in DOMAIN reports : reports[i].invalid = {}

\* Each unfinished request is in exactly one queue, once, and its status says
\* which; finish_requests and update_from_output pick the queue by status.
QueuesMatchStatus ==
    /\ IsInjective(waiting) /\ IsInjective(running)
    /\ Elements(waiting) \cap Elements(skipped) = {}
    /\ Elements(waiting) \cup Elements(skipped) =
           {r \in Reqs : status[r] \in {"WAITING", "WAITING_FOR_REMOTE_KVS", "PREEMPTED"}}
    /\ Elements(running) = {r \in Reqs : status[r] = "RUNNING"}

\* Reference counts are the numbers of holders, the free queue is the rest, and
\* a request holds blocks only while it runs, while a connector loads or has
\* loaded them, or while a connector sends them: a preempted, finished, failed or
\* aborted request has given back all of its own.  (The one token of a request that
\* was loaded and consists of nothing else is computed again.)
BlockAccounting ==
    /\ CountsHolders(kv) /\ FreeIsUnheld(kv.pool)
    /\ \A r \in Reqs : kv.req_to_blocks[r] # <<>> =>
          \/ status[r] = "RUNNING" \/ IsLoading(r) \/ (IsFinished(r) /\ r \in sending)
          \/ /\ status[r] \in {"WAITING", "PREEMPTED"}
             /\ num_computed_tokens[r] > 0 \/ Len(tokens[r]) = 1

\* get_computed_blocks returns "A list of blocks that are computed for the
\* request": once the batches formed so far are executed, every block in the
\* prefix cache holds the tokens of its hash; a failed load leaves none behind once
\* it is reported.
CachedIsComputed == Settled /\ NoFailureToReport => HashedIsWritten(mem, kv)

\* A request's output is the model's: no token is lost, repeated or out of
\* place, also across preemption, resets and batches in flight.
OutputInOrder ==
    \A r \in Reqs : \A i \in (Len(Prompt[r]) + 1)..Len(tokens[r]) : tokens[r][i] = Out(i)

\* Tokens for r that are sampled and not yet processed.
TokensInFlight(r) ==
    LET In(b) == Cardinality({i \in DOMAIN b : b[i].req = r /\ b[i].token # NoToken})
    IN FoldLeft(LAMBDA n, b : n + In(b), In(output), inflight)

\* AsyncScheduler's placeholders are the tokens in flight, so that its assertion
\* num_output_placeholders >= 0 cannot fail.
PlaceholdersInFlight ==
    Async => \A r \in Reqs : ~IsFinished(r) => num_output_placeholders[r] = TokensInFlight(r)

\* total_num_scheduled_tokens of what is scheduled in s.
TotalTokens(s) ==
    LET F[i \in 0..Len(s)] == IF i = 0 THEN 0 ELSE F[i - 1] + s[i].n IN F[Len(s)]

\* The assertions at the end of schedule() and at the start of
\* update_from_output: the token budget and the request limit are respected and
\* nothing is scheduled with no tokens or twice.
ScheduleWithinLimits ==
    /\ Len(running) <= MaxNumRunningReqs
    /\ TotalTokens(scheduled) + token_budget = (IF Settled THEN 0 ELSE MaxNumScheduledTokens)
    /\ token_budget >= 0
    /\ \A i \in DOMAIN scheduled : scheduled[i].n > 0 /\ status[scheduled[i].req] = "RUNNING"
    /\ \A i, j \in DOMAIN scheduled : scheduled[i].req = scheduled[j].req => i = j

\* First come, first served: preemption takes the youngest and puts it back in
\* front, so that nobody is overtaken.
FcfsOrder ==
    LET q == running \o waiting IN
    \A i, j \in 1..Len(q) : i < j => q[i] < q[j]

\* Priority policy: whoever was preempted is less urgent than everybody who is
\* running, until it runs again.  (A forced reset preempts all: of them, one that has
\* to wait for a connector before it runs again would be an exception.)
PreemptedIsLeastUrgent ==
    \A r, v \in Reqs : status[r] = "RUNNING" /\ status[v] = "PREEMPTED" => Before(r, v)

\* A batch that was in flight when its request finished or was aborted changes
\* nothing of the request any more.
FinishedIsFinal ==
    [][\A r \in Reqs : IsFinished(r) =>
          status'[r] = status[r] /\ tokens'[r] = tokens[r]
          /\ (r \in sending \/ kv'.req_to_blocks[r] = <<>>)]_vars

\* While an asynchronous load is under way its request waits for it, and the blocks
\* that the connector writes to are held by that request and nobody else: whatever
\* happens to other requests (preemption, a forced reset, late outputs and reports of
\* batches in flight) does not give them away.  Not so once the loading request is
\* itself aborted or fails: finish_requests then frees its blocks at once, and the
\* load writes into what may be another request's (MCAbortedLoad.cfg).
LoadsIntoOwnBlocks ==
    \A l \in loads : ~IsFinished(l.req) =>
        /\ IsLoading(l.req)
        /\ \A q \in (l.from + 1)..l.to : \A r \in Reqs :
              l.blocks[BlockIndex(q)] \in Elements(kv.req_to_blocks[r]) <=> r = l.req

\* request_finished returns True when "the request is being saved/sent
\* asynchronously and blocks should not be freed until the request_id is returned
\* from get_finished()": until then the blocks of a request that did not fail hold
\* what it computed.
SentIsIntact ==
    Settled /\ NoFailureToReport =>
        \A r \in sending : status[r] # "FINISHED_ERROR" =>
            TextIsWritten(mem, kv, r, tokens[r], num_computed_tokens[r])

\* Every request is eventually done, however often it is preempted and whatever of
\* its KV has to be loaded, fails to load or waits for others to be sent.
EveryRequestFinishes ==
    \A r \in Reqs : status[r] = "WAITING" ~> IsFinished(r)
=============================================================================
