-------------------------- MODULE DataParallelWaves --------------------------
(***************************************************************************)
(* Request waves of data parallel deployments: front-ends (DPAsyncMPClient, *)
(* vllm/v1/engine/core_client.py), the coordinator (DPCoordinatorProc,      *)
(* coordinator.py) and the engines (DPEngineCoreProc, core.py).             *)
(*                                                                         *)
(* A forward pass is a collective operation: no engine gets through it      *)
(* unless all take part.  So all engines run or all are paused, idle ones   *)
(* with dummy batches, and a request that comes while they are paused has  *)
(* to wake them all.  Front-ends, coordinator and engines learn of changes *)
(* by messages that cross each other.                                       *)
(*                                                                         *)
(* A request needs Steps[r] forward passes; which engine a front-end       *)
(* chooses, and the load statistics it chooses by, are left open.          *)
(***************************************************************************)
EXTENDS Naturals, Sequences

CONSTANTS Engines,        \* dp ranks; rank 0 reports the end of a wave
          Clients,        \* front-ends
          Reqs,
          ClientOf,       \* request -> front-end it comes from
          Steps,          \* request -> forward passes it needs
          MayAbort,       \* requests that the front-end may abort
          SyncInterval,   \* 32: steps between two all-reduce operations
          Nobody          \* no engine; None

ASSUME WavesAssumption ==
    /\ 0 \in Engines /\ Nobody \notin Engines
    /\ SyncInterval \in Nat \ {0} /\ Steps \in [Reqs -> Nat \ {0}]
    /\ ClientOf \in [Reqs -> Clients]

VARIABLES
    \* front-ends
    c_wave, c_running,     \* current_wave, engines_running
    first_req,             \* FIRST_REQ notes to the stats task: number of them
    sub,                   \* <<>> or <<the published state that was not read yet>>
    \* coordinator
    co_wave, co_running,   \* current_wave, engines_running
    front, back,           \* its input from each front-end, from each engine
    \* engines
    wave, running,         \* current_wave, engines_running
    counter,               \* step_counter % SyncInterval
    epc,                   \* where the busy loop is
    vote,                  \* local_unfinished_reqs, then the result of the all-reduce
    from_client, from_coord,   \* messages under way to an engine
    \* requests
    status, target, left

client  == <<c_wave, c_running, first_req, sub>>
coord   == <<co_wave, co_running, front, back>>
engine  == <<wave, running, counter, epc, vote>>
to_engine == <<from_client, from_coord>>
request == <<status, target, left>>
vars == <<client, coord, engine, to_engine, request>>

Init ==
    /\ c_wave = [c \in Clients |-> 0] /\ c_running = [c \in Clients |-> FALSE]
    /\ first_req = [c \in Clients |-> 0] /\ sub = [c \in Clients |-> <<>>]
    /\ co_wave = 0 /\ co_running = FALSE
    /\ front = [c \in Clients |-> <<>>] /\ back = [e \in Engines |-> <<>>]
    /\ wave = [e \in Engines |-> 0] /\ running = [e \in Engines |-> FALSE]
    /\ counter = [e \in Engines |-> 0] /\ epc = [e \in Engines |-> "input"]
    /\ vote = [e \in Engines |-> FALSE]
    /\ from_client = [e \in Engines |-> [c \in Clients |-> <<>>]]
    /\ from_coord = [e \in Engines |-> <<>>]
    /\ status = [r \in Reqs |-> "new"] /\ target = [r \in Reqs |-> Nobody]
    /\ left = Steps

\* Unfinished requests of an engine's scheduler.
Unfinished(e) == {r \in Reqs : target[r] = e /\ status[r] = "queued"}

-----------------------------------------------------------------------------
(* Front-ends *)

\* add_request_async
AddRequest(r, e) ==
    LET c == ClientOf[r] IN
    /\ status[r] = "new"
    /\ status' = [status EXCEPT ![r] = "sent"] /\ target' = [target EXCEPT ![r] = e]
    /\ from_client' = [from_client EXCEPT ![e][c] =
                          Append(@, [type |-> "ADD", req |-> r, wave |-> c_wave[c]])]
    /\ first_req' = [first_req EXCEPT ![c] = @ + IF c_running[c] THEN 0 ELSE 1]
    /\ UNCHANGED <<c_wave, c_running, sub, coord, engine, from_coord, left>>

\* The front-end aborts a request it has sent, once.
Underway(e, c, r, type) ==
    \E i \in DOMAIN from_client[e][c] :
        from_client[e][c][i].req = r /\ from_client[e][c][i].type = type

AbortRequest(r, e) ==
    LET c == ClientOf[r] IN
    /\ r \in MayAbort /\ target[r] = e /\ status[r] \in {"sent", "queued"}
    /\ ~Underway(e, c, r, "ABORT")
    /\ from_client' = [from_client EXCEPT ![e][c] =
                          Append(@, [type |-> "ABORT", req |-> r, wave |-> 0])]
    /\ UNCHANGED <<client, coord, engine, from_coord, request>>

\* run_engine_stats_update_task, first half: tell the coordinator of a request
\* that was sent while the engines were paused.  When a new state has come as
\* well, it is read first unless the engines are still taken to be paused.
SendFirstReq(c) ==
    /\ first_req[c] > 0
    /\ sub[c] = <<>> \/ ~c_running[c]
    /\ first_req' = [first_req EXCEPT ![c] = @ - 1]
    /\ c_running' = [c_running EXCEPT ![c] = TRUE]
    /\ front' = [front EXCEPT ![c] = Append(@, c_wave[c])]
    /\ UNCHANGED <<c_wave, sub, co_wave, co_running, back, engine, to_engine, request>>

\* Second half: the socket is drained and the last state counts.
ReadState(c) ==
    /\ sub[c] # <<>>
    /\ c_wave' = [c_wave EXCEPT ![c] = sub[c][1].wave]
    /\ c_running' = [c_running EXCEPT ![c] = sub[c][1].running]
    /\ sub' = [sub EXCEPT ![c] = <<>>]
    /\ UNCHANGED <<first_req, coord, engine, to_engine, request>>

-----------------------------------------------------------------------------
(* The coordinator *)

\* A new state takes the place of one that was not read: a front-end drains its
\* socket and uses the last state only.
Publish(w, r) == sub' = [d \in Clients |-> <<[wave |-> w, running |-> r]>>]

\* The state of the coordinator that one iteration of its loop works on.
State == [wave |-> co_wave, running |-> co_running, start |-> <<>>, changed |-> FALSE]

\* A front-end sent a request while the engines were paused.  The engine to
\* exclude is the front-end's identity of it, bytes, which is equal to no
\* engine_index: nobody is excluded, whether the wave is stale or not.
OnFirstReq(s, w) ==
    IF s.running THEN s
    ELSE [s EXCEPT !.running = TRUE, !.changed = TRUE,
                   !.start = Append(@, [wave |-> s.wave, exclude |-> Nobody])]

\* Rank 0 reports the end of wave w.
OnWaveComplete_late(s, w) ==   \* mutant: the report of the current wave is ignored
    IF s.wave < w THEN [s EXCEPT !.wave = w + 1, !.running = FALSE, !.changed = TRUE] ELSE s
OnWaveComplete(s, w) ==
    IF s.wave <= w THEN [s EXCEPT !.wave = w + 1, !.running = FALSE, !.changed = TRUE] ELSE s

\* Engine e got a request of a wave that had ended, while it was paused.
OnStartWave_newer(s, w, e) ==   \* mutant: only if the wave is news
    IF w > s.wave
    THEN [s EXCEPT !.wave = w, !.running = TRUE, !.changed = TRUE,
                   !.start = Append(@, [wave |-> w, exclude |-> e])]
    ELSE s
OnStartWave(s, w, e) ==
    IF w > s.wave \/ (w = s.wave /\ ~s.running)
    THEN [s EXCEPT !.wave = w, !.running = TRUE, !.changed = TRUE,
                   !.start = Append(@, [wave |-> w, exclude |-> e])]
    ELSE s

OnEngine(s, m, e) ==
    IF m.type = "wave_complete" THEN OnWaveComplete(s, m.wave) ELSE OnStartWave(s, m.wave, e)

\* One iteration of process_input_socket: at most one message of a front-end,
\* then at most one of an engine; c or e is Nobody when none has arrived, though one
\* may be under way.
Coordinate(c, e) ==
    LET s1 == IF c = Nobody THEN State ELSE OnFirstReq(State, Head(front[c]))
        s2 == IF e = Nobody THEN s1 ELSE OnEngine(s1, Head(back[e]), e)
    IN /\ c # Nobody \/ e # Nobody
       /\ c # Nobody => front[c] # <<>>
       /\ e # Nobody => back[e] # <<>>
       /\ front' = IF c = Nobody THEN front ELSE [front EXCEPT ![c] = Tail(@)]
       /\ back' = IF e = Nobody THEN back ELSE [back EXCEPT ![e] = Tail(@)]
       /\ co_wave' = s2.wave /\ co_running' = s2.running
       /\ from_coord' = [f \in Engines |-> from_coord[f] \o s2.start]
       /\ IF s2.changed THEN Publish(s2.wave, s2.running) ELSE UNCHANGED sub
       /\ UNCHANGED <<c_wave, c_running, first_req, engine, from_client, request>>

\* The poller times out, perhaps while messages are under way; what is published
\* again is the state as it is.  (Bound: to front-ends that have read the last one,
\* and not if it would tell nobody anything.)
Republish ==
    /\ \E d \in Clients : c_wave[d] # co_wave \/ c_running[d] # co_running
    /\ \A d \in Clients : sub[d] = <<>>
    /\ Publish(co_wave, co_running)
    /\ UNCHANGED <<c_wave, c_running, first_req, coord, engine, to_engine, request>>

-----------------------------------------------------------------------------
(* Engines *)

\* add_request: a request of a wave that ended makes a paused engine ask for
\* the next one.
HandleAdd(e, c) ==
    LET m == Head(from_client[e][c]) IN
    /\ epc[e] = "input" /\ from_client[e][c] # <<>> /\ m.type = "ADD"
    /\ status' = [status EXCEPT ![m.req] = "queued"]
    /\ wave' = [wave EXCEPT ![e] = IF m.wave > @ THEN m.wave ELSE @]
    /\ back' = [back EXCEPT ![e] =
                   IF m.wave < wave[e] /\ ~running[e]
                   THEN Append(@, [type |-> "start_wave", wave |-> wave[e]]) ELSE @]
    /\ from_client' = [from_client EXCEPT ![e][c] = Tail(@)]
    /\ UNCHANGED <<client, co_wave, co_running, front, running, counter, epc, vote,
                   from_coord, target, left>>

Aborted(r) == [status EXCEPT ![r] = IF @ = "queued" THEN "aborted" ELSE @]

HandleAbort(e, c) ==
    LET m == Head(from_client[e][c]) IN
    /\ epc[e] = "input" /\ from_client[e][c] # <<>> /\ m.type = "ABORT"
    /\ status' = Aborted(m.req)
    /\ from_client' = [from_client EXCEPT ![e][c] = Tail(@)]
    /\ UNCHANGED <<client, coord, engine, from_coord, target, left>>

\* _handle_client_request, START_DP_WAVE
Starts_any(e, m) == m.exclude # e   \* mutant: also for a wave that has ended
Starts(e, m) == m.exclude # e /\ m.wave >= wave[e]

HandleStart(e) ==
    LET m == Head(from_coord[e]) IN
    /\ epc[e] = "input" /\ from_coord[e] # <<>>
    /\ wave' = [wave EXCEPT ![e] = IF Starts(e, m) THEN m.wave ELSE @]
    /\ running' = [running EXCEPT ![e] = @ \/ Starts(e, m)]
    /\ from_coord' = [from_coord EXCEPT ![e] = Tail(@)]
    /\ UNCHANGED <<client, coord, counter, epc, vote, from_client, request>>

\* The loop leaves the input queue when it has requests or is to run, and then
\* takes part in a forward pass, with a dummy batch if need be.
BeginStep(e) ==
    /\ epc[e] = "input" /\ (running[e] \/ Unfinished(e) # {})
    /\ epc' = [epc EXCEPT ![e] = "forward"]
    /\ UNCHANGED <<client, coord, wave, running, counter, vote, to_engine, request>>

\* step_counter after the pass.
Counted_real_only(e) ==   \* mutant: dummy batches are not counted
    (counter[e] + IF Unfinished(e) = {} THEN 0 ELSE 1) % SyncInterval
Counted(e) == (counter[e] + 1) % SyncInterval

\* All engines are in the forward pass; it completes, its outputs are processed,
\* and each engine comes to _has_global_unfinished_reqs and, if its counter says
\* so, to the all-reduce.  Aborts that arrive during the pass (aborts_queue) may be
\* processed before its outputs.  Until here nothing of it is visible to others.
ForwardPass(early) ==
    LET unfinished == UNION {Unfinished(e) : e \in Engines} \ early
        done == {r \in unfinished : left[r] = 1}
    IN /\ \A e \in Engines : epc[e] = "forward"
       /\ \A r \in early : /\ status[r] = "queued"
                             /\ Underway(target[r], ClientOf[r], r, "ABORT")
       /\ status' = [r \in Reqs |-> IF r \in early THEN "aborted"
                                    ELSE IF r \in done THEN "done" ELSE status[r]]
       /\ left' = [r \in Reqs |-> IF r \in unfinished THEN left[r] - 1 ELSE left[r]]
       /\ counter' = [e \in Engines |-> Counted(e)]
       /\ running' = [e \in Engines |-> Counted(e) # 0 \/ running[e]]
       /\ vote' = [e \in Engines |->
                      Counted(e) = 0 /\ (Unfinished(e) \ early) \ done # {}]
       /\ epc' = [e \in Engines |-> IF Counted(e) = 0 THEN "reduce" ELSE "input"]
       /\ UNCHANGED <<client, coord, wave, to_engine, target>>

\* has_unfinished_dp
AllReduce ==
    /\ \A e \in Engines : epc[e] = "reduce"
    /\ vote' = [e \in Engines |-> \E f \in Engines : vote[f]]
    /\ epc' = [e \in Engines |-> "decide"]
    /\ UNCHANGED <<client, coord, wave, running, counter, to_engine, request>>

\* Nobody has unfinished requests: the wave is over.
Decide(e) ==
    /\ epc[e] = "decide"
    /\ epc' = [epc EXCEPT ![e] = "input"]
    /\ running' = [running EXCEPT ![e] = vote[e]]
    /\ vote' = [vote EXCEPT ![e] = FALSE]
    /\ IF vote[e] THEN UNCHANGED <<wave, counter, back>>
       ELSE /\ wave' = [wave EXCEPT ![e] = @ + 1]
            /\ counter' = [counter EXCEPT ![e] = 0]
            /\ back' = IF e = 0
                       THEN [back EXCEPT ![e] =
                                Append(@, [type |-> "wave_complete", wave |-> wave[e]])]
                       ELSE back
    /\ UNCHANGED <<client, co_wave, co_running, front, to_engine, request>>

-----------------------------------------------------------------------------
ClientStep(c) == SendFirstReq(c) \/ ReadState(c)

CoordinatorStep == \E c \in Clients \cup {Nobody}, e \in Engines \cup {Nobody} : Coordinate(c, e)

EngineStep(e) == \/ \E c \in Clients : HandleAdd(e, c)
                 \/ \E c \in Clients : HandleAbort(e, c)
                 \/ HandleStart(e) \/ BeginStep(e) \/ Decide(e)

Collective == (\E early \in SUBSET MayAbort : ForwardPass(early)) \/ AllReduce

Next == \/ \E r \in Reqs, e \in Engines : AddRequest(r, e)
        \/ \E r \in Reqs, e \in Engines : AbortRequest(r, e)
        \/ \E c \in Clients : ClientStep(c)
        \/ CoordinatorStep \/ Republish
        \/ \E e \in Engines : EngineStep(e)
        \/ Collective

Spec == Init /\ [][Next]_vars

-----------------------------------------------------------------------------
\* The engines' collective operations match: no engine is in a forward pass
\* while another one is in the all-reduce, where both would wait for ever; their
\* step counters agree however late each of them was started.
CollectivesMatch ==
    \A e, f \in Engines : ~(epc[e] = "forward" /\ epc[f] = "reduce")

\* Waves are numbered alike: between waves all engines have the same number, and
\* nobody else is ahead of them, so that no message can move an engine to a wave
\* whose predecessor it still computes.
WavesAgree ==
    /\ \A e, f \in Engines : epc[e] # "decide" /\ epc[f] # "decide" => wave[e] = wave[f]
    /\ \E e \in Engines : co_wave <= wave[e]
    /\ \A c \in Clients : c_wave[c] <= co_wave

\* Every message has been delivered.
Delivered ==
    /\ \A c \in Clients : first_req[c] = 0 /\ front[c] = <<>> /\ sub[c] = <<>>
    /\ \A e \in Engines : /\ back[e] = <<>> /\ from_coord[e] = <<>>
                           /\ \A c \in Clients : from_client[e][c] = <<>>

\* The engine blocks for input, or for the others in a collective operation.
Blocked(e) ==
    \/ epc[e] = "input" /\ ~running[e] /\ Unfinished(e) = {}
    \/ epc[e] = "forward" /\ \E f \in Engines : epc[f] # "forward"
    \/ epc[e] = "reduce" /\ \E f \in Engines : epc[f] # "reduce"

\* Nobody can go on before the next request.
AtRest == Delivered /\ \A e \in Engines : Blocked(e)

\* "Engines will move into running state when receiving a new request or
\* START_DP_WAVE message": no engine is ever left in a collective operation that the
\* others do not join, so that its requests, and all later ones, would wait.
NoneLeftWaiting == AtRest => \A e \in Engines : epc[e] = "input"

\* The same as long as no request is aborted (see the findings).
NoneLeftWaitingUnlessAborted ==
    NoneLeftWaiting \/ \E r \in Reqs : status[r] = "aborted"

\* When the engines have paused, everybody comes to know it, and by the right
\* wave: the next request is then announced and wakes all engines.
BeliefsConverge ==
    AtRest /\ NoneLeftWaiting =>
        /\ ~co_running /\ \A e \in Engines : wave[e] = co_wave
        /\ \A c \in Clients : ~c_running[c] /\ c_wave[c] = co_wave
=============================================================================
