---------------------------- MODULE MCScheduler -----------------------------
(***************************************************************************)
(* Three requests whose prompts share their first block, in a pool of four  *)
(* usable blocks where each request may need three: prefix hits, chunked    *)
(* prefill, preemption and resumption all happen.  The first request ends   *)
(* at max_model_len, the others at max_tokens.                              *)
(***************************************************************************)
EXTENDS Scheduler

MCReqs      == {1, 2, 3}
MCPrompt    == [r \in MCReqs |-> CASE r = 1 -> <<1, 1, 1>>
                                   [] r = 2 -> <<1, 1, 2>>
                                   [] r = 3 -> <<1, 1, 1, 1>>]
MCMaxTokens == [r \in MCReqs |-> CASE r = 1 -> 4 [] r = 2 -> 3 [] r = 3 -> 2]
MCPriority  == [r \in MCReqs |-> 3 - r]
MCNoHash    == <<>>
MCNoOffers  == [r \in MCReqs |-> {}]
MCNoFailures == [recompute |-> {}]
=============================================================================
