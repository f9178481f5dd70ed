------------------------ MODULE MCSchedulerConnector ------------------------
(***************************************************************************)
(* Three requests whose prompts share their first block.  A connector has  *)
(* KV for the first, which it loads during or between steps, and for the   *)
(* second, which it may take a while to find; the blocks of the first are  *)
(* sent when it finishes.  With the recompute policy an asynchronous load  *)
(* may fail, with the fail policy a synchronous one.  The other two failures *)
(* and aborts of loading requests put wrong data into the prefix cache (see *)
(* MCAbortedLoad.cfg and README.md); MCSchedulerPriority has those of       *)
(* asynchronous loads.                                                     *)
(***************************************************************************)
EXTENDS Scheduler

MCReqs      == {1, 2, 3}
MCPrompt    == [r \in MCReqs |-> CASE r = 1 -> <<1, 1, 1, 1>>
                                   [] r = 2 -> <<1, 1, 2>>
                                   [] r = 3 -> <<1, 1, 1>>]
MCMaxTokens == [r \in MCReqs |-> IF r = 2 THEN 2 ELSE 1]
MCPriority  == [r \in MCReqs |-> 0]
MCNoHash    == <<>>
MCOffers    == [r \in MCReqs |-> CASE r = 1 -> {"sync", "async"} [] r = 2 -> {"async", "late"}
                                   [] r = 3 -> {}]
MCMayFail   == [recompute |-> {"async"}, fail |-> {"sync"}]
=============================================================================
