------------------------- MODULE MCSchedulerPriority ------------------------
(***************************************************************************)
(* Three requests, of which later ones are more urgent, in a pool of three  *)
(* usable blocks: the second needs all of them, and takes them from the     *)
(* first also in a step that has scheduled the first already.  A connector  *)
(* loads the first between steps.  Such a load may fail under either        *)
(* policy, its request may be aborted meanwhile, and a forced reset         *)
(* preempts what runs while tokens are in flight.                           *)
(***************************************************************************)
EXTENDS Scheduler

MCReqs      == {1, 2, 3}
MCPrompt    == [r \in MCReqs |-> CASE r = 1 -> <<1, 1>>
                                   [] r = 2 -> <<1, 1, 2, 2>>
                                   [] r = 3 -> <<1>>]
MCMaxTokens == [r \in MCReqs |-> CASE r = 1 -> 3 [] r = 2 -> 2 [] r = 3 -> 1]
MCPriority  == [r \in MCReqs |-> 3 - r]
MCNoHash    == <<>>
MCOffers    == [r \in MCReqs |-> IF r = 1 THEN {"async"} ELSE {}]
MCMayFail   == [recompute |-> {"async"}, fail |-> {"async"}]
=============================================================================
