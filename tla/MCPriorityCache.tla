-------------------------- MODULE MCPriorityCache --------------------------
(***************************************************************************)
(* The priority policy: a request with a long prompt, prefilled two blocks *)
(* a step, and a more urgent short one, in a pool of seven usable blocks.    *)
(***************************************************************************)
EXTENDS Scheduler

MCReqs      == {1, 2}
MCPrompt    == [r \in MCReqs |-> IF r = 1 THEN [i \in 1..13 |-> 1] ELSE <<2, 2>>]
MCMaxTokens == [r \in MCReqs |-> IF r = 1 THEN 1 ELSE 3]
MCPriority  == [r \in MCReqs |-> 2 - r]
MCNoHash    == <<>>
MCNoOffers  == [r \in MCReqs |-> {}]
MCNoFailures == [recompute |-> {}]
=============================================================================
