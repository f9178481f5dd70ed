------------------------ MODULE MCOffloadingConnector -----------------------
(***************************************************************************)
(* GPU blocks of one token, two to an offloaded block, so that local hits  *)
(* can end in the middle of one.  Four usable GPU blocks, which one request *)
(* alone can fill, and three CPU blocks: requests evict each other's blocks *)
(* from both, and come back to load what is left on the CPU.                *)
(***************************************************************************)
EXTENDS OffloadingConnector

MCReqs      == 1..5
MCPrompt    == [r \in MCReqs |-> CASE r = 1 -> <<1, 1, 1>>
                                   [] r = 2 -> <<3, 3>>
                                   [] r = 3 -> <<2, 2, 2>>
                                   [] r = 4 -> <<1, 1, 1, 1>>
                                   [] r = 5 -> <<1, 1>>]
MCMaxTokens == [r \in MCReqs |-> IF r = 1 THEN 2 ELSE 1]
MCNoHash    == <<>>
=============================================================================
