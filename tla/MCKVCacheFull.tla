---------------------------- MODULE MCKVCacheFull ---------------------------
(***************************************************************************)
(* Full attention: two requests whose prompts share the first block, and   *)
(* one with another prompt, in a pool too small for all.                   *)
(***************************************************************************)
EXTENDS KVCacheSystem

MCReqs   == {1, 2, 3}
MCPrompt == [r \in MCReqs |-> CASE r = 1 -> <<1, 1, 1>>
                                [] r = 2 -> <<1, 1, 1, 2>>
                                [] r = 3 -> <<2>>]
MCNoHash == <<>>
=============================================================================
