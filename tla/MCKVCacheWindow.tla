--------------------------- MODULE MCKVCacheWindow --------------------------
(***************************************************************************)
(* Sliding window attention of 3 tokens with eagle, a lookahead slot, a KV  *)
(* connector and eviction of single blocks: tables start with null blocks,  *)
(* and loaded tokens may lie outside the window.                            *)
(***************************************************************************)
EXTENDS KVCacheSystem

MCReqs   == {1, 2}
MCPrompt == [r \in MCReqs |-> IF r = 1 THEN <<1, 1, 1, 1, 1>> ELSE <<1, 1, 1, 1>>]
MCNoHash == <<>>
=============================================================================
