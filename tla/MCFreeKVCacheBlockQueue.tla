---------------------- MODULE MCFreeKVCacheBlockQueue -----------------------
(* The linked list of free blocks on five blocks: every order of popleft,   *)
(* popleft_n, remove, append and append_n.                                  *)
EXTENDS FreeKVCacheBlockQueue
=============================================================================
