--------------------------- MODULE MCShmBroadcast ---------------------------
(* Two readers in the ring and one behind a socket; a ring of two chunks.  *)
EXTENDS ShmBroadcast
=============================================================================
