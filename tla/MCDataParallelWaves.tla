------------------------ MODULE MCDataParallelWaves ------------------------
(* Two engines and two front-ends; one request of one forward pass and one of two. *)
EXTENDS DataParallelWaves

const_Engines == {0, 1}
CONSTANTS c1, c2
const_ClientOf == [r \in Reqs |-> IF r = 2 THEN c2 ELSE c1]
const_Steps == [r \in Reqs |-> r]
=============================================================================
