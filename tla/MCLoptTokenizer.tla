-------------------------- MODULE MCLoptTokenizer ---------------------------
(***************************************************************************)
(* Texts of two and three chunks of seven characters that overlap by seven, *)
(* with tokens of one or two characters.  The overlap is as long as a chunk *)
(* here, where the code takes an eighth: it has to be twice Edge or more,   *)
(* and match and merge see only the offsets that two chunks share.          *)
(***************************************************************************)
EXTENDS LoptTokenizer
=============================================================================
