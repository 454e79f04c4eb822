---------------------------- MODULE MCJoinTrimmer ----------------------------
(***************************************************************************)
(* Blocks of two samples, so that pushes leave a half block; a lead and a  *)
(* trail of one and two blocks, shorter than the silence a piece can hold; *)
(* three pieces: the first, the last and one that is neither.              *)
(***************************************************************************)
EXTENDS JoinTrimmer
=============================================================================
