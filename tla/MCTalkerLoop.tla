---------------------------- MODULE MCTalkerLoop ----------------------------
(***************************************************************************)
(* A cache of 5 rows with a window of 3: prompts inside the window, at its *)
(* edge, past it and past the cache itself; enough frames to leave the     *)
(* window and to reach the end of the cache; two syntheses, so that the    *)
(* second runs over the rows of the first.                                 *)
(***************************************************************************)
EXTENDS TalkerLoop

MCPromptLens == {1, 2, 3, 4, 6}
=============================================================================
