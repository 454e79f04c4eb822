------------------------------- MODULE MCWebUi -------------------------------
(***************************************************************************)
(* Three runs: the one that was stopped, the one whose page its late       *)
(* answer resets, and the one that may then start beside it.  Chunks that  *)
(* end within a sample and one longer than a block; a clock long enough    *)
(* for a player to fall behind.                                            *)
(***************************************************************************)
EXTENDS WebUi
=============================================================================
