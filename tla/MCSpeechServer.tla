--------------------------- MODULE MCSpeechServer ---------------------------
(***************************************************************************)
(* Two connections: over a pool of one thread one waits for the worker,    *)
(* over a pool of two one waits for the mutex.  Liveness is checked, so no *)
(* symmetry is declared.                                                   *)
(***************************************************************************)
EXTENDS SpeechServer

OneOrTwo == {1, 2}
Two == {2}
=============================================================================
