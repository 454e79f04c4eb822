------------------------------ MODULE MCLauncher ------------------------------
(* Three starts: two that overlap, and one after them.                       *)
EXTENDS Launcher
=============================================================================
