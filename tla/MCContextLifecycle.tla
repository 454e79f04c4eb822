--------------------------- MODULE MCContextLifecycle ---------------------------
(* Two contexts: both may live at once, or one follow the other.           *)
EXTENDS ContextLifecycle, TLC

Symmetry == Permutations(Contexts) \cup Permutations(Addresses)
=============================================================================
