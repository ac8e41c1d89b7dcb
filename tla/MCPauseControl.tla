--------------------------- MODULE MCPauseControl ---------------------------
(* The coordinator, journal and plugin composed, for small sets of keys.      *)
EXTENDS PauseControl, TLC

KeySymmetry == Permutations(Keys)
=============================================================================
