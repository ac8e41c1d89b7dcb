---------------------------- MODULE MCBoundedRun ----------------------------
(* Two runs that compete for the clock. *)
EXTENDS BoundedRun, TLC

KeySymmetry == Permutations(Keys)
=============================================================================
