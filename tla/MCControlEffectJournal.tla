----------------------- MODULE MCControlEffectJournal -----------------------
(* Two keys under one plan; the transition limit is reached.                  *)
EXTENDS ControlEffectJournal, TLC

KeySymmetry == Permutations(Keys)
=============================================================================
