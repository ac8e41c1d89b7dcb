--------------------------- MODULE MCControlBridge ---------------------------
(* Two keys and every request any client can send, over two bridge           *)
(* generations and the saturated one.                                         *)
EXTENDS ControlBridge, TLC

KeySymmetry == Permutations(Keys)
=============================================================================
