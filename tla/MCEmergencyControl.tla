--------------------------- MODULE MCEmergencyControl ---------------------------
(***************************************************************************)
(* Symbols for the model checker.                                          *)
(***************************************************************************)
EXTENDS EmergencyControl, TLC

CONSTANT x

OnlyX == {x}
=============================================================================
