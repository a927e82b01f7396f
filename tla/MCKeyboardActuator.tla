-------------------------- MODULE MCKeyboardActuator --------------------------
(***************************************************************************)
(* A jump, a shot, and a jump with a shot.                                 *)
(***************************************************************************)
EXTENDS KeyboardActuator

MCInputs == {{"z"}, {"x"}, {"z", "x"}}
=============================================================================
