------------------------- MODULE MCControllerSession -------------------------
(***************************************************************************)
(* Two processes, run again and again, that compete for one controller and *)
(* one machine, on either platform.                                        *)
(***************************************************************************)
EXTENDS ControllerSession
=============================================================================
