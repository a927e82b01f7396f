---------------------------- MODULE MCActiveLoop ----------------------------
(***************************************************************************)
(* Two slots and a loop that asks for four results, so that the ring fills *)
(* and wraps more than once; the frames differ in being usable.            *)
(***************************************************************************)
EXTENDS ActiveLoop
=============================================================================
