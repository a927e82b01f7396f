--------------------------- MODULE MCCapturePilot ---------------------------
(***************************************************************************)
(* A short session: a budget of a few holds, and few commands.             *)
(***************************************************************************)
EXTENDS CapturePilot
=============================================================================
