------------------------------ MODULE MCGpuRing ------------------------------
(***************************************************************************)
(* A ring of three slots, more submissions than slots, and one frame of    *)
(* three without a usable embedding.                                       *)
(***************************************************************************)
EXTENDS GpuRing
=============================================================================
