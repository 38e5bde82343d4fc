------------------------- MODULE MCVehiclePipeline -------------------------
(* Small instances of VehiclePipeline for TLC. *)
EXTENDS VehiclePipeline

(* A vehicle at the start of the pipeline and one already in recon: from   *)
(* them every phase is reached, and both kinds of WIN.                     *)
TwoStarts == {"uploaded", "recon"}

(* A PATCH that sends the vehicle back and one that jumps ahead. *)
TwoPatches == {"uploaded", "buying"}
=============================================================================
