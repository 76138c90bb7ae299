--------------------------- MODULE MCLayerStorage ---------------------------
(***************************************************************************)
(* Model values for the two memory tiers of the runs on one cache layer.   *)
(***************************************************************************)
EXTENDS LayerStorage

CONSTANTS cuda, cpu
=============================================================================
