--------------------------- MODULE MCTierPlans ---------------------------
(***************************************************************************)
(* Model values for the two memory tiers of the runs on tier plans.        *)
(***************************************************************************)
EXTENDS TierPlans

CONSTANTS cuda, cpu
=============================================================================
