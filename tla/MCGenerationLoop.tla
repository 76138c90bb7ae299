-------------------------- MODULE MCGenerationLoop --------------------------
(***************************************************************************)
(* The runs on the generation loop give every constant a value in their    *)
(* configuration and use the specification as it is.                       *)
(***************************************************************************)
EXTENDS GenerationLoop
=============================================================================
