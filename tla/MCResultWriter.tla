--------------------------- MODULE MCResultWriter ---------------------------
(***************************************************************************)
(* What earlier processes may have left in the directory: nothing, a whole *)
(* set, or the last file of a set that its author could not finish         *)
(* removing.                                                               *)
(***************************************************************************)
EXTENDS ResultWriter

SomeLeftovers == {{}, {0} \X Artifacts, {<<0, CONFIG>>}}
=============================================================================
