----------------------------- MODULE MCKVCache -----------------------------
(***************************************************************************)
(* Budgets for the runs on a cache of two layers: None, one number for     *)
(* both layers, and a list with a budget per layer; and for a cache of one *)
(* layer.                                                                  *)
(***************************************************************************)
EXTENDS KVCache

NoBudget == <<0, 0>>
OneBudget == <<2, 2>>
PerLayer == <<1, 2>>

AllCapacities == {NoBudget, OneBudget, PerLayer}
OneLayer == {<<0>>, <<2>>}
=============================================================================
