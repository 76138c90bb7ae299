--------------------------- MODULE MCForwardPass ---------------------------
(***************************************************************************)
(* A model of two layers: every policy with one budget for both layers,    *)
(* with and without a sink, and with a budget per layer; two of them with  *)
(* the Hugging Face backend.                                               *)
(***************************************************************************)
EXTENDS ForwardPass

OneBudget == [cap |-> <<2, 2>>, sinks |-> 0]
WithSink == [cap |-> <<2, 2>>, sinks |-> 1]
PerLayer == [cap |-> <<1, 2>>, sinks |-> 0]

Budgets == {<<2, 2>>, <<1, 3>>, <<3, 1>>, <<1, 2>>, <<2, 1>>}

\* No allocation leads out of the budgets, as PassesImplementTheCache assumes.
ASSUME BudgetsClosed ==
  \A a \in Budgets : \A b \in [Layers -> 1 .. SumOver(a)] :
    SumOver(b) = SumOver(a) => b \in Budgets

AllSetups ==
  [policy : PolicyNames, backend : {"synthetic"},
   config : {OneBudget, WithSink, PerLayer}]
    \cup [policy : {"sliding_window", "token_importance"}, backend : {"hf"},
          config : {OneBudget, WithSink}]
=============================================================================
