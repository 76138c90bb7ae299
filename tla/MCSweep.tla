------------------------------ MODULE MCSweep ------------------------------
(***************************************************************************)
(* Experiments of two runs.  The runs differ in everything the memo's key  *)
(* has to tell apart: model, configuration, seed, metric and chunk size;   *)
(* with repetitions whose seeds overlap other runs' seeds.                 *)
(***************************************************************************)
EXTENDS Sweep

Bounded ==
  [model |-> "tiny", config |-> "preset", policy |-> "lru", seed |-> 1,
   metric |-> "perplexity", chunk |-> 1, cap |-> OneFor(4), sinks |-> 0,
   fromBytes |-> FALSE, halfOnCpu |-> FALSE, adaptive |-> FALSE,
   allocated |-> FALSE, measured |-> TRUE, repetitions |-> 2]

Specs ==
  {Bounded,
   [Bounded EXCEPT !.config = "reshaped", !.repetitions = 1],
   [Bounded EXCEPT !.seed = 2, !.adaptive = TRUE],
   [Bounded EXCEPT !.metric = "needle_retrieval", !.allocated = TRUE,
                    !.adaptive = TRUE],
   [Bounded EXCEPT !.chunk = 2, !.fromBytes = TRUE, !.repetitions = 1],
   [Bounded EXCEPT !.model = "pretrained", !.policy = "adaptive", !.adaptive = TRUE],
   [Bounded EXCEPT !.policy = "full_cache", !.cap = Unbounded, !.repetitions = 1],
   [Bounded EXCEPT !.measured = FALSE, !.repetitions = 1],
   [Bounded EXCEPT !.cap = OneFor(0), !.fromBytes = TRUE, !.repetitions = 1]}

TwoRuns == {<<s, t>> : s \in Specs, t \in Specs}

\* One run whose budget the monitor tightens.
OneAdaptiveRun == {<<[Bounded EXCEPT !.adaptive = TRUE, !.repetitions = 1]>>}
=============================================================================
