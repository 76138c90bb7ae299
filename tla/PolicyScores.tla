---------------------------- MODULE PolicyScores ----------------------------
(***************************************************************************)
(* What the retention policies compute (policies/*.py): a score for every  *)
(* slot from the signals of a layer, and the slots that survive under a    *)
(* budget.  A layer is its parallel arrays `positions`, `lastAccess`,      *)
(* `cum` (accumulated attention) and `hits`, sequences of numbers.         *)
(*                                                                         *)
(* Scores are compared and never otherwise used, so a normalised signal is *)
(* kept exact, as numerators over one common denominator, and a blend is   *)
(* multiplied out.  Weights are the defaults of the constructors, scaled   *)
(* to integers: dividing by their sum changes no comparison.  Rounding to  *)
(* float32 is not modelled.  The sliding window has window = None.         *)
(***************************************************************************)
EXTENDS Integers, Sequences, FiniteSetsExt, Functions

PolicyNames ==
  {"full_cache", "sliding_window", "lru", "attention_based",
   "token_importance", "adaptive"}

\* uses_attention
UsesAttention(policy) == policy \notin {"full_cache", "sliding_window"}

-----------------------------------------------------------------------------
(***************************************************************************)
(* policies/signals.py.  A signal is a function num on the slots and a     *)
(* positive den.                                                           *)
(***************************************************************************)

\* Mutant of Minmax: the scale is turned round.
MinmaxReversed(x) ==
  LET hi == Max(Range(x))
      span == hi - Min(Range(x))
  IN [num |-> [s \in DOMAIN x |-> hi - x[s]],
      den |-> IF span = 0 THEN 1 ELSE span]

\* minmax: zeros when the range is degenerate.
Minmax(x) ==
  LET lo == Min(Range(x))
      span == Max(Range(x)) - lo
  IN [num |-> [s \in DOMAIN x |-> x[s] - lo],
      den |-> IF span = 0 THEN 1 ELSE span]

\* rank_normalize: equal values share a midrank, all equal means zeros.
RankNormalize(x) ==
  LET below(s) == Cardinality({t \in DOMAIN x : x[t] < x[s]})
      equal(s) == Cardinality({t \in DOMAIN x : x[t] = x[s]})
  IN IF Cardinality(Range(x)) = 1
     THEN [num |-> [s \in DOMAIN x |-> 0], den |-> 1]
     ELSE [num |-> [s \in DOMAIN x |-> 2 * below(s) + equal(s) - 1],
           den |-> 2 * (Len(x) - 1)]

\* weighted_sum of two signals, up to the sum of the weights.
Blend(wa, a, wb, b) ==
  [num |-> [s \in DOMAIN a.num |->
              wa * a.num[s] * b.den + wb * b.num[s] * a.den],
   den |-> a.den * b.den]

-----------------------------------------------------------------------------
(***************************************************************************)
(* The score() of each policy.                                             *)
(***************************************************************************)

\* last_access first, then position.
LruScore(l) ==
  LET span == Max(Range(l.positions)) + 1
  IN [s \in DOMAIN l.positions |-> l.lastAccess[s] * span + l.positions[s]]

\* Default weights: attention 1, recency 1/2, frequency 1/4, position 0.
TokenImportanceScore(l) ==
  Blend(1, Blend(4, RankNormalize(l.cum), 2, Minmax(l.lastAccess)),
        1, Minmax(l.hits)).num

\* memory_pressure = pressure / cap
Pressure(n, cap) == IF n < cap THEN n ELSE cap

\* recency_weight: 1/5 up to half the budget, 7/10 at the full budget or with
\* less than 1/20 of it free, linear in between.
RecencyWeight(pressure, cap) ==
  IF 20 * (cap - pressure) < cap THEN [num |-> 7, den |-> 10]
  ELSE IF 2 * pressure <= cap THEN [num |-> 2, den |-> 10]
  ELSE [num |-> 2 * cap + 5 * (2 * pressure - cap), den |-> 10 * cap]

AdaptiveScore(l, cap) ==
  LET w == RecencyWeight(Pressure(Len(l.positions), cap), cap)
  IN Blend(w.den - w.num, RankNormalize(l.cum), w.num, Minmax(l.lastAccess)).num

Score(policy, l, cap) ==
  CASE policy = "full_cache" -> [s \in DOMAIN l.positions |-> 1]
    [] policy = "sliding_window" -> l.positions
    [] policy = "lru" -> LruScore(l)
    [] policy = "attention_based" -> l.cum
    [] policy = "token_importance" -> TokenImportanceScore(l)
    [] policy = "adaptive" -> AdaptiveScore(l, cap)

-----------------------------------------------------------------------------
(***************************************************************************)
(* BaseCachePolicy.select                                                  *)
(***************************************************************************)

\* The place of slots in the stable descending argsort.
ComesBefore(x, s, t) == x[s] > x[t] \/ (x[s] = x[t] /\ s < t)

\* Mutant of Selected: protected slots have to be among the best.
SelectedUnprotected(x, protect, budget) ==
  {kept \in SUBSET DOMAIN x :
     /\ Cardinality(kept) = budget
     /\ \A s \in kept, t \in DOMAIN x \ kept : ComesBefore(x, s, t)}

\* The slots kept: the protected ones and the first of the others in that
\* order.  There is one such set when budget slots can hold the protected ones.
Selected(x, protect, budget) ==
  {kept \in SUBSET DOMAIN x :
     /\ Cardinality(kept) = budget
     /\ protect \subseteq kept
     /\ \A s \in kept \ protect, t \in DOMAIN x \ kept : ComesBefore(x, s, t)}
=============================================================================
