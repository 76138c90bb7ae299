-------------------------- MODULE BudgetAllocation --------------------------
(***************************************************************************)
(* How a total token budget is divided over the layers (allocation/*.py).  *)
(* The strategies read the attention a layer has accumulated, `cums`, and  *)
(* the number of sinks.  A concentration is a fraction, the sum of squares *)
(* over the square of the sum; all of them are put over one denominator,   *)
(* where the code divides floats.                                          *)
(***************************************************************************)
EXTENDS Integers, Sequences, FiniteSetsExt

SumOver(f) == MapThenSumSet(LAMBDA k : f[k], DOMAIN f)

\* max(1, sinks)
MinPerLayer(sinks) == IF sinks > 1 THEN sinks ELSE 1

\* UniformAllocationStrategy over n layers: the first layers take the rest.
Uniform(total, n) ==
  [i \in 1 .. n |-> (total \div n) + (IF i <= total % n THEN 1 ELSE 0)]

\* Squares and square of the sum of a layer's attention; 0 over 1 without any.
Concentration(cum) ==
  LET mass == SumOver(cum)
  IN IF mass = 0 THEN [num |-> 0, den |-> 1]
     ELSE [num |-> SumOver([k \in DOMAIN cum |-> cum[k] * cum[k]]),
           den |-> mass * mass]

\* Concentrations over the product of their denominators.
Concentrations(cums) ==
  LET c == [i \in DOMAIN cums |-> Concentration(cums[i])]
      others(i) == MapThenFoldSet(LAMBDA x, y : x * y, 1, LAMBDA j : c[j].den,
                                  LAMBDA S : CHOOSE j \in S : TRUE,
                                  DOMAIN cums \ {i})
  IN [i \in DOMAIN cums |-> c[i].num * others(i)]

\* Mutant of Shares: shares are rounded up, whatever is left.
SharesRoundedUp(amount, weights) ==
  LET total == SumOver(weights)
  IN [i \in DOMAIN weights |-> (weights[i] * amount + total - 1) \div total]

\* The largest-remainder method; ties go to the lower layer.
Shares(amount, weights) ==
  LET total == SumOver(weights)
      floored == [i \in DOMAIN weights |-> (weights[i] * amount) \div total]
      extra == amount - SumOver(floored)
      rest(i) == (weights[i] * amount) % total
      before(i) == {j \in DOMAIN weights :
                      rest(j) > rest(i) \/ (rest(j) = rest(i) /\ j < i)}
  IN [i \in DOMAIN weights |->
        floored[i] + (IF Cardinality(before(i)) < extra THEN 1 ELSE 0)]

\* AttentionProportionalAllocationStrategy
AttentionProportional(total, sinks, cums) ==
  LET weights == Concentrations(cums)
      least == MinPerLayer(sinks)
      shares == Shares(total - least * Len(cums), weights)
  IN IF SumOver(weights) = 0 THEN Uniform(total, Len(cums))
     ELSE [i \in DOMAIN cums |-> least + shares[i]]

Allocated(strategy, total, sinks, cums) ==
  IF strategy = "uniform" THEN Uniform(total, Len(cums))
  ELSE AttentionProportional(total, sinks, cums)
=============================================================================
