----------------------------- MODULE ResultSets -----------------------------
(***************************************************************************)
(* What write_results promises (bench/runner.py): every writer publishes   *)
(* at most one set of results, under a basename no other set has, and a    *)
(* published set is never taken back or replaced.                          *)
(***************************************************************************)
CONSTANTS
  Writers,
  Bases,      \* the basenames
  Nobody      \* the author of an unpublished set

VARIABLE published   \* the author of the set under each basename

Init == published = [b \in Bases |-> Nobody]

Publish(w, b) ==
  /\ published[b] = Nobody
  /\ \A c \in Bases : published[c] # w
  /\ published' = [published EXCEPT ![b] = w]

Next == \E w \in Writers, b \in Bases : Publish(w, b)

Spec == Init /\ [][Next]_published
=============================================================================
