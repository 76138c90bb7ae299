------------------------------ MODULE TokenLog ------------------------------
(***************************************************************************)
(* What one cache layer promises its readers, whatever tier, layout or     *)
(* precision its rows are in: an ordered list of tokens that grows at the  *)
(* end, knows a position above all it was ever given, loses tokens only    *)
(* when it is told which to retain, starts over when it is cleared, and    *)
(* comes back as it was from a checkpoint.                                 *)
(***************************************************************************)
EXTENDS Integers, Sequences

VARIABLES
  tokens,   \* the positions of the tokens a reader gets, in slot order
  next,     \* the position of the next token whose caller names none
  saved     \* the contents of the checkpoint, <<>> before the first save

vars == <<tokens, next, saved>>

Init ==
  /\ tokens = <<>>
  /\ next = 0
  /\ saved = <<>>

Extend(start, n) ==
  /\ tokens' = tokens \o [i \in 1 .. n |-> start + i - 1]
  /\ next' = IF start + n > next THEN start + n ELSE next
  /\ UNCHANGED saved

Retain(idx) ==
  /\ \A i \in DOMAIN idx : idx[i] \in DOMAIN tokens
  /\ tokens' = [i \in DOMAIN idx |-> tokens[idx[i]]]
  /\ UNCHANGED <<next, saved>>

Restart ==
  /\ tokens' = <<>>
  /\ next' = 0
  /\ UNCHANGED saved

Save ==
  /\ saved' = <<tokens, next>>
  /\ UNCHANGED <<tokens, next>>

Restore ==
  /\ saved # <<>>
  /\ <<tokens', next'>> = saved
  /\ UNCHANGED saved

\* The list tokens' names the retained tokens among those of tokens, so the
\* slots that were kept can be read off: each survivor has an old slot.
RetainSome ==
  \E idx \in [1 .. Len(tokens') -> DOMAIN tokens] : Retain(idx)

ExtendSome ==
  /\ Len(tokens') > Len(tokens)
  /\ Extend(tokens'[Len(tokens) + 1], Len(tokens') - Len(tokens))

Next == ExtendSome \/ RetainSome \/ Restart \/ Save \/ Restore

Spec == Init /\ [][Next]_vars
=============================================================================
