-------------------------- MODULE TierPlans_proofs --------------------------
(***************************************************************************)
(* Planning and carrying out tier moves never costs a token, and a plan    *)
(* that was carried out did what it announced: for any number of layers,   *)
(* any tiers, byte widths, budgets and bounds.                             *)
(*                                                                         *)
(* The file goes from one layer to plans.  IInv: layers and the accesses   *)
(* remembered of them are consistent.  Sums: the fold of the byte figures  *)
(* is a sum, split and joined by induction on subsets.  Places: a sorted   *)
(* list from each layer's place.  Placed: what each method does to where   *)
(* the rows are.  The planners: what their lists satisfy.  PlanInv: a plan *)
(* being carried out still says of the layers it was made from what its    *)
(* planner promised, and exactly the layers not left have moved.           *)
(***************************************************************************)
EXTENDS TierPlans, LayerRecord_proofs, FiniteSetTheorems, WellFoundedInduction

(***************************************************************************)
(* The inductive invariant: every layer is consistent and remembers one    *)
(* access, not later than now, for each of its tokens.                     *)
(***************************************************************************)

Accesses(i) == seen[i] \in Seq(0 .. step) /\ Len(seen[i]) = Len(layers[i].pos)

LayersOK ==
  /\ layers = [i \in Layers |-> layers[i]]
  /\ \A i \in Layers : LayerOK(layers[i])

AccessesOK ==
  /\ seen = [i \in Layers |-> seen[i]]
  /\ \A i \in Layers : Accesses(i)

IInv ==
  /\ step \in Nat
  /\ LayersOK
  /\ AccessesOK

\* A sequence over a set is one over any larger set.
LEMMA Widen ==
  ASSUME NEW S, NEW T, S \subseteq T, NEW s \in Seq(S)
  PROVE  s \in Seq(T)
<1>1. Len(s) \in Nat /\ s \in [1 .. Len(s) -> S]
  BY LenProperties
<1>2. s \in [1 .. Len(s) -> T]
  BY <1>1
<1> QED
  BY <1>1, <1>2

\* Facts about one layer, as the actions use them.
LEMMA LayerFacts ==
  ASSUME NEW l, LayerOK(l)
  PROVE  /\ l.pos \in Seq(Int) /\ Len(l.pos) \in Nat /\ l.next \in Nat
         /\ l.home \in Devices /\ l.boundary \in Nat
         /\ NumTokens(l) = Len(l.pos)
         /\ View(l) = l.pos
<1>1. l \in Layer
  BY DEF LayerOK
<1>2. View(l) = l.pos
  BY ViewIsPositions
<1> QED
  BY <1>1, <1>2 DEF Layer, NumTokens

\* Replacing one layer by a consistent one keeps all of them consistent.
LEMMA OneLayerChanges ==
  ASSUME LayersOK, NEW i \in Layers, NEW m, LayerOK(m),
         layers' = [layers EXCEPT ![i] = m]
  PROVE  /\ LayersOK'
         /\ layers'[i] = m
         /\ \A j \in Layers : j # i => layers'[j] = layers[j]
BY DEF LayersOK

\* A layer that keeps its tokens keeps what it remembers of them.
LEMMA TokensStay ==
  ASSUME IInv, LayersOK', seen' = seen, step' = step,
         \A j \in Layers : layers'[j].pos = layers[j].pos
  PROVE  IInv'
<1>1. AccessesOK'
  BY DEF IInv, AccessesOK, Accesses
<1> QED
  BY <1>1 DEF IInv

-----------------------------------------------------------------------------
(***************************************************************************)
(* Moves between the tiers.                                                *)
(***************************************************************************)

LEMMA OffloadWholeOK ==
  ASSUME NEW l, LayerOK(l), NEW d \in Devices
  PROVE  LayerOK(OffloadWhole(l, d)) /\ OffloadWhole(l, d).pos = l.pos
BY MoveToOK DEF OffloadWhole

\* A hosted tail is as long as the tokens that are not resident.
LEMMA HostedTail ==
  ASSUME NEW l, LayerOK(l), l.host # <<>>
  PROVE  HostedTokens(l) \in 1 .. Len(l.host)
<1>1. /\ EndsWith(l.pos, l.boundary, l.host)
      /\ l.boundary < Len(l.pos)
  BY DEF LayerOK
<1>2. Len(l.host) = Len(l.pos) - l.boundary
  BY <1>1 DEF EndsWith
<1>3. HostedTokens(l) = Len(l.pos) - l.boundary
  BY LayerFacts DEF HostedTokens, IsSplit
<1> QED
  BY <1>1, <1>2, <1>3, LayerFacts

LEMMA PrefetchWholeOK ==
  ASSUME NEW l, LayerOK(l)
  PROVE  LayerOK(PrefetchWhole(l)) /\ PrefetchWhole(l).pos = l.pos
<1>1. CASE l.offloaded
  <2>1. l.home \in Devices
    BY LayerFacts
  <2> QED
    BY <1>1, <2>1, MoveToOK DEF PrefetchWhole
<1>2. CASE ~l.offloaded /\ IsSplit(l)
  <2>1. l.host # <<>> /\ HostedTokens(l) \in 1 .. Len(l.host)
    BY <1>2, HostedTail DEF IsSplit
  <2>2. LayerOK(PrefetchTail(l, HostedTokens(l)))
        /\ PrefetchTail(l, HostedTokens(l)).pos = l.pos
    BY <2>1, PrefetchTailOK
  <2> QED
    BY <1>2, <2>2 DEF PrefetchWhole
<1>3. CASE ~l.offloaded /\ ~IsSplit(l)
  BY <1>3 DEF PrefetchWhole
<1> QED
  BY <1>1, <1>2, <1>3

\* A transfer of a plan changes at most one layer, and none of its tokens.
LEMMA TransferStep ==
  ASSUME IInv, ShedNext \/ FetchNext
  PROVE  /\ IInv'
         /\ seen' = seen
         /\ \A j \in Layers : LayerOK(layers[j]) /\ LayerOK(layers'[j])
                              /\ layers'[j].pos = layers[j].pos
<1> DEFINE i == Head(todo)
           Same(l, m) == LayerOK(m) /\ m.pos = l.pos
<1>1. LayersOK /\ (\A j \in Layers : LayerOK(layers[j]))
  BY DEF IInv, LayersOK
<1>2. seen' = seen /\ step' = step
  BY DEF ShedNext, FetchNext, Move
<1>3. \E m : layers' = [layers EXCEPT ![i] = m]
             /\ (i \in Layers => Same(layers[i], m))
  <2>1. CASE ShedNext
    <3>1. layers' = [layers EXCEPT ![i] = OffloadWhole(layers[i], HostDevice)]
      BY <2>1 DEF ShedNext, Move
    <3>2. i \in Layers => Same(layers[i], OffloadWhole(layers[i], HostDevice))
      BY <1>1, OffloadWholeOK, HomesAssumption
    <3> QED
      BY <3>1, <3>2
  <2>2. CASE FetchNext
    <3>1. layers' = [layers EXCEPT ![i] = PrefetchWhole(layers[i])]
      BY <2>2 DEF FetchNext, Move
    <3>2. i \in Layers => Same(layers[i], PrefetchWhole(layers[i]))
      BY <1>1, PrefetchWholeOK
    <3> QED
      BY <3>1, <3>2
  <2> QED
    BY <2>1, <2>2
<1>4. PICK m : layers' = [layers EXCEPT ![i] = m]
               /\ (i \in Layers => Same(layers[i], m))
  BY <1>3
<1>5. LayersOK' /\ (\A j \in Layers : layers'[j].pos = layers[j].pos)
  <2>1. CASE i \in Layers
    <3>1. LayerOK(m) /\ m.pos = layers[i].pos
      BY <1>4, <2>1
    <3> HIDE DEF i
    <3>2. LayersOK' /\ layers'[i] = m
          /\ (\A j \in Layers : j # i => layers'[j] = layers[j])
      BY <1>1, <1>4, <2>1, <3>1, OneLayerChanges
    <3> QED
      BY <3>1, <3>2
  <2>2. CASE i \notin Layers
    <3> HIDE DEF i
    <3>1. layers' = layers
      BY <1>1, <1>4, <2>2 DEF LayersOK
    <3> QED
      BY <1>1, <3>1 DEF LayersOK
  <2> QED
    BY <2>1, <2>2
<1>6. \A j \in Layers : LayerOK(layers'[j])
  BY <1>5 DEF LayersOK
<1> QED
  BY <1>1, <1>2, <1>5, <1>6, TokensStay

-----------------------------------------------------------------------------
(***************************************************************************)
(* Steps between plans.                                                    *)
(***************************************************************************)

LEMMA AppendStep ==
  ASSUME IInv, NEW i \in Layers, NEW n \in 1 .. MaxTokens, AppendTokens(i, n)
  PROVE  IInv'
<1> DEFINE l == layers[i]
           m == AppendRows(l, Run(l.next, n))
<1>1. LayerOK(l) /\ LayersOK /\ step \in Nat /\ n \in Nat
  BY BoundsAssumption DEF IInv, LayersOK
<1>2. l.next \in Nat /\ Len(l.pos) \in Nat /\ l.pos \in Seq(Int)
  BY <1>1, LayerFacts
<1>3. LayerOK(m) /\ m.pos = l.pos \o Run(l.next, n)
  <2>1. l.next >= l.next
    BY <1>2
  <2> HIDE DEF l
  <2> QED
    BY <1>1, <1>2, <2>1, AppendRowsOK
<1>4. layers' = [layers EXCEPT ![i] = m]
  BY DEF AppendTokens, Run
<1>5. step' = step /\ seen' = [seen EXCEPT ![i] = @ \o [k \in 1 .. n |-> step]]
  BY DEF AppendTokens
<1>6. LayersOK' /\ layers'[i] = m
      /\ (\A j \in Layers : j # i => layers'[j] = layers[j])
  <2> HIDE DEF m, l
  <2> QED BY <1>1, <1>3, <1>4, OneLayerChanges
<1>7. Len(Run(l.next, n)) = n /\ Run(l.next, n) \in Seq(Int)
  BY <1>1, <1>2 DEF Run
<1>8. Len(m.pos) = Len(l.pos) + n
  <2> DEFINE run == Run(l.next, n)
             old == l.pos
  <2>1. old \in Seq(Int) /\ run \in Seq(Int) /\ Len(run) = n /\ m.pos = old \o run
    BY <1>2, <1>3, <1>7
  <2> HIDE DEF m, run, old
  <2>2. Len(m.pos) = Len(old) + n
    BY <2>1, ConcatProperties
  <2> QED
    BY <2>2 DEF old
<1>9. AccessesOK'
  <2>1. seen = [j \in Layers |-> seen[j]] /\ (\A j \in Layers : Accesses(j))
    BY DEF IInv, AccessesOK
  <2>2. seen' = [j \in Layers |-> seen'[j]]
    BY <1>5, <2>1
  <2>3. Accesses(i)'
    <3> DEFINE new == [k \in 1 .. n |-> step]
    <3>1. seen'[i] = seen[i] \o new
      BY <1>5, <2>1
    <3>2. new \in Seq(0 .. step) /\ Len(new) = n
      BY <1>1
    <3>3. seen[i] \in Seq(0 .. step) /\ Len(seen[i]) = Len(l.pos)
      BY <2>1 DEF Accesses
    <3>4. seen'[i] \in Seq(0 .. step) /\ Len(seen'[i]) = Len(l.pos) + n
      <4> DEFINE old == seen[i]
                 p == Len(l.pos)
      <4>1. seen'[i] = old \o new /\ old \in Seq(0 .. step) /\ Len(old) = p
        BY <3>1, <3>3
      <4> HIDE DEF new, old, p
      <4>2. old \o new \in Seq(0 .. step) /\ Len(old \o new) = p + n
        BY <3>2, <4>1, ConcatProperties
      <4> QED
        BY <4>1, <4>2 DEF p
    <3>5. Len(layers'[i].pos) = Len(l.pos) + n
      <4> HIDE DEF m, l
      <4> QED BY <1>6, <1>8
    <3> QED
      BY <1>5, <3>4, <3>5 DEF Accesses
  <2>4. ASSUME NEW j \in Layers, j # i PROVE Accesses(j)'
    <3>1. seen'[j] = seen[j] /\ layers'[j] = layers[j]
      BY <1>5, <1>6, <2>1, <2>4
    <3> QED
      BY <1>5, <2>1, <3>1 DEF Accesses
  <2> QED
    BY <2>2, <2>3, <2>4 DEF AccessesOK
<1> QED
  BY <1>1, <1>5, <1>6, <1>9 DEF IInv

LEMMA AttendStep ==
  ASSUME IInv, NEW i \in Layers, NEW slots \in SUBSET (1 .. MaxTokens),
         Attend(i, slots)
  PROVE  IInv'
<1>1. /\ seen = [j \in Layers |-> seen[j]] /\ step \in Nat
      /\ (\A j \in Layers : Accesses(j)) /\ LayersOK
  BY DEF IInv, AccessesOK
<1>2. /\ seen' = [seen EXCEPT ![i] = [s \in 1 .. Len(@) |-> IF s \in slots THEN step ELSE @[s]]]
      /\ layers' = layers /\ step' = step
  BY DEF Attend
<1>3. seen' = [j \in Layers |-> seen'[j]]
  BY <1>1, <1>2
<1>4. Accesses(i)'
  <2>1. seen[i] \in Seq(0 .. step)
    BY <1>1 DEF Accesses
  <2>2. seen'[i] = [s \in 1 .. Len(seen[i]) |-> IF s \in slots THEN step ELSE seen[i][s]]
    BY <1>1, <1>2
  <2>3. Len(seen[i]) \in Nat /\ (\A s \in 1 .. Len(seen[i]) : seen[i][s] \in 0 .. step)
    BY <2>1, LenProperties, EntryOf
  <2>4. seen'[i] \in Seq(0 .. step) /\ Len(seen'[i]) = Len(seen[i])
    BY <1>1, <2>2, <2>3
  <2> QED
    BY <1>1, <1>2, <2>4 DEF Accesses
<1>5. \A j \in Layers : j # i => Accesses(j)'
  BY <1>1, <1>2 DEF Accesses
<1> QED
  BY <1>1, <1>2, <1>3, <1>4, <1>5 DEF IInv, AccessesOK, LayersOK

LEMMA AdvanceStep ==
  ASSUME IInv, Advance
  PROVE  IInv'
<1>1. step \in Nat /\ step' = step + 1 /\ layers' = layers /\ seen' = seen
  BY DEF IInv, Advance
<1>2. \A j \in Layers : Accesses(j)'
  <2> SUFFICES ASSUME NEW j \in Layers PROVE Accesses(j)'
    OBVIOUS
  <2>1. seen[j] \in Seq(0 .. step) /\ Len(seen[j]) = Len(layers[j].pos)
    BY DEF IInv, AccessesOK, Accesses
  <2>2. 0 .. step \subseteq 0 .. (step + 1)
    BY <1>1
  <2>3. seen[j] \in Seq(0 .. (step + 1))
    BY <2>1, <2>2, Widen
  <2> QED
    BY <1>1, <2>1, <2>3 DEF Accesses
<1> QED
  BY <1>1, <1>2 DEF IInv, LayersOK, AccessesOK

\* The lists of slots to keep name slots that exist.
LEMMA KeepListsNameSlots ==
  ASSUME NEW n \in Nat, NEW idx \in KeepLists(n)
  PROVE  idx \in Seq(1 .. n)
BY DEF KeepLists

LEMMA EvictStep ==
  ASSUME IInv, NEW i \in Layers, NEW idx \in KeepLists(NumTokens(layers[i])),
         Evict(i, idx)
  PROVE  IInv'
<1> DEFINE l == layers[i]
           m == Keep(l, idx)
<1>1. LayerOK(l) /\ LayersOK /\ step \in Nat
  BY DEF IInv, LayersOK
<1>2. l.pos \in Seq(Int) /\ Len(l.pos) \in Nat /\ NumTokens(l) = Len(l.pos)
  BY <1>1, LayerFacts
<1>3. idx \in Seq(1 .. Len(l.pos))
  BY <1>2, KeepListsNameSlots
<1>4. l.rep # "none"
  <2>1. l.rep = "none" => l.pos = <<>>
    BY <1>1 DEF LayerOK
  <2>2. Len(l.pos) > 0
    BY <1>2 DEF Evict
  <2> HIDE DEF l
  <2> QED
    BY <2>1, <2>2
<1>5. LayerOK(m) /\ m.pos = Gather(l.pos, idx)
  BY <1>1, <1>3, <1>4, KeepOK
<1>6. /\ layers' = [layers EXCEPT ![i] = m] /\ step' = step
      /\ seen' = [seen EXCEPT ![i] = [k \in 1 .. Len(idx) |-> @[idx[k]]]]
  BY DEF Evict
<1>7. LayersOK' /\ layers'[i] = m
      /\ (\A j \in Layers : j # i => layers'[j] = layers[j])
  <2> HIDE DEF m, l
  <2> QED BY <1>1, <1>5, <1>6, OneLayerChanges
<1>8. Len(m.pos) = Len(idx)
  <2>1. Len(Gather(l.pos, idx)) = Len(idx)
    BY DEF Gather
  <2> QED
    BY <1>5, <2>1
<1>9. AccessesOK'
  <2>1. seen = [j \in Layers |-> seen[j]] /\ (\A j \in Layers : Accesses(j))
    BY DEF IInv, AccessesOK
  <2>2. seen' = [j \in Layers |-> seen'[j]]
    BY <1>6, <2>1
  <2>3. Accesses(i)'
    <3>1. seen[i] \in Seq(0 .. step) /\ Len(seen[i]) = Len(l.pos)
      BY <2>1 DEF Accesses
    <3>2. seen'[i] = [k \in 1 .. Len(idx) |-> seen[i][idx[k]]]
      BY <1>6, <2>1
    <3>3. \A k \in 1 .. Len(idx) : seen[i][idx[k]] \in 0 .. step
      <4> SUFFICES ASSUME NEW k \in 1 .. Len(idx) PROVE seen[i][idx[k]] \in 0 .. step
        OBVIOUS
      <4>1. idx[k] \in 1 .. Len(l.pos)
        BY <1>3, EntryOf
      <4> HIDE DEF l
      <4> QED BY <3>1, <4>1, EntryOf
    <3>4. Len(idx) \in Nat
      <4> HIDE DEF l
      <4> QED BY <1>3
    <3>5. seen'[i] \in Seq(0 .. step) /\ Len(seen'[i]) = Len(idx)
      BY <3>2, <3>3, <3>4
    <3>6. Len(layers'[i].pos) = Len(idx)
      <4> HIDE DEF m
      <4> QED BY <1>7, <1>8
    <3> QED
      BY <1>6, <3>5, <3>6 DEF Accesses
  <2>4. ASSUME NEW j \in Layers, j # i PROVE Accesses(j)'
    <3>1. seen'[j] = seen[j] /\ layers'[j] = layers[j]
      BY <1>6, <1>7, <2>1, <2>4
    <3> QED
      BY <1>6, <2>1, <3>1 DEF Accesses
  <2> QED
    BY <2>2, <2>3, <2>4 DEF AccessesOK
<1> QED
  BY <1>1, <1>6, <1>7, <1>9 DEF IInv

\* Compression and a partial offload keep the tokens of their layer.
LEMMA QuietSteps ==
  ASSUME IInv, NEW i \in Layers,
         CompressLayer(i) \/ \E r \in 1 .. MaxTokens : SplitLayer(i, r)
  PROVE  IInv'
<1>1. LayerOK(layers[i]) /\ LayersOK
  BY DEF IInv, LayersOK
<1>2. \E m : LayerOK(m) /\ m.pos = layers[i].pos
             /\ layers' = [layers EXCEPT ![i] = m]
  <2>1. CASE CompressLayer(i)
    BY <1>1, <2>1, CompressOK DEF CompressLayer
  <2>2. ASSUME NEW r \in 1 .. MaxTokens, SplitLayer(i, r)
        PROVE  \E m : LayerOK(m) /\ m.pos = layers[i].pos
                      /\ layers' = [layers EXCEPT ![i] = m]
    <3>1. Len(layers[i].pos) \in Nat /\ NumTokens(layers[i]) = Len(layers[i].pos)
      BY <1>1, LayerFacts
    <3>2. r \in 0 .. Len(layers[i].pos) /\ layers[i].rep # "quant"
      BY <2>2, <3>1, BoundsAssumption DEF SplitLayer
    <3>3. /\ LayerOK(OffloadTail(layers[i], r, HostDevice))
          /\ OffloadTail(layers[i], r, HostDevice).pos = layers[i].pos
      BY <1>1, <3>2, OffloadTailOK, HomesAssumption
    <3> QED
      BY <2>2, <3>3 DEF SplitLayer
  <2> QED
    BY <2>1, <2>2
<1>3. PICK m : LayerOK(m) /\ m.pos = layers[i].pos
               /\ layers' = [layers EXCEPT ![i] = m]
  BY <1>2
<1>4. LayersOK' /\ layers'[i] = m
      /\ (\A j \in Layers : j # i => layers'[j] = layers[j])
  BY <1>1, <1>3, OneLayerChanges
<1>5. \A j \in Layers : layers'[j].pos = layers[j].pos
  BY <1>3, <1>4
<1>6. seen' = seen /\ step' = step
  BY DEF CompressLayer, SplitLayer
<1> QED
  BY <1>4, <1>5, <1>6, TokensStay

\* Planning changes nothing but the plan.
LEMMA PlanSteps ==
  ASSUME Next
  PROVE  \/ \E i \in Layers, n \in 1 .. MaxTokens : AppendTokens(i, n)
         \/ Advance
         \/ \E i \in Layers, slots \in SUBSET (1 .. MaxTokens) : Attend(i, slots)
         \/ \E i \in Layers : \E idx \in KeepLists(NumTokens(layers[i])) : Evict(i, idx)
         \/ \E i \in Layers : CompressLayer(i) \/ \E r \in 1 .. MaxTokens : SplitLayer(i, r)
         \/ ShedNext \/ FetchNext
         \/ UNCHANGED <<layers, seen, step>>
BY DEF Next, PlanOffload, Planned, PlanNothing, PlanNextLayer, PlanRecency, PlanDone

LEMMA InitInv == Init => IInv
<1> SUFFICES ASSUME Init PROVE IInv
  OBVIOUS
<1>1. PICK home \in Homes, cap \in Capacities :
        layers = [i \in Layers |-> NewLayer(home, cap)]
  BY DEF Init
<1>2. LayerOK(NewLayer(home, cap)) /\ NewLayer(home, cap).pos = <<>>
  BY <1>1, NewLayerOK, HomesAssumption, PlanInputsAssumption DEF NewLayer
<1>3. LayersOK
  BY <1>1, <1>2 DEF LayersOK
<1>4. seen = [i \in Layers |-> <<>>] /\ step = 0
  BY DEF Init
<1>5. AccessesOK
  BY <1>1, <1>2, <1>4 DEF AccessesOK, Accesses
<1> QED
  BY <1>3, <1>4, <1>5 DEF IInv

LEMMA StepInv == IInv /\ [Next]_vars => IInv'
<1> SUFFICES ASSUME IInv, [Next]_vars PROVE IInv'
  OBVIOUS
<1>1. CASE UNCHANGED <<layers, seen, step>>
  BY <1>1 DEF IInv, LayersOK, AccessesOK, Accesses
<1>2. CASE UNCHANGED vars
  BY <1>1, <1>2 DEF vars
<1>3. CASE Next
  BY <1>1, <1>3, PlanSteps, AppendStep, AdvanceStep, AttendStep, EvictStep,
     QuietSteps, TransferStep
<1> QED
  BY <1>2, <1>3

LEMMA AlwaysIInv == Spec => []IInv
BY InitInv, StepInv, PTL DEF Spec

-----------------------------------------------------------------------------
(***************************************************************************)
(* Sums over the layers.  A fold over a set takes its elements one by one, *)
(* in the order CHOOSE picks them; what follows shows that it is the sum,  *)
(* by induction on the subsets of a finite set.                            *)
(***************************************************************************)

\* Induction on the subsets of a finite set, for a set P of subsets: the
\* strict inclusion is well-founded, so a smallest subset outside P exists.
LEMMA SubsetInduction ==
  ASSUME NEW L, IsFiniteSet(L), NEW P,
         \A s \in SUBSET L : (\A t \in SUBSET s : t # s => t \in P) => s \in P
  PROVE  \A s \in SUBSET L : s \in P
<1> DEFINE out == {s \in SUBSET L : s \notin P}
<1>1. FiniteSubsetsOf(L) = SUBSET L
  BY FS_FiniteSubsetsOfFinite
<1>2. IsWellFoundedOn(StrictSubsetOrdering(L), SUBSET L)
  BY <1>1, FS_StrictSubsetOrderingWellFounded
<1>3. CASE out # {}
  <2>1. PICK s \in out :
          \A t \in out : ~ (<<t, s>> \in StrictSubsetOrdering(L))
    <3>1. out \subseteq SUBSET L
      OBVIOUS
    <3> HIDE DEF out
    <3> QED BY <1>2, <1>3, <3>1, WFMin
  <2>2. \A t \in SUBSET s : t # s => t \in P
    BY <2>1 DEF StrictSubsetOrdering
  <2> QED BY <2>1, <2>2
<1> QED BY <1>3

\* Induction on the numbers up to N, for a set P of numbers: on the sets 1 .. n.
LEMMA IntervalInduction ==
  ASSUME NEW N \in Nat, NEW P, 0 \in P,
         \A n \in 0 .. N - 1 : n \in P => n + 1 \in P
  PROVE  \A n \in 0 .. N : n \in P
<1> DEFINE Q == {s \in SUBSET (1 .. N) : \A n \in 0 .. N : s = 1 .. n => n \in P}
<1>1. IsFiniteSet(1 .. N)
  BY FS_Interval
<1>2. ASSUME NEW s \in SUBSET (1 .. N), \A t \in SUBSET s : t # s => t \in Q
      PROVE  s \in Q
  <2> SUFFICES ASSUME NEW n \in 0 .. N, s = 1 .. n PROVE n \in P
    OBVIOUS
  <2>1. CASE n = 0
    BY <2>1
  <2>2. CASE n # 0
    <3>1. /\ 1 .. n - 1 \subseteq s /\ n \in s /\ n \notin 1 .. n - 1
          /\ n - 1 \in 0 .. N - 1 /\ n - 1 \in 0 .. N
      BY <2>2
    <3>2. 1 .. n - 1 \in Q
      BY <1>2, <3>1
    <3>3. n - 1 \in P
      BY <3>1, <3>2
    <3>4. (n - 1) + 1 \in P
      BY <3>1, <3>3
    <3> QED BY <3>4
  <2> QED BY <2>1, <2>2
<1> HIDE DEF Q
<1>3. \A s \in SUBSET (1 .. N) : s \in Q
  BY <1>1, <1>2, SubsetInduction
<1>4. \A n \in 0 .. N : 1 .. n \in Q
  <2> SUFFICES ASSUME NEW n \in 0 .. N PROVE 1 .. n \in SUBSET (1 .. N)
    BY <1>3
  <2> QED OBVIOUS
<1> QED BY <1>4 DEF Q

Pick(s) == CHOOSE x \in s : TRUE

\* g lists, for every subset of S, the sum of F over it.
IsSum(g, F, S) ==
  g = [s \in SUBSET S |-> IF s = {} THEN 0 ELSE F[Pick(s)] + g[s \ {Pick(s)}]]

Sum(F, S) == (CHOOSE g : IsSum(g, F, S))[S]

LEMMA PickIn == ASSUME NEW s, s # {} PROVE Pick(s) \in s
BY DEF Pick

LEMMA SumRule ==
  ASSUME NEW S, NEW F, NEW g, IsSum(g, F, S)
  PROVE  /\ g[{}] = 0
         /\ \A s \in SUBSET S : s # {} => /\ Pick(s) \in S
                                          /\ s \ {Pick(s)} \in SUBSET s
                                          /\ s \ {Pick(s)} # s
                                          /\ g[s] = F[Pick(s)] + g[s \ {Pick(s)}]
<1>1. \A s \in SUBSET S :
        g[s] = IF s = {} THEN 0 ELSE F[Pick(s)] + g[s \ {Pick(s)}]
  BY DEF IsSum
<1> QED BY <1>1, PickIn

\* Two lists of sums agree wherever both are defined.
LEMMA SumUnique ==
  ASSUME NEW S, IsFiniteSet(S), NEW T, NEW F,
         NEW g, IsSum(g, F, S), NEW h, IsSum(h, F, T)
  PROVE  \A s \in SUBSET S : s \in SUBSET T => g[s] = h[s]
<1> DEFINE P == {s \in SUBSET S : s \in SUBSET T => g[s] = h[s]}
<1>1. ASSUME NEW s \in SUBSET S, \A t \in SUBSET s : t # s => t \in P
      PROVE  s \in P
  <2>1. CASE s = {}
    BY <2>1, SumRule
  <2>2. CASE s # {} /\ s \in SUBSET T
    <3>1. /\ s \ {Pick(s)} \in SUBSET s /\ s \ {Pick(s)} # s
          /\ g[s] = F[Pick(s)] + g[s \ {Pick(s)}]
          /\ h[s] = F[Pick(s)] + h[s \ {Pick(s)}]
      BY <2>2, SumRule
    <3>2. g[s \ {Pick(s)}] = h[s \ {Pick(s)}]
      BY <1>1, <2>2, <3>1
    <3> QED BY <3>1, <3>2
  <2>3. CASE s \notin SUBSET T
    BY <2>3
  <2> QED BY <2>1, <2>2, <2>3
<1> HIDE DEF P
<1>2. \A s \in SUBSET S : s \in P
  BY <1>1, SubsetInduction
<1> QED BY <1>2 DEF P

\* Every function has its sums over a finite set.
LEMMA SumExists ==
  ASSUME NEW S, IsFiniteSet(S), NEW F
  PROVE  \E g : IsSum(g, F, S)
<1> DEFINE P == {s \in SUBSET S : \E g : IsSum(g, F, s)}
           V(s) == (CHOOSE g : IsSum(g, F, s))[s]
<1>1. ASSUME NEW s \in SUBSET S, \A t \in SUBSET s : t # s => t \in P
      PROVE  s \in P
  <2>1. ASSUME NEW t \in SUBSET s, t # s
        PROVE  V(t) = IF t = {} THEN 0 ELSE F[Pick(t)] + V(t \ {Pick(t)})
    <3> DEFINE g == CHOOSE g : IsSum(g, F, t)
               u == t \ {Pick(t)}
               h == CHOOSE h : IsSum(h, F, u)
    <3>1. IsSum(g, F, t)
      BY <1>1, <2>1
    <3>2. CASE t = {}
      BY <3>1, <3>2, SumRule
    <3>3. CASE t # {}
      <4>1. u \in SUBSET t /\ u # t /\ g[t] = F[Pick(t)] + g[u]
        BY <3>1, <3>3, SumRule
      <4>2. u \in P
        BY <1>1, <2>1, <4>1
      <4>3. IsSum(h, F, u)
        BY <4>2
      <4>4. IsFiniteSet(t)
        BY <2>1, FS_Subset
      <4>5. g[u] = h[u]
        <5> HIDE DEF g, h, u
        <5> QED BY <3>1, <4>1, <4>3, <4>4, SumUnique
      <4> QED BY <3>3, <4>1, <4>5
    <3> QED BY <3>2, <3>3
  <2> DEFINE k == [t \in SUBSET s |->
                     IF t = {} THEN 0 ELSE F[Pick(t)] + V(t \ {Pick(t)})]
  <2> HIDE DEF V
  <2>2. ASSUME NEW t \in SUBSET s, t # {}
        PROVE  k[t \ {Pick(t)}] = V(t \ {Pick(t)})
    <3>1. t \ {Pick(t)} \in SUBSET s /\ t \ {Pick(t)} # s
      BY <2>2, PickIn
    <3> QED BY <2>1, <3>1
  <2>3. \A t \in SUBSET s :
          k[t] = IF t = {} THEN 0 ELSE F[Pick(t)] + k[t \ {Pick(t)}]
    BY <2>2
  <2>4. k = [t \in SUBSET s |->
               IF t = {} THEN 0 ELSE F[Pick(t)] + V(t \ {Pick(t)})]
    OBVIOUS
  <2> HIDE DEF k
  <2>5. IsSum(k, F, s)
    BY <2>3, <2>4 DEF IsSum
  <2> QED BY <2>5
<1> HIDE DEF P
<1>2. S \in P
  BY <1>1, SubsetInduction
<1> QED BY <1>2 DEF P

LEMMA SumIs ==
  ASSUME NEW S, IsFiniteSet(S), NEW F
  PROVE  \E g : IsSum(g, F, S) /\ Sum(F, S) = g[S]
BY SumExists DEF Sum

\* What a list of sums says.
SumsOf(g, F, S) ==
  /\ Sum(F, S) = g[S] /\ g[{}] = 0
  /\ \A s \in SUBSET S : s # {} => /\ Pick(s) \in S
                                   /\ s \ {Pick(s)} \in SUBSET s
                                   /\ s \ {Pick(s)} # s
                                   /\ g[s] = F[Pick(s)] + g[s \ {Pick(s)}]

LEMMA SumList ==
  ASSUME NEW S, IsFiniteSet(S), NEW F
  PROVE  \E g : SumsOf(g, F, S)
<1>1. PICK g : IsSum(g, F, S) /\ Sum(F, S) = g[S]
  BY SumIs
<1>2. SumsOf(g, F, S)
  BY <1>1, SumRule DEF SumsOf
<1> QED BY <1>2

LEMMA SumNat ==
  ASSUME NEW S, IsFiniteSet(S), NEW F, \A i \in S : F[i] \in Nat
  PROVE  Sum(F, S) \in Nat
<1>1. PICK g : IsSum(g, F, S) /\ Sum(F, S) = g[S]
  BY SumIs
<1> DEFINE P == {s \in SUBSET S : g[s] \in Nat}
<1>2. ASSUME NEW s \in SUBSET S, \A t \in SUBSET s : t # s => t \in P
      PROVE  s \in P
  <2>1. CASE s = {}
    BY <1>1, <2>1, SumRule
  <2>2. CASE s # {}
    <3>1. /\ Pick(s) \in S
          /\ s \ {Pick(s)} \in SUBSET s /\ s \ {Pick(s)} # s
          /\ g[s] = F[Pick(s)] + g[s \ {Pick(s)}]
      BY <1>1, <2>2, SumRule
    <3>2. g[s \ {Pick(s)}] \in Nat
      BY <1>2, <3>1
    <3>3. F[Pick(s)] \in Nat
      BY <3>1
    <3> QED BY <3>1, <3>2, <3>3
  <2> QED BY <2>1, <2>2
<1> HIDE DEF P
<1>3. S \in P
  BY <1>2, SubsetInduction
<1> QED BY <1>1, <1>3 DEF P

\* The sum of a pointwise sum.
LEMMA SumPlus ==
  ASSUME NEW S, IsFiniteSet(S), NEW F, NEW G, NEW H,
         \A i \in S : F[i] \in Nat /\ G[i] \in Nat /\ H[i] = F[i] + G[i]
  PROVE  Sum(H, S) = Sum(F, S) + Sum(G, S)
<1>1. PICK f : SumsOf(f, F, S)
  BY SumList
<1>2. PICK g : SumsOf(g, G, S)
  BY SumList
<1>3. PICK h : SumsOf(h, H, S)
  BY SumList
<1> DEFINE P == {s \in SUBSET S : /\ f[s] \in Nat /\ g[s] \in Nat
                                  /\ h[s] = f[s] + g[s]}
<1>4. ASSUME NEW s \in SUBSET S, \A t \in SUBSET s : t # s => t \in P
      PROVE  s \in P
  <2>1. CASE s = {}
    BY <1>1, <1>2, <1>3, <2>1 DEF SumsOf
  <2>2. CASE s # {}
    <3> DEFINE x == Pick(s)
               u == s \ {Pick(s)}
    <3>1. /\ x \in S /\ u \in SUBSET s /\ u # s
          /\ f[s] = F[x] + f[u]
          /\ g[s] = G[x] + g[u]
          /\ h[s] = H[x] + h[u]
      <4>1. x \in S /\ u \in SUBSET s /\ u # s /\ f[s] = F[x] + f[u]
        BY <1>1, <2>2 DEF SumsOf
      <4>2. x \in S /\ u \in SUBSET s /\ u # s /\ g[s] = G[x] + g[u]
        BY <1>2, <2>2 DEF SumsOf
      <4>3. x \in S /\ u \in SUBSET s /\ u # s /\ h[s] = H[x] + h[u]
        BY <1>3, <2>2 DEF SumsOf
      <4> HIDE DEF x, u
      <4> QED BY <4>1, <4>2, <4>3
    <3>2. u \in P
      BY <1>4, <3>1
    <3>3. f[u] \in Nat /\ g[u] \in Nat /\ h[u] = f[u] + g[u]
      BY <3>2
    <3>4. F[x] \in Nat /\ G[x] \in Nat /\ H[x] = F[x] + G[x]
      BY <3>1
    <3> HIDE DEF x, u, P
    <3>5. f[s] \in Nat /\ g[s] \in Nat /\ h[s] = f[s] + g[s]
      BY <3>1, <3>3, <3>4
    <3> QED BY <3>5 DEF P
  <2> QED BY <2>1, <2>2
<1> HIDE DEF P
<1>5. S \in P
  BY <1>4, SubsetInduction
<1> QED BY <1>1, <1>2, <1>3, <1>5 DEF P, SumsOf

\* A larger function has a larger sum.
LEMMA SumLess ==
  ASSUME NEW S, IsFiniteSet(S), NEW F, NEW G,
         \A i \in S : F[i] \in Nat /\ G[i] \in Nat /\ F[i] <= G[i]
  PROVE  Sum(F, S) \in Nat /\ Sum(G, S) \in Nat /\ Sum(F, S) <= Sum(G, S)
<1> DEFINE D == [i \in S |-> G[i] - F[i]]
<1>1. \A i \in S : D[i] \in Nat /\ G[i] = F[i] + D[i]
  OBVIOUS
<1> HIDE DEF D
<1>2. Sum(G, S) = Sum(F, S) + Sum(D, S)
  BY <1>1, SumPlus
<1>3. Sum(F, S) \in Nat /\ Sum(G, S) \in Nat /\ Sum(D, S) \in Nat
  BY <1>1, SumNat
<1> QED BY <1>2, <1>3

LEMMA SumSame ==
  ASSUME NEW S, IsFiniteSet(S), NEW F, NEW G,
         \A i \in S : F[i] \in Nat /\ F[i] = G[i]
  PROVE  Sum(F, S) = Sum(G, S)
<1>1. /\ Sum(F, S) \in Nat /\ Sum(G, S) \in Nat
      /\ Sum(F, S) <= Sum(G, S) /\ Sum(G, S) <= Sum(F, S)
  <2>1. \A i \in S : F[i] \in Nat /\ G[i] \in Nat /\ F[i] <= G[i] /\ G[i] <= F[i]
    OBVIOUS
  <2> QED BY <2>1, SumLess
<1> QED BY <1>1

\* A function that is n at one point and 0 elsewhere.
LEMMA SumPoint ==
  ASSUME NEW S, IsFiniteSet(S), NEW x \in S, NEW n \in Nat, NEW F,
         \A i \in S : F[i] = IF i = x THEN n ELSE 0
  PROVE  Sum(F, S) = n
<1>1. PICK f : IsSum(f, F, S) /\ Sum(F, S) = f[S]
  BY SumIs
<1> DEFINE P == {s \in SUBSET S : f[s] = IF x \in s THEN n ELSE 0}
<1>2. ASSUME NEW s \in SUBSET S, \A t \in SUBSET s : t # s => t \in P
      PROVE  s \in P
  <2>1. CASE s = {}
    BY <1>1, <2>1, SumRule
  <2>2. CASE s # {}
    <3> DEFINE y == Pick(s)
               u == s \ {Pick(s)}
    <3>1. /\ y \in S /\ u \in SUBSET s /\ u # s
          /\ f[s] = F[y] + f[u]
      BY <1>1, <2>2, SumRule
    <3>2. f[u] = IF x \in u THEN n ELSE 0
      BY <1>2, <3>1
    <3>3. F[y] = IF y = x THEN n ELSE 0
      BY <3>1
    <3>4. (x \in s <=> x = y \/ x \in u) /\ y \notin u
      BY <2>2, PickIn
    <3> HIDE DEF y, u
    <3>5. f[s] = IF x \in s THEN n ELSE 0
      BY <3>1, <3>2, <3>3, <3>4
    <3> QED BY <3>5
  <2> QED BY <2>1, <2>2
<1> HIDE DEF P
<1>3. S \in P
  BY <1>2, SubsetInduction
<1> QED BY <1>1, <1>3 DEF P

\* A function that grew by n at one point.
LEMMA SumBumped ==
  ASSUME NEW S, IsFiniteSet(S), NEW x \in S, NEW n \in Nat, NEW F, NEW G,
         \A i \in S : F[i] \in Nat /\ G[i] = IF i = x THEN F[i] + n ELSE F[i]
  PROVE  Sum(G, S) = Sum(F, S) + n
<1> DEFINE D == [i \in S |-> IF i = x THEN n ELSE 0]
<1>1. \A i \in S : D[i] = IF i = x THEN n ELSE 0
  OBVIOUS
<1> HIDE DEF D
<1>2. \A i \in S : F[i] \in Nat /\ D[i] \in Nat /\ G[i] = F[i] + D[i]
  BY <1>1
<1> QED BY <1>1, <1>2, SumPoint, SumPlus

\* F on s, and nothing elsewhere.
Only(F, s, L) == [i \in L |-> IF i \in s THEN F[i] ELSE 0]

\* The sum over a part is a sum over the whole.
LEMMA SumOnly ==
  ASSUME NEW L, IsFiniteSet(L), NEW F, \A i \in L : F[i] \in Nat,
         NEW S \in SUBSET L
  PROVE  Sum(F, S) = Sum(Only(F, S, L), L)
<1>1. PICK f : IsSum(f, F, L)
  BY SumExists
<1> DEFINE P == {s \in SUBSET L : f[s] = Sum(Only(F, s, L), L)}
<1>2. ASSUME NEW s \in SUBSET L, \A t \in SUBSET s : t # s => t \in P
      PROVE  s \in P
  <2>1. CASE s = {}
    <3> DEFINE G == Only(F, s, L)
    <3>1. \A i \in L : G[i] = 0
      BY <2>1 DEF Only
    <3> HIDE DEF G
    <3>2. Sum(G, L) = 0
      <4>1. PICK g : IsSum(g, G, L) /\ Sum(G, L) = g[L]
        BY SumIs
      <4>2. CASE L = {}
        BY <4>1, <4>2, SumRule
      <4>3. CASE L # {}
        <5>1. PICK x : x \in L
          BY <4>3
        <5>2. \A i \in L : G[i] = IF i = x THEN 0 ELSE 0
          BY <3>1
        <5> QED BY <5>1, <5>2, SumPoint
      <4> QED BY <4>2, <4>3
    <3>3. f[{}] = 0
      BY <1>1, SumRule
    <3> QED BY <2>1, <3>2, <3>3 DEF G
  <2>2. CASE s # {}
    <3> DEFINE x == Pick(s)
               u == s \ {Pick(s)}
               G == Only(F, u, L)
               H == Only(F, s, L)
    <3>1. x \in L /\ u \in SUBSET s /\ u # s /\ f[s] = F[x] + f[u]
      BY <1>1, <2>2, SumRule
    <3>2. f[u] = Sum(G, L)
      BY <1>2, <3>1
    <3>3. x \in s /\ (\A i \in L : i \in s <=> i = x \/ i \in u) /\ x \notin u
      BY <2>2, PickIn
    <3>4. \A i \in L : G[i] \in Nat /\ H[i] = IF i = x THEN G[i] + F[x] ELSE G[i]
      BY <3>3 DEF Only
    <3>5. F[x] \in Nat
      BY <3>1
    <3>6. Sum(H, L) = Sum(G, L) + F[x]
      <4> HIDE DEF x, u, G, H
      <4> QED BY <3>1, <3>4, <3>5, SumBumped
    <3>7. Sum(G, L) \in Nat
      <4> HIDE DEF x, u, G, H
      <4>1. \A i \in L : G[i] \in Nat
        BY <3>4
      <4> QED BY <4>1, SumNat
    <3>8. f[s] = Sum(H, L)
      <4> HIDE DEF x, u, G, H
      <4> QED BY <3>1, <3>2, <3>5, <3>6, <3>7
    <3> QED BY <3>8
  <2> QED BY <2>1, <2>2
<1> HIDE DEF P
<1>3. S \in P
  BY <1>2, SubsetInduction
<1>4. f[S] = Sum(Only(F, S, L), L)
  BY <1>3 DEF P
<1>5. IsFiniteSet(S)
  BY FS_Subset
<1>6. PICK g : IsSum(g, F, S) /\ Sum(F, S) = g[S]
  BY <1>5, SumIs
<1>7. f[S] = g[S]
  BY <1>1, <1>6, SumUnique
<1> QED BY <1>4, <1>6, <1>7

\* A sum over the whole is one over a part and one over the rest.
LEMMA SumSplits ==
  ASSUME NEW L, IsFiniteSet(L), NEW F, \A i \in L : F[i] \in Nat,
         NEW S \in SUBSET L
  PROVE  Sum(F, L) = Sum(F, S) + Sum(Only(F, L \ S, L), L)
<1> DEFINE G == Only(F, S, L)
           H == Only(F, L \ S, L)
<1>1. \A i \in L : G[i] \in Nat /\ H[i] \in Nat /\ F[i] = G[i] + H[i]
  BY DEF Only
<1>2. Sum(F, L) = Sum(G, L) + Sum(H, L)
  <2> HIDE DEF G, H
  <2> QED BY <1>1, SumPlus
<1>3. Sum(F, S) = Sum(G, L)
  BY SumOnly
<1> QED BY <1>2, <1>3

\* One more element.
LEMMA SumGrows ==
  ASSUME NEW L, IsFiniteSet(L), NEW F, \A i \in L : F[i] \in Nat,
         NEW S \in SUBSET L, NEW x \in L \ S
  PROVE  /\ Sum(F, S) \in Nat
         /\ Sum(F, S \cup {x}) = Sum(F, S) + F[x]
<1> DEFINE G == Only(F, S, L)
           H == Only(F, S \cup {x}, L)
<1>1. \A i \in L : G[i] \in Nat /\ H[i] = IF i = x THEN G[i] + F[x] ELSE G[i]
  BY DEF Only
<1>2. F[x] \in Nat /\ x \in L
  OBVIOUS
<1>3. Sum(H, L) = Sum(G, L) + F[x]
  <2> HIDE DEF G, H
  <2> QED BY <1>1, <1>2, SumBumped
<1>4. Sum(F, S) = Sum(G, L)
  BY SumOnly
<1>5. S \cup {x} \in SUBSET L
  OBVIOUS
<1>6. Sum(F, S \cup {x}) = Sum(H, L)
  BY <1>5, SumOnly
<1>7. Sum(G, L) \in Nat
  <2> HIDE DEF G
  <2> QED BY <1>1, SumNat
<1> QED BY <1>3, <1>4, <1>6, <1>7

\* The folds of the model are sums in this sense.
LEMMA FoldIsSum ==
  ASSUME NEW F, NEW S, IsFiniteSet(S)
  PROVE  FoldFunctionOnSet(+, 0, F, S) = Sum(F, S)
<1>1. FoldFunctionOnSet(+, 0, F, S)
        = (CHOOSE g : g = [s \in SUBSET S |->
              IF s = {} THEN 0 ELSE F[CHOOSE x \in s : TRUE] + g[s \ {CHOOSE x \in s : TRUE}]])[S]
  BY DEF FoldFunctionOnSet, MapThenFoldSet
<1> QED BY <1>1 DEF Sum, IsSum, Pick

LEMMA LayersFinite == IsFiniteSet(Layers) /\ \A S \in SUBSET Layers : IsFiniteSet(S)
<1>1. IsFiniteSet(Layers)
  BY NumLayersAssumption, FS_Interval DEF Layers
<1> QED BY <1>1, FS_Subset

-----------------------------------------------------------------------------
(***************************************************************************)
(* Sorting layers: a layer's place is the number of layers before it.      *)
(***************************************************************************)

Earlier(S, key, i) == {j \in S : Before(key, j, i)}
Place(S, key) == [i \in S |-> Cardinality(Earlier(S, key, i)) + 1]

LEMMA BeforeIsTotal ==
  ASSUME NEW S \in SUBSET Layers, NEW key, \A i \in Layers : key[i] \in Int
  PROVE  /\ \A i \in S : ~Before(key, i, i)
         /\ \A i, j \in S : i # j => Before(key, i, j) \/ Before(key, j, i)
         /\ \A i, j, k \in S : Before(key, i, j) /\ Before(key, j, k) => Before(key, i, k)
<1>1. \A i \in S : i \in Int /\ key[i] \in Int
  BY NumLayersAssumption DEF Layers
<1> QED BY <1>1 DEF Before

LEMMA PlaceBounds ==
  ASSUME NEW S \in SUBSET Layers, NEW key, \A i \in Layers : key[i] \in Int, NEW i \in S
  PROVE  Place(S, key)[i] \in 1 .. Cardinality(S)
<1> DEFINE e == Earlier(S, key, i)
<1>1. e \in SUBSET S /\ i \notin e
  BY BeforeIsTotal DEF Earlier
<1>2. IsFiniteSet(S) /\ Cardinality(S) \in Nat
  BY LayersFinite, FS_CardinalityType
<1>3. /\ IsFiniteSet(e) /\ Cardinality(e) <= Cardinality(S)
      /\ Cardinality(S) = Cardinality(e) => S = e
  <2> HIDE DEF e
  <2> QED BY <1>1, <1>2, FS_Subset
<1>4. Cardinality(e) \in Nat
  <2> HIDE DEF e
  <2> QED BY <1>3, FS_CardinalityType
<1>5. Place(S, key)[i] = Cardinality(e) + 1
  BY DEF Place
<1>6. Cardinality(e) # Cardinality(S)
  BY <1>1, <1>3
<1> HIDE DEF e
<1> QED BY <1>2, <1>3, <1>4, <1>5, <1>6

LEMMA PlacesDiffer ==
  ASSUME NEW S \in SUBSET Layers, NEW key, \A i \in Layers : key[i] \in Int,
         NEW i \in S, NEW j \in S, Before(key, i, j)
  PROVE  Place(S, key)[i] < Place(S, key)[j]
<1> DEFINE d == Earlier(S, key, i)
           e == Earlier(S, key, j)
<1>1. d \in SUBSET e /\ i \in e /\ i \notin d /\ e \in SUBSET S
  BY BeforeIsTotal DEF Earlier
<1>2. IsFiniteSet(e)
  <2> HIDE DEF d, e
  <2> QED BY <1>1, LayersFinite, FS_Subset
<1>3. /\ IsFiniteSet(d) /\ Cardinality(d) <= Cardinality(e)
      /\ Cardinality(e) = Cardinality(d) => e = d
  <2> HIDE DEF d, e
  <2> QED BY <1>1, <1>2, FS_Subset
<1>4. Cardinality(d) \in Nat /\ Cardinality(e) \in Nat
  <2> HIDE DEF d, e
  <2> QED BY <1>2, <1>3, FS_CardinalityType
<1>5. Place(S, key)[i] = Cardinality(d) + 1 /\ Place(S, key)[j] = Cardinality(e) + 1
  BY DEF Place
<1>6. Cardinality(e) # Cardinality(d)
  BY <1>1, <1>3
<1> HIDE DEF d, e
<1> QED BY <1>3, <1>4, <1>5, <1>6

\* sorted() lists every member once, in the order of the keys.
LEMMA SortedByOK ==
  ASSUME NEW S \in SUBSET Layers, NEW key, \A i \in Layers : key[i] \in Int
  PROVE  LET s == SortedBy(S, key) IN
         /\ s \in Seq(S) /\ Len(s) = Cardinality(S) /\ Len(s) \in Nat
         /\ \A i \in S : \E k \in 1 .. Len(s) : s[k] = i
         /\ \A j, k \in 1 .. Len(s) : j < k => Before(key, s[j], s[k])
         /\ \A j, k \in 1 .. Len(s) : s[j] = s[k] => j = k
<1> DEFINE c == Cardinality(S)
           p == Place(S, key)
           s == SortedBy(S, key)
<1>1. IsFiniteSet(S) /\ c \in Nat
  BY LayersFinite, FS_CardinalityType
<1>2. IsFiniteSet(1 .. c) /\ Cardinality(1 .. c) = c
  <2> HIDE DEF c
  <2> QED BY <1>1, FS_Interval
<1>3. p \in [S -> 1 .. c]
  BY PlaceBounds DEF Place
<1>4. \A i, j \in S : p[i] = p[j] => i = j
  <2> SUFFICES ASSUME NEW i \in S, NEW j \in S, i # j PROVE p[i] # p[j]
    OBVIOUS
  <2>1. p[i] \in Nat /\ p[j] \in Nat
    <3> HIDE DEF p, c
    <3> QED BY <1>1, <1>3
  <2>2. CASE Before(key, i, j)
    <3>1. p[i] < p[j]
      BY <2>2, PlacesDiffer
    <3> HIDE DEF p
    <3> QED BY <2>1, <3>1
  <2>3. CASE Before(key, j, i)
    <3>1. p[j] < p[i]
      BY <2>3, PlacesDiffer
    <3> HIDE DEF p
    <3> QED BY <2>1, <3>1
  <2> QED BY <2>2, <2>3, BeforeIsTotal
<1>5. p \in Injection(S, 1 .. c)
  <2> HIDE DEF p, c
  <2> QED BY <1>3, <1>4 DEF Injection, IsInjective
<1>6. p \in Surjection(S, 1 .. c)
  <2> HIDE DEF p, c
  <2>1. Cardinality(S) = Cardinality(1 .. c)
    BY <1>2 DEF c
  <2> QED BY <1>1, <1>2, <1>5, <2>1, FS_Injection
<1>7. \A k \in 1 .. c : s[k] \in S /\ p[s[k]] = k
  <2> SUFFICES ASSUME NEW k \in 1 .. c PROVE s[k] \in S /\ p[s[k]] = k
    OBVIOUS
  <2>1. \E i \in S : p[i] = k
    <3> HIDE DEF p, c
    <3> QED BY <1>6 DEF Surjection
  <2>2. k \in Int
    <3> HIDE DEF c
    <3> QED BY <1>1
  <2>3. \A i \in S : p[i] = k <=> Cardinality({j \in S : Before(key, j, i)}) = k - 1
    <3> SUFFICES ASSUME NEW i \in S
                 PROVE  p[i] = k <=> Cardinality({j \in S : Before(key, j, i)}) = k - 1
      OBVIOUS
    <3> DEFINE n == Cardinality({j \in S : Before(key, j, i)})
    <3>1. p[i] = n + 1 /\ p[i] \in 1 .. c
      BY PlaceBounds DEF Place, Earlier
    <3>2. IsFiniteSet({j \in S : Before(key, j, i)})
      BY LayersFinite
    <3>3. n \in Nat
      BY <3>2, FS_CardinalityType
    <3> HIDE DEF n, p, c
    <3>4. p[i] = k <=> n = k - 1
      BY <2>2, <3>1, <3>3
    <3> QED BY <3>4 DEF n
  <2> DEFINE a == CHOOSE i \in S : Cardinality({j \in S : Before(key, j, i)}) = k - 1
  <2>4. a \in S /\ Cardinality({j \in S : Before(key, j, a)}) = k - 1
    BY <2>1, <2>3
  <2>5. s[k] = a
    BY DEF SortedBy
  <2> HIDE DEF a, s, p, c
  <2>6. p[a] = k
    BY <2>3, <2>4
  <2>7. a \in S
    BY <2>4
  <2> QED BY <2>5, <2>6, <2>7
<1>8. s = [k \in 1 .. c |-> s[k]]
  <2> DEFINE e(k) == CHOOSE i \in S : Cardinality({j \in S : Before(key, j, i)}) = k - 1
  <2>1. s = [k \in 1 .. c |-> e(k)]
    BY DEF SortedBy
  <2> HIDE DEF e, s, p, c
  <2> QED BY <2>1
<1>9. s \in Seq(S) /\ Len(s) = c
  <2> HIDE DEF s, p, c
  <2>1. s \in [1 .. c -> S]
    BY <1>7, <1>8
  <2> QED BY <1>1, <2>1
<1>10. ASSUME NEW i \in S PROVE \E k \in 1 .. c : s[k] = i
  <2>1. p[i] \in 1 .. c /\ s[p[i]] \in S /\ p[s[p[i]]] = p[i]
    <3> HIDE DEF s, p, c
    <3> QED BY <1>3, <1>7
  <2>2. s[p[i]] = i
    <3> HIDE DEF s, p, c
    <3> QED BY <1>4, <2>1
  <2> HIDE DEF s, p, c
  <2> QED BY <2>1, <2>2
<1>11. ASSUME NEW j \in 1 .. c, NEW k \in 1 .. c, j < k
       PROVE  Before(key, s[j], s[k])
  <2>1. s[j] \in S /\ s[k] \in S /\ p[s[j]] = j /\ p[s[k]] = k
    <3> HIDE DEF s, p, c
    <3> QED BY <1>7
  <2>2. j \in Int /\ k \in Int
    <3> HIDE DEF c
    <3> QED BY <1>1
  <2>3. s[j] # s[k]
    <3> HIDE DEF s, p, c
    <3> QED BY <1>11, <2>1, <2>2
  <2>4. CASE Before(key, s[k], s[j])
    <3>1. p[s[k]] < p[s[j]]
      <4> HIDE DEF s
      <4> QED BY <2>1, <2>4, PlacesDiffer
    <3> HIDE DEF s, p, c
    <3> QED BY <1>11, <2>1, <2>2, <3>1
  <2> HIDE DEF s, p, c
  <2> QED BY <2>1, <2>3, <2>4, BeforeIsTotal
<1>12. \A j, k \in 1 .. c : s[j] = s[k] => j = k
  <2> HIDE DEF s, p, c
  <2> QED BY <1>7
<1>13. c = Cardinality(S)
  OBVIOUS
<1>14. /\ s \in Seq(S) /\ Len(s) = Cardinality(S) /\ Len(s) \in Nat
       /\ \A i \in S : \E k \in 1 .. Len(s) : s[k] = i
       /\ \A j, k \in 1 .. Len(s) : j < k => Before(key, s[j], s[k])
       /\ \A j, k \in 1 .. Len(s) : s[j] = s[k] => j = k
  <2> HIDE DEF c, p, s
  <2> QED BY <1>1, <1>9, <1>10, <1>11, <1>12, <1>13
<1> QED BY <1>14

-----------------------------------------------------------------------------
(***************************************************************************)
(* The first layers of a list, as long as more are asked for.              *)
(***************************************************************************)

\* The first number from 0 on that is not in M, or N.
LEMMA FirstStop ==
  ASSUME NEW N \in Nat, NEW M
  PROVE  \E n \in 0 .. N : (\A k \in 0 .. n - 1 : k \in M) /\ (n = N \/ n \notin M)
<1> DEFINE Stop(n) == (\A k \in 0 .. n - 1 : k \in M) /\ (n = N \/ n \notin M)
           P == {n \in 0 .. N : (\A k \in 0 .. n - 1 : k \in M) \/ \E m \in 0 .. N : Stop(m)}
<1>1. 0 \in P
  OBVIOUS
<1>2. ASSUME NEW n \in 0 .. N - 1, n \in P PROVE n + 1 \in P
  <2>1. CASE \E m \in 0 .. N : Stop(m)
    BY <2>1
  <2>2. CASE (\A k \in 0 .. n - 1 : k \in M) /\ n \notin M
    BY <2>2
  <2>3. CASE (\A k \in 0 .. n - 1 : k \in M) /\ n \in M
    <3>1. \A k \in 0 .. (n + 1) - 1 : k \in M
      BY <2>3
    <3>2. n + 1 \in 0 .. N
      OBVIOUS
    <3> QED BY <3>1, <3>2
  <2> QED BY <1>2, <2>1, <2>2, <2>3
<1> HIDE DEF P
<1>3. N \in P
  BY <1>1, <1>2, IntervalInduction
<1>4. CASE \A k \in 0 .. N - 1 : k \in M
  BY <1>4
<1> QED BY <1>3, <1>4 DEF P

-----------------------------------------------------------------------------
(***************************************************************************)
(* Where the rows of a layer are, and how many bytes.                      *)
(***************************************************************************)

\* Where the rows of a layer are: a layer with tensors has tokens, it is at
\* home unless it was offloaded, and it is not both offloaded and split.
Placed(l) ==
  /\ l.rep # "none" => l.pos # <<>>
  /\ l.rep # "none" /\ ~l.offloaded => l.bufDev = l.home
  /\ l.offloaded => l.rep # "none" /\ l.host = <<>>

\* A method's result stays where the layer belongs.
Stays(l, m) == Placed(m) /\ m.home = l.home

LEMMA Fields ==
  ASSUME NEW l, LayerOK(l)
  PROVE  l \in Layer /\ l.home \in Devices /\ l.pos \in Seq(Int) /\ l.buf \in Seq(Int)
         /\ l.host \in Seq(Int) /\ l.rep \in {"none", "float", "quant"}
         /\ l.offloaded \in BOOLEAN
BY DEF LayerOK, Layer

LEMMA CollapsePlaces ==
  ASSUME NEW l, LayerOK(l)
  PROVE  LET c == Collapse(l) IN
         /\ c \in Layer /\ c.home = l.home /\ c.offloaded = l.offloaded
         /\ c.rep = l.rep /\ c.host = <<>> /\ c.pos = l.pos
         /\ l.bufDev = l.home => c.bufDev = c.home
         /\ l.host = <<>> => c = l
<1> DEFINE c == Collapse(l)
<1>1. LayerOK(c) /\ c.host = <<>> /\ c.pos = l.pos /\ c.rep = l.rep
  BY CollapseOK
<1>2. c = l \/ c = [l EXCEPT !.buf = View(l), !.bufDev = l.home, !.host = <<>>,
                             !.hostDev = l.home, !.boundary = 0]
  BY DEF Collapse
<1>3. l \in Layer /\ c \in Layer
  BY <1>1, Fields
<1>4. l.host = <<>> => c = l
  BY DEF Collapse, IsSplit
<1> HIDE DEF c
<1>5. c.home = l.home /\ c.offloaded = l.offloaded /\ (l.bufDev = l.home => c.bufDev = c.home)
  <2>1. CASE c = l
    BY <2>1
  <2>2. CASE c = [l EXCEPT !.buf = View(l), !.bufDev = l.home, !.host = <<>>,
                           !.hostDev = l.home, !.boundary = 0]
    BY <1>3, <2>2 DEF Layer
  <2> QED BY <1>2, <2>1, <2>2
<1> QED BY <1>1, <1>3, <1>4, <1>5 DEF c

\* A move takes all rows of a layer with tensors to the device.
LEMMA MoveToPlaces ==
  ASSUME NEW l, LayerOK(l), NEW d \in Devices, l.rep # "none"
  PROVE  LET m == MoveTo(l, d) IN
         /\ m \in Layer /\ m.home = l.home /\ m.bufDev = d /\ m.host = <<>>
         /\ m.offloaded = (d # l.home)
         /\ m.rep = l.rep /\ m.pos = l.pos
         /\ l.host = <<>> => m.buf = l.buf
<1> DEFINE c == Collapse(l)
           m == MoveTo(l, d)
<1>1. /\ c \in Layer /\ c.home = l.home /\ c.rep = l.rep /\ c.host = <<>>
      /\ c.pos = l.pos /\ (l.host = <<>> => c = l)
  BY CollapsePlaces
<1>2. m = [c EXCEPT !.bufDev = d, !.metaDev = d, !.offloaded = (d # c.home)]
  BY <1>1 DEF MoveTo, IsInitialized
<1> HIDE DEF c, m
<1>3. m \in Layer
  BY <1>1, <1>2 DEF Layer
<1>4. /\ m.home = c.home /\ m.bufDev = d /\ m.host = c.host /\ m.rep = c.rep
      /\ m.pos = c.pos /\ m.buf = c.buf /\ m.offloaded = (d # c.home)
  BY <1>1, <1>2 DEF Layer
<1> QED BY <1>1, <1>3, <1>4 DEF m

LEMMA ReturnHomePlaces ==
  ASSUME NEW l, LayerOK(l), Placed(l)
  PROVE  LET h == ReturnHome(l) IN
         /\ LayerOK(h) /\ h.home = l.home /\ ~h.offloaded /\ h.pos = l.pos
         /\ h.rep = l.rep
         /\ l.rep # "none" => h.bufDev = h.home
<1>1. LayerOK(ReturnHome(l)) /\ ReturnHome(l).pos = l.pos /\ ReturnHome(l).rep = l.rep
  BY ReturnHomeOK
<1>2. CASE l.offloaded
  <2>1. l.rep # "none" /\ l.home \in Devices
    BY <1>2, Fields DEF Placed
  <2>2. /\ MoveTo(l, l.home).home = l.home /\ MoveTo(l, l.home).bufDev = l.home
        /\ ~MoveTo(l, l.home).offloaded
    BY <2>1, MoveToPlaces
  <2>3. ReturnHome(l) = MoveTo(l, l.home)
    BY <1>2 DEF ReturnHome
  <2> QED BY <1>1, <2>2, <2>3
<1>3. CASE ~l.offloaded
  <2>1. ReturnHome(l) = l
    BY <1>3 DEF ReturnHome
  <2> QED BY <1>1, <1>3, <2>1 DEF Placed
<1> QED BY <1>2, <1>3

LEMMA AppendPlaces ==
  ASSUME NEW l, LayerOK(l), Placed(l), NEW n \in Nat \ {0}
  PROVE  Stays(l, AppendRows(l, Run(l.next, n)))
<1> DEFINE q == Materialize(l)
           h == ReturnHome(q)
           c == Collapse(h)
           new == Run(l.next, n)
           r == Room(l, Len(new))
           m == AppendRows(l, new)
<1>1. LayerOK(q) /\ q.home = l.home /\ q.offloaded = l.offloaded /\ Placed(q)
  <2>1. CASE l.rep # "quant"
    <3>1. q = l
      BY <2>1 DEF Materialize
    <3> QED BY <3>1
  <2>2. CASE l.rep = "quant"
    <3>1. q = [l EXCEPT !.rep = "float", !.buf = Alloc(MaxOf(Len(l.buf), InitCap(l)), l.buf)]
      BY <2>2 DEF Materialize
    <3>2. l \in Layer
      BY Fields
    <3>3. LayerOK(q)
      BY MaterializeOK
    <3> HIDE DEF q
    <3>4. q.home = l.home /\ q.offloaded = l.offloaded /\ q.pos = l.pos
          /\ q.bufDev = l.bufDev /\ q.host = l.host /\ q.rep = "float"
      BY <3>1, <3>2 DEF Layer
    <3> QED BY <2>2, <3>3, <3>4 DEF Placed
  <2> QED BY <2>1, <2>2
<1>2. LayerOK(h) /\ h.home = l.home /\ ~h.offloaded
  <2> HIDE DEF q
  <2> QED BY <1>1, ReturnHomePlaces
<1>3. c \in Layer /\ c.home = l.home /\ ~c.offloaded /\ c.host = <<>>
  <2> HIDE DEF h
  <2> QED BY <1>2, CollapsePlaces
<1>4. \E buf : r = [c EXCEPT !.rep = "float", !.bufDev = c.home, !.buf = buf]
  BY DEF Room
<1>5. PICK buf : r = [c EXCEPT !.rep = "float", !.bufDev = c.home, !.buf = buf]
  BY <1>4
<1>6. \E new_buf, pos, next : m = [r EXCEPT !.buf = new_buf, !.pos = pos,
                                    !.next = next, !.offloaded = FALSE]
  BY DEF AppendRows
<1>7. PICK new_buf, pos, next : m = [r EXCEPT !.buf = new_buf, !.pos = pos,
                                     !.next = next, !.offloaded = FALSE]
  BY <1>6
<1>8. LayerOK(m) /\ m.pos = l.pos \o new
  <2>1. l.next \in Nat /\ l.next >= l.next /\ n \in Nat
    BY Fields DEF Layer
  <2> QED BY <2>1, AppendRowsOK
<1>9. m.pos # <<>>
  <2>1. l.pos \in Seq(Int) /\ l.next \in Nat
    BY Fields DEF Layer
  <2>2. new \in Seq(Int) /\ Len(new) = n
    BY <2>1 DEF Run
  <2> DEFINE p == l.pos
  <2>5. p \in Seq(Int)
    BY <2>1
  <2> HIDE DEF new, p
  <2>6. Len(p) \in Nat
    BY <2>5, LenProperties
  <2>7. Len(new) \in Nat \ {0}
    BY <2>2
  <2>3. Len(p \o new) = Len(p) + Len(new)
    BY <2>2, <2>5, ConcatProperties
  <2>4. p \o new # <<>>
    <3>1. Len(p \o new) # 0
      BY <2>3, <2>6, <2>7
    <3>2. Len(<<>>) = 0
      OBVIOUS
    <3> QED BY <3>1, <3>2
  <2> HIDE DEF m
  <2> QED BY <1>8, <2>4 DEF p
<1> HIDE DEF c, r, m
<1>10. r.home = l.home /\ r.bufDev = l.home /\ r.host = <<>>
  BY <1>3, <1>5 DEF Layer
<1>11. "offloaded" \in DOMAIN r /\ DOMAIN r = DOMAIN c
  BY <1>3, <1>5 DEF Layer
<1>12. m.home = r.home /\ m.bufDev = r.bufDev /\ m.host = r.host /\ ~m.offloaded
  BY <1>7, <1>11
<1> QED BY <1>9, <1>10, <1>12 DEF Stays, Placed, m

LEMMA KeepPlaces ==
  ASSUME NEW l, LayerOK(l), Placed(l), NEW idx \in Seq(1 .. Len(l.pos)), l.rep # "none"
  PROVE  Stays(l, Keep(l, idx))
<1> DEFINE c == Collapse(l)
           m == Keep(l, idx)
<1>1. /\ c \in Layer /\ c.home = l.home /\ c.offloaded = l.offloaded
      /\ c.rep = l.rep /\ c.host = <<>> /\ c.pos = l.pos
      /\ l.bufDev = l.home => c.bufDev = c.home
  BY CollapsePlaces
<1>2. m.pos = Gather(l.pos, idx)
  BY KeepOK
<1>3. CASE idx = <<>>
  <2>1. m = [c EXCEPT !.rep = "none", !.buf = <<>>, !.bufDev = c.home,
                      !.offloaded = FALSE, !.pos = <<>>]
    BY <1>3 DEF Keep
  <2> HIDE DEF c, m
  <2>2. m.rep = "none" /\ ~m.offloaded /\ m.home = c.home
    BY <1>1, <2>1 DEF Layer
  <2> QED BY <1>1, <2>2 DEF Stays, Placed, m
<1>4. CASE idx # <<>>
  <2>1. \E buf, pos : m = [c EXCEPT !.buf = buf, !.pos = pos]
    BY <1>4 DEF Keep
  <2>2. PICK buf, pos : m = [c EXCEPT !.buf = buf, !.pos = pos]
    BY <2>1
  <2>3. m.pos # <<>>
    <3>1. Len(idx) \in Nat /\ Len(idx) # 0
      BY <1>4
    <3>2. Len(Gather(l.pos, idx)) = Len(idx)
      BY <3>1 DEF Gather
    <3> HIDE DEF m
    <3> QED BY <1>2, <3>1, <3>2
  <2> HIDE DEF c, m
  <2>4. m.home = c.home /\ m.offloaded = c.offloaded /\ m.rep = c.rep
        /\ m.bufDev = c.bufDev /\ m.host = c.host
    BY <1>1, <2>2 DEF Layer
  <2> QED BY <1>1, <2>3, <2>4 DEF Stays, Placed, m
<1> QED BY <1>3, <1>4

LEMMA CompressPlaces ==
  ASSUME NEW l, LayerOK(l), Placed(l), l.rep = "float"
  PROVE  Stays(l, Compress(l))
<1> DEFINE m == Compress(l)
<1>1. m.pos = l.pos
  BY CompressOK
<1>2. m = [l EXCEPT !.rep = "quant", !.buf = View(l),
                    !.bufDev = IF IsSplit(l) THEN l.home ELSE @,
                    !.host = <<>>, !.hostDev = l.home, !.boundary = 0]
  BY DEF Compress
<1>3. l \in Layer
  BY Fields
<1> HIDE DEF m
<1>4. m.home = l.home /\ m.offloaded = l.offloaded /\ m.host = <<>> /\ m.rep = "quant"
      /\ m.bufDev = (IF IsSplit(l) THEN l.home ELSE l.bufDev)
  BY <1>2, <1>3 DEF Layer
<1> QED BY <1>1, <1>4 DEF Stays, Placed, m

LEMMA SplitPlaces ==
  ASSUME NEW l, LayerOK(l), Placed(l), NEW r \in 1 .. Len(l.pos) - 1,
         NEW d \in Devices, l.rep = "float"
  PROVE  Stays(l, OffloadTail(l, r, d))
<1> DEFINE h == ReturnHome(l)
           c == Collapse(h)
           m == OffloadTail(l, r, d)
<1>1. /\ LayerOK(h) /\ h.home = l.home /\ ~h.offloaded /\ h.bufDev = h.home
  BY ReturnHomePlaces
<1>2. c \in Layer /\ c.home = l.home /\ ~c.offloaded /\ c.bufDev = c.home
  <2> HIDE DEF h
  <2> QED BY <1>1, CollapsePlaces
<1>3. Len(l.pos) \in Nat /\ NumTokens(l) = Len(l.pos)
  BY Fields DEF NumTokens
<1>4. \E buf, host : m = [c EXCEPT !.buf = buf, !.host = host, !.hostDev = d, !.boundary = r]
  <2>1. r # 0 /\ r # Len(l.pos)
    BY <1>3
  <2> QED BY <1>3, <2>1 DEF OffloadTail
<1>5. PICK buf, host : m = [c EXCEPT !.buf = buf, !.host = host, !.hostDev = d, !.boundary = r]
  BY <1>4
<1>6. m.pos = l.pos
  <2>1. r \in 0 .. Len(l.pos) /\ l.rep # "quant"
    BY <1>3
  <2> QED BY <2>1, OffloadTailOK
<1>7. l.pos # <<>>
  BY DEF Placed
<1> HIDE DEF c, m
<1>8. m.home = c.home /\ m.offloaded = c.offloaded /\ m.bufDev = c.bufDev
  BY <1>2, <1>5 DEF Layer
<1> QED BY <1>2, <1>6, <1>7, <1>8 DEF Stays, Placed, m

\* Byte figures are numbers, and the device holds at most all of them.
LEMMA Product ==
  ASSUME NEW a \in Nat, NEW b \in Nat
  PROVE  /\ a * b \in Nat
         /\ a # 0 /\ b # 0 => a * b > 0
         /\ b = 0 => a * b = 0
OBVIOUS

LEMMA Figures ==
  ASSUME NEW l, LayerOK(l)
  PROVE  /\ Bytes(l) \in Nat /\ DeviceBytes(l) \in Nat
         /\ Bytes(l) > 0 => l.rep # "none"
         /\ l.offloaded => DeviceBytes(l) = 0
         /\ ~l.offloaded /\ l.host = <<>> => DeviceBytes(l) = Bytes(l)
         /\ l.offloaded /\ Placed(l) => Bytes(l) > 0
<1> DEFINE w == Width(l)
           n == StoredRows(l)
           k == DeviceRows(l)
           a == Len(l.buf)
           b == Len(l.host)
<1>1. w \in Nat \ {0}
  BY WidthAssumption DEF Width
<1>2. a \in Nat /\ b \in Nat
  BY Fields
<1>3. n \in Nat /\ k \in Nat
  <2>1. n = a + b
    BY DEF StoredRows
  <2>2. k = 0 \/ k = a \/ k = n
    BY DEF DeviceRows
  <2> HIDE DEF n, k, a, b
  <2> QED BY <1>2, <2>1, <2>2
<1>4. l.rep = "none" => n = 0
  <2>1. l.rep = "none" => l.buf = <<>> /\ l.host = <<>>
    BY DEF LayerOK
  <2>2. l.rep = "none" => a = 0 /\ b = 0
    BY <2>1
  <2>3. n = a + b
    BY DEF StoredRows
  <2> HIDE DEF n, a, b
  <2> QED BY <2>2, <2>3
<1>5. /\ l.offloaded => k = 0
      /\ ~l.offloaded /\ l.host = <<>> => k = n
  BY DEF DeviceRows, IsSplit
<1>6. l.offloaded /\ Placed(l) => n # 0
  <2> SUFFICES ASSUME l.offloaded, Placed(l) PROVE n # 0
    OBVIOUS
  <2>1. l.rep \in {"float", "quant"} /\ l.host = <<>> /\ l.pos # <<>>
    BY Fields DEF Placed
  <2> DEFINE c == Len(l.pos)
  <2>2. c \in Nat /\ c # 0
    BY <2>1, Fields
  <2>3. c <= a
    BY <1>2, <2>1, <2>2 DEF LayerOK, StartsWith
  <2>4. n = a + b
    BY DEF StoredRows
  <2> HIDE DEF n, a, b, c
  <2> QED BY <1>2, <2>2, <2>3, <2>4
<1>7. Bytes(l) = w * n /\ DeviceBytes(l) = w * k
  BY DEF Bytes, DeviceBytes
<1> HIDE DEF w, n, k, a, b
<1>8. /\ w * n \in Nat /\ w * k \in Nat
      /\ n = 0 => w * n = 0
      /\ k = 0 => w * k = 0
      /\ n # 0 => w * n > 0
  BY <1>1, <1>3, Product
<1> QED BY <1>1, <1>3, <1>4, <1>5, <1>6, <1>7, <1>8

\* Offloading a whole layer takes all its bytes off the device.
LEMMA OffloadPlaces ==
  ASSUME NEW l, LayerOK(l), Placed(l), NEW d \in Devices, l.home # d
  PROVE  /\ LayerOK(OffloadWhole(l, d)) /\ Stays(l, OffloadWhole(l, d))
         /\ ~l.offloaded /\ Bytes(l) > 0 =>
              OffloadWhole(l, d).offloaded /\ DeviceBytes(OffloadWhole(l, d)) = 0
<1> DEFINE m == OffloadWhole(l, d)
<1>1. LayerOK(m)
  BY OffloadWholeOK
<1>2. CASE l.rep = "none" \/ l.offloaded
  <2>1. m = l
    BY <1>2 DEF OffloadWhole, IsInitialized
  <2>2. l.rep = "none" => ~(Bytes(l) > 0)
    BY Figures
  <2> HIDE DEF m
  <2> QED BY <1>1, <1>2, <2>1, <2>2 DEF m, Stays
<1>3. CASE l.rep # "none" /\ ~l.offloaded
  <2>1. m = MoveTo(l, d)
    BY <1>3 DEF OffloadWhole, IsInitialized, ResidentDevice, Placed
  <2> DEFINE v == MoveTo(l, d)
  <2>4. v.home = l.home /\ v.offloaded = (d # l.home) /\ v.host = <<>>
        /\ v.rep = l.rep /\ v.pos = l.pos
    BY <1>3, MoveToPlaces
  <2> HIDE DEF v, m
  <2>2. m.home = l.home /\ m.offloaded /\ m.host = <<>> /\ m.rep = l.rep /\ m.pos = l.pos
    BY <2>1, <2>4 DEF v
  <2> HIDE DEF m
  <2>3. DeviceBytes(m) = 0
    BY <1>1, <2>2, Figures
  <2> QED BY <1>1, <1>3, <2>2, <2>3 DEF m, Stays, Placed
<1> QED BY <1>2, <1>3

\* Prefetching an offloaded layer brings all its bytes to the device.
LEMMA PrefetchPlaces ==
  ASSUME NEW l, LayerOK(l), Placed(l), l.offloaded
  PROVE  LET m == PrefetchWhole(l) IN
         /\ LayerOK(m) /\ Stays(l, m)
         /\ ~m.offloaded /\ DeviceBytes(m) = Bytes(l)
<1> DEFINE m == PrefetchWhole(l)
<1>1. LayerOK(m)
  BY PrefetchWholeOK
<1>2. m = MoveTo(l, l.home)
  BY DEF PrefetchWhole
<1>3. l.rep # "none" /\ l.home \in Devices /\ l.host = <<>> /\ l.pos # <<>>
  BY Fields DEF Placed
<1>4. /\ m.home = l.home /\ m.bufDev = l.home /\ ~m.offloaded /\ m.host = <<>>
      /\ m.rep = l.rep /\ m.pos = l.pos /\ m.buf = l.buf
  <2> DEFINE v == MoveTo(l, l.home)
  <2>1. /\ v.home = l.home /\ v.bufDev = l.home /\ v.host = <<>>
        /\ v.offloaded = (l.home # l.home)
        /\ v.rep = l.rep /\ v.pos = l.pos /\ v.buf = l.buf
    BY <1>3, MoveToPlaces
  <2> HIDE DEF v, m
  <2> QED BY <1>2, <2>1 DEF v
<1> HIDE DEF m
<1>5. Bytes(m) = Bytes(l)
  BY <1>3, <1>4 DEF Bytes, Width, StoredRows
<1>6. DeviceBytes(m) = Bytes(m)
  BY <1>1, <1>4, Figures
<1>7. Placed(m)
  BY <1>3, <1>4 DEF Placed
<1> QED BY <1>1, <1>4, <1>5, <1>6, <1>7 DEF m, Stays

-----------------------------------------------------------------------------
(***************************************************************************)
(* How recent a layer is.                                                  *)
(***************************************************************************)

\* Finitely many numbers have a largest.
LEMMA Largest ==
  ASSUME NEW N \in Nat, N # 0, NEW F, \A k \in 1 .. N : F[k] \in Int
  PROVE  \E m \in 1 .. N : \A k \in 1 .. N : F[k] <= F[m]
<1> DEFINE P == {n \in 0 .. N : n = 0 \/ \E m \in 1 .. n : \A k \in 1 .. n : F[k] <= F[m]}
<1>1. 0 \in P
  OBVIOUS
<1>2. ASSUME NEW n \in 0 .. N - 1, n \in P PROVE n + 1 \in P
  <2>0. n + 1 \in 1 .. N /\ n + 1 \in 1 .. n + 1
        /\ (\A k \in 1 .. n + 1 : k \in 1 .. n \/ k = n + 1)
        /\ 1 .. n \subseteq 1 .. n + 1 /\ 1 .. n + 1 \subseteq 1 .. N
    OBVIOUS
  <2>1. CASE n = 0
    <3>1. \A k \in 1 .. n + 1 : k = n + 1
      BY <2>1
    <3>2. F[n + 1] <= F[n + 1]
      BY <2>0
    <3>3. \A k \in 1 .. n + 1 : F[k] <= F[n + 1]
      BY <3>1, <3>2
    <3> QED BY <2>0, <3>3
  <2>2. CASE n # 0
    <3>1. PICK m \in 1 .. n : \A k \in 1 .. n : F[k] <= F[m]
      BY <1>2, <2>2
    <3>2. F[m] \in Int /\ F[n + 1] \in Int /\ (\A k \in 1 .. n : F[k] \in Int)
      BY <2>0
    <3>3. CASE F[n + 1] <= F[m]
      <4>1. \A k \in 1 .. n + 1 : F[k] <= F[m]
        BY <2>0, <3>1, <3>3
      <4> QED BY <2>0, <4>1
    <3>4. CASE F[m] < F[n + 1]
      <4>1. \A k \in 1 .. n : F[k] <= F[n + 1]
        BY <3>1, <3>2, <3>4
      <4>2. \A k \in 1 .. n + 1 : F[k] <= F[n + 1]
        BY <2>0, <3>2, <4>1
      <4> QED BY <2>0, <4>2
    <3> QED BY <3>2, <3>3, <3>4
  <2> QED BY <2>1, <2>2
<1> HIDE DEF P
<1>3. N \in P
  BY <1>1, <1>2, IntervalInduction
<1> QED BY <1>3 DEF P

LEMMA RecencyIsInt ==
  ASSUME IInv, NEW i \in Layers
  PROVE  Recency(i) \in Int
<1> DEFINE s == seen[i]
           n == Len(s)
<1>1. s \in Seq(0 .. step) /\ step \in Nat
  BY DEF IInv, AccessesOK, Accesses
<1>2. n \in Nat /\ DOMAIN s = 1 .. n /\ (\A k \in 1 .. n : s[k] \in Int)
  <2> HIDE DEF s
  <2> QED BY <1>1, LenProperties, EntryOf
<1>3. CASE s = <<>>
  BY <1>3 DEF Recency
<1>4. CASE s # <<>>
  <2>1. n # 0
    <3> HIDE DEF s
    <3> QED BY <1>1, <1>4
  <2>2. \E m \in 1 .. n : \A k \in 1 .. n : s[k] <= s[m]
    <3> HIDE DEF s, n
    <3> QED BY <1>2, <2>1, Largest
  <2>3. ToSet(s) = {s[k] : k \in 1 .. n}
    BY <1>2 DEF ToSet
  <2>4. \E r \in ToSet(s) : \A q \in ToSet(s) : q <= r
    <3> HIDE DEF s, n
    <3> QED BY <2>2, <2>3
  <2>5. \A r \in ToSet(s) : r \in Int
    <3> HIDE DEF s, n
    <3> QED BY <1>2, <2>3
  <2> DEFINE c == CHOOSE r \in ToSet(s) : \A q \in ToSet(s) : q <= r
  <2>6. c \in ToSet(s)
    <3> HIDE DEF s
    <3> QED BY <2>4
  <2>7. Recency(i) = c
    BY <1>4 DEF Recency
  <2> HIDE DEF c
  <2> QED BY <2>5, <2>6, <2>7
<1> QED BY <1>3, <1>4

-----------------------------------------------------------------------------
(***************************************************************************)
(* Lists of different layers.                                              *)
(***************************************************************************)

ListOK(s) ==
  /\ s \in Seq(Layers)
  /\ \A j, k \in 1 .. Len(s) : s[j] = s[k] => j = k

LEMMA Members ==
  ASSUME NEW s, ListOK(s)
  PROVE  /\ Len(s) \in Nat /\ ToSet(s) = {s[k] : k \in 1 .. Len(s)}
         /\ ToSet(s) \in SUBSET Layers
<1>1. s \in Seq(Layers)
  BY DEF ListOK
<1>2. Len(s) \in Nat /\ DOMAIN s = 1 .. Len(s) /\ (\A k \in 1 .. Len(s) : s[k] \in Layers)
  BY <1>1, LenProperties, EntryOf
<1> QED BY <1>2 DEF ToSet

LEMMA Prefix ==
  ASSUME NEW s, ListOK(s), NEW n \in 0 .. Len(s)
  PROVE  LET p == SubSeq(s, 1, n) IN
         /\ ListOK(p) /\ Len(p) = n /\ (\A k \in 1 .. n : p[k] = s[k])
         /\ ToSet(p) = {s[k] : k \in 1 .. n}
<1> DEFINE p == SubSeq(s, 1, n)
<1>1. s \in Seq(Layers) /\ Len(s) \in Nat /\ (\A k \in 1 .. Len(s) : s[k] \in Layers)
  BY Members, LenProperties, EntryOf DEF ListOK
<1>2. n \in Nat /\ 1 .. n \subseteq 1 .. Len(s)
  BY <1>1
<1>3. p = [k \in 1 .. n |-> s[k]]
  BY <1>1, <1>2
<1>4. p \in Seq(Layers) /\ Len(p) = n /\ (\A k \in 1 .. n : p[k] = s[k])
  <2> HIDE DEF p
  <2> QED BY <1>1, <1>2, <1>3
<1>5. \A j, k \in 1 .. n : s[j] = s[k] => j = k
  BY <1>2 DEF ListOK
<1>6. ListOK(p)
  <2> HIDE DEF p
  <2> QED BY <1>4, <1>5 DEF ListOK
<1>7. ToSet(p) = {p[k] : k \in 1 .. n}
  <2> HIDE DEF p
  <2> QED BY <1>4, <1>6, Members
<1> HIDE DEF p
<1>8. ToSet(p) = {s[k] : k \in 1 .. n}
  BY <1>4, <1>7
<1> QED BY <1>4, <1>6, <1>8 DEF p

LEMMA TailFacts ==
  ASSUME NEW s, ListOK(s), s # <<>>
  PROVE  /\ Head(s) \in ToSet(s) /\ Head(s) \in Layers
         /\ ListOK(Tail(s)) /\ ToSet(Tail(s)) = ToSet(s) \ {Head(s)}
<1> DEFINE n == Len(s)
           t == Tail(s)
           h == Head(s)
<1>1. s \in Seq(Layers) /\ n \in Nat /\ (\A k \in 1 .. n : s[k] \in Layers)
      /\ ToSet(s) = {s[k] : k \in 1 .. n}
  BY Members, LenProperties, EntryOf DEF ListOK
<1>2. n # 0
  BY <1>1
<1>3. h = s[1]
  BY <1>1, <1>2
<1>4. t \in Seq(Layers) /\ Len(t) = n - 1 /\ (\A k \in 1 .. n - 1 : t[k] = s[k + 1])
  BY <1>1, <1>2, HeadTailProperties
<1>5. \A j, k \in 1 .. n : s[j] = s[k] => j = k
  BY DEF ListOK
<1> HIDE DEF n, t, h
<1>6. ListOK(t)
  <2>1. \A j, k \in 1 .. n - 1 : t[j] = t[k] => j = k
    <3> SUFFICES ASSUME NEW j \in 1 .. n - 1, NEW k \in 1 .. n - 1, t[j] = t[k] PROVE j = k
      OBVIOUS
    <3>1. s[j + 1] = s[k + 1] /\ j + 1 \in 1 .. n /\ k + 1 \in 1 .. n
      BY <1>1, <1>4
    <3>2. j + 1 = k + 1
      BY <1>5, <3>1
    <3> QED BY <1>1, <3>2
  <2> QED BY <1>4, <2>1 DEF ListOK
<1>7. ToSet(t) = {t[k] : k \in 1 .. n - 1}
  BY <1>4, <1>6, Members
<1>8. ToSet(t) \subseteq ToSet(s) \ {h}
  <2> SUFFICES ASSUME NEW k \in 1 .. n - 1 PROVE t[k] \in ToSet(s) \ {h}
    BY <1>7
  <2>1. t[k] = s[k + 1] /\ k + 1 \in 1 .. n /\ 1 \in 1 .. n /\ k + 1 # 1
    BY <1>1, <1>4
  <2>2. s[k + 1] # s[1]
    BY <1>5, <2>1
  <2> QED BY <1>1, <1>3, <2>1, <2>2
<1>9. ToSet(s) \ {h} \subseteq ToSet(t)
  <2> SUFFICES ASSUME NEW k \in 1 .. n, s[k] # h PROVE s[k] \in ToSet(t)
    BY <1>1
  <2>1. k # 1
    BY <1>3
  <2>2. k - 1 \in 1 .. n - 1 /\ (k - 1) + 1 = k
    BY <1>1, <2>1
  <2>3. t[k - 1] = s[k]
    BY <1>4, <2>2
  <2> QED BY <1>7, <2>2, <2>3
<1>10. h \in ToSet(s) /\ h \in Layers
  <2>1. 1 \in 1 .. n
    BY <1>1, <1>2
  <2> QED BY <1>1, <1>3, <2>1
<1> QED BY <1>6, <1>8, <1>9, <1>10 DEF t, h

-----------------------------------------------------------------------------
(***************************************************************************)
(* What the planners return.                                               *)
(***************************************************************************)

Held(ls) == [i \in Layers |-> Bytes(ls[i])]
OnDevice(ls) == [i \in Layers |-> DeviceBytes(ls[i])]

EligibleIn(ls, exclude) ==
  {i \in Layers : ~ls[i].offloaded /\ i \notin exclude /\ Bytes(ls[i]) > 0}
FetchableIn(ls) == {i \in Layers : ls[i].offloaded /\ Bytes(ls[i]) > 0}

\* s lists the members of S once each.
Lists(s, S) ==
  /\ ListOK(s) /\ ToSet(s) = S
  /\ \A i \in S : \E k \in 1 .. Len(s) : s[k] = i

LEMMA SortedLists ==
  ASSUME NEW S \in SUBSET Layers, NEW key, \A i \in Layers : key[i] \in Int
  PROVE  LET s == SortedBy(S, key) IN
         /\ Lists(s, S)
         /\ \A j, k \in 1 .. Len(s) : j < k => Before(key, s[j], s[k])
<1> DEFINE s == SortedBy(S, key)
<1>1. /\ s \in Seq(S) /\ Len(s) \in Nat
      /\ \A i \in S : \E k \in 1 .. Len(s) : s[k] = i
      /\ \A j, k \in 1 .. Len(s) : j < k => Before(key, s[j], s[k])
      /\ \A j, k \in 1 .. Len(s) : s[j] = s[k] => j = k
  BY SortedByOK
<1> HIDE DEF s
<1>2. ListOK(s)
  BY <1>1, Widen DEF ListOK
<1>3. \A k \in 1 .. Len(s) : s[k] \in S
  BY <1>1, EntryOf
<1>4. ToSet(s) = S
  <2>1. ToSet(s) = {s[k] : k \in 1 .. Len(s)}
    BY <1>2, Members
  <2> QED BY <1>1, <1>3, <2>1
<1> QED BY <1>1, <1>2, <1>4 DEF Lists, s

LEMMA BytesAreNumbers ==
  ASSUME IInv
  PROVE  \A i \in Layers : /\ Bytes(layers[i]) \in Nat /\ DeviceBytes(layers[i]) \in Nat
                           /\ Held(layers)[i] \in Nat /\ OnDevice(layers)[i] \in Nat
BY Figures DEF IInv, LayersOK, Held, OnDevice

\* TierManager ranks every eligible layer, the stalest first if asked to.
LEMMA RankedOK ==
  ASSUME IInv, NEW S \in SUBSET Layers, NEW order \in Orders
  PROVE  LET s == Ranked(S, order) IN
         /\ Lists(s, S)
         /\ order = "lru" => \A j, k \in 1 .. Len(s) : j < k => Recency(s[j]) <= Recency(s[k])
<1> DEFINE s == Ranked(S, order)
<1>1. CASE order = "largest"
  <2> DEFINE key == [i \in Layers |-> -[j \in Layers |-> Bytes(layers[j])][i]]
  <2>1. \A i \in Layers : key[i] \in Int
    BY BytesAreNumbers
  <2>2. s = SortedBy(S, key)
    BY <1>1 DEF Ranked, SortedDown
  <2> HIDE DEF key, s
  <2>3. Lists(SortedBy(S, key), S)
    BY <2>1, SortedLists
  <2> QED BY <1>1, <2>2, <2>3 DEF s
<1>2. CASE order = "reverse"
  <2> DEFINE key == [i \in Layers |-> -[j \in Layers |-> j][i]]
  <2>1. \A i \in Layers : key[i] \in Int
    BY NumLayersAssumption DEF Layers
  <2>2. s = SortedBy(S, key)
    BY <1>2 DEF Ranked, SortedDown
  <2> HIDE DEF key, s
  <2>3. Lists(SortedBy(S, key), S)
    BY <2>1, SortedLists
  <2> QED BY <1>2, <2>2, <2>3 DEF s
<1>3. CASE order = "lru"
  <2> DEFINE key == [i \in Layers |-> Recency(i)]
             t == SortedBy(S, key)
  <2>1. \A i \in Layers : key[i] \in Int
    BY RecencyIsInt
  <2>2. s = t
    BY <1>3 DEF Ranked
  <2>3. Lists(t, S) /\ (\A j, k \in 1 .. Len(t) : j < k => Before(key, t[j], t[k]))
    <3> HIDE DEF key
    <3> QED BY <2>1, SortedLists
  <2> HIDE DEF t, s
  <2>4. \A j, k \in 1 .. Len(t) : j < k => Recency(t[j]) <= Recency(t[k])
    <3> SUFFICES ASSUME NEW j \in 1 .. Len(t), NEW k \in 1 .. Len(t), j < k
                 PROVE  Recency(t[j]) <= Recency(t[k])
      OBVIOUS
    <3>1. t[j] \in Layers /\ t[k] \in Layers
      BY <2>3, EntryOf DEF Lists, ListOK
    <3>2. Before(key, t[j], t[k]) /\ key[t[j]] \in Int /\ key[t[k]] \in Int
      BY <2>1, <2>3, <3>1
    <3>3. key[t[j]] = Recency(t[j]) /\ key[t[k]] = Recency(t[k])
      BY <3>1
    <3> HIDE DEF key
    <3>4. key[t[j]] <= key[t[k]]
      BY <3>2 DEF Before
    <3> QED BY <3>3, <3>4
  <2> QED BY <2>2, <2>3, <2>4 DEF s
<1> QED BY <1>1, <1>2, <1>3 DEF Orders

\* What an offload plan says of the layers it is made from.
OffloadPlanOK(p) ==
  /\ ListOK(p.layers)
  /\ ToSet(p.layers) \subseteq EligibleIn(layers, p.exclude)
  /\ p.after = BytesOnDevice(layers) - FoldFunctionOnSet(+, 0, OnDevice(layers), ToSet(p.layers))
  /\ p.feasible <=> p.after <= p.budget
  /\ ~p.feasible => EligibleIn(layers, p.exclude) \subseteq ToSet(p.layers)
  /\ p.layers # <<>> =>
       p.after + DeviceBytes(layers[Last(p.layers)]) > p.budget
  /\ p.order = "lru" =>
       \A i \in ToSet(p.layers), j \in EligibleIn(layers, p.exclude) \ ToSet(p.layers) :
         Recency(i) <= Recency(j)

LEMMA OffloadPlanned ==
  ASSUME IInv, NEW budget \in Nat, NEW order \in Orders, NEW exclude
  PROVE  LET p == OffloadPlan(budget, order, exclude) IN
         /\ OffloadPlanOK(p)
         /\ p.budget = budget /\ p.order = order /\ p.exclude = exclude /\ p.from = layers
<1> DEFINE E == Eligible(exclude)
           before == BytesOnDevice(layers)
           ranked == Ranked(E, order)
           L == Len(ranked)
           N == CHOOSE n \in 0 .. Len(ranked) :
                  /\ \A k \in 0 .. n - 1 : before - Freed(SubSeq(ranked, 1, k)) > budget
                  /\ n = Len(ranked) \/ ~(before - Freed(SubSeq(ranked, 1, n)) > budget)
           chosen == SubSeq(ranked, 1, N)
           after == before - Freed(chosen)
           p == OffloadPlan(budget, order, exclude)
<1>1. /\ p.layers = chosen /\ p.after = after /\ p.feasible = (after <= budget)
      /\ p.budget = budget /\ p.order = order /\ p.exclude = exclude /\ p.from = layers
  BY DEF OffloadPlan, TakeWhile
<1>2. E = EligibleIn(layers, exclude) /\ E \in SUBSET Layers
  BY DEF Eligible, EligibleIn
<1>3. /\ Lists(ranked, E)
      /\ order = "lru" => \A j, k \in 1 .. L : j < k => Recency(ranked[j]) <= Recency(ranked[k])
  <2> HIDE DEF E
  <2> QED BY <1>2, RankedOK
<1> HIDE DEF E, ranked
<1>4. L \in Nat /\ ListOK(ranked) /\ ToSet(ranked) = E /\ ToSet(ranked) = {ranked[k] : k \in 1 .. L}
  BY <1>3, Members DEF Lists
<1>5. /\ N \in 0 .. L
      /\ \A k \in 0 .. N - 1 : before - Freed(SubSeq(ranked, 1, k)) > budget
      /\ N = L \/ ~(before - Freed(SubSeq(ranked, 1, N)) > budget)
  <2> DEFINE M == {k \in 0 .. L : before - Freed(SubSeq(ranked, 1, k)) > budget}
  <2>1. \E n \in 0 .. L : (\A k \in 0 .. n - 1 : k \in M) /\ (n = L \/ n \notin M)
    <3> HIDE DEF M, L
    <3> QED BY <1>4, FirstStop
  <2>2. \A k \in 0 .. L : k \in M <=> before - Freed(SubSeq(ranked, 1, k)) > budget
    OBVIOUS
  <2>3. \A n \in 0 .. L : \A k \in 0 .. n - 1 : k \in 0 .. L
    <3> HIDE DEF L, M
    <3> QED BY <1>4
  <2>4. \E n \in 0 .. L :
          /\ \A k \in 0 .. n - 1 : before - Freed(SubSeq(ranked, 1, k)) > budget
          /\ n = L \/ ~(before - Freed(SubSeq(ranked, 1, n)) > budget)
    <3>1. PICK n \in 0 .. L : (\A k \in 0 .. n - 1 : k \in M) /\ (n = L \/ n \notin M)
      BY <2>1
    <3> HIDE DEF M, L, before
    <3>2. \A k \in 0 .. n - 1 : before - Freed(SubSeq(ranked, 1, k)) > budget
      BY <2>2, <2>3, <3>1
    <3>3. n = L \/ ~(before - Freed(SubSeq(ranked, 1, n)) > budget)
      BY <2>2, <3>1
    <3> QED BY <3>2, <3>3
  <2> HIDE DEF before
  <2> QED BY <2>4
<1> HIDE DEF N, L, p
<1>6. /\ ListOK(chosen) /\ Len(chosen) = N /\ (\A k \in 1 .. N : chosen[k] = ranked[k])
      /\ ToSet(chosen) = {ranked[k] : k \in 1 .. N} /\ N \in Nat /\ N <= L
      /\ 1 .. N \subseteq 1 .. L
  <2>1. N \in 0 .. Len(ranked)
    BY <1>5 DEF L
  <2>2. N \in Nat /\ N <= L /\ 1 .. N \subseteq 1 .. L
    BY <1>4, <1>5
  <2> QED BY <1>4, <2>1, <2>2, Prefix
<1>7. ToSet(chosen) \subseteq E
  <2> HIDE DEF chosen
  <2> QED BY <1>4, <1>6
<1>8. Freed(chosen) = FoldFunctionOnSet(+, 0, OnDevice(layers), ToSet(chosen))
  BY DEF Freed, OnDevice
<1>9. before \in Nat
  <2>1. before = Sum(OnDevice(layers), Layers)
    BY LayersFinite, FoldIsSum DEF BytesOnDevice, OnDevice
  <2> HIDE DEF before
  <2> QED BY <2>1, LayersFinite, BytesAreNumbers, SumNat
<1>10. \A s : ToSet(s) \in SUBSET Layers => Freed(s) = Sum(OnDevice(layers), ToSet(s)) /\ Freed(s) \in Nat
  <2> SUFFICES ASSUME NEW s, ToSet(s) \in SUBSET Layers
               PROVE  Freed(s) = Sum(OnDevice(layers), ToSet(s)) /\ Freed(s) \in Nat
    OBVIOUS
  <2>1. IsFiniteSet(ToSet(s))
    BY LayersFinite
  <2>2. Freed(s) = Sum(OnDevice(layers), ToSet(s))
    BY <2>1, FoldIsSum DEF Freed, OnDevice
  <2>3. \A i \in ToSet(s) : OnDevice(layers)[i] \in Nat
    BY BytesAreNumbers
  <2> QED BY <2>1, <2>2, <2>3, SumNat
<1> HIDE DEF before
<1>11. after \in Int /\ Freed(chosen) \in Nat
  <2>1. ToSet(chosen) \in SUBSET Layers
    BY <1>2, <1>7
  <2> HIDE DEF chosen
  <2> QED BY <1>9, <1>10, <2>1
<1>12. ~(after <= budget) => E \subseteq ToSet(chosen)
  <2> SUFFICES ASSUME ~(after <= budget) PROVE E \subseteq ToSet(chosen)
    OBVIOUS
  <2>1. after > budget
    <3> HIDE DEF after
    <3> QED BY <1>11
  <2>2. N = L
    BY <1>5, <2>1
  <2> HIDE DEF chosen
  <2> QED BY <1>4, <1>6, <2>2
<1>13. N # 0 => after + DeviceBytes(layers[ranked[N]]) > budget
  <2> SUFFICES ASSUME N # 0 PROVE after + DeviceBytes(layers[ranked[N]]) > budget
    OBVIOUS
  <2> DEFINE less == SubSeq(ranked, 1, N - 1)
             x == ranked[N]
  <2>1. N - 1 \in 0 .. N - 1 /\ N - 1 \in 0 .. Len(ranked) /\ N \in 1 .. L /\ N \in 1 .. N
    BY <1>4, <1>6 DEF L
  <2>2. before - Freed(less) > budget
    BY <1>5, <2>1
  <2>3. ToSet(less) = {ranked[k] : k \in 1 .. N - 1} /\ ListOK(less)
    BY <1>4, <2>1, Prefix
  <2>4. \A k \in 1 .. N - 1 : ranked[k] # x
    <3> SUFFICES ASSUME NEW k \in 1 .. N - 1, ranked[k] = x PROVE FALSE
      OBVIOUS
    <3>1. k \in 1 .. L /\ k # N
      BY <1>4, <1>6
    <3>2. \A a, b \in 1 .. L : ranked[a] = ranked[b] => a = b
      BY <1>4 DEF ListOK, L
    <3> QED BY <2>1, <3>1, <3>2
  <2>5. x \in Layers /\ ToSet(less) \in SUBSET Layers /\ x \notin ToSet(less)
    <3>1. x \in E
      BY <1>4, <2>1
    <3>2. ToSet(less) \in SUBSET Layers
      BY <2>3, Members
    <3> HIDE DEF less, x
    <3> QED BY <1>2, <2>3, <2>4, <3>1, <3>2
  <2>6. ToSet(chosen) = ToSet(less) \cup {x}
    <3>1. \A k : k \in 1 .. N <=> k \in 1 .. N - 1 \/ k = N
      BY <1>6, <2>1
    <3> HIDE DEF less, chosen
    <3> QED BY <1>6, <2>3, <3>1
  <2> HIDE DEF less, x, chosen
  <2>7. Sum(OnDevice(layers), ToSet(less) \cup {x}) = Sum(OnDevice(layers), ToSet(less)) + OnDevice(layers)[x]
    BY <2>5, LayersFinite, BytesAreNumbers, SumGrows
  <2>8. ToSet(chosen) \in SUBSET Layers
    BY <2>5, <2>6
  <2>9. /\ Freed(chosen) = Freed(less) + OnDevice(layers)[x]
        /\ OnDevice(layers)[x] = DeviceBytes(layers[x]) /\ DeviceBytes(layers[x]) \in Nat
        /\ Freed(less) \in Nat /\ Freed(chosen) \in Nat
    BY <1>10, <2>5, <2>6, <2>7, <2>8, BytesAreNumbers DEF OnDevice
  <2>10. after + DeviceBytes(layers[x]) = before - Freed(less)
    BY <1>9, <2>9
  <2> HIDE DEF after
  <2> QED BY <2>2, <2>10 DEF x
<1>14. chosen # <<>> => N # 0 /\ Last(chosen) = ranked[N]
  <2> SUFFICES ASSUME chosen # <<>> PROVE N # 0 /\ Last(chosen) = ranked[N]
    OBVIOUS
  <2> HIDE DEF chosen
  <2>1. chosen \in Seq(Layers)
    BY <1>6 DEF ListOK
  <2>2. Len(chosen) # 0
    BY <2>1
  <2>3. N # 0 /\ N \in 1 .. N
    BY <1>6, <2>2
  <2> QED BY <1>6, <2>3 DEF Last
<1>15. order = "lru" => \A i \in ToSet(chosen), j \in E \ ToSet(chosen) : Recency(i) <= Recency(j)
  <2> SUFFICES ASSUME order = "lru", NEW i \in ToSet(chosen), NEW j \in E, j \notin ToSet(chosen)
               PROVE  Recency(i) <= Recency(j)
    OBVIOUS
  <2> HIDE DEF chosen
  <2>1. PICK a \in 1 .. N : i = ranked[a]
    BY <1>6
  <2>2. PICK b \in 1 .. L : j = ranked[b]
    BY <1>4
  <2>3. b \notin 1 .. N
    BY <1>6, <2>2
  <2>4. a \in 1 .. L /\ a < b
    BY <1>4, <1>6, <2>3
  <2> QED BY <1>3, <2>1, <2>2, <2>4
<1>16. OffloadPlanOK(p)
  <2> HIDE DEF chosen, after
  <2>1. ListOK(p.layers) /\ ToSet(p.layers) \subseteq EligibleIn(layers, p.exclude)
    BY <1>1, <1>2, <1>6, <1>7
  <2>2. p.after = BytesOnDevice(layers)
                    - FoldFunctionOnSet(+, 0, OnDevice(layers), ToSet(p.layers))
    BY <1>1, <1>8 DEF after, before
  <2>3. p.feasible <=> p.after <= p.budget
    BY <1>1
  <2>4. ~p.feasible => EligibleIn(layers, p.exclude) \subseteq ToSet(p.layers)
    BY <1>1, <1>2, <1>12
  <2>5. p.layers # <<>> => p.after + DeviceBytes(layers[Last(p.layers)]) > p.budget
    BY <1>1, <1>13, <1>14
  <2>6. p.order = "lru" =>
          \A i \in ToSet(p.layers), j \in EligibleIn(layers, p.exclude) \ ToSet(p.layers) :
            Recency(i) <= Recency(j)
    BY <1>1, <1>2, <1>15
  <2> QED BY <2>1, <2>2, <2>3, <2>4, <2>5, <2>6 DEF OffloadPlanOK
<1> QED BY <1>1, <1>16 DEF p

-----------------------------------------------------------------------------
(***************************************************************************)
(* What the prefetch policies return.                                      *)
(***************************************************************************)

LEMMA MovedBytes ==
  ASSUME IInv, NEW s, ToSet(s) \in SUBSET Layers
  PROVE  Moved(s) = FoldFunctionOnSet(+, 0, Held(layers), ToSet(s)) /\ Moved(s) \in Nat
         /\ (ToSet(s) = {} => Moved(s) = 0)
<1>1. IsFiniteSet(ToSet(s))
  BY LayersFinite
<1>2. Moved(s) = FoldFunctionOnSet(+, 0, Held(layers), ToSet(s))
  BY DEF Moved, Held
<1>3. Moved(s) = Sum(Held(layers), ToSet(s))
  BY <1>1, <1>2, FoldIsSum
<1>4. \A i \in ToSet(s) : Held(layers)[i] \in Nat
  BY BytesAreNumbers
<1>5. ToSet(s) = {} => Moved(s) = 0
  <2> SUFFICES ASSUME ToSet(s) = {} PROVE Moved(s) = 0
    OBVIOUS
  <2>1. PICK g : IsSum(g, Held(layers), {}) /\ Sum(Held(layers), {}) = g[{}]
    BY FS_EmptySet, SumIs
  <2> QED BY <1>3, <2>1, SumRule
<1> QED BY <1>1, <1>2, <1>3, <1>4, <1>5, SumNat

\* The lookahead after the cursor, and how far ahead its layers are.
LEMMA NeededIsAhead ==
  ASSUME NEW cursor \in Layers, NEW depth \in Nat, NEW wrap \in BOOLEAN,
         NEW k \in Reached([cursor |-> cursor, depth |-> depth, wrap |-> wrap])
  PROVE  LET i == Needed([cursor |-> cursor, depth |-> depth, wrap |-> wrap], k) IN
         /\ i \in Layers /\ i \in Ahead(cursor, depth, wrap)
         /\ Offset(cursor)[i] = k
<1> DEFINE w == [cursor |-> cursor, depth |-> depth, wrap |-> wrap]
           i == Needed(w, k)
           N == NumLayers
<1>1. N \in Nat /\ N # 0 /\ cursor \in Nat /\ 1 <= cursor /\ cursor <= N
  BY NumLayersAssumption DEF Layers
<1>2. k \in 1 .. depth /\ k <= N /\ (wrap \/ cursor + k <= N)
  BY DEF Reached
<1>3. i = IF cursor + k > N THEN cursor + k - N ELSE cursor + k
  BY DEF Needed
<1>4. i \in 1 .. N
  <2> HIDE DEF i, N
  <2> QED BY <1>1, <1>2, <1>3
<1>5. Offset(cursor)[i] = k
  <2>1. Offset(cursor)[i] = IF i > cursor THEN i - cursor ELSE i + N - cursor
    BY <1>4 DEF Offset, Layers
  <2> HIDE DEF i, N
  <2> QED BY <1>1, <1>2, <1>3, <2>1
<1>6. ((cursor + k - 1) % N) + 1 = i
  <2> HIDE DEF i, N
  <2>1. CASE cursor + k > N
    <3>1. cursor + k - 1 - N \in 0 .. N - 1 /\ cursor + k - 1 = 1 * N + (cursor + k - 1 - N)
      BY <1>1, <1>2, <2>1
    <3>2. (cursor + k - 1) % N = cursor + k - 1 - N
      BY <1>1, <1>2, <3>1
    <3> QED BY <1>1, <1>2, <1>3, <2>1, <3>2
  <2>2. CASE ~(cursor + k > N)
    <3>1. cursor + k - 1 \in 0 .. N - 1
      BY <1>1, <1>2, <2>2
    <3>2. (cursor + k - 1) % N = cursor + k - 1
      BY <1>1, <3>1
    <3> QED BY <1>1, <1>2, <1>3, <2>2, <3>2
  <2> QED BY <2>1, <2>2
<1>7. k \in 1 .. MinOf(depth, IF wrap THEN N ELSE N - cursor)
  <2> HIDE DEF N
  <2>1. CASE wrap
    BY <1>1, <1>2, <2>1 DEF MinOf
  <2>2. CASE ~wrap
    BY <1>1, <1>2, <2>2 DEF MinOf
  <2> QED BY <2>1, <2>2
<1>8. i \in Ahead(cursor, depth, wrap)
  <2> HIDE DEF i
  <2> QED BY <1>6, <1>7 DEF Ahead
<1> QED BY <1>4, <1>5, <1>8 DEF Layers

\* What a prefetch plan says of the layers it is made from: what it announces,
\* and what its policy promises.
PrefetchPlanOK(p) ==
  /\ ListOK(p.layers)
  /\ ToSet(p.layers) \subseteq FetchableIn(layers)
  /\ p.bytes = FoldFunctionOnSet(+, 0, Held(layers), ToSet(p.layers))
  /\ p.budget # NoBudget => p.bytes <= p.budget
  /\ p.name = "next_layer" =>
       \A k \in Reached(p.window) :
         /\ Needed(p.window, k) \in Layers
         /\ Needed(p.window, k) \in FetchableIn(layers) \ ToSet(p.layers) =>
              /\ p.budget # NoBudget
              /\ \A j \in Reached(p.window) :
                   j > k => Needed(p.window, j) \notin ToSet(p.layers)
  /\ p.name = "recency" /\ p.budget = NoBudget =>
       /\ Len(p.layers) = p.window \/ FetchableIn(layers) \subseteq ToSet(p.layers)
       /\ \A i \in ToSet(p.layers), j \in FetchableIn(layers) \ ToSet(p.layers) :
            Recency(i) >= Recency(j)

PrefetchPlan(name, chosen, budget, window) ==
  [layers |-> chosen, name |-> name, bytes |-> Moved(chosen),
   budget |-> budget, window |-> window, from |-> layers]

\* The nearest layers that fit are a prefix of those ahead.
LEMMA NextLayersPlanned ==
  ASSUME IInv, NEW cursor \in Layers, NEW depth \in Nat, NEW wrap \in BOOLEAN,
         NEW budget \in Nat \cup {NoBudget}
  PROVE  PrefetchPlanOK(PrefetchPlan("next_layer", NextLayers(cursor, depth, wrap, budget),
           budget, [cursor |-> cursor, depth |-> depth, wrap |-> wrap]))
<1> DEFINE w == [cursor |-> cursor, depth |-> depth, wrap |-> wrap]
           A == {i \in Ahead(cursor, depth, wrap) : Fetchable(i)}
           near == SortedBy(A, Offset(cursor))
           L == Len(near)
           N == CHOOSE n \in 0 .. Len(near) :
                  /\ \A k \in 0 .. n - 1 : Affordable(SubSeq(near, 1, k + 1), budget)
                  /\ n = Len(near) \/ ~Affordable(SubSeq(near, 1, n + 1), budget)
           chosen == SubSeq(near, 1, N)
           p == PrefetchPlan("next_layer", NextLayers(cursor, depth, wrap, budget), budget, w)
<1>1. /\ p.layers = chosen /\ p.name = "next_layer" /\ p.bytes = Moved(chosen)
      /\ p.budget = budget /\ p.window = w
  BY DEF PrefetchPlan, NextLayers, TakeWhile
<1>2. A \in SUBSET Layers /\ A \subseteq FetchableIn(layers)
      /\ (\A i \in Ahead(cursor, depth, wrap) : i \in FetchableIn(layers) => i \in A)
  <2>1. \A k \in 1 .. MinOf(depth, IF wrap THEN NumLayers ELSE NumLayers - cursor) :
          ((cursor + k - 1) % NumLayers) + 1 \in Layers
    <3> SUFFICES ASSUME NEW k \in 1 .. MinOf(depth, IF wrap THEN NumLayers ELSE NumLayers - cursor)
                 PROVE  ((cursor + k - 1) % NumLayers) + 1 \in Layers
      OBVIOUS
    <3>1. k \in Int /\ NumLayers \in Nat /\ NumLayers > 0 /\ cursor \in Nat
      BY NumLayersAssumption DEF MinOf, Layers
    <3>2. (cursor + k - 1) % NumLayers \in 0 .. NumLayers - 1
      BY <3>1
    <3> QED BY <3>1, <3>2 DEF Layers
  <2>2. \A i \in Ahead(cursor, depth, wrap) : i \in Layers
    BY <2>1 DEF Ahead
  <2> QED BY <2>2 DEF Fetchable, FetchableIn
<1>3. \A i \in Layers : Offset(cursor)[i] \in Int
  BY NumLayersAssumption DEF Offset, Layers
<1> HIDE DEF A
<1>4. Lists(near, A) /\ (\A j, k \in 1 .. L : j < k => Before(Offset(cursor), near[j], near[k]))
  BY <1>2, <1>3, SortedLists
<1> HIDE DEF near
<1>5. L \in Nat /\ ListOK(near) /\ ToSet(near) = A /\ ToSet(near) = {near[k] : k \in 1 .. L}
  BY <1>4, Members DEF Lists
<1>6. /\ N \in 0 .. L
      /\ \A k \in 0 .. N - 1 : Affordable(SubSeq(near, 1, k + 1), budget)
      /\ N = L \/ ~Affordable(SubSeq(near, 1, N + 1), budget)
  <2> DEFINE M == {k \in 0 .. L : Affordable(SubSeq(near, 1, k + 1), budget)}
  <2>1. \E n \in 0 .. L : (\A k \in 0 .. n - 1 : k \in M) /\ (n = L \/ n \notin M)
    <3> HIDE DEF M, L
    <3> QED BY <1>5, FirstStop
  <2>2. \A k \in 0 .. L : k \in M <=> Affordable(SubSeq(near, 1, k + 1), budget)
    OBVIOUS
  <2>3. \A n \in 0 .. L : \A k \in 0 .. n - 1 : k \in 0 .. L
    <3> HIDE DEF L, M
    <3> QED BY <1>5
  <2>4. \E n \in 0 .. L :
          /\ \A k \in 0 .. n - 1 : Affordable(SubSeq(near, 1, k + 1), budget)
          /\ n = L \/ ~Affordable(SubSeq(near, 1, n + 1), budget)
    <3>1. PICK n \in 0 .. L : (\A k \in 0 .. n - 1 : k \in M) /\ (n = L \/ n \notin M)
      BY <2>1
    <3> HIDE DEF M, L
    <3>2. \A k \in 0 .. n - 1 : Affordable(SubSeq(near, 1, k + 1), budget)
      BY <2>2, <2>3, <3>1
    <3>3. n = L \/ ~Affordable(SubSeq(near, 1, n + 1), budget)
      BY <2>2, <3>1
    <3> QED BY <3>2, <3>3
  <2> QED BY <2>4
<1> HIDE DEF N, L, p
<1>7. /\ ListOK(chosen) /\ Len(chosen) = N /\ ToSet(chosen) = {near[k] : k \in 1 .. N}
      /\ N \in Nat /\ N <= L /\ 1 .. N \subseteq 1 .. L
  <2>1. N \in 0 .. Len(near)
    BY <1>6 DEF L
  <2>2. N \in Nat /\ N <= L /\ 1 .. N \subseteq 1 .. L
    BY <1>5, <1>6
  <2> QED BY <1>5, <2>1, <2>2, Prefix
<1>8. ToSet(chosen) \subseteq A /\ ToSet(chosen) \in SUBSET Layers
  <2> HIDE DEF chosen
  <2> QED BY <1>2, <1>5, <1>7
<1>9. budget # NoBudget => Moved(chosen) <= budget
  <2> SUFFICES ASSUME budget # NoBudget PROVE Moved(chosen) <= budget
    OBVIOUS
  <2>1. CASE N = 0
    <3>1. ToSet(chosen) = {}
      <4> HIDE DEF chosen
      <4> QED BY <1>7, <2>1
    <3>2. Moved(chosen) = 0
      BY <1>8, <3>1, MovedBytes
    <3> HIDE DEF chosen
    <3> QED BY <3>2
  <2>2. CASE N # 0
    <3>1. N - 1 \in 0 .. N - 1 /\ (N - 1) + 1 = N
      BY <1>7, <2>2
    <3>2. Affordable(SubSeq(near, 1, (N - 1) + 1), budget)
      BY <1>6, <3>1
    <3> QED BY <3>1, <3>2 DEF Affordable
  <2> QED BY <2>1, <2>2
<1>10. budget = NoBudget => ToSet(chosen) = A
  <2> SUFFICES ASSUME budget = NoBudget PROVE ToSet(chosen) = A
    OBVIOUS
  <2>1. N = L
    BY <1>6 DEF Affordable
  <2> HIDE DEF chosen
  <2> QED BY <1>5, <1>7, <2>1
<1>11. ASSUME NEW k \in Reached(w)
       PROVE  /\ Needed(w, k) \in Layers
              /\ Needed(w, k) \in FetchableIn(layers) \ ToSet(chosen) =>
                   /\ budget # NoBudget
                   /\ \A j \in Reached(w) : j > k => Needed(w, j) \notin ToSet(chosen)
  <2>1. \A j \in Reached(w) : /\ Needed(w, j) \in Layers /\ j \in Int
                              /\ Needed(w, j) \in Ahead(cursor, depth, wrap)
                              /\ Offset(cursor)[Needed(w, j)] = j
    <3> SUFFICES ASSUME NEW j \in Reached(w)
                 PROVE  /\ Needed(w, j) \in Layers /\ j \in Int
                        /\ Needed(w, j) \in Ahead(cursor, depth, wrap)
                        /\ Offset(cursor)[Needed(w, j)] = j
      OBVIOUS
    <3>1. j \in Int
      BY DEF Reached
    <3> QED BY <3>1, NeededIsAhead
  <2> HIDE DEF w, chosen
  <2> SUFFICES ASSUME Needed(w, k) \in FetchableIn(layers), Needed(w, k) \notin ToSet(chosen)
               PROVE  /\ budget # NoBudget
                      /\ \A j \in Reached(w) : j > k => Needed(w, j) \notin ToSet(chosen)
    BY <2>1
  <2>2. Needed(w, k) \in A
    BY <1>2, <2>1
  <2>3. budget # NoBudget
    BY <1>10, <2>2
  <2>4. ASSUME NEW j \in Reached(w), j > k, Needed(w, j) \in ToSet(chosen) PROVE FALSE
    <3>1. PICK a \in 1 .. N : Needed(w, j) = near[a]
      BY <1>7, <2>4
    <3>2. PICK b \in 1 .. L : Needed(w, k) = near[b]
      BY <1>5, <2>2
    <3>3. b \notin 1 .. N
      BY <1>7, <3>2
    <3>4. a \in 1 .. L /\ a < b
      BY <1>5, <1>7, <3>3
    <3>5. Before(Offset(cursor), Needed(w, j), Needed(w, k))
      BY <1>4, <3>1, <3>2, <3>4
    <3>6. j < k \/ j = k
      BY <2>1, <3>5 DEF Before
    <3> QED BY <2>1, <2>4, <3>6
  <2> QED BY <2>3, <2>4
<1>12. PrefetchPlanOK(p)
  <2>1. ListOK(p.layers) /\ ToSet(p.layers) \subseteq FetchableIn(layers)
    BY <1>1, <1>2, <1>7, <1>8
  <2>2. p.bytes = FoldFunctionOnSet(+, 0, Held(layers), ToSet(p.layers))
    BY <1>1, <1>8, MovedBytes
  <2>3. p.budget # NoBudget => p.bytes <= p.budget
    BY <1>1, <1>9
  <2>4. p.name = "next_layer" /\ p.name # "recency"
    BY <1>1
  <2> HIDE DEF chosen, w
  <2>5. \A k \in Reached(p.window) :
         /\ Needed(p.window, k) \in Layers
         /\ Needed(p.window, k) \in FetchableIn(layers) \ ToSet(p.layers) =>
              /\ p.budget # NoBudget
              /\ \A j \in Reached(p.window) :
                   j > k => Needed(p.window, j) \notin ToSet(p.layers)
    BY <1>1, <1>11
  <2> QED BY <2>1, <2>2, <2>3, <2>4, <2>5 DEF PrefetchPlanOK
<1> QED BY <1>12 DEF p

\* Planning nothing keeps every promise.
LEMMA NothingPlanned ==
  ASSUME IInv
  PROVE  PrefetchPlanOK(PrefetchPlan("none", <<>>, NoBudget, 0))
<1> DEFINE p == PrefetchPlan("none", <<>>, NoBudget, 0)
<1>1. p.layers = <<>> /\ p.name = "none" /\ p.bytes = Moved(<<>>) /\ p.budget = NoBudget
  BY DEF PrefetchPlan
<1>2. ListOK(<<>>)
  BY DEF ListOK
<1>3. ToSet(<<>>) = {}
  BY <1>2, Members
<1>4. Moved(<<>>) = FoldFunctionOnSet(+, 0, Held(layers), ToSet(<<>>))
  BY <1>3, MovedBytes
<1> HIDE DEF p
<1> QED BY <1>1, <1>2, <1>3, <1>4 DEF PrefetchPlanOK, p

\* What MostRecent takes of every prefix of the ranked layers.
Takes(f, r, k, budget, n) ==
  f = [m \in 0 .. n |->
         IF m = 0 THEN <<>>
         ELSE IF Len(f[m - 1]) < k /\ Affordable(Append(f[m - 1], r[m]), budget)
         THEN Append(f[m - 1], r[m]) ELSE f[m - 1]]

LEMMA TakesExists ==
  ASSUME NEW r, NEW k, NEW budget, NEW N \in Nat
  PROVE  \E f : Takes(f, r, k, budget, N)
<1> DEFINE P == {n \in 0 .. N : \E f : Takes(f, r, k, budget, n)}
           Following(u, m) == IF Len(u) < k /\ Affordable(Append(u, r[m]), budget)
                              THEN Append(u, r[m]) ELSE u
<1>0. \A f, n : Takes(f, r, k, budget, n) <=>
         f = [m \in 0 .. n |-> IF m = 0 THEN <<>> ELSE Following(f[m - 1], m)]
  BY DEF Takes
<1> HIDE DEF Following
<1>1. 0 \in P
  <2> DEFINE f == [m \in 0 .. 0 |-> <<>>]
  <2>1. f = [m \in 0 .. 0 |-> IF m = 0 THEN <<>> ELSE Following(f[m - 1], m)]
    OBVIOUS
  <2> HIDE DEF f
  <2>2. Takes(f, r, k, budget, 0)
    BY <1>0, <2>1
  <2> QED BY <2>2
<1>2. ASSUME NEW n \in 0 .. N - 1, n \in P PROVE n + 1 \in P
  <2>1. PICK f : Takes(f, r, k, budget, n)
    BY <1>2
  <2> DEFINE last == Following(f[n], n + 1)
             g == [m \in 0 .. n + 1 |-> IF m = n + 1 THEN last ELSE f[m]]
  <2>2. \A m \in 0 .. n : f[m] = IF m = 0 THEN <<>> ELSE Following(f[m - 1], m)
    <3>1. f = [m \in 0 .. n |-> IF m = 0 THEN <<>> ELSE Following(f[m - 1], m)]
      BY <1>0, <2>1
    <3> QED BY <3>1
  <2>3. /\ g[n + 1] = last
        /\ \A m \in 0 .. n : g[m] = f[m]
    OBVIOUS
  <2>4. g = [m \in 0 .. n + 1 |-> g[m]]
    OBVIOUS
  <2> HIDE DEF g
  <2>5. \A m \in 0 .. n + 1 : g[m] = IF m = 0 THEN <<>> ELSE Following(g[m - 1], m)
    <3> SUFFICES ASSUME NEW m \in 0 .. n + 1
                 PROVE  g[m] = IF m = 0 THEN <<>> ELSE Following(g[m - 1], m)
      OBVIOUS
    <3>1. CASE m = n + 1
      <4>1. m # 0 /\ m - 1 = n /\ g[n] = f[n]
        BY <3>1, <2>3
      <4> QED BY <2>3, <3>1, <4>1
    <3>2. CASE m # n + 1
      <4>1. m \in 0 .. n /\ (m # 0 => m - 1 \in 0 .. n)
        BY <3>2
      <4>2. g[m] = f[m] /\ (m # 0 => g[m - 1] = f[m - 1])
        BY <2>3, <4>1
      <4> QED BY <2>2, <4>1, <4>2
    <3> QED BY <3>1, <3>2
  <2>6. Takes(g, r, k, budget, n + 1)
    BY <1>0, <2>4, <2>5
  <2> QED BY <2>6
<1> HIDE DEF P
<1>3. N \in P
  BY <1>1, <1>2, IntervalInduction
<1> QED BY <1>3 DEF P

\* One more layer at the end of a list.
LEMMA AppendedList ==
  ASSUME NEW s, ListOK(s), NEW x \in Layers, x \notin ToSet(s)
  PROVE  /\ ListOK(Append(s, x)) /\ ToSet(Append(s, x)) = ToSet(s) \cup {x}
         /\ Len(Append(s, x)) = Len(s) + 1 /\ Len(s) \in Nat
<1> DEFINE n == Len(s)
           t == Append(s, x)
<1>1. s \in Seq(Layers) /\ n \in Nat /\ ToSet(s) = {s[k] : k \in 1 .. n}
      /\ (\A j, k \in 1 .. n : s[j] = s[k] => j = k)
  BY Members DEF ListOK
<1>2. t \in Seq(Layers) /\ Len(t) = n + 1 /\ (\A k \in 1 .. n : t[k] = s[k]) /\ t[n + 1] = x
  BY <1>1, AppendProperties
<1> HIDE DEF n, t
<1>3. \A k : k \in 1 .. n + 1 <=> k \in 1 .. n \/ k = n + 1
  BY <1>1
<1>4. \A k \in 1 .. n : s[k] # x
  BY <1>1
<1>5. \A j, k \in 1 .. n + 1 : t[j] = t[k] => j = k
  <2> SUFFICES ASSUME NEW j \in 1 .. n + 1, NEW k \in 1 .. n + 1, t[j] = t[k] PROVE j = k
    OBVIOUS
  <2> QED BY <1>1, <1>2, <1>3, <1>4
<1>6. ListOK(t)
  BY <1>2, <1>5 DEF ListOK
<1>7. ToSet(t) = {t[k] : k \in 1 .. n + 1}
  BY <1>2, <1>6, Members
<1>8. ToSet(t) = ToSet(s) \cup {x}
  BY <1>1, <1>2, <1>3, <1>7
<1> QED BY <1>1, <1>2, <1>6, <1>8 DEF n, t

\* The most recent layers that fit; without a budget, a prefix of the ranked.
LEMMA MostRecentPlanned ==
  ASSUME IInv, NEW k \in Nat, NEW budget \in Nat \cup {NoBudget}
  PROVE  PrefetchPlanOK(PrefetchPlan("recency", MostRecent(k, budget), budget, k))
<1> DEFINE A == {i \in Layers : Fetchable(i)}
           key == [i \in Layers |-> -[j \in Layers |-> Recency(j)][i]]
           r == SortedDown(A, [i \in Layers |-> Recency(i)])
           L == Len(r)
           f == CHOOSE f : Takes(f, r, k, budget, L)
           chosen == MostRecent(k, budget)
           p == PrefetchPlan("recency", chosen, budget, k)
           Taken(n, q) == /\ q <= n /\ q <= k /\ (q = n \/ q = k)
                          /\ Len(f[n]) = q /\ ToSet(f[n]) = {r[m] : m \in 1 .. q}
           Good(n) == /\ ListOK(f[n]) /\ Affordable(f[n], budget)
                      /\ ToSet(f[n]) \subseteq {r[m] : m \in 1 .. n}
                      /\ budget = NoBudget => \E q \in Nat : Taken(n, q)
           P == {n \in 0 .. L : Good(n)}
<1>1. chosen = f[L]
  BY DEF MostRecent, Takes
<1>2. A \in SUBSET Layers /\ A = FetchableIn(layers)
  BY DEF Fetchable, FetchableIn
<1>3. \A i \in Layers : key[i] \in Int /\ key[i] = -Recency(i) /\ Recency(i) \in Int
  BY RecencyIsInt
<1>4. r = SortedBy(A, key)
  BY DEF SortedDown
<1> HIDE DEF A, key, r, chosen
<1>5. Lists(r, A) /\ (\A a, b \in 1 .. L : a < b => Before(key, r[a], r[b]))
  <2>1. LET s == SortedBy(A, key) IN
         /\ Lists(s, A)
         /\ \A a, b \in 1 .. Len(s) : a < b => Before(key, s[a], s[b])
    BY <1>2, <1>3, SortedLists
  <2> QED BY <1>4, <2>1
<1>6. L \in Nat /\ ListOK(r) /\ ToSet(r) = A /\ ToSet(r) = {r[m] : m \in 1 .. L}
  BY <1>5, Members DEF Lists
<1>7. Takes(f, r, k, budget, L)
  BY <1>6, TakesExists
<1> HIDE DEF f, L
<1>8. /\ f[0] = <<>>
      /\ \A n \in 0 .. L - 1 :
           f[n + 1] = IF Len(f[n]) < k /\ Affordable(Append(f[n], r[n + 1]), budget)
                      THEN Append(f[n], r[n + 1]) ELSE f[n]
  <2>1. \A m \in 0 .. L :
          f[m] = IF m = 0 THEN <<>>
                 ELSE IF Len(f[m - 1]) < k /\ Affordable(Append(f[m - 1], r[m]), budget)
                 THEN Append(f[m - 1], r[m]) ELSE f[m - 1]
    BY <1>7 DEF Takes
  <2>2. 0 \in 0 .. L /\ (\A n \in 0 .. L - 1 : n + 1 \in 0 .. L /\ n + 1 # 0 /\ (n + 1) - 1 = n)
    BY <1>6
  <2> QED BY <2>1, <2>2
<1>9. 0 \in P
  <2>1. ListOK(<<>>) /\ ToSet(<<>>) = {} /\ Len(<<>>) = 0
    <3>1. ListOK(<<>>) /\ Len(<<>>) = 0
      BY DEF ListOK
    <3> QED BY <3>1, Members
  <2>2. Moved(<<>>) = 0
    BY <2>1, MovedBytes
  <2>3. Affordable(<<>>, budget)
    BY <2>2 DEF Affordable
  <2>4. Taken(0, 0)
    BY <1>8, <2>1
  <2> QED BY <1>6, <1>8, <2>1, <2>3, <2>4
<1>10. ASSUME NEW n \in 0 .. L - 1, n \in P PROVE n + 1 \in P
  <2> DEFINE u == f[n]
             x == r[n + 1]
             t == Append(u, x)
  <2>1. Good(n) /\ n \in Nat /\ n + 1 \in 0 .. L /\ n + 1 \in 1 .. L
        /\ (\A m : m \in 1 .. n + 1 <=> m \in 1 .. n \/ m = n + 1)
    BY <1>6, <1>10
  <2>2. x \in Layers /\ x \notin ToSet(u)
    <3>1. x \in A
      BY <1>6, <2>1
    <3>2. \A m \in 1 .. n : r[m] # x
      <4> SUFFICES ASSUME NEW m \in 1 .. n, r[m] = x PROVE FALSE
        OBVIOUS
      <4>1. m \in 1 .. L /\ m # n + 1
        BY <1>6, <2>1
      <4>2. \A a, b \in 1 .. L : r[a] = r[b] => a = b
        BY <1>6 DEF ListOK, L
      <4> QED BY <2>1, <4>1, <4>2
    <3> QED BY <1>2, <2>1, <3>1, <3>2
  <2>3. /\ ListOK(t) /\ ToSet(t) = ToSet(u) \cup {x} /\ Len(t) = Len(u) + 1 /\ Len(u) \in Nat
    BY <2>1, <2>2, AppendedList
  <2>4. f[n + 1] = IF Len(u) < k /\ Affordable(t, budget) THEN t ELSE u
    BY <1>8
  <2>5. Good(n)
    BY <2>1
  <2> HIDE DEF x, t
  <2>6. CASE Len(u) < k /\ Affordable(t, budget)
    <3>1. f[n + 1] = t
      BY <2>4, <2>6
    <3>2. ToSet(t) \subseteq {r[m] : m \in 1 .. n + 1}
      BY <2>1, <2>3, <2>5 DEF x
    <3>3. ASSUME budget = NoBudget PROVE \E q \in Nat : Taken(n + 1, q)
      <4>1. PICK q \in Nat : Taken(n, q)
        BY <2>5, <3>3
      <4>2. q < k /\ q = n
        BY <2>6, <4>1
      <4>3. q + 1 <= n + 1 /\ q + 1 <= k /\ q + 1 = n + 1 /\ Len(t) = q + 1 /\ q + 1 \in Nat
        BY <2>3, <4>1, <4>2
      <4>4. ToSet(t) = {r[m] : m \in 1 .. q + 1}
        BY <2>1, <2>3, <4>1, <4>2 DEF x
      <4>5. Taken(n + 1, q + 1)
        BY <3>1, <4>3, <4>4
      <4> QED BY <4>3, <4>5
    <3> QED BY <2>1, <2>3, <2>6, <3>1, <3>2, <3>3
  <2>7. CASE ~(Len(u) < k /\ Affordable(t, budget))
    <3>1. f[n + 1] = u
      BY <2>4, <2>7
    <3>2. ToSet(u) \subseteq {r[m] : m \in 1 .. n + 1}
      BY <2>1, <2>5
    <3>3. ASSUME budget = NoBudget PROVE \E q \in Nat : Taken(n + 1, q)
      <4>1. PICK q \in Nat : Taken(n, q)
        BY <2>5, <3>3
      <4>2. Affordable(t, budget)
        BY <3>3 DEF Affordable
      <4>3. q = k
        BY <2>7, <4>1, <4>2
      <4>4. q <= n + 1
        BY <2>1, <4>1
      <4>5. Taken(n + 1, q)
        BY <3>1, <4>1, <4>3, <4>4
      <4> QED BY <4>5
    <3> QED BY <2>1, <2>5, <3>1, <3>2, <3>3
  <2> QED BY <2>6, <2>7
<1> HIDE DEF P
<1>11. L \in P
  BY <1>6, <1>9, <1>10, IntervalInduction
<1>12. /\ ListOK(chosen) /\ Affordable(chosen, budget) /\ ToSet(chosen) \subseteq A
       /\ budget = NoBudget =>
            \E q \in Nat : /\ q <= L /\ (q = L \/ q = k)
                           /\ Len(chosen) = q /\ ToSet(chosen) = {r[m] : m \in 1 .. q}
  BY <1>1, <1>6, <1>11 DEF P
<1>13. budget # NoBudget => Moved(chosen) <= budget
  BY <1>12 DEF Affordable
<1>14. ASSUME budget = NoBudget
       PROVE  /\ Len(chosen) = k \/ A \subseteq ToSet(chosen)
              /\ \A i \in ToSet(chosen), j \in A \ ToSet(chosen) : Recency(i) >= Recency(j)
  <2>1. PICK q \in Nat : /\ q <= L /\ (q = L \/ q = k)
                         /\ Len(chosen) = q /\ ToSet(chosen) = {r[m] : m \in 1 .. q}
    BY <1>12, <1>14
  <2>2. Len(chosen) = k \/ A \subseteq ToSet(chosen)
    BY <1>6, <2>1
  <2>3. ASSUME NEW i \in ToSet(chosen), NEW j \in A, j \notin ToSet(chosen)
        PROVE  Recency(i) >= Recency(j)
    <3>1. PICK a \in 1 .. q : i = r[a]
      BY <2>1
    <3>2. PICK b \in 1 .. L : j = r[b]
      BY <1>6
    <3>3. b \notin 1 .. q
      BY <2>1, <2>3, <3>2
    <3>4. a \in 1 .. L /\ a < b
      BY <1>6, <2>1, <3>3
    <3>5. Before(key, i, j)
      BY <1>5, <3>1, <3>2, <3>4
    <3>6. i \in Layers /\ j \in Layers
      BY <1>2, <1>12
    <3>7. key[i] <= key[j] /\ key[i] = -Recency(i) /\ key[j] = -Recency(j)
          /\ Recency(i) \in Int /\ Recency(j) \in Int
      BY <1>3, <3>5, <3>6 DEF Before
    <3> QED BY <3>7
  <2> QED BY <2>2, <2>3
<1>15. /\ p.layers = chosen /\ p.name = "recency" /\ p.bytes = Moved(chosen)
       /\ p.budget = budget /\ p.window = k
  BY DEF PrefetchPlan
<1> HIDE DEF p
<1>16. ToSet(chosen) \in SUBSET Layers
  BY <1>2, <1>12
<1>17. Moved(chosen) = FoldFunctionOnSet(+, 0, Held(layers), ToSet(chosen))
  BY <1>16, MovedBytes
<1>18. PrefetchPlanOK(p)
  <2>1. p.name = "recency" /\ p.budget = NoBudget =>
          /\ Len(p.layers) = p.window \/ FetchableIn(layers) \subseteq ToSet(p.layers)
          /\ \A i \in ToSet(p.layers), j \in FetchableIn(layers) \ ToSet(p.layers) :
               Recency(i) >= Recency(j)
    BY <1>2, <1>14, <1>15
  <2>2. p.name # "next_layer"
    BY <1>15
  <2> QED BY <1>2, <1>12, <1>13, <1>15, <1>17, <2>1, <2>2 DEF PrefetchPlanOK
<1> QED BY <1>18 DEF p, chosen

-----------------------------------------------------------------------------
(***************************************************************************)
(* The invariant of plans: a plan was made from consistent layers, says of *)
(* them what its planner promises, and the layers of it that are not left  *)
(* have moved, the others not.                                             *)
(***************************************************************************)

Home == layers[1].home

\* How recent the layers are.
Ages == [i \in Layers |-> Recency(i)]

PlacesOK == \A i \in Layers : Placed(layers[i]) /\ layers[i].home = Home

Chosen == ToSet(plan.layers)
Left == ToSet(todo)

PlanOK ==
  /\ \A i \in Layers : /\ LayerOK(plan.from[i]) /\ Placed(plan.from[i])
                       /\ plan.from[i].home = Home
  /\ ListOK(plan.layers) /\ ListOK(todo) /\ Left \subseteq Chosen

\* What an offload plan says of the layers it was made from.
OffloadSays(p, ages, home) ==
  /\ home # HostDevice
  /\ p.exclude \in SUBSET Layers
  /\ ToSet(p.layers) \subseteq EligibleIn(p.from, p.exclude)
  /\ p.budget \in Nat
  /\ p.after = BytesOnDevice(p.from)
                 - FoldFunctionOnSet(+, 0, OnDevice(p.from), ToSet(p.layers))
  /\ p.feasible <=> p.after <= p.budget
  /\ ~p.feasible => EligibleIn(p.from, p.exclude) \subseteq ToSet(p.layers)
  /\ p.layers # <<>> => p.after + DeviceBytes(p.from[Last(p.layers)]) > p.budget
  /\ p.order = "lru" =>
       \A i \in ToSet(p.layers), j \in EligibleIn(p.from, p.exclude) \ ToSet(p.layers) :
         ages[i] <= ages[j]

OffloadFacts == OffloadSays(plan, Ages, Home)

\* The layers of the plan that are not left have moved to the host tier.
Shedding ==
  pc = "shed" =>
    /\ PlanOK /\ OffloadFacts
    /\ \A i \in Layers :
         layers[i] = IF i \in Chosen /\ i \notin Left
                     THEN OffloadWhole(plan.from[i], HostDevice) ELSE plan.from[i]

\* What a prefetch plan says of the layers it was made from.
PrefetchSays(p, ages) ==
  /\ ToSet(p.layers) \subseteq FetchableIn(p.from)
  /\ p.bytes = FoldFunctionOnSet(+, 0, Held(p.from), ToSet(p.layers))
  /\ p.budget # NoBudget => p.bytes <= p.budget
  /\ p.name = "next_layer" =>
       \A k \in Reached(p.window) :
         /\ Needed(p.window, k) \in Layers
         /\ Needed(p.window, k) \in FetchableIn(p.from) \ ToSet(p.layers) =>
              /\ p.budget # NoBudget
              /\ \A j \in Reached(p.window) :
                   j > k => Needed(p.window, j) \notin ToSet(p.layers)
  /\ p.name = "recency" /\ p.budget = NoBudget =>
       /\ Len(p.layers) = p.window \/ FetchableIn(p.from) \subseteq ToSet(p.layers)
       /\ \A i \in ToSet(p.layers), j \in FetchableIn(p.from) \ ToSet(p.layers) :
            ages[i] >= ages[j]

PrefetchFacts == PrefetchSays(plan, Ages)

\* The layers of the plan that are not left have come home.
Fetching ==
  pc = "fetch" =>
    /\ PlanOK /\ PrefetchFacts
    /\ \A i \in Layers :
         layers[i] = IF i \in Chosen /\ i \notin Left
                     THEN PrefetchWhole(plan.from[i]) ELSE plan.from[i]

PlanInv == PlacesOK /\ Shedding /\ Fetching

LEMMA FirstLayer == 1 \in Layers
BY NumLayersAssumption DEF Layers

\* A method's result stays where its layer belongs.
LEMMA PlacesStep ==
  ASSUME LayersOK, PlacesOK, NEW i \in Layers, NEW m, Stays(layers[i], m), LayerOK(m),
         layers' = [layers EXCEPT ![i] = m]
  PROVE  PlacesOK' /\ Home' = Home
<1>1. layers'[i] = m /\ (\A j \in Layers : j # i => layers'[j] = layers[j])
  BY OneLayerChanges
<1>2. \A j \in Layers : Placed(layers'[j]) /\ layers'[j].home = Home
  BY <1>1 DEF PlacesOK, Stays
<1>3. Home' = Home
  BY <1>2, FirstLayer DEF Home
<1> QED BY <1>2, <1>3 DEF PlacesOK

LEMMA BetweenPlans ==
  ASSUME PlacesOK', pc' = "idle"
  PROVE  PlanInv'
BY DEF PlanInv, Shedding, Fetching

\* Nothing is planned while tokens come and go.
LEMMA IdleSteps ==
  ASSUME IInv, PlanInv,
         \/ \E i \in Layers, n \in 1 .. MaxTokens : AppendTokens(i, n)
         \/ Advance
         \/ \E i \in Layers, slots \in SUBSET (1 .. MaxTokens) : Attend(i, slots)
         \/ \E i \in Layers : \E idx \in KeepLists(NumTokens(layers[i])) : Evict(i, idx)
         \/ \E i \in Layers : CompressLayer(i)
         \/ \E i \in Layers, r \in 1 .. MaxTokens : SplitLayer(i, r)
  PROVE  PlanInv'
<1>1. pc' = "idle"
  BY DEF AppendTokens, Advance, Attend, Evict, CompressLayer, SplitLayer, Idle
<1>2. LayersOK /\ PlacesOK /\ (\A i \in Layers : LayerOK(layers[i]) /\ Placed(layers[i]))
  BY DEF IInv, LayersOK, PlanInv, PlacesOK
<1>3. ASSUME NEW i \in Layers, NEW n \in 1 .. MaxTokens, AppendTokens(i, n) PROVE PlacesOK'
  <2> DEFINE l == layers[i]
             m == AppendRows(l, Run(l.next, n))
  <2>1. LayerOK(l) /\ Placed(l) /\ n \in Nat \ {0} /\ n \in Nat
    BY <1>2, BoundsAssumption
  <2>2. layers' = [layers EXCEPT ![i] = m]
    BY <1>3 DEF AppendTokens, Run
  <2>3. l.next \in Nat /\ l.next >= l.next
    BY <2>1, LayerFacts
  <2>4. Stays(l, m)
    <3> HIDE DEF l
    <3> QED BY <2>1, AppendPlaces
  <2>5. LayerOK(m)
    <3> HIDE DEF l
    <3> QED BY <2>1, <2>3, AppendRowsOK
  <2> HIDE DEF m
  <2> QED BY <1>2, <2>2, <2>4, <2>5, PlacesStep
<1>4. ASSUME Advance \/ \E i \in Layers, slots \in SUBSET (1 .. MaxTokens) : Attend(i, slots)
      PROVE  PlacesOK'
  <2>1. layers' = layers
    BY <1>4 DEF Advance, Attend
  <2> QED BY <1>2, <2>1 DEF PlacesOK, Home
<1>5. ASSUME NEW i \in Layers, NEW idx \in KeepLists(NumTokens(layers[i])), Evict(i, idx)
      PROVE  PlacesOK'
  <2> DEFINE l == layers[i]
             m == Keep(l, idx)
  <2>1. LayerOK(l) /\ Placed(l)
    BY <1>2
  <2>2. l.pos \in Seq(Int) /\ Len(l.pos) \in Nat /\ NumTokens(l) = Len(l.pos)
    BY <2>1, LayerFacts
  <2>3. idx \in Seq(1 .. Len(l.pos))
    BY <2>2, KeepListsNameSlots
  <2>4. l.rep # "none"
    <3>1. l.rep = "none" => l.pos = <<>>
      BY <2>1 DEF LayerOK
    <3>2. Len(l.pos) > 0
      BY <1>5, <2>2 DEF Evict
    <3> HIDE DEF l
    <3> QED BY <3>1, <3>2
  <2>5. layers' = [layers EXCEPT ![i] = m]
    BY <1>5 DEF Evict
  <2>6. Stays(l, m) /\ LayerOK(m)
    <3> HIDE DEF l
    <3> QED BY <2>1, <2>3, <2>4, KeepPlaces, KeepOK
  <2> HIDE DEF m
  <2> QED BY <1>2, <2>5, <2>6, PlacesStep
<1>6. ASSUME NEW i \in Layers, CompressLayer(i) PROVE PlacesOK'
  <2>1. /\ layers' = [layers EXCEPT ![i] = Compress(layers[i])]
        /\ layers[i].rep = "float"
    BY <1>6 DEF CompressLayer
  <2>2. Stays(layers[i], Compress(layers[i])) /\ LayerOK(Compress(layers[i]))
    BY <1>2, <2>1, CompressPlaces, CompressOK
  <2> QED BY <1>2, <2>1, <2>2, PlacesStep
<1>7. ASSUME NEW i \in Layers, NEW r \in 1 .. MaxTokens, SplitLayer(i, r) PROVE PlacesOK'
  <2> DEFINE l == layers[i]
             m == OffloadTail(l, r, HostDevice)
  <2>1. LayerOK(l) /\ Placed(l) /\ HostDevice \in Devices
    BY <1>2, HomesAssumption
  <2>2. Len(l.pos) \in Nat /\ NumTokens(l) = Len(l.pos)
    BY <2>1, LayerFacts
  <2>3. layers' = [layers EXCEPT ![i] = m] /\ l.rep = "float" /\ 0 < r /\ r < NumTokens(l)
    BY <1>7 DEF SplitLayer
  <2>4. r \in 1 .. Len(l.pos) - 1 /\ r \in 0 .. Len(l.pos) /\ l.rep # "quant"
    BY <2>2, <2>3, BoundsAssumption
  <2>5. Stays(l, m) /\ LayerOK(m)
    <3> HIDE DEF l
    <3> QED BY <2>1, <2>3, <2>4, SplitPlaces, OffloadTailOK
  <2> HIDE DEF m
  <2> QED BY <1>2, <2>3, <2>5, PlacesStep
<1>8. PlacesOK'
  BY <1>3, <1>4, <1>5, <1>6, <1>7
<1> QED BY <1>1, <1>8, BetweenPlans

\* A plan is made from the layers as they are.
LEMMA PlanOffloadStep ==
  ASSUME IInv, PlanInv, NEW budget \in Budgets, NEW order \in Orders,
         NEW exclude \in Pinned, PlanOffload(budget, order, exclude)
  PROVE  PlanInv'
<1> DEFINE p == OffloadPlan(budget, order, exclude)
<1>1. /\ layers[1].home # HostDevice /\ plan' = p /\ todo' = p.layers /\ pc' = "shed"
      /\ layers' = layers /\ seen' = seen
  BY DEF PlanOffload
<1>2. budget \in Nat /\ exclude \in SUBSET Layers
  BY PlanInputsAssumption
<1>3. /\ OffloadPlanOK(p)
      /\ p.budget = budget /\ p.order = order /\ p.exclude = exclude /\ p.from = layers
  BY <1>2, OffloadPlanned
<1> HIDE DEF p
<1>4. PlacesOK' /\ Home' = Home /\ Home # HostDevice
  BY <1>1 DEF PlanInv, PlacesOK, Home
<1>5. \A i \in Layers : LayerOK(layers[i]) /\ Placed(layers[i]) /\ layers[i].home = Home
  BY DEF IInv, LayersOK, PlanInv, PlacesOK
<1>6. PlanOK'
  BY <1>1, <1>3, <1>4, <1>5 DEF PlanOK, OffloadPlanOK, Left, Chosen
<1>7. Ages' = Ages /\ (\A i \in Layers : Ages[i] = Recency(i))
  BY <1>1 DEF Ages, Recency
<1>8. OffloadFacts'
  <2>1. ToSet(p.layers) \subseteq Layers /\ EligibleIn(layers, exclude) \subseteq Layers
    BY <1>3 DEF OffloadPlanOK, EligibleIn
  <2>2. p.order = "lru" =>
          \A i \in ToSet(p.layers), j \in EligibleIn(p.from, p.exclude) \ ToSet(p.layers) :
            Ages[i] <= Ages[j]
    BY <1>3, <1>7, <2>1 DEF OffloadPlanOK
  <2>3. OffloadSays(p, Ages, Home)
    BY <1>2, <1>3, <1>4, <2>2 DEF OffloadPlanOK, OffloadSays
  <2> QED BY <1>1, <1>4, <1>7, <2>3 DEF OffloadFacts
<1>9. Shedding'
  <2>1. Left' = Chosen' /\ plan'.from = layers'
    BY <1>1, <1>3 DEF Left, Chosen
  <2> QED BY <1>6, <1>8, <2>1 DEF Shedding
<1> QED BY <1>1, <1>4, <1>9 DEF PlanInv, Fetching

LEMMA PlannedStep ==
  ASSUME IInv, PlanInv, NEW name, NEW chosen, NEW budget, NEW window,
         PrefetchPlanOK(PrefetchPlan(name, chosen, budget, window)),
         Planned(name, chosen, budget, window)
  PROVE  PlanInv'
<1> DEFINE p == PrefetchPlan(name, chosen, budget, window)
<1>1. /\ plan' = p /\ todo' = p.layers /\ pc' = "fetch" /\ p.from = layers
      /\ layers' = layers /\ seen' = seen
  BY DEF Planned, PrefetchPlan
<1>2. PrefetchPlanOK(p)
  OBVIOUS
<1> HIDE DEF p
<1>4. PlacesOK' /\ Home' = Home
  BY <1>1 DEF PlanInv, PlacesOK, Home
<1>5. \A i \in Layers : LayerOK(layers[i]) /\ Placed(layers[i]) /\ layers[i].home = Home
  BY DEF IInv, LayersOK, PlanInv, PlacesOK
<1>6. PlanOK'
  BY <1>1, <1>2, <1>4, <1>5 DEF PlanOK, PrefetchPlanOK, Left, Chosen
<1>7. Ages' = Ages /\ (\A i \in Layers : Ages[i] = Recency(i))
  BY <1>1 DEF Ages, Recency
<1>8. PrefetchFacts'
  <2>1. ToSet(p.layers) \subseteq Layers /\ FetchableIn(layers) \subseteq Layers
    BY <1>2 DEF PrefetchPlanOK, FetchableIn
  <2>2. p.name = "recency" /\ p.budget = NoBudget =>
          \A i \in ToSet(p.layers), j \in FetchableIn(p.from) \ ToSet(p.layers) :
            Ages[i] >= Ages[j]
    BY <1>1, <1>2, <1>7, <2>1 DEF PrefetchPlanOK
  <2>3. PrefetchSays(p, Ages)
    BY <1>1, <1>2, <2>2 DEF PrefetchPlanOK, PrefetchSays
  <2> QED BY <1>1, <1>7, <2>3 DEF PrefetchFacts
<1>9. Fetching'
  <2>1. Left' = Chosen' /\ plan'.from = layers'
    BY <1>1 DEF Left, Chosen
  <2> QED BY <1>6, <1>8, <2>1 DEF Fetching
<1> QED BY <1>1, <1>4, <1>9 DEF PlanInv, Shedding

\* The next layer of a plan leaves the list and moves.
LEMMA MoveFacts ==
  ASSUME IInv, PlanOK, todo # <<>>, NEW m, Stays(plan.from[Head(todo)], m), LayerOK(m),
         layers[Head(todo)] = plan.from[Head(todo)], PlacesOK,
         layers' = [layers EXCEPT ![Head(todo)] = m],
         todo' = Tail(todo), plan' = plan
  PROVE  /\ PlacesOK' /\ Home' = Home /\ PlanOK'
         /\ Left' = Left \ {Head(todo)} /\ Head(todo) \in Left /\ Head(todo) \in Layers
         /\ Chosen' = Chosen
         /\ layers'[Head(todo)] = m
         /\ \A j \in Layers : j # Head(todo) => layers'[j] = layers[j]
<1> DEFINE h == Head(todo)
<1>1. ListOK(todo)
  BY DEF PlanOK
<1>2. /\ h \in Left /\ h \in Layers /\ ListOK(todo') /\ Left' = Left \ {h}
  BY <1>1, TailFacts DEF Left
<1> HIDE DEF h
<1>3. LayersOK /\ layers' = [layers EXCEPT ![h] = m] /\ Stays(layers[h], m)
  BY DEF IInv, h
<1>4. PlacesOK' /\ Home' = Home
  BY <1>2, <1>3, PlacesStep
<1>5. layers'[h] = m /\ (\A j \in Layers : j # h => layers'[j] = layers[j])
  BY <1>2, <1>3, OneLayerChanges
<1>6. Chosen' = Chosen
  BY DEF Chosen
<1>7. PlanOK'
  BY <1>2, <1>4, <1>6 DEF PlanOK
<1> QED BY <1>2, <1>4, <1>5, <1>6, <1>7 DEF h

LEMMA ShedStep ==
  ASSUME IInv, PlanInv, ShedNext
  PROVE  PlanInv'
<1> DEFINE h == Head(todo)
           m == OffloadWhole(plan.from[h], HostDevice)
<1>1. /\ pc = "shed" /\ pc' = "shed" /\ todo # <<>>
      /\ layers' = [layers EXCEPT ![h] = OffloadWhole(layers[h], HostDevice)]
      /\ todo' = Tail(todo) /\ plan' = plan /\ seen' = seen
  BY DEF ShedNext, Move
<1>2. /\ PlanOK /\ OffloadFacts /\ PlacesOK
      /\ \A i \in Layers :
           layers[i] = IF i \in Chosen /\ i \notin Left
                       THEN OffloadWhole(plan.from[i], HostDevice) ELSE plan.from[i]
  BY <1>1 DEF PlanInv, Shedding
<1>3. h \in Left /\ h \in Layers /\ h \in Chosen
  BY <1>1, <1>2, TailFacts DEF PlanOK, Left
<1>4. layers[h] = plan.from[h]
  BY <1>2, <1>3
<1>5. Stays(plan.from[h], m) /\ LayerOK(m)
  <2>1. LayerOK(plan.from[h]) /\ Placed(plan.from[h]) /\ plan.from[h].home # HostDevice
    BY <1>2, <1>3 DEF PlanOK, OffloadFacts, OffloadSays
  <2> HIDE DEF h
  <2> QED BY <2>1, OffloadPlaces, HomesAssumption
<1>6. layers' = [layers EXCEPT ![h] = m]
  BY <1>1, <1>4
<1>7. /\ PlacesOK' /\ Home' = Home /\ PlanOK'
      /\ Left' = Left \ {h} /\ Chosen' = Chosen
      /\ layers'[h] = m
      /\ \A j \in Layers : j # h => layers'[j] = layers[j]
  <2> HIDE DEF m
  <2> QED BY <1>1, <1>2, <1>4, <1>5, <1>6, MoveFacts
<1>8. Ages' = Ages
  BY <1>1 DEF Ages, Recency
<1>9. OffloadFacts'
  BY <1>1, <1>2, <1>7, <1>8 DEF OffloadFacts
<1>10. ASSUME NEW i \in Layers
       PROVE  layers'[i] = IF i \in Chosen' /\ i \notin Left'
                           THEN OffloadWhole(plan'.from[i], HostDevice) ELSE plan'.from[i]
  <2>1. CASE i = h
    BY <1>1, <1>3, <1>7, <2>1
  <2>2. CASE i # h
    <3> HIDE DEF h, m
    <3> QED BY <1>1, <1>2, <1>7, <2>2
  <2> QED BY <2>1, <2>2
<1>11. Shedding'
  BY <1>7, <1>9, <1>10 DEF Shedding
<1> QED BY <1>1, <1>7, <1>11 DEF PlanInv, Fetching

LEMMA FetchStep ==
  ASSUME IInv, PlanInv, FetchNext
  PROVE  PlanInv'
<1> DEFINE h == Head(todo)
           m == PrefetchWhole(plan.from[h])
<1>1. /\ pc = "fetch" /\ pc' = "fetch" /\ todo # <<>>
      /\ layers' = [layers EXCEPT ![h] = PrefetchWhole(layers[h])]
      /\ todo' = Tail(todo) /\ plan' = plan /\ seen' = seen
  BY DEF FetchNext, Move
<1>2. /\ PlanOK /\ PrefetchFacts /\ PlacesOK
      /\ \A i \in Layers :
           layers[i] = IF i \in Chosen /\ i \notin Left
                       THEN PrefetchWhole(plan.from[i]) ELSE plan.from[i]
  BY <1>1 DEF PlanInv, Fetching
<1>3. h \in Left /\ h \in Layers /\ h \in Chosen
  BY <1>1, <1>2, TailFacts DEF PlanOK, Left
<1>4. layers[h] = plan.from[h]
  BY <1>2, <1>3
<1>5. Stays(plan.from[h], m) /\ LayerOK(m)
  <2>1. LayerOK(plan.from[h]) /\ Placed(plan.from[h]) /\ plan.from[h].offloaded
    BY <1>2, <1>3 DEF PlanOK, PrefetchFacts, PrefetchSays, FetchableIn, Chosen
  <2> HIDE DEF h
  <2> QED BY <2>1, PrefetchPlaces
<1>6. layers' = [layers EXCEPT ![h] = m]
  BY <1>1, <1>4
<1>7. /\ PlacesOK' /\ Home' = Home /\ PlanOK'
      /\ Left' = Left \ {h} /\ Chosen' = Chosen
      /\ layers'[h] = m
      /\ \A j \in Layers : j # h => layers'[j] = layers[j]
  <2> HIDE DEF m
  <2> QED BY <1>1, <1>2, <1>4, <1>5, <1>6, MoveFacts
<1>8. Ages' = Ages
  BY <1>1 DEF Ages, Recency
<1>9. PrefetchFacts'
  BY <1>1, <1>2, <1>7, <1>8 DEF PrefetchFacts
<1>10. ASSUME NEW i \in Layers
       PROVE  layers'[i] = IF i \in Chosen' /\ i \notin Left'
                           THEN PrefetchWhole(plan'.from[i]) ELSE plan'.from[i]
  <2>1. CASE i = h
    BY <1>1, <1>3, <1>7, <2>1
  <2>2. CASE i # h
    <3> HIDE DEF h, m
    <3> QED BY <1>1, <1>2, <1>7, <2>2
  <2> QED BY <2>1, <2>2
<1>11. Fetching'
  BY <1>7, <1>9, <1>10 DEF Fetching
<1> QED BY <1>1, <1>7, <1>11 DEF PlanInv, Shedding

LEMMA InitPlanInv == Init => PlanInv
<1> SUFFICES ASSUME Init PROVE PlanInv
  OBVIOUS
<1>1. PICK home \in Homes, cap \in Capacities :
        layers = [i \in Layers |-> NewLayer(home, cap)]
  BY DEF Init
<1>2. NewLayer(home, cap).home = home /\ Placed(NewLayer(home, cap))
  BY DEF NewLayer, Placed
<1>3. PlacesOK
  BY <1>1, <1>2, FirstLayer DEF PlacesOK, Home
<1> QED BY <1>3 DEF Init, PlanInv, Shedding, Fetching

LEMMA StepPlanInv == IInv /\ PlanInv /\ [Next]_vars => PlanInv'
<1> SUFFICES ASSUME IInv, PlanInv, [Next]_vars PROVE PlanInv'
  OBVIOUS
<1>1. CASE UNCHANGED vars
  <2>1. layers' = layers /\ seen' = seen /\ pc' = pc /\ todo' = todo /\ plan' = plan
    BY <1>1 DEF vars
  <2>2. Home' = Home /\ Ages' = Ages /\ Chosen' = Chosen /\ Left' = Left
    BY <2>1 DEF Home, Ages, Recency, Chosen, Left
  <2>3. PlacesOK' /\ (PlanOK => PlanOK') /\ (OffloadFacts => OffloadFacts')
        /\ (PrefetchFacts => PrefetchFacts')
    BY <2>1, <2>2 DEF PlanInv, PlacesOK, PlanOK, OffloadFacts, PrefetchFacts
  <2> QED BY <2>1, <2>2, <2>3 DEF PlanInv, Shedding, Fetching
<1>2. ASSUME NEW budget \in Budgets, NEW order \in Orders, NEW exclude \in Pinned,
             PlanOffload(budget, order, exclude)
      PROVE  PlanInv'
  BY <1>2, PlanOffloadStep
<1>3. CASE PlanNothing
  BY <1>3, NothingPlanned, PlannedStep DEF PlanNothing
<1>4. ASSUME NEW cursor \in Layers, NEW depth \in Depths, NEW wrap \in BOOLEAN,
             NEW budget \in Budgets \cup {NoBudget}, PlanNextLayer(cursor, depth, wrap, budget)
      PROVE  PlanInv'
  <2>1. depth \in Nat /\ budget \in Nat \cup {NoBudget}
    BY PlanInputsAssumption
  <2> QED BY <1>4, <2>1, NextLayersPlanned, PlannedStep DEF PlanNextLayer
<1>5. ASSUME NEW k \in Depths, NEW budget \in Budgets \cup {NoBudget}, PlanRecency(k, budget)
      PROVE  PlanInv'
  <2>1. k \in Nat /\ budget \in Nat \cup {NoBudget}
    BY PlanInputsAssumption
  <2> QED BY <1>5, <2>1, MostRecentPlanned, PlannedStep DEF PlanRecency
<1>6. CASE PlanDone
  <2>1. layers' = layers /\ pc' = "idle"
    BY <1>6 DEF PlanDone
  <2>2. PlacesOK'
    BY <2>1 DEF PlanInv, PlacesOK, Home
  <2> QED BY <2>1, <2>2, BetweenPlans
<1> QED BY <1>1, <1>2, <1>3, <1>4, <1>5, <1>6, IdleSteps, ShedStep, FetchStep DEF Next

LEMMA AlwaysPlanInv == Spec => []PlanInv
<1>1. Init => PlanInv
  BY InitPlanInv
<1>2. IInv /\ IInv' /\ PlanInv /\ [Next]_vars => PlanInv'
  BY StepPlanInv
<1> QED BY <1>1, <1>2, AlwaysIInv, PTL DEF Spec

-----------------------------------------------------------------------------
(***************************************************************************)
(* The theorems.                                                           *)
(***************************************************************************)

\* Rows and signals of a layer stay parallel, and no signal is from the
\* future: what the planners rank layers by is theirs.
RecencyIsOfTokens ==
  \A i \in Layers :
    /\ LayerOK(layers[i])
    /\ seen[i] \in Seq(0 .. step) /\ Len(seen[i]) = NumTokens(layers[i])

\* Whatever plans were made and carried out, every layer is consistent and has
\* one last access per token.
THEOREM LayersStayConsistent == Spec => []RecencyIsOfTokens
<1>1. IInv => RecencyIsOfTokens
  BY LayerFacts DEF IInv, LayersOK, AccessesOK, Accesses, RecencyIsOfTokens
<1> QED
  BY <1>1, AlwaysIInv, PTL

\* Carrying out a plan moves rows between the tiers and changes nothing that
\* is read: no token, no order, no last access.
THEOREM TransfersAlwaysKeepTokens == Spec => TransfersKeepTokens
<1> DEFINE Kept == seen' = seen /\ \A i \in Layers : View(layers'[i]) = View(layers[i])
<1>1. IInv /\ [Next]_vars => pc = "idle" \/ Kept \/ UNCHANGED vars
  <2> SUFFICES ASSUME IInv, [Next]_vars, pc # "idle", ~UNCHANGED vars
               PROVE  Kept
    OBVIOUS
  <2>1. ShedNext \/ FetchNext \/ UNCHANGED <<layers, seen, step>>
    BY PlanSteps DEF AppendTokens, Advance, Attend, Evict, CompressLayer, SplitLayer, Idle
  <2>2. CASE ShedNext \/ FetchNext
    <3>1. seen' = seen
      BY <2>2, TransferStep
    <3>2. \A j \in Layers : LayerOK(layers[j]) /\ LayerOK(layers'[j])
                            /\ layers'[j].pos = layers[j].pos
      BY <2>2, TransferStep
    <3>3. \A j \in Layers : View(layers'[j]) = View(layers[j])
      BY <3>2, ViewIsPositions
    <3> QED
      BY <3>1, <3>3
  <2>3. CASE UNCHANGED <<layers, seen, step>>
    BY <2>3
  <2> QED
    BY <2>1, <2>2, <2>3
<1>2. IInv /\ [Next]_vars => [pc = "idle" \/ Kept]_vars
  BY <1>1
<1> QED
  BY <1>2, AlwaysIInv, PTL DEF Spec, TransfersKeepTokens

\* A carried-out offload plan: what it chose is on the host tier, the rest as it
\* was, and the device holds what the plan said it would.
LEMMA ShedLayers ==
  ASSUME PlanInv, Carried("shed")
  PROVE  /\ OffloadFacts
         /\ \A i \in Layers : LayerOK(plan.from[i]) /\ Placed(plan.from[i])
         /\ \A i \in Layers : i \notin Chosen => layers[i] = plan.from[i]
         /\ \A i \in Chosen : i \in Layers /\ layers[i].offloaded /\ DeviceBytes(layers[i]) = 0
         /\ Eligible(plan.exclude) \subseteq EligibleIn(plan.from, plan.exclude) \ Chosen
<1>1. /\ PlanOK /\ OffloadFacts
      /\ \A i \in Layers :
           layers[i] = IF i \in Chosen /\ i \notin Left
                       THEN OffloadWhole(plan.from[i], HostDevice) ELSE plan.from[i]
  BY DEF PlanInv, Shedding, Carried
<1>2. Left = {}
  <2>1. todo = <<>>
    BY DEF Carried
  <2>2. ListOK(<<>>) /\ Len(<<>>) = 0
    BY DEF ListOK
  <2>3. ToSet(<<>>) = {}
    BY <2>2, Members
  <2> QED BY <2>1, <2>3 DEF Left
<1>3. \A i \in Layers : i \notin Chosen => layers[i] = plan.from[i]
  BY <1>1
<1>4. \A i \in Layers : LayerOK(plan.from[i]) /\ Placed(plan.from[i]) /\ plan.from[i].home = Home
  BY <1>1 DEF PlanOK
<1>5. ASSUME NEW i \in Chosen
      PROVE  i \in Layers /\ layers[i].offloaded /\ DeviceBytes(layers[i]) = 0
  <2>1. i \in Layers /\ ~plan.from[i].offloaded /\ Bytes(plan.from[i]) > 0 /\ Home # HostDevice
    BY <1>1 DEF OffloadFacts, OffloadSays, EligibleIn, Chosen
  <2>2. layers[i] = OffloadWhole(plan.from[i], HostDevice)
    BY <1>1, <1>2, <2>1
  <2> DEFINE l == plan.from[i]
  <2>3. LayerOK(l) /\ Placed(l) /\ l.home # HostDevice /\ ~l.offloaded /\ Bytes(l) > 0
    BY <1>4, <2>1
  <2> HIDE DEF l
  <2>4. OffloadWhole(l, HostDevice).offloaded /\ DeviceBytes(OffloadWhole(l, HostDevice)) = 0
    BY <2>3, OffloadPlaces, HomesAssumption
  <2> QED BY <2>1, <2>2, <2>4 DEF l
<1>6. Eligible(plan.exclude) \subseteq EligibleIn(plan.from, plan.exclude) \ Chosen
  BY <1>3, <1>5 DEF Eligible, EligibleIn
<1> QED BY <1>1, <1>3, <1>4, <1>5, <1>6

\* The device holds what the plan announced.
LEMMA AnnouncedBytes ==
  ASSUME PlanInv, Carried("shed")
  PROVE  BytesOnDevice(layers) = plan.after
<1> DEFINE F == OnDevice(plan.from)
           G == OnDevice(layers)
           H == Only(F, Layers \ Chosen, Layers)
<1>1. /\ OffloadFacts
      /\ \A i \in Layers : LayerOK(plan.from[i]) /\ Placed(plan.from[i])
      /\ \A i \in Layers : i \notin Chosen => layers[i] = plan.from[i]
      /\ \A i \in Chosen : i \in Layers /\ layers[i].offloaded /\ DeviceBytes(layers[i]) = 0
  BY ShedLayers
<1>2. \A i \in Layers : F[i] \in Nat
  BY <1>1, Figures DEF OnDevice
<1>3. \A i \in Layers : H[i] \in Nat /\ H[i] = G[i]
  <2> SUFFICES ASSUME NEW i \in Layers PROVE H[i] \in Nat /\ H[i] = G[i]
    OBVIOUS
  <2>1. H[i] = IF i \in Layers \ Chosen THEN F[i] ELSE 0
    BY DEF Only
  <2>2. G[i] = DeviceBytes(layers[i]) /\ F[i] = DeviceBytes(plan.from[i])
    BY DEF OnDevice
  <2>3. CASE i \in Chosen
    BY <1>1, <2>1, <2>2, <2>3
  <2>4. CASE i \notin Chosen
    BY <1>1, <1>2, <2>1, <2>2, <2>4
  <2> QED BY <2>3, <2>4
<1>4. Chosen \in SUBSET Layers
  BY <1>1
<1> HIDE DEF F, G, H
<1>5. Sum(H, Layers) = Sum(G, Layers)
  BY <1>3, LayersFinite, SumSame
<1>6. Sum(F, Layers) = Sum(F, Chosen) + Sum(H, Layers)
  BY <1>2, <1>4, LayersFinite, SumSplits DEF H
<1>7. /\ BytesOnDevice(layers) = Sum(G, Layers)
      /\ BytesOnDevice(plan.from) = Sum(F, Layers)
  <2>1. /\ BytesOnDevice(layers) = FoldFunctionOnSet(+, 0, G, Layers)
        /\ BytesOnDevice(plan.from) = FoldFunctionOnSet(+, 0, F, Layers)
    BY DEF BytesOnDevice, G, F, OnDevice
  <2> QED BY <2>1, LayersFinite, FoldIsSum
<1>8. IsFiniteSet(Chosen)
  BY <1>4, LayersFinite
<1>9. plan.after = Sum(F, Layers) - Sum(F, Chosen)
  <2>1. plan.after = BytesOnDevice(plan.from) - FoldFunctionOnSet(+, 0, F, Chosen)
    BY <1>1 DEF OffloadFacts, OffloadSays, Chosen, F
  <2> QED BY <1>7, <1>8, <2>1, FoldIsSum
<1>10. Sum(F, Chosen) \in Nat /\ Sum(H, Layers) \in Nat /\ Sum(F, Layers) \in Nat
  <2>1. \A i \in Chosen : F[i] \in Nat
    BY <1>2, <1>4
  <2> QED BY <1>2, <1>3, <1>8, <2>1, LayersFinite, SumNat
<1> QED BY <1>5, <1>6, <1>7, <1>9, <1>10

\* Whatever the tiers, widths and budgets, an offload plan that was carried
\* out left the device with the bytes it announced, was called feasible exactly
\* if they fit the budget, and was called infeasible only when nothing was left
\* to move (TierManager.plan_offload and bench/runner.py _apply_tier_actions).
THEOREM OffloadAlwaysTellsTheTruth == Spec => []OffloadTellsTheTruth
<1>1. PlanInv => OffloadTellsTheTruth
  <2> SUFFICES ASSUME PlanInv, Carried("shed")
               PROVE  /\ BytesOnDevice(layers) = plan.after
                      /\ plan.feasible <=> BytesOnDevice(layers) <= plan.budget
                      /\ ~plan.feasible => Eligible(plan.exclude) = {}
                      /\ \A i \in plan.exclude : layers[i] = plan.from[i]
    BY DEF OffloadTellsTheTruth
  <2>1. BytesOnDevice(layers) = plan.after
    BY AnnouncedBytes
  <2>2. /\ OffloadSays(plan, Ages, Home)
        /\ \A i \in Layers : i \notin Chosen => layers[i] = plan.from[i]
        /\ Eligible(plan.exclude) \subseteq EligibleIn(plan.from, plan.exclude) \ Chosen
    BY ShedLayers DEF OffloadFacts
  <2>3. plan.feasible <=> BytesOnDevice(layers) <= plan.budget
    BY <2>1, <2>2 DEF OffloadSays
  <2>4. ~plan.feasible => Eligible(plan.exclude) = {}
    BY <2>2 DEF OffloadSays, Chosen
  <2>5. \A i \in plan.exclude : layers[i] = plan.from[i]
    <3> SUFFICES ASSUME NEW i \in plan.exclude PROVE layers[i] = plan.from[i]
      OBVIOUS
    <3>1. i \in Layers /\ i \notin Chosen
      BY <2>2 DEF OffloadSays, EligibleIn, Chosen
    <3> QED BY <2>2, <3>1
  <2> QED BY <2>1, <2>3, <2>4, <2>5
<1> QED BY <1>1, AlwaysPlanInv, PTL

\* The last layer of an offload plan was needed to meet the budget, so a plan
\* moves nothing under one, and "lru" left no staler layer behind that could
\* have been moved (TierManager.plan_offload).
THEOREM OffloadAlwaysMovesWhatItMust == Spec => []OffloadMovesWhatItMust
<1>1. PlanInv => OffloadMovesWhatItMust
  <2> SUFFICES ASSUME PlanInv, Carried("shed"), plan.layers # <<>>
               PROVE  /\ plan.after + DeviceBytes(plan.from[Last(plan.layers)]) > plan.budget
                      /\ plan.order = "lru" =>
                           \A i \in ToSet(plan.layers), j \in Eligible(plan.exclude) :
                             Recency(i) <= Recency(j)
    BY DEF OffloadMovesWhatItMust
  <2>1. /\ OffloadSays(plan, Ages, Home)
        /\ Eligible(plan.exclude) \subseteq EligibleIn(plan.from, plan.exclude) \ Chosen
        /\ \A i \in Chosen : i \in Layers
    BY ShedLayers DEF OffloadFacts
  <2>2. \A i \in Layers : Ages[i] = Recency(i)
    BY DEF Ages
  <2>3. Eligible(plan.exclude) \subseteq Layers
    BY DEF Eligible
  <2>4. plan.order = "lru" =>
          \A i \in ToSet(plan.layers), j \in Eligible(plan.exclude) :
            Recency(i) <= Recency(j)
    BY <2>1, <2>2, <2>3 DEF OffloadSays, Chosen
  <2> QED BY <2>1, <2>4 DEF OffloadSays
<1> QED BY <1>1, AlwaysPlanInv, PTL

\* A carried-out prefetch plan: what it chose is home, the rest as it was.
LEMMA FetchedLayers ==
  ASSUME PlanInv, Carried("fetch")
  PROVE  /\ PrefetchSays(plan, Ages)
         /\ \A i \in Layers : LayerOK(plan.from[i]) /\ Placed(plan.from[i])
         /\ \A i \in Layers : i \notin Chosen => layers[i] = plan.from[i]
         /\ \A i \in Chosen : /\ i \in Layers /\ plan.from[i].offloaded /\ ~layers[i].offloaded
                              /\ DeviceBytes(layers[i]) = Bytes(plan.from[i])
<1>1. /\ PlanOK /\ PrefetchSays(plan, Ages)
      /\ \A i \in Layers :
           layers[i] = IF i \in Chosen /\ i \notin Left
                       THEN PrefetchWhole(plan.from[i]) ELSE plan.from[i]
  BY DEF PlanInv, Fetching, Carried, PrefetchFacts
<1>2. Left = {}
  <2>1. todo = <<>>
    BY DEF Carried
  <2>2. ListOK(<<>>) /\ Len(<<>>) = 0
    BY DEF ListOK
  <2>3. ToSet(<<>>) = {}
    BY <2>2, Members
  <2> QED BY <2>1, <2>3 DEF Left
<1>3. \A i \in Layers : i \notin Chosen => layers[i] = plan.from[i]
  BY <1>1
<1>4. \A i \in Layers : LayerOK(plan.from[i]) /\ Placed(plan.from[i])
  BY <1>1 DEF PlanOK
<1>5. ASSUME NEW i \in Chosen
      PROVE  /\ i \in Layers /\ plan.from[i].offloaded /\ ~layers[i].offloaded
             /\ DeviceBytes(layers[i]) = Bytes(plan.from[i])
  <2>1. i \in Layers /\ plan.from[i].offloaded
    BY <1>1 DEF PrefetchSays, FetchableIn, Chosen
  <2>2. layers[i] = PrefetchWhole(plan.from[i])
    BY <1>1, <1>2, <2>1
  <2> DEFINE l == plan.from[i]
  <2>3. LayerOK(l) /\ Placed(l) /\ l.offloaded
    BY <1>4, <2>1
  <2> HIDE DEF l
  <2>4. ~PrefetchWhole(l).offloaded /\ DeviceBytes(PrefetchWhole(l)) = Bytes(l)
    BY <2>3, PrefetchPlaces
  <2> QED BY <2>1, <2>2, <2>4 DEF l
<1> QED BY <1>1, <1>3, <1>4, <1>5

LEMMA FetchedBytes ==
  ASSUME PlanInv, Carried("fetch")
  PROVE  BytesOnDevice(layers) = BytesOnDevice(plan.from) + plan.bytes
<1> DEFINE F == OnDevice(plan.from)
           G == OnDevice(layers)
           B == Held(plan.from)
           H == Only(B, Chosen, Layers)
<1>1. /\ PrefetchSays(plan, Ages)
      /\ \A i \in Layers : LayerOK(plan.from[i]) /\ Placed(plan.from[i])
      /\ \A i \in Layers : i \notin Chosen => layers[i] = plan.from[i]
      /\ \A i \in Chosen : /\ i \in Layers /\ plan.from[i].offloaded
                           /\ DeviceBytes(layers[i]) = Bytes(plan.from[i])
  BY FetchedLayers
<1>2. \A i \in Layers : F[i] \in Nat /\ B[i] \in Nat
  BY <1>1, Figures DEF OnDevice, Held
<1>3. \A i \in Layers : F[i] \in Nat /\ H[i] \in Nat /\ G[i] = F[i] + H[i]
  <2> SUFFICES ASSUME NEW i \in Layers PROVE F[i] \in Nat /\ H[i] \in Nat /\ G[i] = F[i] + H[i]
    OBVIOUS
  <2>1. H[i] = IF i \in Chosen THEN B[i] ELSE 0
    BY DEF Only
  <2>2. /\ G[i] = DeviceBytes(layers[i]) /\ F[i] = DeviceBytes(plan.from[i])
        /\ B[i] = Bytes(plan.from[i]) /\ F[i] \in Nat /\ B[i] \in Nat
    BY <1>2 DEF OnDevice, Held
  <2>3. CASE i \in Chosen
    <3>1. plan.from[i].offloaded /\ DeviceBytes(layers[i]) = Bytes(plan.from[i])
      BY <1>1, <2>3
    <3>2. DeviceBytes(plan.from[i]) = 0
      BY <1>1, <3>1, Figures
    <3> HIDE DEF F, G, B, H
    <3> QED BY <2>1, <2>2, <2>3, <3>1, <3>2
  <2>4. CASE i \notin Chosen
    <3>1. layers[i] = plan.from[i]
      BY <1>1, <2>4
    <3> HIDE DEF F, G, B, H
    <3> QED BY <2>1, <2>2, <2>4, <3>1
  <2> QED BY <2>3, <2>4
<1>4. Chosen \in SUBSET Layers
  BY <1>1
<1> HIDE DEF F, G, B, H
<1>5. Sum(G, Layers) = Sum(F, Layers) + Sum(H, Layers)
  BY <1>3, LayersFinite, SumPlus
<1>6. Sum(B, Chosen) = Sum(H, Layers)
  BY <1>2, <1>4, LayersFinite, SumOnly DEF H
<1>7. /\ BytesOnDevice(layers) = Sum(G, Layers)
      /\ BytesOnDevice(plan.from) = Sum(F, Layers)
  <2>1. /\ BytesOnDevice(layers) = FoldFunctionOnSet(+, 0, G, Layers)
        /\ BytesOnDevice(plan.from) = FoldFunctionOnSet(+, 0, F, Layers)
    BY DEF BytesOnDevice, G, F, OnDevice
  <2> QED BY <2>1, LayersFinite, FoldIsSum
<1>8. IsFiniteSet(Chosen)
  BY <1>4, LayersFinite
<1>9. plan.bytes = Sum(B, Chosen)
  <2>1. plan.bytes = FoldFunctionOnSet(+, 0, B, Chosen)
    BY <1>1 DEF PrefetchSays, Chosen, B
  <2> QED BY <1>8, <2>1, FoldIsSum
<1> QED BY <1>5, <1>6, <1>7, <1>9

\* Whatever the tiers, widths and budgets, a prefetch plan that was carried
\* out brought home the bytes it announced and no more than its budget. A
\* next-layer plan left a layer its lookahead reaches on the host tier only for
\* want of budget and then brought in none needed later; a recency plan without
\* a budget brought in as many as it was asked for, the most recent first
\* (prefetch/ and KVCache.prefetch).
THEOREM PrefetchAlwaysKeepsItsWord == Spec => []PrefetchKeepsItsWord
<1>1. PlanInv => PrefetchKeepsItsWord
  <2> SUFFICES ASSUME PlanInv, Carried("fetch")
               PROVE  PrefetchKeepsItsWord
    BY DEF PrefetchKeepsItsWord
  <2>1. /\ PrefetchSays(plan, Ages)
        /\ \A i \in Layers : LayerOK(plan.from[i]) /\ Placed(plan.from[i])
        /\ \A i \in Layers : i \notin Chosen => layers[i] = plan.from[i]
        /\ \A i \in Chosen : i \in Layers /\ ~layers[i].offloaded
    BY FetchedLayers
  <2>2. BytesOnDevice(layers) = BytesOnDevice(plan.from) + plan.bytes
    BY FetchedBytes
  <2>3. \A i \in Layers : layers[i].offloaded => i \in FetchableIn(plan.from) \ Chosen
    <3> SUFFICES ASSUME NEW i \in Layers, layers[i].offloaded
                 PROVE  i \in FetchableIn(plan.from) \ Chosen
      OBVIOUS
    <3>1. i \notin Chosen /\ layers[i] = plan.from[i]
      BY <2>1
    <3>2. Bytes(plan.from[i]) > 0
      BY <2>1, <3>1, Figures
    <3> QED BY <3>1, <3>2 DEF FetchableIn
  <2>4. plan.name = "next_layer" =>
          \A k \in Reached(plan.window) :
            layers[Needed(plan.window, k)].offloaded =>
              /\ plan.budget # NoBudget
              /\ \A j \in Reached(plan.window) : j > k =>
                   layers[Needed(plan.window, j)] = plan.from[Needed(plan.window, j)]
    <3> SUFFICES ASSUME plan.name = "next_layer", NEW k \in Reached(plan.window),
                        layers[Needed(plan.window, k)].offloaded
                 PROVE  /\ plan.budget # NoBudget
                        /\ \A j \in Reached(plan.window) : j > k =>
                             layers[Needed(plan.window, j)] = plan.from[Needed(plan.window, j)]
      OBVIOUS
    <3>1. \A j \in Reached(plan.window) : Needed(plan.window, j) \in Layers
      BY <2>1 DEF PrefetchSays
    <3>2. Needed(plan.window, k) \in FetchableIn(plan.from) \ Chosen
      BY <2>3, <3>1
    <3>3. /\ plan.budget # NoBudget
          /\ \A j \in Reached(plan.window) : j > k => Needed(plan.window, j) \notin Chosen
      BY <2>1, <3>2 DEF PrefetchSays, Chosen
    <3> QED BY <2>1, <3>1, <3>3
  <2>5. plan.name = "recency" /\ plan.budget = NoBudget =>
          /\ Len(plan.layers) = plan.window \/ \A i \in Layers : ~Fetchable(i)
          /\ \A i \in ToSet(plan.layers), j \in Layers :
               layers[j].offloaded => Recency(i) >= Recency(j)
    <3> SUFFICES ASSUME plan.name = "recency", plan.budget = NoBudget
                 PROVE  /\ Len(plan.layers) = plan.window \/ \A i \in Layers : ~Fetchable(i)
                        /\ \A i \in ToSet(plan.layers), j \in Layers :
                             layers[j].offloaded => Recency(i) >= Recency(j)
      OBVIOUS
    <3>1. /\ Len(plan.layers) = plan.window \/ FetchableIn(plan.from) \subseteq Chosen
          /\ \A i \in Chosen, j \in FetchableIn(plan.from) \ Chosen : Ages[i] >= Ages[j]
      BY <2>1 DEF PrefetchSays, Chosen
    <3>2. \A i \in Layers : Fetchable(i) => layers[i].offloaded
      BY DEF Fetchable
    <3>3. \A i \in Layers : Ages[i] = Recency(i)
      BY DEF Ages
    <3>4. FetchableIn(plan.from) \subseteq Chosen => \A i \in Layers : ~Fetchable(i)
      BY <2>3, <3>2
    <3>5. ASSUME NEW i \in Chosen, NEW j \in Layers, layers[j].offloaded
          PROVE  Recency(i) >= Recency(j)
      <4>1. j \in FetchableIn(plan.from) \ Chosen /\ i \in Layers
        BY <2>1, <2>3, <3>5
      <4>2. Ages[i] >= Ages[j] /\ Ages[i] = Recency(i) /\ Ages[j] = Recency(j)
        BY <3>1, <3>3, <4>1
      <4> QED BY <4>2
    <3> QED BY <3>1, <3>4, <3>5 DEF Chosen
  <2>6. plan.budget # NoBudget => plan.bytes <= plan.budget
    BY <2>1 DEF PrefetchSays
  <2> QED BY <2>2, <2>4, <2>5, <2>6 DEF PrefetchKeepsItsWord
<1> QED BY <1>1, AlwaysPlanInv, PTL
=============================================================================
