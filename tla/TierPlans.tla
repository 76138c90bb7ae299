----------------------------- MODULE TierPlans -----------------------------
(***************************************************************************)
(* Planning what leaves the compute device and what comes back             *)
(* (offload/tiers.py, prefetch/, and bench/runner.py _apply_tier_actions). *)
(* A plan is computed once, from the byte accounts and the recency of the  *)
(* layers, and then carried out layer by layer by calls that re-check, skip*)
(* and collapse on their own (KVCache.offload and prefetch).  The hazard   *)
(* is that the plan promises byte figures its calls do not produce: a      *)
(* split layer, a quantised one and one with preallocated rows all free    *)
(* something else than what they hold.                                     *)
(*                                                                         *)
(* The layers are LayerRecord's records.  Byte figures are allocated rows  *)
(* times the width of a row, FloatBytes as floats and PayloadBytes as an   *)
(* int8 payload.  Steps of last_access start at 0.                         *)
(***************************************************************************)
EXTENDS LayerRecord, FiniteSets, SequencesExt

CONSTANTS
  NumLayers,      \* layers of the cache
  Homes,          \* compute devices the cache is built on
  HostDevice,     \* TierManager.host
  Capacities,     \* capacity of a layer, Unbounded (None) among them or not
  FloatBytes,     \* bytes of a row of floats
  PayloadBytes,   \* bytes of a row of an int8 payload
  Budgets,        \* byte budgets the planners are given
  Pinned,         \* sets of layers given as exclude
  Depths,         \* depth of NextLayerPrefetch, k of RecencyPrefetch
  MaxTokens,      \* bound: tokens in a layer
  MaxPosition,    \* bound: positions a layer hands out
  MaxStep         \* bound: steps of the cache's clock

Layers == 1 .. NumLayers

ASSUME NumLayersAssumption == NumLayers \in Nat \ {0}
ASSUME HomesAssumption == Homes \subseteq Devices /\ HostDevice \in Devices
ASSUME WidthAssumption == FloatBytes \in Nat \ {0} /\ PayloadBytes \in Nat \ {0}
ASSUME PlanInputsAssumption ==
  /\ Budgets \subseteq Nat
  /\ Depths \subseteq Nat
  /\ Capacities \subseteq Nat
  /\ Pinned \subseteq SUBSET Layers
ASSUME BoundsAssumption ==
  MaxTokens \in Nat /\ MaxPosition \in Nat /\ MaxStep \in Nat

\* resident_budget = None
NoBudget == -1

VARIABLES
  layers,   \* the LayerStorage of each layer
  seen,     \* metadata.last_access of each layer, one step per cached token
  step,     \* KVCache._step
  pc,       \* "idle", "shed" (an offload plan runs) or "fetch" (a prefetch plan)
  todo,     \* the layers of the plan not moved yet, in the plan's order
  plan      \* the plan, with the call it answers

vars == <<layers, seen, step, pc, todo, plan>>

NoPlan == [layers |-> <<>>]

-----------------------------------------------------------------------------
(***************************************************************************)
(* What the planners read.                                                 *)
(***************************************************************************)

Width(l) == IF l.rep = "quant" THEN PayloadBytes ELSE FloatBytes

\* bytes() and device_bytes() of a layer.
Bytes(l) == Width(l) * StoredRows(l)
DeviceBytes(l) == Width(l) * DeviceRows(l)

\* bytes_on_device of a store.
BytesOnDevice(ls) ==
  FoldFunctionOnSet(+, 0, [i \in Layers |-> DeviceBytes(ls[i])], Layers)

\* The largest last access of a layer; without tokens it is older than all.
Recency(i) ==
  IF seen[i] = <<>> THEN -1
  ELSE CHOOSE s \in ToSet(seen[i]) : \A r \in ToSet(seen[i]) : r <= s

\* sorted(S, key = key) of layers: ties stay in the order of the layers.
Before(key, i, j) == key[i] < key[j] \/ (key[i] = key[j] /\ i < j)

SortedBy(S, key) ==
  [k \in 1 .. Cardinality(S) |->
     CHOOSE i \in S : Cardinality({j \in S : Before(key, j, i)}) = k - 1]

SortedDown(S, key) == SortedBy(S, [i \in Layers |-> -key[i]])

\* The first layers of ranked, as long as more(n) asks for the one after n.
TakeWhile(ranked, more(_)) ==
  SubSeq(ranked, 1, CHOOSE n \in 0 .. Len(ranked) :
    /\ \A k \in 0 .. n - 1 : more(k)
    /\ n = Len(ranked) \/ ~more(n))

-----------------------------------------------------------------------------
(***************************************************************************)
(* TierManager.plan_offload.                                               *)
(***************************************************************************)

Orders == {"lru", "largest", "reverse"}

Eligible(exclude) ==
  {i \in Layers : ~layers[i].offloaded /\ i \notin exclude /\ Bytes(layers[i]) > 0}

\* Mutant of Ranked: the layers used last go first.
RankedFreshest(S, order) ==
  CASE order = "largest" -> SortedDown(S, [i \in Layers |-> Bytes(layers[i])])
    [] order = "reverse" -> SortedDown(S, [i \in Layers |-> i])
    [] order = "lru" -> SortedDown(S, [i \in Layers |-> Recency(i)])

Ranked(S, order) ==
  CASE order = "largest" -> SortedDown(S, [i \in Layers |-> Bytes(layers[i])])
    [] order = "reverse" -> SortedDown(S, [i \in Layers |-> i])
    [] order = "lru" -> SortedBy(S, [i \in Layers |-> Recency(i)])

\* Mutant of Freed: a chosen layer is taken to free everything it holds.
FreedInFull(chosen) ==
  FoldFunctionOnSet(+, 0, [i \in Layers |-> Bytes(layers[i])], ToSet(chosen))

\* What moving the chosen layers takes off the device.
Freed(chosen) ==
  FoldFunctionOnSet(+, 0, [i \in Layers |-> DeviceBytes(layers[i])], ToSet(chosen))

OffloadPlan(budget, order, exclude) ==
  LET before == BytesOnDevice(layers)
      ranked == Ranked(Eligible(exclude), order)
      chosen == TakeWhile(ranked,
                  LAMBDA n : before - Freed(SubSeq(ranked, 1, n)) > budget)
      after == before - Freed(chosen)
  IN [layers |-> chosen, before |-> before, after |-> after,
      feasible |-> after <= budget, budget |-> budget, order |-> order,
      exclude |-> exclude, from |-> layers]

-----------------------------------------------------------------------------
(***************************************************************************)
(* The prefetch policies.                                                  *)
(***************************************************************************)

Fetchable(i) == layers[i].offloaded /\ Bytes(layers[i]) > 0

Moved(chosen) ==
  FoldFunctionOnSet(+, 0, [i \in Layers |-> Bytes(layers[i])], ToSet(chosen))

Affordable(chosen, budget) == budget = NoBudget \/ Moved(chosen) <= budget

\* Mutant of Ahead: the lookahead stops one layer early.
AheadShort(cursor, depth, wrap) ==
  {((cursor + k - 1) % NumLayers) + 1 :
     k \in 1 .. MinOf(depth, IF wrap THEN NumLayers ELSE NumLayers - cursor) - 1}

\* The layers after the cursor that range() reaches, which ends after one round.
Ahead(cursor, depth, wrap) ==
  {((cursor + k - 1) % NumLayers) + 1 :
     k \in 1 .. MinOf(depth, IF wrap THEN NumLayers ELSE NumLayers - cursor)}

\* How far ahead of the cursor a layer is.
Offset(cursor) == [i \in Layers |-> IF i > cursor THEN i - cursor
                                   ELSE i + NumLayers - cursor]

\* NextLayerPrefetch.plan takes the nearest first and stops at the first layer
\* that does not fit.
NextLayers(cursor, depth, wrap, budget) ==
  LET near == SortedBy({i \in Ahead(cursor, depth, wrap) : Fetchable(i)}, Offset(cursor))
  IN TakeWhile(near, LAMBDA n : Affordable(SubSeq(near, 1, n + 1), budget))

\* RecencyPrefetch.plan passes over a layer that does not fit.
MostRecent(k, budget) ==
  LET ranked == SortedDown({i \in Layers : Fetchable(i)}, [i \in Layers |-> Recency(i)])
      upTo[n \in 0 .. Len(ranked)] ==
        IF n = 0 THEN <<>>
        ELSE IF Len(upTo[n - 1]) < k /\ Affordable(Append(upTo[n - 1], ranked[n]), budget)
        THEN Append(upTo[n - 1], ranked[n]) ELSE upTo[n - 1]
  IN upTo[Len(ranked)]

-----------------------------------------------------------------------------
(***************************************************************************)
(* The cache between plans.                                                *)
(***************************************************************************)

Init ==
  /\ \E home \in Homes, cap \in Capacities :
       layers = [i \in Layers |-> NewLayer(home, cap)]
  /\ seen = [i \in Layers |-> <<>>]
  /\ step = 0
  /\ pc = "idle"
  /\ todo = <<>>
  /\ plan = NoPlan

Idle == pc = "idle" /\ UNCHANGED <<pc, todo, plan>>

\* append of n tokens, last accessed now.
AppendTokens(i, n) ==
  /\ Idle
  /\ NumTokens(layers[i]) + n <= MaxTokens
  /\ layers[i].next + n <= MaxPosition
  /\ layers' = [layers EXCEPT ![i] =
                  AppendRows(@, [k \in 1 .. n |-> layers[i].next + k - 1])]
  /\ seen' = [seen EXCEPT ![i] = @ \o [k \in 1 .. n |-> step]]
  /\ UNCHANGED step

\* advance()
Advance ==
  /\ Idle
  /\ step < MaxStep
  /\ step' = step + 1
  /\ UNCHANGED <<layers, seen>>

\* note_attention: the tokens in slots are attended to now.
Attend(i, slots) ==
  /\ Idle
  /\ seen' = [seen EXCEPT ![i] =
                [s \in 1 .. Len(@) |-> IF s \in slots THEN step ELSE @[s]]]
  /\ UNCHANGED <<layers, step>>

\* The ascending lists of slots of a layer of n tokens.
KeepLists(n) ==
  {idx \in UNION {[1 .. k -> 1 .. n] : k \in 0 .. n} :
     \A j, k \in DOMAIN idx : j < k => idx[j] < idx[k]}

\* evict of all slots but those in idx.
Evict(i, idx) ==
  /\ Idle
  /\ NumTokens(layers[i]) > 0
  /\ layers' = [layers EXCEPT ![i] = Keep(@, idx)]
  /\ seen' = [seen EXCEPT ![i] = [k \in 1 .. Len(idx) |-> @[idx[k]]]]
  /\ UNCHANGED step

\* compress() of a layer
CompressLayer(i) ==
  /\ Idle
  /\ layers[i].rep = "float"
  /\ NumTokens(layers[i]) > 0
  /\ layers' = [layers EXCEPT ![i] = Compress(@)]
  /\ UNCHANGED <<seen, step>>

\* offload(i, keep_resident = r) with tokens on both sides
SplitLayer(i, r) ==
  /\ Idle
  /\ layers[i].rep = "float"
  /\ layers[i].home # HostDevice
  /\ 0 < r /\ r < NumTokens(layers[i])
  /\ layers' = [layers EXCEPT ![i] = OffloadTail(@, r, HostDevice)]
  /\ UNCHANGED <<seen, step>>

-----------------------------------------------------------------------------
(***************************************************************************)
(* Making a plan and carrying it out.                                      *)
(***************************************************************************)

\* plan_offload; the TierManager of a cache on the host tier is refused.
PlanOffload(budget, order, exclude) ==
  /\ pc = "idle"
  /\ layers[1].home # HostDevice
  /\ plan' = OffloadPlan(budget, order, exclude)
  /\ todo' = plan'.layers
  /\ pc' = "shed"
  /\ UNCHANGED <<layers, seen, step>>

\* KVCache.offload(i, target = d)
OffloadWhole(l, d) ==
  IF ~IsInitialized(l) \/ l.offloaded \/ ResidentDevice(l) = d THEN l
  ELSE MoveTo(l, d)

\* KVCache.prefetch(i)
PrefetchWhole(l) ==
  IF l.offloaded THEN MoveTo(l, l.home)
  ELSE IF IsSplit(l) THEN PrefetchTail(l, HostedTokens(l))
  ELSE l

\* The next layer of the plan moves.
Move(stage, new(_)) ==
  /\ pc = stage
  /\ todo # <<>>
  /\ layers' = [layers EXCEPT ![Head(todo)] = new(@)]
  /\ todo' = Tail(todo)
  /\ UNCHANGED <<seen, step, pc, plan>>

ShedNext == Move("shed", LAMBDA l : OffloadWhole(l, HostDevice))
FetchNext == Move("fetch", PrefetchWhole)

Planned(name, chosen, budget, window) ==
  /\ pc = "idle"
  /\ plan' = [layers |-> chosen, name |-> name, bytes |-> Moved(chosen),
              budget |-> budget, window |-> window, from |-> layers]
  /\ todo' = chosen
  /\ pc' = "fetch"
  /\ UNCHANGED <<layers, seen, step>>

\* plan() of the three policies; NoPrefetch and a depth of 0 plan nothing.
PlanNothing == Planned("none", <<>>, NoBudget, 0)

\* The window is what the policy's documentation promises to look at.
PlanNextLayer(cursor, depth, wrap, budget) ==
  Planned("next_layer", NextLayers(cursor, depth, wrap, budget), budget,
          [cursor |-> cursor, depth |-> depth, wrap |-> wrap])

PlanRecency(k, budget) == Planned("recency", MostRecent(k, budget), budget, k)

PlanDone ==
  /\ pc # "idle"
  /\ todo = <<>>
  /\ pc' = "idle"
  /\ plan' = NoPlan
  /\ UNCHANGED <<layers, seen, step, todo>>

Next ==
  \/ \E i \in Layers, n \in 1 .. MaxTokens : AppendTokens(i, n)
  \/ Advance
  \/ \E i \in Layers, slots \in SUBSET (1 .. MaxTokens) : Attend(i, slots)
  \/ \E i \in Layers : \E idx \in KeepLists(NumTokens(layers[i])) : Evict(i, idx)
  \/ \E i \in Layers : CompressLayer(i)
  \/ \E i \in Layers, r \in 1 .. MaxTokens : SplitLayer(i, r)
  \/ \E budget \in Budgets, order \in Orders, exclude \in Pinned :
       PlanOffload(budget, order, exclude)
  \/ ShedNext
  \/ PlanNothing
  \/ \E cursor \in Layers, depth \in Depths, wrap \in BOOLEAN,
        budget \in Budgets \cup {NoBudget} : PlanNextLayer(cursor, depth, wrap, budget)
  \/ \E k \in Depths, budget \in Budgets \cup {NoBudget} : PlanRecency(k, budget)
  \/ FetchNext
  \/ PlanDone

Spec == Init /\ [][Next]_vars

-----------------------------------------------------------------------------
(***************************************************************************)
(* Properties.                                                             *)
(***************************************************************************)

\* Every layer is a consistent record with one step per token, and what is
\* left of a plan is a list of different layers.
TypeOK ==
  /\ \A i \in Layers : LayerOK(layers[i]) /\ Len(seen[i]) = NumTokens(layers[i])
  /\ \A i \in Layers : \A s \in ToSet(seen[i]) : s \in 0 .. step
  /\ todo \in Seq(Layers) /\ IsInjective(todo)
  /\ pc \in {"idle", "shed", "fetch"} /\ (pc = "idle" => todo = <<>>)

Carried(stage) == pc = stage /\ todo = <<>>

\* An offload plan says what its transfers then do: the device holds the
\* bytes the plan announced, they fit the budget if it was called feasible,
\* and if not, no layer that could have been moved was left.
OffloadTellsTheTruth ==
  Carried("shed") =>
    /\ BytesOnDevice(layers) = plan.after
    /\ plan.feasible <=> BytesOnDevice(layers) <= plan.budget
    /\ ~plan.feasible => Eligible(plan.exclude) = {}
    /\ \A i \in plan.exclude : layers[i] = plan.from[i]

\* A plan moves nothing when the budget holds, the last layer it moves is
\* needed to meet it, and "lru" leaves no staler layer behind.
OffloadMovesWhatItMust ==
  Carried("shed") /\ plan.layers # <<>> =>
    /\ plan.after + DeviceBytes(plan.from[Last(plan.layers)]) > plan.budget
    /\ plan.order = "lru" =>
         \A i \in ToSet(plan.layers), j \in Eligible(plan.exclude) :
           Recency(i) <= Recency(j)

\* The layers the lookahead of a next-layer plan reaches, in order of need.
Reached(w) ==
  {k \in 1 .. w.depth : k <= NumLayers /\ (w.wrap \/ w.cursor + k <= NumLayers)}
Needed(w, k) == IF w.cursor + k > NumLayers THEN w.cursor + k - NumLayers
                ELSE w.cursor + k

\* A prefetch plan brings home what it announced and no more than its budget;
\* without a budget every layer the lookahead reaches is home when it is done,
\* and with one no layer is brought in ahead of one needed sooner.
PrefetchKeepsItsWord ==
  Carried("fetch") =>
    /\ BytesOnDevice(layers) = BytesOnDevice(plan.from) + plan.bytes
    /\ plan.budget # NoBudget => plan.bytes <= plan.budget
    /\ plan.name = "next_layer" =>
         \A k \in Reached(plan.window) :
           layers[Needed(plan.window, k)].offloaded =>
             /\ plan.budget # NoBudget
             /\ \A j \in Reached(plan.window) : j > k =>
                  layers[Needed(plan.window, j)] = plan.from[Needed(plan.window, j)]
    /\ plan.name = "recency" /\ plan.budget = NoBudget =>
         /\ Len(plan.layers) = plan.window \/ \A i \in Layers : ~Fetchable(i)
         /\ \A i \in ToSet(plan.layers), j \in Layers :
              layers[j].offloaded => Recency(i) >= Recency(j)

\* Transfers move rows, never change what is read: no step of a plan touches
\* the tokens of any layer, their order or their last access.
TransfersKeepTokens ==
  [][pc = "idle" \/ /\ seen' = seen
                    /\ \A i \in Layers : View(layers'[i]) = View(layers[i])]_vars

=============================================================================
