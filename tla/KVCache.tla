------------------------------- MODULE KVCache -------------------------------
(***************************************************************************)
(* The facade every caller drives (cache/kv_cache.py KVCache over          *)
(* cache/store.py KVStore): several layers under one token budget, a       *)
(* retention policy asked to bring a layer back within it, a context       *)
(* manager that puts enforcement off until attention was recorded,         *)
(* calls that go over the layers one by one and may raise at any of them,  *)
(* and checkpoints that bring back layers and counters but not always the  *)
(* configuration they were written under.                                  *)
(*                                                                         *)
(* A layer is the set of absolute positions it holds: that slots are       *)
(* ascending positions and that every representation returns their rows is *)
(* LayerStorage's result.  The step counter and the signals it stamps are  *)
(* not part of this module, nor are the compression, offload and prefetch  *)
(* totals of stats().  A cache without a policy is unbounded for good; the *)
(* one modelled here has a policy.                                         *)
(***************************************************************************)
EXTENDS Integers, Sequences, FiniteSetsExt

CONSTANTS
  NumLayers,    \* config.num_layers
  Capacities,   \* values of capacity, one budget per layer, 0 for None
  SinkCounts,   \* values of config.attention_sinks
  Policy,       \* "any" scores, or "sliding_window" (window = None)
  AutoEnforce,  \* the auto_enforce argument of the constructor
  Calls,        \* bound: the kinds of call the run makes
  MaxPosition,  \* bound: positions handed out before a clear
  MaxEvicted,   \* bound: tokens evicted before a clear
  MaxDepth      \* bound: nested defer_enforcement blocks

Layers == 1 .. NumLayers

ASSUME LayersAssumption == NumLayers \in Nat \ {0}
ASSUME CapacitiesAssumption == Capacities \subseteq [Layers -> Nat]
ASSUME SinksAssumption == SinkCounts \subseteq Nat
ASSUME PolicyAssumption ==
  /\ Policy \in {"any", "sliding_window"}
  /\ AutoEnforce \in BOOLEAN
ASSUME BoundsAssumption ==
  MaxPosition \in Nat /\ MaxEvicted \in Nat /\ MaxDepth \in Nat

VARIABLES
  layers,       \* the KVStore: one record per layer
  config,       \* the CacheConfig
  autoEnforce,  \* self.auto_enforce
  deferred,     \* the `previous` of every open defer_enforcement block
  activity,     \* the eviction counters
  ckpt,         \* the last checkpoint written: <<>> or <<contents>>
  outcome       \* whether the last call returned or raised

vars == <<layers, config, autoEnforce, deferred, activity, ckpt, outcome>>

-----------------------------------------------------------------------------
(***************************************************************************)
(* Configurations and layers.                                              *)
(***************************************************************************)

Unbounded == [i \in Layers |-> 0]

\* Mutant of ValidConfig: the sinks are not compared with the capacity.
ValidConfigUnchecked(c) ==
  c.cap = Unbounded \/ \A i \in Layers : c.cap[i] >= 1

\* CacheConfig.__post_init__: a capacity is None or positive everywhere and
\* never smaller than the number of sinks.
ValidConfig(c) ==
  \/ c.cap = Unbounded
  \/ \A i \in Layers : c.cap[i] >= 1 /\ c.sinks <= c.cap[i]

Configs ==
  {c \in [cap : Capacities, sinks : SinkCounts] : ValidConfig(c)}

(***************************************************************************)
(* tokens   metadata.positions                                             *)
(* next     metadata._next_position                                        *)
(* sinks    metadata._num_sinks, which a checkpoint brings along           *)
(* quant    the layer holds an int8 payload                                *)
(* away     the layer is offloaded as a whole                              *)
(* hosted   tokens of the hosted tail, 0 when the layer is not split       *)
(***************************************************************************)
Layer ==
  [tokens : SUBSET Nat, next : Nat, sinks : Nat, quant : BOOLEAN,
   away : BOOLEAN, hosted : Nat]

NewLayer(c) ==
  [tokens |-> {}, next |-> 0, sinks |-> c.sinks, quant |-> FALSE,
   away |-> FALSE, hosted |-> 0]

NumTokens(l) == Cardinality(l.tokens)

\* The slot of position p, from 1.
Slot(l, p) == Cardinality({q \in l.tokens : q <= p})

\* is_sink: derived from the position, not stored.
Protected(l) == {p \in l.tokens : p < l.sinks}

\* LayerStorage.append, at home and dequantised afterwards.
AppendTo(l, start, n) ==
  [l EXCEPT !.tokens = @ \cup (start .. start + n - 1), !.next = start + n,
            !.quant = FALSE, !.away = FALSE, !.hosted = 0]

\* Mutants of KeepIn: next_position is recounted; the split survives.
KeepInRenumbers(l, kept) ==
  IF kept = {} THEN NewLayer(l)
  ELSE [l EXCEPT !.tokens = kept, !.next = Max(kept) + 1, !.hosted = 0]

KeepInSplit(l, kept) ==
  IF kept = {}
  THEN [l EXCEPT !.tokens = {}, !.quant = FALSE, !.away = FALSE]
  ELSE [l EXCEPT !.tokens = kept]

\* LayerStorage.keep: a split is collapsed, an emptied layer forgets its tier.
KeepIn(l, kept) ==
  IF kept = {}
  THEN [l EXCEPT !.tokens = {}, !.quant = FALSE, !.away = FALSE, !.hosted = 0]
  ELSE [l EXCEPT !.tokens = kept, !.hosted = 0]

-----------------------------------------------------------------------------
(***************************************************************************)
(* Calls over several layers.                                              *)
(***************************************************************************)

\* _target_layers
Targets == {Layers} \cup {{i} : i \in Layers}

\* The layers a loop over T finishes when it raises at the first of bad.
Before(T, bad) == {i \in T : \A j \in bad : i < j}

Outcome(bad) == IF bad = {} THEN "ok" ELSE "raised"

TotalTokens(ls) == MapThenSumSet(LAMBDA i : NumTokens(ls[i]), Layers)

\* Mutant of Counted: the running total is added instead of this call's drops.
CountedCumulative(bad, dropped) ==
  IF bad # {} \/ dropped = 0 THEN activity
  ELSE [evictions |-> activity.evictions + 1,
        evictedTokens |-> 2 * activity.evictedTokens + dropped]

\* The counters are written after the loop, so a raise leaves them behind.
Counted(bad, dropped) ==
  IF bad # {} \/ dropped = 0 THEN activity
  ELSE [evictions |-> activity.evictions + 1,
        evictedTokens |-> activity.evictedTokens + dropped]

-----------------------------------------------------------------------------
(***************************************************************************)
(* enforce_capacity and the policies' select.                              *)
(***************************************************************************)

Over(l, cap) == cap > 0 /\ NumTokens(l) > cap

\* select raises when the sinks alone exceed the budget.
Refuses(l, cap) == Cardinality(Protected(l)) > cap

\* Mutant of Favoured: the scores are ranked in ascending order.
FavouredAscending(l, kept) ==
  Policy = "sliding_window" =>
    \A p \in kept \ Protected(l), q \in l.tokens \ kept : p < q

\* Whom the scores favour: the sliding window scores by position, the other
\* policies' scores can be anything.
Favoured(l, kept) ==
  Policy = "sliding_window" =>
    \A p \in kept \ Protected(l), q \in l.tokens \ kept : p > q

\* Mutant of Selections: the protect mask is not passed on.
SelectionsUnprotected(l, cap) ==
  {kept \in SUBSET l.tokens :
     Cardinality(kept) = cap /\ Favoured([l EXCEPT !.sinks = 0], kept)}

\* The tokens select may return for a layer over its budget.
Selections(l, cap) ==
  {kept \in SUBSET l.tokens :
     /\ Cardinality(kept) = cap
     /\ Protected(l) \subseteq kept
     /\ Favoured(l, kept)}

\* enforce_capacity over the layers T of the store ls under configuration c.
Enforce(ls, c, T) ==
  LET over == {i \in T : Over(ls[i], c.cap[i])}
      bad == {i \in over : Refuses(ls[i], c.cap[i])}
      done == Before(over, bad)
  IN \E kept \in [done -> UNION {Selections(ls[i], c.cap[i]) : i \in done}] :
       /\ \A i \in done : kept[i] \in Selections(ls[i], c.cap[i])
       /\ layers' = [i \in Layers |-> IF i \in done THEN KeepIn(ls[i], kept[i])
                                      ELSE ls[i]]
       /\ activity' = Counted(bad, TotalTokens(ls) - TotalTokens(layers'))
       /\ outcome' = Outcome(bad)

\* Without enforcement the store ls stays as it is.
Settle(ls) ==
  layers' = ls /\ outcome' = "ok" /\ UNCHANGED activity

Init ==
  /\ config \in Configs
  /\ layers = [i \in Layers |-> NewLayer(config)]
  /\ autoEnforce = AutoEnforce
  /\ deferred = <<>>
  /\ activity = [evictions |-> 0, evictedTokens |-> 0]
  /\ ckpt = <<>>
  /\ outcome = "ok"

-----------------------------------------------------------------------------
(***************************************************************************)
(* The calls.                                                              *)
(***************************************************************************)

\* append of n tokens: at the next position when the caller gives none.  That
\* given positions are unused ones is the protocol of the callers (the models
\* pass start_pos + arange and count upwards); append() does not check it, and
\* a token is named by its position here.
AppendTokens(i, start, n) ==
  /\ "append" \in Calls
  /\ start >= layers[i].next
  /\ "skip" \in Calls \/ start = layers[i].next
  /\ start + n <= MaxPosition
  /\ LET ls == [layers EXCEPT ![i] = AppendTo(@, start, n)] IN
       IF autoEnforce THEN Enforce(ls, config, {i}) ELSE Settle(ls)
  /\ UNCHANGED <<config, autoEnforce, deferred, ckpt>>

\* evict() and enforce_capacity()
EvictByPolicy(T) ==
  /\ "policy" \in Calls
  /\ Enforce(layers, config, T)
  /\ UNCHANGED <<config, autoEnforce, deferred, ckpt>>

\* evict(keep = slots), or evict(indices = slots) when drop: empty layers are
\* skipped, a slot out of range raises.  keep() has collapsed a split layer
\* by then, _complement has not.
EvictSlots(T, slots, drop) ==
  LET held == {i \in T : layers[i].tokens # {}}
      bad == {i \in held : \E s \in slots : s > NumTokens(layers[i])}
      done == Before(held, bad)
      kept == [i \in done |-> {p \in layers[i].tokens :
                                 (Slot(layers[i], p) \in slots) # drop}]
      collapsed == {i \in bad : ~drop /\ \A j \in bad : i <= j}
  IN /\ "evict" \in Calls
     /\ layers' = [i \in Layers |->
                     IF i \in done THEN KeepIn(layers[i], kept[i])
                     ELSE IF i \in collapsed THEN [layers[i] EXCEPT !.hosted = 0]
                     ELSE layers[i]]
     /\ activity' = Counted(bad, TotalTokens(layers) - TotalTokens(layers'))
     /\ outcome' = Outcome(bad)
     /\ UNCHANGED <<config, autoEnforce, deferred, ckpt>>

\* clear() and reset(): positions start over, the counters do not.
ClearAll ==
  /\ "clear" \in Calls
  /\ activity.evictedTokens <= MaxEvicted
  /\ layers' = [i \in Layers |->
                  [NewLayer(config) EXCEPT !.sinks = layers[i].sinks]]
  /\ outcome' = "ok"
  /\ UNCHANGED <<config, autoEnforce, deferred, activity, ckpt>>

\* The calls that change a representation or a tier, layer by layer.
ChangeEach(T, new, bad) ==
  /\ "tiers" \in Calls
  /\ layers' = [i \in Layers |-> IF i \in Before(T, bad) THEN new[i]
                                 ELSE layers[i]]
  /\ outcome' = Outcome(bad)
  /\ UNCHANGED <<config, autoEnforce, deferred, activity, ckpt>>

CompressAll(T) ==
  ChangeEach(T, [i \in Layers |->
    IF layers[i].tokens = {} THEN layers[i]
    ELSE [layers[i] EXCEPT !.quant = TRUE, !.hosted = 0]], {})

DecompressAll(T) ==
  ChangeEach(T, [i \in Layers |-> [layers[i] EXCEPT !.quant = FALSE]], {})

\* offload() of whole layers
Offload(T) ==
  ChangeEach(T, [i \in Layers |->
    IF layers[i].tokens = {} THEN layers[i]
    ELSE [layers[i] EXCEPT !.away = TRUE, !.hosted = 0]], {})

\* offload(keep_resident = r): raises on a payload and on a layer too short.
OffloadKeeping(T, r) ==
  ChangeEach(T,
    [i \in Layers |->
       IF layers[i].tokens = {} THEN layers[i]
       ELSE IF r = 0 THEN [layers[i] EXCEPT !.away = TRUE, !.hosted = 0]
       ELSE IF r = NumTokens(layers[i]) THEN [layers[i] EXCEPT !.away = FALSE]
       ELSE [layers[i] EXCEPT !.away = FALSE, !.hosted = NumTokens(layers[i]) - r]],
    {i \in T : layers[i].quant \/ r > NumTokens(layers[i])})

\* prefetch() of whole layers
Prefetch(T) ==
  ChangeEach(T, [i \in Layers |->
                   [layers[i] EXCEPT !.away = FALSE, !.hosted = 0]], {})

\* prefetch(tokens = n) of split layers, a prefetch of more takes them all.
PrefetchTokens(T, n) ==
  ChangeEach(T, [i \in Layers |->
                   [layers[i] EXCEPT !.hosted = IF @ > n THEN @ - n ELSE 0]], {})

\* set_capacity: an impossible capacity raises before anything is assigned.
SetCapacity(cap) ==
  LET c == [config EXCEPT !.cap = cap] IN
  /\ "capacity" \in Calls
  /\ IF ValidConfig(c)
     THEN /\ config' = c
          /\ IF autoEnforce THEN Enforce(layers, c, Layers) ELSE Settle(layers)
     ELSE outcome' = "raised" /\ UNCHANGED <<layers, config, activity>>
  /\ UNCHANGED <<autoEnforce, deferred, ckpt>>

\* with cache.defer_enforcement():
EnterDefer ==
  /\ "defer" \in Calls
  /\ Len(deferred) < MaxDepth
  /\ deferred' = Append(deferred, autoEnforce)
  /\ autoEnforce' = FALSE
  /\ outcome' = "ok"
  /\ UNCHANGED <<layers, config, activity, ckpt>>

\* Mutants of ExitDefer: the flag is set back to TRUE whatever it was; an
\* inner block enforces and the outer one does not.
ExitDeferEnables(succeeded) ==
  /\ deferred # <<>>
  /\ succeeded \/ "raise" \in Calls
  /\ deferred' = SubSeq(deferred, 1, Len(deferred) - 1)
  /\ autoEnforce' = TRUE
  /\ IF Len(deferred) = 1 /\ autoEnforce' /\ succeeded
     THEN Enforce(layers, config, Layers)
     ELSE Settle(layers)
  /\ UNCHANGED <<config, ckpt>>

ExitDeferForgets(succeeded) ==
  /\ deferred # <<>>
  /\ succeeded \/ "raise" \in Calls
  /\ deferred' = SubSeq(deferred, 1, Len(deferred) - 1)
  /\ autoEnforce' = deferred[Len(deferred)]
  /\ IF autoEnforce' /\ deferred' # <<>> /\ succeeded
     THEN Enforce(layers, config, Layers)
     ELSE Settle(layers)
  /\ UNCHANGED <<config, ckpt>>

\* The block ends; only the outermost one enforces, and only when its body
\* returned and enforcement was on before it.
ExitDefer(succeeded) ==
  /\ deferred # <<>>
  /\ succeeded \/ "raise" \in Calls
  /\ deferred' = SubSeq(deferred, 1, Len(deferred) - 1)
  /\ autoEnforce' = deferred[Len(deferred)]
  /\ IF Len(deferred) = 1 /\ autoEnforce' /\ succeeded
     THEN Enforce(layers, config, Layers)
     ELSE Settle(layers)
  /\ UNCHANGED <<config, ckpt>>

Save ==
  /\ "save" \in Calls
  /\ ckpt' = <<[layers |-> layers, config |-> config, activity |-> activity]>>
  /\ outcome' = "ok"
  /\ UNCHANGED <<layers, config, autoEnforce, deferred, activity>>

\* Mutant of LoadCheckpoint: the counters are not restored.
LoadCheckpointKeepsCounters ==
  /\ "load" \in Calls
  /\ ckpt # <<>>
  /\ layers' = ckpt[1].layers
  /\ outcome' = "ok"
  /\ UNCHANGED <<config, autoEnforce, deferred, activity, ckpt>>

\* load_checkpoint: storage and counters are replaced, the configuration
\* stays, and nothing is enforced.
LoadCheckpoint ==
  /\ "load" \in Calls
  /\ ckpt # <<>>
  /\ layers' = ckpt[1].layers
  /\ activity' = ckpt[1].activity
  /\ outcome' = "ok"
  /\ UNCHANGED <<config, autoEnforce, deferred, ckpt>>

\* load_checkpoint and load refuse some checkpoints of split layers (see
\* LayerStorage!CheckpointLoads) before they change anything.
LoadRefused ==
  /\ "load" \in Calls \/ "reopen" \in Calls
  /\ ckpt # <<>>
  /\ \E i \in Layers : ckpt[1].layers[i].hosted > 0
  /\ outcome' = "raised"
  /\ UNCHANGED <<layers, config, autoEnforce, deferred, activity, ckpt>>

\* KVCache.load: a new cache, configured as the checkpoint or as its caller
\* likes; of the caller's configuration only the shape is compared.
Reopen(c) ==
  /\ "reopen" \in Calls
  /\ ckpt # <<>>
  /\ deferred = <<>>
  /\ config' = c
  /\ layers' = ckpt[1].layers
  /\ activity' = ckpt[1].activity
  /\ autoEnforce' = AutoEnforce
  /\ outcome' = "ok"
  /\ UNCHANGED <<deferred, ckpt>>

Next ==
  \/ \E i \in Layers, start \in 0 .. MaxPosition, n \in 1 .. MaxPosition :
       AppendTokens(i, start, n)
  \/ \E T \in Targets : EvictByPolicy(T)
  \/ \E T \in Targets, slots \in SUBSET (1 .. MaxPosition), drop \in BOOLEAN :
       EvictSlots(T, slots, drop)
  \/ ClearAll
  \/ \E T \in Targets : CompressAll(T)
  \/ \E T \in Targets : DecompressAll(T)
  \/ \E T \in Targets : Offload(T)
  \/ \E T \in Targets, r \in 0 .. MaxPosition : OffloadKeeping(T, r)
  \/ \E T \in Targets : Prefetch(T)
  \/ \E T \in Targets, n \in 1 .. MaxPosition : PrefetchTokens(T, n)
  \/ \E cap \in Capacities : SetCapacity(cap)
  \/ EnterDefer
  \/ \E succeeded \in BOOLEAN : ExitDefer(succeeded)
  \/ Save
  \/ LoadCheckpoint
  \/ LoadRefused
  \/ \E c \in Configs : Reopen(c)

Spec == Init /\ [][Next]_vars

-----------------------------------------------------------------------------
(***************************************************************************)
(* Invariants.                                                             *)
(***************************************************************************)

Contents ==
  [layers : [Layers -> Layer], config : Configs,
   activity : [evictions : Nat, evictedTokens : Nat]]

\* Every variable keeps its type; a layer holds finitely many tokens, all
\* below its next position.
TypeOK ==
  /\ [layers |-> layers, config |-> config, activity |-> activity] \in Contents
  /\ autoEnforce \in BOOLEAN
  /\ deferred \in Seq(BOOLEAN)
  /\ ckpt \in Seq(Contents)
  /\ outcome \in {"ok", "raised"}
  /\ \A i \in Layers : layers[i].tokens \subseteq 0 .. layers[i].next - 1

\* A layer is in one tier and one representation: a split layer has tokens on
\* both sides, holds floats and is not offloaded as a whole; a layer without
\* tokens has neither payload nor tier, after partial and failed calls too.
TiersConsistent ==
  \A i \in Layers :
    LET l == layers[i] IN
    /\ l.hosted > 0 => l.hosted < NumTokens(l) /\ ~l.quant /\ ~l.away
    /\ l.tokens = {} => ~l.quant /\ ~l.away

\* Between calls the flag is what the constructor was given; inside a
\* deferred block it is off and the outermost block remembers that value,
\* however the blocks nest and however they end.
DeferRestores ==
  /\ deferred = <<>> => autoEnforce = AutoEnforce
  /\ deferred # <<>> =>
       /\ ~autoEnforce
       /\ deferred[1] = AutoEnforce
       /\ \A k \in 2 .. Len(deferred) : ~deferred[k]

\* Outside a deferred block no layer is over its budget, when every body
\* returned and no checkpoint was loaded.
WithinBudget ==
  AutoEnforce /\ deferred = <<>> =>
    \A i \in Layers : ~Over(layers[i], config.cap[i])

\* Enforcement can always be satisfied: the sinks a layer holds fit its budget.
EnforcementNeverRefuses ==
  \A i \in Layers : config.cap[i] > 0 => ~Refuses(layers[i], config.cap[i])

\* "Number of leading tokens that are never evicted": as long as nobody but
\* the policy evicts, the leading tokens handed out are all still there.
SinksStay ==
  \A i \in Layers :
    {p \in 0 .. layers[i].next - 1 : p < config.sinks} \subseteq layers[i].tokens

\* StreamingLLM's shape: the sinks, a gap, and an unbroken run of recent tokens.
SinksThenWindow ==
  \A i \in Layers : \A p \in layers[i].tokens :
    p >= config.sinks => p .. layers[i].next - 1 \subseteq layers[i].tokens

\* Every token handed out is cached or counted as evicted exactly once, over
\* evictions of several layers and restores of counters and contents alike.
EveryTokenAccounted ==
  /\ MapThenSumSet(LAMBDA i : layers[i].next, Layers)
       = TotalTokens(layers) + activity.evictedTokens
  /\ activity.evictions <= activity.evictedTokens

\* When calls raise half-way the counter may miss evicted tokens, but it never
\* counts one that is still cached.
NeverOvercounted ==
  TotalTokens(layers) + activity.evictedTokens
    <= MapThenSumSet(LAMBDA i : layers[i].next, Layers)

-----------------------------------------------------------------------------
(***************************************************************************)
(* Action properties.                                                      *)
(***************************************************************************)

\* "Positions are absolute, forever": for callers that name unused positions
\* or none, a call other than a restore only brings in tokens at positions the
\* layer has never used, and only a call that empties the cache makes positions
\* start over.
PositionsNotReused ==
  [][ckpt = <<>> \/ layers' # ckpt[1].layers =>
       \A i \in Layers :
         /\ \A p \in layers'[i].tokens \ layers[i].tokens : p >= layers[i].next
         /\ \/ layers'[i].next >= layers[i].next
            \/ layers'[i].next = 0 /\ TotalTokens(layers') = 0]_vars

-----------------------------------------------------------------------------
(***************************************************************************)
(* What the documentation and the messages say and the code does not do.   *)
(***************************************************************************)

\* "Maximum number of tokens retained per layer": the budget holds whatever
\* was loaded.  load_checkpoint keeps the present budget and does not enforce
\* it on the contents it restores.
CapacityIsAMaximum == WithinBudget

\* "Number of leading tokens that are never evicted".  A checkpoint brings its
\* own number of sinks along and load() accepts it under any configuration.
LeadingTokensNeverEvicted == SinksStay
=============================================================================
