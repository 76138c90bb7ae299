---------------------------- MODULE KVCache_proofs ----------------------------
(***************************************************************************)
(* What KVCache keeps for any number of layers, any capacities, any number *)
(* of sinks and any policy: the deferral flag is always restored; every    *)
(* layer is in one tier and one representation and reuses no position;     *)
(* without loads and raising bodies no layer stays over its budget; while  *)
(* only the policy evicts, the leading tokens are never lost and the       *)
(* counters account for every token; and the sliding window has its shape. *)
(***************************************************************************)
EXTENDS KVCache, FiniteSetTheorems, SequenceTheorems, WellFoundedInduction,
        TLAPS

(***************************************************************************)
(* Blocks of defer_enforcement.                                            *)
(***************************************************************************)

\* Entering a block pushes onto the stack of `previous` values, leaving pops.
LEMMA Pushed ==
  ASSUME NEW S, NEW s \in Seq(S), NEW e \in S
  PROVE  /\ Append(s, e) \in Seq(S)
         /\ Append(s, e) # <<>>
         /\ Len(Append(s, e)) = Len(s) + 1
         /\ \A k \in 1 .. Len(s) : Append(s, e)[k] = s[k]
         /\ Append(s, e)[Len(s) + 1] = e
OBVIOUS

LEMMA Popped ==
  ASSUME NEW S, NEW s \in Seq(S), s # <<>>
  PROVE  LET t == SubSeq(s, 1, Len(s) - 1) IN
         /\ t \in Seq(S)
         /\ Len(t) = Len(s) - 1
         /\ \A k \in 1 .. Len(t) : t[k] = s[k]
         /\ s[Len(s)] \in S
<1>1. Len(s) \in Nat /\ Len(s) > 0
  BY EmptySeq
<1>2. \A k \in 1 .. Len(s) : s[k] \in S
  BY ElementOfSeq
<1> DEFINE t == SubSeq(s, 1, Len(s) - 1)
<1>3. Len(s) - 1 \in Int /\ \A k \in 1 .. Len(s) - 1 : s[k] \in S
  BY <1>1, <1>2
<1>4. /\ t \in Seq(S)
      /\ Len(t) = IF 1 <= Len(s) - 1 THEN Len(s) - 1 - 1 + 1 ELSE 0
      /\ \A k \in 1 .. Len(s) - 1 - 1 + 1 : t[k] = s[1 + k - 1]
  BY <1>3, SubSeqProperties
<1> HIDE DEF t
<1>5. Len(t) = Len(s) - 1
  <2> DEFINE n == Len(s)
             m == Len(t)
  <2>1. n \in Nat /\ n > 0 /\ m = IF 1 <= n - 1 THEN n - 1 - 1 + 1 ELSE 0
    BY <1>1, <1>4
  <2> HIDE DEF n, m
  <2>2. m = n - 1
    BY <2>1
  <2> QED BY <2>2 DEF n, m
<1>6. ASSUME NEW k \in 1 .. Len(t) PROVE t[k] = s[k]
  <2>1. k \in 1 .. Len(s) - 1 - 1 + 1 /\ 1 + k - 1 = k
    BY <1>1, <1>5
  <2> QED BY <1>4, <2>1
<1> QED BY <1>1, <1>2, <1>4, <1>5, <1>6 DEF t

\* What a nested block remembers, with the types the step needs.
DeferInv ==
  /\ deferred \in Seq(BOOLEAN)
  /\ autoEnforce \in BOOLEAN
  /\ DeferRestores

LEMMA DeferInvStep == DeferInv /\ [Next]_vars => DeferInv'
<1> SUFFICES ASSUME DeferInv, [Next]_vars PROVE DeferInv'
  OBVIOUS
<1> USE DEF DeferInv
<1>0. AutoEnforce \in BOOLEAN
  BY PolicyAssumption
<1>same. ASSUME UNCHANGED <<autoEnforce, deferred>> PROVE DeferInv'
  BY <1>same DEF DeferRestores
<1>len. Len(deferred) \in Nat /\ (deferred = <<>> <=> Len(deferred) = 0)
  BY EmptySeq
<1>1. CASE EnterDefer
  <2>1. deferred' = Append(deferred, autoEnforce) /\ autoEnforce' = FALSE
    BY <1>1 DEF EnterDefer
  <2>2. /\ deferred' \in Seq(BOOLEAN) /\ deferred' # <<>>
        /\ Len(deferred') = Len(deferred) + 1
        /\ \A k \in 1 .. Len(deferred) : deferred'[k] = deferred[k]
        /\ deferred'[Len(deferred) + 1] = autoEnforce
    BY <2>1, Pushed
  <2>3. deferred'[1] = AutoEnforce
    <3>1. CASE deferred = <<>>
      BY <2>2, <3>1 DEF DeferRestores
    <3>2. CASE deferred # <<>>
      <4>1. 1 \in 1 .. Len(deferred)
        BY <1>len, <3>2
      <4> QED BY <2>2, <3>2, <4>1 DEF DeferRestores
    <3> QED BY <3>1, <3>2
  <2>4. ASSUME NEW k \in 2 .. Len(deferred') PROVE ~deferred'[k]
    <3>1. CASE k \in 2 .. Len(deferred)
      <4>1. k \in 1 .. Len(deferred) /\ deferred # <<>>
        BY <1>len, <3>1
      <4> QED BY <2>2, <3>1, <4>1 DEF DeferRestores
    <3>2. CASE k \notin 2 .. Len(deferred)
      <4>1. k = Len(deferred) + 1 /\ deferred # <<>>
        BY <1>len, <2>2, <3>2
      <4> QED BY <2>2, <4>1 DEF DeferRestores
    <3> QED BY <3>1, <3>2
  <2> QED BY <2>1, <2>2, <2>3, <2>4 DEF DeferRestores
<1>2. ASSUME NEW succeeded \in BOOLEAN, ExitDefer(succeeded) PROVE DeferInv'
  <2>1. /\ deferred # <<>>
        /\ deferred' = SubSeq(deferred, 1, Len(deferred) - 1)
        /\ autoEnforce' = deferred[Len(deferred)]
    BY <1>2 DEF ExitDefer
  <2>2. /\ deferred' \in Seq(BOOLEAN)
        /\ Len(deferred') = Len(deferred) - 1
        /\ \A k \in 1 .. Len(deferred') : deferred'[k] = deferred[k]
        /\ autoEnforce' \in BOOLEAN
    BY <2>1, Popped
  <2>3. /\ deferred' = <<>> => Len(deferred) = 1
        /\ deferred' # <<>> => /\ Len(deferred) \in 2 .. Len(deferred)
                               /\ 1 \in 1 .. Len(deferred')
        /\ \A k \in 2 .. Len(deferred') :
             k \in 2 .. Len(deferred) /\ k \in 1 .. Len(deferred')
    <3> HIDE DEF DeferInv
    <3>1. Len(deferred') \in Nat /\ (deferred' = <<>> <=> Len(deferred') = 0)
      BY <2>2, EmptySeq
    <3>2. Len(deferred) \in Nat /\ Len(deferred') = Len(deferred) - 1
      BY <1>len, <2>2
    <3> QED BY <3>1, <3>2
  <2>4. deferred' = <<>> => autoEnforce' = AutoEnforce
    BY <2>1, <2>3 DEF DeferRestores
  <2>5. deferred' # <<>> => ~autoEnforce' /\ deferred'[1] = AutoEnforce
    BY <2>1, <2>2, <2>3 DEF DeferRestores
  <2>6. \A k \in 2 .. Len(deferred') : ~deferred'[k]
    BY <2>1, <2>2, <2>3 DEF DeferRestores
  <2> QED BY <2>2, <2>4, <2>5, <2>6 DEF DeferRestores
<1>3. ASSUME NEW c \in Configs, Reopen(c) PROVE DeferInv'
  BY <1>0, <1>3 DEF Reopen, DeferRestores
<1>4. ASSUME NEW T, NEW new, NEW bad, ChangeEach(T, new, bad) PROVE DeferInv'
  BY <1>same, <1>4 DEF ChangeEach
<1>5. CASE UNCHANGED vars
  BY <1>same, <1>5 DEF vars
<1> QED
  BY <1>same, <1>1, <1>2, <1>3, <1>4, <1>5
  DEF Next, AppendTokens, EvictByPolicy, EvictSlots, ClearAll, CompressAll,
      DecompressAll, Offload, OffloadKeeping, Prefetch, PrefetchTokens,
      SetCapacity, Save, LoadCheckpoint, LoadRefused

\* However deferred blocks nest and end, in success or by an exception, the
\* caller's auto_enforce is back when the outermost one is left, and stays off
\* inside (KVCache.defer_enforcement).
THEOREM DeferAlwaysRestores == Spec => []DeferRestores
<1>1. Init => DeferInv
  BY PolicyAssumption DEF Init, DeferInv, DeferRestores
<1>2. DeferInv => DeferRestores
  BY DEF DeferInv
<1> QED BY <1>1, <1>2, DeferInvStep, PTL DEF Spec

(***************************************************************************)
(* What enforcement does to a store whose layers carry the configured      *)
(* number of sinks.                                                        *)
(***************************************************************************)

StoreOK(ls, c) ==
  /\ ls \in [Layers -> Layer]
  /\ \A i \in Layers : IsFiniteSet(ls[i].tokens) /\ ls[i].sinks = c.sinks

\* l after an eviction, or after a call that moves it between tiers.
Shrunk(l, m) ==
  /\ m \in Layer
  /\ m.tokens \subseteq l.tokens
  /\ m.next = l.next /\ m.sinks = l.sinks

LEMMA KeepInShrinks ==
  ASSUME NEW l \in Layer, NEW kept \in SUBSET l.tokens
  PROVE  Shrunk(l, KeepIn(l, kept)) /\ KeepIn(l, kept).tokens = kept
BY DEF Shrunk, KeepIn, Layer

\* Fewer tokens are never over a budget that more tokens were within.
LEMMA ShrunkWithin ==
  ASSUME NEW l, NEW m, NEW cap \in Nat, IsFiniteSet(l.tokens), Shrunk(l, m)
  PROVE  /\ IsFiniteSet(m.tokens)
         /\ ~Over(l, cap) => ~Over(m, cap)
<1>1. /\ IsFiniteSet(m.tokens)
      /\ Cardinality(m.tokens) <= Cardinality(l.tokens)
  BY FS_Subset DEF Shrunk
<1>2. Cardinality(m.tokens) \in Nat /\ Cardinality(l.tokens) \in Nat
  BY <1>1, FS_CardinalityType
<1> QED BY <1>1, <1>2 DEF Over, NumTokens

\* The sinks of a layer fit every budget of a valid configuration, so select
\* is never asked for the impossible.
LEMMA NeverRefused ==
  ASSUME NEW l \in Layer, NEW c \in Configs, NEW i \in Layers,
         l.sinks = c.sinks, c.cap[i] > 0
  PROVE  ~Refuses(l, c.cap[i])
<1>1. c.sinks \in Nat /\ c.cap \in [Layers -> Nat] /\ ValidConfig(c)
  BY CapacitiesAssumption, SinksAssumption DEF Configs
<1>2. c.sinks <= c.cap[i]
  BY <1>1 DEF ValidConfig, Unbounded
<1>3. Protected(l) \subseteq 0 .. c.sinks - 1
  BY <1>1 DEF Protected, Layer
<1>4. /\ IsFiniteSet(0 .. c.sinks - 1)
      /\ Cardinality(0 .. c.sinks - 1) = c.sinks
  <2>0. 0 \in Int /\ c.sinks - 1 \in Int
    BY <1>1
  <2>1. /\ IsFiniteSet(0 .. c.sinks - 1)
        /\ Cardinality(0 .. c.sinks - 1)
             = IF 0 > c.sinks - 1 THEN 0 ELSE c.sinks - 1 - 0 + 1
    BY <2>0, FS_Interval
  <2> QED BY <1>1, <2>1
<1>5. /\ IsFiniteSet(Protected(l))
      /\ Cardinality(Protected(l)) <= c.sinks
  BY <1>3, <1>4, FS_Subset
<1>6. Cardinality(Protected(l)) \in Nat
  BY <1>5, FS_CardinalityType
<1> QED BY <1>1, <1>2, <1>5, <1>6 DEF Refuses

\* Enforcing T brings every layer of T within its budget, leaves the others
\* alone, and drops no protected token.
LEMMA EnforceEffect ==
  ASSUME NEW ls, NEW c \in Configs, StoreOK(ls, c), NEW T \in SUBSET Layers,
         Enforce(ls, c, T)
  PROVE  /\ StoreOK(layers', c)
         /\ \A i \in Layers : Shrunk(ls[i], layers'[i])
         /\ \A i \in Layers : Protected(ls[i]) \subseteq layers'[i].tokens
         /\ \A i \in T : ~Over(layers'[i], c.cap[i])
         /\ \A i \in Layers \ T : layers'[i] = ls[i]
<1> DEFINE over == {i \in T : Over(ls[i], c.cap[i])}
           bad == {i \in over : Refuses(ls[i], c.cap[i])}
           done == Before(over, bad)
<1>1. c.cap \in [Layers -> Nat] /\ ls \in [Layers -> Layer]
  BY CapacitiesAssumption DEF Configs, StoreOK
<1>2. \A i \in over : c.cap[i] > 0
  BY DEF Over
<1>3. bad = {}
  BY <1>1, <1>2, NeverRefused DEF StoreOK
<1>4. done = over
  BY <1>3 DEF Before
<1>5. PICK kept \in [done -> UNION {Selections(ls[i], c.cap[i]) : i \in done}] :
        /\ \A i \in done : kept[i] \in Selections(ls[i], c.cap[i])
        /\ layers' = [i \in Layers |-> IF i \in done THEN KeepIn(ls[i], kept[i])
                                       ELSE ls[i]]
  BY DEF Enforce
<1> HIDE DEF over, bad, done
<1>6. ASSUME NEW i \in Layers, i \in done
      PROVE  /\ kept[i] \in SUBSET ls[i].tokens
             /\ Cardinality(kept[i]) = c.cap[i]
             /\ Protected(ls[i]) \subseteq kept[i]
             /\ layers'[i] = KeepIn(ls[i], kept[i])
  BY <1>5, <1>6 DEF Selections
<1>7. ASSUME NEW i \in Layers, i \in done
      PROVE  /\ Shrunk(ls[i], layers'[i])
             /\ layers'[i].tokens = kept[i]
  BY <1>1, <1>6, <1>7, KeepInShrinks
<1>8. ASSUME NEW i \in Layers, i \notin done PROVE layers'[i] = ls[i]
  BY <1>5, <1>8
<1>9. \A i \in Layers : Shrunk(ls[i], layers'[i])
  <2> TAKE i \in Layers
  <2>1. ls[i] \in Layer
    BY <1>1
  <2> QED BY <1>7, <1>8, <2>1 DEF Shrunk
<1>10. \A i \in Layers : Protected(ls[i]) \subseteq layers'[i].tokens
  <2> TAKE i \in Layers
  <2>1. CASE i \in done
    BY <1>6, <1>7, <2>1
  <2>2. CASE i \notin done
    BY <1>8, <2>2 DEF Protected
  <2> QED BY <2>1, <2>2
<1>11. \A i \in T : ~Over(layers'[i], c.cap[i])
  <2> TAKE i \in T
  <2>1. CASE i \in done
    <3>1. Cardinality(layers'[i].tokens) = c.cap[i] /\ c.cap[i] \in Nat
      BY <1>1, <1>6, <1>7, <2>1
    <3> QED BY <3>1 DEF Over, NumTokens
  <2>2. CASE i \notin done
    <3>1. ~Over(ls[i], c.cap[i])
      BY <1>4, <2>2 DEF over
    <3> QED BY <1>8, <2>2, <3>1
  <2> QED BY <2>1, <2>2
<1>12. \A i \in Layers \ T : layers'[i] = ls[i]
  BY <1>4, <1>8 DEF over
<1>13. StoreOK(layers', c)
  <2>1. layers' \in [Layers -> Layer]
    <3>1. \A i \in Layers : layers'[i] \in Layer
      BY <1>9 DEF Shrunk
    <3>2. layers' = [i \in Layers |-> layers'[i]]
      BY <1>5
    <3> QED BY <3>1, <3>2
  <2>2. \A i \in Layers : IsFiniteSet(layers'[i].tokens)
    BY <1>1, <1>9, FS_Subset DEF Shrunk, StoreOK
  <2>3. \A i \in Layers : layers'[i].sinks = c.sinks
    BY <1>9 DEF Shrunk, StoreOK
  <2> QED BY <2>1, <2>2, <2>3 DEF StoreOK
<1> QED BY <1>9, <1>10, <1>11, <1>12, <1>13

(***************************************************************************)
(* The budget.                                                             *)
(***************************************************************************)

\* The calls after which a layer may be left over its budget, or with a number
\* of sinks its configuration did not give it.
Unsafe == {"load", "reopen", "raise"}

BudgetInv ==
  /\ DeferInv
  /\ config \in Configs
  /\ StoreOK(layers, config)
  /\ WithinBudget

LEMMA TargetsAreLayers == \A T \in Targets : T \in SUBSET Layers
BY DEF Targets

\* A call that changes layers one by one without touching their tokens.
SameTokens(l, m) ==
  m \in Layer /\ m.tokens = l.tokens /\ m.next = l.next /\ m.sinks = l.sinks

LEMMA ChangeEachEffect ==
  ASSUME layers \in [Layers -> Layer], NEW T \in SUBSET Layers, NEW new,
         NEW bad \in SUBSET Layers,
         \A i \in Layers \ bad : SameTokens(layers[i], new[i]),
         ChangeEach(T, new, bad)
  PROVE  /\ layers' \in [Layers -> Layer]
         /\ \A i \in Layers : SameTokens(layers[i], layers'[i])
         /\ UNCHANGED <<config, autoEnforce, deferred, ckpt>>
<1>1. /\ layers' = [i \in Layers |-> IF i \in Before(T, bad) THEN new[i]
                                     ELSE layers[i]]
      /\ UNCHANGED <<config, autoEnforce, deferred, ckpt>>
  BY DEF ChangeEach
<1>2. \A i \in Before(T, bad) : i \in Layers \ bad
  BY DEF Before, Layers
<1>3. \A i \in Layers : SameTokens(layers[i], layers'[i])
  BY <1>1, <1>2 DEF SameTokens
<1>4. \A i \in Layers : layers'[i] \in Layer
  BY <1>3 DEF SameTokens
<1> QED BY <1>1, <1>3, <1>4

\* The representation and tier calls keep every token.
LEMMA TiersKeepTokens ==
  ASSUME StoreOK(layers, config), NEW T \in Targets, NEW n \in Nat,
         \/ CompressAll(T) \/ DecompressAll(T) \/ Offload(T)
         \/ OffloadKeeping(T, n) \/ Prefetch(T) \/ PrefetchTokens(T, n)
  PROVE  /\ layers' \in [Layers -> Layer]
         /\ \A i \in Layers : SameTokens(layers[i], layers'[i])
         /\ UNCHANGED <<config, autoEnforce, deferred, ckpt>>
<1>1. layers \in [Layers -> Layer] /\ T \in SUBSET Layers
  BY TargetsAreLayers DEF StoreOK
<1>2. \A i \in Layers : layers[i] \in Layer /\ NumTokens(layers[i]) \in Nat
  BY <1>1, FS_CardinalityType DEF StoreOK, NumTokens
<1>3. CASE CompressAll(T)
  <2> DEFINE new == [i \in Layers |->
        IF layers[i].tokens = {} THEN layers[i]
        ELSE [layers[i] EXCEPT !.quant = TRUE, !.hosted = 0]]
  <2>1. ChangeEach(T, new, {})
    BY <1>3 DEF CompressAll
  <2>2. \A i \in Layers \ {} : SameTokens(layers[i], new[i])
    BY <1>2 DEF SameTokens, Layer
  <2> HIDE DEF new
  <2> QED BY <1>1, <2>1, <2>2, ChangeEachEffect
<1>4. CASE DecompressAll(T)
  <2> DEFINE new == [i \in Layers |-> [layers[i] EXCEPT !.quant = FALSE]]
  <2>1. ChangeEach(T, new, {})
    BY <1>4 DEF DecompressAll
  <2>2. \A i \in Layers \ {} : SameTokens(layers[i], new[i])
    BY <1>2 DEF SameTokens, Layer
  <2> HIDE DEF new
  <2> QED BY <1>1, <2>1, <2>2, ChangeEachEffect
<1>5. CASE Offload(T)
  <2> DEFINE new == [i \in Layers |->
        IF layers[i].tokens = {} THEN layers[i]
        ELSE [layers[i] EXCEPT !.away = TRUE, !.hosted = 0]]
  <2>1. ChangeEach(T, new, {})
    BY <1>5 DEF Offload
  <2>2. \A i \in Layers \ {} : SameTokens(layers[i], new[i])
    BY <1>2 DEF SameTokens, Layer
  <2> HIDE DEF new
  <2> QED BY <1>1, <2>1, <2>2, ChangeEachEffect
<1>6. CASE OffloadKeeping(T, n)
  <2> DEFINE new == [i \in Layers |->
        IF layers[i].tokens = {} THEN layers[i]
        ELSE IF n = 0 THEN [layers[i] EXCEPT !.away = TRUE, !.hosted = 0]
        ELSE IF n = NumTokens(layers[i]) THEN [layers[i] EXCEPT !.away = FALSE]
        ELSE [layers[i] EXCEPT !.away = FALSE,
                               !.hosted = NumTokens(layers[i]) - n]]
             bad == {i \in T : layers[i].quant \/ n > NumTokens(layers[i])}
  <2>1. ChangeEach(T, new, bad)
    BY <1>6 DEF OffloadKeeping
  <2>2. ASSUME NEW i \in T, i \notin bad PROVE SameTokens(layers[i], new[i])
    <3>1. layers[i] \in Layer /\ NumTokens(layers[i]) \in Nat /\ i \in Layers
      BY <1>1, <1>2
    <3>2. NumTokens(layers[i]) - n \in Nat
      BY <2>2, <3>1
    <3> QED BY <3>1, <3>2 DEF SameTokens, Layer
  <2>3. bad \in SUBSET Layers
    BY <1>1
  <2>4. layers' = [i \in Layers |-> IF i \in Before(T, bad) THEN new[i]
                                    ELSE layers[i]]
    BY <2>1 DEF ChangeEach
  <2>5. UNCHANGED <<config, autoEnforce, deferred, ckpt>>
    BY <2>1 DEF ChangeEach
  <2>6. \A i \in Before(T, bad) : i \in T /\ i \notin bad
    BY <1>1 DEF Before, Layers
  <2> HIDE DEF new, bad
  <2>7. \A i \in Layers : SameTokens(layers[i], layers'[i])
    BY <1>2, <2>2, <2>4, <2>6 DEF SameTokens
  <2>8. \A i \in Layers : layers'[i] \in Layer
    BY <2>7 DEF SameTokens
  <2> QED BY <2>4, <2>5, <2>7, <2>8
<1>7. CASE Prefetch(T)
  <2> DEFINE new == [i \in Layers |->
        [layers[i] EXCEPT !.away = FALSE, !.hosted = 0]]
  <2>1. ChangeEach(T, new, {})
    BY <1>7 DEF Prefetch
  <2>2. \A i \in Layers \ {} : SameTokens(layers[i], new[i])
    BY <1>2 DEF SameTokens, Layer
  <2> HIDE DEF new
  <2> QED BY <1>1, <2>1, <2>2, ChangeEachEffect
<1>8. CASE PrefetchTokens(T, n)
  <2> DEFINE new == [i \in Layers |->
        [layers[i] EXCEPT !.hosted = IF @ > n THEN @ - n ELSE 0]]
  <2>1. ChangeEach(T, new, {})
    BY <1>8 DEF PrefetchTokens
  <2>2. \A i \in Layers \ {} : SameTokens(layers[i], new[i])
    BY <1>2 DEF SameTokens, Layer
  <2> HIDE DEF new
  <2> QED BY <1>1, <2>1, <2>2, ChangeEachEffect
<1> QED BY <1>3, <1>4, <1>5, <1>6, <1>7, <1>8

LEMMA AppendToLayer ==
  ASSUME NEW l \in Layer, IsFiniteSet(l.tokens), NEW start \in Nat, NEW n \in Nat
  PROVE  /\ AppendTo(l, start, n) \in Layer
         /\ IsFiniteSet(AppendTo(l, start, n).tokens)
         /\ AppendTo(l, start, n).sinks = l.sinks
         /\ AppendTo(l, start, n).next = start + n
         /\ AppendTo(l, start, n).tokens = l.tokens \cup (start .. start + n - 1)
<1>1. start \in Int /\ start + n - 1 \in Int
  OBVIOUS
<1>2. IsFiniteSet(start .. start + n - 1)
  BY <1>1, FS_Interval
<1>3. IsFiniteSet(l.tokens \cup (start .. start + n - 1))
  BY <1>2, FS_Union
<1>4. l.tokens \cup (start .. start + n - 1) \in SUBSET Nat
  BY DEF Layer
<1> DEFINE both == l.tokens \cup (start .. start + n - 1)
           m == AppendTo(l, start, n)
<1>5. m = [l EXCEPT !.tokens = both, !.next = start + n, !.quant = FALSE,
                    !.away = FALSE, !.hosted = 0]
  BY DEF AppendTo
<1>6. both \in SUBSET Nat /\ start + n \in Nat
  BY <1>4
<1> HIDE DEF both, m
<1>7. /\ m \in Layer /\ m.sinks = l.sinks
      /\ m.next = start + n /\ m.tokens = both
  BY <1>5, <1>6 DEF Layer
<1> QED BY <1>3, <1>7 DEF both, m

\* The store between the append and the enforcement that follows it.
LEMMA AppendedStore ==
  ASSUME NEW c, StoreOK(layers, c), NEW i \in Layers,
         NEW start \in Nat, NEW n \in Nat
  PROVE  LET ls == [layers EXCEPT ![i] = AppendTo(@, start, n)] IN
         /\ StoreOK(ls, c)
         /\ ls[i] = AppendTo(layers[i], start, n)
         /\ \A j \in Layers : j # i => ls[j] = layers[j]
<1> DEFINE ls == [layers EXCEPT ![i] = AppendTo(@, start, n)]
<1>1. layers \in [Layers -> Layer] /\ layers[i] \in Layer
      /\ IsFiniteSet(layers[i].tokens) /\ layers[i].sinks = c.sinks
  BY DEF StoreOK
<1>2. /\ ls[i] = AppendTo(layers[i], start, n)
      /\ \A j \in Layers : j # i => ls[j] = layers[j]
  BY <1>1
<1>3. /\ ls[i] \in Layer /\ IsFiniteSet(ls[i].tokens)
      /\ ls[i].sinks = c.sinks
  BY <1>1, <1>2, AppendToLayer
<1>4. ls \in [Layers -> Layer]
  BY <1>1, <1>2, <1>3
<1> HIDE DEF ls
<1>5. \A j \in Layers : IsFiniteSet(ls[j].tokens) /\ ls[j].sinks = c.sinks
  BY <1>2, <1>3 DEF StoreOK
<1> QED BY <1>2, <1>4, <1>5 DEF StoreOK, ls

\* A step that only shrinks layers keeps the store well-formed and every
\* budget that held.
LEMMA ShrunkStore ==
  ASSUME config \in Configs, StoreOK(layers, config),
         layers' \in [Layers -> Layer],
         \A i \in Layers : Shrunk(layers[i], layers'[i])
  PROVE  /\ StoreOK(layers', config)
         /\ \A i \in Layers : ~Over(layers[i], config.cap[i])
                                => ~Over(layers'[i], config.cap[i])
<1>1. \A i \in Layers : config.cap[i] \in Nat
  BY CapacitiesAssumption DEF Configs
<1>2. \A i \in Layers : /\ IsFiniteSet(layers'[i].tokens)
                        /\ layers'[i].sinks = config.sinks
                        /\ ~Over(layers[i], config.cap[i])
                             => ~Over(layers'[i], config.cap[i])
  <2> TAKE i \in Layers
  <2>1. Shrunk(layers[i], layers'[i]) /\ IsFiniteSet(layers[i].tokens)
        /\ config.cap[i] \in Nat /\ layers[i].sinks = config.sinks
    BY <1>1 DEF StoreOK
  <2>2. layers'[i].sinks = config.sinks
    BY <2>1 DEF Shrunk
  <2> QED BY <2>1, <2>2, ShrunkWithin
<1> QED BY <1>2 DEF StoreOK

\* What an explicit eviction does, however far it got.
LEMMA EvictSlotsEffect ==
  ASSUME NEW T \in Targets, NEW slots, NEW drop \in BOOLEAN,
         StoreOK(layers, config), EvictSlots(T, slots, drop)
  PROVE  /\ layers' \in [Layers -> Layer]
         /\ \A i \in Layers : Shrunk(layers[i], layers'[i])
         /\ UNCHANGED <<config, autoEnforce, deferred, ckpt>>
<1> DEFINE held == {i \in T : layers[i].tokens # {}}
           bad == {i \in held : \E s \in slots : s > NumTokens(layers[i])}
           done == Before(held, bad)
           kept == [i \in done |-> {p \in layers[i].tokens :
                                      (Slot(layers[i], p) \in slots) # drop}]
           collapsed == {i \in bad : ~drop /\ \A j \in bad : i <= j}
<1>1. /\ layers' = [i \in Layers |->
                      IF i \in done THEN KeepIn(layers[i], kept[i])
                      ELSE IF i \in collapsed
                           THEN [layers[i] EXCEPT !.hosted = 0]
                      ELSE layers[i]]
      /\ UNCHANGED <<config, autoEnforce, deferred, ckpt>>
  BY DEF EvictSlots
<1>2. \A i \in done : kept[i] \in SUBSET layers[i].tokens
  OBVIOUS
<1> HIDE DEF kept, done, collapsed
<1>3. ASSUME NEW i \in Layers PROVE Shrunk(layers[i], layers'[i])
  <2>1. layers[i] \in Layer
    BY DEF StoreOK
  <2>2. CASE i \in done
    BY <1>1, <1>2, <2>1, <2>2, KeepInShrinks
  <2>3. CASE i \notin done
    <3>1. \/ layers'[i] = layers[i]
          \/ layers'[i] = [layers[i] EXCEPT !.hosted = 0]
      BY <1>1, <2>3
    <3> QED BY <2>1, <3>1 DEF Shrunk, Layer
  <2> QED BY <2>2, <2>3
<1>4. \A i \in Layers : layers'[i] \in Layer
  BY <1>3 DEF Shrunk
<1> QED BY <1>1, <1>3, <1>4

\* clear() leaves empty layers with the number of sinks they had.
LEMMA ClearedStore ==
  ASSUME NEW c, c \in Configs, StoreOK(layers, c), ClearAll
  PROVE  /\ StoreOK(layers', c)
         /\ \A i \in Layers : layers'[i].tokens = {} /\ layers'[i].next = 0
         /\ \A i \in Layers : ~Over(layers'[i], c.cap[i])
<1>1. c.cap \in [Layers -> Nat] /\ c.sinks \in Nat
  BY CapacitiesAssumption, SinksAssumption DEF Configs
<1>2. layers' = [i \in Layers |->
                   [NewLayer(config) EXCEPT !.sinks = layers[i].sinks]]
  BY DEF ClearAll
<1>3. ASSUME NEW i \in Layers
      PROVE  /\ layers'[i] \in Layer /\ layers'[i].sinks = c.sinks
             /\ layers'[i].tokens = {} /\ layers'[i].next = 0
  BY <1>1, <1>2 DEF NewLayer, StoreOK, Layer
<1>4. IsFiniteSet({}) /\ Cardinality({}) = 0
  BY FS_EmptySet
<1>5. layers' \in [Layers -> Layer]
  BY <1>2, <1>3
<1>6. \A i \in Layers : IsFiniteSet(layers'[i].tokens)
  BY <1>3, <1>4
<1>7. \A i \in Layers : ~Over(layers'[i], c.cap[i])
  <2> TAKE i \in Layers
  <2>1. c.cap[i] \in Nat
    BY <1>1
  <2>2. NumTokens(layers'[i]) = 0
    BY <1>3, <1>4 DEF NumTokens
  <2> QED BY <2>1, <2>2 DEF Over
<1> QED BY <1>3, <1>5, <1>6, <1>7 DEF StoreOK

\* Enforcement under a configuration that is the next one, for any layers T:
\* the budget holds afterwards if the layers outside T were within it.
LEMMA EnforceWithin ==
  ASSUME NEW ls, config' \in Configs, StoreOK(ls, config'),
         NEW T \in SUBSET Layers, Enforce(ls, config', T),
         AutoEnforce /\ deferred' = <<>> =>
           \A i \in Layers \ T : ~Over(ls[i], config'.cap[i])
  PROVE  StoreOK(layers', config') /\ WithinBudget'
<1>1. /\ StoreOK(layers', config')
      /\ \A i \in T : ~Over(layers'[i], config'.cap[i])
      /\ \A i \in Layers \ T : layers'[i] = ls[i]
  BY EnforceEffect
<1> QED BY <1>1 DEF WithinBudget

LEMMA BudgetStep ==
  ASSUME Calls \cap Unsafe = {}, BudgetInv, [Next]_vars
  PROVE  BudgetInv'
<1>1. DeferInv'
  BY DeferInvStep DEF BudgetInv
<1>2. /\ DeferInv /\ config \in Configs /\ StoreOK(layers, config)
      /\ WithinBudget /\ layers \in [Layers -> Layer]
  BY DEF BudgetInv, StoreOK
<1>3. ~("load" \in Calls) /\ ~("reopen" \in Calls) /\ ~("raise" \in Calls)
  BY DEF Unsafe
<1>4. deferred = <<>> => autoEnforce = AutoEnforce
  BY <1>2 DEF DeferInv, DeferRestores
<1>shrink. ASSUME layers' \in [Layers -> Layer],
                  \A i \in Layers : Shrunk(layers[i], layers'[i]),
                  UNCHANGED <<config, deferred>>
           PROVE  BudgetInv'
  <2>1. StoreOK(layers', config)
        /\ \A i \in Layers : ~Over(layers[i], config.cap[i])
                               => ~Over(layers'[i], config.cap[i])
    BY <1>2, <1>shrink, ShrunkStore
  <2> QED BY <1>1, <1>2, <1>shrink, <2>1 DEF BudgetInv, WithinBudget
<1>same. ASSUME UNCHANGED <<layers, config, deferred>> PROVE BudgetInv'
  BY <1>1, <1>2, <1>same DEF BudgetInv, WithinBudget
<1>5. ASSUME NEW i \in Layers, NEW start \in 0 .. MaxPosition,
             NEW n \in 1 .. MaxPosition, AppendTokens(i, start, n)
      PROVE  BudgetInv'
  <2> DEFINE ls == [layers EXCEPT ![i] = AppendTo(@, start, n)]
  <2>1. start \in Nat /\ n \in Nat
    BY BoundsAssumption
  <2>2. /\ IF autoEnforce THEN Enforce(ls, config, {i}) ELSE Settle(ls)
        /\ UNCHANGED <<config, autoEnforce, deferred, ckpt>>
    BY <1>5 DEF AppendTokens
  <2>3. StoreOK(ls, config) /\ \A j \in Layers : j # i => ls[j] = layers[j]
    BY <1>2, <2>1, AppendedStore
  <2> HIDE DEF ls
  <2>4. CASE autoEnforce
    <3>1. AutoEnforce /\ deferred' = <<>> =>
            \A j \in Layers \ {i} : ~Over(ls[j], config'.cap[j])
      BY <1>2, <2>2, <2>3 DEF WithinBudget
    <3>2. Enforce(ls, config', {i}) /\ config' \in Configs
          /\ StoreOK(ls, config')
      BY <1>2, <2>2, <2>3, <2>4
    <3>3. StoreOK(layers', config') /\ WithinBudget'
      BY <3>1, <3>2, EnforceWithin
    <3> QED BY <1>1, <3>2, <3>3 DEF BudgetInv
  <2>5. CASE ~autoEnforce
    <3>1. layers' = ls
      BY <2>2, <2>5 DEF Settle
    <3>2. ~(AutoEnforce /\ deferred' = <<>>)
      BY <1>4, <2>2, <2>5
    <3> QED BY <1>1, <1>2, <2>2, <2>3, <3>1, <3>2 DEF BudgetInv, WithinBudget
  <2> QED BY <2>4, <2>5
<1>6. ASSUME NEW T \in Targets, EvictByPolicy(T) PROVE BudgetInv'
  <2>1. /\ T \in SUBSET Layers /\ Enforce(layers, config, T)
        /\ UNCHANGED <<config, autoEnforce, deferred, ckpt>>
    BY <1>6, TargetsAreLayers DEF EvictByPolicy
  <2>2. AutoEnforce /\ deferred' = <<>> =>
          \A j \in Layers \ T : ~Over(layers[j], config'.cap[j])
    BY <1>2, <2>1 DEF WithinBudget
  <2>3. Enforce(layers, config', T) /\ config' \in Configs
        /\ StoreOK(layers, config')
    BY <1>2, <2>1
  <2>4. StoreOK(layers', config') /\ WithinBudget'
    BY <2>1, <2>2, <2>3, EnforceWithin
  <2> QED BY <1>1, <2>3, <2>4 DEF BudgetInv
<1>7. ASSUME NEW T \in Targets, NEW slots, NEW drop \in BOOLEAN,
             EvictSlots(T, slots, drop)
      PROVE  BudgetInv'
  BY <1>2, <1>7, <1>shrink, EvictSlotsEffect
<1>8. CASE ClearAll
  <2>1. config' = config
    BY <1>8 DEF ClearAll
  <2> QED BY <1>1, <1>2, <1>8, <2>1, ClearedStore DEF BudgetInv, WithinBudget
<1>9. ASSUME NEW T \in Targets, NEW n \in Nat,
             \/ CompressAll(T) \/ DecompressAll(T) \/ Offload(T)
             \/ OffloadKeeping(T, n) \/ Prefetch(T) \/ PrefetchTokens(T, n)
      PROVE  BudgetInv'
  <2>1. /\ layers' \in [Layers -> Layer]
        /\ \A i \in Layers : SameTokens(layers[i], layers'[i])
        /\ UNCHANGED <<config, autoEnforce, deferred, ckpt>>
    BY <1>2, <1>9, TiersKeepTokens
  <2>2. \A i \in Layers : Shrunk(layers[i], layers'[i])
    BY <2>1 DEF SameTokens, Shrunk
  <2> QED BY <1>shrink, <2>1, <2>2
<1>10. ASSUME NEW cap \in Capacities, SetCapacity(cap) PROVE BudgetInv'
  <2> DEFINE c == [config EXCEPT !.cap = cap]
  <2>1. CASE ValidConfig(c)
    <3>1. /\ config' = c /\ UNCHANGED deferred
          /\ IF autoEnforce THEN Enforce(layers, c, Layers) ELSE Settle(layers)
      BY <1>10, <2>1 DEF SetCapacity
    <3>2. c \in Configs /\ c.sinks = config.sinks
      BY <1>2, <2>1 DEF Configs
    <3>3. StoreOK(layers, config')
      BY <1>2, <3>1, <3>2 DEF StoreOK
    <3> HIDE DEF c
    <3>4. CASE autoEnforce
      BY <1>1, <3>1, <3>2, <3>3, <3>4, EnforceWithin DEF BudgetInv
    <3>5. CASE ~autoEnforce
      <4>1. layers' = layers
        BY <3>1, <3>5 DEF Settle
      <4>2. ~(AutoEnforce /\ deferred' = <<>>)
        BY <1>4, <3>1, <3>5
      <4> QED BY <1>1, <3>1, <3>2, <3>3, <4>1, <4>2 DEF BudgetInv, WithinBudget
    <3> QED BY <3>4, <3>5
  <2>2. CASE ~ValidConfig(c)
    <3>1. UNCHANGED <<layers, config, deferred>>
      BY <1>10, <2>2 DEF SetCapacity
    <3> QED BY <1>same, <3>1
  <2> QED BY <2>1, <2>2
<1>11. CASE EnterDefer
  <2>1. deferred' # <<>> /\ UNCHANGED <<layers, config>>
    BY <1>2, <1>11, Pushed DEF EnterDefer, DeferInv
  <2> QED BY <1>1, <1>2, <2>1 DEF BudgetInv, WithinBudget
<1>12. ASSUME NEW succeeded \in BOOLEAN, ExitDefer(succeeded) PROVE BudgetInv'
  <2>1. /\ deferred # <<>> /\ succeeded
        /\ deferred' = SubSeq(deferred, 1, Len(deferred) - 1)
        /\ config' = config
    BY <1>3, <1>12 DEF ExitDefer
  <2>2. CASE Len(deferred) = 1 /\ autoEnforce'
    <3>1. Enforce(layers, config', Layers) /\ config' \in Configs
          /\ StoreOK(layers, config')
      BY <1>2, <1>12, <2>1, <2>2 DEF ExitDefer
    <3> QED BY <1>1, <3>1, EnforceWithin DEF BudgetInv
  <2>3. CASE ~(Len(deferred) = 1 /\ autoEnforce')
    <3>1. layers' = layers
      BY <1>12, <2>3 DEF ExitDefer, Settle
    <3>2. Len(deferred') = Len(deferred) - 1
      BY <1>2, <2>1, Popped DEF DeferInv
    <3>3. Len(deferred) \in Nat
      BY <1>2 DEF DeferInv
    <3>4. deferred' = <<>> => Len(deferred) = 1
      BY <3>2, <3>3
    <3>5. deferred' = <<>> => (autoEnforce' <=> AutoEnforce)
      BY <1>1 DEF DeferInv, DeferRestores
    <3>6. ~(AutoEnforce /\ deferred' = <<>>)
      BY <2>3, <3>4, <3>5
    <3> QED BY <1>1, <1>2, <2>1, <3>1, <3>6 DEF BudgetInv, WithinBudget
  <2> QED BY <2>2, <2>3
<1>13. CASE Save
  BY <1>13, <1>same DEF Save
<1>14. ~LoadCheckpoint /\ ~LoadRefused /\ \A c \in Configs : ~Reopen(c)
  BY <1>3 DEF LoadCheckpoint, LoadRefused, Reopen
<1>15. CASE UNCHANGED vars
  BY <1>15, <1>same DEF vars
<1>16. 0 .. MaxPosition \subseteq Nat /\ 1 .. MaxPosition \subseteq Nat
  BY BoundsAssumption
<1> QED
  BY <1>5, <1>6, <1>7, <1>8, <1>9, <1>10, <1>11, <1>12, <1>13, <1>14, <1>15,
     <1>16 DEF Next

LEMMA BudgetInvariant ==
  ASSUME Calls \cap Unsafe = {}
  PROVE  Spec => []BudgetInv
<1>1. Init => BudgetInv
  <2> SUFFICES ASSUME Init PROVE BudgetInv
    OBVIOUS
  <2>1. config \in Configs /\ layers = [i \in Layers |-> NewLayer(config)]
    BY DEF Init
  <2>2. config.cap \in [Layers -> Nat] /\ config.sinks \in Nat
    BY <2>1, CapacitiesAssumption, SinksAssumption DEF Configs
  <2>3. IsFiniteSet({}) /\ Cardinality({}) = 0
    BY FS_EmptySet
  <2>4. NewLayer(config) \in Layer /\ NewLayer(config).tokens = {}
        /\ NewLayer(config).sinks = config.sinks
    BY <2>2 DEF NewLayer, Layer
  <2>5. StoreOK(layers, config)
    BY <2>1, <2>3, <2>4 DEF StoreOK
  <2>6. WithinBudget
    <3>1. ASSUME NEW i \in Layers PROVE ~Over(layers[i], config.cap[i])
      <4>1. NumTokens(layers[i]) = 0 /\ config.cap[i] \in Nat
        BY <2>1, <2>2, <2>3, <2>4 DEF NumTokens
      <4> QED BY <4>1 DEF Over
    <3> QED BY <3>1 DEF WithinBudget
  <2>7. DeferInv
    BY PolicyAssumption DEF Init, DeferInv, DeferRestores
  <2> QED BY <2>1, <2>5, <2>6, <2>7 DEF BudgetInv
<1>2. BudgetInv /\ [Next]_vars => BudgetInv'
  BY BudgetStep
<1> QED BY <1>1, <1>2, PTL DEF Spec

\* Without a load and without a deferred body that raises, no layer is over
\* its budget outside a deferred block: after appends, explicit evictions that
\* may raise half-way, tier moves, a changed capacity, nested blocks.
THEOREM LayersStayWithinBudget ==
  ASSUME Calls \cap Unsafe = {}
  PROVE  Spec => []WithinBudget
<1>1. BudgetInv => WithinBudget
  BY DEF BudgetInv
<1> QED BY <1>1, BudgetInvariant, PTL

\* Under the same calls select is never asked to keep more sinks than the
\* budget has room for, so append and set_capacity never raise PolicyError.
THEOREM EnforcementIsAlwaysPossible ==
  ASSUME Calls \cap Unsafe = {}
  PROVE  Spec => []EnforcementNeverRefuses
<1>1. BudgetInv => EnforcementNeverRefuses
  BY NeverRefused DEF BudgetInv, StoreOK, EnforcementNeverRefuses
<1> QED BY <1>1, BudgetInvariant, PTL

(***************************************************************************)
(* The sinks.                                                              *)
(***************************************************************************)

\* As long as no cache is reopened under another configuration, cached and
\* checkpointed layers carry the configured number of sinks.
StoreInv ==
  /\ config \in Configs
  /\ StoreOK(layers, config)
  /\ ckpt # <<>> => StoreOK(ckpt[1].layers, config)

\* Of the positions handed out, the first k are still cached.
Leading(l, k) == {p \in 0 .. l.next - 1 : p < k} \subseteq l.tokens

SinkInv ==
  /\ StoreInv
  /\ \A i \in Layers : Leading(layers[i], config.sinks)
  /\ ckpt # <<>> => \A i \in Layers : Leading(ckpt[1].layers[i], config.sinks)

LEMMA EnforceKeepsLeading ==
  ASSUME NEW ls, NEW c \in Configs, StoreOK(ls, c), NEW T \in SUBSET Layers,
         Enforce(ls, c, T)
  PROVE  /\ StoreOK(layers', c)
         /\ (\A i \in Layers : Leading(ls[i], c.sinks))
              => \A i \in Layers : Leading(layers'[i], c.sinks)
<1>1. /\ StoreOK(layers', c)
      /\ \A i \in Layers : Shrunk(ls[i], layers'[i])
      /\ \A i \in Layers : Protected(ls[i]) \subseteq layers'[i].tokens
  BY EnforceEffect
<1>2. ASSUME NEW i \in Layers, Leading(ls[i], c.sinks)
      PROVE  Leading(layers'[i], c.sinks)
  <2>1. ls[i].sinks = c.sinks /\ layers'[i].next = ls[i].next
    BY <1>1 DEF StoreOK, Shrunk
  <2> QED BY <1>1, <1>2, <2>1 DEF Leading, Protected
<1> QED BY <1>1, <1>2

LEMMA AppendKeepsLeading ==
  ASSUME NEW l \in Layer, NEW m, NEW n \in Nat, NEW k \in Nat, Leading(l, k),
         m.next = l.next + n,
         m.tokens = l.tokens \cup (l.next .. l.next + n - 1)
  PROVE  Leading(m, k)
<1>1. l.next \in Nat
  BY DEF Layer
<1> QED BY <1>1 DEF Leading

LEMMA SinkStep ==
  ASSUME Calls \cap {"evict", "skip", "reopen"} = {}, SinkInv, [Next]_vars
  PROVE  SinkInv'
<1>1. /\ config \in Configs /\ StoreOK(layers, config)
      /\ layers \in [Layers -> Layer] /\ config.sinks \in Nat
      /\ \A i \in Layers : Leading(layers[i], config.sinks)
  BY SinksAssumption DEF SinkInv, StoreInv, StoreOK, Configs
<1>2. ~("evict" \in Calls) /\ ~("skip" \in Calls) /\ ~("reopen" \in Calls)
  OBVIOUS
<1>keep. ASSUME config' \in Configs, config'.sinks = config.sinks,
                StoreOK(layers', config'), UNCHANGED ckpt,
                \A i \in Layers : Leading(layers'[i], config'.sinks)
         PROVE  SinkInv'
  BY <1>keep DEF SinkInv, StoreInv, StoreOK
<1>same. ASSUME UNCHANGED <<layers, config, ckpt>> PROVE SinkInv'
  BY <1>same DEF SinkInv, StoreInv, StoreOK
<1>enforce. ASSUME NEW ls, NEW c \in Configs, StoreOK(ls, c),
                   NEW T \in SUBSET Layers,
                   Enforce(ls, c, T) \/ Settle(ls),
                   \A i \in Layers : Leading(ls[i], c.sinks),
                   config' = c, c.sinks = config.sinks, UNCHANGED ckpt
            PROVE  SinkInv'
  <2>1. CASE Enforce(ls, c, T)
    BY <1>enforce, <1>keep, <2>1, EnforceKeepsLeading
  <2>2. CASE Settle(ls)
    BY <1>enforce, <1>keep, <2>2 DEF Settle
  <2> QED BY <1>enforce, <2>1, <2>2
<1>5. ASSUME NEW i \in Layers, NEW start \in 0 .. MaxPosition,
             NEW n \in 1 .. MaxPosition, AppendTokens(i, start, n)
      PROVE  SinkInv'
  <2> DEFINE ls == [layers EXCEPT ![i] = AppendTo(@, start, n)]
  <2>1. start \in Nat /\ n \in Nat /\ {i} \in SUBSET Layers
    BY BoundsAssumption
  <2>2. /\ Enforce(ls, config, {i}) \/ Settle(ls)
        /\ UNCHANGED <<config, autoEnforce, deferred, ckpt>>
        /\ start = layers[i].next
    BY <1>2, <1>5 DEF AppendTokens
  <2>3. StoreOK(ls, config) /\ ls[i] = AppendTo(layers[i], start, n)
        /\ \A j \in Layers : j # i => ls[j] = layers[j]
    BY <1>1, <2>1, AppendedStore
  <2> HIDE DEF ls
  <2>4. layers[i] \in Layer /\ IsFiniteSet(layers[i].tokens)
    BY <1>1 DEF StoreOK
  <2>5. Leading(ls[i], config.sinks)
    <3> DEFINE l == layers[i]
    <3>0. l \in Layer /\ IsFiniteSet(l.tokens) /\ n \in Nat
      BY <2>1, <2>4
    <3> HIDE DEF l
    <3>2. /\ AppendTo(l, start, n).next = start + n
          /\ AppendTo(l, start, n).tokens = l.tokens \cup (start .. start + n - 1)
      BY <2>1, <3>0, AppendToLayer, ZenonT(60)
    <3>1. /\ ls[i].next = start + n
          /\ ls[i].tokens = layers[i].tokens \cup (start .. start + n - 1)
      BY <2>3, <3>2 DEF l
    <3> QED BY <1>1, <2>1, <2>2, <2>4, <3>1, AppendKeepsLeading
  <2>6. \A j \in Layers : Leading(ls[j], config.sinks)
    BY <1>1, <2>3, <2>5
  <2> QED BY <1>1, <1>enforce, <2>1, <2>2, <2>3, <2>6
<1>6. ASSUME NEW T \in Targets, EvictByPolicy(T) PROVE SinkInv'
  <2>1. /\ T \in SUBSET Layers /\ Enforce(layers, config, T)
        /\ UNCHANGED <<config, autoEnforce, deferred, ckpt>>
    BY <1>6, TargetsAreLayers DEF EvictByPolicy
  <2> QED BY <1>1, <1>enforce, <2>1
<1>7. ASSUME NEW T, NEW slots, NEW drop, EvictSlots(T, slots, drop)
      PROVE  FALSE
  BY <1>2, <1>7 DEF EvictSlots
<1>8. CASE ClearAll
  <2>1. UNCHANGED <<config, ckpt>>
    BY <1>8 DEF ClearAll
  <2>2. StoreOK(layers', config) /\ \A i \in Layers : layers'[i].next = 0
    BY <1>1, <1>8, ClearedStore
  <2>3. \A i \in Layers : Leading(layers'[i], config.sinks)
    BY <2>2 DEF Leading
  <2> QED BY <1>1, <1>keep, <2>1, <2>2, <2>3
<1>9. ASSUME NEW T \in Targets, NEW n \in Nat,
             \/ CompressAll(T) \/ DecompressAll(T) \/ Offload(T)
             \/ OffloadKeeping(T, n) \/ Prefetch(T) \/ PrefetchTokens(T, n)
      PROVE  SinkInv'
  <2>1. /\ layers' \in [Layers -> Layer]
        /\ \A i \in Layers : SameTokens(layers[i], layers'[i])
        /\ UNCHANGED <<config, autoEnforce, deferred, ckpt>>
    BY <1>1, <1>9, TiersKeepTokens
  <2>2. StoreOK(layers', config)
    BY <1>1, <2>1 DEF SameTokens, StoreOK
  <2>3. \A i \in Layers : Leading(layers'[i], config.sinks)
    BY <1>1, <2>1 DEF SameTokens, Leading
  <2> QED BY <1>1, <1>keep, <2>1, <2>2, <2>3
<1>10. ASSUME NEW cap \in Capacities, SetCapacity(cap) PROVE SinkInv'
  <2> DEFINE c == [config EXCEPT !.cap = cap]
  <2>1. CASE ValidConfig(c)
    <3>1. /\ config' = c /\ UNCHANGED ckpt
          /\ Enforce(layers, c, Layers) \/ Settle(layers)
      BY <1>10, <2>1 DEF SetCapacity
    <3>2. c \in Configs /\ c.sinks = config.sinks
      BY <1>1, <2>1 DEF Configs
    <3> HIDE DEF c
    <3>3. StoreOK(layers, c)
      BY <1>1, <3>2 DEF StoreOK
    <3>4. \A i \in Layers : Leading(layers[i], c.sinks)
      BY <1>1, <3>2
    <3> QED BY <1>enforce, <3>1, <3>2, <3>3, <3>4
  <2>2. CASE ~ValidConfig(c)
    <3>1. UNCHANGED <<layers, config, ckpt>>
      BY <1>10, <2>2 DEF SetCapacity
    <3> QED BY <1>same, <3>1
  <2> QED BY <2>1, <2>2
<1>11. CASE EnterDefer
  BY <1>11, <1>same DEF EnterDefer
<1>12. ASSUME NEW succeeded \in BOOLEAN, ExitDefer(succeeded) PROVE SinkInv'
  <2>1. /\ Enforce(layers, config, Layers) \/ Settle(layers)
        /\ UNCHANGED <<config, ckpt>>
    BY <1>12 DEF ExitDefer
  <2> QED BY <1>1, <1>enforce, <2>1
<1>13. CASE Save
  <2>1. /\ ckpt'[1].layers = layers /\ UNCHANGED <<layers, config>>
    BY <1>13 DEF Save
  <2> QED BY <1>1, <2>1 DEF SinkInv, StoreInv, StoreOK
<1>14. CASE LoadCheckpoint
  <2>1. /\ ckpt # <<>> /\ layers' = ckpt[1].layers /\ UNCHANGED <<config, ckpt>>
    BY <1>14 DEF LoadCheckpoint
  <2> QED BY <1>1, <1>keep, <2>1 DEF SinkInv, StoreInv
<1>15. CASE LoadRefused
  BY <1>15, <1>same DEF LoadRefused
<1>16. ASSUME NEW c, Reopen(c) PROVE FALSE
  BY <1>2, <1>16 DEF Reopen
<1>17. CASE UNCHANGED vars
  BY <1>17, <1>same DEF vars
<1>18. 0 .. MaxPosition \subseteq Nat /\ 1 .. MaxPosition \subseteq Nat
  BY BoundsAssumption
<1> QED
  BY <1>5, <1>6, <1>7, <1>8, <1>9, <1>10, <1>11, <1>12, <1>13, <1>14, <1>15,
     <1>16, <1>17, <1>18 DEF Next

LEMMA SinkInit == Init => SinkInv
<1> SUFFICES ASSUME Init PROVE SinkInv
  OBVIOUS
<1>1. /\ config \in Configs /\ layers = [i \in Layers |-> NewLayer(config)]
      /\ ckpt = <<>>
  BY DEF Init
<1>2. config.sinks \in Nat
  BY <1>1, SinksAssumption DEF Configs
<1>3. IsFiniteSet({})
  BY FS_EmptySet
<1>4. StoreOK(layers, config)
  BY <1>1, <1>2, <1>3 DEF StoreOK, NewLayer, Layer
<1>5. \A i \in Layers : Leading(layers[i], config.sinks)
  BY <1>1 DEF NewLayer, Leading
<1> QED BY <1>1, <1>4, <1>5 DEF SinkInv, StoreInv

\* As long as evictions are left to the policy, positions are handed out one
\* after the other and the cache is not reopened under another configuration,
\* every leading token ever appended is still cached: whatever the scores,
\* through changed capacities, deferred blocks, saves and loads.
THEOREM SinksAreNeverEvicted ==
  ASSUME Calls \cap {"evict", "skip", "reopen"} = {}
  PROVE  Spec => []SinksStay
<1>1. Init => SinkInv
  BY SinkInit
<1>2. SinkInv /\ [Next]_vars => SinkInv'
  BY SinkStep
<1>3. SinkInv => SinksStay
  BY DEF SinkInv, SinksStay, Leading
<1> QED BY <1>1, <1>2, <1>3, PTL DEF Spec

(***************************************************************************)
(* Sums over the layers.  MapThenSumSet takes the elements of a set one by *)
(* one, in the order CHOOSE picks them; what follows shows that it is the  *)
(* sum, by induction on the subsets of a finite set.                       *)
(***************************************************************************)

\* Induction on the subsets of a finite set, for a set P of subsets: the
\* strict inclusion is well-founded, so a smallest subset outside P exists.
LEMMA SubsetInduction ==
  ASSUME NEW L, IsFiniteSet(L), NEW P,
         \A s \in SUBSET L : (\A t \in SUBSET s : t # s => t \in P) => s \in P
  PROVE  \A s \in SUBSET L : s \in P
<1> DEFINE out == {s \in SUBSET L : s \notin P}
<1>1. FiniteSubsetsOf(L) = SUBSET L
  BY FS_FiniteSubsetsOfFinite
<1>2. IsWellFoundedOn(StrictSubsetOrdering(L), SUBSET L)
  BY <1>1, FS_StrictSubsetOrderingWellFounded
<1>3. CASE out # {}
  <2>1. PICK s \in out :
          \A t \in out : ~ (<<t, s>> \in StrictSubsetOrdering(L))
    <3>1. out \subseteq SUBSET L
      OBVIOUS
    <3> HIDE DEF out
    <3> QED BY <1>2, <1>3, <3>1, WFMin
  <2>2. \A t \in SUBSET s : t # s => t \in P
    BY <2>1 DEF StrictSubsetOrdering
  <2> QED BY <2>1, <2>2
<1> QED BY <1>3

Pick(s) == CHOOSE x \in s : TRUE

\* g lists, for every subset of S, the sum of F over it.
IsSum(g, F, S) ==
  g = [s \in SUBSET S |-> IF s = {} THEN 0 ELSE F[Pick(s)] + g[s \ {Pick(s)}]]

Sum(F, S) == (CHOOSE g : IsSum(g, F, S))[S]

LEMMA PickIn == ASSUME NEW s, s # {} PROVE Pick(s) \in s
BY DEF Pick

LEMMA SumRule ==
  ASSUME NEW S, NEW F, NEW g, IsSum(g, F, S)
  PROVE  /\ g[{}] = 0
         /\ \A s \in SUBSET S : s # {} => /\ Pick(s) \in S
                                          /\ s \ {Pick(s)} \in SUBSET s
                                          /\ s \ {Pick(s)} # s
                                          /\ g[s] = F[Pick(s)] + g[s \ {Pick(s)}]
<1>1. \A s \in SUBSET S :
        g[s] = IF s = {} THEN 0 ELSE F[Pick(s)] + g[s \ {Pick(s)}]
  BY DEF IsSum
<1> QED BY <1>1, PickIn

\* Two lists of sums agree wherever both are defined.
LEMMA SumUnique ==
  ASSUME NEW S, IsFiniteSet(S), NEW T, NEW F,
         NEW g, IsSum(g, F, S), NEW h, IsSum(h, F, T)
  PROVE  \A s \in SUBSET S : s \in SUBSET T => g[s] = h[s]
<1> DEFINE P == {s \in SUBSET S : s \in SUBSET T => g[s] = h[s]}
<1>1. ASSUME NEW s \in SUBSET S, \A t \in SUBSET s : t # s => t \in P
      PROVE  s \in P
  <2>1. CASE s = {}
    BY <2>1, SumRule
  <2>2. CASE s # {} /\ s \in SUBSET T
    <3>1. /\ s \ {Pick(s)} \in SUBSET s /\ s \ {Pick(s)} # s
          /\ g[s] = F[Pick(s)] + g[s \ {Pick(s)}]
          /\ h[s] = F[Pick(s)] + h[s \ {Pick(s)}]
      BY <2>2, SumRule
    <3>2. g[s \ {Pick(s)}] = h[s \ {Pick(s)}]
      BY <1>1, <2>2, <3>1
    <3> QED BY <3>1, <3>2
  <2>3. CASE s \notin SUBSET T
    BY <2>3
  <2> QED BY <2>1, <2>2, <2>3
<1> HIDE DEF P
<1>2. \A s \in SUBSET S : s \in P
  BY <1>1, SubsetInduction
<1> QED BY <1>2 DEF P

\* Every function has its sums over a finite set.
LEMMA SumExists ==
  ASSUME NEW S, IsFiniteSet(S), NEW F
  PROVE  \E g : IsSum(g, F, S)
<1> DEFINE P == {s \in SUBSET S : \E g : IsSum(g, F, s)}
           V(s) == (CHOOSE g : IsSum(g, F, s))[s]
<1>1. ASSUME NEW s \in SUBSET S, \A t \in SUBSET s : t # s => t \in P
      PROVE  s \in P
  <2>1. ASSUME NEW t \in SUBSET s, t # s
        PROVE  V(t) = IF t = {} THEN 0 ELSE F[Pick(t)] + V(t \ {Pick(t)})
    <3> DEFINE g == CHOOSE g : IsSum(g, F, t)
               u == t \ {Pick(t)}
               h == CHOOSE h : IsSum(h, F, u)
    <3>1. IsSum(g, F, t)
      BY <1>1, <2>1
    <3>2. CASE t = {}
      BY <3>1, <3>2, SumRule
    <3>3. CASE t # {}
      <4>1. u \in SUBSET t /\ u # t /\ g[t] = F[Pick(t)] + g[u]
        BY <3>1, <3>3, SumRule
      <4>2. u \in P
        BY <1>1, <2>1, <4>1
      <4>3. IsSum(h, F, u)
        BY <4>2
      <4>4. IsFiniteSet(t)
        BY <2>1, FS_Subset
      <4>5. g[u] = h[u]
        <5> HIDE DEF g, h, u
        <5> QED BY <3>1, <4>1, <4>3, <4>4, SumUnique
      <4> QED BY <3>3, <4>1, <4>5
    <3> QED BY <3>2, <3>3
  <2> DEFINE k == [t \in SUBSET s |->
                     IF t = {} THEN 0 ELSE F[Pick(t)] + V(t \ {Pick(t)})]
  <2> HIDE DEF V
  <2>2. ASSUME NEW t \in SUBSET s, t # {}
        PROVE  k[t \ {Pick(t)}] = V(t \ {Pick(t)})
    <3>1. t \ {Pick(t)} \in SUBSET s /\ t \ {Pick(t)} # s
      BY <2>2, PickIn
    <3> QED BY <2>1, <3>1
  <2>3. \A t \in SUBSET s :
          k[t] = IF t = {} THEN 0 ELSE F[Pick(t)] + k[t \ {Pick(t)}]
    BY <2>2
  <2>4. k = [t \in SUBSET s |->
               IF t = {} THEN 0 ELSE F[Pick(t)] + V(t \ {Pick(t)})]
    OBVIOUS
  <2> HIDE DEF k
  <2>5. IsSum(k, F, s)
    BY <2>3, <2>4 DEF IsSum
  <2> QED BY <2>5
<1> HIDE DEF P
<1>2. S \in P
  BY <1>1, SubsetInduction
<1> QED BY <1>2 DEF P

LEMMA SumIs ==
  ASSUME NEW S, IsFiniteSet(S), NEW F
  PROVE  \E g : IsSum(g, F, S) /\ Sum(F, S) = g[S]
BY SumExists DEF Sum

\* What a list of sums says.
SumsOf(g, F, S) ==
  /\ Sum(F, S) = g[S] /\ g[{}] = 0
  /\ \A s \in SUBSET S : s # {} => /\ Pick(s) \in S
                                   /\ s \ {Pick(s)} \in SUBSET s
                                   /\ s \ {Pick(s)} # s
                                   /\ g[s] = F[Pick(s)] + g[s \ {Pick(s)}]

LEMMA SumList ==
  ASSUME NEW S, IsFiniteSet(S), NEW F
  PROVE  \E g : SumsOf(g, F, S)
<1>1. PICK g : IsSum(g, F, S) /\ Sum(F, S) = g[S]
  BY SumIs
<1>2. SumsOf(g, F, S)
  BY <1>1, SumRule DEF SumsOf
<1> QED BY <1>2

LEMMA SumNat ==
  ASSUME NEW S, IsFiniteSet(S), NEW F, \A i \in S : F[i] \in Nat
  PROVE  Sum(F, S) \in Nat
<1>1. PICK g : IsSum(g, F, S) /\ Sum(F, S) = g[S]
  BY SumIs
<1> DEFINE P == {s \in SUBSET S : g[s] \in Nat}
<1>2. ASSUME NEW s \in SUBSET S, \A t \in SUBSET s : t # s => t \in P
      PROVE  s \in P
  <2>1. CASE s = {}
    BY <1>1, <2>1, SumRule
  <2>2. CASE s # {}
    <3>1. /\ Pick(s) \in S
          /\ s \ {Pick(s)} \in SUBSET s /\ s \ {Pick(s)} # s
          /\ g[s] = F[Pick(s)] + g[s \ {Pick(s)}]
      BY <1>1, <2>2, SumRule
    <3>2. g[s \ {Pick(s)}] \in Nat
      BY <1>2, <3>1
    <3>3. F[Pick(s)] \in Nat
      BY <3>1
    <3> QED BY <3>1, <3>2, <3>3
  <2> QED BY <2>1, <2>2
<1> HIDE DEF P
<1>3. S \in P
  BY <1>2, SubsetInduction
<1> QED BY <1>1, <1>3 DEF P

\* The sum of a pointwise sum.
LEMMA SumPlus ==
  ASSUME NEW S, IsFiniteSet(S), NEW F, NEW G, NEW H,
         \A i \in S : F[i] \in Nat /\ G[i] \in Nat /\ H[i] = F[i] + G[i]
  PROVE  Sum(H, S) = Sum(F, S) + Sum(G, S)
<1>1. PICK f : SumsOf(f, F, S)
  BY SumList
<1>2. PICK g : SumsOf(g, G, S)
  BY SumList
<1>3. PICK h : SumsOf(h, H, S)
  BY SumList
<1> DEFINE P == {s \in SUBSET S : /\ f[s] \in Nat /\ g[s] \in Nat
                                  /\ h[s] = f[s] + g[s]}
<1>4. ASSUME NEW s \in SUBSET S, \A t \in SUBSET s : t # s => t \in P
      PROVE  s \in P
  <2>1. CASE s = {}
    BY <1>1, <1>2, <1>3, <2>1 DEF SumsOf
  <2>2. CASE s # {}
    <3> DEFINE x == Pick(s)
               u == s \ {Pick(s)}
    <3>1. /\ x \in S /\ u \in SUBSET s /\ u # s
          /\ f[s] = F[x] + f[u]
          /\ g[s] = G[x] + g[u]
          /\ h[s] = H[x] + h[u]
      <4>1. x \in S /\ u \in SUBSET s /\ u # s /\ f[s] = F[x] + f[u]
        BY <1>1, <2>2 DEF SumsOf
      <4>2. x \in S /\ u \in SUBSET s /\ u # s /\ g[s] = G[x] + g[u]
        BY <1>2, <2>2 DEF SumsOf
      <4>3. x \in S /\ u \in SUBSET s /\ u # s /\ h[s] = H[x] + h[u]
        BY <1>3, <2>2 DEF SumsOf
      <4> HIDE DEF x, u
      <4> QED BY <4>1, <4>2, <4>3
    <3>2. u \in P
      BY <1>4, <3>1
    <3>3. f[u] \in Nat /\ g[u] \in Nat /\ h[u] = f[u] + g[u]
      BY <3>2
    <3>4. F[x] \in Nat /\ G[x] \in Nat /\ H[x] = F[x] + G[x]
      BY <3>1
    <3> HIDE DEF x, u, P
    <3>5. f[s] \in Nat /\ g[s] \in Nat /\ h[s] = f[s] + g[s]
      BY <3>1, <3>3, <3>4
    <3> QED BY <3>5 DEF P
  <2> QED BY <2>1, <2>2
<1> HIDE DEF P
<1>5. S \in P
  BY <1>4, SubsetInduction
<1> QED BY <1>1, <1>2, <1>3, <1>5 DEF P, SumsOf

LEMMA SumZero ==
  ASSUME NEW S, IsFiniteSet(S), NEW F, \A i \in S : F[i] = 0
  PROVE  Sum(F, S) = 0
<1>1. \A i \in S : F[i] \in Nat /\ F[i] = F[i] + F[i]
  OBVIOUS
<1> DEFINE n == Sum(F, S)
<1>2. n \in Nat /\ n = n + n
  BY <1>1, SumNat, SumPlus
<1> HIDE DEF n
<1>3. n = 0
  BY <1>2
<1> QED BY <1>3 DEF n

\* A larger function has a larger sum.
LEMMA SumLess ==
  ASSUME NEW S, IsFiniteSet(S), NEW F, NEW G,
         \A i \in S : F[i] \in Nat /\ G[i] \in Nat /\ F[i] <= G[i]
  PROVE  Sum(F, S) \in Nat /\ Sum(G, S) \in Nat /\ Sum(F, S) <= Sum(G, S)
<1> DEFINE D == [i \in S |-> G[i] - F[i]]
<1>1. \A i \in S : D[i] \in Nat /\ G[i] = F[i] + D[i]
  OBVIOUS
<1> HIDE DEF D
<1>2. Sum(G, S) = Sum(F, S) + Sum(D, S)
  BY <1>1, SumPlus
<1>3. Sum(F, S) \in Nat /\ Sum(G, S) \in Nat /\ Sum(D, S) \in Nat
  BY <1>1, SumNat
<1> QED BY <1>2, <1>3

LEMMA SumSame ==
  ASSUME NEW S, IsFiniteSet(S), NEW F, NEW G,
         \A i \in S : F[i] \in Nat /\ F[i] = G[i]
  PROVE  Sum(F, S) = Sum(G, S)
<1>1. /\ Sum(F, S) \in Nat /\ Sum(G, S) \in Nat
      /\ Sum(F, S) <= Sum(G, S) /\ Sum(G, S) <= Sum(F, S)
  <2>1. \A i \in S : F[i] \in Nat /\ G[i] \in Nat /\ F[i] <= G[i] /\ G[i] <= F[i]
    OBVIOUS
  <2> QED BY <2>1, SumLess
<1> QED BY <1>1

\* A function that is n at one point and 0 elsewhere.
LEMMA SumPoint ==
  ASSUME NEW S, IsFiniteSet(S), NEW x \in S, NEW n \in Nat, NEW F,
         \A i \in S : F[i] = IF i = x THEN n ELSE 0
  PROVE  Sum(F, S) = n
<1>1. PICK f : IsSum(f, F, S) /\ Sum(F, S) = f[S]
  BY SumIs
<1> DEFINE P == {s \in SUBSET S : f[s] = IF x \in s THEN n ELSE 0}
<1>2. ASSUME NEW s \in SUBSET S, \A t \in SUBSET s : t # s => t \in P
      PROVE  s \in P
  <2>1. CASE s = {}
    BY <1>1, <2>1, SumRule
  <2>2. CASE s # {}
    <3> DEFINE y == Pick(s)
               u == s \ {Pick(s)}
    <3>1. /\ y \in S /\ u \in SUBSET s /\ u # s
          /\ f[s] = F[y] + f[u]
      BY <1>1, <2>2, SumRule
    <3>2. f[u] = IF x \in u THEN n ELSE 0
      BY <1>2, <3>1
    <3>3. F[y] = IF y = x THEN n ELSE 0
      BY <3>1
    <3>4. (x \in s <=> x = y \/ x \in u) /\ y \notin u
      BY <2>2, PickIn
    <3> HIDE DEF y, u
    <3>5. f[s] = IF x \in s THEN n ELSE 0
      BY <3>1, <3>2, <3>3, <3>4
    <3> QED BY <3>5
  <2> QED BY <2>1, <2>2
<1> HIDE DEF P
<1>3. S \in P
  BY <1>2, SubsetInduction
<1> QED BY <1>1, <1>3 DEF P

\* A function that grew by n at one point.
LEMMA SumBumped ==
  ASSUME NEW S, IsFiniteSet(S), NEW x \in S, NEW n \in Nat, NEW F, NEW G,
         \A i \in S : F[i] \in Nat /\ G[i] = IF i = x THEN F[i] + n ELSE F[i]
  PROVE  Sum(G, S) = Sum(F, S) + n
<1> DEFINE D == [i \in S |-> IF i = x THEN n ELSE 0]
<1>1. \A i \in S : D[i] = IF i = x THEN n ELSE 0
  OBVIOUS
<1> HIDE DEF D
<1>2. \A i \in S : F[i] \in Nat /\ D[i] \in Nat /\ G[i] = F[i] + D[i]
  BY <1>1
<1> QED BY <1>1, <1>2, SumPoint, SumPlus

\* The sums of the model are sums in this sense.
LEMMA LayersFinite == IsFiniteSet(Layers)
BY LayersAssumption, FS_Interval DEF Layers

Sizes(ls) == [i \in Layers |-> NumTokens(ls[i])]
Nexts(ls) == [i \in Layers |-> ls[i].next]

LEMMA TotalIsSum ==
  ASSUME NEW ls
  PROVE  TotalTokens(ls) = Sum(Sizes(ls), Layers)
<1> DEFINE F == Sizes(ls)
           Lists(g) == g = [s \in SUBSET Layers |-> IF s = {} THEN 0
             ELSE NumTokens(ls[CHOOSE x \in s : TRUE])
                    + g[s \ {CHOOSE x \in s : TRUE}]]
<1>1. TotalTokens(ls) = (CHOOSE g : Lists(g))[Layers]
  BY DEF TotalTokens, MapThenSumSet, MapThenFoldSet
<1>2. ASSUME NEW g PROVE Lists(g) <=> IsSum(g, F, Layers)
  <2>1. \A s \in SUBSET Layers : s # {} => NumTokens(ls[Pick(s)]) = F[Pick(s)]
    BY PickIn DEF Sizes
  <2> HIDE DEF F
  <2> QED BY <2>1 DEF IsSum, Pick
<1> HIDE DEF Lists, F
<1>3. PICK f : IsSum(f, F, Layers) /\ Sum(F, Layers) = f[Layers]
  BY SumIs, LayersFinite
<1>4. IsSum(CHOOSE g : Lists(g), F, Layers)
  BY <1>2, <1>3
<1>5. (CHOOSE g : Lists(g))[Layers] = f[Layers]
  BY <1>3, <1>4, SumUnique, LayersFinite
<1> QED BY <1>1, <1>3, <1>5 DEF F

LEMMA NextIsSum ==
  ASSUME NEW ls
  PROVE  MapThenSumSet(LAMBDA i : ls[i].next, Layers) = Sum(Nexts(ls), Layers)
<1> DEFINE F == Nexts(ls)
           Lists(g) == g = [s \in SUBSET Layers |-> IF s = {} THEN 0
             ELSE ls[CHOOSE x \in s : TRUE].next
                    + g[s \ {CHOOSE x \in s : TRUE}]]
<1>1. MapThenSumSet(LAMBDA i : ls[i].next, Layers)
        = (CHOOSE g : Lists(g))[Layers]
  BY DEF MapThenSumSet, MapThenFoldSet
<1>2. ASSUME NEW g PROVE Lists(g) <=> IsSum(g, F, Layers)
  <2>1. \A s \in SUBSET Layers : s # {} => ls[Pick(s)].next = F[Pick(s)]
    BY PickIn DEF Nexts
  <2> HIDE DEF F
  <2> QED BY <2>1 DEF IsSum, Pick
<1> HIDE DEF Lists, F
<1>3. PICK f : IsSum(f, F, Layers) /\ Sum(F, Layers) = f[Layers]
  BY SumIs, LayersFinite
<1>4. IsSum(CHOOSE g : Lists(g), F, Layers)
  BY <1>2, <1>3
<1>5. (CHOOSE g : Lists(g))[Layers] = f[Layers]
  BY <1>3, <1>4, SumUnique, LayersFinite
<1> QED BY <1>1, <1>3, <1>5 DEF F

(***************************************************************************)
(* Layers that are sound, and what every call does to a store of them.     *)
(***************************************************************************)

TierOK(l) ==
  /\ l.hosted > 0 => l.hosted < NumTokens(l) /\ ~l.quant /\ ~l.away
  /\ l.tokens = {} => ~l.quant /\ ~l.away

SoundLayer(l) ==
  /\ l \in Layer
  /\ l.tokens \subseteq 0 .. l.next - 1
  /\ TierOK(l)

SoundStore(ls) ==
  /\ ls \in [Layers -> Layer]
  /\ \A i \in Layers : SoundLayer(ls[i])

LEMMA SoundIsFinite ==
  ASSUME NEW l, SoundLayer(l)
  PROVE  IsFiniteSet(l.tokens) /\ NumTokens(l) \in Nat
<1>1. 0 \in Int /\ l.next - 1 \in Int
  BY DEF SoundLayer, Layer
<1>2. IsFiniteSet(0 .. l.next - 1)
  BY <1>1, FS_Interval
<1>3. IsFiniteSet(l.tokens)
  BY <1>2, FS_Subset DEF SoundLayer
<1> QED BY <1>3, FS_CardinalityType DEF NumTokens

\* An eviction takes a layer to one that is sound and holds what was kept.
LEMMA KeepInSound ==
  ASSUME NEW l, SoundLayer(l), NEW kept \in SUBSET l.tokens
  PROVE  SoundLayer(KeepIn(l, kept)) /\ Shrunk(l, KeepIn(l, kept))
<1>1. l \in Layer /\ TierOK(l)
  BY DEF SoundLayer
<1>2. Shrunk(l, KeepIn(l, kept))
  BY <1>1, KeepInShrinks
<1>3. KeepIn(l, kept).tokens \subseteq 0 .. KeepIn(l, kept).next - 1
  BY <1>2 DEF Shrunk, SoundLayer
<1>4. TierOK(KeepIn(l, kept))
  <2>1. CASE kept = {}
    <3>1. /\ KeepIn(l, kept).hosted = 0
          /\ ~KeepIn(l, kept).quant /\ ~KeepIn(l, kept).away
      BY <1>1, <2>1 DEF KeepIn, Layer
    <3> QED BY <3>1 DEF TierOK
  <2>2. CASE kept # {}
    <3>1. KeepIn(l, kept).hosted = 0 /\ KeepIn(l, kept).tokens # {}
      BY <1>1, <2>2 DEF KeepIn, Layer
    <3> QED BY <3>1 DEF TierOK
  <2> QED BY <2>1, <2>2
<1> QED BY <1>2, <1>3, <1>4 DEF SoundLayer, Shrunk

\* A call that only moves tiers or changes the representation of a layer.
LEMMA SameTokensSound ==
  ASSUME NEW l, SoundLayer(l), NEW m, SameTokens(l, m), TierOK(m)
  PROVE  SoundLayer(m) /\ Shrunk(l, m)
BY DEF SoundLayer, SameTokens, Shrunk

\* The sums of a sound store, and how they change.
LEMMA TotalsAreNat ==
  ASSUME NEW ls, SoundStore(ls)
  PROVE  TotalTokens(ls) \in Nat /\ Sum(Nexts(ls), Layers) \in Nat
<1>1. \A i \in Layers : Sizes(ls)[i] \in Nat
  BY SoundIsFinite DEF Sizes, SoundStore
<1>2. \A i \in Layers : Nexts(ls)[i] \in Nat
  BY DEF Nexts, SoundStore, Layer
<1> QED BY <1>1, <1>2, SumNat, TotalIsSum, LayersFinite

LEMMA TotalsShrink ==
  ASSUME NEW ls, SoundStore(ls), NEW ms, SoundStore(ms),
         \A i \in Layers : Shrunk(ls[i], ms[i])
  PROVE  /\ TotalTokens(ms) <= TotalTokens(ls)
         /\ TotalTokens(ls) - TotalTokens(ms) \in Nat
         /\ Sum(Nexts(ms), Layers) = Sum(Nexts(ls), Layers)
<1>1. ASSUME NEW i \in Layers
      PROVE  /\ Sizes(ls)[i] \in Nat /\ Sizes(ms)[i] \in Nat
             /\ Sizes(ms)[i] <= Sizes(ls)[i]
  <2>1. IsFiniteSet(ls[i].tokens) /\ NumTokens(ls[i]) \in Nat
        /\ NumTokens(ms[i]) \in Nat
    BY SoundIsFinite DEF SoundStore
  <2>2. ms[i].tokens \subseteq ls[i].tokens
    BY DEF Shrunk
  <2>3. NumTokens(ms[i]) <= NumTokens(ls[i])
    BY <2>1, <2>2, FS_Subset DEF NumTokens
  <2> QED BY <2>1, <2>3 DEF Sizes
<1>2. \A i \in Layers : Nexts(ls)[i] \in Nat /\ Nexts(ls)[i] = Nexts(ms)[i]
  BY DEF Nexts, SoundStore, Layer, Shrunk
<1>3. TotalTokens(ms) <= TotalTokens(ls)
  BY <1>1, SumLess, TotalIsSum, LayersFinite
<1>4. Sum(Nexts(ms), Layers) = Sum(Nexts(ls), Layers)
  BY <1>2, SumSame, LayersFinite
<1>5. TotalTokens(ms) \in Nat /\ TotalTokens(ls) \in Nat
  BY TotalsAreNat
<1> QED BY <1>3, <1>4, <1>5

LEMMA TotalsOfEmpty ==
  ASSUME NEW ls, \A i \in Layers : ls[i].tokens = {}
  PROVE  TotalTokens(ls) = 0
<1>1. \A i \in Layers : Sizes(ls)[i] = 0
  BY FS_EmptySet DEF Sizes, NumTokens
<1> QED BY <1>1, SumZero, TotalIsSum, LayersFinite

\* The store an append leaves before anything is enforced.
Appended(ls) ==
  \E i \in Layers, start \in Nat, n \in Nat :
    /\ n >= 1
    /\ start >= layers[i].next
    /\ "skip" \in Calls \/ start = layers[i].next
    /\ ls = [layers EXCEPT ![i] = AppendTo(@, start, n)]

LEMMA AppendToSound ==
  ASSUME NEW l, SoundLayer(l), NEW start \in Nat, NEW n \in Nat, n >= 1,
         start >= l.next
  PROVE  /\ SoundLayer(AppendTo(l, start, n))
         /\ NumTokens(AppendTo(l, start, n)) = NumTokens(l) + n
<1> DEFINE m == AppendTo(l, start, n)
           new == start .. start + n - 1
<1>1. l \in Layer /\ l.next \in Nat /\ l.tokens \subseteq 0 .. l.next - 1
      /\ IsFiniteSet(l.tokens) /\ NumTokens(l) \in Nat
  BY SoundIsFinite DEF SoundLayer, Layer
<1>2. /\ m \in Layer /\ m.next = start + n /\ m.tokens = l.tokens \cup new
  BY <1>1, AppendToLayer, ZenonT(30)
<1>3. ~m.quant /\ ~m.away /\ m.hosted = 0
  BY <1>1 DEF AppendTo, Layer
<1> HIDE DEF m
<1>4. m.tokens \subseteq 0 .. m.next - 1
  BY <1>1, <1>2
<1>5. TierOK(m)
  BY <1>3 DEF TierOK
<1>6. IsFiniteSet(new) /\ Cardinality(new) = n
  <2>1. start \in Int /\ start + n - 1 \in Int
    OBVIOUS
  <2>2. /\ IsFiniteSet(new)
        /\ Cardinality(new) = IF start > start + n - 1 THEN 0
                              ELSE start + n - 1 - start + 1
    BY <2>1, FS_Interval
  <2> HIDE DEF new
  <2> QED BY <2>2
<1>7. l.tokens \cap new = {}
  BY <1>1
<1> HIDE DEF new
<1>8. Cardinality(l.tokens \cup new) = Cardinality(l.tokens) + Cardinality(new)
                                         - Cardinality(l.tokens \cap new)
  BY <1>1, <1>6, FS_Union
<1>9. NumTokens(m) = NumTokens(l) + n
  <2>1. Cardinality(l.tokens \cap new) = 0
    BY <1>7, FS_EmptySet
  <2> QED BY <1>1, <1>2, <1>6, <1>8, <2>1 DEF NumTokens
<1> QED BY <1>2, <1>4, <1>5, <1>9 DEF SoundLayer, m

LEMMA AppendedSound ==
  ASSUME SoundStore(layers), NEW ls, Appended(ls)
  PROVE  /\ SoundStore(ls)
         /\ \A j \in Layers :
              /\ \A p \in ls[j].tokens \ layers[j].tokens : p >= layers[j].next
              /\ ls[j].next >= layers[j].next
              /\ ls[j].sinks = layers[j].sinks
         /\ \E n \in Nat :
              /\ TotalTokens(ls) = TotalTokens(layers) + n
              /\ Sum(Nexts(ls), Layers) >= Sum(Nexts(layers), Layers) + n
              /\ "skip" \notin Calls =>
                   Sum(Nexts(ls), Layers) = Sum(Nexts(layers), Layers) + n
<1>1. PICK i \in Layers, start \in Nat, n \in Nat :
        /\ n >= 1 /\ start >= layers[i].next
        /\ "skip" \in Calls \/ start = layers[i].next
        /\ ls = [layers EXCEPT ![i] = AppendTo(@, start, n)]
  BY DEF Appended
<1>2. layers \in [Layers -> Layer] /\ SoundLayer(layers[i])
      /\ layers[i] \in Layer /\ layers[i].next \in Nat
  BY DEF SoundStore, Layer
<1> DEFINE m == AppendTo(layers[i], start, n)
<1>3. /\ ls[i] = m
      /\ \A j \in Layers : j # i => ls[j] = layers[j]
  BY <1>1, <1>2
<1>4. SoundLayer(m) /\ NumTokens(m) = NumTokens(layers[i]) + n
  BY <1>1, <1>2, AppendToSound
<1>5. /\ m.next = start + n /\ m.sinks = layers[i].sinks /\ m \in Layer
      /\ m.tokens = layers[i].tokens \cup (start .. start + n - 1)
  <2> DEFINE l == layers[i]
  <2>1. l \in Layer /\ IsFiniteSet(l.tokens)
    BY <1>2, SoundIsFinite
  <2> HIDE DEF l
  <2>2. /\ AppendTo(l, start, n) \in Layer
        /\ AppendTo(l, start, n).sinks = l.sinks
        /\ AppendTo(l, start, n).next = start + n
        /\ AppendTo(l, start, n).tokens = l.tokens \cup (start .. start + n - 1)
    BY <2>1, AppendToLayer, ZenonT(30)
  <2> QED BY <2>2 DEF l
<1> HIDE DEF m
<1>6. SoundStore(ls)
  <2>1. ls \in [Layers -> Layer]
    BY <1>1, <1>2, <1>5 DEF m
  <2> QED BY <1>3, <1>4, <2>1 DEF SoundStore
<1>7. \A j \in Layers :
        /\ \A p \in ls[j].tokens \ layers[j].tokens : p >= layers[j].next
        /\ ls[j].next >= layers[j].next
        /\ ls[j].sinks = layers[j].sinks
  <2> TAKE j \in Layers
  <2>1. CASE j = i
    BY <1>1, <1>2, <1>3, <1>5, <2>1
  <2>2. CASE j # i
    <3>1. layers[j].next \in Nat
      BY <1>2 DEF Layer
    <3> QED BY <1>3, <2>2, <3>1
  <2> QED BY <2>1, <2>2
<1>8. TotalTokens(ls) = TotalTokens(layers) + n
  <2>1. \A j \in Layers : /\ Sizes(layers)[j] \in Nat
                          /\ Sizes(ls)[j] = IF j = i THEN Sizes(layers)[j] + n
                                            ELSE Sizes(layers)[j]
    BY <1>3, <1>4, SoundIsFinite DEF Sizes, SoundStore
  <2>2. Sum(Sizes(ls), Layers) = Sum(Sizes(layers), Layers) + n
    BY <2>1, SumBumped, LayersFinite
  <2> QED BY <2>2, TotalIsSum
<1>9. Sum(Nexts(ls), Layers)
        = Sum(Nexts(layers), Layers) + (start - layers[i].next) + n
  <2> DEFINE k == start - layers[i].next + n
  <2>1. k \in Nat /\ start + n = layers[i].next + k
    BY <1>1, <1>2
  <2>2. \A j \in Layers : /\ Nexts(layers)[j] \in Nat
                          /\ Nexts(ls)[j] = IF j = i THEN Nexts(layers)[j] + k
                                            ELSE Nexts(layers)[j]
    <3> HIDE DEF k
    <3> QED BY <1>2, <1>3, <1>5, <2>1 DEF Nexts, Layer
  <2>3. Sum(Nexts(ls), Layers) = Sum(Nexts(layers), Layers) + k
    <3> HIDE DEF k
    <3> QED BY <2>1, <2>2, SumBumped, LayersFinite
  <2>4. Sum(Nexts(layers), Layers) \in Nat
    BY TotalsAreNat
  <2> QED BY <1>1, <1>2, <2>3, <2>4
<1>10. /\ Sum(Nexts(ls), Layers) >= Sum(Nexts(layers), Layers) + n
       /\ "skip" \notin Calls =>
            Sum(Nexts(ls), Layers) = Sum(Nexts(layers), Layers) + n
  <2>1. Sum(Nexts(layers), Layers) \in Nat
    BY TotalsAreNat
  <2> QED BY <1>1, <1>2, <1>9, <2>1
<1> QED BY <1>6, <1>7, <1>8, <1>10

(***************************************************************************)
(* Every step that is not a restore or a clear takes the store, possibly   *)
(* with appended tokens, to one that lost some of them, and counts them.   *)
(***************************************************************************)

Counters == [evictions : Nat, evictedTokens : Nat]

Moves(ls, bad) ==
  /\ SoundStore(layers')
  /\ \A i \in Layers : Shrunk(ls[i], layers'[i])
  /\ activity' = Counted(bad, TotalTokens(ls) - TotalTokens(layers'))

LEMMA SettleMoves ==
  ASSUME NEW ls, SoundStore(ls), Settle(ls)
  PROVE  Moves(ls, {})
<1>1. layers' = ls /\ activity' = activity
  BY DEF Settle
<1>2. \A i \in Layers : Shrunk(ls[i], ls[i])
  BY DEF Shrunk, SoundStore
<1>3. TotalTokens(ls) - TotalTokens(ls) = 0
  BY TotalsAreNat
<1> QED BY <1>1, <1>2, <1>3 DEF Moves, Counted

LEMMA EnforceMoves ==
  ASSUME NEW ls, SoundStore(ls), NEW c, NEW T \in SUBSET Layers,
         Enforce(ls, c, T)
  PROVE  /\ \E bad : Moves(ls, bad)
         /\ c \in Configs /\ (\A i \in Layers : ls[i].sinks = c.sinks)
              => Moves(ls, {})
         /\ \A i \in Layers : Favoured(ls[i], layers'[i].tokens)
<1> DEFINE over == {i \in T : Over(ls[i], c.cap[i])}
           bad == {i \in over : Refuses(ls[i], c.cap[i])}
           done == Before(over, bad)
<1>1. PICK kept \in [done -> UNION {Selections(ls[i], c.cap[i]) : i \in done}] :
        /\ \A i \in done : kept[i] \in Selections(ls[i], c.cap[i])
        /\ layers' = [i \in Layers |-> IF i \in done THEN KeepIn(ls[i], kept[i])
                                       ELSE ls[i]]
        /\ activity' = Counted(bad, TotalTokens(ls) - TotalTokens(layers'))
  BY DEF Enforce
<1>2. ASSUME c \in Configs, \A i \in Layers : ls[i].sinks = c.sinks
      PROVE  bad = {}
  <2>1. \A i \in over : c.cap[i] > 0 /\ i \in Layers
    BY DEF Over
  <2>2. \A i \in Layers : ls[i] \in Layer
    BY DEF SoundStore
  <2> QED BY <1>2, <2>1, <2>2, NeverRefused
<1> HIDE DEF over, bad, done
<1>3. \A i \in done : kept[i] \in SUBSET ls[i].tokens
  BY <1>1 DEF Selections
<1>4. ASSUME NEW i \in Layers
      PROVE  SoundLayer(layers'[i]) /\ Shrunk(ls[i], layers'[i])
  <2>1. SoundLayer(ls[i])
    BY DEF SoundStore
  <2>2. CASE i \in done
    <3>1. layers'[i] = KeepIn(ls[i], kept[i]) /\ kept[i] \in SUBSET ls[i].tokens
      BY <1>1, <1>3, <2>2
    <3> QED BY <2>1, <3>1, KeepInSound
  <2>3. CASE i \notin done
    <3>1. layers'[i] = ls[i]
      BY <1>1, <2>3
    <3> QED BY <2>1, <3>1 DEF Shrunk, SoundLayer
  <2> QED BY <2>2, <2>3
<1>5. layers' \in [Layers -> Layer]
  <2>1. \A i \in Layers : layers'[i] \in Layer
    BY <1>4 DEF SoundLayer
  <2> QED BY <1>1, <2>1
<1>6. Moves(ls, bad)
  BY <1>1, <1>4, <1>5 DEF Moves, SoundStore
<1>7. ASSUME NEW i \in Layers PROVE Favoured(ls[i], layers'[i].tokens)
  <2>1. CASE i \in done
    <3>1. /\ ls[i] \in Layer /\ kept[i] \in SUBSET ls[i].tokens
          /\ layers'[i] = KeepIn(ls[i], kept[i])
          /\ Favoured(ls[i], kept[i])
      BY <1>1, <1>3, <2>1 DEF Selections, SoundStore
    <3> QED BY <3>1, KeepInShrinks
  <2>2. CASE i \notin done
    BY <1>1, <2>2 DEF Favoured
  <2> QED BY <2>1, <2>2
<1> QED BY <1>2, <1>6, <1>7

LEMMA EvictSlotsMoves ==
  ASSUME SoundStore(layers), NEW T \in Targets, NEW slots,
         NEW drop \in BOOLEAN, EvictSlots(T, slots, drop)
  PROVE  \E bad : Moves(layers, bad)
<1> DEFINE held == {i \in T : layers[i].tokens # {}}
           bad == {i \in held : \E s \in slots : s > NumTokens(layers[i])}
           done == Before(held, bad)
           kept == [i \in done |-> {p \in layers[i].tokens :
                                      (Slot(layers[i], p) \in slots) # drop}]
           collapsed == {i \in bad : ~drop /\ \A j \in bad : i <= j}
<1>1. /\ layers' = [i \in Layers |->
                      IF i \in done THEN KeepIn(layers[i], kept[i])
                      ELSE IF i \in collapsed
                           THEN [layers[i] EXCEPT !.hosted = 0]
                      ELSE layers[i]]
      /\ activity' = Counted(bad, TotalTokens(layers) - TotalTokens(layers'))
  BY DEF EvictSlots
<1>2. \A i \in done : kept[i] \in SUBSET layers[i].tokens
  OBVIOUS
<1> HIDE DEF kept, done, collapsed, bad, held
<1>3. ASSUME NEW i \in Layers
      PROVE  SoundLayer(layers'[i]) /\ Shrunk(layers[i], layers'[i])
  <2>1. SoundLayer(layers[i]) /\ layers[i] \in Layer
    BY DEF SoundStore
  <2>2. CASE i \in done
    <3>1. layers'[i] = KeepIn(layers[i], kept[i])
          /\ kept[i] \in SUBSET layers[i].tokens
      BY <1>1, <1>2, <2>2
    <3> QED BY <2>1, <3>1, KeepInSound
  <2>3. CASE i \notin done /\ i \in collapsed
    <3> DEFINE m == [layers[i] EXCEPT !.hosted = 0]
    <3>1. layers'[i] = m
      BY <1>1, <2>3
    <3>2. SameTokens(layers[i], m)
      BY <2>1 DEF SameTokens, Layer
    <3>3. TierOK(m)
      BY <2>1 DEF TierOK, SoundLayer, Layer
    <3> HIDE DEF m
    <3> QED BY <2>1, <3>1, <3>2, <3>3, SameTokensSound
  <2>4. CASE i \notin done /\ i \notin collapsed
    <3>1. layers'[i] = layers[i]
      BY <1>1, <2>4
    <3> QED BY <2>1, <3>1 DEF Shrunk
  <2> QED BY <2>2, <2>3, <2>4
<1>4. layers' \in [Layers -> Layer]
  <2>1. \A i \in Layers : layers'[i] \in Layer
    BY <1>3 DEF SoundLayer
  <2> QED BY <1>1, <2>1
<1> QED BY <1>1, <1>3, <1>4 DEF Moves, SoundStore

\* The calls that change a representation or a tier, one layer after the other.
LEMMA ChangeEachMoves ==
  ASSUME SoundStore(layers), NEW T \in SUBSET Layers, NEW new, NEW bad,
         bad \subseteq T,
         \A i \in T \ bad : SameTokens(layers[i], new[i]) /\ TierOK(new[i]),
         ChangeEach(T, new, bad)
  PROVE  /\ Moves(layers, {})
         /\ \A i \in Layers : layers'[i].tokens = layers[i].tokens
<1>1. /\ layers' = [i \in Layers |-> IF i \in Before(T, bad) THEN new[i]
                                     ELSE layers[i]]
      /\ activity' = activity
  BY DEF ChangeEach
<1>2. \A i \in Before(T, bad) : i \in T \ bad
  BY DEF Before, Layers
<1>3. ASSUME NEW i \in Layers
      PROVE  /\ SoundLayer(layers'[i]) /\ Shrunk(layers[i], layers'[i])
             /\ layers'[i].tokens = layers[i].tokens
             /\ NumTokens(layers'[i]) = NumTokens(layers[i])
  <2>1. SoundLayer(layers[i])
    BY DEF SoundStore
  <2>2. CASE i \in Before(T, bad)
    <3>1. /\ layers'[i] = new[i]
          /\ SameTokens(layers[i], new[i]) /\ TierOK(new[i])
      BY <1>1, <1>2, <2>2
    <3>2. /\ layers'[i].tokens = layers[i].tokens
          /\ NumTokens(layers'[i]) = NumTokens(layers[i])
      BY <3>1 DEF SameTokens, NumTokens
    <3> QED BY <2>1, <3>1, <3>2, SameTokensSound
  <2>3. CASE i \notin Before(T, bad)
    <3>1. layers'[i] = layers[i]
      BY <1>1, <2>3
    <3> QED BY <2>1, <3>1 DEF Shrunk, SoundLayer
  <2> QED BY <2>2, <2>3
<1>4. layers' \in [Layers -> Layer]
  <2>1. \A i \in Layers : layers'[i] \in Layer
    BY <1>3 DEF SoundLayer
  <2> QED BY <1>1, <2>1
<1>5. SoundStore(layers')
  BY <1>3, <1>4 DEF SoundStore
<1>6. TotalTokens(layers) - TotalTokens(layers') = 0
  <2>1. \A i \in Layers : Sizes(layers)[i] \in Nat
                          /\ Sizes(layers)[i] = Sizes(layers')[i]
    BY <1>3, SoundIsFinite DEF Sizes, SoundStore
  <2>2. TotalTokens(layers) = TotalTokens(layers')
    BY <2>1, SumSame, TotalIsSum, LayersFinite
  <2> QED BY <2>2, TotalsAreNat
<1> QED BY <1>1, <1>3, <1>5, <1>6 DEF Moves, Counted

\* A layer that is in one piece afterwards.
LEMMA WholeLayer ==
  ASSUME NEW l, NEW m \in Layer, m.hosted = 0,
         m.tokens = l.tokens, m.next = l.next, m.sinks = l.sinks,
         l.tokens # {} \/ (~m.quant /\ ~m.away)
  PROVE  SameTokens(l, m) /\ TierOK(m)
BY DEF SameTokens, TierOK

LEMMA TierCallsMove ==
  ASSUME SoundStore(layers), NEW T \in Targets, NEW n \in Nat,
         \/ CompressAll(T) \/ DecompressAll(T) \/ Offload(T)
         \/ OffloadKeeping(T, n) \/ Prefetch(T)
         \/ n >= 1 /\ PrefetchTokens(T, n)
  PROVE  /\ Moves(layers, {})
         /\ \A i \in Layers : layers'[i].tokens = layers[i].tokens
<1>1. T \in SUBSET Layers
  BY TargetsAreLayers
<1>2. \A i \in Layers : /\ layers[i] \in Layer /\ TierOK(layers[i])
                        /\ NumTokens(layers[i]) \in Nat
                        /\ layers[i].hosted \in Nat
  BY SoundIsFinite DEF SoundStore, SoundLayer, Layer
<1>3. CASE CompressAll(T)
  <2> DEFINE new == [i \in Layers |->
        IF layers[i].tokens = {} THEN layers[i]
        ELSE [layers[i] EXCEPT !.quant = TRUE, !.hosted = 0]]
  <2>1. ChangeEach(T, new, {})
    BY <1>3 DEF CompressAll
  <2>2. ASSUME NEW i \in T \ {}
        PROVE  SameTokens(layers[i], new[i]) /\ TierOK(new[i])
    <3> DEFINE m == [layers[i] EXCEPT !.quant = TRUE, !.hosted = 0]
    <3>1. /\ m \in Layer /\ m.tokens = layers[i].tokens /\ m.hosted = 0
          /\ m.next = layers[i].next /\ m.sinks = layers[i].sinks
      BY <1>1, <1>2 DEF Layer
    <3>2. CASE layers[i].tokens # {}
      <4>1. new[i] = m
        BY <1>1, <3>2
      <4> HIDE DEF m
      <4> QED BY <3>1, <3>2, <4>1, WholeLayer
    <3>3. CASE layers[i].tokens = {}
      <4>1. new[i] = layers[i]
        BY <1>1, <3>3
      <4> QED BY <1>1, <1>2, <4>1 DEF SameTokens
    <3> QED BY <3>2, <3>3
  <2> HIDE DEF new
  <2> QED BY <1>1, <2>1, <2>2, ChangeEachMoves
<1>4. CASE DecompressAll(T)
  <2> DEFINE new == [i \in Layers |-> [layers[i] EXCEPT !.quant = FALSE]]
  <2>1. ChangeEach(T, new, {})
    BY <1>4 DEF DecompressAll
  <2>2. \A i \in T \ {} : SameTokens(layers[i], new[i]) /\ TierOK(new[i])
    BY <1>1, <1>2 DEF SameTokens, TierOK, Layer, NumTokens
  <2> HIDE DEF new
  <2> QED BY <1>1, <2>1, <2>2, ChangeEachMoves
<1>5. CASE Offload(T)
  <2> DEFINE new == [i \in Layers |->
        IF layers[i].tokens = {} THEN layers[i]
        ELSE [layers[i] EXCEPT !.away = TRUE, !.hosted = 0]]
  <2>1. ChangeEach(T, new, {})
    BY <1>5 DEF Offload
  <2>2. ASSUME NEW i \in T \ {}
        PROVE  SameTokens(layers[i], new[i]) /\ TierOK(new[i])
    <3> DEFINE m == [layers[i] EXCEPT !.away = TRUE, !.hosted = 0]
    <3>1. /\ m \in Layer /\ m.tokens = layers[i].tokens /\ m.hosted = 0
          /\ m.next = layers[i].next /\ m.sinks = layers[i].sinks
      BY <1>1, <1>2 DEF Layer
    <3>2. CASE layers[i].tokens # {}
      <4>1. new[i] = m
        BY <1>1, <3>2
      <4> HIDE DEF m
      <4> QED BY <3>1, <3>2, <4>1, WholeLayer
    <3>3. CASE layers[i].tokens = {}
      <4>1. new[i] = layers[i]
        BY <1>1, <3>3
      <4> QED BY <1>1, <1>2, <4>1 DEF SameTokens
    <3> QED BY <3>2, <3>3
  <2> HIDE DEF new
  <2> QED BY <1>1, <2>1, <2>2, ChangeEachMoves
<1>6. CASE OffloadKeeping(T, n)
  <2> DEFINE new == [i \in Layers |->
        IF layers[i].tokens = {} THEN layers[i]
        ELSE IF n = 0 THEN [layers[i] EXCEPT !.away = TRUE, !.hosted = 0]
        ELSE IF n = NumTokens(layers[i]) THEN [layers[i] EXCEPT !.away = FALSE]
        ELSE [layers[i] EXCEPT !.away = FALSE,
                               !.hosted = NumTokens(layers[i]) - n]]
             bad == {i \in T : layers[i].quant \/ n > NumTokens(layers[i])}
  <2>1. ChangeEach(T, new, bad)
    BY <1>6 DEF OffloadKeeping
  <2>2. ASSUME NEW i \in T \ bad
        PROVE  SameTokens(layers[i], new[i]) /\ TierOK(new[i])
    <3> DEFINE l == layers[i]
    <3>1. l \in Layer /\ TierOK(l) /\ NumTokens(l) \in Nat /\ l.hosted \in Nat
          /\ ~l.quant /\ n <= NumTokens(l) /\ i \in Layers
      BY <1>1, <1>2
    <3>2. CASE l.tokens = {}
      BY <3>1, <3>2 DEF SameTokens
    <3>3. CASE l.tokens # {} /\ n = 0
      <4> DEFINE m == [l EXCEPT !.away = TRUE, !.hosted = 0]
      <4>1. new[i] = m
        BY <3>1, <3>3
      <4>2. /\ m \in Layer /\ m.tokens = l.tokens /\ m.next = l.next
            /\ m.sinks = l.sinks /\ m.hosted = 0
        BY <3>1 DEF Layer
      <4> HIDE DEF m, l
      <4> QED BY <3>3, <4>1, <4>2, WholeLayer DEF l
    <3>4. CASE l.tokens # {} /\ n # 0 /\ n = NumTokens(l)
      BY <3>1, <3>4 DEF SameTokens, TierOK, Layer, NumTokens
    <3>5. CASE l.tokens # {} /\ n # 0 /\ n # NumTokens(l)
      <4> DEFINE m == [l EXCEPT !.away = FALSE, !.hosted = NumTokens(l) - n]
      <4>1. new[i] = m
        BY <3>1, <3>5
      <4>2. NumTokens(l) - n \in Nat /\ NumTokens(l) - n < NumTokens(l)
        BY <3>1, <3>5
      <4>3. /\ m \in Layer /\ m.tokens = l.tokens /\ m.next = l.next
            /\ m.sinks = l.sinks
            /\ m.hosted = NumTokens(l) - n /\ ~m.quant /\ ~m.away
        BY <3>1, <4>2 DEF Layer
      <4> HIDE DEF m, l
      <4>4. SameTokens(l, m)
        BY <4>3 DEF SameTokens
      <4>5. TierOK(m)
        BY <4>2, <4>3 DEF TierOK, NumTokens
      <4> QED BY <4>1, <4>4, <4>5 DEF l
    <3> QED BY <3>2, <3>3, <3>4, <3>5
  <2>3. bad \subseteq T
    OBVIOUS
  <2> HIDE DEF new, bad
  <2> QED BY <1>1, <2>1, <2>2, <2>3, ChangeEachMoves
<1>7. CASE Prefetch(T)
  <2> DEFINE new == [i \in Layers |->
        [layers[i] EXCEPT !.away = FALSE, !.hosted = 0]]
  <2>1. ChangeEach(T, new, {})
    BY <1>7 DEF Prefetch
  <2>2. ASSUME NEW i \in T \ {}
        PROVE  SameTokens(layers[i], new[i]) /\ TierOK(new[i])
    <3> DEFINE m == [layers[i] EXCEPT !.away = FALSE, !.hosted = 0]
    <3>1. /\ m \in Layer /\ m.tokens = layers[i].tokens /\ m.hosted = 0
          /\ m.next = layers[i].next /\ m.sinks = layers[i].sinks
      BY <1>1, <1>2 DEF Layer
    <3>2. new[i] = m /\ ~m.quant = ~layers[i].quant /\ ~m.away
      BY <1>1, <1>2 DEF Layer
    <3> HIDE DEF m
    <3>3. CASE layers[i].tokens # {}
      BY <3>1, <3>2, <3>3, WholeLayer
    <3>4. CASE layers[i].tokens = {}
      <4>1. ~m.quant
        BY <1>1, <1>2, <3>2, <3>4 DEF TierOK
      <4> QED BY <3>1, <3>2, <4>1, WholeLayer
    <3> QED BY <3>3, <3>4
  <2> HIDE DEF new
  <2> QED BY <1>1, <2>1, <2>2, ChangeEachMoves
<1>8. CASE n >= 1 /\ PrefetchTokens(T, n)
  <2> DEFINE new == [i \in Layers |->
        [layers[i] EXCEPT !.hosted = IF @ > n THEN @ - n ELSE 0]]
  <2>1. ChangeEach(T, new, {})
    BY <1>8 DEF PrefetchTokens
  <2>2. ASSUME NEW i \in T \ {}
        PROVE  SameTokens(layers[i], new[i]) /\ TierOK(new[i])
    <3> DEFINE l == layers[i]
               h == IF l.hosted > n THEN l.hosted - n ELSE 0
               m == [l EXCEPT !.hosted = h]
    <3>1. l \in Layer /\ TierOK(l) /\ NumTokens(l) \in Nat /\ l.hosted \in Nat
          /\ i \in Layers
      BY <1>1, <1>2
    <3>2. new[i] = m
      BY <3>1
    <3> HIDE DEF l
    <3>3. h \in Nat /\ h <= l.hosted /\ (h > 0 => l.hosted > 0)
      BY <1>8, <3>1
    <3> HIDE DEF h
    <3>4. /\ m \in Layer /\ m.tokens = l.tokens /\ m.next = l.next
          /\ m.sinks = l.sinks /\ m.hosted = h
          /\ m.quant = l.quant /\ m.away = l.away
      BY <3>1, <3>3 DEF Layer
    <3> HIDE DEF m
    <3>5. SameTokens(l, m)
      BY <3>4 DEF SameTokens
    <3>6. TierOK(m)
      BY <3>1, <3>3, <3>4 DEF TierOK, NumTokens
    <3> QED BY <3>2, <3>5, <3>6 DEF l
  <2> HIDE DEF new
  <2> QED BY <1>1, <2>1, <2>2, ChangeEachMoves
<1> QED BY <1>3, <1>4, <1>5, <1>6, <1>7, <1>8

CacheInv ==
  /\ [layers |-> layers, config |-> config, activity |-> activity] \in Contents
  /\ outcome \in {"ok", "raised"}
  /\ ckpt \in Seq(Contents)
  /\ DeferInv
  /\ SoundStore(layers)
  /\ ckpt # <<>> => SoundStore(ckpt[1].layers)

Restored ==
  /\ Calls \cap {"load", "reopen"} # {}
  /\ ckpt # <<>>
  /\ layers' = ckpt[1].layers
  /\ activity' = ckpt[1].activity
  /\ UNCHANGED ckpt

\* A step through the store ls; without explicit evictions it drops what the
\* policy favours least, and with the configured number of sinks it drops
\* nothing uncounted.
Through(ls) ==
  /\ ls = layers \/ Appended(ls)
  /\ \E bad : Moves(ls, bad)
  /\ "evict" \notin Calls /\ (\A i \in Layers : layers[i].sinks = config.sinks)
       => Moves(ls, {})
  /\ "evict" \notin Calls =>
       \A i \in Layers : Favoured(ls[i], layers'[i].tokens)

LEMMA FavouredAll ==
  ASSUME NEW l, NEW m, m.tokens = l.tokens
  PROVE  Favoured(l, m.tokens)
BY DEF Favoured

LEMMA CacheFacts ==
  ASSUME CacheInv
  PROVE  /\ SoundStore(layers) /\ layers \in [Layers -> Layer]
         /\ config \in Configs /\ activity \in Counters
         /\ ckpt # <<>> => /\ ckpt[1] \in Contents
                           /\ SoundStore(ckpt[1].layers)
                           /\ ckpt[1].activity \in Counters
<1>1. layers \in [Layers -> Layer] /\ config \in Configs
      /\ activity \in Counters
  <2> DEFINE c == [layers |-> layers, config |-> config, activity |-> activity]
  <2>1. c \in Contents
    BY DEF CacheInv
  <2>2. c.layers = layers /\ c.config = config /\ c.activity = activity
    OBVIOUS
  <2> HIDE DEF c
  <2> QED BY <2>1, <2>2 DEF Contents, Counters
<1>2. ckpt # <<>> => ckpt[1] \in Contents
  BY EmptySeq, ElementOfSeq DEF CacheInv
<1>3. ckpt # <<>> => ckpt[1].activity \in Counters
  BY <1>2 DEF Contents, Counters
<1> QED BY <1>1, <1>2, <1>3 DEF CacheInv

LEMMA EnforceOrSettle ==
  ASSUME SoundStore(layers), NEW ls, ls = layers \/ Appended(ls), NEW c,
         c \in Configs, c.sinks = config.sinks, NEW T \in SUBSET Layers,
         Enforce(ls, c, T) \/ Settle(ls)
  PROVE  Through(ls)
<1>1. SoundStore(ls) /\ \A i \in Layers : ls[i].sinks = layers[i].sinks
  BY AppendedSound
<1>2. CASE Enforce(ls, c, T)
  <2>1. /\ \E bad : Moves(ls, bad)
        /\ (\A i \in Layers : ls[i].sinks = c.sinks) => Moves(ls, {})
        /\ \A i \in Layers : Favoured(ls[i], layers'[i].tokens)
    BY <1>1, <1>2, EnforceMoves
  <2> QED BY <1>1, <2>1 DEF Through
<1>3. CASE Settle(ls)
  <2>1. Moves(ls, {}) /\ layers' = ls
    BY <1>1, <1>3, SettleMoves DEF Settle
  <2> QED BY <2>1, FavouredAll DEF Through
<1> QED BY <1>2, <1>3

LEMMA StepShape ==
  ASSUME CacheInv, [Next]_vars
  PROVE  \/ Restored
         \/ "clear" \in Calls /\ ClearAll
         \/ (ckpt' = ckpt \/ Save) /\ \E ls : Through(ls)
<1>1. SoundStore(layers) /\ layers \in [Layers -> Layer] /\ config \in Configs
  BY CacheFacts
<1>quiet. ASSUME UNCHANGED <<layers, activity>> PROVE Through(layers)
  <2>1. Moves(layers, {})
    <3>1. \A i \in Layers : Shrunk(layers[i], layers[i])
      BY <1>1 DEF Shrunk
    <3>2. TotalTokens(layers) - TotalTokens(layers) = 0
      BY <1>1, TotalsAreNat
    <3> QED BY <1>1, <1>quiet, <3>1, <3>2 DEF Moves, Counted
  <2> QED BY <1>quiet, <2>1, FavouredAll DEF Through
<1>2. ASSUME NEW i \in Layers, NEW start \in 0 .. MaxPosition,
             NEW n \in 1 .. MaxPosition, AppendTokens(i, start, n)
      PROVE  ckpt' = ckpt /\ \E ls : Through(ls)
  <2> DEFINE ls == [layers EXCEPT ![i] = AppendTo(@, start, n)]
  <2>1. /\ start \in Nat /\ n \in Nat /\ n >= 1 /\ {i} \in SUBSET Layers
    BY BoundsAssumption
  <2>2. /\ start >= layers[i].next /\ ("skip" \in Calls \/ start = layers[i].next)
        /\ Enforce(ls, config, {i}) \/ Settle(ls)
        /\ ckpt' = ckpt
    BY <1>2 DEF AppendTokens
  <2>3. Appended(ls)
    BY <2>1, <2>2 DEF Appended
  <2> HIDE DEF ls
  <2> QED BY <1>1, <2>1, <2>2, <2>3, EnforceOrSettle
<1>3. ASSUME NEW T \in Targets, EvictByPolicy(T)
      PROVE  ckpt' = ckpt /\ \E ls : Through(ls)
  <2>1. T \in SUBSET Layers /\ Enforce(layers, config, T) /\ ckpt' = ckpt
    BY <1>3, TargetsAreLayers DEF EvictByPolicy
  <2> QED BY <1>1, <2>1, EnforceOrSettle
<1>4. ASSUME NEW T \in Targets, NEW slots, NEW drop \in BOOLEAN,
             EvictSlots(T, slots, drop)
      PROVE  ckpt' = ckpt /\ \E ls : Through(ls)
  <2>1. "evict" \in Calls /\ ckpt' = ckpt
    BY <1>4 DEF EvictSlots
  <2>2. \E bad : Moves(layers, bad)
    BY <1>1, <1>4, EvictSlotsMoves
  <2> QED BY <2>1, <2>2 DEF Through
<1>5. CASE ClearAll
  BY <1>5 DEF ClearAll
<1>6. ASSUME NEW T \in Targets, NEW n \in Nat,
             \/ CompressAll(T) \/ DecompressAll(T) \/ Offload(T)
             \/ OffloadKeeping(T, n) \/ Prefetch(T)
             \/ n >= 1 /\ PrefetchTokens(T, n)
      PROVE  ckpt' = ckpt /\ \E ls : Through(ls)
  <2>1. Moves(layers, {})
        /\ \A i \in Layers : layers'[i].tokens = layers[i].tokens
    BY <1>1, <1>6, TierCallsMove
  <2>2. ckpt' = ckpt
    BY <1>6 DEF CompressAll, DecompressAll, Offload, OffloadKeeping, Prefetch,
                PrefetchTokens, ChangeEach
  <2> QED BY <2>1, <2>2, FavouredAll DEF Through
<1>7. ASSUME NEW cap \in Capacities, SetCapacity(cap)
      PROVE  ckpt' = ckpt /\ \E ls : Through(ls)
  <2> DEFINE c == [config EXCEPT !.cap = cap]
  <2>1. CASE ValidConfig(c)
    <3>1. Enforce(layers, c, Layers) \/ Settle(layers)
      BY <1>7, <2>1 DEF SetCapacity
    <3>2. c \in Configs /\ c.sinks = config.sinks
      BY <1>1, <2>1 DEF Configs
    <3>3. ckpt' = ckpt
      BY <1>7 DEF SetCapacity
    <3> HIDE DEF c
    <3> QED BY <1>1, <3>1, <3>2, <3>3, EnforceOrSettle
  <2>2. CASE ~ValidConfig(c)
    BY <1>7, <1>quiet, <2>2 DEF SetCapacity
  <2> QED BY <2>1, <2>2
<1>8. CASE EnterDefer
  BY <1>8, <1>quiet DEF EnterDefer
<1>9. ASSUME NEW succeeded \in BOOLEAN, ExitDefer(succeeded)
      PROVE  ckpt' = ckpt /\ \E ls : Through(ls)
  <2>1. (Enforce(layers, config, Layers) \/ Settle(layers)) /\ ckpt' = ckpt
    BY <1>9 DEF ExitDefer
  <2> QED BY <1>1, <2>1, EnforceOrSettle
<1>10. CASE Save
  <2>1. UNCHANGED <<layers, activity>>
    BY <1>10 DEF Save
  <2> QED BY <1>10, <1>quiet, <2>1
<1>11. CASE LoadCheckpoint
  BY <1>11 DEF LoadCheckpoint, Restored
<1>12. CASE LoadRefused
  BY <1>12, <1>quiet DEF LoadRefused
<1>13. ASSUME NEW c \in Configs, Reopen(c) PROVE Restored
  BY <1>13 DEF Reopen, Restored
<1>14. CASE UNCHANGED vars
  BY <1>14, <1>quiet DEF vars
<1>15. 0 .. MaxPosition \subseteq Nat
       /\ \A n \in 1 .. MaxPosition : n \in Nat /\ n >= 1
  BY BoundsAssumption
<1>16. CASE \E T \in Targets :
              \/ CompressAll(T) \/ DecompressAll(T) \/ Offload(T) \/ Prefetch(T)
              \/ \E r \in 0 .. MaxPosition : OffloadKeeping(T, r)
              \/ \E n \in 1 .. MaxPosition : PrefetchTokens(T, n)
  <2>1. PICK T \in Targets :
              \/ CompressAll(T) \/ DecompressAll(T) \/ Offload(T) \/ Prefetch(T)
              \/ \E r \in 0 .. MaxPosition : OffloadKeeping(T, r)
              \/ \E n \in 1 .. MaxPosition : PrefetchTokens(T, n)
    BY <1>16
  <2>2. \E n \in Nat : \/ CompressAll(T) \/ DecompressAll(T) \/ Offload(T)
                       \/ OffloadKeeping(T, n) \/ Prefetch(T)
                       \/ n >= 1 /\ PrefetchTokens(T, n)
    BY <1>15, <2>1
  <2> QED BY <1>6, <2>2
<1> QED
  BY <1>2, <1>3, <1>4, <1>5, <1>7, <1>8, <1>9, <1>10, <1>11, <1>12, <1>13,
     <1>14, <1>16 DEF Next

LEMMA CountedFacts ==
  ASSUME activity \in Counters, NEW d \in Nat, NEW bad
  PROVE  /\ Counted(bad, d) \in Counters
         /\ Counted(bad, d).evictedTokens <= activity.evictedTokens + d
         /\ bad = {} =>
              /\ Counted(bad, d).evictedTokens = activity.evictedTokens + d
              /\ activity.evictions <= activity.evictedTokens =>
                   Counted(bad, d).evictions <= Counted(bad, d).evictedTokens
<1>1. activity.evictions \in Nat /\ activity.evictedTokens \in Nat
  BY DEF Counters
<1>2. CASE bad # {} \/ d = 0
  BY <1>1, <1>2 DEF Counted
<1>3. CASE ~(bad # {} \/ d = 0)
  <2>1. Counted(bad, d) = [evictions |-> activity.evictions + 1,
                           evictedTokens |-> activity.evictedTokens + d]
    BY <1>3 DEF Counted
  <2>2. d >= 1
    BY <1>3
  <2> QED BY <1>1, <2>1, <2>2 DEF Counters
<1> QED BY <1>2, <1>3

LEMMA ClearedSound ==
  ASSUME CacheInv, ClearAll
  PROVE  /\ SoundStore(layers')
         /\ \A i \in Layers : layers'[i].tokens = {} /\ layers'[i].next = 0
         /\ UNCHANGED <<activity, ckpt, config>>
<1>1. config.sinks \in Nat /\ \A i \in Layers : layers[i] \in Layer
  BY CacheFacts, SinksAssumption DEF Configs
<1>2. layers' = [i \in Layers |->
                   [NewLayer(config) EXCEPT !.sinks = layers[i].sinks]]
      /\ UNCHANGED <<activity, ckpt, config>>
  BY DEF ClearAll
<1>3. ASSUME NEW i \in Layers
      PROVE  /\ layers'[i] \in Layer
             /\ layers'[i].tokens = {} /\ layers'[i].next = 0
             /\ layers'[i].hosted = 0 /\ ~layers'[i].quant /\ ~layers'[i].away
  BY <1>1, <1>2 DEF NewLayer, Layer
<1>4. \A i \in Layers : SoundLayer(layers'[i])
  BY <1>3 DEF SoundLayer, TierOK
<1>5. layers' \in [Layers -> Layer]
  BY <1>2, <1>3
<1> QED BY <1>2, <1>3, <1>4, <1>5 DEF SoundStore

\* The configuration and the outcome keep their types; only a cache that is
\* opened anew gets another number of sinks.
LEMMA ConfigStep ==
  ASSUME config \in Configs, outcome \in {"ok", "raised"}, [Next]_vars
  PROVE  /\ config' \in Configs /\ outcome' \in {"ok", "raised"}
         /\ "reopen" \in Calls \/ config'.sinks = config.sinks
<1>1. ASSUME NEW ls, NEW c, NEW T, Enforce(ls, c, T) \/ Settle(ls)
      PROVE  outcome' \in {"ok", "raised"}
  BY <1>1 DEF Enforce, Settle, Outcome
<1>2. ASSUME NEW T, NEW new, NEW bad, ChangeEach(T, new, bad)
      PROVE  UNCHANGED config /\ outcome' \in {"ok", "raised"}
  BY <1>2 DEF ChangeEach, Outcome
<1>3. ASSUME NEW i, NEW start, NEW n, AppendTokens(i, start, n)
      PROVE  UNCHANGED config /\ outcome' \in {"ok", "raised"}
  BY <1>1, <1>3 DEF AppendTokens
<1>4. ASSUME NEW T, EvictByPolicy(T)
      PROVE  UNCHANGED config /\ outcome' \in {"ok", "raised"}
  BY <1>1, <1>4 DEF EvictByPolicy
<1>5. ASSUME NEW T, NEW slots, NEW drop, EvictSlots(T, slots, drop)
      PROVE  UNCHANGED config /\ outcome' \in {"ok", "raised"}
  BY <1>5 DEF EvictSlots, Outcome
<1>6. ASSUME NEW cap \in Capacities, SetCapacity(cap)
      PROVE  /\ config' \in Configs /\ config'.sinks = config.sinks
             /\ outcome' \in {"ok", "raised"}
  <2> DEFINE c == [config EXCEPT !.cap = cap]
  <2>1. CASE ValidConfig(c)
    <3>1. config' = c /\ (Enforce(layers, c, Layers) \/ Settle(layers))
      BY <1>6, <2>1 DEF SetCapacity
    <3>2. c \in Configs /\ c.sinks = config.sinks
      BY <2>1 DEF Configs
    <3> HIDE DEF c
    <3> QED BY <1>1, <3>1, <3>2
  <2>2. CASE ~ValidConfig(c)
    BY <1>6, <2>2 DEF SetCapacity
  <2> QED BY <2>1, <2>2
<1>7. ASSUME NEW succeeded, ExitDefer(succeeded)
      PROVE  UNCHANGED config /\ outcome' \in {"ok", "raised"}
  BY <1>1, <1>7 DEF ExitDefer
<1>8. ASSUME NEW c \in Configs, Reopen(c)
      PROVE  /\ config' \in Configs /\ outcome' \in {"ok", "raised"}
             /\ "reopen" \in Calls
  BY <1>8 DEF Reopen
<1>9. CASE ClearAll \/ EnterDefer \/ Save \/ LoadCheckpoint \/ LoadRefused
           \/ UNCHANGED vars
  BY <1>9 DEF ClearAll, EnterDefer, Save, LoadCheckpoint, LoadRefused, vars
<1>10. CASE \E T \in Targets :
              \/ CompressAll(T) \/ DecompressAll(T) \/ Offload(T) \/ Prefetch(T)
              \/ \E r \in 0 .. MaxPosition : OffloadKeeping(T, r)
              \/ \E n \in 1 .. MaxPosition : PrefetchTokens(T, n)
  <2>1. \E T, new, bad : ChangeEach(T, new, bad)
    BY <1>10 DEF CompressAll, DecompressAll, Offload, OffloadKeeping, Prefetch,
                 PrefetchTokens
  <2> QED BY <1>2, <2>1
<1> QED
  BY <1>3, <1>4, <1>5, <1>6, <1>7, <1>8, <1>9, <1>10 DEF Next

LEMMA CacheStep ==
  ASSUME CacheInv, [Next]_vars
  PROVE  CacheInv'
<1>1. /\ SoundStore(layers) /\ layers \in [Layers -> Layer]
      /\ config \in Configs /\ activity \in Counters
      /\ ckpt # <<>> => /\ ckpt[1] \in Contents
                        /\ SoundStore(ckpt[1].layers)
                        /\ ckpt[1].activity \in Counters
  BY CacheFacts
<1>2. DeferInv' /\ config' \in Configs /\ outcome' \in {"ok", "raised"}
  BY <1>1, DeferInvStep, ConfigStep DEF CacheInv
<1>3. SoundStore(layers') /\ activity' \in Counters
  <2>1. CASE Restored
    BY <1>1, <2>1 DEF Restored
  <2>2. CASE ClearAll
    BY <1>1, <2>2, ClearedSound
  <2>3. CASE \E ls : Through(ls)
    <3>1. PICK ls : Through(ls)
      BY <2>3
    <3>2. PICK bad : Moves(ls, bad)
      BY <3>1 DEF Through
    <3>3. SoundStore(ls)
      BY <1>1, <3>1, AppendedSound DEF Through
    <3>4. TotalTokens(ls) - TotalTokens(layers') \in Nat
      BY <3>2, <3>3, TotalsShrink DEF Moves
    <3> DEFINE d == TotalTokens(ls) - TotalTokens(layers')
    <3>5. SoundStore(layers') /\ activity' = Counted(bad, d)
      BY <3>2 DEF Moves
    <3> HIDE DEF d
    <3>6. activity' \in Counters
      BY <1>1, <3>4, <3>5, CountedFacts DEF d
    <3> QED BY <3>5, <3>6
  <2> QED BY <2>1, <2>2, <2>3, StepShape
<1>4. [layers |-> layers, config |-> config, activity |-> activity]' \in Contents
  <2>1. layers' \in [Layers -> Layer]
    BY <1>3 DEF SoundStore
  <2> QED BY <1>2, <1>3, <2>1 DEF Contents, Counters
<1>5. ckpt' \in Seq(Contents) /\ (ckpt' # <<>> => SoundStore(ckpt'[1].layers))
  <2>1. CASE ckpt' = ckpt
    BY <1>1, <2>1 DEF CacheInv
  <2>2. CASE Save
    <3> DEFINE c == [layers |-> layers, config |-> config,
                     activity |-> activity]
    <3>1. c \in Contents /\ c.layers = layers /\ ckpt' = <<c>>
      BY <2>2 DEF Save, CacheInv
    <3> HIDE DEF c
    <3>2. ckpt' \in Seq(Contents) /\ ckpt'[1] = c
      BY <3>1
    <3> QED BY <1>1, <3>1, <3>2
  <2>3. ckpt' = ckpt \/ Save
    BY StepShape, ClearedSound DEF Restored
  <2> QED BY <2>1, <2>2, <2>3
<1> QED BY <1>2, <1>3, <1>4, <1>5 DEF CacheInv

LEMMA CacheInit == Init => CacheInv
<1> SUFFICES ASSUME Init PROVE CacheInv
  OBVIOUS
<1>1. /\ config \in Configs /\ layers = [i \in Layers |-> NewLayer(config)]
      /\ activity = [evictions |-> 0, evictedTokens |-> 0]
      /\ ckpt = <<>> /\ outcome = "ok" /\ autoEnforce = AutoEnforce
      /\ deferred = <<>>
  BY DEF Init
<1>2. config.sinks \in Nat
  BY <1>1, SinksAssumption DEF Configs
<1>3. /\ NewLayer(config) \in Layer /\ NewLayer(config).tokens = {}
      /\ NewLayer(config).hosted = 0
      /\ ~NewLayer(config).quant /\ ~NewLayer(config).away
  BY <1>2 DEF NewLayer, Layer
<1>4. SoundLayer(NewLayer(config))
  BY <1>3 DEF SoundLayer, TierOK
<1>5. SoundStore(layers)
  BY <1>1, <1>3, <1>4 DEF SoundStore
<1>6. activity \in Counters
  BY <1>1 DEF Counters
<1>7. [layers |-> layers, config |-> config, activity |-> activity] \in Contents
  BY <1>1, <1>5, <1>6 DEF Contents, SoundStore, Counters
<1>8. ckpt \in Seq(Contents)
  BY <1>1
<1>9. DeferInv
  BY <1>1, PolicyAssumption DEF DeferInv, DeferRestores
<1> QED BY <1>1, <1>5, <1>7, <1>8, <1>9 DEF CacheInv

LEMMA CacheInvariant == Spec => []CacheInv
BY CacheInit, CacheStep, PTL DEF Spec

\* Every variable keeps its type, whatever calls are made and wherever they
\* raise.
THEOREM CacheTypes == Spec => []TypeOK
<1>1. CacheInv => TypeOK
  BY DEF CacheInv, TypeOK, DeferInv, SoundStore, SoundLayer
<1> QED BY <1>1, CacheInvariant, PTL

\* Every layer is in one tier and one representation, through every sequence of
\* calls of KVCache, partial offloads that raise half-way and restores among
\* them; a layer without tokens has neither a payload nor a tier.
THEOREM LayersKeepOneTier == Spec => []TiersConsistent
<1>1. CacheInv => TiersConsistent
  BY DEF CacheInv, SoundStore, SoundLayer, TierOK, TiersConsistent
<1> QED BY <1>1, CacheInvariant, PTL

(***************************************************************************)
(* Positions and counters.                                                 *)
(***************************************************************************)

LEMMA PositionsStep ==
  ASSUME CacheInv, [Next]_vars, ckpt = <<>> \/ layers' # ckpt[1].layers
  PROVE  \A i \in Layers :
           /\ \A p \in layers'[i].tokens \ layers[i].tokens : p >= layers[i].next
           /\ \/ layers'[i].next >= layers[i].next
              \/ layers'[i].next = 0 /\ TotalTokens(layers') = 0
<1>1. SoundStore(layers)
  BY CacheFacts
<1>2. CASE ClearAll
  BY <1>2, ClearedSound, TotalsOfEmpty
<1>3. CASE \E ls : Through(ls)
  <2>1. PICK ls : Through(ls)
    BY <1>3
  <2>2. \A i \in Layers : Shrunk(ls[i], layers'[i])
    BY <2>1 DEF Through, Moves
  <2>3. ASSUME NEW i \in Layers
        PROVE  /\ \A p \in ls[i].tokens \ layers[i].tokens : p >= layers[i].next
               /\ ls[i].next >= layers[i].next
    <3>1. layers[i].next \in Nat
      BY <1>1 DEF SoundStore, Layer
    <3>2. CASE ls = layers
      BY <3>1, <3>2
    <3>3. CASE Appended(ls)
      BY <1>1, <3>3, AppendedSound
    <3> QED BY <2>1, <3>2, <3>3 DEF Through
  <2> QED BY <2>2, <2>3 DEF Shrunk
<1> QED BY <1>2, <1>3, StepShape DEF Restored

\* Positions are absolute: no call but a restore brings in a token at a
\* position the layer has already used, and only a call that empties the whole
\* cache makes the positions start over (LayerMetadata.append and _clear).
THEOREM PositionsAreNotReused == Spec => PositionsNotReused
<1>1. CacheInv /\ [Next]_vars =>
        [ckpt = <<>> \/ layers' # ckpt[1].layers =>
           \A i \in Layers :
             /\ \A p \in layers'[i].tokens \ layers[i].tokens :
                  p >= layers[i].next
             /\ \/ layers'[i].next >= layers[i].next
                \/ layers'[i].next = 0 /\ TotalTokens(layers') = 0]_vars
  BY PositionsStep
<1> QED BY <1>1, CacheInvariant, PTL DEF Spec, PositionsNotReused

\* No token is both cached and counted as evicted.
Covered(ls, a) == TotalTokens(ls) + a.evictedTokens <= Sum(Nexts(ls), Layers)

CoverInv ==
  /\ CacheInv
  /\ Covered(layers, activity)
  /\ ckpt # <<>> => Covered(ckpt[1].layers, ckpt[1].activity)

LEMMA CoverStep ==
  ASSUME "clear" \notin Calls, CoverInv, [Next]_vars
  PROVE  CoverInv'
<1>1. CacheInv /\ CacheInv' /\ SoundStore(layers) /\ activity \in Counters
  BY CacheStep, CacheFacts DEF CoverInv
<1>2. Covered(layers', activity')
  <2>1. CASE Restored
    BY <2>1 DEF Restored, CoverInv
  <2>2. CASE \E ls : Through(ls)
    <3>1. PICK ls : Through(ls)
      BY <2>2
    <3>2. PICK bad : Moves(ls, bad)
      BY <3>1 DEF Through
    <3> DEFINE t == TotalTokens(layers)
               x == Sum(Nexts(layers), Layers)
               u == TotalTokens(ls)
               y == Sum(Nexts(ls), Layers)
               v == TotalTokens(layers')
               z == Sum(Nexts(layers'), Layers)
               e == activity.evictedTokens
               f == activity'.evictedTokens
    <3>3. SoundStore(ls) /\ SoundStore(layers')
      BY <1>1, <3>1, <3>2, AppendedSound DEF Through, Moves
    <3>4. t \in Nat /\ x \in Nat /\ u \in Nat /\ y \in Nat /\ v \in Nat
          /\ z \in Nat /\ e \in Nat
      BY <1>1, <3>3, TotalsAreNat DEF Counters
    <3>5. v <= u /\ z = y /\ u - v \in Nat
      BY <3>2, <3>3, TotalsShrink DEF Moves
    <3>6. \E n \in Nat : u = t + n /\ y >= x + n
      <4>1. CASE ls = layers
        <5>1. u = t /\ y = x
          BY <4>1
        <5> HIDE DEF t, u, x, y
        <5> QED BY <3>4, <5>1
      <4>2. CASE Appended(ls)
        BY <1>1, <4>2, AppendedSound
      <4> QED BY <3>1, <4>1, <4>2 DEF Through
    <3>7. f \in Nat /\ f <= e + (u - v)
      <4>1. activity' = Counted(bad, u - v)
        BY <3>2 DEF Moves
      <4> HIDE DEF u, v
      <4> QED BY <1>1, <3>5, <4>1, CountedFacts DEF Counters
    <3>8. t + e <= x
      BY DEF CoverInv, Covered
    <3> HIDE DEF t, x, u, y, v, z, e, f
    <3>9. v + f <= z
      BY <3>4, <3>5, <3>6, <3>7, <3>8
    <3> QED BY <3>9 DEF Covered, v, f, z
  <2> QED BY <1>1, <2>1, <2>2, StepShape
<1>3. ckpt' # <<>> => Covered(ckpt'[1].layers, ckpt'[1].activity)
  <2>1. CASE ckpt' = ckpt
    BY <2>1 DEF CoverInv
  <2>2. CASE Save
    BY <2>2 DEF Save, CoverInv
  <2> QED BY <1>1, <2>1, <2>2, StepShape DEF Restored
<1> QED BY <1>1, <1>2, <1>3 DEF CoverInv

LEMMA NothingYet ==
  ASSUME Init
  PROVE  TotalTokens(layers) = 0 /\ Sum(Nexts(layers), Layers) = 0
<1>1. \A i \in Layers : layers[i].tokens = {} /\ layers[i].next = 0
  BY DEF Init, NewLayer
<1>2. \A i \in Layers : Nexts(layers)[i] = 0
  BY <1>1 DEF Nexts
<1> QED BY <1>1, <1>2, TotalsOfEmpty, SumZero, LayersFinite

\* As long as nobody clears the cache, the eviction counter never counts a
\* token that is still cached, whichever calls raise half-way and whatever is
\* saved and restored.
THEOREM EvictionsAreNeverOvercounted ==
  ASSUME "clear" \notin Calls
  PROVE  Spec => []NeverOvercounted
<1>1. Init => CoverInv
  <2> SUFFICES ASSUME Init PROVE CoverInv
    OBVIOUS
  <2>1. activity.evictedTokens = 0 /\ ckpt = <<>>
    BY DEF Init
  <2> QED BY <2>1, CacheInit, NothingYet DEF CoverInv, Covered
<1>2. CoverInv /\ [Next]_vars => CoverInv'
  BY CoverStep
<1>3. CoverInv => NeverOvercounted
  BY NextIsSum DEF CoverInv, Covered, NeverOvercounted
<1> QED BY <1>1, <1>2, <1>3, PTL DEF Spec

\* Every token handed out is cached or counted.
Exact(ls, a) ==
  /\ Sum(Nexts(ls), Layers) = TotalTokens(ls) + a.evictedTokens
  /\ a.evictions <= a.evictedTokens

ExactInv ==
  /\ CacheInv
  /\ SinkInv
  /\ Exact(layers, activity)
  /\ ckpt # <<>> => Exact(ckpt[1].layers, ckpt[1].activity)

LEMMA ExactStep ==
  ASSUME Calls \cap {"clear", "skip", "evict", "reopen"} = {},
         ExactInv, [Next]_vars
  PROVE  ExactInv'
<1>1. CacheInv /\ CacheInv' /\ SoundStore(layers) /\ activity \in Counters
  BY CacheStep, CacheFacts DEF ExactInv
<1>2. SinkInv'
  <2>1. Calls \cap {"evict", "skip", "reopen"} = {}
    OBVIOUS
  <2> QED BY <2>1, SinkStep DEF ExactInv
<1>3. \A i \in Layers : layers[i].sinks = config.sinks
  BY DEF ExactInv, SinkInv, StoreInv, StoreOK
<1>4. ~("clear" \in Calls) /\ ~("evict" \in Calls) /\ ~("skip" \in Calls)
  OBVIOUS
<1>5. Exact(layers', activity')
  <2>1. CASE Restored
    BY <2>1 DEF Restored, ExactInv
  <2>2. CASE \E ls : Through(ls)
    <3>1. PICK ls : Through(ls)
      BY <2>2
    <3>2. Moves(ls, {})
      BY <1>3, <1>4, <3>1 DEF Through
    <3> DEFINE t == TotalTokens(layers)
               x == Sum(Nexts(layers), Layers)
               u == TotalTokens(ls)
               y == Sum(Nexts(ls), Layers)
               v == TotalTokens(layers')
               z == Sum(Nexts(layers'), Layers)
               e == activity.evictedTokens
               f == activity'.evictedTokens
    <3>3. SoundStore(ls) /\ SoundStore(layers')
      BY <1>1, <3>1, <3>2, AppendedSound DEF Through, Moves
    <3>4. t \in Nat /\ x \in Nat /\ u \in Nat /\ y \in Nat /\ v \in Nat
          /\ z \in Nat /\ e \in Nat
      BY <1>1, <3>3, TotalsAreNat DEF Counters
    <3>5. v <= u /\ z = y /\ u - v \in Nat
      BY <3>2, <3>3, TotalsShrink DEF Moves
    <3>6. \E n \in Nat : u = t + n /\ y = x + n
      <4>1. CASE ls = layers
        <5>1. u = t /\ y = x
          BY <4>1
        <5> HIDE DEF t, u, x, y
        <5> QED BY <3>4, <5>1
      <4>2. CASE Appended(ls)
        BY <1>1, <1>4, <4>2, AppendedSound
      <4> QED BY <3>1, <4>1, <4>2 DEF Through
    <3>7. f = e + (u - v) /\ activity'.evictions <= f
      <4>1. activity' = Counted({}, u - v)
        BY <3>2 DEF Moves
      <4>2. activity.evictions <= activity.evictedTokens
        BY DEF ExactInv, Exact
      <4> HIDE DEF u, v
      <4> QED BY <1>1, <3>5, <4>1, <4>2, CountedFacts
    <3>8. x = t + e
      BY DEF ExactInv, Exact
    <3>9. activity'.evictions <= f
      BY <3>7
    <3> HIDE DEF t, x, u, y, v, z, e, f
    <3>10. z = v + f
      BY <3>4, <3>5, <3>6, <3>7, <3>8
    <3> QED BY <3>9, <3>10 DEF Exact, v, f, z
  <2> QED BY <1>1, <1>4, <2>1, <2>2, StepShape
<1>6. ckpt' # <<>> => Exact(ckpt'[1].layers, ckpt'[1].activity)
  <2>1. CASE ckpt' = ckpt
    BY <2>1 DEF ExactInv
  <2>2. CASE Save
    BY <2>2 DEF Save, ExactInv
  <2> QED BY <1>1, <1>4, <2>1, <2>2, StepShape DEF Restored
<1> QED BY <1>1, <1>2, <1>5, <1>6 DEF ExactInv

\* As long as positions are handed out one after the other and evictions are
\* left to the policy, every token ever handed out is cached or counted as
\* evicted, exactly once: over appends, changed budgets, deferred blocks, and
\* restores that bring back contents and counters together.
THEOREM TokensAreAccountedFor ==
  ASSUME Calls \cap {"clear", "skip", "evict", "reopen"} = {}
  PROVE  Spec => []EveryTokenAccounted
<1>1. Init => ExactInv
  <2> SUFFICES ASSUME Init PROVE ExactInv
    OBVIOUS
  <2>1. /\ activity.evictedTokens = 0 /\ activity.evictions = 0
        /\ ckpt = <<>>
    BY DEF Init
  <2> QED BY <2>1, CacheInit, SinkInit, NothingYet DEF ExactInv, Exact
<1>2. ExactInv /\ [Next]_vars => ExactInv'
  BY ExactStep
<1>3. ExactInv => EveryTokenAccounted
  BY NextIsSum DEF ExactInv, Exact, EveryTokenAccounted
<1> QED BY <1>1, <1>2, <1>3, PTL DEF Spec

(***************************************************************************)
(* The shape of a sliding window.                                          *)
(***************************************************************************)

\* Behind the first k positions, l holds an unbroken run up to the newest.
Window(l, k) ==
  \A p \in l.tokens : p >= k => p .. l.next - 1 \subseteq l.tokens

WindowInv ==
  /\ CacheInv
  /\ SinkInv
  /\ \A i \in Layers : Window(layers[i], config.sinks)
  /\ ckpt # <<>> => \A i \in Layers : Window(ckpt[1].layers[i], config.sinks)

LEMMA AppendKeepsWindow ==
  ASSUME NEW l, SoundLayer(l), NEW n \in Nat, NEW k \in Nat, Window(l, k)
  PROVE  Window(AppendTo(l, l.next, n), k)
<1>1. l \in Layer /\ l.next \in Nat /\ l.tokens \subseteq 0 .. l.next - 1
      /\ IsFiniteSet(l.tokens)
  BY SoundIsFinite DEF SoundLayer, Layer
<1> DEFINE m == AppendTo(l, l.next, n)
<1>2. m.next = l.next + n /\ m.tokens = l.tokens \cup (l.next .. l.next + n - 1)
  BY <1>1, AppendToLayer, ZenonT(30)
<1> HIDE DEF m
<1>3. ASSUME NEW p \in m.tokens, p >= k, NEW q \in p .. m.next - 1
      PROVE  q \in m.tokens
  <2>1. CASE q >= l.next
    BY <1>1, <1>2, <1>3, <2>1
  <2>2. CASE ~(q >= l.next)
    <3>1. p \in l.tokens /\ q \in p .. l.next - 1
      BY <1>1, <1>2, <1>3, <2>2
    <3> QED BY <1>2, <1>3, <3>1 DEF Window
  <2> QED BY <2>1, <2>2
<1> QED BY <1>3 DEF Window, m

\* The sliding window scores by position: what it drops is older than every
\* token it keeps behind the sinks.
LEMMA EvictionKeepsWindow ==
  ASSUME NEW l, SoundLayer(l), NEW m, Shrunk(l, m), Window(l, l.sinks),
         Favoured(l, m.tokens), Policy = "sliding_window"
  PROVE  Window(m, l.sinks)
<1>1. l.sinks \in Nat /\ l.tokens \subseteq Nat
      /\ m.tokens \subseteq l.tokens /\ m.next = l.next
  BY DEF SoundLayer, Layer, Shrunk
<1>2. \A p \in m.tokens \ Protected(l), q \in l.tokens \ m.tokens : p > q
  BY DEF Favoured
<1>3. ASSUME NEW p \in m.tokens, p >= l.sinks, NEW q \in p .. m.next - 1
      PROVE  q \in m.tokens
  <2>1. q \in l.tokens
    BY <1>1, <1>3 DEF Window
  <2>2. p \notin Protected(l)
    BY <1>1, <1>3 DEF Protected
  <2> QED BY <1>1, <1>2, <1>3, <2>1, <2>2
<1> QED BY <1>3 DEF Window

LEMMA WindowStep ==
  ASSUME Calls \cap {"evict", "skip", "reopen"} = {},
         Policy = "sliding_window", WindowInv, [Next]_vars
  PROVE  WindowInv'
<1>0. /\ ~("evict" \in Calls) /\ ~("skip" \in Calls) /\ ~("reopen" \in Calls)
      /\ Calls \cap {"evict", "skip", "reopen"} = {}
  OBVIOUS
<1>1. CacheInv /\ CacheInv' /\ SoundStore(layers) /\ SinkInv /\ SinkInv'
  BY <1>0, CacheStep, CacheFacts, SinkStep DEF WindowInv
<1>2. /\ config.sinks \in Nat
      /\ \A i \in Layers : layers[i].sinks = config.sinks
      /\ \A i \in Layers : layers'[i].sinks = config'.sinks
      /\ ckpt # <<>> => \A i \in Layers : ckpt[1].layers[i].sinks = config.sinks
  BY <1>1, SinksAssumption DEF SinkInv, StoreInv, StoreOK, Configs
<1>3. config'.sinks = config.sinks
  BY <1>0, <1>1, CacheFacts, ConfigStep DEF CacheInv
<1>4. \A i \in Layers : Window(layers'[i], config'.sinks)
  <2>1. CASE Restored
    BY <1>3, <2>1 DEF Restored, WindowInv
  <2>2. CASE ClearAll
    BY <1>1, <2>2, ClearedSound DEF Window
  <2>3. CASE \E ls : Through(ls)
    <3>1. PICK ls : Through(ls)
      BY <2>3
    <3>2. PICK bad : Moves(ls, bad)
      BY <3>1 DEF Through
    <3>3. SoundStore(ls) /\ \A i \in Layers : ls[i].sinks = config.sinks
      BY <1>1, <1>2, <3>1, AppendedSound DEF Through
    <3>4. \A i \in Layers : Window(ls[i], config.sinks)
      <4>1. CASE ls = layers
        BY <4>1 DEF WindowInv
      <4>2. CASE Appended(ls)
        <5>1. PICK i \in Layers, n \in Nat :
                ls = [layers EXCEPT ![i] = AppendTo(@, layers[i].next, n)]
          BY <1>0, <4>2 DEF Appended
        <5>2. ls[i] = AppendTo(layers[i], layers[i].next, n)
              /\ \A j \in Layers : j # i => ls[j] = layers[j]
          BY <1>1, <5>1 DEF SoundStore
        <5>3. Window(ls[i], config.sinks)
          BY <1>1, <1>2, <5>2, AppendKeepsWindow DEF WindowInv, SoundStore
        <5> QED BY <5>2, <5>3 DEF WindowInv
      <4> QED BY <3>1, <4>1, <4>2 DEF Through
    <3>5. ASSUME NEW i \in Layers PROVE Window(layers'[i], config'.sinks)
      <4>1. Shrunk(ls[i], layers'[i]) /\ Favoured(ls[i], layers'[i].tokens)
        BY <1>0, <3>1, <3>2 DEF Through, Moves
      <4>2. SoundLayer(ls[i]) /\ Window(ls[i], ls[i].sinks)
        BY <3>3, <3>4 DEF SoundStore
      <4> QED BY <1>3, <3>3, <4>1, <4>2, EvictionKeepsWindow
    <3> QED BY <3>5
  <2> QED BY <1>1, <2>1, <2>2, <2>3, StepShape
<1>5. ckpt' # <<>> => \A i \in Layers : Window(ckpt'[1].layers[i], config'.sinks)
  <2>1. CASE ckpt' = ckpt
    BY <1>3, <2>1 DEF WindowInv
  <2>2. CASE Save
    BY <1>3, <2>2 DEF Save, WindowInv
  <2>3. ckpt' = ckpt \/ Save
    BY <1>1, StepShape, ClearedSound DEF Restored
  <2> QED BY <2>1, <2>2, <2>3
<1> QED BY <1>1, <1>4, <1>5 DEF WindowInv

\* The sliding window policy leaves StreamingLLM's shape: the sinks, a gap, and
\* an unbroken run of the newest tokens, through changed capacities, deferred
\* blocks, tier moves, clears, saves and loads.
THEOREM SlidingWindowShape ==
  ASSUME Policy = "sliding_window",
         Calls \cap {"evict", "skip", "reopen"} = {}
  PROVE  Spec => []SinksThenWindow
<1>1. Init => WindowInv
  <2> SUFFICES ASSUME Init PROVE WindowInv
    OBVIOUS
  <2>1. ckpt = <<>> /\ \A i \in Layers : layers[i].tokens = {}
    BY DEF Init, NewLayer
  <2> QED BY <2>1, CacheInit, SinkInit DEF WindowInv, Window
<1>2. WindowInv /\ [Next]_vars => WindowInv'
  BY WindowStep
<1>3. WindowInv => SinksThenWindow
  BY DEF WindowInv, Window, SinksThenWindow
<1> QED BY <1>1, <1>2, <1>3, PTL DEF Spec
=============================================================================
