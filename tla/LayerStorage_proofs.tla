------------------------ MODULE LayerStorage_proofs ------------------------
(***************************************************************************)
(* The invariants of LayerStorage and its refinement of TokenLog, for      *)
(* every set of devices, capacities and bounds, and the byte accounts and  *)
(* checkpoints of layers that stay on their home device and its host.      *)
(***************************************************************************)
EXTENDS LayerStorage, LayerRecord_proofs

(***************************************************************************)
(* What one action does, seen from a consistent state: the layer stays     *)
(* consistent and its tokens change as the name of the action says.        *)
(***************************************************************************)

\* Every action that is not an append, an eviction, a clear, a save or a
\* restore leaves the tokens and the checkpoint alone.
SameTokens ==
  /\ layer'.pos = layer.pos /\ layer'.next = layer.next
  /\ ckpt' = ckpt

\* Consistent as the proofs use it.
LEMMA ConsistentFacts ==
  ASSUME Consistent
  PROVE  /\ LayerOK(layer) /\ layer \in Layer
         /\ layer.pos \in Seq(Int) /\ Len(layer.pos) \in Nat /\ layer.next \in Nat
         /\ layer.home \in Devices /\ layer.cap \in Nat
         /\ NumTokens(layer) = Len(layer.pos)
         /\ View(layer) = layer.pos
<1>1. LayerOK(layer)
  BY DEF Consistent
<1>2. View(layer) = layer.pos
  BY <1>1, ViewIsPositions
<1>3. layer \in Layer
  BY <1>1 DEF LayerOK
<1> QED
  BY <1>1, <1>2, <1>3 DEF Layer, NumTokens

\* A step that replaces a consistent layer and leaves the checkpoint alone
\* keeps the state consistent.
LEMMA LayerStep ==
  ASSUME Consistent, LayerOK(layer'), ckpt' = ckpt
  PROVE  Consistent'
BY DEF Consistent

\* append adds n positions from start on and hands out the next ones after.
LEMMA AppendStep ==
  ASSUME Consistent, NEW start \in 0 .. MaxPosition, NEW n \in 0 .. MaxTokens,
         AppendTokens(start, n)
  PROVE  /\ Consistent'
         /\ layer'.pos = layer.pos \o Run(start, n)
         /\ n > 0 => layer'.next = MaxOf(layer.next, start + n)
         /\ n = 0 => layer'.next = layer.next
         /\ ckpt' = ckpt
<1>1. LayerOK(layer) /\ start \in Nat /\ n \in Nat
  BY ConsistentFacts, BoundsAssumption DEF AppendTokens
<1>2. layer' = AppendRows(layer, Run(start, n)) /\ ckpt' = ckpt
  BY DEF AppendTokens, Run
<1>3. /\ LayerOK(AppendRows(layer, Run(start, n)))
      /\ AppendRows(layer, Run(start, n)).pos = layer.pos \o Run(start, n)
      /\ n > 0 => AppendRows(layer, Run(start, n)).next = MaxOf(layer.next, start + n)
      /\ n = 0 => AppendRows(layer, Run(start, n)).next = layer.next
  BY <1>1, AppendRowsOK
<1> QED
  BY <1>2, <1>3, LayerStep

\* An append that raises leaves the tokens as they were.
LEMMA AppendRaisesStep ==
  ASSUME Consistent, NEW n \in 0 .. MaxTokens, AppendRaises(n)
  PROVE  Consistent' /\ SameTokens
<1>1. LayerOK(layer) /\ n \in Nat
  BY ConsistentFacts, BoundsAssumption
<1>2. layer' = AppendFails(layer, n) /\ ckpt' = ckpt
  BY DEF AppendRaises
<1>3. /\ LayerOK(AppendFails(layer, n))
      /\ AppendFails(layer, n).pos = layer.pos
      /\ AppendFails(layer, n).next = layer.next
  BY <1>1, AppendFailsOK
<1> QED
  BY <1>2, <1>3, LayerStep DEF SameTokens

\* The lists keep() is given name existing slots.
LEMMA KeepListsNameSlots ==
  ASSUME NEW n \in Nat, NEW idx \in KeepLists(n)
  PROVE  idx \in Seq(1 .. n)
<1>1. PICK k \in 0 .. MaxTokens : idx \in [1 .. k -> 1 .. n]
  BY DEF KeepLists
<1>2. k \in Nat
  BY <1>1, BoundsAssumption
<1> QED
  BY <1>1, <1>2

\* keep() leaves exactly the positions of the slots it was given.
LEMMA KeepStep ==
  ASSUME Consistent, NEW idx \in KeepLists(NumTokens(layer)), KeepSlots(idx)
  PROVE  /\ Consistent'
         /\ idx \in Seq(1 .. Len(layer.pos))
         /\ layer'.pos = Gather(layer.pos, idx) /\ layer'.next = layer.next
         /\ ckpt' = ckpt
<1>1. LayerOK(layer) /\ layer.rep # "none"
  BY ConsistentFacts DEF KeepSlots, IsInitialized
<1>2. idx \in Seq(1 .. Len(layer.pos))
  BY ConsistentFacts, KeepListsNameSlots
<1>3. layer' = Keep(layer, idx) /\ ckpt' = ckpt
  BY DEF KeepSlots
<1>4. /\ LayerOK(Keep(layer, idx))
      /\ Keep(layer, idx).pos = Gather(layer.pos, idx)
      /\ Keep(layer, idx).next = layer.next
  BY <1>1, <1>2, KeepOK
<1> QED
  BY <1>2, <1>3, <1>4, LayerStep

\* A keep that raises, the tier moves, (de)compression and a new capacity
\* keep the tokens.
LEMMA QuietSteps ==
  ASSUME Consistent,
         \/ KeepRaises
         \/ \E d \in Devices : Offload(d)
         \/ \E r \in 0 .. MaxTokens, d \in Devices : OffloadKeeping(r, d)
         \/ \E d \in Devices : Prefetch(d)
         \/ \E n \in 1 .. MaxTokens : PrefetchTokens(n)
         \/ CompressLayer
         \/ Decompress
         \/ \E c \in Capacities : SetCapacity(c)
  PROVE  Consistent' /\ SameTokens
<1> DEFINE Quiet(l) == LayerOK(l) /\ l.pos = layer.pos /\ l.next = layer.next
<1>1. LayerOK(layer) /\ layer \in Layer
  BY ConsistentFacts
<1>2. SUFFICES Quiet(layer') /\ ckpt' = ckpt
  BY LayerStep DEF SameTokens
<1>3. CASE KeepRaises
  BY <1>1, <1>3, CollapseOK DEF KeepRaises
<1>4. ASSUME NEW d \in Devices, Offload(d)
      PROVE  Quiet(layer') /\ ckpt' = ckpt
  BY <1>1, <1>4, MoveToOK DEF Offload
<1>5. ASSUME NEW r \in 0 .. MaxTokens, NEW d \in Devices, OffloadKeeping(r, d)
      PROVE  Quiet(layer') /\ ckpt' = ckpt
  <2>1. layer.rep # "quant" /\ r \in 0 .. Len(layer.pos)
    BY <1>5, ConsistentFacts, BoundsAssumption DEF OffloadKeeping
  <2>2. Quiet(OffloadTail(layer, r, d))
    BY <1>1, <2>1, OffloadTailOK
  <2> QED
    BY <1>5, <2>2 DEF OffloadKeeping
<1>6. ASSUME IsSplit(layer), NEW n \in 1 .. HostedTokens(layer)
      PROVE  Quiet(PrefetchTail(layer, n))
  <2>1. layer.host # <<>> /\ HostedTokens(layer) = Len(layer.pos) - layer.boundary
    BY <1>6, ConsistentFacts DEF IsSplit, HostedTokens
  <2>2. EndsWith(layer.pos, layer.boundary, layer.host)
    BY <1>1, <2>1 DEF LayerOK
  <2>3. n \in 1 .. Len(layer.host)
    BY <2>1, <2>2 DEF EndsWith
  <2> QED
    BY <1>1, <2>1, <2>3, PrefetchTailOK
<1>7. ASSUME NEW d \in Devices, Prefetch(d)
      PROVE  Quiet(layer') /\ ckpt' = ckpt
  <2>1. CASE layer.offloaded /\ layer' = MoveTo(layer, d)
    BY <1>1, <1>7, <2>1, MoveToOK DEF Prefetch
  <2>2. CASE IsSplit(layer) /\ layer' = PrefetchTail(layer, HostedTokens(layer))
    <3>1. HostedTokens(layer) \in 1 .. HostedTokens(layer)
      <4>1. layer.host # <<>> /\ layer.boundary \in Nat
            /\ HostedTokens(layer) = Len(layer.pos) - layer.boundary
        BY <1>1, <2>2, ConsistentFacts DEF IsSplit, HostedTokens, Layer
      <4>2. layer.boundary < Len(layer.pos)
        BY <1>1, <4>1 DEF LayerOK
      <4> QED
        BY <4>1, <4>2, ConsistentFacts
    <3>2. Quiet(PrefetchTail(layer, HostedTokens(layer)))
      BY <1>6, <2>2, <3>1
    <3> QED
      BY <1>7, <2>2, <3>2 DEF Prefetch
  <2> QED
    BY <1>7, <2>1, <2>2 DEF Prefetch
<1>8. ASSUME NEW n \in 1 .. MaxTokens, PrefetchTokens(n)
      PROVE  Quiet(layer') /\ ckpt' = ckpt
  <2>1. n \in 1 .. HostedTokens(layer)
    <3>1. HostedTokens(layer) \in Int
      BY <1>1, ConsistentFacts DEF HostedTokens, Layer
    <3> QED
      BY <1>8, <3>1, BoundsAssumption DEF PrefetchTokens
  <2>2. IsSplit(layer) /\ layer' = PrefetchTail(layer, n) /\ ckpt' = ckpt
    BY <1>8 DEF PrefetchTokens
  <2>3. Quiet(PrefetchTail(layer, n))
    BY <1>6, <2>1, <2>2
  <2> QED
    BY <2>2, <2>3
<1>9. CASE CompressLayer
  BY <1>1, <1>9, CompressOK DEF CompressLayer
<1>10. CASE Decompress
  BY <1>1, <1>10, MaterializeOK DEF Decompress
<1>11. ASSUME NEW c \in Capacities, SetCapacity(c)
       PROVE  Quiet(layer') /\ ckpt' = ckpt
  <2>1. c \in Nat
    BY CapacitiesAssumption
  <2>2. Quiet([layer EXCEPT !.cap = c])
    BY <1>1, <2>1, SetCapOK
  <2> QED
    BY <1>11, <2>2 DEF SetCapacity
<1> QED
  BY <1>3, <1>4, <1>5, <1>7, <1>8, <1>9, <1>10, <1>11

\* clear() empties the layer and starts its positions over.
LEMMA ClearStep ==
  ASSUME Consistent, ClearLayer
  PROVE  Consistent' /\ layer'.pos = <<>> /\ layer'.next = 0 /\ ckpt' = ckpt
<1>1. LayerOK(layer) /\ layer' = Clear(layer) /\ ckpt' = ckpt
  BY ConsistentFacts DEF ClearLayer
<1>2. LayerOK(Clear(layer)) /\ Clear(layer).pos = <<>> /\ Clear(layer).next = 0
  BY <1>1, ClearOK
<1> QED
  BY <1>1, <1>2, LayerStep

\* save() writes the positions and next_position of the layer as it is.
LEMMA SaveStep ==
  ASSUME Consistent, Save
  PROVE  /\ Consistent' /\ layer' = layer /\ ckpt' # <<>>
         /\ ckpt'[1].pos = layer.pos /\ ckpt'[1].next = layer.next
<1> DEFINE s == SaveLayer(layer)
<1>1. ckpt' = <<s>> /\ layer' = layer
  BY DEF Save
<1>2. CheckpointOK(s) /\ s.pos = layer.pos /\ s.next = layer.next
  BY ConsistentFacts, SaveLayerOK
<1> HIDE DEF s
<1>3. s \in Checkpoint
  BY <1>2 DEF CheckpointOK
<1>4. /\ ckpt' \in Seq(Checkpoint) /\ Len(ckpt') = 1 /\ ckpt'[1] = s
      /\ ckpt' # <<>>
  BY <1>1, <1>3
<1> QED
  BY <1>1, <1>2, <1>4 DEF Consistent

\* load() brings back the saved positions and next_position.
LEMMA RestoreStep ==
  ASSUME Consistent, NEW target \in MapTargets, Restore(target)
  PROVE  /\ Consistent' /\ ckpt # <<>> /\ ckpt' = ckpt
         /\ layer'.pos = ckpt[1].pos /\ layer'.next = ckpt[1].next
<1>1. /\ ckpt # <<>> /\ CheckpointOK(ckpt[1]) /\ Loadable(ckpt[1])
      /\ layer' = LoadLayer(ckpt[1], HomeDevice, layer.cap, target)
      /\ ckpt' = ckpt
  BY DEF Consistent, Restore
<1>2. HomeDevice \in Devices /\ layer.cap \in Nat
      /\ target \in Devices \cup {NoDevice}
  BY ConsistentFacts, HomeAssumption, TargetsAssumption
<1> DEFINE l == LoadLayer(ckpt[1], HomeDevice, layer.cap, target)
<1>3. LayerOK(l) /\ l.pos = ckpt[1].pos /\ l.next = ckpt[1].next
  BY <1>1, <1>2, LoadLayerOK
<1> QED
  BY <1>1, <1>3, LayerStep

(***************************************************************************)
(* The invariants.                                                         *)
(***************************************************************************)

\* A new layer without a checkpoint is consistent.
LEMMA InitConsistent == Init => Consistent
<1> SUFFICES ASSUME Init PROVE Consistent
  OBVIOUS
<1>1. PICK c \in Capacities : layer = NewLayer(HomeDevice, c)
  BY DEF Init
<1>2. LayerOK(layer)
  BY <1>1, NewLayerOK, HomeAssumption, CapacitiesAssumption
<1>3. ckpt = <<>> /\ ckpt \in Seq(Checkpoint) /\ Len(ckpt) <= 1
  BY DEF Init
<1> QED
  BY <1>2, <1>3 DEF Consistent

\* Every action keeps the state consistent.
LEMMA NextConsistent == Consistent /\ [Next]_vars => Consistent'
<1> SUFFICES ASSUME Consistent, [Next]_vars PROVE Consistent'
  OBVIOUS
<1>1. CASE UNCHANGED vars
  BY <1>1 DEF vars, Consistent
<1>2. ASSUME NEW start \in 0 .. MaxPosition, NEW n \in 0 .. MaxTokens,
             AppendTokens(start, n)
      PROVE  Consistent'
  BY <1>2, AppendStep
<1>3. ASSUME NEW n \in 0 .. MaxTokens, AppendRaises(n)
      PROVE  Consistent'
  BY <1>3, AppendRaisesStep
<1>4. ASSUME NEW idx \in KeepLists(NumTokens(layer)), KeepSlots(idx)
      PROVE  Consistent'
  BY <1>4, KeepStep
<1>5. CASE ClearLayer
  BY <1>5, ClearStep
<1>6. CASE Save
  BY <1>6, SaveStep
<1>7. ASSUME NEW target \in MapTargets, Restore(target)
      PROVE  Consistent'
  BY <1>7, RestoreStep
<1> QED
  BY <1>1, <1>2, <1>3, <1>4, <1>5, <1>6, <1>7, QuietSteps DEF Next

\* In every reachable state the layer and its checkpoint are consistent:
\* buffers, split and payload hold the rows the metadata says they hold, in
\* all three layouts LayerStorage switches between.
THEOREM AlwaysConsistent == Spec => []Consistent
BY InitConsistent, NextConsistent, PTL DEF Spec

\* The fields of LayerStorage and of a written checkpoint keep their types.
THEOREM AlwaysTypeOK == Spec => []TypeOK
<1>1. Consistent => TypeOK
  BY DEF Consistent, LayerOK, TypeOK
<1> QED
  BY <1>1, AlwaysConsistent, PTL

\* Readers of keys/values always get, slot by slot, the row of the token the
\* metadata lists there: no slack row, no row of an evicted token.
THEOREM ReadersAlwaysGetTheirTokens == Spec => []ReadersGetTheirTokens
<1>1. Consistent => ReadersGetTheirTokens
  BY ConsistentFacts DEF ReadersGetTheirTokens
<1> QED
  BY <1>1, AlwaysConsistent, PTL

\* A split layer always has two non-empty tiers that meet at the boundary.
THEOREM SplitsAreAlwaysProper == Spec => []SplitShape
<1>1. Consistent => SplitShape
  <2> SUFFICES ASSUME Consistent, layer.host # <<>>
               PROVE  /\ layer.rep = "float"
                      /\ 0 < layer.boundary /\ layer.boundary < NumTokens(layer)
                      /\ Len(layer.host) = NumTokens(layer) - layer.boundary
                      /\ layer.boundary <= Len(layer.buf)
    BY DEF SplitShape, IsSplit
  <2> QED
    BY ConsistentFacts DEF LayerOK, EndsWith
<1> QED
  BY <1>1, AlwaysConsistent, PTL

(***************************************************************************)
(* The refinement of TokenLog.                                             *)
(***************************************************************************)

\* What the log sees before and after a step between consistent states.
LEMMA LogView ==
  ASSUME Consistent, Consistent'
  PROVE  View(layer) = layer.pos /\ View(layer)' = layer'.pos
BY ConsistentFacts, ViewIsPositions DEF Consistent

\* A step that keeps the tokens and the checkpoint is a stuttering step.
LEMMA QuietIsStutter ==
  ASSUME Consistent, Consistent', SameTokens
  PROVE  UNCHANGED Log!vars
BY LogView DEF SameTokens, Log!vars

\* Where the first appended element ends up.
LEMMA FirstAppended ==
  ASSUME NEW s \in Seq(Int), NEW t \in Seq(Int), t # <<>>
  PROVE  /\ Len(s \o t) = Len(s) + Len(t)
         /\ (s \o t)[Len(s) + 1] = t[1]
OBVIOUS

\* An append of no rows is a stuttering step, any other extends the log.
LEMMA AppendExtends ==
  ASSUME Consistent, NEW start \in 0 .. MaxPosition, NEW n \in 0 .. MaxTokens,
         AppendTokens(start, n)
  PROVE  [Log!Next]_(Log!vars)
<1> DEFINE run == Run(start, n)
<1>1. /\ Consistent' /\ layer'.pos = layer.pos \o run /\ ckpt' = ckpt
      /\ n > 0 => layer'.next = MaxOf(layer.next, start + n)
      /\ n = 0 => layer'.next = layer.next
  BY AppendStep
<1>2. View(layer) = layer.pos /\ View(layer)' = layer'.pos
  BY <1>1, LogView
<1>3. /\ layer.pos \in Seq(Int) /\ Len(layer.pos) \in Nat
      /\ start \in Nat /\ n \in Nat /\ layer.next \in Nat
  BY ConsistentFacts, BoundsAssumption DEF AppendTokens
<1>4. run \in Seq(Int) /\ Len(run) = n /\ \A i \in 1 .. n : run[i] = start + i - 1
  BY <1>3 DEF Run
<1>5. CASE n = 0
  <2> HIDE DEF run
  <2>1. run = <<>>
    BY <1>4, <1>5, EmptySeq
  <2>2. layer'.pos = layer.pos
    BY <1>1, <1>3, <2>1
  <2> QED
    BY <1>1, <1>5, <2>2, QuietIsStutter DEF SameTokens
<1>6. CASE n > 0
  <2>1. Len(layer'.pos) = Len(layer.pos) + n /\ layer'.pos[Len(layer.pos) + 1] = start
    <3>1. run # <<>> /\ run[1] = start
      BY <1>3, <1>4, <1>6
    <3> HIDE DEF run
    <3> QED
      BY <3>1, <1>1, <1>3, <1>4, FirstAppended
  <2>2. Log!Extend(start, n)
    BY <1>1, <1>2, <1>3, <1>6 DEF Log!Extend, Run, MaxOf
  <2>3. Len(View(layer)') > Len(View(layer))
        /\ View(layer)'[Len(View(layer)) + 1] = start
        /\ Len(View(layer)') - Len(View(layer)) = n
    BY <1>2, <1>3, <1>6, <2>1
  <2>4. Log!ExtendSome
    BY <2>2, <2>3 DEF Log!ExtendSome
  <2> QED
    BY <2>4 DEF Log!Next
<1> QED
  BY <1>3, <1>5, <1>6

\* An eviction retains the slots keep() was given.
LEMMA KeepRetains ==
  ASSUME Consistent, NEW idx \in KeepLists(NumTokens(layer)), KeepSlots(idx)
  PROVE  Log!Next
<1>1. /\ Consistent' /\ idx \in Seq(1 .. Len(layer.pos))
      /\ layer'.pos = Gather(layer.pos, idx) /\ layer'.next = layer.next
      /\ ckpt' = ckpt
  BY KeepStep
<1>2. View(layer) = layer.pos /\ View(layer)' = layer'.pos
  BY <1>1, LogView
<1>3. layer.pos \in Seq(Int) /\ DOMAIN layer.pos = 1 .. Len(layer.pos)
  BY ConsistentFacts
<1>4. DOMAIN idx = 1 .. Len(idx) /\ idx \in [1 .. Len(idx) -> 1 .. Len(layer.pos)]
  BY <1>1
<1>5. layer'.pos = [i \in 1 .. Len(idx) |-> layer.pos[idx[i]]]
  BY <1>1 DEF Gather
<1>6. Len(layer'.pos) = Len(idx)
  BY <1>1, <1>5
<1>7. Log!Retain(idx)
  BY <1>1, <1>2, <1>3, <1>4, <1>5 DEF Log!Retain
<1>8. idx \in [1 .. Len(View(layer)') -> DOMAIN View(layer)]
  BY <1>2, <1>3, <1>4, <1>6
<1> QED
  BY <1>7, <1>8 DEF Log!Next, Log!RetainSome

\* A clear restarts the log.
LEMMA ClearRestarts ==
  ASSUME Consistent, ClearLayer
  PROVE  Log!Next
<1>1. Consistent' /\ layer'.pos = <<>> /\ layer'.next = 0 /\ ckpt' = ckpt
  BY ClearStep
<1>2. View(layer)' = layer'.pos
  BY <1>1, LogView
<1> QED
  BY <1>1, <1>2 DEF Log!Next, Log!Restart

\* A save records the log as readers see it.
LEMMA SaveSaves ==
  ASSUME Consistent, Save
  PROVE  Log!Next
<1>1. /\ Consistent' /\ layer' = layer /\ ckpt' # <<>>
      /\ ckpt'[1].pos = layer.pos /\ ckpt'[1].next = layer.next
  BY SaveStep
<1>2. View(layer) = layer.pos /\ View(layer)' = layer'.pos
  BY <1>1, LogView
<1> QED
  BY <1>1, <1>2 DEF Log!Next, Log!Save

\* A load that passes its checks restores the log that was saved.
LEMMA RestoreRestores ==
  ASSUME Consistent, NEW target \in MapTargets, Restore(target)
  PROVE  Log!Next
<1>1. /\ Consistent' /\ ckpt # <<>> /\ ckpt' = ckpt
      /\ layer'.pos = ckpt[1].pos /\ layer'.next = ckpt[1].next
  BY RestoreStep
<1>2. View(layer)' = layer'.pos
  BY <1>1, LogView
<1> QED
  BY <1>1, <1>2 DEF Log!Next, Log!Restore

\* Whatever tier, layout or precision its rows are in, a layer is to its
\* readers the token log of TokenLog: every call on LayerStorage appends,
\* retains, restarts, saves, restores or changes nothing a reader sees.
THEOREM LayerImplementsTokenLog == Spec => ImplementsTokenLog
<1>1. Init => Log!Init
  <2> SUFFICES ASSUME Init PROVE Log!Init
    OBVIOUS
  <2>1. PICK c \in Capacities : layer = NewLayer(HomeDevice, c)
    BY DEF Init
  <2>2. View(layer) = layer.pos
    BY InitConsistent, ConsistentFacts
  <2>3. layer.pos = <<>> /\ layer.next = 0
    BY <2>1 DEF NewLayer
  <2> QED
    BY <2>2, <2>3 DEF Init, Log!Init
<1>2. Consistent /\ [Next]_vars => [Log!Next]_(Log!vars)
  <2> SUFFICES ASSUME Consistent, [Next]_vars PROVE [Log!Next]_(Log!vars)
    OBVIOUS
  <2>1. CASE UNCHANGED vars
    BY <2>1 DEF vars, Log!vars, View, IsSplit, NumTokens
  <2>2. ASSUME NEW n \in 0 .. MaxTokens, AppendRaises(n)
        PROVE  [Log!Next]_(Log!vars)
    BY <2>2, AppendRaisesStep, QuietIsStutter
  <2> QED
    BY <2>1, <2>2, AppendExtends, KeepRetains, ClearRestarts, SaveSaves,
       RestoreRestores, QuietSteps, QuietIsStutter DEF Next
<1> QED
  BY <1>1, <1>2, AlwaysConsistent, PTL DEF Spec, ImplementsTokenLog, Log!Spec

(***************************************************************************)
(* Where a layer's rows are, and where it says they are.                   *)
(***************************************************************************)

\* The flag tells whether the rows are away; a layer without tensors has none
\* away; what is hosted is hosted away from a prefix that is at home.
TiersTold(l) ==
  /\ l.offloaded <=> l.bufDev # l.home
  /\ l.rep = "none" => ~l.offloaded
  /\ l.host = <<>> => l.hostDev = l.home
  /\ l.host # <<>> => ~l.offloaded /\ l.hostDev # l.home

\* The same of a checkpoint of a layer whose home is the given device.
SavedTold(s, home) ==
  /\ s.offloaded => s.dev # home
  /\ s.host # <<>> => ~s.offloaded /\ s.hostDev # home

\* A method that tells the tiers of a layer that did and keeps its home.
Tells(l, m) == TiersTold(m) /\ m.home = l.home

\* Joining the two tiers of a split layer at home.
LEMMA CollapseTells ==
  ASSUME NEW l, LayerOK(l), TiersTold(l)
  PROVE  Tells(l, Collapse(l)) /\ Collapse(l).offloaded = l.offloaded
<1>1. l \in Layer
  BY DEF LayerOK
<1> DEFINE v == View(l)
           m == [l EXCEPT !.buf = v, !.bufDev = l.home, !.host = <<>>,
                          !.hostDev = l.home, !.boundary = 0]
<1>2. Collapse(l) = IF l.host # <<>> THEN m ELSE l
  BY DEF Collapse, IsSplit
<1> HIDE DEF v
<1>3. /\ m.bufDev = l.home /\ m.hostDev = l.home /\ m.host = <<>>
      /\ m.home = l.home /\ m.offloaded = l.offloaded /\ m.rep = l.rep
  BY <1>1 DEF Layer
<1> HIDE DEF m
<1>4. CASE l.host # <<>>
  BY <1>2, <1>3, <1>4 DEF TiersTold, Tells
<1>5. CASE l.host = <<>>
  BY <1>2, <1>5 DEF Tells
<1> QED
  BY <1>4, <1>5

\* Dequantising leaves the rows on the device the payload was on.
LEMMA MaterializeTells ==
  ASSUME NEW l, LayerOK(l), TiersTold(l)
  PROVE  Tells(l, Materialize(l))
<1>1. l \in Layer
  BY DEF LayerOK
<1> DEFINE buf == Alloc(MaxOf(Len(l.buf), InitCap(l)), l.buf)
           m == [l EXCEPT !.rep = "float", !.buf = buf]
<1>2. Materialize(l) = IF l.rep = "quant" THEN m ELSE l
  BY DEF Materialize
<1> HIDE DEF buf
<1>3. /\ m.bufDev = l.bufDev /\ m.hostDev = l.hostDev /\ m.host = l.host
      /\ m.home = l.home /\ m.offloaded = l.offloaded /\ m.rep = "float"
  BY <1>1 DEF Layer
<1> HIDE DEF m
<1>4. CASE l.rep = "quant"
  BY <1>2, <1>3, <1>4 DEF TiersTold, Tells
<1>5. CASE l.rep # "quant"
  BY <1>2, <1>5 DEF Tells
<1> QED
  BY <1>4, <1>5

\* Moving a layer that has tensors says where they went.
LEMMA MoveToTells ==
  ASSUME NEW l, LayerOK(l), TiersTold(l), l.rep # "none", NEW d \in Devices
  PROVE  /\ Tells(l, MoveTo(l, d))
         /\ MoveTo(l, d).offloaded = (d # l.home)
<1> DEFINE c == Collapse(l)
           m == [c EXCEPT !.bufDev = d, !.metaDev = d, !.offloaded = (d # c.home)]
<1>1. c \in Layer /\ c.host = <<>> /\ c.rep = l.rep
  BY CollapseOK DEF LayerOK
<1>2. TiersTold(c) /\ c.home = l.home
  BY CollapseTells DEF Tells
<1>3. MoveTo(l, d) = m
  BY <1>1 DEF MoveTo, IsInitialized
<1> HIDE DEF c
<1>4. /\ m.bufDev = d /\ m.hostDev = c.hostDev /\ m.host = c.host
      /\ m.home = c.home /\ m.offloaded = (d # c.home) /\ m.rep = c.rep
  BY <1>1 DEF Layer
<1> HIDE DEF m
<1> QED
  BY <1>1, <1>2, <1>3, <1>4 DEF TiersTold, Tells

\* After a return home nothing is said to be away.
LEMMA ReturnHomeTells ==
  ASSUME NEW l, LayerOK(l), TiersTold(l)
  PROVE  Tells(l, ReturnHome(l)) /\ ~ReturnHome(l).offloaded
<1>1. l.home \in Devices
  BY DEF LayerOK, Layer
<1>2. CASE l.offloaded
  <2>1. l.rep # "none"
    BY <1>2 DEF TiersTold
  <2> QED
    BY <1>1, <1>2, <2>1, MoveToTells DEF ReturnHome
<1>3. CASE ~l.offloaded
  BY <1>3 DEF ReturnHome, Tells
<1> QED
  BY <1>2, <1>3

\* Room is made at home.
LEMMA RoomTells ==
  ASSUME NEW l, LayerOK(l), TiersTold(l), NEW n \in Nat
  PROVE  Tells(l, Room(l, n)) /\ ~Room(l, n).offloaded /\ Room(l, n).rep = "float"
<1> DEFINE a == Materialize(l)
           b == ReturnHome(a)
           c == Collapse(b)
           needed == NumTokens(c) + n
           live == Slice(c.buf, 0, NumTokens(c))
           buf == IF ~IsInitialized(c) THEN Alloc(MaxOf(needed, InitCap(c)), <<>>)
                  ELSE IF needed > Len(c.buf)
                  THEN Alloc(MaxOf(needed, 2 * Len(c.buf)), live)
                  ELSE c.buf
           m == [c EXCEPT !.rep = "float", !.bufDev = c.home, !.buf = buf]
<1>1. LayerOK(a) /\ TiersTold(a) /\ a.home = l.home
  BY MaterializeOK, MaterializeTells DEF Tells
<1> HIDE DEF a
<1>2. LayerOK(b) /\ TiersTold(b) /\ b.home = l.home /\ ~b.offloaded
  BY <1>1, ReturnHomeOK, ReturnHomeTells DEF Tells
<1> HIDE DEF b
<1>3. LayerOK(c) /\ TiersTold(c) /\ c.home = l.home /\ ~c.offloaded /\ c.host = <<>>
  BY <1>2, CollapseOK, CollapseTells DEF Tells
<1>4. Room(l, n) = m
  BY DEF Room, a, b
<1> HIDE DEF c, buf
<1>5. /\ m.bufDev = c.home /\ m.hostDev = c.hostDev /\ m.host = c.host
      /\ m.home = c.home /\ m.offloaded = c.offloaded /\ m.rep = "float"
  <2>1. c \in Layer
    BY <1>3 DEF LayerOK
  <2> QED
    BY <2>1 DEF Layer
<1> HIDE DEF m
<1> QED
  BY <1>3, <1>4, <1>5 DEF TiersTold, Tells

\* append leaves everything at home.
LEMMA AppendTells ==
  ASSUME NEW l, LayerOK(l), TiersTold(l), NEW start \in Nat, NEW n \in Nat
  PROVE  Tells(l, AppendRows(l, Run(start, n)))
<1> DEFINE new == Run(start, n)
           r == Room(l, n)
           buf == Overwrite(r.buf, NumTokens(r), new)
           pos == r.pos \o new
           next == NextAfter(r.next, new)
           m == [r EXCEPT !.buf = buf, !.pos = pos, !.next = next,
                          !.offloaded = FALSE]
<1>1. Len(new) = n
  BY DEF Run
<1>2. AppendRows(l, new) = m
  <2> HIDE DEF new
  <2> QED
    BY <1>1 DEF AppendRows
<1>3. r \in Layer /\ TiersTold(r) /\ r.home = l.home /\ ~r.offloaded
  BY RoomOK, RoomTells DEF LayerOK, Tells
<1> HIDE DEF r, buf, pos, next
<1>4. /\ m.bufDev = r.bufDev /\ m.hostDev = r.hostDev /\ m.host = r.host
      /\ m.home = r.home /\ m.offloaded = FALSE /\ m.rep = r.rep
  BY <1>3 DEF Layer
<1> HIDE DEF m
<1> QED
  BY <1>2, <1>3, <1>4 DEF TiersTold, Tells

\* So does an append that raises half-way.
LEMMA AppendFailsTells ==
  ASSUME NEW l, LayerOK(l), TiersTold(l), NEW n \in Nat
  PROVE  Tells(l, AppendFails(l, n))
<1> DEFINE r == Room(l, n)
           buf == Overwrite(r.buf, NumTokens(r), Alloc(n, <<>>))
           m == [r EXCEPT !.buf = buf]
<1>1. AppendFails(l, n) = m
  BY DEF AppendFails
<1>2. r \in Layer /\ TiersTold(r) /\ r.home = l.home
  BY RoomOK, RoomTells DEF LayerOK, Tells
<1> HIDE DEF r, buf
<1>3. /\ m.bufDev = r.bufDev /\ m.hostDev = r.hostDev /\ m.host = r.host
      /\ m.home = r.home /\ m.offloaded = r.offloaded /\ m.rep = r.rep
  BY <1>2 DEF Layer
<1> HIDE DEF m
<1> QED
  BY <1>1, <1>2, <1>3 DEF TiersTold, Tells

\* keep() leaves what survives where it was, and an emptied layer at home.
LEMMA KeepTells ==
  ASSUME NEW l, LayerOK(l), TiersTold(l), NEW idx
  PROVE  Tells(l, Keep(l, idx))
<1> DEFINE c == Collapse(l)
           alloc == MaxOf(Len(idx), c.cap)
           kept == Gather(c.buf, idx)
           buf == IF c.rep = "quant" THEN kept
                  ELSE IF Len(c.buf) # alloc THEN Alloc(alloc, kept)
                  ELSE Overwrite(c.buf, 0, kept)
           pos == Gather(c.pos, idx)
           e == [c EXCEPT !.rep = "none", !.buf = <<>>, !.bufDev = c.home,
                          !.offloaded = FALSE, !.pos = <<>>]
           m == [c EXCEPT !.buf = buf, !.pos = pos]
<1>1. Keep(l, idx) = IF idx = <<>> THEN e ELSE m
  BY DEF Keep
<1>2. c \in Layer /\ TiersTold(c) /\ c.home = l.home /\ c.host = <<>>
  BY CollapseOK, CollapseTells DEF LayerOK, Tells
<1> HIDE DEF c, buf, pos
<1>3. /\ e.bufDev = c.home /\ e.hostDev = c.hostDev /\ e.host = c.host
      /\ e.home = c.home /\ e.offloaded = FALSE /\ e.rep = "none"
  BY <1>2 DEF Layer
<1>4. /\ m.bufDev = c.bufDev /\ m.hostDev = c.hostDev /\ m.host = c.host
      /\ m.home = c.home /\ m.offloaded = c.offloaded /\ m.rep = c.rep
  BY <1>2 DEF Layer
<1> HIDE DEF e, m
<1> QED
  BY <1>1, <1>2, <1>3, <1>4 DEF TiersTold, Tells

\* offload(keep_resident) to a device that is not the home of a layer that has
\* tokens hosts exactly a proper tail there, or moves the whole layer.
LEMMA OffloadTailTells ==
  ASSUME NEW l, LayerOK(l), TiersTold(l), NEW r \in 0 .. Len(l.pos),
         NEW d \in Devices, d # l.home, l.rep = "float"
  PROVE  Tells(l, OffloadTail(l, r, d))
<1> DEFINE h == ReturnHome(l)
           c == Collapse(h)
           front == Slice(c.buf, 0, r)
           tail == Slice(c.buf, r, NumTokens(c))
           m == [c EXCEPT !.buf = front, !.host = tail, !.hostDev = d,
                          !.boundary = r]
<1>1. /\ LayerOK(h) /\ TiersTold(h) /\ h.home = l.home /\ ~h.offloaded
      /\ h.pos = l.pos /\ h.rep = l.rep
  BY ReturnHomeOK, ReturnHomeTells DEF Tells
<1>2. CASE r = 0
  <2>1. Tells(l, MoveTo(l, d)) /\ Tells(l, l)
    BY MoveToTells DEF Tells
  <2>2. OffloadTail(l, r, d) \in {l, MoveTo(l, d)}
    BY <1>2 DEF OffloadTail
  <2> QED
    BY <2>1, <2>2
<1>3. CASE r # 0 /\ r = NumTokens(l)
  BY <1>1, <1>3 DEF OffloadTail, Tells
<1>4. CASE r # 0 /\ r # NumTokens(l)
  <2>1. OffloadTail(l, r, d) = m
    BY <1>4 DEF OffloadTail
  <2> HIDE DEF h
  <2>2. /\ LayerOK(c) /\ c \in Layer /\ TiersTold(c) /\ c.home = l.home
        /\ ~c.offloaded /\ c.host = <<>> /\ c.rep = "float" /\ c.pos = l.pos
    BY <1>1, CollapseOK, CollapseTells DEF LayerOK, Tells
  <2> HIDE DEF c
  <2>3. tail # <<>>
    <3>1. StartsWith(c.buf, c.pos)
      BY <2>2 DEF LayerOK
    <3>2. /\ c.buf \in Seq(Int) /\ c.pos \in Seq(Int) /\ Len(c.pos) <= Len(c.buf)
          /\ NumTokens(c) = Len(c.pos)
      BY <2>2, <3>1 DEF StartsWith, Layer, NumTokens
    <3>3. r \in Nat /\ NumTokens(c) \in Nat /\ r < NumTokens(c)
          /\ NumTokens(c) <= Len(c.buf)
      BY <1>4, <2>2, <3>2 DEF NumTokens
    <3>4. Len(tail) = NumTokens(c) - r
      <4> DEFINE k == NumTokens(c)
      <4>1. k \in Nat /\ r <= k /\ k <= Len(c.buf)
        BY <3>3
      <4> HIDE DEF k
      <4>2. Len(Slice(c.buf, r, k)) = k - r
        BY <3>2, <3>3, <4>1, SliceRows
      <4> QED
        BY <4>2 DEF k
    <3>5. Len(<<>>) = 0
      OBVIOUS
    <3> HIDE DEF tail
    <3> QED
      BY <3>3, <3>4, <3>5
  <2> HIDE DEF front, tail
  <2>4. /\ m.bufDev = c.bufDev /\ m.hostDev = d /\ m.host = tail
        /\ m.home = c.home /\ m.offloaded = c.offloaded /\ m.rep = c.rep
    BY <2>2 DEF Layer
  <2> HIDE DEF m
  <2> QED
    BY <2>1, <2>2, <2>3, <2>4 DEF TiersTold, Tells
<1> QED
  BY <1>2, <1>3, <1>4

\* Bringing hosted rows home leaves the rest where it was hosted.
LEMMA PrefetchTailTells ==
  ASSUME NEW l, LayerOK(l), TiersTold(l), l.host # <<>>, NEW n
  PROVE  Tells(l, PrefetchTail(l, n))
<1> DEFINE b == l.boundary + n
           rest == Slice(l.host, n, Len(l.host))
           buf == Alloc(MaxOf(b, l.cap), Slice(l.buf, 0, l.boundary)
                                           \o Slice(l.host, 0, n))
           m == [l EXCEPT !.buf = buf, !.bufDev = l.home, !.host = rest,
                          !.hostDev = IF rest = <<>> THEN l.home ELSE @,
                          !.boundary = b]
<1>1. PrefetchTail(l, n) = m
  BY DEF PrefetchTail
<1>2. l \in Layer
  BY DEF LayerOK
<1> HIDE DEF b, rest, buf
<1>3. /\ m.bufDev = l.home /\ m.host = rest
      /\ m.hostDev = (IF rest = <<>> THEN l.home ELSE l.hostDev)
      /\ m.home = l.home /\ m.offloaded = l.offloaded /\ m.rep = l.rep
  BY <1>2 DEF Layer
<1> HIDE DEF m
<1> QED
  BY <1>1, <1>3 DEF TiersTold, Tells, LayerOK

\* A payload is where the rows it was made of were gathered.
LEMMA CompressTells ==
  ASSUME NEW l, LayerOK(l), TiersTold(l)
  PROVE  Tells(l, Compress(l))
<1> DEFINE v == View(l)
           m == [l EXCEPT !.rep = "quant", !.buf = v,
                          !.bufDev = IF IsSplit(l) THEN l.home ELSE @,
                          !.host = <<>>, !.hostDev = l.home, !.boundary = 0]
<1>1. Compress(l) = m
  BY DEF Compress
<1>2. l \in Layer
  BY DEF LayerOK
<1> HIDE DEF v
<1>3. /\ m.bufDev = (IF l.host # <<>> THEN l.home ELSE l.bufDev) /\ m.host = <<>>
      /\ m.hostDev = l.home
      /\ m.home = l.home /\ m.offloaded = l.offloaded /\ m.rep = "quant"
  BY <1>2 DEF Layer, IsSplit
<1> HIDE DEF m
<1> QED
  BY <1>1, <1>3 DEF TiersTold, Tells

\* clear() brings everything home.
LEMMA ClearTells ==
  ASSUME NEW l, LayerOK(l)
  PROVE  Tells(l, Clear(l))
<1> DEFINE m == Clear(l)
<1>1. l \in Layer
  BY DEF LayerOK
<1>2. /\ m.bufDev = l.home /\ m.host = <<>> /\ m.hostDev = l.home
      /\ m.home = l.home /\ m.offloaded = FALSE /\ m.rep = "none"
  BY <1>1 DEF Clear, Layer
<1> HIDE DEF m
<1>3. Tells(l, m)
  BY <1>2 DEF TiersTold, Tells
<1> QED
  BY <1>3 DEF m

\* A new capacity moves nothing.
LEMMA SetCapTells ==
  ASSUME NEW l, LayerOK(l), TiersTold(l), NEW c
  PROVE  Tells(l, [l EXCEPT !.cap = c])
<1> DEFINE m == [l EXCEPT !.cap = c]
<1>1. l \in Layer
  BY DEF LayerOK
<1>2. /\ m.bufDev = l.bufDev /\ m.host = l.host /\ m.hostDev = l.hostDev
      /\ m.home = l.home /\ m.offloaded = l.offloaded /\ m.rep = l.rep
  BY <1>1 DEF Layer
<1> HIDE DEF m
<1>3. Tells(l, m)
  BY <1>2 DEF TiersTold, Tells
<1> QED
  BY <1>3 DEF m

\* A checkpoint says of the tiers what its layer said.
LEMMA SaveTells ==
  ASSUME NEW l, LayerOK(l), TiersTold(l)
  PROVE  SavedTold(SaveLayer(l), l.home)
<1> DEFINE s == SaveLayer(l)
<1>1. /\ s.offloaded = l.offloaded /\ s.dev = ResidentDevice(l)
      /\ s.host = l.host /\ s.hostDev = l.hostDev
  BY DEF SaveLayer
<1>2. l.offloaded => s.dev = l.bufDev
  BY <1>1 DEF TiersTold, ResidentDevice, IsInitialized
<1> HIDE DEF s
<1>3. SavedTold(s, l.home)
  <2>1. s.offloaded => s.dev # l.home
    BY <1>1, <1>2 DEF TiersTold
  <2>2. s.host # <<>> => ~s.offloaded /\ s.hostDev # l.home
    BY <1>1 DEF TiersTold
  <2> QED
    BY <2>1, <2>2 DEF SavedTold
<1> QED
  BY <1>3 DEF s

\* A layer restored to the tiers it was saved from, or to its home, tells them.
LEMMA LoadTells ==
  ASSUME NEW s, CheckpointOK(s), NEW home \in Devices, SavedTold(s, home),
         NEW cap \in Nat, NEW target \in {NoDevice, home}
  PROVE  /\ TiersTold(LoadLayer(s, home, cap, target))
         /\ LoadLayer(s, home, cap, target).home = home
<1> DEFINE dev == IF target # NoDevice THEN target
                  ELSE IF s.offloaded THEN s.dev ELSE home
           away == IF target # NoDevice THEN target # home ELSE s.offloaded
           new == NewLayer(home, cap)
           next == NextAfter(s.next, s.pos)
           fresh == [new EXCEPT !.pos = s.pos, !.next = next, !.metaDev = dev]
           buf == IF s.rep = "quant" THEN s.rows ELSE Alloc(s.alloc, s.rows)
           hostDev == IF s.host = <<>> THEN home ELSE s.hostDev
           boundary == IF s.host = <<>> THEN 0 ELSE Len(s.rows)
           m == [fresh EXCEPT
                   !.rep = s.rep, !.buf = buf, !.bufDev = dev,
                   !.offloaded = away, !.host = s.host, !.hostDev = hostDev,
                   !.boundary = boundary]
<1>1. LoadLayer(s, home, cap, target) = IF s.rep = "none" THEN fresh ELSE m
  BY DEF LoadLayer
<1>2. /\ away \in BOOLEAN /\ away <=> dev # home
      /\ s.host # <<>> => ~away /\ hostDev # home
      /\ s.host = <<>> => hostDev = home
  BY NoDeviceAssumption DEF SavedTold, CheckpointOK, Checkpoint
<1> HIDE DEF dev, away, next, buf, hostDev, boundary
<1>3. /\ fresh.rep = "none" /\ fresh.bufDev = home /\ fresh.host = <<>>
      /\ fresh.hostDev = home /\ fresh.offloaded = FALSE /\ fresh.home = home
  BY DEF NewLayer
<1>4. /\ m.rep = s.rep /\ m.bufDev = dev /\ m.host = s.host
      /\ m.hostDev = hostDev /\ m.offloaded = away /\ m.home = home
  BY DEF NewLayer
<1> HIDE DEF fresh, m
<1> QED
  BY <1>1, <1>2, <1>3, <1>4 DEF TiersTold

\* The inductive invariant: the layer, built on the device the cache is on,
\* tells its tiers, and so does the checkpoint.
TiersRight ==
  /\ Consistent
  /\ layer.home = HomeDevice /\ TiersTold(layer)
  /\ ckpt # <<>> => SavedTold(ckpt[1], HomeDevice)

\* A step that leaves the checkpoint alone and the layer telling its tiers.
LEMMA TellingStep ==
  ASSUME TiersRight, Consistent', ckpt' = ckpt, Tells(layer, layer')
  PROVE  TiersRight'
<1>1. TiersTold(layer') /\ layer'.home = HomeDevice
  BY DEF TiersRight, Tells
<1>2. TiersTold(layer)'
  BY <1>1 DEF TiersTold
<1>3. (ckpt # <<>> => SavedTold(ckpt[1], HomeDevice))'
  BY DEF TiersRight, SavedTold
<1> QED
  BY <1>1, <1>2, <1>3 DEF TiersRight

\* Every action keeps the tiers told, if load() is given no other device than
\* the layer's home and offload() never meets a layer without tokens.
LEMMA NextTells ==
  ASSUME MapTargets \subseteq {NoDevice, HomeDevice}, ~OffloadsEmpty,
         TiersRight, [Next]_vars
  PROVE  TiersRight'
<1>1. /\ Consistent /\ Consistent' /\ LayerOK(layer) /\ layer \in Layer
      /\ TiersTold(layer) /\ layer.home = HomeDevice
      /\ NumTokens(layer) = Len(layer.pos)
  BY NextConsistent, ConsistentFacts DEF TiersRight
<1>2. CASE UNCHANGED vars
  BY <1>1, <1>2, TellingStep DEF vars, Tells
<1>3. ASSUME NEW start \in 0 .. MaxPosition, NEW n \in 0 .. MaxTokens,
             AppendTokens(start, n)
      PROVE  TiersRight'
  <2>1. start \in Nat /\ n \in Nat
    BY BoundsAssumption
  <2>2. layer' = AppendRows(layer, Run(start, n)) /\ ckpt' = ckpt
    BY <1>3 DEF AppendTokens, Run
  <2>3. Tells(layer, AppendRows(layer, Run(start, n)))
    BY <1>1, <2>1, AppendTells
  <2> QED
    BY <1>1, <2>2, <2>3, TellingStep
<1>4. ASSUME NEW n \in 0 .. MaxTokens, AppendRaises(n)
      PROVE  TiersRight'
  <2>1. n \in Nat
    BY BoundsAssumption
  <2>2. Tells(layer, AppendFails(layer, n))
    BY <1>1, <2>1, AppendFailsTells
  <2> QED
    BY <1>1, <1>4, <2>2, TellingStep DEF AppendRaises
<1>5. ASSUME NEW idx \in KeepLists(NumTokens(layer)), KeepSlots(idx)
      PROVE  TiersRight'
  BY <1>1, <1>5, KeepTells, TellingStep DEF KeepSlots
<1>6. CASE KeepRaises
  BY <1>1, <1>6, CollapseTells, TellingStep DEF KeepRaises
<1>7. CASE ClearLayer
  BY <1>1, <1>7, ClearTells, TellingStep DEF ClearLayer
<1>8. ASSUME NEW d \in Devices, Offload(d)
      PROVE  TiersRight'
  BY <1>1, <1>8, MoveToTells, TellingStep DEF Offload, IsInitialized
<1>9. ASSUME NEW r \in 0 .. MaxTokens, NEW d \in Devices, OffloadKeeping(r, d)
      PROVE  TiersRight'
  <2>1. /\ layer.rep # "quant" /\ r \in 0 .. Len(layer.pos) /\ Len(layer.pos) > 0
        /\ d # layer.home /\ layer' = OffloadTail(layer, r, d) /\ ckpt' = ckpt
    <3>1. Len(layer.pos) \in Nat /\ r \in Nat
      BY <1>1, BoundsAssumption, ConsistentFacts
    <3> QED
      BY <1>1, <1>9, <3>1 DEF OffloadKeeping
  <2>2. layer.rep = "float"
    <3>1. layer.pos # <<>>
      BY <2>1
    <3> QED
      BY <1>1, <2>1, <3>1 DEF LayerOK, Layer
  <2>3. Tells(layer, OffloadTail(layer, r, d))
    BY <1>1, <2>1, <2>2, OffloadTailTells
  <2> QED
    BY <1>1, <2>1, <2>3, TellingStep
<1>10. ASSUME NEW d \in Devices, Prefetch(d)
       PROVE  TiersRight'
  <2>1. CASE layer.offloaded /\ layer' = MoveTo(layer, d)
    <3>1. layer.rep # "none"
      BY <1>1, <2>1 DEF TiersTold
    <3> QED
      BY <1>1, <1>10, <2>1, <3>1, MoveToTells, TellingStep DEF Prefetch
  <2>2. CASE IsSplit(layer) /\ layer' = PrefetchTail(layer, HostedTokens(layer))
    BY <1>1, <1>10, <2>2, PrefetchTailTells, TellingStep DEF Prefetch, IsSplit
  <2> QED
    BY <1>10, <2>1, <2>2 DEF Prefetch
<1>11. ASSUME NEW n \in 1 .. MaxTokens, PrefetchTokens(n)
       PROVE  TiersRight'
  BY <1>1, <1>11, PrefetchTailTells, TellingStep DEF PrefetchTokens, IsSplit
<1>12. CASE CompressLayer
  BY <1>1, <1>12, CompressTells, TellingStep DEF CompressLayer
<1>13. CASE Decompress
  BY <1>1, <1>13, MaterializeTells, TellingStep DEF Decompress
<1>14. ASSUME NEW c \in Capacities, SetCapacity(c)
       PROVE  TiersRight'
  BY <1>1, <1>14, SetCapTells, TellingStep DEF SetCapacity
<1>15. CASE Save
  <2> DEFINE s == SaveLayer(layer)
  <2>1. ckpt' = <<s>> /\ layer' = layer
    BY <1>15 DEF Save
  <2>2. SavedTold(s, HomeDevice)
    BY <1>1, SaveTells
  <2> HIDE DEF s
  <2>3. ckpt'[1] = s
    BY <2>1
  <2>4. TiersTold(layer)'
    BY <1>1, <2>1 DEF TiersTold
  <2>5. SavedTold(ckpt[1], HomeDevice)'
    BY <2>2, <2>3 DEF SavedTold
  <2> QED
    BY <1>1, <2>1, <2>4, <2>5 DEF TiersRight
<1>16. ASSUME NEW target \in MapTargets, Restore(target)
       PROVE  TiersRight'
  <2> DEFINE s == ckpt[1]
             l == LoadLayer(s, HomeDevice, layer.cap, target)
  <2>1. /\ ckpt # <<>> /\ CheckpointOK(s) /\ SavedTold(s, HomeDevice)
        /\ layer' = l /\ ckpt' = ckpt
    BY <1>16 DEF Restore, TiersRight, Consistent
  <2>2. target \in {NoDevice, HomeDevice} /\ layer.cap \in Nat
    BY <1>1 DEF Layer
  <2>3. TiersTold(l) /\ l.home = HomeDevice
    <3> HIDE DEF s
    <3> QED
      BY <2>1, <2>2, HomeAssumption, LoadTells
  <2> HIDE DEF s, l
  <2>4. Tells(layer, layer')
    BY <1>1, <2>1, <2>3 DEF Tells
  <2> QED
    BY <1>1, <2>1, <2>4, TellingStep
<1> QED
  BY <1>2, <1>3, <1>4, <1>5, <1>6, <1>7, <1>8, <1>9, <1>10, <1>11, <1>12,
     <1>13, <1>14, <1>15, <1>16 DEF Next

\* A new layer has everything at home.
LEMMA InitTells == Init => TiersRight
<1> SUFFICES ASSUME Init PROVE TiersRight
  OBVIOUS
<1>1. PICK c \in Capacities : layer = NewLayer(HomeDevice, c)
  BY DEF Init
<1>2. layer.home = HomeDevice /\ TiersTold(layer)
  BY <1>1 DEF NewLayer, TiersTold
<1>3. Consistent /\ ckpt = <<>>
  BY InitConsistent DEF Init
<1> QED
  BY <1>2, <1>3 DEF TiersRight

\* device_bytes() and offloaded_bytes(), computed from the _offloaded flag and
\* the split, count every stored row once and on the side it is physically on,
\* whatever has been appended, evicted, quantised, split, moved, saved and
\* restored - unless load() puts a layer elsewhere than its home or an empty
\* layer is moved, the two cases in which the code itself lets them differ.
THEOREM BytesAreAlwaysPhysical ==
  ASSUME MapTargets \subseteq {NoDevice, HomeDevice}, ~OffloadsEmpty
  PROVE  Spec => []BytesArePhysical
<1>1. TiersRight /\ [Next]_vars => TiersRight'
  BY NextTells
<1>2. TiersRight => BytesArePhysical
  <2> SUFFICES ASSUME TiersRight
               PROVE  /\ DeviceRows(layer) = RowsAtHome
                      /\ OffloadedRows(layer) = StoredRows(layer) - RowsAtHome
    BY DEF BytesArePhysical
  <2>1. /\ TiersTold(layer) /\ Len(layer.buf) \in Nat /\ Len(layer.host) \in Nat
    <3>1. layer \in Layer
      BY ConsistentFacts DEF TiersRight
    <3> QED
      BY <3>1 DEF Layer, TiersRight
  <2>2. CASE layer.host = <<>>
    <3>1. Len(layer.host) = 0 /\ layer.hostDev = layer.home
      BY <2>1, <2>2 DEF TiersTold
    <3>2. CASE layer.offloaded
      <4>1. layer.bufDev # layer.home
        BY <2>1, <3>2 DEF TiersTold
      <4> QED
        BY <2>1, <3>1, <3>2, <4>1 DEF DeviceRows, OffloadedRows, StoredRows, RowsAtHome
    <3>3. CASE ~layer.offloaded
      <4>1. layer.bufDev = layer.home
        BY <2>1, <3>3 DEF TiersTold
      <4> QED
        BY <2>1, <2>2, <3>1, <3>3, <4>1
        DEF DeviceRows, OffloadedRows, StoredRows, RowsAtHome, IsSplit
    <3> QED
      BY <3>2, <3>3
  <2>3. CASE layer.host # <<>>
    <3>1. /\ ~layer.offloaded /\ layer.hostDev # layer.home
          /\ layer.bufDev = layer.home
      BY <2>1, <2>3 DEF TiersTold
    <3> QED
      BY <2>1, <2>3, <3>1
      DEF DeviceRows, OffloadedRows, StoredRows, RowsAtHome, IsSplit
  <2> QED
    BY <2>2, <2>3
<1> QED
  BY InitTells, <1>1, <1>2, PTL DEF Spec

\* What a load without map_location makes of the checkpoint of a layer: the
\* same layout, devices and numbers of rows.
LEMMA RoundTrip ==
  ASSUME NEW l, LayerOK(l), TiersTold(l), Loadable(SaveLayer(l))
  PROVE  LET m == LoadLayer(SaveLayer(l), l.home, l.cap, NoDevice) IN
         /\ m.rep = l.rep /\ m.host = l.host /\ m.hostDev = l.hostDev
         /\ m.pos = l.pos /\ m.home = l.home /\ m.bufDev = l.bufDev
         /\ m.offloaded = l.offloaded /\ Len(m.buf) = Len(l.buf)
         /\ l.host # <<>> => m.boundary = l.boundary
<1> DEFINE s == SaveLayer(l)
           m == LoadLayer(s, l.home, l.cap, NoDevice)
           dev == IF s.offloaded THEN s.dev ELSE l.home
           new == NewLayer(l.home, l.cap)
           next == NextAfter(s.next, s.pos)
           fresh == [new EXCEPT !.pos = s.pos, !.next = next, !.metaDev = dev]
           buf == IF s.rep = "quant" THEN s.rows ELSE Alloc(s.alloc, s.rows)
           hostDev == IF s.host = <<>> THEN l.home ELSE s.hostDev
           boundary == IF s.host = <<>> THEN 0 ELSE Len(s.rows)
           full == [fresh EXCEPT
                      !.rep = s.rep, !.buf = buf, !.bufDev = dev,
                      !.offloaded = s.offloaded, !.host = s.host,
                      !.hostDev = hostDev, !.boundary = boundary]
<1>1. m = IF s.rep = "none" THEN fresh ELSE full
  BY DEF LoadLayer
<1>2. /\ s.rep = l.rep /\ s.offloaded = l.offloaded /\ s.dev = ResidentDevice(l)
      /\ s.host = l.host /\ s.hostDev = l.hostDev /\ s.pos = l.pos
      /\ s.alloc = Len(l.buf) /\ s.boundary = l.boundary
      /\ l.rep = "quant" => s.rows = l.buf
  BY DEF SaveLayer
<1>3. CheckpointOK(s) /\ Loadable(s) /\ l \in Layer
  BY SaveLayerOK DEF LayerOK
<1> HIDE DEF s
<1>4. CASE l.rep = "none"
  <2>1. l.buf = <<>> /\ l.host = <<>> /\ l.pos = <<>>
    BY <1>4 DEF LayerOK
  <2>2. ~l.offloaded /\ l.bufDev = l.home /\ l.hostDev = l.home /\ l.offloaded = FALSE
    BY <1>3, <1>4, <2>1 DEF TiersTold, Layer
  <2> HIDE DEF dev, next
  <2>3. /\ fresh.rep = "none" /\ fresh.host = <<>> /\ fresh.hostDev = l.home
        /\ fresh.pos = s.pos /\ fresh.home = l.home /\ fresh.bufDev = l.home
        /\ fresh.offloaded = FALSE /\ fresh.buf = <<>>
    BY DEF NewLayer
  <2>4. m = fresh
    BY <1>1, <1>2, <1>4
  <2> HIDE DEF fresh, m
  <2>5. /\ m.rep = l.rep /\ m.host = l.host /\ m.hostDev = l.hostDev
        /\ m.pos = l.pos /\ m.home = l.home /\ m.bufDev = l.bufDev
        /\ m.offloaded = l.offloaded /\ Len(m.buf) = Len(l.buf)
        /\ l.host # <<>> => m.boundary = l.boundary
    BY <1>2, <1>4, <2>1, <2>2, <2>3, <2>4
  <2> QED
    BY <2>5 DEF m, s
<1>5. CASE l.rep # "none"
  <2>1. dev = l.bufDev
    <3>1. l.offloaded => s.dev = l.bufDev
      BY <1>2, <1>5 DEF ResidentDevice, IsInitialized
    <3>2. ~l.offloaded => l.bufDev = l.home
      BY DEF TiersTold
    <3> QED
      BY <1>2, <3>1, <3>2
  <2>2. hostDev = l.hostDev
    BY <1>2 DEF TiersTold
  <2>3. l.host # <<>> => boundary = l.boundary
    BY <1>2, <1>3 DEF Loadable, LayerOK
  <2>4. Len(buf) = Len(l.buf)
    <3>1. CASE l.rep = "quant"
      BY <1>2, <3>1
    <3>2. CASE l.rep # "quant"
      <4>1. s.rows \in Seq(Int) /\ s.alloc \in Nat
        BY <1>3 DEF CheckpointOK, Checkpoint
      <4>2. Len(Alloc(s.alloc, s.rows)) = s.alloc
        BY <4>1, AllocRows
      <4> QED
        BY <1>2, <3>2, <4>2
    <3> QED
      BY <3>1, <3>2
  <2> HIDE DEF dev, next, buf, hostDev, boundary
  <2>5. /\ full.rep = s.rep /\ full.host = s.host /\ full.hostDev = hostDev
        /\ full.pos = s.pos /\ full.home = l.home /\ full.bufDev = dev
        /\ full.offloaded = s.offloaded /\ full.buf = buf
        /\ full.boundary = boundary
    BY DEF NewLayer
  <2>6. m = full
    BY <1>1, <1>2, <1>5
  <2> HIDE DEF full, m
  <2>7. /\ m.rep = l.rep /\ m.host = l.host /\ m.hostDev = l.hostDev
        /\ m.pos = l.pos /\ m.home = l.home /\ m.bufDev = l.bufDev
        /\ m.offloaded = l.offloaded /\ Len(m.buf) = Len(l.buf)
        /\ l.host # <<>> => m.boundary = l.boundary
    BY <1>2, <2>1, <2>2, <2>3, <2>4, <2>5, <2>6
  <2> QED
    BY <2>7 DEF m, s
<1> QED
  BY <1>4, <1>5

\* A checkpoint taken in any reachable state and loaded without map_location
\* gives back the representation, the tiers and the byte accounts of the layer,
\* if it loads at all.
THEOREM RoundTripsAlwaysKeepTiers ==
  ASSUME MapTargets \subseteq {NoDevice, HomeDevice}, ~OffloadsEmpty
  PROVE  Spec => []RoundTripKeepsTiers
<1>1. TiersRight /\ [Next]_vars => TiersRight'
  BY NextTells
<1>2. TiersRight => RoundTripKeepsTiers
  <2> SUFFICES ASSUME TiersRight, Loadable(SaveLayer(layer))
               PROVE  LET l == LoadLayer(SaveLayer(layer), layer.home, layer.cap,
                                         NoDevice) IN
                      /\ l.rep = layer.rep
                      /\ ResidentDevice(l) = ResidentDevice(layer)
                      /\ l.host = layer.host /\ l.hostDev = layer.hostDev
                      /\ HostedTokens(l) = HostedTokens(layer)
                      /\ DeviceRows(l) = DeviceRows(layer)
                      /\ OffloadedRows(l) = OffloadedRows(layer)
    BY DEF RoundTripKeepsTiers
  <2> DEFINE l == LoadLayer(SaveLayer(layer), layer.home, layer.cap, NoDevice)
  <2>1. LayerOK(layer) /\ TiersTold(layer)
    BY ConsistentFacts DEF TiersRight
  <2>2. /\ l.rep = layer.rep /\ l.host = layer.host /\ l.hostDev = layer.hostDev
        /\ l.pos = layer.pos /\ l.home = layer.home /\ l.bufDev = layer.bufDev
        /\ l.offloaded = layer.offloaded /\ Len(l.buf) = Len(layer.buf)
        /\ layer.host # <<>> => l.boundary = layer.boundary
    BY <2>1, RoundTrip
  <2> HIDE DEF l
  <2>3. ResidentDevice(l) = ResidentDevice(layer)
    BY <2>2 DEF ResidentDevice, IsInitialized
  <2>4. HostedTokens(l) = HostedTokens(layer)
    BY <2>2 DEF HostedTokens, IsSplit, NumTokens
  <2>5. StoredRows(l) = StoredRows(layer)
    BY <2>2 DEF StoredRows
  <2>6. DeviceRows(l) = DeviceRows(layer) /\ OffloadedRows(l) = OffloadedRows(layer)
    BY <2>2, <2>5 DEF DeviceRows, OffloadedRows, IsSplit
  <2> QED
    BY <2>2, <2>3, <2>4, <2>6 DEF l
<1> QED
  BY InitTells, <1>1, <1>2, PTL DEF Spec
=============================================================================
