---------------------------- MODULE LayerStorage ----------------------------
(***************************************************************************)
(* One layer of the cache under every call KVCache makes on it             *)
(* (cache/store.py LayerStorage, as driven by cache/kv_cache.py): rows are *)
(* appended, evicted, quantised, moved between tiers whole or in part,     *)
(* saved to a checkpoint and restored from it.  The hazard is that the     *)
(* three layouts (plain, split, quantised), the slack rows behind the live *)
(* ones and the bookkeeping in the metadata are kept in step by hand in    *)
(* every method.                                                           *)
(***************************************************************************)
EXTENDS LayerRecord

CONSTANTS
  HomeDevice,     \* the device the cache is built on
  Capacities,     \* values of capacity, Unbounded (None) among them or not
  MapTargets,     \* values of map_location load() is called with
  AnyOrder,       \* TRUE: keep() is also called with lists that are not ascending
  AnyPosition,    \* TRUE: append() is also given positions it was given before
  OffloadsEmpty,  \* TRUE: offload(keep_resident = 0) also meets empty layers
  MaxTokens,      \* bound: tokens in the layer
  MaxPosition     \* bound: positions handed out before a clear

ASSUME HomeAssumption == HomeDevice \in Devices
ASSUME CapacitiesAssumption == Capacities \subseteq Nat /\ Capacities # {}
ASSUME TargetsAssumption == MapTargets \subseteq Devices \cup {NoDevice}
ASSUME FlagsAssumption == {AnyOrder, AnyPosition, OffloadsEmpty} \subseteq BOOLEAN
ASSUME BoundsAssumption == MaxTokens \in Nat /\ MaxPosition \in Nat

VARIABLES
  layer,   \* the LayerStorage object
  ckpt     \* the last state_dict written to disk: <<>> or <<checkpoint>>

vars == <<layer, ckpt>>

Init ==
  /\ \E c \in Capacities : layer = NewLayer(HomeDevice, c)
  /\ ckpt = <<>>

-----------------------------------------------------------------------------
\* The lists of slots keep() can be given for n tokens: what a policy's
\* select() and KVCache._complement return is ascending; a caller's own list
\* need not be.
KeepLists(n) ==
  {idx \in UNION {[1 .. k -> 1 .. n] : k \in 0 .. MaxTokens} :
     AnyOrder \/ \A i, j \in DOMAIN idx : i < j => idx[i] < idx[j]}

\* Rows for n tokens at consecutive positions from start on; a caller that
\* passes no positions gets start = next.  append() checks nothing about the
\* positions it is given; the model of models/synthetic.py counts upwards.
AppendTokens(start, n) ==
  /\ AnyPosition \/ start >= layer.next
  /\ NumTokens(layer) + n <= MaxTokens
  /\ start + n <= MaxPosition
  /\ Gatherable(layer)
  /\ layer' = AppendRows(layer, [i \in 1 .. n |-> start + i - 1])
  /\ UNCHANGED ckpt

\* append with positions of the wrong length raises half-way.
AppendRaises(n) ==
  /\ NumTokens(layer) + n <= MaxTokens
  /\ Gatherable(layer)
  /\ layer' = AppendFails(layer, n)
  /\ UNCHANGED ckpt

KeepSlots(idx) ==
  /\ IsInitialized(layer)
  /\ Gatherable(layer)
  /\ layer' = Keep(layer, idx)
  /\ UNCHANGED ckpt

\* keep with a slot out of range raises, after the split was collapsed.
KeepRaises ==
  /\ IsInitialized(layer)
  /\ Gatherable(layer)
  /\ layer' = Collapse(layer)
  /\ UNCHANGED ckpt

ClearLayer ==
  /\ layer' = Clear(layer)
  /\ UNCHANGED ckpt

\* offload() of the whole layer: skips what is not there or already away.
Offload(d) ==
  /\ IsInitialized(layer)
  /\ ~layer.offloaded
  /\ ResidentDevice(layer) # d
  /\ Gatherable(layer)
  /\ layer' = MoveTo(layer, d)
  /\ UNCHANGED ckpt

\* offload(keep_resident = r): raises on a payload, does nothing when the
\* tier is the home device.
OffloadKeeping(r, d) ==
  /\ layer.rep # "quant"
  /\ r <= NumTokens(layer)
  /\ d # layer.home
  /\ OffloadsEmpty \/ NumTokens(layer) > 0
  /\ Gatherable(layer)
  /\ layer' = OffloadTail(layer, r, d)
  /\ UNCHANGED ckpt

\* prefetch() of the whole layer to device d, the home device by default.
Prefetch(d) ==
  /\ \/ /\ layer.offloaded
        /\ Gatherable(layer)
        /\ layer' = MoveTo(layer, d)
     \/ /\ ~layer.offloaded
        /\ IsSplit(layer)
        /\ layer' = PrefetchTail(layer, HostedTokens(layer))
  /\ UNCHANGED ckpt

\* prefetch(tokens = n)
PrefetchTokens(n) ==
  /\ IsSplit(layer)
  /\ n <= HostedTokens(layer)
  /\ layer' = PrefetchTail(layer, n)
  /\ UNCHANGED ckpt

\* compress() skips empty and quantised layers; no compressor quantises zero
\* tokens.
CompressLayer ==
  /\ layer.rep = "float"
  /\ NumTokens(layer) > 0
  /\ Gatherable(layer)
  /\ layer' = Compress(layer)
  /\ UNCHANGED ckpt

Decompress ==
  /\ layer.rep = "quant"
  /\ layer' = Materialize(layer)
  /\ UNCHANGED ckpt

\* set_capacity writes layer.capacity; the eviction it may trigger is a keep.
SetCapacity(c) ==
  /\ c # layer.cap
  /\ layer' = [layer EXCEPT !.cap = c]
  /\ UNCHANGED ckpt

Save ==
  /\ ckpt' = <<SaveLayer(layer)>>
  /\ UNCHANGED layer

\* load() builds a new layer; a checkpoint that fails its checks raises and
\* leaves the old layer in place.
Restore(target) ==
  /\ ckpt # <<>>
  /\ Loadable(ckpt[1])
  /\ layer' = LoadLayer(ckpt[1], HomeDevice, layer.cap, target)
  /\ UNCHANGED ckpt

Next ==
  \/ \E start \in 0 .. MaxPosition, n \in 0 .. MaxTokens : AppendTokens(start, n)
  \/ \E n \in 0 .. MaxTokens : AppendRaises(n)
  \/ \E idx \in KeepLists(NumTokens(layer)) : KeepSlots(idx)
  \/ KeepRaises
  \/ ClearLayer
  \/ \E d \in Devices : Offload(d)
  \/ \E r \in 0 .. MaxTokens, d \in Devices : OffloadKeeping(r, d)
  \/ \E d \in Devices : Prefetch(d)
  \/ \E n \in 1 .. MaxTokens : PrefetchTokens(n)
  \/ CompressLayer
  \/ Decompress
  \/ \E c \in Capacities : SetCapacity(c)
  \/ Save
  \/ \E target \in MapTargets : Restore(target)

Spec == Init /\ [][Next]_vars

-----------------------------------------------------------------------------
(***************************************************************************)
(* Invariants.                                                             *)
(***************************************************************************)

\* Every field of the layer and of the checkpoint keeps its type.
TypeOK ==
  /\ layer \in Layer
  /\ ckpt \in Seq(Checkpoint)
  /\ Len(ckpt) <= 1

\* The inductive invariant: the layer and the checkpoint are consistent in
\* each of the three representations.
Consistent ==
  /\ LayerOK(layer)
  /\ Len(ckpt) <= 1
  /\ ckpt \in Seq(Checkpoint)
  /\ ckpt # <<>> => CheckpointOK(ckpt[1])

\* What a reader gets from keys/values is, slot by slot, the row of the token
\* whose position the metadata lists there: never a slack row, a row of an
\* evicted token, or the rows of the two tiers in the wrong order.
ReadersGetTheirTokens == View(layer) = layer.pos

\* A split layer is a float layer whose boundary cuts its tokens in two
\* non-empty parts, the second of which is exactly the hosted tail ("by
\* construction implies 0 < _resident_boundary < num_tokens").
SplitShape ==
  IsSplit(layer) =>
    /\ layer.rep = "float"
    /\ 0 < layer.boundary /\ layer.boundary < NumTokens(layer)
    /\ Len(layer.host) = NumTokens(layer) - layer.boundary
    /\ layer.boundary <= Len(layer.buf)

\* Rows that sit on the home device, wherever the flags say they are.
RowsAtHome ==
  (IF layer.bufDev = layer.home THEN Len(layer.buf) ELSE 0)
  + (IF layer.hostDev = layer.home THEN Len(layer.host) ELSE 0)

\* device_bytes() and offloaded_bytes() are computed from the _offloaded flag
\* and the split: together they count every stored row once, each row on the
\* side it is physically on ("the figure always describes physical residency").
BytesArePhysical ==
  /\ DeviceRows(layer) = RowsAtHome
  /\ OffloadedRows(layer) = StoredRows(layer) - RowsAtHome

\* A checkpoint taken now and loaded without map_location gives back the same
\* representation, tiers and byte accounts, if it can be loaded at all.
RoundTripKeepsTiers ==
  Loadable(SaveLayer(layer)) =>
    LET l == LoadLayer(SaveLayer(layer), layer.home, layer.cap, NoDevice) IN
    /\ l.rep = layer.rep
    /\ ResidentDevice(l) = ResidentDevice(layer)
    /\ l.host = layer.host /\ l.hostDev = layer.hostDev
    /\ HostedTokens(l) = HostedTokens(layer)
    /\ DeviceRows(l) = DeviceRows(layer)
    /\ OffloadedRows(l) = OffloadedRows(layer)

(***************************************************************************)
(* The layer implements the token log: whatever tier, layout or precision  *)
(* its rows are in, readers see an append-only list that changes by        *)
(* append, keep, clear and restore alone.  Tier moves, compression,        *)
(* capacity changes and calls that raise half-way are stuttering steps.    *)
(***************************************************************************)
Log == INSTANCE TokenLog WITH
         tokens <- View(layer),
         next <- layer.next,
         saved <- IF ckpt = <<>> THEN <<>> ELSE <<ckpt[1].pos, ckpt[1].next>>

ImplementsTokenLog == Log!Spec

-----------------------------------------------------------------------------
(***************************************************************************)
(* What the documentation and the tests say of a layer and the code does   *)
(* not do.                                                                 *)
(***************************************************************************)

\* "the split survives a checkpoint round trip": whatever was saved can be
\* loaded.  A split layer whose prefix was grown by a partial prefetch saves
\* the slack of its buffer as resident rows, and load_state_dict refuses it.
CheckpointLoads == ckpt # <<>> => Loadable(ckpt[1])

\* "callers always see the full token set": the two tiers of a split layer can
\* be concatenated.  load_checkpoint with a map_location other than the home
\* device puts the prefix where _gather does not look for it.
SplitIsReadable == Gatherable(layer)
=============================================================================
