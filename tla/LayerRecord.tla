---------------------------- MODULE LayerRecord ----------------------------
(***************************************************************************)
(* One cache layer of UniqKache (cache/store.py LayerStorage together with *)
(* the positions of its cache/metadata.py LayerMetadata) as a record, and  *)
(* every method that changes it as an operator from records to records.    *)
(* The modules that give a layer behaviour (LayerStorage, KVCache) apply   *)
(* these operators; nothing here is a state machine.                       *)
(*                                                                         *)
(* A K/V row is abstracted to the absolute position of the token it was    *)
(* computed for, so "slot i holds the row of the token that metadata slot  *)
(* i describes" is an equation between sequences.  Keys and values are     *)
(* always allocated, sliced and gathered together: one sequence stands for *)
(* both.  Slots are numbered from 1 where the code counts from 0.          *)
(***************************************************************************)
EXTENDS Integers, Sequences

CONSTANTS
  Devices,       \* the memory tiers a tensor can live on
  NoDevice,      \* load() without map_location
  InitialAlloc   \* rows a layer without capacity first allocates (64)

ASSUME NoDeviceAssumption == NoDevice \notin Devices
ASSUME DevicesAssumption == Devices # {}
ASSUME InitialAllocAssumption == InitialAlloc \in Nat \ {0}

\* What torch.empty leaves in a row nobody has written yet.
Garbage == -1

\* capacity = None
Unbounded == 0

MaxOf(a, b) == IF a >= b THEN a ELSE b
MinOf(a, b) == IF a <= b THEN a ELSE b

(***************************************************************************)
(* rep       the representation: no tensors, float buffers, int8 payload   *)
(* buf       the rows allocated in _keys_buf (or in the int8 payload)      *)
(* bufDev    the device of those rows                                      *)
(* host      the hosted tail of a split layer, <<>> when it is not split   *)
(* hostDev   the device of the hosted tail                                 *)
(* boundary  _resident_boundary                                            *)
(* offloaded _offloaded                                                    *)
(* home      self.device, which move_to can change                         *)
(* cap       capacity                                                      *)
(* pos       metadata.positions, one per cached token                      *)
(* next      metadata._next_position                                       *)
(* metaDev   metadata._device                                              *)
(***************************************************************************)
Layer ==
  [rep : {"none", "float", "quant"}, buf : Seq(Int), bufDev : Devices,
   host : Seq(Int), hostDev : Devices, boundary : Nat, offloaded : BOOLEAN,
   home : Devices, cap : Nat, pos : Seq(Int), next : Nat, metaDev : Devices]

NewLayer(home, cap) ==
  [rep |-> "none", buf |-> <<>>, bufDev |-> home, host |-> <<>>,
   hostDev |-> home, boundary |-> 0, offloaded |-> FALSE, home |-> home,
   cap |-> cap, pos |-> <<>>, next |-> 0, metaDev |-> home]

-----------------------------------------------------------------------------
(***************************************************************************)
(* Tensor idioms.                                                          *)
(***************************************************************************)

\* torch.empty of n rows with the rows of s copied to its front.
Alloc(n, s) == [i \in 1 .. n |-> IF i <= Len(s) THEN s[i] ELSE Garbage]

\* buf[from : from + len(s)] = s
Overwrite(buf, from, s) ==
  [i \in 1 .. Len(buf) |->
     IF i > from /\ i <= from + Len(s) THEN s[i - from] ELSE buf[i]]

\* s[first : last], which Python cuts off at the end of s.
Slice(s, first, last) ==
  [i \in 1 .. MaxOf(0, MinOf(last, Len(s)) - first) |-> s[first + i]]

\* s[indices]
Gather(s, idx) == [i \in 1 .. Len(idx) |-> s[idx[i]]]

\* max(next, max(s) + 1)
NextAfter(next, s) ==
  IF \A i \in 1 .. Len(s) : s[i] < next THEN next
  ELSE CHOOSE m \in {s[i] + 1 : i \in 1 .. Len(s)} :
         \A i \in 1 .. Len(s) : s[i] < m

-----------------------------------------------------------------------------
(***************************************************************************)
(* What a layer reports.                                                   *)
(***************************************************************************)

NumTokens(l) == Len(l.pos)
IsInitialized(l) == l.rep # "none"
IsSplit(l) == l.host # <<>>
HostedTokens(l) == IF IsSplit(l) THEN NumTokens(l) - l.boundary ELSE 0
ResidentDevice(l) == IF IsInitialized(l) THEN l.bufDev ELSE l.home

\* init_cap: the rows a first allocation reserves.
InitCap(l) == IF l.cap = Unbounded THEN InitialAlloc ELSE l.cap

\* The keys property: dequantised, or both tiers gathered in slot order.
View(l) ==
  IF l.rep = "quant" THEN l.buf
  ELSE IF IsSplit(l) THEN Slice(l.buf, 0, l.boundary) \o l.host
  ELSE Slice(l.buf, 0, NumTokens(l))

\* torch.cat in _gather moves the hosted tail home but not the prefix: it
\* fails unless the prefix already lives there.
Gatherable(l) == IsSplit(l) => l.bufDev = l.home

\* bytes(), device_bytes() and offloaded_bytes(), counted in allocated rows.
StoredRows(l) == Len(l.buf) + Len(l.host)
DeviceRows(l) ==
  IF l.offloaded THEN 0
  ELSE IF IsSplit(l) /\ l.hostDev # l.home THEN Len(l.buf)
  ELSE StoredRows(l)
OffloadedRows(l) ==
  IF l.offloaded THEN StoredRows(l)
  ELSE IF IsSplit(l) /\ l.hostDev # l.home THEN Len(l.host)
  ELSE 0

-----------------------------------------------------------------------------
(***************************************************************************)
(* The methods.                                                            *)
(***************************************************************************)

\* _collapse_split
Collapse(l) ==
  IF IsSplit(l)
  THEN [l EXCEPT !.buf = View(l), !.bufDev = l.home, !.host = <<>>,
                 !.hostDev = l.home, !.boundary = 0]
  ELSE l

\* materialize: the floats stay on the device the payload was on.
Materialize(l) ==
  IF l.rep = "quant"
  THEN [l EXCEPT !.rep = "float",
                 !.buf = Alloc(MaxOf(Len(l.buf), InitCap(l)), l.buf)]
  ELSE l

\* Mutants of MoveTo: a split layer leaves its tail behind; the flag is set by
\* every move and never taken back.
MoveToDropsTail(l, d) ==
  IF IsInitialized(l)
  THEN [l EXCEPT !.bufDev = d, !.host = <<>>, !.hostDev = l.home,
                 !.boundary = 0, !.metaDev = d, !.offloaded = (d # l.home)]
  ELSE [l EXCEPT !.home = d, !.bufDev = d, !.hostDev = d, !.metaDev = d]

MoveToMarksAlways(l, d) ==
  LET c == Collapse(l) IN
  IF IsInitialized(c)
  THEN [c EXCEPT !.bufDev = d, !.metaDev = d, !.offloaded = TRUE]
  ELSE [c EXCEPT !.home = d, !.bufDev = d, !.hostDev = d, !.metaDev = d]

\* move_to: a layer without tensors takes the device as its new home.
MoveTo(l, d) ==
  LET c == Collapse(l) IN
  IF IsInitialized(c)
  THEN [c EXCEPT !.bufDev = d, !.metaDev = d, !.offloaded = (d # c.home)]
  ELSE [c EXCEPT !.home = d, !.bufDev = d, !.hostDev = d, !.metaDev = d]

ReturnHome(l) == IF l.offloaded THEN MoveTo(l, l.home) ELSE l

\* Mutant of Room: append forgets to collapse a split layer.
RoomKeepsSplit(l, n) ==
  LET c == ReturnHome(Materialize(l))
      needed == NumTokens(c) + n
      live == Slice(c.buf, 0, NumTokens(c))
      buf == IF ~IsInitialized(c) THEN Alloc(MaxOf(needed, InitCap(c)), <<>>)
             ELSE IF needed > Len(c.buf)
             THEN Alloc(MaxOf(needed, 2 * Len(c.buf)), live)
             ELSE c.buf
  IN [c EXCEPT !.rep = "float", !.bufDev = c.home, !.buf = buf]

\* The rows append makes room in: all tokens float, home, in one buffer.
Room(l, n) ==
  LET c == Collapse(ReturnHome(Materialize(l)))
      needed == NumTokens(c) + n
      live == Slice(c.buf, 0, NumTokens(c))
      buf == IF ~IsInitialized(c) THEN Alloc(MaxOf(needed, InitCap(c)), <<>>)
             ELSE IF needed > Len(c.buf)
             THEN Alloc(MaxOf(needed, 2 * Len(c.buf)), live)
             ELSE c.buf
  IN [c EXCEPT !.rep = "float", !.bufDev = c.home, !.buf = buf]

\* append: new is the positions of the appended rows.
AppendRows(l, new) ==
  LET r == Room(l, Len(new)) IN
  [r EXCEPT !.buf = Overwrite(r.buf, NumTokens(r), new),
            !.pos = r.pos \o new,
            !.next = NextAfter(r.next, new),
            !.offloaded = FALSE]

\* append whose positions have the wrong length: metadata.append raises after
\* the rows were written.
AppendFails(l, n) ==
  LET r == Room(l, n) IN
  [r EXCEPT !.buf = Overwrite(r.buf, NumTokens(r), Alloc(n, <<>>))]

\* Mutant of Keep: the rows are left where they are when the buffer already has
\* the right size.
KeepInPlace(l, idx) ==
  LET c == Collapse(l)
      buf == IF Len(c.buf) # MaxOf(Len(idx), c.cap) THEN Gather(c.buf, idx)
             ELSE c.buf
  IN [c EXCEPT !.rep = IF idx = <<>> THEN "none" ELSE @,
               !.buf = IF idx = <<>> THEN <<>> ELSE buf,
               !.pos = Gather(c.pos, idx)]

\* keep of an initialised layer; idx lists the surviving slots.
Keep(l, idx) ==
  LET c == Collapse(l)
      alloc == MaxOf(Len(idx), c.cap)
      kept == Gather(c.buf, idx)
      buf == IF c.rep = "quant" THEN kept
             ELSE IF Len(c.buf) # alloc THEN Alloc(alloc, kept)
             ELSE Overwrite(c.buf, 0, kept)
  IN IF idx = <<>>
     THEN [c EXCEPT !.rep = "none", !.buf = <<>>, !.bufDev = c.home,
                    !.offloaded = FALSE, !.pos = <<>>]
     ELSE [c EXCEPT !.buf = buf, !.pos = Gather(c.pos, idx)]

\* clear, with metadata.clear, which keeps the metadata's device.
Clear(l) ==
  [l EXCEPT !.rep = "none", !.buf = <<>>, !.bufDev = l.home, !.host = <<>>,
            !.hostDev = l.home, !.boundary = 0, !.offloaded = FALSE,
            !.pos = <<>>, !.next = 0]

\* offload_tail past its checks: r tokens stay, the rest goes to device d.
OffloadTail(l, r, d) ==
  LET h == ReturnHome(l)
      c == Collapse(h)
  IN IF r = 0
     THEN IF l.offloaded /\ ResidentDevice(l) = d THEN l ELSE MoveTo(l, d)
     ELSE IF r = NumTokens(l) THEN h
     ELSE [c EXCEPT !.buf = Slice(c.buf, 0, r),
                    !.host = Slice(c.buf, r, NumTokens(c)),
                    !.hostDev = d, !.boundary = r]

\* prefetch_tail of a split layer: n hosted rows join the resident prefix.
PrefetchTail(l, n) ==
  LET b == l.boundary + n
      rows == Slice(l.buf, 0, l.boundary) \o Slice(l.host, 0, n)
      rest == Slice(l.host, n, Len(l.host))
  IN [l EXCEPT !.buf = Alloc(MaxOf(b, l.cap), rows), !.bufDev = l.home,
               !.host = rest,
               !.hostDev = IF rest = <<>> THEN l.home ELSE @,
               !.boundary = b]

\* The compressor's payload of the whole view, adopted by apply_compression.
Compress(l) ==
  [l EXCEPT !.rep = "quant", !.buf = View(l),
            !.bufDev = IF IsSplit(l) THEN l.home ELSE @,
            !.host = <<>>, !.hostDev = l.home, !.boundary = 0]

-----------------------------------------------------------------------------
(***************************************************************************)
(* Checkpoints.                                                            *)
(***************************************************************************)

Checkpoint ==
  [rep : {"none", "float", "quant"}, offloaded : BOOLEAN, dev : Devices,
   boundary : Nat, alloc : Nat, rows : Seq(Int), host : Seq(Int),
   hostDev : Devices, pos : Seq(Int), next : Nat]

\* state_dict
SaveLayer(l) ==
  [rep |-> l.rep, offloaded |-> l.offloaded, dev |-> ResidentDevice(l),
   boundary |-> l.boundary, alloc |-> Len(l.buf),
   rows |-> IF l.rep = "quant" THEN l.buf
            ELSE Slice(l.buf, 0, NumTokens(l)),
   host |-> l.host, hostDev |-> l.hostDev, pos |-> l.pos, next |-> l.next]

\* The checks of load_state_dict that a checkpoint can fail.
Loadable(s) ==
  /\ s.rep = "float" /\ s.host # <<>> => s.boundary = Len(s.rows)
  /\ Len(s.rows) + Len(s.host) = Len(s.pos)

\* Mutants of LoadLayer: the restored layer is taken to be at home; the next
\* position is derived from the surviving positions alone.
LoadLayerAtHome(s, home, cap, target) ==
  [NewLayer(home, cap) EXCEPT
     !.rep = s.rep, !.host = s.host, !.pos = s.pos, !.next = s.next,
     !.hostDev = IF s.host = <<>> THEN home ELSE s.hostDev,
     !.boundary = IF s.host = <<>> THEN 0 ELSE Len(s.rows),
     !.buf = IF s.rep = "float" THEN Alloc(s.alloc, s.rows) ELSE s.rows,
     !.bufDev = IF s.offloaded THEN s.dev ELSE home]

LoadLayerForgetsNext(s, home, cap, target) ==
  [NewLayer(home, cap) EXCEPT
     !.rep = s.rep, !.host = s.host, !.pos = s.pos,
     !.next = NextAfter(0, s.pos),
     !.hostDev = IF s.host = <<>> THEN home ELSE s.hostDev,
     !.boundary = IF s.host = <<>> THEN 0 ELSE Len(s.rows),
     !.buf = IF s.rep = "float" THEN Alloc(s.alloc, s.rows) ELSE s.rows]

\* load_state_dict into a new layer; target is where map_location put it.
LoadLayer(s, home, cap, target) ==
  LET dev == IF target # NoDevice THEN target
             ELSE IF s.offloaded THEN s.dev ELSE home
      away == IF target # NoDevice THEN target # home ELSE s.offloaded
      fresh == [NewLayer(home, cap) EXCEPT !.pos = s.pos,
                                           !.next = NextAfter(s.next, s.pos),
                                           !.metaDev = dev]
  IN IF s.rep = "none" THEN fresh
     ELSE [fresh EXCEPT
             !.rep = s.rep,
             !.buf = IF s.rep = "quant" THEN s.rows ELSE Alloc(s.alloc, s.rows),
             !.bufDev = dev, !.offloaded = away, !.host = s.host,
             !.hostDev = IF s.host = <<>> THEN home ELSE s.hostDev,
             !.boundary = IF s.host = <<>> THEN 0 ELSE Len(s.rows)]

-----------------------------------------------------------------------------
(***************************************************************************)
(* The consistency every method relies on and re-establishes.              *)
(***************************************************************************)

\* s starts with the rows t.
StartsWith(s, t) ==
  /\ Len(t) <= Len(s)
  /\ \A i \in 1 .. Len(t) : s[i] = t[i]

\* Rows b + 1 .. of t are the rows of s.
EndsWith(t, b, s) ==
  /\ Len(s) = Len(t) - b
  /\ \A i \in 1 .. Len(s) : s[i] = t[b + i]

LayerOK(l) ==
  /\ l \in Layer
  /\ \A i \in 1 .. Len(l.pos) : l.pos[i] < l.next
  /\ l.rep = "none" => l.buf = <<>> /\ l.host = <<>> /\ l.pos = <<>>
  /\ l.rep = "quant" => l.buf = l.pos /\ l.host = <<>>
  /\ l.rep = "float" /\ l.host = <<>> => StartsWith(l.buf, l.pos)
  /\ l.host # <<>> =>
       /\ l.rep = "float"
       /\ 0 < l.boundary /\ l.boundary < Len(l.pos)
       /\ l.boundary <= Len(l.buf)
       /\ \A i \in 1 .. l.boundary : l.buf[i] = l.pos[i]
       /\ EndsWith(l.pos, l.boundary, l.host)

CheckpointOK(s) ==
  /\ s \in Checkpoint
  /\ \A i \in 1 .. Len(s.pos) : s.pos[i] < s.next
  /\ s.rep = "none" => s.rows = <<>> /\ s.host = <<>> /\ s.pos = <<>>
  /\ s.rep # "none" /\ s.host = <<>> => s.rows = s.pos
  /\ s.rep = "quant" => s.host = <<>>
  /\ s.rep = "float" => Len(s.rows) <= s.alloc
  /\ s.host # <<>> =>
       /\ 0 < s.boundary /\ s.boundary < Len(s.pos)
       /\ s.boundary <= Len(s.rows)
       /\ \A i \in 1 .. s.boundary : s.rows[i] = s.pos[i]
       /\ EndsWith(s.pos, s.boundary, s.host)
=============================================================================
