------------------------- MODULE LayerRecord_proofs -------------------------
(***************************************************************************)
(* Every method of a layer preserves its consistency and does to its       *)
(* positions exactly what it says.                                         *)
(***************************************************************************)
EXTENDS LayerRecord, SequenceTheorems, TLAPS

(***************************************************************************)
(* The tensor idioms return sequences of known length and contents.        *)
(***************************************************************************)

\* torch.empty plus a copy: n rows, the first of which are those of s.
LEMMA AllocRows ==
  ASSUME NEW n \in Nat, NEW s \in Seq(Int)
  PROVE  /\ Alloc(n, s) \in Seq(Int)
         /\ Len(Alloc(n, s)) = n
         /\ \A i \in 1 .. n : i <= Len(s) => Alloc(n, s)[i] = s[i]
BY DEF Alloc, Garbage

\* A slice is cut off at the end of the sequence it is taken from.
LEMMA SliceRows ==
  ASSUME NEW s \in Seq(Int), NEW first \in Nat, NEW last \in Nat,
         first <= last, last <= Len(s)
  PROVE  /\ Slice(s, first, last) \in Seq(Int)
         /\ Len(Slice(s, first, last)) = last - first
         /\ \A i \in 1 .. last - first : Slice(s, first, last)[i] = s[first + i]
BY DEF Slice, MaxOf, MinOf

\* The rows before a slot.
LEMMA PrefixRows ==
  ASSUME NEW s \in Seq(Int), NEW n \in Nat, n <= Len(s)
  PROVE  /\ Slice(s, 0, n) \in Seq(Int)
         /\ Len(Slice(s, 0, n)) = n
         /\ \A i \in 1 .. n : Slice(s, 0, n)[i] = s[i]
BY DEF Slice, MaxOf, MinOf

\* Writing rows in place changes those rows and no others.
LEMMA OverwriteRows ==
  ASSUME NEW buf \in Seq(Int), NEW s \in Seq(Int), NEW from \in Nat,
         from + Len(s) <= Len(buf)
  PROVE  /\ Overwrite(buf, from, s) \in Seq(Int)
         /\ Len(Overwrite(buf, from, s)) = Len(buf)
         /\ \A i \in 1 .. from : Overwrite(buf, from, s)[i] = buf[i]
         /\ \A i \in 1 .. Len(s) : Overwrite(buf, from, s)[from + i] = s[i]
BY DEF Overwrite

\* The entries of a sequence over a set are members of the set.
LEMMA EntryOf ==
  ASSUME NEW S, NEW s \in Seq(S), NEW i \in 1 .. Len(s)
  PROVE  s[i] \in S
OBVIOUS

\* Gathering slots takes the row of each slot in the order of the list.
LEMMA GatherRows ==
  ASSUME NEW s \in Seq(Int), NEW m \in Nat, m <= Len(s), NEW idx \in Seq(1 .. m)
  PROVE  /\ Gather(s, idx) \in Seq(Int)
         /\ Len(Gather(s, idx)) = Len(idx)
         /\ \A i \in 1 .. Len(idx) : Gather(s, idx)[i] = s[idx[i]]
BY DEF Gather

\* Rows are equal to the tokens when both start with the same rows and are
\* equally long.
LEMMA SliceOfStart ==
  ASSUME NEW s \in Seq(Int), NEW t \in Seq(Int), StartsWith(s, t)
  PROVE  Slice(s, 0, Len(t)) = t
<1>1. /\ Slice(s, 0, Len(t)) \in Seq(Int)
      /\ Len(Slice(s, 0, Len(t))) = Len(t)
      /\ \A i \in 1 .. Len(t) : Slice(s, 0, Len(t))[i] = s[i]
  <2>1. Len(t) \in Nat /\ Len(t) <= Len(s)
    BY DEF StartsWith
  <2> QED
    BY <2>1, PrefixRows
<1>2. \A i \in 1 .. Len(t) : s[i] = t[i]
  BY DEF StartsWith
<1> QED
  BY <1>1, <1>2, SeqEqual

\* Joining the first b rows of a buffer with the tail that follows them gives
\* the whole list back.
LEMMA TiersJoin ==
  ASSUME NEW buf \in Seq(Int), NEW host \in Seq(Int), NEW t \in Seq(Int),
         NEW b \in Nat, b <= Len(buf), b <= Len(t),
         \A i \in 1 .. b : buf[i] = t[i], EndsWith(t, b, host)
  PROVE  Slice(buf, 0, b) \o host = t
<1> DEFINE front == Slice(buf, 0, b)
           whole == front \o host
<1>1. /\ front \in Seq(Int) /\ Len(front) = b
      /\ \A i \in 1 .. b : front[i] = buf[i]
  BY PrefixRows
<1> HIDE DEF front
<1>2. /\ Len(host) = Len(t) - b
      /\ \A i \in 1 .. Len(host) : host[i] = t[b + i]
  BY DEF EndsWith
<1>3. /\ whole \in Seq(Int) /\ Len(whole) = Len(front) + Len(host)
      /\ \A i \in 1 .. Len(front) + Len(host) :
           whole[i] = IF i <= Len(front) THEN front[i] ELSE host[i - Len(front)]
  BY <1>1, ConcatProperties
<1> HIDE DEF whole
<1>4. Len(whole) = Len(t)
  BY <1>1, <1>2, <1>3
<1>5. ASSUME NEW i \in 1 .. Len(t)
      PROVE  whole[i] = t[i]
  <2>1. CASE i <= b
    <3>1. i \in 1 .. b /\ i \in 1 .. Len(front) + Len(host)
      BY <2>1, <1>1, <1>2
    <3>2. whole[i] = front[i]
      BY <2>1, <3>1, <1>1, <1>3
    <3> QED
      BY <3>1, <3>2, <1>1
  <2>2. CASE i > b
    <3>1. i - b \in 1 .. Len(host) /\ b + (i - b) = i
      BY <2>2, <1>2
    <3>2. host[i - b] = t[i]
      BY <3>1, <1>2
    <3>3. i \in 1 .. Len(front) + Len(host) /\ ~(i <= Len(front))
      BY <2>2, <1>1, <1>2
    <3>4. whole[i] = host[i - Len(front)]
      BY <3>3, <1>3
    <3> QED
      BY <3>2, <3>4, <1>1
  <2> QED
    BY <2>1, <2>2
<1>6. whole = t
  BY <1>3, <1>4, <1>5, SeqEqual
<1> QED
  BY <1>6 DEF whole, front

(***************************************************************************)
(* What a consistent layer reports.                                        *)
(***************************************************************************)

\* The view of a consistent layer is its list of positions, in each of the
\* three layouts.
LEMMA ViewIsPositions ==
  ASSUME NEW l, LayerOK(l)
  PROVE  View(l) = l.pos
<1>1. l \in Layer
  BY DEF LayerOK
<1>2. CASE l.rep = "quant"
  BY <1>2 DEF View, LayerOK
<1>3. CASE l.rep = "none"
  <2>1. l.buf = <<>> /\ l.pos = <<>> /\ l.host = <<>>
    BY <1>3 DEF LayerOK
  <2>2. StartsWith(l.buf, l.pos)
    BY <2>1 DEF StartsWith
  <2> QED
    BY <1>1, <1>3, <2>1, <2>2, SliceOfStart DEF View, IsSplit, NumTokens, Layer
<1>4. CASE l.rep = "float" /\ l.host = <<>>
  <2>1. StartsWith(l.buf, l.pos)
    BY <1>4 DEF LayerOK
  <2> QED
    BY <1>1, <1>4, <2>1, SliceOfStart DEF View, IsSplit, NumTokens, Layer
<1>5. CASE l.host # <<>>
  <2>1. /\ l.rep = "float" /\ l.boundary \in Nat
        /\ l.boundary <= Len(l.pos) /\ l.boundary <= Len(l.buf)
        /\ \A i \in 1 .. l.boundary : l.buf[i] = l.pos[i]
        /\ EndsWith(l.pos, l.boundary, l.host)
    <3>1. l.boundary \in Nat /\ l.pos \in Seq(Int)
      BY <1>1 DEF Layer
    <3> QED
      BY <1>5, <3>1 DEF LayerOK
  <2>2. l.buf \in Seq(Int) /\ l.pos \in Seq(Int) /\ l.host \in Seq(Int)
    BY <1>1 DEF Layer
  <2>3. Slice(l.buf, 0, l.boundary) \o l.host = l.pos
    <3> DEFINE b == l.boundary
    <3>1. b \in Nat /\ b <= Len(l.buf) /\ b <= Len(l.pos)
          /\ (\A i \in 1 .. b : l.buf[i] = l.pos[i]) /\ EndsWith(l.pos, b, l.host)
      BY <2>1
    <3> HIDE DEF b
    <3>2. Slice(l.buf, 0, b) \o l.host = l.pos
      BY <3>1, <2>2, TiersJoin
    <3> QED
      BY <3>2 DEF b
  <2> QED
    BY <1>5, <2>1, <2>3 DEF View, IsSplit
<1> QED
  BY <1>1, <1>2, <1>3, <1>4, <1>5 DEF Layer

(***************************************************************************)
(* The methods.  Each lemma says that the method keeps a layer consistent  *)
(* and what becomes of its tokens and its layout.                          *)
(***************************************************************************)

\* A new layer is consistent and empty.
LEMMA NewLayerOK ==
  ASSUME NEW home \in Devices, NEW cap \in Nat
  PROVE  LayerOK(NewLayer(home, cap))
BY DEF NewLayer, LayerOK, Layer

\* Collapsing a split gathers the same tokens into one buffer.
LEMMA CollapseOK ==
  ASSUME NEW l, LayerOK(l)
  PROVE  /\ LayerOK(Collapse(l))
         /\ Collapse(l).host = <<>>
         /\ Collapse(l).pos = l.pos /\ Collapse(l).next = l.next
         /\ Collapse(l).rep = l.rep /\ Collapse(l).cap = l.cap
<1>1. l \in Layer
  BY DEF LayerOK
<1>2. CASE l.host = <<>>
  BY <1>2 DEF Collapse, IsSplit
<1>3. CASE l.host # <<>>
  <2> DEFINE m == [l EXCEPT !.buf = l.pos, !.bufDev = l.home, !.host = <<>>,
                            !.hostDev = l.home, !.boundary = 0]
  <2>1. Collapse(l) = m
    BY <1>3, ViewIsPositions DEF Collapse, IsSplit
  <2>2. m \in Layer /\ m.buf = l.pos /\ m.host = <<>> /\ m.pos = l.pos
        /\ m.next = l.next /\ m.rep = l.rep /\ m.cap = l.cap
    <3>1. <<>> \in Seq(Int)
      OBVIOUS
    <3>2. m \in Layer
      BY <1>1, <3>1 DEF Layer
    <3>3. m.buf = l.pos /\ m.host = <<>> /\ m.pos = l.pos
      BY <1>1 DEF Layer
    <3>4. m.next = l.next /\ m.rep = l.rep /\ m.cap = l.cap
      BY <1>1 DEF Layer
    <3> QED
      BY <3>2, <3>3, <3>4
  <2>3. l.rep = "float" /\ \A i \in 1 .. Len(l.pos) : l.pos[i] < l.next
    BY <1>3 DEF LayerOK
  <2>4. StartsWith(m.buf, m.pos)
    BY <1>1, <2>2 DEF StartsWith, Layer
  <2> HIDE DEF m
  <2>5. LayerOK(m)
    BY <2>2, <2>3, <2>4 DEF LayerOK
  <2> QED
    BY <2>1, <2>2, <2>5
<1> QED
  BY <1>2, <1>3

\* Dequantising keeps the tokens and leaves no payload behind.
LEMMA MaterializeOK ==
  ASSUME NEW l, LayerOK(l)
  PROVE  /\ LayerOK(Materialize(l))
         /\ Materialize(l).pos = l.pos /\ Materialize(l).next = l.next
         /\ Materialize(l).cap = l.cap
         /\ Materialize(l).rep # "quant"
<1>1. l \in Layer
  BY DEF LayerOK
<1>2. CASE l.rep # "quant"
  BY <1>2 DEF Materialize
<1>3. CASE l.rep = "quant"
  <2> DEFINE n == MaxOf(Len(l.buf), InitCap(l))
             rows == Alloc(n, l.buf)
             m == [l EXCEPT !.rep = "float", !.buf = rows]
  <2>1. Materialize(l) = m
    BY <1>3 DEF Materialize
  <2>2. n \in Nat /\ Len(l.buf) <= n /\ l.buf \in Seq(Int)
    BY <1>1, InitialAllocAssumption DEF Layer, MaxOf, InitCap, Unbounded
  <2> HIDE DEF n
  <2>3. /\ rows \in Seq(Int) /\ Len(rows) = n
        /\ \A i \in 1 .. n : i <= Len(l.buf) => rows[i] = l.buf[i]
    BY <2>2, AllocRows
  <2> HIDE DEF rows
  <2>4. /\ l.buf = l.pos /\ l.host = <<>>
        /\ \A i \in 1 .. Len(l.pos) : l.pos[i] < l.next
    BY <1>3 DEF LayerOK
  <2>5. StartsWith(rows, l.pos)
    <3>1. Len(l.pos) \in Nat /\ Len(l.pos) <= Len(rows)
      BY <2>2, <2>3, <2>4
    <3>2. \A i \in 1 .. Len(l.pos) : rows[i] = l.pos[i]
      <4>1. ASSUME NEW i \in 1 .. Len(l.pos) PROVE rows[i] = l.pos[i]
        <5>1. i \in 1 .. n /\ i <= Len(l.buf)
          BY <3>1, <2>2, <2>3, <2>4
        <5> QED
          BY <5>1, <2>3, <2>4
      <4> QED
        BY <4>1
    <3> QED
      BY <3>1, <3>2 DEF StartsWith
  <2>6. m \in Layer /\ m.buf = rows /\ m.host = <<>> /\ m.pos = l.pos
        /\ m.next = l.next /\ m.rep = "float" /\ m.cap = l.cap
    BY <1>1, <2>3, <2>4 DEF Layer
  <2> HIDE DEF m
  <2>7. LayerOK(m)
    BY <2>4, <2>5, <2>6 DEF LayerOK
  <2> QED
    BY <2>1, <2>6, <2>7
<1> QED
  BY <1>2, <1>3

\* Moving a layer to another tier keeps its tokens and leaves it unsplit.
LEMMA MoveToOK ==
  ASSUME NEW l, LayerOK(l), NEW d \in Devices
  PROVE  /\ LayerOK(MoveTo(l, d))
         /\ MoveTo(l, d).host = <<>>
         /\ MoveTo(l, d).pos = l.pos /\ MoveTo(l, d).next = l.next
         /\ MoveTo(l, d).rep = l.rep /\ MoveTo(l, d).cap = l.cap
<1> DEFINE c == Collapse(l)
           m == MoveTo(l, d)
<1>1. /\ LayerOK(c) /\ c.host = <<>> /\ c.pos = l.pos /\ c.next = l.next
      /\ c.rep = l.rep /\ c.cap = l.cap
  BY CollapseOK
<1>2. m = IF IsInitialized(c)
          THEN [c EXCEPT !.bufDev = d, !.metaDev = d, !.offloaded = (d # c.home)]
          ELSE [c EXCEPT !.home = d, !.bufDev = d, !.hostDev = d, !.metaDev = d]
  BY DEF MoveTo
<1> HIDE DEF c, m
<1>3. c \in Layer
  BY <1>1 DEF LayerOK
<1>4. m \in Layer /\ m.buf = c.buf /\ m.host = c.host /\ m.pos = c.pos
      /\ m.next = c.next /\ m.rep = c.rep /\ m.cap = c.cap /\ m.boundary = c.boundary
  BY <1>2, <1>3 DEF Layer
<1>5. LayerOK(m)
  BY <1>1, <1>4 DEF LayerOK
<1> QED
  BY <1>1, <1>4, <1>5 DEF m

\* A whole-layer offload is undone before rows are added or the layer split.
LEMMA ReturnHomeOK ==
  ASSUME NEW l, LayerOK(l)
  PROVE  /\ LayerOK(ReturnHome(l))
         /\ ReturnHome(l).pos = l.pos /\ ReturnHome(l).next = l.next
         /\ ReturnHome(l).rep = l.rep /\ ReturnHome(l).cap = l.cap
<1>1. l.home \in Devices
  BY DEF LayerOK, Layer
<1> QED
  BY <1>1, MoveToOK DEF ReturnHome

\* Making room leaves the tokens at the front of one float buffer with at
\* least n rows behind them.
LEMMA RoomOK ==
  ASSUME NEW l, LayerOK(l), NEW n \in Nat
  PROVE  /\ LayerOK(Room(l, n))
         /\ Room(l, n).host = <<>> /\ Room(l, n).rep = "float"
         /\ Room(l, n).pos = l.pos /\ Room(l, n).next = l.next
         /\ Len(l.pos) + n <= Len(Room(l, n).buf)
<1> DEFINE c == Collapse(ReturnHome(Materialize(l)))
           needed == Len(c.pos) + n
           live == Slice(c.buf, 0, Len(c.pos))
           fresh == Alloc(MaxOf(needed, InitCap(c)), <<>>)
           grown == Alloc(MaxOf(needed, 2 * Len(c.buf)), live)
           buf == IF ~IsInitialized(c) THEN fresh
                  ELSE IF needed > Len(c.buf) THEN grown
                  ELSE c.buf
           m == [c EXCEPT !.rep = "float", !.bufDev = c.home, !.buf = buf]
<1>1. Room(l, n) = m
  BY DEF Room, NumTokens
<1>2. /\ LayerOK(c) /\ c.host = <<>> /\ c.pos = l.pos /\ c.next = l.next
      /\ c.rep # "quant"
  <2>1. /\ LayerOK(Materialize(l)) /\ Materialize(l).rep # "quant"
        /\ Materialize(l).pos = l.pos /\ Materialize(l).next = l.next
    BY MaterializeOK
  <2>2. /\ LayerOK(ReturnHome(Materialize(l)))
        /\ ReturnHome(Materialize(l)).rep # "quant"
        /\ ReturnHome(Materialize(l)).pos = l.pos
        /\ ReturnHome(Materialize(l)).next = l.next
    BY <2>1, ReturnHomeOK
  <2> QED
    BY <2>2, CollapseOK
<1> HIDE DEF c
<1>3. /\ c \in Layer /\ c.buf \in Seq(Int) /\ c.pos \in Seq(Int)
      /\ Len(c.pos) \in Nat /\ Len(c.buf) \in Nat /\ c.cap \in Nat
      /\ \A i \in 1 .. Len(c.pos) : c.pos[i] < c.next
  BY <1>2 DEF LayerOK, Layer
<1>4. CASE c.rep = "none"
  <2>1. c.pos = <<>>
    BY <1>4, <1>2 DEF LayerOK
  <2>2. MaxOf(needed, InitCap(c)) \in Nat /\ needed <= MaxOf(needed, InitCap(c))
    BY <1>3, InitialAllocAssumption DEF MaxOf, InitCap, Unbounded
  <2>3. fresh \in Seq(Int) /\ Len(fresh) = MaxOf(needed, InitCap(c))
    <3>1. <<>> \in Seq(Int)
      OBVIOUS
    <3> QED
      BY <3>1, <2>2, AllocRows
  <2>4. StartsWith(fresh, c.pos)
    BY <2>1, <2>3, <2>2 DEF StartsWith
  <2>5. buf = fresh
    BY <1>4 DEF IsInitialized
  <2> HIDE DEF fresh, buf
  <2>6. m \in Layer /\ m.buf = buf /\ m.host = c.host /\ m.pos = c.pos
        /\ m.next = c.next /\ m.rep = "float"
    BY <1>3, <2>3, <2>5 DEF Layer
  <2> HIDE DEF m
  <2>7. LayerOK(m)
    BY <1>2, <1>3, <2>4, <2>5, <2>6 DEF LayerOK
  <2> QED
    BY <1>1, <1>2, <2>2, <2>3, <2>5, <2>6, <2>7
<1>5. CASE c.rep = "float"
  <2>1. StartsWith(c.buf, c.pos)
    BY <1>2, <1>5 DEF LayerOK
  <2>2. live = c.pos
    BY <1>3, <2>1, SliceOfStart
  <2>3. MaxOf(needed, 2 * Len(c.buf)) \in Nat
        /\ needed <= MaxOf(needed, 2 * Len(c.buf))
    BY <1>3 DEF MaxOf
  <2>4. /\ grown \in Seq(Int) /\ Len(grown) = MaxOf(needed, 2 * Len(c.buf))
        /\ \A i \in 1 .. Len(grown) : i <= Len(c.pos) => grown[i] = c.pos[i]
    <3> DEFINE k == MaxOf(needed, 2 * Len(c.buf))
    <3>1. grown = Alloc(k, c.pos)
      BY <2>2
    <3>2. k \in Nat
      BY <2>3
    <3> HIDE DEF k, grown
    <3>3. /\ Alloc(k, c.pos) \in Seq(Int) /\ Len(Alloc(k, c.pos)) = k
          /\ \A i \in 1 .. k : i <= Len(c.pos) => Alloc(k, c.pos)[i] = c.pos[i]
      BY <1>3, <3>2, AllocRows
    <3> QED
      BY <3>1, <3>3 DEF k
  <2>5. StartsWith(grown, c.pos)
    <3>1. Len(c.pos) \in Nat /\ Len(grown) \in Nat /\ Len(c.pos) <= Len(grown)
      BY <1>3, <2>3, <2>4
    <3>2. \A i \in 1 .. Len(c.pos) : grown[i] = c.pos[i]
      BY <3>1, <2>4
    <3> QED
      BY <3>1, <3>2 DEF StartsWith
  <2> HIDE DEF grown
  <2>6. buf \in Seq(Int) /\ StartsWith(buf, c.pos) /\ needed <= Len(buf)
    BY <1>3, <1>5, <2>1, <2>3, <2>4, <2>5 DEF IsInitialized
  <2> HIDE DEF buf
  <2>7. m \in Layer /\ m.buf = buf /\ m.host = c.host /\ m.pos = c.pos
        /\ m.next = c.next /\ m.rep = "float"
    BY <1>3, <2>6 DEF Layer
  <2> HIDE DEF m
  <2>8. LayerOK(m)
    BY <1>2, <1>3, <2>6, <2>7 DEF LayerOK
  <2> QED
    BY <1>1, <1>2, <2>6, <2>7, <2>8
<1> QED
  BY <1>2, <1>3, <1>4, <1>5 DEF Layer

\* next_position after rows at consecutive positions from start on.
LEMMA NextAfterRun ==
  ASSUME NEW next \in Nat, NEW start \in Nat, NEW n \in Nat \ {0}
  PROVE  NextAfter(next, [i \in 1 .. n |-> start + i - 1]) = MaxOf(next, start + n)
<1> DEFINE s == [i \in 1 .. n |-> start + i - 1]
           top == {s[i] + 1 : i \in 1 .. Len(s)}
<1>1. Len(s) = n /\ \A i \in 1 .. n : s[i] = start + i - 1
  OBVIOUS
<1>2. n \in 1 .. n /\ s[n] + 1 = start + n
  BY <1>1
<1> HIDE DEF s
<1>3. start + n \in top /\ \A i \in 1 .. Len(s) : s[i] < start + n
  BY <1>1, <1>2
<1>4. ASSUME NEW m \in top, \A i \in 1 .. Len(s) : s[i] < m
      PROVE  m = start + n
  <2>0. PICK i \in 1 .. Len(s) : m = s[i] + 1
    BY <1>4
  <2>1. PICK j \in 1 .. n : m = start + j
    BY <2>0, <1>1
  <2>2. start + n - 1 < m
    BY <1>1, <1>2, <1>4
  <2> QED
    BY <2>1, <2>2
<1>5. (CHOOSE m \in top : \A i \in 1 .. Len(s) : s[i] < m) = start + n
  <2> HIDE DEF top
  <2> QED BY <1>3, <1>4
<1>6. NextAfter(next, s) = MaxOf(next, start + n)
  <2>1. CASE start + n <= next
    <3>1. \A i \in 1 .. Len(s) : s[i] < next
      BY <1>1, <2>1
    <3> QED
      BY <2>1, <3>1 DEF NextAfter, MaxOf
  <2>2. CASE start + n > next
    <3>1. ~(s[n] < next) /\ n \in 1 .. Len(s)
      BY <1>1, <1>2, <2>2
    <3>2. ~ \A i \in 1 .. Len(s) : s[i] < next
      BY <3>1
    <3>3. NextAfter(next, s) = start + n
      BY <1>5, <3>2 DEF NextAfter
    <3> QED
      BY <2>2, <3>3 DEF MaxOf
  <2> QED
    BY <2>1, <2>2
<1> QED
  BY <1>6 DEF s

\* The positions of n appended rows.
Run(start, n) == [i \in 1 .. n |-> start + i - 1]

\* An append adds its rows behind the tokens, whatever the layer's tier and
\* layout were, and goes on from the largest position that was ever used.
LEMMA AppendRowsOK ==
  ASSUME NEW l, LayerOK(l), NEW start \in Nat, NEW n \in Nat
  PROVE  /\ LayerOK(AppendRows(l, Run(start, n)))
         /\ AppendRows(l, Run(start, n)).pos = l.pos \o Run(start, n)
         /\ n > 0 => AppendRows(l, Run(start, n)).next = MaxOf(l.next, start + n)
         /\ n = 0 => AppendRows(l, Run(start, n)).next = l.next
<1> DEFINE new == Run(start, n)
           r == Room(l, n)
           k == Len(l.pos)
           buf == Overwrite(r.buf, k, new)
           pos == l.pos \o new
           m == [r EXCEPT !.buf = buf, !.pos = pos,
                          !.next = NextAfter(l.next, new), !.offloaded = FALSE]
<1>1. /\ LayerOK(r) /\ r.host = <<>> /\ r.rep = "float"
      /\ r.pos = l.pos /\ r.next = l.next /\ k + n <= Len(r.buf)
  BY RoomOK
<1>2. /\ new \in Seq(Int) /\ Len(new) = n
      /\ \A i \in 1 .. n : new[i] = start + i - 1
  BY DEF Run
<1>3. AppendRows(l, new) = m
  BY <1>1, <1>2 DEF AppendRows, NumTokens
<1> HIDE DEF r
<1>4. /\ r \in Layer /\ r.buf \in Seq(Int) /\ l.pos \in Seq(Int) /\ k \in Nat
      /\ r.next \in Nat /\ StartsWith(r.buf, r.pos)
      /\ \A i \in 1 .. k : l.pos[i] < l.next
  <2>1. r \in Layer /\ StartsWith(r.buf, r.pos)
        /\ \A i \in 1 .. k : l.pos[i] < l.next
    BY <1>1 DEF LayerOK
  <2> QED
    BY <1>1, <2>1 DEF Layer
<1>5. IF n = 0 THEN NextAfter(l.next, new) = l.next
      ELSE NextAfter(l.next, new) = MaxOf(l.next, start + n)
  <2>1. CASE n = 0
    BY <2>1, <1>2 DEF NextAfter
  <2>2. CASE n # 0
    <3>1. l.next \in Nat /\ n \in Nat \ {0}
      BY <2>2, <1>1, <1>4
    <3>2. NextAfter(l.next, [i \in 1 .. n |-> start + i - 1]) = MaxOf(l.next, start + n)
      BY <3>1, NextAfterRun
    <3> QED
      BY <2>2, <3>2 DEF Run
  <2> QED
    BY <2>1, <2>2
<1> HIDE DEF new
<1>6. /\ buf \in Seq(Int) /\ Len(buf) = Len(r.buf)
      /\ \A i \in 1 .. k : buf[i] = r.buf[i]
      /\ \A i \in 1 .. n : buf[k + i] = new[i]
  <2>1. k + Len(new) <= Len(r.buf)
    BY <1>1, <1>2
  <2> HIDE DEF k
  <2>2. r.buf \in Seq(Int) /\ new \in Seq(Int) /\ k \in Nat
    BY <1>2, <1>4
  <2>3. /\ Overwrite(r.buf, k, new) \in Seq(Int)
        /\ Len(Overwrite(r.buf, k, new)) = Len(r.buf)
        /\ \A i \in 1 .. k : Overwrite(r.buf, k, new)[i] = r.buf[i]
        /\ \A i \in 1 .. Len(new) : Overwrite(r.buf, k, new)[k + i] = new[i]
    BY <2>1, <2>2, OverwriteRows
  <2> QED
    BY <1>2, <2>3
<1> HIDE DEF buf
<1>7. /\ pos \in Seq(Int) /\ Len(pos) = k + n
      /\ \A i \in 1 .. k + n : pos[i] = IF i <= k THEN l.pos[i] ELSE new[i - k]
  BY <1>2, <1>4, ConcatProperties
<1> HIDE DEF pos
<1>8. ASSUME NEW i \in 1 .. k + n
      PROVE  /\ buf[i] = pos[i]
             /\ pos[i] < NextAfter(l.next, new)
  <2>1. CASE i <= k
    <3>1. i \in 1 .. k /\ pos[i] = l.pos[i]
      BY <2>1, <1>4, <1>7
    <3>2. buf[i] = l.pos[i]
      BY <3>1, <1>1, <1>4, <1>6 DEF StartsWith
    <3>3. l.pos[i] < NextAfter(l.next, new)
      <4>1. l.pos[i] < l.next /\ l.pos[i] \in Int
        BY <3>1, <1>4
      <4>2. l.next <= NextAfter(l.next, new) /\ NextAfter(l.next, new) \in Nat
            /\ l.next \in Nat
        BY <1>1, <1>4, <1>5 DEF MaxOf
      <4> QED
        BY <4>1, <4>2
    <3> QED
      BY <3>1, <3>2, <3>3
  <2>2. CASE i > k
    <3>1. i - k \in 1 .. n /\ k + (i - k) = i /\ pos[i] = new[i - k]
      <4>1. k \in Nat /\ i \in Int /\ i <= k + n /\ ~(i <= k)
        BY <2>2, <1>4
      <4>2. i - k \in 1 .. n /\ k + (i - k) = i
        BY <4>1
      <4>3. pos[i] = new[i - k]
        BY <4>1, <1>7
      <4> QED
        BY <4>2, <4>3
    <3>2. buf[i] = new[i - k]
      BY <3>1, <1>6
    <3>3. PICK j \in 1 .. n : j = i - k
      BY <3>1
    <3>4. new[j] = start + j - 1 /\ n # 0
          /\ start + j - 1 < MaxOf(l.next, start + n)
      BY <1>1, <1>2, <1>4 DEF MaxOf
    <3>5. pos[i] = new[j] /\ buf[i] = new[j]
      BY <3>1, <3>2, <3>3
    <3> QED
      BY <3>4, <3>5, <1>5
  <2> QED
    BY <1>4, <2>1, <2>2
<1>9. m \in Layer /\ m.buf = buf /\ m.host = <<>> /\ m.pos = pos
      /\ m.next = NextAfter(l.next, new) /\ m.rep = "float"
  <2>1. NextAfter(l.next, new) \in Nat
    BY <1>1, <1>4, <1>5 DEF MaxOf
  <2> QED
    BY <1>1, <1>4, <1>6, <1>7, <2>1 DEF Layer
<1> HIDE DEF m
<1>10. StartsWith(m.buf, m.pos)
  BY <1>1, <1>4, <1>6, <1>7, <1>8, <1>9 DEF StartsWith
<1>11. LayerOK(m)
  BY <1>4, <1>7, <1>8, <1>9, <1>10 DEF LayerOK
<1>12. AppendRows(l, new).pos = l.pos \o new
  BY <1>3, <1>9 DEF pos
<1> QED
  BY <1>3, <1>5, <1>9, <1>11, <1>12 DEF new

\* An append that raises half-way has changed the layout, not the tokens.
LEMMA AppendFailsOK ==
  ASSUME NEW l, LayerOK(l), NEW n \in Nat
  PROVE  /\ LayerOK(AppendFails(l, n))
         /\ AppendFails(l, n).pos = l.pos /\ AppendFails(l, n).next = l.next
<1> DEFINE r == Room(l, n)
           k == Len(l.pos)
           junk == Alloc(n, <<>>)
           buf == Overwrite(r.buf, k, junk)
           m == [r EXCEPT !.buf = buf]
<1>1. /\ LayerOK(r) /\ r.host = <<>> /\ r.rep = "float"
      /\ r.pos = l.pos /\ r.next = l.next /\ k + n <= Len(r.buf)
  BY RoomOK
<1>2. AppendFails(l, n) = m
  BY <1>1 DEF AppendFails, NumTokens
<1>3. junk \in Seq(Int) /\ Len(junk) = n
  <2>1. <<>> \in Seq(Int)
    OBVIOUS
  <2> QED
    BY <2>1, AllocRows
<1> HIDE DEF r, junk
<1>4. /\ r \in Layer /\ r.buf \in Seq(Int) /\ k \in Nat /\ StartsWith(r.buf, r.pos)
      /\ \A i \in 1 .. Len(r.pos) : r.pos[i] < r.next
  <2>1. r \in Layer /\ StartsWith(r.buf, r.pos)
        /\ \A i \in 1 .. Len(r.pos) : r.pos[i] < r.next
    BY <1>1 DEF LayerOK
  <2> QED
    BY <1>1, <2>1 DEF Layer
<1>5. /\ buf \in Seq(Int) /\ Len(buf) = Len(r.buf)
      /\ \A i \in 1 .. k : buf[i] = r.buf[i]
  <2>1. k + Len(junk) <= Len(r.buf)
    BY <1>1, <1>3
  <2> HIDE DEF k
  <2> QED
    BY <1>3, <1>4, <2>1, OverwriteRows
<1> HIDE DEF buf
<1>6. m \in Layer /\ m.buf = buf /\ m.host = r.host /\ m.pos = r.pos
      /\ m.next = r.next /\ m.rep = r.rep
  BY <1>4, <1>5 DEF Layer
<1> HIDE DEF m
<1>7. StartsWith(m.buf, m.pos)
  BY <1>1, <1>4, <1>5, <1>6 DEF StartsWith
<1>8. LayerOK(m)
  BY <1>1, <1>4, <1>6, <1>7 DEF LayerOK
<1> QED
  BY <1>1, <1>2, <1>6, <1>8

\* Eviction gathers the rows and the metadata of the survivors alike, in any
\* of the three layouts.
LEMMA KeepOK ==
  ASSUME NEW l, LayerOK(l), NEW idx \in Seq(1 .. Len(l.pos)), l.rep # "none"
  PROVE  /\ LayerOK(Keep(l, idx))
         /\ Keep(l, idx).pos = Gather(l.pos, idx) /\ Keep(l, idx).next = l.next
<1> DEFINE c == Collapse(l)
           pos == Gather(c.pos, idx)
           kept == Gather(c.buf, idx)
           alloc == MaxOf(Len(idx), c.cap)
           buf == IF c.rep = "quant" THEN kept
                  ELSE IF Len(c.buf) # alloc THEN Alloc(alloc, kept)
                  ELSE Overwrite(c.buf, 0, kept)
           none == [c EXCEPT !.rep = "none", !.buf = <<>>, !.bufDev = c.home,
                             !.offloaded = FALSE, !.pos = <<>>]
           some == [c EXCEPT !.buf = buf, !.pos = pos]
<1>1. Keep(l, idx) = IF idx = <<>> THEN none ELSE some
  BY DEF Keep
<1>2. /\ LayerOK(c) /\ c.host = <<>> /\ c.pos = l.pos /\ c.next = l.next
      /\ c.rep = l.rep
  BY CollapseOK
<1> HIDE DEF c
<1>3. /\ c \in Layer /\ c.buf \in Seq(Int) /\ c.pos \in Seq(Int) /\ c.cap \in Nat
      /\ \A i \in 1 .. Len(c.pos) : c.pos[i] < c.next
  BY <1>2 DEF LayerOK, Layer
<1>4. StartsWith(c.buf, c.pos)
  <2>1. CASE c.rep = "quant"
    BY <2>1, <1>2, <1>3 DEF LayerOK, StartsWith
  <2>2. CASE c.rep = "float"
    BY <2>2, <1>2 DEF LayerOK
  <2> QED
    BY <2>1, <2>2, <1>2, <1>3 DEF Layer
<1>5. /\ Len(idx) \in Nat /\ Len(c.pos) \in Nat /\ Len(c.pos) <= Len(c.buf)
      /\ idx \in Seq(1 .. Len(c.pos))
  BY <1>2, <1>3, <1>4 DEF StartsWith
<1>6. /\ pos \in Seq(Int) /\ Len(pos) = Len(idx)
      /\ \A i \in 1 .. Len(idx) : pos[i] = c.pos[idx[i]]
  <2> DEFINE k == Len(c.pos)
  <2>1. k \in Nat /\ k <= Len(c.pos) /\ idx \in Seq(1 .. k)
    BY <1>5
  <2> HIDE DEF k
  <2> QED
    BY <1>3, <2>1, GatherRows
<1>7. /\ kept \in Seq(Int) /\ Len(kept) = Len(idx)
      /\ \A i \in 1 .. Len(idx) : kept[i] = c.buf[idx[i]]
  <2> DEFINE k == Len(c.pos)
  <2>1. k \in Nat /\ k <= Len(c.buf) /\ idx \in Seq(1 .. k)
    BY <1>5
  <2> HIDE DEF k
  <2> QED
    BY <1>3, <2>1, GatherRows
<1>8. \A i \in 1 .. Len(idx) : idx[i] \in 1 .. Len(c.pos)
  <2> DEFINE k == Len(c.pos)
  <2>1. idx \in Seq(1 .. k)
    BY <1>5
  <2> HIDE DEF k
  <2>2. \A i \in 1 .. Len(idx) : idx[i] \in 1 .. k
    BY <2>1, EntryOf
  <2> QED
    BY <2>2 DEF k
<1>9. pos = kept
  <2>1. \A i \in 1 .. Len(idx) : pos[i] = kept[i]
    BY <1>4, <1>6, <1>7, <1>8 DEF StartsWith
  <2> HIDE DEF pos, kept
  <2> QED
    BY <2>1, <1>6, <1>7, SeqEqual
<1>10. \A i \in 1 .. Len(pos) : pos[i] < c.next
  BY <1>3, <1>6, <1>8
<1>11. pos = Gather(l.pos, idx)
  BY <1>2
<1>12. CASE idx = <<>>
  <2>1. <<>> \in Seq(Int) /\ Len(idx) = 0
    BY <1>12
  <2>2. none \in Layer
    BY <1>3, <2>1 DEF Layer
  <2>3. none.buf = <<>> /\ none.host = <<>> /\ none.pos = <<>>
        /\ none.next = c.next /\ none.rep = "none"
    BY <1>2, <1>3 DEF Layer
  <2> HIDE DEF none
  <2>4. LayerOK(none)
    BY <2>2, <2>3 DEF LayerOK
  <2>5. Gather(l.pos, idx) = <<>>
    <3> HIDE DEF pos
    <3>1. pos = <<>>
      BY <1>6, <2>1, EmptySeq
    <3> QED
      BY <3>1, <1>11
  <2> QED
    BY <1>1, <1>2, <1>12, <2>3, <2>4, <2>5
<1>13. CASE idx # <<>>
  <2> HIDE DEF pos, kept
  <2>1. buf \in Seq(Int) /\ StartsWith(buf, pos) /\ (c.rep = "quant" => buf = pos)
    <3>1. CASE c.rep = "quant"
      BY <3>1, <1>6, <1>9 DEF StartsWith
    <3>2. CASE c.rep # "quant" /\ Len(c.buf) # alloc
      <4>1. alloc \in Nat /\ Len(kept) <= alloc
        BY <1>3, <1>5, <1>7 DEF MaxOf
      <4> HIDE DEF alloc
      <4>2. /\ Alloc(alloc, kept) \in Seq(Int) /\ Len(Alloc(alloc, kept)) = alloc
            /\ \A i \in 1 .. alloc : i <= Len(kept) => Alloc(alloc, kept)[i] = kept[i]
        BY <1>7, <4>1, AllocRows
      <4>3. StartsWith(Alloc(alloc, kept), kept)
        BY <1>7, <4>1, <4>2 DEF StartsWith
      <4> QED
        BY <3>2, <1>9, <4>2, <4>3
    <3>3. CASE c.rep # "quant" /\ Len(c.buf) = alloc
      <4> DEFINE over == Overwrite(c.buf, 0, kept)
      <4>1. 0 \in Nat /\ 0 + Len(kept) <= Len(c.buf)
        BY <3>3, <1>3, <1>5, <1>7 DEF MaxOf
      <4>2. /\ over \in Seq(Int) /\ Len(over) = Len(c.buf)
            /\ \A i \in 1 .. Len(kept) : over[0 + i] = kept[i]
        <5>1. kept \in Seq(Int) /\ c.buf \in Seq(Int)
          BY <1>3, <1>7
        <5> HIDE DEF kept
        <5> QED
          BY <5>1, <4>1, OverwriteRows
      <4>3. buf = over
        BY <3>3
      <4> HIDE DEF over
      <4>4. StartsWith(over, kept)
        BY <1>7, <4>1, <4>2 DEF StartsWith
      <4> QED
        BY <3>3, <1>9, <4>2, <4>3, <4>4
    <3> QED
      BY <3>1, <3>2, <3>3
  <2> HIDE DEF buf
  <2>2. some \in Layer
    BY <1>3, <1>6, <2>1 DEF Layer
  <2>3. some.buf = buf /\ some.host = <<>> /\ some.pos = pos
        /\ some.next = c.next /\ some.rep = c.rep
    BY <1>2, <1>3 DEF Layer
  <2> HIDE DEF some
  <2>4. LayerOK(some)
    BY <1>2, <1>10, <2>1, <2>2, <2>3 DEF LayerOK
  <2> QED
    BY <1>1, <1>2, <1>11, <1>13, <2>3, <2>4
<1> QED
  BY <1>12, <1>13

\* Clearing a layer leaves it empty, to start again at position 0.
LEMMA ClearOK ==
  ASSUME NEW l, LayerOK(l)
  PROVE  LayerOK(Clear(l)) /\ Clear(l).pos = <<>> /\ Clear(l).next = 0
<1> DEFINE m == Clear(l)
<1>1. l \in Layer /\ <<>> \in Seq(Int)
  BY DEF LayerOK
<1>2. m \in Layer
  BY <1>1 DEF Clear, Layer
<1>3. m.buf = <<>> /\ m.host = <<>> /\ m.pos = <<>> /\ m.next = 0 /\ m.rep = "none"
  BY <1>1 DEF Clear, Layer
<1> HIDE DEF m
<1>4. LayerOK(m)
  BY <1>2, <1>3 DEF LayerOK
<1> QED
  BY <1>3, <1>4 DEF m

\* Splitting a layer cuts its rows in two where the boundary says and loses
\* none; keeping nothing or everything resident does not split it.
LEMMA OffloadTailOK ==
  ASSUME NEW l, LayerOK(l), NEW r \in 0 .. Len(l.pos), NEW d \in Devices,
         l.rep # "quant"
  PROVE  /\ LayerOK(OffloadTail(l, r, d))
         /\ OffloadTail(l, r, d).pos = l.pos /\ OffloadTail(l, r, d).next = l.next
<1> DEFINE h == ReturnHome(l)
           c == Collapse(h)
           n == Len(l.pos)
           front == Slice(c.buf, 0, r)
           tail == Slice(c.buf, r, n)
           m == [c EXCEPT !.buf = front, !.host = tail, !.hostDev = d,
                          !.boundary = r]
<1>1. /\ LayerOK(h) /\ h.pos = l.pos /\ h.next = l.next /\ h.rep = l.rep
  BY ReturnHomeOK
<1>2. /\ LayerOK(c) /\ c.host = <<>> /\ c.pos = l.pos /\ c.next = l.next
      /\ c.rep = l.rep
  BY <1>1, CollapseOK
<1>3. OffloadTail(l, r, d) =
        IF r = 0 THEN IF l.offloaded /\ ResidentDevice(l) = d THEN l ELSE MoveTo(l, d)
        ELSE IF r = n THEN h ELSE m
  BY <1>2 DEF OffloadTail, NumTokens
<1> HIDE DEF c, h
<1>4. CASE r = 0
  BY <1>3, <1>4, MoveToOK
<1>5. CASE r # 0 /\ r = n
  BY <1>1, <1>3, <1>5
<1>6. CASE r # 0 /\ r # n
  <2>1. /\ c \in Layer /\ l \in Layer /\ c.buf \in Seq(Int)
        /\ c.pos \in Seq(Int) /\ n \in Nat /\ Len(c.pos) = n
    BY <1>2 DEF LayerOK, Layer
  <2>2. r \in Nat /\ 0 < r /\ r < n
    BY <1>6, <2>1
  <2>3. c.rep = "float"
    <3>1. c.rep # "none"
      BY <1>2, <2>1, <2>2 DEF LayerOK
    <3> QED
      BY <3>1, <1>2, <2>1 DEF Layer
  <2>4. StartsWith(c.buf, c.pos) /\ \A i \in 1 .. Len(c.pos) : c.pos[i] < c.next
    BY <1>2, <2>3 DEF LayerOK
  <2>5. n <= Len(c.buf) /\ \A i \in 1 .. n : c.buf[i] = c.pos[i]
    BY <2>1, <2>4 DEF StartsWith
  <2> HIDE DEF n
  <2>6. /\ front \in Seq(Int) /\ Len(front) = r
        /\ \A i \in 1 .. r : front[i] = c.buf[i]
    <3>1. r <= Len(c.buf)
      BY <2>1, <2>2, <2>5
    <3> QED
      BY <3>1, <2>1, <2>2, PrefixRows
  <2>7. /\ tail \in Seq(Int) /\ Len(tail) = n - r
        /\ \A i \in 1 .. n - r : tail[i] = c.buf[r + i]
    <3>1. r <= n /\ n <= Len(c.buf)
      BY <2>1, <2>2, <2>5
    <3> QED
      BY <3>1, <2>1, <2>2, SliceRows
  <2> HIDE DEF front, tail
  <2>8. /\ m \in Layer /\ m.buf = front /\ m.host = tail /\ m.boundary = r
        /\ m.pos = c.pos /\ m.next = c.next /\ m.rep = "float"
    BY <2>1, <2>2, <2>3, <2>6, <2>7 DEF Layer
  <2> HIDE DEF m
  <2>9. EndsWith(m.pos, m.boundary, m.host)
    <3>1. ASSUME NEW i \in 1 .. n - r
          PROVE  tail[i] = c.pos[r + i]
      <4>1. r + i \in 1 .. n
        BY <2>1, <2>2
      <4> QED
        BY <4>1, <2>5, <2>7
    <3> QED
      BY <3>1, <2>1, <2>7, <2>8 DEF EndsWith
  <2>10. ASSUME NEW i \in 1 .. r
         PROVE  front[i] = c.pos[i]
    <3>1. i \in 1 .. n
      BY <2>1, <2>2
    <3> QED
      BY <3>1, <2>5, <2>6
  <2>11. m.host # <<>>
    BY <2>1, <2>2, <2>7, <2>8
  <2>12. LayerOK(m)
    BY <2>1, <2>2, <2>4, <2>6, <2>8, <2>9, <2>10, <2>11 DEF LayerOK
  <2> QED
    BY <1>2, <1>3, <1>6, <2>8, <2>12
<1> QED
  BY <1>4, <1>5, <1>6

\* Bringing hosted rows back, some or all, moves the boundary and keeps every
\* row in its slot.
LEMMA PrefetchTailOK ==
  ASSUME NEW l, LayerOK(l), l.host # <<>>, NEW n \in 1 .. Len(l.host)
  PROVE  /\ LayerOK(PrefetchTail(l, n))
         /\ PrefetchTail(l, n).pos = l.pos /\ PrefetchTail(l, n).next = l.next
<1> DEFINE a == l.boundary
           b == l.boundary + n
           front == Slice(l.buf, 0, a)
           moved == Slice(l.host, 0, n)
           rows == front \o moved
           k == MaxOf(b, l.cap)
           buf == Alloc(k, rows)
           rest == Slice(l.host, n, Len(l.host))
           m == [l EXCEPT !.buf = buf, !.bufDev = l.home, !.host = rest,
                          !.hostDev = IF rest = <<>> THEN l.home ELSE @,
                          !.boundary = b]
<1>1. PrefetchTail(l, n) = m
  BY DEF PrefetchTail
<1>2. /\ l \in Layer /\ l.buf \in Seq(Int) /\ l.pos \in Seq(Int)
      /\ l.host \in Seq(Int) /\ l.cap \in Nat /\ a \in Nat
      /\ Len(l.buf) \in Nat /\ Len(l.pos) \in Nat /\ Len(l.host) \in Nat
      /\ \A i \in 1 .. Len(l.pos) : l.pos[i] < l.next
  BY DEF LayerOK, Layer
<1>3. /\ l.rep = "float" /\ 0 < a /\ a < Len(l.pos) /\ a <= Len(l.buf)
      /\ \A i \in 1 .. a : l.buf[i] = l.pos[i]
      /\ EndsWith(l.pos, a, l.host)
  BY DEF LayerOK
<1>4. /\ Len(l.host) = Len(l.pos) - a
      /\ \A i \in 1 .. Len(l.host) : l.host[i] = l.pos[a + i]
  BY <1>3 DEF EndsWith
<1> HIDE DEF a
<1>5. /\ b = a + n /\ n \in Nat /\ 0 < n /\ n <= Len(l.host) /\ b \in Nat
      /\ b <= Len(l.pos) /\ k \in Nat /\ b <= k
  <2>1. n \in Nat /\ 0 < n /\ n <= Len(l.host)
    BY <1>2
  <2>2. b = a + n
    BY DEF a
  <2> HIDE DEF b
  <2>3. b \in Nat /\ b <= Len(l.pos)
    BY <2>1, <2>2, <1>2, <1>4
  <2>4. k \in Nat /\ b <= k
    BY <2>3, <1>2 DEF MaxOf
  <2> QED
    BY <2>1, <2>2, <2>3, <2>4
<1> HIDE DEF b, k
<1>6. /\ front \in Seq(Int) /\ Len(front) = a
      /\ \A i \in 1 .. a : front[i] = l.buf[i]
  BY <1>2, <1>3, PrefixRows
<1>7. /\ moved \in Seq(Int) /\ Len(moved) = n
      /\ \A i \in 1 .. n : moved[i] = l.host[i]
  BY <1>2, <1>5, PrefixRows
<1>8. /\ rest \in Seq(Int) /\ Len(rest) = Len(l.host) - n
      /\ \A i \in 1 .. Len(l.host) - n : rest[i] = l.host[n + i]
  <2> DEFINE h == Len(l.host)
  <2>1. h \in Nat /\ n <= h /\ h <= Len(l.host)
    BY <1>2, <1>5
  <2> HIDE DEF h
  <2>2. /\ Slice(l.host, n, h) \in Seq(Int) /\ Len(Slice(l.host, n, h)) = h - n
        /\ \A i \in 1 .. h - n : Slice(l.host, n, h)[i] = l.host[n + i]
    <3>1. l.host \in Seq(Int) /\ n \in Nat
      BY <1>2, <1>5
    <3> QED
      BY <3>1, <2>1, SliceRows
  <2> QED
    BY <2>2 DEF h
<1> HIDE DEF front, moved, rest
<1>9. /\ rows \in Seq(Int) /\ Len(rows) = b
      /\ \A i \in 1 .. b : rows[i] = IF i <= a THEN front[i] ELSE moved[i - a]
  <2>1. /\ rows \in Seq(Int) /\ Len(rows) = Len(front) + Len(moved)
        /\ \A i \in 1 .. Len(front) + Len(moved) :
             rows[i] = IF i <= Len(front) THEN front[i] ELSE moved[i - Len(front)]
    BY <1>6, <1>7, ConcatProperties
  <2> QED
    BY <2>1, <1>5, <1>6, <1>7
<1>10. ASSUME NEW i \in 1 .. b
       PROVE  rows[i] = l.pos[i]
  <2>1. CASE i <= a
    <3>1. i \in 1 .. a
      BY <2>1, <1>2
    <3> QED
      BY <2>1, <3>1, <1>3, <1>6, <1>9
  <2>2. CASE i > a
    <3>1. PICK j \in 1 .. n : j = i - a
      BY <2>2, <1>2, <1>5
    <3>2. j \in 1 .. Len(l.host) /\ a + j = i
      BY <3>1, <1>2, <1>5
    <3>3. moved[j] = l.pos[a + j]
      <4>1. moved[j] = l.host[j]
        BY <3>1, <1>7
      <4>2. l.host[j] = l.pos[a + j]
        BY <3>2, <1>4
      <4> QED
        BY <4>1, <4>2
    <3>4. ~(i <= a) /\ rows[i] = moved[i - a]
      <4>1. ~(i <= a)
        BY <2>2, <1>2, <1>5
      <4> QED
        BY <4>1, <1>9
    <3> QED
      BY <3>1, <3>2, <3>3, <3>4
  <2>3. i <= a \/ i > a
    BY <1>2, <1>5
  <2> QED
    BY <2>1, <2>2, <2>3
<1> HIDE DEF rows
<1>11. /\ buf \in Seq(Int) /\ Len(buf) = k
       /\ \A i \in 1 .. k : i <= Len(rows) => buf[i] = rows[i]
  BY <1>5, <1>9, AllocRows
<1> HIDE DEF buf
<1>12. b <= Len(buf) /\ \A i \in 1 .. b : buf[i] = l.pos[i]
  <2>1. ASSUME NEW i \in 1 .. b
        PROVE  i \in 1 .. k /\ i <= Len(rows)
    BY <1>5, <1>9
  <2> QED
    BY <2>1, <1>5, <1>10, <1>11
<1>13. /\ m \in Layer /\ m.buf = buf /\ m.host = rest /\ m.boundary = b
       /\ m.pos = l.pos /\ m.next = l.next /\ m.rep = "float"
  BY <1>2, <1>3, <1>5, <1>8, <1>11 DEF Layer
<1> HIDE DEF m
<1>14. EndsWith(l.pos, b, rest)
  <2>1. Len(rest) = Len(l.pos) - b
    BY <1>2, <1>4, <1>5, <1>8
  <2>2. ASSUME NEW i \in 1 .. Len(rest)
        PROVE  rest[i] = l.pos[b + i]
    <3>1. i \in 1 .. Len(l.host) - n
      BY <1>8
    <3>2. PICK j \in 1 .. Len(l.host) : j = n + i
      <4>1. n + i \in 1 .. Len(l.host)
        BY <3>1, <1>2, <1>5
      <4> QED
        BY <4>1
    <3>3. rest[i] = l.host[j] /\ a + j = b + i
      BY <3>1, <3>2, <1>2, <1>5, <1>8
    <3> QED
      BY <3>2, <3>3, <1>4
  <2> QED
    BY <2>1, <2>2 DEF EndsWith
<1>15. LayerOK(m)
  <2>1. CASE rest = <<>>
    <3>1. Len(rest) = 0
      BY <2>1
    <3>2. b = Len(l.pos)
      BY <3>1, <1>2, <1>4, <1>5, <1>8
    <3>3. StartsWith(buf, l.pos)
      BY <3>2, <1>12 DEF StartsWith
    <3> QED
      BY <2>1, <3>3, <1>2, <1>13 DEF LayerOK
  <2>2. CASE rest # <<>>
    <3>1. Len(rest) # 0
      BY <2>2, <1>8, EmptySeq
    <3>2. 0 < b /\ b < Len(l.pos)
      BY <3>1, <1>2, <1>4, <1>5, <1>8
    <3> QED
      BY <2>2, <3>2, <1>2, <1>12, <1>13, <1>14 DEF LayerOK
  <2> QED
    BY <2>1, <2>2
<1> QED
  BY <1>1, <1>13, <1>15

\* Quantising adopts exactly the tokens readers saw before.
LEMMA CompressOK ==
  ASSUME NEW l, LayerOK(l)
  PROVE  /\ LayerOK(Compress(l))
         /\ Compress(l).pos = l.pos /\ Compress(l).next = l.next
<1> DEFINE m == Compress(l)
<1>1. l \in Layer /\ View(l) = l.pos /\ <<>> \in Seq(Int)
      /\ \A i \in 1 .. Len(l.pos) : l.pos[i] < l.next
  BY ViewIsPositions DEF LayerOK
<1>2. m \in Layer
  BY <1>1 DEF Compress, Layer
<1>3. m.buf = l.pos /\ m.host = <<>> /\ m.pos = l.pos /\ m.next = l.next
      /\ m.rep = "quant"
  BY <1>1 DEF Compress, Layer
<1> HIDE DEF m
<1>4. LayerOK(m)
  BY <1>1, <1>2, <1>3 DEF LayerOK
<1> QED
  BY <1>3, <1>4 DEF m

\* A new capacity changes nothing that is stored.
LEMMA SetCapOK ==
  ASSUME NEW l, LayerOK(l), NEW c \in Nat
  PROVE  /\ LayerOK([l EXCEPT !.cap = c])
         /\ [l EXCEPT !.cap = c].pos = l.pos /\ [l EXCEPT !.cap = c].next = l.next
<1> DEFINE m == [l EXCEPT !.cap = c]
<1>1. l \in Layer
  BY DEF LayerOK
<1>2. /\ m \in Layer /\ m.buf = l.buf /\ m.host = l.host /\ m.pos = l.pos
      /\ m.next = l.next /\ m.rep = l.rep /\ m.boundary = l.boundary
  BY <1>1 DEF Layer
<1> HIDE DEF m
<1>3. LayerOK(m)
  BY <1>2 DEF LayerOK
<1> QED
  BY <1>2, <1>3 DEF m

(***************************************************************************)
(* Checkpoints.                                                            *)
(***************************************************************************)

\* The rows before a slot, or all rows if there are not so many.
LEMMA CutRows ==
  ASSUME NEW s \in Seq(Int), NEW n \in Nat
  PROVE  /\ Slice(s, 0, n) \in Seq(Int)
         /\ Len(Slice(s, 0, n)) = IF n <= Len(s) THEN n ELSE Len(s)
         /\ \A i \in 1 .. Len(Slice(s, 0, n)) : Slice(s, 0, n)[i] = s[i]
BY DEF Slice, MaxOf, MinOf

\* What is saved of a consistent layer is consistent.
LEMMA SaveLayerOK ==
  ASSUME NEW l, LayerOK(l)
  PROVE  /\ CheckpointOK(SaveLayer(l))
         /\ SaveLayer(l).pos = l.pos /\ SaveLayer(l).next = l.next
<1> DEFINE s == SaveLayer(l)
           n == Len(l.pos)
           cut == Slice(l.buf, 0, n)
           rows == IF l.rep = "quant" THEN l.buf ELSE cut
<1>1. /\ l \in Layer /\ l.buf \in Seq(Int) /\ l.pos \in Seq(Int)
      /\ l.host \in Seq(Int) /\ n \in Nat /\ l.boundary \in Nat
      /\ Len(l.buf) \in Nat /\ \A i \in 1 .. n : l.pos[i] < l.next
  BY DEF LayerOK, Layer
<1>2. /\ cut \in Seq(Int) /\ Len(cut) = IF n <= Len(l.buf) THEN n ELSE Len(l.buf)
      /\ \A i \in 1 .. Len(cut) : cut[i] = l.buf[i]
  <2> HIDE DEF n
  <2> QED
    BY <1>1, CutRows
<1>3. ResidentDevice(l) \in Devices
  BY <1>1 DEF ResidentDevice, Layer
<1>4. /\ s.rep = l.rep /\ s.rows = rows /\ s.host = l.host /\ s.pos = l.pos
      /\ s.next = l.next /\ s.boundary = l.boundary /\ s.alloc = Len(l.buf)
  BY DEF SaveLayer, NumTokens
<1>5. s \in Checkpoint
  <2> HIDE DEF cut
  <2> QED
    BY <1>1, <1>2, <1>3 DEF SaveLayer, NumTokens, Checkpoint, Layer, cut
<1>6. ASSUME l.rep = "none"
      PROVE  CheckpointOK(s)
  <2>1. l.buf = <<>> /\ l.host = <<>> /\ l.pos = <<>> /\ n = 0
    BY <1>6 DEF LayerOK
  <2>2. Len(cut) = 0
    BY <2>1, <1>2
  <2>3. cut = <<>>
    <3> HIDE DEF cut
    <3> QED
      BY <2>2, <1>2, EmptySeq
  <2> HIDE DEF s, cut
  <2> QED
    BY <1>1, <1>4, <1>5, <1>6, <2>1, <2>3 DEF CheckpointOK
<1>7. ASSUME l.rep = "quant"
      PROVE  CheckpointOK(s)
  <2>1. rows = l.pos /\ l.host = <<>>
    BY <1>7 DEF LayerOK
  <2> HIDE DEF s, rows
  <2> QED
    BY <1>1, <1>4, <1>5, <1>7, <2>1 DEF CheckpointOK
<1>8. ASSUME l.rep = "float" /\ l.host = <<>>
      PROVE  CheckpointOK(s)
  <2>1. StartsWith(l.buf, l.pos)
    BY <1>8 DEF LayerOK
  <2>2. cut = l.pos /\ Len(l.pos) <= Len(l.buf)
    BY <1>1, <2>1, SliceOfStart DEF StartsWith
  <2>3. rows = l.pos
    BY <1>8, <2>2
  <2> HIDE DEF s, rows
  <2> QED
    BY <1>1, <1>4, <1>5, <1>8, <2>2, <2>3 DEF CheckpointOK
<1>9. ASSUME l.host # <<>>
      PROVE  CheckpointOK(s)
  <2>1. /\ l.rep = "float" /\ 0 < l.boundary /\ l.boundary < Len(l.pos)
        /\ l.boundary <= Len(l.buf)
        /\ \A i \in 1 .. l.boundary : l.buf[i] = l.pos[i]
        /\ EndsWith(l.pos, l.boundary, l.host)
    BY <1>9 DEF LayerOK
  <2>2. rows = cut
    BY <2>1
  <2> HIDE DEF s, rows, cut
  <2>3. /\ l.boundary <= Len(cut) /\ Len(cut) <= Len(l.buf)
        /\ \A i \in 1 .. l.boundary : cut[i] = l.pos[i]
    <3>1. l.boundary <= Len(cut) /\ Len(cut) <= Len(l.buf) /\ Len(cut) \in Nat
      BY <1>1, <1>2, <2>1
    <3>2. ASSUME NEW i \in 1 .. l.boundary
          PROVE  cut[i] = l.pos[i]
      <4>1. i \in 1 .. Len(cut)
        BY <3>1, <1>1
      <4> QED
        BY <4>1, <1>2, <2>1
    <3> QED
      BY <3>1, <3>2
  <2> QED
    BY <1>1, <1>4, <1>5, <1>9, <2>1, <2>2, <2>3 DEF CheckpointOK
<1>10. CheckpointOK(s)
  BY <1>1, <1>6, <1>7, <1>8, <1>9 DEF Layer
<1> QED
  BY <1>4, <1>10

\* A checkpoint that passes the checks of load_state_dict restores the tokens
\* it was taken of, on whatever device map_location names.
LEMMA LoadLayerOK ==
  ASSUME NEW s, CheckpointOK(s), Loadable(s), NEW home \in Devices,
         NEW cap \in Nat, NEW target \in Devices \cup {NoDevice}
  PROVE  /\ LayerOK(LoadLayer(s, home, cap, target))
         /\ LoadLayer(s, home, cap, target).pos = s.pos
         /\ LoadLayer(s, home, cap, target).next = s.next
<1> DEFINE dev == IF target # NoDevice THEN target
                  ELSE IF s.offloaded THEN s.dev ELSE home
           away == IF target # NoDevice THEN target # home ELSE s.offloaded
           fresh == [NewLayer(home, cap) EXCEPT !.pos = s.pos, !.next = s.next,
                                                !.metaDev = dev]
           buf == IF s.rep = "quant" THEN s.rows ELSE Alloc(s.alloc, s.rows)
           hostDev == IF s.host = <<>> THEN home ELSE s.hostDev
           boundary == IF s.host = <<>> THEN 0 ELSE Len(s.rows)
           m == [fresh EXCEPT
                   !.rep = s.rep, !.buf = buf, !.bufDev = dev,
                   !.offloaded = away, !.host = s.host, !.hostDev = hostDev,
                   !.boundary = boundary]
<1>1. /\ s \in Checkpoint /\ s.rows \in Seq(Int) /\ s.host \in Seq(Int)
      /\ s.pos \in Seq(Int) /\ s.next \in Nat /\ s.alloc \in Nat
      /\ s.boundary \in Nat /\ Len(s.rows) \in Nat /\ Len(s.pos) \in Nat
      /\ \A i \in 1 .. Len(s.pos) : s.pos[i] < s.next
  BY DEF CheckpointOK, Checkpoint
<1>2. dev \in Devices /\ away \in BOOLEAN /\ hostDev \in Devices /\ boundary \in Nat
  BY <1>1 DEF Checkpoint
<1>3. NextAfter(s.next, s.pos) = s.next
  BY <1>1 DEF NextAfter
<1>4. LoadLayer(s, home, cap, target) = IF s.rep = "none" THEN fresh ELSE m
  BY <1>3 DEF LoadLayer
<1> HIDE DEF dev, away, hostDev
<1>5. /\ fresh \in Layer /\ fresh.rep = "none" /\ fresh.buf = <<>>
      /\ fresh.host = <<>> /\ fresh.pos = s.pos /\ fresh.next = s.next
  <2> DEFINE new == NewLayer(home, cap)
  <2>1. new \in Layer /\ new.rep = "none" /\ new.buf = <<>> /\ new.host = <<>>
    BY DEF NewLayer, Layer
  <2> HIDE DEF new
  <2>2. fresh = [new EXCEPT !.pos = s.pos, !.next = s.next, !.metaDev = dev]
    BY DEF new
  <2> HIDE DEF fresh
  <2> QED
    BY <1>1, <1>2, <2>1, <2>2 DEF Layer
<1> HIDE DEF fresh
<1>6. CASE s.rep = "none"
  <2>1. s.pos = <<>>
    BY <1>6 DEF CheckpointOK
  <2>2. LayerOK(fresh)
    BY <1>5, <2>1 DEF LayerOK
  <2> QED
    BY <1>4, <1>5, <1>6, <2>2
<1>7. CASE s.rep # "none"
  <2>1. s.rep \in {"float", "quant"}
    BY <1>1, <1>7 DEF Checkpoint
  <2>2. /\ buf \in Seq(Int) /\ Len(s.rows) <= Len(buf)
        /\ \A i \in 1 .. Len(s.rows) : buf[i] = s.rows[i]
        /\ s.rep = "quant" => buf = s.rows
    <3>1. CASE s.rep = "quant"
      BY <3>1, <1>1
    <3>2. CASE s.rep = "float"
      <4>1. Len(s.rows) <= s.alloc
        BY <3>2 DEF CheckpointOK
      <4>2. /\ Alloc(s.alloc, s.rows) \in Seq(Int)
            /\ Len(Alloc(s.alloc, s.rows)) = s.alloc
            /\ \A i \in 1 .. s.alloc :
                 i <= Len(s.rows) => Alloc(s.alloc, s.rows)[i] = s.rows[i]
        BY <1>1, AllocRows
      <4>3. ASSUME NEW i \in 1 .. Len(s.rows)
            PROVE  Alloc(s.alloc, s.rows)[i] = s.rows[i]
        <5>1. i \in 1 .. s.alloc /\ i <= Len(s.rows)
          BY <1>1, <4>1
        <5> QED
          BY <5>1, <4>2
      <4>4. buf = Alloc(s.alloc, s.rows)
        BY <3>2
      <4> HIDE DEF buf
      <4> QED
        BY <3>2, <4>1, <4>2, <4>3, <4>4
    <3> QED
      BY <2>1, <3>1, <3>2
  <2> HIDE DEF buf
  <2>3. /\ m \in Layer /\ m.rep = s.rep /\ m.buf = buf /\ m.host = s.host
        /\ m.pos = s.pos /\ m.next = s.next /\ m.boundary = boundary
    <3>1. s.pos \in Seq(Int) /\ s.host \in Seq(Int) /\ s.next \in Nat
      BY <1>1
    <3> QED
      BY <3>1, <1>2, <1>5, <2>1, <2>2 DEF Layer
  <2> HIDE DEF m
  <2>4. CASE s.host = <<>>
    <3>1. s.rows = s.pos
      BY <1>7, <2>4 DEF CheckpointOK
    <3>2. StartsWith(buf, s.pos)
      BY <2>2, <3>1 DEF StartsWith
    <3>3. LayerOK(m)
      BY <1>1, <2>1, <2>2, <2>3, <2>4, <3>1, <3>2 DEF LayerOK
    <3> QED
      BY <1>4, <1>7, <2>3, <3>3
  <2>5. CASE s.host # <<>>
    <3>1. /\ 0 < s.boundary /\ s.boundary < Len(s.pos)
          /\ \A i \in 1 .. s.boundary : s.rows[i] = s.pos[i]
          /\ EndsWith(s.pos, s.boundary, s.host) /\ s.rep # "quant"
      BY <2>5 DEF CheckpointOK
    <3>2. s.rep = "float" /\ s.boundary = Len(s.rows) /\ boundary = s.boundary
      BY <2>1, <2>5, <3>1 DEF Loadable
    <3>3. LayerOK(m)
      BY <1>1, <2>2, <2>3, <2>5, <3>1, <3>2 DEF LayerOK
    <3> QED
      BY <1>4, <1>7, <2>3, <3>3
  <2> QED
    BY <2>4, <2>5
<1> QED
  BY <1>6, <1>7
=============================================================================
