------------------------- MODULE ForwardPass_proofs -------------------------
(***************************************************************************)
(* What forward passes may rely on, for every model depth, policy, budget  *)
(* and length of request: queries see their own key and no later token,    *)
(* one mask fits all layers, perplexity scores each token once, the        *)
(* signals of a token are those of its whole history, allocations divide   *)
(* the budget without rest, no policy drops a token before one of worse    *)
(* history, and the cache behind it all is KVCache.                        *)
(***************************************************************************)
EXTENDS ForwardPass, FiniteSetTheorems, SequenceTheorems,
        WellFoundedInduction, TLAPS

-----------------------------------------------------------------------------
(***************************************************************************)
(* The slots an eviction keeps, in ascending order.                        *)
(***************************************************************************)

Below(S, s) == {t \in S : t <= s}
Rank(S) == [s \in S |-> Cardinality(Below(S, s))]

LEMMA SlotsAreFinite ==
  ASSUME NEW n \in Nat, NEW S \in SUBSET (1 .. n)
  PROVE  IsFiniteSet(S) /\ Cardinality(S) \in Nat /\ Cardinality(S) <= n
<1>1. IsFiniteSet(1 .. n) /\ Cardinality(1 .. n) = n
  BY FS_Interval
<1>2. IsFiniteSet(S) /\ Cardinality(S) <= Cardinality(1 .. n)
  BY <1>1, FS_Subset
<1> QED
  BY <1>1, <1>2, FS_CardinalityType

\* A rank counts the slot itself and is no larger than its number.
LEMMA RankBounds ==
  ASSUME NEW n \in Nat, NEW S \in SUBSET (1 .. n), NEW s \in S
  PROVE  /\ Rank(S)[s] \in 1 .. Cardinality(S)
         /\ Rank(S)[s] <= s
<1>1. Below(S, s) \in SUBSET S /\ Below(S, s) \in SUBSET (1 .. s) /\ s \in Below(S, s)
  <2>1. \A t \in S : t \in Nat /\ 1 <= t
    OBVIOUS
  <2>2. s <= s
    BY <2>1
  <2>3. \A t \in S : t <= s => t \in 1 .. s
    BY <2>1
  <2> QED
    BY <2>2, <2>3, Zenon DEF Below
<1>2. IsFiniteSet(S) /\ Cardinality(S) \in Nat
  BY SlotsAreFinite
<1>3. s \in Nat
  OBVIOUS
<1>4. IsFiniteSet(Below(S, s)) /\ Cardinality(Below(S, s)) <= Cardinality(S)
  BY <1>1, <1>2, FS_Subset
<1>5. Cardinality(Below(S, s)) \in Nat /\ Cardinality(Below(S, s)) <= s
  BY <1>1, <1>3, SlotsAreFinite
<1>6. Cardinality(Below(S, s)) # 0
  BY <1>1, <1>4, FS_EmptySet
<1>7. Rank(S)[s] = Cardinality(Below(S, s))
  BY DEF Rank
<1> QED
  BY <1>2, <1>4, <1>5, <1>6, <1>7

\* Of two slots the later has the larger rank.
LEMMA RanksDiffer ==
  ASSUME NEW n \in Nat, NEW S \in SUBSET (1 .. n), NEW s \in S, NEW t \in S, s < t
  PROVE  Rank(S)[s] < Rank(S)[t]
<1>1. Below(S, s) \in SUBSET Below(S, t) /\ t \in Below(S, t) /\ t \notin Below(S, s)
  <2>1. \A u \in S : u \in Nat
    OBVIOUS
  <2>2. t <= t /\ ~(t <= s)
    BY <2>1
  <2>3. \A u \in S : u <= s => u <= t
    BY <2>1
  <2> QED
    BY <2>2, <2>3, Zenon DEF Below
<1>2. Below(S, t) \in SUBSET (1 .. n)
  BY DEF Below
<1>3. IsFiniteSet(Below(S, t)) /\ Cardinality(Below(S, t)) \in Nat
  BY <1>2, SlotsAreFinite
<1>4. /\ Cardinality(Below(S, s)) <= Cardinality(Below(S, t))
      /\ Cardinality(Below(S, t)) = Cardinality(Below(S, s)) => Below(S, t) = Below(S, s)
  BY <1>1, <1>3, FS_Subset
<1>5. Cardinality(Below(S, s)) \in Nat
  BY <1>1, <1>3, FS_Subset, FS_CardinalityType
<1>6. /\ Rank(S)[s] = Cardinality(Below(S, s))
      /\ Rank(S)[t] = Cardinality(Below(S, t))
  BY DEF Rank
<1> QED
  BY <1>1, <1>3, <1>4, <1>5, <1>6

\* Every rank is some slot's: the k-th survivor exists and has slot k or later.
LEMMA RankOnto ==
  ASSUME NEW n \in Nat, NEW S \in SUBSET (1 .. n), NEW k \in 1 .. Cardinality(S)
  PROVE  \E s \in S : Cardinality({t \in S : t <= s}) = k
<1> DEFINE c == Cardinality(S)
<1>1. IsFiniteSet(S) /\ c \in Nat
  BY SlotsAreFinite
<1>2. IsFiniteSet(1 .. c) /\ Cardinality(1 .. c) = c
  BY <1>1, FS_Interval
<1>3. Rank(S) \in [S -> 1 .. c]
  BY RankBounds DEF Rank
<1>4. \A s, t \in S : Rank(S)[s] = Rank(S)[t] => s = t
  <2> SUFFICES ASSUME NEW s \in S, NEW t \in S, s # t
               PROVE  Rank(S)[s] # Rank(S)[t]
    OBVIOUS
  <2>1. /\ Rank(S)[s] \in Nat /\ Rank(S)[t] \in Nat
        /\ s \in Nat /\ t \in Nat
    BY <1>1, <1>3
  <2>2. CASE s < t
    <3>1. Rank(S)[s] < Rank(S)[t]
      BY <2>2, RanksDiffer
    <3> QED
      BY <2>1, <3>1
  <2>3. CASE t < s
    <3>1. Rank(S)[t] < Rank(S)[s]
      BY <2>3, RanksDiffer
    <3> QED
      BY <2>1, <3>1
  <2> QED
    BY <2>1, <2>2, <2>3
<1>5. Rank(S) \in Injection(S, 1 .. c)
  BY <1>3, <1>4 DEF Injection, IsInjective
<1>6. Rank(S) \in Surjection(S, 1 .. c)
  BY <1>1, <1>2, <1>5, FS_Injection
<1>7. \E s \in S : Rank(S)[s] = k
  BY <1>6 DEF Surjection
<1> QED
  BY <1>7 DEF Rank, Below

LEMMA AscendingSlots ==
  ASSUME NEW n \in Nat, NEW S \in SUBSET (1 .. n), NEW k \in 1 .. Cardinality(S)
  PROVE  Ascending(S)[k] \in S /\ k <= Ascending(S)[k]
<1> DEFINE a == CHOOSE s \in S : Cardinality({t \in S : t <= s}) = k
<1>1. a \in S /\ Cardinality({t \in S : t <= a}) = k
  <2>1. \E s \in S : Cardinality({t \in S : t <= s}) = k
    BY RankOnto
  <2> QED BY <2>1
<1>2. Ascending(S)[k] = a
  BY DEF Ascending
<1>3. Rank(S)[a] = k
  BY <1>1 DEF Rank, Below
<1>4. k <= a
  <2> HIDE DEF a
  <2> QED BY <1>1, <1>3, RankBounds
<1> QED
  BY <1>1, <1>2, <1>4

-----------------------------------------------------------------------------
(***************************************************************************)
(* The metadata of a layer: parallel arrays; slot s holds a position of at *)
(* least s - 1 that was handed out before.                                 *)
(***************************************************************************)

IsSeq(s) == s \in Seq({s[j] : j \in DOMAIN s})

Parallel(l) ==
  \A x \in {l.lastAccess, l.cum, l.hits} :
    IsSeq(x) /\ Len(x) = Len(l.positions)

Placed(l) ==
  /\ Len(l.positions) <= l.next
  /\ \A s \in 1 .. Len(l.positions) :
       s - 1 <= l.positions[s] /\ l.positions[s] < l.next

MetaOK(l) ==
  /\ l \in [positions : Seq(Nat), lastAccess : {l.lastAccess}, cum : {l.cum},
            hits : {l.hits}, next : Nat]
  /\ Parallel(l)
  /\ Placed(l)

\* A function on 1 .. n is a sequence of n elements.
LEMMA FunctionIsSeq ==
  ASSUME NEW n \in Nat, NEW x, x = [k \in 1 .. n |-> x[k]]
  PROVE  IsSeq(x) /\ Len(x) = n
<1>1. DOMAIN x = 1 .. n
  OBVIOUS
<1>2. x \in [1 .. n -> {x[j] : j \in DOMAIN x}]
  BY <1>1
<1>3. x \in Seq({x[j] : j \in DOMAIN x})
  BY <1>2
<1> QED
  BY <1>1, <1>3, LenProperties DEF IsSeq

\* Appending n times one value lengthens a sequence by n.
LEMMA ExtendedIsSeq ==
  ASSUME NEW x, IsSeq(x), NEW n \in Nat, NEW v
  PROVE  IsSeq(x \o Constant(n, v)) /\ Len(x \o Constant(n, v)) = Len(x) + n
<1> DEFINE S == {x[j] : j \in DOMAIN x} \cup {v}
           c == Constant(n, v)
           y == x \o c
<1>1. x \in Seq({x[j] : j \in DOMAIN x})
  BY DEF IsSeq
<1>2. Len(x) \in Nat /\ x \in [1 .. Len(x) -> {x[j] : j \in DOMAIN x}]
  BY <1>1, LenProperties
<1>3. x \in Seq(S)
  BY <1>2
<1>4. c \in Seq(S) /\ Len(c) = n
  <2>1. c \in [1 .. n -> S]
    BY DEF Constant
  <2> QED
    BY <2>1, LenProperties
<1>5. y \in Seq(S) /\ Len(y) = Len(x) + n
  <2> HIDE DEF S, c
  <2> QED
    BY <1>3, <1>4, ConcatProperties
<1>6. Len(x) + n \in Nat /\ y = [k \in 1 .. Len(x) + n |-> y[k]]
  <2> HIDE DEF S, y
  <2> QED
    BY <1>2, <1>5, LenProperties
<1> QED
  <2> HIDE DEF y
  <2>1. IsSeq(y) /\ Len(y) = Len(x) + n
    BY <1>6, FunctionIsSeq
  <2> QED
    BY <2>1 DEF y

LEMMA NewLayerOK == MetaOK(NewLayer) /\ NewLayer.next = 0 /\ Len(NewLayer.positions) = 0
<1>1. Len(<<>>) = 0 /\ IsSeq(<<>>)
  BY DEF IsSeq
<1>2. NewLayer \in [positions : Seq(Nat), lastAccess : {<<>>}, cum : {<<>>}, hits : {<<>>},
                    next : Nat]
  BY DEF NewLayer
<1>3. Parallel(NewLayer) /\ Placed(NewLayer)
  BY <1>1 DEF Parallel, Placed, NewLayer
<1> QED
  BY <1>1, <1>2, <1>3 DEF MetaOK, NewLayer

\* The elements of a concatenation.
LEMMA Concatenated ==
  ASSUME NEW a \in Seq(Nat), NEW b \in Seq(Nat), NEW c, c = a \o b
  PROVE  /\ c \in Seq(Nat) /\ Len(c) = Len(a) + Len(b)
         /\ \A s \in 1 .. Len(a) : c[s] = a[s] /\ a[s] \in Nat
         /\ \A k \in 1 .. Len(b) : c[Len(a) + k] = b[k]
<1>1. Len(a) \in Nat /\ Len(b) \in Nat /\ (\A s \in 1 .. Len(a) : a[s] \in Nat)
  BY LenProperties
<1>2. /\ c \in Seq(Nat) /\ Len(c) = Len(a) + Len(b)
      /\ \A i \in 1 .. Len(a) + Len(b) :
           c[i] = IF i <= Len(a) THEN a[i] ELSE b[i - Len(a)]
  BY ConcatProperties
<1>3. ASSUME NEW s \in 1 .. Len(a)
      PROVE  c[s] = a[s]
  BY <1>1, <1>2
<1>4. ASSUME NEW k \in 1 .. Len(b)
      PROVE  c[Len(a) + k] = b[k]
  <2>1. /\ Len(a) + k \in 1 .. Len(a) + Len(b)
        /\ ~(Len(a) + k <= Len(a)) /\ (Len(a) + k) - Len(a) = k
    BY <1>1
  <2> QED
    BY <1>2, <2>1
<1> QED
  BY <1>1, <1>2, <1>3, <1>4

\* The rows of a pass go behind the others, at the next positions.
LEMMA AppendRowsOK ==
  ASSUME NEW l, MetaOK(l), NEW n \in Nat \ {0}, NEW m, m = AppendRows(l, l.next, n)
  PROVE  /\ MetaOK(m)
         /\ m.next = l.next + n
         /\ Len(m.positions) = Len(l.positions) + n
         /\ \A k \in 1 .. n : m.positions[Len(l.positions) + k] = l.next + k - 1
<1> DEFINE len == Len(l.positions)
<1>1. l.positions \in Seq(Nat) /\ l.next \in Nat /\ len \in Nat
  BY DEF MetaOK
<1>2. PICK new \in Seq(Nat) : new = [k \in 1 .. n |-> l.next + k - 1] /\ Len(new) = n
  <2> DEFINE f == [k \in 1 .. n |-> l.next + k - 1]
  <2>1. f \in [1 .. n -> Nat] /\ n \in Nat
    BY <1>1
  <2>2. f \in Seq(Nat) /\ Len(f) = n
    <3> HIDE DEF f
    <3> QED BY <2>1, LenProperties
  <2> QED
    BY <2>2, Zenon
<1>3. /\ m.positions = l.positions \o new
      /\ m.next = l.next + n
      /\ m = [positions |-> m.positions, lastAccess |-> m.lastAccess, cum |-> m.cum,
              hits |-> m.hits, next |-> m.next]
  <2>1. l.next + n > l.next
    BY <1>1
  <2> QED
    BY <1>2, <2>1, Zenon DEF AppendRows
<1>4. /\ m.positions \in Seq(Nat) /\ Len(m.positions) = len + n
      /\ \A s \in 1 .. len : m.positions[s] = l.positions[s] /\ l.positions[s] \in Nat
      /\ \A k \in 1 .. n : m.positions[len + k] = new[k]
  <2> DEFINE c == m.positions
  <2>1. c = l.positions \o new
    BY <1>3
  <2> HIDE DEF c
  <2>2. /\ c \in Seq(Nat) /\ Len(c) = len + Len(new)
        /\ \A s \in 1 .. len : c[s] = l.positions[s] /\ l.positions[s] \in Nat
        /\ \A k \in 1 .. Len(new) : c[len + k] = new[k]
    BY <1>1, <2>1, Concatenated
  <2> QED
    BY <1>2, <2>2 DEF c
<1>5. \A k \in 1 .. n : m.positions[len + k] = l.next + k - 1
  BY <1>2, <1>4
<1>6. Parallel(m)
  <2>1. /\ IsSeq(l.lastAccess) /\ Len(l.lastAccess) = len
        /\ IsSeq(l.cum) /\ Len(l.cum) = len
        /\ IsSeq(l.hits) /\ Len(l.hits) = len
    BY DEF MetaOK, Parallel
  <2>2. /\ m.lastAccess = l.lastAccess \o Constant(n, step)
        /\ m.cum = l.cum \o Constant(n, 0)
        /\ m.hits = l.hits \o Constant(n, 0)
    BY DEF AppendRows
  <2>3. IsSeq(m.lastAccess) /\ Len(m.lastAccess) = len + n
    <3>1. n \in Nat /\ IsSeq(l.lastAccess)
      BY <2>1
    <3>2. /\ IsSeq(l.lastAccess \o Constant(n, step))
          /\ Len(l.lastAccess \o Constant(n, step)) = Len(l.lastAccess) + n
      BY <3>1, ExtendedIsSeq
    <3> QED
      BY <2>1, <2>2, <3>2
  <2>4. IsSeq(m.cum) /\ Len(m.cum) = len + n
    <3>1. n \in Nat /\ IsSeq(l.cum)
      BY <2>1
    <3>2. /\ IsSeq(l.cum \o Constant(n, 0))
          /\ Len(l.cum \o Constant(n, 0)) = Len(l.cum) + n
      BY <3>1, ExtendedIsSeq
    <3> QED
      BY <2>1, <2>2, <3>2
  <2>5. IsSeq(m.hits) /\ Len(m.hits) = len + n
    <3>1. n \in Nat /\ IsSeq(l.hits)
      BY <2>1
    <3>2. /\ IsSeq(l.hits \o Constant(n, 0))
          /\ Len(l.hits \o Constant(n, 0)) = Len(l.hits) + n
      BY <3>1, ExtendedIsSeq
    <3> QED
      BY <2>1, <2>2, <3>2
  <2> QED
    BY <1>4, <2>3, <2>4, <2>5 DEF Parallel
<1>7. Placed(m)
  <2>1. /\ len <= l.next
        /\ \A s \in 1 .. len : s - 1 <= l.positions[s] /\ l.positions[s] < l.next
    BY DEF MetaOK, Placed
  <2>2. ASSUME NEW s \in 1 .. len + n
        PROVE  s - 1 <= m.positions[s] /\ m.positions[s] < m.next
    <3>1. CASE s \in 1 .. len
      <4>1. m.positions[s] = l.positions[s] /\ l.positions[s] \in Nat
        BY <1>4, <3>1
      <4>2. s - 1 <= l.positions[s] /\ l.positions[s] < l.next
        BY <2>1, <3>1
      <4>3. m.next = l.next + n
        BY <1>3
      <4> QED
        BY <1>1, <4>1, <4>2, <4>3
    <3>2. CASE s \notin 1 .. len
      <4>1. PICK k \in 1 .. n : s = len + k
        <5>1. s - len \in 1 .. n /\ s = len + (s - len)
          BY <1>1, <3>2
        <5> QED
          BY <5>1
      <4>2. m.positions[s] = l.next + k - 1
        BY <1>5, <4>1
      <4> QED
        <5>1. m.next = l.next + n /\ len <= l.next
          BY <1>3, <2>1
        <5> QED
          BY <1>1, <4>1, <4>2, <5>1
    <3> QED
      BY <3>1, <3>2
  <2> QED
    BY <1>1, <1>3, <1>4, <2>1, <2>2 DEF Placed
<1>8. m.next \in Nat
  BY <1>1, <1>3
<1>9. MetaOK(m)
  BY <1>3, <1>4, <1>6, <1>7, <1>8 DEF MetaOK
<1> QED
  BY <1>3, <1>4, <1>5, <1>9

\* Gathering keeps any sequence a sequence.
LEMMA GatherLength ==
  ASSUME NEW x, NEW S, Cardinality(S) \in Nat
  PROVE  IsSeq(Gather(x, S)) /\ Len(Gather(x, S)) = Cardinality(S)
<1> DEFINE y == Gather(x, S)
<1>1. y = [k \in 1 .. Cardinality(S) |-> y[k]]
  BY DEF Gather
<1> HIDE DEF y
<1>2. IsSeq(y) /\ Len(y) = Cardinality(S)
  BY <1>1, FunctionIsSeq
<1> QED
  BY <1>2 DEF y

\* An eviction gathers every array at the same slots; what is left stays in
\* place or moves to the front.
LEMMA KeepSlotsOK ==
  ASSUME NEW l, MetaOK(l), NEW S \in SUBSET (1 .. Len(l.positions)),
         NEW m, m = KeepSlots(l, S)
  PROVE  /\ MetaOK(m)
         /\ m.next = l.next
         /\ Len(m.positions) = Cardinality(S)
         /\ Cardinality(S) <= Len(l.positions)
<1> DEFINE len == Len(l.positions)
           n == Cardinality(S)
<1>1. /\ l.positions \in Seq(Nat) /\ l.next \in Nat /\ len \in Nat
      /\ \A s \in 1 .. len : l.positions[s] \in Nat
  <2>1. l.positions \in Seq(Nat) /\ l.next \in Nat
    BY DEF MetaOK
  <2> QED
    BY <2>1, LenProperties
<1>2. n \in Nat /\ n <= len
  BY <1>1, SlotsAreFinite
<1>3. /\ m.positions = Gather(l.positions, S)
      /\ m.lastAccess = Gather(l.lastAccess, S)
      /\ m.cum = Gather(l.cum, S)
      /\ m.hits = Gather(l.hits, S)
      /\ m.next = l.next
      /\ m = [positions |-> m.positions, lastAccess |-> m.lastAccess, cum |-> m.cum,
              hits |-> m.hits, next |-> m.next]
  <2>1. l \in [positions : Seq(Nat), lastAccess : {l.lastAccess}, cum : {l.cum},
               hits : {l.hits}, next : Nat]
    BY DEF MetaOK
  <2> QED
    BY <2>1 DEF KeepSlots
<1>4. ASSUME NEW k \in 1 .. n
      PROVE  /\ Ascending(S)[k] \in 1 .. len /\ k <= Ascending(S)[k]
             /\ m.positions[k] = l.positions[Ascending(S)[k]]
  <2>1. Ascending(S)[k] \in S /\ k <= Ascending(S)[k]
    BY <1>1, AscendingSlots
  <2>2. m.positions[k] = l.positions[Ascending(S)[k]]
    BY <1>3 DEF Gather
  <2> QED
    BY <2>1, <2>2
<1>5. m.positions \in Seq(Nat) /\ Len(m.positions) = n
  <2>1. m.positions = [k \in 1 .. n |-> m.positions[k]]
    BY <1>3 DEF Gather
  <2>2. \A k \in 1 .. n : m.positions[k] \in Nat
    BY <1>1, <1>4
  <2>3. m.positions \in [1 .. n -> Nat]
    BY <2>1, <2>2
  <2> QED
    BY <1>2, <2>3, LenProperties
<1>6. Parallel(m)
  <2>1. IsSeq(m.lastAccess) /\ Len(m.lastAccess) = n
    BY <1>2, <1>3, GatherLength
  <2>2. IsSeq(m.cum) /\ Len(m.cum) = n
    BY <1>2, <1>3, GatherLength
  <2>3. IsSeq(m.hits) /\ Len(m.hits) = n
    BY <1>2, <1>3, GatherLength
  <2> QED
    BY <1>5, <2>1, <2>2, <2>3 DEF Parallel
<1>7. Placed(m)
  <2>1. /\ len <= l.next
        /\ \A s \in 1 .. len : s - 1 <= l.positions[s] /\ l.positions[s] < l.next
    BY DEF MetaOK, Placed
  <2>2. ASSUME NEW k \in 1 .. n
        PROVE  k - 1 <= m.positions[k] /\ m.positions[k] < m.next
    <3> DEFINE s == Ascending(S)[k]
    <3>1. s \in 1 .. len /\ k <= s /\ m.positions[k] = l.positions[s]
      BY <1>4
    <3> HIDE DEF s
    <3>2. s - 1 <= l.positions[s] /\ l.positions[s] < l.next /\ l.positions[s] \in Nat
      BY <1>1, <2>1, <3>1
    <3> QED
      BY <1>1, <1>2, <1>3, <3>1, <3>2
  <2> QED
    BY <1>1, <1>2, <1>3, <1>5, <2>1, <2>2 DEF Placed
<1>8. MetaOK(m)
  BY <1>1, <1>3, <1>5, <1>6, <1>7 DEF MetaOK
<1> QED
  BY <1>2, <1>3, <1>5, <1>8

\* Noting attention moves no token.
LEMMA NotedOK ==
  ASSUME NEW l, MetaOK(l), NEW w, DOMAIN w = 1 .. Len(l.positions),
         NEW m, m = Noted(l, w)
  PROVE  MetaOK(m) /\ m.next = l.next /\ m.positions = l.positions
<1> DEFINE len == Len(l.positions)
<1>1. l.positions \in Seq(Nat) /\ l.next \in Nat /\ len \in Nat
  BY LenProperties DEF MetaOK
<1>2. /\ m.positions = l.positions /\ m.next = l.next
      /\ m.lastAccess = [s \in 1 .. len |-> m.lastAccess[s]]
      /\ m.cum = [s \in 1 .. len |-> m.cum[s]]
      /\ m.hits = [s \in 1 .. len |-> m.hits[s]]
      /\ m = [positions |-> m.positions, lastAccess |-> m.lastAccess, cum |-> m.cum,
              hits |-> m.hits, next |-> m.next]
  <2>1. l \in [positions : Seq(Nat), lastAccess : {l.lastAccess}, cum : {l.cum},
               hits : {l.hits}, next : Nat]
    BY DEF MetaOK
  <2> QED
    BY <2>1 DEF Noted
<1>3. Parallel(m)
  <2>1. IsSeq(m.lastAccess) /\ Len(m.lastAccess) = len
    BY <1>1, <1>2, FunctionIsSeq
  <2>2. IsSeq(m.cum) /\ Len(m.cum) = len
    BY <1>1, <1>2, FunctionIsSeq
  <2>3. IsSeq(m.hits) /\ Len(m.hits) = len
    BY <1>1, <1>2, FunctionIsSeq
  <2> QED
    BY <1>2, <2>1, <2>2, <2>3 DEF Parallel
<1>4. Placed(m)
  BY <1>2 DEF Placed, MetaOK
<1>5. MetaOK(m)
  BY <1>1, <1>2, <1>3, <1>4 DEF MetaOK
<1> QED
  BY <1>2, <1>5

-----------------------------------------------------------------------------
(***************************************************************************)
(* Evictions.                                                              *)
(***************************************************************************)

LEMMA RankDomain == ASSUME NEW x PROVE DOMAIN RankNormalize(x).num = DOMAIN x
<1>1. CASE Cardinality(Range(x)) = 1
  BY <1>1 DEF RankNormalize
<1>2. CASE Cardinality(Range(x)) # 1
  BY <1>2 DEF RankNormalize
<1> QED
  BY <1>1, <1>2

LEMMA BlendDomain ==
  ASSUME NEW v, NEW a, NEW w, NEW b
  PROVE  DOMAIN Blend(v, a, w, b).num = DOMAIN a.num
BY DEF Blend

\* Every policy scores exactly the slots of the layer.
LEMMA ScoresAllSlots ==
  ASSUME NEW l, MetaOK(l), policy \in PolicyNames, NEW cap
  PROVE  DOMAIN Score(policy, l, cap) = 1 .. Len(l.positions)
<1>1. /\ DOMAIN l.positions = 1 .. Len(l.positions)
      /\ DOMAIN l.cum = 1 .. Len(l.positions)
  <2>1. l.positions \in Seq(Nat) /\ IsSeq(l.cum) /\ Len(l.cum) = Len(l.positions)
    BY DEF MetaOK, Parallel
  <2> QED
    BY <2>1, LenProperties DEF IsSeq
<1>2. DOMAIN TokenImportanceScore(l) = DOMAIN l.cum
  BY RankDomain, BlendDomain DEF TokenImportanceScore
<1>3. DOMAIN AdaptiveScore(l, cap) = DOMAIN l.cum
  BY RankDomain, BlendDomain DEF AdaptiveScore
<1>4. DOMAIN LruScore(l) = DOMAIN l.positions
  BY DEF LruScore
<1>5. CASE policy \in {"full_cache", "sliding_window", "attention_based"}
  BY <1>1, <1>5 DEF Score
<1>6. CASE policy = "lru"
  BY <1>1, <1>4, <1>6 DEF Score
<1>7. CASE policy = "token_importance"
  BY <1>1, <1>2, <1>7 DEF Score
<1>8. CASE policy = "adaptive"
  BY <1>1, <1>3, <1>8 DEF Score
<1> QED
  BY <1>5, <1>6, <1>7, <1>8 DEF PolicyNames

StoreOK(ls) ==
  /\ ls = [i \in Layers |-> ls[i]]
  /\ \A i \in Layers : MetaOK(ls[i])

Size(l) == Len(l.positions)

\* What enforcement under cap makes of a layer l.
Trimmed(l, m, cap) ==
  /\ m.next = l.next
  /\ Size(m) \in Nat /\ Size(m) <= Size(l)
  /\ Size(m) = IF Size(l) > cap THEN cap ELSE Size(l)

\* A layer over its budget keeps as many slots as the budget has tokens.
LEMMA KeptOK ==
  ASSUME NEW l, MetaOK(l), policy \in PolicyNames, NEW cap, NEW kept \in Kept(l, cap),
         Size(l) > cap, NEW m, m = KeepSlots(l, kept)
  PROVE  MetaOK(m) /\ Trimmed(l, m, cap)
<1>1. kept \in SUBSET (1 .. Len(l.positions)) /\ Cardinality(kept) = cap
  BY ScoresAllSlots DEF Kept, Selected
<1>2. /\ MetaOK(m) /\ m.next = l.next
      /\ Len(m.positions) = Cardinality(kept)
      /\ Cardinality(kept) <= Len(l.positions)
  BY <1>1, KeepSlotsOK
<1>3. Len(m.positions) \in Nat
  BY <1>2, LenProperties DEF MetaOK
<1> QED
  BY <1>1, <1>2, <1>3 DEF Trimmed, Size

LEMMA EnforceOK ==
  ASSUME NEW ls, StoreOK(ls), policy \in PolicyNames, NEW cap,
         Enforce(ls, cap, Layers)
  PROVE  /\ StoreOK(layers')
         /\ \A i \in Layers : Trimmed(ls[i], layers'[i], cap[i])
<1> DEFINE over == {i \in Layers : Over(ls[i], cap[i])}
<1>1. PICK kept \in [over -> UNION {Kept(ls[i], cap[i]) : i \in over}] :
        /\ \A i \in over : kept[i] \in Kept(ls[i], cap[i])
        /\ layers' = [i \in Layers |-> IF i \in over THEN KeepSlots(ls[i], kept[i])
                                       ELSE ls[i]]
  BY DEF Enforce
<1>2. ASSUME NEW i \in Layers
      PROVE  MetaOK(layers'[i]) /\ Trimmed(ls[i], layers'[i], cap[i])
  <2>1. MetaOK(ls[i])
    BY DEF StoreOK
  <2>2. CASE i \in over
    <3>1. layers'[i] = KeepSlots(ls[i], kept[i]) /\ kept[i] \in Kept(ls[i], cap[i])
      BY <1>1, <2>2
    <3>2. Size(ls[i]) > cap[i]
      BY <2>2 DEF Over, Size, NumTokens
    <3> QED
      BY <2>1, <3>1, <3>2, KeptOK
  <2>3. CASE i \notin over
    <3>1. layers'[i] = ls[i]
      BY <1>1, <2>3
    <3>2. ~(Size(ls[i]) > cap[i])
      BY <2>3 DEF Over, Size, NumTokens
    <3>3. Size(ls[i]) \in Nat
      BY <2>1, LenProperties DEF MetaOK, Size
    <3> QED
      BY <2>1, <3>1, <3>2, <3>3 DEF Trimmed
  <2> QED
    BY <2>2, <2>3
<1>3. layers' = [i \in Layers |-> layers'[i]]
  BY <1>1
<1> QED
  BY <1>2, <1>3 DEF StoreOK

-----------------------------------------------------------------------------
(***************************************************************************)
(* The inductive invariant.                                                *)
(***************************************************************************)

Steps == {"idle", "ready", "call", "forward", "note", "leave", "absorb",
          "close", "allocate", "raising"}

\* Between the first step of a request and its end or its exception.
Active == Steps \ {"idle", "raising"}

\* While tokens fed .. fed + PassLength - 1 are on their way.
Passing == {"call", "forward", "note", "leave", "absorb", "close"}

Fixed ==
  /\ policy \in PolicyNames
  /\ backend \in {"synthetic", "hf"}
  /\ pc \in Steps
  /\ cursor \in Layers

\* Which blocks are open: enforcement is off in all of them.
Blocks ==
  /\ pc \in {"idle", "ready", "allocate"} => deferred = <<>> /\ autoEnforce
  /\ pc \in {"call", "absorb", "close", "note"} => deferred = <<TRUE>> /\ ~autoEnforce
  /\ pc \in {"forward", "leave"} =>
       /\ deferred = IF request.caller = "direct" THEN <<TRUE>> ELSE <<TRUE, FALSE>>
       /\ ~autoEnforce
  /\ pc = "raising" => deferred \in {<<TRUE>>, <<TRUE, FALSE>>} /\ ~autoEnforce
  /\ pc = "note" => request.caller = "direct"
  /\ pc \in {"call", "absorb", "close"} => request.caller # "direct"
  /\ autoEnforce \in BOOLEAN

Progress ==
  /\ fed \in Nat
  /\ pc # "idle" => request \in Requests /\ fed <= request.length
  /\ pc \in Passing => fed < request.length
  /\ pc = "allocate" => request.allocation # "none"

\* The tokens of this pass that layer i holds already.
Added(i) ==
  IF pc \in {"note", "leave", "absorb", "close"} \/ (pc = "forward" /\ i < cursor)
  THEN PassLength ELSE 0

\* Every layer is about to take the next token the model is fed.
InStep == pc \in Active => \A i \in Layers : layers[i].next = fed + Added(i)

\* What a pass attended, the e-th of its request.
EntryOK(keys, e) ==
  \A q \in DOMAIN keys :
    /\ keys[q] >= 0
    /\ backend = "synthetic" \/ e = 1 \/ Cardinality(DOMAIN keys) = 1
         => keys[q] <= q

LogOK ==
  /\ log = [i \in Layers |-> log[i]]
  /\ \A i \in Layers :
       /\ IsSeq(log[i])
       /\ \A e \in 1 .. Len(log[i]) : EntryOK(log[i][e].keys, e)

\* A layer that was never attended is empty.
Fresh ==
  pc \in Active => \A i \in Layers :
    Len(log[i]) = 0 => Size(layers[i]) = 0 /\ layers[i].next = 0

\* Under one budget all layers hold the same number of tokens, but for those
\* this pass has not reached yet.
Even ==
  /\ pc \in Active /\ OneBudgetThroughout => \A i, j \in Layers :
       Size(layers[i]) - Added(i) = Size(layers[j]) - Added(j)
  /\ pc = "forward" =>
       /\ IsSeq(attention) /\ Len(attention) = cursor - 1
       /\ cursor > 1 => attention[1].slots = Size(layers[1])

Count(n) == [k \in 1 .. n |-> k]

ScoredOK ==
  pc \in Active /\ request.caller = "perplexity" =>
    scored = Count(IF fed < request.length THEN fed ELSE request.length - 1)

IInv ==
  /\ Fixed /\ Blocks /\ Progress
  /\ StoreOK(layers) /\ InStep
  /\ LogOK /\ Fresh /\ Even /\ ScoredOK

-----------------------------------------------------------------------------
(***************************************************************************)
(* Facts the steps share.                                                  *)
(***************************************************************************)

LEMMA Pairs ==
  ASSUME NEW a, NEW b
  PROVE  Append(<<a>>, b) = <<a, b>> /\ SubSeq(<<a, b>>, 1, 1) = <<a>>
<1> DEFINE s == Append(<<a>>, b)
           u == SubSeq(<<a, b>>, 1, 1)
<1>1. <<a>> \in Seq({a, b}) /\ Len(<<a>>) = 1 /\ <<a>>[1] = a
  OBVIOUS
<1>2. /\ <<a, b>> \in Seq({a, b}) /\ Len(<<a, b>>) = 2
      /\ <<a, b>>[1] = a /\ <<a, b>>[2] = b
  OBVIOUS
<1>3. s \in Seq({a, b}) /\ Len(s) = 2 /\ s[1] = a /\ s[2] = b
  BY <1>1, AppendProperties
<1>4. s = <<a, b>>
  <2> HIDE DEF s
  <2>1. DOMAIN s = 1 .. 2 /\ DOMAIN <<a, b>> = 1 .. 2
    BY <1>2, <1>3, LenProperties
  <2> QED
    BY <1>2, <1>3, <2>1, LenProperties
<1>5. u \in Seq({a, b}) /\ Len(u) = 1 /\ u[1] = a
  <2>1. \A i \in 1 .. 1 : <<a, b>>[i] \in {a, b}
    BY <1>2
  <2>2. /\ u \in Seq({a, b}) /\ Len(u) = IF 1 <= 1 THEN 1 - 1 + 1 ELSE 0
        /\ \A i \in 1 .. 1 - 1 + 1 : u[i] = <<a, b>>[1 + i - 1]
    <3> HIDE DEF u
    <3>1. /\ SubSeq(<<a, b>>, 1, 1) \in Seq({a, b})
          /\ Len(SubSeq(<<a, b>>, 1, 1)) = IF 1 <= 1 THEN 1 - 1 + 1 ELSE 0
          /\ \A i \in 1 .. 1 - 1 + 1 : SubSeq(<<a, b>>, 1, 1)[i] = <<a, b>>[1 + i - 1]
      BY <2>1, SubSeqProperties
    <3> QED
      BY <3>1 DEF u
  <2> HIDE DEF u
  <2> QED
    BY <1>2, <2>2
<1>6. u = <<a>>
  <2> HIDE DEF u
  <2>1. DOMAIN u = 1 .. 1 /\ DOMAIN <<a>> = 1 .. 1
    BY <1>1, <1>5, LenProperties
  <2> QED
    BY <1>1, <1>5, <2>1, LenProperties
<1> QED
  BY <1>4, <1>6

LEMMA BlockTuples ==
  /\ Len(<<>>) = 0 /\ Len(<<TRUE>>) = 1 /\ Len(<<TRUE, FALSE>>) = 2
  /\ Append(<<>>, TRUE) = <<TRUE>> /\ Append(<<TRUE>>, FALSE) = <<TRUE, FALSE>>
  /\ SubSeq(<<TRUE>>, 1, 0) = <<>> /\ SubSeq(<<TRUE, FALSE>>, 1, 1) = <<TRUE>>
  /\ <<TRUE>>[1] = TRUE /\ <<TRUE, FALSE>>[2] = FALSE
<1>1. Len(<<>>) = 0 /\ Len(<<TRUE>>) = 1 /\ Len(<<TRUE, FALSE>>) = 2
  OBVIOUS
<1>2. Append(<<>>, TRUE) = <<TRUE>>
  OBVIOUS
<1>3. Append(<<TRUE>>, FALSE) = <<TRUE, FALSE>>
  BY Pairs
<1>4. SubSeq(<<TRUE>>, 1, 0) = <<>>
  OBVIOUS
<1>5. SubSeq(<<TRUE, FALSE>>, 1, 1) = <<TRUE>>
  BY Pairs
<1>6. <<TRUE>>[1] = TRUE /\ <<TRUE, FALSE>>[2] = FALSE
  OBVIOUS
<1> QED
  BY <1>1, <1>2, <1>3, <1>4, <1>5, <1>6

LEMMA RequestFacts ==
  ASSUME NEW r \in Requests
  PROVE  r.length \in Nat \ {0} /\ r.first \in Nat \ {0} /\ r.rest \in Nat \ {0}
<1>1. r.length \in Lengths /\ r.first \in 1 .. MaxLength /\ r.rest \in 1 .. MaxLength
  BY DEF Requests
<1>2. MaxLength \in Nat /\ Lengths \subseteq 1 .. MaxLength
  BY BoundsAssumption
<1>3. \A n \in 1 .. MaxLength : n \in Nat \ {0}
  BY <1>2
<1> QED
  BY <1>1, <1>2, <1>3

\* A pass feeds at least one token and none too many.
LEMMA PassFacts ==
  ASSUME Progress, pc \in Passing
  PROVE  /\ PassLength \in Nat \ {0}
         /\ fed + PassLength <= request.length
         /\ request.length \in Nat
         /\ Queries = fed .. fed + PassLength - 1
<1>1. /\ request \in Requests /\ fed \in Nat /\ fed < request.length
  BY DEF Progress, Passing
<1>2. /\ request.length \in Nat \ {0} /\ request.first \in Nat \ {0}
      /\ request.rest \in Nat \ {0}
  BY <1>1, RequestFacts
<1>3. request.length \in Nat
  BY <1>2
<1>4. PassLength \in Nat \ {0} /\ fed + PassLength <= request.length
  BY <1>1, <1>2, <1>3 DEF PassLength
<1> QED
  BY <1>3, <1>4 DEF Queries

LEMMA SizeIsNat ==
  ASSUME NEW ls, StoreOK(ls), NEW i \in Layers
  PROVE  /\ Size(ls[i]) \in Nat
         /\ ls[i].next \in Nat
         /\ MetaOK(ls[i])
<1>1. MetaOK(ls[i])
  BY DEF StoreOK
<1> QED
  BY <1>1, LenProperties DEF MetaOK, Size

\* What the end of a block makes of the layers: nothing, or what enforcement
\* under the budgets of the cache makes of them.
Settled ==
  \/ layers' = layers
  \/ \A i \in Layers : Trimmed(layers[i], layers'[i], config.cap[i])

LEMMA LeaveBlockOK ==
  ASSUME StoreOK(layers), policy \in PolicyNames, NEW b, LeaveBlock(b)
  PROVE  StoreOK(layers') /\ Settled
<1>1. CASE layers' = layers
  BY <1>1 DEF StoreOK, Settled
<1>2. CASE Enforce(layers, config.cap, Layers)
  BY <1>2, EnforceOK DEF Settled
<1> QED
  BY <1>1, <1>2 DEF LeaveBlock

\* Layers that settle keep their next position and stay even.
LEMMA SettledFacts ==
  ASSUME StoreOK(layers), Settled
  PROVE  /\ \A i \in Layers : layers'[i].next = layers[i].next
         /\ \A i \in Layers : Size(layers[i]) = 0 => Size(layers'[i]) = 0
         /\ OneBudgetThroughout =>
              \A i, j \in Layers : Size(layers[i]) = Size(layers[j]) =>
                                   Size(layers'[i]) = Size(layers'[j])
<1>1. \A i \in Layers : Size(layers[i]) \in Nat
  BY SizeIsNat
<1>2. CASE layers' = layers
  BY <1>2
<1>3. CASE \A i \in Layers : Trimmed(layers[i], layers'[i], config.cap[i])
  <2>1. \A i \in Layers : layers'[i].next = layers[i].next
    BY <1>3 DEF Trimmed
  <2>2. \A i \in Layers :
          Size(layers'[i]) = IF Size(layers[i]) > config.cap[i] THEN config.cap[i]
                             ELSE Size(layers[i])
    BY <1>3 DEF Trimmed
  <2>3. ASSUME NEW i \in Layers, Size(layers[i]) = 0
        PROVE  Size(layers'[i]) = 0
    BY <1>3, <2>3 DEF Trimmed
  <2>4. OneBudgetThroughout => \A i, j \in Layers : config.cap[i] = config.cap[j]
    BY DEF OneBudgetThroughout
  <2> QED
    BY <2>1, <2>2, <2>3, <2>4
<1> QED
  BY <1>2, <1>3 DEF Settled

-----------------------------------------------------------------------------
(***************************************************************************)
(* One step per action.                                                    *)
(***************************************************************************)

LEMMA InitOK == Init => IInv
<1> SUFFICES ASSUME Init PROVE IInv
  OBVIOUS
<1>1. PICK s \in Setups : policy = s.policy /\ backend = s.backend /\ config = s.config
  BY DEF Init
<1>2. Fixed
  <2>1. policy \in PolicyNames /\ backend \in {"synthetic", "hf"}
    BY <1>1, SetupsAssumption
  <2>2. 1 \in Layers
    BY LayersAssumption DEF Layers
  <2> QED
    BY <2>1, <2>2 DEF Fixed, Init, Steps
<1>3. Blocks /\ Progress
  BY DEF Init, Blocks, Progress, Passing
<1>4. StoreOK(layers)
  BY NewLayerOK DEF Init, StoreOK
<1>5. LogOK
  <2>1. IsSeq(<<>>) /\ Len(<<>>) = 0
    BY DEF IsSeq
  <2> QED
    BY <2>1 DEF Init, LogOK
<1>6. InStep /\ Fresh /\ Even /\ ScoredOK
  BY DEF Init, InStep, Fresh, Even, ScoredOK, Active
<1> QED
  BY <1>2, <1>3, <1>4, <1>5, <1>6 DEF IInv

LEMMA StartStep ==
  ASSUME IInv, NEW r \in Requests, Start(r)
  PROVE  IInv'
<1>1. Fixed' /\ Blocks'
  BY DEF IInv, Fixed, Blocks, Start, setup, Steps
<1>2. Progress'
  <2>1. r.length \in Nat \ {0}
    BY RequestFacts
  <2> QED
    BY <2>1 DEF Start, Progress, Passing
<1>3. \A i \in Layers : MetaOK(layers'[i]) /\ Size(layers'[i]) = 0 /\ layers'[i].next = 0
  BY NewLayerOK DEF Start, Size
<1>4. StoreOK(layers')
  BY <1>3 DEF Start, StoreOK
<1>5. pc' = "ready" /\ fed' = 0 /\ request' = r /\ scored' = <<>>
  BY DEF Start
<1>6. InStep' /\ Fresh' /\ Even'
  <2>1. \A i \in Layers : Added(i)' = 0
    BY <1>5 DEF Added
  <2> QED
    BY <1>3, <1>5, <2>1 DEF InStep, Fresh, Even
<1>7. LogOK'
  <2>1. IsSeq(<<>>) /\ Len(<<>>) = 0
    BY DEF IsSeq
  <2> QED
    BY <2>1 DEF Start, LogOK
<1>8. ScoredOK'
  <2>1. r.length \in Nat \ {0}
    BY RequestFacts
  <2>2. Count(0) = <<>>
    BY DEF Count
  <2>3. scored' = Count(IF fed' < request'.length THEN fed' ELSE request'.length - 1)
    BY <1>5, <2>1, <2>2
  <2> QED
    BY <2>3 DEF ScoredOK
<1> QED
  BY <1>1, <1>2, <1>4, <1>6, <1>7, <1>8 DEF IInv

\* A step that leaves the layers, the log and the request alone and stays in
\* the request without passing a layer.
LEMMA FrameStep ==
  ASSUME IInv, pc \in Active, pc' \in Active, pc' # "forward",
         UNCHANGED <<setup, layers, request, fed, scored, log>>,
         \A i \in Layers : Added(i)' = Added(i)
  PROVE  StoreOK(layers') /\ InStep' /\ LogOK' /\ Fresh' /\ Even' /\ ScoredOK'
<1>1. StoreOK(layers')
  BY DEF IInv
<1>2. InStep'
  BY DEF IInv, InStep
<1>3. LogOK'
  BY DEF IInv, LogOK, EntryOK, setup
<1>4. Fresh'
  BY DEF IInv, Fresh
<1>5. Even'
  BY DEF IInv, Even, OneBudgetThroughout, setup
<1>6. ScoredOK'
  BY DEF IInv, ScoredOK
<1> QED
  BY <1>1, <1>2, <1>3, <1>4, <1>5, <1>6

LEMMA OpenCallStep ==
  ASSUME IInv, OpenCall
  PROVE  IInv'
<1>1. /\ pc = "ready" /\ pc' = "call" /\ fed < request.length
      /\ request.caller # "direct"
      /\ UNCHANGED <<setup, layers, request, fed, scored, log, cursor, step>>
      /\ deferred' = Append(deferred, autoEnforce) /\ autoEnforce' = FALSE
  BY DEF OpenCall, EnterBlock, driver
<1>2. Fixed'
  BY <1>1 DEF IInv, Fixed, setup, Steps
<1>3. Blocks'
  <2>1. deferred = <<>> /\ autoEnforce = TRUE
    BY <1>1 DEF IInv, Blocks
  <2>2. deferred' = <<TRUE>>
    BY <1>1, <2>1, BlockTuples
  <2> QED
    BY <1>1, <2>2 DEF Blocks
<1>4. Progress'
  BY <1>1 DEF IInv, Progress
<1>5. \A i \in Layers : Added(i)' = Added(i)
  BY <1>1 DEF Added
<1> QED
  BY <1>1, <1>2, <1>3, <1>4, <1>5, FrameStep DEF IInv, Active, Steps

LEMMA OpenModelStep ==
  ASSUME IInv, OpenModel
  PROVE  IInv'
<1>1. /\ pc' = "forward" /\ cursor' = 1 /\ attention' = <<>>
      /\ UNCHANGED <<setup, layers, request, fed, scored, log>>
      /\ deferred' = Append(deferred, autoEnforce) /\ autoEnforce' = FALSE
      /\ \/ pc = "call"
         \/ pc = "ready" /\ fed < request.length /\ request.caller = "direct"
  BY DEF OpenModel, EnterBlock, driver
<1>2. Fixed'
  <2>1. 1 \in Layers
    BY LayersAssumption DEF Layers
  <2> QED
    BY <1>1, <2>1 DEF IInv, Fixed, setup, Steps
<1>3. Blocks'
  <2>1. CASE pc = "call"
    <3>1. deferred = <<TRUE>> /\ autoEnforce = FALSE /\ request.caller # "direct"
      BY <2>1 DEF IInv, Blocks
    <3>2. deferred' = <<TRUE, FALSE>>
      BY <1>1, <3>1, BlockTuples
    <3> QED
      BY <1>1, <3>1, <3>2 DEF Blocks
  <2>2. CASE pc = "ready" /\ request.caller = "direct"
    <3>1. deferred = <<>> /\ autoEnforce = TRUE
      BY <2>2 DEF IInv, Blocks
    <3>2. deferred' = <<TRUE>>
      BY <1>1, <3>1, BlockTuples
    <3> QED
      BY <1>1, <2>2, <3>2 DEF Blocks
  <2> QED
    BY <1>1, <2>1, <2>2
<1>4. Progress'
  BY <1>1 DEF IInv, Progress, Passing
<1>5. \A i \in Layers : Added(i) = 0 /\ Added(i)' = 0
  <2>1. \A i \in Layers : ~(i < 1)
    BY DEF Layers
  <2> QED
    BY <1>1, <2>1 DEF Added
<1>6. StoreOK(layers') /\ InStep' /\ LogOK' /\ Fresh' /\ ScoredOK'
  <2>1. pc \in Active
    BY <1>1 DEF Active, Steps
  <2>2. InStep'
    BY <1>1, <1>5, <2>1 DEF IInv, InStep
  <2>3. LogOK'
    BY <1>1 DEF IInv, LogOK, EntryOK, setup
  <2>4. Fresh'
    BY <1>1, <2>1 DEF IInv, Fresh
  <2>5. ScoredOK'
    BY <1>1, <2>1 DEF IInv, ScoredOK
  <2> QED
    BY <1>1, <2>2, <2>3, <2>4, <2>5 DEF IInv
<1>7. Even'
  <2>1. pc \in Active
    BY <1>1 DEF Active, Steps
  <2>2. IsSeq(<<>>) /\ Len(<<>>) = 0
    BY DEF IsSeq
  <2>3. OneBudgetThroughout' = OneBudgetThroughout
    BY <1>1 DEF OneBudgetThroughout, setup
  <2> QED
    BY <1>1, <1>5, <2>1, <2>2, <2>3 DEF IInv, Even
<1> QED
  BY <1>2, <1>3, <1>4, <1>6, <1>7 DEF IInv

\* A step that leaves the layers, the log and the request alone and is not
\* followed by a step of the request.
LEMMA AsideStep ==
  ASSUME IInv, StoreOK(layers'), pc' \in {"idle", "raising"},
         UNCHANGED <<setup, log>>
  PROVE  StoreOK(layers') /\ InStep' /\ LogOK' /\ Fresh' /\ Even' /\ ScoredOK'
<1>1. pc' \notin Active /\ pc' # "forward"
  BY DEF Active
<1>2. LogOK'
  BY DEF IInv, LogOK, EntryOK, setup
<1> QED
  BY <1>1, <1>2 DEF InStep, Fresh, Even, ScoredOK, Active

LEMMA RaiseStep ==
  ASSUME IInv, Raise
  PROVE  IInv'
<1>1. /\ pc = "forward" /\ pc' = "raising"
      /\ UNCHANGED <<setup, layers, request, fed, log, cursor, deferred, autoEnforce>>
  BY DEF Raise, cache, driver
<1>2. Fixed' /\ Blocks'
  BY <1>1 DEF IInv, Fixed, Blocks, setup, Steps
<1>3. Progress'
  BY <1>1 DEF IInv, Progress, Passing
<1>4. StoreOK(layers')
  BY <1>1 DEF IInv
<1> QED
  BY <1>1, <1>2, <1>3, <1>4, AsideStep DEF IInv

LEMMA FinishStep ==
  ASSUME IInv, Finish
  PROVE  IInv'
<1>1. /\ pc = "ready" /\ pc' = "idle"
      /\ UNCHANGED <<setup, layers, request, fed, log, cursor, deferred, autoEnforce>>
  BY DEF Finish, cache, driver
<1>2. Fixed' /\ Blocks'
  BY <1>1 DEF IInv, Fixed, Blocks, setup, Steps
<1>3. Progress'
  BY <1>1 DEF IInv, Progress, Passing
<1>4. StoreOK(layers')
  BY <1>1 DEF IInv
<1> QED
  BY <1>1, <1>2, <1>3, <1>4, AsideStep DEF IInv

LEMMA UnwindStep ==
  ASSUME IInv, Unwind
  PROVE  IInv'
<1>1. /\ pc = "raising" /\ UNCHANGED <<setup, request, fed, log, cursor>>
      /\ pc' = IF Len(deferred) = 1 THEN "idle" ELSE "raising"
      /\ LeaveBlock(FALSE)
      /\ deferred' = SubSeq(deferred, 1, Len(deferred) - 1)
      /\ autoEnforce' = deferred[Len(deferred)]
  BY DEF Unwind, driver, Owner, LeaveBlock
<1>2. deferred \in {<<TRUE>>, <<TRUE, FALSE>>}
  BY <1>1 DEF IInv, Blocks
<1>3. Blocks'
  <2>1. CASE deferred = <<TRUE>>
    <3>1. deferred' = <<>> /\ autoEnforce' = TRUE /\ pc' = "idle"
      BY <1>1, <2>1, BlockTuples
    <3> QED
      BY <3>1 DEF Blocks
  <2>2. CASE deferred = <<TRUE, FALSE>>
    <3>1. Len(deferred) = 2 /\ 2 - 1 = 1
      BY <2>2, BlockTuples
    <3>2. deferred' = <<TRUE>>
      BY <1>1, <2>2, <3>1, BlockTuples
    <3>3. autoEnforce' = FALSE
      BY <1>1, <2>2, <3>1, BlockTuples
    <3>4. pc' = "raising"
      BY <1>1, <3>1
    <3> QED
      BY <3>2, <3>3, <3>4 DEF Blocks
  <2> QED
    BY <1>2, <2>1, <2>2
<1>4. pc' \in {"idle", "raising"}
  BY <1>1
<1>5. Fixed' /\ Progress'
  BY <1>1, <1>4 DEF IInv, Fixed, Progress, Passing, setup, Steps
<1>6. StoreOK(layers')
  BY <1>1, LeaveBlockOK DEF IInv, Fixed
<1> QED
  BY <1>1, <1>3, <1>4, <1>5, <1>6, AsideStep DEF IInv

\* The attention of a pass is noted.
LEMMA NoteAllOK ==
  ASSUME IInv, NoteAll
  PROVE  /\ StoreOK(layers')
         /\ \A i \in Layers : /\ layers'[i].next = layers[i].next
                              /\ Size(layers'[i]) = Size(layers[i])
<1>1. ASSUME NEW i \in Layers
      PROVE  /\ MetaOK(layers'[i])
             /\ layers'[i].next = layers[i].next
             /\ Size(layers'[i]) = Size(layers[i])
  <2>1. MetaOK(layers[i])
    BY DEF IInv, StoreOK
  <2>2. CASE layers'[i] = layers[i]
    BY <2>1, <2>2
  <2>3. CASE layers'[i] = Noted(layers[i], Weights(layers[i], attention[i].attended))
    <3>1. DOMAIN Weights(layers[i], attention[i].attended) = 1 .. Len(layers[i].positions)
      BY DEF Weights, NumTokens
    <3>2. /\ MetaOK(layers'[i]) /\ layers'[i].next = layers[i].next
          /\ layers'[i].positions = layers[i].positions
      BY <2>1, <2>3, <3>1, NotedOK
    <3> QED
      BY <3>2 DEF Size
  <2> QED
    BY <2>2, <2>3 DEF NoteAll
<1>2. layers' = [i \in Layers |-> layers'[i]]
  BY DEF NoteAll
<1> QED
  BY <1>1, <1>2 DEF StoreOK

LEMMA NoteStep ==
  ASSUME IInv, ModelNotes \/ Absorb
  PROVE  IInv'
<1>1. /\ NoteAll
      /\ UNCHANGED <<setup, request, fed, scored, log, cursor, deferred, autoEnforce>>
      /\ \/ pc = "note" /\ pc' = "leave"
         \/ pc = "absorb" /\ pc' = "close"
  BY DEF ModelNotes, Absorb, driver
<1>2. Fixed' /\ Progress'
  BY <1>1 DEF IInv, Fixed, Progress, Passing, setup, Steps
<1>3. Blocks'
  BY <1>1 DEF IInv, Blocks
<1>4. \A i \in Layers : Added(i)' = Added(i)
  <2>1. PassLength' = PassLength
    BY <1>1 DEF PassLength
  <2> QED
    BY <1>1, <2>1 DEF Added
<1>5. /\ StoreOK(layers')
      /\ \A i \in Layers : /\ layers'[i].next = layers[i].next
                           /\ Size(layers'[i]) = Size(layers[i])
  BY <1>1, NoteAllOK
<1>6. pc \in Active /\ pc' \in Active /\ pc' # "forward"
  BY <1>1 DEF Active, Steps
<1>7. InStep'
  BY <1>1, <1>4, <1>5, <1>6 DEF IInv, InStep
<1>8. LogOK'
  BY <1>1 DEF IInv, LogOK, EntryOK, setup
<1>9. Fresh'
  BY <1>1, <1>5, <1>6 DEF IInv, Fresh
<1>10. Even'
  <2>1. OneBudgetThroughout' = OneBudgetThroughout
    BY <1>1 DEF OneBudgetThroughout, setup
  <2> QED
    BY <1>4, <1>5, <1>6, <2>1 DEF IInv, Even
<1>11. ScoredOK'
  BY <1>1, <1>6 DEF IInv, ScoredOK
<1> QED
  BY <1>2, <1>3, <1>5, <1>7, <1>8, <1>9, <1>10, <1>11 DEF IInv

\* The outermost block ends: enforcement is back on, the layers settle.
LEMMA OuterBlockEnds ==
  ASSUME IInv, deferred = <<TRUE>>, LeaveBlock(TRUE)
  PROVE  /\ deferred' = <<>> /\ autoEnforce' = TRUE
         /\ StoreOK(layers') /\ Settled
<1>1. /\ deferred' = SubSeq(deferred, 1, Len(deferred) - 1)
      /\ autoEnforce' = deferred[Len(deferred)]
  BY DEF LeaveBlock
<1>2. Len(deferred) = 1 /\ 1 - 1 = 0
  BY BlockTuples
<1>3. deferred' = <<>>
  BY <1>1, <1>2, BlockTuples
<1>4. autoEnforce' = TRUE
  BY <1>1, <1>2, BlockTuples
<1>5. StoreOK(layers') /\ Settled
  BY LeaveBlockOK DEF IInv, Fixed
<1> QED
  BY <1>3, <1>4, <1>5

\* An inner block ends: nothing is enforced.
LEMMA InnerBlockEnds ==
  ASSUME deferred = <<TRUE, FALSE>>, LeaveBlock(TRUE)
  PROVE  deferred' = <<TRUE>> /\ autoEnforce' = FALSE /\ layers' = layers
<1>1. /\ deferred' = SubSeq(deferred, 1, Len(deferred) - 1)
      /\ autoEnforce' = deferred[Len(deferred)]
      /\ ~Owner => layers' = layers
  BY DEF LeaveBlock
<1>2. Len(deferred) = 2 /\ 2 - 1 = 1
  BY BlockTuples
<1>3. deferred' = <<TRUE>>
  BY <1>1, <1>2, BlockTuples
<1>4. autoEnforce' = FALSE
  BY <1>1, <1>2, BlockTuples
<1>5. ~Owner
  BY <1>2 DEF Owner
<1> QED
  BY <1>1, <1>3, <1>4, <1>5

\* After a pass of all layers they settle, and the tokens of the pass count
\* as fed.
LEMMA PassEnds ==
  ASSUME IInv, pc \in {"leave", "close"}, Settled, StoreOK(layers'),
         pc' \in {"ready", "allocate"}, fed' = fed + PassLength,
         UNCHANGED <<setup, request, log>>
  PROVE  InStep' /\ LogOK' /\ Fresh' /\ Even'
<1>1. pc \in Active /\ pc' \in Active /\ pc' # "forward"
  BY DEF Active, Steps
<1>2. fed \in Nat /\ PassLength \in Nat
  <2>1. Progress /\ pc \in Passing
    BY DEF IInv, Passing
  <2> QED
    BY <2>1, PassFacts DEF Progress
<1>3. \A i \in Layers : Added(i) = PassLength /\ Added(i)' = 0
  BY DEF Added
<1>4. /\ \A i \in Layers : layers'[i].next = layers[i].next
      /\ \A i \in Layers : Size(layers[i]) = 0 => Size(layers'[i]) = 0
      /\ OneBudgetThroughout =>
           \A i, j \in Layers : Size(layers[i]) = Size(layers[j]) =>
                                Size(layers'[i]) = Size(layers'[j])
  BY SettledFacts DEF IInv
<1>5. InStep'
  <2>1. \A i \in Layers : layers[i].next = fed + PassLength
    BY <1>1, <1>3 DEF IInv, InStep
  <2>2. \A i \in Layers : layers'[i].next = fed' + Added(i)'
    BY <1>2, <1>3, <1>4, <2>1
  <2> QED
    BY <2>2 DEF InStep
<1>6. LogOK'
  BY DEF IInv, LogOK, EntryOK, setup
<1>7. Fresh'
  <2>1. \A i \in Layers : Len(log[i]) = 0 => Size(layers[i]) = 0 /\ layers[i].next = 0
    BY <1>1 DEF IInv, Fresh
  <2> QED
    BY <1>4, <2>1 DEF Fresh
<1>8. Even'
  <2>1. OneBudgetThroughout' = OneBudgetThroughout
    BY DEF OneBudgetThroughout, setup
  <2>2. ASSUME OneBudgetThroughout, NEW i \in Layers, NEW j \in Layers
        PROVE  Size(layers'[i]) - Added(i)' = Size(layers'[j]) - Added(j)'
    <3>1. Size(layers[i]) - PassLength = Size(layers[j]) - PassLength
      BY <1>1, <1>3, <2>2 DEF IInv, Even
    <3>2. Size(layers[i]) \in Nat /\ Size(layers[j]) \in Nat
      BY SizeIsNat DEF IInv
    <3>3. Size(layers[i]) = Size(layers[j])
      BY <1>2, <3>1, <3>2
    <3>4. Size(layers'[i]) = Size(layers'[j])
      BY <1>4, <2>2, <3>3
    <3> QED
      BY <1>3, <3>4
  <2> QED
    BY <1>1, <2>1, <2>2 DEF Even
<1> QED
  BY <1>5, <1>6, <1>7, <1>8

LEMMA CloseModelStep ==
  ASSUME IInv, CloseModel
  PROVE  IInv'
<1>1. /\ pc = "leave" /\ LeaveBlock(TRUE)
      /\ UNCHANGED <<setup, request, scored, log, cursor>>
      /\ IF request.caller = "direct"
         THEN fed' = fed + PassLength /\ pc' = "ready"
         ELSE pc' = "absorb" /\ UNCHANGED fed
  BY DEF CloseModel
<1>2. Fixed'
  BY <1>1 DEF IInv, Fixed, setup, Steps
<1>3. /\ PassLength \in Nat \ {0} /\ fed + PassLength <= request.length
      /\ fed \in Nat /\ request \in Requests /\ fed < request.length
      /\ request.length \in Nat
  <2>1. Progress /\ pc \in Passing /\ pc # "idle"
    BY <1>1 DEF IInv, Passing
  <2> QED
    BY <2>1, PassFacts DEF Progress
<1>4. CASE request.caller = "direct"
  <2>1. deferred = <<TRUE>>
    BY <1>1, <1>4 DEF IInv, Blocks
  <2>2. /\ deferred' = <<>> /\ autoEnforce' = TRUE
        /\ StoreOK(layers') /\ Settled
    BY <1>1, <2>1, OuterBlockEnds
  <2>3. pc' = "ready" /\ fed' = fed + PassLength
    BY <1>1, <1>4
  <2>4. Blocks'
    BY <2>2, <2>3 DEF Blocks
  <2>5. Progress'
    BY <1>1, <1>3, <2>3 DEF Progress, Passing
  <2>6. InStep' /\ LogOK' /\ Fresh' /\ Even'
    BY <1>1, <2>2, <2>3, PassEnds
  <2>7. ScoredOK'
    BY <1>1, <1>4 DEF ScoredOK
  <2> QED
    BY <1>2, <2>2, <2>4, <2>5, <2>6, <2>7 DEF IInv
<1>5. CASE request.caller # "direct"
  <2>1. deferred = <<TRUE, FALSE>>
    BY <1>1, <1>5 DEF IInv, Blocks
  <2>2. deferred' = <<TRUE>> /\ autoEnforce' = FALSE /\ layers' = layers
    BY <1>1, <2>1, InnerBlockEnds
  <2>3. pc' = "absorb" /\ fed' = fed
    BY <1>1, <1>5
  <2>4. Blocks'
    BY <1>1, <1>5, <2>2, <2>3 DEF Blocks
  <2>5. Progress'
    BY <1>1, <1>3, <2>3 DEF Progress, Passing
  <2>6. PassLength' = PassLength
    BY <1>1, <2>3 DEF PassLength
  <2>7. \A i \in Layers : Added(i)' = Added(i)
    BY <1>1, <2>3, <2>6 DEF Added
  <2>8. pc \in Active /\ pc' \in Active /\ pc' # "forward"
    BY <1>1, <2>3 DEF Active, Steps
  <2>9. StoreOK(layers') /\ InStep' /\ LogOK' /\ Fresh' /\ Even' /\ ScoredOK'
    BY <1>1, <2>2, <2>3, <2>7, <2>8, FrameStep
  <2> QED
    BY <1>2, <2>4, <2>5, <2>9 DEF IInv
<1> QED
  BY <1>4, <1>5

\* Counting on from a counts on to a + b.
LEMMA CountOn ==
  ASSUME NEW a \in Nat, NEW b \in Nat
  PROVE  Count(a) \o [k \in 1 .. b |-> a + k] = Count(a + b)
<1> DEFINE on == [k \in 1 .. b |-> a + k]
           c == Count(a) \o on
<1>1. Count(a) \in Seq(Nat) /\ Len(Count(a)) = a /\ (\A k \in 1 .. a : Count(a)[k] = k)
  <2>1. Count(a) \in [1 .. a -> Nat] /\ (\A k \in 1 .. a : Count(a)[k] = k)
    BY DEF Count
  <2> QED
    BY <2>1, LenProperties
<1>2. on \in Seq(Nat) /\ Len(on) = b /\ (\A k \in 1 .. b : on[k] = a + k)
  <2>1. on \in [1 .. b -> Nat]
    OBVIOUS
  <2>2. on \in Seq(Nat) /\ Len(on) = b
    <3> HIDE DEF on
    <3> QED BY <2>1, LenProperties
  <2> QED
    BY <2>2
<1> HIDE DEF on, c
<1>3. /\ c \in Seq(Nat) /\ Len(c) = a + b
      /\ \A s \in 1 .. a : c[s] = s
      /\ \A k \in 1 .. b : c[a + k] = a + k
  <2>1. c = Count(a) \o on /\ Count(a) \in Seq(Nat) /\ on \in Seq(Nat)
    BY <1>1, <1>2 DEF c
  <2>2. /\ c \in Seq(Nat) /\ Len(c) = Len(Count(a)) + Len(on)
        /\ \A s \in 1 .. Len(Count(a)) : c[s] = Count(a)[s]
        /\ \A k \in 1 .. Len(on) : c[Len(Count(a)) + k] = on[k]
    BY <2>1, Concatenated
  <2> QED
    BY <1>1, <1>2, <2>2
<1>4. \A s \in 1 .. a + b : c[s] = s
  <2> SUFFICES ASSUME NEW s \in 1 .. a + b
               PROVE  c[s] = s
    OBVIOUS
  <2>1. CASE s \in 1 .. a
    BY <1>3, <2>1
  <2>2. CASE s \notin 1 .. a
    <3>1. s - a \in 1 .. b /\ a + (s - a) = s
      BY <2>2
    <3> QED
      BY <1>3, <3>1
  <2> QED
    BY <2>1, <2>2
<1>5. c = Count(a + b)
  <2>1. DOMAIN c = 1 .. a + b
    BY <1>3, LenProperties
  <2>2. c = [s \in 1 .. a + b |-> c[s]]
    BY <1>3, <2>1, LenProperties
  <2> QED
    BY <1>4, <2>2 DEF Count
<1> QED
  BY <1>5 DEF c, on

LEMMA CloseCallStep ==
  ASSUME IInv, CloseCall
  PROVE  IInv'
<1>1. /\ pc = "close" /\ LeaveBlock(TRUE)
      /\ UNCHANGED <<setup, request, log, cursor>>
      /\ fed' = fed + PassLength
      /\ pc' = IF fed = 0 /\ request.allocation # "none" THEN "allocate" ELSE "ready"
      /\ request.caller = "perplexity" =>
           scored' = scored \o [k \in 1 .. NumTargets |-> fed + k]
  BY DEF CloseCall
<1>2. Fixed'
  BY <1>1 DEF IInv, Fixed, setup, Steps
<1>3. /\ PassLength \in Nat \ {0} /\ fed + PassLength <= request.length
      /\ fed \in Nat /\ request \in Requests /\ fed < request.length
      /\ request.length \in Nat
  <2>1. Progress /\ pc \in Passing /\ pc # "idle"
    BY <1>1 DEF IInv, Passing
  <2> QED
    BY <2>1, PassFacts DEF Progress
<1>4. deferred = <<TRUE>>
  BY <1>1 DEF IInv, Blocks
<1>5. /\ deferred' = <<>> /\ autoEnforce' = TRUE
      /\ StoreOK(layers') /\ Settled
  BY <1>1, <1>4, OuterBlockEnds
<1>6. Blocks'
  BY <1>1, <1>5 DEF Blocks
<1>7. Progress'
  BY <1>1, <1>3 DEF Progress, Passing
<1>8. InStep' /\ LogOK' /\ Fresh' /\ Even'
  BY <1>1, <1>5, PassEnds
<1>9. ScoredOK'
  <2> SUFFICES ASSUME request.caller = "perplexity"
               PROVE  scored' = Count(IF fed' < request.length THEN fed'
                                      ELSE request.length - 1)
    BY <1>1 DEF ScoredOK
  <2>1. scored = Count(fed)
    BY <1>1, <1>3 DEF IInv, ScoredOK, Active, Steps
  <2>2. /\ NumTargets \in Nat
        /\ fed + NumTargets = IF fed' < request.length THEN fed' ELSE request.length - 1
    <3>1. PICK n \in Nat : n = PassLength
      BY <1>3
    <3>2. PICK m \in Nat : m = request.length
      BY <1>3
    <3>3. fed' = fed + n /\ fed + n <= m /\ fed < m
      BY <1>1, <1>3, <3>1, <3>2
    <3>4. NumTargets = (IF fed + n < m - 1 THEN fed + n ELSE m - 1) - fed
      BY <3>1, <3>2 DEF NumTargets
    <3>5. /\ NumTargets \in Nat
          /\ fed + NumTargets = IF fed + n < m THEN fed + n ELSE m - 1
      BY <1>3, <3>3, <3>4
    <3> QED
      BY <3>2, <3>3, <3>5
  <2>3. scored' = Count(fed + NumTargets)
    BY <1>1, <1>3, <2>1, <2>2, CountOn
  <2> QED
    BY <2>2, <2>3
<1> QED
  BY <1>2, <1>5, <1>6, <1>7, <1>8, <1>9 DEF IInv

LEMMA AllocateStep ==
  ASSUME IInv, Allocate
  PROVE  IInv'
<1>1. PICK cap : config' = [config EXCEPT !.cap = cap] /\ Enforce(layers, cap, Layers)
  BY DEF Allocate
<1>2. /\ pc = "allocate" /\ pc' = "ready"
      /\ UNCHANGED <<policy, backend, autoEnforce, deferred, request, fed, scored,
                     cursor, log>>
  BY DEF Allocate
<1>3. pc \in Active /\ pc' \in Active
  BY <1>2 DEF Active, Steps
<1>4. Fixed' /\ Blocks'
  BY <1>2 DEF IInv, Fixed, Blocks, Steps
<1>5. Progress' /\ request.allocation # "none"
  BY <1>2 DEF IInv, Progress, Passing
<1>6. /\ StoreOK(layers')
      /\ \A i \in Layers : Trimmed(layers[i], layers'[i], cap[i])
  BY <1>1, EnforceOK DEF IInv, Fixed
<1>7. InStep'
  <2>1. \A i \in Layers : Added(i) = 0 /\ Added(i)' = 0
    BY <1>2 DEF Added
  <2>2. \A i \in Layers : layers'[i].next = layers[i].next
    BY <1>6 DEF Trimmed
  <2> QED
    BY <1>2, <1>3, <2>1, <2>2 DEF IInv, InStep
<1>8. LogOK'
  BY <1>2 DEF IInv, LogOK, EntryOK
<1>9. Fresh'
  <2>1. ASSUME NEW i \in Layers, Len(log[i]) = 0
        PROVE  Size(layers'[i]) = 0 /\ layers'[i].next = 0
    <3>1. Size(layers[i]) = 0 /\ layers[i].next = 0
      BY <1>3, <2>1 DEF IInv, Fresh
    <3> QED
      BY <1>6, <3>1 DEF Trimmed
  <2> QED
    BY <1>2, <2>1 DEF Fresh
<1>10. Even'
  BY <1>2, <1>5 DEF Even, OneBudgetThroughout
<1>11. ScoredOK'
  BY <1>2, <1>3 DEF IInv, ScoredOK
<1> QED
  BY <1>4, <1>5, <1>6, <1>7, <1>8, <1>9, <1>10, <1>11 DEF IInv

\* One more element at the end.
LEMMA Appended ==
  ASSUME NEW x, IsSeq(x), NEW v
  PROVE  /\ IsSeq(Append(x, v))
         /\ Len(Append(x, v)) = Len(x) + 1
         /\ Append(x, v)[Len(x) + 1] = v
         /\ \A e \in 1 .. Len(x) : Append(x, v)[e] = x[e]
<1> DEFINE y == Append(x, v)
           S == {x[j] : j \in DOMAIN x} \cup {v}
<1>1. /\ x \in Seq({x[j] : j \in DOMAIN x}) /\ Len(x) \in Nat
      /\ x \in [1 .. Len(x) -> {x[j] : j \in DOMAIN x}]
  BY LenProperties DEF IsSeq
<1>2. x \in Seq(S) /\ v \in S
  BY <1>1
<1>3. /\ y \in Seq(S) /\ Len(y) = Len(x) + 1
      /\ y[Len(x) + 1] = v
      /\ \A e \in 1 .. Len(x) : y[e] = x[e]
  <2> HIDE DEF S
  <2> QED
    BY <1>1, <1>2, AppendProperties
<1> HIDE DEF y
<1>4. Len(x) + 1 \in Nat /\ y = [k \in 1 .. Len(x) + 1 |-> y[k]]
  <2> HIDE DEF S
  <2> QED
    BY <1>1, <1>3, LenProperties
<1>5. IsSeq(y)
  BY <1>4, FunctionIsSeq
<1> QED
  BY <1>1, <1>3, <1>5 DEF y

\* A layer of len tokens that was handed the n tokens from fed on.
Handed(m, len, n) ==
  /\ MetaOK(m)
  /\ m.next = fed + n
  /\ Len(m.positions) = len + n
  /\ \A k \in 1 .. n : m.positions[len + k] = fed + k - 1

\* The keys, by position, that the queries of the pass attend in such a layer.
KeysOf(m, focus) ==
  [q \in Queries |-> IF Attended(m, focus)[q] = 0 THEN -1
                     ELSE m.positions[Attended(m, focus)[q]]]

\* Every query of a pass finds its own key, whatever was evicted before; the
\* key it attends is no later one where the mask goes by position, in the first
\* pass of a request, whose slots are its positions, and in a pass of one token.
LEMMA AttendedOK ==
  ASSUME NEW n \in Nat \ {0}, fed \in Nat, Queries = fed .. fed + n - 1,
         backend \in {"synthetic", "hf"},
         NEW m, NEW len \in Nat, Handed(m, len, n),
         NEW focus, NEW e, e = 1 => len = 0 /\ fed = 0
  PROVE  EntryOK(KeysOf(m, focus), e)
<1> DEFINE keys == KeysOf(m, focus)
<1>0. /\ MetaOK(m) /\ m.next = fed + n /\ Len(m.positions) = len + n
      /\ \A k \in 1 .. n : m.positions[len + k] = fed + k - 1
  BY DEF Handed
<1>1. m.positions \in Seq(Nat) /\ Placed(m)
  BY <1>0 DEF MetaOK
<1>2. /\ DOMAIN m.positions = 1 .. Len(m.positions)
      /\ Len(m.positions) \in Nat
      /\ \A s \in 1 .. Len(m.positions) : m.positions[s] \in Nat
  BY <1>1, LenProperties
<1>3. \A s \in 1 .. Len(m.positions) :
        s - 1 <= m.positions[s] /\ m.positions[s] < fed + n
  BY <1>0, <1>1 DEF Placed
<1> SUFFICES ASSUME NEW q \in Queries
             PROVE  /\ keys[q] >= 0
                    /\ backend = "synthetic" \/ e = 1 \/ Cardinality(Queries) = 1
                         => keys[q] <= q
  BY DEF EntryOK, KeysOf
<1> DEFINE a == Attended(m, focus)[q]
<1>4. q \in Nat /\ fed <= q /\ q <= fed + n - 1
  OBVIOUS
<1>5. keys[q] = IF a = 0 THEN -1 ELSE m.positions[a]
  BY DEF KeysOf
<1> HIDE DEF keys
<1>6. CASE focus \in Visible(m, q)
  <2>1. a = focus
    BY <1>6 DEF Attended
  <2>2. /\ a \in 1 .. Len(m.positions)
        /\ backend = "hf" => a - 1 <= q
        /\ backend # "hf" => m.positions[a] <= q
    BY <1>2, <1>6, <2>1 DEF Visible
  <2> HIDE DEF a
  <2>3. keys[q] = m.positions[a] /\ m.positions[a] \in Nat /\ m.positions[a] < fed + n
    <3>1. a # 0
      BY <2>2
    <3> QED
      BY <1>2, <1>3, <1>5, <2>2, <3>1
  <2>4. CASE backend = "synthetic"
    BY <2>2, <2>3, <2>4
  <2>5. CASE e = 1 /\ backend = "hf"
    <3>1. len = 0 /\ fed = 0
      BY <2>5
    <3>2. a \in 1 .. n /\ m.positions[0 + a] = 0 + a - 1
      BY <1>0, <2>2, <3>1
    <3>3. m.positions[a] = a - 1
      BY <3>2
    <3> QED
      BY <2>2, <2>3, <2>5, <3>3
  <2>6. CASE Cardinality(Queries) = 1
    <3>1. Cardinality(fed .. fed + n - 1) = n
      <4>1. fed \in Int /\ fed + n - 1 \in Int /\ ~(fed > fed + n - 1)
        OBVIOUS
      <4>2. Cardinality(fed .. fed + n - 1) = (fed + n - 1) - fed + 1
        BY <4>1, FS_Interval
      <4> QED
        BY <4>2
    <3>2. n = 1
      BY <2>6, <3>1
    <3> QED
      BY <1>4, <2>3, <3>2
  <2> QED
    BY <2>3, <2>4, <2>5, <2>6
<1>7. CASE focus \notin Visible(m, q)
  <2>1. PICK k \in 1 .. n : k = q - fed + 1
    <3>1. q - fed + 1 \in 1 .. n
      BY <1>4
    <3> QED
      BY <3>1
  <2> DEFINE own == len + k
  <2>2. own \in 1 .. Len(m.positions) /\ m.positions[own] = q
    <3>1. m.positions[own] = fed + k - 1
      BY <1>0
    <3> HIDE DEF own
    <3>2. m.positions[own] = q
      BY <1>4, <2>1, <3>1
    <3>3. own \in 1 .. Len(m.positions)
      BY <1>0 DEF own
    <3> QED
      BY <3>2, <3>3
  <2>3. own \in Own(m, q) /\ own \in Visible(m, q)
    <3> HIDE DEF own
    <3>1. own - 1 <= q /\ m.positions[own] <= q
      <4>1. own - 1 <= m.positions[own]
        BY <1>3, <2>2
      <4> QED
        BY <1>4, <2>2, <4>1
    <3> QED
      BY <1>2, <2>2, <3>1 DEF Own, Visible
  <2>4. a = CHOOSE s \in Own(m, q) : TRUE
    <3> HIDE DEF own
    <3>1. Own(m, q) \cap Visible(m, q) # {}
      BY <2>3
    <3> QED
      BY <1>7, <3>1 DEF Attended
  <2>5. a \in Own(m, q)
    <3> HIDE DEF own, a
    <3> QED
      BY <2>3, <2>4
  <2>6. a # 0 /\ m.positions[a] = q
    <3> HIDE DEF own, a
    <3> QED
      BY <1>2, <2>5 DEF Own
  <2> QED
    BY <1>4, <1>5, <2>6
<1> QED
  BY <1>6, <1>7

\* The layer that a pass has reached, once its rows are appended.
Grown == AppendRows(layers[cursor], layers[cursor].next, PassLength)

\* What the pass does to it: the enforcement being put off, the rows are all
\* there when its attention is read.
LEMMA AttendShape ==
  ASSUME IInv, NEW focus, Attend(focus)
  PROVE  /\ pc = "forward" /\ pc \in Passing /\ pc \in Active
         /\ PassLength \in Nat \ {0} /\ fed \in Nat /\ fed < request.length
         /\ request \in Requests /\ Queries = fed .. fed + PassLength - 1
         /\ cursor \in 1 .. NumLayers /\ cursor \in Layers /\ cursor \in Nat
         /\ NumLayers \in Nat
         /\ backend \in {"synthetic", "hf"}
         /\ MetaOK(layers[cursor]) /\ Size(layers[cursor]) \in Nat
         /\ layers[cursor].next = fed
         /\ MetaOK(Grown) /\ Grown.next = fed + PassLength
         /\ Size(Grown) = Size(layers[cursor]) + PassLength
         /\ \A k \in 1 .. PassLength :
              Grown.positions[Size(layers[cursor]) + k] = fed + k - 1
         /\ UNCHANGED <<setup, autoEnforce, deferred, request, fed, scored, step>>
         /\ layers' = [i \in Layers |-> layers'[i]]
         /\ layers'[cursor] = Grown
         /\ \A i \in Layers : i # cursor => layers'[i] = layers[i]
         /\ attention' = Append(attention, [slots |-> Size(Grown),
                                            attended |-> Attended(Grown, focus)])
         /\ IF cursor < NumLayers
            THEN cursor' = cursor + 1 /\ pc' = "forward"
            ELSE cursor' = 1 /\ pc' = IF Owner THEN "note" ELSE "leave"
         /\ IsSeq(log[cursor]) /\ Len(log[cursor]) \in Nat
         /\ log' = [i \in Layers |-> log'[i]]
         /\ log'[cursor] = Append(log[cursor], [step |-> step,
                                               keys |-> KeysOf(Grown, focus)])
         /\ \A i \in Layers : i # cursor => log'[i] = log[i]
<1> DEFINE n == PassLength
           l == layers[cursor]
           m == AppendRows(l, l.next, n)
           attended == Attended(m, focus)
           keys == KeysOf(m, focus)
<1>1. pc = "forward" /\ pc \in Passing /\ pc \in Active
  BY DEF Attend, Passing, Active, Steps
<1>2. /\ n \in Nat \ {0} /\ fed \in Nat /\ fed < request.length
      /\ request \in Requests /\ Queries = fed .. fed + n - 1
  <2>1. Progress
    BY DEF IInv
  <2> QED
    BY <1>1, <2>1, PassFacts DEF Progress
<1>3. /\ cursor \in 1 .. NumLayers /\ cursor \in Layers /\ cursor \in Nat
      /\ NumLayers \in Nat
      /\ backend \in {"synthetic", "hf"}
  BY LayersAssumption DEF IInv, Fixed, Layers
<1>4. MetaOK(l) /\ Size(l) \in Nat
  BY <1>3, SizeIsNat DEF IInv
<1>5. l.next = fed
  <2>1. Added(cursor) = 0
    BY <1>1, <1>3 DEF Added
  <2>2. l.next = fed + Added(cursor)
    BY <1>1, <1>3 DEF IInv, InStep
  <2> QED
    BY <1>2, <2>1, <2>2
<1>6. /\ MetaOK(m) /\ m.next = fed + n
      /\ Size(m) = Size(l) + n
      /\ \A k \in 1 .. n : m.positions[Size(l) + k] = fed + k - 1
  <2> HIDE DEF n, m, l
  <2>1. /\ MetaOK(m)
        /\ m.next = l.next + n
        /\ Len(m.positions) = Len(l.positions) + n
        /\ \A k \in 1 .. n : m.positions[Len(l.positions) + k] = l.next + k - 1
    BY <1>2, <1>4, AppendRowsOK DEF m
  <2> QED
    BY <1>5, <2>1 DEF Size
<1>7. /\ layers' = [layers EXCEPT ![cursor] = m]
      /\ UNCHANGED <<setup, autoEnforce, deferred, request, fed, scored, step>>
  <2>1. autoEnforce = FALSE
    BY <1>1 DEF IInv, Blocks
  <2>2. FirstPosition(l) = l.next
    BY <1>5 DEF FirstPosition
  <2>3. layers' = [layers EXCEPT ![cursor] = AppendRows(@, FirstPosition(l), PassLength)]
    BY <2>1 DEF Attend
  <2>4. UNCHANGED <<setup, autoEnforce, deferred, request, fed, scored, step>>
    BY DEF Attend, driver
  <2> QED
    BY <2>2, <2>3, <2>4
<1>8. /\ layers' = [i \in Layers |-> layers'[i]]
      /\ layers'[cursor] = m
      /\ \A i \in Layers : i # cursor => layers'[i] = layers[i]
  <2>1. layers = [i \in Layers |-> layers[i]]
    BY DEF IInv, StoreOK
  <2> HIDE DEF m
  <2> QED
    BY <1>3, <1>7, <2>1
<1>10. /\ log' = [log EXCEPT ![cursor] = Append(@, [step |-> step, keys |-> keys])]
       /\ attention' = Append(attention, [slots |-> Size(m), attended |-> attended])
       /\ IF cursor < NumLayers
          THEN cursor' = cursor + 1 /\ pc' = "forward"
          ELSE cursor' = 1 /\ pc' = IF Owner THEN "note" ELSE "leave"
  <2> HIDE DEF m
  <2>1. log' = [log EXCEPT ![cursor] =
                  Append(@, [step |-> step,
                             keys |-> [q \in Queries |->
                                IF Attended(layers'[cursor], focus)[q] = 0 THEN -1
                                ELSE layers'[cursor].positions[
                                       Attended(layers'[cursor], focus)[q]]]])]
    BY DEF Attend
  <2>2. attention' = Append(attention,
                            [slots |-> NumTokens(layers'[cursor]),
                             attended |-> Attended(layers'[cursor], focus)])
    BY DEF Attend
  <2>3. NumTokens(m) = Size(m)
    BY DEF NumTokens, Size
  <2>4. IF cursor < NumLayers
        THEN cursor' = cursor + 1 /\ pc' = "forward"
        ELSE cursor' = 1 /\ pc' = IF Owner THEN "note" ELSE "leave"
    BY DEF Attend
  <2> QED
    BY <1>8, <2>1, <2>2, <2>3, <2>4 DEF KeysOf
<1>11. /\ IsSeq(log[cursor]) /\ Len(log[cursor]) \in Nat
       /\ log' = [i \in Layers |-> log'[i]]
       /\ log'[cursor] = Append(log[cursor], [step |-> step, keys |-> keys])
       /\ \A i \in Layers : i # cursor => log'[i] = log[i]
  <2>1. log = [i \in Layers |-> log[i]] /\ IsSeq(log[cursor])
    BY <1>3 DEF IInv, LogOK
  <2>2. Len(log[cursor]) \in Nat
    BY <2>1, LenProperties DEF IsSeq
  <2> HIDE DEF keys
  <2> QED
    BY <1>3, <1>10, <2>1, <2>2
<1> QED
  BY <1>1, <1>2, <1>3, <1>4, <1>5, <1>6, <1>7, <1>8, <1>10, <1>11 DEF Grown

LEMMA AttendStep ==
  ASSUME IInv, NEW focus, Attend(focus)
  PROVE  IInv'
<1> DEFINE n == PassLength
           l == layers[cursor]
           m == Grown
           attended == Attended(m, focus)
           keys == KeysOf(m, focus)
           e == Len(log[cursor]) + 1
<1>1. pc = "forward" /\ pc \in Passing /\ pc \in Active
  BY AttendShape
<1>2. /\ n \in Nat \ {0} /\ fed \in Nat /\ fed < request.length
      /\ request \in Requests /\ Queries = fed .. fed + n - 1
  BY AttendShape
<1>3. /\ cursor \in 1 .. NumLayers /\ cursor \in Layers /\ cursor \in Nat
      /\ NumLayers \in Nat
      /\ backend \in {"synthetic", "hf"}
  BY AttendShape
<1>4. MetaOK(l) /\ Size(l) \in Nat /\ l.next = fed
  BY AttendShape
<1>5. /\ MetaOK(m) /\ m.next = fed + n
      /\ Size(m) = Size(l) + n
      /\ \A k \in 1 .. n : m.positions[Size(l) + k] = fed + k - 1
  BY AttendShape
<1>6. UNCHANGED <<setup, autoEnforce, deferred, request, fed, scored>>
  BY AttendShape
<1>7. /\ layers' = [i \in Layers |-> layers'[i]]
      /\ layers'[cursor] = m
      /\ \A i \in Layers : i # cursor => layers'[i] = layers[i]
  BY AttendShape
<1>8. /\ attention' = Append(attention, [slots |-> Size(m), attended |-> attended])
      /\ IF cursor < NumLayers
         THEN cursor' = cursor + 1 /\ pc' = "forward"
         ELSE cursor' = 1 /\ pc' = IF Owner THEN "note" ELSE "leave"
  BY AttendShape
<1>9. /\ IsSeq(log[cursor]) /\ Len(log[cursor]) \in Nat
      /\ log' = [i \in Layers |-> log'[i]]
      /\ log'[cursor] = Append(log[cursor], [step |-> step, keys |-> keys])
      /\ \A i \in Layers : i # cursor => log'[i] = log[i]
  BY AttendShape
<1> HIDE DEF m, keys, attended
<1>10. StoreOK(layers')
  BY <1>5, <1>7 DEF IInv, StoreOK
<1>11. /\ IsSeq(log'[cursor]) /\ Len(log'[cursor]) = e
       /\ log'[cursor][e].keys = keys
       /\ \A f \in 1 .. Len(log[cursor]) : log'[cursor][f] = log[cursor][f]
  <2> DEFINE v == [step |-> step, keys |-> keys]
  <2>1. v.keys = keys
    OBVIOUS
  <2> HIDE DEF v
  <2>2. log'[cursor] = Append(log[cursor], v)
    BY <1>9 DEF v
  <2>3. /\ IsSeq(log'[cursor]) /\ Len(log'[cursor]) = Len(log[cursor]) + 1
        /\ log'[cursor][Len(log[cursor]) + 1] = v
        /\ \A f \in 1 .. Len(log[cursor]) : log'[cursor][f] = log[cursor][f]
    <3>1. IsSeq(log[cursor])
      BY <1>9
    <3>2. /\ IsSeq(Append(log[cursor], v))
          /\ Len(Append(log[cursor], v)) = Len(log[cursor]) + 1
          /\ Append(log[cursor], v)[Len(log[cursor]) + 1] = v
          /\ \A f \in 1 .. Len(log[cursor]) :
               Append(log[cursor], v)[f] = log[cursor][f]
      BY <3>1, Appended
    <3> QED
      BY <2>2, <3>2
  <2> HIDE DEF keys
  <2> QED
    BY <2>1, <2>3
<1>12. EntryOK(keys, e)
  <2>1. e = 1 => Size(l) = 0 /\ fed = 0
    BY <1>1, <1>3, <1>4, <1>9 DEF IInv, Fresh
  <2> HIDE DEF n, m, l, e
  <2>2. Handed(m, Size(l), n)
    BY <1>5 DEF Handed, Size
  <2> QED
    BY <1>2, <1>3, <1>4, <2>1, <2>2, AttendedOK DEF keys
<1> HIDE DEF n, l, e
<1>13. LogOK'
  <2>1. backend' = backend
    BY <1>6 DEF setup
  <2>2. ASSUME NEW i \in Layers
        PROVE  /\ IsSeq(log'[i])
               /\ \A f \in 1 .. Len(log'[i]) : EntryOK(log'[i][f].keys, f)
    <3>1. CASE i = cursor
      <4>1. \A f \in 1 .. Len(log[cursor]) : EntryOK(log[cursor][f].keys, f)
        BY <1>3 DEF IInv, LogOK
      <4>2. ASSUME NEW f \in 1 .. Len(log'[cursor])
            PROVE  EntryOK(log'[cursor][f].keys, f)
        <5>1. f \in 1 .. Len(log[cursor]) \/ f = e
          BY <1>9, <1>11 DEF e
        <5> QED
          BY <1>11, <1>12, <4>1, <5>1
      <4> QED
        BY <1>11, <3>1, <4>2
    <3>2. CASE i # cursor
      BY <1>9, <3>2 DEF IInv, LogOK
    <3> QED
      BY <3>1, <3>2
  <2> QED
    BY <1>9, <2>1, <2>2 DEF LogOK, EntryOK
<1>14. /\ pc' \in {"forward", "note", "leave"} /\ pc' \in Active /\ pc' \in Passing
       /\ cursor' \in Layers
  BY <1>3, <1>8 DEF Active, Steps, Passing, Layers
<1>15. \A i \in Layers : Added(i)' = IF i = cursor THEN n ELSE Added(i)
  <2>1. PassLength' = n
    BY <1>6 DEF PassLength, n
  <2>2. \A i \in Layers : i \in Nat /\ i <= NumLayers
    BY <1>3 DEF Layers
  <2>3. \A i \in Layers : Added(i) = IF i < cursor THEN n ELSE 0
    BY <1>1 DEF Added, n
  <2>4. \A i \in Layers :
          Added(i)' = IF pc' \in {"note", "leave"} \/ (pc' = "forward" /\ i < cursor')
                      THEN n ELSE 0
    BY <1>14, <2>1 DEF Added
  <2>5. CASE cursor < NumLayers
    <3>1. cursor' = cursor + 1 /\ pc' = "forward"
      BY <1>8, <2>5
    <3> QED
      BY <1>3, <2>2, <2>3, <2>4, <3>1
  <2>6. CASE ~(cursor < NumLayers)
    <3>1. cursor = NumLayers /\ pc' \in {"note", "leave"}
      BY <1>3, <1>8, <2>6
    <3> QED
      BY <1>3, <2>2, <2>3, <2>4, <3>1
  <2> QED
    BY <2>5, <2>6
<1>16. Fixed'
  BY <1>6, <1>14 DEF IInv, Fixed, setup, Active
<1>17. Blocks'
  <2>1. /\ deferred = IF request.caller = "direct" THEN <<TRUE>> ELSE <<TRUE, FALSE>>
        /\ autoEnforce = FALSE
    BY <1>1 DEF IInv, Blocks
  <2>2. Owner => request.caller = "direct" /\ deferred = <<TRUE>>
    <3>1. CASE request.caller = "direct"
      BY <2>1, <3>1
    <3>2. CASE request.caller # "direct"
      <4>1. Len(deferred) = 2
        BY <2>1, <3>2, BlockTuples
      <4> QED
        BY <4>1 DEF Owner
    <3> QED
      BY <3>1, <3>2
  <2>3. pc' = "note" => Owner
    BY <1>8
  <2> QED
    BY <1>6, <1>14, <2>1, <2>2, <2>3 DEF Blocks
<1>18. Progress'
  BY <1>1, <1>6, <1>14 DEF IInv, Progress
<1>19. InStep'
  <2>1. ASSUME NEW i \in Layers
        PROVE  layers'[i].next = fed + Added(i)'
    <3>1. CASE i = cursor
      BY <1>5, <1>7, <1>15, <3>1
    <3>2. CASE i # cursor
      BY <1>1, <1>7, <1>15, <3>2 DEF IInv, InStep
    <3> QED
      BY <3>1, <3>2
  <2> QED
    BY <1>6, <2>1 DEF InStep
<1>20. Fresh'
  <2>1. ASSUME NEW i \in Layers, Len(log'[i]) = 0
        PROVE  Size(layers'[i]) = 0 /\ layers'[i].next = 0
    <3>1. i # cursor
      BY <1>9, <1>11, <2>1 DEF e
    <3> QED
      BY <1>1, <1>7, <1>9, <2>1, <3>1 DEF IInv, Fresh
  <2> QED
    BY <2>1 DEF Fresh
<1>21. Even'
  <2>1. OneBudgetThroughout' = OneBudgetThroughout
    BY <1>6 DEF OneBudgetThroughout, setup
  <2>2. ASSUME NEW i \in Layers
        PROVE  Size(layers'[i]) - Added(i)' = Size(layers[i]) - Added(i)
    <3>1. CASE i = cursor
      <4>1. Added(cursor) = 0
        BY <1>1, <1>3 DEF Added
      <4> QED
        BY <1>2, <1>4, <1>5, <1>7, <1>15, <3>1, <4>1 DEF l
    <3>2. CASE i # cursor
      BY <1>7, <1>15, <3>2
    <3> QED
      BY <3>1, <3>2
  <2>3. OneBudgetThroughout => \A i, j \in Layers :
          Size(layers'[i]) - Added(i)' = Size(layers'[j]) - Added(j)'
    BY <1>1, <2>2 DEF IInv, Even
  <2>4. /\ IsSeq(attention) /\ Len(attention) = cursor - 1
        /\ cursor > 1 => attention[1].slots = Size(layers[1])
    BY <1>1 DEF IInv, Even
  <2>5. PICK v : v = [slots |-> Size(m), attended |-> attended]
    OBVIOUS
  <2>6. /\ IsSeq(attention') /\ Len(attention') = Len(attention) + 1
        /\ attention'[Len(attention) + 1] = v
        /\ \A f \in 1 .. Len(attention) : attention'[f] = attention[f]
    <3>1. attention' = Append(attention, v) /\ IsSeq(attention)
      BY <1>8, <2>4, <2>5
    <3>2. /\ IsSeq(Append(attention, v))
          /\ Len(Append(attention, v)) = Len(attention) + 1
          /\ Append(attention, v)[Len(attention) + 1] = v
          /\ \A f \in 1 .. Len(attention) : Append(attention, v)[f] = attention[f]
      BY <3>1, Appended
    <3> QED
      BY <3>1, <3>2
  <2>7. Len(attention') = cursor
    BY <1>3, <2>4, <2>6
  <2>8. attention'[1].slots = Size(layers'[1])
    <3>1. 1 \in Layers
      BY <1>3 DEF Layers
    <3>2. CASE cursor = 1
      <4>1. Len(attention) + 1 = 1 /\ v.slots = Size(m)
        BY <2>4, <2>5, <3>2
      <4> QED
        BY <1>7, <2>6, <3>2, <4>1
    <3>3. CASE cursor # 1
      <4>1. cursor > 1 /\ 1 \in 1 .. Len(attention)
        BY <1>3, <2>4, <3>3
      <4> QED
        BY <1>7, <2>4, <2>6, <3>1, <3>3, <4>1
    <3> QED
      BY <3>2, <3>3
  <2>9. pc' = "forward" => cursor' = cursor + 1
    BY <1>8
  <2>10. pc' = "forward" => Len(attention') = cursor' - 1
    BY <1>3, <2>7, <2>9
  <2> QED
    BY <2>1, <2>3, <2>6, <2>8, <2>10 DEF Even
<1>22. ScoredOK'
  BY <1>1, <1>6 DEF IInv, ScoredOK
<1> QED
  BY <1>10, <1>13, <1>16, <1>17, <1>18, <1>19, <1>20, <1>21, <1>22 DEF IInv

LEMMA StutteringStep ==
  ASSUME IInv, UNCHANGED vars
  PROVE  IInv'
<1>1. UNCHANGED <<policy, backend, config, layers, autoEnforce, deferred, request, fed,
                  scored, pc, cursor, attention, log>>
  BY DEF vars, setup, cache, driver
<1>2. Fixed' /\ Blocks' /\ Progress'
  BY <1>1 DEF IInv, Fixed, Blocks, Progress
<1>3. \A i \in Layers : Added(i)' = Added(i)
  BY <1>1 DEF Added, PassLength
<1>4. StoreOK(layers') /\ InStep'
  BY <1>1, <1>3 DEF IInv, InStep
<1>5. LogOK' /\ Fresh'
  BY <1>1 DEF IInv, LogOK, EntryOK, Fresh
<1>6. Even'
  BY <1>1, <1>3 DEF IInv, Even, OneBudgetThroughout
<1>7. ScoredOK'
  BY <1>1 DEF IInv, ScoredOK
<1> QED
  BY <1>2, <1>4, <1>5, <1>6, <1>7 DEF IInv

LEMMA StepPreserves == IInv /\ [Next]_vars => IInv'
<1> SUFFICES ASSUME IInv, [Next]_vars PROVE IInv'
  OBVIOUS
<1>1. ASSUME NEW r \in Requests, Start(r) PROVE IInv'
  BY <1>1, StartStep
<1>2. CASE OpenCall
  BY <1>2, OpenCallStep
<1>3. CASE OpenModel
  BY <1>3, OpenModelStep
<1>4. ASSUME NEW focus \in 1 .. MaxLength, Attend(focus) PROVE IInv'
  BY <1>4, AttendStep
<1>5. CASE ModelNotes \/ Absorb
  BY <1>5, NoteStep
<1>6. CASE CloseModel
  BY <1>6, CloseModelStep
<1>7. CASE CloseCall
  BY <1>7, CloseCallStep
<1>8. CASE Allocate
  BY <1>8, AllocateStep
<1>9. CASE Raise
  BY <1>9, RaiseStep
<1>10. CASE Unwind
  BY <1>10, UnwindStep
<1>11. CASE Finish
  BY <1>11, FinishStep
<1>12. CASE Rest \/ UNCHANGED vars
  BY <1>12, StutteringStep DEF Rest
<1> QED
  BY <1>1, <1>2, <1>3, <1>4, <1>5, <1>6, <1>7, <1>8, <1>9, <1>10, <1>11, <1>12 DEF Next

LEMMA AlwaysIInv == Spec => []IInv
BY InitOK, StepPreserves, PTL DEF Spec

-----------------------------------------------------------------------------
(***************************************************************************)
(* Sums.  A fold over a set takes its elements one by one, in the order    *)
(* CHOOSE picks them; what follows shows that it is the sum, by induction  *)
(* on the subsets of a finite set.                                         *)
(***************************************************************************)

\* Induction on the subsets of a finite set, for a set P of subsets: the
\* strict inclusion is well-founded, so a smallest subset outside P exists.
LEMMA SubsetInduction ==
  ASSUME NEW L, IsFiniteSet(L), NEW P,
         \A s \in SUBSET L : (\A t \in SUBSET s : t # s => t \in P) => s \in P
  PROVE  \A s \in SUBSET L : s \in P
<1> DEFINE out == {s \in SUBSET L : s \notin P}
<1>1. FiniteSubsetsOf(L) = SUBSET L
  BY FS_FiniteSubsetsOfFinite
<1>2. IsWellFoundedOn(StrictSubsetOrdering(L), SUBSET L)
  BY <1>1, FS_StrictSubsetOrderingWellFounded
<1>3. CASE out # {}
  <2>1. PICK s \in out :
          \A t \in out : ~ (<<t, s>> \in StrictSubsetOrdering(L))
    <3>1. out \subseteq SUBSET L
      OBVIOUS
    <3> HIDE DEF out
    <3> QED BY <1>2, <1>3, <3>1, WFMin
  <2>2. \A t \in SUBSET s : t # s => t \in P
    BY <2>1 DEF StrictSubsetOrdering
  <2> QED BY <2>1, <2>2
<1> QED BY <1>3

Pick(s) == CHOOSE x \in s : TRUE

\* g lists, for every subset of S, the sum of F over it.
IsSum(g, F, S) ==
  g = [s \in SUBSET S |-> IF s = {} THEN 0 ELSE F[Pick(s)] + g[s \ {Pick(s)}]]

Sum(F, S) == (CHOOSE g : IsSum(g, F, S))[S]

LEMMA PickIn == ASSUME NEW s, s # {} PROVE Pick(s) \in s
BY DEF Pick

LEMMA SumRule ==
  ASSUME NEW S, NEW F, NEW g, IsSum(g, F, S)
  PROVE  /\ g[{}] = 0
         /\ \A s \in SUBSET S : s # {} => /\ Pick(s) \in S
                                          /\ s \ {Pick(s)} \in SUBSET s
                                          /\ s \ {Pick(s)} # s
                                          /\ g[s] = F[Pick(s)] + g[s \ {Pick(s)}]
<1>1. \A s \in SUBSET S :
        g[s] = IF s = {} THEN 0 ELSE F[Pick(s)] + g[s \ {Pick(s)}]
  BY DEF IsSum
<1> QED BY <1>1, PickIn

\* Two lists of sums agree wherever both are defined.
LEMMA SumUnique ==
  ASSUME NEW S, IsFiniteSet(S), NEW T, NEW F,
         NEW g, IsSum(g, F, S), NEW h, IsSum(h, F, T)
  PROVE  \A s \in SUBSET S : s \in SUBSET T => g[s] = h[s]
<1> DEFINE P == {s \in SUBSET S : s \in SUBSET T => g[s] = h[s]}
<1>1. ASSUME NEW s \in SUBSET S, \A t \in SUBSET s : t # s => t \in P
      PROVE  s \in P
  <2>1. CASE s = {}
    BY <2>1, SumRule
  <2>2. CASE s # {} /\ s \in SUBSET T
    <3>1. /\ s \ {Pick(s)} \in SUBSET s /\ s \ {Pick(s)} # s
          /\ g[s] = F[Pick(s)] + g[s \ {Pick(s)}]
          /\ h[s] = F[Pick(s)] + h[s \ {Pick(s)}]
      BY <2>2, SumRule
    <3>2. g[s \ {Pick(s)}] = h[s \ {Pick(s)}]
      BY <1>1, <2>2, <3>1
    <3> QED BY <3>1, <3>2
  <2>3. CASE s \notin SUBSET T
    BY <2>3
  <2> QED BY <2>1, <2>2, <2>3
<1> HIDE DEF P
<1>2. \A s \in SUBSET S : s \in P
  BY <1>1, SubsetInduction
<1> QED BY <1>2 DEF P

\* Every function has its sums over a finite set.
LEMMA SumExists ==
  ASSUME NEW S, IsFiniteSet(S), NEW F
  PROVE  \E g : IsSum(g, F, S)
<1> DEFINE P == {s \in SUBSET S : \E g : IsSum(g, F, s)}
           V(s) == (CHOOSE g : IsSum(g, F, s))[s]
<1>1. ASSUME NEW s \in SUBSET S, \A t \in SUBSET s : t # s => t \in P
      PROVE  s \in P
  <2>1. ASSUME NEW t \in SUBSET s, t # s
        PROVE  V(t) = IF t = {} THEN 0 ELSE F[Pick(t)] + V(t \ {Pick(t)})
    <3> DEFINE g == CHOOSE g : IsSum(g, F, t)
               u == t \ {Pick(t)}
               h == CHOOSE h : IsSum(h, F, u)
    <3>1. IsSum(g, F, t)
      BY <1>1, <2>1
    <3>2. CASE t = {}
      BY <3>1, <3>2, SumRule
    <3>3. CASE t # {}
      <4>1. u \in SUBSET t /\ u # t /\ g[t] = F[Pick(t)] + g[u]
        BY <3>1, <3>3, SumRule
      <4>2. u \in P
        BY <1>1, <2>1, <4>1
      <4>3. IsSum(h, F, u)
        BY <4>2
      <4>4. IsFiniteSet(t)
        BY <2>1, FS_Subset
      <4>5. g[u] = h[u]
        <5> HIDE DEF g, h, u
        <5> QED BY <3>1, <4>1, <4>3, <4>4, SumUnique
      <4> QED BY <3>3, <4>1, <4>5
    <3> QED BY <3>2, <3>3
  <2> DEFINE k == [t \in SUBSET s |->
                     IF t = {} THEN 0 ELSE F[Pick(t)] + V(t \ {Pick(t)})]
  <2> HIDE DEF V
  <2>2. ASSUME NEW t \in SUBSET s, t # {}
        PROVE  k[t \ {Pick(t)}] = V(t \ {Pick(t)})
    <3>1. t \ {Pick(t)} \in SUBSET s /\ t \ {Pick(t)} # s
      BY <2>2, PickIn
    <3> QED BY <2>1, <3>1
  <2>3. \A t \in SUBSET s :
          k[t] = IF t = {} THEN 0 ELSE F[Pick(t)] + k[t \ {Pick(t)}]
    BY <2>2
  <2>4. k = [t \in SUBSET s |->
               IF t = {} THEN 0 ELSE F[Pick(t)] + V(t \ {Pick(t)})]
    OBVIOUS
  <2> HIDE DEF k
  <2>5. IsSum(k, F, s)
    BY <2>3, <2>4 DEF IsSum
  <2> QED BY <2>5
<1> HIDE DEF P
<1>2. S \in P
  BY <1>1, SubsetInduction
<1> QED BY <1>2 DEF P

LEMMA SumIs ==
  ASSUME NEW S, IsFiniteSet(S), NEW F
  PROVE  \E g : IsSum(g, F, S) /\ Sum(F, S) = g[S]
BY SumExists DEF Sum

\* What a list of sums says.
SumsOf(g, F, S) ==
  /\ Sum(F, S) = g[S] /\ g[{}] = 0
  /\ \A s \in SUBSET S : s # {} => /\ Pick(s) \in S
                                   /\ s \ {Pick(s)} \in SUBSET s
                                   /\ s \ {Pick(s)} # s
                                   /\ g[s] = F[Pick(s)] + g[s \ {Pick(s)}]

LEMMA SumList ==
  ASSUME NEW S, IsFiniteSet(S), NEW F
  PROVE  \E g : SumsOf(g, F, S)
<1>1. PICK g : IsSum(g, F, S) /\ Sum(F, S) = g[S]
  BY SumIs
<1>2. SumsOf(g, F, S)
  BY <1>1, SumRule DEF SumsOf
<1> QED BY <1>2

LEMMA SumNat ==
  ASSUME NEW S, IsFiniteSet(S), NEW F, \A i \in S : F[i] \in Nat
  PROVE  Sum(F, S) \in Nat
<1>1. PICK g : IsSum(g, F, S) /\ Sum(F, S) = g[S]
  BY SumIs
<1> DEFINE P == {s \in SUBSET S : g[s] \in Nat}
<1>2. ASSUME NEW s \in SUBSET S, \A t \in SUBSET s : t # s => t \in P
      PROVE  s \in P
  <2>1. CASE s = {}
    BY <1>1, <2>1, SumRule
  <2>2. CASE s # {}
    <3>1. /\ Pick(s) \in S
          /\ s \ {Pick(s)} \in SUBSET s /\ s \ {Pick(s)} # s
          /\ g[s] = F[Pick(s)] + g[s \ {Pick(s)}]
      BY <1>1, <2>2, SumRule
    <3>2. g[s \ {Pick(s)}] \in Nat
      BY <1>2, <3>1
    <3>3. F[Pick(s)] \in Nat
      BY <3>1
    <3> QED BY <3>1, <3>2, <3>3
  <2> QED BY <2>1, <2>2
<1> HIDE DEF P
<1>3. S \in P
  BY <1>2, SubsetInduction
<1> QED BY <1>1, <1>3 DEF P

\* The sum of a pointwise sum.
LEMMA SumPlus ==
  ASSUME NEW S, IsFiniteSet(S), NEW F, NEW G, NEW H,
         \A i \in S : F[i] \in Nat /\ G[i] \in Nat /\ H[i] = F[i] + G[i]
  PROVE  Sum(H, S) = Sum(F, S) + Sum(G, S)
<1>1. PICK f : SumsOf(f, F, S)
  BY SumList
<1>2. PICK g : SumsOf(g, G, S)
  BY SumList
<1>3. PICK h : SumsOf(h, H, S)
  BY SumList
<1> DEFINE P == {s \in SUBSET S : /\ f[s] \in Nat /\ g[s] \in Nat
                                  /\ h[s] = f[s] + g[s]}
<1>4. ASSUME NEW s \in SUBSET S, \A t \in SUBSET s : t # s => t \in P
      PROVE  s \in P
  <2>1. CASE s = {}
    BY <1>1, <1>2, <1>3, <2>1 DEF SumsOf
  <2>2. CASE s # {}
    <3> DEFINE x == Pick(s)
               u == s \ {Pick(s)}
    <3>1. /\ x \in S /\ u \in SUBSET s /\ u # s
          /\ f[s] = F[x] + f[u]
          /\ g[s] = G[x] + g[u]
          /\ h[s] = H[x] + h[u]
      <4>1. x \in S /\ u \in SUBSET s /\ u # s /\ f[s] = F[x] + f[u]
        BY <1>1, <2>2 DEF SumsOf
      <4>2. x \in S /\ u \in SUBSET s /\ u # s /\ g[s] = G[x] + g[u]
        BY <1>2, <2>2 DEF SumsOf
      <4>3. x \in S /\ u \in SUBSET s /\ u # s /\ h[s] = H[x] + h[u]
        BY <1>3, <2>2 DEF SumsOf
      <4> HIDE DEF x, u
      <4> QED BY <4>1, <4>2, <4>3
    <3>2. u \in P
      BY <1>4, <3>1
    <3>3. f[u] \in Nat /\ g[u] \in Nat /\ h[u] = f[u] + g[u]
      BY <3>2
    <3>4. F[x] \in Nat /\ G[x] \in Nat /\ H[x] = F[x] + G[x]
      BY <3>1
    <3> HIDE DEF x, u, P
    <3>5. f[s] \in Nat /\ g[s] \in Nat /\ h[s] = f[s] + g[s]
      BY <3>1, <3>3, <3>4
    <3> QED BY <3>5 DEF P
  <2> QED BY <2>1, <2>2
<1> HIDE DEF P
<1>5. S \in P
  BY <1>4, SubsetInduction
<1> QED BY <1>1, <1>2, <1>3, <1>5 DEF P, SumsOf

\* A function that is 0 has the sum 0.
LEMMA SumZero ==
  ASSUME NEW S, IsFiniteSet(S), NEW F, \A i \in S : F[i] = 0
  PROVE  Sum(F, S) = 0
<1>1. \A i \in S : F[i] \in Nat /\ F[i] = F[i] + F[i]
  OBVIOUS
<1> DEFINE n == Sum(F, S)
<1>2. n \in Nat /\ n = n + n
  BY <1>1, SumNat, SumPlus
<1> HIDE DEF n
<1>3. n = 0
  BY <1>2
<1> QED BY <1>3 DEF n

\* A larger function has a larger sum.
LEMMA SumLess ==
  ASSUME NEW S, IsFiniteSet(S), NEW F, NEW G,
         \A i \in S : F[i] \in Nat /\ G[i] \in Nat /\ F[i] <= G[i]
  PROVE  Sum(F, S) \in Nat /\ Sum(G, S) \in Nat /\ Sum(F, S) <= Sum(G, S)
<1> DEFINE D == [i \in S |-> G[i] - F[i]]
<1>1. \A i \in S : D[i] \in Nat /\ G[i] = F[i] + D[i]
  OBVIOUS
<1> HIDE DEF D
<1>2. Sum(G, S) = Sum(F, S) + Sum(D, S)
  BY <1>1, SumPlus
<1>3. Sum(F, S) \in Nat /\ Sum(G, S) \in Nat /\ Sum(D, S) \in Nat
  BY <1>1, SumNat
<1> QED BY <1>2, <1>3

LEMMA SumSame ==
  ASSUME NEW S, IsFiniteSet(S), NEW F, NEW G,
         \A i \in S : F[i] \in Nat /\ F[i] = G[i]
  PROVE  Sum(F, S) = Sum(G, S)
<1>1. /\ Sum(F, S) \in Nat /\ Sum(G, S) \in Nat
      /\ Sum(F, S) <= Sum(G, S) /\ Sum(G, S) <= Sum(F, S)
  <2>1. \A i \in S : F[i] \in Nat /\ G[i] \in Nat /\ F[i] <= G[i] /\ G[i] <= F[i]
    OBVIOUS
  <2> QED BY <2>1, SumLess
<1> QED BY <1>1

\* A function that is n at one point and 0 elsewhere.
LEMMA SumPoint ==
  ASSUME NEW S, IsFiniteSet(S), NEW x \in S, NEW n \in Nat, NEW F,
         \A i \in S : F[i] = IF i = x THEN n ELSE 0
  PROVE  Sum(F, S) = n
<1>1. PICK f : IsSum(f, F, S) /\ Sum(F, S) = f[S]
  BY SumIs
<1> DEFINE P == {s \in SUBSET S : f[s] = IF x \in s THEN n ELSE 0}
<1>2. ASSUME NEW s \in SUBSET S, \A t \in SUBSET s : t # s => t \in P
      PROVE  s \in P
  <2>1. CASE s = {}
    BY <1>1, <2>1, SumRule
  <2>2. CASE s # {}
    <3> DEFINE y == Pick(s)
               u == s \ {Pick(s)}
    <3>1. /\ y \in S /\ u \in SUBSET s /\ u # s
          /\ f[s] = F[y] + f[u]
      BY <1>1, <2>2, SumRule
    <3>2. f[u] = IF x \in u THEN n ELSE 0
      BY <1>2, <3>1
    <3>3. F[y] = IF y = x THEN n ELSE 0
      BY <3>1
    <3>4. (x \in s <=> x = y \/ x \in u) /\ y \notin u
      BY <2>2, PickIn
    <3> HIDE DEF y, u
    <3>5. f[s] = IF x \in s THEN n ELSE 0
      BY <3>1, <3>2, <3>3, <3>4
    <3> QED BY <3>5
  <2> QED BY <2>1, <2>2
<1> HIDE DEF P
<1>3. S \in P
  BY <1>2, SubsetInduction
<1> QED BY <1>1, <1>3 DEF P

\* A function that grew by n at one point.
LEMMA SumBumped ==
  ASSUME NEW S, IsFiniteSet(S), NEW x \in S, NEW n \in Nat, NEW F, NEW G,
         \A i \in S : F[i] \in Nat /\ G[i] = IF i = x THEN F[i] + n ELSE F[i]
  PROVE  Sum(G, S) = Sum(F, S) + n
<1> DEFINE D == [i \in S |-> IF i = x THEN n ELSE 0]
<1>1. \A i \in S : D[i] = IF i = x THEN n ELSE 0
  OBVIOUS
<1> HIDE DEF D
<1>2. \A i \in S : F[i] \in Nat /\ D[i] \in Nat /\ G[i] = F[i] + D[i]
  BY <1>1
<1> QED BY <1>1, <1>2, SumPoint, SumPlus

\* F on s, and nothing elsewhere.
Only(F, s, L) == [i \in L |-> IF i \in s THEN F[i] ELSE 0]

\* The sum over a part is a sum over the whole.
LEMMA SumOnly ==
  ASSUME NEW L, IsFiniteSet(L), NEW F, \A i \in L : F[i] \in Nat,
         NEW S \in SUBSET L
  PROVE  Sum(F, S) = Sum(Only(F, S, L), L)
<1>1. PICK f : IsSum(f, F, L)
  BY SumExists
<1> DEFINE P == {s \in SUBSET L : f[s] = Sum(Only(F, s, L), L)}
<1>2. ASSUME NEW s \in SUBSET L, \A t \in SUBSET s : t # s => t \in P
      PROVE  s \in P
  <2>1. CASE s = {}
    <3> DEFINE G == Only(F, s, L)
    <3>1. \A i \in L : G[i] = 0
      BY <2>1 DEF Only
    <3> HIDE DEF G
    <3>2. Sum(G, L) = 0
      <4>1. PICK g : IsSum(g, G, L) /\ Sum(G, L) = g[L]
        BY SumIs
      <4>2. CASE L = {}
        BY <4>1, <4>2, SumRule
      <4>3. CASE L # {}
        <5>1. PICK x : x \in L
          BY <4>3
        <5>2. \A i \in L : G[i] = IF i = x THEN 0 ELSE 0
          BY <3>1
        <5> QED BY <5>1, <5>2, SumPoint
      <4> QED BY <4>2, <4>3
    <3>3. f[{}] = 0
      BY <1>1, SumRule
    <3> QED BY <2>1, <3>2, <3>3 DEF G
  <2>2. CASE s # {}
    <3> DEFINE x == Pick(s)
               u == s \ {Pick(s)}
               G == Only(F, u, L)
               H == Only(F, s, L)
    <3>1. x \in L /\ u \in SUBSET s /\ u # s /\ f[s] = F[x] + f[u]
      BY <1>1, <2>2, SumRule
    <3>2. f[u] = Sum(G, L)
      BY <1>2, <3>1
    <3>3. x \in s /\ (\A i \in L : i \in s <=> i = x \/ i \in u) /\ x \notin u
      BY <2>2, PickIn
    <3>4. \A i \in L : G[i] \in Nat /\ H[i] = IF i = x THEN G[i] + F[x] ELSE G[i]
      <4> SUFFICES ASSUME NEW i \in L
                   PROVE  G[i] \in Nat /\ H[i] = IF i = x THEN G[i] + F[x] ELSE G[i]
        OBVIOUS
      <4>1. /\ G[i] = (IF i \in u THEN F[i] ELSE 0)
            /\ H[i] = (IF i \in s THEN F[i] ELSE 0)
        BY DEF Only
      <4>2. F[i] \in Nat
        OBVIOUS
      <4>3. x \in s /\ (i \in s <=> i = x \/ i \in u) /\ x \notin u
        BY <3>3
      <4> HIDE DEF x, u, G, H
      <4>4. CASE i = x
        <5>1. i \in s /\ i \notin u
          BY <4>3, <4>4
        <5>2. G[i] = 0 /\ H[i] = F[x] /\ F[x] \in Nat
          BY <4>1, <4>2, <4>4, <5>1
        <5>3. 0 + F[x] = F[x]
          BY <5>2
        <5> QED BY <4>4, <5>2, <5>3
      <4>5. CASE i # x
        BY <4>1, <4>2, <4>3, <4>5
      <4> QED BY <4>4, <4>5
    <3>5. F[x] \in Nat
      BY <3>1
    <3>6. Sum(H, L) = Sum(G, L) + F[x]
      <4> HIDE DEF x, u, G, H
      <4> QED BY <3>1, <3>4, <3>5, SumBumped
    <3>7. Sum(G, L) \in Nat
      <4> HIDE DEF x, u, G, H
      <4>1. \A i \in L : G[i] \in Nat
        BY <3>4
      <4> QED BY <4>1, SumNat
    <3>8. f[s] = Sum(H, L)
      <4> HIDE DEF x, u, G, H
      <4> QED BY <3>1, <3>2, <3>5, <3>6, <3>7
    <3> QED BY <3>8
  <2> QED BY <2>1, <2>2
<1> HIDE DEF P
<1>3. S \in P
  BY <1>2, SubsetInduction
<1>4. f[S] = Sum(Only(F, S, L), L)
  BY <1>3 DEF P
<1>5. IsFiniteSet(S)
  BY FS_Subset
<1>6. PICK g : IsSum(g, F, S) /\ Sum(F, S) = g[S]
  BY <1>5, SumIs
<1>7. f[S] = g[S]
  BY <1>1, <1>6, SumUnique
<1> QED BY <1>4, <1>6, <1>7

\* One more element.
LEMMA SumGrows ==
  ASSUME NEW L, IsFiniteSet(L), NEW F, \A i \in L : F[i] \in Nat,
         NEW S \in SUBSET L, NEW x \in L \ S
  PROVE  /\ Sum(F, S) \in Nat
         /\ Sum(F, S \cup {x}) = Sum(F, S) + F[x]
<1> DEFINE G == Only(F, S, L)
           H == Only(F, S \cup {x}, L)
<1>1. \A i \in L : G[i] \in Nat /\ H[i] = IF i = x THEN G[i] + F[x] ELSE G[i]
  BY DEF Only
<1>2. F[x] \in Nat /\ x \in L
  OBVIOUS
<1>3. Sum(H, L) = Sum(G, L) + F[x]
  <2> HIDE DEF G, H
  <2> QED BY <1>1, <1>2, SumBumped
<1>4. Sum(F, S) = Sum(G, L)
  BY SumOnly
<1>5. S \cup {x} \in SUBSET L
  OBVIOUS
<1>6. Sum(F, S \cup {x}) = Sum(H, L)
  BY <1>5, SumOnly
<1>7. Sum(G, L) \in Nat
  <2> HIDE DEF G
  <2> QED BY <1>1, SumNat
<1> QED BY <1>3, <1>4, <1>6, <1>7

-----------------------------------------------------------------------------
(***************************************************************************)
(* The signals of a layer and the history they are drawn from.             *)
(***************************************************************************)

Distinct(l) ==
  \A s, t \in 1 .. Size(l) : l.positions[s] = l.positions[t] => s = t

\* The mass each pass of a history h gave to position p.
Given(h, p) ==
  [e \in DOMAIN h |-> (Unit \div Cardinality(DOMAIN h[e].keys))
                        * Cardinality(Attenders(h[e].keys, p))]

\* What the first n passes of h amount to, and the passes that brought or,
\* up to the n-th, attended position p.
MassTo(h, p, n) == Sum(Given(h, p), 1 .. n)
HitsTo(h, p, n) == {e \in 1 .. n : Attenders(h[e].keys, p) # {}}
SeenTo(h, p, n) ==
  {e \in DOMAIN h : p \in DOMAIN h[e].keys
                    \/ (e <= n /\ Attenders(h[e].keys, p) # {})}

IsLast(x, h, p, n) ==
  /\ \E e \in SeenTo(h, p, n) : h[e].step = x
  /\ \A e \in SeenTo(h, p, n) : h[e].step <= x

\* The signals of slot s are those of position p after n passes.
SlotReflects(l, s, h, n) ==
  LET p == l.positions[s] IN
  /\ l.cum[s] = MassTo(h, p, n)
  /\ l.hits[s] = Cardinality(HitsTo(h, p, n))
  /\ IsLast(l.lastAccess[s], h, p, n)

Reflects(l, h, n) == \A s \in 1 .. Size(l) : SlotReflects(l, s, h, n)

\* The keys of a pass are of tokens before the next one, and so are the
\* positions it fed.
PassOK(keys, next) ==
  /\ IsFiniteSet(DOMAIN keys)
  /\ Cardinality(DOMAIN keys) \in 1 .. MaxLength
  /\ \A q \in DOMAIN keys : /\ q \in Nat /\ q < next
                             /\ keys[q] \in Int /\ keys[q] < next

History(h, next, now) ==
  /\ IsSeq(h)
  /\ \A e \in 1 .. Len(h) :
       /\ h[e].step \in Nat /\ h[e].step <= now
       /\ PassOK(h[e].keys, next)

LEMMA SeqDomain == ASSUME NEW x, IsSeq(x) PROVE DOMAIN x = 1 .. Len(x) /\ Len(x) \in Nat
BY LenProperties DEF IsSeq

\* A pass gives a token mass exactly if one of its queries attends it.
LEMMA GivenFacts ==
  ASSUME NEW keys, NEW next, PassOK(keys, next), NEW p
  PROVE  LET u == Unit \div Cardinality(DOMAIN keys)
             c == Cardinality(Attenders(keys, p))
         IN /\ u \in Nat /\ c \in Nat /\ u * c \in Nat
            /\ u * c > 0 <=> Attenders(keys, p) # {}
<1> DEFINE d == Cardinality(DOMAIN keys)
           A == Attenders(keys, p)
           u == Unit \div d
           c == Cardinality(A)
<1>1. d \in 1 .. MaxLength /\ IsFiniteSet(DOMAIN keys)
  BY DEF PassOK
<1>2. MaxLength \in Nat /\ Unit \in Nat \ {0} /\ Unit % d = 0
  BY <1>1, BoundsAssumption
<1>3. A \subseteq DOMAIN keys
  BY DEF Attenders
<1>4. IsFiniteSet(A)
  BY <1>1, <1>3, FS_Subset
<1>5. c \in Nat /\ (c = 0 <=> A = {})
  BY <1>4, FS_CardinalityType, FS_EmptySet
<1> HIDE DEF A, c, d
<1>6. d \in Nat \ {0}
  BY <1>1, <1>2
<1>7. u \in Nat /\ u > 0
  <2>1. Unit \in Nat \ {0} /\ Unit % d = 0
    BY <1>2
  <2> QED BY <1>6, <2>1
<1> HIDE DEF u
<1>8. u * c \in Nat /\ (u * c > 0 <=> c # 0)
  <2>1. CASE c = 0
    BY <1>7, <2>1
  <2>2. CASE c # 0
    <3>1. c \in Nat /\ c > 0 /\ u \in Nat /\ u > 0
      BY <1>5, <1>7, <2>2
    <3> QED BY <3>1
  <2> QED BY <2>1, <2>2
<1> QED BY <1>5, <1>7, <1>8 DEF A, c, d, u

LEMMA GivenNat ==
  ASSUME NEW h, NEW next, NEW now, History(h, next, now), NEW p, NEW e \in 1 .. Len(h)
  PROVE  /\ Given(h, p)[e] = (Unit \div Cardinality(DOMAIN h[e].keys))
                               * Cardinality(Attenders(h[e].keys, p))
         /\ Given(h, p)[e] \in Nat
<1>1. e \in DOMAIN h /\ PassOK(h[e].keys, next)
  BY SeqDomain DEF History
<1>2. Given(h, p)[e] = (Unit \div Cardinality(DOMAIN h[e].keys))
                         * Cardinality(Attenders(h[e].keys, p))
  BY <1>1 DEF Given
<1> QED BY <1>1, <1>2, GivenFacts

-----------------------------------------------------------------------------
(***************************************************************************)
(* Evictions move the signals with their tokens.                           *)
(***************************************************************************)

\* Two survivors come from two slots.
LEMMA AscendingDiffer ==
  ASSUME NEW n \in Nat, NEW S \in SUBSET (1 .. n),
         NEW j \in 1 .. Cardinality(S), NEW k \in 1 .. Cardinality(S),
         Ascending(S)[j] = Ascending(S)[k]
  PROVE  j = k
<1> DEFINE Place(s) == Cardinality({t \in S : t <= s})
<1>1. ASSUME NEW i \in 1 .. Cardinality(S)
      PROVE  Place(Ascending(S)[i]) = i
  <2>1. \E s \in S : Place(s) = i
    BY RankOnto
  <2>2. Ascending(S)[i] = CHOOSE s \in S : Place(s) = i
    BY DEF Ascending
  <2> HIDE DEF Place
  <2> QED BY <2>1, <2>2
<1> HIDE DEF Place
<1> QED BY <1>1

\* What an eviction may make of a layer.
Thinned(l, m) ==
  \/ m = l
  \/ \E S \in SUBSET (1 .. Size(l)) : m = KeepSlots(l, S)

\* Every slot that is left has the token and the signals of some slot before.
LEMMA ThinnedSlots ==
  ASSUME NEW l, MetaOK(l), NEW m, Thinned(l, m)
  PROVE  /\ MetaOK(m) /\ m.next = l.next
         /\ \E a \in [1 .. Size(m) -> 1 .. Size(l)] :
              /\ \A j, k \in 1 .. Size(m) : a[j] = a[k] => j = k
              /\ \A k \in 1 .. Size(m) :
                   /\ m.positions[k] = l.positions[a[k]]
                   /\ m.lastAccess[k] = l.lastAccess[a[k]]
                   /\ m.cum[k] = l.cum[a[k]]
                   /\ m.hits[k] = l.hits[a[k]]
<1>1. CASE m = l
  <2> DEFINE a == [k \in 1 .. Size(l) |-> k]
  <2>1. a \in [1 .. Size(m) -> 1 .. Size(l)] /\ \A k \in 1 .. Size(m) : a[k] = k
    BY <1>1
  <2> HIDE DEF a
  <2>2. /\ \A j, k \in 1 .. Size(m) : a[j] = a[k] => j = k
        /\ \A k \in 1 .. Size(m) :
             /\ m.positions[k] = l.positions[a[k]]
             /\ m.lastAccess[k] = l.lastAccess[a[k]]
             /\ m.cum[k] = l.cum[a[k]]
             /\ m.hits[k] = l.hits[a[k]]
    BY <1>1, <2>1
  <2> QED BY <1>1, <2>1, <2>2
<1>2. ASSUME NEW S \in SUBSET (1 .. Size(l)), m = KeepSlots(l, S)
      PROVE  /\ MetaOK(m) /\ m.next = l.next
             /\ \E a \in [1 .. Size(m) -> 1 .. Size(l)] :
                  /\ \A j, k \in 1 .. Size(m) : a[j] = a[k] => j = k
                  /\ \A k \in 1 .. Size(m) :
                       /\ m.positions[k] = l.positions[a[k]]
                       /\ m.lastAccess[k] = l.lastAccess[a[k]]
                       /\ m.cum[k] = l.cum[a[k]]
                       /\ m.hits[k] = l.hits[a[k]]
  <2>1. Size(l) \in Nat
    BY LenProperties DEF MetaOK, Size
  <2>2. /\ MetaOK(m) /\ m.next = l.next /\ Size(m) = Cardinality(S)
    BY <1>2, KeepSlotsOK DEF Size
  <2> DEFINE a == Ascending(S)
  <2>3. /\ a = [k \in 1 .. Size(m) |-> a[k]]
        /\ \A k \in 1 .. Size(m) : a[k] \in 1 .. Size(l)
    <3>1. \A k \in 1 .. Cardinality(S) : Ascending(S)[k] \in S
      BY <2>1, AscendingSlots
    <3>2. Ascending(S) = [k \in 1 .. Cardinality(S) |-> Ascending(S)[k]]
      BY DEF Ascending
    <3> HIDE DEF a
    <3> QED BY <2>2, <3>1, <3>2 DEF a
  <2>4. \A j, k \in 1 .. Size(m) : a[j] = a[k] => j = k
    BY <2>1, <2>2, AscendingDiffer
  <2>5. /\ m.positions = Gather(l.positions, S)
        /\ m.lastAccess = Gather(l.lastAccess, S)
        /\ m.cum = Gather(l.cum, S)
        /\ m.hits = Gather(l.hits, S)
    <3>1. l \in [positions : Seq(Nat), lastAccess : {l.lastAccess}, cum : {l.cum},
                 hits : {l.hits}, next : Nat]
      BY DEF MetaOK
    <3> QED BY <1>2, <3>1 DEF KeepSlots
  <2>6. \A k \in 1 .. Size(m) :
          /\ m.positions[k] = l.positions[a[k]]
          /\ m.lastAccess[k] = l.lastAccess[a[k]]
          /\ m.cum[k] = l.cum[a[k]]
          /\ m.hits[k] = l.hits[a[k]]
    BY <2>2, <2>5 DEF Gather
  <2>7. a \in [1 .. Size(m) -> 1 .. Size(l)]
    <3> HIDE DEF a
    <3> QED BY <2>3
  <2> HIDE DEF a
  <2> QED BY <2>2, <2>4, <2>6, <2>7
<1> QED BY <1>1, <1>2 DEF Thinned

LEMMA ThinnedReflects ==
  ASSUME NEW l, MetaOK(l), Distinct(l), NEW m, Thinned(l, m), NEW h, NEW n
  PROVE  /\ MetaOK(m) /\ m.next = l.next /\ Distinct(m)
         /\ Reflects(l, h, n) => Reflects(m, h, n)
<1>1. /\ MetaOK(m) /\ m.next = l.next
  BY ThinnedSlots
<1>2. PICK a \in [1 .. Size(m) -> 1 .. Size(l)] :
        /\ \A j, k \in 1 .. Size(m) : a[j] = a[k] => j = k
        /\ \A k \in 1 .. Size(m) :
             /\ m.positions[k] = l.positions[a[k]]
             /\ m.lastAccess[k] = l.lastAccess[a[k]]
             /\ m.cum[k] = l.cum[a[k]]
             /\ m.hits[k] = l.hits[a[k]]
  BY ThinnedSlots
<1>3. Distinct(m)
  BY <1>2 DEF Distinct
<1>4. ASSUME Reflects(l, h, n), NEW k \in 1 .. Size(m)
      PROVE  SlotReflects(m, k, h, n)
  <2>1. a[k] \in 1 .. Size(l)
    BY <1>2
  <2>2. SlotReflects(l, a[k], h, n)
    BY <1>4, <2>1 DEF Reflects
  <2> QED BY <1>2, <2>2, Zenon DEF SlotReflects
<1> QED BY <1>1, <1>3, <1>4 DEF Reflects

-----------------------------------------------------------------------------
(***************************************************************************)
(* A pass appends its tokens, with no mass and no hits, seen now.          *)
(***************************************************************************)

LEMMA ExtendedElements ==
  ASSUME NEW x, IsSeq(x), NEW n \in Nat, NEW v
  PROVE  /\ \A s \in 1 .. Len(x) : (x \o Constant(n, v))[s] = x[s]
         /\ \A k \in 1 .. n : (x \o Constant(n, v))[Len(x) + k] = v
<1> DEFINE S == {x[j] : j \in DOMAIN x} \cup {v}
           c == Constant(n, v)
           y == x \o c
<1>1. x \in Seq({x[j] : j \in DOMAIN x})
  BY DEF IsSeq
<1>2. Len(x) \in Nat /\ x \in [1 .. Len(x) -> {x[j] : j \in DOMAIN x}]
  BY <1>1, LenProperties
<1>3. x \in Seq(S)
  BY <1>2
<1>4. c \in Seq(S) /\ Len(c) = n /\ \A k \in 1 .. n : c[k] = v
  <2>1. c \in [1 .. n -> S] /\ \A k \in 1 .. n : c[k] = v
    BY DEF Constant
  <2> QED
    BY <2>1, LenProperties
<1>5. \A i \in 1 .. Len(x) + n : y[i] = IF i <= Len(x) THEN x[i] ELSE c[i - Len(x)]
  <2> HIDE DEF S, c
  <2> QED
    BY <1>3, <1>4, ConcatProperties
<1> HIDE DEF y, c, S
<1>6. ASSUME NEW s \in 1 .. Len(x) PROVE y[s] = x[s]
  <2>1. s \in 1 .. Len(x) + n /\ s <= Len(x)
    BY <1>2
  <2> QED BY <1>5, <2>1
<1>7. ASSUME NEW k \in 1 .. n PROVE y[Len(x) + k] = v
  <2>1. Len(x) + k \in 1 .. Len(x) + n /\ ~(Len(x) + k <= Len(x)) /\ (Len(x) + k) - Len(x) = k
    BY <1>2
  <2> QED BY <1>4, <1>5, <2>1
<1> QED BY <1>6, <1>7 DEF y, c

\* h2 is the history h and a pass that attended keys at step v.
OneMore(h2, h, v, keys) == h2 = Append(h, [step |-> v, keys |-> keys])

\* One more pass leaves what the earlier ones amount to alone.
LEMMA OneMorePass ==
  ASSUME NEW h, NEW next \in Nat, NEW now, History(h, next, now),
         NEW keys, DOMAIN keys \subseteq {q \in Nat : next <= q},
         NEW p \in Nat, p < next, NEW v, NEW h2, OneMore(h2, h, v, keys)
  PROVE  /\ MassTo(h2, p, Len(h)) = MassTo(h, p, Len(h))
         /\ HitsTo(h2, p, Len(h)) = HitsTo(h, p, Len(h))
         /\ \A x : IsLast(x, h, p, Len(h)) => IsLast(x, h2, p, Len(h))
<1> DEFINE n == Len(h)
<1>1. /\ IsSeq(h) /\ n \in Nat /\ DOMAIN h = 1 .. n
  BY SeqDomain DEF History
<1>2. /\ DOMAIN h2 = 1 .. n + 1
      /\ h2[n + 1] = [step |-> v, keys |-> keys]
      /\ \A e \in 1 .. n : h2[e] = h[e]
  <2> DEFINE x == [step |-> v, keys |-> keys]
  <2> HIDE DEF x
  <2>1. h2 = Append(h, x)
    BY DEF x, OneMore
  <2>2. /\ IsSeq(h2) /\ Len(h2) = n + 1 /\ h2[n + 1] = x
        /\ \A e \in 1 .. n : h2[e] = h[e]
    BY <1>1, <2>1, Appended
  <2>3. DOMAIN h2 = 1 .. Len(h2)
    BY <2>2, SeqDomain
  <2> QED BY <2>2, <2>3 DEF x
<1>3. MassTo(h2, p, n) = MassTo(h, p, n)
  <2>1. \A e \in 1 .. n : Given(h, p)[e] \in Nat
    BY GivenNat
  <2>2. \A e \in 1 .. n : Given(h, p)[e] = Given(h2, p)[e]
    BY <1>1, <1>2 DEF Given
  <2>3. IsFiniteSet(1 .. n)
    BY <1>1, FS_Interval
  <2> QED BY <2>1, <2>2, <2>3, SumSame DEF MassTo
<1>4. HitsTo(h2, p, n) = HitsTo(h, p, n)
  BY <1>2 DEF HitsTo
<1>5. SeenTo(h2, p, n) = SeenTo(h, p, n)
  <2>1. p \notin DOMAIN keys
    BY DEF History
  <2>2. n + 1 \notin SeenTo(h2, p, n)
    BY <1>1, <1>2, <2>1 DEF SeenTo
  <2>3. \A e \in 1 .. n : e \in SeenTo(h2, p, n) <=> e \in SeenTo(h, p, n)
    BY <1>1, <1>2 DEF SeenTo
  <2>4. SeenTo(h, p, n) \subseteq 1 .. n /\ SeenTo(h2, p, n) \subseteq 1 .. n + 1
    BY <1>1, <1>2 DEF SeenTo
  <2>5. \A e \in 1 .. n + 1 : e \in 1 .. n \/ e = n + 1
    BY <1>1
  <2> QED BY <2>2, <2>3, <2>4, <2>5
<1>6. ASSUME NEW x, IsLast(x, h, p, n) PROVE IsLast(x, h2, p, n)
  <2>1. \A e \in SeenTo(h, p, n) : h2[e] = h[e]
    BY <1>1, <1>2 DEF SeenTo
  <2> QED BY <1>5, <1>6, <2>1 DEF IsLast
<1> QED BY <1>3, <1>4, <1>6

\* A token that is new has a history of one pass, which brought it.
LEMMA NewToken ==
  ASSUME NEW h, NEW next \in Nat, NEW now, History(h, next, now),
         NEW v \in Nat, NEW p \in Nat, next <= p, NEW keys, p \in DOMAIN keys,
         NEW h2, OneMore(h2, h, v, keys)
  PROVE  /\ MassTo(h2, p, Len(h)) = 0
         /\ HitsTo(h2, p, Len(h)) = {}
         /\ IsLast(v, h2, p, Len(h))
<1> DEFINE n == Len(h)
<1>1. /\ IsSeq(h) /\ n \in Nat /\ DOMAIN h = 1 .. n
  BY SeqDomain DEF History
<1>2. /\ DOMAIN h2 = 1 .. n + 1
      /\ h2[n + 1].step = v /\ h2[n + 1].keys = keys
      /\ \A e \in 1 .. n : h2[e] = h[e]
  <2> DEFINE x == [step |-> v, keys |-> keys]
  <2>0. x.step = v /\ x.keys = keys
    OBVIOUS
  <2> HIDE DEF x
  <2>1. h2 = Append(h, x)
    BY DEF x, OneMore
  <2>2. /\ IsSeq(h2) /\ Len(h2) = n + 1 /\ h2[n + 1] = x
        /\ \A e \in 1 .. n : h2[e] = h[e]
    BY <1>1, <2>1, Appended
  <2>3. DOMAIN h2 = 1 .. Len(h2)
    BY <2>2, SeqDomain
  <2> QED BY <2>0, <2>2, <2>3
<1>3. \A e \in 1 .. n : Attenders(h[e].keys, p) = {} /\ p \notin DOMAIN h[e].keys
  <2> SUFFICES ASSUME NEW e \in 1 .. n
               PROVE  Attenders(h[e].keys, p) = {} /\ p \notin DOMAIN h[e].keys
    OBVIOUS
  <2>1. \A q \in DOMAIN h[e].keys : q < next /\ h[e].keys[q] < next
    BY DEF History, PassOK
  <2>2. ~(p < next)
    OBVIOUS
  <2> QED BY <2>1, <2>2 DEF Attenders
<1>4. MassTo(h2, p, n) = 0
  <2>1. \A e \in 1 .. n : Given(h2, p)[e] = 0
    <3> SUFFICES ASSUME NEW e \in 1 .. n PROVE Given(h2, p)[e] = 0
      OBVIOUS
    <3>1. Given(h2, p)[e] = Given(h, p)[e]
      BY <1>1, <1>2 DEF Given
    <3>2. PassOK(h[e].keys, next)
      BY DEF History
    <3>3. /\ Given(h, p)[e] = (Unit \div Cardinality(DOMAIN h[e].keys))
                               * Cardinality(Attenders(h[e].keys, p))
          /\ Given(h, p)[e] \in Nat
      BY GivenNat
    <3>4. ~(Given(h, p)[e] > 0)
      BY <1>3, <3>2, <3>3, GivenFacts
    <3> QED BY <3>1, <3>3, <3>4
  <2>2. IsFiniteSet(1 .. n)
    BY <1>1, FS_Interval
  <2> QED BY <2>1, <2>2, SumZero DEF MassTo
<1>5. HitsTo(h2, p, n) = {}
  BY <1>2, <1>3 DEF HitsTo
<1>6. SeenTo(h2, p, n) = {n + 1}
  <2>1. n + 1 \in SeenTo(h2, p, n)
    BY <1>1, <1>2 DEF SeenTo
  <2>2. \A e \in 1 .. n : e \notin SeenTo(h2, p, n)
    BY <1>2, <1>3 DEF SeenTo
  <2>3. SeenTo(h2, p, n) \subseteq 1 .. n + 1
    BY <1>2 DEF SeenTo
  <2>4. \A e \in 1 .. n + 1 : e \in 1 .. n \/ e = n + 1
    BY <1>1
  <2> QED BY <2>1, <2>2, <2>3, <2>4
<1>7. IsLast(v, h2, p, n)
  BY <1>2, <1>6 DEF IsLast
<1> QED BY <1>4, <1>5, <1>7

LEMMA AppendedReflects ==
  ASSUME NEW l, MetaOK(l), Distinct(l), NEW n \in Nat \ {0},
         NEW m, m = AppendRows(l, l.next, n), step \in Nat,
         NEW h, History(h, l.next, step),
         NEW keys, DOMAIN keys = l.next .. l.next + n - 1,
         NEW h2, OneMore(h2, h, step, keys)
  PROVE  /\ Distinct(m)
         /\ Reflects(l, h, Len(h)) => Reflects(m, h2, Len(h))
<1> DEFINE len == Size(l)
<1>1. /\ l.positions \in Seq(Nat) /\ l.next \in Nat /\ len \in Nat
      /\ \A s \in 1 .. len : l.positions[s] \in Nat /\ l.positions[s] < l.next
      /\ IsSeq(l.lastAccess) /\ Len(l.lastAccess) = len
      /\ IsSeq(l.cum) /\ Len(l.cum) = len
      /\ IsSeq(l.hits) /\ Len(l.hits) = len
  BY LenProperties DEF MetaOK, Parallel, Placed, Size
<1>2. /\ MetaOK(m) /\ m.next = l.next + n /\ Size(m) = len + n
      /\ \A k \in 1 .. n : m.positions[len + k] = l.next + k - 1
  BY AppendRowsOK DEF Size
<1>3. /\ m.positions = l.positions \o [k \in 1 .. n |-> l.next + k - 1]
      /\ m.lastAccess = l.lastAccess \o Constant(n, step)
      /\ m.cum = l.cum \o Constant(n, 0)
      /\ m.hits = l.hits \o Constant(n, 0)
  BY DEF AppendRows
<1>4. \A s \in 1 .. len : m.positions[s] = l.positions[s]
  <2> DEFINE new == [k \in 1 .. n |-> l.next + k - 1]
  <2>1. new \in [1 .. n -> Nat]
    BY <1>1
  <2> HIDE DEF new
  <2>2. new \in Seq(Nat) /\ m.positions = l.positions \o new
    BY <1>3, <2>1 DEF new
  <2>3. \A s \in 1 .. Len(l.positions) : m.positions[s] = l.positions[s]
    BY <1>1, <2>2, Concatenated
  <2> QED BY <2>3 DEF Size
<1>5. /\ \A s \in 1 .. len : m.lastAccess[s] = l.lastAccess[s]
      /\ \A k \in 1 .. n : m.lastAccess[len + k] = step
  <2>1. n \in Nat /\ IsSeq(l.lastAccess) /\ Len(l.lastAccess) = len
    BY <1>1
  <2>2. /\ \A s \in 1 .. Len(l.lastAccess) : (l.lastAccess \o Constant(n, step))[s] = l.lastAccess[s]
        /\ \A k \in 1 .. n : (l.lastAccess \o Constant(n, step))[Len(l.lastAccess) + k] = step
    BY <2>1, ExtendedElements
  <2> HIDE DEF len
  <2> QED BY <1>3, <2>1, <2>2
<1>6. /\ \A s \in 1 .. len : m.cum[s] = l.cum[s]
      /\ \A k \in 1 .. n : m.cum[len + k] = 0
  <2>1. n \in Nat /\ IsSeq(l.cum) /\ Len(l.cum) = len
    BY <1>1
  <2>2. /\ \A s \in 1 .. Len(l.cum) : (l.cum \o Constant(n, 0))[s] = l.cum[s]
        /\ \A k \in 1 .. n : (l.cum \o Constant(n, 0))[Len(l.cum) + k] = 0
    BY <2>1, ExtendedElements
  <2> HIDE DEF len
  <2> QED BY <1>3, <2>1, <2>2
<1>7. /\ \A s \in 1 .. len : m.hits[s] = l.hits[s]
      /\ \A k \in 1 .. n : m.hits[len + k] = 0
  <2>1. n \in Nat /\ IsSeq(l.hits) /\ Len(l.hits) = len
    BY <1>1
  <2>2. /\ \A s \in 1 .. Len(l.hits) : (l.hits \o Constant(n, 0))[s] = l.hits[s]
        /\ \A k \in 1 .. n : (l.hits \o Constant(n, 0))[Len(l.hits) + k] = 0
    BY <2>1, ExtendedElements
  <2> HIDE DEF len
  <2> QED BY <1>3, <2>1, <2>2
<1>8. ASSUME NEW s \in 1 .. len + n
      PROVE  s \in 1 .. len \/ \E k \in 1 .. n : s = len + k
  <2>1. CASE s \in 1 .. len
    BY <2>1
  <2>2. CASE s \notin 1 .. len
    <3>1. s - len \in 1 .. n /\ s = len + (s - len)
      BY <1>1, <2>2
    <3> QED BY <3>1
  <2> QED BY <2>1, <2>2
<1>9. Distinct(m)
  <2> SUFFICES ASSUME NEW s \in 1 .. len + n, NEW t \in 1 .. len + n,
                      m.positions[s] = m.positions[t]
               PROVE  s = t
    BY <1>2 DEF Distinct
  <2>1. CASE s \in 1 .. len /\ t \in 1 .. len
    BY <1>4, <2>1 DEF Distinct
  <2>2. ASSUME NEW k \in 1 .. n, s = len + k, t \in 1 .. len PROVE FALSE
    <3>1. m.positions[s] = l.next + k - 1 /\ m.positions[t] < l.next
      BY <1>1, <1>2, <1>4, <2>2
    <3> QED BY <1>1, <3>1
  <2>3. ASSUME NEW k \in 1 .. n, t = len + k, s \in 1 .. len PROVE FALSE
    <3>1. m.positions[t] = l.next + k - 1 /\ m.positions[s] < l.next
      BY <1>1, <1>2, <1>4, <2>3
    <3> QED BY <1>1, <3>1
  <2>4. ASSUME NEW j \in 1 .. n, NEW k \in 1 .. n, s = len + j, t = len + k PROVE s = t
    <3>1. l.next + j - 1 = l.next + k - 1
      BY <1>2, <2>4
    <3>2. j = k
      BY <1>1, <3>1
    <3> QED BY <2>4, <3>2
  <2> QED BY <1>8, <2>1, <2>2, <2>3, <2>4
<1>10. ASSUME Reflects(l, h, Len(h)), NEW s \in 1 .. Size(m)
       PROVE  SlotReflects(m, s, h2, Len(h))
  <2>1. CASE s \in 1 .. len
    <3>1. SlotReflects(l, s, h, Len(h))
      BY <1>10, <2>1 DEF Reflects
    <3> DEFINE p == l.positions[s]
    <3>2. p \in Nat /\ p < l.next
      BY <1>1, <2>1
    <3>3. DOMAIN keys \subseteq {q \in Nat : l.next <= q}
      BY <1>1
    <3> HIDE DEF p
    <3>4. /\ MassTo(h2, p, Len(h)) = MassTo(h, p, Len(h))
          /\ HitsTo(h2, p, Len(h)) = HitsTo(h, p, Len(h))
          /\ \A x : IsLast(x, h, p, Len(h)) => IsLast(x, h2, p, Len(h))
      BY <1>1, <3>2, <3>3, OneMorePass
    <3>5. /\ m.positions[s] = p /\ m.cum[s] = l.cum[s]
          /\ m.hits[s] = l.hits[s] /\ m.lastAccess[s] = l.lastAccess[s]
      BY <1>4, <1>5, <1>6, <1>7, <2>1 DEF p
    <3>6. /\ l.cum[s] = MassTo(h, p, Len(h))
          /\ l.hits[s] = Cardinality(HitsTo(h, p, Len(h)))
          /\ IsLast(l.lastAccess[s], h, p, Len(h))
      BY <3>1 DEF SlotReflects, p
    <3> QED BY <3>4, <3>5, <3>6 DEF SlotReflects
  <2>2. ASSUME NEW k \in 1 .. n, s = len + k
        PROVE  SlotReflects(m, s, h2, Len(h))
    <3> DEFINE p == l.next + k - 1
    <3>1. p \in Nat /\ l.next <= p /\ p \in DOMAIN keys
      BY <1>1
    <3>2. m.positions[s] = p
      BY <1>2, <2>2
    <3> HIDE DEF p
    <3>3. /\ MassTo(h2, p, Len(h)) = 0
          /\ HitsTo(h2, p, Len(h)) = {}
          /\ IsLast(step, h2, p, Len(h))
      BY <1>1, <3>1, NewToken
    <3>4. Cardinality({}) = 0
      BY FS_EmptySet
    <3>5. m.cum[s] = 0 /\ m.hits[s] = 0 /\ m.lastAccess[s] = step
      BY <1>5, <1>6, <1>7, <2>2
    <3> QED BY <3>2, <3>3, <3>4, <3>5 DEF SlotReflects
  <2> QED BY <1>2, <1>8, <2>1, <2>2
<1> QED BY <1>9, <1>10 DEF Reflects

-----------------------------------------------------------------------------
(***************************************************************************)
(* Noting a pass counts it at the tokens its queries attended.             *)
(***************************************************************************)

\* The slots a pass attended are those of the keys it attended.
Tallied(l, attended, keys) ==
  /\ DOMAIN attended = DOMAIN keys
  /\ \A s \in 1 .. Size(l) :
       {q \in DOMAIN attended : attended[q] = s} = Attenders(keys, l.positions[s])

\* What one more pass adds to a token's history.
LEMMA PassCounted ==
  ASSUME NEW h, NEW next, NEW now, History(h, next, now), Len(h) > 0, NEW p,
         h[Len(h)].step = now
  PROVE  LET n == Len(h)
             attended == Attenders(h[n].keys, p) # {}
         IN /\ MassTo(h, p, n) = MassTo(h, p, n - 1) + Given(h, p)[n]
            /\ Cardinality(HitsTo(h, p, n)) =
                 IF attended THEN Cardinality(HitsTo(h, p, n - 1)) + 1
                 ELSE Cardinality(HitsTo(h, p, n - 1))
            /\ \A x : IsLast(x, h, p, n - 1) =>
                 IsLast(IF attended THEN now ELSE x, h, p, n)
<1> DEFINE n == Len(h)
           attended == Attenders(h[n].keys, p) # {}
<1>1. /\ n \in Nat \ {0} /\ DOMAIN h = 1 .. n /\ h[n].step = now
      /\ \A e \in 1 .. n : h[e].step <= now
  BY SeqDomain DEF History
<1>0. \A e \in 1 .. n : Given(h, p)[e] \in Nat
  BY GivenNat
<1> HIDE DEF n
<1>2. /\ IsFiniteSet(1 .. n) /\ 1 .. n - 1 \in SUBSET (1 .. n)
      /\ n \in (1 .. n) \ (1 .. n - 1) /\ (1 .. n - 1) \cup {n} = 1 .. n
      /\ IsFiniteSet(1 .. n - 1)
  <2>1. IsFiniteSet(1 .. n) /\ IsFiniteSet(1 .. n - 1)
    BY <1>1, FS_Interval
  <2> QED BY <1>1, <2>1
<1>3. MassTo(h, p, n) = MassTo(h, p, n - 1) + Given(h, p)[n]
  <2> DEFINE F == Given(h, p)
             L == 1 .. n
             S == 1 .. n - 1
  <2>1. /\ IsFiniteSet(L) /\ S \in SUBSET L /\ n \in L \ S
        /\ \A e \in L : F[e] \in Nat
    BY <1>0, <1>2
  <2> HIDE DEF F, L, S
  <2>2. Sum(F, S \cup {n}) = Sum(F, S) + F[n]
    BY <2>1, SumGrows
  <2> USE DEF F, L, S
  <2> QED BY <1>2, <2>2 DEF MassTo
<1>4. Cardinality(HitsTo(h, p, n)) =
        IF attended THEN Cardinality(HitsTo(h, p, n - 1)) + 1
        ELSE Cardinality(HitsTo(h, p, n - 1))
  <2> DEFINE before == HitsTo(h, p, n - 1)
  <2>1. IsFiniteSet(before) /\ n \notin before
    <3>1. before \subseteq 1 .. n - 1
      BY DEF HitsTo
    <3> HIDE DEF before
    <3> QED BY <1>2, <3>1, FS_Subset
  <2>2. HitsTo(h, p, n) = IF attended THEN before \cup {n} ELSE before
    <3>1. \A e \in 1 .. n : e \in 1 .. n - 1 \/ e = n
      BY <1>1
    <3>2. \A e \in 1 .. n - 1 : e \in 1 .. n
      BY <1>1
    <3> QED BY <1>1, <3>1, <3>2 DEF HitsTo
  <2> HIDE DEF before, attended
  <2>3. Cardinality(before \cup {n}) = Cardinality(before) + 1
    BY <2>1, FS_AddElement
  <2> QED BY <2>2, <2>3 DEF before
<1>5. ASSUME NEW x, IsLast(x, h, p, n - 1)
      PROVE  IsLast(IF attended THEN now ELSE x, h, p, n)
  <2>1. \A e \in DOMAIN h : h[e].step <= now
    BY <1>1
  <2>2. CASE attended
    <3>1. n \in SeenTo(h, p, n)
      BY <1>1, <2>2 DEF SeenTo
    <3>2. \A e \in SeenTo(h, p, n) : h[e].step <= now
      BY <2>1 DEF SeenTo
    <3> QED BY <1>1, <2>2, <3>1, <3>2 DEF IsLast
  <2>3. CASE ~attended
    <3>1. \A e \in DOMAIN h : e \in Nat /\ (e <= n - 1 <=> e <= n /\ e # n)
      BY <1>1
    <3>2. SeenTo(h, p, n) = SeenTo(h, p, n - 1)
      BY <2>3, <3>1 DEF SeenTo
    <3> QED BY <1>5, <2>3, <3>2 DEF IsLast
  <2> QED BY <2>2, <2>3
<1> QED BY <1>3, <1>4, <1>5 DEF n

LEMMA NotedReflects ==
  ASSUME NEW l, MetaOK(l), NEW h, NEW next, step \in Nat, History(h, next, step),
         Len(h) > 0, h[Len(h)].step = step,
         NEW a, Tallied(l, a, h[Len(h)].keys),
         NEW m, m = Noted(l, Weights(l, a)),
         Reflects(l, h, Len(h) - 1)
  PROVE  Reflects(m, h, Len(h))
<1> DEFINE n == Len(h)
           keys == h[n].keys
           w == Weights(l, a)
<1>1. n \in Nat \ {0} /\ n \in 1 .. Len(h)
  BY SeqDomain DEF History
<1>2. PassOK(keys, next)
  BY <1>1 DEF History
<1>3. /\ DOMAIN w = 1 .. Size(l) /\ m.positions = l.positions
      /\ m.cum = [s \in DOMAIN w |-> l.cum[s] + w[s]]
      /\ m.hits = [s \in DOMAIN w |-> IF w[s] > 0 THEN l.hits[s] + 1 ELSE l.hits[s]]
      /\ m.lastAccess = [s \in DOMAIN w |-> IF w[s] > 0 THEN step ELSE l.lastAccess[s]]
  <2>1. DOMAIN w = 1 .. Size(l)
    BY DEF Weights, Size, NumTokens
  <2> HIDE DEF w
  <2>2. l \in [positions : Seq(Nat), lastAccess : {l.lastAccess}, cum : {l.cum},
               hits : {l.hits}, next : Nat]
    BY DEF MetaOK
  <2>3. m = Noted(l, w)
    BY DEF w
  <2> QED BY <2>1, <2>2, <2>3 DEF Noted
<1>4. ASSUME NEW s \in 1 .. Size(l) PROVE SlotReflects(m, s, h, n)
  <2> DEFINE p == l.positions[s]
  <2>1. /\ w[s] = (Unit \div Cardinality(DOMAIN keys)) * Cardinality(Attenders(keys, p))
        /\ w[s] > 0 <=> Attenders(keys, p) # {}
        /\ w[s] = Given(h, p)[n]
    <3>1. w[s] = (Unit \div Cardinality(DOMAIN a))
                   * Cardinality({q \in DOMAIN a : a[q] = s})
      BY DEF Weights, Size, NumTokens
    <3>2. w[s] = (Unit \div Cardinality(DOMAIN keys)) * Cardinality(Attenders(keys, p))
      <4> HIDE DEF w
      <4> QED BY <3>1 DEF Tallied
    <3> HIDE DEF w
    <3>3. w[s] > 0 <=> Attenders(keys, p) # {}
      <4> HIDE DEF p, keys
      <4> QED BY <1>2, <3>2, GivenFacts
    <3>4. w[s] = Given(h, p)[n]
      <4> HIDE DEF p
      <4> QED BY <1>1, <3>2, GivenNat
    <3> QED BY <3>2, <3>3, <3>4
  <2>2. SlotReflects(l, s, h, n - 1)
    BY DEF Reflects
  <2> HIDE DEF p
  <2>3. /\ l.cum[s] = MassTo(h, p, n - 1)
        /\ l.hits[s] = Cardinality(HitsTo(h, p, n - 1))
        /\ IsLast(l.lastAccess[s], h, p, n - 1)
    BY <2>2 DEF SlotReflects, p
  <2> HIDE DEF w
  <2>4. /\ m.positions[s] = p
        /\ m.cum[s] = l.cum[s] + w[s]
        /\ m.hits[s] = IF w[s] > 0 THEN l.hits[s] + 1 ELSE l.hits[s]
        /\ m.lastAccess[s] = IF w[s] > 0 THEN step ELSE l.lastAccess[s]
    BY <1>3 DEF p
  <2> DEFINE attended == Attenders(keys, p) # {}
  <2>5. /\ MassTo(h, p, n) = MassTo(h, p, n - 1) + Given(h, p)[n]
        /\ Cardinality(HitsTo(h, p, n)) =
             IF attended THEN Cardinality(HitsTo(h, p, n - 1)) + 1
             ELSE Cardinality(HitsTo(h, p, n - 1))
        /\ \A x : IsLast(x, h, p, n - 1) =>
             IsLast(IF attended THEN step ELSE x, h, p, n)
    BY PassCounted
  <2> HIDE DEF n
  <2>6. m.lastAccess[s] = IF attended THEN step ELSE l.lastAccess[s]
    BY <2>1, <2>4
  <2>7. m.hits[s] = IF attended THEN l.hits[s] + 1 ELSE l.hits[s]
    BY <2>1, <2>4
  <2> HIDE DEF attended
  <2>8. IsLast(m.lastAccess[s], h, p, n)
    BY <2>3, <2>5, <2>6
  <2>9. m.hits[s] = Cardinality(HitsTo(h, p, n))
    BY <2>3, <2>5, <2>7
  <2>10. m.cum[s] = MassTo(h, p, n)
    BY <2>1, <2>3, <2>4, <2>5
  <2> QED BY <2>4, <2>8, <2>9, <2>10 DEF SlotReflects
<1> QED BY <1>3, <1>4 DEF Reflects, Size

-----------------------------------------------------------------------------
(***************************************************************************)
(* What a pass reads is what it will note.                                 *)
(***************************************************************************)

LEMMA AttendTallies ==
  ASSUME NEW m, MetaOK(m), Distinct(m), NEW focus
  PROVE  Tallied(m, Attended(m, focus), KeysOf(m, focus))
<1> DEFINE a == Attended(m, focus)
           keys == KeysOf(m, focus)
<1>1. /\ DOMAIN m.positions = 1 .. Size(m) /\ Size(m) \in Nat
      /\ \A s \in 1 .. Size(m) : m.positions[s] \in Nat
  BY LenProperties DEF MetaOK, Size
<1>2. DOMAIN a = Queries /\ DOMAIN keys = Queries
  BY DEF Attended, KeysOf
<1>3. ASSUME NEW q \in Queries
      PROVE  /\ a[q] = 0 \/ a[q] \in 1 .. Size(m)
             /\ keys[q] = IF a[q] = 0 THEN -1 ELSE m.positions[a[q]]
  <2>1. keys[q] = IF a[q] = 0 THEN -1 ELSE m.positions[a[q]]
    BY DEF KeysOf
  <2>2. a[q] = IF focus \in Visible(m, q) THEN focus
               ELSE IF Own(m, q) \cap Visible(m, q) = {} THEN 0
               ELSE CHOOSE s \in Own(m, q) : TRUE
    BY DEF Attended
  <2>3. Own(m, q) \subseteq 1 .. Size(m) /\ Visible(m, q) \subseteq 1 .. Size(m)
    BY <1>1 DEF Own, Visible
  <2>4. Own(m, q) # {} => (CHOOSE s \in Own(m, q) : TRUE) \in Own(m, q)
    OBVIOUS
  <2> HIDE DEF a, keys
  <2>5. a[q] = 0 \/ a[q] \in 1 .. Size(m)
    BY <2>2, <2>3, <2>4
  <2> QED BY <2>1, <2>5
<1> HIDE DEF a, keys
<1>4. ASSUME NEW s \in 1 .. Size(m), NEW q \in Queries
      PROVE  a[q] = s <=> keys[q] = m.positions[s]
  <2>1. CASE a[q] = 0
    <3>1. keys[q] = -1 /\ m.positions[s] \in Nat /\ s \in Nat /\ s # 0
      BY <1>1, <1>3, <2>1
    <3> QED BY <2>1, <3>1
  <2>2. CASE a[q] \in 1 .. Size(m) /\ a[q] # 0
    <3>1. keys[q] = m.positions[a[q]]
      BY <1>3, <2>2
    <3> QED BY <2>2, <3>1 DEF Distinct
  <2> QED BY <1>3, <2>1, <2>2
<1>5. ASSUME NEW s \in 1 .. Size(m)
      PROVE  {q \in DOMAIN a : a[q] = s} = Attenders(keys, m.positions[s])
  BY <1>2, <1>4 DEF Attenders
<1> QED BY <1>2, <1>5 DEF Tallied, a, keys

\* The keys of a pass are those of tokens its layer has.
LEMMA AttendKnown ==
  ASSUME NEW m, MetaOK(m), NEW focus, NEW n \in 1 .. MaxLength, fed \in Nat,
         Queries = fed .. fed + n - 1, m.next = fed + n
  PROVE  PassOK(KeysOf(m, focus), m.next) /\ DOMAIN KeysOf(m, focus) = fed .. fed + n - 1
<1> DEFINE keys == KeysOf(m, focus)
           a == Attended(m, focus)
<1>1. n \in Nat \ {0} /\ MaxLength \in Nat
  BY BoundsAssumption
<1>2. DOMAIN keys = fed .. fed + n - 1
  BY DEF KeysOf
<1>3. IsFiniteSet(DOMAIN keys) /\ Cardinality(DOMAIN keys) = n
  <2>1. /\ fed \in Int /\ fed + n - 1 \in Int /\ ~(fed > fed + n - 1)
        /\ (fed + n - 1) - fed + 1 = n
    BY <1>1
  <2>2. /\ IsFiniteSet(fed .. fed + n - 1)
        /\ Cardinality(fed .. fed + n - 1) = (fed + n - 1) - fed + 1
    BY <2>1, FS_Interval
  <2> HIDE DEF keys
  <2> QED BY <1>2, <2>1, <2>2
<1>4. /\ DOMAIN m.positions = 1 .. Size(m)
      /\ \A s \in 1 .. Size(m) : m.positions[s] \in Nat /\ m.positions[s] < m.next
  BY LenProperties DEF MetaOK, Placed, Size
<1>5. ASSUME NEW q \in DOMAIN keys PROVE  /\ q \in Nat /\ q < m.next
             /\ keys[q] \in Int /\ keys[q] < m.next
  <2>1. q \in Queries /\ q \in Nat /\ q < fed + n
    BY <1>1, <1>2
  <2>2. keys[q] = IF a[q] = 0 THEN -1 ELSE m.positions[a[q]]
    BY <2>1 DEF KeysOf
  <2>3. a[q] = IF focus \in Visible(m, q) THEN focus
               ELSE IF Own(m, q) \cap Visible(m, q) = {} THEN 0
               ELSE CHOOSE s \in Own(m, q) : TRUE
    BY <2>1 DEF Attended
  <2>4. Own(m, q) \subseteq 1 .. Size(m) /\ Visible(m, q) \subseteq 1 .. Size(m)
    BY <1>4 DEF Own, Visible
  <2>5. Own(m, q) # {} => (CHOOSE s \in Own(m, q) : TRUE) \in Own(m, q)
    OBVIOUS
  <2> HIDE DEF a, keys
  <2>6. a[q] = 0 \/ a[q] \in 1 .. Size(m)
    BY <2>3, <2>4, <2>5
  <2>7. keys[q] = -1 \/ (keys[q] \in Nat /\ keys[q] < m.next)
    BY <1>4, <2>2, <2>6
  <2>8. -1 < m.next
    BY <1>1
  <2> QED BY <1>1, <2>1, <2>7, <2>8
<1> HIDE DEF keys
<1> QED BY <1>2, <1>3, <1>5 DEF PassOK, keys

\* A later layer and a later step still know the history.
LEMMA HistoryAges ==
  ASSUME NEW h, NEW next \in Nat, NEW now \in Nat, History(h, next, now),
         NEW next2 \in Nat, next <= next2, NEW now2 \in Nat, now <= now2
  PROVE  History(h, next2, now2)
<1>1. ASSUME NEW e \in 1 .. Len(h)
      PROVE  h[e].step <= now2 /\ PassOK(h[e].keys, next2)
  <2>1. h[e].step \in Nat /\ h[e].step <= now /\ PassOK(h[e].keys, next)
    BY DEF History
  <2>2. h[e].step <= now2
    BY <2>1
  <2>3. \A q \in DOMAIN h[e].keys : q < next2 /\ h[e].keys[q] < next2
    BY <2>1 DEF PassOK
  <2> QED BY <2>1, <2>2, <2>3 DEF PassOK
<1> QED BY <1>1 DEF History

-----------------------------------------------------------------------------
(***************************************************************************)
(* Through a request, each layer's signals are traced back to its log.     *)
(***************************************************************************)

\* Layer l has the history h; whether its last pass is still to be noted, and
\* what the pass recorded of it, are `pending` and a.
Traced(l, h, now, records, pending, a) ==
  /\ Distinct(l)
  /\ History(h, l.next, now)
  /\ records => Reflects(l, h, IF pending THEN Len(h) - 1 ELSE Len(h))
  /\ pending =>
       /\ Len(h) > 0 /\ h[Len(h)].step = now
       /\ a.slots = Size(l)
       /\ Tallied(l, a.attended, h[Len(h)].keys)

\* Layer i has attended in this pass, and nobody has noted it yet.
Pending(i) ==
  \/ pc \in {"note", "absorb"}
  \/ pc = "leave" /\ request.caller # "direct"
  \/ pc = "forward" /\ i < cursor

SignalsInv ==
  /\ step \in Nat
  /\ pc \in Active => \A i \in Layers :
       Traced(layers[i], log[i], step, Records, Pending(i), attention[i])

LEMMA ThinnedTraced ==
  ASSUME NEW l, MetaOK(l), NEW m, Thinned(l, m), NEW h, NEW now \in Nat, NEW r,
         NEW a, Traced(l, h, now, r, FALSE, a), NEW now2 \in Nat, now <= now2, NEW b
  PROVE  Traced(m, h, now2, r, FALSE, b)
<1>1. Distinct(l) /\ History(h, l.next, now) /\ (r => Reflects(l, h, Len(h)))
  BY DEF Traced
<1>2. /\ MetaOK(m) /\ m.next = l.next /\ Distinct(m)
      /\ Reflects(l, h, Len(h)) => Reflects(m, h, Len(h))
  BY <1>1, ThinnedReflects
<1>3. l.next \in Nat
  BY DEF MetaOK
<1>4. History(h, l.next, now2)
  BY <1>1, <1>3, HistoryAges
<1> QED BY <1>1, <1>2, <1>4 DEF Traced

LEMMA EnforceThins ==
  ASSUME NEW ls, StoreOK(ls), policy \in PolicyNames, NEW cap,
         Enforce(ls, cap, Layers)
  PROVE  \A i \in Layers : Thinned(ls[i], layers'[i])
<1> DEFINE over == {i \in Layers : Over(ls[i], cap[i])}
<1>1. PICK kept \in [over -> UNION {Kept(ls[i], cap[i]) : i \in over}] :
        /\ \A i \in over : kept[i] \in Kept(ls[i], cap[i])
        /\ layers' = [i \in Layers |-> IF i \in over THEN KeepSlots(ls[i], kept[i])
                                       ELSE ls[i]]
  BY DEF Enforce
<1>2. ASSUME NEW i \in Layers
      PROVE  Thinned(ls[i], layers'[i])
  <2>1. MetaOK(ls[i])
    BY DEF StoreOK
  <2>2. CASE i \in over
    <3>1. layers'[i] = KeepSlots(ls[i], kept[i]) /\ kept[i] \in Kept(ls[i], cap[i])
      BY <1>1, <2>2
    <3>2. kept[i] \in SUBSET (1 .. Len(ls[i].positions))
      BY <2>1, <3>1, ScoresAllSlots DEF Kept, Selected
    <3> QED
      BY <3>1, <3>2 DEF Thinned, Size
  <2>3. CASE i \notin over
    BY <1>1, <2>3 DEF Thinned
  <2> QED
    BY <2>2, <2>3
<1> QED
  BY <1>2

LEMMA LeaveBlockThins ==
  ASSUME StoreOK(layers), policy \in PolicyNames, NEW b, LeaveBlock(b)
  PROVE  \A i \in Layers : Thinned(layers[i], layers'[i])
<1>1. CASE layers' = layers
  BY <1>1 DEF Thinned
<1>2. CASE Enforce(layers, config.cap, Layers)
  BY <1>2, EnforceThins
<1> QED
  BY <1>1, <1>2 DEF LeaveBlock

LEMMA SignalsInit == Init => SignalsInv
BY DEF Init, SignalsInv, Active

LEMMA SignalsStart ==
  ASSUME NEW r \in Requests, Start(r)
  PROVE  SignalsInv'
<1>1. step' = 0 /\ pc' = "ready"
  BY DEF Start
<1>2. ASSUME NEW i \in Layers
      PROVE  Traced(layers'[i], log'[i], 0, Records', FALSE, attention'[i])
  <2>1. layers'[i] = NewLayer /\ log'[i] = <<>>
    BY DEF Start
  <2>2. Size(NewLayer) = 0 /\ IsSeq(<<>>) /\ Len(<<>>) = 0
    BY NewLayerOK DEF Size, IsSeq
  <2> QED BY <2>1, <2>2 DEF Traced, Distinct, History, Reflects
<1>3. \A i \in Layers : Pending(i)' = FALSE
  BY <1>1 DEF Pending
<1> QED BY <1>1, <1>2, <1>3 DEF SignalsInv

\* A step that changes nothing the signals are traced by.
LEMMA SignalsFrame ==
  ASSUME SignalsInv, pc \in Active,
         UNCHANGED <<policy, layers, request, step, log>>,
         \A i \in Layers : Pending(i)' = Pending(i),
         (\E i \in Layers : Pending(i)) => attention' = attention
  PROVE  SignalsInv'
<1>1. Records' = Records
  BY DEF Records
<1>2. ASSUME NEW i \in Layers
      PROVE  Traced(layers[i], log[i], step, Records, Pending(i), attention'[i])
  <2>1. Traced(layers[i], log[i], step, Records, Pending(i), attention[i])
    BY DEF SignalsInv
  <2>2. CASE Pending(i)
    BY <2>1, <2>2
  <2>3. CASE ~Pending(i)
    BY <2>1, <2>3 DEF Traced
  <2> QED BY <2>2, <2>3
<1> QED BY <1>1, <1>2 DEF SignalsInv

LEMMA SignalsOpen ==
  ASSUME SignalsInv, OpenCall \/ OpenModel
  PROVE  SignalsInv'
<1>1. /\ pc \in {"ready", "call"}
      /\ \/ pc' = "call"
         \/ pc' = "forward" /\ cursor' = 1
      /\ UNCHANGED <<policy, layers, request, step, log>>
  BY DEF OpenCall, OpenModel, setup, driver
<1>2. \A i \in Layers : Pending(i) = FALSE /\ Pending(i)' = FALSE
  <2>1. \A i \in Layers : ~(i < 1)
    BY DEF Layers
  <2> QED BY <1>1, <2>1 DEF Pending
<1>3. pc \in Active
  BY <1>1 DEF Active, Steps
<1>4. \A i \in Layers : Pending(i)' = Pending(i)
  BY <1>2
<1>5. ~(\E i \in Layers : Pending(i))
  BY <1>2
<1> QED BY <1>1, <1>3, <1>4, <1>5, SignalsFrame

\* A step of a pass that ends in one of its blocks' ends: what is left of the
\* layers has the signals it had.
LEMMA SignalsThin ==
  ASSUME IInv, SignalsInv, pc \in Active,
         \A i \in Layers : Thinned(layers[i], layers'[i]),
         UNCHANGED <<policy, request, log>>, step' \in Nat, step <= step',
         \A i \in Layers : Pending(i) = FALSE /\ Pending(i)' = FALSE
  PROVE  SignalsInv'
<1>1. Records' = Records
  BY DEF Records
<1>2. ASSUME NEW i \in Layers
      PROVE  Traced(layers'[i], log[i], step', Records, FALSE, attention'[i])
  <2>1. MetaOK(layers[i])
    BY SizeIsNat DEF IInv
  <2>2. Traced(layers[i], log[i], step, Records, FALSE, attention[i])
    <3>1. Traced(layers[i], log[i], step, Records, Pending(i), attention[i])
      BY DEF SignalsInv
    <3>2. Pending(i) = FALSE
      OBVIOUS
    <3> QED BY <3>1, <3>2
  <2>3. step \in Nat
    BY DEF SignalsInv
  <2> QED BY <2>1, <2>2, <2>3, ThinnedTraced
<1>3. \A i \in Layers : Pending(i)' = FALSE
  OBVIOUS
<1> QED BY <1>1, <1>2, <1>3 DEF SignalsInv

LEMMA SignalsNoted ==
  ASSUME IInv, SignalsInv, ModelNotes \/ Absorb
  PROVE  SignalsInv'
<1>1. /\ NoteAll
      /\ UNCHANGED <<policy, request, step, log>>
      /\ \/ pc = "note" /\ pc' = "leave" /\ request.caller = "direct"
         \/ pc = "absorb" /\ pc' = "close"
  BY DEF ModelNotes, Absorb, setup, driver, IInv, Blocks
<1>2. Records' = Records /\ pc \in Active
  BY <1>1 DEF Records, Active, Steps
<1>3. \A i \in Layers : Pending(i) = TRUE /\ Pending(i)' = FALSE
  BY <1>1 DEF Pending
<1>4. step \in Nat
  BY DEF SignalsInv
<1>5. ASSUME NEW i \in Layers
      PROVE  Traced(layers'[i], log[i], step, Records, FALSE, attention'[i])
  <2> DEFINE l == layers[i]
             a == attention[i]
             h == log[i]
  <2>1. MetaOK(l)
    BY SizeIsNat DEF IInv
  <2>2. Traced(l, h, step, Records, TRUE, a)
    <3>1. Traced(layers[i], log[i], step, Records, Pending(i), attention[i])
      BY <1>2 DEF SignalsInv
    <3> QED BY <1>3, <3>1
  <2>3. layers'[i] = IF Records THEN Noted(l, Weights(l, a.attended)) ELSE l
    <3>1. layers'[i] = IF Records /\ a.slots = NumTokens(l)
                       THEN Noted(l, Weights(l, a.attended)) ELSE l
      BY <1>1 DEF NoteAll
    <3>2. a.slots = NumTokens(l)
      BY <2>2 DEF Traced, Size, NumTokens
    <3> QED BY <3>1, <3>2
  <2> HIDE DEF l, a, h
  <2>4. CASE Records
    <3> DEFINE m == Noted(l, Weights(l, a.attended))
    <3>1. DOMAIN Weights(l, a.attended) = 1 .. Len(l.positions)
      BY DEF Weights, NumTokens
    <3>2. m.next = l.next /\ m.positions = l.positions
      BY <2>1, <3>1, NotedOK
    <3>3. /\ History(h, l.next, step) /\ Distinct(l)
          /\ Reflects(l, h, Len(h) - 1)
          /\ Len(h) > 0 /\ h[Len(h)].step = step
          /\ Tallied(l, a.attended, h[Len(h)].keys)
      BY <2>2, <2>4 DEF Traced
    <3>4. Reflects(m, h, Len(h))
      BY <1>4, <2>1, <3>3, NotedReflects
    <3>5. layers'[i] = m
      BY <2>3, <2>4
    <3> HIDE DEF m
    <3> QED BY <3>2, <3>3, <3>4, <3>5 DEF Traced, Distinct, Size, h
  <2>5. CASE ~Records
    BY <2>2, <2>3, <2>5 DEF Traced, h
  <2> QED BY <2>4, <2>5
<1> QED BY <1>1, <1>2, <1>3, <1>4, <1>5 DEF SignalsInv

LEMMA SignalsClose ==
  ASSUME IInv, SignalsInv, CloseModel \/ CloseCall
  PROVE  SignalsInv'
<1>1. policy \in PolicyNames /\ StoreOK(layers) /\ step \in Nat
  BY DEF IInv, Fixed, SignalsInv
<1>2. CASE CloseCall
  <2>1. /\ pc = "close" /\ LeaveBlock(TRUE) /\ pc' \in {"allocate", "ready"}
        /\ UNCHANGED <<policy, request, log>> /\ (step' = step \/ step' = step + 1)
    BY <1>2 DEF CloseCall, setup
  <2>2. step' \in Nat /\ step <= step'
    BY <1>1, <2>1
  <2>3. \A i \in Layers : Pending(i) = FALSE /\ Pending(i)' = FALSE
    BY <2>1 DEF Pending
  <2>4. pc \in Active
    BY <2>1 DEF Active, Steps
  <2> QED BY <1>1, <2>1, <2>2, <2>3, <2>4, LeaveBlockThins, SignalsThin
<1>3. CASE CloseModel /\ request.caller = "direct"
  <2>1. /\ pc = "leave" /\ LeaveBlock(TRUE) /\ pc' = "ready"
        /\ UNCHANGED <<policy, request, log, step>>
    BY <1>3 DEF CloseModel, setup
  <2>2. step' \in Nat /\ step <= step'
    BY <1>1, <2>1
  <2>3. \A i \in Layers : Pending(i) = FALSE /\ Pending(i)' = FALSE
    BY <1>3, <2>1 DEF Pending
  <2>4. pc \in Active
    BY <2>1 DEF Active, Steps
  <2> QED BY <1>1, <2>1, <2>2, <2>3, <2>4, LeaveBlockThins, SignalsThin
<1>4. CASE CloseModel /\ request.caller # "direct"
  <2>1. /\ pc = "leave" /\ LeaveBlock(TRUE) /\ pc' = "absorb"
        /\ UNCHANGED <<policy, request, log, step, attention>>
    BY <1>4 DEF CloseModel, setup
  <2>2. layers' = layers
    <3>1. deferred = <<TRUE, FALSE>>
      BY <1>4, <2>1 DEF IInv, Blocks
    <3> QED BY <2>1, <3>1, InnerBlockEnds
  <2>3. \A i \in Layers : Pending(i)' = Pending(i)
    BY <1>4, <2>1 DEF Pending
  <2>4. pc \in Active
    BY <2>1 DEF Active, Steps
  <2> QED BY <2>1, <2>2, <2>3, <2>4, SignalsFrame
<1> QED BY <1>2, <1>3, <1>4

LEMMA SignalsAllocate ==
  ASSUME IInv, SignalsInv, Allocate
  PROVE  SignalsInv'
<1>1. PICK cap : Enforce(layers, cap, Layers)
  BY DEF Allocate
<1>2. /\ pc = "allocate" /\ pc' = "ready" /\ step' = step + 1
      /\ UNCHANGED <<policy, request, log>>
  BY DEF Allocate
<1>3. \A i \in Layers : Thinned(layers[i], layers'[i])
  BY <1>1, EnforceThins DEF IInv, Fixed
<1>4. \A i \in Layers : Pending(i) = FALSE /\ Pending(i)' = FALSE
  BY <1>2 DEF Pending
<1>5. pc \in Active /\ step' \in Nat /\ step <= step'
  BY <1>2 DEF Active, Steps, SignalsInv
<1> QED BY <1>2, <1>3, <1>4, <1>5, SignalsThin

LEMMA SignalsAside ==
  ASSUME SignalsInv, Raise \/ Unwind \/ Finish
  PROVE  SignalsInv'
<1>1. pc' \in {"idle", "raising"} /\ step' = step
  BY DEF Raise, Unwind, Finish, driver
<1> QED BY <1>1 DEF SignalsInv, Active

LEMMA SignalsStutter ==
  ASSUME SignalsInv, UNCHANGED vars
  PROVE  SignalsInv'
<1>1. UNCHANGED <<policy, layers, request, step, pc, cursor, attention, log>>
  BY DEF vars, setup, cache, driver
<1>2. \A i \in Layers : Pending(i)' = Pending(i)
  BY <1>1 DEF Pending
<1>3. Records' = Records
  BY <1>1 DEF Records
<1> QED BY <1>1, <1>2, <1>3 DEF SignalsInv

\* The layer a pass has reached: its new tokens have no history but the pass,
\* which is still to be noted.
LEMMA GrownTraced ==
  ASSUME IInv, NEW focus, Attend(focus), step \in Nat, NEW a,
         Traced(layers[cursor], log[cursor], step, Records, FALSE, a)
  PROVE  Traced(layers'[cursor], log'[cursor], step, Records, TRUE,
                attention'[cursor])
<1> DEFINE l == layers[cursor]
           n == PassLength
           m == Grown
           h == log[cursor]
           h2 == log'[cursor]
           keys == KeysOf(Grown, focus)
           v == [slots |-> Size(Grown), attended |-> Attended(Grown, focus)]
<1>1. /\ n \in Nat \ {0} /\ fed \in Nat /\ fed < request.length
      /\ request \in Requests /\ Queries = fed .. fed + n - 1
      /\ cursor \in Layers /\ cursor \in Nat
      /\ pc = "forward" /\ pc \in Passing
  BY AttendShape
<1>2. /\ MetaOK(l) /\ Size(l) \in Nat /\ l.next = fed
      /\ MetaOK(m) /\ m.next = fed + n /\ m = AppendRows(l, l.next, n)
  BY AttendShape DEF Grown
<1>3. layers'[cursor] = m /\ attention' = Append(attention, v)
  BY AttendShape
<1>4. OneMore(h2, h, step, keys)
  BY AttendShape DEF OneMore
<1>5. n \in 1 .. MaxLength
  <2>1. fed + PassLength <= request.length /\ request.length \in Nat
    BY <1>1, PassFacts DEF IInv
  <2>2. request.length <= MaxLength /\ MaxLength \in Nat
    <3>1. request.length \in Lengths
      BY <1>1 DEF Requests
    <3>2. Lengths \subseteq 1 .. MaxLength /\ MaxLength \in Nat
      BY BoundsAssumption
    <3>3. request.length \in 1 .. MaxLength
      BY <3>1, <3>2
    <3> QED BY <3>2, <3>3
  <2> QED BY <1>1, <2>1, <2>2
<1>6. Distinct(l) /\ History(h, l.next, step) /\ (Records => Reflects(l, h, Len(h)))
  BY DEF Traced
<1>7. attention'[cursor] = v
  <2>1. IsSeq(attention) /\ Len(attention) = cursor - 1
    BY <1>1 DEF IInv, Even
  <2> HIDE DEF v
  <2>2. Append(attention, v)[Len(attention) + 1] = v
    BY <2>1, Appended
  <2> QED BY <1>1, <1>3, <2>1, <2>2
<1>8. PassOK(keys, m.next) /\ DOMAIN keys = fed .. fed + n - 1
  <2> HIDE DEF m, n
  <2>1. PassOK(KeysOf(m, focus), m.next) /\ DOMAIN KeysOf(m, focus) = fed .. fed + n - 1
    BY <1>1, <1>2, <1>5, AttendKnown
  <2> QED BY <2>1 DEF m
<1> HIDE DEF l, n, m, h, h2, keys
<1>9. Distinct(m) /\ (Reflects(l, h, Len(h)) => Reflects(m, h2, Len(h)))
  <2>1. DOMAIN keys = l.next .. l.next + n - 1
    BY <1>2, <1>8
  <2> QED BY <1>1, <1>2, <1>4, <1>6, <2>1, AppendedReflects
<1>10. /\ IsSeq(h2) /\ Len(h) \in Nat /\ Len(h2) = Len(h) + 1
       /\ h2[Len(h2)].step = step /\ h2[Len(h2)].keys = keys
       /\ \A e \in 1 .. Len(h) : h2[e] = h[e]
  <2> DEFINE x == [step |-> step, keys |-> keys]
  <2>1. x.step = step /\ x.keys = keys
    OBVIOUS
  <2> HIDE DEF x
  <2>2. h2 = Append(h, x) /\ IsSeq(h)
    BY <1>4, <1>6 DEF x, OneMore, History
  <2>3. Len(h) \in Nat
    BY <2>2, SeqDomain
  <2>4. /\ IsSeq(h2) /\ Len(h2) = Len(h) + 1 /\ h2[Len(h) + 1] = x
        /\ \A e \in 1 .. Len(h) : h2[e] = h[e]
    BY <2>2, Appended
  <2> QED BY <2>1, <2>3, <2>4
<1>11. History(h2, m.next, step)
  <2>1. l.next \in Nat /\ m.next \in Nat /\ l.next <= m.next
    BY <1>1, <1>2
  <2>2. History(h, m.next, step)
    BY <1>6, <2>1, HistoryAges
  <2>3. ASSUME NEW e \in 1 .. Len(h2)
        PROVE  h2[e].step \in Nat /\ h2[e].step <= step /\ PassOK(h2[e].keys, m.next)
    <3>1. e \in 1 .. Len(h) \/ e = Len(h2)
      BY <1>10
    <3>2. CASE e \in 1 .. Len(h)
      BY <1>10, <2>2, <3>2 DEF History
    <3>3. CASE e = Len(h2)
      BY <1>8, <1>10, <3>3
    <3> QED BY <3>1, <3>2, <3>3
  <2> QED BY <1>10, <2>3 DEF History
<1>12. Tallied(m, Attended(m, focus), keys)
  BY <1>2, <1>9, AttendTallies DEF keys, m
<1>13. v.slots = Size(m) /\ v.attended = Attended(m, focus)
  BY DEF m
<1> HIDE DEF v
<1>14. /\ Len(h2) > 0 /\ Len(h2) - 1 = Len(h)
  BY <1>10
<1> QED
  BY <1>3, <1>6, <1>7, <1>9, <1>10, <1>11, <1>12, <1>13, <1>14 DEF Traced, h, h2, l

LEMMA SignalsAttend ==
  ASSUME IInv, SignalsInv, NEW focus, Attend(focus)
  PROVE  SignalsInv'
<1>1. /\ pc = "forward" /\ pc \in Active /\ cursor \in Layers /\ cursor \in Nat
      /\ cursor \in 1 .. NumLayers /\ NumLayers \in Nat
      /\ UNCHANGED <<setup, autoEnforce, deferred, request, fed, scored, step>>
      /\ \A i \in Layers : i # cursor => layers'[i] = layers[i] /\ log'[i] = log[i]
      /\ IF cursor < NumLayers
         THEN cursor' = cursor + 1 /\ pc' = "forward"
         ELSE cursor' = 1 /\ pc' = IF Owner THEN "note" ELSE "leave"
  BY AttendShape
<1>2. step \in Nat /\ step' = step
  BY <1>1 DEF SignalsInv
<1>3. Records' = Records
  BY <1>1 DEF Records, setup
<1>4. \A i \in Layers : i \in Nat /\ i <= NumLayers
  BY <1>1 DEF Layers
<1>5. pc' = "leave" => request.caller # "direct"
  <2>1. pc' = "leave" => ~Owner
    BY <1>1
  <2>2. request.caller = "direct" => deferred = <<TRUE>>
    BY <1>1 DEF IInv, Blocks
  <2>3. deferred = <<TRUE>> => Owner
    BY DEF Owner
  <2> QED BY <2>1, <2>2, <2>3
<1>6. /\ \A i \in Layers : Pending(i) <=> i < cursor
      /\ \A i \in Layers : Pending(i)' <=> i < cursor \/ i = cursor
  <2>1. \A i \in Layers : Pending(i) <=> i < cursor
    BY <1>1 DEF Pending
  <2>2. CASE cursor < NumLayers
    <3>1. cursor' = cursor + 1 /\ pc' = "forward"
      BY <1>1, <2>2
    <3>2. \A i \in Layers : Pending(i)' <=> i < cursor'
      BY <3>1 DEF Pending
    <3> QED BY <1>1, <1>4, <2>1, <3>1, <3>2
  <2>3. CASE ~(cursor < NumLayers)
    <3>1. cursor = NumLayers /\ pc' \in {"note", "leave"}
      BY <1>1, <2>3
    <3>2. \A i \in Layers : Pending(i)'
      BY <1>1, <1>5, <3>1 DEF Pending
    <3>3. ASSUME NEW i \in Layers PROVE i < cursor \/ i = cursor
      BY <1>1, <1>4, <3>1
    <3> QED BY <2>1, <3>2, <3>3
  <2> QED BY <2>2, <2>3
<1>7. ASSUME NEW i \in Layers
      PROVE  Traced(layers'[i], log'[i], step, Records, Pending(i)', attention'[i])
  <2>1. Traced(layers[i], log[i], step, Records, Pending(i), attention[i])
    BY <1>1 DEF SignalsInv
  <2>2. CASE i = cursor
    <3>1. Pending(i) = FALSE /\ Pending(i)' = TRUE
      BY <1>1, <1>6, <2>2 DEF Pending
    <3>2. Traced(layers[cursor], log[cursor], step, Records, FALSE, attention[cursor])
      BY <2>1, <2>2, <3>1
    <3>3. Traced(layers'[cursor], log'[cursor], step, Records, TRUE, attention'[cursor])
      BY <1>2, <3>2, GrownTraced
    <3> QED BY <2>2, <3>1, <3>3
  <2>3. CASE i # cursor
    <3>1. Pending(i)' = Pending(i)
      BY <1>6, <2>3 DEF Pending
    <3>2. CASE Pending(i)
      <4>1. i < cursor
        BY <1>6, <3>2
      <4>2. attention'[i] = attention[i]
        <5>1. IsSeq(attention) /\ Len(attention) = cursor - 1
          BY <1>1 DEF IInv, Even
        <5>2. i \in 1 .. Len(attention)
          BY <1>1, <1>4, <4>1, <5>1 DEF Layers
        <5>3. PICK v : attention' = Append(attention, v)
          BY AttendShape
        <5> QED BY <5>1, <5>2, <5>3, Appended
      <4> QED BY <1>1, <2>1, <2>3, <3>1, <4>2
    <3>3. CASE ~Pending(i)
      <4>1. Traced(layers[i], log[i], step, Records, Pending(i), attention'[i])
        BY <2>1, <3>3 DEF Traced
      <4> QED BY <1>1, <2>3, <3>1, <4>1
    <3> QED BY <3>2, <3>3
  <2> QED BY <2>2, <2>3
<1> QED BY <1>2, <1>3, <1>7 DEF SignalsInv

LEMMA SignalsStep == IInv /\ SignalsInv /\ [Next]_vars => SignalsInv'
<1> SUFFICES ASSUME IInv, SignalsInv, [Next]_vars PROVE SignalsInv'
  OBVIOUS
<1>1. ASSUME NEW r \in Requests, Start(r) PROVE SignalsInv'
  BY <1>1, SignalsStart
<1>2. CASE OpenCall \/ OpenModel
  BY <1>2, SignalsOpen
<1>3. ASSUME NEW focus \in 1 .. MaxLength, Attend(focus) PROVE SignalsInv'
  BY <1>3, SignalsAttend
<1>4. CASE ModelNotes \/ Absorb
  BY <1>4, SignalsNoted
<1>5. CASE CloseModel \/ CloseCall
  BY <1>5, SignalsClose
<1>6. CASE Allocate
  BY <1>6, SignalsAllocate
<1>7. CASE Raise \/ Unwind \/ Finish
  BY <1>7, SignalsAside
<1>8. CASE Rest \/ UNCHANGED vars
  BY <1>8, SignalsStutter DEF Rest
<1> QED
  BY <1>1, <1>2, <1>3, <1>4, <1>5, <1>6, <1>7, <1>8 DEF Next

\* The mass the log says a position was given is what its passes amount to.
LEMMA MassIsSum ==
  ASSUME NEW i \in Layers, IsSeq(log[i]), NEW p,
         \A e \in 1 .. Len(log[i]) : Given(log[i], p)[e] \in Nat
  PROVE  Mass(i, p) = MassTo(log[i], p, Len(log[i]))
<1> DEFINE F == Given(log[i], p)
           S == DOMAIN log[i]
           f(e) == (Unit \div Cardinality(DOMAIN log[i][e].keys))
                     * Cardinality(Attenders(log[i][e].keys, p))
           Lists(g) == g = [s \in SUBSET S |-> IF s = {} THEN 0
             ELSE f(CHOOSE x \in s : TRUE) + g[s \ {CHOOSE x \in s : TRUE}]]
<1>1. Mass(i, p) = (CHOOSE g : Lists(g))[S]
  BY DEF Mass, MapThenSumSet, MapThenFoldSet
<1>2. ASSUME NEW g PROVE Lists(g) <=> IsSum(g, F, S)
  <2>1. \A s \in SUBSET S : s # {} => f(Pick(s)) = F[Pick(s)]
    BY PickIn DEF Given
  <2> HIDE DEF F, f, S
  <2>2. ASSUME NEW s \in SUBSET S
        PROVE  (IF s = {} THEN 0 ELSE f(Pick(s)) + g[s \ {Pick(s)}])
                 = (IF s = {} THEN 0 ELSE F[Pick(s)] + g[s \ {Pick(s)}])
    BY <2>1
  <2>3. [s \in SUBSET S |-> IF s = {} THEN 0 ELSE f(Pick(s)) + g[s \ {Pick(s)}]]
          = [s \in SUBSET S |-> IF s = {} THEN 0
                               ELSE F[Pick(s)] + g[s \ {Pick(s)}]]
    BY <2>2
  <2> QED BY <2>3 DEF IsSum, Pick
<1>3. S = 1 .. Len(log[i]) /\ IsFiniteSet(S)
  <2>1. S = 1 .. Len(log[i]) /\ Len(log[i]) \in Nat
    BY SeqDomain
  <2> HIDE DEF S
  <2> QED BY <2>1, FS_Interval
<1> HIDE DEF Lists, F, f, S
<1>4. PICK sums : IsSum(sums, F, S) /\ Sum(F, S) = sums[S]
  BY <1>3, SumIs
<1>5. PICK chosen : IsSum(chosen, F, S) /\ chosen = CHOOSE g : Lists(g)
  BY <1>2, <1>4
<1>6. (CHOOSE g : Lists(g))[S] = sums[S]
  <2>1. S \in SUBSET S
    OBVIOUS
  <2>2. chosen[S] = sums[S]
    BY <1>3, <1>4, <1>5, <2>1, SumUnique
  <2> QED BY <1>5, <2>2
<1> QED BY <1>1, <1>3, <1>4, <1>6 DEF F, MassTo

\* Between passes every slot tells the whole history of the token in it.
LEMMA HistoryTold ==
  ASSUME NEW i \in Layers, MetaOK(layers[i]), NEW now, NEW a,
         Traced(layers[i], log[i], now, TRUE, FALSE, a),
         NEW s \in DOMAIN layers[i].positions
  PROVE  LET p == layers[i].positions[s] IN
         /\ layers[i].cum[s] = Mass(i, p)
         /\ layers[i].hits[s] = HitCount(i, p)
         /\ layers[i].lastAccess[s] = LastSeen(i, p)
<1> DEFINE l == layers[i]
           h == log[i]
           n == Len(log[i])
           p == layers[i].positions[s]
<1>1. s \in 1 .. Size(l)
  BY LenProperties DEF MetaOK, Size
<1>2. History(h, l.next, now) /\ Reflects(l, h, n)
  BY DEF Traced
<1>3. IsSeq(h) /\ DOMAIN h = 1 .. n /\ n \in Nat
  BY <1>2, SeqDomain DEF History
<1>4. SlotReflects(l, s, h, n)
  BY <1>1, <1>2 DEF Reflects
<1>5. /\ l.cum[s] = MassTo(h, p, n)
      /\ l.hits[s] = Cardinality(HitsTo(h, p, n))
      /\ IsLast(l.lastAccess[s], h, p, n)
  BY <1>4 DEF SlotReflects
<1>6. MassTo(h, p, n) = Mass(i, p)
  <2>1. \A e \in 1 .. Len(h) : Given(h, p)[e] \in Nat
    BY <1>2, GivenNat
  <2> HIDE DEF p
  <2> QED BY <1>3, <2>1, MassIsSum
<1>7. Cardinality(HitsTo(h, p, n)) = HitCount(i, p)
  BY <1>3 DEF HitsTo, HitCount
<1>8. LastSeen(i, p) = l.lastAccess[s]
  <2> DEFINE E == {f \in DOMAIN h : \/ p \in DOMAIN h[f].keys
                                    \/ Attenders(h[f].keys, p) # {}}
             T == {h[e].step : e \in E}
             x == l.lastAccess[s]
  <2>1. LastSeen(i, p) = CHOOSE y \in T : \A z \in T : y >= z
    BY DEF LastSeen, Max
  <2>2. SeenTo(h, p, n) = E
    BY <1>3 DEF SeenTo
  <2>3. \A e \in E : h[e].step \in Nat
    BY <1>2, <1>3 DEF History
  <2> HIDE DEF h, n, p, E, x
  <2>4. (\E e \in E : h[e].step = x) /\ (\A e \in E : h[e].step <= x)
    BY <1>5, <2>2 DEF IsLast, x
  <2>5. x \in T /\ T \subseteq Nat /\ \A z \in T : z <= x
    BY <2>3, <2>4
  <2> HIDE DEF T
  <2>6. \A y \in T : (\A z \in T : y >= z) <=> y = x
    BY <2>5
  <2>7. (CHOOSE y \in T : \A z \in T : y >= z) = x
    BY <2>5, <2>6
  <2> QED BY <2>1, <2>7 DEF x
<1> QED BY <1>5, <1>6, <1>7, <1>8

-----------------------------------------------------------------------------
(***************************************************************************)
(* Types: the signals are numbers, and every layer has a budget of at      *)
(* least one token and no less than the sinks.                             *)
(***************************************************************************)

Typed(l) ==
  \A s \in 1 .. Size(l) :
    l.lastAccess[s] \in Nat /\ l.cum[s] \in Nat /\ l.hits[s] \in Nat

\* Budgets of config c.
CapsOK(c) ==
  /\ c \in [cap : [Layers -> Nat \ {0}], sinks : SinkCounts]
  /\ \A i \in Layers : MinPerLayer(c.sinks) <= c.cap[i]

Bounded == fed \in Nat /\ fed <= MaxLength /\ scored \in Seq(Nat)

LayersTyped == \A i \in Layers : Typed(layers[i])

TypesInv == Bounded /\ LayersTyped /\ CapsOK(config)

LEMMA ThinnedTyped ==
  ASSUME NEW l, MetaOK(l), Typed(l), NEW m, Thinned(l, m)
  PROVE  Typed(m)
<1>1. PICK a \in [1 .. Size(m) -> 1 .. Size(l)] :
        \A k \in 1 .. Size(m) :
             /\ m.positions[k] = l.positions[a[k]]
             /\ m.lastAccess[k] = l.lastAccess[a[k]]
             /\ m.cum[k] = l.cum[a[k]]
             /\ m.hits[k] = l.hits[a[k]]
  BY ThinnedSlots
<1>2. ASSUME NEW k \in 1 .. Size(m)
      PROVE  m.lastAccess[k] \in Nat /\ m.cum[k] \in Nat /\ m.hits[k] \in Nat
  <2>1. a[k] \in 1 .. Size(l)
    BY <1>1
  <2> QED BY <1>1, <2>1 DEF Typed
<1> QED BY <1>2 DEF Typed

LEMMA AppendedTyped ==
  ASSUME NEW l, MetaOK(l), Typed(l), NEW n \in Nat \ {0}, step \in Nat,
         NEW m, m = AppendRows(l, l.next, n)
  PROVE  Typed(m)
<1> DEFINE len == Size(l)
<1>1. /\ len \in Nat /\ Size(m) = len + n
      /\ IsSeq(l.lastAccess) /\ Len(l.lastAccess) = len
      /\ IsSeq(l.cum) /\ Len(l.cum) = len
      /\ IsSeq(l.hits) /\ Len(l.hits) = len
  <2>1. len \in Nat
    BY LenProperties DEF MetaOK, Size
  <2>2. Size(m) = len + n
    BY AppendRowsOK DEF Size
  <2>3. \A x \in {l.lastAccess, l.cum, l.hits} : IsSeq(x) /\ Len(x) = len
    BY DEF MetaOK, Parallel, Size
  <2> QED BY <2>1, <2>2, <2>3
<1>2. /\ m.lastAccess = l.lastAccess \o Constant(n, step)
      /\ m.cum = l.cum \o Constant(n, 0)
      /\ m.hits = l.hits \o Constant(n, 0)
  BY DEF AppendRows
<1> HIDE DEF len
<1>3. ASSUME NEW s \in 1 .. len + n
      PROVE  s \in 1 .. len \/ \E k \in 1 .. n : s = len + k
  <2>1. CASE s \in 1 .. len
    BY <2>1
  <2>2. CASE s \notin 1 .. len
    <3>1. s - len \in 1 .. n /\ s = len + (s - len)
      BY <1>1, <2>2
    <3> QED BY <3>1
  <2> QED BY <2>1, <2>2
<1>4. ASSUME NEW x, IsSeq(x), Len(x) = len, \A s \in 1 .. len : x[s] \in Nat,
             NEW v \in Nat
      PROVE  \A s \in 1 .. len + n : (x \o Constant(n, v))[s] \in Nat
  <2>1. /\ \A s \in 1 .. Len(x) : (x \o Constant(n, v))[s] = x[s]
        /\ \A k \in 1 .. n : (x \o Constant(n, v))[Len(x) + k] = v
    BY <1>4, ExtendedElements
  <2>2. ASSUME NEW s \in 1 .. len + n
        PROVE  (x \o Constant(n, v))[s] \in Nat
    <3>1. CASE s \in 1 .. len
      BY <1>4, <2>1, <3>1
    <3>2. CASE \E k \in 1 .. n : s = len + k
      <4>1. PICK k \in 1 .. n : s = len + k
        BY <3>2
      <4>2. (x \o Constant(n, v))[Len(x) + k] = v
        BY <2>1
      <4> QED BY <1>4, <4>1, <4>2
    <3> QED BY <1>3, <3>1, <3>2
  <2> QED BY <2>2
<1>5. \A s \in 1 .. len : l.lastAccess[s] \in Nat /\ l.cum[s] \in Nat /\ l.hits[s] \in Nat
  BY DEF Typed, len
<1>6. \A s \in 1 .. len + n : m.lastAccess[s] \in Nat
  BY <1>1, <1>2, <1>4, <1>5
<1>7. \A s \in 1 .. len + n : m.cum[s] \in Nat
  BY <1>1, <1>2, <1>4, <1>5
<1>8. \A s \in 1 .. len + n : m.hits[s] \in Nat
  BY <1>1, <1>2, <1>4, <1>5
<1> QED BY <1>1, <1>6, <1>7, <1>8 DEF Typed

LEMMA NotedTyped ==
  ASSUME NEW l, MetaOK(l), Typed(l), step \in Nat, NEW keys, NEW next,
         PassOK(keys, next), NEW a, DOMAIN a = DOMAIN keys
  PROVE  Typed(Noted(l, Weights(l, a)))
<1> DEFINE w == Weights(l, a)
           m == Noted(l, w)
<1>1. DOMAIN w = 1 .. Size(l)
  BY DEF Weights, Size, NumTokens
<1>2. ASSUME NEW s \in 1 .. Size(l) PROVE w[s] \in Nat
  <2> DEFINE d == Cardinality(DOMAIN a)
             A == {q \in DOMAIN a : a[q] = s}
  <2>1. w[s] = (Unit \div d) * Cardinality(A)
    BY DEF Weights, Size, NumTokens
  <2>2. d \in 1 .. MaxLength /\ IsFiniteSet(DOMAIN a)
    BY DEF PassOK
  <2>3. IsFiniteSet(A)
    BY <2>2, FS_Subset
  <2>4. Cardinality(A) \in Nat
    BY <2>3, FS_CardinalityType
  <2>5. MaxLength \in Nat /\ Unit \in Nat
    BY BoundsAssumption
  <2> HIDE DEF d, A, w
  <2>6. d \in Nat \ {0}
    BY <2>2, <2>5
  <2>7. Unit \div d \in Nat
    BY <2>5, <2>6
  <2> QED BY <2>1, <2>4, <2>7
<1>3. /\ m.positions = l.positions
      /\ m.cum = [s \in DOMAIN w |-> l.cum[s] + w[s]]
      /\ m.hits = [s \in DOMAIN w |-> IF w[s] > 0 THEN l.hits[s] + 1 ELSE l.hits[s]]
      /\ m.lastAccess = [s \in DOMAIN w |-> IF w[s] > 0 THEN step ELSE l.lastAccess[s]]
  <2> HIDE DEF w
  <2>1. l \in [positions : Seq(Nat), lastAccess : {l.lastAccess}, cum : {l.cum},
               hits : {l.hits}, next : Nat]
    BY DEF MetaOK
  <2> QED BY <1>1, <2>1 DEF Noted
<1> HIDE DEF w, m
<1>4. ASSUME NEW s \in 1 .. Size(m)
      PROVE  m.lastAccess[s] \in Nat /\ m.cum[s] \in Nat /\ m.hits[s] \in Nat
  <2>1. s \in 1 .. Size(l) /\ s \in DOMAIN w
    BY <1>1, <1>3 DEF Size
  <2>2. l.lastAccess[s] \in Nat /\ l.cum[s] \in Nat /\ l.hits[s] \in Nat /\ w[s] \in Nat
    BY <1>2, <2>1 DEF Typed
  <2> QED BY <1>3, <2>1, <2>2
<1> QED BY <1>4 DEF Typed, m, w

\* What a step that is no part of a pass's arithmetic leaves alone.
LEMMA TypesKept ==
  ASSUME TypesInv, UNCHANGED <<config, fed, scored>>,
         \A i \in Layers : Typed(layers'[i])
  PROVE  TypesInv'
BY DEF TypesInv, Bounded, LayersTyped, CapsOK

LEMMA TypesThin ==
  ASSUME IInv, TypesInv, \A i \in Layers : Thinned(layers[i], layers'[i])
  PROVE  \A i \in Layers : Typed(layers'[i])
BY SizeIsNat, ThinnedTyped DEF IInv, TypesInv, LayersTyped

LEMMA TypesInit == Init => TypesInv
<1> SUFFICES ASSUME Init PROVE TypesInv
  OBVIOUS
<1>1. PICK s \in Setups : config = s.config
  BY DEF Init
<1>2. /\ s.config \in [cap : Capacities, sinks : SinkCounts]
      /\ \A i \in Layers : s.config.sinks <= s.config.cap[i]
  BY SetupsAssumption
<1>3. CapsOK(config)
  <2>1. config.cap \in [Layers -> Nat \ {0}] /\ config.sinks \in Nat
    BY <1>1, <1>2, CapacitiesAssumption, SinksAssumption
  <2>2. \A i \in Layers : config.cap[i] \in Nat \ {0} /\ config.sinks <= config.cap[i]
    BY <1>1, <1>2, <2>1
  <2>3. \A i \in Layers : MinPerLayer(config.sinks) <= config.cap[i]
    BY <2>1, <2>2 DEF MinPerLayer
  <2> QED BY <1>1, <1>2, <2>1, <2>3 DEF CapsOK
<1>4. Bounded
  BY BoundsAssumption DEF Init, Bounded
<1>5. LayersTyped
  <2>1. Size(NewLayer) = 0
    BY NewLayerOK DEF Size
  <2> QED BY <2>1 DEF Init, LayersTyped, Typed
<1> QED BY <1>3, <1>4, <1>5 DEF TypesInv

LEMMA TypesStart ==
  ASSUME TypesInv, NEW r \in Requests, Start(r)
  PROVE  TypesInv'
<1>1. /\ layers' = [i \in Layers |-> NewLayer] /\ fed' = 0 /\ scored' = <<>>
      /\ config' = config
  BY DEF Start, setup
<1>2. Size(NewLayer) = 0
  BY NewLayerOK DEF Size
<1>3. LayersTyped'
  BY <1>1, <1>2 DEF LayersTyped, Typed
<1>4. Bounded'
  BY <1>1, BoundsAssumption DEF Bounded
<1> QED BY <1>1, <1>3, <1>4 DEF TypesInv, CapsOK

LEMMA TypesAside ==
  ASSUME IInv, TypesInv,
         OpenCall \/ OpenModel \/ Raise \/ Unwind \/ Finish \/ UNCHANGED vars
  PROVE  TypesInv'
<1>1. UNCHANGED <<config, fed, scored>>
  BY DEF OpenCall, OpenModel, Raise, Unwind, Finish, vars, setup, driver
<1>2. layers' = layers
  BY DEF OpenCall, OpenModel, Raise, Unwind, Finish, vars, cache, LeaveBlock
<1> QED BY <1>1, <1>2, TypesKept DEF TypesInv, LayersTyped

LEMMA TypesAttend ==
  ASSUME IInv, TypesInv, step \in Nat, NEW focus, Attend(focus)
  PROVE  TypesInv'
<1>1. /\ MetaOK(layers[cursor]) /\ PassLength \in Nat \ {0} /\ cursor \in Layers
      /\ UNCHANGED <<setup, fed, scored>> /\ layers'[cursor] = Grown
      /\ \A i \in Layers : i # cursor => layers'[i] = layers[i]
  BY AttendShape
<1>2. Typed(Grown)
  BY <1>1, AppendedTyped DEF Grown, TypesInv, LayersTyped
<1>3. \A i \in Layers : Typed(layers'[i])
  BY <1>1, <1>2 DEF TypesInv, LayersTyped
<1> QED BY <1>1, <1>3, TypesKept DEF setup

LEMMA TypesNoted ==
  ASSUME IInv, SignalsInv, TypesInv, ModelNotes \/ Absorb
  PROVE  TypesInv'
<1>1. /\ NoteAll /\ UNCHANGED <<config, fed, scored>>
      /\ pc \in {"note", "absorb"}
  BY DEF ModelNotes, Absorb, setup, driver
<1>2. pc \in Active /\ \A i \in Layers : Pending(i) = TRUE
  BY <1>1 DEF Active, Steps, Pending
<1>3. step \in Nat
  BY DEF SignalsInv
<1>4. ASSUME NEW i \in Layers
      PROVE  Typed(layers'[i])
  <2>1. MetaOK(layers[i]) /\ Typed(layers[i])
    BY SizeIsNat DEF IInv, TypesInv, LayersTyped
  <2>2. Traced(layers[i], log[i], step, Records, TRUE, attention[i])
    <3>1. Traced(layers[i], log[i], step, Records, Pending(i), attention[i])
      BY <1>2 DEF SignalsInv
    <3> QED BY <1>2, <3>1
  <2>3. /\ History(log[i], layers[i].next, step) /\ Len(log[i]) > 0
        /\ DOMAIN attention[i].attended = DOMAIN log[i][Len(log[i])].keys
    BY <2>2 DEF Traced, Tallied
  <2>4. PassOK(log[i][Len(log[i])].keys, layers[i].next)
    <3>1. Len(log[i]) \in Nat
      BY <2>3, SeqDomain DEF History
    <3>2. Len(log[i]) \in 1 .. Len(log[i])
      BY <2>3, <3>1
    <3> QED BY <2>3, <3>2 DEF History
  <2>5. Typed(Noted(layers[i], Weights(layers[i], attention[i].attended)))
    BY <1>3, <2>1, <2>3, <2>4, NotedTyped
  <2>6. \/ layers'[i] = Noted(layers[i], Weights(layers[i], attention[i].attended))
        \/ layers'[i] = layers[i]
    BY <1>1 DEF NoteAll
  <2> QED BY <2>1, <2>5, <2>6
<1> QED BY <1>1, <1>4, TypesKept

LEMMA CountIsSeq ==
  ASSUME NEW n \in Nat
  PROVE  Count(n) \in Seq(Nat)
<1>1. Count(n) \in [1 .. n -> Nat]
  BY DEF Count
<1> QED BY <1>1

LEMMA TypesClose ==
  ASSUME IInv, TypesInv, CloseModel \/ CloseCall
  PROVE  TypesInv'
<1>1. /\ LeaveBlock(TRUE) /\ config' = config /\ pc \in Passing
      /\ request' = request
      /\ fed' = fed \/ fed' = fed + PassLength
  BY DEF CloseModel, CloseCall, setup, Passing
<1>2. \A i \in Layers : Thinned(layers[i], layers'[i])
  BY <1>1, LeaveBlockThins DEF IInv, Fixed
<1>3. LayersTyped'
  BY <1>2, TypesThin DEF LayersTyped
<1>4. fed' \in Nat /\ fed' <= MaxLength
  <2>1. /\ PassLength \in Nat \ {0} /\ fed + PassLength <= request.length
        /\ request.length \in Nat /\ request \in Requests /\ fed \in Nat
    BY <1>1, PassFacts DEF IInv, Progress, Passing
  <2>2. request.length <= MaxLength /\ MaxLength \in Nat
    <3>1. request.length \in Lengths
      BY <2>1 DEF Requests
    <3>2. Lengths \subseteq 1 .. MaxLength /\ MaxLength \in Nat
      BY BoundsAssumption
    <3>3. request.length \in 1 .. MaxLength
      BY <3>1, <3>2
    <3> QED BY <3>2, <3>3
  <2> QED BY <1>1, <2>1, <2>2 DEF TypesInv, Bounded
<1>5. scored' \in Seq(Nat)
  <2>1. CASE request.caller = "perplexity"
    <3>1. CASE CloseModel
      BY <3>1 DEF CloseModel, TypesInv, Bounded
    <3>2. CASE CloseCall
      <4>1. IInv'
        BY <3>2, CloseCallStep
      <4>2. pc' \in Active
        BY <3>2 DEF CloseCall, Active, Steps
      <4>3. scored' = Count(IF fed' < request.length THEN fed' ELSE request.length - 1)
        BY <1>1, <2>1, <4>1, <4>2 DEF IInv, ScoredOK
      <4>4. request.length \in Nat \ {0}
        BY <1>1, RequestFacts DEF IInv, Progress, Passing
      <4>5. (IF fed' < request.length THEN fed' ELSE request.length - 1) \in Nat
        BY <1>4, <4>4
      <4> QED BY <4>3, <4>5, CountIsSeq
    <3> QED BY <3>1, <3>2
  <2>2. CASE request.caller # "perplexity"
    BY <2>2 DEF CloseModel, CloseCall, TypesInv, Bounded
  <2> QED BY <2>1, <2>2
<1> QED BY <1>1, <1>3, <1>4, <1>5 DEF TypesInv, Bounded, CapsOK

-----------------------------------------------------------------------------
(***************************************************************************)
(* Arithmetic of shares.                                                   *)
(***************************************************************************)

LEMMA SumOverIsSum ==
  ASSUME NEW f, IsFiniteSet(DOMAIN f)
  PROVE  SumOver(f) = Sum(f, DOMAIN f)
<1> DEFINE S == DOMAIN f
           Lists(g) == g = [s \in SUBSET S |-> IF s = {} THEN 0
             ELSE f[CHOOSE x \in s : TRUE] + g[s \ {CHOOSE x \in s : TRUE}]]
<1>1. SumOver(f) = (CHOOSE g : Lists(g))[S]
  BY DEF SumOver, MapThenSumSet, MapThenFoldSet
<1>2. ASSUME NEW g PROVE Lists(g) <=> IsSum(g, f, S)
  BY DEF IsSum, Pick
<1> HIDE DEF Lists, S
<1>3. IsFiniteSet(S)
  BY DEF S
<1>4. PICK sums : IsSum(sums, f, S) /\ Sum(f, S) = sums[S]
  BY <1>3, SumIs
<1>5. PICK chosen : IsSum(chosen, f, S) /\ chosen = CHOOSE g : Lists(g)
  BY <1>2, <1>4
<1>6. S \in SUBSET S
  OBVIOUS
<1>7. chosen[S] = sums[S]
  BY <1>3, <1>4, <1>5, <1>6, SumUnique
<1> QED BY <1>1, <1>4, <1>5, <1>7 DEF S

\* Every element counts once.
Ones(s, L) == [i \in L |-> IF i \in s THEN 1 ELSE 0]

LEMMA SumCounts ==
  ASSUME NEW L, IsFiniteSet(L), NEW S \in SUBSET L
  PROVE  Sum(Ones(S, L), L) = Cardinality(S)
<1> DEFINE P == {s \in SUBSET L : Sum(Ones(s, L), L) = Cardinality(s)}
<1>1. ASSUME NEW s \in SUBSET L, \A t \in SUBSET s : t # s => t \in P
      PROVE  s \in P
  <2>1. CASE s = {}
    <3> DEFINE F == Ones(s, L)
    <3>1. \A i \in L : F[i] = 0
      BY <2>1 DEF Ones
    <3> HIDE DEF F
    <3>2. Sum(F, L) = 0
      BY <3>1, SumZero
    <3> QED BY <2>1, <3>2, FS_EmptySet DEF F
  <2>2. CASE s # {}
    <3> DEFINE x == Pick(s)
               u == s \ {Pick(s)}
               F == Ones(u, L)
               G == Ones(s, L)
    <3>1. x \in s /\ x \in L /\ x \notin u /\ u \in SUBSET s /\ u # s /\ s = u \cup {x}
      BY <2>2, PickIn
    <3>2. u \in P
      BY <1>1, <3>1
    <3>3. \A i \in L : F[i] \in Nat /\ G[i] = IF i = x THEN F[i] + 1 ELSE F[i]
      BY <3>1 DEF Ones
    <3>4. Sum(F, L) = Cardinality(u)
      BY <3>2
    <3> HIDE DEF x, u, F, G
    <3>5. Sum(G, L) = Sum(F, L) + 1
      BY <3>1, <3>3, SumBumped
    <3>6. IsFiniteSet(u)
      <4>1. u \in SUBSET L
        BY <3>1
      <4> QED BY <4>1, FS_Subset
    <3>7. Cardinality(s) = Cardinality(u) + 1
      BY <3>1, <3>6, FS_AddElement
    <3> QED BY <3>4, <3>5, <3>7 DEF G
  <2> QED BY <2>1, <2>2
<1> HIDE DEF P
<1>2. S \in P
  BY <1>1, SubsetInduction
<1> QED BY <1>2 DEF P

LEMMA SumTimes ==
  ASSUME NEW L, IsFiniteSet(L), NEW c \in Nat, NEW F, NEW G,
         \A i \in L : F[i] \in Nat /\ G[i] = c * F[i]
  PROVE  Sum(G, L) = c * Sum(F, L)
<1>1. PICK f : IsSum(f, F, L) /\ Sum(F, L) = f[L]
  BY SumIs
<1>2. PICK g : IsSum(g, G, L) /\ Sum(G, L) = g[L]
  BY SumIs
<1> DEFINE P == {s \in SUBSET L : f[s] \in Nat /\ g[s] = c * f[s]}
<1>3. ASSUME NEW s \in SUBSET L, \A t \in SUBSET s : t # s => t \in P
      PROVE  s \in P
  <2>1. CASE s = {}
    <3>1. f[s] = 0 /\ g[s] = 0
      BY <1>1, <1>2, <2>1, SumRule
    <3> QED BY <3>1
  <2>2. CASE s # {}
    <3> DEFINE x == Pick(s)
               u == s \ {Pick(s)}
    <3>1. /\ x \in L /\ u \in SUBSET s /\ u # s
          /\ f[s] = F[x] + f[u] /\ g[s] = G[x] + g[u]
      BY <1>1, <1>2, <2>2, SumRule
    <3>2. f[u] \in Nat /\ g[u] = c * f[u]
      BY <1>3, <3>1
    <3>3. F[x] \in Nat /\ G[x] = c * F[x]
      BY <3>1
    <3> HIDE DEF x, u
    <3>4. c * F[x] + c * f[u] = c * (F[x] + f[u])
      BY <3>2, <3>3, Z3
    <3> QED BY <3>1, <3>2, <3>3, <3>4
  <2> QED BY <2>1, <2>2
<1> HIDE DEF P
<1>4. L \in P
  BY <1>3, SubsetInduction
<1> QED BY <1>1, <1>2, <1>4 DEF P

\* A function that is one number.
LEMMA SumConstant ==
  ASSUME NEW L, IsFiniteSet(L), NEW c \in Nat, NEW F, \A i \in L : F[i] = c
  PROVE  Sum(F, L) = c * Cardinality(L)
<1> DEFINE G == Ones(L, L)
<1>1. \A i \in L : G[i] = 1
  BY DEF Ones
<1>2. L \in SUBSET L
  OBVIOUS
<1>3. Sum(G, L) = Cardinality(L)
  BY <1>2, SumCounts
<1> HIDE DEF G
<1>4. \A i \in L : G[i] \in Nat /\ F[i] = c * G[i]
  BY <1>1
<1>5. Sum(F, L) = c * Sum(G, L)
  BY <1>4, SumTimes
<1> QED BY <1>3, <1>5

-----------------------------------------------------------------------------
(***************************************************************************)
(* Uniform: the quotient for everyone and one more for the first few.      *)
(***************************************************************************)

LEMMA Euclid ==
  ASSUME NEW a \in Int, NEW d \in Int, d > 0
  PROVE  a = d * (a \div d) + (a % d)
OBVIOUS

LEMMA Divided ==
  ASSUME NEW total \in Nat, NEW n \in Nat \ {0}
  PROVE  /\ total \div n \in Nat /\ total % n \in Nat /\ total % n < n
         /\ total = n * (total \div n) + (total % n)
<1>1. /\ total \div n \in Nat /\ total % n \in Nat /\ total % n < n
  OBVIOUS
<1>2. total \in Int /\ n \in Int /\ n > 0
  OBVIOUS
<1>3. total = n * (total \div n) + (total % n)
  BY <1>2, Euclid
<1> QED BY <1>1, <1>3

LEMMA UniformShares ==
  ASSUME NEW total \in Nat, NEW n \in Nat \ {0}, NEW least \in Nat, n * least <= total
  PROVE  /\ Uniform(total, n) \in [1 .. n -> Nat]
         /\ Sum(Uniform(total, n), 1 .. n) = total
         /\ \A i \in 1 .. n : least <= Uniform(total, n)[i]
         /\ \A i, j \in 1 .. n : Uniform(total, n)[j] <= Uniform(total, n)[i] + 1
<1> DEFINE q == total \div n
           r == total % n
           U == Uniform(total, n)
           L == 1 .. n
           Q == [i \in 1 .. n |-> q]
           R == Ones(1 .. r, 1 .. n)
<1>1. q \in Nat /\ r \in Nat /\ r < n /\ total = n * q + r
  BY Divided
<1>2. U = [i \in 1 .. n |-> q + (IF i <= r THEN 1 ELSE 0)]
  BY DEF Uniform
<1> HIDE DEF q, r, U
<1>3. \A i \in L : /\ Q[i] = q /\ R[i] = IF i <= r THEN 1 ELSE 0
  BY <1>1 DEF Ones
<1>4. IsFiniteSet(L) /\ Cardinality(L) = n
  BY FS_Interval
<1>5. 1 .. r \in SUBSET L /\ Cardinality(1 .. r) = r
  <2>1. Cardinality(1 .. r) = r
    BY <1>1, FS_Interval
  <2> QED BY <1>1, <2>1
<1>6. Sum(R, L) = r
  BY <1>4, <1>5, SumCounts
<1> HIDE DEF Q, R, L
<1>7. Sum(Q, L) = q * n
  BY <1>1, <1>3, <1>4, SumConstant
<1>8. \A i \in L : Q[i] \in Nat /\ R[i] \in Nat /\ U[i] = Q[i] + R[i]
  BY <1>1, <1>2, <1>3 DEF L
<1>9. Sum(U, L) = Sum(Q, L) + Sum(R, L)
  BY <1>4, <1>8, SumPlus
<1>10. q * n = n * q
  BY <1>1
<1>11. Sum(U, L) = total
  BY <1>1, <1>6, <1>7, <1>9, <1>10
<1>12. least <= q
  <2> SUFFICES ASSUME q + 1 <= least PROVE FALSE
    BY <1>1
  <2>1. n * (q + 1) <= n * least
    BY <1>1, Z3
  <2>2. n * (q + 1) = n * q + n
    BY <1>1, Z3
  <2>3. n * q \in Nat /\ n * least \in Nat
    BY <1>1
  <2> QED BY <1>1, <2>1, <2>2, <2>3
<1>13. \A i \in L : U[i] \in Nat /\ q <= U[i] /\ U[i] <= q + 1
  BY <1>1, <1>2 DEF L
<1>14. \A i \in L : least <= U[i]
  BY <1>1, <1>12, <1>13
<1>15. \A i, j \in L : U[j] <= U[i] + 1
  BY <1>1, <1>13
<1>16. U \in [1 .. n -> Nat]
  BY <1>2, <1>13 DEF L
<1> QED BY <1>11, <1>14, <1>15, <1>16 DEF U, L

-----------------------------------------------------------------------------
(***************************************************************************)
(* The largest-remainder method.                                           *)
(***************************************************************************)

\* The members of 1 .. n that come before i: those of a larger remainder r,
\* and of its equals the lower ones.
Ahead(r, n, i) == {j \in 1 .. n : r[j] > r[i] \/ (r[j] = r[i] /\ j < i)}

LEMMA AheadBounds ==
  ASSUME NEW n \in Nat \ {0}, NEW r \in [1 .. n -> Nat], NEW i \in 1 .. n
  PROVE  /\ IsFiniteSet(Ahead(r, n, i))
         /\ Cardinality(Ahead(r, n, i)) \in 0 .. n - 1
<1>1. IsFiniteSet(1 .. n) /\ Cardinality(1 .. n) = n
  BY FS_Interval
<1>2. Ahead(r, n, i) \in SUBSET (1 .. n) /\ i \notin Ahead(r, n, i)
  BY DEF Ahead
<1>3. /\ IsFiniteSet(Ahead(r, n, i))
      /\ Cardinality(Ahead(r, n, i)) <= n
      /\ Cardinality(Ahead(r, n, i)) = n => 1 .. n = Ahead(r, n, i)
  BY <1>1, <1>2, FS_Subset
<1>4. Cardinality(Ahead(r, n, i)) \in Nat
  BY <1>3, FS_CardinalityType
<1>5. Cardinality(Ahead(r, n, i)) # n
  BY <1>2, <1>3
<1> QED BY <1>3, <1>4, <1>5

LEMMA AheadDiffer ==
  ASSUME NEW n \in Nat \ {0}, NEW r \in [1 .. n -> Nat],
         NEW i \in 1 .. n, NEW j \in 1 .. n, i \in Ahead(r, n, j)
  PROVE  Cardinality(Ahead(r, n, i)) < Cardinality(Ahead(r, n, j))
<1> DEFINE P == Ahead(r, n, i)
           Q == Ahead(r, n, j)
<1>1. \A k \in 1 .. n : r[k] \in Nat
  OBVIOUS
<1>2. r[i] > r[j] \/ (r[i] = r[j] /\ i < j)
  BY DEF Ahead
<1>3. \A k \in P : k \in Q
  BY <1>1, <1>2 DEF Ahead
<1>4. i \in Q /\ i \notin P
  BY <1>1 DEF Ahead
<1>5. IsFiniteSet(P) /\ IsFiniteSet(Q) /\ Cardinality(P) \in Nat /\ Cardinality(Q) \in Nat
  BY AheadBounds
<1> HIDE DEF P, Q
<1>6. P \in SUBSET Q
  BY <1>3
<1>7. Cardinality(P) <= Cardinality(Q) /\ (Cardinality(Q) = Cardinality(P) => Q = P)
  BY <1>5, <1>6, FS_Subset
<1>8. Cardinality(P) < Cardinality(Q)
  BY <1>4, <1>5, <1>7
<1> QED BY <1>8 DEF P, Q

\* As many members as one asks for come first.
LEMMA FirstFew ==
  ASSUME NEW n \in Nat \ {0}, NEW r \in [1 .. n -> Nat], NEW e \in 0 .. n
  PROVE  Cardinality({i \in 1 .. n : Cardinality(Ahead(r, n, i)) < e}) = e
<1> DEFINE L == 1 .. n
           place == [i \in 1 .. n |-> Cardinality(Ahead(r, n, i))]
           T == {i \in 1 .. n : Cardinality(Ahead(r, n, i)) < e}
           short == [i \in T |-> Cardinality(Ahead(r, n, i))]
<1>0. ASSUME NEW k \in Nat
      PROVE  IsFiniteSet(0 .. k - 1) /\ Cardinality(0 .. k - 1) = k
  <2>1. /\ 0 \in Int /\ k - 1 \in Int /\ (0 > k - 1 <=> k = 0)
        /\ (k - 1) - 0 + 1 = k
    OBVIOUS
  <2>2. /\ IsFiniteSet(0 .. k - 1)
        /\ Cardinality(0 .. k - 1) = IF 0 > k - 1 THEN 0 ELSE (k - 1) - 0 + 1
    BY <2>1, FS_Interval
  <2> QED BY <2>1, <2>2
<1>1. /\ IsFiniteSet(L) /\ Cardinality(L) = n
      /\ IsFiniteSet(0 .. n - 1) /\ Cardinality(0 .. n - 1) = n
  BY <1>0, FS_Interval
<1>2. IsFiniteSet(0 .. e - 1) /\ Cardinality(0 .. e - 1) = e
  BY <1>0
<1>3. \A i \in L : place[i] = Cardinality(Ahead(r, n, i)) /\ place[i] \in 0 .. n - 1
  BY AheadBounds
<1>4. ASSUME NEW i \in L, NEW j \in L, place[i] = place[j]
      PROVE  i = j
  <2>0. /\ Cardinality(Ahead(r, n, i)) = Cardinality(Ahead(r, n, j))
        /\ Cardinality(Ahead(r, n, i)) \in Nat
    BY <1>4, AheadBounds
  <2>1. CASE i \in Ahead(r, n, j)
    <3>1. Cardinality(Ahead(r, n, i)) < Cardinality(Ahead(r, n, j))
      BY <2>1, AheadDiffer
    <3> QED BY <2>0, <3>1
  <2>2. CASE j \in Ahead(r, n, i)
    <3>1. Cardinality(Ahead(r, n, j)) < Cardinality(Ahead(r, n, i))
      BY <2>2, AheadDiffer
    <3> QED BY <2>0, <3>1
  <2>3. r[i] \in Nat /\ r[j] \in Nat /\ i \in Nat /\ j \in Nat
    OBVIOUS
  <2>4. i = j \/ i \in Ahead(r, n, j) \/ j \in Ahead(r, n, i)
    BY <2>3 DEF Ahead
  <2> QED BY <2>1, <2>2, <2>4
<1>5. place \in [L -> 0 .. n - 1]
  BY <1>3
<1>6. T \subseteq L /\ short = [i \in T |-> place[i]] /\ \A i \in T : place[i] < e
  BY <1>3
<1>7. \A i \in L : place[i] < e => i \in T
  BY <1>3
<1> HIDE DEF place, L, T, short
<1>8. place \in Injection(L, 0 .. n - 1)
  BY <1>4, <1>5 DEF Injection, IsInjective
<1>9. place \in Surjection(L, 0 .. n - 1)
  BY <1>1, <1>8, FS_Injection
<1>10. short \in Injection(T, 0 .. e - 1)
  <2>1. \A i \in T : place[i] \in 0 .. n - 1 /\ place[i] < e
    BY <1>5, <1>6
  <2>2. \A i \in T : place[i] \in 0 .. e - 1
    BY <2>1
  <2>3. short \in [T -> 0 .. e - 1]
    BY <1>6, <2>2
  <2>4. \A i, j \in T : short[i] = short[j] => i = j
    BY <1>4, <1>6
  <2> QED BY <2>3, <2>4 DEF Injection, IsInjective
<1>11. short \in Surjection(T, 0 .. e - 1)
  <2>1. ASSUME NEW k \in 0 .. e - 1
        PROVE  \E i \in T : short[i] = k
    <3>1. k \in 0 .. n - 1 /\ k < e
      OBVIOUS
    <3>2. PICK i \in L : place[i] = k
      BY <1>9, <3>1 DEF Surjection
    <3> QED BY <1>6, <1>7, <3>1, <3>2
  <2>2. short \in [T -> 0 .. e - 1]
    BY <1>10 DEF Injection
  <2> QED BY <2>1, <2>2 DEF Surjection
<1>12. Cardinality(T) = e
  BY <1>2, <1>10, <1>11, FS_Injection
<1> QED BY <1>12 DEF T

LEMMA QuotientsOrdered ==
  ASSUME NEW a \in Nat, NEW b \in Nat, a <= b, NEW d \in Nat \ {0}
  PROVE  a \div d <= b \div d
<1> DEFINE p == a \div d
           q == b \div d
           s == b % d
<1>1. /\ p \in Nat /\ a % d \in Nat /\ a = d * p + (a % d)
      /\ q \in Nat /\ s \in Nat /\ s < d /\ b = d * q + s
  BY Divided
<1> HIDE DEF p, q, s
<1>2. SUFFICES ASSUME q + 1 <= p PROVE FALSE
  BY <1>1 DEF p, q
<1>3. d * (q + 1) <= d * p
  BY <1>1, <1>2
<1>4. d * (q + 1) = d * q + d
  BY <1>1
<1>5. d * p <= a /\ d * q \in Nat /\ d * p \in Nat
  BY <1>1
<1> QED BY <1>1, <1>3, <1>4, <1>5

LEMMA ProductsOrdered ==
  ASSUME NEW a \in Nat, NEW b \in Nat, a <= b, NEW c \in Nat
  PROVE  a * c <= b * c
<1> DEFINE d == b - a
<1>1. d \in Nat /\ b = a + d
  OBVIOUS
<1> HIDE DEF d
<1>2. (a + d) * c = a * c + d * c /\ a * c \in Nat /\ d * c \in Nat
  BY <1>1
<1>3. b * c = a * c + d * c
  BY <1>1, <1>2
<1> QED BY <1>2, <1>3

\* The shares are whole, they sum to the amount, and a larger weight has a
\* share that is no smaller but for one.
LEMMA SharesOf ==
  ASSUME NEW n \in Nat \ {0}, NEW amount \in Nat, NEW w \in [1 .. n -> Nat],
         SumOver(w) # 0
  PROVE  /\ Shares(amount, w) \in [1 .. n -> Nat]
         /\ Sum(Shares(amount, w), 1 .. n) = amount
         /\ \A i, j \in 1 .. n :
              w[j] <= w[i] => Shares(amount, w)[j] <= Shares(amount, w)[i] + 1
<1> DEFINE L == 1 .. n
           W == SumOver(w)
           S == Shares(amount, w)
           M == [i \in 1 .. n |-> w[i] * amount]
           F == [i \in 1 .. n |-> (w[i] * amount) \div W]
           N == [i \in 1 .. n |-> W * F[i]]
           r == [i \in 1 .. n |-> (w[i] * amount) % W]
           B == [i \in 1 .. n |-> W - 1]
           extra == amount - SumOver(F)
           T == {i \in 1 .. n : Cardinality(Ahead(r, n, i)) < extra}
           one == Ones(T, 1 .. n)
<1>1. IsFiniteSet(L) /\ Cardinality(L) = n
  BY FS_Interval
<1>2. DOMAIN w = L /\ DOMAIN F = L /\ \A i \in L : w[i] \in Nat
  OBVIOUS
<1>3. S = [i \in L |-> F[i] + (IF Cardinality(Ahead(r, n, i)) < extra THEN 1 ELSE 0)]
  <2> DEFINE rest(i) == (w[i] * amount) % W
             before(i) == {j \in L : rest(j) > rest(i) \/ (rest(j) = rest(i) /\ j < i)}
  <2>1. S = [i \in L |-> F[i] + (IF Cardinality(before(i)) < extra THEN 1 ELSE 0)]
    BY <1>2 DEF Shares
  <2>2. \A i \in L : r[i] = rest(i)
    OBVIOUS
  <2> HIDE DEF rest, r, F, extra, S, W
  <2>3. \A i \in L : before(i) = Ahead(r, n, i)
    BY <2>2 DEF Ahead
  <2> QED BY <2>1, <2>3
<1>4. \A i \in L : one[i] = IF Cardinality(Ahead(r, n, i)) < extra THEN 1 ELSE 0
  BY DEF Ones
<1>5. \A i \in L : /\ M[i] = w[i] * amount /\ F[i] = M[i] \div W /\ r[i] = M[i] % W
                   /\ N[i] = W * F[i] /\ B[i] = W - 1
  OBVIOUS
<1>6. r = [i \in L |-> r[i]]
  OBVIOUS
<1>7. SumOver(w) = Sum(w, L) /\ SumOver(F) = Sum(F, L)
  BY <1>1, <1>2, SumOverIsSum
<1>8. T \in SUBSET L /\ T = {i \in 1 .. n : Cardinality(Ahead(r, n, i)) < extra}
  OBVIOUS
<1>9. extra = amount - Sum(F, L) /\ W = Sum(w, L) /\ W # 0
  BY <1>7
<1>10. one = Ones(T, L)
  OBVIOUS
<1> HIDE DEF W, S, M, F, N, r, B, extra, T, one
<1>11. W \in Nat \ {0}
  BY <1>1, <1>2, <1>9, SumNat
<1>12. \A i \in L : /\ M[i] \in Nat /\ F[i] \in Nat /\ r[i] \in Nat /\ r[i] < W
                    /\ M[i] = W * F[i] + r[i]
  <2> SUFFICES ASSUME NEW i \in L
               PROVE  /\ M[i] \in Nat /\ F[i] \in Nat /\ r[i] \in Nat /\ r[i] < W
                      /\ M[i] = W * F[i] + r[i]
    OBVIOUS
  <2>1. w[i] \in Nat /\ M[i] = w[i] * amount
    BY <1>2, <1>5
  <2>2. M[i] \in Nat
    BY <2>1
  <2>3. F[i] = M[i] \div W /\ r[i] = M[i] % W
    BY <1>5
  <2> QED BY <1>11, <2>2, <2>3, Divided
<1>13. r \in [1 .. n -> Nat]
  BY <1>6, <1>12
<1> HIDE DEF L
<1>14. ASSUME NEW i \in L
       PROVE  N[i] \in Nat /\ N[i] = W * F[i] /\ M[i] = N[i] + r[i]
  <2>1. N[i] = W * F[i] /\ F[i] \in Nat /\ M[i] = W * F[i] + r[i]
    BY <1>5, <1>12
  <2>2. W * F[i] \in Nat
    BY <1>11, <2>1
  <2> QED BY <2>1, <2>2
<1>15. Sum(M, L) = amount * W
  <2>1. \A i \in L : w[i] \in Nat /\ M[i] = amount * w[i]
    <3> SUFFICES ASSUME NEW i \in L PROVE w[i] \in Nat /\ M[i] = amount * w[i]
      OBVIOUS
    <3>1. w[i] \in Nat /\ M[i] = w[i] * amount
      BY <1>2, <1>5
    <3> QED BY <3>1
  <2> QED BY <1>1, <1>9, <2>1, SumTimes
<1>16. Sum(N, L) = W * Sum(F, L)
  BY <1>1, <1>11, <1>12, <1>14, SumTimes
<1>17. Sum(M, L) = Sum(N, L) + Sum(r, L)
  BY <1>1, <1>12, <1>14, SumPlus
<1>18. Sum(F, L) \in Nat /\ Sum(r, L) \in Nat
  <2>1. \A i \in L : F[i] \in Nat
    BY <1>12
  <2>2. \A i \in L : r[i] \in Nat
    BY <1>12
  <2> QED BY <1>1, <2>1, <2>2, SumNat
<1>19. Sum(r, L) <= (W - 1) * n
  <2>1. \A i \in L : r[i] \in Nat /\ B[i] \in Nat /\ r[i] <= B[i]
    BY <1>5, <1>11, <1>12
  <2>2. Sum(r, L) <= Sum(B, L)
    BY <1>1, <2>1, SumLess
  <2>3. W - 1 \in Nat /\ \A i \in L : B[i] = W - 1
    BY <1>5, <1>11
  <2>4. Sum(B, L) = (W - 1) * n
    BY <1>1, <2>3, SumConstant
  <2> QED BY <2>2, <2>4
<1>20. extra \in 0 .. n
  <2> DEFINE s == Sum(F, L)
             R == Sum(r, L)
  <2>1. /\ s \in Nat /\ R \in Nat /\ R <= (W - 1) * n
        /\ amount * W = W * s + R /\ extra = amount - s
    BY <1>9, <1>15, <1>16, <1>17, <1>18, <1>19
  <2> HIDE DEF s, R
  <2>2. extra \in Int /\ amount = s + extra
    BY <2>1
  <2>3. W * (s + extra) = W * s + W * extra
    BY <1>11, <2>1, <2>2
  <2>4. W * extra = R
    <3>1. W * s \in Int /\ W * extra \in Int /\ amount * W = W * amount
      BY <1>11, <2>1, <2>2
    <3> QED BY <2>1, <2>2, <2>3, <3>1
  <2>5. 0 <= extra
    <3> SUFFICES ASSUME extra <= -1 PROVE FALSE
      BY <2>2
    <3>1. W * extra <= W * (-1)
      BY <1>11, <2>2
    <3>2. W * (-1) = - W
      BY <1>11
    <3> QED BY <1>11, <2>1, <2>4, <3>1, <3>2
  <2>6. extra <= n
    <3> SUFFICES ASSUME n + 1 <= extra PROVE FALSE
      BY <2>2
    <3>1. W * (n + 1) <= W * extra
      BY <1>11, <2>2
    <3>2. W * (n + 1) = W * n + W /\ (W - 1) * n = W * n - n /\ W * n \in Nat
      BY <1>11
    <3> QED BY <1>11, <2>1, <2>4, <3>1, <3>2
  <2> QED BY <2>2, <2>5, <2>6
<1>21. Sum(one, L) = extra
  <2>1. Cardinality(T) = extra
    BY <1>8, <1>13, <1>20, FirstFew
  <2>2. Sum(one, L) = Cardinality(T)
    BY <1>1, <1>8, <1>10, SumCounts
  <2> QED BY <2>1, <2>2
<1>22. \A i \in L : one[i] \in {0, 1} /\ S[i] = F[i] + one[i]
  BY <1>3, <1>4
<1>23. Sum(S, L) = amount
  <2>1. \A i \in L : F[i] \in Nat /\ one[i] \in Nat /\ S[i] = F[i] + one[i]
    BY <1>12, <1>22
  <2>2. Sum(S, L) = Sum(F, L) + Sum(one, L)
    BY <1>1, <2>1, SumPlus
  <2> QED BY <1>9, <1>18, <1>20, <1>21, <2>2
<1>24. S \in [L -> Nat]
  <2>1. \A i \in L : S[i] \in Nat
    BY <1>12, <1>22
  <2>2. S = [i \in L |-> S[i]]
    BY <1>3
  <2> QED BY <2>1, <2>2
<1>25. ASSUME NEW i \in L, NEW j \in L, w[j] <= w[i]
       PROVE  S[j] <= S[i] + 1
  <2>1. w[i] \in Nat /\ w[j] \in Nat
    BY <1>2
  <2>2. w[j] * amount <= w[i] * amount
    BY <1>25, <2>1, ProductsOrdered
  <2>3. M[j] <= M[i] /\ M[i] \in Nat /\ M[j] \in Nat
    BY <1>5, <1>12, <2>2
  <2>4. F[j] <= F[i]
    <3>1. M[j] \div W <= M[i] \div W
      BY <1>11, <2>3, QuotientsOrdered
    <3> QED BY <1>5, <3>1
  <2>5. /\ S[i] = F[i] + one[i] /\ S[j] = F[j] + one[j]
        /\ one[i] \in {0, 1} /\ one[j] \in {0, 1} /\ F[i] \in Nat /\ F[j] \in Nat
    BY <1>12, <1>22
  <2> QED BY <2>4, <2>5
<1> QED BY <1>23, <1>24, <1>25 DEF S, L

-----------------------------------------------------------------------------
(***************************************************************************)
(* Concentrations are numbers: products are defined as sums are.           *)
(***************************************************************************)

Times(x, y) == x * y

\* g lists, for every subset of S, the product of F over it.
IsProduct(g, F, S) ==
  g = [s \in SUBSET S |-> IF s = {} THEN 1 ELSE Times(F[Pick(s)], g[s \ {Pick(s)}])]

LEMMA ProductRule ==
  ASSUME NEW S, NEW F, NEW g, IsProduct(g, F, S), NEW s, s \subseteq S
  PROVE  /\ s = {} => g[s] = 1
         /\ s # {} => /\ Pick(s) \in S
                      /\ s \ {Pick(s)} \in SUBSET s
                      /\ s \ {Pick(s)} # s
                      /\ g[s] = Times(F[Pick(s)], g[s \ {Pick(s)}])
<1>1. s \in SUBSET S
  OBVIOUS
<1>2. g[s] = IF s = {} THEN 1 ELSE Times(F[Pick(s)], g[s \ {Pick(s)}])
  BY <1>1 DEF IsProduct
<1> QED BY <1>2, PickIn

\* Two lists of products agree wherever both are defined.
LEMMA ProductUnique ==
  ASSUME NEW S, IsFiniteSet(S), NEW T, NEW F,
         NEW g, IsProduct(g, F, S), NEW h, IsProduct(h, F, T)
  PROVE  \A s \in SUBSET S : s \in SUBSET T => g[s] = h[s]
<1> DEFINE P == {s \in SUBSET S : s \in SUBSET T => g[s] = h[s]}
<1>1. ASSUME NEW s \in SUBSET S, \A t \in SUBSET s : t # s => t \in P
      PROVE  s \in P
  <2>1. CASE s = {}
    <3>1. g[s] = 1 /\ (s \in SUBSET T => h[s] = 1)
      <4>1. s = {} => g[s] = 1
        BY ProductRule
      <4>2. s \in SUBSET T => (s = {} => h[s] = 1)
        BY ProductRule
      <4> QED BY <2>1, <4>1, <4>2
    <3> QED BY <3>1
  <2>2. CASE s # {} /\ s \in SUBSET T
    <3>1. /\ s \ {Pick(s)} \in SUBSET s /\ s \ {Pick(s)} # s
          /\ g[s] = Times(F[Pick(s)], g[s \ {Pick(s)}])
          /\ h[s] = Times(F[Pick(s)], h[s \ {Pick(s)}])
      BY <2>2, ProductRule
    <3>2. g[s \ {Pick(s)}] = h[s \ {Pick(s)}]
      BY <1>1, <2>2, <3>1
    <3> QED BY <3>1, <3>2
  <2> QED BY <2>1, <2>2
<1> HIDE DEF P
<1>2. \A s \in SUBSET S : s \in P
  BY <1>1, SubsetInduction
<1> QED BY <1>2 DEF P

LEMMA ProductExists ==
  ASSUME NEW S, IsFiniteSet(S), NEW F
  PROVE  \E g : IsProduct(g, F, S)
<1> DEFINE P == {s \in SUBSET S : \E g : IsProduct(g, F, s)}
           V(s) == (CHOOSE g : IsProduct(g, F, s))[s]
<1>1. ASSUME NEW s \in SUBSET S, \A t \in SUBSET s : t # s => t \in P
      PROVE  s \in P
  <2>1. ASSUME NEW t \in SUBSET s, t # s
        PROVE  V(t) = IF t = {} THEN 1 ELSE Times(F[Pick(t)], V(t \ {Pick(t)}))
    <3> DEFINE g == CHOOSE g : IsProduct(g, F, t)
               u == t \ {Pick(t)}
               h == CHOOSE h : IsProduct(h, F, u)
    <3>1. IsProduct(g, F, t)
      BY <1>1, <2>1
    <3>2. CASE t = {}
      <4>1. t = {} => g[t] = 1
        <5> HIDE DEF g
        <5> QED BY <3>1, ProductRule
      <4> QED BY <3>2, <4>1
    <3>3. CASE t # {}
      <4>1. u \in SUBSET t /\ u # t /\ g[t] = Times(F[Pick(t)], g[u])
        BY <3>1, <3>3, ProductRule
      <4>2. u \in P
        BY <1>1, <2>1, <4>1
      <4>3. IsProduct(h, F, u)
        BY <4>2
      <4>4. IsFiniteSet(t)
        BY <2>1, FS_Subset
      <4>5. g[u] = h[u]
        <5> HIDE DEF g, h, u
        <5> QED BY <3>1, <4>1, <4>3, <4>4, ProductUnique
      <4> QED BY <3>3, <4>1, <4>5
    <3> QED BY <3>2, <3>3
  <2> DEFINE k == [t \in SUBSET s |->
                     IF t = {} THEN 1 ELSE Times(F[Pick(t)], V(t \ {Pick(t)}))]
  <2> HIDE DEF V
  <2>2. ASSUME NEW t \in SUBSET s, t # {}
        PROVE  k[t \ {Pick(t)}] = V(t \ {Pick(t)})
    <3>1. t \ {Pick(t)} \in SUBSET s /\ t \ {Pick(t)} # s
      BY <2>2, PickIn
    <3> QED BY <2>1, <3>1
  <2>3. \A t \in SUBSET s :
          k[t] = IF t = {} THEN 1 ELSE Times(F[Pick(t)], k[t \ {Pick(t)}])
    BY <2>2
  <2>4. k = [t \in SUBSET s |->
               IF t = {} THEN 1 ELSE Times(F[Pick(t)], V(t \ {Pick(t)}))]
    OBVIOUS
  <2> HIDE DEF k
  <2>5. IsProduct(k, F, s)
    BY <2>3, <2>4 DEF IsProduct
  <2> QED BY <2>5
<1> HIDE DEF P
<1>2. S \in P
  BY <1>1, SubsetInduction
<1> QED BY <1>2 DEF P

LEMMA ProductNat ==
  ASSUME NEW S, IsFiniteSet(S), NEW F, \A i \in S : F[i] \in Nat,
         NEW g, IsProduct(g, F, S)
  PROVE  g[S] \in Nat
<1> DEFINE P == {s \in SUBSET S : g[s] \in Nat}
<1>1. ASSUME NEW s \in SUBSET S, \A t \in SUBSET s : t # s => t \in P
      PROVE  s \in P
  <2>1. CASE s = {}
    <3>1. s = {} => g[s] = 1
      BY ProductRule
    <3> QED BY <2>1, <3>1
  <2>2. CASE s # {}
    <3> DEFINE x == Pick(s)
               u == s \ {Pick(s)}
    <3>1. x \in S /\ u \in SUBSET s /\ u # s
      BY <2>2, PickIn
    <3>2. g[s] = Times(F[x], g[u])
      BY <2>2, ProductRule
    <3>3. g[u] \in Nat /\ F[x] \in Nat
      BY <1>1, <3>1
    <3> HIDE DEF x, u
    <3>4. Times(F[x], g[u]) \in Nat
      BY <3>3 DEF Times
    <3> QED BY <3>2, <3>4
  <2> QED BY <2>1, <2>2
<1> HIDE DEF P
<1>2. S \in P
  BY <1>1, SubsetInduction
<1> QED BY <1>2 DEF P

\* The sum of a list of numbers, and that of their squares.
LEMMA ListSums ==
  ASSUME NEW n \in Nat, NEW cum \in [1 .. n -> Nat]
  PROVE  Concentration(cum).num \in Nat /\ Concentration(cum).den \in Nat
<1> DEFINE squares == [k \in DOMAIN cum |-> cum[k] * cum[k]]
           mass == SumOver(cum)
           power == SumOver(squares)
<1>1. IsFiniteSet(1 .. n)
  BY FS_Interval
<1>2. \A k \in 1 .. n : cum[k] \in Nat /\ squares[k] \in Nat
  <2> SUFFICES ASSUME NEW k \in 1 .. n PROVE cum[k] \in Nat /\ squares[k] \in Nat
    OBVIOUS
  <2>1. cum[k] \in Nat /\ squares[k] = cum[k] * cum[k]
    OBVIOUS
  <2> HIDE DEF squares
  <2> QED BY <2>1
<1>3. DOMAIN cum = 1 .. n /\ DOMAIN squares = 1 .. n
  OBVIOUS
<1>4. Concentration(cum) = IF mass = 0 THEN [num |-> 0, den |-> 1]
                           ELSE [num |-> power, den |-> mass * mass]
  BY DEF Concentration
<1> HIDE DEF squares
<1>5. mass \in Nat /\ power \in Nat
  BY <1>1, <1>2, <1>3, SumOverIsSum, SumNat
<1> HIDE DEF mass, power
<1>6. mass * mass \in Nat
  BY <1>5
<1> QED BY <1>4, <1>5, <1>6

LEMMA ConcentrationsNat ==
  ASSUME NEW n \in Nat, NEW cums, DOMAIN cums = 1 .. n,
         \A i \in 1 .. n : \E m \in Nat : cums[i] \in [1 .. m -> Nat]
  PROVE  Concentrations(cums) \in [1 .. n -> Nat]
<1> DEFINE c == [i \in DOMAIN cums |-> Concentration(cums[i])]
           d == [j \in DOMAIN cums |-> c[j].den]
           Lists(g, i) == g = [s \in SUBSET (DOMAIN cums \ {i}) |->
             IF s = {} THEN 1
             ELSE c[CHOOSE j \in s : TRUE].den * g[s \ {CHOOSE j \in s : TRUE}]]
           others(i) == (CHOOSE g : Lists(g, i))[DOMAIN cums \ {i}]
<1>1. Concentrations(cums) = [i \in DOMAIN cums |-> c[i].num * others(i)]
  BY DEF Concentrations, MapThenFoldSet
<1>2. ASSUME NEW i \in 1 .. n PROVE c[i].num \in Nat /\ c[i].den \in Nat
  <2>1. PICK m \in Nat : cums[i] \in [1 .. m -> Nat]
    OBVIOUS
  <2> QED BY <2>1, ListSums
<1>3. ASSUME NEW i \in 1 .. n PROVE others(i) \in Nat
  <2> DEFINE S == DOMAIN cums \ {i}
  <2>1. IsFiniteSet(S)
    <3>1. IsFiniteSet(1 .. n)
      BY FS_Interval
    <3>2. S \in SUBSET (1 .. n)
      OBVIOUS
    <3> QED BY <3>1, <3>2, FS_Subset
  <2>2. \A j \in S : d[j] = c[j].den /\ d[j] \in Nat
    BY <1>2
  <2>3. ASSUME NEW g PROVE Lists(g, i) <=> IsProduct(g, d, S)
    <3>1. \A s \in SUBSET S : s # {} => c[Pick(s)].den = d[Pick(s)]
      BY <2>2, PickIn
    <3> HIDE DEF c, d, S
    <3>2. ASSUME NEW s \in SUBSET S
          PROVE  (IF s = {} THEN 1 ELSE Times(c[Pick(s)].den, g[s \ {Pick(s)}]))
                   = (IF s = {} THEN 1 ELSE Times(d[Pick(s)], g[s \ {Pick(s)}]))
      BY <3>1
    <3>3. [s \in SUBSET S |-> IF s = {} THEN 1 ELSE Times(c[Pick(s)].den, g[s \ {Pick(s)}])]
            = [s \in SUBSET S |-> IF s = {} THEN 1 ELSE Times(d[Pick(s)], g[s \ {Pick(s)}])]
      BY <3>2
    <3> QED BY <3>3 DEF IsProduct, Pick, S, Times
  <2>4. others(i) = (CHOOSE g : Lists(g, i))[S]
    OBVIOUS
  <2> HIDE DEF Lists, S, d, others, c
  <2>5. \E g : IsProduct(g, d, S)
    BY <2>1, ProductExists
  <2>6. PICK chosen : IsProduct(chosen, d, S) /\ chosen = CHOOSE g : Lists(g, i)
    BY <2>3, <2>5
  <2>7. chosen[S] \in Nat
    BY <2>1, <2>2, <2>6, ProductNat
  <2> QED BY <2>4, <2>6, <2>7
<1> HIDE DEF c, others
<1>4. \A i \in 1 .. n : c[i].num * others(i) \in Nat
  <2> SUFFICES ASSUME NEW i \in 1 .. n PROVE c[i].num * others(i) \in Nat
    OBVIOUS
  <2>1. c[i].num \in Nat /\ others(i) \in Nat
    BY <1>2, <1>3
  <2> QED BY <2>1
<1> QED BY <1>1, <1>4

\* A total that gives every layer its least is divided without rest.
LEMMA AttentionShares ==
  ASSUME NEW n \in Nat \ {0}, NEW total \in Nat, NEW sinks \in Nat,
         n * MinPerLayer(sinks) <= total,
         NEW cums, IsSeq(cums), Len(cums) = n,
         \A i \in 1 .. n : \E m \in Nat : cums[i] \in [1 .. m -> Nat]
  PROVE  LET C == AttentionProportional(total, sinks, cums) IN
         /\ C \in [1 .. n -> Nat]
         /\ Sum(C, 1 .. n) = total
         /\ \A i \in 1 .. n : MinPerLayer(sinks) <= C[i]
         /\ \A i, j \in 1 .. n :
              Concentrations(cums)[j] <= Concentrations(cums)[i] => C[j] <= C[i] + 1
<1> DEFINE C == AttentionProportional(total, sinks, cums)
           w == Concentrations(cums)
           least == MinPerLayer(sinks)
           S == Shares(total - least * n, w)
<1>1. DOMAIN cums = 1 .. n
  BY SeqDomain
<1>2. w \in [1 .. n -> Nat]
  BY <1>1, ConcentrationsNat
<1>3. least \in Nat \ {0}
  BY DEF MinPerLayer
<1>4. C = IF SumOver(w) = 0 THEN Uniform(total, n) ELSE [i \in 1 .. n |-> least + S[i]]
  BY <1>1 DEF AttentionProportional
<1> HIDE DEF C, w, least
<1>5. CASE SumOver(w) = 0
  <2> DEFINE U == Uniform(total, n)
  <2>1. /\ U \in [1 .. n -> Nat]
        /\ Sum(U, 1 .. n) = total
        /\ \A i \in 1 .. n : least <= U[i]
        /\ \A i, j \in 1 .. n : U[j] <= U[i] + 1
    <3>1. n * least <= total
      BY DEF least
    <3> QED BY <1>3, <3>1, UniformShares
  <2>2. C = U
    BY <1>4, <1>5
  <2> HIDE DEF U
  <2>3. /\ C \in [1 .. n -> Nat]
        /\ Sum(C, 1 .. n) = total
        /\ \A i \in 1 .. n : least <= C[i]
        /\ \A i, j \in 1 .. n : w[j] <= w[i] => C[j] <= C[i] + 1
    BY <2>1, <2>2
  <2> QED BY <2>3 DEF C, w, least
<1>6. CASE SumOver(w) # 0
  <2> DEFINE amount == total - least * n
             K == [i \in 1 .. n |-> least]
             L == 1 .. n
  <2>1. amount \in Nat /\ least * n \in Nat /\ total = least * n + amount
    <3>1. n * least <= total /\ n * least = least * n /\ least * n \in Nat
      BY <1>3 DEF least
    <3> QED BY <3>1
  <2>2. S = Shares(amount, w)
    OBVIOUS
  <2>3. \A i \in L : K[i] = least
    OBVIOUS
  <2>4. C = [i \in L |-> least + S[i]]
    BY <1>4, <1>6
  <2> HIDE DEF amount, S, K
  <2>5. /\ S \in [L -> Nat] /\ Sum(S, L) = amount
        /\ \A i, j \in L : w[j] <= w[i] => S[j] <= S[i] + 1
    BY <1>2, <1>6, <2>1, <2>2, SharesOf
  <2>6. IsFiniteSet(L) /\ Cardinality(L) = n
    BY FS_Interval
  <2> HIDE DEF L
  <2>7. Sum(K, L) = least * n
    <3>1. Sum(K, L) = least * Cardinality(L)
      BY <1>3, <2>3, <2>6, SumConstant
    <3> QED BY <2>6, <3>1
  <2>8. \A i \in L : K[i] \in Nat /\ S[i] \in Nat /\ C[i] = K[i] + S[i]
    BY <1>3, <2>3, <2>4, <2>5
  <2>9. Sum(C, L) = Sum(K, L) + Sum(S, L)
    BY <2>6, <2>8, SumPlus
  <2>10. Sum(C, L) = total
    BY <2>1, <2>5, <2>7, <2>9
  <2>11. \A i \in L : C[i] \in Nat /\ least <= C[i] /\ C[i] = least + S[i]
    BY <1>3, <2>4, <2>5
  <2>12. C \in [L -> Nat]
    BY <2>4, <2>11
  <2>13. ASSUME NEW i \in L, NEW j \in L, w[j] <= w[i]
         PROVE  C[j] <= C[i] + 1
    <3>1. S[j] <= S[i] + 1 /\ S[i] \in Nat /\ S[j] \in Nat
      BY <2>5, <2>13
    <3>2. C[i] = least + S[i] /\ C[j] = least + S[j]
      BY <2>11
    <3>3. least \in Nat
      BY <1>3
    <3> QED BY <3>1, <3>2, <3>3
  <2>14. /\ C \in [L -> Nat] /\ Sum(C, L) = total
         /\ \A i \in L : least <= C[i]
         /\ \A i, j \in L : w[j] <= w[i] => C[j] <= C[i] + 1
    BY <2>10, <2>11, <2>12, <2>13
  <2>15. L = 1 .. n
    BY DEF L
  <2>16. /\ C \in [1 .. n -> Nat] /\ Sum(C, 1 .. n) = total
         /\ \A i \in 1 .. n : least <= C[i]
         /\ \A i, j \in 1 .. n : w[j] <= w[i] => C[j] <= C[i] + 1
    BY <2>14, <2>15
  <2> QED BY <2>16 DEF C, w, least
<1> QED BY <1>5, <1>6

-----------------------------------------------------------------------------
(***************************************************************************)
(* What an allocation makes of the budgets.                                *)
(***************************************************************************)

\* The attention the layers have accumulated.
Accumulated == [i \in Layers |-> layers[i].cum]

\* What a division of total over the layers is to be.
Division(cap, total, sinks, cums, allocation) ==
  /\ cap \in [Layers -> Nat]
  /\ Sum(cap, Layers) = total
  /\ \A i \in Layers : MinPerLayer(sinks) <= cap[i]
  /\ allocation = "attention_proportional" =>
       \A i, j \in Layers :
         Concentrations(cums)[j] <= Concentrations(cums)[i] => cap[j] <= cap[i] + 1

LEMMA AccumulatedOK ==
  ASSUME StoreOK(layers), LayersTyped
  PROVE  /\ IsSeq(Accumulated) /\ Len(Accumulated) = NumLayers
         /\ \A i \in Layers : \E m \in Nat : Accumulated[i] \in [1 .. m -> Nat]
<1>1. IsSeq(Accumulated) /\ Len(Accumulated) = NumLayers
  BY LayersAssumption, FunctionIsSeq DEF Accumulated, Layers
<1>2. ASSUME NEW i \in Layers
      PROVE  \E m \in Nat : Accumulated[i] \in [1 .. m -> Nat]
  <2> DEFINE x == layers[i].cum
  <2>1. MetaOK(layers[i]) /\ Size(layers[i]) \in Nat /\ Typed(layers[i])
    BY SizeIsNat DEF LayersTyped
  <2>2. IsSeq(x) /\ Len(x) = Size(layers[i])
    BY <2>1 DEF MetaOK, Parallel, Size
  <2>3. \A s \in 1 .. Size(layers[i]) : x[s] \in Nat
    BY <2>1 DEF Typed
  <2>4. Accumulated[i] = x
    BY DEF Accumulated
  <2> HIDE DEF x
  <2>5. DOMAIN x = 1 .. Size(layers[i])
    BY <2>2, SeqDomain
  <2>6. x = [s \in DOMAIN x |-> x[s]]
    BY <2>2 DEF IsSeq
  <2>7. x \in [1 .. Size(layers[i]) -> Nat]
    BY <2>3, <2>5, <2>6
  <2> QED BY <2>1, <2>4, <2>7
<1> QED BY <1>1, <1>2

LEMMA AllocatedDivides ==
  ASSUME NEW allocation \in {"uniform", "attention_proportional"},
         NEW total \in Nat, NEW sinks \in Nat,
         NumLayers * MinPerLayer(sinks) <= total,
         NEW cums, IsSeq(cums), Len(cums) = NumLayers,
         \A i \in Layers : \E m \in Nat : cums[i] \in [1 .. m -> Nat]
  PROVE  Division(Allocated(allocation, total, sinks, cums), total, sinks, cums, allocation)
<1>1. NumLayers \in Nat \ {0} /\ Layers = 1 .. NumLayers
  BY LayersAssumption DEF Layers
<1>2. MinPerLayer(sinks) \in Nat
  BY DEF MinPerLayer
<1>3. CASE allocation = "uniform"
  <2> DEFINE C == Uniform(total, NumLayers)
  <2>1. Allocated(allocation, total, sinks, cums) = C
    BY <1>3 DEF Allocated
  <2>2. /\ C \in [1 .. NumLayers -> Nat]
        /\ Sum(C, 1 .. NumLayers) = total
        /\ \A i \in 1 .. NumLayers : MinPerLayer(sinks) <= C[i]
    BY <1>1, <1>2, UniformShares
  <2> HIDE DEF C
  <2> QED BY <1>1, <1>3, <2>1, <2>2 DEF Division
<1>4. CASE allocation = "attention_proportional"
  <2> DEFINE C == AttentionProportional(total, sinks, cums)
  <2>1. Allocated(allocation, total, sinks, cums) = C
    BY <1>4 DEF Allocated
  <2>2. /\ C \in [1 .. NumLayers -> Nat]
        /\ Sum(C, 1 .. NumLayers) = total
        /\ \A i \in 1 .. NumLayers : MinPerLayer(sinks) <= C[i]
        /\ \A i, j \in 1 .. NumLayers :
             Concentrations(cums)[j] <= Concentrations(cums)[i] => C[j] <= C[i] + 1
    BY <1>1, AttentionShares
  <2> HIDE DEF C
  <2> QED BY <1>1, <2>1, <2>2 DEF Division
<1> QED BY <1>3, <1>4

LEMMA CapsTotal ==
  ASSUME CapsOK(config)
  PROVE  /\ SumOver(config.cap) = Sum(config.cap, Layers)
         /\ SumOver(config.cap) \in Nat
         /\ NumLayers * MinPerLayer(config.sinks) <= SumOver(config.cap)
<1> DEFINE least == MinPerLayer(config.sinks)
           cap == config.cap
           K == [i \in Layers |-> least]
<1>1. IsFiniteSet(Layers) /\ Cardinality(Layers) = NumLayers /\ NumLayers \in Nat
  BY LayersAssumption, FS_Interval DEF Layers
<1>2. config.sinks \in Nat
  BY SinksAssumption DEF CapsOK
<1>3. least \in Nat
  BY <1>2 DEF MinPerLayer
<1>4. DOMAIN cap = Layers /\ \A i \in Layers : cap[i] \in Nat /\ least <= cap[i]
  BY DEF CapsOK
<1>5. \A i \in Layers : K[i] = least
  OBVIOUS
<1> HIDE DEF K, cap, least
<1>6. SumOver(cap) = Sum(cap, Layers)
  BY <1>1, <1>4, SumOverIsSum
<1>7. Sum(K, Layers) = least * NumLayers
  BY <1>1, <1>3, <1>5, SumConstant
<1>8. Sum(cap, Layers) \in Nat /\ Sum(K, Layers) <= Sum(cap, Layers)
  BY <1>1, <1>3, <1>4, <1>5, SumLess
<1>9. NumLayers * least = least * NumLayers
  BY <1>1, <1>3
<1> QED BY <1>6, <1>7, <1>8, <1>9 DEF cap, least

LEMMA AllocateShape ==
  ASSUME IInv, TypesInv, Allocate
  PROVE  /\ Division(config'.cap, SumOver(config.cap), config.sinks, Accumulated,
                     request.allocation)
         /\ Enforce(layers, config'.cap, Layers)
         /\ config' = [config EXCEPT !.cap = config'.cap]
         /\ SumOver(config'.cap) = SumOver(config.cap)
<1> DEFINE cap == Allocated(request.allocation, SumOver(config.cap), config.sinks,
                            Accumulated)
<1>1. /\ config' = [config EXCEPT !.cap = cap] /\ Enforce(layers, cap, Layers)
      /\ pc = "allocate"
  BY DEF Allocate, Accumulated
<1>2. CapsOK(config) /\ StoreOK(layers) /\ LayersTyped
  BY DEF IInv, TypesInv
<1>3. config \in [cap : [Layers -> Nat \ {0}], sinks : SinkCounts] /\ config.sinks \in Nat
  BY <1>2, SinksAssumption DEF CapsOK
<1>4. request.allocation \in {"uniform", "attention_proportional"}
  <2>1. request \in Requests /\ request.allocation # "none"
    BY <1>1 DEF IInv, Progress
  <2>2. request.allocation \in {"none", "uniform", "attention_proportional"}
    BY <2>1 DEF Requests
  <2> QED BY <2>1, <2>2
<1>5. Division(cap, SumOver(config.cap), config.sinks, Accumulated, request.allocation)
  BY <1>2, <1>3, <1>4, CapsTotal, AccumulatedOK, AllocatedDivides
<1> HIDE DEF cap
<1>6. config'.cap = cap /\ config'.sinks = config.sinks
  BY <1>1, <1>3
<1>7. SumOver(cap) = SumOver(config.cap)
  <2>1. IsFiniteSet(Layers)
    BY LayersAssumption, FS_Interval DEF Layers
  <2>2. DOMAIN cap = Layers /\ Sum(cap, Layers) = SumOver(config.cap)
    BY <1>5 DEF Division
  <2> QED BY <2>1, <2>2, SumOverIsSum
<1> QED BY <1>1, <1>5, <1>6, <1>7

LEMMA TypesAllocate ==
  ASSUME IInv, TypesInv, Allocate
  PROVE  TypesInv'
<1>1. /\ Division(config'.cap, SumOver(config.cap), config.sinks, Accumulated,
                  request.allocation)
      /\ Enforce(layers, config'.cap, Layers)
      /\ config' = [config EXCEPT !.cap = config'.cap]
      /\ fed' = fed /\ scored' = scored
  BY AllocateShape DEF Allocate
<1>2. StoreOK(layers) /\ policy \in PolicyNames
  BY DEF IInv, Fixed
<1>3. LayersTyped'
  BY <1>1, <1>2, EnforceThins, TypesThin DEF LayersTyped
<1>4. Bounded'
  BY <1>1 DEF TypesInv, Bounded
<1>5. CapsOK(config')
  <2>1. /\ config \in [cap : [Layers -> Nat \ {0}], sinks : SinkCounts]
        /\ config.sinks \in Nat
    BY SinksAssumption DEF TypesInv, CapsOK
  <2>2. MinPerLayer(config.sinks) \in Nat \ {0}
    BY <2>1 DEF MinPerLayer
  <2>3. config'.cap \in [Layers -> Nat]
        /\ \A i \in Layers : MinPerLayer(config.sinks) <= config'.cap[i]
    BY <1>1 DEF Division
  <2>4. config'.sinks = config.sinks
    BY <1>1, <2>1
  <2>5. \A i \in Layers : config'.cap[i] \in Nat \ {0}
    BY <2>2, <2>3
  <2>6. config'.cap \in [Layers -> Nat \ {0}]
    BY <2>3, <2>5
  <2>7. config' \in [cap : [Layers -> Nat \ {0}], sinks : SinkCounts]
    BY <1>1, <2>1, <2>6
  <2> QED BY <2>3, <2>4, <2>7 DEF CapsOK
<1>6. CapsOK(config)'
  BY <1>5 DEF CapsOK
<1> QED BY <1>3, <1>4, <1>6 DEF TypesInv

-----------------------------------------------------------------------------
(***************************************************************************)
(* Every step keeps the types.                                             *)
(***************************************************************************)

LEMMA TypesStep == IInv /\ SignalsInv /\ TypesInv /\ [Next]_vars => TypesInv'
<1> SUFFICES ASSUME IInv, SignalsInv, TypesInv, [Next]_vars PROVE TypesInv'
  OBVIOUS
<1>0. step \in Nat
  BY DEF SignalsInv
<1>1. CASE \E r \in Requests : Start(r)
  BY <1>1, TypesStart
<1>2. CASE OpenCall \/ OpenModel \/ Raise \/ Unwind \/ Finish \/ UNCHANGED vars
  BY <1>2, TypesAside
<1>3. CASE \E focus \in 1 .. MaxLength : Attend(focus)
  BY <1>0, <1>3, TypesAttend
<1>4. CASE ModelNotes \/ Absorb
  BY <1>4, TypesNoted
<1>5. CASE CloseModel \/ CloseCall
  BY <1>5, TypesClose
<1>6. CASE Allocate
  BY <1>6, TypesAllocate
<1>7. CASE Rest
  BY <1>7, TypesAside DEF Rest
<1> QED BY <1>1, <1>2, <1>3, <1>4, <1>5, <1>6, <1>7 DEF Next

LEMMA AlwaysTypesInv == Spec => [](IInv /\ SignalsInv /\ TypesInv)
<1>1. Init => IInv /\ SignalsInv /\ TypesInv
  BY InitOK, SignalsInit, TypesInit
<1>2. IInv /\ SignalsInv /\ TypesInv /\ [Next]_vars => (IInv /\ SignalsInv /\ TypesInv)'
  BY StepPreserves, SignalsStep, TypesStep
<1> QED BY <1>1, <1>2, PTL DEF Spec

-----------------------------------------------------------------------------
(***************************************************************************)
(* The tokens of a layer, as KVCache sees them: sets of positions.         *)
(***************************************************************************)

\* The tokens in slots A of layer l.
TokensIn(l, A) == {l.positions[s] : s \in A}

LEMMA AscendingOnto ==
  ASSUME NEW n \in Nat, NEW S \in SUBSET (1 .. n), NEW s \in S
  PROVE  \E k \in 1 .. Cardinality(S) : Ascending(S)[k] = s
<1> DEFINE c == Cardinality(S)
           f == Ascending(S)
<1>1. IsFiniteSet(S) /\ c \in Nat
  BY SlotsAreFinite
<1>2. IsFiniteSet(1 .. c) /\ Cardinality(1 .. c) = c
  BY <1>1, FS_Interval
<1>3. \A k \in 1 .. c : f[k] \in S
  BY AscendingSlots
<1>4. f = [k \in 1 .. c |-> f[k]]
  BY DEF Ascending
<1>5. \A j, k \in 1 .. c : f[j] = f[k] => j = k
  BY AscendingDiffer
<1> HIDE DEF f, c
<1>6. f \in [1 .. c -> S]
  BY <1>3, <1>4
<1>7. f \in Injection(1 .. c, S)
  BY <1>5, <1>6 DEF Injection, IsInjective
<1>8. f \in Surjection(1 .. c, S)
  BY <1>1, <1>2, <1>7, FS_Injection DEF c
<1>9. \E k \in 1 .. c : f[k] = s
  BY <1>8 DEF Surjection
<1> QED BY <1>9 DEF f, c

LEMMA TokensOfSlots ==
  ASSUME NEW l, MetaOK(l)
  PROVE  /\ Size(l) \in Nat
         /\ Tokens(l) = TokensIn(l, 1 .. Size(l))
         /\ Tokens(l) \in SUBSET Nat
<1>1. l.positions \in Seq(Nat) /\ Size(l) \in Nat
  BY LenProperties DEF MetaOK, Size
<1>2. DOMAIN l.positions = 1 .. Size(l)
  BY <1>1 DEF Size
<1>3. Tokens(l) = TokensIn(l, 1 .. Size(l))
  BY <1>2 DEF Tokens, Range, TokensIn
<1>4. \A s \in 1 .. Size(l) : l.positions[s] \in Nat
  BY <1>1, <1>2
<1> QED BY <1>1, <1>3, <1>4 DEF TokensIn

\* Slots hold different tokens: counting one is counting the other.
LEMMA TokensCounted ==
  ASSUME NEW l, MetaOK(l), Distinct(l), NEW A \in SUBSET (1 .. Size(l))
  PROVE  /\ IsFiniteSet(TokensIn(l, A))
         /\ Cardinality(TokensIn(l, A)) = Cardinality(A)
<1> DEFINE T == TokensIn(l, A)
           f == [s \in A |-> l.positions[s]]
<1>1. IsFiniteSet(A)
  BY TokensOfSlots, SlotsAreFinite
<1>2. f \in [A -> T] /\ \A s \in A : f[s] = l.positions[s]
  BY DEF TokensIn
<1>3. \A s, t \in A : f[s] = f[t] => s = t
  BY DEF Distinct
<1>4. \A x \in T : \E s \in A : f[s] = x
  BY DEF TokensIn
<1> HIDE DEF f, T
<1>5. f \in Injection(A, T) /\ f \in Surjection(A, T)
  BY <1>2, <1>3, <1>4 DEF Injection, IsInjective, Surjection
<1>6. ExistsBijection(A, T)
  BY <1>5 DEF ExistsBijection, Bijection
<1>7. IsFiniteSet(T) /\ Cardinality(T) = Cardinality(A)
  BY <1>1, <1>6, FS_Bijection
<1> QED BY <1>7 DEF T

LEMMA TokensKept ==
  ASSUME NEW l, MetaOK(l), NEW S \in SUBSET (1 .. Size(l)), NEW m, m = KeepSlots(l, S)
  PROVE  Tokens(m) = TokensIn(l, S)
<1> DEFINE c == Cardinality(S)
<1>1. Size(l) \in Nat /\ c \in Nat
  BY TokensOfSlots, SlotsAreFinite
<1>2. m.positions = Gather(l.positions, S)
  BY DEF KeepSlots, MetaOK
<1>3. DOMAIN m.positions = 1 .. c
        /\ \A k \in 1 .. c : m.positions[k] = l.positions[Ascending(S)[k]]
  BY <1>2 DEF Gather
<1>4. \A k \in 1 .. c : Ascending(S)[k] \in S
  BY <1>1, AscendingSlots
<1>5. \A s \in S : \E k \in 1 .. c : Ascending(S)[k] = s
  BY <1>1, AscendingOnto
<1> HIDE DEF c
<1>6. ASSUME NEW p \in Tokens(m) PROVE p \in TokensIn(l, S)
  BY <1>3, <1>4, <1>6 DEF Tokens, Range, TokensIn
<1>7. ASSUME NEW p \in TokensIn(l, S) PROVE p \in Tokens(m)
  <2>1. PICK s \in S : p = l.positions[s]
    BY DEF TokensIn
  <2>2. PICK k \in 1 .. c : Ascending(S)[k] = s
    BY <1>5
  <2>3. p = m.positions[k] /\ k \in DOMAIN m.positions
    BY <1>3, <2>1, <2>2
  <2> QED BY <2>3 DEF Tokens, Range
<1> QED BY <1>6, <1>7

-----------------------------------------------------------------------------
(***************************************************************************)
(* The layers of KVCache that forward passes present.                      *)
(***************************************************************************)

\* What KVCache sees of layer l under n sinks, and of the layers ls.
Row(l, n) ==
  [tokens |-> Tokens(l), next |-> l.next, sinks |-> n, quant |-> FALSE,
   away |-> FALSE, hosted |-> 0]

Rows(ls, n) == [i \in Layers |-> Row(ls[i], n)]

LEMMA Seen ==
  /\ [i \in Layers |-> CacheLayer(layers[i])] = Rows(layers, config.sinks)
  /\ [i \in Layers |-> CacheLayer(layers[i])]' = Rows(layers', config'.sinks)
BY DEF CacheLayer, Row, Rows, Layers

LEMMA OpensDefer ==
  ASSUME IInv, OpenCall \/ OpenModel
  PROVE  KV!EnterDefer
<1>1. /\ EnterBlock /\ layers' = layers /\ activity' = activity /\ config' = config
      /\ pc = "call" \/ pc = "ready"
  BY DEF OpenCall, OpenModel, setup, vars
<1>2. deferred = <<>> \/ deferred = <<TRUE>>
  BY <1>1 DEF IInv, Blocks
<1>3. Len(deferred) < 2
  <2>1. CASE deferred = <<>>
    BY <2>1, BlockTuples
  <2>2. CASE deferred = <<TRUE>>
    BY <2>2, BlockTuples
  <2> QED BY <1>2, <2>1, <2>2
<1>4. [i \in Layers |-> CacheLayer(layers[i])]' = [i \in Layers |-> CacheLayer(layers[i])]
  BY <1>1, Seen
<1> QED BY <1>1, <1>3, <1>4 DEF KV!EnterDefer, EnterBlock

LEMMA StartClears ==
  ASSUME NEW r, Start(r)
  PROVE  KV!ClearAll
<1>1. /\ layers' = [i \in Layers |-> NewLayer]
      /\ UNCHANGED <<config, autoEnforce, deferred, activity>>
      /\ activity.evictedTokens <= MaxEvicted
  BY DEF Start, setup
<1>2. Tokens(NewLayer) = {} /\ NewLayer.next = 0
  BY DEF NewLayer, Tokens, Range
<1>3. Rows(layers', config'.sinks)
        = [i \in Layers |-> [KV!NewLayer(config) EXCEPT
                               !.sinks = Rows(layers, config.sinks)[i].sinks]]
  BY <1>1, <1>2 DEF Rows, Row, KV!NewLayer
<1>4. KV!Layers = Layers
  BY DEF KV!Layers, Layers
<1>5. [i \in Layers |-> CacheLayer(layers[i])]'
        = [i \in Layers |-> [KV!NewLayer(config) EXCEPT
             !.sinks = [j \in Layers |-> CacheLayer(layers[j])][i].sinks]]
  BY <1>3, Seen
<1> QED BY <1>1, <1>4, <1>5 DEF KV!ClearAll

-----------------------------------------------------------------------------
(***************************************************************************)
(* Enforcement, as KVCache sees it.                                        *)
(***************************************************************************)

LEMMA CardinalitySeen == ASSUME NEW S PROVE KV!Cardinality(S) = Cardinality(S)
BY DEF KV!Cardinality, Cardinality

LEMMA CountSeen ==
  ASSUME NEW l, MetaOK(l), Distinct(l), NEW n
  PROVE  /\ Size(l) \in Nat /\ NumTokens(l) = Size(l)
         /\ IsFiniteSet(Tokens(l)) /\ KV!NumTokens(Row(l, n)) = Size(l)
<1>1. Size(l) \in Nat /\ Tokens(l) = TokensIn(l, 1 .. Size(l))
  BY TokensOfSlots
<1>2. IsFiniteSet(Tokens(l)) /\ Cardinality(Tokens(l)) = Cardinality(1 .. Size(l))
  BY <1>1, TokensCounted
<1>3. Cardinality(1 .. Size(l)) = Size(l)
  BY <1>1, FS_Interval
<1>4. KV!NumTokens(Row(l, n)) = Cardinality(Tokens(l))
  BY CardinalitySeen DEF KV!NumTokens, Row
<1> QED BY <1>1, <1>2, <1>3, <1>4 DEF NumTokens, Size

LEMMA OverSeen ==
  ASSUME NEW l, MetaOK(l), Distinct(l), NEW n, NEW cap \in Nat \ {0}
  PROVE  KV!Over(Row(l, n), cap) <=> Over(l, cap)
BY CountSeen DEF KV!Over, Over

\* The sinks never fill a budget that is no smaller than their number.
LEMMA NeverRefused ==
  ASSUME NEW l, MetaOK(l), NEW n \in Nat, NEW cap \in Nat, n <= cap
  PROVE  KV!Refuses(Row(l, n), cap) <=> FALSE
<1> DEFINE P == {p \in Tokens(l) : p < n}
<1>1. KV!Protected(Row(l, n)) = P
  BY DEF KV!Protected, Row
<1>2. P \in SUBSET (0 .. n - 1)
  <2>1. \A p \in P : p \in Nat /\ p < n
    BY TokensOfSlots
  <2>2. \A p \in Nat : p < n => p \in 0 .. n - 1
    OBVIOUS
  <2> QED BY <2>1, <2>2
<1>3. IsFiniteSet(0 .. n - 1) /\ Cardinality(0 .. n - 1) = n
  <2>1. 0 \in Int /\ n - 1 \in Int /\ (0 > n - 1 <=> n = 0) /\ n - 1 - 0 + 1 = n
    OBVIOUS
  <2> QED BY <2>1, FS_Interval
<1> HIDE DEF P
<1>4. Cardinality(P) <= n /\ Cardinality(P) \in Nat
  BY <1>2, <1>3, FS_Subset, FS_CardinalityType
<1>5. KV!Refuses(Row(l, n), cap) <=> Cardinality(P) > cap
  BY <1>1, CardinalitySeen DEF KV!Refuses
<1> QED BY <1>4, <1>5

\* What the policy keeps is what KVCache lets a policy of any scores keep.
LEMMA SelectionSeen ==
  ASSUME NEW l, MetaOK(l), Distinct(l), policy \in PolicyNames, NEW cap,
         NEW kept \in Kept(l, cap)
  PROVE  /\ kept \in SUBSET (1 .. Size(l))
         /\ TokensIn(l, kept) \in KV!Selections(Row(l, config.sinks), cap)
<1> DEFINE T == TokensIn(l, kept)
<1>1. /\ kept \in SUBSET (1 .. Size(l)) /\ Cardinality(kept) = cap
      /\ Protected(l) \subseteq kept
  BY ScoresAllSlots DEF Kept, Selected, Size
<1>2. Cardinality(T) = cap
  BY <1>1, TokensCounted
<1>3. Tokens(l) = TokensIn(l, 1 .. Size(l)) /\ DOMAIN l.positions = 1 .. Size(l)
  BY TokensOfSlots DEF MetaOK, Size
<1>4. T \in SUBSET Tokens(l)
  BY <1>1, <1>3 DEF TokensIn
<1>5. {p \in Tokens(l) : p < config.sinks} \subseteq T
  BY <1>1, <1>3 DEF TokensIn, Protected
<1> HIDE DEF T
<1>6. KV!Favoured(Row(l, config.sinks), T)
  BY DEF KV!Favoured
<1>7. T \in KV!Selections(Row(l, config.sinks), cap)
  BY <1>2, <1>4, <1>5, <1>6, CardinalitySeen
  DEF KV!Selections, KV!Protected, Row
<1> QED BY <1>1, <1>7 DEF T

LEMMA KeepSeen ==
  ASSUME NEW l, MetaOK(l), NEW kept \in SUBSET (1 .. Size(l)), NEW n
  PROVE  Row(KeepSlots(l, kept), n) = KV!KeepIn(Row(l, n), TokensIn(l, kept))
<1>1. Tokens(KeepSlots(l, kept)) = TokensIn(l, kept)
  BY TokensKept
<1>2. KeepSlots(l, kept).next = l.next
  BY KeepSlotsOK DEF Size
<1> QED BY <1>1, <1>2 DEF Row, KV!KeepIn

Sizes(ls) == [i \in Layers |-> Size(ls[i])]

LEMMA TotalIsSum ==
  ASSUME NEW ls
  PROVE  TotalTokens(ls) = Sum(Sizes(ls), Layers)
<1> DEFINE Lists(g) == g = [s \in SUBSET Layers |-> IF s = {} THEN 0
             ELSE NumTokens(ls[CHOOSE x \in s : TRUE]) + g[s \ {CHOOSE x \in s : TRUE}]]
           F == Sizes(ls)
<1>1. TotalTokens(ls) = (CHOOSE g : Lists(g))[Layers]
  BY DEF TotalTokens, MapThenSumSet, MapThenFoldSet
<1>2. \A i \in Layers : NumTokens(ls[i]) = F[i]
  BY DEF Sizes, NumTokens, Size
<1>3. ASSUME NEW g PROVE Lists(g) <=> IsSum(g, F, Layers)
  <2>1. ASSUME NEW s \in SUBSET Layers
        PROVE  (IF s = {} THEN 0 ELSE NumTokens(ls[Pick(s)]) + g[s \ {Pick(s)}])
                 = (IF s = {} THEN 0 ELSE F[Pick(s)] + g[s \ {Pick(s)}])
    BY <1>2, PickIn
  <2>2. [s \in SUBSET Layers |-> IF s = {} THEN 0
                                 ELSE NumTokens(ls[Pick(s)]) + g[s \ {Pick(s)}]]
          = [s \in SUBSET Layers |-> IF s = {} THEN 0 ELSE F[Pick(s)] + g[s \ {Pick(s)}]]
    BY <2>1
  <2> HIDE DEF F
  <2> QED BY <2>2 DEF IsSum, Pick
<1> HIDE DEF Lists, F
<1>4. IsFiniteSet(Layers)
  BY LayersAssumption, FS_Interval DEF Layers
<1>5. PICK sums : IsSum(sums, F, Layers) /\ Sum(F, Layers) = sums[Layers]
  BY <1>4, SumIs
<1>6. PICK chosen : IsSum(chosen, F, Layers) /\ chosen = CHOOSE g : Lists(g)
  BY <1>3, <1>5
<1>7. Layers \in SUBSET Layers
  OBVIOUS
<1>8. chosen[Layers] = sums[Layers]
  BY <1>4, <1>5, <1>6, <1>7, SumUnique
<1> QED BY <1>1, <1>5, <1>6, <1>8 DEF F

LEMMA TotalSeenIsSum ==
  ASSUME NEW ls, StoreOK(ls), \A i \in Layers : Distinct(ls[i]), NEW n
  PROVE  KV!TotalTokens(Rows(ls, n)) = Sum(Sizes(ls), Layers)
<1> DEFINE rows == Rows(ls, n)
           Lists(g) == g = [s \in SUBSET Layers |-> IF s = {} THEN 0
             ELSE KV!NumTokens(rows[CHOOSE x \in s : TRUE])
                    + g[s \ {CHOOSE x \in s : TRUE}]]
           F == Sizes(ls)
<1>1. KV!TotalTokens(rows) = (CHOOSE g : Lists(g))[Layers]
  BY DEF KV!TotalTokens, KV!Layers, Layers, KV!MapThenSumSet, KV!MapThenFoldSet
<1>2. \A i \in Layers : KV!NumTokens(rows[i]) = F[i]
  BY CountSeen DEF Sizes, Rows, StoreOK
<1>3. ASSUME NEW g PROVE Lists(g) <=> IsSum(g, F, Layers)
  <2>1. ASSUME NEW s \in SUBSET Layers
        PROVE  (IF s = {} THEN 0 ELSE KV!NumTokens(rows[Pick(s)]) + g[s \ {Pick(s)}])
                 = (IF s = {} THEN 0 ELSE F[Pick(s)] + g[s \ {Pick(s)}])
    BY <1>2, PickIn
  <2>2. [s \in SUBSET Layers |-> IF s = {} THEN 0
                                 ELSE KV!NumTokens(rows[Pick(s)]) + g[s \ {Pick(s)}]]
          = [s \in SUBSET Layers |-> IF s = {} THEN 0 ELSE F[Pick(s)] + g[s \ {Pick(s)}]]
    BY <2>1
  <2> HIDE DEF F
  <2> QED BY <2>2 DEF IsSum, Pick
<1> HIDE DEF Lists, F
<1>4. IsFiniteSet(Layers)
  BY LayersAssumption, FS_Interval DEF Layers
<1>5. PICK sums : IsSum(sums, F, Layers) /\ Sum(F, Layers) = sums[Layers]
  BY <1>4, SumIs
<1>6. PICK chosen : IsSum(chosen, F, Layers) /\ chosen = CHOOSE g : Lists(g)
  BY <1>3, <1>5
<1>7. Layers \in SUBSET Layers
  OBVIOUS
<1>8. chosen[Layers] = sums[Layers]
  BY <1>4, <1>5, <1>6, <1>7, SumUnique
<1> QED BY <1>1, <1>5, <1>6, <1>8 DEF F

LEMMA SumStrictlyLess ==
  ASSUME NEW S, IsFiniteSet(S), NEW F, NEW G, NEW x \in S,
         \A i \in S : F[i] \in Nat /\ G[i] \in Nat /\ F[i] <= G[i],
         F[x] < G[x]
  PROVE  Sum(F, S) \in Nat /\ Sum(G, S) \in Nat /\ Sum(F, S) < Sum(G, S)
<1> DEFINE H == [i \in S |-> IF i = x THEN F[i] + 1 ELSE F[i]]
           P == [i \in S |-> IF i = x THEN 1 ELSE 0]
<1>1. \A i \in S : /\ H[i] = F[i] + P[i] /\ P[i] = (IF i = x THEN 1 ELSE 0)
                   /\ P[i] \in Nat
  OBVIOUS
<1>2. \A i \in S : H[i] \in Nat /\ H[i] <= G[i]
  OBVIOUS
<1> HIDE DEF H, P
<1>3. Sum(H, S) = Sum(F, S) + Sum(P, S)
  BY <1>1, SumPlus
<1>4. Sum(P, S) = 1
  BY <1>1, SumPoint
<1>5. Sum(H, S) <= Sum(G, S) /\ Sum(G, S) \in Nat
  BY <1>2, SumLess
<1>6. Sum(F, S) \in Nat
  BY SumNat
<1> QED BY <1>3, <1>4, <1>5, <1>6

LEMMA EnforceSeen ==
  ASSUME StoreOK(layers), \A i \in Layers : Distinct(layers[i]), policy \in PolicyNames,
         NEW c, c.cap \in [Layers -> Nat \ {0}], config.sinks \in Nat,
         \A i \in Layers : config.sinks <= c.cap[i], config'.sinks = config.sinks,
         Enforce(layers, c.cap, Layers)
  PROVE  KV!Enforce([i \in Layers |-> CacheLayer(layers[i])], c, Layers)
<1> DEFINE n == config.sinks
           cap == c.cap
           rows == Rows(layers, n)
           over == {i \in Layers : Over(layers[i], cap[i])}
<1>1. PICK kept \in [over -> UNION {Kept(layers[i], cap[i]) : i \in over}] :
        /\ \A i \in over : kept[i] \in Kept(layers[i], cap[i])
        /\ layers' = [i \in Layers |-> IF i \in over THEN KeepSlots(layers[i], kept[i])
                                       ELSE layers[i]]
        /\ activity' =
             IF over = {} THEN activity
             ELSE [evictions |-> activity.evictions + 1,
                   evictedTokens |-> activity.evictedTokens
                                       + (TotalTokens(layers) - TotalTokens(layers'))]
  BY DEF Enforce
<1> DEFINE K == [i \in over |-> TokensIn(layers[i], kept[i])]
<1>2. \A i \in Layers : MetaOK(layers[i]) /\ cap[i] \in Nat \ {0} /\ cap[i] \in Nat /\ n <= cap[i]
  BY DEF StoreOK
<1>3. \A i \in Layers : rows[i] = Row(layers[i], n)
  BY DEF Rows
<1>4. {i \in Layers : KV!Over(rows[i], cap[i])} = over
  <2>1. \A i \in Layers : KV!Over(rows[i], cap[i]) <=> Over(layers[i], cap[i])
    BY <1>2, <1>3, OverSeen
  <2> QED BY <2>1
<1>5. {i \in over : KV!Refuses(rows[i], cap[i])} = {}
  <2>1. \A i \in Layers : KV!Refuses(rows[i], cap[i]) <=> FALSE
    BY <1>2, <1>3, NeverRefused
  <2> QED BY <2>1
<1>6. KV!Before(over, {}) = over
  BY DEF KV!Before
<1>7. \A i \in over : /\ kept[i] \in SUBSET (1 .. Size(layers[i]))
                      /\ K[i] \in KV!Selections(rows[i], cap[i])
  <2> SUFFICES ASSUME NEW i \in over
               PROVE  /\ kept[i] \in SUBSET (1 .. Size(layers[i]))
                      /\ K[i] \in KV!Selections(rows[i], cap[i])
    OBVIOUS
  <2>1. i \in Layers /\ kept[i] \in Kept(layers[i], cap[i])
    BY <1>1
  <2>2. /\ kept[i] \in SUBSET (1 .. Size(layers[i]))
        /\ TokensIn(layers[i], kept[i]) \in KV!Selections(Row(layers[i], config.sinks), cap[i])
    BY <1>2, <2>1, SelectionSeen
  <2>3. K[i] = TokensIn(layers[i], kept[i])
    OBVIOUS
  <2> QED BY <1>3, <2>1, <2>2, <2>3
<1>8. K \in [over -> UNION {KV!Selections(rows[i], cap[i]) : i \in over}]
  <2>1. \A i \in over : K[i] \in UNION {KV!Selections(rows[j], cap[j]) : j \in over}
    BY <1>7
  <2>2. K = [i \in over |-> K[i]]
    OBVIOUS
  <2> HIDE DEF K
  <2> QED BY <2>1, <2>2
<1>9. Rows(layers', n) = [i \in Layers |-> IF i \in over THEN KV!KeepIn(rows[i], K[i])
                                           ELSE rows[i]]
  <2>1. \A i \in over : Row(KeepSlots(layers[i], kept[i]), n) = KV!KeepIn(rows[i], K[i])
    BY <1>2, <1>3, <1>7, KeepSeen
  <2>2. \A i \in Layers : Row(layers'[i], n) = IF i \in over THEN KV!KeepIn(rows[i], K[i])
                                               ELSE rows[i]
    BY <1>1, <1>3, <2>1
  <2> HIDE DEF K, over, rows
  <2> QED BY <2>2 DEF Rows
<1>10. activity' = KV!Counted({}, KV!TotalTokens(rows) - KV!TotalTokens(Rows(layers', n)))
  <2> DEFINE A == Sum(Sizes(layers), Layers)
             B == Sum(Sizes(layers'), Layers)
  <2>1. /\ StoreOK(layers')
        /\ \A i \in Layers : Trimmed(layers[i], layers'[i], cap[i])
    BY EnforceOK
  <2>2. \A i \in Layers : Distinct(layers'[i])
    BY <1>2, EnforceThins, ThinnedReflects
  <2>3. /\ TotalTokens(layers) = A /\ TotalTokens(layers') = B
        /\ KV!TotalTokens(rows) = A /\ KV!TotalTokens(Rows(layers', n)) = B
    BY <2>1, <2>2, TotalIsSum, TotalSeenIsSum
  <2>4. IsFiniteSet(Layers)
    BY LayersAssumption, FS_Interval DEF Layers
  <2>5. \A i \in Layers : /\ Sizes(layers)[i] = Size(layers[i]) /\ Size(layers[i]) \in Nat
                          /\ Sizes(layers')[i] = Size(layers'[i]) /\ Size(layers'[i]) \in Nat
                          /\ Size(layers'[i]) <= Size(layers[i])
    BY <2>1, SizeIsNat DEF Sizes, Trimmed
  <2>6. CASE over = {}
    <3>1. layers' = layers
      BY <1>1, <2>6 DEF StoreOK
    <3>2. A = B /\ A \in Nat
      BY <2>4, <2>5, <3>1, SumNat
    <3>3. activity' = activity
      BY <1>1, <2>6
    <3> HIDE DEF A, B, rows, over
    <3>4. KV!TotalTokens(rows) - KV!TotalTokens(Rows(layers', n)) = 0
      BY <2>3, <3>2
    <3> QED BY <3>3, <3>4 DEF KV!Counted
  <2>7. CASE over # {}
    <3>1. PICK i \in Layers : Size(layers[i]) > cap[i]
      BY <2>7 DEF Over, NumTokens, Size
    <3>2. Size(layers'[i]) = cap[i]
      BY <2>1, <3>1 DEF Trimmed
    <3>3. Size(layers'[i]) < Size(layers[i])
      BY <1>2, <2>5, <3>1, <3>2
    <3>4. A \in Nat /\ B \in Nat /\ B < A
      BY <2>4, <2>5, <3>3, SumStrictlyLess
    <3>5. activity' = [evictions |-> activity.evictions + 1,
                       evictedTokens |-> activity.evictedTokens
                                           + (TotalTokens(layers) - TotalTokens(layers'))]
      BY <1>1, <2>7
    <3> HIDE DEF A, B, rows, over
    <3>6. activity' = [evictions |-> activity.evictions + 1,
                       evictedTokens |-> activity.evictedTokens + (A - B)]
      BY <2>3, <3>5
    <3>7. A - B # 0
      BY <3>4
    <3> QED BY <2>3, <3>6, <3>7 DEF KV!Counted
  <2> QED BY <2>6, <2>7
<1>11. KV!Outcome({}) = "ok"
  BY DEF KV!Outcome
<1>12. /\ [i \in Layers |-> CacheLayer(layers[i])] = rows
       /\ [i \in Layers |-> CacheLayer(layers[i])]' = Rows(layers', n)
  BY Seen
<1>13. KV!Layers = Layers
  BY DEF KV!Layers, Layers
<1> HIDE DEF K, rows, over, cap, n
<1> DEFINE after == [i \in Layers |-> CacheLayer(layers[i])]'
<1>14. after = [i \in KV!Layers |-> IF i \in over THEN KV!KeepIn(rows[i], K[i]) ELSE rows[i]]
  BY <1>9, <1>12, <1>13
<1>15. activity' = KV!Counted({}, KV!TotalTokens(rows) - KV!TotalTokens(after))
  BY <1>10, <1>12
<1>16. \A i \in over : K[i] \in KV!Selections(rows[i], c.cap[i])
  BY <1>7 DEF cap
<1>17. K \in [over -> UNION {KV!Selections(rows[i], c.cap[i]) : i \in over}]
  BY <1>8 DEF cap
<1>18. /\ {i \in Layers : KV!Over(rows[i], c.cap[i])} = over
       /\ {i \in over : KV!Refuses(rows[i], c.cap[i])} = {}
  BY <1>4, <1>5 DEF cap
<1>19. KV!Enforce(rows, c, Layers)
  <2> DEFINE Done(o, b, d) ==
        \E k \in [d -> UNION {KV!Selections(rows[i], c.cap[i]) : i \in d}] :
          /\ \A i \in d : k[i] \in KV!Selections(rows[i], c.cap[i])
          /\ after = [i \in KV!Layers |-> IF i \in d THEN KV!KeepIn(rows[i], k[i]) ELSE rows[i]]
          /\ activity' = KV!Counted(b, KV!TotalTokens(rows) - KV!TotalTokens(after))
          /\ "ok" = KV!Outcome(b)
  <2>1. Done(over, {}, over)
    <3> HIDE DEF after
    <3> QED BY <1>11, <1>14, <1>15, <1>16, <1>17
  <2>2. KV!Enforce(rows, c, Layers)
          <=> Done({i \in Layers : KV!Over(rows[i], c.cap[i])},
                   {i \in {i \in Layers : KV!Over(rows[i], c.cap[i])} :
                        KV!Refuses(rows[i], c.cap[i])},
                   KV!Before({i \in Layers : KV!Over(rows[i], c.cap[i])},
                             {i \in {i \in Layers : KV!Over(rows[i], c.cap[i])} :
                                KV!Refuses(rows[i], c.cap[i])}))
    BY DEF KV!Enforce
  <2> HIDE DEF Done
  <2> QED BY <1>6, <1>18, <2>1, <2>2
<1> QED BY <1>12, <1>19

-----------------------------------------------------------------------------
(***************************************************************************)
(* Every step of a pass is a call of KVCache, or none.                     *)
(***************************************************************************)

LEMMA LeaveSeen ==
  ASSUME IInv, CapsOK(config), config' = config, NEW b \in BOOLEAN, LeaveBlock(b),
         deferred # <<>>, b => \A i \in Layers : Distinct(layers[i])
  PROVE  KV!ExitDefer(b)
<1> DEFINE rows == [i \in Layers |-> CacheLayer(layers[i])]
<1>1. /\ deferred' = SubSeq(deferred, 1, Len(deferred) - 1)
      /\ autoEnforce' = deferred[Len(deferred)]
  BY DEF LeaveBlock
<1>2. CASE Owner /\ autoEnforce' /\ b
  <2>1. Enforce(layers, config.cap, Layers)
    BY <1>2 DEF LeaveBlock
  <2>2. /\ config.cap \in [Layers -> Nat \ {0}] /\ config.sinks \in Nat
        /\ \A i \in Layers : config.cap[i] \in Nat /\ MinPerLayer(config.sinks) <= config.cap[i]
    BY SinksAssumption DEF CapsOK
  <2>3. \A i \in Layers : config.sinks <= config.cap[i]
    <3>1. config.sinks <= MinPerLayer(config.sinks) /\ MinPerLayer(config.sinks) \in Nat
      BY <2>2 DEF MinPerLayer
    <3> QED BY <2>2, <3>1
  <2>4. StoreOK(layers) /\ policy \in PolicyNames
    BY DEF IInv, Fixed
  <2>5. KV!Enforce(rows, config, Layers)
    BY <1>2, <2>1, <2>2, <2>3, <2>4, EnforceSeen
  <2>6. KV!Layers = Layers
    BY DEF KV!Layers, Layers
  <2> HIDE DEF rows
  <2> QED BY <1>1, <1>2, <2>5, <2>6 DEF KV!ExitDefer, Owner, rows
<1>3. CASE ~(Owner /\ autoEnforce' /\ b)
  <2>1. layers' = layers /\ activity' = activity
    BY <1>3 DEF LeaveBlock
  <2>2. KV!Settle(rows)
    BY <2>1, Seen DEF KV!Settle
  <2> HIDE DEF rows
  <2> QED BY <1>1, <1>3, <2>2 DEF KV!ExitDefer, Owner, rows
<1> QED BY <1>2, <1>3

LEMMA GrownTokens ==
  ASSUME NEW l, MetaOK(l), NEW n \in Nat \ {0}, NEW m, m = AppendRows(l, l.next, n)
  PROVE  Tokens(m) = Tokens(l) \cup (l.next .. l.next + n - 1)
<1> DEFINE len == Size(l)
<1>1. MetaOK(m) /\ l.next \in Nat /\ len \in Nat /\ Size(m) = len + n
  BY AppendRowsOK, TokensOfSlots DEF MetaOK, Size
<1>2. /\ \A s \in 1 .. len : m.positions[s] = l.positions[s]
      /\ \A k \in 1 .. n : m.positions[len + k] = l.next + k - 1
  <2>1. Len(l.positions) = len /\ l.positions \in Seq(Nat)
    BY DEF Size, MetaOK
  <2>2. \A k \in 1 .. n : m.positions[len + k] = l.next + k - 1
    <3>1. \A k \in 1 .. n : m.positions[Len(l.positions) + k] = l.next + k - 1
      BY AppendRowsOK
    <3> QED BY <2>1, <3>1
  <2> DEFINE f == [k \in 1 .. n |-> l.next + k - 1]
  <2>3. m.positions = l.positions \o f
    BY DEF AppendRows
  <2>4. f \in Seq(Nat)
    <3>1. \A k \in 1 .. n : l.next + k - 1 \in Nat
      BY <1>1
    <3>2. f \in [1 .. n -> Nat] /\ n \in Nat
      BY <3>1
    <3> HIDE DEF f
    <3> QED BY <3>2
  <2> HIDE DEF f
  <2>5. \A s \in 1 .. Len(l.positions) : m.positions[s] = l.positions[s]
    BY <2>1, <2>3, <2>4, Concatenated
  <2> QED BY <2>1, <2>2, <2>5
<1>3. /\ Tokens(m) = TokensIn(m, 1 .. len + n) /\ Tokens(l) = TokensIn(l, 1 .. len)
  BY <1>1, TokensOfSlots
<1> HIDE DEF len
<1>4. ASSUME NEW p \in Tokens(m) PROVE p \in Tokens(l) \cup (l.next .. l.next + n - 1)
  <2>1. PICK s \in 1 .. len + n : p = m.positions[s]
    BY <1>3 DEF TokensIn
  <2>2. CASE s \in 1 .. len
    BY <1>2, <1>3, <2>1, <2>2 DEF TokensIn
  <2>3. CASE s \notin 1 .. len
    <3>1. s - len \in 1 .. n /\ s = len + (s - len)
      BY <1>1, <2>3
    <3>2. p = l.next + (s - len) - 1
      BY <1>2, <2>1, <3>1
    <3> QED BY <1>1, <3>1, <3>2
  <2> QED BY <2>2, <2>3
<1>5. ASSUME NEW p \in Tokens(l) PROVE p \in Tokens(m)
  <2>1. PICK s \in 1 .. len : p = l.positions[s]
    BY <1>3 DEF TokensIn
  <2>2. s \in 1 .. len + n /\ p = m.positions[s]
    BY <1>1, <1>2, <2>1
  <2> QED BY <1>3, <2>2 DEF TokensIn
<1>6. ASSUME NEW p \in l.next .. l.next + n - 1 PROVE p \in Tokens(m)
  <2> DEFINE k == p - l.next + 1
  <2>1. k \in 1 .. n /\ p = l.next + k - 1 /\ len + k \in 1 .. len + n
    BY <1>1
  <2> HIDE DEF k
  <2>2. p = m.positions[len + k]
    BY <1>2, <2>1
  <2> QED BY <1>3, <2>1, <2>2 DEF TokensIn
<1> QED BY <1>4, <1>5, <1>6

LEMMA AttendSeen ==
  ASSUME IInv, NEW focus, Attend(focus)
  PROVE  \E i \in KV!Layers, start \in 0 .. MaxLength, n \in 1 .. MaxLength :
           KV!AppendTokens(i, start, n)
<1> DEFINE l == layers[cursor]
           n == PassLength
           rows == Rows(layers, config.sinks)
<1>1. /\ pc = "forward" /\ pc \in Passing /\ n \in Nat \ {0} /\ fed \in Nat
      /\ request \in Requests /\ cursor \in Layers
      /\ MetaOK(l) /\ l.next = fed /\ Grown.next = fed + n
      /\ UNCHANGED <<setup, autoEnforce, deferred>>
      /\ layers' = [i \in Layers |-> layers'[i]] /\ layers'[cursor] = Grown
      /\ \A i \in Layers : i # cursor => layers'[i] = layers[i]
  BY AttendShape
<1>2. autoEnforce = FALSE
  BY <1>1 DEF IInv, Blocks
<1>3. activity' = activity /\ config' = config
  BY <1>1, <1>2 DEF Attend, setup
<1>4. fed + n <= MaxLength /\ MaxLength \in Nat
  <2>1. fed + n <= request.length
    BY <1>1, PassFacts DEF IInv
  <2>2. request.length \in Lengths
    BY <1>1 DEF Requests
  <2>3. Lengths \subseteq 1 .. MaxLength /\ MaxLength \in Nat
    BY BoundsAssumption
  <2>4. request.length \in 1 .. MaxLength
    BY <2>2, <2>3
  <2> HIDE DEF n
  <2> QED BY <1>1, <2>1, <2>3, <2>4
<1>5. fed \in 0 .. MaxLength /\ n \in 1 .. MaxLength
  <2> HIDE DEF n
  <2> QED BY <1>1, <1>4
<1>6. Tokens(Grown) = Tokens(l) \cup (fed .. fed + n - 1)
  <2> HIDE DEF n
  <2>1. Grown = AppendRows(l, l.next, n)
    BY DEF Grown, n
  <2> HIDE DEF l
  <2> QED BY <1>1, <2>1, GrownTokens
<1>7. Row(Grown, config.sinks) = KV!AppendTo(Row(l, config.sinks), fed, n)
  <2> DEFINE r == Row(l, config.sinks)
  <2>1. r = [tokens |-> Tokens(l), next |-> l.next, sinks |-> config.sinks,
             quant |-> FALSE, away |-> FALSE, hosted |-> 0]
    BY DEF Row
  <2>2. KV!AppendTo(r, fed, n)
          = [r EXCEPT !.tokens = @ \cup (fed .. fed + n - 1), !.next = fed + n,
                      !.quant = FALSE, !.away = FALSE, !.hosted = 0]
    BY DEF KV!AppendTo
  <2> HIDE DEF r, n, l
  <2>3. KV!AppendTo(r, fed, n)
          = [tokens |-> Tokens(l) \cup (fed .. fed + n - 1), next |-> fed + n,
             sinks |-> config.sinks, quant |-> FALSE, away |-> FALSE, hosted |-> 0]
    BY <2>1, <2>2
  <2>4. Row(Grown, config.sinks)
          = [tokens |-> Tokens(l) \cup (fed .. fed + n - 1), next |-> fed + n,
             sinks |-> config.sinks, quant |-> FALSE, away |-> FALSE, hosted |-> 0]
    BY <1>1, <1>6 DEF Row, n
  <2> QED BY <2>3, <2>4 DEF r
<1> HIDE DEF l, n, rows
<1>8. Rows(layers', config'.sinks)
        = [rows EXCEPT ![cursor] = KV!AppendTo(@, fed, n)]
  <2>1. rows = [i \in Layers |-> Row(layers[i], config.sinks)]
    BY DEF rows, Rows
  <2>2. \A i \in Layers : Row(layers'[i], config.sinks) =
          IF i = cursor THEN KV!AppendTo(rows[cursor], fed, n) ELSE rows[i]
    BY <1>1, <1>7, <2>1 DEF l
  <2>3. [i \in Layers |-> Row(layers'[i], config.sinks)]
          = [i \in Layers |-> IF i = cursor THEN KV!AppendTo(rows[cursor], fed, n) ELSE rows[i]]
    BY <2>2
  <2> QED BY <1>1, <1>3, <2>1, <2>3 DEF Rows
<1>9. /\ [i \in Layers |-> CacheLayer(layers[i])] = rows
      /\ [i \in Layers |-> CacheLayer(layers[i])]' = [rows EXCEPT ![cursor] = KV!AppendTo(@, fed, n)]
  BY <1>8, Seen DEF rows
<1>10. rows[cursor].next = fed
  BY <1>1 DEF rows, Rows, Row, l
<1>11. KV!AppendTokens(cursor, fed, n)
  BY <1>1, <1>2, <1>3, <1>4, <1>9, <1>10 DEF KV!AppendTokens, KV!Settle
<1>12. cursor \in KV!Layers
  BY <1>1 DEF KV!Layers, Layers
<1> QED BY <1>5, <1>11, <1>12

LEMMA AsideSeen ==
  ASSUME \A i \in Layers : /\ layers'[i].positions = layers[i].positions
                           /\ layers'[i].next = layers[i].next,
         UNCHANGED <<config, autoEnforce, deferred, activity>>
  PROVE  UNCHANGED KV!vars
<1>1. \A i \in Layers : Row(layers'[i], config.sinks) = Row(layers[i], config.sinks)
  BY DEF Row, Tokens
<1>2. Rows(layers', config'.sinks) = Rows(layers, config.sinks)
  BY <1>1 DEF Rows
<1>3. [i \in Layers |-> CacheLayer(layers[i])]' = [i \in Layers |-> CacheLayer(layers[i])]
  BY <1>2, Seen
<1> QED BY <1>3 DEF KV!vars

LEMMA NotesKeepPositions ==
  ASSUME IInv, ModelNotes \/ Absorb
  PROVE  \A i \in Layers : /\ layers'[i].positions = layers[i].positions
                           /\ layers'[i].next = layers[i].next
<1>1. NoteAll
  BY DEF ModelNotes, Absorb
<1>2. ASSUME NEW i \in Layers
      PROVE  /\ layers'[i].positions = layers[i].positions
             /\ layers'[i].next = layers[i].next
  <2>1. MetaOK(layers[i])
    BY DEF IInv, StoreOK
  <2>2. CASE layers'[i] = layers[i]
    BY <2>2
  <2>3. CASE layers'[i] = Noted(layers[i], Weights(layers[i], attention[i].attended))
    <3>1. DOMAIN Weights(layers[i], attention[i].attended) = 1 .. Len(layers[i].positions)
      BY DEF Weights, NumTokens
    <3> QED BY <2>1, <2>3, <3>1, NotedOK
  <2> QED BY <1>1, <2>2, <2>3 DEF NoteAll
<1> QED BY <1>2

LEMMA NoteSeen ==
  ASSUME IInv, ModelNotes \/ Absorb
  PROVE  UNCHANGED KV!vars
<1>1. UNCHANGED <<config, autoEnforce, deferred, activity>>
  BY DEF ModelNotes, Absorb, setup
<1> QED BY <1>1, NotesKeepPositions, AsideSeen

LEMMA CloseSeen ==
  ASSUME IInv, SignalsInv, TypesInv, CloseModel \/ CloseCall
  PROVE  KV!ExitDefer(TRUE)
<1>1. LeaveBlock(TRUE) /\ pc \in {"leave", "close"} /\ config' = config
  BY DEF CloseModel, CloseCall, setup
<1>2. deferred # <<>>
  <2>1. deferred = <<TRUE>> \/ deferred = <<TRUE, FALSE>>
    BY <1>1 DEF IInv, Blocks
  <2>2. Len(deferred) = 1 \/ Len(deferred) = 2
    BY <2>1, BlockTuples, Zenon
  <2> QED BY <2>2, BlockTuples
<1>3. \A i \in Layers : Distinct(layers[i])
  BY <1>1 DEF SignalsInv, Active, Steps, Traced
<1> QED BY <1>1, <1>2, <1>3, LeaveSeen DEF TypesInv

LEMMA UnwindSeen ==
  ASSUME IInv, TypesInv, Unwind
  PROVE  KV!ExitDefer(FALSE)
<1>1. LeaveBlock(FALSE) /\ pc = "raising" /\ config' = config
  BY DEF Unwind, setup
<1>2. deferred # <<>>
  <2>1. deferred = <<TRUE>> \/ deferred = <<TRUE, FALSE>>
    BY <1>1 DEF IInv, Blocks
  <2>2. Len(deferred) = 1 \/ Len(deferred) = 2
    BY <2>1, BlockTuples, Zenon
  <2> QED BY <2>2, BlockTuples
<1> QED BY <1>1, <1>2, LeaveSeen DEF TypesInv

LEMMA AllocateSeen ==
  ASSUME IInv, SignalsInv, TypesInv, Allocate
  PROVE  KV!SetCapacity(config'.cap)
<1> DEFINE c == [config EXCEPT !.cap = config'.cap]
           rows == [i \in Layers |-> CacheLayer(layers[i])]
<1>1. /\ Division(config'.cap, SumOver(config.cap), config.sinks, Accumulated,
                  request.allocation)
      /\ Enforce(layers, config'.cap, Layers)
      /\ config' = c
  BY AllocateShape
<1>2. pc = "allocate" /\ UNCHANGED <<autoEnforce, deferred, policy>>
  BY DEF Allocate
<1>3. StoreOK(layers) /\ policy \in PolicyNames /\ autoEnforce = TRUE
  BY <1>2 DEF IInv, Fixed, Blocks
<1>4. \A i \in Layers : Distinct(layers[i])
  BY <1>2 DEF SignalsInv, Active, Steps, Traced
<1>5. /\ config \in [cap : [Layers -> Nat \ {0}], sinks : SinkCounts]
      /\ config.sinks \in Nat
  BY SinksAssumption DEF TypesInv, CapsOK
<1>6. c.cap = config'.cap /\ c.sinks = config.sinks
  BY <1>5
<1>7. MinPerLayer(config.sinks) \in Nat \ {0} /\ config.sinks <= MinPerLayer(config.sinks)
  BY <1>5 DEF MinPerLayer
<1>8. \A i \in Layers : /\ c.cap[i] \in Nat \ {0} /\ c.cap[i] >= 1
                        /\ config.sinks <= c.cap[i] /\ c.sinks <= c.cap[i]
  <2>1. \A i \in Layers : config'.cap[i] \in Nat
                          /\ MinPerLayer(config.sinks) <= config'.cap[i]
    BY <1>1 DEF Division
  <2> HIDE DEF c
  <2> QED BY <1>5, <1>6, <1>7, <2>1
<1>9. c.cap \in [Layers -> Nat \ {0}]
  <2>1. config'.cap \in [Layers -> Nat]
    BY <1>1 DEF Division
  <2> HIDE DEF c
  <2> QED BY <1>6, <1>8, <2>1
<1>10. KV!Layers = Layers
  BY DEF KV!Layers, Layers
<1>11. config'.sinks = config.sinks /\ Enforce(layers, c.cap, Layers)
  BY <1>1, <1>6
<1> HIDE DEF c, rows
<1>12. KV!Enforce([i \in Layers |-> CacheLayer(layers[i])], c, Layers)
  BY <1>3, <1>4, <1>5, <1>8, <1>9, <1>11, EnforceSeen
<1>13. KV!ValidConfig(c)
  BY <1>8, <1>10 DEF KV!ValidConfig
<1> QED BY <1>1, <1>2, <1>3, <1>10, <1>12, <1>13 DEF KV!SetCapacity, c

-----------------------------------------------------------------------------
(***************************************************************************)
(* The refinement.                                                         *)
(***************************************************************************)

\* The budgets an allocation can make of those in Capacities are in Capacities.
CapacitiesClosed ==
  \A a \in Capacities, b \in [Layers -> Nat \ {0}] :
    SumOver(b) = SumOver(a) => b \in Capacities

BudgetKnown == config.cap \in Capacities

LEMMA BudgetInit == Init => BudgetKnown
<1> SUFFICES ASSUME Init PROVE BudgetKnown
  OBVIOUS
<1>1. PICK s \in Setups : config = s.config
  BY DEF Init
<1>2. s.config \in [cap : Capacities, sinks : SinkCounts]
  BY SetupsAssumption
<1> QED BY <1>1, <1>2 DEF BudgetKnown

LEMMA BudgetStep ==
  ASSUME CapacitiesClosed, IInv, SignalsInv, TypesInv, TypesInv', BudgetKnown, [Next]_vars
  PROVE  BudgetKnown'
<1>1. CASE config' = config
  BY <1>1 DEF BudgetKnown
<1>2. CASE Allocate
  <2>1. SumOver(config'.cap) = SumOver(config.cap)
    BY <1>2, AllocateShape
  <2>2. config'.cap \in [Layers -> Nat \ {0}]
    BY DEF TypesInv, CapsOK
  <2> QED BY <2>1, <2>2 DEF BudgetKnown, CapacitiesClosed
<1>3. config' = config \/ Allocate
  BY DEF Next, Start, OpenCall, OpenModel, Attend, ModelNotes, CloseModel, Absorb,
         CloseCall, Raise, Unwind, Finish, Rest, setup, vars
<1> QED BY <1>1, <1>2, <1>3

LEMMA CacheInit == Init => KV!Init
<1> SUFFICES ASSUME Init PROVE KV!Init
  OBVIOUS
<1>1. PICK s \in Setups : config = s.config
  BY DEF Init
<1>2. config \in [cap : Capacities, sinks : SinkCounts]
      /\ \A i \in Layers : config.sinks <= config.cap[i]
  BY <1>1, SetupsAssumption
<1>3. config.cap \in [Layers -> Nat \ {0}]
  BY <1>2, CapacitiesAssumption
<1>4. KV!Layers = Layers
  BY DEF KV!Layers, Layers
<1>5. config \in KV!Configs
  <2>1. \A i \in Layers : config.cap[i] >= 1
    BY <1>3
  <2>2. KV!ValidConfig(config)
    BY <1>2, <1>4, <2>1 DEF KV!ValidConfig
  <2> QED BY <1>2, <2>2 DEF KV!Configs
<1>6. [i \in Layers |-> CacheLayer(layers[i])] = [i \in KV!Layers |-> KV!NewLayer(config)]
  <2>1. Tokens(NewLayer) = {} /\ NewLayer.next = 0
    BY DEF NewLayer, Tokens, Range
  <2>2. layers = [i \in Layers |-> NewLayer]
    BY DEF Init
  <2>3. CacheLayer(NewLayer) = KV!NewLayer(config)
    BY <2>1 DEF CacheLayer, KV!NewLayer
  <2>4. \A i \in Layers : CacheLayer(layers[i]) = KV!NewLayer(config)
    BY <2>2, <2>3
  <2> QED BY <1>4, <2>4
<1>7. /\ autoEnforce = TRUE /\ deferred = <<>>
      /\ activity = [evictions |-> 0, evictedTokens |-> 0]
  BY DEF Init
<1> QED BY <1>5, <1>6, <1>7 DEF KV!Init

LEMMA CacheStep ==
  ASSUME IInv, SignalsInv, TypesInv, BudgetKnown', [Next]_vars
  PROVE  [KV!Next]_(KV!vars)
<1>1. CASE \E r \in Requests : Start(r)
  BY <1>1, StartClears DEF KV!Next
<1>2. CASE OpenCall \/ OpenModel
  BY <1>2, OpensDefer DEF KV!Next
<1>3. CASE \E focus \in 1 .. MaxLength : Attend(focus)
  <2>1. \E i \in KV!Layers, start \in 0 .. MaxLength, n \in 1 .. MaxLength :
           KV!AppendTokens(i, start, n)
    BY <1>3, AttendSeen
  <2> QED BY <2>1 DEF KV!Next
<1>4. CASE ModelNotes \/ Absorb
  BY <1>4, NoteSeen
<1>5. CASE CloseModel \/ CloseCall
  BY <1>5, CloseSeen DEF KV!Next
<1>6. CASE Allocate
  BY <1>6, AllocateSeen DEF KV!Next, BudgetKnown
<1>7. CASE Unwind
  BY <1>7, UnwindSeen DEF KV!Next
<1>8. CASE Raise \/ Finish \/ Rest \/ UNCHANGED vars
  <2>1. UNCHANGED <<layers, config, autoEnforce, deferred, activity>>
    BY <1>8 DEF Raise, Finish, Rest, vars, setup, cache
  <2> QED BY <2>1, AsideSeen
<1> QED BY <1>1, <1>2, <1>3, <1>4, <1>5, <1>6, <1>7, <1>8 DEF Next

-----------------------------------------------------------------------------
(***************************************************************************)
(* What the scores of a policy make of the signals.                        *)
(***************************************************************************)

\* x gives each of the slots 1 .. n a number.
Numbered(x, n) ==
  /\ DOMAIN x = 1 .. n /\ Len(x) = n
  /\ \A k \in 1 .. n : x[k] \in Nat

\* Finitely many numbers have a largest.
LEMMA Largest ==
  ASSUME NEW S, IsFiniteSet(S), S # {}, NEW F, \A k \in S : F[k] \in Int
  PROVE  \E m \in S : \A k \in S : F[k] <= F[m]
<1> DEFINE P == {s \in SUBSET S : s # {} => \E m \in s : \A k \in s : F[k] <= F[m]}
<1>1. ASSUME NEW s \in SUBSET S, \A t \in SUBSET s : t # s => t \in P
      PROVE  s \in P
  <2>1. CASE s = {}
    BY <2>1
  <2>2. CASE s # {}
    <3>1. PICK x : x \in s
      BY <2>2
    <3> DEFINE u == s \ {x}
    <3>2. u \in SUBSET s /\ u # s /\ x \in S /\ (\A k \in s : k \in u \/ k = x)
      BY <3>1
    <3> HIDE DEF u
    <3>3. u \in P
      BY <1>1, <3>2
    <3>4. CASE u = {}
      <4>1. \A k \in s : k = x
        BY <3>2, <3>4
      <4>2. F[x] <= F[x]
        BY <3>2
      <4>3. \A k \in s : F[k] <= F[x]
        BY <4>1, <4>2
      <4> QED BY <3>1, <4>3
    <3>5. CASE u # {}
      <4>1. PICK m \in u : \A k \in u : F[k] <= F[m]
        BY <3>3, <3>5
      <4>2. m \in s /\ F[m] \in Int /\ F[x] \in Int /\ (\A k \in u : F[k] \in Int)
        BY <3>2
      <4>3. CASE F[x] <= F[m]
        <5>1. \A k \in s : F[k] <= F[m]
          BY <3>2, <4>1, <4>3
        <5> QED BY <4>2, <5>1
      <4>4. CASE F[m] <= F[x]
        <5>1. \A k \in u : F[k] <= F[x]
          BY <4>1, <4>2, <4>4
        <5>2. \A k \in s : F[k] <= F[x]
          BY <3>2, <4>2, <5>1
        <5> QED BY <3>1, <5>2
      <4> QED BY <4>2, <4>3, <4>4
    <3> QED BY <3>4, <3>5
  <2> QED BY <2>1, <2>2
<1> HIDE DEF P
<1>2. S \in P
  BY <1>1, SubsetInduction
<1> QED BY <1>2 DEF P

LEMMA Extremes ==
  ASSUME NEW n \in Nat \ {0}, NEW x, Numbered(x, n)
  PROVE  /\ Max(Range(x)) \in Nat /\ Min(Range(x)) \in Nat
         /\ \A k \in 1 .. n : Min(Range(x)) <= x[k] /\ x[k] <= Max(Range(x))
<1>1. Range(x) = {x[k] : k \in 1 .. n} /\ (\A k \in 1 .. n : x[k] \in Nat /\ x[k] \in Int)
  BY DEF Range, Numbered
<1>2. IsFiniteSet(1 .. n) /\ 1 \in 1 .. n
  BY FS_Interval
<1>3. PICK a \in 1 .. n : \A k \in 1 .. n : x[k] <= x[a]
  BY <1>1, <1>2, Largest
<1>4. PICK b \in 1 .. n : \A k \in 1 .. n : x[b] <= x[k]
  <2> DEFINE y == [k \in 1 .. n |-> 0 - x[k]]
  <2>1. \A k \in 1 .. n : y[k] \in Int /\ y[k] = 0 - x[k]
    BY <1>1
  <2> HIDE DEF y
  <2>2. PICK b \in 1 .. n : \A k \in 1 .. n : y[k] <= y[b]
    BY <1>2, <2>1, Largest
  <2>3. \A k \in 1 .. n : x[b] <= x[k]
    BY <1>1, <2>1, <2>2
  <2> QED BY <2>3
<1>5. Max(Range(x)) = x[a]
  <2>1. x[a] \in Range(x) /\ (\A y \in Range(x) : x[a] >= y)
    BY <1>1, <1>3
  <2>2. \A z \in Range(x) : (\A y \in Range(x) : z >= y) => z = x[a]
    BY <1>1, <1>3
  <2> QED BY <2>1, <2>2 DEF Max
<1>6. Min(Range(x)) = x[b]
  <2>1. x[b] \in Range(x) /\ (\A y \in Range(x) : x[b] <= y)
    BY <1>1, <1>4
  <2>2. \A z \in Range(x) : (\A y \in Range(x) : z <= y) => z = x[b]
    BY <1>1, <1>4
  <2> QED BY <2>1, <2>2 DEF Min
<1> QED BY <1>1, <1>3, <1>4, <1>5, <1>6

\* A signal z orders the slots as x does.
Faithful(z, x, n) ==
  /\ DOMAIN z.num = 1 .. n
  /\ z.den \in Nat \ {0}
  /\ \A s \in 1 .. n : z.num[s] \in Nat
  /\ \A s, t \in 1 .. n : /\ x[s] = x[t] => z.num[s] = z.num[t]
                          /\ x[s] < x[t] => z.num[s] < z.num[t]

LEMMA MinmaxFaithful ==
  ASSUME NEW n \in Nat \ {0}, NEW x, Numbered(x, n)
  PROVE  Faithful(Minmax(x), x, n)
<1> DEFINE lo == Min(Range(x))
           hi == Max(Range(x))
           z == Minmax(x)
<1>1. /\ lo \in Nat /\ hi \in Nat /\ DOMAIN x = 1 .. n /\ 1 \in 1 .. n
      /\ \A k \in 1 .. n : x[k] \in Nat /\ lo <= x[k] /\ x[k] <= hi
  BY Extremes DEF Numbered
<1>2. /\ z.num = [s \in 1 .. n |-> x[s] - lo]
      /\ z.den = IF hi - lo = 0 THEN 1 ELSE hi - lo
  BY <1>1 DEF Minmax
<1> HIDE DEF lo, hi, z
<1>3. lo <= hi
  <2>1. x[1] \in Nat /\ lo <= x[1] /\ x[1] <= hi
    BY <1>1
  <2> QED BY <1>1, <2>1
<1>4. z.den \in Nat \ {0}
  BY <1>1, <1>2, <1>3
<1>5. DOMAIN z.num = 1 .. n /\ \A s \in 1 .. n : z.num[s] = x[s] - lo
  BY <1>2
<1>6. \A s \in 1 .. n : z.num[s] \in Nat
  BY <1>1, <1>5
<1>7. ASSUME NEW s \in 1 .. n, NEW t \in 1 .. n
      PROVE  /\ x[s] = x[t] => z.num[s] = z.num[t]
             /\ x[s] < x[t] => z.num[s] < z.num[t]
  <2>1. /\ z.num[s] = x[s] - lo /\ z.num[t] = x[t] - lo
        /\ x[s] \in Nat /\ x[t] \in Nat /\ lo \in Nat
    BY <1>1, <1>5
  <2> QED BY <2>1
<1> QED BY <1>4, <1>5, <1>6, <1>7 DEF Faithful, z

LEMMA RankFaithful ==
  ASSUME NEW n \in Nat \ {0}, NEW x, Numbered(x, n)
  PROVE  Faithful(RankNormalize(x), x, n)
<1> DEFINE z == RankNormalize(x)
           Lower(s) == {t \in 1 .. n : x[t] < x[s]}
           Same(s) == {t \in 1 .. n : x[t] = x[s]}
<1>1. DOMAIN x = 1 .. n /\ Len(x) = n /\ Range(x) = {x[k] : k \in 1 .. n}
      /\ (\A k \in 1 .. n : x[k] \in Nat)
  BY DEF Numbered, Range
<1>2. IsFiniteSet(1 .. n) /\ 1 \in 1 .. n
  BY FS_Interval
<1>3. IsFiniteSet(Range(x))
  <2> DEFINE f == [k \in 1 .. n |-> x[k]]
  <2>1. f \in Surjection(1 .. n, Range(x))
    BY <1>1 DEF Surjection
  <2> HIDE DEF f
  <2> QED BY <1>2, <2>1, FS_Surjection
<1>4. CASE Cardinality(Range(x)) = 1
  <2>1. PICK v : Range(x) = {v}
    BY <1>3, <1>4, FS_Singleton
  <2>2. \A k \in 1 .. n : x[k] = v
    BY <1>1, <2>1
  <2>3. z = [num |-> [s \in 1 .. n |-> 0], den |-> 1]
    BY <1>1, <1>4 DEF RankNormalize
  <2> HIDE DEF z
  <2>4. \A s, t \in 1 .. n : ~(x[s] < x[t])
    <3>1. v \in Nat /\ ~(v < v)
      BY <1>1, <1>2, <2>2
    <3> QED BY <2>2, <3>1
  <2>5. DOMAIN z.num = 1 .. n /\ z.den = 1 /\ \A s \in 1 .. n : z.num[s] = 0
    BY <2>3
  <2> QED BY <2>4, <2>5 DEF Faithful, z
<1>5. CASE Cardinality(Range(x)) # 1
  <2>1. z = [num |-> [s \in 1 .. n |-> 2 * Cardinality(Lower(s)) + Cardinality(Same(s)) - 1],
             den |-> 2 * (n - 1)]
    BY <1>1, <1>5 DEF RankNormalize
  <2>2. n # 1
    <3> SUFFICES ASSUME n = 1 PROVE FALSE
      OBVIOUS
    <3>1. \A k \in 1 .. n : k = 1
      OBVIOUS
    <3>2. Range(x) = {x[1]}
      BY <1>1, <1>2, <3>1
    <3> QED BY <1>5, <3>2, FS_Singleton
  <2>3. 2 * (n - 1) \in Nat \ {0}
    BY <2>2
  <2>4. ASSUME NEW s \in 1 .. n
        PROVE  /\ IsFiniteSet(Lower(s)) /\ Cardinality(Lower(s)) \in Nat
               /\ IsFiniteSet(Same(s)) /\ Cardinality(Same(s)) \in Nat \ {0}
    <3>1. Lower(s) \in SUBSET (1 .. n) /\ Same(s) \in SUBSET (1 .. n) /\ s \in Same(s)
      OBVIOUS
    <3> HIDE DEF Lower, Same
    <3>2. IsFiniteSet(Lower(s)) /\ IsFiniteSet(Same(s))
      BY <1>2, <3>1, FS_Subset
    <3> QED BY <3>1, <3>2, FS_CardinalityType, FS_EmptySet
  <2>5. ASSUME NEW s \in 1 .. n, NEW t \in 1 .. n, x[s] = x[t]
        PROVE  Lower(s) = Lower(t) /\ Same(s) = Same(t)
    BY <2>5
  <2>6. ASSUME NEW s \in 1 .. n, NEW t \in 1 .. n, x[s] < x[t]
        PROVE  Cardinality(Lower(s)) + Cardinality(Same(s)) <= Cardinality(Lower(t))
    <3>1. \A k \in 1 .. n : x[k] <= x[s] => x[k] < x[t]
      BY <1>1, <2>6
    <3>2. \A k \in 1 .. n : /\ x[k] < x[s] => x[k] <= x[s]
                            /\ x[k] = x[s] => x[k] <= x[s] /\ ~(x[k] < x[s])
      BY <1>1
    <3>3. Lower(s) \cup Same(s) \in SUBSET Lower(t) /\ Lower(s) \cap Same(s) = {}
      BY <3>1, <3>2
    <3> HIDE DEF Lower, Same
    <3>4. Cardinality(Lower(s) \cup Same(s)) <= Cardinality(Lower(t))
      BY <2>4, <3>3, FS_Subset
    <3>5. Cardinality(Lower(s) \cup Same(s))
            = Cardinality(Lower(s)) + Cardinality(Same(s))
                - Cardinality(Lower(s) \cap Same(s))
      BY <2>4, FS_Union
    <3>6. Cardinality(Lower(s) \cap Same(s)) = 0
      BY <3>3, FS_EmptySet
    <3>7. Cardinality(Lower(s)) \in Nat /\ Cardinality(Same(s)) \in Nat
      BY <2>4
    <3> QED BY <3>4, <3>5, <3>6, <3>7
  <2> HIDE DEF Lower, Same, z
  <2>7. /\ DOMAIN z.num = 1 .. n /\ z.den \in Nat \ {0}
        /\ \A s \in 1 .. n :
             z.num[s] = 2 * Cardinality(Lower(s)) + Cardinality(Same(s)) - 1
    BY <2>1, <2>3
  <2>8. ASSUME NEW s \in 1 .. n PROVE z.num[s] \in Nat
    <3> DEFINE a == Cardinality(Lower(s))
               b == Cardinality(Same(s))
    <3>1. a \in Nat /\ b \in Nat \ {0} /\ z.num[s] = 2 * a + b - 1
      BY <2>4, <2>7
    <3> HIDE DEF a, b
    <3> QED BY <3>1
  <2>9. \A s, t \in 1 .. n : x[s] = x[t] => z.num[s] = z.num[t]
    BY <2>5, <2>7
  <2>10. ASSUME NEW s \in 1 .. n, NEW t \in 1 .. n, x[s] < x[t]
         PROVE  z.num[s] < z.num[t]
    <3> DEFINE a == Cardinality(Lower(s))
               b == Cardinality(Same(s))
               c == Cardinality(Lower(t))
               d == Cardinality(Same(t))
    <3>1. a \in Nat /\ b \in Nat \ {0} /\ c \in Nat /\ d \in Nat \ {0} /\ a + b <= c
      BY <2>4, <2>6, <2>10
    <3>2. z.num[s] = 2 * a + b - 1 /\ z.num[t] = 2 * c + d - 1
      BY <2>7
    <3> HIDE DEF a, b, c, d
    <3> QED BY <3>1, <3>2
  <2> QED BY <2>7, <2>8, <2>9, <2>10 DEF Faithful, z
<1> QED BY <1>4, <1>5

LEMMA ProductsStrict ==
  ASSUME NEW a \in Nat, NEW b \in Nat, a < b, NEW c \in Nat \ {0}
  PROVE  a * c < b * c
<1>1. a + 1 <= b /\ a + 1 \in Nat /\ c \in Nat
  OBVIOUS
<1>2. (a + 1) * c <= b * c
  BY <1>1, ProductsOrdered
<1>3. (a + 1) * c = a * c + c /\ a * c \in Nat /\ b * c \in Nat
  BY <1>1
<1> QED BY <1>2, <1>3

\* One part of a blend: its weight times the signal times the other's scale.
LEMMA WeightedGrows ==
  ASSUME NEW v \in Nat \ {0}, NEW d \in Nat \ {0}, NEW p \in Nat, NEW q \in Nat, p <= q
  PROVE  /\ v * p * d \in Nat /\ v * q * d \in Nat
         /\ v * p * d <= v * q * d
         /\ p < q => v * p * d < v * q * d
<1>1. v \in Nat /\ d \in Nat /\ v * p \in Nat /\ v * q \in Nat
  OBVIOUS
<1>2. v * p = p * v /\ v * q = q * v
  BY <1>1
<1>3. v * p <= v * q /\ (p < q => v * p < v * q)
  BY <1>1, <1>2, ProductsOrdered, ProductsStrict
<1> DEFINE a == v * p
           b == v * q
<1>4. a \in Nat /\ b \in Nat /\ a <= b /\ (p < q => a < b)
  BY <1>1, <1>3
<1> HIDE DEF a, b
<1>5. a * d <= b * d /\ (p < q => a * d < b * d) /\ a * d \in Nat /\ b * d \in Nat
  BY <1>1, <1>4, ProductsOrdered, ProductsStrict
<1> QED BY <1>5 DEF a, b

\* A blend is a signal again; slot t has more of it than slot s when it has no
\* less of either part and more of one.
LEMMA BlendGrows ==
  ASSUME NEW v \in Nat \ {0}, NEW w \in Nat \ {0}, NEW a, NEW b,
         a.den \in Nat \ {0}, b.den \in Nat \ {0},
         NEW s \in DOMAIN a.num, NEW t \in DOMAIN a.num,
         a.num[s] \in Nat, a.num[t] \in Nat, b.num[s] \in Nat, b.num[t] \in Nat,
         a.num[s] <= a.num[t], b.num[s] <= b.num[t],
         NEW c, c = Blend(v, a, w, b)
  PROVE  /\ c.den \in Nat \ {0} /\ c.num[s] \in Nat /\ c.num[t] \in Nat
         /\ c.num[s] <= c.num[t]
         /\ a.num[s] < a.num[t] \/ b.num[s] < b.num[t] => c.num[s] < c.num[t]
<1> DEFINE p1 == v * a.num[s] * b.den
           p2 == v * a.num[t] * b.den
           q1 == w * b.num[s] * a.den
           q2 == w * b.num[t] * a.den
<1>1. c.num[s] = p1 + q1 /\ c.num[t] = p2 + q2 /\ c.den = a.den * b.den
  BY DEF Blend
<1>2. /\ p1 \in Nat /\ p2 \in Nat /\ p1 <= p2
      /\ a.num[s] < a.num[t] => p1 < p2
  BY WeightedGrows
<1>3. /\ q1 \in Nat /\ q2 \in Nat /\ q1 <= q2
      /\ b.num[s] < b.num[t] => q1 < q2
  BY WeightedGrows
<1>4. a.den * b.den \in Nat \ {0}
  <2>1. 0 * b.den < a.den * b.den
    BY ProductsStrict
  <2>2. 0 * b.den = 0 /\ a.den * b.den \in Nat
    OBVIOUS
  <2> QED BY <2>1, <2>2
<1> HIDE DEF p1, p2, q1, q2
<1> QED BY <1>1, <1>2, <1>3, <1>4

\* Slot t of layer l tells a better history than slot s by what the policy
\* looks at.
Beats(l, t, s) ==
  /\ policy = "attention_based" => l.cum[s] < l.cum[t]
  /\ policy = "token_importance" =>
       /\ l.cum[s] <= l.cum[t] /\ l.lastAccess[s] <= l.lastAccess[t]
       /\ l.hits[s] <= l.hits[t]
       /\ \/ l.cum[s] < l.cum[t] \/ l.lastAccess[s] < l.lastAccess[t]
          \/ l.hits[s] < l.hits[t]
  /\ policy = "adaptive" =>
       /\ l.cum[s] <= l.cum[t] /\ l.lastAccess[s] <= l.lastAccess[t]
       /\ l.cum[s] < l.cum[t] \/ l.lastAccess[s] < l.lastAccess[t]
  /\ policy = "lru" =>
       \/ l.lastAccess[s] < l.lastAccess[t]
       \/ l.lastAccess[s] = l.lastAccess[t] /\ l.positions[s] < l.positions[t]
  /\ policy = "sliding_window" => l.positions[s] < l.positions[t]
  /\ policy # "full_cache"

LEMMA SlotsNumbered ==
  ASSUME NEW l, MetaOK(l), Typed(l)
  PROVE  /\ Numbered(l.positions, Size(l)) /\ Numbered(l.lastAccess, Size(l))
         /\ Numbered(l.cum, Size(l)) /\ Numbered(l.hits, Size(l))
<1>1. l.positions \in Seq(Nat) /\ Len(l.positions) = Size(l)
  BY DEF MetaOK, Size
<1>2. Numbered(l.positions, Size(l))
  <2>1. DOMAIN l.positions = 1 .. Size(l) /\ \A k \in 1 .. Size(l) : l.positions[k] \in Nat
    BY <1>1, LenProperties
  <2> QED BY <1>1, <2>1 DEF Numbered
<1>3. ASSUME NEW x \in {l.lastAccess, l.cum, l.hits}
      PROVE  DOMAIN x = 1 .. Size(l) /\ Len(x) = Size(l)
  <2>1. IsSeq(x) /\ Len(x) = Size(l)
    BY <1>1 DEF MetaOK, Parallel
  <2> QED BY <2>1, SeqDomain
<1> QED BY <1>2, <1>3 DEF Typed, Numbered

LEMMA LruOrders ==
  ASSUME NEW l, MetaOK(l), Typed(l), NEW s \in 1 .. Size(l), NEW t \in 1 .. Size(l),
         \/ l.lastAccess[s] < l.lastAccess[t]
         \/ l.lastAccess[s] = l.lastAccess[t] /\ l.positions[s] < l.positions[t]
  PROVE  /\ LruScore(l)[s] \in Nat /\ LruScore(l)[t] \in Nat
         /\ LruScore(l)[s] < LruScore(l)[t]
<1> DEFINE span == Max(Range(l.positions)) + 1
           a == l.lastAccess[s]
           b == l.lastAccess[t]
           p == l.positions[s]
           q == l.positions[t]
<1>1. Size(l) \in Nat \ {0}
  BY TokensOfSlots
<1>2. /\ Numbered(l.positions, Size(l)) /\ Numbered(l.lastAccess, Size(l))
  BY SlotsNumbered
<1>3. /\ span \in Nat \ {0} /\ p < span /\ q < span
      /\ p \in Nat /\ q \in Nat /\ a \in Nat /\ b \in Nat
  <2>1. /\ Max(Range(l.positions)) \in Nat
        /\ p <= Max(Range(l.positions)) /\ q <= Max(Range(l.positions))
    BY <1>1, <1>2, Extremes
  <2>2. p \in Nat /\ q \in Nat /\ a \in Nat /\ b \in Nat
    BY <1>2 DEF Numbered
  <2> QED BY <2>1, <2>2
<1>4. LruScore(l)[s] = a * span + p /\ LruScore(l)[t] = b * span + q
  BY <1>2 DEF LruScore, Numbered
<1> HIDE DEF span, a, b, p, q
<1>5. a * span \in Nat /\ b * span \in Nat
  BY <1>3
<1>6. CASE a < b
  <2>1. (a + 1) * span <= b * span
    <3>1. a + 1 \in Nat /\ a + 1 <= b /\ span \in Nat
      BY <1>3, <1>6
    <3> QED BY <1>3, <3>1, ProductsOrdered
  <2>2. (a + 1) * span = a * span + span
    BY <1>3
  <2> QED BY <1>3, <1>4, <1>5, <2>1, <2>2
<1>7. CASE a = b /\ p < q
  BY <1>3, <1>4, <1>5, <1>7
<1> QED BY <1>6, <1>7 DEF a, b, p, q

LEMMA TokenImportanceOrders ==
  ASSUME NEW l, MetaOK(l), Typed(l), NEW s \in 1 .. Size(l), NEW t \in 1 .. Size(l),
         l.cum[s] <= l.cum[t], l.lastAccess[s] <= l.lastAccess[t],
         l.hits[s] <= l.hits[t],
         \/ l.cum[s] < l.cum[t] \/ l.lastAccess[s] < l.lastAccess[t]
         \/ l.hits[s] < l.hits[t]
  PROVE  /\ TokenImportanceScore(l)[s] \in Nat /\ TokenImportanceScore(l)[t] \in Nat
         /\ TokenImportanceScore(l)[s] < TokenImportanceScore(l)[t]
<1> DEFINE n == Size(l)
           a == RankNormalize(l.cum)
           b == Minmax(l.lastAccess)
           c == Minmax(l.hits)
           d == Blend(4, a, 2, b)
           e == Blend(1, d, 1, c)
<1>1. n \in Nat \ {0}
  BY TokensOfSlots
<1>2. Faithful(a, l.cum, n) /\ Faithful(b, l.lastAccess, n) /\ Faithful(c, l.hits, n)
  BY <1>1, SlotsNumbered, RankFaithful, MinmaxFaithful
<1>3. /\ l.cum[s] \in Nat /\ l.cum[t] \in Nat
      /\ l.lastAccess[s] \in Nat /\ l.lastAccess[t] \in Nat
      /\ l.hits[s] \in Nat /\ l.hits[t] \in Nat
  BY DEF Typed
<1>4. TokenImportanceScore(l) = e.num
  BY DEF TokenImportanceScore
<1>5. DOMAIN d.num = DOMAIN a.num
  BY BlendDomain
<1> HIDE DEF n, a, b, c
<1>6. /\ s \in DOMAIN a.num /\ t \in DOMAIN a.num
      /\ a.den \in Nat \ {0} /\ b.den \in Nat \ {0} /\ c.den \in Nat \ {0}
      /\ a.num[s] \in Nat /\ a.num[t] \in Nat
      /\ b.num[s] \in Nat /\ b.num[t] \in Nat
      /\ c.num[s] \in Nat /\ c.num[t] \in Nat
  BY <1>2 DEF Faithful, n
<1>7. /\ a.num[s] <= a.num[t] /\ (l.cum[s] < l.cum[t] => a.num[s] < a.num[t])
      /\ b.num[s] <= b.num[t]
      /\ (l.lastAccess[s] < l.lastAccess[t] => b.num[s] < b.num[t])
      /\ c.num[s] <= c.num[t] /\ (l.hits[s] < l.hits[t] => c.num[s] < c.num[t])
  <2>1. s \in 1 .. n /\ t \in 1 .. n
    BY DEF n
  <2>2. /\ l.cum[s] = l.cum[t] \/ l.cum[s] < l.cum[t]
        /\ l.lastAccess[s] = l.lastAccess[t] \/ l.lastAccess[s] < l.lastAccess[t]
        /\ l.hits[s] = l.hits[t] \/ l.hits[s] < l.hits[t]
    BY <1>3
  <2>3. /\ l.cum[s] = l.cum[t] => a.num[s] = a.num[t]
        /\ l.cum[s] < l.cum[t] => a.num[s] < a.num[t]
    BY <1>2, <2>1 DEF Faithful
  <2>4. /\ l.lastAccess[s] = l.lastAccess[t] => b.num[s] = b.num[t]
        /\ l.lastAccess[s] < l.lastAccess[t] => b.num[s] < b.num[t]
    BY <1>2, <2>1 DEF Faithful
  <2>5. /\ l.hits[s] = l.hits[t] => c.num[s] = c.num[t]
        /\ l.hits[s] < l.hits[t] => c.num[s] < c.num[t]
    BY <1>2, <2>1 DEF Faithful
  <2> QED BY <1>6, <2>2, <2>3, <2>4, <2>5
<1>8. /\ d.den \in Nat \ {0} /\ d.num[s] \in Nat /\ d.num[t] \in Nat
      /\ d.num[s] <= d.num[t]
      /\ a.num[s] < a.num[t] \/ b.num[s] < b.num[t] => d.num[s] < d.num[t]
  BY <1>6, <1>7, BlendGrows
<1> HIDE DEF d
<1>9. /\ e.num[s] \in Nat /\ e.num[t] \in Nat
      /\ d.num[s] < d.num[t] \/ c.num[s] < c.num[t] => e.num[s] < e.num[t]
  BY <1>5, <1>6, <1>7, <1>8, BlendGrows
<1> HIDE DEF e
<1>10. e.num[s] < e.num[t]
  BY <1>7, <1>8, <1>9
<1> QED BY <1>4, <1>9, <1>10

\* Whoever is over the budget is under full pressure.
LEMMA AdaptiveOrders ==
  ASSUME NEW l, MetaOK(l), Typed(l), NEW s \in 1 .. Size(l), NEW t \in 1 .. Size(l),
         NEW cap \in Nat \ {0}, Size(l) > cap,
         l.cum[s] <= l.cum[t], l.lastAccess[s] <= l.lastAccess[t],
         l.cum[s] < l.cum[t] \/ l.lastAccess[s] < l.lastAccess[t]
  PROVE  /\ AdaptiveScore(l, cap)[s] \in Nat /\ AdaptiveScore(l, cap)[t] \in Nat
         /\ AdaptiveScore(l, cap)[s] < AdaptiveScore(l, cap)[t]
<1> DEFINE n == Size(l)
           a == RankNormalize(l.cum)
           b == Minmax(l.lastAccess)
           d == Blend(3, a, 7, b)
<1>1. n \in Nat \ {0} /\ n = Len(l.positions)
  BY TokensOfSlots DEF Size
<1>2. Faithful(a, l.cum, n) /\ Faithful(b, l.lastAccess, n)
  BY <1>1, SlotsNumbered, RankFaithful, MinmaxFaithful
<1>3. /\ l.cum[s] \in Nat /\ l.cum[t] \in Nat
      /\ l.lastAccess[s] \in Nat /\ l.lastAccess[t] \in Nat
  BY DEF Typed
<1>4. AdaptiveScore(l, cap) = d.num
  <2>1. Pressure(n, cap) = cap
    BY <1>1 DEF Pressure
  <2>2. 20 * (cap - cap) < cap
    OBVIOUS
  <2>3. RecencyWeight(cap, cap) = [num |-> 7, den |-> 10]
    BY <2>2 DEF RecencyWeight
  <2> HIDE DEF n, a, b
  <2>4. AdaptiveScore(l, cap) = Blend(10 - 7, a, 7, b).num
    BY <1>1, <2>1, <2>3 DEF AdaptiveScore, a, b
  <2>5. 10 - 7 = 3
    OBVIOUS
  <2> QED BY <2>4, <2>5
<1> HIDE DEF n, a, b
<1>6. /\ s \in DOMAIN a.num /\ t \in DOMAIN a.num
      /\ a.den \in Nat \ {0} /\ b.den \in Nat \ {0}
      /\ a.num[s] \in Nat /\ a.num[t] \in Nat
      /\ b.num[s] \in Nat /\ b.num[t] \in Nat
  BY <1>2 DEF Faithful, n
<1>7. /\ a.num[s] <= a.num[t] /\ (l.cum[s] < l.cum[t] => a.num[s] < a.num[t])
      /\ b.num[s] <= b.num[t]
      /\ (l.lastAccess[s] < l.lastAccess[t] => b.num[s] < b.num[t])
  <2>1. s \in 1 .. n /\ t \in 1 .. n
    BY DEF n
  <2>2. /\ l.cum[s] = l.cum[t] \/ l.cum[s] < l.cum[t]
        /\ l.lastAccess[s] = l.lastAccess[t] \/ l.lastAccess[s] < l.lastAccess[t]
    BY <1>3
  <2>3. /\ l.cum[s] = l.cum[t] => a.num[s] = a.num[t]
        /\ l.cum[s] < l.cum[t] => a.num[s] < a.num[t]
    BY <1>2, <2>1 DEF Faithful
  <2>4. /\ l.lastAccess[s] = l.lastAccess[t] => b.num[s] = b.num[t]
        /\ l.lastAccess[s] < l.lastAccess[t] => b.num[s] < b.num[t]
    BY <1>2, <2>1 DEF Faithful
  <2> QED BY <1>6, <2>2, <2>3, <2>4
<1>8. /\ d.num[s] \in Nat /\ d.num[t] \in Nat
      /\ a.num[s] < a.num[t] \/ b.num[s] < b.num[t] => d.num[s] < d.num[t]
  BY <1>6, <1>7, BlendGrows
<1> HIDE DEF d
<1>9. d.num[s] < d.num[t]
  BY <1>7, <1>8
<1> QED BY <1>4, <1>8, <1>9

\* The better history has the higher score, whatever the policy.
LEMMA BetterScoresHigher ==
  ASSUME NEW l, MetaOK(l), Typed(l), policy \in PolicyNames,
         NEW s \in 1 .. Size(l), NEW t \in 1 .. Size(l),
         NEW cap \in Nat \ {0}, Size(l) > cap, Beats(l, t, s)
  PROVE  ~ComesBefore(Score(policy, l, cap), s, t)
<1> DEFINE x == Score(policy, l, cap)
<1>1. /\ l.cum[s] \in Nat /\ l.cum[t] \in Nat
  BY DEF Typed
<1>2. l.positions[s] \in Nat /\ l.positions[t] \in Nat
  BY SlotsNumbered DEF Numbered
<1>3. x[s] \in Nat /\ x[t] \in Nat /\ x[s] < x[t]
  <2>1. CASE policy = "sliding_window"
    BY <1>2, <2>1 DEF Score, Beats
  <2>2. CASE policy = "lru"
    BY <2>2, LruOrders DEF Score, Beats
  <2>3. CASE policy = "attention_based"
    BY <1>1, <2>3 DEF Score, Beats
  <2>4. CASE policy = "token_importance"
    BY <2>4, TokenImportanceOrders DEF Score, Beats
  <2>5. CASE policy = "adaptive"
    BY <2>5, AdaptiveOrders DEF Score, Beats
  <2>6. policy # "full_cache"
    BY DEF Beats
  <2> QED BY <2>1, <2>2, <2>3, <2>4, <2>5, <2>6 DEF PolicyNames
<1> HIDE DEF x
<1>4. ~(x[s] > x[t]) /\ x[s] # x[t]
  BY <1>3
<1> QED BY <1>4 DEF ComesBefore, x

LEMMA DominatesBeats ==
  ASSUME NEW i \in Layers, MetaOK(layers[i]), LayersTyped, policy \in PolicyNames,
         NEW now, NEW a, Traced(layers[i], log[i], now, Records, FALSE, a),
         NEW s \in 1 .. Size(layers[i]), NEW t \in 1 .. Size(layers[i]),
         Dominates(i, layers[i].positions[t], layers[i].positions[s])
  PROVE  Beats(layers[i], t, s)
<1> DEFINE l == layers[i]
           p == layers[i].positions[s]
           q == layers[i].positions[t]
<1>1. /\ l.cum[s] \in Nat /\ l.cum[t] \in Nat
      /\ l.lastAccess[s] \in Nat /\ l.lastAccess[t] \in Nat
      /\ l.hits[s] \in Nat /\ l.hits[t] \in Nat
      /\ p \in Nat /\ q \in Nat
  <2>1. Typed(l)
    BY DEF LayersTyped
  <2> QED BY <2>1, SlotsNumbered DEF Numbered
<1>2. ASSUME UsesAttention(policy)
      PROVE  /\ l.cum[s] = Mass(i, p) /\ l.cum[t] = Mass(i, q)
             /\ l.hits[s] = HitCount(i, p) /\ l.hits[t] = HitCount(i, q)
             /\ l.lastAccess[s] = LastSeen(i, p) /\ l.lastAccess[t] = LastSeen(i, q)
  <2>1. Records
    BY <1>2 DEF Records
  <2>2. Traced(l, log[i], now, TRUE, FALSE, a)
    BY <2>1 DEF Traced
  <2>3. DOMAIN l.positions = 1 .. Size(l)
    BY LenProperties DEF MetaOK, Size
  <2> QED BY <2>2, <2>3, HistoryTold
<1> HIDE DEF l, p, q
<1>3. Dominates(i, q, p)
  BY DEF p, q
<1>4. CASE policy = "attention_based"
  <2>1. Mass(i, q) > Mass(i, p)
    BY <1>3, <1>4 DEF Dominates
  <2>2. UsesAttention(policy)
    BY <1>4 DEF UsesAttention
  <2> QED BY <1>1, <1>2, <1>4, <2>1, <2>2 DEF Beats, l
<1>5. CASE policy = "token_importance"
  <2>1. /\ Mass(i, q) >= Mass(i, p) /\ LastSeen(i, q) >= LastSeen(i, p)
        /\ HitCount(i, q) >= HitCount(i, p)
        /\ \/ Mass(i, q) > Mass(i, p) \/ LastSeen(i, q) > LastSeen(i, p)
           \/ HitCount(i, q) > HitCount(i, p)
    <3> DEFINE m == <<Mass(i, q), Mass(i, p)>>
               r == <<LastSeen(i, q), LastSeen(i, p)>>
               h == <<HitCount(i, q), HitCount(i, p)>>
    <3>1. /\ \A x \in {m, r, h} : x[1] >= x[2]
          /\ \E x \in {m, r, h} : x[1] > x[2]
      BY <1>3, <1>5 DEF Dominates
    <3>2. /\ m[1] = Mass(i, q) /\ m[2] = Mass(i, p)
          /\ r[1] = LastSeen(i, q) /\ r[2] = LastSeen(i, p)
          /\ h[1] = HitCount(i, q) /\ h[2] = HitCount(i, p)
      OBVIOUS
    <3> HIDE DEF m, r, h
    <3>3. /\ m[1] >= m[2] /\ r[1] >= r[2] /\ h[1] >= h[2]
          /\ m[1] > m[2] \/ r[1] > r[2] \/ h[1] > h[2]
      BY <3>1
    <3> QED BY <3>2, <3>3
  <2>2. UsesAttention(policy)
    BY <1>5 DEF UsesAttention
  <2> QED BY <1>1, <1>2, <1>5, <2>1, <2>2 DEF Beats, l
<1>6. CASE policy = "adaptive"
  <2>1. /\ Mass(i, q) >= Mass(i, p) /\ LastSeen(i, q) >= LastSeen(i, p)
        /\ Mass(i, q) > Mass(i, p) \/ LastSeen(i, q) > LastSeen(i, p)
    <3> DEFINE m == <<Mass(i, q), Mass(i, p)>>
               r == <<LastSeen(i, q), LastSeen(i, p)>>
    <3>1. /\ \A x \in {m, r} : x[1] >= x[2]
          /\ \E x \in {m, r} : x[1] > x[2]
      BY <1>3, <1>6 DEF Dominates
    <3>2. /\ m[1] = Mass(i, q) /\ m[2] = Mass(i, p)
          /\ r[1] = LastSeen(i, q) /\ r[2] = LastSeen(i, p)
      OBVIOUS
    <3> HIDE DEF m, r
    <3>3. /\ m[1] >= m[2] /\ r[1] >= r[2]
          /\ m[1] > m[2] \/ r[1] > r[2]
      BY <3>1
    <3> QED BY <3>2, <3>3
  <2>2. UsesAttention(policy)
    BY <1>6 DEF UsesAttention
  <2> QED BY <1>1, <1>2, <1>6, <2>1, <2>2 DEF Beats, l
<1>7. CASE policy = "lru"
  <2>1. IF LastSeen(i, q) = LastSeen(i, p) THEN q > p ELSE LastSeen(i, q) > LastSeen(i, p)
    BY <1>3, <1>7 DEF Dominates
  <2>2. UsesAttention(policy)
    BY <1>7 DEF UsesAttention
  <2> QED BY <1>1, <1>2, <1>7, <2>1, <2>2 DEF Beats, l, p, q
<1>8. CASE policy = "sliding_window"
  <2>1. q > p
    BY <1>3, <1>8 DEF Dominates
  <2> QED BY <1>1, <1>8, <2>1 DEF Beats, l, p, q
<1>9. CASE policy = "full_cache"
  BY <1>3, <1>9 DEF Dominates
<1> QED BY <1>4, <1>5, <1>6, <1>7, <1>8, <1>9 DEF PolicyNames

\* Nobody drops a token while one stays that it dominates.
BetterStay == \A i \in Layers : NoneDominated(i, Tokens(layers'[i]))

LEMMA NothingGone ==
  ASSUME \A i \in Layers : Tokens(layers[i]) \subseteq Tokens(layers'[i])
  PROVE  BetterStay
BY DEF BetterStay, NoneDominated

LEMMA EnforceKeepsBetter ==
  ASSUME IInv, SignalsInv, TypesInv, pc \in Active, \A i \in Layers : Pending(i) = FALSE,
         NEW cap, cap \in [Layers -> Nat \ {0}], Enforce(layers, cap, Layers)
  PROVE  BetterStay
<1> DEFINE over == {i \in Layers : Over(layers[i], cap[i])}
<1>1. PICK kept \in [over -> UNION {Kept(layers[i], cap[i]) : i \in over}] :
        /\ \A i \in over : kept[i] \in Kept(layers[i], cap[i])
        /\ layers' = [i \in Layers |-> IF i \in over THEN KeepSlots(layers[i], kept[i])
                                       ELSE layers[i]]
  BY DEF Enforce
<1>2. policy \in PolicyNames /\ LayersTyped
  BY DEF IInv, Fixed, TypesInv
<1>3. ASSUME NEW i \in Layers PROVE NoneDominated(i, Tokens(layers'[i]))
  <2>1. CASE i \notin over
    BY <1>1, <2>1 DEF NoneDominated
  <2>2. CASE i \in over
    <3> DEFINE l == layers[i]
               S == kept[i]
               x == Score(policy, l, cap[i])
    <3>1. MetaOK(l) /\ Typed(l) /\ cap[i] \in Nat \ {0}
      BY <1>2, SizeIsNat DEF IInv, LayersTyped
    <3>2. Size(l) > cap[i]
      BY <2>2 DEF Over, Size, NumTokens
    <3>3. layers'[i] = KeepSlots(l, S) /\ S \in Kept(l, cap[i])
      BY <1>1, <2>2
    <3>4. DOMAIN x = 1 .. Size(l)
      BY <1>2, <3>1, ScoresAllSlots DEF Size
    <3>5. /\ S \in SUBSET (1 .. Size(l))
          /\ \A u \in S \ Protected(l), v \in (1 .. Size(l)) \ S : ComesBefore(x, u, v)
      BY <3>3, <3>4 DEF Kept, Selected
    <3>6. Traced(l, log[i], step, Records, FALSE, attention[i])
      BY DEF SignalsInv
    <3>7. Tokens(layers'[i]) = TokensIn(l, S) /\ Tokens(l) = TokensIn(l, 1 .. Size(l))
      BY <3>1, <3>3, <3>5, TokensKept, TokensOfSlots
    <3>8. DOMAIN l.positions = 1 .. Size(l)
      BY <3>1, LenProperties DEF MetaOK, Size
    <3>9. ASSUME NEW p \in Tokens(layers'[i]), NEW q \in Tokens(l) \ Tokens(layers'[i]),
                 p >= config.sinks, Dominates(i, q, p)
          PROVE  FALSE
      <4>1. PICK u \in S : p = l.positions[u]
        BY <3>7 DEF TokensIn
      <4>2. PICK v \in 1 .. Size(l) : q = l.positions[v]
        BY <3>7 DEF TokensIn
      <4>3. v \notin S
        BY <3>7, <4>2, <3>9 DEF TokensIn
      <4>4. u \in 1 .. Size(l)
        BY <3>5
      <4>5. u \notin Protected(l)
        <5>1. p \in Nat /\ config.sinks \in Nat
          BY <3>1, <4>1, <4>4, SlotsNumbered, SinksAssumption
          DEF Numbered, TypesInv, CapsOK
        <5>2. ~(p < config.sinks)
          BY <3>9, <5>1
        <5> QED BY <4>1, <5>2 DEF Protected
      <4>6. ComesBefore(x, u, v)
        BY <3>5, <4>3, <4>5
      <4>7. Beats(l, v, u)
        BY <1>2, <3>1, <3>6, <3>9, <4>1, <4>2, <4>4, DominatesBeats
      <4> QED BY <1>2, <3>1, <3>2, <4>4, <4>6, <4>7, BetterScoresHigher
    <3> QED BY <3>9 DEF NoneDominated
  <2> QED BY <2>1, <2>2
<1> QED BY <1>3 DEF BetterStay

LEMMA LeaveKeepsBetter ==
  ASSUME IInv, SignalsInv, TypesInv, pc \in Active, NEW b, LeaveBlock(b),
         Owner => \A i \in Layers : Pending(i) = FALSE
  PROVE  BetterStay
<1>1. CASE layers' = layers
  BY <1>1, NothingGone
<1>2. CASE Owner /\ Enforce(layers, config.cap, Layers)
  <2>1. config.cap \in [Layers -> Nat \ {0}]
    BY DEF TypesInv, CapsOK
  <2> QED BY <1>2, <2>1, EnforceKeepsBetter
<1> QED BY <1>1, <1>2 DEF LeaveBlock

LEMMA CloseKeepsBetter ==
  ASSUME IInv, SignalsInv, TypesInv, CloseModel \/ CloseCall
  PROVE  BetterStay
<1>1. LeaveBlock(TRUE) /\ pc \in {"leave", "close"}
  BY DEF CloseModel, CloseCall
<1>2. pc \in Active
  BY <1>1 DEF Active, Steps
<1>3. ASSUME Owner PROVE \A i \in Layers : Pending(i) = FALSE
  <2>1. CASE pc = "close"
    BY <2>1 DEF Pending
  <2>2. CASE pc = "leave"
    <3>1. deferred = IF request.caller = "direct" THEN <<TRUE>> ELSE <<TRUE, FALSE>>
      BY <2>2 DEF IInv, Blocks
    <3>2. Len(deferred) = 1
      BY <1>3 DEF Owner
    <3>3. request.caller = "direct"
      BY <3>1, <3>2, BlockTuples
    <3> QED BY <2>2, <3>3 DEF Pending
  <2> QED BY <1>1, <2>1, <2>2
<1> QED BY <1>1, <1>2, <1>3, LeaveKeepsBetter

LEMMA AllocateKeepsBetter ==
  ASSUME IInv, SignalsInv, TypesInv, TypesInv', Allocate
  PROVE  BetterStay
<1>1. Enforce(layers, config'.cap, Layers) /\ config'.cap \in [Layers -> Nat \ {0}]
  BY AllocateShape DEF TypesInv, CapsOK
<1>2. pc \in Active /\ \A i \in Layers : Pending(i) = FALSE
  BY DEF Allocate, Active, Steps, Pending
<1> QED BY <1>1, <1>2, EnforceKeepsBetter

LEMMA AttendKeepsBetter ==
  ASSUME IInv, NEW focus, Attend(focus)
  PROVE  BetterStay
<1>1. /\ MetaOK(layers[cursor]) /\ PassLength \in Nat \ {0}
      /\ layers'[cursor] = Grown
      /\ \A i \in Layers : i # cursor => layers'[i] = layers[i]
  BY AttendShape
<1>2. Tokens(layers[cursor]) \subseteq Tokens(Grown)
  <2>1. Tokens(Grown) = Tokens(layers[cursor])
          \cup (layers[cursor].next .. layers[cursor].next + PassLength - 1)
    BY <1>1, GrownTokens DEF Grown
  <2> QED BY <2>1
<1>3. \A i \in Layers : Tokens(layers[i]) \subseteq Tokens(layers'[i])
  BY <1>1, <1>2
<1> QED BY <1>3, NothingGone

LEMMA AsideKeepsBetter ==
  ASSUME \A i \in Layers : layers'[i].positions = layers[i].positions
  PROVE  BetterStay
<1>1. \A i \in Layers : Tokens(layers[i]) \subseteq Tokens(layers'[i])
  BY DEF Tokens
<1> QED BY <1>1, NothingGone

-----------------------------------------------------------------------------
(***************************************************************************)
(* What follows.                                                           *)
(***************************************************************************)

\* Nothing is evicted between the append of a pass and the reading of its
\* attention, whoever opened the blocks around it: every query finds its own
\* key in the layer; and of the queries whose mask can tell, none attends a
\* later token.
THEOREM QueriesAlwaysCausal == Spec => []CausalAttention
<1>1. IInv => CausalAttention
  <2> SUFFICES ASSUME IInv, NEW i \in Layers, NEW e \in DOMAIN log[i]
               PROVE  EntryOK(log[i][e].keys, e)
    BY DEF CausalAttention, EntryOK
  <2>1. IsSeq(log[i]) /\ \A f \in 1 .. Len(log[i]) : EntryOK(log[i][f].keys, f)
    BY DEF IInv, LogOK
  <2>2. DOMAIN log[i] = 1 .. Len(log[i])
    BY <2>1, LenProperties DEF IsSeq
  <2> QED
    BY <2>1, <2>2
<1> QED
  BY <1>1, AlwaysIInv, PTL

\* The mask that is built from the first layer before a pass has as many
\* columns as every layer then has keys, as long as one budget held for all
\* layers through the request.
THEOREM MaskAlwaysFits == Spec => []MaskFits
<1>1. IInv => MaskFits
  <2> SUFFICES ASSUME IInv, OneBudgetThroughout, pc = "forward"
               PROVE  NumTokens(layers[cursor]) + PassLength =
                        IF cursor = 1 THEN MaskSize(layers[1], 1)
                        ELSE attention[1].slots
    BY DEF MaskFits
  <2>1. autoEnforce = FALSE /\ pc \in Active /\ pc \in Passing
    BY DEF IInv, Blocks, Active, Steps, Passing
  <2>2. 1 \in Layers /\ cursor \in Layers /\ cursor \in Nat
    BY LayersAssumption DEF IInv, Fixed, Layers
  <2>3. Size(layers[1]) \in Nat /\ Size(layers[cursor]) \in Nat
    BY <2>2, SizeIsNat DEF IInv
  <2>4. PassLength \in Nat
    BY <2>1, PassFacts DEF IInv
  <2>5. CASE cursor = 1
    BY <2>1, <2>5 DEF MaskSize
  <2>6. CASE cursor # 1
    <3>1. cursor > 1 /\ 1 < cursor
      BY <2>2, <2>6 DEF Layers
    <3>2. Added(1) = PassLength /\ Added(cursor) = 0
      BY <2>2, <3>1 DEF Added
    <3>3. Size(layers[1]) - PassLength = Size(layers[cursor]) - 0
      BY <2>1, <2>2, <3>2 DEF IInv, Even
    <3>4. attention[1].slots = Size(layers[1])
      BY <3>1 DEF IInv, Even
    <3> QED
      BY <2>3, <2>4, <2>6, <3>3, <3>4 DEF NumTokens, Size
  <2> QED
    BY <2>5, <2>6
<1> QED
  BY <1>1, AlwaysIInv, PTL

\* perplexity() scores the tokens after the first, each once and in order,
\* for every length of text and every size of chunk.
THEOREM TokensAlwaysScoredOnce == Spec => []EveryTokenScoredOnce
<1>1. IInv => EveryTokenScoredOnce
  BY DEF IInv, ScoredOK, Active, Steps, Count, EveryTokenScoredOnce
<1> QED
  BY <1>1, AlwaysIInv, PTL

\* Between passes the cumulative weight, the hit count and the last access of
\* every slot are those of the whole history of the token in it: each pass
\* since the token was appended is counted once, whichever model or caller
\* recorded it, whatever block its attention was noted in, and whichever slots
\* evictions and new budgets have moved the token to since.
THEOREM SignalsAlwaysFollowTokens == Spec => []SignalsFollowTokens
<1>1. IInv /\ SignalsInv => SignalsFollowTokens
  <2> SUFFICES ASSUME IInv, SignalsInv, pc = "ready", Records,
                      NEW i \in Layers, NEW s \in DOMAIN layers[i].positions
               PROVE  LET p == layers[i].positions[s] IN
                      /\ layers[i].cum[s] = Mass(i, p)
                      /\ layers[i].hits[s] = HitCount(i, p)
                      /\ layers[i].lastAccess[s] = LastSeen(i, p)
    BY DEF SignalsFollowTokens
  <2>1. pc \in Active /\ Pending(i) = FALSE
    BY DEF Active, Steps, Pending
  <2>2. Traced(layers[i], log[i], step, Records, Pending(i), attention[i])
    BY <2>1 DEF SignalsInv
  <2>3. Traced(layers[i], log[i], step, TRUE, FALSE, attention[i])
    BY <2>1, <2>2 DEF Traced
  <2>4. MetaOK(layers[i])
    BY SizeIsNat DEF IInv
  <2> QED BY <2>3, <2>4, HistoryTold
<1> QED
  BY <1>1, InitOK, SignalsInit, StepPreserves, SignalsStep, PTL DEF Spec

\* Every variable keeps its type whatever is allocated: budgets stay positive
\* whole numbers, the signals of a slot are numbers and the arrays of a layer
\* stay as long as its positions, fed never passes the bound of a request.
THEOREM TypesAreAlwaysOK == Spec => []TypeOK
<1>1. IInv /\ SignalsInv /\ TypesInv => TypeOK
  <2> SUFFICES ASSUME IInv, SignalsInv, TypesInv PROVE TypeOK
    OBVIOUS
  <2>1. /\ policy \in PolicyNames /\ backend \in {"synthetic", "hf"} /\ cursor \in Layers
        /\ pc \in {"idle", "ready", "call", "forward", "note", "leave", "absorb",
                   "close", "allocate", "raising"}
    BY DEF IInv, Fixed, Steps
  <2>2. config \in [cap : [Layers -> Nat \ {0}], sinks : SinkCounts]
    BY DEF TypesInv, CapsOK
  <2>3. autoEnforce \in BOOLEAN /\ deferred \in Seq(BOOLEAN)
    <3>1. autoEnforce \in BOOLEAN
      BY DEF IInv, Blocks
    <3>2. deferred \in {<<>>, <<TRUE>>, <<TRUE, FALSE>>}
      BY DEF IInv, Fixed, Steps, Blocks
    <3>3. ASSUME NEW S, NEW a \in S, NEW b \in S
          PROVE  <<>> \in Seq(S) /\ <<a>> \in Seq(S) /\ <<a, b>> \in Seq(S)
      OBVIOUS
    <3>4. TRUE \in BOOLEAN /\ FALSE \in BOOLEAN
      OBVIOUS
    <3>5. <<>> \in Seq(BOOLEAN) /\ <<TRUE>> \in Seq(BOOLEAN)
          /\ <<TRUE, FALSE>> \in Seq(BOOLEAN)
      BY <3>3, <3>4, Zenon
    <3> QED BY <3>1, <3>2, <3>5, Zenon
  <2>4. step \in Nat /\ fed \in 0 .. MaxLength /\ scored \in Seq(Nat)
    BY BoundsAssumption DEF SignalsInv, TypesInv, Bounded
  <2>5. ASSUME NEW i \in Layers
        PROVE  /\ layers[i] \in [positions : Signals, lastAccess : Signals,
                                 cum : Signals, hits : Signals, next : Nat]
               /\ \A x \in {layers[i].lastAccess, layers[i].cum, layers[i].hits} :
                    Len(x) = Len(layers[i].positions)
    <3> DEFINE l == layers[i]
    <3>1. MetaOK(l) /\ Size(l) \in Nat /\ Typed(l)
      BY SizeIsNat DEF IInv, TypesInv, LayersTyped
    <3> HIDE DEF l
    <3>2. /\ l \in [positions : Seq(Nat), lastAccess : {l.lastAccess}, cum : {l.cum},
                    hits : {l.hits}, next : Nat]
          /\ \A x \in {l.lastAccess, l.cum, l.hits} : IsSeq(x) /\ Len(x) = Len(l.positions)
      BY <3>1 DEF MetaOK, Parallel
    <3>3. ASSUME NEW x, IsSeq(x), Len(x) = Size(l), \A s \in 1 .. Size(l) : x[s] \in Nat
          PROVE  x \in Seq(Nat)
      <4>1. DOMAIN x = 1 .. Size(l) /\ x = [s \in DOMAIN x |-> x[s]]
        BY <3>3, SeqDomain DEF IsSeq
      <4>2. x \in [1 .. Size(l) -> Nat]
        BY <3>3, <4>1
      <4> QED BY <3>1, <4>2
    <3>4. l.lastAccess \in Seq(Nat)
      BY <3>1, <3>2, <3>3 DEF Typed, Size
    <3>5. l.cum \in Seq(Nat)
      BY <3>1, <3>2, <3>3 DEF Typed, Size
    <3>6. l.hits \in Seq(Nat)
      BY <3>1, <3>2, <3>3 DEF Typed, Size
    <3>7. l \in [positions : Seq(Nat), lastAccess : Seq(Nat), cum : Seq(Nat),
                 hits : Seq(Nat), next : Nat]
      BY <3>2, <3>4, <3>5, <3>6
    <3> QED BY <3>2, <3>7 DEF Signals, l
  <2> QED BY <2>1, <2>2, <2>3, <2>4, <2>5 DEF TypeOK
<1> QED BY <1>1, AlwaysTypesInv, PTL

\* Whatever the earlier allocations and the attention of the layers, an
\* allocation hands out exactly the budget there was, gives every layer
\* max(1, sinks) or more, and the attention strategy never gives a layer two
\* tokens less than one whose attention is no more concentrated.
THEOREM AllocationAlwaysKeepsTotal == Spec => AllocationKeepsTotal
<1>1. IInv /\ SignalsInv /\ TypesInv /\ [Next]_vars =>
        [config' # config =>
           /\ SumOver(config'.cap) = SumOver(config.cap)
           /\ \A i \in Layers : config'.cap[i] >= MinPerLayer(config.sinks)
           /\ request.allocation = "attention_proportional" =>
                \A i, j \in Layers :
                  MoreConcentrated(i, j) => config'.cap[i] + 1 >= config'.cap[j]]_vars
  <2> SUFFICES ASSUME IInv, SignalsInv, TypesInv, Next, config' # config
               PROVE  /\ SumOver(config'.cap) = SumOver(config.cap)
                      /\ \A i \in Layers : config'.cap[i] >= MinPerLayer(config.sinks)
                      /\ request.allocation = "attention_proportional" =>
                           \A i, j \in Layers :
                             MoreConcentrated(i, j) => config'.cap[i] + 1 >= config'.cap[j]
    OBVIOUS
  <2>1. Allocate
    BY DEF Next, Start, OpenCall, OpenModel, Attend, ModelNotes, CloseModel, Absorb,
           CloseCall, Raise, Unwind, Finish, Rest, setup, vars
  <2>2. /\ Division(config'.cap, SumOver(config.cap), config.sinks, Accumulated,
                    request.allocation)
        /\ SumOver(config'.cap) = SumOver(config.cap)
    BY <2>1, AllocateShape
  <2>3. config'.cap \in [Layers -> Nat] /\ MinPerLayer(config.sinks) \in Nat
    <3>1. config.sinks \in Nat
      BY SinksAssumption DEF TypesInv, CapsOK
    <3> QED BY <2>2, <3>1 DEF Division, MinPerLayer
  <2>4. \A i \in Layers : config'.cap[i] >= MinPerLayer(config.sinks)
    BY <2>2, <2>3 DEF Division
  <2>5. ASSUME request.allocation = "attention_proportional",
               NEW i \in Layers, NEW j \in Layers, MoreConcentrated(i, j)
        PROVE  config'.cap[i] + 1 >= config'.cap[j]
    <3> DEFINE c == Concentrations(Accumulated)
    <3>1. c \in [Layers -> Nat]
      <4>1. /\ IsSeq(Accumulated) /\ Len(Accumulated) = NumLayers
            /\ \A k \in Layers : \E m \in Nat : Accumulated[k] \in [1 .. m -> Nat]
        BY AccumulatedOK DEF IInv, TypesInv
      <4>2. DOMAIN Accumulated = Layers
        BY DEF Accumulated
      <4> QED BY <4>1, <4>2, LayersAssumption, ConcentrationsNat DEF Layers
    <3>2. c[i] >= c[j]
      BY <2>5 DEF MoreConcentrated, Accumulated
    <3>3. \A k, m \in Layers : c[m] <= c[k] => config'.cap[m] <= config'.cap[k] + 1
      BY <2>2, <2>5 DEF Division
    <3> HIDE DEF c
    <3>4. config'.cap[j] <= config'.cap[i] + 1
      BY <3>1, <3>2, <3>3
    <3> QED BY <2>3, <3>4
  <2> QED BY <2>2, <2>4, <2>5
<1> QED BY <1>1, AlwaysTypesInv, PTL DEF Spec, AllocationKeepsTotal

\* Whatever the model, its caller and the policy do, the cache they drive goes
\* through calls of KVCache only: every append takes the next position of its
\* layer, blocks nest and unwind, what a policy drops is what KVCache lets a
\* policy drop, counted as it counts it, and an allocation is a set_capacity it
\* accepts.  What passes do beyond these calls changes nothing KVCache sees.
THEOREM PassesImplementTheCache ==
  ASSUME CapacitiesClosed
  PROVE  Spec => CacheProtocol
<1> DEFINE Inv == IInv /\ SignalsInv /\ TypesInv /\ BudgetKnown
<1>1. Init => Inv
  BY InitOK, SignalsInit, TypesInit, BudgetInit
<1>2. Inv /\ [Next]_vars => Inv'
  <2> SUFFICES ASSUME Inv, [Next]_vars PROVE Inv'
    OBVIOUS
  <2>1. IInv' /\ SignalsInv' /\ TypesInv'
    BY StepPreserves, SignalsStep, TypesStep
  <2> QED BY <2>1, BudgetStep
<1>3. Inv /\ Inv' /\ [Next]_vars => [KV!Next]_(KV!vars)
  BY CacheStep
<1>4. Init => KV!Init
  BY CacheInit
<1> HIDE DEF Inv
<1> QED BY <1>1, <1>2, <1>3, <1>4, PTL DEF Spec, CacheProtocol, KV!Spec

\* No policy drops a token while it keeps one that is no sink and has the
\* worse history by every signal the policy looks at, whatever happened before:
\* passes noted by the model or its caller, exceptions, evictions that moved
\* the slots, and new budgets.
THEOREM DominatedAlwaysGoFirst == Spec => DominatedGoFirst
<1>1. IInv /\ SignalsInv /\ TypesInv /\ TypesInv' /\ [Next]_vars =>
        [pc \notin {"idle", "ready"} =>
           \A i \in Layers : NoneDominated(i, Tokens(layers'[i]))]_vars
  <2> SUFFICES ASSUME IInv, SignalsInv, TypesInv, TypesInv', Next, pc \notin {"idle", "ready"}
               PROVE  BetterStay
    BY DEF BetterStay
  <2>1. CASE CloseModel \/ CloseCall
    BY <2>1, CloseKeepsBetter
  <2>2. CASE Allocate
    BY <2>2, AllocateKeepsBetter
  <2>3. CASE \E focus \in 1 .. MaxLength : Attend(focus)
    BY <2>3, AttendKeepsBetter
  <2>4. CASE ModelNotes \/ Absorb
    BY <2>4, NotesKeepPositions, AsideKeepsBetter
  <2>5. CASE OpenModel \/ Raise \/ Unwind
    <3>1. layers' = layers
      BY <2>5 DEF OpenModel, Raise, Unwind, LeaveBlock, cache
    <3> QED BY <3>1, AsideKeepsBetter
  <2>6. ~(OpenCall \/ Finish \/ Rest)
    BY DEF OpenCall, Finish, Rest
  <2>7. \A r \in Requests : ~Start(r)
    BY DEF Start
  <2> QED BY <2>1, <2>2, <2>3, <2>4, <2>5, <2>6, <2>7 DEF Next
<1>2. IInv /\ SignalsInv /\ TypesInv /\ [Next]_vars => TypesInv'
  BY TypesStep
<1> QED BY <1>1, <1>2, AlwaysTypesInv, PTL DEF Spec, DominatedGoFirst
=============================================================================
