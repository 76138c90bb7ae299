------------------------ MODULE GenerationLoop_proofs ------------------------
(***************************************************************************)
(* Proofs about the generation loop, for every prompt, budget, watermark   *)
(* and number of layers: the types, the budget at the end of every forward *)
(* pass, the positions, and what the monitor's event log says.             *)
(***************************************************************************)
EXTENDS GenerationLoop, TLAPS

\* A quotient of natural numbers is a natural number and no larger than the
\* fraction it cuts off.
LEMMA Quotient ==
  ASSUME NEW a \in Nat, NEW b \in Nat \ {0}
  PROVE  a \div b \in Nat /\ (a \div b) * b <= a
OBVIOUS

LEMMA PositiveProduct ==
  ASSUME NEW a \in Int, NEW b \in Int, a > 0, b > 0
  PROVE  a * b \in Int /\ a * b > 0
OBVIOUS

\* The size of a token over all layers is positive.
LEMMA TokenSize == BytesPerToken \in Nat \ {0}
<1>1. Layers \in Int /\ Layers > 0 /\ RowBytes \in Int /\ RowBytes > 0
  BY BytesAssumption
<1>2. Layers * RowBytes \in Int /\ Layers * RowBytes > 0
  BY <1>1, PositiveProduct
<1> DEFINE p == Layers * RowBytes
<1> HIDE DEF p
<1>3. p \in Nat \ {0}
  BY <1>2 DEF p
<1> QED
  BY <1>3 DEF p, BytesPerToken

\* What the monitor leaves the cache fits below the low watermark, unless the
\* rest of the device is above it already.
LEMMA NewCapacityFits ==
  ASSUME NEW other \in Nat
  PROVE  /\ NewCapacity(other) \in Nat
         /\ NewCapacity(other) # 0 =>
              NewCapacity(other) * BytesPerToken + other <= LowMark
<1> DEFINE left == MaxOf(0, LowMark - other)
           b == BytesPerToken
           q == left \div b
<1>1. left \in Nat /\ (left = 0 \/ left = LowMark - other)
  BY MonitorAssumption DEF MaxOf
<1>2. b \in Nat \ {0}
  BY TokenSize
<1>3. NewCapacity(other) = q
  BY DEF NewCapacity
<1> HIDE DEF left, b
<1>4. q \in Nat /\ q * b <= left
  BY <1>1, <1>2, Quotient
<1>5. left = 0 => q = 0
  BY <1>2
<1> HIDE DEF q
<1>6. q # 0 => q * b + other <= LowMark
  <2> DEFINE p == q * b
  <2>1. p \in Int /\ p <= left
    BY <1>2, <1>4
  <2> HIDE DEF p
  <2>2. q # 0 => p + other <= LowMark
    BY <2>1, <1>1, <1>5, MonitorAssumption
  <2> QED
    BY <2>2 DEF p
<1> QED
  BY <1>3, <1>4, <1>6 DEF b

-----------------------------------------------------------------------------
(***************************************************************************)
(* Types                                                                   *)
(***************************************************************************)

\* The rows an append leaves are counted by a natural number.
LEMMA RowsForType ==
  ASSUME tokens \in Nat, rows \in Nat, cap \in Nat, quant \in BOOLEAN,
         NEW n \in Nat
  PROVE  RowsFor(n) \in Nat
<1>1. InitCap \in Nat
  BY BytesAssumption DEF InitCap
<1>2. MaxOf(tokens, InitCap) \in Nat
  BY <1>1 DEF MaxOf
<1> QED
  BY <1>1, <1>2 DEF RowsFor, MaxOf

\* The bytes the monitor sees are counted by a natural number.
LEMMA DeviceBytesType ==
  ASSUME rows \in Nat, away \in 0 .. Layers
  PROVE  DeviceBytes \in Nat
<1>1. Layers - away \in Nat /\ QuantRowBytes \in Nat /\ RowBytes \in Nat
  BY BytesAssumption
<1>2. ASSUME NEW a \in Nat, NEW b \in Nat, NEW c \in Nat PROVE a * b * c \in Nat
  OBVIOUS
<1> QED
  BY <1>1, <1>2 DEF DeviceBytes

\* Enforcement keeps types and the budget.
LEMMA EnforceType ==
  ASSUME tokens \in Nat, rows \in Nat, NEW c \in Nat, Enforce(c)
  PROVE  /\ tokens' \in Nat /\ rows' \in Nat /\ tokens' <= tokens
         /\ c # Unbounded => tokens' <= c
BY DEF Enforce

\* A forward pass keeps types.
LEMMA ForwardType ==
  ASSUME TypeOK, NEW start \in Nat, NEW n \in Nat, Forward(start, n)
  PROVE  /\ tokens' \in Nat /\ rows' \in Nat /\ next' \in Nat
         /\ quant' = FALSE /\ away' = 0
         /\ UNCHANGED <<onHost, cap, events>>
<1>1. RowsFor(n) \in Nat
  BY RowsForType DEF TypeOK
<1>2. tokens + n \in Nat /\ MaxOf(next, start + n) \in Nat
  BY DEF TypeOK, MaxOf
<1> QED
  BY <1>1, <1>2 DEF Forward

\* An adaptation keeps types.
LEMMA TightenType ==
  ASSUME TypeOK, NEW other \in Nat, Tighten(other)
  PROVE  /\ NewCapacity(other) \in Nat
         /\ Event(other) \in Events
         /\ events' = Append(events, Event(other)) /\ events' \in Seq(Events)
         /\ cap' \in Nat /\ tokens' \in Nat /\ rows' \in Nat
<1>1. NewCapacity(other) \in Nat
  BY NewCapacityFits
<1>2. DeviceBytes \in Nat /\ clock \in Nat /\ cap \in Nat
  BY DeviceBytesType DEF TypeOK
<1>3. Event(other) \in Events
  BY <1>1, <1>2 DEF Event, Events
<1>4. events' = Append(events, Event(other)) /\ events' \in Seq(Events)
  BY <1>3 DEF Tighten, TypeOK
<1>5. /\ cap' \in {cap, NewCapacity(other)}
      /\ Enforce(NewCapacity(other)) \/ UNCHANGED <<tokens, rows>>
  BY DEF Tighten
<1>6. tokens' \in Nat /\ rows' \in Nat
  BY <1>1, <1>5, EnforceType DEF TypeOK
<1> QED
  BY <1>1, <1>2, <1>3, <1>4, <1>5, <1>6

\* The other bytes are natural numbers.
LEMMA OthersNat == Others \subseteq Nat
BY BytesAssumption DEF Others

\* A decode step follows a token, so the position it computes is a number.
Typed == TypeOK /\ (pc = "loop" => emitted >= 1)

LEMMA InitTyped == Init => Typed
<1> SUFFICES ASSUME Init PROVE Typed
  OBVIOUS
<1>1. cap \in Nat /\ away \in 0 .. Layers /\ events \in Seq(Events)
  BY ConfigAssumption, BytesAssumption DEF Init
<1> QED
  BY <1>1 DEF Init, Typed, TypeOK

\* The adaptations of the controller keep types.
LEMMA ApplyType ==
  ASSUME TypeOK, NEW slow \in SlowValues, Apply(Decision(slow))
  PROVE  /\ tokens' \in Nat /\ rows' \in Nat /\ quant' \in BOOLEAN
         /\ away' \in 0 .. Layers
<1>1. /\ tokens \in Nat /\ rows \in Nat /\ quant \in BOOLEAN
      /\ away \in 0 .. Layers /\ cap \in Nat /\ Layers \in Nat /\ Layers >= 1
  BY BytesAssumption DEF TypeOK
<1>2. Decision(slow) = "prefetch" => away = Layers
  BY DEF Decision
<1>3. \/ Enforce(cap) /\ UNCHANGED <<quant, away>>
      \/ quant' = TRUE /\ rows' = tokens /\ UNCHANGED <<tokens, away>>
      \/ away' = Layers /\ UNCHANGED <<tokens, rows, quant>>
      \/ /\ Decision(slow) = "prefetch" /\ away' = away - 1
         /\ UNCHANGED <<tokens, rows, quant>>
      \/ UNCHANGED <<tokens, rows, quant, away>>
  BY DEF Apply
<1>4. CASE Enforce(cap) /\ UNCHANGED <<quant, away>>
  BY <1>1, <1>4, EnforceType
<1>5. CASE quant' = TRUE /\ rows' = tokens /\ UNCHANGED <<tokens, away>>
  BY <1>1, <1>5
<1>6. CASE away' = Layers /\ UNCHANGED <<tokens, rows, quant>>
  BY <1>1, <1>6
<1>7. CASE Decision(slow) = "prefetch" /\ away' = away - 1
           /\ UNCHANGED <<tokens, rows, quant>>
  <2>1. away - 1 \in 0 .. Layers
    BY <1>1, <1>2, <1>7
  <2> QED
    BY <1>1, <1>7, <2>1
<1>8. CASE UNCHANGED <<tokens, rows, quant, away>>
  BY <1>1, <1>8
<1> QED
  BY <1>3, <1>4, <1>5, <1>6, <1>7, <1>8

LEMMA NextTyped == Typed /\ [Next]_vars => Typed'
<1> SUFFICES ASSUME Typed, [Next]_vars PROVE Typed'
  OBVIOUS
<1> USE DEF Typed
<1>1. CASE Prefill
  <2>1. prompt \in Nat /\ 0 \in Nat /\ Forward(0, prompt)
    BY <1>1 DEF Prefill, TypeOK
  <2>2. /\ tokens' \in Nat /\ rows' \in Nat /\ next' \in Nat
        /\ quant' = FALSE /\ away' = 0 /\ UNCHANGED <<onHost, cap, events>>
    BY <2>1, ForwardType
  <2>3. /\ quant' \in BOOLEAN /\ away' \in 0 .. Layers /\ onHost' \in BOOLEAN
        /\ cap' \in Nat /\ events' \in Seq(Events)
    <3>1. quant' \in BOOLEAN
      BY <2>2
    <3>2. away' \in 0 .. Layers
      BY <2>2, BytesAssumption
    <3>3. onHost' \in BOOLEAN /\ cap' \in Nat /\ events' \in Seq(Events)
      BY <2>2 DEF TypeOK
    <3> QED
      BY <3>1, <3>2, <3>3
  <2>4. /\ prompt' \in Nat /\ emitted' \in Nat /\ clock' \in Nat
        /\ stopped' \in BOOLEAN /\ pc' = "enforce"
    BY <1>1 DEF Prefill, TypeOK
  <2> QED
    BY <2>2, <2>3, <2>4 DEF TypeOK
<1>2. CASE Decode
  <2>1. Position \in Nat /\ Forward(Position, 1)
    BY <1>2 DEF Decode, TypeOK, Position
  <2>2. /\ tokens' \in Nat /\ rows' \in Nat /\ next' \in Nat
        /\ quant' = FALSE /\ away' = 0 /\ UNCHANGED <<onHost, cap, events>>
    BY <2>1, ForwardType
  <2>3. /\ quant' \in BOOLEAN /\ away' \in 0 .. Layers /\ onHost' \in BOOLEAN
        /\ cap' \in Nat /\ events' \in Seq(Events)
    <3>1. quant' \in BOOLEAN
      BY <2>2
    <3>2. away' \in 0 .. Layers
      BY <2>2, BytesAssumption
    <3>3. onHost' \in BOOLEAN /\ cap' \in Nat /\ events' \in Seq(Events)
      BY <2>2 DEF TypeOK
    <3> QED
      BY <3>1, <3>2, <3>3
  <2>4. /\ prompt' \in Nat /\ emitted' \in Nat /\ clock' \in Nat
        /\ stopped' \in BOOLEAN /\ pc' = "enforce"
    BY <1>2 DEF Decode, TypeOK
  <2> QED
    BY <2>2, <2>3, <2>4 DEF TypeOK
<1>3. CASE EndForward
  <2>1. tokens' \in Nat /\ rows' \in Nat
    BY <1>3, EnforceType DEF EndForward, TypeOK
  <2> QED
    BY <1>3, <2>1 DEF EndForward, TypeOK
<1>4. ASSUME NEW other \in Others, KeepBudget(other) PROVE Typed'
  BY <1>4 DEF KeepBudget, TypeOK, cache
<1>5. ASSUME NEW other \in Others, Tighten(other) PROVE Typed'
  <2>1. /\ cap' \in Nat /\ tokens' \in Nat /\ rows' \in Nat
        /\ events' \in Seq(Events)
    BY <1>5, OthersNat, TightenType
  <2> QED
    BY <1>5, <2>1 DEF Tighten, TypeOK
<1>6. ASSUME NEW slow \in SlowValues, Control(slow) PROVE Typed'
  <2>1. /\ tokens' \in Nat /\ rows' \in Nat /\ quant' \in BOOLEAN
        /\ away' \in 0 .. Layers
    BY <1>6, ApplyType DEF Control
  <2> QED
    BY <1>6, <2>1 DEF Control, TypeOK
<1>7. ASSUME NEW stop \in BOOLEAN, Select(stop) PROVE Typed'
  BY <1>7 DEF Select, TypeOK, cache
<1>8. CASE Finish
  BY <1>8 DEF Finish, TypeOK, cache
<1>9. ASSUME NEW p \in Prompts, Start(p) PROVE Typed'
  <2>1. p \in Nat /\ 0 \in 0 .. Layers
    BY PromptsAssumption, BytesAssumption
  <2> QED
    BY <1>9, <2>1 DEF Start, TypeOK
<1>10. CASE UNCHANGED vars
  BY <1>10 DEF vars, loop, cache, TypeOK
<1> QED
  BY <1>1, <1>2, <1>3, <1>4, <1>5, <1>6, <1>7, <1>8, <1>9, <1>10 DEF Next, Step

LEMMA AlwaysTyped == Spec => []Typed
BY InitTyped, NextTyped, PTL DEF Spec

\* Every variable keeps its type, through any number of requests.
THEOREM AlwaysTypeOK == Spec => []TypeOK
<1>1. Typed => TypeOK
  BY DEF Typed
<1> QED
  BY <1>1, AlwaysTyped, PTL

-----------------------------------------------------------------------------
(***************************************************************************)
(* The budget and the positions                                            *)
(***************************************************************************)

\* Where the last appended token sits, at each place of the loop: the prefill
\* leaves the prompt, each decode step adds one token behind it.
PositionInv ==
  /\ pc = "prefill" => emitted = 0
  /\ pc \in {"enforce", "select"} => next = prompt + emitted
  /\ pc \in {"monitor", "control"} =>
       next = IF emitted = 0 THEN prompt ELSE prompt + emitted - 1
  /\ pc = "loop" => next = prompt + emitted - 1

LEMMA PositionStep == Typed /\ PositionInv /\ next = 0 /\ pc = "prefill" /\ Prefill
                        => PositionInv'
<1> SUFFICES ASSUME Typed, PositionInv, next = 0, pc = "prefill", Prefill
             PROVE  PositionInv'
  OBVIOUS
<1>1. /\ pc' = "enforce" /\ next' = prompt /\ prompt' = prompt /\ emitted' = 0
      /\ prompt \in Nat
  BY DEF Typed, TypeOK, PositionInv, Prefill, Forward, MaxOf
<1> QED
  BY <1>1 DEF PositionInv

\* The cache starts a request empty.
FreshInv == pc = "prefill" => next = 0

LEMMA PositionsInductive ==
  Typed /\ PositionInv /\ FreshInv /\ [Next]_vars => PositionInv' /\ FreshInv'
<1> SUFFICES ASSUME Typed, PositionInv, FreshInv, [Next]_vars
             PROVE  PositionInv' /\ FreshInv'
  OBVIOUS
<1>0. /\ prompt \in Nat /\ emitted \in Nat /\ next \in Nat
      /\ pc = "loop" => emitted >= 1
  BY DEF Typed, TypeOK
<1>1. CASE Prefill
  <2>1. PositionInv'
    BY <1>1, PositionStep DEF FreshInv, Prefill
  <2> QED
    BY <1>1, <2>1 DEF Prefill, FreshInv
<1>2. CASE Decode
  <2>1. pc' = "enforce" /\ prompt' = prompt /\ emitted' = emitted
    BY <1>2 DEF Decode
  <2>2. next = Position /\ Position \in Nat /\ next' = MaxOf(next, Position + 1)
        /\ Position + 1 = prompt + emitted
    BY <1>0, <1>2 DEF Decode, Forward, PositionInv, Position
  <2>3. next' = prompt + emitted
    BY <2>2 DEF MaxOf
  <2> QED
    BY <2>1, <2>3 DEF PositionInv, FreshInv
<1>3. CASE EndForward
  BY <1>0, <1>3 DEF EndForward, PositionInv, FreshInv
<1>4. ASSUME NEW other \in Others, KeepBudget(other)
      PROVE  PositionInv' /\ FreshInv'
  BY <1>4 DEF KeepBudget, PositionInv, FreshInv, cache
<1>5. ASSUME NEW other \in Others, Tighten(other)
      PROVE  PositionInv' /\ FreshInv'
  <2>1. /\ pc = "monitor" /\ pc' \in {"raised", "control"}
        /\ UNCHANGED <<prompt, emitted, next>>
    BY <1>5 DEF Tighten
  <2> QED
    BY <2>1 DEF PositionInv, FreshInv
<1>6. ASSUME NEW slow \in SlowValues, Control(slow)
      PROVE  PositionInv' /\ FreshInv'
  <2>1. /\ pc = "control" /\ UNCHANGED <<prompt, emitted, next>>
        /\ pc' = IF emitted > 0 THEN "loop"
                 ELSE IF MaxNewTokens = 0 THEN "idle" ELSE "select"
    BY <1>6 DEF Control
  <2> QED
    BY <1>0, <2>1 DEF PositionInv, FreshInv
<1>7. ASSUME NEW stop \in BOOLEAN, Select(stop)
      PROVE  PositionInv' /\ FreshInv'
  <2>1. /\ pc = "select" /\ UNCHANGED <<prompt, next>> /\ emitted' = emitted + 1
        /\ pc' = IF emitted = 0 THEN "loop" ELSE "monitor"
    BY <1>7 DEF Select, cache
  <2> QED
    BY <1>0, <2>1 DEF PositionInv, FreshInv
<1>8. CASE Finish
  BY <1>8 DEF Finish, PositionInv, FreshInv
<1>9. ASSUME NEW p \in Prompts, Start(p)
      PROVE  PositionInv' /\ FreshInv'
  BY <1>9 DEF Start, PositionInv, FreshInv
<1>10. CASE UNCHANGED vars
  BY <1>10 DEF vars, loop, cache, PositionInv, FreshInv
<1> QED
  BY <1>1, <1>2, <1>3, <1>4, <1>5, <1>6, <1>7, <1>8, <1>9, <1>10 DEF Next, Step

\* For every prompt and every token limit, whatever the monitor and the
\* controller did in between, the position generate() computes for a token is
\* the one the cache would hand out next.
THEOREM PositionsAlwaysAgree == Spec => []PositionsAgree
<1>1. Init => PositionInv /\ FreshInv
  BY DEF Init, PositionInv, FreshInv
<1>2. PositionInv => PositionsAgree
  BY DEF PositionInv, PositionsAgree, Position
<1> QED
  BY <1>1, <1>2, AlwaysTyped, PositionsInductive, PTL DEF Spec

LEMMA WithinCapInductive == Typed /\ WithinCap /\ [Next]_vars => WithinCap'
<1> SUFFICES ASSUME Typed, WithinCap, [Next]_vars PROVE WithinCap'
  OBVIOUS
<1>0. tokens \in Nat /\ rows \in Nat /\ cap \in Nat
  BY DEF Typed, TypeOK
<1>1. CASE Prefill
  BY <1>1 DEF Prefill, WithinCap
<1>2. CASE Decode
  BY <1>2 DEF Decode, WithinCap
<1>3. CASE EndForward
  <2>1. Enforce(cap) /\ cap' = cap
    BY <1>3 DEF EndForward
  <2>2. cap # Unbounded => tokens' <= cap
    BY <1>0, <2>1, EnforceType
  <2> QED
    BY <2>1, <2>2 DEF WithinCap
<1>4. ASSUME NEW other \in Others, KeepBudget(other) PROVE WithinCap'
  BY <1>4 DEF KeepBudget, WithinCap, cache
<1>5. ASSUME NEW other \in Others, Tighten(other) PROVE WithinCap'
  <2>1. NewCapacity(other) \in Nat
    BY OthersNat, NewCapacityFits
  <2>2. CASE HasPolicy /\ ValidCapacity(NewCapacity(other))
    <3>1. cap' = NewCapacity(other) /\ Enforce(NewCapacity(other))
      BY <1>5, <2>2 DEF Tighten
    <3>2. NewCapacity(other) # Unbounded => tokens' <= NewCapacity(other)
      BY <1>0, <2>1, <3>1, EnforceType
    <3> QED
      BY <3>1, <3>2 DEF WithinCap
  <2>3. CASE ~(HasPolicy /\ ValidCapacity(NewCapacity(other)))
    <3>1. UNCHANGED <<cap, tokens>> /\ pc = "monitor"
      BY <1>5, <2>3 DEF Tighten
    <3> QED
      BY <3>1 DEF WithinCap
  <2> QED
    BY <2>2, <2>3
<1>6. ASSUME NEW slow \in SlowValues, Control(slow) PROVE WithinCap'
  <2>1. pc = "control" /\ cap' = cap /\ Apply(Decision(slow))
    BY <1>6 DEF Control
  <2>2. tokens' = tokens \/ Enforce(cap)
    BY <2>1 DEF Apply
  <2>3. tokens' \in Nat /\ tokens' <= tokens
    BY <1>0, <2>2, EnforceType
  <2> QED
    BY <1>0, <2>1, <2>3 DEF WithinCap
<1>7. ASSUME NEW stop \in BOOLEAN, Select(stop) PROVE WithinCap'
  BY <1>7 DEF Select, WithinCap, cache
<1>8. CASE Finish
  BY <1>8 DEF Finish, WithinCap, cache
<1>9. ASSUME NEW p \in Prompts, Start(p) PROVE WithinCap'
  BY <1>0, <1>9 DEF Start, WithinCap
<1>10. CASE UNCHANGED vars
  BY <1>10 DEF vars, loop, cache, WithinCap
<1> QED
  BY <1>1, <1>2, <1>3, <1>4, <1>5, <1>6, <1>7, <1>8, <1>9, <1>10 DEF Next, Step

\* For every budget the monitor installs, the cache is within it whenever no
\* forward pass is under way.
THEOREM AlwaysWithinCap == Spec => []WithinCap
<1>1. Init => WithinCap
  BY ConfigAssumption DEF Init, WithinCap
<1> QED
  BY <1>1, AlwaysTyped, WithinCapInductive, PTL DEF Spec

-----------------------------------------------------------------------------
(***************************************************************************)
(* What the monitor observes                                               *)
(***************************************************************************)

\* From an append to the controller's next turn the layers hold float rows on
\* the device; a token selected after a decode step still belongs to that time.
FloatInv ==
  pc \in {"enforce", "monitor", "control"} \/ (pc = "select" /\ emitted > 0)
    => ~quant /\ away = 0

LEMMA FloatInductive == Typed /\ FloatInv /\ [Next]_vars => FloatInv'
<1> SUFFICES ASSUME Typed, FloatInv, [Next]_vars PROVE FloatInv'
  OBVIOUS
<1>0. emitted \in Nat
  BY DEF Typed, TypeOK
<1>1. CASE Prefill
  BY <1>1 DEF Prefill, Forward, FloatInv
<1>2. CASE Decode
  BY <1>2 DEF Decode, Forward, FloatInv
<1>3. CASE EndForward
  BY <1>0, <1>3 DEF EndForward, FloatInv
<1>4. ASSUME NEW other \in Others, KeepBudget(other) PROVE FloatInv'
  BY <1>4 DEF KeepBudget, FloatInv, cache
<1>5. ASSUME NEW other \in Others, Tighten(other) PROVE FloatInv'
  <2>1. pc = "monitor" /\ UNCHANGED <<quant, away>>
    BY <1>5 DEF Tighten
  <2> QED
    BY <2>1 DEF FloatInv
<1>6. ASSUME NEW slow \in SlowValues, Control(slow) PROVE FloatInv'
  <2>1. /\ emitted' = emitted
        /\ pc' = IF emitted > 0 THEN "loop"
                 ELSE IF MaxNewTokens = 0 THEN "idle" ELSE "select"
    BY <1>6 DEF Control
  <2>2. pc' = "loop" \/ pc' = "idle" \/ (pc' = "select" /\ ~(emitted' > 0))
    BY <1>0, <2>1
  <2> QED
    BY <2>2 DEF FloatInv
<1>7. ASSUME NEW stop \in BOOLEAN, Select(stop) PROVE FloatInv'
  <2>1. /\ pc = "select" /\ UNCHANGED <<quant, away>>
        /\ pc' = IF emitted = 0 THEN "loop" ELSE "monitor"
    BY <1>7 DEF Select, cache
  <2> QED
    BY <1>0, <2>1 DEF FloatInv
<1>8. CASE Finish
  BY <1>8 DEF Finish, FloatInv
<1>9. ASSUME NEW p \in Prompts, Start(p) PROVE FloatInv'
  BY <1>9 DEF Start, FloatInv
<1>10. CASE UNCHANGED vars
  BY <1>10 DEF vars, loop, cache, FloatInv
<1> QED
  BY <1>1, <1>2, <1>3, <1>4, <1>5, <1>6, <1>7, <1>8, <1>9, <1>10 DEF Next, Step

\* The monitor and the controller always look at float rows on the device,
\* whatever the controller did after the step before.
THEOREM AlwaysFloatWhenObserved == Spec => []FloatWhenObserved
<1>1. Init => FloatInv
  BY DEF Init, FloatInv
<1>2. FloatInv => FloatWhenObserved
  BY DEF FloatInv, FloatWhenObserved
<1> QED
  BY <1>1, <1>2, AlwaysTyped, FloatInductive, PTL DEF Spec

-----------------------------------------------------------------------------
(***************************************************************************)
(* The monitor's event log                                                 *)
(***************************************************************************)

\* Only a tightening touches the log or the budget.
LEMMA LogSteps ==
  ASSUME [Next]_vars
  PROVE  UNCHANGED <<cap, events>> \/ \E other \in Others : Tighten(other)
<1>1. Prefill \/ Decode => UNCHANGED <<cap, events>>
  BY DEF Prefill, Decode, Forward
<1>2. EndForward \/ Finish => UNCHANGED <<cap, events>>
  BY DEF EndForward, Finish
<1>3. \A other \in Others : KeepBudget(other) => UNCHANGED <<cap, events>>
  BY DEF KeepBudget
<1>4. \A slow \in SlowValues : Control(slow) => UNCHANGED <<cap, events>>
  BY DEF Control
<1>5. \A stop \in BOOLEAN : Select(stop) => UNCHANGED <<cap, events>>
  BY DEF Select
<1>6. \A p \in Prompts : Start(p) => UNCHANGED <<cap, events>>
  BY DEF Start
<1>7. UNCHANGED vars => UNCHANGED <<cap, events>>
  BY DEF vars
<1> QED
  BY <1>1, <1>2, <1>3, <1>4, <1>5, <1>6, <1>7 DEF Next, Step

\* Appending an event leaves the earlier ones where they are.
LEMMA AppendedEvents ==
  ASSUME NEW s \in Seq(Events), NEW e \in Events
  PROVE  /\ Len(Append(s, e)) = Len(s) + 1 /\ Len(s) \in Nat
         /\ Append(s, e)[Len(s) + 1] = e
         /\ \A i \in 1 .. Len(s) : Append(s, e)[i] = s[i]
         /\ s = <<>> <=> Len(s) = 0
OBVIOUS

\* The fields of a recorded event are numbers.
LEMMA EventFields ==
  ASSUME NEW s \in Seq(Events), NEW i \in 1 .. Len(s)
  PROVE  s[i].step \in Nat /\ s[i].new \in Nat
<1>1. s[i] \in Events
  OBVIOUS
<1>2. \A e \in Events : e.step \in Nat /\ e.new \in Nat
  BY DEF Events
<1> QED
  BY <1>1, <1>2

LEMMA SpacedInductive == Typed /\ EventsSpaced /\ [Next]_vars => EventsSpaced'
<1> SUFFICES ASSUME Typed, EventsSpaced, [Next]_vars PROVE EventsSpaced'
  OBVIOUS
<1>1. CASE UNCHANGED <<cap, events>>
  BY <1>1 DEF EventsSpaced
<1>2. ASSUME NEW other \in Others, Tighten(other) PROVE EventsSpaced'
  <2> DEFINE n == Len(events)
  <2>1. /\ Event(other) \in Events /\ events' = Append(events, Event(other))
        /\ events \in Seq(Events)
    BY <1>2, OthersNat, TightenType DEF Typed, TypeOK
  <2>2. /\ Len(events') = n + 1 /\ n \in Nat /\ events'[n + 1] = Event(other)
        /\ \A i \in 1 .. n : events'[i] = events[i]
        /\ events = <<>> <=> n = 0
    BY <2>1, AppendedEvents
  <2>3. Event(other).step = clock
    BY DEF Event
  <2>4. n # 0 => ~(clock - events[n].step < MinInterval)
    BY <1>2, <2>2 DEF Tighten, Tightens, TooSoon, LastEvent
  <2>5. \A i \in 1 .. n : events[i].step \in Nat
    BY <2>1, EventFields
  <2> HIDE DEF n
  <2>6. ASSUME NEW i \in 1 .. n
        PROVE  events'[i + 1].step - events'[i].step >= MinInterval
    <3>1. CASE i = n
      <4>1. events'[i + 1].step = clock /\ events'[i].step = events[n].step
        BY <2>2, <2>3, <3>1
      <4>2. /\ ~(clock - events[n].step < MinInterval)
            /\ clock \in Nat /\ events[n].step \in Nat /\ MinInterval \in Nat
        BY <2>2, <2>4, <2>5, <3>1, MonitorAssumption DEF Typed, TypeOK
      <4> QED
        BY <4>1, <4>2
    <3>2. CASE i # n
      <4>1. i \in 1 .. n - 1 /\ i + 1 \in 1 .. n
        BY <2>2, <3>2
      <4>2. events'[i + 1] = events[i + 1] /\ events'[i] = events[i]
        BY <2>2, <4>1
      <4>3. events[i + 1].step - events[i].step >= MinInterval
        BY <4>1 DEF EventsSpaced, n
      <4> QED
        BY <4>2, <4>3
    <3> QED
      BY <3>1, <3>2
  <2>7. 1 .. Len(events') - 1 = 1 .. n
    BY <2>2
  <2> QED
    BY <2>6, <2>7 DEF EventsSpaced
<1> QED
  BY <1>1, <1>2, LogSteps

\* No two adaptations are closer than the minimum interval, over every number
\* of requests.
THEOREM EventsAlwaysSpaced == Spec => []EventsSpaced
<1>1. Init => EventsSpaced
  BY DEF Init, EventsSpaced
<1> QED
  BY <1>1, AlwaysTyped, SpacedInductive, PTL DEF Spec

LEMMA AuditableInductive == Typed /\ AuditableBudget /\ [Next]_vars => AuditableBudget'
<1> SUFFICES ASSUME Typed, AuditableBudget, [Next]_vars, HasPolicy
             PROVE  AuditableBudget'
  BY DEF AuditableBudget
<1> DEFINE valid == {c \in Realised : ValidCapacity(c)}
<1>0. IF valid = {} THEN cap = Capacity
      ELSE cap \in valid /\ \A c \in valid : cap <= c
  BY DEF AuditableBudget
<1>1. CASE UNCHANGED <<cap, events>>
  BY <1>1 DEF AuditableBudget, Realised
<1>2. ASSUME NEW other \in Others, Tighten(other) PROVE AuditableBudget'
  <2> DEFINE new == NewCapacity(other)
             n == Len(events)
  <2>1. /\ Event(other) \in Events /\ events' = Append(events, Event(other))
        /\ events \in Seq(Events) /\ new \in Nat
    BY <1>2, OthersNat, TightenType DEF Typed, TypeOK
  <2>2. /\ Len(events') = n + 1 /\ n \in Nat /\ events'[n + 1] = Event(other)
        /\ \A i \in 1 .. n : events'[i] = events[i]
    BY <2>1, AppendedEvents
  <2>3. Event(other).new = new
    BY DEF Event
  <2> HIDE DEF n, new
  <2>4. Realised' = Realised \cup {new}
    <3>1. Realised' = {events'[i].new : i \in 1 .. n + 1}
      BY <2>2 DEF Realised
    <3>2. \A i \in 1 .. n + 1 : i \in 1 .. n \/ i = n + 1
      BY <2>2
    <3>3. 1 .. n \subseteq 1 .. n + 1 /\ n + 1 \in 1 .. n + 1
      BY <2>2
    <3>4. Realised = {events[i].new : i \in 1 .. n}
      BY DEF Realised, n
    <3>5. \A c : c \in {events'[i].new : i \in 1 .. n + 1}
                  <=> c \in {events[i].new : i \in 1 .. n} \/ c = new
      BY <2>2, <2>3, <3>2, <3>3
    <3> QED
      BY <3>1, <3>4, <3>5
  <2>5. valid' = IF ValidCapacity(new) THEN valid \cup {new} ELSE valid
    BY <2>4 DEF ValidCapacity
  <2>6. /\ cap' = IF ValidCapacity(new) THEN new ELSE cap
        /\ cap = Unbounded \/ new < cap
    BY <1>2 DEF Tighten, Tightens, new
  <2>7. \A c \in valid : c \in Nat /\ c >= 1
    <3>1. \A c \in Realised : c \in Nat
      BY <2>1, EventFields DEF Realised
    <3> QED
      BY <3>1 DEF ValidCapacity
  <2>8. cap \in Nat
    BY DEF Typed, TypeOK
  <2> HIDE DEF valid
  <2>9. CASE ~ValidCapacity(new)
    <3>1. valid' = valid /\ cap' = cap
      BY <2>5, <2>6, <2>9
    <3> QED
      BY <1>0, <3>1 DEF AuditableBudget, valid
  <2>10. CASE ValidCapacity(new)
    <3>1. valid' = valid \cup {new} /\ cap' = new
      BY <2>5, <2>6, <2>10
    <3>2. ASSUME NEW c \in valid PROVE new <= c
      <4>1. cap \in valid /\ cap <= c /\ c \in Nat
        BY <1>0, <2>7, <3>2
      <4>2. new < cap
        BY <2>6, <2>7, <4>1 DEF Unbounded
      <4> QED
        BY <2>1, <2>8, <4>1, <4>2
    <3>3. cap' \in valid' /\ \A c \in valid' : cap' <= c
      BY <2>1, <3>1, <3>2
    <3> QED
      BY <3>3 DEF AuditableBudget, valid
  <2> QED
    BY <2>9, <2>10
<1> QED
  BY <1>1, <1>2, LogSteps

\* The log accounts for the budget: it is the least capacity among the events,
\* those that name no capacity at all left aside.
THEOREM BudgetAlwaysAuditable == Spec => []AuditableBudget
<1>1. Init => AuditableBudget
  BY DEF Init, AuditableBudget, Realised
<1> QED
  BY <1>1, AlwaysTyped, AuditableInductive, PTL DEF Spec

\* Multiplication in the order device_bytes() and tokens_for_bytes() use.
LEMMA Regroup ==
  ASSUME NEW a \in Int, NEW b \in Int, NEW c \in Int
  PROVE  (a - 0) * b * c = b * (a * c)
OBVIOUS

\* A tightening that evicts brings the observed bytes below the low watermark,
\* for every row size, number of layers and watermark.
THEOREM TighteningAlwaysFits == Spec => TightenedFits
<1> DEFINE Fits ==
      events' # events /\ tokens' < tokens =>
        DeviceBytes' + (events'[Len(events')].observed
                          - events'[Len(events')].bytes) <= LowMark
<1>1. Typed /\ FloatInv /\ [Next]_vars => [Fits]_vars
  <2> SUFFICES ASSUME Typed, FloatInv, [Next]_vars, events' # events, tokens' < tokens
               PROVE  DeviceBytes' + (events'[Len(events')].observed
                                        - events'[Len(events')].bytes) <= LowMark
    OBVIOUS
  <2>1. PICK other \in Others : Tighten(other)
    BY LogSteps
  <2> DEFINE new == NewCapacity(other)
             e == Event(other)
  <2>2. /\ e \in Events /\ events' = Append(events, e) /\ events \in Seq(Events)
        /\ new \in Nat /\ other \in Nat
    BY <2>1, OthersNat, TightenType DEF Typed, TypeOK
  <2>3. events'[Len(events')] = e
    <3> HIDE DEF e
    <3> QED
      BY <2>2, AppendedEvents
  <2>4. e.observed = DeviceBytes + other /\ e.bytes = DeviceBytes
    BY DEF Event
  <2>5. DeviceBytes \in Nat
    BY DeviceBytesType DEF Typed, TypeOK
  <2>6. e.observed - e.bytes = other
    <3> DEFINE d == DeviceBytes
    <3> HIDE DEF d
    <3>1. d \in Nat /\ e.observed = d + other /\ e.bytes = d
      BY <2>4, <2>5 DEF d
    <3> HIDE DEF e
    <3> QED
      BY <2>2, <3>1
  <2>7. tokens \in Nat /\ pc = "monitor" /\ ~quant /\ away = 0
    BY <2>1 DEF Tighten, Typed, TypeOK, FloatInv
  <2>8. HasPolicy /\ ValidCapacity(new) /\ Enforce(new)
    BY <2>1, <2>7 DEF Tighten
  <2>9. new # Unbounded /\ rows' = new
    BY <2>2, <2>7, <2>8 DEF Enforce
  <2>10. ~quant' /\ away' = 0
    BY <2>1, <2>7 DEF Tighten
  <2>11. DeviceBytes' = (Layers - 0) * new * RowBytes
    BY <2>9, <2>10 DEF DeviceBytes
  <2>12. new * BytesPerToken + other <= LowMark
    BY <2>2, <2>9, NewCapacityFits DEF Unbounded
  <2>13. Layers \in Int /\ RowBytes \in Int /\ new \in Int
    BY <2>2, BytesAssumption
  <2> HIDE DEF new, e
  <2>14. (Layers - 0) * new * RowBytes = new * BytesPerToken
    BY <2>13, Regroup DEF BytesPerToken
  <2> QED
    BY <2>3, <2>6, <2>11, <2>12, <2>14
<1>2. Init => FloatInv
  BY DEF Init, FloatInv
<1>3. Spec => [][Fits]_vars
  BY <1>1, <1>2, AlwaysTyped, FloatInductive, PTL DEF Spec
<1> QED
  BY <1>3 DEF TightenedFits
=============================================================================
