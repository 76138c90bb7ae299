--------------------------- MODULE GenerationLoop ---------------------------
(***************************************************************************)
(* The generation loop (runtime/generation.py GenerationEngine.generate)   *)
(* over a bounded or unbounded cache, with the two things that adapt the   *)
(* cache between steps: the memory-pressure monitor (runtime/pressure.py), *)
(* which shrinks the token budget, and the adaptive controller             *)
(* (controllers/adaptive.py), which compresses, offloads or evicts.        *)
(* Requests follow one another on one engine: the cache is reset for each, *)
(* its budget and the monitor's memory are not.                            *)
(*                                                                         *)
(* Every layer gets the same appends, the same scalar budget and the same  *)
(* evictions, so one number of tokens and one of allocated rows stand for  *)
(* all of them; the layers differ only in the tier they are on, where a    *)
(* prefetch brings home the layer at the cursor alone.  The engine's       *)
(* allocation strategy, which replaces the scalar budget by a list and     *)
(* thereby silences the monitor, is left out.                              *)
(***************************************************************************)
EXTENDS Integers, Sequences

CONSTANTS
  Layers,         \* number of layers
  Prompts,        \* lengths of the prompts
  MaxNewTokens,   \* config.max_new_tokens
  HasStop,        \* whether config.stop_token_id is given
  Capacity,       \* the cache's capacity at the start, 0 for None
  Sinks,          \* attention_sinks
  HasPolicy,      \* whether the cache has a policy
  InitialAlloc,   \* rows a layer without capacity first allocates (64)
  RowBytes,       \* bytes of a float row of one layer
  QuantRowBytes,  \* bytes of a row of an int8 payload
  OtherBytes,     \* device bytes that are not cache, where they are observed
  HighMark,       \* the least observed bytes at the high watermark
  LowMark,        \* int(device_byte_budget * low_watermark)
  MinInterval,    \* min_interval
  MemoryBudget,   \* the controller's memory_budget_bytes, 0 for None
  HasLatency      \* whether the controller has a latency budget

Unbounded == 0

\* CacheConfig.__post_init__ on a capacity the monitor computed.
ValidCapacity(c) == c >= 1 /\ Sinks <= c

ASSUME PromptsAssumption == Prompts \subseteq Nat \ {0}
ASSUME ConfigAssumption ==
  /\ MaxNewTokens \in Nat /\ Capacity \in Nat /\ Sinks \in Nat
  /\ HasStop \in BOOLEAN /\ HasPolicy \in BOOLEAN
  /\ Capacity # Unbounded => HasPolicy /\ ValidCapacity(Capacity)
ASSUME BytesAssumption ==
  /\ Layers \in Nat \ {0} /\ InitialAlloc \in Nat \ {0}
  /\ RowBytes \in Nat \ {0} /\ QuantRowBytes \in Nat
  /\ OtherBytes \subseteq Nat
ASSUME MonitorAssumption ==
  /\ HighMark \in Nat /\ LowMark \in Nat /\ LowMark <= HighMark
  /\ MinInterval \in Nat \ {0}
ASSUME ControllerAssumption ==
  MemoryBudget \in Nat /\ HasLatency \in BOOLEAN

VARIABLES
  onHost,   \* device.type = "cpu": chosen once
  pc,       \* where generate() is; "idle" between requests
  prompt,   \* prompt_tokens
  emitted,  \* len(generated), which is the loop's step when it is tested
  stopped,  \* whether the last token was the stop token
  clock,    \* the cache's step counter
  tokens,   \* tokens cached per layer
  rows,     \* rows allocated per layer
  quant,    \* the layers hold int8 payloads
  away,     \* number of layers offloaded, the cursor's layer 0 the last
  next,     \* metadata._next_position
  cap,      \* config.capacity
  events    \* the monitor's events; the last one is its last adaptation

loop == <<pc, prompt, emitted, stopped, clock>>
cache == <<tokens, rows, quant, away, next>>
vars == <<onHost, loop, cache, cap, events>>

MaxOf(a, b) == IF a >= b THEN a ELSE b

Init ==
  /\ onHost \in BOOLEAN
  /\ pc = "idle" /\ prompt = 0 /\ emitted = 0 /\ stopped = FALSE /\ clock = 0
  /\ tokens = 0 /\ rows = 0 /\ quant = FALSE /\ away = 0 /\ next = 0
  /\ cap = Capacity
  /\ events = <<>>

-----------------------------------------------------------------------------
(***************************************************************************)
(* The cache.                                                              *)
(***************************************************************************)

InitCap == IF cap = Unbounded THEN InitialAlloc ELSE cap

\* device_bytes() over all layers
DeviceBytes ==
  (Layers - away) * rows * (IF quant THEN QuantRowBytes ELSE RowBytes)

\* Rows allocated once n more tokens are appended: the payload is expanded
\* first, a first allocation takes the capacity, growth doubles.
RowsFor(n) ==
  LET have == IF quant THEN MaxOf(tokens, InitCap) ELSE rows
      needed == tokens + n
  IN IF have = 0 THEN MaxOf(needed, InitCap)
     ELSE IF needed > have THEN MaxOf(needed, 2 * have)
     ELSE have

\* model.forward inside defer_enforcement: n tokens from position start on.
Forward(start, n) ==
  /\ tokens' = tokens + n
  /\ rows' = RowsFor(n)
  /\ next' = MaxOf(next, start + n)
  /\ quant' = FALSE /\ away' = 0
  /\ UNCHANGED <<onHost, cap, events>>

\* enforce_capacity: the survivors move to a buffer of exactly the capacity.
Enforce(c) ==
  IF c # Unbounded /\ tokens > c
  THEN tokens' = c /\ rows' = c
  ELSE UNCHANGED <<tokens, rows>>

-----------------------------------------------------------------------------
(***************************************************************************)
(* MemoryPressureMonitor                                                   *)
(***************************************************************************)

LastEvent == events[Len(events)]

\* Mutant of TooSoon: the interval is counted from the start of the request.
TooSoonAtStart == events # <<>> /\ clock < MinInterval

TooSoon == events # <<>> /\ clock - LastEvent.step < MinInterval

BytesPerToken == Layers * RowBytes

\* Mutant of NewCapacity: the part of the device that is not cache is not
\* reserved.
NewCapacityUnreserved(other) == LowMark \div BytesPerToken

\* tokens_for_bytes of what the low watermark leaves for the cache.
NewCapacity(other) == MaxOf(0, LowMark - other) \div BytesPerToken

\* Mutant of Tightens: a larger budget is an adaptation as well.
TightensEitherWay(other) ==
  /\ DeviceBytes + other >= HighMark
  /\ ~TooSoon
  /\ NewCapacity(other) # cap

\* observe() decides to tighten.
Tightens(other) ==
  /\ DeviceBytes + other >= HighMark
  /\ ~TooSoon
  /\ cap = Unbounded \/ NewCapacity(other) < cap

Event(other) ==
  [step |-> clock, observed |-> DeviceBytes + other, bytes |-> DeviceBytes,
   old |-> cap, new |-> NewCapacity(other)]

-----------------------------------------------------------------------------
(***************************************************************************)
(* AdaptiveController, as _controller_step asks it: no quality signal, a   *)
(* concrete layer as cursor, recomputation not allowed.                    *)
(***************************************************************************)

\* decide(); slow: the mean step time is at the limit of the latency budget.
Decision(slow) ==
  IF away = Layers THEN "prefetch"
  ELSE IF MemoryBudget # 0 /\ DeviceBytes > MemoryBudget
  THEN IF slow THEN "evict" ELSE IF onHost THEN "compress" ELSE "offload"
  ELSE "retain"

\* apply()
Apply(decision) ==
  CASE decision = "evict" -> Enforce(cap) /\ UNCHANGED <<quant, away>>
    [] decision = "compress" /\ tokens > 0 /\ ~quant ->
         quant' = TRUE /\ rows' = tokens /\ UNCHANGED <<tokens, away>>
    [] decision = "offload" /\ rows > 0 ->
         away' = Layers /\ UNCHANGED <<tokens, rows, quant>>
    [] decision = "prefetch" -> away' = away - 1 /\ UNCHANGED <<tokens, rows, quant>>
    [] OTHER -> UNCHANGED <<tokens, rows, quant, away>>

\* current_memory_bytes() knows the other bytes on CUDA only.
Others == IF onHost THEN {0} ELSE OtherBytes

\* Step times exist once a decode step was measured.
SlowValues == IF HasLatency /\ emitted > 1 THEN BOOLEAN ELSE {FALSE}

-----------------------------------------------------------------------------
(***************************************************************************)
(* generate()                                                              *)
(***************************************************************************)

\* cache.reset() for a new request, after the last one returned or raised.
Start(p) ==
  /\ pc \in {"idle", "raised"}
  /\ pc' = "prefill"
  /\ prompt' = p
  /\ emitted' = 0 /\ stopped' = FALSE /\ clock' = 0
  /\ tokens' = 0 /\ rows' = 0 /\ quant' = FALSE /\ away' = 0 /\ next' = 0
  /\ UNCHANGED <<onHost, cap, events>>

Prefill ==
  /\ pc = "prefill"
  /\ Forward(0, prompt)
  /\ pc' = "enforce"
  /\ UNCHANGED <<prompt, emitted, stopped, clock>>

\* The deferred block ends: attention was recorded, the policy evicts.
EndForward ==
  /\ pc = "enforce"
  /\ Enforce(cap)
  /\ pc' = IF emitted = 0 THEN "monitor" ELSE "select"
  /\ UNCHANGED <<onHost, prompt, emitted, stopped, clock, quant, away, next, cap, events>>

\* Mutant of KeepBudget: the loop waits for the pressure to fall.
KeepBudgetWhenCalm(other) ==
  /\ pc = "monitor"
  /\ ~Tightens(other)
  /\ pc' = IF DeviceBytes + other >= HighMark THEN "monitor" ELSE "control"
  /\ UNCHANGED <<onHost, prompt, emitted, stopped, clock, cache, cap, events>>

KeepBudget(other) ==
  /\ pc = "monitor"
  /\ ~Tightens(other)
  /\ pc' = "control"
  /\ UNCHANGED <<onHost, prompt, emitted, stopped, clock, cache, cap, events>>

\* update(): the event is recorded before anything can refuse it.
Tighten(other) ==
  LET new == NewCapacity(other) IN
  /\ pc = "monitor"
  /\ Tightens(other)
  /\ events' = Append(events, Event(other))
  /\ IF HasPolicy /\ ValidCapacity(new)
     THEN cap' = new /\ Enforce(new)
     ELSE UNCHANGED <<cap, tokens, rows>>
  /\ pc' = IF HasPolicy /\ ~ValidCapacity(new) THEN "raised" ELSE "control"
  /\ UNCHANGED <<onHost, prompt, emitted, stopped, clock, quant, away, next>>

Control(slow) ==
  /\ pc = "control"
  /\ Apply(Decision(slow))
  /\ pc' = IF emitted > 0 THEN "loop"
           ELSE IF MaxNewTokens = 0 THEN "idle" ELSE "select"
  /\ UNCHANGED <<onHost, prompt, emitted, stopped, clock, next, cap, events>>

\* The token after prefill is chosen after the adaptations, the later ones
\* before them.
Select(stop) ==
  /\ pc = "select"
  /\ stop => HasStop
  /\ stopped' = stop
  /\ emitted' = emitted + 1
  /\ clock' = clock + 1
  /\ pc' = IF emitted = 0 THEN "loop" ELSE "monitor"
  /\ UNCHANGED <<onHost, prompt, cache, cap, events>>

Done == stopped \/ emitted >= MaxNewTokens

\* Mutant of Position: the first token after the prompt is counted twice.
PositionSkips == prompt + emitted

\* The position of the token a decode step feeds to the model.
Position == prompt + emitted - 1

Decode ==
  /\ pc = "loop"
  /\ ~Done
  /\ Forward(Position, 1)
  /\ pc' = "enforce"
  /\ UNCHANGED <<prompt, emitted, stopped, clock>>

Finish ==
  /\ pc = "loop"
  /\ Done
  /\ pc' = "idle"
  /\ UNCHANGED <<onHost, prompt, emitted, stopped, clock, cache, cap, events>>

\* One step of generate(); the device's other bytes change as they like.
Step ==
  \/ Prefill
  \/ EndForward
  \/ \E other \in Others : KeepBudget(other) \/ Tighten(other)
  \/ \E slow \in SlowValues : Control(slow)
  \/ \E stop \in BOOLEAN : Select(stop)
  \/ Decode
  \/ Finish

Next == Step \/ \E p \in Prompts : Start(p)

Spec == Init /\ [][Next]_vars

\* A call of generate() runs on in its thread until it returns or raises.
FairSpec == Spec /\ WF_vars(Step)

-----------------------------------------------------------------------------
(***************************************************************************)
(* Properties.                                                             *)
(***************************************************************************)

Events ==
  [step : Nat, observed : Nat, bytes : Nat, old : Nat, new : Nat]

\* Every variable keeps its type.
TypeOK ==
  /\ onHost \in BOOLEAN
  /\ pc \in {"idle", "prefill", "enforce", "monitor", "control", "select",
             "loop", "raised"}
  /\ prompt \in Nat /\ emitted \in Nat /\ clock \in Nat
  /\ tokens \in Nat /\ rows \in Nat /\ next \in Nat /\ cap \in Nat
  /\ stopped \in BOOLEAN /\ quant \in BOOLEAN /\ away \in 0 .. Layers
  /\ events \in Seq(Events)

\* "At most one adaptation per min_interval steps", over the whole life of the
\* monitor: its memory outlives the request and the clock starts over.
EventsSpaced ==
  \A i \in 1 .. Len(events) - 1 :
    events[i + 1].step - events[i].step >= MinInterval

\* "The event log records every tightening so the realised budget over time is
\* auditable": with a policy, the cache's budget is the least capacity of the
\* log that is a capacity at all, and the configured one before the first.
Realised == {events[i].new : i \in 1 .. Len(events)}

AuditableBudget ==
  HasPolicy =>
    LET valid == {c \in Realised : ValidCapacity(c)} IN
    IF valid = {} THEN cap = Capacity
    ELSE cap \in valid /\ \A c \in valid : cap <= c

\* Outside a forward pass the cache is within its budget, however the monitor
\* and the controller changed it.
WithinCap ==
  pc # "enforce" /\ cap # Unbounded => tokens <= cap

\* The position the loop computes for the next token is the one the cache
\* would give it: a backend that leaves positions to the cache and one that
\* passes them on agree, whatever was evicted in between.
PositionsAgree == pc = "loop" => Position = next

\* Whatever the controller compressed or offloaded, the next forward pass has
\* undone before the monitor and the controller look again: the bytes they see
\* are those of float rows on the device, the unit tokens_for_bytes counts in.
FloatWhenObserved == pc \in {"monitor", "control"} => ~quant /\ away = 0

\* A tightening that evicts brings the device below the low watermark.
TightenedFits ==
  [][events' # events /\ tokens' < tokens =>
       DeviceBytes' + (events'[Len(events')].observed
                         - events'[Len(events')].bytes) <= LowMark]_vars

\* Every request ends, by its token limit, its stop token or an exception.
Terminates == pc = "prefill" ~> pc \in {"idle", "raised"}

-----------------------------------------------------------------------------
(***************************************************************************)
(* What the documentation says and the code does not do.                   *)
(***************************************************************************)

\* "A cache without a policy logs and skips rather than recording an
\* adaptation that cannot be enforced".  observe() has recorded the event
\* before update() looks for the policy.
EventsAreEnforced ==
  [][events' # events => cap' = events'[Len(events')].new]_vars
=============================================================================
