----------------------------- MODULE ForwardPass -----------------------------
(***************************************************************************)
(* Forward passes through a bounded cache, and the signals that decide     *)
(* what survives them.  A model (models/synthetic.py, models/hf_backend.py)*)
(* appends the keys of its queries layer by layer and attends over what    *)
(* the cache then holds; the attention is reduced to one weight per slot   *)
(* (cache/metadata.py) by whoever opened the outermost deferred block: the *)
(* model itself, or its caller, which is the generation loop, perplexity() *)
(* or needle_retrieval() (metrics/quality.py); and when that block ends    *)
(* the policy's scores bring every layer back within its budget.           *)
(*                                                                         *)
(* Attention is one-hot: every query gives its mass, Unit, to one key, the *)
(* key `focus` if it sees it and else its own.  A query without a key gives*)
(* it to slot 0, where the code's softmax returns NaN.  Batch and heads    *)
(* are averaged away.  Of what the loop does between passes only the       *)
(* allocation is here, which divides the budget over the layers after the  *)
(* prompt (the rest is GenerationLoop).  What a cache promises whoever     *)
(* drives it is KVCache, which this module implements (CacheProtocol).     *)
(***************************************************************************)
EXTENDS PolicyScores, BudgetAllocation

CONSTANTS
  NumLayers,   \* config.num_layers
  Capacities,  \* values of capacity, one budget per layer
  SinkCounts,  \* values of config.attention_sinks
  Setups,      \* the policies, backends and configurations a run tries
  Lengths,     \* bound: numbers of tokens a request feeds to the model
  MaxLength,   \* bound: the largest of them
  MaxEvicted,  \* bound: a request starts when so few tokens were evicted
  Unit         \* the mass of one query, divisible by every pass length

Layers == 1 .. NumLayers

ASSUME LayersAssumption == NumLayers \in Nat \ {0}
ASSUME CapacitiesAssumption == Capacities \subseteq [Layers -> Nat \ {0}]
ASSUME SinksAssumption == SinkCounts \subseteq Nat
ASSUME SetupsAssumption ==
  /\ Setups \subseteq [policy : PolicyNames, backend : {"synthetic", "hf"},
                       config : [cap : Capacities, sinks : SinkCounts]]
  /\ \A s \in Setups : \A i \in Layers : s.config.sinks <= s.config.cap[i]
ASSUME BoundsAssumption ==
  /\ MaxLength \in Nat /\ MaxEvicted \in Nat
  /\ Lengths \subseteq 1 .. MaxLength
  /\ Unit \in Nat \ {0}
  /\ \A n \in 1 .. MaxLength : Unit % n = 0

VARIABLES
  policy,       \* the cache's policy
  backend,      \* "synthetic", or "hf" through UniqKacheHFCache
  config,       \* cap and sinks of the CacheConfig
  layers,       \* the metadata of every layer
  autoEnforce,  \* self.auto_enforce
  deferred,     \* the `previous` of every open defer_enforcement block
  activity,     \* the eviction counters
  step,         \* self._step
  request,      \* what the caller does with the model
  fed,          \* tokens fed to the model in this request
  scored,       \* perplexity: the tokens scored, in order
  pc,           \* where the pass is
  cursor,       \* the layer the model computes next
  attention,    \* per layer: the slot each query of the pass attends
  log           \* history: per layer, what every pass attended, by position

driver == <<request, fed, scored, step>>
cache == <<layers, autoEnforce, deferred, activity>>
setup == <<policy, backend, config>>
vars == <<setup, cache, driver, pc, cursor, attention, log>>

-----------------------------------------------------------------------------
(***************************************************************************)
(* LayerMetadata                                                           *)
(***************************************************************************)

NewLayer ==
  [positions |-> <<>>, lastAccess |-> <<>>, cum |-> <<>>, hits |-> <<>>,
   next |-> 0]

NumTokens(l) == Len(l.positions)

Constant(n, v) == [k \in 1 .. n |-> v]

\* Mutant of AppendRows: new tokens were accessed at no step yet.
AppendRowsUnseen(l, start, n) ==
  [positions |-> l.positions \o [k \in 1 .. n |-> start + k - 1],
   lastAccess |-> l.lastAccess \o Constant(n, 0),
   cum |-> l.cum \o Constant(n, 0),
   hits |-> l.hits \o Constant(n, 0),
   next |-> IF start + n > l.next THEN start + n ELSE l.next]

\* append() of positions from start on, marked as accessed at this step.
AppendRows(l, start, n) ==
  [positions |-> l.positions \o [k \in 1 .. n |-> start + k - 1],
   lastAccess |-> l.lastAccess \o Constant(n, step),
   cum |-> l.cum \o Constant(n, 0),
   hits |-> l.hits \o Constant(n, 0),
   next |-> IF start + n > l.next THEN start + n ELSE l.next]

\* The slots of a set in ascending order.
Ascending(slots) ==
  [k \in 1 .. Cardinality(slots) |->
     CHOOSE s \in slots : Cardinality({t \in slots : t <= s}) = k]

Gather(x, slots) == [k \in 1 .. Cardinality(slots) |-> x[Ascending(slots)[k]]]

\* Mutant of KeepSlots: the hit counts are forgotten.
KeepSlotsButHits(l, slots) ==
  [l EXCEPT !.positions = Gather(@, slots),
            !.lastAccess = Gather(@, slots),
            !.cum = Gather(@, slots)]

\* keep(): every signal is gathered at the same slots.
KeepSlots(l, slots) ==
  [l EXCEPT !.positions = Gather(@, slots),
            !.lastAccess = Gather(@, slots),
            !.cum = Gather(@, slots),
            !.hits = Gather(@, slots)]

\* reduce_attention over the queries of a pass: their mean, which for a single
\* query is that query.
Weights(l, attended) ==
  [s \in 1 .. NumTokens(l) |->
     (Unit \div Cardinality(DOMAIN attended))
       * Cardinality({q \in DOMAIN attended : attended[q] = s})]

\* note_attention of a vector of weights.
Noted(l, w) ==
  [l EXCEPT !.cum = [s \in DOMAIN w |-> @[s] + w[s]],
            !.hits = [s \in DOMAIN w |-> IF w[s] > 0 THEN @[s] + 1 ELSE @[s]],
            !.lastAccess = [s \in DOMAIN w |-> IF w[s] > 0 THEN step ELSE @[s]]]

-----------------------------------------------------------------------------
(***************************************************************************)
(* KVCache                                                                 *)
(***************************************************************************)

\* is_sink
Protected(l) == {s \in DOMAIN l.positions : l.positions[s] < config.sinks}

Over(l, budget) == NumTokens(l) > budget

\* What the policy may keep of a layer over its budget.
Kept(l, budget) == Selected(Score(policy, l, budget), Protected(l), budget)

TotalTokens(ls) == MapThenSumSet(LAMBDA i : NumTokens(ls[i]), Layers)

\* enforce_capacity over the layers T of the store ls, under the budgets cap.
Enforce(ls, cap, T) ==
  LET over == {i \in T : Over(ls[i], cap[i])}
      dropped == TotalTokens(ls) - TotalTokens(layers')
  IN \E kept \in [over -> UNION {Kept(ls[i], cap[i]) : i \in over}] :
       /\ \A i \in over : kept[i] \in Kept(ls[i], cap[i])
       /\ layers' = [i \in Layers |-> IF i \in over THEN KeepSlots(ls[i], kept[i])
                                      ELSE ls[i]]
       /\ activity' =
            IF over = {} THEN activity
            ELSE [evictions |-> activity.evictions + 1,
                  evictedTokens |-> activity.evictedTokens + dropped]

\* Mutant of EnterBlock: enforcement is not put off.
EnterBlockOpen ==
  deferred' = Append(deferred, autoEnforce) /\ UNCHANGED autoEnforce

\* defer_enforcement() is entered.
EnterBlock ==
  deferred' = Append(deferred, autoEnforce) /\ autoEnforce' = FALSE

\* Who opened the outermost block owns the pass.
Owner == Len(deferred) = 1

\* Mutant of LeaveBlock: only the first layer is enforced.
LeaveBlockFirst(succeeded) ==
  /\ deferred' = SubSeq(deferred, 1, Len(deferred) - 1)
  /\ autoEnforce' = deferred[Len(deferred)]
  /\ IF Owner /\ autoEnforce' /\ succeeded THEN Enforce(layers, config.cap, {1})
     ELSE UNCHANGED <<layers, activity>>

\* The block ends, after its body returned or raised.
LeaveBlock(succeeded) ==
  /\ deferred' = SubSeq(deferred, 1, Len(deferred) - 1)
  /\ autoEnforce' = deferred[Len(deferred)]
  /\ IF Owner /\ autoEnforce' /\ succeeded THEN Enforce(layers, config.cap, Layers)
     ELSE UNCHANGED <<layers, activity>>

-----------------------------------------------------------------------------
(***************************************************************************)
(* Requests.  generate() and needle_retrieval() feed a prompt and then one *)
(* token at a time ("decode"), perplexity() feeds chunks, and a model may  *)
(* be called without a caller that opens a block ("direct").               *)
(***************************************************************************)

Requests ==
  {r \in [caller : {"decode", "perplexity", "direct"}, length : Lengths,
          first : 1 .. MaxLength, rest : 1 .. MaxLength,
          allocation : {"none", "uniform", "attention_proportional"}] :
     /\ r.first <= r.length
     /\ r.caller = "perplexity" => r.rest = r.first /\ r.length >= 2
     /\ r.caller # "perplexity" => r.rest = 1
     /\ r.caller # "decode" => r.allocation = "none"}

NoRequest == [caller |-> "direct", length |-> 0, first |-> 1, rest |-> 1,
              allocation |-> "none"]

\* The pass in progress: tokens fed .. fed + PassLength - 1.
PassLength ==
  LET wanted == IF fed = 0 THEN request.first ELSE request.rest
  IN IF wanted < request.length - fed THEN wanted ELSE request.length - fed

Queries == fed .. fed + PassLength - 1

\* return_attention: the callers ask for weights when the policy or the
\* allocation uses them, a model that owns the pass asks itself.
Records == UsesAttention(policy) \/ request.allocation # "none"

Init ==
  /\ \E s \in Setups :
       policy = s.policy /\ backend = s.backend /\ config = s.config
  /\ layers = [i \in Layers |-> NewLayer]
  /\ autoEnforce = TRUE
  /\ deferred = <<>>
  /\ activity = [evictions |-> 0, evictedTokens |-> 0]
  /\ step = 0
  /\ request = NoRequest
  /\ fed = 0
  /\ scored = <<>>
  /\ pc = "idle"
  /\ cursor = 1
  /\ attention = <<>>
  /\ log = [i \in Layers |-> <<>>]

\* cache.reset() for a new request.
Start(r) ==
  /\ pc = "idle"
  /\ activity.evictedTokens <= MaxEvicted
  /\ layers' = [i \in Layers |-> NewLayer]
  /\ step' = 0
  /\ request' = r
  /\ fed' = 0
  /\ scored' = <<>>
  /\ log' = [i \in Layers |-> <<>>]
  /\ pc' = "ready"
  /\ UNCHANGED <<setup, autoEnforce, deferred, activity, cursor, attention>>

\* A caller opens its block around the call of the model.
OpenCall ==
  /\ pc = "ready"
  /\ fed < request.length
  /\ request.caller # "direct"
  /\ EnterBlock
  /\ pc' = "call"
  /\ UNCHANGED <<setup, layers, activity, driver, cursor, attention, log>>

\* model.forward opens its own.
OpenModel ==
  /\ \/ pc = "call"
     \/ pc = "ready" /\ fed < request.length /\ request.caller = "direct"
  /\ EnterBlock
  /\ pc' = "forward"
  /\ cursor' = 1
  /\ attention' = <<>>
  /\ UNCHANGED <<setup, layers, activity, driver, log>>

\* Where the new rows of a layer go: the synthetic model gives positions, the
\* Hugging Face adapter leaves them to the cache.
FirstPosition(l) == IF backend = "hf" THEN l.next ELSE fed

\* The slots a query may attend: causal_mask compares positions; the mask that
\* Hugging Face builds from get_mask_sizes, offset 0, counts slots (external).
Visible(l, q) ==
  {s \in DOMAIN l.positions :
     IF backend = "hf" THEN s - 1 <= q ELSE l.positions[s] <= q}

\* The slots that hold the query's own key.
Own(l, q) == {s \in DOMAIN l.positions : l.positions[s] = q}

\* Which slot every query of the pass attends when focus attracts them.
Attended(l, focus) ==
  [q \in Queries |->
     IF focus \in Visible(l, q) THEN focus
     ELSE IF Own(l, q) \cap Visible(l, q) = {} THEN 0
     ELSE CHOOSE s \in Own(l, q) : TRUE]

\* Attention.forward, UniqKacheLayer.update: append, read back, attend.  The
\* weights of a policy that ignores them are not told apart.
Attend(focus) ==
  LET l == layers[cursor]
      ls == [layers EXCEPT ![cursor] =
               AppendRows(@, FirstPosition(l), PassLength)]
      seen == layers'[cursor]
      attended == Attended(seen, focus)
  IN /\ pc = "forward"
     /\ IF autoEnforce THEN Enforce(ls, config.cap, {cursor})
        ELSE layers' = ls /\ UNCHANGED activity
     /\ IF Records THEN focus \in Visible(seen, fed + PassLength - 1)
        ELSE focus = NumTokens(seen)
     /\ attention' = Append(attention,
                            [slots |-> NumTokens(seen), attended |-> attended])
     /\ log' = [log EXCEPT ![cursor] =
                  Append(@, [step |-> step,
                             keys |-> [q \in Queries |->
                                         IF attended[q] = 0 THEN -1
                                         ELSE seen.positions[attended[q]]]])]
     /\ IF cursor < NumLayers
        THEN cursor' = cursor + 1 /\ pc' = "forward"
        ELSE cursor' = 1 /\ pc' = IF Owner THEN "note" ELSE "leave"
     /\ UNCHANGED <<setup, autoEnforce, deferred, driver>>

\* The attention of every layer is noted; weights that do not fit the layer
\* raise, which is logged and swallowed.
NoteAll ==
  layers' = [i \in Layers |->
    IF Records /\ attention[i].slots = NumTokens(layers[i])
    THEN Noted(layers[i], Weights(layers[i], attention[i].attended))
    ELSE layers[i]]

\* The model notes the attention of a pass it owns.  Its own call is in no try,
\* so lengths that do not match would end the pass; they always match, because
\* evictions wait for the block's end: nothing gets stuck here.
ModelNotes ==
  /\ pc = "note"
  /\ \A i \in Layers : Records => attention[i].slots = NumTokens(layers[i])
  /\ NoteAll
  /\ pc' = "leave"
  /\ UNCHANGED <<setup, autoEnforce, deferred, activity, driver, cursor,
                 attention, log>>

\* model.forward returns.
CloseModel ==
  /\ pc = "leave"
  /\ LeaveBlock(TRUE)
  /\ IF request.caller = "direct"
     THEN fed' = fed + PassLength /\ pc' = "ready"
     ELSE pc' = "absorb" /\ UNCHANGED fed
  /\ UNCHANGED <<setup, request, scored, step, cursor, attention, log>>

\* _absorb_attention of the caller.
Absorb ==
  /\ pc = "absorb"
  /\ NoteAll
  /\ pc' = "close"
  /\ UNCHANGED <<setup, autoEnforce, deferred, activity, driver, cursor,
                 attention, log>>

\* Mutant of NumTargets: every logit of the chunk scores a token.
NumTargetsAll == PassLength

\* How many tokens the logits of a chunk score: there is none after the last.
NumTargets ==
  LET end == fed + PassLength
  IN (IF end < request.length - 1 THEN end ELSE request.length - 1) - fed

\* The caller's block ends and the step counter advances; perplexity scores
\* the tokens after the positions of the chunk.
CloseCall ==
  /\ pc = "close"
  /\ LeaveBlock(TRUE)
  /\ IF fed = 0 /\ request.allocation # "none"
     THEN pc' = "allocate" /\ UNCHANGED step
     ELSE pc' = "ready" /\ step' = step + 1
  /\ scored' = IF request.caller = "perplexity"
               THEN scored \o [k \in 1 .. NumTargets |-> fed + k]
               ELSE scored
  /\ fed' = fed + PassLength
  /\ UNCHANGED <<setup, request, cursor, attention, log>>

\* After the prompt generate() allocates total_capacity() anew; set_capacity
\* enforces the new budgets.
Allocate ==
  LET cap == Allocated(request.allocation, SumOver(config.cap), config.sinks,
                       [i \in Layers |-> layers[i].cum])
  IN /\ pc = "allocate"
     /\ config' = [config EXCEPT !.cap = cap]
     /\ Enforce(layers, cap, Layers)
     /\ step' = step + 1
     /\ pc' = "ready"
     /\ UNCHANGED <<policy, backend, autoEnforce, deferred, request, fed, scored,
                    cursor, attention, log>>

\* The model raises in a layer: every block is left, the request is given up.
Raise ==
  /\ pc = "forward"
  /\ pc' = "raising"
  /\ UNCHANGED <<setup, cache, driver, cursor, attention, log>>

Unwind ==
  /\ pc = "raising"
  /\ LeaveBlock(FALSE)
  /\ pc' = IF Owner THEN "idle" ELSE "raising"
  /\ UNCHANGED <<setup, driver, cursor, attention, log>>

Finish ==
  /\ pc = "ready"
  /\ fed = request.length
  /\ pc' = "idle"
  /\ UNCHANGED <<setup, cache, driver, cursor, attention, log>>

\* There may be no further request.
Rest == pc = "idle" /\ UNCHANGED vars

Next ==
  \/ \E r \in Requests : Start(r)
  \/ OpenCall
  \/ OpenModel
  \/ \E focus \in 1 .. MaxLength : Attend(focus)
  \/ ModelNotes
  \/ CloseModel
  \/ Absorb
  \/ CloseCall
  \/ Allocate
  \/ Raise
  \/ Unwind
  \/ Finish
  \/ Rest

Spec == Init /\ [][Next]_vars

-----------------------------------------------------------------------------
(***************************************************************************)
(* Invariants.                                                             *)
(***************************************************************************)

Signals == Seq(Nat)

\* Every variable keeps its type, and the arrays of a layer stay parallel.
TypeOK ==
  /\ policy \in PolicyNames
  /\ backend \in {"synthetic", "hf"}
  /\ config \in [cap : [Layers -> Nat \ {0}], sinks : SinkCounts]
  /\ \A i \in Layers :
       /\ layers[i] \in [positions : Signals, lastAccess : Signals,
                         cum : Signals, hits : Signals, next : Nat]
       /\ \A x \in {layers[i].lastAccess, layers[i].cum, layers[i].hits} :
            Len(x) = Len(layers[i].positions)
  /\ autoEnforce \in BOOLEAN
  /\ deferred \in Seq(BOOLEAN)
  /\ step \in Nat /\ fed \in 0 .. MaxLength /\ cursor \in Layers
  /\ scored \in Seq(Nat)
  /\ pc \in {"idle", "ready", "call", "forward", "note", "leave", "absorb",
             "close", "allocate", "raising"}

(***************************************************************************)
(* What the log says of position p in layer i: the mass it was given, the  *)
(* passes that attended it, and the last step it was appended or attended. *)
(***************************************************************************)
Attenders(keys, p) == {q \in DOMAIN keys : keys[q] = p}

Mass(i, p) ==
  MapThenSumSet(
    LAMBDA e : (Unit \div Cardinality(DOMAIN log[i][e].keys))
                 * Cardinality(Attenders(log[i][e].keys, p)),
    DOMAIN log[i])

HitCount(i, p) ==
  Cardinality({e \in DOMAIN log[i] : Attenders(log[i][e].keys, p) # {}})

LastSeen(i, p) ==
  Max({log[i][e].step : e \in
         {f \in DOMAIN log[i] : \/ p \in DOMAIN log[i][f].keys
                                \/ Attenders(log[i][f].keys, p) # {}}})

\* Between passes the signals of every token that is left are those of the
\* whole history: each pass counted once, whoever recorded it, at the token it
\* belongs to, however evictions moved the token's slot.
SignalsFollowTokens ==
  pc = "ready" /\ Records =>
    \A i \in Layers : \A s \in DOMAIN layers[i].positions :
      LET p == layers[i].positions[s] IN
      /\ layers[i].cum[s] = Mass(i, p)
      /\ layers[i].hits[s] = HitCount(i, p)
      /\ layers[i].lastAccess[s] = LastSeen(i, p)

\* "Keep current queries available until attention is recorded": no query is
\* left without a key, and none attends a later token.  For a mask that counts
\* slots the second holds for a prompt and for passes of one token only.
CausalAttention ==
  \A i \in Layers : \A e \in DOMAIN log[i] :
    LET keys == log[i][e].keys IN
    \A q \in DOMAIN keys :
      /\ keys[q] >= 0
      /\ backend = "synthetic" \/ e = 1 \/ Cardinality(DOMAIN keys) = 1
           => keys[q] <= q

\* get_mask_sizes
MaskSize(l, i) ==
  LET all == NumTokens(l) + PassLength
  IN IF autoEnforce /\ config.cap[i] < all THEN config.cap[i] ELSE all

\* Every layer has the same budget, and did so through the whole request.
OneBudgetThroughout ==
  request.allocation = "none" /\ \A i, j \in Layers : config.cap[i] = config.cap[j]

\* The mask is built once per pass, from the first layer: under one budget it
\* fits the keys that every layer hands to the model.
MaskFits ==
  backend = "hf" /\ OneBudgetThroughout /\ pc = "forward" =>
    NumTokens(layers[cursor]) + PassLength =
      IF cursor = 1 THEN MaskSize(layers[1], 1) ELSE attention[1].slots

\* Perplexity scores every token but the first exactly once and in order,
\* whatever the size of the chunks and of the last one.
EveryTokenScoredOnce ==
  pc = "ready" /\ request.caller = "perplexity" =>
    scored = [k \in 1 .. (IF fed < request.length THEN fed
                          ELSE request.length - 1) |-> k]

-----------------------------------------------------------------------------
(***************************************************************************)
(* Action properties.                                                      *)
(***************************************************************************)

\* Token q of layer i has the better history by every signal of the policy.
Dominates(i, q, p) ==
  LET signals ==
        CASE policy = "attention_based" -> {<<Mass(i, q), Mass(i, p)>>}
          [] policy = "token_importance" ->
               {<<Mass(i, q), Mass(i, p)>>, <<LastSeen(i, q), LastSeen(i, p)>>,
                <<HitCount(i, q), HitCount(i, p)>>}
          [] policy = "adaptive" ->
               {<<Mass(i, q), Mass(i, p)>>, <<LastSeen(i, q), LastSeen(i, p)>>}
          [] policy = "lru" ->
               IF LastSeen(i, q) = LastSeen(i, p) THEN {<<q, p>>}
               ELSE {<<LastSeen(i, q), LastSeen(i, p)>>}
          [] policy = "sliding_window" -> {<<q, p>>}
          [] policy = "full_cache" -> {}
  IN /\ \A x \in signals : x[1] >= x[2]
     /\ \E x \in signals : x[1] > x[2]

Tokens(l) == Range(l.positions)

\* No token of layer i that goes dominates one that is kept and no sink.
NoneDominated(i, kept) ==
  \A p \in kept, q \in Tokens(layers[i]) \ kept :
    p >= config.sinks => ~Dominates(i, q, p)

\* The policies do what they are named for, after any history of passes and
\* evictions: no token goes while one stays that is not a sink and that it
\* dominates.
DominatedGoFirst ==
  [][pc \notin {"idle", "ready"} =>
       \A i \in Layers : NoneDominated(i, Tokens(layers'[i]))]_vars

\* The layer's share of its attention is at least as concentrated.
MoreConcentrated(i, j) ==
  LET c == Concentrations([k \in Layers |-> layers[k].cum]) IN c[i] >= c[j]

\* "Per-layer capacities summing to total_budget", each of at least max(1,
\* sinks): whatever was allocated before, an allocation neither makes nor loses
\* budget, and the attention strategy gives the more concentrated layer no less
\* than a less concentrated one but for the token that ties leave over.
AllocationKeepsTotal ==
  [][config' # config =>
       /\ SumOver(config'.cap) = SumOver(config.cap)
       /\ \A i \in Layers : config'.cap[i] >= MinPerLayer(config.sinks)
       /\ request.allocation = "attention_proportional" =>
            \A i, j \in Layers :
              MoreConcentrated(i, j) => config'.cap[i] + 1 >= config'.cap[j]]_vars

-----------------------------------------------------------------------------
(***************************************************************************)
(* The cache that callers drive through passes is the one of KVCache, with *)
(* "any" policy: its results on budgets, deferral and sinks hold here.     *)
(***************************************************************************)

CacheLayer(l) ==
  [tokens |-> Tokens(l), next |-> l.next, sinks |-> config.sinks,
   quant |-> FALSE, away |-> FALSE, hosted |-> 0]

KV == INSTANCE KVCache WITH
  Policy <- "any", AutoEnforce <- TRUE,
  Calls <- {"append", "clear", "defer", "raise", "capacity"},
  MaxPosition <- MaxLength, MaxDepth <- 2,
  layers <- [i \in Layers |-> CacheLayer(layers[i])],
  ckpt <- <<>>, outcome <- "ok"

\* Forward passes drive the cache as KVCache allows: appends at the next
\* position, blocks that nest and unwind, and evictions that a policy may make.
CacheProtocol == KV!Spec
=============================================================================
