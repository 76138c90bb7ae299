# A TLA+ verification project for UniqKache

UniqKache manages the key/value cache of a transformer: which tokens of the
context stay in it under a token budget, in which precision and on which memory
tier their rows live, and how the cache is saved and restored.  This directory
models the parts of it where a wrong order of calls, a forgotten field or a
stale copy would silently feed attention the wrong rows.

All source paths are relative to `src/src/uniqkache/`.

## Inventory

| Component | State | Operations | Hard part |
|---|---|---|---|
| Layer storage (`cache/store.py`, `cache/metadata.py`) | row buffers, int8 payload, hosted tail, boundary, offloaded flag, home device, capacity; positions, next position, signals, device | `append keep clear move_to offload_tail prefetch_tail apply_compression materialize state_dict load_state_dict` | three layouts, slack rows and two tiers kept in step by hand in every method |
| Cache facade (`cache/kv_cache.py`, `cache/types.py`) | the layers, configuration, enforcement flag, nesting depth, step, counters | `append evict enforce_capacity set_capacity clear compress offload prefetch defer_enforcement save load load_checkpoint` | calls over several layers that raise half-way, nested deferred blocks, restores under another configuration |
| Policies (`policies/`, the signals of `cache/metadata.py`) | per slot: position, last access, accumulated attention, hits | `score select note_attention` | signals that must move with the slots through every eviction; protected tokens, ties, scores normalised over degenerate ranges |
| Compression (`compression/`) | none | `compress decompress` | the payload must describe the same slots |
| Tier and prefetch plans (`offload/`, `prefetch/`) | none | `plan_offload plan` | a plan is computed once from byte accounts, then carried out by calls that re-check, skip and collapse on their own |
| Generation and memory pressure (`runtime/`) | phase, tokens, monitor's events and last step | `generate update observe` | adaptations between steps that evict or raise; a monitor that outlives a request |
| Adaptive controller (`controllers/`) | constraints, trace | `decide apply` | decisions from one layer applied to a cache of several |
| Allocation (`allocation/`) | none | `allocate` | rounding shares of a budget without making or losing tokens |
| Model backends (`models/`) | weights | `forward`, the adapters of the Hugging Face cache | a pass appends layer by layer, must see its own keys before anything is evicted, and may raise half-way |
| Benchmark runner (`bench/`) | memo of references, outcomes, failures; files | `run_config run_spec write_results` | what a run leaves behind for the next one; runs that fail; concurrent writers that must not overwrite or mix artifacts |
| Metrics (`metrics/`) | none | `perplexity needle_retrieval quality_delta validate_record` | chunk boundaries; figures that are missing or not finite |
| Command line, utilities | none | | argument parsing, serialisation, device names |

How they interact: the generation loop calls the model, which appends to the
cache layer by layer inside `defer_enforcement`; when the block ends the facade
asks the policy whom to keep and the store gathers the survivors.  Between
steps the pressure monitor and the controller change the budget, the tier or
the precision through the same facade.  Everything runs in one thread; the only
concurrency is between processes that write results to one directory.  What is
hard is therefore the length and the variety of legal call sequences, calls
that fail half-way, and state that is restored in another place or under
another configuration.

## Modules

| Module | Role |
|---|---|
| `LayerRecord` | One layer as a record and every method of `LayerStorage` as an operator from records to records, with the invariant `LayerOK` of a record |
| `LayerStorage` | The layer as a state machine: one action per call the facade makes on it, and a checkpoint |
| `TokenLog` | What a layer promises: an ordered list of tokens that only append, keep, clear and restore change |
| `MCLayerStorage` | Model values for the layer runs |
| `LayerRecord_proofs` | For each operator of `LayerRecord`: it preserves `LayerOK`, and what it does to what readers see |
| `LayerStorage_proofs` | The theorems about the layer |
| `KVCache` | The facade over several layers: budgets, policies, deferred enforcement, partial failure, checkpoints |
| `MCKVCache` | Budgets for the facade runs |
| `KVCache_proofs` | The theorems about the facade |
| `GenerationLoop` | `generate()` step by step, with the pressure monitor and the controller between the steps |
| `MCGenerationLoop` | The module the loop's runs check |
| `GenerationLoop_proofs` | The theorems about the loop |
| `PolicyScores` | The scores of the six policies on exact fractions, and `select` |
| `BudgetAllocation` | The two allocation strategies |
| `ForwardPass` | Models driven by `generate`, `perplexity` or directly, layer by layer, with the signals their attention leaves behind |
| `MCForwardPass` | The setups the run of passes tries |
| `ForwardPass_proofs` | The theorems about passes |
| `TierPlans` | Offload and prefetch plans over several layers, and the calls that carry them out |
| `MCTierPlans` | Model values for the run of plans |
| `TierPlans_proofs` | The theorems about plans and transfers |
| `Sweep` | `run_config`: runs, repetitions, the memo of references, outcomes and failures |
| `MCSweep` | The experiments the sweep's runs try |
| `Sweep_proofs` | The theorems about sweeps |
| `ResultSets` | What `write_results` promises: whole sets appear one at a time, each under a basename of its own |
| `ResultWriter` | `write_results` run by several processes at once, one action per probe, open, write and unlink |
| `MCResultWriter` | What earlier processes left in the directory |
| `ResultWriter_proofs` | The theorems about the result writers |

### The layer

A K/V row is abstracted to the absolute position of the token it was computed
for.  "Slot *i* holds the row of the token that metadata slot *i* describes" is
then an equation between two sequences, and a slack row that `torch.empty` left
uninitialised is the value `Garbage`, which no token has.  Keys and values are
always sliced, gathered and moved together, so one sequence stands for both.
`layer.buf` is the allocated buffer *including* its slack, so the allocation
rules (64 rows or the capacity at first, doubling on growth, exactly the
capacity after `keep`, exactly the boundary after a split) are in the model;
they are what makes slack rows reachable and what a finding and one of the
notes below are about.  The 64 is the constant `InitialAlloc`.

`load_state_dict` raises on a checkpoint that fails its checks and the caller
keeps its old layer: `Restore` is enabled for loadable checkpoints only.

A device is a name and equal names are equal devices.  PyTorch also has the
name `cuda` for what its tensors call `cuda:0`; the difference matters to
`load(map_location=...)` only and is not modelled.

### The facade

`LayerStorage` shows that a layer returns its tokens in slot order whatever its
layout, so `KVCache` keeps, per layer, the *set* of absolute positions, the next
position, the protected count, and which of the tiers and representations it is
in.  A set can name its tokens by position because the callers hand out each
position once: the models pass `start_pos` and what follows it, and count
upwards.  `append` itself accepts any positions; that it is given unused ones
(`start >= next` in `AppendTokens`) is the callers' protocol and not the cache's
doing, so `PositionsNotReused` is about what evictions, tier moves and failures
make of `next`.  `select` may return any set `Selections` allows: of the right size, with
all protected tokens, and respecting the scores when the policy's scores are
known (`sliding_window` without a window of its own); `any` stands for the
policies whose scores depend on attention, and for a constant score.  Every multi-layer call
computes the first layer it would raise at (`Before`), changes the ones before
it and leaves the counters alone, as the loops in `kv_cache.py` do.  A nested
`defer_enforcement` is a stack of the `previous` local variables.

### The generation loop

`pc` follows `generate()`: the forward pass, the enforcement at the end of its
deferred block, the choice of a token, the monitor, the controller, the loop
test.  The first token is chosen after the adaptations and every later one
before them, as in the code.  Requests follow one another on one engine: `Start`
resets the cache and the step counter, while the budget and the monitor's log
stay, which is what makes the interval rule interesting.  All layers get the
same appends and the same scalar budget, so the module keeps one count of
tokens and one of allocated rows, and for the tier the number of layers that
are away.  Bytes are rows times the size of a row; on the host
(`device.type = "cpu"`, chosen once by `onHost`) the monitor sees the cache
alone, on CUDA it also sees bytes that change as they like.  `HighMark` and
`LowMark` are the watermarks in bytes.  That a step is slow is a free choice
once a step was timed.  `LayerStorage.append` brings a layer home and
expands it, so the controller's `prefetch` rule never applies in this loop
(`FloatWhenObserved` says so).

### Forward passes, scores and allocation

`KVCache` lets a policy keep any admissible set; `ForwardPass` says which.  Its
layers are the metadata of the code: positions, last access, accumulated
attention and hits, one entry per slot.  A pass is one action per layer, because
a model may raise between two of them and because each layer's append is a call
that enforces when no block is open.  The attention of a pass is one-hot (each
query attends one key), which is enough to tell every signal of every token
apart; the mass of a query is `Unit`, divisible by every pass length, so that
the mean over the queries is an integer.  A query that sees no key at all
attends slot 0, where the softmax of the code would return NaN.  Scores are
fractions brought to a common denominator, so ties are exact ties.

`request.caller` tells who opens the outermost deferred block: the generation
loop or `needle_retrieval` (`decode`), `perplexity`, or the model itself
(`direct`).  Only that owner notes the attention, which the code decides by the
nesting depth.  The history variable `log` keeps what every pass attended, by
position; `SignalsFollowTokens` recomputes the signals from it.  `CacheProtocol`
is the refinement of `KVCache` with the policy `any`, which the run checks and
`PassesImplementTheCache` proves: the invariants proved of `KVCache` for every
caller hold for passes.

### Tier and prefetch plans

`TierPlans` runs over `LayerRecord`'s records, so a plan meets split, quantised,
preallocated and emptied layers.  Making a plan and each transfer are separate
actions; `plan.from` remembers the layers the plan was made for.  The runner
hands a plan to `KVCache.offload` and `prefetch` one layer at a time and nothing
else runs in between.  The bytes of a row are `FloatBytes` or `PayloadBytes`.

### The sweep

A quality figure is abstracted to what it was measured on: weights, prompt,
metric, chunk size, budget and policy.  Two figures may be compared if these
agree, so "the reference is the right one" is an equation; whether a figure is
finite is a free choice.  `Sweep` has one action per stage of a run, because any
of them may raise, and the memo is a set of pairs that all runs share.  The
budget a generation ends with (`genCap`) is the run's budget divided by an
allocation, after which the monitor leaves it alone, or else a free choice among
those the monitor may arrive at.  `capacity` is the variable of `run_spec` that
all its repetitions begin with, kept apart from `genCap`: that no repetition
writes to it is what `RepetitionsStandAlone` is about, beside seed and weights.
The problems of an outcome are those `validate_record` finds in its repetitions
and in the aggregate, as far as figures and references decide them.

### The result writers

`write_results` is the one place where actors run concurrently: processes that
end in the same second and write into one directory.  `file[b][k]` is the author
of artifact *k* of the basename with counter *b*, `Earlier` for files that were
there before.  The existence check is one step per artifact, because it is four
system calls; an exclusive open, a write and an unlink are a step each.  The
code keeps a list `created` of the paths to remove; that list is always an
initial segment of the four artifacts, except that `records_to_csv` removes a
CSV it failed to write before its caller removes the JSONL file, so `remove` is
`UpTo(k)` or `<<CSV, JSONL>>`.  Any step may raise and any process may be killed
between two steps.  Leftovers are what kills and failed cleanups of earlier
processes can have left.  Exceptions of signals between two statements and
unlinks that fail are left out.  `MaxCounter` stands for 10 000.

## Runs

Every pass run is checked by TLC to the end; the bounds are in the `.cfg` files.

| Run | Question | Bounds and why they are enough |
|---|---|---|
| `LayerBasic` | Does the layer keep rows, metadata, tiers, byte accounts and checkpoints in step under the calls policies and facade make, and does it implement the token log? | 3 tokens, 3 positions, two tiers, capacities None and 3, first allocation 2: a buffer shorter than, equal to and longer than its tokens, growth by doubling, splits with one and two tokens on either side and every re-split occur |
| `KVBudget` | Budget, feasibility of enforcement, representations and counters, with calls over two layers that fail at the second | 2 layers (the smallest number with a "before" and an "at"), budgets None, 2 and (1, 2), sinks 0 and 2, 3 positions, nesting 1: a layer can be over by one and by two, sinks equal to the budget, and one larger than a proposed budget |
| `KVWindow` | Sinks, the window's shape, accounting and the enforcement flag, with blocks that raise and checkpoints restored in place | 4 positions, sinks 0 to 2, nesting 2: sink, gap and window of length two at once |
| `KVRestore` | Positions across restores and other configurations | 1 layer, because no action relates positions of two layers |
| `Generation` | Budget, positions, the monitor's log and termination over any number of requests | prompts of 1, 3 and 6 tokens, 5 new tokens, interval 2, first allocation 8, other bytes 0, 8, 24 and 40 against a low watermark of 32: tightenings that evict, that leave slack rows, to the number of sinks, and to 0, which raises; the log is bounded because the budget only shrinks |
| `ResultWriter` | Do concurrent writers publish whole sets, clean up after themselves only, and all end? | 2 processes, counters 0 and 1, directories that are empty, that hold a whole set under the first basename, or its third file only: two processes reach the same basename at every distance from each other, collide at the first and at a later artifact, and run out of basenames |
| `ForwardPass` | Signals, visibility, scoring, allocation, and the refinement of `KVCache`, over passes that may raise in any layer | 2 layers, requests of 2 and 4 tokens in every chunking, budgets 2, (1, 2) and what the allocations make of them, six policies, two backends, one history (a request starts while nothing was evicted): prompts within and above the budget, evictions before and after each signal changed, the last chunk shorter than the others |
| `TierPlans` | Do plans announce what their transfers do, move no more than they must, and touch no token? | 2 layers of up to 2 tokens, budgets 0, 2, 5 and None, int8 rows half as wide as float rows, first allocation 2, two steps of the clock: every layout on either layer, ties and differences in recency and bytes, plans that are feasible, that are not, and that stop half-way |
| `Sweep` | Are references comparable, repetitions independent, aggregates complete, and is every run accounted for? | all pairs of nine run specifications that differ pairwise in each component of the memo's key, 1 or 2 repetitions, seeds that overlap between runs: a memo filled by another run, by an earlier repetition, or by neither |

Fairness is assumed in three places.  In `Generation` it is weak fairness of
`Step`, because a call of `generate()` runs on in its thread until it returns or
raises; nothing promises that a request is started.  In `Sweep` it is weak
fairness of `Step`, for the same reason; an interrupt is never owed.  In
`ResultWriter` it is weak fairness of each process's steps, because the
operating system runs every process that was not killed.  The other modules are
sets of synchronous calls, and nothing in the library promises that a caller
makes one.  Deadlock is checked in every pass run but `ResultWriter` and
`Sweep`, where all calls end and nothing is left to do.

Three modes restrict the callers of a layer, because some properties are about
callers of that kind or the runs would not end; the theorems below hold without
them, but for the two about the tiers of a layer, which need the last and say so.
`AnyOrder = FALSE` gives `keep` ascending slots, which is what every policy and
`_complement` produce; `AnyPosition = FALSE` appends at positions not used
before, which is what the models do (with `AnyPosition = TRUE` TLC checks
`LayerBasic` to the end for two tokens); `OffloadsEmpty = FALSE` leaves out
`offload(keep_resident = 0)` on an empty layer, which re-homes the layer (see
below).  In `KVCache` the constant `Calls` names the kinds of call a run
makes, for the same reason: a budget cannot hold after a restore that does not
enforce it, which is a finding of its own.

### Disagreements between the code and what is written about it

Each is a run that TLC ends with a counterexample.

| Run | Says | Does |
|---|---|---|
| `LayerClaimCheckpoint` | a split survives a checkpoint round trip | after a partial prefetch in a bounded cache `load` refuses the checkpoint |
| `KVClaimCapacity` | capacity is a maximum | `load_checkpoint` does not enforce it |
| `SweepClaimBudget` | a run evaluates quality "through a cache configured identically to the generation cache" | the quality cache gets the initial budget although the monitor tightened the one the record states |

More were met while modelling.  They are in the models as the code has them,
without a run of their own.

* Storage: `offload_tail(num_tokens)` on a wholly offloaded layer moves it home
  although its docstring calls it a no-op; a partial prefetch of a bounded layer
  allocates capacity rows for the prefix, so total bytes are not invariant; the
  metadata of an offloaded layer that is emptied stays on the host tier; an empty
  layer offloaded with `keep_resident = 0` takes the host tier for its home, so
  that its later rows on the compute device count as offloaded, against the
  docstring of `device_bytes` (with `OffloadsEmpty = TRUE`, TLC violates
  `BytesArePhysical`); a split layer mapped to another device by `load` cannot be
  gathered (`LayerStorage!SplitIsReadable`, violated with `MapTargets` of both
  devices).
* Facade: a checkpoint brings its own number of sinks, so a cache opened with
  more of them evicts leading tokens (`KVCache!LeadingTokensNeverEvicted`,
  violated with the call `reopen`).
* Policies: `FullCachePolicy` in a bounded cache evicts the newest tokens;
  `AdaptivePolicy` is only asked above the budget, where memory pressure is 1, so
  that its interpolation never has an effect, against `adaptive.py:48-50`; every
  layer sees the same appends, so before any attention is noted all layers have
  the same recency and the order `lru` of `plan_offload` is the order of layers.
* Monitor: the event is recorded before the policy is looked for, so a cache
  without a policy records adaptations that were never made
  (`GenerationLoop!EventsAreEnforced`, violated with `HasPolicy = FALSE`).
* Backends: the mask Hugging Face builds counts slots from 0, so that a pass of
  several tokens after an eviction can attend later keys (`CausalAttention`
  excepts it), and is built from the first layer's sizes, so that it does not fit
  unequal budgets, nor layers left unequal by the budgets an allocation replaced
  (`MaskFits` excepts both).  `generate` and the default
  chunk size of one avoid the first, larger chunks do not.  A direct caller never advances the
  step counter, and one that retries a failed pass appends its tokens twice.
* Runner: the prefetch after an offload plan gets no resident budget and can
  bring the device over the tier budget again while the record still calls the
  offload plan feasible (`runner.py:301`); an interrupt, or a `write_results`
  that raises, discards outcomes and the list of failures; the capacity, the
  adaptation events and the tokens per layer of an aggregate are those of the
  first repetition; the check in `run_spec` of `full_cache` against a byte budget
  is made earlier by `RunSpec` and cannot be reached.

## Theorems

All proofs are checked by TLAPS from the assumptions named in the modules; none
of them bounds the number of tokens, layers, devices or calls.

**The layer.**  `Consistent` is the inductive invariant: `LayerOK` says, per
representation, how the buffer and the hosted tail relate to the positions
(equal; equal up to slack; prefix up to the boundary and tail behind it), and
`CheckpointOK` says the same of what was saved.  What readers get alone is not
inductive: a later collapse or materialise exposes rows that are hidden now, so
the invariant must speak of the buffer and not only of the view.
`LayerRecord_proofs` shows for each method that it preserves `LayerOK` and what
the new view is; `AlwaysConsistent` combines them, one step per action.  From
the invariant follow `AlwaysTypeOK`, `ReadersAlwaysGetTheirTokens`,
`SplitsAreAlwaysProper` and the refinement `LayerImplementsTokenLog`: appends,
keeps, clears, saves and restores map to the log's steps, tier moves,
compression, capacity changes and calls that raise half-way to stuttering.

`BytesAreAlwaysPhysical` and `RoundTripsAlwaysKeepTiers` need an invariant about
tiers (`TiersRight`): the flag `_offloaded`, from which the code computes its
byte accounts, is true exactly if the rows are away from home, a hosted tail is
away from a prefix at home, and what was saved says so too.  They assume that
`load` maps a layer to its home or nowhere (`MapTargets`) and that no empty layer
is offloaded (`~OffloadsEmpty`): in the two cases left out the code lets the flag
and the rows differ, as listed above.

**The facade.**  `DeferAlwaysRestores` needs no assumption: the stack of saved
flags is its own inductive invariant.  `LayersStayWithinBudget` and
`EnforcementIsAlwaysPossible` are proved together for callers whose deferred
blocks return and who load nothing, with an invariant that adds that every
layer protects as many tokens as the configuration says and that a valid
configuration leaves room for them; without it `select` could refuse and leave
a layer over its budget.  `SinksAreNeverEvicted` holds for callers that evict
through the policy and append consecutive positions, restores in place
included; its invariant also speaks of the checkpoint.

`CacheInv` joins the types of a layer, the rules that tie tier, representation
and tokens of one layer together, and the same of the checkpoint, through every
partly executed loop over layers.  It holds for every caller and gives
`CacheTypes`, `LayersKeepOneTier` and `PositionsAreNotReused`.  The two theorems
about the eviction counter compare it with what was handed out and is still
there, summed over the layers: `EvictionsAreNeverOvercounted` bounds it
(`CoverInv`, for callers that do not `clear`, which keeps the counter and
starts the positions over), `TokensAreAccountedFor` gives it exactly
(`ExactInv`, for callers that also skip no positions, leave evictions to the
policy and do not reopen a checkpoint in another cache).  `SlidingWindowShape`
needs that an enforcement of the policy keeps the newest non-sinks, so that two
enforcements in a row leave one gap only (`WindowInv`); evicting by hand,
skipping positions and reopening under other sinks break the shape, so it is
about callers that do none of these.

**The loop.**  `Typed` adds to the types that a decode step follows a token,
without which `Position` could be negative.  `PositionInv` says where the last
token sits at each place of the loop, `FloatInv` extends `FloatWhenObserved` to
the places between, and the other invariants are inductive with the types.
`TighteningAlwaysFits` rests on `FloatInv`: the evicted buffer has exactly as
many rows as the new budget only if it is float, and the conversion of bytes
into tokens counts float rows.

**The result writers.**  The invariant is one of ownership: a process that was
not killed is the author of exactly the files its place in the call says
(`Holds`): those before the artifact it is opening, those up to the one it is
writing, those its cleanup has yet to remove, all four when it returned.  None
of the properties is inductive without it, since an unlink goes by path: only
ownership says whose file it is.  `FileSteps` concludes that a file changes
hands by being created where none was or by being removed by its author, and
`OthersKeep` that no process disturbs another's part of the invariant.  From it
follow `AlwaysComplete`, `NeverLeavesFiles`, `AuthorsAlwaysRemove` and the
refinement `WritersPublishSets`, for any number of processes, any limit of the
counter and any leftovers.

**Tier plans.**  The invariant says that every layer is a consistent record,
and that it remembers one access, not later than now, for each of its tokens
(`LayersStayConsistent`); it rests on the lemmas about `LayerRecord`, one per
operator.  `TransfersAlwaysKeepTokens` follows: whole-layer moves and the return
of a split tail leave the view of a consistent record alone.

The three theorems about plans add where the layers a plan has and has not
reached yet are (`PlanInv`: `PlacesOK`, `Shedding`, `Fetching`): those already
transferred are where the plan sends them, the others as they were when it was
made, and the bytes still resident are those of `plan.from` less what the
transferred prefix moved.  The order in which candidates are taken is given by
their rank, which is shown to be a bijection, and "no more than it must" compares
the plan with its prefixes.

**Forward passes.**  The invariant says where a pass stands in each layer:
every layer is about to take the next token the model is fed, slot s holds a
position between s - 1 and the next one (`Placed`), and enforcement is off while
any block is open (`Blocks`).  `Placed` survives evictions because they keep the
slots' order, which rests on the lemmas about `Ascending`, proved by counting.
It gives `QueriesAlwaysCausal`: the key of a query is in the layer, and even the
mask that counts slots admits it.  That the layers hold equally many tokens under
one budget (`Even`), whatever each policy chose to drop, gives `MaskAlwaysFits`.
`TokensAlwaysScoredOnce` is an induction over the chunks.

Of the signals, `SignalsInv` says that each slot of a layer carries what the log
attributes to its position up to the last pass that was noted, and that the
attention of the pass under way is that of the tokens it was computed on.  A
slot moves when tokens before it are evicted, so the invariant is by position
and its proof by `Placed`; `SignalsAlwaysFollowTokens` is its first half.
`TypesInv` (`TypesAreAlwaysOK`) includes that a budget, once there is one, is
at least one and at least the number of sinks, which an allocation has to
respect: `AllocationAlwaysKeepsTotal` follows from the shape of the largest
remainder method, floors that fall short by fewer than there are layers, and a
rank that hands each missing token to another layer.

`DominatedAlwaysGoFirst` is about the scores themselves.  Min-max normalisation
and ranking keep the order of a signal, and each policy's blend grows strictly with
every signal it takes, so a slot that is worse by one signal and better by none
has a lower score; enforcement keeps the best scores; and the
signals it reads are those of the tokens by `SignalsInv`.  The adaptive policy
is asked above the budget only, where the pressure is 1.

`PassesImplementTheCache` maps slots to sets of positions.  The steps that are
not stuttering are an append with or without enforcement, the opening, closing
and unwinding of blocks, a reset and a `set_capacity`; each is a lemma
(`AttendSeen`, `CloseSeen`, ...) that the code changes contents, counters and flags
as `KVCache` lets it, from the three invariants above.  It assumes that no
allocation leads out of the set of budgets (`CapacitiesClosed`), because
`KVCache` takes its budgets from the same set; `BudgetsClosed` in
`MCForwardPass` checks that for the instance of the run.

**The sweep.**  `ReferencesAlwaysComparable` needs an invariant over the memo:
every entry was measured without a budget on exactly what its key names.  The
key does not name the weights themselves but their configuration and the seed,
so the proof also needs that the weights in scope are those of the specification
and seed being run, which is part of the invariant of
`RepetitionsAlwaysStandAlone` and fails where a model is reused across seeds.
That theorem also says that a quality was measured under the budget its run was
given: `capacity` is still that budget at every stage of every repetition, and
an allocation divides it and changes nothing else (`Budget`).  `EveryRunAlwaysAccounted` counts:
outcomes and failures together are the runs before the current one.
`AggregatesAreAlwaysHonest` says that an aggregate is made of the repetitions
of its own run, all of them, and that what an average leaves out is reported:
its invariant (`HonestInv`) adds that a figure is recorded with a reference only,
which a memo without failed measurements provides, and how many records a run
has at each stage.

Some theorems state invariants that no run lists any more, because a stronger
property of the same run implies them or the proof covers them better than a
bounded check: `SplitsAreAlwaysProper`, `AlwaysWithinCap`,
`AlwaysFloatWhenObserved`, `AuthorsAlwaysRemove` and the types of each module.

What is only model-checked: the liveness properties `Terminates`,
`EveryCallEnds` and `SweepEnds`, which need fairness and ENABLED, both out of the
prover's reach.  The other properties of the pass runs are theorems.  So are
induction schemes that take an operator as a parameter and RECURSIVE operators
out of its reach: no module with a theorem uses the latter, and where a proof
needs induction, over intervals, chunks or the subsets of a finite set of
layers, the set of cases it holds for is shown to be all of them.

## Not modelled

* `LayerStorage.replace`, which nothing calls, and quantisation arithmetic: a
  compressor is taken to quantise every slot it is given.
* Shape and dtype validation: arguments are well formed but for the cases named
  in the actions that raise.
* The files themselves: a checkpoint is written and read whole.
* Policies constructed with other options than their defaults, rounding of scores
  to float32, and attention that is spread over several keys.
* `KVCache.note_access`, which nothing calls, and the totals of compressions,
  offloads and prefetches.
* Arithmetic of the transformer, sampling, latency and memory figures, reports,
  the loading of models, the mirror of a Hugging Face cache and its `crop`.
* The command line and the reading of configuration files: pure parsing, no state
  that outlives a call.
* Names of devices: equal names are equal devices (see the layer above).

## Plan

Done, in this order: `LayerRecord`, `LayerStorage` and `TokenLog`; `KVCache`;
`GenerationLoop`; `ResultWriter`; `PolicyScores`, `BudgetAllocation` and
`ForwardPass`; `TierPlans`; `Sweep`; each with its proofs.

What is left:

1. The native mirror of the Hugging Face backend and its `crop`.
2. Attention over several keys, and the options of the policies.
3. A proof that several `LayerStorage`s implement `KVCache`'s layers, which are
   related so far by `ReadersAlwaysGetTheirTokens` and the token log.
