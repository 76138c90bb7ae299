------------------------------- MODULE Sweep -------------------------------
(***************************************************************************)
(* A benchmark experiment (bench/runner.py run_config, run_spec and        *)
(* _run_single_spec): its runs one after the other, each of them one or    *)
(* several seeded repetitions that build a model, warm up, generate,       *)
(* compress and move tiers, measure quality through a second cache, look   *)
(* up or compute the full-cache reference, and make a record.  What is     *)
(* shared between runs is the memo of references; what is carried within a *)
(* run is the built model and the budget, which generation may change.     *)
(* Every step may raise.                                                   *)
(*                                                                         *)
(* A measured quality is abstracted to what it was measured on: the        *)
(* weights, the seed of the prompt, the metric and the budget; two figures *)
(* may be compared when these agree.  Whether it is a finite number is     *)
(* left open.                                                              *)
(***************************************************************************)
EXTENDS Integers, Sequences, FiniteSets, SequencesExt

CONSTANTS
  Sweeps,       \* experiments: non-empty sequences of run specifications
  Pretrained,   \* models of the Hugging Face backend: weights without a seed
  Tightened     \* budgets the pressure monitor may arrive at

\* A capacity: one budget for all layers or, after an allocation, a list of
\* the same average; a budget of 0 tokens stands for None.
OneFor(tokens) == [tokens |-> tokens, perLayer |-> FALSE]
Unbounded == OneFor(0)

\* RunSpec.__post_init__: a run has at least one repetition, one budget for
\* all layers, an evicting policy has a budget, in tokens or in bytes, and the
\* full cache has none.
Accepted(s) ==
  /\ s.cap = OneFor(s.cap.tokens)
  /\ s.repetitions \in Nat \ {0}
  /\ (s.policy = "full_cache") = (s.cap = Unbounded /\ ~s.fromBytes)
  /\ s.cap # Unbounded /\ ~s.fromBytes => s.sinks <= s.cap.tokens

ASSUME SweepsAssumption ==
  \A s \in Sweeps :
    /\ Len(s) \in Nat \ {0} /\ DOMAIN s = 1 .. Len(s)
    /\ \A i \in DOMAIN s : Accepted(s[i])

\* quality_value, quality_reference = None
NotMeasured == <<>>

VARIABLES
  runs,       \* config.runs
  index,      \* the run being executed
  pc,         \* where run_config is
  rep,        \* the repetition being executed
  capacity,   \* run_spec's capacity: the budget its repetitions begin with
  built,      \* _BuiltModel: the weights it holds
  genCap,     \* gen_cache.capacity
  value,      \* quality.value
  memo,       \* reference_memo: a set of pairs of key and quality
  records,    \* the records of the run's repetitions so far
  outcomes,   \* the outcomes of the runs that succeeded
  failures,   \* the indices of those that did not
  files       \* what write_results has written

vars == <<runs, index, pc, rep, capacity, built, genCap, value, memo, records, outcomes,
          failures, files>>

spec == runs[index]

\* with_overrides(seed = spec.seed + i) of repetition i, counted from 1.
Seed == spec.seed + rep - 1

-----------------------------------------------------------------------------
(***************************************************************************)
(* What a figure is measured on.                                           *)
(***************************************************************************)

\* Synthetic weights are drawn from the seed.
Weights(s, seed) ==
  [model |-> s.model, config |-> s.config,
   seed |-> IF s.model \in Pretrained THEN 0 ELSE seed]

\* perplexity() reads the chunk size, needle_retrieval() does not; in an
\* unbounded cache no policy decides.
Measure(s, weights, seed, cap) ==
  [weights |-> weights, prompt |-> seed, metric |-> s.metric,
   chunk |-> IF s.metric = "perplexity" THEN s.chunk ELSE 0,
   cap |-> cap, policy |-> IF cap = Unbounded THEN "none" ELSE s.policy]

\* Mutant of MemoKey: the seed is forgotten.
MemoKeyWithoutSeed(s, weights, seed) ==
  <<s.model, weights.config, s.chunk, s.metric>>

\* The components of the memo's key that differ between runs; the prompt's
\* shape, the device, the precision and the needle are the same throughout.
MemoKey(s, weights, seed) ==
  <<s.model, weights.config, seed, s.chunk, s.metric>>

\* run_spec's own checks of a byte budget and of half precision on the CPU.
Refused(s) ==
  \/ s.fromBytes /\ (s.cap.tokens < 1 \/ s.sinks > s.cap.tokens \/ s.policy = "full_cache")
  \/ s.halfOnCpu

-----------------------------------------------------------------------------
(***************************************************************************)
(* One run.                                                                *)
(***************************************************************************)

Init ==
  /\ runs \in Sweeps
  /\ index = 1
  /\ pc = "build"
  /\ rep = 1
  /\ capacity = Unbounded
  /\ built = <<>>
  /\ genCap = Unbounded
  /\ value = NotMeasured
  /\ memo = {}
  /\ records = <<>>
  /\ outcomes = <<>>
  /\ failures = <<>>
  /\ files = <<>>

\* The variables of the sweep that a step of a run leaves alone.
InRun == UNCHANGED <<runs, index, outcomes, failures, files>>

\* Mutant of Build: the model of the first repetition serves them all.
BuildOnce ==
  /\ pc = "build"
  /\ rep > 1 \/ ~Refused(spec)
  /\ built' = IF rep > 1 THEN built ELSE Weights(spec, Seed)
  /\ pc' = IF rep > 1 THEN "generate" ELSE "warm"
  /\ capacity' = IF rep = 1 THEN spec.cap ELSE capacity
  /\ UNCHANGED <<rep, genCap, value, memo, records>> /\ InRun

\* build_model_for_spec, the budget and the checks before the warm-up; of the
\* later repetitions, only one of a synthetic model builds and warms up again.
Build ==
  /\ pc = "build"
  /\ rep > 1 \/ ~Refused(spec)
  /\ built' = IF rep > 1 /\ spec.model \in Pretrained THEN built
              ELSE Weights(spec, Seed)
  /\ pc' = IF rep > 1 /\ spec.model \in Pretrained THEN "generate" ELSE "warm"
  /\ capacity' = IF rep = 1 THEN spec.cap ELSE capacity
  /\ UNCHANGED <<rep, genCap, value, memo, records>> /\ InRun

\* _warmup leaves only empty caches of its own behind.
WarmUp ==
  /\ pc = "warm"
  /\ pc' = "generate"
  /\ UNCHANGED <<rep, capacity, built, genCap, value, memo, records>> /\ InRun

\* The budgets a generation may leave its cache with: an allocation divides
\* it among the layers, after which the monitor, which skips per-layer
\* budgets, leaves it alone; otherwise the monitor may tighten it.  Neither
\* touches a cache without a budget.
FinalCaps ==
  IF capacity = Unbounded THEN {capacity}
  ELSE IF spec.allocated THEN {[capacity EXCEPT !.perLayer = TRUE]}
  ELSE {capacity} \cup {OneFor(n) : n \in {n \in Tightened :
                                             spec.adaptive /\ n < capacity.tokens}}

Generate ==
  /\ pc = "generate"
  /\ genCap' \in FinalCaps
  /\ pc' = "finish"
  /\ UNCHANGED <<rep, capacity, built, value, memo, records>> /\ InRun

\* compress() and _apply_tier_actions, of the generation's cache.
Finish ==
  /\ pc = "finish"
  /\ pc' = IF spec.measured THEN "quality" ELSE "record"
  /\ value' = NotMeasured
  /\ UNCHANGED <<rep, capacity, built, genCap, memo, records>> /\ InRun

\* A second cache: an allocated budget is taken over, any other is the one
\* the run began with.
QualityCap == IF spec.allocated THEN genCap ELSE capacity

MeasureQuality ==
  /\ pc = "quality"
  /\ \E finite \in BOOLEAN :
       value' = [of |-> Measure(spec, built, Seed, QualityCap), finite |-> finite]
  /\ pc' = IF spec.policy = "full_cache" THEN "record" ELSE "reference"
  /\ UNCHANGED <<rep, capacity, built, genCap, memo, records>> /\ InRun

Record(reference) ==
  [seed |-> Seed, weights |-> built, capacity |-> genCap, value |-> value,
   reference |-> reference]

\* Mutant of AddRecord: the next repetition begins with the budget this one
\* ended with.
AddRecordCarries(reference) ==
  /\ records' = Append(records, Record(reference))
  /\ rep' = IF rep < spec.repetitions THEN rep + 1 ELSE rep
  /\ pc' = IF rep < spec.repetitions THEN "build" ELSE "outcome"
  /\ capacity' = genCap
  /\ UNCHANGED <<built, genCap, value>> /\ InRun

AddRecord(reference) ==
  /\ records' = Append(records, Record(reference))
  /\ rep' = IF rep < spec.repetitions THEN rep + 1 ELSE rep
  /\ pc' = IF rep < spec.repetitions THEN "build" ELSE "outcome"
  /\ UNCHANGED <<built, genCap, value, capacity>> /\ InRun

\* _quality_reference: a memoised figure, or a measurement without a budget,
\* which is kept when it is finite.
Remembered == {m \in memo : m[1] = MemoKey(spec, built, Seed)}

RecallReference ==
  /\ pc = "reference"
  /\ \E m \in Remembered : AddRecord(m[2])
  /\ UNCHANGED memo

ComputeReference ==
  /\ pc = "reference"
  /\ Remembered = {}
  /\ \E finite \in BOOLEAN :
       LET r == [of |-> Measure(spec, built, Seed, Unbounded), finite |-> finite]
       IN /\ AddRecord(r)
          /\ memo' = IF finite THEN memo \cup {<<MemoKey(spec, built, Seed), r>>}
                     ELSE memo

\* A full cache is its own reference.
RecordWithoutReference ==
  /\ pc = "record"
  /\ AddRecord(value)
  /\ UNCHANGED memo

-----------------------------------------------------------------------------
(***************************************************************************)
(* A run's outcome, and the experiment.                                    *)
(***************************************************************************)

IsFinite(q) == q # NotMeasured /\ q.finite

\* Mutant of Figures: a repetition without a figure is counted.
FiguresAll(rs) == [i \in DOMAIN rs |-> rs[i].value]

\* The entries of s at the places in I, in order.
Selected(s, I) ==
  LET upTo[n \in 0 .. Len(s)] ==
        IF n = 0 THEN <<>>
        ELSE IF n \in I THEN Append(upTo[n - 1], s[n]) ELSE upTo[n - 1]
  IN upTo[Len(s)]

\* The repetitions that have a figure, and those that also have a reference.
Measured(rs) == {i \in DOMAIN rs : IsFinite(rs[i].value)}
Paired(rs) == {i \in Measured(rs) : IsFinite(rs[i].reference)}

\* The figures an aggregate is made of, and the paired ones of its delta.
Figures(rs) == Selected([i \in 1 .. Len(rs) |-> rs[i].value], Measured(rs))
Deltas(rs) ==
  Selected([i \in 1 .. Len(rs) |-> [value |-> rs[i].value, reference |-> rs[i].reference]],
           Paired(rs))

\* validate_record of the aggregate: a list of figures, of references or of
\* differences that has entries, but fewer than there are repetitions.
Incomplete(rs) ==
  \E I \in {Measured(rs), {i \in DOMAIN rs : IsFinite(rs[i].reference)}, Paired(rs)} :
    I # {} /\ I # DOMAIN rs

\* validate_record of every repetition, a figure that is no number and a
\* performance figure without a quality, and, as entry 0, of the aggregate.
Problems(rs) ==
  {i \in DOMAIN rs : ~IsFinite(rs[i].value)
     \/ (rs[i].reference # NotMeasured /\ ~rs[i].reference.finite)}
  \cup {i \in {0} : Incomplete(rs)}

Outcome ==
  [index |-> index, records |-> records, figures |-> Figures(records),
   deltas |-> Deltas(records), problems |-> Problems(records)]

\* The next run starts afresh; after the last one the results are written.
NextRun ==
  /\ index' = index + 1
  /\ pc' = IF index < Len(runs) THEN "build" ELSE "write"
  /\ rep' = 1
  /\ records' = <<>>
  /\ capacity' = Unbounded
  /\ built' = <<>>
  /\ genCap' = Unbounded
  /\ value' = NotMeasured

RunSucceeds ==
  /\ pc = "outcome"
  /\ outcomes' = Append(outcomes, Outcome)
  /\ NextRun
  /\ UNCHANGED <<runs, memo, failures, files>>

Running == pc \notin {"write", "report", "returned", "raised", "interrupted"}

\* Mutant of RunFails: a failed run is tried again.
RunFailsAndRetries ==
  /\ Running
  /\ pc' = "build" /\ rep' = 1 /\ records' = <<>>
  /\ UNCHANGED <<runs, index, capacity, built, genCap, value, memo, outcomes,
                 failures, files>>

\* An Exception anywhere in run_spec, the aggregation included.
RunFails ==
  /\ Running
  /\ failures' = Append(failures, index)
  /\ NextRun
  /\ UNCHANGED <<runs, memo, outcomes, files>>

\* A KeyboardInterrupt is no Exception: the sweep ends where it is.
Interrupt ==
  /\ Running \/ pc = "write"
  /\ pc' = "interrupted"
  /\ UNCHANGED <<runs, index, rep, capacity, built, genCap, value, memo, records,
                 outcomes, failures, files>>

\* Mutant of Write: nothing is written once a run has failed.
WriteUnlessFailed ==
  /\ pc = "write"
  /\ files' = IF failures = <<>> THEN outcomes ELSE <<>>
  /\ pc' = "report"
  /\ UNCHANGED <<runs, index, rep, capacity, built, genCap, value, memo, records,
                 outcomes, failures>>

\* write_results, when there is something to write.
Write ==
  /\ pc = "write"
  /\ files' = outcomes
  /\ pc' = "report"
  /\ UNCHANGED <<runs, index, rep, capacity, built, genCap, value, memo, records,
                 outcomes, failures>>

\* write_results raises, and has removed what it created.
WriteRaises ==
  /\ pc = "write"
  /\ outcomes # <<>>
  /\ pc' = "interrupted"
  /\ UNCHANGED <<runs, index, rep, capacity, built, genCap, value, memo, records,
                 outcomes, failures, files>>

\* The failed runs are listed in one error, or the outcomes are returned.
Report ==
  /\ pc = "report"
  /\ pc' = IF failures # <<>> THEN "raised" ELSE "returned"
  /\ UNCHANGED <<runs, index, rep, capacity, built, genCap, value, memo, records,
                 outcomes, failures, files>>

Step ==
  \/ Build \/ WarmUp \/ Generate \/ Finish \/ MeasureQuality
  \/ RecallReference \/ ComputeReference \/ RecordWithoutReference
  \/ RunSucceeds \/ RunFails \/ Write \/ WriteRaises \/ Report

Next == Step \/ Interrupt

Spec == Init /\ [][Next]_vars /\ WF_vars(Step)

-----------------------------------------------------------------------------
(***************************************************************************)
(* Properties.                                                             *)
(***************************************************************************)

\* The records of the runs that succeeded and of the one being executed.
Taken ==
  [i \in 1 .. Len(outcomes) + 1 |->
     IF i <= Len(outcomes)
     THEN [spec |-> runs[outcomes[i].index], records |-> outcomes[i].records]
     ELSE [spec |-> IF index <= Len(runs) THEN spec ELSE runs[1],
           records |-> records]]

\* "always computed against a same-workload baseline": whatever runs came
\* before and filled the memo, a reference was measured without a budget on
\* the same weights, prompt, metric and chunks as the figure beside it.
ReferencesAreComparable ==
  \A i \in DOMAIN Taken : \A j \in DOMAIN Taken[i].records :
    LET r == Taken[i].records[j] IN
    r.reference # NotMeasured =>
      /\ r.reference.of.cap = Unbounded
      /\ \A field \in {"weights", "prompt", "metric", "chunk"} :
           r.reference.of[field] = r.value.of[field]

\* What a run of s measures its quality under: the budget it was given,
\* divided among the layers if it asks for an allocation, and whatever the
\* monitor does meanwhile.
Budget(s) == [s.cap EXCEPT !.perLayer = s.allocated /\ s.cap # Unbounded]

\* "each repetition must match a standalone run": repetition j has the seed
\* and the weights a run of its own would have, and its quality is measured
\* on these and under the budget such a run would begin with, though the
\* repetitions before it may have ended with a tighter one.
RepetitionsStandAlone ==
  \A i \in DOMAIN Taken : \A j \in DOMAIN Taken[i].records :
    LET r == Taken[i].records[j]
        s == Taken[i].spec
    IN /\ r.seed = s.seed + j - 1
       /\ r.weights = Weights(s, r.seed)
       /\ r.value # NotMeasured =>
            /\ r.value.of.weights = Weights(s, r.seed)
            /\ r.value.of.prompt = r.seed
            /\ r.value.of.cap = Budget(s)

\* An outcome describes all repetitions of its run: what an average leaves
\* out is reported as a problem, and a difference of qualities pairs figures
\* of one seed.
AggregatesAreHonest ==
  \A i \in DOMAIN outcomes :
    LET o == outcomes[i] IN
    /\ Len(o.records) = runs[o.index].repetitions
    /\ Len(o.figures) + Cardinality({j \in DOMAIN o.records : o.records[j].value = NotMeasured
                                       \/ ~o.records[j].value.finite})
         = Len(o.records)
    /\ Len(o.figures) < Len(o.records) => o.problems # {}
    /\ \A j \in DOMAIN o.deltas : o.deltas[j].value.of.prompt = o.deltas[j].reference.of.prompt
    /\ o.problems = {} => Len(o.deltas) = Len(o.records)

\* A single failed run does not discard the rest: a sweep that ends in its
\* own way has each run among the outcomes or among the failures, in order,
\* raises exactly when one failed, and by then has written all outcomes.
EveryRunIsAccounted ==
  pc \in {"returned", "raised"} =>
    /\ {outcomes[i].index : i \in DOMAIN outcomes} \cup ToSet(failures) = DOMAIN runs
    /\ Len(outcomes) + Len(failures) = Len(runs)
    /\ \A i, j \in DOMAIN outcomes : i < j => outcomes[i].index < outcomes[j].index
    /\ pc = "raised" <=> failures # <<>>
    /\ files = outcomes

\* Every experiment comes to an end, by its results, its error or an
\* interrupt.
SweepEnds == <>(pc \in {"returned", "raised", "interrupted"})

-----------------------------------------------------------------------------
(***************************************************************************)
(* What the documentation says and the code does not do.                   *)
(***************************************************************************)

\* "each run also evaluates perplexity through a cache configured identically
\* to the generation cache": the quality of a record was measured under the
\* budget the record states.
QualityUnderRecordedBudget ==
  \A j \in DOMAIN records :
    records[j].value # NotMeasured => records[j].value.of.cap = records[j].capacity
=============================================================================
