---------------------------- MODULE Sweep_proofs ----------------------------
(***************************************************************************)
(* The bookkeeping of an experiment, for every list of runs: what the memo *)
(* of references returns, what a repetition is measured on, what an        *)
(* aggregate is made of, and where each run ends up.                       *)
(***************************************************************************)
EXTENDS Sweep, FiniteSetTheorems, SequenceTheorems, WellFoundedInduction, TLAPS

-----------------------------------------------------------------------------
(***************************************************************************)
(* Sequences of anything.                                                  *)
(***************************************************************************)

IsSeq(s) == s \in Seq({s[j] : j \in DOMAIN s})

LEMMA EmptyIsSeq == IsSeq(<<>>) /\ Len(<<>>) = 0 /\ DOMAIN <<>> = {}
BY DEF IsSeq

LEMMA IsSeqLen ==
  ASSUME NEW s, IsSeq(s)
  PROVE  Len(s) \in Nat /\ DOMAIN s = 1 .. Len(s)
BY DEF IsSeq

LEMMA Appended ==
  ASSUME NEW s, IsSeq(s), NEW e
  PROVE  /\ IsSeq(Append(s, e))
         /\ Len(Append(s, e)) = Len(s) + 1
         /\ \A j \in 1 .. Len(s) : Append(s, e)[j] = s[j]
         /\ Append(s, e)[Len(s) + 1] = e
         /\ Append(s, e) # <<>>
<1> DEFINE S == {s[j] : j \in DOMAIN s} \cup {e}
           t == Append(s, e)
<1>1. s \in Seq({s[j] : j \in DOMAIN s})
  BY DEF IsSeq
<1>2. Len(s) \in Nat /\ DOMAIN s = 1 .. Len(s)
  BY IsSeqLen
<1>3. s \in [1 .. Len(s) -> S]
  BY <1>1, <1>2, LenProperties
<1>4. s \in Seq(S)
  BY <1>2, <1>3
<1>5. /\ t \in Seq(S) /\ Len(t) = Len(s) + 1
      /\ (\A j \in 1 .. Len(s) : t[j] = s[j]) /\ t[Len(s) + 1] = e
  <2> HIDE DEF S
  <2>1. e \in S
    BY DEF S
  <2> QED
    BY <1>2, <1>4, <2>1, AppendProperties
<1>6. DOMAIN t = 1 .. Len(s) + 1
  BY <1>5, LenProperties
<1>7. t \in [1 .. Len(s) + 1 -> {t[j] : j \in DOMAIN t}]
  <2>1. t \in [DOMAIN t -> S]
    BY <1>5, <1>6, LenProperties
  <2> HIDE DEF t, S
  <2> QED
    BY <1>6, <2>1
<1>8. IsSeq(t)
  <2> HIDE DEF t
  <2> QED BY <1>2, <1>7 DEF IsSeq
<1>9. t # <<>>
  <2> HIDE DEF t
  <2> QED BY <1>2, <1>5, EmptyIsSeq
<1> QED
  BY <1>5, <1>8, <1>9

-----------------------------------------------------------------------------
(***************************************************************************)
(* What a run may take from the memo.                                      *)
(***************************************************************************)

\* What a reference under a key was measured on.
KeyMeasure(k) ==
  [weights |-> [model |-> k[1], config |-> k[2],
                seed |-> IF k[1] \in Pretrained THEN 0 ELSE k[3]],
   prompt |-> k[3], metric |-> k[5],
   chunk |-> IF k[5] = "perplexity" THEN k[4] ELSE 0,
   cap |-> Unbounded, policy |-> "none"]

\* The key tells apart whatever a reference depends on.
LEMMA KeySuffices ==
  ASSUME NEW s, NEW seed
  PROVE  KeyMeasure(MemoKey(s, Weights(s, seed), seed))
           = Measure(s, Weights(s, seed), seed, Unbounded)
BY DEF KeyMeasure, MemoKey, Measure, Weights

\* Under another budget the same things are measured.
LEMMA MeasureUnbounded ==
  ASSUME NEW s, NEW w, NEW seed, NEW cap
  PROVE  LET a == Measure(s, w, seed, cap)
             b == Measure(s, w, seed, Unbounded)
         IN /\ b.cap = Unbounded
            /\ \A field \in {"weights", "prompt", "metric", "chunk"} : b[field] = a[field]
BY DEF Measure

\* Weights that are not drawn from the seed are those of any seed.
LEMMA PretrainedWeights ==
  ASSUME NEW s, s.model \in Pretrained, NEW seed1, NEW seed2
  PROVE  Weights(s, seed1) = Weights(s, seed2)
BY DEF Weights

-----------------------------------------------------------------------------
(***************************************************************************)
(* The inductive invariant.                                                *)
(***************************************************************************)

InARun == {"build", "warm", "generate", "finish", "quality", "reference",
           "record", "outcome"}
Closing == {"write", "report", "returned", "raised"}

Place ==
  /\ runs \in Sweeps
  /\ pc \in InARun \cup Closing \cup {"interrupted"}
  /\ index \in 1 .. Len(runs) + 1
  /\ pc \in InARun => index \in 1 .. Len(runs)
  /\ pc \in Closing => index = Len(runs) + 1

\* The value was measured for this repetition, under the budget of its run.
MeasuredFor(s, seed, q) == q.of = Measure(s, Weights(s, seed), seed, Budget(s))

RecordOK(s, j, r) ==
  /\ r.seed = s.seed + j - 1
  /\ r.weights = Weights(s, r.seed)
  /\ r.value # NotMeasured => MeasuredFor(s, r.seed, r.value)
  /\ r.reference # NotMeasured =>
       /\ MeasuredFor(s, r.seed, r.value)
       /\ r.reference.of = Measure(s, Weights(s, r.seed), r.seed, Unbounded)

RecordsOK(s, rs) == IsSeq(rs) /\ \A j \in 1 .. Len(rs) : RecordOK(s, j, rs[j])

ThisRun ==
  /\ rep \in Nat \ {0}
  /\ RecordsOK(spec, records)
  /\ pc \in InARun \ {"outcome"} => Len(records) = rep - 1
  /\ index = Len(runs) + 1 => records = <<>>
  /\ pc \in InARun \ {"build", "outcome"} => built = Weights(spec, Seed)
  /\ pc = "build" /\ rep > 1 /\ spec.model \in Pretrained =>
       built = Weights(spec, Seed)
  /\ pc \in InARun \ {"outcome"} /\ (rep > 1 \/ pc # "build") => capacity = spec.cap
  /\ pc \in {"finish", "quality"} /\ spec.allocated => genCap = Budget(spec)
  /\ pc = "reference" => MeasuredFor(spec, Seed, value)
  /\ pc = "record" =>
       \/ value = NotMeasured
       \/ /\ MeasuredFor(spec, Seed, value)
          /\ value.of = Measure(spec, Weights(spec, Seed), Seed, Unbounded)

MemoOK == \A m \in memo : m[2].of = KeyMeasure(m[1])

OutcomesOK ==
  /\ IsSeq(outcomes)
  /\ \A i \in 1 .. Len(outcomes) :
       /\ outcomes[i].index \in 1 .. index - 1
       /\ RecordsOK(runs[outcomes[i].index], outcomes[i].records)

Done == {outcomes[i].index : i \in DOMAIN outcomes} \cup ToSet(failures)

Accounts ==
  /\ IsSeq(failures)
  /\ Done = 1 .. index - 1
  /\ Len(outcomes) + Len(failures) = index - 1
  /\ \A i, j \in 1 .. Len(outcomes) : i < j => outcomes[i].index < outcomes[j].index
  /\ pc \in {"report", "returned", "raised"} => files = outcomes
  /\ pc = "raised" => failures # <<>>
  /\ pc = "returned" => failures = <<>>

IInv == Place /\ ThisRun /\ MemoOK /\ OutcomesOK /\ Accounts

\* The run being executed has been accepted.
LEMMA RunFacts ==
  ASSUME Place
  PROVE  /\ Len(runs) \in Nat \ {0} /\ DOMAIN runs = 1 .. Len(runs)
         /\ index \in Nat \ {0}
         /\ \A i \in 1 .. Len(runs) : Accepted(runs[i])
         /\ pc \in InARun => Accepted(spec)
<1>1. /\ Len(runs) \in Nat \ {0} /\ DOMAIN runs = 1 .. Len(runs)
      /\ \A i \in DOMAIN runs : Accepted(runs[i])
  BY SweepsAssumption DEF Place
<1> QED
  BY <1>1 DEF Place, spec

-----------------------------------------------------------------------------
(***************************************************************************)
(* Steps within a run.                                                     *)
(***************************************************************************)

Within ==
  \/ Build \/ WarmUp \/ Generate \/ Finish \/ MeasureQuality
  \/ RecallReference \/ ComputeReference \/ RecordWithoutReference

\* A step within a run stays in it.
LEMMA WithinStays ==
  ASSUME Place, Within
  PROVE  /\ Place'
         /\ pc \in InARun \ {"outcome"} /\ pc' \in InARun
         /\ UNCHANGED <<runs, index, outcomes, failures, files>>
         /\ spec' = spec
<1>1. UNCHANGED <<runs, index, outcomes, failures, files>>
  BY DEF Within, Build, WarmUp, Generate, Finish, MeasureQuality,
         RecallReference, ComputeReference, RecordWithoutReference, AddRecord, InRun
<1>2. pc \in InARun \ {"outcome"} /\ pc' \in InARun
  BY DEF Within, Build, WarmUp, Generate, Finish, MeasureQuality,
         RecallReference, ComputeReference, RecordWithoutReference, AddRecord, InARun
<1>3. pc' \notin Closing
  BY <1>2 DEF InARun, Closing
<1> QED
  BY <1>1, <1>2, <1>3 DEF Place, spec

\* A record that is fit for its place is added.
LEMMA AddRecordStep ==
  ASSUME Place, ThisRun, NEW reference, AddRecord(reference), pc \in {"reference", "record"},
         RecordOK(spec, rep, Record(reference)), built = Weights(spec, Seed)
  PROVE  ThisRun'
<1>0. pc \in InARun \ {"outcome"}
  BY DEF InARun
<1>1. RecordsOK(spec, records) /\ rep \in Nat \ {0} /\ Len(records) = rep - 1
  BY <1>0 DEF ThisRun
<1>2. /\ records' = Append(records, Record(reference))
      /\ rep' = (IF rep < spec.repetitions THEN rep + 1 ELSE rep)
      /\ pc' = (IF rep < spec.repetitions THEN "build" ELSE "outcome")
      /\ built' = built /\ runs' = runs /\ index' = index /\ capacity' = capacity
  BY DEF AddRecord, InRun
<1>3. spec' = spec
  BY <1>2 DEF spec
<1>4. /\ IsSeq(records') /\ Len(records') = rep
      /\ \A j \in 1 .. rep - 1 : records'[j] = records[j]
      /\ records'[rep] = Record(reference)
  <2>1. IsSeq(records)
    BY <1>1 DEF RecordsOK
  <2>2. Len(records) + 1 = rep
    BY <1>1
  <2> QED
    BY <1>1, <1>2, <2>1, <2>2, Appended
<1>5. RecordsOK(spec', records')
  <2>1. \A j \in 1 .. rep - 1 : RecordOK(spec, j, records'[j])
    BY <1>1, <1>4 DEF RecordsOK
  <2>2. \A j \in 1 .. rep : RecordOK(spec, j, records'[j])
    BY <1>1, <1>4, <2>1
  <2> QED
    BY <1>3, <1>4, <2>2 DEF RecordsOK
<1>6. spec.repetitions \in Nat \ {0}
  BY <1>0, RunFacts DEF Accepted
<1>7. rep' \in Nat \ {0} /\ pc' \in {"build", "outcome"}
      /\ (pc' = "build" => Len(records') = rep' - 1)
  BY <1>1, <1>2, <1>4, <1>6
<1>8. pc' = "build" /\ rep' > 1 /\ spec'.model \in Pretrained => built' = Weights(spec, Seed')
  BY <1>2, <1>3, PretrainedWeights
<1>9. index' # Len(runs') + 1
  BY <1>0, <1>2, RunFacts DEF Place
<1>10. pc' = "build" => capacity' = spec'.cap
  <2>1. capacity = spec.cap
    BY DEF ThisRun, InARun
  <2> QED
    BY <1>2, <1>3, <2>1
<1> QED
  BY <1>3, <1>5, <1>7, <1>8, <1>9, <1>10 DEF ThisRun, InARun

LEMMA BuildStep ==
  ASSUME Place, ThisRun, Build \/ WarmUp
  PROVE  ThisRun'
<1>1. /\ UNCHANGED <<runs, index, records, rep, genCap, value>>
      /\ pc \in {"build", "warm"} /\ pc' \in {"warm", "generate"}
  BY DEF Build, WarmUp, InRun
<1>2. spec' = spec /\ Seed' = Seed
  BY <1>1 DEF spec, Seed
<1>3. built' = Weights(spec, Seed)
  BY <1>1 DEF Build, WarmUp, ThisRun, InARun
<1>4. Len(records') = rep' - 1
  BY <1>1 DEF ThisRun, InARun
<1>5. capacity' = spec.cap
  BY <1>1 DEF Build, WarmUp, ThisRun, InARun
<1> QED
  BY <1>1, <1>2, <1>3, <1>4, <1>5 DEF ThisRun, InARun

\* An allocation leaves a cache with the budget of the run, divided.
LEMMA AllocatedBudget ==
  ASSUME capacity = spec.cap, spec.allocated, Generate
  PROVE  genCap' = Budget(spec)
<1>1. genCap' \in FinalCaps
  BY DEF Generate
<1>2. CASE spec.cap = Unbounded
  <2>1. genCap' = Unbounded
    BY <1>1, <1>2 DEF FinalCaps
  <2>2. Budget(spec) = [Unbounded EXCEPT !.perLayer = FALSE]
    BY <1>2 DEF Budget
  <2> QED
    BY <2>1, <2>2 DEF Unbounded, OneFor
<1>3. CASE spec.cap # Unbounded
  <2>1. genCap' = [spec.cap EXCEPT !.perLayer = TRUE]
    BY <1>1, <1>3 DEF FinalCaps
  <2>2. (spec.allocated /\ spec.cap # Unbounded) = TRUE
    BY <1>3
  <2> QED
    BY <2>1, <2>2 DEF Budget
<1> QED
  BY <1>2, <1>3

LEMMA GenerateStep ==
  ASSUME Place, ThisRun, Generate \/ Finish
  PROVE  ThisRun'
<1>1. /\ UNCHANGED <<runs, index, records, rep, built>>
      /\ pc \in {"generate", "finish"} /\ pc' \in {"finish", "quality", "record"}
  BY DEF Generate, Finish, InRun
<1>2. spec' = spec /\ Seed' = Seed
  BY <1>1 DEF spec, Seed
<1>3. built' = Weights(spec, Seed) /\ Len(records') = rep' - 1
  BY <1>1 DEF ThisRun, InARun
<1>4. capacity = spec.cap /\ capacity' = capacity
  BY <1>1 DEF ThisRun, InARun, Generate, Finish
<1>6. spec.allocated => genCap' = Budget(spec)
  BY <1>4, AllocatedBudget DEF Finish, ThisRun
<1>5. pc' = "record" => value' = NotMeasured
  BY DEF Generate, Finish
<1> QED
  BY <1>1, <1>2, <1>3, <1>4, <1>5, <1>6 DEF ThisRun, InARun

\* A run whose cache has no budget but its spec.
LEMMA BudgetUnbounded ==
  ASSUME NEW s, s.cap = Unbounded
  PROVE  Budget(s) = Unbounded
<1>1. Budget(s) = [Unbounded EXCEPT !.perLayer = FALSE]
  BY DEF Budget
<1> QED
  BY <1>1 DEF Unbounded, OneFor

\* Nor is the budget of a run divided that asks for no allocation.
LEMMA UndividedBudget ==
  ASSUME NEW s, Accepted(s), ~s.allocated
  PROVE  Budget(s) = s.cap
<1> DEFINE n == s.cap.tokens
<1>1. s.cap = OneFor(n)
  BY DEF Accepted
<1>2. (s.allocated /\ s.cap # Unbounded) = FALSE
  OBVIOUS
<1> HIDE DEF n
<1>3. Budget(s) = [OneFor(n) EXCEPT !.perLayer = FALSE]
  BY <1>1, <1>2 DEF Budget
<1> QED
  BY <1>1, <1>3 DEF OneFor

LEMMA QualityStep ==
  ASSUME Place, ThisRun, MeasureQuality
  PROVE  ThisRun'
<1>1. /\ UNCHANGED <<runs, index, records, rep, capacity, built, genCap>>
      /\ pc = "quality"
      /\ pc' = (IF spec.policy = "full_cache" THEN "record" ELSE "reference")
  BY DEF MeasureQuality, InRun
<1>2. spec' = spec /\ Seed' = Seed
  BY <1>1 DEF spec, Seed
<1>3. built = Weights(spec, Seed) /\ Len(records') = rep' - 1
  BY <1>1 DEF ThisRun, InARun
<1>4. capacity = spec.cap
  BY <1>1 DEF ThisRun, InARun
<1>5. QualityCap = Budget(spec)
  <2>1. CASE spec.allocated
    BY <1>1, <2>1 DEF ThisRun, QualityCap
  <2>2. CASE ~spec.allocated
    <3>1. QualityCap = spec.cap
      BY <1>4, <2>2 DEF QualityCap
    <3> QED
      BY <2>2, <3>1, UndividedBudget, RunFacts, <1>1 DEF InARun
  <2> QED
    BY <2>1, <2>2
<1>6. MeasuredFor(spec, Seed, value')
  BY <1>3, <1>5 DEF MeasureQuality, MeasuredFor
<1>7. pc' = "record" => Budget(spec) = Unbounded
  <2>1. pc' = "record" => spec.cap = Unbounded
    BY <1>1, RunFacts DEF Accepted, InARun
  <2> QED
    BY <2>1, BudgetUnbounded
<1>8. pc' = "record" => value'.of = Measure(spec, Weights(spec, Seed), Seed, Unbounded)
  BY <1>6, <1>7 DEF MeasuredFor
<1> QED
  BY <1>1, <1>2, <1>3, <1>4, <1>6, <1>8 DEF ThisRun, InARun

\* The memo only answers with what would have been measured.
LEMMA RecallStep ==
  ASSUME Place, ThisRun, MemoOK, RecallReference
  PROVE  ThisRun' /\ MemoOK'
<1>1. PICK m \in Remembered : AddRecord(m[2])
  BY DEF RecallReference
<1>2. pc = "reference" /\ memo' = memo
  BY DEF RecallReference
<1>3. built = Weights(spec, Seed) /\ MeasuredFor(spec, Seed, value)
  BY <1>2 DEF ThisRun, InARun
<1>4. m[2].of = Measure(spec, Weights(spec, Seed), Seed, Unbounded)
  <2>1. m[1] = MemoKey(spec, Weights(spec, Seed), Seed) /\ m \in memo
    BY <1>3 DEF Remembered
  <2>2. m[2].of = KeyMeasure(m[1])
    BY <2>1 DEF MemoOK
  <2> QED
    BY <2>1, <2>2, KeySuffices
<1>5. RecordOK(spec, rep, Record(m[2]))
  BY <1>3, <1>4 DEF RecordOK, Record, Seed
<1>6. ThisRun'
  BY <1>1, <1>2, <1>3, <1>5, AddRecordStep DEF InARun
<1> QED
  BY <1>2, <1>6 DEF MemoOK

LEMMA ComputeStep ==
  ASSUME Place, ThisRun, MemoOK, ComputeReference
  PROVE  ThisRun' /\ MemoOK'
<1> DEFINE k == MemoKey(spec, built, Seed)
<1>1. PICK r :
        /\ r.of = Measure(spec, built, Seed, Unbounded)
        /\ AddRecord(r)
        /\ memo' = memo \/ memo' = memo \cup {<<k, r>>}
  <2>1. PICK finite \in BOOLEAN :
          LET r == [of |-> Measure(spec, built, Seed, Unbounded), finite |-> finite]
          IN /\ AddRecord(r)
             /\ memo' = IF finite THEN memo \cup {<<k, r>>} ELSE memo
    BY DEF ComputeReference
  <2> DEFINE q == [of |-> Measure(spec, built, Seed, Unbounded), finite |-> finite]
  <2>2. q.of = Measure(spec, built, Seed, Unbounded)
    OBVIOUS
  <2>3. AddRecord(q)
    BY <2>1
  <2>4. memo' = memo \/ memo' = memo \cup {<<k, q>>}
    BY <2>1
  <2> HIDE DEF q
  <2> QED
    BY <2>2, <2>3, <2>4
<1>2. pc = "reference"
  BY DEF ComputeReference
<1>3. built = Weights(spec, Seed) /\ MeasuredFor(spec, Seed, value)
  BY <1>2 DEF ThisRun, InARun
<1>4. RecordOK(spec, rep, Record(r))
  BY <1>1, <1>3 DEF RecordOK, Record, Seed
<1>5. ThisRun'
  BY <1>1, <1>2, <1>3, <1>4, AddRecordStep DEF InARun
<1>6. r.of = KeyMeasure(k)
  BY <1>1, <1>3, KeySuffices
<1>7. MemoOK'
  <2> HIDE DEF k
  <2> QED BY <1>1, <1>6 DEF MemoOK
<1> QED
  BY <1>5, <1>7

LEMMA WithoutReferenceStep ==
  ASSUME Place, ThisRun, MemoOK, RecordWithoutReference
  PROVE  ThisRun' /\ MemoOK'
<1>1. pc = "record" /\ memo' = memo /\ AddRecord(value)
  BY DEF RecordWithoutReference
<1>2. built = Weights(spec, Seed)
  BY <1>1 DEF ThisRun, InARun
<1>3. \/ value = NotMeasured
      \/ /\ MeasuredFor(spec, Seed, value)
         /\ value.of = Measure(spec, Weights(spec, Seed), Seed, Unbounded)
  BY <1>1 DEF ThisRun
<1>4. RecordOK(spec, rep, Record(value))
  BY <1>2, <1>3 DEF RecordOK, Record, Seed
<1>5. ThisRun'
  BY <1>1, <1>2, <1>4, AddRecordStep DEF InARun
<1> QED
  BY <1>1, <1>5 DEF MemoOK

LEMMA WithinStep ==
  ASSUME IInv, Within
  PROVE  IInv'
<1>1. Place /\ ThisRun /\ MemoOK /\ OutcomesOK /\ Accounts
  BY DEF IInv
<1>2. ThisRun' /\ MemoOK'
  <2>1. CASE Build \/ WarmUp \/ Generate \/ Finish \/ MeasureQuality
    <3>1. memo' = memo
      BY <2>1 DEF Build, WarmUp, Generate, Finish, MeasureQuality
    <3> QED
      BY <1>1, <2>1, <3>1, BuildStep, GenerateStep, QualityStep DEF MemoOK
  <2>2. CASE RecallReference \/ ComputeReference \/ RecordWithoutReference
    BY <1>1, <2>2, RecallStep, ComputeStep, WithoutReferenceStep
  <2> QED
    BY <2>1, <2>2 DEF Within
<1>3. Place' /\ pc' \in InARun /\ UNCHANGED <<runs, index, outcomes, failures, files>>
  BY <1>1, WithinStays
<1>4. OutcomesOK'
  BY <1>1, <1>3 DEF OutcomesOK
<1>5. Accounts'
  BY <1>1, <1>3 DEF Accounts, Done, InARun
<1> QED
  BY <1>2, <1>3, <1>4, <1>5 DEF IInv

-----------------------------------------------------------------------------
(***************************************************************************)
(* The end of a run and of the experiment.                                 *)
(***************************************************************************)

\* The next run starts with nothing.
LEMMA NextRunStep ==
  ASSUME Place, pc \in InARun, NextRun, runs' = runs
  PROVE  /\ Place' /\ ThisRun'
         /\ index' = index + 1
         /\ pc' \in {"build", "write"}
<1>1. /\ index' = index + 1 /\ rep' = 1 /\ records' = <<>>
      /\ pc' = (IF index < Len(runs) THEN "build" ELSE "write")
  BY DEF NextRun
<1>2. Len(runs) \in Nat \ {0} /\ index \in 1 .. Len(runs)
  BY RunFacts DEF Place
<1>3. Place'
  BY <1>1, <1>2 DEF Place, InARun, Closing
<1>4. RecordsOK(spec', records')
  BY <1>1, EmptyIsSeq DEF RecordsOK
<1>5. ThisRun'
  BY <1>1, <1>4, EmptyIsSeq DEF ThisRun, InARun
<1> QED
  BY <1>1, <1>3, <1>5

\* The members of a sequence that grows.
LEMMA AppendedSet ==
  ASSUME NEW s, IsSeq(s), NEW e
  PROVE  ToSet(Append(s, e)) = ToSet(s) \cup {e}
<1> DEFINE t == Append(s, e)
<1>1. IsSeq(t) /\ Len(t) = Len(s) + 1 /\ t[Len(s) + 1] = e
      /\ (\A j \in 1 .. Len(s) : t[j] = s[j])
  BY Appended
<1>2. Len(s) \in Nat /\ DOMAIN s = 1 .. Len(s) /\ DOMAIN t = 1 .. Len(s) + 1
  BY <1>1, IsSeqLen
<1> HIDE DEF t
<1>3. {t[i] : i \in DOMAIN t} = {s[i] : i \in DOMAIN s} \cup {e}
  BY <1>1, <1>2
<1> QED
  BY <1>3 DEF ToSet, t

LEMMA SucceedsStep ==
  ASSUME IInv, RunSucceeds
  PROVE  IInv'
<1> DEFINE n == Len(outcomes)
<1>1. Place /\ ThisRun /\ MemoOK /\ OutcomesOK /\ Accounts
  BY DEF IInv
<1>2. /\ pc = "outcome" /\ outcomes' = Append(outcomes, Outcome) /\ NextRun
      /\ UNCHANGED <<runs, memo, failures, files>>
  BY DEF RunSucceeds
<1>3. /\ Place' /\ ThisRun' /\ index' = index + 1 /\ pc' \in {"build", "write"}
  BY <1>1, <1>2, NextRunStep DEF InARun
<1>4. index \in Nat \ {0} /\ IsSeq(outcomes) /\ n \in Nat /\ DOMAIN outcomes = 1 .. n
  BY <1>1, RunFacts, IsSeqLen DEF OutcomesOK
<1>5. /\ IsSeq(outcomes') /\ Len(outcomes') = n + 1
      /\ (\A j \in 1 .. n : outcomes'[j] = outcomes[j])
      /\ outcomes'[n + 1] = Outcome
  BY <1>2, <1>4, Appended
<1>6. Outcome.index = index /\ Outcome.records = records
  BY DEF Outcome
<1>7. RecordsOK(runs[index], records)
  BY <1>1 DEF ThisRun, spec
<1>8. OutcomesOK'
  <2>1. ASSUME NEW i \in 1 .. n
        PROVE  /\ outcomes'[i].index \in 1 .. index' - 1
               /\ RecordsOK(runs'[outcomes'[i].index], outcomes'[i].records)
    <3>1. /\ outcomes[i].index \in 1 .. index - 1
          /\ RecordsOK(runs[outcomes[i].index], outcomes[i].records)
      BY <1>1 DEF OutcomesOK
    <3>2. outcomes'[i] = outcomes[i] /\ runs' = runs
      BY <1>2, <1>5
    <3>3. outcomes[i].index \in 1 .. index' - 1
      BY <1>3, <1>4, <3>1
    <3> QED
      BY <3>1, <3>2, <3>3
  <2>2. /\ outcomes'[n + 1].index \in 1 .. index' - 1
        /\ RecordsOK(runs'[outcomes'[n + 1].index], outcomes'[n + 1].records)
    BY <1>2, <1>3, <1>4, <1>5, <1>6, <1>7
  <2>3. \A i \in 1 .. n + 1 :
          /\ outcomes'[i].index \in 1 .. index' - 1
          /\ RecordsOK(runs'[outcomes'[i].index], outcomes'[i].records)
    <3> HIDE DEF n
    <3> QED BY <1>4, <2>1, <2>2
  <2> QED
    BY <1>5, <2>3 DEF OutcomesOK
<1>9. Accounts'
  <2>1. IsSeq(failures) /\ Len(failures) \in Nat /\ Done = 1 .. index - 1
        /\ n + Len(failures) = index - 1
    BY <1>1, IsSeqLen DEF Accounts
  <2>2. DOMAIN outcomes' = 1 .. n + 1
    BY <1>5, IsSeqLen
  <2>3. {outcomes'[i].index : i \in DOMAIN outcomes'}
          = {outcomes[i].index : i \in DOMAIN outcomes} \cup {index}
    <3> HIDE DEF n
    <3> QED BY <1>4, <1>5, <1>6, <2>2
  <2>4. Done' = Done \cup {index}
    BY <1>2, <2>3 DEF Done
  <2>5. Done' = 1 .. index' - 1
    BY <1>3, <1>4, <2>1, <2>4
  <2>6. Len(outcomes') + Len(failures') = index' - 1
    BY <1>2, <1>3, <1>4, <1>5, <2>1
  <2>7. \A i, j \in 1 .. n + 1 : i < j => outcomes'[i].index < outcomes'[j].index
    <3> SUFFICES ASSUME NEW i \in 1 .. n + 1, NEW j \in 1 .. n + 1, i < j
                 PROVE  outcomes'[i].index < outcomes'[j].index
      OBVIOUS
    <3>1. i \in 1 .. n /\ outcomes'[i] = outcomes[i]
      BY <1>4, <1>5
    <3>2. CASE j = n + 1
      <4>1. outcomes[i].index \in 1 .. index - 1
        BY <1>1, <3>1 DEF OutcomesOK
      <4> QED
        BY <1>4, <1>5, <1>6, <3>1, <3>2, <4>1
    <3>3. CASE j # n + 1
      <4>1. j \in 1 .. n
        BY <1>4, <3>3
      <4> QED
        BY <1>1, <1>5, <3>1, <4>1 DEF Accounts
    <3> QED
      BY <3>2, <3>3
  <2> QED
    BY <1>2, <1>3, <1>5, <2>1, <2>5, <2>6, <2>7 DEF Accounts
<1> QED
  BY <1>1, <1>2, <1>3, <1>8, <1>9 DEF IInv, MemoOK

LEMMA FailsStep ==
  ASSUME IInv, RunFails
  PROVE  IInv'
<1>1. Place /\ ThisRun /\ MemoOK /\ OutcomesOK /\ Accounts
  BY DEF IInv
<1>2. /\ failures' = Append(failures, index) /\ NextRun
      /\ UNCHANGED <<runs, memo, outcomes, files>>
  BY DEF RunFails
<1>3. pc \in InARun
  BY <1>1 DEF RunFails, Running, Place, Closing
<1>4. /\ Place' /\ ThisRun' /\ index' = index + 1 /\ pc' \in {"build", "write"}
  BY <1>1, <1>2, <1>3, NextRunStep
<1>5. /\ index \in Nat \ {0} /\ IsSeq(failures) /\ Len(failures) \in Nat
      /\ IsSeq(outcomes) /\ Len(outcomes) \in Nat
  BY <1>1, RunFacts, IsSeqLen DEF OutcomesOK, Accounts
<1>6. IsSeq(failures') /\ Len(failures') = Len(failures) + 1
  BY <1>2, <1>5, Appended
<1>7. ToSet(failures') = ToSet(failures) \cup {index}
  BY <1>2, <1>5, AppendedSet
<1>8. OutcomesOK'
  <2>1. ASSUME NEW i \in 1 .. Len(outcomes)
        PROVE  outcomes[i].index \in 1 .. index' - 1
    <3>1. outcomes[i].index \in 1 .. index - 1
      BY <1>1 DEF OutcomesOK
    <3> QED
      BY <1>4, <1>5, <3>1
  <2> QED
    BY <1>1, <1>2, <2>1 DEF OutcomesOK
<1>9. Accounts'
  <2>1. Done = 1 .. index - 1 /\ Len(outcomes) + Len(failures) = index - 1
    BY <1>1 DEF Accounts
  <2>2. Done' = Done \cup {index}
    BY <1>2, <1>7 DEF Done
  <2>3. Done' = 1 .. index' - 1
    BY <1>4, <1>5, <2>1, <2>2
  <2>4. Len(outcomes') + Len(failures') = index' - 1
    BY <1>2, <1>4, <1>5, <1>6, <2>1
  <2>5. \A i, j \in 1 .. Len(outcomes') : i < j => outcomes'[i].index < outcomes'[j].index
    BY <1>1, <1>2 DEF Accounts
  <2> QED
    BY <1>4, <1>6, <2>3, <2>4, <2>5 DEF Accounts
<1> QED
  BY <1>1, <1>2, <1>4, <1>8, <1>9 DEF IInv, MemoOK

\* Nothing is recorded after the last run.
LEMMA ClosingStep ==
  ASSUME IInv, Write \/ WriteRaises \/ Report \/ Interrupt
  PROVE  IInv'
<1>1. Place /\ ThisRun /\ MemoOK /\ OutcomesOK /\ Accounts
  BY DEF IInv
<1>2. /\ UNCHANGED <<runs, index, rep, capacity, built, genCap, value, memo, records,
                     outcomes, failures>>
      /\ pc' \in {"report", "returned", "raised", "interrupted"}
  BY DEF Write, WriteRaises, Report, Interrupt
<1>3. Place'
  <2>1. pc' # "interrupted" => pc \in Closing
    BY DEF Write, WriteRaises, Report, Interrupt, Closing
  <2> QED
    BY <1>1, <1>2, <2>1 DEF Place, InARun, Closing
<1>4. ThisRun'
  BY <1>1, <1>2 DEF ThisRun, InARun, spec, Seed
<1>5. MemoOK' /\ OutcomesOK'
  BY <1>1, <1>2 DEF MemoOK, OutcomesOK
<1>6. Accounts'
  <2>1. pc' \in {"report", "returned", "raised"} => files' = outcomes'
    BY <1>1 DEF Write, WriteRaises, Report, Interrupt, Accounts
  <2>2. /\ pc' = "raised" => failures' # <<>>
        /\ pc' = "returned" => failures' = <<>>
    BY DEF Write, WriteRaises, Report, Interrupt
  <2> QED
    BY <1>1, <1>2, <2>1, <2>2 DEF Accounts, Done
<1> QED
  BY <1>3, <1>4, <1>5, <1>6 DEF IInv

LEMMA InitInv == Init => IInv
<1> SUFFICES ASSUME Init PROVE IInv
  OBVIOUS
<1>1. runs \in Sweeps /\ index = 1 /\ pc = "build" /\ rep = 1
      /\ records = <<>> /\ outcomes = <<>> /\ failures = <<>> /\ memo = {}
  BY DEF Init
<1>2. Len(runs) \in Nat \ {0}
  BY <1>1, SweepsAssumption
<1>3. Place
  BY <1>1, <1>2 DEF Place, InARun, Closing
<1>4. ThisRun
  BY <1>1, EmptyIsSeq DEF ThisRun, RecordsOK, InARun
<1>5. OutcomesOK
  BY <1>1, EmptyIsSeq DEF OutcomesOK
<1>6. Accounts
  <2>1. Done = {}
    BY <1>1, EmptyIsSeq DEF Done, ToSet
  <2> QED
    BY <1>1, <2>1, EmptyIsSeq DEF Accounts
<1> QED
  BY <1>1, <1>3, <1>4, <1>5, <1>6 DEF IInv, MemoOK

LEMMA StepInv == IInv /\ [Next]_vars => IInv'
<1> SUFFICES ASSUME IInv, [Next]_vars PROVE IInv'
  OBVIOUS
<1>1. CASE UNCHANGED vars
  BY <1>1 DEF vars, IInv, Place, ThisRun, MemoOK, OutcomesOK, Accounts, Done, spec, Seed
<1>2. CASE Next
  BY <1>2, WithinStep, SucceedsStep, FailsStep, ClosingStep DEF Next, Step, Within
<1> QED
  BY <1>1, <1>2

LEMMA AlwaysIInv == Spec => []IInv
BY InitInv, StepInv, PTL DEF Spec

-----------------------------------------------------------------------------
(***************************************************************************)
(* What an outcome is made of.                                             *)
(***************************************************************************)

\* Induction on the subsets of a finite set, for a set P of subsets: the
\* strict inclusion is well-founded, so a smallest subset outside P exists.
LEMMA SubsetInduction ==
  ASSUME NEW L, IsFiniteSet(L), NEW P,
         \A s \in SUBSET L : (\A t \in SUBSET s : t # s => t \in P) => s \in P
  PROVE  \A s \in SUBSET L : s \in P
<1> DEFINE out == {s \in SUBSET L : s \notin P}
<1>1. FiniteSubsetsOf(L) = SUBSET L
  BY FS_FiniteSubsetsOfFinite
<1>2. IsWellFoundedOn(StrictSubsetOrdering(L), SUBSET L)
  BY <1>1, FS_StrictSubsetOrderingWellFounded
<1>3. CASE out # {}
  <2>1. PICK s \in out :
          \A t \in out : ~ (<<t, s>> \in StrictSubsetOrdering(L))
    <3>1. out \subseteq SUBSET L
      OBVIOUS
    <3> HIDE DEF out
    <3> QED BY <1>2, <1>3, <3>1, WFMin
  <2>2. \A t \in SUBSET s : t # s => t \in P
    BY <2>1 DEF StrictSubsetOrdering
  <2> QED BY <2>1, <2>2
<1> QED BY <1>3

\* Induction on the numbers up to N, for a set P of numbers: on the sets 1 .. n.
LEMMA IntervalInduction ==
  ASSUME NEW N \in Nat, NEW P, 0 \in P,
         \A n \in 0 .. N - 1 : n \in P => n + 1 \in P
  PROVE  \A n \in 0 .. N : n \in P
<1> DEFINE Q == {s \in SUBSET (1 .. N) : \A n \in 0 .. N : s = 1 .. n => n \in P}
<1>1. IsFiniteSet(1 .. N)
  BY FS_Interval
<1>2. ASSUME NEW s \in SUBSET (1 .. N), \A t \in SUBSET s : t # s => t \in Q
      PROVE  s \in Q
  <2> SUFFICES ASSUME NEW n \in 0 .. N, s = 1 .. n PROVE n \in P
    OBVIOUS
  <2>1. CASE n = 0
    BY <2>1
  <2>2. CASE n # 0
    <3>1. /\ 1 .. n - 1 \subseteq s /\ n \in s /\ n \notin 1 .. n - 1
          /\ n - 1 \in 0 .. N - 1 /\ n - 1 \in 0 .. N
      BY <2>2
    <3>2. 1 .. n - 1 \in Q
      BY <1>2, <3>1
    <3>3. n - 1 \in P
      BY <3>1, <3>2
    <3>4. (n - 1) + 1 \in P
      BY <3>1, <3>3
    <3> QED BY <3>4
  <2> QED BY <2>1, <2>2
<1> HIDE DEF Q
<1>3. \A s \in SUBSET (1 .. N) : s \in Q
  BY <1>1, <1>2, SubsetInduction
<1>4. \A n \in 0 .. N : 1 .. n \in Q
  <2> SUFFICES ASSUME NEW n \in 0 .. N PROVE 1 .. n \in SUBSET (1 .. N)
    BY <1>3
  <2> QED OBVIOUS
<1> QED BY <1>4 DEF Q

\* What Selected computes for every prefix of s.
IsUpTo(f, s, I, n) ==
  f = [m \in 0 .. n |-> IF m = 0 THEN <<>>
                        ELSE IF m \in I THEN Append(f[m - 1], s[m]) ELSE f[m - 1]]

LEMMA UpToExists ==
  ASSUME NEW s, NEW I, NEW N \in Nat
  PROVE  \E f : IsUpTo(f, s, I, N)
<1> DEFINE P == {n \in 0 .. N : \E f : IsUpTo(f, s, I, n)}
<1>1. 0 \in P
  <2> DEFINE f == [m \in 0 .. 0 |-> <<>>]
  <2>1. f = [m \in 0 .. 0 |-> IF m = 0 THEN <<>>
                              ELSE IF m \in I THEN Append(f[m - 1], s[m]) ELSE f[m - 1]]
    OBVIOUS
  <2> HIDE DEF f
  <2>2. IsUpTo(f, s, I, 0)
    BY <2>1 DEF IsUpTo
  <2> QED BY <2>2
<1>2. ASSUME NEW n \in 0 .. N - 1, n \in P PROVE n + 1 \in P
  <2>1. PICK f : IsUpTo(f, s, I, n)
    BY <1>2
  <2> DEFINE last == IF n + 1 \in I THEN Append(f[n], s[n + 1]) ELSE f[n]
             g == [m \in 0 .. n + 1 |-> IF m = n + 1 THEN last ELSE f[m]]
  <2>2. \A m \in 0 .. n :
          f[m] = IF m = 0 THEN <<>>
                 ELSE IF m \in I THEN Append(f[m - 1], s[m]) ELSE f[m - 1]
    BY <2>1 DEF IsUpTo
  <2>3. /\ g[n + 1] = last
        /\ \A m \in 0 .. n : g[m] = f[m]
    OBVIOUS
  <2>4. g = [m \in 0 .. n + 1 |-> g[m]]
    OBVIOUS
  <2> HIDE DEF g
  <2>5. \A m \in 0 .. n + 1 :
          g[m] = IF m = 0 THEN <<>>
                 ELSE IF m \in I THEN Append(g[m - 1], s[m]) ELSE g[m - 1]
    <3> SUFFICES ASSUME NEW m \in 0 .. n + 1
                 PROVE  g[m] = IF m = 0 THEN <<>>
                          ELSE IF m \in I THEN Append(g[m - 1], s[m]) ELSE g[m - 1]
      OBVIOUS
    <3>1. CASE m = n + 1
      <4>1. m # 0 /\ m - 1 = n /\ g[n] = f[n]
        BY <3>1, <2>3
      <4> QED BY <2>3, <3>1, <4>1
    <3>2. CASE m # n + 1
      <4>1. m \in 0 .. n /\ (m # 0 => m - 1 \in 0 .. n)
        BY <3>2
      <4>2. g[m] = f[m] /\ (m # 0 => g[m - 1] = f[m - 1])
        BY <2>3, <4>1
      <4> QED BY <2>2, <4>1, <4>2
    <3> QED BY <3>1, <3>2
  <2>6. IsUpTo(g, s, I, n + 1)
    BY <2>4, <2>5 DEF IsUpTo
  <2> QED BY <2>6
<1> HIDE DEF P
<1>3. N \in P
  BY <1>1, <1>2, IntervalInduction
<1> QED BY <1>3 DEF P

\* As many entries are selected as there are places, and each is the entry of
\* one of them.
LEMMA SelectedEntries ==
  ASSUME NEW s, Len(s) \in Nat, NEW I, I \subseteq 1 .. Len(s)
  PROVE  /\ Len(Selected(s, I)) = Cardinality(I)
         /\ DOMAIN Selected(s, I) = 1 .. Cardinality(I)
         /\ \A j \in DOMAIN Selected(s, I) : \E i \in I : Selected(s, I)[j] = s[i]
<1> DEFINE N == Len(s)
           f == CHOOSE f : IsUpTo(f, s, I, N)
           Up(n) == {i \in I : i <= n}
           Good(n) == /\ IsSeq(f[n])
                      /\ IsFiniteSet(Up(n))
                      /\ Len(f[n]) = Cardinality(Up(n))
                      /\ \A j \in 1 .. Len(f[n]) : \E i \in I : f[n][j] = s[i]
           P == {n \in 0 .. N : Good(n)}
<1>1. Selected(s, I) = f[N]
  BY DEF Selected, IsUpTo
<1>2. IsUpTo(f, s, I, N)
  BY UpToExists
<1> HIDE DEF f
<1>0. N \in Nat /\ (\A i \in I : i \in Nat /\ 1 <= i /\ i <= N)
  OBVIOUS
<1>3. \A n \in 0 .. N :
        f[n] = IF n = 0 THEN <<>>
               ELSE IF n \in I THEN Append(f[n - 1], s[n]) ELSE f[n - 1]
  BY <1>2 DEF IsUpTo
<1>4. 0 \in P
  <2>1. f[0] = <<>>
    BY <1>3
  <2>2. Up(0) = {}
    <3> HIDE DEF N
    <3>1. \A i \in I : ~(i <= 0)
      BY <1>0
    <3> QED BY <3>1
  <2>3. IsSeq(f[0]) /\ Len(f[0]) = 0
    BY <2>1, EmptyIsSeq
  <2>4. IsFiniteSet(Up(0)) /\ Cardinality(Up(0)) = 0
    BY <2>2, FS_EmptySet
  <2>5. \A j \in 1 .. Len(f[0]) : \E i \in I : f[0][j] = s[i]
    BY <2>3
  <2>6. Good(0)
    <3> HIDE DEF Up
    <3> QED BY <2>3, <2>4, <2>5
  <2>7. 0 \in 0 .. N
    OBVIOUS
  <2> HIDE DEF Good, N
  <2> QED BY <2>6, <2>7
<1>5. ASSUME NEW n \in 0 .. N - 1, n \in P PROVE n + 1 \in P
  <2>1. Good(n) /\ n + 1 \in 0 .. N /\ n \in Nat
    BY <1>5
  <2>2. f[n + 1] = IF n + 1 \in I THEN Append(f[n], s[n + 1]) ELSE f[n]
    <3>1. n + 1 # 0 /\ (n + 1) - 1 = n
      BY <2>1
    <3> QED BY <1>3, <2>1, <3>1
  <2>3. CASE n + 1 \notin I
    <3>1. Up(n + 1) = Up(n)
      <4>1. \A i \in I : i <= n + 1 <=> i <= n
        BY <1>0, <2>1, <2>3
      <4> QED BY <4>1
    <3> QED BY <2>1, <2>2, <2>3, <3>1
  <2>4. CASE n + 1 \in I
    <3>1. Up(n + 1) = Up(n) \cup {n + 1} /\ n + 1 \notin Up(n)
      <4>1. \A i \in I : i <= n + 1 <=> i <= n \/ i = n + 1
        BY <1>0, <2>1
      <4>2. ~(n + 1 <= n)
        BY <2>1
      <4> QED BY <2>4, <4>1, <4>2
    <3>2. f[n + 1] = Append(f[n], s[n + 1])
      BY <2>2, <2>4
    <3>3. IsFiniteSet(Up(n + 1)) /\ Cardinality(Up(n + 1)) = Cardinality(Up(n)) + 1
      <4> DEFINE u == Up(n)
      <4> HIDE DEF u
      <4>1. IsFiniteSet(u) /\ n + 1 \notin u
        BY <2>1, <3>1 DEF u
      <4>2. IsFiniteSet(u \cup {n + 1}) /\ Cardinality(u \cup {n + 1}) = Cardinality(u) + 1
        BY <4>1, FS_AddElement
      <4> QED BY <3>1, <4>2 DEF u
    <3>4. /\ IsSeq(f[n + 1]) /\ Len(f[n + 1]) = Len(f[n]) + 1
          /\ \A j \in 1 .. Len(f[n]) : f[n + 1][j] = f[n][j]
          /\ f[n + 1][Len(f[n]) + 1] = s[n + 1]
      <4> DEFINE old == f[n]
                 e == s[n + 1]
      <4>1. IsSeq(old)
        BY <2>1
      <4> HIDE DEF old, e
      <4>2. /\ IsSeq(Append(old, e)) /\ Len(Append(old, e)) = Len(old) + 1
            /\ \A j \in 1 .. Len(old) : Append(old, e)[j] = old[j]
            /\ Append(old, e)[Len(old) + 1] = e
        BY <4>1, Appended
      <4>3. f[n + 1] = Append(old, e)
        BY <3>2 DEF old, e
      <4> QED BY <4>2, <4>3 DEF old, e
    <3>5. Len(f[n]) \in Nat
      BY <2>1, IsSeqLen
    <3>6. \A j \in 1 .. Len(f[n + 1]) : \E i \in I : f[n + 1][j] = s[i]
      <4> SUFFICES ASSUME NEW j \in 1 .. Len(f[n + 1])
                   PROVE  \E i \in I : f[n + 1][j] = s[i]
        OBVIOUS
      <4>1. CASE j = Len(f[n]) + 1
        BY <2>4, <3>4, <4>1
      <4>2. CASE j # Len(f[n]) + 1
        <5>1. j \in 1 .. Len(f[n])
          BY <3>4, <3>5, <4>2
        <5> QED BY <2>1, <3>4, <5>1
      <4> QED BY <4>1, <4>2
    <3>7. Len(f[n + 1]) = Cardinality(Up(n + 1))
      BY <2>1, <3>3, <3>4
    <3> QED BY <2>1, <3>3, <3>4, <3>6, <3>7
  <2> QED BY <2>3, <2>4
<1>6. Good(N)
  <2> HIDE DEF Good
  <2>1. N \in P
    <3>1. N \in Nat /\ N \in 0 .. N
      OBVIOUS
    <3> HIDE DEF P, N
    <3> QED BY <1>4, <1>5, <3>1, IntervalInduction
  <2> QED BY <2>1
<1>7. Up(N) = I
  <2> HIDE DEF N
  <2> QED BY <1>0
<1>8. DOMAIN f[N] = 1 .. Len(f[N])
  BY <1>6, IsSeqLen
<1> HIDE DEF Up
<1> QED BY <1>1, <1>6, <1>7, <1>8

\* A record with a figure has something to compare it with.
ReferencesTaken(rs) ==
  \A j \in 1 .. Len(rs) : rs[j].value # NotMeasured => rs[j].reference # NotMeasured

OutcomeOK(o) ==
  /\ Len(o.records) = runs[o.index].repetitions
  /\ ReferencesTaken(o.records)
  /\ o.figures = Figures(o.records)
  /\ o.deltas = Deltas(o.records)
  /\ o.problems = Problems(o.records)

\* The inductive invariant of the aggregates, beside IInv.
HonestInv ==
  /\ \A m \in memo : m[2] # NotMeasured
  /\ ReferencesTaken(records)
  /\ pc \in InARun => rep <= spec.repetitions
  /\ pc = "outcome" => Len(records) = spec.repetitions
  /\ \A i \in 1 .. Len(outcomes) : OutcomeOK(outcomes[i])

\* Adding a record.
LEMMA HonestRecord ==
  ASSUME IInv, HonestInv, NEW reference, AddRecord(reference),
         pc \in {"reference", "record"},
         value # NotMeasured => reference # NotMeasured
  PROVE  /\ ReferencesTaken(records')
         /\ pc' \in InARun => rep' <= spec'.repetitions
         /\ pc' = "outcome" => Len(records') = spec'.repetitions
         /\ \A i \in 1 .. Len(outcomes') : OutcomeOK(outcomes[i])'
<1>1. /\ IsSeq(records) /\ rep \in Nat \ {0} /\ Len(records) = rep - 1
      /\ Place /\ rep <= spec.repetitions
  BY DEF IInv, ThisRun, RecordsOK, InARun, HonestInv
<1>2. /\ records' = Append(records, Record(reference))
      /\ rep' = (IF rep < spec.repetitions THEN rep + 1 ELSE rep)
      /\ pc' = (IF rep < spec.repetitions THEN "build" ELSE "outcome")
      /\ UNCHANGED <<runs, index, outcomes>>
  BY DEF AddRecord, InRun
<1>3. spec' = spec
  BY <1>2 DEF spec
<1>4. /\ Len(records') = rep
      /\ \A j \in 1 .. rep - 1 : records'[j] = records[j]
      /\ records'[rep] = Record(reference)
  <2>1. Len(records) + 1 = rep
    BY <1>1
  <2> QED
    BY <1>1, <1>2, <2>1, Appended
<1>5. spec.repetitions \in Nat \ {0}
  BY <1>1, RunFacts DEF Accepted, InARun
<1>6. ReferencesTaken(records')
  <2> SUFFICES ASSUME NEW j \in 1 .. rep, records'[j].value # NotMeasured
               PROVE  records'[j].reference # NotMeasured
    BY <1>4 DEF ReferencesTaken
  <2>1. CASE j = rep
    BY <1>4, <2>1 DEF Record
  <2>2. CASE j # rep
    <3>1. j \in 1 .. rep - 1 /\ j \in 1 .. Len(records)
      BY <1>1, <2>2
    <3> QED
      BY <1>4, <3>1 DEF HonestInv, ReferencesTaken
  <2> QED
    BY <2>1, <2>2
<1>7. /\ rep' <= spec'.repetitions
      /\ pc' = "outcome" => Len(records') = spec'.repetitions
  BY <1>1, <1>2, <1>3, <1>4, <1>5
<1>8. \A i \in 1 .. Len(outcomes') : OutcomeOK(outcomes[i])'
  BY <1>2 DEF HonestInv, OutcomeOK
<1> QED
  BY <1>6, <1>7, <1>8

LEMMA HonestWithin ==
  ASSUME IInv, HonestInv, Within
  PROVE  HonestInv'
<1>1. CASE Build \/ WarmUp \/ Generate \/ Finish \/ MeasureQuality
  <2>1. /\ UNCHANGED <<runs, index, outcomes, records, rep, memo>>
        /\ pc \in InARun /\ pc' # "outcome"
    BY <1>1 DEF Build, WarmUp, Generate, Finish, MeasureQuality, InRun, InARun
  <2>2. spec' = spec
    BY <2>1 DEF spec
  <2> QED
    BY <2>1, <2>2 DEF HonestInv, OutcomeOK
<1>2. CASE RecallReference
  <2>1. PICK m \in Remembered : AddRecord(m[2])
    BY <1>2 DEF RecallReference
  <2>2. m[2] # NotMeasured
    BY DEF Remembered, HonestInv
  <2>3. pc = "reference" /\ memo' = memo
    BY <1>2 DEF RecallReference
  <2> QED
    BY <2>1, <2>2, <2>3, HonestRecord DEF HonestInv
<1>3. CASE ComputeReference
  <2>1. PICK finite \in BOOLEAN :
          LET r == [of |-> Measure(spec, built, Seed, Unbounded), finite |-> finite]
          IN /\ AddRecord(r)
             /\ memo' = IF finite THEN memo \cup {<<MemoKey(spec, built, Seed), r>>}
                        ELSE memo
    BY <1>3 DEF ComputeReference
  <2> DEFINE r == [of |-> Measure(spec, built, Seed, Unbounded), finite |-> finite]
  <2>2. r # NotMeasured
    <3>1. "of" \in DOMAIN r /\ "of" \notin DOMAIN NotMeasured
      BY EmptyIsSeq DEF NotMeasured
    <3> HIDE DEF r
    <3> QED BY <3>1
  <2>3. AddRecord(r) /\ pc = "reference"
    BY <1>3, <2>1 DEF ComputeReference
  <2>4. \A m \in memo' : m \in memo \/ m = <<MemoKey(spec, built, Seed), r>>
    BY <2>1
  <2> HIDE DEF r
  <2>5. \A m \in memo' : m[2] # NotMeasured
    BY <2>2, <2>4 DEF HonestInv
  <2> QED
    BY <2>2, <2>3, <2>5, HonestRecord DEF HonestInv
<1>4. CASE RecordWithoutReference
  <2>1. AddRecord(value) /\ pc = "record" /\ memo' = memo
    BY <1>4 DEF RecordWithoutReference
  <2> QED
    BY <2>1, HonestRecord DEF HonestInv
<1> QED
  BY <1>1, <1>2, <1>3, <1>4 DEF Within

\* Between two runs, and after the last.
LEMMA HonestBetween ==
  ASSUME IInv, HonestInv, RunSucceeds \/ RunFails
  PROVE  HonestInv'
<1>1. /\ Place /\ ThisRun /\ Place' /\ OutcomesOK /\ pc \in InARun
      /\ IsSeq(outcomes) /\ index \in 1 .. Len(runs)
  <2>1. Place /\ ThisRun /\ OutcomesOK /\ pc \in InARun
    BY DEF IInv, RunSucceeds, RunFails, Running, Place, InARun, Closing
  <2>2. Place'
    BY <2>1, NextRunStep DEF RunSucceeds, RunFails
  <2> QED
    BY <2>1, <2>2 DEF OutcomesOK, Place
<1>2. NextRun /\ runs' = runs /\ memo' = memo
  BY DEF RunSucceeds, RunFails
<1>3. records' = <<>> /\ rep' = 1 /\ pc' \in {"build", "write"}
  BY <1>2 DEF NextRun
<1>4. ReferencesTaken(records')
  BY <1>3, EmptyIsSeq DEF ReferencesTaken
<1>5. pc' \in InARun => rep' <= spec'.repetitions
  <2>1. pc' \in InARun => spec'.repetitions \in Nat \ {0}
    <3>1. Place' => (pc' \in InARun => Accepted(spec'))
      <4>1. Len(runs) \in Nat \ {0} /\ (\A i \in 1 .. Len(runs) : Accepted(runs[i]))
        BY <1>1, RunFacts
      <4>2. pc' \in InARun => index' \in 1 .. Len(runs)
        BY <1>1, <1>2 DEF Place
      <4> QED
        BY <1>2, <4>1, <4>2 DEF spec
    <3> QED
      BY <1>1, <3>1 DEF Accepted
  <2> QED
    BY <1>3, <2>1
<1>6. \A i \in 1 .. Len(outcomes') : OutcomeOK(outcomes[i])'
  <2>1. CASE RunFails
    BY <1>2, <2>1 DEF RunFails, HonestInv, OutcomeOK
  <2>2. CASE RunSucceeds
    <3>1. outcomes' = Append(outcomes, Outcome) /\ pc = "outcome"
      BY <2>2 DEF RunSucceeds
    <3>2. /\ Len(outcomes) \in Nat /\ Len(outcomes') = Len(outcomes) + 1
          /\ \A i \in 1 .. Len(outcomes) : outcomes'[i] = outcomes[i]
          /\ outcomes'[Len(outcomes) + 1] = Outcome
      BY <1>1, <3>1, Appended, IsSeqLen
    <3>3. OutcomeOK(Outcome)
      BY <3>1 DEF HonestInv, OutcomeOK, Outcome, spec
    <3>4. \A i \in 1 .. Len(outcomes') : OutcomeOK(outcomes'[i])
      <4> SUFFICES ASSUME NEW i \in 1 .. Len(outcomes') PROVE OutcomeOK(outcomes'[i])
        OBVIOUS
      <4>1. CASE i = Len(outcomes) + 1
        BY <3>2, <3>3, <4>1
      <4>2. CASE i # Len(outcomes) + 1
        <5>1. i \in 1 .. Len(outcomes)
          BY <3>2, <4>2
        <5> QED BY <3>2, <5>1 DEF HonestInv
      <4> QED BY <4>1, <4>2
    <3> QED
      BY <1>2, <3>4 DEF OutcomeOK
  <2> QED
    BY <2>1, <2>2
<1> QED
  BY <1>2, <1>3, <1>4, <1>5, <1>6 DEF HonestInv

LEMMA HonestClosing ==
  ASSUME HonestInv, \/ Write \/ WriteRaises \/ Report \/ Interrupt
                    \/ UNCHANGED vars
  PROVE  HonestInv'
<1>1. /\ UNCHANGED <<runs, index, rep, memo, records, outcomes>>
      /\ pc' = pc \/ pc' \in {"report", "returned", "raised", "interrupted"}
  BY DEF Write, WriteRaises, Report, Interrupt, vars
<1> QED
  BY <1>1 DEF HonestInv, OutcomeOK, InARun, spec

LEMMA HonestStep == IInv /\ HonestInv /\ [Next]_vars => HonestInv'
BY HonestWithin, HonestBetween, HonestClosing DEF Next, Step, Within

LEMMA HonestInit == Init => HonestInv
<1> SUFFICES ASSUME Init PROVE HonestInv
  OBVIOUS
<1>1. /\ runs \in Sweeps /\ index = 1 /\ pc = "build" /\ rep = 1 /\ memo = {}
      /\ records = <<>> /\ outcomes = <<>>
  BY DEF Init
<1>2. spec.repetitions \in Nat \ {0}
  BY <1>1, SweepsAssumption DEF spec, Accepted
<1> QED
  BY <1>1, <1>2, EmptyIsSeq DEF HonestInv, ReferencesTaken

\* The claims about one outcome follow from what it is made of.
LEMMA OutcomeIsHonest ==
  ASSUME NEW o, OutcomeOK(o), RecordsOK(runs[o.index], o.records)
  PROVE  /\ Len(o.figures) + Cardinality({j \in DOMAIN o.records :
                    o.records[j].value = NotMeasured \/ ~o.records[j].value.finite})
              = Len(o.records)
         /\ Len(o.figures) < Len(o.records) => o.problems # {}
         /\ \A j \in DOMAIN o.deltas :
              o.deltas[j].value.of.prompt = o.deltas[j].reference.of.prompt
         /\ o.problems = {} => Len(o.deltas) = Len(o.records)
<1> DEFINE rs == o.records
           n == Len(rs)
           D == 1 .. n
           left == {j \in D : rs[j].value = NotMeasured \/ ~rs[j].value.finite}
           M == Measured(rs)
           Q == Paired(rs)
           vs == [i \in 1 .. n |-> rs[i].value]
           ps == [i \in 1 .. n |-> [value |-> rs[i].value, reference |-> rs[i].reference]]
<1>1. n \in Nat /\ DOMAIN rs = D /\ Len(vs) = n /\ Len(ps) = n
  BY IsSeqLen DEF RecordsOK
<1>2. M = {i \in D : IsFinite(rs[i].value)} /\ Q = {i \in M : IsFinite(rs[i].reference)}
  BY <1>1 DEF Measured, Paired
<1>3. left = D \ M /\ M \subseteq D /\ Q \subseteq M
  BY <1>2 DEF IsFinite
<1>4. o.figures = Selected(vs, M) /\ o.deltas = Selected(ps, Q)
  BY DEF OutcomeOK, Figures, Deltas
<1>5. {i \in D : ~IsFinite(rs[i].value)
                 \/ (rs[i].reference # NotMeasured /\ ~rs[i].reference.finite)}
        \subseteq o.problems
  BY <1>1 DEF OutcomeOK, Problems
<1>6. Len(o.figures) = Cardinality(M)
  <2> HIDE DEF vs, M, n
  <2>1. Len(vs) \in Nat /\ M \subseteq 1 .. Len(vs)
    BY <1>1, <1>3
  <2> QED BY <1>4, <2>1, SelectedEntries
<1>7. /\ Len(o.deltas) = Cardinality(Q)
      /\ \A j \in DOMAIN o.deltas : \E i \in Q : o.deltas[j] = ps[i]
  <2> HIDE DEF ps, Q, n
  <2>1. Len(ps) \in Nat /\ Q \subseteq 1 .. Len(ps)
    BY <1>1, <1>3
  <2>2. /\ Len(Selected(ps, Q)) = Cardinality(Q)
        /\ DOMAIN Selected(ps, Q) = 1 .. Cardinality(Q)
        /\ \A j \in DOMAIN Selected(ps, Q) : \E i \in Q : Selected(ps, Q)[j] = ps[i]
    BY <2>1, SelectedEntries
  <2> QED BY <1>4, <2>2
<1>8. IsFiniteSet(D) /\ Cardinality(D) = n
  <2> HIDE DEF n
  <2> QED BY <1>1, FS_Interval
<1>9. Cardinality(left) = n - Cardinality(M) /\ Cardinality(M) \in Nat
  <2> HIDE DEF D, M, left, n
  <2>1. D \cap M = M
    BY <1>3
  <2>2. Cardinality(D \ M) = Cardinality(D) - Cardinality(D \cap M)
    BY <1>8, FS_Difference
  <2>3. IsFiniteSet(M) /\ Cardinality(M) \in Nat
    BY <1>3, <1>8, FS_Subset, FS_CardinalityType
  <2> QED BY <1>3, <1>8, <2>1, <2>2, <2>3
<1>10. Len(o.figures) + Cardinality(left) = n
  <2> HIDE DEF left, M, n
  <2> QED BY <1>1, <1>6, <1>9
<1>11. ASSUME Len(o.figures) < n PROVE o.problems # {}
  <2>1. left # {}
    <3> HIDE DEF left, M, n
    <3>1. Cardinality(left) # 0
      BY <1>1, <1>6, <1>9, <1>11
    <3> QED BY <3>1, FS_EmptySet
  <2> QED
    BY <1>3, <1>5, <1>2, <2>1
<1>12. ASSUME NEW j \in DOMAIN o.deltas
       PROVE  o.deltas[j].value.of.prompt = o.deltas[j].reference.of.prompt
  <2>1. PICK i \in Q : o.deltas[j] = ps[i]
    BY <1>7, <1>12
  <2>2. i \in D /\ rs[i].reference # NotMeasured
    BY <1>2, <1>3 DEF IsFinite
  <2>3. RecordOK(runs[o.index], i, rs[i])
    BY <2>2 DEF RecordsOK
  <2> DEFINE r == rs[i]
             t == runs[o.index]
  <2> HIDE DEF r, t
  <2>6. RecordOK(t, i, r) /\ r.reference # NotMeasured
    BY <2>2, <2>3 DEF r, t
  <2>7. /\ MeasuredFor(t, r.seed, r.value)
        /\ r.reference.of = Measure(t, Weights(t, r.seed), r.seed, Unbounded)
    BY <2>6 DEF RecordOK
  <2>4. rs[i].value.of.prompt = rs[i].reference.of.prompt
    BY <2>7 DEF MeasuredFor, Measure, r
  <2>5. ps[i].value = rs[i].value /\ ps[i].reference = rs[i].reference
    BY <2>2
  <2> QED
    BY <2>1, <2>4, <2>5
<1>13. ASSUME o.problems = {} PROVE Len(o.deltas) = n
  <2>1. \A i \in D : IsFinite(rs[i].value)
    BY <1>5, <1>13
  <2>2. \A i \in D : rs[i].reference # NotMeasured
    BY <2>1 DEF OutcomeOK, ReferencesTaken, IsFinite
  <2>3. \A i \in D : IsFinite(rs[i].reference)
    BY <1>5, <1>13, <2>2 DEF IsFinite
  <2>4. Q = D
    BY <1>2, <2>1, <2>3
  <2> QED
    BY <1>7, <1>8, <2>4
<1> HIDE DEF left, n
<1> QED
  BY <1>1, <1>10, <1>11, <1>12, <1>13 DEF left, n

-----------------------------------------------------------------------------
(***************************************************************************)
(* The theorems.                                                           *)
(***************************************************************************)

\* All records taken so far are fit for their run and their place.
LEMMA TakenOK ==
  ASSUME IInv, NEW i \in DOMAIN Taken, NEW j \in DOMAIN Taken[i].records
  PROVE  RecordOK(Taken[i].spec, j, Taken[i].records[j])
<1> DEFINE n == Len(outcomes)
<1>1. Place /\ ThisRun /\ OutcomesOK
  BY DEF IInv
<1>2. n \in Nat /\ i \in 1 .. n + 1
  BY <1>1, IsSeqLen DEF OutcomesOK, Taken
<1>3. CASE i <= n
  <2>1. Taken[i] = [spec |-> runs[outcomes[i].index], records |-> outcomes[i].records]
    BY <1>2, <1>3 DEF Taken
  <2>2. RecordsOK(runs[outcomes[i].index], outcomes[i].records)
    BY <1>1, <1>2, <1>3 DEF OutcomesOK
  <2> QED
    BY <2>1, <2>2, IsSeqLen DEF RecordsOK
<1>4. CASE ~(i <= n)
  <2>1. /\ Taken[i].spec = (IF index <= Len(runs) THEN spec ELSE runs[1])
        /\ Taken[i].records = records
    BY <1>2, <1>4 DEF Taken
  <2>2. index <= Len(runs)
    <3>1. CASE index = Len(runs) + 1
      <4>1. records = <<>>
        BY <1>1, <3>1 DEF ThisRun
      <4> QED
        BY <2>1, <4>1, EmptyIsSeq
    <3>2. CASE index # Len(runs) + 1
      BY <1>1, <3>2, RunFacts DEF Place
    <3> QED
      BY <3>1, <3>2
  <2>3. RecordsOK(spec, records)
    BY <1>1 DEF ThisRun
  <2> QED
    BY <2>1, <2>2, <2>3, IsSeqLen DEF RecordsOK
<1> QED
  BY <1>3, <1>4

\* Whatever runs came before and filled the memo, the reference of a record
\* was measured on what its quality was measured on, without a budget.
THEOREM ReferencesAlwaysComparable == Spec => []ReferencesAreComparable
<1>1. IInv => ReferencesAreComparable
  <2> SUFFICES ASSUME IInv, NEW i \in DOMAIN Taken, NEW j \in DOMAIN Taken[i].records,
                      Taken[i].records[j].reference # NotMeasured
               PROVE  LET r == Taken[i].records[j]
                      IN /\ r.reference.of.cap = Unbounded
                         /\ \A field \in {"weights", "prompt", "metric", "chunk"} :
                              r.reference.of[field] = r.value.of[field]
    BY DEF ReferencesAreComparable
  <2> DEFINE r == Taken[i].records[j]
             s == Taken[i].spec
  <2>1. RecordOK(s, j, r)
    BY TakenOK
  <2> HIDE DEF r, s
  <2>2. /\ MeasuredFor(s, r.seed, r.value)
        /\ r.reference.of = Measure(s, Weights(s, r.seed), r.seed, Unbounded)
    BY <2>1 DEF RecordOK, r
  <2>3. r.value.of = Measure(s, Weights(s, r.seed), r.seed, Budget(s))
    BY <2>2 DEF MeasuredFor
  <2>4. /\ r.reference.of.cap = Unbounded
        /\ \A field \in {"weights", "prompt", "metric", "chunk"} :
             r.reference.of[field] = r.value.of[field]
    BY <2>2, <2>3, MeasureUnbounded
  <2> QED
    BY <2>4 DEF r
<1> QED
  BY <1>1, AlwaysIInv, PTL

\* Repetition j of a run is measured as a run of its own would be: with its
\* seed, on the weights of that seed, and under the budget of the run, whatever
\* the repetitions before it did to theirs.
THEOREM RepetitionsAlwaysStandAlone == Spec => []RepetitionsStandAlone
<1>1. IInv => RepetitionsStandAlone
  <2> SUFFICES ASSUME IInv, NEW i \in DOMAIN Taken, NEW j \in DOMAIN Taken[i].records
               PROVE  LET r == Taken[i].records[j]
                          s == Taken[i].spec
                      IN /\ r.seed = s.seed + j - 1
                         /\ r.weights = Weights(s, r.seed)
                         /\ r.value # NotMeasured =>
                              /\ r.value.of.weights = Weights(s, r.seed)
                              /\ r.value.of.prompt = r.seed
                              /\ r.value.of.cap = Budget(s)
    BY DEF RepetitionsStandAlone
  <2> DEFINE r == Taken[i].records[j]
             s == Taken[i].spec
  <2>1. RecordOK(s, j, r)
    BY TakenOK
  <2> HIDE DEF r, s
  <2>2. ASSUME r.value # NotMeasured
        PROVE  /\ r.value.of.weights = Weights(s, r.seed)
               /\ r.value.of.prompt = r.seed
               /\ r.value.of.cap = Budget(s)
    <3>1. r.value.of = Measure(s, Weights(s, r.seed), r.seed, Budget(s))
      BY <2>1, <2>2 DEF RecordOK, MeasuredFor
    <3> QED
      BY <3>1 DEF Measure
  <2>3. r.seed = s.seed + j - 1 /\ r.weights = Weights(s, r.seed)
    BY <2>1 DEF RecordOK
  <2> QED
    BY <2>2, <2>3 DEF r, s
<1> QED
  BY <1>1, AlwaysIInv, PTL

\* When an experiment is over by itself, every run is an outcome or a failure,
\* and the outcomes have been written.
THEOREM EveryRunAlwaysAccounted == Spec => []EveryRunIsAccounted
<1>1. IInv => EveryRunIsAccounted
  <2> SUFFICES ASSUME IInv, pc \in {"returned", "raised"}
               PROVE  /\ Done = DOMAIN runs
                      /\ Len(outcomes) + Len(failures) = Len(runs)
                      /\ \A i, j \in DOMAIN outcomes :
                           i < j => outcomes[i].index < outcomes[j].index
                      /\ pc = "raised" <=> failures # <<>>
                      /\ files = outcomes
    BY DEF EveryRunIsAccounted, Done
  <2>1. Place /\ OutcomesOK /\ Accounts
    BY DEF IInv
  <2>2. index = Len(runs) + 1 /\ Len(runs) \in Nat /\ DOMAIN runs = 1 .. Len(runs)
    BY <2>1, RunFacts DEF Place, Closing
  <2>3. Done = DOMAIN runs /\ Len(outcomes) + Len(failures) = Len(runs)
    BY <2>1, <2>2 DEF Accounts
  <2>4. DOMAIN outcomes = 1 .. Len(outcomes)
    BY <2>1, IsSeqLen DEF OutcomesOK
  <2>5. \A i, j \in DOMAIN outcomes : i < j => outcomes[i].index < outcomes[j].index
    BY <2>1, <2>4 DEF Accounts
  <2>6. (pc = "raised" <=> failures # <<>>) /\ files = outcomes
    BY <2>1 DEF Accounts
  <2> QED
    BY <2>3, <2>5, <2>6
<1> QED
  BY <1>1, AlwaysIInv, PTL

\* An outcome describes every repetition of its run: what its averages leave
\* out is a problem it reports, and its differences pair figures of one seed.
THEOREM AggregatesAreAlwaysHonest == Spec => []AggregatesAreHonest
<1>1. Init => IInv /\ HonestInv
  BY InitInv, HonestInit
<1>2. IInv /\ HonestInv /\ [Next]_vars => IInv' /\ HonestInv'
  BY StepInv, HonestStep
<1>3. IInv /\ HonestInv => AggregatesAreHonest
  <2> SUFFICES ASSUME IInv, HonestInv, NEW i \in DOMAIN outcomes
               PROVE  LET o == outcomes[i] IN
                      /\ Len(o.records) = runs[o.index].repetitions
                      /\ Len(o.figures) + Cardinality({j \in DOMAIN o.records :
                                o.records[j].value = NotMeasured
                                  \/ ~o.records[j].value.finite}) = Len(o.records)
                      /\ Len(o.figures) < Len(o.records) => o.problems # {}
                      /\ \A j \in DOMAIN o.deltas :
                           o.deltas[j].value.of.prompt = o.deltas[j].reference.of.prompt
                      /\ o.problems = {} => Len(o.deltas) = Len(o.records)
    BY DEF AggregatesAreHonest
  <2> DEFINE o == outcomes[i]
  <2>1. i \in 1 .. Len(outcomes)
    BY IsSeqLen DEF IInv, OutcomesOK
  <2>2. OutcomeOK(o) /\ RecordsOK(runs[o.index], o.records)
    BY <2>1 DEF HonestInv, IInv, OutcomesOK
  <2> HIDE DEF o
  <2> QED
    BY <2>2, OutcomeIsHonest DEF o, OutcomeOK
<1> QED
  BY <1>1, <1>2, <1>3, PTL DEF Spec
=============================================================================
