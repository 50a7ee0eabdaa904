--------------------------- MODULE FactorEvidence ---------------------------
(* The research chain of one factor.                                        *)
(* The evaluator scores rows out of sample, a null control and a baseline   *)
(* judge its predictions, a bundle binds the four artifacts, and a          *)
(* validator decides from the result alone, from the result with the bundle *)
(* named, or from the bundle's evidence.  Every builder is pure, and the    *)
(* working set holds the latest artifact of each kind.                      *)
(* A SHA-256 hash is modelled by the payload that is hashed, without the    *)
(* run ids the code leaves out of it.                                       *)
EXTENDS Naturals, FiniteSets

CONSTANTS
  Absent,            \* no artifact of this kind yet
  Runs,            \* run ids, which the callers choose
  Specs,           \* factor specs: [factor, definition, supported]
  Samples,         \* inputs: [rows, good, beats], rows of [ts, cutoff, period, value, y, usable]
  MinTrainPeriods, \* min_train_periods
  MinTestN,        \* min_test_n
  ResearchPolicies,\* thresholds of both validation policies: [eligible, folds, shuffles]
  MaxRebuilds      \* BOUND: how often a file of the working set is replaced

VARIABLES
  result,          \* FactorResult
  oos,             \* FactorOOSPredictionArtifact
  nulled,          \* FactorNullControlEvidence
  base,            \* FactorBaselineRelativeEvidence
  evidence,        \* FactorValidationEvidenceBundle
  decision,        \* ValidationDecision
  rebuilds         \* replaced files so far

researchVars == <<result, oos, nulled, base, evidence, decision>>

\* Writing a file: the first time is free, a replacement counts.
Replace(old, new) ==
  /\ new # old
  /\ old # Absent => rebuilds < MaxRebuilds
  /\ rebuilds' = IF old = Absent THEN rebuilds ELSE rebuilds + 1

-----------------------------------------------------------------------------
(* Evaluator: expanding folds over the periods *)

\* A row without the factor's value, without a label or not eligible for the model
\* is left out.
Eligible(sample) == {r \in sample.rows : r.value # Absent /\ r.usable /\ r.y # Absent}

\* Every row's features were cut off before its prediction, the missing ones' too.
PointInTime(sample) == \A r \in sample.rows : r.cutoff < r.ts

Periods(sample) == {r.period : r \in Eligible(sample)}
Train(sample, p) == {r \in Eligible(sample) : r.period < p}
Test(sample, p) == {r \in Eligible(sample) : r.period = p}

\* The periods after the first MinTrainPeriods that have enough rows.
TestPeriods(sample) ==
  {p \in Periods(sample) :
     /\ Cardinality({q \in Periods(sample) : q < p}) >= MinTrainPeriods
     /\ Cardinality(Test(sample, p)) >= MinTestN
     /\ Train(sample, p) # {}}

\* A period that begins before the training rows end stops the whole evaluation.
TrainPrecedesTest(sample) ==
  \A p \in TestPeriods(sample) :
    \A a \in Train(sample, p), b \in Test(sample, p) : a.ts < b.ts

\* No model is fitted to rows of one label.
Folds(sample) ==
  {p \in TestPeriods(sample) : Cardinality({r.y : r \in Train(sample, p)}) = 2}

Predictions(sample) == UNION {Test(sample, p) : p \in Folds(sample)}

\* What the folds of a result and the folds of predictions are compared by.
FoldShape(sample) == [p \in Folds(sample) |-> Cardinality(Test(sample, p))]

Evaluates(spec, sample) ==
  spec.supported /\ PointInTime(sample) /\ TrainPrecedesTest(sample)

Result(spec, sample, run) == [spec |-> spec, sample |-> sample, run |-> run]

\* The result's hash: spec, counts, folds and predictions, not the run.
ResultHash(r) == [spec |-> r.spec, sample |-> r.sample]

\* The artifact names the spec by its hash and holds the predictions.
OOSArtifact(spec, sample, run) == [spec |-> spec, sample |-> sample, run |-> run]

OOSHash(o) ==
  [spec |-> o.spec, predictions |-> Predictions(o.sample), beats |-> o.sample.beats]

-----------------------------------------------------------------------------
(* Null control and baseline *)

\* low: the shuffled labels' 95th percentile stays below the policy's maximum.
NullControl(o, shuffles, low, run) ==
  [spec |-> o.spec, oos |-> OOSHash(o), oosRun |-> o.run, shuffles |-> shuffles,
   n |-> Cardinality(Predictions(o.sample)),
   low |-> low /\ Predictions(o.sample) # {}, run |-> run]

NullHash(n) ==
  [spec |-> n.spec, oos |-> n.oos, shuffles |-> n.shuffles, n |-> n.n, low |-> n.low]

\* The result is matched by identity, run and the shape of its folds; scores of no
\* predictions at all raise.
Comparable(r, o) ==
  /\ r.spec.factor = o.spec.factor
  /\ r.run = o.run
  /\ FoldShape(r.sample) = FoldShape(o.sample)
  /\ Predictions(o.sample) # {}

Baseline(r, o, run) ==
  [spec |-> o.spec, factor |-> r.spec.factor, result |-> ResultHash(r),
   oos |-> OOSHash(o), source |-> r.run, n |-> Cardinality(Predictions(o.sample)),
   folds |-> Cardinality(Folds(r.sample)), beats |-> o.sample.beats, run |-> run]

BaseHash(b) ==
  [spec |-> b.spec, factor |-> b.factor, result |-> b.result, oos |-> b.oos,
   n |-> b.n, folds |-> b.folds, beats |-> b.beats]

-----------------------------------------------------------------------------
(* Evidence bundle *)

SameFactor(r, o, n, b) ==
  {o.spec.factor, n.spec.factor, b.factor} = {r.spec.factor}

\* Fault: the predictions are compared by their run only.
BindsByRun(r, o, n, b) ==
  /\ SameFactor(r, o, n, b)
  /\ n.spec = o.spec /\ b.spec = o.spec
  /\ b.result = ResultHash(r)
  /\ r.run = o.run /\ n.oosRun = o.run /\ b.source = r.run
  /\ {n.n, b.n} = {Cardinality(Predictions(o.sample))}
  /\ b.folds = Cardinality(Folds(r.sample))

\* The four artifacts are of one chain, as far as their hashes and runs tell.
Binds(r, o, n, b) ==
  /\ SameFactor(r, o, n, b)
  /\ n.spec = o.spec /\ b.spec = o.spec
  /\ n.oos = OOSHash(o) /\ b.oos = OOSHash(o)
  /\ b.result = ResultHash(r)
  /\ r.run = o.run /\ n.oosRun = o.run /\ b.source = r.run
  /\ {n.n, b.n} = {Cardinality(Predictions(o.sample))}
  /\ b.folds = Cardinality(Folds(r.sample))

Bundle(r, o, n, b) ==
  [factor |-> r.spec.factor, spec |-> o.spec, result |-> ResultHash(r),
   resultRun |-> r.run, oos |-> OOSHash(o), oosRun |-> o.run,
   nulled |-> NullHash(n), nullRun |-> n.run, base |-> BaseHash(b), baseRun |-> b.run]

BundleHash(e) ==
  [factor |-> e.factor, spec |-> e.spec, result |-> e.result, oos |-> e.oos,
   nulled |-> e.nulled, base |-> e.base]

-----------------------------------------------------------------------------
(* Validators *)

\* good stands for the thresholds of rates and metrics; no predictions, no metrics.
MeetsThresholds(policy, r) ==
  /\ Cardinality(Eligible(r.sample)) >= policy.eligible
  /\ Cardinality(Folds(r.sample)) >= policy.folds
  /\ r.sample.good /\ Predictions(r.sample) # {}

ResearchStatus(passes) == IF passes THEN "PASS" ELSE "FAIL"

\* The evaluator raises on a temporal failure, so that its results always pass here.
ResearchDecision(status, r, policy, hash) ==
  [factor |-> r.spec.factor, research |-> status, temporal |-> "PASS",
   result |-> ResultHash(r), run |-> r.run, policy |-> policy, evidence |-> hash]

\* Which result the bundle is about.
AboutResult(e, r) ==
  /\ e.factor = r.spec.factor
  /\ e.result = ResultHash(r)
  /\ e.resultRun = r.run

\* The evidence judged is the evidence the bundle was built from.
HoldsEvidence(e, r, n, b) ==
  /\ {n.spec.factor, b.factor} = {r.spec.factor}
  /\ {n.spec, b.spec} = {e.spec}
  /\ {n.oos, b.oos} = {e.oos}
  /\ n.oosRun = e.oosRun /\ n.run = e.nullRun /\ NullHash(n) = e.nulled
  /\ b.result = ResultHash(r) /\ b.source = r.run
  /\ b.run = e.baseRun /\ BaseHash(b) = e.base

\* The evidence alone decides: none of the result's thresholds is asked.
EvidenceConvinces(policy, n, b) ==
  n.shuffles >= policy.shuffles /\ n.low /\ b.beats

-----------------------------------------------------------------------------
(* Operations on the working set *)

\* evaluate_factor_with_oos_predictions gives both, evaluate_factor the result only.
Evaluate == \E spec \in Specs, sample \in Samples, run \in Runs :
  /\ Evaluates(spec, sample)
  /\ Replace(result, Result(spec, sample, run))
  /\ result' = Result(spec, sample, run)
  /\ oos' \in {oos, OOSArtifact(spec, sample, run)}
  /\ UNCHANGED <<nulled, base, evidence, decision>>

\* The caller picks the shuffles and the seed, and with it the percentile.
ControlNull == \E policy \in ResearchPolicies, low \in BOOLEAN, run \in Runs :
  /\ oos # Absent
  /\ Replace(nulled, NullControl(oos, policy.shuffles, low, run))
  /\ nulled' = NullControl(oos, policy.shuffles, low, run)
  /\ UNCHANGED <<result, oos, base, evidence, decision>>

CompareBaseline == \E run \in Runs :
  /\ result # Absent /\ oos # Absent
  /\ Comparable(result, oos)
  /\ Replace(base, Baseline(result, oos, run))
  /\ base' = Baseline(result, oos, run)
  /\ UNCHANGED <<result, oos, nulled, evidence, decision>>

BuildEvidence ==
  /\ nulled # Absent /\ base # Absent
  /\ Binds(result, oos, nulled, base)
  /\ Replace(evidence, Bundle(result, oos, nulled, base))
  /\ evidence' = Bundle(result, oos, nulled, base)
  /\ UNCHANGED <<result, oos, nulled, base, decision>>

Decided(d) ==
  /\ Replace(decision, d)
  /\ decision' = d
  /\ UNCHANGED <<result, oos, nulled, base, evidence>>

ValidateResult == \E policy \in ResearchPolicies :
  /\ result # Absent
  /\ Decided(ResearchDecision(ResearchStatus(MeetsThresholds(policy, result)), result, policy, Absent))

\* The bundle is named, and nothing in it judged.
ValidateWithBundle == \E policy \in ResearchPolicies :
  /\ evidence # Absent
  /\ AboutResult(evidence, result)
  /\ Decided(ResearchDecision(ResearchStatus(MeetsThresholds(policy, result)), result, policy,
                              BundleHash(evidence)))

ValidateEvidence == \E policy \in ResearchPolicies :
  /\ evidence # Absent
  /\ AboutResult(evidence, result)
  /\ HoldsEvidence(evidence, result, nulled, base)
  /\ Decided(ResearchDecision(ResearchStatus(EvidenceConvinces(policy, nulled, base)), result,
                              policy, BundleHash(evidence)))

ResearchInit ==
  result = Absent /\ oos = Absent /\ nulled = Absent /\ base = Absent /\ evidence = Absent
  /\ decision = Absent

ResearchNext ==
  \/ Evaluate \/ ControlNull \/ CompareBaseline \/ BuildEvidence
  \/ ValidateResult \/ ValidateWithBundle \/ ValidateEvidence

-----------------------------------------------------------------------------
(* Property *)

\* The evidence a research decision names, followed back through the hashes: the null
\* control and the baseline judged one set of predictions of one definition, and the
\* baseline compared the result the decision is about.
OneEvaluation(d) ==
  LET e == d.evidence IN
  /\ d.result = e.result /\ e.base.result = e.result
  /\ {e.nulled.oos, e.base.oos} = {e.oos}
  /\ {e.oos.spec, e.nulled.spec, e.base.spec} = {e.spec}
  /\ {e.factor, e.spec.factor, e.base.factor} = {d.factor}
=============================================================================
