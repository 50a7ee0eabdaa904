-------------------------- MODULE ProspectiveCohort --------------------------
(***************************************************************************)
(* What is made of the prospective store: rows of truth, which are merged  *)
(* into the authoritative ledger; features of its labelled markets, in     *)
(* files of their own; and a cohort of observations, whose size triggers   *)
(* checkpoints.                                                            *)
(*                                                                         *)
(* They are programs of their own, started by an operator in any order and *)
(* communicating through files: fills may be listed late, a recording may  *)
(* be closed late or turn out ambiguous, and a program may raise or die    *)
(* between two of its writes.                                              *)
(***************************************************************************)
EXTENDS ProspectiveSync

CONSTANTS
  Baseline,     \* the rows of the ledger before the prospective phase
  OpenMarkets,  \* the markets whose recording goes on
  CohortStart,  \* PRIMARY_COHORT_START_MS
  Checkpoints,  \* CHECKPOINTS
  NoFile,       \* no file yet
  MaxBuilds,    \* bound on the feature builds
  MaxChecks     \* bound on the checkpoint runs

ASSUME CohortAssumption == Checkpoints \subseteq Nat \ {0}

VARIABLES
  recorded,     \* the recording of a market: "open", "closed", "empty", "ambiguous"
  derived,      \* the prospective rows and source selection, or NoFile
  ledger,       \* the authoritative rows
  baseline,     \* baseline_truth_snapshot.json, or NoFile
  build,        \* the features in the making: the next write, the rows read
  featureFile,  \* the newest pretrade_features_*.parquet, or NoFile
  provFile,     \* the newest feature_provenance_*.parquet, or NoFile
  check,        \* the checkpoint run: its next statement and what it read
  cohort,       \* the observations, in order
  triggered,    \* prospective_checkpoint_state.json
  reports,      \* how often a checkpoint was reported unasked
  builds, checks

built == <<recorded, derived, ledger, baseline>>
cohortVars == <<syncVars, built, build, featureFile, provFile, check, cohort, triggered,
                reports, builds, checks>>

NoBuild == [pc |-> "idle", rows |-> <<>>, features |-> {}]
NoCheck == [pc |-> "idle", features |-> {}, prov |-> {}, point |-> 0, due |-> {}]

CohortInit ==
  /\ SyncInit
  /\ recorded = [m \in Markets |-> IF m \in OpenMarkets THEN "open" ELSE "closed"]
  /\ derived = NoFile /\ ledger = Baseline /\ baseline = NoFile
  /\ build = NoBuild /\ featureFile = NoFile /\ provFile = NoFile
  /\ check = NoCheck /\ cohort = <<>> /\ triggered = {} /\ reports = [p \in Checkpoints |-> 0]
  /\ builds = 0 /\ checks = 0

Crashes == faults < MaxFaults /\ faults' = faults + 1
SyncRest == UNCHANGED <<listed, store, pc, call, cut, syncs>>

-----------------------------------------------------------------------------
(* Derivation and merge                                                    *)

\* The recorder's last file is closed, with or without data of the market, or
\* another session overlapped with it.
Record(m) ==
  /\ recorded[m] = "open"
  /\ \E r \in {"closed", "empty", "ambiguous"} : recorded' = [recorded EXCEPT ![m] = r]
  /\ UNCHANGED <<syncVars, derived, ledger, baseline, build, featureFile, provFile, check,
                 cohort, triggered, reports, builds, checks>>

\* ProspectiveCoverageSelector.select: one session for each source, and closed
\* files of it; and what the coverage provider of these files finds.
UniqueSession(m) == recorded[m] # "ambiguous"
HasClosedFiles(m) == recorded[m] # "open"
Selects(m) == HasWindow(m) /\ UniqueSession(m) /\ HasClosedFiles(m)
Found(m) == IF recorded[m] = "empty" THEN "none" ELSE "some"
Coverage == [m \in Markets |-> IF Selects(m) THEN Found(m) ELSE "unknown"]

\* build_prospective_derived_rows
Derive ==
  /\ pc = "idle" /\ \E f \in Fills : Stored(f)
  /\ derived' = [rows |-> LedgerRows(LoadFills(raw), Coverage),
                 selected |-> {m \in Markets : Selects(m)}]
  /\ UNCHANGED <<syncVars, recorded, ledger, baseline, build, featureFile, provFile, check,
                 cohort, triggered, reports, builds, checks>>

\* init_prospective_baseline: the snapshot is made once.
InitBaseline ==
  /\ baseline = NoFile /\ baseline' = ledger
  /\ UNCHANGED <<syncVars, recorded, derived, ledger, build, featureFile, provFile, check,
                 cohort, triggered, reports, builds, checks>>

Semantic(row) == <<row.reason, row.y30, row.eligible>>
Invariant ==
  \A m \in DOMAIN baseline : m \in DOMAIN ledger /\ Semantic(ledger[m]) = Semantic(baseline[m])

\* merge_prospective_rows and atomic_write_parquet: nothing is written unless
\* every row is new or what it was.
NoConflicts(rows) == {}                       \* Fault: the newer row is taken
Conflicts(rows) == {m \in DOMAIN rows \cap DOMAIN ledger : rows[m] # ledger[m]}
Merge ==
  /\ derived # NoFile /\ baseline # NoFile /\ Invariant
  /\ DOMAIN derived.rows \cap DOMAIN baseline = {} /\ Conflicts(derived.rows) = {}
  /\ ledger' = [m \in DOMAIN ledger \cup DOMAIN derived.rows |->
                  IF m \in DOMAIN derived.rows THEN derived.rows[m] ELSE ledger[m]]
  /\ UNCHANGED <<syncVars, recorded, derived, baseline, build, featureFile, provFile, check,
                 cohort, triggered, reports, builds, checks>>

-----------------------------------------------------------------------------
(* build_prospective_pretrade_features                                     *)

Labelled(row) == row.reason = "none" /\ row.opp # NoEpisode /\ row.eligible

\* gate_coverage
PassesGate(m) == recorded[m] = "closed"

\* assemble_feature_row: the prediction is at the end of the first opposite;
\* the row is eligible when the sources cover what comes before.
FeatureOf(m) ==
  [market |-> m, at |-> ledger[m].opp.last, y30 |-> ledger[m].y30,
   eligible |-> m \in derived.selected /\ PassesGate(m)]

StartBuild ==
  /\ build.pc = "idle" /\ builds < MaxBuilds /\ builds' = builds + 1
  /\ derived # NoFile /\ baseline # NoFile /\ Invariant
  /\ DOMAIN derived.rows \subseteq DOMAIN ledger
  /\ LET features == {FeatureOf(m) : m \in {n \in DOMAIN derived.rows : Labelled(ledger[n])}} IN
     /\ features # {}
     /\ build' = [pc |-> "features", rows |-> ledger, features |-> features]
  /\ UNCHANGED <<syncVars, built, featureFile, provFile, check, cohort, triggered, reports, checks>>

\* The ledger's hash is compared, then three files are written, and the hash
\* is compared again, which comes too late to take them back.
WriteFeatures ==
  /\ build.pc = "features"
  /\ IF build.rows # ledger
     THEN build' = NoBuild /\ UNCHANGED featureFile
     ELSE featureFile' = build.features /\ build' = [build EXCEPT !.pc = "provenance"]
  /\ UNCHANGED <<syncVars, built, provFile, check, cohort, triggered, reports, builds, checks>>

WriteProvenance ==
  /\ build.pc = "provenance"
  /\ provFile' = {[market |-> f.market, at |-> f.at] : f \in build.features}
  /\ build' = NoBuild
  /\ UNCHANGED <<syncVars, built, featureFile, check, cohort, triggered, reports, builds, checks>>

BuildDies ==
  /\ build.pc # "idle" /\ Crashes /\ build' = NoBuild
  /\ SyncRest
  /\ UNCHANGED <<built, featureFile, provFile, check, cohort, triggered, reports, builds, checks>>

-----------------------------------------------------------------------------
(* run_prospective_checkpoint                                              *)

\* The newest feature and provenance files, each by itself.  With a point it
\* is a run for that point, manual or not.
StartCheck(point, manual) ==
  /\ check.pc = "idle" /\ checks < MaxChecks /\ checks' = checks + 1
  /\ featureFile # NoFile /\ provFile # NoFile /\ baseline # NoFile /\ Invariant
  /\ check' = [NoCheck EXCEPT !.pc = IF manual THEN "manual" ELSE "upsert", !.point = point,
                              !.features = featureFile, !.prov = provFile]
  /\ UNCHANGED <<syncVars, built, build, featureFile, provFile, cohort, triggered, reports, builds>>

\* lineage_audit: rows of provenance, none of them later than the prediction
LineagePasses(f, prov) ==
  /\ \E p \in prov : p.market = f.market
  /\ \A p \in prov : p.market = f.market => p.at <= f.at

\* CohortManifest.upsert keeps the first observation of an identity.
Observation(f) ==
  [market |-> f.market, at |-> f.at, covered |-> LineagePasses(f, check.prov)]
IsKnown(o) == \E i \in 1..Len(cohort) : cohort[i].market = o.market /\ cohort[i].at = o.at
Candidates ==
  {Observation(f) : f \in {g \in check.features : g.eligible /\ Of[g.market].start >= CohortStart}}
Inserted == {o \in Candidates : ~IsKnown(o)}
Upsert ==
  /\ check.pc \in {"upsert", "manual"}
  /\ cohort' = cohort \o SetToSeq(Inserted)
  /\ check' = [check EXCEPT !.pc = IF @ = "manual" THEN "report" ELSE "trigger",
                            !.due = IF check.pc = "manual" THEN {check.point} ELSE {}]
  /\ UNCHANGED <<syncVars, built, build, featureFile, provFile, triggered, reports, builds, checks>>

\* Fully covered markets
CoveredMarkets == {cohort[i].market : i \in {j \in 1..Len(cohort) : cohort[j].covered}}

\* trigger_checkpoints: those that are due are on record before they are
\* reported; a run for one point reports that point instead of them.
DueAgain == {p \in Checkpoints : Cardinality(CoveredMarkets) >= p}    \* Fault: reported again
DuePoints == {p \in Checkpoints \ triggered : Cardinality(CoveredMarkets) >= p}
Trigger ==
  /\ check.pc = "trigger"
  /\ triggered' = triggered \cup DuePoints
  /\ check' = [check EXCEPT !.pc = "report",
                            !.due = IF check.point # 0 THEN {check.point} ELSE DuePoints]
  /\ UNCHANGED <<syncVars, built, build, featureFile, provFile, cohort, reports, builds, checks>>

Report ==
  /\ check.pc = "report" /\ check.due # {}
  /\ reports' = IF check.point # 0 THEN reports ELSE [reports EXCEPT ![Min(check.due)] = @ + 1]
  /\ check' = [check EXCEPT !.due = @ \ {Min(@)}]
  /\ UNCHANGED <<syncVars, built, build, featureFile, provFile, cohort, triggered, builds, checks>>

EndCheck ==
  /\ check.pc = "report" /\ check.due = {} /\ check' = NoCheck
  /\ UNCHANGED <<syncVars, built, build, featureFile, provFile, cohort, triggered, reports, builds, checks>>

CheckDies ==
  /\ check.pc # "idle" /\ Crashes /\ check' = NoCheck
  /\ SyncRest
  /\ UNCHANGED <<built, build, featureFile, provFile, cohort, triggered, reports, builds, checks>>

-----------------------------------------------------------------------------
Sync == SyncNext /\ UNCHANGED <<built, build, featureFile, provFile, check, cohort, triggered,
                                reports, builds, checks>>
Truth == (\E m \in Markets : Record(m)) \/ Derive \/ InitBaseline \/ Merge
Build == StartBuild \/ WriteFeatures \/ WriteProvenance \/ BuildDies
Check == (\E p \in Checkpoints, manual \in BOOLEAN : StartCheck(p, manual)) \/ StartCheck(0, FALSE)
           \/ Upsert \/ Trigger \/ Report \/ EndCheck \/ CheckDies
CohortNext == Sync \/ Truth \/ Build \/ Check

CohortSpec == CohortInit /\ [][CohortNext]_cohortVars

-----------------------------------------------------------------------------
(* Every derived row agrees with the fills of its market in the store, each *)
(* counted once, also after a cut append was written again.                 *)
RowsCountOnce ==
  [][derived' # derived =>
       \A m \in DOMAIN derived'.rows :
         AgreesWith(derived'.rows[m], {f \in Fills : Stored(f) /\ f.market = m})]_cohortVars

(* What was published stays true: the snapshot's rows are in the ledger, the *)
(* newest features, and all that the cohort observed, are of the rows it has *)
(* now, although the ledger may grow while features are made of it and late  *)
(* fills may change what is derived.                                         *)
TruthKept ==
  /\ baseline # NoFile => \A m \in DOMAIN baseline : m \in DOMAIN ledger /\ ledger[m] = baseline[m]
  /\ featureFile # NoFile => \A f \in featureFile :
       ledger[f.market].opp.last = f.at /\ ledger[f.market].y30 = f.y30
  /\ \A i \in 1..Len(cohort) : ledger[cohort[i].market].opp.last = cohort[i].at

(* A checkpoint is reported unasked at most once, whatever crashes, and only *)
(* with as many markets as it stands for; no market counts twice, whether    *)
(* markets are counted (run_prospective_checkpoint) or observations          *)
(* (prospective_status).                                                     *)
CheckpointsOnce ==
  /\ \A p \in Checkpoints : reports[p] <= 1
  /\ \A p \in Checkpoints : reports[p] = 1 => Cardinality(CoveredMarkets) >= p
  /\ \A i, j \in 1..Len(cohort) : cohort[i].market = cohort[j].market => i = j
=============================================================================
