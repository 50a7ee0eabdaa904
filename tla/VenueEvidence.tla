--------------------------- MODULE VenueEvidence ---------------------------
(* The venue evidence chain and the production gate v2.                     *)
(* A telemetry bundle is imported, measured against a provenance artifact,  *)
(* qualified, attested, its signature verified and its coverage evaluated;  *)
(* a policy decides, a bridge joins the decision with the factor registry,  *)
(* and the gate gives its verdict.  Every builder is pure and every file    *)
(* holds the latest artifact of its kind, so that after any rebuild the     *)
(* working set mixes artifacts of different rounds.                         *)
(* A SHA-256 hash is modelled by the payload that is hashed, without the    *)
(* fields the code leaves out of it.                                        *)
EXTENDS FactorEvidence, Sequences

CONSTANTS
  Raws,          \* bundles: [manifest |-> [target, intents], obs |-> [target, intents, done, sound]]
  Provs,         \* execution provenance artifacts: [target, ready, shadow]
  Collectors,    \* collector identities (id, version, venue, mode)
  Keys,          \* signing keys with their identity (signer, key id, material)
  Policies,      \* execution policies: [source |-> allowed collectors, keys |-> trusted <<key, collector>>]
  Registered     \* the targets whose factor the registry record describes

VARIABLES
  raw,           \* the bundle file
  bundle,        \* the imported bundle [raw, run]
  prov,          \* the execution provenance artifact
  measured,      \* MeasuredVenueExecutionArtifact
  qual,          \* MeasuredVenueSourceQualification
  att,           \* MeasuredVenueAcquisitionAttestation
  ver,           \* MeasuredVenueEd25519Verification
  cov,           \* MeasuredVenueBundleCoverageArtifact
  dec,           \* ExecutionValidationDecisionV2
  bridge,        \* ExecutionGovernanceBridgeArtifactV2
  verdict,       \* ProductionEligibilityDecisionV2
  record         \* FactorRegistryRecord [status, transitions]

venueVars == <<raw, bundle, prov, measured, qual, att, ver, cov, dec, bridge,
               verdict, record, researchVars, rebuilds>>

SourcePolicies == {p.source : p \in Policies}
KeyPolicies == {p.keys : p \in Policies}

-----------------------------------------------------------------------------
(* Telemetry bundle and its coverage *)

Import(r, run) == [raw |-> r, run |-> run]

\* The declared intents are exactly the observed ones, all of the target.
CoverageBlocked(r) ==
  \/ r.obs.intents # r.manifest.intents
  \/ r.obs.target # r.manifest.target

CoverageStatus(r) ==
  CASE CoverageBlocked(r) -> "COVERAGE_BLOCKED"
    [] ~CoverageBlocked(r) /\ r.obs.done # r.obs.intents -> "COVERAGE_INCOMPLETE"
    [] OTHER -> "COVERAGE_COMPLETE"

BuildCoverage(b) ==
  [raw |-> b.raw, manifest |-> b.raw.manifest, status |-> CoverageStatus(b.raw)]

\* The artifact belongs to the import, and the import to the bytes given.
CoverageVerified(bytes, c, b) ==
  /\ b.raw = bytes
  /\ c.raw = b.raw
  /\ c.manifest = b.raw.manifest
  /\ c.status = CoverageStatus(b.raw)

-----------------------------------------------------------------------------
(* Measured execution *)

\* sound stands for the checks on identifiers, time order and fill accounting.
MeasuredStatus(p, obs) ==
  IF p.ready /\ obs.target = p.target /\ obs.sound THEN "READY" ELSE "BLOCKED"

BuildMeasured(p, b, run) ==
  [run |-> run, target |-> p.target, status |-> MeasuredStatus(p, b.raw.obs),
   prov |-> p, source |-> b, obs |-> b.raw.obs]

\* The hash leaves out the evidence run and the source run.
MeasuredHash(m) ==
  [target |-> m.target, status |-> m.status, prov |-> m.prov,
   raw |-> m.source.raw, obs |-> m.obs]

MeasuredVerified(m, p) ==
  /\ m.prov = p
  /\ m.target = p.target
  /\ m.status = MeasuredStatus(p, m.obs)

-----------------------------------------------------------------------------
(* Source qualification *)

Qualify(m, rules, collector) ==
  [evidenceRun |-> m.run, evidence |-> MeasuredHash(m), sourceRun |-> m.source.run,
   raw |-> m.source.raw, collector |-> collector, policy |-> rules,
   status |-> IF m.status = "READY" /\ collector \in rules
              THEN "QUALIFIED" ELSE "BLOCKED"]

QualificationVerified(q, m, rules) ==
  /\ m.status = "READY"
  /\ q.evidenceRun = m.run
  /\ q.evidence = MeasuredHash(m)
  /\ q.sourceRun = m.source.run
  /\ q.raw = m.source.raw
  /\ q.policy = rules
  /\ q.collector \in rules
  /\ q.status = "QUALIFIED"

-----------------------------------------------------------------------------
(* Attestation and signature *)

\* What the signer signs.
AttestedPayload(q, key) == [qual |-> q, key |-> key]

Attest(q, key, signature) ==
  [qual |-> q, key |-> key, signature |-> signature,
   status |-> IF q.status = "QUALIFIED"
              THEN "PENDING_SIGNATURE_VERIFICATION" ELSE "BLOCKED"]

AttestationVerified(a, q) ==
  /\ q.status = "QUALIFIED"
  /\ a.qual = q
  /\ a.status = "PENDING_SIGNATURE_VERIFICATION"

SignatureStatus(a, q, rules) ==
  IF /\ AttestationVerified(a, q)
     /\ <<a.key, a.qual.collector>> \in rules
     /\ a.signature = [by |-> a.key, over |-> AttestedPayload(a.qual, a.key)]
  THEN "SIGNATURE_VERIFIED" ELSE "BLOCKED"

VerifySignature(a, q, rules) ==
  [att |-> a, qual |-> q, policy |-> rules, status |-> SignatureStatus(a, q, rules)]

SignatureVerified(v, a, q, rules) ==
  /\ v.att = a
  /\ v.qual = q
  /\ v.policy = rules
  /\ v.status = SignatureStatus(a, q, rules)

-----------------------------------------------------------------------------
(* The execution policy's decision *)

\* Fault: the sources are compared by hash, which leaves out the source run.
MeasuredFromBundleByHash(m, b) ==
  /\ m.source.raw = b.raw
  /\ m.obs = b.raw.obs
  /\ m.target = b.raw.manifest.target

MeasuredFromBundle(m, b) ==
  /\ m.source = b
  /\ m.obs = b.raw.obs
  /\ m.target = b.raw.manifest.target

\* Every check but that of the coverage's completeness.
Sound(rules, trusted, policy) ==
  /\ prov.ready
  /\ MeasuredVerified(measured, prov)
  /\ measured.status = "READY"
  /\ MeasuredFromBundle(measured, bundle)
  /\ rules = policy.source
  /\ QualificationVerified(qual, measured, rules)
  /\ AttestationVerified(att, qual)
  /\ trusted = policy.keys
  /\ SignatureVerified(ver, att, qual, trusted)
  /\ ver.status = "SIGNATURE_VERIFIED"
  /\ CoverageVerified(raw, cov, bundle)
  /\ cov.status # "COVERAGE_BLOCKED"

\* A failure outweighs what is still pending.
DecisionStatus(rules, trusted, policy) ==
  CASE ~Sound(rules, trusted, policy) -> "FAIL"
    [] Sound(rules, trusted, policy) /\ cov.status = "COVERAGE_INCOMPLETE" -> "PENDING"
    [] OTHER -> "PASS"

Decision(rules, trusted, policy) ==
  [status |-> DecisionStatus(rules, trusted, policy), target |-> prov.target,
   prov |-> prov, measured |-> MeasuredHash(measured), qual |-> qual, att |-> att,
   ver |-> ver, cov |-> cov, raw |-> bundle.raw,
   rules |-> rules, trusted |-> trusted, policy |-> policy]

-----------------------------------------------------------------------------
(* Registry, bridge and gate *)

LastTransition == record.transitions[Len(record.transitions)]

ResearchStands ==
  /\ record.transitions # <<>>
  /\ LastTransition.before = "CANDIDATE"
  /\ LastTransition.after = "VALIDATED"
  /\ LastTransition.evidence.decision.research = "PASS"
  /\ LastTransition.evidence.decision.temporal = "PASS"
  /\ LastTransition.evidence.decision.evidence # Absent

\* What bridge and gate both ask of the decision.
DecisionFits(policy) ==
  /\ record.status = "VALIDATED"
  /\ dec.target \in Registered
  /\ dec.policy = policy
  /\ dec.rules = policy.source
  /\ dec.trusted = policy.keys
  /\ dec.status = "PASS"

Bridge(policy) ==
  [status |-> IF DecisionFits(policy) /\ ResearchStands THEN "ACCEPTED" ELSE "BLOCKED",
   record |-> record, dec |-> dec]

\* The bridge must be the one its evaluation gives now.
GateStatus(policy) ==
  IF DecisionFits(policy) /\ bridge = Bridge(policy) /\ bridge.status = "ACCEPTED"
  THEN "ELIGIBLE" ELSE "BLOCKED"

Verdict(policy) ==
  [status |-> GateStatus(policy), record |-> record, bridge |-> bridge,
   dec |-> dec, policy |-> policy]

-----------------------------------------------------------------------------
(* Operations on the working set *)

Collect == \E r \in Raws :
  /\ Replace(raw, r)
  /\ raw' = r
  /\ UNCHANGED <<bundle, prov, measured, qual, att, ver, cov, dec, bridge, verdict, record, researchVars>>

ImportBundle == \E run \in Runs :
  /\ raw # Absent
  /\ Replace(bundle, Import(raw, run))
  /\ bundle' = Import(raw, run)
  /\ UNCHANGED <<raw, prov, measured, qual, att, ver, cov, dec, bridge, verdict, record, researchVars>>

BuildProvenance == \E p \in Provs :
  /\ Replace(prov, p)
  /\ prov' = p
  /\ UNCHANGED <<raw, bundle, measured, qual, att, ver, cov, dec, bridge, verdict, record, researchVars>>

Measure == \E run \in Runs :
  /\ prov # Absent /\ bundle # Absent
  /\ Replace(measured, BuildMeasured(prov, bundle, run))
  /\ measured' = BuildMeasured(prov, bundle, run)
  /\ UNCHANGED <<raw, bundle, prov, qual, att, ver, cov, dec, bridge, verdict, record, researchVars>>

QualifySource == \E rules \in SourcePolicies, c \in Collectors :
  /\ measured # Absent
  /\ Replace(qual, Qualify(measured, rules, c))
  /\ qual' = Qualify(measured, rules, c)
  /\ UNCHANGED <<raw, bundle, prov, measured, att, ver, cov, dec, bridge, verdict, record, researchVars>>

\* The signature is over this payload, or the one of the attestation replaced.
AttestAcquisition == \E key, by \in Keys :
  /\ qual # Absent
  /\ \E over \in {AttestedPayload(qual, key)}
               \cup (IF att = Absent THEN {} ELSE {AttestedPayload(att.qual, att.key)}) :
       LET new == Attest(qual, key, [by |-> by, over |-> over]) IN
         /\ Replace(att, new)
         /\ att' = new
  /\ UNCHANGED <<raw, bundle, prov, measured, qual, ver, cov, dec, bridge, verdict, record, researchVars>>

CheckSignature == \E trusted \in KeyPolicies :
  /\ att # Absent
  /\ Replace(ver, VerifySignature(att, qual, trusted))
  /\ ver' = VerifySignature(att, qual, trusted)
  /\ UNCHANGED <<raw, bundle, prov, measured, qual, att, cov, dec, bridge, verdict, record, researchVars>>

EvaluateCoverage ==
  /\ bundle # Absent
  /\ Replace(cov, BuildCoverage(bundle))
  /\ cov' = BuildCoverage(bundle)
  /\ UNCHANGED <<raw, bundle, prov, measured, qual, att, ver, dec, bridge, verdict, record, researchVars>>

Decide == \E rules \in SourcePolicies, trusted \in KeyPolicies, policy \in Policies :
  /\ ver # Absent /\ cov # Absent
  /\ Replace(dec, Decision(rules, trusted, policy))
  /\ dec' = Decision(rules, trusted, policy)
  /\ UNCHANGED <<raw, bundle, prov, measured, qual, att, ver, cov, bridge, verdict, record, researchVars>>

BuildBridge == \E policy \in Policies :
  /\ dec # Absent
  /\ Replace(bridge, Bridge(policy))
  /\ bridge' = Bridge(policy)
  /\ UNCHANGED <<raw, bundle, prov, measured, qual, att, ver, cov, dec, verdict, record, researchVars>>

Gate == \E policy \in Policies :
  /\ bridge # Absent
  /\ Replace(verdict, Verdict(policy))
  /\ verdict' = Verdict(policy)
  /\ UNCHANGED <<raw, bundle, prov, measured, qual, att, ver, cov, dec, bridge, record, researchVars>>

\* promote_factor's table of allowed transitions.
Allowed(after, e) ==
  \/ after = "DEPRECATED" /\ record.status # "DEPRECATED"
  \/ record.status = "CANDIDATE" /\ after = "VALIDATED" /\ e.decision.research = "PASS" /\ e.decision.temporal = "PASS"
  \/ record.status = "CANDIDATE" /\ after = "REJECTED" /\ e.decision.research = "FAIL"
  \/ record.status = "VALIDATED" /\ after = "PRODUCTION_ELIGIBLE" /\ e.execution = "PASS"

\* The research decision, with the status of the execution decision if there is one.
Evidence == [decision |-> decision, execution |-> IF dec = Absent THEN Absent ELSE dec.status]

PromoteFactor == \E after \in {"VALIDATED", "REJECTED", "PRODUCTION_ELIGIBLE", "DEPRECATED"} :
  /\ decision # Absent
  /\ Allowed(after, Evidence)
  /\ record' = [status |-> after,
                transitions |-> Append(record.transitions,
                  [before |-> record.status, after |-> after, evidence |-> Evidence])]
  /\ UNCHANGED <<raw, bundle, prov, measured, qual, att, ver, cov, dec, bridge, verdict, researchVars, rebuilds>>

\* The research side works on its own files.
Research ==
  /\ ResearchNext
  /\ UNCHANGED <<raw, bundle, prov, measured, qual, att, ver, cov, dec, bridge, verdict, record>>

\* The registry accepts a record that is created as VALIDATED.
VenueInit ==
  /\ raw = Absent /\ bundle = Absent /\ prov = Absent /\ measured = Absent /\ qual = Absent
  /\ att = Absent /\ ver = Absent /\ cov = Absent /\ dec = Absent /\ bridge = Absent
  /\ verdict = Absent /\ ResearchInit
  /\ record \in [status : {"CANDIDATE", "VALIDATED"}, transitions : {<<>>}]
  /\ rebuilds = 0

VenueNext ==
  \/ Collect \/ ImportBundle \/ BuildProvenance \/ Measure \/ QualifySource
  \/ AttestAcquisition \/ CheckSignature \/ EvaluateCoverage \/ Decide
  \/ BuildBridge \/ Gate \/ PromoteFactor \/ Research

VenueSpec == VenueInit /\ [][VenueNext]_venueVars

-----------------------------------------------------------------------------
(* Properties *)

\* The evidence named by a decision, followed back through the hashes.
OneChain(d) ==
  LET q == d.qual
      key == d.att.key
      obs == d.raw.obs
  IN
  /\ d.prov.ready /\ d.measured.prov = d.prov
  /\ d.measured.raw = d.raw /\ d.cov.raw = d.raw
  /\ q.evidence = d.measured /\ d.att.qual = q /\ d.ver.att = d.att
  /\ d.att.signature = [by |-> key, over |-> AttestedPayload(q, key)]
  /\ q.collector \in d.policy.source /\ <<key, q.collector>> \in d.policy.keys
  /\ obs.sound /\ obs.intents = d.raw.manifest.intents
  /\ {obs.target, d.raw.manifest.target, d.measured.target} = {d.target}

\* However often files were rebuilt and mixed, ELIGIBLE means: one complete bundle
\* of this target, measured, qualified and signed by a key the policy trusts for the
\* collector, and a factor that research had validated on evidence of one evaluation
\* (production_eligibility_gate_v2.evaluate_production_eligibility_v2).
EligibleRestsOnOneChain ==
  verdict # Absent /\ verdict.status = "ELIGIBLE" =>
    LET d == verdict.dec
        history == verdict.record.transitions
    IN
    /\ verdict.bridge.dec = d /\ verdict.bridge.record = verdict.record
    /\ OneChain(d) /\ d.raw.obs.done = d.raw.obs.intents
    /\ d.policy = verdict.policy /\ d.target \in Registered
    /\ verdict.record.status = "VALIDATED"
    /\ history # <<>> /\ OneEvaluation(history[Len(history)].evidence.decision)

\* A decision passes only for the acquisition run the signer attested and the bytes
\* now in the file, although the measured artifact's hash leaves the run out.
PassDecidesTheAttestedRun ==
  [][dec' # dec /\ dec'.status = "PASS" =>
       dec'.qual.sourceRun = bundle.run /\ dec'.raw = raw]_venueVars
=============================================================================
