-------------------------- MODULE MCVenueEvidence --------------------------
EXTENDS VenueEvidence, TLC

CONSTANTS t, u, i, j, k, l

Telemetry(target, seen, done, sound) ==
  [manifest |-> [target |-> t, intents |-> {i, j}],
   obs |-> [target |-> target, intents |-> seen, done |-> done, sound |-> sound]]

\* Complete, still open, an intent left out, another target's, bad accounting.
MCRaws == {Telemetry(t, {i, j}, {i, j}, TRUE), Telemetry(t, {i, j}, {i}, TRUE),
           Telemetry(t, {i}, {i}, TRUE), Telemetry(u, {i, j}, {i, j}, TRUE),
           Telemetry(t, {i, j}, {i, j}, FALSE)}

\* Two ready ones of t that differ in their shadow run, one of u, one blocked.
MCProvs == {[target |-> t, ready |-> TRUE, shadow |-> 1], [target |-> t, ready |-> TRUE, shadow |-> 2],
            [target |-> u, ready |-> TRUE, shadow |-> 1], [target |-> t, ready |-> FALSE, shadow |-> 1]}

Row(ts, cutoff, period, value, y) ==
  [ts |-> ts, cutoff |-> cutoff, period |-> period, value |-> value, y |-> y, usable |-> TRUE]
Past == {Row(2, 1, 1, 1, 0), Row(3, 2, 1, 1, 1)}
Sample(rows, beats) == [rows |-> Past \cup rows, good |-> TRUE, beats |-> beats]

\* One fold; the same predictions beside a missing row; another label, and predictions
\* that do not beat the baseline; no fold; a late cutoff; a test period begun too early.
MCSamples == {Sample({Row(5, 4, 2, 1, 1)}, TRUE),
              Sample({Row(5, 4, 2, 1, 1), Row(6, 4, 2, Absent, 1)}, TRUE),
              Sample({Row(5, 4, 2, 1, 0)}, FALSE),
              Sample({}, TRUE),
              Sample({Row(5, 5, 2, 1, 1)}, TRUE),
              Sample({Row(3, 1, 2, 1, 1)}, TRUE)}

\* Two definitions of one factor, and a transform the evaluator does not support.
MCSpecs == {[factor |-> "f", definition |-> 1, supported |-> TRUE],
            [factor |-> "f", definition |-> 2, supported |-> TRUE],
            [factor |-> "g", definition |-> 1, supported |-> FALSE]}

MCResearchPolicies == {[eligible |-> 3, folds |-> 1, shuffles |-> 1]}

\* BOUND: the round is given up once an artifact says BLOCKED or FAIL, and research
\* and registry, which nothing reads before, move once there is a decision.
Refused(a) == a # Absent /\ a.status \in {"BLOCKED", "FAIL"}
Promising ==
  /\ ~(\E a \in {measured, qual, att, ver, dec, bridge} : Refused(a))
  /\ dec = Absent => record.transitions = <<>> /\ result = Absent

Plain(artifact, plain) == artifact = Absent \/ plain

\* BOUND: null control and baseline run under the id of what they judge.
OneRunEach == Plain(nulled, nulled.run = nulled.oosRun) /\ Plain(base, base.run = base.source)

\* BOUND: research and the venue side, which meet in the registry, do not both leave
\* the plain round: one good sample and its bundle named, or one good bundle and its key.
PlainResearch ==
  LET s == Sample({Row(5, 4, 2, 1, 1)}, TRUE) IN
  /\ Plain(result, result.spec = [factor |-> "f", definition |-> 1, supported |-> TRUE]
                      /\ result.sample = s)
  /\ Plain(oos, oos = result)
  /\ Plain(nulled, nulled.low)
  /\ Plain(decision, decision.evidence # Absent)
PlainVenue ==
  /\ Plain(raw, raw = Telemetry(t, {i, j}, {i, j}, TRUE))
  /\ Plain(prov, prov = [target |-> t, ready |-> TRUE, shadow |-> 1])
  /\ Plain(measured, measured.run = bundle.run)
  /\ Plain(att, att = Attest(qual, att.key, [by |-> att.key, over |-> AttestedPayload(qual, att.key)]))
  /\ Plain(dec, dec.trusted = dec.policy.keys)
OneSideVaries == OneRunEach /\ (PlainResearch \/ (PlainVenue /\ rebuilds <= 1))

MCRegistered == {t}

\* Run ids and keys are only compared.
MCSymmetry == Permutations(Runs) \cup Permutations(Keys)

\* The second policy withdraws the key.
MCPolicies == {[source |-> {"c"}, keys |-> {<<k, "c">>}],
               [source |-> {"c"}, keys |-> {<<l, "c">>}]}
=============================================================================
