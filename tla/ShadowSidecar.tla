---------------------------- MODULE ShadowSidecar ----------------------------
(***************************************************************************)
(* The SHADOW boundary: a strategy candidate is assessed, becomes an       *)
(* intent, goes as a one-item batch (or with others as a batch) through    *)
(* the Clodds shadow client, and one JSON line at a time over the pipes of *)
(* a child process.                                                        *)
(*                                                                         *)
(* The transport is single-threaded; the child runs beside it.  It answers *)
(* each line as run_clodds_shadow_sidecar.py does, or, as any program an   *)
(* operator may name in the command, it is late or silent, says too much,  *)
(* leaves a line unfinished, answers with something else, or dies, up to   *)
(* MaxFaults times.  Payloads are small: a write never fills the pipe, and *)
(* one read takes all that is in it.                                       *)
(***************************************************************************)
EXTENDS Integers, Sequences, FiniteSetsExt

CONSTANTS
  Batches,      \* the batches callers make: sequences of requests
  Candidates,   \* strategy candidates: a request and the risk it takes
  Inputs,       \* states of portfolio, limits and risk context, as headroom
  None,         \* no assessment
  MaxRuns,      \* bound on the batches and assessments
  MaxFaults     \* bound on the faults of the child

VARIABLES
  inputs,       \* what the risk evaluation reads now
  assessed,     \* the StrategyRiskAssessment a caller holds, or None
  batch,        \* the requests of run_shadow_batch
  via,          \* who submits: "batch", "strategy" or "adapter"
  results,      \* its items so far
  artifact,     \* what the last run returned
  pc,           \* the next statement of the calling thread
  closed,       \* _closed
  failed,       \* an answer was late, torn or no object, or a write failed
  sent,         \* the intents written to the child, in order
  child,        \* "up", "deaf" (stdin at its end) or "dead"
  inbox,        \* the numbers of the requests in the child's stdin
  out,          \* whole lines in the pipe from its stdout
  buffer,       \* whole lines that readline took from the pipe and holds
  fragment,     \* where the start of an unfinished line is: "no", "pipe", "held"
  runs, faults

caller == <<inputs, assessed, batch, via, runs>>
pipes  == <<inbox, out, buffer, fragment>>
vars   == <<caller, results, artifact, pc, closed, failed, sent, child, pipes, faults>>

Requests == (UNION {{b[i] : i \in 1..Len(b)} : b \in Batches}) \cup {c.request : c \in Candidates}

\* What the constructors let through: OrderIntent, BatchShadowRequest and
\* StrategyOrderCandidate raise for anything else.
IsIntent(i) == i.tif \in {"GTC", "IOC", "FOK"} /\ i.qty \in Nat \ {0}
IsRequest(q) == IsIntent(q.intent) /\ q.tokens # <<>> /\ q.postOnly \in BOOLEAN
IsCandidate(c) == IsRequest(c.request) /\ c.risk \in Nat \ {0}

ASSUME SidecarAssumption ==
  /\ MaxRuns \in Nat /\ MaxFaults \in Nat /\ Inputs \subseteq Nat
  /\ Batches \subseteq Seq(Requests)
  /\ \A q \in Requests : IsRequest(q)
  /\ \A c \in Candidates : IsCandidate(c)

------------------------------------------------------------------------------
(* From an intent to a line and back *)

\* resolve_token_id finds the one token: same market, every outcome and every
\* token once, the intent's outcome among them.
Resolves(r) ==
  /\ r.intent.market = r.market
  /\ \A i, j \in 1..Len(r.tokens) : i # j =>
       r.tokens[i].id # r.tokens[j].id /\ r.tokens[i].outcome # r.tokens[j].outcome
  /\ \E i \in 1..Len(r.tokens) : r.tokens[i].outcome = r.intent.outcome

Token(r) == (CHOOSE t \in {r.tokens[i] : i \in 1..Len(r.tokens)} :
               t.outcome = r.intent.outcome).id

\* map_order_intent_to_clodds_request
Mappable(intent, postOnly) == ~(intent.tif \in {"IOC", "FOK"} /\ postOnly)
CloddsRequest(intent, token, postOnly) ==
  [marketId |-> intent.market, tokenId |-> token, size |-> intent.qty,
   orderType |-> IF intent.tif = "IOC" THEN "FAK" ELSE intent.tif,
   postOnly |-> postOnly]

\* build_shadow_request, and the other payload of this boundary, the one
\* ShadowExecutionAdapter.encode_intent makes.
ShadowRequest(r) ==
  [schema |-> "clodds_shadow_jsonl_v1", intent |-> r.intent,
   clodds |-> CloddsRequest(r.intent, Token(r), r.postOnly)]
AdapterRequest(r) == [schema |-> "shadow_execution_request_v1", intent |-> r.intent]

\* validate_shadow_request maps the intent again and compares.
ValidRequest(p) ==
  /\ p.schema = "clodds_shadow_jsonl_v1"
  /\ Mappable(p.intent, p.clodds.postOnly)
  /\ p.clodds = CloddsRequest(p.intent, p.clodds.tokenId, p.clodds.postOnly)

\* What the reference sidecar writes for request number n: make_shadow_ack or
\* the error object.
Answer(n) ==
  IF ValidRequest(sent[n])
  THEN [kind |-> "ack", id |-> sent[n].intent.id, left |-> sent[n].intent.qty, to |-> n]
  ELSE [kind |-> "error", to |-> n]

\* Lines of another program: no JSON, JSON but no object, an object that is no
\* answer of the protocol.
Noise == {[kind |-> k] : k \in {"garbage", "list", "alien"}}

\* _decode_response and decode_event accept the answer that names the intent.
AnsweredAnyIntent(line, intent) == line.kind = "ack"    \* Fault: ids not compared
Accepted(line, intent) == line.kind = "ack" /\ line.id = intent.id

\* evaluate_order_risk, as one limit over all it reads
RiskAllows(c, i) == c.risk <= i

\* StrategyRiskAssessment: the decision and the hashes of all it was made from
Assessment(c) == [candidate |-> c, inputs |-> inputs, allowed |-> RiskAllows(c, inputs)]

------------------------------------------------------------------------------
Init ==
  /\ inputs \in Inputs /\ assessed = None /\ batch = <<>> /\ via = "batch"
  /\ results = <<>> /\ artifact = [status |-> "NONE", of |-> <<>>, items |-> <<>>]
  /\ pc = "idle" /\ closed = FALSE /\ failed = FALSE
  /\ sent = <<>> /\ child = "up" /\ inbox = <<>> /\ out = <<>> /\ buffer = <<>>
  /\ fragment = "no" /\ runs = 0 /\ faults = 0

(* The callers *)

\* run_shadow_batch refuses a batch that names an intent twice, and adds up
\* the items of any other.
Duplicates(b) == \E i, j \in 1..Len(b) : i # j /\ b[i].intent.id = b[j].intent.id
Start(b, user) ==
  /\ ~Duplicates(b)
  /\ batch' = b /\ via' = user /\ results' = <<>> /\ pc' = "item"

RunBatch ==
  /\ pc = "idle" /\ runs < MaxRuns /\ runs' = runs + 1
  /\ \E b \in Batches : Start(b, "batch")
  /\ UNCHANGED <<inputs, assessed, artifact, closed, failed, sent, child, pipes, faults>>

\* ShadowExecutionAdapter.submit over the same kind of transport
AdapterSubmit ==
  /\ pc = "idle" /\ runs < MaxRuns /\ runs' = runs + 1
  /\ \E q \in Requests : Start(<<q>>, "adapter")
  /\ UNCHANGED <<inputs, assessed, artifact, closed, failed, sent, child, pipes, faults>>

Assess ==
  /\ pc = "idle" /\ runs < MaxRuns /\ runs' = runs + 1
  /\ \E c \in Candidates : assessed' = Assessment(c)
  /\ UNCHANGED <<inputs, batch, via, results, artifact, pc, closed, failed, sent, child, pipes, faults>>

\* Fills, releases or other limits come between an assessment and its use.
InputsChange ==
  /\ pc = "idle" /\ assessed # None /\ inputs' \in Inputs \ {inputs}
  /\ UNCHANGED <<assessed, batch, via, results, artifact, pc, closed, failed, sent, child, pipes, runs, faults>>

\* build_order_intent raises when a hash differs or the decision is no ALLOW.
BuildsFromAllowed(a) == a.allowed                    \* Fault: hashes not compared
BuildsIntent(a) == a.allowed /\ a.inputs = inputs
RiskRejected == [status |-> "RISK_REJECTED", of |-> <<>>, items |-> <<>>]
RunStrategy ==
  /\ pc = "idle" /\ runs < MaxRuns /\ runs' = runs + 1 /\ assessed # None
  /\ IF assessed.allowed
     THEN /\ BuildsIntent(assessed) /\ artifact' = artifact
          /\ Start(<<assessed.candidate.request>>, "strategy")
     ELSE /\ artifact' = RiskRejected
          /\ UNCHANGED <<batch, via, results, pc>>
  /\ UNCHANGED <<inputs, assessed, closed, failed, sent, child, pipes, faults>>

(* JsonlProcessTransport.submit, for one item of the batch *)

Item == batch[Len(results) + 1]
Fits(q) == via = "adapter" \/ (Resolves(q) /\ Mappable(q.intent, q.postOnly))
Payload(q) == IF via = "adapter" THEN AdapterRequest(q) ELSE ShadowRequest(q)
Fail == /\ results' = Append(results, [status |-> "FAIL"]) /\ pc' = "item"

\* A request that does not resolve or map fails before the transport sees it;
\* so does every request once it is closed or the child is known to be dead.
Refuse ==
  /\ pc = "item" /\ Len(results) < Len(batch)
  /\ ~Fits(Item) \/ closed \/ child = "dead"
  /\ Fail
  /\ UNCHANGED <<caller, artifact, closed, failed, sent, child, pipes, faults>>

Poll ==
  /\ pc = "item" /\ Len(results) < Len(batch)
  /\ Fits(Item) /\ ~closed /\ child # "dead" /\ pc' = "write"
  /\ UNCHANGED <<caller, results, artifact, closed, failed, sent, child, pipes, faults>>

\* A child that died since breaks the pipe.
Write ==
  /\ pc = "write"
  /\ IF child = "dead"
     THEN pc' = "terminate" /\ failed' = TRUE /\ UNCHANGED <<sent, inbox>>
     ELSE /\ sent' = Append(sent, Payload(Item))
          /\ inbox' = Append(inbox, Len(sent) + 1)
          /\ pc' = "select" /\ failed' = failed
  /\ UNCHANGED <<caller, results, artifact, closed, child, out, buffer, fragment, faults>>

\* select sees the pipe: not what readline holds, and the end of a dead child.
Ready == out # <<>> \/ fragment = "pipe" \/ child = "dead"
Select ==
  /\ pc = "select" /\ Ready /\ pc' = "read"
  /\ UNCHANGED <<caller, results, artifact, closed, failed, sent, child, pipes, faults>>

TimeoutKeepsChild ==        \* Fault: the child is left running
  /\ pc = "select" /\ ~Ready /\ Fail /\ failed' = TRUE
  /\ UNCHANGED <<caller, artifact, closed, sent, child, pipes, faults>>
Timeout ==
  /\ pc = "select" /\ ~Ready /\ pc' = "terminate" /\ failed' = TRUE
  /\ UNCHANGED <<caller, results, artifact, closed, sent, child, pipes, faults>>

\* BatchShadowItemResult: PASS has an event, FAIL none
Passed(line) == [status |-> "PASS", event |-> line, to |-> Len(sent)]

\* A line is decoded: PASS with an event, FAIL for an answer that does not fit,
\* and the end of the child for one that is no JSON object.
Decode(line) ==
  IF line.kind \in {"garbage", "list"}
  THEN pc' = "terminate" /\ failed' = TRUE /\ UNCHANGED results
  ELSE /\ failed' = failed
       /\ IF Accepted(line, Item.intent)
          THEN /\ results' = Append(results, Passed(line))
               /\ pc' = "item"
          ELSE Fail

\* readline returns a held line first, else takes all the pipe has.  With no
\* whole line it waits: for the rest, or for the child's end, which returns
\* what there is, a torn line or nothing.
Readable == buffer # <<>> \/ out # <<>> \/ child = "dead"
Read ==
  /\ pc = "read" /\ Readable
  /\ LET lines == IF buffer # <<>> THEN buffer ELSE out IN
     IF lines # <<>>
     THEN /\ Decode(Head(lines)) /\ buffer' = Tail(lines)
          /\ IF buffer # <<>> THEN UNCHANGED <<out, fragment>>
             ELSE /\ out' = <<>>
                  /\ fragment' = IF fragment = "pipe" THEN "held" ELSE fragment
     ELSE /\ IF fragment # "no" THEN Decode([kind |-> "garbage"])
             ELSE Fail /\ failed' = failed
          /\ fragment' = "no" /\ UNCHANGED <<out, buffer>>
  /\ UNCHANGED <<caller, artifact, closed, sent, child, inbox, faults>>

\* _terminate_fail_closed: SIGTERM, a second, SIGKILL.
Terminate ==
  /\ pc = "terminate" /\ child' = "dead" /\ Fail
  /\ UNCHANGED <<caller, artifact, closed, failed, sent, pipes, faults>>

\* BatchShadowArtifact; a strategy's run wraps it with its own status.  The
\* adapter raises for a FAIL and returns a submission otherwise.
Status == IF via = "batch" THEN "BATCH"
          ELSE IF \A i \in 1..Len(results) : results[i].status = "PASS"
               THEN "SHADOW_PASS" ELSE "SHADOW_FAIL"
EndBatch ==
  /\ pc = "item" /\ Len(results) = Len(batch) /\ pc' = "idle"
  /\ artifact' = IF via = "adapter" /\ Status = "SHADOW_FAIL" THEN artifact
                 ELSE [status |-> Status, of |-> batch, items |-> results]
  /\ UNCHANGED <<caller, results, closed, failed, sent, child, pipes, faults>>

\* close() ends the child's stdin, waits a second, terminates, waits, kills.
Close ==
  /\ pc = "idle" /\ ~closed /\ closed' = TRUE /\ pc' = "closing"
  /\ child' = IF child = "up" THEN "deaf" ELSE child
  /\ UNCHANGED <<caller, results, artifact, failed, sent, pipes, faults>>
ForgetChild ==              \* Fault: a child that does not end is left behind
  /\ pc = "closing" /\ pc' = "idle"
  /\ UNCHANGED <<caller, results, artifact, closed, failed, sent, child, pipes, faults>>
CloseEnds ==
  /\ pc = "closing" /\ pc' = "idle" /\ child' = "dead"
  /\ UNCHANGED <<caller, results, artifact, closed, failed, sent, pipes, faults>>

(* The child *)

Alive == child # "dead"
Says(lines) == out' = out \o lines /\ UNCHANGED <<buffer, fragment>>
Faulty == faults < MaxFaults /\ faults' = faults + 1

\* The loop of the reference sidecar: one answer for each line.
Serve ==
  /\ Alive /\ fragment = "no" /\ inbox # <<>> /\ inbox' = Tail(inbox)
  /\ Says(<<Answer(Head(inbox))>>)
  /\ UNCHANGED <<caller, results, artifact, pc, closed, failed, sent, child, faults>>

\* Another program: no answer, a wrong one, or the right one twice.
Misanswer ==
  /\ Alive /\ fragment = "no" /\ inbox # <<>> /\ inbox' = Tail(inbox) /\ Faulty
  /\ LET a == Answer(Head(inbox)) IN
     \E lines \in {<<>>, <<a, a>>} \cup {<<x>> : x \in Noise} : Says(lines)
  /\ UNCHANGED <<caller, results, artifact, pc, closed, failed, sent, child>>

\* It writes the start of a line, and the rest later or never.
Stutter ==
  /\ Alive /\ fragment = "no" /\ inbox # <<>> /\ Faulty /\ fragment' = "pipe"
  /\ UNCHANGED <<caller, results, artifact, pc, closed, failed, sent, child, inbox, out, buffer>>
FinishLine ==
  /\ Alive /\ fragment # "no" /\ fragment' = "no"
  /\ out' = Append(out, Answer(Head(inbox))) /\ inbox' = Tail(inbox)
  /\ UNCHANGED <<caller, results, artifact, pc, closed, failed, sent, child, buffer, faults>>

Die ==
  /\ Alive /\ child' = "dead"
  /\ \/ child = "deaf" /\ inbox = <<>> /\ faults' = faults
     \/ Faulty
  /\ UNCHANGED <<caller, results, artifact, pc, closed, failed, sent, pipes>>

------------------------------------------------------------------------------
Call  == Refuse \/ Poll \/ Write \/ Select \/ Timeout \/ Read \/ Terminate
           \/ EndBatch \/ CloseEnds
Next  == RunBatch \/ AdapterSubmit \/ Assess \/ InputsChange \/ RunStrategy \/ Close \/ Call
           \/ Serve \/ Misanswer \/ Stutter \/ FinishLine \/ Die

\* The calling thread runs; nothing is assumed of the child.
Spec == Init /\ [][Next]_vars /\ WF_vars(Call)

------------------------------------------------------------------------------
(* A PASS holds the child's answer to that very request, however late or often *)
(* the child answers: a line that is out of step passes only where the same    *)
(* intent id went over this transport before, and then it is that answer.      *)
AnswersIntents(items, of) ==
  \A i \in 1..Len(items) : items[i].status = "PASS" =>
    LET p == items[i] IN
    /\ p.event.to <= p.to
    /\ sent[p.event.to].intent.id = sent[p.to].intent.id
    /\ sent[p.to].intent = of[i].intent
PassAnswersItsIntent ==
  /\ AnswersIntents(results, batch) /\ AnswersIntents(artifact.items, artifact.of)
  /\ artifact.status = "SHADOW_PASS" =>
       Len(artifact.items) = 1 /\ artifact.items[1].status = "PASS"

(* Once an answer was late, torn or no object, or a request could not be       *)
(* written, no event is accepted from this child any more, also not one it     *)
(* wrote before.                                                               *)
FailsClosed ==
  [][failed /\ results' # results /\ results' # <<>>
       => results'[Len(results')].status = "FAIL"]_vars

(* An order of a strategy goes to the child only under the portfolio, limits   *)
(* and context with which the risk gate allowed it.                            *)
SentAsAssessed ==
  [][via = "strategy" /\ sent' # sent => RiskAllows(assessed.candidate, inputs)]_vars

(* Every submit ends and a closed transport leaves no child, whatever the child *)
(* does, unless it leaves a line unfinished for ever: select has seen its start *)
(* and readline has no timeout.                                                 *)
Waiting == pc = "read" /\ ~Readable
CallsEnd ==
  /\ []<>(pc = "idle") \/ <>[]Waiting
  /\ closed ~> child = "dead"
==============================================================================
