---------------------------- MODULE BoundaryProofs ----------------------------
(* What two boundaries let through, for all values of their constants.         *)
(*                                                                             *)
(* The SHADOW boundary, for all batches, candidates and inputs, any number of  *)
(* runs, and any number of faults of the child: a PASS answers its intent, a   *)
(* transport that failed accepts nothing any more, and a strategy's order goes *)
(* out only under the inputs it was assessed with.                             *)
(*                                                                             *)
(* The production gate, for all bundles, factors and policies, any number of   *)
(* rebuilds, and files mixed in any order: what is eligible rests on one chain *)
(* of evidence.  The specifications share no name and no variable.             *)
EXTENDS ShadowSidecar, VenueEvidence, TLAPS

(***************************************************************************)
(* A transport that failed                                                 *)
(***************************************************************************)

\* A failure leads to _terminate at once; after that no call gets past Poll.
FailedIsDead ==
  failed => \/ pc = "terminate"
            \/ child = "dead" /\ pc \in {"idle", "item", "closing"}

LEMMA FailedStaysDead == FailedIsDead /\ [Next]_vars => FailedIsDead'
<1> SUFFICES ASSUME FailedIsDead, [Next]_vars PROVE FailedIsDead'
  OBVIOUS
<1>1. CASE RunBatch \/ AdapterSubmit \/ RunStrategy \/ Assess \/ InputsChange
  BY <1>1 DEF RunBatch, AdapterSubmit, RunStrategy, Assess, InputsChange, Start, FailedIsDead
<1>2. CASE Close \/ CloseEnds
  BY <1>2 DEF Close, CloseEnds, FailedIsDead
<1>3. CASE Refuse \/ Poll \/ Select \/ Timeout \/ Terminate \/ EndBatch
  BY <1>3 DEF Refuse, Poll, Select, Timeout, Terminate, EndBatch, Fail, FailedIsDead
<1>4. CASE Write
  BY <1>4 DEF Write, FailedIsDead
<1>5. CASE Read
  <2>1. ~failed
    BY <1>5 DEF Read, FailedIsDead
  <2>2. failed' = failed \/ pc' = "terminate"
    BY <1>5 DEF Read, Decode
  <2> QED BY <2>1, <2>2 DEF FailedIsDead
<1>6. CASE Serve \/ Misanswer \/ Stutter \/ FinishLine
  BY <1>6 DEF Serve, Misanswer, Stutter, FinishLine, FailedIsDead
<1>7. CASE Die
  BY <1>7 DEF Die, FailedIsDead
<1>8. CASE UNCHANGED vars
  BY <1>8 DEF vars, FailedIsDead
<1> QED BY <1>1, <1>2, <1>3, <1>4, <1>5, <1>6, <1>7, <1>8 DEF Next, Call

(***************************************************************************)
(* Assessed and sent                                                       *)
(***************************************************************************)

\* The assessment is what the risk gate said of its inputs; from building the
\* intent to the end of its run they are the current ones.
AssessedNow ==
  /\ assessed # None => /\ assessed.candidate \in Candidates
                         /\ assessed.allowed = RiskAllows(assessed.candidate, assessed.inputs)
  /\ via = "strategy" /\ pc \notin {"idle", "closing"} =>
       RiskAllows(assessed.candidate, inputs)

LEMMA AssessedStays == AssessedNow /\ [Next]_vars => AssessedNow'
<1> SUFFICES ASSUME AssessedNow, [Next]_vars PROVE AssessedNow'
  OBVIOUS
<1>1. CASE RunBatch \/ AdapterSubmit
  BY <1>1 DEF RunBatch, AdapterSubmit, Start, AssessedNow
<1>2. CASE Assess
  <2>1. PICK c \in Candidates : assessed' = Assessment(c)
    BY <1>2 DEF Assess
  <2>2. /\ assessed'.candidate \in Candidates
        /\ assessed'.allowed = RiskAllows(assessed'.candidate, assessed'.inputs)
    BY <2>1 DEF Assessment
  <2> QED BY <1>2, <2>2 DEF Assess, AssessedNow
<1>3. CASE InputsChange
  BY <1>3 DEF InputsChange, AssessedNow
<1>4. CASE RunStrategy
  <2>1. CASE assessed.allowed
    <3>1. RiskAllows(assessed.candidate, inputs)
      BY <1>4, <2>1 DEF RunStrategy, BuildsIntent, AssessedNow
    <3> QED BY <1>4, <3>1 DEF RunStrategy, AssessedNow
  <2>2. CASE ~assessed.allowed
    BY <1>4, <2>2 DEF RunStrategy, AssessedNow
  <2> QED BY <2>1, <2>2
<1>5. CASE Close
  BY <1>5 DEF Close, caller, AssessedNow
<1>6. CASE Refuse \/ Poll \/ Write \/ Select \/ Timeout \/ Terminate \/ EndBatch \/ CloseEnds
  BY <1>6 DEF Refuse, Poll, Write, Select, Timeout, Terminate, EndBatch, CloseEnds, caller, AssessedNow
<1>7. CASE Read
  BY <1>7 DEF Read, caller, AssessedNow
<1>8. CASE Serve \/ Misanswer \/ Stutter \/ FinishLine \/ Die
  BY <1>8 DEF Serve, Misanswer, Stutter, FinishLine, Die, caller, AssessedNow
<1>9. CASE UNCHANGED vars
  BY <1>9 DEF vars, caller, AssessedNow
<1> QED BY <1>1, <1>2, <1>3, <1>4, <1>5, <1>6, <1>7, <1>8, <1>9 DEF Next, Call

(***************************************************************************)
(* Requests, lines and results                                             *)
(***************************************************************************)

\* Every line of the child answers a request that went over this transport, or
\* is no answer at all.
Payloads == {AdapterRequest(q) : q \in Requests} \cup {ShadowRequest(q) : q \in Requests}
Ack(n) == [kind |-> "ack", id |-> sent[n].intent.id, left |-> sent[n].intent.qty, to |-> n]
Lines == {Ack(n) : n \in 1..Len(sent)} \cup {[kind |-> "error", to |-> n] : n \in 1..Len(sent)}
           \cup Noise
Results == {[status |-> "FAIL"]}
             \cup {[status |-> "PASS", event |-> l, to |-> n] : l \in Lines, n \in 1..Len(sent)}

\* What is underway is well formed: while a request is out, it is the last one
\* sent, for the next item of the batch.
InFlight == {"write", "select", "read", "terminate"}
Shapes ==
  /\ batch \in Seq(Requests) /\ sent \in Seq(Payloads) /\ inbox \in Seq(1..Len(sent))
  /\ out \in Seq(Lines) /\ buffer \in Seq(Lines) /\ results \in Seq(Results)
  /\ pc \in InFlight \cup {"idle", "item", "closing"}
  /\ pc \notin {"idle", "closing"} => Len(results) <= Len(batch)
  /\ pc \in InFlight => Len(results) < Len(batch)
  /\ pc \in {"select", "read"} => sent # <<>> /\ sent[Len(sent)].intent = Item.intent
  /\ fragment # "no" => inbox # <<>>
  /\ via # "batch" /\ pc \notin {"idle", "closing"} => Len(batch) = 1

LEMMA RequestsFormed ==
  /\ \A b \in Batches : b \in Seq(Requests)
  /\ \A q \in Requests : <<q>> \in Seq(Requests)
  /\ \A c \in Candidates : c.request \in Requests
  BY SidecarAssumption DEF Requests

\* An answer names the intent of its request.
LEMMA AnswersAreLines ==
  ASSUME NEW n \in 1..Len(sent) PROVE Answer(n) \in Lines
  BY DEF Answer, Lines, Ack

\* What is sent never changes, so that lines and results keep what they mean.
LEMMA SentGrows ==
  ASSUME Shapes, NEW p \in Payloads, sent' = Append(sent, p)
  PROVE  /\ sent' \in Seq(Payloads) /\ Len(sent') = Len(sent) + 1 /\ sent'[Len(sent')] = p
         /\ \A n \in 1..Len(sent) : sent'[n] = sent[n]
         /\ 1..Len(sent) \subseteq 1..Len(sent') /\ Lines \subseteq Lines'
         /\ Results \subseteq Results'
<1>1. /\ sent' \in Seq(Payloads) /\ Len(sent') = Len(sent) + 1 /\ sent'[Len(sent')] = p
      /\ \A n \in 1..Len(sent) : sent'[n] = sent[n]
      /\ 1..Len(sent) \subseteq 1..Len(sent')
  <2>1. sent \in Seq(Payloads)
    BY DEF Shapes
  <2> HIDE DEF Shapes
  <2> QED BY <2>1
<1>2. Lines \subseteq Lines'
  <2>1. \A n \in 1..Len(sent) : Ack(n)' = Ack(n)
    BY <1>1 DEF Ack
  <2>2. \A n \in 1..Len(sent) : [kind |-> "ack", id |-> sent'[n].intent.id, left |-> sent'[n].intent.qty, to |-> n] = Ack(n)
    BY <1>1 DEF Ack
  <2> QED BY <1>1, <2>2 DEF Lines, Ack, Noise
<1>3. Results \subseteq Results'
  BY <1>1, <1>2 DEF Results
<1> QED BY <1>1, <1>2, <1>3

\* The calls that write no request.
LEMMA CallersKeepShapes ==
  ASSUME Shapes, AssessedNow,
         RunBatch \/ AdapterSubmit \/ RunStrategy \/ Assess \/ InputsChange \/ Close \/ CloseEnds
  PROVE  Shapes'
<1> DEFINE Pipes == sent \in Seq(Payloads) /\ inbox \in Seq(1..Len(sent))
                      /\ out \in Seq(Lines) /\ buffer \in Seq(Lines)
                      /\ (fragment # "no" => inbox # <<>>)
<1>1. Pipes
  BY DEF Shapes
<1>2. UNCHANGED <<sent, pipes>> /\ Lines' = Lines /\ Results' = Results
  BY DEF RunBatch, AdapterSubmit, RunStrategy, Assess, InputsChange, Close, CloseEnds, pipes, Results, Lines, Ack
<1>3. Pipes'
  BY <1>1, <1>2 DEF pipes
<1>4. ASSUME NEW b \in Seq(Requests), NEW u, Start(b, u), u # "batch" => Len(b) = 1 PROVE Shapes'
  <2>1. batch' \in Seq(Requests) /\ results' = <<>> /\ results' \in Seq(Results') /\ pc' = "item"
        /\ Len(results') = 0 /\ Len(batch') \in Nat /\ (via' # "batch" => Len(batch') = 1)
    BY <1>4 DEF Start
  <2> QED BY <1>3, <2>1 DEF Shapes, InFlight
<1>5. CASE RunBatch
  <2>1. PICK b \in Batches : Start(b, "batch")
    BY <1>5 DEF RunBatch
  <2> QED BY <1>4, <2>1, RequestsFormed
<1>6. CASE AdapterSubmit
  <2>1. PICK q \in Requests : Start(<<q>>, "adapter")
    BY <1>6 DEF AdapterSubmit
  <2> QED BY <1>4, <2>1, RequestsFormed
<1>7. CASE RunStrategy
  <2>1. CASE assessed.allowed
    <3>1. Start(<<assessed.candidate.request>>, "strategy")
      BY <1>7, <2>1 DEF RunStrategy
    <3>2. assessed.candidate \in Candidates
      BY <1>7 DEF RunStrategy, AssessedNow
    <3>3. <<assessed.candidate.request>> \in Seq(Requests)
      BY <3>2, RequestsFormed
    <3> QED BY <1>4, <3>1, <3>3
  <2>2. CASE ~assessed.allowed
    <3>1. UNCHANGED <<batch, via, results, pc>> /\ pc = "idle"
      BY <1>7, <2>2 DEF RunStrategy
    <3> QED BY <1>2, <1>3, <3>1 DEF Shapes, InFlight
  <2> QED BY <2>1, <2>2
<1>8. CASE Assess \/ InputsChange \/ Close \/ CloseEnds
  <2>1. UNCHANGED <<batch, via, results>> /\ pc \in {"idle", "closing"} /\ pc' \in {"idle", "closing"}
    BY <1>8 DEF Assess, InputsChange, Close, CloseEnds, Shapes, caller
  <2> QED BY <1>2, <1>3, <2>1 DEF Shapes, InFlight
<1> QED BY <1>5, <1>6, <1>7, <1>8

\* The child says only lines, each about a request it was sent.
LEMMA ChildKeepsShapes ==
  ASSUME Shapes, Serve \/ Misanswer \/ Stutter \/ FinishLine \/ Die PROVE Shapes'
<1>1. UNCHANGED <<batch, via, results, pc, sent, buffer>> /\ Lines' = Lines /\ Results' = Results
  BY DEF Serve, Misanswer, Stutter, FinishLine, Die, Says, pipes, caller, Results, Lines, Ack
<1>2. inbox # <<>> => Head(inbox) \in 1..Len(sent) /\ Answer(Head(inbox)) \in Lines
  BY AnswersAreLines DEF Shapes
<1>3. inbox' \in Seq(1..Len(sent))
  <2>1. inbox \in Seq(1..Len(sent)) /\ (fragment # "no" => inbox # <<>>)
    BY DEF Shapes
  <2>2. CASE Serve \/ Misanswer \/ FinishLine
    <3>1. inbox # <<>> /\ inbox' = Tail(inbox)
      BY <2>1, <2>2 DEF Serve, Misanswer, FinishLine
    <3>2. \A S : inbox \in Seq(S) => Tail(inbox) \in Seq(S)
      BY <3>1
    <3> QED BY <2>1, <3>1, <3>2
  <2>3. CASE Stutter \/ Die
    BY <2>1, <2>3 DEF Stutter, Die, pipes
  <2> QED BY <2>2, <2>3
<1>4. out' \in Seq(Lines)
  <2> DEFINE a == Answer(Head(inbox))
  <2>0. Noise \subseteq Lines /\ out \in Seq(Lines)
    BY DEF Lines, Shapes
  <2>1. CASE Serve
    <3>1. a \in Lines /\ out' = out \o <<a>>
      BY <1>2, <2>1 DEF Serve, Says
    <3> HIDE DEF a
    <3> QED BY <2>0, <3>1
  <2>2. CASE Misanswer
    <3>1. a \in Lines
      BY <1>2, <2>2 DEF Misanswer
    <3>2. PICK ls \in {<<>>, <<a, a>>} \cup {<<x>> : x \in Noise} : out' = out \o ls
      BY <2>2 DEF Misanswer, Says
    <3> HIDE DEF a
    <3>3. <<>> \in Seq(Lines) /\ <<a, a>> \in Seq(Lines) /\ \A x \in Noise : <<x>> \in Seq(Lines)
      BY <2>0, <3>1
    <3>4. ls \in Seq(Lines)
      BY <3>2, <3>3
    <3> QED BY <2>0, <3>2, <3>4
  <2>3. CASE FinishLine
    <3>1. a \in Lines /\ out' = Append(out, a)
      BY <1>2, <2>3 DEF FinishLine, Shapes
    <3> HIDE DEF a
    <3> QED BY <2>0, <3>1
  <2>4. CASE Stutter \/ Die
    BY <2>0, <2>4 DEF Stutter, Die, pipes
  <2> QED BY <2>1, <2>2, <2>3, <2>4
<1>5. fragment' # "no" => inbox' # <<>>
  BY DEF Serve, Misanswer, Stutter, FinishLine, Die, Says, pipes, Shapes
<1>6. /\ batch' \in Seq(Requests) /\ sent' \in Seq(Payloads) /\ inbox' \in Seq(1..Len(sent'))
      /\ out' \in Seq(Lines') /\ buffer' \in Seq(Lines') /\ results' \in Seq(Results')
  BY <1>1, <1>3, <1>4 DEF Shapes
<1> QED BY <1>1, <1>5, <1>6 DEF Shapes, Item

\* A line of the child's becomes a result, or ends the child.
LEMMA DecodedWell ==
  ASSUME Shapes, pc = "read", NEW l \in Lines, Decode(l)
  PROVE  /\ pc' \in {"terminate", "item"} /\ results' \in Seq(Results)
         /\ (\/ Len(results') = Len(results)
             \/ (pc' = "item" /\ Len(results') = Len(results) + 1))
         /\ \/ results' = results
            \/ results' = Append(results, [status |-> "FAIL"])
            \/ (Accepted(l, Item.intent) /\ results' = Append(results, Passed(l)))
<1>1. results \in Seq(Results) /\ [status |-> "FAIL"] \in Results
  BY DEF Shapes, Results
<1>2. Passed(l) \in Results
  <2>1. Len(sent) \in 1..Len(sent)
    BY DEF Shapes
  <2> QED BY <2>1 DEF Passed, Results
<1>3. CASE l.kind \in {"garbage", "list"}
  <2>1. pc' = "terminate" /\ results' = results
    BY <1>3 DEF Decode
  <2> QED BY <1>1, <2>1
<1>4. CASE l.kind \notin {"garbage", "list"}
  <2>1. /\ pc' = "item"
        /\ \/ results' = Append(results, [status |-> "FAIL"])
           \/ (Accepted(l, Item.intent) /\ results' = Append(results, Passed(l)))
    BY <1>4 DEF Decode, Fail
  <2>2. \A r \in Results : /\ Append(results, r) \in Seq(Results)
                           /\ Len(Append(results, r)) = Len(results) + 1
    BY <1>1
  <2> QED BY <1>1, <1>2, <2>1, <2>2
<1> QED BY <1>3, <1>4

\* One call of the transport, statement by statement.
LEMMA CallKeepsShapes ==
  ASSUME Shapes, Call PROVE Shapes'
<1>0. /\ batch \in Seq(Requests) /\ sent \in Seq(Payloads) /\ inbox \in Seq(1..Len(sent))
      /\ out \in Seq(Lines) /\ buffer \in Seq(Lines) /\ results \in Seq(Results)
      /\ [status |-> "FAIL"] \in Results
  BY DEF Shapes, Results
<1>1. CASE Write /\ child # "dead"
  <2>1. /\ pc = "write" /\ pc' = "select" /\ sent' = Append(sent, Payload(Item))
        /\ inbox' = Append(inbox, Len(sent) + 1)
        /\ UNCHANGED <<batch, via, results, out, buffer, fragment>>
    BY <1>1 DEF Write, caller
  <2>2. Item \in Requests /\ Len(results) < Len(batch)
    BY <1>0, <2>1 DEF Item, Shapes, InFlight
  <2>3. Payload(Item) \in Payloads /\ Payload(Item).intent = Item.intent
    BY <2>2 DEF Payload, Payloads, AdapterRequest, ShadowRequest
  <2>4. /\ sent' \in Seq(Payloads) /\ Len(sent') = Len(sent) + 1
        /\ sent'[Len(sent')] = Payload(Item)
        /\ 1..Len(sent) \subseteq 1..Len(sent') /\ Lines \subseteq Lines'
        /\ Results \subseteq Results'
    BY <2>1, <2>3, SentGrows
  <2>5. inbox' \in Seq(1..Len(sent')) /\ inbox' # <<>> /\ sent' # <<>>
    <3>1. Len(sent) + 1 \in 1..Len(sent') /\ inbox \in Seq(1..Len(sent'))
      <4>1. Len(sent) \in Nat
        BY <1>0
      <4>2. Len(sent) + 1 \in 1..Len(sent')
        BY <2>4, <4>1
      <4> QED BY <1>0, <2>4, <4>2
    <3> DEFINE S == 1..Len(sent')
    <3>2. inbox \in Seq(S) /\ Len(sent) + 1 \in S
      BY <3>1
    <3>3. inbox' \in Seq(1..Len(sent'))
      <4> HIDE DEF S
      <4>1. Append(inbox, Len(sent) + 1) \in Seq(S)
        BY <3>2
      <4> QED BY <2>1, <4>1 DEF S
    <3>4. inbox' # <<>> /\ sent' # <<>>
      <4>1. Len(inbox') = Len(inbox) + 1 /\ Len(inbox) \in Nat /\ Len(sent) \in Nat
        BY <1>0, <2>1
      <4> QED BY <2>4, <4>1
    <3> QED BY <3>3, <3>4
  <2>6. out' \in Seq(Lines') /\ buffer' \in Seq(Lines') /\ results' \in Seq(Results')
    BY <1>0, <2>1, <2>4
  <2>7. Item' = Item
    BY <2>1 DEF Item
  <2> QED BY <1>0, <2>1, <2>2, <2>3, <2>4, <2>5, <2>6, <2>7 DEF Shapes, InFlight
<1>2. CASE ~(Write /\ child # "dead")
  <2>1. UNCHANGED <<batch, via, sent, inbox>> /\ Lines' = Lines /\ Results' = Results
    BY <1>2 DEF Call, Refuse, Poll, Write, Select, Timeout, Read, Terminate, EndBatch, CloseEnds,
                caller, pipes, Lines, Ack, Results
  <2>2. CASE Read
    <3> DEFINE lines == IF buffer # <<>> THEN buffer ELSE out
    <3>0. pc = "read" /\ Len(results) < Len(batch)
      BY <2>2 DEF Read, Shapes, InFlight
    <3>1. CASE lines # <<>>
      <4>1. lines \in Seq(Lines)
        BY <1>0
      <4>2. Decode(Head(lines)) /\ buffer' = Tail(lines) /\ (out' = out \/ out' = <<>>)
            /\ (fragment' = fragment \/ fragment = "pipe")
        BY <2>2, <3>1 DEF Read
      <4>3. Head(lines) \in Lines /\ Tail(lines) \in Seq(Lines) /\ <<>> \in Seq(Lines)
        <5> HIDE DEF lines
        <5> QED BY <3>1, <4>1
      <4>4. buffer' \in Seq(Lines') /\ out' \in Seq(Lines')
        BY <1>0, <2>1, <4>2, <4>3
      <4>5. fragment' # "no" => inbox' # <<>>
        <5> HIDE DEF lines
        <5> QED BY <2>1, <4>2 DEF Shapes
      <4>6. pc' \in {"terminate", "item"} /\ results' \in Seq(Results)
            /\ (\/ Len(results') = Len(results)
             \/ (pc' = "item" /\ Len(results') = Len(results) + 1))
        BY <3>0, <4>2, <4>3, DecodedWell
      <4> QED BY <1>0, <2>1, <3>0, <4>4, <4>5, <4>6 DEF Shapes, InFlight
    <3>2. CASE lines = <<>>
      <4>1. /\ UNCHANGED <<out, buffer>> /\ fragment' = "no"
            /\ Decode([kind |-> "garbage"]) \/ Fail
        BY <2>2, <3>2 DEF Read
      <4>2. [kind |-> "garbage"] \in Lines
        BY DEF Lines, Noise
      <4>3. pc' \in {"terminate", "item"} /\ results' \in Seq(Results)
            /\ (\/ Len(results') = Len(results)
             \/ (pc' = "item" /\ Len(results') = Len(results) + 1))
        <5>1. CASE Decode([kind |-> "garbage"])
          BY <3>0, <4>2, <5>1, DecodedWell
        <5>2. CASE Fail
          BY <1>0, <5>2 DEF Fail
        <5> QED BY <4>1, <5>1, <5>2
      <4>4. buffer' \in Seq(Lines') /\ out' \in Seq(Lines')
        BY <1>0, <2>1, <4>1
      <4> QED BY <1>0, <2>1, <3>0, <4>1, <4>3, <4>4 DEF Shapes, InFlight
    <3> QED BY <3>1, <3>2
  <2>3. CASE Refuse \/ Terminate
    <3>1. Len(results) < Len(batch) /\ Fail /\ UNCHANGED pipes
      BY <2>3 DEF Refuse, Terminate, Shapes, InFlight
    <3>2. results' \in Seq(Results) /\ Len(results') = Len(results) + 1 /\ pc' = "item"
      BY <1>0, <3>1 DEF Fail
    <3>3. UNCHANGED <<out, buffer, fragment>>
      BY <3>1 DEF pipes
    <3>4. Len(results') <= Len(batch')
      <4>1. Len(results) \in Nat /\ Len(batch) \in Nat /\ batch' = batch
        BY <1>0, <2>1
      <4> QED BY <3>1, <3>2, <4>1
    <3>5. fragment' # "no" => inbox' # <<>>
      BY <2>1, <3>3 DEF Shapes
    <3>6. via' # "batch" /\ pc' \notin {"idle", "closing"} => Len(batch') = 1
      BY <2>1, <2>3 DEF Refuse, Terminate, Shapes
    <3> QED BY <1>0, <2>1, <3>2, <3>3, <3>4, <3>5, <3>6 DEF Shapes, InFlight
  <2>4. CASE Poll \/ Write \/ Select \/ Timeout \/ EndBatch \/ CloseEnds
    <3>1. UNCHANGED <<results, out, buffer, fragment>> /\ Item' = Item
      BY <2>1, <2>4 DEF Poll, Write, Select, Timeout, EndBatch, CloseEnds, pipes, Item
    <3>2. /\ pc' \in InFlight \cup {"idle", "item", "closing"}
          /\ pc' \in InFlight => Len(results) < Len(batch)
          /\ pc' \notin {"idle", "closing"} => pc \notin {"idle", "closing"}
          /\ pc' \in {"select", "read"} => pc \in {"select", "read"}
      BY <1>2, <2>4 DEF Poll, Write, Select, Timeout, EndBatch, CloseEnds, Shapes, InFlight
    <3> QED BY <1>0, <2>1, <3>1, <3>2 DEF Shapes, InFlight
  <2> QED BY <2>2, <2>3, <2>4 DEF Call
<1> QED BY <1>1, <1>2

\* What a read adds to the results.
LEMMA ReadAddsOne ==
  ASSUME Shapes, Read
  PROVE  \/ results' = results
         \/ results' = Append(results, [status |-> "FAIL"])
         \/ \E l \in Lines : /\ Accepted(l, Item.intent)
                             /\ results' = Append(results, Passed(l))
<1>1. pc = "read"
  BY DEF Read
<1> DEFINE lines == IF buffer # <<>> THEN buffer ELSE out
<1>2. CASE lines # <<>>
  <2>1. Decode(Head(lines))
    BY <1>2 DEF Read
  <2>2. lines \in Seq(Lines)
    BY DEF Shapes
  <2>3. Head(lines) \in Lines
    <3> HIDE DEF lines
    <3> QED BY <1>2, <2>2
  <2> QED BY <1>1, <2>1, <2>3, DecodedWell
<1>3. CASE lines = <<>>
  <2>1. Decode([kind |-> "garbage"]) \/ Fail
    BY <1>3 DEF Read
  <2>2. [kind |-> "garbage"] \in Lines
    BY DEF Lines, Noise
  <2>3. CASE Decode([kind |-> "garbage"])
    BY <1>1, <2>2, <2>3, DecodedWell
  <2>4. CASE Fail
    BY <2>4 DEF Fail
  <2> QED BY <2>1, <2>3, <2>4
<1> QED BY <1>2, <1>3

\* The three invariants hold in every state.
THEOREM ShapesStand == Spec => [](Shapes /\ FailedIsDead /\ AssessedNow)
<1>1. Init => Shapes /\ FailedIsDead /\ AssessedNow
  BY DEF Init, Shapes, FailedIsDead, AssessedNow, InFlight
<1>2. Shapes /\ FailedIsDead /\ AssessedNow /\ [Next]_vars
        => (Shapes /\ FailedIsDead /\ AssessedNow)'
  <2> SUFFICES ASSUME Shapes, FailedIsDead, AssessedNow, [Next]_vars
               PROVE  (Shapes /\ FailedIsDead /\ AssessedNow)'
    OBVIOUS
  <2>1. CASE RunBatch \/ AdapterSubmit \/ RunStrategy \/ Assess \/ InputsChange \/ Close
    BY <2>1, CallersKeepShapes, FailedStaysDead, AssessedStays
  <2>2. CASE Call
    BY <2>2, CallKeepsShapes, FailedStaysDead, AssessedStays
  <2>3. CASE Serve \/ Misanswer \/ Stutter \/ FinishLine \/ Die
    BY <2>3, ChildKeepsShapes, FailedStaysDead, AssessedStays
  <2>4. CASE UNCHANGED vars
    <3>1. Shapes'
      BY <2>4 DEF vars, caller, pipes, Shapes, InFlight, Item, Lines, Ack, Results
    <3> QED BY <3>1, FailedStaysDead, AssessedStays
  <2> QED BY <2>1, <2>2, <2>3, <2>4 DEF Next
<1> QED BY <1>1, <1>2, PTL DEF Spec

(***************************************************************************)
(* A PASS answers its intent                                               *)
(***************************************************************************)

\* AnswersIntents with the range of the numbers, so that what is sent later
\* changes nothing.
Answers(p, q) ==
  /\ p.to \in 1..Len(sent) /\ p.event.to \in 1..Len(sent) /\ p.event.to <= p.to
  /\ sent[p.event.to].intent.id = sent[p.to].intent.id
  /\ sent[p.to].intent = q.intent
Stands(items, of) == \A i \in 1..Len(items) : items[i].status = "PASS" => Answers(items[i], of[i])
Answered ==
  /\ Stands(results, batch) /\ Stands(artifact.items, artifact.of)
  /\ artifact.status = "SHADOW_PASS" =>
       Len(artifact.items) = 1 /\ artifact.items[1].status = "PASS"

\* One more result: those before it stay what they are.
LEMMA OneMoreStands ==
  ASSUME NEW items \in Seq(Results), NEW of, Stands(items, of), NEW r \in Results,
         r.status = "PASS" => Answers(r, of[Len(items) + 1])
  PROVE  Stands(Append(items, r), of)
<1> DEFINE more == Append(items, r)
<1>1. /\ Len(items) \in Nat /\ Len(more) = Len(items) + 1 /\ more[Len(items) + 1] = r
      /\ \A i \in 1..Len(items) : more[i] = items[i]
  OBVIOUS
<1> HIDE DEF more
<1>2. ASSUME NEW i \in 1..Len(more), more[i].status = "PASS" PROVE Answers(more[i], of[i])
  <2>1. CASE i = Len(items) + 1
    BY <1>1, <1>2, <2>1
  <2>2. CASE i # Len(items) + 1
    BY <1>1, <1>2, <2>2 DEF Stands
  <2> QED BY <2>1, <2>2
<1>3. Stands(more, of)
  BY <1>2 DEF Stands
<1> QED BY <1>3 DEF more

\* An accepted line is the answer to a request with the id of the last one.
LEMMA AcceptedAnswers ==
  ASSUME Shapes, pc = "read", NEW l \in Lines, Accepted(l, Item.intent)
  PROVE  Passed(l) \in Results /\ Answers(Passed(l), Item)
<1>1. PICK n \in 1..Len(sent) : l = Ack(n)
  BY DEF Lines, Noise, Accepted
<1>2. l.to = n /\ sent[n].intent.id = Item.intent.id
  BY <1>1 DEF Ack, Accepted
<1>3. Len(sent) \in 1..Len(sent) /\ sent[Len(sent)].intent = Item.intent
  BY DEF Shapes
<1>4. /\ Passed(l) \in Results /\ Passed(l).event = l /\ Passed(l).to = Len(sent)
  BY <1>3 DEF Passed, Results
<1> QED BY <1>2, <1>3, <1>4 DEF Answers

LEMMA AnsweredStays ==
  Shapes /\ Answered /\ [Next]_vars => Answered'
<1> SUFFICES ASSUME Shapes, Answered, [Next]_vars PROVE Answered'
  OBVIOUS
<1>0. results \in Seq(Results) /\ [status |-> "FAIL"] \in Results
  BY DEF Shapes, Results
<1>1. CASE Start(batch', via') /\ UNCHANGED <<artifact, sent>>
  BY <1>1 DEF Start, Answered, Stands, Answers
<1>2. CASE UNCHANGED <<results, batch, artifact, sent>>
  BY <1>2 DEF Answered, Stands, Answers
<1>3. CASE RunBatch \/ AdapterSubmit
  <2>1. Start(batch', via') /\ UNCHANGED <<artifact, sent>>
    BY <1>3 DEF RunBatch, AdapterSubmit, Start
  <2> QED BY <1>1, <2>1
<1>4. CASE RunStrategy
  <2>1. CASE assessed.allowed
    <3>1. Start(batch', via') /\ UNCHANGED <<artifact, sent>>
      BY <1>4, <2>1 DEF RunStrategy, Start
    <3> QED BY <1>1, <3>1
  <2>2. CASE ~assessed.allowed
    <3>1. UNCHANGED <<results, batch, sent>> /\ artifact' = RiskRejected
      BY <1>4, <2>2 DEF RunStrategy
    <3> QED BY <3>1 DEF RiskRejected, Answered, Stands, Answers
  <2> QED BY <2>1, <2>2
<1>5. CASE Assess \/ InputsChange \/ Close \/ CloseEnds \/ Poll \/ Select \/ Timeout
             \/ Serve \/ Misanswer \/ Stutter \/ FinishLine \/ Die \/ UNCHANGED vars
  BY <1>2, <1>5 DEF Assess, InputsChange, Close, CloseEnds, Poll, Select, Timeout,
                    Serve, Misanswer, Stutter, FinishLine, Die, vars, caller
<1>6. CASE Refuse \/ Terminate \/ Read
  <2>1. UNCHANGED <<batch, artifact, sent>>
    BY <1>6 DEF Refuse, Terminate, Read, caller
  <2>2. Stands(results, batch)
    BY DEF Answered
  <2>3. Stands(results', batch)
    <3>1. CASE results' = Append(results, [status |-> "FAIL"])
      <4>1. Stands(Append(results, [status |-> "FAIL"]), batch)
        BY <1>0, <2>2, OneMoreStands
      <4> QED BY <3>1, <4>1
    <3>2. CASE Refuse \/ Terminate
      BY <3>1, <3>2 DEF Refuse, Terminate, Fail
    <3>3. CASE Read
      <4>1. ASSUME NEW l \in Lines, Accepted(l, Item.intent), results' = Append(results, Passed(l))
            PROVE  Stands(results', batch)
        <5>1. Passed(l) \in Results /\ Answers(Passed(l), batch[Len(results) + 1])
          BY <3>3, <4>1, AcceptedAnswers DEF Read, Item
        <5>2. Stands(Append(results, Passed(l)), batch)
          BY <1>0, <2>2, <5>1, OneMoreStands
        <5> QED BY <4>1, <5>2
      <4> QED BY <2>2, <3>1, <3>3, <4>1, ReadAddsOne
    <3> QED BY <1>6, <3>2, <3>3
  <2>4. Stands(results, batch)'
    BY <2>1, <2>3 DEF Stands, Answers
  <2> QED BY <2>1, <2>4 DEF Answered, Stands, Answers
<1>7. CASE Write
  <2>1. UNCHANGED <<batch, results, artifact>>
    BY <1>7 DEF Write, caller
  <2>2. CASE sent' = sent
    BY <1>2, <2>1, <2>2
  <2>3. CASE sent' # sent
    <3>1. Len(sent') = Len(sent) + 1 /\ Len(sent) \in Nat /\ \A n \in 1..Len(sent) : sent'[n] = sent[n]
      <4>1. sent' = Append(sent, Payload(Item)) /\ sent \in Seq(Payloads)
        BY <1>7, <2>3 DEF Write, Shapes
      <4> QED BY <4>1
    <3>2. ASSUME NEW p, NEW q, Answers(p, q) PROVE Answers(p, q)'
      BY <3>1, <3>2 DEF Answers
    <3>3. ASSUME NEW items, NEW of, Stands(items, of) PROVE Stands(items, of)'
      BY <3>2, <3>3 DEF Stands
    <3> QED BY <2>1, <3>3 DEF Answered, Stands
  <2> QED BY <2>2, <2>3
<1>8. CASE EndBatch
  <2>1. UNCHANGED <<batch, results, sent>> /\ pc = "item" /\ Len(results) = Len(batch)
    BY <1>8 DEF EndBatch, caller
  <2>2. CASE artifact' = artifact
    BY <1>2, <2>1, <2>2
  <2>3. CASE artifact' = [status |-> Status, of |-> batch, items |-> results]
    <3>1. Stands(artifact.items, artifact.of)'
      BY <2>1, <2>3 DEF Answered, Stands, Answers
    <3>2. artifact'.status = "SHADOW_PASS" =>
            Len(artifact'.items) = 1 /\ artifact'.items[1].status = "PASS"
      <4>1. SUFFICES ASSUME Status = "SHADOW_PASS"
                     PROVE  Len(results) = 1 /\ results[1].status = "PASS"
        BY <2>3
      <4>2. via # "batch" /\ \A i \in 1..Len(results) : results[i].status = "PASS"
        BY <4>1 DEF Status
      <4>3. Len(results) = 1
        BY <2>1, <4>2 DEF Shapes
      <4> QED BY <4>2, <4>3
    <3> QED BY <2>1, <3>1, <3>2 DEF Answered, Stands, Answers
  <2> QED BY <1>8, <2>2, <2>3 DEF EndBatch
<1> QED BY <1>3, <1>4, <1>5, <1>6, <1>7, <1>8 DEF Next, Call

\* A PASS holds the child's answer to that very request or to an earlier one of
\* the same id (JsonlProcessTransport.submit, decode_event): however late or
\* often the child answers, and for any number of runs and faults.
THEOREM PassIsAnswered == Spec => []PassAnswersItsIntent
<1>1. Init => Answered
  BY DEF Init, Answered, Stands
<1>2. Answered => PassAnswersItsIntent
  BY DEF Answered, Stands, Answers, PassAnswersItsIntent, AnswersIntents
<1> QED BY <1>1, <1>2, AnsweredStays, ShapesStand, PTL DEF Spec

\* Once a call timed out, met a torn line or could not write, no later result
\* of this transport is a PASS (_terminate_fail_closed).
THEOREM TransportFailsClosed == Spec => FailsClosed
<1>1. Shapes /\ FailedIsDead /\ [Next]_vars =>
        [failed /\ results' # results /\ results' # <<>>
           => results'[Len(results')].status = "FAIL"]_vars
  <2> SUFFICES ASSUME Shapes, FailedIsDead, Next, failed, results' # results, results' # <<>>
               PROVE  results'[Len(results')].status = "FAIL"
    BY DEF vars
  <2>1. ~Read
    BY DEF Read, FailedIsDead
  <2>2. Refuse \/ Terminate
    BY <2>1 DEF Next, Call, RunBatch, AdapterSubmit, RunStrategy, Assess, InputsChange, Start, Close,
               CloseEnds, Poll, Write, Select, Timeout, EndBatch, Serve, Misanswer, Stutter,
               FinishLine, Die
  <2>3. results' = Append(results, [status |-> "FAIL"]) /\ results \in Seq(Results)
    BY <2>2 DEF Refuse, Terminate, Fail, Shapes
  <2>4. Len(results') = Len(results) + 1 /\ results'[Len(results) + 1] = [status |-> "FAIL"]
    BY <2>3
  <2> QED BY <2>4
<1> QED BY <1>1, ShapesStand, PTL DEF Spec, FailsClosed

\* An order of a strategy reaches the child only under the portfolio, limits and
\* context with which the risk gate allowed it (build_order_intent).
THEOREM SentOnlyAsAssessed == Spec => SentAsAssessed
<1>1. AssessedNow /\ [Next]_vars =>
        [via = "strategy" /\ sent' # sent => RiskAllows(assessed.candidate, inputs)]_vars
  <2> SUFFICES ASSUME AssessedNow, Next, via = "strategy", sent' # sent
               PROVE  RiskAllows(assessed.candidate, inputs)
    BY DEF vars
  <2>1. Write
    BY DEF Next, Call, RunBatch, AdapterSubmit, RunStrategy, Assess, InputsChange, Close,
           CloseEnds, Refuse, Poll, Select, Timeout, Read, Terminate, EndBatch, Serve, Misanswer,
           Stutter, FinishLine, Die
  <2> QED BY <2>1 DEF Write, AssessedNow
<1> QED BY <1>1, ShapesStand, PTL DEF Spec, SentAsAssessed

(***************************************************************************)
(* The production gate: what binds one chain                               *)
(***************************************************************************)

\* What a bundle of research evidence binds, whatever its sources became since.
EvidenceBinds(e) ==
  /\ e.base.result = e.result
  /\ {e.nulled.oos, e.base.oos} = {e.oos}
  /\ {e.oos.spec, e.nulled.spec, e.base.spec} = {e.spec}
  /\ {e.spec.factor, e.base.factor} = {e.factor}

DecisionBinds(d) == d.evidence # Absent => OneEvaluation(d)

\* The last transition decides; the registry's history is a sequence.
IsHistory(h) == \E S : h \in Seq(S)
RecordBinds ==
  /\ IsHistory(record.transitions)
  /\ record.transitions # <<>> => DecisionBinds(LastTransition.evidence.decision)

\* A decision that passed, with all the evidence it names.
PassedSoundly(d) == d.status = "PASS" => OneChain(d) /\ d.raw.obs.done = d.raw.obs.intents

\* The inductive invariant: every file that binds others binds one chain.
Chains ==
  /\ evidence # Absent => EvidenceBinds(evidence)
  /\ decision # Absent => DecisionBinds(decision)
  /\ RecordBinds
  /\ dec # Absent \/ bridge # Absent => PassedSoundly(dec)
  /\ EligibleRestsOnOneChain

\* A history that is continued ends in what was appended.
LEMMA HistoryContinued ==
  ASSUME NEW h, NEW e, IsHistory(h)
  PROVE  /\ IsHistory(Append(h, e)) /\ Append(h, e) # <<>>
         /\ Append(h, e)[Len(Append(h, e))] = e
<1>1. PICK S : h \in Seq(S)
  BY DEF IsHistory
<1>2. h \in Seq(S \cup {e}) /\ e \in S \cup {e}
  BY <1>1
<1>3. Append(h, e) \in Seq(S \cup {e}) /\ Len(Append(h, e)) = Len(h) + 1
      /\ Append(h, e)[Len(h) + 1] = e /\ Len(h) \in Nat
  BY <1>2
<1>4. Append(h, e) # <<>>
  BY <1>3
<1> QED BY <1>3, <1>4 DEF IsHistory

\* A bundle is built only of what belongs together.
LEMMA BundleBinds ==
  ASSUME NEW r, NEW o, NEW n, NEW b, Binds(r, o, n, b)
  PROVE  EvidenceBinds(Bundle(r, o, n, b))
  BY DEF Binds, SameFactor, Bundle, EvidenceBinds, ResultHash, OOSHash, NullHash, BaseHash

\* A decision that names a bundle is about the result the bundle is about.
LEMMA AboutBinds ==
  ASSUME NEW e, NEW r, NEW status, NEW policy, EvidenceBinds(e), AboutResult(e, r)
  PROVE  DecisionBinds(ResearchDecision(status, r, policy, BundleHash(e)))
  BY DEF EvidenceBinds, AboutResult, DecisionBinds, ResearchDecision, BundleHash, OneEvaluation

\* A decision without failures names one chain, complete when it passes.
LEMMA SoundIsOneChain ==
  ASSUME NEW rules, NEW trusted, NEW policy, Sound(rules, trusted, policy)
  PROVE  /\ OneChain(Decision(rules, trusted, policy))
         /\ cov.status # "COVERAGE_INCOMPLETE" => bundle.raw.obs.done = bundle.raw.obs.intents
         /\ qual.sourceRun = bundle.run /\ bundle.raw = raw
<1> DEFINE d == Decision(rules, trusted, policy)
<1>1. /\ d.prov = prov /\ d.measured = MeasuredHash(measured) /\ d.qual = qual /\ d.att = att
      /\ d.ver = ver /\ d.cov = cov /\ d.raw = bundle.raw /\ d.target = prov.target
      /\ d.policy = policy
  BY DEF Decision
<1>2. /\ d.measured.prov = measured.prov /\ d.measured.raw = measured.source.raw
      /\ d.measured.target = measured.target
  BY <1>1 DEF MeasuredHash
<1>3. /\ prov.ready /\ measured.prov = prov /\ measured.target = prov.target
      /\ measured.obs.target = prov.target /\ measured.obs.sound
  BY DEF Sound, MeasuredVerified, MeasuredStatus
<1>4. /\ measured.source = bundle /\ measured.obs = bundle.raw.obs
      /\ measured.target = bundle.raw.manifest.target
  BY DEF Sound, MeasuredFromBundle
<1>5. /\ qual.evidence = MeasuredHash(measured) /\ qual.sourceRun = measured.source.run
      /\ qual.collector \in policy.source
  BY DEF Sound, QualificationVerified
<1>6. /\ att.qual = qual /\ ver.att = att
      /\ <<att.key, att.qual.collector>> \in policy.keys
      /\ att.signature = [by |-> att.key, over |-> AttestedPayload(att.qual, att.key)]
  BY DEF Sound, AttestationVerified, SignatureVerified, SignatureStatus
<1>7. /\ bundle.raw = raw /\ cov.raw = bundle.raw
      /\ cov.status = CoverageStatus(bundle.raw) /\ cov.status # "COVERAGE_BLOCKED"
  BY DEF Sound, CoverageVerified
<1>8. /\ bundle.raw.obs.intents = bundle.raw.manifest.intents
      /\ cov.status # "COVERAGE_INCOMPLETE" => bundle.raw.obs.done = bundle.raw.obs.intents
  BY <1>7 DEF CoverageStatus, CoverageBlocked
<1>9. OneChain(d)
  <2> HIDE DEF d
  <2> QED BY <1>1, <1>2, <1>3, <1>4, <1>5, <1>6, <1>7, <1>8 DEF OneChain
<1> QED BY <1>4, <1>5, <1>7, <1>8, <1>9

\* Decide writes a decision that, if it passed, names one complete chain, of the
\* bundle and the bytes that are there now.
LEMMA DecidedPasses ==
  ASSUME NEW rules, NEW trusted, NEW policy, Decision(rules, trusted, policy).status = "PASS"
  PROVE  /\ PassedSoundly(Decision(rules, trusted, policy))
         /\ Decision(rules, trusted, policy).qual.sourceRun = bundle.run
         /\ Decision(rules, trusted, policy).raw = raw
<1>1. DecisionStatus(rules, trusted, policy) = "PASS"
  BY DEF Decision
<1>2. Sound(rules, trusted, policy) /\ cov.status # "COVERAGE_INCOMPLETE"
  BY <1>1 DEF DecisionStatus
<1>3. /\ Decision(rules, trusted, policy).raw = bundle.raw
      /\ Decision(rules, trusted, policy).qual = qual
  BY DEF Decision
<1> QED BY <1>2, <1>3, SoundIsOneChain DEF PassedSoundly

\* The research side keeps what binds.
LEMMA ResearchKeeps ==
  ASSUME Chains, Research PROVE Chains'
<1>1. /\ UNCHANGED <<bundle, dec, bridge, verdict, record>>
      /\ RecordBinds' /\ EligibleRestsOnOneChain' /\ (dec' # Absent \/ bridge' # Absent => PassedSoundly(dec'))
  BY DEF Research, Chains, RecordBinds, LastTransition, EligibleRestsOnOneChain
<1>2. (evidence' # Absent => EvidenceBinds(evidence')) /\ (decision' # Absent => DecisionBinds(decision'))
  <2>1. CASE Evaluate
    BY <2>1 DEF Chains, Evaluate
  <2>2. CASE ControlNull
    BY <2>2 DEF Chains, ControlNull
  <2>3. CASE CompareBaseline
    BY <2>3 DEF Chains, CompareBaseline
  <2>4. CASE BuildEvidence
    BY <2>4, BundleBinds DEF Chains, BuildEvidence
  <2>5. CASE ValidateResult
    BY <2>5 DEF Chains, ValidateResult, Decided, ResearchDecision, DecisionBinds
  <2>6. CASE ValidateWithBundle
    BY <2>6, AboutBinds DEF Chains, ValidateWithBundle, Decided
  <2>7. CASE ValidateEvidence
    BY <2>7, AboutBinds DEF Chains, ValidateEvidence, Decided
  <2> QED BY <2>1, <2>2, <2>3, <2>4, <2>5, <2>6, <2>7 DEF Research, ResearchNext
<1> QED BY <1>1, <1>2 DEF Chains

\* The registry's history goes on with a decision that binds.
LEMMA PromotionKeeps ==
  ASSUME Chains, PromoteFactor PROVE Chains'
<1>1. PICK after \in {"VALIDATED", "REJECTED", "PRODUCTION_ELIGIBLE", "DEPRECATED"} :
        /\ decision # Absent
        /\ record' = [status |-> after,
                      transitions |-> Append(record.transitions,
                        [before |-> record.status, after |-> after, evidence |-> Evidence])]
        /\ UNCHANGED <<raw, bundle, prov, measured, qual, att, ver, cov, dec, bridge, verdict,
                       researchVars, rebuilds>>
  BY DEF PromoteFactor
<1> DEFINE new == [before |-> record.status, after |-> after, evidence |-> Evidence]
<1>2. /\ IsHistory(record'.transitions)
      /\ record'.transitions[Len(record'.transitions)] = new
  <2>1. record'.transitions = Append(record.transitions, new)
    BY <1>1
  <2>2. IsHistory(record.transitions)
    BY DEF Chains, RecordBinds
  <2> HIDE DEF new
  <2> QED BY <2>1, <2>2, HistoryContinued
<1>3. new.evidence.decision = decision
  BY DEF Evidence
<1>4. RecordBinds'
  <2>1. DecisionBinds(decision)
    BY <1>1 DEF Chains
  <2> HIDE DEF new
  <2> QED BY <1>2, <1>3, <2>1 DEF RecordBinds, LastTransition
<1> QED BY <1>1, <1>4 DEF Chains, researchVars, EligibleRestsOnOneChain

\* The gate reads one decision, one bridge and one record, all of them now.
LEMMA GateKeeps ==
  ASSUME Chains, Gate PROVE EligibleRestsOnOneChain'
<1>1. PICK policy \in Policies : bridge # Absent /\ verdict' = Verdict(policy)
  BY DEF Gate
<1> SUFFICES ASSUME verdict'.status = "ELIGIBLE"
    PROVE  LET d == verdict'.dec
               history == verdict'.record.transitions
           IN  /\ verdict'.bridge.dec = d /\ verdict'.bridge.record = verdict'.record
               /\ OneChain(d) /\ d.raw.obs.done = d.raw.obs.intents
               /\ d.policy = verdict'.policy /\ d.target \in Registered
               /\ verdict'.record.status = "VALIDATED"
               /\ history # <<>> /\ OneEvaluation(history[Len(history)].evidence.decision)
  BY DEF EligibleRestsOnOneChain
<1>2. /\ verdict'.dec = dec /\ verdict'.record = record /\ verdict'.bridge = bridge
      /\ verdict'.policy = policy /\ GateStatus(policy) = "ELIGIBLE"
  BY <1>1 DEF Verdict
<1>3. DecisionFits(policy) /\ bridge = Bridge(policy) /\ bridge.status = "ACCEPTED"
  BY <1>2 DEF GateStatus
<1>4. ResearchStands /\ bridge.dec = dec /\ bridge.record = record
  BY <1>3 DEF Bridge
<1>5. PassedSoundly(dec) /\ RecordBinds
  BY <1>1 DEF Chains
<1>6. OneChain(dec) /\ dec.raw.obs.done = dec.raw.obs.intents
  BY <1>3, <1>5 DEF PassedSoundly, DecisionFits
<1>7. record.transitions # <<>> /\ OneEvaluation(LastTransition.evidence.decision)
  BY <1>4, <1>5 DEF ResearchStands, RecordBinds, DecisionBinds
<1> QED BY <1>2, <1>3, <1>4, <1>6, <1>7 DEF DecisionFits, LastTransition

\* The rest of the venue side builds what nothing binds yet, or what it binds itself.
LEMMA VenueKeeps ==
  ASSUME Chains, VenueNext, ~Research, ~PromoteFactor PROVE Chains'
<1>1. UNCHANGED <<evidence, decision, record>>
  BY DEF VenueNext, Collect, ImportBundle, BuildProvenance, Measure, QualifySource, AttestAcquisition,
         CheckSignature, EvaluateCoverage, Decide, BuildBridge, Gate, researchVars
<1>2. /\ evidence' # Absent => EvidenceBinds(evidence')
      /\ decision' # Absent => DecisionBinds(decision')
      /\ RecordBinds'
  BY <1>1 DEF Chains, RecordBinds, LastTransition
<1>3. CASE Decide
  <2>1. PICK rules \in SourcePolicies, trusted \in KeyPolicies, policy \in Policies :
          dec' = Decision(rules, trusted, policy) /\ UNCHANGED verdict
    BY <1>3 DEF Decide
  <2>2. PassedSoundly(dec')
    BY <2>1, DecidedPasses DEF PassedSoundly
  <2> QED BY <1>2, <2>1, <2>2 DEF Chains, EligibleRestsOnOneChain
<1>4. CASE BuildBridge
  <2>1. dec # Absent /\ UNCHANGED <<dec, verdict>>
    BY <1>4 DEF BuildBridge
  <2> QED BY <1>2, <2>1 DEF Chains, EligibleRestsOnOneChain
<1>5. CASE Gate
  BY <1>2, <1>5, GateKeeps DEF Chains, Gate
<1>6. CASE ~Decide /\ ~BuildBridge /\ ~Gate
  <2>1. UNCHANGED <<dec, bridge, verdict>>
    BY <1>6 DEF VenueNext, Collect, ImportBundle, BuildProvenance, Measure, QualifySource,
                AttestAcquisition, CheckSignature, EvaluateCoverage
  <2> QED BY <1>2, <2>1 DEF Chains, EligibleRestsOnOneChain
<1> QED BY <1>3, <1>4, <1>5, <1>6

\* Whatever files are rebuilt and mixed in whatever order, each that binds
\* others binds one chain.
THEOREM ChainsStand == VenueSpec => []Chains
<1>1. VenueInit => Chains
  <2> SUFFICES ASSUME VenueInit PROVE Chains
    OBVIOUS
  <2>1. record.transitions = <<>> /\ <<>> \in Seq({})
    BY DEF VenueInit
  <2>2. RecordBinds
    BY <2>1 DEF RecordBinds, IsHistory
  <2> QED BY <2>2 DEF VenueInit, ResearchInit, Chains, EligibleRestsOnOneChain
<1>2. Chains /\ [VenueNext]_venueVars => Chains'
  <2> SUFFICES ASSUME Chains, [VenueNext]_venueVars PROVE Chains'
    OBVIOUS
  <2>1. CASE VenueNext
    BY <2>1, ResearchKeeps, PromotionKeeps, VenueKeeps
  <2>2. CASE UNCHANGED venueVars
    BY <2>2 DEF venueVars, researchVars, Chains, RecordBinds, LastTransition, EligibleRestsOnOneChain
  <2> QED BY <2>1, <2>2
<1> QED BY <1>1, <1>2, PTL DEF VenueSpec

\* An ELIGIBLE verdict of the gate rests on one complete, trusted chain of the
\* venue and on one evaluation of the factor.
THEOREM EligibleIsOneChain == VenueSpec => []EligibleRestsOnOneChain
<1>1. Chains => EligibleRestsOnOneChain
  BY DEF Chains
<1> QED BY <1>1, ChainsStand, PTL

\* A PASS decides the run that was attested and the bytes that are there.
THEOREM PassIsAttested == VenueSpec => PassDecidesTheAttestedRun
<1>1. [VenueNext]_venueVars => [dec' # dec /\ dec'.status = "PASS" =>
                             dec'.qual.sourceRun = bundle.run /\ dec'.raw = raw]_venueVars
  <2> SUFFICES ASSUME VenueNext, dec' # dec, dec'.status = "PASS"
      PROVE  dec'.qual.sourceRun = bundle.run /\ dec'.raw = raw
    OBVIOUS
  <2>1. Decide
    BY DEF VenueNext, Collect, ImportBundle, BuildProvenance, Measure, QualifySource, AttestAcquisition,
           CheckSignature, EvaluateCoverage, BuildBridge, Gate, PromoteFactor, Research
  <2>2. PICK rules \in SourcePolicies, trusted \in KeyPolicies, policy \in Policies :
          dec' = Decision(rules, trusted, policy)
    BY <2>1 DEF Decide
  <2> QED BY <2>2, DecidedPasses
<1> QED BY <1>1, PTL DEF VenueSpec, PassDecidesTheAttestedRun
================================================================================
