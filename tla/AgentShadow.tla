------------------------------ MODULE AgentShadow ------------------------------
(* The paid half of the agent shadow research: replay workers that send rows  *)
(* through a fixed chain of model calls, the cost budget the workers of one   *)
(* process share, and the append-only directory each worker resumes from.     *)
(*                                                                            *)
(* What a model says is abstracted to how its call ends and what it is        *)
(* charged; a row to whether its evidence lets it reach a model.              *)
EXTENDS Integers, Sequences, FiniteSets, FiniteSetsExt

CONSTANTS
    Workers,       \* threads, each with a runner, transports and directory
    Rows,          \* the plan's rows in input order, no row twice
    Callable,      \* the rows whose context and evidence are valid
    Roles,         \* the K3 roles in calling order, then the judge
    MaxCost,       \* role -> upper bound reserved for one call of it
    Charges,       \* what a call with known usage may turn out to cost
    Limit,         \* limit_usd of a process's budget
    Headroom,      \* row_headroom_usd
    MaxRows,       \* max_rows of one run
    MaxAttempts,   \* max_attempts: non-final attempts of a row, over all runs
    MaxProcesses   \* bound: processes started one after another

VARIABLES
    process,       \* number of the running process
    spent, heldUsd, locked,       \* its CostBudget
    excess,        \* history: what charges exceeded their reservations by
    where,         \* worker -> the statement it is at
    at,            \* worker -> place in Rows of the row in hand
    calls,         \* worker -> the records of that row's calls, in order
    hold,          \* worker -> amount of its open reservation
    done, attempts, attempted, \* worker -> what run_replay counts
    binding,       \* worker's directory -> "none", "torn" or "written"
    artifacts,     \* worker's directory -> lines of artifacts.jsonl
    map            \* worker's directory -> lines of redaction_map.jsonl

budget == <<spent, heldUsd, locked, excess>>
memory == <<where, at, calls, hold, done, attempts, attempted>>
disk == <<binding, artifacts, map>>
replayVars == <<process, budget, memory, disk>>

RowSet == {Rows[i] : i \in 1..Len(Rows)}

ASSUME ReplayAssumption ==
    /\ IsFiniteSet(Workers) /\ Rows \in Seq(RowSet)
    /\ MaxCost \in [DOMAIN MaxCost -> Nat]
    /\ Roles \in Seq(DOMAIN MaxCost) /\ Roles # <<>>
    /\ Charges \subseteq Nat
    /\ {Limit, Headroom, MaxRows, MaxAttempts} \subseteq Nat
    /\ MaxProcesses \in Nat \ {0}

Outcome == {"OK", "TIMEOUT", "API_ERROR", "INVALID_OUTPUT", "BUDGET_EXCEEDED",
            "INPUT_TOO_LARGE", "CLIENT_UNTRUSTED"}
Call == [outcome : Outcome, overrun : BOOLEAN]
(* A line of a file. What a cut write leaves has no newline: "open" is all of *)
(* the line's text, "torn" is less. "joined" is such a rest and the next line *)
(* on one line. A reader can parse "whole" and "open".                        *)
Line == [row : RowSet, final : BOOLEAN, text : {"whole", "open", "torn", "joined"}]

NoCalls == <<>>
Row(w) == Rows[at[w]]
OutcomesOf(w) == {calls[w][i].outcome : i \in 1..Len(calls[w])}
Overran(w) == \E i \in 1..Len(calls[w]) : calls[w][i].overrun

(* is_final: a setup failure or a retryable end leaves the row for another    *)
(* attempt; a verdict, refused evidence and invalid output do not.            *)
Final(w) ==
    /\ OutcomesOf(w) \cap {"TIMEOUT", "API_ERROR", "BUDGET_EXCEEDED", "CLIENT_UNTRUSTED"} = {}
    /\ ~Overran(w)

BudgetCut(w) == locked \/ Overran(w) \/ "BUDGET_EXCEEDED" \in OutcomesOf(w)

ReplayInit ==
    /\ process = 1
    /\ spent = 0 /\ heldUsd = 0 /\ locked = FALSE /\ excess = 0
    /\ where = [w \in Workers |-> "start"]
    /\ at = [w \in Workers |-> 0]
    /\ calls = [w \in Workers |-> NoCalls]
    /\ hold = [w \in Workers |-> 0]
    /\ done = [w \in Workers |-> {}]
    /\ attempts = [w \in Workers |-> [r \in RowSet |-> 0]]
    /\ attempted = [w \in Workers |-> 0]
    /\ binding = [w \in Workers |-> "none"]
    /\ artifacts = [w \in Workers |-> <<>>]
    /\ map = [w \in Workers |-> <<>>]

Go(w, s) == where' = [where EXCEPT ![w] = s]

(* The append of a line behind whatever the file ends with.                   *)
Unterminated(file) == file # <<>> /\ file[Len(file)].text \in {"open", "torn"}
Appended(file, line) ==
    IF Unterminated(file)
    THEN [file EXCEPT ![Len(file)].text = IF line.text = "whole" THEN "joined" ELSE "torn"]
    ELSE Append(file, line)
Written(r, f) == [row |-> r, final |-> f, text |-> "whole"]

Readable(file) == {i \in 1..Len(file) : file[i].text \in {"whole", "open"}}
FinalRows(file) == {file[i].row : i \in {j \in Readable(file) : file[j].final}}
Failed(file, r) == Cardinality({i \in Readable(file) : file[i].row = r /\ ~file[i].final})

(* attempt_state, once per run: any line that does not parse stops the run.   *)
Start(w) ==
    /\ where[w] = "start"
    /\ IF Readable(artifacts[w]) # 1..Len(artifacts[w])
       THEN Go(w, "raised") /\ UNCHANGED <<done, attempts>>
       ELSE /\ done' = [done EXCEPT ![w] = FinalRows(artifacts[w])]
            /\ attempts' = [attempts EXCEPT ![w] = [r \in RowSet |-> Failed(artifacts[w], r)]]
            /\ Go(w, "bind")
    /\ UNCHANGED <<process, budget, at, calls, hold, attempted, disk>>

(* validate_run_binding(create=True), before the first call of the directory. *)
Bind(w) ==
    /\ where[w] = "bind"
    /\ IF binding[w] = "torn" \/ (binding[w] = "none" /\ artifacts[w] # <<>>)
       THEN Go(w, "raised") /\ UNCHANGED binding
       ELSE Go(w, "rows") /\ binding' = [binding EXCEPT ![w] = "written"]
    /\ UNCHANGED <<process, budget, at, calls, hold, done, attempts, attempted,
                   artifacts, map>>

Open(w) == {i \in at[w] + 1..Len(Rows) : Rows[i] \notin done[w] /\ attempts[w][Rows[i]] < MaxAttempts}

(* The head of run_replay's loop: rows that are done or exhausted are skipped *)
(* and the budget is looked at before a row starts. A row without valid       *)
(* context and evidence is BLOCKED, finally, without a call.                  *)
StartRow(w) ==
    /\ where[w] = "rows"
    /\ Open(w) # {} /\ attempted[w] < MaxRows
    /\ ~locked /\ Limit - spent - heldUsd >= Headroom
    /\ at' = [at EXCEPT ![w] = Min(Open(w))]
    /\ calls' = [calls EXCEPT ![w] = NoCalls]
    /\ Go(w, IF Rows[Min(Open(w))] \in Callable THEN "call" ELSE "map")
    /\ UNCHANGED <<process, budget, hold, done, attempts, attempted, disk>>

StopRun(w) ==
    /\ where[w] = "rows"
    /\ \/ Open(w) = {}
       \/ attempted[w] >= MaxRows
       \/ locked
       \/ Limit - spent - heldUsd < Headroom
    /\ Go(w, "ended")
    /\ UNCHANGED <<process, budget, at, calls, hold, done, attempts, attempted, disk>>

Role(w) == Roles[Len(calls[w]) + 1]
Recorded(w, outcome, overrun) ==
    calls' = [calls EXCEPT ![w] = Append(@, [outcome |-> outcome, overrun |-> overrun])]

(* What the transport checks before it reserves.                              *)
Unsent(w) ==
    /\ where[w] = "call"
    /\ \E o \in {"INPUT_TOO_LARGE", "CLIENT_UNTRUSTED"} : Recorded(w, o, FALSE)
    /\ Go(w, "map")
    /\ UNCHANGED <<process, budget, at, hold, done, attempts, attempted, disk>>

\* Fault: what other calls hold is not counted.
FitsSpent(amount) == ~locked /\ spent + amount <= Limit
Fits(amount) == ~locked /\ spent + heldUsd + amount <= Limit

Reserve(w) ==
    /\ where[w] = "call" /\ Fits(MaxCost[Role(w)])
    /\ heldUsd' = heldUsd + MaxCost[Role(w)]
    /\ hold' = [hold EXCEPT ![w] = MaxCost[Role(w)]]
    /\ Go(w, "wait")
    /\ UNCHANGED <<process, spent, locked, excess, at, calls, done, attempts,
                   attempted, disk>>

Refuse(w) ==
    /\ where[w] = "call" /\ ~Fits(MaxCost[Role(w)])
    /\ Go(w, "refused")
    /\ UNCHANGED <<process, budget, at, calls, hold, done, attempts, attempted, disk>>

(* The refusal is recorded with the lock as it is by then.                    *)
RecordRefusal(w) ==
    /\ where[w] = "refused"
    /\ Recorded(w, "BUDGET_EXCEEDED", locked)
    /\ Go(w, "map")
    /\ UNCHANGED <<process, budget, at, hold, done, attempts, attempted, disk>>

(* The call is over: CallLedger.record prices it, settles the reservation and *)
(* keeps the record. A call that failed is charged its reservation; reported  *)
(* usage is charged as reported, or as the reservation if it is larger and a  *)
(* count is missing. A cost no float can hold charges the reservation and     *)
(* locks. The budget locks too when a charge exceeds its reservation.         *)
ChargesOf(w, outcome) ==
    IF outcome \in {"TIMEOUT", "API_ERROR"}
    THEN {hold[w]}
    ELSE Charges \cup {hold[w]}
Max0(n) == IF n > 0 THEN n ELSE 0
Settle(w, charge, lockBudget) ==
    /\ spent' = spent + charge
    /\ heldUsd' = Max0(heldUsd - hold[w])
    /\ hold' = [hold EXCEPT ![w] = 0]
    /\ locked' = (locked \/ charge > hold[w] \/ lockBudget)
    /\ excess' = excess + Max0(charge - hold[w])
Answer(w) ==
    /\ where[w] = "wait"
    /\ \E outcome \in {"OK", "TIMEOUT", "API_ERROR", "INVALID_OUTPUT"}, valid, odd \in BOOLEAN :
       \E charge \in ChargesOf(w, outcome) :
          /\ valid => outcome = "OK"
          /\ odd => outcome \in {"OK", "INVALID_OUTPUT"} /\ charge = hold[w]
          /\ Settle(w, charge, odd)
          /\ Recorded(w, outcome, charge > hold[w] \/ odd)
          /\ Go(w, IF valid /\ Len(calls[w]) + 1 < Len(Roles) THEN "call" ELSE "map")
    /\ UNCHANGED <<process, at, done, attempts, attempted, disk>>

(* ReplayWriter.append: first the entry that maps the row back, then the      *)
(* artifact; each is flushed and synced.                                      *)
\* Fault: only a final attempt gets its entry.
MapFinalOnly(w) ==
    /\ where[w] = "map"
    /\ map' = IF Final(w) THEN [map EXCEPT ![w] = Appended(@, Written(Row(w), TRUE))] ELSE map
    /\ Go(w, "artifact")
    /\ UNCHANGED <<process, budget, at, calls, hold, done, attempts, attempted,
                   binding, artifacts>>
WriteMap(w) ==
    /\ where[w] = "map"
    /\ map' = [map EXCEPT ![w] = Appended(@, Written(Row(w), Final(w)))]
    /\ Go(w, "artifact")
    /\ UNCHANGED <<process, budget, at, calls, hold, done, attempts, attempted,
                   binding, artifacts>>

(* budget_cut was read before the writing; a lock that falls meanwhile is     *)
(* seen at the head of the loop, so it is read here.                          *)
WriteArtifact(w) ==
    /\ where[w] = "artifact"
    /\ artifacts' = [artifacts EXCEPT ![w] = Appended(@, Written(Row(w), Final(w)))]
    /\ attempted' = [attempted EXCEPT ![w] = @ + 1]
    /\ Go(w, IF BudgetCut(w) \/ "CLIENT_UNTRUSTED" \in OutcomesOf(w) THEN "ended" ELSE "rows")
    /\ UNCHANGED <<process, budget, at, calls, hold, done, attempts, binding, map>>

(* What a write that was cut leaves: nothing, a part of the line, all of it   *)
(* but the newline, or all of it.                                             *)
Cut(file, line) ==
    {file} \cup {Appended(file, [line EXCEPT !.text = t]) : t \in {"whole", "open", "torn"}}
CutBinding(w) ==
    IF where[w] = "bind" /\ binding[w] = "none" /\ artifacts[w] = <<>>
    THEN {"none", "torn", "written"} ELSE {binding[w]}
CutMap(w) ==
    IF where[w] = "map" THEN Cut(map[w], Written(Row(w), Final(w))) ELSE {map[w]}
CutArtifacts(w) ==
    IF where[w] = "artifact" THEN Cut(artifacts[w], Written(Row(w), Final(w))) ELSE {artifacts[w]}

(* A new process on the same directories, with a budget of its own: the old   *)
(* one has ended, or died at any statement.                                   *)
NewProcess ==
    /\ process < MaxProcesses
    /\ process' = process + 1
    /\ spent' = 0 /\ heldUsd' = 0 /\ locked' = FALSE /\ excess' = 0
    /\ where' = [w \in Workers |-> "start"]
    /\ at' = [w \in Workers |-> 0]
    /\ calls' = [w \in Workers |-> NoCalls]
    /\ hold' = [w \in Workers |-> 0]
    /\ done' = [w \in Workers |-> {}]
    /\ attempts' = [w \in Workers |-> [r \in RowSet |-> 0]]
    /\ attempted' = [w \in Workers |-> 0]
    /\ binding' \in {b \in [Workers -> {"none", "torn", "written"}] :
                        \A w \in Workers : b[w] \in CutBinding(w)}
    /\ \E a \in [Workers -> UNION {CutArtifacts(w) : w \in Workers}],
          m \in [Workers -> UNION {CutMap(w) : w \in Workers}] :
          /\ \A w \in Workers : a[w] \in CutArtifacts(w) /\ m[w] \in CutMap(w)
          /\ artifacts' = a /\ map' = m

Step(w) ==
    \/ Start(w) \/ Bind(w) \/ StartRow(w) \/ StopRun(w)
    \/ Unsent(w) \/ Reserve(w) \/ Refuse(w) \/ RecordRefusal(w) \/ Answer(w)
    \/ WriteMap(w) \/ WriteArtifact(w)

ReplayNext == NewProcess \/ \E w \in Workers : Step(w)

ReplaySpec == ReplayInit /\ [][ReplayNext]_replayVars

--------------------------------------------------------------------------------

Stage == {"start", "bind", "rows", "call", "wait", "refused", "map", "artifact", "ended", "raised"}

ReplayTypes ==
    /\ process \in 1..MaxProcesses
    /\ spent \in Nat /\ heldUsd \in Nat /\ locked \in BOOLEAN /\ excess \in Nat
    /\ where \in [Workers -> Stage]
    /\ at \in [Workers -> 0..Len(Rows)]
    /\ calls \in [Workers -> Seq(Call)]
    /\ hold \in [Workers -> Nat]
    /\ done \in [Workers -> SUBSET RowSet]
    /\ attempts \in [Workers -> [RowSet -> Nat]]
    /\ attempted \in [Workers -> Nat]
    /\ binding \in [Workers -> {"none", "torn", "written"}]
    /\ artifacts \in [Workers -> Seq(Line)]
    /\ map \in [Workers -> Seq(Line)]

(* The budget's sums are those of the calls, whichever way the threads take   *)
(* turns: what is held is what open calls hold, and spent and held together   *)
(* pass the limit only by what providers charged above a reservation, which   *)
(* has locked the budget (CostBudget.reserve and settle).                     *)
SpendBounded ==
    /\ heldUsd = MapThenSumSet(LAMBDA w : hold[w], Workers)
    /\ spent + heldUsd <= Limit + excess
    /\ excess > 0 => locked

(* Every artifact can be mapped back to its row: the entry is there first,    *)
(* wherever the process dies. Only a map line that a crash tore and the next  *)
(* entry ran into costs an entry, and no more than one (ReplayWriter.append). *)
Unmapped(w) ==
    {i \in Readable(artifacts[w]) :
        \A j \in Readable(map[w]) : map[w][j].row # artifacts[w][i].row}
MappedFirst ==
    \A w \in Workers :
        Cardinality(Unmapped(w)) <= Cardinality({j \in 1..Len(map[w]) : map[w][j].text = "joined"})

================================================================================
