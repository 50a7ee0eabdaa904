# Polymarket-quant: TLA+ models and proofs

This directory holds TLA+ models of the stateful parts of the repository, the
TLC configurations that check them on small instances, and theorems about them
that TLAPS proves for all values of the constants. Paths below are relative to
the repository root; the package is `src/std0_quant`.

## 1. Inventory

| Component | State it keeps | Operations | What is hard | What makes it correct | Modelled in |
|---|---|---|---|---|---|
| Durable intent ledger (`execution/durable_intent_ledger_v1.py`) | an append-only hash-chained file, an advisory lock, an index in memory | create, open_existing, append, get_intent, receipts, checkpoint, close | crashes between write and fsync, torn lines, racing openers, forks, foreign writers, restored backups | a receipt means a durable record; the index says what is on disk; one handle at a time | `DurableLog`, `IntentLedger` |
| Exclusive submit path (`execution/exclusive_submit_path_v1.py`) | a ledger, a portfolio copy, holds, consumed ids, results, a halt latch, a kill switch | submit, set_kill_switch, close, create, open_existing | crashes and exceptions at any statement, unlocked kill switch, clock, unknown outcomes | write-ahead, at most once, reservations cover what may be open, fresh controls, latch | `SubmitPath` |
| Risk, portfolio, pipelines (`execution/risk.py`, `portfolio.py`, `*_risk_pipeline.py`) | cash, positions, reservations, PnL | evaluate, reserve, release, apply fills | a call that raises after some of its fills, rounding, orders left on the book | reservations add up and are backed; a call that raises has changed nothing | `ShadowTrading`, `SubmitPath` |
| Order state, races, simulators (`order_state.py`, `cancel_fill_race.py`, `simulator.py`, `queue_model.py`, ...) | one order's life cycle | acknowledge, fill, cancel; walk, sweep, race resolution | a cancel and a fill at one instant | queue priority; terminal states final; race and walk agree | `OrderSim` |
| SHADOW boundary (`jsonl_process_transport.py`, `clodds_*.py`, `shadow_batch_runner.py`, `strategy_candidate.py`, `scripts/run_clodds_shadow_sidecar.py`) | a child process, two pipes, a batch in progress, an assessment | submit, close, run_shadow_batch, run_strategy, serve | late, doubled, torn answers; a dead or hanging child; inputs that change after the risk check | a PASS answers its intent; fails closed; what is sent is what was assessed; calls end | `ShadowSidecar` |
| Execution event journal, reconciliation (`durable_execution_event_journal_v1.py`, `execution_reconciliation_v1.py`) | a second durable log; a replayed row per order | append, export; reconcile | crashes, retries, observations lost, doubled, overtaken | the journal is a durable log; no end is reported that did not happen | `ExecutionEvents` |
| Governance and venue evidence (`execution/measured_venue_*.py`, `production_eligibility_gate_v2.py`, ...) | files of bound artifacts | import, measure, qualify, attest, verify, cover, decide, bridge, gate | artifacts of different rounds mixed | an ELIGIBLE verdict rests on one chain | `VenueEvidence` |
| Factor research (`research/factors/`) | artifacts, a registry record | evaluate, null control, baseline, bundle, validate, promote | reruns under one id, leaks | a PASS rests on one evaluation | `FactorEvidence`, `VenueEvidence` |
| Trades sync (`collectors/std0_trades.py`, `storage.py`) | raw NDJSON file, dedupe table, cursor, run rows | sync, sync_backfill | a feed that grows while it is paged, late fills, offset cap, crash between two stores | nothing skipped, nothing written twice, cursor sound, termination | `TradesSync` |
| Prospective sync (`collectors/prospective_std0_trades.py`) | the same store, staged windows | bisecting sync | windows that do not fit, cut appends | a published slice is whole | `ProspectiveSync` |
| Event ledger, prospective features and audit (`events/`, `audit/prospective.py`, `scripts/build_prospective_pretrade_features.py`, ...) | truth rows, a baseline snapshot, feature files, a cohort, trigger state | derive, merge, build, check | programs that read what others rewrite, late fills, crashes between two writes | published labels stay, no fill counts twice, a checkpoint triggers once | `EventLedger`, `ProspectiveCohort` |
| WebSocket session, book recorder (`collectors/ws_runner.py`, `polymarket_book.py`, `live_storage.py`) | connection, queue, writer thread, rotating file, sidecars | run, stop, rotate, close | lost stop, dead writer with a full queue, sidecar failure | every stop ends, accepted rows are in a file in order | `BookRecorder` |
| Live collector, discovery (`scripts/collect_live.py`, `gamma_discovery.py`) | recorders of the current and the next market, tasks | rotate, discover, stop | overlap at a boundary, failures, hanging reports | no gap; a stop ends it | `LiveCollector` |
| Supervisor (`scripts/run_live_supervisor.py`, `ops/`) | child process, backoff, storm window | restart, shut down, sweep orphans | a collector that keeps dying or does not end; kills; orphaned writers | replaced in time, damped, a manifest means done | `Supervisor` |
| Agent shadow research (`research/agent_shadow/`) | cost budget, replay directories | reserve, settle, append, resume | concurrent holds, charges above a hold, torn files | spending bounded; every artifact can be mapped back | `AgentShadow` |
| Tick recorder, feature numerics, statistics, configuration | | | numerical detail | | section 6 |

How they interact. The submit path appends to the ledger, reads its checkpoint
and calls a venue stub. Both risk pipelines work on one portfolio. A strategy's
candidate passes the risk gate, becomes an intent and goes over the SHADOW
boundary. What a venue did comes back as events into the journal, which the
reconciliation replays. Research artifacts and venue evidence meet in the
registry record and the production gate. The supervisor starts and stops the
live collector, which runs recorders that write raw files; both syncs write a
raw file of fills, from which ledger, features and cohort are derived. Apart
from calls inside one process, components communicate only through files.
`PROJECT.json` lists every component with its state of modelling, and the
hazards, each at its line.

## 2. Modules

| Module | What it models |
|---|---|
| `DurableLog` | What a durable log promises: a record that became durable keeps its place, ids are unique, a receipt names a durable record; an operator may take records away from the end. |
| `IntentLedger` | The ledger: file, stable part of it, directory entry, lock, inherited descriptors, one handle per process; opening and appending step by step. Implements `DurableLog`. |
| `SubmitPath` | One coordinator; `submit` statement by statement, with the ledger seen through `DurableLog`. |
| `OrderSim` | Pure: the order state machine, the queue, the walk of a passive order over a timeline, the sweep of an aggressive one, the resolution of a race. |
| `ShadowTrading` | Both risk pipelines over one portfolio, statement by statement, with `OrderSim`. |
| `ShadowSidecar` | The calling thread from candidate to pipe, and the child process beside it. |
| `ExecutionEvents` | Orders at a venue (as `OrderSim`), delivery of observations, the journal (implements `DurableLog`), the reconciliation of any of its prefixes. |
| `FactorEvidence` | Research artifacts of one factor: builders and validators as operators, the file of each kind as a variable. |
| `VenueEvidence` | Extends it with the measured venue chain, the bridge, the gate and the registry record. |
| `TradesSync` | `Std0TradesSyncer`: the API's feed, the raw file, the dedupe table, the cursor and the run row; `sync` and `sync_backfill` statement by statement. |
| `EventLedger` | Pure: from fills to truth rows. |
| `ProspectiveSync` | `ProspectiveTradesSyncer.sync_range` with its bisection over the same kind of store. |
| `ProspectiveCohort` | Extends both with derivation, publication, merge, feature build and checkpoint run: programs that share files. |
| `BookRecorder` | `ReconnectingWsSession`, `BookRecorder` and `RotatingNDJSON` for one market. |
| `LiveCollector` | `run_book_forever`, the discovery worker, the tick task, `run()`. |
| `Supervisor` | The supervising loop and its `finally` block, one supervisor after the other, and the collectors they start. |
| `AgentShadow` | Replay workers, their shared `CostBudget`, a resumable directory each. |
| `BoundaryProofs` | Theorems about `ShadowSidecar` and `VenueEvidence`, which share no name. |
| `ResearchProofs` | Theorems about `ShadowTrading`, `AgentShadow` and `ProspectiveCohort` (with `ProspectiveSync` and `EventLedger`), which share sums over finite sets. |
| `RecordingProofs` | Theorems about `BookRecorder` and `LiveCollector`. |
| other `...Proofs` | Theorems about the module of that name. |
| `MC...` | Small instances for TLC. |

**IntentLedger.** `file` is what any reader sees, `synced` how much of it
survives a machine crash, `entry` the directory entry. `pc[h]` is where a
process is: `opened` (descriptor), `locked` (flock held), `recovered` (content
validated or header written), `ready`, then `writing`, `written`, `flushed`
inside `append`, and `poisoned`. A SHA-256 hash is represented by the history
it commits to; a file stamp by the number of lines, since an open file only
ever grows here. `_guard` is `Unchanged`/`GuardFails`, the error paths of
`append` are `TornWrite` and `AppendRaises`, those of `_open` are the `ELSE`
branches that `Release`.

**SubmitPath.** `pc` is the next statement of the call in progress (the
coordinator's lock admits one). Each failure branch of `_submit_locked` is an
action; `Interrupt` is the `except BaseException` of `submit`, enabled at every
statement, also between the two assignments of `_reserve` and `_release_hold`.
`SetKillSwitch`, `ForeignAppend`, `Crash` and any clock value may come between
two statements. What governance evidence says is a choice (`Gate` may return).

**OrderSim, ShadowTrading.** A call is `Begin`, the gate, the reservation, the
simulation, one fill after the other, the release; each is an action because
any of them may raise and the portfolio outlives the exception. What
`simulate_passive_order` does to one order over one timeline is a fold of
`OrderSim`, so that a property can compare it with `resolve_race` of
`cancel_fill_race.py`. Amounts are whole numbers; `Rounding` is what a product
is off by.

**ShadowSidecar.** `pc` is the next statement of the calling thread: `item`
(the loop of `run_shadow_batch`), `write`, `select`, `read`, `terminate`,
`closing`. `inbox` is the child's stdin, `out` whole lines in the pipe,
`buffer` what `readline` took and holds, `fragment` the start of an unfinished
line. `Serve` is the reference sidecar's loop; `Misanswer`, `Stutter` and `Die`
are what any other program named in the command may do. A line carries the
number of the request it answers, which the code does not see; the properties
compare with it.

**ExecutionEvents.** `orders` and `issued` are the venue, `received` what
reached the collector, in order of arrival; an observation's number is its
timestamp. `file`, `synced`, `torn`, `handle`, `index` and `call` are the
journal between the statements of `append`. `ReplayRow` is `_replay` for one
order; nothing is stored by it, so that a property evaluates it for every
prefix and every cutoff.

**FactorEvidence, VenueEvidence.** Each artifact file is a variable that holds
the latest artifact of its kind or `Absent`; every builder is one action that
reads the files its program is given. After a rebuild the files mix rounds;
what keeps a later builder from combining them are only the comparisons it
makes, which are its guards. A hash is the payload that is hashed without the
fields the code leaves out, the run ids among them. Metrics of a factor are
`good` or not, `beats` the baseline or not, a null control's are `low` or not;
`ready` and `sound` stand for the code's lists of reasons.

**TradesSync.** `pc` is the next statement of the loop: `fetch`, `append`,
`register`, `decide`, and `between` for the loop of `sync_backfill`. `NewFill`
lets the API list a fill at any moment, up to `Delay` seconds late. `Raise` and
`Crash` cut a run short at any statement; a write that is cut leaves any number
of whole lines and possibly part of one. The API's answer is written as the
places it takes in the feed (`Newer` counts the fills above a second), which is
the same list as the fills of the window, in the form the proofs reason about.

**ProspectiveSync, EventLedger, ProspectiveCohort.** `call` holds the arguments
and locals of `sync_range`; `known` and `pending` are its stack of windows.
`raw` counts the lines of each fill. `Derive`, `InitBaseline`, `Merge`,
`StartBuild`/`WriteFeatures`/`WriteProvenance` and the statements of a
checkpoint run (`upsert`, `trigger`, `report`) are programs an operator starts
in any order; each may die between two of its writes. The API honors the bounds
of a window or ignores them from some page on (`IgnoreBounds`, `Served`); a page
is the fills whose place in that list (`Before`) it covers.

**BookRecorder.** `pc` is where the session awaits: `connect`, `subscribe`,
`read`, `put` (a pool thread puts a batch), `closing` (leaving the connection),
`backoff`, `drain` (putting the final `None`) and `join`. `open` says that the
stream has not come to its end: frames that the client has buffered are read
before that. `wake` is the task `stop()` starts to close the active socket.
`putting` holds what pool threads are still to put; a cancelled put stays in it.
`writer` is the next statement of the writer thread: `get`, `append`, then
`seal`, `sidecar` and `open` of a rotation, or `seal` and `sidecar` of the last
close. A file records its rows, how many of them were fsynced, and the rows its
sidecar counted and hashed. `FinalizeOrphans` is the supervisor's repair after
the process has ended.

**LiveCollector.** `now` is the clock; market `k` has the window
`[k * Window, (k + 1) * Window)`. `at` is where `run_book_forever` is, `cur`
and `nxt` its recorders, `recorder[k]` a recorder's task as `BookRecorder`
leaves it. `run`, `pending` and `until` are `run()` and its `wait_for` of each
remaining task. Timers fire on time (`Tick` is disabled while something that
does not wait is ready).

**Supervisor.** `pc` is `loop`, `serve`, `asleep` in the loop and `waiting`,
`interrupted`, `terminated`, `sweeping`, ... in the `finally` block. Times are
ages and rests rather than clock values, so that the state space is finite
without a bound on time. `coll`, `quiet` and `sidecar` are the collectors and
the one raw file of each; a killed supervisor leaves its collector running, and
the next one's sweep meets its file.

**AgentShadow.** `where[w]` is the statement worker `w` is at; `Reserve`,
`Refuse` and `Answer` are the critical sections of `CostBudget` with what
happens between them. `artifacts` and `map` are the lines of the two appended
files; what a cut write leaves joins the next line. `NewProcess` is a restart on
the same directories after an end or a death at any statement.

## 3. Runs

| Run | Instance | Shows |
|---|---|---|
| `MCIntentLedger` | 2 processes, 2 ids, 2 contents, 4 lines (header and three more) | two acknowledged records with a torn or foreign line behind them, both processes in every pair of states: receipts are recoverable, checkpoints are honoured, `DurableLog` is implemented |
| `MCSubmitPath` | 2 ids, orders of both sides and of two ages, 2 portfolios, 3 clock values | two orders that exceed a limit together and not alone, fees, sells against inventory: nothing is sent twice or on stale controls, every fate is known, limits hold in the worst case |
| `MCTradesSync` | 4 fills, 3 seconds, pages of 2, offsets up to 2, one run cut short | syncs that reach the offset cap and the depth limit, backfills that shrink their window: the table, the file and the feed agree as far as the code intends, every sync ends |
| `MCBookRecorder` | queue of 1 batch, batches of 1 or 2 rows, fsync every 2 rows, 8 rows, 1 cancel | a full queue, rotations at every row, errors at every file operation and in the journal, a stop in every state, a crash: order, completeness, exact sidecars, every stop ends |
| `MCShadowTrading` | 4 orders (a maker and a taker of each side) of one position, timelines of at most two trades with a cancel | orders that compete for cash and shares, partial fills, rebates, raises at every statement: reservations add up, the queue is followed, race and walk agree, a call that raises has changed nothing |
| `MCShadowSidecar` | 5 batches, 2 candidates, 3 input values, 2 runs, 2 faults of the child | late, doubled, wrong, torn answers and a dying child: a PASS answers its intent, failures stay closed, what is sent was assessed, calls end |
| `MCExecutionEvents` | one order of 2 units, 5 captures, 5 received, 2 mishaps | observations lost, doubled and overtaken, failing syncs, crashes: the journal implements `DurableLog`, no prefix of it is reconciled to an end that did not happen |
| `MCVenueEvidence` | 5 bundles, 4 provenances, 2 runs, collectors, keys and policies each, 3 specs, 2 rebuilds | files of different rounds in every mixture: ELIGIBLE rests on one chain, a PASS decides the attested run |
| `MCProspective` | 6 fills in 2 markets, pages of 1, offsets up to 2, 2 ranges, 2 syncs, 1 cut, 2 builds, 2 checks | late fills, cut appends, deaths between two writes, the programs in any order: slices are whole, truth is kept, a checkpoint triggers once, rows count once |
| `MCLiveCollector` | windows of 9 ticks, duration 20, starts 0 and 7, 2 mishaps | failures of discovery and recorders, a hanging report, a stop at any time, three markets: no gap at a boundary, a stop ends it |
| `MCSupervisor` | 3 collectors, backoff up to 4, storm window 9, grace 2, with and without deadline | deaths, hangs, signals, kills, supervisors one after the other: replaced in time, damped, a manifest means done |
| `MCAgentShadow` | 2 workers, 2 rows (one not callable), hold 2, charges 1 and 3, limit 5, 2 processes | charges over and under their hold, deaths inside a write, restarts: spending is bounded, artifacts can be mapped back |

Bounds, and why they are enough. Two processes are enough for races of two; a
third could only wait like the second. Four lines of the ledger let a crash, a
restore or a foreign write happen before, between and behind two records. Two
ids show an order that conflicts with an earlier one and one that does not. With
pages of two, four fills fill two pages and leave a third empty, so that every
way out of the loop is taken; `MaxCuts` is one since the properties compare what
a single cut run may leave behind, and `OneTrouble` keeps a cut and a time
window apart, which no property relates. A recorder can have seven rows at risk
with its constants, so eight let more of them be lost if it could. Four orders
of one position are the pairs that compete: buys for cash, sells for shares,
makers that rest while a taker runs; one taker or two of a side differ in
nothing the accounts see. Two faults of the sidecar are a late answer and one
that is late behind it. Two units and five observations hold a partial fill, its
double, a cancel and the loss of one of them. Two runs and two policies are what
a mixture needs; a third would be mixed pair by pair. Two rebuilds are enough to
change an early artifact and a late one. The two ranges of `MCProspective`
overlap in the second where a slice must be split; with pages of one a window has
three pages before the offset limit cuts it off, so that a fill may be listed
before, on and behind the page being read, and five windows are what the smaller
range takes. Three collectors are the
present one, an orphan and its replacement. The grid of the collector's clock
(windows of nine) has room for discovery, overlap and grace without two of them
coinciding.

`MCVenueEvidence` explores only states that can still lead to a verdict
(`Promising`) and varies one of the two sides, research or venue, at a time
(`OneSideVaries`): the two meet first in the bridge, where each is one value. Its
symmetry permutes runs and keys, which are only compared. `MCProspective` lets one
program run at a time (`OneAtATime`); what it leaves half done is seen by the
next.

Deadlock is checked in `MCIntentLedger`, `MCSubmitPath` and `MCTradesSync`. The
other systems may stop: a process that is gone stays gone, orders and bundles
run out. Every property has a faulty variant of an operation, defined next to
the operation and marked `Fault:`, with which the property fails.

**Fairness.** `TradesSync` assumes `WF_vars(SyncStep \/ BackfillStep)`: a sync
that was started goes on. The code is a plain loop; its HTTP calls have a timeout
and a bounded number of retries (`RetryingClient`), after which they raise.
`BookRecorder` assumes that the event loop runs what is ready, that connecting,
subscribing and sleeping come back (all have timeouts), and that pool threads
and the writer thread run while they can. It assumes nothing of frames, the
peer, the watchdog or the owner; `StopEnds` states its own assumption, that the
owner's timeout fires once (`wait_for` in `run_book_forever`). `LiveCollector`
and `Supervisor` assume `WF_vars(Next)`: time passes and what is due happens;
which of several things happens is not constrained. `ShadowSidecar` assumes
`WF_vars(Call)`, that the calling thread goes on where it does not wait, and
nothing of the child: `CallsEnd` excepts a child that leaves a line unfinished,
on which `readline` waits without a timeout. The other modules are specified for
safety only: nothing obliges a caller to call, and every call is a finite
sequence of statements.

## 4. What is proved

All theorems assume only the `ASSUME`s of the modules: nothing about the number
of lines, orders or processes, or the limits (where sums are taken over a set,
it is finite: `Keys` of `SubmitPath`, `Orders` of `ShadowTrading`,
`Workers` of `AgentShadow`, `Fills` of `EventLedger`). In all of
them the property is not inductive; what is added to it is named here.

Sums, folds and recursive functions need inductions that no backend can do from
the library's theorems. They are done by a smallest counterexample: among some
subsets of a finite set one is minimal (`SmallestSubset`, from the
well-foundedness of inclusion), so among some numbers one is the least
(`LeastNumber`), and the one before it is no counterexample. In the same way a
recursive function is shown to exist and to be unique before its equation is
used (`FoldMade`, `FoldUnique`, `RecursionIsSolved`).

*Ledger* (`IntentLedgerProofs`). `IInv` consists of the types,
`ExclusiveHandle`, `AckedRecoverable` and, for each handle, `HandleOK`: what it
knows in each state of opening and appending. The lines up to its stamp are
valid and their history is its index, from `recovered` on; from `ready` on they
are on stable storage; an append in progress has an intent whose id the index
does not have; after the write, a file one line longer than the stamp ends in
the record of that intent; after the fsync, that line is stable. The last two
are what makes a receipt recoverable: without them nothing connects `pending` to
the line `Finish` acknowledges. `IndexIsDurable`, `AnchoredHistory` and, with
the lemma that only `Finish` leads from `flushed` to `ready`,
`AppendOnUntouchedFile` follow. For the refinement (`LedgerImplementsLog`)
`LogInv` says that at most one line behind stable storage is valid, since whoever
writes one was ready, and that a file whose directory entry may go has nothing
on stable storage. A step then adds at most one record to the stable history
(`OneMore`), gives a receipt for one that is there, or is a restored backup,
which takes records away, or makes that one valid line durable.

*Submit path* (`SubmitPathProofs`). The inductive invariant has five parts
besides the types, each kept by every action under the parts it needs.
`CallInv`: which statements of a call have spent its id and hold its
reservation; consumed ids are unique; `OpenOrdersReserved`. `ControlInv`: what
the samples of clock and switch established. `LogInv`: ids in the log are
unique, receipts name their records, and from `bind` to `dispatch` the call has
a receipt. `FateInv`: every record of the log belongs to the call in progress
or has a stored result, unless the path is halted. `RequestInv`: the requests
are on record, and none is the call's before `answer`. From them follow
write-ahead, at-most-once, known fate, kept reservations, fresh dispatch, the
kill switch and the latch, and, by a step simulation, that the path uses its
log as `DurableLog` allows. `AccountInv` adds that the account reserves for
exactly the intents on hold, but for the statement between the two assignments
(`Backed`), and that all of them together stay within cash, inventory and
exposure (`Bounded`); with lemmas on sums that gain or lose one element,
`AccountsMatch` and `LimitsHoldInWorstCase` follow for any finite set of orders.
A hold adds at most what the check allowed, and the path's portfolio is set only
on opening, with nothing on hold.

*Recorder* (`RecordingProofs`). `RInv` has the types, `SidecarExact`, and
`WriterInv`: a writer that will append has a row in hand, the file it works on
has no sidecar until `Sidecar`, a file is fsynced as a whole before it gets one,
and a process that is gone has no writer. The third part is what a crash would
break: it may only shorten a file by rows that were not fsynced. `LineUp` says
where every row is: the files, the writer's hand, the queue and the pool threads
hold, in this order, adjacent pieces of one line of numbers (`Lined`), as long
as the writer lives; when the session has returned, the `None` that ends the
writer is the last that is put, queued and taken; every file but the current one
is sealed. It needs that a pool thread whose waiter was cancelled still puts its
batch, and that no error kind is the value of an error-free writer. From it
follow the order of the rows (`RowsStayInOrder`) and that a clean return has
stored all of them (`ReturnStoresAll`).

*Rotation* (`RecordingProofs`). `NextMarketIsFollowed` proves `NoGap` for all
settings with `DiscoveryInTime`: `MaxMishaps` calls that fail, each with the pause
after it, and one that does not fit between the start of the search and the
boundary, also when the previous recorder was stopped late. A search that takes
longer leaves a gap: the instance meets the condition with nothing to spare (TLC
finds the gap when `Prediscovery` is one tick less), and `MCLiveCollector` assumes
it, so that TLC checks it. With the defaults (60 s, a pause of 10 s, 5 s of grace)
three failures are covered if a call takes up to 6 s, and none if it takes the
30 s after which a request gives up.
`CollectorInv` says, until a stop is asked for: which recorders exist at each
statement (`LPlace`), that none is asked to stop before its grace period is over
(`LRecorders`), that the discovery worker has never applied the market it will be
asked for (`LTarget`), how late each statement can be (`LTime`) and, for a market
recorded early enough, how late it can be after so many failures (`LEarly`). That
the delays of one market do not add up over the next ones is the part that needs
`Grace + Patience + ReportTime <= Window - Prediscovery`.

*Orders* (`ResearchProofs`). Types; `ValueConserved`, that no fill, fee,
rebate or average creates money, which holds of every step by itself; and
`FillsFollowQueue`, from `WalkInv`: while the walk runs, what is still ahead,
what traded and what was filled add up, and the cancel's time splits the
timeline. `RaceInv` (no event to come is earlier than what the order has seen,
a cancel is requested once) makes `RaceAgrees` follow. `HoldInv` says that the
reserves are the sums of what orders hold and are backed, `CallHold`, for the
call in progress, that until fills are applied nothing else has changed, and
that while they are, the order holds what the fills to come and the unfilled
rest need: no fill can be refused after the first. That gives `HoldsAreAccounted`
and `RaisesChangeNothing`, both for `Rounding = {0}`, as in the run: with rounded
products the sum of partial costs can exceed the reservation (see below), and
the code's tolerance decides.

*Replay workers* (`ResearchProofs`). Besides the types, `StageInv` says what a worker
knows at each statement (which row and which model its call is for), `BudgetInv`
that only a worker waiting for an answer holds anything, that what is held is the
sum over the workers, and that charges and holds exceed the limit only by what was
charged above a hold, which has locked the budget. `MapInv` counts: the artifacts
whose row has no whole entry in the map, and the row whose entry is being owed to
a torn line, are no more than the lines of the map on which two entries were
joined; a death while a line is written may turn the count either way, but never
by more than the line it tears.

*Venue evidence* (`BoundaryProofs`). `Chains` says of every artifact file
that what it holds binds artifacts of one chain, kind by kind (raw, measured,
qualified, attested, coverage, decision; evaluation, null control, evidence,
record). A builder reads files that may be of several rounds; its comparisons
make the new artifact bind one chain again.

*SHADOW boundary* (`BoundaryProofs`). `Shapes` has the types and what each
statement of the caller knows; `FailedIsDead`, that a failed transport has no
child to read from; `AssessedNow`, that between the gate and the write the
inputs are those that were assessed; `Answered`, that every PASS among the
results carries the number of its request.

*Supervisor* (`SupervisorProofs`). `OwnInv`: only the present child, of all the
collectors this supervisor started, may be alive or have an unsealed file, from
the sweep on not even that. It carries `ManifestMeansDone` over signals, kills,
orphans of earlier supervisors and a collector that ends while being waited for.
`TimeInv` bounds, statement by statement, the time without a collector plus what
is left of the backoff or, when that is over, of the sleep; `GoneIsReplaced`
follows. `StormInv` says that the ages of the restarts can be listed such that
the i-th before the last is as much older as i backoffs take (`Ladder`), that
the count of short failures is no smaller than their number or at its maximum,
and that the last restart is older than the present backoff or the wait for it
is still on (`Rested`); a run as long as the window has emptied it, which is why
the count may start again. `RestartsAreDamped` follows, since the list is no
shorter than the set.

*Event journal* (`ExecutionEventsProofs`). `JournalInv`: at most the last record
of the file is not on stable storage, and an open handle's index is the file.
From it `StepSimulates` shows every step to be one of `DurableLog` or none.
For `ReportsAreTrue`, `VenueInv` adds that there is a history of every order
which the issued events make, one legal step each (`Life`), and that what was
received and recorded names issued events. A replay of durable records is then
compared with that history: an order has one end only, and evidence that is
complete and in order replays to the state the venue is in.

*Trades sync* (`TradesSyncProofs`). The API lists fills by place, the code thinks
in identities and seconds; the lemmas before the invariant connect the two (a
fill inserted into a sorted list moves older ones one place down and changes
nothing else; a window of a sorted list is one piece of it). `NoDoubles` says
that a fill outside `cut` is on disk only if it is registered or in the batch
that waits for it, and `FreshIsNew` that this batch has nothing registered.
`PagesInv` carries `FullSyncCoversFeed`: a fill that was known at the start and is
neither registered nor in the batch lies behind everything the run has read, and
is not newer than the earliest second it saw; insertions push such a fill away
from the run, never past it. An early stop needs `LateInv`: what is not
registered is at most `Delay` older than the newest fill the run knows of, or
still ahead of it; so behind a page that is older than the margin there is
nothing. `GapInv` is what this leaves for the next run, in terms of the cursor.
`BackInv` says that above the present window of a backfill everything but the
seconds at which one was cut off is registered; `LeftInv`, the same for the
window just read, is what lets the next one begin a second below. TLC has
checked the whole invariant on the instance of `MCTradesSync`.

*Prospective sync* (`ResearchProofs`). `ReadInv` is what paging keeps: a fill that
was listed for the window before it was read is staged or on a page still to come.
A fill listed late moves others to later places and never to earlier ones
(`ListedLater`), and so does an API that begins to ignore the bounds: none slips
past the reader, and a page that is not full ends
the list (`ShortPageEnds`). `CoverInv` says of every fill that is asked for and was
listed at the start: it is stored, or in a window still to be read, or in the one
being read; halving a window loses no second. `StoreInv` says that identities are
registered only for what is on disk, and that what is on disk without being
registered was cut or is about to be. The three give `SlicesAreWhole`, its last
part, that only what was cut is written again, included. TLC has checked `SyncInv`,
and `CohortInv` below, on the instance of `MCProspective`.

*Ledger rows* (`ResearchProofs`). `EveryFillCountsOnce` compares the algorithm,
which splits a direction's fills into episodes and takes the first, with a
description that knows no episodes: `FirstEpisode` shows that the end of the first
episode is the last second reached without a step of more than `Gap`, by the least
second for which it would not be so. Quantities are sums of ones over finite sets
(`SumOfOnes`), which a second line for the same fill does not change.

*Prospective cohort* (`ResearchProofs`). The ledger only grows (`LedgerStep`): the
merge refuses a row that differs. `TrueTo` is what features share with the ledger
they were made of, one row for each market, and by growth they keep it: in the
hands of a build that dies or is overtaken by a merge, in the files, and in the
hands of a checkpoint run (`FilesInv`). `CohortRows` carries it to the cohort, in
which a market cannot come twice because one market has one end of its first
opposite. `PointsInv`: a checkpoint is on record before it is reported, and one
that is waiting to be reported was not on record before this run; that is what
bounds the reports by one when the run dies in between. From these follow
`TruthIsKept` and `CheckpointsReportOnce`.

Some proved properties have no run of their own, where the proof made the run
superfluous: the types, `IndexIsDurable`, `ExclusiveHandle`,
`AppendOnUntouchedFile`, write-ahead, the kill switch, the latch,
`ValueConserved`.

Every safety and action property that a run checks is proved. Only model-checked:
liveness (`SyncEnds`, `StopEnds`, `CollectorEnds`, `CallsEnd`), which is beyond the
prover; and `HoldsAccounted` and `AllOrNothing` where products are rounded, which
does not hold in general.

## 5. Assumptions and what is left out

- **Ledger.** Storage keeps what `fsync` reported; hashes do not collide; a
  process holds one ledger handle; a forked child only closes what it inherits.
- **SubmitPath.** Amounts and limits are whole units larger than the tolerances of
  the code; a portfolio has finitely many positions;
  a checkpoint given on opening only makes the ledger refuse more files;
  `RestoreBackup` takes each record away once, and ids taken away are exempt
  from write-ahead and at-most-once. A kill switch that is turned on and off
  between two samples goes unnoticed, as in the code.
- **TradesSync.** One sync at a time; the API lists newest first and a window is
  `(lo, hi]`; a fill is listed at most `Delay` seconds behind a newer one and
  `Delay <= Margin`; equal fills, which the code deliberately collapses, are not
  distinguished; setting the cursor and closing the row are one step; audit
  copies of raw pages are left out.
- **BookRecorder.** A frame is the rows it becomes; the content of the book and
  the validity flags of a row are left out, as are the journal's entries. A
  journal that raises goes on raising (a full disk). A full journal in the
  middle of a frame loses that frame's rows before they count as received.
  `MemoryError` counts as a raw failure. The repair runs only when the process
  has ended; the one at a supervisor's start skips files younger than 900 s.
- **OrderSim, ShadowTrading.** Prices and amounts are integers; a trade of a
  timeline has a positive size, as its constructor demands; the run has
  `Rounding = {0}`. Marks, slippage statistics and the reports' totals are data.
- **ShadowSidecar.** One thread calls the transport; requests are small and
  never fill the pipe; one read takes what is in the pipe; a terminated child is
  gone within its two seconds; the risk check is one limit, its inputs one value.
- **ExecutionEvents.** Writers cooperate (locks and checkpoints are those of
  `IntentLedger`); a torn line is never repaired, as in the code; venue order
  ids, prices and receipts of other ledgers are left out.
- **FactorEvidence, VenueEvidence.** Artifacts are only what their builder made:
  a self-hash always holds. A bundle's source identity is folded into its
  collector. Rows are sets, metrics good or not; periods, which the code compares
  as strings, are numbers. The registry's file, the v1 policy, gate and bridge
  are left out.
- **Prospective.** Time is in seconds, sizes are one; torn lines are in
  `TradesSync`; nobody reads the sync status; price columns are left out. The API
  may begin to ignore the bounds of a window at any page, but not honor them again
  on a later page of it: then `SlicesWhole` would fail (see below). `Checkpoints`
  are positive numbers, as the constants of the code are.
- **LiveCollector.** Timers fire on time. A hung report keeps the loop
  (`process.wait()` has no timeout), so `NoGap` excepts it. Discovery has one
  caller, so its branch for a target that moved on is not reached.
- **Supervisor.** The loop's own statements take no time; the analysis children,
  for which it never waits, are left out. `WriteEvery < Grace` is an assumption
  about the market, not a rule of the code: a silent market could make a sweep
  seal a file that is still written.
- **AgentShadow.** Amounts are whole units. Reading the headroom is one read;
  each worker has its own directory; other configurations' bindings, `_seen` duplicates and custom
  models are left out.

### Where code and words differ

The models follow the code. These are the places where a comment or a document
says something else, or where the code's rule is narrower than it looks; none is
the subject of a run.

- `std0_trades.py:403` stops an incremental sync when the oldest fill of a page is
  older than the cursor and nothing on it is new; the docstring (292-293) wants
  the whole page to be older. `:490` continues one second before the earliest
  fill seen, so that fills of that second behind the offset cap are skipped,
  against "all fills" in `:436`. `:556-560` appends before it registers: after a
  cut a fill is written twice, which the module's docstring (13-14) excludes
  (`DuplicatesOnlyAfterCut` is the rule that holds). A write
  that is cut (`src/std0_quant/storage.py:66`) leaves part of a line, to which
  the next append is joined: readers of the raw file then fail, although derived
  data should "always" be rebuildable from it (8-9).
- `ws_runner.py:166` and `:195`: a stop while a socket is being opened is not
  heard at once, as the comment at 164-165 wants, since `_active_ws` is not
  set yet.
- `polymarket_book.py:560`: when the writer thread is dead and the queue is
  full, the final put never returns; the owner's timeout ends it.
- `passive_risk_pipeline.py:176`, `risk_execution_pipeline.py:154-161`: the sum
  of rounded costs of partial fills can exceed the reservation by rounding (for
  example 25000 at 0.29 in parts of 3242, 5949, 8881, 6928), and the assertion
  then raises after fills were applied. `AllOrNothing` holds without rounding.
- `collect_live.py:244`: a task that raises ends `run()` at once, without the
  orderly stop of the docstring (11).
- `jsonl_process_transport.py:159` reads a line without a timeout, so that an
  unfinished line blocks past the "bounded response timeout" of line 9, and
  lines that `readline` already holds are not seen by `select`. An intent id sent
  again over one transport may meet the earlier answer; `remaining_qty` of an
  answer is not compared. The adapter's payload is always rejected by the
  reference sidecar.
- The supervisor's final sweep has no grace and may meet the file of an orphaned
  earlier collector; its second signal is only one more request to stop; a
  `TimeoutExpired` ends its `finally` block without a manifest; a sidecar that
  became stale is not made again.
- `promote_factor` to PRODUCTION_ELIGIBLE asks for an execution PASS, its hash
  and its run id, not for a gate verdict; a record may be constructed VALIDATED;
  the check of DEPRECATED at line 153 cannot be reached. Promotion evidence does
  not name the factor, no validator checks thresholds and evidence together, and
  the definition a result was computed with is not compared with the out-of-sample
  artifact's.
- `prospective_std0_trades.py:241` and `339-366` check every page by itself. If the
  API ignored the bounds of a window on a later page and honored them again on the
  next, with a few newer fills above the window, the page in the middle would
  repeat fills of the window, pass the check, and the offset would skip as many
  behind it. An API that ignores the bounds from some page on does no harm: this
  is more than what `tests/test_prospective_sync_safety.py:36-48` tries, and what
  the model has.
- An aborted prospective sync leaves partial markets that derivation publishes; a
  fill that arrives later conflicts and blocks the whole merge. Rebuilding the
  live ledger overwrites the same file. A checkpoint run for one number marks
  the others that are due without reporting them, and a crash behind the trigger
  loses the report. A mixed pair of feature and provenance files inserts an
  observation whose lineage failed for ever. `merge_prospective_rows` and
  `build_prospective_derived_rows` have no caller but tests.
- `replay_report.py` refuses an artifact file in which a cut line was joined by
  the next one, while the replay resumes over it.

## 6. Not modelled

- Publication provenance, the phase 2b research scripts, the bias audit,
  notebooks, statistics and models: functions from files to files, without state
  that outlives a call or an order of events that matters.
- The AWS migration bundle: one pass of copying and hashing.
- BTC ticks: the session of the book recorder without its writer thread, queue
  and rotation under load, where the hard rules of `BookRecorder` lie.
- Two trades syncs at once (an operator's beside the supervisor's): the second
  would find the same keys unregistered, and the store has no lock that a model
  could rely on. The book state behind a row, and its comparison with the
  recorded one in `audit/live_audit.py`: data.
- `reject()` of the order state, `cancel_replace.py` and
  `replacement_simulator.py`: no caller outside tests, or a pure composition of
  what `OrderSim` has.
- The numerical features, price columns, marks and reports; configuration,
  time, logging: parsing and formatting.
- Manual collection sessions, the health and proxy probes of the supervisor.
