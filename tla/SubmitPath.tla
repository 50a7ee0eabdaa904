----------------------------- MODULE SubmitPath -----------------------------
(***************************************************************************)
(* ExclusiveSubmitPathV1: one coordinator that owns a durable intent       *)
(* ledger, a copy of a reconciled portfolio and the offline submit stub.   *)
(* A submit call checks, reserves, records the intent durably, checks      *)
(* again, and only then makes the single call to the stub.                 *)
(*                                                                         *)
(* The coordinator's lock serialises submit and close, so one call is in   *)
(* progress at a time.  Between any two of its steps the kill switch may   *)
(* be flipped by another thread (it does not take the lock), the clock may *)
(* read anything, something else may write to the ledger file, an          *)
(* exception may unwind the call, and the process may die.  The ledger is  *)
(* seen through what DurableLog promises, which IntentLedger implements.   *)
(* What the governance evidence says is a choice of the environment.       *)
(*                                                                         *)
(* Amounts are whole numbers of some unit: the tolerances of risk.py and   *)
(* portfolio.py are smaller than it, so comparisons are exact here.        *)
(***************************************************************************)
EXTENDS Integers, Sequences, FiniteSetsExt

CONSTANTS
  Ids,          \* intent ids
  Orders,       \* what else an intent holds: market, outcome, side, amounts, times
  Portfolios,   \* reconciled portfolios an operator may open the path with
  None,         \* no halt reason, no result, no intent
  FeeBps,       \* fee_reserve_bps of the policy
  MaxOrderNotional, MaxMarketExposure, MaxGrossExposure, MaxDailyLoss,
  MaxDecisionAge, MaxMarketDataAge,
  MaxTime       \* bound on what the clock reads

Times   == 0..MaxTime
Intents == [id : Ids, content : Orders]
Key(o)  == <<o.market, o.outcome>>
Keys    == {Key(o) : o \in Orders}      \* positions are keyed by both

Halts == {"RECOVERED_HISTORY", "LEDGER_UNAVAILABLE", "PRECOMMIT_FAILED",
          "LEDGER_CHANGED_BEFORE_DISPATCH", "DISPATCH_OUTCOME_UNKNOWN",
          "UNEXPECTED_FAILURE"}
Statuses == {"PRECOMMIT_FAILED", "RECONCILIATION_REQUIRED", "NOT_DISPATCHED",
             "UNKNOWN", "OFFLINE_REJECTED", "OFFLINE_ACK"}
Answers  == {"ACK", "REJECT", "TIMEOUT", "MALFORMED"}
\* What the next statement of a submit in progress does.
Steps == {"gate", "risk", "hold", "consume", "append", "acknowledge", "bind",
          "resample", "recheck", "final", "dispatch", "answer", "release"}

\* The positions of a portfolio are a finite mapping (Keys), and the last
\* conjunct of each order makes the fee reserve a whole number.
ASSUME SubmitAssumption ==
  /\ IsFiniteSet(Keys)
  /\ MaxTime \in Nat /\ FeeBps \in Nat
  /\ MaxMarketExposure \in Int /\ MaxGrossExposure \in Int
  /\ \A o \in Orders : /\ o.side \in {"BUY", "SELL"}
                       /\ o.notional \in Nat \ {0} /\ o.qty \in Nat \ {0}
                       /\ o.decided \in Int /\ o.quoted \in Int
                       /\ (o.notional * FeeBps) % 10000 = 0
  /\ \A p \in Portfolios : /\ p.cash \in Nat /\ p.pnl \in Int
                           /\ p.held \in [Keys -> Nat]
                           /\ p.cost \in [Keys -> Nat]
  /\ None \notin Intents \cup Portfolios \cup Halts \cup Statuses \cup Answers

VARIABLES
  \* outside the process
  log,          \* the durable records of the ledger file
  intact,       \* the file holds nothing else (no torn or foreign line)
  acked,        \* the receipts its handles returned
  requests,     \* what the stub accepted, in order
  voided,       \* ids whose record an operator took away
  \* the coordinator
  portfolio,    \* its own copy; v1 never changes cash or positions
  reservedCash, \* reserved_cash of that copy
  reservedQty,  \* reserved_positions of that copy
  holds,        \* the intents of _holds
  consumed,     \* the intents of _consumed_hashes
  results,      \* the status stored in _results, by id
  tip,          \* the sequence number of _tip
  halt,         \* _halt_reason
  kill,         \* the kill switch
  \* the submit in progress
  pc,           \* its next statement; "idle" without one, "down" when closed
  cur,          \* its intent
  now,          \* the clock sample it was admitted with
  dispatchNow,  \* the latest sample after the record was durable
  stop,         \* a sample after the record was durable found a reason to stop
  answer,       \* what the stub answered
  \* history
  killAt        \* the value of pc when the kill switch went on

ledgerVars  == <<log, intact, acked, voided>>
accountVars == <<reservedCash, reservedQty>>
pathVars    == <<portfolio, consumed, tip>>
callVars    == <<now, dispatchNow, stop, answer>>
killVars    == <<kill, killAt>>
vars == <<ledgerVars, requests, pathVars, accountVars, holds, results, halt,
          killVars, pc, cur, callVars>>

\* A coordinator object that does not exist.
Gone ==
  /\ portfolio' = None
  /\ reservedCash' = 0 /\ reservedQty' = [k \in Keys |-> 0] /\ holds' = {}
  /\ consumed' = {} /\ results' = [i \in Ids |-> None] /\ tip' = 0
  /\ halt' = None /\ kill' = FALSE /\ killAt' = "idle"
  /\ pc' = "down" /\ cur' = None
  /\ now' = 0 /\ dispatchNow' = 0 /\ stop' = FALSE /\ answer' = None

Init ==
  /\ log = <<>> /\ intact = TRUE /\ acked = {} /\ voided = {}
  /\ requests = <<>>
  /\ portfolio = None
  /\ reservedCash = 0 /\ reservedQty = [k \in Keys |-> 0] /\ holds = {}
  /\ consumed = {} /\ results = [i \in Ids |-> None] /\ tip = 0
  /\ halt = None /\ kill = FALSE /\ killAt = "idle"
  /\ pc = "down" /\ cur = None
  /\ now = 0 /\ dispatchNow = 0 /\ stop = FALSE /\ answer = None

-----------------------------------------------------------------------------
(* Amounts                                                                 *)

\* What a BUY reserves: its notional and the fee reserve on it.
CashNeeded(o)  == IF o.side = "BUY"
                  THEN o.notional + (o.notional * FeeBps) \div 10000 ELSE 0
SellQty(o)     == IF o.side = "SELL" THEN o.qty ELSE 0
BuyNotional(o) == IF o.side = "BUY" THEN o.notional ELSE 0

\* Sum of an amount of the orders of a set of intents.
Total(amount(_), intents) ==
  MapThenSumSet(LAMBDA i : amount(i.content), intents)

InMarket(intents, m) == {i \in intents : i.content.market = m}
InKey(intents, k)    == {i \in intents : Key(i.content) = k}

MarketExposure(p, m) == MapThenSumSet(LAMBDA k : p.cost[k], {k \in Keys : k[1] = m})
GrossExposure(p)     == MapThenSumSet(LAMBDA k : p.cost[k], Keys)

\* Fault: orders that are open but not filled are not counted.
AllowedIgnoringPending(o) ==
  /\ o.notional <= MaxOrderNotional
  /\ portfolio.pnl >= -MaxDailyLoss
  /\ MarketExposure(portfolio, o.market) + BuyNotional(o) <= MaxMarketExposure
  /\ GrossExposure(portfolio) + BuyNotional(o) <= MaxGrossExposure
  /\ CashNeeded(o) <= portfolio.cash - reservedCash
  /\ SellQty(o) <= portfolio.held[Key(o)] - reservedQty[Key(o)]

\* evaluate_order_risk and the checks submit adds: the BUYs on hold count as
\* filled, an unfilled SELL does not lower exposure.
Allowed(o) ==
  /\ o.notional <= MaxOrderNotional
  /\ portfolio.pnl >= -MaxDailyLoss
  /\ MarketExposure(portfolio, o.market) + BuyNotional(o)
       + Total(BuyNotional, InMarket(holds, o.market)) <= MaxMarketExposure
  /\ GrossExposure(portfolio) + BuyNotional(o)
       + Total(BuyNotional, holds) <= MaxGrossExposure
  /\ CashNeeded(o) <= portfolio.cash - reservedCash
  /\ SellQty(o) <= portfolio.held[Key(o)] - reservedQty[Key(o)]

\* _time_reasons finds none.
Fresh(o, t) == /\ t >= o.decided /\ t - o.decided <= MaxDecisionAge
               /\ t >= o.quoted  /\ t - o.quoted <= MaxMarketDataAge
NoReason(o, t) == ~kill /\ Fresh(o, t)

-----------------------------------------------------------------------------
(* Opening and closing                                                     *)

\* Fault: a recovered history does not halt the path.
OpenUnhalted(p) ==
  /\ pc = "down" /\ intact
  /\ pc' = "idle" /\ portfolio' = p /\ tip' = Len(log) /\ halt' = None
  /\ UNCHANGED <<ledgerVars, requests, accountVars, holds, consumed, results,
                 killVars, cur, callVars>>

\* create() on a new file or open_existing(): history means reconciliation
\* first.  (With a checkpoint the ledger refuses more files; with a file that
\* holds anything but records it refuses in any case.)
Open(p) ==
  /\ pc = "down" /\ intact
  /\ pc' = "idle" /\ portfolio' = p
  /\ tip' = Len(log)
  /\ halt' = IF Len(log) > 0 THEN "RECOVERED_HISTORY" ELSE None
  /\ UNCHANGED <<ledgerVars, requests, accountVars, holds, consumed, results,
                 killVars, cur, callVars>>

\* close(): waits for the submit in progress; no reservation is released.
Close ==
  /\ pc = "idle"
  /\ Gone
  /\ UNCHANGED <<ledgerVars, requests>>

\* The process dies.  While the record is being written it may leave part
\* of a line behind.
Crash ==
  /\ pc # "down"
  /\ Gone
  /\ intact' \in IF pc = "append" THEN {intact, FALSE} ELSE {intact}
  /\ UNCHANGED <<log, acked, voided, requests>>

\* set_kill_switch: no lock.
SetKillSwitch(b) ==
  /\ pc # "down"
  /\ kill' = b
  /\ killAt' = IF ~b THEN "idle" ELSE IF kill THEN killAt ELSE pc
  /\ UNCHANGED <<ledgerVars, requests, pathVars, accountVars, holds, results,
                 halt, pc, cur, callVars>>

\* The lock on the ledger is advisory: something else writes to the file.
ForeignAppend ==
  /\ intact
  /\ intact' = FALSE
  /\ UNCHANGED <<log, acked, voided, requests, pathVars, accountVars, holds,
                 results, halt, killVars, pc, cur, callVars>>

\* The operator puts back a file with a prefix of the records.  Bound: every
\* record is taken away at most once.
RestoreBackup ==
  /\ pc = "down"
  /\ \E n \in 0..Len(log) :
       LET lost == {log[k].id : k \in (n + 1)..Len(log)} IN
       /\ lost \cap voided = {}
       /\ log' = SubSeq(log, 1, n)
       /\ acked' = {r \in acked : r.seq <= n}
       /\ voided' = voided \cup lost
  /\ intact' = TRUE
  /\ UNCHANGED <<requests, pathVars, accountVars, holds, results, halt,
                 killVars, pc, cur, callVars>>

-----------------------------------------------------------------------------
(* One call of submit                                                      *)

\* The call goes on to the given statement.
Goto(step) == pc' = step /\ UNCHANGED <<cur, callVars>>

\* The call returns.
Return == /\ pc' = "idle" /\ cur' = None
          /\ now' = 0 /\ dispatchNow' = 0 /\ stop' = FALSE /\ answer' = None

\* _store, and the call returns.
Store(status) ==
  /\ results' = [results EXCEPT ![cur.id] = status]
  /\ Return

\* The halt latch is set for a reason, and the call returns.
HaltWith(reason) == halt' = reason /\ Return

\* checkpoint() of the ledger equals _tip.
AtTip == intact /\ Len(log) = tip

\* A call that gets past the duplicate, halt and ledger checks.  (A consumed
\* id answers DUPLICATE or raises a conflict, a halted path answers
\* RECONCILIATION_REQUIRED; neither changes anything.)
Begin(i) ==
  /\ pc = "idle"
  /\ \A j \in consumed : j.id # i.id
  /\ halt = None
  /\ AtTip
  /\ cur' = i /\ pc' = "gate"
  /\ UNCHANGED <<ledgerVars, requests, pathVars, accountVars, holds, results,
                 halt, killVars, callVars>>

\* The ledger cannot be read or is not where this path left it.
LedgerGone ==
  /\ pc = "idle" /\ halt = None
  /\ halt' = "LEDGER_UNAVAILABLE"
  /\ UNCHANGED <<ledgerVars, requests, pathVars, accountVars, holds, results,
                 killVars, pc, cur, callVars>>

\* Governance evidence, kill switch and times: BLOCKED, or go on.
Gate(t) ==
  /\ pc = "gate"
  /\ \/ /\ NoReason(cur.content, t)
        /\ now' = t /\ pc' = "risk"
        /\ UNCHANGED <<cur, dispatchNow, stop, answer>>
     \/ Return
  /\ UNCHANGED <<ledgerVars, requests, pathVars, accountVars, holds, results,
                 halt, killVars>>

\* BLOCKED by risk.
Block ==
  /\ pc = "risk" /\ (kill \/ ~Allowed(cur.content))
  /\ Return
  /\ UNCHANGED <<ledgerVars, requests, pathVars, accountVars, holds, results,
                 halt, killVars>>

\* _reserve, first assignment: the portfolio with the reservation.
Reserve ==
  /\ pc = "risk" /\ ~kill /\ Allowed(cur.content)
  /\ reservedCash' = reservedCash + CashNeeded(cur.content)
  /\ reservedQty' = [reservedQty EXCEPT ![Key(cur.content)] =
                       @ + SellQty(cur.content)]
  /\ Goto("hold")
  /\ UNCHANGED <<ledgerVars, requests, pathVars, holds, results, halt,
                 killVars>>

\* _reserve, second assignment.
Hold ==
  /\ pc = "hold"
  /\ holds' = holds \cup {cur}
  /\ Goto("consume")
  /\ UNCHANGED <<ledgerVars, requests, pathVars, accountVars, results, halt,
                 killVars>>

\* From here on the id is spent, whatever happens.
Consume ==
  /\ pc = "consume"
  /\ consumed' = consumed \cup {cur}
  /\ Goto("append")
  /\ UNCHANGED <<ledgerVars, requests, portfolio, tip, accountVars, holds,
                 results, halt, killVars>>

\* Inside append: the record is durable.
Persist ==
  /\ pc = "append" /\ intact
  /\ \A k \in 1..Len(log) : log[k].id # cur.id
  /\ log' = Append(log, cur)
  /\ Goto("acknowledge")
  /\ UNCHANGED <<intact, acked, voided, requests, pathVars, accountVars, holds,
                 results, halt, killVars>>

\* append returns its receipt.
Acknowledge ==
  /\ pc = "acknowledge" /\ intact
  /\ acked' = acked \cup {[seq |-> Len(log), intent |-> cur]}
  /\ Goto("bind")
  /\ UNCHANGED <<log, intact, voided, requests, pathVars, accountVars, holds,
                 results, halt, killVars>>

\* The receipt is the next one of this ledger and binds this intent.
Bind ==
  /\ pc = "bind" /\ intact
  /\ Len(log) = tip + 1 /\ log[Len(log)] = cur
  /\ tip' = Len(log)
  /\ Goto("resample")
  /\ UNCHANGED <<ledgerVars, requests, portfolio, consumed, accountVars,
                 holds, results, halt, killVars>>

\* The append, or the check of its receipt, raised: nobody may assume the
\* record is not there, so the reservation stays.
AppendFails ==
  /\ pc \in {"append", "acknowledge", "bind"}
  /\ intact' \in IF pc = "append" THEN {intact, FALSE} ELSE {intact}
  /\ halt' = "PRECOMMIT_FAILED"
  /\ Store("PRECOMMIT_FAILED")
  /\ UNCHANGED <<log, acked, voided, requests, pathVars, accountVars, holds,
                 killVars>>

\* Time and kill switch once more: the fsync may have taken long.
Resample(t) ==
  /\ pc = "resample"
  /\ dispatchNow' = t
  /\ stop' = (~NoReason(cur.content, t) \/ t < now)
  /\ pc' = "recheck"
  /\ UNCHANGED <<ledgerVars, requests, pathVars, accountVars, holds, results,
                 halt, killVars, cur, now, answer>>

\* The ledger is still where the receipt left it.
Recheck ==
  /\ pc = "recheck" /\ AtTip
  /\ Goto("final")
  /\ UNCHANGED <<ledgerVars, requests, pathVars, accountVars, holds, results,
                 halt, killVars>>

\* It is not, or it cannot be read.
RecheckFails ==
  /\ pc = "recheck"
  /\ halt' = "LEDGER_CHANGED_BEFORE_DISPATCH"
  /\ Store("RECONCILIATION_REQUIRED")
  /\ UNCHANGED <<ledgerVars, requests, pathVars, accountVars, holds, killVars>>

\* Fault: the fee reserve is not given back.
FreeNotionalOnly ==
  /\ reservedCash' = reservedCash - BuyNotional(cur.content)
  /\ reservedQty' = [reservedQty EXCEPT ![Key(cur.content)] =
                       @ - SellQty(cur.content)]
  /\ pc' = "release"

\* _release_hold, first assignment: the portfolio without the reservation.
FreeReservation ==
  /\ reservedCash' = reservedCash - CashNeeded(cur.content)
  /\ reservedQty' = [reservedQty EXCEPT ![Key(cur.content)] =
                       @ - SellQty(cur.content)]
  /\ pc' = "release"

\* Fault: the last sample looks at the switch only.
FinalSampleWithoutTime(t) ==
  /\ pc = "final"
  /\ IF ~stop /\ ~kill
     THEN pc' = "dispatch" /\ UNCHANGED <<accountVars, stop>>
     ELSE FreeReservation /\ stop' = TRUE
  /\ dispatchNow' = t
  /\ UNCHANGED <<ledgerVars, requests, pathVars, holds, results, halt,
                 killVars, cur, now, answer>>

\* The last sample of time and kill switch; no call was made so far.
FinalSample(t) ==
  /\ pc = "final"
  /\ IF ~stop /\ NoReason(cur.content, t) /\ t >= dispatchNow
     THEN pc' = "dispatch" /\ UNCHANGED <<accountVars, stop>>
     ELSE FreeReservation /\ stop' = TRUE
  /\ dispatchNow' = t
  /\ UNCHANGED <<ledgerVars, requests, pathVars, holds, results, halt,
                 killVars, cur, now, answer>>

\* The one call of the stub: it has the request, and answers or raises.
Dispatch ==
  /\ pc = "dispatch"
  /\ requests' = Append(requests, cur)
  /\ answer' \in Answers
  /\ pc' = "answer"
  /\ UNCHANGED <<ledgerVars, pathVars, accountVars, holds, results, halt,
                 killVars, cur, now, dispatchNow, stop>>

\* Acknowledged with no fill: the order is open and keeps its reservation.
Acked ==
  /\ pc = "answer" /\ answer = "ACK"
  /\ Store("OFFLINE_ACK")
  /\ UNCHANGED <<ledgerVars, requests, pathVars, accountVars, holds, halt,
                 killVars>>

Rejected ==
  /\ pc = "answer" /\ answer = "REJECT"
  /\ FreeReservation
  /\ UNCHANGED <<ledgerVars, requests, pathVars, holds, results, halt,
                 killVars, cur, callVars>>

\* Faults: a timeout is tried again; a timeout counts as not dispatched.
TimeoutRetried ==
  /\ pc = "answer" /\ answer \in {"TIMEOUT", "MALFORMED"}
  /\ pc' = "dispatch" /\ answer' = None
  /\ UNCHANGED <<ledgerVars, requests, pathVars, accountVars, holds, results,
                 halt, killVars, cur, now, dispatchNow, stop>>

TimeoutReleases ==
  /\ pc = "answer" /\ answer \in {"TIMEOUT", "MALFORMED"}
  /\ halt' = "DISPATCH_OUTCOME_UNKNOWN"
  /\ holds' = holds \ {cur}
  /\ Store("UNKNOWN")
  /\ UNCHANGED <<ledgerVars, requests, pathVars, accountVars, killVars>>

\* A timeout or an answer that cannot be validated: the order may be open.
OutcomeUnknown ==
  /\ pc = "answer" /\ answer \in {"TIMEOUT", "MALFORMED"}
  /\ halt' = "DISPATCH_OUTCOME_UNKNOWN"
  /\ Store("UNKNOWN")
  /\ UNCHANGED <<ledgerVars, requests, pathVars, accountVars, holds, killVars>>

\* _release_hold, second assignment, and the result.
Release ==
  /\ pc = "release"
  /\ holds' = holds \ {cur}
  /\ Store(IF answer = "REJECT" THEN "OFFLINE_REJECTED" ELSE "NOT_DISPATCHED")
  /\ UNCHANGED <<ledgerVars, requests, pathVars, accountVars, halt, killVars>>

\* Anything else that raises anywhere in the call (the clock, a failed
\* validation of a reservation, KeyboardInterrupt): no result is stored.
Interrupt ==
  /\ pc \in Steps
  /\ HaltWith(IF halt = None THEN "UNEXPECTED_FAILURE" ELSE halt)
  /\ intact' \in IF pc = "append" THEN {intact, FALSE} ELSE {intact}
  /\ UNCHANGED <<log, acked, voided, requests, pathVars, accountVars, holds,
                 results, killVars>>

-----------------------------------------------------------------------------
Sampling(t) == Gate(t) \/ Resample(t) \/ FinalSample(t)

Submit == \/ \E i \in Intents : Begin(i)
          \/ LedgerGone
          \/ \E t \in Times : Sampling(t)
          \/ Block \/ Reserve \/ Hold \/ Consume
          \/ Persist \/ Acknowledge \/ Bind \/ AppendFails
          \/ Recheck \/ RecheckFails
          \/ Dispatch \/ Acked \/ Rejected \/ OutcomeUnknown \/ Release
          \/ Interrupt

Environment == \/ \E p \in Portfolios : Open(p)
               \/ Close \/ Crash
               \/ \E b \in BOOLEAN : SetKillSwitch(b)
               \/ ForeignAppend \/ RestoreBackup

Next == Submit \/ Environment

Spec == Init /\ [][Next]_vars

-----------------------------------------------------------------------------
(* Properties                                                              *)

Receipts == [seq : Nat, intent : Intents]

FileTypes == /\ log \in Seq(Intents) /\ acked \subseteq Receipts
             /\ intact \in BOOLEAN /\ voided \subseteq Ids
             /\ requests \in Seq(Intents)

AccountTypes == /\ portfolio \in Portfolios \cup {None}
                /\ pc # "down" => portfolio # None
                /\ reservedCash \in Int /\ reservedQty \in [Keys -> Int]
                /\ holds \subseteq Intents

MemoryTypes == /\ consumed \subseteq Intents
               /\ results \in [Ids -> Statuses \cup {None}]
               /\ tip \in Nat /\ halt \in Halts \cup {None}
               /\ kill \in BOOLEAN /\ killAt \in Steps \cup {"idle"}

CallTypes == /\ pc \in Steps \cup {"idle", "down"}
             /\ IF pc \in Steps THEN cur \in Intents ELSE cur = None
             /\ now \in Times /\ dispatchNow \in Times /\ stop \in BOOLEAN
             /\ answer \in Answers \cup {None}

\* Types of the state; a call is in progress exactly when it has an intent,
\* so an exception never leaves _in_submit set.
TypeOK == FileTypes /\ AccountTypes /\ MemoryTypes /\ CallTypes

\* Whatever reached the stub is in the ledger first: its durable record and
\* the receipt for it exist, also after the process died at any point, unless
\* an operator took the record away.
DispatchedOnRecord ==
  \A n \in 1..Len(requests) :
    requests[n].id \in voided
      \/ \E r \in acked : /\ r.seq <= Len(log)
                          /\ log[r.seq] = requests[n] /\ r.intent = requests[n]

\* No intent id is dispatched twice, by retries, duplicates with the same or
\* other content, timeouts, crashes or reopened paths; only an operator who
\* takes the record away can cause it.
AtMostOnce ==
  \A m, n \in 1..Len(requests) :
    m # n /\ requests[m].id = requests[n].id => requests[m].id \in voided

\* A path that accepts new orders knows what became of every order in its
\* ledger; in all other cases it is halted.
Settled == {"OFFLINE_ACK", "OFFLINE_REJECTED", "NOT_DISPATCHED"}
FateKnown ==
  pc = "idle" /\ halt = None =>
    \A k \in 1..Len(log) : results[log[k].id] \in Settled

\* The reservation of an order ends only with a stored proof that it is not
\* at the venue: a rejection, or a stop before the call.
OpenOrdersReserved ==
  \A i \in consumed :
    \/ i \in holds
    \/ results[i.id] \in {"OFFLINE_REJECTED", "NOT_DISPATCHED"}

\* The portfolio's accumulators are the sums over the holds, whatever calls
\* came before, unless an exception cut a call short and halted the path.
AccountMatchesHolds ==
  pc = "idle" /\ halt # "UNEXPECTED_FAILURE" =>
    /\ reservedCash = Total(CashNeeded, holds)
    /\ \A k \in Keys : reservedQty[k] = Total(SellQty, InKey(holds, k))

\* The reservations are those of the orders on hold, and if all of them fill,
\* cash, inventory and the exposure limits still hold: the checks count
\* orders that are open but not filled.
WorstCaseWithinLimits ==
  pc # "down" =>
    /\ AccountMatchesHolds
    /\ Total(CashNeeded, holds) <= portfolio.cash
    /\ \A k \in Keys : Total(SellQty, InKey(holds, k)) <= portfolio.held[k]
    /\ \A i \in holds : i.content.side = "BUY" =>
         /\ MarketExposure(portfolio, i.content.market)
              + Total(BuyNotional, InMarket(holds, i.content.market))
              <= MaxMarketExposure
         /\ GrossExposure(portfolio) + Total(BuyNotional, holds)
              <= MaxGrossExposure

\* The call is made on controls sampled after the record was durable: the
\* decision and the quote are fresh and the clock never ran backwards since
\* admission.
FreshDispatch ==
  pc = "dispatch" =>
    ~stop /\ Fresh(cur.content, dispatchNow) /\ dispatchNow >= now

\* A kill switch that is on when the call is made went on after the last
\* sample; one that was on at any sample stops the call.
KillOutrun == pc = "dispatch" /\ kill => killAt = "dispatch"

\* Once halted a path stays halted for the same reason: nothing reaches the
\* stub and no reservation changes until it is closed.
HaltLatches ==
  [][pc # "down" /\ pc' # "down" /\ halt # None =>
       /\ halt' = halt /\ requests' = requests
       /\ holds' = holds /\ reservedCash' = reservedCash
       /\ reservedQty' = reservedQty]_vars

\* To its ledger this path is one more client of the durable log.
LOG == INSTANCE DurableLog WITH Contents <- Orders
RefinesDurableLog == LOG!LogSpec
=============================================================================
