----------------------------- MODULE ShadowTrading -----------------------------
(***************************************************************************)
(* The risk-gated simulation pipelines over one shared PortfolioState:     *)
(* execute_passive_with_risk and execute_aggressive_with_risk.  A call     *)
(* asks the risk gate, reserves cash or shares, simulates the order        *)
(* (OrderSim), applies its fills one by one, and releases what a finished  *)
(* order does not need.  An order that stays on the book keeps the rest of *)
(* its reservation until its owner releases it.  Calls follow one another; *)
(* the statements of one call are separate steps because any of them may   *)
(* raise, and the portfolio outlives the exception.                        *)
(*                                                                         *)
(* Amounts are whole numbers of a unit above _EPS.  The code computes in   *)
(* floating point: what a product is off by, as seen at the scale of       *)
(* _EPS, is a choice from Rounding.                                        *)
(***************************************************************************)
EXTENDS OrderSim, FiniteSetsExt

CONSTANTS
  None,         \* no order
  Orders,       \* intents: key, side, qty, price, how they are executed, and the
                \* fee and rebate of their schedule, per Unit of notional
  Keys,         \* positions: a market with an outcome
  Unit,
  Rounding,     \* {0} for amounts whose floating-point error is below _EPS
  Ahead,        \* quantities displayed at the order's price when it arrives
  Timelines,    \* what may happen to a passive order
  Books,        \* levels an aggressive order may meet
  Cash,         \* the portfolio at the start: cash, and shares with their cost
  Shares,
  MaxOrderNotional, MaxGrossExposure, MaxDailyLoss

Accept == 1     \* when the venue accepts; all times are relative to it

ASSUME TradingAssumption ==
  /\ IsFiniteSet(Orders)
  /\ \A o \in Orders : /\ o.key \in Keys /\ o.side \in {"BUY", "SELL"}
                       /\ o.qty \in Nat \ {0} /\ o.price \in Nat \ {0}
                       /\ o.kind \in {"passive", "IOC", "FOK"}
                       /\ o.fee \in 0..Unit        \* no fee above its notional
                       /\ o.kind # "passive" => o.rebate = 0
                       /\ o.rebate \in Nat /\ o.price % Unit = 0
  /\ Unit \in Nat \ {0}
  /\ None \notin Orders
  /\ Rounding \subseteq Int /\ Ahead \subseteq Nat
  /\ Timelines \subseteq Seq(Event) /\ Books \subseteq Seq(Nat \X Nat)
  /\ \A tl \in Timelines : IsTimeline(tl)
  /\ Cash \in Nat /\ Shares \in [Keys -> [qty : Nat, cost : Nat]]

VARIABLES
  cash, reserved, pnl,  \* the PortfolioState: its amounts,
  qty, cost, held,      \* and of each position the shares, their cost, and
                        \* how many of them are reserved for a sale
  fate,         \* what became of each order
  rest,         \* what it still holds: cash of a BUY, shares of a SELL
  running,      \* the order of the call in progress, or None
  stage,        \* "gated", "walk" or "sweep" (simulating), "apply"
  input,        \* the events or levels still to be simulated
  sim,          \* the simulated order, the quantity ahead of it and its fills
  seen,         \* what the simulation was given: quantity ahead, what traded
                \* before the cancel took effect, and when that is
  before        \* the portfolio when the call began

portfolio == <<cash, reserved, pnl, qty, cost, held>>
vars == <<portfolio, fate, rest, running, stage, input, sim, seen, before>>
simVars == <<input, sim, seen>>

Gross == MapThenSumSet(LAMBDA k : cost[k], Keys)
Available == IF cash > reserved THEN cash - reserved ELSE 0
Sellable(k) == IF qty[k] > held[k] THEN qty[k] - held[k] ELSE 0

\* What a fill costs beside its notional, and what a maker gets back.
FeeOf(o, n)    == (n * o.fee) \div Unit
RebateOf(o, n) == (n * o.rebate) \div Unit

\* Fault: the reservation covers the notional only.
NeedWithoutFee(o) == IF o.side = "BUY" THEN o.qty * o.price
                     ELSE IF o.kind = "passive" THEN o.qty ELSE 0

\* The reservation of a BUY counts the fee and no rebate.
Need(o) == IF o.side = "BUY" THEN o.qty * o.price + FeeOf(o, o.qty * o.price)
           ELSE IF o.kind = "passive" THEN o.qty ELSE 0

NoSim == [order |-> NewOrder(1), ahead |-> 0, fills |-> <<>>]
NotSeen == [ahead |-> 0, traded |-> 0, until |-> -1]      \* -1: no cancel

Init ==
  /\ cash = Cash /\ reserved = 0 /\ pnl = 0
  /\ qty = [k \in Keys |-> Shares[k].qty] /\ cost = [k \in Keys |-> Shares[k].cost]
  /\ held = [k \in Keys |-> 0]
  /\ fate = [o \in Orders |-> "new"]
  /\ rest = [o \in Orders |-> 0]
  /\ running = None /\ stage = "idle"
  /\ input = <<>> /\ sim = NoSim /\ seen = NotSeen
  /\ before = portfolio

-----------------------------------------------------------------------------
\* What the sale of n of the shares k takes off their cost: the average.
CostOf(k, n) == (cost[k] * n) \div qty[k]

\* evaluate_order_risk.  fresh: neither kill switch nor stale market data.
Allowed(o, fresh) ==
  LET n == o.qty * o.price IN
  /\ fresh
  /\ n <= MaxOrderNotional
  /\ o.side = "BUY" => /\ Need(o) <= Available
                       /\ Gross + n <= MaxGrossExposure
  /\ o.side = "SELL" => /\ o.qty <= Sellable(o.key)
                        /\ Gross - CostOf(o.key, o.qty) <= MaxGrossExposure
  /\ pnl > -MaxDailyLoss

\* reserve_buy_cash and reserve_sell_qty, and their opposites.  n: how much
\* the order holds from now on.
Hold(o, n) ==
  /\ rest' = [rest EXCEPT ![o] = n]
  /\ reserved' = IF o.side = "BUY" THEN reserved + n - rest[o] ELSE reserved
  /\ held' = IF o.side = "BUY" THEN held ELSE [held EXCEPT ![o.key] = @ + n - rest[o]]
  /\ UNCHANGED <<cash, pnl, qty, cost>>

\* The call is over, with this fate; what was simulated is dropped.
Ends(o, f) ==
  /\ fate' = [fate EXCEPT ![o] = f]
  /\ running' = None /\ stage' = "idle"
  /\ input' = <<>> /\ sim' = NoSim /\ seen' = NotSeen

\* The gate, and the reservation.  A refused order changes nothing.
Begin(o) ==
  /\ running = None /\ fate[o] = "new"
  /\ before' = portfolio
  /\ \E fresh \in BOOLEAN :
       IF Allowed(o, fresh)
         THEN /\ Hold(o, Need(o))
              /\ fate' = [fate EXCEPT ![o] = "running"]
              /\ running' = o /\ stage' = "gated"
              /\ UNCHANGED simVars
         ELSE Ends(o, "refused") /\ UNCHANGED <<portfolio, rest>>

\* The except clause: the rest of this order's reservation goes back.
Raise(o) ==
  /\ Hold(o, 0)
  /\ Ends(o, "raised")

\* When the cancel of a timeline takes effect.
Until(tl) == IF \E i \in DOMAIN tl : tl[i].kind = "effective"
             THEN tl[CHOOSE i \in DOMAIN tl : tl[i].kind = "effective"].ts ELSE -1

\* simulate_passive_order starts with its checks of the timeline.
StartWalk(o) ==
  /\ running = o /\ stage = "gated" /\ o.kind = "passive"
  /\ UNCHANGED before
  /\ \E ahead \in Ahead, tl \in Timelines :
       IF Unambiguous(tl, Accept)
         THEN /\ stage' = "walk" /\ input' = tl
              /\ sim' = [order |-> Accepted(o.qty, Accept), ahead |-> ahead, fills |-> <<>>]
              /\ seen' = [ahead |-> ahead, traded |-> 0, until |-> Until(tl)]
              /\ UNCHANGED <<portfolio, fate, rest, running>>
         ELSE Raise(o)

Counts(e) == e.kind = "trade" /\ (seen.until = -1 \/ e.ts < seen.until)
Walk(o) ==
  /\ running = o /\ stage = "walk" /\ input # <<>>
  /\ sim' = Turn(sim, o.price, Head(input))
  /\ seen' = [seen EXCEPT !.traded = @ + (IF Counts(Head(input)) THEN Head(input).qty ELSE 0)]
  /\ input' = Tail(input)
  /\ UNCHANGED <<portfolio, fate, rest, running, stage, before>>

\* simulate_aggressive_order looks at the executable levels.
StartSweep(o) ==
  /\ running = o /\ stage = "gated" /\ o.kind # "passive"
  /\ UNCHANGED before
  /\ \E levels \in Books :
       IF BestToWorst(o.side, o.price, levels)
         THEN /\ stage' = "sweep" /\ input' = levels
              /\ sim' = [NoSim EXCEPT !.order = Accepted(o.qty, Accept)]
              /\ UNCHANGED <<portfolio, fate, rest, running, seen>>
         ELSE Raise(o)

SweepLevel(o) ==
  /\ running = o /\ stage = "sweep" /\ input # <<>>
  /\ sim' = IF Executable(o.side, o.price, Head(input)) THEN Take(sim, Head(input), Accept) ELSE sim
  /\ input' = Tail(input)
  /\ UNCHANGED <<portfolio, fate, rest, running, stage, seen, before>>

\* The simulation is complete; the summary of its costs may still raise (a
\* reference or mark price that is not a price).
Summarize(o) ==
  /\ running = o /\ stage \in {"walk", "sweep"} /\ input = <<>>
  /\ UNCHANGED before
  /\ \/ /\ sim' = IF stage = "sweep" THEN Swept(sim, o.kind, Accept) ELSE sim
        /\ stage' = "apply"
        /\ UNCHANGED <<portfolio, fate, rest, running, input, seen>>
     \/ Raise(o)

-----------------------------------------------------------------------------
Applying(o) == running = o /\ stage = "apply" /\ UNCHANGED before

NextFill == /\ sim' = [sim EXCEPT !.fills = Tail(@)]
            /\ UNCHANGED <<fate, running, stage, input, seen>>

(***************************************************************************)
(* apply_buy_fill of the first fill, paid from the reservation.  The       *)
(* pipeline's assertion comes first; apply_buy_fill lowers reserved_cash   *)
(* before it looks at cash.  Whatever raises, the rest is released: what   *)
(* release_reserved_cash would then refuse shows as a negative reserve.    *)
(***************************************************************************)
BuyFill(o) ==
  /\ Applying(o) /\ o.side = "BUY" /\ sim.fills # <<>>
  /\ \E r \in Rounding :
       LET q    == Head(sim.fills)[2]
           n    == Head(sim.fills)[1] * q
           fee  == FeeOf(o, n) - RebateOf(o, n) + r
           used == Least(reserved, n + fee)
       IN  \/ /\ n + fee > rest[o] \/ n + fee < 0
              /\ Raise(o)
           \/ /\ n + fee <= rest[o] /\ n + fee > cash
              /\ reserved' = reserved - used - rest[o] /\ rest' = [rest EXCEPT ![o] = 0]
              /\ Ends(o, "raised") /\ UNCHANGED <<cash, pnl, qty, cost, held>>
           \/ /\ n + fee \in 0..rest[o] /\ n + fee <= cash
              /\ cash' = cash - (n + fee) /\ reserved' = reserved - used
              /\ pnl' = pnl - fee
              /\ qty' = [qty EXCEPT ![o.key] = @ + q]
              /\ cost' = [cost EXCEPT ![o.key] = @ + n]
              /\ rest' = [rest EXCEPT ![o] = @ - (n + fee)]
              /\ NextFill /\ UNCHANGED held

\* apply_sell_fill of q shares for n.
Sold(o, q, n, fee) ==
  /\ cash' = cash + n - fee /\ pnl' = pnl + n - fee - CostOf(o.key, q)
  /\ qty' = [qty EXCEPT ![o.key] = @ - q]
  /\ cost' = [cost EXCEPT ![o.key] = @ - CostOf(o.key, q)]

\* A passive sale releases the shares just before it sells them.
SellFill(o) ==
  /\ Applying(o) /\ o.side = "SELL" /\ sim.fills # <<>>
  /\ LET q    == Head(sim.fills)[2]
         n    == Head(sim.fills)[1] * q
         fits == q <= qty[o.key] /\ (o.kind = "passive" => q <= rest[o])
         freed == IF o.kind = "passive" THEN q ELSE 0
     IN  \/ ~fits /\ Raise(o)
         \/ /\ fits
            /\ \E r \in Rounding : Sold(o, q, n, FeeOf(o, n) - RebateOf(o, n) + r)
            /\ rest' = [rest EXCEPT ![o] = @ - freed]
            /\ held' = [held EXCEPT ![o.key] = @ - freed]
            /\ NextFill /\ UNCHANGED reserved

\* Fault: only a complete fill gives the rest of the reservation back.
FinishFilledOnly(o) ==
  /\ Applying(o) /\ sim.fills = <<>>
  /\ IF sim.order.status # "FILLED"
       THEN Ends(o, IF sim.order.status \in Terminal THEN "done" ELSE "resting")
            /\ UNCHANGED <<portfolio, rest>>
       ELSE Ends(o, "done") /\ Hold(o, 0)

\* All fills are applied.  A terminal order releases the rest, as IOC and FOK
\* always are.
Finish(o) ==
  /\ Applying(o) /\ sim.fills = <<>>
  /\ IF sim.order.status \notin Terminal
       THEN Ends(o, "resting") /\ UNCHANGED <<portfolio, rest>>
       ELSE Ends(o, "done") /\ Hold(o, 0)

\* The owner of a resting order gives its reservation back.
OwnerReleases(o) ==
  /\ running = None /\ fate[o] = "resting"
  /\ Hold(o, 0)
  /\ fate' = [fate EXCEPT ![o] = "done"]
  /\ UNCHANGED <<running, stage, simVars, before>>

Next == \E o \in Orders :
  \/ Begin(o) \/ StartWalk(o) \/ Walk(o) \/ StartSweep(o) \/ SweepLevel(o)
  \/ Summarize(o) \/ BuyFill(o) \/ SellFill(o) \/ Finish(o) \/ OwnerReleases(o)

Spec == Init /\ [][Next]_vars

-----------------------------------------------------------------------------
SimState == [order : OrderState, ahead : Nat, fills : Seq(Nat \X (Nat \ {0}))]
Seen == [ahead : Nat, traded : Nat, until : Nat \cup {-1}]

Fate == {"new", "refused", "running", "resting", "done", "raised"}

TypeOK ==
  /\ cash \in Int /\ reserved \in Int /\ pnl \in Int
  /\ qty \in [Keys -> Int] /\ cost \in [Keys -> Int] /\ held \in [Keys -> Int]
  /\ fate \in [Orders -> Fate]
  /\ rest \in [Orders -> Int]
  /\ running \in Orders \cup {None}
  /\ stage \in {"idle", "gated", "walk", "sweep", "apply"}
  /\ running = None <=> stage = "idle"
  /\ IF stage = "sweep" THEN input \in Seq(Nat \X Nat) ELSE input \in Seq(Event)
  /\ sim \in SimState /\ seen \in Seen

HeldBy(S) == MapThenSumSet(LAMBDA o : rest[o], S)

(* What is reserved is exactly what orders still hold, an order holds        *)
(* nothing once it has ended, and the reserves are backed: by cash, and by   *)
(* the shares of the position.  Every path out of a call (refusal, raise at  *)
(* any statement, partial fill, cancel, complete fill with a rebate) has to  *)
(* give back what it took, or other orders trade with it.  What an order     *)
(* keeps pays for everything it has still to fill.                           *)
HoldsAccounted ==
  /\ reserved = HeldBy({o \in Orders : o.side = "BUY"})
  /\ reserved <= cash
  /\ \A k \in Keys : /\ held[k] = HeldBy({o \in Orders : o.side = "SELL" /\ o.key = k})
                     /\ held[k] <= qty[k]
  /\ \A o \in Orders : rest[o] >= 0 /\ (rest[o] > 0 => fate[o] \in {"running", "resting"})
  /\ stage = "apply" /\ sim.fills = <<>> /\ running.kind = "passive" =>
       rest[running] >= Remaining(sim.order) * (IF running.side = "BUY"
                                                  THEN running.price + FeeOf(running, running.price)
                                                  ELSE 1)

\* Cash, plus the cost of the shares it bought, less the profit that was
\* booked, stays what it was: no fill, fee, rebate, average or rounding loses
\* or creates money.  A step touches the cost of one position at most.
ValueConserved ==
  [][\E k \in Keys : /\ cash' + cost'[k] - pnl' = cash + cost[k] - pnl
                     /\ \A j \in Keys \ {k} : cost'[j] = cost[j]]_portfolio

\* A call that raises has changed nothing: no assertion of the pipelines and
\* no check of the portfolio fails between two fills, so that the clause for
\* "already-applied fills" is never needed.
AllOrNothing ==
  [][\A o \in Orders : fate[o] # "raised" /\ fate'[o] = "raised" => portfolio' = before]_vars

(* The walk over the timeline comes to what priority in the queue says:      *)
(* what traded before the cancel took effect, less what was ahead, up to     *)
(* the order's size.  The order is FILLED exactly when that is all of it,    *)
(* and once the cancel is effective it is FILLED or CANCELLED.               *)
Due == Least(sim.order.qty, IF seen.traded > seen.ahead THEN seen.traded - seen.ahead ELSE 0)
FillsFollowQueue ==
  stage = "walk" =>
    /\ sim.order.filled = Due
    /\ sim.order.status = "FILLED" <=> Due = sim.order.qty
    /\ sim.order.status = "CANCELLED" =>
         seen.until # -1 /\ \A i \in DOMAIN input : input[i].kind = "trade" => ~Counts(input[i])
    /\ input = <<>> /\ seen.until # -1 => sim.order.status \in {"FILLED", "CANCELLED"}

\* A cancel in flight and one trade left: the walk ends as
\* resolve_cancel_fill_race says that the race between the two ends.
RaceAgrees ==
  stage = "walk" /\ Len(input) = 2 /\ sim.order.status = "CANCEL_REQUESTED" /\ sim.ahead = 0
    /\ input[1].kind # input[2].kind =>
    LET t == IF input[1].kind = "trade" THEN input[1] ELSE input[2]
        q == Least(Remaining(sim.order), t.qty)
        w == Turn(Turn(sim, 1, input[1]), 1, input[2]).order
    IN  MayResolve(sim.order, q, t.ts, seen.until)
          /\ Resolved(sim.order, q, t.ts, seen.until) = w
=============================================================================
