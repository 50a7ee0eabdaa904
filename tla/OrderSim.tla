------------------------------- MODULE OrderSim -------------------------------
(***************************************************************************)
(* One simulated order: its life cycle (order_state.py), its place in the  *)
(* queue (queue_model.py), the passive simulation over a timeline of       *)
(* confirmed trades and a cancel (simulator.py), the sweep of an           *)
(* aggressive order (fill_model.py, taker_simulator.py) and the resolution *)
(* of a race between a fill and a cancel (cancel_fill_race.py).  The       *)
(* module has no state: it is what ShadowTrading computes with, and a      *)
(* definition that may raise has a predicate for the calls that do not.    *)
(* Quantities, prices and times are integers; _EPS is below one unit.      *)
(***************************************************************************)
EXTENDS Integers, Sequences

Terminal == {"CANCELLED", "FILLED", "EXPIRED", "REJECTED"}
Resting == {"ACKNOWLEDGED", "PARTIALLY_FILLED"}

\* The events of an order: from which statuses, and to which.
Sent            == [from |-> {"NEW"},              to |-> "SENT"]
Acknowledged    == [from |-> {"SENT"},             to |-> "ACKNOWLEDGED"]
Expired         == [from |-> Resting,              to |-> "EXPIRED"]
CancelRequested == [from |-> Resting,              to |-> "CANCEL_REQUESTED"]
Cancelled       == [from |-> {"CANCEL_REQUESTED"}, to |-> "CANCELLED"]

Status == {"NEW", "SENT", "CANCEL_REQUESTED"} \cup Resting \cup Terminal
OrderState == [qty : Nat \ {0}, status : Status, filled : Nat, last : Nat]

NewOrder(q) == [qty |-> q, status |-> "NEW", filled |-> 0, last |-> 0]
Remaining(o) == IF o.filled < o.qty THEN o.qty - o.filled ELSE 0

\* _transition: the event is legal in this status, and time does not go back.
MayMove(o, event, ts) == ts >= o.last /\ o.status \in event.from
Moved(o, event, ts) == [o EXCEPT !.status = event.to, !.last = ts]

\* apply_fill: fills still arrive while a cancel is in flight.
MayFill(o, q, ts) ==
    /\ ts >= o.last
    /\ o.status \in Resting \cup {"CANCEL_REQUESTED"}
    /\ q \in 1..Remaining(o)

\* Fault: a partial fill during a cancel puts the order back on the book.
FilledForgetsCancel(o, q, ts) ==
    [o EXCEPT !.filled = @ + q, !.last = ts,
              !.status = IF o.filled + q = o.qty THEN "FILLED" ELSE "PARTIALLY_FILLED"]

Filled(o, q, ts) ==
    [o EXCEPT !.filled = @ + q, !.last = ts,
              !.status = IF o.filled + q = o.qty THEN "FILLED"
                         ELSE IF @ = "CANCEL_REQUESTED" THEN @
                         ELSE "PARTIALLY_FILLED"]

-----------------------------------------------------------------------------
Least(a, b) == IF a <= b THEN a ELSE b

\* on_confirmed_trade: traded quantity depletes the queue ahead first.
OwnShare(ahead, left, traded) == Least(left, traded - Least(ahead, traded))

(***************************************************************************)
(* The timeline is what simulate_passive_order walks through: trades,      *)
(* and the two events of a cancel, in the order of time; at one instant    *)
(* the request comes before trades and the effect after them.              *)
(***************************************************************************)
Priority == [request |-> 0, trade |-> 1, effective |-> 2]
Event == {e \in [ts : Nat, kind : {"request", "trade", "effective"}, qty : Nat] :
             e.kind = "trade" => e.qty > 0}

InOrder(tl) ==
    \A i, j \in DOMAIN tl : i < j =>
        \/ tl[i].ts < tl[j].ts
        \/ tl[i].ts = tl[j].ts /\ Priority[tl[i].kind] <= Priority[tl[j].kind]

\* Sorted, with at most one cancel, which has both of its events.
IsTimeline(tl) ==
    /\ InOrder(tl)
    /\ \A i, j \in DOMAIN tl : tl[i].kind = tl[j].kind /\ tl[i].kind # "trade" => i = j
    /\ \A i \in DOMAIN tl :
           /\ tl[i].kind = "request"   => \E j \in DOMAIN tl : tl[j].kind = "effective"
           /\ tl[i].kind = "effective" => \E j \in DOMAIN tl : j < i /\ tl[j].kind = "request"

\* The checks before the walk: no trade at or before the acceptance, none at
\* the instant a cancel takes effect, no cancel of what is not yet accepted.
Unambiguous(tl, accept) ==
    /\ \A i \in DOMAIN tl : /\ tl[i].kind = "trade" => tl[i].ts > accept
                            /\ tl[i].kind = "request" => tl[i].ts >= accept
    /\ \A i, j \in DOMAIN tl :
           tl[i].kind = "effective" /\ tl[j].kind = "trade" => tl[i].ts # tl[j].ts

\* When an order's simulation starts: sent, accepted, behind what is displayed.
Accepted(q, accept) == Moved(Moved(NewOrder(q), Sent, 0), Acknowledged, accept)

\* One turn of the loop.  s is the order, the quantity ahead and the fills so
\* far, as pairs of price and quantity.  A terminal order leaves the loop.
Turn(s, price, e) ==
    LET own == OwnShare(s.ahead, Remaining(s.order), e.qty) IN
    CASE s.order.status \in Terminal -> s
      [] s.order.status \notin Terminal /\ e.kind = "request" ->
             [s EXCEPT !.order = Moved(@, CancelRequested, e.ts)]
      [] s.order.status = "CANCEL_REQUESTED" /\ e.kind = "effective" ->
             [s EXCEPT !.order = Moved(@, Cancelled, e.ts)]
      [] s.order.status \notin Terminal /\ e.kind = "trade" ->
             [ order |-> IF own > 0 THEN Filled(s.order, own, e.ts) ELSE s.order,
               ahead |-> s.ahead - Least(s.ahead, e.qty),
               fills |-> IF own > 0 THEN Append(s.fills, <<price, own>>) ELSE s.fills ]
      [] OTHER -> s

-----------------------------------------------------------------------------
(***************************************************************************)
(* aggressive_sweep: levels are <<price, qty>>, and only those at or       *)
(* better than the limit of the intent are looked at.  FOK fills all or    *)
(* nothing, and what IOC leaves expires.                                   *)
(***************************************************************************)
Executable(side, limit, level) ==
    IF side = "BUY" THEN level[1] <= limit ELSE level[1] >= limit

BestToWorst(side, limit, levels) ==
    \A i, j \in DOMAIN levels :
        i < j /\ Executable(side, limit, levels[i]) /\ Executable(side, limit, levels[j]) =>
        IF side = "BUY" THEN levels[i][1] <= levels[j][1] ELSE levels[i][1] >= levels[j][1]

\* One level: the order takes what it still needs of it.
Take(s, level, ts) ==
    LET n == Least(Remaining(s.order), level[2]) IN
    IF n = 0 THEN s
    ELSE [s EXCEPT !.order = Filled(@, n, ts), !.fills = Append(@, <<level[1], n>>)]

\* After the last level: the order, and the fills that count.
Swept(s, kind, ts) ==
    IF s.order.status = "FILLED" THEN s
    ELSE [s EXCEPT !.order = IF kind = "FOK"
                             THEN Moved([@ EXCEPT !.filled = 0], Expired, ts)
                             ELSE Moved(@, Expired, ts),
                   !.fills = IF kind = "FOK" THEN <<>> ELSE @]

-----------------------------------------------------------------------------
(***************************************************************************)
(* resolve_cancel_fill_race on an order whose cancel is in flight: the     *)
(* order afterwards.  MayResolve says that it does not raise at once;      *)
(* acknowledge_cancel after a partial fill is checked once more.           *)
(***************************************************************************)
MayResolve(o, q, fillTs, cancelTs) ==
    /\ o.status = "CANCEL_REQUESTED"
    /\ fillTs >= o.last /\ cancelTs >= o.last
    /\ fillTs # cancelTs
    /\ fillTs < cancelTs => MayFill(o, q, fillTs)

\* Fault: the fill always comes first.
ResolvedFillWins(o, q, fillTs, cancelTs) ==
    LET f == Filled(o, q, fillTs) IN
    IF f.status = "FILLED" THEN f ELSE Moved(f, Cancelled, cancelTs)

Resolved(o, q, fillTs, cancelTs) ==
    IF cancelTs < fillTs THEN Moved(o, Cancelled, cancelTs)
    ELSE LET f == Filled(o, q, fillTs) IN
         IF f.status = "FILLED" THEN f
         ELSE IF MayMove(f, Cancelled, cancelTs) THEN Moved(f, Cancelled, cancelTs) ELSE f
=============================================================================
