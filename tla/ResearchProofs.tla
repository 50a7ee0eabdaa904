---------------------------- MODULE ResearchProofs ----------------------------
(***************************************************************************)
(* What the programs around the strategy keep: the shadow simulator, the   *)
(* agents' research runs and the prospective cohort.                       *)
(*                                                                         *)
(* ShadowTrading, for every set of orders, timelines and books: its types, *)
(* that no step creates or loses money, that a passive order fills as its  *)
(* priority in the queue says, that the two walks over a timeline agree,   *)
(* and, where amounts are exact, that every dollar of a hold is accounted  *)
(* for and that a call that raises changes nothing.                        *)
(*                                                                         *)
(* AgentShadow, for every set of workers and rows, any number of processes *)
(* and writes cut anywhere: that its budget bounds what is spent, and that *)
(* artifacts can be mapped back.                                           *)
(*                                                                         *)
(* ProspectiveCohort, for every set of fills and markets, every page limit *)
(* and cap of the API and any number of crashes: that a slice marked done  *)
(* holds every fill it promises, that the truth a ledger recorded is never *)
(* taken back, that a checkpoint is triggered and reported at most once,   *)
(* and that a row counts every stored fill once.                           *)
(*                                                                         *)
(* The three share sums over finite sets and induction over them, and      *)
(* nothing else: no name, no variable.                                     *)
(***************************************************************************)
EXTENDS ShadowTrading, AgentShadow, ProspectiveCohort, FiniteSetTheorems,
        SequenceTheorems, WellFoundedInduction, TLAPS

(* Every variable keeps its type; in particular no fill is empty.  The code  *)
(* relies on it in Position.average_cost, which divides by the quantity.     *)
THEOREM TypesCorrect == Spec => []TypeOK
<1>a. ASSUME NEW q \in Nat \ {0} PROVE NewOrder(q) \in OrderState
  BY DEF NewOrder, OrderState, Status
<1>b. ASSUME NEW s \in OrderState, NEW ts \in Nat
      PROVE  /\ Moved(s, Sent, ts) \in OrderState /\ Moved(s, Acknowledged, ts) \in OrderState
             /\ Moved(s, Expired, ts) \in OrderState /\ Moved(s, CancelRequested, ts) \in OrderState
             /\ Moved(s, Cancelled, ts) \in OrderState
             /\ \A q \in Nat : Filled(s, q, ts) \in OrderState
  <2>1. /\ Moved(s, Sent, ts) \in OrderState /\ Moved(s, Acknowledged, ts) \in OrderState
        /\ Moved(s, Expired, ts) \in OrderState /\ Moved(s, CancelRequested, ts) \in OrderState
        /\ Moved(s, Cancelled, ts) \in OrderState
    BY DEF OrderState, Moved, Sent, Acknowledged, Expired, CancelRequested, Cancelled,
           Status, Resting, Terminal
  <2>2. ASSUME NEW q \in Nat PROVE Filled(s, q, ts) \in OrderState
    <3>1. /\ s.filled + q \in Nat /\ {"FILLED", "PARTIALLY_FILLED", s.status} \subseteq Status
          /\ s \in [qty : Nat \ {0}, status : Status, filled : Nat, last : Nat]
      BY DEF OrderState, Status, Resting, Terminal
    <3> HIDE DEF Status
    <3> QED BY <3>1 DEF OrderState, Filled
  <2> QED BY <2>1, <2>2
<1>c. ASSUME NEW q \in Nat \ {0} PROVE Accepted(q, Accept) \in OrderState
  <2>1. Accept \in Nat /\ 0 \in Nat
    BY DEF Accept
  <2> QED BY <1>a, <1>b, <2>1 DEF Accepted
<1>d. NoSim \in SimState /\ NotSeen \in Seen
  BY <1>a DEF NoSim, NotSeen, SimState, Seen
<1>e. /\ None \notin Orders
      /\ \A o \in Orders : o.key \in Keys /\ o.qty \in Nat \ {0} /\ o.price \in Nat
      /\ \A o \in Orders, n \in Int : FeeOf(o, n) \in Int /\ RebateOf(o, n) \in Int
      /\ \A o \in Orders : Need(o) \in Int
      /\ Rounding \subseteq Int
  <2>1. \A o \in Orders : /\ o.key \in Keys /\ o.qty \in Nat \ {0} /\ o.price \in Nat
                          /\ o.fee \in Nat /\ o.rebate \in Nat
    BY TradingAssumption
  <2>2. Unit \in Nat \ {0}
    BY TradingAssumption
  <2>3. ASSUME NEW o \in Orders, NEW n \in Int PROVE FeeOf(o, n) \in Int /\ RebateOf(o, n) \in Int
    <3>1. n * o.fee \in Int /\ n * o.rebate \in Int
      BY <2>1
    <3> QED BY <2>2, <3>1 DEF FeeOf, RebateOf
  <2>4. ASSUME NEW o \in Orders PROVE Need(o) \in Int
    <3>1. o.qty * o.price \in Int
      BY <2>1
    <3> QED BY <2>1, <2>3, <3>1 DEF Need
  <2> QED BY <2>1, <2>3, <2>4, TradingAssumption
<1>1. Init => TypeOK
  <2>1. Cash \in Int /\ \A k \in Keys : Shares[k].qty \in Int /\ Shares[k].cost \in Int
    BY TradingAssumption
  <2> QED BY <2>1, <1>d, TradingAssumption DEF Init, TypeOK, Fate, Event
<1>2. ASSUME TypeOK, [Next]_vars PROVE TypeOK'
  <2> SUFFICES ASSUME NEW o \in Orders,
                      \/ Begin(o) \/ StartWalk(o) \/ Walk(o) \/ StartSweep(o) \/ SweepLevel(o)
                      \/ Summarize(o) \/ BuyFill(o) \/ SellFill(o) \/ Finish(o) \/ OwnerReleases(o)
               PROVE  TypeOK'
    <3> CASE UNCHANGED vars
      BY <1>2 DEF TypeOK, vars, portfolio
    <3> QED BY <1>2 DEF Next
  <2> DEFINE Amounts == /\ cash \in Int /\ reserved \in Int /\ pnl \in Int
                        /\ qty \in [Keys -> Int] /\ cost \in [Keys -> Int] /\ held \in [Keys -> Int]
                        /\ rest \in [Orders -> Int]
             Others  == /\ fate \in [Orders -> Fate] /\ running \in Orders \cup {None}
                        /\ stage \in {"idle", "gated", "walk", "sweep", "apply"}
                        /\ running = None <=> stage = "idle"
                        /\ IF stage = "sweep" THEN input \in Seq(Nat \X Nat) ELSE input \in Seq(Event)
                        /\ sim \in SimState /\ seen \in Seen
  <2>0. Amounts /\ Others
    BY <1>2 DEF TypeOK
  <2>t. Amounts' /\ Others' => TypeOK'
    BY DEF TypeOK
  <2>k. ASSUME UNCHANGED <<portfolio, rest>> PROVE Amounts'
    BY <2>0, <2>k DEF portfolio
  <2>1. ASSUME NEW n \in Int, Hold(o, n) PROVE Amounts'
    <3>1. rest[o] \in Int /\ n - rest[o] \in Int
      BY <2>0
    <3>2. rest' \in [Orders -> Int] /\ reserved' \in Int
      BY <2>0, <2>1, <3>1 DEF Hold
    <3>3. held' \in [Keys -> Int]
      <4>1. held[o.key] \in Int /\ o.key \in Keys
        BY <2>0, <1>e
      <4>2. \A d \in Int : [held EXCEPT ![o.key] = d] \in [Keys -> Int]
        BY <2>0, <4>1
      <4>3. held' \in {held, [held EXCEPT ![o.key] = held[o.key] + n - rest[o]]}
        BY <2>0, <2>1, <4>1 DEF Hold
      <4>4. held[o.key] + n - rest[o] \in Int
        BY <3>1, <4>1
      <4> QED BY <2>0, <4>2, <4>3, <4>4
    <3> QED BY <2>0, <2>1, <3>2, <3>3 DEF Hold
  <2>2. ASSUME NEW f \in {"refused", "done", "raised", "resting"}, Ends(o, f) PROVE Others'
    BY <2>0, <1>d, <2>2 DEF Ends, Fate
  <2> HIDE DEF Amounts, Others
  <2>3. CASE Raise(o)
    BY <2>1, <2>2, <2>3, <2>t DEF Raise
  <2>4. CASE Begin(o)
    <3>1. CASE Hold(o, Need(o)) /\ fate' = [fate EXCEPT ![o] = "running"]
                 /\ running' = o /\ stage' = "gated" /\ UNCHANGED simVars /\ running = None
      <4>1. Others'
        BY <2>0, <1>e, <3>1 DEF Others, simVars, Fate
      <4> QED BY <2>1, <1>e, <3>1, <4>1, <2>t
    <3>2. CASE Ends(o, "refused") /\ UNCHANGED <<portfolio, rest>>
      BY <2>2, <2>k, <3>2, <2>t
    <3> QED BY <2>4, <3>1, <3>2 DEF Begin
  <2>5. CASE StartWalk(o)
    <3>1. PICK ahead \in Ahead, tl \in Timelines :
            IF Unambiguous(tl, Accept)
            THEN /\ stage' = "walk" /\ input' = tl
                 /\ sim' = [order |-> Accepted(o.qty, Accept), ahead |-> ahead, fills |-> <<>>]
                 /\ seen' = [ahead |-> ahead, traded |-> 0, until |-> Until(tl)]
                 /\ UNCHANGED <<portfolio, fate, rest, running>>
            ELSE Raise(o)
      BY <2>5 DEF StartWalk
    <3>2. ahead \in Nat /\ tl \in Seq(Event)
      BY TradingAssumption
    <3>3. Until(tl) \in Nat \cup {-1}
      <4>1. CASE \E i \in DOMAIN tl : tl[i].kind = "effective"
        <5> DEFINE j == CHOOSE i \in DOMAIN tl : tl[i].kind = "effective"
        <5>1. j \in DOMAIN tl
          BY <4>1
        <5> HIDE DEF j
        <5>2. tl[j] \in Event
          BY <3>2, <5>1
        <5> QED BY <4>1, <5>2 DEF Until, Event, j
      <4> QED BY <4>1 DEF Until
    <3>4. CASE Unambiguous(tl, Accept)
      <4>1. sim' \in SimState /\ seen' \in Seen
        <5>1. Accepted(o.qty, Accept) \in OrderState
          BY <1>c, <1>e
        <5>2. <<>> \in Seq(Nat \X (Nat \ {0}))
          OBVIOUS
        <5>3. /\ sim' = [order |-> Accepted(o.qty, Accept), ahead |-> ahead, fills |-> <<>>]
              /\ seen' = [ahead |-> ahead, traded |-> 0, until |-> Until(tl)]
          BY <3>1, <3>4
        <5>4. sim' \in SimState
          BY <3>2, <5>1, <5>2, <5>3 DEF SimState
        <5>5. seen' \in Seen
          BY <3>2, <3>3, <5>3 DEF Seen
        <5> QED BY <5>4, <5>5
      <4>2. Others'
        BY <2>0, <2>5, <3>1, <3>2, <3>4, <4>1, <1>e DEF StartWalk, Others
      <4> QED BY <2>k, <2>t, <3>1, <3>4, <4>2
    <3> QED BY <2>3, <3>1, <3>4
  <2>6. CASE Walk(o)
    <3>1. Head(input) \in Event /\ Tail(input) \in Seq(Event) /\ sim \in SimState /\ seen \in Seen
      BY <2>0, <2>6 DEF Others, Walk
    <3>2. seen' \in Seen
      <4> DEFINE more == IF Counts(Head(input)) THEN Head(input).qty ELSE 0
      <4>1. more \in Nat
        BY <3>1 DEF Event
      <4>2. seen' = [seen EXCEPT !.traded = @ + more]
        BY <2>6 DEF Walk
      <4> HIDE DEF more
      <4> QED BY <3>1, <4>1, <4>2 DEF Seen
    <3>3. sim' \in SimState
      <4> DEFINE e   == Head(input)
                 own == OwnShare(sim.ahead, Remaining(sim.order), e.qty)
      <4>1. sim.order \in OrderState /\ e.ts \in Nat /\ e.qty \in Nat
        BY <3>1 DEF Event, SimState
      <4>2. own \in Int /\ sim.ahead - Least(sim.ahead, e.qty) \in Nat
        BY <3>1, <4>1 DEF OwnShare, Least, Remaining, SimState, OrderState
      <4>3. own > 0 => Filled(sim.order, own, e.ts) \in OrderState
        <5> HIDE DEF own
        <5>1. own > 0 => own \in Nat
          BY <4>2
        <5> QED BY <1>b, <4>1, <5>1
      <4>4. own > 0 => Append(sim.fills, <<o.price, own>>) \in Seq(Nat \X (Nat \ {0}))
        <5> HIDE DEF own
        <5>1. sim.fills \in Seq(Nat \X (Nat \ {0})) /\ o.price \in Nat
          BY <3>1, <1>e DEF SimState
        <5>2. own > 0 => <<o.price, own>> \in Nat \X (Nat \ {0})
          BY <4>2, <5>1
        <5> QED BY <5>1, <5>2
      <4>5. Moved(sim.order, CancelRequested, e.ts) \in OrderState /\ Moved(sim.order, Cancelled, e.ts) \in OrderState
        BY <1>b, <4>1
      <4>6. Turn(sim, o.price, e) \in SimState
        <5> HIDE DEF e
        <5> QED BY <3>1, <4>1, <4>2, <4>3, <4>4, <4>5 DEF Turn, SimState
      <4> QED BY <2>6, <4>6 DEF Walk
    <3>4. Others'
      BY <2>0, <2>6, <3>1, <3>2, <3>3 DEF Others, Walk
    <3> QED BY <2>6, <2>k, <2>t, <3>4 DEF Walk
  <2>7. CASE StartSweep(o)
    <3>1. PICK levels \in Books :
            IF BestToWorst(o.side, o.price, levels)
            THEN /\ stage' = "sweep" /\ input' = levels
                 /\ sim' = [NoSim EXCEPT !.order = Accepted(o.qty, Accept)]
                 /\ UNCHANGED <<portfolio, fate, rest, running, seen>>
            ELSE Raise(o)
      BY <2>7 DEF StartSweep
    <3>2. levels \in Seq(Nat \X Nat)
      BY TradingAssumption
    <3>3. [NoSim EXCEPT !.order = Accepted(o.qty, Accept)] \in SimState
      BY <1>c, <1>d, <1>e DEF SimState
    <3>4. CASE BestToWorst(o.side, o.price, levels)
      <4>1. Others'
        BY <2>0, <2>7, <3>1, <3>2, <3>3, <3>4, <1>e DEF StartSweep, Others
      <4> QED BY <2>k, <2>t, <3>1, <3>4, <4>1
    <3> QED BY <2>3, <3>1, <3>4
  <2>8. CASE SweepLevel(o)
    <3>1. Head(input) \in Nat \X Nat /\ Tail(input) \in Seq(Nat \X Nat) /\ sim \in SimState
      BY <2>0, <2>8 DEF Others, SweepLevel
    <3>2. sim' \in SimState
      <4> DEFINE level == Head(input)
                 m     == Least(Remaining(sim.order), level[2])
      <4>1. sim.order \in OrderState /\ level[1] \in Nat /\ level[2] \in Nat /\ Accept \in Nat
        BY <3>1 DEF SimState, Accept
      <4>2. m \in Nat
        BY <4>1 DEF Least, Remaining, OrderState
      <4>3. Filled(sim.order, m, Accept) \in OrderState
        BY <1>b, <4>1, <4>2
      <4>4. m # 0 => Append(sim.fills, <<level[1], m>>) \in Seq(Nat \X (Nat \ {0}))
        BY <3>1, <4>1, <4>2 DEF SimState
      <4>5. Take(sim, level, Accept) \in SimState
        <5> HIDE DEF level
        <5> QED BY <3>1, <4>1, <4>3, <4>4 DEF Take, SimState
      <4> QED BY <2>8, <3>1, <4>5 DEF SweepLevel
    <3>3. Others'
      BY <2>0, <2>8, <3>1, <3>2 DEF Others, SweepLevel
    <3> QED BY <2>8, <2>k, <2>t, <3>3 DEF SweepLevel
  <2>9. CASE Summarize(o)
    <3>1. sim \in SimState /\ input = <<>>
      BY <2>0, <2>9 DEF Others, Summarize
    <3>2. Swept(sim, o.kind, Accept) \in SimState
      <4>1. sim.order \in OrderState /\ Accept \in Nat
        BY <3>1 DEF SimState, Accept
      <4>2. [sim.order EXCEPT !.filled = 0] \in OrderState
        BY <4>1 DEF OrderState
      <4>3. Moved([sim.order EXCEPT !.filled = 0], Expired, Accept) \in OrderState
            /\ Moved(sim.order, Expired, Accept) \in OrderState
        <5> DEFINE none == [sim.order EXCEPT !.filled = 0]
        <5> HIDE DEF none
        <5>1. none \in OrderState
          BY <4>2 DEF none
        <5>2. Moved(none, Expired, Accept) \in OrderState
          BY <1>b, <4>1, <5>1
        <5> QED BY <1>b, <4>1, <5>2 DEF none
      <4> DEFINE left == IF o.kind = "FOK" THEN Moved([sim.order EXCEPT !.filled = 0], Expired, Accept)
                         ELSE Moved(sim.order, Expired, Accept)
                 kept == IF o.kind = "FOK" THEN <<>> ELSE sim.fills
      <4>4. left \in OrderState
        BY <4>3
      <4>5. <<>> \in Seq(Nat \X (Nat \ {0})) /\ sim.fills \in Seq(Nat \X (Nat \ {0}))
        BY <3>1 DEF SimState
      <4>6. kept \in Seq(Nat \X (Nat \ {0}))
        BY <4>5
      <4>7. Swept(sim, o.kind, Accept) \in {sim, [sim EXCEPT !.order = left, !.fills = kept]}
        BY DEF Swept
      <4> HIDE DEF left, kept
      <4>8. [sim EXCEPT !.order = left, !.fills = kept] \in SimState
        BY <3>1, <4>4, <4>6 DEF SimState
      <4> QED BY <3>1, <4>7, <4>8
    <3>3. CASE /\ sim' = IF stage = "sweep" THEN Swept(sim, o.kind, Accept) ELSE sim
               /\ stage' = "apply"
               /\ UNCHANGED <<portfolio, fate, rest, running, input, seen>>
      <4>1. sim' \in SimState /\ input' \in Seq(Event)
        BY <3>1, <3>2, <3>3
      <4>2. Others'
        BY <2>0, <2>9, <3>3, <4>1, <1>e DEF Others, Summarize
      <4> QED BY <2>k, <2>t, <3>3, <4>2
    <3> QED BY <2>3, <2>9, <3>3 DEF Summarize
  <2>f. ASSUME Applying(o), sim.fills # <<>>, NextFill PROVE Others'
    <3>1. sim \in SimState /\ sim.fills \in Seq(Nat \X (Nat \ {0}))
      BY <2>0 DEF Others, SimState
    <3>2. Tail(sim.fills) \in Seq(Nat \X (Nat \ {0}))
      BY <2>f, <3>1
    <3>3. sim' \in SimState
      BY <2>f, <3>1, <3>2 DEF NextFill, SimState
    <3> QED BY <2>0, <2>f, <3>3 DEF Others, NextFill, Applying
  <2>q. ASSUME Applying(o), sim.fills # <<>>
        PROVE  Head(sim.fills)[1] \in Nat /\ Head(sim.fills)[2] \in Nat \ {0}
    BY <2>0, <2>q DEF Others, SimState
  <2>10. CASE BuyFill(o)
    <3> DEFINE q == Head(sim.fills)[2]
               n == Head(sim.fills)[1] * q
    <3>1. PICK r \in Rounding :
       LET fee  == FeeOf(o, n) - RebateOf(o, n) + r
           used == Least(reserved, n + fee)
       IN  \/ /\ n + fee > rest[o] \/ n + fee < 0
              /\ Raise(o)
           \/ /\ n + fee <= rest[o] /\ n + fee > cash
              /\ reserved' = reserved - used - rest[o] /\ rest' = [rest EXCEPT ![o] = 0]
              /\ Ends(o, "raised") /\ UNCHANGED <<cash, pnl, qty, cost, held>>
           \/ /\ n + fee \in 0..rest[o] /\ n + fee <= cash
              /\ cash' = cash - (n + fee) /\ reserved' = reserved - used
              /\ pnl' = pnl - fee
              /\ qty' = [qty EXCEPT ![o.key] = @ + q]
              /\ cost' = [cost EXCEPT ![o.key] = @ + n]
              /\ rest' = [rest EXCEPT ![o] = @ - (n + fee)]
              /\ NextFill /\ UNCHANGED held
      BY <2>10 DEF BuyFill
    <3> DEFINE fee  == FeeOf(o, n) - RebateOf(o, n) + r
               used == Least(reserved, n + fee)
    <3>2. q \in Int /\ n \in Int
      BY <2>10, <2>q DEF BuyFill
    <3>3. fee \in Int
      <4> HIDE DEF n, q
      <4>1. FeeOf(o, n) \in Int /\ RebateOf(o, n) \in Int /\ r \in Int
        BY <3>2, <1>e
      <4> QED BY <4>1
    <3> HIDE DEF n, q
    <3>4. used \in Int
      BY <2>0, <3>2, <3>3 DEF Least, Amounts
    <3> HIDE DEF fee, used
    <3>5. CASE reserved' = reserved - used - rest[o] /\ rest' = [rest EXCEPT ![o] = 0]
               /\ Ends(o, "raised") /\ UNCHANGED <<cash, pnl, qty, cost, held>>
      <4>1. Amounts'
        BY <2>0, <3>4, <3>5 DEF Amounts
      <4> QED BY <2>2, <2>t, <3>5, <4>1
    <3>6. CASE /\ cash' = cash - (n + fee) /\ reserved' = reserved - used
               /\ pnl' = pnl - fee
               /\ qty' = [qty EXCEPT ![o.key] = @ + q]
               /\ cost' = [cost EXCEPT ![o.key] = @ + n]
               /\ rest' = [rest EXCEPT ![o] = @ - (n + fee)]
               /\ NextFill /\ UNCHANGED held
      <4>1. Amounts'
        BY <2>0, <1>e, <3>2, <3>3, <3>4, <3>6 DEF Amounts
      <4> QED BY <2>f, <2>t, <2>10, <3>6, <4>1 DEF BuyFill
    <3> QED BY <2>3, <3>1, <3>5, <3>6 DEF fee, used
  <2>11. CASE SellFill(o)
    <3> DEFINE q == Head(sim.fills)[2]
               n == Head(sim.fills)[1] * q
               freed == IF o.kind = "passive" THEN q ELSE 0
    <3>1. \/ Raise(o)
          \/ /\ q <= qty[o.key]
             /\ \E r \in Rounding : Sold(o, q, n, FeeOf(o, n) - RebateOf(o, n) + r)
             /\ rest' = [rest EXCEPT ![o] = @ - freed]
             /\ held' = [held EXCEPT ![o.key] = @ - freed]
             /\ NextFill /\ UNCHANGED reserved
      BY <2>11 DEF SellFill
    <3>2. q \in Nat \ {0} /\ n \in Int /\ freed \in Int
      BY <2>11, <2>q DEF SellFill
    <3> HIDE DEF n, q, freed
    <3>3. CASE /\ q <= qty[o.key]
               /\ \E r \in Rounding : Sold(o, q, n, FeeOf(o, n) - RebateOf(o, n) + r)
               /\ rest' = [rest EXCEPT ![o] = @ - freed]
               /\ held' = [held EXCEPT ![o.key] = @ - freed]
               /\ NextFill /\ UNCHANGED reserved
      <4>1. PICK r \in Rounding : Sold(o, q, n, FeeOf(o, n) - RebateOf(o, n) + r)
        BY <3>3
      <4> DEFINE fee == FeeOf(o, n) - RebateOf(o, n) + r
      <4>2. fee \in Int
        <5>1. FeeOf(o, n) \in Int /\ RebateOf(o, n) \in Int /\ r \in Int
          BY <3>2, <1>e
        <5> QED BY <5>1
      <4> HIDE DEF fee
      <4>3. CostOf(o.key, q) \in Int
        BY <2>0, <1>e, <3>2, <3>3 DEF Amounts, CostOf
      <4>4. /\ cash' = cash + n - fee /\ pnl' = pnl + n - fee - CostOf(o.key, q)
            /\ qty' = [qty EXCEPT ![o.key] = @ - q]
            /\ cost' = [cost EXCEPT ![o.key] = @ - CostOf(o.key, q)]
        BY <4>1 DEF Sold, fee
      <4>5. Amounts'
        BY <2>0, <1>e, <3>2, <3>3, <4>2, <4>3, <4>4 DEF Amounts
      <4> QED BY <2>f, <2>t, <2>11, <3>3, <4>5 DEF SellFill
    <3> QED BY <2>3, <3>1, <3>3
  <2>12. CASE Finish(o)
    BY <2>1, <2>2, <2>k, <2>t, <2>12 DEF Finish, Terminal
  <2>13. CASE OwnerReleases(o)
    <3>1. Others'
      BY <2>0, <2>13 DEF OwnerReleases, Others, simVars, Fate
    <3> QED BY <2>1, <2>t, <2>13, <3>1 DEF OwnerReleases
  <2> QED BY <2>4, <2>5, <2>6, <2>7, <2>8, <2>9, <2>10, <2>11, <2>12, <2>13
<1> QED BY <1>1, <1>2, PTL DEF Spec

\* No fill, fee, rebate or average loses or creates money, whatever a product
\* is rounded to.
THEOREM ValueIsConserved == Spec => ValueConserved
<1> DEFINE Conserved == \E k \in Keys : /\ cash' + cost'[k] - pnl' = cash + cost[k] - pnl
                                        /\ \A j \in Keys \ {k} : cost'[j] = cost[j]
<1>1. ASSUME TypeOK, Next PROVE Conserved
  <2> SUFFICES ASSUME NEW o \in Orders,
                      \/ Begin(o) \/ StartWalk(o) \/ Walk(o) \/ StartSweep(o) \/ SweepLevel(o)
                      \/ Summarize(o) \/ BuyFill(o) \/ SellFill(o) \/ Finish(o) \/ OwnerReleases(o)
               PROVE  Conserved
    BY <1>1 DEF Next
  <2>1. o.key \in Keys
    BY TradingAssumption
  <2>2. CASE UNCHANGED <<cash, cost, pnl>>
    BY <2>1, <2>2
  <2>3. CASE Begin(o) \/ StartWalk(o) \/ Walk(o) \/ StartSweep(o) \/ SweepLevel(o)
               \/ Summarize(o) \/ Finish(o) \/ OwnerReleases(o)
    <3>1. UNCHANGED <<cash, cost, pnl>>
      BY <2>3 DEF Begin, StartWalk, Walk, StartSweep, SweepLevel, Summarize, Finish,
         OwnerReleases, Raise, Hold, portfolio
    <3> QED BY <2>2, <3>1
  <2>q. ASSUME Applying(o), sim.fills # <<>>
        PROVE  Head(sim.fills)[1] \in Nat /\ Head(sim.fills)[2] \in Nat \ {0}
    BY <1>1, <2>q DEF TypeOK, SimState
  <2>p. \A a, b \in Int : a * b \in Int
    OBVIOUS
  <2>f. \A n \in Int : FeeOf(o, n) \in Int /\ RebateOf(o, n) \in Int
    <3> SUFFICES ASSUME NEW n \in Int PROVE FeeOf(o, n) \in Int /\ RebateOf(o, n) \in Int
      OBVIOUS
    <3>1. n * o.fee \in Int /\ n * o.rebate \in Int /\ Unit \in Nat \ {0}
      BY TradingAssumption
    <3> QED BY <3>1 DEF FeeOf, RebateOf
  <2>4. CASE BuyFill(o)
    <3> DEFINE n == Head(sim.fills)[1] * Head(sim.fills)[2]
    <3>1. n \in Int
      <4>1. Head(sim.fills)[1] \in Int /\ Head(sim.fills)[2] \in Int
        BY <2>4, <2>q DEF BuyFill
      <4> QED BY <4>1, <2>p
    <3>2. PICK r \in Rounding :
            \/ UNCHANGED <<cash, cost, pnl>>
            \/ /\ cash' = cash - (n + (FeeOf(o, n) - RebateOf(o, n) + r))
               /\ pnl' = pnl - (FeeOf(o, n) - RebateOf(o, n) + r)
               /\ cost' = [cost EXCEPT ![o.key] = @ + n]
      BY <2>4 DEF BuyFill, Raise, Hold
    <3> DEFINE fee == FeeOf(o, n) - RebateOf(o, n) + r
    <3> HIDE DEF n
    <3>3. fee \in Int
      <4>1. FeeOf(o, n) \in Int /\ RebateOf(o, n) \in Int /\ r \in Int
        BY <2>f, <3>1, TradingAssumption
      <4> QED BY <4>1
    <3> HIDE DEF fee
    <3>4. CASE cash' = cash - (n + fee) /\ pnl' = pnl - fee /\ cost' = [cost EXCEPT ![o.key] = @ + n]
      <4>1. /\ cost'[o.key] = cost[o.key] + n
            /\ \A j \in Keys \ {o.key} : cost'[j] = cost[j]
        BY <1>1, <2>1, <3>4 DEF TypeOK
      <4>2. cash \in Int /\ pnl \in Int /\ cost[o.key] \in Int
        BY <1>1, <2>1 DEF TypeOK
      <4>3. cash' + cost'[o.key] - pnl' = cash + cost[o.key] - pnl
        BY <3>1, <3>3, <3>4, <4>1, <4>2
      <4> QED BY <2>1, <4>1, <4>3
    <3> QED BY <2>2, <3>2, <3>4 DEF fee
  <2>5. CASE SellFill(o)
    <3> DEFINE q == Head(sim.fills)[2]
               n == Head(sim.fills)[1] * q
    <3>1. n \in Int /\ q \in Nat \ {0}
      <4>1. Head(sim.fills)[1] \in Int /\ q \in Nat \ {0} /\ q \in Int
        BY <2>5, <2>q DEF SellFill
      <4> QED BY <4>1, <2>p
    <3>2. \/ UNCHANGED <<cash, cost, pnl>>
          \/ q <= qty[o.key] /\ \E r \in Rounding : Sold(o, q, n, FeeOf(o, n) - RebateOf(o, n) + r)
      BY <2>5 DEF SellFill, Raise, Hold
    <3> HIDE DEF n, q
    <3>3. CASE q <= qty[o.key] /\ \E r \in Rounding : Sold(o, q, n, FeeOf(o, n) - RebateOf(o, n) + r)
      <4>1. PICK r \in Rounding : Sold(o, q, n, FeeOf(o, n) - RebateOf(o, n) + r)
        BY <3>3
      <4> DEFINE fee == FeeOf(o, n) - RebateOf(o, n) + r
                 c   == CostOf(o.key, q)
      <4>2. fee \in Int
        <5>1. FeeOf(o, n) \in Int /\ RebateOf(o, n) \in Int /\ r \in Int
          BY <2>f, <3>1, TradingAssumption
        <5> QED BY <5>1
      <4>3. c \in Int /\ cost[o.key] \in Int /\ cash \in Int /\ pnl \in Int
        BY <1>1, <2>1, <3>1, <3>3 DEF TypeOK, CostOf
      <4> HIDE DEF fee, c
      <4>4. /\ cash' = cash + n - fee /\ pnl' = pnl + n - fee - c
            /\ cost' = [cost EXCEPT ![o.key] = @ - c]
        BY <4>1 DEF Sold, fee, c
      <4>5. cost'[o.key] = cost[o.key] - c /\ \A j \in Keys \ {o.key} : cost'[j] = cost[j]
        BY <1>1, <2>1, <4>4 DEF TypeOK
      <4>6. cash' + cost'[o.key] - pnl' = cash + cost[o.key] - pnl
        BY <3>1, <4>2, <4>3, <4>4, <4>5
      <4> QED BY <2>1, <4>5, <4>6
    <3> QED BY <2>2, <3>2, <3>3
  <2> QED BY <2>3, <2>4, <2>5
<1>2. ASSUME TypeOK, [Next]_vars PROVE [Conserved]_portfolio
  BY <1>1, <1>2 DEF vars
<1> QED BY <1>2, TypesCorrect, PTL DEF Spec, ValueConserved

-----------------------------------------------------------------------------
(* The walk over a timeline                                                *)

\* What holds while a timeline is walked.  The events still to come decide
\* whether the cancel can have been missed, and ahead is what is left of the
\* queue as long as the order lives.
WalkInv ==
  stage = "walk" =>
    /\ sim.order.status \in {"ACKNOWLEDGED", "PARTIALLY_FILLED", "CANCEL_REQUESTED",
                             "CANCELLED", "FILLED"}
    /\ sim.order.filled = Due
    /\ sim.order.status = "FILLED" <=> sim.order.filled = sim.order.qty
    /\ sim.order.status \notin Terminal =>
         /\ sim.ahead = IF seen.ahead > seen.traded THEN seen.ahead - seen.traded ELSE 0
         /\ seen.until # -1 => \E i \in DOMAIN input : input[i].kind = "effective"
         /\ \A i \in DOMAIN input : input[i].kind = "effective" =>
              \/ sim.order.status = "CANCEL_REQUESTED"
              \/ \E j \in DOMAIN input : j < i /\ input[j].kind = "request"
    /\ sim.order.status = "CANCELLED" =>
         seen.until # -1 /\ \A i \in DOMAIN input : input[i].kind = "trade" => ~(input[i].ts < seen.until)
    /\ InOrder(input)
    /\ \A i \in DOMAIN input :
         /\ input[i].kind = "effective" => input[i].ts = seen.until
         /\ input[i].kind = "trade" => input[i].ts # seen.until

LEMMA StepWalks ==
  ASSUME TypeOK, WalkInv, [Next]_vars
  PROVE  WalkInv'
<1> SUFFICES ASSUME NEW o \in Orders, StartWalk(o) \/ Walk(o), stage' = "walk"
             PROVE  WalkInv'
  <2>1. CASE UNCHANGED vars
    BY <2>1 DEF WalkInv, Due, Counts, vars, InOrder
  <2>2. ASSUME NEW o \in Orders,
               \/ Begin(o) \/ StartSweep(o) \/ SweepLevel(o) \/ Summarize(o) \/ BuyFill(o)
               \/ SellFill(o) \/ Finish(o) \/ OwnerReleases(o)
        PROVE  stage' # "walk"
    <3>1. OwnerReleases(o) => stage = "idle" /\ stage' = stage
      <4>1. running = None => stage = "idle"
        BY DEF TypeOK
      <4> QED BY <4>1 DEF OwnerReleases
    <3> QED BY <2>2, <3>1 DEF Begin, StartSweep, SweepLevel, Summarize, BuyFill, SellFill,
               Finish, Ends, Raise, Applying, NextFill
  <2> QED BY <2>1, <2>2 DEF Next, WalkInv
<1>1. CASE StartWalk(o)
  <2>1. PICK ahead \in Ahead, tl \in Timelines :
          /\ Unambiguous(tl, Accept) /\ input' = tl
          /\ sim' = [order |-> Accepted(o.qty, Accept), ahead |-> ahead, fills |-> <<>>]
          /\ seen' = [ahead |-> ahead, traded |-> 0, until |-> Until(tl)]
    BY <1>1 DEF StartWalk, Raise, Ends
  <2>2. ahead \in Nat /\ tl \in Seq(Event) /\ IsTimeline(tl) /\ o.qty \in Nat \ {0}
    BY TradingAssumption
  <2>3. /\ sim'.order.status = "ACKNOWLEDGED" /\ sim'.order.filled = 0
        /\ sim'.order.qty = o.qty /\ sim'.ahead = ahead
        /\ seen'.ahead = ahead /\ seen'.traded = 0 /\ seen'.until = Until(tl)
    BY <2>1 DEF Accepted, NewOrder, Moved, Sent, Acknowledged
  <2>4. ASSUME NEW i \in DOMAIN tl, tl[i].kind = "effective" PROVE tl[i].ts = Until(tl)
    <3> DEFINE j == CHOOSE k \in DOMAIN tl : tl[k].kind = "effective"
    <3>1. j \in DOMAIN tl /\ tl[j].kind = "effective"
      BY <2>4
    <3> HIDE DEF j
    <3>2. i = j
      BY <2>2, <2>4, <3>1 DEF IsTimeline
    <3> QED BY <2>4, <3>1, <3>2 DEF Until, j
  <2>5. ASSUME NEW i \in DOMAIN tl, tl[i].kind = "trade" PROVE tl[i].ts # Until(tl)
    <3>1. tl[i] \in Event
      BY <2>2
    <3>2. CASE \E k \in DOMAIN tl : tl[k].kind = "effective"
      <4>1. PICK k \in DOMAIN tl : tl[k].kind = "effective"
        BY <3>2
      <4> QED BY <2>1, <2>4, <2>5, <4>1 DEF Unambiguous
    <3> QED BY <3>1, <3>2 DEF Until, Event
  <2>6. Until(tl) # -1 => \E i \in DOMAIN tl : tl[i].kind = "effective"
    BY DEF Until
  <2>7. Due' = 0
    BY <2>2, <2>3 DEF Due, Least
  <2>8. sim'.ahead = IF seen'.ahead > seen'.traded THEN seen'.ahead - seen'.traded ELSE 0
    BY <2>2, <2>3
  <2> QED BY <2>1, <2>2, <2>3, <2>4, <2>5, <2>6, <2>7, <2>8 DEF WalkInv, IsTimeline, Terminal
<1>2. CASE Walk(o)
  <2> DEFINE e    == Head(input)
             rem  == Remaining(sim.order)
             own  == OwnShare(sim.ahead, rem, e.qty)
             left == IF seen.ahead > seen.traded THEN seen.ahead - seen.traded ELSE 0
  <2>0. /\ stage = "walk" /\ input \in Seq(Event) /\ input # <<>>
        /\ sim \in SimState /\ seen \in Seen
        /\ sim' = Turn(sim, o.price, e) /\ input' = Tail(input)
        /\ seen' = [seen EXCEPT !.traded = @ + (IF Counts(e) THEN e.qty ELSE 0)]
    BY <1>2 DEF Walk, TypeOK
  <2>1. /\ e = input[1] /\ e \in Event /\ 1 \in DOMAIN input
        /\ Len(input') = Len(input) - 1 /\ DOMAIN input' = 1..(Len(input) - 1)
        /\ DOMAIN input = 1..Len(input)
        /\ \A i \in DOMAIN input' : i + 1 \in DOMAIN input /\ input'[i] = input[i + 1]
    BY <2>0
  <2>2. /\ sim.order \in OrderState /\ e.ts \in Nat /\ e.qty \in Nat
        /\ sim.ahead \in Nat /\ seen.ahead \in Nat /\ seen.traded \in Nat
        /\ seen.until \in Nat \cup {-1}
        /\ sim.order.qty \in Nat \ {0} /\ sim.order.filled \in Nat
        /\ e.kind \in {"request", "trade", "effective"}
    BY <2>0, <2>1 DEF SimState, OrderState, Seen, Event
  <2>3. seen'.ahead = seen.ahead /\ seen'.until = seen.until
        /\ seen'.traded = seen.traded + (IF Counts(e) THEN e.qty ELSE 0)
    BY <2>0 DEF Seen
  <2> HIDE DEF e
  <2>4. InOrder(input')
    BY <2>0, <2>1 DEF WalkInv, InOrder
  <2>5. \A i \in DOMAIN input' :
          /\ input'[i].kind = "effective" => input'[i].ts = seen'.until
          /\ input'[i].kind = "trade" => input'[i].ts # seen'.until
    BY <2>0, <2>1, <2>3 DEF WalkInv
  <2>6. CASE sim.order.status \in Terminal
    <3>1. sim' = sim
      BY <2>0, <2>6 DEF Turn, Terminal
    <3>2. CASE sim.order.status = "CANCELLED"
      <4>1. /\ sim.order.filled = Due /\ sim.order.filled # sim.order.qty /\ seen.until # -1
            /\ \A i \in DOMAIN input : input[i].kind = "trade" => ~(input[i].ts < seen.until)
        BY <2>0, <3>2 DEF WalkInv
      <4>2. ~Counts(e)
        BY <2>1, <4>1 DEF Counts
      <4>3. seen'.traded = seen.traded
        BY <2>2, <2>3, <4>2
      <4>4. Due' = Due /\ \A i \in DOMAIN input' : input'[i].kind = "trade" => ~(input'[i].ts < seen'.until)
        BY <2>1, <2>3, <3>1, <4>1, <4>3 DEF Due
      <4> QED BY <2>3, <2>4, <2>5, <3>1, <3>2, <4>1, <4>4 DEF WalkInv, Terminal
    <3>3. CASE sim.order.status = "FILLED"
      <4>1. sim.order.filled = Due /\ sim.order.filled = sim.order.qty
        BY <2>0, <3>3 DEF WalkInv
      <4>2. seen'.traded >= seen.traded /\ seen'.traded \in Nat
        BY <2>2, <2>3
      <4>3. Due' = sim.order.qty
        BY <2>2, <2>3, <3>1, <4>1, <4>2 DEF Due, Least
      <4> QED BY <2>4, <2>5, <3>1, <3>3, <4>1, <4>3 DEF WalkInv, Terminal
    <3> QED BY <2>0, <2>6, <3>2, <3>3 DEF WalkInv, Terminal
  <2>7. CASE sim.order.status \notin Terminal
    <3>0. /\ sim.order.status \in {"ACKNOWLEDGED", "PARTIALLY_FILLED", "CANCEL_REQUESTED"}
          /\ sim.order.filled = Due /\ sim.order.filled # sim.order.qty
          /\ sim.ahead = left
          /\ seen.until # -1 => \E i \in DOMAIN input : input[i].kind = "effective"
          /\ \A i \in DOMAIN input : input[i].kind = "effective" =>
               \/ sim.order.status = "CANCEL_REQUESTED"
               \/ \E j \in DOMAIN input : j < i /\ input[j].kind = "request"
      BY <2>0, <2>7 DEF WalkInv, Terminal
    <3>1. e.kind # "effective" =>
            /\ seen'.until # -1 => \E i \in DOMAIN input' : input'[i].kind = "effective"
      <4> SUFFICES ASSUME e.kind # "effective", seen.until # -1
                   PROVE  \E i \in DOMAIN input' : input'[i].kind = "effective"
        BY <2>3
      <4>1. PICK i \in DOMAIN input : input[i].kind = "effective"
        BY <3>0
      <4>2. i \in Int /\ i # 1 /\ i - 1 \in DOMAIN input' /\ i - 1 + 1 = i
        BY <2>1, <4>1
      <4> QED BY <2>1, <4>1, <4>2
    <3>2. CASE e.kind = "request"
      <4>1. /\ sim'.order = [sim.order EXCEPT !.status = "CANCEL_REQUESTED", !.last = e.ts]
            /\ sim'.ahead = sim.ahead
        BY <2>0, <2>7, <3>2 DEF Turn, Moved, CancelRequested, SimState, Terminal
      <4>2. /\ sim'.order.status = "CANCEL_REQUESTED" /\ sim'.order.filled = sim.order.filled
            /\ sim'.order.qty = sim.order.qty
        BY <2>2, <4>1 DEF OrderState
      <4>3. seen'.traded = seen.traded
        BY <2>2, <2>3, <3>2 DEF Counts
      <4>4. Due' = Due
        BY <2>3, <4>2, <4>3 DEF Due
      <4> QED BY <2>3, <2>4, <2>5, <3>0, <3>1, <3>2, <4>1, <4>2, <4>3, <4>4 DEF WalkInv, Terminal
    <3>3. CASE e.kind = "effective"
      <4>1. sim.order.status = "CANCEL_REQUESTED" /\ e.ts = seen.until
        BY <2>0, <2>1, <3>0, <3>3 DEF WalkInv
      <4>2. sim'.order = [sim.order EXCEPT !.status = "CANCELLED", !.last = e.ts]
        BY <2>0, <3>3, <4>1 DEF Turn, Moved, Cancelled, SimState, Terminal
      <4>3. /\ sim'.order.status = "CANCELLED" /\ sim'.order.filled = sim.order.filled
            /\ sim'.order.qty = sim.order.qty
        BY <2>2, <4>2 DEF OrderState
      <4>4. seen'.traded = seen.traded
        BY <2>2, <2>3, <3>3 DEF Counts
      <4>5. Due' = Due
        BY <2>3, <4>3, <4>4 DEF Due
      <4>6. ASSUME NEW i \in DOMAIN input' PROVE ~(input'[i].ts < seen'.until)
        <5>1. i + 1 \in DOMAIN input /\ 1 < i + 1 /\ input'[i] = input[i + 1] /\ input[i + 1] \in Event
          BY <2>0, <2>1, <4>6
        <5>2. input[1].ts <= input[i + 1].ts
          <6>1. InOrder(input)
            BY <2>0 DEF WalkInv
          <6>2. input[1].ts < input[i + 1].ts \/ input[1].ts = input[i + 1].ts
            BY <2>1, <5>1, <6>1 DEF InOrder
          <6> QED BY <2>1, <5>1, <6>2 DEF Event
        <5>3. seen'.until \in Nat /\ seen'.until <= input'[i].ts /\ input'[i].ts \in Nat
          BY <2>1, <2>2, <2>3, <4>1, <5>1, <5>2 DEF Event
        <5> QED BY <5>3
      <4> QED BY <2>2, <2>3, <2>4, <2>5, <3>0, <4>1, <4>3, <4>5, <4>6 DEF WalkInv, Terminal
    <3>4. CASE e.kind = "trade"
      <4>1. Counts(e)
        <5> SUFFICES ASSUME seen.until # -1 PROVE e.ts < seen.until
          BY <3>4 DEF Counts
        <5>1. PICK i \in DOMAIN input : input[i].kind = "effective"
          BY <3>0
        <5>2. i \in Int /\ i # 1 /\ 1 < i /\ input[i] \in Event
          BY <2>0, <2>1, <3>4, <5>1
        <5>3. input[1].ts <= input[i].ts
          <6>1. InOrder(input)
            BY <2>0 DEF WalkInv
          <6>2. input[1].ts < input[i].ts \/ input[1].ts = input[i].ts
            BY <2>1, <5>2, <6>1 DEF InOrder
          <6> QED BY <2>1, <5>2, <6>2 DEF Event
        <5>4. input[i].ts = seen.until /\ input[1].ts # seen.until
          BY <2>0, <2>1, <3>4, <5>1 DEF WalkInv
        <5> QED BY <2>1, <2>2, <5>2, <5>3, <5>4 DEF Event
      <4>2. seen'.traded = seen.traded + e.qty
        BY <2>3, <4>1
      <4>3. own = IF e.qty > left THEN Least(sim.order.qty - sim.order.filled, e.qty - left) ELSE 0
        <5>1. sim.order.filled <= sim.order.qty
          BY <2>2, <3>0 DEF Due, Least
        <5>2. rem = sim.order.qty - sim.order.filled
          BY <2>2, <3>0, <5>1 DEF Remaining
        <5> QED BY <2>2, <3>0, <5>1, <5>2 DEF OwnShare, Least
      <4>4. own \in Nat /\ sim.order.filled + own <= sim.order.qty
        BY <2>2, <3>0, <4>3 DEF Due, Least
      <4>5. sim.order.filled + own = Least(sim.order.qty,
               IF seen'.traded > seen'.ahead THEN seen'.traded - seen'.ahead ELSE 0)
        BY <2>2, <2>3, <3>0, <4>2, <4>3 DEF Due, Least
      <4>6. sim.ahead - Least(sim.ahead, e.qty) =
               IF seen'.ahead > seen'.traded THEN seen'.ahead - seen'.traded ELSE 0
        BY <2>2, <2>3, <3>0, <4>2 DEF Least
      <4>7. /\ sim'.order = IF own > 0 THEN Filled(sim.order, own, e.ts) ELSE sim.order
            /\ sim'.ahead = sim.ahead - Least(sim.ahead, e.qty)
        BY <2>0, <2>7, <3>4 DEF Turn
      <4> HIDE DEF own
      <4>8. /\ sim'.order.qty = sim.order.qty /\ sim'.order.filled = sim.order.filled + own
            /\ sim'.order.status =
                 IF own = 0 THEN sim.order.status
                 ELSE IF sim.order.filled + own = sim.order.qty THEN "FILLED"
                 ELSE IF sim.order.status = "CANCEL_REQUESTED" THEN "CANCEL_REQUESTED"
                 ELSE "PARTIALLY_FILLED"
        BY <2>2, <4>4, <4>7 DEF Filled, OrderState
      <4>9. sim'.order.filled = Due'
        BY <4>5, <4>8 DEF Due
      <4>10. sim'.order.status = "FILLED" <=> sim'.order.filled = sim'.order.qty
        BY <2>2, <3>0, <4>4, <4>8
      <4>11. ASSUME NEW i \in DOMAIN input', input'[i].kind = "effective"
             PROVE  \/ sim'.order.status \in {"CANCEL_REQUESTED", "FILLED"}
                    \/ \E j \in DOMAIN input' : j < i /\ input'[j].kind = "request"
        <5>1. i + 1 \in DOMAIN input /\ input[i + 1].kind = "effective" /\ i \in Int
          BY <2>1, <4>11
        <5>2. CASE sim.order.status = "CANCEL_REQUESTED"
          BY <4>8, <5>2
        <5>3. CASE \E j \in DOMAIN input : j < i + 1 /\ input[j].kind = "request"
          <6>1. PICK j \in DOMAIN input : j < i + 1 /\ input[j].kind = "request"
            BY <5>3
          <6>2. j \in Int /\ j # 1 /\ j - 1 \in DOMAIN input' /\ j - 1 + 1 = j /\ j - 1 < i
            BY <2>1, <3>4, <5>1, <6>1
          <6> QED BY <2>1, <6>1, <6>2
        <5> QED BY <3>0, <5>1, <5>2, <5>3
      <4> HIDE DEF own, left, rem
      <4>12. sim'.order.status \in {"ACKNOWLEDGED", "PARTIALLY_FILLED", "CANCEL_REQUESTED", "FILLED"}
        BY <3>0, <4>8
      <4>13. sim'.ahead = IF seen'.ahead > seen'.traded THEN seen'.ahead - seen'.traded ELSE 0
        BY <4>6, <4>7
      <4> QED BY <2>4, <2>5, <3>1, <3>4, <4>9, <4>10, <4>11, <4>12, <4>13 DEF WalkInv, Terminal
    <3> QED BY <2>2, <3>2, <3>3, <3>4
  <2> QED BY <2>6, <2>7
<1> QED BY <1>1, <1>2

\* A passive order fills as its place in the queue says, for every timeline:
\* never more than what traded behind the quantity ahead and before the cancel
\* took effect, never less, and a cancel never leaves it on the book.
THEOREM PriorityIsKept == Spec => []FillsFollowQueue
<1>1. Init => WalkInv
  BY DEF Init, WalkInv
<1>2. TypeOK /\ WalkInv /\ [Next]_vars => WalkInv'
  BY StepWalks
<1>3. TypeOK /\ WalkInv => FillsFollowQueue
  <2> SUFFICES ASSUME TypeOK, WalkInv, stage = "walk" PROVE FillsFollowQueue
    BY DEF FillsFollowQueue
  <2>1. sim.order.status = "FILLED" <=> Due = sim.order.qty
    BY DEF WalkInv
  <2>2. ASSUME input = <<>>, seen.until # -1 PROVE sim.order.status \in {"FILLED", "CANCELLED"}
    BY <2>2 DEF WalkInv, Terminal
  <2>3. ASSUME sim.order.status = "CANCELLED"
        PROVE  seen.until # -1 /\ \A i \in DOMAIN input : input[i].kind = "trade" => ~Counts(input[i])
    BY <2>3 DEF WalkInv, Counts
  <2> QED BY <2>1, <2>2, <2>3 DEF WalkInv, FillsFollowQueue
<1> QED BY <1>1, <1>2, <1>3, TypesCorrect, PTL DEF Spec

\* What a race needs to know of the events still to come: none is earlier than
\* what the order has seen, there is one request at most, and a cancel that is
\* in flight takes effect at some time.
RaceInv ==
  stage = "walk" =>
    /\ \A i \in DOMAIN input : sim.order.last <= input[i].ts
    /\ \A i, j \in DOMAIN input : input[i].kind = "request" /\ input[j].kind = "request" => i = j
    /\ \A i \in DOMAIN input : input[i].kind = "request" => seen.until # -1
    /\ sim.order.status = "CANCEL_REQUESTED" =>
         seen.until # -1 /\ \A i \in DOMAIN input : input[i].kind # "request"

\* What one turn does to the time and the status of the order.
LEMMA TurnOrder ==
  ASSUME NEW s \in SimState, NEW p, NEW e \in Event, NEW t, t = Turn(s, p, e)
  PROVE  /\ t.order.last \in {s.order.last, e.ts}
         /\ t.order.status = "CANCEL_REQUESTED" =>
              s.order.status = "CANCEL_REQUESTED" \/ e.kind = "request"
<1>1. s.order \in OrderState
  BY DEF SimState
<1>2. \/ t = s
      \/ e.kind = "request" /\ t = [s EXCEPT !.order = Moved(s.order, CancelRequested, e.ts)]
      \/ t = [s EXCEPT !.order = Moved(s.order, Cancelled, e.ts)]
      \/ t.order = s.order
      \/ \E n : t.order = Filled(s.order, n, e.ts)
  BY DEF Turn
<1>3. CASE t = s \/ t.order = s.order
  BY <1>3
<1>4. CASE e.kind = "request" /\ t = [s EXCEPT !.order = Moved(s.order, CancelRequested, e.ts)]
  <2>1. t.order = Moved(s.order, CancelRequested, e.ts)
    BY <1>4 DEF SimState
  <2>2. t.order.last = e.ts
    BY <1>1, <2>1 DEF Moved, OrderState
  <2>3. QED BY <1>4, <2>2
<1>5. CASE t = [s EXCEPT !.order = Moved(s.order, Cancelled, e.ts)]
  <2>1. t.order = Moved(s.order, Cancelled, e.ts)
    BY <1>5 DEF SimState
  <2>2. t.order.last = e.ts /\ t.order.status = "CANCELLED"
    BY <1>1, <2>1 DEF Moved, OrderState, Cancelled
  <2>3. QED BY <2>2
<1>6. ASSUME NEW n, t.order = Filled(s.order, n, e.ts)
      PROVE  /\ t.order.last = e.ts
             /\ t.order.status = "CANCEL_REQUESTED" => s.order.status = "CANCEL_REQUESTED"
  BY <1>1, <1>6 DEF Filled, OrderState
<1>7. QED BY <1>2, <1>3, <1>4, <1>5, <1>6

LEMMA StepRaces ==
  ASSUME TypeOK, WalkInv, RaceInv, [Next]_vars
  PROVE  RaceInv'
<1> SUFFICES ASSUME NEW o \in Orders, StartWalk(o) \/ Walk(o), stage' = "walk"
             PROVE  RaceInv'
  <2>1. CASE UNCHANGED vars
    BY <2>1 DEF RaceInv, vars
  <2>2. ASSUME NEW o \in Orders,
               \/ Begin(o) \/ StartSweep(o) \/ SweepLevel(o) \/ Summarize(o) \/ BuyFill(o)
               \/ SellFill(o) \/ Finish(o) \/ OwnerReleases(o)
        PROVE  stage' # "walk"
    <3>1. OwnerReleases(o) => stage = "idle" /\ stage' = stage
      <4>1. running = None => stage = "idle"
        BY DEF TypeOK
      <4> QED BY <4>1 DEF OwnerReleases
    <3> QED BY <2>2, <3>1 DEF Begin, StartSweep, SweepLevel, Summarize, BuyFill, SellFill,
               Finish, Ends, Raise, Applying, NextFill
  <2> QED BY <2>1, <2>2 DEF Next, RaceInv
<1>1. CASE StartWalk(o)
  <2>1. PICK tl \in Timelines :
          /\ Unambiguous(tl, Accept) /\ input' = tl
          /\ sim'.order = Accepted(o.qty, Accept) /\ seen'.until = Until(tl)
    BY <1>1 DEF StartWalk, Raise, Ends
  <2>2. tl \in Seq(Event) /\ IsTimeline(tl)
    BY TradingAssumption
  <2>3. sim'.order.last = Accept /\ sim'.order.status = "ACKNOWLEDGED" /\ Accept = 1
    BY <2>1 DEF Accepted, NewOrder, Moved, Sent, Acknowledged, Accept
  <2>4. ASSUME NEW i \in DOMAIN tl, tl[i].kind = "effective"
        PROVE  \E j \in DOMAIN tl : j < i /\ tl[j].kind = "request"
    BY <2>2, <2>4 DEF IsTimeline
  <2>5. ASSUME NEW i \in DOMAIN tl PROVE Accept <= tl[i].ts
    <3>1. tl[i].kind \in {"request", "trade", "effective"} /\ tl[i].ts \in Nat /\ i \in Int
      BY <2>2 DEF Event
    <3>2. CASE tl[i].kind = "effective"
      <4>1. PICK j \in DOMAIN tl : j < i /\ tl[j].kind = "request"
        BY <2>4, <3>2
      <4>2. tl[j].ts >= Accept /\ tl[j].ts \in Nat
        BY <2>1, <2>2, <4>1 DEF Unambiguous, Event
      <4>3. tl[j].ts < tl[i].ts \/ tl[j].ts = tl[i].ts
        BY <2>2, <4>1 DEF IsTimeline, InOrder
      <4>4. QED BY <2>3, <3>1, <4>2, <4>3
    <3>3. CASE tl[i].kind # "effective"
      <4>1. tl[i].ts > Accept \/ tl[i].ts >= Accept
        BY <2>1, <3>1, <3>3 DEF Unambiguous
      <4>2. QED BY <2>3, <3>1, <4>1
    <3>4. QED BY <3>2, <3>3
  <2>6. ASSUME NEW i \in DOMAIN tl, tl[i].kind = "request" PROVE Until(tl) # -1
    <3> DEFINE k == CHOOSE j \in DOMAIN tl : tl[j].kind = "effective"
    <3>1. \E j \in DOMAIN tl : tl[j].kind = "effective"
      BY <2>2, <2>6 DEF IsTimeline
    <3>2. k \in DOMAIN tl /\ Until(tl) = tl[k].ts
      BY <3>1 DEF Until
    <3> HIDE DEF k
    <3>3. tl[k].ts \in Nat
      BY <2>2, <3>2 DEF Event
    <3>4. QED BY <3>2, <3>3
  <2>7. \A i, j \in DOMAIN tl : tl[i].kind = "request" /\ tl[j].kind = "request" => i = j
    BY <2>2 DEF IsTimeline
  <2>8. QED BY <2>1, <2>3, <2>5, <2>6, <2>7 DEF RaceInv
<1>2. CASE Walk(o)
  <2> DEFINE e == Head(input)
  <2>0. /\ stage = "walk" /\ input \in Seq(Event) /\ input # <<>> /\ sim \in SimState /\ seen \in Seen
        /\ sim' = Turn(sim, o.price, e) /\ input' = Tail(input)
        /\ seen' = [seen EXCEPT !.traded = @ + (IF Counts(e) THEN e.qty ELSE 0)]
    BY <1>2 DEF Walk, TypeOK
  <2>1. /\ e = input[1] /\ e \in Event /\ 1 \in DOMAIN input
        /\ \A i \in DOMAIN input' : /\ i + 1 \in DOMAIN input /\ 1 < i + 1
                                    /\ input'[i] = input[i + 1] /\ i \in Int
    BY <2>0
  <2>2. seen'.until = seen.until
    BY <2>0 DEF Seen
  <2> HIDE DEF e
  <2>3. /\ sim'.order.last \in {sim.order.last, e.ts}
        /\ sim'.order.status = "CANCEL_REQUESTED" =>
             sim.order.status = "CANCEL_REQUESTED" \/ e.kind = "request"
    BY <2>0, <2>1, TurnOrder
  <2>4. ASSUME NEW i \in DOMAIN input' PROVE sim'.order.last <= input'[i].ts
    <3>1. sim.order.last <= input[i + 1].ts
      BY <2>0, <2>1 DEF RaceInv
    <3>2. e.ts < input[i + 1].ts \/ e.ts = input[i + 1].ts
      <4>1. InOrder(input)
        BY <2>0 DEF WalkInv
      <4>2. QED BY <2>1, <4>1 DEF InOrder
    <3>3. e.ts \in Nat /\ input[i + 1].ts \in Nat
      BY <2>0, <2>1 DEF Event
    <3>4. QED BY <2>1, <2>3, <3>1, <3>2, <3>3
  <2>5. ASSUME NEW i \in DOMAIN input', NEW j \in DOMAIN input',
               input'[i].kind = "request", input'[j].kind = "request"
        PROVE  i = j
    <3>1. i + 1 = j + 1
      BY <2>0, <2>1, <2>5 DEF RaceInv
    <3>2. QED BY <2>1, <3>1
  <2>6. ASSUME NEW i \in DOMAIN input', input'[i].kind = "request" PROVE seen'.until # -1
    BY <2>0, <2>1, <2>2, <2>6 DEF RaceInv
  <2>7. ASSUME sim'.order.status = "CANCEL_REQUESTED"
        PROVE  seen'.until # -1 /\ \A i \in DOMAIN input' : input'[i].kind # "request"
    <3>1. CASE sim.order.status = "CANCEL_REQUESTED"
      BY <2>0, <2>1, <2>2, <3>1 DEF RaceInv
    <3>2. CASE e.kind = "request"
      <4>1. seen.until # -1
        BY <2>0, <2>1, <3>2 DEF RaceInv
      <4>2. ASSUME NEW i \in DOMAIN input', input'[i].kind = "request" PROVE FALSE
        <5>1. i + 1 = 1
          BY <2>0, <2>1, <3>2, <4>2 DEF RaceInv
        <5>2. QED BY <2>1, <5>1
      <4>3. QED BY <2>2, <4>1, <4>2
    <3>3. QED BY <2>3, <2>7, <3>1, <3>2
  <2>8. QED BY <2>4, <2>5, <2>6, <2>7 DEF RaceInv
<1>3. QED BY <1>1, <1>2

\* With an effect and a trade left, the turns do what the resolution says.
LEMMA TurnsResolve ==
  ASSUME NEW s \in SimState, NEW a \in Event, NEW b \in Event,
         s.order.status = "CANCEL_REQUESTED", s.ahead = 0,
         NEW t, NEW c, t \in {a, b}, c \in {a, b}, t.kind = "trade", c.kind = "effective",
         s.order.last <= a.ts, s.order.last <= b.ts, t.ts # c.ts,
         a.ts < b.ts \/ (a.ts = b.ts /\ Priority[a.kind] <= Priority[b.kind]),
         s.order.filled < s.order.qty,
         NEW q, q = Least(Remaining(s.order), t.qty)
  PROVE  /\ MayResolve(s.order, q, t.ts, c.ts)
         /\ Resolved(s.order, q, t.ts, c.ts) = Turn(Turn(s, 1, a), 1, b).order
<1>1. /\ s.order \in OrderState /\ s.order.qty \in Nat /\ s.order.filled \in Nat
      /\ s.order.last \in Nat /\ a.ts \in Nat /\ b.ts \in Nat
      /\ t.qty \in Nat /\ t.qty > 0 /\ t.ts \in Nat /\ c.ts \in Nat
  BY DEF SimState, OrderState, Event
<1>2. Remaining(s.order) \in Nat /\ Remaining(s.order) > 0
  BY <1>1 DEF Remaining
<1>3. q \in 1..Remaining(s.order)
  BY <1>1, <1>2 DEF Least
<1>4. MayResolve(s.order, q, t.ts, c.ts)
  <2>1. t.ts >= s.order.last /\ c.ts >= s.order.last
    BY <1>1
  <2>2. MayFill(s.order, q, t.ts)
    BY <1>3, <2>1 DEF MayFill
  <2>3. QED BY <2>1, <2>2 DEF MayResolve
<1>5. CASE a = c /\ b = t
  <2>1. c.ts < t.ts
    BY <1>1, <1>5
  <2> DEFINE u == [s EXCEPT !.order = Moved(s.order, Cancelled, c.ts)]
  <2>2. Turn(s, 1, a) = u
    BY <1>5 DEF Turn, Terminal
  <2>3. u.order = Moved(s.order, Cancelled, c.ts)
    BY DEF SimState
  <2>4. u.order.status = "CANCELLED"
    BY <1>1, <2>3 DEF Moved, Cancelled, OrderState
  <2> HIDE DEF u
  <2>5. Turn(u, 1, b) = u
    BY <2>4 DEF Turn, Terminal
  <2>6. QED BY <1>4, <2>1, <2>2, <2>3, <2>5 DEF Resolved
<1>6. CASE a = t /\ b = c
  <2>1. t.ts < c.ts
    BY <1>1, <1>6
  <2> DEFINE f   == Filled(s.order, q, t.ts)
             own == OwnShare(s.ahead, Remaining(s.order), t.qty)
             u   == Turn(s, 1, a)
  <2>2. own = q /\ q > 0
    BY <1>1, <1>2, <1>3 DEF OwnShare, Least
  <2>3. u.order = f
    <3> HIDE DEF own
    <3>1. u = [ order |-> IF own > 0 THEN Filled(s.order, own, t.ts) ELSE s.order,
                ahead |-> s.ahead - Least(s.ahead, t.qty),
                fills |-> IF own > 0 THEN Append(s.fills, <<1, own>>) ELSE s.fills ]
      BY <1>6 DEF Turn, Terminal, own
    <3> HIDE DEF u
    <3>2. QED BY <2>2, <3>1
  <2>4. f.status \in {"FILLED", "CANCEL_REQUESTED"} /\ f.last = t.ts
    BY <1>1 DEF Filled, OrderState
  <2> HIDE DEF u, f
  <2>5. CASE f.status = "FILLED"
    <3>1. Turn(u, 1, b) = u
      BY <2>3, <2>5 DEF Turn, Terminal
    <3>2. Resolved(s.order, q, t.ts, c.ts) = f
      BY <1>1, <2>1, <2>5 DEF Resolved, f
    <3>3. QED BY <1>4, <2>3, <3>1, <3>2 DEF u
  <2>6. CASE f.status = "CANCEL_REQUESTED"
    <3>1. Turn(u, 1, b).order = Moved(f, Cancelled, c.ts)
      <4>1. Turn(u, 1, b) = [u EXCEPT !.order = Moved(@, Cancelled, c.ts)]
        BY <1>6, <2>3, <2>6 DEF Turn, Terminal
      <4>2. u \in SimState \/ DOMAIN u = {"order", "ahead", "fills"}
        BY <1>6 DEF Turn, Terminal, u
      <4>3. QED BY <2>3, <4>1, <4>2 DEF SimState
    <3>2. MayMove(f, Cancelled, c.ts)
      BY <1>1, <2>1, <2>4, <2>6 DEF MayMove, Cancelled
    <3>3. Resolved(s.order, q, t.ts, c.ts) = Moved(f, Cancelled, c.ts)
      BY <1>1, <2>1, <2>6, <3>2 DEF Resolved, f
    <3>4. QED BY <1>4, <3>1, <3>3 DEF u
  <2>7. QED BY <2>4, <2>5, <2>6
<1>7. QED BY <1>5, <1>6

LEMMA ElementsOf == ASSUME NEW S, NEW s \in Seq(S) PROVE \A i \in DOMAIN s : s[i] \in S
  OBVIOUS

\* A cancel in flight and one trade left: the walk and the resolution of the
\* race come to the same order, whichever comes first, whatever their times.
THEOREM WalkAndRaceAgree == Spec => []RaceAgrees
<1>1. Init => RaceInv
  BY DEF Init, RaceInv
<1>2. TypeOK /\ WalkInv /\ RaceInv /\ [Next]_vars => RaceInv'
  BY StepRaces
<1>3. TypeOK /\ WalkInv /\ RaceInv => RaceAgrees
  <2> SUFFICES ASSUME TypeOK, WalkInv, RaceInv, stage = "walk", Len(input) = 2,
                      sim.order.status = "CANCEL_REQUESTED", sim.ahead = 0,
                      input[1].kind # input[2].kind
               PROVE  LET t == IF input[1].kind = "trade" THEN input[1] ELSE input[2]
                          q == Least(Remaining(sim.order), t.qty)
                          w == Turn(Turn(sim, 1, input[1]), 1, input[2]).order
                      IN  MayResolve(sim.order, q, t.ts, seen.until)
                            /\ Resolved(sim.order, q, t.ts, seen.until) = w
    BY DEF RaceAgrees
  <2>0. /\ sim \in SimState /\ input \in Seq(Event) /\ DOMAIN input = 1..2
        /\ input[1] \in Event /\ input[2] \in Event
    <3>1. sim \in SimState /\ input \in Seq(Event)
      BY DEF TypeOK
    <3>2. DOMAIN input = 1..2
      BY <3>1
    <3>3. \A i \in DOMAIN input : input[i] \in Event
      BY <3>1, ElementsOf
    <3>4. QED BY <3>1, <3>2, <3>3
  <2> DEFINE a == input[1]
             b == input[2]
             t == IF a.kind = "trade" THEN a ELSE b
             c == IF a.kind = "trade" THEN b ELSE a
  <2>1. /\ sim \in SimState /\ input \in Seq(Event) /\ 1 \in DOMAIN input /\ 2 \in DOMAIN input
        /\ \A i \in DOMAIN input : i = 1 \/ i = 2
        /\ a \in Event /\ b \in Event /\ a.kind # b.kind
    BY <2>0
  <2>2. /\ a.kind \in {"trade", "effective"} /\ b.kind \in {"trade", "effective"}
    BY <2>1 DEF RaceInv, Event
  <2>3. t.kind = "trade" /\ c.kind = "effective" /\ t \in {a, b} /\ c \in {a, b}
    BY <2>1, <2>2
  <2>4. c.ts = seen.until /\ t.ts # seen.until
    BY <2>1, <2>3 DEF WalkInv
  <2>5. sim.order.last <= a.ts /\ sim.order.last <= b.ts
    BY <2>1 DEF RaceInv
  <2>6. a.ts < b.ts \/ (a.ts = b.ts /\ Priority[a.kind] <= Priority[b.kind])
    <3>1. InOrder(input)
      BY DEF WalkInv
    <3>2. QED BY <2>1, <3>1 DEF InOrder
  <2>7. sim.order.filled < sim.order.qty
    <3>1. /\ sim.order.filled = Due /\ sim.order.filled # sim.order.qty
          /\ sim.order.qty \in Nat /\ sim.order.filled \in Nat
      BY <2>1 DEF WalkInv, SimState, OrderState
    <3>2. seen.traded \in Nat /\ seen.ahead \in Nat
      BY DEF TypeOK, Seen
    <3>3. Due <= sim.order.qty
      BY <3>1, <3>2 DEF Due, Least
    <3>4. QED BY <3>1, <3>3
  <2> HIDE DEF a, b, t, c
  <2>8. /\ MayResolve(sim.order, Least(Remaining(sim.order), t.qty), t.ts, c.ts)
        /\ Resolved(sim.order, Least(Remaining(sim.order), t.qty), t.ts, c.ts)
             = Turn(Turn(sim, 1, a), 1, b).order
    BY <2>1, <2>3, <2>4, <2>5, <2>6, <2>7, TurnsResolve
  <2>9. QED BY <2>4, <2>8 DEF a, b, t
<1>4. Init => WalkInv
  BY DEF Init, WalkInv
<1>5. TypeOK /\ WalkInv /\ [Next]_vars => WalkInv'
  BY StepWalks
<1> QED BY <1>1, <1>2, <1>3, <1>4, <1>5, TypesCorrect, PTL DEF Spec

-----------------------------------------------------------------------------
(* Sums over finite sets                                                   *)

\* Among some subsets of a finite set one has no other below it: what the
\* inductions over finite sets rest on.
LEMMA SmallestSubset ==
  ASSUME NEW S, IsFiniteSet(S), NEW B \in SUBSET SUBSET S, B # {}
  PROVE  \E m \in B : \A t \in B : t \subseteq m => t = m
<1>1. IsWellFoundedOn(StrictSubsetOrdering(S), FiniteSubsetsOf(S))
  BY FS_StrictSubsetOrderingWellFounded
<1>2. B \subseteq FiniteSubsetsOf(S)
  BY FS_Subset DEF FiniteSubsetsOf
<1>3. \E m \in B : \A t \in B : ~ (<<t, m>> \in StrictSubsetOrdering(S))
  BY <1>1, <1>2, WFMin
<1>4. QED BY <1>3 DEF StrictSubsetOrdering

\* The sum of a function over a set, and the function it is computed with.
SumOf(f, S) == MapThenSumSet(LAMBDA x : f[x], S)
One(s)      == CHOOSE x \in s : TRUE
SumRec(f, S, g) ==
  g = [s \in SUBSET S |-> IF s = {} THEN 0
                          ELSE LET x == One(s) IN f[x] + g[s \ {x}]]
Sums(f, S) == CHOOSE g : SumRec(f, S, g)

LEMMA SumOfSums ==
  ASSUME NEW f, NEW S
  PROVE  SumOf(f, S) = Sums(f, S)[S]
  BY DEF SumOf, MapThenSumSet, MapThenFoldSet, SumRec, Sums, One

LEMMA OneIn == ASSUME NEW s, s # {} PROVE One(s) \in s
  BY DEF One

\* What such a function is at the empty set and elsewhere.
LEMMA SumRecAt ==
  ASSUME NEW f, NEW S, NEW g, SumRec(f, S, g), NEW s \in SUBSET S
  PROVE  /\ s = {} => g[s] = 0
         /\ s # {} => g[s] = f[One(s)] + g[s \ {One(s)}]
<1> DEFINE h == [z \in SUBSET S |-> IF z = {} THEN 0
                          ELSE LET x == One(z) IN f[x] + g[z \ {x}]]
<1>1. g = h
  BY DEF SumRec
<1>2. h[s] = IF s = {} THEN 0 ELSE f[One(s)] + g[s \ {One(s)}]
  OBVIOUS
<1> HIDE DEF h
<1>3. QED BY <1>1, <1>2

\* Two such functions agree where both are defined.
LEMMA SumsAgree ==
  ASSUME NEW f, NEW S, NEW T, IsFiniteSet(S), NEW g, NEW h,
         SumRec(f, S, g), SumRec(f, T, h)
  PROVE  \A s \in SUBSET (S \cap T) : g[s] = h[s]
<1> DEFINE B == {s \in SUBSET (S \cap T) : g[s] # h[s]}
<1>1. SUFFICES ASSUME B # {} PROVE FALSE
  OBVIOUS
<1>2. B \in SUBSET SUBSET S
  OBVIOUS
<1> HIDE DEF B
<1>3. PICK m \in B : \A t \in B : t \subseteq m => t = m
  BY <1>1, <1>2, SmallestSubset
<1> USE DEF B
<1>4. m \in SUBSET S /\ m \in SUBSET T /\ g[m] # h[m]
  BY <1>3
<1>5. CASE m = {}
  BY <1>4, <1>5, SumRecAt
<1>6. CASE m # {}
  <2> DEFINE x == One(m)
             r == m \ {x}
  <2>1. x \in m
    BY <1>6, OneIn
  <2>2. r \subseteq m /\ r # m
    BY <2>1
  <2>3. g[r] = h[r]
    BY <1>3, <1>4, <2>2
  <2>4. g[m] = f[x] + g[r]
    BY <1>4, <1>6, SumRecAt
  <2>5. h[m] = f[x] + h[r]
    BY <1>4, <1>6, SumRecAt
  <2>6. QED BY <1>4, <2>3, <2>4, <2>5
<1>7. QED BY <1>5, <1>6

\* So a smaller set has the same sum under both.
LEMMA SumsMatch ==
  ASSUME NEW f, NEW S, NEW T, S \in SUBSET T, IsFiniteSet(S), NEW g, NEW h,
         SumRec(f, S, g), SumRec(f, T, h)
  PROVE  g[S] = h[S]
<1>1. \A s \in SUBSET (S \cap T) : g[s] = h[s]
  BY SumsAgree
<1>2. S \in SUBSET (S \cap T)
  OBVIOUS
<1>3. QED BY <1>1, <1>2

\* On a finite set there is such a function.
LEMMA SumsExist ==
  ASSUME NEW f, NEW S, IsFiniteSet(S)
  PROVE  SumRec(f, S, Sums(f, S))
<1> DEFINE B == {s \in SUBSET S : ~ \E g : SumRec(f, s, g)}
<1>1. ASSUME B # {} PROVE FALSE
  <2>0. B \in SUBSET SUBSET S
    OBVIOUS
  <2> HIDE DEF B
  <2>1. PICK m \in B : \A t \in B : t \subseteq m => t = m
    BY <1>1, <2>0, SmallestSubset
  <2> USE DEF B
  <2>2. IsFiniteSet(m) /\ m \in SUBSET S
    BY <2>1, FS_Subset
  <2>3. \A t \in SUBSET m : t # m => SumRec(f, t, Sums(f, t))
    BY <2>1, <2>2 DEF Sums
  <2> DEFINE v == [s \in SUBSET m |->
                     IF s = {} THEN 0
                     ELSE LET x == One(s) IN f[x] + Sums(f, s \ {x})[s \ {x}]]
  <2>4. ASSUME NEW t \in SUBSET m, t # m PROVE v[t] = Sums(f, t)[t]
    <3>1. SumRec(f, t, Sums(f, t))
      BY <2>3, <2>4
    <3>2. CASE t = {}
      <4>1. v[t] = 0
        BY <3>2
      <4>2. Sums(f, t)[t] = 0
        BY <3>1, <3>2, SumRecAt
      <4>3. QED BY <4>1, <4>2
    <3>3. CASE t # {}
      <4> DEFINE y == One(t)
                 u == t \ {y}
      <4>1. y \in t /\ u \in SUBSET m /\ u # m /\ u \in SUBSET t
        BY <2>4, <3>3, OneIn
      <4>2. SumRec(f, u, Sums(f, u))
        BY <2>3, <4>1
      <4>3. IsFiniteSet(u)
        BY <2>2, <4>1, FS_Subset
      <4>4. v[t] = f[y] + Sums(f, u)[u]
        BY <3>3
      <4>5. Sums(f, t)[t] = f[y] + Sums(f, t)[u]
        BY <3>1, <3>3, SumRecAt
      <4> HIDE DEF u, y, v, B
      <4>6. Sums(f, u)[u] = Sums(f, t)[u]
        BY <3>1, <4>1, <4>2, <4>3, SumsMatch
      <4>7. QED BY <4>4, <4>5, <4>6
    <3>4. QED BY <3>2, <3>3
  <2>5. ASSUME NEW s \in SUBSET m, s # {}
        PROVE  Sums(f, s \ {One(s)})[s \ {One(s)}] = v[s \ {One(s)}]
    <3>1. One(s) \in s
      BY <2>5, OneIn
    <3>2. s \ {One(s)} \in SUBSET m /\ s \ {One(s)} # m
      BY <3>1
    <3>3. QED BY <2>4, <3>2
  <2>6. v = [s \in SUBSET m |-> IF s = {} THEN 0
                               ELSE LET x == One(s) IN f[x] + v[s \ {x}]]
    <3> DEFINE w == [s \in SUBSET m |-> IF s = {} THEN 0
                               ELSE LET x == One(s) IN f[x] + v[s \ {x}]]
    <3>1. ASSUME NEW s \in SUBSET m PROVE v[s] = w[s]
      <4>1. CASE s = {}
        BY <4>1
      <4>2. CASE s # {}
        <5>1. v[s] = f[One(s)] + Sums(f, s \ {One(s)})[s \ {One(s)}]
          BY <4>2
        <5>2. w[s] = f[One(s)] + v[s \ {One(s)}]
          BY <4>2
        <5>3. QED BY <2>5, <4>2, <5>1, <5>2
      <4>3. QED BY <4>1, <4>2
    <3>2. v = [s \in SUBSET m |-> v[s]] /\ w = [s \in SUBSET m |-> w[s]]
      OBVIOUS
    <3> HIDE DEF v, w
    <3>3. v = w
      BY <3>1, <3>2
    <3>4. QED BY <3>3 DEF w
  <2>7. SumRec(f, m, v)
    BY <2>6 DEF SumRec
  <2>8. QED BY <2>1, <2>7
<1>2. \E g : SumRec(f, S, g)
  BY <1>1
<1>3. QED BY <1>2 DEF Sums

\* The sum over the empty set, and the sum with one element taken out.
LEMMA SumEmpty == ASSUME NEW f PROVE SumOf(f, {}) = 0
<1>1. IsFiniteSet({})
  BY FS_EmptySet
<1>2. SumRec(f, {}, Sums(f, {}))
  BY <1>1, SumsExist
<1>3. Sums(f, {})[{}] = 0
  BY <1>2, SumRecAt
<1>4. QED BY <1>3, SumOfSums

LEMMA SumOne ==
  ASSUME NEW f, NEW S, IsFiniteSet(S), S # {}
  PROVE  SumOf(f, S) = f[One(S)] + SumOf(f, S \ {One(S)})
<1> DEFINE T == S \ {One(S)}
<1>1. IsFiniteSet(T) /\ T \in SUBSET S
  BY FS_Subset
<1>2. SumRec(f, S, Sums(f, S)) /\ SumRec(f, T, Sums(f, T))
  BY <1>1, SumsExist
<1>3. S \in SUBSET S
  OBVIOUS
<1>4. Sums(f, S)[S] = f[One(S)] + Sums(f, S)[T]
  BY <1>2, <1>3, SumRecAt
<1> HIDE DEF T
<1>5. Sums(f, S)[T] = Sums(f, T)[T]
  BY <1>1, <1>2, SumsMatch
<1>6. QED BY <1>4, <1>5, SumOfSums DEF T

\* A sum of integers is an integer.
LEMMA SumInt ==
  ASSUME NEW f, NEW S, IsFiniteSet(S), \A x \in S : f[x] \in Int
  PROVE  SumOf(f, S) \in Int
<1> DEFINE B == {s \in SUBSET S : SumOf(f, s) \notin Int}
<1>1. ASSUME B # {} PROVE FALSE
  <2>1. B \in SUBSET SUBSET S
    OBVIOUS
  <2> HIDE DEF B
  <2>2. PICK m \in B : \A t \in B : t \subseteq m => t = m
    BY <1>1, <2>1, SmallestSubset
  <2> USE DEF B
  <2>3. m \in SUBSET S /\ SumOf(f, m) \notin Int /\ IsFiniteSet(m)
    BY <2>2, FS_Subset
  <2>4. m # {}
    BY <2>3, SumEmpty
  <2>5. One(m) \in m
    BY <2>4, OneIn
  <2>6. m \ {One(m)} \in SUBSET S /\ m \ {One(m)} # m
    BY <2>3, <2>5
  <2>7. SumOf(f, m \ {One(m)}) \in Int
    BY <2>2, <2>6
  <2>8. SumOf(f, m) = f[One(m)] + SumOf(f, m \ {One(m)})
    BY <2>3, <2>4, SumOne
  <2>9. f[One(m)] \in Int
    BY <2>3, <2>5
  <2>10. QED BY <2>3, <2>7, <2>8, <2>9
<1>2. S \in SUBSET S
  OBVIOUS
<1>3. QED BY <1>1, <1>2

\* It does not matter which element is taken out.
LEMMA SumPick ==
  ASSUME NEW f, NEW S, IsFiniteSet(S), \A x \in S : f[x] \in Int, NEW x \in S
  PROVE  SumOf(f, S) = f[x] + SumOf(f, S \ {x})
<1> DEFINE Good(s) == \A y \in s : SumOf(f, s) = f[y] + SumOf(f, s \ {y})
           B == {s \in SUBSET S : ~Good(s)}
<1>1. ASSUME B # {} PROVE FALSE
  <2>1. B \in SUBSET SUBSET S
    OBVIOUS
  <2> HIDE DEF B
  <2>2. PICK m \in B : \A t \in B : t \subseteq m => t = m
    BY <1>1, <2>1, SmallestSubset
  <2> USE DEF B
  <2>3. m \in SUBSET S /\ ~Good(m) /\ IsFiniteSet(m)
    BY <2>2, FS_Subset
  <2>4. PICK y \in m : SumOf(f, m) # f[y] + SumOf(f, m \ {y})
    BY <2>3
  <2> DEFINE z == One(m)
  <2>5. z \in m /\ m # {}
    BY <2>4, OneIn
  <2>6. SumOf(f, m) = f[z] + SumOf(f, m \ {z})
    BY <2>3, <2>5, SumOne
  <2>7. z # y
    BY <2>4, <2>6
  <2> DEFINE mz == m \ {z}
             my == m \ {y}
             mzy == m \ {z, y}
  <2>8. /\ mz \in SUBSET S /\ mz # m /\ mz \subseteq m /\ y \in mz
        /\ my \in SUBSET S /\ my # m /\ my \subseteq m /\ z \in my
        /\ mz \ {y} = mzy /\ my \ {z} = mzy /\ mzy \in SUBSET S
    BY <2>3, <2>4, <2>5, <2>7
  <2> HIDE DEF mz, my, mzy, z
  <2>9. Good(mz) /\ Good(my)
    BY <2>2, <2>8
  <2>10. SumOf(f, mz) = f[y] + SumOf(f, mzy)
    BY <2>8, <2>9
  <2>11. SumOf(f, my) = f[z] + SumOf(f, mzy)
    BY <2>8, <2>9
  <2>12. IsFiniteSet(mzy) /\ \A u \in mzy : f[u] \in Int
    BY <2>8, FS_Subset
  <2>13. SumOf(f, mzy) \in Int
    BY <2>12, SumInt
  <2>14. f[y] \in Int /\ f[z] \in Int
    BY <2>3, <2>4, <2>5
  <2>15. SumOf(f, m) # f[y] + SumOf(f, my)
    BY <2>4 DEF my
  <2>16. SumOf(f, m) = f[z] + SumOf(f, mz)
    BY <2>6 DEF mz
  <2>17. QED BY <2>10, <2>11, <2>13, <2>14, <2>15, <2>16
<1>2. S \in SUBSET S
  OBVIOUS
<1>3. Good(S)
  BY <1>1, <1>2
<1>4. QED BY <1>3

\* Functions that agree on a set have the same sum.
LEMMA SumSame ==
  ASSUME NEW f, NEW h, NEW S, IsFiniteSet(S), \A x \in S : f[x] = h[x]
  PROVE  SumOf(f, S) = SumOf(h, S)
<1> DEFINE B == {s \in SUBSET S : SumOf(f, s) # SumOf(h, s)}
<1>1. ASSUME B # {} PROVE FALSE
  <2>1. B \in SUBSET SUBSET S
    OBVIOUS
  <2> HIDE DEF B
  <2>2. PICK m \in B : \A t \in B : t \subseteq m => t = m
    BY <1>1, <2>1, SmallestSubset
  <2> USE DEF B
  <2>3. m \in SUBSET S /\ SumOf(f, m) # SumOf(h, m) /\ IsFiniteSet(m)
    BY <2>2, FS_Subset
  <2>4. m # {}
    BY <2>3, SumEmpty
  <2>5. One(m) \in m
    BY <2>4, OneIn
  <2>6. m \ {One(m)} \in SUBSET S /\ m \ {One(m)} # m
    BY <2>3, <2>5
  <2>7. SumOf(f, m \ {One(m)}) = SumOf(h, m \ {One(m)})
    BY <2>2, <2>6
  <2>8. SumOf(f, m) = f[One(m)] + SumOf(f, m \ {One(m)})
    BY <2>3, <2>4, SumOne
  <2>9. SumOf(h, m) = h[One(m)] + SumOf(h, m \ {One(m)})
    BY <2>3, <2>4, SumOne
  <2>10. f[One(m)] = h[One(m)]
    BY <2>3, <2>5
  <2>11. QED BY <2>3, <2>7, <2>8, <2>9, <2>10
<1>2. S \in SUBSET S
  OBVIOUS
<1>3. QED BY <1>1, <1>2

\* A sum of natural numbers is one, and no less than any of them.
LEMMA SumNat ==
  ASSUME NEW f, NEW S, IsFiniteSet(S), \A x \in S : f[x] \in Nat
  PROVE  SumOf(f, S) \in Nat /\ \A x \in S : f[x] <= SumOf(f, S)
<1> DEFINE B == {s \in SUBSET S : SumOf(f, s) \notin Nat}
<1>1. ASSUME B # {} PROVE FALSE
  <2>1. B \in SUBSET SUBSET S
    OBVIOUS
  <2> HIDE DEF B
  <2>2. PICK m \in B : \A t \in B : t \subseteq m => t = m
    BY <1>1, <2>1, SmallestSubset
  <2> USE DEF B
  <2>3. m \in SUBSET S /\ SumOf(f, m) \notin Nat /\ IsFiniteSet(m)
    BY <2>2, FS_Subset
  <2>4. m # {}
    BY <2>3, SumEmpty
  <2>5. One(m) \in m
    BY <2>4, OneIn
  <2>6. m \ {One(m)} \in SUBSET S /\ m \ {One(m)} # m
    BY <2>3, <2>5
  <2>7. SumOf(f, m \ {One(m)}) \in Nat
    BY <2>2, <2>6
  <2>8. SumOf(f, m) = f[One(m)] + SumOf(f, m \ {One(m)})
    BY <2>3, <2>4, SumOne
  <2>9. f[One(m)] \in Nat
    BY <2>3, <2>5
  <2>10. QED BY <2>3, <2>7, <2>8, <2>9
<1>2. \A s \in SUBSET S : SumOf(f, s) \in Nat
  BY <1>1
<1>3. ASSUME NEW x \in S PROVE f[x] <= SumOf(f, S)
  <2>1. SumOf(f, S) = f[x] + SumOf(f, S \ {x})
    BY SumPick
  <2>2. SumOf(f, S \ {x}) \in Nat /\ f[x] \in Nat
    BY <1>2
  <2>3. QED BY <2>1, <2>2
<1>4. QED BY <1>2, <1>3

\* Changing the value at one place changes the sum by as much.
LEMMA SumUpdate ==
  ASSUME NEW f, NEW h, NEW S, IsFiniteSet(S), \A y \in S : f[y] \in Int,
         NEW x, h[x] \in Int, \A y \in S : y # x => h[y] = f[y]
  PROVE  SumOf(h, S) = IF x \in S THEN SumOf(f, S) + h[x] - f[x] ELSE SumOf(f, S)
<1> DEFINE T == S \ {x}
<1>1. IsFiniteSet(T) /\ \A y \in T : h[y] = f[y] /\ f[y] \in Int
  BY FS_Subset
<1>2. SumOf(h, T) = SumOf(f, T) /\ SumOf(f, T) \in Int
  BY <1>1, SumSame, SumInt
<1>3. CASE x \notin S
  <2>1. T = S
    BY <1>3
  <2>2. QED BY <1>2, <1>3, <2>1
<1>4. CASE x \in S
  <2>1. SumOf(f, S) = f[x] + SumOf(f, T)
    BY <1>4, SumPick
  <2>2. \A y \in S : h[y] \in Int
    OBVIOUS
  <2>3. SumOf(h, S) = h[x] + SumOf(h, T)
    BY <1>4, <2>2, SumPick
  <2>4. f[x] \in Int
    BY <1>4
  <2>5. QED BY <1>2, <1>4, <2>1, <2>3, <2>4
<1>5. QED BY <1>3, <1>4

-----------------------------------------------------------------------------
(* What an order takes and gives back                                      *)

Buys     == {o \in Orders : o.side = "BUY"}
Sells(k) == {o \in Orders : o.side = "SELL" /\ o.key = k}

\* The reserves are the sums of what the orders hold.
Accounts(r, res, h) ==
  /\ res = SumOf(r, Buys)
  /\ \A k \in Keys : h[k] = SumOf(r, Sells(k))

\* What an order holds for each share still to fill, and what a maker's share
\* of a BUY costs in the end.
UnitNeed(o) == IF o.side = "BUY" THEN o.price + FeeOf(o, o.price)
               ELSE IF o.kind = "passive" THEN 1 ELSE 0
NetUnit(o)  == o.price + FeeOf(o, o.price) - RebateOf(o, o.price)

\* When an order's hold moves with its reserve, the reserves stay the sums.
LEMMA AccountsMove ==
  ASSUME NEW r \in [Orders -> Int], NEW res \in Int, NEW h \in [Keys -> Int],
         Accounts(r, res, h), NEW o \in Orders, NEW v \in Int,
         NEW res2, NEW h2,
         res2 = (IF o.side = "BUY" THEN res + v - r[o] ELSE res),
         h2 = (IF o.side = "BUY" THEN h ELSE [h EXCEPT ![o.key] = @ + v - r[o]])
  PROVE  Accounts([r EXCEPT ![o] = v], res2, h2)
<1> DEFINE r2 == [r EXCEPT ![o] = v]
<1>0. o.key \in Keys /\ o.side \in {"BUY", "SELL"} /\ IsFiniteSet(Orders)
  BY TradingAssumption
<1>1. /\ Buys \in SUBSET Orders /\ IsFiniteSet(Buys)
      /\ \A k : Sells(k) \in SUBSET Orders /\ IsFiniteSet(Sells(k))
  BY <1>0, FS_Subset DEF Buys, Sells
<1>a. ASSUME NEW S \in SUBSET Orders, IsFiniteSet(S)
      PROVE  SumOf(r2, S) = IF o \in S THEN SumOf(r, S) + v - r[o] ELSE SumOf(r, S)
  <2>1. r2[o] = v /\ (\A y \in S : r[y] \in Int) /\ \A y \in S : y # o => r2[y] = r[y]
    OBVIOUS
  <2> HIDE DEF r2
  <2>2. SumOf(r2, S) = IF o \in S THEN SumOf(r, S) + r2[o] - r[o] ELSE SumOf(r, S)
    BY <1>a, <2>1, SumUpdate
  <2>3. QED BY <2>1, <2>2
<1> HIDE DEF r2
<1>2. SumOf(r2, Buys) = IF o \in Buys THEN SumOf(r, Buys) + v - r[o] ELSE SumOf(r, Buys)
  BY <1>1, <1>a
<1>3. \A k : SumOf(r2, Sells(k)) =
               IF o \in Sells(k) THEN SumOf(r, Sells(k)) + v - r[o] ELSE SumOf(r, Sells(k))
  BY <1>1, <1>a
<1>4. /\ o \in Buys <=> o.side = "BUY"
      /\ \A k : o \in Sells(k) <=> o.side # "BUY" /\ o.key = k
  BY <1>0 DEF Buys, Sells
<1>5. res2 = SumOf(r2, Buys)
  BY <1>2, <1>4 DEF Accounts
<1>6. ASSUME NEW k \in Keys PROVE h2[k] = SumOf(r2, Sells(k))
  <2>1. h[k] = SumOf(r, Sells(k))
    BY DEF Accounts
  <2>2. CASE o.side = "BUY"
    BY <1>3, <1>4, <2>1, <2>2
  <2>3. CASE o.side # "BUY"
    <3>1. h2 = [h EXCEPT ![o.key] = @ + v - r[o]]
      BY <2>3
    <3>2. h2[k] = IF k = o.key THEN h[k] + v - r[o] ELSE h[k]
      BY <1>0, <3>1
    <3>3. QED BY <1>3, <1>4, <2>1, <2>3, <3>2
  <2>4. QED BY <2>2, <2>3
<1>7. QED BY <1>5, <1>6 DEF Accounts, r2

-----------------------------------------------------------------------------
(* What a fill costs of what is held for it                                *)

\* Multiplication and division, as far as fees need them.
LEMMA DivBounds ==
  ASSUME NEW x \in Nat, NEW u \in Nat \ {0}
  PROVE  x \div u \in Nat /\ u * (x \div u) <= x
  OBVIOUS

LEMMA DivExact ==
  ASSUME NEW m \in Nat, NEW u \in Nat \ {0}
  PROVE  (u * m) \div u = m
  OBVIOUS

LEMMA MulNat ==
  ASSUME NEW a \in Nat, NEW b \in Nat
  PROVE  a * b \in Nat
  OBVIOUS

LEMMA MulMono ==
  ASSUME NEW a \in Nat, NEW b \in Nat, NEW c \in Nat, a <= b
  PROVE  a * c <= b * c
  OBVIOUS

LEMMA MulCancel ==
  ASSUME NEW a \in Nat, NEW b \in Nat, NEW u \in Nat \ {0}, u * a <= u * b
  PROVE  a <= b
  OBVIOUS

LEMMA Whole ==
  ASSUME NEW p \in Nat, NEW u \in Nat \ {0}, p % u = 0
  PROVE  \E m \in Nat : p = u * m
<1>1. p \div u \in Nat /\ p = u * (p \div u) + (p % u)
  OBVIOUS
<1>2. QED BY <1>1

LEMMA OrderTypes ==
  ASSUME NEW o \in Orders
  PROVE  /\ o.key \in Keys /\ o.side \in {"BUY", "SELL"}
         /\ o.qty \in Nat \ {0} /\ o.price \in Nat \ {0}
         /\ o.kind \in {"passive", "IOC", "FOK"}
         /\ o.fee \in Nat /\ o.fee <= Unit /\ o.rebate \in Nat
         /\ o.kind # "passive" => o.rebate = 0
         /\ Unit \in Nat \ {0} /\ o.price % Unit = 0
<1>1. Unit \in Nat \ {0}
  BY TradingAssumption
<1>2. o.fee \in 0..Unit
  BY TradingAssumption
<1>3. o.fee \in Nat /\ o.fee <= Unit
  BY <1>1, <1>2
<1>4. QED BY <1>1, <1>3, TradingAssumption

\* Fees and rebates are in proportion on whole units of notional, and a fee
\* is never more than its notional.
LEMMA FeesInProportion ==
  ASSUME NEW o \in Orders, NEW q \in Nat
  PROVE  /\ FeeOf(o, o.price * q) = q * FeeOf(o, o.price) /\ FeeOf(o, o.price) \in Nat
         /\ RebateOf(o, o.price * q) = q * RebateOf(o, o.price) /\ RebateOf(o, o.price) \in Nat
<1>1. PICK m \in Nat : o.price = Unit * m
  BY OrderTypes, Whole
<1>2. ASSUME NEW r \in Nat
      PROVE  /\ (o.price * r) \div Unit = m * r /\ m * r \in Nat
             /\ ((o.price * q) * r) \div Unit = q * (m * r)
  <2>1. m * r \in Nat /\ q * (m * r) \in Nat /\ Unit \in Nat \ {0}
    BY OrderTypes, MulNat
  <2>2. o.price * r = Unit * (m * r)
    BY <1>1, <2>1
  <2>3. (o.price * q) * r = Unit * (q * (m * r))
    BY <1>1, <2>1
  <2>4. (o.price * r) \div Unit = m * r
    BY <2>1, <2>2, DivExact
  <2>5. ((o.price * q) * r) \div Unit = q * (m * r)
    BY <2>1, <2>3, DivExact
  <2>6. QED BY <2>1, <2>4, <2>5
<1>3. o.fee \in Nat /\ o.rebate \in Nat
  BY OrderTypes
<1>4. QED BY <1>2, <1>3 DEF FeeOf, RebateOf

LEMMA FeeBounds ==
  ASSUME NEW o \in Orders, NEW n \in Nat
  PROVE  /\ FeeOf(o, n) \in Nat /\ FeeOf(o, n) <= n
         /\ RebateOf(o, n) \in Nat /\ (o.kind # "passive" => RebateOf(o, n) = 0)
         /\ \A k \in Nat : n <= k => FeeOf(o, n) <= FeeOf(o, k)
<1>1. Unit \in Nat \ {0} /\ o.fee \in Nat /\ o.fee <= Unit /\ o.rebate \in Nat
  BY OrderTypes
<1>2. ASSUME NEW k \in Nat PROVE k * o.fee \in Nat /\ k * o.rebate \in Nat
  BY <1>1, MulNat
<1>3. FeeOf(o, n) \in Nat /\ Unit * FeeOf(o, n) <= n * o.fee /\ RebateOf(o, n) \in Nat
  BY <1>1, <1>2, DivBounds DEF FeeOf, RebateOf
<1>4. n * o.fee <= Unit * n
  BY <1>1
<1>5. FeeOf(o, n) <= n
  <2>1. Unit * FeeOf(o, n) \in Nat /\ n * o.fee \in Nat /\ Unit * n \in Nat
    BY <1>1, <1>2, <1>3, MulNat
  <2>2. Unit * FeeOf(o, n) <= Unit * n
    BY <1>3, <1>4, <2>1
  <2>3. QED BY <1>1, <1>3, <2>2, MulCancel
<1>6. o.kind # "passive" => RebateOf(o, n) = 0
  BY <1>1, OrderTypes DEF RebateOf
<1>7. ASSUME NEW k \in Nat, n <= k PROVE FeeOf(o, n) <= FeeOf(o, k)
  <2>1. n * o.fee <= k * o.fee
    BY <1>1, <1>7, MulMono
  <2>2. n * o.fee \in Nat /\ k * o.fee \in Nat
    BY <1>2
  <2> DEFINE a == n * o.fee
             b == k * o.fee
  <2> HIDE DEF a, b
  <2>3. a \div Unit <= b \div Unit
    BY <1>1, <2>1, <2>2 DEF a, b
  <2>4. QED BY <2>3 DEF a, b, FeeOf
<1>8. QED BY <1>3, <1>5, <1>6, <1>7

\* What an order reserves is what it needs for each of its shares.
LEMMA NeedOf ==
  ASSUME NEW o \in Orders
  PROVE  Need(o) = o.qty * UnitNeed(o) /\ UnitNeed(o) \in Nat /\ NetUnit(o) \in Int
         /\ (o.side = "BUY" => NetUnit(o) <= UnitNeed(o) /\ UnitNeed(o) > 0)
         /\ (o.kind # "passive" => NetUnit(o) >= 0)
<1>1. /\ o.qty \in Nat /\ o.price \in Nat /\ o.price > 0 /\ o.side \in {"BUY", "SELL"}
      /\ o.kind \in {"passive", "IOC", "FOK"}
  BY OrderTypes
<1>2. /\ FeeOf(o, o.price * o.qty) = o.qty * FeeOf(o, o.price) /\ FeeOf(o, o.price) \in Nat
      /\ RebateOf(o, o.price) \in Nat
  BY <1>1, FeesInProportion
<1>3. o.kind # "passive" => RebateOf(o, o.price) = 0
  BY <1>1, FeeBounds
<1>4. o.qty * o.price = o.price * o.qty
  BY <1>1
<1>5. o.qty * o.price + o.qty * FeeOf(o, o.price) = o.qty * (o.price + FeeOf(o, o.price))
  BY <1>1, <1>2
<1>6. o.side = "BUY" => Need(o) = o.qty * UnitNeed(o)
  BY <1>2, <1>4, <1>5 DEF Need, UnitNeed
<1>7. o.side # "BUY" => Need(o) = o.qty * UnitNeed(o)
  BY <1>1 DEF Need, UnitNeed
<1>8. UnitNeed(o) \in Nat /\ NetUnit(o) \in Int
         /\ (o.side = "BUY" => NetUnit(o) <= UnitNeed(o) /\ UnitNeed(o) > 0)
         /\ (o.kind # "passive" => NetUnit(o) >= 0)
  BY <1>1, <1>2, <1>3 DEF UnitNeed, NetUnit
<1>9. QED BY <1>6, <1>7, <1>8

\* What a fill of a BUY takes: a maker pays its price, a taker its limit at most.
LEMMA FillCost ==
  ASSUME NEW o \in Orders, o.side = "BUY", NEW p \in Nat, NEW q \in Nat,
         o.kind = "passive" => p = o.price, p <= o.price
  PROVE  LET c == p * q + (FeeOf(o, p * q) - RebateOf(o, p * q))
         IN  /\ c \in Int /\ c <= q * UnitNeed(o)
             /\ o.kind = "passive" => c = q * NetUnit(o)
             /\ NetUnit(o) >= 0 => c >= 0
<1> DEFINE n == p * q
           m == o.price * q
           c == n + (FeeOf(o, n) - RebateOf(o, n))
<1>1. o.price \in Nat /\ UnitNeed(o) = o.price + FeeOf(o, o.price)
  BY OrderTypes DEF UnitNeed
<1>2. n \in Nat /\ m \in Nat /\ n <= m
  BY <1>1, MulNat, MulMono
<1>3. /\ FeeOf(o, m) = q * FeeOf(o, o.price) /\ FeeOf(o, o.price) \in Nat
      /\ RebateOf(o, m) = q * RebateOf(o, o.price) /\ RebateOf(o, o.price) \in Nat
  BY FeesInProportion
<1>4. m + q * FeeOf(o, o.price) = q * UnitNeed(o)
  BY <1>1, <1>3
<1>5. o.kind = "passive" => n = m
  OBVIOUS
<1>5a. m + (q * FeeOf(o, o.price) - q * RebateOf(o, o.price)) = q * NetUnit(o)
  BY <1>1, <1>3 DEF NetUnit
<1>6. NetUnit(o) \in Int /\ (NetUnit(o) >= 0 => q * NetUnit(o) >= 0)
  <2>1. NetUnit(o) \in Int
    BY NeedOf
  <2>2. QED BY <2>1
<1> HIDE DEF n, m
<1>7. /\ FeeOf(o, n) \in Nat /\ RebateOf(o, n) \in Nat /\ (o.kind # "passive" => RebateOf(o, n) = 0)
      /\ FeeOf(o, n) <= FeeOf(o, m) /\ FeeOf(o, m) \in Nat
  BY <1>2, FeeBounds
<1>8. c \in Int /\ c <= n + FeeOf(o, n) /\ n + FeeOf(o, n) <= m + FeeOf(o, m)
  BY <1>2, <1>7
<1>9. c <= q * UnitNeed(o)
  BY <1>2, <1>3, <1>4, <1>7, <1>8
<1>10. o.kind = "passive" => c = q * NetUnit(o)
  BY <1>3, <1>5, <1>5a
<1>11. NetUnit(o) >= 0 => c >= 0
  BY <1>2, <1>6, <1>7, <1>10
<1>12. QED BY <1>8, <1>9, <1>10, <1>11 DEF n

-----------------------------------------------------------------------------
(* The fills of a simulation and the order they belong to                  *)

\* The quantities of these fills come to b at most: g[i] is what the fills
\* after the i-th come to.
FitsIn(s, b) == \E g \in [0..Len(s) -> Nat] :
                  g[0] <= b /\ \A i \in 1..Len(s) : g[i] + s[i][2] <= g[i - 1]

\* A maker's fills are at its price, a taker's purchases at its limit at most.
Priced(o, s) == \A i \in 1..Len(s) : /\ o.kind = "passive" => s[i][1] = o.price
                                     /\ o.side = "BUY" => s[i][1] <= o.price

Fill == Nat \X (Nat \ {0})

LEMMA FitsInEmpty == ASSUME NEW b \in Nat PROVE FitsIn(<<>>, b)
<1> DEFINE g == [i \in 0..0 |-> 0]
<1>1. Len(<<>>) = 0 /\ 1..Len(<<>>) = {}
  OBVIOUS
<1>2. g \in [0..Len(<<>>) -> Nat] /\ g[0] <= b
  BY <1>1
<1>3. QED BY <1>1, <1>2 DEF FitsIn

LEMMA FitsInAppend ==
  ASSUME NEW s \in Seq(Fill), NEW b \in Nat, FitsIn(s, b), NEW f \in Fill
  PROVE  FitsIn(Append(s, f), b + f[2])
<1>1. PICK g \in [0..Len(s) -> Nat] :
             g[0] <= b /\ \A i \in 1..Len(s) : g[i] + s[i][2] <= g[i - 1]
  BY DEF FitsIn
<1> DEFINE t == Append(s, f)
           h == [i \in 0..(Len(s) + 1) |-> IF i <= Len(s) THEN g[i] + f[2] ELSE 0]
<1>2. f[2] \in Nat /\ Len(s) \in Nat
  BY DEF Fill
<1>3. /\ Len(t) = Len(s) + 1 /\ t[Len(s) + 1] = f
      /\ \A i \in 1..Len(s) : t[i] = s[i] /\ s[i][2] \in Nat
  BY DEF Fill
<1>4. h \in [0..Len(t) -> Nat] /\ h[0] = g[0] + f[2]
  BY <1>2, <1>3
<1>5. ASSUME NEW i \in 1..Len(t) PROVE h[i] + t[i][2] <= h[i - 1]
  <2>1. CASE i = Len(s) + 1
    <3>0. i \in 0..(Len(s) + 1) /\ ~(i <= Len(s)) /\ i - 1 = Len(s) /\ Len(s) \in 0..(Len(s) + 1)
      BY <1>2, <2>1
    <3>1. h[i] = 0 /\ h[i - 1] = g[Len(s)] + f[2] /\ t[i] = f
      BY <1>2, <1>3, <2>1, <3>0
    <3>2. g[Len(s)] \in Nat
      BY <1>2
    <3> HIDE DEF h, t
    <3>3. QED BY <1>2, <3>1, <3>2
  <2>2. CASE i # Len(s) + 1
    <3>1. i \in 1..Len(s) /\ i \in 0..Len(s) /\ i - 1 \in 0..Len(s)
      BY <1>2, <1>3, <2>2
    <3>2. h[i] = g[i] + f[2] /\ h[i - 1] = g[i - 1] + f[2] /\ t[i] = s[i]
      BY <1>2, <1>3, <3>1
    <3>3. g[i] + s[i][2] <= g[i - 1] /\ g[i] \in Nat /\ g[i - 1] \in Nat /\ s[i][2] \in Nat
      BY <1>1, <1>3, <3>1
    <3> HIDE DEF h, t
    <3>4. QED BY <1>2, <3>2, <3>3
  <2>3. QED BY <2>1, <2>2
<1>6. h[0] <= b + f[2]
  <2>1. g[0] \in Nat
    BY <1>2
  <2>2. QED BY <1>1, <1>2, <1>4, <2>1
<1> HIDE DEF h, t
<1>7. FitsIn(t, b + f[2])
  BY <1>4, <1>5, <1>6 DEF FitsIn
<1>8. QED BY <1>7 DEF t

LEMMA FitsInTail ==
  ASSUME NEW s \in Seq(Fill), s # <<>>, NEW b \in Nat, FitsIn(s, b)
  PROVE  Head(s)[2] <= b /\ b - Head(s)[2] \in Nat /\ FitsIn(Tail(s), b - Head(s)[2])
<1>1. PICK g \in [0..Len(s) -> Nat] :
             g[0] <= b /\ \A i \in 1..Len(s) : g[i] + s[i][2] <= g[i - 1]
  BY DEF FitsIn
<1> DEFINE t == Tail(s)
           h == [i \in 0..(Len(s) - 1) |-> g[i + 1]]
           q == Head(s)[2]
<1>2. Len(s) \in Nat \ {0} /\ s[1] = Head(s) /\ q \in Nat
  BY DEF Fill
<1>3. Len(t) = Len(s) - 1 /\ \A i \in 1..Len(t) : t[i] = s[i + 1] /\ i + 1 \in 1..Len(s)
  OBVIOUS
<1>4. h \in [0..Len(t) -> Nat] /\ h[0] = g[1] /\ g[1] \in Nat /\ g[0] \in Nat
  BY <1>2, <1>3
<1>5. g[1] + q <= g[0]
  BY <1>1, <1>2
<1>6. q <= b /\ h[0] <= b - q
  BY <1>1, <1>2, <1>4, <1>5
<1>7. ASSUME NEW i \in 1..Len(t) PROVE h[i] + t[i][2] <= h[i - 1]
  <2>1. i \in 0..(Len(s) - 1) /\ i - 1 \in 0..(Len(s) - 1) /\ (i - 1) + 1 = i
    BY <1>2, <1>3
  <2>2. h[i] = g[i + 1] /\ h[i - 1] = g[i] /\ (i + 1) - 1 = i
    BY <2>1
  <2>3. g[i + 1] + s[i + 1][2] <= g[(i + 1) - 1]
    BY <1>1, <1>3
  <2>4. QED BY <1>3, <2>2, <2>3
<1> HIDE DEF h, t
<1>8. FitsIn(t, b - q)
  BY <1>4, <1>6, <1>7 DEF FitsIn
<1>9. QED BY <1>2, <1>6, <1>8 DEF t

LEMMA PricedKeeps ==
  ASSUME NEW o, NEW s \in Seq(Fill), Priced(o, s)
  PROVE  /\ s # <<>> => /\ Priced(o, Tail(s))
                        /\ o.kind = "passive" => Head(s)[1] = o.price
                        /\ o.side = "BUY" => Head(s)[1] <= o.price
         /\ \A f \in Fill : /\ o.kind = "passive" => f[1] = o.price
                            /\ o.side = "BUY" => f[1] <= o.price
                            => Priced(o, Append(s, f))
<1>1. ASSUME s # <<>>
      PROVE  /\ Priced(o, Tail(s))
             /\ o.kind = "passive" => Head(s)[1] = o.price
             /\ o.side = "BUY" => Head(s)[1] <= o.price
  <2>1. /\ 1 \in 1..Len(s) /\ s[1] = Head(s) /\ Len(Tail(s)) = Len(s) - 1
        /\ \A i \in 1..Len(Tail(s)) : Tail(s)[i] = s[i + 1] /\ i + 1 \in 1..Len(s)
    BY <1>1
  <2>2. QED BY <2>1 DEF Priced
<1>2. ASSUME NEW f \in Fill, o.kind = "passive" => f[1] = o.price,
             o.side = "BUY" => f[1] <= o.price
      PROVE  Priced(o, Append(s, f))
  <2>1. /\ Len(Append(s, f)) = Len(s) + 1 /\ Append(s, f)[Len(s) + 1] = f /\ Len(s) \in Nat
        /\ \A i \in 1..Len(s) : Append(s, f)[i] = s[i]
    OBVIOUS
  <2>2. ASSUME NEW i \in 1..(Len(s) + 1)
        PROVE  /\ o.kind = "passive" => Append(s, f)[i][1] = o.price
               /\ o.side = "BUY" => Append(s, f)[i][1] <= o.price
    <3>1. CASE i \in 1..Len(s)
      BY <2>1, <3>1 DEF Priced
    <3>2. CASE i \notin 1..Len(s)
      <4>1. i = Len(s) + 1
        BY <2>1, <3>2
      <4>2. QED BY <1>2, <2>1, <4>1
    <3>3. QED BY <3>1, <3>2
  <2>3. QED BY <2>1, <2>2 DEF Priced
<1>3. QED BY <1>1, <1>2

\* The simulated order is this one, it is filled to its size at most, and the
\* fills come to no more than what it counts as filled.
FillsMatch(o, s) ==
  /\ s.order.qty = o.qty /\ s.order.filled <= o.qty
  /\ FitsIn(s.fills, s.order.filled) /\ Priced(o, s.fills)

\* One more fill of the order, if there is room for it.
LEMMA FilledMatches ==
  ASSUME NEW o \in Orders, NEW s \in SimState, FillsMatch(o, s), NEW ts \in Nat,
         NEW p \in Nat, NEW n \in Nat \ {0}, n <= Remaining(s.order),
         o.kind = "passive" => p = o.price, o.side = "BUY" => p <= o.price,
         NEW t, t.order = Filled(s.order, n, ts), t.fills = Append(s.fills, <<p, n>>)
  PROVE  FillsMatch(o, t)
<1>1. /\ s.order \in OrderState /\ s.fills \in Seq(Fill)
      /\ s.order.qty \in Nat /\ s.order.filled \in Nat
  BY DEF SimState, OrderState, Fill
<1>2. t.order.qty = s.order.qty /\ t.order.filled = s.order.filled + n
  BY <1>1 DEF Filled, OrderState
<1>3. s.order.filled + n <= o.qty
  BY <1>1 DEF FillsMatch, Remaining
<1>4. <<p, n>> \in Fill /\ <<p, n>>[1] = p /\ <<p, n>>[2] = n
  BY DEF Fill
<1>5. FitsIn(t.fills, s.order.filled + n)
  <2>1. FitsIn(s.fills, s.order.filled)
    BY DEF FillsMatch
  <2>2. QED BY <1>1, <1>4, <2>1, FitsInAppend
<1>6. Priced(o, t.fills)
  <2>1. Priced(o, s.fills)
    BY DEF FillsMatch
  <2>2. QED BY <1>1, <1>4, <2>1, PricedKeeps
<1>7. QED BY <1>2, <1>3, <1>5, <1>6 DEF FillsMatch

\* The order starts without fills, and the simulations keep the match.
LEMMA AcceptedMatches ==
  ASSUME NEW o \in Orders, NEW s, s.order = Accepted(o.qty, Accept), s.fills = <<>>
  PROVE  FillsMatch(o, s)
<1>1. s.order.qty = o.qty /\ s.order.filled = 0 /\ o.qty \in Nat
  BY OrderTypes DEF Accepted, Moved, NewOrder, Sent, Acknowledged
<1>2. FitsIn(s.fills, 0)
  BY FitsInEmpty
<1>3. Priced(o, s.fills)
  BY DEF Priced
<1>4. QED BY <1>1, <1>2, <1>3 DEF FillsMatch

LEMMA TurnMatches ==
  ASSUME NEW o \in Orders, o.kind = "passive", NEW s \in SimState, FillsMatch(o, s),
         NEW e \in Event
  PROVE  FillsMatch(o, Turn(s, o.price, e))
<1> DEFINE left == Remaining(s.order)
           own  == OwnShare(s.ahead, left, e.qty)
           t    == Turn(s, o.price, e)
<1>1. /\ s.order \in OrderState /\ e.ts \in Nat /\ e.qty \in Nat /\ s.ahead \in Nat
      /\ o.price \in Nat
  BY OrderTypes DEF SimState, Event
<1>2. left \in Nat
  BY <1>1 DEF Remaining, OrderState
<1>3. own \in Int /\ own <= left
  <2> HIDE DEF left
  <2>1. QED BY <1>1, <1>2 DEF OwnShare, Least
<1>4. \/ t = s
      \/ t = [s EXCEPT !.order = Moved(s.order, CancelRequested, e.ts)]
      \/ t = [s EXCEPT !.order = Moved(s.order, Cancelled, e.ts)]
      \/ t.order = s.order /\ t.fills = s.fills
      \/ own > 0 /\ t.order = Filled(s.order, own, e.ts) /\ t.fills = Append(s.fills, <<o.price, own>>)
  <2> HIDE DEF own, left
  <2>1. e.kind = "trade" /\ s.order.status \notin Terminal =>
          t = [ order |-> IF own > 0 THEN Filled(s.order, own, e.ts) ELSE s.order,
                ahead |-> s.ahead - Least(s.ahead, e.qty),
                fills |-> IF own > 0 THEN Append(s.fills, <<o.price, own>>) ELSE s.fills ]
    BY DEF Turn, own, left
  <2>2. ~(e.kind = "trade" /\ s.order.status \notin Terminal) =>
          \/ t = s
          \/ t = [s EXCEPT !.order = Moved(s.order, CancelRequested, e.ts)]
          \/ t = [s EXCEPT !.order = Moved(s.order, Cancelled, e.ts)]
    BY DEF Turn
  <2> HIDE DEF t
  <2>3. QED BY <2>1, <2>2, <1>3
<1> HIDE DEF t, own, left
<1>5. ASSUME t.order = s.order, t.fills = s.fills
      PROVE  FillsMatch(o, t)
  BY <1>5 DEF FillsMatch
<1>6. ASSUME NEW ev \in {CancelRequested, Cancelled}, t = [s EXCEPT !.order = Moved(s.order, ev, e.ts)]
      PROVE  FillsMatch(o, t)
  <2>1. t.order = Moved(s.order, ev, e.ts) /\ t.fills = s.fills
    BY <1>6 DEF SimState
  <2>2. t.order.qty = s.order.qty /\ t.order.filled = s.order.filled
    BY <1>1, <2>1 DEF Moved, OrderState
  <2>3. QED BY <2>1, <2>2 DEF FillsMatch
<1>7. ASSUME own > 0, t.order = Filled(s.order, own, e.ts), t.fills = Append(s.fills, <<o.price, own>>)
      PROVE  FillsMatch(o, t)
  <2>1. own \in Nat \ {0} /\ own <= Remaining(s.order)
    BY <1>3, <1>7 DEF left
  <2>2. o.price <= o.price
    BY <1>1
  <2>3. QED BY <1>1, <1>7, <2>1, <2>2, FilledMatches
<1>8. FillsMatch(o, t)
  <2>1. CASE t = s
    BY <1>5, <2>1
  <2>2. QED BY <1>4, <1>5, <1>6, <1>7, <2>1
<1>9. QED BY <1>8 DEF t

LEMMA TakeMatches ==
  ASSUME NEW o \in Orders, o.kind # "passive", NEW s \in SimState, FillsMatch(o, s),
         NEW l \in Nat \X Nat, Executable(o.side, o.price, l)
  PROVE  FillsMatch(o, Take(s, l, Accept))
<1> DEFINE n == Least(Remaining(s.order), l[2])
           t == Take(s, l, Accept)
<1>1. s.order \in OrderState /\ Accept \in Nat /\ l[1] \in Nat /\ l[2] \in Nat
  BY DEF SimState, Accept
<1>2. Remaining(s.order) \in Nat
  BY <1>1 DEF Remaining, OrderState
<1>3. n \in Nat /\ n <= Remaining(s.order)
  BY <1>1, <1>2 DEF Least
<1>4. o.side = "BUY" => l[1] <= o.price
  BY DEF Executable
<1>5. CASE n = 0
  BY <1>5 DEF Take
<1>6. CASE n # 0
  <2>1. t = [s EXCEPT !.order = Filled(s.order, n, Accept), !.fills = Append(s.fills, <<l[1], n>>)]
    BY <1>6 DEF Take
  <2> HIDE DEF t, n
  <2>2. t.order = Filled(s.order, n, Accept) /\ t.fills = Append(s.fills, <<l[1], n>>)
    BY <2>1 DEF SimState
  <2>3. n \in Nat \ {0}
    BY <1>3, <1>6
  <2>4. FillsMatch(o, t)
    BY <1>1, <1>3, <1>4, <2>2, <2>3, FilledMatches
  <2>5. QED BY <2>4 DEF t
<1>7. QED BY <1>5, <1>6

LEMMA SweptMatches ==
  ASSUME NEW o \in Orders, NEW s \in SimState, FillsMatch(o, s)
  PROVE  FillsMatch(o, Swept(s, o.kind, Accept))
<1> DEFINE t == Swept(s, o.kind, Accept)
<1>1. s.order \in OrderState
  BY DEF SimState
<1>2. CASE s.order.status = "FILLED"
  BY <1>2 DEF Swept
<1>3. CASE s.order.status # "FILLED" /\ o.kind = "FOK"
  <2>1. t.order = Moved([s.order EXCEPT !.filled = 0], Expired, Accept) /\ t.fills = <<>>
    BY <1>3 DEF Swept, SimState
  <2>2. t.order.qty = s.order.qty /\ t.order.filled = 0
    BY <1>1, <2>1 DEF Moved, OrderState
  <2>3. FitsIn(t.fills, 0) /\ Priced(o, t.fills) /\ o.qty \in Nat
    BY <2>1, FitsInEmpty, OrderTypes DEF Priced
  <2>4. QED BY <2>2, <2>3 DEF FillsMatch
<1>4. CASE s.order.status # "FILLED" /\ o.kind # "FOK"
  <2>1. t.order = Moved(s.order, Expired, Accept) /\ t.fills = s.fills
    BY <1>4 DEF Swept, SimState
  <2>2. t.order.qty = s.order.qty /\ t.order.filled = s.order.filled
    BY <1>1, <2>1 DEF Moved, OrderState
  <2>3. QED BY <2>1, <2>2 DEF FillsMatch
<1>5. QED BY <1>2, <1>3, <1>4

-----------------------------------------------------------------------------
(* The reserves between the statements of the calls                        *)

\* The portfolio is what it was before the call, but for what this order took.
Untouched(o) ==
  before = << cash, IF o.side = "BUY" THEN reserved - rest[o] ELSE reserved, pnl, qty, cost,
              IF o.side = "BUY" THEN held ELSE [held EXCEPT ![o.key] = @ - rest[o]] >>

HoldInv ==
  /\ Accounts(rest, reserved, held)
  /\ reserved <= cash
  /\ \A k \in Keys : held[k] <= qty[k]
  /\ \A o \in Orders : rest[o] >= 0 /\ (rest[o] > 0 => fate[o] \in {"running", "resting"})

\* A sale at once reserves nothing: the shares are there when the gate asks.
Outright(o) == o.side = "SELL" /\ o.kind # "passive"

\* The call in progress.  Until fills are applied the order holds all it needs
\* and nothing else has changed; while they are, it holds what the fills to
\* come and the unfilled rest need, and no fill can be refused after the first.
CallHold(o) ==
  /\ fate[o] = "running"
  /\ stage # "apply" => /\ rest[o] = o.qty * UnitNeed(o) /\ Untouched(o)
                        /\ Outright(o) => o.qty <= qty[o.key] - held[o.key]
  /\ stage = "walk" => o.kind = "passive"
  /\ stage = "sweep" => o.kind # "passive"
  /\ stage \in {"walk", "sweep"} => FillsMatch(o, sim)
  /\ stage = "apply" =>
       /\ sim.order.qty = o.qty /\ sim.order.filled <= o.qty /\ Priced(o, sim.fills)
       /\ \E b \in Nat : /\ FitsIn(sim.fills, b)
                         /\ rest[o] >= (b + o.qty - sim.order.filled) * UnitNeed(o)
                         /\ Outright(o) => b <= qty[o.key] - held[o.key]
       /\ Untouched(o) \/ (o.side = "BUY" => NetUnit(o) >= 0)

CallInv == \A o \in Orders : running = o => CallHold(o)

IInv == TypeOK /\ HoldInv /\ CallInv

\* A call that raises in this step leaves the portfolio as it found it.
RaisedClean == \A o \in Orders : fate[o] # "raised" /\ fate'[o] = "raised" => portfolio' = before

\* What an order holds is in the reserve.
LEMMA RestInReserve ==
  ASSUME TypeOK, HoldInv, NEW o \in Orders
  PROVE  /\ rest[o] \in Nat
         /\ o.side = "BUY" => rest[o] <= reserved
         /\ o.side = "SELL" => rest[o] <= held[o.key]
<1>1. \A p \in Orders : rest[p] \in Nat
  BY DEF TypeOK, HoldInv
<1>2. o.key \in Keys /\ IsFiniteSet(Orders)
  BY TradingAssumption
<1>3. IsFiniteSet(Buys) /\ \A p \in Buys : rest[p] \in Nat
  BY <1>1, <1>2, FS_Subset DEF Buys
<1>4. IsFiniteSet(Sells(o.key)) /\ \A p \in Sells(o.key) : rest[p] \in Nat
  BY <1>1, <1>2, FS_Subset DEF Sells
<1>5. o \in Buys => rest[o] <= SumOf(rest, Buys)
  BY <1>3, SumNat
<1>6. o \in Sells(o.key) => rest[o] <= SumOf(rest, Sells(o.key))
  BY <1>4, SumNat
<1>7. reserved = SumOf(rest, Buys) /\ held[o.key] = SumOf(rest, Sells(o.key))
  BY <1>2 DEF HoldInv, Accounts
<1>8. QED BY <1>1, <1>5, <1>6, <1>7 DEF Buys, Sells

\* An order may change what it holds as far as the portfolio backs it.
LEMMA HoldKeeps ==
  ASSUME TypeOK, HoldInv, NEW o \in Orders, NEW n \in Nat, Hold(o, n),
         o.side = "BUY" => reserved + n - rest[o] <= cash,
         o.side = "SELL" => held[o.key] + n - rest[o] <= qty[o.key],
         n > 0 => fate'[o] \in {"running", "resting"},
         \A p \in Orders \ {o} : fate'[p] = fate[p]
  PROVE  HoldInv'
<1>0. o.key \in Keys /\ o.side \in {"BUY", "SELL"}
  BY OrderTypes
<1>1. /\ rest \in [Orders -> Int] /\ reserved \in Int /\ held \in [Keys -> Int]
      /\ cash \in Int /\ qty \in [Keys -> Int]
  BY DEF TypeOK
<1>2. /\ rest' = [rest EXCEPT ![o] = n] /\ cash' = cash /\ qty' = qty
      /\ reserved' = (IF o.side = "BUY" THEN reserved + n - rest[o] ELSE reserved)
      /\ held' = (IF o.side = "BUY" THEN held ELSE [held EXCEPT ![o.key] = @ + n - rest[o]])
  BY DEF Hold
<1>3. Accounts(rest, reserved, held) /\ n \in Int
  BY DEF HoldInv
<1>4. Accounts([rest EXCEPT ![o] = n], reserved', held')
  BY <1>1, <1>2, <1>3, AccountsMove
<1>5. Accounts(rest, reserved, held)'
  BY <1>2, <1>4 DEF Accounts
<1>6. (reserved <= cash)'
  BY <1>0, <1>1, <1>2 DEF HoldInv
<1>7. ASSUME NEW k \in Keys PROVE held'[k] <= qty'[k]
  BY <1>0, <1>1, <1>2 DEF HoldInv
<1>8. ASSUME NEW p \in Orders
      PROVE  rest'[p] >= 0 /\ (rest'[p] > 0 => fate'[p] \in {"running", "resting"})
  BY <1>1, <1>2 DEF HoldInv
<1>9. QED BY <1>5, <1>6, <1>7, <1>8 DEF HoldInv

LEMMA ReleaseKeeps ==
  ASSUME TypeOK, HoldInv, NEW o \in Orders, Hold(o, 0),
         \A p \in Orders \ {o} : fate'[p] = fate[p]
  PROVE  HoldInv'
<1>1. rest[o] \in Nat /\ o.key \in Keys
  BY RestInReserve, OrderTypes
<1>2. reserved \in Int /\ cash \in Int /\ held[o.key] \in Int /\ qty[o.key] \in Int
  BY <1>1 DEF TypeOK
<1>3. reserved + 0 - rest[o] <= cash /\ held[o.key] + 0 - rest[o] <= qty[o.key]
  BY <1>1, <1>2 DEF HoldInv
<1>4. 0 \in Nat
  OBVIOUS
<1>5. QED BY <1>3, <1>4, HoldKeeps

\* A call that ends leaves no call in progress.
LEMMA EndsCall ==
  ASSUME NEW o \in Orders, NEW f, Ends(o, f)
  PROVE  CallInv'
<1>1. None \notin Orders
  BY TradingAssumption
<1>2. QED BY <1>1 DEF Ends, CallInv

\* What raises before anything has changed gives back what it took.
LEMMA RaiseRestores ==
  ASSUME TypeOK, HoldInv, NEW o \in Orders, Raise(o)
  PROVE  HoldInv' /\ CallInv' /\ (Untouched(o) => RaisedClean)
<1>1. \A p \in Orders \ {o} : fate'[p] = fate[p]
  BY DEF Raise, Ends, TypeOK
<1>2. HoldInv' /\ CallInv'
  BY <1>1, ReleaseKeeps, EndsCall DEF Raise
<1>3. ASSUME Untouched(o) PROVE RaisedClean
  <2>1. o.key \in Keys
    BY OrderTypes
  <2>2. /\ rest[o] \in Int /\ reserved \in Int /\ held \in [Keys -> Int]
    BY DEF TypeOK
  <2>3. /\ cash' = cash /\ pnl' = pnl /\ qty' = qty /\ cost' = cost
        /\ reserved' = (IF o.side = "BUY" THEN reserved + 0 - rest[o] ELSE reserved)
        /\ held' = (IF o.side = "BUY" THEN held ELSE [held EXCEPT ![o.key] = @ + 0 - rest[o]])
    BY DEF Raise, Hold
  <2>4. reserved' = IF o.side = "BUY" THEN reserved - rest[o] ELSE reserved
    BY <2>2, <2>3
  <2>5. held' = IF o.side = "BUY" THEN held ELSE [held EXCEPT ![o.key] = @ - rest[o]]
    <3>1. held[o.key] + 0 - rest[o] = held[o.key] - rest[o]
      BY <2>1, <2>2
    <3>2. QED BY <2>3, <3>1
  <2>6. QED BY <1>3, <2>3, <2>4, <2>5 DEF Untouched, portfolio, RaisedClean
<1>4. QED BY <1>2, <1>3

\* The gate reserves no more than is available.
LEMMA BeginKeeps ==
  ASSUME IInv, NEW o \in Orders, Begin(o)
  PROVE  HoldInv' /\ CallInv' /\ RaisedClean
<1>0. TypeOK /\ HoldInv /\ running = None /\ fate[o] = "new" /\ before' = portfolio
  BY DEF IInv, Begin
<1>1. rest[o] = 0
  <2>1. rest[o] \in Int /\ rest[o] >= 0 /\ ~(rest[o] > 0)
    BY <1>0 DEF HoldInv, TypeOK
  <2>2. QED BY <2>1
<1>2. PICK fresh \in BOOLEAN :
       IF Allowed(o, fresh)
         THEN /\ Hold(o, Need(o))
              /\ fate' = [fate EXCEPT ![o] = "running"]
              /\ running' = o /\ stage' = "gated"
              /\ UNCHANGED simVars
         ELSE Ends(o, "refused") /\ UNCHANGED <<portfolio, rest>>
  BY DEF Begin
<1>3. CASE ~Allowed(o, fresh)
  <2>1. fate' = [fate EXCEPT ![o] = "refused"] /\ UNCHANGED <<portfolio, rest>> /\ Ends(o, "refused")
    BY <1>2, <1>3 DEF Ends
  <2>2. fate \in [Orders -> Fate]
    BY <1>0 DEF TypeOK
  <2>3. \A p \in Orders : rest'[p] > 0 => fate'[p] \in {"running", "resting"}
    BY <1>0, <1>1, <2>1, <2>2 DEF HoldInv
  <2>4. HoldInv'
    BY <1>0, <2>1, <2>3 DEF HoldInv, Accounts, portfolio
  <2>5. RaisedClean
    BY <2>1, <2>2 DEF RaisedClean
  <2>6. QED BY <2>1, <2>4, <2>5, EndsCall
<1>4. CASE Allowed(o, fresh)
  <2>0. /\ Hold(o, Need(o)) /\ fate' = [fate EXCEPT ![o] = "running"]
        /\ running' = o /\ stage' = "gated"
    BY <1>2, <1>4
  <2>1. /\ o.key \in Keys /\ o.side \in {"BUY", "SELL"} /\ o.kind \in {"passive", "IOC", "FOK"}
        /\ o.qty \in Nat \ {0}
    BY OrderTypes
  <2>2. /\ Need(o) = o.qty * UnitNeed(o) /\ UnitNeed(o) \in Nat
        /\ (o.side = "BUY" => UnitNeed(o) > 0)
    BY NeedOf
  <2>3. Need(o) \in Nat /\ (o.side = "BUY" => Need(o) > 0)
    <3>1. o.qty * UnitNeed(o) \in Nat /\ (UnitNeed(o) > 0 => o.qty * UnitNeed(o) > 0)
      BY <2>1, <2>2
    <3>2. QED BY <2>2, <3>1
  <2>4. /\ rest \in [Orders -> Int] /\ reserved \in Int /\ held \in [Keys -> Int]
        /\ cash \in Int /\ qty \in [Keys -> Int] /\ fate \in [Orders -> Fate]
    BY <1>0 DEF TypeOK
  <2>5. o.side = "BUY" => reserved + Need(o) - rest[o] <= cash
    BY <1>1, <1>4, <2>3, <2>4 DEF Allowed, Available
  <2>6. o.side = "SELL" => o.qty <= qty[o.key] - held[o.key]
    BY <1>4, <2>1, <2>4 DEF Allowed, Sellable
  <2>7. o.side = "SELL" => Need(o) <= o.qty
    BY <2>1 DEF Need
  <2>8. o.side = "SELL" => held[o.key] + Need(o) - rest[o] <= qty[o.key]
    BY <1>1, <2>1, <2>3, <2>4, <2>6, <2>7
  <2>9. fate'[o] = "running" /\ \A p \in Orders \ {o} : fate'[p] = fate[p]
    BY <2>0, <2>4
  <2>10. HoldInv'
    BY <1>0, <2>0, <2>3, <2>5, <2>8, <2>9, HoldKeeps
  <2>11. /\ cash' = cash /\ pnl' = pnl /\ qty' = qty /\ cost' = cost
         /\ rest'[o] = Need(o)
         /\ reserved' = (IF o.side = "BUY" THEN reserved + Need(o) - rest[o] ELSE reserved)
         /\ held' = (IF o.side = "BUY" THEN held ELSE [held EXCEPT ![o.key] = @ + Need(o) - rest[o]])
    BY <2>0, <2>4 DEF Hold
  <2>12. (IF o.side = "BUY" THEN reserved' - rest'[o] ELSE reserved') = reserved
    BY <1>1, <2>3, <2>4, <2>11
  <2>13. (IF o.side = "BUY" THEN held' ELSE [held' EXCEPT ![o.key] = @ - rest'[o]]) = held
    <3>1. CASE o.side = "BUY"
      BY <2>11, <3>1
    <3>2. CASE o.side # "BUY"
      <4> DEFINE h == [held EXCEPT ![o.key] = @ + Need(o) - rest[o]]
                 g == [h EXCEPT ![o.key] = @ - rest'[o]]
      <4>1. held' = h
        BY <2>11, <3>2
      <4>2. g \in [Keys -> Int] /\ held \in [Keys -> Int]
        BY <1>1, <2>1, <2>3, <2>4, <2>11
      <4>3. \A k \in Keys : g[k] = held[k]
        BY <1>1, <2>1, <2>3, <2>4, <2>11
      <4> HIDE DEF g
      <4>4. g = held
        BY <4>2, <4>3
      <4>5. QED BY <3>2, <4>1, <4>4 DEF g
    <3>3. QED BY <3>1, <3>2
  <2>14. Untouched(o)'
    BY <1>0, <2>11, <2>12, <2>13 DEF Untouched, portfolio
  <2>15. Outright(o) => o.qty <= qty'[o.key] - held'[o.key]
    <3>1. Outright(o) => Need(o) = 0
      BY <2>1 DEF Outright, Need
    <3>2. QED BY <1>1, <2>1, <2>4, <2>6, <2>11, <3>1 DEF Outright
  <2>16. CallHold(o)'
    BY <2>0, <2>2, <2>9, <2>11, <2>14, <2>15 DEF CallHold
  <2>17. CallInv'
    BY <2>0, <2>16 DEF CallInv
  <2>18. RaisedClean
    BY <2>9 DEF RaisedClean
  <2>19. QED BY <2>10, <2>17, <2>18
<1>5. QED BY <1>3, <1>4

\* A step of the simulation leaves the portfolio alone.
LEMMA QuietKeeps ==
  ASSUME IInv, NEW o \in Orders, running = o, stage # "apply", running' = o, stage' # "apply",
         UNCHANGED <<portfolio, rest, fate, before>>,
         stage' = "walk" => o.kind = "passive", stage' = "sweep" => o.kind # "passive",
         stage' \in {"walk", "sweep"} => FillsMatch(o, sim')
  PROVE  HoldInv' /\ CallInv' /\ RaisedClean
<1>1. HoldInv /\ CallHold(o)
  BY DEF IInv, CallInv
<1>2. HoldInv'
  BY <1>1 DEF HoldInv, Accounts, portfolio
<1>3. Untouched(o)'
  BY <1>1 DEF CallHold, Untouched, portfolio
<1>4. CallHold(o)'
  BY <1>1, <1>3 DEF CallHold, portfolio
<1>5. QED BY <1>2, <1>4 DEF CallInv, RaisedClean

LEMMA StartsKeep ==
  ASSUME IInv, NEW o \in Orders, StartWalk(o) \/ StartSweep(o)
  PROVE  HoldInv' /\ CallInv' /\ RaisedClean
<1>1. TypeOK /\ HoldInv /\ running = o /\ stage = "gated" /\ UNCHANGED before
  BY DEF IInv, StartWalk, StartSweep
<1>2. Untouched(o)
  BY <1>1 DEF IInv, CallInv, CallHold
<1>3. CASE Raise(o)
  BY <1>1, <1>2, <1>3, RaiseRestores
<1>4. CASE /\ StartWalk(o) /\ stage' = "walk" /\ UNCHANGED <<portfolio, fate, rest, running>>
           /\ sim'.order = Accepted(o.qty, Accept) /\ sim'.fills = <<>>
  <2>1. FillsMatch(o, sim')
    BY <1>4, AcceptedMatches
  <2>2. QED BY <1>1, <1>4, <2>1, QuietKeeps DEF StartWalk
<1>5. CASE /\ StartSweep(o) /\ stage' = "sweep" /\ UNCHANGED <<portfolio, fate, rest, running>>
           /\ sim'.order = Accepted(o.qty, Accept) /\ sim'.fills = <<>>
  <2>1. FillsMatch(o, sim')
    BY <1>5, AcceptedMatches
  <2>2. QED BY <1>1, <1>5, <2>1, QuietKeeps DEF StartSweep
<1>6. StartWalk(o) => Raise(o) \/ (/\ stage' = "walk" /\ UNCHANGED <<portfolio, fate, rest, running>>
           /\ sim'.order = Accepted(o.qty, Accept) /\ sim'.fills = <<>>)
  BY DEF StartWalk
<1>7. StartSweep(o) => Raise(o) \/ (/\ stage' = "sweep" /\ UNCHANGED <<portfolio, fate, rest, running>>
           /\ sim'.order = Accepted(o.qty, Accept) /\ sim'.fills = <<>>)
  BY DEF StartSweep, NoSim
<1>8. QED BY <1>3, <1>4, <1>5, <1>6, <1>7

LEMMA WalkKeeps ==
  ASSUME IInv, NEW o \in Orders, Walk(o)
  PROVE  HoldInv' /\ CallInv' /\ RaisedClean
<1>1. /\ running = o /\ stage = "walk" /\ sim' = Turn(sim, o.price, Head(input))
      /\ UNCHANGED <<portfolio, fate, rest, running, stage, before>>
  BY DEF Walk
<1>2. o.kind = "passive" /\ FillsMatch(o, sim)
  BY <1>1 DEF IInv, CallInv, CallHold
<1>3. sim \in SimState /\ Head(input) \in Event
  BY <1>1 DEF IInv, TypeOK, Walk
<1>4. FillsMatch(o, sim')
  BY <1>1, <1>2, <1>3, TurnMatches
<1>5. QED BY <1>1, <1>2, <1>4, QuietKeeps

LEMMA SweepKeeps ==
  ASSUME IInv, NEW o \in Orders, SweepLevel(o)
  PROVE  HoldInv' /\ CallInv' /\ RaisedClean
<1>1. /\ running = o /\ stage = "sweep"
      /\ sim' = IF Executable(o.side, o.price, Head(input)) THEN Take(sim, Head(input), Accept) ELSE sim
      /\ UNCHANGED <<portfolio, fate, rest, running, stage, before>>
  BY DEF SweepLevel
<1>2. o.kind # "passive" /\ FillsMatch(o, sim)
  BY <1>1 DEF IInv, CallInv, CallHold
<1>3. sim \in SimState /\ Head(input) \in Nat \X Nat
  BY <1>1 DEF IInv, TypeOK, SweepLevel
<1>4. FillsMatch(o, sim')
  BY <1>1, <1>2, <1>3, TakeMatches
<1>5. QED BY <1>1, <1>2, <1>4, QuietKeeps

LEMMA SummarizeKeeps ==
  ASSUME IInv, NEW o \in Orders, Summarize(o)
  PROVE  HoldInv' /\ CallInv' /\ RaisedClean
<1>1. /\ TypeOK /\ HoldInv /\ running = o /\ stage \in {"walk", "sweep"} /\ UNCHANGED before
      /\ CallHold(o) /\ sim \in SimState
  BY DEF IInv, Summarize, CallInv, TypeOK
<1>2. Untouched(o) /\ FillsMatch(o, sim)
  BY <1>1 DEF CallHold
<1>3. CASE Raise(o)
  BY <1>1, <1>2, <1>3, RaiseRestores
<1>4. CASE /\ sim' = IF stage = "sweep" THEN Swept(sim, o.kind, Accept) ELSE sim
           /\ stage' = "apply"
           /\ UNCHANGED <<portfolio, fate, rest, running, input, seen>>
  <2>1. HoldInv'
    BY <1>1, <1>4 DEF HoldInv, Accounts, portfolio
  <2>2. FillsMatch(o, sim')
    BY <1>1, <1>2, <1>4, SweptMatches
  <2>3. sim'.order.filled \in Nat
    <3>1. sim.order \in OrderState
      BY <1>1 DEF SimState
    <3>2. Swept(sim, o.kind, Accept).order.filled \in {0, sim.order.filled}
      BY <1>1, <3>1 DEF Swept, Moved, Expired, SimState, OrderState
    <3>3. sim.order.filled \in Nat
      BY <3>1 DEF OrderState
    <3>4. QED BY <1>4, <3>2, <3>3
  <2> DEFINE b == sim'.order.filled
  <2>4. Untouched(o)'
    BY <1>1, <1>2, <1>4 DEF Untouched, portfolio
  <2>5. /\ rest'[o] = o.qty * UnitNeed(o) /\ o.qty \in Nat
        /\ Outright(o) => o.qty <= qty'[o.key] - held'[o.key]
    BY <1>1, <1>4, OrderTypes DEF CallHold, portfolio
  <2>6. b <= o.qty /\ FitsIn(sim'.fills, b) /\ Priced(o, sim'.fills) /\ sim'.order.qty = o.qty
    BY <2>2 DEF FillsMatch
  <2>7. o.key \in Keys /\ qty'[o.key] \in Int /\ held'[o.key] \in Int /\ UnitNeed(o) \in Nat
    BY <1>1, <1>4, OrderTypes, NeedOf DEF TypeOK, portfolio
  <2>8. rest'[o] >= (b + o.qty - b) * UnitNeed(o) /\ (Outright(o) => b <= qty'[o.key] - held'[o.key])
    <3>1. b + o.qty - b = o.qty /\ o.qty * UnitNeed(o) \in Int
      BY <2>3, <2>5, <2>7
    <3> HIDE DEF b
    <3>2. QED BY <2>3, <2>5, <2>6, <2>7, <3>1 DEF b
  <2>9. CallHold(o)'
    <3>1. \E c \in Nat : /\ FitsIn(sim'.fills, c)
                         /\ rest'[o] >= (c + o.qty - sim'.order.filled) * UnitNeed(o)
                         /\ Outright(o) => c <= qty'[o.key] - held'[o.key]
      BY <2>3, <2>6, <2>8
    <3>2. fate'[o] = "running" /\ stage' = "apply"
      BY <1>1, <1>4 DEF CallHold
    <3> HIDE DEF b
    <3>3. sim'.order.qty = o.qty /\ sim'.order.filled <= o.qty /\ Priced(o, sim'.fills)
      BY <2>6 DEF b
    <3>4. QED BY <2>4, <3>1, <3>2, <3>3 DEF CallHold
  <2>10. CallInv'
    BY <1>1, <1>4, <2>9 DEF CallInv
  <2>11. RaisedClean
    BY <1>4 DEF RaisedClean
  <2>12. QED BY <2>1, <2>10, <2>11
<1>5. QED BY <1>3, <1>4 DEF Summarize

LEMMA FinishKeeps ==
  ASSUME IInv, NEW o \in Orders, Finish(o) \/ OwnerReleases(o)
  PROVE  HoldInv' /\ CallInv' /\ RaisedClean
<1>1. TypeOK /\ HoldInv /\ fate \in [Orders -> Fate] /\ None \notin Orders
  BY TradingAssumption DEF IInv, TypeOK
<1>2. CASE Finish(o) /\ sim.order.status \notin Terminal
  <2>1. Ends(o, "resting") /\ UNCHANGED <<portfolio, rest>> /\ fate' = [fate EXCEPT ![o] = "resting"]
    BY <1>2 DEF Finish, Ends
  <2>2. \A p \in Orders : rest'[p] > 0 => fate'[p] \in {"running", "resting"}
    BY <1>1, <2>1 DEF HoldInv
  <2>3. HoldInv'
    BY <1>1, <2>1, <2>2 DEF HoldInv, Accounts, portfolio
  <2>4. RaisedClean
    BY <1>1, <2>1 DEF RaisedClean
  <2>5. QED BY <2>1, <2>3, <2>4, EndsCall
<1>3. CASE Finish(o) /\ sim.order.status \in Terminal
  <2>1. Ends(o, "done") /\ Hold(o, 0) /\ fate' = [fate EXCEPT ![o] = "done"]
    BY <1>3 DEF Finish, Ends
  <2>2. \A p \in Orders \ {o} : fate'[p] = fate[p]
    BY <1>1, <2>1
  <2>3. HoldInv'
    BY <1>1, <2>1, <2>2, ReleaseKeeps
  <2>4. RaisedClean
    BY <1>1, <2>1 DEF RaisedClean
  <2>5. QED BY <2>1, <2>3, <2>4, EndsCall
<1>4. CASE OwnerReleases(o)
  <2>1. Hold(o, 0) /\ fate' = [fate EXCEPT ![o] = "done"] /\ running' = None
    BY <1>4 DEF OwnerReleases
  <2>2. \A p \in Orders \ {o} : fate'[p] = fate[p]
    BY <1>1, <2>1
  <2>3. HoldInv'
    BY <1>1, <2>1, <2>2, ReleaseKeeps
  <2>4. RaisedClean
    BY <1>1, <2>1 DEF RaisedClean
  <2>5. QED BY <1>1, <2>1, <2>3, <2>4 DEF CallInv
<1>5. QED BY <1>2, <1>3, <1>4

LEMMA LessTheFill ==
  ASSUME NEW b \in Nat, NEW q \in Nat, NEW z \in Nat, NEW f \in Nat, f <= z, q <= b
  PROVE  b - q + z - f \in Nat /\ b + z - f = b - q + z - f + q
  OBVIOUS

LEMMA ShareOfCost ==
  ASSUME NEW x \in Nat, NEW y \in Nat, NEW w \in Nat
  PROVE  x * w \in Nat /\ y * w \in Nat /\ (x + y) * w = x * w + y * w
  OBVIOUS

\* The fill about to be applied fits in what the order still holds for it.
LEMMA NextFits ==
  ASSUME IInv, NEW o \in Orders, Applying(o), sim.fills # <<>>,
         NEW p, NEW q, p = Head(sim.fills)[1], q = Head(sim.fills)[2]
  PROVE  /\ p \in Nat /\ q \in Nat \ {0} /\ Priced(o, Tail(sim.fills))
         /\ o.kind = "passive" => p = o.price
         /\ o.side = "BUY" => p <= o.price
         /\ \E b \in Nat :
              /\ q <= b /\ FitsIn(Tail(sim.fills), b - q) /\ b - q \in Nat
              /\ q * UnitNeed(o) <= rest[o]
              /\ (b - q + o.qty - sim.order.filled) * UnitNeed(o) <= rest[o] - q * UnitNeed(o)
              /\ Outright(o) => b <= qty[o.key] - held[o.key]
<1>1. CallHold(o) /\ stage = "apply" /\ sim \in SimState /\ TypeOK
  BY DEF IInv, CallInv, Applying, TypeOK
<1>2. sim.fills \in Seq(Fill) /\ sim.order.filled \in Nat /\ Head(sim.fills) \in Fill
  BY <1>1 DEF SimState, OrderState, Fill
<1>3. p \in Nat /\ q \in Nat \ {0}
  BY <1>2 DEF Fill
<1>4. Priced(o, sim.fills)
  BY <1>1 DEF CallHold
<1>5. /\ Priced(o, Tail(sim.fills))
      /\ o.kind = "passive" => p = o.price
      /\ o.side = "BUY" => p <= o.price
  BY <1>2, <1>4, PricedKeeps
<1>6. PICK b \in Nat : /\ FitsIn(sim.fills, b)
                       /\ rest[o] >= (b + o.qty - sim.order.filled) * UnitNeed(o)
                       /\ Outright(o) => b <= qty[o.key] - held[o.key]
  BY <1>1 DEF CallHold
<1>7. q <= b /\ b - q \in Nat /\ FitsIn(Tail(sim.fills), b - q)
  BY <1>2, <1>6, FitsInTail
<1>8. sim.order.filled <= o.qty /\ o.qty \in Nat /\ UnitNeed(o) \in Nat /\ rest[o] \in Int
  BY <1>1, OrderTypes, NeedOf DEF CallHold, TypeOK
<1> DEFINE u == UnitNeed(o)
           m == b - q + o.qty - sim.order.filled
<1>9. m \in Nat /\ b + o.qty - sim.order.filled = m + q /\ u \in Nat
  <2>1. q \in Nat /\ b \in Nat /\ o.qty \in Nat /\ sim.order.filled \in Nat
    BY <1>2, <1>3, <1>6, <1>8
  <2>2. sim.order.filled <= o.qty /\ q <= b
    BY <1>7, <1>8
  <2>3. b - q + o.qty - sim.order.filled \in Nat
    BY <2>1, <2>2, LessTheFill
  <2>4. b + o.qty - sim.order.filled = b - q + o.qty - sim.order.filled + q
    BY <2>1, <2>2, LessTheFill
  <2>5. u \in Nat
    BY <1>8
  <2>6. QED BY <2>3, <2>4, <2>5
<1>10. rest[o] >= (m + q) * u
  BY <1>6, <1>9
<1> HIDE DEF m, u
<1>11. m * u \in Nat /\ q * u \in Nat /\ (m + q) * u = m * u + q * u
  <2>1. m \in Nat /\ q \in Nat /\ u \in Nat
    BY <1>3, <1>9
  <2>2. QED BY <2>1, ShareOfCost
<1>12. m * u <= rest[o] - q * u /\ q * u <= rest[o]
  BY <1>8, <1>10, <1>11
<1>13. QED BY <1>3, <1>5, <1>6, <1>7, <1>12 DEF m, u

\* The call goes on with the fills that are left.
LEMMA FillsGoOn ==
  ASSUME IInv, NEW o \in Orders, Applying(o), sim.fills # <<>>, NextFill, NEW b \in Nat,
         FitsIn(Tail(sim.fills), b), Priced(o, Tail(sim.fills)),
         (b + o.qty - sim.order.filled) * UnitNeed(o) <= rest'[o],
         rest'[o] \in Int,
         Outright(o) => b <= qty'[o.key] - held'[o.key],
         o.side = "BUY" => NetUnit(o) >= 0
  PROVE  CallInv' /\ RaisedClean
<1>1. CallHold(o) /\ running = o /\ stage = "apply" /\ sim \in SimState
  BY DEF IInv, CallInv, Applying, TypeOK
<1>2. running' = o /\ stage' = "apply" /\ fate' = fate
  BY <1>1 DEF NextFill
<1>3. sim'.fills = Tail(sim.fills) /\ sim'.order = sim.order
  BY <1>1 DEF NextFill, SimState
<1>4. UnitNeed(o) \in Nat /\ o.qty \in Nat /\ sim.order.filled \in Nat
  BY <1>1, OrderTypes, NeedOf DEF SimState, OrderState
<1>5. rest'[o] >= (b + o.qty - sim'.order.filled) * UnitNeed(o)
  <2> DEFINE m == (b + o.qty - sim.order.filled) * UnitNeed(o)
  <2>1. m \in Int
    BY <1>4
  <2>2. m <= rest'[o]
    OBVIOUS
  <2> HIDE DEF m
  <2>3. rest'[o] >= m
    BY <2>1, <2>2
  <2>4. QED BY <1>3, <2>3 DEF m
<1>6. CallHold(o)'
  <2>1. \E c \in Nat : /\ FitsIn(sim'.fills, c)
                       /\ rest'[o] >= (c + o.qty - sim'.order.filled) * UnitNeed(o)
                       /\ Outright(o) => c <= qty'[o.key] - held'[o.key]
    BY <1>3, <1>5
  <2>2. /\ sim'.order.qty = o.qty /\ sim'.order.filled <= o.qty /\ Priced(o, sim'.fills)
        /\ fate'[o] = "running"
    BY <1>1, <1>2, <1>3 DEF CallHold
  <2>3. QED BY <1>2, <2>1, <2>2 DEF CallHold
<1>7. QED BY <1>2, <1>6 DEF CallInv, RaisedClean

LEMMA BuyFillKeeps ==
  ASSUME Rounding = {0}, IInv, NEW o \in Orders, BuyFill(o)
  PROVE  HoldInv' /\ CallInv' /\ RaisedClean
<1> DEFINE p == Head(sim.fills)[1]
           q == Head(sim.fills)[2]
           n == p * q
           c == n + (FeeOf(o, n) - RebateOf(o, n))
<1>1. TypeOK /\ HoldInv /\ Applying(o) /\ o.side = "BUY" /\ sim.fills # <<>> /\ o.key \in Keys
  BY OrderTypes DEF IInv, BuyFill
<1>2. /\ p \in Nat /\ q \in Nat \ {0} /\ Priced(o, Tail(sim.fills))
      /\ o.kind = "passive" => p = o.price
      /\ p <= o.price
      /\ \E b \in Nat :
              /\ q <= b /\ FitsIn(Tail(sim.fills), b - q) /\ b - q \in Nat
              /\ q * UnitNeed(o) <= rest[o]
              /\ (b - q + o.qty - sim.order.filled) * UnitNeed(o) <= rest[o] - q * UnitNeed(o)
              /\ Outright(o) => b <= qty[o.key] - held[o.key]
  BY <1>1, NextFits
<1>3. /\ c \in Int /\ c <= q * UnitNeed(o)
      /\ o.kind = "passive" => c = q * NetUnit(o)
      /\ NetUnit(o) >= 0 => c >= 0
  BY <1>1, <1>2, FillCost
<1>4. \/ /\ c > rest[o] \/ c < 0
         /\ Raise(o)
      \/ c > cash /\ c <= rest[o]
      \/ /\ c \in 0..rest[o] /\ c <= cash
         /\ cash' = cash - c /\ reserved' = reserved - Least(reserved, c)
         /\ qty' = [qty EXCEPT ![o.key] = @ + q]
         /\ rest' = [rest EXCEPT ![o] = @ - c]
         /\ NextFill /\ UNCHANGED held
  <2>1. PICK r \in Rounding :
       LET fee  == FeeOf(o, n) - RebateOf(o, n) + r
           used == Least(reserved, n + fee)
       IN  \/ /\ n + fee > rest[o] \/ n + fee < 0
              /\ Raise(o)
           \/ n + fee > cash /\ n + fee <= rest[o]
           \/ /\ n + fee \in 0..rest[o] /\ n + fee <= cash
              /\ cash' = cash - (n + fee) /\ reserved' = reserved - used
              /\ qty' = [qty EXCEPT ![o.key] = @ + q]
              /\ rest' = [rest EXCEPT ![o] = @ - (n + fee)]
              /\ NextFill /\ UNCHANGED held
    BY DEF BuyFill
  <2>2. FeeOf(o, n) \in Int /\ RebateOf(o, n) \in Int
    <3>1. n \in Nat
      BY <1>2, MulNat
    <3>2. QED BY <3>1, FeeBounds
  <2>3. FeeOf(o, n) - RebateOf(o, n) + r = FeeOf(o, n) - RebateOf(o, n)
    BY <2>2
  <2> HIDE DEF n, q
  <2>4. QED BY <2>1, <2>3
<1> HIDE DEF c, n
<1>5. PICK b \in Nat :
              /\ q <= b /\ FitsIn(Tail(sim.fills), b - q) /\ b - q \in Nat
              /\ q * UnitNeed(o) <= rest[o]
              /\ (b - q + o.qty - sim.order.filled) * UnitNeed(o) <= rest[o] - q * UnitNeed(o)
              /\ Outright(o) => b <= qty[o.key] - held[o.key]
  BY <1>2
<1>6. /\ rest[o] \in Nat /\ rest[o] <= reserved /\ reserved <= cash /\ q * UnitNeed(o) \in Nat
      /\ reserved \in Int /\ cash \in Int /\ NetUnit(o) \in Int
  <2>1. UnitNeed(o) \in Nat /\ NetUnit(o) \in Int
    BY NeedOf
  <2>2. q * UnitNeed(o) \in Nat
    BY <1>2, <2>1, MulNat
  <2>3. QED BY <1>1, <2>1, <2>2, RestInReserve DEF TypeOK, HoldInv
<1>7. c <= rest[o] /\ c <= reserved /\ c <= cash
  BY <1>3, <1>5, <1>6
<1>8. CASE Raise(o) /\ c < 0
  <2>1. ~(NetUnit(o) >= 0)
    BY <1>3, <1>8
  <2>2. Untouched(o)
    BY <1>1, <2>1 DEF IInv, CallInv, CallHold, Applying
  <2>3. QED BY <1>1, <1>8, <2>2, RaiseRestores
<1>9. CASE /\ c \in 0..rest[o] /\ c <= cash
           /\ cash' = cash - c /\ reserved' = reserved - Least(reserved, c)
           /\ qty' = [qty EXCEPT ![o.key] = @ + q]
           /\ rest' = [rest EXCEPT ![o] = @ - c]
           /\ NextFill /\ UNCHANGED held
  <2>0. Least(reserved, c) = c /\ c >= 0
    BY <1>3, <1>6, <1>7, <1>9 DEF Least
  <2>1. /\ rest \in [Orders -> Int] /\ held \in [Keys -> Int] /\ qty \in [Keys -> Int]
        /\ fate \in [Orders -> Fate] /\ Accounts(rest, reserved, held)
    BY <1>1 DEF TypeOK, HoldInv
  <2> DEFINE v == rest[o] - c
  <2>2. v \in Nat /\ v \in Int
    BY <1>3, <1>6, <1>7
  <2>3. reserved' = reserved + v - rest[o]
    BY <1>3, <1>6, <1>9, <2>0
  <2> HIDE DEF v
  <2>4. rest' = [rest EXCEPT ![o] = v]
    BY <1>9 DEF v
  <2>5. Accounts([rest EXCEPT ![o] = v], reserved', held')
    BY <1>1, <1>6, <1>9, <2>1, <2>2, <2>3, AccountsMove
  <2>6. Accounts(rest, reserved, held)'
    BY <2>4, <2>5 DEF Accounts
  <2>7. reserved' <= cash'
    BY <1>3, <1>6, <1>9, <2>0
  <2>8. ASSUME NEW k \in Keys PROVE held'[k] <= qty'[k]
    <3>1. held[k] <= qty[k] /\ held[k] \in Int /\ qty[k] \in Int
      BY <1>1, <2>1 DEF HoldInv
    <3>2. qty'[k] = IF k = o.key THEN qty[k] + q ELSE qty[k]
      BY <1>9, <2>1
    <3> HIDE DEF q
    <3>3. QED BY <1>2, <1>9, <3>1, <3>2
  <2>9. fate' = fate /\ fate[o] = "running"
    BY <1>1, <1>9 DEF NextFill, IInv, CallInv, CallHold, Applying
  <2>10. ASSUME NEW x \in Orders
         PROVE  rest'[x] >= 0 /\ (rest'[x] > 0 => fate'[x] \in {"running", "resting"})
    BY <1>1, <2>1, <2>2, <2>4, <2>9 DEF HoldInv
  <2>11. HoldInv'
    BY <2>6, <2>7, <2>8, <2>10 DEF HoldInv
  <2>12. NetUnit(o) >= 0
    <3>1. CASE o.kind = "passive"
      <4>1. q * NetUnit(o) >= 0
        BY <1>3, <2>0, <3>1
      <4> HIDE DEF q
      <4>2. QED BY <1>2, <1>6, <4>1
    <3>2. CASE o.kind # "passive"
      BY <3>2, NeedOf
    <3>3. QED BY <3>1, <3>2
  <2> DEFINE w == (b - q + o.qty - sim.order.filled) * UnitNeed(o)
  <2>13. w <= rest'[o] /\ rest'[o] \in Int
    <3>1. w <= rest[o] - q * UnitNeed(o)
      BY <1>5
    <3>2. rest'[o] = rest[o] - c
      BY <2>1, <2>4 DEF v
    <3>3. w \in Int
      <4>1. sim.order.filled \in Nat /\ o.qty \in Nat /\ UnitNeed(o) \in Nat
        BY <1>1, OrderTypes, NeedOf DEF TypeOK, SimState, OrderState
      <4>2. b - q + o.qty - sim.order.filled \in Int
        BY <1>5, <4>1
      <4>3. QED BY <4>1, <4>2
    <3> HIDE DEF w, q
    <3>4. QED BY <1>3, <1>6, <3>1, <3>2, <3>3
  <2>14. ~Outright(o)
    BY <1>1 DEF Outright
  <2>15. CallInv' /\ RaisedClean
    <3> DEFINE d == b - q
    <3>1. d \in Nat /\ FitsIn(Tail(sim.fills), d) /\ Priced(o, Tail(sim.fills))
      BY <1>2, <1>5
    <3>2. (d + o.qty - sim.order.filled) * UnitNeed(o) <= rest'[o]
      BY <2>13
    <3> HIDE DEF d
    <3>3. QED BY <1>1, <1>9, <2>12, <2>13, <2>14, <3>1, <3>2, FillsGoOn
  <2>16. QED BY <2>11, <2>15
<1>10. QED BY <1>3, <1>4, <1>6, <1>7, <1>8, <1>9

LEMMA SellFillKeeps ==
  ASSUME Rounding = {0}, IInv, NEW o \in Orders, SellFill(o)
  PROVE  HoldInv' /\ CallInv' /\ RaisedClean
<1> DEFINE p == Head(sim.fills)[1]
           q == Head(sim.fills)[2]
           n == p * q
           freed == IF o.kind = "passive" THEN q ELSE 0
<1>1. TypeOK /\ HoldInv /\ Applying(o) /\ o.side = "SELL" /\ sim.fills # <<>> /\ o.key \in Keys
  BY OrderTypes DEF IInv, SellFill
<1>2. /\ p \in Nat /\ q \in Nat \ {0} /\ Priced(o, Tail(sim.fills))
      /\ \E b \in Nat :
              /\ q <= b /\ FitsIn(Tail(sim.fills), b - q) /\ b - q \in Nat
              /\ q * UnitNeed(o) <= rest[o]
              /\ (b - q + o.qty - sim.order.filled) * UnitNeed(o) <= rest[o] - q * UnitNeed(o)
              /\ Outright(o) => b <= qty[o.key] - held[o.key]
  BY <1>1, NextFits
<1>3. q * UnitNeed(o) = freed /\ freed \in Nat
  BY <1>1, <1>2 DEF UnitNeed
<1>4. \/ /\ ~(q <= qty[o.key] /\ (o.kind = "passive" => q <= rest[o]))
         /\ Raise(o)
      \/ /\ \E r \in Rounding : Sold(o, q, n, FeeOf(o, n) - RebateOf(o, n) + r)
         /\ rest' = [rest EXCEPT ![o] = @ - freed]
         /\ held' = [held EXCEPT ![o.key] = @ - freed]
         /\ NextFill /\ UNCHANGED reserved
  BY DEF SellFill
<1>5. PICK b \in Nat :
              /\ q <= b /\ FitsIn(Tail(sim.fills), b - q) /\ b - q \in Nat
              /\ q * UnitNeed(o) <= rest[o]
              /\ (b - q + o.qty - sim.order.filled) * UnitNeed(o) <= rest[o] - q * UnitNeed(o)
              /\ Outright(o) => b <= qty[o.key] - held[o.key]
  BY <1>2
<1>6. n \in Nat /\ FeeOf(o, n) \in Nat /\ FeeOf(o, n) <= n /\ RebateOf(o, n) \in Nat
  <2>1. n \in Nat
    BY <1>2, MulNat
  <2> HIDE DEF n
  <2>2. QED BY <2>1, FeeBounds
<1> HIDE DEF n, q, freed
<1>7. /\ rest[o] \in Nat /\ rest[o] <= held[o.key] /\ held[o.key] <= qty[o.key]
      /\ held[o.key] \in Int /\ qty[o.key] \in Int
  BY <1>1, RestInReserve DEF TypeOK, HoldInv
<1>8. freed <= rest[o]
  BY <1>3, <1>5
<1>9. o.kind = "passive" => freed = q
  BY DEF freed
<1>10. o.kind # "passive" => freed = 0 /\ q <= qty[o.key] - held[o.key]
  BY <1>1, <1>2, <1>5, <1>7 DEF freed, Outright
<1>11. q <= qty[o.key] /\ (o.kind = "passive" => q <= rest[o])
       /\ held[o.key] - freed <= qty[o.key] - q
  BY <1>2, <1>3, <1>7, <1>8, <1>9, <1>10
<1>12. /\ \E r \in Rounding : Sold(o, q, n, FeeOf(o, n) - RebateOf(o, n) + r)
       /\ rest' = [rest EXCEPT ![o] = @ - freed]
       /\ held' = [held EXCEPT ![o.key] = @ - freed]
       /\ NextFill /\ UNCHANGED reserved
  BY <1>4, <1>11
<1>13. /\ cash' = cash + n - (FeeOf(o, n) - RebateOf(o, n) + 0)
       /\ qty' = [qty EXCEPT ![o.key] = @ - q]
  BY <1>12 DEF Sold
<1>14. /\ rest \in [Orders -> Int] /\ held \in [Keys -> Int] /\ qty \in [Keys -> Int]
       /\ cash \in Int /\ reserved \in Int /\ Accounts(rest, reserved, held) /\ reserved <= cash
  BY <1>1 DEF TypeOK, HoldInv
<1> DEFINE v == rest[o] - freed
<1>15. v \in Nat /\ v \in Int /\ held[o.key] - freed = held[o.key] + v - rest[o]
  BY <1>3, <1>7, <1>8
<1> HIDE DEF v
<1>16. rest' = [rest EXCEPT ![o] = v] /\ held' = [held EXCEPT ![o.key] = @ + v - rest[o]]
  BY <1>12, <1>15 DEF v
<1>17. Accounts([rest EXCEPT ![o] = v], reserved', held')
  BY <1>1, <1>12, <1>14, <1>15, <1>16, AccountsMove
<1>18. Accounts(rest, reserved, held)'
  BY <1>16, <1>17 DEF Accounts
<1>19. reserved' <= cash'
  BY <1>6, <1>12, <1>13, <1>14
<1>20. ASSUME NEW k \in Keys PROVE held'[k] <= qty'[k]
  <2>1. held'[k] = (IF k = o.key THEN held[k] - freed ELSE held[k])
        /\ qty'[k] = (IF k = o.key THEN qty[k] - q ELSE qty[k])
    BY <1>12, <1>13, <1>14
  <2>2. held[k] <= qty[k]
    BY <1>1 DEF HoldInv
  <2>3. QED BY <1>11, <2>1, <2>2
<1>21. fate' = fate /\ fate[o] = "running"
  BY <1>1, <1>12 DEF NextFill, IInv, CallInv, CallHold, Applying
<1>22. ASSUME NEW x \in Orders
       PROVE  rest'[x] >= 0 /\ (rest'[x] > 0 => fate'[x] \in {"running", "resting"})
  BY <1>1, <1>14, <1>15, <1>16, <1>21 DEF HoldInv
<1>23. HoldInv'
  BY <1>18, <1>19, <1>20, <1>22 DEF HoldInv
<1>24. CallInv' /\ RaisedClean
  <2> DEFINE d == b - q
  <2>1. d \in Nat /\ FitsIn(Tail(sim.fills), d) /\ Priced(o, Tail(sim.fills))
    BY <1>2, <1>5
  <2>2. rest'[o] = rest[o] - freed /\ rest'[o] \in Int
    BY <1>14, <1>15, <1>16 DEF v
  <2>3. (d + o.qty - sim.order.filled) * UnitNeed(o) <= rest'[o]
    BY <1>3, <1>5, <2>2
  <2>4. Outright(o) => d <= qty'[o.key] - held'[o.key]
    <3>1. Outright(o) => b <= qty[o.key] - held[o.key] /\ freed = 0
      BY <1>5, <1>10 DEF Outright
    <3>2. qty'[o.key] = qty[o.key] - q /\ held'[o.key] = held[o.key] - freed
      BY <1>1, <1>12, <1>13, <1>14
    <3>3. q \in Int /\ b \in Int
      BY <1>2
    <3>4. QED BY <1>7, <3>1, <3>2, <3>3
  <2>5. o.side # "BUY"
    BY <1>1
  <2> HIDE DEF d
  <2>6. QED BY <1>1, <1>12, <2>1, <2>2, <2>3, <2>4, <2>5, FillsGoOn
<1>25. QED BY <1>23, <1>24

-----------------------------------------------------------------------------
LEMMA StartHolds == Init => HoldInv /\ CallInv
<1> SUFFICES ASSUME Init PROVE HoldInv /\ CallInv
  OBVIOUS
<1>0. IsFiniteSet(Orders) /\ None \notin Orders /\ Cash \in Nat
      /\ \A k \in Keys : Shares[k].qty \in Nat
  BY TradingAssumption
<1>1. \A o \in Orders : rest[o] = 0
  BY DEF Init
<1>2. ASSUME NEW S \in SUBSET Orders PROVE SumOf(rest, S) = 0
  <2> DEFINE z == [x \in S |-> 0]
             B == {s \in SUBSET S : SumOf(rest, s) # 0}
  <2>1. ASSUME B # {} PROVE FALSE
    <3>1. B \in SUBSET SUBSET S /\ IsFiniteSet(S)
      BY <1>0, FS_Subset
    <3> HIDE DEF B
    <3>2. PICK m \in B : \A t \in B : t \subseteq m => t = m
      BY <2>1, <3>1, SmallestSubset
    <3> USE DEF B
    <3>3. m \in SUBSET S /\ SumOf(rest, m) # 0 /\ IsFiniteSet(m) /\ m # {}
      BY <3>1, <3>2, FS_Subset, SumEmpty
    <3>4. One(m) \in m
      BY <3>3, OneIn
    <3>5. m \ {One(m)} \in SUBSET S /\ m \ {One(m)} # m
      BY <3>3, <3>4
    <3>6. SumOf(rest, m \ {One(m)}) = 0
      BY <3>2, <3>5
    <3>7. SumOf(rest, m) = rest[One(m)] + SumOf(rest, m \ {One(m)})
      BY <3>3, SumOne
    <3>8. rest[One(m)] = 0
      BY <1>1, <3>3, <3>4
    <3>9. QED BY <3>3, <3>6, <3>7, <3>8
  <2>2. S \in SUBSET S
    OBVIOUS
  <2>3. QED BY <2>1, <2>2
<1>3. Accounts(rest, reserved, held)
  <2>1. SumOf(rest, Buys) = 0 /\ \A k \in Keys : SumOf(rest, Sells(k)) = 0
    BY <1>2 DEF Buys, Sells
  <2>2. QED BY <2>1 DEF Accounts, Init
<1>4. HoldInv
  <2>1. reserved <= cash
    BY <1>0 DEF Init
  <2>2. \A k \in Keys : held[k] <= qty[k]
    BY <1>0 DEF Init
  <2>3. QED BY <1>1, <1>3, <2>1, <2>2 DEF HoldInv
<1>5. CallInv
  BY <1>0 DEF Init, CallInv
<1>6. QED BY <1>4, <1>5

\* Every step keeps the accounts, and a call that raises has changed nothing.
LEMMA StepHolds ==
  ASSUME Rounding = {0}, IInv, [Next]_vars
  PROVE  HoldInv' /\ CallInv' /\ RaisedClean
<1>1. CASE UNCHANGED vars
  <2>1. UNCHANGED <<portfolio, fate, rest, running, stage, sim, before>>
    BY <1>1 DEF vars
  <2>2. HoldInv'
    BY <2>1 DEF IInv, HoldInv, Accounts, portfolio
  <2>3. CallInv'
    BY <2>1 DEF IInv, CallInv, CallHold, Untouched, portfolio
  <2>4. QED BY <2>1, <2>2, <2>3 DEF RaisedClean
<1>2. ASSUME NEW o \in Orders,
             \/ Begin(o) \/ StartWalk(o) \/ Walk(o) \/ StartSweep(o) \/ SweepLevel(o)
             \/ Summarize(o) \/ BuyFill(o) \/ SellFill(o) \/ Finish(o) \/ OwnerReleases(o)
      PROVE  HoldInv' /\ CallInv' /\ RaisedClean
  BY <1>2, BeginKeeps, StartsKeep, WalkKeeps, SweepKeeps, SummarizeKeeps, FinishKeeps,
     BuyFillKeeps, SellFillKeeps
<1>3. QED BY <1>1, <1>2 DEF Next

\* The sums of the model are those of the proof.
LEMMA InvImplies == IInv => HoldsAccounted
<1> SUFFICES ASSUME IInv PROVE HoldsAccounted
  OBVIOUS
<1>1. \A S : HeldBy(S) = SumOf(rest, S)
  BY DEF HeldBy, SumOf
<1>2. reserved = HeldBy({o \in Orders : o.side = "BUY"})
  BY <1>1 DEF IInv, HoldInv, Accounts, Buys
<1>3. \A k \in Keys : held[k] = HeldBy({o \in Orders : o.side = "SELL" /\ o.key = k})
  BY <1>1 DEF IInv, HoldInv, Accounts, Sells
<1>4. ASSUME stage = "apply", sim.fills = <<>>, running.kind = "passive"
      PROVE  rest[running] >= Remaining(sim.order) * (IF running.side = "BUY"
                                                  THEN running.price + FeeOf(running, running.price)
                                                  ELSE 1)
  <2>1. running \in Orders /\ sim \in SimState
    BY <1>4 DEF IInv, TypeOK
  <2>2. CallHold(running)
    BY <2>1 DEF IInv, CallInv
  <2> DEFINE u == UnitNeed(running)
             m == sim.order.filled
             z == running.qty
  <2>3. u = (IF running.side = "BUY" THEN running.price + FeeOf(running, running.price) ELSE 1)
    BY <1>4 DEF UnitNeed
  <2>4. PICK b \in Nat : rest[running] >= (b + z - m) * u
    BY <1>4, <2>2 DEF CallHold
  <2>5. m <= z /\ sim.order.qty = z /\ z \in Nat /\ m \in Nat /\ u \in Nat /\ rest[running] \in Int
    BY <1>4, <2>1, <2>2, OrderTypes, NeedOf DEF CallHold, SimState, OrderState, IInv, TypeOK
  <2>6. Remaining(sim.order) = z - m
    BY <2>5 DEF Remaining
  <2> HIDE DEF u, m, z
  <2>7. (z - m) * u <= (b + z - m) * u /\ (z - m) * u \in Int /\ (b + z - m) * u \in Int
    <3>1. z - m \in Nat /\ b + z - m \in Nat /\ z - m <= b + z - m
      BY <2>5
    <3>2. QED BY <2>5, <3>1, MulMono, MulNat
  <2>8. rest[running] >= (z - m) * u
    BY <2>4, <2>5, <2>7
  <2>9. QED BY <2>3, <2>6, <2>8
<1>5. QED BY <1>2, <1>3, <1>4 DEF IInv, HoldInv, HoldsAccounted

\* What is reserved is what orders hold, to the unit, on every path through
\* the calls, and it is backed, whatever the orders, timelines and books are,
\* as long as no product is rounded.
THEOREM HoldsAreAccounted ==
  ASSUME Rounding = {0}
  PROVE  Spec => []HoldsAccounted
<1>1. Init => HoldInv /\ CallInv
  BY StartHolds
<1>2. TypeOK /\ HoldInv /\ CallInv /\ [Next]_vars => HoldInv' /\ CallInv'
  BY StepHolds DEF IInv
<1>3. TypeOK /\ HoldInv /\ CallInv => HoldsAccounted
  BY InvImplies DEF IInv
<1> QED BY <1>1, <1>2, <1>3, TypesCorrect, PTL DEF Spec

\* No call raises between two of its fills: when it raises, the portfolio is
\* what it was before the call.
THEOREM RaisesChangeNothing ==
  ASSUME Rounding = {0}
  PROVE  Spec => AllOrNothing
<1>1. Init => HoldInv /\ CallInv
  BY StartHolds
<1>2. TypeOK /\ HoldInv /\ CallInv /\ [Next]_vars
        => HoldInv' /\ CallInv'
           /\ [\A o \in Orders : fate[o] # "raised" /\ fate'[o] = "raised" => portfolio' = before]_vars
  BY StepHolds DEF IInv, RaisedClean
<1> QED BY <1>1, <1>2, TypesCorrect, PTL DEF Spec, AllOrNothing

-----------------------------------------------------------------------------
(* The replay workers: types                                               *)

\* Among some numbers one is the least.
LEMMA LeastNumber ==
  ASSUME NEW T \in SUBSET Nat, NEW n \in T
  PROVE  \E m \in T : \A k \in T : m <= k
<1> DEFINE S == 1..n
           B == {t \in SUBSET S : \E i \in T : t = 1..i}
<1>1. IsFiniteSet(S) /\ B \in SUBSET SUBSET S /\ S \in B
  BY FS_Interval
<1>2. PICK m \in B : \A t \in B : t \subseteq m => t = m
  <2> HIDE DEF B, S
  <2>1. QED BY <1>1, SmallestSubset
<1>3. PICK i \in T : m = 1..i
  BY <1>2
<1>4. i <= n
  <2>1. m \subseteq 1..n
    BY <1>2
  <2>2. i \in Nat /\ n \in Nat
    OBVIOUS
  <2>3. i \in 1..i \/ i = 0
    BY <2>2
  <2>4. QED BY <1>3, <2>1, <2>2, <2>3
<1>5. ASSUME NEW k \in T PROVE i <= k
  <2>1. i \in Nat /\ k \in Nat /\ n \in Nat
    OBVIOUS
  <2>2. SUFFICES ASSUME k < i PROVE FALSE
    BY <2>1
  <2>3. 1..k \subseteq 1..i /\ 1..k \subseteq S /\ i \in 1..i /\ i \notin 1..k
    BY <1>4, <2>1, <2>2
  <2>4. 1..k \in B
    BY <2>3
  <2>5. 1..k = m
    <3> HIDE DEF B
    <3>1. QED BY <1>2, <1>3, <2>3, <2>4
  <2>6. QED BY <1>3, <2>3, <2>5
<1>6. QED BY <1>5

\* What a worker knows of its row and its calls at each statement.
InRow == {"call", "wait", "refused", "map", "artifact"}
StageInv ==
  \A w \in Workers :
    /\ where[w] \in InRow => at[w] # 0
    /\ where[w] \in {"call", "wait", "refused"} => Len(calls[w]) < Len(Roles)
    /\ hold[w] # 0 => where[w] = "wait"

\* The next row is an open one.
LEMMA MinOpen ==
  ASSUME NEW w \in Workers, ReplayTypes, Open(w) # {}
  PROVE  Min(Open(w)) \in 1..Len(Rows)
<1> DEFINE S == Open(w)
<1> DEFINE k == at[w]
<1>0. Len(Rows) \in Nat
  BY ReplayAssumption
<1>1. k \in Nat
  BY <1>0 DEF ReplayTypes
<1>11. S \subseteq k + 1..Len(Rows)
  BY DEF Open
<1> HIDE DEF k
<1>2. S \in SUBSET Nat /\ S \subseteq 1..Len(Rows)
  BY <1>0, <1>1, <1>11
<1> HIDE DEF S
<1>3. PICK n \in S : TRUE
  BY DEF S
<1>4. \E m \in S : \A j \in S : m <= j
  BY <1>2, <1>3, LeastNumber
<1>5. Min(S) \in S
  BY <1>4 DEF Min
<1>6. QED BY <1>2, <1>5 DEF S

\* An append keeps a file a file.
LEMMA AppendedType ==
  ASSUME NEW file \in Seq(Line), NEW line \in Line
  PROVE  /\ Appended(file, line) \in Seq(Line)
         /\ Unterminated(file) =>
              /\ file # <<>> /\ Len(Appended(file, line)) = Len(file)
              /\ \A i \in 1..Len(file) : i # Len(file) => Appended(file, line)[i] = file[i]
              /\ Appended(file, line)[Len(file)] =
                   [file[Len(file)] EXCEPT !.text = IF line.text = "whole" THEN "joined" ELSE "torn"]
         /\ ~Unterminated(file) => Appended(file, line) = Append(file, line)
<1>1. CASE Unterminated(file)
  <2> DEFINE n == Len(file)
             x == [file[n] EXCEPT !.text = IF line.text = "whole" THEN "joined" ELSE "torn"]
             t == [file EXCEPT ![n] = x]
  <2>1. file # <<>> /\ n \in 1..Len(file) /\ file[n] \in Line
    BY <1>1 DEF Unterminated
  <2>2. x \in Line
    BY <2>1 DEF Line
  <2>3. Appended(file, line) = t
    BY <1>1 DEF Appended
  <2> HIDE DEF x
  <2>4. t \in Seq(Line) /\ Len(t) = Len(file) /\ t[n] = x
    BY <2>1, <2>2
  <2>5. \A i \in 1..Len(file) : i # n => t[i] = file[i]
    BY <2>1
  <2>6. QED BY <1>1, <2>1, <2>3, <2>4, <2>5 DEF x
<1>2. CASE ~Unterminated(file)
  BY <1>2 DEF Appended
<1>3. QED BY <1>1, <1>2

\* What a worker writes of its row is a line.
LEMMA WrittenType ==
  ASSUME ReplayTypes, StageInv, NEW w \in Workers, where[w] \in InRow
  PROVE  Row(w) \in RowSet /\ Written(Row(w), Final(w)) \in Line
<1>1. at[w] \in 1..Len(Rows)
  BY ReplayAssumption DEF ReplayTypes, StageInv
<1>2. Row(w) \in RowSet
  BY <1>1 DEF Row, RowSet
<1>3. Final(w) \in BOOLEAN
  BY DEF Final
<1>4. QED BY <1>2, <1>3 DEF Written, Line

LEMMA CutTypes ==
  ASSUME ReplayTypes, StageInv, NEW w \in Workers
  PROVE  CutMap(w) \subseteq Seq(Line) /\ CutArtifacts(w) \subseteq Seq(Line)
<1>1. map[w] \in Seq(Line) /\ artifacts[w] \in Seq(Line)
  BY DEF ReplayTypes
<1>2. ASSUME NEW file \in Seq(Line), where[w] \in InRow
      PROVE  Cut(file, Written(Row(w), Final(w))) \subseteq Seq(Line)
  <2> DEFINE line == Written(Row(w), Final(w))
  <2>1. line \in Line
    BY <1>2, WrittenType
  <2>2. \A t \in {"whole", "open", "torn"} : [line EXCEPT !.text = t] \in Line
    BY <2>1 DEF Line
  <2> HIDE DEF line
  <2>3. \A t \in {"whole", "open", "torn"} : Appended(file, [line EXCEPT !.text = t]) \in Seq(Line)
    BY <2>2, AppendedType
  <2>4. QED BY <1>2, <2>3 DEF Cut, line
<1>3. CutMap(w) \subseteq Seq(Line)
  <2>1. CASE where[w] = "map"
    BY <1>1, <1>2, <2>1 DEF CutMap, InRow
  <2>2. CASE where[w] # "map"
    BY <1>1, <2>2 DEF CutMap
  <2>3. QED BY <2>1, <2>2
<1>4. CutArtifacts(w) \subseteq Seq(Line)
  <2>1. CASE where[w] = "artifact"
    BY <1>1, <1>2, <2>1 DEF CutArtifacts, InRow
  <2>2. CASE where[w] # "artifact"
    BY <1>1, <2>2 DEF CutArtifacts
  <2>3. QED BY <2>1, <2>2
<1>5. QED BY <1>3, <1>4

\* A role whose call is next has an upper bound.
LEMMA RoleCosts ==
  ASSUME ReplayTypes, StageInv, NEW w \in Workers, where[w] = "call"
  PROVE  MaxCost[Role(w)] \in Nat
<1>1. calls[w] \in Seq(Call) /\ Len(calls[w]) < Len(Roles)
  BY DEF ReplayTypes, StageInv
<1>2. Len(calls[w]) + 1 \in 1..Len(Roles)
  BY <1>1, ReplayAssumption
<1>3. Role(w) \in DOMAIN MaxCost
  BY <1>2, ReplayAssumption DEF Role
<1>4. QED BY <1>3, ReplayAssumption

LEMMA ReplayStarts == ReplayInit => ReplayTypes /\ StageInv
<1> SUFFICES ASSUME ReplayInit PROVE ReplayTypes /\ StageInv
  OBVIOUS
<1>1. 0 \in 0..Len(Rows) /\ 1 \in 1..MaxProcesses
  BY ReplayAssumption
<1>2. <<>> \in Seq(Line) /\ <<>> \in Seq(Call)
  OBVIOUS
<1>3. ReplayTypes
  BY <1>1, <1>2 DEF ReplayInit, ReplayTypes, Stage, NoCalls
<1>4. StageInv
  BY DEF ReplayInit, StageInv, InRow
<1>5. QED BY <1>3, <1>4

\* A record of a call is appended; nothing else is of the calls.
LEMMA RecordedTypes ==
  ASSUME ReplayTypes, NEW w \in Workers, NEW outcome \in Outcome, NEW overrun \in BOOLEAN,
         Recorded(w, outcome, overrun)
  PROVE  calls' \in [Workers -> Seq(Call)]
<1>1. [outcome |-> outcome, overrun |-> overrun] \in Call
  BY DEF Call
<1>2. calls \in [Workers -> Seq(Call)]
  BY DEF ReplayTypes
<1>3. Append(calls[w], [outcome |-> outcome, overrun |-> overrun]) \in Seq(Call)
  BY <1>1, <1>2
<1>4. QED BY <1>2, <1>3 DEF Recorded

LEMMA StepTypes == ReplayTypes /\ StageInv /\ [ReplayNext]_replayVars => ReplayTypes'
<1> SUFFICES ASSUME ReplayTypes, StageInv, [ReplayNext]_replayVars PROVE ReplayTypes'
  OBVIOUS
<1>1. CASE UNCHANGED replayVars
  BY <1>1 DEF ReplayTypes, replayVars, budget, memory, disk
<1>2. CASE NewProcess
  <2>1. process' \in 1..MaxProcesses
    BY <1>2, ReplayAssumption DEF NewProcess, ReplayTypes
  <2>2. 0 \in 0..Len(Rows) /\ <<>> \in Seq(Call)
    BY ReplayAssumption
  <2>3. artifacts' \in [Workers -> Seq(Line)] /\ map' \in [Workers -> Seq(Line)]
    <3>1. PICK a \in [Workers -> UNION {CutArtifacts(w) : w \in Workers}],
               m \in [Workers -> UNION {CutMap(w) : w \in Workers}] :
            /\ \A w \in Workers : a[w] \in CutArtifacts(w) /\ m[w] \in CutMap(w)
            /\ artifacts' = a /\ map' = m
      BY <1>2 DEF NewProcess
    <3>2. \A w \in Workers : a[w] \in Seq(Line) /\ m[w] \in Seq(Line)
      BY <3>1, CutTypes
    <3>3. a \in [Workers -> Seq(Line)] /\ m \in [Workers -> Seq(Line)]
      BY <3>2
    <3>4. QED BY <3>1, <3>3
  <2>4. binding' \in [Workers -> {"none", "torn", "written"}]
    BY <1>2 DEF NewProcess
  <2>5. where' \in [Workers -> Stage]
    BY <1>2 DEF NewProcess, Stage
  <2>6. QED BY <1>2, <2>1, <2>2, <2>3, <2>4, <2>5 DEF NewProcess, ReplayTypes, NoCalls
<1>3. ASSUME NEW w \in Workers, Start(w) PROVE ReplayTypes'
  <2>1. FinalRows(artifacts[w]) \subseteq RowSet
    <3>1. artifacts[w] \in Seq(Line)
      BY DEF ReplayTypes
    <3>2. \A i \in Readable(artifacts[w]) : artifacts[w][i] \in Line
      BY <3>1 DEF Readable
    <3>3. \A i \in Readable(artifacts[w]) : artifacts[w][i].row \in RowSet
      BY <3>2 DEF Line
    <3>4. QED BY <3>3 DEF FinalRows
  <2>2. ASSUME NEW r \in RowSet PROVE Failed(artifacts[w], r) \in Nat
    <3>1. artifacts[w] \in Seq(Line)
      BY DEF ReplayTypes
    <3>2. Len(artifacts[w]) \in Nat
      BY <3>1
    <3>3. IsFiniteSet(1..Len(artifacts[w]))
      BY <3>2, FS_Interval
    <3> DEFINE T == {i \in Readable(artifacts[w]) : artifacts[w][i].row = r /\ ~artifacts[w][i].final}
    <3>4. IsFiniteSet(T)
      <4>1. T \subseteq 1..Len(artifacts[w])
        BY DEF Readable
      <4>2. QED BY <3>3, <4>1, FS_Subset
    <3>5. Cardinality(T) \in Nat
      BY <3>4, FS_CardinalityType
    <3>6. QED BY <3>5 DEF Failed
  <2>3. where' \in [Workers -> Stage]
    BY <1>3 DEF Start, Go, ReplayTypes, Stage
  <2>4. done' \in [Workers -> SUBSET RowSet] /\ attempts' \in [Workers -> [RowSet -> Nat]]
    <3>1. CASE UNCHANGED <<done, attempts>>
      BY <3>1 DEF ReplayTypes
    <3>2. CASE /\ done' = [done EXCEPT ![w] = FinalRows(artifacts[w])]
               /\ attempts' = [attempts EXCEPT ![w] = [r \in RowSet |-> Failed(artifacts[w], r)]]
      BY <2>1, <2>2, <3>2 DEF ReplayTypes
    <3>3. QED BY <1>3, <3>1, <3>2 DEF Start
  <2>5. QED BY <1>3, <2>3, <2>4 DEF Start, ReplayTypes, budget, disk
<1>4. ASSUME NEW w \in Workers, Bind(w) PROVE ReplayTypes'
  <2>1. where' \in [Workers -> Stage]
    BY <1>4 DEF Bind, Go, ReplayTypes, Stage
  <2>2. binding' \in [Workers -> {"none", "torn", "written"}]
    BY <1>4 DEF Bind, ReplayTypes
  <2>3. QED BY <1>4, <2>1, <2>2 DEF Bind, ReplayTypes, budget
<1>5. ASSUME NEW w \in Workers, StartRow(w) PROVE ReplayTypes'
  <2>1. Min(Open(w)) \in 0..Len(Rows)
    BY <1>5, MinOpen, ReplayAssumption DEF StartRow
  <2>2. at' \in [Workers -> 0..Len(Rows)]
    BY <1>5, <2>1 DEF StartRow, ReplayTypes
  <2>3. where' \in [Workers -> Stage]
    BY <1>5 DEF StartRow, Go, ReplayTypes, Stage
  <2>4. calls' \in [Workers -> Seq(Call)]
    BY <1>5 DEF StartRow, NoCalls, ReplayTypes
  <2>5. QED BY <1>5, <2>2, <2>3, <2>4 DEF StartRow, ReplayTypes, budget, disk
<1>6. ASSUME NEW w \in Workers, StopRun(w) \/ Refuse(w) PROVE ReplayTypes'
  BY <1>6 DEF StopRun, Refuse, Go, Stage, ReplayTypes, budget, disk
<1>7. ASSUME NEW w \in Workers, Unsent(w) \/ RecordRefusal(w) PROVE ReplayTypes'
  <2>1. \E o \in Outcome, over \in BOOLEAN : Recorded(w, o, over)
    BY <1>7 DEF Unsent, RecordRefusal, Outcome, ReplayTypes
  <2>2. calls' \in [Workers -> Seq(Call)]
    BY <2>1, RecordedTypes
  <2>3. where' \in [Workers -> Stage]
    BY <1>7 DEF Unsent, RecordRefusal, Go, ReplayTypes, Stage
  <2>4. QED BY <1>7, <2>2, <2>3 DEF Unsent, RecordRefusal, ReplayTypes, budget, disk
<1>8. ASSUME NEW w \in Workers, Reserve(w) PROVE ReplayTypes'
  <2>1. MaxCost[Role(w)] \in Nat
    BY <1>8, RoleCosts DEF Reserve
  <2>2. where' \in [Workers -> Stage]
    BY <1>8 DEF Reserve, Go, ReplayTypes, Stage
  <2>3. hold' \in [Workers -> Nat] /\ heldUsd' \in Nat
    BY <1>8, <2>1 DEF Reserve, ReplayTypes
  <2>4. QED BY <1>8, <2>2, <2>3 DEF Reserve, ReplayTypes, disk
<1>9. ASSUME NEW w \in Workers, Answer(w) PROVE ReplayTypes'
  <2>0. PICK outcome \in {"OK", "TIMEOUT", "API_ERROR", "INVALID_OUTPUT"}, valid \in BOOLEAN,
             odd \in BOOLEAN :
          \E charge \in ChargesOf(w, outcome) :
            /\ Settle(w, charge, odd)
            /\ Recorded(w, outcome, charge > hold[w] \/ odd)
            /\ Go(w, IF valid /\ Len(calls[w]) + 1 < Len(Roles) THEN "call" ELSE "map")
    BY <1>9 DEF Answer
  <2>1. PICK charge \in ChargesOf(w, outcome) :
          /\ Settle(w, charge, odd)
          /\ Recorded(w, outcome, charge > hold[w] \/ odd)
          /\ Go(w, IF valid /\ Len(calls[w]) + 1 < Len(Roles) THEN "call" ELSE "map")
    BY <2>0
  <2>2. hold[w] \in Nat /\ charge \in Nat
    BY ReplayAssumption DEF ReplayTypes, ChargesOf
  <2>3. spent' \in Nat /\ heldUsd' \in Nat /\ excess' \in Nat /\ locked' \in BOOLEAN
    BY <2>1, <2>2 DEF Settle, Max0, ReplayTypes
  <2>4. hold' \in [Workers -> Nat]
    BY <2>1 DEF Settle, ReplayTypes
  <2>5. (charge > hold[w] \/ odd) \in BOOLEAN /\ outcome \in Outcome
    BY DEF Outcome
  <2>6. calls' \in [Workers -> Seq(Call)]
    BY <2>1, <2>5, RecordedTypes
  <2>7. where' \in [Workers -> Stage]
    BY <2>1 DEF Go, ReplayTypes, Stage
  <2>8. QED BY <1>9, <2>3, <2>4, <2>6, <2>7 DEF Answer, ReplayTypes, disk
<1>10. ASSUME NEW w \in Workers, WriteMap(w) PROVE ReplayTypes'
  <2>1. Written(Row(w), Final(w)) \in Line
    BY <1>10, WrittenType DEF WriteMap, InRow
  <2>2. map[w] \in Seq(Line)
    BY DEF ReplayTypes
  <2>3. Appended(map[w], Written(Row(w), Final(w))) \in Seq(Line)
    BY <2>1, <2>2, AppendedType
  <2>4. map' \in [Workers -> Seq(Line)]
    BY <1>10, <2>3 DEF WriteMap, ReplayTypes
  <2>5. where' \in [Workers -> Stage]
    BY <1>10 DEF WriteMap, Go, ReplayTypes, Stage
  <2>6. QED BY <1>10, <2>4, <2>5 DEF WriteMap, ReplayTypes, budget
<1>11. ASSUME NEW w \in Workers, WriteArtifact(w) PROVE ReplayTypes'
  <2>1. Written(Row(w), Final(w)) \in Line
    BY <1>11, WrittenType DEF WriteArtifact, InRow
  <2>2. artifacts[w] \in Seq(Line)
    BY DEF ReplayTypes
  <2>3. Appended(artifacts[w], Written(Row(w), Final(w))) \in Seq(Line)
    BY <2>1, <2>2, AppendedType
  <2>4. artifacts' \in [Workers -> Seq(Line)]
    BY <1>11, <2>3 DEF WriteArtifact, ReplayTypes
  <2>5. where' \in [Workers -> Stage]
    BY <1>11 DEF WriteArtifact, Go, ReplayTypes, Stage
  <2>6. attempted' \in [Workers -> Nat]
    BY <1>11 DEF WriteArtifact, ReplayTypes
  <2>7. QED BY <1>11, <2>4, <2>5, <2>6 DEF WriteArtifact, ReplayTypes, budget
<1>12. QED BY <1>1, <1>2, <1>3, <1>4, <1>5, <1>6, <1>7, <1>8, <1>9, <1>10, <1>11
       DEF ReplayNext, Step

\* Workers that hold nothing hold nothing together.
LEMMA NothingHeld ==
  ASSUME IsFiniteSet(Workers)
  PROVE  SumOf([v \in Workers |-> 0], Workers) = 0
<1> DEFINE f == [v \in Workers |-> 0]
           B == {s \in SUBSET Workers : SumOf(f, s) # 0}
<1>1. ASSUME B # {} PROVE FALSE
  <2>1. B \in SUBSET SUBSET Workers
    OBVIOUS
  <2>2. \A x \in Workers : f[x] = 0
    OBVIOUS
  <2> HIDE DEF B, f
  <2>3. PICK m \in B : \A t \in B : t \subseteq m => t = m
    BY <1>1, <2>1, SmallestSubset
  <2> USE DEF B
  <2>4. m \in SUBSET Workers /\ SumOf(f, m) # 0 /\ IsFiniteSet(m)
    BY <2>3, FS_Subset
  <2>5. m # {}
    BY <2>4, SumEmpty
  <2>6. One(m) \in m
    BY <2>5, OneIn
  <2>7. m \ {One(m)} \in SUBSET Workers /\ m \ {One(m)} # m
    BY <2>4, <2>6
  <2>8. SumOf(f, m \ {One(m)}) = 0
    BY <2>3, <2>7
  <2>9. SumOf(f, m) = f[One(m)] + SumOf(f, m \ {One(m)})
    BY <2>4, <2>5, SumOne
  <2>10. f[One(m)] = 0
    BY <2>2, <2>4, <2>6
  <2>11. QED BY <2>4, <2>8, <2>9, <2>10
<1>2. QED BY <1>1

\* The where of one worker changes, and what goes with it.
LEMMA StageStep == ReplayTypes /\ StageInv /\ [ReplayNext]_replayVars => StageInv'
<1> SUFFICES ASSUME ReplayTypes, StageInv, [ReplayNext]_replayVars PROVE StageInv'
  OBVIOUS
<1>0. \A v \in Workers : calls[v] \in Seq(Call)
  BY DEF ReplayTypes
<1>1. CASE UNCHANGED replayVars
  BY <1>1 DEF StageInv, replayVars, budget, memory
<1>2. CASE NewProcess
  BY <1>2 DEF NewProcess, StageInv, InRow
<1>3. ASSUME NEW w \in Workers, Start(w) \/ Bind(w) \/ StopRun(w) \/ WriteArtifact(w)
      PROVE  StageInv'
  <2>1. /\ where[w] \in {"start", "bind", "rows", "artifact"} /\ UNCHANGED <<at, calls, hold>>
        /\ \E s \in {"raised", "bind", "rows", "ended"} : where' = [where EXCEPT ![w] = s]
    BY <1>3 DEF Start, Bind, StopRun, WriteArtifact, Go
  <2>2. QED BY <2>1 DEF StageInv, InRow, ReplayTypes
<1>4. ASSUME NEW w \in Workers, StartRow(w) PROVE StageInv'
  <2>1. Min(Open(w)) # 0
    BY <1>4, MinOpen DEF StartRow
  <2>2. Len(NoCalls) = 0 /\ Len(Roles) > 0
    BY ReplayAssumption DEF NoCalls
  <2>3. /\ where[w] = "rows" /\ hold' = hold
        /\ at' = [at EXCEPT ![w] = Min(Open(w))] /\ calls' = [calls EXCEPT ![w] = NoCalls]
        /\ \E s \in {"call", "map"} : where' = [where EXCEPT ![w] = s]
    BY <1>4 DEF StartRow, Go
  <2>4. at'[w] # 0 /\ Len(calls'[w]) < Len(Roles) /\ where'[w] # "wait" /\ hold'[w] = 0
    BY <2>1, <2>2, <2>3 DEF StageInv, ReplayTypes
  <2>5. ASSUME NEW v \in Workers, v # w
        PROVE  at'[v] = at[v] /\ calls'[v] = calls[v] /\ hold'[v] = hold[v] /\ where'[v] = where[v]
    BY <2>3, <2>5 DEF ReplayTypes
  <2>6. QED BY <2>4, <2>5 DEF StageInv
<1>5. ASSUME NEW w \in Workers, Reserve(w) \/ Refuse(w) PROVE StageInv'
  <2>1. /\ where[w] = "call" /\ UNCHANGED <<at, calls>>
        /\ \/ hold' = hold /\ where' = [where EXCEPT ![w] = "refused"]
           \/ hold' = [hold EXCEPT ![w] = MaxCost[Role(w)]] /\ where' = [where EXCEPT ![w] = "wait"]
    BY <1>5 DEF Reserve, Refuse, Go
  <2>2. QED BY <2>1 DEF StageInv, InRow, ReplayTypes
<1>6. ASSUME NEW w \in Workers, Unsent(w) \/ RecordRefusal(w) \/ WriteMap(w) PROVE StageInv'
  <2>1. /\ where[w] \in {"call", "refused", "map"} /\ UNCHANGED <<at, hold>>
        /\ \E s \in {"map", "artifact"} : where' = [where EXCEPT ![w] = s]
        /\ \A v \in Workers : v # w => calls'[v] = calls[v]
    BY <1>6 DEF Unsent, RecordRefusal, WriteMap, Go, Recorded, ReplayTypes
  <2>2. QED BY <2>1 DEF StageInv, InRow, ReplayTypes
<1>7. ASSUME NEW w \in Workers, Answer(w) PROVE StageInv'
  <2>1. PICK s \in {"call", "map"}, x \in Call :
          /\ where[w] = "wait" /\ at' = at /\ hold' = [hold EXCEPT ![w] = 0]
          /\ where' = [where EXCEPT ![w] = s]
          /\ calls' = [calls EXCEPT ![w] = Append(@, x)]
          /\ s = "call" => Len(calls[w]) + 1 < Len(Roles)
    <3>1. PICK outcome \in {"OK", "TIMEOUT", "API_ERROR", "INVALID_OUTPUT"}, valid \in BOOLEAN,
               odd \in BOOLEAN :
            \E charge \in ChargesOf(w, outcome) :
              /\ Settle(w, charge, odd)
              /\ Recorded(w, outcome, charge > hold[w] \/ odd)
              /\ Go(w, IF valid /\ Len(calls[w]) + 1 < Len(Roles) THEN "call" ELSE "map")
      BY <1>7 DEF Answer
    <3>2. PICK charge \in ChargesOf(w, outcome) :
            /\ Settle(w, charge, odd)
            /\ Recorded(w, outcome, charge > hold[w] \/ odd)
            /\ Go(w, IF valid /\ Len(calls[w]) + 1 < Len(Roles) THEN "call" ELSE "map")
      BY <3>1
    <3>3. [outcome |-> outcome, overrun |-> charge > hold[w] \/ odd] \in Call
      BY DEF Call, Outcome
    <3>4. where[w] = "wait" /\ at' = at
      BY <1>7 DEF Answer
    <3>5. QED BY <3>2, <3>3, <3>4 DEF Settle, Recorded, Go
  <2>2. Len(Append(calls[w], x)) = Len(calls[w]) + 1
    BY <1>0
  <2>3. calls'[w] = Append(calls[w], x) /\ at'[w] # 0 /\ hold'[w] = 0 /\ where'[w] = s
    BY <2>1 DEF ReplayTypes, StageInv, InRow
  <2>4. ASSUME NEW v \in Workers, v # w
        PROVE  at'[v] = at[v] /\ calls'[v] = calls[v] /\ hold'[v] = hold[v] /\ where'[v] = where[v]
    BY <2>1, <2>4 DEF ReplayTypes
  <2>5. where'[w] = "call" => Len(calls'[w]) < Len(Roles)
    BY <2>1, <2>2, <2>3
  <2>6. where'[w] # "wait" /\ where'[w] # "refused"
    BY <2>1, <2>3
  <2>7. QED BY <2>3, <2>4, <2>5, <2>6 DEF StageInv
<1>8. QED BY <1>1, <1>2, <1>3, <1>4, <1>5, <1>6, <1>7 DEF ReplayNext, Step

-----------------------------------------------------------------------------
(* The replay workers: their budget                                        *)

BudgetInv ==
  /\ heldUsd = SumOf(hold, Workers)
  /\ spent + heldUsd <= Limit + excess
  /\ excess > 0 => locked

LEMMA BudgetStep ==
  ASSUME ReplayTypes, StageInv, BudgetInv, [ReplayNext]_replayVars
  PROVE  BudgetInv'
<1>1. IsFiniteSet(Workers) /\ \A v \in Workers : hold[v] \in Nat
  BY ReplayAssumption DEF ReplayTypes
<1>2. heldUsd = SumOf(hold, Workers) /\ heldUsd \in Nat /\ spent \in Nat /\ excess \in Nat
      /\ Limit \in Nat /\ spent + heldUsd <= Limit + excess /\ (excess > 0 => locked)
  BY ReplayAssumption DEF BudgetInv, ReplayTypes
<1>3. CASE UNCHANGED <<budget, hold>>
  BY <1>2, <1>3 DEF BudgetInv, budget
<1>4. ASSUME NEW w \in Workers, Reserve(w) PROVE BudgetInv'
  <2> DEFINE m == MaxCost[Role(w)]
             h == [hold EXCEPT ![w] = m]
  <2>1. m \in Nat
    BY <1>4, RoleCosts DEF Reserve
  <2>2. /\ where[w] = "call" /\ spent + heldUsd + m <= Limit
        /\ heldUsd' = heldUsd + m /\ hold' = h /\ UNCHANGED <<spent, locked, excess>>
    BY <1>4 DEF Reserve, Fits
  <2> HIDE DEF m
  <2>3. hold[w] = 0
    BY <2>2 DEF StageInv
  <2>4. h[w] = m /\ \A v \in Workers : v # w => h[v] = hold[v]
    BY DEF ReplayTypes
  <2> HIDE DEF h
  <2>5. SumOf(h, Workers) = SumOf(hold, Workers) + m - hold[w]
    <3>1. \A v \in Workers : hold[v] \in Int
      BY <1>1
    <3>2. h[w] \in Int
      BY <2>1, <2>4
    <3>3. QED BY <1>1, <2>4, <3>1, <3>2, SumUpdate
  <2>6. heldUsd' = SumOf(hold', Workers)
    BY <1>2, <2>1, <2>2, <2>3, <2>5
  <2>7. spent' + heldUsd' <= Limit + excess' /\ (excess' > 0 => locked')
    BY <1>2, <2>1, <2>2
  <2>8. QED BY <2>6, <2>7 DEF BudgetInv
<1>5. ASSUME NEW w \in Workers, Answer(w) PROVE BudgetInv'
  <2> DEFINE h == [hold EXCEPT ![w] = 0]
  <2>1. PICK charge \in Nat :
          /\ spent' = spent + charge /\ heldUsd' = Max0(heldUsd - hold[w]) /\ hold' = h
          /\ charge > hold[w] => locked'
          /\ locked => locked'
          /\ excess' = excess + Max0(charge - hold[w])
    <3>1. hold[w] \in Nat
      BY <1>1
    <3>2. PICK outcome \in {"OK", "TIMEOUT", "API_ERROR", "INVALID_OUTPUT"}, odd \in BOOLEAN :
            \E charge \in ChargesOf(w, outcome) : Settle(w, charge, odd)
      BY <1>5 DEF Answer
    <3>3. PICK charge \in ChargesOf(w, outcome) : Settle(w, charge, odd)
      BY <3>2
    <3>4. charge \in Nat
      BY <3>1, ReplayAssumption DEF ChargesOf
    <3>5. QED BY <3>3, <3>4 DEF Settle
  <2>2. h[w] = 0 /\ \A v \in Workers : v # w => h[v] = hold[v]
    BY DEF ReplayTypes
  <2> HIDE DEF h
  <2>3. SumOf(h, Workers) = SumOf(hold, Workers) - hold[w]
    <3>1. \A v \in Workers : hold[v] \in Int
      BY <1>1
    <3>2. h[w] \in Int
      BY <2>2
    <3>3. SumOf(h, Workers) = SumOf(hold, Workers) + h[w] - hold[w]
      BY <1>1, <2>2, <3>1, <3>2, SumUpdate
    <3>4. hold[w] \in Nat
      BY <1>1
    <3>5. QED BY <1>2, <2>2, <3>3, <3>4
  <2>4. hold[w] <= heldUsd /\ hold[w] \in Nat
    BY <1>1, <1>2, SumNat
  <2>5. heldUsd' = heldUsd - hold[w]
    BY <1>2, <2>1, <2>4 DEF Max0
  <2>6. heldUsd' = SumOf(hold', Workers)
    BY <1>2, <2>1, <2>3, <2>5
  <2>7. spent' + heldUsd' <= Limit + excess'
    <3>1. CASE charge > hold[w]
      <4>1. excess' = excess + (charge - hold[w])
        BY <2>1, <2>4, <3>1 DEF Max0
      <4>2. QED BY <1>2, <2>1, <2>4, <2>5, <4>1
    <3>2. CASE ~(charge > hold[w])
      <4>1. excess' = excess
        BY <1>2, <2>1, <2>4, <3>2 DEF Max0
      <4>2. QED BY <1>2, <2>1, <2>4, <2>5, <3>2, <4>1
    <3>3. QED BY <3>1, <3>2
  <2>8. excess' > 0 => locked'
    BY <1>2, <2>1, <2>4 DEF Max0
  <2>9. QED BY <2>6, <2>7, <2>8 DEF BudgetInv
<1>6. CASE NewProcess
  <2>1. /\ spent' = 0 /\ heldUsd' = 0 /\ locked' = FALSE /\ excess' = 0
        /\ hold' = [v \in Workers |-> 0]
    BY <1>6 DEF NewProcess
  <2>2. SumOf(hold', Workers) = 0
    BY <1>1, <2>1, NothingHeld
  <2>3. QED BY <1>2, <2>1, <2>2 DEF BudgetInv
<1>7. ASSUME NEW w \in Workers, Step(w), ~Reserve(w), ~Answer(w) PROVE UNCHANGED <<budget, hold>>
  BY <1>7 DEF Step, Start, Bind, StartRow, StopRun, Unsent, Refuse, RecordRefusal, WriteMap,
              WriteArtifact
<1>8. UNCHANGED replayVars => UNCHANGED <<budget, hold>>
  BY DEF replayVars, memory
<1>9. QED BY <1>3, <1>4, <1>5, <1>6, <1>7, <1>8 DEF ReplayNext

-----------------------------------------------------------------------------
(* The replay workers: the map of their rows                               *)

Wholly(file, r) == \E j \in 1..Len(file) : file[j].text = "whole" /\ file[j].row = r
JoinedIn(file) == {j \in 1..Len(file) : file[j].text = "joined"}
LostIn(file, m) == {i \in Readable(file) : ~Wholly(m, file[i].row)}

\* An artifact that is about to be written while its entry was lost.
Owed(w) == where[w] = "artifact" /\ ~Wholly(map[w], Row(w))

\* Every artifact without an entry on a line of its own, written or about to
\* be, has a line of the map on which two entries ran into one another.
MapInv ==
  \A w \in Workers :
    Cardinality(LostIn(artifacts[w], map[w])) + (IF Owed(w) THEN 1 ELSE 0)
      <= Cardinality(JoinedIn(map[w]))

LEMMA FiniteParts ==
  ASSUME NEW file \in Seq(Line), NEW m
  PROVE  /\ IsFiniteSet(JoinedIn(file)) /\ Cardinality(JoinedIn(file)) \in Nat
         /\ IsFiniteSet(LostIn(file, m)) /\ Cardinality(LostIn(file, m)) \in Nat
<1>1. Len(file) \in Nat /\ IsFiniteSet(1..Len(file))
  BY FS_Interval
<1>2. JoinedIn(file) \subseteq 1..Len(file) /\ LostIn(file, m) \subseteq 1..Len(file)
  BY DEF JoinedIn, LostIn, Readable
<1>3. IsFiniteSet(JoinedIn(file)) /\ IsFiniteSet(LostIn(file, m))
  BY <1>1, <1>2, FS_Subset
<1>4. QED BY <1>3, FS_CardinalityType

\* An entry is appended to the map: no line of its own is lost, and if it gets
\* none, it is joined to what was there.
LEMMA MapGrows ==
  ASSUME NEW m \in Seq(Line), NEW line \in Line, NEW file \in Seq(Line)
  PROVE  /\ \A r : Wholly(m, r) => Wholly(Appended(m, line), r)
         /\ Cardinality(LostIn(file, Appended(m, line))) <= Cardinality(LostIn(file, m))
         /\ Cardinality(JoinedIn(m)) <= Cardinality(JoinedIn(Appended(m, line)))
         /\ line.text = "whole" /\ ~Wholly(Appended(m, line), line.row)
              => Cardinality(JoinedIn(m)) + 1 <= Cardinality(JoinedIn(Appended(m, line)))
<1> DEFINE t == Appended(m, line)
           n == Len(m)
<1>1. /\ t \in Seq(Line)
      /\ Unterminated(m) =>
           /\ m # <<>> /\ Len(t) = n
           /\ \A i \in 1..n : i # n => t[i] = m[i]
           /\ t[n] = [m[n] EXCEPT !.text = IF line.text = "whole" THEN "joined" ELSE "torn"]
      /\ ~Unterminated(m) => t = Append(m, line)
  BY AppendedType
<1>2. n \in Nat /\ (m # <<>> => n \in 1..n)
  OBVIOUS
<1> HIDE DEF t, n
<1>3. ASSUME NEW i \in 1..n, m[i].text \in {"whole", "joined"}
      PROVE  i \in 1..Len(t) /\ t[i] = m[i]
  <2>1. CASE Unterminated(m)
    <3>1. m[n].text \in {"open", "torn"}
      BY <2>1 DEF Unterminated, n
    <3>2. i # n
      BY <1>3, <3>1
    <3>3. QED BY <1>1, <2>1, <3>2
  <2>2. CASE ~Unterminated(m)
    <3>1. t = Append(m, line)
      BY <1>1, <2>2
    <3>2. Len(t) = n + 1 /\ t[i] = m[i]
      BY <3>1 DEF n
    <3>3. QED BY <1>2, <3>2
  <2>3. QED BY <2>1, <2>2
<1>4. \A r : Wholly(m, r) => Wholly(t, r)
  BY <1>3 DEF Wholly, n
<1>5. LostIn(file, t) \subseteq LostIn(file, m)
  BY <1>4 DEF LostIn
<1>6. JoinedIn(m) \subseteq JoinedIn(t)
  BY <1>3 DEF JoinedIn, n
<1>7. /\ IsFiniteSet(JoinedIn(t)) /\ IsFiniteSet(LostIn(file, m)) /\ IsFiniteSet(JoinedIn(m))
      /\ Cardinality(JoinedIn(t)) \in Nat /\ Cardinality(JoinedIn(m)) \in Nat
  BY <1>1, FiniteParts
<1>8. /\ Cardinality(LostIn(file, t)) <= Cardinality(LostIn(file, m))
      /\ Cardinality(JoinedIn(m)) <= Cardinality(JoinedIn(t))
  BY <1>5, <1>6, <1>7, FS_Subset
<1>9. ASSUME line.text = "whole", ~Wholly(t, line.row)
      PROVE  Cardinality(JoinedIn(m)) + 1 <= Cardinality(JoinedIn(t))
  <2>1. Unterminated(m)
    <3>1. SUFFICES ASSUME ~Unterminated(m) PROVE FALSE
      OBVIOUS
    <3>2. t = Append(m, line)
      BY <1>1, <3>1
    <3>3. Len(t) = n + 1 /\ t[n + 1] = line
      BY <3>2 DEF n
    <3>4. n + 1 \in 1..Len(t)
      BY <1>2, <3>3
    <3>5. QED BY <1>9, <3>3, <3>4 DEF Wholly
  <2>2. n \in 1..n /\ m[n].text \in {"open", "torn"} /\ m[n] \in Line
    BY <1>2, <2>1 DEF Unterminated, n
  <2>3. n \in 1..Len(t) /\ t[n].text = "joined"
    BY <1>1, <1>9, <2>1, <2>2 DEF Line
  <2>4. n \in JoinedIn(t) /\ n \notin JoinedIn(m)
    BY <2>2, <2>3 DEF JoinedIn
  <2>5. JoinedIn(m) \subseteq JoinedIn(t) \ {n}
    BY <1>6, <2>4
  <2>6. IsFiniteSet(JoinedIn(t) \ {n}) /\ Cardinality(JoinedIn(t) \ {n}) = Cardinality(JoinedIn(t)) - 1
    BY <1>7, <2>4, FS_RemoveElement
  <2>7. Cardinality(JoinedIn(m)) <= Cardinality(JoinedIn(t) \ {n})
    BY <2>5, <2>6, FS_Subset
  <2>8. QED BY <1>7, <2>6, <2>7
<1>10. QED BY <1>4, <1>8, <1>9 DEF t

\* An artifact is appended: only it can be without an entry.
LEMMA ArtifactsGrow ==
  ASSUME NEW file \in Seq(Line), NEW line \in Line, NEW m
  PROVE  Cardinality(LostIn(Appended(file, line), m)) <=
           Cardinality(LostIn(file, m)) + (IF Wholly(m, line.row) THEN 0 ELSE 1)
<1> DEFINE t == Appended(file, line)
           n == Len(file)
<1>1. /\ t \in Seq(Line)
      /\ Unterminated(file) =>
           /\ file # <<>> /\ Len(t) = n
           /\ \A i \in 1..n : i # n => t[i] = file[i]
           /\ t[n] = [file[n] EXCEPT !.text = IF line.text = "whole" THEN "joined" ELSE "torn"]
      /\ ~Unterminated(file) => t = Append(file, line)
  BY AppendedType
<1>2. n \in Nat /\ (file # <<>> => n \in 1..n) /\ \A i \in 1..n : file[i] \in Line
  OBVIOUS
<1> HIDE DEF t, n
<1>3. LostIn(t, m) \subseteq LostIn(file, m) \cup (IF Wholly(m, line.row) THEN {} ELSE {n + 1})
  <2> SUFFICES ASSUME NEW i \in LostIn(t, m)
               PROVE  i \in LostIn(file, m) \/ (i = n + 1 /\ ~Wholly(m, line.row))
    OBVIOUS
  <2>1. i \in 1..Len(t) /\ t[i].text \in {"whole", "open"} /\ ~Wholly(m, t[i].row)
    BY DEF LostIn, Readable
  <2>2. CASE Unterminated(file)
    <3>1. n \in 1..n /\ file[n] \in Line
      BY <1>1, <1>2, <2>2
    <3>2. t[n].text \in {"joined", "torn"}
      BY <1>1, <2>2, <3>1 DEF Line
    <3>3. i \in 1..n /\ i # n
      BY <1>1, <2>1, <2>2, <3>2
    <3>4. t[i] = file[i]
      BY <1>1, <2>2, <3>3
    <3>5. QED BY <2>1, <3>3, <3>4 DEF LostIn, Readable, n
  <2>3. CASE ~Unterminated(file)
    <3>1. t = Append(file, line)
      BY <1>1, <2>3
    <3>2. Len(t) = n + 1 /\ t[n + 1] = line /\ \A j \in 1..n : t[j] = file[j]
      BY <3>1 DEF n
    <3>3. CASE i = n + 1
      BY <2>1, <3>2, <3>3
    <3>4. CASE i # n + 1
      <4>1. i \in 1..n
        BY <1>2, <2>1, <3>2, <3>4
      <4>2. QED BY <2>1, <3>2, <4>1 DEF LostIn, Readable, n
    <3>5. QED BY <3>3, <3>4
  <2>4. QED BY <2>2, <2>3
<1>4. /\ IsFiniteSet(LostIn(t, m)) /\ Cardinality(LostIn(t, m)) \in Nat
      /\ IsFiniteSet(LostIn(file, m)) /\ Cardinality(LostIn(file, m)) \in Nat
  BY <1>1, FiniteParts
<1>5. CASE Wholly(m, line.row)
  <2>1. LostIn(t, m) \subseteq LostIn(file, m)
    BY <1>3, <1>5
  <2>2. Cardinality(LostIn(t, m)) <= Cardinality(LostIn(file, m))
    BY <1>4, <2>1, FS_Subset
  <2>3. QED BY <1>4, <1>5, <2>2 DEF t
<1>6. CASE ~Wholly(m, line.row)
  <2> DEFINE u == LostIn(file, m) \cup {n + 1}
  <2>1. LostIn(t, m) \subseteq u
    BY <1>3, <1>6
  <2>2. IsFiniteSet(u) /\ Cardinality(u) <= Cardinality(LostIn(file, m)) + 1
    <3>1. /\ IsFiniteSet(u)
          /\ Cardinality(u) = IF n + 1 \in LostIn(file, m) THEN Cardinality(LostIn(file, m))
                              ELSE Cardinality(LostIn(file, m)) + 1
      BY <1>4, FS_AddElement
    <3>2. QED BY <1>4, <3>1
  <2> HIDE DEF u
  <2>3. Cardinality(LostIn(t, m)) <= Cardinality(u) /\ Cardinality(u) \in Nat
    BY <2>1, <2>2, FS_Subset, FS_CardinalityType
  <2>4. QED BY <1>4, <1>6, <2>2, <2>3 DEF t
<1>7. QED BY <1>5, <1>6

\* What the end of a process leaves of both files.
LEMMA CutsKeep ==
  ASSUME ReplayTypes, StageInv, MapInv, NEW w \in Workers,
         NEW a \in CutArtifacts(w), NEW m \in CutMap(w)
  PROVE  Cardinality(LostIn(a, m)) <= Cardinality(JoinedIn(m))
<1>1. artifacts[w] \in Seq(Line) /\ map[w] \in Seq(Line)
  BY DEF ReplayTypes
<1> DEFINE L == Cardinality(LostIn(artifacts[w], map[w]))
           J == Cardinality(JoinedIn(map[w]))
           line == Written(Row(w), Final(w))
<1>2. L \in Nat /\ J \in Nat
  BY <1>1, FiniteParts
<1>3. L + (IF Owed(w) THEN 1 ELSE 0) <= J
  BY DEF MapInv
<1> HIDE DEF L, J
<1>4. CASE where[w] = "map"
  <2>1. a = artifacts[w] /\ m \in Cut(map[w], line)
    BY <1>4 DEF CutArtifacts, CutMap
  <2>2. line \in Line
    BY <1>4, WrittenType DEF InRow
  <2> HIDE DEF line
  <2>3. CASE m = map[w]
    BY <1>2, <1>3, <2>1, <2>3 DEF L, J
  <2>4. ASSUME NEW t \in {"whole", "open", "torn"}, m = Appended(map[w], [line EXCEPT !.text = t])
        PROVE  Cardinality(LostIn(a, m)) <= Cardinality(JoinedIn(m))
    <3>1. [line EXCEPT !.text = t] \in Line
      BY <2>2 DEF Line
    <3>2. Cardinality(LostIn(a, m)) <= L /\ J <= Cardinality(JoinedIn(m))
      BY <1>1, <2>1, <2>4, <3>1, MapGrows DEF L, J
    <3>3. m \in Seq(Line)
      BY <1>1, <2>4, <3>1, AppendedType
    <3>4. Cardinality(LostIn(a, m)) \in Nat /\ Cardinality(JoinedIn(m)) \in Nat
      BY <1>1, <2>1, <3>3, FiniteParts
    <3>5. QED BY <1>2, <1>3, <3>2, <3>4
  <2>5. QED BY <2>1, <2>3, <2>4 DEF Cut
<1>5. CASE where[w] = "artifact"
  <2>1. m = map[w] /\ a \in Cut(artifacts[w], line)
    BY <1>5 DEF CutArtifacts, CutMap
  <2>2. line \in Line /\ line.row = Row(w)
    BY <1>5, WrittenType DEF InRow, Written
  <2> HIDE DEF line
  <2>3. CASE a = artifacts[w]
    BY <1>2, <1>3, <2>1, <2>3 DEF L, J
  <2>4. ASSUME NEW t \in {"whole", "open", "torn"}, a = Appended(artifacts[w], [line EXCEPT !.text = t])
        PROVE  Cardinality(LostIn(a, m)) <= Cardinality(JoinedIn(m))
    <3>1. [line EXCEPT !.text = t] \in Line /\ [line EXCEPT !.text = t].row = Row(w)
      BY <2>2 DEF Line
    <3>2. Cardinality(LostIn(a, m)) <= L + (IF Wholly(map[w], Row(w)) THEN 0 ELSE 1)
      BY <1>1, <2>1, <2>4, <3>1, ArtifactsGrow DEF L
    <3>3. (IF Owed(w) THEN 1 ELSE 0) = IF Wholly(map[w], Row(w)) THEN 0 ELSE 1
      BY <1>5 DEF Owed
    <3>4. Cardinality(LostIn(a, m)) \in Nat
      BY <1>1, <2>4, <3>1, AppendedType, FiniteParts
    <3>5. L + (IF Wholly(map[w], Row(w)) THEN 0 ELSE 1) <= J
      BY <1>3, <3>3
    <3>6. Cardinality(LostIn(a, m)) <= J
      BY <1>2, <2>1, <3>2, <3>4, <3>5
    <3>7. QED BY <2>1, <3>6 DEF J
  <2>5. QED BY <2>1, <2>3, <2>4 DEF Cut
<1>6. CASE where[w] \notin {"map", "artifact"}
  <2>1. a = artifacts[w] /\ m = map[w]
    BY <1>6 DEF CutArtifacts, CutMap
  <2>2. QED BY <1>2, <1>3, <2>1 DEF L, J
<1>7. QED BY <1>4, <1>5, <1>6

LEMMA MapStep ==
  ASSUME ReplayTypes, StageInv, MapInv, [ReplayNext]_replayVars
  PROVE  MapInv'
<1>0. \A v \in Workers : /\ artifacts[v] \in Seq(Line) /\ map[v] \in Seq(Line)
                         /\ Cardinality(LostIn(artifacts[v], map[v])) \in Nat
                         /\ Cardinality(JoinedIn(map[v])) \in Nat
  BY FiniteParts DEF ReplayTypes
<1>1. \A v \in Workers : Cardinality(LostIn(artifacts[v], map[v])) + (IF Owed(v) THEN 1 ELSE 0)
                           <= Cardinality(JoinedIn(map[v]))
  BY DEF MapInv
<1>2. CASE UNCHANGED replayVars
  BY <1>1, <1>2 DEF MapInv, Owed, Row, replayVars, memory, disk
<1>3. CASE NewProcess
  <2>1. PICK a \in [Workers -> UNION {CutArtifacts(w) : w \in Workers}],
             m \in [Workers -> UNION {CutMap(w) : w \in Workers}] :
          /\ \A w \in Workers : a[w] \in CutArtifacts(w) /\ m[w] \in CutMap(w)
          /\ artifacts' = a /\ map' = m
    BY <1>3 DEF NewProcess
  <2>2. where' = [w \in Workers |-> "start"]
    BY <1>3 DEF NewProcess
  <2>3. ASSUME NEW w \in Workers
        PROVE  /\ Cardinality(LostIn(artifacts'[w], map'[w])) <= Cardinality(JoinedIn(map'[w]))
               /\ artifacts'[w] \in Seq(Line) /\ map'[w] \in Seq(Line) /\ where'[w] # "artifact"
    <3>1. artifacts'[w] \in CutArtifacts(w) /\ map'[w] \in CutMap(w)
      BY <2>1
    <3>2. QED BY <2>2, <3>1, CutsKeep, CutTypes
  <2>4. \A w \in Workers : /\ Cardinality(LostIn(artifacts'[w], map'[w])) \in Nat
                           /\ Cardinality(JoinedIn(map'[w])) \in Nat
    BY <2>3, FiniteParts
  <2>5. ASSUME NEW w \in Workers
        PROVE  Cardinality(LostIn(artifacts'[w], map'[w])) + (IF Owed(w)' THEN 1 ELSE 0)
                 <= Cardinality(JoinedIn(map'[w]))
    <3>1. ~Owed(w)'
      BY <2>3 DEF Owed
    <3>2. QED BY <2>3, <2>4, <3>1
  <2>6. QED BY <2>5 DEF MapInv
<1>4. ASSUME NEW w \in Workers, WriteMap(w) PROVE MapInv'
  <2> DEFINE line == Written(Row(w), Final(w))
             m == Appended(map[w], line)
  <2>1. /\ where[w] = "map" /\ map' = [map EXCEPT ![w] = m]
        /\ where' = [where EXCEPT ![w] = "artifact"] /\ UNCHANGED <<at, artifacts>>
    BY <1>4 DEF WriteMap, Go
  <2>2. line \in Line /\ line.text = "whole" /\ line.row = Row(w)
    BY <2>1, WrittenType DEF InRow, Written
  <2> HIDE DEF line
  <2>3. /\ Cardinality(LostIn(artifacts[w], m)) <= Cardinality(LostIn(artifacts[w], map[w]))
        /\ Cardinality(JoinedIn(map[w])) <= Cardinality(JoinedIn(m))
        /\ ~Wholly(m, Row(w)) => Cardinality(JoinedIn(map[w])) + 1 <= Cardinality(JoinedIn(m))
    BY <1>0, <2>2, MapGrows
  <2>4. /\ Cardinality(LostIn(artifacts[w], m)) \in Nat /\ Cardinality(JoinedIn(m)) \in Nat
    BY <1>0, <2>2, AppendedType, FiniteParts
  <2>5. Cardinality(LostIn(artifacts[w], map[w])) <= Cardinality(JoinedIn(map[w]))
    BY <1>0, <1>1
  <2> HIDE DEF m
  <2>6. /\ map'[w] = m /\ artifacts'[w] = artifacts[w] /\ Row(w)' = Row(w)
        /\ \A v \in Workers : v # w => map'[v] = map[v] /\ artifacts'[v] = artifacts[v]
                                       /\ where'[v] = where[v] /\ at'[v] = at[v]
    BY <2>1 DEF ReplayTypes, Row
  <2>7. Cardinality(LostIn(artifacts'[w], map'[w])) + (IF Owed(w)' THEN 1 ELSE 0)
          <= Cardinality(JoinedIn(map'[w]))
    <3>1. Owed(w)' => ~Wholly(m, Row(w))
      BY <2>6 DEF Owed
    <3>2. QED BY <1>0, <2>3, <2>4, <2>5, <2>6, <3>1
  <2>8. ASSUME NEW v \in Workers, v # w
        PROVE  Cardinality(LostIn(artifacts'[v], map'[v])) + (IF Owed(v)' THEN 1 ELSE 0)
                 <= Cardinality(JoinedIn(map'[v]))
    <3>1. Owed(v)' <=> Owed(v)
      BY <2>6, <2>8 DEF Owed, Row
    <3>2. QED BY <1>1, <2>6, <2>8, <3>1
  <2>9. QED BY <2>7, <2>8 DEF MapInv
<1>5. ASSUME NEW w \in Workers, WriteArtifact(w) PROVE MapInv'
  <2> DEFINE line == Written(Row(w), Final(w))
             a == Appended(artifacts[w], line)
  <2>1. /\ where[w] = "artifact" /\ artifacts' = [artifacts EXCEPT ![w] = a]
        /\ \E s \in {"ended", "rows"} : where' = [where EXCEPT ![w] = s]
        /\ UNCHANGED <<at, map>>
    BY <1>5 DEF WriteArtifact, Go
  <2>2. line \in Line /\ line.row = Row(w)
    BY <2>1, WrittenType DEF InRow, Written
  <2> HIDE DEF line
  <2>3. Cardinality(LostIn(a, map[w])) <=
          Cardinality(LostIn(artifacts[w], map[w])) + (IF Wholly(map[w], Row(w)) THEN 0 ELSE 1)
    BY <1>0, <2>2, ArtifactsGrow
  <2>4. (IF Owed(w) THEN 1 ELSE 0) = IF Wholly(map[w], Row(w)) THEN 0 ELSE 1
    BY <2>1 DEF Owed
  <2>5. Cardinality(LostIn(a, map[w])) \in Nat
    BY <1>0, <2>2, AppendedType, FiniteParts
  <2> HIDE DEF a
  <2>6. /\ artifacts'[w] = a /\ where'[w] # "artifact" /\ map' = map
        /\ \A v \in Workers : v # w => artifacts'[v] = artifacts[v]
                                       /\ where'[v] = where[v] /\ at'[v] = at[v]
    BY <2>1 DEF ReplayTypes
  <2>7. Cardinality(LostIn(artifacts'[w], map'[w])) + (IF Owed(w)' THEN 1 ELSE 0)
          <= Cardinality(JoinedIn(map'[w]))
    <3>1. ~Owed(w)'
      BY <2>6 DEF Owed
    <3>2. Cardinality(LostIn(artifacts[w], map[w])) + (IF Wholly(map[w], Row(w)) THEN 0 ELSE 1)
            <= Cardinality(JoinedIn(map[w]))
      BY <1>1, <2>4
    <3>3. QED BY <1>0, <2>3, <2>5, <2>6, <3>1, <3>2
  <2>8. ASSUME NEW v \in Workers, v # w
        PROVE  Cardinality(LostIn(artifacts'[v], map'[v])) + (IF Owed(v)' THEN 1 ELSE 0)
                 <= Cardinality(JoinedIn(map'[v]))
    <3>1. Owed(v)' <=> Owed(v)
      BY <2>6, <2>8 DEF Owed, Row
    <3>2. QED BY <1>1, <2>6, <2>8, <3>1
  <2>9. QED BY <2>7, <2>8 DEF MapInv
<1>6. ASSUME NEW w \in Workers, Step(w), ~WriteMap(w), ~WriteArtifact(w) PROVE MapInv'
  <2>1. /\ UNCHANGED <<artifacts, map>>
        /\ \E s \in Stage \ {"artifact"} : where' = [where EXCEPT ![w] = s]
        /\ at' = at \/ at' = [at EXCEPT ![w] = Min(Open(w))]
    <3>1. CASE Start(w) \/ Bind(w)
      BY <3>1 DEF Start, Bind, Go, Stage, disk
    <3>2. CASE StartRow(w) \/ StopRun(w)
      BY <3>2 DEF StartRow, StopRun, Go, Stage, disk
    <3>3. CASE Unsent(w) \/ Reserve(w) \/ Refuse(w) \/ RecordRefusal(w)
      BY <3>3 DEF Unsent, Reserve, Refuse, RecordRefusal, Go, Stage, disk
    <3>4. CASE Answer(w)
      BY <3>4 DEF Answer, Go, Stage, disk
    <3>5. QED BY <1>6, <3>1, <3>2, <3>3, <3>4 DEF Step
  <2>2. where'[w] # "artifact" /\ \A v \in Workers : v # w => where'[v] = where[v] /\ at'[v] = at[v]
    BY <2>1 DEF ReplayTypes
  <2>3. ASSUME NEW v \in Workers
        PROVE  Cardinality(LostIn(artifacts'[v], map'[v])) + (IF Owed(v)' THEN 1 ELSE 0)
                 <= Cardinality(JoinedIn(map'[v]))
    <3>1. Owed(v)' => Owed(v)
      BY <2>1, <2>2 DEF Owed, Row
    <3>2. artifacts'[v] = artifacts[v] /\ map'[v] = map[v]
      BY <2>1
    <3>3. QED BY <1>0, <1>1, <3>1, <3>2
  <2>4. QED BY <2>3 DEF MapInv
<1>7. QED BY <1>2, <1>3, <1>4, <1>5, <1>6 DEF ReplayNext

-----------------------------------------------------------------------------
(* The replay workers: theorems                                            *)

ReplayInv == ReplayTypes /\ StageInv /\ BudgetInv /\ MapInv

LEMMA ReplayHolds == ReplaySpec => []ReplayInv
<1>1. ReplayInit => ReplayInv
  <2> SUFFICES ASSUME ReplayInit PROVE ReplayInv
    OBVIOUS
  <2>1. ReplayTypes /\ StageInv
    BY ReplayStarts
  <2>2. SumOf(hold, Workers) = 0
    BY NothingHeld, ReplayAssumption DEF ReplayInit
  <2>3. BudgetInv
    BY <2>2, ReplayAssumption DEF ReplayInit, BudgetInv
  <2>4. ASSUME NEW w \in Workers
        PROVE  Cardinality(LostIn(artifacts[w], map[w])) + (IF Owed(w) THEN 1 ELSE 0)
                 <= Cardinality(JoinedIn(map[w]))
    <3>1. artifacts[w] = <<>> /\ map[w] = <<>> /\ where[w] = "start"
      BY DEF ReplayInit
    <3>2. Readable(artifacts[w]) = {}
      BY <3>1 DEF Readable
    <3>3. LostIn(artifacts[w], map[w]) = {} /\ JoinedIn(map[w]) = {} /\ ~Owed(w)
      BY <3>1, <3>2 DEF LostIn, JoinedIn, Owed
    <3>4. QED BY <3>3, FS_EmptySet
  <2>5. QED BY <2>1, <2>3, <2>4 DEF ReplayInv, MapInv
<1>2. ReplayInv /\ [ReplayNext]_replayVars => ReplayInv'
  BY StepTypes, StageStep, BudgetStep, MapStep DEF ReplayInv
<1>3. QED BY <1>1, <1>2, PTL DEF ReplaySpec

\* The state of the replay workers and of their directories has its types.
THEOREM ReplayTypesHold == ReplaySpec => []ReplayTypes
<1>1. ReplayInv => ReplayTypes
  BY DEF ReplayInv
<1>2. QED BY <1>1, ReplayHolds, PTL

\* What is held is what the open calls hold; only a charge above its
\* reservation takes the sum of charges and holds over the limit, by as much,
\* and it locks the budget.
THEOREM SpendIsBounded == ReplaySpec => []SpendBounded
<1>1. ReplayInv => SpendBounded
  BY DEF ReplayInv, BudgetInv, SpendBounded, SumOf
<1>2. QED BY <1>1, ReplayHolds, PTL

\* Wherever processes die, an artifact without an entry in the map is paid for
\* by a line of the map on which two entries ran into one another.
THEOREM ArtifactsAreMapped == ReplaySpec => []MappedFirst
<1>1. ReplayInv => MappedFirst
  <2> SUFFICES ASSUME ReplayInv, NEW w \in Workers
               PROVE  Cardinality(Unmapped(w)) <= Cardinality(JoinedIn(map[w]))
    BY DEF MappedFirst, JoinedIn
  <2>1. artifacts[w] \in Seq(Line) /\ map[w] \in Seq(Line)
    BY DEF ReplayInv, ReplayTypes
  <2>2. Unmapped(w) \subseteq LostIn(artifacts[w], map[w])
    BY DEF Unmapped, LostIn, Wholly, Readable
  <2>3. /\ IsFiniteSet(LostIn(artifacts[w], map[w]))
        /\ Cardinality(LostIn(artifacts[w], map[w])) \in Nat
        /\ Cardinality(JoinedIn(map[w])) \in Nat
    BY <2>1, FiniteParts
  <2>4. /\ Cardinality(Unmapped(w)) <= Cardinality(LostIn(artifacts[w], map[w]))
        /\ Cardinality(Unmapped(w)) \in Nat
    BY <2>2, <2>3, FS_Subset, FS_CardinalityType
  <2>5. Cardinality(LostIn(artifacts[w], map[w])) <= Cardinality(JoinedIn(map[w]))
    BY <2>3 DEF ReplayInv, MapInv
  <2>6. QED BY <2>3, <2>4, <2>5
<1>2. QED BY <1>1, ReplayHolds, PTL

-----------------------------------------------------------------------------
(* The prospective sync                                                    *)

\* The fills of a set have places, newest first, from zero on without a gap.
LEMMA PlaceTypes ==
  ASSUME NEW S \in SUBSET Fills, NEW f \in S
  PROVE  /\ IsFiniteSet(S) /\ Cardinality(S) \in Nat
         /\ Before(S, f) \in Nat /\ Before(S, f) < Cardinality(S)
<1> DEFINE N == {g \in S : Newer(g, f)}
<1>1. IsFiniteSet(S) /\ f.sec \in Nat /\ f.id \in Nat
  BY LedgerAssumption, SyncAssumption, FS_Subset
<1>2. f \notin N
  BY <1>1 DEF Newer
<1>3. N \subseteq S /\ N # S
  BY <1>2
<1> HIDE DEF N
<1>4. /\ IsFiniteSet(N) /\ Cardinality(N) \in Nat /\ Cardinality(S) \in Nat
      /\ Cardinality(N) <= Cardinality(S) /\ Cardinality(N) # Cardinality(S)
  BY <1>1, <1>3, FS_Subset, FS_CardinalityType
<1>5. Before(S, f) = Cardinality(N)
  BY DEF Before, N
<1>6. QED BY <1>1, <1>4, <1>5

LEMMA PlacesDiffer ==
  ASSUME NEW S \in SUBSET Fills, NEW f \in S, NEW g \in S, f # g
  PROVE  Before(S, f) # Before(S, g)
<1>1. ASSUME NEW x \in S, NEW y \in S, Newer(x, y) PROVE Before(S, x) < Before(S, y)
  <2> DEFINE M == {z \in S : Newer(z, x)}
             N == {z \in S : Newer(z, y)}
  <2>0. \A z \in S : z.sec \in Nat /\ z.id \in Nat
    BY LedgerAssumption, SyncAssumption
  <2>1. \A z \in S : Newer(z, x) => Newer(z, y)
    BY <1>1, <2>0 DEF Newer
  <2>2. x \notin M /\ x \in N
    BY <1>1, <2>0 DEF Newer
  <2>3. M \subseteq N /\ M # N /\ N \subseteq S
    BY <2>1, <2>2
  <2>4. IsFiniteSet(S)
    BY PlaceTypes
  <2> HIDE DEF M, N
  <2>5. IsFiniteSet(N)
    BY <2>3, <2>4, FS_Subset
  <2>6. /\ Cardinality(M) \in Nat /\ Cardinality(N) \in Nat
        /\ Cardinality(M) <= Cardinality(N) /\ Cardinality(M) # Cardinality(N)
    BY <2>3, <2>5, FS_Subset, FS_CardinalityType
  <2>7. QED BY <2>6 DEF Before, M, N
<1>2. f.id # g.id /\ f.sec \in Nat /\ g.sec \in Nat /\ f.id \in Nat /\ g.id \in Nat
  BY LedgerAssumption, SyncAssumption
<1>3. Newer(f, g) \/ Newer(g, f)
  BY <1>2 DEF Newer
<1>4. Before(S, f) \in Nat /\ Before(S, g) \in Nat
  BY PlaceTypes
<1>5. QED BY <1>1, <1>3, <1>4

\* A page that is not full is the last one: nothing is behind it.
LEMMA ShortPageEnds ==
  ASSUME NEW S \in SUBSET Fills, NEW k \in Nat, NEW f \in S,
         Cardinality(PageOf(S, k)) < PageLimit
  PROVE  Before(S, f) < k + PageLimit
<1>0. PageLimit \in Nat \ {0} /\ IsFiniteSet(S) /\ Cardinality(S) \in Nat
  BY SyncAssumption, PlaceTypes
<1> DEFINE n == Cardinality(S)
           place == [g \in S |-> Before(S, g)]
<1>1. place \in [S -> 0..n-1]
  BY <1>0, PlaceTypes
<1>2. place \in Injection(S, 0..n-1)
  BY <1>1, PlacesDiffer DEF Injection, IsInjective
<1>3. IsFiniteSet(0..n-1) /\ Cardinality(0..n-1) = n
  <2>1. n - 1 \in Int /\ 0 \in Int /\ n \in Nat
    BY <1>0
  <2> HIDE DEF n
  <2>2. IsFiniteSet(0..n-1) /\ Cardinality(0..n-1) = IF 0 > n - 1 THEN 0 ELSE (n - 1) - 0 + 1
    BY <2>1, FS_Interval
  <2>3. QED BY <2>1, <2>2
<1>4. place \in Surjection(S, 0..n-1)
  BY <1>2, <1>3, FS_Injection
<1>5. SUFFICES ASSUME k + PageLimit <= Before(S, f) PROVE FALSE
  BY <1>0, PlaceTypes
<1> DEFINE P == PageOf(S, k)
           last == k + PageLimit - 1
           rank == [g \in P |-> Before(S, g)]
<1>6. P \subseteq S /\ IsFiniteSet(P) /\ Cardinality(P) \in Nat
  <2>1. P \subseteq S
    BY DEF PageOf
  <2>2. QED BY <1>0, <2>1, FS_Subset, FS_CardinalityType
<1>7. rank \in [P -> k..last]
  <2>1. ASSUME NEW g \in P PROVE Before(S, g) \in k..last
    BY <1>0, <1>6, PlaceTypes DEF PageOf
  <2>2. QED BY <2>1
<1>8. ASSUME NEW i \in k..last PROVE \E g \in P : rank[g] = i
  <2>1. i \in 0..n-1
    BY <1>0, <1>5, PlaceTypes
  <2>2. PICK g \in S : place[g] = i
    BY <1>4, <2>1 DEF Surjection
  <2>3. g \in P
    BY <1>0, <2>2 DEF PageOf
  <2>4. QED BY <2>2, <2>3
<1>9. rank \in Surjection(P, k..last)
  <2> HIDE DEF rank
  <2>1. QED BY <1>7, <1>8 DEF Surjection
<1>10. Cardinality(k..last) <= Cardinality(P)
  <2> HIDE DEF rank, P
  <2>1. QED BY <1>6, <1>9, FS_Surjection
<1>11. Cardinality(k..last) = PageLimit
  <2>1. last \in Int /\ k \in Int /\ k <= last /\ last - k + 1 = PageLimit
    BY <1>0
  <2> HIDE DEF last
  <2>2. Cardinality(k..last) = IF k > last THEN 0 ELSE last - k + 1
    BY <2>1, FS_Interval
  <2>3. QED BY <2>1, <2>2
<1>12. QED BY <1>0, <1>6, <1>10, <1>11

\* A fill listed late takes no other one forward.
LEMMA ListedLater ==
  ASSUME NEW T \in SUBSET Fills, NEW S \in SUBSET T, NEW f \in S
  PROVE  Before(S, f) <= Before(T, f)
<1> DEFINE M == {z \in S : Newer(z, f)}
           N == {z \in T : Newer(z, f)}
<1>1. M \subseteq N /\ N \subseteq T /\ IsFiniteSet(T)
  BY PlaceTypes
<1> HIDE DEF M, N
<1>2. Cardinality(M) <= Cardinality(N)
  BY <1>1, FS_Subset
<1>3. QED BY <1>2 DEF Before, M, N

\* The program's own types, and what its store and its reading have in common.
SecondsWindow == Nat \X Nat
CallState ==
  [lo : Nat, hi : Nat, known : SUBSET Fills, pending : Seq(SecondsWindow), windows : Nat,
   win : SecondsWindow, honored : BOOLEAN, offset : Nat, staged : SUBSET Fills, at : SUBSET Fills]
SyncTypes ==
  /\ listed \subseteq Fills /\ raw \in [Fills -> Nat]
  /\ pc \in {"idle", "loop", "fetch", "capped", "publish", "register"}
  /\ call \in CallState /\ call.known \subseteq listed /\ call.at \subseteq listed

\* A fill is registered only after it was written, and written once unless cut.
StoreInv ==
  /\ \A f \in Fills : f.id \in keys => Stored(f)
  /\ \A f \in Fills \ cut :
       raw[f] <= 1 /\ (Stored(f) => f.id \in keys \/ (pc = "register" /\ f \in call.staged))
  /\ pc = "register" => \A f \in call.staged : Stored(f)

\* What was listed for the window before it was read, and is not yet staged,
\* is on a later page.
WindowFills == Within(call.at, call.win[1], call.win[2])
ReadInv ==
  /\ pc = "fetch" => \A f \in WindowFills : f \in call.staged \/ call.offset <= Before(Served, f)
  /\ pc \in {"publish", "register"} => WindowFills \subseteq call.staged

\* What is asked for is stored, or in a window that is read or will be.
Inside(f, w) == w[1] <= f.sec /\ f.sec <= w[2]
Asked(f) == f \in call.known /\ call.lo <= 2 * f.sec /\ 2 * f.sec <= call.hi
CoverInv ==
  /\ \A f \in Fills : Asked(f) =>
       \/ Stored(f)
       \/ \E i \in 1..Len(call.pending) : Inside(f, call.pending[i])
       \/ pc \notin {"idle", "loop"} /\ f \in WindowFills
  /\ pc = "loop" /\ ~Halved => \A f \in WindowFills : Stored(f)
SyncInv == SyncTypes /\ StoreInv /\ ReadInv /\ CoverInv

LEMMA NoCallType == NoCall \in CallState /\ NoCall.known = {} /\ NoCall.at = {}
<1>1. <<>> \in Seq(SecondsWindow) /\ <<0, 0>> \in SecondsWindow
  BY DEF SecondsWindow
<1>2. QED BY <1>1 DEF NoCall, CallState

LEMMA SyncStarts == SyncInit => SyncInv
<1> SUFFICES ASSUME SyncInit PROVE SyncInv
  OBVIOUS
<1>1. /\ listed \subseteq Fills /\ raw = [f \in Fills |-> 0] /\ keys = {}
      /\ pc = "idle" /\ call = NoCall /\ cut = {}
  BY DEF SyncInit
<1>2. SyncTypes
  BY <1>1, NoCallType DEF SyncTypes
<1>3. StoreInv
  BY <1>1 DEF StoreInv, Stored
<1>4. ReadInv /\ CoverInv
  BY <1>1, NoCallType DEF ReadInv, CoverInv, Asked
<1>5. QED BY <1>2, <1>3, <1>4 DEF SyncInv

\* A call that returns, wherever, leaves the store as it is.
LEMMA ReturnKeeps ==
  ASSUME SyncInv, Return, pc # "register", UNCHANGED <<listed, store, cut>>
  PROVE  SyncInv'
<1>1. /\ pc' = "idle" /\ call' = NoCall /\ listed' = listed /\ raw' = raw /\ keys' = keys
      /\ cut' = cut
  BY DEF Return, store
<1>2. SyncTypes'
  BY <1>1, NoCallType DEF SyncInv, SyncTypes
<1>3. StoreInv'
  BY <1>1 DEF SyncInv, StoreInv, Stored
<1>4. ReadInv' /\ CoverInv'
  BY <1>1, NoCallType DEF ReadInv, CoverInv, Asked
<1>5. QED BY <1>2, <1>3, <1>4 DEF SyncInv

LEMMA BreaksKeeps == ASSUME SyncInv, Breaks PROVE SyncInv'
<1>1. PICK n \in Int :
         LET written == {f \in Fresh : Before(Fresh, f) < n} IN
         /\ raw' = [f \in Fills |-> raw[f] + IF f \in written THEN 1 ELSE 0]
         /\ cut' = cut \cup written \cup (IF pc = "register" THEN Fresh ELSE {})
  BY DEF Breaks
<1> DEFINE W == {f \in Fresh : Before(Fresh, f) < n}
<1>2. /\ raw' = [f \in Fills |-> raw[f] + IF f \in W THEN 1 ELSE 0]
      /\ W \subseteq cut' /\ cut \subseteq cut'
      /\ pc = "register" => Fresh \subseteq cut'
  BY <1>1
<1> HIDE DEF W
<1>3. pc' = "idle" /\ call' = NoCall /\ listed' = listed /\ keys' = keys
  BY DEF Breaks, Return
<1>4. raw \in [Fills -> Nat] /\ raw' \in [Fills -> Nat]
  BY <1>2 DEF SyncInv, SyncTypes
<1>5. SyncTypes'
  BY <1>3, <1>4, NoCallType DEF SyncInv, SyncTypes
<1>6. \A f \in Fills : Stored(f) => Stored(f)'
  BY <1>2, <1>4 DEF Stored
<1>7. \A f \in Fills : f.id \in keys' => Stored(f)'
  BY <1>3, <1>6 DEF SyncInv, StoreInv
<1>8. ASSUME NEW f \in Fills \ cut' PROVE raw'[f] <= 1 /\ (Stored(f)' => f.id \in keys')
  <2>1. raw'[f] = raw[f] /\ f \notin cut
    BY <1>2, <1>4, <1>8
  <2>2. raw[f] <= 1 /\ (Stored(f) => f.id \in keys \/ (pc = "register" /\ f \in call.staged))
    BY <1>8, <2>1 DEF SyncInv, StoreInv
  <2>3. pc = "register" /\ f \in call.staged => f.id \in keys
    BY <1>2, <1>8 DEF Fresh
  <2>4. QED BY <1>3, <2>1, <2>2, <2>3 DEF Stored
<1>9. StoreInv'
  BY <1>3, <1>7, <1>8 DEF StoreInv
<1>10. ReadInv' /\ CoverInv'
  BY <1>3, NoCallType DEF ReadInv, CoverInv, Asked
<1>11. QED BY <1>5, <1>9, <1>10 DEF SyncInv

LEMMA ListKeeps == ASSUME SyncInv, NEW f \in Fills, List(f) PROVE SyncInv'
<1>1. /\ listed' = listed \cup {f} /\ raw' = raw /\ keys' = keys /\ pc' = pc /\ call' = call
      /\ cut' = cut
  BY DEF List, store
<1>2. SyncTypes'
  BY <1>1 DEF SyncInv, SyncTypes
<1>3. StoreInv' /\ CoverInv'
  BY <1>1 DEF SyncInv, StoreInv, CoverInv, Stored, Asked, WindowFills, Halved
<1>4. ASSUME pc = "fetch", NEW g \in WindowFills, g \notin call.staged
      PROVE  call.offset <= Before(Served', g)
  <2>1. Served \subseteq Served' /\ Served' \subseteq Fills
    BY <1>1 DEF Served, Within, SyncInv, SyncTypes
  <2>2. g \in Served
    BY <1>4 DEF Served, WindowFills, Within, SyncInv, SyncTypes
  <2>3. call.offset <= Before(Served, g)
    BY <1>4 DEF SyncInv, ReadInv
  <2>4. Before(Served, g) <= Before(Served', g)
    BY <2>1, <2>2, ListedLater
  <2>5. Before(Served, g) \in Nat /\ Before(Served', g) \in Nat
    BY <2>1, <2>2, PlaceTypes
  <2>6. call.offset \in Nat
    BY DEF SyncInv, SyncTypes, CallState
  <2>7. QED BY <2>3, <2>4, <2>5, <2>6
<1>5. ReadInv'
  BY <1>1, <1>4 DEF SyncInv, ReadInv, WindowFills
<1>6. QED BY <1>2, <1>3, <1>5 DEF SyncInv

\* A page of the longer list starts no later in the shorter one.
LEMMA IgnoreKeeps == ASSUME SyncInv, IgnoreBounds PROVE SyncInv'
<1>1. /\ listed' = listed /\ raw' = raw /\ keys' = keys /\ cut' = cut /\ pc = "fetch" /\ pc' = pc
      /\ call' = [call EXCEPT !.honored = FALSE] /\ call \in CallState
  BY DEF IgnoreBounds, store, SyncInv, SyncTypes
<1>2. /\ call'.known = call.known /\ call'.lo = call.lo /\ call'.hi = call.hi
      /\ call'.at = call.at /\ call'.win = call.win /\ call'.pending = call.pending
      /\ call'.staged = call.staged /\ call'.offset = call.offset /\ call'.honored = FALSE
  BY <1>1 DEF CallState
<1>3. SyncTypes'
  <2>1. call' \in CallState
    BY <1>1, Zenon DEF CallState
  <2>2. QED BY <1>1, <1>2, <2>1 DEF SyncInv, SyncTypes
<1>4. WindowFills' = WindowFills
  BY <1>2 DEF WindowFills
<1>5. StoreInv' /\ CoverInv'
  BY <1>1, <1>2, <1>4 DEF SyncInv, StoreInv, CoverInv, Stored, Asked
<1>6. ASSUME NEW g \in WindowFills, g \notin call.staged
      PROVE  call.offset <= Before(Served', g)
  <2>1. Served \subseteq Served' /\ Served' \subseteq Fills
    BY <1>1, <1>2 DEF Served, Within, SyncInv, SyncTypes
  <2>2. g \in Served
    BY DEF Served, WindowFills, Within, SyncInv, SyncTypes
  <2>3. call.offset <= Before(Served, g)
    BY <1>1, <1>6 DEF SyncInv, ReadInv
  <2>4. Before(Served, g) <= Before(Served', g)
    BY <2>1, <2>2, ListedLater
  <2>5. Before(Served, g) \in Nat /\ Before(Served', g) \in Nat /\ call.offset \in Nat
    BY <1>1, <2>1, <2>2, PlaceTypes DEF CallState
  <2>6. QED BY <2>3, <2>4, <2>5
<1>7. ReadInv'
  BY <1>1, <1>2, <1>4, <1>6 DEF ReadInv
<1>8. QED BY <1>3, <1>5, <1>7 DEF SyncInv

LEMMA StartSyncKeeps == ASSUME SyncInv, NEW r \in Ranges, StartSync(r) PROVE SyncInv'
<1> DEFINE lo == FirstSecond(r)
           hi == LastSecond(r)
<1>1. /\ r.start \in Nat /\ r.end \in Nat
      /\ lo \in Nat /\ hi \in Nat
      /\ \A s \in Nat : r.start <= 2 * s => lo <= s
      /\ \A s \in Nat : 2 * s <= r.end => s <= hi
  <2>1. r.start \in Nat /\ r.end \in Nat
    BY SyncAssumption
  <2>2. \A a, s \in Nat : /\ (a + 1) \div 2 \in Nat /\ a \div 2 \in Nat
                          /\ a <= 2 * s => (a + 1) \div 2 <= s
                          /\ 2 * s <= a => s <= a \div 2
    OBVIOUS
  <2>3. QED BY <2>1, <2>2 DEF FirstSecond, LastSecond
<1> HIDE DEF lo, hi
<1> DEFINE p == IF lo > hi THEN <<>> ELSE <<<<lo, hi>>>>
<1>2. call' = [NoCall EXCEPT !.lo = r.start, !.hi = r.end, !.known = listed, !.pending = p]
  BY DEF StartSync, lo, hi
<1>3. p \in Seq(SecondsWindow)
  <2>1. <<lo, hi>> \in SecondsWindow
    BY <1>1 DEF SecondsWindow
  <2>2. <<<<lo, hi>>>> \in Seq(SecondsWindow) /\ <<>> \in Seq(SecondsWindow)
    BY <2>1
  <2>3. QED BY <2>2
<1>4. /\ \A f \in Fills : lo <= f.sec /\ f.sec <= hi =>
           \E i \in 1..Len(p) : Inside(f, p[i])
  <2>1. SUFFICES ASSUME NEW f \in Fills, lo <= f.sec, f.sec <= hi
                 PROVE  \E i \in 1..Len(p) : Inside(f, p[i])
    OBVIOUS
  <2>2. f.sec \in Nat
    BY LedgerAssumption
  <2>3. ~(lo > hi)
    BY <1>1, <2>1, <2>2
  <2>4. p = <<<<lo, hi>>>>
    BY <2>3
  <2> HIDE DEF p
  <2>5. Len(p) = 1 /\ p[1] = <<lo, hi>>
    BY <2>4
  <2>6. 1 \in 1..Len(p) /\ Inside(f, p[1])
    BY <2>1, <2>5 DEF Inside
  <2>7. QED BY <2>6
<1> HIDE DEF p
<1>5. /\ pc = "idle" /\ pc' = "loop" /\ listed' = listed /\ raw' = raw /\ keys' = keys
      /\ cut' = cut
  BY DEF StartSync, store
<1>6. /\ call'.known = listed /\ call'.at = {} /\ call'.lo = r.start /\ call'.hi = r.end
      /\ call'.pending = p
  BY <1>2 DEF NoCall
<1>7. SyncTypes'
  <2>1. listed \subseteq Fills
    BY DEF SyncInv, SyncTypes
  <2>2. call' \in CallState
    BY <1>1, <1>2, <1>3, <2>1, NoCallType DEF CallState
  <2>3. QED BY <1>5, <1>6, <2>2 DEF SyncInv, SyncTypes
<1>8. StoreInv' /\ ReadInv'
  BY <1>5 DEF SyncInv, StoreInv, ReadInv, Stored
<1>9. WindowFills' = {}
  BY <1>6 DEF WindowFills, Within
<1>10. ASSUME NEW f \in Fills, Asked(f)' PROVE \E i \in 1..Len(call'.pending) : Inside(f, call'.pending[i])
  <2>1. f.sec \in Nat /\ r.start <= 2 * f.sec /\ 2 * f.sec <= r.end
    BY <1>6, <1>10, LedgerAssumption DEF Asked
  <2>2. lo <= f.sec /\ f.sec <= hi
    BY <1>1, <2>1
  <2>3. QED BY <1>4, <1>6, <2>2
<1>11. CoverInv'
  BY <1>9, <1>10 DEF CoverInv
<1>12. QED BY <1>7, <1>8, <1>11 DEF SyncInv

LEMMA PopKeeps == ASSUME SyncInv, PopWindow PROVE SyncInv'
<1> DEFINE p == call.pending
<1>0. /\ p \in Seq(SecondsWindow) /\ p # <<>> /\ call \in CallState /\ listed \subseteq Fills
      /\ call.known \subseteq listed
  BY DEF SyncInv, SyncTypes, CallState, PopWindow
<1>1. /\ Len(p) \in Nat \ {0} /\ Last(p) = p[Len(p)] /\ Last(p) \in SecondsWindow
      /\ Front(p) \in Seq(SecondsWindow)
      /\ Len(Front(p)) = Len(p) - 1
      /\ \A i \in 1..(Len(p) - 1) : Front(p)[i] = p[i]
  <2> HIDE DEF p
  <2>1. Len(p) \in Nat \ {0} /\ DOMAIN p = 1..Len(p) /\ \A i \in 1..Len(p) : p[i] \in SecondsWindow
    BY <1>0, EmptySeq, ElementOfSeq
  <2>2. Len(p) - 1 \in Nat /\ 1 \in Nat
    BY <2>1
  <2>3. Front(p) = SubSeq(p, 1, Len(p) - 1)
    BY DEF Front
  <2>4. /\ SubSeq(p, 1, Len(p) - 1) \in Seq(SecondsWindow)
        /\ Len(SubSeq(p, 1, Len(p) - 1)) = Len(p) - 1
        /\ \A i \in 1..(Len(p) - 1) : SubSeq(p, 1, Len(p) - 1)[i] = p[i]
    BY <1>0, <2>1, <2>2
  <2>5. QED BY <2>1, <2>3, <2>4 DEF Last
<1>2. /\ call' = [call EXCEPT !.pending = Front(p), !.win = Last(p), !.windows = call.windows + 1,
                              !.honored = TRUE, !.offset = 0, !.staged = {}, !.at = listed]
      /\ pc = "loop" /\ pc' = "fetch" /\ listed' = listed /\ raw' = raw /\ keys' = keys
      /\ cut' = cut
  BY DEF PopWindow, store
<1> HIDE DEF p
<1>3. /\ call'.pending = Front(p) /\ call'.win = Last(p) /\ call'.at = listed
      /\ call'.known = call.known /\ call'.lo = call.lo /\ call'.hi = call.hi
      /\ call'.offset = 0
  BY <1>0, <1>2 DEF CallState
<1>4. SyncTypes'
  <2>1. /\ Front(p) \in Seq(SecondsWindow) /\ Last(p) \in SecondsWindow
        /\ call.windows + 1 \in Nat /\ TRUE \in BOOLEAN /\ 0 \in Nat
        /\ {} \in SUBSET Fills /\ listed \in SUBSET Fills
    BY <1>0, <1>1 DEF CallState
  <2>2. call' \in CallState
    BY <1>0, <1>2, <2>1, Zenon DEF CallState
  <2>3. QED BY <1>0, <1>2, <1>3, <2>2 DEF SyncInv, SyncTypes
<1>5. StoreInv'
  BY <1>2 DEF SyncInv, StoreInv, Stored
<1>6. ReadInv'
  <2>1. ASSUME NEW f \in WindowFills' PROVE call'.offset <= Before(Served', f)
    <3>1. f \in Served' /\ Served' \subseteq Fills
      BY <1>0, <1>2, <1>3 DEF WindowFills, Served, Within
    <3>2. Before(Served', f) \in Nat
      BY <3>1, PlaceTypes
    <3>3. QED BY <1>3, <3>2
  <2>2. QED BY <1>2, <2>1 DEF ReadInv
<1>7. ASSUME NEW f \in Fills, Asked(f)'
      PROVE  \/ Stored(f)'
             \/ \E i \in 1..Len(call'.pending) : Inside(f, call'.pending[i])
             \/ f \in WindowFills'
  <2>1. Asked(f)
    BY <1>3, <1>7 DEF Asked
  <2>2. Stored(f) \/ \E i \in 1..Len(p) : Inside(f, p[i])
    BY <1>2, <2>1 DEF SyncInv, CoverInv, p
  <2>3. CASE Stored(f)
    BY <1>2, <2>3 DEF Stored
  <2>4. ASSUME NEW i \in 1..Len(p), Inside(f, p[i])
        PROVE  \/ \E j \in 1..Len(call'.pending) : Inside(f, call'.pending[j])
               \/ f \in WindowFills'
    <3>1. CASE i = Len(p)
      <4>1. Inside(f, call'.win) /\ f \in call'.at
        BY <1>0, <1>1, <1>3, <2>1, <2>4, <3>1 DEF Asked
      <4>2. QED BY <4>1 DEF WindowFills, Within, Inside
    <3>2. CASE i # Len(p)
      <4>1. i \in 1..(Len(p) - 1)
        BY <1>1, <3>2
      <4>2. i \in 1..Len(call'.pending) /\ call'.pending[i] = p[i]
        BY <1>1, <1>3, <4>1
      <4>3. QED BY <2>4, <4>2
    <3>3. QED BY <3>1, <3>2
  <2>5. QED BY <2>2, <2>3, <2>4
<1>8. CoverInv'
  BY <1>2, <1>7 DEF CoverInv
<1>9. QED BY <1>4, <1>5, <1>6, <1>8 DEF SyncInv

LEMMA FetchKeeps == ASSUME SyncInv, Fetch PROVE SyncInv'
<1> DEFINE page == PageOf(Served, call.offset)
<1>0. /\ call \in CallState /\ call.offset \in Nat /\ listed \subseteq Fills
      /\ Served \subseteq Fills /\ PageLimit \in Nat \ {0}
      /\ WindowFills \subseteq Served
  BY SyncAssumption DEF SyncInv, SyncTypes, CallState, Served, Within, WindowFills
<1>1. pc = "fetch" /\ UNCHANGED <<listed, store, cut>>
  BY DEF Fetch
<1>2. CASE Violates(page)
  BY <1>1, <1>2, ReturnKeeps DEF Fetch
<1>3. CASE ~Violates(page)
  <2>1. /\ call' = [call EXCEPT !.staged = call.staged \cup page, !.offset = call.offset + PageLimit]
        /\ pc' = IF Cardinality(page) < PageLimit THEN "publish"
                 ELSE IF call.offset + PageLimit > MaxOffset THEN "capped" ELSE "fetch"
    BY <1>3 DEF Fetch
  <2> HIDE DEF page
  <2>2. /\ pc' \in {"publish", "capped", "fetch"}
        /\ pc' = "publish" => Cardinality(page) < PageLimit
    BY <2>1
  <2>3. page \subseteq Fills /\ page \subseteq Served
    BY <1>0 DEF page, PageOf
  <2>4. /\ call' \in CallState /\ call'.staged = call.staged \cup page
        /\ call'.offset = call.offset + PageLimit
        /\ call'.at = call.at /\ call'.win = call.win /\ call'.honored = call.honored
        /\ call'.known = call.known /\ call'.lo = call.lo /\ call'.hi = call.hi
        /\ call'.pending = call.pending
    <3>1. call.staged \cup page \in SUBSET Fills /\ call.offset + PageLimit \in Nat
      BY <1>0, <2>3 DEF CallState
    <3>2. call' \in CallState
      BY <1>0, <2>1, <3>1, Zenon DEF CallState
    <3>3. QED BY <1>0, <2>1, <3>2 DEF CallState
  <2>5. Served' = Served /\ WindowFills' = WindowFills /\ listed' = listed
    BY <1>1, <2>4 DEF Served, WindowFills
  <2>6. SyncTypes'
    BY <2>2, <2>4, <2>5, <1>1 DEF SyncInv, SyncTypes, store
  <2>7. StoreInv'
    BY <1>1, <2>2 DEF SyncInv, StoreInv, Stored, store
  <2>8. ASSUME NEW f \in WindowFills, f \notin call'.staged
        PROVE  /\ call'.offset <= Before(Served, f) /\ Cardinality(page) >= PageLimit
    <3>1. f \in Served /\ f \notin page /\ call.offset <= Before(Served, f) /\ Before(Served, f) \in Nat
      BY <1>0, <1>1, <2>4, <2>8, PlaceTypes DEF SyncInv, ReadInv
    <3>2. ~(Before(Served, f) < call.offset + PageLimit)
      BY <3>1 DEF page, PageOf
    <3>3. ~(Cardinality(page) < PageLimit)
      BY <1>0, <3>1, <3>2, ShortPageEnds DEF page
    <3>4. Cardinality(page) \in Nat
      BY <1>0, <2>3, PlaceTypes, LedgerAssumption, FS_Subset, FS_CardinalityType
    <3>5. QED BY <1>0, <2>4, <3>1, <3>2, <3>3, <3>4
  <2>9. /\ \A f \in WindowFills : f \in call'.staged \/ call'.offset <= Before(Served, f)
        /\ pc' = "publish" => WindowFills \subseteq call'.staged
    <3>1. Cardinality(page) \in Nat
      BY <1>0, <2>3, LedgerAssumption, FS_Subset, FS_CardinalityType
    <3>2. QED BY <1>0, <2>2, <2>8, <3>1
  <2>10. ReadInv'
    BY <2>2, <2>5, <2>9 DEF ReadInv
  <2>11. CoverInv'
    BY <1>1, <2>2, <2>4, <2>5 DEF SyncInv, CoverInv, Stored, Asked, store
  <2>12. QED BY <2>6, <2>7, <2>10, <2>11 DEF SyncInv
<1>4. QED BY <1>2, <1>3

LEMMA CapHitKeeps == ASSUME SyncInv, CapHit PROVE SyncInv'
<1>1. /\ pc = "fetch" /\ pc' = "capped" /\ listed' = listed /\ raw' = raw /\ keys' = keys
      /\ call' = call /\ cut' = cut
  BY DEF CapHit, store
<1>2. SyncTypes' /\ StoreInv' /\ ReadInv'
  BY <1>1 DEF SyncInv, SyncTypes, StoreInv, ReadInv, Stored
<1>3. CoverInv'
  BY <1>1 DEF SyncInv, CoverInv, Stored, Asked, WindowFills
<1>4. QED BY <1>2, <1>3 DEF SyncInv

LEMMA CappedKeeps == ASSUME SyncInv, Capped PROVE SyncInv'
<1>1. pc = "capped" /\ UNCHANGED <<listed, store, cut>>
  BY DEF Capped
<1>2. CASE call.win[1] = call.win[2]
  BY <1>1, <1>2, ReturnKeeps DEF Capped
<1>3. CASE call.win[1] # call.win[2]
  <2> DEFINE a == call.win[1]
             b == call.win[2]
             mid == (a + b) \div 2
             p == call.pending
             h == Halves(a, b)
  <2>0. call \in CallState /\ p \in Seq(SecondsWindow) /\ a \in Nat /\ b \in Nat
    BY DEF SyncInv, SyncTypes, CallState, SecondsWindow
  <2>1. /\ call' = [call EXCEPT !.pending = p \o h]
        /\ pc' = "loop" /\ listed' = listed /\ raw' = raw /\ keys' = keys /\ cut' = cut
    BY <1>1, <1>3 DEF Capped, store
  <2>2. mid \in Nat
    <3>1. \A x, y \in Nat : (x + y) \div 2 \in Nat
      OBVIOUS
    <3> HIDE DEF a, b
    <3>2. QED BY <2>0, <3>1
  <2>3. /\ h \in Seq(SecondsWindow) /\ Len(h) = 2 /\ h[1] = <<a, mid>> /\ h[2] = <<mid + 1, b>>
    <3>1. h = <<<<a, mid>>, <<mid + 1, b>>>>
      BY DEF Halves
    <3> HIDE DEF mid, h, a, b
    <3>2. <<a, mid>> \in SecondsWindow /\ <<mid + 1, b>> \in SecondsWindow
      BY <2>0, <2>2 DEF SecondsWindow
    <3>3. QED BY <3>1, <3>2
  <2> HIDE DEF mid, p, h, a, b
  <2>4. /\ p \o h \in Seq(SecondsWindow) /\ Len(p) \in Nat /\ Len(p \o h) = Len(p) + 2
        /\ \A i \in 1..Len(p) : (p \o h)[i] = p[i]
        /\ (p \o h)[Len(p) + 1] = h[1] /\ (p \o h)[Len(p) + 2] = h[2]
    <3>1. Len(p) \in Nat
      BY <2>0
    <3>2. /\ p \o h \in Seq(SecondsWindow) /\ Len(p \o h) = Len(p) + Len(h)
          /\ \A i \in 1..Len(p) + Len(h) :
               (p \o h)[i] = IF i <= Len(p) THEN p[i] ELSE h[i - Len(p)]
      BY <2>0, <2>3, ConcatProperties
    <3>3. \A i \in 1..Len(p) : (p \o h)[i] = p[i]
      BY <2>3, <3>1, <3>2
    <3>4. (p \o h)[Len(p) + 1] = h[1] /\ (p \o h)[Len(p) + 2] = h[2]
      BY <2>3, <3>1, <3>2
    <3>5. QED BY <2>3, <3>1, <3>2, <3>3, <3>4
  <2>5. /\ call' \in CallState /\ call'.pending = p \o h
        /\ call'.at = call.at /\ call'.win = call.win /\ call'.known = call.known
        /\ call'.lo = call.lo /\ call'.hi = call.hi
    BY <2>0, <2>1, <2>4 DEF CallState
  <2>6. SyncTypes'
    BY <2>1, <2>5 DEF SyncInv, SyncTypes
  <2>7. StoreInv' /\ ReadInv'
    BY <1>1, <2>1 DEF SyncInv, StoreInv, ReadInv, Stored
  <2>8. Halved'
    <3>1. Last(p \o h) = h[2] /\ p \o h # <<>>
      BY <2>4 DEF Last
    <3>2. QED BY <2>3, <2>5, <3>1 DEF Halved, b
  <2>9. ASSUME NEW f \in Fills, Asked(f)'
        PROVE  Stored(f)' \/ \E i \in 1..Len(call'.pending) : Inside(f, call'.pending[i])
    <3>1. Asked(f) /\ f.sec \in Nat
      BY <2>5, <2>9, LedgerAssumption DEF Asked
    <3>2. \/ Stored(f)
          \/ \E i \in 1..Len(p) : Inside(f, p[i])
          \/ f \in WindowFills
      BY <1>1, <3>1 DEF SyncInv, CoverInv, p
    <3>3. CASE Stored(f)
      BY <2>1, <3>3 DEF Stored
    <3>4. ASSUME NEW i \in 1..Len(p), Inside(f, p[i])
          PROVE  \E j \in 1..Len(call'.pending) : Inside(f, call'.pending[j])
      <4>1. i \in 1..Len(call'.pending) /\ call'.pending[i] = p[i]
        BY <2>4, <2>5
      <4>2. QED BY <3>4, <4>1
    <3>5. CASE f \in WindowFills
      <4>1. a <= f.sec /\ f.sec <= b
        BY <3>5 DEF WindowFills, Within, a, b
      <4>2. f.sec <= mid \/ mid + 1 <= f.sec
        BY <2>2, <3>1
      <4>3. Inside(f, h[1]) \/ Inside(f, h[2])
        BY <2>3, <4>1, <4>2 DEF Inside
      <4>4. Len(p) + 1 \in 1..Len(call'.pending) /\ Len(p) + 2 \in 1..Len(call'.pending)
        BY <2>4, <2>5
      <4>5. QED BY <2>4, <2>5, <4>3, <4>4
    <3>6. QED BY <3>2, <3>3, <3>4, <3>5
  <2>10. CoverInv'
    BY <2>8, <2>9 DEF CoverInv
  <2>11. QED BY <2>6, <2>7, <2>10 DEF SyncInv
<1>4. QED BY <1>2, <1>3

LEMMA PublishKeeps == ASSUME SyncInv, Publish PROVE SyncInv'
<1>1. /\ pc = "publish" /\ pc' = "register" /\ listed' = listed /\ keys' = keys /\ call' = call
      /\ cut' = cut /\ raw' = [f \in Fills |-> raw[f] + IF f \in Fresh THEN 1 ELSE 0]
  BY DEF Publish
<1>2. raw \in [Fills -> Nat] /\ raw' \in [Fills -> Nat]
  BY <1>1 DEF SyncInv, SyncTypes
<1>3. \A f \in Fills : Stored(f) => Stored(f)'
  BY <1>1, <1>2 DEF Stored
<1>4. \A f \in Fresh : f \in Fills /\ f \in call.staged /\ f.id \notin keys
  BY DEF Fresh, SyncInv, SyncTypes, CallState
<1>5. SyncTypes'
  BY <1>1, <1>2 DEF SyncInv, SyncTypes
<1>6. ASSUME NEW f \in Fills \ cut
      PROVE  raw'[f] <= 1 /\ (Stored(f)' => f.id \in keys \/ f \in call.staged)
  <2>1. raw[f] <= 1 /\ (Stored(f) => f.id \in keys)
    BY <1>1 DEF SyncInv, StoreInv
  <2>2. CASE f \in Fresh
    BY <1>1, <1>2, <1>4, <2>1, <2>2 DEF Stored
  <2>3. CASE f \notin Fresh
    BY <1>1, <1>2, <2>1, <2>3 DEF Stored
  <2>4. QED BY <2>2, <2>3
<1>7. ASSUME NEW f \in call.staged PROVE Stored(f)'
  <2>1. f \in Fills
    BY DEF SyncInv, SyncTypes, CallState
  <2>2. CASE f.id \in keys
    BY <1>3, <2>1, <2>2 DEF SyncInv, StoreInv
  <2>3. CASE f.id \notin keys
    <3>1. f \in Fresh
      BY <2>3 DEF Fresh
    <3>2. QED BY <1>1, <1>2, <2>1, <3>1 DEF Stored
  <2>4. QED BY <2>2, <2>3
<1>8. StoreInv'
  BY <1>1, <1>3, <1>6, <1>7 DEF SyncInv, StoreInv
<1>9. ReadInv'
  BY <1>1 DEF SyncInv, ReadInv, WindowFills
<1>10. CoverInv'
  BY <1>1, <1>3 DEF SyncInv, CoverInv, Asked, WindowFills
<1>11. QED BY <1>5, <1>8, <1>9, <1>10 DEF SyncInv

LEMMA RegisterKeeps == ASSUME SyncInv, Register PROVE SyncInv'
<1>1. /\ pc = "register" /\ pc' = "loop" /\ listed' = listed /\ raw' = raw /\ call' = call
      /\ cut' = cut /\ keys' = keys \cup {f.id : f \in call.staged}
  BY DEF Register
<1>2. SyncTypes'
  BY <1>1 DEF SyncInv, SyncTypes
<1>3. call.staged \subseteq Fills /\ \A f \in call.staged : Stored(f)
  BY <1>1 DEF SyncInv, SyncTypes, CallState, StoreInv
<1>4. ASSUME NEW f \in Fills, f.id \in keys' PROVE Stored(f)
  <2>1. CASE f.id \in keys
    BY <2>1 DEF SyncInv, StoreInv
  <2>2. ASSUME NEW g \in call.staged, f.id = g.id PROVE Stored(f)
    BY <1>3, <2>2, LedgerAssumption
  <2>3. QED BY <1>1, <1>4, <2>1, <2>2
<1>5. StoreInv'
  <2>1. \A f \in Fills : f.id \in keys' => Stored(f)'
    BY <1>1, <1>4 DEF Stored
  <2>2. \A f \in Fills \ cut' : raw'[f] <= 1 /\ (Stored(f)' => f.id \in keys')
    BY <1>1 DEF SyncInv, StoreInv, Stored
  <2>3. QED BY <1>1, <2>1, <2>2 DEF StoreInv
<1>6. ReadInv'
  BY <1>1 DEF ReadInv
<1>7. \A f \in WindowFills : Stored(f)'
  BY <1>1, <1>3 DEF SyncInv, ReadInv, Stored
<1>8. CoverInv'
  BY <1>1, <1>7 DEF SyncInv, CoverInv, Asked, WindowFills, Stored
<1>9. QED BY <1>2, <1>5, <1>6, <1>8 DEF SyncInv

\* What the store looks like to the other programs does not depend on them.
LEMMA SyncStays ==
  ASSUME SyncInv, UNCHANGED <<listed, store, pc, call, cut>> PROVE SyncInv'
<1>1. /\ listed' = listed /\ raw' = raw /\ keys' = keys /\ pc' = pc /\ call' = call /\ cut' = cut
  BY DEF store
<1>2. SyncTypes' /\ StoreInv'
  BY <1>1 DEF SyncInv, SyncTypes, StoreInv, Stored
<1>3. ReadInv' /\ CoverInv'
  <2>1. Served' = Served /\ WindowFills' = WindowFills /\ Halved' = Halved
    BY <1>1 DEF Served, WindowFills, Halved
  <2>2. QED BY <1>1, <2>1 DEF SyncInv, ReadInv, CoverInv, Stored, Asked
<1>4. QED BY <1>2, <1>3 DEF SyncInv

LEMMA SyncStepKeeps == ASSUME SyncInv, SyncNext PROVE SyncInv'
<1>1. CASE \E f \in Fills : List(f)
  BY <1>1, ListKeeps
<1>2. CASE \E r \in Ranges : StartSync(r)
  BY <1>2, StartSyncKeeps
<1>3. CASE SyncStep
  <2>1. Completes \/ TooManyWindows => SyncInv'
    BY ReturnKeeps DEF Completes, TooManyWindows
  <2>2. PopWindow => SyncInv'
    BY PopKeeps
  <2>3. Fetch \/ CapHit \/ Capped => SyncInv'
    BY FetchKeeps, CapHitKeeps, CappedKeeps
  <2>4. Publish \/ Register => SyncInv'
    BY PublishKeeps, RegisterKeeps
  <2>5. QED BY <1>3, <2>1, <2>2, <2>3, <2>4 DEF SyncStep
<1>4. CASE Breaks
  BY <1>4, BreaksKeeps
<1>5. CASE IgnoreBounds
  BY <1>5, IgnoreKeeps
<1>6. QED BY <1>1, <1>2, <1>3, <1>4, <1>5 DEF SyncNext

LEMMA SyncHolds == CohortSpec => []SyncInv
<1>1. CohortInit => SyncInv
  BY SyncStarts DEF CohortInit
<1>2. SyncInv /\ [CohortNext]_cohortVars => SyncInv'
  <2> SUFFICES ASSUME SyncInv, [CohortNext]_cohortVars PROVE SyncInv'
    OBVIOUS
  <2>1. CASE Sync
    BY <2>1, SyncStepKeeps DEF Sync
  <2>2. CASE ~Sync
    <3>1. UNCHANGED <<listed, store, pc, call, cut>>
      BY <2>2 DEF CohortNext, cohortVars, syncVars, Truth, Record, Derive, InitBaseline, Merge,
                  Build, StartBuild, WriteFeatures, WriteProvenance, BuildDies, SyncRest,
                  Check, StartCheck, Upsert, Trigger, Report, EndCheck, CheckDies
    <3>2. QED BY <3>1, SyncStays
  <2>3. QED BY <2>1, <2>2
<1>3. QED BY <1>1, <1>2, PTL DEF CohortSpec

(* SlicesWhole: a window that was done and not halved holds all that was     *)
(* listed for it, a call that is complete all of its range that was listed   *)
(* when it started, and only what was cut is written twice.  It is the       *)
(* staging of _fetch_window that carries it: a fill listed before the window *)
(* was read is staged or on a later page, so that a page that is not full    *)
(* leaves nothing behind, whatever is listed meanwhile and wherever the API  *)
(* stops honoring the window.                                                *)
THEOREM SlicesAreWhole == CohortSpec => []SlicesWhole
<1>1. SyncInv => SlicesWhole
  <2> SUFFICES ASSUME SyncInv PROVE SlicesWhole
    OBVIOUS
  <2>1. pc = "loop" /\ ~Halved =>
          \A f \in Within(call.at, call.win[1], call.win[2]) : Stored(f)
    BY DEF SyncInv, CoverInv, WindowFills
  <2>2. ASSUME pc = "loop", call.pending = <<>>, NEW f \in call.known,
               call.lo <= 2 * f.sec /\ 2 * f.sec <= call.hi
        PROVE  Stored(f)
    <3>1. f \in Fills /\ Asked(f) /\ 1..Len(call.pending) = {}
      BY <2>2 DEF SyncInv, SyncTypes, CallState, Asked
    <3>2. QED BY <2>2, <3>1 DEF SyncInv, CoverInv
  <2>3. \A f \in Fills \ cut : raw[f] <= 1
    BY DEF SyncInv, StoreInv
  <2>4. QED BY <2>1, <2>2, <2>3 DEF SlicesWhole
<1>2. QED BY <1>1, SyncHolds, PTL

-----------------------------------------------------------------------------
(* What is made of the prospective store                                   *)

\* Features of rows of a ledger, one for each market.
TrueTo(features, rows) ==
  /\ IsFiniteSet(features)
  /\ \A f \in features : /\ f.market \in DOMAIN rows
                         /\ rows[f.market].opp.last = f.at /\ rows[f.market].y30 = f.y30
  /\ \A f, g \in features : f.market = g.market => f = g

\* What the programs read and wrote is of the ledger as it is.
BuildInv ==
  /\ build = [pc |-> build.pc, rows |-> build.rows, features |-> build.features]
  /\ TrueTo(build.features, ledger)
CheckInv ==
  /\ check = [pc |-> check.pc, features |-> check.features, prov |-> check.prov,
              point |-> check.point, due |-> check.due]
  /\ TrueTo(check.features, ledger)
FilesInv ==
  /\ BuildInv /\ CheckInv
  /\ featureFile # NoFile => TrueTo(featureFile, ledger)
  /\ derived # NoFile => IsFiniteSet(DOMAIN derived.rows)
  /\ baseline # NoFile =>
       \A m \in DOMAIN baseline : m \in DOMAIN ledger /\ ledger[m] = baseline[m]

\* The cohort has a market once.
CohortRows ==
  /\ cohort \in Seq(Range(cohort))
  /\ \A i \in 1..Len(cohort) : /\ cohort[i].market \in DOMAIN ledger
                               /\ ledger[cohort[i].market].opp.last = cohort[i].at
  /\ \A i, j \in 1..Len(cohort) : cohort[i].market = cohort[j].market => i = j

\* A checkpoint is on record before it is reported.
PointsInv ==
  /\ reports \in [Checkpoints -> Nat]
  /\ \A p \in Checkpoints : reports[p] <= 1 /\ (reports[p] = 1 => p \in triggered)
  /\ \A p \in Checkpoints \cap triggered : Cardinality(CoveredMarkets) >= p
  /\ check.pc = "manual" => check.point # 0
  /\ check.pc = "report" /\ check.point = 0 =>
       check.due \subseteq Checkpoints \cap triggered /\ \A p \in check.due : reports[p] = 0

\* An image of a finite set
LEMMA ImageFinite ==
  ASSUME NEW S, IsFiniteSet(S), NEW F, DOMAIN F = S
  PROVE  IsFiniteSet({F[x] : x \in S})
<1> DEFINE T == {F[x] : x \in S}
           h == [x \in S |-> F[x]]
<1>1. h \in Surjection(S, T)
  BY DEF Surjection
<1> HIDE DEF T, h
<1>2. IsFiniteSet(T)
  BY <1>1, FS_Surjection
<1>3. QED BY <1>2 DEF T

\* The ledger only grows: rows are added, none is changed.
LedgerGrows == \A m \in DOMAIN ledger : m \in DOMAIN ledger' /\ ledger'[m] = ledger[m]
LEMMA LedgerStep == ASSUME [CohortNext]_cohortVars PROVE LedgerGrows
<1>1. CASE Merge
  <2> DEFINE d == derived.rows
  <2>1. /\ ledger' = [m \in DOMAIN ledger \cup DOMAIN d |->
                        IF m \in DOMAIN d THEN d[m] ELSE ledger[m]]
        /\ Conflicts(d) = {}
    BY <1>1 DEF Merge
  <2>2. \A m \in DOMAIN d \cap DOMAIN ledger : d[m] = ledger[m]
    BY <2>1 DEF Conflicts
  <2> HIDE DEF d
  <2>3. QED BY <2>1, <2>2 DEF LedgerGrows
<1>2. CASE ~Merge
  <2>1. ledger' = ledger
    BY <1>2 DEF CohortNext, cohortVars, built, Sync, Truth, Record, Derive, InitBaseline,
                Build, StartBuild, WriteFeatures, WriteProvenance, BuildDies,
                Check, StartCheck, Upsert, Trigger, Report, EndCheck, CheckDies
  <2>2. QED BY <2>1 DEF LedgerGrows
<1>3. QED BY <1>1, <1>2

LEMMA TrueToGrown ==
  ASSUME NEW F, TrueTo(F, ledger), LedgerGrows PROVE TrueTo(F, ledger')
  BY DEF TrueTo, LedgerGrows

\* What a step does to each file and program.
LEMMA BuildSteps ==
  ASSUME [CohortNext]_cohortVars
  PROVE  \/ build' = build
         \/ build' = NoBuild
         \/ StartBuild
         \/ build' = [build EXCEPT !.pc = "provenance"]
  BY DEF CohortNext, cohortVars, Sync, Truth, Record, Derive, InitBaseline, Merge,
         Build, StartBuild, WriteFeatures, WriteProvenance, BuildDies,
         Check, StartCheck, Upsert, Trigger, Report, EndCheck, CheckDies

LEMMA CheckSteps ==
  ASSUME [CohortNext]_cohortVars
  PROVE  \/ UNCHANGED <<check, cohort, triggered, reports>>
         \/ UNCHANGED <<cohort, triggered, reports>> /\ check' = NoCheck
         \/ \E p \in Checkpoints, manual \in BOOLEAN : StartCheck(p, manual)
         \/ StartCheck(0, FALSE)
         \/ Upsert \/ Trigger \/ Report
  BY DEF CohortNext, cohortVars, Sync, Truth, Record, Derive, InitBaseline, Merge,
         Build, StartBuild, WriteFeatures, WriteProvenance, BuildDies,
         Check, EndCheck, CheckDies

LEMMA FileSteps ==
  ASSUME [CohortNext]_cohortVars
  PROVE  /\ featureFile' = featureFile \/ featureFile' = build.features
         /\ derived' = derived \/ Derive
         /\ baseline' = baseline \/ (baseline' = ledger /\ ledger' = ledger)
<1>1. featureFile' = featureFile \/ featureFile' = build.features
  BY DEF CohortNext, cohortVars, Sync, Truth, Record, Derive, InitBaseline, Merge,
         Build, StartBuild, WriteFeatures, WriteProvenance, BuildDies,
         Check, StartCheck, Upsert, Trigger, Report, EndCheck, CheckDies
<1>2. derived' = derived \/ Derive
  BY DEF CohortNext, cohortVars, built, Sync, Truth, Record, InitBaseline, Merge,
         Build, StartBuild, WriteFeatures, WriteProvenance, BuildDies,
         Check, StartCheck, Upsert, Trigger, Report, EndCheck, CheckDies
<1>3. baseline' = baseline \/ (baseline' = ledger /\ ledger' = ledger)
  BY DEF CohortNext, cohortVars, built, Sync, Truth, Record, Derive, InitBaseline, Merge,
         Build, StartBuild, WriteFeatures, WriteProvenance, BuildDies,
         Check, StartCheck, Upsert, Trigger, Report, EndCheck, CheckDies
<1>4. QED BY <1>1, <1>2, <1>3

LEMMA BuildKeeps ==
  ASSUME FilesInv, [CohortNext]_cohortVars PROVE BuildInv'
<1>1. LedgerGrows
  BY LedgerStep
<1>2. CASE build' = build
  BY <1>1, <1>2, TrueToGrown DEF FilesInv, BuildInv
<1>3. CASE build' = NoBuild
  <2>1. IsFiniteSet({})
    BY FS_EmptySet
  <2>2. QED BY <1>3, <2>1 DEF BuildInv, NoBuild, TrueTo
<1>4. CASE build' = [build EXCEPT !.pc = "provenance"]
  <2>1. build'.features = build.features /\ build'.rows = build.rows /\ build'.pc = "provenance"
        /\ build' = [pc |-> "provenance", rows |-> build.rows, features |-> build.features]
    BY <1>4 DEF FilesInv, BuildInv
  <2>2. TrueTo(build.features, ledger')
    BY <1>1, TrueToGrown DEF FilesInv, BuildInv
  <2>3. QED BY <2>1, <2>2 DEF BuildInv
<1>5. CASE StartBuild
  <2> DEFINE ms == {n \in DOMAIN derived.rows : Labelled(ledger[n])}
             F == {FeatureOf(m) : m \in ms}
  <2>1. /\ derived # NoFile /\ DOMAIN derived.rows \subseteq DOMAIN ledger
        /\ build' = [pc |-> "features", rows |-> ledger, features |-> F] /\ ledger' = ledger
    BY <1>5 DEF StartBuild, built
  <2>2. IsFiniteSet(ms) /\ ms \subseteq DOMAIN ledger
    BY <2>1, FS_Subset DEF FilesInv
  <2> HIDE DEF ms
  <2>3. IsFiniteSet(F)
    <3> DEFINE fn == [m \in ms |-> FeatureOf(m)]
    <3>1. DOMAIN fn = ms /\ F = {fn[m] : m \in ms}
      OBVIOUS
    <3> HIDE DEF fn, F
    <3>2. QED BY <2>2, <3>1, ImageFinite
  <2>4. ASSUME NEW f \in F
        PROVE  /\ f.market \in DOMAIN ledger /\ f = FeatureOf(f.market)
               /\ ledger[f.market].opp.last = f.at /\ ledger[f.market].y30 = f.y30
    <3>1. PICK m \in ms : f = FeatureOf(m)
      OBVIOUS
    <3>2. f.market = m /\ f.at = ledger[m].opp.last /\ f.y30 = ledger[m].y30
      BY <3>1 DEF FeatureOf
    <3>3. QED BY <2>2, <3>1, <3>2
  <2> HIDE DEF F
  <2>5. \A f, g \in F : f.market = g.market => f = g
    <3> SUFFICES ASSUME NEW f \in F, NEW g \in F, f.market = g.market PROVE f = g
      OBVIOUS
    <3>1. f = FeatureOf(f.market) /\ g = FeatureOf(g.market)
      BY <2>4
    <3>2. QED BY <3>1
  <2>6. TrueTo(F, ledger)
    BY <2>3, <2>4, <2>5 DEF TrueTo
  <2>7. QED BY <2>1, <2>6 DEF BuildInv
<1>6. QED BY <1>2, <1>3, <1>4, <1>5, BuildSteps

LEMMA CheckKeeps ==
  ASSUME FilesInv, [CohortNext]_cohortVars PROVE CheckInv'
<1>1. LedgerGrows
  BY LedgerStep
<1> DEFINE Form(c) == c = [pc |-> c.pc, features |-> c.features, prov |-> c.prov,
                           point |-> c.point, due |-> c.due]
<1>2. Form(check) /\ TrueTo(check.features, ledger')
  BY <1>1, TrueToGrown DEF FilesInv, CheckInv
<1>3. /\ Form(check') /\ \/ check'.features = check.features
                         \/ check'.features = {}
                         \/ featureFile # NoFile /\ check'.features = featureFile
  <2>1. CASE check' = check
    BY <1>2, <2>1
  <2>2. CASE check' = NoCheck
    BY <2>2 DEF NoCheck
  <2>3. ASSUME NEW p, NEW manual, StartCheck(p, manual)
        PROVE  Form(check') /\ check'.features = featureFile /\ featureFile # NoFile
    BY <2>3 DEF StartCheck, NoCheck
  <2>4. CASE Upsert
    BY <1>2, <2>4 DEF Upsert
  <2>5. CASE Trigger
    BY <1>2, <2>5 DEF Trigger
  <2>6. CASE Report
    BY <1>2, <2>6 DEF Report
  <2>7. QED BY <2>1, <2>2, <2>3, <2>4, <2>5, <2>6, CheckSteps
<1>4. TrueTo({}, ledger')
  BY FS_EmptySet DEF TrueTo
<1>5. featureFile # NoFile => TrueTo(featureFile, ledger')
  BY <1>1, TrueToGrown DEF FilesInv
<1>6. QED BY <1>2, <1>3, <1>4, <1>5 DEF CheckInv

LEMMA FilesKeep ==
  ASSUME FilesInv, [CohortNext]_cohortVars PROVE FilesInv'
<1>1. LedgerGrows
  BY LedgerStep
<1>2. featureFile' # NoFile => TrueTo(featureFile', ledger')
  <2>1. CASE featureFile' = featureFile
    BY <1>1, <2>1, TrueToGrown DEF FilesInv
  <2>2. CASE featureFile' = build.features
    BY <1>1, <2>2, TrueToGrown DEF FilesInv, BuildInv
  <2>3. QED BY <2>1, <2>2, FileSteps
<1>3. derived' # NoFile => IsFiniteSet(DOMAIN derived'.rows)
  <2>1. CASE derived' = derived
    BY <2>1 DEF FilesInv
  <2>2. CASE Derive
    <3> DEFINE S == {g \in Fills : LoadFills(raw)[g] > 0}
               fn == [f \in S |-> f.market]
    <3>1. derived'.rows = LedgerRows(LoadFills(raw), Coverage)
      BY <2>2 DEF Derive
    <3>2. DOMAIN derived'.rows = {fn[f] : f \in S}
      BY <3>1 DEF LedgerRows
    <3>3. IsFiniteSet(S) /\ DOMAIN fn = S
      BY LedgerAssumption, FS_Subset
    <3> HIDE DEF S, fn
    <3>4. QED BY <3>2, <3>3, ImageFinite
  <2>3. QED BY <2>1, <2>2, FileSteps
<1>4. baseline' # NoFile =>
        \A m \in DOMAIN baseline' : m \in DOMAIN ledger' /\ ledger'[m] = baseline'[m]
  <2>1. CASE baseline' = baseline
    BY <1>1, <2>1 DEF FilesInv, LedgerGrows
  <2>2. CASE baseline' = ledger /\ ledger' = ledger
    BY <2>2
  <2>3. QED BY <2>1, <2>2, FileSteps
<1>5. BuildInv' /\ CheckInv'
  BY BuildKeeps, CheckKeeps
<1>6. QED BY <1>2, <1>3, <1>4, <1>5 DEF FilesInv

\* A finite set as a sequence: each member at one place
LEMMA SetToSeqLists ==
  ASSUME NEW S, IsFiniteSet(S)
  PROVE  /\ SetToSeq(S) \in Seq(S) /\ Len(SetToSeq(S)) \in Nat
         /\ \A i, j \in 1..Len(SetToSeq(S)) : SetToSeq(S)[i] = SetToSeq(S)[j] => i = j
<1> DEFINE n == Cardinality(S)
           s == SetToSeq(S)
<1>1. n \in Nat /\ ExistsBijection(1..n, S)
  BY FS_CardinalityType
<1>2. \E f \in [1..n -> S] : IsInjective(f)
  BY <1>1 DEF ExistsBijection, Bijection, Injection
<1>3. s \in [1..n -> S] /\ IsInjective(s)
  BY <1>2 DEF SetToSeq
<1> HIDE DEF n, s
<1>4. s \in Seq(S) /\ Len(s) = n /\ DOMAIN s = 1..n
  <2>1. s \in Seq(S) /\ DOMAIN s = 1..n
    BY <1>1, <1>3
  <2>2. Len(s) \in Nat /\ DOMAIN s = 1..Len(s)
    BY <2>1
  <2>3. Len(s) = n
    BY <1>1, <1>3, <2>2, LenProperties
  <2>4. QED BY <2>1, <2>3
<1>5. \A i, j \in 1..Len(s) : s[i] = s[j] => i = j
  BY <1>3, <1>4 DEF IsInjective
<1>6. QED BY <1>1, <1>4, <1>5 DEF s

\* The observations to be inserted: of the ledger's rows, of markets that the
\* cohort does not have, each once.
LEMMA InsertedRows ==
  ASSUME FilesInv, CohortRows
  PROVE  /\ IsFiniteSet(Inserted)
         /\ \A o \in Inserted : /\ o.market \in DOMAIN ledger
                                /\ ledger[o.market].opp.last = o.at
                                /\ \A i \in 1..Len(cohort) : cohort[i].market # o.market
         /\ \A o, q \in Inserted : o.market = q.market => o = q
<1> DEFINE G == {g \in check.features : g.eligible /\ Of[g.market].start >= CohortStart}
           fn == [g \in G |-> Observation(g)]
<1>1. TrueTo(check.features, ledger)
  BY DEF FilesInv, CheckInv
<1>2. IsFiniteSet(G) /\ DOMAIN fn = G
  BY <1>1, FS_Subset DEF TrueTo
<1>3. Candidates = {fn[g] : g \in G}
  BY DEF Candidates
<1>4. IsFiniteSet(Candidates)
  <2> HIDE DEF G, fn
  <2>1. QED BY <1>2, <1>3, ImageFinite
<1>5. IsFiniteSet(Inserted)
  BY <1>4, FS_Subset DEF Inserted
<1>6. ASSUME NEW o \in Inserted
      PROVE  \E g \in check.features : o = Observation(g) /\ o.market = g.market /\ o.at = g.at
  BY <1>6 DEF Inserted, Candidates, Observation
<1>7. ASSUME NEW o \in Inserted
      PROVE  o.market \in DOMAIN ledger /\ ledger[o.market].opp.last = o.at
  BY <1>1, <1>6, <1>7 DEF TrueTo
<1>8. ASSUME NEW o \in Inserted, NEW i \in 1..Len(cohort), cohort[i].market = o.market
      PROVE  FALSE
  <2>1. cohort[i].at = o.at
    BY <1>7, <1>8 DEF CohortRows
  <2>2. ~IsKnown(o)
    BY <1>8 DEF Inserted
  <2>3. QED BY <1>8, <2>1, <2>2 DEF IsKnown
<1>9. ASSUME NEW o \in Inserted, NEW q \in Inserted, o.market = q.market PROVE o = q
  <2>1. PICK g \in check.features : o = Observation(g) /\ o.market = g.market
    BY <1>6
  <2>2. PICK h \in check.features : q = Observation(h) /\ q.market = h.market
    BY <1>6
  <2>3. g = h
    BY <1>1, <1>9, <2>1, <2>2 DEF TrueTo
  <2>4. QED BY <2>1, <2>2, <2>3
<1>10. QED BY <1>5, <1>7, <1>8, <1>9

\* Observations are appended, none is changed.
CohortGrows ==
  /\ Len(cohort) \in Nat /\ Len(cohort') \in Nat /\ Len(cohort) <= Len(cohort')
  /\ \A i \in 1..Len(cohort) : cohort'[i] = cohort[i]

LEMMA InOwnRange ==
  ASSUME NEW S, NEW s \in Seq(S) PROVE s \in Seq(Range(s))
<1>1. Len(s) \in Nat /\ DOMAIN s = 1..Len(s) /\ s = [i \in 1..Len(s) |-> s[i]]
  OBVIOUS
<1>2. \A i \in 1..Len(s) : s[i] \in Range(s)
  BY <1>1 DEF Range
<1>3. s \in [1..Len(s) -> Range(s)]
  BY <1>1, <1>2
<1>4. QED BY <1>1, <1>3

LEMMA UpsertRows ==
  ASSUME FilesInv, CohortRows, Upsert PROVE CohortRows' /\ CohortGrows
<1> DEFINE new == SetToSeq(Inserted)
           n == Len(cohort)
           S == Range(cohort) \cup Inserted
<1>1. cohort' = cohort \o new /\ ledger' = ledger
  BY DEF Upsert, built
<1>2. /\ new \in Seq(Inserted) /\ Len(new) \in Nat
      /\ \A i, j \in 1..Len(new) : new[i] = new[j] => i = j
  BY InsertedRows, SetToSeqLists
<1>3. cohort \in Seq(Range(cohort)) /\ n \in Nat
  BY DEF CohortRows
<1>4. \A i \in 1..Len(new) : new[i] \in Inserted
  <2> HIDE DEF new
  <2>1. QED BY <1>2, ElementOfSeq
<1> HIDE DEF new
<1>5. cohort \in Seq(S) /\ new \in Seq(S)
  BY <1>2, <1>3
<1>6. /\ cohort' \in Seq(S) /\ Len(cohort') = n + Len(new)
      /\ \A i \in 1..(n + Len(new)) : cohort'[i] = IF i <= n THEN cohort[i] ELSE new[i - n]
  <2> HIDE DEF S
  <2>1. QED BY <1>1, <1>5, ConcatProperties
<1>7. cohort' \in Seq(Range(cohort'))
  BY <1>6, InOwnRange
<1> HIDE DEF S
<1>8. \A i \in 1..n : i \in 1..(n + Len(new)) /\ cohort'[i] = cohort[i]
  BY <1>2, <1>3, <1>6
<1>9. ASSUME NEW i \in 1..(n + Len(new)), ~(i <= n)
      PROVE  i - n \in 1..Len(new) /\ cohort'[i] = new[i - n] /\ new[i - n] \in Inserted
  BY <1>2, <1>3, <1>4, <1>6, <1>9
<1>10. CohortGrows
  BY <1>2, <1>3, <1>6, <1>8 DEF CohortGrows
<1>11. ASSUME NEW i \in 1..(n + Len(new))
       PROVE  /\ cohort'[i].market \in DOMAIN ledger'
              /\ ledger'[cohort'[i].market].opp.last = cohort'[i].at
  <2>1. CASE i <= n
    <3>1. i \in 1..n /\ cohort'[i] = cohort[i]
      BY <1>3, <1>8, <2>1
    <3>2. QED BY <1>1, <3>1 DEF CohortRows
  <2>2. CASE ~(i <= n)
    <3>1. cohort'[i] \in Inserted
      BY <1>9, <2>2
    <3>2. QED BY <1>1, <3>1, InsertedRows
  <2>3. QED BY <2>1, <2>2
<1>12. ASSUME NEW i \in 1..(n + Len(new)), NEW j \in 1..(n + Len(new)),
              cohort'[i].market = cohort'[j].market
       PROVE  i = j
  <2>1. CASE i <= n /\ j <= n
    <3>1. i \in 1..n /\ j \in 1..n /\ cohort'[i] = cohort[i] /\ cohort'[j] = cohort[j]
      BY <1>3, <1>8, <2>1
    <3>2. QED BY <1>12, <3>1 DEF CohortRows
  <2>2. ASSUME NEW a \in 1..(n + Len(new)), NEW b \in 1..(n + Len(new)), a <= n, ~(b <= n)
        PROVE  cohort'[a].market # cohort'[b].market
    <3>1. a \in 1..n /\ cohort'[a] = cohort[a]
      BY <1>3, <1>8, <2>2
    <3>2. cohort'[b] \in Inserted
      BY <1>9, <2>2
    <3>3. QED BY <3>1, <3>2, InsertedRows
  <2>3. CASE ~(i <= n) /\ ~(j <= n)
    <3>1. /\ i - n \in 1..Len(new) /\ cohort'[i] = new[i - n] /\ new[i - n] \in Inserted
          /\ j - n \in 1..Len(new) /\ cohort'[j] = new[j - n] /\ new[j - n] \in Inserted
      BY <1>9, <2>3
    <3>2. new[i - n] = new[j - n]
      BY <1>12, <3>1, InsertedRows
    <3>3. i - n = j - n
      BY <1>2, <3>1, <3>2
    <3>4. QED BY <1>3, <3>3
  <2>4. QED BY <1>12, <2>1, <2>2, <2>3
<1>13. CohortRows'
  <2>1. Len(cohort)' = n + Len(new)
    BY <1>6
  <2>2. QED BY <1>7, <1>11, <1>12, <2>1 DEF CohortRows
<1>14. QED BY <1>10, <1>13

LEMMA RowsKeep ==
  ASSUME FilesInv, CohortRows, [CohortNext]_cohortVars PROVE CohortRows' /\ CohortGrows
<1>1. CASE Upsert
  BY <1>1, UpsertRows
<1>2. CASE ~Upsert
  <2>1. cohort' = cohort
    <3>1. \A p, manual : StartCheck(p, manual) => cohort' = cohort
      BY DEF StartCheck
    <3>2. Trigger \/ Report => cohort' = cohort
      BY DEF Trigger, Report
    <3>3. QED BY <1>2, <3>1, <3>2, CheckSteps
  <2>2. Len(cohort) \in Nat
    BY DEF CohortRows
  <2>3. CohortGrows
    BY <2>1, <2>2 DEF CohortGrows
  <2>4. CohortRows'
    BY <2>1, LedgerStep DEF CohortRows, LedgerGrows
  <2>5. QED BY <2>3, <2>4
<1>3. QED BY <1>1, <1>2

\* So a market that is covered stays covered, and their number does not fall.
LEMMA CoveredGrow ==
  ASSUME CohortGrows
  PROVE  /\ IsFiniteSet(CoveredMarkets') /\ CoveredMarkets \subseteq CoveredMarkets'
         /\ Cardinality(CoveredMarkets) \in Nat /\ Cardinality(CoveredMarkets') \in Nat
         /\ Cardinality(CoveredMarkets) <= Cardinality(CoveredMarkets')
<1> DEFINE I == {j \in 1..Len(cohort') : cohort'[j].covered}
           fn == [i \in I |-> cohort'[i].market]
<1>1. Len(cohort') \in Nat
  BY DEF CohortGrows
<1>2. IsFiniteSet(1..Len(cohort'))
  BY <1>1, FS_Interval
<1>3. IsFiniteSet(I) /\ DOMAIN fn = I
  BY <1>2, FS_Subset
<1>4. CoveredMarkets' = {fn[i] : i \in I}
  BY DEF CoveredMarkets
<1>5. CoveredMarkets \subseteq CoveredMarkets'
  <2>1. ASSUME NEW i \in 1..Len(cohort), cohort[i].covered
        PROVE  i \in 1..Len(cohort') /\ cohort'[i].covered /\ cohort'[i].market = cohort[i].market
    BY <2>1 DEF CohortGrows
  <2>2. QED BY <2>1 DEF CoveredMarkets
<1>6. IsFiniteSet(CoveredMarkets')
  <2> HIDE DEF I, fn
  <2>1. QED BY <1>3, <1>4, ImageFinite
<1>7. QED BY <1>5, <1>6, FS_Subset, FS_CardinalityType

-----------------------------------------------------------------------------
(* The rows of the event ledger                                            *)

LEMMA MinIsLeast ==
  ASSUME NEW T \in SUBSET Nat, T # {}
  PROVE  Min(T) \in T /\ \A t \in T : Min(T) <= t
<1>1. PICK n \in T : TRUE
  OBVIOUS
<1>2. \E m \in T : \A k \in T : m <= k
  BY <1>1, LeastNumber
<1>3. QED BY <1>2 DEF Min

LEMMA SmallestImage ==
  ASSUME NEW T, IsFiniteSet(T), T # {}, NEW F, \A x \in T : F[x] \subseteq T
  PROVE  \E x \in T : \A y \in T : F[y] \subseteq F[x] => F[y] = F[x]
<1> DEFINE B == {F[x] : x \in T}
<1>1. B \in SUBSET SUBSET T /\ B # {}
  OBVIOUS
<1>2. PICK m \in B : \A t \in B : t \subseteq m => t = m
  <2> HIDE DEF B
  <2>1. QED BY <1>1, SmallestSubset
<1>3. QED BY <1>2

LEMMA MaxIsGreatest ==
  ASSUME NEW T \in SUBSET Nat, T # {}, IsFiniteSet(T)
  PROVE  Max(T) \in T /\ \A t \in T : t <= Max(T)
<1> DEFINE F == [x \in T |-> {t \in T : x <= t}]
<1>1. \A x \in T : F[x] = {t \in T : x <= t}
  OBVIOUS
<1> HIDE DEF F
<1>2. PICK x \in T : \A y \in T : F[y] \subseteq F[x] => F[y] = F[x]
  <2> DEFINE S == T
  <2>1. IsFiniteSet(S) /\ S # {} /\ \A x \in S : F[x] \subseteq S
    BY <1>1
  <2>2. SUFFICES \E x \in S : \A y \in S : F[y] \subseteq F[x] => F[y] = F[x]
    OBVIOUS
  <2> HIDE DEF S
  <2>3. QED BY <2>1, SmallestImage
<1>3. ASSUME NEW y \in T, ~(y <= x) PROVE FALSE
  <2>1. x \in Nat /\ y \in Nat /\ \A t \in T : t \in Nat
    OBVIOUS
  <2>2. x <= x /\ \A t \in T : y <= t => x <= t
    BY <1>3, <2>1
  <2>3. x \in F[x] /\ x \notin F[y] /\ F[y] \subseteq F[x]
    BY <1>1, <1>3, <2>2
  <2>4. QED BY <1>2, <2>3
<1>4. \A y \in T : y <= x
  BY <1>3
<1>5. QED BY <1>4 DEF Max

\* Over ones a sum is a cardinality.
LEMMA SumOfOnes ==
  ASSUME NEW f, NEW S, IsFiniteSet(S), \A x \in S : f[x] = 1
  PROVE  SumOf(f, S) = Cardinality(S)
<1> DEFINE B == {s \in SUBSET S : SumOf(f, s) # Cardinality(s)}
<1>1. ASSUME B # {} PROVE FALSE
  <2>1. B \in SUBSET SUBSET S
    OBVIOUS
  <2>2. PICK m \in B : \A t \in B : t \subseteq m => t = m
    <3> HIDE DEF B
    <3>1. QED BY <1>1, <2>1, SmallestSubset
  <2>3. m \in SUBSET S /\ SumOf(f, m) # Cardinality(m) /\ IsFiniteSet(m)
    BY <2>2, FS_Subset
  <2>4. CASE m = {}
    BY <2>3, <2>4, SumEmpty, FS_EmptySet
  <2>5. CASE m # {}
    <3> DEFINE x == One(m)
               r == m \ {x}
    <3>1. x \in m /\ f[x] = 1
      BY <2>3, <2>5, OneIn
    <3>2. SumOf(f, m) = f[x] + SumOf(f, r)
      BY <2>3, <2>5, SumOne
    <3>3. r \in SUBSET S /\ r \subseteq m /\ r # m
      BY <2>3, <3>1
    <3>4. SumOf(f, r) = Cardinality(r)
      BY <2>2, <3>3
    <3>5. Cardinality(r) = Cardinality(m) - 1 /\ Cardinality(m) \in Nat
      BY <2>3, <3>1, FS_RemoveElement, FS_CardinalityType
    <3> HIDE DEF x, r
    <3>6. QED BY <2>3, <3>1, <3>2, <3>4, <3>5
  <2>6. QED BY <2>4, <2>5
<1>2. S \in SUBSET S
  OBVIOUS
<1>3. QED BY <1>1, <1>2

\* The first episode of some seconds reaches over those that are at most Gap
\* after another one, and what is after it is more than Gap after it.
LEMMA FirstEpisode ==
  ASSUME NEW T \in SUBSET Nat, T # {}, IsFiniteSet(T), NEW s, s = Min(Starts(T)),
         NEW last, last = Max({t \in T : t >= s /\ \A r \in Starts(T) : r > s => t < r})
  PROVE  /\ s = Min(T) /\ s \in Nat /\ last \in T /\ \A t \in T : s <= t
         /\ \A t \in T : t <= last <=> \A u \in T : u < t => \E v \in T : u < v /\ v <= u + Gap
         /\ \A t \in T : last < t => last + Gap < t
<1>0. Gap \in Nat /\ 0 < Gap
  BY LedgerAssumption
<1>1. Starts(T) \in SUBSET T /\ \A r \in Starts(T), t \in T : t < r => r - t > Gap
  BY DEF Starts
<1>2. Min(T) \in T /\ \A t \in T : Min(T) <= t
  BY MinIsLeast
<1>3. Min(T) \in Starts(T)
  <2> DEFINE a == Min(T)
  <2>1. a \in T /\ \A t \in T : a <= t
    BY <1>2
  <2> HIDE DEF a
  <2>2. \A t \in T : t \in Nat /\ a \in Nat /\ ~(t < a)
    BY <2>1
  <2>3. a \in Starts(T)
    BY <2>1, <2>2 DEF Starts
  <2>4. QED BY <2>3 DEF a
<1>4. s = Min(T) /\ s \in T /\ s \in Nat
  <2>1. s \in Starts(T) /\ s <= Min(T)
    BY <1>1, <1>3, MinIsLeast
  <2>2. s \in Nat /\ Min(T) \in Nat /\ Min(T) <= s
    BY <1>1, <1>2, <2>1
  <2>3. QED BY <1>1, <2>1, <2>2
<1> DEFINE E == {t \in T : t >= s /\ \A r \in Starts(T) : r > s => t < r}
<1>5. E \in SUBSET Nat /\ E \in SUBSET T /\ s \in E
  <2>1. s >= s /\ \A r \in Starts(T) : r > s => s < r
    BY <1>1, <1>4
  <2>2. QED BY <1>4, <2>1
<1>6. last \in E /\ \A t \in E : t <= last
  <2>1. IsFiniteSet(E) /\ last = Max(E)
    BY <1>5, FS_Subset
  <2> HIDE DEF E
  <2>2. QED BY <1>5, <2>1, MaxIsGreatest
<1>7. last \in T /\ last \in Nat /\ s <= last /\ \A r \in Starts(T) : r > s => last < r
  BY <1>5, <1>6
\* What is after the last second is not before some other start.
<1>8. ASSUME NEW t \in T, last < t PROVE \E r \in Starts(T) : r > s /\ r <= t
  <2>1. t \notin E
    BY <1>6, <1>7, <1>8
  <2>2. t \in Nat /\ t >= s
    BY <1>2, <1>4
  <2>3. PICK r \in Starts(T) : r > s /\ ~(t < r)
    BY <2>1, <2>2
  <2>4. r \in Nat
    BY <1>1
  <2>5. QED BY <2>2, <2>3, <2>4
<1> HIDE DEF E
<1>9. ASSUME NEW t \in T, last < t PROVE last + Gap < t
  <2>1. PICK r \in Starts(T) : r > s /\ r <= t
    BY <1>8, <1>9
  <2>2. last < r /\ r \in Nat /\ t \in Nat
    BY <1>1, <1>7, <2>1
  <2>3. r - last > Gap
    BY <1>1, <1>7, <2>2
  <2>4. QED BY <1>0, <1>7, <2>1, <2>2, <2>3
\* The second above one that is below the last is no start.
<1>10. ASSUME NEW t \in T, t <= last, NEW u \in T, u < t
       PROVE  \E v \in T : u < v /\ v <= u + Gap
  <2> DEFINE A == {v \in T : u < v}
  <2>1. A \in SUBSET Nat /\ t \in A
    BY <1>10
  <2>2. PICK v \in A : \A w \in A : v <= w
    <3> HIDE DEF A
    <3>1. QED BY <2>1, LeastNumber
  <2>3. v \in T /\ u < v /\ v <= t /\ v \in Nat /\ u \in Nat /\ t \in Nat
    BY <2>1, <2>2
  <2>4. SUFFICES ASSUME v > u + Gap PROVE FALSE
    BY <1>0, <2>3
  <2>5. ASSUME NEW w \in T, w < v PROVE v - w > Gap
    <3>1. w \in Nat /\ ~(u < w)
      BY <2>2, <2>3, <2>5
    <3>2. QED BY <1>0, <2>3, <2>4, <3>1
  <2>6. v \in Starts(T)
    BY <2>3, <2>5 DEF Starts
  <2>7. s <= u
    BY <1>2, <1>4
  <2>8. v > s
    BY <1>4, <2>3, <2>7
  <2>9. last < v
    BY <1>7, <2>6, <2>8
  <2>10. QED BY <1>7, <1>10, <2>3, <2>9
\* Below a start that is not the first there is a last second.
<1>11. ASSUME NEW t \in T, last < t
       PROVE  \E u \in T : u < t /\ \A v \in T : u < v => v > u + Gap
  <2>1. PICK r \in Starts(T) : r > s /\ r <= t
    BY <1>8, <1>11
  <2>2. r \in Nat /\ r \in T /\ t \in Nat
    BY <1>1
  <2> DEFINE A == {w \in T : w < r}
  <2>3. A \in SUBSET Nat /\ A \in SUBSET T /\ s \in A
    BY <1>4, <2>1, <2>2
  <2>4. IsFiniteSet(A)
    BY <2>3, FS_Subset
  <2>5. Max(A) \in A /\ \A w \in A : w <= Max(A)
    <3> HIDE DEF A
    <3>1. QED BY <2>3, <2>4, MaxIsGreatest
  <2> DEFINE u == Max(A)
  <2>6. u \in T /\ u < r /\ u \in Nat
    BY <2>5
  <2>7. r - u > Gap
    BY <1>1, <2>6
  <2>8. ASSUME NEW v \in T, u < v PROVE v > u + Gap
    <3>1. v \in Nat /\ v \notin A
      BY <2>5, <2>6, <2>8
    <3>2. r <= v
      BY <2>2, <3>1
    <3> HIDE DEF u
    <3>3. QED BY <1>0, <2>2, <2>6, <2>7, <3>1, <3>2
  <2> HIDE DEF u, A
  <2>9. u < t
    BY <2>1, <2>2, <2>6
  <2>10. QED BY <2>6, <2>8, <2>9
<1>12. ASSUME NEW t \in T
       PROVE  t <= last <=> \A u \in T : u < t => \E v \in T : u < v /\ v <= u + Gap
  <2>1. CASE t <= last
    BY <1>10, <2>1
  <2>2. CASE ~(t <= last)
    <3>1. last < t
      BY <1>7, <2>2
    <3>2. PICK u \in T : u < t /\ \A v \in T : u < v => v > u + Gap
      BY <1>11, <3>1
    <3>3. \A v \in T : u < v => ~(v <= u + Gap)
      BY <1>0, <3>2
    <3>4. QED BY <2>2, <3>2, <3>3
  <2>3. QED BY <2>1, <2>2
<1>13. QED BY <1>2, <1>4, <1>7, <1>9, <1>12

\* The direction whose first buy is earliest
LEMMA InitialIsFirst ==
  ASSUME NEW buys \in SUBSET Fills, buys # {}
  PROVE  \A f \in buys : \E g \in buys : g.dir = Initial(buys) /\ g.sec <= f.sec
<1>1. \A f \in buys : f.sec \in Nat
  BY LedgerAssumption
<1>2. ASSUME NEW d \in Directions(buys)
      PROVE  /\ SecondsOf(buys, d) \in SUBSET Nat /\ FirstBuy(buys, d) \in Nat
             /\ FirstBuy(buys, d) \in SecondsOf(buys, d)
             /\ \A t \in SecondsOf(buys, d) : FirstBuy(buys, d) <= t
  <2>1. SecondsOf(buys, d) \in SUBSET Nat /\ SecondsOf(buys, d) # {}
    BY <1>1 DEF SecondsOf, Directions
  <2>2. QED BY <2>1, MinIsLeast DEF FirstBuy
<1> DEFINE A == {FirstBuy(buys, d) : d \in Directions(buys)}
<1>3. PICK a \in A : \A b \in A : a <= b
  <2>1. A \in SUBSET Nat /\ A # {}
    BY <1>2 DEF Directions
  <2> HIDE DEF A
  <2>2. QED BY <2>1, MinIsLeast
<1>4. \E d \in Directions(buys) : \A e \in Directions(buys) : FirstBuy(buys, d) <= FirstBuy(buys, e)
  BY <1>3
<1> DEFINE i == Initial(buys)
<1>5. i \in Directions(buys) /\ \A e \in Directions(buys) : FirstBuy(buys, i) <= FirstBuy(buys, e)
  BY <1>4 DEF Initial
<1> HIDE DEF i
<1>6. ASSUME NEW f \in buys PROVE \E g \in buys : g.dir = i /\ g.sec <= f.sec
  <2>1. f.dir \in Directions(buys) /\ f.sec \in SecondsOf(buys, f.dir)
    BY DEF Directions, SecondsOf
  <2>2. PICK g \in buys : g.dir = i /\ g.sec = FirstBuy(buys, i)
    BY <1>2, <1>5 DEF SecondsOf
  <2>3. FirstBuy(buys, f.dir) <= f.sec /\ FirstBuy(buys, i) <= FirstBuy(buys, f.dir)
    BY <1>2, <1>5, <2>1
  <2>4. FirstBuy(buys, f.dir) \in Nat /\ FirstBuy(buys, i) \in Nat /\ f.sec \in Nat
    BY <1>1, <1>2, <1>5, <2>1
  <2>5. QED BY <2>2, <2>3, <2>4
<1>7. QED BY <1>6 DEF i

\* A quantity counts every fill once.
LEMMA QtyCounts ==
  ASSUME NEW lines \in [Fills -> Nat], NEW S \in SUBSET Fills, \A f \in S : lines[f] > 0
  PROVE  Qty(LoadFills(lines), S) = Cardinality(S)
<1> DEFINE L == LoadFills(lines)
<1>1. IsFiniteSet(S)
  BY LedgerAssumption, FS_Subset
<1>2. \A f \in S : L[f] = 1
  BY DEF LoadFills
<1>3. Qty(L, S) = SumOf(L, S)
  BY DEF Qty, SumOf
<1> HIDE DEF L
<1>4. SumOf(L, S) = Cardinality(S)
  BY <1>1, <1>2, SumOfOnes
<1>5. QED BY <1>3, <1>4 DEF L

\* The fills of a row's buys, and the episode of a direction by its fills
LoadedBuys(lines, buys) == buys \in SUBSET Fills /\ \A f \in buys : lines[f] > 0

EpisodeOf(opp, buys, dir, T) ==
  /\ opp.dir = dir /\ opp.start = Min(T)
  /\ \A t \in T : t <= opp.last <=> \A u \in T : u < t => \E v \in T : u < v /\ v <= u + Gap
  /\ opp.qty = Cardinality({f \in buys : f.dir = dir /\ f.sec <= opp.last})
  /\ \A t \in T : opp.last < t <=> opp.last + Gap < t

LEMMA EpisodeAgrees ==
  ASSUME NEW lines, lines \in [Fills -> Nat], NEW buys, LoadedBuys(lines, buys),
         NEW dir, dir \in Directions(buys), NEW T, T = SecondsOf(buys, dir),
         NEW opp, opp = EpisodeFrom(LoadFills(lines), buys, dir, Min(Starts(T)))
  PROVE  EpisodeOf(opp, buys, dir, T)
<1> DEFINE L == LoadFills(lines)
           s == Min(Starts(T))
           last == Max({t \in T : t >= s /\ \A r \in Starts(T) : r > s => t < r})
           Q == {f \in buys : f.dir = dir /\ s <= f.sec /\ f.sec <= last}
<1>1. opp = [dir |-> dir, start |-> s, last |-> last, qty |-> Qty(L, Q)]
  BY DEF EpisodeFrom
<1>2. IsFiniteSet(T) /\ T \in SUBSET Nat /\ T # {}
  <2> DEFINE D == {g \in buys : g.dir = dir}
             fn == [f \in D |-> f.sec]
  <2>1. IsFiniteSet(D) /\ DOMAIN fn = D
    BY LedgerAssumption, FS_Subset DEF LoadedBuys
  <2>2. T = {fn[f] : f \in D}
    BY DEF SecondsOf
  <2>3. T \in SUBSET Nat /\ T # {}
    BY LedgerAssumption DEF SecondsOf, Directions, LoadedBuys
  <2>4. IsFiniteSet({fn[f] : f \in D})
    <3> HIDE DEF D, fn
    <3>1. QED BY <2>1, ImageFinite
  <2>5. QED BY <2>2, <2>3, <2>4
<1> HIDE DEF s
<1>3. /\ s = Min(T) /\ s \in Nat /\ last \in T /\ \A t \in T : s <= t
      /\ \A t \in T : t <= last <=> \A u \in T : u < t => \E v \in T : u < v /\ v <= u + Gap
      /\ \A t \in T : last < t => last + Gap < t
  <2>1. s = Min(Starts(T))
    BY DEF s
  <2> HIDE DEF last
  <2>2. last = Max({t \in T : t >= s /\ \A r \in Starts(T) : r > s => t < r})
    BY DEF last
  <2>3. QED BY <1>2, <2>1, <2>2, FirstEpisode
<1> HIDE DEF last
<1>4. Q = {f \in buys : f.dir = dir /\ f.sec <= last}
  <2>1. \A f \in buys : f.dir = dir => s <= f.sec
    BY <1>3 DEF SecondsOf
  <2>2. QED BY <2>1
<1>5. Qty(L, Q) = Cardinality(Q)
  <2>1. Q \in SUBSET Fills /\ \A f \in Q : lines[f] > 0
    BY DEF LoadedBuys
  <2> HIDE DEF Q
  <2>2. QED BY <2>1, QtyCounts
<1>6. \A t \in T : last < t <=> last + Gap < t
  <2>1. ASSUME NEW t \in T, last + Gap < t PROVE last < t
    <3>1. t \in Nat /\ last \in Nat /\ Gap \in Nat
      BY <1>2, <1>3, LedgerAssumption
    <3>2. QED BY <2>1, <3>1
  <2>2. QED BY <1>3, <2>1
<1> HIDE DEF Q, L
<1>7. opp.dir = dir /\ opp.start = s /\ opp.last = last /\ opp.qty = Qty(L, Q)
  BY <1>1
<1>8. QED BY <1>3, <1>4, <1>5, <1>6, <1>7 DEF EpisodeOf

\* A row by the fills that were loaded, each counted once and in no order
LEMMA RowAgrees ==
  ASSUME NEW lines \in [Fills -> Nat], NEW m, NEW cover
  PROVE  AgreesWith(MarketRow(m, LoadFills(lines), cover), {f \in Fills : lines[f] > 0 /\ f.market = m})
<1> DEFINE L == LoadFills(lines)
           fills == {f \in Fills : lines[f] > 0 /\ f.market = m}
           buys == {f \in fills : f.buy}
           row == MarketRow(m, L, cover)
<1>1. buys = {f \in FillsOf(L, m) : f.buy}
  <2>1. \A f \in Fills : L[f] > 0 <=> lines[f] > 0
    BY DEF LoadFills
  <2> HIDE DEF L
  <2>2. QED BY <2>1 DEF FillsOf
<1>2. buys \in SUBSET Fills /\ \A f \in buys : lines[f] > 0
  OBVIOUS
<1> DEFINE opp == FirstOpposite(L, buys)
           reason == Unusable(m, buys, opp, cover)
           labelled == reason = "none" /\ opp # NoEpisode
<1>3. row = IF Truthless(buys) # "none" THEN Blank(Truthless(buys))
            ELSE [reason |-> reason, dir |-> Initial(buys), opp |-> opp,
                  old |-> QtyBefore(L, buys, opp),
                  cover |-> IF reason \in {"none", "BOOK_DATA_MISSING"} THEN cover ELSE "unknown",
                  y30 |-> IF labelled THEN Y30(buys, opp) ELSE NoEpisode,
                  eligible |-> labelled /\ HorizonEligible(m, opp)]
  <2> HIDE DEF buys
  <2>1. QED BY <1>1 DEF MarketRow
<1> DEFINE Seconds(d) == {f.sec : f \in {g \in buys : g.dir = d}}
           First  == row.reason = "none" =>
                       \A f \in buys : f.valid /\ \E g \in buys : g.dir = row.dir /\ g.sec <= f.sec
           Second(o) == o # NoEpisode =>
             LET T == Seconds(o.dir) IN
             /\ o.dir # row.dir /\ o.start = Min(T)
             /\ \A t \in T : t <= o.last <=> \A u \in T : u < t => \E v \in T : u < v /\ v <= u + Gap
             /\ o.qty = Cardinality({f \in buys : f.dir = o.dir /\ f.sec <= o.last})
             /\ row.old = Cardinality({f \in buys : f.dir = row.dir /\ f.sec < o.start})
             /\ row.y30 # NoEpisode =>
                  (row.y30 = 1 <=> \E t \in T : o.last + Gap < t /\ t <= o.last + Horizon)
<1>4. SUFFICES First /\ Second(row.opp)
  <2>1. ASSUME NEW R, R = row, First /\ Second(row.opp) PROVE AgreesWith(R, fills)
    <3> HIDE DEF row
    <3>1. QED BY <2>1 DEF AgreesWith
  <2>2. QED BY <2>1
<1>5. CASE Truthless(buys) # "none"
  <2>1. row.reason # "none" /\ row.opp = NoEpisode
    <3> HIDE DEF row, buys
    <3>1. QED BY <1>3, <1>5 DEF Blank
  <2>2. QED BY <2>1
<1>6. CASE Truthless(buys) = "none"
  <2>1. buys # {} /\ \A f \in buys : f.valid
    <3> HIDE DEF buys
    <3>1. QED BY <1>6 DEF Truthless, ValidBuy
  <2> HIDE DEF buys, row, opp, L
  <2>2. /\ row.dir = Initial(buys) /\ row.opp = opp /\ row.old = QtyBefore(L, buys, opp)
        /\ row.y30 = IF labelled THEN Y30(buys, opp) ELSE NoEpisode
    BY <1>3, <1>6
  <2>3. First
    BY <1>2, <2>1, <2>2, InitialIsFirst
  <2>4. ASSUME opp # NoEpisode PROVE Second(opp)
    <3> DEFINE others == Directions(buys) \ {Initial(buys)}
               dir == CHOOSE d \in others : TRUE
               T == SecondsOf(buys, dir)
    <3>1. others # {} /\ opp = EpisodeFrom(L, buys, dir, Min(Starts(T)))
      BY <2>4 DEF opp, FirstOpposite
    <3>2. dir \in Directions(buys) /\ dir # Initial(buys)
      BY <3>1
    <3> HIDE DEF dir
    <3>3. T = Seconds(dir)
      BY DEF SecondsOf
    <3>4. T = SecondsOf(buys, dir)
      OBVIOUS
    <3> HIDE DEF T, Seconds
    <3>5. EpisodeOf(opp, buys, dir, T)
      <4>1. opp = EpisodeFrom(LoadFills(lines), buys, dir, Min(Starts(T)))
        BY <3>1 DEF L
      <4>2. LoadedBuys(lines, buys)
        BY <1>2 DEF LoadedBuys
      <4>3. QED BY <3>2, <3>4, <4>1, <4>2, EpisodeAgrees
    <3>6. row.old = Cardinality({f \in buys : f.dir = row.dir /\ f.sec < opp.start})
      <4> DEFINE P == {f \in buys : f.dir = Initial(buys) /\ (opp = NoEpisode \/ f.sec < opp.start)}
      <4>1. P \in SUBSET Fills /\ \A f \in P : lines[f] > 0
        BY <1>2
      <4>2. row.old = Qty(L, P)
        BY <2>2 DEF QtyBefore
      <4>3. P = {f \in buys : f.dir = row.dir /\ f.sec < opp.start}
        BY <2>2, <2>4
      <4> HIDE DEF P
      <4>4. Qty(L, P) = Cardinality(P)
        BY <4>1, QtyCounts DEF L
      <4>5. QED BY <4>2, <4>3, <4>4
    <3>7. ASSUME row.y30 # NoEpisode
          PROVE  row.y30 = 1 <=> \E t \in T : opp.last + Gap < t /\ t <= opp.last + Horizon
      <4>1. row.y30 = Y30(buys, opp)
        BY <2>2, <3>7
      <4>2. row.y30 = IF \E t \in T : opp.last < t /\ t <= opp.last + Horizon THEN 1 ELSE 0
        BY <3>4, <3>5, <4>1 DEF Y30, EpisodeOf
      <4>3. QED BY <3>5, <4>2 DEF EpisodeOf
    <3>8. T = Seconds(opp.dir) /\ opp.dir # row.dir
      BY <2>2, <3>2, <3>3, <3>5 DEF EpisodeOf
    <3>9. QED BY <3>5, <3>6, <3>7, <3>8 DEF EpisodeOf
  <2>5. QED BY <2>2, <2>3, <2>4
<1>7. QED BY <1>5, <1>6

(* RowsCountOnce: whenever the rows are derived, the row of every market is  *)
(* what its stored fills say, each counted once however many lines hold it   *)
(* and in whatever order they were listed: the direction that came first,    *)
(* the first opposite as the longest run without a gap, the quantity before  *)
(* it, and Y30.  With SlicesAreWhole this is what makes a cut append harm-   *)
(* less.                                                                     *)
THEOREM EveryFillCountsOnce == CohortSpec => RowsCountOnce
<1> DEFINE Agreeing == derived' # derived =>
                     \A m \in DOMAIN derived'.rows :
                       AgreesWith(derived'.rows[m], {f \in Fills : Stored(f) /\ f.market = m})
<1>1. SyncInv /\ [CohortNext]_cohortVars => Agreeing
  <2> SUFFICES ASSUME SyncInv, [CohortNext]_cohortVars, derived' # derived,
                      NEW m \in DOMAIN derived'.rows
               PROVE  AgreesWith(derived'.rows[m], {f \in Fills : Stored(f) /\ f.market = m})
    OBVIOUS
  <2>1. derived'.rows = LedgerRows(LoadFills(raw), Coverage)
    BY FileSteps DEF Derive
  <2>2. derived'.rows[m] = MarketRow(m, LoadFills(raw), Coverage[m])
    BY <2>1 DEF LedgerRows
  <2>3. raw \in [Fills -> Nat]
    BY DEF SyncInv, SyncTypes
  <2>4. AgreesWith(MarketRow(m, LoadFills(raw), Coverage[m]), {f \in Fills : raw[f] > 0 /\ f.market = m})
    BY <2>3, RowAgrees
  <2>5. QED BY <2>2, <2>4 DEF Stored
<1>2. SyncInv /\ [CohortNext]_cohortVars => [Agreeing]_cohortVars
  BY <1>1
<1>3. QED BY <1>2, SyncHolds, PTL DEF CohortSpec, RowsCountOnce

-----------------------------------------------------------------------------
(* The checkpoints of the cohort                                            *)

LEMMA PointsStart == CohortInit => PointsInv
<1> SUFFICES ASSUME CohortInit PROVE PointsInv
  OBVIOUS
<1>1. reports = [p \in Checkpoints |-> 0] /\ triggered = {} /\ check = NoCheck
  BY DEF CohortInit
<1>2. check.pc = "idle"
  BY <1>1 DEF NoCheck
<1>3. QED BY <1>1, <1>2 DEF PointsInv

\* A step that reports nothing and puts nothing on record.
LEMMA PointsStay ==
  ASSUME PointsInv, CohortGrows, reports' = reports, triggered' = triggered,
         check'.pc = "manual" => check'.point # 0,
         check'.pc = "report" /\ check'.point = 0 => check'.due = {} \/ check' = check
  PROVE  PointsInv'
<1>1. \A p \in Checkpoints \cap triggered : Cardinality(CoveredMarkets') >= p
  <2>1. \A p \in Checkpoints : p \in Nat
    BY CohortAssumption
  <2>2. QED BY <2>1, CoveredGrow DEF PointsInv
<1>2. QED BY <1>1 DEF PointsInv

LEMMA TriggerPoints ==
  ASSUME CheckInv, PointsInv, CohortGrows, Trigger PROVE PointsInv'
<1> DEFINE n == Cardinality(CoveredMarkets)
<1>1. /\ triggered' = triggered \cup DuePoints /\ reports' = reports /\ cohort' = cohort
      /\ check' = [check EXCEPT !.pc = "report",
                     !.due = IF check.point # 0 THEN {check.point} ELSE DuePoints]
  BY DEF Trigger
<1>2. /\ check'.pc = "report" /\ check'.point = check.point
      /\ check.point = 0 => check'.due = DuePoints
  BY <1>1 DEF CheckInv
<1>3. n \in Nat /\ Cardinality(CoveredMarkets)' = n
  BY <1>1, CoveredGrow DEF CoveredMarkets
<1>4. DuePoints \subseteq Checkpoints \ triggered /\ \A p \in DuePoints : n >= p
  BY DEF DuePoints
<1>5. ASSUME NEW p \in Checkpoints PROVE reports[p] \in Nat /\ (p \notin triggered => reports[p] = 0)
  <2>1. reports[p] \in Nat /\ reports[p] <= 1 /\ (reports[p] = 1 => p \in triggered)
    BY DEF PointsInv
  <2>2. QED BY <2>1
<1>6. \A p \in Checkpoints \cap triggered' : n >= p
  BY <1>1, <1>4 DEF PointsInv
<1>7. \A p \in Checkpoints : reports'[p] <= 1 /\ (reports'[p] = 1 => p \in triggered')
  BY <1>1 DEF PointsInv
<1>8. reports' \in [Checkpoints -> Nat]
  BY <1>1 DEF PointsInv
<1>9. check'.point = 0 =>
        check'.due \subseteq Checkpoints \cap triggered' /\ \A p \in check'.due : reports'[p] = 0
  BY <1>1, <1>2, <1>4, <1>5
<1>10. QED BY <1>2, <1>3, <1>6, <1>7, <1>8, <1>9 DEF PointsInv

LEMMA ReportPoints ==
  ASSUME CheckInv, PointsInv, CohortGrows, Report PROVE PointsInv'
<1> DEFINE m == Min(check.due)
<1>1. /\ check.pc = "report" /\ check.due # {} /\ triggered' = triggered /\ cohort' = cohort
      /\ reports' = IF check.point # 0 THEN reports ELSE [reports EXCEPT ![m] = reports[m] + 1]
      /\ check' = [check EXCEPT !.due = check.due \ {m}]
  BY DEF Report
<1>2. /\ check'.pc = "report" /\ check'.point = check.point /\ check'.due = check.due \ {m}
  BY <1>1 DEF CheckInv
<1>3. Cardinality(CoveredMarkets)' = Cardinality(CoveredMarkets)
  BY <1>1 DEF CoveredMarkets
<1>4. CASE check.point # 0
  BY <1>1, <1>2, <1>3, <1>4 DEF PointsInv
<1>5. CASE check.point = 0
  <2>1. check.due \subseteq Checkpoints \cap triggered /\ \A p \in check.due : reports[p] = 0
    BY <1>1, <1>5 DEF PointsInv
  <2>2. m \in check.due
    <3>1. check.due \subseteq Nat
      BY <2>1, CohortAssumption
    <3>2. \E x \in check.due : \A y \in check.due : x <= y
      BY <1>1, <3>1, LeastNumber
    <3>3. QED BY <3>2 DEF Min
  <2> HIDE DEF m
  <2>3. reports \in [Checkpoints -> Nat] /\ reports[m] = 0 /\ m \in Checkpoints /\ m \in triggered
    BY <2>1, <2>2 DEF PointsInv
  <2>4. /\ reports' \in [Checkpoints -> Nat] /\ reports'[m] = 1
        /\ \A p \in Checkpoints \ {m} : reports'[p] = reports[p]
    BY <1>1, <1>5, <2>3
  <2>5. \A p \in Checkpoints : reports'[p] <= 1 /\ (reports'[p] = 1 => p \in triggered)
    BY <2>3, <2>4 DEF PointsInv
  <2>6. /\ check'.due \subseteq Checkpoints \cap triggered /\ \A p \in check'.due : reports'[p] = 0
    BY <1>2, <2>1, <2>4
  <2>7. QED BY <1>1, <1>2, <1>3, <2>4, <2>5, <2>6 DEF PointsInv
<1>6. QED BY <1>4, <1>5

LEMMA PointsKeep ==
  ASSUME CheckInv, PointsInv, CohortGrows, [CohortNext]_cohortVars PROVE PointsInv'
<1>1. CASE UNCHANGED <<check, cohort, triggered, reports>>
  BY <1>1, PointsStay DEF PointsInv
<1>2. CASE UNCHANGED <<cohort, triggered, reports>> /\ check' = NoCheck
  <2>1. check'.pc = "idle"
    BY <1>2 DEF NoCheck
  <2>2. QED BY <1>2, <2>1, PointsStay
<1>3. ASSUME NEW p \in Checkpoints, NEW manual \in BOOLEAN, StartCheck(p, manual) PROVE PointsInv'
  <2>1. /\ check'.point = p /\ check'.pc \in {"manual", "upsert"} /\ reports' = reports
        /\ triggered' = triggered
    BY <1>3 DEF StartCheck, NoCheck
  <2>2. p # 0
    BY CohortAssumption
  <2>3. QED BY <2>1, <2>2, PointsStay
<1>4. CASE StartCheck(0, FALSE)
  <2>1. check'.pc = "upsert" /\ reports' = reports /\ triggered' = triggered
    BY <1>4 DEF StartCheck, NoCheck
  <2>2. QED BY <2>1, PointsStay
<1>5. CASE Upsert
  <2>1. check' = [check EXCEPT !.pc = IF check.pc = "manual" THEN "report" ELSE "trigger",
                               !.due = IF check.pc = "manual" THEN {check.point} ELSE {}]
    BY <1>5 DEF Upsert
  <2>2. /\ check'.point = check.point
        /\ check'.pc = IF check.pc = "manual" THEN "report" ELSE "trigger"
    BY <2>1 DEF CheckInv
  <2>3. check.pc = "manual" => check.point # 0
    BY DEF PointsInv
  <2>4. reports' = reports /\ triggered' = triggered
    BY <1>5 DEF Upsert
  <2>5. QED BY <2>2, <2>3, <2>4, PointsStay
<1>6. QED BY <1>1, <1>2, <1>3, <1>4, <1>5, TriggerPoints, ReportPoints, CheckSteps

CohortInv == FilesInv /\ CohortRows /\ PointsInv

LEMMA CohortHolds == CohortSpec => []CohortInv
<1>1. CohortInit => CohortInv
  <2> SUFFICES ASSUME CohortInit PROVE CohortInv
    OBVIOUS
  <2>1. /\ build = NoBuild /\ check = NoCheck /\ featureFile = NoFile /\ derived = NoFile
        /\ baseline = NoFile /\ cohort = <<>>
    BY DEF CohortInit
  <2>2. FilesInv
    BY <2>1, FS_EmptySet DEF FilesInv, BuildInv, CheckInv, NoBuild, NoCheck, TrueTo
  <2>3. CohortRows
    BY <2>1 DEF CohortRows
  <2>4. QED BY <2>2, <2>3, PointsStart DEF CohortInv
<1>2. CohortInv /\ [CohortNext]_cohortVars => CohortInv'
  <2> SUFFICES ASSUME CohortInv, [CohortNext]_cohortVars PROVE CohortInv'
    OBVIOUS
  <2>1. FilesInv'
    BY FilesKeep DEF CohortInv
  <2>2. CohortRows' /\ CohortGrows
    BY RowsKeep DEF CohortInv
  <2>3. CheckInv /\ PointsInv
    BY DEF CohortInv, FilesInv
  <2>4. PointsInv'
    BY <2>2, <2>3, PointsKeep
  <2>5. QED BY <2>1, <2>2, <2>4 DEF CohortInv
<1>3. QED BY <1>1, <1>2, PTL DEF CohortSpec

(* TruthKept: the snapshot's rows are in the ledger, and the newest feature  *)
(* file and the cohort are of the rows it has now.  It rests on what the     *)
(* merge refuses: rows are added, none is changed, so that features made of  *)
(* an older ledger, and observations made of older features, stay true.      *)
THEOREM TruthIsKept == CohortSpec => []TruthKept
<1>1. CohortInv => TruthKept
  BY DEF CohortInv, FilesInv, TrueTo, CohortRows, TruthKept
<1>2. QED BY <1>1, CohortHolds, PTL

(* CheckpointsOnce: a checkpoint is reported unasked at most once, only with *)
(* as many covered markets as it stands for, and no market is in the cohort  *)
(* twice.  A point is on record before it is reported, and a run that died   *)
(* in between leaves it on record; and because truth is kept, the identity   *)
(* (market, prediction time) of CohortManifest is one of the market alone.   *)
THEOREM CheckpointsReportOnce == CohortSpec => []CheckpointsOnce
<1>1. CohortInv => CheckpointsOnce
  <2> SUFFICES ASSUME CohortInv PROVE CheckpointsOnce
    OBVIOUS
  <2>1. \A p \in Checkpoints : reports[p] <= 1 /\ (reports[p] = 1 => p \in triggered)
    BY DEF CohortInv, PointsInv
  <2>2. \A p \in Checkpoints : reports[p] = 1 => Cardinality(CoveredMarkets) >= p
    BY <2>1 DEF CohortInv, PointsInv
  <2>3. \A i, j \in 1..Len(cohort) : cohort[i].market = cohort[j].market => i = j
    BY DEF CohortInv, CohortRows
  <2>4. QED BY <2>1, <2>2, <2>3 DEF CheckpointsOnce
<1>2. QED BY <1>1, CohortHolds, PTL
===============================================================================
