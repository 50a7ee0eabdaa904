---------------------------- MODULE MCSubmitPath ----------------------------
(* Small instance of SubmitPath: two ids; a BUY and a SELL in one market    *)
(* and a cheaper BUY in another.  One BUY of each kind uses up the cash and *)
(* the gross limit exactly; two cheap ones exceed their market's limit, two *)
(* dear ones the cash, two SELLs the position.                              *)
EXTENDS SubmitPath, TLC

CONSTANTS a, b

MCOrders ==
  {[market |-> "m1", outcome |-> "yes", side |-> "BUY",  notional |-> 4,
    qty |-> 2, decided |-> 0, quoted |-> 0],
   [market |-> "m1", outcome |-> "yes", side |-> "SELL", notional |-> 2,
    qty |-> 2, decided |-> 0, quoted |-> 0],
   [market |-> "m2", outcome |-> "no",  side |-> "BUY",  notional |-> 2,
    qty |-> 1, decided |-> 1, quoted |-> 0]}

Held == <<"m1", "yes">> :> 3 @@ <<"m2", "no">> :> 1
Cost == <<"m1", "yes">> :> 1 @@ <<"m2", "no">> :> 3

\* The second one has lost more than the limits allow.
MCPortfolios == {[cash |-> 9, pnl |-> 0,  held |-> Held, cost |-> Cost],
                 [cash |-> 9, pnl |-> -2, held |-> Held, cost |-> Cost]}

Symmetry == Permutations(Ids)
=============================================================================
