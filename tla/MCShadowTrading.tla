--------------------------- MODULE MCShadowTrading ---------------------------
EXTENDS ShadowTrading
O(side, n, price, kind, fee, rebate) ==
  [key |-> "up", side |-> side, qty |-> n, price |-> price, kind |-> kind, fee |-> fee, rebate |-> rebate]
MCOrders == {O("BUY", 2, 4, "passive", 1, 0), O("SELL", 2, 6, "passive", 1, 2),
             O("SELL", 1, 4, "IOC", 1, 0), O("BUY", 2, 6, "FOK", 1, 0)}
MCShares == [k \in {"up"} |-> [qty |-> 2, cost |-> 24]]
Ev(ts, kind, n) == [ts |-> ts, kind |-> kind, qty |-> n]
Trades == {Ev(t, "trade", q) : t \in 1..4, q \in 1..2}
NoCancel == {<<>>} \cup {<<a>> : a \in Trades} \cup {<<a, b>> : a, b \in Trades}
Cancels == {<<Ev(r, "request", 0), Ev(e, "effective", 0)>> : r \in {1, 2}, e \in {2, 3}}
Mixes(c, s) ==      \* the trades of s merged with the cancel c in every order
  {tl \in UNION {{[i \in 1..(Len(s) + 2) |-> IF i = p THEN c[1] ELSE IF i = q THEN c[2]
              ELSE s[i - (IF i > p THEN 1 ELSE 0) - (IF i > q THEN 1 ELSE 0)]]
          : q \in (p + 1)..(Len(s) + 2)} : p \in 1..(Len(s) + 1)} : InOrder(tl)}
MCTimelines == {s \in NoCancel : InOrder(s)} \cup UNION {Mixes(c, s) : c \in Cancels, s \in NoCancel}
MCBooks == {<<>>, <<<<4, 1>>>>, <<<<4, 1>>, <<6, 1>>>>, <<<<6, 1>>, <<4, 1>>>>, <<<<6, 2>>, <<8, 1>>>>}
NoRounding == {0}
=============================================================================
