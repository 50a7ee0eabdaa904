---------------------------- MODULE EventLedger ----------------------------
(***************************************************************************)
(* From the raw fills of the trader to one truth row per market: replay    *)
(* without duplicates, parent episodes, the first opposite episode and the *)
(* Y30 label, or the reason why a market is excluded.                      *)
(*                                                                         *)
(* Time is in seconds, as the API's timestamps are.  Every fill has one    *)
(* unit, so that a quantity is a number of fills.  What a market's slug    *)
(* says is the constant Of.                                                *)
(***************************************************************************)
EXTENDS Integers, FiniteSetsExt

CONSTANTS
  Fills,        \* [id, market, dir, sec, buy, valid]
  Of,           \* of each market: its series, window and what the slug tells
  Gap,          \* EPISODE_WINDOW_SECONDS
  Horizon,      \* Y30_HORIZON_SECONDS
  Tolerance,    \* MARKET_TIME_TOLERANCE_MS
  NoEpisode     \* a market without a first opposite

Markets == DOMAIN Of

ASSUME LedgerAssumption ==
  /\ IsFiniteSet(Fills)
  /\ \A f \in Fills : f.market \in Markets /\ f.sec \in Nat
  /\ \A f, g \in Fills : f.id = g.id => f = g
  /\ {Gap, Horizon, Tolerance} \subseteq Nat /\ 0 < Gap /\ Gap < Horizon

\* load_fills yields a fill once, however many lines of the store have it.
LoadEveryLine(lines) == lines                     \* Fault: no fill is skipped
LoadFills(lines) == [f \in Fills |-> IF lines[f] > 0 THEN 1 ELSE 0]

FillsOf(loaded, m) == {f \in Fills : loaded[f] > 0 /\ f.market = m}
Qty(loaded, fills) == MapThenSumSet(LAMBDA f : loaded[f], fills)

\* validate_buy_fill: size, price, outcome
ValidBuy(f) == f.valid

Directions(buys) == {f.dir : f \in buys}
SecondsOf(buys, dir) == {f.sec : f \in {g \in buys : g.dir = dir}}
FirstBuy(buys, dir) == Min(SecondsOf(buys, dir))

\* analyze_initial_direction
Ambiguous(buys) ==
  \E d, e \in Directions(buys) : d # e /\ FirstBuy(buys, d) = FirstBuy(buys, e)
Initial(buys) ==
  CHOOSE d \in Directions(buys) : \A e \in Directions(buys) : FirstBuy(buys, d) <= FirstBuy(buys, e)

\* build_episodes, for one market and direction: a fill more than Gap after the
\* one before it starts a new episode.
Starts(seconds) == {s \in seconds : \A t \in seconds : t < s => s - t > Gap}
EpisodeFrom(loaded, buys, dir, s) ==
  LET seconds == SecondsOf(buys, dir)
      last == Max({t \in seconds : t >= s /\ \A r \in Starts(seconds) : r > s => t < r}) IN
  [dir |-> dir, start |-> s, last |-> last,
   qty |-> Qty(loaded, {f \in buys : f.dir = dir /\ s <= f.sec /\ f.sec <= last})]

\* find_first_opposite
FirstOpposite(loaded, buys) ==
  LET others == Directions(buys) \ {Initial(buys)} IN
  IF others = {} THEN NoEpisode
  ELSE LET dir == CHOOSE d \in others : TRUE IN
       EpisodeFrom(loaded, buys, dir, Min(Starts(SecondsOf(buys, dir))))

\* qty_of_direction_before, of the initial direction
QtyBefore(loaded, buys, opp) ==
  Qty(loaded, {f \in buys : f.dir = Initial(buys) /\ (opp = NoEpisode \/ f.sec < opp.start)})

\* compute_y30 and y30_horizon_eligible
Y30(buys, opp) ==
  IF \E t \in SecondsOf(buys, opp.dir) : opp.last < t /\ t <= opp.last + Horizon THEN 1 ELSE 0
HorizonEligible(m, opp) == Of[m].end >= opp.last + Horizon

\* SlugWindowMetadataProvider.get, and the scope check on the slug's prefix
InScope(m) == Of[m].scope
HasWindow(m) == Of[m].aligned

\* The reasons of _build_row that look at the fills alone, and the others.
Truthless(buys) ==
  IF buys = {} \/ (\E f \in buys : ~ValidBuy(f)) \/ Cardinality(Directions(buys)) > 2
  THEN "FIELD_INCOMPLETE"
  ELSE IF Ambiguous(buys) THEN "SAME_SECOND_AMBIGUITY" ELSE "none"
Inconsistent(m, buys, opp) ==
  /\ opp # NoEpisode
  /\ \/ opp.last > Of[m].end + Tolerance
     \/ FirstBuy(buys, Initial(buys)) < Of[m].start - Tolerance
Unusable(m, buys, opp, cover) ==
  IF ~InScope(m) THEN "OTHER"
  ELSE IF ~HasWindow(m) THEN "MARKET_METADATA_MISSING"
  ELSE IF Inconsistent(m, buys, opp) THEN "OTHER"
  ELSE IF cover = "none" THEN "BOOK_DATA_MISSING" ELSE "none"

Blank(reason) == [reason |-> reason, dir |-> "none", opp |-> NoEpisode, old |-> 0,
                  cover |-> "unknown", y30 |-> NoEpisode, eligible |-> FALSE]

\* _build_row: the first reason that applies excludes the market; a market
\* with a first opposite and no reason is labelled.
MarketRow(m, loaded, cover) ==
  LET buys == {f \in FillsOf(loaded, m) : f.buy} IN
  IF Truthless(buys) # "none" THEN Blank(Truthless(buys))
  ELSE LET opp == FirstOpposite(loaded, buys)
           reason == Unusable(m, buys, opp, cover)
           labelled == reason = "none" /\ opp # NoEpisode IN
       [reason |-> reason, dir |-> Initial(buys), opp |-> opp,
        old |-> QtyBefore(loaded, buys, opp),
        cover |-> IF reason \in {"none", "BOOK_DATA_MISSING"} THEN cover ELSE "unknown",
        y30 |-> IF labelled THEN Y30(buys, opp) ELSE NoEpisode,
        eligible |-> labelled /\ HorizonEligible(m, opp)]

\* build_ledger_rows: a row for every market that has a fill
LedgerRows(loaded, cover) ==
  [m \in {f.market : f \in {g \in Fills : loaded[g] > 0}} |-> MarketRow(m, loaded, cover[m])]

----------------------------------------------------------------------------
(* The row of a market by its fills, each counted once and in no order: the *)
(* first opposite reaches from the first fill of the other direction over   *)
(* all those that are at most Gap after another one, and Y30 asks for a     *)
(* fill that did not merge into it and comes within the horizon.            *)
AgreesWith(row, fills) ==
  LET buys == {f \in fills : f.buy}
      Seconds(d) == {f.sec : f \in {g \in buys : g.dir = d}}
      opp == row.opp IN
  /\ row.reason = "none" =>
       \A f \in buys : f.valid /\ \E g \in buys : g.dir = row.dir /\ g.sec <= f.sec
  /\ opp # NoEpisode =>
       LET T == Seconds(opp.dir) IN
       /\ opp.dir # row.dir /\ opp.start = Min(T)
       /\ \A t \in T : t <= opp.last <=> \A u \in T : u < t => \E v \in T : u < v /\ v <= u + Gap
       /\ opp.qty = Cardinality({f \in buys : f.dir = opp.dir /\ f.sec <= opp.last})
       /\ row.old = Cardinality({f \in buys : f.dir = row.dir /\ f.sec < opp.start})
       /\ row.y30 # NoEpisode =>
            (row.y30 = 1 <=> \E t \in T : opp.last + Gap < t /\ t <= opp.last + Horizon)
============================================================================
