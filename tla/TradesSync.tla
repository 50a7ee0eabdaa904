----------------------------- MODULE TradesSync -----------------------------
(***************************************************************************)
(* Std0TradesSyncer: fills are paged out of an offset-paginated API that   *)
(* grows meanwhile, appended to a raw file, and registered by identity in  *)
(* a SQLite table that keeps the next run from appending them again.       *)
(*                                                                         *)
(* One sync runs at a time.  Between two of its steps fills may appear,    *)
(* the call may raise, and the process may die.  The file and the table    *)
(* are two stores with no transaction over both; a run that is cut off in  *)
(* the middle of a write leaves a line without its newline, and the next   *)
(* append goes on where it ends.                                           *)
(*                                                                         *)
(* One unit of time is a second, the granularity of the API's timestamps.  *)
(* A fill is its identity, numbered in the order the API came to know it.  *)
(***************************************************************************)
EXTENDS Integers, SequencesExt, FiniteSets

CONSTANTS
  PageLimit,    \* page_limit
  MaxOffset,    \* max_offset
  ApiCap,       \* offsets from here on the API may reject
  Margin,       \* EARLY_STOP_MARGIN_MS
  Tolerance,    \* tolerance_ms of _verify_time_window
  MaxWindows,   \* max_windows
  Windows,      \* the time windows (lo, hi] an operator asks for
  Delay,        \* how late the API may list a fill
  None,         \* no time window, no backfill
  MaxTime,      \* bound on timestamps
  MaxFills,     \* bound on the fills
  MaxCuts       \* bound on the runs that raise or die

\* A window asks for (lo, hi]; a backfill has the locals of sync_backfill.
TimeWindow == [lo : Int, hi : Int]
Backfill == [range : TimeWindow, windows : Nat, known : Nat, split : SUBSET Int]

ASSUME SyncAssumption ==
  /\ PageLimit \in Nat /\ PageLimit >= 2
  /\ {MaxOffset, ApiCap, Margin, Tolerance, MaxWindows, Delay,
      MaxTime, MaxFills, MaxCuts} \subseteq Nat
  /\ Delay <= Margin
  /\ Windows \subseteq {w \in [lo : 0..MaxTime, hi : 1..MaxTime] : w.lo < w.hi}
  /\ None \notin TimeWindow /\ None \notin Backfill

Seconds == 1..MaxTime
Ids     == 1..MaxFills
\* The next statement of a sync; "between" is sync_backfill's own.
Steps == {"fetch", "append", "register", "decide"}

VARIABLES
  \* the API
  feed,       \* its fills, newest first: [id, ts]
  \* on disk
  raw,        \* the lines of the raw file: those that parse and those that
              \* share a line, counted by fill, and whether it ends in a torn one
  keys,       \* the identities in dedupe_keys
  cursor,     \* the kv row CURSOR_KEY, 0 without one
  row,        \* the status of the last row of sync_runs
  \* the sync in progress, or the last one
  pc,         \* its next statement, "between" or "idle"
  run,        \* its parameters and its locals
  backfill,   \* the locals of sync_backfill, None in a sync of its own
  backfillStatus, \* what the last backfill returned
  \* history
  cut,        \* fills written by a run that did not get to register them
  cuts,       \* the runs cut short
  unbroken    \* only whole syncs of the whole feed since the last full one

disk == <<raw, keys, cursor, row>>
history == <<cut, cuts, unbroken>>
vars == <<feed, disk, pc, run, backfill, backfillStatus, history>>

NoRun == [full |-> FALSE, window |-> None, honored |-> TRUE, from |-> 0,
          offset |-> 0, page |-> <<>>, fresh |-> <<>>,
          earliest |-> 0, latest |-> 0, known |-> 0]

Init ==
  /\ feed = <<>>
  /\ raw = [whole |-> [id \in Ids |-> 0], glued |-> [id \in Ids |-> 0],
            torn |-> FALSE]
  /\ keys = {} /\ cursor = 0 /\ row = "running"
  /\ pc = "idle" /\ run = NoRun /\ backfill = None /\ backfillStatus = "none"
  /\ cut = {} /\ cuts = 0 /\ unbroken = TRUE

-----------------------------------------------------------------------------
(* The API                                                                 *)

Newer(fills, ts) == Cardinality({n \in 1..Len(fills) : fills[n].ts > ts})

\* A fill becomes visible, at its place in the order of timestamps.
NewFill(ts) ==
  /\ Len(feed) < MaxFills
  /\ feed # <<>> => ts >= feed[1].ts - Delay
  /\ feed' = InsertAt(feed, Newer(feed, ts) + 1, [id |-> Len(feed) + 1, ts |-> ts])
  /\ UNCHANGED <<disk, pc, run, backfill, backfillStatus, history>>

\* What the API lists for the run: a window (lo, hi] if it honors one.
Listed(r) ==
  IF r.window = None \/ ~r.honored THEN feed
  ELSE SubSeq(feed, Newer(feed, r.window.hi) + 1, Newer(feed, r.window.lo))

PageAt(r) ==
  SubSeq(Listed(r), r.offset + 1, Min({r.offset + PageLimit, Len(Listed(r))}))

IdsOf(page) == [n \in 1..Len(page) |-> page[n].id]
Stamps(page) == {page[n].ts : n \in 1..Len(page)}
Oldest(page) == Min(Stamps(page))
Newest(page) == Max(Stamps(page))

-----------------------------------------------------------------------------
(* The raw file                                                            *)

\* Bytes go behind whatever is at the end: on a line that has no newline
\* the first record shares that line, which no longer parses.
Written(file, ids) ==
  LET shared == IF file.torn /\ ids # <<>> THEN {ids[1]} ELSE {} IN
  [whole |-> [id \in Ids |->
                file.whole[id] + IF id \in Range(ids) \ shared THEN 1 ELSE 0],
   glued |-> [id \in Ids |-> file.glued[id] + IF id \in shared THEN 1 ELSE 0],
   torn  |-> file.torn /\ ids = <<>>]

\* A write that stops after n whole records, or inside the next one.
CutAfter(file, ids, n) ==
  LET written == Written(file, SubSeq(ids, 1, n)) IN
  {written} \cup IF n < Len(ids) THEN {[written EXCEPT !.torn = TRUE]} ELSE {}

-----------------------------------------------------------------------------
(* sync()                                                                  *)

\* A sync starts; with use_time_params it names a window, which the API
\* may honor or not.
Begin(full, window, honored) ==
  /\ run' = [NoRun EXCEPT !.full = full, !.window = window,
                          !.honored = honored, !.from = cursor,
                          !.known = Len(feed)]
  /\ row' = "running"
  /\ pc' = "fetch"

StartSync(full, window, honored) ==
  /\ pc = "idle"
  /\ Begin(full, window, honored)
  /\ backfill' = None /\ backfillStatus' = "none"
  /\ UNCHANGED <<feed, raw, keys, cursor, history>>

\* The loop is left with a status: the cursor moves if anything newer was
\* seen, the row is closed, and what is left of the locals is the result.
Finish(status, r) ==
  /\ run' = [NoRun EXCEPT !.full = r.full, !.window = r.window,
                          !.known = r.known, !.earliest = r.earliest]
  /\ cursor' = IF r.latest > r.from THEN r.latest ELSE cursor
  /\ row' = status
  /\ pc' = IF backfill = None THEN "idle" ELSE "between"
  /\ unbroken' = (/\ r.window = None /\ status # "offset_limit_reached"
                  /\ unbroken \/ (r.full /\ status \in {"complete", "empty"}))

\* The API rejects the offset.
CapHit ==
  /\ pc = "fetch" /\ run.offset > ApiCap
  /\ Finish("offset_limit_reached", run)
  /\ UNCHANGED <<feed, raw, keys, backfill, backfillStatus, cut, cuts>>

\* _verify_time_window on the first page.
OutsideWindow(page) ==
  \E ts \in Stamps(page) : \/ ts < run.window.lo - Tolerance
                           \/ ts > run.window.hi + Tolerance

\* filter_new: the identities the table does not have, in their order.
FilterNew(ids) ==
  LET kept[n \in 0..Len(ids)] ==
        IF n = 0 THEN <<>>
        ELSE IF ids[n] \in keys THEN kept[n - 1] ELSE Append(kept[n - 1], ids[n])
  IN  kept[Len(ids)]

\* Fault: the table is not asked.
SeenUnfiltered(r, page) ==
  IF page = <<>> THEN [r EXCEPT !.page = page, !.fresh = <<>>]
  ELSE [r EXCEPT
         !.page = page, !.fresh = IdsOf(page),
         !.earliest = IF @ = 0 \/ Oldest(page) < @ THEN Oldest(page) ELSE @,
         !.latest = IF Newest(page) > @ THEN Newest(page) ELSE @]

\* The locals after a page was received.
Seen(r, page) ==
  IF page = <<>> THEN [r EXCEPT !.page = page, !.fresh = <<>>]
  ELSE [r EXCEPT
         !.page = page,
         !.fresh = FilterNew(IdsOf(page)),
         !.earliest = IF @ = 0 \/ Oldest(page) < @ THEN Oldest(page) ELSE @,
         !.latest = IF Newest(page) > @ THEN Newest(page) ELSE @]

\* A page arrives; identities the table has are left out.
Fetch ==
  LET page == PageAt(run)
      seen == Seen(run, page) IN
  /\ pc = "fetch"
  /\ IF run.window # None /\ run.offset = 0 /\ OutsideWindow(page)
     THEN Finish("time_params_not_honored", seen)
     ELSE /\ run' = seen
          /\ pc' = IF seen.fresh = <<>> THEN "decide" ELSE "append"
          /\ UNCHANGED <<cursor, row, unbroken>>
  /\ UNCHANGED <<feed, raw, keys, backfill, backfillStatus, cut, cuts>>

\* append_many, with its fsync.
AppendMany ==
  /\ pc = "append"
  /\ raw' = Written(raw, run.fresh)
  /\ pc' = "register"
  /\ UNCHANGED <<feed, keys, cursor, row, run, backfill, backfillStatus, history>>

\* register_keys, one transaction.
RegisterKeys ==
  /\ pc = "register"
  /\ keys' = keys \cup Range(run.fresh)
  /\ pc' = "decide"
  /\ UNCHANGED <<feed, raw, cursor, row, run, backfill, backfillStatus, history>>

\* Fault: an API that has nothing yet is asked again.
ExhaustedRetries ==
  /\ pc = "decide" /\ Len(run.page) < PageLimit
  /\ IF run.offset = 0 /\ run.page = <<>>
     THEN pc' = "fetch" /\ UNCHANGED <<cursor, row, run, unbroken>>
     ELSE Finish("complete", run)
  /\ UNCHANGED <<feed, raw, keys, backfill, backfillStatus, cut, cuts>>

\* A short page ends the sync.
Exhausted ==
  /\ pc = "decide" /\ Len(run.page) < PageLimit
  /\ Finish(IF run.offset = 0 /\ run.page = <<>> THEN "empty" ELSE "complete", run)
  /\ UNCHANGED <<feed, raw, keys, backfill, backfillStatus, cut, cuts>>

\* The configured depth is reached.
DepthReached ==
  /\ pc = "decide" /\ Len(run.page) = PageLimit
  /\ run.offset + PageLimit > MaxOffset
  /\ Finish("offset_limit_reached", run)
  /\ UNCHANGED <<feed, raw, keys, backfill, backfillStatus, cut, cuts>>

\* Faults: a full sync stops early too; any page of duplicates is enough.
StopsFullToo ==
  Oldest(run.page) < run.from - Margin /\ run.fresh = <<>>

StopsAtDuplicates == ~run.full /\ run.fresh = <<>>

\* The page an incremental sync stops at.
StopsHere ==
  ~run.full /\ Oldest(run.page) < run.from - Margin /\ run.fresh = <<>>

EarlyStop ==
  /\ pc = "decide" /\ Len(run.page) = PageLimit
  /\ run.offset + PageLimit <= MaxOffset
  /\ StopsHere
  /\ Finish("complete", run)
  /\ UNCHANGED <<feed, raw, keys, backfill, backfillStatus, cut, cuts>>

NextPage ==
  /\ pc = "decide" /\ Len(run.page) = PageLimit
  /\ run.offset + PageLimit <= MaxOffset
  /\ ~StopsHere
  /\ run' = [run EXCEPT !.offset = @ + PageLimit]
  /\ pc' = "fetch"
  /\ UNCHANGED <<feed, disk, backfill, backfillStatus, history>>

\* What is left of the write in progress, and which fills it cut off.
CutOff ==
  /\ cuts < MaxCuts /\ cuts' = cuts + 1
  /\ raw' \in IF pc = "append"
              THEN UNION {CutAfter(raw, run.fresh, n) : n \in 0..Len(run.fresh)}
              ELSE {raw}
  /\ cut' = IF pc \in {"append", "register"} THEN cut \cup Range(run.fresh)
                                             ELSE cut
  /\ unbroken' = FALSE
  /\ pc' = "idle" /\ run' = NoRun
  /\ backfill' = None /\ backfillStatus' = "none"

\* Something raises: retries used up, a malformed body, a full disk, a
\* locked database.  The cursor moves all the same.  The row says failed,
\* or still running when it is no Exception (KeyboardInterrupt).
Raise ==
  /\ pc \in Steps
  /\ CutOff
  /\ cursor' = IF run.latest > run.from THEN run.latest ELSE cursor
  /\ row' \in {"failed", "running"}
  /\ UNCHANGED <<feed, keys>>

\* The process dies.
Crash ==
  /\ pc # "idle"
  /\ CutOff
  /\ UNCHANGED <<feed, keys, cursor, row>>

-----------------------------------------------------------------------------
(* sync_backfill()                                                         *)

\* The first window is the whole range.
StartBackfill(range, honored) ==
  /\ pc = "idle"
  /\ Begin(TRUE, range, honored)
  /\ backfill' = [range |-> range, windows |-> 1, known |-> Len(feed),
                  split |-> {}]
  /\ backfillStatus' = "running"
  /\ UNCHANGED <<feed, raw, keys, cursor, history>>

\* The window was cut off at the offset limit above the start of the range.
Shrinks == row = "offset_limit_reached" /\ run.earliest > backfill.range.lo

\* Fault: one second too many.
NewEndTooLow == run.earliest - 2

\* Timestamps are second-granular.
NewEnd == run.earliest - 1

\* The window shrinks to what is older than the earliest fill seen.
NextWindow(honored) ==
  /\ pc = "between"
  /\ Shrinks /\ NewEnd < run.window.hi /\ backfill.windows < MaxWindows
  /\ Begin(TRUE, [lo |-> backfill.range.lo, hi |-> NewEnd], honored)
  /\ backfill' = [backfill EXCEPT !.windows = @ + 1,
                                  !.split = @ \cup {run.earliest}]
  /\ UNCHANGED <<feed, raw, keys, cursor, backfillStatus, history>>

\* Nothing is left to shrink, or shrinking does not help.
BackfillStatus ==
  CASE Shrinks /\ NewEnd >= run.window.hi -> "no_progress"
    [] Shrinks /\ NewEnd < run.window.hi -> "max_windows_reached"
    [] row = "time_params_not_honored" -> row
    [] OTHER -> "complete"

EndBackfill ==
  /\ pc = "between"
  /\ ~(Shrinks /\ NewEnd < run.window.hi /\ backfill.windows < MaxWindows)
  /\ backfillStatus' = BackfillStatus
  /\ pc' = "idle"
  /\ UNCHANGED <<feed, disk, run, backfill, history>>

-----------------------------------------------------------------------------
SyncStep == \/ CapHit \/ Fetch \/ AppendMany \/ RegisterKeys
            \/ Exhausted \/ DepthReached \/ EarlyStop \/ NextPage
BackfillStep == EndBackfill \/ \E honored \in BOOLEAN : NextWindow(honored)

Start == \/ \E full \in BOOLEAN : StartSync(full, None, TRUE)
         \/ \E full, honored \in BOOLEAN, w \in Windows :
              StartSync(full, w, honored)
         \/ \E range \in Windows, honored \in BOOLEAN :
              StartBackfill(range, honored)

Next == \/ \E ts \in Seconds : NewFill(ts)
        \/ Start \/ SyncStep \/ BackfillStep
        \/ Raise \/ Crash

\* A sync that was started goes on: it is a plain loop, whose HTTP calls
\* have a timeout and a bounded number of retries.
Fairness == WF_vars(SyncStep \/ BackfillStep)

Spec == Init /\ [][Next]_vars /\ Fairness

-----------------------------------------------------------------------------
(* Properties                                                              *)

Copies(id) == raw.whole[id] + raw.glued[id]

\* A fill is in the raw file twice only if a run was cut short between
\* writing it and registering it; pages that shift while they are read,
\* overlapping windows and repeated syncs do not cause it.
DuplicatesOnlyAfterCut ==
  \A id \in Ids \ cut : Copies(id) <= 1

Asked(f) == run.window = None \/ (run.window.lo < f.ts /\ f.ts <= run.window.hi)

\* A full sync that says complete has every fill it was asked for that the
\* API had when it started, although the pages shift under it.
FullSyncCoversFeed ==
  pc \in {"idle", "between"} /\ row = "complete" /\ run.full =>
    \A f \in Range(feed) : f.id <= run.known /\ Asked(f) => f.id \in keys

\* An incremental sync that stops early leaves no hole behind, late fills
\* included, as long as no sync of a window only and none that was cut
\* short came after the last complete one.
IncrementalLeavesNoGap ==
  pc = "idle" /\ row = "complete" /\ unbroken => 1..run.known \subseteq keys

InRange(f) == backfill.range.lo < f.ts /\ f.ts <= backfill.range.hi

\* A backfill that says complete has every fill of its range but, perhaps,
\* some of the seconds at which a window was cut off.
BackfillCoversRange ==
  backfillStatus = "complete" =>
    \A f \in Range(feed) :
      f.id <= backfill.known /\ InRange(f) /\ f.ts \notin backfill.split =>
        f.id \in keys

\* Every sync and every backfill comes to an end.
SyncEnds == pc # "idle" ~> pc = "idle"
=============================================================================
