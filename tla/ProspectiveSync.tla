--------------------------- MODULE ProspectiveSync ---------------------------
(***************************************************************************)
(* ProspectiveTradesSyncer: a range of time is fetched window by window;   *)
(* a window is stored only when all its pages were read, and is bisected   *)
(* when the offset limit cuts it off.                                      *)
(*                                                                         *)
(* The API lists fills newest first, lists some late, and may ignore the   *)
(* bounds of a window from some page of it on.  A call may raise and the   *)
(* process may die between two steps; a write that is cut stores the first *)
(* of its records.  (What a torn line does is in TradesSync: the store is  *)
(* of the same class.)                                                     *)
(***************************************************************************)
EXTENDS EventLedger, SequencesExt

CONSTANTS
  PageLimit,    \* page_limit
  MaxOffset,    \* max_offset
  ApiCap,       \* offsets from here on the API may reject
  MaxWindows,   \* max_windows
  Late,         \* the fills that the API may list late
  Ranges,       \* the ranges asked for, in half seconds, where time is in ms
  MaxSyncs,     \* bound on the calls of sync_range
  MaxFaults     \* bound on raises, crashes and ignored windows

ASSUME SyncAssumption ==
  /\ PageLimit \in Nat \ {0}
  /\ {MaxOffset, ApiCap, MaxWindows, MaxSyncs, MaxFaults} \subseteq Nat
  /\ Late \subseteq Fills
  /\ \A f \in Fills : f.id \in Nat
  /\ \A r \in Ranges : r.start \in Nat /\ r.end \in Nat /\ r.start <= r.end

VARIABLES
  listed,       \* the fills the API lists
  raw,          \* how many lines of trades.ndjson hold a fill
  keys,         \* the identities in dedupe_keys
  pc,           \* the next statement of sync_range and _fetch_window, or "idle"
  call,         \* its arguments and locals
  cut,          \* fills written and not registered
  syncs, faults

store == <<raw, keys>>
syncVars == <<listed, store, pc, call, cut, syncs, faults>>

NoCall == [lo |-> 0, hi |-> 0, known |-> {}, pending |-> <<>>, windows |-> 0,
           win |-> <<0, 0>>, honored |-> TRUE, offset |-> 0, staged |-> {}, at |-> {}]

SyncInit ==
  /\ listed = Fills \ Late /\ raw = [f \in Fills |-> 0] /\ keys = {}
  /\ pc = "idle" /\ call = NoCall
  /\ cut = {} /\ syncs = 0 /\ faults = 0

Within(fills, lo, hi) == {f \in fills : lo <= f.sec /\ f.sec <= hi}

\* The API lists a fill late.
List(f) ==
  /\ f \in Late \ listed /\ listed' = listed \cup {f}
  /\ UNCHANGED <<store, pc, call, cut, syncs, faults>>

-----------------------------------------------------------------------------
(* sync_range                                                              *)

\* The whole seconds of a range
FirstSecond(r) == (r.start + 1) \div 2
LastSecond(r) == r.end \div 2

StartSync(r) ==
  /\ pc = "idle" /\ syncs < MaxSyncs /\ syncs' = syncs + 1
  /\ call' = [NoCall EXCEPT !.lo = r.start, !.hi = r.end, !.known = listed,
                !.pending = IF FirstSecond(r) > LastSecond(r) THEN <<>>
                            ELSE <<<<FirstSecond(r), LastSecond(r)>>>>]
  /\ pc' = "loop"
  /\ UNCHANGED <<listed, store, cut, faults>>

\* Its status ("complete", "failed", "time_params_not_honored", ...) is
\* printed; no other program asks for it.
Return == pc' = "idle" /\ call' = NoCall

Completes ==
  /\ pc = "loop" /\ call.pending = <<>>
  /\ Return
  /\ UNCHANGED <<listed, store, cut, syncs, faults>>

TooManyWindows ==
  /\ pc = "loop" /\ call.pending # <<>> /\ call.windows >= MaxWindows
  /\ Return
  /\ UNCHANGED <<listed, store, cut, syncs, faults>>

\* The last window pushed, the newest one, is next.
PopWindow ==
  /\ pc = "loop" /\ call.pending # <<>> /\ call.windows < MaxWindows
  /\ call' = [call EXCEPT !.pending = Front(@), !.win = Last(call.pending),
                          !.windows = @ + 1, !.honored = TRUE, !.offset = 0,
                          !.staged = {}, !.at = listed]
  /\ pc' = "fetch"
  /\ UNCHANGED <<listed, store, cut, syncs, faults>>

(* _fetch_window                                                           *)

Newer(f, g) == f.sec > g.sec \/ (f.sec = g.sec /\ f.id > g.id)
\* How many of the fills come before f, and the page that starts at an offset
Before(fills, f) == Cardinality({g \in fills : Newer(g, f)})
PageOf(fills, offset) ==
  {f \in fills : offset <= Before(fills, f) /\ Before(fills, f) < offset + PageLimit}

\* _strict_page_violation, over the whole page before any of it is staged
Violates(page) == \E f \in page : f.sec < call.win[1] \/ f.sec > call.win[2]

\* From here on the API ignores the bounds of the window.
IgnoreBounds ==
  /\ pc = "fetch" /\ call.honored /\ call' = [call EXCEPT !.honored = FALSE]
  /\ faults < MaxFaults /\ faults' = faults + 1
  /\ UNCHANGED <<listed, store, pc, cut, syncs>>

\* What the API serves for the window
Served == IF call.honored THEN Within(listed, call.win[1], call.win[2]) ELSE listed

Fetch ==
  /\ pc = "fetch"
  /\ LET page == PageOf(Served, call.offset) IN
     IF Violates(page)
     THEN Return
     ELSE /\ call' = [call EXCEPT !.staged = @ \cup page, !.offset = @ + PageLimit]
          /\ pc' = IF Cardinality(page) < PageLimit THEN "publish"
                   ELSE IF call.offset + PageLimit > MaxOffset THEN "capped" ELSE "fetch"
  /\ UNCHANGED <<listed, store, cut, syncs, faults>>

\* The API rejects the offset.
CapHit ==
  /\ pc = "fetch" /\ call.offset > ApiCap
  /\ pc' = "capped"
  /\ UNCHANGED <<listed, store, call, cut, syncs, faults>>

\* A window that was cut off is halved, older part below newer part.
Halves(lo, hi) == LET mid == (lo + hi) \div 2 IN <<<<lo, mid>>, <<mid + 1, hi>>>>
CappedPublishes ==              \* Fault: what was staged is stored all the same
  /\ pc = "capped"
  /\ pc' = "publish" /\ UNCHANGED call
  /\ UNCHANGED <<listed, store, cut, syncs, faults>>
Capped ==
  /\ pc = "capped"
  /\ IF call.win[1] = call.win[2]
     THEN Return
     ELSE /\ call' = [call EXCEPT !.pending = @ \o Halves(call.win[1], call.win[2])]
          /\ pc' = "loop"
  /\ UNCHANGED <<listed, store, cut, syncs, faults>>

\* _append_new: append what the table does not have, then register it.
Fresh == {f \in call.staged : f.id \notin keys}
Publish ==
  /\ pc = "publish"
  /\ raw' = [f \in Fills |-> raw[f] + IF f \in Fresh THEN 1 ELSE 0]
  /\ pc' = "register"
  /\ UNCHANGED <<listed, keys, call, cut, syncs, faults>>

Register ==
  /\ pc = "register"
  /\ keys' = keys \cup {f.id : f \in call.staged}
  /\ pc' = "loop"
  /\ UNCHANGED <<listed, raw, call, cut, syncs, faults>>

\* A call raises, or the process dies, at any statement; in the middle of the
\* append with the first of its records written.
Breaks ==
  /\ pc # "idle" /\ faults < MaxFaults /\ faults' = faults + 1
  /\ \E n \in IF pc = "publish" THEN 0..Cardinality(Fresh) ELSE {0} :
       LET written == {f \in Fresh : Before(Fresh, f) < n} IN
       /\ raw' = [f \in Fills |-> raw[f] + IF f \in written THEN 1 ELSE 0]
       /\ cut' = cut \cup written \cup (IF pc = "register" THEN Fresh ELSE {})
  /\ Return
  /\ UNCHANGED <<listed, keys, syncs>>

SyncStep == Completes \/ TooManyWindows \/ PopWindow \/ Fetch \/ CapHit \/ Capped
              \/ Publish \/ Register
SyncNext == (\E f \in Fills : List(f)) \/ (\E r \in Ranges : StartSync(r)) \/ SyncStep
              \/ IgnoreBounds \/ Breaks

-----------------------------------------------------------------------------
Stored(f) == raw[f] > 0

(* The store is made of whole windows: when one is done that was not halved, *)
(* all that the API listed for it before it was read is stored.  A call that *)
(* is about to return "complete" has every fill of its range that was listed *)
(* when it started.  Only what was cut is written again.                     *)
Halved == call.pending # <<>> /\ Last(call.pending)[2] = call.win[2]
SlicesWhole ==
  /\ pc = "loop" /\ ~Halved =>
       \A f \in Within(call.at, call.win[1], call.win[2]) : Stored(f)
  /\ pc = "loop" /\ call.pending = <<>> =>
       \A f \in call.known : call.lo <= 2 * f.sec /\ 2 * f.sec <= call.hi => Stored(f)
  /\ \A f \in Fills \ cut : raw[f] <= 1
=============================================================================
