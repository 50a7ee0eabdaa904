---------------------------- MODULE ExecutionEvents ----------------------------
(* What happened to orders at a venue, as the execution-event journal keeps   *)
(* it and the reconciliation reads it. Events reach the collector late, twice,*)
(* out of order or never; each observation is captured under a capture id;    *)
(* appends fail and processes die; a report replays any prefix of the journal.*)
(*                                                                            *)
(* An order's life at the venue is OrderSim's, which the reconciler's replay  *)
(* says it follows. Writers cooperate and storage honors fsync, as the        *)
(* journal's header assumes; the locks and checkpoints it shares with the     *)
(* intent ledger are in IntentLedger.                                         *)
EXTENDS Integers, FiniteSets, SequencesExt, OrderSim

CONSTANTS
    Orders,        \* intent ids of the trusted intent checkpoint
    Qty,           \* order -> quantity
    Captures,      \* capture ids the collector has for its attempts
    None,
    MaxReceived,   \* bound: observations
    MaxMishaps     \* bound: failures, crashes, and observations lost, overtaken or doubled

VARIABLES
    orders,        \* order -> its state at the venue
    issued,        \* the venue's events, in the order in which they happened
    received,      \* observations: the event received, stamped by its place here
    file,          \* records in the journal file, oldest first
    synced,        \* how many of them are on stable storage
    torn,          \* the file ends inside a line
    handle,        \* "open", "poisoned" or "closed"
    index,         \* the records the open handle remembers
    call,          \* the record append has written and not yet synced, or None
    acked,         \* receipts handed out
    mishaps        \* how many of those happened

venue == <<orders, issued>>
journal == <<file, synced, torn, handle, index, call, acked>>
vars == <<venue, received, journal, mishaps>>

Rejected == [from |-> {"SENT"}, to |-> "REJECTED"]
Moves == [ SUBMITTED |-> Sent, VENUE_ACK |-> Acknowledged, REJECTED |-> Rejected,
           CANCEL_REQUESTED |-> CancelRequested, CANCELLED |-> Cancelled, EXPIRED |-> Expired ]
Fills == {"PARTIAL_FILL", "FILLED"}
EventType == DOMAIN Moves \cup Fills
OrderEvent == [order : Orders, kind : EventType, fill : Nat, cumulative : Nat, remaining : Nat]

(* A record is a capture id and the observation it binds: what DurableLog     *)
(* calls an intent.                                                           *)
Record == [id : Captures, content : 1..MaxReceived]

ASSUME EventsAssumption ==
    /\ MaxReceived \in Nat /\ MaxMishaps \in Nat
    /\ Qty \in [Orders -> Nat \ {0}]
    /\ None \notin Record

Init ==
    /\ orders = [o \in Orders |-> NewOrder(Qty[o])]
    /\ issued = <<>> /\ received = <<>>
    /\ file = <<>> /\ synced = 0 /\ torn = FALSE
    /\ handle = "open" /\ index = <<>> /\ call = None /\ acked = {}
    /\ mishaps = 0

--------------------------------------------------------------------------------
(* The venue.                                                                 *)

Happens(o, kind, fill, next) ==
    /\ orders' = [orders EXCEPT ![o] = next]
    /\ issued' = Append(issued, [order |-> o, kind |-> kind, fill |-> fill,
                                 cumulative |-> next.filled, remaining |-> Remaining(next)])
    /\ UNCHANGED <<received, journal, mishaps>>

OrderMoves(o) ==
    \E kind \in DOMAIN Moves :
        /\ MayMove(orders[o], Moves[kind], 0)
        /\ Happens(o, kind, 0, Moved(orders[o], Moves[kind], 0))

OrderFills(o) ==
    \E q \in 1..Remaining(orders[o]) :
        /\ MayFill(orders[o], q, 0)
        /\ LET next == Filled(orders[o], q, 0)
           IN  Happens(o, IF next.status = "FILLED" THEN "FILLED" ELSE "PARTIAL_FILL", q, next)

--------------------------------------------------------------------------------
(* DurableExecutionEventJournalV1                                             *)

Observed(n) == [j \in 1..n |-> file[j].content]
Receipt(n, record) == [seq |-> n, intent |-> record]

(* A capture id that is on record gives the receipt it has; with other        *)
(* content it is refused, which changes nothing.                              *)
AppendAgain(c, k) ==
    /\ handle = "open" /\ call = None
    /\ \E n \in 1..Len(index) :
          /\ index[n] = [id |-> c, content |-> k]
          /\ acked' = acked \cup {Receipt(n, index[n])}
    /\ UNCHANGED <<venue, received, file, synced, torn, handle, index, call, mishaps>>

Writes(c, k) ==
    /\ handle = "open" /\ call = None
    /\ \A n \in 1..Len(index) : index[n].id # c
    /\ call' = [id |-> c, content |-> k]
    /\ file' = Append(file, call')
    /\ UNCHANGED <<venue, synced, torn, handle, index, acked>>

Mishap == mishaps < MaxMishaps /\ mishaps' = mishaps + 1
MishapUnless(normal) == IF normal THEN UNCHANGED mishaps ELSE Mishap

(* An event arrives and its observation is captured under a new id. It may be *)
(* the next one, or one that was overtaken, or one that came before; events   *)
(* in between may arrive later or never.                                      *)
Capture(c) ==
    /\ Len(received) < MaxReceived
    /\ \E i \in 1..Len(issued) :
          /\ received' = Append(received, i)
          /\ MishapUnless(\A e \in 1..Len(issued) :
                             e < i <=> \E j \in 1..Len(received) : received[j] = e)
    /\ Writes(c, Len(received) + 1)

(* An observation is captured again: its append failed, or the collector does *)
(* not know that it did not.                                                  *)
Recapture(c, k) ==
    /\ k \in 1..Len(received)
    /\ MishapUnless(\A n \in 1..Len(index) : index[n].content # k)
    /\ Writes(c, k)
    /\ UNCHANGED received

(* Read back and synced.                                                      *)
AppendSyncs ==
    /\ call # None /\ synced < Len(file)
    /\ synced' = Len(file)
    /\ UNCHANGED <<venue, received, file, torn, handle, index, call, acked, mishaps>>

(* The file is as it was validated: remembered and acknowledged.              *)
\* Fault: the receipt is given for what was written.
ReturnsUnsynced ==
    /\ call # None
    /\ index' = Append(index, call)
    /\ acked' = acked \cup {Receipt(Len(file), call)}
    /\ call' = None
    /\ UNCHANGED <<venue, received, file, synced, torn, handle, mishaps>>
AppendReturns ==
    /\ call # None /\ synced = Len(file)
    /\ index' = Append(index, call)
    /\ acked' = acked \cup {Receipt(Len(file), call)}
    /\ call' = None
    /\ UNCHANGED <<venue, received, file, synced, torn, handle, mishaps>>

(* The write, the read-back, the sync or the look behind it raises: no        *)
(* receipt, and the handle is of no more use. What is not on stable storage   *)
(* may be a part of the line.                                                 *)
AppendFails ==
    /\ call # None
    /\ IF synced < Len(file) THEN torn' \in BOOLEAN ELSE torn' = FALSE
    /\ file' = IF torn' THEN SubSeq(file, 1, synced) ELSE file
    /\ handle' = "poisoned" /\ call' = None
    /\ Mishap
    /\ UNCHANGED <<venue, received, synced, index, acked>>

Close ==
    /\ handle # "closed" /\ call = None
    /\ handle' = "closed" /\ index' = <<>>
    /\ UNCHANGED <<venue, received, file, synced, torn, call, acked, mishaps>>

(* What was not synced is lost, or whole, or cut inside the line.             *)
Crash ==
    /\ Mishap
    /\ handle' = "closed" /\ index' = <<>> /\ call' = None
    /\ file' \in {file, SubSeq(file, 1, synced)}
    /\ IF synced < Len(file) /\ file' # file THEN torn' \in BOOLEAN ELSE torn' = torn
    /\ UNCHANGED <<venue, received, synced, acked>>

(* _recover and the sync behind it. A torn line is never repaired: the        *)
(* journal cannot be opened any more.                                         *)
Open ==
    /\ handle = "closed" /\ ~torn
    /\ handle' = "open" /\ index' = file /\ synced' = Len(file)
    /\ UNCHANGED <<venue, received, file, torn, call, acked, mishaps>>

Next ==
    \/ \E o \in Orders : OrderMoves(o) \/ OrderFills(o)
    \/ \E c \in Captures :
          \/ Capture(c)
          \/ \E k \in 1..MaxReceived : AppendAgain(c, k) \/ Recapture(c, k)
    \/ AppendSyncs \/ AppendReturns \/ AppendFails \/ Close \/ Crash \/ Open

Spec == Init /\ [][Next]_vars

--------------------------------------------------------------------------------
(* reconcile_execution_v1, over the first n records on stable storage.        *)

EventOf(k) == issued[received[k]]

(* The events of one order. An observation captured twice is the same payload *)
(* and counts once; one event received twice has two payloads, which conflict.*)
HistoryOf(o, ks) ==
    FoldLeft(LAMBDA seen, k :
                 IF EventOf(k).order # o \/ (\E j \in 1..Len(seen) : seen[j] = k)
                 THEN seen ELSE Append(seen, k),
             <<>>, ks)
Conflicting(ks) ==
    \E i, j \in 1..Len(ks) : ks[i] # ks[j] /\ received[ks[i]] = received[ks[j]]

MissingPrerequisite(status, kind) ==
    \/ status = "NEW" /\ kind # "SUBMITTED"
    \/ status = "SENT" /\ kind \in Fills \cup {"CANCEL_REQUESTED", "CANCELLED", "EXPIRED"}
    \/ status \in Resting /\ kind = "CANCELLED"
AllowedFrom(kind) == IF kind \in Fills THEN Resting \cup {"CANCEL_REQUESTED"} ELSE Moves[kind].from

\* The quantities the event states are those its predecessors add up to.
\* Fault: the event's own totals are believed.
QuantitiesBelieved(o, row, e) == e.cumulative + e.remaining = Qty[o]
QuantitiesAgree(o, row, e) ==
    LET filled == row.filled + e.fill
    IN  /\ filled = e.cumulative /\ e.remaining = Qty[o] - filled
        /\ e.kind = "FILLED" => filled = Qty[o]
        /\ e.kind = "PARTIAL_FILL" => filled \in 1..Qty[o] - 1

After(status, kind) ==
    CASE kind = "FILLED" -> "FILLED"
      [] kind = "PARTIAL_FILL" -> IF status = "CANCEL_REQUESTED" THEN status ELSE "PARTIALLY_FILLED"
      [] OTHER -> Moves[kind].to

(* One turn of _replay's loop; a row that has an outcome keeps it.            *)
Ended(row, outcome) == [row EXCEPT !.outcome = outcome]
ReplayEvent(o, cutoff, row, k) ==
    LET e == EventOf(k) IN
    CASE row.outcome # "none" -> row
      [] row.outcome = "none" /\ (k < row.last \/ k > cutoff \/ row.status \in Terminal) ->
             Ended(row, "CONFLICT")
      [] OTHER ->
             IF MissingPrerequisite(row.status, e.kind) THEN Ended(row, "UNRESOLVED")
             ELSE IF row.status \notin AllowedFrom(e.kind) \/ ~QuantitiesAgree(o, row, e)
             THEN Ended(row, "CONFLICT")
             ELSE [row EXCEPT !.status = After(@, e.kind), !.filled = @ + e.fill, !.last = k]

NewRow == [outcome |-> "none", status |-> "NEW", filled |-> 0, last |-> 0]
ReplayRow(o, ks, cutoff) ==
    IF Conflicting(ks) THEN Ended(NewRow, "CONFLICT")
    ELSE LET row == FoldLeft(LAMBDA r, k : ReplayEvent(o, cutoff, r, k), NewRow, ks)
         IN  IF row.outcome # "none" THEN row
             ELSE Ended(row, IF row.status \in Terminal THEN "OBSERVED_TERMINAL" ELSE "UNRESOLVED")

--------------------------------------------------------------------------------

TypeOK ==
    /\ orders \in [Orders -> OrderState]
    /\ issued \in Seq(OrderEvent)
    /\ received \in Seq(1..Len(issued)) /\ Len(received) <= MaxReceived
    /\ file \in Seq(Record) /\ synced \in 0..Len(file) /\ torn \in BOOLEAN
    /\ handle \in {"open", "poisoned", "closed"}
    /\ index \in Seq(Record)
    /\ call \in Record \cup {None}
    /\ acked \subseteq [seq : Nat \ {0}, intent : Record]
    /\ mishaps \in 0..MaxMishaps

(* The journal promises its callers what the intent ledger does: a receipt    *)
(* names a record that is and stays on stable storage, once, through failed   *)
(* syncs, retries of a capture whose receipt was never given, and crashes.    *)
Log == INSTANCE DurableLog WITH
    Ids <- Captures, Contents <- 1..MaxReceived,
    log <- SubSeq(file, 1, synced), acked <- acked
JournalIsDurableLog == Log!LogSpec

(* What a report calls OBSERVED_TERMINAL is how the order ended at the venue, *)
(* with the quantity that was filled, whichever observations were lost,       *)
(* reordered or doubled on the way and wherever the prefix and the cutoff lie *)
(* (_replay's checks of totals, prerequisites and times).                     *)
TerminalIsTrue ==
    \A o \in Orders, n \in 0..synced, cutoff \in 0..Len(received) :
        LET row == ReplayRow(o, HistoryOf(o, Observed(n)), cutoff)
        IN  row.outcome = "OBSERVED_TERMINAL" =>
                row.status = orders[o].status /\ row.filled = orders[o].filled

(* An order whose events were all received once and in order, and captured in *)
(* that order, however often, is never reported as a conflict: its row says   *)
(* exactly what the venue would (_replay follows order_state.py).             *)
Faithful(o, ks) ==
    /\ \A i, j \in 1..Len(ks) : i < j => ks[i] < ks[j] /\ received[ks[i]] < received[ks[j]]
    /\ {received[ks[i]] : i \in 1..Len(ks)} = {e \in 1..Len(issued) : issued[e].order = o}
FaithfulRowsAgree ==
    \A o \in Orders :
        LET ks == HistoryOf(o, Observed(synced))
            row == ReplayRow(o, ks, Len(received))
        IN  Faithful(o, ks) =>
                /\ row.outcome # "CONFLICT"
                /\ row.status = orders[o].status /\ row.filled = orders[o].filled

(* The rows of a report are true both ways: no end is reported that did not   *)
(* happen, and no complete evidence is called a conflict.                     *)
RowsAreTrue == TerminalIsTrue /\ FaithfulRowsAgree
================================================================================
