-------------------------- MODULE ExecutionEventsProofs --------------------------
(* The execution-event journal is a durable log, and the rows of its reports   *)
(* are true, for any number of orders, captures, observations, failures and    *)
(* crashes.                                                                    *)
(*                                                                             *)
(* JournalInv says what the journal holds between two statements of append.    *)
(* VenueInv says that there is a history of every order that the events issued *)
(* so far make, one legal step each (Life): what a replay is compared with.    *)
(* The folds of the replay are functions on the subsets of a sequence's        *)
(* domain; that they exist and are unique is shown by a smallest               *)
(* counterexample (LeastNumber, FoldMade, FoldUnique).                         *)
EXTENDS ExecutionEvents, SequenceTheorems, FiniteSetTheorems, WellFoundedInduction, TLAPS

\* Sequences with the same elements are one.
LEMMA SameElements ==
  ASSUME NEW S, NEW s \in Seq(S), NEW t \in Seq(S), Len(s) = Len(t),
         \A i \in 1..Len(s) : s[i] = t[i]
  PROVE  s = t
  OBVIOUS

(***************************************************************************)
(* The journal between two statements of append                            *)
(***************************************************************************)
JournalTypes ==
  /\ received \in Seq(Nat) /\ file \in Seq(Record) /\ index \in Seq(Record)
  /\ synced \in 0..Len(file) /\ call \in Record \cup {None}
UniqueIds == \A m, n \in 1..Len(file) : file[m].id = file[n].id => m = n

\* At most the record of the call in progress, or what such a call left behind,
\* is not on stable storage; an open handle remembers all but that record.
JournalInv ==
  /\ JournalTypes /\ UniqueIds
  /\ Len(file) <= synced + 1
  /\ handle = "open" /\ call = None => index = file /\ synced = Len(file)
  /\ call # None => handle = "open" /\ file = Append(index, call)

Stable == SubSeq(file, 1, synced)

\* The file is as it was, or loses what was not synced.
LEMMA KeepsOrCuts ==
  ASSUME JournalInv, file' \in {file, Stable}, synced' = synced
  PROVE  /\ file' \in Seq(Record) /\ synced' \in 0..Len(file') /\ UniqueIds'
         /\ Len(file') <= synced' + 1 /\ Stable' = Stable
<1>0. file \in Seq(Record) /\ synced \in 0..Len(file)
  BY DEF JournalInv, JournalTypes
<1>1. CASE file' = file
  BY <1>1 DEF JournalInv, JournalTypes, UniqueIds, Stable
<1>2. CASE file' = Stable
  <2>1. /\ Stable \in Seq(Record) /\ Len(Stable) = synced
        /\ \A i \in 1..synced : Stable[i] = file[i]
    BY <1>0 DEF Stable
  <2>2. Stable' = Stable
    <3>1. Stable' = SubSeq(Stable, 1, synced)
      BY <1>2 DEF Stable
    <3>2. /\ SubSeq(Stable, 1, synced) \in Seq(Record) /\ Len(SubSeq(Stable, 1, synced)) = synced
          /\ \A i \in 1..synced : SubSeq(Stable, 1, synced)[i] = Stable[i]
      BY <1>0, <2>1
    <3> QED BY <1>0, <2>1, <3>1, <3>2, SameElements
  <2>3. UniqueIds'
    BY <1>0, <1>2, <2>1 DEF UniqueIds, JournalInv
  <2> QED BY <1>0, <1>2, <2>1, <2>2, <2>3
<1> QED BY <1>1, <1>2

\* A record is written behind those that an open handle remembers.
LEMMA WritesKeepJournal ==
  ASSUME JournalInv, NEW c \in Captures, NEW k \in 1..MaxReceived, Writes(c, k),
         received' \in Seq(Nat)
  PROVE  JournalInv' /\ Stable' = Stable /\ acked' = acked
<1> DEFINE r == [id |-> c, content |-> k]
<1>1. /\ handle = "open" /\ call = None /\ \A n \in 1..Len(index) : index[n].id # c
      /\ call' = r /\ file' = Append(file, r)
      /\ UNCHANGED <<synced, handle, index, acked>>
  BY DEF Writes
<1>2. r \in Record /\ r.id = c /\ r # None
  BY EventsAssumption DEF Record
<1> HIDE DEF r
<1>3. /\ file \in Seq(Record) /\ index = file /\ synced = Len(file) /\ UniqueIds
      /\ index \in Seq(Record)
  BY <1>1 DEF JournalInv, JournalTypes
<1>4. /\ file' \in Seq(Record) /\ Len(file') = Len(file) + 1 /\ Len(file) \in Nat
      /\ file'[Len(file) + 1] = r /\ \A i \in 1..Len(file) : file'[i] = file[i]
  BY <1>1, <1>2, <1>3
<1>5. UniqueIds'
  BY <1>1, <1>2, <1>3, <1>4 DEF UniqueIds
<1>6. Stable' = Stable
  <2>1. /\ SubSeq(file', 1, synced) \in Seq(Record) /\ Len(SubSeq(file', 1, synced)) = synced
        /\ \A i \in 1..synced : SubSeq(file', 1, synced)[i] = file'[i]
    <3>1. synced \in 0..Len(file')
      BY <1>3, <1>4
    <3> QED BY <1>4, <3>1
  <2>2. /\ Stable \in Seq(Record) /\ Len(Stable) = synced
        /\ \A i \in 1..synced : Stable[i] = file[i]
    <3>1. synced \in 0..Len(file)
      BY <1>3, <1>4
    <3> QED BY <1>3, <3>1 DEF Stable
  <2>3. SubSeq(file', 1, synced) = Stable
    BY <1>3, <1>4, <2>1, <2>2, SameElements
  <2> QED BY <1>1, <2>3 DEF Stable
<1>7. JournalTypes'
  BY <1>1, <1>2, <1>3, <1>4 DEF JournalTypes
<1>8. Len(file') <= synced' + 1 /\ call' # None /\ file' = Append(index', call') /\ handle' = "open"
  BY <1>1, <1>2, <1>3, <1>4
<1> QED BY <1>1, <1>5, <1>6, <1>7, <1>8 DEF JournalInv

\* Every step keeps it.
LEMMA JournalStays == JournalInv /\ [Next]_vars => JournalInv'
<1> SUFFICES ASSUME JournalInv, [Next]_vars PROVE JournalInv'
  OBVIOUS
<1>0. file \in Seq(Record) /\ index \in Seq(Record) /\ received \in Seq(Nat)
  BY DEF JournalInv, JournalTypes
<1>1. CASE UNCHANGED <<received, file, synced, handle, index, call>>
  BY <1>1 DEF JournalInv, JournalTypes, UniqueIds
<1>2. ASSUME NEW o \in Orders, OrderMoves(o) \/ OrderFills(o) PROVE JournalInv'
  BY <1>1, <1>2 DEF OrderMoves, OrderFills, Happens, journal
<1>3. ASSUME NEW c \in Captures, Capture(c) PROVE JournalInv'
  <2>1. Len(received) + 1 \in 1..MaxReceived
    BY <1>0, <1>3, EventsAssumption DEF Capture
  <2>2. received' \in Seq(Nat)
    BY <1>0, <1>3 DEF Capture
  <2> QED BY <1>3, <2>1, <2>2, WritesKeepJournal DEF Capture
<1>4. ASSUME NEW c \in Captures, NEW k \in 1..MaxReceived, AppendAgain(c, k) \/ Recapture(c, k)
      PROVE  JournalInv'
  <2>1. CASE AppendAgain(c, k)
    BY <1>1, <2>1 DEF AppendAgain
  <2>2. CASE Recapture(c, k)
    BY <1>0, <2>2, WritesKeepJournal DEF Recapture
  <2> QED BY <1>4, <2>1, <2>2
<1>5. CASE AppendSyncs
  BY <1>0, <1>5 DEF AppendSyncs, JournalInv, JournalTypes, UniqueIds
<1>6. CASE AppendReturns
  <2>1. /\ call # None /\ synced = Len(file) /\ index' = Append(index, call) /\ call' = None
        /\ UNCHANGED <<received, file, synced, handle>>
    BY <1>6 DEF AppendReturns
  <2>2. file = Append(index, call)
    BY <2>1 DEF JournalInv
  <2> QED BY <1>0, <2>1, <2>2 DEF JournalInv, JournalTypes, UniqueIds
<1>7. CASE AppendFails \/ Crash
  <2>1. /\ file' \in {file, Stable} /\ UNCHANGED <<received, synced>>
        /\ call' = None /\ handle' # "open"
        /\ (index' = index \/ index' = <<>>)
    <3>1. CASE AppendFails
      BY <3>1 DEF AppendFails, Stable
    <3>2. CASE Crash
      BY <3>2 DEF Crash, Stable
    <3> QED BY <1>7, <3>1, <3>2
  <2>2. index' \in Seq(Record)
    <3>1. CASE index' = index
      BY <1>0, <3>1
    <3>2. CASE index' = <<>>
      BY <3>2
    <3> QED BY <2>1, <3>1, <3>2
  <2> QED BY <1>0, <2>1, <2>2, KeepsOrCuts DEF JournalInv, JournalTypes
<1>8. CASE Close
  <2>1. /\ index' = <<>> /\ handle' = "closed" /\ call' = None
        /\ UNCHANGED <<received, file, synced>>
    BY <1>8 DEF Close
  <2>2. index' \in Seq(Record)
    BY <2>1
  <2> QED BY <2>1, <2>2 DEF JournalInv, JournalTypes, UniqueIds
<1>9. CASE Open
  BY <1>0, <1>9 DEF Open, JournalInv, JournalTypes, UniqueIds
<1>10. CASE UNCHANGED vars
  BY <1>1, <1>10 DEF vars, journal
<1> QED BY <1>2, <1>3, <1>4, <1>5, <1>6, <1>7, <1>8, <1>9, <1>10 DEF Next

(***************************************************************************)
(* The durable log                                                         *)
(***************************************************************************)

\* Every step of the journal makes at most one record durable, gives a receipt
\* for a durable one, or does neither.
LEMMA StepSimulates ==
  JournalInv /\ [Next]_vars => [Log!LogNext]_(Log!logVars)
<1> SUFFICES ASSUME JournalInv, [Next]_vars PROVE [Log!LogNext]_(Log!logVars)
  OBVIOUS
<1>0. /\ file \in Seq(Record) /\ index \in Seq(Record) /\ received \in Seq(Nat)
      /\ synced \in 0..Len(file) /\ Len(file) <= synced + 1
  BY DEF JournalInv, JournalTypes
<1>1. CASE Stable' = Stable /\ acked' = acked
  BY <1>1 DEF Stable, Log!logVars
<1>2. CASE UNCHANGED <<file, synced, acked>>
  BY <1>1, <1>2 DEF Stable
<1>3. ASSUME file' = file, synced' = Len(file), acked' = acked PROVE [Log!LogNext]_(Log!logVars)
  <2>1. CASE synced = Len(file)
    BY <1>2, <1>3, <2>1
  <2>2. CASE synced # Len(file)
    <3> DEFINE r == file[Len(file)]
    <3>1. Len(file) = synced + 1 /\ synced \in Nat /\ r \in Record
      BY <1>0, <2>2
    <3>2. Stable' = file
      <4>1. /\ SubSeq(file, 1, Len(file)) \in Seq(Record)
            /\ Len(SubSeq(file, 1, Len(file))) = Len(file)
            /\ \A i \in 1..Len(file) : SubSeq(file, 1, Len(file))[i] = file[i]
        BY <1>0
      <4>2. SubSeq(file, 1, Len(file)) = file
        BY <1>0, <4>1, SameElements
      <4> QED BY <1>3, <4>2 DEF Stable
    <3>3. /\ Stable \in Seq(Record) /\ Len(Stable) = synced
          /\ \A i \in 1..synced : Stable[i] = file[i]
      BY <1>0 DEF Stable
    <3>4. file = Append(Stable, r)
      <4> HIDE DEF r
      <4>1. /\ Append(Stable, r) \in Seq(Record) /\ Len(Append(Stable, r)) = Len(file)
            /\ Append(Stable, r)[Len(file)] = r
            /\ \A i \in 1..synced : Append(Stable, r)[i] = Stable[i]
        BY <3>1, <3>3
      <4>2. \A i \in 1..Len(file) : Append(Stable, r)[i] = file[i]
        BY <3>1, <3>3, <4>1 DEF r
      <4> QED BY <1>0, <4>1, <4>2, SameElements
    <3>5. \A k \in 1..Len(Stable) : Stable[k].id # r.id
      BY <3>1, <3>3 DEF JournalInv, UniqueIds
    <3> HIDE DEF r
    <3>6. Log!Persist
      BY <1>3, <3>1, <3>2, <3>3, <3>4, <3>5 DEF Log!Persist, Log!Intents, Record, Stable
    <3> QED BY <3>6 DEF Log!LogNext
  <2> QED BY <2>1, <2>2
<1>4. ASSUME NEW n \in 1..synced, acked' = acked \cup {Receipt(n, file[n])}, UNCHANGED <<file, synced>>
      PROVE  [Log!LogNext]_(Log!logVars)
  <2>1. Len(Stable) = synced /\ Stable[n] = file[n] /\ Stable' = Stable
    BY <1>0, <1>4 DEF Stable
  <2>2. Log!Acknowledge
    BY <1>4, <2>1 DEF Log!Acknowledge, Receipt, Stable
  <2> QED BY <2>2 DEF Log!LogNext
<1>5. ASSUME NEW o \in Orders, OrderMoves(o) \/ OrderFills(o) PROVE [Log!LogNext]_(Log!logVars)
  BY <1>2, <1>5 DEF OrderMoves, OrderFills, Happens, journal
<1>6. ASSUME NEW c \in Captures, Capture(c) PROVE [Log!LogNext]_(Log!logVars)
  <2>1. Len(received) + 1 \in 1..MaxReceived /\ received' \in Seq(Nat)
    BY <1>0, <1>6, EventsAssumption DEF Capture
  <2> QED BY <1>1, <1>6, <2>1, WritesKeepJournal DEF Capture
<1>7. ASSUME NEW c \in Captures, NEW k \in 1..MaxReceived, AppendAgain(c, k) \/ Recapture(c, k)
      PROVE  [Log!LogNext]_(Log!logVars)
  <2>1. CASE AppendAgain(c, k)
    <3>1. PICK n \in 1..Len(index) : acked' = acked \cup {Receipt(n, index[n])}
      BY <2>1 DEF AppendAgain
    <3>2. index = file /\ synced = Len(file) /\ UNCHANGED <<file, synced>>
      BY <2>1 DEF AppendAgain, JournalInv
    <3> QED BY <1>4, <3>1, <3>2
  <2>2. CASE Recapture(c, k)
    BY <1>0, <1>1, <2>2, WritesKeepJournal DEF Recapture
  <2> QED BY <1>7, <2>1, <2>2
<1>8. CASE AppendSyncs
  BY <1>3, <1>8 DEF AppendSyncs
<1>9. CASE AppendReturns
  <2>1. /\ call # None /\ synced = Len(file) /\ acked' = acked \cup {Receipt(Len(file), call)}
        /\ UNCHANGED <<file, synced>>
    BY <1>9 DEF AppendReturns
  <2>2. call \in Record /\ file = Append(index, call)
    BY <2>1 DEF JournalInv, JournalTypes
  <2>3. file[Len(file)] = call /\ Len(file) \in 1..synced
    BY <1>0, <2>1, <2>2
  <2> QED BY <1>4, <2>1, <2>3
<1>10. CASE AppendFails \/ Crash
  <2>1. /\ file' \in {file, Stable} /\ synced' = synced /\ acked' = acked
    <3>1. CASE AppendFails
      BY <3>1 DEF AppendFails, Stable
    <3>2. CASE Crash
      BY <3>2 DEF Crash, Stable
    <3> QED BY <1>10, <3>1, <3>2
  <2> QED BY <1>1, <2>1, KeepsOrCuts
<1>11. CASE Close
  BY <1>2, <1>11 DEF Close
<1>12. CASE Open
  BY <1>3, <1>12 DEF Open
<1>13. CASE UNCHANGED vars
  BY <1>2, <1>13 DEF vars, journal
<1> QED BY <1>5, <1>6, <1>7, <1>8, <1>9, <1>10, <1>11, <1>12, <1>13 DEF Next

\* What the journal promises: a receipt names a record that is on stable storage
\* and stays there, once (DurableExecutionEventJournalV1.append), through failed
\* syncs, retries of captures and crashes at every statement.
THEOREM JournalImplementsLog == Spec => JournalIsDurableLog
<1>1. Init => JournalInv /\ Log!LogInit
  <2>1. SubSeq(<<>>, 1, 0) = <<>>
    OBVIOUS
  <2>2. <<>> \in Seq(Record) /\ <<>> \in Seq(Nat) /\ Len(<<>>) = 0
    OBVIOUS
  <2> QED BY <2>1, <2>2 DEF Init, JournalInv, JournalTypes, UniqueIds, Log!LogInit
<1> QED BY <1>1, JournalStays, StepSimulates, PTL DEF Spec, JournalIsDurableLog, Log!LogSpec

(***************************************************************************)
(* The life of the orders                                                  *)
(***************************************************************************)

\* s becomes t when the event e happens to its order.
Legal(s, e, t) ==
  \/ /\ e.kind \in DOMAIN Moves /\ e.fill = 0
     /\ MayMove(s, Moves[e.kind], 0) /\ t = Moved(s, Moves[e.kind], 0)
     /\ e.cumulative = t.filled /\ e.remaining = Remaining(t)
  \/ /\ e.fill \in 1..Remaining(s) /\ MayFill(s, e.fill, 0) /\ t = Filled(s, e.fill, 0)
     /\ e.kind = IF t.status = "FILLED" THEN "FILLED" ELSE "PARTIAL_FILL"
     /\ e.cumulative = t.filled /\ e.remaining = Remaining(t)

OrderIs(o, s) == s \in OrderState /\ s.qty = Qty[o] /\ s.filled <= s.qty

\* h is what the orders were after each event of es, from the first to the last,
\* which left them at os.
Life(h, es, os) ==
  /\ h \in [0..Len(es) -> [Orders -> OrderState]]
  /\ h[0] = [o \in Orders |-> NewOrder(Qty[o])] /\ h[Len(es)] = os
  /\ \A i \in 0..Len(es), o \in Orders : OrderIs(o, h[i][o])
  /\ \A i \in 1..Len(es) :
       /\ Legal(h[i - 1][es[i].order], es[i], h[i][es[i].order])
       /\ \A o \in Orders : o # es[i].order => h[i][o] = h[i - 1][o]

VenueInv ==
  /\ issued \in Seq(OrderEvent)
  /\ received \in Seq(1..Len(issued))
  /\ \A n \in 1..Len(file) : file[n].content \in 1..Len(received)
  /\ \E h : Life(h, issued, orders)

\* A move keeps the type and what was filled.
LEMMA MoveIs ==
  ASSUME NEW o \in Orders, NEW s, OrderIs(o, s), NEW kind \in DOMAIN Moves
  PROVE  /\ OrderIs(o, Moved(s, Moves[kind], 0))
         /\ Moved(s, Moves[kind], 0).filled = s.filled
         /\ Moved(s, Moves[kind], 0).status = Moves[kind].to
         /\ Moves[kind].to \in Status
<1>1. Moves[kind].to \in Status
  BY DEF Moves, Sent, Acknowledged, Rejected, CancelRequested, Cancelled, Expired,
         Status, Resting, Terminal
<1> HIDE DEF Moves, Status
<1>2. QED BY <1>1 DEF OrderIs, OrderState, Moved

\* A fill adds to what was filled, and its status says whether that is all.
LEMMA FillIs ==
  ASSUME NEW o \in Orders, NEW s, OrderIs(o, s), NEW q \in 1..Remaining(s)
  PROVE  /\ OrderIs(o, Filled(s, q, 0)) /\ q \in Nat /\ q >= 1
         /\ Filled(s, q, 0).filled = s.filled + q
         /\ Filled(s, q, 0).status = "FILLED" <=> s.filled + q = Qty[o]
         /\ Filled(s, q, 0).status # "FILLED" =>
              /\ s.filled + q \in 1..(Qty[o] - 1)
              /\ Filled(s, q, 0).status =
                   IF s.status = "CANCEL_REQUESTED" THEN s.status ELSE "PARTIALLY_FILLED"
<1>1. s \in OrderState /\ s.qty = Qty[o] /\ s.filled \in Nat /\ s.qty \in Nat
      /\ s.filled <= s.qty /\ s.status \in Status
  BY DEF OrderIs, OrderState
<1>2. Remaining(s) = s.qty - s.filled
  BY <1>1 DEF Remaining
<1>3. q \in Nat /\ q >= 1 /\ s.filled + q <= s.qty /\ s.filled + q \in Nat
  BY <1>1, <1>2
<1>4. {"FILLED", "PARTIALLY_FILLED"} \subseteq Status
  BY DEF Status, Resting, Terminal
<1> DEFINE t == Filled(s, q, 0)
<1> HIDE DEF Status
<1>5. t \in OrderState /\ t.filled = s.filled + q /\ t.qty = s.qty
      /\ t.status = IF s.filled + q = s.qty THEN "FILLED"
                    ELSE IF s.status = "CANCEL_REQUESTED" THEN s.status ELSE "PARTIALLY_FILLED"
  BY <1>1, <1>3, <1>4 DEF Filled, OrderState
<1> HIDE DEF t
<1>6. OrderIs(o, t)
  BY <1>1, <1>3, <1>5 DEF OrderIs
<1>7. t.status = "FILLED" <=> s.filled + q = Qty[o]
  BY <1>1, <1>5
<1>8. s.filled + q # Qty[o] => s.filled + q \in 1..(Qty[o] - 1)
  BY <1>1, <1>3
<1>9. QED BY <1>1, <1>3, <1>5, <1>6, <1>7, <1>8 DEF t

\* What an event says is what the order went through.
LEMMA LegalSays ==
  ASSUME NEW o \in Orders, NEW s, OrderIs(o, s), NEW e \in OrderEvent, NEW t, Legal(s, e, t)
  PROVE  /\ OrderIs(o, t) /\ t.filled = s.filled + e.fill /\ e.cumulative = t.filled
         /\ e.remaining = Qty[o] - t.filled
         /\ t.status = After(s.status, e.kind)
         /\ e.kind = "FILLED" => t.filled = Qty[o]
         /\ e.kind = "PARTIAL_FILL" => t.filled \in 1..(Qty[o] - 1)
         /\ e.kind \in Fills => s.status \in Resting \cup {"CANCEL_REQUESTED"}
         /\ e.kind \notin Fills => e.kind \in DOMAIN Moves /\ s.status \in Moves[e.kind].from
<1>1. DOMAIN Moves = {"SUBMITTED", "VENUE_ACK", "REJECTED", "CANCEL_REQUESTED", "CANCELLED", "EXPIRED"}
  BY DEF Moves
<1>2. e.kind \in DOMAIN Moves => e.kind \notin Fills
  BY <1>1 DEF Fills
<1> HIDE DEF Moves
<1>3. CASE /\ e.kind \in DOMAIN Moves /\ e.fill = 0
           /\ MayMove(s, Moves[e.kind], 0) /\ t = Moved(s, Moves[e.kind], 0)
           /\ e.cumulative = t.filled /\ e.remaining = Remaining(t)
  <2>1. OrderIs(o, t) /\ t.filled = s.filled /\ t.status = Moves[e.kind].to
    BY <1>3, MoveIs
  <2>2. s.filled \in Nat /\ t.filled \in Nat /\ t.filled <= t.qty /\ t.qty = Qty[o]
        /\ t.qty \in Nat
    BY <2>1 DEF OrderIs, OrderState
  <2>3. t.filled = s.filled + e.fill
    BY <1>3, <2>1, <2>2
  <2>4. e.remaining = Qty[o] - t.filled
    BY <1>3, <2>2 DEF Remaining
  <2>5. t.status = After(s.status, e.kind)
    BY <1>2, <1>3, <2>1 DEF After, Fills
  <2>6. s.status \in Moves[e.kind].from
    BY <1>3 DEF MayMove
  <2>7. QED BY <1>2, <1>3, <2>1, <2>3, <2>4, <2>5, <2>6 DEF Fills
<1>4. CASE /\ e.fill \in 1..Remaining(s) /\ MayFill(s, e.fill, 0) /\ t = Filled(s, e.fill, 0)
           /\ e.kind = IF t.status = "FILLED" THEN "FILLED" ELSE "PARTIAL_FILL"
           /\ e.cumulative = t.filled /\ e.remaining = Remaining(t)
  <2>1. /\ OrderIs(o, t) /\ t.filled = s.filled + e.fill
        /\ t.status = "FILLED" <=> s.filled + e.fill = Qty[o]
        /\ t.status # "FILLED" =>
             /\ s.filled + e.fill \in 1..(Qty[o] - 1)
             /\ t.status = IF s.status = "CANCEL_REQUESTED" THEN s.status ELSE "PARTIALLY_FILLED"
    BY <1>4, FillIs
  <2>2. t.filled \in Nat /\ t.filled <= t.qty /\ t.qty = Qty[o] /\ t.qty \in Nat
    BY <2>1 DEF OrderIs, OrderState
  <2>3. e.remaining = Qty[o] - t.filled
    BY <1>4, <2>2 DEF Remaining
  <2>4. e.kind \in Fills /\ s.status \in Resting \cup {"CANCEL_REQUESTED"}
    BY <1>4 DEF MayFill, Fills
  <2>5. t.status = After(s.status, e.kind)
    BY <1>4, <2>1 DEF After
  <2>6. QED BY <1>4, <2>1, <2>3, <2>4, <2>5
<1>5. QED BY <1>3, <1>4 DEF Legal

\* A sequence over a set is one over a larger set.
LEMMA SeqWidens ==
  ASSUME NEW A, NEW B, A \subseteq B, NEW s \in Seq(A)
  PROVE  s \in Seq(B)
OBVIOUS

\* One more event, legal where the orders are, makes a longer life.
LEMMA LifeGrows ==
  ASSUME NEW es \in Seq(OrderEvent), NEW os, NEW h, Life(h, es, os), NEW o \in Orders,
         NEW e \in OrderEvent, e.order = o, NEW next, Legal(os[o], e, next)
  PROVE  /\ Append(es, e) \in Seq(OrderEvent)
         /\ \E g : Life(g, Append(es, e), [os EXCEPT ![o] = next])
<1> DEFINE L == Len(es)
           fs == Append(es, e)
           ps == [os EXCEPT ![o] = next]
           g == [i \in 0..(L + 1) |-> IF i = L + 1 THEN ps ELSE h[i]]
<1>1. /\ L \in Nat /\ fs \in Seq(OrderEvent) /\ Len(fs) = L + 1
      /\ fs[L + 1] = e /\ \A i \in 1..L : fs[i] = es[i]
  BY AppendProperties
<1>2. /\ h \in [0..L -> [Orders -> OrderState]]
      /\ h[0] = [p \in Orders |-> NewOrder(Qty[p])] /\ h[L] = os
      /\ \A i \in 0..L, p \in Orders : OrderIs(p, h[i][p])
      /\ \A i \in 1..L :
           /\ Legal(h[i - 1][es[i].order], es[i], h[i][es[i].order])
           /\ \A p \in Orders : p # es[i].order => h[i][p] = h[i - 1][p]
  BY DEF Life
<1> HIDE DEF L, fs
<1>3. os \in [Orders -> OrderState] /\ \A p \in Orders : OrderIs(p, os[p])
  <2>1. L \in 0..L
    BY <1>1
  <2>2. QED BY <1>2, <2>1
<1>4. OrderIs(o, next)
  BY <1>3, LegalSays
<1>5. next \in OrderState
  BY <1>4 DEF OrderIs
<1>6. /\ ps \in [Orders -> OrderState] /\ ps[o] = next
      /\ \A p \in Orders : p # o => ps[p] = os[p]
  BY <1>3, <1>5
<1> HIDE DEF ps
<1>7. g \in [0..(L + 1) -> [Orders -> OrderState]] /\ g[L + 1] = ps
  BY <1>1, <1>2, <1>6
<1>8. \A i \in 0..L : g[i] = h[i]
  BY <1>1
<1> HIDE DEF g
<1>9. g[0] = [p \in Orders |-> NewOrder(Qty[p])]
  <2>1. 0 \in 0..L
    BY <1>1
  <2>2. QED BY <1>2, <1>8, <2>1
<1>10. ASSUME NEW i \in 0..(L + 1), NEW p \in Orders PROVE OrderIs(p, g[i][p])
  <2>1. CASE i = L + 1
    <3>1. CASE p = o
      BY <1>4, <1>6, <1>7, <2>1, <3>1
    <3>2. CASE p # o
      BY <1>3, <1>6, <1>7, <2>1, <3>2
    <3>3. QED BY <3>1, <3>2
  <2>2. CASE i # L + 1
    <3>1. i \in 0..L
      BY <1>1, <2>2
    <3>2. QED BY <1>2, <1>8, <3>1
  <2>3. QED BY <2>1, <2>2
<1>11. ASSUME NEW i \in 1..(L + 1)
       PROVE  /\ Legal(g[i - 1][fs[i].order], fs[i], g[i][fs[i].order])
              /\ \A p \in Orders : p # fs[i].order => g[i][p] = g[i - 1][p]
  <2>1. CASE i = L + 1
    <3>1. i - 1 = L /\ L \in 0..L
      BY <1>1, <2>1
    <3>2. g[i - 1] = os /\ g[i] = ps /\ fs[i] = e
      BY <1>1, <1>2, <1>7, <1>8, <2>1, <3>1
    <3>3. QED BY <1>6, <3>2
  <2>2. CASE i # L + 1
    <3>1. i \in 1..L /\ i \in 0..L /\ i - 1 \in 0..L
      BY <1>1, <2>2
    <3>2. g[i - 1] = h[i - 1] /\ g[i] = h[i] /\ fs[i] = es[i]
      BY <1>1, <1>8, <3>1
    <3>3. QED BY <1>2, <3>1, <3>2
  <2>3. QED BY <2>1, <2>2
<1>12. Life(g, fs, ps)
  <2>1. Len(fs) = L + 1 /\ g \in [0..Len(fs) -> [Orders -> OrderState]]
        /\ g[Len(fs)] = ps
    BY <1>1, <1>7
  <2>2. /\ \A i \in 0..Len(fs), p \in Orders : OrderIs(p, g[i][p])
        /\ \A i \in 1..Len(fs) :
             /\ Legal(g[i - 1][fs[i].order], fs[i], g[i][fs[i].order])
             /\ \A p \in Orders : p # fs[i].order => g[i][p] = g[i - 1][p]
    BY <1>10, <1>11, <2>1
  <2>3. QED BY <1>9, <2>1, <2>2 DEF Life
<1>13. QED BY <1>1, <1>12 DEF fs, ps

\* The venue moves an order on, or fills it.
LEMMA VenueSteps ==
  ASSUME VenueInv, NEW o \in Orders, OrderMoves(o) \/ OrderFills(o)
  PROVE  VenueInv'
<1>1. PICK h : Life(h, issued, orders)
  BY DEF VenueInv
<1>2. issued \in Seq(OrderEvent) /\ received \in Seq(1..Len(issued)) /\ Len(issued) \in Nat
  BY DEF VenueInv
<1>3. OrderIs(o, orders[o])
  <2>1. Len(issued) \in 0..Len(issued)
    BY <1>2
  <2>2. QED BY <1>1, <2>1 DEF Life
<1>4. ASSUME NEW e \in OrderEvent, e.order = o, NEW next, Legal(orders[o], e, next),
             issued' = Append(issued, e), orders' = [orders EXCEPT ![o] = next],
             UNCHANGED <<received, file>>
      PROVE  VenueInv'
  <2>1. issued' \in Seq(OrderEvent) /\ \E g : Life(g, issued', orders')
    BY <1>1, <1>2, <1>4, LifeGrows
  <2>2. received' \in Seq(1..Len(issued'))
    <3>1. Len(issued') = Len(issued) + 1
      BY <1>2, <1>4, AppendProperties
    <3>2. 1..Len(issued) \subseteq 1..Len(issued')
      BY <1>2, <3>1
    <3>3. received' = received
      BY <1>4
    <3>4. QED BY <1>2, <3>2, <3>3, SeqWidens
  <2>3. QED BY <1>4, <2>1, <2>2 DEF VenueInv
<1>5. CASE OrderMoves(o)
  <2>1. PICK kind \in DOMAIN Moves :
          /\ MayMove(orders[o], Moves[kind], 0)
          /\ Happens(o, kind, 0, Moved(orders[o], Moves[kind], 0))
    BY <1>5 DEF OrderMoves
  <2> DEFINE next == Moved(orders[o], Moves[kind], 0)
             e == [order |-> o, kind |-> kind, fill |-> 0,
                   cumulative |-> next.filled, remaining |-> Remaining(next)]
  <2>2. OrderIs(o, next)
    BY <1>3, MoveIs
  <2>3. next.filled \in Nat /\ Remaining(next) \in Nat
    <3>1. next.filled \in Nat /\ next.qty \in Nat
      BY <2>2 DEF OrderIs, OrderState
    <3> HIDE DEF next
    <3>2. QED BY <3>1 DEF Remaining
  <2>4. e \in OrderEvent /\ e.order = o /\ e.kind = kind /\ e.fill = 0
        /\ e.cumulative = next.filled /\ e.remaining = Remaining(next)
    <3>1. kind \in EventType
      BY DEF EventType
    <3> HIDE DEF next, EventType
    <3>2. QED BY <2>3, <3>1 DEF OrderEvent
  <2>5. issued' = Append(issued, e) /\ orders' = [orders EXCEPT ![o] = next]
        /\ UNCHANGED <<received, file>>
    BY <2>1 DEF Happens, journal
  <2>6. Legal(orders[o], e, next)
    <3> HIDE DEF e
    <3>1. QED BY <2>1, <2>4 DEF Legal
  <2> HIDE DEF e, next
  <2>7. QED BY <1>4, <2>4, <2>5, <2>6
<1>6. CASE OrderFills(o)
  <2>1. PICK q \in 1..Remaining(orders[o]) :
          /\ MayFill(orders[o], q, 0)
          /\ LET next == Filled(orders[o], q, 0)
             IN  Happens(o, IF next.status = "FILLED" THEN "FILLED" ELSE "PARTIAL_FILL", q, next)
    BY <1>6 DEF OrderFills
  <2> DEFINE next == Filled(orders[o], q, 0)
             kind == IF next.status = "FILLED" THEN "FILLED" ELSE "PARTIAL_FILL"
             e == [order |-> o, kind |-> kind, fill |-> q,
                   cumulative |-> next.filled, remaining |-> Remaining(next)]
  <2>2. OrderIs(o, next) /\ q \in Nat
    BY <1>3, FillIs
  <2>3. next.filled \in Nat /\ Remaining(next) \in Nat
    <3>1. next.filled \in Nat /\ next.qty \in Nat
      BY <2>2 DEF OrderIs, OrderState
    <3> HIDE DEF next
    <3>2. QED BY <3>1 DEF Remaining
  <2>4. e \in OrderEvent /\ e.order = o /\ e.kind = kind /\ e.fill = q
        /\ e.cumulative = next.filled /\ e.remaining = Remaining(next)
    <3>1. kind \in EventType
      BY DEF EventType, Fills
    <3> HIDE DEF next, kind, EventType
    <3>2. QED BY <2>2, <2>3, <3>1 DEF OrderEvent
  <2>5. issued' = Append(issued, e) /\ orders' = [orders EXCEPT ![o] = next]
        /\ UNCHANGED <<received, file>>
    BY <2>1 DEF Happens, journal
  <2>6. Legal(orders[o], e, next)
    <3> HIDE DEF e
    <3>1. QED BY <2>1, <2>4 DEF Legal
  <2> HIDE DEF e, next
  <2>7. QED BY <1>4, <2>4, <2>5, <2>6
<1>7. QED BY <1>5, <1>6

\* The life of the orders does not depend on the journal.
LEMMA LifeStays ==
  ASSUME VenueInv, UNCHANGED <<orders, issued>>
  PROVE  \E h : Life(h, issued', orders')
<1>1. PICK h : Life(h, issued, orders)
  BY DEF VenueInv
<1>2. issued' = issued /\ orders' = orders
  OBVIOUS
<1>3. Life(h, issued', orders')
  BY <1>1, <1>2
<1>4. QED BY <1>3

\* What a step does to the file and the observations.
LEMMA VenueStays == JournalInv /\ VenueInv /\ [Next]_vars => VenueInv'
<1> SUFFICES ASSUME JournalInv, VenueInv, [Next]_vars PROVE VenueInv'
  OBVIOUS
<1>1. /\ issued \in Seq(OrderEvent) /\ received \in Seq(1..Len(issued))
      /\ Len(received) \in Nat /\ file \in Seq(Record) /\ Len(file) \in Nat
      /\ synced \in 0..Len(file)
      /\ \A n \in 1..Len(file) : file[n].content \in 1..Len(received)
  BY DEF VenueInv, JournalInv, JournalTypes
<1>2. ASSUME UNCHANGED <<orders, issued, received, file>> PROVE VenueInv'
  <2>1. \E h : Life(h, issued', orders')
    BY <1>2, LifeStays
  <2>2. QED BY <1>1, <1>2, <2>1 DEF VenueInv
<1>3. ASSUME NEW c \in Captures, NEW k, Writes(c, k), k \in 1..Len(received'),
             received' \in Seq(1..Len(issued)), Len(received) <= Len(received'),
             k \in 1..MaxReceived
      PROVE  VenueInv'
  <2>1. UNCHANGED <<orders, issued>> /\ file' = Append(file, [id |-> c, content |-> k])
    BY <1>3 DEF Writes, venue
  <2>2. [id |-> c, content |-> k] \in Record
    BY <1>3 DEF Record
  <2>3. Len(received') \in Nat
    BY <1>3
  <2>4. \A n \in 1..Len(file') : file'[n].content \in 1..Len(received')
    <3>1. TAKE n \in 1..Len(file')
    <3>2. Len(file') = Len(file) + 1 /\ file'[Len(file) + 1] = [id |-> c, content |-> k]
          /\ \A i \in 1..Len(file) : file'[i] = file[i]
      BY <1>1, <2>1, <2>2, AppendProperties
    <3>3. CASE n = Len(file) + 1
      BY <1>3, <3>2, <3>3
    <3>4. CASE n # Len(file) + 1
      <4>1. n \in 1..Len(file)
        BY <1>1, <3>2, <3>4
      <4>2. file'[n].content \in 1..Len(received)
        BY <1>1, <3>2, <4>1
      <4>3. QED BY <1>1, <1>3, <2>3, <4>2
    <3>5. QED BY <3>3, <3>4
  <2>5. \E h : Life(h, issued', orders')
    BY <2>1, LifeStays
  <2>6. QED BY <1>1, <1>3, <2>1, <2>4, <2>5 DEF VenueInv
<1>4. ASSUME NEW c \in Captures, Capture(c) PROVE VenueInv'
  <2>1. PICK i \in 1..Len(issued) : received' = Append(received, i)
    BY <1>4 DEF Capture
  <2>2. received' \in Seq(1..Len(issued)) /\ Len(received') = Len(received) + 1
    BY <1>1, <2>1, AppendProperties
  <2>3. Len(received) + 1 \in 1..MaxReceived
    BY <1>1, <1>4, EventsAssumption DEF Capture
  <2>4. Len(received) + 1 \in 1..Len(received') /\ Len(received) <= Len(received')
    BY <1>1, <2>2
  <2>5. Writes(c, Len(received) + 1)
    BY <1>4 DEF Capture
  <2>6. QED BY <1>3, <2>2, <2>3, <2>4, <2>5
<1>5. ASSUME NEW c \in Captures, NEW k \in 1..MaxReceived, Recapture(c, k) PROVE VenueInv'
  <2>1. Writes(c, k) /\ k \in 1..Len(received) /\ received' = received
    BY <1>5 DEF Recapture
  <2>2. received' \in Seq(1..Len(issued)) /\ Len(received) <= Len(received')
        /\ k \in 1..Len(received')
    BY <1>1, <2>1
  <2>3. QED BY <1>3, <2>1, <2>2
<1>6. ASSUME file' = Stable, UNCHANGED <<orders, issued, received>> PROVE VenueInv'
  <2>1. Len(Stable) = synced /\ \A i \in 1..synced : Stable[i] = file[i]
    BY <1>1 DEF Stable
  <2>2. 1..synced \subseteq 1..Len(file)
    BY <1>1
  <2>3. \A n \in 1..Len(file') : file'[n].content \in 1..Len(received')
    BY <1>1, <1>6, <2>1, <2>2
  <2>4. \E h : Life(h, issued', orders')
    BY <1>6, LifeStays
  <2>5. QED BY <1>1, <1>6, <2>3, <2>4 DEF VenueInv
<1>7. CASE AppendFails \/ Crash
  <2>1. file' \in {file, Stable} /\ UNCHANGED <<orders, issued, received>>
    <3>1. CASE AppendFails
      BY <3>1 DEF AppendFails, Stable, venue
    <3>2. CASE Crash
      BY <3>2 DEF Crash, Stable, venue
    <3>3. QED BY <1>7, <3>1, <3>2
  <2>2. QED BY <1>2, <1>6, <2>1
<1>8. CASE AppendSyncs \/ AppendReturns \/ Close \/ Open \/ UNCHANGED vars
  BY <1>2, <1>8 DEF AppendSyncs, AppendReturns, Close, Open, vars, venue, journal
<1>9. ASSUME NEW c \in Captures, NEW k \in 1..MaxReceived, AppendAgain(c, k) PROVE VenueInv'
  BY <1>2, <1>9 DEF AppendAgain, venue
<1>10. QED BY <1>4, <1>5, <1>7, <1>8, <1>9, VenueSteps DEF Next

\* Before the first event.
LEMMA VenueStarts == Init => VenueInv
<1> SUFFICES ASSUME Init PROVE VenueInv
  OBVIOUS
<1>1. /\ orders = [o \in Orders |-> NewOrder(Qty[o])] /\ issued = <<>> /\ received = <<>>
      /\ file = <<>>
  BY DEF Init
<1>2. issued \in Seq(OrderEvent) /\ received \in Seq(1..Len(issued)) /\ Len(issued) = 0
      /\ Len(file) = 0
  BY <1>1
<1>3. \A o \in Orders : OrderIs(o, NewOrder(Qty[o]))
  <2>1. TAKE o \in Orders
  <2>2. Qty[o] \in Nat \ {0}
    BY EventsAssumption
  <2>3. "NEW" \in Status
    BY DEF Status
  <2> HIDE DEF Status
  <2>4. QED BY <2>2, <2>3 DEF OrderIs, OrderState, NewOrder
<1> DEFINE h == [i \in 0..0 |-> orders]
<1>4. orders \in [Orders -> OrderState] /\ \A o \in Orders : OrderIs(o, orders[o])
  BY <1>1, <1>3 DEF OrderIs
<1>5. h \in [0..0 -> [Orders -> OrderState]] /\ h[0] = orders
  BY <1>4
<1> HIDE DEF h
<1>6. \A i \in 0..0 : i = 0
  OBVIOUS
<1>7. Life(h, issued, orders)
  BY <1>1, <1>2, <1>4, <1>5, <1>6 DEF Life
<1>8. QED BY <1>2, <1>7 DEF VenueInv

(***************************************************************************)
(* Inductions over numbers and folds                                       *)
(***************************************************************************)

\* Among some subsets of a finite set one has no other below it.
LEMMA SmallestSubset ==
  ASSUME NEW S, IsFiniteSet(S), NEW B \in SUBSET SUBSET S, B # {}
  PROVE  \E m \in B : \A t \in B : t \subseteq m => t = m
<1>1. IsWellFoundedOn(StrictSubsetOrdering(S), FiniteSubsetsOf(S))
  BY FS_StrictSubsetOrderingWellFounded
<1>2. B \subseteq FiniteSubsetsOf(S)
  BY FS_Subset DEF FiniteSubsetsOf
<1>3. \E m \in B : \A t \in B : ~ (<<t, m>> \in StrictSubsetOrdering(S))
  BY <1>1, <1>2, WFMin
<1>4. QED BY <1>3 DEF StrictSubsetOrdering

\* Among some numbers one is the least: what the inductions rest on.
LEMMA LeastNumber ==
  ASSUME NEW T \in SUBSET Nat, NEW n \in T
  PROVE  \E m \in T : \A k \in T : m <= k
<1> DEFINE S == 1..n
           B == {t \in SUBSET S : \E i \in T : t = 1..i}
<1>1. IsFiniteSet(S) /\ B \in SUBSET SUBSET S /\ S \in B
  BY FS_Interval
<1>2. PICK m \in B : \A t \in B : t \subseteq m => t = m
  <2> HIDE DEF B, S
  <2>1. QED BY <1>1, SmallestSubset
<1>3. PICK i \in T : m = 1..i
  BY <1>2
<1>4. i <= n
  <2>1. m \subseteq 1..n
    BY <1>2
  <2>2. i \in Nat /\ n \in Nat
    OBVIOUS
  <2>3. i \in 1..i \/ i = 0
    BY <2>2
  <2>4. QED BY <1>3, <2>1, <2>2, <2>3
<1>5. ASSUME NEW k \in T PROVE i <= k
  <2>1. i \in Nat /\ k \in Nat /\ n \in Nat
    OBVIOUS
  <2>2. SUFFICES ASSUME k < i PROVE FALSE
    BY <2>1
  <2>3. 1..k \subseteq 1..i /\ 1..k \subseteq S /\ i \in 1..i /\ i \notin 1..k
    BY <1>4, <2>1, <2>2
  <2>4. 1..k \in B
    BY <2>3
  <2>5. 1..k = m
    <3> HIDE DEF B
    <3>1. QED BY <1>2, <1>3, <2>3, <2>4
  <2>6. QED BY <1>3, <2>3, <2>5
<1>6. QED BY <1>5

\* A set of numbers with a largest one.
LEMMA MaxIs ==
  ASSUME NEW m \in Nat, NEW s \in SUBSET (1..(m + 1)), m + 1 \in s
  PROVE  Max(s) = m + 1
<1>1. \A y \in s : y \in Int /\ m + 1 >= y
  OBVIOUS
<1>2. Max(s) \in s /\ \A y \in s : Max(s) >= y
  BY <1>1 DEF Max
<1>3. Max(s) >= m + 1 /\ m + 1 >= Max(s) /\ Max(s) \in Int
  BY <1>1, <1>2
<1>4. QED BY <1>3

\* A set of numbers that is not empty has a largest one.
LEMMA MaxIn ==
  ASSUME NEW n \in Nat, NEW s \in SUBSET (1..n), s # {}
  PROVE  Max(s) \in s
<1> DEFINE T == {n - x : x \in s}
<1>1. \A y \in s : y \in Int /\ n - y \in Nat
  OBVIOUS
<1>2. PICK x \in s : TRUE
  OBVIOUS
<1>3. T \in SUBSET Nat /\ n - x \in T
  OBVIOUS
<1>4. PICK d \in T : \A k \in T : d <= k
  <2> HIDE DEF T
  <2>1. QED BY <1>3, LeastNumber
<1>5. PICK z \in s : d = n - z
  BY <1>4
<1>6. \A y \in s : z >= y
  <2>1. TAKE y \in s
  <2>2. y \in Int /\ z \in Int
    BY <1>1
  <2>3. n - y \in T
    OBVIOUS
  <2>4. d <= n - y
    BY <1>4, <2>3
  <2>5. QED BY <1>5, <2>2, <2>4
<1>7. QED BY <1>6 DEF Max

\* The function a fold over the numbers of D is computed with: F makes a value
\* from a number and the value before it.
FoldRec(D, F, base, g) ==
  g = [s \in SUBSET D |-> IF s = {} THEN base ELSE F[<<Max(s), g[s \ {Max(s)}]>>]]

\* What such a function is at a set, and at the empty one.
LEMMA FoldRecAt ==
  ASSUME NEW D, NEW F, NEW base, NEW g, FoldRec(D, F, base, g), NEW s \in SUBSET D
  PROVE  /\ s = {} => g[s] = base
         /\ s # {} => g[s] = F[<<Max(s), g[s \ {Max(s)}]>>]
<1> DEFINE h == [t \in SUBSET D |-> IF t = {} THEN base ELSE F[<<Max(t), g[t \ {Max(t)}]>>]]
<1>1. g = h
  BY DEF FoldRec
<1>2. h[s] = IF s = {} THEN base ELSE F[<<Max(s), g[s \ {Max(s)}]>>]
  OBVIOUS
<1> HIDE DEF h
<1>3. QED BY <1>1, <1>2

\* The same at the empty set, which the provers need apart.
LEMMA FoldRecEmpty ==
  ASSUME NEW D, NEW F, NEW base, NEW g, FoldRec(D, F, base, g)
  PROVE  g[{}] = base
<1> DEFINE h == [t \in SUBSET D |-> IF t = {} THEN base ELSE F[<<Max(t), g[t \ {Max(t)}]>>]]
<1>1. g = h
  BY DEF FoldRec
<1>2. h[{}] = base
  OBVIOUS
<1> HIDE DEF h
<1>3. QED BY <1>1, <1>2

\* One more number.
LEMMA FoldGrows ==
  ASSUME NEW n \in Nat, NEW m \in Nat, m < n, NEW V, NEW base \in V,
         NEW F \in [(1..n) \X V -> V], NEW f \in [SUBSET (1..m) -> V], FoldRec(1..m, F, base, f)
  PROVE  \E g \in [SUBSET (1..(m + 1)) -> V] : FoldRec(1..(m + 1), F, base, g)
<1> DEFINE g == [s \in SUBSET (1..(m + 1)) |->
                   IF m + 1 \in s THEN F[<<m + 1, f[s \ {m + 1}]>>] ELSE f[s]]
<1>1. ASSUME NEW s \in SUBSET (1..(m + 1)), m + 1 \notin s PROVE s \in SUBSET (1..m)
  BY <1>1
<1>2. ASSUME NEW s \in SUBSET (1..(m + 1)), m + 1 \notin s PROVE g[s] = f[s]
  BY <1>2
<1>3. ASSUME NEW s \in SUBSET (1..(m + 1)), m + 1 \in s
      PROVE  g[s] = F[<<m + 1, f[s \ {m + 1}]>>] /\ s \ {m + 1} \in SUBSET (1..(m + 1))
             /\ m + 1 \notin s \ {m + 1}
  BY <1>3
<1>4. ASSUME NEW s \in SUBSET (1..(m + 1)) PROVE g[s] \in V
  <2> HIDE DEF g
  <2>1. CASE m + 1 \in s
    <3>1. s \ {m + 1} \in SUBSET (1..m)
      BY <1>1, <1>3, <2>1
    <3>2. f[s \ {m + 1}] \in V /\ m + 1 \in 1..n
      BY <3>1
    <3>3. F[<<m + 1, f[s \ {m + 1}]>>] \in V
      BY <3>2
    <3>4. QED BY <1>3, <2>1, <3>3
  <2>2. CASE m + 1 \notin s
    BY <1>1, <1>2, <2>2
  <2>3. QED BY <2>1, <2>2
<1>5. g \in [SUBSET (1..(m + 1)) -> V]
  <2>1. g = [s \in SUBSET (1..(m + 1)) |-> g[s]]
    OBVIOUS
  <2> HIDE DEF g
  <2>2. QED BY <1>4, <2>1
<1> DEFINE h == [s \in SUBSET (1..(m + 1)) |->
                   IF s = {} THEN base ELSE F[<<Max(s), g[s \ {Max(s)}]>>]]
<1>6. ASSUME NEW s \in SUBSET (1..(m + 1)) PROVE g[s] = h[s]
  <2>1. h[s] = IF s = {} THEN base ELSE F[<<Max(s), g[s \ {Max(s)}]>>]
    OBVIOUS
  <2> HIDE DEF g, h
  <2>2. CASE m + 1 \in s
    <3>1. Max(s) = m + 1
      BY <2>2, MaxIs
    <3>2. g[s \ {m + 1}] = f[s \ {m + 1}]
      BY <1>2, <1>3, <2>2
    <3>3. QED BY <1>3, <2>1, <2>2, <3>1, <3>2
  <2>3. CASE m + 1 \notin s
    <3>1. s \in SUBSET (1..m) /\ g[s] = f[s]
      BY <1>1, <1>2, <2>3
    <3>2. CASE s = {}
      <4>1. f[s] = base
        BY <3>2, FoldRecEmpty
      <4>2. QED BY <2>1, <3>1, <3>2, <4>1
    <3>3. CASE s # {}
      <4>1. f[s] = F[<<Max(s), f[s \ {Max(s)}]>>]
        BY <3>1, <3>3, FoldRecAt
      <4>2. g[s \ {Max(s)}] = f[s \ {Max(s)}]
        BY <1>2, <2>3
      <4>3. QED BY <2>1, <3>1, <3>3, <4>1, <4>2
    <3>4. QED BY <3>2, <3>3
  <2>4. QED BY <2>2, <2>3
<1>7. g = h
  <2>1. g = [s \in SUBSET (1..(m + 1)) |-> g[s]] /\ h = [s \in SUBSET (1..(m + 1)) |-> h[s]]
    OBVIOUS
  <2> HIDE DEF g, h
  <2>2. QED BY <1>6, <2>1
<1>8. FoldRec(1..(m + 1), F, base, g)
  BY <1>7 DEF FoldRec
<1> HIDE DEF g
<1>9. QED BY <1>5, <1>8

\* There is such a function, and it goes through the values one by one.
LEMMA FoldExists ==
  ASSUME NEW n \in Nat, NEW V, NEW base \in V, NEW F \in [(1..n) \X V -> V]
  PROVE  \E g \in [SUBSET (1..n) -> V] : FoldRec(1..n, F, base, g)
<1> DEFINE T == {m \in 0..n : ~ \E g \in [SUBSET (1..m) -> V] : FoldRec(1..m, F, base, g)}
<1> SUFFICES ASSUME ~ \E g \in [SUBSET (1..n) -> V] : FoldRec(1..n, F, base, g) PROVE FALSE
  OBVIOUS
<1>1. n \in T /\ T \in SUBSET Nat
  <2>1. n \in 0..n
    OBVIOUS
  <2>2. n \in T
    BY <2>1
  <2>3. T \in SUBSET (0..n)
    OBVIOUS
  <2> HIDE DEF T
  <2>4. QED BY <2>2, <2>3
<1>2. PICK m \in T : \A k \in T : m <= k
  <2> HIDE DEF T
  <2>1. QED BY <1>1, LeastNumber
<1>3. m \in 0..n /\ ~ \E g \in [SUBSET (1..m) -> V] : FoldRec(1..m, F, base, g)
  BY <1>2
<1>4. CASE m = 0
  <2> DEFINE g == [s \in SUBSET (1..0) |-> base]
             h == [s \in SUBSET (1..0) |-> IF s = {} THEN base ELSE F[<<Max(s), g[s \ {Max(s)}]>>]]
  <2>1. \A s \in SUBSET (1..0) : s = {}
    OBVIOUS
  <2>2. g \in [SUBSET (1..0) -> V]
    OBVIOUS
  <2>3. g = h
    BY <2>1
  <2>4. FoldRec(1..0, F, base, g)
    BY <2>3 DEF FoldRec
  <2>5. QED BY <1>3, <1>4, <2>2, <2>4
<1>5. CASE m # 0
  <2>1. m - 1 \in 0..n /\ m - 1 \in Nat /\ m - 1 < n /\ (m - 1) + 1 = m /\ ~ (m <= m - 1)
    BY <1>3, <1>5
  <2>2. m - 1 \notin T
    BY <1>2, <2>1
  <2>3. PICK f \in [SUBSET (1..(m - 1)) -> V] : FoldRec(1..(m - 1), F, base, f)
    BY <2>1, <2>2
  <2>4. \E g \in [SUBSET (1..((m - 1) + 1)) -> V] : FoldRec(1..((m - 1) + 1), F, base, g)
    BY <2>1, <2>3, FoldGrows
  <2>5. QED BY <1>3, <2>1, <2>4
<1>6. QED BY <1>4, <1>5

\* What agrees on the empty set, and on a set when it agrees on the set without its
\* greatest number, agrees on all.
LEMMA FoldUnique ==
  ASSUME NEW n \in Nat, NEW g, NEW h, g[{}] = h[{}],
         \A s \in SUBSET (1..n) :
            s # {} /\ g[s \ {Max(s)}] = h[s \ {Max(s)}] => g[s] = h[s]
  PROVE  g[1..n] = h[1..n]
<1> DEFINE S == 1..n
           B == {s \in SUBSET S : g[s] # h[s]}
<1>1. S \in SUBSET S /\ B \in SUBSET SUBSET S /\ IsFiniteSet(S)
  BY FS_Interval
<1> SUFFICES ASSUME g[S] # h[S] PROVE FALSE
  OBVIOUS
<1>2. S \in B
  BY <1>1
<1>3. PICK m \in B : \A t \in B : t \subseteq m => t = m
  <2> HIDE DEF B, S
  <2>1. QED BY <1>1, <1>2, SmallestSubset
<1>4. m \in SUBSET (1..n) /\ g[m] # h[m]
  BY <1>3
<1>5. m # {}
  BY <1>4
<1>6. Max(m) \in m
  BY <1>4, <1>5, MaxIn
<1>7. m \ {Max(m)} \in SUBSET S /\ m \ {Max(m)} \subseteq m /\ m \ {Max(m)} # m
  BY <1>4, <1>6
<1>8. m \ {Max(m)} \notin B
  <2> HIDE DEF B
  <2>1. QED BY <1>3, <1>7
<1>9. g[m \ {Max(m)}] = h[m \ {Max(m)}]
  BY <1>7, <1>8
<1>10. QED BY <1>4, <1>5, <1>9

\* Such a function takes the numbers one by one.
LEMMA FoldSteps ==
  ASSUME NEW n \in Nat, NEW F, NEW base, NEW g, FoldRec(1..n, F, base, g)
  PROVE  /\ g[1..0] = base
         /\ \A i \in 1..n : g[1..i] = F[<<i, g[1..(i - 1)]>>]
<1>1. g[1..0] = base
  <2>1. 1..0 = {} /\ {} \in SUBSET (1..n)
    OBVIOUS
  <2>2. g[{}] = base
    BY FoldRecEmpty
  <2>3. QED BY <2>1, <2>2
<1>2. ASSUME NEW i \in 1..n PROVE g[1..i] = F[<<i, g[1..(i - 1)]>>]
  <2>1. i - 1 \in Nat /\ (i - 1) + 1 = i /\ i \in 1..i /\ 1..i \in SUBSET (1..n)
    OBVIOUS
  <2>2. Max(1..i) = i
    BY <2>1, MaxIs
  <2>3. (1..i) \ {i} = 1..(i - 1)
    OBVIOUS
  <2>4. g[1..i] = F[<<Max(1..i), g[(1..i) \ {Max(1..i)}]>>]
    <3> DEFINE s == 1..i
               D == 1..n
    <3>1. s # {} /\ s \in SUBSET D /\ FoldRec(D, F, base, g)
      BY <2>1
    <3> HIDE DEF s, D
    <3>2. g[s] = F[<<Max(s), g[s \ {Max(s)}]>>]
      BY <3>1, FoldRecAt
    <3>3. QED BY <3>2 DEF s
  <2>5. QED BY <2>2, <2>3, <2>4
<1>3. QED BY <1>1, <1>2

\* All of it at once; the subsets have a name, under which they are one set.
Folding(n, V, base, F, P) ==
  n \in Nat /\ base \in V /\ F \in [(1..n) \X V -> V] /\ P = SUBSET (1..n)
Folded(n, V, base, F, P, g) ==
  /\ g \in [P -> V] /\ g[{}] = base
  /\ \A s \in P : s # {} => g[s] = F[<<Max(s), g[s \ {Max(s)}]>>]
  /\ \A i \in 1..n : g[1..i] = F[<<i, g[1..(i - 1)]>>]

LEMMA FoldMade ==
  ASSUME NEW n, NEW V, NEW base, NEW F, NEW P, Folding(n, V, base, F, P)
  PROVE  \E g : Folded(n, V, base, F, P, g)
<1> USE DEF Folding
<1>1. PICK g \in [SUBSET (1..n) -> V] : FoldRec(1..n, F, base, g)
  BY FoldExists
<1>2. g[{}] = base
  BY <1>1, FoldRecEmpty
<1>3. \A s \in SUBSET (1..n) : s # {} => g[s] = F[<<Max(s), g[s \ {Max(s)}]>>]
  <2> DEFINE D == 1..n
  <2>1. FoldRec(D, F, base, g)
    BY <1>1
  <2> HIDE DEF D
  <2>2. \A s \in SUBSET D : s # {} => g[s] = F[<<Max(s), g[s \ {Max(s)}]>>]
    BY <2>1, FoldRecAt
  <2>3. QED BY <2>2 DEF D
<1>4. \A i \in 1..n : g[1..i] = F[<<i, g[1..(i - 1)]>>]
  <2>1. n \in Nat
    OBVIOUS
  <2> HIDE DEF Folding
  <2>2. QED BY <1>1, <2>1, FoldSteps
<1>5. g \in [P -> V] /\ \A s \in P : s # {} => g[s] = F[<<Max(s), g[s \ {Max(s)}]>>]
  BY <1>3
<1>6. QED BY <1>2, <1>4, <1>5 DEF Folded

(***************************************************************************)
(* Between and after the events of an order                                *)
(***************************************************************************)

\* An order is as it was while nothing happens to it.
LEMMA OrderStands ==
  ASSUME NEW es, Len(es) \in Nat, NEW os, NEW h, Life(h, es, os), NEW o \in Orders,
         NEW a \in 0..Len(es), NEW b \in 0..Len(es), a <= b,
         \A e \in 1..Len(es) : a < e /\ e <= b => es[e].order # o
  PROVE  h[b][o] = h[a][o]
<1> DEFINE T == {i \in 0..Len(es) : a <= i /\ i <= b /\ h[i][o] # h[a][o]}
<1> SUFFICES ASSUME h[b][o] # h[a][o] PROVE FALSE
  OBVIOUS
<1>1. b \in T /\ T \in SUBSET Nat
  OBVIOUS
<1>2. PICK i \in T : \A k \in T : i <= k
  <2> HIDE DEF T
  <2>1. QED BY <1>1, LeastNumber
<1>3. i \in 0..Len(es) /\ a <= i /\ i <= b /\ h[i][o] # h[a][o]
  BY <1>2
<1>4. i # a
  BY <1>3
<1>5. i \in 1..Len(es) /\ i - 1 \in 0..Len(es) /\ a <= i - 1 /\ i - 1 <= b /\ ~ (i <= i - 1)
      /\ a < i
  BY <1>3, <1>4
<1>6. h[i - 1][o] = h[a][o]
  <2>1. i - 1 \notin T
    BY <1>2, <1>5
  <2>2. QED BY <1>5, <2>1
<1>7. h[i][o] = h[i - 1][o]
  BY <1>3, <1>5 DEF Life
<1>8. QED BY <1>3, <1>6, <1>7

\* Nothing is legal for an order that has ended.
LEMMA EndedIsOver ==
  ASSUME NEW s, NEW e, NEW t, Legal(s, e, t)
  PROVE  s.status \notin Terminal
<1>1. CASE e.kind \in DOMAIN Moves /\ MayMove(s, Moves[e.kind], 0)
  <2>1. s.status \in {"NEW", "SENT", "CANCEL_REQUESTED"} \cup Resting
    BY <1>1 DEF MayMove, Moves, Sent, Acknowledged, Rejected, CancelRequested, Cancelled, Expired
  <2>2. QED BY <2>1 DEF Resting, Terminal
<1>2. CASE MayFill(s, e.fill, 0)
  BY <1>2 DEF MayFill, Resting, Terminal
<1>3. QED BY <1>1, <1>2 DEF Legal

\* How an order ended is how it is.
LEMMA EndStands ==
  ASSUME NEW es, Len(es) \in Nat, NEW os, NEW h, Life(h, es, os), NEW o \in Orders,
         NEW a \in 0..Len(es), h[a][o].status \in Terminal
  PROVE  os[o] = h[a][o]
<1> DEFINE T == {i \in 0..Len(es) : a <= i /\ h[i][o] # h[a][o]}
<1>1. Len(es) \in 0..Len(es) /\ os = h[Len(es)]
  BY DEF Life
<1> SUFFICES ASSUME os[o] # h[a][o] PROVE FALSE
  OBVIOUS
<1>2. Len(es) \in T /\ T \in SUBSET Nat
  BY <1>1
<1>3. PICK i \in T : \A k \in T : i <= k
  <2> HIDE DEF T
  <2>1. QED BY <1>2, LeastNumber
<1>4. i \in 0..Len(es) /\ a <= i /\ h[i][o] # h[a][o]
  BY <1>3
<1>5. i # a
  BY <1>4
<1>6. i \in 1..Len(es) /\ i - 1 \in 0..Len(es) /\ a <= i - 1 /\ ~ (i <= i - 1)
  BY <1>4, <1>5
<1>7. h[i - 1][o] = h[a][o]
  <2>1. i - 1 \notin T
    BY <1>3, <1>6
  <2>2. QED BY <1>6, <2>1
<1>8. /\ Legal(h[i - 1][es[i].order], es[i], h[i][es[i].order])
      /\ o # es[i].order => h[i][o] = h[i - 1][o]
  BY <1>6 DEF Life
<1>9. o = es[i].order
  BY <1>4, <1>7, <1>8
<1>10. h[i - 1][o].status \notin Terminal
  BY <1>8, <1>9, EndedIsOver
<1>11. QED BY <1>7, <1>10

\* What is legal has its prerequisites.
LEMMA LegalIsReady ==
  ASSUME NEW s, NEW e, NEW t, Legal(s, e, t)
  PROVE  ~ MissingPrerequisite(s.status, e.kind) /\ s.status \in AllowedFrom(e.kind)
<1>1. DOMAIN Moves = {"SUBMITTED", "VENUE_ACK", "REJECTED", "CANCEL_REQUESTED", "CANCELLED", "EXPIRED"}
  BY DEF Moves
<1>2. CASE e.kind \in DOMAIN Moves /\ MayMove(s, Moves[e.kind], 0)
  <2>1. e.kind \notin Fills
    BY <1>1, <1>2 DEF Fills
  <2>2. s.status \in Moves[e.kind].from
    BY <1>2 DEF MayMove
  <2>3. s.status \in AllowedFrom(e.kind)
    BY <2>1, <2>2 DEF AllowedFrom
  <2>4. /\ e.kind = "SUBMITTED" => s.status = "NEW"
        /\ e.kind = "VENUE_ACK" => s.status = "SENT"
        /\ e.kind = "REJECTED" => s.status = "SENT"
        /\ e.kind = "CANCEL_REQUESTED" => s.status \in Resting
        /\ e.kind = "CANCELLED" => s.status = "CANCEL_REQUESTED"
        /\ e.kind = "EXPIRED" => s.status \in Resting
    BY <2>2 DEF Moves, Sent, Acknowledged, Rejected, CancelRequested, Cancelled, Expired
  <2>5. ~ MissingPrerequisite(s.status, e.kind)
    BY <1>1, <1>2, <2>1, <2>4 DEF MissingPrerequisite, Resting
  <2>6. QED BY <2>3, <2>5
<1>3. CASE e.kind \in Fills /\ MayFill(s, e.fill, 0)
  <2>1. s.status \in Resting \cup {"CANCEL_REQUESTED"}
    BY <1>3 DEF MayFill
  <2>2. s.status \in AllowedFrom(e.kind)
    BY <1>3, <2>1 DEF AllowedFrom
  <2>3. QED BY <1>3, <2>1, <2>2 DEF MissingPrerequisite, Resting, Fills
<1>4. QED BY <1>2, <1>3 DEF Legal, Fills

(***************************************************************************)
(* The history of an order                                                 *)
(***************************************************************************)

\* The observations of an order.
Of(o) == {k \in 1..Len(received) : EventOf(k).order = o}

HistoryStep(o, ks, i, seen) ==
  IF EventOf(ks[i]).order # o \/ (\E j \in 1..Len(seen) : seen[j] = ks[i])
  THEN seen ELSE Append(seen, ks[i])
HistoryRec(o, ks, g) ==
  g = [s \in SUBSET DOMAIN ks |->
         IF s = {} THEN <<>> ELSE LET x == Max(s) IN HistoryStep(o, ks, x, g[s \ {x}])]
Histories(o, ks) == CHOOSE g : HistoryRec(o, ks, g)

\* HistoryOf is one of those functions at the whole domain.
LEMMA HistoryIs ==
  ASSUME NEW o, NEW ks
  PROVE  HistoryOf(o, ks) = Histories(o, ks)[DOMAIN ks]
BY DEF HistoryOf, FoldLeft, MapThenFoldSet, Histories, HistoryRec, HistoryStep

RowRec(o, cutoff, ks, g) ==
  g = [s \in SUBSET DOMAIN ks |->
         IF s = {} THEN NewRow
         ELSE LET x == Max(s) IN ReplayEvent(o, cutoff, g[s \ {x}], ks[x])]
RowsAt(o, cutoff, ks) == CHOOSE g : RowRec(o, cutoff, ks, g)
LastRow(o, cutoff, ks) == FoldLeft(LAMBDA r, k : ReplayEvent(o, cutoff, r, k), NewRow, ks)

\* The row of a replay is such a function at the whole domain.
LEMMA LastRowIs ==
  ASSUME NEW o, NEW cutoff, NEW ks
  PROVE  LastRow(o, cutoff, ks) = RowsAt(o, cutoff, ks)[DOMAIN ks]
BY DEF LastRow, FoldLeft, MapThenFoldSet, RowsAt, RowRec

HistoryRecOn(o, ks, P, g) == P = SUBSET DOMAIN ks /\ HistoryRec(o, ks, g)

HistoryRuns(o, ks, P, g) ==
  /\ g[{}] = <<>>
  /\ \A s \in P : s # {} => g[s] = HistoryStep(o, ks, Max(s), g[s \ {Max(s)}])

\* Such a function, set by set.
LEMMA HistoryRecAt ==
  ASSUME NEW o, NEW ks, NEW P, NEW g, HistoryRecOn(o, ks, P, g)
  PROVE  HistoryRuns(o, ks, P, g)
<1> DEFINE h == [s \in P |->
              IF s = {} THEN <<>> ELSE LET x == Max(s) IN HistoryStep(o, ks, x, g[s \ {x}])]
<1>1. g = h
  BY DEF HistoryRec, HistoryRecOn
<1>2. h[{}] = <<>>
  <2>1. {} \in P
    BY DEF HistoryRecOn
  <2>2. QED BY <2>1
<1>3. \A s \in P : s # {} => h[s] = HistoryStep(o, ks, Max(s), g[s \ {Max(s)}])
  OBVIOUS
<1> HIDE DEF h
<1>4. QED BY <1>1, <1>2, <1>3 DEF HistoryRuns

\* The function that is chosen is one when there is any.
LEMMA HistoriesRec ==
  ASSUME NEW o, NEW ks, NEW P, NEW g, HistoryRecOn(o, ks, P, g)
  PROVE  HistoryRuns(o, ks, P, Histories(o, ks))
<1>1. HistoryRecOn(o, ks, P, Histories(o, ks))
  BY DEF Histories, HistoryRecOn
<1>2. QED BY <1>1, HistoryRecAt

\* A history holds observations of its order.
LEMMA HistoryTypes ==
  ASSUME NEW o, NEW ks \in Seq(1..Len(received)), Len(received) \in Nat
  PROVE  HistoryOf(o, ks) \in Seq(Of(o))
<1> DEFINE n == Len(ks)
           P == SUBSET (1..n)
           V == Seq(Of(o))
           F == [x \in (1..n) \X V |-> HistoryStep(o, ks, x[1], x[2])]
<1>1. n \in Nat /\ DOMAIN ks = 1..n /\ \A i \in 1..n : ks[i] \in 1..Len(received)
  OBVIOUS
<1>2. /\ P = SUBSET DOMAIN ks /\ P = SUBSET (1..n)
      /\ \A s \in P : s \ {Max(s)} \in P
      /\ \A s \in P : s # {} => Max(s) \in 1..n
      /\ 1..n \in P
  <2>1. P = SUBSET DOMAIN ks /\ P = SUBSET (1..n) /\ 1..n \in P
    BY <1>1
  <2>2. \A s \in P : s \ {Max(s)} \in P
    OBVIOUS
  <2>3. ASSUME NEW s \in P, s # {} PROVE Max(s) \in 1..n
    <3>1. Max(s) \in s
      BY <1>1, <2>3, MaxIn
    <3>2. QED BY <3>1
  <2>4. QED BY <2>1, <2>2, <2>3
<1>3. ASSUME NEW i \in 1..n, NEW seen \in V PROVE HistoryStep(o, ks, i, seen) \in V
  <2>1. CASE EventOf(ks[i]).order # o \/ (\E j \in 1..Len(seen) : seen[j] = ks[i])
    BY <2>1 DEF HistoryStep
  <2>2. CASE ~ (EventOf(ks[i]).order # o \/ (\E j \in 1..Len(seen) : seen[j] = ks[i]))
    <3>1. ks[i] \in Of(o)
      BY <1>1, <2>2 DEF Of
    <3>2. HistoryStep(o, ks, i, seen) = Append(seen, ks[i])
      BY <2>2 DEF HistoryStep
    <3>3. QED BY <3>1, <3>2, AppendProperties
  <2>3. QED BY <2>1, <2>2
<1>4. \A i \in 1..n, v \in V : F[<<i, v>>] = HistoryStep(o, ks, i, v)
  OBVIOUS
<1>5. F \in [(1..n) \X V -> V] /\ <<>> \in V
  <2>1. ASSUME NEW x \in (1..n) \X V PROVE F[x] \in V
    <3>1. x = <<x[1], x[2]>> /\ x[1] \in 1..n /\ x[2] \in V
      OBVIOUS
    <3> HIDE DEF V, F
    <3>2. F[x] = HistoryStep(o, ks, x[1], x[2])
      BY <1>4, <3>1
    <3>3. QED BY <1>3, <3>1, <3>2
  <2>2. F = [x \in (1..n) \X V |-> F[x]] /\ <<>> \in V
    OBVIOUS
  <2> HIDE DEF V, F
  <2>3. QED BY <2>1, <2>2
<1> HIDE DEF V, F, P, n
<1>6. PICK g : Folded(n, V, <<>>, F, P, g)
  <2>1. Folding(n, V, <<>>, F, P)
    BY <1>1, <1>2, <1>5 DEF Folding
  <2>2. QED BY <2>1, FoldMade
<1>7. /\ g \in [P -> V] /\ g[{}] = <<>>
      /\ \A s \in P : s # {} => g[s] = F[<<Max(s), g[s \ {Max(s)}]>>]
      /\ \A i \in 1..n : g[1..i] = F[<<i, g[1..(i - 1)]>>]
  BY <1>6 DEF Folded
<1>8. \A s \in P : s # {} => g[s] = HistoryStep(o, ks, Max(s), g[s \ {Max(s)}])
  BY <1>2, <1>4, <1>7
<1> DEFINE h == [s \in P |->
              IF s = {} THEN <<>> ELSE LET x == Max(s) IN HistoryStep(o, ks, x, g[s \ {x}])]
<1>9. g = h
  <2>1. \A s \in P : h[s] = IF s = {} THEN <<>> ELSE HistoryStep(o, ks, Max(s), g[s \ {Max(s)}])
    OBVIOUS
  <2>2. g = [s \in P |-> g[s]] /\ h = [s \in P |-> h[s]]
    BY <1>7
  <2> HIDE DEF h
  <2>3. \A s \in P : g[s] = h[s]
    BY <1>7, <1>8, <2>1
  <2>4. QED BY <2>2, <2>3
<1>10. HistoryRecOn(o, ks, P, g)
  BY <1>2, <1>9 DEF HistoryRecOn, HistoryRec
<1> HIDE DEF h
<1> DEFINE H == Histories(o, ks)
<1>11. HistoryRuns(o, ks, P, H)
  BY <1>10, HistoriesRec
<1>12. /\ H[{}] = <<>>
      /\ \A s \in P : s # {} => H[s] = HistoryStep(o, ks, Max(s), H[s \ {Max(s)}])
  BY <1>11 DEF HistoryRuns
<1> HIDE DEF H
<1>13. g[1..n] = H[1..n]
  <2>1. \A s \in P : s # {} /\ g[s \ {Max(s)}] = H[s \ {Max(s)}] => g[s] = H[s]
    BY <1>8, <1>12
  <2>2. g[{}] = H[{}] /\ n \in Nat
    BY <1>1, <1>7, <1>12
  <2>3. QED BY <1>2, <2>1, <2>2, FoldUnique
<1>14. g[1..n] \in V
  BY <1>2, <1>7
<1>15. QED BY <1>1, <1>13, <1>14, HistoryIs DEF H, V

(***************************************************************************)
(* The rows of a replay                                                    *)
(***************************************************************************)

RowRecOn(o, cutoff, ks, P, g) == P = SUBSET DOMAIN ks /\ RowRec(o, cutoff, ks, g)

RowRuns(o, cutoff, ks, P, g) ==
  /\ g[{}] = NewRow
  /\ \A s \in P : s # {} => g[s] = ReplayEvent(o, cutoff, g[s \ {Max(s)}], ks[Max(s)])

\* Such a function, set by set.
LEMMA RowRecAt ==
  ASSUME NEW o, NEW cutoff, NEW ks, NEW P, NEW g, RowRecOn(o, cutoff, ks, P, g)
  PROVE  RowRuns(o, cutoff, ks, P, g)
<1> DEFINE h == [s \in P |->
              IF s = {} THEN NewRow
              ELSE LET x == Max(s) IN ReplayEvent(o, cutoff, g[s \ {x}], ks[x])]
<1>1. g = h
  BY DEF RowRec, RowRecOn
<1>2. h[{}] = NewRow
  <2>1. {} \in P
    BY DEF RowRecOn
  <2>2. QED BY <2>1
<1>3. \A s \in P : s # {} => h[s] = ReplayEvent(o, cutoff, g[s \ {Max(s)}], ks[Max(s)])
  OBVIOUS
<1> HIDE DEF h
<1>4. QED BY <1>1, <1>2, <1>3 DEF RowRuns

\* The function that is chosen is one when there is any.
LEMMA RowsAtRec ==
  ASSUME NEW o, NEW cutoff, NEW ks, NEW P, NEW g, RowRecOn(o, cutoff, ks, P, g)
  PROVE  RowRuns(o, cutoff, ks, P, RowsAt(o, cutoff, ks))
<1>1. RowRecOn(o, cutoff, ks, P, RowsAt(o, cutoff, ks))
  BY DEF RowsAt, RowRecOn
<1>2. QED BY <1>1, RowRecAt

\* A replay goes through its observations one by one, and stays in what its
\* turns do not leave.
Turns(o, cutoff, K, ks, V) ==
  /\ ks \in Seq(K) /\ NewRow \in V
  /\ \A row \in V, k \in K : ReplayEvent(o, cutoff, row, k) \in V
Goes(o, cutoff, ks, V, r) ==
  /\ r \in [0..Len(ks) -> V] /\ r[0] = NewRow /\ r[Len(ks)] = LastRow(o, cutoff, ks)
  /\ \A i \in 1..Len(ks) : r[i] = ReplayEvent(o, cutoff, r[i - 1], ks[i])

LEMMA ReplayGoes ==
  ASSUME NEW o, NEW cutoff, NEW K, NEW ks, NEW V, Turns(o, cutoff, K, ks, V)
  PROVE  \E r : Goes(o, cutoff, ks, V, r)
<1> DEFINE n == Len(ks)
           P == SUBSET (1..n)
           F == [x \in (1..n) \X V |-> ReplayEvent(o, cutoff, x[2], ks[x[1]])]
<1>1. /\ ks \in Seq(K) /\ NewRow \in V
      /\ \A row \in V, k \in K : ReplayEvent(o, cutoff, row, k) \in V
  BY DEF Turns
<1>2. n \in Nat /\ DOMAIN ks = 1..n /\ \A i \in 1..n : ks[i] \in K
  BY <1>1
<1>3. /\ P = SUBSET DOMAIN ks /\ P = SUBSET (1..n)
      /\ \A s \in P : s \ {Max(s)} \in P
      /\ \A i \in 0..n : 1..i \in P
      /\ \A s \in P : s # {} => Max(s) \in 1..n
  <2>1. P = SUBSET DOMAIN ks /\ P = SUBSET (1..n)
    BY <1>2
  <2>2. \A s \in P : s \ {Max(s)} \in P
    OBVIOUS
  <2>3. \A i \in 0..n : 1..i \in P
    BY <1>2
  <2>4. ASSUME NEW s \in P, s # {} PROVE Max(s) \in 1..n
    <3>1. Max(s) \in s
      BY <1>2, <2>4, MaxIn
    <3>2. QED BY <3>1
  <2>5. QED BY <2>1, <2>2, <2>3, <2>4
<1>4. \A i \in 1..n, v \in V : F[<<i, v>>] = ReplayEvent(o, cutoff, v, ks[i])
  OBVIOUS
<1>5. F \in [(1..n) \X V -> V]
  <2>1. ASSUME NEW x \in (1..n) \X V PROVE F[x] \in V
    <3>1. x = <<x[1], x[2]>> /\ x[1] \in 1..n /\ x[2] \in V
      OBVIOUS
    <3> HIDE DEF F
    <3>2. F[x] = ReplayEvent(o, cutoff, x[2], ks[x[1]])
      BY <1>4, <3>1
    <3>3. ks[x[1]] \in K
      BY <1>2, <3>1
    <3>4. QED BY <1>1, <3>1, <3>2, <3>3
  <2>2. F = [x \in (1..n) \X V |-> F[x]]
    OBVIOUS
  <2> HIDE DEF F
  <2>3. QED BY <2>1, <2>2
<1> HIDE DEF F, P, n
<1>6. PICK g : Folded(n, V, NewRow, F, P, g)
  <2>1. Folding(n, V, NewRow, F, P)
    BY <1>1, <1>2, <1>3, <1>5 DEF Folding
  <2>2. QED BY <2>1, FoldMade
<1>7. /\ g \in [P -> V] /\ g[{}] = NewRow
      /\ \A s \in P : s # {} => g[s] = F[<<Max(s), g[s \ {Max(s)}]>>]
      /\ \A i \in 1..n : g[1..i] = F[<<i, g[1..(i - 1)]>>]
  BY <1>6 DEF Folded
<1>8. \A s \in P : s # {} => g[s] = ReplayEvent(o, cutoff, g[s \ {Max(s)}], ks[Max(s)])
  BY <1>3, <1>4, <1>7
<1> DEFINE h == [s \in P |->
              IF s = {} THEN NewRow
              ELSE LET x == Max(s) IN ReplayEvent(o, cutoff, g[s \ {x}], ks[x])]
<1>9. g = h
  <2>1. \A s \in P : h[s] = IF s = {} THEN NewRow
                              ELSE ReplayEvent(o, cutoff, g[s \ {Max(s)}], ks[Max(s)])
    OBVIOUS
  <2>2. g = [s \in P |-> g[s]] /\ h = [s \in P |-> h[s]]
    BY <1>7
  <2> HIDE DEF h
  <2>3. \A s \in P : g[s] = h[s]
    BY <1>7, <1>8, <2>1
  <2>4. QED BY <2>2, <2>3
<1>10. RowRecOn(o, cutoff, ks, P, g)
  BY <1>3, <1>9 DEF RowRecOn, RowRec
<1> HIDE DEF h
<1> DEFINE H == RowsAt(o, cutoff, ks)
<1>11. RowRuns(o, cutoff, ks, P, H)
  BY <1>10, RowsAtRec
<1>12. /\ H[{}] = NewRow
      /\ \A s \in P : s # {} => H[s] = ReplayEvent(o, cutoff, H[s \ {Max(s)}], ks[Max(s)])
  BY <1>11 DEF RowRuns
<1> HIDE DEF H
<1>13. g[1..n] = H[1..n]
  <2>1. \A s \in P : s # {} /\ g[s \ {Max(s)}] = H[s \ {Max(s)}] => g[s] = H[s]
    BY <1>8, <1>12
  <2>2. g[{}] = H[{}] /\ n \in Nat
    BY <1>2, <1>7, <1>12
  <2>3. QED BY <1>3, <2>1, <2>2, FoldUnique
<1>14. g[1..n] = LastRow(o, cutoff, ks)
  BY <1>2, <1>13, LastRowIs DEF H
<1> DEFINE r == [i \in 0..n |-> g[1..i]]
<1>15. ASSUME NEW i \in 0..n PROVE r[i] = g[1..i] /\ r[i] \in V
  BY <1>3, <1>7
<1>16. r \in [0..n -> V]
  <2>1. r = [i \in 0..n |-> r[i]]
    OBVIOUS
  <2> HIDE DEF r
  <2>2. QED BY <1>15, <2>1
<1> HIDE DEF r
<1>17. g[1..0] = NewRow
  <2>1. 1..0 = {}
    OBVIOUS
  <2>2. QED BY <1>7, <2>1
<1>18. r[0] = NewRow /\ r[n] = LastRow(o, cutoff, ks)
  <2>1. 0 \in 0..n /\ n \in 0..n
    BY <1>2
  <2>2. QED BY <1>14, <1>15, <1>17, <2>1
<1>19. ASSUME NEW i \in 1..n PROVE r[i] = ReplayEvent(o, cutoff, r[i - 1], ks[i])
  <2>1. i \in 0..n /\ i - 1 \in 0..n
    BY <1>2
  <2>2. r[i] = g[1..i] /\ r[i - 1] = g[1..(i - 1)] /\ r[i - 1] \in V
    BY <1>15, <2>1
  <2>3. QED BY <1>4, <1>7, <2>2
<1>20. QED BY <1>16, <1>18, <1>19 DEF n, Goes

\* A row that names an end names one that the order had.
Rows == [outcome : {"none", "CONFLICT", "UNRESOLVED"}, status : Status, filled : Nat, last : Nat]
TrueRows(o, h) ==
  {row \in Rows : row.outcome = "none" /\ row.status \in Terminal =>
     \E e \in 1..Len(issued) : h[e][o].status = row.status /\ h[e][o].filled = row.filled}

\* The status an ending event leaves does not depend on the one before.
LEMMA EndsAlike ==
  ASSUME NEW s, NEW t, NEW kind \in EventType, After(s, kind) \in Terminal
  PROVE  After(t, kind) = After(s, kind)
<1>1. CASE kind = "PARTIAL_FILL"
  <2>1. After(s, kind) \in {"CANCEL_REQUESTED", "PARTIALLY_FILLED"}
    BY <1>1 DEF After
  <2>2. QED BY <2>1 DEF Terminal
<1>2. CASE kind # "PARTIAL_FILL"
  BY <1>2 DEF After
<1>3. QED BY <1>1, <1>2

\* Every event of an order has its place in the order's life.
LEMMA ItsEvent ==
  ASSUME VenueInv, NEW h, Life(h, issued, orders), NEW o \in Orders, NEW k \in Of(o)
  PROVE  /\ received[k] \in 1..Len(issued) /\ EventOf(k) = issued[received[k]]
         /\ EventOf(k) \in OrderEvent /\ EventOf(k).order = o /\ k \in Nat
         /\ Legal(h[received[k] - 1][o], EventOf(k), h[received[k]][o])
         /\ OrderIs(o, h[received[k] - 1][o]) /\ OrderIs(o, h[received[k]][o])
         /\ received[k] - 1 \in 0..Len(issued)
<1>1. k \in 1..Len(received) /\ EventOf(k).order = o
  BY DEF Of
<1>2. received \in Seq(1..Len(issued)) /\ issued \in Seq(OrderEvent) /\ Len(issued) \in Nat
      /\ Len(received) \in Nat
  BY DEF VenueInv
<1>3. received[k] \in 1..Len(issued) /\ k \in Nat
  BY <1>1, <1>2
<1> DEFINE e == received[k]
<1>4. e \in 1..Len(issued) /\ e \in 0..Len(issued) /\ e - 1 \in 0..Len(issued)
  BY <1>2, <1>3
<1>5. issued[e] \in OrderEvent /\ EventOf(k) = issued[e]
  BY <1>2, <1>4 DEF EventOf
<1> HIDE DEF e
<1>6. Legal(h[e - 1][o], issued[e], h[e][o]) /\ OrderIs(o, h[e - 1][o]) /\ OrderIs(o, h[e][o])
  BY <1>1, <1>4, <1>5 DEF Life
<1>7. QED BY <1>1, <1>3, <1>4, <1>5, <1>6 DEF e

\* A turn of the replay leaves a true row true.
LEMMA TurnsAreTrue ==
  ASSUME VenueInv, NEW h, Life(h, issued, orders), NEW o \in Orders, NEW cutoff,
         NEW row \in TrueRows(o, h), NEW k \in Of(o)
  PROVE  ReplayEvent(o, cutoff, row, k) \in TrueRows(o, h)
<1> DEFINE e == EventOf(k)
           i == received[k]
           new == [row EXCEPT !.status = After(@, e.kind), !.filled = @ + e.fill, !.last = k]
<1>1. row \in Rows
  BY DEF TrueRows
<1>2. /\ i \in 1..Len(issued) /\ e \in OrderEvent /\ k \in Nat
      /\ Legal(h[i - 1][o], e, h[i][o]) /\ OrderIs(o, h[i - 1][o])
  BY ItsEvent
<1>3. e.fill \in Nat /\ e.kind \in EventType
  BY <1>2 DEF OrderEvent
<1>4. After(row.status, e.kind) \in Status
  <2>1. \A kind \in DOMAIN Moves : Moves[kind].to \in Status
    BY DEF Moves, Sent, Acknowledged, Rejected, CancelRequested, Cancelled, Expired,
           Status, Resting, Terminal
  <2>2. {"FILLED", "PARTIALLY_FILLED"} \subseteq Status
    BY DEF Status, Resting, Terminal
  <2>3. row.status \in Status
    BY <1>1 DEF Rows
  <2>4. e.kind \in DOMAIN Moves \/ e.kind = "FILLED" \/ e.kind = "PARTIAL_FILL"
    BY <1>3 DEF EventType, Fills
  <2> HIDE DEF e
  <2>5. QED BY <2>1, <2>2, <2>3, <2>4 DEF After
<1> HIDE DEF e, i
<1>5. new \in Rows
  <2>1. row.filled + e.fill \in Nat
    BY <1>1, <1>3 DEF Rows
  <2>2. k \in Nat
    BY <1>2
  <2> HIDE DEF Status
  <2>3. QED BY ONLY <1>1, <1>4, <2>1, <2>2 DEF Rows, new
<1>6. ASSUME NEW outcome \in {"CONFLICT", "UNRESOLVED"} PROVE Ended(row, outcome) \in TrueRows(o, h)
  BY <1>1 DEF Ended, TrueRows, Rows
<1>7. ASSUME QuantitiesAgree(o, row, e), row.outcome = "none" PROVE new \in TrueRows(o, h)
  <2>1. /\ h[i][o].filled = e.cumulative /\ h[i][o].status = After(h[i - 1][o].status, e.kind)
    BY <1>2, LegalSays
  <2>2. new.filled = e.cumulative /\ new.status = After(row.status, e.kind)
    BY <1>1, <1>7 DEF QuantitiesAgree, Rows
  <2>3. new.status \in Terminal => h[i][o].status = new.status
    BY <1>3, <2>1, <2>2, EndsAlike
  <2> HIDE DEF new
  <2>4. QED BY <1>2, <1>5, <2>1, <2>2, <2>3 DEF TrueRows
<1> HIDE DEF new
<1>8. ReplayEvent(o, cutoff, row, k) =
        CASE row.outcome # "none" -> row
          [] row.outcome = "none" /\ (k < row.last \/ k > cutoff \/ row.status \in Terminal) ->
                 Ended(row, "CONFLICT")
          [] OTHER ->
                 IF MissingPrerequisite(row.status, e.kind) THEN Ended(row, "UNRESOLVED")
                 ELSE IF row.status \notin AllowedFrom(e.kind) \/ ~QuantitiesAgree(o, row, e)
                 THEN Ended(row, "CONFLICT")
                 ELSE new
  BY DEF ReplayEvent, e, new
<1>9. QED BY <1>6, <1>7, <1>8

\* What is read of the journal's first records.
LEMMA ObservedTypes ==
  ASSUME VenueInv, NEW n \in Nat, n <= Len(file)
  PROVE  Observed(n) \in Seq(1..Len(received))
<1>1. \A j \in 1..n : file[j].content \in 1..Len(received)
  BY DEF VenueInv
<1>2. QED BY <1>1 DEF Observed

\* A new row names no end.
LEMMA NewRowIsTrue ==
  ASSUME NEW o, NEW h
  PROVE  NewRow \in TrueRows(o, h)
<1>1. "NEW" \in Status /\ "NEW" \notin Terminal
  BY DEF Status, Terminal
<1> HIDE DEF Status, Terminal
<1>2. QED BY <1>1 DEF NewRow, TrueRows, Rows

\* An end that is reported happened.
LEMMA EndsAreTrue ==
  ASSUME VenueInv, NEW o \in Orders, NEW n \in Nat, n <= Len(file), NEW cutoff,
         ReplayRow(o, HistoryOf(o, Observed(n)), cutoff).outcome = "OBSERVED_TERMINAL"
  PROVE  /\ ReplayRow(o, HistoryOf(o, Observed(n)), cutoff).status = orders[o].status
         /\ ReplayRow(o, HistoryOf(o, Observed(n)), cutoff).filled = orders[o].filled
<1> DEFINE ks == HistoryOf(o, Observed(n))
           row == LastRow(o, cutoff, ks)
<1>1. PICK h : Life(h, issued, orders)
  BY DEF VenueInv
<1>2. Len(received) \in Nat /\ Len(issued) \in Nat
  BY DEF VenueInv
<1>3. ks \in Seq(Of(o))
  BY <1>2, ObservedTypes, HistoryTypes
<1> HIDE DEF ks
<1>4. row \in TrueRows(o, h)
  <2> DEFINE V == TrueRows(o, h)
             K == Of(o)
  <2>1. \A r \in V, k \in K : ReplayEvent(o, cutoff, r, k) \in V
    BY <1>1, TurnsAreTrue
  <2>2. NewRow \in V /\ ks \in Seq(K)
    BY <1>3, NewRowIsTrue
  <2> HIDE DEF V, K
  <2>3. PICK r : Goes(o, cutoff, ks, V, r)
    <3>1. Turns(o, cutoff, K, ks, V)
      BY <2>1, <2>2 DEF Turns
    <3>2. QED BY <3>1, ReplayGoes
  <2>4. r \in [0..Len(ks) -> V] /\ r[Len(ks)] = row
    BY <2>3 DEF Goes
  <2>5. Len(ks) \in 0..Len(ks)
    BY <2>2
  <2>6. row \in V
    BY <2>4, <2>5
  <2>7. QED BY <2>6 DEF V
<1>5. ReplayRow(o, ks, cutoff) =
        IF Conflicting(ks) THEN Ended(NewRow, "CONFLICT")
        ELSE IF row.outcome # "none" THEN row
             ELSE Ended(row, IF row.status \in Terminal THEN "OBSERVED_TERMINAL" ELSE "UNRESOLVED")
  BY DEF ReplayRow, LastRow
<1> HIDE DEF row
<1>6. row \in Rows
  BY <1>4 DEF TrueRows
<1>7. ReplayRow(o, ks, cutoff).outcome = "OBSERVED_TERMINAL"
  BY DEF ks
<1>8. Ended(NewRow, "CONFLICT").outcome = "CONFLICT"
  BY DEF Ended, NewRow
<1>9. row.outcome \in {"none", "CONFLICT", "UNRESOLVED"}
  BY <1>6 DEF Rows
<1>10. /\ Ended(row, "UNRESOLVED").outcome = "UNRESOLVED"
       /\ Ended(row, "OBSERVED_TERMINAL").status = row.status
       /\ Ended(row, "OBSERVED_TERMINAL").filled = row.filled
  BY <1>6 DEF Ended, Rows
<1>11. /\ row.outcome = "none" /\ row.status \in Terminal
       /\ ReplayRow(o, ks, cutoff) = Ended(row, "OBSERVED_TERMINAL")
  BY <1>5, <1>7, <1>8, <1>9, <1>10
<1>12. PICK e \in 1..Len(issued) : h[e][o].status = row.status /\ h[e][o].filled = row.filled
  BY <1>4, <1>11 DEF TrueRows
<1>13. e \in 0..Len(issued) /\ h[e][o].status \in Terminal
  BY <1>2, <1>11, <1>12
<1>14. orders[o] = h[e][o]
  BY <1>1, <1>2, <1>13, EndStands
<1>15. QED BY <1>10, <1>11, <1>12, <1>14 DEF ks

(***************************************************************************)
(* An order whose events were all received once and in order               *)
(***************************************************************************)

\* The row is where the order was after the event that was received.
RowIs(row, s, last) ==
  /\ row.outcome = "none" /\ row.status = s.status /\ row.filled = s.filled /\ row.last = last

\* The next event of the order.
LEMMA FaithfulTurn ==
  ASSUME VenueInv, NEW h, Life(h, issued, orders), NEW o \in Orders, NEW k \in Of(o),
         NEW row \in Rows, NEW last \in Nat, last < k,
         RowIs(row, h[received[k] - 1][o], last)
  PROVE  RowIs(ReplayEvent(o, Len(received), row, k), h[received[k]][o], k)
<1> DEFINE e == EventOf(k)
           s == h[received[k] - 1][o]
           t == h[received[k]][o]
           new == [row EXCEPT !.status = After(@, e.kind), !.filled = @ + e.fill, !.last = k]
<1>1. /\ e \in OrderEvent /\ k \in Nat /\ Legal(s, e, t) /\ OrderIs(o, s) /\ OrderIs(o, t)
  BY ItsEvent
<1>2. k <= Len(received) /\ Len(received) \in Nat
  BY DEF Of, VenueInv
<1>3. row.outcome = "none" /\ row.status = s.status /\ row.filled = s.filled /\ row.last = last
  BY DEF RowIs
<1> HIDE DEF e, s, t
<1>4. s.status \notin Terminal /\ ~ MissingPrerequisite(s.status, e.kind)
      /\ s.status \in AllowedFrom(e.kind)
  BY <1>1, EndedIsOver, LegalIsReady
<1>5. /\ t.filled = s.filled + e.fill /\ e.cumulative = t.filled
      /\ e.remaining = Qty[o] - t.filled /\ t.status = After(s.status, e.kind)
      /\ e.kind = "FILLED" => t.filled = Qty[o]
      /\ e.kind = "PARTIAL_FILL" => t.filled \in 1..(Qty[o] - 1)
  BY <1>1, LegalSays
<1>6. QuantitiesAgree(o, row, e)
  BY <1>3, <1>5 DEF QuantitiesAgree
<1>7. ~ (k < row.last \/ k > Len(received) \/ row.status \in Terminal)
  BY <1>1, <1>2, <1>3, <1>4
<1>8. ReplayEvent(o, Len(received), row, k) = new
  BY <1>3, <1>4, <1>6, <1>7 DEF ReplayEvent, e
<1>9. new.outcome = row.outcome /\ new.status = After(row.status, e.kind)
      /\ new.filled = row.filled + e.fill /\ new.last = k
  BY DEF Rows
<1> HIDE DEF new
<1>10. RowIs(new, t, k)
  BY <1>3, <1>5, <1>9 DEF RowIs
<1>11. QED BY <1>8, <1>10 DEF t

\* Where the replay of a faithful history is after i observations.
Place(ks, i) == IF i = 0 THEN 0 ELSE received[ks[i]]
LastOf(ks, i) == IF i = 0 THEN 0 ELSE ks[i]

\* Between two observations of a faithful history nothing happened to the order.
LEMMA NothingBetween ==
  ASSUME VenueInv, NEW o \in Orders, NEW ks \in Seq(Of(o)), Faithful(o, ks),
         NEW i \in 1..Len(ks), NEW e \in 1..Len(issued),
         Place(ks, i - 1) < e, e <= received[ks[i]] - 1
  PROVE  issued[e].order # o
<1> SUFFICES ASSUME issued[e].order = o PROVE FALSE
  OBVIOUS
<1>1. e \in {received[ks[j]] : j \in 1..Len(ks)}
  BY DEF Faithful
<1>2. PICK j \in 1..Len(ks) : e = received[ks[j]]
  BY <1>1
<1>3. \A m \in 1..Len(ks) : received[ks[m]] \in Nat
  <2>1. \A m \in 1..Len(ks) : ks[m] \in Of(o)
    OBVIOUS
  <2>2. received \in Seq(1..Len(issued))
    BY DEF VenueInv
  <2>3. \A k \in 1..Len(received) : received[k] \in 1..Len(issued)
    BY <2>2
  <2>4. \A k \in Of(o) : received[k] \in Nat
    BY <2>3 DEF Of
  <2>5. QED BY <2>1, <2>4
<1>4. \A m, p \in 1..Len(ks) : m < p => received[ks[m]] < received[ks[p]]
  BY DEF Faithful
<1>5. j \in Nat /\ i \in Nat /\ Len(ks) \in Nat /\ e \in Nat
  OBVIOUS
<1>6. CASE j < i
  <2>1. CASE j = i - 1
    BY <1>2, <1>3, <1>5, <2>1 DEF Place
  <2>2. CASE j < i - 1
    <3>1. i - 1 \in 1..Len(ks) /\ i - 1 # 0
      BY <1>5, <2>2
    <3>2. received[ks[j]] < received[ks[i - 1]]
      BY <1>4, <2>2, <3>1
    <3>3. Place(ks, i - 1) = received[ks[i - 1]]
      BY <3>1 DEF Place
    <3>4. QED BY <1>2, <1>3, <1>5, <3>1, <3>2, <3>3
  <2>3. QED BY <1>5, <1>6, <2>1, <2>2
<1>7. CASE j = i
  BY <1>2, <1>3, <1>5, <1>7
<1>8. CASE i < j
  <2>1. received[ks[i]] < received[ks[j]]
    BY <1>4, <1>8
  <2>2. QED BY <1>2, <1>3, <1>5, <2>1
<1>9. QED BY <1>5, <1>6, <1>7, <1>8

\* Nor after the last one.
LEMMA NothingAfter ==
  ASSUME VenueInv, NEW o \in Orders, NEW ks \in Seq(Of(o)), Faithful(o, ks),
         NEW e \in 1..Len(issued), Place(ks, Len(ks)) < e
  PROVE  issued[e].order # o
<1> SUFFICES ASSUME issued[e].order = o PROVE FALSE
  OBVIOUS
<1>1. e \in {received[ks[j]] : j \in 1..Len(ks)}
  BY DEF Faithful
<1>2. PICK j \in 1..Len(ks) : e = received[ks[j]]
  BY <1>1
<1>3. \A m \in 1..Len(ks) : received[ks[m]] \in Nat
  <2>1. \A m \in 1..Len(ks) : ks[m] \in Of(o)
    OBVIOUS
  <2>2. received \in Seq(1..Len(issued))
    BY DEF VenueInv
  <2>3. \A k \in 1..Len(received) : received[k] \in 1..Len(issued)
    BY <2>2
  <2>4. \A k \in Of(o) : received[k] \in Nat
    BY <2>3 DEF Of
  <2>5. QED BY <2>1, <2>4
<1>4. j \in Nat /\ Len(ks) \in Nat /\ e \in Nat /\ Len(ks) # 0 /\ Len(ks) \in 1..Len(ks)
  OBVIOUS
<1>5. Place(ks, Len(ks)) = received[ks[Len(ks)]]
  BY <1>4 DEF Place
<1>6. CASE j = Len(ks)
  BY <1>2, <1>3, <1>4, <1>5, <1>6
<1>7. CASE j # Len(ks)
  <2>1. j < Len(ks)
    BY <1>4, <1>7
  <2>2. received[ks[j]] < received[ks[Len(ks)]]
    BY <1>4, <2>1 DEF Faithful
  <2>3. QED BY <1>2, <1>3, <1>4, <1>5, <2>2
<1>8. QED BY <1>6, <1>7

\* So a replay of it follows the order.
LEMMA FaithfulReplay ==
  ASSUME VenueInv, NEW h, Life(h, issued, orders), NEW o \in Orders,
         NEW ks \in Seq(Of(o)), Faithful(o, ks),
         NEW r \in [0..Len(ks) -> Rows], r[0] = NewRow,
         \A i \in 1..Len(ks) : r[i] = ReplayEvent(o, Len(received), r[i - 1], ks[i]),
         NEW i \in 0..Len(ks)
  PROVE  RowIs(r[i], h[Place(ks, i)][o], LastOf(ks, i))
<1> DEFINE T == {j \in 0..Len(ks) : ~ RowIs(r[j], h[Place(ks, j)][o], LastOf(ks, j))}
<1> SUFFICES ASSUME ~ RowIs(r[i], h[Place(ks, i)][o], LastOf(ks, i)) PROVE FALSE
  OBVIOUS
<1>1. i \in T /\ T \in SUBSET Nat
  <2>1. i \in T
    OBVIOUS
  <2>2. T \in SUBSET (0..Len(ks)) /\ Len(ks) \in Nat
    OBVIOUS
  <2> HIDE DEF T
  <2>3. QED BY <2>1, <2>2
<1>2. PICK m \in T : \A j \in T : m <= j
  <2> HIDE DEF T
  <2>1. QED BY <1>1, LeastNumber
<1>3. m \in 0..Len(ks) /\ ~ RowIs(r[m], h[Place(ks, m)][o], LastOf(ks, m))
  BY <1>2
<1>4. m # 0
  <2>1. h[0][o] = NewOrder(Qty[o])
    BY DEF Life
  <2>2. RowIs(NewRow, NewOrder(Qty[o]), 0)
    BY DEF RowIs, NewRow, NewOrder
  <2>3. SUFFICES ASSUME m = 0 PROVE FALSE
    OBVIOUS
  <2>4. Place(ks, 0) = 0 /\ LastOf(ks, 0) = 0
    BY DEF Place, LastOf
  <2>5. QED BY <1>3, <2>1, <2>2, <2>3, <2>4
<1>5. m \in 1..Len(ks) /\ m - 1 \in 0..Len(ks) /\ ~ (m <= m - 1) /\ m \in Nat /\ m >= 1
  BY <1>3, <1>4
<1>6. RowIs(r[m - 1], h[Place(ks, m - 1)][o], LastOf(ks, m - 1))
  <2>1. m - 1 \notin T
    BY <1>2, <1>5
  <2>2. QED BY <1>5, <2>1
<1> HIDE DEF T
<1> DEFINE k == ks[m]
<1>7. k \in Of(o)
  BY <1>5
<1>8. /\ received[k] \in 1..Len(issued) /\ received[k] - 1 \in 0..Len(issued)
      /\ k \in Nat /\ Len(issued) \in Nat /\ k >= 1
  <2>1. Len(issued) \in Nat /\ k \in 1..Len(received)
    BY <1>7 DEF VenueInv, Of
  <2> HIDE DEF k
  <2>2. QED BY <1>7, <2>1, ItsEvent
<1>9. /\ Place(ks, m - 1) \in 0..Len(issued) /\ Place(ks, m - 1) <= received[k] - 1
      /\ LastOf(ks, m - 1) \in Nat /\ LastOf(ks, m - 1) < k
  <2>1. CASE m - 1 = 0
    <3>1. Place(ks, m - 1) = 0 /\ LastOf(ks, m - 1) = 0
      BY <2>1 DEF Place, LastOf
    <3> HIDE DEF k
    <3>2. QED BY <1>8, <3>1
  <2>2. CASE m - 1 # 0
    <3>1. m - 1 \in 1..Len(ks) /\ m - 1 < m
      BY <1>5, <2>2
    <3>2. Place(ks, m - 1) = received[ks[m - 1]] /\ LastOf(ks, m - 1) = ks[m - 1]
      BY <2>2 DEF Place, LastOf
    <3>3. ks[m - 1] < k /\ received[ks[m - 1]] < received[k]
      BY <1>5, <3>1 DEF Faithful
    <3>4. ks[m - 1] \in Of(o)
      BY <3>1
    <3>5. received[ks[m - 1]] \in 1..Len(issued) /\ ks[m - 1] \in Nat
      BY <3>4, ItsEvent
    <3> HIDE DEF k
    <3>6. QED BY <1>8, <3>2, <3>3, <3>5
  <2>3. QED BY <2>1, <2>2
<1>10. h[received[k] - 1][o] = h[Place(ks, m - 1)][o]
  <2>1. \A e \in 1..Len(issued) :
          Place(ks, m - 1) < e /\ e <= received[k] - 1 => issued[e].order # o
    BY <1>5, NothingBetween
  <2> DEFINE a == Place(ks, m - 1)
             b == received[k] - 1
             L == Len(issued)
  <2>2. a \in 0..L /\ b \in 0..L /\ a <= b /\ L \in Nat
        /\ \A e \in 1..L : a < e /\ e <= b => issued[e].order # o
    BY <1>8, <1>9, <2>1
  <2> HIDE DEF k, a, b
  <2>3. h[b][o] = h[a][o]
    BY <2>2, OrderStands
  <2>4. QED BY <2>3 DEF a, b
<1>11. r[m - 1] \in Rows
  BY <1>5
<1>12. RowIs(ReplayEvent(o, Len(received), r[m - 1], k), h[received[k]][o], k)
  <2> HIDE DEF k
  <2>1. QED BY <1>6, <1>7, <1>9, <1>10, <1>11, FaithfulTurn
<1>13. Place(ks, m) = received[k] /\ LastOf(ks, m) = k
  BY <1>4 DEF Place, LastOf
<1>14. QED BY <1>3, <1>5, <1>12, <1>13

\* The row of a faithful history is what the venue would say.
LEMMA FaithfulAgrees ==
  ASSUME VenueInv, NEW o \in Orders, NEW ks \in Seq(Of(o)), Faithful(o, ks)
  PROVE  /\ ReplayRow(o, ks, Len(received)).outcome # "CONFLICT"
         /\ ReplayRow(o, ks, Len(received)).status = orders[o].status
         /\ ReplayRow(o, ks, Len(received)).filled = orders[o].filled
<1> DEFINE n == Len(ks)
           row == LastRow(o, Len(received), ks)
<1>1. PICK h : Life(h, issued, orders)
  BY DEF VenueInv
<1>2. Len(received) \in Nat /\ Len(issued) \in Nat /\ n \in Nat /\ n \in 0..n
  BY DEF VenueInv
<1>3. PICK r \in [0..n -> Rows] :
          /\ r[0] = NewRow /\ r[n] = row
          /\ \A i \in 1..n : r[i] = ReplayEvent(o, Len(received), r[i - 1], ks[i])
  <2> DEFINE V == TrueRows(o, h)
             K == Of(o)
             cutoff == Len(received)
  <2>1. \A t \in V, k \in K : ReplayEvent(o, cutoff, t, k) \in V
    <3> HIDE DEF cutoff
    <3>1. QED BY <1>1, TurnsAreTrue
  <2>2. NewRow \in V /\ ks \in Seq(K) /\ V \subseteq Rows
    BY NewRowIsTrue DEF TrueRows
  <2> HIDE DEF V, K
  <2>3. PICK r : Goes(o, cutoff, ks, V, r)
    <3> HIDE DEF cutoff
    <3>1. Turns(o, cutoff, K, ks, V)
      BY <2>1, <2>2 DEF Turns
    <3>2. QED BY <3>1, ReplayGoes
  <2>4. /\ r \in [0..n -> V] /\ r[0] = NewRow /\ r[n] = row
         /\ \A i \in 1..n : r[i] = ReplayEvent(o, cutoff, r[i - 1], ks[i])
    BY <2>3 DEF Goes
  <2>5. r \in [0..n -> Rows]
    BY <2>2, <2>4
  <2>6. QED BY <2>4, <2>5
<1>4. RowIs(row, h[Place(ks, n)][o], LastOf(ks, n))
  <2>1. RowIs(r[n], h[Place(ks, n)][o], LastOf(ks, n))
    BY <1>1, <1>2, <1>3, FaithfulReplay
  <2>2. QED BY <1>3, <2>1
<1>5. Place(ks, n) \in 0..Len(issued)
  <2>1. CASE n = 0
    BY <1>2, <2>1 DEF Place
  <2>2. CASE n # 0
    <3>1. ks[n] \in Of(o)
      BY <1>2, <2>2
    <3>2. received[ks[n]] \in 1..Len(issued)
      BY <1>1, <3>1, ItsEvent
    <3>3. Place(ks, n) = received[ks[n]]
      BY <2>2 DEF Place
    <3> HIDE DEF n
    <3>4. QED BY <1>2, <3>2, <3>3
  <2>3. QED BY <2>1, <2>2
<1>6. h[Len(issued)][o] = h[Place(ks, n)][o] /\ h[Len(issued)] = orders
  <2>1. \A e \in 1..Len(issued) : Place(ks, n) < e => issued[e].order # o
    BY NothingAfter
  <2>2. Len(issued) \in 0..Len(issued) /\ Place(ks, n) <= Len(issued)
    <3> HIDE DEF n
    <3>1. QED BY <1>2, <1>5
  <2> HIDE DEF n
  <2>3. h[Len(issued)][o] = h[Place(ks, n)][o]
    BY <1>1, <1>2, <1>5, <2>1, <2>2, OrderStands
  <2>4. QED BY <1>1, <2>3 DEF Life
<1>7. ~ Conflicting(ks)
  <2> SUFFICES ASSUME NEW i \in 1..Len(ks), NEW j \in 1..Len(ks),
                      ks[i] # ks[j], received[ks[i]] = received[ks[j]]
               PROVE  FALSE
    BY DEF Conflicting
  <2>1. ks[i] \in Of(o) /\ ks[j] \in Of(o)
    OBVIOUS
  <2>2. received[ks[i]] \in Nat /\ received[ks[j]] \in Nat
    <3>1. received[ks[i]] \in 1..Len(issued) /\ received[ks[j]] \in 1..Len(issued)
      BY <1>1, <2>1, ItsEvent
    <3>2. QED BY <3>1
  <2>3. i \in Nat /\ j \in Nat /\ i # j
    OBVIOUS
  <2>4. CASE i < j
    <3>1. received[ks[i]] < received[ks[j]]
      BY <2>4 DEF Faithful
    <3>2. QED BY <2>2, <3>1
  <2>5. CASE j < i
    <3>1. received[ks[j]] < received[ks[i]]
      BY <2>5 DEF Faithful
    <3>2. QED BY <2>2, <3>1
  <2>6. QED BY <2>3, <2>4, <2>5
<1>8. row.outcome = "none" /\ row.status = orders[o].status /\ row.filled = orders[o].filled
  BY <1>4, <1>6 DEF RowIs
<1>9. row \in Rows
  <2> HIDE DEF row
  <2>1. QED BY <1>2, <1>3
<1>10. ReplayRow(o, ks, Len(received)) =
         Ended(row, IF row.status \in Terminal THEN "OBSERVED_TERMINAL" ELSE "UNRESOLVED")
  BY <1>7, <1>8 DEF ReplayRow, LastRow
<1> HIDE DEF row
<1>11. \A outcome \in {"OBSERVED_TERMINAL", "UNRESOLVED"} :
          /\ Ended(row, outcome).outcome = outcome
          /\ Ended(row, outcome).status = row.status
          /\ Ended(row, outcome).filled = row.filled
  BY <1>9 DEF Ended, Rows
<1>12. QED BY <1>8, <1>10, <1>11

\* An empty journal.
LEMMA JournalBegins == Init => JournalInv
  BY DEF Init, JournalInv, JournalTypes, UniqueIds

\* The rows of a report are true both ways (_replay): no end is reported that did not
\* happen, and no complete evidence is called a conflict.
THEOREM ReportsAreTrue == Spec => []RowsAreTrue
<1>1. JournalInv /\ VenueInv => RowsAreTrue
  <2> SUFFICES ASSUME JournalInv, VenueInv PROVE RowsAreTrue
    OBVIOUS
  <2>1. synced \in Nat /\ synced <= Len(file) /\ Len(file) \in Nat
    BY DEF JournalInv, JournalTypes
  <2>2. TerminalIsTrue
    <3> SUFFICES ASSUME NEW o \in Orders, NEW n \in 0..synced, NEW cutoff \in 0..Len(received),
                        ReplayRow(o, HistoryOf(o, Observed(n)), cutoff).outcome = "OBSERVED_TERMINAL"
                 PROVE  /\ ReplayRow(o, HistoryOf(o, Observed(n)), cutoff).status = orders[o].status
                        /\ ReplayRow(o, HistoryOf(o, Observed(n)), cutoff).filled = orders[o].filled
      BY DEF TerminalIsTrue
    <3>1. n \in Nat /\ n <= Len(file)
      BY <2>1
    <3>2. QED BY <3>1, EndsAreTrue
  <2>3. FaithfulRowsAgree
    <3> SUFFICES ASSUME NEW o \in Orders, Faithful(o, HistoryOf(o, Observed(synced)))
                 PROVE  LET ks == HistoryOf(o, Observed(synced))
                            row == ReplayRow(o, ks, Len(received))
                        IN  /\ row.outcome # "CONFLICT"
                            /\ row.status = orders[o].status /\ row.filled = orders[o].filled
      BY DEF FaithfulRowsAgree
    <3> DEFINE ks == HistoryOf(o, Observed(synced))
    <3>1. ks \in Seq(Of(o))
      <4>1. Len(received) \in Nat
        BY DEF VenueInv
      <4>2. QED BY <2>1, <4>1, ObservedTypes, HistoryTypes
    <3>2. Faithful(o, ks)
      OBVIOUS
    <3> HIDE DEF ks
    <3>3. QED BY <3>1, <3>2, FaithfulAgrees DEF ks
  <2>4. QED BY <2>2, <2>3 DEF RowsAreTrue
<1>2. Init => JournalInv /\ VenueInv
  BY JournalBegins, VenueStarts
<1>3. JournalInv /\ VenueInv /\ [Next]_vars => JournalInv' /\ VenueInv'
  BY JournalStays, VenueStays
<1>4. QED BY <1>1, <1>2, <1>3, PTL DEF Spec
================================================================================
