-------------------------- MODULE RecordingProofs --------------------------
(***************************************************************************)
(* What the recording programs keep.                                       *)
(*                                                                         *)
(* BookRecorder, for every size of the queue and the batches, every fsync  *)
(* interval and every bound.  RInv adds to the types what the writer knows *)
(* of its file in each of its states, which is why a sidecar stays exact.  *)
(* LineUp says where every row is: the files, the writer's hand, the queue *)
(* and the pool threads hold, in this order, pieces of one line of         *)
(* numbers, and the None that ends the writer comes behind it.             *)
(*                                                                         *)
(* LiveCollector, for every setting that leaves discovery the time it      *)
(* needs and any number of failures: no gap at the boundary of two markets.*)
(* The two share no name.                                                  *)
(***************************************************************************)
EXTENDS BookRecorder, LiveCollector, SequenceTheorems, FiniteSetTheorems,
        WellFoundedInduction, TLAPS

LoopTypes ==
  /\ pc \in Session \cup Finishing \cup {"ended", "gone"}
  /\ stop \in BOOLEAN /\ wake \in BOOLEAN /\ open \in BOOLEAN
  /\ exit \in {None, "returned", "failed", "cancelled"}
  /\ cancels \in 0..MaxCancels /\ received \in 0..MaxRows

QueueTypes ==
  /\ putting \subseteq Batches \cup {End}
  /\ queue \in Seq(Batches \cup {End}) /\ Len(queue) <= QueueSize

ThreadTypes ==
  /\ writer \in {"get", "append", "seal", "sidecar", "open", "done", "dead"}
  /\ hand \in Batches \cup {End}
  /\ error \in {None, "raw", "sidecar"}
  /\ files \in Seq(Files) \ {<<>>}

\* What the writer and its current file have to do with each other.
WriterInv ==
  /\ writer \in {"append", "open"} => hand # End
  /\ writer \in {"get", "append", "seal", "sidecar"} => Current.sidecar = None
  /\ writer = "sidecar" => Current.synced = Len(Current.rows)
  /\ Current.sidecar # None /\ pc # "gone" =>
       Current.synced = Len(Current.rows)
  /\ pc = "gone" => writer = "dead"

RInv == LoopTypes /\ QueueTypes /\ ThreadTypes /\ WriterInv /\ SidecarExact

-----------------------------------------------------------------------------
(* Every step keeps RInv.  Steps of the loop leave the thread alone, steps  *)
(* of the thread leave the loop alone; only Crash and the repair do not.    *)

LoopStep == SessionStep \/ CloseTask \/ SocketCloses \/ Owner

\* The session and its owner keep their types, and what they put is a batch
\* or the None.
LEMMA LoopKeepsTypes ==
  ASSUME LoopTypes, QueueTypes, LoopStep
  PROVE  /\ LoopTypes' /\ QueueTypes' /\ UNCHANGED thread
         /\ (pc' = "gone" <=> pc = "gone")
<1>0. ASSUME Stop
      PROVE  stop' \in BOOLEAN /\ wake' \in BOOLEAN
  <2>1. stop' = TRUE /\ wake' = (pc \in Connection)
    BY <1>0, Zenon DEF Stop
  <2>2. (pc \in Connection) \in BOOLEAN
    OBVIOUS
  <2>3. wake' \in BOOLEAN
    BY ONLY <2>1, <2>2, Zenon
  <2>4. QED BY <2>1, <2>3
<1> USE DEF Session, Connection, Finishing
<1>1. MaxRows \in Nat /\ MaxCancels \in Nat /\ MaxBatch \in Nat \ {0}
  BY RecorderAssumption
<1>2. ASSUME NEW how \in {"returned", "failed", "cancelled"}, EndSession(how)
      PROVE  /\ pc' = "drain" /\ open' \in BOOLEAN
             /\ exit' \in {"returned", "failed", "cancelled"}
             /\ putting' \subseteq Batches \cup {End}
  BY <1>2 DEF EndSession, QueueTypes
<1>3. CASE Frame
  <2>1. PICK n \in 1..MaxBatch :
          /\ received + n <= MaxRows /\ received' = received + n
          /\ putting' = putting \cup {[i \in 1..n |-> received + i]}
    BY <1>3 DEF Frame
  <2> DEFINE batch == [i \in 1..n |-> received + i]
  <2>2. n \in Nat /\ n >= 1 /\ n <= MaxBatch /\ received \in Nat
    BY <1>1, <2>1 DEF LoopTypes
  <2>3. \A i \in 1..n : received + i \in Rows
    BY <1>1, <2>1, <2>2 DEF Rows
  <2>4. batch \in Seq(Rows) /\ Len(batch) = n
    BY <2>2, <2>3
  <2>5. batch \in Batches
    BY <2>2, <2>4 DEF Batches, End
  <2>6. received' \in 0..MaxRows
    BY <1>1, <2>1, <2>2
  <2>7. QED BY <1>3, <2>1, <2>5, <2>6 DEF Frame, LoopTypes, QueueTypes, thread
<1>4. CASE Connect \/ Subscribe \/ Resume \/ EmptyFrame \/ Disconnect
  BY <1>4 DEF Connect, Subscribe, Resume, EmptyFrame, Disconnect,
       LoopTypes, QueueTypes, session, thread
<1>5. CASE Leave \/ Retry \/ JournalFails
  BY <1>2, <1>5 DEF Leave, Retry, JournalFails, LoopTypes, QueueTypes, thread
<1>6. CASE Drained \/ Joined
  BY <1>6 DEF Drained, Joined, LoopTypes, QueueTypes, session, thread
<1>7. CASE Stop \/ CloseTask \/ SocketCloses
  <2>1. CASE Stop
    <3>2. UNCHANGED <<pc, open, exit, cancels, received, putting, queue, thread>>
      BY <2>1, Zenon DEF Stop
    <3>3. QED BY <1>0, <2>1, <3>2 DEF LoopTypes, QueueTypes, thread
  <2>2. CASE CloseTask
    <3>1. wake' = FALSE /\ open' = FALSE
      BY <2>2, Zenon DEF CloseTask
    <3>2. UNCHANGED <<pc, stop, exit, cancels, received, putting, queue, thread>>
      BY <2>2, Zenon DEF CloseTask
    <3>3. QED BY <3>1, <3>2 DEF LoopTypes, QueueTypes, thread
  <2>3. CASE SocketCloses
    <3>1. open' = FALSE
      BY <2>3, Zenon DEF SocketCloses
    <3>2. UNCHANGED <<pc, stop, wake, exit, cancels, received, putting, queue, thread>>
      BY <2>3, Zenon DEF SocketCloses
    <3>3. QED BY <3>1, <3>2 DEF LoopTypes, QueueTypes, thread
  <2>4. QED BY <1>7, <2>1, <2>2, <2>3
<1>8. CASE Cancel
  <2>1. cancels' \in 0..MaxCancels
    BY <1>1, <1>8 DEF Cancel, LoopTypes
  <2>2. QED BY <1>2, <1>8, <2>1 DEF Cancel, LoopTypes, QueueTypes, thread
<1>9. QED
  BY <1>3, <1>4, <1>5, <1>6, <1>7, <1>8 DEF LoopStep, SessionStep, Owner

\* Setting the current file touches no other.
LEMMA SetCurrentEffect ==
  ASSUME files \in Seq(Files) \ {<<>>}, NEW file \in Files, SetCurrent(file)
  PROVE  /\ files' \in Seq(Files) \ {<<>>}
         /\ DOMAIN files' = DOMAIN files
         /\ Current' = file
         /\ \A i \in DOMAIN files : i # Len(files) => files'[i] = files[i]
         /\ \A i \in DOMAIN files' : files'[i] # file => files'[i] = files[i]
<1>1. Len(files) \in Nat /\ Len(files) > 0 /\ DOMAIN files = 1..Len(files)
  OBVIOUS
<1>2. files' = [files EXCEPT ![Len(files)] = file]
  BY DEF SetCurrent
<1>3. files' \in Seq(Files) /\ Len(files') = Len(files)
  BY <1>1, <1>2
<1>4. QED BY <1>1, <1>2, <1>3 DEF Current

\* The writer keeps its types and what it knows of its file.
LEMMA WriterKeepsInv ==
  ASSUME RInv, WriterStep
  PROVE  ThreadTypes' /\ QueueTypes' /\ WriterInv' /\ SidecarExact'
<1>1. /\ files \in Seq(Files) \ {<<>>} /\ Current \in Files
      /\ Len(files) \in Nat /\ Len(files) > 0 /\ DOMAIN files = 1..Len(files)
      /\ Current = files[Len(files)]
  BY DEF RInv, ThreadTypes, Current
<1>2. Current.rows \in Seq(Rows) /\ Current.synced \in Nat
      /\ Current.sidecar \in {None} \cup Seq(Rows)
  BY <1>1 DEF Files
<1>3. hand \in Seq(Rows) /\ (hand # End => Len(hand) > 0 /\ Head(hand) \in Rows)
  <2>1. hand \in Batches \cup {End}
    BY DEF RInv, ThreadTypes
  <2>2. hand \in Seq(Rows) \/ hand = <<>>
    BY <2>1 DEF Batches, End
  <2>3. hand \in Seq(Rows)
    <3>1. <<>> \in Seq(Rows)
      OBVIOUS
    <3>2. QED BY <2>2, <3>1, Zenon
  <2>4. QED BY <2>3 DEF End
<1>4. pc # "gone"
  BY DEF RInv, WriterInv, WriterStep, Get, Rotate, AppendRow, AppendFails,
         Seal, Sidecar, Open
<1>5. CASE Get
  <2>1. /\ queue # <<>> /\ hand' = Head(queue) /\ queue' = Tail(queue)
        /\ writer' = IF hand' = End THEN "seal" ELSE "append"
        /\ UNCHANGED <<loop, putting, error, files>>
    BY <1>5 DEF Get
  <2>2. queue' \in Seq(Batches \cup {End}) /\ Len(queue') <= QueueSize
        /\ hand' \in Batches \cup {End}
    <3>1. queue \in Seq(Batches \cup {End}) /\ queue # <<>>
          /\ Len(queue) <= QueueSize /\ QueueSize \in Nat
      BY <2>1, RecorderAssumption DEF RInv, QueueTypes
    <3>2. Head(queue) \in Batches \cup {End}
      BY <3>1
    <3>3. Tail(queue) \in Seq(Batches \cup {End}) /\ Len(queue) \in Nat
          /\ Len(Tail(queue)) = Len(queue) - 1
      BY <3>1
    <3>4. QED BY <2>1, <3>1, <3>2, <3>3
  <2>3. QED BY <1>4, <1>5, <2>1, <2>2 DEF Get, RInv, ThreadTypes, QueueTypes,
               WriterInv, SidecarExact, Current, loop
<1>6. CASE Rotate
  BY <1>6, <1>4 DEF Rotate, RInv, ThreadTypes, QueueTypes, WriterInv,
                    SidecarExact, Current, loop
<1>7. ASSUME writer = "append", NEW rows, rows = Append(Current.rows, Head(hand)),
             NEW n \in Nat, SetCurrent([Current EXCEPT !.rows = rows, !.synced = n])
      PROVE  /\ files' \in Seq(Files) \ {<<>>} /\ SidecarExact'
             /\ Current'.sidecar = None
  <2>1. hand # End /\ Current.sidecar = None
    BY <1>7 DEF RInv, WriterInv
  <2> DEFINE file == [Current EXCEPT !.rows = rows, !.synced = n]
  <2>2. rows \in Seq(Rows)
    BY <1>2, <1>3, <1>7, <2>1
  <2>3. file \in Files /\ file.sidecar = None
    BY <1>1, <2>1, <2>2 DEF Files
  <2>4. QED BY <1>1, <1>7, <2>3, SetCurrentEffect DEF RInv, SidecarExact
<1>8. CASE AppendRow
  <2> DEFINE rows == Append(Current.rows, Head(hand))
             n == IF Len(rows) % FsyncEvery = 0 THEN Len(rows) ELSE Current.synced
  <2>1. writer = "append" /\ hand # End
    BY <1>8 DEF AppendRow, RInv, WriterInv
  <2>2. rows \in Seq(Rows) /\ n \in Nat
    BY <1>2, <1>3, <2>1
  <2>3. SetCurrent([Current EXCEPT !.rows = rows, !.synced = n])
    BY <1>1, <1>8 DEF AppendRow, Files
  <2>4. files' \in Seq(Files) \ {<<>>} /\ SidecarExact' /\ Current'.sidecar = None
    BY <1>7, <2>1, <2>2, <2>3
  <2>5. hand' = Tail(hand) /\ hand' \in Batches \cup {End}
    <3>1. hand' = Tail(hand) /\ hand \in Seq(Rows) /\ hand # <<>>
      BY <1>3, <1>8, <2>1 DEF AppendRow, End
    <3>2. Len(hand) <= MaxBatch /\ MaxBatch \in Nat
      BY <2>1, RecorderAssumption DEF RInv, ThreadTypes, Batches
    <3>3. hand' \in Seq(Rows) /\ Len(hand') = Len(hand) - 1 /\ Len(hand) \in Nat
      BY <3>1
    <3>4. QED BY <3>1, <3>2, <3>3 DEF Batches, End
  <2>6. QED BY <1>4, <1>8, <2>4, <2>5 DEF AppendRow, RInv, ThreadTypes,
               QueueTypes, WriterInv, loop, End
<1>9. CASE AppendFails
  <2>1. writer = "append" /\ hand # End /\ Current.sidecar = None
    BY <1>9 DEF AppendFails, RInv, WriterInv
  <2>2. files' \in Seq(Files) \ {<<>>} /\ SidecarExact' /\ Current'.sidecar = None
    <3>1. CASE UNCHANGED files
      BY <1>1, <2>1, <3>1 DEF RInv, SidecarExact, Current
    <3>2. CASE SetCurrent([Current EXCEPT !.rows = Append(@, Head(hand))])
      <4>1. [Current EXCEPT !.rows = Append(@, Head(hand))]
              = [Current EXCEPT !.rows = Append(Current.rows, Head(hand)),
                                !.synced = Current.synced]
        BY <1>1 DEF Files
      <4>2. QED BY <1>2, <1>7, <2>1, <3>2, <4>1
    <3>3. QED BY <1>9, <3>1, <3>2 DEF AppendFails
  <2>3. QED BY <1>4, <1>9, <2>2 DEF AppendFails, Die, RInv, ThreadTypes,
               QueueTypes, WriterInv, loop, End
<1>10. CASE Seal
  <2>1. CASE Die("raw") /\ UNCHANGED files
    BY <1>4, <1>10, <2>1 DEF Seal, Die, RInv, ThreadTypes, QueueTypes, WriterInv,
                             SidecarExact, Current, loop, End
  <2>2. CASE /\ writer' = "sidecar"
             /\ SetCurrent([Current EXCEPT !.synced = Len(Current.rows)])
             /\ UNCHANGED <<hand, error>>
    <3> DEFINE file == [Current EXCEPT !.synced = Len(Current.rows)]
    <3>1. file \in Files /\ file.sidecar = None /\ file.synced = Len(file.rows)
      <4>1. Current.sidecar = None /\ Len(Current.rows) \in Nat
        BY <1>2, <1>10 DEF Seal, RInv, WriterInv
      <4>2. QED BY <1>1, <4>1 DEF Files
    <3>2. files' \in Seq(Files) \ {<<>>} /\ Current' = file /\ SidecarExact'
      BY <1>1, <2>2, <3>1, SetCurrentEffect DEF RInv, SidecarExact
    <3>3. QED BY <1>10, <2>2, <3>1, <3>2 DEF Seal, RInv, ThreadTypes, QueueTypes,
                 WriterInv, loop
  <2>3. QED BY <1>10, <2>1, <2>2 DEF Seal
<1>11. CASE Sidecar
  <2>1. CASE Die("sidecar") /\ UNCHANGED files
    BY <1>4, <1>11, <2>1 DEF Sidecar, Die, RInv, ThreadTypes, QueueTypes, WriterInv,
                             SidecarExact, Current, loop, End
  <2>2. CASE /\ SetCurrent([Current EXCEPT !.sidecar = Current.rows])
             /\ \/ /\ writer' = IF hand = <<>> THEN "done" ELSE "open"
                   /\ UNCHANGED <<hand, error>>
                \/ Die("raw")
    <3> DEFINE file == [Current EXCEPT !.sidecar = Current.rows]
    <3>1. file \in Files /\ file.sidecar = file.rows /\ file.synced = Len(file.rows)
      BY <1>1, <1>2, <1>11 DEF Sidecar, RInv, WriterInv, Files
    <3>2. files' \in Seq(Files) \ {<<>>} /\ Current' = file /\ SidecarExact'
      BY <1>1, <2>2, <3>1, SetCurrentEffect DEF RInv, SidecarExact
    <3>3. QED BY <1>4, <1>11, <2>2, <3>1, <3>2 DEF Sidecar, Die, RInv, ThreadTypes,
                 QueueTypes, WriterInv, loop, End
  <2>3. QED BY <1>11, <2>1, <2>2 DEF Sidecar
<1>12. CASE Open
  <2>1. CASE Die("raw") /\ UNCHANGED files
    BY <1>4, <1>12, <2>1 DEF Open, Die, RInv, ThreadTypes, QueueTypes, WriterInv,
                             SidecarExact, Current, loop, End
  <2>2. CASE /\ files' = Append(files, NewFile)
             /\ \/ writer' = "append" /\ UNCHANGED <<hand, error>>
                \/ Die("raw")
    <3>1. NewFile \in Files /\ NewFile.sidecar = None
      BY DEF NewFile, Files
    <3>2. /\ files' \in Seq(Files) \ {<<>>} /\ Current' = NewFile
          /\ DOMAIN files' = 1..(Len(files) + 1)
          /\ \A i \in 1..Len(files) : files'[i] = files[i]
          /\ files'[Len(files) + 1] = NewFile
      BY <1>1, <2>2, <3>1 DEF Current
    <3>3. SidecarExact'
      BY <1>1, <3>1, <3>2 DEF RInv, SidecarExact
    <3>4. QED BY <1>4, <1>12, <2>2, <3>1, <3>2, <3>3 DEF Open, Die, RInv, ThreadTypes,
                 QueueTypes, WriterInv, loop, End
  <2>3. QED BY <1>12, <2>1, <2>2 DEF Open
<1>13. QED
  BY <1>5, <1>6, <1>8, <1>9, <1>10, <1>11, <1>12 DEF WriterStep

\* A crash shortens only a file without a sidecar, and the repair describes
\* what is left.
LEMMA ProcessKeepsInv ==
  ASSUME RInv, Crash \/ FinalizeOrphans
  PROVE  LoopTypes' /\ QueueTypes' /\ ThreadTypes' /\ WriterInv' /\ SidecarExact'
<1>1. /\ files \in Seq(Files) \ {<<>>} /\ Current \in Files
      /\ Len(files) \in Nat /\ Len(files) > 0 /\ DOMAIN files = 1..Len(files)
      /\ Current = files[Len(files)]
  BY DEF RInv, ThreadTypes, Current
<1>2. Current.rows \in Seq(Rows) /\ Len(Current.rows) \in Nat /\ Current.synced \in Nat
  BY <1>1 DEF Files
<1>3. CASE Crash
  <2>1. PICK n \in Current.synced..Len(Current.rows) :
          SetCurrent([Current EXCEPT !.rows = SubSeq(Current.rows, 1, n)])
    BY <1>3 DEF Crash
  <2> DEFINE file == [Current EXCEPT !.rows = SubSeq(Current.rows, 1, n)]
  <2>2. n \in Nat /\ Current.synced <= n /\ n <= Len(Current.rows)
    BY <1>2, <2>1
  <2>3. SubSeq(Current.rows, 1, n) \in Seq(Rows)
    BY <1>2, <2>2
  <2>4. Current.sidecar # None => SubSeq(Current.rows, 1, n) = Current.rows
    <3>1. SUFFICES ASSUME Current.sidecar # None
                   PROVE  SubSeq(Current.rows, 1, n) = Current.rows
      OBVIOUS
    <3>2. n = Len(Current.rows)
      BY <1>2, <1>3, <2>2, <3>1 DEF Crash, RInv, WriterInv
    <3>3. QED BY <1>2, <3>2
  <2>5. file \in Files /\ file.sidecar \in {None, file.rows}
    <3>1. Current.sidecar \in {None, Current.rows}
      BY <1>1 DEF RInv, SidecarExact
    <3>2. file.rows = SubSeq(Current.rows, 1, n) /\ file.sidecar = Current.sidecar
          /\ file \in Files
      BY <1>1, <2>3 DEF Files
    <3>3. QED BY <2>4, <3>1, <3>2
  <2>6. files' \in Seq(Files) \ {<<>>} /\ SidecarExact'
    BY <1>1, <2>1, <2>5, SetCurrentEffect DEF RInv, SidecarExact
  <2>7. open' \in BOOLEAN /\ wake' \in BOOLEAN
    BY <1>3 DEF Crash
  <2>8. QueueTypes'
    BY <1>3, RecorderAssumption DEF Crash, QueueTypes
  <2>9. QED BY <1>3, <2>6, <2>7, <2>8 DEF Crash, RInv, LoopTypes, ThreadTypes,
               WriterInv, End
<1>4. CASE FinalizeOrphans
  <2> DEFINE fixed(i) == IF files[i].sidecar = None
                         THEN [files[i] EXCEPT !.sidecar = files[i].rows]
                         ELSE files[i]
  <2>1. pc = "gone" /\ files' = [i \in DOMAIN files |-> fixed(i)]
        /\ UNCHANGED <<loop, putting, queue, writer, hand, error>>
    BY <1>4 DEF FinalizeOrphans
  <2>2. \A i \in DOMAIN files :
          /\ fixed(i) \in Files
          /\ fixed(i).sidecar \in {None, fixed(i).rows}
    <3>1. TAKE i \in DOMAIN files
    <3>2. files[i] \in Files
      BY <1>1
    <3>3. QED BY <3>2 DEF Files, RInv, SidecarExact
  <2>3. files' \in Seq(Files) /\ Len(files') = Len(files) /\ SidecarExact'
    <3>1. files' \in Seq(Files) /\ Len(files') = Len(files)
      BY <1>1, <2>1, <2>2
    <3>2. \A i \in DOMAIN files' : i \in DOMAIN files /\ files'[i] = fixed(i)
      BY <2>1
    <3> HIDE DEF fixed
    <3>3. SidecarExact'
      BY <2>2, <3>2 DEF SidecarExact
    <3>4. QED BY <3>1, <3>3
  <2>4. QED BY <1>1, <2>1, <2>3 DEF RInv, LoopTypes, QueueTypes, ThreadTypes,
               WriterInv, loop, session
<1>5. QED BY <1>3, <1>4

\* Whatever the interleaving of session, pool threads, writer, owner, crash
\* and repair, RInv holds.
THEOREM RecorderInvariant == Spec => []RInv
<1>1. Init => RInv
  <2> SUFFICES ASSUME Init PROVE RInv
    OBVIOUS
  <2>1. NewFile \in Files /\ files = <<NewFile>> /\ NewFile.sidecar = None
    BY DEF Init, NewFile, Files
  <2>2. files \in Seq(Files) \ {<<>>} /\ Current = NewFile /\ SidecarExact
    BY <2>1 DEF Current, SidecarExact
  <2>3. queue \in Seq(Batches \cup {End}) /\ Len(queue) = 0
    BY DEF Init
  <2>4. LoopTypes
    <3>1. /\ stop \in BOOLEAN /\ wake \in BOOLEAN
          /\ open \in BOOLEAN
      BY DEF Init
    <3>2. cancels \in 0..MaxCancels /\ received \in 0..MaxRows
      BY RecorderAssumption DEF Init
    <3>3. pc \in Session /\ exit = None
      BY DEF Init, Session
    <3>4. QED BY <3>1, <3>2, <3>3 DEF LoopTypes
  <2>5. QueueTypes
    BY <2>3, RecorderAssumption DEF Init, QueueTypes
  <2>6. ThreadTypes /\ WriterInv
    BY <2>1, <2>2 DEF Init, ThreadTypes, WriterInv, End
  <2>7. QED BY <2>2, <2>4, <2>5, <2>6 DEF RInv
<1>2. RInv /\ [Next]_vars => RInv'
  <2> SUFFICES ASSUME RInv, [Next]_vars PROVE RInv'
    OBVIOUS
  <2>1. CASE LoopStep
    <3>1. /\ LoopTypes' /\ QueueTypes' /\ UNCHANGED thread
          /\ (pc' = "gone" <=> pc = "gone")
      BY <2>1, LoopKeepsTypes DEF RInv
    <3>2. ThreadTypes' /\ SidecarExact'
      BY <3>1 DEF RInv, ThreadTypes, SidecarExact, thread
    <3>3. UNCHANGED <<writer, hand, Current>>
      BY <3>1 DEF Current, thread
    <3>4. WriterInv'
      BY <3>1, <3>3 DEF RInv, WriterInv, End
    <3>5. QED BY <3>1, <3>2, <3>4 DEF RInv
  <2>2. CASE WriterStep
    <3>1. UNCHANGED loop
      BY <2>2 DEF WriterStep, Get, Rotate, AppendRow, AppendFails, Seal, Sidecar, Open
    <3>2. LoopTypes'
      BY <3>1 DEF RInv, LoopTypes, loop, session
    <3>3. QED BY <2>2, <3>2, WriterKeepsInv DEF RInv
  <2>3. CASE PutStep
    <3>1. PICK item \in putting : Put(item)
      BY <2>3 DEF PutStep
    <3>2. item \in Batches \cup {End} /\ queue \in Seq(Batches \cup {End})
      BY <3>1 DEF RInv, QueueTypes
    <3>3. QueueTypes'
      BY <3>1, <3>2, RecorderAssumption DEF Put, RInv, QueueTypes
    <3>4. QED BY <3>1, <3>3 DEF Put, RInv, LoopTypes, ThreadTypes, WriterInv,
                 SidecarExact, Current, loop, session, thread
  <2>4. CASE Crash \/ FinalizeOrphans
    BY <2>4, ProcessKeepsInv DEF RInv
  <2>5. CASE UNCHANGED vars
    BY <2>5 DEF RInv, LoopTypes, QueueTypes, ThreadTypes, WriterInv, SidecarExact,
               Current, vars, loop, session, thread
  <2>6. QED BY <2>1, <2>2, <2>3, <2>4, <2>5 DEF Next, LoopStep
<1>3. QED BY <1>1, <1>2, PTL DEF Spec

\* The recorder's state has its types.
THEOREM RecorderTypes == Spec => []TypeOK
<1>1. RInv => TypeOK
  BY DEF RInv, LoopTypes, QueueTypes, ThreadTypes, TypeOK
<1>2. QED BY <1>1, RecorderInvariant, PTL

\* A sidecar counts and hashes exactly the rows of its file, whatever fails
\* or crashes between closing a file, describing it and opening the next.
THEOREM SidecarsAreExact == Spec => []SidecarExact
<1>1. RInv => SidecarExact
  BY DEF RInv
<1>2. QED BY <1>1, RecorderInvariant, PTL

-----------------------------------------------------------------------------
(* The line of rows, and where its pieces are.                              *)

\* The rows after the first a, up to row b.
Run(a, b) == [j \in 1..(b - a) |-> a + j]

\* s is the rows after the first a, up to row b, cut into pieces in order.
Lined(s, a, b) ==
  \E g \in [0..Len(s) -> Nat] :
    /\ g[0] = a /\ g[Len(s)] = b
    /\ \A i \in 1..Len(s) : g[i - 1] <= g[i] /\ s[i] = Run(g[i - 1], g[i])

RowsOf(fs) == [i \in DOMAIN fs |-> fs[i].rows]

\* The files hold the first rows in order.
FileInv == \E n \in Nat : Lined(RowsOf(files), 0, n)

\* While the writer lives every row is on its way: n are in the files, those
\* up to h in its hand, up to l in the queue, and the rest a pool thread has.
LineInv ==
  writer # "dead" =>
    \E n, h, l \in Nat :
      /\ Lined(RowsOf(files), 0, n)
      /\ n <= h /\ hand = Run(n, h)
      /\ Lined(queue, h, l) /\ l <= received
      /\ putting \ {End} = IF l = received THEN {} ELSE {Run(l, received)}

\* Before it has ended the session puts no None, and it does nothing but wait
\* while a batch is put.
SessionInv ==
  /\ pc \in Session =>
       /\ exit = None /\ End \notin putting
       /\ \A i \in DOMAIN queue : queue[i] # End
       /\ hand = End => writer \in {"get", "dead"}
  /\ pc \in Session \ {"put"} => putting = {}

\* When the session has returned the None is the last that is put, queued,
\* and taken.
NoneInPool  == /\ putting = {End} /\ pc = "drain"
               /\ \A i \in DOMAIN queue : queue[i] # End
               /\ hand = End => writer = "get"
NoneInQueue == /\ putting = {} /\ queue # <<>>
               /\ \A i \in DOMAIN queue : queue[i] = End <=> i = Len(queue)
               /\ hand = End => writer = "get"
NoneTaken   == /\ putting = {} /\ queue = <<>>
               /\ hand = End /\ writer \in {"seal", "sidecar", "done"}
ReturnInv ==
  /\ exit = "returned" /\ pc # "gone" =>
       writer = "dead" \/ NoneInPool \/ NoneInQueue \/ NoneTaken
  /\ exit = "returned" /\ pc = "ended" => writer = "done"
  /\ writer \in {"get", "done"} => hand = End
  /\ error # None => writer = "dead"
  /\ writer = "dead" /\ pc # "gone" => error # None

Sealed(f) == f.sidecar = f.rows /\ f.synced = Len(f.rows)

\* Every file but the current one is closed and described.
ClosedInv ==
  /\ \A i \in DOMAIN files : i # Len(files) => Sealed(files[i])
  /\ writer \in {"open", "done"} => Sealed(Current)
-----------------------------------------------------------------------------
(* Runs and lined-up pieces.                                                *)

\* A run counts its rows.
LEMMA RunIs ==
  ASSUME NEW a \in Nat, NEW b \in Nat, a <= b
  PROVE  /\ Run(a, b) \in Seq(Nat) /\ Len(Run(a, b)) = b - a
         /\ DOMAIN Run(a, b) = 1..(b - a)
         /\ \A j \in 1..(b - a) : Run(a, b)[j] = a + j
         /\ Run(a, b) = <<>> <=> a = b
<1>1. Run(a, b) \in Seq(Nat) /\ Len(Run(a, b)) = b - a
  BY DEF Run
<1>2. QED BY <1>1 DEF Run

\* The empty run, which a None looks like.
LEMMA RunOfNone ==
  ASSUME NEW a \in Nat
  PROVE  Run(a, a) = <<>>
BY RunIs

\* Appending the next row makes the run one longer.
LEMMA RunAppend ==
  ASSUME NEW a \in Nat, NEW b \in Nat, a <= b
  PROVE  Append(Run(a, b), b + 1) = Run(a, b + 1)
<1>1. Len(Run(a, b)) = b - a /\ Run(a, b) \in Seq(Nat)
      /\ \A j \in 1..(b - a) : Run(a, b)[j] = a + j
  BY RunIs
<1>2. Len(Run(a, b + 1)) = b - a + 1 /\ Run(a, b + 1) \in Seq(Nat)
      /\ \A j \in 1..(b - a + 1) : Run(a, b + 1)[j] = a + j
  BY RunIs
<1>3. Append(Run(a, b), b + 1) \in Seq(Nat)
      /\ Len(Append(Run(a, b), b + 1)) = b - a + 1
  BY <1>1
<1>4. \A j \in 1..(b - a + 1) : Append(Run(a, b), b + 1)[j] = a + j
  <2>1. TAKE j \in 1..(b - a + 1)
  <2>2. CASE j = b - a + 1
    <3>1. Append(Run(a, b), b + 1)[Len(Run(a, b)) + 1] = b + 1
      BY <1>1, AppendProperties
    <3>2. j = Len(Run(a, b)) + 1 /\ a + j = b + 1
      BY <1>1, <2>2
    <3>3. QED BY <3>1, <3>2
  <2>3. CASE j # b - a + 1
    <3>1. j \in 1..(b - a) /\ j \in 1..Len(Run(a, b))
      BY <1>1, <2>3
    <3>2. Append(Run(a, b), b + 1)[j] = Run(a, b)[j]
      BY <1>1, <3>1
    <3>3. QED BY <1>1, <3>1, <3>2
  <2>4. QED BY <2>2, <2>3
<1> DEFINE s == Append(Run(a, b), b + 1)
           t == Run(a, b + 1)
<1>5. s \in Seq(Nat) /\ t \in Seq(Nat) /\ Len(s) = Len(t)
      /\ \A j \in 1..Len(s) : s[j] = t[j]
  BY <1>2, <1>3, <1>4
<1> HIDE DEF s, t
<1>6. s = t
  BY <1>5
<1>7. QED BY <1>6 DEF s, t

\* Taking the first row off.
LEMMA RunTail ==
  ASSUME NEW a \in Nat, NEW b \in Nat, a < b
  PROVE  /\ Head(Run(a, b)) = a + 1
         /\ Tail(Run(a, b)) = Run(a + 1, b)
<1>1. Len(Run(a, b)) = b - a /\ Run(a, b) \in Seq(Nat)
      /\ \A j \in 1..(b - a) : Run(a, b)[j] = a + j
  BY RunIs
<1>2. Len(Run(a + 1, b)) = b - a - 1 /\ Run(a + 1, b) \in Seq(Nat)
      /\ \A j \in 1..(b - a - 1) : Run(a + 1, b)[j] = a + 1 + j
  BY RunIs
<1> DEFINE s == Tail(Run(a, b))
           t == Run(a + 1, b)
<1>3. s \in Seq(Nat) /\ Len(s) = b - a - 1
      /\ \A j \in 1..(b - a - 1) : s[j] = Run(a, b)[j + 1]
  BY <1>1
<1>4. \A j \in 1..(b - a - 1) : s[j] = a + 1 + j
  BY <1>1, <1>3
<1>5. s \in Seq(Nat) /\ t \in Seq(Nat) /\ Len(s) = Len(t)
      /\ \A j \in 1..Len(s) : s[j] = t[j]
  BY <1>2, <1>3, <1>4
<1> HIDE DEF s, t
<1>6. s = t
  BY <1>5
<1>7. Head(Run(a, b)) = a + 1
  BY <1>1
<1>8. QED BY <1>6, <1>7 DEF s, t

\* Cutting the end off leaves a run.
LEMMA RunCut ==
  ASSUME NEW a \in Nat, NEW b \in Nat, a <= b, NEW k \in Nat, k <= b - a
  PROVE  SubSeq(Run(a, b), 1, k) = Run(a, a + k)
<1>1. Len(Run(a, b)) = b - a /\ Run(a, b) \in Seq(Nat)
      /\ \A j \in 1..(b - a) : Run(a, b)[j] = a + j
  BY RunIs
<1>2. Len(Run(a, a + k)) = k /\ Run(a, a + k) \in Seq(Nat)
      /\ \A j \in 1..k : Run(a, a + k)[j] = a + j
  <2>1. a + k \in Nat /\ a <= a + k /\ (a + k) - a = k
    OBVIOUS
  <2>2. Len(Run(a, a + k)) = (a + k) - a /\ Run(a, a + k) \in Seq(Nat)
        /\ \A j \in 1..((a + k) - a) : Run(a, a + k)[j] = a + j
    BY <2>1, RunIs
  <2>3. QED BY <2>1, <2>2
<1> DEFINE s == SubSeq(Run(a, b), 1, k)
           t == Run(a, a + k)
<1>3. s \in Seq(Nat) /\ Len(s) = k /\ \A j \in 1..k : s[j] = Run(a, b)[j]
  BY <1>1
<1>4. \A j \in 1..k : s[j] = a + j
  BY <1>1, <1>3
<1>5. s \in Seq(Nat) /\ t \in Seq(Nat) /\ Len(s) = Len(t)
      /\ \A j \in 1..Len(s) : s[j] = t[j]
  BY <1>2, <1>3, <1>4
<1> HIDE DEF s, t
<1>6. s = t
  BY <1>5
<1>7. QED BY <1>6 DEF s, t

\* One run after the other is a run.
LEMMA RunConcat ==
  ASSUME NEW a \in Nat, NEW b \in Nat, NEW c \in Nat, a <= b, b <= c
  PROVE  Run(a, b) \o Run(b, c) = Run(a, c)
<1>1. Len(Run(a, b)) = b - a /\ Run(a, b) \in Seq(Nat)
      /\ \A j \in 1..(b - a) : Run(a, b)[j] = a + j
  BY RunIs
<1>2. Len(Run(b, c)) = c - b /\ Run(b, c) \in Seq(Nat)
      /\ \A j \in 1..(c - b) : Run(b, c)[j] = b + j
  BY RunIs
<1>3. Len(Run(a, c)) = c - a /\ Run(a, c) \in Seq(Nat)
      /\ \A j \in 1..(c - a) : Run(a, c)[j] = a + j
  BY RunIs
<1> DEFINE s == Run(a, b) \o Run(b, c)
           t == Run(a, c)
<1>4. s \in Seq(Nat) /\ Len(s) = c - a
  <2>1. s \in Seq(Nat) /\ Len(s) = Len(Run(a, b)) + Len(Run(b, c))
    BY <1>1, <1>2, ConcatProperties
  <2>2. (b - a) + (c - b) = c - a
    OBVIOUS
  <2>3. QED BY <1>1, <1>2, <2>1, <2>2
<1>5. \A j \in 1..(c - a) : s[j] = a + j
  <2>1. TAKE j \in 1..(c - a)
  <2>2. CASE j <= b - a
    <3>1. s[j] = Run(a, b)[j]
      BY <1>1, <1>2, <2>2
    <3>2. QED BY <1>1, <2>2, <3>1
  <2>3. CASE ~(j <= b - a)
    <3>1. s[j] = Run(b, c)[j - (b - a)]
      BY <1>1, <1>2, <2>3
    <3>2. j - (b - a) \in 1..(c - b)
      BY <2>3
    <3>3. QED BY <1>2, <3>1, <3>2
  <2>4. QED BY <2>2, <2>3
<1>6. s \in Seq(Nat) /\ t \in Seq(Nat) /\ Len(s) = Len(t)
      /\ \A j \in 1..Len(s) : s[j] = t[j]
  BY <1>3, <1>4, <1>5
<1> HIDE DEF s, t
<1>7. s = t
  BY <1>6
<1>8. QED BY <1>7 DEF s, t

\* A cut of s, spelled out.
Cut(s, a, b, g) ==
  /\ g \in [0..Len(s) -> Nat]
  /\ g[0] = a /\ g[Len(s)] = b
  /\ \A i \in 1..Len(s) : g[i - 1] <= g[i] /\ s[i] = Run(g[i - 1], g[i])

\* Lined says that there is a cut.
LEMMA LinedIsCut ==
  ASSUME NEW s, NEW a, NEW b
  PROVE  Lined(s, a, b) <=> \E g : Cut(s, a, b, g)
BY DEF Lined, Cut

\* No piece holds no row.
LEMMA LinedEmpty ==
  ASSUME NEW a \in Nat, NEW b
  PROVE  Lined(<<>>, a, b) <=> a = b
<1>1. Len(<<>>) = 0
  OBVIOUS
<1>2. ASSUME a = b PROVE Lined(<<>>, a, b)
  <2> DEFINE g == [i \in 0..0 |-> a]
  <2>1. g \in [0..Len(<<>>) -> Nat] /\ g[0] = a /\ g[Len(<<>>)] = b
    BY <1>1, <1>2
  <2>2. \A i \in 1..Len(<<>>) : g[i - 1] <= g[i] /\ <<>>[i] = Run(g[i - 1], g[i])
    BY <1>1
  <2>3. QED BY <2>1, <2>2 DEF Lined
<1>3. ASSUME Lined(<<>>, a, b) PROVE a = b
  BY <1>1, <1>3 DEF Lined
<1>4. QED BY <1>2, <1>3

\* A further run at the end.
LEMMA LinedAppend ==
  ASSUME NEW T, NEW s \in Seq(T), NEW a \in Nat, NEW b \in Nat, NEW c \in Nat,
         Lined(s, a, b), b <= c, Run(b, c) \in T
  PROVE  Lined(Append(s, Run(b, c)), a, c)
<1>1. PICK g : Cut(s, a, b, g)
  BY LinedIsCut
<1> DEFINE t == Append(s, Run(b, c))
           k == Len(s)
           h == [i \in 0..(k + 1) |-> IF i = k + 1 THEN c ELSE g[i]]
<1>2. /\ k \in Nat /\ Len(t) = k + 1 /\ t[k + 1] = Run(b, c)
      /\ \A i \in 1..k : t[i] = s[i]
  BY AppendProperties
<1>3. /\ g \in [0..k -> Nat] /\ g[0] = a /\ g[k] = b
      /\ \A i \in 1..k : g[i - 1] <= g[i] /\ s[i] = Run(g[i - 1], g[i])
  BY <1>1 DEF Cut
<1> HIDE DEF t, k
<1>4. h \in [0..(k + 1) -> Nat]
  BY <1>2, <1>3
<1>5. h[k + 1] = c /\ (\A i \in 0..k : h[i] = g[i])
  BY <1>2
<1> HIDE DEF h
<1>6. h[0] = a
  BY <1>2, <1>3, <1>5
<1>7. \A i \in 1..(k + 1) : h[i - 1] <= h[i] /\ t[i] = Run(h[i - 1], h[i])
  <2>1. TAKE i \in 1..(k + 1)
  <2>2. CASE i = k + 1
    <3>1. i - 1 = k /\ k \in 0..k
      BY <1>2, <2>2
    <3>2. h[i - 1] = b /\ h[i] = c
      BY <1>3, <1>5, <2>2, <3>1
    <3>3. QED BY <1>2, <2>2, <3>2
  <2>3. CASE i # k + 1
    <3>1. i \in 1..k /\ i \in 0..k /\ i - 1 \in 0..k
      BY <1>2, <2>3
    <3>2. h[i - 1] = g[i - 1] /\ h[i] = g[i] /\ t[i] = s[i]
      BY <1>2, <1>5, <3>1
    <3>3. QED BY <1>3, <3>1, <3>2
  <2>4. QED BY <2>2, <2>3
<1>8. Cut(t, a, c, h)
  BY <1>2, <1>4, <1>5, <1>6, <1>7 DEF Cut
<1>9. QED BY <1>8, LinedIsCut DEF t

\* Without its first piece.
LEMMA LinedTail ==
  ASSUME NEW T, NEW s \in Seq(T), NEW a \in Nat, NEW b \in Nat,
         Lined(s, a, b), s # <<>>
  PROVE  \E c \in Nat : a <= c /\ Head(s) = Run(a, c) /\ Lined(Tail(s), c, b)
<1>1. PICK g : Cut(s, a, b, g)
  BY LinedIsCut
<1> DEFINE t == Tail(s)
           k == Len(s)
           h == [i \in 0..(k - 1) |-> g[i + 1]]
<1>2. /\ k \in Nat /\ k >= 1 /\ Len(t) = k - 1 /\ Head(s) = s[1]
      /\ \A i \in 1..(k - 1) : t[i] = s[i + 1]
  <2>1. k \in Nat /\ k >= 1 /\ Head(s) = s[1]
    OBVIOUS
  <2>2. QED BY <2>1, HeadTailProperties
<1>3. /\ g \in [0..k -> Nat] /\ g[0] = a /\ g[k] = b
      /\ \A i \in 1..k : g[i - 1] <= g[i] /\ s[i] = Run(g[i - 1], g[i])
  BY <1>1 DEF Cut
<1> HIDE DEF t, k
<1>4. h \in [0..(k - 1) -> Nat]
  <2>1. \A i \in 0..(k - 1) : i + 1 \in 0..k
    BY <1>2
  <2>2. QED BY <1>3, <2>1
<1>5. \A i \in 0..(k - 1) : h[i] = g[i + 1]
  OBVIOUS
<1> HIDE DEF h
<1>6. h[k - 1] = b /\ h[0] = g[1]
  <2>1. k - 1 \in 0..(k - 1) /\ 0 \in 0..(k - 1) /\ (k - 1) + 1 = k /\ 0 + 1 = 1
    BY <1>2
  <2>2. h[k - 1] = g[(k - 1) + 1] /\ h[0] = g[0 + 1]
    BY <1>5, <2>1
  <2>3. QED BY <1>3, <2>1, <2>2
<1>7. \A i \in 1..(k - 1) : h[i - 1] <= h[i] /\ t[i] = Run(h[i - 1], h[i])
  <2>1. TAKE i \in 1..(k - 1)
  <2>2. i + 1 \in 1..k /\ i \in 0..(k - 1) /\ i - 1 \in 0..(k - 1)
        /\ (i - 1) + 1 = i /\ (i + 1) - 1 = i
    BY <1>2
  <2>3. h[i - 1] = g[i] /\ h[i] = g[i + 1]
    BY <1>5, <2>2
  <2>4. g[i] <= g[i + 1] /\ s[i + 1] = Run(g[i], g[i + 1])
    BY <1>3, <2>2
  <2>5. QED BY <1>2, <2>3, <2>4
<1>8. Cut(t, g[1], b, h)
  BY <1>2, <1>4, <1>6, <1>7 DEF Cut
<1>9. g[1] \in Nat /\ a <= g[1] /\ s[1] = Run(a, g[1])
  <2>1. 1 \in 1..k /\ 1 \in 0..k /\ 1 - 1 = 0
    BY <1>2
  <2>2. g[1 - 1] <= g[1] /\ s[1] = Run(g[1 - 1], g[1])
    BY <1>3, <2>1
  <2>3. QED BY <1>3, <2>1, <2>2
<1>10. Lined(t, g[1], b)
  BY <1>8, LinedIsCut
<1>11. QED BY <1>2, <1>9, <1>10 DEF t

\* A longer or shorter last piece.
LEMMA LinedLast ==
  ASSUME NEW T, NEW s \in Seq(T), NEW a \in Nat, NEW b \in Nat,
         Lined(s, a, b), s # <<>>
  PROVE  \E c \in Nat :
           /\ c <= b /\ s[Len(s)] = Run(c, b)
           /\ \A d \in Nat, t \in Seq(T) :
                /\ c <= d /\ Len(t) = Len(s) /\ t[Len(s)] = Run(c, d)
                /\ \A i \in 1..Len(s) : i # Len(s) => t[i] = s[i]
                => Lined(t, a, d)
<1>1. PICK g : Cut(s, a, b, g)
  BY LinedIsCut
<1> DEFINE k == Len(s)
           c == g[k - 1]
<1>2. k \in Nat /\ k >= 1
  OBVIOUS
<1>3. /\ g \in [0..k -> Nat] /\ g[0] = a /\ g[k] = b
      /\ \A i \in 1..k : g[i - 1] <= g[i] /\ s[i] = Run(g[i - 1], g[i])
  BY <1>1 DEF Cut
<1>4. c \in Nat /\ c <= b /\ s[k] = Run(c, b)
  <2>1. k \in 1..k /\ k - 1 \in 0..k
    BY <1>2
  <2>2. QED BY <1>3, <2>1
<1>5. ASSUME NEW d \in Nat, NEW t \in Seq(T),
             c <= d, Len(t) = k, t[k] = Run(c, d),
             \A i \in 1..k : i # k => t[i] = s[i]
      PROVE  Lined(t, a, d)
  <2> DEFINE h == [i \in 0..k |-> IF i = k THEN d ELSE g[i]]
  <2> HIDE DEF k
  <2>1. h \in [0..k -> Nat] /\ h[k] = d
    BY <1>2, <1>3
  <2>2. \A i \in 0..k : i # k => h[i] = g[i]
    OBVIOUS
  <2> HIDE DEF h
  <2>3. h[0] = a
    <3>1. 0 \in 0..k /\ 0 # k
      BY <1>2
    <3>2. QED BY <1>3, <2>2, <3>1
  <2>4. \A i \in 1..k : h[i - 1] <= h[i] /\ t[i] = Run(h[i - 1], h[i])
    <3>1. TAKE i \in 1..k
    <3>2. i \in 0..k /\ i - 1 \in 0..k /\ i - 1 # k
      BY <1>2
    <3>3. h[i - 1] = g[i - 1]
      BY <2>2, <3>2
    <3>4. CASE i = k
      BY <1>5, <2>1, <3>3, <3>4
    <3>5. CASE i # k
      <4>1. h[i] = g[i] /\ t[i] = s[i]
        BY <1>5, <2>2, <3>2, <3>5
      <4>2. QED BY <1>3, <3>3, <4>1
    <3>6. QED BY <3>4, <3>5
  <2>5. Cut(t, a, d, h)
    BY <1>5, <2>1, <2>3, <2>4 DEF Cut
  <2>6. QED BY <2>5, LinedIsCut
<1> HIDE DEF c
<1>6. QED BY <1>4, <1>5

-----------------------------------------------------------------------------
(* FlattenSeq of lined-up pieces.                                           *)

\* A set of subsets of a finite set has a smallest one: the induction below.
LEMMA SmallestSubset ==
  ASSUME NEW S, IsFiniteSet(S), NEW B \in SUBSET SUBSET S, B # {}
  PROVE  \E m \in B : \A t \in B : t \subseteq m => t = m
<1>1. IsWellFoundedOn(StrictSubsetOrdering(S), FiniteSubsetsOf(S))
  BY FS_StrictSubsetOrderingWellFounded
<1>2. B \subseteq FiniteSubsetsOf(S)
  BY FS_Subset DEF FiniteSubsetsOf
<1>3. \E m \in B : \A t \in B : ~ (<<t, m>> \in StrictSubsetOrdering(S))
  BY <1>1, <1>2, WFMin
<1>4. QED BY <1>3 DEF StrictSubsetOrdering

(* FlattenSeq is computed with a function that satisfies FlatRec, and only  *)
(* one does.                                                                *)
FlatRec(s, f) ==
  f = [i \in 1..Len(s) |-> IF i = 1 THEN s[i] ELSE f[i - 1] \o s[i]]
Flat(s) == CHOOSE f : FlatRec(s, f)

\* That function, at the last index.
LEMMA FlattenIs ==
  ASSUME NEW s, Len(s) # 0
  PROVE  FlattenSeq(s) = Flat(s)[Len(s)]
BY DEF FlattenSeq, Flat, FlatRec

\* One step of the recursion.
LEMMA FlatRecAt ==
  ASSUME NEW s, NEW f, FlatRec(s, f), NEW i \in 1..Len(s)
  PROVE  f[i] = IF i = 1 THEN s[i] ELSE f[i - 1] \o s[i]
<1>1. f = [j \in 1..Len(s) |-> IF j = 1 THEN s[j] ELSE f[j - 1] \o s[j]]
  BY DEF FlatRec
<1>2. QED BY <1>1

\* Two functions that satisfy it agree: take the first index where they differ.
LEMMA FlatRecUnique ==
  ASSUME NEW s, Len(s) \in Nat, NEW f, NEW h, FlatRec(s, f), FlatRec(s, h),
         NEW k \in 1..Len(s)
  PROVE  f[k] = h[k]
<1> DEFINE L == Len(s)
           B == {t \in SUBSET (1..L) : \E i \in 1..L : t = 1..i /\ f[i] # h[i]}
<1> SUFFICES ASSUME f[k] # h[k] PROVE FALSE
  OBVIOUS
<1>1. B \in SUBSET SUBSET (1..L)
  OBVIOUS
<1>2. IsFiniteSet(1..L)
  BY FS_Interval
<1>3. B # {}
  <2>1. 1..k \in SUBSET (1..L)
    OBVIOUS
  <2>2. 1..k \in B
    BY <2>1
  <2>3. QED BY <2>2
<1>4. PICK m \in B : \A t \in B : t \subseteq m => t = m
  <2> DEFINE S == 1..L
  <2>1. B \in SUBSET SUBSET S /\ IsFiniteSet(S)
    BY <1>1, <1>2
  <2> HIDE DEF B, S
  <2>2. QED BY <1>3, <2>1, SmallestSubset
<1>5. PICK i \in 1..L : m = 1..i /\ f[i] # h[i]
  BY <1>4
<1>6. i # 1
  <2>1. f[i] = (IF i = 1 THEN s[i] ELSE f[i - 1] \o s[i])
        /\ h[i] = (IF i = 1 THEN s[i] ELSE h[i - 1] \o s[i])
    BY FlatRecAt
  <2>2. QED BY <1>5, <2>1
<1>7. i - 1 \in 1..L /\ 1..(i - 1) \subseteq m /\ 1..(i - 1) # m
  BY <1>5, <1>6
<1>8. 1..(i - 1) \notin B
  <2> HIDE DEF B
  <2>1. QED BY <1>4, <1>7
<1>9. f[i - 1] = h[i - 1]
  BY <1>7, <1>8
<1>10. f[i] = h[i]
  <2>1. f[i] = f[i - 1] \o s[i] /\ h[i] = h[i - 1] \o s[i]
    BY <1>6, FlatRecAt
  <2>2. QED BY <1>9, <2>1
<1>11. QED BY <1>5, <1>10

\* Rows that are lined up from the first flatten to the run of them all.
LEMMA LinedFlatten ==
  ASSUME NEW T, NEW s \in Seq(T), s # <<>>, NEW n \in Nat, Lined(s, 0, n)
  PROVE  FlattenSeq(s) = Run(0, n)
<1>1. PICK g : Cut(s, 0, n, g)
  BY LinedIsCut
<1> DEFINE k == Len(s)
           f == [i \in 1..k |-> Run(0, g[i])]
<1>2. k \in Nat /\ k >= 1
  OBVIOUS
<1>3. /\ g \in [0..k -> Nat] /\ g[0] = 0 /\ g[k] = n
      /\ \A i \in 1..k : g[i - 1] <= g[i] /\ s[i] = Run(g[i - 1], g[i])
  BY <1>1 DEF Cut
<1>4. \A i \in 1..k : f[i] = IF i = 1 THEN s[i] ELSE f[i - 1] \o s[i]
  <2>1. TAKE i \in 1..k
  <2>2. i \in 0..k /\ i - 1 \in 0..k /\ g[i] \in Nat /\ g[i - 1] \in Nat
        /\ g[i - 1] <= g[i] /\ s[i] = Run(g[i - 1], g[i])
    <3> HIDE DEF k, f
    <3>1. i \in 0..k /\ i - 1 \in 0..k
      BY <1>2
    <3>2. g[i] \in Nat /\ g[i - 1] \in Nat
      BY <1>3, <3>1
    <3>3. g[i - 1] <= g[i] /\ s[i] = Run(g[i - 1], g[i])
      BY <1>3
    <3>4. QED BY <3>1, <3>2, <3>3
  <2>3. CASE i = 1
    BY <1>3, <2>2, <2>3
  <2>4. CASE i # 1
    <3>1. i - 1 \in 1..k
      BY <1>2, <2>4
    <3>2. f[i] = Run(0, g[i]) /\ f[i - 1] = Run(0, g[i - 1])
      BY <3>1
    <3>3. Run(0, g[i - 1]) \o Run(g[i - 1], g[i]) = Run(0, g[i])
      <4>1. 0 \in Nat /\ 0 <= g[i - 1]
        BY <2>2
      <4>2. QED BY <2>2, <4>1, RunConcat
    <3>4. QED BY <2>2, <2>4, <3>2, <3>3
  <2>5. QED BY <2>3, <2>4
<1> DEFINE e == [i \in 1..k |-> IF i = 1 THEN s[i] ELSE f[i - 1] \o s[i]]
<1>5. f = e
  <2>1. \A i \in 1..k : f[i] = e[i]
    <3>1. \A i \in 1..k : e[i] = IF i = 1 THEN s[i] ELSE f[i - 1] \o s[i]
      OBVIOUS
    <3> HIDE DEF f, e
    <3>2. QED BY <1>4, <3>1
  <2>2. f = [i \in 1..k |-> f[i]] /\ e = [i \in 1..k |-> e[i]]
    OBVIOUS
  <2> HIDE DEF f, e
  <2>3. [i \in 1..k |-> f[i]] = [i \in 1..k |-> e[i]]
    BY <2>1
  <2>4. QED BY <2>2, <2>3
<1>6. FlatRec(s, f)
  BY <1>5 DEF FlatRec
<1>7. FlatRec(s, Flat(s))
  BY <1>6 DEF Flat
<1>8. Flat(s)[k] = f[k]
  <2> HIDE DEF f
  <2>1. k \in 1..Len(s) /\ Len(s) \in Nat
    BY <1>2
  <2>2. QED BY <1>6, <1>7, <2>1, FlatRecUnique
<1>9. f[k] = Run(0, n)
  BY <1>2, <1>3
<1>10. Len(s) # 0
  BY <1>2
<1>11. QED BY <1>8, <1>9, <1>10, FlattenIs

-----------------------------------------------------------------------------
(* What a step does to the rows of the files.                               *)

FilesTyped == files \in Seq(Files) \ {<<>>}

\* The types of the files, taken apart.
LEMMA FilesAre ==
  ASSUME FilesTyped
  PROVE  /\ Len(files) \in Nat /\ Len(files) >= 1 /\ DOMAIN files = 1..Len(files)
         /\ Current = files[Len(files)] /\ Current \in Files
         /\ Current.rows \in Seq(Rows)
         /\ \A i \in 1..Len(files) : files[i] \in Files /\ files[i].rows \in Seq(Rows)
<1>1. /\ Len(files) \in Nat /\ Len(files) >= 1 /\ DOMAIN files = 1..Len(files)
      /\ Current = files[Len(files)]
  BY DEF FilesTyped, Current
<1>2. \A i \in 1..Len(files) : files[i] \in Files
  BY DEF FilesTyped
<1>3. \A i \in 1..Len(files) : files[i].rows \in Seq(Rows)
  BY <1>2 DEF Files
<1>4. QED BY <1>1, <1>2, <1>3

\* The rows of the files, file by file.
LEMMA RowsOfIs ==
  ASSUME NEW fs \in Seq(Files)
  PROVE  /\ RowsOf(fs) \in Seq(Seq(Rows)) /\ Len(RowsOf(fs)) = Len(fs)
         /\ \A i \in 1..Len(fs) : RowsOf(fs)[i] = fs[i].rows
         /\ fs # <<>> => RowsOf(fs) # <<>>
<1>1. DOMAIN fs = 1..Len(fs) /\ Len(fs) \in Nat
  OBVIOUS
<1>2. \A i \in 1..Len(fs) : fs[i].rows \in Seq(Rows)
  <2>1. \A i \in 1..Len(fs) : fs[i] \in Files
    OBVIOUS
  <2>2. QED BY <2>1 DEF Files
<1>3. RowsOf(fs) \in Seq(Seq(Rows)) /\ Len(RowsOf(fs)) = Len(fs)
  BY <1>1, <1>2 DEF RowsOf
<1>4. \A i \in 1..Len(fs) : RowsOf(fs)[i] = fs[i].rows
  BY <1>1 DEF RowsOf
<1>5. fs # <<>> => Len(fs) # 0
  OBVIOUS
<1>6. QED BY <1>3, <1>4, <1>5

\* The same rows in every file line up the same.
LEMMA SameRows ==
  ASSUME NEW fs \in Seq(Files), NEW hs \in Seq(Files), Len(hs) = Len(fs),
         \A i \in 1..Len(fs) : hs[i].rows = fs[i].rows
  PROVE  RowsOf(hs) = RowsOf(fs)
<1>1. DOMAIN fs = 1..Len(fs) /\ DOMAIN hs = 1..Len(fs)
  OBVIOUS
<1>2. QED BY <1>1 DEF RowsOf

\* A step that leaves the rows of the current file alone.
LEMMA CurrentKeepsRows ==
  ASSUME FilesTyped, NEW file \in Files, SetCurrent(file), file.rows = Current.rows
  PROVE  RowsOf(files)' = RowsOf(files)
<1>1. /\ files' \in Seq(Files) /\ Len(files') = Len(files)
      /\ \A i \in 1..Len(files) : files'[i].rows = files[i].rows
  <2>1. Len(files) \in Nat /\ Len(files) >= 1 /\ Current = files[Len(files)]
    BY FilesAre
  <2>2. files' = [files EXCEPT ![Len(files)] = file] /\ files \in Seq(Files)
    BY DEF SetCurrent, FilesTyped
  <2>3. files' \in Seq(Files) /\ Len(files') = Len(files)
    BY <2>1, <2>2
  <2>4. \A i \in 1..Len(files) : files'[i] = IF i = Len(files) THEN file ELSE files[i]
    BY <2>1, <2>2
  <2>5. QED BY <2>1, <2>3, <2>4
<1>2. files \in Seq(Files)
  BY DEF FilesTyped
<1>3. QED BY <1>1, <1>2, SameRows

\* The next row goes behind the n rows that are in the files.
LEMMA CurrentTakesRow ==
  ASSUME FilesTyped, NEW n \in Nat, Lined(RowsOf(files), 0, n),
         NEW file \in Files, SetCurrent(file), file.rows = Append(Current.rows, n + 1)
  PROVE  Lined(RowsOf(files)', 0, n + 1)
<1> DEFINE s == RowsOf(files)
           t == RowsOf(files')
           k == Len(files)
<1>1. k \in Nat /\ k >= 1 /\ Current = files[k]
  BY FilesAre
<1>2. files' = [files EXCEPT ![k] = file] /\ files \in Seq(Files) /\ files # <<>>
  BY DEF SetCurrent, FilesTyped
<1>3. files' \in Seq(Files) /\ Len(files') = k
      /\ \A i \in 1..k : files'[i] = IF i = k THEN file ELSE files[i]
  BY <1>1, <1>2
<1>4. s \in Seq(Seq(Rows)) /\ Len(s) = k /\ s # <<>>
      /\ \A i \in 1..k : s[i] = files[i].rows
  BY <1>2, RowsOfIs
<1>5. t \in Seq(Seq(Rows)) /\ Len(t) = k
      /\ \A i \in 1..k : t[i] = files'[i].rows
  BY <1>3, RowsOfIs
<1>6. PICK c \in Nat :
        /\ c <= n /\ s[Len(s)] = Run(c, n)
        /\ \A d \in Nat, u \in Seq(Seq(Rows)) :
             /\ c <= d /\ Len(u) = Len(s) /\ u[Len(s)] = Run(c, d)
             /\ \A i \in 1..Len(s) : i # Len(s) => u[i] = s[i]
             => Lined(u, 0, d)
  <2>1. 0 \in Nat /\ Lined(s, 0, n)
    OBVIOUS
  <2> HIDE DEF s
  <2>2. QED BY <1>4, <2>1, LinedLast
<1>7. t[k] = Run(c, n + 1)
  <2>1. t[k] = Append(s[k], n + 1)
    BY <1>1, <1>3, <1>4, <1>5
  <2>2. s[k] = Run(c, n)
    BY <1>4, <1>6
  <2>3. QED BY <1>6, <2>1, <2>2, RunAppend
<1>8. \A i \in 1..k : i # k => t[i] = s[i]
  BY <1>3, <1>4, <1>5
<1>9. n + 1 \in Nat /\ c <= n + 1
  BY <1>6
<1> HIDE DEF s, t, k
<1>10. Lined(t, 0, n + 1)
  BY <1>4, <1>5, <1>6, <1>7, <1>8, <1>9
<1>11. QED BY <1>10 DEF t

\* A shorter last file leaves the first rows, fewer of them.
LEMMA CurrentIsCut ==
  ASSUME FilesTyped, FileInv, NEW m \in Nat, m <= Len(Current.rows),
         NEW file \in Files, SetCurrent(file), file.rows = SubSeq(Current.rows, 1, m)
  PROVE  FileInv'
<1> DEFINE s == RowsOf(files)
           t == RowsOf(files')
           k == Len(files)
<1>0. PICK n \in Nat : Lined(s, 0, n)
  BY DEF FileInv
<1>1. k \in Nat /\ k >= 1 /\ Current = files[k]
  BY FilesAre
<1>2. files' = [files EXCEPT ![k] = file] /\ files \in Seq(Files) /\ files # <<>>
  BY DEF SetCurrent, FilesTyped
<1>3. files' \in Seq(Files) /\ Len(files') = k
      /\ \A i \in 1..k : files'[i] = IF i = k THEN file ELSE files[i]
  BY <1>1, <1>2
<1>4. s \in Seq(Seq(Rows)) /\ Len(s) = k /\ s # <<>>
      /\ \A i \in 1..k : s[i] = files[i].rows
  BY <1>2, RowsOfIs
<1>5. t \in Seq(Seq(Rows)) /\ Len(t) = k
      /\ \A i \in 1..k : t[i] = files'[i].rows
  BY <1>3, RowsOfIs
<1>6. PICK c \in Nat :
        /\ c <= n /\ s[Len(s)] = Run(c, n)
        /\ \A d \in Nat, u \in Seq(Seq(Rows)) :
             /\ c <= d /\ Len(u) = Len(s) /\ u[Len(s)] = Run(c, d)
             /\ \A i \in 1..Len(s) : i # Len(s) => u[i] = s[i]
             => Lined(u, 0, d)
  <2>1. 0 \in Nat /\ Lined(s, 0, n)
    BY <1>0
  <2> HIDE DEF s
  <2>2. QED BY <1>0, <1>4, <2>1, LinedLast
<1>7. t[k] = Run(c, c + m)
  <2>1. t[k] = SubSeq(s[k], 1, m) /\ Len(s[k]) = Len(Current.rows)
    BY <1>1, <1>3, <1>4, <1>5
  <2>2. s[k] = Run(c, n)
    BY <1>4, <1>6
  <2>3. Len(Run(c, n)) = n - c
    BY <1>0, <1>6, RunIs
  <2>4. m <= n - c
    BY <2>1, <2>2, <2>3
  <2>5. SubSeq(Run(c, n), 1, m) = Run(c, c + m)
    BY <1>0, <1>6, <2>4, RunCut
  <2>6. QED BY <2>1, <2>2, <2>5
<1>8. \A i \in 1..k : i # k => t[i] = s[i]
  BY <1>3, <1>4, <1>5
<1>9. c + m \in Nat /\ c <= c + m
  BY <1>6
<1> HIDE DEF s, t, k
<1>10. Lined(t, 0, c + m)
  BY <1>4, <1>5, <1>6, <1>7, <1>8, <1>9
<1>11. QED BY <1>9, <1>10 DEF t, FileInv

\* A new file begins where the others end.
LEMMA NewFileLines ==
  ASSUME FilesTyped, NEW n \in Nat, Lined(RowsOf(files), 0, n),
         files' = Append(files, NewFile)
  PROVE  Lined(RowsOf(files)', 0, n)
<1> DEFINE s == RowsOf(files)
           t == RowsOf(files')
           k == Len(files)
<1>1. NewFile \in Files /\ NewFile.rows = <<>>
  BY DEF NewFile, Files
<1>2. files \in Seq(Files) /\ k \in Nat
  BY DEF FilesTyped
<1>3. files' \in Seq(Files) /\ Len(files') = k + 1
      /\ files'[k + 1] = NewFile /\ \A i \in 1..k : files'[i] = files[i]
  BY <1>1, <1>2, AppendProperties
<1>4. s \in Seq(Seq(Rows)) /\ Len(s) = k /\ \A i \in 1..k : s[i] = files[i].rows
  BY <1>2, RowsOfIs
<1>5. t \in Seq(Seq(Rows)) /\ Len(t) = k + 1
      /\ \A i \in 1..(k + 1) : t[i] = files'[i].rows
  BY <1>3, RowsOfIs
<1>6. Run(n, n) = <<>> /\ Run(n, n) \in Seq(Rows)
  <2>1. Run(n, n) = <<>>
    BY RunOfNone
  <2>2. <<>> \in Seq(Rows)
    OBVIOUS
  <2>3. QED BY <2>1, <2>2
<1>7. t = Append(s, Run(n, n))
  <2> DEFINE u == Append(s, Run(n, n))
  <2>1. u \in Seq(Seq(Rows)) /\ Len(u) = k + 1 /\ u[k + 1] = <<>>
        /\ \A i \in 1..k : u[i] = s[i]
    <3>1. /\ u \in Seq(Seq(Rows)) /\ Len(u) = Len(s) + 1
          /\ u[Len(s) + 1] = Run(n, n) /\ \A i \in 1..Len(s) : u[i] = s[i]
      <4> HIDE DEF s
      <4>1. QED BY <1>4, <1>6, AppendProperties
    <3>2. QED BY <1>4, <1>6, <3>1
  <2>2. \A i \in 1..(k + 1) : t[i] = u[i]
    <3>1. TAKE i \in 1..(k + 1)
    <3>2. CASE i = k + 1
      BY <1>1, <1>3, <1>5, <2>1, <3>2
    <3>3. CASE i # k + 1
      <4>1. i \in 1..k
        BY <1>2, <3>3
      <4>2. QED BY <1>3, <1>4, <1>5, <2>1, <4>1
    <3>4. QED BY <3>2, <3>3
  <2> HIDE DEF u, t, s, k
  <2>3. t = u
    BY <1>5, <2>1, <2>2, SeqEqual
  <2>4. QED BY <2>3 DEF u
<1>8. Lined(Append(s, Run(n, n)), 0, n)
  <2>1. Lined(s, 0, n) /\ 0 \in Nat /\ n <= n
    OBVIOUS
  <2> HIDE DEF s
  <2>2. QED BY <1>4, <1>6, <2>1, LinedAppend
<1>9. QED BY <1>7, <1>8

-----------------------------------------------------------------------------
(* The session, its None and its return.                                    *)

\* What the session does before it has ended.
LEMMA SessionStepKeeps ==
  ASSUME RInv, SessionInv, LoopStep
  PROVE  SessionInv'
<1> USE DEF Session, Connection
<1>1. ASSUME NEW how, EndSession(how) PROVE pc' = "drain"
  BY <1>1 DEF EndSession
<1>2. UNCHANGED <<queue, hand, writer>>
  BY DEF LoopStep, SessionStep, Connect, Subscribe, Frame, Resume, EmptyFrame, Disconnect,
         Leave, Retry, JournalFails, Drained, Joined, CloseTask, SocketCloses,
         Owner, Stop, Cancel, thread
<1>3. CASE Frame
  <2>1. PICK n \in 1..MaxBatch :
          putting' = putting \cup {[i \in 1..n |-> received + i]}
    BY <1>3 DEF Frame
  <2>2. [i \in 1..n |-> received + i] # End
    <3>1. n \in Nat /\ n >= 1
      BY RecorderAssumption
    <3>2. Len([i \in 1..n |-> received + i]) = n
      BY <3>1
    <3>3. QED BY <3>1, <3>2 DEF End
  <2>3. pc = "read" /\ pc' = "put" /\ exit' = exit
    BY <1>3 DEF Frame
  <2>4. End \notin putting'
    BY <2>1, <2>2, <2>3 DEF SessionInv
  <2>5. QED BY <1>2, <2>3, <2>4 DEF SessionInv
<1>4. CASE Connect \/ Subscribe \/ Resume \/ EmptyFrame \/ Disconnect
  <2>1. /\ pc \in Session /\ exit' = exit /\ putting' = putting
        /\ pc' = "put" => pc = "put"
        /\ pc = "put" => putting = {}
    BY <1>4 DEF Connect, Subscribe, Resume, EmptyFrame, Disconnect, session
  <2>2. QED BY <1>2, <2>1 DEF SessionInv
<1>5. CASE Leave \/ Retry \/ JournalFails
  <2>1. CASE pc' = "drain"
    BY <2>1 DEF SessionInv
  <2>2. CASE pc' # "drain"
    <3>1. /\ pc \in {"closing", "backoff"} /\ exit' = exit /\ putting' = putting
          /\ pc' \in Session \ {"put"}
      BY <1>1, <1>5, <2>2 DEF Leave, Retry, JournalFails
    <3>2. QED BY <1>2, <3>1 DEF SessionInv
  <2>3. QED BY <2>1, <2>2
<1>6. CASE Drained \/ Joined
  BY <1>6 DEF Drained, Joined, SessionInv
<1>7. CASE Stop \/ CloseTask \/ SocketCloses
  <2>1. UNCHANGED <<pc, exit, putting>>
    BY <1>7 DEF Stop, CloseTask, SocketCloses
  <2>2. QED BY <1>2, <2>1 DEF SessionInv
<1>8. CASE Cancel
  <2>1. CASE pc' \in {"drain", "ended"}
    BY <2>1 DEF SessionInv
  <2>2. CASE pc' \notin {"drain", "ended"}
    <3>1. UNCHANGED <<pc, exit, putting>>
      BY <1>1, <1>8, <2>2 DEF Cancel
    <3>2. QED BY <1>2, <3>1 DEF SessionInv
  <2>3. QED BY <2>1, <2>2
<1>9. QED
  BY <1>3, <1>4, <1>5, <1>6, <1>7, <1>8 DEF LoopStep, SessionStep, Owner

\* Facts of a queue of batches and Nones, for the steps that take or add one.
LEMMA TailIs ==
  ASSUME NEW T, NEW s \in Seq(T), s # <<>>
  PROVE  /\ Len(s) \in Nat /\ Len(s) >= 1 /\ Head(s) = s[1]
         /\ DOMAIN s = 1..Len(s) /\ DOMAIN Tail(s) = 1..(Len(s) - 1)
         /\ Len(Tail(s)) = Len(s) - 1
         /\ \A i \in 1..(Len(s) - 1) : Tail(s)[i] = s[i + 1]
         /\ Len(s) = 1 => Tail(s) = <<>>
         /\ Len(s) # 1 => Tail(s) # <<>>
<1>1. Len(s) \in Nat /\ Len(s) >= 1 /\ Head(s) = s[1] /\ DOMAIN s = 1..Len(s)
  OBVIOUS
<1>2. Tail(s) \in Seq(T) /\ Len(Tail(s)) = Len(s) - 1
      /\ \A i \in 1..(Len(s) - 1) : Tail(s)[i] = s[i + 1]
  BY <1>1, HeadTailProperties
<1>3. DOMAIN Tail(s) = 1..(Len(s) - 1)
  BY <1>2, LenProperties
<1>4. Tail(s) = <<>> <=> Len(Tail(s)) = 0
  BY <1>2
<1>5. QED BY <1>1, <1>2, <1>3, <1>4

\* The writer's steps, as far as the None is concerned.
WriterEffect ==
  \/ /\ writer = "get" /\ queue # <<>>
     /\ queue' = Tail(queue) /\ hand' = Head(queue)
     /\ writer' = IF hand' = End THEN "seal" ELSE "append"
     /\ error' = error
  \/ /\ queue' = queue /\ hand' = End /\ writer' = "dead" /\ error' \in {"raw", "sidecar"}
  \/ /\ queue' = queue /\ error' = error
     /\ \/ writer = "append" /\ hand # End /\ hand' = hand /\ writer' = "seal"
        \/ writer = "append" /\ hand # End /\ writer' = IF hand' = End THEN "get" ELSE "append"
        \/ writer = "seal" /\ hand' = hand /\ writer' = "sidecar"
        \/ writer = "sidecar" /\ hand' = hand
           /\ writer' = IF hand = End THEN "done" ELSE "open"
        \/ writer = "open" /\ hand # End /\ hand' = hand /\ writer' = "append"

\* Every step of the writer is one of these.
LEMMA WriterDoes ==
  ASSUME RInv, WriterStep
  PROVE  WriterEffect /\ UNCHANGED <<loop, putting>> /\ writer \notin {"done", "dead"}
<1>1. UNCHANGED <<loop, putting>> /\ writer \notin {"done", "dead"}
  BY DEF WriterStep, Get, Rotate, AppendRow, AppendFails, Seal, Sidecar, Open
<1>2. writer \in {"append", "open"} => hand # End
  BY DEF RInv, WriterInv
<1>3. CASE Get
  BY <1>3 DEF Get, WriterEffect
<1>4. CASE Rotate
  BY <1>2, <1>4 DEF Rotate, WriterEffect
<1>5. CASE AppendRow
  BY <1>2, <1>5 DEF AppendRow, WriterEffect, End
<1>6. CASE AppendFails
  BY <1>2, <1>6 DEF AppendFails, Die, WriterEffect, End
<1>7. CASE Seal
  BY <1>2, <1>7 DEF Seal, Die, WriterEffect, End
<1>8. CASE Sidecar
  BY <1>2, <1>8 DEF Sidecar, Die, WriterEffect, End
<1>9. CASE Open
  BY <1>2, <1>9 DEF Open, Die, WriterEffect, End
<1>10. QED BY <1>1, <1>3, <1>4, <1>5, <1>6, <1>7, <1>8, <1>9 DEF WriterStep

\* The writer leaves no None in the queue where there was none.
LEMMA WriterKeepsSession ==
  ASSUME RInv, SessionInv, WriterStep
  PROVE  SessionInv'
<1>1. WriterEffect /\ UNCHANGED <<pc, exit, putting>>
  BY WriterDoes DEF loop, session
<1>2. CASE pc \notin Session
  BY <1>1, <1>2 DEF SessionInv
<1>3. CASE pc \in Session
  <2>1. /\ \A i \in DOMAIN queue : queue[i] # End
        /\ hand = End => writer \in {"get", "dead"}
    BY <1>3 DEF SessionInv
  <2>2. queue \in Seq(Batches \cup {End})
    BY DEF RInv, QueueTypes
  <2>3. \A i \in DOMAIN queue' : queue'[i] # End
    <3>1. CASE queue # <<>> /\ queue' = Tail(queue)
      BY <2>1, <2>2, <3>1, TailIs
    <3>2. QED BY <1>1, <2>1, <3>1 DEF WriterEffect
  <2>4. hand' = End => writer' \in {"get", "dead"}
    <3>1. CASE queue # <<>> /\ hand' = Head(queue)
      BY <2>1, <2>2, <3>1, TailIs
    <3>2. QED BY <1>1, <2>1, <3>1 DEF WriterEffect
  <2>5. QED BY <1>1, <1>3, <2>3, <2>4 DEF SessionInv
<1>4. QED BY <1>2, <1>3

\* Before the session has ended what is put is a batch.
LEMMA PutKeepsSession ==
  ASSUME RInv, SessionInv, PutStep
  PROVE  SessionInv'
<1>1. PICK item \in putting : Put(item)
  BY DEF PutStep
<1>2. queue' = Append(queue, item) /\ UNCHANGED <<pc, exit, hand, writer>>
      /\ putting' = putting \ {item}
  BY <1>1 DEF Put, loop, session, thread
<1>3. queue \in Seq(Batches \cup {End}) /\ item \in Batches \cup {End}
  BY <1>1 DEF RInv, QueueTypes
<1>4. /\ DOMAIN queue' = 1..(Len(queue) + 1) /\ DOMAIN queue = 1..Len(queue)
      /\ \A i \in 1..Len(queue) : queue'[i] = queue[i]
      /\ queue'[Len(queue) + 1] = item /\ Len(queue) \in Nat
  BY <1>2, <1>3, AppendProperties, LenProperties
<1>5. QED BY <1>1, <1>2, <1>4 DEF SessionInv

-----------------------------------------------------------------------------
\* The session returns only from where nothing is being put, so that the None
\* comes last; it keeps that outcome only when the writer has done its work.
LEMMA LoopKeepsReturn ==
  ASSUME RInv, SessionInv, ReturnInv, LoopStep
  PROVE  ReturnInv'
<1> USE DEF Session, Connection
<1>0. None \notin {"raw", "sidecar", "returned", "failed", "cancelled"}
  BY RecorderAssumption
<1>2. UNCHANGED <<queue, hand, writer, error>>
  BY DEF LoopStep, SessionStep, Connect, Subscribe, Frame, Resume, EmptyFrame, Disconnect,
         Leave, Retry, JournalFails, Drained, Joined, CloseTask, SocketCloses,
         Owner, Stop, Cancel, thread
<1>3. (pc' = "gone" <=> pc = "gone")
  BY LoopKeepsTypes DEF RInv
<1>4. /\ error' # None => writer' = "dead"
      /\ writer' = "dead" /\ pc' # "gone" => error' # None
      /\ writer' \in {"get", "done"} => hand' = End
  BY <1>2, <1>3 DEF ReturnInv
<1>5. ASSUME exit' # "returned" PROVE ReturnInv'
  BY <1>4, <1>5 DEF ReturnInv
<1>6. CASE Leave \/ Retry
  <2>1. pc \in {"closing", "backoff"}
    BY <1>6 DEF Leave, Retry
  <2>2. CASE EndSession("returned")
    <3>1. putting' = {End} /\ pc' = "drain"
      BY <2>1, <2>2 DEF EndSession, SessionInv
    <3>2. /\ \A i \in DOMAIN queue : queue[i] # End
          /\ hand = End => writer \in {"get", "dead"}
      BY <2>1 DEF SessionInv
    <3>3. writer' = "dead" \/ NoneInPool'
      BY <1>2, <3>1, <3>2 DEF NoneInPool
    <3>4. QED BY <1>4, <3>1, <3>3 DEF ReturnInv
  <2>3. CASE ~EndSession("returned")
    <3>1. exit' = exit
      BY <1>6, <2>3 DEF Leave, Retry
    <3>2. exit' # "returned"
      BY <1>0, <2>1, <3>1 DEF SessionInv
    <3>3. QED BY <1>5, <3>2
  <2>4. QED BY <2>2, <2>3
<1>7. CASE JournalFails \/ Cancel
  <2>1. exit' \in {"failed", "cancelled"} \/ (pc = "closing" /\ exit' = exit)
    BY <1>7 DEF JournalFails, Cancel, EndSession
  <2>2. exit' # "returned"
    BY <1>0, <2>1 DEF SessionInv
  <2>3. QED BY <1>5, <2>2
<1>8. CASE Connect \/ Subscribe \/ Frame \/ Resume \/ EmptyFrame \/ Disconnect
  <2>1. pc \in Session /\ exit' = exit
    BY <1>8 DEF Connect, Subscribe, Frame, Resume, EmptyFrame, Disconnect, session
  <2>2. exit' # "returned"
    BY <1>0, <2>1 DEF SessionInv
  <2>3. QED BY <1>5, <2>2
<1>9. CASE Drained
  <2>1. /\ pc = "drain" /\ pc' = "join" /\ End \notin putting
        /\ UNCHANGED <<exit, putting>>
    BY <1>9 DEF Drained, session
  <2>2. CASE exit = "returned"
    <3>1. writer = "dead" \/ NoneInQueue \/ NoneTaken
      BY <2>1, <2>2 DEF ReturnInv, NoneInPool
    <3>2. writer' = "dead" \/ NoneInQueue' \/ NoneTaken'
      BY <1>2, <2>1, <3>1 DEF NoneInQueue, NoneTaken
    <3>3. QED BY <1>4, <2>1, <3>2 DEF ReturnInv
  <2>3. QED BY <1>5, <2>1, <2>2
<1>10. CASE Joined
  <2>1. /\ pc = "join" /\ pc' = "ended" /\ writer \in {"done", "dead"}
        /\ exit' = IF error = None THEN exit ELSE "failed"
        /\ putting' = putting
    BY <1>10 DEF Joined
  <2>2. CASE exit' = "returned"
    <3>1. exit = "returned" /\ error = None
      BY <2>1, <2>2
    <3>2. writer = "done"
      BY <2>1, <3>1 DEF ReturnInv
    <3>3. NoneTaken
      BY <2>1, <3>1, <3>2 DEF ReturnInv, NoneInPool, NoneInQueue
    <3>4. NoneTaken' /\ writer' = "done"
      BY <1>2, <2>1, <3>2, <3>3 DEF NoneTaken
    <3>5. QED BY <1>4, <3>4 DEF ReturnInv
  <2>3. QED BY <1>5, <2>2
<1>11. CASE Stop \/ CloseTask \/ SocketCloses
  <2>1. UNCHANGED <<pc, exit, putting>>
    BY <1>11 DEF Stop, CloseTask, SocketCloses
  <2>2. QED BY <1>2, <2>1 DEF ReturnInv, NoneInPool, NoneInQueue, NoneTaken
<1>12. QED
  BY <1>6, <1>7, <1>8, <1>9, <1>10, <1>11 DEF LoopStep, SessionStep, Owner

\* The writer takes the None last, or dies of an error.
LEMMA WriterKeepsReturn ==
  ASSUME RInv, ReturnInv, WriterStep
  PROVE  ReturnInv'
<1>0. None \notin {"raw", "sidecar", "returned", "failed", "cancelled"}
  BY RecorderAssumption
<1>1. WriterEffect /\ UNCHANGED <<pc, exit, putting>> /\ writer \notin {"done", "dead"}
  BY WriterDoes DEF loop, session
<1>2. pc # "gone" /\ error = None
  BY <1>1 DEF RInv, WriterInv, ReturnInv
<1>3. /\ error' # None => writer' = "dead"
      /\ writer' = "dead" /\ pc' # "gone" => error' # None
      /\ writer' \in {"get", "done"} => hand' = End
  BY <1>0, <1>1, <1>2 DEF WriterEffect
<1>4. CASE exit # "returned"
  BY <1>1, <1>3, <1>4 DEF ReturnInv
<1>5. CASE exit = "returned"
  <2>0. queue \in Seq(Batches \cup {End})
    BY DEF RInv, QueueTypes
  <2>1. NoneInPool \/ NoneInQueue \/ NoneTaken
    BY <1>1, <1>2, <1>5 DEF ReturnInv
  <2>2. pc # "ended"
    BY <1>1, <1>5 DEF ReturnInv
  <2>3. ASSUME NoneInPool PROVE writer' = "dead" \/ NoneInPool'
    <3>1. CASE queue # <<>> /\ queue' = Tail(queue) /\ hand' = Head(queue)
      <4>1. hand' # End /\ \A i \in DOMAIN queue' : queue'[i] # End
        BY <2>0, <2>3, <3>1, TailIs DEF NoneInPool
      <4>2. QED BY <1>1, <2>3, <4>1 DEF NoneInPool
    <3>2. QED BY <1>1, <2>3, <3>1 DEF WriterEffect, NoneInPool
  <2>4. ASSUME NoneInQueue PROVE writer' = "dead" \/ NoneInQueue' \/ NoneTaken'
    <3>1. CASE /\ queue # <<>> /\ queue' = Tail(queue) /\ hand' = Head(queue)
               /\ writer' = IF hand' = End THEN "seal" ELSE "append"
      <4>1. CASE Len(queue) = 1
        <5>1. queue' = <<>> /\ hand' = End
          BY <2>0, <2>4, <3>1, <4>1, TailIs DEF NoneInQueue
        <5>2. QED BY <1>1, <2>4, <3>1, <5>1 DEF NoneInQueue, NoneTaken
      <4>2. CASE Len(queue) # 1
        <5>1. queue' # <<>> /\ hand' # End
          BY <2>0, <2>4, <3>1, <4>2, TailIs DEF NoneInQueue
        <5>2. \A i \in DOMAIN queue' : queue'[i] = End <=> i = Len(queue')
          BY <2>0, <2>4, <3>1, TailIs DEF NoneInQueue
        <5>3. QED BY <1>1, <2>4, <5>1, <5>2 DEF NoneInQueue
      <4>3. QED BY <4>1, <4>2
    <3>2. QED BY <1>1, <2>4, <3>1 DEF WriterEffect, NoneInQueue
  <2>5. ASSUME NoneTaken PROVE writer' = "dead" \/ NoneTaken'
    BY <1>1, <2>5 DEF WriterEffect, NoneTaken
  <2>6. QED BY <1>1, <1>3, <2>1, <2>2, <2>3, <2>4, <2>5 DEF ReturnInv
<1>6. QED BY <1>4, <1>5

\* The None goes to the end of the queue.
LEMMA PutKeepsReturn ==
  ASSUME RInv, ReturnInv, PutStep
  PROVE  ReturnInv'
<1>1. PICK item \in putting : Put(item)
  BY DEF PutStep
<1>2. queue' = Append(queue, item) /\ UNCHANGED <<pc, exit, hand, writer, error>>
      /\ putting' = putting \ {item}
  BY <1>1 DEF Put, loop, session, thread
<1>3. queue \in Seq(Batches \cup {End}) /\ item \in Batches \cup {End}
  BY <1>1 DEF RInv, QueueTypes
<1>4. CASE exit = "returned" /\ pc # "gone" /\ writer # "dead"
  <2>1. NoneInPool
    BY <1>1, <1>4 DEF ReturnInv, NoneInQueue, NoneTaken
  <2>2. item = End /\ putting' = {}
    BY <1>1, <1>2, <2>1 DEF NoneInPool
  <2>3. /\ DOMAIN queue' = 1..(Len(queue) + 1) /\ DOMAIN queue = 1..Len(queue)
        /\ Len(queue') = Len(queue) + 1 /\ queue' # <<>>
        /\ \A i \in 1..Len(queue) : queue'[i] = queue[i]
        /\ queue'[Len(queue) + 1] = item /\ Len(queue) \in Nat
    BY <1>2, <1>3, AppendProperties, LenProperties
  <2>4. \A i \in DOMAIN queue' : queue'[i] = End <=> i = Len(queue')
    BY <2>1, <2>2, <2>3 DEF NoneInPool
  <2>5. NoneInQueue'
    BY <1>2, <2>1, <2>2, <2>3, <2>4 DEF NoneInPool, NoneInQueue
  <2>6. QED BY <1>2, <2>1, <2>5 DEF ReturnInv, NoneInPool
<1>5. QED BY <1>2, <1>4 DEF ReturnInv

-----------------------------------------------------------------------------
(* The files and the line, step by step.                                    *)

\* Setting the current file leaves the closed ones alone.
LEMMA SetCurrentKeepsClosed ==
  ASSUME FilesTyped, ClosedInv, NEW file \in Files, SetCurrent(file)
  PROVE  /\ Current' = file
         /\ \A i \in DOMAIN files' : i # Len(files') => Sealed(files'[i])
<1>1. Len(files) \in Nat /\ Len(files) >= 1 /\ files \in Seq(Files)
      /\ files' = [files EXCEPT ![Len(files)] = file]
  BY FilesAre DEF FilesTyped, SetCurrent
<1>2. Len(files') = Len(files) /\ DOMAIN files' = DOMAIN files /\ files'[Len(files)] = file
      /\ \A i \in DOMAIN files : i # Len(files) => files'[i] = files[i]
  BY <1>1
<1>3. QED BY <1>2 DEF Current, ClosedInv

\* The writer opens a file only when the one before it is closed and described.
LEMMA WriterKeepsClosed ==
  ASSUME RInv, ClosedInv, WriterStep
  PROVE  ClosedInv'
<1>0. FilesTyped /\ Current \in Files
      /\ Current.rows \in Seq(Rows)
  BY FilesAre DEF RInv, ThreadTypes, FilesTyped
<1>1. ASSUME UNCHANGED files, writer' \notin {"open", "done"}
      PROVE  ClosedInv'
  BY <1>1 DEF ClosedInv, Current
<1>2. ASSUME NEW file \in Files, SetCurrent(file), writer' \notin {"open", "done"}
      PROVE  ClosedInv'
  BY <1>0, <1>2, SetCurrentKeepsClosed DEF ClosedInv
<1>3. CASE Get \/ Rotate
  BY <1>1, <1>3 DEF Get, Rotate
<1>4. CASE AppendRow
  <2> DEFINE rows == Append(Current.rows, Head(hand))
             file == [Current EXCEPT !.rows = rows,
                        !.synced = IF Len(rows) % FsyncEvery = 0 THEN Len(rows) ELSE @]
  <2>1. SetCurrent(file) /\ writer' \notin {"open", "done"}
    BY <1>4 DEF AppendRow
  <2>2. file \in Files
    <3>1. hand \in Seq(Rows) /\ hand # <<>>
      BY <1>4 DEF AppendRow, RInv, WriterInv, ThreadTypes, Batches, End
    <3>2. Head(hand) \in Rows
      BY <3>1
    <3>3. rows \in Seq(Rows) /\ Len(rows) \in Nat
      BY <1>0, <3>2
    <3> HIDE DEF rows
    <3>4. QED BY <1>0, <3>3 DEF Files
  <2>3. QED BY <1>2, <2>1, <2>2
<1>5. CASE AppendFails
  <2>1. writer' = "dead"
    BY <1>5 DEF AppendFails, Die
  <2>2. CASE UNCHANGED files
    BY <1>1, <2>1, <2>2
  <2>3. CASE SetCurrent([Current EXCEPT !.rows = Append(@, Head(hand))])
    <3> DEFINE rows == Append(Current.rows, Head(hand))
               file == [Current EXCEPT !.rows = Append(@, Head(hand))]
    <3>1. hand \in Seq(Rows) /\ hand # <<>>
      BY <1>5 DEF AppendFails, RInv, WriterInv, ThreadTypes, Batches, End
    <3>2. Head(hand) \in Rows
      BY <3>1
    <3>3. rows \in Seq(Rows)
      BY <1>0, <3>2
    <3>4. file \in Files
      BY <1>0, <3>3 DEF Files
    <3>5. QED BY <1>2, <2>1, <2>3, <3>4
  <2>4. QED BY <1>5, <2>2, <2>3 DEF AppendFails
<1>6. CASE Seal
  <2>1. CASE Die("raw") /\ UNCHANGED files
    BY <1>1, <2>1 DEF Die
  <2>2. CASE writer' = "sidecar"
             /\ SetCurrent([Current EXCEPT !.synced = Len(Current.rows)])
    <3>1. [Current EXCEPT !.synced = Len(Current.rows)] \in Files
      <4>1. Len(Current.rows) \in Nat
        BY <1>0
      <4>2. QED BY <1>0, <4>1 DEF Files
    <3>2. QED BY <1>2, <2>2, <3>1
  <2>3. QED BY <1>6, <2>1, <2>2 DEF Seal
<1>7. CASE Sidecar
  <2>1. CASE Die("sidecar") /\ UNCHANGED files
    BY <1>1, <2>1 DEF Die
  <2>2. CASE SetCurrent([Current EXCEPT !.sidecar = Current.rows])
    <3> DEFINE file == [Current EXCEPT !.sidecar = Current.rows]
    <3>1. file \in Files /\ Sealed(file)
      BY <1>0, <1>7 DEF Files, Sidecar, RInv, WriterInv, Sealed
    <3>2. QED BY <1>0, <2>2, <3>1, SetCurrentKeepsClosed DEF ClosedInv
  <2>3. QED BY <1>7, <2>1, <2>2 DEF Sidecar
<1>8. CASE Open
  <2>1. CASE UNCHANGED files
    BY <1>1, <1>8, <2>1 DEF Open, Die
  <2>2. CASE files' = Append(files, NewFile)
    <3>1. Sealed(Current)
      BY <1>8 DEF Open, ClosedInv
    <3>2. NewFile \in Files
      BY DEF NewFile, Files
    <3>3. /\ DOMAIN files' = 1..(Len(files) + 1) /\ DOMAIN files = 1..Len(files)
          /\ Len(files') = Len(files) + 1 /\ Len(files) \in Nat
          /\ \A i \in 1..Len(files) : files'[i] = files[i]
      BY <1>0, <2>2, <3>2, AppendProperties, LenProperties DEF FilesTyped
    <3>4. \A i \in DOMAIN files' : i # Len(files') => Sealed(files'[i])
      BY <3>1, <3>3 DEF ClosedInv, Current
    <3>5. writer' \notin {"open", "done"}
      BY <1>8 DEF Open, Die
    <3>6. QED BY <3>4, <3>5 DEF ClosedInv
  <2>3. QED BY <1>8, <2>1, <2>2 DEF Open
<1>9. QED BY <1>3, <1>4, <1>5, <1>6, <1>7, <1>8 DEF WriterStep

-----------------------------------------------------------------------------
\* A frame's rows come behind the last; the None is no row.
LEMMA LoopKeepsLines ==
  ASSUME RInv, SessionInv, FileInv, LineInv, LoopStep
  PROVE  FileInv' /\ LineInv'
<1> USE DEF Session, Connection
<1>1. UNCHANGED <<queue, hand, writer, files>>
  BY DEF LoopStep, SessionStep, Connect, Subscribe, Frame, Resume, EmptyFrame, Disconnect,
         Leave, Retry, JournalFails, Drained, Joined, CloseTask, SocketCloses,
         Owner, Stop, Cancel, thread
<1>2. FileInv'
  BY <1>1 DEF FileInv
<1>3. CASE Frame
  <2>1. PICK k \in 1..MaxBatch :
          /\ received' = received + k
          /\ putting' = putting \cup {[i \in 1..k |-> received + i]}
    BY <1>3 DEF Frame
  <2>2. putting = {}
    BY <1>3 DEF Frame, SessionInv
  <2>3. received \in Nat /\ k \in Nat /\ k >= 1
    BY RecorderAssumption DEF RInv, LoopTypes
  <2>4. [i \in 1..k |-> received + i] = Run(received, received')
    <3>1. received' - received = k
      BY <2>1, <2>3
    <3>2. QED BY <3>1 DEF Run
  <2>5. Run(received, received') # End
    <3>1. received' \in Nat /\ received <= received' /\ received # received'
      BY <2>1, <2>3
    <3>2. QED BY <2>3, <3>1, RunIs DEF End
  <2>6. putting' \ {End} = {Run(received, received')}
    BY <2>1, <2>2, <2>4, <2>5
  <2>7. ASSUME writer # "dead",
               NEW n \in Nat, NEW h \in Nat, NEW l \in Nat,
               Lined(queue, h, l), l <= received,
               putting \ {End} = IF l = received THEN {} ELSE {Run(l, received)}
        PROVE  l = received
    BY <2>2, <2>7
  <2>8. received <= received' /\ received # received'
    BY <2>1, <2>3
  <2>9. QED BY <1>1, <1>2, <2>3, <2>6, <2>7, <2>8 DEF LineInv
<1>4. CASE ~Frame
  <2>1. received' = received /\ putting' \ {End} = putting \ {End}
    BY <1>4 DEF LoopStep, SessionStep, Connect, Subscribe, Resume, EmptyFrame, Disconnect,
         Leave, Retry, JournalFails, Drained, Joined, CloseTask, SocketCloses,
         Owner, Stop, Cancel, EndSession, session
  <2>2. QED BY <1>1, <1>2, <2>1 DEF LineInv
<1>5. QED BY <1>3, <1>4

\* What is put comes behind the queue.
LEMMA PutKeepsLines ==
  ASSUME RInv, FileInv, LineInv, PutStep
  PROVE  FileInv' /\ LineInv'
<1>1. PICK item \in putting : Put(item)
  BY DEF PutStep
<1>2. queue' = Append(queue, item) /\ UNCHANGED <<hand, writer, files, received>>
      /\ putting' = putting \ {item}
  BY <1>1 DEF Put, loop, session, thread
<1>3. queue \in Seq(Batches \cup {End}) /\ item \in Batches \cup {End}
      /\ received \in Nat
  BY <1>1, RecorderAssumption DEF RInv, QueueTypes, LoopTypes
<1>4. FileInv'
  BY <1>2 DEF FileInv
<1>5. ASSUME writer # "dead" PROVE LineInv'
  <2>1. PICK n \in Nat, h \in Nat, l \in Nat :
          /\ Lined(RowsOf(files), 0, n)
          /\ n <= h /\ hand = Run(n, h)
          /\ Lined(queue, h, l) /\ l <= received
          /\ putting \ {End} = IF l = received THEN {} ELSE {Run(l, received)}
    BY <1>5 DEF LineInv
  <2>2. CASE item = End
    <3>1. Run(l, l) = End
      BY <2>1, RunOfNone DEF End
    <3>2. Lined(queue', h, l)
      <4>1. l <= l /\ Run(l, l) \in Batches \cup {End}
        BY <2>1, <3>1
      <4>2. Lined(Append(queue, Run(l, l)), h, l)
        BY <1>3, <2>1, <4>1, LinedAppend
      <4>3. QED BY <1>2, <2>2, <3>1, <4>2
    <3>3. putting' \ {End} = putting \ {End}
      BY <1>2, <2>2
    <3>4. QED BY <1>2, <2>1, <3>2, <3>3 DEF LineInv
  <2>3. CASE item # End
    <3>1. l # received /\ item = Run(l, received) /\ putting' \ {End} = {}
      BY <1>1, <1>2, <2>1, <2>3
    <3>2. Lined(Append(queue, Run(l, received)), h, received)
      BY <1>3, <2>1, <3>1, LinedAppend
    <3>3. received <= received
      BY <1>3
    <3>4. QED BY <1>2, <1>3, <2>1, <3>1, <3>2, <3>3 DEF LineInv
  <2>4. QED BY <2>2, <2>3
<1>6. CASE writer = "dead"
  BY <1>2, <1>4, <1>6 DEF LineInv
<1>7. QED BY <1>4, <1>5, <1>6

\* Row by row, and file by file, the writer moves the line to disk.
LEMMA WriterKeepsLines ==
  ASSUME RInv, ReturnInv, FileInv, LineInv, WriterStep
  PROVE  FileInv' /\ LineInv'
<1>0. FilesTyped /\ Current \in Files /\ Current.rows \in Seq(Rows)
      /\ files \in Seq(Files)
  BY FilesAre DEF RInv, ThreadTypes, FilesTyped
<1>1. UNCHANGED <<putting, received>> /\ writer # "dead"
  BY WriterDoes DEF loop, session
<1>2. PICK n \in Nat, h \in Nat, l \in Nat :
        /\ Lined(RowsOf(files), 0, n)
        /\ n <= h /\ hand = Run(n, h)
        /\ Lined(queue, h, l) /\ l <= received
        /\ putting \ {End} = IF l = received THEN {} ELSE {Run(l, received)}
  BY <1>1 DEF LineInv
<1>3. ASSUME RowsOf(files)' = RowsOf(files) PROVE FileInv'
  BY <1>2, <1>3 DEF FileInv
<1>4. ASSUME RowsOf(files)' = RowsOf(files), UNCHANGED <<hand, queue>> PROVE LineInv'
  BY <1>1, <1>2, <1>4 DEF LineInv
<1>5. ASSUME UNCHANGED files PROVE RowsOf(files)' = RowsOf(files)
  BY <1>5
<1>6. ASSUME writer' = "dead" PROVE LineInv'
  BY <1>6 DEF LineInv
<1>7. ASSUME hand # End, NEW file \in Files, SetCurrent(file),
             file.rows = Append(Current.rows, Head(hand))
      PROVE  n < h /\ Lined(RowsOf(files)', 0, n + 1)
  <2>1. n < h
    <3>1. n # h
      BY <1>2, <1>7, RunOfNone DEF End
    <3>2. QED BY <1>2, <3>1
  <2>2. Head(hand) = n + 1
    BY <1>2, <2>1, RunTail
  <2>3. QED BY <1>0, <1>2, <1>7, <2>1, <2>2, CurrentTakesRow
<1>8. CASE Get
  <2>1. /\ queue # <<>> /\ queue' = Tail(queue) /\ hand' = Head(queue)
        /\ hand = End /\ UNCHANGED files
    BY <1>8 DEF Get, ReturnInv
  <2>2. queue \in Seq(Batches \cup {End})
    BY DEF RInv, QueueTypes
  <2>3. n = h
    BY <1>2, <2>1, RunIs DEF End
  <2>4. PICK c \in Nat : h <= c /\ Head(queue) = Run(h, c) /\ Lined(Tail(queue), c, l)
    BY <1>2, <2>1, <2>2, LinedTail
  <2>5. RowsOf(files)' = RowsOf(files)
    BY <1>5, <2>1
  <2>6. LineInv'
    BY <1>1, <1>2, <2>1, <2>3, <2>4, <2>5 DEF LineInv
  <2>7. QED BY <1>3, <2>5, <2>6
<1>9. CASE Rotate
  BY <1>3, <1>4, <1>5, <1>9 DEF Rotate
<1>10. CASE AppendRow
  <2> DEFINE rows == Append(Current.rows, Head(hand))
             file == [Current EXCEPT !.rows = rows,
                        !.synced = IF Len(rows) % FsyncEvery = 0 THEN Len(rows) ELSE @]
  <2>1. SetCurrent(file) /\ hand' = Tail(hand) /\ UNCHANGED queue
    BY <1>10 DEF AppendRow
  <2>2. hand # End
    BY <1>10 DEF AppendRow, RInv, WriterInv
  <2>3. file \in Files /\ file.rows = rows
    <3>1. hand \in Seq(Rows) /\ hand # <<>>
      BY <1>10 DEF AppendRow, RInv, WriterInv, ThreadTypes, Batches, End
    <3>2. Head(hand) \in Rows
      BY <3>1
    <3>3. rows \in Seq(Rows) /\ Len(rows) \in Nat
      BY <1>0, <3>2
    <3> HIDE DEF rows
    <3>4. QED BY <1>0, <3>3 DEF Files
  <2> HIDE DEF file
  <2>4. n < h /\ Lined(RowsOf(files)', 0, n + 1)
    BY <1>7, <2>1, <2>2, <2>3
  <2>5. Tail(hand) = Run(n + 1, h) /\ n + 1 \in Nat /\ n + 1 <= h
    BY <1>2, <2>4, RunTail
  <2>6. LineInv'
    BY <1>1, <1>2, <2>1, <2>4, <2>5 DEF LineInv
  <2>7. QED BY <2>4, <2>5, <2>6 DEF FileInv
<1>11. CASE AppendFails
  <2>1. writer' = "dead"
    BY <1>11 DEF AppendFails, Die
  <2>2. CASE UNCHANGED files
    BY <1>3, <1>5, <1>6, <2>1, <2>2
  <2>3. CASE SetCurrent([Current EXCEPT !.rows = Append(@, Head(hand))])
    <3> DEFINE rows == Append(Current.rows, Head(hand))
               file == [Current EXCEPT !.rows = Append(@, Head(hand))]
    <3>1. hand \in Seq(Rows) /\ hand # <<>>
      BY <1>11 DEF AppendFails, RInv, WriterInv, ThreadTypes, Batches, End
    <3>2. Head(hand) \in Rows
      BY <3>1
    <3>3. rows \in Seq(Rows)
      BY <1>0, <3>2
    <3>4. file \in Files /\ file.rows = rows
      BY <1>0, <3>3 DEF Files
    <3>5. SetCurrent(file) /\ hand # End
      BY <2>3, <3>1 DEF End
    <3> HIDE DEF file
    <3>6. Lined(RowsOf(files)', 0, n + 1)
      BY <1>7, <3>4, <3>5
    <3>7. QED BY <1>2, <1>6, <2>1, <3>6 DEF FileInv
  <2>4. QED BY <1>11, <2>2, <2>3 DEF AppendFails
<1>12. CASE Seal
  <2>1. CASE Die("raw") /\ UNCHANGED files
    BY <1>3, <1>5, <1>6, <2>1 DEF Die
  <2>2. CASE SetCurrent([Current EXCEPT !.synced = Len(Current.rows)])
             /\ UNCHANGED <<hand, error>>
    <3> DEFINE file == [Current EXCEPT !.synced = Len(Current.rows)]
    <3>1. file \in Files /\ file.rows = Current.rows
      <4>1. Len(Current.rows) \in Nat
        BY <1>0
      <4>2. QED BY <1>0, <4>1 DEF Files
    <3>2. SetCurrent(file)
      BY <2>2
    <3> HIDE DEF file
    <3>3. RowsOf(files)' = RowsOf(files)
      BY <1>0, <3>1, <3>2, CurrentKeepsRows
    <3>4. QED BY <1>3, <1>4, <1>12, <2>2, <3>3 DEF Seal
  <2>3. QED BY <1>12, <2>1, <2>2 DEF Seal
<1>13. CASE Sidecar
  <2>1. CASE Die("sidecar") /\ UNCHANGED files
    BY <1>3, <1>5, <1>6, <2>1 DEF Die
  <2>2. CASE SetCurrent([Current EXCEPT !.sidecar = Current.rows])
    <3> DEFINE file == [Current EXCEPT !.sidecar = Current.rows]
    <3>1. file \in Files /\ file.rows = Current.rows
      BY <1>0 DEF Files
    <3>2. SetCurrent(file)
      BY <2>2
    <3> HIDE DEF file
    <3>3. RowsOf(files)' = RowsOf(files)
      BY <1>0, <3>1, <3>2, CurrentKeepsRows
    <3>4. writer' = "dead" \/ UNCHANGED <<hand, queue>>
      BY <1>13, <2>2 DEF Sidecar, Die
    <3>5. QED BY <1>3, <1>4, <1>6, <3>3, <3>4
  <2>3. QED BY <1>13, <2>1, <2>2 DEF Sidecar
<1>14. CASE Open
  <2>1. CASE UNCHANGED files
    BY <1>3, <1>5, <1>6, <1>14, <2>1 DEF Open, Die
  <2>2. CASE files' = Append(files, NewFile)
    <3>1. Lined(RowsOf(files)', 0, n)
      BY <1>0, <1>2, <2>2, NewFileLines
    <3>2. FileInv'
      BY <1>2, <3>1 DEF FileInv
    <3>3. writer' = "dead" \/ UNCHANGED <<hand, queue>>
      BY <1>14 DEF Open, Die
    <3>4. LineInv'
      BY <1>1, <1>2, <1>6, <3>1, <3>3 DEF LineInv
    <3>5. QED BY <3>2, <3>4
  <2>3. QED BY <1>14, <2>1, <2>2 DEF Open
<1>15. QED BY <1>8, <1>9, <1>10, <1>11, <1>12, <1>13, <1>14 DEF WriterStep

\* A crash cuts rows off the end of the last file only; the repair writes
\* sidecars.
LEMMA ProcessKeepsLines ==
  ASSUME RInv, FileInv, SessionInv, ReturnInv, ClosedInv, Crash \/ FinalizeOrphans
  PROVE  FileInv' /\ LineInv' /\ SessionInv' /\ ReturnInv' /\ ClosedInv'
<1>0. /\ FilesTyped /\ Current \in Files /\ Current.rows \in Seq(Rows)
      /\ Len(Current.rows) \in Nat /\ Current.synced \in Nat /\ files \in Seq(Files)
  <2>1. FilesTyped /\ Current \in Files /\ Current.rows \in Seq(Rows)
    BY FilesAre DEF RInv, ThreadTypes, FilesTyped
  <2>2. QED BY <2>1 DEF Files, FilesTyped
<1>1. pc' = "gone" /\ writer' = "dead" /\ exit' = exit /\ error' = error
  BY DEF Crash, FinalizeOrphans, RInv, WriterInv, loop, session
<1>2. LineInv'
  BY <1>1 DEF LineInv
<1>3. SessionInv'
  BY <1>1 DEF SessionInv, Session, Connection
<1>4. ReturnInv'
  BY <1>1 DEF ReturnInv
<1>5. CASE Crash
  <2>1. PICK m \in Current.synced..Len(Current.rows) :
          SetCurrent([Current EXCEPT !.rows = SubSeq(Current.rows, 1, m)])
    BY <1>5 DEF Crash
  <2> DEFINE rows == SubSeq(Current.rows, 1, m)
             file == [Current EXCEPT !.rows = rows]
  <2>2. m \in Nat /\ m <= Len(Current.rows)
    BY <1>0, <2>1
  <2>3. rows \in Seq(Rows)
    BY <1>0, <2>2
  <2>4. file \in Files /\ file.rows = rows
    BY <1>0, <2>3 DEF Files
  <2>5. SetCurrent(file)
    BY <2>1
  <2> HIDE DEF file
  <2>6. FileInv'
    BY <1>0, <2>2, <2>4, <2>5, CurrentIsCut
  <2>7. ClosedInv'
    BY <1>0, <1>1, <2>4, <2>5, SetCurrentKeepsClosed DEF ClosedInv
  <2>8. QED BY <1>2, <1>3, <1>4, <2>6, <2>7
<1>6. CASE FinalizeOrphans
  <2> DEFINE fixed(i) == IF files[i].sidecar = None
                         THEN [files[i] EXCEPT !.sidecar = files[i].rows]
                         ELSE files[i]
  <2>1. files' = [i \in DOMAIN files |-> fixed(i)]
    BY <1>6 DEF FinalizeOrphans
  <2>2. \A i \in 1..Len(files) : fixed(i) \in Files /\ fixed(i).rows = files[i].rows
          /\ (Sealed(files[i]) => Sealed(fixed(i)))
    <3>1. TAKE i \in 1..Len(files)
    <3>2. files[i] \in Files
      BY <1>0
    <3>3. QED BY <3>2 DEF Files, Sealed
  <2> HIDE DEF fixed
  <2>3. /\ files' \in Seq(Files) /\ Len(files') = Len(files)
        /\ DOMAIN files = 1..Len(files) /\ DOMAIN files' = 1..Len(files)
        /\ \A i \in 1..Len(files) : files'[i] = fixed(i)
    BY <1>0, <2>1, <2>2
  <2>4. RowsOf(files') = RowsOf(files)
    BY <1>0, <2>2, <2>3, SameRows
  <2>5. FileInv'
    BY <2>4 DEF FileInv
  <2>6. ClosedInv'
    BY <1>1, <2>2, <2>3 DEF ClosedInv
  <2>7. QED BY <1>2, <1>3, <1>4, <2>5, <2>6
<1>7. QED BY <1>5, <1>6

-----------------------------------------------------------------------------
(* The theorems about the line.                                             *)

\* Where every row and the None are: in the files, in the writer's hand, in the
\* queue or with a pool thread, in this order.
LineUp == FileInv /\ LineInv /\ SessionInv /\ ReturnInv /\ ClosedInv

\* Whatever the interleaving of session, pool threads, writer, owner, crash and
\* repair, the rows stay lined up.
THEOREM RowsAreLinedUp == Spec => []LineUp
<1>1. Init => LineUp
  <2> SUFFICES ASSUME Init PROVE LineUp
    OBVIOUS
  <2>1. /\ pc = "connect" /\ exit = None /\ received = 0 /\ putting = {} /\ queue = <<>>
        /\ writer = "get" /\ hand = End /\ error = None /\ files = <<NewFile>>
    BY DEF Init, End
  <2>2. FilesTyped /\ files \in Seq(Files) /\ Len(files) = 1 /\ DOMAIN files = 1..1
        /\ RowsOf(files) \in Seq(Seq(Rows)) /\ Len(RowsOf(files)) = 1
        /\ RowsOf(files)[1] = <<>>
    <3>1. NewFile \in Files /\ NewFile.rows = <<>>
      BY DEF NewFile, Files
    <3>2. FilesTyped /\ files \in Seq(Files) /\ Len(files) = 1 /\ DOMAIN files = 1..1
          /\ files[1] = NewFile
      BY <2>1, <3>1 DEF FilesTyped
    <3>3. QED BY <3>1, <3>2, RowsOfIs
  <2>3. Lined(RowsOf(files), 0, 0)
    <3> DEFINE s == RowsOf(files)
               g == [i \in 0..1 |-> 0]
    <3>1. g \in [0..1 -> Nat] /\ g[0] = 0 /\ g[1] = 0
      OBVIOUS
    <3>2. Run(0, 0) = <<>>
      BY RunOfNone
    <3> HIDE DEF g
    <3>3. \A i \in 1..1 : g[i - 1] <= g[i] /\ s[i] = Run(g[i - 1], g[i])
      BY <2>2, <3>1, <3>2
    <3>4. Cut(s, 0, 0, g)
      BY <2>2, <3>1, <3>3 DEF Cut
    <3>5. QED BY <3>4, LinedIsCut
  <2>4. Lined(queue, 0, 0) /\ hand = Run(0, 0)
    BY <2>1, LinedEmpty, RunOfNone DEF End
  <2>5. FileInv /\ LineInv
    <3>1. putting \ {End} = {} /\ 0 <= 0 /\ 0 \in Nat
      BY <2>1
    <3>2. QED BY <2>1, <2>3, <2>4, <3>1 DEF FileInv, LineInv
  <2>6. SessionInv /\ ClosedInv
    BY <2>1, <2>2 DEF SessionInv, ClosedInv
  <2>7. ReturnInv
    BY <2>1, RecorderAssumption DEF ReturnInv
  <2>8. QED BY <2>5, <2>6, <2>7 DEF LineUp
<1>2. RInv /\ LineUp /\ [Next]_vars => LineUp'
  <2> SUFFICES ASSUME RInv, LineUp, [Next]_vars PROVE LineUp'
    OBVIOUS
  <2> USE DEF LineUp
  <2>1. CASE LoopStep
    <3>1. UNCHANGED <<writer, files>>
      BY <2>1, LoopKeepsTypes DEF RInv, thread
    <3>2. ClosedInv'
      BY <3>1 DEF ClosedInv, Current
    <3>3. QED BY <2>1, <3>2, SessionStepKeeps, LoopKeepsReturn, LoopKeepsLines
  <2>2. CASE WriterStep
    BY <2>2, WriterKeepsSession, WriterKeepsReturn, WriterKeepsClosed, WriterKeepsLines
  <2>3. CASE PutStep
    <3>1. UNCHANGED <<writer, files>>
      BY <2>3 DEF PutStep, Put, thread
    <3>2. ClosedInv'
      BY <3>1 DEF ClosedInv, Current
    <3>3. QED BY <2>3, <3>2, PutKeepsSession, PutKeepsReturn, PutKeepsLines
  <2>4. CASE Crash \/ FinalizeOrphans
    BY <2>4, ProcessKeepsLines
  <2>5. CASE UNCHANGED vars
    BY <2>5 DEF FileInv, LineInv, SessionInv, ReturnInv, NoneInPool, NoneInQueue,
       NoneTaken, ClosedInv, Current, vars, loop, session, thread
  <2>6. QED BY <2>1, <2>2, <2>3, <2>4, <2>5 DEF Next, LoopStep
<1>3. QED BY <1>1, <1>2, RecorderInvariant, PTL DEF Spec

\* The rows of files that are lined up are numbered from 1 on.
LEMMA StoredIsRun ==
  ASSUME FilesTyped, NEW n \in Nat, Lined(RowsOf(files), 0, n)
  PROVE  Stored = Run(0, n) /\ Len(Stored) = n
<1>1. files \in Seq(Files) /\ files # <<>>
  BY DEF FilesTyped
<1>2. RowsOf(files) \in Seq(Seq(Rows)) /\ RowsOf(files) # <<>>
  BY <1>1, RowsOfIs
<1>3. FlattenSeq(RowsOf(files)) = Run(0, n)
  BY <1>2, LinedFlatten
<1>4. Stored = FlattenSeq(RowsOf(files))
  BY DEF Stored, RowsOf
<1>5. Len(Run(0, n)) = n
  <2>1. 0 \in Nat /\ 0 <= n /\ n - 0 = n
    OBVIOUS
  <2>2. QED BY <2>1, RunIs
<1>6. QED BY <1>3, <1>4, <1>5

\* The files, read one after the other, hold the received rows in order and
\* without a gap, whatever rotates, fails, crashes or is repaired.
THEOREM RowsStayInOrder == Spec => []RowsInOrder
<1>1. RInv /\ LineUp => RowsInOrder
  <2>1. SUFFICES ASSUME RInv, FileInv PROVE RowsInOrder
    BY DEF LineUp
  <2>2. FilesTyped
    BY <2>1 DEF RInv, ThreadTypes, FilesTyped
  <2>3. PICK n \in Nat : Lined(RowsOf(files), 0, n)
    BY <2>1 DEF FileInv
  <2>4. Stored = Run(0, n) /\ Len(Stored) = n
    BY <2>2, <2>3, StoredIsRun
  <2>5. Run(0, n) = [i \in 1..n |-> i]
    <3>1. n - 0 = n /\ \A i \in 1..n : 0 + i = i
      BY <2>3
    <3>2. QED BY <3>1 DEF Run
  <2>6. QED BY <2>4, <2>5 DEF RowsInOrder
<1>2. QED BY <1>1, RowsAreLinedUp, RecorderInvariant, PTL

\* run() returns only when every received row is fsynced in a file that its
\* sidecar describes: an error that the writer meets after the last frame, in
\* the final close too, surfaces in another outcome.
THEOREM ReturnStoresAll == Spec => []CleanEndStoresAll
<1>1. RInv /\ LineUp => CleanEndStoresAll
  <2>1. SUFFICES ASSUME RInv, LineUp, pc = "ended", exit = "returned"
                 PROVE  /\ Len(Stored) = received
                        /\ \A i \in DOMAIN files : Sealed(files[i])
    BY DEF CleanEndStoresAll, Sealed
  <2>2. writer = "done" /\ hand = End /\ NoneTaken
    BY <2>1 DEF LineUp, ReturnInv, NoneInPool, NoneInQueue
  <2>3. FilesTyped
    BY <2>1 DEF RInv, ThreadTypes, FilesTyped
  <2>4. PICK n \in Nat, h \in Nat, l \in Nat :
          /\ Lined(RowsOf(files), 0, n)
          /\ n <= h /\ hand = Run(n, h)
          /\ Lined(queue, h, l) /\ l <= received
          /\ putting \ {End} = IF l = received THEN {} ELSE {Run(l, received)}
    BY <2>1, <2>2 DEF LineUp, LineInv
  <2>5. l = received
    BY <2>2, <2>4 DEF NoneTaken
  <2>6. h = l
    BY <2>2, <2>4, LinedEmpty DEF NoneTaken
  <2>7. n = h
    BY <2>2, <2>4, RunIs DEF End
  <2>8. Len(Stored) = received
    BY <2>3, <2>4, <2>5, <2>6, <2>7, StoredIsRun
  <2>9. ASSUME NEW i \in DOMAIN files PROVE Sealed(files[i])
    BY <2>1, <2>2, <2>9 DEF LineUp, ClosedInv, Current
  <2>10. QED BY <2>8, <2>9
<1>2. QED BY <1>1, RowsAreLinedUp, RecorderInvariant, PTL

-----------------------------------------------------------------------------
(* The live collector                                                       *)

\* The last market in which the collector may run, and the states in which the
\* invariant says anything: nobody has asked it to stop, and its book task runs.
LastMarket == Duration \div Window
Live == ~stopSet /\ at \notin {"hung", "raised"}

\* The current market is recorded alone; it is over, or about to be.
Asking == {"watch", "next", "asking", "sleeping"}
Closing == {"grace", "await", "report"}

\* What m failed calls cost at most; how late a recorder is stopped.
Cost(m) == m * (AskTime + Poll)
Later == Grace + Lateness

LTypes ==
  /\ now \in Nat /\ mishaps \in 0..MaxMishaps /\ due \in Int
  /\ begun \in [Markets -> Nat \cup {Unset}] /\ ended \in [Markets -> Nat \cup {Unset}]
  /\ recorder \in [Markets -> {"none", "running", "stopping", "ended", "failed", "cut"}]
  /\ at \in {"find", "finding", "waiting", "watch", "next", "asking", "sleeping", "overlap",
             "grace", "await", "report"}
  /\ now <= Duration \/ now < Window

\* Which recorders there are at each statement.
LPlace ==
  /\ at \in {"find", "finding", "waiting"} => cur = Unset /\ nxt = Unset
  /\ at \notin {"find", "finding", "waiting"} => cur \in 0..LastMarket /\ begun[cur] # Unset
  /\ at \in Asking => nxt = Unset
  /\ at = "overlap" => nxt = cur + 1 /\ begun[nxt] = Unset
  /\ at \in Closing => nxt = Unset \/ (nxt = cur + 1 /\ begun[nxt] # Unset)
  /\ at \in {"await", "report"} => now >= EndOf(cur) + Grace
  /\ \A k \in Markets : begun[k] # Unset => k = cur \/ k = nxt

\* What is known of a recorder that has ended.
LRecorders ==
  /\ \A k \in Markets :
       /\ recorder[k] \in {"running", "stopping"} => begun[k] # Unset
       /\ ended[k] # Unset => begun[k] # Unset
       /\ recorder[k] = "failed" \/ ended[k] = Unset \/ ended[k] >= EndOf(k) + Grace
       /\ recorder[k] = "running" => ended[k] = Unset
  /\ at = "report" => recorder[cur] \notin {"running", "stopping"}

\* What the discovery worker is after: it has never applied the market that is
\* asked for, so that it does ask.
LTarget ==
  /\ applied \subseteq {target}
  /\ at = "finding" => target \in 0..LastMarket
  /\ at = "watch" => target = cur
  /\ at = "next" => target = cur \/ (target = cur + 1 /\ applied = {})
  /\ at \in {"asking", "sleeping"} => target = cur + 1 /\ applied = {}
  /\ at = "overlap" => target = nxt
  /\ at \in Closing => nxt = Unset \/ nxt = target

\* How late it can be, however late the collector was started.
LTime ==
  /\ at = "finding" => due <= EndOf(target) + AskTime
  /\ at \in {"watch", "next", "overlap"} => now <= EndOf(cur) + AskTime
  /\ at = "asking" => due <= EndOf(cur) + AskTime
  /\ at = "sleeping" => due <= EndOf(cur)
  /\ at = "grace" => now <= EndOf(cur) + Later
  /\ at = "await" => due <= EndOf(cur) + Later + Patience
  /\ at = "report" => due <= EndOf(cur) + Later + Patience + ReportTime
  /\ at \in {"finding", "asking", "sleeping", "await", "report"} => now <= due

\* How late it can be in a market that was recorded early enough: each failure
\* so far has cost a call and a pause.
LEarly ==
  at \notin {"find", "finding", "waiting"} /\ begun[cur] <= EndOf(cur) - Prediscovery =>
    /\ at = "watch" => now <= EndOf(cur) - Prediscovery + Lateness
    /\ at = "next" => now <= EndOf(cur) - Prediscovery + Lateness + Cost(mishaps)
    /\ at = "asking" => due <= EndOf(cur) - Prediscovery + Lateness + Cost(mishaps) + AskTime
    /\ at = "sleeping" => due <= EndOf(cur) - Prediscovery + Lateness + Cost(mishaps)
    /\ at = "overlap" => now < EndOf(cur)
    /\ at \in Closing => nxt # Unset /\ begun[nxt] <= EndOf(cur)

CParts == LTypes /\ LPlace /\ LRecorders /\ LTarget /\ LTime /\ LEarly

\* Who was asked to stop never forgets it; until then, and while the book task
\* runs, all of the above holds.
CollectorInv ==
  /\ stopSet \in BOOLEAN
  /\ at \in {"over", "cut"} => stopSet
  /\ run # "running" => stopSet
  /\ Live => CParts

LEMMA Settings ==
  /\ Window \in Nat /\ Prediscovery \in Nat /\ Overlap \in Nat /\ Grace \in Nat
  /\ Poll \in Nat /\ Patience \in Nat /\ AskTime \in Nat /\ ReportTime \in Nat
  /\ Duration \in Nat /\ MaxMishaps \in Nat /\ Unset \notin Int
  /\ Overlap <= Prediscovery /\ Prediscovery <= Window /\ Poll > 0
  /\ Grace + Patience + ReportTime <= Window - Prediscovery
  /\ Lateness \in Nat /\ Lateness <= AskTime /\ AskTime <= Grace + Lateness
<1>1. {Window, Prediscovery, Overlap, Grace, Poll, Patience, AskTime, ReportTime, Duration,
       MaxMishaps} \subseteq Nat
  BY TimesAssumption
<1>2. QED BY <1>1, TimesAssumption DEF Lateness

\* The boundaries of the markets.
LEMMA Boundaries ==
  ASSUME Window > 0
  PROVE  /\ LastMarket \in Nat /\ Markets = 0..LastMarket + 1
         /\ \A k \in Nat : /\ EndOf(k) \in Nat /\ EndOf(k) >= Window
                           /\ EndOf(k + 1) = EndOf(k) + Window
         /\ \A t \in Nat : t \div Window \in Nat /\ t < EndOf(t \div Window)
         /\ \A t \in Nat : t <= Duration \/ t < Window => t \div Window <= LastMarket
         /\ \A t, k \in Nat : (t <= Duration \/ t < Window) /\ EndOf(k) <= t => k + 1 <= LastMarket
<1>1. Window \in Nat /\ Duration \in Nat
  BY Settings
<1>2. ASSUME NEW t \in Nat
      PROVE  /\ t \div Window \in Nat /\ (t \div Window) * Window <= t
             /\ t < ((t \div Window) + 1) * Window
  BY <1>1, <1>2
<1>3. ASSUME NEW k \in Nat
      PROVE  /\ EndOf(k) \in Nat /\ EndOf(k) >= Window
             /\ EndOf(k + 1) = EndOf(k) + Window
  BY <1>1 DEF EndOf
<1>4. ASSUME NEW j \in Nat, NEW k \in Nat, j * Window < (k + 1) * Window
      PROVE  j <= k
  <2>1. CASE j >= k + 1
    <3>1. PICK d \in Nat : j = k + 1 + d
      <4>1. j - (k + 1) \in Nat /\ j = k + 1 + (j - (k + 1))
        BY <2>1
      <4>2. QED BY <4>1
    <3>2. j * Window = (k + 1) * Window + d * Window /\ d * Window \in Nat
      BY <3>1, <1>1
    <3>3. /\ j * Window \in Int /\ (k + 1) * Window \in Int
      BY <1>1
    <3>4. QED BY <3>2, <3>3, <1>4
  <2>2. QED BY <2>1
<1>5. LastMarket \in Nat /\ Markets = 0..LastMarket + 1 /\ Duration < (LastMarket + 1) * Window
  BY <1>1, <1>2 DEF LastMarket, Markets
<1>6. Window <= (LastMarket + 1) * Window /\ (LastMarket + 1) * Window \in Nat
  <2>1. LastMarket * Window \in Nat /\ (LastMarket + 1) * Window = LastMarket * Window + Window
    BY <1>1, <1>5
  <2>2. QED BY <2>1, <1>1
<1>7. ASSUME NEW t \in Nat, NEW j \in Nat, t <= Duration \/ t < Window, j * Window <= t
      PROVE  j <= LastMarket
  <2>1. t < (LastMarket + 1) * Window
    BY <1>1, <1>5, <1>6, <1>7
  <2>2. j * Window \in Int
    BY <1>1
  <2>3. j * Window < (LastMarket + 1) * Window
    BY <2>1, <2>2, <1>6, <1>7
  <2>4. QED BY <2>3, <1>4, <1>5
<1>8. \A t \in Nat : t \div Window \in Nat /\ t < EndOf(t \div Window)
  BY <1>2 DEF EndOf
<1>9. \A t \in Nat : t <= Duration \/ t < Window => t \div Window <= LastMarket
  BY <1>2, <1>7
<1>10. \A t, k \in Nat : (t <= Duration \/ t < Window) /\ EndOf(k) <= t => k + 1 <= LastMarket
  BY <1>7 DEF EndOf
<1>11. QED BY <1>3, <1>5, <1>8, <1>9, <1>10

\* Every failed call costs its own time and a pause.
LEMMA Costs ==
  /\ \A m \in Nat : Cost(m) \in Nat /\ Cost(m + 1) = Cost(m) + AskTime + Poll
  /\ \A m \in 0..MaxMishaps : Cost(m) <= Cost(MaxMishaps)
<1>1. AskTime + Poll \in Nat /\ MaxMishaps \in Nat /\ AskTime \in Nat /\ Poll \in Nat
  BY Settings
<1>2. ASSUME NEW m \in Nat PROVE Cost(m) \in Nat /\ Cost(m + 1) = Cost(m) + AskTime + Poll
  BY <1>1 DEF Cost
<1>3. ASSUME NEW m \in 0..MaxMishaps PROVE Cost(m) <= Cost(MaxMishaps)
  <2>1. MaxMishaps - m \in Nat /\ m \in Nat
    BY <1>1
  <2>2. (MaxMishaps - m) * (AskTime + Poll) \in Nat
    BY <2>1, <1>1
  <2>3. MaxMishaps * (AskTime + Poll)
          = m * (AskTime + Poll) + (MaxMishaps - m) * (AskTime + Poll)
    BY <2>1, <1>1
  <2>4. Cost(m) \in Nat /\ Cost(MaxMishaps) \in Nat
    BY <2>1, <1>1, <1>2
  <2>5. QED BY <2>2, <2>3, <2>4 DEF Cost
<1>4. QED BY <1>2, <1>3

\* A step of the running collector.
LEMMA LiveStep ==
  ASSUME DiscoveryInTime, CParts, Live, Live', run = "running", CollectorNext
  PROVE  CParts'
<1>1. /\ Window \in Nat /\ Prediscovery \in Nat /\ Overlap \in Nat /\ Grace \in Nat
      /\ Poll \in Nat /\ Patience \in Nat /\ AskTime \in Nat /\ ReportTime \in Nat
      /\ Duration \in Nat /\ Unset \notin Int /\ Window > 0 /\ Overlap > 0 /\ Poll > 0
      /\ Overlap <= Prediscovery /\ Prediscovery <= Window
      /\ Grace + Patience + ReportTime <= Window - Prediscovery
      /\ Lateness \in Nat /\ Lateness <= AskTime /\ AskTime <= Grace + Lateness
      /\ Later = Grace + Lateness /\ Later \in Nat /\ Lateness < Prediscovery
  <2>1. MaxMishaps * (AskTime + Poll) \in Nat
    BY Settings
  <2>2. Lateness + MaxMishaps * (AskTime + Poll) + AskTime < Prediscovery /\ Overlap > 0
    BY DEF DiscoveryInTime
  <2>3. QED BY <2>1, <2>2, Settings DEF Later
<1>2. LastMarket \in Nat /\ Markets = 0..LastMarket + 1
  BY <1>1, Boundaries
<1>3. \A k \in 0..LastMarket : /\ EndOf(k) \in Nat /\ EndOf(k) >= Window
                         /\ EndOf(k + 1) = EndOf(k) + Window
  <2>1. \A k \in 0..LastMarket : k \in Nat
    BY <1>2
  <2>2. QED BY <2>1, <1>1, Boundaries
<1>4. ~stopSet /\ ~stopSet' /\ at \notin {"hung", "raised"} /\ at' \notin {"hung", "raised"}
  BY DEF Live
<1>5. LTypes /\ LPlace /\ LRecorders /\ LTarget /\ LTime /\ LEarly
  BY DEF CParts
<1>6. /\ now \in Nat /\ due \in Int /\ mishaps \in Nat /\ MaxMishaps \in Nat
      /\ mishaps <= MaxMishaps
  BY <1>5, Settings DEF LTypes
<1>7. /\ Cost(mishaps) \in Nat /\ Cost(mishaps + 1) = Cost(mishaps) + AskTime + Poll
      /\ Lateness + Cost(mishaps) + AskTime < Prediscovery
  <2>1. Lateness + Cost(MaxMishaps) + AskTime < Prediscovery
    BY DEF DiscoveryInTime, Cost
  <2>2. Cost(mishaps) <= Cost(MaxMishaps) /\ Cost(mishaps) \in Nat /\ Cost(MaxMishaps) \in Nat
    BY <1>6, Costs
  <2>3. QED BY <2>1, <2>2, <1>1, <1>6, Costs
<1>8. ASSUME cur \in 0..LastMarket, begun[cur] # Unset
      PROVE  /\ cur \in Nat /\ cur \in Markets /\ cur + 1 \in Markets /\ begun[cur] \in Nat
             /\ EndOf(cur) \in Nat /\ EndOf(cur + 1) = EndOf(cur) + Window
  <2>1. cur \in Nat /\ cur \in Markets /\ cur + 1 \in Markets
    BY <1>2, <1>8
  <2>2. begun[cur] \in Nat
    BY <2>1, <1>5, <1>8 DEF LTypes
  <2>3. QED BY <2>1, <2>2, <1>3, <1>8
<1>9. CASE FindMarket
  <2>1. at = "find"
    BY <1>9 DEF FindMarket, At
  <2>2. cur = Unset /\ nxt = Unset
    BY <2>1, <1>5 DEF LPlace
  <2>3. \A k \in Markets : begun[k] = Unset
    BY <2>2, <1>1, <1>2, <1>5 DEF LPlace
  <2>a. applied \subseteq {target}
    BY <1>5 DEF LTarget
  <2>b. Applied(now \div Window) \subseteq {now \div Window}
    BY <2>a DEF Applied
  <2>c. /\ now \div Window \in Nat /\ now \div Window <= LastMarket
        /\ now < EndOf(now \div Window) /\ EndOf(now \div Window) \in Nat
    <3>1. now \in Nat /\ (now <= Duration \/ now < Window)
      BY <1>5 DEF LTypes
    <3>2. now \div Window \in Nat /\ now < EndOf(now \div Window)
      BY <1>1, <3>1, Boundaries
    <3>3. now \div Window <= LastMarket
      BY <1>1, <3>1, Boundaries
    <3>4. EndOf(now \div Window) \in Nat
      BY <1>1, <3>2, Boundaries
    <3>5. QED BY <3>2, <3>3, <3>4
  <2>4. /\ UNCHANGED <<now, mishaps, cur, nxt, recorder, begun, ended>>
        /\ target' = now \div Window
        /\ applied' \subseteq {target'}
        /\ \/ at' = "finding" /\ due' = now + AskTime
           \/ at' = "waiting" /\ due' = now + Poll
    BY <1>4, <1>9, <2>1, <2>b DEF FindMarket, Ask, Go, At, records, main
  <2>5. LTypes'
    BY <2>1, <2>4, <2>2, <2>3, <1>1, <1>5, <1>6 DEF LTypes
  <2>6. LPlace'
    BY <2>1, <2>4, <2>2, <2>3, <1>1, <1>2, <1>5, <1>6, <2>c
       DEF LTypes, LPlace, LTarget, Asking, Closing
  <2>7. LRecorders'
    BY <2>1, <2>4, <2>2, <2>3, <1>1, <1>5, <1>6 DEF LTypes, LPlace, LRecorders, Closing
  <2>8. LTarget'
    BY <2>1, <2>4, <2>2, <2>3, <1>2, <1>5, <2>c, <1>1, <1>6
       DEF LPlace, LTarget, Asking, Closing
  <2>9. LTime'
    BY <2>1, <2>4, <2>2, <2>3, <1>1, <1>5, <1>6, <2>c
       DEF LTypes, LPlace, LTarget, LTime, Asking, Closing
  <2>10. LEarly'
    BY <2>1, <2>4, <2>2, <2>3, <1>1, <1>5, <1>6, <1>7
       DEF LTypes, LPlace, LTarget, LTime, LEarly, Asking, Closing
  <2>11. QED BY <2>5, <2>6, <2>7, <2>8, <2>9, <2>10 DEF CParts
<1>10. CASE Found
  <2>1. at = "finding"
    BY <1>10 DEF Found, At
  <2>2. /\ cur = Unset /\ nxt = Unset /\ target \in 0..LastMarket
        /\ now <= due /\ due <= EndOf(target) + AskTime
    BY <2>1, <1>5 DEF LPlace, LTarget, LTime
  <2>a. \A k \in Markets : begun[k] = Unset
    BY <2>2, <1>1, <1>2, <1>5 DEF LPlace
  <2>3. EndOf(target) \in Nat /\ target \in Nat /\ target \in Markets
    BY <1>2, <1>3, <2>2
  <2>4. /\ UNCHANGED <<now, mishaps, nxt, target, ended>>
        /\ cur' = target /\ applied' = applied \cup {target}
        /\ recorder' = [recorder EXCEPT ![target] = "running"]
        /\ begun' = [begun EXCEPT ![target] = now]
        /\ at' = "watch" /\ due' = now
    BY <1>4, <1>10, <2>1 DEF Found, Start, Go, At, records, main
  <2>5. LTypes'
    BY <2>1, <2>4, <2>2, <2>a, <2>3, <1>1, <1>5, <1>6 DEF LTypes
  <2>6. LPlace'
    BY <2>1, <2>4, <2>2, <2>a, <2>3, <1>1, <1>2, <1>5, <1>6
       DEF LTypes, LPlace, LTarget, Asking, Closing
  <2>7. LRecorders'
    BY <2>1, <2>4, <2>2, <2>a, <2>3, <1>1, <1>5, <1>6
       DEF LTypes, LPlace, LRecorders, Closing
  <2>8. LTarget'
    BY <2>1, <2>4, <2>2, <2>a, <2>3, <1>2, <1>5 DEF LPlace, LTarget, Asking, Closing
  <2>9. LTime'
    BY <2>1, <2>4, <2>2, <2>a, <2>3, <1>1, <1>5, <1>6
       DEF LTypes, LPlace, LTarget, LTime, Asking, Closing
  <2>10. LEarly'
    BY <2>1, <2>4, <2>2, <2>a, <2>3, <1>1, <1>5, <1>6, <1>7
       DEF LTypes, LPlace, LTarget, LTime, LEarly, Asking, Closing
  <2>11. QED BY <2>5, <2>6, <2>7, <2>8, <2>9, <2>10 DEF CParts
<1>11. CASE NotFound
  <2>1. at = "finding"
    BY <1>11 DEF NotFound, At
  <2>2. /\ cur = Unset /\ nxt = Unset /\ target \in 0..LastMarket
        /\ now <= due /\ due <= EndOf(target) + AskTime
    BY <2>1, <1>5 DEF LPlace, LTarget, LTime
  <2>a. \A k \in Markets : begun[k] = Unset
    BY <2>2, <1>1, <1>2, <1>5 DEF LPlace
  <2>3. EndOf(target) \in Nat /\ target \in Nat /\ target \in Markets
    BY <1>2, <1>3, <2>2
  <2>4. /\ UNCHANGED <<now, cur, nxt, target, applied, recorder, begun, ended>>
        /\ mishaps < MaxMishaps /\ mishaps' = mishaps + 1
        /\ at' = "waiting" /\ due' = now + Poll
    BY <1>4, <1>11, <2>1 DEF NotFound, NotApplied, Go, At, Mishap, records, main
  <2>5. LTypes'
    BY <2>1, <2>4, <2>2, <2>a, <2>3, <1>1, <1>5, <1>6 DEF LTypes
  <2>6. LPlace'
    BY <2>1, <2>4, <2>2, <2>a, <2>3, <1>1, <1>2, <1>5, <1>6
       DEF LTypes, LPlace, LTarget, Asking, Closing
  <2>7. LRecorders'
    BY <2>1, <2>4, <2>2, <2>a, <2>3, <1>1, <1>5, <1>6
       DEF LTypes, LPlace, LRecorders, Closing
  <2>8. LTarget'
    BY <2>1, <2>4, <2>2, <2>a, <2>3, <1>2, <1>5 DEF LPlace, LTarget, Asking, Closing
  <2>9. LTime'
    BY <2>1, <2>4, <2>2, <2>a, <2>3, <1>1, <1>5, <1>6
       DEF LTypes, LPlace, LTarget, LTime, Asking, Closing
  <2>10. LEarly'
    BY <2>1, <2>4, <2>2, <2>a, <2>3, <1>1, <1>5, <1>6, <1>7
       DEF LTypes, LPlace, LTarget, LTime, LEarly, Asking, Closing
  <2>11. QED BY <2>5, <2>6, <2>7, <2>8, <2>9, <2>10 DEF CParts
<1>12. CASE FindAgain
  <2>1. at = "waiting"
    BY <1>12 DEF FindAgain, At
  <2>2. cur = Unset /\ nxt = Unset
    BY <2>1, <1>5 DEF LPlace
  <2>3. \A k \in Markets : begun[k] = Unset
    BY <2>2, <1>1, <1>2, <1>5 DEF LPlace
  <2>4. /\ UNCHANGED <<now, mishaps, cur, nxt, target, applied, recorder, begun, ended>>
        /\ at' = "find" /\ due' = now
    BY <1>4, <1>12, <2>1 DEF FindAgain, Go, At, records, main
  <2>5. LTypes'
    BY <2>1, <2>4, <2>2, <2>3, <1>1, <1>5, <1>6 DEF LTypes
  <2>6. LPlace'
    BY <2>1, <2>4, <2>2, <2>3, <1>1, <1>2, <1>5, <1>6
       DEF LTypes, LPlace, LTarget, Asking, Closing
  <2>7. LRecorders'
    BY <2>1, <2>4, <2>2, <2>3, <1>1, <1>5, <1>6 DEF LTypes, LPlace, LRecorders, Closing
  <2>8. LTarget'
    BY <2>1, <2>4, <2>2, <2>3, <1>2, <1>5 DEF LPlace, LTarget, Asking, Closing
  <2>9. LTime'
    BY <2>1, <2>4, <2>2, <2>3, <1>1, <1>5, <1>6
       DEF LTypes, LPlace, LTarget, LTime, Asking, Closing
  <2>10. LEarly'
    BY <2>1, <2>4, <2>2, <2>3, <1>1, <1>5, <1>6, <1>7
       DEF LTypes, LPlace, LTarget, LTime, LEarly, Asking, Closing
  <2>11. QED BY <2>5, <2>6, <2>7, <2>8, <2>9, <2>10 DEF CParts
<1>13. CASE Watched
  <2>1. at = "watch"
    BY <1>13 DEF Watched, At
  <2>2. cur \in 0..LastMarket /\ begun[cur] # Unset
    BY <2>1, <1>2, <1>5 DEF LPlace, LTarget, LTime
  <2>3. /\ cur \in Nat /\ cur \in Markets /\ cur + 1 \in Markets /\ begun[cur] \in Nat
        /\ EndOf(cur) \in Nat /\ EndOf(cur + 1) = EndOf(cur) + Window
    BY <1>8, <2>2
  <2>4. /\ UNCHANGED <<now, mishaps, cur, nxt, target, applied, recorder, begun, ended>>
        /\ at' = "next" /\ due' = now
    BY <1>4, <1>13, <2>1 DEF Watched, Go, At, records, main
  <2>5. LTypes'
    BY <2>1, <2>4, <2>2, <2>3, <1>1, <1>5, <1>6 DEF LTypes
  <2>6. LPlace'
    BY <2>1, <2>4, <2>2, <2>3, <1>1, <1>2, <1>5, <1>6
       DEF LTypes, LPlace, LTarget, Asking, Closing
  <2>7. LRecorders'
    BY <2>1, <2>4, <2>2, <2>3, <1>1, <1>5, <1>6 DEF LTypes, LPlace, LRecorders, Closing
  <2>8. LTarget'
    BY <2>1, <2>4, <2>2, <2>3, <1>2, <1>5 DEF LPlace, LTarget, Asking, Closing
  <2>9. LTime'
    BY <2>1, <2>4, <2>2, <2>3, <1>1, <1>5, <1>6
       DEF LTypes, LPlace, LTarget, LTime, Asking, Closing
  <2>10. LEarly'
    BY <2>1, <2>4, <2>2, <2>3, <1>1, <1>5, <1>6, <1>7
       DEF LTypes, LPlace, LTarget, LTime, LEarly, Asking, Closing
  <2>11. QED BY <2>5, <2>6, <2>7, <2>8, <2>9, <2>10 DEF CParts
<1>14. CASE FindNext
  <2>1. at = "next"
    BY <1>14 DEF FindNext, At
  <2>2. cur \in 0..LastMarket /\ begun[cur] # Unset
    BY <2>1, <1>5 DEF LPlace
  <2>3. /\ cur \in Nat /\ cur \in Markets /\ cur + 1 \in Markets /\ begun[cur] \in Nat
        /\ EndOf(cur) \in Nat /\ EndOf(cur + 1) = EndOf(cur) + Window
    BY <1>8, <2>2
  <2>a. Applied(cur + 1) = {}
    BY <1>5, <2>1, <2>3 DEF LTarget, Applied
  <2>4. /\ UNCHANGED <<now, mishaps, cur, nxt, recorder, begun, ended>>
        /\ \/ at' = "grace" /\ now >= EndOf(cur) /\ due' = now /\ UNCHANGED <<target, applied>>
           \/ at' = "asking" /\ now < EndOf(cur) /\ due' = now + AskTime
              /\ target' = cur + 1 /\ applied' = {}
    <3>1. CASE now >= EndOf(cur)
      BY <1>4, <1>14, <3>1 DEF FindNext, Go, records, main
    <3>2. CASE ~(now >= EndOf(cur))
      <4>1. /\ Ask(cur + 1, "asking", "sleeping")
            /\ UNCHANGED <<now, mishaps, cur, nxt, recorder, begun, ended>>
        BY <1>4, <1>14, <3>2 DEF FindNext, records, main
      <4>2. target' = cur + 1 /\ applied' = {} /\ at' = "asking" /\ due' = now + AskTime
        BY <4>1, <2>a DEF Ask, Go
      <4>3. QED BY <4>1, <4>2, <3>2, <2>3, <1>6
    <3>3. QED BY <3>1, <3>2
  <2>5. LTypes'
    BY <2>1, <2>a, <2>4, <2>2, <2>3, <1>1, <1>5, <1>6 DEF LTypes
  <2>6. LPlace'
    BY <2>1, <2>a, <2>4, <2>2, <2>3, <1>1, <1>2, <1>5, <1>6
       DEF LTypes, LPlace, LTarget, Asking, Closing
  <2>7. LRecorders'
    BY <2>1, <2>a, <2>4, <2>2, <2>3, <1>1, <1>5, <1>6
       DEF LTypes, LPlace, LRecorders, Closing
  <2>8. LTarget'
    BY <2>1, <2>a, <2>4, <2>2, <2>3, <1>2, <1>5 DEF LPlace, LTarget, Asking, Closing
  <2>9. LTime'
    BY <2>1, <2>a, <2>4, <2>2, <2>3, <1>1, <1>5, <1>6
       DEF LTypes, LPlace, LTarget, LTime, Asking, Closing
  <2>10. LEarly'
    BY <2>1, <2>a, <2>4, <2>2, <2>3, <1>1, <1>5, <1>6, <1>7
       DEF LTypes, LPlace, LTarget, LTime, LEarly, Asking, Closing
  <2>11. QED BY <2>5, <2>6, <2>7, <2>8, <2>9, <2>10 DEF CParts
<1>15. CASE FoundNext
  <2>1. at = "asking"
    BY <1>15 DEF FoundNext, At
  <2>2. cur \in 0..LastMarket /\ begun[cur] # Unset
    BY <2>1, <1>2, <1>5 DEF LPlace, LTarget, LTime
  <2>3. /\ cur \in Nat /\ cur \in Markets /\ cur + 1 \in Markets /\ begun[cur] \in Nat
        /\ EndOf(cur) \in Nat /\ EndOf(cur + 1) = EndOf(cur) + Window
    BY <1>8, <2>2
  <2>4. /\ UNCHANGED <<now, mishaps, cur, target, recorder, begun, ended>>
        /\ nxt' = target /\ applied' = applied \cup {target}
        /\ at' = "overlap" /\ due' = now
    BY <1>4, <1>15, <2>1 DEF FoundNext, Go, At, records, main
  <2>5. LTypes'
    BY <2>1, <2>4, <2>2, <2>3, <1>1, <1>5, <1>6 DEF LTypes
  <2>6. LPlace'
    BY <2>1, <2>4, <2>2, <2>3, <1>1, <1>2, <1>5, <1>6
       DEF LTypes, LPlace, LTarget, Asking, Closing
  <2>7. LRecorders'
    BY <2>1, <2>4, <2>2, <2>3, <1>1, <1>5, <1>6 DEF LTypes, LPlace, LRecorders, Closing
  <2>8. LTarget'
    BY <2>1, <2>4, <2>2, <2>3, <1>2, <1>5 DEF LPlace, LTarget, Asking, Closing
  <2>9. LTime'
    BY <2>1, <2>4, <2>2, <2>3, <1>1, <1>5, <1>6
       DEF LTypes, LPlace, LTarget, LTime, Asking, Closing
  <2>10. LEarly'
    BY <2>1, <2>4, <2>2, <2>3, <1>1, <1>5, <1>6, <1>7
       DEF LTypes, LPlace, LTarget, LTime, LEarly, Asking, Closing
  <2>11. QED BY <2>5, <2>6, <2>7, <2>8, <2>9, <2>10 DEF CParts
<1>16. CASE NextNotFound
  <2>1. at = "asking"
    BY <1>16 DEF NextNotFound, At
  <2>2. cur \in 0..LastMarket /\ begun[cur] # Unset
    BY <2>1, <1>2, <1>5 DEF LPlace, LTarget, LTime
  <2>3. /\ cur \in Nat /\ cur \in Markets /\ cur + 1 \in Markets /\ begun[cur] \in Nat
        /\ EndOf(cur) \in Nat /\ EndOf(cur + 1) = EndOf(cur) + Window
    BY <1>8, <2>2
  <2>4. /\ UNCHANGED <<now, cur, nxt, target, applied, recorder, begun, ended>>
        /\ mishaps < MaxMishaps /\ mishaps' = mishaps + 1
        /\ \/ at' = "grace" /\ now >= EndOf(cur) /\ due' = now
           \/ at' = "sleeping" /\ now < EndOf(cur)
              /\ due' = (IF now + Poll < EndOf(cur) THEN now + Poll ELSE EndOf(cur))
    <3>1. CASE now >= EndOf(cur)
      BY <1>4, <1>16, <3>1 DEF NextNotFound, NotApplied, Go, Mishap, records, main
    <3>2. CASE ~(now >= EndOf(cur))
      BY <1>4, <1>16, <3>2, <2>3, <1>6
         DEF NextNotFound, NotApplied, Go, Mishap, Earlier, records, main
    <3>3. QED BY <3>1, <3>2
  <2>5. LTypes'
    BY <2>1, <2>4, <2>2, <2>3, <1>1, <1>5, <1>6 DEF LTypes
  <2>6. LPlace'
    BY <2>1, <2>4, <2>2, <2>3, <1>1, <1>2, <1>5, <1>6
       DEF LTypes, LPlace, LTarget, Asking, Closing
  <2>7. LRecorders'
    BY <2>1, <2>4, <2>2, <2>3, <1>1, <1>5, <1>6 DEF LTypes, LPlace, LRecorders, Closing
  <2>8. LTarget'
    BY <2>1, <2>4, <2>2, <2>3, <1>2, <1>5 DEF LPlace, LTarget, Asking, Closing
  <2>9. LTime'
    BY <2>1, <2>4, <2>2, <2>3, <1>1, <1>5, <1>6
       DEF LTypes, LPlace, LTarget, LTime, Asking, Closing
  <2>10. LEarly'
    BY <2>1, <2>4, <2>2, <2>3, <1>1, <1>5, <1>6, <1>7
       DEF LTypes, LPlace, LTarget, LTime, LEarly, Asking, Closing
  <2>11. QED BY <2>5, <2>6, <2>7, <2>8, <2>9, <2>10 DEF CParts
<1>17. CASE FindNextAgain
  <2>1. at = "sleeping"
    BY <1>17 DEF FindNextAgain, At
  <2>2. cur \in 0..LastMarket /\ begun[cur] # Unset
    BY <2>1, <1>2, <1>5 DEF LPlace, LTarget, LTime
  <2>3. /\ cur \in Nat /\ cur \in Markets /\ cur + 1 \in Markets /\ begun[cur] \in Nat
        /\ EndOf(cur) \in Nat /\ EndOf(cur + 1) = EndOf(cur) + Window
    BY <1>8, <2>2
  <2>4. /\ UNCHANGED <<now, mishaps, cur, nxt, target, applied, recorder, begun, ended>>
        /\ at' = "next" /\ due' = now
    BY <1>4, <1>17, <2>1 DEF FindNextAgain, Go, At, records, main
  <2>5. LTypes'
    BY <2>1, <2>4, <2>2, <2>3, <1>1, <1>5, <1>6 DEF LTypes
  <2>6. LPlace'
    BY <2>1, <2>4, <2>2, <2>3, <1>1, <1>2, <1>5, <1>6
       DEF LTypes, LPlace, LTarget, Asking, Closing
  <2>7. LRecorders'
    BY <2>1, <2>4, <2>2, <2>3, <1>1, <1>5, <1>6 DEF LTypes, LPlace, LRecorders, Closing
  <2>8. LTarget'
    BY <2>1, <2>4, <2>2, <2>3, <1>2, <1>5 DEF LPlace, LTarget, Asking, Closing
  <2>9. LTime'
    BY <2>1, <2>4, <2>2, <2>3, <1>1, <1>5, <1>6
       DEF LTypes, LPlace, LTarget, LTime, Asking, Closing
  <2>10. LEarly'
    BY <2>1, <2>4, <2>2, <2>3, <1>1, <1>5, <1>6, <1>7
       DEF LTypes, LPlace, LTarget, LTime, LEarly, Asking, Closing
  <2>11. QED BY <2>5, <2>6, <2>7, <2>8, <2>9, <2>10 DEF CParts
<1>18. CASE StartNext
  <2>1. at = "overlap"
    BY <1>18 DEF StartNext, At
  <2>2. cur \in 0..LastMarket /\ begun[cur] # Unset
    BY <2>1, <1>2, <1>5 DEF LPlace, LTarget, LTime
  <2>3. /\ cur \in Nat /\ cur \in Markets /\ cur + 1 \in Markets /\ begun[cur] \in Nat
        /\ EndOf(cur) \in Nat /\ EndOf(cur + 1) = EndOf(cur) + Window
    BY <1>8, <2>2
  <2>4. /\ UNCHANGED <<now, mishaps, cur, nxt, target, applied, ended>>
        /\ recorder' = [recorder EXCEPT ![nxt] = "running"]
        /\ begun' = [begun EXCEPT ![nxt] = now]
        /\ at' = "grace" /\ due' = now
    BY <1>4, <1>18, <2>1 DEF StartNext, Start, Go, At, records, main
  <2>a. nxt = cur + 1 /\ nxt \in Markets
    BY <2>1, <2>3, <1>5 DEF LPlace
  <2>5. LTypes'
    BY <2>1, <2>4, <2>2, <2>3, <2>a, <1>1, <1>5, <1>6 DEF LTypes
  <2>6. LPlace'
    BY <2>1, <2>4, <2>2, <2>3, <2>a, <1>1, <1>2, <1>5, <1>6
       DEF LTypes, LPlace, LTarget, Asking, Closing
  <2>7. LRecorders'
    BY <2>1, <2>4, <2>2, <2>3, <2>a, <1>1, <1>5, <1>6
       DEF LTypes, LPlace, LRecorders, Closing
  <2>8. LTarget'
    BY <2>1, <2>4, <2>2, <2>3, <2>a, <1>2, <1>5 DEF LPlace, LTarget, Asking, Closing
  <2>9. LTime'
    BY <2>1, <2>4, <2>2, <2>3, <2>a, <1>1, <1>5, <1>6
       DEF LTypes, LPlace, LTarget, LTime, Asking, Closing
  <2>10. LEarly'
    BY <2>1, <2>4, <2>2, <2>3, <2>a, <1>1, <1>5, <1>6, <1>7
       DEF LTypes, LPlace, LTarget, LTime, LEarly, Asking, Closing
  <2>11. QED BY <2>5, <2>6, <2>7, <2>8, <2>9, <2>10 DEF CParts
<1>19. CASE StopRecorder
  <2>1. at = "grace"
    BY <1>19 DEF StopRecorder, At
  <2>2. cur \in 0..LastMarket /\ begun[cur] # Unset
    BY <2>1, <1>2, <1>5 DEF LPlace, LTarget, LTime
  <2>3. /\ cur \in Nat /\ cur \in Markets /\ cur + 1 \in Markets /\ begun[cur] \in Nat
        /\ EndOf(cur) \in Nat /\ EndOf(cur + 1) = EndOf(cur) + Window
    BY <1>8, <2>2
  <2>4. /\ UNCHANGED <<now, mishaps, cur, nxt, target, applied, begun>>
        /\ now >= EndOf(cur) + Grace
        /\ \/ UNCHANGED <<recorder, ended>>
           \/ /\ recorder[cur] = "running"
              /\ recorder' = [recorder EXCEPT ![cur] = "stopping"]
              /\ ended' = [ended EXCEPT ![cur] = now]
        /\ at' = "await" /\ due' = now + Patience
    BY <1>4, <1>19, <2>1 DEF StopRecorder, Go, At, records, main
  <2>5. LTypes'
    BY <2>1, <2>4, <2>2, <2>3, <1>1, <1>5, <1>6 DEF LTypes
  <2>6. LPlace'
    BY <2>1, <2>4, <2>2, <2>3, <1>1, <1>2, <1>5, <1>6
       DEF LTypes, LPlace, LTarget, Asking, Closing
  <2>7. LRecorders'
    BY <2>1, <2>4, <2>2, <2>3, <1>1, <1>5, <1>6 DEF LTypes, LPlace, LRecorders, Closing
  <2>8. LTarget'
    BY <2>1, <2>4, <2>2, <2>3, <1>2, <1>5 DEF LPlace, LTarget, Asking, Closing
  <2>9. LTime'
    BY <2>1, <2>4, <2>2, <2>3, <1>1, <1>5, <1>6
       DEF LTypes, LPlace, LTarget, LTime, Asking, Closing
  <2>10. LEarly'
    BY <2>1, <2>4, <2>2, <2>3, <1>1, <1>5, <1>6, <1>7
       DEF LTypes, LPlace, LTarget, LTime, LEarly, Asking, Closing
  <2>11. QED BY <2>5, <2>6, <2>7, <2>8, <2>9, <2>10 DEF CParts
<1>20. CASE Await
  <2>1. at = "await"
    BY <1>20 DEF Await, At
  <2>2. cur \in 0..LastMarket /\ begun[cur] # Unset
    BY <2>1, <1>2, <1>5 DEF LPlace, LTarget, LTime
  <2>3. /\ cur \in Nat /\ cur \in Markets /\ cur + 1 \in Markets /\ begun[cur] \in Nat
        /\ EndOf(cur) \in Nat /\ EndOf(cur + 1) = EndOf(cur) + Window
    BY <1>8, <2>2
  <2>4. /\ UNCHANGED <<now, mishaps, cur, nxt, target, applied, begun, ended>>
        /\ \/ recorder[cur] = "ended" /\ UNCHANGED recorder
           \/ recorder[cur] = "stopping" /\ recorder' = [recorder EXCEPT ![cur] = "cut"]
        /\ at' = "report" /\ due' = now + ReportTime
    BY <1>4, <1>20, <2>1 DEF Await, Go, At, records, main
  <2>5. LTypes'
    BY <2>1, <2>4, <2>2, <2>3, <1>1, <1>5, <1>6 DEF LTypes
  <2>6. LPlace'
    BY <2>1, <2>4, <2>2, <2>3, <1>1, <1>2, <1>5, <1>6
       DEF LTypes, LPlace, LTarget, Asking, Closing
  <2>7. LRecorders'
    BY <2>1, <2>4, <2>2, <2>3, <1>1, <1>5, <1>6 DEF LTypes, LPlace, LRecorders, Closing
  <2>8. LTarget'
    BY <2>1, <2>4, <2>2, <2>3, <1>2, <1>5 DEF LPlace, LTarget, Asking, Closing
  <2>9. LTime'
    BY <2>1, <2>4, <2>2, <2>3, <1>1, <1>5, <1>6
       DEF LTypes, LPlace, LTarget, LTime, Asking, Closing
  <2>10. LEarly'
    BY <2>1, <2>4, <2>2, <2>3, <1>1, <1>5, <1>6, <1>7
       DEF LTypes, LPlace, LTarget, LTime, LEarly, Asking, Closing
  <2>11. QED BY <2>5, <2>6, <2>7, <2>8, <2>9, <2>10 DEF CParts
<1>21. CASE Reported
  <2>1. at = "report"
    BY <1>21 DEF Reported, At
  <2>2. cur \in 0..LastMarket /\ begun[cur] # Unset
    BY <2>1, <1>2, <1>5 DEF LPlace, LTarget, LTime
  <2>3. /\ cur \in Nat /\ cur \in Markets /\ cur + 1 \in Markets /\ begun[cur] \in Nat
        /\ EndOf(cur) \in Nat /\ EndOf(cur + 1) = EndOf(cur) + Window
    BY <1>8, <2>2
  <2>4. /\ UNCHANGED <<now, mishaps, target, applied, recorder>>
        /\ cur' = nxt /\ nxt' = Unset /\ due' = now
        /\ at' = (IF nxt = Unset THEN "find" ELSE "watch")
        /\ begun' = [begun EXCEPT ![cur] = Unset]
        /\ ended' = [ended EXCEPT ![cur] = Unset]
    BY <1>4, <1>21, <2>1 DEF Reported, Go, At, records, main
  <2>a. nxt = Unset \/ (nxt = cur + 1 /\ begun[nxt] # Unset /\ nxt \in 0..LastMarket)
    <3>1. now >= EndOf(cur) + Grace /\ (nxt = Unset \/ (nxt = cur + 1 /\ begun[nxt] # Unset))
      BY <2>1, <1>5 DEF LPlace, Closing
    <3>2. now <= Duration \/ now < Window
      BY <1>5 DEF LTypes
    <3>3. EndOf(cur) <= now
      BY <3>1, <2>3, <1>1, <1>6
    <3>4. cur + 1 <= LastMarket
      BY <3>2, <3>3, <2>3, <1>1, <1>6, Boundaries
    <3>5. QED BY <3>1, <3>4, <2>3, <1>2
  <2>b. nxt # Unset => EndOf(nxt) \in Nat /\ EndOf(nxt) = EndOf(cur) + Window
    BY <2>a, <2>3, <1>1
  <2>5. LTypes'
    BY <2>1, <2>4, <2>2, <2>3, <2>a, <2>b, <1>1, <1>5, <1>6 DEF LTypes
  <2>6. LPlace'
    BY <2>1, <2>4, <2>2, <2>3, <2>a, <2>b, <1>1, <1>2, <1>5, <1>6
       DEF LTypes, LPlace, LTarget, Asking, Closing
  <2>7. LRecorders'
    BY <2>1, <2>4, <2>2, <2>3, <2>a, <2>b, <1>1, <1>5, <1>6
       DEF LTypes, LPlace, LRecorders, Closing
  <2>8. LTarget'
    BY <2>1, <2>4, <2>2, <2>3, <2>a, <2>b, <1>2, <1>5 DEF LPlace, LTarget, Asking, Closing
  <2>9. LTime'
    BY <2>1, <2>4, <2>2, <2>3, <2>a, <2>b, <1>1, <1>5, <1>6
       DEF LTypes, LPlace, LTarget, LTime, Asking, Closing
  <2>10. LEarly'
    BY <2>1, <2>4, <2>2, <2>3, <2>a, <2>b, <1>1, <1>5, <1>6, <1>7
       DEF LTypes, LPlace, LTarget, LTime, LEarly, Asking, Closing
  <2>11. QED BY <2>5, <2>6, <2>7, <2>8, <2>9, <2>10 DEF CParts
<1>22. CASE TicksFail
  <2>4. /\ UNCHANGED <<now, at, due, cur, nxt, target, applied, recorder, begun, ended>>
        /\ mishaps < MaxMishaps /\ mishaps' = mishaps + 1
    BY <1>4, <1>22 DEF TicksFail, Mishap, book, records, main
  <2>a. Cost(mishaps') \in Nat /\ Cost(mishaps) <= Cost(mishaps')
    BY <2>4, <1>1, <1>7
  <2>b. at \notin {"find", "finding", "waiting"} =>
          /\ cur \in Nat /\ cur \in Markets /\ cur + 1 \in Markets /\ begun[cur] \in Nat
          /\ EndOf(cur) \in Nat
    BY <1>5, <1>8 DEF LPlace
  <2>5. LTypes'
    BY <2>4, <1>1, <1>5, <1>6 DEF LTypes
  <2>6. LPlace'
    BY <2>4, <1>1, <1>2, <1>5, <1>6 DEF LTypes, LPlace, LTarget, Asking, Closing
  <2>7. LRecorders'
    BY <2>4, <1>1, <1>5, <1>6 DEF LTypes, LPlace, LRecorders, Closing
  <2>8. LTarget'
    BY <2>4, <1>2, <1>5 DEF LPlace, LTarget, Asking, Closing
  <2>9. LTime'
    BY <2>4, <1>1, <1>5, <1>6 DEF LTypes, LPlace, LTarget, LTime, Asking, Closing
  <2>10. LEarly'
    BY <2>4, <2>a, <2>b, <1>1, <1>5, <1>6, <1>7
       DEF LTypes, LPlace, LTarget, LTime, LEarly, Asking, Closing
  <2>11. QED BY <2>5, <2>6, <2>7, <2>8, <2>9, <2>10 DEF CParts
<1>23. CASE Tick
  <2>4. /\ UNCHANGED <<mishaps, at, due, cur, nxt, target, applied, recorder, begun, ended>>
        /\ now' = now + 1 /\ now < Duration
        /\ at \notin {"find", "next"}
        /\ at = "watch" => ~(now >= EndOf(cur) - Prediscovery)
        /\ at = "overlap" => ~(now >= EndOf(cur) - Overlap)
        /\ at = "grace" => ~(now >= EndOf(cur) + Grace)
        /\ at \in {"finding", "asking", "report", "await"} => now < due
        /\ at \in {"waiting", "sleeping"} => ~(now >= due)
    BY <1>4, <1>23 DEF Tick, BookReady, book, records, main
  <2>b. at \notin {"find", "finding", "waiting"} =>
          /\ cur \in Nat /\ cur \in Markets /\ cur + 1 \in Markets /\ begun[cur] \in Nat
          /\ EndOf(cur) \in Nat
    BY <1>5, <1>8 DEF LPlace
  <2>c. at = "finding" => EndOf(target) \in Nat
    BY <1>3, <1>5 DEF LTarget
  <2>5. LTypes'
    BY <2>4, <2>b, <2>c, <1>1, <1>5, <1>6 DEF LTypes
  <2>6. LPlace'
    BY <2>4, <2>b, <2>c, <1>1, <1>2, <1>5, <1>6 DEF LTypes, LPlace, LTarget, Asking, Closing
  <2>7. LRecorders'
    BY <2>4, <2>b, <2>c, <1>1, <1>5, <1>6 DEF LTypes, LPlace, LRecorders, Closing
  <2>8. LTarget'
    BY <2>4, <2>b, <2>c, <1>2, <1>5 DEF LPlace, LTarget, Asking, Closing
  <2>9. LTime'
    BY <2>4, <2>b, <2>c, <1>1, <1>5, <1>6
       DEF LTypes, LPlace, LTarget, LTime, Asking, Closing
  <2>10. LEarly'
    BY <2>4, <2>b, <2>c, <1>1, <1>5, <1>6, <1>7
       DEF LTypes, LPlace, LTarget, LTime, LEarly, Asking, Closing
  <2>11. QED BY <2>5, <2>6, <2>7, <2>8, <2>9, <2>10 DEF CParts
<1>24. CASE StartFails \/ AwaitRaises \/ ReportHangs
  BY <1>4, <1>24 DEF StartFails, AwaitRaises, ReportHangs, Go
<1>25. ASSUME NEW k \in Markets, RecorderEnds(k) PROVE CParts'
  <2>1. /\ UNCHANGED <<now, at, due, cur, nxt, target, applied, begun, ended, mishaps>>
        /\ recorder[k] = "stopping"
        /\ recorder' = [recorder EXCEPT ![k] = "ended"]
    BY <1>25 DEF RecorderEnds, book
  <2>2. LTypes'
    BY <2>1, <1>5 DEF LTypes
  <2>3. LRecorders'
    BY <2>1, <1>5 DEF LTypes, LRecorders
  <2>4. LPlace' /\ LTarget' /\ LTime' /\ LEarly'
    BY <2>1, <1>5 DEF LPlace, LTarget, LTime, LEarly
  <2>5. QED BY <2>2, <2>3, <2>4 DEF CParts
<1>26. ASSUME NEW k \in Markets, RecorderFails(k) PROVE CParts'
  <2>1. /\ UNCHANGED <<now, at, due, cur, nxt, target, applied, begun>>
        /\ recorder[k] \in {"running", "stopping"}
        /\ recorder' = [recorder EXCEPT ![k] = "failed"]
        /\ ended' = [ended EXCEPT ![k] = IF @ = Unset THEN now ELSE @]
        /\ mishaps < MaxMishaps /\ mishaps' = mishaps + 1
    BY <1>26 DEF RecorderFails, book, Mishap
  <2>a. Cost(mishaps') \in Nat /\ Cost(mishaps) <= Cost(mishaps')
    BY <2>1, <1>1, <1>7
  <2>b. at \notin {"find", "finding", "waiting"} =>
          /\ cur \in Nat /\ cur \in Markets /\ cur + 1 \in Markets /\ begun[cur] \in Nat
          /\ EndOf(cur) \in Nat
    BY <1>5, <1>8 DEF LPlace
  <2>2. LTypes'
    BY <2>1, <1>5, <1>6 DEF LTypes
  <2>3. LRecorders'
    BY <2>1, <1>5 DEF LTypes, LRecorders
  <2>4. LPlace' /\ LTarget' /\ LTime'
    BY <2>1, <1>5 DEF LPlace, LTarget, LTime
  <2>5. LEarly'
    BY <2>1, <2>a, <2>b, <1>1, <1>5, <1>6, <1>7 DEF LEarly
  <2>6. QED BY <2>2, <2>3, <2>4, <2>5 DEF CParts
<1>27. ~(TicksEnd \/ RequestStop \/ FirstEnds)
  BY <1>4 DEF TicksEnd, RequestStop, FirstEnds
<1>28. ~Exit /\ \A t \in {"book", "ticks"} : ~WaitFor(t) /\ ~WaitRaises(t)
  BY DEF Exit, WaitFor, WaitRaises
<1>29. QED
  BY <1>9, <1>10, <1>11, <1>12, <1>13, <1>14, <1>15, <1>16, <1>17, <1>18, <1>19, <1>20,
     <1>21, <1>22, <1>23, <1>24, <1>25, <1>26, <1>27, <1>28 DEF CollectorNext, BookStep

\* The inductive invariant of the collector.
LEMMA CollectorHolds ==
  ASSUME DiscoveryInTime
  PROVE  CollectorSpec => []CollectorInv
<1>1. ASSUME CollectorInit PROVE CollectorInv
  <2>1. /\ at = "find" /\ cur = Unset /\ nxt = Unset /\ due = 0 /\ target = Unset /\ applied = {}
        /\ stopSet = FALSE /\ run = "running" /\ mishaps = 0
        /\ recorder = [k \in Markets |-> "none"]
        /\ begun = [k \in Markets |-> Unset] /\ ended = [k \in Markets |-> Unset]
    BY <1>1 DEF CollectorInit
  <2>2. now \in Nat /\ now < Window
    BY <1>1, TimesAssumption, Settings DEF CollectorInit
  <2>3. LTypes
    BY <2>1, <2>2, Settings DEF LTypes
  <2>4. LPlace /\ LRecorders /\ LTarget /\ LTime /\ LEarly
    BY <2>1 DEF LPlace, LRecorders, LTarget, LTime, LEarly, Asking, Closing
  <2>5. QED BY <2>1, <2>3, <2>4 DEF CollectorInv, Live, CParts
<1>2. ASSUME CollectorInv, [CollectorNext]_collectorVars PROVE CollectorInv'
  <2>1. CASE UNCHANGED collectorVars
    <3>1. UNCHANGED <<now, stopSet, at, cur, nxt, due, target, applied, recorder, begun, ended,
                      run, mishaps>>
      BY <2>1 DEF collectorVars, book, records, main
    <3>2. LTypes /\ LPlace /\ LRecorders /\ LTarget /\ LTime /\ LEarly =>
            LTypes' /\ LPlace' /\ LRecorders' /\ LTarget' /\ LTime' /\ LEarly'
      BY <3>1 DEF LTypes, LPlace, LRecorders, LTarget, LTime, LEarly
    <3>3. QED BY <1>2, <3>1, <3>2 DEF CollectorInv, Live, CParts
  <2>2. CASE CollectorNext
    <3>1. /\ stopSet' \in BOOLEAN /\ (stopSet => stopSet')
          /\ at' \in {"over", "cut"} => stopSet'
          /\ run' # "running" => stopSet'
          /\ at \in {"hung", "raised"} => at' \in {"hung", "raised"} \/ stopSet'
      <4>0. /\ stopSet \in BOOLEAN /\ (at \in {"over", "cut"} => stopSet)
            /\ (run # "running" => stopSet)
        BY <1>2 DEF CollectorInv
      <4>1. CASE BookStep
        <5>1. stopSet' = stopSet /\ run' = run /\ at \notin {"hung", "raised"}
          BY <4>1 DEF BookStep, FindMarket, Found, NotFound, FindAgain, Watched, FindNext,
             FoundNext, NextNotFound, FindNextAgain, StartNext, StartFails, StopRecorder,
             Await, AwaitRaises, ReportHangs, Reported, At, main
        <5>2. at' \in {"over", "cut"} => stopSet
          BY <4>1 DEF BookStep, FindMarket, Found, NotFound, FindAgain, Watched, FindNext,
             FoundNext, NextNotFound, FindNextAgain, StartNext, StartFails, StopRecorder,
             Await, AwaitRaises, ReportHangs, Reported, At, Go, Ask
        <5>3. QED BY <4>0, <5>1, <5>2
      <4>2. CASE TicksEnd \/ TicksFail \/ Exit \/ Tick
                 \/ \E k \in Markets : RecorderEnds(k) \/ RecorderFails(k)
        BY <4>0, <4>2
           DEF TicksEnd, TicksFail, Exit, Tick, RecorderEnds, RecorderFails, book, main
      <4>3. CASE RequestStop \/ FirstEnds
        BY <4>0, <4>3 DEF RequestStop, FirstEnds, book, main
      <4>4. CASE \E t \in {"book", "ticks"} : WaitFor(t) \/ WaitRaises(t)
        BY <4>0, <4>4 DEF WaitFor, WaitRaises, book, main
      <4>5. QED BY <2>2, <4>1, <4>2, <4>3, <4>4 DEF CollectorNext
    <3>2. ASSUME Live' PROVE CParts'
      <4>1. Live /\ run = "running"
        BY <1>2, <3>1, <3>2 DEF Live, CollectorInv
      <4>2. CParts
        BY <1>2, <4>1 DEF CollectorInv, CParts
      <4>3. QED BY <2>2, <3>2, <4>1, <4>2, LiveStep
    <3>3. QED BY <3>1, <3>2 DEF CollectorInv, CParts
  <2>3. QED BY <1>2, <2>1, <2>2
<1>3. QED BY <1>1, <1>2, PTL DEF CollectorSpec

\* If discovery has the time it needs, a market that was recorded when the
\* search for its successor began is followed without a gap, whatever calls and
\* recorders fail, and its own recorder is not stopped before the grace period
\* is over (run_book_forever, wait_for_next_market).
THEOREM NextMarketIsFollowed ==
  ASSUME DiscoveryInTime
  PROVE  CollectorSpec => []NoGap
<1>1. ASSUME CollectorInv PROVE NoGap
  <2>1. SUFFICES ASSUME NEW k \in Markets, begun[k] # Unset, now >= EndOf(k), Live
                 PROVE  /\ begun[k] <= EndOf(k) - Prediscovery =>
                             begun[k + 1] # Unset /\ begun[k + 1] <= EndOf(k)
                        /\ recorder[k] = "failed" \/ ended[k] = Unset \/ ended[k] >= EndOf(k) + Grace
    BY DEF NoGap, Live
  <2>2. LTypes /\ LPlace /\ LRecorders /\ LTarget /\ LTime /\ LEarly
    BY <1>1, <2>1 DEF CollectorInv, CParts
  <2>3. recorder[k] = "failed" \/ ended[k] = Unset \/ ended[k] >= EndOf(k) + Grace
    BY <2>1, <2>2 DEF LRecorders
  <2>4. ASSUME begun[k] <= EndOf(k) - Prediscovery
        PROVE  begun[k + 1] # Unset /\ begun[k + 1] <= EndOf(k)
    <3>1. /\ Window \in Nat /\ Prediscovery \in Nat /\ Grace \in Nat /\ Patience \in Nat
          /\ AskTime \in Nat /\ ReportTime \in Nat /\ Unset \notin Int /\ Window > 0
          /\ Grace + Patience + ReportTime <= Window - Prediscovery
          /\ Later = Grace + Lateness /\ Lateness \in Nat /\ Lateness < Prediscovery
          /\ AskTime < Prediscovery /\ Poll \in Nat /\ MaxMishaps \in Nat
      <4>1. MaxMishaps * (AskTime + Poll) \in Nat
        BY Settings
      <4>2. Lateness + MaxMishaps * (AskTime + Poll) + AskTime < Prediscovery
        BY DEF DiscoveryInTime
      <4>3. QED BY <4>1, <4>2, Settings DEF Later
    <3>2. LastMarket \in Nat /\ Markets = 0..LastMarket + 1
      BY <3>1, Boundaries
    <3>3. now \in Nat /\ due \in Int /\ mishaps \in 0..MaxMishaps
      BY <2>2 DEF LTypes
    <3>4. at \notin {"find", "finding", "waiting"} /\ cur \in 0..LastMarket
      <4>1. at \in {"find", "finding", "waiting"} => cur = Unset /\ nxt = Unset
        BY <2>2 DEF LPlace
      <4>2. k # Unset /\ (k = cur \/ k = nxt)
        BY <2>1, <2>2, <3>1, <3>2 DEF LPlace
      <4>3. QED BY <4>1, <4>2, <2>2 DEF LPlace
    <3>5. EndOf(cur) \in Nat /\ EndOf(cur + 1) = EndOf(cur) + Window /\ cur \in Nat
      <4>1. cur \in Nat
        BY <3>2, <3>4
      <4>2. QED BY <4>1, <3>1, Boundaries
    <3>6. /\ Lateness + Cost(mishaps) + AskTime < Prediscovery /\ Cost(mishaps) \in Nat
      <4>1. Lateness + Cost(MaxMishaps) + AskTime < Prediscovery
        BY DEF DiscoveryInTime, Cost
      <4>2. /\ Cost(mishaps) <= Cost(MaxMishaps) /\ Cost(mishaps) \in Nat
            /\ Cost(MaxMishaps) \in Nat
        BY <3>1, <3>3, Costs
      <4>3. QED BY <4>1, <4>2, <3>1
    <3>7. CASE k = cur
      <4>1. at \in Closing
        <5>1. begun[cur] <= EndOf(cur) - Prediscovery /\ now >= EndOf(cur)
          BY <2>1, <2>4, <3>7
        <5>2. at \notin {"watch", "next", "asking", "sleeping", "overlap"}
          BY <5>1, <2>2, <3>1, <3>3, <3>4, <3>5, <3>6 DEF LEarly, LTime
        <5>3. QED BY <5>2, <2>2, <3>4 DEF LTypes, Closing
      <4>2. nxt # Unset /\ begun[nxt] <= EndOf(cur) /\ begun[nxt] # Unset /\ nxt = cur + 1
        BY <4>1, <2>2, <2>4, <3>4, <3>7 DEF LEarly, LPlace
      <4>3. QED BY <4>2, <3>7
    <3>8. CASE k # cur
      <4>1. k = nxt /\ at \in Closing /\ nxt = cur + 1
        BY <2>1, <2>2, <3>1, <3>2, <3>4, <3>8 DEF LPlace, LTypes, Asking, Closing
      <4>2. now <= EndOf(cur) + Later + Patience + ReportTime
        BY <4>1, <2>2, <3>1, <3>3, <3>5 DEF LTime, Closing
      <4>3. now < EndOf(cur) + Window
        BY <4>2, <3>1, <3>3, <3>5
      <4>4. QED BY <4>1, <4>3, <2>1, <3>1, <3>3, <3>5
    <3>9. QED BY <3>7, <3>8
  <2>5. QED BY <2>3, <2>4
<1>2. QED BY <1>1, CollectorHolds, PTL
=============================================================================
