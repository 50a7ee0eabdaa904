---------------------------- MODULE BookRecorder ----------------------------
(***************************************************************************)
(* BookRecorder: one market's websocket frames, on their way to disk.      *)
(*                                                                         *)
(* The event loop runs the session: connect, subscribe, read, reconnect.   *)
(* Each frame becomes a batch of rows that a pool thread puts into a       *)
(* bounded queue while the session waits for it.  A writer thread takes    *)
(* the batches out and appends their rows to a rotating file; a file that  *)
(* is closed gets a sidecar with its record count and hash.  stop() asks   *)
(* the session to end; then None goes through the same queue and the       *)
(* writer is joined.  The owner calls stop() when the market is over and   *)
(* cancels the task when it has not ended after a while.                   *)
(*                                                                         *)
(* Between two statements of one thread the others run, the peer or the    *)
(* watchdog closes the socket, any file operation raises, the process dies.*)
(* Rows are numbered as they are received.                                 *)
(***************************************************************************)
EXTENDS Integers, SequencesExt

CONSTANTS
  QueueSize,    \* writer_queue_batches
  FsyncEvery,   \* fsync_every_records
  None,         \* no writer error, no sidecar
  MaxBatch,     \* bound on the rows of one frame
  MaxRows,      \* bound on the rows of one market
  MaxCancels    \* bound on the times the owner cancels the task

ASSUME RecorderAssumption ==
  /\ {QueueSize, FsyncEvery, MaxBatch} \subseteq Nat \ {0}
  /\ {MaxRows, MaxCancels} \subseteq Nat
  /\ None \notin {"raw", "sidecar", "returned", "failed", "cancelled"}

VARIABLES
  \* the session, on the event loop
  pc,         \* where it awaits, "ended", or "gone" with the process
  stop,       \* session._stop
  wake,       \* the task of stop() that will close the active socket
  open,       \* the stream has not come to its end
  exit,       \* how the session ended
  cancels,    \* how often the owner cancelled the task
  received,   \* the rows handed to the writer
  \* between the session and the writer
  putting,    \* what pool threads are still to put into the queue
  queue,      \* _write_queue
  \* the writer thread
  writer,     \* its next statement, "done" or "dead"
  hand,       \* the rows of its batch that it still has to append
  error,      \* _writer_error_kind
  \* on disk
  files       \* the raw files in order: rows, how many of them were fsynced,
              \* and the rows that the sidecar counted and hashed

session == <<stop, wake, open, exit, cancels, received>>
loop == <<pc, session>>
thread == <<writer, hand, error, files>>
vars == <<loop, putting, queue, thread>>

-----------------------------------------------------------------------------
(* The None that ends the writer; a batch is never empty.                   *)
End == <<>>

Rows    == 1..MaxRows
Batches == {b \in Seq(Rows) : b # End /\ Len(b) <= MaxBatch}
Files   == [rows : Seq(Rows), synced : Nat, sidecar : {None} \cup Seq(Rows)]
NewFile == [rows |-> <<>>, synced |-> 0, sidecar |-> None]

Connection == {"subscribe", "read", "put"}
Session    == {"connect", "closing", "backoff"} \cup Connection
Finishing  == {"drain", "join"}
Current == files[Len(files)]

Init ==
  /\ pc = "connect" /\ stop = FALSE /\ wake = FALSE /\ open = FALSE
  /\ exit = None /\ cancels = 0 /\ received = 0
  /\ putting = {} /\ queue = <<>>
  /\ writer = "get" /\ hand = <<>> /\ error = None
  /\ files = <<NewFile>>

-----------------------------------------------------------------------------
(* The session.                                                             *)

(* Fault: the None is never put.                                            *)
EndWithoutNone(how) ==
  /\ pc' = "drain"
  /\ open' = FALSE
  /\ exit' \in {how, "failed"}
  /\ UNCHANGED putting

(* It ends as how, or raises because its last journal entry failed; either  *)
(* way the recorder puts None.                                              *)
EndSession(how) ==
  /\ pc' = "drain"
  /\ open' = FALSE
  /\ exit' \in {how, "failed"}
  /\ putting' = putting \cup {End}

(* The socket opens.  Nothing looks at stop before the next disconnect.     *)
Connect ==
  /\ pc = "connect"
  /\ pc' = "subscribe" /\ open' = TRUE
  /\ UNCHANGED <<stop, wake, exit, cancels, received, putting, queue, thread>>

Subscribe ==
  /\ pc = "subscribe" /\ open
  /\ pc' = "read"
  /\ UNCHANGED <<session, putting, queue, thread>>

(* A frame with rows: a pool thread is to put them, the session awaits it.  *)
Frame ==
  /\ pc = "read" /\ open
  /\ \E n \in 1..MaxBatch :
       /\ received + n <= MaxRows
       /\ received' = received + n
       /\ putting' = putting \cup {[i \in 1..n |-> received + i]}
  /\ pc' = "put"
  /\ UNCHANGED <<stop, wake, open, exit, cancels, queue, thread>>

(* The rows are in the queue: only now is the writer's error looked at.     *)
Resume ==
  /\ pc = "put" /\ putting = {}
  /\ pc' = IF error = None THEN "read" ELSE "closing"
  /\ UNCHANGED <<session, putting, queue, thread>>

(* A frame without rows meets the writer's error too.                       *)
EmptyFrame ==
  /\ pc = "read" /\ open /\ error # None
  /\ pc' = "closing"
  /\ UNCHANGED <<session, putting, queue, thread>>

(* Connecting or subscribing raises, or the stream ends, with an error or   *)
(* without.                                                                 *)
Disconnect ==
  /\ \/ pc \in {"connect", "subscribe"}
     \/ pc = "read" /\ ~open
  /\ pc' = "closing"
  /\ UNCHANGED <<session, putting, queue, thread>>

(* The connection is over: end if stop was called, otherwise wait.          *)
Leave ==
  /\ pc = "closing"
  /\ IF stop
     THEN EndSession("returned")
     ELSE pc' = "backoff" /\ open' = FALSE /\ UNCHANGED <<exit, putting>>
  /\ UNCHANGED <<stop, wake, cancels, received, queue, thread>>

Retry ==
  /\ pc = "backoff"
  /\ IF stop
     THEN EndSession("returned")
     ELSE pc' = "connect" /\ UNCHANGED <<open, exit, putting>>
  /\ UNCHANGED <<stop, wake, cancels, received, queue, thread>>

(* The journal raises, and raises again where the error is journaled.       *)
JournalFails ==
  /\ pc \in Session \ {"put", "backoff"}
  /\ EndSession("failed")
  /\ UNCHANGED <<stop, wake, cancels, received, queue, thread>>

(* None is in the queue.                                                    *)
Drained ==
  /\ pc = "drain" /\ End \notin putting
  /\ pc' = "join"
  /\ UNCHANGED <<session, putting, queue, thread>>

(* Fault: nobody looks at the writer's error.                               *)
JoinedUnchecked ==
  /\ pc = "join" /\ writer \in {"done", "dead"}
  /\ pc' = "ended"
  /\ UNCHANGED <<session, putting, queue, thread>>

(* The writer has ended; its error takes the place of any other outcome.    *)
Joined ==
  /\ pc = "join" /\ writer \in {"done", "dead"}
  /\ pc' = "ended"
  /\ exit' = IF error = None THEN exit ELSE "failed"
  /\ UNCHANGED <<stop, wake, open, cancels, received, putting, queue, thread>>

-----------------------------------------------------------------------------
(* What happens to the session.                                             *)

(* The owner calls stop(), which closes the active socket in a task.        *)
Stop ==
  /\ ~stop /\ pc \in Session \cup Finishing
  /\ stop' = TRUE /\ wake' = (pc \in Connection)
  /\ UNCHANGED <<pc, open, exit, cancels, received, putting, queue, thread>>

CloseTask ==
  /\ wake
  /\ wake' = FALSE /\ open' = FALSE
  /\ UNCHANGED <<pc, stop, exit, cancels, received, putting, queue, thread>>

(* The peer closes, or the watchdog finds the feed stale.                   *)
SocketCloses ==
  /\ open
  /\ open' = FALSE
  /\ UNCHANGED <<pc, stop, wake, exit, cancels, received, putting, queue, thread>>

(* wait_for times out after stop() and cancels the task.  A put goes on in  *)
(* its thread.  A cancel that arrives while the watchdog is awaited is      *)
(* swallowed.                                                               *)
Cancel ==
  /\ stop /\ cancels < MaxCancels
  /\ cancels' = cancels + 1
  /\ \/ pc \in Session /\ EndSession("cancelled")
     \/ pc = "closing" /\ UNCHANGED <<pc, open, exit, putting>>
     \/ /\ pc \in Finishing
        /\ pc' = "ended" /\ exit' = "cancelled"
        /\ UNCHANGED <<open, putting>>
  /\ UNCHANGED <<stop, wake, received, queue, thread>>

(* A pool thread gets its item into the queue.                              *)
Put(item) ==
  /\ item \in putting /\ Len(queue) < QueueSize
  /\ queue' = Append(queue, item)
  /\ putting' = putting \ {item}
  /\ UNCHANGED <<loop, thread>>

-----------------------------------------------------------------------------
(* The writer thread.                                                       *)

SetCurrent(file) == files' = [files EXCEPT ![Len(files)] = file]

(* An exception ends the thread; what it had in hand is gone.               *)
Die(kind) ==
  /\ writer' = "dead" /\ error' = kind /\ hand' = <<>>

(* The next batch; None makes the writer close the current file.            *)
Get ==
  /\ writer = "get" /\ queue # <<>>
  /\ queue' = Tail(queue)
  /\ hand' = Head(queue)
  /\ writer' = IF hand' = End THEN "seal" ELSE "append"
  /\ UNCHANGED <<loop, putting, error, files>>

(* Fault: the row that was to be written is dropped.                        *)
RotateDropsRow ==
  /\ writer = "append" /\ Current.rows # <<>>
  /\ writer' = "seal" /\ hand' = Tail(hand)
  /\ UNCHANGED <<loop, putting, queue, error, files>>

(* The current file is old or large: close it before the row is written.    *)
Rotate ==
  /\ writer = "append" /\ Current.rows # <<>>
  /\ writer' = "seal"
  /\ UNCHANGED <<loop, putting, queue, hand, error, files>>

(* One row, and every FsyncEvery rows of a file an fsync.                   *)
AppendRow ==
  /\ writer = "append"
  /\ LET rows == Append(Current.rows, Head(hand))
         due  == Len(rows) % FsyncEvery = 0
     IN  SetCurrent([Current EXCEPT !.rows = rows,
                                    !.synced = IF due THEN Len(rows) ELSE @])
  /\ hand' = Tail(hand)
  /\ writer' = IF hand' = <<>> THEN "get" ELSE "append"
  /\ UNCHANGED <<loop, putting, queue, error>>

(* The write raises, or the fsync after it does.                            *)
AppendFails ==
  /\ writer = "append"
  /\ Die("raw")
  /\ \/ UNCHANGED files
     \/ SetCurrent([Current EXCEPT !.rows = Append(@, Head(hand))])
  /\ UNCHANGED <<loop, putting, queue>>

(* Fault: no fsync before the close.                                        *)
SealUnsynced ==
  /\ writer = "seal"
  /\ \/ writer' = "sidecar" /\ UNCHANGED <<hand, error, files>>
     \/ Die("raw") /\ UNCHANGED files
  /\ UNCHANGED <<loop, putting, queue>>

(* _close_current: flush, fsync and close the file.                         *)
Seal ==
  /\ writer = "seal"
  /\ \/ /\ writer' = "sidecar"
        /\ SetCurrent([Current EXCEPT !.synced = Len(Current.rows)])
        /\ UNCHANGED <<hand, error>>
     \/ Die("raw") /\ UNCHANGED files
  /\ UNCHANGED <<loop, putting, queue>>

(* Hash the file and publish its sidecar, then journal file_close.  Without *)
(* a row in hand this was the last file.                                    *)
Sidecar ==
  /\ writer = "sidecar"
  /\ \/ /\ SetCurrent([Current EXCEPT !.sidecar = Current.rows])
        /\ \/ /\ writer' = IF hand = <<>> THEN "done" ELSE "open"
              /\ UNCHANGED <<hand, error>>
           \/ Die("raw")
     \/ Die("sidecar") /\ UNCHANGED files
  /\ UNCHANGED <<loop, putting, queue>>

(* The next file, and file_open in the journal.                             *)
Open ==
  /\ writer = "open"
  /\ \/ /\ files' = Append(files, NewFile)
        /\ \/ writer' = "append" /\ UNCHANGED <<hand, error>>
           \/ Die("raw")
     \/ Die("raw") /\ UNCHANGED files
  /\ UNCHANGED <<loop, putting, queue>>

-----------------------------------------------------------------------------
(* The process.                                                             *)

(* It dies: rows after the last fsync may be missing from the current file. *)
Crash ==
  /\ pc # "gone"
  /\ pc' = "gone" /\ wake' = FALSE /\ open' = FALSE
  /\ writer' = "dead" /\ hand' = <<>> /\ putting' = {} /\ queue' = <<>>
  /\ \E n \in Current.synced..Len(Current.rows) :
       SetCurrent([Current EXCEPT !.rows = SubSeq(Current.rows, 1, n)])
  /\ UNCHANGED <<stop, exit, cancels, received, error>>

(* The supervisor, after the collector has ended: a sidecar for every file  *)
(* that has none.                                                           *)
FinalizeOrphans ==
  /\ pc = "gone"
  /\ \E i \in DOMAIN files : files[i].sidecar = None
  /\ files' = [i \in DOMAIN files |->
                 IF files[i].sidecar = None
                 THEN [files[i] EXCEPT !.sidecar = files[i].rows]
                 ELSE files[i]]
  /\ UNCHANGED <<loop, putting, queue, writer, hand, error>>

SessionStep == \/ Connect \/ Subscribe \/ Frame \/ Resume \/ EmptyFrame
               \/ Disconnect \/ Leave \/ Retry \/ JournalFails
               \/ Drained \/ Joined
WriterStep == \/ Get \/ Rotate \/ AppendRow \/ AppendFails
              \/ Seal \/ Sidecar \/ Open
Owner == Stop \/ Cancel
PutStep == \E item \in putting : Put(item)
Next == \/ SessionStep \/ CloseTask \/ SocketCloses
        \/ Owner \/ PutStep \/ WriterStep
        \/ Crash \/ FinalizeOrphans

(* The loop runs what is ready, and connecting, subscribing and sleeping    *)
(* come back; threads get to run.  Frames, disconnects, failures, the       *)
(* owner's calls and crashes just may happen.                               *)
Fairness ==
  /\ WF_vars(Connect \/ Subscribe \/ Resume \/ Disconnect \/ Leave \/ Retry
             \/ Drained \/ Joined)
  /\ WF_vars(CloseTask) /\ WF_vars(PutStep) /\ WF_vars(WriterStep)

Spec == Init /\ [][Next]_vars /\ Fairness

-----------------------------------------------------------------------------
(* Properties.                                                              *)

Stored == FlattenSeq([i \in DOMAIN files |-> files[i].rows])

TypeOK ==
  /\ pc \in Session \cup Finishing \cup {"ended", "gone"}
  /\ stop \in BOOLEAN /\ wake \in BOOLEAN /\ open \in BOOLEAN
  /\ exit \in {None, "returned", "failed", "cancelled"}
  /\ cancels \in 0..MaxCancels /\ received \in 0..MaxRows
  /\ putting \subseteq Batches \cup {End}
  /\ queue \in Seq(Batches \cup {End}) /\ Len(queue) <= QueueSize
  /\ writer \in {"get", "append", "seal", "sidecar", "open", "done", "dead"}
  /\ hand \in Batches \cup {End}
  /\ error \in {None, "raw", "sidecar"}
  /\ files \in Seq(Files) \ {<<>>}

(* The files, one after the other, hold the received rows in order and      *)
(* without a gap, whatever fails and whenever: only the last rows can be    *)
(* missing.  A row that waits while its file is rotated must not be lost,   *)
(* nor a batch overtake the one before it.                                  *)
RowsInOrder == Stored = [i \in 1..Len(Stored) |-> i]

(* run() returns only when every row it received is fsynced in a file whose *)
(* sidecar covers all of it: an error that the writer meets after the last  *)
(* frame, in the final close too, must surface.                             *)
CleanEndStoresAll ==
  pc = "ended" /\ exit = "returned" =>
    /\ Len(Stored) = received
    /\ \A i \in DOMAIN files :
         files[i].sidecar = files[i].rows /\ files[i].synced = Len(files[i].rows)

(* A sidecar that exists counts and hashes what is in its file, after a     *)
(* crash and the supervisor's repair too.                                   *)
SidecarExact ==
  \A i \in DOMAIN files : files[i].sidecar \in {None, files[i].rows}

(* A dead writer behind a full queue: the session waits forever to put.     *)
Stuck == /\ writer = "dead" /\ Len(queue) = QueueSize
         /\ pc \in {"put", "drain"}

Over == pc \in {"ended", "gone"}

(* The owner waits for the task after stop(), then cancels it once.         *)
OwnerTimesOut == WF_vars(cancels = 0 /\ Cancel)

(* With one cancel every session that was asked to stop ends, save one with *)
(* a dead writer behind a full queue: a cancel in the middle of a put must  *)
(* not leave the writer without its None.                                   *)
StopEnds == OwnerTimesOut => (stop ~> (Over \/ Stuck))
=============================================================================
