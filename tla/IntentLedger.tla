---------------------------- MODULE IntentLedger ----------------------------
(***************************************************************************)
(* DurableIntentLedgerV1: the append-only, hash-chained file an intent is  *)
(* recorded in before it may be dispatched.                                *)
(*                                                                         *)
(* Modelled: the file as the page cache shows it and the part of it that   *)
(* is on stable storage, the directory entry, the advisory lock and the    *)
(* descriptors a forked child inherits, opening (create and open_existing) *)
(* step by step, append step by step, poisoning, close, process death,     *)
(* machine crash, a writer that ignores the lock, and an operator who puts *)
(* back a shorter file.                                                    *)
(*                                                                         *)
(* A SHA-256 record hash is represented by what it commits to: the history *)
(* of intents up to the record.  A file stamp (inode, size, times) is      *)
(* represented by the number of lines: while a handle is open the file is  *)
(* only ever appended to, so every change moves the stamp.                 *)
(***************************************************************************)
EXTENDS Integers, Sequences, FiniteSets

CONSTANTS Handles,    \* processes; each holds at most one ledger handle
          Ids,        \* intent ids
          Contents,   \* everything else a normalized OrderIntent holds
          None,       \* no lock owner, no pending intent, no checkpoint
          MaxLines    \* bound on the lines of the file

ASSUME LedgerAssumption ==
  /\ None \notin Handles
  /\ None \notin [id : Ids, content : Contents]
  /\ None \notin Seq([id : Ids, content : Contents])
  /\ MaxLines \in Nat

VARIABLES
  file,      \* the lines of the file, as any reader sees them
  synced,    \* how many of them are on stable storage
  entry,     \* the directory entry: "absent", "volatile" or "durable"
  lock,      \* the handle whose open file description holds the flock
  children,  \* handles whose descriptor a forked child still has open
  pc,        \* where each handle is in open / append / close
  mode,      \* how it was opened: "create" or "existing"
  recs,      \* its index of the records (and so its _tip)
  stamp,     \* the stamp its next operation expects to find
  pending,   \* the intent its append is writing
  anchor,    \* the checkpoint it was opened with
  trusted,   \* the checkpoint the operator keeps outside the file
  acked      \* receipts returned by append and not voided by a restore

diskVars   == <<file, synced, entry>>
lockVars   == <<lock, children>>
handleVars == <<mode, recs, stamp, pending, anchor>>
vars == <<file, synced, entry, lock, children, pc, mode, recs, stamp,
          pending, anchor, trusted, acked>>

Intents  == [id : Ids, content : Contents]
Receipts == [seq : Nat \ {0}, intent : Intents]

-----------------------------------------------------------------------------
(* Lines of the file and what recovery accepts.                            *)

Header == [kind |-> "header"]
Torn   == [kind |-> "torn"]      \* a partial line, no newline at its end
Junk   == [kind |-> "junk"]      \* written by a writer that ignores the lock

\* The line _record builds: prev is the hash of the history it extends.
Record(history, i) == [kind |-> "record", prev |-> history, intent |-> i]
Records == [kind : {"record"}, prev : Seq(Intents), intent : Intents]
Lines   == {Header, Torn, Junk} \cup Records

\* The intents in lines 2..n.
History(f, n) == [k \in 1..(n - 1) |-> f[k + 1].intent]

\* _recover accepts the first n lines.
Valid(f, n) ==
  /\ n \in 1..Len(f)
  /\ f[1] = Header
  /\ \A k \in 2..n : f[k].kind = "record" /\ f[k].prev = History(f, k - 1)
  /\ \A j, k \in 2..n : f[j].intent.id = f[k].intent.id => j = k

-----------------------------------------------------------------------------
OpenStates   == {"locked", "recovered"}
ReadyStates  == {"ready", "writing", "written", "flushed"}
States       == {"closed", "opened", "poisoned"} \cup OpenStates \cup ReadyStates
\* States in which the handle's own descriptor holds the flock.
Holding == OpenStates \cup ReadyStates \cup {"poisoned"}

Init ==
  /\ file = <<>> /\ synced = 0 /\ entry = "absent"
  /\ lock = None /\ children = {}
  /\ pc = [h \in Handles |-> "closed"]
  /\ mode = [h \in Handles |-> "existing"]
  /\ recs = [h \in Handles |-> <<>>]
  /\ stamp = [h \in Handles |-> 0]
  /\ pending = [h \in Handles |-> None]
  /\ anchor = [h \in Handles |-> None]
  /\ trusted = None
  /\ acked = {}

\* _release: close the descriptors; what the object remembered is gone.  The
\* flock goes with the last descriptor of the open file description, so not
\* while a forked child has it.
Forget(h) ==
  /\ mode' = [mode EXCEPT ![h] = "existing"]
  /\ recs' = [recs EXCEPT ![h] = <<>>]
  /\ stamp' = [stamp EXCEPT ![h] = 0]
  /\ pending' = [pending EXCEPT ![h] = None]
  /\ anchor' = [anchor EXCEPT ![h] = None]

Release(h) ==
  /\ Forget(h)
  /\ pc' = [pc EXCEPT ![h] = "closed"]
  /\ lock' = IF lock = h /\ pc[h] \in Holding /\ h \notin children
             THEN None ELSE lock
  /\ UNCHANGED children

-----------------------------------------------------------------------------
(* create() and open_existing()                                            *)

\* create: O_CREAT | O_EXCL.
CreateFile(h) ==
  /\ pc[h] = "closed" /\ entry = "absent"
  /\ entry' = "volatile"
  /\ pc' = [pc EXCEPT ![h] = "opened"]
  /\ mode' = [mode EXCEPT ![h] = "create"]
  /\ anchor' = [anchor EXCEPT ![h] = None]
  /\ UNCHANGED <<file, synced, lockVars, recs, stamp, pending, trusted, acked>>

\* open_existing: with or without the operator's checkpoint.
OpenFile(h) ==
  /\ pc[h] = "closed" /\ entry # "absent"
  /\ pc' = [pc EXCEPT ![h] = "opened"]
  /\ mode' = [mode EXCEPT ![h] = "existing"]
  /\ \E c \in {None, trusted} : anchor' = [anchor EXCEPT ![h] = c]
  /\ UNCHANGED <<diskVars, lockVars, recs, stamp, pending, trusted, acked>>

\* flock(LOCK_EX | LOCK_NB), and the stamp taken under it.
Lock(h) ==
  /\ pc[h] = "opened" /\ lock = None
  /\ lock' = h
  /\ stamp' = [stamp EXCEPT ![h] = Len(file)]
  /\ pc' = [pc EXCEPT ![h] = "locked"]
  /\ UNCHANGED <<diskVars, children, mode, recs, pending, anchor, trusted, acked>>

\* LedgerBusyError.
Busy(h) ==
  /\ pc[h] = "opened" /\ lock # None
  /\ Release(h)
  /\ UNCHANGED <<diskVars, trusted, acked>>

\* create: the header is the first line, or the file is not the new one.
WriteHeader(h) ==
  /\ pc[h] = "locked" /\ mode[h] = "create" /\ Len(file) < MaxLines
  /\ file' = Append(file, Header)
  /\ IF Len(file') = 1
     THEN /\ pc' = [pc EXCEPT ![h] = "recovered"]
          /\ stamp' = [stamp EXCEPT ![h] = Len(file')]
          /\ UNCHANGED <<lockVars, mode, recs, pending, anchor>>
     ELSE Release(h)
  /\ UNCHANGED <<synced, entry, trusted, acked>>

\* create: the header write fails part way.
TornHeader(h) ==
  /\ pc[h] = "locked" /\ mode[h] = "create" /\ Len(file) < MaxLines
  /\ file' = Append(file, Torn)
  /\ Release(h)
  /\ UNCHANGED <<synced, entry, trusted, acked>>

\* Fault: only the length is compared.
AnchorReached(c, history) == c # None => Len(c) <= Len(history)

\* _check_checkpoint: the anchor's hash is the hash at its sequence number.
AnchorHolds(c, history) ==
  c # None => /\ Len(c) <= Len(history)
              /\ \A k \in 1..Len(c) : c[k] = history[k]

\* open_existing: _recover, the stamp compared with the one taken under the
\* lock, then the checkpoint.  Any failure releases the handle.
Recover(h) ==
  /\ pc[h] = "locked" /\ mode[h] = "existing"
  /\ IF /\ Valid(file, Len(file))
        /\ Len(file) = stamp[h]
        /\ AnchorHolds(anchor[h], History(file, Len(file)))
     THEN /\ recs' = [recs EXCEPT ![h] = History(file, Len(file))]
          /\ pc' = [pc EXCEPT ![h] = "recovered"]
          /\ UNCHANGED <<lockVars, mode, stamp, pending, anchor>>
     ELSE Release(h)
  /\ UNCHANGED <<diskVars, trusted, acked>>

\* Both modes: fsync of the file and of its directory; the stamp must not
\* have moved since the content was validated.
OpenSync(h) ==
  /\ pc[h] = "recovered"
  /\ synced' = Len(file)
  /\ entry' = "durable"
  /\ IF Len(file) = stamp[h]
     THEN pc' = [pc EXCEPT ![h] = "ready"] /\ UNCHANGED <<lockVars, handleVars>>
     ELSE Release(h)
  /\ UNCHANGED <<file, trusted, acked>>

-----------------------------------------------------------------------------
(* append, checkpoint and the guard                                        *)

\* _guard finds the stamp it expects.
Unchanged(h) == Len(file) = stamp[h]

\* _guard finds anything else: the handle is poisoned for good.
GuardFails(h) ==
  /\ pc[h] = "ready" /\ ~Unchanged(h)
  /\ pc' = [pc EXCEPT ![h] = "poisoned"]
  /\ UNCHANGED <<diskVars, lockVars, handleVars, trusted, acked>>

\* append of an intent the index has, with equal content: its old receipt.
AppendKnown(h, i) ==
  /\ pc[h] = "ready" /\ Unchanged(h)
  /\ \E k \in 1..Len(recs[h]) :
       recs[h][k] = i /\ acked' = acked \cup {[seq |-> k, intent |-> i]}
  /\ UNCHANGED <<diskVars, lockVars, pc, handleVars, trusted>>

\* Fault: a known id is written again.
BeginKnownId(h, i) ==
  /\ pc[h] = "ready" /\ Unchanged(h)
  /\ pending' = [pending EXCEPT ![h] = i]
  /\ pc' = [pc EXCEPT ![h] = "writing"]
  /\ UNCHANGED <<diskVars, lockVars, mode, recs, stamp, anchor, trusted, acked>>

\* append of an intent whose id the index does not have.  (An id bound to
\* other content raises IntentConflictError and changes nothing.)
BeginAppend(h, i) ==
  /\ pc[h] = "ready" /\ Unchanged(h)
  /\ \A k \in 1..Len(recs[h]) : recs[h][k].id # i.id
  /\ pending' = [pending EXCEPT ![h] = i]
  /\ pc' = [pc EXCEPT ![h] = "writing"]
  /\ UNCHANGED <<diskVars, lockVars, mode, recs, stamp, anchor, trusted, acked>>

\* _write_all
Write(h) ==
  /\ pc[h] = "writing" /\ Len(file) < MaxLines
  /\ file' = Append(file, Record(recs[h], pending[h]))
  /\ pc' = [pc EXCEPT ![h] = "written"]
  /\ UNCHANGED <<synced, entry, lockVars, handleVars, trusted, acked>>

\* _write_all fails after some bytes.
TornWrite(h) ==
  /\ pc[h] = "writing" /\ Len(file) < MaxLines
  /\ file' = Append(file, Torn)
  /\ pc' = [pc EXCEPT ![h] = "poisoned"]
  /\ UNCHANGED <<synced, entry, lockVars, handleVars, trusted, acked>>

\* Fault: flush without fsync.
FlushOnly(h) ==
  /\ pc[h] = "written"
  /\ pc' = [pc EXCEPT ![h] = "flushed"]
  /\ UNCHANGED <<diskVars, lockVars, handleVars, trusted, acked>>

\* os.fsync
Fsync(h) ==
  /\ pc[h] = "written"
  /\ synced' = Len(file)
  /\ pc' = [pc EXCEPT ![h] = "flushed"]
  /\ UNCHANGED <<file, entry, lockVars, handleVars, trusted, acked>>

\* The size check, the index update and the receipt.
Finish(h) ==
  /\ pc[h] = "flushed"
  /\ IF Len(file) = stamp[h] + 1
     THEN /\ recs' = [recs EXCEPT ![h] = Append(@, pending[h])]
          /\ stamp' = [stamp EXCEPT ![h] = Len(file)]
          /\ acked' = acked \cup
               {[seq |-> Len(recs[h]) + 1, intent |-> pending[h]]}
          /\ pc' = [pc EXCEPT ![h] = "ready"]
     ELSE /\ pc' = [pc EXCEPT ![h] = "poisoned"]
          /\ UNCHANGED <<recs, stamp, acked>>
  /\ pending' = [pending EXCEPT ![h] = None]
  /\ UNCHANGED <<diskVars, lockVars, mode, anchor, trusted>>

\* Any exception between the write and the receipt: ENOSPC before a byte
\* is written, EIO from fsync, a failed stat, KeyboardInterrupt.
AppendRaises(h) ==
  /\ pc[h] \in {"writing", "written", "flushed"}
  /\ pc' = [pc EXCEPT ![h] = "poisoned"]
  /\ UNCHANGED <<diskVars, lockVars, handleVars, trusted, acked>>

\* checkpoint(); the operator stores it away from the file.
TakeCheckpoint(h) ==
  /\ pc[h] = "ready" /\ Unchanged(h)
  /\ trusted' = recs[h]
  /\ UNCHANGED <<diskVars, lockVars, pc, handleVars, acked>>

-----------------------------------------------------------------------------
(* Leaving, forking, crashing, interference                                *)

\* close(), __del__, an error that unwinds _open, or the process dying.
Stop(h) ==
  /\ pc[h] # "closed"
  /\ Release(h)
  /\ UNCHANGED <<diskVars, trusted, acked>>

\* A fork with the ledger open: the child can only close what it inherits
\* (_owner refuses everything else).
Fork(h) ==
  /\ pc[h] \in ReadyStates \cup {"poisoned"} /\ h \notin children
  /\ children' = children \cup {h}
  /\ UNCHANGED <<diskVars, lock, pc, handleVars, trusted, acked>>

\* The child closes or exits.
ChildClose(h) ==
  /\ h \in children
  /\ children' = children \ {h}
  /\ lock' = IF lock = h /\ pc[h] \notin Holding THEN None ELSE lock
  /\ UNCHANGED <<diskVars, pc, handleVars, trusted, acked>>

\* The machine stops.  What was synced survives, and any part of the rest,
\* its last line possibly cut; a file whose entry was never synced may go.
Crash ==
  /\ pc' = [h \in Handles |-> "closed"]
  /\ mode' = [h \in Handles |-> "existing"]
  /\ recs' = [h \in Handles |-> <<>>]
  /\ stamp' = [h \in Handles |-> 0]
  /\ pending' = [h \in Handles |-> None]
  /\ anchor' = [h \in Handles |-> None]
  /\ lock' = None /\ children' = {}
  /\ \/ /\ entry # "absent"
        /\ \E n \in synced..Len(file) :
             \/ file' = SubSeq(file, 1, n) /\ synced' = n
             \/ /\ n < Len(file)
                /\ file' = Append(SubSeq(file, 1, n), Torn) /\ synced' = n + 1
        /\ entry' = "durable"
     \/ /\ entry # "durable"
        /\ file' = <<>> /\ synced' = 0 /\ entry' = "absent"
  /\ UNCHANGED <<trusted, acked>>

\* flock is advisory: something else appends to the file.
ForeignAppend ==
  /\ entry # "absent" /\ Len(file) < MaxLines
  /\ file' = Append(file, Junk)
  /\ UNCHANGED <<synced, entry, lockVars, pc, handleVars, trusted, acked>>

\* With no handle open, the operator puts back a file that ends earlier.
RestoreBackup ==
  /\ \A h \in Handles : pc[h] = "closed"
  /\ children = {} /\ entry = "durable"
  /\ \E n \in 1..(Len(file) - 1) :
       /\ Valid(file, n)
       /\ file' = SubSeq(file, 1, n)
       /\ synced' = n
       /\ acked' = {r \in acked : r.seq < n}
  /\ UNCHANGED <<entry, lockVars, pc, handleVars, trusted>>

-----------------------------------------------------------------------------
Open(h)   == \/ CreateFile(h) \/ OpenFile(h) \/ Lock(h) \/ Busy(h)
             \/ WriteHeader(h) \/ TornHeader(h) \/ Recover(h) \/ OpenSync(h)
AppendStep(h) == \/ \E i \in Intents : AppendKnown(h, i) \/ BeginAppend(h, i)
                 \/ Write(h) \/ TornWrite(h) \/ Fsync(h) \/ Finish(h)
                 \/ AppendRaises(h)
Other(h)  == \/ GuardFails(h) \/ TakeCheckpoint(h) \/ Stop(h)
             \/ Fork(h) \/ ChildClose(h)
Environment == Crash \/ ForeignAppend \/ RestoreBackup

Next == \/ \E h \in Handles : Open(h) \/ AppendStep(h) \/ Other(h)
        \/ Environment

Spec == Init /\ [][Next]_vars

-----------------------------------------------------------------------------
(* Properties                                                              *)

\* Types of the state.
TypeOK ==
  /\ file \in Seq(Lines)
  /\ synced \in 0..Len(file)
  /\ entry \in {"absent", "volatile", "durable"}
  /\ lock \in Handles \cup {None}
  /\ children \subseteq Handles
  /\ pc \in [Handles -> States]
  /\ mode \in [Handles -> {"create", "existing"}]
  /\ recs \in [Handles -> Seq(Intents)]
  /\ stamp \in [Handles -> Nat]
  /\ pending \in [Handles -> Intents \cup {None}]
  /\ anchor \in [Handles -> Seq(Intents) \cup {None}]
  /\ trusted \in Seq(Intents) \cup {None}
  /\ acked \subseteq Receipts

\* A receipt means durable local recording: the record a caller holds a
\* receipt for is on stable storage, where the receipt says, and a later
\* open_existing would accept the file at least up to it.  Crashes, torn
\* writes, failed fsyncs, racing openers and foreign appends included.
AckedRecoverable ==
  \A r \in acked :
    /\ entry = "durable"
    /\ r.seq + 1 <= synced
    /\ Valid(file, r.seq + 1)
    /\ file[r.seq + 1].intent = r.intent

\* Whatever a usable handle answers from memory (get_intent, receipts,
\* checkpoint, an idempotent append) is what stable storage holds: a record
\* left by a writer that failed or died is durable before it is visible.
IndexIsDurable ==
  \A h \in Handles :
    pc[h] \in ReadyStates =>
      /\ stamp[h] = Len(recs[h]) + 1
      /\ stamp[h] <= synced
      /\ Valid(file, stamp[h])
      /\ recs[h] = History(file, stamp[h])

\* A handle opened with the operator's checkpoint never works on a history
\* that contradicts it, whatever file was put back in the meantime.
AnchoredHistory ==
  \A h \in Handles :
    pc[h] \in ReadyStates /\ anchor[h] # None =>
      /\ Len(anchor[h]) <= Len(recs[h])
      /\ \A k \in 1..Len(anchor[h]) : recs[h][k] = anchor[h][k]

\* Two handles are never in the critical section together, inherited
\* descriptors and races between create and open_existing included, and the
\* lock is not free while a forked child still holds the descriptor.
ExclusiveHandle ==
  /\ \A h \in Handles : pc[h] \in Holding => lock = h
  /\ \A h \in children : lock = h

\* A step that makes a handle answer for one record more is that handle's
\* own append, on a file nobody else touched since its last operation: a
\* foreign append stops the handle before the next receipt.
AppendOnUntouchedFile ==
  [][\A h \in Handles :
       (pc[h] = "flushed" /\ pc'[h] = "ready") =>
         /\ file[Len(file)] = Record(recs[h], pending[h])
         /\ History(file, Len(file) - 1) = recs[h]]_vars

\* The history a reader could recover from stable storage.
DurableLines == {n \in 1..synced : Valid(file, n)}
DurableHistory ==
  IF DurableLines = {} THEN <<>>
  ELSE History(file, CHOOSE n \in DurableLines : \A m \in DurableLines : m <= n)

\* The ledger implements the durable log: a record that became durable keeps
\* its place and content through every crash, a receipt is given for such a
\* record only, and ids stay unique.
LOG == INSTANCE DurableLog WITH log <- DurableHistory
RefinesDurableLog == LOG!LogSpec
=============================================================================
