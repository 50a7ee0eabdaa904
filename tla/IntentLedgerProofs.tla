------------------------- MODULE IntentLedgerProofs -------------------------
(***************************************************************************)
(* Proofs about IntentLedger for any set of handles, ids and contents and  *)
(* any bound on the file.  IInv strengthens the checked invariants with    *)
(* what an append in progress and an open in progress know of the file.    *)
(***************************************************************************)
EXTENDS IntentLedger, SequenceTheorems, TLAPS

\* What one handle knows of the file, in every state of open and append.
HandleOK(h) ==
  /\ pc[h] \in {"closed", "opened", "locked"} => recs[h] = <<>>
  /\ pc[h] \in {"opened", "locked"} /\ mode[h] = "create" => anchor[h] = None
  /\ pc[h] # "closed" => entry # "absent"
  /\ pc[h] \in ReadyStates \cup {"recovered"} =>
       /\ stamp[h] = Len(recs[h]) + 1
       /\ Valid(file, stamp[h])
       /\ recs[h] = History(file, stamp[h])
       /\ AnchorHolds(anchor[h], recs[h])
  /\ pc[h] \in ReadyStates => stamp[h] <= synced /\ entry = "durable"
  /\ pc[h] \in {"writing", "written", "flushed"} =>
       /\ pending[h] \in Intents
       /\ \A k \in 1..Len(recs[h]) : recs[h][k].id # pending[h].id
  /\ pc[h] \in {"written", "flushed"} =>
       /\ stamp[h] < Len(file)
       /\ Len(file) = stamp[h] + 1 =>
            file[Len(file)] = Record(recs[h], pending[h])
  /\ pc[h] = "flushed" => stamp[h] < synced

IInv == /\ TypeOK
        /\ ExclusiveHandle
        /\ AckedRecoverable
        /\ \A h \in Handles : HandleOK(h)

-----------------------------------------------------------------------------
(* Lines, histories and valid prefixes                                     *)

\* A file that agrees on the first n lines is as valid there, with the same
\* history: recovery looks at nothing beyond the line it is checking.
LEMMA ValidAgree ==
  ASSUME NEW f, NEW g, NEW n \in Nat, Valid(f, n),
         n <= Len(g), Len(g) \in Nat, \A k \in 1..n : g[k] = f[k]
  PROVE  Valid(g, n) /\ History(g, n) = History(f, n)
<1>1. \A m \in 1..n : History(g, m) = History(f, m)
  <2>1. TAKE m \in 1..n
  <2>2. \A k \in 1..(m - 1) : k + 1 \in 1..n
    OBVIOUS
  <2>3. QED BY <2>2 DEF History
<1>2. n \in 1..Len(f) /\ f[1] = Header
  BY DEF Valid
<1>3. n \in 1..Len(g) /\ g[1] = Header
  BY <1>2
<1>4. \A k \in 2..n : g[k].kind = "record" /\ g[k].prev = History(g, k - 1)
  <2>1. TAKE k \in 2..n
  <2>2. k \in 1..n /\ k - 1 \in 1..n
    OBVIOUS
  <2>3. f[k].kind = "record" /\ f[k].prev = History(f, k - 1)
    BY DEF Valid
  <2>4. QED BY <1>1, <2>2, <2>3
<1>5. \A j, k \in 2..n : g[j].intent.id = g[k].intent.id => j = k
  <2>1. \A k \in 2..n : g[k] = f[k]
    OBVIOUS
  <2>2. QED BY <2>1 DEF Valid
<1>6. History(g, n) = History(f, n)
  BY <1>1, <1>2
<1>7. QED BY <1>3, <1>4, <1>5, <1>6 DEF Valid

\* A prefix of a valid prefix is valid.
LEMMA ValidPrefix ==
  ASSUME NEW f, NEW n, Valid(f, n), NEW m \in 1..n, Len(f) \in Nat
  PROVE  Valid(f, m)
<1>1. m \in 1..Len(f) /\ n \in Nat
  BY DEF Valid
<1>2. \A k \in 2..m : k \in 2..n
  BY <1>1
<1>3. \A k \in 2..m : f[k].kind = "record" /\ f[k].prev = History(f, k - 1)
  BY <1>2 DEF Valid
<1>4. \A j, k \in 2..m : f[j].intent.id = f[k].intent.id => j = k
  BY <1>2 DEF Valid
<1>5. QED BY <1>1, <1>3, <1>4 DEF Valid

\* The history of a valid prefix is a sequence of intents.
LEMMA HistoryType ==
  ASSUME NEW f \in Seq(Lines), NEW n \in Nat, Valid(f, n)
  PROVE  /\ History(f, n) \in Seq(Intents)
         /\ Len(History(f, n)) = n - 1
<1>1. \A k \in 1..(n - 1) : f[k + 1].intent \in Intents
  <2>1. TAKE k \in 1..(n - 1)
  <2>2. k + 1 \in 2..n /\ k + 1 \in 1..Len(f)
    BY DEF Valid
  <2>3. f[k + 1] \in Lines /\ f[k + 1].kind = "record"
    BY <2>2 DEF Valid
  <2>4. QED BY <2>3 DEF Lines, Records, Header, Torn, Junk
<1>2. n - 1 \in Nat
  BY DEF Valid
<1>3. QED BY <1>1, <1>2 DEF History

\* A record built on the history of a valid file extends it validly.
LEMMA ValidRecord ==
  ASSUME NEW f \in Seq(Lines), NEW n \in Nat, Len(f) = n + 1, Valid(f, n),
         NEW i \in Intents, f[n + 1] = Record(History(f, n), i),
         \A k \in 1..(n - 1) : History(f, n)[k].id # i.id
  PROVE  /\ Valid(f, n + 1)
         /\ History(f, n + 1) = Append(History(f, n), i)
<1>1. f[n + 1].kind = "record" /\ f[n + 1].prev = History(f, n)
      /\ f[n + 1].intent = i
  BY DEF Record
<1>2. n \in Nat /\ n >= 1 /\ f[1] = Header
  BY DEF Valid
<1>3. \A k \in 2..(n + 1) : f[k].kind = "record" /\ f[k].prev = History(f, k - 1)
  <2>1. TAKE k \in 2..(n + 1)
  <2>2. CASE k = n + 1
    <3>1. k - 1 = n BY <2>2, <1>2
    <3>2. QED BY <2>2, <3>1, <1>1
  <2>3. CASE k \in 2..n BY <2>3 DEF Valid
  <2>4. QED BY <2>2, <2>3, <1>2
<1>4. \A k \in 2..n : f[k].intent.id # i.id
  <2>1. TAKE k \in 2..n
  <2>2. k - 1 \in 1..(n - 1) /\ (k - 1) + 1 = k
    OBVIOUS
  <2>3. History(f, n)[k - 1] = f[k].intent
    BY <2>2 DEF History
  <2>4. QED BY <2>2, <2>3
<1>5. \A j, k \in 2..(n + 1) : f[j].intent.id = f[k].intent.id => j = k
  <2>1. TAKE j, k \in 2..(n + 1)
  <2>2. CASE j \in 2..n /\ k \in 2..n BY <2>2 DEF Valid
  <2>3. CASE j = n + 1 /\ k \in 2..n BY <2>3, <1>1, <1>4
  <2>4. CASE k = n + 1 /\ j \in 2..n BY <2>4, <1>1, <1>4
  <2>5. CASE j = n + 1 /\ k = n + 1 BY <2>5
  <2>6. QED BY <2>2, <2>3, <2>4, <2>5, <1>2
<1>6. Valid(f, n + 1)
  BY <1>2, <1>3, <1>5 DEF Valid
<1>7. History(f, n) \in Seq(Intents) /\ Len(History(f, n)) = n - 1
  BY HistoryType
<1>8. History(f, n + 1) \in Seq(Intents) /\ Len(History(f, n + 1)) = n
  <2>1. n + 1 \in Nat /\ (n + 1) - 1 = n BY <1>2
  <2>2. QED BY <2>1, <1>6, HistoryType
<1>9. \A k \in 1..n : History(f, n + 1)[k] = Append(History(f, n), i)[k]
  <2>1. TAKE k \in 1..n
  <2>2. History(f, n + 1)[k] = f[k + 1].intent
    BY <1>2 DEF History
  <2>3. CASE k = n
    BY <2>2, <2>3, <1>1, <1>7
  <2>4. CASE k \in 1..(n - 1)
    <3>1. History(f, n)[k] = f[k + 1].intent
      BY <2>4 DEF History
    <3>2. QED BY <2>2, <2>4, <3>1, <1>7
  <2>5. k = n \/ k \in 1..(n - 1)
    OBVIOUS
  <2>6. QED BY <2>3, <2>4, <2>5
<1>10. Append(History(f, n), i) \in Seq(Intents) /\ Len(Append(History(f, n), i)) = n
  BY <1>2, <1>7
<1>11. QED BY <1>6, <1>8, <1>9, <1>10, SeqEqual

-----------------------------------------------------------------------------
(* What a step leaves alone                                                *)

\* The step does not touch handle g.
Same(g) ==
  /\ pc'[g] = pc[g] /\ mode'[g] = mode[g] /\ recs'[g] = recs[g]
  /\ stamp'[g] = stamp[g] /\ pending'[g] = pending[g] /\ anchor'[g] = anchor[g]

\* The step only adds to the file and to what is on stable storage.
Grows ==
  /\ file' \in Seq(Lines)
  /\ Len(file) <= Len(file')
  /\ \A k \in 1..Len(file) : file'[k] = file[k]
  /\ synced <= synced' /\ synced' \in 0..Len(file')
  /\ \/ entry' \in {entry, "durable"}
     \/ entry = "absent" /\ entry' = "volatile"

LEMMA HandleFrame ==
  ASSUME TypeOK, NEW g \in Handles, HandleOK(g), Same(g), Grows
  PROVE  HandleOK(g)'
<1>0. /\ Len(file) \in Nat /\ Len(file') \in Nat /\ synced \in Nat /\ synced' \in Nat
      /\ stamp[g] \in Nat
  BY DEF TypeOK, Grows
<1>1. pc[g] \in ReadyStates \cup {"recovered"} =>
        Valid(file', stamp[g]) /\ History(file', stamp[g]) = History(file, stamp[g])
  <2>1. HAVE pc[g] \in ReadyStates \cup {"recovered"}
  <2>2. Valid(file, stamp[g])
    BY <2>1 DEF HandleOK
  <2>3. stamp[g] \in 1..Len(file)
    BY <2>2 DEF Valid
  <2>4. stamp[g] <= Len(file') /\ \A k \in 1..stamp[g] : file'[k] = file[k]
    BY <1>0, <2>3 DEF Grows
  <2>5. stamp[g] \in Nat /\ Len(file') \in Nat
    BY <1>0
  <2>6. Valid(file', stamp[g])
    BY <2>2, <2>4, <2>5, ValidAgree
  <2>7. History(file', stamp[g]) = History(file, stamp[g])
    <3>1. \A k \in 1..(stamp[g] - 1) : k + 1 \in 1..stamp[g]
      BY <2>5
    <3>2. \A k \in 1..(stamp[g] - 1) : file'[k + 1] = file[k + 1]
      BY <2>4, <3>1
    <3>3. QED BY <3>2 DEF History
  <2>8. QED BY <2>6, <2>7
<1>2. pc[g] \in {"written", "flushed"} =>
        /\ stamp[g] < Len(file')
        /\ Len(file') = stamp[g] + 1 =>
             file'[Len(file')] = Record(recs[g], pending[g])
  <2>1. HAVE pc[g] \in {"written", "flushed"}
  <2>2. /\ stamp[g] < Len(file)
        /\ Len(file) = stamp[g] + 1 =>
             file[Len(file)] = Record(recs[g], pending[g])
    BY <2>1 DEF HandleOK
  <2>3. CASE Len(file') = stamp[g] + 1
    <3>1. Len(file') = Len(file) /\ Len(file) \in 1..Len(file)
      BY <1>0, <2>2, <2>3 DEF Grows
    <3>2. QED BY <2>2, <2>3, <3>1 DEF Grows
  <2>4. QED BY <1>0, <2>2, <2>3 DEF Grows
<1>3. pc[g] \in ReadyStates => stamp[g] <= synced' /\ entry' = "durable"
  BY <1>0 DEF HandleOK, Grows
<1>4. pc[g] = "flushed" => stamp[g] < synced'
  BY <1>0 DEF HandleOK, Grows
<1>5. pc[g] # "closed" => entry' # "absent"
  BY DEF HandleOK, Grows
<1>6. QED BY <1>1, <1>2, <1>3, <1>4, <1>5 DEF HandleOK, Same

LEMMA AckFrame ==
  ASSUME TypeOK, AckedRecoverable, acked' \subseteq acked,
         file' \in Seq(Lines), \A k \in 1..synced : file'[k] = file[k],
         synced <= synced', synced' \in 0..Len(file'),
         entry = "durable" => entry' = "durable"
  PROVE  AckedRecoverable'
<1>1. SUFFICES ASSUME NEW r \in acked'
               PROVE  /\ entry' = "durable" /\ r.seq + 1 <= synced'
                      /\ Valid(file', r.seq + 1)
                      /\ file'[r.seq + 1].intent = r.intent
  BY DEF AckedRecoverable
<1>2. /\ entry = "durable" /\ r.seq + 1 <= synced
      /\ Valid(file, r.seq + 1) /\ file[r.seq + 1].intent = r.intent
  BY DEF AckedRecoverable
<1>3. r.seq \in Nat /\ synced \in Nat /\ Len(file') \in Nat
  BY DEF TypeOK, Receipts
<1>4. /\ r.seq + 1 \in 1..synced /\ r.seq + 1 <= Len(file') /\ r.seq + 1 <= synced'
      /\ r.seq + 1 \in Nat
      /\ \A k \in 1..(r.seq + 1) : file'[k] = file[k]
  BY <1>2, <1>3
<1>5. Valid(file', r.seq + 1)
  BY <1>2, <1>3, <1>4, ValidAgree
<1>6. QED BY <1>2, <1>4, <1>5

\* Releasing a handle keeps the lock discipline and touches no other handle.
LEMMA ReleaseKeeps ==
  ASSUME TypeOK, ExclusiveHandle, NEW h \in Handles, Release(h)
  PROVE  /\ pc' \in [Handles -> States] /\ lock' \in Handles \cup {None}
         /\ mode' \in [Handles -> {"create", "existing"}]
         /\ recs' \in [Handles -> Seq(Intents)]
         /\ stamp' \in [Handles -> Nat]
         /\ pending' \in [Handles -> Intents \cup {None}]
         /\ anchor' \in [Handles -> Seq(Intents) \cup {None}]
         /\ children' \subseteq Handles
         /\ ExclusiveHandle'
         /\ HandleOK(h)'
         /\ \A g \in Handles \ {h} : Same(g)
<1>1. pc' \in [Handles -> States] /\ lock' \in Handles \cup {None}
      /\ children' \subseteq Handles
  BY DEF TypeOK, Release, States
<1>2. /\ mode' \in [Handles -> {"create", "existing"}]
      /\ recs' \in [Handles -> Seq(Intents)]
      /\ stamp' \in [Handles -> Nat]
      /\ pending' \in [Handles -> Intents \cup {None}]
      /\ anchor' \in [Handles -> Seq(Intents) \cup {None}]
  <2>1. <<>> \in Seq(Intents) OBVIOUS
  <2>2. QED BY <2>1 DEF TypeOK, Release, Forget
<1>3. pc'[h] = "closed" /\ recs'[h] = <<>>
  BY DEF TypeOK, Release, Forget
<1>4. \A g \in Handles \ {h} : Same(g)
  BY DEF TypeOK, Release, Forget, Same
<1>5. ExclusiveHandle'
  <2>1. ASSUME NEW g \in Handles, pc'[g] \in Holding PROVE lock' = g
    <3>1. g # h
      BY <1>3, <2>1 DEF Holding, OpenStates, ReadyStates
    <3>2. pc[g] \in Holding
      BY <1>4, <2>1, <3>1 DEF Same
    <3>3. lock = g
      BY <3>2 DEF ExclusiveHandle
    <3>4. QED BY <3>1, <3>3 DEF Release
  <2>2. ASSUME NEW g \in children' PROVE lock' = g
    BY <2>2 DEF Release, ExclusiveHandle
  <2>3. QED BY <2>1, <2>2 DEF ExclusiveHandle
<1>6. HandleOK(h)'
  BY <1>3 DEF HandleOK, ReadyStates
<1>7. QED BY <1>1, <1>2, <1>4, <1>5, <1>6

-----------------------------------------------------------------------------
(* The three ways a step of a handle changes the disk                      *)

LEMMA DiskSteps ==
  ASSUME TypeOK
  PROVE  /\ UNCHANGED diskVars => Grows
         /\ \A l \in Lines : file' = Append(file, l) /\ UNCHANGED <<synced, entry>> =>
              Grows /\ Len(file') = Len(file) + 1 /\ file'[Len(file')] = l
         /\ UNCHANGED file /\ synced' = Len(file) /\ entry' \in {entry, "durable"} => Grows
<1>1. UNCHANGED diskVars => Grows
  BY DEF TypeOK, Grows, diskVars
<1>2. ASSUME NEW l \in Lines, file' = Append(file, l), UNCHANGED <<synced, entry>>
      PROVE  Grows /\ Len(file') = Len(file) + 1 /\ file'[Len(file')] = l
  BY <1>2 DEF TypeOK, Grows
<1>3. ASSUME UNCHANGED file, synced' = Len(file), entry' \in {entry, "durable"} PROVE Grows
  BY <1>3 DEF TypeOK, Grows
<1>4. QED BY <1>1, <1>2, <1>3

\* A step of one handle keeps IInv if it keeps its own part of it.
LEMMA OneHandle ==
  ASSUME IInv, NEW h \in Handles, TypeOK', ExclusiveHandle', AckedRecoverable',
         HandleOK(h)', \A g \in Handles \ {h} : Same(g), Grows
  PROVE  IInv'
<1>1. ASSUME NEW g \in Handles PROVE HandleOK(g)'
  <2>1. CASE g = h BY <2>1
  <2>2. CASE g # h
    <3>1. TypeOK /\ HandleOK(g) BY DEF IInv
    <3>2. Same(g) BY <2>2
    <3>3. QED BY <3>1, <3>2, HandleFrame
  <2>3. QED BY <2>1, <2>2
<1>2. QED BY <1>1 DEF IInv

LEMMA AcksGrow ==
  ASSUME IInv, Grows, acked' = acked
  PROVE  AckedRecoverable'
<1>1. TypeOK /\ AckedRecoverable BY DEF IInv
<1>2. \A k \in 1..synced : file'[k] = file[k]
  BY <1>1 DEF TypeOK, Grows
<1>3. QED BY <1>1, <1>2, AckFrame DEF Grows

\* A step that releases one handle and at most adds to the disk.
LEMMA ReleaseStep ==
  ASSUME IInv, NEW h \in Handles, Release(h), Grows, UNCHANGED <<trusted, acked>>
  PROVE  IInv'
<1>1. TypeOK /\ ExclusiveHandle BY DEF IInv
<1>2. /\ ExclusiveHandle' /\ HandleOK(h)' /\ \A g \in Handles \ {h} : Same(g)
  BY <1>1, ReleaseKeeps
<1>3. TypeOK'
  <2>1. entry' \in {"absent", "volatile", "durable"}
    BY <1>1 DEF TypeOK, Grows
  <2>2. QED BY <1>1, <2>1, ReleaseKeeps DEF TypeOK, Grows
<1>4. AckedRecoverable' BY AcksGrow
<1>5. QED BY <1>2, <1>3, <1>4, OneHandle

-----------------------------------------------------------------------------
(* Opening                                                                 *)

LEMMA OpenKeeps ==
  ASSUME IInv, NEW h \in Handles, Open(h)
  PROVE  IInv'
<1>0. TypeOK /\ ExclusiveHandle /\ AckedRecoverable /\ HandleOK(h)
  BY DEF IInv
<1>1. CASE CreateFile(h)
  <2>1. Grows
    BY <1>0, <1>1 DEF TypeOK, CreateFile, Grows
  <2>2. TypeOK'
    BY <1>0, <1>1 DEF TypeOK, CreateFile, lockVars, States
  <2>3. ExclusiveHandle'
    BY <1>0, <1>1 DEF TypeOK, CreateFile, ExclusiveHandle, lockVars,
       Holding, OpenStates, ReadyStates
  <2>4. AckedRecoverable'
    BY <2>1, <1>1, AcksGrow DEF CreateFile
  <2>5. HandleOK(h)'
    BY <1>0, <1>1 DEF TypeOK, CreateFile, HandleOK, ReadyStates
  <2>6. \A g \in Handles \ {h} : Same(g)
    BY <1>0, <1>1 DEF TypeOK, CreateFile, Same
  <2>7. QED BY <2>1, <2>2, <2>3, <2>4, <2>5, <2>6, OneHandle
<1>2. CASE OpenFile(h)
  <2>1. Grows
    BY <1>0, <1>2, DiskSteps DEF OpenFile
  <2>2. TypeOK'
    BY <1>0, <1>2 DEF TypeOK, OpenFile, lockVars, diskVars, States
  <2>3. ExclusiveHandle'
    BY <1>0, <1>2 DEF TypeOK, OpenFile, ExclusiveHandle, lockVars,
       Holding, OpenStates, ReadyStates
  <2>4. AckedRecoverable'
    BY <2>1, <1>2, AcksGrow DEF OpenFile
  <2>5. HandleOK(h)'
    BY <1>0, <1>2 DEF TypeOK, OpenFile, HandleOK, ReadyStates, diskVars
  <2>6. \A g \in Handles \ {h} : Same(g)
    BY <1>0, <1>2 DEF TypeOK, OpenFile, Same
  <2>7. QED BY <2>1, <2>2, <2>3, <2>4, <2>5, <2>6, OneHandle
<1>3. CASE Lock(h)
  <2>1. Grows
    BY <1>0, <1>3, DiskSteps DEF Lock
  <2>2. TypeOK'
    BY <1>0, <1>3 DEF TypeOK, Lock, diskVars, States, OpenStates
  <2>3. ExclusiveHandle'
    BY <1>0, <1>3, LedgerAssumption DEF TypeOK, Lock, ExclusiveHandle
  <2>4. AckedRecoverable'
    BY <2>1, <1>3, AcksGrow DEF Lock
  <2>5. HandleOK(h)'
    BY <1>0, <1>3 DEF TypeOK, Lock, HandleOK, ReadyStates, diskVars
  <2>6. \A g \in Handles \ {h} : Same(g)
    BY <1>0, <1>3 DEF TypeOK, Lock, Same
  <2>7. QED BY <2>1, <2>2, <2>3, <2>4, <2>5, <2>6, OneHandle
<1>4. CASE Busy(h)
  BY <1>0, <1>4, DiskSteps, ReleaseStep DEF Busy
<1>5. CASE WriteHeader(h)
  <2>0. Header \in Lines
    BY DEF Lines
  <2>1. Grows /\ Len(file') = Len(file) + 1 /\ file'[Len(file')] = Header
    BY <1>0, <1>5, <2>0, DiskSteps DEF WriteHeader
  <2>2. CASE Len(file') = 1
    <3>1. TypeOK'
      <4>1. /\ file' \in Seq(Lines) /\ synced' \in 0..Len(file') /\ Len(file') \in Nat
            /\ entry' \in {"absent", "volatile", "durable"}
        BY <1>0, <1>5, <2>1 DEF TypeOK, Grows, WriteHeader
      <4>2. /\ pc' = [pc EXCEPT ![h] = "recovered"]
            /\ stamp' = [stamp EXCEPT ![h] = Len(file')]
            /\ UNCHANGED <<lock, children, mode, recs, pending, anchor, trusted, acked>>
        BY <1>5, <2>2 DEF WriteHeader, lockVars
      <4>3. QED BY <1>0, <4>1, <4>2 DEF TypeOK, States, OpenStates
    <3>2. ExclusiveHandle'
      BY <1>0, <1>5, <2>2 DEF TypeOK, WriteHeader, ExclusiveHandle, lockVars,
         Holding, OpenStates
    <3>3. AckedRecoverable'
      BY <2>1, <1>5, AcksGrow DEF WriteHeader
    <3>4. HandleOK(h)'
      <4>1. recs[h] = <<>> /\ anchor[h] = None
        BY <1>0, <1>5 DEF WriteHeader, HandleOK
      <4>2. /\ pc'[h] = "recovered" /\ stamp'[h] = 1
            /\ recs'[h] = <<>> /\ anchor'[h] = None /\ entry' = entry
        BY <1>0, <1>5, <2>2, <4>1 DEF TypeOK, WriteHeader
      <4>3. Valid(file', 1)
        <5>1. 2..1 = {}
          OBVIOUS
        <5>2. file'[Len(file')] = Header
          BY <2>1
        <5>3. file'[1] = Header
          BY <2>2, <5>2
        <5>4. 1 \in 1..Len(file')
          BY <2>2
        <5>5. QED BY <5>1, <5>3, <5>4 DEF Valid
      <4>4. History(file', 1) = <<>>
        BY DEF History
      <4>5. entry # "absent"
        BY <1>0, <1>5 DEF WriteHeader, HandleOK
      <4>6. stamp'[h] = Len(recs'[h]) + 1
        BY <4>2
      <4>7. AnchorHolds(anchor'[h], recs'[h])
        BY <4>2 DEF AnchorHolds
      <4>8. QED BY <4>2, <4>3, <4>4, <4>5, <4>6, <4>7 DEF HandleOK, ReadyStates
    <3>5. \A g \in Handles \ {h} : Same(g)
      BY <1>0, <1>5, <2>2 DEF TypeOK, WriteHeader, Same
    <3>6. QED BY <2>1, <3>1, <3>2, <3>3, <3>4, <3>5, OneHandle
  <2>3. CASE Len(file') # 1
    BY <1>5, <2>1, <2>3, ReleaseStep DEF WriteHeader
  <2>4. QED BY <2>2, <2>3
<1>6. CASE TornHeader(h)
  <2>1. Torn \in Lines
    BY DEF Lines
  <2>2. Grows
    BY <1>0, <1>6, <2>1, DiskSteps DEF TornHeader
  <2>3. QED BY <1>6, <2>2, ReleaseStep DEF TornHeader
<1>7. CASE Recover(h)
  <2>1. Grows
    BY <1>0, <1>7, DiskSteps DEF Recover
  <2>2. CASE /\ Valid(file, Len(file)) /\ Len(file) = stamp[h]
             /\ AnchorHolds(anchor[h], History(file, Len(file)))
    <3>1. /\ recs' = [recs EXCEPT ![h] = History(file, Len(file))]
          /\ pc' = [pc EXCEPT ![h] = "recovered"]
          /\ UNCHANGED <<lockVars, mode, stamp, pending, anchor>>
      BY <1>7, <2>2 DEF Recover
    <3>2. /\ History(file, Len(file)) \in Seq(Intents)
          /\ Len(History(file, Len(file))) = Len(file) - 1
      <4>1. file \in Seq(Lines) /\ Len(file) \in Nat BY <1>0 DEF TypeOK
      <4>2. QED BY <4>1, <2>2, HistoryType
    <3>3. TypeOK'
      BY <1>0, <1>7, <3>1, <3>2 DEF TypeOK, Recover, lockVars, diskVars, States, OpenStates
    <3>4. ExclusiveHandle'
      BY <1>0, <1>7, <3>1 DEF TypeOK, Recover, ExclusiveHandle, lockVars, Holding, OpenStates
    <3>5. AckedRecoverable'
      BY <2>1, <1>7, AcksGrow DEF Recover
    <3>6. HandleOK(h)'
      <4>1. /\ pc'[h] = "recovered" /\ recs'[h] = History(file, Len(file))
            /\ stamp'[h] = Len(file) /\ anchor'[h] = anchor[h]
            /\ file' = file /\ entry' = entry /\ Len(file) \in Nat
        BY <1>0, <1>7, <2>2, <3>1 DEF TypeOK, Recover, diskVars
      <4>2. entry # "absent"
        BY <1>0, <1>7 DEF Recover, HandleOK
      <4>3. stamp'[h] = Len(recs'[h]) + 1
        BY <3>2, <4>1
      <4>4. QED BY <2>2, <4>1, <4>2, <4>3 DEF HandleOK, ReadyStates
    <3>7. \A g \in Handles \ {h} : Same(g)
      BY <1>0, <3>1 DEF TypeOK, Same
    <3>8. QED BY <2>1, <3>3, <3>4, <3>5, <3>6, <3>7, OneHandle
  <2>3. CASE ~ (/\ Valid(file, Len(file)) /\ Len(file) = stamp[h]
                /\ AnchorHolds(anchor[h], History(file, Len(file))))
    <3>1. Release(h) /\ UNCHANGED <<trusted, acked>>
      BY <1>7, <2>3 DEF Recover
    <3>2. QED BY <2>1, <3>1, ReleaseStep
  <2>4. QED BY <2>2, <2>3
<1>8. CASE OpenSync(h)
  <2>1. Grows
    BY <1>0, <1>8, DiskSteps DEF OpenSync
  <2>2. CASE Len(file) = stamp[h]
    <3>1. TypeOK'
      <4>1. /\ file' = file /\ synced' = Len(file) /\ entry' = "durable"
            /\ pc' = [pc EXCEPT ![h] = "ready"]
            /\ UNCHANGED <<lock, children, mode, recs, stamp, pending, anchor, trusted, acked>>
        BY <1>8, <2>2 DEF OpenSync, lockVars, handleVars
      <4>2. synced' \in 0..Len(file')
        BY <1>0, <4>1 DEF TypeOK
      <4>3. QED BY <1>0, <4>1, <4>2 DEF TypeOK, States, ReadyStates
    <3>2. ExclusiveHandle'
      BY <1>0, <1>8, <2>2 DEF TypeOK, OpenSync, ExclusiveHandle, lockVars, Holding,
         OpenStates, ReadyStates
    <3>3. AckedRecoverable'
      BY <2>1, <1>8, AcksGrow DEF OpenSync
    <3>4. HandleOK(h)'
      <4>1. /\ stamp[h] = Len(recs[h]) + 1 /\ Valid(file, stamp[h])
            /\ recs[h] = History(file, stamp[h]) /\ AnchorHolds(anchor[h], recs[h])
        BY <1>0, <1>8 DEF OpenSync, HandleOK
      <4>2. /\ pc'[h] = "ready" /\ recs'[h] = recs[h] /\ stamp'[h] = stamp[h]
            /\ anchor'[h] = anchor[h] /\ file' = file /\ entry' = "durable"
            /\ stamp'[h] <= synced'
        BY <1>0, <1>8, <2>2 DEF TypeOK, OpenSync, handleVars
      <4>3. QED BY <4>1, <4>2 DEF HandleOK, ReadyStates
    <3>5. \A g \in Handles \ {h} : Same(g)
      BY <1>0, <1>8, <2>2 DEF TypeOK, OpenSync, handleVars, Same
    <3>6. QED BY <2>1, <3>1, <3>2, <3>3, <3>4, <3>5, OneHandle
  <2>3. CASE Len(file) # stamp[h]
    BY <1>8, <2>1, <2>3, ReleaseStep DEF OpenSync
  <2>4. QED BY <2>2, <2>3
<1>9. QED BY <1>1, <1>2, <1>3, <1>4, <1>5, <1>6, <1>7, <1>8 DEF Open

-----------------------------------------------------------------------------
(* Appending                                                               *)

LEMMA AppendKeeps ==
  ASSUME IInv, NEW h \in Handles, AppendStep(h)
  PROVE  IInv'
<1>0. TypeOK /\ ExclusiveHandle /\ AckedRecoverable /\ HandleOK(h)
  BY DEF IInv
<1> USE DEF ReadyStates
<1>1. ASSUME NEW i \in Intents, AppendKnown(h, i) PROVE IInv'
  <2>1. Grows
    BY <1>0, <1>1, DiskSteps DEF AppendKnown
  <2>2. PICK k \in 1..Len(recs[h]) :
          recs[h][k] = i /\ acked' = acked \cup {[seq |-> k, intent |-> i]}
    BY <1>1 DEF AppendKnown
  <2>3. /\ pc[h] = "ready" /\ stamp[h] = Len(recs[h]) + 1 /\ Valid(file, stamp[h])
        /\ recs[h] = History(file, stamp[h]) /\ stamp[h] <= synced
        /\ entry = "durable"
    BY <1>0, <1>1 DEF AppendKnown, HandleOK
  <2>4. /\ Len(recs[h]) \in Nat /\ k \in Nat /\ k + 1 \in 1..stamp[h]
        /\ stamp[h] \in Nat /\ synced \in Nat /\ k # 0 /\ stamp[h] <= Len(file)
    BY <1>0, <2>2, <2>3 DEF TypeOK, Valid
  <2>5. file[k + 1].intent = i
    <3>1. k \in 1..(stamp[h] - 1)
      BY <2>3, <2>4
    <3>2. QED BY <2>2, <2>3, <3>1 DEF History
  <2>6. Valid(file, k + 1)
    <3>1. Len(file) \in Nat
      BY <1>0 DEF TypeOK
    <3>2. QED BY <2>3, <2>4, <3>1, ValidPrefix
  <2>7. TypeOK'
    <3>1. [seq |-> k, intent |-> i] \in Receipts
      BY <2>4 DEF Receipts, Intents
    <3>2. QED BY <1>0, <1>1, <2>2, <3>1
          DEF TypeOK, AppendKnown, diskVars, lockVars, handleVars
  <2>8. AckedRecoverable'
    BY <1>0, <1>1, <2>2, <2>3, <2>4, <2>5, <2>6
    DEF AckedRecoverable, AppendKnown, diskVars
  <2>9. ExclusiveHandle' /\ \A g \in Handles : Same(g)
    BY <1>0, <1>1 DEF ExclusiveHandle, AppendKnown, lockVars, handleVars, Same
  <2>10. HandleOK(h)'
    BY <1>0, <2>1, <2>9, HandleFrame
  <2>11. QED BY <2>1, <2>7, <2>8, <2>9, <2>10, OneHandle
<1>2. ASSUME NEW i \in Intents, BeginAppend(h, i) PROVE IInv'
  <2>1. Grows
    BY <1>0, <1>2, DiskSteps DEF BeginAppend
  <2>2. TypeOK'
    BY <1>0, <1>2 DEF TypeOK, BeginAppend, diskVars, lockVars, States
  <2>3. ExclusiveHandle'
    BY <1>0, <1>2 DEF TypeOK, BeginAppend, ExclusiveHandle, lockVars, Holding
  <2>4. AckedRecoverable'
    BY <2>1, <1>2, AcksGrow DEF BeginAppend
  <2>5. HandleOK(h)'
    BY <1>0, <1>2 DEF TypeOK, BeginAppend, HandleOK, diskVars
  <2>6. \A g \in Handles \ {h} : Same(g)
    BY <1>0, <1>2 DEF TypeOK, BeginAppend, Same
  <2>7. QED BY <2>1, <2>2, <2>3, <2>4, <2>5, <2>6, OneHandle
<1>3. CASE Write(h)
  <2>0. /\ pc[h] = "writing" /\ pending[h] \in Intents /\ recs[h] \in Seq(Intents)
        /\ \A k \in 1..Len(recs[h]) : recs[h][k].id # pending[h].id
        /\ stamp[h] = Len(recs[h]) + 1 /\ Valid(file, stamp[h])
        /\ recs[h] = History(file, stamp[h]) /\ AnchorHolds(anchor[h], recs[h])
        /\ stamp[h] <= synced /\ entry = "durable"
    BY <1>0, <1>3 DEF TypeOK, Write, HandleOK
  <2>1. Record(recs[h], pending[h]) \in Lines
    BY <2>0 DEF Record, Lines, Records
  <2>2. /\ Grows /\ Len(file') = Len(file) + 1
        /\ file'[Len(file')] = Record(recs[h], pending[h])
    BY <1>0, <1>3, <2>1, DiskSteps DEF Write
  <2>3. TypeOK'
    <3>1. file' \in Seq(Lines) /\ synced' \in 0..Len(file')
      BY <2>2 DEF Grows
    <3>2. QED BY <1>0, <1>3, <3>1 DEF TypeOK, Write, lockVars, handleVars, States
  <2>4. ExclusiveHandle'
    BY <1>0, <1>3 DEF TypeOK, Write, ExclusiveHandle, lockVars, Holding
  <2>5. AckedRecoverable'
    BY <2>2, <1>3, AcksGrow DEF Write
  <2>6. HandleOK(h)'
    <3>1. stamp[h] \in 1..Len(file) /\ Len(file) \in Nat /\ Len(file') \in Nat
      BY <1>0, <2>0, <2>2 DEF Valid, TypeOK
    <3>2. \A k \in 1..stamp[h] : file'[k] = file[k]
      BY <2>2, <3>1 DEF Grows
    <3>3. Valid(file', stamp[h])
      <4>1. stamp[h] \in Nat /\ stamp[h] <= Len(file')
        BY <2>2, <3>1
      <4>2. QED BY <2>0, <3>1, <3>2, <4>1, ValidAgree
    <3>4. History(file', stamp[h]) = History(file, stamp[h])
      <4>1. \A k \in 1..(stamp[h] - 1) : k + 1 \in 1..stamp[h]
        BY <3>1
      <4>2. \A k \in 1..(stamp[h] - 1) : file'[k + 1] = file[k + 1]
        BY <3>2, <4>1
      <4>3. QED BY <4>2 DEF History
    <3>5. stamp[h] < Len(file')
      BY <2>2, <3>1
    <3>6. /\ pc'[h] = "written" /\ recs'[h] = recs[h] /\ stamp'[h] = stamp[h]
          /\ anchor'[h] = anchor[h] /\ pending'[h] = pending[h]
          /\ entry' = entry /\ synced' = synced
      BY <1>0, <1>3 DEF TypeOK, Write, handleVars
    <3>7. QED BY <2>0, <2>2, <3>3, <3>4, <3>5, <3>6 DEF HandleOK
  <2>7. \A g \in Handles \ {h} : Same(g)
    BY <1>0, <1>3 DEF TypeOK, Write, handleVars, Same
  <2>8. QED BY <2>2, <2>3, <2>4, <2>5, <2>6, <2>7, OneHandle
<1>4. CASE TornWrite(h)
  <2>1. Torn \in Lines
    BY DEF Lines
  <2>2. Grows
    BY <1>0, <1>4, <2>1, DiskSteps DEF TornWrite
  <2>3. TypeOK'
    <3>1. file' \in Seq(Lines) /\ synced' \in 0..Len(file')
      BY <2>2 DEF Grows
    <3>2. QED BY <1>0, <1>4, <3>1 DEF TypeOK, TornWrite, lockVars, handleVars, States
  <2>4. ExclusiveHandle'
    BY <1>0, <1>4 DEF TypeOK, TornWrite, ExclusiveHandle, lockVars, Holding
  <2>5. AckedRecoverable'
    BY <2>2, <1>4, AcksGrow DEF TornWrite
  <2>6. HandleOK(h)'
    BY <1>0, <1>4 DEF TypeOK, TornWrite, HandleOK, handleVars
  <2>7. \A g \in Handles \ {h} : Same(g)
    BY <1>0, <1>4 DEF TypeOK, TornWrite, handleVars, Same
  <2>8. QED BY <2>2, <2>3, <2>4, <2>5, <2>6, <2>7, OneHandle
<1>5. CASE Fsync(h)
  <2>1. Grows
    BY <1>0, <1>5, DiskSteps DEF Fsync
  <2>2. TypeOK'
    <3>1. file' \in Seq(Lines) /\ synced' \in 0..Len(file')
      BY <2>1 DEF Grows
    <3>2. QED BY <1>0, <1>5, <3>1 DEF TypeOK, Fsync, lockVars, handleVars, States
  <2>3. ExclusiveHandle'
    BY <1>0, <1>5 DEF TypeOK, Fsync, ExclusiveHandle, lockVars, Holding
  <2>4. AckedRecoverable'
    BY <2>1, <1>5, AcksGrow DEF Fsync
  <2>5. HandleOK(h)'
    <3>1. stamp[h] < Len(file) /\ stamp[h] \in Nat /\ Len(file) \in Nat
      BY <1>0, <1>5 DEF TypeOK, Fsync, HandleOK
    <3>2. QED BY <1>0, <1>5, <3>1 DEF TypeOK, Fsync, HandleOK, handleVars
  <2>6. \A g \in Handles \ {h} : Same(g)
    BY <1>0, <1>5 DEF TypeOK, Fsync, handleVars, Same
  <2>7. QED BY <2>1, <2>2, <2>3, <2>4, <2>5, <2>6, OneHandle
<1>6. CASE Finish(h)
  <2>0. /\ pc[h] = "flushed" /\ pending[h] \in Intents /\ recs[h] \in Seq(Intents)
        /\ \A k \in 1..Len(recs[h]) : recs[h][k].id # pending[h].id
        /\ stamp[h] = Len(recs[h]) + 1 /\ Valid(file, stamp[h])
        /\ recs[h] = History(file, stamp[h]) /\ AnchorHolds(anchor[h], recs[h])
        /\ stamp[h] < synced /\ entry = "durable"
        /\ Len(file) = stamp[h] + 1 => file[Len(file)] = Record(recs[h], pending[h])
    BY <1>0, <1>6 DEF TypeOK, Finish, HandleOK
  <2>1. Grows
    BY <1>0, <1>6, DiskSteps DEF Finish
  <2>2. \A g \in Handles \ {h} : Same(g)
    BY <1>0, <1>6 DEF TypeOK, Finish, Same
  <2>3. ExclusiveHandle'
    BY <1>0, <1>6 DEF TypeOK, Finish, ExclusiveHandle, lockVars, Holding
  <2>4. CASE Len(file) = stamp[h] + 1
    <3>1. /\ recs' = [recs EXCEPT ![h] = Append(recs[h], pending[h])]
          /\ stamp' = [stamp EXCEPT ![h] = Len(file)]
          /\ acked' = acked \cup {[seq |-> Len(recs[h]) + 1, intent |-> pending[h]]}
          /\ pc' = [pc EXCEPT ![h] = "ready"]
          /\ pending' = [pending EXCEPT ![h] = None]
          /\ UNCHANGED <<file, synced, entry, lock, children, mode, anchor, trusted>>
      BY <1>6, <2>4 DEF Finish, diskVars, lockVars
    <3>2. stamp[h] \in Nat /\ Len(recs[h]) \in Nat /\ file \in Seq(Lines) /\ synced \in Nat
      BY <1>0, <2>0 DEF TypeOK
    <3>0. stamp[h] + 1 <= synced
      <4>1. stamp[h] < synced
        BY <2>0
      <4>2. QED BY <3>2, <4>1
    <3>3. /\ Valid(file, stamp[h] + 1)
          /\ History(file, stamp[h] + 1) = Append(recs[h], pending[h])
      <4>1. \A k \in 1..(stamp[h] - 1) : History(file, stamp[h])[k].id # pending[h].id
        BY <2>0, <3>2
      <4>2. file[stamp[h] + 1] = Record(History(file, stamp[h]), pending[h])
        BY <2>0, <2>4
      <4>3. QED BY <2>0, <2>4, <3>2, <4>1, <4>2, ValidRecord
    <3>4. TypeOK'
      <4>1. [seq |-> Len(recs[h]) + 1, intent |-> pending[h]] \in Receipts
        BY <2>0, <3>2 DEF Receipts, Intents
      <4>2. Append(recs[h], pending[h]) \in Seq(Intents)
        BY <2>0
      <4>3. QED BY <1>0, <2>4, <3>1, <3>2, <4>1, <4>2 DEF TypeOK, States
    <3>5. AckedRecoverable'
      <4>1. ASSUME NEW r \in acked'
            PROVE  /\ entry' = "durable" /\ r.seq + 1 <= synced'
                   /\ Valid(file', r.seq + 1) /\ file'[r.seq + 1].intent = r.intent
        <5>1. CASE r \in acked
          BY <1>0, <3>1, <5>1 DEF AckedRecoverable
        <5>2. CASE r = [seq |-> Len(recs[h]) + 1, intent |-> pending[h]]
          <6>1. r.seq = stamp[h] /\ r.intent = pending[h]
            BY <2>0, <5>2
          <6>2. r.seq + 1 <= synced'
            <7>1. synced' = synced BY <3>1
            <7>2. QED BY <3>0, <6>1, <7>1
          <6>3. Valid(file', r.seq + 1)
            BY <3>1, <3>3, <6>1
          <6>4. file'[r.seq + 1].intent = r.intent
            <7>1. file[stamp[h] + 1] = Record(recs[h], pending[h])
              BY <2>0, <2>4
            <7>2. file' = file BY <3>1
            <7>3. QED BY <6>1, <7>1, <7>2 DEF Record
          <6>5. QED BY <2>0, <3>1, <6>2, <6>3, <6>4
        <5>3. QED BY <3>1, <5>1, <5>2
      <4>2. QED BY <4>1 DEF AckedRecoverable
    <3>6. HandleOK(h)'
      <4>1. /\ pc'[h] = "ready" /\ recs'[h] = Append(recs[h], pending[h])
            /\ stamp'[h] = stamp[h] + 1 /\ anchor'[h] = anchor[h]
            /\ file' = file /\ entry' = entry /\ synced' = synced
        BY <1>0, <2>4, <3>1 DEF TypeOK
      <4>2. Len(recs'[h]) = Len(recs[h]) + 1
        BY <2>0, <4>1
      <4>3. AnchorHolds(anchor'[h], recs'[h])
        <5>1. CASE anchor[h] = None
          BY <4>1, <5>1 DEF AnchorHolds
        <5>2. CASE anchor[h] # None
          <6>1. anchor[h] \in Seq(Intents) /\ Len(anchor[h]) \in Nat
            BY <1>0, <5>2 DEF TypeOK
          <6>2. /\ Len(anchor[h]) <= Len(recs[h])
                /\ \A k \in 1..Len(anchor[h]) : anchor[h][k] = recs[h][k]
            BY <2>0, <5>2 DEF AnchorHolds
          <6>3. \A k \in 1..Len(anchor[h]) : recs'[h][k] = recs[h][k]
            BY <2>0, <3>2, <4>1, <6>1, <6>2
          <6>4. QED BY <3>2, <4>1, <4>2, <6>1, <6>2, <6>3 DEF AnchorHolds
        <5>3. QED BY <5>1, <5>2
      <4>4. stamp'[h] <= synced'
        BY <3>0, <4>1
      <4>5. QED BY <2>0, <3>3, <4>1, <4>2, <4>3, <4>4 DEF HandleOK
    <3>7. QED BY <2>1, <2>2, <2>3, <3>4, <3>5, <3>6, OneHandle
  <2>5. CASE Len(file) # stamp[h] + 1
    <3>1. /\ pc' = [pc EXCEPT ![h] = "poisoned"]
          /\ pending' = [pending EXCEPT ![h] = None]
          /\ UNCHANGED <<file, synced, entry, lock, children, mode, anchor, trusted,
                         recs, stamp, acked>>
      BY <1>6, <2>5 DEF Finish, diskVars, lockVars
    <3>2. TypeOK'
      BY <1>0, <3>1 DEF TypeOK, States
    <3>3. AckedRecoverable'
      BY <2>1, <3>1, AcksGrow
    <3>4. HandleOK(h)'
      BY <1>0, <2>0, <3>1 DEF TypeOK, HandleOK
    <3>5. QED BY <2>1, <2>2, <2>3, <3>2, <3>3, <3>4, OneHandle
  <2>6. QED BY <2>4, <2>5
<1>7. CASE AppendRaises(h)
  <2>1. Grows
    BY <1>0, <1>7, DiskSteps DEF AppendRaises
  <2>2. TypeOK'
    BY <1>0, <1>7 DEF TypeOK, AppendRaises, diskVars, lockVars, handleVars, States
  <2>3. ExclusiveHandle'
    BY <1>0, <1>7 DEF TypeOK, AppendRaises, ExclusiveHandle, lockVars, Holding
  <2>4. AckedRecoverable'
    BY <2>1, <1>7, AcksGrow DEF AppendRaises
  <2>5. HandleOK(h)'
    BY <1>0, <1>7 DEF TypeOK, AppendRaises, HandleOK, diskVars, handleVars
  <2>6. \A g \in Handles \ {h} : Same(g)
    BY <1>0, <1>7 DEF TypeOK, AppendRaises, handleVars, Same
  <2>7. QED BY <2>1, <2>2, <2>3, <2>4, <2>5, <2>6, OneHandle
<1>8. QED BY <1>1, <1>2, <1>3, <1>4, <1>5, <1>6, <1>7 DEF AppendStep

-----------------------------------------------------------------------------
(* The other steps of a handle, and the environment                        *)

LEMMA OtherKeeps ==
  ASSUME IInv, NEW h \in Handles, Other(h)
  PROVE  IInv'
<1>0. TypeOK /\ ExclusiveHandle /\ AckedRecoverable /\ HandleOK(h)
  BY DEF IInv
<1>1. CASE GuardFails(h)
  <2>1. Grows
    BY <1>0, <1>1, DiskSteps DEF GuardFails
  <2>2. TypeOK'
    BY <1>0, <1>1 DEF TypeOK, GuardFails, diskVars, lockVars, handleVars, States
  <2>3. ExclusiveHandle'
    BY <1>0, <1>1 DEF TypeOK, GuardFails, ExclusiveHandle, lockVars, Holding, ReadyStates
  <2>4. AckedRecoverable'
    BY <2>1, <1>1, AcksGrow DEF GuardFails
  <2>5. HandleOK(h)'
    BY <1>0, <1>1 DEF TypeOK, GuardFails, HandleOK, ReadyStates, diskVars, handleVars
  <2>6. \A g \in Handles \ {h} : Same(g)
    BY <1>0, <1>1 DEF TypeOK, GuardFails, handleVars, Same
  <2>7. QED BY <2>1, <2>2, <2>3, <2>4, <2>5, <2>6, OneHandle
<1>2. CASE TakeCheckpoint(h)
  <2>1. Grows
    BY <1>0, <1>2, DiskSteps DEF TakeCheckpoint
  <2>2. TypeOK'
    BY <1>0, <1>2 DEF TypeOK, TakeCheckpoint, diskVars, lockVars, handleVars
  <2>3. ExclusiveHandle'
    BY <1>0, <1>2 DEF TakeCheckpoint, ExclusiveHandle, lockVars
  <2>4. AckedRecoverable'
    BY <2>1, <1>2, AcksGrow DEF TakeCheckpoint
  <2>5. \A g \in Handles : Same(g)
    BY <1>2 DEF TakeCheckpoint, handleVars, Same
  <2>6. HandleOK(h)'
    BY <1>0, <2>1, <2>5, HandleFrame
  <2>7. QED BY <2>1, <2>2, <2>3, <2>4, <2>5, <2>6, OneHandle
<1>3. CASE Stop(h)
  BY <1>0, <1>3, DiskSteps, ReleaseStep DEF Stop
<1>4. CASE Fork(h)
  <2>1. Grows
    BY <1>0, <1>4, DiskSteps DEF Fork
  <2>2. TypeOK'
    BY <1>0, <1>4 DEF TypeOK, Fork, diskVars, handleVars
  <2>3. ExclusiveHandle'
    BY <1>0, <1>4 DEF TypeOK, Fork, ExclusiveHandle, Holding
  <2>4. AckedRecoverable'
    BY <2>1, <1>4, AcksGrow DEF Fork
  <2>5. \A g \in Handles : Same(g)
    BY <1>4 DEF Fork, handleVars, Same
  <2>6. HandleOK(h)'
    BY <1>0, <2>1, <2>5, HandleFrame
  <2>7. QED BY <2>1, <2>2, <2>3, <2>4, <2>5, <2>6, OneHandle
<1>5. CASE ChildClose(h)
  <2>1. Grows
    BY <1>0, <1>5, DiskSteps DEF ChildClose
  <2>2. TypeOK'
    BY <1>0, <1>5 DEF TypeOK, ChildClose, diskVars, handleVars
  <2>3. ExclusiveHandle'
    <3>1. lock = h
      BY <1>0, <1>5 DEF ChildClose, ExclusiveHandle
    <3>2. children' = {}
      BY <1>0, <1>5, <3>1 DEF ChildClose, ExclusiveHandle
    <3>3. QED BY <1>0, <1>5, <3>1, <3>2 DEF ChildClose, ExclusiveHandle
  <2>4. AckedRecoverable'
    BY <2>1, <1>5, AcksGrow DEF ChildClose
  <2>5. \A g \in Handles : Same(g)
    BY <1>5 DEF ChildClose, handleVars, Same
  <2>6. HandleOK(h)'
    BY <1>0, <2>1, <2>5, HandleFrame
  <2>7. QED BY <2>1, <2>2, <2>3, <2>4, <2>5, <2>6, OneHandle
<1>6. QED BY <1>1, <1>2, <1>3, <1>4, <1>5 DEF Other

LEMMA CrashKeeps ==
  ASSUME IInv, Crash
  PROVE  IInv'
<1>0. TypeOK /\ ExclusiveHandle /\ AckedRecoverable
  BY DEF IInv
<1>1. /\ file \in Seq(Lines) /\ Len(file) \in Nat /\ synced \in Nat /\ Torn \in Lines
      /\ <<>> \in Seq(Lines) /\ <<>> \in Seq(Intents)
  BY <1>0 DEF TypeOK, Lines
<1>2. /\ file' \in Seq(Lines) /\ synced' \in 0..Len(file')
      /\ entry' \in {"absent", "volatile", "durable"}
      /\ AckedRecoverable'
  <2>1. ASSUME entry' = "durable", NEW n \in synced..Len(file),
               file' = SubSeq(file, 1, n), synced' = n
        PROVE  file' \in Seq(Lines) /\ synced' \in 0..Len(file') /\ AckedRecoverable'
    <3>1. n \in Nat /\ n <= Len(file) /\ synced <= n
      BY <1>1
    <3>2. file' \in Seq(Lines) /\ Len(file') = n
      BY <1>1, <2>1, <3>1
    <3>3. \A k \in 1..synced : file'[k] = file[k]
      BY <1>1, <2>1, <3>1
    <3>4. synced <= synced' /\ synced' \in 0..Len(file')
      BY <2>1, <3>1, <3>2
    <3>5. acked' \subseteq acked
      BY DEF Crash
    <3>6. QED BY <1>0, <2>1, <3>2, <3>3, <3>4, <3>5, AckFrame
  <2>2. ASSUME entry' = "durable", NEW n \in synced..Len(file), n < Len(file),
               file' = Append(SubSeq(file, 1, n), Torn), synced' = n + 1
        PROVE  file' \in Seq(Lines) /\ synced' \in 0..Len(file') /\ AckedRecoverable'
    <3>1. n \in Nat /\ n <= Len(file) /\ synced <= n
      BY <1>1
    <3>2. SubSeq(file, 1, n) \in Seq(Lines) /\ Len(SubSeq(file, 1, n)) = n
      BY <1>1, <3>1
    <3>3. file' \in Seq(Lines) /\ Len(file') = n + 1
      BY <1>1, <2>2, <3>2
    <3>4. \A k \in 1..synced : SubSeq(file, 1, n)[k] = file[k]
      BY <1>1, <3>1
    <3>5. \A k \in 1..synced : file'[k] = file[k]
      <4>1. TAKE k \in 1..synced
      <4>2. k \in 1..Len(SubSeq(file, 1, n))
        BY <1>1, <3>1, <3>2
      <4>3. QED BY <2>2, <3>2, <3>4, <4>2
    <3>6. synced <= synced' /\ synced' \in 0..Len(file')
      BY <1>1, <2>2, <3>1, <3>3
    <3>7. acked' \subseteq acked
      BY DEF Crash
    <3>8. QED BY <1>0, <2>2, <3>3, <3>5, <3>6, <3>7, AckFrame
  <2>3. ASSUME entry # "durable", file' = <<>>, synced' = 0, entry' = "absent"
        PROVE  file' \in Seq(Lines) /\ synced' \in 0..Len(file') /\ AckedRecoverable'
    <3>1. acked' = {}
      BY <1>0, <2>3 DEF AckedRecoverable, Crash
    <3>2. QED BY <1>1, <2>3, <3>1 DEF AckedRecoverable
  <2>4. QED BY <2>1, <2>2, <2>3 DEF Crash
<1>3. /\ pc' = [h \in Handles |-> "closed"] /\ mode' = [h \in Handles |-> "existing"]
      /\ recs' = [h \in Handles |-> <<>>] /\ stamp' = [h \in Handles |-> 0]
      /\ pending' = [h \in Handles |-> None] /\ anchor' = [h \in Handles |-> None]
      /\ lock' = None /\ children' = {} /\ trusted' = trusted /\ acked' = acked
  BY DEF Crash
<1>4. TypeOK'
  BY <1>0, <1>1, <1>2, <1>3 DEF TypeOK, States
<1>5. ExclusiveHandle'
  BY <1>3 DEF ExclusiveHandle, Holding, OpenStates, ReadyStates
<1>6. \A h \in Handles : HandleOK(h)'
  BY <1>3 DEF HandleOK, ReadyStates
<1>7. QED BY <1>2, <1>4, <1>5, <1>6 DEF IInv

LEMMA ForeignKeeps ==
  ASSUME IInv, ForeignAppend
  PROVE  IInv'
<1>0. TypeOK /\ ExclusiveHandle
  BY DEF IInv
<1>1. Grows
  <2>1. Junk \in Lines
    BY DEF Lines
  <2>2. QED BY <1>0, <2>1, DiskSteps DEF ForeignAppend
<1>2. TypeOK'
  <2>1. file' \in Seq(Lines) /\ synced' \in 0..Len(file')
    BY <1>1 DEF Grows
  <2>2. QED BY <1>0, <2>1 DEF TypeOK, ForeignAppend, lockVars, handleVars
<1>3. ExclusiveHandle'
  BY <1>0 DEF ForeignAppend, ExclusiveHandle, lockVars
<1>4. AckedRecoverable'
  BY <1>1, AcksGrow DEF ForeignAppend
<1>5. ASSUME NEW h \in Handles PROVE HandleOK(h)'
  <2>1. HandleOK(h) /\ Same(h)
    BY DEF IInv, ForeignAppend, handleVars, Same
  <2>2. QED BY <1>0, <1>1, <2>1, HandleFrame
<1>6. QED BY <1>2, <1>3, <1>4, <1>5 DEF IInv

LEMMA RestoreKeeps ==
  ASSUME IInv, RestoreBackup
  PROVE  IInv'
<1>0. TypeOK /\ ExclusiveHandle /\ AckedRecoverable /\ (\A h \in Handles : HandleOK(h))
  BY DEF IInv
<1>1. PICK n \in 1..(Len(file) - 1) :
        /\ Valid(file, n) /\ file' = SubSeq(file, 1, n) /\ synced' = n
        /\ acked' = {r \in acked : r.seq < n}
  BY DEF RestoreBackup
<1>2. file \in Seq(Lines) /\ Len(file) \in Nat /\ n \in Nat /\ n <= Len(file)
  BY <1>0 DEF TypeOK
<1>3. /\ file' \in Seq(Lines) /\ Len(file') = n
      /\ \A k \in 1..n : file'[k] = file[k]
  BY <1>1, <1>2
<1>4. TypeOK'
  BY <1>0, <1>1, <1>2, <1>3 DEF TypeOK, RestoreBackup, lockVars, handleVars
<1>5. ExclusiveHandle'
  BY <1>0 DEF RestoreBackup, ExclusiveHandle, lockVars
<1>6. AckedRecoverable'
  <2>1. SUFFICES ASSUME NEW r \in acked'
                 PROVE  /\ entry' = "durable" /\ r.seq + 1 <= synced'
                        /\ Valid(file', r.seq + 1)
                        /\ file'[r.seq + 1].intent = r.intent
    BY DEF AckedRecoverable
  <2>2. r \in acked /\ r.seq < n
    BY <1>1
  <2>3. r.seq \in Nat
    BY <1>0, <2>2 DEF TypeOK, Receipts
  <2>4. r.seq + 1 \in 1..n /\ r.seq + 1 \in Nat
    BY <1>2, <2>2, <2>3
  <2>5. Valid(file, r.seq + 1) /\ file[r.seq + 1].intent = r.intent
    BY <1>0, <2>2 DEF AckedRecoverable
  <2>6. \A k \in 1..(r.seq + 1) : file'[k] = file[k]
    BY <1>2, <1>3, <2>4
  <2>7. Valid(file', r.seq + 1)
    <3>1. r.seq + 1 <= Len(file') /\ Len(file') \in Nat
      BY <1>2, <1>3, <2>4
    <3>2. QED BY <2>4, <2>5, <2>6, <3>1, ValidAgree
  <2>8. entry' = "durable" /\ r.seq + 1 <= synced'
    BY <1>1, <2>4 DEF RestoreBackup
  <2>9. QED BY <1>3, <2>4, <2>5, <2>7, <2>8
<1>7. \A h \in Handles : HandleOK(h)'
  <2>1. TAKE h \in Handles
  <2>2. pc'[h] = "closed" /\ recs'[h] = <<>>
    BY <1>0 DEF RestoreBackup, HandleOK, handleVars
  <2>3. QED BY <2>2 DEF HandleOK, ReadyStates
<1>8. QED BY <1>4, <1>5, <1>6, <1>7 DEF IInv

-----------------------------------------------------------------------------
(* Theorems                                                                *)

\* The inductive invariant: every step of every handle, of the machine and of
\* whoever else touches the file preserves it.
THEOREM LedgerInvariant == Spec => []IInv
<1>1. Init => IInv
  <2>1. SUFFICES ASSUME Init PROVE IInv
    OBVIOUS
  <2>2. <<>> \in Seq(Lines) /\ <<>> \in Seq(Intents) /\ Len(<<>>) = 0
    OBVIOUS
  <2>3. TypeOK
    BY <2>1, <2>2 DEF Init, TypeOK, States
  <2>4. QED BY <2>1, <2>3 DEF Init, IInv, ExclusiveHandle, AckedRecoverable, HandleOK, Holding,
               OpenStates, ReadyStates
<1>2. IInv /\ [Next]_vars => IInv'
  <2>1. SUFFICES ASSUME IInv, [Next]_vars PROVE IInv'
    OBVIOUS
  <2>2. CASE UNCHANGED vars
    <3> USE <2>1, <2>2
    <3>0. TypeOK /\ ExclusiveHandle
      BY DEF IInv
    <3>1. Grows
      BY <3>0, DiskSteps DEF vars, diskVars
    <3>2. TypeOK' /\ ExclusiveHandle'
      BY <3>0 DEF TypeOK, ExclusiveHandle, vars
    <3>3. AckedRecoverable'
      BY <3>1, AcksGrow DEF vars
    <3>4. ASSUME NEW h \in Handles PROVE HandleOK(h)'
      <4>1. HandleOK(h) /\ Same(h)
        BY DEF IInv, vars, Same
      <4>2. QED BY <3>0, <3>1, <4>1, HandleFrame
    <3>5. QED BY <3>2, <3>3, <3>4 DEF IInv
  <2>3. CASE \E h \in Handles : Open(h) \/ AppendStep(h) \/ Other(h)
    BY <2>1, <2>3, OpenKeeps, AppendKeeps, OtherKeeps
  <2>4. CASE Environment
    BY <2>1, <2>4, CrashKeeps, ForeignKeeps, RestoreKeeps DEF Environment
  <2>5. QED BY <2>1, <2>2, <2>3, <2>4 DEF Next
<1>3. QED BY <1>1, <1>2, PTL DEF Spec

\* Type correctness of the ledger.
THEOREM LedgerTypes == Spec => []TypeOK
<1>1. IInv => TypeOK
  BY DEF IInv
<1>2. QED BY <1>1, LedgerInvariant, PTL

\* A receipt returned by append is for a record on stable storage that every
\* later open_existing accepts, whatever fails in between.
THEOREM ReceiptsAreRecoverable == Spec => []AckedRecoverable
<1>1. IInv => AckedRecoverable
  BY DEF IInv
<1>2. QED BY <1>1, LedgerInvariant, PTL

\* What a usable handle answers from memory is durable.
THEOREM HandlesAnswerFromDisk == Spec => []IndexIsDurable
<1>1. IInv => IndexIsDurable
  BY DEF IInv, HandleOK, IndexIsDurable
<1>2. QED BY <1>1, LedgerInvariant, PTL

\* A handle opened with a checkpoint works on a history that extends it.
THEOREM CheckpointIsHonoured == Spec => []AnchoredHistory
<1>1. IInv => AnchoredHistory
  BY DEF IInv, HandleOK, AnchoredHistory, AnchorHolds
<1>2. QED BY <1>1, LedgerInvariant, PTL

\* One handle at a time, forked children included.
THEOREM LockIsExclusive == Spec => []ExclusiveHandle
<1>1. IInv => ExclusiveHandle
  BY DEF IInv
<1>2. QED BY <1>1, LedgerInvariant, PTL

\* A new receipt is for the last line of the file, and that line continues the
\* history the handle knew: no receipt after somebody else's bytes.
THEOREM AppendsOnUntouchedFile == Spec => AppendOnUntouchedFile
<1>1. IInv /\ [Next]_vars =>
        [\A h \in Handles : (pc[h] = "flushed" /\ pc'[h] = "ready") =>
           /\ file[Len(file)] = Record(recs[h], pending[h])
           /\ History(file, Len(file) - 1) = recs[h]]_vars
  <2>1. SUFFICES ASSUME IInv, Next, NEW h \in Handles, pc[h] = "flushed", pc'[h] = "ready"
                 PROVE  /\ file[Len(file)] = Record(recs[h], pending[h])
                        /\ History(file, Len(file) - 1) = recs[h]
    OBVIOUS
  <2>2. TypeOK /\ HandleOK(h)
    BY <2>1 DEF IInv
  <2>3. Len(file) = stamp[h] + 1
    <3> TypeOK /\ Next /\ pc[h] = "flushed" /\ pc'[h] = "ready"
      BY <2>1, <2>2
    <3>1. ~ Environment
      BY DEF Environment, Crash, ForeignAppend, RestoreBackup
    <3>2. PICK g \in Handles : Open(g) \/ AppendStep(g) \/ Other(g)
      BY <3>1 DEF Next
    <3>3. ~ Release(g)
      BY DEF TypeOK, Release
    <3>4. ~ Open(g)
      BY <3>3 DEF TypeOK, Open, CreateFile, OpenFile, Lock, Busy, WriteHeader, TornHeader,
         Recover, OpenSync
    <3>5. ~ Other(g)
      BY <3>3 DEF TypeOK, Other, GuardFails, TakeCheckpoint, Stop, Fork, ChildClose
    <3>6. Finish(g)
      BY <3>2, <3>4, <3>5 DEF TypeOK, AppendStep, AppendKnown, BeginAppend, Write, TornWrite,
         Fsync, AppendRaises
    <3>7. QED BY <3>6 DEF TypeOK, Finish
  <2>4. Len(file) - 1 = stamp[h]
    BY <2>2, <2>3 DEF TypeOK
  <2>5. /\ file[Len(file)] = Record(recs[h], pending[h])
        /\ recs[h] = History(file, stamp[h])
    BY <2>1, <2>2, <2>3 DEF HandleOK, ReadyStates
  <2>6. QED BY <2>4, <2>5
<1>2. QED BY <1>1, LedgerInvariant, PTL DEF Spec, AppendOnUntouchedFile
-----------------------------------------------------------------------------
(* The ledger implements the durable log                                   *)

\* The first m of s stable lines of f are what a reader accepts (none if m = 0).
Top(f, s, m) ==
  /\ m \in 0..s
  /\ m # 0 => Valid(f, m)
  /\ \A n \in 1..s : Valid(f, n) => n <= m

\* Only one more line than stable storage has can be valid: whoever writes one is
\* ready, so that the lines before it are stable.  And a file whose entry may
\* still go has nothing on stable storage.
TailInv ==
  /\ entry # "durable" => synced = 0
  /\ \A n \in 1..Len(file) : Valid(file, n) => n <= synced + 1

LogInv == TailInv /\ \E m \in Nat : Top(file, synced, m)

\* DurableHistory of any file.
ReadBack(f, s) ==
  LET lines == {n \in 1..s : Valid(f, n)}
  IN  IF lines = {} THEN <<>>
      ELSE History(f, CHOOSE n \in lines : \A m \in lines : m <= n)

\* What it chooses.
LEMMA TopIsRead ==
  ASSUME NEW f, NEW s \in Nat, NEW m \in Nat, Top(f, s, m)
  PROVE  ReadBack(f, s) = IF m = 0 THEN <<>> ELSE History(f, m)
<1> DEFINE lines == {n \in 1..s : Valid(f, n)}
<1>2. CASE m = 0
  <2>1. lines = {}
    BY <1>2 DEF Top
  <2>2. QED BY <1>2, <2>1 DEF ReadBack
<1>3. CASE m # 0
  <2>1. m \in lines /\ \A n \in lines : n <= m
    BY <1>3 DEF Top
  <2>2. lines \subseteq Nat
    OBVIOUS
  <2>3. (CHOOSE n \in lines : \A k \in lines : k <= n) = m
    <3> HIDE DEF lines
    <3> DEFINE c == CHOOSE n \in lines : \A k \in lines : k <= n
    <3>1. c \in lines /\ \A k \in lines : k <= c
      BY <2>1
    <3> HIDE DEF c
    <3>2. c <= m /\ m <= c /\ c \in Nat
      BY <2>1, <2>2, <3>1
    <3>3. c = m
      BY <3>2
    <3>4. QED BY <3>3 DEF c
  <2>4. lines # {}
    BY <2>1
  <2>5. ReadBack(f, s) = IF lines = {} THEN <<>>
                         ELSE History(f, CHOOSE n \in lines : \A k \in lines : k <= n)
    BY DEF ReadBack
  <2> HIDE DEF lines
  <2>6. QED BY <1>3, <2>3, <2>4, <2>5
<1>4. QED BY <1>2, <1>3

LEMMA DurableIsRead == /\ DurableHistory = ReadBack(file, synced)
                       /\ DurableHistory' = ReadBack(file', synced')
  BY DEF DurableHistory, DurableLines, ReadBack

\* The empty file and the header alone hold no record.
LEMMA HeaderHistory == ASSUME NEW f PROVE History(f, 1) = <<>>
  BY DEF History

\* Stable storage keeps what it has and gains at most one valid line: the log
\* stays, or one record is persisted.
LEMMA OneMore ==
  ASSUME TypeOK, TypeOK', NEW m \in Nat, Top(file, synced, m), synced <= synced',
         \A k \in 1..synced : file'[k] = file[k],
         \A n \in 1..synced' : Valid(file', n) => n <= synced + 1
  PROVE  /\ \E k \in Nat : Top(file', synced', k)
         /\ \/ DurableHistory' = DurableHistory
            \/ \E i \in Intents :
                 /\ \A k \in 1..Len(DurableHistory) : DurableHistory[k].id # i.id
                 /\ DurableHistory' = Append(DurableHistory, i)
<1>1. /\ file \in Seq(Lines) /\ Len(file) \in Nat /\ synced \in Nat /\ synced <= Len(file)
      /\ file' \in Seq(Lines) /\ Len(file') \in Nat /\ synced' \in Nat /\ synced' <= Len(file')
  BY DEF TypeOK
<1>2. \A n \in 1..synced : /\ Valid(file, n) <=> Valid(file', n)
                           /\ Valid(file, n) => History(file', n) = History(file, n)
  <2>1. TAKE n \in 1..synced
  <2>2. n \in Nat /\ n <= Len(file) /\ n <= Len(file') /\ n \in 1..synced'
        /\ \A k \in 1..n : file'[k] = file[k] /\ file[k] = file'[k]
    BY <1>1
  <2>3. ASSUME Valid(file, n) PROVE Valid(file', n) /\ History(file', n) = History(file, n)
    BY <1>1, <2>2, <2>3, ValidAgree
  <2>4. ASSUME Valid(file', n) PROVE Valid(file, n)
    BY <1>1, <2>2, <2>4, ValidAgree
  <2>5. QED BY <2>3, <2>4
<1>3. m \in 0..synced /\ (m # 0 => Valid(file, m)) /\ \A n \in 1..synced : Valid(file, n) => n <= m
  BY DEF Top
<1>4. CASE synced + 1 <= synced' /\ Valid(file', synced + 1)
  <2>1. m = synced
    <3>1. CASE synced = 0
      BY <1>3, <3>1
    <3>2. CASE synced # 0
      <4>1. synced \in 1..(synced + 1) /\ synced \in 1..synced
        BY <1>1, <3>2
      <4>2. Valid(file', synced)
        BY <1>1, <1>4, <4>1, ValidPrefix
      <4>3. synced <= m
        BY <1>2, <1>3, <4>1, <4>2
      <4>4. QED BY <1>1, <1>3, <4>3
    <3>3. QED BY <3>1, <3>2
  <2>2. Top(file', synced', synced + 1)
    BY <1>1, <1>4 DEF Top
  <2>3. DurableHistory' = History(file', synced + 1)
    <3>1. synced + 1 \in Nat /\ synced + 1 # 0
      BY <1>1
    <3>2. ReadBack(file', synced') = IF synced + 1 = 0 THEN <<>> ELSE History(file', synced + 1)
      BY <1>1, <2>2, <3>1, TopIsRead
    <3>3. QED BY <3>1, <3>2, DurableIsRead
  <2>4. DurableHistory = IF m = 0 THEN <<>> ELSE History(file, m)
    BY <1>1, TopIsRead, DurableIsRead
  <2>5. CASE m = 0
    <3>1. DurableHistory = <<>>
      BY <2>4, <2>5
    <3>2. History(file', 1) = <<>>
      BY HeaderHistory
    <3>3. synced + 1 = 1
      BY <2>1, <2>5
    <3>4. QED BY <1>1, <2>2, <2>3, <3>1, <3>2, <3>3
  <2>6. CASE m # 0
    <3>1. m \in 1..synced /\ Valid(file, m) /\ Valid(file', m)
          /\ History(file', m) = History(file, m)
      BY <1>1, <1>2, <1>3, <2>6
    <3>2. DurableHistory = History(file', m)
      BY <2>4, <2>6, <3>1
    <3>3. DurableHistory' = History(file', m + 1) /\ Valid(file', m + 1)
      BY <1>4, <2>1, <2>3
    <3>4. /\ History(file', m) \in Seq(Intents) /\ Len(History(file', m)) = m - 1
          /\ History(file', m + 1) \in Seq(Intents) /\ Len(History(file', m + 1)) = m
      <4>1. m + 1 \in Nat /\ (m + 1) - 1 = m
        OBVIOUS
      <4>2. QED BY <1>1, <3>1, <3>3, <4>1, HistoryType
    <3> DEFINE i == file'[m + 1].intent
    <3>5. \A k \in 1..m : History(file', m + 1)[k] = file'[k + 1].intent
      BY DEF History
    <3>6. \A k \in 1..(m - 1) : History(file', m)[k] = file'[k + 1].intent
      BY DEF History
    <3>7. i \in Intents
      <4>1. History(file', m + 1)[m] \in Intents
        BY <3>1, <3>4
      <4>2. QED BY <3>1, <3>5, <4>1
    <3>8. History(file', m + 1) = Append(History(file', m), i)
      <4>1. Append(History(file', m), i) \in Seq(Intents)
            /\ Len(Append(History(file', m), i)) = m
        BY <3>1, <3>4, <3>7
      <4>2. \A k \in 1..m : History(file', m + 1)[k] = Append(History(file', m), i)[k]
        <5>1. TAKE k \in 1..m
        <5>2. CASE k = m
          BY <3>4, <3>5, <5>2
        <5>3. CASE k \in 1..(m - 1)
          BY <3>4, <3>5, <3>6, <5>3
        <5>4. k = m \/ k \in 1..(m - 1)
          OBVIOUS
        <5>5. QED BY <5>2, <5>3, <5>4
      <4> DEFINE r == History(file', m + 1)
                 t == Append(History(file', m), i)
      <4>3. r \in Seq(Intents) /\ Len(r) = m
        BY <3>4
      <4>4. t \in Seq(Intents) /\ Len(t) = m
        BY <4>1
      <4>5. \A k \in 1..m : r[k] = t[k]
        BY <4>2
      <4> HIDE DEF r, t
      <4>6. r = t
        BY <4>3, <4>4, <4>5, SeqEqual
      <4>7. QED BY <4>6 DEF r, t
    <3>9. \A k \in 1..(m - 1) : History(file', m)[k].id # i.id
      <4>1. TAKE k \in 1..(m - 1)
      <4>2. k + 1 \in 2..(m + 1) /\ m + 1 \in 2..(m + 1) /\ k + 1 # m + 1
        BY <3>1
      <4>3. file'[k + 1].intent.id # file'[m + 1].intent.id
        BY <3>3, <4>2 DEF Valid
      <4>4. QED BY <3>6, <4>3
    <3>10. /\ \A k \in 1..Len(DurableHistory) : DurableHistory[k].id # i.id
           /\ DurableHistory' = Append(DurableHistory, i)
      BY <3>2, <3>3, <3>4, <3>8, <3>9
    <3>11. \E k \in Nat : Top(file', synced', k)
      BY <1>1, <2>2
    <3>12. QED BY <3>7, <3>10, <3>11
  <2>7. QED BY <2>5, <2>6
<1>5. CASE ~(synced + 1 <= synced' /\ Valid(file', synced + 1))
  <2>1. Top(file', synced', m)
    <3>1. m \in 0..synced'
      BY <1>1, <1>3
    <3>2. m # 0 => Valid(file', m)
      BY <1>1, <1>2, <1>3
    <3>3. \A n \in 1..synced' : Valid(file', n) => n <= m
      <4>1. TAKE n \in 1..synced'
      <4>2. HAVE Valid(file', n)
      <4>3. n \in 1..synced
        BY <1>1, <1>5, <4>2
      <4>4. QED BY <1>2, <1>3, <4>2, <4>3
    <3>4. QED BY <3>1, <3>2, <3>3 DEF Top
  <2>2. DurableHistory' = IF m = 0 THEN <<>> ELSE History(file', m)
    BY <1>1, <2>1, TopIsRead, DurableIsRead
  <2>3. DurableHistory = IF m = 0 THEN <<>> ELSE History(file, m)
    BY <1>1, TopIsRead, DurableIsRead
  <2>4. m # 0 => History(file', m) = History(file, m)
    BY <1>1, <1>2, <1>3
  <2>5. QED BY <2>1, <2>2, <2>3, <2>4
<1>6. QED BY <1>4, <1>5

\* Neither a torn line nor a foreign one is ever part of a valid prefix, and a
\* header is only at the start.
LEMMA LastLine ==
  ASSUME NEW f, Len(f) \in Nat, Valid(f, Len(f)), Len(f) # 1
  PROVE  f[Len(f)].kind = "record"
<1>1. Len(f) \in 2..Len(f)
  BY DEF Valid
<1>2. QED BY <1>1 DEF Valid

LEMMA NoRecord ==
  ASSUME NEW f \in Seq(Lines), NEW l \in {Torn, Junk}
  PROVE  ~Valid(Append(f, l), Len(f) + 1)
<1> DEFINE g == Append(f, l)
<1>1. l.kind \notin {"record", "header"} /\ l \in Lines /\ l # Header
  BY DEF Torn, Junk, Header, Lines
<1>2. Len(g) = Len(f) + 1 /\ g[Len(f) + 1] = l /\ Len(f) \in Nat
  BY <1>1
<1>3. ASSUME Valid(g, Len(f) + 1) PROVE FALSE
  <2>1. CASE Len(f) = 0
    BY <1>1, <1>2, <1>3, <2>1 DEF Valid
  <2>2. CASE Len(f) # 0
    <3>1. Len(g) \in Nat /\ Valid(g, Len(g)) /\ Len(g) # 1
      BY <1>2, <1>3, <2>2
    <3> HIDE DEF g
    <3>2. g[Len(g)].kind = "record"
      BY <3>1, LastLine
    <3>3. QED BY <1>1, <1>2, <3>2
  <2>3. QED BY <2>1, <2>2
<1>4. QED BY <1>3

\* A longer file is valid on the old lines where it was.
LEMMA OldLines ==
  ASSUME TypeOK, file' \in Seq(Lines), NEW n \in 1..Len(file), n <= Len(file'),
         \A k \in 1..n : file'[k] = file[k], Valid(file', n)
  PROVE  Valid(file, n)
<1>1. n \in Nat /\ Len(file) \in Nat /\ n <= Len(file)
  BY DEF TypeOK
<1>2. \A k \in 1..n : file[k] = file'[k]
  OBVIOUS
<1>3. QED BY <1>1, <1>2, ValidAgree

\* A step of the disk that gains no valid line beyond the one after what was stable.
Quiet ==
  /\ synced <= synced'
  /\ \A k \in 1..synced : file'[k] = file[k]
  /\ \A n \in 1..Len(file') : Valid(file', n) => n <= synced + 1

LEMMA QuietAppend ==
  ASSUME TypeOK, TailInv, NEW l \in Lines, file' = Append(file, l), synced' = synced,
         Valid(file', Len(file) + 1) => Len(file) + 1 <= synced + 1
  PROVE  Quiet
<1>1. /\ file \in Seq(Lines) /\ Len(file) \in Nat /\ synced \in Nat /\ synced <= Len(file)
      /\ file' \in Seq(Lines) /\ Len(file') = Len(file) + 1
      /\ \A k \in 1..Len(file) : file'[k] = file[k]
  BY DEF TypeOK
<1>2. ASSUME NEW n \in 1..Len(file'), Valid(file', n) PROVE n <= synced + 1
  <2>1. CASE n = Len(file) + 1
    BY <1>2, <2>1
  <2>2. CASE n \in 1..Len(file)
    <3>1. n <= Len(file') /\ \A k \in 1..n : file'[k] = file[k]
      BY <1>1, <2>2
    <3>2. Valid(file, n)
      BY <1>1, <1>2, <2>2, <3>1, OldLines
    <3>3. QED BY <2>2, <3>2 DEF TailInv
  <2>3. QED BY <1>1, <2>1, <2>2
<1>3. QED BY <1>1, <1>2 DEF Quiet

LEMMA QuietSync ==
  ASSUME TypeOK, TailInv, UNCHANGED file, synced' \in {synced, Len(file)}
  PROVE  Quiet
  BY DEF TypeOK, TailInv, Quiet

\* Header lines: only the first line of a file can be one.
LEMMA QuietHeader ==
  ASSUME TypeOK, TailInv, file' = Append(file, Header), synced' = synced
  PROVE  Quiet
<1>1. Len(file) \in Nat /\ file \in Seq(Lines) /\ Header \in Lines /\ synced \in Nat
  BY DEF TypeOK, Lines
<1>2. Len(file') = Len(file) + 1 /\ file'[Len(file')] = Header
  BY <1>1
<1>3. ASSUME Valid(file', Len(file) + 1) PROVE Len(file) + 1 <= synced + 1
  <2>1. Len(file') = 1
    <3>1. SUFFICES ASSUME Len(file') # 1 PROVE FALSE
      OBVIOUS
    <3>2. Len(file') \in Nat /\ Valid(file', Len(file'))
      BY <1>1, <1>2, <1>3
    <3>3. file'[Len(file')].kind = "record"
      BY <3>1, <3>2, LastLine
    <3>4. QED BY <1>2, <3>3 DEF Header
  <2>2. QED BY <1>1, <1>2, <2>1
<1>4. QED BY <1>1, <1>3, QuietAppend

LEMMA QuietMess ==
  ASSUME TypeOK, TailInv, NEW l \in {Torn, Junk}, file' = Append(file, l), synced' = synced
  PROVE  Quiet
<1>1. l \in Lines /\ file \in Seq(Lines)
  BY DEF TypeOK, Lines
<1>2. ~Valid(file', Len(file) + 1)
  BY <1>1, NoRecord
<1>3. QED BY <1>1, <1>2, QuietAppend

\* A record that somebody else's bytes precede does not continue their history.
LEMMA QuietWrite ==
  ASSUME IInv, TailInv, NEW h \in Handles, Write(h)
  PROVE  Quiet
<1>1. /\ TypeOK /\ HandleOK(h) /\ pc[h] = "writing" /\ pc[h] \in ReadyStates
      /\ file' = Append(file, Record(recs[h], pending[h])) /\ synced' = synced
  BY DEF IInv, Write, ReadyStates
<1>2. /\ recs[h] \in Seq(Intents) /\ pending[h] \in Intents /\ Len(recs[h]) \in Nat
      /\ stamp[h] = Len(recs[h]) + 1 /\ stamp[h] <= synced
  <2>1. recs[h] \in Seq(Intents)
    BY <1>1 DEF TypeOK
  <2>2. Len(recs[h]) \in Nat
    BY <2>1
  <2>3. pending[h] \in Intents /\ stamp[h] = Len(recs[h]) + 1 /\ stamp[h] <= synced
    BY <1>1 DEF HandleOK
  <2>4. QED BY <2>1, <2>2, <2>3
<1>3. /\ file \in Seq(Lines) /\ Len(file) \in Nat /\ synced \in Nat /\ synced <= Len(file)
  BY <1>1 DEF TypeOK
<1>4. Record(recs[h], pending[h]) \in Lines
  BY <1>2 DEF Record, Lines, Records
<1> DEFINE n == Len(file) + 1
<1>5. file' \in Seq(Lines) /\ Len(file') = n /\ file'[n] = Record(recs[h], pending[h])
  BY <1>1, <1>3, <1>4
<1>6. ASSUME Valid(file', n) PROVE n <= synced + 1
  <2>1. n \in 2..n /\ n - 1 \in 1..n /\ n - 1 \in Nat /\ n \in Nat
    BY <1>2, <1>3
  <2>2. file'[n].prev = History(file', n - 1)
    BY <1>6, <2>1 DEF Valid
  <2>3. recs[h] = History(file', n - 1)
    BY <1>5, <2>2 DEF Record
  <2>4. Valid(file', n - 1)
    BY <1>5, <1>6, <2>1, ValidPrefix
  <2>5. Len(recs[h]) = (n - 1) - 1
    BY <1>5, <2>1, <2>3, <2>4, HistoryType
  <2>6. QED BY <1>2, <1>3, <2>5
<1>7. QED BY <1>1, <1>4, <1>6, QuietAppend

\* Every step of a handle is quiet, and gives a receipt only when it leaves the disk alone.
Simple ==
  /\ Quiet
  /\ entry' # "durable" => synced' = 0
  /\ \/ acked' = acked
     \/ UNCHANGED <<file, synced>> /\ \E r \in Receipts : acked' = acked \cup {r}

LEMMA OpenSimple ==
  ASSUME IInv, TailInv, NEW h \in Handles, Open(h)
  PROVE  Simple
<1>1. TypeOK
  BY DEF IInv
<1>2. CASE CreateFile(h)
  <2>1. Quiet
    BY <1>1, <1>2, QuietSync DEF CreateFile
  <2>2. QED BY <1>2, <2>1 DEF CreateFile, Simple, TailInv
<1>3. CASE OpenFile(h) \/ Lock(h) \/ Busy(h) \/ Recover(h)
  <2>1. UNCHANGED diskVars /\ acked' = acked
    BY <1>3 DEF OpenFile, Lock, Busy, Recover
  <2>2. Quiet
    BY <1>1, <2>1, QuietSync DEF diskVars
  <2>3. QED BY <2>1, <2>2 DEF Simple, TailInv, diskVars
<1>4. CASE WriteHeader(h)
  <2>1. Quiet
    BY <1>1, <1>4, QuietHeader DEF WriteHeader
  <2>2. QED BY <1>4, <2>1 DEF WriteHeader, Simple, TailInv
<1>5. CASE TornHeader(h)
  <2>1. Quiet
    BY <1>1, <1>5, QuietMess DEF TornHeader
  <2>2. QED BY <1>5, <2>1 DEF TornHeader, Simple, TailInv
<1>6. CASE OpenSync(h)
  <2>1. Quiet
    BY <1>1, <1>6, QuietSync DEF OpenSync
  <2>2. QED BY <1>6, <2>1 DEF OpenSync, Simple
<1>7. QED BY <1>2, <1>3, <1>4, <1>5, <1>6 DEF Open

LEMMA AppendSimple ==
  ASSUME IInv, TailInv, NEW h \in Handles, AppendStep(h)
  PROVE  Simple
<1>1. TypeOK /\ HandleOK(h)
  BY DEF IInv
<1>2. ASSUME UNCHANGED diskVars,
             acked' = acked \/ \E r \in Receipts : acked' = acked \cup {r}
      PROVE  Simple
  <2>1. Quiet
    BY <1>1, <1>2, QuietSync DEF diskVars
  <2>2. QED BY <1>2, <2>1 DEF Simple, TailInv, diskVars
<1>3. ASSUME NEW i \in Intents, AppendKnown(h, i) PROVE Simple
  <2>1. PICK k \in 1..Len(recs[h]) : acked' = acked \cup {[seq |-> k, intent |-> i]}
    BY <1>3 DEF AppendKnown
  <2>2. Len(recs[h]) \in Nat
    BY <1>1 DEF TypeOK
  <2>3. [seq |-> k, intent |-> i] \in Receipts
    BY <2>2 DEF Receipts
  <2>4. UNCHANGED diskVars
    BY <1>3 DEF AppendKnown
  <2>5. QED BY <1>2, <2>1, <2>3, <2>4
<1>4. ASSUME NEW i \in Intents, BeginAppend(h, i) PROVE Simple
  BY <1>2, <1>4 DEF BeginAppend
<1>5. CASE Write(h)
  <2>1. Quiet
    BY <1>5, QuietWrite
  <2>2. QED BY <1>5, <2>1 DEF Write, Simple, TailInv
<1>6. CASE TornWrite(h)
  <2>1. Quiet
    BY <1>1, <1>6, QuietMess DEF TornWrite
  <2>2. QED BY <1>6, <2>1 DEF TornWrite, Simple, TailInv
<1>7. CASE Fsync(h)
  <2>1. Quiet
    BY <1>1, <1>7, QuietSync DEF Fsync
  <2>2. entry = "durable"
    BY <1>1, <1>7 DEF Fsync, HandleOK, ReadyStates
  <2>3. QED BY <1>7, <2>1, <2>2 DEF Fsync, Simple
<1>8. CASE Finish(h)
  <2>1. UNCHANGED diskVars
    BY <1>8 DEF Finish
  <2>2. Len(recs[h]) \in Nat /\ pending[h] \in Intents
    BY <1>1, <1>8 DEF TypeOK, Finish, HandleOK
  <2>3. [seq |-> Len(recs[h]) + 1, intent |-> pending[h]] \in Receipts
    BY <2>2 DEF Receipts
  <2>4. acked' = acked \/ acked' = acked \cup {[seq |-> Len(recs[h]) + 1, intent |-> pending[h]]}
    BY <1>8 DEF Finish
  <2>5. QED BY <1>2, <2>1, <2>3, <2>4
<1>9. CASE AppendRaises(h)
  BY <1>2, <1>9 DEF AppendRaises
<1>10. QED BY <1>3, <1>4, <1>5, <1>6, <1>7, <1>8, <1>9 DEF AppendStep

LEMMA OtherSimple ==
  ASSUME IInv, TailInv, NEW h \in Handles, Other(h)
  PROVE  Simple
<1>1. UNCHANGED diskVars /\ acked' = acked
  BY DEF Other, GuardFails, TakeCheckpoint, Stop, Fork, ChildClose
<1>2. Quiet
  BY <1>1, QuietSync DEF IInv, diskVars
<1>3. QED BY <1>1, <1>2 DEF Simple, TailInv, diskVars

\* Such a step keeps the invariant, and the log persists one record, acknowledges
\* one, or stays.
LEMMA SimpleStep ==
  ASSUME IInv, TypeOK', AckedRecoverable', LogInv, Simple
  PROVE  LogInv' /\ [LOG!LogNext]_(LOG!logVars)
<1>1. PICK m \in Nat : Top(file, synced, m)
  BY DEF LogInv
<1>2. TypeOK /\ Quiet /\ Len(file') \in Nat /\ synced' \in Nat /\ synced' <= Len(file')
      /\ synced \in Nat
  BY DEF IInv, Simple, TypeOK
<1>3. synced <= synced' /\ (\A k \in 1..synced : file'[k] = file[k])
      /\ \A n \in 1..synced' : Valid(file', n) => n <= synced + 1
  BY <1>2 DEF Quiet
<1>4. /\ \E k \in Nat : Top(file', synced', k)
      /\ \/ DurableHistory' = DurableHistory
         \/ \E i \in Intents :
              /\ \A k \in 1..Len(DurableHistory) : DurableHistory[k].id # i.id
              /\ DurableHistory' = Append(DurableHistory, i)
  BY <1>1, <1>2, <1>3, OneMore
<1>5. LogInv'
  <2>1. \A n \in 1..Len(file') : Valid(file', n) => n <= synced' + 1
    BY <1>2 DEF Quiet
  <2>2. QED BY <1>4, <2>1 DEF LogInv, TailInv, Simple
<1>6. [LOG!LogNext]_(LOG!logVars)
  <2>1. CASE acked' = acked
    <3>1. CASE DurableHistory' = DurableHistory
      BY <2>1, <3>1 DEF LOG!logVars
    <3>2. CASE \E i \in Intents :
              /\ \A k \in 1..Len(DurableHistory) : DurableHistory[k].id # i.id
              /\ DurableHistory' = Append(DurableHistory, i)
      BY <2>1, <3>2 DEF LOG!LogNext, LOG!Persist, LOG!Intents, Intents
    <3>3. QED BY <1>4, <3>1, <3>2
  <2>2. CASE UNCHANGED <<file, synced>> /\ \E r \in Receipts : acked' = acked \cup {r}
    <3>1. PICK r \in Receipts : acked' = acked \cup {r}
      BY <2>2
    <3>2. DurableHistory' = DurableHistory
      BY <2>2, DurableIsRead
    <3>3. r.seq + 1 <= synced /\ Valid(file, r.seq + 1) /\ file[r.seq + 1].intent = r.intent
      BY <2>2, <3>1 DEF AckedRecoverable
    <3>4. r.seq \in Nat /\ r.seq # 0 /\ r = [seq |-> r.seq, intent |-> r.intent]
      BY DEF Receipts
    <3>5. r.seq + 1 \in 1..synced /\ r.seq + 1 <= m /\ m # 0 /\ Valid(file, m)
      <4>1. r.seq + 1 \in 1..synced
        BY <1>2, <3>3, <3>4
      <4>2. r.seq + 1 <= m
        BY <1>1, <3>3, <4>1 DEF Top
      <4>3. m # 0
        BY <3>4, <4>2
      <4>4. QED BY <1>1, <4>1, <4>2, <4>3 DEF Top
    <3>6. DurableHistory = History(file, m)
      BY <1>1, <1>2, <3>5, TopIsRead, DurableIsRead
    <3>7. r.seq \in 1..(m - 1)
      BY <3>4, <3>5
    <3>8. Len(History(file, m)) = m - 1
      BY <1>2, <3>5, HistoryType DEF TypeOK
    <3>9. History(file, m)[r.seq] = r.intent
      BY <3>3, <3>7 DEF History
    <3>10. \E k \in 1..Len(DurableHistory) :
             acked' = acked \cup {[seq |-> k, intent |-> DurableHistory[k]]}
      BY <3>1, <3>4, <3>6, <3>7, <3>8, <3>9
    <3>11. QED BY <3>2, <3>10 DEF LOG!LogNext, LOG!Acknowledge
  <2>3. QED BY <2>1, <2>2 DEF Simple
<1>7. QED BY <1>5, <1>6

\* What is left of a file after the machine stopped has no new valid line.
LEMMA CrashStep ==
  ASSUME IInv, TypeOK', AckedRecoverable', LogInv, Crash
  PROVE  LogInv' /\ [LOG!LogNext]_(LOG!logVars)
<1>1. /\ TypeOK /\ TailInv /\ acked' = acked /\ file \in Seq(Lines) /\ Len(file) \in Nat
      /\ synced \in Nat /\ synced <= Len(file)
  BY DEF IInv, LogInv, Crash, TypeOK
<1>2. ASSUME NEW n \in synced..Len(file), entry' = "durable",
             file' = SubSeq(file, 1, n), synced' = n
      PROVE  Simple
  <2>1. n \in Nat /\ n <= Len(file) /\ synced <= n
    BY <1>1
  <2>2. file' \in Seq(Lines) /\ Len(file') = n /\ \A k \in 1..n : file'[k] = file[k]
    BY <1>1, <1>2, <2>1
  <2>3. ASSUME NEW j \in 1..Len(file'), Valid(file', j) PROVE j <= synced + 1
    <3>1. j \in 1..Len(file) /\ j <= Len(file') /\ \A k \in 1..j : file'[k] = file[k]
      BY <2>1, <2>2
    <3>2. Valid(file, j)
      BY <1>1, <2>2, <2>3, <3>1, OldLines
    <3>3. QED BY <1>1, <3>1, <3>2 DEF TailInv
  <2>4. Quiet
    BY <1>1, <1>2, <2>1, <2>2, <2>3 DEF Quiet
  <2>5. QED BY <1>1, <1>2, <2>4 DEF Simple
<1>3. ASSUME NEW n \in synced..Len(file), n < Len(file), entry' = "durable",
             file' = Append(SubSeq(file, 1, n), Torn), synced' = n + 1
      PROVE  Simple
  <2>1. n \in Nat /\ n <= Len(file) /\ synced <= n
    BY <1>1
  <2> DEFINE cut == SubSeq(file, 1, n)
  <2>2. cut \in Seq(Lines) /\ Len(cut) = n /\ \A k \in 1..n : cut[k] = file[k]
    BY <1>1, <2>1
  <2>3. file' = Append(cut, Torn) /\ Torn \in Lines
    BY <1>3 DEF Lines
  <2> HIDE DEF cut
  <2>4. /\ file' \in Seq(Lines) /\ Len(file') = n + 1 /\ \A k \in 1..n : file'[k] = cut[k]
    BY <2>1, <2>2, <2>3
  <2>5. ~Valid(file', n + 1)
    BY <2>2, <2>3, NoRecord
  <2>6. ASSUME NEW j \in 1..Len(file'), Valid(file', j) PROVE j <= synced + 1
    <3>1. j \in 1..n
      BY <2>1, <2>4, <2>5, <2>6
    <3>2. j \in 1..Len(file) /\ j <= Len(file') /\ \A k \in 1..j : file'[k] = file[k]
      BY <2>1, <2>2, <2>4, <3>1
    <3>3. Valid(file, j)
      BY <1>1, <2>4, <2>6, <3>2, OldLines
    <3>4. QED BY <1>1, <3>2, <3>3 DEF TailInv
  <2>7. synced <= synced' /\ \A k \in 1..synced : file'[k] = file[k]
    BY <1>1, <1>3, <2>1, <2>2, <2>4
  <2>8. Quiet
    BY <2>6, <2>7 DEF Quiet
  <2>9. QED BY <1>1, <1>3, <2>8 DEF Simple
<1>4. ASSUME entry # "durable", file' = <<>>, synced' = 0
      PROVE  LogInv' /\ [LOG!LogNext]_(LOG!logVars)
  <2>1. synced = 0
    BY <1>1, <1>4 DEF TailInv
  <2>2. Top(file, synced, 0) /\ Top(file', synced', 0)
    BY <1>4, <2>1 DEF Top
  <2>3. DurableHistory = <<>> /\ DurableHistory' = <<>>
    BY <1>4, <2>1, <2>2, TopIsRead, DurableIsRead
  <2>4. Len(file') = 0
    BY <1>4
  <2>5. LogInv'
    BY <1>4, <2>2, <2>4 DEF LogInv, TailInv
  <2>6. QED BY <1>1, <2>3, <2>5 DEF LOG!logVars
<1>5. QED BY <1>2, <1>3, <1>4, SimpleStep DEF Crash

\* A backup takes records away, unless it ends in the one line that was valid and
\* not yet stable: then restoring it is what makes that record durable.
LEMMA RestoreStep ==
  ASSUME IInv, TypeOK', AckedRecoverable', LogInv, RestoreBackup
  PROVE  LogInv' /\ [LOG!LogNext]_(LOG!logVars)
<1>1. /\ TypeOK /\ TailInv /\ AckedRecoverable /\ file \in Seq(Lines) /\ Len(file) \in Nat
      /\ synced \in Nat /\ synced <= Len(file) /\ acked \subseteq Receipts
      /\ entry' = "durable"
  BY DEF IInv, LogInv, RestoreBackup, TypeOK
<1>2. PICK n \in 1..(Len(file) - 1) :
        /\ Valid(file, n) /\ file' = SubSeq(file, 1, n) /\ synced' = n
        /\ acked' = {r \in acked : r.seq < n}
  BY DEF RestoreBackup
<1>3. /\ n \in Nat /\ n # 0 /\ n <= Len(file) /\ n \in 1..Len(file) /\ n <= synced + 1
  BY <1>1, <1>2 DEF TailInv
<1>4. file' \in Seq(Lines) /\ Len(file') = n /\ \A k \in 1..n : file'[k] = file[k]
  BY <1>1, <1>2, <1>3
<1>5. Valid(file', n) /\ History(file', n) = History(file, n)
  <2>1. n <= Len(file') /\ Len(file') \in Nat
    BY <1>3, <1>4
  <2>2. Valid(file, n) /\ n \in Nat
    BY <1>2, <1>3
  <2>3. \A k \in 1..n : file'[k] = file[k]
    BY <1>4
  <2>4. QED BY <2>1, <2>2, <2>3, ValidAgree
<1>6. PICK m \in Nat : Top(file, synced, m)
  BY DEF LogInv
<1>7. CASE n = synced + 1
  <2>1. acked' = acked
    <3>1. \A r \in acked : r.seq \in Nat /\ r.seq + 1 <= synced
      BY <1>1 DEF AckedRecoverable, Receipts
    <3>2. \A r \in acked : r.seq < n
      BY <1>1, <1>7, <3>1
    <3>3. QED BY <1>2, <3>2
  <2>2. Quiet
    BY <1>1, <1>2, <1>3, <1>4, <1>7 DEF Quiet
  <2>3. QED BY <1>1, <2>1, <2>2, SimpleStep DEF Simple
<1>8. CASE n <= synced
  <2>1. Top(file', synced', n)
    BY <1>2, <1>3, <1>5 DEF Top
  <2>2. LogInv'
    <3>1. TailInv'
      BY <1>1, <1>2, <1>3, <1>4 DEF TailInv
    <3>2. QED BY <1>3, <2>1, <3>1 DEF LogInv
  <2>3. m \in 0..synced /\ n <= m /\ m # 0 /\ Valid(file, m)
    <3>1. n \in 1..synced
      BY <1>1, <1>3, <1>8
    <3>2. n <= m
      BY <1>2, <1>6, <3>1 DEF Top
    <3>3. m # 0
      BY <1>3, <3>2
    <3>4. QED BY <1>6, <3>2, <3>3 DEF Top
  <2>4. DurableHistory = History(file, m) /\ DurableHistory' = History(file, n)
    <3>1. ReadBack(file', synced') = History(file', n)
      BY <1>2, <1>3, <2>1, TopIsRead
    <3>2. ReadBack(file, synced) = History(file, m)
      BY <1>1, <1>6, <2>3, TopIsRead
    <3>3. QED BY <1>5, <3>1, <3>2, DurableIsRead
  <2>5. /\ History(file, m) \in Seq(Intents) /\ Len(History(file, m)) = m - 1
        /\ History(file, n) \in Seq(Intents) /\ Len(History(file, n)) = n - 1
    BY <1>1, <1>2, <1>3, <2>3, HistoryType
  <2>6. History(file, n) = SubSeq(History(file, m), 1, n - 1)
    <3> DEFINE r == History(file, n)
               h == History(file, m)
               t == SubSeq(h, 1, n - 1)
    <3>1. \A k \in 1..(n - 1) : r[k] = h[k]
      <4>1. TAKE k \in 1..(n - 1)
      <4>2. k \in 1..(m - 1)
        BY <1>3, <2>3
      <4>3. QED BY <4>2 DEF History
    <3>2. h \in Seq(Intents) /\ Len(h) = m - 1 /\ r \in Seq(Intents) /\ Len(r) = n - 1
      BY <2>5
    <3> HIDE DEF r, h
    <3>3. t \in Seq(Intents) /\ Len(t) = n - 1 /\ \A k \in 1..(n - 1) : t[k] = h[k]
      BY <1>3, <2>3, <3>2
    <3> HIDE DEF t
    <3>4. r = t
      BY <3>1, <3>2, <3>3, SeqEqual
    <3>5. QED BY <3>4 DEF r, h, t
  <2>7. acked' = {r \in acked : r.seq <= n - 1}
    <3>1. \A r \in acked : r.seq \in Nat
      BY <1>1 DEF Receipts
    <3>2. \A r \in acked : (r.seq < n) <=> (r.seq <= n - 1)
      BY <1>3, <3>1
    <3>3. QED BY <1>2, <3>2
  <2>8. n - 1 \in 0..Len(DurableHistory)
    BY <1>3, <2>3, <2>4, <2>5
  <2>9. LOG!Rollback
    <3>1. DurableHistory' = SubSeq(DurableHistory, 1, n - 1)
      BY <2>4, <2>6
    <3>2. QED BY <2>7, <2>8, <3>1 DEF LOG!Rollback
  <2>10. QED BY <2>2, <2>9 DEF LOG!LogNext
<1>9. QED BY <1>1, <1>3, <1>7, <1>8

\* The ledger, with its races, torn writes, crashes and foreign writers, is a
\* durable log: each of its steps is one of the log or leaves the log alone.
THEOREM LedgerImplementsLog == Spec => RefinesDurableLog
<1>1. Init => LogInv /\ LOG!LogInit
  <2> SUFFICES ASSUME Init PROVE LogInv /\ LOG!LogInit
    OBVIOUS
  <2>1. file = <<>> /\ synced = 0 /\ Len(file) = 0 /\ acked = {}
    BY DEF Init
  <2>2. Top(file, synced, 0)
    BY <2>1 DEF Top
  <2>3. DurableHistory = <<>>
    BY <2>1, <2>2, TopIsRead, DurableIsRead
  <2>4. QED BY <2>1, <2>2, <2>3 DEF LogInv, TailInv, LOG!LogInit
<1>2. IInv /\ IInv' /\ LogInv /\ [Next]_vars => LogInv' /\ [LOG!LogNext]_(LOG!logVars)
  <2> SUFFICES ASSUME IInv, IInv', LogInv, [Next]_vars
               PROVE  LogInv' /\ [LOG!LogNext]_(LOG!logVars)
    OBVIOUS
  <2>1. TypeOK /\ TailInv /\ TypeOK' /\ AckedRecoverable'
    BY DEF IInv, LogInv
  <2>2. CASE UNCHANGED vars
    <3>1. Quiet
      BY <2>1, <2>2, QuietSync DEF vars
    <3>2. Simple
      BY <2>1, <2>2, <3>1 DEF Simple, TailInv, vars
    <3>3. QED BY <2>1, <3>2, SimpleStep
  <2>3. CASE \E h \in Handles : Open(h) \/ AppendStep(h) \/ Other(h)
    BY <2>1, <2>3, OpenSimple, AppendSimple, OtherSimple, SimpleStep
  <2>4. CASE Crash
    BY <2>1, <2>4, CrashStep
  <2>5. CASE ForeignAppend
    <3>1. Quiet
      BY <2>1, <2>5, QuietMess DEF ForeignAppend
    <3>2. Simple
      BY <2>1, <2>5, <3>1 DEF Simple, TailInv, ForeignAppend
    <3>3. QED BY <2>1, <3>2, SimpleStep
  <2>6. CASE RestoreBackup
    BY <2>1, <2>6, RestoreStep
  <2>7. QED BY <2>2, <2>3, <2>4, <2>5, <2>6 DEF Next, Environment
<1>3. QED BY <1>1, <1>2, LedgerInvariant, PTL DEF Spec, RefinesDurableLog, LOG!LogSpec
=============================================================================
