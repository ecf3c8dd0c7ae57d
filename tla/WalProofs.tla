----------------------------- MODULE WalProofs -----------------------------
(***************************************************************************)
(* The write-ahead log keeps every acknowledged record, for any number of  *)
(* requests, any batch size, sequence width and number of crashes.         *)
(***************************************************************************)
EXTENDS Wal, SequenceTheorems, TLAPS

Intact(n) == \A i \in 1..n : file[i] # Torn

(* What fdatasync covered decodes. *)
SyncedIntact == Intact(synced)

(* The scan has accepted what it passed, and repair_tail cuts only behind  *)
(* the sync horizon.                                                       *)
RecoveryInv ==
    /\ proc \in {"scan", "truncate", "resync"} => last <= Len(file) /\ Intact(last)
    /\ proc = "truncate" => synced <= last
    /\ proc = "resync" => last = Len(file)

(* Without a serving process there is no writer. *)
OffInv ==
    proc # "up" => wpc = "off" /\ queue = <<>> /\ batch = <<>> /\ ~sticky /\ ~err

(* What the writer's position says about its batch and its error. *)
PhaseInv ==
    proc = "up" =>
        /\ wpc # "off"
        /\ wpc \in {"timed", "timed_woken"} => queue # <<>>
        /\ wpc \in {"write", "sync", "complete"} => batch # <<>>
        /\ wpc \in {"write", "sync"} => ~sticky /\ ~err
        /\ wpc = "complete" => err = sticky

Unwritten == IF wpc = "write" THEN Len(batch) ELSE 0

(* Until the first error, file, batch and queue carry consecutive sequence *)
(* numbers and next_sequence continues them.                               *)
QueueInv ==
    proc = "up" /\ ~sticky =>
        /\ Intact(Len(file))
        /\ \A i \in 1..Len(queue) : queue[i].seq = Len(file) + Unwritten + i
        /\ wpc = "write" => \A i \in 1..Len(batch) : batch[i].seq = Len(file) + i
        /\ next # 0 => next = Len(file) + Unwritten + Len(queue) + 1

(* A written batch is the end of the file; a batch about to be reported    *)
(* successful is synced.                                                   *)
BatchInv ==
    /\ wpc = "sync" =>
          /\ Len(batch) <= Len(file)
          /\ \A i \in 1..Len(batch) : file[Len(file) - Len(batch) + i] = batch[i]
    /\ wpc = "complete" /\ ~err =>
          \A i \in 1..Len(batch) : batch[i].seq <= synced /\ file[batch[i].seq] = batch[i]

IInv ==
    /\ TypeOK /\ LogInOrder /\ SyncedIntact /\ RecoveryInv /\ OffInv
    /\ PhaseInv /\ QueueInv /\ BatchInv /\ AckedDurable

-----------------------------------------------------------------------------
(* A torn slot is no record: submit only ever writes payloads of Ops. *)
LEMMA TornIsNoRecord == Torn \notin Record
BY WalAssumption DEF Torn, Record

(* What ftruncate to the n-th slot, and take_batch, leave. *)
LEMMA PrefixFacts ==
    ASSUME NEW S, NEW s \in Seq(S), NEW n \in 0..Len(s)
    PROVE  /\ Prefix(s, n) \in Seq(S)
           /\ Len(Prefix(s, n)) = n
           /\ \A i \in 1..n : Prefix(s, n)[i] = s[i]
<1>1. \A i \in 1..n : s[i] \in S
  BY ElementOfSeq
<1>2. n \in Int
  OBVIOUS
<1> QED
  BY <1>1, <1>2, SubSeqProperties DEF Prefix

(* The rest of the queue behind a batch of n. *)
LEMMA SuffixFacts ==
    ASSUME NEW S, NEW s \in Seq(S), NEW n \in 0..Len(s)
    PROVE  /\ Suffix(s, n) \in Seq(S)
           /\ Len(Suffix(s, n)) = Len(s) - n
           /\ \A i \in 1..(Len(s) - n) : Suffix(s, n)[i] = s[n + i]
<1>1. Len(s) \in Nat
  BY LenProperties
<1>2. \A i \in (n + 1)..Len(s) : s[i] \in S
  BY <1>1, ElementOfSeq
<1>3. n + 1 \in Int
  OBVIOUS
<1>4. /\ SubSeq(s, n + 1, Len(s)) \in Seq(S)
      /\ Len(SubSeq(s, n + 1, Len(s))) = IF n + 1 <= Len(s) THEN Len(s) - (n + 1) + 1 ELSE 0
      /\ \A i \in 1..(Len(s) - (n + 1) + 1) : SubSeq(s, n + 1, Len(s))[i] = s[(n + 1) + i - 1]
  BY <1>1, <1>2, <1>3, SubSeqProperties
<1> QED
  BY <1>1, <1>4 DEF Suffix

(* What an interrupted write appends: leading records of the batch and at  *)
(* most one torn slot.                                                     *)
LEMMA ShortWriteFacts ==
    ASSUME batch \in Seq(Record), NEW part \in ShortWrites
    PROVE  /\ part \in Seq(Slot)
           /\ \A i \in 1..Len(part) : part[i] # Torn => i <= Len(batch) /\ part[i] = batch[i]
<1>1. PICK n \in 0..(Len(batch) - 1), t \in {<<>>, <<Torn>>} : part = Prefix(batch, n) \o t
  BY DEF ShortWrites
<1>2. Len(batch) \in Nat
  BY LenProperties
<1>3. /\ Prefix(batch, n) \in Seq(Record)
      /\ Len(Prefix(batch, n)) = n
      /\ \A i \in 1..n : Prefix(batch, n)[i] = batch[i]
  BY <1>2, PrefixFacts
<1>4. Prefix(batch, n) \in Seq(Slot)
  BY <1>3, SeqMonotonic DEF Slot
<1>5. t \in Seq(Slot) /\ Len(t) \in 0..1 /\ \A i \in 1..Len(t) : t[i] = Torn
  <2>1. CASE t = <<>>
    BY <2>1, EmptySeq
  <2>2. CASE t = <<Torn>>
    <3>1. Torn \in Slot
      BY DEF Slot
    <3> QED
      BY <2>2, <3>1
  <2> QED
    BY <2>1, <2>2
<1>6. /\ part \in Seq(Slot)
      /\ Len(part) = n + Len(t)
      /\ \A i \in 1..(n + Len(t)) : part[i] = IF i <= n THEN Prefix(batch, n)[i] ELSE t[i - n]
  <2> DEFINE p == Prefix(batch, n)
  <2>1. p \in Seq(Slot) /\ t \in Seq(Slot)
    BY <1>4, <1>5
  <2>2. /\ p \o t \in Seq(Slot)
        /\ Len(p \o t) = Len(p) + Len(t)
        /\ \A i \in 1..(Len(p) + Len(t)) : (p \o t)[i] = IF i <= Len(p) THEN p[i] ELSE t[i - Len(p)]
    <3> HIDE DEF p
    <3> QED
      BY <2>1, ConcatProperties
  <2>3. part = p \o t /\ Len(p) = n
    BY <1>1, <1>3
  <2> HIDE DEF p
  <2>4. /\ part \in Seq(Slot)
        /\ Len(part) = n + Len(t)
        /\ \A i \in 1..(n + Len(t)) : part[i] = IF i <= n THEN p[i] ELSE t[i - n]
    BY <2>2, <2>3
  <2> QED
    BY <2>4 DEF p
<1>7. ASSUME NEW i \in 1..Len(part), part[i] # Torn
      PROVE  i <= Len(batch) /\ part[i] = batch[i]
  <2>1. i \in 1..(n + Len(t))
    BY <1>6
  <2>2. CASE i <= n
    <3>1. part[i] = Prefix(batch, n)[i] /\ i \in 1..n
      BY <1>6, <2>1, <2>2
    <3> QED
      BY <1>2, <1>3, <3>1
  <2>3. CASE ~(i <= n)
    <3>1. part[i] = t[i - n] /\ i - n \in 1..Len(t)
      BY <1>5, <1>6, <2>1, <2>3
    <3> QED
      BY <1>5, <1>7, <3>1
  <2> QED
    BY <2>2, <2>3
<1> QED
  BY <1>6, <1>7

-----------------------------------------------------------------------------
(* The initial state satisfies the inductive invariant. *)
LEMMA InitInvariant == Init => IInv
<1> SUFFICES ASSUME Init PROVE IInv
  OBVIOUS
<1>1. <<>> \in Seq(Slot) /\ <<>> \in Seq(Record) /\ Len(<<>>) = 0
  BY EmptySeq
<1>2. TypeOK
  <2>1. proc \in Procs /\ wpc \in WriterPcs
    BY DEF Init, Procs, WriterPcs
  <2>2. file \in Seq(Slot) /\ synced \in 0..Len(file) /\ queue \in Seq(Record) /\ batch \in Seq(Record)
    BY <1>1 DEF Init
  <2>3. last \in 0..MaxSeq /\ next \in 0..MaxSeq /\ crashes \in 0..MaxCrashes
    BY WalAssumption DEF Init
  <2>4. cut \in BOOLEAN /\ sticky \in BOOLEAN /\ stopping \in BOOLEAN /\ err \in BOOLEAN
    BY DEF Init
  <2>5. acked \subseteq Record
    BY DEF Init
  <2> QED
    BY <2>1, <2>2, <2>3, <2>4, <2>5 DEF TypeOK, FlagsOK
<1>3. LogInOrder /\ SyncedIntact /\ RecoveryInv /\ AckedDurable
  BY <1>1 DEF Init, LogInOrder, SyncedIntact, Intact, RecoveryInv, AckedDurable
<1>4. OffInv /\ PhaseInv /\ QueueInv /\ BatchInv
  BY DEF Init, OffInv, PhaseInv, QueueInv, BatchInv
<1> QED
  BY <1>2, <1>3, <1>4 DEF IInv

-----------------------------------------------------------------------------
(* The flags stay Boolean. *)
LEMMA FlagsInvariant == FlagsOK /\ [Next]_vars => FlagsOK'
BY DEF FlagsOK, Next, vars, diskVars, writerVars, Recovery, Writer, Callers, Start, ScanRecord, ScanFails, ScanBoundary,
       ScanClean, StartWriter, RepairTruncate, RepairSync, Submit, Stop, StopJoined, WriterOff,
       WriterCheck, TakeBatch, TimedWoken, TimedOut, SpuriousWakeup, WriterWrite, WriterSync,
       WriterComplete, ProcessCrash, HostCrash

(* The steps of the recovery scan, which leave the file and the writer     *)
(* alone.                                                                  *)
LEMMA ScanInvariant ==
    ASSUME IInv, FlagsOK', Start \/ ScanRecord \/ ScanFails \/ ScanBoundary
    PROVE  IInv'
<1> USE DEF IInv, diskVars, writerVars
<1>1. UNCHANGED <<file, synced, cut, queue, batch, next, sticky, stopping, wpc, err, acked, crashes>>
  BY DEF Start, ScanRecord, ScanFails, ScanBoundary
<1>2. Len(file) \in Nat /\ synced \in Nat /\ last \in Nat
  BY WalAssumption, LenProperties DEF TypeOK
<1>3. LogInOrder' /\ SyncedIntact' /\ AckedDurable' /\ BatchInv'
  BY <1>1 DEF LogInOrder, SyncedIntact, Intact, AckedDurable, BatchInv
<1>4. proc # "up" /\ proc' # "up"
  BY DEF Start, ScanRecord, ScanFails, ScanBoundary
<1>5. OffInv' /\ PhaseInv' /\ QueueInv'
  BY <1>1, <1>4 DEF OffInv, PhaseInv, QueueInv
<1>6. proc' \in Procs /\ last' \in 0..MaxSeq
  BY <1>2, WalAssumption DEF Start, ScanRecord, ScanFails, ScanBoundary, Acceptable, TypeOK, Procs
<1>7. TypeOK'
  BY <1>1, <1>6 DEF TypeOK
<1>8. RecoveryInv'
  <2>1. CASE Start
    BY <2>1, <1>1, <1>2 DEF Start, RecoveryInv, Intact
  <2>2. CASE ScanRecord
    BY <2>2, <1>1, <1>2 DEF ScanRecord, RecoveryInv, Intact, Acceptable
  <2>3. CASE ScanFails
    BY <2>3, <1>1, <1>2 DEF ScanFails, RecoveryInv, Intact
  <2>4. CASE ScanBoundary
    <3>1. last + 1 \in 1..Len(file)
      BY <2>4, <1>2 DEF ScanBoundary
    <3>2. file[last + 1] \in Slot
      BY <3>1, ElementOfSeq DEF TypeOK
    <3>3. file[last + 1] = Torn
      <4>1. CASE file[last + 1] \in Record
        <5>1. file[last + 1].seq = last + 1 /\ last + 1 <= MaxSeq
          BY <3>1, <4>1, TornIsNoRecord DEF LogInOrder, Record
        <5> QED
          BY <2>4, <4>1, <5>1, <1>2, TornIsNoRecord, WalAssumption DEF ScanBoundary, Acceptable
      <4> QED
        BY <3>2, <4>1 DEF Slot
    <3>4. synced <= last
      BY <3>1, <3>3, <1>2 DEF SyncedIntact, Intact
    <3> QED
      BY <2>4, <3>4, <1>1, <1>2 DEF ScanBoundary, RecoveryInv, Intact
  <2> QED
    BY <2>1, <2>2, <2>3, <2>4
<1> QED
  BY <1>3, <1>5, <1>7, <1>8

(* The writer started, or startup failed, on a file whose every slot the   *)
(* scan accepted.                                                          *)
LEMMA StartWriterInvariant ==
    ASSUME IInv, FlagsOK', proc \in {"scan", "resync"}, last = Len(file), StartWriter,
           UNCHANGED <<file, last, acked, crashes>>, synced' \in {synced, Len(file)}
    PROVE  IInv'
<1> USE DEF IInv
<1>1. Len(file) \in Nat /\ synced \in 0..Len(file) /\ last \in Nat /\ MaxSeq \in Nat
  BY WalAssumption, LenProperties DEF TypeOK
<1>2. Intact(Len(file)) /\ Intact(Len(file))'
  BY DEF RecoveryInv, Intact
<1>3. wpc = "off" /\ queue = <<>> /\ batch = <<>> /\ ~sticky /\ ~err
  BY DEF OffInv
<1>4. UNCHANGED <<queue, batch, sticky, err>>
  BY DEF StartWriter, writerVars
<1>5. \/ proc' = "up" /\ next' = Len(file) + 1 /\ wpc' = "check" /\ last # MaxSeq
      \/ proc' = "down" /\ next' = next /\ wpc' = wpc
  BY DEF StartWriter, writerVars
<1>6. TypeOK'
  BY <1>1, <1>4, <1>5 DEF TypeOK, Procs, WriterPcs
<1>7. LogInOrder' /\ SyncedIntact' /\ RecoveryInv' /\ AckedDurable'
  <2>1. LogInOrder' /\ SyncedIntact'
    BY <1>1, <1>2 DEF LogInOrder, SyncedIntact, Intact
  <2>2. RecoveryInv'
    BY <1>5 DEF RecoveryInv
  <2>3. AckedDurable'
    <3> SUFFICES ASSUME NEW r \in acked PROVE r.seq <= synced' /\ file[r.seq] = r
      BY DEF AckedDurable
    <3>1. r.seq \in Nat
      BY DEF TypeOK, Record
    <3> QED
      BY <1>1, <3>1 DEF AckedDurable
  <2> QED
    BY <2>1, <2>2, <2>3
<1>8. OffInv' /\ PhaseInv' /\ BatchInv'
  BY <1>3, <1>4, <1>5 DEF OffInv, PhaseInv, BatchInv
<1>9. QueueInv'
  BY <1>1, <1>2, <1>3, <1>4, <1>5, EmptySeq DEF QueueInv, Unwritten
<1> QED
  BY <1>6, <1>7, <1>8, <1>9

(* repair_tail cuts the file at the first slot the scan refused. *)
LEMMA TruncateInvariant ==
    ASSUME IInv, FlagsOK', RepairTruncate
    PROVE  IInv'
<1> USE DEF IInv
<1>1. Len(file) \in Nat /\ synced \in 0..Len(file) /\ last \in Nat /\ last <= Len(file) /\ synced <= last
  BY WalAssumption, LenProperties DEF TypeOK, RecoveryInv, RepairTruncate
<1>2. UNCHANGED <<synced, last, queue, batch, next, sticky, stopping, wpc, err, acked, crashes>>
  BY DEF RepairTruncate, writerVars
<1>3. CASE file' = Prefix(file, last) /\ proc' = "resync"
  <2>1. file' \in Seq(Slot) /\ Len(file') = last /\ \A i \in 1..last : file'[i] = file[i]
    BY <1>1, <1>3, PrefixFacts DEF TypeOK
  <2>2. TypeOK'
    BY <1>1, <1>2, <1>3, <2>1 DEF TypeOK, Procs
  <2>3. LogInOrder' /\ SyncedIntact' /\ RecoveryInv'
    BY <1>1, <1>2, <1>3, <2>1 DEF LogInOrder, SyncedIntact, Intact, RecoveryInv, RepairTruncate
  <2>4. AckedDurable'
    <3> SUFFICES ASSUME NEW r \in acked PROVE r.seq <= synced /\ file'[r.seq] = r
      BY <1>2 DEF AckedDurable
    <3>1. r.seq \in Nat \ {0}
      BY DEF TypeOK, Record
    <3> QED
      BY <1>1, <2>1, <3>1 DEF AckedDurable
  <2>5. OffInv' /\ PhaseInv' /\ QueueInv' /\ BatchInv'
    BY <1>2, <1>3 DEF OffInv, PhaseInv, QueueInv, BatchInv, RepairTruncate
  <2> QED
    BY <2>2, <2>3, <2>4, <2>5
<1>4. CASE file' = file /\ proc' = "down"
  <2>1. TypeOK'
    BY <1>2, <1>4 DEF TypeOK, Procs
  <2>2. LogInOrder' /\ SyncedIntact' /\ RecoveryInv' /\ AckedDurable'
    BY <1>2, <1>4 DEF LogInOrder, SyncedIntact, Intact, RecoveryInv, AckedDurable
  <2>3. OffInv' /\ PhaseInv' /\ QueueInv' /\ BatchInv'
    BY <1>2, <1>4 DEF OffInv, PhaseInv, QueueInv, BatchInv, RepairTruncate
  <2> QED
    BY <2>1, <2>2, <2>3
<1> QED
  BY <1>3, <1>4 DEF RepairTruncate

(* The fdatasync behind the cut, and what follows it. *)
LEMMA ResyncInvariant ==
    ASSUME IInv, FlagsOK', RepairSync
    PROVE  IInv'
<1> USE DEF IInv
<1>1. proc = "resync" /\ last = Len(file) /\ UNCHANGED <<file, last, acked, crashes>>
  BY DEF RepairSync, RecoveryInv
<1>2. CASE synced' = Len(file) /\ StartWriter
  BY <1>1, <1>2, StartWriterInvariant
<1>3. CASE UNCHANGED <<synced, cut>> /\ proc' = "down" /\ UNCHANGED writerVars
  <2>1. TypeOK'
    BY <1>1, <1>3 DEF TypeOK, Procs, writerVars
  <2>2. LogInOrder' /\ SyncedIntact' /\ RecoveryInv' /\ AckedDurable'
    BY <1>1, <1>3 DEF LogInOrder, SyncedIntact, Intact, RecoveryInv, AckedDurable
  <2>3. OffInv' /\ PhaseInv' /\ QueueInv' /\ BatchInv'
    BY <1>1, <1>3 DEF OffInv, PhaseInv, QueueInv, BatchInv, writerVars
  <2> QED
    BY <2>1, <2>2, <2>3
<1> QED
  BY <1>2, <1>3 DEF RepairSync

(* The scan of a file with nothing to repair. *)
LEMMA CleanInvariant ==
    ASSUME IInv, FlagsOK', ScanClean
    PROVE  IInv'
BY StartWriterInvariant DEF ScanClean, diskVars

-----------------------------------------------------------------------------
(* What holds of the disk holds after a step that leaves it alone. *)
LEMMA DiskKept ==
    ASSUME IInv, UNCHANGED <<file, synced, acked>>
    PROVE  LogInOrder' /\ SyncedIntact' /\ AckedDurable'
BY DEF IInv, LogInOrder, SyncedIntact, Intact, AckedDurable

(* pk_wal_submit gives the record the number behind all others. *)
LEMMA SubmitInvariant ==
    ASSUME IInv, FlagsOK', NEW op \in Ops, Submit(op)
    PROVE  IInv'
<1> USE DEF IInv
<1>1. /\ proc = "up" /\ next # 0
      /\ UNCHANGED <<proc, file, synced, cut, last, batch, sticky, err, acked, crashes>>
      /\ queue' = Append(queue, SubmitRecord(op)) /\ next' = Succ(next)
  BY DEF Submit, CanSubmit, diskVars
<1>2. Len(file) \in Nat /\ Len(queue) \in Nat /\ Len(batch) \in Nat /\ next \in 1..MaxSeq /\ MaxSeq \in Nat
  BY <1>1, WalAssumption, LenProperties DEF TypeOK
<1>3. SubmitRecord(op) \in Record /\ SubmitRecord(op).seq = next
  BY <1>2 DEF SubmitRecord, Record
<1>4. /\ queue' \in Seq(Record) /\ queue' # <<>> /\ Len(queue') = Len(queue) + 1
      /\ \A i \in 1..Len(queue) : queue'[i] = queue[i]
      /\ queue'[Len(queue) + 1] = SubmitRecord(op)
  BY <1>1, <1>3, AppendProperties DEF TypeOK
<1>5. /\ wpc' \in WriterPcs /\ wpc' # "off"
      /\ wpc' \in {"timed_woken", "timed"} => wpc \in {"timed_woken", "timed"}
      /\ \A p \in {"write", "sync", "complete"} : wpc' = p <=> wpc = p
  BY <1>1 DEF Submit, Signalled, WriterPcs, TypeOK, PhaseInv
<1>6. TypeOK'
  BY <1>1, <1>2, <1>4, <1>5 DEF TypeOK, Succ
<1>7. RecoveryInv' /\ OffInv' /\ PhaseInv' /\ BatchInv'
  <2>1. RecoveryInv' /\ OffInv'
    BY <1>1 DEF RecoveryInv, OffInv
  <2>2. PhaseInv'
    BY <1>1, <1>4, <1>5 DEF PhaseInv
  <2>3. BatchInv'
    BY <1>1, <1>5 DEF BatchInv
  <2> QED
    BY <2>1, <2>2, <2>3
<1>8. QueueInv'
  <2> SUFFICES ASSUME ~sticky PROVE QueueInv'
    BY <1>1 DEF QueueInv
  <2>1. Unwritten' = Unwritten /\ Unwritten \in Nat
    BY <1>1, <1>2, <1>5 DEF Unwritten
  <2>2. next = Len(file) + Unwritten + Len(queue) + 1
    BY <1>1 DEF QueueInv
  <2>3. ASSUME NEW i \in 1..Len(queue') PROVE queue'[i].seq = Len(file) + Unwritten + i
    <3>1. CASE i \in 1..Len(queue)
      BY <1>1, <1>4, <3>1 DEF QueueInv
    <3>2. CASE i = Len(queue) + 1
      BY <1>2, <1>3, <1>4, <2>1, <2>2, <3>2
    <3> QED
      BY <1>2, <1>4, <3>1, <3>2
  <2>4. next' # 0 => next' = Len(file) + Unwritten + Len(queue') + 1
    BY <1>1, <1>2, <1>4, <2>1, <2>2 DEF Succ
  <2>5. Intact(Len(file))' /\ (wpc' = "write" => \A i \in 1..Len(batch) : batch[i].seq = Len(file) + i)
    BY <1>1, <1>5 DEF QueueInv, Intact
  <2> QED
    BY <1>1, <2>1, <2>3, <2>4, <2>5 DEF QueueInv
<1> QED
  BY <1>1, <1>6, <1>7, <1>8, DiskKept

(* pk_wal_stop and wakeups only move the writer between its waits. *)
LEMMA SignalInvariant ==
    ASSUME IInv, FlagsOK', Stop \/ SpuriousWakeup
    PROVE  IInv'
<1> USE DEF IInv
<1>1. UNCHANGED <<proc, file, synced, cut, last, queue, batch, next, sticky, err, acked, crashes>>
  BY DEF Stop, SpuriousWakeup, diskVars
<1>2. proc = "up" /\ wpc' = Signalled(wpc)
  BY DEF Stop, SpuriousWakeup, OffInv
<1>3. /\ wpc' \in WriterPcs /\ wpc' # "off"
      /\ wpc' \in {"timed_woken", "timed"} => wpc \in {"timed_woken", "timed"}
      /\ \A p \in {"write", "sync", "complete"} : wpc' = p <=> wpc = p
  BY <1>2 DEF Signalled, WriterPcs, TypeOK, PhaseInv
<1>4. TypeOK' /\ RecoveryInv' /\ OffInv'
  BY <1>1, <1>2, <1>3 DEF TypeOK, RecoveryInv, OffInv
<1>5. PhaseInv' /\ BatchInv'
  BY <1>1, <1>3 DEF PhaseInv, BatchInv
<1>6. QueueInv'
  BY <1>1, <1>3 DEF QueueInv, Intact, Unwritten
<1> QED
  BY <1>1, <1>4, <1>5, <1>6, DiskKept

(* The process is gone, its file as it was or grown in place. *)
LEMMA OffInvariant ==
    ASSUME IInv, FlagsOK', proc' = "down", WriterOff, last' = last,
           file' \in Seq(Slot), synced' \in 0..Len(file'), crashes' \in 0..MaxCrashes,
           acked' = acked, LogInOrder', SyncedIntact', AckedDurable'
    PROVE  IInv'
<1> USE DEF IInv
<1>1. TypeOK'
  BY WalAssumption, EmptySeq DEF TypeOK, WriterOff, Procs, WriterPcs
<1>2. RecoveryInv' /\ OffInv' /\ PhaseInv' /\ QueueInv' /\ BatchInv'
  BY DEF RecoveryInv, OffInv, PhaseInv, QueueInv, BatchInv, WriterOff
<1> QED
  BY <1>1, <1>2

(* The join in pk_wal_stop. *)
LEMMA JoinInvariant ==
    ASSUME IInv, FlagsOK', StopJoined
    PROVE  IInv'
BY OffInvariant, DiskKept DEF StopJoined, diskVars, IInv, TypeOK

(* A process crash keeps the page cache. *)
LEMMA ProcessCrashInvariant ==
    ASSUME IInv, FlagsOK', ProcessCrash
    PROVE  IInv'
<1> USE DEF IInv
<1>1. /\ proc' = "down" /\ WriterOff /\ UNCHANGED <<synced, last, acked>>
      /\ crashes' \in 0..MaxCrashes
  BY WalAssumption DEF ProcessCrash, TypeOK
<1>2. Len(file) \in Nat /\ synced \in 0..Len(file) /\ Len(batch) \in Nat
  BY LenProperties DEF TypeOK
<1>3. CASE file' = file
  BY <1>1, <1>3, OffInvariant, DiskKept DEF TypeOK
<1>4. ASSUME wpc = "write", NEW part \in ShortWrites, file' = file \o part
      PROVE  IInv'
  <2>1. /\ part \in Seq(Slot)
        /\ \A i \in 1..Len(part) : part[i] # Torn => i <= Len(batch) /\ part[i] = batch[i]
    BY ShortWriteFacts DEF TypeOK
  <2>2. /\ file' \in Seq(Slot) /\ Len(file') = Len(file) + Len(part) /\ Len(part) \in Nat
        /\ \A i \in 1..(Len(file) + Len(part)) :
               file'[i] = IF i <= Len(file) THEN file[i] ELSE part[i - Len(file)]
    BY <1>4, <2>1, ConcatProperties, LenProperties, SMTT(20) DEF TypeOK
  <2>3. \A i \in 1..Len(batch) : batch[i].seq = Len(file) + i
    BY <1>4 DEF OffInv, PhaseInv, QueueInv
  <2>4. LogInOrder'
    <3> SUFFICES ASSUME NEW i \in 1..Len(file'), file'[i] # Torn PROVE file'[i].seq = i
      BY DEF LogInOrder
    <3>1. CASE i <= Len(file)
      BY <1>2, <2>2, <3>1 DEF LogInOrder
    <3>2. CASE i > Len(file)
      <4> DEFINE j == i - Len(file)
      <4>1. j \in 1..Len(part) /\ file'[i] = part[j] /\ i = Len(file) + j
        BY <1>2, <2>2, <3>2
      <4>2. j \in 1..Len(batch) /\ part[j] = batch[j]
        BY <1>2, <2>1, <4>1
      <4> QED
        BY <2>3, <4>1, <4>2
    <3>3. i <= Len(file) \/ i > Len(file)
      BY <1>2, <2>2
    <3> QED
      BY <3>1, <3>2, <3>3, Zenon
  <2>5. SyncedIntact'
    BY <1>1, <1>2, <2>2 DEF SyncedIntact, Intact
  <2>6. AckedDurable'
    <3> SUFFICES ASSUME NEW r \in acked PROVE r.seq <= synced /\ file'[r.seq] = r
      BY <1>1 DEF AckedDurable
    <3>1. r.seq \in Nat \ {0} /\ r.seq <= synced /\ file[r.seq] = r
      BY DEF TypeOK, Record, AckedDurable
    <3> QED
      BY <1>2, <2>2, <3>1
  <2>7. synced' \in 0..Len(file')
    BY <1>1, <1>2, <2>2
  <2> QED
    BY <1>1, <2>2, <2>4, <2>5, <2>6, <2>7, OffInvariant
<1> QED
  BY <1>3, <1>4 DEF ProcessCrash

(* A host crash keeps a leading part of the file that holds at least what  *)
(* was synced.                                                             *)
LEMMA HostCrashInvariant ==
    ASSUME IInv, FlagsOK', HostCrash
    PROVE  IInv'
<1> USE DEF IInv
<1>1. proc' = "down" /\ WriterOff /\ UNCHANGED <<last, acked>> /\ crashes' \in 0..MaxCrashes
  BY WalAssumption DEF HostCrash, TypeOK
<1>2. Len(file) \in Nat /\ synced \in 0..Len(file)
  BY LenProperties DEF TypeOK
<1>3. PICK n \in synced..Len(file) :
        /\ \A i \in 1..n : file[i] # Torn
        /\ file' = Prefix(file, n) \/ file' = Append(Prefix(file, n), Torn)
        /\ synced' = n
  BY DEF HostCrash
<1>4. /\ Prefix(file, n) \in Seq(Slot) /\ Len(Prefix(file, n)) = n
      /\ \A i \in 1..n : Prefix(file, n)[i] = file[i]
  BY <1>2, PrefixFacts DEF TypeOK
<1>5. /\ file' \in Seq(Slot) /\ Len(file') \in {n, n + 1}
      /\ \A i \in 1..n : file'[i] = file[i]
      /\ Len(file') = n + 1 => file'[n + 1] = Torn
  <2>1. Torn \in Slot
    BY DEF Slot
  <2>2. CASE file' = Prefix(file, n)
    BY <1>2, <1>4, <2>2
  <2>3. CASE file' = Append(Prefix(file, n), Torn)
    <3>1. /\ file' \in Seq(Slot) /\ Len(file') = n + 1
          /\ \A i \in 1..n : file'[i] = Prefix(file, n)[i]
          /\ file'[n + 1] = Torn
      BY <1>4, <2>1, <2>3, AppendProperties
    <3> QED
      BY <1>4, <3>1
  <2> QED
    BY <1>3, <2>2, <2>3
<1>6. LogInOrder' /\ SyncedIntact'
  BY <1>2, <1>3, <1>5, SMTT(20) DEF LogInOrder, SyncedIntact, Intact
<1>7. AckedDurable'
  <2> SUFFICES ASSUME NEW r \in acked PROVE r.seq <= n /\ file'[r.seq] = r
    BY <1>1, <1>3 DEF AckedDurable
  <2>1. r.seq \in Nat \ {0} /\ r.seq <= synced /\ file[r.seq] = r
    BY DEF TypeOK, Record, AckedDurable
  <2> QED
    BY <1>2, <1>5, <2>1
<1>8. synced' \in 0..Len(file')
  BY <1>2, <1>3, <1>5
<1> QED
  BY <1>1, <1>5, <1>6, <1>7, <1>8, OffInvariant

-----------------------------------------------------------------------------
(* take_batch moves the front of the queue into the batch. *)
LEMMA TakeBatchInvariant ==
    ASSUME IInv, FlagsOK', proc = "up", queue # <<>>, TakeBatch,
           wpc \in {"check", "timed", "timed_woken"},
           UNCHANGED <<proc, file, synced, cut, last, next, sticky, stopping, acked, crashes>>
    PROVE  IInv'
<1> USE DEF IInv
<1> DEFINE count == Smaller(BatchMax, Len(queue))
<1>1. Len(file) \in Nat /\ Len(queue) \in Nat \ {0} /\ next \in Nat
  BY WalAssumption, LenProperties, EmptySeq DEF TypeOK
<1>2. count \in 1..Len(queue)
  BY <1>1, WalAssumption DEF Smaller
<1>3. /\ batch' = Prefix(queue, count) /\ queue' = Suffix(queue, count)
      /\ err' = sticky /\ wpc' = IF sticky THEN "complete" ELSE "write"
  BY DEF TakeBatch
<1> HIDE DEF count
<1>4. /\ batch' \in Seq(Record) /\ Len(batch') = count
      /\ \A i \in 1..count : batch'[i] = queue[i]
  BY <1>2, <1>3, PrefixFacts DEF TypeOK
<1>5. /\ queue' \in Seq(Record) /\ Len(queue') = Len(queue) - count
      /\ \A i \in 1..(Len(queue) - count) : queue'[i] = queue[count + i]
  <2>1. queue \in Seq(Record) /\ count \in 0..Len(queue)
    BY <1>1, <1>2 DEF TypeOK
  <2> QED
    BY <1>3, <2>1, SuffixFacts
<1>6. batch' # <<>>
  BY <1>2, <1>4, EmptySeq
<1>7. TypeOK' /\ RecoveryInv' /\ OffInv'
  BY <1>3, <1>4, <1>5 DEF TypeOK, RecoveryInv, OffInv, WriterPcs
<1>8. PhaseInv' /\ BatchInv'
  <2>1. CASE sticky
    BY <1>3, <1>6, <2>1 DEF PhaseInv, BatchInv
  <2>2. CASE ~sticky
    BY <1>3, <1>6, <2>2 DEF PhaseInv, BatchInv
  <2> QED
    BY <2>1, <2>2
<1>9. QueueInv'
  <2> SUFFICES ASSUME ~sticky PROVE QueueInv'
    BY DEF QueueInv
  <2>1. Unwritten = 0 /\ Unwritten' = count
    BY <1>3, <1>4 DEF Unwritten
  <2>2. /\ Intact(Len(file)) /\ (next # 0 => next = Len(file) + Len(queue) + 1)
        /\ \A i \in 1..Len(queue) : queue[i].seq = Len(file) + i
    BY <2>1, <1>1 DEF QueueInv
  <2>3. ASSUME NEW i \in 1..Len(queue') PROVE queue'[i].seq = Len(file) + count + i
    <3>1. i \in 1..(Len(queue) - count) /\ count + i \in 1..Len(queue)
      BY <1>1, <1>2, <1>5
    <3>2. queue'[i].seq = Len(file) + (count + i)
      BY <1>5, <2>2, <3>1
    <3> QED
      BY <1>1, <1>2, <3>1, <3>2
  <2>4. ASSUME NEW i \in 1..Len(batch') PROVE batch'[i].seq = Len(file) + i
    <3>1. i \in 1..count /\ i \in 1..Len(queue)
      BY <1>1, <1>2, <1>4
    <3> QED
      BY <1>4, <2>2, <3>1
  <2>5. next # 0 => next = Len(file) + count + Len(queue') + 1
    BY <1>1, <1>2, <1>5, <2>2
  <2> QED
    BY <2>1, <2>2, <2>3, <2>4, <2>5 DEF QueueInv, Intact
<1> QED
  BY <1>7, <1>8, <1>9, DiskKept

(* The top of the writer's loop and its timed wait. *)
LEMMA CheckInvariant ==
    ASSUME IInv, FlagsOK', WriterCheck \/ TimedWoken \/ TimedOut
    PROVE  IInv'
<1> USE DEF IInv
<1>1. /\ UNCHANGED <<proc, file, synced, cut, last, next, sticky, stopping, acked, crashes>>
      /\ wpc \in {"check", "timed", "timed_woken"} /\ proc = "up"
  BY DEF WriterCheck, TimedWoken, TimedOut, diskVars, OffInv
<1>2. CASE TakeBatch /\ queue # <<>>
  BY <1>1, <1>2, TakeBatchInvariant
<1>3. CASE /\ UNCHANGED <<queue, batch, err>>
           /\ wpc' \in {"exited", "waiting", "timed"} /\ (wpc' = "timed" => queue # <<>>)
  <2>1. TypeOK' /\ RecoveryInv' /\ OffInv' /\ PhaseInv' /\ BatchInv'
    BY <1>1, <1>3 DEF TypeOK, WriterPcs, RecoveryInv, OffInv, PhaseInv, BatchInv
  <2>2. QueueInv'
    BY <1>1, <1>3 DEF QueueInv, Intact, Unwritten
  <2> QED
    BY <1>1, <2>1, <2>2, DiskKept
<1>4. wpc \in {"timed", "timed_woken"} => queue # <<>>
  BY <1>1 DEF PhaseInv
<1>5. CASE WriterCheck
  BY <1>2, <1>3, <1>5 DEF WriterCheck
<1>6. CASE TimedWoken
  BY <1>2, <1>3, <1>4, <1>6 DEF TimedWoken
<1>7. CASE TimedOut
  BY <1>2, <1>4, <1>7 DEF TimedOut
<1> QED
  BY <1>5, <1>6, <1>7

(* A write extends the file by the batch, or by what a failed write left. *)
LEMMA WriteInvariant ==
    ASSUME IInv, FlagsOK', WriterWrite
    PROVE  IInv'
<1> USE DEF IInv
<1>1. /\ wpc = "write" /\ proc = "up" /\ ~sticky /\ ~err /\ batch # <<>>
      /\ UNCHANGED <<proc, synced, cut, last, queue, batch, next, stopping, acked, crashes>>
  BY DEF WriterWrite, OffInv, PhaseInv
<1>2. /\ Len(file) \in Nat /\ synced \in 0..Len(file) /\ Len(batch) \in Nat /\ Len(queue) \in Nat
      /\ next \in Nat
  BY WalAssumption, LenProperties DEF TypeOK
<1>3. /\ Intact(Len(file)) /\ Unwritten = Len(batch)
      /\ \A i \in 1..Len(batch) : batch[i].seq = Len(file) + i
      /\ \A i \in 1..Len(queue) : queue[i].seq = Len(file) + Len(batch) + i
      /\ next # 0 => next = Len(file) + Len(batch) + Len(queue) + 1
  BY <1>1 DEF QueueInv, Unwritten
<1>4. PICK part \in Seq(Slot) :
        /\ file' = file \o part
        /\ \A i \in 1..Len(part) : part[i] # Torn => i <= Len(batch) /\ part[i] = batch[i]
        /\ \/ part = batch /\ wpc' = "sync" /\ UNCHANGED <<sticky, err>>
           \/ wpc' = "complete" /\ sticky' = TRUE /\ err' = TRUE
  <2>1. batch \in Seq(Slot)
    BY SeqMonotonic DEF TypeOK, Slot
  <2>2. CASE file' = file \o batch /\ wpc' = "sync" /\ UNCHANGED <<sticky, err>>
    BY <1>2, <2>1, <2>2
  <2>3. CASE (\E part \in ShortWrites : file' = file \o part) /\ wpc' = "complete" /\ sticky' = TRUE /\ err' = TRUE
    BY <2>3, ShortWriteFacts DEF TypeOK
  <2> QED
    BY <2>2, <2>3 DEF WriterWrite
<1>5. /\ file' \in Seq(Slot) /\ Len(file') = Len(file) + Len(part) /\ Len(part) \in Nat
      /\ \A i \in 1..(Len(file) + Len(part)) :
             file'[i] = IF i <= Len(file) THEN file[i] ELSE part[i - Len(file)]
  BY <1>4, ConcatProperties, LenProperties DEF TypeOK
<1>6. TypeOK' /\ RecoveryInv' /\ OffInv' /\ PhaseInv'
  <2>1. TypeOK'
    BY <1>1, <1>2, <1>4, <1>5, SMTT(20) DEF TypeOK, WriterPcs
  <2>2. RecoveryInv' /\ OffInv'
    BY <1>1 DEF RecoveryInv, OffInv
  <2>3. PhaseInv'
    BY <1>1, <1>4 DEF PhaseInv
  <2> QED
    BY <2>1, <2>2, <2>3
<1>7. LogInOrder'
  <2> SUFFICES ASSUME NEW i \in 1..Len(file'), file'[i] # Torn PROVE file'[i].seq = i
    BY DEF LogInOrder
  <2>1. CASE i <= Len(file)
    BY <1>2, <1>5, <2>1, SMTT(20) DEF LogInOrder
  <2>2. CASE i > Len(file)
    <3> DEFINE j == i - Len(file)
    <3>1. j \in 1..Len(part) /\ file'[i] = part[j] /\ i = Len(file) + j
      BY <1>2, <1>5, <2>2
    <3>2. j \in 1..Len(batch) /\ part[j] = batch[j]
      BY <1>2, <1>4, <3>1
    <3> QED
      BY <1>3, <3>1, <3>2
  <2> QED
    BY <1>2, <2>1, <2>2
<1>8. SyncedIntact' /\ AckedDurable'
  <2>1. SyncedIntact'
    BY <1>1, <1>2, <1>5 DEF SyncedIntact, Intact
  <2>2. ASSUME NEW r \in acked PROVE r.seq <= synced /\ file'[r.seq] = r
    <3>1. r.seq \in Nat \ {0} /\ r.seq <= synced /\ file[r.seq] = r
      BY DEF TypeOK, Record, AckedDurable
    <3> QED
      BY <1>2, <1>5, <3>1
  <2> QED
    BY <1>1, <2>1, <2>2 DEF AckedDurable
<1>9. CASE part = batch /\ wpc' = "sync" /\ UNCHANGED <<sticky, err>>
  <2>1. BatchInv'
    <3>1. ASSUME NEW i \in 1..Len(batch) PROVE file'[Len(file') - Len(batch) + i] = batch[i]
      <4>1. Len(file') - Len(batch) + i = Len(file) + i
        BY <1>2, <1>5, <1>9
      <4>2. Len(file) + i \in 1..(Len(file) + Len(part)) /\ ~(Len(file) + i <= Len(file)) /\ (Len(file) + i) - Len(file) = i
        BY <1>2, <1>9
      <4> QED
        BY <1>5, <1>9, <4>1, <4>2
    <3> QED
      <4>1. batch' = batch /\ wpc' = "sync" /\ Len(batch) <= Len(file')
        BY <1>1, <1>2, <1>5, <1>9
      <4> QED
        BY <3>1, <4>1 DEF BatchInv
  <2>2. Intact(Len(file))'
    <3> SUFFICES ASSUME NEW i \in 1..Len(file') PROVE file'[i] # Torn
      BY DEF Intact
    <3>1. CASE i <= Len(file)
      BY <1>2, <1>3, <1>5, <3>1 DEF Intact
    <3>2. CASE i > Len(file)
      <4>1. i - Len(file) \in 1..Len(batch) /\ file'[i] = batch[i - Len(file)]
        BY <1>2, <1>5, <1>9, <3>2
      <4> QED
        BY <4>1, ElementOfSeq, TornIsNoRecord DEF TypeOK
    <3> QED
      BY <1>2, <3>1, <3>2
  <2>3. QueueInv'
    <3>1. Unwritten' = 0 /\ Len(file') = Len(file) + Len(batch)
      BY <1>5, <1>9 DEF Unwritten
    <3> QED
      <4>1. \A i \in 1..Len(queue) : queue[i].seq = Len(file') + 0 + i
        BY <1>2, <1>3, <3>1
      <4>2. next # 0 => next = Len(file') + 0 + Len(queue) + 1
        BY <1>2, <1>3, <3>1
      <4>3. queue' = queue /\ next' = next /\ wpc' # "write"
        BY <1>1, <1>9
      <4> QED
        BY <2>2, <3>1, <4>1, <4>2, <4>3 DEF QueueInv
  <2> QED
    BY <1>6, <1>7, <1>8, <2>1, <2>3
<1>10. CASE wpc' = "complete" /\ sticky' = TRUE /\ err' = TRUE
  <2>1. BatchInv' /\ QueueInv'
    BY <1>10 DEF BatchInv, QueueInv
  <2> QED
    BY <1>6, <1>7, <1>8, <2>1
<1> QED
  BY <1>4, <1>9, <1>10

(* After fdatasync the batch is behind the horizon, or the error is sticky. *)
LEMMA SyncInvariant ==
    ASSUME IInv, FlagsOK', WriterSync
    PROVE  IInv'
<1> USE DEF IInv
<1>1. /\ wpc = "sync" /\ wpc' = "complete" /\ proc = "up" /\ ~sticky /\ ~err /\ batch # <<>>
      /\ UNCHANGED <<proc, file, last, queue, batch, next, stopping, acked, crashes>>
      /\ \/ synced' = Len(file) /\ UNCHANGED <<sticky, err>>
         \/ synced' = synced /\ sticky' = TRUE /\ err' = TRUE
  BY DEF WriterSync, OffInv, PhaseInv
<1>2. Len(file) \in Nat /\ synced \in 0..Len(file) /\ Len(batch) \in Nat /\ synced' \in synced..Len(file)
  BY <1>1, LenProperties DEF TypeOK
<1>3. TypeOK' /\ RecoveryInv' /\ OffInv' /\ PhaseInv' /\ LogInOrder'
  <2>1. TypeOK'
    <3>1. synced' \in 0..Len(file')
      BY <1>1, <1>2
    <3>2. wpc' \in WriterPcs
      BY <1>1 DEF WriterPcs
    <3> QED
      BY <1>1, <3>1, <3>2 DEF TypeOK
  <2>2. RecoveryInv' /\ OffInv' /\ LogInOrder'
    BY <1>1 DEF RecoveryInv, OffInv, LogInOrder
  <2>3. err' = sticky'
    BY <1>1 DEF TypeOK, FlagsOK
  <2>4. PhaseInv'
    BY <1>1, <2>3 DEF PhaseInv
  <2> QED
    BY <2>1, <2>2, <2>4
<1>4. SyncedIntact' /\ QueueInv'
  BY <1>1, <1>2 DEF QueueInv, SyncedIntact, Intact, Unwritten
<1>5. AckedDurable'
  <2> SUFFICES ASSUME NEW r \in acked PROVE r.seq <= synced' /\ file[r.seq] = r
    BY <1>1 DEF AckedDurable
  <2>1. r.seq \in Nat /\ r.seq <= synced /\ file[r.seq] = r
    BY DEF TypeOK, Record, AckedDurable
  <2> QED
    BY <1>2, <2>1
<1>6. BatchInv'
  <2> SUFFICES ASSUME synced' = Len(file), NEW i \in 1..Len(batch)
               PROVE  batch[i].seq <= Len(file) /\ file[batch[i].seq] = batch[i]
    BY <1>1 DEF BatchInv
  <2> DEFINE k == Len(file) - Len(batch) + i
  <2>1. file[k] = batch[i] /\ k \in 1..Len(file)
    BY <1>1, <1>2 DEF BatchInv
  <2>2. file[k] # Torn
    BY <2>1, ElementOfSeq, TornIsNoRecord DEF TypeOK
  <2>3. file[k].seq = k
    BY <2>1, <2>2 DEF LogInOrder
  <2> QED
    BY <1>2, <2>1, <2>3
<1> QED
  BY <1>3, <1>4, <1>5, <1>6

(* complete_batch reports one request. *)
LEMMA CompleteInvariant ==
    ASSUME IInv, FlagsOK', WriterComplete
    PROVE  IInv'
<1> USE DEF IInv
<1>1. /\ wpc = "complete" /\ proc = "up" /\ batch # <<>> /\ err = sticky
      /\ UNCHANGED <<proc, file, synced, cut, last, queue, next, sticky, stopping, err, crashes>>
      /\ acked' = acked \cup CompletedOK /\ batch' = Tail(batch)
      /\ wpc' = IF Len(batch) = 1 THEN "check" ELSE "complete"
  BY DEF WriterComplete, diskVars, OffInv, PhaseInv
<1>2. /\ Head(batch) \in Record /\ Head(batch) = batch[1] /\ Len(batch) \in Nat \ {0}
      /\ batch' \in Seq(Record) /\ Len(batch') = Len(batch) - 1
      /\ \A i \in 1..Len(batch') : batch'[i] = batch[i + 1]
  BY <1>1, HeadTailProperties, EmptySeq DEF TypeOK
<1>3. TypeOK' /\ RecoveryInv' /\ OffInv' /\ LogInOrder' /\ SyncedIntact'
  <2>1. acked' \subseteq Record
    BY <1>1, <1>2 DEF CompletedOK, TypeOK
  <2>2. TypeOK'
    BY <1>1, <1>2, <2>1 DEF TypeOK, WriterPcs
  <2>3. RecoveryInv' /\ OffInv' /\ LogInOrder' /\ SyncedIntact'
    BY <1>1 DEF RecoveryInv, OffInv, LogInOrder, SyncedIntact, Intact
  <2> QED
    BY <2>2, <2>3
<1>4. PhaseInv'
  <2>1. wpc' = "complete" => Len(batch') # 0
    BY <1>1, <1>2
  <2>2. wpc' = "complete" => batch' # <<>>
    BY <2>1, EmptySeq
  <2> QED
    BY <1>1, <2>2 DEF PhaseInv
<1>5. QueueInv'
  BY <1>1 DEF QueueInv, Intact, Unwritten
<1>6. BatchInv'
  <2>1. ASSUME ~err, NEW i \in 1..Len(batch')
        PROVE  batch'[i].seq <= synced /\ file[batch'[i].seq] = batch'[i]
    <3>1. i + 1 \in 1..Len(batch) /\ batch'[i] = batch[i + 1]
      BY <1>2
    <3> QED
      BY <1>1, <2>1, <3>1 DEF BatchInv
  <2>2. wpc' # "sync" /\ UNCHANGED <<file, synced, err>>
    BY <1>1
  <2> QED
    BY <2>1, <2>2 DEF BatchInv
<1>7. AckedDurable'
  <2> SUFFICES ASSUME NEW r \in acked' PROVE r.seq <= synced /\ file[r.seq] = r
    BY <1>1 DEF AckedDurable
  <2>1. CASE r \in acked
    BY <2>1 DEF AckedDurable
  <2>2. CASE r = Head(batch) /\ ~err
    <3>1. 1 \in 1..Len(batch) /\ r = batch[1]
      BY <1>2, <2>2
    <3> QED
      BY <1>1, <2>2, <3>1 DEF BatchInv
  <2> QED
    BY <1>1, <2>1, <2>2 DEF CompletedOK
<1> QED
  BY <1>3, <1>4, <1>5, <1>6, <1>7

-----------------------------------------------------------------------------
(* The inductive invariant is kept by every step. *)
LEMMA NextInvariant == IInv /\ [Next]_vars => IInv'
<1> SUFFICES ASSUME IInv, [Next]_vars PROVE IInv'
  OBVIOUS
<1>1. FlagsOK'
  BY FlagsInvariant DEF IInv, TypeOK
<1>2. CASE Recovery
  BY <1>1, <1>2, ScanInvariant, CleanInvariant, TruncateInvariant, ResyncInvariant DEF Recovery
<1>3. CASE Writer
  BY <1>1, <1>3, CheckInvariant, WriteInvariant, SyncInvariant, CompleteInvariant DEF Writer
<1>4. CASE Callers
  BY <1>1, <1>4, SubmitInvariant, SignalInvariant, JoinInvariant DEF Callers
<1>5. CASE SpuriousWakeup \/ ProcessCrash \/ HostCrash
  BY <1>1, <1>5, SignalInvariant, ProcessCrashInvariant, HostCrashInvariant
<1>6. CASE UNCHANGED vars
  <2>1. UNCHANGED <<proc, file, synced, cut, last, queue, batch, next, sticky, stopping, wpc, err, acked, crashes>>
    BY <1>6 DEF vars, diskVars, writerVars
  <2>2. TypeOK' /\ LogInOrder' /\ SyncedIntact'
    BY <2>1 DEF IInv, TypeOK, FlagsOK, LogInOrder, SyncedIntact, Intact
  <2>3. RecoveryInv' /\ OffInv' /\ PhaseInv' /\ BatchInv' /\ AckedDurable'
    BY <2>1 DEF IInv, RecoveryInv, Intact, OffInv, PhaseInv, BatchInv, AckedDurable
  <2>4. QueueInv'
    BY <2>1 DEF IInv, QueueInv, Unwritten, Intact
  <2> QED
    BY <2>2, <2>3, <2>4 DEF IInv
<1> QED
  BY <1>2, <1>3, <1>4, <1>5, <1>6 DEF Next

(* Every reachable state satisfies the inductive invariant. *)
THEOREM Invariant == Spec => []IInv
BY InitInvariant, NextInvariant, PTL DEF Spec

(* Type correctness of the log, the writer and the recovery scan. *)
THEOREM TypeCorrect == Spec => []TypeOK
<1>1. IInv => TypeOK
  BY DEF IInv
<1> QED
  BY <1>1, Invariant, PTL

(* Durability: whatever writes and syncs fail and however often process    *)
(* and host crash, a record reported as successful stays at its place in   *)
(* the synced part of the file.                                            *)
THEOREM Durability == Spec => []AckedDurable
<1>1. IInv => AckedDurable
  BY DEF IInv
<1> QED
  BY <1>1, Invariant, PTL

(* The order of pk_wal_submit is the order of the file, across restarts    *)
(* and up to the last sequence number.                                     *)
THEOREM SequenceOrder == Spec => []LogInOrder
<1>1. IInv => LogInOrder
  BY DEF IInv
<1> QED
  BY <1>1, Invariant, PTL

(* A disk error freezes the file: while the process that met it lives, no  *)
(* later request is appended or synced.                                    *)
THEOREM StickyError == Spec => StickyFreezes
<1>1. ASSUME IInv, [Next]_vars, sticky, proc' = "up"
      PROVE  UNCHANGED <<file, synced>>
  <2>1. proc = "up" /\ ~(wpc \in {"write", "sync"})
    BY <1>1 DEF IInv, OffInv, PhaseInv
  <2>2. CASE Recovery
    BY <2>1, <2>2 DEF Recovery, Start, ScanRecord, ScanFails, ScanBoundary, ScanClean, RepairTruncate, RepairSync
  <2>3. CASE Writer
    BY <2>1, <2>3 DEF Writer, WriterCheck, TimedWoken, TimedOut, WriterWrite, WriterSync, WriterComplete, diskVars
  <2>4. CASE Callers
    BY <2>4, <1>1 DEF Callers, Submit, Stop, StopJoined, diskVars
  <2>5. CASE SpuriousWakeup \/ ProcessCrash \/ HostCrash
    BY <2>5, <1>1 DEF SpuriousWakeup, ProcessCrash, HostCrash, diskVars
  <2>6. CASE UNCHANGED vars
    BY <2>6 DEF vars, diskVars
  <2> QED
    BY <1>1, <2>2, <2>3, <2>4, <2>5, <2>6 DEF Next
<1>2. IInv /\ [Next]_vars => [sticky /\ proc' = "up" => UNCHANGED <<file, synced>>]_vars
  BY <1>1
<1> QED
  BY <1>2, Invariant, PTL DEF Spec, StickyFreezes

-----------------------------------------------------------------------------
(* The synced part of the file never shrinks and never changes. *)
LEMMA StableGrows ==
    ASSUME IInv, [Next]_vars
    PROVE  synced <= synced' /\ \A i \in 1..synced : file'[i] = file[i]
<1>1. Len(file) \in Nat /\ synced \in 0..Len(file) /\ last \in Nat
  BY WalAssumption, LenProperties DEF IInv, TypeOK
<1>2. CASE UNCHANGED <<file, synced>>
  BY <1>1, <1>2
<1>3. ASSUME NEW part \in Seq(Slot), file' = file \o part, synced' = synced
      PROVE  \A i \in 1..synced : file'[i] = file[i]
  BY <1>1, <1>3, ConcatProperties, LenProperties DEF IInv, TypeOK
<1>4. CASE RepairTruncate
  <2>1. synced <= last /\ last <= Len(file) /\ synced' = synced
    BY <1>4 DEF RepairTruncate, IInv, RecoveryInv
  <2>2. CASE file' = Prefix(file, last)
    BY <1>1, <2>1, <2>2, PrefixFacts DEF IInv, TypeOK
  <2> QED
    BY <1>2, <1>4, <2>1, <2>2 DEF RepairTruncate
<1>5. CASE RepairSync \/ WriterSync
  BY <1>1, <1>5 DEF RepairSync, WriterSync
<1>6. CASE WriterWrite \/ ProcessCrash
  <2>1. synced' = synced /\ batch \in Seq(Record) /\ batch \in Seq(Slot)
    BY <1>6, SeqMonotonic DEF WriterWrite, ProcessCrash, IInv, TypeOK, Slot
  <2>2. file' = file \/ \E part \in Seq(Slot) : file' = file \o part
    BY <1>6, <2>1, ShortWriteFacts DEF WriterWrite, ProcessCrash
  <2> QED
    BY <1>1, <1>2, <1>3, <2>1, <2>2
<1>7. CASE HostCrash
  <2>1. PICK n \in synced..Len(file) :
          (file' = Prefix(file, n) \/ file' = Append(Prefix(file, n), Torn)) /\ synced' = n
    BY <1>7 DEF HostCrash
  <2>2. /\ Prefix(file, n) \in Seq(Slot) /\ Len(Prefix(file, n)) = n
        /\ \A i \in 1..n : Prefix(file, n)[i] = file[i]
    <3>1. file \in Seq(Slot) /\ n \in 0..Len(file)
      BY <1>1 DEF IInv, TypeOK
    <3> QED
      BY <3>1, PrefixFacts
  <2>3. \A i \in 1..n : Append(Prefix(file, n), Torn)[i] = Prefix(file, n)[i]
    <3>1. Torn \in Slot
      BY DEF Slot
    <3> QED
      BY <2>2, <3>1, AppendProperties
  <2> QED
    BY <1>1, <2>1, <2>2, <2>3
<1>8. CASE Start \/ ScanRecord \/ ScanFails \/ ScanBoundary \/ ScanClean \/ Callers \/ SpuriousWakeup
  BY <1>2, <1>8 DEF Start, ScanRecord, ScanFails, ScanBoundary, ScanClean, Callers, Submit, Stop, StopJoined,
     SpuriousWakeup, diskVars
<1>9. CASE WriterCheck \/ TimedWoken \/ TimedOut \/ WriterComplete \/ UNCHANGED vars
  BY <1>2, <1>9 DEF WriterCheck, TimedWoken, TimedOut, WriterComplete, vars, diskVars
<1> QED
  BY <1>4, <1>5, <1>6, <1>7, <1>8, <1>9 DEF Next, Recovery, Writer

(* The synced part of the file, as the abstract log. *)
StableRecords ==
    /\ synced \in Nat /\ Prefix(file, synced) \in Seq(Record) /\ Len(Prefix(file, synced)) = synced
    /\ \A i \in 1..synced : Prefix(file, synced)[i] = file[i] /\ file[i] \in Record

(* The synced part of the file consists of records. *)
LEMMA StableFacts == IInv => StableRecords
<1> SUFFICES ASSUME IInv PROVE StableRecords
  OBVIOUS
<1>1. Len(file) \in Nat /\ synced \in 0..Len(file) /\ file \in Seq(Slot)
  BY LenProperties DEF IInv, TypeOK
<1>2. \A i \in 1..synced : file[i] \in Record
  <2> SUFFICES ASSUME NEW i \in 1..synced PROVE file[i] \in Record
    OBVIOUS
  <2>1. file[i] \in Slot
    BY <1>1, ElementOfSeq
  <2>2. file[i] # Torn
    BY DEF IInv, SyncedIntact, Intact
  <2> QED
    BY <2>1, <2>2 DEF Slot
<1>3. Len(Prefix(file, synced)) = synced /\ \A i \in 1..synced : Prefix(file, synced)[i] = file[i]
  BY <1>1, PrefixFacts
<1>4. Prefix(file, synced) \in Seq(Record)
  <2>1. 1 \in Int /\ synced \in Int
    BY <1>1
  <2> QED
    BY <1>2, <2>1, SubSeqProperties DEF Prefix
<1>5. synced \in Nat
  BY <1>1
<1> QED
  BY <1>2, <1>3, <1>4, <1>5, Zenon DEF StableRecords

(* The same after a step. *)
LEMMA StableFactsNext == IInv' => StableRecords'
BY StableFacts, PTL

(* The write-ahead log implements the abstract durable log: a step of the  *)
(* writer, the recovery scan or a crash extends the stable log, reports a  *)
(* record in it, or leaves both alone.                                     *)
THEOREM Refinement == Spec => ImplementsDurableLog
<1>1. Init => Durable!Init
  <2> SUFFICES ASSUME Init PROVE Prefix(file, synced) = <<>> /\ acked = {}
    BY DEF Durable!Init
  <2>1. SubSeq(<<>>, 1, 0) = <<>>
    BY SubSeqEmpty
  <2> QED
    BY <2>1 DEF Init, Prefix
<1>2. ASSUME IInv, IInv', [Next]_vars PROVE [Durable!Next]_Durable!vars
  <2> DEFINE old == Prefix(file, synced)
             new == Prefix(file, synced)'
  <2>1. /\ synced \in Nat /\ old \in Seq(Record) /\ Len(old) = synced
        /\ \A i \in 1..synced : old[i] = file[i] /\ file[i] \in Record
    BY <1>2, StableFacts DEF StableRecords
  <2>2. /\ synced' \in Nat /\ new \in Seq(Record) /\ Len(new) = synced'
        /\ \A i \in 1..synced' : new[i] = file'[i] /\ file'[i] \in Record
    BY <1>2, StableFactsNext DEF StableRecords
  <2>3. synced <= synced' /\ \A i \in 1..synced : new[i] = old[i]
    <3>1. synced <= synced' /\ \A i \in 1..synced : file'[i] = file[i]
      BY <1>2, StableGrows
    <3>2. \A i \in 1..synced : i \in 1..synced'
      <4>1. synced \in Nat /\ synced' \in Nat
        BY <2>1, <2>2
      <4> QED
        BY <3>1, <4>1
    <3> QED
      BY <2>1, <2>2, <3>1, <3>2
  <2> HIDE DEF old, new
  <2>4. CASE WriterComplete /\ ~err
    <3>1. /\ UNCHANGED <<file, synced>> /\ acked' = acked \cup {Head(batch)} /\ batch # <<>>
      <4>1. OffInv /\ PhaseInv
        BY <1>2 DEF IInv
      <4> QED
        BY <2>4, <4>1 DEF WriterComplete, CompletedOK, diskVars, OffInv, PhaseInv
    <3>2. new = old
      BY <3>1 DEF old, new
    <3>3. Len(batch) \in Nat \ {0} /\ Head(batch) = batch[1] /\ Head(batch) \in Record
      <4>1. batch \in Seq(Record)
        BY <1>2 DEF IInv, TypeOK
      <4> QED
        BY <3>1, <4>1, HeadTailProperties, EmptySeq
    <3>4. Head(batch).seq <= synced /\ file[Head(batch).seq] = Head(batch) /\ Head(batch).seq \in Nat \ {0}
      <4>1. BatchInv /\ wpc = "complete" /\ ~err
        BY <1>2, <2>4 DEF IInv, WriterComplete
      <4>2. 1 \in 1..Len(batch)
        BY <3>3
      <4>3. batch[1].seq <= synced /\ file[batch[1].seq] = batch[1]
        BY <4>1, <4>2 DEF BatchInv
      <4>4. Head(batch).seq \in Nat \ {0}
        BY <3>3 DEF Record
      <4> QED
        BY <3>3, <4>3, <4>4
    <3>5. Head(batch).seq \in 1..Len(old) /\ old[Head(batch).seq] = Head(batch)
      BY <2>1, <3>4
    <3>6. \E i \in 1..Len(old) : acked' = acked \cup {old[i]}
      BY <3>1, <3>5
    <3> QED
      BY <3>2, <3>6 DEF Durable!Next, Durable!Acknowledge, old, new
  <2>5. CASE ~(WriterComplete /\ ~err)
    <3>1. acked' = acked
      BY <1>2, <2>5 DEF Next, vars, diskVars, Recovery, Writer, Callers, Start, ScanRecord, ScanFails,
         ScanBoundary, ScanClean, RepairTruncate, RepairSync, Submit, Stop, StopJoined, WriterCheck,
         TimedWoken, TimedOut, SpuriousWakeup, WriterWrite, WriterSync, WriterComplete, CompletedOK,
         ProcessCrash, HostCrash
    <3>2. CASE synced' = synced
      <4>1. new = old
        BY <2>1, <2>2, <2>3, <3>2, SeqEqual
      <4> QED
        BY <3>1, <4>1 DEF Durable!vars, old, new
    <3>3. CASE synced' > synced
      <4>1. SubSeq(new, 1, Len(old)) = old
        <5>1. Len(old) \in 0..Len(new)
          BY <2>1, <2>2, <2>3
        <5>2. /\ Prefix(new, Len(old)) \in Seq(Record) /\ Len(Prefix(new, Len(old))) = Len(old)
              /\ \A i \in 1..Len(old) : Prefix(new, Len(old))[i] = new[i]
          BY <2>2, <5>1, PrefixFacts
        <5>3. Prefix(new, Len(old)) = old
          BY <2>1, <2>3, <5>2, SeqEqual
        <5> QED
          BY <5>3 DEF Prefix
      <4>2. \A i \in (Len(old) + 1)..Len(new) : new[i] \in Record
        BY <2>1, <2>2
      <4>3. Len(new) > Len(old)
        BY <2>1, <2>2, <3>3
      <4> QED
        BY <3>1, <4>1, <4>2, <4>3 DEF Durable!Next, Durable!Commit, old, new
    <3> QED
      BY <2>1, <2>2, <2>3, <3>2, <3>3
  <2> QED
    BY <2>4, <2>5
<1> QED
  BY <1>1, <1>2, Invariant, PTL DEF Spec, ImplementsDurableLog, Durable!Spec
=============================================================================
