------------------------------- MODULE Wal -------------------------------
(***************************************************************************)
(* The write-ahead log of PulseKV v1 (src/src/wal.c): the submission       *)
(* queue, the dedicated group-commit writer thread, the log file as the    *)
(* page cache and the disk see it, crashes of the process and of the host, *)
(* and the recovery scan that runs before the writer is started again.     *)
(*                                                                         *)
(* A log file is a sequence of slots.  A slot holds a record that passes   *)
(* the decoder's magic, length, opcode and CRC checks, or it is Torn:      *)
(* bytes pk_wal_record_decode answers INCOMPLETE or ERROR for.             *)
(***************************************************************************)
EXTENDS Integers, Sequences

CONSTANTS Ops,          \* SET and DEL payloads, told apart only by identity
          NoOp,         \* payload of a torn slot
          MaxSeq,       \* the largest sequence number (UINT64_MAX in the code)
          BatchMax,     \* wal->batch_max
          GroupDelay,   \* wal->delay_ns > 0
          MaxCrashes    \* bound on process and host crashes

ASSUME WalAssumption ==
    /\ NoOp \notin Ops
    /\ MaxSeq \in Nat \ {0}
    /\ BatchMax \in Nat \ {0}
    /\ GroupDelay \in BOOLEAN
    /\ MaxCrashes \in Nat

VARIABLES
    proc,      \* where the process is: down, in recovery, or serving ("up")
    file,      \* the log file as the kernel shows it to a reader
    synced,    \* how many leading slots fdatasync has made durable
    cut,       \* a truncation of the file is not durable yet
    last,      \* stats.last_sequence of the latest recovery scan
    queue,     \* wal->head .. wal->tail
    batch,     \* wal->batch, the requests the writer has taken
    next,      \* wal->next_sequence, 0 once the sequence space is used up
    sticky,    \* wal->sticky_error # 0
    stopping,  \* wal->stopping
    wpc,       \* where the writer thread is in writer_main
    err,       \* writer_main's local error of the current batch
    acked,     \* history: records completed with error = 0
    crashes    \* history: crashes so far

diskVars == <<file, synced, cut>>
writerVars == <<queue, batch, next, sticky, stopping, wpc, err>>
vars == <<proc, diskVars, last, writerVars, acked, crashes>>

Record == [seq : 1..MaxSeq, op : Ops]
Torn == [seq |-> 0, op |-> NoOp]
Slot == Record \cup {Torn}

Procs == {"down", "scan", "truncate", "resync", "up"}
WriterPcs == {"off", "check", "waiting", "timed", "timed_woken",
              "write", "sync", "complete", "exited"}

-----------------------------------------------------------------------------
(* The 64-bit counter: UINT64_MAX + 1 is 0, which submit reads as "used up". *)
Succ(n) == IF n = MaxSeq THEN 0 ELSE n + 1

Prefix(s, n) == SubSeq(s, 1, n)
Suffix(s, n) == SubSeq(s, n + 1, Len(s))
Smaller(m, n) == IF m < n THEN m ELSE n

(* pthread_cond_signal and _broadcast: there is one waiter, the writer. *)
Signalled(pc) == CASE pc = "waiting" -> "check"
                   [] pc = "timed"   -> "timed_woken"
                   [] OTHER          -> pc

WriterOff ==
    /\ queue' = <<>> /\ batch' = <<>>
    /\ next' = 0 /\ sticky' = FALSE /\ stopping' = FALSE
    /\ wpc' = "off" /\ err' = FALSE

-----------------------------------------------------------------------------
Init ==
    /\ proc = "down" /\ file = <<>> /\ synced = 0 /\ cut = FALSE /\ last = 0
    /\ queue = <<>> /\ batch = <<>> /\ next = 0
    /\ sticky = FALSE /\ stopping = FALSE /\ wpc = "off" /\ err = FALSE
    /\ acked = {} /\ crashes = 0

(* main starts pk_wal_recover on the file it finds. *)
Start ==
    /\ proc = "down"
    /\ proc' = "scan" /\ last' = 0
    /\ UNCHANGED <<diskVars, writerVars, acked, crashes>>

(* A slot the scan accepts: it decodes and continues the sequence. *)
Acceptable(slot) == slot # Torn /\ last # MaxSeq /\ slot.seq = last + 1

(* One turn of the decode loop: the record is replayed. *)
ScanRecord ==
    /\ proc = "scan" /\ last < Len(file)
    /\ Acceptable(file[last + 1])
    /\ last' = last + 1
    /\ UNCHANGED <<proc, diskVars, writerVars, acked, crashes>>

(* Opening, reading or replaying fails: startup ends, the file untouched. *)
ScanFails ==
    /\ proc = "scan"
    /\ proc' = "down"
    /\ UNCHANGED <<diskVars, last, writerVars, acked, crashes>>

(* The first slot that does not decode or breaks the sequence is the crash *)
(* boundary: repair_tail is called.                                        *)
ScanBoundary ==
    /\ proc = "scan" /\ last < Len(file)
    /\ ~Acceptable(file[last + 1])
    /\ proc' = "truncate"
    /\ UNCHANGED <<diskVars, last, writerVars, acked, crashes>>

(* Mutant: the writer numbers its records from one again. *)
StartWriterAtOne ==
    /\ proc' = "up" /\ next' = 1 /\ wpc' = "check"
    /\ UNCHANGED <<queue, batch, sticky, stopping, err>>

(* Back in main: pk_wal_init opens the file for append and starts the      *)
(* writer.  Startup ends in failure when the sequence space is used up, or *)
(* when closing, allocating, opening or creating the thread fails.         *)
StartWriter ==
    \/ /\ last # MaxSeq
       /\ proc' = "up" /\ next' = last + 1 /\ wpc' = "check"
       /\ UNCHANGED <<queue, batch, sticky, stopping, err>>
    \/ proc' = "down" /\ UNCHANGED writerVars

(* The scan reached the end of the file with nothing to repair. *)
ScanClean ==
    /\ proc = "scan" /\ last = Len(file)
    /\ StartWriter
    /\ UNCHANGED <<diskVars, last, acked, crashes>>

(* repair_tail: ftruncate to the last valid byte, then fdatasync; an error *)
(* of either makes startup fail.                                           *)
RepairTruncate ==
    /\ proc = "truncate"
    /\ \/ file' = Prefix(file, last) /\ cut' = TRUE /\ proc' = "resync"
       \/ UNCHANGED <<file, cut>> /\ proc' = "down"
    /\ UNCHANGED <<synced, last, writerVars, acked, crashes>>

RepairSync ==
    /\ proc = "resync"
    /\ \/ synced' = Len(file) /\ cut' = FALSE /\ StartWriter
       \/ UNCHANGED <<synced, cut>> /\ proc' = "down" /\ UNCHANGED writerVars
    /\ UNCHANGED <<file, last, acked, crashes>>

-----------------------------------------------------------------------------
(* pk_wal_submit, when it accepts: it refuses once stopping (ESHUTDOWN) or *)
(* when the sequence space is used up (EOVERFLOW).                         *)
CanSubmit == proc = "up" /\ ~stopping /\ next # 0

SubmitRecord(op) == [seq |-> next, op |-> op]

(* Mutant: only a full batch signals. *)
SignalsWhenFull == Len(queue) + 1 >= BatchMax

SubmitSignals == queue = <<>> \/ Len(queue) + 1 >= BatchMax

Submit(op) ==
    /\ CanSubmit
    /\ queue' = Append(queue, SubmitRecord(op))
    /\ next' = Succ(next)
    /\ wpc' = IF SubmitSignals THEN Signalled(wpc) ELSE wpc
    /\ UNCHANGED <<proc, diskVars, last, batch, sticky, stopping, err, acked, crashes>>

(* pk_wal_stop: set the flag and broadcast; then the join and the exit. *)
Stop ==
    /\ proc = "up" /\ ~stopping
    /\ stopping' = TRUE /\ wpc' = Signalled(wpc)
    /\ UNCHANGED <<proc, diskVars, last, queue, batch, next, sticky, err, acked, crashes>>

StopJoined ==
    /\ proc = "up" /\ wpc = "exited"
    /\ proc' = "down" /\ WriterOff
    /\ UNCHANGED <<diskVars, last, acked, crashes>>

-----------------------------------------------------------------------------
(* Mutant: the batch is written whatever the sticky error says. *)
TakeBatchAnyway ==
    LET count == Smaller(BatchMax, Len(queue)) IN
    /\ batch' = Prefix(queue, count) /\ queue' = Suffix(queue, count)
    /\ err' = FALSE /\ wpc' = "write"

(* take_batch, still under the lock, and the sticky error read with it. *)
TakeBatch ==
    LET count == Smaller(BatchMax, Len(queue)) IN
    /\ batch' = Prefix(queue, count) /\ queue' = Suffix(queue, count)
    /\ err' = sticky
    /\ wpc' = IF sticky THEN "complete" ELSE "write"

(* Whether the writer holds the lock back for more records. *)
GroupWait == GroupDelay /\ ~sticky /\ ~stopping /\ Len(queue) < BatchMax

(* The top of writer_main's loop, from the lock to the wait or the batch. *)
WriterCheck ==
    /\ wpc = "check"
    /\ \/ /\ queue = <<>>
          /\ wpc' = IF stopping THEN "exited" ELSE "waiting"
          /\ UNCHANGED <<queue, batch, err>>
       \/ /\ queue # <<>> /\ GroupWait
          /\ wpc' = "timed"
          /\ UNCHANGED <<queue, batch, err>>
       \/ /\ queue # <<>> /\ ~GroupWait
          /\ TakeBatch
    /\ UNCHANGED <<proc, diskVars, last, next, sticky, stopping, acked, crashes>>

(* The inner loop of the timed wait, after a signal: wait on or go on. *)
TimedWoken ==
    /\ wpc = "timed_woken"
    /\ IF Len(queue) < BatchMax /\ ~stopping
       THEN wpc' = "timed" /\ UNCHANGED <<queue, batch, err>>
       ELSE TakeBatch
    /\ UNCHANGED <<proc, diskVars, last, next, sticky, stopping, acked, crashes>>

(* pthread_cond_timedwait returns ETIMEDOUT. *)
TimedOut ==
    /\ wpc = "timed"
    /\ TakeBatch
    /\ UNCHANGED <<proc, diskVars, last, next, sticky, stopping, acked, crashes>>

(* POSIX lets a wait return without a signal. *)
SpuriousWakeup ==
    /\ wpc \in {"waiting", "timed"}
    /\ wpc' = Signalled(wpc)
    /\ UNCHANGED <<proc, diskVars, last, queue, batch, next, sticky, stopping, err, acked, crashes>>

(* What a write cut short leaves behind: some whole records, and maybe a   *)
(* torn one.                                                               *)
ShortWrites == {Prefix(batch, n) \o t : n \in 0..(Len(batch) - 1), t \in {<<>>, <<Torn>>}}

(* encode_batch and write_all.  An encoding failure is a short write of    *)
(* nothing.  Any failure becomes the sticky error.                         *)
WriterWrite ==
    /\ wpc = "write"
    /\ \/ /\ file' = file \o batch
          /\ wpc' = "sync" /\ UNCHANGED <<sticky, err>>
       \/ /\ \E part \in ShortWrites : file' = file \o part
          /\ wpc' = "complete" /\ sticky' = TRUE /\ err' = TRUE
    /\ UNCHANGED <<proc, synced, cut, last, queue, batch, next, stopping, acked, crashes>>

(* Mutant: the result of fdatasync is not looked at. *)
WriterSyncUnchecked ==
    /\ wpc = "sync" /\ wpc' = "complete"
    /\ \/ synced' = Len(file) /\ cut' = FALSE
       \/ UNCHANGED <<synced, cut>>
    /\ UNCHANGED <<proc, file, last, queue, batch, next, sticky, stopping, err, acked, crashes>>

(* fdatasync. *)
WriterSync ==
    /\ wpc = "sync" /\ wpc' = "complete"
    /\ \/ synced' = Len(file) /\ cut' = FALSE /\ UNCHANGED <<sticky, err>>
       \/ UNCHANGED <<synced, cut>> /\ sticky' = TRUE /\ err' = TRUE
    /\ UNCHANGED <<proc, file, last, queue, batch, next, stopping, acked, crashes>>

(* Mutant: the whole batch is reported successful. *)
CompletedAlways == {Head(batch)}

(* The records reported with error = 0. *)
CompletedOK == IF err THEN {} ELSE {Head(batch)}

(* complete_batch: one completion callback, in batch order. *)
WriterComplete ==
    /\ wpc = "complete"
    /\ acked' = acked \cup CompletedOK
    /\ batch' = Tail(batch)
    /\ wpc' = IF Len(batch) = 1 THEN "check" ELSE "complete"
    /\ UNCHANGED <<proc, diskVars, last, queue, next, sticky, stopping, err, crashes>>

-----------------------------------------------------------------------------
(* The process dies (SIGKILL, abort); the page cache keeps every byte that *)
(* was written, a write in progress included.                              *)
ProcessCrash ==
    /\ proc # "down" /\ crashes < MaxCrashes
    /\ crashes' = crashes + 1
    /\ proc' = "down" /\ WriterOff
    /\ \/ file' = file
       \/ wpc = "write" /\ \E part \in ShortWrites : file' = file \o part
    /\ UNCHANGED <<synced, cut, last, acked>>

(* The host dies: a leading part of the file, never less than was synced,  *)
(* is on the disk when it comes back, then perhaps a damaged slot where    *)
(* later slots, a write in progress or an unsynced truncation were.        *)
(* Slots behind a damaged one are dropped: recovery never reads them.      *)
HostCrash ==
    /\ crashes < MaxCrashes
    /\ crashes' = crashes + 1
    /\ proc' = "down" /\ WriterOff
    /\ \E n \in synced..Len(file) :
       /\ \A i \in 1..n : file[i] # Torn
       /\ \/ file' = Prefix(file, n)
          \/ (n < Len(file) \/ wpc = "write" \/ cut) /\ file' = Append(Prefix(file, n), Torn)
       /\ synced' = n
    /\ cut' = FALSE
    /\ UNCHANGED <<last, acked>>

-----------------------------------------------------------------------------
Recovery == Start \/ ScanRecord \/ ScanFails \/ ScanBoundary \/ ScanClean \/ RepairTruncate \/ RepairSync
Writer == WriterCheck \/ TimedWoken \/ TimedOut \/ WriterWrite \/ WriterSync \/ WriterComplete
Callers == Stop \/ StopJoined \/ \E op \in Ops : Submit(op)

Next == Recovery \/ Writer \/ Callers \/ SpuriousWakeup \/ ProcessCrash \/ HostCrash

Spec == Init /\ [][Next]_vars

(* The writer thread is scheduled, its system calls return, and its timed  *)
(* wait expires however often it is woken: the deadline is absolute.       *)
(* Callers, crashes and spurious wakeups are never owed.                   *)
FairSpec == Spec /\ WF_vars(Writer) /\ SF_vars(TimedOut) /\ WF_vars(StopJoined)

-----------------------------------------------------------------------------
FlagsOK == cut \in BOOLEAN /\ sticky \in BOOLEAN /\ stopping \in BOOLEAN /\ err \in BOOLEAN

TypeOK ==
    /\ FlagsOK
    /\ proc \in Procs /\ wpc \in WriterPcs
    /\ file \in Seq(Slot) /\ synced \in 0..Len(file)
    /\ queue \in Seq(Record) /\ batch \in Seq(Record)
    /\ last \in 0..MaxSeq /\ next \in 0..MaxSeq
    /\ acked \subseteq Record /\ crashes \in 0..MaxCrashes

(* Durability: a record whose completion reported success is in the file   *)
(* at the slot of its sequence number and behind the sync horizon, through *)
(* every later write error, crash, repair and restart.                     *)
AckedDurable == \A r \in acked : r.seq <= synced /\ file[r.seq] = r

(* The order submit gives is the order on disk: every decodable slot holds *)
(* the sequence number of its position, so recovery's contiguity check     *)
(* never rejects a record the writer wrote.                                *)
LogInOrder == \A i \in 1..Len(file) : file[i] # Torn => file[i].seq = i

(* "The first disk error becomes sticky, so no later request can bypass a  *)
(* failed append": while the process that met the error lives, its file    *)
(* neither grows nor is synced again.                                      *)
StickyFreezes ==
    [][sticky /\ proc' = "up" => UNCHANGED <<file, synced>>]_vars

(* The log implements the abstract durable log: the synced part of the     *)
(* file only grows at its end, and success is reported only for records in *)
(* it.                                                                     *)
Durable == INSTANCE DurableLog WITH Records <- Record, log <- Prefix(file, synced)
ImplementsDurableLog == Durable!Spec

(* Every accepted mutation is completed, whatever errors the writer meets. *)
Outstanding(s) == \E i \in 1..Len(batch \o queue) : (batch \o queue)[i].seq = s
AllComplete == \A s \in 1..MaxSeq : Outstanding(s) ~> ~Outstanding(s)
=============================================================================
