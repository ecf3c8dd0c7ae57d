------------------------------- MODULE Server -------------------------------
(***************************************************************************)
(* PulseKV v1 as one system: workers submit the mutations of their         *)
(* connections to the write-ahead log, the log's writer commits them in    *)
(* batches and hands each back to the worker that owns its connection, and *)
(* that worker applies it to the table all workers share and replies.      *)
(*                                                                         *)
(* The log is taken at its promise (Wal shows how it is kept): records are *)
(* appended in submission order, a batch is reported durable only after it *)
(* is, and the first error fails it and everything after it.  The handoff  *)
(* is a queue per worker (Handoff), a connection has one mutation pending  *)
(* at a time (Conn), and a crash kills the process and not the host.       *)
(***************************************************************************)
EXTENDS Integers, Sequences

CONSTANTS Workers, Conns, Keys, Vals,
          WorkerOf,     \* WorkerOf[c]: the worker that accepted connection c
          Writers,      \* Writers[k]: the connections whose client writes k
          Absent,       \* what the table holds for a key it does not have
          Idle,         \* conn_t.pending = NULL
          WalBatchMax,  \* wal->batch_max
          MaxOps,       \* bound on mutations
          MaxKills      \* bound on crashes

(* A SET, or a DEL as the record of an absent value. *)
Mutation == [key : Keys, val : Vals \cup {Absent}]
Report == [conn : Conns, error : BOOLEAN]

(* What the constants must be. *)
ServerConstants ==
    /\ WorkerOf \in [Conns -> Workers] /\ Writers \in [Keys -> SUBSET Conns]
    /\ Absent \notin Vals /\ Idle \notin Mutation
    /\ WalBatchMax \in Nat \ {0} /\ MaxOps \in Nat /\ MaxKills \in Nat

(* The clients of a key are connected to one worker.  The code does not    *)
(* see to this, and what memory holds depends on it.                       *)
OneWorkerPerKey == \A k \in Keys : \A c, d \in Writers[k] : WorkerOf[c] = WorkerOf[d]

VARIABLES
    up,          \* the process is serving
    table,       \* server.table
    records,     \* the records in the log file, oldest first
    pending,     \* pending[c]: the mutation of conn_t.pending, or Idle
    submissions, \* connections whose request is queued in the log
    completing,  \* connections the writer is completing
    error,       \* the error of that batch
    failed,      \* wal->sticky_error # 0
    inbox,       \* inbox[w]: completions handed to worker w, oldest first
    stop,        \* g_stop
    draining,    \* the workers with worker.draining
    unhealthy,   \* a durable mutation could not be applied
    allowed,     \* history: allowed[k], the values a client of k must expect
    ops,         \* history: mutations so far
    kills        \* history: crashes so far

memory == <<table, pending, submissions, completing, error, failed, inbox, stop, draining, unhealthy>>
serverVars == <<up, records, memory, allowed, ops, kills>>

Empty == [k \in Keys |-> Absent]

(* pk_table_set and pk_table_del, each atomic under its shard's lock; a    *)
(* DEL of a missing key counts as applied.                                 *)
Apply(t, r) == [t EXCEPT ![r.key] = r.val]

(* dispatch_get: a copy taken under the shard lock. *)
Get(k) == table[k]

(* replay_record over the whole file, record by record. *)
Replay(f) ==
    LET after[n \in 0..Len(f)] == IF n = 0 THEN Empty ELSE Apply(after[n - 1], f[n])
    IN after[Len(f)]

-----------------------------------------------------------------------------
NonePending == [c \in Conns |-> Idle]
NoCompletions == [w \in Workers |-> <<>>]

ServerInit ==
    /\ up = TRUE /\ table = Empty /\ records = <<>>
    /\ pending = NonePending /\ submissions = <<>> /\ completing = <<>>
    /\ error = FALSE /\ failed = FALSE /\ inbox = NoCompletions
    /\ stop = FALSE /\ draining = {} /\ unhealthy = FALSE
    /\ allowed = [k \in Keys |-> {Absent}] /\ ops = 0 /\ kills = 0

(* conn_process reaches a SET or DEL of a connection with nothing pending. *)
SubmitMutation(c, r) ==
    /\ up /\ WorkerOf[c] \notin draining /\ pending[c] = Idle
    /\ c \in Writers[r.key] /\ ops < MaxOps
    /\ pending' = [pending EXCEPT ![c] = r]
    /\ submissions' = Append(submissions, c)
    /\ allowed' = [allowed EXCEPT ![r.key] = @ \cup {r.val}]
    /\ ops' = ops + 1
    /\ UNCHANGED <<up, table, records, completing, error, failed, inbox, stop, draining>>
    /\ UNCHANGED <<unhealthy, kills>>

Records(conns) == [i \in 1..Len(conns) |-> pending[conns[i]]]

(* The writer takes a batch.  Without a sticky error it writes and syncs   *)
(* it; a write cut short leaves some leading records in the file, a failed *)
(* fdatasync all of them.                                                  *)
CommitBatch ==
    /\ up /\ completing = <<>> /\ submissions # <<>>
    /\ \E n \in 1..WalBatchMax :
       /\ n <= Len(submissions)
       /\ completing' = SubSeq(submissions, 1, n) /\ submissions' = SubSeq(submissions, n + 1, Len(submissions))
       /\ \/ /\ failed /\ error' = TRUE /\ UNCHANGED <<failed, records>>
          \/ /\ ~failed /\ error' = FALSE /\ UNCHANGED failed
             /\ records' = records \o Records(completing')
          \/ /\ ~failed /\ error' = TRUE /\ failed' = TRUE
             /\ \E m \in 0..n : records' = records \o Records(SubSeq(submissions, 1, m))
    /\ UNCHANGED <<up, table, pending, inbox, stop, draining, unhealthy>>
    /\ UNCHANGED <<allowed, ops, kills>>

(* wal_complete for the next request of the batch. *)
Complete ==
    /\ up /\ completing # <<>>
    /\ completing' = Tail(completing)
    /\ inbox' = [inbox EXCEPT ![WorkerOf[Head(completing)]] =
                    Append(@, [conn |-> Head(completing), error |-> error])]
    /\ UNCHANGED <<up, table, records, pending, submissions, error, failed, stop, draining>>
    /\ UNCHANGED <<unhealthy, allowed, ops, kills>>

(* Mutant: the mutation is applied whatever the log reported. *)
DurableAlways(done) == TRUE

(* c->wal_error == 0 *)
WasDurable(done) == ~done.error

(* A durable record the table has no memory for stops the server. *)
HealthAfter(applies) ==
    IF applies THEN UNCHANGED <<stop, unhealthy>> ELSE stop' = TRUE /\ unhealthy' = TRUE

(* process_wal_completions, one connection: apply, then reply unless the   *)
(* worker drains or the client is gone.  An OK reply settles the key.      *)
ApplyOne(w) ==
    /\ up /\ inbox[w] # <<>>
    /\ LET done == Head(inbox[w])
           record == pending[done.conn]
       IN /\ \/ /\ WasDurable(done)
                /\ \E applies \in BOOLEAN, replies \in {w \notin draining, FALSE} :
                   /\ table' = IF applies THEN Apply(table, record) ELSE table
                   /\ HealthAfter(applies)
                   /\ allowed' = IF applies /\ replies
                                 THEN [allowed EXCEPT ![record.key] = {record.val}]
                                 ELSE allowed
             \/ /\ ~WasDurable(done)
                /\ UNCHANGED <<table, stop, unhealthy, allowed>>
          /\ pending' = [pending EXCEPT ![done.conn] = Idle]
    /\ inbox' = [inbox EXCEPT ![w] = Tail(@)]
    /\ UNCHANGED <<up, records, submissions, completing, error, failed, draining, ops, kills>>

-----------------------------------------------------------------------------
(* SIGINT or SIGTERM; then each worker notices. *)
StopServer ==
    /\ up /\ ~stop /\ stop' = TRUE
    /\ UNCHANGED <<up, table, records, pending, submissions, completing, error, failed, inbox, draining>>
    /\ UNCHANGED <<unhealthy, allowed, ops, kills>>

BeginDraining(w) ==
    /\ up /\ stop /\ w \notin draining
    /\ draining' = draining \cup {w}
    /\ UNCHANGED <<up, table, records, pending, submissions, completing, error, failed, inbox, stop>>
    /\ UNCHANGED <<unhealthy, allowed, ops, kills>>

(* Every worker has counted its pending requests to zero and returned, and *)
(* main has stopped the log.                                               *)
Exit ==
    /\ up /\ draining = Workers /\ \A c \in Conns : pending[c] = Idle
    /\ up' = FALSE
    /\ UNCHANGED <<records, memory, allowed, ops, kills>>

(* The process is killed, perhaps in the middle of a write. *)
Crash ==
    /\ up /\ kills < MaxKills
    /\ up' = FALSE /\ kills' = kills + 1
    /\ \/ UNCHANGED records
       \/ /\ completing = <<>> /\ ~failed
          /\ \E m \in 1..WalBatchMax :
             m <= Len(submissions) /\ records' = records \o Records(SubSeq(submissions, 1, m))
    /\ UNCHANGED <<memory, allowed, ops>>

(* Mutant: recovery loses the last record of the log. *)
RecoveredShort == Replay(SubSeq(records, 1, Len(records) - 1))

Recovered == Replay(records)

(* main: recover the table from the log, then start the workers. *)
Restart ==
    /\ ~up /\ up' = TRUE
    /\ table' = Recovered
    /\ pending' = NonePending /\ submissions' = <<>> /\ completing' = <<>>
    /\ error' = FALSE /\ failed' = FALSE /\ inbox' = NoCompletions
    /\ stop' = FALSE /\ draining' = {} /\ unhealthy' = FALSE
    /\ UNCHANGED <<records, allowed, ops, kills>>

-----------------------------------------------------------------------------
ServerNext ==
    \/ \E c \in Conns, r \in Mutation : SubmitMutation(c, r)
    \/ CommitBatch \/ Complete \/ \E w \in Workers : ApplyOne(w) \/ BeginDraining(w)
    \/ StopServer \/ Exit \/ Crash \/ Restart

ServerSpec == ServerInit /\ [][ServerNext]_serverVars

-----------------------------------------------------------------------------
ServerTypeOK ==
    /\ {up, error, failed, stop, unhealthy} \subseteq BOOLEAN
    /\ table \in [Keys -> Vals \cup {Absent}]
    /\ records \in Seq(Mutation) /\ Len(records) <= MaxOps
    /\ pending \in [Conns -> Mutation \cup {Idle}]
    /\ submissions \in Seq(Conns) /\ completing \in Seq(Conns)
    /\ inbox \in [Workers -> Seq(Report)]
    /\ draining \subseteq Workers
    /\ allowed \in [Keys -> SUBSET (Vals \cup {Absent})]
    /\ ops \in 0..MaxOps /\ kills \in 0..MaxKills

(* "A mutation is durable before it changes memory": what a GET can see of *)
(* a key is always some version of it that is in the log.                  *)
VisibleIsDurable ==
    up => \A k \in Keys : \E n \in 0..Len(records) : Get(k) = Replay(SubSeq(records, 1, n))[k]

(* A durable record the table refuses "must not let this process continue  *)
(* as if disk and RAM agree": once memory has missed a record, the workers *)
(* are told to stop.                                                       *)
DivergenceStops ==
    up /\ ~failed /\ (\A c \in Conns : pending[c] = Idle) /\ table # Replay(records) => stop

(* Memory is never ahead of the log, and if it falls behind for good the   *)
(* process stops.                                                          *)
MemorySafe == ServerTypeOK /\ VisibleIsDurable /\ DivergenceStops

(* An acknowledged write stays: for a key one client writes, the table of  *)
(* a serving process holds the last value reported OK, or a later one of   *)
(* unknown outcome, across crashes, failed writes, drains and restarts.    *)
AckedKept ==
    up => \A k \in Keys : (\E c \in Conns : Writers[k] = {c}) => Get(k) \in allowed[k]

(* With nothing outstanding, no disk error and no refused record, memory   *)
(* is what a restart would rebuild from the log.                           *)
Settled == up /\ ~failed /\ ~unhealthy /\ \A c \in Conns : pending[c] = Idle
RamMatchesReplay == Settled => table = Replay(records)
=============================================================================
