----------------------------- MODULE ShimProofs -----------------------------
(***************************************************************************)
(* Proofs about two more parts of a node's shim, which share no state.     *)
(*                                                                         *)
(* CatchUp: a data node routes by a topology the metadata group agreed on, *)
(* loses no gained shard without a trace, and never backfills into a       *)
(* destroyed engine, for any peers, shards, history of topologies, number  *)
(* of control-plane replicas and of coherence attempts.                    *)
(*                                                                         *)
(* Transport: what crosses the wire is whole, for any values, chunk size,  *)
(* limit of a unary call and number of writers.                            *)
(***************************************************************************)
EXTENDS CatchUp, Transport, SequenceTheorems, TLAPS

-----------------------------------------------------------------------------
(* Following the topology.                                                 *)

(* The records of the two threads: what FetchView carries between its two  *)
(* calls, and what CatchUpLoop carries between the steps of a scan.        *)
PollRecord ==
    [pc : {"start", "nodes", "shards", "publish", "done"},
     at : Replica, tried : Replica, attempt : 0..(MaxAttempts - 1),
     nodes : Range(History) \cup {None}, before : Range(History) \cup {None}]

WorkerRecord(wk) ==
    /\ wk = [pc |-> wk.pc, job |-> wk.job, source |-> wk.source, key |-> wk.key]
    /\ wk.pc \in {"idle", "run", "scan", "store", "done"}
    /\ wk.job \in [view : Range(History) \cup {None}, shards : SUBSET Shard]

RecordsOK == poll \in PollRecord /\ WorkerRecord(worker)

(* Publish has installed a view before it compares the shards. *)
PublishesView == poll.pc = "publish" => view # None

(* A worker without a job holds no shards, and only a joined worker lets   *)
(* the engine be destroyed.                                                *)
WorkerAtRest ==
    /\ worker.pc \in {"idle", "done"} => worker.job.shards = {}
    /\ phase = "destroyed" => worker.pc = "done"

FollowInv ==
    /\ TypeOK /\ RecordsOK /\ CoherentView /\ PublishesView /\ WorkerAtRest
    /\ BackfillAccounted

-----------------------------------------------------------------------------
(* A position of the history is one of its topologies. *)
LEMMA HistoryFacts ==
    ASSUME CatchUpConstants
    PROVE  /\ Len(History) \in Nat \ {0} /\ DOMAIN History = 1..Len(History)
           /\ \A i \in DOMAIN History : History[i] \in Range(History)
           /\ Range(History) \subseteq Topology
           /\ 0 \in Replica /\ None \notin Range(History) /\ None \notin Job
BY DEF CatchUpConstants, Range, Replica

(* FetchViewFrom: two answers with one fingerprint are one topology. *)
LEMMA CoherentIsServed ==
    ASSUME CatchUpConstants, NEW t \in Range(History), NEW u, Coherent(u, t)
    PROVE  Fetched(u, t) = t
BY HistoryFacts DEF Coherent, Fetched, Topology

(* FetchView: the next replica is tried, or the fetch starts afresh. *)
LEMMA NextReplicaTyped ==
    ASSUME CatchUpConstants, poll \in PollRecord, NextReplica
    PROVE  poll' \in PollRecord /\ poll'.pc \in {"start", "nodes"}
<1>1. Count \in Nat \ {0} /\ MaxAttempts \in Nat \ {0} /\ 0 \in 0..(MaxAttempts - 1)
  BY DEF CatchUpConstants
<1>2. poll.at \in Replica /\ poll.tried \in Replica
  BY DEF PollRecord
<1>3. (poll.at + 1) % Count \in Replica
  BY <1>1, <1>2 DEF Replica
<1>4. poll.tried + 1 < Count => poll.tried + 1 \in Replica
  BY <1>1, <1>2 DEF Replica
<1>5. 0 \in Replica
  BY <1>1 DEF Replica
<1> QED
  BY <1>1, <1>3, <1>4, <1>5 DEF NextReplica, Waiting, PollRecord

(* The poller, the worker and the shutdown start out in the invariant. *)
LEMMA FollowInit == ASSUME CatchUpConstants, Init PROVE FollowInv
<1> USE HistoryFacts
<1>1. TypeOK
  BY DEF Init, TypeOK, Waiting, Replica, CatchUpConstants
<1>2. RecordsOK
  BY DEF Init, RecordsOK, PollRecord, WorkerRecord, Waiting, Replica, CatchUpConstants, NoJob
<1> QED
  BY <1>1, <1>2 DEF Init, FollowInv, CoherentView, PublishesView, WorkerAtRest, BackfillAccounted, NoJob, Waiting

(* A replica applying a change touches neither thread. *)
LEMMA AdvanceInvariant ==
    ASSUME CatchUpConstants, FollowInv, NEW r \in Replica, Advance(r)
    PROVE  FollowInv'
<1>1. pos' \in [Replica -> DOMAIN History]
  BY HistoryFacts DEF FollowInv, TypeOK, Advance
<1> QED
  BY <1>1 DEF Advance, FollowInv, TypeOK, RecordsOK, CoherentView, PublishesView, WorkerAtRest,
     BackfillAccounted, Stopping

(* FetchView and FetchViewFrom, up to a coherent pair of answers. *)
LEMMA FetchInvariant ==
    ASSUME CatchUpConstants, FollowInv,
           StartFetch \/ PollerExits \/ FetchNodes \/ FetchFails \/ FetchIncoherent
    PROVE  FollowInv'
<1>1. UNCHANGED <<preferred, pos, view, pending, worker, phase, owed, replaced>>
  BY DEF StartFetch, PollerExits, FetchNodes, FetchFails, FetchIncoherent, Rest
<1>2. MaxAttempts \in Nat \ {0} /\ Count \in Nat \ {0}
  BY DEF CatchUpConstants
<1>3. poll' \in PollRecord /\ poll'.pc # "publish"
  <2>1. CASE StartFetch
    BY <2>1, <1>2, HistoryFacts DEF StartFetch, Waiting, PollRecord, FollowInv, TypeOK
  <2>2. CASE PollerExits
    BY <2>2, <1>2, HistoryFacts DEF PollerExits, Waiting, PollRecord
  <2>3. CASE FetchNodes
    BY <2>3, HistoryFacts DEF FetchNodes, PollRecord, FollowInv, TypeOK, RecordsOK
  <2>4. CASE FetchFails
    BY <2>4, NextReplicaTyped DEF FetchFails, FollowInv, RecordsOK
  <2>5. CASE FetchIncoherent
    <3>1. CASE TryAgain
      <4>1. poll.attempt + 1 \in 0..(MaxAttempts - 1)
        BY <3>1, <1>2 DEF TryAgain, PollRecord, FollowInv, RecordsOK
      <4>2. poll' = [poll EXCEPT !.pc = "nodes", !.attempt = @ + 1, !.nodes = None]
        BY <2>5, <3>1 DEF FetchIncoherent
      <4> QED
        BY <4>1, <4>2 DEF PollRecord, FollowInv, RecordsOK
    <3>2. CASE ~TryAgain
      BY <2>5, <3>2, NextReplicaTyped DEF FetchIncoherent, FollowInv, RecordsOK
    <3> QED
      BY <3>1, <3>2
  <2> QED
    BY <2>1, <2>2, <2>3, <2>4, <2>5
<1> QED
  BY <1>1, <1>3 DEF FollowInv, TypeOK, RecordsOK, PollRecord, CoherentView, PublishesView, WorkerAtRest,
     BackfillAccounted, Stopping

(* Publish installs the topology of the coherent pair. *)
LEMMA FetchCoherentInvariant ==
    ASSUME CatchUpConstants, FollowInv, FetchCoherent
    PROVE  FollowInv'
<1> DEFINE served == History[pos[poll.at]]
<1>1. served \in Range(History) /\ served # None
  BY HistoryFacts DEF FollowInv, TypeOK
<1>2. view' = served
  BY <1>1, CoherentIsServed DEF FetchCoherent
<1>3. preferred' \in Replica
  BY DEF FetchCoherent, FollowInv, TypeOK
<1>4. poll' = Waiting \/ poll' = [Waiting EXCEPT !.pc = "publish", !.before = view]
  BY DEF FetchCoherent
<1>5. view \in Range(History) \cup {None} /\ 0 \in 0..(MaxAttempts - 1)
  BY DEF FollowInv, CoherentView, CatchUpConstants
<1>6. poll' \in PollRecord
  <2>1. CASE poll' = Waiting
    BY <2>1, <1>5, HistoryFacts DEF Waiting, PollRecord
  <2>2. CASE poll' = [Waiting EXCEPT !.pc = "publish", !.before = view]
    BY <2>2, <1>5, HistoryFacts DEF Waiting, PollRecord
  <2> QED
    BY <1>4, <2>1, <2>2
<1> HIDE DEF served
<1> QED
  BY <1>1, <1>2, <1>3, <1>6 DEF FetchCoherent, FollowInv, TypeOK, RecordsOK, PollRecord, CoherentView, PublishesView,
     WorkerAtRest, BackfillAccounted, Stopping

(* The newest gains are pending, and what they replace is on record. *)
LEMMA PublishJobInvariant ==
    ASSUME CatchUpConstants, FollowInv, PublishJob
    PROVE  FollowInv'
<1>1. view \in Range(History) /\ Gained \subseteq Shard
  BY DEF FollowInv, CoherentView, PublishesView, PublishJob, Gained, Holds
<1>2. pending' = None \/ pending' \in Job
  BY <1>1 DEF PublishJob, NextPending, Job, FollowInv, TypeOK
<1>3. poll' \in PollRecord /\ poll'.pc = "start"
  BY HistoryFacts DEF PublishJob, CatchUpConstants, Waiting, PollRecord
<1>4. None \notin Job
  BY HistoryFacts
<1>5. TypeOK' /\ RecordsOK' /\ CoherentView' /\ PublishesView' /\ WorkerAtRest'
  <2>1. poll'.at \in Replica /\ poll'.tried \in Replica /\ poll'.attempt \in 0..(MaxAttempts - 1)
    BY <1>3 DEF PollRecord
  <2>2. UNCHANGED <<pos, preferred, view, worker, phase>> /\ owed' \subseteq Shard /\ replaced' \subseteq Shard
    BY <1>1 DEF PublishJob, FollowInv, TypeOK, Job
  <2> QED
    BY <1>2, <1>3, <2>1, <2>2 DEF FollowInv, TypeOK, RecordsOK, CoherentView, PublishesView, WorkerAtRest
<1>6. BackfillAccounted'
  <2> SUFFICES ASSUME NEW s \in owed', ~Stopping
               PROVE  \/ s \in replaced' \/ s \in worker.job.shards
                      \/ pending' # None /\ s \in pending'.shards
    BY DEF BackfillAccounted, PublishJob, Stopping
  <2>1. CASE s \in Gained
    <3>1. pending' = [view |-> view, shards |-> Gained]
      BY <2>1 DEF PublishJob, NextPending
    <3>2. [view |-> view, shards |-> Gained] \in Job
      BY <1>1 DEF Job
    <3> QED
      BY <2>1, <3>1, <3>2, <1>4
  <2>2. CASE s \notin Gained
    <3>1. s \in owed
      BY <2>2 DEF PublishJob
    <3>2. CASE s \in replaced \/ s \in worker.job.shards
      BY <3>2 DEF PublishJob
    <3>3. CASE pending # None /\ s \in pending.shards
      BY <3>3, <2>2 DEF PublishJob, NextPending
    <3> QED
      BY <3>1, <3>2, <3>3 DEF FollowInv, BackfillAccounted
  <2> QED
    BY <2>1, <2>2
<1> QED
  BY <1>5, <1>6 DEF FollowInv

(* RunCatchUp takes the pending job, without the shards nobody else holds. *)
LEMMA TakeJobInvariant ==
    ASSUME CatchUpConstants, FollowInv, TakeJob
    PROVE  FollowInv'
<1> DEFINE unsourced == {s \in pending.shards : Sources(pending.view, s) = <<>>}
<1> DEFINE left == pending.shards \ unsourced
<1>1. pending \in Job
  BY DEF FollowInv, TypeOK, TakeJob
<1>2. /\ worker.pc = "idle" /\ worker.job.shards = {} /\ phase = "run" /\ pending # None
      /\ worker' = [worker EXCEPT !.pc = "run", !.job = [pending EXCEPT !.shards = left]]
      /\ pending' = None /\ owed' = owed \ unsourced /\ replaced' = replaced \ unsourced
      /\ UNCHANGED <<pos, preferred, poll, view, phase>>
  BY DEF TakeJob, Tried, Stopping, FollowInv, WorkerAtRest
<1> HIDE DEF unsourced
<1>3. /\ [pending EXCEPT !.shards = left] \in [view : Range(History) \cup {None}, shards : SUBSET Shard]
      /\ [pending EXCEPT !.shards = left].shards = left
  BY <1>1 DEF Job
<1> HIDE DEF left
<1>4. WorkerRecord(worker') /\ worker'.pc = "run" /\ worker'.job.shards = left
  BY <1>2, <1>3 DEF FollowInv, RecordsOK, WorkerRecord
<1>5. TypeOK' /\ RecordsOK' /\ CoherentView' /\ PublishesView' /\ WorkerAtRest'
  BY <1>2, <1>4 DEF FollowInv, TypeOK, RecordsOK, WorkerRecord, CoherentView, PublishesView, WorkerAtRest
<1>6. BackfillAccounted'
  BY <1>2, <1>4 DEF left, FollowInv, BackfillAccounted, Stopping
<1> QED
  BY <1>5, <1>6 DEF FollowInv

(* CatchUpLoop and RunCatchUp leave a job that is done, or stopping. *)
LEMMA IdleInvariant ==
    ASSUME CatchUpConstants, FollowInv, Idle
    PROVE  FollowInv'
<1>1. WorkerRecord(worker') /\ worker'.pc \in {"done", "idle"} /\ worker'.job.shards = {}
  <2>1. CASE worker.pc = "idle" /\ worker' = [worker EXCEPT !.pc = "done"]
    BY <2>1 DEF FollowInv, RecordsOK, WorkerRecord, WorkerAtRest
  <2>2. CASE worker' = [worker EXCEPT !.pc = "idle", !.job = NoJob]
    <3>1. NoJob \in [view : Range(History) \cup {None}, shards : SUBSET Shard] /\ NoJob.shards = {}
      BY DEF NoJob
    <3> QED
      BY <2>2, <3>1 DEF FollowInv, RecordsOK, WorkerRecord
  <2> QED
    BY <2>1, <2>2 DEF Idle
<1>2. UNCHANGED <<pos, preferred, poll, view, pending, phase, owed, replaced>>
  BY DEF Idle
<1>3. phase # "run" \/ worker.job.shards = {}
  BY DEF Idle, FollowInv, WorkerAtRest, Stopping
<1>4. phase = "destroyed" => worker'.pc = "done"
  BY DEF Idle, FollowInv, WorkerAtRest
<1> QED
  BY <1>1, <1>2, <1>3, <1>4 DEF FollowInv, TypeOK, RecordsOK, WorkerRecord, CoherentView, PublishesView,
     WorkerAtRest, BackfillAccounted, Stopping

(* CatchUpFrom: a scan starts, or yields a key. *)
LEMMA ScanInvariant ==
    ASSUME CatchUpConstants, FollowInv, NEW s \in Shard, StartScan(s) \/ ScanKey(s)
    PROVE  FollowInv'
<1>1. /\ phase = "run"
      /\ UNCHANGED <<pos, preferred, poll, view, pending, phase, owed, replaced>>
  BY DEF StartScan, ScanKey, Stopping
<1>2. WorkerRecord(worker') /\ worker'.pc \in {"scan", "store"} /\ worker'.job = worker.job
  BY DEF StartScan, ScanKey, FollowInv, RecordsOK, WorkerRecord
<1> QED
  BY <1>1, <1>2 DEF FollowInv, TypeOK, RecordsOK, WorkerRecord, CoherentView, PublishesView,
     WorkerAtRest, BackfillAccounted, Stopping

(* A key is stored, or the scan ends: what leaves the job has been tried. *)
LEMMA ScannedInvariant ==
    ASSUME CatchUpConstants, FollowInv, StoreKey \/ ScanEnds
    PROVE  FollowInv'
<1>1. PICK done : /\ worker'.job.shards = worker.job.shards \ done
                  /\ WorkerRecord(worker') /\ worker'.pc \in {"scan", "run"}
                  /\ owed' = owed \ done /\ replaced' = replaced \ done
  <2>1. CASE StoreKey
    BY <2>1 DEF StoreKey, Tried, FollowInv, RecordsOK, WorkerRecord
  <2>2. CASE ScanEnds
    <3> DEFINE gone == ScanLeft
    <3>1. /\ worker' = [worker EXCEPT !.pc = "run", !.job.shards = @ \ gone, !.source = None]
          /\ owed' = owed \ gone /\ replaced' = replaced \ gone
      BY <2>2 DEF ScanEnds, Tried
    <3> HIDE DEF gone
    <3>2. worker'.job.shards = worker.job.shards \ gone /\ WorkerRecord(worker') /\ worker'.pc = "run"
      BY <3>1 DEF FollowInv, RecordsOK, WorkerRecord
    <3> QED
      BY <3>1, <3>2
  <2> QED
    BY <2>1, <2>2
<1>2. /\ worker.pc \in {"scan", "store"}
      /\ UNCHANGED <<pos, preferred, poll, view, pending, phase>>
  BY DEF StoreKey, ScanEnds
<1> QED
  BY <1>1, <1>2 DEF FollowInv, TypeOK, RecordsOK, WorkerRecord, CoherentView, PublishesView,
     WorkerAtRest, BackfillAccounted, Stopping

(* The shutdown: stopping_ is set, and the engine goes after both joins. *)
LEMMA ShutdownInvariant ==
    ASSUME CatchUpConstants, FollowInv, Signal \/ Destroy
    PROVE  FollowInv'
BY DEF Signal, Destroy, Joined, FollowInv, TypeOK, RecordsOK, CoherentView, PublishesView,
   WorkerAtRest, BackfillAccounted, Stopping

(* Every step of the node, the group and the shutdown. *)
LEMMA FollowNext ==
    ASSUME CatchUpConstants, FollowInv, [Next]_vars
    PROVE  FollowInv'
<1>1. CASE UNCHANGED vars
  BY <1>1 DEF vars, FollowInv, TypeOK, RecordsOK, CoherentView, PublishesView, WorkerAtRest,
     BackfillAccounted, Stopping
<1>2. CASE \E r \in Replica : Advance(r)
  BY <1>2, AdvanceInvariant
<1>3. CASE Work
  BY <1>3, FetchInvariant, FetchCoherentInvariant, PublishJobInvariant DEF Work
<1>4. CASE CatchUpWork
  BY <1>4, TakeJobInvariant, IdleInvariant, ScanInvariant, ScannedInvariant DEF CatchUpWork
<1>5. CASE Signal \/ Destroy
  BY <1>5, ShutdownInvariant
<1> QED
  BY <1>1, <1>2, <1>3, <1>4, <1>5 DEF Next

(* The invariant holds in every reachable state. *)
LEMMA Invariance == ASSUME CatchUpConstants PROVE Spec => []FollowInv
<1>1. Init => FollowInv
  BY FollowInit
<1>2. FollowInv /\ [Next]_vars => FollowInv'
  BY FollowNext
<1> QED
  BY <1>1, <1>2, PTL DEF Spec

(* The view the poller publishes is one the group agreed on although its   *)
(* halves are fetched in two calls, and no scan stores into an engine that *)
(* is destroyed.                                                           *)
THEOREM ViewIsSafe == ASSUME CatchUpConstants PROVE Spec => []ViewSafe
<1>1. FollowInv => ViewSafe
  BY DEF FollowInv, ViewSafe, WorkerAtRest, EngineAlive
<1> QED
  BY <1>1, Invariance, PTL

(* A gained shard that nothing has tried to backfill is in a job, or its   *)
(* pending job was replaced, or the node is stopping.                      *)
THEOREM BackfillIsAccounted == ASSUME CatchUpConstants PROVE Spec => []BackfillAccounted
<1>1. FollowInv => BackfillAccounted
  BY DEF FollowInv
<1> QED
  BY <1>1, Invariance, PTL

-----------------------------------------------------------------------------
(* The wire.                                                               *)

(* How many bytes of a value its first n chunks carry. *)
Carried(value, n) == Min({n * ChunkSize, Len(value)})

(* What the receiver of the first n chunks holds. *)
Leading(value, n) == SubSeq(value, 1, Carried(value, n))

(* PutChunked: the handler's buffer is what the frames so far carry, and   *)
(* only a call that asks for no acks streams.                              *)
PutRecord ==
    [pc : {"idle", "call", "stream", "ok", "error"}, value : Values \cup {<<>>}, acks : {0, 1},
     sent : Nat, buffer : Seq(Byte), wrote : BOOLEAN, acked : {0, 1}]

PutInv(call) ==
    /\ call \in PutRecord
    /\ call.pc \in {"call", "stream"} => call.value \in Values
    /\ call.pc = "call" => call.sent = 0 /\ call.buffer = <<>> /\ call.acked = 0
    /\ call.pc = "stream" => call.acks = 0 /\ call.acked = 0 /\ call.buffer = Leading(call.value, call.sent)
    /\ call.pc = "ok" => call.wrote = TRUE /\ call.acked >= call.acks

(* GetChunked: the reader's buffer is what the frames so far carry of the  *)
(* value that was taken when the stream opened.                            *)
GetRecord ==
    [pc : {"idle", "unary", "open", "stream", "found", "miss", "failed"}, auto : BOOLEAN,
     source : Values \cup {<<>>}, received : Nat, out : Seq(Byte) \cup {NoValue}]

GetInv ==
    /\ get \in GetRecord
    /\ get.pc = "stream" =>
          /\ get.source \in Values \cap during
          /\ get.out = Leading(get.source, get.received)
    /\ get.pc \in {"unary", "open"} => get.received = 0
    /\ get.pc = "found" => get.out \in during
    /\ get.pc = "miss" => NoValue \in during

(* The key's present value is one it has had during the reader's call. *)
StoredInv == stored \in Values \cup {NoValue} /\ stored \in during

WireInv ==
    /\ put \in [Writer -> PutRecord] /\ \A w \in Writer : PutInv(put[w])
    /\ GetInv /\ StoredInv

-----------------------------------------------------------------------------
(* The smaller of two numbers. *)
LEMMA MinOfTwo ==
    ASSUME NEW m \in Int, NEW n \in Int
    PROVE  Min({m, n}) = IF m <= n THEN m ELSE n
<1> DEFINE least == IF m <= n THEN m ELSE n
<1>1. least \in {m, n} /\ \A y \in {m, n} : least <= y
  OBVIOUS
<1>2. \A x \in {m, n} : (\A y \in {m, n} : x <= y) => x = least
  OBVIOUS
<1>3. Min({m, n}) \in {m, n} /\ \A y \in {m, n} : Min({m, n}) <= y
  BY <1>1 DEF Min
<1> QED
  BY <1>2, <1>3

(* TotalChunks rounds up: every chunk before the last one is full, so the   *)
(* i-th chunk starts inside the value.                                     *)
LEMMA ChunkStarts ==
    ASSUME TransportConstants, NEW len \in Nat, NEW i \in Nat, i < TotalChunks(len)
    PROVE  i * ChunkSize \in 0..len
<1>1. ChunkSize \in Nat /\ ChunkSize > 0
  BY DEF TransportConstants
<1>2. CASE len = 0
  BY <1>1, <1>2 DEF TotalChunks
<1>3. CASE len # 0
  <2>1. i <= (len - 1) \div ChunkSize
    BY <1>1, <1>3 DEF TotalChunks
  <2>2. ChunkSize * ((len - 1) \div ChunkSize) <= len - 1
    BY <1>1, <1>3
  <2> QED
    BY <1>1, <1>3, <2>1, <2>2
<1> QED
  BY <1>2, <1>3

(* No bytes have been carried before the first frame. *)
LEMMA NothingCarried ==
    ASSUME TransportConstants, NEW v \in Values
    PROVE  Leading(v, 0) = <<>>
<1>1. v \in Seq(Byte) /\ ChunkSize \in Nat
  BY DEF TransportConstants
<1>2. Carried(v, 0) = 0
  BY <1>1, MinOfTwo, LenProperties DEF Carried
<1> QED
  BY <1>2, SubSeqEmpty DEF Leading

(* A frame that is taken in order extends what has been carried by one      *)
(* chunk.                                                                  *)
LEMMA FrameExtends ==
    ASSUME TransportConstants, NEW v \in Values, NEW i \in Nat, i < TotalChunks(Len(v))
    PROVE  Leading(v, i) \o Frame(v, i).data = Leading(v, i + 1)
<1>1. v \in Seq(Byte) /\ Len(v) \in Nat /\ ChunkSize \in Nat \ {0}
  BY LenProperties DEF TransportConstants
<1>2. i * ChunkSize \in 0..Len(v) /\ (i + 1) * ChunkSize = i * ChunkSize + ChunkSize
  BY <1>1, ChunkStarts
<1> DEFINE from == i * ChunkSize
<1> DEFINE upto == Min({(i + 1) * ChunkSize, Len(v)})
<1>3. upto \in from..Len(v) /\ Min({from, Len(v)}) = from
  <2> HIDE DEF from
  <2>1. from \in 0..Len(v) /\ (i + 1) * ChunkSize = from + ChunkSize
    BY <1>2 DEF from
  <2>2. Min({from, Len(v)}) = from
    BY <1>1, <2>1, MinOfTwo
  <2>3. Min({from + ChunkSize, Len(v)}) = IF from + ChunkSize <= Len(v) THEN from + ChunkSize ELSE Len(v)
    BY <1>1, <2>1, MinOfTwo
  <2>4. upto = Min({from + ChunkSize, Len(v)})
    BY <2>1
  <2> HIDE DEF upto
  <2> QED
    BY <1>1, <2>1, <2>2, <2>3, <2>4
<1>4. Frame(v, i).data = SubSeq(v, from + 1, upto)
  BY DEF Frame
<1>5. Leading(v, i) = SubSeq(v, 1, from) /\ Leading(v, i + 1) = SubSeq(v, 1, upto)
  BY <1>3 DEF Leading, Carried
<1>6. from \in 0..Len(v)
  BY <1>2
<1> HIDE DEF from, upto
<1>7. SubSeq(v, 1, from) \o SubSeq(v, from + 1, upto) = SubSeq(v, 1, upto)
  <2>1. 1 \in 1..(Len(v) + 1) /\ from \in (1 - 1)..Len(v) /\ upto \in from..Len(v)
    BY <1>1, <1>3, <1>6
  <2> QED
    BY <1>1, <2>1, ConcatAdjacentSubSeq
<1> QED
  BY <1>4, <1>5, <1>7

(* What has been carried are bytes. *)
LEMMA LeadingTyped ==
    ASSUME TransportConstants, NEW v \in Values, NEW i \in Nat
    PROVE  /\ Carried(v, i) \in 0..Len(v)
           /\ Leading(v, i) \in Seq(Byte) /\ Len(Leading(v, i)) = Carried(v, i)
<1>1. v \in Seq(Byte) /\ Len(v) \in Nat /\ ChunkSize \in Nat \ {0}
  BY LenProperties DEF TransportConstants
<1>2. i * ChunkSize \in Nat
  BY <1>1
<1>3. Carried(v, i) \in 0..Len(v)
  BY <1>1, <1>2, MinOfTwo DEF Carried
<1>4. \A j \in 1..Carried(v, i) : v[j] \in Byte
  BY <1>1, <1>3, ElementOfSeq
<1> QED
  BY <1>1, <1>3, <1>4, SubSeqProperties DEF Leading

(* What has been carried is the whole value as soon as it is as long. *)
LEMMA AllCarried ==
    ASSUME TransportConstants, NEW v \in Values, NEW i \in Nat, Len(Leading(v, i)) = Len(v)
    PROVE  Leading(v, i) = v
<1>1. v \in Seq(Byte)
  BY DEF TransportConstants
<1> QED
  BY <1>1, LeadingTyped, SubSeqFull DEF Leading

-----------------------------------------------------------------------------
(* Nothing is stored and nobody calls. *)
LEMMA WireInit == ASSUME TransportConstants, TransportInit PROVE WireInv
<1>1. <<>> \in Seq(Byte)
  OBVIOUS
<1> QED
  BY <1>1 DEF TransportInit, WireInv, PutInv, PutRecord, GetInv, GetRecord, StoredInv, IdlePut, IdleGet

(* A writer's step replaces its own call, and stores nothing but a value   *)
(* that it was given.                                                      *)
WriterStep(w) ==
    /\ \E call : put' = [put EXCEPT ![w] = call] /\ PutInv(call)
    /\ get' = get
    /\ \/ UNCHANGED <<stored, during>>
       \/ \E v \in Values : Store(v)

(* Such a step keeps the invariant. *)
LEMMA WriterStepInvariant ==
    ASSUME TransportConstants, WireInv, NEW w \in Writer, WriterStep(w)
    PROVE  WireInv'
<1>1. put' \in [Writer -> PutRecord] /\ \A v \in Writer : PutInv(put'[v])
  <2>1. PICK call : put' = [put EXCEPT ![w] = call] /\ PutInv(call)
    BY DEF WriterStep
  <2> QED
    BY <2>1 DEF WireInv, PutInv
<1>2. stored' \in Values \cup {NoValue} /\ stored' \in during' /\ during \subseteq during'
  BY DEF WriterStep, Store, WireInv, StoredInv
<1> QED
  BY <1>1, <1>2 DEF WriterStep, WireInv, GetInv, StoredInv

(* A failed call leaves nothing to be judged. *)
LEMMA FailedCall == PutInv([IdlePut EXCEPT !.pc = "error"])
<1>1. <<>> \in Seq(Byte)
  OBVIOUS
<1> QED
  BY <1>1 DEF PutInv, PutRecord, IdlePut

(* Every step of a writer is such a step. *)
LEMMA PutStepWrites ==
    ASSUME TransportConstants, WireInv, NEW w \in Writer, PutStep(w)
    PROVE  WriterStep(w)
<1> DEFINE call == put[w]
<1>1. PutInv(call) /\ put \in [Writer -> PutRecord]
  BY DEF WireInv
<1>2. Fails(w) => \E c : put' = [put EXCEPT ![w] = c] /\ PutInv(c)
  BY FailedCall DEF Fails
<1>3. CASE PutStart(w)
  <2>1. PICK v \in Values, a \in {0, 1} :
            put' = [put EXCEPT ![w] = [IdlePut EXCEPT !.pc = "call", !.value = v, !.acks = a]]
    BY <1>3 DEF PutStart
  <2>2. PutInv([IdlePut EXCEPT !.pc = "call", !.value = v, !.acks = a])
    <3>1. <<>> \in Seq(Byte)
      OBVIOUS
    <3> QED
      BY <3>1 DEF PutInv, PutRecord, IdlePut
  <2> QED
    BY <1>3, <2>1, <2>2 DEF PutStart, WriterStep
<1>4. CASE PutUnary(w)
  <2>1. call.value \in Values
    BY <1>1, <1>4 DEF PutUnary, PutInv
  <2>2. CASE put' = [put EXCEPT ![w].pc = "ok", ![w].wrote = TRUE, ![w].acked = put[w].acks]
    <3> DEFINE new == [call EXCEPT !.pc = "ok", !.wrote = TRUE, !.acked = put[w].acks]
    <3>1. put' = [put EXCEPT ![w] = new]
      BY <2>2, <1>1
    <3>2. /\ new \in PutRecord /\ new.pc = "ok" /\ new.wrote = TRUE
          /\ new.acked = call.acks /\ new.acks = call.acks /\ call.acks \in {0, 1}
      BY <1>1 DEF PutInv, PutRecord
    <3>3. PutInv(new)
      <4> HIDE DEF new
      <4> QED
        BY <3>2 DEF PutInv
    <3> QED
      BY <1>4, <2>1, <3>1, <3>3 DEF PutUnary, WriterStep
  <2> QED
    BY <1>2, <1>4, <2>1, <2>2 DEF PutUnary, WriterStep
<1>5. CASE PutRefused(w)
  BY <1>2, <1>5 DEF PutRefused, WriterStep
<1>6. CASE PutOpen(w)
  <2> DEFINE new == [call EXCEPT !.pc = "stream"]
  <2>1. put' = [put EXCEPT ![w] = new]
    BY <1>6, <1>1 DEF PutOpen
  <2>2. PutInv(new)
    BY <1>6, <1>1, NothingCarried DEF PutInv, PutRecord, PutOpen, MayStream
  <2> QED
    BY <1>6, <2>1, <2>2 DEF PutOpen, WriterStep
<1>7. CASE PutFrame(w)
  <2> DEFINE frame == Frame(call.value, call.sent)
  <2> DEFINE new == [call EXCEPT !.sent = @ + 1, !.buffer = @ \o frame.data]
  <2>1. CASE put' = [put EXCEPT ![w].sent = @ + 1, ![w].buffer = @ \o frame.data]
    <3>1. put' = [put EXCEPT ![w] = new]
      BY <2>1, <1>1
    <3>2. /\ call.pc = "stream" /\ call.value \in Values /\ call.sent \in Nat
          /\ call.sent < TotalChunks(Len(call.value))
      BY <1>1, <1>7 DEF PutFrame, PutInv, PutRecord
    <3>3. call.buffer \o frame.data = Leading(call.value, call.sent + 1)
      <4>1. call.buffer = Leading(call.value, call.sent)
        BY <1>1, <3>2 DEF PutInv
      <4> QED
        BY <3>2, <4>1, FrameExtends
    <3>4. Leading(call.value, call.sent + 1) \in Seq(Byte)
      <4>1. call.sent + 1 \in Nat
        BY <3>2
      <4> QED
        BY <3>2, <4>1, LeadingTyped
    <3> DEFINE longer == call.buffer \o frame.data
    <3>5. longer = Leading(call.value, call.sent + 1) /\ longer \in Seq(Byte)
      BY <3>3, <3>4
    <3> HIDE DEF longer
    <3>6. new = [call EXCEPT !.sent = @ + 1, !.buffer = longer]
      BY DEF longer
    <3> HIDE DEF frame, new
    <3>7. /\ new \in PutRecord /\ new.pc = "stream" /\ new.sent = call.sent + 1
          /\ new.buffer = longer /\ new.value = call.value
          /\ new.acks = call.acks /\ new.acked = call.acked
      <4>1. call \in PutRecord /\ longer \in Seq(Byte)
        BY <1>1, <3>5 DEF PutInv
      <4> DEFINE more == call.sent + 1
      <4>2. more \in Nat /\ more = call.sent + 1
        BY <3>2
      <4>3. new = [call EXCEPT !.sent = more, !.buffer = longer]
        BY <3>6
      <4> HIDE DEF call, more
      <4>4. /\ new \in PutRecord /\ new.pc = call.pc /\ new.sent = more
            /\ new.buffer = longer /\ new.value = call.value
            /\ new.acks = call.acks /\ new.acked = call.acked
        BY <4>1, <4>2, <4>3 DEF PutRecord
      <4> QED
        BY <3>2, <4>2, <4>4
    <3>8. PutInv(new)
      BY <1>1, <3>2, <3>5, <3>7 DEF PutInv
    <3> QED
      BY <1>7, <3>1, <3>8 DEF PutFrame, WriterStep
  <2> QED
    BY <1>2, <1>7, <2>1 DEF PutFrame, WriterStep
<1>8. CASE PutEnd(w)
  <2>1. call.pc = "stream" /\ call.value \in Values
    BY <1>1, <1>8 DEF PutEnd, PutInv
  <2>2. Complete(call) => call.buffer = call.value
    BY <1>1, <2>1, AllCarried DEF Complete, PutInv, PutRecord
  <2>3. CASE put' = [put EXCEPT ![w].pc = "ok", ![w].wrote = TRUE]
    <3> DEFINE new == [call EXCEPT !.pc = "ok", !.wrote = TRUE]
    <3>1. put' = [put EXCEPT ![w] = new]
      BY <2>3, <1>1
    <3>2. /\ new \in PutRecord /\ new.pc = "ok" /\ new.wrote = TRUE
          /\ new.acked = call.acked /\ new.acks = call.acks
      BY <1>1 DEF PutInv, PutRecord
    <3>3. PutInv(new)
      <4>1. call.acks = 0 /\ call.acked = 0
        BY <1>1, <2>1 DEF PutInv
      <4> HIDE DEF new
      <4> QED
        BY <3>2, <4>1 DEF PutInv
    <3> QED
      BY <1>8, <2>1, <2>2, <3>1, <3>3 DEF PutEnd, WriterStep
  <2> QED
    BY <1>2, <1>8, <2>1, <2>2, <2>3 DEF PutEnd, WriterStep
<1> QED
  BY <1>3, <1>4, <1>5, <1>6, <1>7, <1>8 DEF PutStep

(* Every step of the reader. *)
LEMMA GetStepInvariant ==
    ASSUME TransportConstants, WireInv, GetStart \/ getUnary \/ GetOpen \/ getChunked \/ GetEnd
    PROVE  WireInv'
<1>0. Values \subseteq Seq(Byte) /\ <<>> \in Seq(Byte)
  BY DEF TransportConstants
<1>1. stored' = stored /\ put' = put
  BY DEF GetStart, getUnary, GetOpen, getChunked, GetEnd
<1>2. StoredInv'
  BY <1>1 DEF GetStart, getUnary, GetOpen, getChunked, GetEnd, WireInv, StoredInv
<1>3. ASSUME NEW outcome \in {"found", "miss", "failed"}, NEW v \in Seq(Byte) \cup {NoValue}, Ends(outcome, v), during' = during,
             outcome = "found" => v \in during, outcome = "miss" => NoValue \in during
      PROVE  GetInv'
  BY <1>3 DEF Ends, GetInv, GetRecord, IdleGet
<1>4. ASSUME GetFails, during' = during PROVE GetInv'
  BY <1>3, <1>4 DEF GetFails
<1>5. ASSUME Missed, stored = NoValue, during' = during PROVE GetInv'
  BY <1>3, <1>5 DEF Missed, WireInv, StoredInv
<1>6. ASSUME NEW v \in during \cap Seq(Byte), Got(v), during' = during PROVE GetInv'
  BY <1>3, <1>6 DEF Got
<1>7. GetInv'
  <2>1. CASE GetStart
    <3>1. PICK auto \in BOOLEAN, pc \in {"unary", "open"} : get' = [IdleGet EXCEPT !.pc = pc, !.auto = auto]
      BY <2>1 DEF GetStart
    <3>2. get' \in GetRecord /\ get'.pc \in {"unary", "open"} /\ get'.received = 0
      BY <3>1 DEF GetRecord, IdleGet
    <3> QED
      BY <3>2 DEF GetInv
  <2>2. CASE getUnary
    <3>1. CASE get' = [get EXCEPT !.pc = "open"]
      BY <2>2, <3>1 DEF getUnary, WireInv, GetInv, GetRecord
    <3> QED
      BY <2>2, <3>1, <1>0, <1>4, <1>5, <1>6 DEF getUnary, WireInv, StoredInv
  <2>3. CASE GetOpen
    <3>1. CASE stored # NoValue /\ get' = [get EXCEPT !.pc = "stream", !.source = stored, !.out = <<>>]
      BY <2>3, <3>1, <1>0, NothingCarried DEF GetOpen, WireInv, GetInv, GetRecord, StoredInv
    <3> QED
      BY <2>3, <3>1, <1>4, <1>5 DEF GetOpen
  <2>4. CASE getChunked
    <3> DEFINE frame == Frame(Served, get.received)
    <3>1. CASE get' = [get EXCEPT !.received = @ + 1, !.out = @ \o frame.data]
      <4>1. /\ get.pc = "stream" /\ get.source \in Values \cap during /\ get.received \in Nat
            /\ get.received < TotalChunks(Len(get.source)) /\ get.out = Leading(get.source, get.received)
        BY <2>4 DEF getChunked, Served, WireInv, GetInv, GetRecord
      <4>2. get.out \o frame.data = Leading(get.source, get.received + 1)
        BY <4>1, FrameExtends DEF Served
      <4>3. Leading(get.source, get.received + 1) \in Seq(Byte) /\ during' = during
        BY <2>4, <4>1, LeadingTyped DEF getChunked
      <4> DEFINE longer == get.out \o frame.data
      <4>4. longer = Leading(get.source, get.received + 1) /\ longer \in Seq(Byte)
        BY <4>2, <4>3
      <4>5. get' = [get EXCEPT !.received = @ + 1, !.out = longer]
        BY <3>1
      <4> HIDE DEF frame, longer
      <4>6. /\ get' \in GetRecord /\ get'.pc = "stream" /\ get'.source = get.source
            /\ get'.received = get.received + 1 /\ get'.out = longer
        <5>1. get \in GetRecord /\ longer \in Seq(Byte)
          BY <4>4 DEF WireInv, GetInv
        <5> DEFINE more == get.received + 1
        <5>2. more \in Nat /\ more = get.received + 1
          BY <4>1
        <5>3. get' = [get EXCEPT !.received = more, !.out = longer]
          BY <4>5
        <5> HIDE DEF more
        <5>4. /\ get' \in GetRecord /\ get'.pc = get.pc /\ get'.source = get.source
              /\ get'.received = more /\ get'.out = longer
          BY <5>1, <5>2, <5>3 DEF GetRecord
        <5> QED
          BY <4>1, <5>2, <5>4
      <4> QED
        BY <4>1, <4>3, <4>4, <4>6 DEF GetInv
    <3> QED
      BY <2>4, <3>1, <1>4 DEF getChunked
  <2>5. CASE GetEnd
    <3>1. CASE Len(get.out) = Len(get.source) /\ Got(get.out)
      <4>1. get.out \in during \cap Seq(Byte)
        BY <2>5, <3>1, <1>0, AllCarried DEF GetEnd, WireInv, GetInv, GetRecord
      <4> QED
        BY <2>5, <3>1, <4>1, <1>6 DEF GetEnd
    <3> QED
      BY <2>5, <3>1, <1>4 DEF GetEnd
  <2> QED
    BY <2>1, <2>2, <2>3, <2>4, <2>5
<1> QED
  BY <1>1, <1>2, <1>7 DEF WireInv

(* Every step of the writers, the reader and the engine. *)
LEMMA WireNext ==
    ASSUME TransportConstants, WireInv, [TransportNext]_transportVars
    PROVE  WireInv'
<1>1. CASE UNCHANGED transportVars
  BY <1>1 DEF transportVars, WireInv, GetInv, StoredInv
<1>2. CASE \E w \in Writer : PutStep(w)
  BY <1>2, PutStepWrites, WriterStepInvariant
<1>3. CASE GetStart \/ getUnary \/ GetOpen \/ getChunked \/ GetEnd
  BY <1>3, GetStepInvariant
<1>4. CASE Evict
  BY <1>4 DEF Evict, WireInv, GetInv, StoredInv
<1> QED
  BY <1>1, <1>2, <1>3, <1>4 DEF TransportNext

(* A read returns a value the key had during the call, byte for byte; only *)
(* whole values are stored; and an acknowledged write was stored by as     *)
(* many replicas as it asked for.                                          *)
THEOREM WireIsExact == ASSUME TransportConstants PROVE TransportSpec => []WireExact
<1>1. TransportInit => WireInv
  BY WireInit
<1>2. WireInv /\ [TransportNext]_transportVars => WireInv'
  BY WireNext
<1>3. WireInv => WireExact
  BY DEF WireInv, GetInv, StoredInv, PutInv, WireExact
<1> QED
  BY <1>1, <1>2, <1>3, PTL DEF TransportSpec
=============================================================================
