------------------------------ MODULE CatchUp ------------------------------
(***************************************************************************)
(* How one data node follows the cluster (ReplicationManager in            *)
(* node/grpc_shim/main.cpp): the poller that reads a coherent topology     *)
(* from one of the control-plane replicas and publishes it, the worker     *)
(* that backfills the shards the node has gained, and the shutdown that    *)
(* joins both before the engine is destroyed.                              *)
(*                                                                         *)
(* The metadata group is its history of topologies and the position every  *)
(* replica has applied; replicas lag, answer or fail.  A topology is the   *)
(* set of live peers and the owners of each shard, and its fingerprint is  *)
(* its content.  A shard has one key.                                      *)
(***************************************************************************)
EXTENDS Integers, Sequences, FiniteSetsExt, Functions

CONSTANTS Self, Peer, Shard,
          None,
          Count,       \* number of control-plane replicas, metadata_.size()
          History,     \* the topologies the metadata group agrees on, in order
          MaxAttempts  \* kMaxCoherenceAttempts

Topology == [live : SUBSET Peer, owners : [Shard -> Seq(Peer \cup {Self})]]

(* CatchUpJob: the view it was made from, and the shards to backfill. *)
Job == [view : Range(History), shards : SUBSET Shard]

(* What the constants must be. *)
CatchUpConstants ==
    /\ Self \notin Peer /\ IsFiniteSet(Peer) /\ IsFiniteSet(Shard)
    /\ None \notin Peer /\ Count \in Nat \ {0} /\ MaxAttempts \in Nat \ {0}
    /\ History \in Seq(Topology) /\ History # <<>> /\ None \notin Range(History) \cup Job

VARIABLES
    pos,        \* pos[r]: the position in History replica r answers from
    preferred,  \* preferred_metadata_
    poll,       \* the poller: where it is, and what it has read
    view,       \* view_, or None
    pending,    \* pending_catch_up_, or None
    worker,     \* the catch-up thread: the job it runs and the scan it is in
    phase,      \* the shutdown of the process
    owed,       \* history: the gained shards no backfill has tried yet
    replaced    \* history: the gained shards whose pending job was replaced

vars == <<pos, preferred, poll, view, pending, worker, phase, owed, replaced>>

Replica == 0..(Count - 1)
NoJob == [view |-> None, shards |-> {}]

(* BuildView: what this node needs to know of a topology. *)
Holds(t) == {s \in Shard : Self \in Range(t.owners[s])}
Sources(t, s) == SelectSeq(t.owners[s], LAMBDA p : p # Self /\ p \in t.live)

Waiting == [pc |-> "start", at |-> 0, tried |-> 0, attempt |-> 0, nodes |-> None, before |-> None]

Init ==
    /\ pos = [r \in Replica |-> 1] /\ preferred = 0
    /\ poll = Waiting
    /\ view = None /\ pending = None
    /\ worker = [pc |-> "idle", job |-> NoJob, source |-> None, key |-> None]
    /\ phase = "run" /\ owed = {} /\ replaced = {}

Stopping == phase # "run"

(* A replica applies the next committed change. *)
Advance(r) ==
    /\ pos[r] < Len(History)
    /\ pos' = [pos EXCEPT ![r] = @ + 1]
    /\ UNCHANGED <<preferred, poll, view, pending, worker, phase, owed, replaced>>

-----------------------------------------------------------------------------
(* PollLoop, FetchView and FetchViewFrom. *)
Rest == <<pos, view, pending, worker, phase, owed, replaced>>

(* FetchView starts with the replica that answered last. *)
StartFetch ==
    /\ poll.pc = "start" /\ ~Stopping
    /\ poll' = [Waiting EXCEPT !.pc = "nodes", !.at = preferred]
    /\ UNCHANGED <<preferred, Rest>>

(* WaitOrStop sees stopping_. *)
PollerExits ==
    /\ poll.pc \in {"start", "nodes"} /\ Stopping
    /\ poll' = [Waiting EXCEPT !.pc = "done"]
    /\ UNCHANGED <<preferred, Rest>>

(* Mutant: a fetch that failed on every replica ends the loop. *)
NextReplicaOrExit ==
    poll' = IF poll.tried + 1 < Count
            THEN [Waiting EXCEPT !.pc = "nodes", !.at = (poll.at + 1) % Count, !.tried = poll.tried + 1]
            ELSE [Waiting EXCEPT !.pc = "done"]

(* The next replica is tried; after the last one the fetch has failed. *)
NextReplica ==
    poll' = IF poll.tried + 1 < Count
            THEN [Waiting EXCEPT !.pc = "nodes", !.at = (poll.at + 1) % Count, !.tried = poll.tried + 1]
            ELSE Waiting

FetchNodes ==
    /\ poll.pc = "nodes" /\ ~Stopping
    /\ poll' = [poll EXCEPT !.pc = "shards", !.nodes = History[pos[poll.at]]]
    /\ UNCHANGED <<preferred, Rest>>

(* An RPC of this attempt failed. *)
FetchFails ==
    /\ poll.pc \in {"nodes", "shards"} /\ ~(poll.pc = "nodes" /\ Stopping)
    /\ NextReplica
    /\ UNCHANGED <<preferred, Rest>>

(* Mutant: the two answers are trusted whatever their fingerprints. *)
CoherentAlways(nodes, shards) == TRUE

(* nodes.topology_fingerprint() = shards.topology_fingerprint() *)
Coherent(nodes, shards) == nodes = shards

Fetched(nodes, shards) == [live |-> nodes.live, owners |-> shards.owners]

TryAgain == poll.attempt + 1 < MaxAttempts

FetchIncoherent ==
    /\ poll.pc = "shards" /\ ~Coherent(poll.nodes, History[pos[poll.at]])
    /\ IF TryAgain
       THEN poll' = [poll EXCEPT !.pc = "nodes", !.attempt = @ + 1, !.nodes = None]
       ELSE NextReplica
    /\ UNCHANGED <<preferred, Rest>>

(* Publish, under view_mu_: only a topology that differs is installed. *)
FetchCoherent ==
    LET new == Fetched(poll.nodes, History[pos[poll.at]]) IN
    /\ poll.pc = "shards" /\ Coherent(poll.nodes, History[pos[poll.at]])
    /\ preferred' = poll.at
    /\ view' = new
    /\ poll' = IF view = new THEN Waiting ELSE [Waiting EXCEPT !.pc = "publish", !.before = view]
    /\ UNCHANGED <<pos, pending, worker, phase, owed, replaced>>

(* The shards this node did not hold before. *)
Gained == Holds(view) \ (IF poll.before = None THEN {} ELSE Holds(poll.before))

(* Mutant: a pending job is never replaced. *)
NextPendingOldest ==
    IF Gained = {} \/ pending # None THEN pending ELSE [view |-> view, shards |-> Gained]

(* One pending job, the newest that gained a shard. *)
NextPending == IF Gained = {} THEN pending ELSE [view |-> view, shards |-> Gained]

(* The rest of Publish, under state_mu_. *)
PublishJob ==
    /\ poll.pc = "publish"
    /\ pending' = NextPending
    /\ owed' = (owed \cap Holds(view)) \cup Gained
    /\ replaced' = replaced \cup (IF pending # None /\ Gained # {} THEN pending.shards \ Gained ELSE {})
    /\ poll' = Waiting
    /\ UNCHANGED <<pos, preferred, view, worker, phase>>

-----------------------------------------------------------------------------
(* CatchUpLoop, RunCatchUp and CatchUpFrom. *)
SourceOf(s) == Head(Sources(worker.job.view, s))
ScanLeft == {s \in worker.job.shards : SourceOf(s) = worker.source}

Tried(shards) == owed' = owed \ shards /\ replaced' = replaced \ shards

(* A shard that nobody else holds needs no scan. *)
TakeJob ==
    LET unsourced == {s \in pending.shards : Sources(pending.view, s) = <<>>} IN
    /\ worker.pc = "idle" /\ ~Stopping /\ pending # None
    /\ worker' = [worker EXCEPT !.pc = "run", !.job = [pending EXCEPT !.shards = @ \ unsourced]]
    /\ pending' = None
    /\ Tried(unsourced)
    /\ UNCHANGED <<pos, preferred, poll, view, phase>>

WorkerExits == Stopping

Idle ==
    /\ \/ worker.pc = "idle" /\ WorkerExits /\ worker' = [worker EXCEPT !.pc = "done"]
       \/ worker.pc = "run" /\ (Stopping \/ worker.job.shards = {})
          /\ worker' = [worker EXCEPT !.pc = "idle", !.job = NoJob]
    /\ UNCHANGED <<pos, preferred, poll, view, pending, phase, owed, replaced>>

StartScan(s) ==
    /\ worker.pc = "run" /\ ~Stopping /\ s \in worker.job.shards
    /\ worker' = [worker EXCEPT !.pc = "scan", !.source = SourceOf(s)]
    /\ UNCHANGED <<pos, preferred, poll, view, pending, phase, owed, replaced>>

(* The stream yields a key of a wanted shard, unless stopping_ is seen. *)
ScanKey(s) ==
    /\ worker.pc = "scan" /\ ~Stopping /\ s \in ScanLeft
    /\ worker' = [worker EXCEPT !.pc = "store", !.key = s]
    /\ UNCHANGED <<pos, preferred, poll, view, pending, phase, owed, replaced>>

(* Its value is fetched and stored with pk_engine_put, or it is skipped. *)
StoreKey ==
    /\ worker.pc = "store"
    /\ worker' = [worker EXCEPT !.pc = "scan", !.key = None, !.job.shards = @ \ {worker.key}]
    /\ Tried({worker.key})
    /\ UNCHANGED <<pos, preferred, poll, view, pending, phase>>

(* The stream ends, breaks, reaches its deadline or is cancelled by a stop. *)
ScanEnds ==
    /\ worker.pc = "scan"
    /\ worker' = [worker EXCEPT !.pc = "run", !.job.shards = @ \ ScanLeft, !.source = None]
    /\ Tried(ScanLeft)
    /\ UNCHANGED <<pos, preferred, poll, view, pending, phase>>

-----------------------------------------------------------------------------
(* main after the signal, and ReplicationManager::Stop. *)
Signal ==
    /\ phase = "run" /\ phase' = "stopping"
    /\ UNCHANGED <<pos, preferred, poll, view, pending, worker, owed, replaced>>

Joined == poll.pc = "done" /\ worker.pc = "done"

Destroy ==
    /\ phase = "stopping" /\ Joined /\ phase' = "destroyed"
    /\ UNCHANGED <<pos, preferred, poll, view, pending, worker, owed, replaced>>

Work ==
    \/ StartFetch \/ PollerExits \/ FetchIncoherent \/ PublishJob
    \/ FetchNodes \/ FetchCoherent \/ FetchFails
CatchUpWork == TakeJob \/ Idle \/ StoreKey \/ ScanEnds \/ \E s \in Shard : StartScan(s) \/ ScanKey(s)

Next ==
    \/ \E r \in Replica : Advance(r)
    \/ Work \/ CatchUpWork \/ Signal \/ Destroy

Spec == Init /\ [][Next]_vars

(* Both threads run, scans have deadlines, replicas catch up, and a call   *)
(* to the metadata plane that is retried for ever succeeds at some time.   *)
FairSpec ==
    /\ Spec
    /\ WF_vars(Work) /\ SF_vars(FetchNodes) /\ SF_vars(FetchCoherent)
    /\ WF_vars(CatchUpWork) /\ WF_vars(Destroy)
    /\ \A r \in Replica : WF_vars(Advance(r))

-----------------------------------------------------------------------------
TypeOK ==
    /\ pos \in [Replica -> DOMAIN History] /\ preferred \in Replica
    /\ poll.pc \in {"start", "nodes", "shards", "publish", "done"}
    /\ poll.at \in Replica /\ poll.tried \in Replica /\ poll.attempt \in 0..(MaxAttempts - 1)
    /\ pending = None \/ pending \in Job
    /\ worker.pc \in {"idle", "run", "scan", "store", "done"}
    /\ phase \in {"run", "stopping", "destroyed"}
    /\ owed \subseteq Shard /\ replaced \subseteq Shard

(* FetchViewFrom: although the live nodes and the owners are read with two *)
(* calls, and the replica may apply changes in between, the topology this  *)
(* node routes by is one the group agreed on.                              *)
CoherentView == view = None \/ view \in Range(History)

(* The order of the shutdown (main, Stop): no catch-up scan, which stores  *)
(* into the engine, is running once the engine is destroyed.               *)
EngineAlive == worker.pc \in {"scan", "store"} => phase # "destroyed"

(* The view is one that existed, and no backfill outlives the engine. *)
ViewSafe == TypeOK /\ CoherentView /\ EngineAlive

(* Publish and RunCatchUp: a gained shard that the node still holds and no *)
(* backfill has tried is in the pending job, in the running job, or was in *)
(* a pending job that a newer one replaced.                                *)
BackfillAccounted ==
    \A s \in owed :
        \/ s \in replaced \/ s \in worker.job.shards
        \/ pending # None /\ s \in pending.shards
        \/ Stopping

(* Once the group is quiet, the node settles on its last topology, from    *)
(* whichever replica it reads.                                             *)
ViewSettles == <>[](Stopping \/ view = History[Len(History)])
=============================================================================
