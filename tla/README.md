# A TLA+ verification of PulseKV

PulseKV is two systems in one repository. **v1** (`src/src`, `src/include`) is a
single-host C key-value server: epoll workers, an in-memory table and a
group-commit write-ahead log. **v2** is a distributed cache for KV blocks: C
storage engines (`node/engine`) behind a C++ gRPC shim (`node/grpc_shim`), a Go
control plane with a Raft metadata group (`control`), Python adapters for
inference servers (`adapters`) and a semantic-context gateway (`gateway`).

This directory holds TLA+ modules for the parts whose correctness depends on
concurrency, ordering, crashes or limits, the TLC configurations that check them
on small instances, and TLAPS proofs of most of the safety properties for every
value of the constants. `PROJECT.json` lists the runs, the lines every definition stands for, one mutation of the code
per property that the property catches, and the hazards.

## 1. Inventory

| part | state | operations | what is hard |
|---|---|---|---|
| write-ahead log (`wal.c`) | queue, batch, file, sync point, sticky error, sequence counter | submit, take batch, write, fdatasync, complete, stop, recover | crashes between write and sync, torn tails, errors half-way through a batch, counter at its end |
| hand-off (`main.c`) | atomic completion stack, flag, eventfd, pending counts | push, signal, clear, detach, apply, close, drain | lost wakeups, objects freed while another thread holds them |
| connection (`main.c`) | rbuf, wbuf, parked mutation, epoll interest | read, decode, execute, flush, update interest, close | edge-triggered readiness, reply space reserved ahead |
| server (`main.c`, `hashtable.c`) | shared table, log, completions per worker | submit, commit, apply, reply, crash, restart, shutdown | log order against apply order |
| engine (`hashtable.c`, `tiering.c`) | index, LRU list, byte counts, spill files | set, get, peek, del, scan, evict, promote, purge | failures in the middle of eviction and promotion, stale files |
| shim, writes (`main.cpp`) | plan, background queue, ack fan-out | Put, PutChunked, forward, wait, stop | topology changes under a write, late acks, full queues |
| shim, catch-up (`main.cpp`) | topology view, pending job | poll, publish, scan, store, stop | incoherent reads, replaced jobs, shutdown order |
| bulk transport (`bulk.cc`) | connections, shared-memory buffers | Get, Put, stop | lost answers, fallback |
| metadata store (`metastore`) | Raft log, applied state, generation, readiness floor | apply, snapshot, restore, restart, propose, reconcile | stale leaders, replay after a restart |
| placement and metadata service (`router`, `metadata`) | none: a function of the membership | AssignShards, AssignShardOwners, placement | ties, two computations of one ranking |
| topology and client SDK (`topology`, `pkg/client`) | topology, connection pool, refresh loop | refresh, lookup, dial, scan, Close | dialling without the lock, close against refresh |
| configuration (`config`) | none: a function of the cluster file | defaults, validation, seed lists | listeners and identities that collide |
| membership (`membership`) | records per member, published view | join, update, leave, close | ambiguous identities |
| control plane and sidecar processes (`cmd/controlplane`, `cmd/pulsekv-member`) | where the bootstrap or the watchdog is, failed probes, deadlines | start, join, sync, probe, withdraw, rejoin, exit | any start order, services that fail and move, leaves that are not heard |
| chunked transport (`transport`, `main.cpp`) | a stream | send, receive, check | broken streams, values replaced between frames |
| metrics exporter (`cmd/pulsekv-metrics`) | metric state, connection pool | scrape, probe, prune, close | two loops and Close on one pool |
| chaos verifier (`cmd/pulsekv-chaos`, `chaos-test.sh`) | verified transitions, counters, one error slot, progress files | seed, wait, verify, judge, kill, restart | what a pass means, who may act on which progress |
| Python client and adapters | topology, stubs, request state | refresh, get, set, batch calls | fallbacks, partial batches |
| gateway | registry rows, current pointer, vector index, audit log | publish, deprecate, match, guard, proxy | immutability, stale index, failing open |
| benchmarks, smoke test, example, deployment | | | drivers; not modelled |

How they interact. v1: a worker decodes frames of its connections, submits
mutations to the log, the writer thread commits batches and hands each request
back through the worker's completion stack, and the worker applies it and
replies. v2: a sidecar beside each data node watches its health and gossips it;
every control plane builds a view from the gossip; the leader of the metadata group commits the
gossip view; every replica publishes the placement computed from the state it
has applied; nodes and clients poll it; clients write to primaries, which
forward to replicas, in one call or as a stream of chunks; a node that gains a
shard copies it from a peer. The exporter and the chaos verifier sweep all
control-plane replicas and read and write through the nodes.

What correctness means here: v1 keeps what it acknowledged, in order, and memory
agrees with the log; v2 is a cache, so entries may be lost but never altered,
an answer about replication must be true, and everyone routes by a topology that
really existed.

## 2. Modules

| module | models | state |
|---|---|---|
| `Wal` | `wal.c` | file as slots, sync point, queue, batch, writer position |
| `DurableLog` | what `wal.h` promises | stable log, acknowledged records |
| `Handoff` | `wal_complete`, `process_wal_completions`, drain | every atomic operation is one step |
| `Conn` | one connection's event loop | buffers counted in units |
| `Server` | v1 as one system, over the promises of the three above | log, table, completions |
| `TierShard` | one lock shard of the engine with its spill files | index, LRU, accounting, files |
| `LossyCache` | what the engine promises | last written value or nothing |
| `Replication` | writes and their forwards between nodes | handlers, queues, sends, messages |
| `CatchUp` | poller and backfill worker of a node | view, pending job, scan |
| `Metastore` | state machine, readiness and bridge over an external Raft | logs, applied state, proposals |
| `Router` | placement, its self-check, client validation | none |
| `Client` | the Go SDK over published topologies (extends `Router`) | topology, pool, refresh loop, callers, closers |
| `Config` | the cluster file: defaults, validation, seeds | none |
| `Membership` | gossip participants and the view (extends `Config`) | listeners, metadata, rings, records, snapshots |
| `ControlPlane` | start, gossip bootstrap and end of a replica (extends `Membership`) | file in place, file loaded, bootstrap position |
| `Sidecar` | `pulsekv-member` with the services it watches (extends `ControlPlane`) | position of `run`, failed probes, services |
| `Transport` | unary and chunked calls, both sides | stored value, calls of writers and a reader |
| `Sweep` | one sweep of the control-plane replicas and what it says | none |
| `Exporter` | the metrics exporter (extends `Sweep`) | scrape, derived metrics, pool, probe |
| `Chaos` | the chaos verifier and its shell (extends `Router`, `Sweep`) | verified chain, goroutines, error slot, progress |
| `WalProofs`, `HandoffProofs`, `ConnProofs`, `ServerProofs`, `TierProofs`, `ReplicationProofs`, `ShimProofs`, `ClientProofs` | theorems about `Wal`; `Handoff`; `Conn`; `Server`; `TierShard`; `Replication`; `CatchUp` and `Transport`; `Router` and `Client` | |

An `MC` module gives constants their small values. `MCProcess`, `MCHandoff`,
`MCShim` and `MCObservers` put the views of one process (or of two programs
beside each other) into one run: a behaviour is one of the view it starts with,
and the instances keep each view's own specification, fairness and properties.

Correspondence. Actions are the critical sections, system calls, RPCs or atomic
operations of the code, in its order; a lock held to the end of a function is
one step. Payloads are model values. What each definition translates is in the
`map` of `PROJECT.json`. Abstractions worth knowing:

- `Wal`: a slot decodes or is torn; a crash of the host keeps any prefix behind
  the sync point with any slot torn. A failed fdatasync makes nothing durable.
  The directory entry of the file is taken to be durable.
- `Handoff`: atomics are sequentially consistent; one worker, since workers
  share no hand-off state.
- `Server`: crashes of the process only; those of the host are in `Wal`.
- `TierShard`: shards share only counters, so one is modelled. Running without
  a spill directory is the case in which every spill write fails.
- `Replication`: one key; a bulk attempt ends done, refused or with its answer
  lost, after which the gRPC forward sends the write again.
- `Metastore`: Raft (hashicorp/raft) is external and compact; the third replica
  stores and votes. Gossip is any view at each tick. Log compaction and
  installing snapshots over the network are left out.
- `Client`: weights are arbitrary numbers with ties; an RPC on a connection is an
  outcome; one Fetch talks to one replica, whose answers never go back, which is
  what `PublishedNeverBack` of `Metastore` shows. `New` is called in one
  particular cluster (`Score`, `Start`); before it, every membership replaces
  every other under every weight function.

- `Config`: an ID is a value and its shape is left out; so are engine sizes,
  shard count and warnings.
- `Membership`: memberlist is external. Participants that reach one another form
  a ring; anyone in a ring may hear of a change in it at any time, may take a
  live member for dead, and may be cut off for good. Gossip generations are left
  out, since the bridge compares node sets.
- `Sidecar`: restarts that an edited cluster file calls for are free, everything
  else that goes wrong draws on one fault budget.
- `Transport`: frames arrive in order or the stream breaks, which is what gRPC
  gives; a value is the sequence of its bytes. Replica acks are a number, their
  meaning is `AnswerHonest` of `Replication`.
- `Chaos`: the cluster is not modelled. A read returns anything that passes the
  reader's own checks, so the properties hold for healthy and broken clusters.
  Counters are kept as zero or not; the load is one worker.
- `Exporter`: latencies, the nodes' own counters and the text format are left out.

## 3. Runs

| run | shows |
|---|---|
| `process` | Log: acknowledged records survive crashes of process and host (`AckedDurable`), the file is in submission order (`LogInOrder`), nothing is written after an error (`StickyFreezes`), the log implements `DurableLog` (`ImplementsDurableLog`), every request completes (`AllComplete`). Connection: requests run in order and are submitted once (`ProgramOrder`), a reply always finds its reserved room (`BuffersSafe`), no readiness edge is lost, so replies are delivered and input is read (`Flows`). Server, when every key is written through one worker: memory shows only durable writes and a divergence stops the process (`MemorySafe`), acknowledged writes are kept (`AckedKept`), memory settles to what a restart rebuilds (`RamMatchesReplay`) |
| `handoff` | each pending request is in one hand, in order, the count is exact, and no connection object is freed while referred to (`OwnersExact`), no completion is left without a wakeup (`Applied`), the drain ends (`DrainFinishes`). Engine: index, LRU list and accounting agree through failures, a shard exceeds its budget only with a single entry, no file leaks (`ShardExact`), the shard implements `LossyCache` (`ImplementsLossyCache`) |
| `conn_parked` | **violation**: frames left in `rbuf` for lack of reply space are not decoded again once the buffer drains at once (`AllExecuted`) |
| `server_shared` | **violation**: two workers apply durable writes of one key in the opposite of log order (`RamMatchesReplay`) |
| `shim` | Writes: an answer about acks is true (`AnswerHonest`), a write only goes to the plan it was checked against, fan-outs are counted exactly and limits hold (`FanoutSafe`), queued writes are attempted (`TasksRun`). Topology: an installed view is one that existed and the engine is alive under every store (`ViewSafe`), every gained shard is tried or accounted for (`BackfillAccounted`), the node settles on the last topology (`FollowerSettles`). Wire: a read returns a value the key had during the call, a write is stored whole and as replicated as it says (`WireExact`) |
| `metastore` | each replica's state is what its committed prefix says and a generation names one state (`StateSafe`), no replica publishes an older generation after a restart (`PublishedNeverBack`), no early wipe by a leader that knows its log (`NoInformedWipe`) |
| `metastore_wipe` | **violation**: a leader that has not applied its log empties a committed membership (`NoUnsettledWipe`) |
| `client` | the two placement computations agree, are exact and move the minimum (`Placed`); a client's topology was published as a whole (`CoherentTopology`), its pool follows the topology (`PoolSafe`), no connection leaks or is closed twice (`OneHolder`), Close returns (`CloseReturns`) |
| `sidecar` | no published view names a node or an address twice, and a file that loads cannot make one ambiguous (`ViewSafe`); every published address was served by its node (`PublishedWasServed`); once nothing changes, snapshots are exactly the ring (`ViewFollowsRing`) and a sidecar advertises its node exactly while the service is healthy (`WatchdogFollowsService`) |
| `sidecar_absent` | **violation**: a sidecar exits when its leave is not broadcast in time, and a service that recovers stays absent (`OutageIsTransient`) |
| `observers` | Chaos verifier: a run that passes saw no wrong answer in any goroutine and proved every transition (`PassHonest`), progress never outruns proof (`ProgressHonest`), every run reaches a verdict (`ChaosEnds`). Exporter: probes, samples, leader and pool stay consistent (`ExporterSafe`), both loops keep coming back (`LoopsReturn`) |
| `chaos_reseed` | **violation**: the next kill may come before the round's promotion values are seeded (`KillAfterSeed`) |

Type invariants are part of the first invariant of each state machine
(`OwnersExact`, `BuffersSafe`, `MemorySafe`, `ShardExact`, `FanoutSafe`,
`ViewSafe`, `StateSafe`, `PoolSafe`, `ProgressHonest`); that of `Wal` is the
theorem `TypeCorrect`.
`ViewSafe` is a property of `CatchUp` in run `shim` and one of `Sidecar` in run
`sidecar`.

The violations are disagreements between the code and its own comments or
documentation, quoted in `findings`. Each run shows the behaviour; none is a
judgement on how likely it is.

### Bounds

Every bound is a constant named in its module. They are chosen so that the
cases the properties are about happen.

- `process`: three sequence numbers (the counter ends), batches of two and two
  crashes (a crash during recovery); buffers of three units and scripts whose
  replies do and do not fit; three operations, two by clients of one worker.
- `handoff`: three connections (one on the stack, one being pushed, one detached);
  a budget of one unit with values of up to two, hash collisions and three spill
  files.
- `shim`: three nodes, two writes, one topology change, limits of two
  tasks and one thread; three topologies and two control planes; one writer and
  one reader of values of zero, two and three bytes in chunks of two.
- `metastore`: two terms, four entries, one restart and one snapshot.
- `client`: two callers (both dial one address), two closers, two topologies
  after `New` (a lagging replica lets the client go back and forth) and, for
  placement, every membership of four nodes under 81 weight functions.
- `sidecar`: two control planes and two data nodes, of which one process (a
  control plane or a node) never starts, a threshold of two failed probes, and
  two faults. Editing the file costs two, so an edit is not combined with a
  fault. One file swaps addresses between the nodes, and one does not load.
- `observers`: three nodes, two shards, two cycles, three replicas, four
  topologies of which one is not the exact placement, and eight sweeps from
  agreement through election to a split; three scrapes and one probe.

With two topologies, a fetch can be incoherent once, so exhausting
`maxCoherenceAttempts` is not reached in `client`; its effect, keeping the old
topology, is that of a failing RPC. Topology polling in `shim` reaches exhaustion.

### Fairness

Threads that the program started are scheduled, and system calls and RPCs with a
deadline return. Strong fairness is used where the code is entitled to a choice
recurring: the epoll wakeup in `Handoff` (a level-triggered eventfd stays
readable) and in `CatchUp` an RPC to a control plane that answers again and
again. No client has to call, close or send; clients of `Conn` read what they
are sent. In `sidecar` the loops of every process run and gossip reaches whoever
shares a ring; nothing is assumed of the operator, the services or the faults. In
`observers` every goroutine runs and every wait has its deadline; the shell need
not do anything. Runs without deadlock checking are those whose system may
stop: a closed client, a stopped node, a verdict.

## 4. Proofs

The theorems hold for every value of the constants that satisfies the assumption
named; the runs evaluate each assumption on their own constants. An invariant
the runs check is seldom inductive, so each module strengthens it to one that
is, shows that `Init` establishes it and, one lemma per action, that every step
keeps it.

| module | theorem (property) | assumes |
|---|---|---|
| `WalProofs` | `TypeCorrect`, `Durability` (`AckedDurable`), `SequenceOrder` (`LogInOrder`), `StickyError` (`StickyFreezes`), `Refinement` (`ImplementsDurableLog`) | `WalAssumption`: positive sizes; the payload of a torn slot is not a request |
| `HandoffProofs` | `OwnersAreExact` (`OwnersExact`) | `HandoffAssumption` |
| `ConnProofs` | `BuffersAreSafe` (`BuffersSafe`), `FramesAreInOrder` (`ProgramOrder`) | `ConnConstants` |
| `ServerProofs` | `AckedAreKept` (`AckedKept`); `MemoryIsSafe` (`MemorySafe`), `RamIsReplay` (`RamMatchesReplay`) | `ServerConstants`; the last two also `OneWorkerPerKey`, without which run `server_shared` violates `RamMatchesReplay` |
| `TierProofs` | `ShardIsExact` (`ShardExact`), `ShardImplementsCache` (`ImplementsLossyCache`) | `TierConstants` |
| `ReplicationProofs` | `AnswersAreHonest` (`AnswerHonest`), `FanoutIsSafe` (`FanoutSafe`) | `ReplicationConstants` |
| `ShimProofs` | `ViewIsSafe` (`ViewSafe` of `CatchUp`), `BackfillIsAccounted` (`BackfillAccounted`), `WireIsExact` (`WireExact`) | `CatchUpConstants`, `TransportConstants` |
| `ClientProofs` | `PlacementIsExact` (`Placed`), `TopologyIsCoherent` (`CoherentTopology`), `PoolIsSafe` (`PoolSafe`), `HolderIsUnique` (`OneHolder`) | `RouterAssumption`, `ClientAssumption` |

The arguments.

- `Wal`. That a request may be answered depends on where its batch is. `IInv`
  adds that the synced part of the file is intact (`SyncedIntact`), what recovery
  has established so far (`RecoveryInv`), that without a process there is no
  writer (`OffInv`), what the writer's position says about batch and error
  (`PhaseInv`), that until the first error file, batch and queue carry
  consecutive sequence numbers (`QueueInv`), and that a batch about to be
  answered is the synced end of the file (`BatchInv`). The refinement adds that
  the stable prefix only grows.
- `Handoff`. The requests in hand, from the writer through the stack to the
  worker, are one sequence in submission order; the pending count of a
  connection is the number of its requests in it, so an object with a request
  in any hand is kept.
- `Conn`. What was submitted was consumed from the input (`SubmittedConsumed`)
  and is in the log of what ran (`InLog`); the room reserved for owed replies
  never shrinks below what they take.
- `Server`. Every request is in one place (`QueuePlaced`, `BatchPlaced`,
  `InboxPlaced`) with one owner; what is acknowledged is logged, what is visible
  is durable, and what a key shows is what was kept. `Tracks` compares the table
  with the replay of the log behind the writes not applied yet; it needs that
  one worker applies all writes of a key.
- `TierShard`. The LRU list is exactly the resident keys without repetition,
  every counter is the sum or the number it stands for, spill names differ, and
  every file belongs to a spilled entry or to a failed unlink. One lemma covers
  "one entry changes" and the actions cite it.
- `Replication`. The invariant is per write: its stage, its counts, and where its
  sends, messages and queued tasks are. A step changes one write, so one lemma
  carries all the others over.
- `CatchUp`, `Transport`. What a poll carries, what was published and when the
  worker is at rest; for the wire, what each call has sent, received and stored.
- `Client`. The refresh goroutine only carries whole published topologies; an
  open connection is held by the pool, a caller, a closer or the refresh, and no
  two of them hold the same one.
- Placement. `Placed` compares two loops over the members, and induction over
  data is not available. The fold is shown to be the value of an explicit
  function on the sets of members, and a claim about it fails, if at all, on a
  set with the fewest elements, from which one is removed: that gives the
  induction. The first loop then ends at the best node, the second at the sorted
  list of the best `Factor + 1`, and a node that is best in two memberships is
  one node because the ranking is a strict total order, ties included.

Only model-checked:

- all liveness (`AllComplete`, `Flows`, `Applied`, `DrainFinishes`, `TasksRun`,
  `FollowerSettles`, `CloseReturns`, `ViewFollowsRing`, `WatchdogFollowsService`,
  `ChaosEnds`, `LoopsReturn`): fairness and ENABLED are outside the prover;
- `Metastore` (`StateSafe`, `PublishedNeverBack`, `NoInformedWipe`): the proof
  needs the safety of Raft's elections, which belongs to an external library;
- `Sidecar` (`ViewSafe`, `PublishedWasServed`), `Chaos` (`PassHonest`,
  `ProgressHonest`) and `Exporter` (`ExporterSafe`): no obstacle of principle;
  the invariants are not written yet.

## 5. Not modelled

`components` in `PROJECT.json` gives the reason for each part. In short:

- frame parsing of v1, hashing, option parsing and the exposition format are
  functions without interleavings, and no property depends on their values;
- benchmarks, the smoke test and the example are sequential drivers; generated
  code and interface definitions have no behaviour of their own;
- the bulk connection protocol, the Python client and adapters and the gateway
  are the parts that could still be modelled; they are in the plan.

Hazards without a property carry a note; among them, recovery in v1 serves
records that were written and never synced, a writer thread still touches a
worker's flag after its last completion, and writes of one key may reach a
replica in either order.

## 6. Plan

1. Proofs that are left: `Membership` and `Sidecar` (the view is never
   ambiguous), `Exporter` and `Chaos`, then `Metastore` over an assumed election
   safety.
2. `CatchUp` with values, composed with `Replication`: which value a backfill
   may overwrite.
3. The bulk connection protocol with its fallback.
4. Gateway: registry (immutable versions, current pointer, deprecation), index
   against registry, decision order of the matcher, failing open.
5. Python client (refresh, stubs, fallback) and the adapters' batch semantics.
