------------------------------- MODULE Exporter -------------------------------
(***************************************************************************)
(* pulsekv-metrics (cmd/pulsekv-metrics): the scrape loop and the canary   *)
(* probe loop, which share the metric state and a pool of connections to   *)
(* the data nodes, and Close, which main runs while both may still be      *)
(* working.                                                                *)
(*                                                                         *)
(* A sweep of the replicas is one of Sweeps (see Sweep); the nodes a       *)
(* replica lists at generation g are NodesAt[g].  A node's address is its  *)
(* ID.  Latencies and the data nodes' own counters are left out.           *)
(***************************************************************************)
EXTENDS Sweep

CONSTANTS Sweeps, NodesAt,
          MaxScrapes, MaxProbes  \* bounds on the rounds of the two loops

VARIABLES
    scrape,  \* the scrape loop: its rounds, the nodes still to ask, and the
             \* nodes and replica views (state.replicaViews) of the last one
    seen,    \* what it derived: leader, agreement and leaderChanges; highest,
             \* converged and changes of the generation; convergenceSamples
    conns,   \* nodeConns, and what the probe dialled since it was pruned;
             \* closed by Close; panicked
    probe    \* the probe loop: its rounds, where it is, the connection it
             \* holds, its results, and the replicas left to time

exporterVars == <<scrape, seen, conns, probe>>

Nobody == [leader |-> NoLeader, term |-> 0]
NoConn == [to |-> 0, open |-> FALSE]
Kinds == {"hit", "miss", "mismatch", "write_error", "read_error"}

(* The generations of the replicas that answered. *)
Gens(sweep) == {o.gen : o \in Range(Answers(sweep))}

---------------------------------------------------------------------------
(* scrapeOnce.                                                             *)

(* observeLeadershipLocked: the answers are in no particular order; the    *)
(* first is taken for the leader, and the others must say the same.        *)
observeLeadershipLocked(s, sweep) ==
    LET says(o) == [leader |-> o.leader, term |-> o.term]
        all == {says(o) : o \in Range(Answers(sweep))}
    IN IF all = {} THEN {[s EXCEPT !.agreement = FALSE]}
       ELSE {[s EXCEPT !.agreement = (all = {now}), !.leader = now,
                       !.leaderChanges = @ + (IF s.leader \notin {Nobody, now} THEN 1 ELSE 0)] : now \in all}

(* Mutant: a generation that converged is sampled again on every scrape. *)
observeEveryScrape(s, sweep) ==
    LET gens == Gens(sweep)
        agreed == Cardinality(gens) = 1
    IN IF gens # {} /\ Max(gens) > s.highest
       THEN [s EXCEPT !.highest = Max(gens), !.converged = agreed, !.changes = @ + 1]
       ELSE IF agreed /\ Len(Answers(sweep)) > 1
       THEN [s EXCEPT !.converged = TRUE, !.samples = @ + 1]
       ELSE s

(* observeConvergenceLocked: a generation above all seen starts a          *)
(* measurement; the first later scrape in which the answers are at one     *)
(* generation ends it.                                                     *)
observeConvergenceLocked(s, sweep) ==
    LET gens == Gens(sweep)
        agreed == Cardinality(gens) = 1
    IN IF gens # {} /\ Max(gens) > s.highest
       THEN [s EXCEPT !.highest = Max(gens), !.converged = agreed, !.changes = @ + 1]
       ELSE IF ~s.converged /\ agreed /\ Len(Answers(sweep)) > 1
       THEN [s EXCEPT !.converged = TRUE, !.samples = @ + 1]
       ELSE s

(* The topologies some replica answered with; any of them is used. *)
Listings(sweep) == {NodesAt[g] : g \in Gens(sweep)} \ {{}}

(* retainNodeConns: connections to nodes that left are closed, whoever     *)
(* works on them.                                                          *)
retainNodeConns(keep) ==
    /\ conns' = [conns EXCEPT !.pool = @ \cap keep, !.dialled = {}]
    /\ probe' = [probe EXCEPT !.held.open = @ /\ probe.held.to \in keep]

(* scrapeReplicas, the observations, and the pruning that starts           *)
(* scrapeNodes.                                                            *)
scrapeReplicas ==
    /\ scrape.todo = {} /\ ~conns.closed /\ scrape.rounds < MaxScrapes
    /\ \E sweep \in Sweeps :
          /\ \E s \in observeLeadershipLocked(seen, sweep) : seen' = observeConvergenceLocked(s, sweep)
          /\ LET next == [scrape EXCEPT !.rounds = @ + 1, !.views = sweep] IN
             IF Listings(sweep) = {} THEN scrape' = next /\ UNCHANGED <<conns, probe>>
             ELSE \E nodes \in Listings(sweep) :
                     /\ scrape' = [next EXCEPT !.todo = nodes, !.listed = nodes]
                     /\ retainNodeConns(nodes)

(* nodeClient: the pooled connection, or a new one.  Once Close has taken  *)
(* the pool away, storing a new one panics.                                *)
nodeClient(n) ==
    IF conns.closed THEN [conns EXCEPT !.panicked = TRUE] ELSE [conns EXCEPT !.pool = @ \cup {n}]

(* scrapeNode, one goroutine per node. *)
scrapeNode ==
    /\ ~conns.panicked
    /\ \E n \in scrape.todo : conns' = nodeClient(n) /\ scrape' = [scrape EXCEPT !.todo = @ \ {n}]
    /\ UNCHANGED <<seen, probe>>

---------------------------------------------------------------------------
(* probeOnce.                                                              *)

Dial(n) == [nodeClient(n) EXCEPT !.dialled = @ \cup {n}]
Conn(n) == [to |-> n, open |-> ~conns.closed]

At(place) == probe.pc = place /\ ~conns.panicked

(* The last stored view chooses the primary of a fresh key. *)
probeOnce ==
    /\ At("idle") /\ ~conns.closed /\ probe.rounds < MaxProbes
    /\ \E nodes \in Listings(scrape.views) : \E primary \in nodes, replicas \in SUBSET nodes :
          /\ primary \notin replicas
          /\ conns' = Dial(primary)
          /\ probe' = [probe EXCEPT !.pc = "write", !.held = Conn(primary), !.awaited = replicas]
    /\ UNCHANGED <<scrape, seen>>

Counted(result) == [probe.results EXCEPT ![result] = @ + 1]
Works == probe.held.open /\ ~conns.closed

(* The write; an error ends the probe.  On a connection that was closed    *)
(* meanwhile every call fails.                                             *)
probeWrite ==
    /\ At("write")
    /\ LET next == [probe EXCEPT !.rounds = @ + 1] IN
       \/ probe' = [next EXCEPT !.pc = "idle", !.results = Counted("write_error"), !.awaited = {}]
       \/ Works /\ probe' = [next EXCEPT !.pc = "read"]
    /\ UNCHANGED <<scrape, seen, conns>>

(* The read: exactly one result. *)
probeRead ==
    /\ At("read")
    /\ \E r \in {"read_error", "miss", "mismatch", "hit"} :
          /\ r # "read_error" => Works
          /\ probe' = [probe EXCEPT !.results = Counted(r), !.held = NoConn,
                                    !.pc = IF probe.awaited = {} THEN "idle" ELSE "lag"]
    /\ UNCHANGED <<scrape, seen, conns>>

(* measureReplicationLag: one replica after another is dialled and polled, *)
(* until it serves the canary or the budget is spent.                      *)
dialReplica ==
    /\ At("lag") /\ probe.held = NoConn
    /\ \E n \in probe.awaited : conns' = Dial(n) /\ probe' = [probe EXCEPT !.held = Conn(n)]
    /\ UNCHANGED <<scrape, seen>>

Measured ==
    probe' = [probe EXCEPT !.held = NoConn, !.awaited = @ \ {probe.held.to},
                           !.pc = IF probe.awaited = {probe.held.to} THEN "idle" ELSE @]

(* Mutant: a replica is polled until it serves the canary. *)
pollUntilFound == At("lag") /\ probe.held # NoConn /\ Works /\ Measured /\ UNCHANGED <<scrape, seen, conns>>

measureReplicationLag == At("lag") /\ probe.held # NoConn /\ Measured /\ UNCHANGED <<scrape, seen, conns>>

---------------------------------------------------------------------------
(* Close: main has returned; the loops may be anywhere. *)
Close ==
    /\ ~conns.closed /\ conns' = [conns EXCEPT !.closed = TRUE, !.pool = {}]
    /\ probe' = [probe EXCEPT !.held.open = FALSE]
    /\ UNCHANGED <<scrape, seen>>

(* newExporter. *)
ExporterInit ==
    /\ scrape = [rounds |-> 0, todo |-> {}, listed |-> {}, views |-> <<>>]
    /\ seen = [leader |-> Nobody, agreement |-> FALSE, leaderChanges |-> 0,
               highest |-> 0, converged |-> FALSE, changes |-> 0, samples |-> 0]
    /\ conns = [pool |-> {}, dialled |-> {}, closed |-> FALSE, panicked |-> FALSE]
    /\ probe = [rounds |-> 0, pc |-> "idle", held |-> NoConn, results |-> [k \in Kinds |-> 0], awaited |-> {}]

ScrapeLoop == scrapeReplicas \/ scrapeNode
ProbeLoop == probeOnce \/ probeWrite \/ probeRead \/ dialReplica \/ measureReplicationLag

ExporterNext == ScrapeLoop \/ ProbeLoop \/ Close

---------------------------------------------------------------------------
(* The exported numbers belong together, however the loops interleave and  *)
(* whatever is closed under them: every probe that was counted has exactly *)
(* one result, or is still reading; a generation is sampled at most once,  *)
(* and not before it converged; nothing newer than the highest generation  *)
(* is on display, and an agreed leader is everybody's.  The pool holds the *)
(* nodes of the last topology and what the probe dialled since, and the    *)
(* loops never panic while serving.                                        *)
ExporterSafe ==
    /\ probe.rounds = MapThenSumSet(LAMBDA k : probe.results[k], Kinds) + (IF probe.pc = "read" THEN 1 ELSE 0)
    /\ seen.samples <= seen.changes
    /\ ~seen.converged /\ seen.changes > 0 => seen.samples < seen.changes
    /\ \A g \in Gens(scrape.views) : g <= seen.highest
    /\ seen.agreement => \A o \in Range(Answers(scrape.views)) : seen.leader = [leader |-> o.leader, term |-> o.term]
    /\ conns.pool \subseteq scrape.listed \cup conns.dialled
    /\ probe.held.open => probe.held.to \in conns.pool
    /\ conns.panicked => conns.closed

(* Both loops keep coming back to their timers: a node that left, a        *)
(* connection closed under the probe or a replica that never gets the      *)
(* canary cannot hold one of them.                                         *)
LoopsReturn ==
    /\ []<>(conns.panicked \/ scrape.todo = {})
    /\ []<>(conns.panicked \/ probe.pc = "idle")
=============================================================================
