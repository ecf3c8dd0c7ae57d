-------------------------------- MODULE Chaos --------------------------------
(***************************************************************************)
(* The verdict of the chaos run: pulsekv-chaos (cmd/pulsekv-chaos), the    *)
(* watcher that proves every ownership transition, and chaos-test.sh, the  *)
(* shell that kills and restarts what it watches.                          *)
(*                                                                         *)
(* Four goroutines share one slot for errors: the data-node half (pc), the *)
(* leader half (lpc), the stable load and the coherence watcher.  The      *)
(* shell follows two progress files.  The cluster is not modelled: a read  *)
(* of it returns any answer that passes the reader's own checks, so what   *)
(* the verdict means is shown for healthy and broken clusters alike.       *)
(*                                                                         *)
(* A snapshot is a generation and a topology (see Router).  trail is the   *)
(* baseline followed by the verified transitions (report.Transitions).     *)
(***************************************************************************)
EXTENDS Router, Sweep

CONSTANTS
    Score,       \* the weights of the rendezvous ranking
    Target,      \* the data node that is killed and restarted
    Cycles,      \* --cycles
    Scenarios,   \* the values of --scenario that are explored
    Topologies,  \* the topologies a replica may publish
    Sweeps,      \* the answers a sweep of the replicas may collect
    Healthy      \* membership changes only when the shell kills or restarts

ASSUME ChaosAssumption ==
    /\ Cycles \in Nat \ {0} /\ Healthy \in BOOLEAN /\ Scenarios \subseteq {"data-node", "leader", "both"}
    /\ \A t \in Topologies : Valid(t)
    /\ \A s \in Sweeps : Len(s) >= 3

VARIABLES
    scenario,    \* --scenario
    pc,          \* where run is
    trail, cur,  \* the verified snapshots, and the one being proved
    round,       \* the round of the promotion values
    seeded,      \* the last round every replica was seen to hold
    loadErrors,  \* the error slot is full
    load, bad, verified,        \* the stable load and its counters (> 0)
    watch, sweeps, violations,  \* the coherence watcher and its counters (> 0)
    stopped,     \* loadCtx is cancelled
    lpc, lrep,   \* the leader half, and the leaders it has seen
    leaderDone,  \* what the leader half sent
    progress, lprogress,        \* the two progress files, -1 when absent
    acts,        \* the kills and restarts the shell has made
    witnessed    \* a wrong answer of the cluster reached some goroutine

main == <<pc, trail, cur, round, seeded>>
loadVars == <<load, bad, verified>>
watchVars == <<watch, sweeps, violations>>
leaderVars == <<lpc, lrep, leaderDone, lprogress>>
vars == <<scenario, main, loadErrors, loadVars, watchVars, stopped, leaderVars, progress, acts, witnessed>>

Over == pc \in {"passed", "failed"}
runsDataNodeScenario == scenario # "leader"
runsLeaderScenario == scenario # "data-node"
NoSnapshot == [gen |-> 0, t |-> None]

(* What the data-node half leaves alone. *)
Others == <<scenario, loadVars, watchVars, leaderVars, acts, witnessed>>

(* reportFirst: the slot keeps the first error. *)
reportFirst == loadErrors' = TRUE

(* writeProgress: the file is replaced at once, and never half written. *)
writeProgress(count) == progress' = count

fail == pc' = "failing" /\ UNCHANGED <<trail, cur, round, seeded>>
goto(next) == pc' = next /\ UNCHANGED <<trail, cur, round, seeded>>

---------------------------------------------------------------------------
(* Topologies.                                                             *)

(* The topologies whose map is the rendezvous assignment of their nodes. *)
ExactHRW == {t \in Topologies : t.shardMap = AssignShards(Score, t.nodes)}
validateExactHRW(t) == t \in ExactHRW

shardsOwnedBy(t, n) == {s \in DOMAIN t.shardMap : t.shardMap[s] = n}

(* The baseline has a survivor, and the target has something to lose. *)
validateBaseline(t) ==
    /\ Cardinality(t.nodes) >= 2 /\ Target \in t.nodes /\ validateExactHRW(t)
    /\ shardsOwnedBy(t, Target) # {}

(* The load reads shards of survivors: there must be one. *)
buildStableEntries(t) == shardsOwnedBy(t, Target) # Shard

(* The shards whose keys prove a promotion: the target's, with a replica. *)
Promotion(t) == {s \in shardsOwnedBy(t, Target) : Factor > 0 /\ t.owners[s].replicas # <<>>}

sameTopology(a, b) == a.t.nodes = b.t.nodes /\ a.t.shardMap = b.t.shardMap

validateRemoval(before, after) ==
    /\ after.gen > before.gen
    /\ Target \in before.t.nodes /\ after.t.nodes = before.t.nodes \ {Target}
    /\ validateExactHRW(after.t)
    /\ \A s \in Shard : IF before.t.shardMap[s] = Target
                        THEN after.t.shardMap[s] # Target
                        ELSE after.t.shardMap[s] = before.t.shardMap[s]
    /\ shardsOwnedBy(before.t, Target) # {}

validateRejoin(base, before, after) ==
    /\ after.gen > before.gen
    /\ Target \notin before.t.nodes /\ after.t.nodes = base.t.nodes
    /\ after.t.shardMap = base.t.shardMap /\ validateExactHRW(after.t)
    /\ \A s \in Shard : after.t.shardMap[s] \in {before.t.shardMap[s], Target}
    /\ shardsOwnedBy(after.t, Target) # {}

Removing == Len(trail) % 2 = 1

(* topologyReader.fetch: some replica's answer, at a later, the same or an *)
(* earlier generation.                                                     *)
Snapshots(gens) == [gen : gens, t : Topologies]

---------------------------------------------------------------------------
(* The data-node half: run.                                                *)

(* The baseline is fetched and accepted. *)
Baseline ==
    /\ pc = "baseline"
    /\ \/ fail
       \/ \E s \in Snapshots({2}) :
             /\ validateBaseline(s.t) /\ buildStableEntries(s.t)
             /\ pc' = "stable" /\ trail' = <<s>> /\ UNCHANGED <<cur, round, seeded>>
    /\ UNCHANGED <<Others, loadErrors, stopped, progress>>

(* seedStableKeys, and the baseline proof of verifyEpoch, which has no     *)
(* error slot yet; then startStableLoad.                                   *)
SeedStable ==
    /\ pc = "stable"
    /\ \/ goto("seed") /\ load' = "reading"
       \/ fail /\ UNCHANGED load
    /\ UNCHANGED <<scenario, bad, verified, watchVars, leaderVars, acts, witnessed,
                   loadErrors, stopped, progress>>

(* seedPromotionKeys: every replica acknowledged the round's value and was *)
(* read back.  putWithAckConverging retries a refusal until its deadline.  *)
seedPromotionKeys ==
    /\ pc = "seed"
    /\ LET now == Last(trail).t
           ready == \A s \in Promotion(Head(trail).t) : now.owners[s].replicas # <<>>
       IN \/ fail
          \/ /\ ready /\ seeded' = round
             /\ pc' = IF progress = -1 THEN "ready" ELSE "wait"
             /\ UNCHANGED <<trail, cur, round>>
    /\ UNCHANGED <<Others, loadErrors, stopped, progress>>

(* Readiness: progress 0, then the coherence watcher and the leader half. *)
Ready ==
    /\ pc = "ready"
    /\ goto(IF runsDataNodeScenario THEN "wait" ELSE "join")
    /\ writeProgress(0) /\ watch' = "sweeping"
    /\ IF runsLeaderScenario
       THEN lpc' = "baseline" /\ UNCHANGED leaderDone
       ELSE leaderDone' = "ok" /\ UNCHANGED lpc
    /\ UNCHANGED <<scenario, loadVars, sweeps, violations, lrep, lprogress, acts, witnessed,
                   loadErrors, stopped>>

(* The slot is looked at first: an error in it ends the wait. *)
TakeError == loadErrors /\ loadErrors' = FALSE /\ fail

Accepted(s) ==
    IF Removing THEN validateRemoval(Last(trail), s) ELSE validateRejoin(Head(trail), Last(trail), s)

(* Mutant: the transition counts as soon as the map has changed. *)
waitAndPublish ==
    /\ pc = "wait"
    /\ \/ TakeError /\ UNCHANGED progress
       \/ /\ ~loadErrors /\ UNCHANGED loadErrors
          /\ \/ \E s \in Snapshots(Last(trail).gen - 1 .. Last(trail).gen + 1) :
                   /\ ~sameTopology(Last(trail), s) /\ Accepted(s)
                   /\ Healthy => acts >= Len(trail)
                   /\ cur' = s /\ pc' = "epoch" /\ writeProgress(Len(trail)) /\ UNCHANGED <<trail, round, seeded>>
             \/ fail /\ UNCHANGED progress
    /\ UNCHANGED <<Others, stopped>>

(* waitForTransition.  The same topology at the same generation is polled  *)
(* again; at another generation, or another topology that is not the       *)
(* expected one, it fails, as it does at its deadline.                     *)
waitForTransition ==
    /\ pc = "wait"
    /\ \/ TakeError
       \/ /\ ~loadErrors /\ UNCHANGED loadErrors
          /\ \/ fail
             \/ \E s \in Snapshots(Last(trail).gen - 1 .. Last(trail).gen + 1) :
                   /\ ~sameTopology(Last(trail), s) /\ Accepted(s)
                   /\ Healthy => acts >= Len(trail)
                   /\ cur' = s /\ pc' = "epoch" /\ UNCHANGED <<trail, round, seeded>>
    /\ UNCHANGED <<Others, stopped, progress>>

(* verifyEpoch: a key of the new epoch is on the predicted owner, and a    *)
(* node that must not hold it does not; retried until the deadline.        *)
verifyEpoch ==
    /\ pc = "epoch"
    /\ \/ TakeError
       \/ /\ ~loadErrors /\ UNCHANGED loadErrors
          /\ \/ goto("promote")
             \/ fail
    /\ UNCHANGED <<Others, stopped, progress>>

(* verifyPromotion: a removal must promote the first replica of the old    *)
(* map; the new owner then serves the round's value.  Then the transition  *)
(* is recorded, the progress file written, and the next round of values    *)
(* seeded, or the data-node half is over.                                  *)
Promoted(before, after) ==
    \A s \in Promotion(Head(trail).t) :
        Removing => before.t.owners[s].replicas # <<>>
                    /\ after.t.shardMap[s] = Head(before.t.owners[s].replicas)

verifyPromotion ==
    /\ pc = "promote"
    /\ \/ fail /\ UNCHANGED progress
       \/ /\ Promoted(Last(trail), cur)
          /\ trail' = Append(trail, cur) /\ cur' = NoSnapshot /\ writeProgress(Len(trail))
          /\ LET rejoined == ~Removing
                 more == Len(trail) < 2 * Cycles
             IN /\ pc' = IF ~rejoined THEN "wait" ELSE IF more THEN "seed" ELSE "join"
                /\ round' = IF rejoined /\ more THEN round + 1 ELSE round
          /\ UNCHANGED seeded
    /\ UNCHANGED <<Others, loadErrors, stopped>>

(* The leader half is waited for, then the load is stopped. *)
Join ==
    /\ pc = "join" /\ leaderDone # "none"
    /\ IF leaderDone = "ok" THEN goto("draining") /\ stopped' = TRUE
       ELSE fail /\ UNCHANGED stopped
    /\ UNCHANGED <<Others, loadErrors, progress>>

(* The counters are judged once both wait groups are empty. *)
Judged ==
    /\ ~violations /\ (runsLeaderScenario => sweeps)
    /\ ~bad /\ verified

Idle(g) == g \in {"off", "done"}

(* Mutant: the counters are read without waiting for the goroutines. *)
JudgeAtOnce ==
    /\ pc = "draining"
    /\ goto(IF Judged THEN "passed" ELSE "failing")
    /\ UNCHANGED <<Others, loadErrors, stopped, progress>>

Judge ==
    /\ pc = "draining" /\ Idle(load) /\ Idle(watch)
    /\ goto(IF Judged THEN "passed" ELSE "failing")
    /\ UNCHANGED <<Others, loadErrors, stopped, progress>>

(* An early return runs the deferred stops and waits, but does not wait    *)
(* for the leader half.                                                    *)
Return ==
    /\ pc = "failing"
    /\ stopped' = TRUE
    /\ IF stopped /\ Idle(load) /\ Idle(watch) THEN goto("failed") ELSE UNCHANGED main
    /\ UNCHANGED <<Others, loadErrors, progress>>

---------------------------------------------------------------------------
(* The stable load: one worker of startStableLoad.  A read that returns    *)
(* after the stop is not counted.                                          *)
LoadReads ==
    /\ load = "reading"
    /\ \/ stopped /\ load' = "done" /\ UNCHANGED <<verified, witnessed>>
       \/ ~stopped /\ load' = "bad" /\ witnessed' = TRUE /\ UNCHANGED verified
       \/ ~stopped /\ verified' = TRUE /\ UNCHANGED <<load, witnessed>>
    /\ UNCHANGED <<bad, loadErrors>>

(* A miss, a wrong value or an error is counted, then reported. *)
LoadCounts ==
    /\ load = "bad" /\ load' = "reading"
    /\ bad' = TRUE /\ reportFirst
    /\ UNCHANGED <<verified, witnessed>>

LoadStep ==
    /\ ~Over /\ (LoadReads \/ LoadCounts)
    /\ UNCHANGED <<scenario, main, watchVars, stopped, leaderVars, progress, acts>>

(* observeReplicas: what the sweeps say. *)
CoherentSweeps == {s \in Sweeps : Coherent(s)}
Summary == [s \in Sweeps |-> summarizeLeader(s)]
Converged == {s \in Sweeps : OneState(s)}
Split == Sweeps # CoherentSweeps

(* watchReplicaCoherence: it ends at the first incoherent sweep. *)
WatchSweeps ==
    /\ watch = "sweeping"
    /\ \/ stopped /\ watch' = "done" /\ UNCHANGED <<sweeps, witnessed>>
       \/ ~stopped /\ sweeps' = TRUE /\ UNCHANGED <<watch, witnessed>>
       \/ ~stopped /\ sweeps' = TRUE /\ Split /\ watch' = "split" /\ witnessed' = TRUE
    /\ UNCHANGED <<violations, loadErrors>>

WatchCounts ==
    /\ watch = "split" /\ watch' = "done"
    /\ violations' = TRUE /\ reportFirst
    /\ UNCHANGED <<sweeps, witnessed>>

WatchStep ==
    /\ ~Over /\ (WatchSweeps \/ WatchCounts)
    /\ UNCHANGED <<scenario, main, loadVars, stopped, leaderVars, progress, acts>>

---------------------------------------------------------------------------
(* The leader half: runLeaderScenario.                                     *)

Survivors(s) == Len(s) - 1

(* Mutant: a failed leader half returns without answering. *)
leaderFailsSilently == lpc' = "done" /\ UNCHANGED <<lrep, leaderDone, lprogress>>

leaderFails == lpc' = "done" /\ leaderDone' = "err" /\ UNCHANGED <<lrep, lprogress>>

(* Every wait looks at the error slot, sweeps, refuses an incoherent sweep *)
(* and gives up at its deadline.                                           *)
Await(step) ==
    /\ lpc = step /\ ~Over
    /\ UNCHANGED <<scenario, main, loadVars, watchVars, stopped, progress, acts>>

LeaderGivesUp ==
    /\ \E step \in {"baseline", "failover", "rejoin"} : Await(step)
    /\ leaderFails
    /\ \/ loadErrors /\ loadErrors' = FALSE /\ UNCHANGED witnessed
       \/ ~loadErrors /\ UNCHANGED <<loadErrors, witnessed>>
       \/ /\ ~loadErrors /\ Split
          /\ witnessed' = TRUE /\ UNCHANGED loadErrors

Advance(step, next, s) ==
    /\ Await(step) /\ ~loadErrors /\ s \in CoherentSweeps /\ Summary[s].agreed
    /\ lpc' = next /\ lrep' = Append(lrep, [leader |-> Summary[s].leader, term |-> Summary[s].term]) /\ lprogress' = Len(lrep)
    /\ UNCHANGED <<loadErrors, witnessed>>

(* awaitLeaderConsensus: all of them agree on a leader. *)
awaitLeaderConsensus ==
    \E s \in Sweeps :
        /\ Summary[s].reachable = Len(s)
        /\ Advance("baseline", "failover", s) /\ UNCHANGED leaderDone

(* awaitFailover: the survivors agree on another one; its term is higher. *)
awaitFailover ==
    lpc = "failover" /\ \E s \in Sweeps :
        /\ Summary[s].reachable >= Survivors(s)
        /\ Summary[s].leader # lrep[1].leader /\ Summary[s].term > lrep[1].term
        /\ Advance("failover", "rejoin", s) /\ UNCHANGED leaderDone

(* awaitAllReplicas, and the checks on its one sweep: any that fails ends  *)
(* the leader half.                                                        *)
awaitAllReplicas ==
    lpc = "rejoin" /\ \E s \in Sweeps :
        /\ Summary[s].reachable = Len(s)
        /\ Summary[s].leader # lrep[1].leader /\ Summary[s].term >= lrep[2].term
        /\ s \in Converged
        /\ Advance("rejoin", "done", s) /\ leaderDone' = "ok"

LeaderStep == LeaderGivesUp \/ awaitLeaderConsensus \/ awaitFailover \/ awaitAllReplicas

---------------------------------------------------------------------------
(* chaos-test.sh: one kill and one restart per cycle, each once the        *)
(* progress files have confirmed the one before.  The leader is killed and *)
(* restarted in the first cycle.                                           *)
Shell ==
    /\ acts < 2 * Cycles
    /\ runsDataNodeScenario => progress >= acts
    /\ runsLeaderScenario => lprogress >= Min({acts, 2})
    /\ acts' = acts + 1
    /\ UNCHANGED <<scenario, main, loadErrors, loadVars, watchVars, stopped, leaderVars, progress, witnessed>>

Init ==
    /\ scenario \in Scenarios
    /\ pc = "baseline" /\ trail = <<>> /\ cur = NoSnapshot /\ round = 0 /\ seeded = -1
    /\ loadErrors = FALSE /\ stopped = FALSE /\ witnessed = FALSE
    /\ load = "off" /\ bad = FALSE /\ verified = FALSE
    /\ watch = "off" /\ sweeps = FALSE /\ violations = FALSE
    /\ lpc = "off" /\ lrep = <<>> /\ leaderDone = "none"
    /\ progress = -1 /\ lprogress = -1 /\ acts = 0

Run ==
    \/ Baseline \/ SeedStable \/ seedPromotionKeys \/ Ready \/ waitForTransition
    \/ verifyEpoch \/ verifyPromotion \/ Join \/ Judge \/ Return

Next == Run \/ LoadStep \/ WatchStep \/ LeaderStep \/ Shell

Spec == Init /\ [][Next]_vars

(* Every goroutine runs, every call it makes has a deadline, and so has    *)
(* every wait.  The shell need not do anything.                            *)
Fairness == WF_vars(Run) /\ WF_vars(LoadStep) /\ WF_vars(WatchStep) /\ WF_vars(LeaderStep)

FairSpec == Spec /\ Fairness

---------------------------------------------------------------------------
TypeOK ==
    /\ scenario \in Scenarios /\ trail \in Seq([gen : Nat, t : Topologies])
    /\ round \in 0..Cycles /\ seeded \in -1..round
    /\ progress \in -1..2 * Cycles /\ lprogress \in -1..2 /\ acts \in 0..2 * Cycles

(* The verified transitions are a chain from the baseline: generations     *)
(* grow, a removal takes away the target and moves only its shards, and a  *)
(* rejoin restores the baseline exactly.                                   *)
Chain ==
    \A i \in 2..Len(trail) :
        /\ trail[i].gen > trail[i - 1].gen
        /\ IF i % 2 = 0
           THEN /\ trail[i].t.nodes = Head(trail).t.nodes \ {Target}
                /\ \A s \in Shard : Head(trail).t.shardMap[s] # Target
                                    => trail[i].t.shardMap[s] = Head(trail).t.shardMap[s]
           ELSE sameTopology(trail[i], Head(trail))

(* The leaders that were seen: another one at a higher term took over, and *)
(* the first one did not come back as the leader.                          *)
Failover ==
    /\ Len(lrep) = 3
    /\ lrep[2].leader # lrep[1].leader /\ lrep[2].term > lrep[1].term
    /\ lrep[3].leader # lrep[1].leader /\ lrep[3].term >= lrep[2].term

(* A run that passes saw no wrong answer, in any goroutine, at any time:   *)
(* the one error slot may drop or lose an error, but the counters are      *)
(* judged only when nobody can still add to them.  And it proved all that  *)
(* its scenario promises.                                                  *)
PassHonest ==
    pc = "passed" =>
        /\ ~witnessed /\ verified
        /\ runsDataNodeScenario => Len(trail) = 2 * Cycles + 1 /\ Chain
        /\ runsLeaderScenario => Failover /\ sweeps

(* The progress files never run ahead of what is proved, so the shell has  *)
(* at most one kill or restart outstanding in each half, and it makes its  *)
(* first kill only once the promotion values are on every replica.         *)
ProgressHonest ==
    /\ TypeOK
    /\ progress < Len(trail) \/ progress = -1
    /\ lprogress < Len(lrep)
    /\ progress >= 0 => seeded >= 0
    /\ runsDataNodeScenario => acts <= Len(trail)
    /\ runsLeaderScenario => Min({acts, 3}) <= Len(lrep)

(* A kill comes after the round's promotion values are on every replica:   *)
(* "re-seeded before every later removal, because the shell mutates the    *)
(* cluster the moment it sees the progress count"                          *)
(* (cmd/pulsekv-chaos/main.go:478).                                        *)
KillAfterSeed ==
    [][acts' # acts /\ acts % 2 = 0 /\ runsDataNodeScenario => seeded >= acts \div 2]_vars
=============================================================================
