----------------------------- MODULE MCObservers -----------------------------
(* The two programs that watch a running cluster, over the same sweeps of  *)
(* its replicas: a behaviour is a run of the chaos verifier or one of the  *)
(* exporter.                                                               *)
EXTENDS MCChaos

CONSTANTS MaxScrapes, MaxProbes

VARIABLES part, scrape, seen, conns, probe

MCNodesAt == [g \in 0..2 |-> CASE g = 0 -> {} [] g = 1 -> {1, 2} [] g = 2 -> {2}]

(* The exporter's scrapes: agreed, one replica behind, caught up, silent. *)
MCScrapes ==
    LET a == Says("cp-1", 1, 1, "A")
        c == Says("cp-2", 2, 2, "B")
    IN {<<a, a>>, <<a, c>>, <<c, c>>, <<Down, Down>>}

E == INSTANCE Exporter WITH NodesAt <- MCNodesAt, Sweeps <- MCScrapes

exporter == <<scrape, seen, conns, probe>>
all == <<part, vars, exporter>>

ObserversInit ==
    /\ part \in {"chaos", "exporter"}
    /\ Init /\ (part = "exporter" => scenario = "leader")
    /\ E!ExporterInit

Verifying == part = "chaos" /\ UNCHANGED <<part, exporter>>
Exporting == part = "exporter" /\ UNCHANGED <<part, vars>>

ObserversNext ==
    \/ Verifying /\ Next
    \/ Exporting /\ E!ExporterNext

ObserversSpec ==
    /\ ObserversInit /\ [][ObserversNext]_all
    /\ WF_all(Verifying /\ Run) /\ WF_all(Verifying /\ LoadStep)
    /\ WF_all(Verifying /\ WatchStep) /\ WF_all(Verifying /\ LeaderStep)
    /\ WF_all(Exporting /\ (E!ScrapeLoop \/ E!ProbeLoop))

(* Chaos: every run ends with a verdict, whatever the cluster answers,     *)
(* whichever half takes the error out of the slot, and whatever the shell  *)
(* does.                                                                   *)
ChaosEnds == <>(part = "exporter" \/ Over)

(* Exporter: the exported numbers and the pool stay consistent while both  *)
(* loops and Close interleave.                                             *)
ExporterSafe == E!ExporterSafe

(* Exporter: the scrape loop and the probe loop come back to their timers. *)
LoopsReturn == E!LoopsReturn
=============================================================================
