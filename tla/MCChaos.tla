------------------------------ MODULE MCChaos ------------------------------
(* Three nodes and two shards: the target, node 1, leads shard 0 and node  *)
(* 3 shard 1.  Besides the placements of the control plane, a replica may  *)
(* publish one with a swapped map.                                         *)
EXTENDS Chaos, TLC

MCNode == 1..3
MCShard == 0..1
MCScore == (0 :> (1 :> 2 @@ 2 :> 0 @@ 3 :> 1)) @@ (1 :> (1 :> 0 @@ 2 :> 1 @@ 3 :> 2))

Right(m) == Placement(MCScore, m)
Swapped ==
    LET to == (0 :> 3) @@ (1 :> 1)
    IN [nodes |-> MCNode, shardMap |-> to, ok |-> TRUE,
        owners |-> [s \in MCShard |-> [primary |-> to[s], replicas |-> <<2>>]]]

MCTopologies ==
    {Right(MCNode), Right({2, 3}), Right({3}), Swapped}

Says(leader, term, gen, print) == [up |-> TRUE, leader |-> leader, term |-> term, gen |-> gen, print |-> print]
Down == [up |-> FALSE, leader |-> NoLeader, term |-> 0, gen |-> 0, print |-> "none"]

(* Three replicas: agreed, electing, failed over, back, back but behind,   *)
(* led again by the first leader, split, silent.                           *)
MCSweeps ==
    LET a == Says("cp-1", 1, 1, "A")
        b == Says("cp-2", 2, 1, "A")
        c == Says("cp-2", 2, 2, "B")
    IN {<<a, a, a>>,
        <<Down, Says(NoLeader, 2, 1, "A"), Says("cp-1", 1, 1, "A")>>,
        <<Down, b, b>>,
        <<c, c, c>>, <<b, c, c>>,
        <<Says("cp-1", 3, 2, "B"), Says("cp-1", 3, 2, "B"), Says("cp-1", 3, 2, "B")>>,
        <<c, c, Says("cp-2", 2, 2, "C")>>,
        <<Down, Down, Down>>}
=============================================================================
