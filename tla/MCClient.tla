------------------------------ MODULE MCClient ------------------------------
(* Four nodes and two shards.  The weights are every pattern of ties and   *)
(* wins over three values, the same for both shards up to reversal; the    *)
(* cluster that gets a client has nodes 1 and 4 owning one shard each, and *)
(* node 3 only a replica.                                                  *)
EXTENDS Client, TLC

MCNode == 1..4
MCShard == 0..1
MCWeights == {(0 :> f) @@ (1 :> [n \in MCNode |-> f[5 - n]]) : f \in [MCNode -> 0..2]}
MCScore == (0 :> (1 :> 2 @@ 2 :> 0 @@ 3 :> 1 @@ 4 :> 1)) @@ (1 :> (1 :> 1 @@ 2 :> 1 @@ 3 :> 0 @@ 4 :> 2))
MCStart == {1, 3, 4}
MCChurning == {3, 4}
=============================================================================
