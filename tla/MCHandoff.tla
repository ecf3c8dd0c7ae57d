----------------------------- MODULE MCHandoff -----------------------------
(* Two parts of a storage process in one run: a v1 worker and the log's    *)
(* writer, which hands completions to it (Handoff), and a shard of a data  *)
(* node's engine (TierShard).  A behaviour is one of the part it starts    *)
(* with; the state of the other stays as it began.                         *)
EXTENDS Handoff, TierShard, TLC

CONSTANTS c1, c2, c3,                      \* Handoff
          k1, k2, a, b, large              \* TierShard

VARIABLE part

ThreeConns == {c1, c2, c3}

(* TierShard: two keys whose hashes collide, and values of one size, so    *)
(* that only identity tells a stale file from a good one, and one larger   *)
(* than the budget.                                                        *)
MCSize == (a :> 1) @@ (b :> 1) @@ (large :> 2)
MCHash == (k1 :> 1) @@ (k2 :> 1)

ASSUME TierAssumption == TierConstants

PartInit == part \in {"handoff", "shard"} /\ Init /\ ShardInit

PartNext ==
    \/ part = "handoff" /\ Next /\ UNCHANGED <<part, shardVars>>
    \/ part = "shard" /\ ShardNext /\ UNCHANGED <<part, vars>>

(* The fairness of FairSpec of Handoff. *)
Handing(A) == part = "handoff" /\ A

PartSpec ==
    /\ PartInit /\ [][PartNext]_<<part, vars, shardVars>>
    /\ WF_vars(Handing(WriterStep)) /\ WF_vars(Handing(WorkerStep)) /\ WF_vars(Handing(StopRing))
    /\ SF_vars(Handing(WakeCompletion)) /\ WF_vars(Handing(WakeStop))
=============================================================================
