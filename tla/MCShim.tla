------------------------------- MODULE MCShim -------------------------------
(* Three views of a data node's shim in one run: the write path between    *)
(* nodes (Replication), how a node follows the cluster (CatchUp), and how  *)
(* values cross the wire (Transport).  A behaviour is one of the view it   *)
(* starts with; the state of the others stays as it began.                 *)
EXTENDS Replication, CatchUp, Transport, TLC

CONSTANTS n1, n2, n3,                      \* Replication
          me, p, q, s1, s2,                \* CatchUp
          w1                               \* Transport

VARIABLE part

all == <<part, replicationVars, vars, transportVars>>

(* Replication: three nodes that disagree on who owns the key.  n1         *)
(* believes itself the primary of all three, n2 of itself and n3, and n3   *)
(* has read no topology; n1 may learn that n2 is the primary, or n3 come   *)
(* to believe itself one.  A call asks n3 for more acks than it ever has   *)
(* replicas.                                                               *)
MCViews == {<<n1, n2, n3>>, <<n2, n3>>, <<n3, n1>>}
MCFirstView == (n1 :> <<n1, n2, n3>>) @@ (n2 :> <<n2, n3>>) @@ (n3 :> NoView)
MCChanges == {<<n1, <<n2, n3>>>>, <<n3, <<n3, n1>>>>}
Ask(n, need, big) == [node |-> n, need |-> need, big |-> big]
MCCalls == <<{Ask(n1, 2, FALSE), Ask(n1, 0, FALSE)},
             {Ask(n1, 0, FALSE), Ask(n2, 0, TRUE), Ask(n3, 2, FALSE)}>>

(* CatchUp: the node holds one shard, gains the other one, then loses the  *)
(* first; a lagging replica can give the first one back.                   *)
Topo(live, o1, o2) == [live |-> live, owners |-> (s1 :> o1) @@ (s2 :> o2)]
MCHistory == <<Topo({p, q}, <<me, p>>, <<p, q>>),
               Topo({p}, <<p, me>>, <<q, me>>),
               Topo({p, q}, <<p, q>>, <<q, me>>)>>

(* Transport: two values of one length that differ in every byte, one that *)
(* fills its frame exactly, and the empty one, which is not streamed.      *)
Fill(v, n) == [i \in 1..n |-> v]
MCValues == {Fill(1, 3), Fill(2, 3), Fill(1, 2), <<>>}

ASSUME ShimAssumption == ReplicationConstants /\ CatchUpConstants /\ TransportConstants

ShimInit ==
    /\ part \in {"writes", "follows", "carries"}
    /\ ReplicationInit /\ Init /\ TransportInit

ShimNext ==
    \/ part = "writes" /\ ReplicationNext /\ UNCHANGED <<part, vars, transportVars>>
    \/ part = "follows" /\ Next /\ UNCHANGED <<part, replicationVars, transportVars>>
    \/ part = "carries" /\ TransportNext /\ UNCHANGED <<part, replicationVars, vars>>

(* The fairness of ReplicationFairSpec, and of FairSpec of CatchUp. *)
Follows(A) == part = "follows" /\ A

ShimSpec ==
    /\ ShimInit /\ [][ShimNext]_all
    /\ WF_replicationVars(part = "writes" /\ Progress)
    /\ WF_vars(Follows(Work)) /\ SF_vars(Follows(FetchNodes)) /\ SF_vars(Follows(FetchCoherent))
    /\ WF_vars(Follows(CatchUpWork)) /\ WF_vars(Follows(Destroy))
    /\ \A r \in Replica : WF_vars(Follows(Advance(r)))

---------------------------------------------------------------------------
(* CatchUp: a node that follows the cluster settles on the group's last    *)
(* topology.                                                               *)
FollowerSettles == part = "follows" => ViewSettles
=============================================================================
