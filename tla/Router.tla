------------------------------- MODULE Router -------------------------------
(***************************************************************************)
(* Placement: the rendezvous ranking of control/internal/router, the pair  *)
(* of maps the metadata service publishes (metadata/service.go), and what  *)
(* a client accepts (topology.validate).                                   *)
(*                                                                         *)
(* Node IDs are numbers, whose order stands for the lexicographic one; a   *)
(* weight is any function w, with ties: w[s][n] is the score of node n for *)
(* shard s.  A node's address is its ID.                                   *)
(***************************************************************************)
EXTENDS Integers, Sequences, FiniteSetsExt, Functions

CONSTANTS Node, Shard,
          Factor  \* the replication factor of the group

ASSUME RouterAssumption ==
    /\ Node \subseteq Nat /\ IsFiniteSet(Node) /\ Factor \in Nat
    /\ IsFiniteSet(Shard) /\ Shard # {}  \* shard_count must be positive

(* a ranks before b: higher weight, then the smaller ID. *)
ranksBefore(w, s, a, b) == w[s][a] > w[s][b] \/ (w[s][a] = w[s][b] /\ a < b)

(* Members arrive sorted by ID (normalizeNodes). *)
NodeIDs(members) ==
    CHOOSE ids \in [1..Cardinality(members) -> members] :
        \A i, j \in DOMAIN ids : i < j => ids[i] < ids[j]

(* A loop over the members, in that order: op(acc, n) for each node n. *)
OverNodes(op(_, _), base, members) ==
    MapThenFoldSet(LAMBDA n, acc : op(acc, n), base, LAMBDA n : n, Max, members)

(* Mutant: ties are left to the order of the loop, the last one winning. *)
BetterOrEqual(w, s, best, n) == IF w[s][n] >= w[s][best] THEN n ELSE best

Better(w, s, best, n) == IF ranksBefore(w, s, n, best) THEN n ELSE best

(* The best node so far, over all nodes. *)
AssignShards(w, members) ==
    IF members = {} THEN <<>>
    ELSE LET first == Min(members) IN
         [s \in Shard |-> OverNodes(LAMBDA best, n : Better(w, s, best, n), first, members \ {first})]

(* The list of the best nodes so far: the new one goes behind the last     *)
(* entry it does not rank before, and the last one falls off when the list *)
(* is full.                                                                *)
Insert(w, s, wanted, top, n) ==
    LET position == Max({0} \cup {i \in DOMAIN top : ~ranksBefore(w, s, n, top[i])})
        all == SubSeq(top, 1, position) \o <<n>> \o SubSeq(top, position + 1, Len(top))
    IN SubSeq(all, 1, Min({wanted, Len(all)}))

Copies(members) == Min({Factor + 1, Cardinality(members)})

AssignShardOwners(w, members) ==
    IF members = {} THEN <<>>
    ELSE [s \in Shard |->
             LET top == OverNodes(LAMBDA t, n : Insert(w, s, Copies(members), t, n), <<>>, members)
             IN [primary |-> Head(top), replicas |-> Tail(top)]]

(* Service.placement: what is published, or None when the maps disagree. *)
None == [nodes |-> {}, shardMap |-> <<>>, owners |-> <<>>, ok |-> FALSE]

Placement(w, members) ==
    LET shardMap == AssignShards(w, members)
        owners == AssignShardOwners(w, members)
        agree == \A s \in DOMAIN shardMap : owners[s].primary = shardMap[s]
    IN IF agree THEN [nodes |-> members, shardMap |-> shardMap, owners |-> owners, ok |-> TRUE] ELSE None

(* topology.validate, for a response whose node list is well formed. *)
Valid(t) ==
    /\ t.ok
    /\ t.nodes = {} => t.shardMap = <<>> /\ t.owners = <<>>
    /\ t.nodes # {} =>
          /\ DOMAIN t.shardMap = Shard /\ DOMAIN t.owners = Shard
          /\ \A s \in Shard :
                LET o == t.owners[s] IN
                /\ t.shardMap[s] \in t.nodes /\ o.primary = t.shardMap[s]
                /\ Len(o.replicas) <= Cardinality(t.nodes)
                /\ Range(o.replicas) \subseteq t.nodes
                /\ IsInjective(<<o.primary>> \o o.replicas)

(* Snapshot.OwnsAddress: the nodes that are the primary of some shard. *)
Owning(t) == Range(t.shardMap)
=============================================================================
