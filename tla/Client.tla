------------------------------- MODULE Client -------------------------------
(***************************************************************************)
(* The Go SDK (control/pkg/client) over the topologies the metadata        *)
(* service publishes: the refresh loop, calls that look a connection up or *)
(* dial one without the lock, and Close.                                   *)
(*                                                                         *)
(* history is the sequence of topologies published so far.  The two RPCs   *)
(* of one Fetch go to one control-plane replica, which may lag behind but  *)
(* never goes back (PublishedNeverBack of Metastore).                      *)
(***************************************************************************)
EXTENDS Router

CONSTANTS Caller, Closer,
          Weights,    \* weight functions
          Score,      \* bound: the weights of a cluster that gets a client,
          Start,      \* bound: its membership when New is called,
          Churning,   \* bound: the nodes that join and leave afterwards
          MaxHistory, \* bound: topologies published
          MaxConns,   \* bound: node connections dialled
          MaxTries    \* maxCoherenceAttempts

ASSUME ClientAssumption ==
    /\ Start \subseteq Node /\ Churning \subseteq Node 
    /\ Weights \subseteq [Shard -> [Node -> Nat]] /\ Score \in Weights
    /\ MaxHistory \in Nat /\ MaxConns \in Nat /\ MaxTries \in Nat \ {0}

VARIABLES
    weight, history,  \* the control plane
    started,          \* New has returned
    topo,             \* c.topology
    pool,             \* nodeConns: address -> connection
    closed,           \* c.closed
    cancelled,        \* the refresh context
    closeDone,        \* the closeDone channel is closed
    endpoints,        \* the control-plane connections are open
    open, made,       \* node connections: the open ones, how many were dialled
    refresh,          \* the refresh goroutine
    caller, closer

vars == <<weight, history, started, topo, pool, closed, cancelled, closeDone,
          endpoints, open, made, refresh, caller, closer>>

Conn == 1..MaxConns
IdleRefresh == [pc |-> "idle", nodes |-> 1, tries |-> 0, next |-> None, retired |-> {}]
IdleCaller == [pc |-> "idle", todo |-> <<>>, conn |-> 0]
IdleCloser == [pc |-> "idle", conns |-> {}]

Init ==
    /\ weight \in Weights
    /\ history = <<Placement(weight, {})>>
    /\ started = FALSE
    /\ topo = history[1]
    /\ pool = <<>>
    /\ closed = FALSE /\ cancelled = FALSE /\ closeDone = FALSE /\ endpoints = TRUE
    /\ open = {} /\ made = 0
    /\ refresh = IdleRefresh
    /\ caller = [c \in Caller |-> IdleCaller]
    /\ closer = [k \in Closer |-> IdleCloser]

ClientUnchanged == UNCHANGED <<pool, closed, cancelled, closeDone, endpoints, open, made, caller, closer>>

(* The topology the control plane serves. *)
Newest == history[Len(history)]

(* Before there is a client: any membership replaces any other, as a       *)
(* command of the metadata log does.                                       *)
Settle(members) ==
    /\ ~started /\ members # Newest.nodes
    /\ history' = <<Placement(weight, members)>>
    /\ UNCHANGED <<weight, started, topo, refresh>> /\ ClientUnchanged

(* One eager refresh; with an interval of 0 there is no refresh loop and   *)
(* refreshDone is closed from the start.                                   *)
New ==
    /\ ~started /\ weight = Score /\ Newest.nodes = Start
    /\ Valid(Newest)
    /\ started' = TRUE
    /\ topo' = Newest
    /\ refresh' \in {IdleRefresh, [IdleRefresh EXCEPT !.pc = "done"]}
    /\ UNCHANGED <<weight, history>> /\ ClientUnchanged

(* A data node joins or leaves and the new topology is published. *)
Publish(n) ==
    /\ started /\ Len(history) < MaxHistory
    /\ history' = Append(history, Placement(weight, SymDiff(Newest.nodes, {n})))
    /\ UNCHANGED <<weight, started, topo, refresh>> /\ ClientUnchanged

-----------------------------------------------------------------------------
(* The refresh loop *)

(* Mutant: the digest covers the shard map and not the nodes. *)
FingerprintMapOnly(t) == t.shardMap

(* The digest of a topology, as the content it covers. *)
Fingerprint(t) == t

(* What the two responses of one attempt say: the nodes of topology i *)
(* and the maps of topology j.                                        *)
Response(i, j) == [history[j] EXCEPT !.nodes = history[i].nodes]

Coherent(i, j) == Fingerprint(history[i]) = Fingerprint(history[j])

(* The content must be valid, and have the fingerprint it came with. *)
Accepted(i, j) ==
    Valid(Response(i, j)) /\ Fingerprint(Response(i, j)) = Fingerprint(history[j])

RefreshUnchanged == UNCHANGED <<weight, history, started, closed, cancelled, closeDone, endpoints, made, caller, closer>>

(* The ticker fires, or an attempt is made again, and GetNodeList answers,  *)
(* from a replica at any published topology; a later attempt of the same    *)
(* Fetch asks the same replica.  A tick whose first RPC fails, as every one *)
(* does once the context is cancelled, changes nothing.                     *)
FetchNodes ==
    /\ started /\ refresh.pc \in {"idle", "again"} /\ ~cancelled
    /\ \E i \in refresh.nodes..Len(history) :
          refresh' = [refresh EXCEPT !.pc = "shards", !.nodes = i, !.tries = @ + 1]
    /\ RefreshUnchanged /\ UNCHANGED <<topo, pool, open>>

TryAgain(tries) == tries < MaxTries

(* GetShardMap, and fingerprints that differ: try again, up to the bound. *)
FetchIncoherent ==
    /\ refresh.pc = "shards" /\ ~cancelled
    /\ \E j \in refresh.nodes..Len(history) :
          /\ ~Coherent(refresh.nodes, j)
          /\ refresh' = IF TryAgain(refresh.tries)
                        THEN [refresh EXCEPT !.pc = "again", !.nodes = j]
                        ELSE IdleRefresh
    /\ RefreshUnchanged /\ UNCHANGED <<topo, pool, open>>

(* They agree: the snapshot is accepted or the refresh fails. *)
FetchCoherent ==
    /\ refresh.pc = "shards" /\ ~cancelled
    /\ \E j \in refresh.nodes..Len(history) :
          /\ Coherent(refresh.nodes, j)
          /\ refresh' = IF Accepted(refresh.nodes, j)
                        THEN [IdleRefresh EXCEPT !.pc = "install", !.next = Response(refresh.nodes, j)]
                        ELSE IdleRefresh
    /\ RefreshUnchanged /\ UNCHANGED <<topo, pool, open>>

(* An RPC fails or the context ends: the last topology is kept.  With the *)
(* fallback over the endpoints the next Fetch starts afresh.              *)
FetchFails ==
    /\ refresh.pc \in {"again", "shards"}
    /\ refresh' = IdleRefresh
    /\ RefreshUnchanged /\ UNCHANGED <<topo, pool, open>>

(* The pooled addresses that no longer own a shard. *)
Retire(t) == {a \in DOMAIN pool : a \notin Owning(t)}

(* Under mu: the new topology, and the connections it retires. *)
Install ==
    /\ refresh.pc = "install"
    /\ IF closed
       THEN /\ refresh' = IdleRefresh
            /\ UNCHANGED <<topo, pool>>
       ELSE LET out == Retire(refresh.next) IN
            /\ topo' = refresh.next
            /\ pool' = [a \in DOMAIN pool \ out |-> pool[a]]
            /\ refresh' = [IdleRefresh EXCEPT !.pc = "close", !.retired = {pool[a] : a \in out}]
    /\ RefreshUnchanged /\ UNCHANGED open

(* Outside mu. *)
CloseRetired ==
    /\ refresh.pc = "close"
    /\ open' = open \ refresh.retired
    /\ refresh' = IdleRefresh
    /\ RefreshUnchanged /\ UNCHANGED <<topo, pool>>

RefreshExits ==
    /\ refresh.pc = "idle" /\ cancelled
    /\ refresh' = [IdleRefresh EXCEPT !.pc = "done"]
    /\ RefreshUnchanged /\ UNCHANGED <<topo, pool, open>>

RefreshStep == \/ FetchFails \/ FetchIncoherent \/ FetchCoherent
               \/ Install \/ CloseRetired \/ RefreshExits

-----------------------------------------------------------------------------
(* Calls *)

CallUnchanged == UNCHANGED <<weight, history, started, topo, closed, cancelled, closeDone, endpoints, refresh, closer>>

(* clientForKey: Get and Put go to the owner of the key's shard. *)
RouteKey(c, s) ==
    /\ started /\ caller[c].pc = "idle" /\ ~closed /\ topo.nodes # {}
    /\ caller' = [caller EXCEPT ![c] = [IdleCaller EXCEPT !.pc = "lookup", !.todo = <<topo.shardMap[s]>>]]
    /\ CallUnchanged /\ UNCHANGED <<pool, open, made>>

(* nodeAddresses: PrefixMatch visits every owning address, in order. *)
RouteScan(c) ==
    /\ started /\ caller[c].pc = "idle" /\ ~closed /\ topo.nodes # {}
    /\ caller' = [caller EXCEPT ![c] = [IdleCaller EXCEPT !.pc = "lookup", !.todo = NodeIDs(Owning(topo))]]
    /\ CallUnchanged /\ UNCHANGED <<pool, open, made>>

(* The RPC on the connection that was looked up touches nothing shared.  It *)
(* answers, and a scan goes on to its next address, or it fails, as it does *)
(* at once on a connection that was closed meanwhile.                       *)
AfterCall(todo) ==
    {IdleCaller} \cup
    (IF Len(todo) > 1 THEN {[pc |-> "lookup", todo |-> Tail(todo), conn |-> 0]} ELSE {})

(* clientForAddress, first half, under the read lock. *)
LookupFails(c) ==
    /\ caller[c].pc = "lookup"
    /\ closed \/ Head(caller[c].todo) \notin Owning(topo)
    /\ caller' = [caller EXCEPT ![c] = IdleCaller]
    /\ CallUnchanged /\ UNCHANGED <<pool, open, made>>

LookupPooled(c) ==
    /\ caller[c].pc = "lookup" /\ ~closed
    /\ Head(caller[c].todo) \in Owning(topo) \cap DOMAIN pool
    /\ \E after \in AfterCall(caller[c].todo) : caller' = [caller EXCEPT ![c] = after]
    /\ CallUnchanged /\ UNCHANGED <<pool, open, made>>

LookupMisses(c) ==
    /\ caller[c].pc = "lookup" /\ ~closed
    /\ Head(caller[c].todo) \in Owning(topo) \ DOMAIN pool
    /\ caller' = [caller EXCEPT ![c].pc = "dial"]
    /\ CallUnchanged /\ UNCHANGED <<pool, open, made>>

(* nodeConnFactory, without a lock; it may fail. *)
Dial(c) ==
    /\ caller[c].pc = "dial" /\ made < MaxConns
    /\ made' = made + 1 /\ open' = open \cup {made + 1}
    /\ caller' = [caller EXCEPT ![c].pc = "insert", ![c].conn = made + 1]
    /\ CallUnchanged /\ UNCHANGED pool

DialFails(c) ==
    /\ caller[c].pc = "dial"
    /\ caller' = [caller EXCEPT ![c] = IdleCaller]
    /\ CallUnchanged /\ UNCHANGED <<pool, open, made>>

(* Mutant: the second look drops a check. *)
MayPoolUnowned(a) == ~closed

(* The checks that the second look, under the lock, makes again. *)
MayPool(a) == ~closed /\ a \in Owning(topo)

(* clientForAddress, second half, under the lock: the connection is closed *)
(* again, or another caller's is used instead, or it joins the pool.       *)
InsertRefused(c) ==
    /\ caller[c].pc = "insert" /\ ~MayPool(Head(caller[c].todo))
    /\ open' = open \ {caller[c].conn}
    /\ caller' = [caller EXCEPT ![c] = IdleCaller]
    /\ CallUnchanged /\ UNCHANGED <<pool, made>>

InsertReuses(c) ==
    /\ caller[c].pc = "insert" /\ MayPool(Head(caller[c].todo))
    /\ Head(caller[c].todo) \in DOMAIN pool
    /\ open' = open \ {caller[c].conn}
    /\ \E after \in AfterCall(caller[c].todo) : caller' = [caller EXCEPT ![c] = after]
    /\ CallUnchanged /\ UNCHANGED <<pool, made>>

(* Mutant: the pooled connection is overwritten. *)
FreeAlways(a) == TRUE

Free(a) == a \notin DOMAIN pool

InsertPools(c) ==
    LET a == Head(caller[c].todo) IN
    /\ caller[c].pc = "insert" /\ MayPool(a) /\ Free(a)
    /\ pool' = [b \in DOMAIN pool \cup {a} |-> IF b = a THEN caller[c].conn ELSE pool[b]]
    /\ \E after \in AfterCall(caller[c].todo) : caller' = [caller EXCEPT ![c] = after]
    /\ CallUnchanged /\ UNCHANGED <<open, made>>

CallStep(c) == \/ LookupFails(c) \/ LookupPooled(c) \/ LookupMisses(c)
               \/ Dial(c) \/ DialFails(c)
               \/ InsertRefused(c) \/ InsertReuses(c) \/ InsertPools(c)

-----------------------------------------------------------------------------
(* Close *)

CloseUnchanged == UNCHANGED <<weight, history, started, topo, pool, made, refresh, caller>>

(* Under mu: the first Close takes the connections; another one waits. *)
CloseBegin(k) ==
    /\ started /\ closer[k].pc = "idle"
    /\ closed' = TRUE
    /\ closer' = [closer EXCEPT ![k] = IF closed THEN [pc |-> "wait", conns |-> {}]
                                       ELSE [pc |-> "cancel", conns |-> Range(pool)]]
    /\ CloseUnchanged /\ UNCHANGED <<cancelled, closeDone, endpoints, open>>

(* Mutant: the refresh context is not cancelled. *)
CloseCancelForgotten(k) ==
    /\ closer[k].pc = "cancel"
    /\ closer' = [closer EXCEPT ![k].pc = "join"]
    /\ CloseUnchanged /\ UNCHANGED <<closed, cancelled, closeDone, endpoints, open>>

CloseCancel(k) ==
    /\ closer[k].pc = "cancel"
    /\ cancelled' = TRUE
    /\ closer' = [closer EXCEPT ![k].pc = "join"]
    /\ CloseUnchanged /\ UNCHANGED <<closed, closeDone, endpoints, open>>

(* <-refreshDone *)
RefreshDone == refresh.pc = "done"

(* The connections are closed, then closeDone is. *)
CloseConns(k) ==
    /\ closer[k].pc = "join" /\ RefreshDone
    /\ open' = open \ closer[k].conns
    /\ endpoints' = FALSE /\ closeDone' = TRUE
    /\ closer' = [closer EXCEPT ![k] = [pc |-> "returned", conns |-> {}]]
    /\ CloseUnchanged /\ UNCHANGED <<closed, cancelled>>

CloseWaits(k) ==
    /\ closer[k].pc = "wait" /\ closeDone
    /\ closer' = [closer EXCEPT ![k].pc = "returned"]
    /\ CloseUnchanged /\ UNCHANGED <<closed, cancelled, closeDone, endpoints, open>>

CloseStep(k) == CloseCancel(k) \/ CloseConns(k) \/ CloseWaits(k)

-----------------------------------------------------------------------------
Next ==
    \/ \E members \in SUBSET Node : Settle(members)
    \/ New
    \/ \E n \in Churning : Publish(n)
    \/ FetchNodes \/ RefreshStep
    \/ \E c \in Caller : RouteScan(c) \/ CallStep(c) \/ \E s \in Shard : RouteKey(c, s)
    \/ \E k \in Closer : CloseBegin(k) \/ CloseStep(k)

Spec == Init /\ [][Next]_vars

(* The goroutines run, and an RPC ends by its deadline.  Nobody has to      *)
(* call or to close, and the ticker need not fire.                          *)
FairSpec ==
    /\ Spec
    /\ WF_vars(RefreshStep)
    /\ \A c \in Caller : WF_vars(CallStep(c))
    /\ \A k \in Closer : WF_vars(CloseStep(k))

-----------------------------------------------------------------------------
(* Properties *)

(* Every variable has its type. *)
TypeOK ==
    /\ weight \in Weights /\ started \in BOOLEAN
    /\ \A i \in 1..Len(history) : history[i].nodes \subseteq Node
    /\ DOMAIN pool \subseteq Node /\ Range(pool) \subseteq Conn
    /\ open \subseteq 1..made /\ made \in 0..MaxConns
    /\ {closed, cancelled, closeDone, endpoints} \subseteq BOOLEAN
    /\ refresh.pc \in {"idle", "again", "shards", "install", "close", "done"}
    /\ refresh.tries \in 0..MaxTries /\ refresh.retired \subseteq Conn
    /\ \A c \in Caller : caller[c].pc \in {"idle", "lookup", "dial", "insert"}
    /\ \A c \in Caller : caller[c].pc # "idle" => caller[c].todo # <<>>
    /\ \A k \in Closer : closer[k].pc \in {"idle", "cancel", "join", "wait", "returned"}

(* Validation accepts t, and the owners of a shard are the best 1 + Factor *)
(* nodes there are, in rank order.                                         *)
ExactTopology(t) ==
    /\ Valid(t)
    /\ t.nodes # {} => \A s \in Shard :
          LET own == <<t.owners[s].primary>> \o t.owners[s].replicas IN
          /\ Len(own) = Min({Factor + 1, Cardinality(t.nodes)})
          /\ \A j \in 1..Len(own) :
                \A n \in t.nodes \ {own[x] : x \in 1..j} : ranksBefore(weight, s, own[j], n)

(* AssignShards and AssignShardOwners are two computations of one ranking: *)
(* whatever the membership, they agree, ties included, so placement never  *)
(* refuses; the client's validation accepts what is published; and the     *)
(* owners are exactly the best nodes.  And a change of membership moves a  *)
(* shard only away from a node that left or to a node that joined, never   *)
(* between two nodes present in both ("exactly, not statistically":        *)
(* AssignShards' comment).                                                 *)
Moved(old, new) == {s \in DOMAIN old.shardMap \cap DOMAIN new.shardMap : old.shardMap[s] # new.shardMap[s]}
Placed ==
    [][history' # history =>
          LET old == Newest
              new == Newest'
          IN /\ ExactTopology(new)
             /\ \A s \in Moved(old, new) : old.shardMap[s] \notin new.nodes \/ new.shardMap[s] \notin old.nodes]_vars

(* The topology a client routes by is one the control plane published as a *)
(* whole, though its two halves are read by two RPCs around which the      *)
(* membership moves.                                                       *)
CoherentTopology == started => \E i \in 1..Len(history) : topo = history[i]

(* While the client is open, it pools connections only to nodes that own a *)
(* shard, though a connection is dialled without the lock while the        *)
(* topology is replaced.                                                   *)
PoolOwned == ~closed => DOMAIN pool \subseteq Owning(topo)

(* The client's state is well formed and its pool follows the topology. *)
PoolSafe == TypeOK /\ PoolOwned

(* Who will close connection x. *)
Holders(x) ==
    {<<"pool", a>> : a \in {a \in DOMAIN pool : ~closed /\ pool[a] = x}}
    \cup {<<"caller", c>> : c \in {c \in Caller : caller[c].pc = "insert" /\ caller[c].conn = x}}
    \cup {<<"closer", k>> : k \in {k \in Closer : x \in closer[k].conns}}
    \cup (IF x \in refresh.retired THEN {<<"refresh">>} ELSE {})

(* Every open connection has exactly one holder that is going to close it, *)
(* and a closed one has none: nothing leaks and nothing is closed twice    *)
(* (the comment in refresh: removed entries are disjoint from the ones     *)
(* Close snapshots).                                                       *)
OneHolder == \A x \in 1..made : Cardinality(Holders(x)) = IF x \in open THEN 1 ELSE 0

(* Every Close returns, the concurrent ones with the first: Close waits    *)
(* for the refresh loop, which may be anywhere in a fetch.                 *)
CloseReturns == []<>(\A k \in Closer : closer[k].pc \in {"idle", "returned"})
=============================================================================
