------------------------------- MODULE Config -------------------------------
(***************************************************************************)
(* internal/config: the cluster file every process of a PulseKV cluster    *)
(* reads at its start.  A file is a record; a field left out of the YAML   *)
(* holds its zero value (0 or "", and Unset for replication_factor, whose  *)
(* 0 is a real setting).  Load fills the defaults in and then refuses a    *)
(* file whose listeners or identities collide.                             *)
(***************************************************************************)
EXTENDS Integers, Sequences, SequencesExt

Unset == -99
MaxPort == 65535
MaxReplicationFactor == 8
Loopback == "127.0.0.1"
Unspecified == "0.0.0.0"
IPs == {Loopback, Unspecified}              \* what net.ParseIP accepts here
DefaultID == <<"cp-0", "cp-1", "cp-2">>     \* fmt.Sprintf("cp-%d", i)

orNumber(n, default) == IF n = 0 THEN default ELSE n
orText(t, default) == IF t = "" THEN default ELSE t

(* A file's indices start at 1 here and at 0 in the code.                  *)
applyDefaults(f) ==
  [cps |-> [i \in DOMAIN f.cps |->
     [node_id     |-> orText(f.cps[i].node_id, DefaultID[i]),
      host        |-> orText(f.cps[i].host, Loopback),
      port        |-> orNumber(f.cps[i].port, 7000 + i - 1),
      gossip_port |-> orNumber(f.cps[i].gossip_port, 7240 + i - 1),
      raft_port   |-> orNumber(f.cps[i].raft_port, 7300 + i - 1)]],
   nodes |-> [i \in DOMAIN f.nodes |->
     [f.nodes[i] EXCEPT !.host = orText(@, Loopback),
                        !.gossip_port = orNumber(@, 7201 + i - 1)]],
   election_ms |-> orNumber(f.election_ms, 500),
   propose_ms  |-> orNumber(f.propose_ms, 200),
   factor      |-> IF f.factor = Unset THEN 1 ELSE f.factor]

Address(entry) == <<entry.host, entry.port>>
GossipAddress(entry) == <<entry.host, entry.gossip_port>>
RaftAddress(replica) == <<replica.host, replica.raft_port>>

validatePort(port) == port \in 1..MaxPort
validateGossipHost(host) == host \in IPs \ {Unspecified}

(* seenAddr: every listener of the file, in the order Validate adds them.  *)
Listeners(c) ==
  FlattenSeq([i \in DOMAIN c.cps |-> <<Address(c.cps[i]), GossipAddress(c.cps[i]),
                                       RaftAddress(c.cps[i])>>])
    \o FlattenSeq([i \in DOMAIN c.nodes |-> <<Address(c.nodes[i]),
                                              GossipAddress(c.nodes[i])>>])

(* addAddress.                                                             *)
NoneTwice(s) == \A i, j \in DOMAIN s : s[i] = s[j] => i = j

ControlPlaneIDs(c) == [i \in DOMAIN c.cps |-> c.cps[i].node_id]
NodeIDs(c) == [i \in DOMAIN c.nodes |-> c.nodes[i].node_id]

(* The shape of an ID is left out: an ID is a value, "" the missing one.   *)
Validate(c) ==
  /\ c.cps # <<>> /\ c.nodes # <<>>
  /\ \A i \in DOMAIN c.cps :
       /\ c.cps[i].node_id # ""
       /\ validateGossipHost(c.cps[i].host)
       /\ validatePort(c.cps[i].port)
       /\ validatePort(c.cps[i].gossip_port)
       /\ validatePort(c.cps[i].raft_port)
  /\ \A i \in DOMAIN c.nodes :
       /\ c.nodes[i].node_id # ""
       /\ validateGossipHost(c.nodes[i].host)
       /\ validatePort(c.nodes[i].port)
       /\ validatePort(c.nodes[i].gossip_port)
  /\ NoneTwice(ControlPlaneIDs(c)) /\ NoneTwice(NodeIDs(c))
  /\ c.election_ms >= 50 /\ c.propose_ms > 0
  /\ c.factor \in 0..MaxReplicationFactor
  /\ NoneTwice(Listeners(c))

(* Load of a file: loads holds when the process may go on with it.         *)
loads(f) == Validate(applyDefaults(f))

ControlPlaneGossipSeeds(c) == [i \in DOMAIN c.cps |-> GossipAddress(c.cps[i])]
NodeGossipSeeds(c) == [i \in DOMAIN c.nodes |-> GossipAddress(c.nodes[i])]

(* ControlPlaneByID and configuredNode: found holds when there is one.     *)
found(entries, id) == \E i \in DOMAIN entries : entries[i].node_id = id
byID(entries, id) ==
  entries[CHOOSE i \in DOMAIN entries :
            /\ entries[i].node_id = id
            /\ \A j \in 1..(i - 1) : entries[j].node_id # id]
=============================================================================
