----------------------------- MODULE MCSidecar -----------------------------
EXTENDS Sidecar

Cp(id) == [node_id |-> id, host |-> "", port |-> 0, gossip_port |-> 0, raft_port |-> 0]
Node(id, p) == [node_id |-> id, host |-> "", port |-> p, gossip_port |-> 0]
Group(nodes) == [cps |-> <<Cp(""), Cp("cp-1")>>, nodes |-> nodes,
                 election_ms |-> 0, propose_ms |-> 0, factor |-> Unset]

(* n1 moves to a new port and n2 takes its old one; the third file gives   *)
(* both one port.                                                          *)
MCFiles == <<Group(<<Node("n1", 7100), Node("n2", 7101)>>),
             Group(<<Node("n1", 7102), Node("n2", 7100)>>),
             Group(<<Node("n1", 7100), Node("n2", 7100)>>)>>
=============================================================================
