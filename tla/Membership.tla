----------------------------- MODULE Membership -----------------------------
(***************************************************************************)
(* internal/membership: one gossip participant per process (Manager) and   *)
(* the view of the data nodes it publishes.  The memberlist library below  *)
(* it (SWIM probing, suspicion, push/pull) is external: participants that  *)
(* reach one another form a ring, and a participant may hear of a change   *)
(* anywhere in its ring, at any time.                                      *)
(*                                                                         *)
(* Only the control planes' views are kept: nobody reads a sidecar's.  The *)
(* number of a snapshot is left out: the bridge compares the node sets.    *)
(***************************************************************************)
EXTENDS Integers, Sequences, FiniteSets, FiniteSetsExt, Config

CONSTANTS Controls, Data,  \* the node IDs of the two kinds of process
          MaxFaults        \* faults, stops and edits in one behaviour

VARIABLES
  life,     \* a participant's listeners: "closed", "open", or "left" but open
  meta,     \* the metadata a participant advertises
  at,       \* the gossip address it is bound to
  ring,     \* the participants it shares a gossip ring with, itself included
  records,  \* records[c][d]: view.records of control plane c for data node d
  snap,     \* view.current of control plane c
  faults    \* faults spent so far

gossipVars == <<life, meta, at, ring, records, snap>>

P == Controls \cup Data
NoAddress == <<"", 0>>
NoMeta == [role |-> "none", node_id |-> "", address |-> NoAddress]
Spend(n) == faults + n <= MaxFaults /\ faults' = faults + n
Fault == Spend(1)
NoFault == UNCHANGED faults

(* NodeMeta of a participant: a control plane advertises no identity.      *)
ControlMeta == [role |-> "control", node_id |-> "", address |-> NoAddress]
DataMeta(id, address) == [role |-> "data", node_id |-> id, address |-> address]

validateServiceAddress(a) == a[1] # "" /\ validatePort(a[2])
validateNodeMeta(m) ==
  \/ m.role = "control" /\ m.node_id = "" /\ m.address = NoAddress
  \/ m.role = "data" /\ m.node_id # "" /\ validateServiceAddress(m.address)

-----------------------------------------------------------------------------
(* view.  A control plane's record never reaches the candidate.            *)

DataRecords(recs) ==
  {q \in DOMAIN recs : recs[q].role = "data" /\ validateNodeMeta(recs[q])}

Ambiguous(recs) ==
  \E q, r \in DataRecords(recs) :
    /\ q # r
    /\ \/ recs[q].node_id = recs[r].node_id
       \/ recs[q].address = recs[r].address

NodesOf(recs) ==
  {<<recs[q].node_id, recs[q].address>> : q \in DataRecords(recs)}

(* Mutant: an ambiguous candidate is published all the same.               *)
publishAmbiguous(current, recs) == NodesOf(recs)

(* Mutant: an empty candidate is not published.                            *)
publishNonEmpty(current, recs) ==
  IF Ambiguous(recs) \/ NodesOf(recs) = {} THEN current ELSE NodesOf(recs)

publishCandidate(current, recs) ==
  IF Ambiguous(recs) THEN current ELSE NodesOf(recs)

(* One event is one upsert, or one remove when m is NoMeta.                *)
Hear(heard) ==  \* a set of <<control plane, data node, metadata>>
  /\ records' = [c \in Controls |-> [d \in Data |->
                   IF \E h \in heard : h[1] = c /\ h[2] = d
                   THEN (CHOOSE h \in heard : h[1] = c /\ h[2] = d)[3]
                   ELSE records[c][d]]]
  /\ snap' = [c \in Controls |-> publishCandidate(snap[c], records'[c])]

-----------------------------------------------------------------------------
(* Manager.                                                                *)

(* New: the listeners open and the participant knows only itself.  The     *)
(* seeds are contacted by Join alone.                                      *)
New(p, m, address) ==
  /\ life[p] = "closed"
  /\ validateNodeMeta(m)
  /\ \A q \in P : life[q] # "closed" => at[q] # address
  /\ life' = [life EXCEPT ![p] = "open"]
  /\ meta' = [meta EXCEPT ![p] = m]
  /\ at' = [at EXCEPT ![p] = address]
  /\ UNCHANGED <<ring, records, snap>>

Listening(p, address) == life[p] # "closed" /\ at[p] = address
Reaches(address) == \E q \in P : Listening(q, address)

(* Join of one seed that answers: the two rings become one, and the two    *)
(* participants learn of each other at once.  A seed that has left answers *)
(* too, but is not alive.  A closed or left manager refuses to join.       *)
Join(p, address) ==
  /\ life[p] = "open"
  /\ \E q \in P \ {p} :
       /\ Listening(q, address)
       /\ ring' = [r \in P |-> IF r \in ring[p] \cup ring[q]
                               THEN ring[p] \cup ring[q] ELSE ring[r]]
       /\ Hear({<<c, d, meta[d]>> : c \in {p, q} \cap Controls,
                 d \in {r \in {p, q} \cap Data : life[r] = "open"}})
  /\ UNCHANGED <<life, meta, at>>

(* Close: the leave is broadcast while the listeners still run, then they  *)
(* always stop.                                                            *)
leaveLocked(p) ==
  /\ life[p] = "open"
  /\ life' = [life EXCEPT ![p] = "left"]
  /\ UNCHANGED <<meta, at, ring, records, snap>>

Alone(p) == [q \in P |-> IF q = p THEN {p} ELSE ring[q] \ {p}]

(* The listeners stop, after a leave or without one.  What a participant   *)
(* knew goes with it.                                                      *)
Shutdown(p) ==
  /\ life' = [life EXCEPT ![p] = "closed"]
  /\ meta' = [meta EXCEPT ![p] = NoMeta]
  /\ at' = [at EXCEPT ![p] = NoAddress]
  /\ ring' = Alone(p)
  /\ records' = [c \in Controls |->
                   IF c = p THEN [d \in Data |-> NoMeta] ELSE records[c]]
  /\ snap' = [c \in Controls |-> IF c = p THEN {} ELSE snap[c]]

-----------------------------------------------------------------------------
(* memberlist, through eventDelegate.                                      *)

(* A live member of c's own ring.                                          *)
Member(c, d) == life[c] = "open" /\ life[d] = "open" /\ d \in ring[c]

(* NotifyJoin or NotifyUpdate: c hears of d as it now is.                  *)
NotifyJoin(c, d) ==
  /\ Member(c, d)
  /\ records[c][d] # meta[d]
  /\ Hear({<<c, d, meta[d]>>})
  /\ NoFault
  /\ UNCHANGED <<life, meta, at, ring>>

(* NotifyLeave: d has left, or its death is detected.                      *)
NotifyLeave(c, d) ==
  /\ ~Member(c, d)
  /\ records[c][d] # NoMeta
  /\ Hear({<<c, d, NoMeta>>})
  /\ NoFault
  /\ UNCHANGED <<life, meta, at, ring>>

(* NotifyLeave of a live member whose probe answers were lost.             *)
NotifySuspected(c, d) ==
  /\ Member(c, d)
  /\ records[c][d] # NoMeta
  /\ Hear({<<c, d, NoMeta>>})
  /\ Fault
  /\ UNCHANGED <<life, meta, at, ring>>

(* A participant cut off for longer than its peers remember it: both sides *)
(* take the other for dead, and memberlist does not look for it again.     *)
CutOff(p) ==
  /\ life[p] = "open" /\ ring[p] # {p}
  /\ ring' = Alone(p)
  /\ Fault
  /\ UNCHANGED <<life, meta, at, records, snap>>

GossipInit ==
  /\ life = [p \in P |-> "closed"]
  /\ meta = [p \in P |-> NoMeta]
  /\ at = [p \in P |-> NoAddress]
  /\ ring = [p \in P |-> {p}]
  /\ records = [c \in Controls |-> [d \in Data |-> NoMeta]]
  /\ snap = [c \in Controls |-> {}]
  /\ faults = 0
=============================================================================
