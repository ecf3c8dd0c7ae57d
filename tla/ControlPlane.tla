---------------------------- MODULE ControlPlane ----------------------------
(***************************************************************************)
(* cmd/controlplane: the start, the gossip bootstrap and the end of one    *)
(* replica.  What it serves is Metastore's and Router's matter; here it is *)
(* the observer whose view the bridge proposes.                            *)
(***************************************************************************)
EXTENDS Membership

CONSTANTS Files,  \* the cluster files an operator may put in place, file 1 first
          Idle    \* one of these processes is never started

VARIABLES
  file,    \* the cluster file in place
  loaded,  \* the file each process loaded when it started
  cpc,     \* where joinGossipPeers is: "off", "join", "sync", "done", or
           \* "idle" where the process is never started
  todo     \* the control planes a process still has to sync with

files == <<file, loaded>>
controlVars == <<cpc, todo>>

Cfg == [i \in DOMAIN Files |-> applyDefaults(Files[i])]
Loads == [i \in DOMAIN Files |-> loads(Files[i])]

(* The control planes' gossip addresses, then the nodes': a file that      *)
(* loads has none of them twice.                                           *)
CpSeeds(p) == ControlPlaneGossipSeeds(Cfg[loaded[p]])
Seeds(p) == CpSeeds(p) \o NodeGossipSeeds(Cfg[loaded[p]])
Others(p, seeds) == SelectSeq(seeds, LAMBDA s : s # at[p])

(* main, selectReplica and run: the observer, the store, the bridge, the   *)
(* service and the listener come up, and the bootstrap starts beside them. *)
CpStart(c) ==
  /\ cpc[c] = "off"
  /\ Loads[file] /\ found(Cfg[file].cps, c)
  /\ New(c, ControlMeta, GossipAddress(byID(Cfg[file].cps, c)))
  /\ loaded' = [loaded EXCEPT ![c] = file]
  /\ cpc' = [cpc EXCEPT ![c] = "join"]
  /\ NoFault
  /\ UNCHANGED <<file, todo>>

(* A crash, a signal, or an error of run's: with a leave or without one,   *)
(* the listeners close and the peers notice.                               *)
CpDown(c) ==
  /\ cpc[c] \notin {"off", "idle"}
  /\ cpc' = [cpc EXCEPT ![c] = "off"]
  /\ todo' = [todo EXCEPT ![c] = <<>>]
  /\ loaded' = [loaded EXCEPT ![c] = 1]
  /\ Shutdown(c)
  /\ Fault
  /\ UNCHANGED file

(* joinGossipPeers: the seeds are tried in turn, over and over, until one  *)
(* answers.  A seed passed over before it listened is tried again only in  *)
(* the next round, so whichever listens may be the first to answer.        *)
joinGossipPeers(c) ==
  /\ cpc[c] = "join"
  /\ \E i \in DOMAIN Others(c, Seeds(c)) :
       LET seed == Others(c, Seeds(c))[i] IN
       /\ Join(c, seed)
       /\ todo' = [todo EXCEPT ![c] =
                     SelectSeq(Others(c, CpSeeds(c)), LAMBDA s : s # seed)]
  /\ cpc' = [cpc EXCEPT ![c] = IF todo'[c] = <<>> THEN "done" ELSE "sync"]
  /\ NoFault
  /\ UNCHANGED files

(* One round of a best-effort sync: a seed that does not answer is let go. *)
SyncOne(p) ==
  /\ IF Reaches(Head(todo[p])) THEN Join(p, Head(todo[p])) ELSE UNCHANGED gossipVars
  /\ todo' = [todo EXCEPT ![p] = Tail(@)]

syncControlPlanePeers(c) ==
  /\ cpc[c] = "sync"
  /\ SyncOne(c)
  /\ cpc' = [cpc EXCEPT ![c] = IF todo'[c] = <<>> THEN "done" ELSE @]
  /\ NoFault
  /\ UNCHANGED files

ControlInit(idle) ==
  /\ file = 1
  /\ loaded = [p \in P |-> 1]
  /\ cpc = [c \in Controls |-> IF c = idle THEN "idle" ELSE "off"]
  /\ todo = [p \in P |-> <<>>]
=============================================================================
