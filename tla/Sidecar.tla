------------------------------ MODULE Sidecar ------------------------------
(***************************************************************************)
(* cmd/pulsekv-member: the gossip sidecar of one data node, composed with  *)
(* the control planes whose views it feeds and with the data services it   *)
(* watches.  Services, control planes and sidecars start in any order; the *)
(* operator may edit the cluster file and restart processes under it.      *)
(***************************************************************************)
EXTENDS ControlPlane

CONSTANT FailureThreshold  \* --failure-threshold

VARIABLES
  spc,     \* where run is: "off", "wait" for the service, "new", "join",
           \* "sync", "watch", "withdraw" (monitorNode's Close), "exited"; or "idle"
  fails,   \* consecutive failed probes
  budget,  \* the startup deadline still applies
  svc,     \* svc[a]: the data node whose service answers at address a, or ""
  served   \* history: every <<node, address>> that was ever served

sidecarVars == <<spc, fails, budget>>
serviceVars == <<svc, served>>
vars == <<gossipVars, faults, files, controlVars, sidecarVars, serviceVars>>

Entry(d) == byID(Cfg[loaded[d]].nodes, d)
Addresses == UNION {{Address(Cfg[i].nodes[j]) : j \in DOMAIN Cfg[i].nodes} :
                      i \in {k \in DOMAIN Files : Loads[k]}}

-----------------------------------------------------------------------------
(* The data services, external: a node serves the address its file names.  *)

ServiceStart(d) ==
  /\ spc[d] # "idle"
  /\ Loads[file] /\ found(Cfg[file].nodes, d)
  /\ LET a == Address(byID(Cfg[file].nodes, d)) IN
     /\ svc[a] = "" /\ \A b \in Addresses : svc[b] # d
     /\ svc' = [svc EXCEPT ![a] = d]
     /\ served' = served \cup {<<d, a>>}
  /\ NoFault
  /\ UNCHANGED <<gossipVars, files, controlVars, sidecarVars>>

(* A service fails, or is taken down because the file has moved it.        *)
ServiceStop(a) ==
  /\ svc[a] # ""
  /\ svc' = [svc EXCEPT ![a] = ""]
  /\ IF Loads[file] /\ Address(byID(Cfg[file].nodes, svc[a])) # a
     THEN NoFault ELSE Fault
  /\ UNCHANGED <<gossipVars, files, controlVars, sidecarVars, served>>

EditFile(i) ==
  /\ i # file
  /\ file' = i
  /\ Spend(2)  \* the restarts it is a reason for are free
  /\ UNCHANGED <<gossipVars, loaded, controlVars, sidecarVars, serviceVars>>

-----------------------------------------------------------------------------

Goto(d, where) == spc' = [spc EXCEPT ![d] = where]

(* Mutant: any answering service passes.                                   *)
probeAnyNode(d) == svc[Address(Entry(d))] # ""

(* probeNodeContext: the service answers and it is this node's.            *)
probeNode(d) == svc[Address(Entry(d))] = d

(* run, up to waitForNode: a file that does not load, or does not name the *)
(* node, ends it.                                                          *)
SidecarStart(d) ==
  /\ spc[d] = "off"
  /\ IF Loads[file] /\ found(Cfg[file].nodes, d)
     THEN /\ loaded' = [loaded EXCEPT ![d] = file]
          /\ Goto(d, "wait")
     ELSE Goto(d, "exited") /\ UNCHANGED loaded
  /\ NoFault
  /\ UNCHANGED <<gossipVars, file, controlVars, fails, budget, serviceVars>>

(* waitForNode, a probe that passes (one that fails is retried).           *)
waitForNode(d) ==
  /\ spc[d] = "wait" /\ probeNode(d)
  /\ Goto(d, "new")
  /\ NoFault
  /\ UNCHANGED <<gossipVars, files, controlVars, fails, budget, serviceVars>>

newMembership(d) ==
  /\ spc[d] = "new"
  /\ New(d, DataMeta(d, Address(Entry(d))), GossipAddress(Entry(d)))
  /\ Goto(d, "join")
  /\ NoFault
  /\ UNCHANGED <<files, controlVars, fails, budget, serviceVars>>

(* Mutant: only the control planes are seeds.                              *)
joinControlsOnly(d) ==
  /\ spc[d] = "join"
  /\ \E i \in DOMAIN CpSeeds(d) : Join(d, CpSeeds(d)[i])
  /\ todo' = [todo EXCEPT ![d] = CpSeeds(d)]
  /\ Goto(d, "sync")
  /\ NoFault
  /\ UNCHANGED <<files, cpc, fails, budget, serviceVars>>

(* joinUntil over bootstrapSeeds: every control plane, every other node.   *)
joinUntil(d) ==
  /\ spc[d] = "join"
  /\ \E i \in DOMAIN Others(d, Seeds(d)) : Join(d, Others(d, Seeds(d))[i])
  /\ todo' = [todo EXCEPT ![d] = CpSeeds(d)]
  /\ Goto(d, "sync")
  /\ NoFault
  /\ UNCHANGED <<files, cpc, fails, budget, serviceVars>>

syncControlPlanes(d) ==
  /\ spc[d] = "sync"
  /\ SyncOne(d)
  /\ IF todo'[d] = <<>> THEN Goto(d, "watch") ELSE UNCHANGED spc
  /\ NoFault
  /\ UNCHANGED <<files, cpc, fails, budget, serviceVars>>

(* monitorNode, one tick: a pass clears the count (and changes nothing     *)
(* when it was clear), the last failure in a row withdraws the node.       *)
monitorNode(d) ==
  /\ spc[d] = "watch"
  /\ \/ /\ probeNode(d) /\ fails[d] > 0
        /\ fails' = [fails EXCEPT ![d] = 0]
        /\ UNCHANGED <<spc, gossipVars>>
     \/ /\ ~probeNode(d) /\ fails[d] + 1 < FailureThreshold
        /\ fails' = [fails EXCEPT ![d] = @ + 1]
        /\ UNCHANGED <<spc, gossipVars>>
     \/ /\ ~probeNode(d) /\ fails[d] + 1 >= FailureThreshold
        /\ fails' = [fails EXCEPT ![d] = 0]
        /\ Goto(d, "withdraw")
        /\ leaveLocked(d)
  /\ NoFault
  /\ UNCHANGED <<files, controlVars, budget, serviceVars>>

(* Close returned: run waits for the service again, with no deadline now.  *)
withdrawn(d) ==
  /\ spc[d] = "withdraw"
  /\ Shutdown(d)
  /\ Goto(d, "wait")
  /\ budget' = [budget EXCEPT ![d] = FALSE]
  /\ NoFault
  /\ UNCHANGED <<files, controlVars, fails, serviceVars>>

-----------------------------------------------------------------------------
(* What may go wrong.                                                      *)

Ends(d, where) ==
  /\ Shutdown(d)
  /\ Goto(d, where)
  /\ todo' = [todo EXCEPT ![d] = <<>>]
  /\ fails' = [fails EXCEPT ![d] = 0]
  /\ budget' = [budget EXCEPT ![d] = TRUE]
  /\ loaded' = [loaded EXCEPT ![d] = 1]
  /\ UNCHANGED <<file, cpc, serviceVars>>

(* run returns an error, the participant closed: the leave of a withdrawal *)
(* was not broadcast in time, memberlist.Create failed, or the startup     *)
(* deadline passed in waitForNode or in joinUntil.                         *)
runFails(d) ==
  /\ \/ spc[d] = "withdraw" /\ \E q \in ring[d] \ {d} : life[q] = "open"
     \/ spc[d] = "new"
     \/ spc[d] \in {"wait", "join"} /\ budget[d]
  /\ Ends(d, "exited")
  /\ Fault

(* A signal, or a kill that sends no leave; the file having moved the node *)
(* is a reason for one.  The sidecar may be started again.                 *)
stopped(d) ==
  /\ spc[d] \notin {"off", "exited", "idle"}
  /\ Ends(d, "off")
  /\ IF loaded[d] # file THEN NoFault ELSE Fault

-----------------------------------------------------------------------------

(* The services run under file 1; nothing else does.                       *)
Init ==
  /\ GossipInit
  /\ \E idle \in Idle :
       /\ ControlInit(idle)
       /\ spc = [d \in Data |-> IF d = idle THEN "idle" ELSE "off"]
  /\ fails = [d \in Data |-> 0]
  /\ budget = [d \in Data |-> TRUE]
  /\ served = {<<d, Address(byID(Cfg[1].nodes, d))>> : d \in {n \in Data : spc[n] # "idle"}}
  /\ svc = [a \in Addresses |-> IF \E d \in Data : <<d, a>> \in served
                                THEN CHOOSE d \in Data : <<d, a>> \in served ELSE ""]

SidecarLoop(d) ==
  \/ waitForNode(d) \/ newMembership(d) \/ joinUntil(d)
  \/ syncControlPlanes(d) \/ monitorNode(d) \/ withdrawn(d)

ControlLoop(c) ==
  /\ joinGossipPeers(c) \/ syncControlPlanePeers(c)
  /\ UNCHANGED <<sidecarVars, serviceVars>>

Gossip(c, d) ==
  /\ NotifyJoin(c, d) \/ NotifyLeave(c, d)
  /\ UNCHANGED <<files, controlVars, sidecarVars, serviceVars>>

Operator ==
  \/ \E c \in Controls : CpStart(c) /\ UNCHANGED <<sidecarVars, serviceVars>>
  \/ \E d \in Data : SidecarStart(d) \/ ServiceStart(d)
  \/ \E i \in DOMAIN Files : EditFile(i)

Trouble ==
  \/ \E c \in Controls : CpDown(c) /\ UNCHANGED <<sidecarVars, serviceVars>>
  \/ \E d \in Data : runFails(d) \/ stopped(d)
  \/ \E a \in Addresses : ServiceStop(a)
  \/ /\ \/ \E c \in Controls, d \in Data : NotifySuspected(c, d)
        \/ \E p \in P : CutOff(p)
     /\ UNCHANGED <<files, controlVars, sidecarVars, serviceVars>>

Next ==
  \/ \E c \in Controls : ControlLoop(c)
  \/ \E d \in Data : SidecarLoop(d)
  \/ \E c \in Controls, d \in Data : Gossip(c, d)
  \/ Operator \/ Trouble

(* The loops of every process run on, and gossip reaches whoever it can;   *)
(* nothing is assumed of the operator, the services or the faults.         *)
Fairness ==
  /\ \A c \in Controls : WF_vars(ControlLoop(c))
  /\ \A d \in Data : WF_vars(SidecarLoop(d))
  /\ \A c \in Controls, d \in Data : WF_vars(Gossip(c, d))

Spec == Init /\ [][Next]_vars /\ Fairness

-----------------------------------------------------------------------------

TypeOK ==
  /\ life \in [P -> {"closed", "open", "left"}]
  /\ \A p \in P : life[p] # "closed" <=> at[p] # NoAddress
  /\ \A p \in P : p \in ring[p] /\ \A q \in ring[p] : ring[q] = ring[p]
  /\ \A c \in Controls : DOMAIN records[c] = Data
  /\ faults \in 0..MaxFaults
  /\ file \in DOMAIN Files /\ loaded \in [P -> DOMAIN Files]
  /\ cpc \in [Controls -> {"idle", "off", "join", "sync", "done"}]
  /\ spc \in [Data -> {"idle", "off", "wait", "new", "join", "sync", "watch",
                       "withdraw", "exited"}]
  /\ fails \in [Data -> 0..(FailureThreshold - 1)]

(* A published snapshot never names a node or an address twice             *)
(* (publishCandidateLocked keeps the last good one instead), and records   *)
(* that all come from one file are never ambiguous, because Validate       *)
(* refused the file that would make them so.                               *)
ViewUnambiguous ==
  \A c \in Controls :
    /\ \A n, m \in snap[c] : n # m => n[1] # m[1] /\ n[2] # m[2]
    /\ Ambiguous(records[c]) =>
         \A i \in DOMAIN Files : Loads[i] =>
           \E d \in DataRecords(records[c]) :
             records[c][d].address # Address(byID(Cfg[i].nodes, d))
ViewSafe == TypeOK /\ ViewUnambiguous

(* Every <<node, address>> a control plane publishes was really served by  *)
(* that node at that address: a sidecar advertises its node only after a   *)
(* health check that names the node (probeNodeContext), even while the     *)
(* file moves one node onto the address another still holds.               *)
PublishedWasServed == \A c \in Controls : snap[c] \subseteq served

(* Once nothing changes any more, every control plane's snapshot is exactly*)
(* the nodes advertised in its own ring: no join, update or leave is lost, *)
(* not even those that arrive while the view is ambiguous.                 *)
Advertised(c) ==
  {<<d, meta[d].address>> : d \in {n \in Data : Member(c, n)}}
ViewFollowsRing ==
  <>[](\A c \in Controls : life[c] = "open" => snap[c] = Advertised(c))

(* Once nothing changes any more, a sidecar that still runs advertises its *)
(* node exactly when the node's service passes the probe: the watchdog     *)
(* withdraws a service that failed and brings it back when it recovers, as *)
(* long as there is anyone to join.                                        *)
Running(d) == spc[d] \notin {"off", "exited", "idle"}
SomebodyElse(d) == \E q \in P \ {d} : life[q] = "open"
WatchdogFollowsService ==
  <>[](\A d \in Data : Running(d) /\ SomebodyElse(d) =>
         (spc[d] = "watch" <=> probeNode(d)))

(* A sidecar that withdrew its node advertises it again, or is stopped, if *)
(* the node's service stays healthy from some time on ("a transient local  *)
(* outage cannot leave a healthy service permanently absent").             *)
OutageIsTransient ==
  \A d \in Data :
    <>[]probeNode(d) => [](spc[d] = "withdraw" => <>(spc[d] \in {"watch", "off"}))
=============================================================================
