----------------------------- MODULE Metastore -----------------------------
(***************************************************************************)
(* The metadata group of the control plane (control/internal/metastore):   *)
(* on every replica a state machine over the Raft log (fsm.go), the gate   *)
(* that says when its state may be published (Store.ServeReady), and the   *)
(* bridge that, on the leader, proposes the difference between its gossip  *)
(* view and the committed state (bridge.go).                               *)
(*                                                                         *)
(* Raft is the library hashicorp/raft.  What the code relies on is kept:   *)
(* persistent terms, logs and snapshots, a commit index that a restart     *)
(* forgets, entries queued for the state machine before it consumes them,  *)
(* and leaders that are stale or know less than was committed.  Logs fit   *)
(* in one append, and a replica's gossip view is an input.                 *)
(***************************************************************************)
EXTENDS Integers, SequencesExt, FiniteSetsExt

CONSTANTS Replica,
          Active,       \* the replicas that lead and serve; the others store and vote
          DataNode,
          Factor,       \* BridgeConfig.ReplicationFactor
          MaxTerm, MaxLog, MaxRestarts, MaxSnapshots  \* bounds

ASSUME MetastoreAssumption ==
    /\ IsFiniteSet(Replica) /\ Active \subseteq Replica /\ IsFiniteSet(DataNode) /\ Factor \in Nat
    /\ MaxTerm \in Nat /\ MaxLog \in Nat \ {0}
    /\ MaxRestarts \in Nat /\ MaxSnapshots \in Nat

VARIABLES
    term, role, log, commit,  \* Raft's own state
    knows,     \* knows[r]: LeaderWithID names a leader
    snap,      \* snap[r]: the newest snapshot on disk
    fsm,       \* fsm[r]: state and applied
    startup,   \* startup[r]: startupIndex
    caughtUp,  \* caughtUp[r]: the latch of ServeReady
    bridge,    \* bridge[r]: leaderSince, and the proposal under way
    served,    \* history: the newest generation r ever published
    budget     \* what is left of MaxRestarts and MaxSnapshots

raftVars == <<term, role, log, commit, knows>>
vars == <<raftVars, snap, fsm, startup, caughtUp, bridge, served, budget>>

Quorum == {Q \in SUBSET Replica : 2 * Cardinality(Q) > Cardinality(Replica)}

Content == [nodes : SUBSET DataNode, factor : {0, Factor}]
Entry == [term : 0..MaxTerm, kind : {"config", "noop", "command"}, content : Content]
ZeroContent == [nodes |-> {}, factor |-> 0]
Other(kind, t) == [term |-> t, kind |-> kind, content |-> ZeroContent]
Command(c, t) == [term |-> t, kind |-> "command", content |-> c]

(* newFSM: a zero-valued State. *)
Zero == [content |-> ZeroContent, gen |-> 0, applied |-> 0]
NotLeading == [since |-> "none", pc |-> "idle", want |-> ZeroContent, index |-> 0]

(* Every replica has bootstrapped the group with the same configuration. *)
Init ==
    /\ term = [r \in Replica |-> 0] /\ role = [r \in Active |-> "follower"]
    /\ log = [r \in Replica |-> <<Other("config", 0)>>]
    /\ commit = [r \in Active |-> 0] /\ knows = [r \in Active |-> FALSE]
    /\ snap = [r \in Active |-> Zero]
    /\ fsm = [r \in Active |-> Zero]
    /\ startup = [r \in Active |-> 0] /\ caughtUp = [r \in Active |-> FALSE]
    /\ bridge = [r \in Active |-> NotLeading]
    /\ served = [r \in Active |-> 0]
    /\ budget = [restarts |-> MaxRestarts, snapshots |-> MaxSnapshots]

-----------------------------------------------------------------------------
(* The Raft library. *)
LastTerm(r) == log[r][Len(log[r])].term
UpToDate(c, v) ==
    \/ LastTerm(c) > LastTerm(v)
    \/ LastTerm(c) = LastTerm(v) /\ Len(log[c]) >= Len(log[v])

(* A proposal whose leader is deposed returns ErrLeadershipLost. *)
Deposed(b) == IF b.pc = "wait" THEN [b EXCEPT !.pc = "idle", !.index = 0] ELSE b

Elect(c, Q) ==
    /\ c \in Q /\ term[c] < MaxTerm /\ Len(log[c]) < MaxLog
    /\ \A v \in Q : term[v] <= term[c] /\ UpToDate(c, v)
    /\ term' = [r \in Replica |-> IF r \in Q THEN term[c] + 1 ELSE term[r]]
    /\ role' = [r \in Active |-> IF r = c THEN "leader" ELSE IF r \in Q THEN "follower" ELSE role[r]]
    /\ knows' = [r \in Active |-> IF r = c THEN TRUE ELSE IF r \in Q THEN FALSE ELSE knows[r]]
    /\ log' = [log EXCEPT ![c] = Append(@, Other("noop", term[c] + 1))]
    /\ bridge' = [r \in Active |-> IF r \in Q THEN Deposed(bridge[r]) ELSE bridge[r]]
    /\ UNCHANGED <<commit, snap, fsm, startup, caughtUp, served, budget>>

(* One append carries the rest of the log and the commit index. *)
Replicate(l, f) ==
    /\ role[l] = "leader" /\ f # l /\ term[f] <= term[l]
    /\ term' = [term EXCEPT ![f] = term[l]]
    /\ log' = [log EXCEPT ![f] = log[l]]
    /\ role' = [r \in Active |-> IF r = f THEN "follower" ELSE role[r]]
    /\ knows' = [r \in Active |-> r = f \/ knows[r]]
    /\ commit' = [r \in Active |-> IF r = f /\ commit[l] > commit[r] THEN commit[l] ELSE commit[r]]
    /\ bridge' = [r \in Active |-> IF r = f THEN Deposed(bridge[r]) ELSE bridge[r]]
    /\ UNCHANGED <<snap, fsm, startup, caughtUp, served, budget>>

Has(r, i, e) == Len(log[r]) >= i /\ log[r][i] = e

Commit(l) ==
    LET agreed == {i \in (commit[l] + 1)..Len(log[l]) :
                       /\ log[l][i].term = term[l]
                       /\ {r \in Replica : Has(r, i, log[l][i])} \in Quorum}
    IN /\ role[l] = "leader" /\ agreed # {}
       /\ commit' = [commit EXCEPT ![l] = Max(agreed)]
       /\ UNCHANGED <<term, role, log, knows, snap, fsm, startup, caughtUp, bridge, served, budget>>

-----------------------------------------------------------------------------
(* fsm.go *)

(* The generation moves only when the content does. *)
Install(f, i, c) ==
    IF f.content = c THEN [f EXCEPT !.applied = i] ELSE [content |-> c, gen |-> i, applied |-> i]

Published(r, state) == IF caughtUp[r] /\ state.gen > served[r] THEN state.gen ELSE served[r]

Ahead(r) == {i \in (fsm[r].applied + 1)..commit[r] : log[r][i].kind = "command"}

(* The state machine consumes the next command that was queued for it. *)
Apply(r) ==
    LET ahead == Ahead(r)
        next == Install(fsm[r], Min(ahead), log[r][Min(ahead)].content)
    IN /\ ahead # {}
       /\ fsm' = [fsm EXCEPT ![r] = next]
       /\ served' = [served EXCEPT ![r] = Published(r, next)]
       /\ UNCHANGED <<raftVars, snap, startup, caughtUp, bridge, budget>>

Snapshot(r) ==
    /\ budget.snapshots > 0 /\ fsm[r].applied > snap[r].applied
    /\ snap' = [snap EXCEPT ![r] = fsm[r]]
    /\ budget' = [budget EXCEPT !.snapshots = @ - 1]
    /\ UNCHANGED <<raftVars, fsm, startup, caughtUp, bridge, served>>

(* Mutant: a restored state has no generation. *)
RestoreNoGeneration(s) == [s EXCEPT !.gen = 0]

Restore(s) == s

(* The process is replaced: New reads the disk, and nothing else survives. *)
Restart(r) ==
    /\ budget.restarts > 0
    /\ budget' = [budget EXCEPT !.restarts = @ - 1]
    /\ role' = [role EXCEPT ![r] = "follower"] /\ knows' = [knows EXCEPT ![r] = FALSE]
    /\ commit' = [commit EXCEPT ![r] = 0]
    /\ fsm' = [fsm EXCEPT ![r] = Restore(snap[r])]
    /\ startup' = [startup EXCEPT ![r] = Len(log[r])]
    /\ caughtUp' = [caughtUp EXCEPT ![r] = FALSE]
    /\ bridge' = [bridge EXCEPT ![r] = NotLeading]
    /\ UNCHANGED <<term, log, snap, served>>

-----------------------------------------------------------------------------
(* Store.ServeReady *)

Floor(r) == Max({1, Min({startup[r], Len(log[r])})})

(* Mutant: what is queued for the state machine counts as consumed. *)
ConsumedWhenQueued(r) == TRUE

(* unappliedCommandIndex finds nothing. *)
Consumed(r) == \A i \in (fsm[r].applied + 1)..commit[r] : log[r][i].kind # "command"

(* Conditions 1, 2 and 4; a command that was consumed was handed over (3). *)
ServeReady(r) ==
    /\ ~caughtUp[r]
    /\ knows[r] /\ commit[r] >= Floor(r) /\ Consumed(r)
    /\ caughtUp' = [caughtUp EXCEPT ![r] = TRUE]
    /\ served' = [served EXCEPT ![r] = IF fsm[r].gen > @ THEN fsm[r].gen ELSE @]
    /\ UNCHANGED <<raftVars, snap, fsm, startup, bridge, budget>>

-----------------------------------------------------------------------------
(* bridge.go *)
BridgeStep(r, b) ==
    /\ bridge' = [bridge EXCEPT ![r] = b]
    /\ UNCHANGED <<term, role, commit, knows, snap, fsm, startup, caughtUp, served, budget>>

(* A tick on a follower. *)
LoseLeadership(r) ==
    /\ bridge[r].pc = "idle" /\ role[r] # "leader" /\ bridge[r].since # "none"
    /\ BridgeStep(r, NotLeading) /\ UNCHANGED log

(* Mutant: an emptying proposal is not held back. *)
ProposeAnything(committed, desired, since) == TRUE

proposeAllowed(committed, desired, since) ==
    desired.nodes # {} \/ committed.nodes = {} \/ since = "settled"

(* A tick on the leader, up to the call of Propose: the settle window may  *)
(* have passed since an earlier tick, and gossip may say anything.         *)
Reconcile(r, since, nodes) ==
    LET desired == [nodes |-> nodes, factor |-> Factor]
        proposes == fsm[r].content # desired /\ proposeAllowed(fsm[r].content, desired, since)
    IN /\ bridge[r].pc = "idle" /\ role[r] = "leader"
       /\ since \in IF bridge[r].since = "none" THEN {"fresh"} ELSE {bridge[r].since, "settled"}
       /\ BridgeStep(r, IF proposes THEN [since |-> since, pc |-> "propose", want |-> desired, index |-> 0]
                        ELSE [bridge[r] EXCEPT !.since = since])
       /\ UNCHANGED log

AfterPropose(b, i) == [b EXCEPT !.pc = "wait", !.want = ZeroContent, !.index = i]

Propose(r) ==
    /\ bridge[r].pc = "propose" /\ role[r] = "leader" /\ Len(log[r]) < MaxLog
    /\ log' = [log EXCEPT ![r] = Append(@, Command(bridge[r].want, term[r]))]
    /\ BridgeStep(r, AfterPropose(bridge[r], Len(log[r]) + 1))

(* Propose returns: not the leader, not enqueued in time, or applied. *)
ProposeReturns(r) ==
    /\ bridge[r].pc = "propose" \/ (bridge[r].pc = "wait" /\ fsm[r].applied >= bridge[r].index)
    /\ BridgeStep(r, [bridge[r] EXCEPT !.pc = "idle", !.want = ZeroContent, !.index = 0])
    /\ UNCHANGED log

-----------------------------------------------------------------------------
Raft ==
    \/ \E c \in Active, Q \in Quorum : Elect(c, Q)
    \/ \E l \in Active, f \in Replica : Replicate(l, f)
    \/ \E r \in Active : Commit(r)

Bridge(r) ==
    \/ LoseLeadership(r) \/ Propose(r) \/ ProposeReturns(r)
    \/ \E since \in {"fresh", "settled"}, nodes \in SUBSET DataNode : Reconcile(r, since, nodes)

Next ==
    \/ Raft
    \/ \E r \in Active :
          \/ Apply(r) \/ Snapshot(r) \/ Restart(r) \/ ServeReady(r) \/ Bridge(r)

Spec == Init /\ [][Next]_vars

-----------------------------------------------------------------------------
TypeOK ==
    /\ term \in [Replica -> 0..MaxTerm] /\ role \in [Active -> {"leader", "follower"}]
    /\ \A r \in Replica : Len(log[r]) \in 1..MaxLog /\ Range(log[r]) \subseteq Entry
    /\ commit \in [Active -> 0..MaxLog]
    /\ \A f \in Range(fsm) \cup Range(snap) :
          f \in [content : Content, gen : 0..MaxLog, applied : 0..MaxLog]
    /\ knows \in [Active -> BOOLEAN] /\ caughtUp \in [Active -> BOOLEAN]
    /\ \A r \in Active : bridge[r].pc = "wait" => bridge[r].index \in 1..Len(log[r])

(* What the committed log says after its first k entries. *)
ContentAt(l, k) ==
    LET commands == {i \in 1..k : l[i].kind = "command"}
    IN IF commands = {} THEN ZeroContent ELSE l[Max(commands)].content
GenerationAt(l, k) == Max({0} \cup {i \in 1..k : ContentAt(l, i) # ContentAt(l, i - 1)})

(* fsm.go: "an applied log is a prefix of the leader's committed log".     *)
(* Whatever was restored, replayed or skipped, a replica's state is what   *)
(* the entries up to its mark say, and its generation is the place of the  *)
(* entry that last changed the content.                                    *)
StateIsPrefix ==
    \A r \in Active :
        /\ fsm[r].content = ContentAt(log[r], fsm[r].applied)
        /\ fsm[r].gen = GenerationAt(log[r], fsm[r].applied)

(* state.go: "two replicas reporting the same generation are reporting the *)
(* same committed state".                                                  *)
OneStatePerGeneration ==
    \A r, s \in Active : fsm[r].gen = fsm[s].gen => fsm[r].content = fsm[s].content

(* Every state is a prefix of the committed log, and its generation names  *)
(* it.                                                                     *)
StateSafe == TypeOK /\ StateIsPrefix /\ OneStatePerGeneration

(* persistedState: across restarts and restores, no replica publishes a    *)
(* generation older than one it published before.                          *)
PublishedNeverBack == \A r \in Active : caughtUp[r] => fsm[r].gen >= served[r]

Commands(l) == {i \in DOMAIN l : l[i].kind = "command"}
(* Leader r proposes an empty node set over a committed non-empty one. *)
Wipes(r) ==
    /\ Len(log'[r]) = Len(log[r]) + 1 /\ role[r] = "leader" /\ term'[r] = term[r]
    /\ log'[r][Len(log'[r])].kind = "command" /\ log'[r][Len(log'[r])].content.nodes = {}
    /\ ContentAt(log[r], Min({Max(Range(commit)), Len(log[r])})).nodes # {}

(* proposeAllowed, bridge.go:153, "rejects exactly one proposal: wiping a  *)
(* non-empty membership during a new leader's first moments".              *)
NoUnsettledWipe == [][\A r \in Active : Wipes(r) => bridge[r].since = "settled"]_vars

(* proposeAllowed for a leader that has proposed before in its term, and   *)
(* so has applied its log: only after the settle window does it empty a    *)
(* non-empty membership.                                                   *)
Informed(r) == \E i \in Commands(log[r]) : log[r][i].term = term[r]
NoInformedWipe == [][\A r \in Active : Wipes(r) /\ Informed(r) => bridge[r].since = "settled"]_vars
=============================================================================
