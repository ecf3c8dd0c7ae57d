-------------------------------- MODULE Sweep --------------------------------
(***************************************************************************)
(* One sweep over the control-plane replicas, as pulsekv-chaos and         *)
(* pulsekv-metrics make it: every replica is asked on its own, and the     *)
(* answers are summarised together.                                        *)
(*                                                                         *)
(* A sweep is a sequence of observations, one per replica:                 *)
(*   up      the replica answered with a valid topology,                   *)
(*   leader  the Raft leader it names, or NoLeader, and term its term,     *)
(*   gen     the committed generation it serves, and print the fingerprint *)
(*           of the topology at it.                                        *)
(***************************************************************************)
EXTENDS Integers, SequencesExt, FiniteSetsExt

NoLeader == "none"

Answers(sweep) == SelectSeq(sweep, LAMBDA o : o.up)

(* summarizeLeader: what the replicas that answered agree on.  A replica   *)
(* that names no leader, or another leader or term, breaks the agreement.  *)
summarizeLeader(sweep) ==
    LET answers == Answers(sweep)
        named == SelectSeq(answers, LAMBDA o : o.leader # NoLeader)
        first == IF named = <<>> THEN [leader |-> NoLeader, term |-> 0] ELSE Head(named)
    IN [leader |-> first.leader, term |-> first.term, reachable |-> Len(answers),
        agreed |-> /\ named # <<>>
                   /\ \A i \in DOMAIN answers :
                         answers[i].leader = first.leader /\ answers[i].term = first.term]

(* checkReplicaCoherence: two answers at one generation are one topology.  *)
(* (That every shard of an answer has a live owner is part of its being a  *)
(* valid topology at all.)                                                 *)
Coherent(sweep) ==
    \A o, p \in Range(Answers(sweep)) : o.gen = p.gen => o.print = p.print

(* assertGroupConvergedOnOneState: every replica answers, with one state. *)
OneState(sweep) ==
    /\ sweep # <<>> /\ \A i \in DOMAIN sweep : sweep[i].up
    /\ \A i, j \in DOMAIN sweep : sweep[i].gen = sweep[j].gen /\ sweep[i].print = sweep[j].print
=============================================================================
