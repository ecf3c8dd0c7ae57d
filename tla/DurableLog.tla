---------------------------- MODULE DurableLog ----------------------------
(***************************************************************************)
(* What the write-ahead log promises its callers (src/include/wal.h): a    *)
(* stable log that only ever grows at its end, whatever crashes, and       *)
(* acknowledgements given only for records already in it.                  *)
(***************************************************************************)
EXTENDS Integers, Sequences

CONSTANT Records

VARIABLES log,     \* the records no crash can take away, in order
          acked    \* the records whose callers were told OK

vars == <<log, acked>>

Init == log = <<>> /\ acked = {}

(* A group of records becomes stable at once, behind the ones before it. *)
Commit ==
    /\ Len(log') > Len(log)
    /\ SubSeq(log', 1, Len(log)) = log
    /\ \A i \in (Len(log) + 1)..Len(log') : log'[i] \in Records
    /\ acked' = acked

Acknowledge ==
    /\ \E i \in 1..Len(log) : acked' = acked \cup {log[i]}
    /\ log' = log

Next == Commit \/ Acknowledge

Spec == Init /\ [][Next]_vars
=============================================================================
