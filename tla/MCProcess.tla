----------------------------- MODULE MCProcess -----------------------------
(* Three views of a v1 process in one run: its log (Wal), one connection   *)
(* of a worker (Conn), and the process as a whole (Server).  A behaviour   *)
(* is one of the view it starts with; the state of the others stays as it  *)
(* began.                                                                  *)
EXTENDS Wal, Conn, Server, TLC

CONSTANTS a, b,                                \* payloads of the log
          w1, w2, c1, c2, c3, k1, k2

VARIABLE part

all == <<part, vars, connVars, serverVars>>

MCOps == {a, b}

(* GET replies that do and do not leave room for another reply, a mutation *)
(* of two units, and a frame that does not decode.                         *)
Fetch(n) == [kind |-> "get", req |-> 1, reply |-> n]
Mutate == [kind |-> "mutate", req |-> 2, reply |-> 1]
BadFrame == [kind |-> "malformed", req |-> 1, reply |-> 1]
MCScripts == [1..3 -> {Fetch(2), Fetch(3), Mutate}] \cup [1..2 -> {Fetch(2), Mutate, BadFrame}]

(* Two workers that never write the same key, though two clients of one do. *)
MCWorkerOf == (c1 :> w1) @@ (c2 :> w1) @@ (c3 :> w2)
MCWriters == (k1 :> {c1, c2}) @@ (k2 :> {c3})

ASSUME ProcessAssumption == ConnConstants /\ ServerConstants /\ OneWorkerPerKey

ProcessInit ==
    /\ part \in {"log", "connection", "server"}
    /\ Init /\ ConnInit /\ ServerInit
    /\ part # "connection" => edge /\ script = <<Mutate, Mutate>>

ProcessNext ==
    \/ part = "log" /\ Next /\ UNCHANGED <<part, connVars, serverVars>>
    \/ part = "connection" /\ ConnNext /\ UNCHANGED <<part, vars, serverVars>>
    \/ part = "server" /\ ServerNext /\ UNCHANGED <<part, vars, connVars>>

(* The fairness of FairSpec of Wal and ConnFairSpec of Conn. *)
Log(A) == part = "log" /\ A
Connection(A) == part = "connection" /\ A

ProcessSpec ==
    /\ ProcessInit /\ [][ProcessNext]_all
    /\ WF_vars(Log(Writer)) /\ SF_vars(Log(TimedOut)) /\ WF_vars(Log(StopJoined))
    /\ WF_connVars(Connection(Worker \/ CloseMalformed))
    /\ WF_connVars(Connection(Completion)) /\ WF_connVars(Connection(ClientReceive))
=============================================================================
