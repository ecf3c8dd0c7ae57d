------------------------------ MODULE Handoff ------------------------------
(***************************************************************************)
(* How a completed mutation gets back from the WAL writer thread to the    *)
(* epoll worker that owns its connection (src/src/main.c): wal_complete on *)
(* the writer's side, process_wal_completions on the worker's, the atomic  *)
(* stack, flag and eventfd between them, and the two-phase drain of a      *)
(* worker at shutdown.                                                     *)
(*                                                                         *)
(* Every atomic operation is a step of its own and they are sequentially   *)
(* consistent.  One worker is modelled: workers share no handoff state.    *)
(***************************************************************************)
EXTENDS Integers, FiniteSets, SequencesExt

CONSTANTS Conns,   \* the connection objects of the worker
          Nil      \* the null pointer

ASSUME HandoffAssumption == Nil \notin Conns /\ IsFiniteSet(Conns)

VARIABLES
    sock,       \* sock[c]: no object ("free"), a socket ("open"), or an
                \* object kept only for its pending request ("shell")
    pending,    \* the connections with conn_t.pending # NULL
    count,      \* worker.pending_count
    draining,   \* worker.draining
    pc,         \* where the worker is in worker_main
    ready,      \* worker_main's local completions_ready
    completed,  \* process_wal_completions' detached list, oldest first
    stop,       \* g_stop
    stopfd,     \* g_stopfd is readable
    wal,        \* requests the writer has not called back for, in WAL order
    cur,        \* the connection wal_complete is running for
    loaded,     \* wal_complete's local head
    wpc,        \* where the writer is in wal_complete
    stack,      \* worker.completion_stack, newest first
    signaled,   \* worker.completion_signaled
    efd,        \* worker.completion_fd is readable
    order       \* history: the pending connections in submission order

workerVars == <<sock, pending, count, draining, pc, ready, completed>>
stopVars == <<stop, stopfd>>
writerVars == <<wal, cur, loaded, wpc>>
sharedVars == <<stack, signaled, efd>>
vars == <<workerVars, stopVars, writerVars, sharedVars, order>>

Top(s) == IF s = <<>> THEN Nil ELSE Head(s)

Init ==
    /\ sock = [c \in Conns |-> "free"] /\ pending = {} /\ count = 0
    /\ draining = FALSE /\ pc = "wait" /\ ready = FALSE /\ completed = <<>>
    /\ stop = FALSE /\ stopfd = FALSE
    /\ wal = <<>> /\ cur = Nil /\ loaded = Nil /\ wpc = "idle"
    /\ stack = <<>> /\ signaled = FALSE /\ efd = FALSE
    /\ order = <<>>

-----------------------------------------------------------------------------
(* wal_complete, on the writer thread. *)

CompleteBegin ==
    /\ wpc = "idle" /\ wal # <<>>
    /\ cur' = Head(wal) /\ wal' = Tail(wal)
    /\ loaded' = Top(stack) /\ wpc' = "cas"
    /\ UNCHANGED <<workerVars, stopVars, sharedVars, order>>

(* The compare-exchange: a stack the worker detached meanwhile is reloaded. *)
CompletePush ==
    /\ wpc = "cas"
    /\ \/ /\ Top(stack) = loaded
          /\ stack' = <<cur>> \o stack /\ wpc' = "exchange" /\ UNCHANGED loaded
       \/ /\ Top(stack) # loaded
          /\ loaded' = Top(stack) /\ UNCHANGED <<stack, wpc>>
    /\ UNCHANGED <<workerVars, stopVars, wal, cur, signaled, efd, order>>

(* The flag lives in the worker's stack frame: once the worker has returned *)
(* the exchange reads whatever is there.                                    *)
CompleteExchange ==
    /\ wpc = "exchange"
    /\ \E old \in IF pc = "exited" THEN BOOLEAN ELSE {signaled} :
          wpc' = IF old THEN "idle" ELSE "ring"
    /\ signaled' = TRUE
    /\ UNCHANGED <<workerVars, stopVars, wal, cur, loaded, stack, efd, order>>

CompleteRing ==
    /\ wpc = "ring" /\ wpc' = "idle"
    /\ efd' = TRUE
    /\ UNCHANGED <<workerVars, stopVars, wal, cur, loaded, stack, signaled, order>>

WriterStep == CompleteBegin \/ CompletePush \/ CompleteExchange \/ CompleteRing

-----------------------------------------------------------------------------
(* request_stop from a signal handler or another worker: flag, then fd. *)

StopFlag ==
    /\ ~stop /\ stop' = TRUE
    /\ UNCHANGED <<stopfd, workerVars, writerVars, sharedVars, order>>

StopRing ==
    /\ stop /\ ~stopfd /\ stopfd' = TRUE
    /\ UNCHANGED <<stop, workerVars, writerVars, sharedVars, order>>

-----------------------------------------------------------------------------
(* The worker. *)

(* conn_close of a connection: a pending one keeps its object. *)
Drained(c) == IF c \in pending THEN "shell" ELSE "free"

BeginDraining ==
    /\ draining' = TRUE
    /\ sock' = [c \in Conns |-> IF draining THEN sock[c] ELSE Drained(c)]

(* epoll_wait returns, with or without the completion event; a stop seen   *)
(* here drops the socket events of this round.                             *)
Wake(completions) ==
    /\ pc = "wait" /\ ~(draining /\ count = 0)
    /\ ready' = completions
    /\ IF stop \/ draining
       THEN /\ BeginDraining
            /\ pc' = IF completions THEN "drain" ELSE "wait"
       ELSE pc' = "socket" /\ UNCHANGED <<draining, sock>>
    /\ UNCHANGED <<pending, count, completed, stopVars, writerVars, sharedVars, order>>

WakeCompletion == efd /\ Wake(TRUE)

(* The stop descriptor, the listener and the sockets leave the epoll set   *)
(* when draining begins.                                                   *)
WakeStop == stopfd /\ ~draining /\ Wake(FALSE)
WakeSocket == ~draining /\ Wake(FALSE)

(* epoll_wait fails: the worker asks everyone to stop and drains. *)
WakeFails ==
    /\ pc = "wait" /\ ~(draining /\ count = 0)
    /\ stop' = TRUE /\ stopfd' = TRUE
    /\ BeginDraining
    /\ UNCHANGED <<pending, count, pc, ready, completed, writerVars, sharedVars, order>>

Accept(c) ==
    /\ pc = "socket" /\ ~stop /\ sock[c] = "free"
    /\ sock' = [sock EXCEPT ![c] = "open"]
    /\ UNCHANGED <<pending, count, draining, pc, ready, completed>>
    /\ UNCHANGED <<stopVars, writerVars, sharedVars, order>>

(* A SET or DEL frame reaches conn_process. *)
SocketSubmit(c) ==
    /\ pc = "socket" /\ sock[c] = "open" /\ c \notin pending
    /\ pending' = pending \cup {c} /\ count' = count + 1
    /\ wal' = Append(wal, c) /\ order' = Append(order, c)
    /\ UNCHANGED <<sock, draining, pc, ready, completed>>
    /\ UNCHANGED <<stopVars, cur, loaded, wpc, sharedVars>>

(* Hang-up, end of file, a malformed frame or an error: conn_close. *)
SocketClose(c) ==
    /\ pc = "socket" /\ sock[c] = "open"
    /\ sock' = [sock EXCEPT ![c] = Drained(c)]
    /\ UNCHANGED <<pending, count, draining, pc, ready, completed>>
    /\ UNCHANGED <<stopVars, writerVars, sharedVars, order>>

SocketsDone ==
    /\ pc = "socket"
    /\ pc' = IF ready THEN "drain" ELSE "wait"
    /\ IF stop THEN BeginDraining ELSE UNCHANGED <<draining, sock>>
    /\ UNCHANGED <<pending, count, ready, completed>>
    /\ UNCHANGED <<stopVars, writerVars, sharedVars, order>>

(* process_wal_completions: empty the eventfd, clear the flag, detach. *)
DrainFd ==
    /\ pc = "drain" /\ pc' = "clear"
    /\ efd' = FALSE
    /\ UNCHANGED <<sock, pending, count, draining, ready, completed>>
    /\ UNCHANGED <<stopVars, writerVars, stack, signaled, order>>

(* Mutant: the flag stays up. *)
SignaledKept ==
    /\ pc = "clear" /\ pc' = "detach"
    /\ UNCHANGED <<sock, pending, count, draining, ready, completed>>
    /\ UNCHANGED <<stopVars, writerVars, sharedVars, order>>

ClearSignaled ==
    /\ pc = "clear" /\ pc' = "detach"
    /\ signaled' = FALSE
    /\ UNCHANGED <<sock, pending, count, draining, ready, completed>>
    /\ UNCHANGED <<stopVars, writerVars, stack, efd, order>>

(* Mutant: the detached stack is walked as it is. *)
DetachedUnreversed == stack

Detached == Reverse(stack)

Detach ==
    /\ pc = "detach" /\ pc' = "apply"
    /\ completed' = Detached /\ stack' = <<>>
    /\ UNCHANGED <<sock, pending, count, draining, ready>>
    /\ UNCHANGED <<stopVars, writerVars, signaled, efd, order>>

(* What handling one completion leaves of its connection: conn_close when  *)
(* it lost its socket or the worker drains; otherwise conn_process may     *)
(* submit the next pipelined mutation, and a failed reply, flush or epoll  *)
(* update closes.                                                          *)
AfterApply(c) ==
    IF sock[c] = "shell" \/ draining
    THEN {[sock |-> "free", again |-> FALSE]}
    ELSE {[sock |-> "open", again |-> FALSE], [sock |-> "free", again |-> FALSE],
          [sock |-> "open", again |-> TRUE], [sock |-> "shell", again |-> TRUE]}

(* Mutant: the completion is not counted. *)
NotCounted == count

OneFewer == IF count > 0 THEN count - 1 ELSE count

ApplyOne ==
    /\ pc = "apply" /\ completed # <<>>
    /\ completed' = Tail(completed)
    /\ LET c == Head(completed) IN \E after \in AfterApply(c) :
       /\ sock' = [sock EXCEPT ![c] = after.sock]
       /\ pending' = IF after.again THEN pending ELSE pending \ {c}
       /\ count' = IF after.again THEN OneFewer + 1 ELSE OneFewer
       /\ wal' = IF after.again THEN Append(wal, c) ELSE wal
       /\ order' = LET rest == RemoveFirst(order, c)
                   IN IF after.again THEN Append(rest, c) ELSE rest
    (* A durable record the table refuses stops the server. *)
    /\ \/ UNCHANGED stopVars
       \/ stop' = TRUE /\ stopfd' = TRUE
    /\ UNCHANGED <<draining, pc, ready, cur, loaded, wpc, sharedVars>>

ApplyDone ==
    /\ pc = "apply" /\ completed = <<>>
    /\ pc' = "wait"
    /\ UNCHANGED <<sock, pending, count, draining, ready, completed>>
    /\ UNCHANGED <<stopVars, writerVars, sharedVars, order>>

(* The loop's exit: the eventfd is closed and the worker's frame dies. *)
Exit ==
    /\ pc = "wait" /\ draining /\ count = 0
    /\ pc' = "exited"
    /\ UNCHANGED <<sock, pending, count, draining, ready, completed>>
    /\ UNCHANGED <<stopVars, writerVars, sharedVars, order>>

WorkerStep == SocketsDone \/ DrainFd \/ ClearSignaled \/ Detach \/ ApplyOne \/ ApplyDone \/ Exit

SocketEvent == \E c \in Conns : Accept(c) \/ SocketSubmit(c) \/ SocketClose(c)

(* All threads have returned. *)
Finished == pc = "exited" /\ wpc = "idle" /\ UNCHANGED vars

Next ==
    \/ WriterStep \/ WorkerStep \/ SocketEvent
    \/ WakeCompletion \/ WakeStop \/ WakeSocket \/ WakeFails
    \/ StopFlag \/ StopRing \/ Finished

Spec == Init /\ [][Next]_vars

(* Both threads are scheduled and a requested stop rings its descriptor.   *)
(* epoll rotates its ready list, so a readable completion descriptor is    *)
(* not passed over for ever.  Clients owe nothing.                         *)
FairSpec ==
    /\ Spec
    /\ WF_vars(WriterStep) /\ WF_vars(WorkerStep) /\ WF_vars(StopRing)
    /\ SF_vars(WakeCompletion) /\ WF_vars(WakeStop)

-----------------------------------------------------------------------------
TypeOK ==
    /\ sock \in [Conns -> {"free", "open", "shell"}]
    /\ pending \subseteq Conns /\ count \in 0..Cardinality(Conns)
    /\ pc \in {"wait", "socket", "drain", "clear", "detach", "apply", "exited"}
    /\ wpc \in {"idle", "cas", "exchange", "ring"}
    /\ {draining, ready, stop, stopfd, signaled, efd} \subseteq BOOLEAN
    /\ {completed, wal, stack, order} \subseteq Seq(Conns)
    /\ {cur, loaded} \subseteq Conns \cup {Nil}

(* Every pending request is in exactly one hand, in the order it was       *)
(* submitted: waiting in the detached list, on the stack, in the callback, *)
(* or in the log, oldest first.  No other connection is in any of them.    *)
InHand == completed \o Reverse(stack)
            \o (IF wpc = "cas" THEN <<cur>> ELSE <<>>) \o wal
OneOwner == InHand = order /\ ToSet(order) = pending /\ Len(order) = Cardinality(pending)

(* pending_count counts the pending requests, so a draining worker leaves  *)
(* its loop only when none of its requests is outstanding.                 *)
CountExact == count = Cardinality(pending)

(* A connection object the writer or a completion list still refers to is  *)
(* never freed, whatever happens to its socket.                            *)
NoDanglingConn == \A c \in Conns : c \in ToSet(InHand) => sock[c] # "free"

(* The bookkeeping of the hand-off: each request in one hand, the count a  *)
(* drain relies on, and no hand on a connection that is gone.              *)
OwnersExact == TypeOK /\ OneOwner /\ CountExact /\ NoDanglingConn

(* Every submitted mutation is eventually handed back and applied. *)
Applied == \A c \in Conns :
    c \in pending ~> (pc = "apply" /\ completed # <<>> /\ Head(completed) = c)

(* A requested stop ends the worker: the drain terminates. *)
DrainFinishes == stop ~> pc = "exited"
=============================================================================
