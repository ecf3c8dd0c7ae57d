---------------------------- MODULE Replication ----------------------------
(***************************************************************************)
(* The write path of the data nodes (node/grpc_shim/main.cpp): the Put and *)
(* PutChunked handlers, the bounded background queue, the strong-ack       *)
(* fan-out, the forward of one write to one peer over the bulk transport   *)
(* and gRPC, and the orderly stop of a node.                               *)
(*                                                                         *)
(* One key is modelled, and a write is its number: held[n] is the history  *)
(* of the writes that reached the engine of node n.  A view of the         *)
(* topology is the sequence of the key's owners, primary first; each node  *)
(* installs views on its own.  The key's validation is left out.           *)
(***************************************************************************)
EXTENDS Integers, Sequences, FiniteSets, Functions

CONSTANTS Node, Views,
          NoView,      \* a node that has read no topology yet
          FirstView,   \* FirstView[n]: the view of n when the clients arrive
          MaxWrites,   \* bound on client writes
          MaxPolls,    \* bound on topology changes over all nodes
          Changes,     \* the changes of topology: a node and the view it installs
          Calls,       \* Calls[w]: what client w may ask: node, need (require_replica_acks), big
          MaxTasks,    \* kAsyncQueueDepth
          MaxBytes,    \* kAsyncQueueBytes
          Workers,     \* kAsyncWorkerCount
          AckThreads,  \* kMaxAckThreads
          Stoppable    \* the nodes a signal may stop

(* What the constants must be. *)
ReplicationConstants ==
    /\ IsFiniteSet(Node) /\ NoView \notin Views /\ Stoppable \subseteq Node
    /\ \A v \in Views : v \in Seq(Node) /\ v # <<>> /\ IsInjective(v)
    /\ FirstView \in [Node -> Views \cup {NoView}]
    /\ Changes \subseteq Node \X Views
    /\ DOMAIN Calls = 1..MaxWrites
    /\ \A w \in DOMAIN Calls : \A c \in Calls[w] :
          /\ c \in [node : Node, need : Nat, big : BOOLEAN]
          /\ c.big => c.need = 0  \* PutChunk has no such field
    /\ {MaxWrites, MaxPolls, MaxTasks, MaxBytes} \subseteq Nat
    /\ {Workers, AckThreads} \subseteq Nat \ {0}

VARIABLES
    views,   \* views[n]: view_
    polls,   \* topology changes so far
    phases,  \* phases[n]: how far the stop of n has come
    held,    \* history: held[n], the writes stored by n
    req,     \* req[w]: the handler of client write w, and its fan-out
    queue,   \* queue[n]: tasks_, the background forwards waiting at n
    sends,   \* the forwards in progress, each on a thread of its own
    wire     \* the requests on their way to a peer

replicationVars == <<views, polls, phases, held, req, queue, sends, wire>>

Write == 1..MaxWrites
Task == [w : Write, to : Node]
Send == [w : Write, to : Node, strong : BOOLEAN, leg : {"bulk", "grpc"},
         answer : {"none", "ok", "bad"}]
Message == [w : Write, to : Node, leg : {"bulk", "grpc"}]
Handler == [pc : {"free", "store", "plan", "forward", "wait", "done"},
            node : Node \cup {NoView}, need : Nat, big : BOOLEAN,
            targets : Seq(Node), left : Seq(Node),
            completed : Nat, acked : Nat,
            status : {"none", "ok", "invalid", "engine", "deadline"}]

NoRequest == [pc |-> "free", node |-> NoView, need |-> 0, big |-> FALSE,
         targets |-> <<>>, left |-> <<>>, completed |-> 0, acked |-> 0, status |-> "none"]

ReplicationInit ==
    /\ views = FirstView /\ polls = 0
    /\ phases = [n \in Node |-> "up"]
    /\ held = [n \in Node |-> {}]
    /\ req = [w \in Write |-> NoRequest]
    /\ queue = [n \in Node |-> <<>>]
    /\ sends = {} /\ wire = {}

(* value.size(): a chunked write is above the unary limit. *)
Bytes(w) == IF req[w].big THEN 2 ELSE 1

StoreWrite(n, w) == held' = [held EXCEPT ![n] = @ \cup {w}]

-----------------------------------------------------------------------------
(* The handlers of client writes. *)

(* BuildView and PlanFor: the replicas to forward to, if n is the primary. *)
IsPrimary(n) == views[n] # NoView /\ Head(views[n]) = n
PlanFor(n) == IF IsPrimary(n) THEN Tail(views[n]) ELSE <<>>

(* RefuseUnachievableAcks. *)
Refused(n, need) == need > 0 /\ (~IsPrimary(n) \/ need > Len(PlanFor(n)))

(* Put, up to the local write; PutChunked, once its stream has arrived. *)
Receive(w, c) ==
    LET plan == IF c.big THEN <<>> ELSE PlanFor(c.node) IN
    /\ req[w].pc = "free" /\ phases[c.node] = "up"
    /\ req' = [req EXCEPT ![w] =
         IF Refused(c.node, c.need)
         THEN [@ EXCEPT !.pc = "done", !.node = c.node, !.need = c.need, !.status = "invalid"]
         ELSE [@ EXCEPT !.pc = "store", !.node = c.node, !.need = c.need, !.big = c.big,
                        !.targets = plan, !.left = plan]]
    /\ UNCHANGED <<views, polls, phases, held, queue, sends, wire>>

StoreLocal(w) ==
    /\ req[w].pc = "store"
    /\ StoreWrite(req[w].node, w)
    /\ req' = [req EXCEPT ![w].pc = IF req[w].big THEN "plan" ELSE "forward"]
    /\ UNCHANGED <<views, polls, phases, queue, sends, wire>>

StoreFails(w) ==
    /\ req[w].pc = "store"
    /\ req' = [req EXCEPT ![w].pc = "done", ![w].status = "engine"]
    /\ UNCHANGED <<views, polls, phases, held, queue, sends, wire>>

(* PutChunked asks for the plan only after its value is stored. *)
PlanChunked(w) ==
    /\ req[w].pc = "plan"
    /\ req' = [req EXCEPT ![w].pc = "forward",
                          ![w].targets = PlanFor(req[w].node), ![w].left = PlanFor(req[w].node)]
    /\ UNCHANGED <<views, polls, phases, held, queue, sends, wire>>

-----------------------------------------------------------------------------
(* queued_bytes_, the sum of Bytes over the queue: one for every task, and *)
(* one more for a big one.                                                 *)
QueuedBytes(n) == Len(queue[n]) + Cardinality({i \in DOMAIN queue[n] : req[queue[n][i].w].big})

(* ForwardAsync: AsyncQueue::Submit refuses rather than blocks. *)

HasRoom(n, w) ==
    /\ Len(queue[n]) < MaxTasks
    /\ QueuedBytes(n) + Bytes(w) <= MaxBytes \/ queue[n] = <<>>

Accepts(n, w) == phases[n] \in {"up", "closing"} /\ HasRoom(n, w)

SubmitNext(w) ==
    LET n == req[w].node IN
    /\ req[w].pc = "forward" /\ req[w].need = 0 /\ req[w].left # <<>>
    /\ queue' = IF Accepts(n, w)
                THEN [queue EXCEPT ![n] = Append(@, [w |-> w, to |-> Head(req[w].left)])]
                ELSE queue
    /\ req' = [req EXCEPT ![w].left = Tail(@)]
    /\ UNCHANGED <<views, polls, phases, held, sends, wire>>

(* The default path answers without waiting for any replica. *)
AnswerAsync(w) ==
    /\ req[w].pc = "forward" /\ req[w].need = 0 /\ req[w].left = <<>>
    /\ req' = [req EXCEPT ![w].pc = "done", ![w].status = "ok"]
    /\ UNCHANGED <<views, polls, phases, held, queue, sends, wire>>

-----------------------------------------------------------------------------
(* ForwardAndWait. *)
StrongAt(n) == {s \in sends : s.strong /\ req[s.w].node = n}
AsyncAt(n) == {s \in sends : ~s.strong /\ req[s.w].node = n}

StartSend(w, to, strong, leg) ==
    /\ sends' = sends \cup {[w |-> w, to |-> to, strong |-> strong, leg |-> leg, answer |-> "none"]}
    /\ wire' = wire \cup {[w |-> w, to |-> to, leg |-> leg]}

(* Mutant: a forward that failed counts as an ack. *)
CompletedAsAck(w, ok) == [req[w] EXCEPT !.completed = @ + 1, !.acked = @ + 1]

(* Complete. *)
Completed(w, ok) == [req[w] EXCEPT !.completed = @ + 1, !.acked = @ + (IF ok THEN 1 ELSE 0)]

ThreadFree(n) == Cardinality(StrongAt(n)) < AckThreads

(* Mutant: a forward over the limit is skipped, not completed. *)
LaunchNextSkips(w) ==
    /\ req[w].pc = "forward" /\ req[w].need > 0 /\ req[w].left # <<>>
    /\ IF ThreadFree(req[w].node) THEN StartSend(w, Head(req[w].left), TRUE, "grpc")
                                  ELSE UNCHANGED <<sends, wire>>
    /\ req' = [req EXCEPT ![w].left = Tail(@)]
    /\ UNCHANGED <<views, polls, phases, held, queue>>

LaunchNext(w) ==
    LET to == Head(req[w].left) IN
    /\ req[w].pc = "forward" /\ req[w].need > 0 /\ req[w].left # <<>>
    /\ \/ ThreadFree(req[w].node)
          /\ StartSend(w, to, TRUE, "grpc")
          /\ req' = [req EXCEPT ![w].left = Tail(@)]
       \/ \* the limit is reached, or std::thread throws
          /\ req' = [req EXCEPT ![w] = [Completed(w, FALSE) EXCEPT !.left = Tail(@)]]
          /\ UNCHANGED <<sends, wire>>
    /\ UNCHANGED <<views, polls, phases, held, queue>>

AllLaunched(w) ==
    /\ req[w].pc = "forward" /\ req[w].need > 0 /\ req[w].left = <<>>
    /\ req' = [req EXCEPT ![w].pc = "wait"]
    /\ UNCHANGED <<views, polls, phases, held, queue, sends, wire>>

(* wait_for returns when its predicate holds or the ack timeout expires;   *)
(* the number of acks then decides.                                        *)
AnswerStrong(w) ==
    /\ req[w].pc = "wait"
    /\ req' = [req EXCEPT ![w].pc = "done",
                          ![w].status = IF req[w].acked >= req[w].need THEN "ok" ELSE "deadline"]
    /\ UNCHANGED <<views, polls, phases, held, queue, sends, wire>>

-----------------------------------------------------------------------------
(* AsyncQueue::Run: a worker takes the oldest task, also while stopping. *)

MayTake(n) == phases[n] \in {"up", "closing", "draining"}

WorkerTake(n) ==
    /\ MayTake(n) /\ queue[n] # <<>> /\ Cardinality(AsyncAt(n)) < Workers
    /\ LET t == Head(queue[n]) IN
       \E leg \in IF req[t.w].big THEN {"bulk", "grpc"} ELSE {"grpc"} :
           StartSend(t.w, t.to, FALSE, leg)
    /\ queue' = [queue EXCEPT ![n] = Tail(@)]
    /\ UNCHANGED <<views, polls, phases, held, req>>

-----------------------------------------------------------------------------
(* The peer: a forwarded copy is stored and never forwarded again.  The    *)
(* bulk listener outlives the gRPC server a little.                        *)
Serves(m) == phases[m.to] \in IF m.leg = "bulk" THEN {"up", "closing"} ELSE {"up"}

Answered(m, a) ==
    {IF s.w = m.w /\ s.to = m.to /\ s.leg = m.leg THEN [s EXCEPT !.answer = a] ELSE s : s \in sends}

PeerPut(m) ==
    /\ Serves(m)
    /\ StoreWrite(m.to, m.w)
    /\ wire' = wire \ {m} /\ sends' = Answered(m, "ok")
    /\ UNCHANGED <<views, polls, phases, req, queue>>

(* The peer is gone, refuses the call, or its engine fails. *)
PeerFails(m) ==
    /\ wire' = wire \ {m} /\ sends' = Answered(m, "bad")
    /\ UNCHANGED <<views, polls, phases, held, req, queue>>

-----------------------------------------------------------------------------
(* SendOne, on the thread of send s. *)
EndSend(s, ok) ==
    /\ sends' = sends \ {s}
    /\ req' = IF s.strong THEN [req EXCEPT ![s.w] = Completed(s.w, ok)] ELSE req
    /\ UNCHANGED wire

SendReturns(s) ==
    /\ s.answer = "ok" /\ EndSend(s, TRUE)
    /\ UNCHANGED <<views, polls, phases, held, queue>>

(* Mutant: a call without a deadline. *)
GivesUpOnAnswer(s) == s.answer = "bad"

(* An error came back, or the deadline passed: the request may still be on *)
(* its way, or its answer lost.                                            *)
GivesUp(s) == TRUE

(* A failed bulk transfer falls back to gRPC. *)
SendFails(s) ==
    /\ GivesUp(s)
    /\ \/ s.leg = "bulk"
          /\ sends' = (sends \ {s}) \cup {[s EXCEPT !.leg = "grpc", !.answer = "none"]}
          /\ wire' = wire \cup {[w |-> s.w, to |-> s.to, leg |-> "grpc"]}
          /\ UNCHANGED req
       \/ s.leg = "grpc" /\ EndSend(s, FALSE)
    /\ UNCHANGED <<views, polls, phases, held, queue>>

-----------------------------------------------------------------------------
(* Publish: another topology replaces the installed one. *)
Poll(n, v) ==
    /\ polls < MaxPolls /\ phases[n] \in {"up", "closing"} /\ views[n] # v
    /\ views' = [views EXCEPT ![n] = v] /\ polls' = polls + 1
    /\ UNCHANGED <<phases, held, req, queue, sends, wire>>

(* main after the signal: the server, then the queue, then the stragglers. *)
SetPhase(n, p) ==
    /\ phases' = [phases EXCEPT ![n] = p]
    /\ UNCHANGED <<views, polls, held, req, queue, sends, wire>>

HandlersAt(n) == {w \in Write : req[w].node = n /\ req[w].pc # "done"}

Stop(n) ==
    \/ phases[n] = "up" /\ n \in Stoppable /\ SetPhase(n, "closing")
    \/ phases[n] = "closing" /\ HandlersAt(n) = {} /\ SetPhase(n, "draining")
    \/ phases[n] = "draining" /\ queue[n] = <<>> /\ AsyncAt(n) = {} /\ SetPhase(n, "acks")
    \/ phases[n] = "acks" /\ SetPhase(n, "down")  \* none is left, or the deadline passed

Handle(w) ==
    \/ StoreLocal(w) \/ StoreFails(w) \/ PlanChunked(w)
    \/ SubmitNext(w) \/ AnswerAsync(w)
    \/ LaunchNext(w) \/ AllLaunched(w) \/ AnswerStrong(w)

SendEnds(s) == SendReturns(s) \/ SendFails(s)

ReplicationNext ==
    \/ \E w \in Write : \E c \in Calls[w] : Receive(w, c)
    \/ \E w \in Write : Handle(w)
    \/ \E n \in Node : WorkerTake(n) \/ Stop(n)
    \/ \E m \in wire : PeerPut(m) \/ PeerFails(m)
    \/ \E s \in sends : SendEnds(s)
    \/ \E c \in Changes : Poll(c[1], c[2])

ReplicationSpec == ReplicationInit /\ [][ReplicationNext]_replicationVars

(* Some thread of the nodes runs as long as one can, and every call has a  *)
(* deadline; a peer owes no answer, a client no request and the metadata   *)
(* plane no change.                                                        *)
Progress ==
    \/ \E w \in Write : Handle(w)
    \/ \E n \in Node : WorkerTake(n) \/ (phases[n] # "up" /\ Stop(n))
    \/ \E s \in sends : SendEnds(s)

ReplicationFairSpec == ReplicationSpec /\ WF_replicationVars(Progress)

-----------------------------------------------------------------------------
ReplicationTypeOK ==
    /\ views \in [Node -> Views \cup {NoView}] /\ polls \in 0..MaxPolls
    /\ phases \in [Node -> {"up", "closing", "draining", "acks", "down"}]
    /\ held \in [Node -> SUBSET Write]
    /\ req \in [Write -> Handler] /\ \A w \in Write : req[w].acked <= req[w].completed
    /\ queue \in [Node -> Seq(Task)] /\ sends \subseteq Send /\ wire \subseteq Message

(* What a client is told is true (Put, ForwardAndWait): an ack is a        *)
(* replica that stored the write; OK with required acks means that many    *)
(* distinct replicas stored it; a refused or failed request left nothing   *)
(* behind anywhere; and a missed deadline did not undo the local write.    *)
AnswerHonest ==
    \A w \in Write :
        LET r == req[w]
            replicas == {n \in Range(r.targets) : w \in held[n]} IN
        /\ r.acked <= Cardinality(replicas)
        /\ r.status = "ok" => w \in held[r.node] /\ Cardinality(replicas) >= r.need
        /\ r.status = "deadline" => w \in held[r.node]
        /\ r.status \in {"invalid", "engine"} => \A n \in Node : w \notin held[n]

(* The loop prevention of from_replication: a write only ever reaches the  *)
(* node the client called and the replicas of its one plan, whatever views *)
(* the other nodes hold, and in spite of repeated and late deliveries.     *)
StaysInPlan ==
    \A w \in Write, n \in Node : w \in held[n] => n = req[w].node \/ n \in Range(req[w].targets)

(* The counters of a fan-out (AckFanout): every target is launched and     *)
(* completed exactly once, and a request admitted by                       *)
(* RefuseUnachievableAcks has enough targets although the view may change  *)
(* after it was admitted.                                                  *)
FanoutExact ==
    \A w \in Write :
        LET r == req[w] IN
        r.need > 0 /\ r.status # "invalid" =>
            /\ Len(r.targets) >= r.need
            /\ Len(r.targets) = Len(r.left) + r.completed
                                + Cardinality({s \in sends : s.w = w})

(* AsyncQueue and kMaxAckThreads: neither the queue, in tasks and in       *)
(* bytes, nor the strong-ack threads outgrow their limits; one task alone  *)
(* may be larger than the byte limit.                                      *)
Bounded ==
    \A n \in Node :
        /\ Len(queue[n]) <= MaxTasks /\ (QueuedBytes(n) <= MaxBytes \/ Len(queue[n]) = 1)
        /\ Cardinality(StrongAt(n)) <= AckThreads /\ Cardinality(AsyncAt(n)) <= Workers

(* What a fan-out and the queues count is what is really in flight, and no *)
(* write leaves its plan.                                                  *)
FanoutSafe == ReplicationTypeOK /\ FanoutExact /\ Bounded /\ StaysInPlan

(* The background forwards that were accepted are attempted, although      *)
(* peers may hang and the node may be told to stop.                        *)
TasksRun == (\E n \in Node : queue[n] # <<>>) ~> \A n \in Node : queue[n] = <<>>
=============================================================================
