------------------------- MODULE ReplicationProofs -------------------------
(***************************************************************************)
(* What a data node tells a client about its write is true, the counters   *)
(* of a fan-out and the bounds of the queue are exact, and a write never   *)
(* leaves its plan: for any nodes, views, calls, limits and churn.         *)
(***************************************************************************)
EXTENDS Replication, FiniteSetTheorems, TLAPS

-----------------------------------------------------------------------------
(* The inductive invariant, write by write *)

(* The peers a forward of w is in progress to, and the replicas of its     *)
(* plan that stored it.                                                    *)
Sent(w) == {s.to : s \in {t \in sends : t.w = w}}
Replicas(w) == {n \in Range(req[w].targets) : w \in held[n]}

(* The replicas whose forward is over. *)
Over(w) == Replicas(w) \ (Sent(w) \cup Range(req[w].left))

(* Nothing of w is in flight, or stored. *)
Nowhere(w) ==
    /\ \A n \in Node : \A i \in DOMAIN queue[n] : queue[n][i].w # w
    /\ (\A s \in sends : s.w # w) /\ (\A m \in wire : m.w # w)
Unstored(w) == \A n \in Node : w \notin held[n]

(* How far the handler of w has come, and what it has left behind. *)
Stage(w) ==
    /\ req[w].pc = "free" => req[w] = NoRequest
    /\ req[w].pc # "free" => req[w].node \in Node
    /\ req[w].pc \in {"free", "store", "plan"} =>
          /\ Nowhere(w) /\ req[w].completed = 0 /\ req[w].acked = 0 /\ req[w].left = req[w].targets
    /\ req[w].pc \in {"free", "store"} => Unstored(w)
    /\ req[w].pc \in {"store", "plan"} /\ req[w].big => req[w].targets = <<>>
    /\ req[w].pc = "plan" => req[w].big
    /\ req[w].pc = "done" <=> req[w].status # "none"
    /\ req[w].status \in {"invalid", "engine"} => Nowhere(w) /\ Unstored(w)
    /\ (req[w].pc \in {"plan", "forward", "wait"} \/ req[w].status \in {"ok", "deadline"})
          => w \in held[req[w].node]
    /\ req[w].big => req[w].need = 0

(* What the counters of the fan-out of w stand for. *)
Counts(w) ==
    /\ IsInjective(req[w].targets) /\ IsInjective(req[w].left)
    /\ Range(req[w].left) \subseteq Range(req[w].targets)
    /\ req[w].need = 0 => req[w].acked = 0
    /\ req[w].need > 0 => req[w].acked <= Cardinality(Over(w))
    /\ req[w].need > 0 /\ req[w].status # "invalid" =>
          /\ Len(req[w].targets) >= req[w].need
          /\ Len(req[w].targets) = Len(req[w].left) + req[w].completed + Cardinality(Sent(w))
    /\ req[w].status = "ok" => req[w].need <= Cardinality(Replicas(w))

(* The forwards of w: each goes to a replica of its plan, a strong one     *)
(* only once and over gRPC, and an answer is OK only if the peer stored w. *)
SendsOf(w) ==
    /\ \A s \in sends : s.w = w =>
          /\ s.to \in Range(req[w].targets) /\ (s.strong <=> req[w].need > 0)
          /\ s.answer = "ok" => w \in held[s.to]
          /\ s.strong => s.leg = "grpc" /\ s.to \notin Range(req[w].left)
    /\ \A s, t \in sends : s.w = w /\ t.w = w /\ s.strong /\ t.strong /\ s.to = t.to => s = t
WireOf(w) == \A m \in wire : m.w = w => m.to \in Range(req[w].targets)
QueueOf(w) ==
    \A n \in Node : \A i \in DOMAIN queue[n] : queue[n][i].w = w =>
        req[w].node = n /\ req[w].need = 0 /\ queue[n][i].to \in Range(req[w].targets)
InPlan(w) == \A n \in Node : w \in held[n] => n = req[w].node \/ n \in Range(req[w].targets)

PerWrite(w) == Stage(w) /\ Counts(w) /\ SendsOf(w) /\ WireOf(w) /\ QueueOf(w) /\ InPlan(w)

RInv == ReplicationTypeOK /\ IsFiniteSet(sends) /\ Bounded /\ \A w \in Write : PerWrite(w)

-----------------------------------------------------------------------------
(* Types *)

(* The limits of a node are numbers. *)
LEMMA Limits ==
    ASSUME ReplicationConstants
    PROVE  MaxTasks \in Nat /\ MaxBytes \in Nat /\ AckThreads \in Nat /\ Workers \in Nat
<1>1. {MaxWrites, MaxPolls, MaxTasks, MaxBytes} \subseteq Nat /\ {Workers, AckThreads} \subseteq Nat \ {0}
  BY Zenon DEF ReplicationConstants
<1> QED
  BY <1>1, Zenon

(* The fields of a handler. *)
LEMMA HandlerFacts ==
    ASSUME NEW r \in Handler
    PROVE  /\ r.pc \in {"free", "store", "plan", "forward", "wait", "done"}
           /\ r.node \in Node \cup {NoView} /\ r.need \in Nat /\ r.big \in BOOLEAN
           /\ r.targets \in Seq(Node) /\ r.left \in Seq(Node) /\ r.completed \in Nat /\ r.acked \in Nat
           /\ r.status \in {"none", "ok", "invalid", "engine", "deadline"}
BY DEF Handler

(* The type invariant, variable by variable. *)
LEMMA Types ==
    ASSUME ReplicationTypeOK
    PROVE  /\ views \in [Node -> Views \cup {NoView}] /\ polls \in 0..MaxPolls
           /\ phases \in [Node -> {"up", "closing", "draining", "acks", "down"}]
           /\ held \in [Node -> SUBSET Write] /\ req \in [Write -> Handler]
           /\ (\A w \in Write : req[w].acked <= req[w].completed)
           /\ queue \in [Node -> Seq(Task)] /\ sends \subseteq Send /\ wire \subseteq Message
BY Zenon DEF ReplicationTypeOK

(* A plan is a sequence of distinct nodes. *)
LEMMA PlanFacts ==
    ASSUME ReplicationConstants, ReplicationTypeOK, NEW n \in Node
    PROVE  PlanFor(n) \in Seq(Node) /\ IsInjective(PlanFor(n))
<1>1. CASE IsPrimary(n)
  <2>1. PICK v : v = views[n]
    OBVIOUS
  <2>2. v \in Views
    BY <1>1, <2>1, Types DEF IsPrimary
  <2>3. v \in Seq(Node) /\ v # <<>> /\ IsInjective(v)
    BY <2>2, Zenon DEF ReplicationConstants
  <2>4. Tail(v) \in Seq(Node) /\ IsInjective(Tail(v))
    BY <2>3 DEF IsInjective
  <2> QED
    BY <1>1, <2>1, <2>4, Zenon DEF PlanFor
<1>2. CASE ~IsPrimary(n)
  <2>1. <<>> \in Seq(Node) /\ IsInjective(<<>>)
    BY DEF IsInjective
  <2> QED
    BY <1>2, <2>1, Zenon DEF PlanFor
<1> QED
  BY <1>1, <1>2, Zenon

(* A plan has finitely many replicas. *)
LEMMA RangeFinite ==
    ASSUME NEW s \in Seq(Node)
    PROVE  IsFiniteSet(Range(s))
<1>1. PICK f : f = [i \in 1..Len(s) |-> s[i]]
  OBVIOUS
<1>2. Len(s) \in Nat /\ DOMAIN s = 1..Len(s)
  OBVIOUS
<1>3. IsFiniteSet(1..Len(s))
  BY <1>2, FS_Interval
<1>4. f \in Surjection(1..Len(s), Range(s))
  BY <1>1, <1>2 DEF Surjection, Range
<1> QED
  BY <1>3, <1>4, FS_Surjection, Zenon

-----------------------------------------------------------------------------
(* A step is about one write *)

(* The step leaves everything about write v alone. *)
Untouched(v) ==
    /\ req'[v] = req[v]
    /\ \A s : s.w = v => (s \in sends' <=> s \in sends)
    /\ \A m : m.w = v /\ m \in wire' => m \in wire
    /\ \A n \in Node : v \in held'[n] <=> v \in held[n]
    /\ \A n \in Node : \A i \in DOMAIN queue'[n] :
          queue'[n][i].w = v => \E j \in DOMAIN queue[n] : queue[n][j] = queue'[n][i]

(* So v keeps its part of the invariant. *)
LEMMA UntouchedKeeps ==
    ASSUME ReplicationTypeOK, NEW v \in Write, PerWrite(v), Untouched(v)
    PROVE  PerWrite(v)'
<1>1. req'[v] = req[v]
  BY Zenon DEF Untouched
<1>2. {t \in sends' : t.w = v} = {t \in sends : t.w = v}
  BY Zenon DEF Untouched
<1>3. Sent(v)' = Sent(v)
  BY <1>2, Zenon DEF Sent
<1>4. \A n \in Node : v \in held'[n] <=> v \in held[n]
  BY Zenon DEF Untouched
<1>5. Nowhere(v) => Nowhere(v)'
  <2> SUFFICES ASSUME Nowhere(v) PROVE Nowhere(v)'
    OBVIOUS
  <2>1. ASSUME NEW n \in Node, NEW i \in DOMAIN queue'[n], queue'[n][i].w = v PROVE FALSE
    <3>1. PICK j \in DOMAIN queue[n] : queue[n][j] = queue'[n][i]
      BY <2>1, Zenon DEF Untouched
    <3> QED
      BY <2>1, <3>1, Zenon DEF Nowhere
  <2>2. (\A s \in sends' : s.w # v) /\ (\A m \in wire' : m.w # v)
    BY Zenon DEF Untouched, Nowhere
  <2> QED
    BY <2>1, <2>2, Zenon DEF Nowhere
<1>6. Unstored(v) => Unstored(v)'
  BY <1>4, Zenon DEF Unstored
<1>7. Stage(v)'
  BY <1>1, <1>4, <1>5, <1>6, Zenon DEF PerWrite, Stage
<1>8. Range(req[v].targets) \subseteq Node
  BY Types, HandlerFacts DEF Range
<1>9. Replicas(v)' = Replicas(v)
  <2>1. \A n \in Range(req[v].targets) : v \in held'[n] <=> v \in held[n]
    BY <1>4, <1>8
  <2> QED
    BY <1>1, <2>1, Zenon DEF Replicas
<1>10. Counts(v)'
  <2>1. Over(v)' = Over(v)
    BY <1>1, <1>3, <1>9, Zenon DEF Over
  <2> QED
    BY <1>1, <1>3, <1>9, <2>1, Zenon DEF PerWrite, Counts
<1>11. SendsOf(v)'
  <2>1. \A s \in sends' : s.w = v => s \in sends
    BY Zenon DEF Untouched
  <2>2. ASSUME NEW s \in sends', s.w = v
        PROVE  /\ s.to \in Range(req'[v].targets) /\ (s.strong <=> req'[v].need > 0)
               /\ s.answer = "ok" => v \in held'[s.to]
               /\ s.strong => s.leg = "grpc" /\ s.to \notin Range(req'[v].left)
    <3>1. /\ s.to \in Range(req[v].targets) /\ (s.strong <=> req[v].need > 0)
          /\ s.answer = "ok" => v \in held[s.to]
          /\ s.strong => s.leg = "grpc" /\ s.to \notin Range(req[v].left)
      BY <2>1, <2>2, Zenon DEF PerWrite, SendsOf
    <3>2. s.to \in Node
      BY <1>8, <3>1
    <3> QED
      BY <1>1, <1>4, <3>1, <3>2, Zenon
  <2> QED
    BY <2>1, <2>2, Zenon DEF PerWrite, SendsOf
<1>12. WireOf(v)'
  BY <1>1, Zenon DEF PerWrite, WireOf, Untouched
<1>13. QueueOf(v)'
  <2> SUFFICES ASSUME NEW n \in Node, NEW i \in DOMAIN queue'[n], queue'[n][i].w = v
               PROVE  req[v].node = n /\ req[v].need = 0 /\ queue'[n][i].to \in Range(req[v].targets)
    BY <1>1, Zenon DEF QueueOf
  <2>1. PICK j \in DOMAIN queue[n] : queue[n][j] = queue'[n][i]
    BY Zenon DEF Untouched
  <2>2. queue[n][j].w = v
    BY <2>1
  <2>3. req[v].node = n /\ req[v].need = 0 /\ queue[n][j].to \in Range(req[v].targets)
    BY <2>2, Zenon DEF PerWrite, QueueOf
  <2> QED
    BY <2>1, <2>3
<1>14. InPlan(v)'
  BY <1>1, <1>4, Zenon DEF PerWrite, InPlan
<1> QED
  BY <1>7, <1>10, <1>11, <1>12, <1>13, <1>14, Zenon DEF PerWrite

(* The handler of w changed, and held only by w; nothing moved between     *)
(* queue, threads and wire.                                                *)
HandlerMoved(w) ==
    /\ req' \in [Write -> Handler] /\ \A v \in Write : v # w => req'[v] = req[v]
    /\ held' \in [Node -> SUBSET Write]
    /\ \A n \in Node : held[n] \subseteq held'[n] /\ \A v \in Write : v # w /\ v \in held'[n] => v \in held[n]
    /\ views' = views /\ polls' = polls /\ phases' = phases /\ queue' = queue /\ sends' = sends /\ wire' = wire

(* Nothing of w in flight appears or disappears. *)
LEMMA FlightSame ==
    ASSUME NEW w, sends' = sends, wire' = wire, queue' = queue
    PROVE  Sent(w)' = Sent(w) /\ (Nowhere(w)' <=> Nowhere(w))
<1>1. Sent(w)' = Sent(w)
  BY Zenon DEF Sent
<1>2. Nowhere(w)' <=> Nowhere(w)
  BY Zenon DEF Nowhere
<1> QED
  BY <1>1, <1>2

(* The limits hold while what is in flight stays and its writes keep their *)
(* node and size.                                                          *)
LEMMA BoundsSame ==
    ASSUME ReplicationTypeOK, Bounded, sends' = sends, wire' = wire, queue' = queue,
           \A w \in Write : ~Nowhere(w) => req'[w].node = req[w].node /\ req'[w].big = req[w].big
    PROVE  Bounded'
<1>1. sends \subseteq Send /\ queue \in [Node -> Seq(Task)]
  BY Types
<1>2. ASSUME NEW s \in sends PROVE req'[s.w].node = req[s.w].node
  <2>1. s.w \in Write
    BY <1>1 DEF Send
  <2>2. ~Nowhere(s.w)
    BY Zenon DEF Nowhere
  <2> QED
    BY <2>1, <2>2, Zenon
<1>3. ASSUME NEW n \in Node
      PROVE  {s \in sends : s.strong /\ req'[s.w].node = n} = {s \in sends : s.strong /\ req[s.w].node = n}
  BY <1>2, Zenon
<1>4. ASSUME NEW n \in Node
      PROVE  {s \in sends : ~s.strong /\ req'[s.w].node = n} = {s \in sends : ~s.strong /\ req[s.w].node = n}
  BY <1>2, Zenon
<1>5. ASSUME NEW n \in Node, NEW i \in DOMAIN queue[n] PROVE req'[queue[n][i].w].big = req[queue[n][i].w].big
  <2>1. queue[n][i] \in Task
    BY <1>1
  <2>2. queue[n][i].w \in Write
    BY <2>1 DEF Task
  <2>3. ~Nowhere(queue[n][i].w)
    BY Zenon DEF Nowhere
  <2> QED
    BY <2>2, <2>3, Zenon
<1>6. ASSUME NEW n \in Node
      PROVE  {i \in DOMAIN queue[n] : req'[queue[n][i].w].big} = {i \in DOMAIN queue[n] : req[queue[n][i].w].big}
  BY <1>5, Zenon
<1>7. ASSUME NEW n \in Node PROVE StrongAt(n)' = StrongAt(n) /\ AsyncAt(n)' = AsyncAt(n)
  BY <1>3, <1>4 DEF StrongAt, AsyncAt
<1>8. ASSUME NEW n \in Node PROVE QueuedBytes(n)' = QueuedBytes(n)
  BY <1>6, Zenon DEF QueuedBytes
<1> QED
  BY <1>7, <1>8, Zenon DEF Bounded

(* What remains to be shown of such a step is the write's own part. *)
LEMMA HandlerKeeps ==
    ASSUME RInv, NEW w \in Write, HandlerMoved(w), PerWrite(w)',
           req'[w].acked <= req'[w].completed,
           Nowhere(w) \/ (req'[w].node = req[w].node /\ req'[w].big = req[w].big)
    PROVE  RInv'
<1>1. /\ req' \in [Write -> Handler] /\ held' \in [Node -> SUBSET Write]
      /\ views' = views /\ polls' = polls /\ phases' = phases /\ queue' = queue /\ sends' = sends /\ wire' = wire
      /\ \A v \in Write : v # w => req'[v] = req[v]
  BY Zenon DEF HandlerMoved
<1>2. ReplicationTypeOK /\ Bounded /\ IsFiniteSet(sends)
  BY Zenon DEF RInv
<1>3. ASSUME NEW v \in Write, v # w PROVE PerWrite(v)'
  <2>1. Untouched(v)
    BY <1>1, <1>3, Zenon DEF Untouched, HandlerMoved
  <2> QED
    BY <1>2, <2>1, UntouchedKeeps, Zenon DEF RInv
<1>4. ReplicationTypeOK'
  <2>1. \A v \in Write : req'[v].acked <= req'[v].completed
    BY <1>1, Zenon DEF RInv, ReplicationTypeOK
  <2> QED
    BY <1>1, <1>2, <2>1, Zenon DEF ReplicationTypeOK
<1>5. Bounded'
  <2>1. \A v \in Write : ~Nowhere(v) => req'[v].node = req[v].node /\ req'[v].big = req[v].big
    BY <1>1, Zenon
  <2> QED
    BY <1>1, <1>2, <2>1, BoundsSame, Zenon
<1>6. IsFiniteSet(sends)'
  BY <1>1, <1>2, Zenon
<1> QED
  BY <1>3, <1>4, <1>5, <1>6, Zenon DEF RInv

-----------------------------------------------------------------------------
(* The steps of a handler *)

(* Only the program counter and the answer of the handler of w change. *)
Advances(w, p, st) ==
    /\ req' \in [Write -> Handler] /\ \A v \in Write : v # w => req'[v] = req[v]
    /\ req'[w].pc = p /\ req'[w].status = st
    /\ req'[w].node = req[w].node /\ req'[w].need = req[w].need /\ req'[w].big = req[w].big
    /\ req'[w].targets = req[w].targets /\ req'[w].left = req[w].left
    /\ req'[w].completed = req[w].completed /\ req'[w].acked = req[w].acked

(* The assignments of such a step. *)
LEMMA Advance ==
    ASSUME ReplicationTypeOK, NEW w \in Write,
           NEW p \in {"free", "store", "plan", "forward", "wait", "done"},
           NEW st \in {"none", "ok", "invalid", "engine", "deadline"},
           req' = [req EXCEPT ![w].pc = p, ![w].status = st]
    PROVE  Advances(w, p, st)
<1>1. req \in [Write -> Handler] /\ req[w] \in Handler
  BY Types
<1>2. PICK r : r = [req[w] EXCEPT !.pc = p, !.status = st]
  OBVIOUS
<1>3. req' = [req EXCEPT ![w] = r]
  BY <1>1, <1>2, Zenon
<1>4. r \in Handler
  BY <1>1, <1>2, Zenon DEF Handler
<1>5. req' \in [Write -> Handler] /\ req'[w] = r /\ \A v \in Write : v # w => req'[v] = req[v]
  BY <1>1, <1>3, <1>4, Zenon
<1>6. /\ r.pc = p /\ r.status = st /\ r.node = req[w].node /\ r.need = req[w].need
      /\ r.big = req[w].big /\ r.targets = req[w].targets /\ r.left = req[w].left
      /\ r.completed = req[w].completed /\ r.acked = req[w].acked
  BY <1>1, <1>2 DEF Handler
<1> QED
  BY <1>5, <1>6, Zenon DEF Advances

(* More replicas can only have stored a write. *)
LEMMA ReplicasGrow ==
    ASSUME ReplicationTypeOK, NEW w \in Write, req'[w].targets = req[w].targets, req'[w].left = req[w].left,
           Sent(w)' = Sent(w), \A n \in Node : held[n] \subseteq held'[n]
    PROVE  /\ Cardinality(Replicas(w)) <= Cardinality(Replicas(w)')
           /\ Cardinality(Over(w)) <= Cardinality(Over(w)')
           /\ {Cardinality(Replicas(w)), Cardinality(Replicas(w)'),
               Cardinality(Over(w)), Cardinality(Over(w)')} \subseteq Nat
<1>1. req[w].targets \in Seq(Node)
  BY Types, HandlerFacts
<1>2. IsFiniteSet(Range(req[w].targets)) /\ Range(req[w].targets) \subseteq Node
  <2>1. Range(req[w].targets) \subseteq Node
    BY <1>1 DEF Range
  <2> QED
    BY <1>1, <2>1, RangeFinite
<1>3. Replicas(w) \subseteq Replicas(w)' /\ Replicas(w)' \subseteq Range(req[w].targets)
  BY <1>2, Zenon DEF Replicas
<1>4. Over(w) \subseteq Over(w)' /\ Over(w)' \subseteq Range(req[w].targets)
  BY <1>3, Zenon DEF Over
<1>5. IsFiniteSet(Replicas(w)') /\ IsFiniteSet(Over(w)')
  BY <1>2, <1>3, <1>4, FS_Subset, Zenon
<1>6. /\ Cardinality(Replicas(w)) <= Cardinality(Replicas(w)') /\ IsFiniteSet(Replicas(w))
      /\ Cardinality(Over(w)) <= Cardinality(Over(w)') /\ IsFiniteSet(Over(w))
  BY <1>3, <1>4, <1>5, FS_Subset, Zenon
<1>7. /\ Cardinality(Replicas(w)) \in Nat /\ Cardinality(Replicas(w)') \in Nat
      /\ Cardinality(Over(w)) \in Nat /\ Cardinality(Over(w)') \in Nat
  BY <1>5, <1>6, FS_CardinalityType, Zenon
<1> QED
  BY <1>6, <1>7

(* Such a step keeps the counters, and what is in flight stays in order. *)
LEMMA AdvanceKeeps ==
    ASSUME RInv, NEW w \in Write, NEW p, NEW st, Advances(w, p, st), HandlerMoved(w),
           req[w].status = "none", st # "invalid",
           st = "ok" => req[w].need <= Cardinality(Replicas(w)),
           Stage(w)', InPlan(w)'
    PROVE  RInv'
<1>1. ReplicationTypeOK /\ PerWrite(w)
  BY Zenon DEF RInv
<1>2. /\ req'[w].pc = p /\ req'[w].status = st
      /\ req'[w].node = req[w].node /\ req'[w].need = req[w].need /\ req'[w].big = req[w].big
      /\ req'[w].targets = req[w].targets /\ req'[w].left = req[w].left
      /\ req'[w].completed = req[w].completed /\ req'[w].acked = req[w].acked
  BY Zenon DEF Advances
<1>3. /\ queue' = queue /\ sends' = sends /\ wire' = wire
      /\ \A n \in Node : held[n] \subseteq held'[n]
  BY Zenon DEF HandlerMoved
<1>4. Sent(w)' = Sent(w)
  BY <1>3, FlightSame, Zenon
<1>5. /\ Cardinality(Replicas(w)) <= Cardinality(Replicas(w)')
      /\ Cardinality(Over(w)) <= Cardinality(Over(w)')
      /\ Cardinality(Replicas(w)) \in Nat /\ Cardinality(Replicas(w)') \in Nat
      /\ Cardinality(Over(w)) \in Nat /\ Cardinality(Over(w)') \in Nat
  BY <1>1, <1>2, <1>3, <1>4, ReplicasGrow
<1>6. Counts(w)'
  <2>1. req[w].acked \in Nat /\ req[w].need \in Nat
    BY <1>1, Types, HandlerFacts
  <2>2. Counts(w)
    BY <1>1 DEF PerWrite
  <2>3. req[w].need > 0 => req[w].acked <= Cardinality(Over(w)')
    BY <1>5, <2>1, <2>2 DEF Counts
  <2>4. st = "ok" => req[w].need <= Cardinality(Replicas(w)')
    BY <1>5, <2>1
  <2> QED
    BY <1>2, <1>4, <2>2, <2>3, <2>4, Zenon DEF Counts
<1>7. SendsOf(w)'
  <2>1. SendsOf(w) /\ sends \subseteq Send
    BY <1>1, Types DEF PerWrite
  <2>2. ASSUME NEW s \in sends, s.w = w, s.answer = "ok" PROVE w \in held'[s.to]
    <3>1. s.to \in Node
      BY <2>1 DEF Send
    <3> QED
      BY <1>3, <2>1, <2>2, <3>1, Zenon DEF SendsOf
  <2> QED
    BY <1>2, <1>3, <2>1, <2>2, Zenon DEF SendsOf
<1>8. WireOf(w)' /\ QueueOf(w)'
  BY <1>1, <1>2, <1>3, Zenon DEF PerWrite, WireOf, QueueOf
<1>9. PerWrite(w)'
  BY <1>6, <1>7, <1>8, Zenon DEF PerWrite
<1>10. req'[w].acked <= req'[w].completed
  BY <1>1, <1>2, Types, Zenon
<1> QED
  BY <1>2, <1>9, <1>10, HandlerKeeps, Zenon

(* The same for a step that gives no answer yet. *)
LEMMA AdvancePc ==
    ASSUME ReplicationTypeOK, NEW w \in Write,
           NEW p \in {"free", "store", "plan", "forward", "wait", "done"},
           req' = [req EXCEPT ![w].pc = p]
    PROVE  Advances(w, p, req[w].status)
<1>1. req \in [Write -> Handler] /\ req[w] \in Handler
  BY Types
<1>2. PICK r : r = [req[w] EXCEPT !.pc = p]
  BY Zenon
<1>3. req' = [req EXCEPT ![w] = r]
  BY <1>1, <1>2, Zenon
<1>4. r \in Handler
  BY <1>1, <1>2, Zenon DEF Handler
<1>5. req' \in [Write -> Handler] /\ req'[w] = r /\ \A v \in Write : v # w => req'[v] = req[v]
  BY <1>1, <1>3, <1>4, Zenon
<1>6. /\ r.pc = p /\ r.status = req[w].status /\ r.node = req[w].node /\ r.need = req[w].need
      /\ r.big = req[w].big /\ r.targets = req[w].targets /\ r.left = req[w].left
      /\ r.completed = req[w].completed /\ r.acked = req[w].acked
  BY <1>1, <1>2 DEF Handler
<1> QED
  BY <1>5, <1>6, Zenon DEF Advances

(* A step that stores nothing moves only its handler. *)
LEMMA OnlyHandler ==
    ASSUME ReplicationTypeOK, NEW w \in Write, req' \in [Write -> Handler], \A v \in Write : v # w => req'[v] = req[v],
           UNCHANGED <<views, polls, phases, held, queue, sends, wire>>
    PROVE  HandlerMoved(w)
BY Types, Zenon DEF HandlerMoved

(* StoreLocal: the write is at the node the client called. *)
LEMMA StoreLocalKeeps ==
    ASSUME RInv, NEW w \in Write, StoreLocal(w)
    PROVE  RInv'
<1>1. ReplicationTypeOK /\ Stage(w) /\ InPlan(w)
  BY Zenon DEF RInv, PerWrite
<1>2. PICK p \in {"plan", "forward"} : p = IF req[w].big THEN "plan" ELSE "forward"
  OBVIOUS
<1>3. Advances(w, p, req[w].status)
  <2>1. req' = [req EXCEPT ![w].pc = p]
    BY <1>2, Zenon DEF StoreLocal
  <2> QED
    BY <1>1, <2>1, AdvancePc, Zenon
<1>4. req[w].pc = "store" /\ req[w].node \in Node /\ req[w].status = "none"
  BY <1>1 DEF StoreLocal, Stage
<1>5. /\ held' \in [Node -> SUBSET Write] /\ w \in held'[req[w].node]
      /\ \A n \in Node : held[n] \subseteq held'[n]
      /\ \A n \in Node : \A v \in Write : v \in held'[n] => v \in held[n] \/ (v = w /\ n = req[w].node)
  <2>1. held \in [Node -> SUBSET Write]
    BY <1>1, Types
  <2>2. held' = [held EXCEPT ![req[w].node] = @ \cup {w}]
    BY Zenon DEF StoreLocal, StoreWrite
  <2> QED
    BY <1>4, <2>1, <2>2
<1>6. HandlerMoved(w)
  <2>1. req' \in [Write -> Handler] /\ \A v \in Write : v # w => req'[v] = req[v]
    BY <1>3, Zenon DEF Advances
  <2>2. \A n \in Node : \A v \in Write : v # w /\ v \in held'[n] => v \in held[n]
    BY <1>5, Zenon
  <2>3. views' = views /\ polls' = polls /\ phases' = phases /\ queue' = queue /\ sends' = sends /\ wire' = wire
    BY Zenon DEF StoreLocal
  <2> QED
    BY <1>5, <2>1, <2>2, <2>3, Zenon DEF HandlerMoved
<1>7. Stage(w)'
  <2>1. Nowhere(w)' <=> Nowhere(w)
    BY FlightSame, Zenon DEF StoreLocal
  <2>2. p = "plan" => req[w].big
    BY <1>2
  <2>3. /\ req'[w].pc = p /\ req'[w].status = "none" /\ req'[w].node = req[w].node
        /\ req'[w].need = req[w].need /\ req'[w].big = req[w].big
        /\ req'[w].targets = req[w].targets /\ req'[w].left = req[w].left
        /\ req'[w].completed = req[w].completed /\ req'[w].acked = req[w].acked
    BY <1>3, <1>4, Zenon DEF Advances
  <2> QED
    BY <1>1, <1>4, <1>5, <2>1, <2>2, <2>3, SMT DEF Stage
<1>8. InPlan(w)'
  <2>1. req'[w].node = req[w].node /\ req'[w].targets = req[w].targets
    BY <1>3, Zenon DEF Advances
  <2> QED
    BY <1>1, <1>5, <2>1, Zenon DEF InPlan
<1> QED
  BY <1>3, <1>4, <1>6, <1>7, <1>8, AdvanceKeeps

(* An answer, or the end of the launches: what the handler has done stays. *)
LEMMA HandlerOnly ==
    ASSUME RInv, NEW w \in Write, NEW p \in {"wait", "done"}, NEW st \in {"none", "ok", "engine", "deadline"},
           Advances(w, p, st), UNCHANGED <<views, polls, phases, held, queue, sends, wire>>,
           req[w].pc \in {"store", "forward", "wait"}, p = "done" <=> st # "none",
           st = "engine" <=> req[w].pc = "store",
           st = "ok" => req[w].need <= Cardinality(Replicas(w))
    PROVE  RInv'
<1>1. ReplicationTypeOK /\ Stage(w) /\ InPlan(w)
  BY Zenon DEF RInv, PerWrite
<1>2. HandlerMoved(w)
  BY <1>1, OnlyHandler, Zenon DEF Advances
<1>3. /\ req'[w].pc = p /\ req'[w].status = st /\ req'[w].node = req[w].node
      /\ req'[w].need = req[w].need /\ req'[w].big = req[w].big /\ req'[w].targets = req[w].targets
  BY Zenon DEF Advances
<1>4. Nowhere(w)' <=> Nowhere(w)
  BY FlightSame, Zenon
<1>5. Unstored(w)' <=> Unstored(w)
  BY Zenon DEF Unstored
<1>6. Stage(w)'
  BY <1>1, <1>3, <1>4, <1>5, SMT DEF Stage
<1>7. InPlan(w)'
  BY <1>1, <1>3, Zenon DEF InPlan
<1>8. req[w].status = "none" /\ st # "invalid"
  BY <1>1, SMT DEF Stage
<1> QED
  BY <1>2, <1>6, <1>7, <1>8, AdvanceKeeps, Zenon

(* StoreFails: the engine refused, nothing was stored. *)
LEMMA StoreFailsKeeps ==
    ASSUME RInv, NEW w \in Write, StoreFails(w)
    PROVE  RInv'
<1>1. ReplicationTypeOK
  BY Zenon DEF RInv
<1>2. Advances(w, "done", "engine")
  BY <1>1, Advance, Zenon DEF StoreFails
<1>3. req[w].pc = "store"
  BY DEF StoreFails
<1>4. UNCHANGED <<views, polls, phases, held, queue, sends, wire>>
  BY Zenon DEF StoreFails
<1> QED
  BY <1>2, <1>3, <1>4, HandlerOnly

(* An ack is a replica that stored the write, and is over. *)
LEMMA AckedReplicas ==
    ASSUME RInv, NEW w \in Write
    PROVE  /\ req[w].acked <= Cardinality(Replicas(w)) /\ Cardinality(Replicas(w)) \in Nat
           /\ req[w].need = 0 => req[w].need <= Cardinality(Replicas(w))
<1>1. ReplicationTypeOK /\ Counts(w)
  BY Zenon DEF RInv, PerWrite
<1>2. req[w].targets \in Seq(Node) /\ req[w].acked \in Nat /\ req[w].need \in Nat
  BY <1>1, Types, HandlerFacts
<1>3. IsFiniteSet(Replicas(w))
  <2>1. IsFiniteSet(Range(req[w].targets)) /\ Replicas(w) \subseteq Range(req[w].targets)
    BY <1>2, RangeFinite DEF Replicas
  <2> QED
    BY <2>1, FS_Subset, Zenon
<1>4. Over(w) \subseteq Replicas(w)
  BY Zenon DEF Over
<1>5. IsFiniteSet(Over(w)) /\ Cardinality(Over(w)) <= Cardinality(Replicas(w))
  BY <1>3, <1>4, FS_Subset, Zenon
<1>6. Cardinality(Over(w)) \in Nat /\ Cardinality(Replicas(w)) \in Nat
  BY <1>3, <1>5, FS_CardinalityType, Zenon
<1>7. req[w].need = 0 => req[w].acked = 0
  BY <1>1, Zenon DEF Counts
<1>8. req[w].need > 0 => req[w].acked <= Cardinality(Over(w))
  BY <1>1, Zenon DEF Counts
<1> QED
  BY <1>2, <1>5, <1>6, <1>7, <1>8

(* AnswerAsync: the default path promises nothing about replicas. *)
LEMMA AnswerAsyncKeeps ==
    ASSUME RInv, NEW w \in Write, AnswerAsync(w)
    PROVE  RInv'
<1>1. ReplicationTypeOK
  BY Zenon DEF RInv
<1>2. Advances(w, "done", "ok")
  BY <1>1, Advance, Zenon DEF AnswerAsync
<1>3. req[w].pc = "forward" /\ req[w].need = 0
  BY DEF AnswerAsync
<1>4. UNCHANGED <<views, polls, phases, held, queue, sends, wire>>
  BY Zenon DEF AnswerAsync
<1> QED
  BY <1>2, <1>3, <1>4, AckedReplicas, HandlerOnly

(* AllLaunched: the handler waits. *)
LEMMA AllLaunchedKeeps ==
    ASSUME RInv, NEW w \in Write, AllLaunched(w)
    PROVE  RInv'
<1>1. ReplicationTypeOK /\ Stage(w)
  BY Zenon DEF RInv, PerWrite
<1>2. req[w].pc = "forward" /\ req[w].status = "none"
  BY <1>1 DEF AllLaunched, Stage
<1>3. Advances(w, "wait", "none")
  BY <1>1, <1>2, AdvancePc, Zenon DEF AllLaunched
<1>4. UNCHANGED <<views, polls, phases, held, queue, sends, wire>>
  BY Zenon DEF AllLaunched
<1> QED
  BY <1>2, <1>3, <1>4, HandlerOnly

(* AnswerStrong: OK is answered with enough acks only. *)
LEMMA AnswerStrongKeeps ==
    ASSUME RInv, NEW w \in Write, AnswerStrong(w)
    PROVE  RInv'
<1>1. ReplicationTypeOK
  BY Zenon DEF RInv
<1>2. PICK st \in {"ok", "deadline"} : st = IF req[w].acked >= req[w].need THEN "ok" ELSE "deadline"
  OBVIOUS
<1>3. Advances(w, "done", st)
  BY <1>1, <1>2, Advance, Zenon DEF AnswerStrong
<1>4. req[w].pc = "wait"
  BY DEF AnswerStrong
<1>5. st = "ok" => req[w].need <= Cardinality(Replicas(w))
  <2>1. req[w].acked \in Nat /\ req[w].need \in Nat
    BY <1>1, Types, HandlerFacts
  <2> QED
    BY <1>2, <2>1, AckedReplicas
<1>6. UNCHANGED <<views, polls, phases, held, queue, sends, wire>>
  BY Zenon DEF AnswerStrong
<1> QED
  BY <1>2, <1>3, <1>4, <1>5, <1>6, HandlerOnly

(* A write that is nowhere has no part in what is in flight. *)
LEMMA NowhereKeeps ==
    ASSUME NEW w \in Write, Nowhere(w), sends' = sends, wire' = wire, queue' = queue
    PROVE  /\ SendsOf(w)' /\ WireOf(w)' /\ QueueOf(w)' /\ Nowhere(w)'
           /\ Sent(w)' = {} /\ Cardinality(Sent(w))' = 0
<1>1. Sent(w) = {}
  BY DEF Nowhere, Sent
<1>2. Sent(w)' = {} /\ Nowhere(w)'
  BY <1>1, FlightSame, Zenon
<1>3. SendsOf(w)'
  BY Zenon DEF Nowhere, SendsOf
<1>4. WireOf(w)' /\ QueueOf(w)'
  BY Zenon DEF Nowhere, WireOf, QueueOf
<1> QED
  BY <1>2, <1>3, <1>4, FS_EmptySet, Zenon

(* The fields after PlanChunked. *)
Planned(w, plan) ==
    /\ req' \in [Write -> Handler] /\ \A v \in Write : v # w => req'[v] = req[v]
    /\ req'[w].pc = "forward" /\ req'[w].targets = plan /\ req'[w].left = plan
    /\ req'[w].node = req[w].node /\ req'[w].need = req[w].need /\ req'[w].big = req[w].big
    /\ req'[w].completed = req[w].completed /\ req'[w].acked = req[w].acked
    /\ req'[w].status = req[w].status

(* PlanChunked: the plan is made after the value is stored, and before     *)
(* anything is forwarded.                                                  *)
LEMMA PlanChunkedKeeps ==
    ASSUME ReplicationConstants, RInv, NEW w \in Write, PlanChunked(w)
    PROVE  RInv'
<1>1. ReplicationTypeOK /\ Stage(w) /\ Counts(w) /\ InPlan(w)
  BY Zenon DEF RInv, PerWrite
<1>2. /\ req[w].pc = "plan" /\ req[w].node \in Node /\ req[w].status = "none" /\ req[w].big
      /\ req[w].targets = <<>> /\ req[w].need = 0 /\ req[w].completed = 0 /\ req[w].acked = 0
      /\ Nowhere(w) /\ w \in held[req[w].node]
  BY <1>1, SMT DEF PlanChunked, Stage
<1>3. PICK plan : plan = PlanFor(req[w].node)
  OBVIOUS
<1>4. plan \in Seq(Node) /\ IsInjective(plan)
  BY <1>1, <1>2, <1>3, PlanFacts, Zenon
<1>5. Planned(w, plan)
  <2>1. req \in [Write -> Handler] /\ req[w] \in Handler
    BY <1>1, Types
  <2>2. PICK r : r = [req[w] EXCEPT !.pc = "forward", !.targets = plan, !.left = plan]
    OBVIOUS
  <2>3. req' = [req EXCEPT ![w] = r]
    BY <1>3, <2>1, <2>2, Zenon DEF PlanChunked
  <2>4. r \in Handler
    BY <1>4, <2>1, <2>2, Zenon DEF Handler
  <2>5. req' \in [Write -> Handler] /\ req'[w] = r /\ \A v \in Write : v # w => req'[v] = req[v]
    BY <2>1, <2>3, <2>4, Zenon
  <2>6. /\ r.pc = "forward" /\ r.status = req[w].status /\ r.node = req[w].node /\ r.need = req[w].need
        /\ r.big = req[w].big /\ r.targets = plan /\ r.left = plan
        /\ r.completed = req[w].completed /\ r.acked = req[w].acked
    BY <2>1, <2>2 DEF Handler
  <2> QED
    BY <2>5, <2>6, Zenon DEF Planned
<1>6. HandlerMoved(w)
  BY <1>1, <1>5, OnlyHandler, Zenon DEF Planned, PlanChunked
<1>7. /\ SendsOf(w)' /\ WireOf(w)' /\ QueueOf(w)' /\ Nowhere(w)'
  BY <1>2, NowhereKeeps, Zenon DEF PlanChunked
<1>8. held' = held
  BY Zenon DEF PlanChunked
<1>9. /\ req'[w].pc = "forward" /\ req'[w].targets = plan /\ req'[w].left = plan
      /\ req'[w].node = req[w].node /\ req'[w].need = 0 /\ req'[w].big
      /\ req'[w].completed = 0 /\ req'[w].acked = 0 /\ req'[w].status = "none"
  BY <1>2, <1>5, Zenon DEF Planned
<1>10. Stage(w)'
  BY <1>2, <1>8, <1>9, SMT DEF Stage
<1>11. Counts(w)'
  BY <1>4, <1>9 DEF Counts
<1>12. InPlan(w)'
  <2>1. Range(req[w].targets) = {}
    BY <1>2 DEF Range
  <2> QED
    BY <1>1, <1>8, <1>9, <2>1, Zenon DEF InPlan
<1>13. PerWrite(w)'
  BY <1>7, <1>10, <1>11, <1>12, Zenon DEF PerWrite
<1>14. req'[w].acked <= req'[w].completed
  BY <1>9
<1>15. req'[w].node = req[w].node /\ req'[w].big = req[w].big
  BY <1>5, Zenon DEF Planned
<1> QED
  BY <1>6, <1>13, <1>14, <1>15, HandlerKeeps, Zenon

(* The fields after Receive. *)
Received(w, c, p, plan, st) ==
    /\ req' \in [Write -> Handler] /\ \A v \in Write : v # w => req'[v] = req[v]
    /\ req'[w].pc = p /\ req'[w].targets = plan /\ req'[w].left = plan
    /\ req'[w].node = c.node /\ req'[w].need = c.need /\ req'[w].big = (c.big /\ st = "none")
    /\ req'[w].completed = 0 /\ req'[w].acked = 0 /\ req'[w].status = st

(* Receive, of a request that is refused or admitted. *)
LEMMA ReceiveFacts ==
    ASSUME ReplicationConstants, RInv, NEW w \in Write, NEW c \in Calls[w], Receive(w, c)
    PROVE  \/ Received(w, c, "done", <<>>, "invalid")
           \/ /\ ~Refused(c.node, c.need)
              /\ \/ c.big /\ Received(w, c, "store", <<>>, "none")
                 \/ ~c.big /\ Received(w, c, "store", PlanFor(c.node), "none")
<1>1. ReplicationTypeOK /\ Stage(w)
  BY Zenon DEF RInv, PerWrite
<1>2. req[w] = NoRequest /\ req \in [Write -> Handler]
  BY <1>1, Types DEF Receive, Stage
<1>3. c \in [node : Node, need : Nat, big : BOOLEAN]
  BY Zenon DEF ReplicationConstants, Write
<1>4. c.node \in Node /\ c.need \in Nat /\ c.big \in BOOLEAN
  BY <1>3
<1>5. PlanFor(c.node) \in Seq(Node) /\ <<>> \in Seq(Node)
  BY <1>1, <1>4, PlanFacts
<1>6. CASE Refused(c.node, c.need)
  <2>1. PICK r : r = [NoRequest EXCEPT !.pc = "done", !.node = c.node, !.need = c.need, !.status = "invalid"]
    OBVIOUS
  <2>2. req' = [req EXCEPT ![w] = r]
    BY <1>2, <1>6, <2>1, Zenon DEF Receive
  <2>3. r = [pc |-> "done", node |-> c.node, need |-> c.need, big |-> FALSE, targets |-> <<>>,
             left |-> <<>>, completed |-> 0, acked |-> 0, status |-> "invalid"]
    BY <2>1, Zenon DEF NoRequest
  <2>4. r \in Handler
    BY <1>4, <1>5, <2>3 DEF Handler
  <2>5. req' \in [Write -> Handler] /\ req'[w] = r /\ \A v \in Write : v # w => req'[v] = req[v]
    BY <1>2, <2>2, <2>4, Zenon
  <2>6. r.big = (c.big /\ "invalid" = "none")
    BY <1>4, <2>3, Zenon
  <2>7. /\ r.pc = "done" /\ r.node = c.node /\ r.need = c.need /\ r.targets = <<>> /\ r.left = <<>>
        /\ r.completed = 0 /\ r.acked = 0 /\ r.status = "invalid"
    BY <2>3
  <2> QED
    BY <2>5, <2>6, <2>7, Zenon DEF Received
<1>7. CASE ~Refused(c.node, c.need)
  <2>1. PICK plan \in Seq(Node) : plan = IF c.big THEN <<>> ELSE PlanFor(c.node)
    BY <1>5, Zenon
  <2>2. PICK r : r = [NoRequest EXCEPT !.pc = "store", !.node = c.node, !.need = c.need, !.big = c.big,
                                  !.targets = plan, !.left = plan]
    OBVIOUS
  <2>3. req' = [req EXCEPT ![w] = r]
    BY <1>2, <1>7, <2>1, <2>2, Zenon DEF Receive
  <2>4. r = [pc |-> "store", node |-> c.node, need |-> c.need, big |-> c.big, targets |-> plan,
             left |-> plan, completed |-> 0, acked |-> 0, status |-> "none"]
    BY <2>2, Zenon DEF NoRequest
  <2>5. r \in Handler
    BY <1>4, <2>1, <2>4 DEF Handler
  <2>6. req' \in [Write -> Handler] /\ req'[w] = r /\ \A v \in Write : v # w => req'[v] = req[v]
    BY <1>2, <2>3, <2>5, Zenon
  <2>7. Received(w, c, "store", plan, "none")
    BY <1>4, <2>4, <2>6 DEF Received
  <2> QED
    BY <1>7, <2>1, <2>7, Zenon
<1> QED
  BY <1>6, <1>7, Zenon

(* A request that was just received has left nothing behind. *)
LEMMA ReceivedKeeps ==
    ASSUME RInv, NEW w \in Write, NEW c, NEW p, NEW plan, NEW st,
           c.node \in Node, c.need \in Nat, c.big => c.need = 0, plan \in Seq(Node), IsInjective(plan),
           Nowhere(w), Unstored(w), Received(w, c, p, plan, st),
           UNCHANGED <<views, polls, phases, held, queue, sends, wire>>,
           \/ p = "done" /\ st = "invalid" /\ plan = <<>>
           \/ /\ p = "store" /\ st = "none" /\ (c.big => plan = <<>>)
              /\ c.need > 0 => c.need <= Len(plan)
    PROVE  RInv'
<1>1. ReplicationTypeOK
  BY Zenon DEF RInv
<1>2. HandlerMoved(w)
  BY <1>1, OnlyHandler, Zenon DEF Received
<1>3. /\ SendsOf(w)' /\ WireOf(w)' /\ QueueOf(w)' /\ Nowhere(w)' /\ Cardinality(Sent(w))' = 0
  BY NowhereKeeps, Zenon
<1>4. Unstored(w)'
  BY Zenon DEF Unstored
<1>5. /\ req'[w].pc = p /\ req'[w].targets = plan /\ req'[w].left = plan
      /\ req'[w].node = c.node /\ req'[w].need = c.need /\ req'[w].big = (c.big /\ st = "none")
      /\ req'[w].completed = 0 /\ req'[w].acked = 0 /\ req'[w].status = st
  BY Zenon DEF Received
<1>6. Stage(w)'
  <2>1. (req'[w].big => c.big /\ st = "none") /\ (req'[w].big => req'[w].need = 0)
    BY <1>5, Zenon
  <2>2. CASE p = "done" /\ st = "invalid"
    BY <1>3, <1>4, <1>5, <2>1, <2>2, Zenon DEF Stage
  <2>3. CASE p = "store" /\ st = "none" /\ (c.big => plan = <<>>)
    BY <1>3, <1>4, <1>5, <2>1, <2>3, Zenon DEF Stage
  <2> QED
    BY <2>2, <2>3, Zenon
<1>7. Counts(w)'
  <2>1. Cardinality(Over(w)') \in Nat
    <3>1. IsFiniteSet(Range(plan)) /\ Over(w)' \subseteq Range(plan)
      BY <1>5, RangeFinite DEF Over, Replicas
    <3> QED
      BY <3>1, FS_Subset, FS_CardinalityType, Zenon
  <2>2. 0 <= Cardinality(Over(w)')
    BY <2>1
  <2>3. c.need > 0 /\ st # "invalid" => Len(plan) >= c.need
    <3>1. Len(plan) \in Nat
      OBVIOUS
    <3> QED
      BY <3>1
  <2>4. Len(plan) = Len(plan) + 0 + 0
    OBVIOUS
  <2>5. st # "ok"
    OBVIOUS
  <2> QED
    BY <1>3, <1>5, <2>2, <2>3, <2>4, <2>5, Zenon DEF Counts
<1>8. InPlan(w)'
  BY <1>4, Zenon DEF Unstored, InPlan
<1>9. PerWrite(w)'
  BY <1>3, <1>6, <1>7, <1>8, Zenon DEF PerWrite
<1>10. req'[w].acked <= req'[w].completed
  BY <1>5
<1> QED
  BY <1>2, <1>9, <1>10, HandlerKeeps, Zenon

(* Receive: RefuseUnachievableAcks and the plan read the same view. *)
LEMMA ReceiveKeeps ==
    ASSUME ReplicationConstants, RInv, NEW w \in Write, NEW c \in Calls[w], Receive(w, c)
    PROVE  RInv'
<1>1. ReplicationTypeOK /\ Stage(w)
  BY Zenon DEF RInv, PerWrite
<1>2. Nowhere(w) /\ Unstored(w)
  BY <1>1, SMT DEF Receive, Stage
<1>3. c \in [node : Node, need : Nat, big : BOOLEAN] /\ (c.big => c.need = 0)
  BY Zenon DEF ReplicationConstants, Write
<1>4. c.node \in Node /\ c.need \in Nat
  BY <1>3
<1>5. UNCHANGED <<views, polls, phases, held, queue, sends, wire>>
  BY Zenon DEF Receive
<1>6. <<>> \in Seq(Node) /\ IsInjective(<<>>)
  BY DEF IsInjective
<1>7. CASE Received(w, c, "done", <<>>, "invalid")
  BY <1>2, <1>3, <1>4, <1>5, <1>6, <1>7, ReceivedKeeps, Zenon
<1>8. CASE c.big /\ Received(w, c, "store", <<>>, "none")
  <2>1. ~(c.need > 0)
    BY <1>3, <1>8
  <2> QED
    BY <1>2, <1>3, <1>4, <1>5, <1>6, <1>8, <2>1, ReceivedKeeps, Zenon
<1>9. CASE ~c.big /\ Received(w, c, "store", PlanFor(c.node), "none") /\ ~Refused(c.node, c.need)
  <2>1. PICK plan : plan = PlanFor(c.node)
    OBVIOUS
  <2>2. plan \in Seq(Node) /\ IsInjective(plan)
    BY <1>1, <1>4, <2>1, PlanFacts, Zenon
  <2>3. c.need > 0 => c.need <= Len(plan)
    BY <1>4, <1>9, <2>1, <2>2 DEF Refused
  <2> QED
    BY <1>2, <1>3, <1>4, <1>5, <1>9, <2>1, <2>2, <2>3, ReceivedKeeps, Zenon
<1> QED
  BY <1>7, <1>8, <1>9, ReceiveFacts, Zenon

-----------------------------------------------------------------------------
(* The steps of a fan-out *)

(* Only what is left to launch and the two counters of w may change. *)
Progressed(w, l, c, a) ==
    /\ req' \in [Write -> Handler] /\ \A v \in Write : v # w => req'[v] = req[v]
    /\ req'[w].left = l /\ req'[w].completed = c /\ req'[w].acked = a
    /\ req'[w].pc = req[w].pc /\ req'[w].status = req[w].status
    /\ req'[w].node = req[w].node /\ req'[w].need = req[w].need /\ req'[w].big = req[w].big
    /\ req'[w].targets = req[w].targets

(* The assignments of such a step. *)
LEMMA Progresses ==
    ASSUME ReplicationTypeOK, NEW w \in Write, NEW l \in Seq(Node), NEW c \in Nat, NEW a \in Nat, NEW r,
           r = [req[w] EXCEPT !.left = l, !.completed = c, !.acked = a],
           req' = [req EXCEPT ![w] = r]
    PROVE  Progressed(w, l, c, a)
<1>1. req \in [Write -> Handler] /\ req[w] \in Handler
  BY Types
<1>2. r \in Handler
  BY <1>1, Zenon DEF Handler
<1>3. req' \in [Write -> Handler] /\ req'[w] = r /\ \A v \in Write : v # w => req'[v] = req[v]
  BY <1>1, <1>2, Zenon
<1>4. /\ r.left = l /\ r.completed = c /\ r.acked = a
      /\ r.pc = req[w].pc /\ r.status = req[w].status /\ r.node = req[w].node
      /\ r.need = req[w].need /\ r.big = req[w].big /\ r.targets = req[w].targets
  BY <1>1 DEF Handler
<1> QED
  BY <1>3, <1>4, Zenon DEF Progressed

(* A step that leaves the handlers alone is one too. *)
LEMMA NoProgress ==
    ASSUME ReplicationTypeOK, NEW w \in Write, req' = req
    PROVE  Progressed(w, req[w].left, req[w].completed, req[w].acked)
BY Types, Zenon DEF Progressed

(* A write of which something is in flight was admitted and stored. *)
LEMMA InFlight ==
    ASSUME NEW w \in Write, Stage(w), ~Nowhere(w)
    PROVE  /\ req[w].pc \notin {"free", "store", "plan"} /\ req[w].status \notin {"invalid", "engine"}
           /\ req[w].node \in Node
BY SMT, SMTT(30) DEF Stage

(* So its handler is as far as it was. *)
LEMMA ProgressStage ==
    ASSUME NEW w \in Write, NEW l, NEW c, NEW a, Progressed(w, l, c, a), Stage(w),
           req[w].pc \notin {"free", "store", "plan"}, req[w].status \notin {"invalid", "engine"},
           \A n \in Node : held[n] \subseteq held'[n]
    PROVE  Stage(w)'
<1>1. /\ req'[w].pc = req[w].pc /\ req'[w].status = req[w].status
      /\ req'[w].node = req[w].node /\ req'[w].need = req[w].need /\ req'[w].big = req[w].big
  BY Zenon DEF Progressed
<1>2. req[w].node \in Node
  BY SMT DEF Stage
<1>3. w \in held[req[w].node] => w \in held'[req[w].node]
  BY <1>2, Zenon
<1> QED
  BY <1>1, <1>2, <1>3, SMT DEF Stage

(* A replica of the plan that stored the write has stored it for good. *)
LEMMA ReplicasFollow ==
    ASSUME ReplicationTypeOK, NEW w \in Write, req'[w].targets = req[w].targets,
           \A n \in Node : held[n] \subseteq held'[n]
    PROVE  /\ Replicas(w) \subseteq Replicas(w)' /\ IsFiniteSet(Replicas(w)') /\ IsFiniteSet(Replicas(w))
           /\ Cardinality(Replicas(w)) \in Nat /\ Cardinality(Replicas(w)') \in Nat
           /\ Cardinality(Replicas(w)) <= Cardinality(Replicas(w)')
<1>1. req[w].targets \in Seq(Node)
  BY Types, HandlerFacts
<1>2. Range(req[w].targets) \subseteq Node
  BY <1>1 DEF Range
<1>3. IsFiniteSet(Range(req[w].targets))
  BY <1>1, RangeFinite
<1>4. Replicas(w) \subseteq Replicas(w)' /\ Replicas(w)' \subseteq Range(req[w].targets)
  BY <1>2, Zenon DEF Replicas
<1>5. IsFiniteSet(Replicas(w)')
  BY <1>3, <1>4, FS_Subset, Zenon
<1>6. IsFiniteSet(Replicas(w)) /\ Cardinality(Replicas(w)) <= Cardinality(Replicas(w)')
  BY <1>4, <1>5, FS_Subset, Zenon
<1> QED
  BY <1>4, <1>5, <1>6, FS_CardinalityType, Zenon

(* The counters of a write that asked for no acks. *)
LEMMA AsyncCounts ==
    ASSUME ReplicationTypeOK, NEW w \in Write, NEW l, NEW c, Progressed(w, l, c, req[w].acked), Counts(w),
           req[w].need = 0, IsInjective(l), Range(l) \subseteq Range(req[w].targets),
           \A n \in Node : held[n] \subseteq held'[n]
    PROVE  Counts(w)'
<1>1. /\ req'[w].left = l /\ req'[w].acked = req[w].acked /\ req'[w].need = 0
      /\ req'[w].targets = req[w].targets
  BY Zenon DEF Progressed
<1>2. Cardinality(Replicas(w)') \in Nat
  BY <1>1, ReplicasFollow, Zenon
<1>3. ~(0 > 0) /\ 0 <= Cardinality(Replicas(w)')
  BY <1>2
<1> QED
  BY <1>1, <1>3, Zenon DEF Counts

(* The counters of a write that did. *)
LEMMA StrongCounts ==
    ASSUME ReplicationTypeOK, NEW w \in Write, NEW l, NEW c, NEW a, Progressed(w, l, c, a), Counts(w),
           req[w].need > 0, IsInjective(l), Range(l) \subseteq Range(req[w].targets),
           req[w].status # "invalid", a <= Cardinality(Over(w)'),
           Len(req[w].targets) = Len(l) + c + Cardinality(Sent(w)'),
           \A n \in Node : held[n] \subseteq held'[n]
    PROVE  Counts(w)'
<1>1. /\ req'[w].left = l /\ req'[w].completed = c /\ req'[w].acked = a
      /\ req'[w].need = req[w].need /\ req'[w].status = req[w].status
      /\ req'[w].targets = req[w].targets
  BY Zenon DEF Progressed
<1>2. /\ Cardinality(Replicas(w)') \in Nat /\ Cardinality(Replicas(w)) \in Nat
      /\ Cardinality(Replicas(w)) <= Cardinality(Replicas(w)')
  BY <1>1, ReplicasFollow, Zenon
<1>3. req[w].need \in Nat /\ req[w].need # 0
  BY Types, HandlerFacts
<1>4. req[w].status = "ok" => req[w].need <= Cardinality(Replicas(w)')
  <2>1. req[w].status = "ok" => req[w].need <= Cardinality(Replicas(w))
    BY Zenon DEF Counts
  <2> QED
    BY <1>2, <1>3, <2>1
<1> QED
  BY <1>1, <1>3, <1>4, Zenon DEF Counts

(* The next replica to launch, and the rest. *)
LEMMA HeadTail ==
    ASSUME NEW s \in Seq(Node), s # <<>>, IsInjective(s)
    PROVE  /\ Head(s) \in Node /\ Tail(s) \in Seq(Node) /\ IsInjective(Tail(s))
           /\ Head(s) \in Range(s) /\ Head(s) \notin Range(Tail(s))
           /\ Range(s) = Range(Tail(s)) \cup {Head(s)} /\ Len(s) = Len(Tail(s)) + 1
<1>1. /\ Len(s) \in Nat /\ Len(s) >= 1 /\ DOMAIN s = 1..Len(s) /\ Head(s) = s[1] /\ Head(s) \in Node
      /\ Tail(s) \in Seq(Node) /\ Len(Tail(s)) = Len(s) - 1 /\ DOMAIN Tail(s) = 1..(Len(s) - 1)
  OBVIOUS
<1>2. \A i \in 1..(Len(s) - 1) : Tail(s)[i] = s[i + 1]
  OBVIOUS
<1>3. IsInjective(Tail(s))
  BY <1>1, <1>2 DEF IsInjective
<1>4. Head(s) \in Range(s)
  BY <1>1 DEF Range
<1>5. Head(s) \notin Range(Tail(s))
  BY <1>1, <1>2 DEF Range, IsInjective
<1>6. Range(Tail(s)) \subseteq Range(s)
  BY <1>1, <1>2 DEF Range
<1>7. ASSUME NEW i \in 1..Len(s) PROVE s[i] \in Range(Tail(s)) \cup {Head(s)}
  <2>1. CASE i = 1
    BY <1>1, <2>1
  <2>2. CASE i # 1
    <3>1. i - 1 \in 1..(Len(s) - 1) /\ Tail(s)[i - 1] = s[i]
      BY <1>1, <1>2, <2>2
    <3> QED
      BY <1>1, <3>1, Zenon DEF Range
  <2> QED
    BY <2>1, <2>2
<1>8. Range(s) \subseteq Range(Tail(s)) \cup {Head(s)}
  BY <1>1, <1>7, Zenon DEF Range
<1>9. Len(s) = Len(Tail(s)) + 1
  BY <1>1
<1> QED
  BY <1>1, <1>3, <1>4, <1>5, <1>6, <1>8, <1>9, SMTT(30)

(* The forwards in progress are as they were. *)
LEMMA SendsProgress ==
    ASSUME ReplicationTypeOK, NEW w \in Write, NEW l, NEW c, NEW a, Progressed(w, l, c, a), SendsOf(w),
           Range(l) \subseteq Range(req[w].left), sends' = sends, \A n \in Node : held[n] \subseteq held'[n]
    PROVE  SendsOf(w)'
<1>1. /\ req'[w].left = l /\ req'[w].need = req[w].need /\ req'[w].targets = req[w].targets
  BY Zenon DEF Progressed
<1>2. ASSUME NEW s \in sends, s.w = w, s.answer = "ok" PROVE w \in held'[s.to]
  <2>1. s.to \in Node
    BY Types DEF Send
  <2> QED
    BY <1>2, <2>1, Zenon DEF SendsOf
<1>3. ASSUME NEW s \in sends, s.w = w
      PROVE  /\ s.to \in Range(req'[w].targets) /\ (s.strong <=> req'[w].need > 0)
             /\ s.answer = "ok" => w \in held'[s.to]
             /\ s.strong => s.leg = "grpc" /\ s.to \notin Range(req'[w].left)
  BY <1>1, <1>2, <1>3, Zenon DEF SendsOf
<1> QED
  BY <1>3, Zenon DEF SendsOf

(* The limits, of a queue and of the threads. *)
QueueBound(n) == Len(queue[n]) <= MaxTasks /\ (QueuedBytes(n) <= MaxBytes \/ Len(queue[n]) = 1)
ThreadBound(n) == Cardinality(StrongAt(n)) <= AckThreads /\ Cardinality(AsyncAt(n)) <= Workers

(* Bounded, node by node. *)
LEMMA BoundsApart == Bounded <=> \A n \in Node : QueueBound(n) /\ ThreadBound(n)
BY Zenon DEF Bounded, QueueBound, ThreadBound

(* The same in the next state. *)
LEMMA BoundsApartNext == Bounded' <=> \A n \in Node : QueueBound(n)' /\ ThreadBound(n)'
BY Zenon DEF Bounded, QueueBound, ThreadBound

(* No write changes its node or its size. *)
Settled == \A v \in Write : req'[v].node = req[v].node /\ req'[v].big = req[v].big

(* A fan-out changes neither. *)
LEMMA ProgressSettled ==
    ASSUME NEW w \in Write, NEW l, NEW c, NEW a, Progressed(w, l, c, a)
    PROVE  Settled
BY Zenon DEF Progressed, Settled

(* A queue that did not move holds as many bytes. *)
LEMMA QueueSame ==
    ASSUME ReplicationTypeOK, Settled, NEW n \in Node, queue'[n] = queue[n], QueueBound(n)
    PROVE  QueueBound(n)'
<1>1. queue \in [Node -> Seq(Task)]
  BY Types
<1>2. ASSUME NEW i \in DOMAIN queue[n] PROVE req'[queue[n][i].w].big = req[queue[n][i].w].big
  <2>1. queue[n][i] \in Task
    BY <1>1
  <2>2. queue[n][i].w \in Write
    BY <2>1 DEF Task
  <2> QED
    BY <2>2, Zenon DEF Settled
<1>3. {i \in DOMAIN queue[n] : req'[queue[n][i].w].big} = {i \in DOMAIN queue[n] : req[queue[n][i].w].big}
  BY <1>2, Zenon
<1>4. QueuedBytes(n)' = QueuedBytes(n)
  BY <1>3, Zenon DEF QueuedBytes
<1> QED
  BY <1>4, Zenon DEF QueueBound

(* The threads of a node, in the next state. *)
LEMMA ThreadsOf ==
    ASSUME ReplicationTypeOK, Settled, sends' \subseteq Send, NEW n \in Node
    PROVE  /\ StrongAt(n)' = {s \in sends' : s.strong /\ req[s.w].node = n}
           /\ AsyncAt(n)' = {s \in sends' : ~s.strong /\ req[s.w].node = n}
<1>1. ASSUME NEW s \in sends' PROVE req'[s.w].node = req[s.w].node
  <2>1. s.w \in Write
    BY DEF Send
  <2> QED
    BY <2>1, Zenon DEF Settled
<1> QED
  BY <1>1, Zenon DEF StrongAt, AsyncAt

(* Threads that did not move. *)
LEMMA ThreadsSame ==
    ASSUME ReplicationTypeOK, Settled, NEW n \in Node, sends' = sends, ThreadBound(n)
    PROVE  ThreadBound(n)'
<1>1. sends' \subseteq Send
  BY Types, Zenon
<1>2. StrongAt(n)' = StrongAt(n) /\ AsyncAt(n)' = AsyncAt(n)
  BY <1>1, ThreadsOf, Zenon DEF StrongAt, AsyncAt
<1> QED
  BY <1>2, Zenon DEF ThreadBound

(* A step about w: what is to be shown. *)
LEMMA Assemble ==
    ASSUME RInv, NEW w \in Write, \A v \in Write : v # w => Untouched(v),
           PerWrite(w)', ReplicationTypeOK', IsFiniteSet(sends'), Bounded'
    PROVE  RInv'
<1>1. ReplicationTypeOK /\ \A v \in Write : PerWrite(v)
  BY Zenon DEF RInv
<1>2. ASSUME NEW v \in Write, v # w PROVE PerWrite(v)'
  BY <1>1, <1>2, UntouchedKeeps, Zenon
<1> QED
  BY <1>2, Zenon DEF RInv

(* The types after a step of a fan-out. *)
LEMMA ProgressTypes ==
    ASSUME ReplicationTypeOK, NEW w \in Write, NEW l, NEW c, NEW a, Progressed(w, l, c, a), a <= c,
           views' = views, polls' = polls, phases' = phases, held' \in [Node -> SUBSET Write],
           queue' \in [Node -> Seq(Task)], sends' \subseteq Send, wire' \subseteq Message
    PROVE  ReplicationTypeOK'
<1>1. \A v \in Write : req'[v].acked <= req'[v].completed
  BY Types, Zenon DEF Progressed
<1> QED
  BY <1>1, Types, Zenon DEF ReplicationTypeOK, Progressed

(* The bytes of a queue that grew by one task. *)
LEMMA QueueGrows ==
    ASSUME ReplicationTypeOK, Settled, NEW n \in Node, NEW t \in Task,
           queue'[n] = Append(queue[n], t), HasRoom(n, t.w), MaxTasks \in Nat, MaxBytes \in Nat
    PROVE  QueueBound(n)'
<1>1. PICK q \in Seq(Task) : q = queue[n]
  BY Types
<1>2. PICK q1 : q1 = Append(q, t)
  BY Zenon
<1>3. /\ Len(q) \in Nat /\ DOMAIN q = 1..Len(q) /\ q1 \in Seq(Task) /\ Len(q1) = Len(q) + 1
      /\ DOMAIN q1 = 1..(Len(q) + 1) /\ q1[Len(q) + 1] = t
  BY <1>1, <1>2
<1>4. \A i \in 1..Len(q) : q1[i] = q[i]
  BY <1>1, <1>2
<1>5. PICK B : B = {i \in DOMAIN q : req[q[i].w].big}
  BY Zenon
<1>6. PICK B1 : B1 = {i \in DOMAIN q1 : req'[q1[i].w].big}
  BY Zenon
<1>7. \A i \in DOMAIN q1 : q1[i].w \in Write
  <2>1. \A i \in DOMAIN q1 : q1[i] \in Task
    BY <1>3
  <2>2. \A u \in Task : u.w \in Write
    BY DEF Task
  <2> QED
    BY <2>1, <2>2, Zenon
<1>8. B1 = {i \in DOMAIN q1 : req[q1[i].w].big}
  <2>1. \A i \in DOMAIN q1 : req'[q1[i].w].big = req[q1[i].w].big
    BY <1>7, Zenon DEF Settled
  <2> QED
    BY <1>6, <2>1, Zenon
<1>9. IsFiniteSet(B) /\ Cardinality(B) \in Nat
  <2>1. IsFiniteSet(DOMAIN q) /\ B \subseteq DOMAIN q
    BY <1>3, <1>5, FS_Interval
  <2>2. IsFiniteSet(B)
    BY <2>1, FS_Subset, Zenon
  <2> QED
    BY <2>2, FS_CardinalityType, Zenon
<1>10. Cardinality(B1) \in Nat /\ Cardinality(B1) + 1 <= Cardinality(B) + Bytes(t.w)
  <2>1. CASE req[t.w].big
    <3>1. B1 = B \cup {Len(q) + 1}
      BY <1>3, <1>4, <1>5, <1>8, <2>1, SMTT(30)
    <3>2. Len(q) + 1 \notin B
      BY <1>3, <1>5
    <3>3. Cardinality(B1) = Cardinality(B) + 1
      BY <1>9, <3>1, <3>2, FS_AddElement, Zenon
    <3> QED
      BY <1>9, <2>1, <3>3 DEF Bytes
  <2>2. CASE ~req[t.w].big
    <3>1. B1 = B
      BY <1>3, <1>4, <1>5, <1>8, <2>2, SMTT(30)
    <3> QED
      BY <1>9, <2>2, <3>1, SMTT(30) DEF Bytes
  <2> QED
    BY <2>1, <2>2
<1>11. QueuedBytes(n) = Len(q) + Cardinality(B)
  BY <1>1, <1>5, Zenon DEF QueuedBytes
<1>12. QueuedBytes(n)' = Len(q1) + Cardinality(B1)
  BY <1>1, <1>2, <1>6, Zenon DEF QueuedBytes
<1>13. Len(q) < MaxTasks /\ (QueuedBytes(n) + Bytes(t.w) <= MaxBytes \/ q = <<>>)
  BY <1>1, Zenon DEF HasRoom
<1>14. Bytes(t.w) \in Nat
  BY DEF Bytes
<1>15. Len(q1) <= MaxTasks
  BY <1>3, <1>13
<1>16. Len(q1) + Cardinality(B1) <= MaxBytes \/ Len(q1) = 1
  <2>1. CASE q = <<>>
    BY <1>3, <2>1
  <2>2. CASE QueuedBytes(n) + Bytes(t.w) <= MaxBytes
    BY <1>3, <1>9, <1>10, <1>11, <1>14, <2>2, SMTT(30)
  <2> QED
    BY <1>13, <2>1, <2>2
<1>17. queue'[n] = q1
  BY <1>1, <1>2, Zenon
<1> QED
  BY <1>12, <1>15, <1>16, <1>17, Zenon DEF QueueBound

(* SubmitNext: a forward is queued within the limits, or refused. *)
LEMMA SubmitNextKeeps ==
    ASSUME ReplicationConstants, RInv, NEW w \in Write, SubmitNext(w)
    PROVE  RInv'
<1>1. /\ ReplicationTypeOK /\ Bounded /\ IsFiniteSet(sends)
      /\ Stage(w) /\ Counts(w) /\ SendsOf(w) /\ WireOf(w) /\ QueueOf(w) /\ InPlan(w)
  BY Zenon DEF RInv, PerWrite
<1>2. req[w].pc = "forward" /\ req[w].need = 0 /\ req[w].left # <<>>
  BY Zenon DEF SubmitNext
<1>3. /\ req[w].left \in Seq(Node) /\ req[w].completed \in Nat /\ req[w].acked \in Nat
      /\ req \in [Write -> Handler] /\ req[w] \in Handler /\ req[w].acked <= req[w].completed
      /\ held \in [Node -> SUBSET Write] /\ queue \in [Node -> Seq(Task)]
      /\ sends \subseteq Send /\ wire \subseteq Message
  BY <1>1, Types, HandlerFacts
<1>4. PICK l, to : l = Tail(req[w].left) /\ to = Head(req[w].left)
  BY Zenon
<1>5. IsInjective(req[w].left) /\ Range(req[w].left) \subseteq Range(req[w].targets)
  BY <1>1, Zenon DEF Counts
<1>6. /\ l \in Seq(Node) /\ IsInjective(l) /\ to \in Node
      /\ to \in Range(req[w].left) /\ Range(l) \subseteq Range(req[w].left)
  BY <1>2, <1>3, <1>4, <1>5, HeadTail
<1>7. Progressed(w, l, req[w].completed, req[w].acked)
  <2>1. PICK r : r = [req[w] EXCEPT !.left = l, !.completed = req[w].completed, !.acked = req[w].acked]
    OBVIOUS
  <2>2. r = [req[w] EXCEPT !.left = l]
    BY <1>3, <2>1, Zenon DEF Handler
  <2>3. req' = [req EXCEPT ![w] = r]
    BY <1>3, <1>4, <2>2, Zenon DEF SubmitNext
  <2> QED
    BY <1>1, <1>3, <1>6, <2>1, <2>3, Progresses, Zenon
<1>8. /\ views' = views /\ polls' = polls /\ phases' = phases /\ held' = held
      /\ sends' = sends /\ wire' = wire
  BY Zenon DEF SubmitNext
<1>9. PICK n \in Node : n = req[w].node
  BY <1>1, <1>2, SMT DEF Stage
<1>10. PICK t : t = [w |-> w, to |-> to]
  BY Zenon
<1>11. t \in Task /\ t.w = w /\ t.to = to
  BY <1>6, <1>10 DEF Task
<1>12. \/ queue' = queue
       \/ queue' = [queue EXCEPT ![n] = Append(@, t)] /\ HasRoom(n, w)
  BY <1>4, <1>9, <1>10, Zenon DEF SubmitNext, Accepts
<1>13. /\ queue' \in [Node -> Seq(Task)]
       /\ \A m \in Node \ {n} : queue'[m] = queue[m]
       /\ queue'[n] = queue[n] \/ (queue'[n] = Append(queue[n], t) /\ HasRoom(n, w))
  <2>1. queue[n] \in Seq(Task)
    BY <1>3, Zenon
  <2>2. Append(queue[n], t) \in Seq(Task)
    BY <1>11, <2>1
  <2>3. CASE queue' = queue
    BY <1>3, <2>3, Zenon
  <2>4. CASE queue' = [queue EXCEPT ![n] = Append(@, t)] /\ HasRoom(n, w)
    BY <1>3, <2>2, <2>4, Zenon
  <2> QED
    BY <1>12, <2>3, <2>4, Zenon
<1>14. ASSUME NEW m \in Node, NEW i \in DOMAIN queue'[m]
       PROVE  \/ \E j \in DOMAIN queue[m] : queue[m][j] = queue'[m][i]
              \/ m = n /\ queue'[m][i] = t
  <2>1. CASE queue'[m] = queue[m]
    BY <2>1, Zenon
  <2>2. CASE m = n /\ queue'[m] = Append(queue[m], t)
    <3>1. PICK q \in Seq(Task) : q = queue[m]
      BY <1>3
    <3>2. i \in 1..(Len(q) + 1) /\ Len(q) \in Nat /\ DOMAIN q = 1..Len(q)
      BY <2>2, <3>1
    <3>3. CASE i = Len(q) + 1
      BY <2>2, <3>1, <3>3
    <3>4. CASE i \in 1..Len(q)
      <4>1. Append(q, t)[i] = q[i]
        BY <3>2, <3>4
      <4> QED
        BY <2>2, <3>1, <3>2, <3>4, <4>1, Zenon
    <3> QED
      BY <3>2, <3>3, <3>4
  <2> QED
    BY <1>13, <2>1, <2>2, Zenon
<1>15. ASSUME NEW v \in Write, v # w PROVE Untouched(v)
  <2>1. req'[v] = req[v]
    BY <1>7, <1>15, Zenon DEF Progressed
  <2>2. ASSUME NEW m \in Node, NEW i \in DOMAIN queue'[m], queue'[m][i].w = v
        PROVE  \E j \in DOMAIN queue[m] : queue[m][j] = queue'[m][i]
    BY <1>11, <1>14, <1>15, <2>2, Zenon
  <2> QED
    BY <1>8, <2>1, <2>2, Zenon DEF Untouched
<1>16. \A m \in Node : held[m] \subseteq held'[m]
  BY <1>8, Zenon
<1>17. Stage(w)'
  <2>1. req[w].pc \notin {"free", "store", "plan"} /\ req[w].status \notin {"invalid", "engine"}
    BY <1>1, <1>2, SMT DEF Stage
  <2> QED
    BY <1>1, <1>7, <1>16, <2>1, ProgressStage, Zenon
<1>18. Counts(w)'
  <2>1. Range(l) \subseteq Range(req[w].targets)
    BY <1>5, <1>6, Zenon
  <2> QED
    BY <1>1, <1>2, <1>6, <1>7, <1>16, <2>1, AsyncCounts, Zenon
<1>19. SendsOf(w)'
  BY <1>1, <1>6, <1>7, <1>8, <1>16, SendsProgress, Zenon
<1>20. req'[w].node = n /\ req'[w].need = 0 /\ req'[w].targets = req[w].targets
  BY <1>2, <1>7, <1>9, Zenon DEF Progressed
<1>21. WireOf(w)' /\ InPlan(w)'
  BY <1>1, <1>8, <1>9, <1>20, Zenon DEF WireOf, InPlan
<1>22. QueueOf(w)'
  <2> SUFFICES ASSUME NEW m \in Node, NEW i \in DOMAIN queue'[m], queue'[m][i].w = w
               PROVE  n = m /\ queue'[m][i].to \in Range(req[w].targets)
    BY <1>20, Zenon DEF QueueOf
  <2>1. CASE \E j \in DOMAIN queue[m] : queue[m][j] = queue'[m][i]
    BY <1>1, <1>9, <2>1, Zenon DEF QueueOf
  <2>2. CASE m = n /\ queue'[m][i] = t
    BY <1>5, <1>6, <1>11, <2>2, Zenon
  <2> QED
    BY <1>14, <2>1, <2>2, Zenon
<1>23. PerWrite(w)'
  BY <1>17, <1>18, <1>19, <1>21, <1>22, Zenon DEF PerWrite
<1>24. ReplicationTypeOK'
  BY <1>1, <1>3, <1>7, <1>8, <1>13, ProgressTypes, Zenon
<1>25. Bounded'
  <2>1. Settled
    BY <1>7, ProgressSettled, Zenon
  <2>2. MaxTasks \in Nat /\ MaxBytes \in Nat
    BY Limits, Zenon
  <2>3. ASSUME NEW m \in Node PROVE QueueBound(m)' /\ ThreadBound(m)'
    <3>1. QueueBound(m) /\ ThreadBound(m)
      BY <1>1, BoundsApart, Zenon
    <3>2. ThreadBound(m)'
      BY <1>1, <1>8, <2>1, <3>1, ThreadsSame, Zenon
    <3>3. CASE queue'[m] = queue[m]
      BY <1>1, <2>1, <3>1, <3>2, <3>3, QueueSame, Zenon
    <3>4. CASE m = n /\ queue'[n] = Append(queue[n], t) /\ HasRoom(n, w)
      BY <1>1, <1>11, <2>1, <2>2, <3>2, <3>4, QueueGrows, Zenon
    <3> QED
      BY <1>13, <3>3, <3>4, Zenon
  <2> QED
    BY <2>3, BoundsApartNext, Zenon
<1>26. IsFiniteSet(sends')
  BY <1>1, <1>8, Zenon
<1> QED
  BY <1>15, <1>23, <1>24, <1>25, <1>26, Assemble, Zenon

(* The peers being sent to are replicas of the plan: there are finitely    *)
(* many.                                                                   *)
LEMMA SentFacts ==
    ASSUME ReplicationTypeOK, NEW w \in Write, SendsOf(w)
    PROVE  /\ Sent(w) \subseteq Range(req[w].targets) /\ IsFiniteSet(Sent(w)) /\ Cardinality(Sent(w)) \in Nat
<1>1. req[w].targets \in Seq(Node)
  BY Types, HandlerFacts
<1>2. IsFiniteSet(Range(req[w].targets))
  BY <1>1, RangeFinite
<1>3. Sent(w) \subseteq Range(req[w].targets)
  BY Zenon DEF Sent, SendsOf
<1>4. IsFiniteSet(Sent(w))
  BY <1>2, <1>3, FS_Subset, Zenon
<1> QED
  BY <1>3, <1>4, FS_CardinalityType, Zenon

(* A replica whose forward is over stays so. *)
LEMMA OverGrows ==
    ASSUME ReplicationTypeOK, NEW w \in Write, req'[w].targets = req[w].targets,
           \A n \in Node : held[n] \subseteq held'[n],
           Sent(w)' \cup Range(req'[w].left) \subseteq Sent(w) \cup Range(req[w].left)
    PROVE  /\ Over(w) \subseteq Over(w)' /\ IsFiniteSet(Over(w)) /\ IsFiniteSet(Over(w)')
           /\ Cardinality(Over(w)) \in Nat /\ Cardinality(Over(w)') \in Nat
           /\ Cardinality(Over(w)) <= Cardinality(Over(w)')
<1>1. Replicas(w) \subseteq Replicas(w)' /\ IsFiniteSet(Replicas(w)')
  BY ReplicasFollow, Zenon
<1>2. Over(w) \subseteq Over(w)' /\ Over(w)' \subseteq Replicas(w)'
  BY <1>1, Zenon DEF Over
<1>3. IsFiniteSet(Over(w)')
  BY <1>1, <1>2, FS_Subset, Zenon
<1>4. IsFiniteSet(Over(w)) /\ Cardinality(Over(w)) <= Cardinality(Over(w)')
  BY <1>2, <1>3, FS_Subset, Zenon
<1> QED
  BY <1>2, <1>3, <1>4, FS_CardinalityType, Zenon

(* One unit moves between the terms of a sum. *)
LEMMA Regroup ==
    ASSUME NEW x \in Nat, NEW y \in Nat, NEW z \in Nat
    PROVE  /\ (x + 1) + y + z = x + (y + 1) + z
           /\ (x + 1) + y + z = x + y + (z + 1)
           /\ x + y + z = x + (y + 1) + (z - 1)
OBVIOUS

(* A handler that is launching. *)
Launching(w, l, to) ==
    /\ req[w].pc = "forward" /\ req[w].need > 0 /\ req[w].status = "none"
    /\ l \in Seq(Node) /\ IsInjective(l) /\ to \in Node /\ to \notin Range(l)
    /\ to \in Range(req[w].targets) /\ Range(l) \subseteq Range(req[w].targets)
    /\ Range(req[w].left) = Range(l) \cup {to} /\ Len(req[w].left) = Len(l) + 1
    /\ req[w].acked <= Cardinality(Over(w)) /\ Len(l) \in Nat
    /\ Len(req[w].targets) = Len(req[w].left) + req[w].completed + Cardinality(Sent(w))
    /\ req[w].completed \in Nat /\ req[w].acked \in Nat /\ req[w].acked <= req[w].completed
    /\ req \in [Write -> Handler] /\ req[w] \in Handler /\ req[w].node \in Node

(* What the invariant says of it. *)
LEMMA LaunchFacts ==
    ASSUME RInv, NEW w \in Write, LaunchNext(w)
    PROVE  Launching(w, Tail(req[w].left), Head(req[w].left))
<1>1. ReplicationTypeOK /\ Stage(w) /\ Counts(w)
  BY Zenon DEF RInv, PerWrite
<1>2. req[w].pc = "forward" /\ req[w].need > 0 /\ req[w].left # <<>>
  BY Zenon DEF LaunchNext
<1>3. req[w].status = "none" /\ req[w].node \in Node
  BY <1>1, <1>2, SMT, SMTT(30) DEF Stage
<1>4. /\ req[w].left \in Seq(Node) /\ req[w].completed \in Nat /\ req[w].acked \in Nat
      /\ req \in [Write -> Handler] /\ req[w] \in Handler /\ req[w].acked <= req[w].completed
  BY <1>1, Types, HandlerFacts
<1>5. IsInjective(req[w].left) /\ Range(req[w].left) \subseteq Range(req[w].targets)
  BY <1>1, Zenon DEF Counts
<1>6. req[w].status # "invalid"
  BY <1>3
<1>7. /\ req[w].acked <= Cardinality(Over(w))
      /\ Len(req[w].targets) = Len(req[w].left) + req[w].completed + Cardinality(Sent(w))
  BY <1>1, <1>2, <1>6, Zenon DEF Counts
<1>8. PICK l, to : l = Tail(req[w].left) /\ to = Head(req[w].left)
  BY Zenon
<1>9. /\ l \in Seq(Node) /\ IsInjective(l) /\ to \in Node /\ to \notin Range(l)
      /\ to \in Range(req[w].left) /\ Range(req[w].left) = Range(l) \cup {to}
      /\ Len(req[w].left) = Len(l) + 1
  BY <1>2, <1>4, <1>5, <1>8, HeadTail, Zenon
<1>10. to \in Range(req[w].targets) /\ Range(l) \subseteq Range(req[w].targets)
  BY <1>5, <1>9, Zenon
<1>11. Len(l) \in Nat
  BY <1>9
<1>12. Launching(w, l, to)
  BY <1>2, <1>3, <1>4, <1>7, <1>9, <1>10, <1>11, Zenon DEF Launching
<1> QED
  BY <1>8, <1>12, Zenon

(* LaunchNext without a thread: the replica counts as failed. *)
LEMMA LaunchSkipped ==
    ASSUME RInv, NEW w \in Write, NEW l, NEW to, Launching(w, l, to),
           req' = [req EXCEPT ![w] = [Completed(w, FALSE) EXCEPT !.left = l]],
           UNCHANGED <<views, polls, phases, held, queue, sends, wire>>
    PROVE  RInv'
<1>1. /\ ReplicationTypeOK
      /\ Stage(w) /\ Counts(w) /\ SendsOf(w) /\ WireOf(w) /\ QueueOf(w) /\ InPlan(w)
  BY Zenon DEF RInv, PerWrite
<1>2. /\ req[w].completed \in Nat /\ req[w].acked \in Nat /\ req[w].acked <= req[w].completed
      /\ l \in Seq(Node) /\ IsInjective(l) /\ req[w] \in Handler /\ req \in [Write -> Handler]
  BY Zenon DEF Launching
<1>3. PICK c : c = req[w].completed + 1
  OBVIOUS
<1>4. c \in Nat /\ req[w].acked <= c
  BY <1>2, <1>3
<1>5. Progressed(w, l, c, req[w].acked)
  <2>1. PICK r : r = [Completed(w, FALSE) EXCEPT !.left = l]
    BY Zenon
  <2>2. req[w].acked + (IF FALSE THEN 1 ELSE 0) = req[w].acked
    BY <1>2
  <2>3. Completed(w, FALSE) = [req[w] EXCEPT !.completed = c, !.acked = req[w].acked]
    BY <1>3, <2>2, Zenon DEF Completed
  <2>4. r = [req[w] EXCEPT !.left = l, !.completed = c, !.acked = req[w].acked]
    BY <1>2, <2>1, <2>3, Zenon DEF Handler
  <2> QED
    BY <1>1, <1>2, <1>4, <2>1, <2>4, Progresses, Zenon
<1>6. HandlerMoved(w)
  BY <1>1, <1>5, OnlyHandler, Zenon DEF Progressed
<1>7. \A n \in Node : held[n] \subseteq held'[n]
  BY Zenon
<1>8. Sent(w)' = Sent(w)
  BY FlightSame, Zenon
<1>9. req[w].pc = "forward" /\ req[w].need > 0 /\ req[w].status = "none"
  BY Zenon DEF Launching
<1>10. Stage(w)'
  <2>1. req[w].pc \notin {"free", "store", "plan"} /\ req[w].status \notin {"invalid", "engine"}
    BY <1>9
  <2> QED
    BY <1>1, <1>5, <1>7, <2>1, ProgressStage, Zenon
<1>11. /\ req'[w].left = l /\ req'[w].targets = req[w].targets /\ req'[w].node = req[w].node
       /\ req'[w].need = req[w].need /\ req'[w].big = req[w].big
       /\ req'[w].acked = req[w].acked /\ req'[w].completed = c
  BY <1>5, Zenon DEF Progressed
<1>12. Range(l) \subseteq Range(req[w].left) /\ Range(l) \subseteq Range(req[w].targets)
  BY Zenon DEF Launching
<1>13. Counts(w)'
  <2>1. Sent(w)' \cup Range(req'[w].left) \subseteq Sent(w) \cup Range(req[w].left)
    BY <1>8, <1>11, <1>12, Zenon
  <2>2. /\ Cardinality(Over(w)) \in Nat /\ Cardinality(Over(w)') \in Nat
        /\ Cardinality(Over(w)) <= Cardinality(Over(w)')
    BY <1>1, <1>7, <1>11, <2>1, OverGrows, Zenon
  <2>3. req[w].acked <= Cardinality(Over(w))
    BY Zenon DEF Launching
  <2>4. req[w].acked <= Cardinality(Over(w)')
    BY <1>2, <2>2, <2>3
  <2>5. Cardinality(Sent(w)) \in Nat
    BY <1>1, SentFacts, Zenon
  <2>6. /\ Len(req[w].targets) = Len(req[w].left) + req[w].completed + Cardinality(Sent(w))
        /\ Len(req[w].left) = Len(l) + 1 /\ Len(l) \in Nat
    BY Zenon DEF Launching
  <2>7. Len(req[w].targets) = Len(l) + c + Cardinality(Sent(w))
    <3>1. PICK x \in Nat, y \in Nat, z \in Nat :
             x = Len(l) /\ y = req[w].completed /\ z = Cardinality(Sent(w))
      BY <1>2, <2>5, <2>6, Zenon
    <3>2. (x + 1) + y + z = x + (y + 1) + z
      BY Regroup, Zenon
    <3>3. Len(req[w].targets) = (x + 1) + y + z
      BY <2>6, <3>1, Zenon
    <3>4. x + (y + 1) + z = Len(l) + c + Cardinality(Sent(w))
      BY <1>3, <3>1, Zenon
    <3> QED
      BY <3>2, <3>3, <3>4, Zenon
  <2>8. Len(req[w].targets) = Len(l) + c + Cardinality(Sent(w)')
    BY <1>8, <2>7, Zenon
  <2>9. req[w].status # "invalid"
    BY <1>9
  <2> QED
    BY <1>1, <1>2, <1>5, <1>7, <1>9, <1>12, <2>4, <2>8, <2>9, StrongCounts, Zenon
<1>14. SendsOf(w)'
  BY <1>1, <1>5, <1>7, <1>12, SendsProgress, Zenon
<1>15. WireOf(w)' /\ QueueOf(w)' /\ InPlan(w)'
  BY <1>1, <1>11, Zenon DEF WireOf, QueueOf, InPlan
<1>16. PerWrite(w)'
  BY <1>10, <1>13, <1>14, <1>15, Zenon DEF PerWrite
<1>17. req'[w].acked <= req'[w].completed
  BY <1>4, <1>11, Zenon
<1> QED
  BY <1>6, <1>11, <1>16, <1>17, HandlerKeeps, Zenon

(* A forward of w is started: nothing of any other write moves. *)
LEMMA StartOthers ==
    ASSUME NEW w, NEW s, NEW m, s.w = w, m.w = w, sends' = sends \cup {s}, wire' = wire \cup {m},
           held' = held, NEW v, v # w, req'[v] = req[v],
           \A n \in Node : \A i \in DOMAIN queue'[n] :
              queue'[n][i].w = v => \E j \in DOMAIN queue[n] : queue[n][j] = queue'[n][i]
    PROVE  Untouched(v)
<1>1. \A t : t.w = v => (t \in sends' <=> t \in sends)
  <2>1. \A t : t \in sends' <=> t \in sends \/ t = s
    BY Zenon
  <2> QED
    BY <2>1, Zenon
<1>2. \A t : t.w = v /\ t \in wire' => t \in wire
  BY Zenon
<1> QED
  BY <1>1, <1>2, Zenon DEF Untouched

(* A new thread at a node below its limit. *)
LEMMA ThreadStarts ==
    ASSUME ReplicationTypeOK, Settled, IsFiniteSet(sends), NEW s \in Send, sends' = sends \cup {s},
           AckThreads \in Nat, Workers \in Nat, NEW n \in Node, ThreadBound(n),
           s.strong /\ req[s.w].node = n => Cardinality(StrongAt(n)) < AckThreads,
           ~s.strong /\ req[s.w].node = n => Cardinality(AsyncAt(n)) < Workers
    PROVE  ThreadBound(n)'
<1>1. sends' \subseteq Send
  BY Types
<1>2. /\ StrongAt(n)' = {t \in sends' : t.strong /\ req[t.w].node = n}
      /\ AsyncAt(n)' = {t \in sends' : ~t.strong /\ req[t.w].node = n}
  BY <1>1, ThreadsOf, Zenon
<1>3. /\ IsFiniteSet(StrongAt(n)) /\ IsFiniteSet(AsyncAt(n))
  <2>1. StrongAt(n) \subseteq sends /\ AsyncAt(n) \subseteq sends
    BY Zenon DEF StrongAt, AsyncAt
  <2> QED
    BY <2>1, FS_Subset, Zenon
<1>4. Cardinality(StrongAt(n)) \in Nat /\ Cardinality(AsyncAt(n)) \in Nat
  BY <1>3, FS_CardinalityType, Zenon
<1>5. Cardinality(StrongAt(n)) <= AckThreads /\ Cardinality(AsyncAt(n)) <= Workers
  BY Zenon DEF ThreadBound
<1>6. Cardinality(StrongAt(n)') <= AckThreads
  <2>1. CASE s.strong /\ req[s.w].node = n
    <3>1. StrongAt(n)' = StrongAt(n) \cup {s}
      BY <1>2, <2>1 DEF StrongAt
    <3>2. Cardinality(StrongAt(n)') = IF s \in StrongAt(n) THEN Cardinality(StrongAt(n))
                                                           ELSE Cardinality(StrongAt(n)) + 1
      BY <1>3, <3>1, FS_AddElement, Zenon
    <3> QED
      BY <1>4, <2>1, <3>2, SMTT(30)
  <2>2. CASE ~(s.strong /\ req[s.w].node = n)
    <3>1. StrongAt(n)' = StrongAt(n)
      BY <1>2, <2>2 DEF StrongAt
    <3> QED
      BY <1>5, <3>1, Zenon
  <2> QED
    BY <2>1, <2>2, Zenon
<1>7. Cardinality(AsyncAt(n)') <= Workers
  <2>1. CASE ~s.strong /\ req[s.w].node = n
    <3>1. AsyncAt(n)' = AsyncAt(n) \cup {s}
      BY <1>2, <2>1 DEF AsyncAt
    <3>2. Cardinality(AsyncAt(n)') = IF s \in AsyncAt(n) THEN Cardinality(AsyncAt(n))
                                                         ELSE Cardinality(AsyncAt(n)) + 1
      BY <1>3, <3>1, FS_AddElement, Zenon
    <3> QED
      BY <1>4, <2>1, <3>2, SMTT(30)
  <2>2. CASE ~(~s.strong /\ req[s.w].node = n)
    <3>1. AsyncAt(n)' = AsyncAt(n)
      BY <1>2, <2>2 DEF AsyncAt
    <3> QED
      BY <1>5, <3>1, Zenon
  <2> QED
    BY <2>1, <2>2, Zenon
<1> QED
  BY <1>6, <1>7, Zenon DEF ThreadBound

(* LaunchNext with a thread of its own for the replica. *)
LEMMA LaunchStarted ==
    ASSUME ReplicationConstants, RInv, NEW w \in Write, NEW l, NEW to, Launching(w, l, to),
           ThreadFree(req[w].node), StartSend(w, to, TRUE, "grpc"),
           req' = [req EXCEPT ![w].left = l],
           UNCHANGED <<views, polls, phases, held, queue>>
    PROVE  RInv'
<1>1. /\ ReplicationTypeOK /\ Bounded /\ IsFiniteSet(sends)
      /\ Stage(w) /\ Counts(w) /\ SendsOf(w) /\ WireOf(w) /\ QueueOf(w) /\ InPlan(w)
  BY Zenon DEF RInv, PerWrite
<1>2. /\ req[w].completed \in Nat /\ req[w].acked \in Nat /\ req[w].acked <= req[w].completed
      /\ l \in Seq(Node) /\ IsInjective(l) /\ req[w] \in Handler /\ req \in [Write -> Handler]
      /\ to \in Node /\ to \notin Range(l) /\ to \in Range(req[w].targets)
      /\ Range(req[w].left) = Range(l) \cup {to} /\ Range(l) \subseteq Range(req[w].targets)
  BY Zenon DEF Launching
<1>3. req[w].pc = "forward" /\ req[w].need > 0 /\ req[w].status = "none" /\ req[w].node \in Node
  BY Zenon DEF Launching
<1>4. Progressed(w, l, req[w].completed, req[w].acked)
  <2>1. PICK r : r = [req[w] EXCEPT !.left = l, !.completed = req[w].completed, !.acked = req[w].acked]
    BY Zenon
  <2>2. r = [req[w] EXCEPT !.left = l]
    BY <1>2, <2>1, Zenon DEF Handler
  <2>3. req' = [req EXCEPT ![w] = r]
    BY <1>2, <2>2, Zenon
  <2> QED
    BY <1>1, <1>2, <2>1, <2>3, Progresses, Zenon
<1>5. /\ req'[w].left = l /\ req'[w].targets = req[w].targets /\ req'[w].node = req[w].node
      /\ req'[w].need = req[w].need
  BY <1>4, Zenon DEF Progressed
<1>6. PICK s : s = [w |-> w, to |-> to, strong |-> TRUE, leg |-> "grpc", answer |-> "none"]
  BY Zenon
<1>7. PICK m : m = [w |-> w, to |-> to, leg |-> "grpc"]
  BY Zenon
<1>8. /\ s \in Send /\ s.w = w /\ s.to = to /\ s.strong = TRUE /\ s.leg = "grpc" /\ s.answer = "none"
      /\ m \in Message /\ m.w = w /\ m.to = to
  BY <1>2, <1>6, <1>7 DEF Send, Message
<1>9. sends' = sends \cup {s} /\ wire' = wire \cup {m}
  BY <1>6, <1>7, Zenon DEF StartSend
<1>10. held' = held /\ queue' = queue /\ views' = views /\ polls' = polls /\ phases' = phases
  BY Zenon
<1>11. \A n \in Node : held[n] \subseteq held'[n]
  BY <1>10, Zenon
<1>12. \A v \in Write : v # w => Untouched(v)
  BY <1>4, <1>8, <1>9, <1>10, StartOthers, Zenon DEF Progressed
<1>13. Stage(w)'
  <2>1. req[w].pc \notin {"free", "store", "plan"} /\ req[w].status \notin {"invalid", "engine"}
    BY <1>3
  <2> QED
    BY <1>1, <1>4, <1>11, <2>1, ProgressStage, Zenon
<1>14. ASSUME NEW t \in sends, t.w = w PROVE t.to # to /\ t.to \notin Range(l)
  BY <1>1, <1>2, <1>3, <1>14, Zenon DEF SendsOf
<1>15. Sent(w)' = Sent(w) \cup {to} /\ to \notin Sent(w)
  <2>1. {t \in sends' : t.w = w} = {t \in sends : t.w = w} \cup {s}
    BY <1>8, <1>9, Zenon
  <2>2. Sent(w)' = Sent(w) \cup {to}
    BY <1>8, <2>1 DEF Sent
  <2>3. to \notin Sent(w)
    BY <1>14, Zenon DEF Sent
  <2> QED
    BY <2>2, <2>3
<1>16. Counts(w)'
  <2>1. Sent(w)' \cup Range(req'[w].left) \subseteq Sent(w) \cup Range(req[w].left)
    BY <1>2, <1>5, <1>15, Zenon
  <2>2. /\ Cardinality(Over(w)) \in Nat /\ Cardinality(Over(w)') \in Nat
        /\ Cardinality(Over(w)) <= Cardinality(Over(w)')
    BY <1>1, <1>5, <1>11, <2>1, OverGrows, Zenon
  <2>3. req[w].acked <= Cardinality(Over(w))
    BY Zenon DEF Launching
  <2>4. req[w].acked <= Cardinality(Over(w)')
    BY <1>2, <2>2, <2>3
  <2>5. Cardinality(Sent(w)) \in Nat /\ IsFiniteSet(Sent(w))
    BY <1>1, SentFacts, Zenon
  <2>6. Cardinality(Sent(w)') = Cardinality(Sent(w)) + 1
    BY <1>15, <2>5, FS_AddElement, Zenon
  <2>7. /\ Len(req[w].targets) = Len(req[w].left) + req[w].completed + Cardinality(Sent(w))
        /\ Len(req[w].left) = Len(l) + 1 /\ Len(l) \in Nat
    BY Zenon DEF Launching
  <2>8. PICK x \in Nat, y \in Nat, z \in Nat :
           x = Len(l) /\ y = req[w].completed /\ z = Cardinality(Sent(w))
    BY <1>2, <2>5, <2>7, Zenon
  <2>9. Len(req[w].targets) = Len(l) + req[w].completed + Cardinality(Sent(w)')
    <3>1. (x + 1) + y + z = x + y + (z + 1)
      BY Regroup, Zenon
    <3>2. Len(req[w].targets) = (x + 1) + y + z
      BY <2>7, <2>8, Zenon
    <3>3. x + y + (z + 1) = Len(l) + req[w].completed + Cardinality(Sent(w)')
      BY <2>6, <2>8, Zenon
    <3> QED
      BY <3>1, <3>2, <3>3, Zenon
  <2>10. req[w].status # "invalid"
    BY <1>3
  <2> QED
    BY <1>1, <1>2, <1>3, <1>4, <1>11, <2>4, <2>9, <2>10, StrongCounts, Zenon
<1>17. SendsOf(w)'
  <2>1. ASSUME NEW t \in sends', t.w = w
        PROVE  /\ t.to \in Range(req'[w].targets) /\ (t.strong <=> req'[w].need > 0)
               /\ t.answer = "ok" => w \in held'[t.to]
               /\ t.strong => t.leg = "grpc" /\ t.to \notin Range(req'[w].left)
    <3>1. CASE t = s
      <4>1. t.answer # "ok"
        BY <1>8, <3>1
      <4> QED
        BY <1>2, <1>3, <1>5, <1>8, <3>1, <4>1, Zenon
    <3>2. CASE t \in sends
      BY <1>1, <1>5, <1>10, <1>14, <2>1, <3>2, Zenon DEF SendsOf
    <3> QED
      BY <1>9, <3>1, <3>2, Zenon
  <2>2. ASSUME NEW t \in sends', NEW u \in sends', t.w = w, u.w = w, t.strong, u.strong, t.to = u.to
        PROVE  t = u
    <3>1. (t \in sends \/ t = s) /\ (u \in sends \/ u = s)
      BY <1>9, Zenon
    <3>2. CASE t \in sends /\ u \in sends
      BY <1>1, <2>2, <3>2, Zenon DEF SendsOf
    <3>3. CASE t = s /\ u \in sends
      BY <1>8, <1>14, <2>2, <3>3, Zenon
    <3>4. CASE t \in sends /\ u = s
      BY <1>8, <1>14, <2>2, <3>4, Zenon
    <3> QED
      BY <3>1, <3>2, <3>3, <3>4, Zenon
  <2> QED
    BY <2>1, <2>2, Zenon DEF SendsOf
<1>18. WireOf(w)'
  BY <1>1, <1>2, <1>5, <1>8, <1>9, Zenon DEF WireOf
<1>19. QueueOf(w)' /\ InPlan(w)'
  BY <1>1, <1>5, <1>10, Zenon DEF QueueOf, InPlan
<1>20. PerWrite(w)'
  BY <1>13, <1>16, <1>17, <1>18, <1>19, Zenon DEF PerWrite
<1>21. ReplicationTypeOK'
  <2>1. sends' \subseteq Send /\ wire' \subseteq Message
    BY <1>1, <1>8, <1>9, Types, Zenon
  <2>2. held' \in [Node -> SUBSET Write] /\ queue' \in [Node -> Seq(Task)]
    BY <1>1, <1>10, Types, Zenon
  <2> QED
    BY <1>1, <1>2, <1>4, <1>10, <2>1, <2>2, ProgressTypes, Zenon
<1>22. IsFiniteSet(sends')
  BY <1>1, <1>9, FS_AddElement, Zenon
<1>23. Bounded'
  <2>1. Settled
    BY <1>4, ProgressSettled, Zenon
  <2>2. AckThreads \in Nat /\ Workers \in Nat
    BY Limits, Zenon
  <2>3. ASSUME NEW n \in Node PROVE QueueBound(n)' /\ ThreadBound(n)'
    <3>1. QueueBound(n) /\ ThreadBound(n)
      BY <1>1, BoundsApart, Zenon
    <3>2. QueueBound(n)'
      BY <1>1, <1>10, <2>1, <3>1, QueueSame, Zenon
    <3>3. req[s.w].node = n => Cardinality(StrongAt(n)) < AckThreads
      BY <1>8, Zenon DEF ThreadFree
    <3>4. ThreadBound(n)'
      BY <1>1, <1>8, <1>9, <2>1, <2>2, <3>1, <3>3, ThreadStarts, Zenon
    <3> QED
      BY <3>2, <3>4
  <2> QED
    BY <2>3, BoundsApartNext, Zenon
<1> QED
  BY <1>12, <1>20, <1>21, <1>22, <1>23, Assemble, Zenon

(* LaunchNext. *)
LEMMA LaunchNextKeeps ==
    ASSUME ReplicationConstants, RInv, NEW w \in Write, LaunchNext(w)
    PROVE  RInv'
<1>1. PICK l, to : l = Tail(req[w].left) /\ to = Head(req[w].left)
  BY Zenon
<1>2. Launching(w, l, to)
  BY <1>1, LaunchFacts, Zenon
<1>3. UNCHANGED <<views, polls, phases, held, queue>>
  BY Zenon DEF LaunchNext
<1>4. CASE /\ ThreadFree(req[w].node) /\ StartSend(w, to, TRUE, "grpc")
           /\ req' = [req EXCEPT ![w].left = Tail(@)]
  <2>1. req' = [req EXCEPT ![w].left = l]
    BY <1>1, <1>4, Zenon
  <2> QED
    BY <1>2, <1>3, <1>4, <2>1, LaunchStarted, Zenon
<1>5. CASE /\ req' = [req EXCEPT ![w] = [Completed(w, FALSE) EXCEPT !.left = Tail(@)]]
           /\ UNCHANGED <<sends, wire>>
  <2>1. Completed(w, FALSE).left = req[w].left
    BY <1>2 DEF Completed, Launching, Handler
  <2>2. req' = [req EXCEPT ![w] = [Completed(w, FALSE) EXCEPT !.left = l]]
    BY <1>1, <1>5, <2>1, Zenon
  <2> QED
    BY <1>2, <1>3, <1>5, <2>2, LaunchSkipped, Zenon
<1> QED
  BY <1>1, <1>4, <1>5, Zenon DEF LaunchNext

-----------------------------------------------------------------------------
(* The background queue *)

(* A queue that lost its oldest task. *)
LEMMA QueueShrinks ==
    ASSUME ReplicationTypeOK, Settled, NEW n \in Node, queue[n] # <<>>, queue'[n] = Tail(queue[n]),
           QueueBound(n), MaxTasks \in Nat, MaxBytes \in Nat
    PROVE  QueueBound(n)'
<1>1. PICK q \in Seq(Task) : q = queue[n]
  BY Types
<1>2. PICK q1 : q1 = Tail(q)
  BY Zenon
<1>3. /\ q # <<>> /\ Len(q) \in Nat /\ Len(q) >= 1 /\ DOMAIN q = 1..Len(q) /\ q1 \in Seq(Task)
      /\ Len(q1) = Len(q) - 1 /\ DOMAIN q1 = 1..(Len(q) - 1)
  BY <1>1, <1>2
<1>4. \A i \in DOMAIN q1 : q1[i] = q[i + 1] /\ i + 1 \in DOMAIN q
  BY <1>1, <1>2, <1>3
<1>5. PICK B : B = {i \in DOMAIN q : req[q[i].w].big}
  BY Zenon
<1>6. PICK B1 : B1 = {i \in DOMAIN q1 : req'[q1[i].w].big}
  BY Zenon
<1>7. \A i \in DOMAIN q1 : q1[i].w \in Write
  <2>1. \A i \in DOMAIN q1 : q1[i] \in Task
    BY <1>3
  <2>2. \A u \in Task : u.w \in Write
    BY DEF Task
  <2> QED
    BY <2>1, <2>2, Zenon
<1>8. \A i \in B1 : i + 1 \in B
  <2>1. \A i \in DOMAIN q1 : req'[q1[i].w].big = req[q1[i].w].big
    BY <1>7, Zenon DEF Settled
  <2> QED
    BY <1>4, <1>5, <1>6, <2>1, Zenon
<1>9. IsFiniteSet(B)
  <2>1. IsFiniteSet(DOMAIN q) /\ B \subseteq DOMAIN q
    BY <1>3, <1>5, FS_Interval
  <2> QED
    BY <2>1, FS_Subset, Zenon
<1>10. IsFiniteSet(B1) /\ Cardinality(B1) <= Cardinality(B)
  <2>1. PICK f : f = [i \in B1 |-> i + 1]
    BY Zenon
  <2>2. DOMAIN q1 \subseteq Nat
    BY <1>3
  <2>3. B1 \subseteq Nat
    BY <1>6, <2>2, Zenon
  <2>4. f \in [B1 -> B] /\ \A i \in B1 : f[i] = i + 1
    BY <1>8, <2>1, Zenon
  <2>5. IsInjective(f)
    <3>1. DOMAIN f = B1
      BY <2>4, Zenon
    <3>2. ASSUME NEW i \in B1, NEW j \in B1, f[i] = f[j] PROVE i = j
      <4>1. i \in Nat /\ j \in Nat /\ i + 1 = j + 1
        BY <2>3, <2>4, <3>2, Zenon
      <4> QED
        BY <4>1
    <3> QED
      BY <3>1, <3>2, Zenon DEF IsInjective
  <2>6. f \in Injection(B1, B)
    BY <2>4, <2>5, Zenon DEF Injection
  <2> QED
    BY <1>9, <2>6, FS_Injection, Zenon
<1>11. Cardinality(B) \in Nat /\ Cardinality(B1) \in Nat
  BY <1>9, <1>10, FS_CardinalityType, Zenon
<1>12. QueuedBytes(n) = Len(q) + Cardinality(B)
  BY <1>1, <1>5, Zenon DEF QueuedBytes
<1>13. queue'[n] = q1
  BY <1>1, <1>2, Zenon
<1>14. QueuedBytes(n)' = Len(q1) + Cardinality(B1)
  BY <1>6, <1>13, Zenon DEF QueuedBytes
<1>15. Len(q) <= MaxTasks /\ (Len(q) + Cardinality(B) <= MaxBytes \/ Len(q) = 1)
  BY <1>1, <1>12, Zenon DEF QueueBound
<1>16. Len(q1) <= MaxTasks
  BY <1>3, <1>15
<1>17. Len(q1) + Cardinality(B1) <= MaxBytes
  <2>1. CASE Len(q) + Cardinality(B) <= MaxBytes
    BY <1>3, <1>10, <1>11, <2>1, SMTT(30)
  <2>2. CASE Len(q) = 1
    <3>1. B1 = {}
      BY <1>3, <1>6, <2>2
    <3>2. Cardinality(B1) = 0
      BY <3>1, FS_EmptySet, Zenon
    <3> QED
      BY <1>3, <2>2, <3>2
  <2> QED
    BY <1>15, <2>1, <2>2, Zenon
<1> QED
  BY <1>13, <1>14, <1>16, <1>17, Zenon DEF QueueBound

(* The counters of a write that made no progress itself. *)
LEMMA CountsStay ==
    ASSUME ReplicationTypeOK, NEW w \in Write, Progressed(w, req[w].left, req[w].completed, req[w].acked), Counts(w),
           Sent(w)' = Sent(w), \A n \in Node : held[n] \subseteq held'[n]
    PROVE  Counts(w)'
<1>1. /\ req'[w].left = req[w].left /\ req'[w].completed = req[w].completed
      /\ req'[w].acked = req[w].acked /\ req'[w].need = req[w].need
      /\ req'[w].status = req[w].status /\ req'[w].targets = req[w].targets
  BY Zenon DEF Progressed
<1>2. /\ Cardinality(Replicas(w)) <= Cardinality(Replicas(w)')
      /\ Cardinality(Over(w)) <= Cardinality(Over(w)')
      /\ {Cardinality(Replicas(w)), Cardinality(Replicas(w)'),
          Cardinality(Over(w)), Cardinality(Over(w)')} \subseteq Nat
  BY <1>1, ReplicasGrow, Zenon
<1>3. /\ Cardinality(Replicas(w)) \in Nat /\ Cardinality(Replicas(w)') \in Nat
      /\ Cardinality(Over(w)) \in Nat /\ Cardinality(Over(w)') \in Nat
  BY <1>2, Zenon
<1>4. req[w].acked \in Nat /\ req[w].need \in Nat
  BY Types, HandlerFacts
<1>5. /\ req[w].need > 0 => req[w].acked <= Cardinality(Over(w))
      /\ req[w].status = "ok" => req[w].need <= Cardinality(Replicas(w))
  BY Zenon DEF Counts
<1>6. req[w].need > 0 => req[w].acked <= Cardinality(Over(w)')
  BY <1>2, <1>3, <1>4, <1>5, SMTT(30)
<1>7. req[w].status = "ok" => req[w].need <= Cardinality(Replicas(w)')
  BY <1>2, <1>3, <1>4, <1>5, SMTT(30)
<1> QED
  BY <1>1, <1>6, <1>7, Zenon DEF Counts

(* WorkerTake: a worker starts the oldest background forward of its node. *)
LEMMA WorkerTakeKeeps ==
    ASSUME ReplicationConstants, RInv, NEW n \in Node, WorkerTake(n)
    PROVE  RInv'
<1>1. ReplicationTypeOK /\ Bounded /\ IsFiniteSet(sends)
  BY Zenon DEF RInv
<1>2. queue[n] # <<>> /\ queue \in [Node -> Seq(Task)] /\ queue[n] \in Seq(Task)
  BY <1>1, Types DEF WorkerTake
<1>3. PICK t : t = Head(queue[n])
  BY Zenon
<1>4. t \in Task /\ t = queue[n][1] /\ 1 \in DOMAIN queue[n]
  BY <1>2, <1>3, SMTT(30)
<1>5. PICK w \in Write : w = t.w
  BY <1>4 DEF Task
<1>6. PICK to \in Node : to = t.to
  BY <1>4, SMTT(30) DEF Task
<1>7. PICK leg \in {"bulk", "grpc"} : StartSend(w, to, FALSE, leg)
  BY <1>3, <1>5, <1>6, ZenonT(40) DEF WorkerTake
<1>8. /\ Stage(w) /\ Counts(w) /\ SendsOf(w) /\ WireOf(w) /\ QueueOf(w) /\ InPlan(w)
  BY Zenon DEF RInv, PerWrite
<1>9. req[w].node = n /\ req[w].need = 0 /\ to \in Range(req[w].targets) /\ ~Nowhere(w)
  BY <1>4, <1>5, <1>6, <1>8, Zenon DEF QueueOf, Nowhere
<1>10. PICK s : s = [w |-> w, to |-> to, strong |-> FALSE, leg |-> leg, answer |-> "none"]
  BY Zenon
<1>11. PICK m : m = [w |-> w, to |-> to, leg |-> leg]
  BY Zenon
<1>12. /\ s \in Send /\ s.w = w /\ s.to = to /\ s.strong = FALSE /\ s.answer = "none"
       /\ m \in Message /\ m.w = w /\ m.to = to
  BY <1>10, <1>11 DEF Send, Message
<1>13. sends' = sends \cup {s} /\ wire' = wire \cup {m}
  BY <1>7, <1>10, <1>11, Zenon DEF StartSend
<1>14. held' = held /\ req' = req /\ views' = views /\ polls' = polls /\ phases' = phases
  BY Zenon DEF WorkerTake
<1>15. queue' = [queue EXCEPT ![n] = Tail(@)]
  BY Zenon DEF WorkerTake
<1>16. Tail(queue[n]) \in Seq(Task)
  BY <1>2
<1>17. /\ queue' \in [Node -> Seq(Task)] /\ queue'[n] = Tail(queue[n])
       /\ \A k \in Node \ {n} : queue'[k] = queue[k]
  BY <1>2, <1>15, <1>16, Zenon
<1>18. ASSUME NEW k \in Node, NEW i \in DOMAIN queue'[k]
       PROVE  \E j \in DOMAIN queue[k] : queue[k][j] = queue'[k][i]
  <2>1. CASE k = n
    <3>1. i + 1 \in DOMAIN queue[n] /\ Tail(queue[n])[i] = queue[n][i + 1]
      BY <1>2, <1>17, <2>1
    <3> QED
      BY <1>17, <2>1, <3>1, Zenon
  <2>2. CASE k # n
    BY <1>17, <2>2, Zenon
  <2> QED
    BY <2>1, <2>2, Zenon
<1>19. \A v \in Write : v # w => Untouched(v)
  BY <1>12, <1>13, <1>14, <1>18, StartOthers, Zenon
<1>20. \A k \in Node : held[k] \subseteq held'[k]
  BY <1>14, Zenon
<1>21. Progressed(w, req[w].left, req[w].completed, req[w].acked)
  BY <1>1, <1>14, NoProgress, Zenon
<1>22. Stage(w)'
  BY <1>8, <1>9, <1>20, <1>21, InFlight, ProgressStage, Zenon
<1>23. Counts(w)'
  <2>1. IsInjective(req[w].left) /\ Range(req[w].left) \subseteq Range(req[w].targets)
    BY <1>8, Zenon DEF Counts
  <2> QED
    BY <1>1, <1>8, <1>9, <1>20, <1>21, <2>1, AsyncCounts, Zenon
<1>24. SendsOf(w)'
  <2>1. ~(req[w].need > 0)
    BY <1>9
  <2>2. ASSUME NEW u \in sends', u.w = w
        PROVE  u.to \in Range(req[w].targets) /\ ~u.strong /\ (u.answer = "ok" => w \in held[u.to])
    <3>1. CASE u = s
      <4>1. u.answer # "ok"
        BY <1>12, <3>1
      <4> QED
        BY <1>9, <1>12, <3>1, <4>1, Zenon
    <3>2. CASE u \in sends
      BY <1>8, <2>1, <2>2, <3>2, Zenon DEF SendsOf
    <3> QED
      BY <1>13, <3>1, <3>2, Zenon
  <2> QED
    BY <1>14, <2>1, <2>2, Zenon DEF SendsOf
<1>25. WireOf(w)'
  BY <1>8, <1>9, <1>12, <1>13, <1>14, Zenon DEF WireOf
<1>26. QueueOf(w)'
  <2>1. ASSUME NEW k \in Node, NEW i \in DOMAIN queue'[k], queue'[k][i].w = w
        PROVE  req[w].node = k /\ req[w].need = 0 /\ queue'[k][i].to \in Range(req[w].targets)
    <3>1. PICK j \in DOMAIN queue[k] : queue[k][j] = queue'[k][i]
      BY <1>18, Zenon
    <3> QED
      BY <1>8, <2>1, <3>1, Zenon DEF QueueOf
  <2> QED
    BY <1>14, <2>1, Zenon DEF QueueOf
<1>27. InPlan(w)'
  BY <1>8, <1>14, Zenon DEF InPlan
<1>28. PerWrite(w)'
  BY <1>22, <1>23, <1>24, <1>25, <1>26, <1>27, Zenon DEF PerWrite
<1>29. ReplicationTypeOK'
  <2>1. sends' \subseteq Send /\ wire' \subseteq Message
    BY <1>1, <1>12, <1>13, Types, Zenon
  <2>2. held' \in [Node -> SUBSET Write] /\ req[w].acked <= req[w].completed
    BY <1>1, <1>14, Types, Zenon
  <2> QED
    BY <1>1, <1>14, <1>17, <1>21, <2>1, <2>2, ProgressTypes, Zenon
<1>30. IsFiniteSet(sends')
  BY <1>1, <1>13, FS_AddElement, Zenon
<1>31. Bounded'
  <2>1. Settled
    BY <1>21, ProgressSettled, Zenon
  <2>2. AckThreads \in Nat /\ Workers \in Nat /\ MaxTasks \in Nat /\ MaxBytes \in Nat
    BY Limits, Zenon
  <2>3. ASSUME NEW k \in Node PROVE QueueBound(k)' /\ ThreadBound(k)'
    <3>1. QueueBound(k) /\ ThreadBound(k)
      BY <1>1, BoundsApart, Zenon
    <3>2. QueueBound(k)'
      <4>1. CASE k = n
        BY <1>1, <1>2, <1>17, <2>1, <2>2, <3>1, <4>1, QueueShrinks, Zenon
      <4>2. CASE k # n
        BY <1>1, <1>17, <2>1, <3>1, <4>2, QueueSame, Zenon
      <4> QED
        BY <4>1, <4>2, Zenon
    <3>3. req[s.w].node = k => Cardinality(AsyncAt(k)) < Workers
      BY <1>9, <1>12, Zenon DEF WorkerTake
    <3>4. ThreadBound(k)'
      BY <1>1, <1>12, <1>13, <2>1, <2>2, <3>1, <3>3, ThreadStarts, Zenon
    <3> QED
      BY <3>2, <3>4
  <2> QED
    BY <2>3, BoundsApartNext, Zenon
<1> QED
  BY <1>19, <1>28, <1>29, <1>30, <1>31, Assemble, Zenon

-----------------------------------------------------------------------------
(* The peers *)

(* What a peer may answer. *)
Answers == {"none", "ok", "bad"}

(* What the answer a to message m makes of send s. *)
Told(m, a, s) == IF s.w = m.w /\ s.to = m.to /\ s.leg = m.leg THEN [s EXCEPT !.answer = a] ELSE s

(* It fills in the answer, of a send the message is about. *)
Fills(m, a, s, u) ==
    /\ u \in Send /\ u.w = s.w /\ u.to = s.to /\ u.strong = s.strong /\ u.leg = s.leg
    /\ u = s \/ (u.answer = a /\ s.w = m.w /\ s.to = m.to)

(* Nothing else of the send changes. *)
LEMMA ToldFacts ==
    ASSUME NEW m, NEW a \in Answers, NEW s \in Send
    PROVE  Fills(m, a, s, Told(m, a, s))
<1>0. PICK u : u = Told(m, a, s)
  BY Zenon
<1>1. CASE s.w = m.w /\ s.to = m.to /\ s.leg = m.leg
  <2>1. u = [s EXCEPT !.answer = a]
    BY <1>0, <1>1, Zenon DEF Told
  <2> QED
    BY <1>0, <1>1, <2>1, SMTT(30) DEF Send, Answers, Fills
<1>2. CASE ~(s.w = m.w /\ s.to = m.to /\ s.leg = m.leg)
  <2>1. u = s
    BY <1>0, <1>2, Zenon DEF Told
  <2> QED
    BY <1>0, <2>1, Zenon DEF Fills
<1> QED
  BY <1>1, <1>2, Zenon

(* The threads wait where they waited. *)
LEMMA ThreadsTold ==
    ASSUME ReplicationTypeOK, Settled, IsFiniteSet(sends), NEW m, NEW a \in Answers,
           sends' = {Told(m, a, s) : s \in sends}, sends' \subseteq Send,
           AckThreads \in Nat, Workers \in Nat, NEW n \in Node, ThreadBound(n)
    PROVE  ThreadBound(n)'
<1>1. /\ StrongAt(n)' = {t \in sends' : t.strong /\ req[t.w].node = n}
      /\ AsyncAt(n)' = {t \in sends' : ~t.strong /\ req[t.w].node = n}
  BY ThreadsOf, Zenon
<1>2. /\ IsFiniteSet(StrongAt(n)) /\ IsFiniteSet(AsyncAt(n))
  <2>1. StrongAt(n) \subseteq sends /\ AsyncAt(n) \subseteq sends
    BY Zenon DEF StrongAt, AsyncAt
  <2> QED
    BY <2>1, FS_Subset, Zenon
<1>3. sends \subseteq Send
  BY Types
<1>4. ASSUME NEW s \in sends PROVE Told(m, a, s).w = s.w /\ Told(m, a, s).strong = s.strong
  <2>1. PICK u : u = Told(m, a, s)
    BY Zenon
  <2>2. s \in Send
    BY <1>3, Zenon
  <2>3. Fills(m, a, s, u)
    BY <2>1, <2>2, ToldFacts, Zenon
  <2> QED
    BY <2>1, <2>3, Zenon DEF Fills
<1>5. StrongAt(n)' = {Told(m, a, s) : s \in StrongAt(n)}
  <2>1. ASSUME NEW u, u \in StrongAt(n)' PROVE \E s \in StrongAt(n) : u = Told(m, a, s)
    <3>1. PICK s \in sends : u = Told(m, a, s)
      BY <1>1, <2>1, Zenon
    <3>2. s \in StrongAt(n)
      BY <1>1, <1>4, <2>1, <3>1, Zenon DEF StrongAt
    <3> QED
      BY <3>1, <3>2, Zenon
  <2>2. ASSUME NEW s \in StrongAt(n) PROVE Told(m, a, s) \in StrongAt(n)'
    <3>1. s \in sends /\ s.strong /\ req[s.w].node = n
      BY Zenon DEF StrongAt
    <3>2. Told(m, a, s) \in sends'
      BY <3>1, Zenon
    <3> QED
      BY <1>1, <1>4, <3>1, <3>2, Zenon
  <2> QED
    BY <2>1, <2>2, Zenon
<1>6. AsyncAt(n)' = {Told(m, a, s) : s \in AsyncAt(n)}
  <2>1. ASSUME NEW u, u \in AsyncAt(n)' PROVE \E s \in AsyncAt(n) : u = Told(m, a, s)
    <3>1. PICK s \in sends : u = Told(m, a, s)
      BY <1>1, <2>1, Zenon
    <3>2. s \in AsyncAt(n)
      BY <1>1, <1>4, <2>1, <3>1, Zenon DEF AsyncAt
    <3> QED
      BY <3>1, <3>2, Zenon
  <2>2. ASSUME NEW s \in AsyncAt(n) PROVE Told(m, a, s) \in AsyncAt(n)'
    <3>1. s \in sends /\ ~s.strong /\ req[s.w].node = n
      BY Zenon DEF AsyncAt
    <3>2. Told(m, a, s) \in sends'
      BY <3>1, Zenon
    <3> QED
      BY <1>1, <1>4, <3>1, <3>2, Zenon
  <2> QED
    BY <2>1, <2>2, Zenon
<1>7. ASSUME NEW S, IsFiniteSet(S)
      PROVE  /\ IsFiniteSet({Told(m, a, s) : s \in S}) /\ Cardinality({Told(m, a, s) : s \in S}) <= Cardinality(S)
             /\ Cardinality(S) \in Nat /\ Cardinality({Told(m, a, s) : s \in S}) \in Nat
  <2>1. PICK T : T = {Told(m, a, s) : s \in S}
    BY Zenon
  <2>2. PICK f : f = [s \in S |-> Told(m, a, s)]
    BY Zenon
  <2>3. f \in Surjection(S, T)
    <3>1. f \in [S -> T] /\ \A s \in S : f[s] = Told(m, a, s)
      BY <2>1, <2>2, Zenon
    <3>2. \A u \in T : \E s \in S : f[s] = u
      BY <2>1, <3>1, Zenon
    <3> QED
      BY <3>1, <3>2, Zenon DEF Surjection
  <2>4. IsFiniteSet(T) /\ Cardinality(T) <= Cardinality(S)
    BY <1>7, <2>3, FS_Surjection, Zenon
  <2> QED
    BY <1>7, <2>1, <2>4, FS_CardinalityType, Zenon
<1>8. Cardinality(StrongAt(n)) <= AckThreads /\ Cardinality(AsyncAt(n)) <= Workers
  BY Zenon DEF ThreadBound
<1>9. Cardinality(StrongAt(n)') <= AckThreads
  <2>1. /\ Cardinality(StrongAt(n)') <= Cardinality(StrongAt(n))
        /\ Cardinality(StrongAt(n)) \in Nat /\ Cardinality(StrongAt(n)') \in Nat
    BY <1>2, <1>5, <1>7, Zenon
  <2> QED
    BY <1>8, <2>1
<1>10. Cardinality(AsyncAt(n)') <= Workers
  <2>1. /\ Cardinality(AsyncAt(n)') <= Cardinality(AsyncAt(n))
        /\ Cardinality(AsyncAt(n)) \in Nat /\ Cardinality(AsyncAt(n)') \in Nat
    BY <1>2, <1>6, <1>7, Zenon
  <2> QED
    BY <1>8, <2>1
<1> QED
  BY <1>9, <1>10, Zenon DEF ThreadBound

(* A peer answers a message: it may have stored the write, and an OK says  *)
(* that it did.                                                            *)
LEMMA PeerKeeps ==
    ASSUME ReplicationConstants, RInv, NEW m \in wire, NEW a \in Answers,
           wire' = wire \ {m}, sends' = Answered(m, a),
           UNCHANGED <<views, polls, phases, req, queue>>, held' \in [Node -> SUBSET Write],
           \A n \in Node : held[n] \subseteq held'[n],
           \A n \in Node : \A v \in Write : v \in held'[n] => v \in held[n] \/ (v = m.w /\ n = m.to),
           a = "ok" => m.w \in held'[m.to]
    PROVE  RInv'
<1>1. ReplicationTypeOK /\ Bounded /\ IsFiniteSet(sends)
  BY Zenon DEF RInv
<1>2. m \in Message /\ sends \subseteq Send /\ wire \subseteq Message
  BY <1>1, Types, Zenon
<1>3. PICK w \in Write : w = m.w
  BY <1>2 DEF Message
<1>4. m.to \in Node
  BY <1>2 DEF Message
<1>5. /\ Stage(w) /\ Counts(w) /\ SendsOf(w) /\ WireOf(w) /\ QueueOf(w) /\ InPlan(w)
  BY Zenon DEF RInv, PerWrite
<1>6. m.to \in Range(req[w].targets) /\ ~Nowhere(w)
  BY <1>3, <1>5, Zenon DEF WireOf, Nowhere
<1>7. sends' = {Told(m, a, s) : s \in sends}
  BY Zenon DEF Answered, Told
<1>8. ASSUME NEW u \in sends'
      PROVE  \E s \in sends :
                /\ s \in Send /\ u \in Send /\ u.w = s.w /\ u.to = s.to /\ u.strong = s.strong /\ u.leg = s.leg
                /\ u = s \/ (u.answer = a /\ s.w = w /\ s.to = m.to)
                /\ u = Told(m, a, s)
  <2>1. PICK s \in sends : u = Told(m, a, s)
    BY <1>7, Zenon
  <2>2. s \in Send
    BY <1>2, Zenon
  <2>3. Fills(m, a, s, u)
    BY <2>1, <2>2, ToldFacts, Zenon
  <2> QED
    BY <1>3, <2>1, <2>2, <2>3, Zenon DEF Fills
<1>9. sends' \subseteq Send
  BY <1>8, Zenon
<1>10. ASSUME NEW v \in Write, v # w PROVE Untouched(v)
  <2>1. ASSUME NEW u, u.w = v, u \in sends' PROVE u \in sends
    BY <1>8, <1>10, <2>1, Zenon
  <2>2. ASSUME NEW u, u.w = v, u \in sends PROVE u \in sends'
    <3>1. Told(m, a, u) = u
      BY <1>3, <1>10, <2>2, Zenon DEF Told
    <3> QED
      BY <1>7, <2>2, <3>1, Zenon
  <2>3. \A n \in Node : v \in held'[n] <=> v \in held[n]
    BY <1>3, <1>10, Zenon
  <2> QED
    BY <2>1, <2>2, <2>3, Zenon DEF Untouched
<1>11. Progressed(w, req[w].left, req[w].completed, req[w].acked)
  BY <1>1, NoProgress, Zenon
<1>12. Stage(w)'
  BY <1>5, <1>6, <1>11, InFlight, ProgressStage, Zenon
<1>13. Sent(w)' = Sent(w)
  <2>1. ASSUME NEW u \in sends', u.w = w PROVE u.to \in Sent(w)
    BY <1>8, <2>1, Zenon DEF Sent
  <2>2. ASSUME NEW s \in sends, s.w = w PROVE s.to \in Sent(w)'
    <3>1. PICK u : u = Told(m, a, s)
      BY Zenon
    <3>2. s \in Send
      BY <1>2, Zenon
    <3>3. u \in sends' /\ Fills(m, a, s, u)
      BY <1>7, <3>1, <3>2, ToldFacts, Zenon
    <3>4. u.w = s.w /\ u.to = s.to
      BY <3>3, Zenon DEF Fills
    <3> QED
      BY <2>2, <3>3, <3>4, Zenon DEF Sent
  <2> QED
    BY <2>1, <2>2, Zenon DEF Sent
<1>14. Counts(w)'
  BY <1>1, <1>5, <1>11, <1>13, CountsStay, Zenon
<1>15. SendsOf(w)'
  <2>1. ASSUME NEW u \in sends', u.w = w
        PROVE  /\ u.to \in Range(req[w].targets) /\ (u.strong <=> req[w].need > 0)
               /\ u.answer = "ok" => w \in held'[u.to]
               /\ u.strong => u.leg = "grpc" /\ u.to \notin Range(req[w].left)
    <3>1. PICK s \in sends :
              /\ s \in Send /\ u.w = s.w /\ u.to = s.to /\ u.strong = s.strong /\ u.leg = s.leg
              /\ u = s \/ (u.answer = a /\ s.w = w /\ s.to = m.to)
      BY <1>8, Zenon
    <3>2. /\ s.to \in Range(req[w].targets) /\ (s.strong <=> req[w].need > 0)
          /\ s.answer = "ok" => w \in held[s.to]
          /\ s.strong => s.leg = "grpc" /\ s.to \notin Range(req[w].left)
      BY <1>5, <2>1, <3>1, Zenon DEF SendsOf
    <3>3. s.to \in Node
      BY <3>1 DEF Send
    <3>4. u.answer = "ok" => w \in held'[u.to]
      BY <1>3, <3>1, <3>2, <3>3, Zenon
    <3> QED
      BY <3>1, <3>2, <3>4, Zenon
  <2>2. ASSUME NEW t \in sends', NEW u \in sends', t.w = w, u.w = w, t.strong, u.strong, t.to = u.to
        PROVE  t = u
    <3>1. PICK s1 \in sends : t.w = s1.w /\ t.to = s1.to /\ t.strong = s1.strong /\ t = Told(m, a, s1)
      BY <1>8, Zenon
    <3>2. PICK s2 \in sends : u.w = s2.w /\ u.to = s2.to /\ u.strong = s2.strong /\ u = Told(m, a, s2)
      BY <1>8, Zenon
    <3>3. s1 = s2
      BY <1>5, <2>2, <3>1, <3>2, Zenon DEF SendsOf
    <3> QED
      BY <3>1, <3>2, <3>3, Zenon
  <2> QED
    BY <2>1, <2>2, Zenon DEF SendsOf
<1>16. WireOf(w)' /\ QueueOf(w)'
  BY <1>5, Zenon DEF WireOf, QueueOf
<1>17. InPlan(w)'
  BY <1>3, <1>5, <1>6, Zenon DEF InPlan
<1>18. PerWrite(w)'
  BY <1>12, <1>14, <1>15, <1>16, <1>17, Zenon DEF PerWrite
<1>19. ReplicationTypeOK'
  <2>1. wire' \subseteq Message /\ queue' \in [Node -> Seq(Task)] /\ req[w].acked <= req[w].completed
    BY <1>1, <1>2, Types, Zenon
  <2> QED
    BY <1>1, <1>9, <1>11, <2>1, ProgressTypes, Zenon
<1>20. IsFiniteSet(sends')
  <2>1. PICK f : f = [s \in sends |-> Told(m, a, s)]
    BY Zenon
  <2>2. f \in [sends -> sends'] /\ \A u \in sends' : \E s \in sends : f[s] = u
    BY <1>7, <2>1, Zenon
  <2>3. f \in Surjection(sends, sends')
    BY <2>2, Zenon DEF Surjection
  <2> QED
    BY <1>1, <2>3, FS_Surjection, Zenon
<1>21. Bounded'
  <2>1. Settled
    BY <1>11, ProgressSettled, Zenon
  <2>2. AckThreads \in Nat /\ Workers \in Nat
    BY Limits, Zenon
  <2>3. ASSUME NEW n \in Node PROVE QueueBound(n)' /\ ThreadBound(n)'
    <3>1. QueueBound(n) /\ ThreadBound(n)
      BY <1>1, BoundsApart, Zenon
    <3>2. QueueBound(n)'
      BY <1>1, <2>1, <3>1, QueueSame, Zenon
    <3>3. ThreadBound(n)'
      BY <1>1, <1>7, <1>9, <2>1, <2>2, <3>1, ThreadsTold, Zenon
    <3> QED
      BY <3>2, <3>3
  <2> QED
    BY <2>3, BoundsApartNext, Zenon
<1> QED
  BY <1>10, <1>18, <1>19, <1>20, <1>21, Assemble, Zenon

(* PeerPut. *)
LEMMA PeerPutKeeps ==
    ASSUME ReplicationConstants, RInv, NEW m \in wire, PeerPut(m)
    PROVE  RInv'
<1>1. m \in Message /\ held \in [Node -> SUBSET Write]
  BY Types, Zenon DEF RInv
<1>2. m.w \in Write /\ m.to \in Node
  BY <1>1 DEF Message
<1>3. held' = [held EXCEPT ![m.to] = @ \cup {m.w}]
  BY Zenon DEF PeerPut, StoreWrite
<1>4. /\ held' \in [Node -> SUBSET Write] /\ m.w \in held'[m.to]
      /\ \A n \in Node : held[n] \subseteq held'[n]
      /\ \A n \in Node : \A v \in Write : v \in held'[n] => v \in held[n] \/ (v = m.w /\ n = m.to)
  BY <1>1, <1>2, <1>3, SMTT(30)
<1>5. wire' = wire \ {m} /\ sends' = Answered(m, "ok") /\ UNCHANGED <<views, polls, phases, req, queue>>
  BY Zenon DEF PeerPut
<1>6. "ok" \in Answers
  BY DEF Answers
<1> QED
  BY <1>4, <1>5, <1>6, PeerKeeps, Zenon

(* PeerFails. *)
LEMMA PeerFailsKeeps ==
    ASSUME ReplicationConstants, RInv, NEW m \in wire, PeerFails(m)
    PROVE  RInv'
<1>1. held \in [Node -> SUBSET Write]
  BY Types, Zenon DEF RInv
<1>2. wire' = wire \ {m} /\ sends' = Answered(m, "bad") /\ UNCHANGED <<views, polls, phases, req, queue>>
  BY Zenon DEF PeerFails
<1>3. held' = held
  BY Zenon DEF PeerFails
<1>4. /\ held' \in [Node -> SUBSET Write]
      /\ \A n \in Node : held[n] \subseteq held'[n]
      /\ \A n \in Node : \A v \in Write : v \in held'[n] => v \in held[n]
  BY <1>1, <1>3, Zenon
<1>5. "bad" \in Answers /\ "bad" # "ok"
  BY DEF Answers
<1> QED
  BY <1>2, <1>4, <1>5, PeerKeeps, Zenon

-----------------------------------------------------------------------------
(* The end of a forward *)

(* Threads that ended. *)
LEMMA ThreadsEnd ==
    ASSUME ReplicationTypeOK, Settled, IsFiniteSet(sends), sends' \subseteq sends,
           AckThreads \in Nat, Workers \in Nat, NEW n \in Node, ThreadBound(n)
    PROVE  ThreadBound(n)'
<1>1. sends' \subseteq Send
  BY Types, Zenon
<1>2. StrongAt(n)' \subseteq StrongAt(n) /\ AsyncAt(n)' \subseteq AsyncAt(n)
  <2>1. /\ StrongAt(n)' = {t \in sends' : t.strong /\ req[t.w].node = n}
        /\ AsyncAt(n)' = {t \in sends' : ~t.strong /\ req[t.w].node = n}
    BY <1>1, ThreadsOf, Zenon
  <2> QED
    BY <2>1, Zenon DEF StrongAt, AsyncAt
<1>3. IsFiniteSet(StrongAt(n)) /\ IsFiniteSet(AsyncAt(n))
  <2>1. StrongAt(n) \subseteq sends /\ AsyncAt(n) \subseteq sends
    BY Zenon DEF StrongAt, AsyncAt
  <2> QED
    BY <2>1, FS_Subset, Zenon
<1>4. /\ IsFiniteSet(StrongAt(n)') /\ Cardinality(StrongAt(n)') <= Cardinality(StrongAt(n))
      /\ IsFiniteSet(AsyncAt(n)') /\ Cardinality(AsyncAt(n)') <= Cardinality(AsyncAt(n))
  BY <1>2, <1>3, FS_Subset, Zenon
<1>5. /\ Cardinality(StrongAt(n)) \in Nat /\ Cardinality(StrongAt(n)') \in Nat
      /\ Cardinality(AsyncAt(n)) \in Nat /\ Cardinality(AsyncAt(n)') \in Nat
  BY <1>3, <1>4, FS_CardinalityType, Zenon
<1>6. Cardinality(StrongAt(n)) <= AckThreads /\ Cardinality(AsyncAt(n)) <= Workers
  BY Zenon DEF ThreadBound
<1>7. Cardinality(StrongAt(n)') <= AckThreads /\ Cardinality(AsyncAt(n)') <= Workers
  BY <1>4, <1>5, <1>6, SMTT(30)
<1> QED
  BY <1>7, Zenon DEF ThreadBound

(* A forward ends: what is to be shown of it is the counters of its write. *)
LEMMA EndKeeps ==
    ASSUME ReplicationConstants, RInv, NEW s \in sends, NEW w \in Write, w = s.w,
           NEW c, NEW a, Progressed(w, req[w].left, c, a), a <= c, Counts(w)',
           sends' = sends \ {s}, UNCHANGED <<views, polls, phases, held, queue, wire>>
    PROVE  RInv'
<1>1. ReplicationTypeOK /\ Bounded /\ IsFiniteSet(sends)
  BY Zenon DEF RInv
<1>2. /\ Stage(w) /\ SendsOf(w) /\ WireOf(w) /\ QueueOf(w) /\ InPlan(w)
  BY Zenon DEF RInv, PerWrite
<1>3. \A n \in Node : held[n] \subseteq held'[n]
  BY Zenon
<1>4. ASSUME NEW v \in Write, v # w PROVE Untouched(v)
  <2>1. req'[v] = req[v]
    BY <1>4, Zenon DEF Progressed
  <2>2. \A t : t.w = v => (t \in sends' <=> t \in sends)
    BY <1>4, Zenon
  <2> QED
    BY <2>1, <2>2, Zenon DEF Untouched
<1>5. ~Nowhere(w)
  BY Zenon DEF Nowhere
<1>6. Stage(w)'
  BY <1>2, <1>3, <1>5, InFlight, ProgressStage, Zenon
<1>7. /\ req'[w].left = req[w].left /\ req'[w].targets = req[w].targets
      /\ req'[w].node = req[w].node /\ req'[w].need = req[w].need
  BY Zenon DEF Progressed
<1>8. sends' \subseteq sends
  BY Zenon
<1>9. SendsOf(w)'
  BY <1>2, <1>7, <1>8, Zenon DEF SendsOf
<1>10. WireOf(w)' /\ QueueOf(w)' /\ InPlan(w)'
  BY <1>2, <1>7, Zenon DEF WireOf, QueueOf, InPlan
<1>11. PerWrite(w)'
  BY <1>6, <1>9, <1>10, Zenon DEF PerWrite
<1>12. ReplicationTypeOK'
  <2>1. /\ held' \in [Node -> SUBSET Write] /\ queue' \in [Node -> Seq(Task)]
        /\ sends' \subseteq Send /\ wire' \subseteq Message
    BY <1>1, <1>8, Types, Zenon
  <2> QED
    BY <1>1, <2>1, ProgressTypes, Zenon
<1>13. IsFiniteSet(sends')
  BY <1>1, <1>8, FS_Subset, Zenon
<1>14. Bounded'
  <2>1. Settled
    BY ProgressSettled, Zenon
  <2>2. AckThreads \in Nat /\ Workers \in Nat
    BY Limits, Zenon
  <2>3. ASSUME NEW n \in Node PROVE QueueBound(n)' /\ ThreadBound(n)'
    <3>1. QueueBound(n) /\ ThreadBound(n)
      BY <1>1, BoundsApart, Zenon
    <3>2. QueueBound(n)'
      BY <1>1, <2>1, <3>1, QueueSame, Zenon
    <3>3. ThreadBound(n)'
      BY <1>1, <1>8, <2>1, <2>2, <3>1, ThreadsEnd, Zenon
    <3> QED
      BY <3>2, <3>3
  <2> QED
    BY <2>3, BoundsApartNext, Zenon
<1> QED
  BY <1>4, <1>11, <1>12, <1>13, <1>14, Assemble, Zenon

(* A finite set without one of its elements. *)
LEMMA OneLess ==
    ASSUME NEW S, IsFiniteSet(S), NEW x \in S
    PROVE  Cardinality(S \ {x}) = Cardinality(S) - 1
BY FS_RemoveElement

(* Both sides of a count go up by one, or only the larger may. *)
LEMMA OneMore ==
    ASSUME NEW x \in Nat, NEW y \in Nat, NEW z \in Nat, NEW u, x <= y, u = y + 1, u <= z
    PROVE  x + 1 <= z
OBVIOUS

(* The larger side alone. *)
LEMMA NoMore ==
    ASSUME NEW x \in Nat, NEW y \in Nat, NEW z \in Nat, x <= y, y <= z
    PROVE  x + 0 <= z
OBVIOUS

(* The count of the ended stays ahead of the count of the acked. *)
LEMMA StaysAhead ==
    ASSUME NEW x \in Nat, NEW y \in Nat, y <= x
    PROVE  y + 1 <= x + 1 /\ y + 0 <= x + 1
OBVIOUS

(* The counters of a strong write when one of its forwards ends: the       *)
(* replica is over, and acked only if it stored the write.                 *)
LEMMA EndCounts ==
    ASSUME RInv, NEW s \in sends, NEW w \in Write, w = s.w, s.strong, NEW ok \in BOOLEAN,
           ok => s.answer = "ok", NEW c, NEW a, c = req[w].completed + 1,
           a = req[w].acked + (IF ok THEN 1 ELSE 0),
           Progressed(w, req[w].left, c, a), sends' = sends \ {s}, held' = held
    PROVE  Counts(w)' /\ a <= c
<1>1. /\ ReplicationTypeOK /\ Stage(w) /\ Counts(w) /\ SendsOf(w)
  BY Zenon DEF RInv, PerWrite
<1>2. /\ req[w].completed \in Nat /\ req[w].acked \in Nat /\ req[w].acked <= req[w].completed
      /\ req[w].left \in Seq(Node) /\ s \in Send
  BY <1>1, Types, HandlerFacts, SMTT(30)
<1>3. a <= c
  <2>1. PICK x \in Nat, y \in Nat : x = req[w].completed /\ y = req[w].acked
    BY <1>2, Zenon
  <2>2. c = x + 1 /\ y <= x
    BY <1>2, <2>1, Zenon
  <2>3. CASE ok
    <3>1. a = y + 1
      BY <2>1, <2>3, Zenon
    <3> QED
      BY <2>2, <3>1, StaysAhead, Zenon
  <2>4. CASE ~ok
    <3>1. a = y + 0
      BY <2>1, <2>4, Zenon
    <3> QED
      BY <2>2, <3>1, StaysAhead, Zenon
  <2> QED
    BY <2>3, <2>4, Zenon
<1>4. \A n \in Node : held[n] \subseteq held'[n]
  BY Zenon
<1>5. /\ req[w].need > 0 /\ s.to \in Range(req[w].targets) /\ s.to \notin Range(req[w].left)
      /\ s.answer = "ok" => w \in held[s.to]
  BY <1>1, Zenon DEF SendsOf
<1>6. \A t \in sends : t.w = w /\ t.to = s.to => t = s
  BY <1>1, <1>5, Zenon DEF SendsOf
<1>7. Sent(w)' = Sent(w) \ {s.to} /\ s.to \in Sent(w)
  <2>1. ASSUME NEW t \in sends', t.w = w PROVE t.to \in Sent(w) \ {s.to}
    <3>1. t \in sends /\ t # s
      BY Zenon
    <3> QED
      BY <1>6, <2>1, <3>1, Zenon DEF Sent
  <2>2. ASSUME NEW t \in sends, t.w = w, t.to # s.to PROVE t.to \in Sent(w)'
    <3>1. t \in sends'
      BY <2>2, Zenon
    <3> QED
      BY <2>2, <3>1, Zenon DEF Sent
  <2>3. s.to \in Sent(w)
    BY Zenon DEF Sent
  <2>4. Sent(w)' \subseteq Sent(w) \ {s.to}
    BY <2>1, Zenon DEF Sent
  <2>5. Sent(w) \ {s.to} \subseteq Sent(w)'
    <3>1. ASSUME NEW n \in Sent(w), n # s.to PROVE n \in Sent(w)'
      <4>1. PICK t \in sends : t.w = w /\ t.to = n
        BY Zenon DEF Sent
      <4> QED
        BY <2>2, <3>1, <4>1, Zenon
    <3> QED
      BY <3>1, Zenon
  <2> QED
    BY <2>3, <2>4, <2>5, Zenon
<1>8. req'[w].left = req[w].left /\ req'[w].targets = req[w].targets
  BY Zenon DEF Progressed
<1>9. /\ Over(w) \subseteq Over(w)' /\ IsFiniteSet(Over(w)) /\ IsFiniteSet(Over(w)')
      /\ Cardinality(Over(w)) \in Nat /\ Cardinality(Over(w)') \in Nat
      /\ Cardinality(Over(w)) <= Cardinality(Over(w)')
  <2>1. Sent(w)' \cup Range(req'[w].left) \subseteq Sent(w) \cup Range(req[w].left)
    BY <1>7, <1>8, Zenon
  <2> QED
    BY <1>1, <1>4, <1>8, <2>1, OverGrows, Zenon
<1>10. req[w].acked <= Cardinality(Over(w))
  BY <1>1, <1>5, Zenon DEF Counts
<1>11. a <= Cardinality(Over(w)')
  <2>1. CASE ok
    <3>1. s.to \in Over(w)' /\ s.to \notin Over(w)
      <4>1. s.to \in Replicas(w)'
        BY <1>5, <1>8, <2>1, Zenon DEF Replicas
      <4> QED
        BY <1>5, <1>7, <1>8, <4>1, Zenon DEF Over
    <3>2. Over(w) \cup {s.to} \subseteq Over(w)'
      BY <1>9, <3>1, Zenon
    <3>3. Cardinality(Over(w) \cup {s.to}) = Cardinality(Over(w)) + 1
      BY <1>9, <3>1, FS_AddElement, Zenon
    <3>4. Cardinality(Over(w) \cup {s.to}) <= Cardinality(Over(w)')
      BY <1>9, <3>2, FS_Subset, Zenon
    <3>5. a = req[w].acked + 1
      BY <2>1, Zenon
    <3> QED
      BY <1>2, <1>9, <1>10, <3>3, <3>4, <3>5, OneMore, Zenon
  <2>2. CASE ~ok
    <3>1. a = req[w].acked + 0
      BY <2>2, Zenon
    <3>2. req[w].acked + 0 <= Cardinality(Over(w)')
      BY <1>2, <1>9, <1>10, NoMore
    <3> QED
      BY <3>1, <3>2, Zenon
  <2> QED
    BY <2>1, <2>2, Zenon
<1>12. Cardinality(Sent(w)) \in Nat /\ Cardinality(Sent(w)') = Cardinality(Sent(w)) - 1
  <2>1. IsFiniteSet(Sent(w)) /\ Cardinality(Sent(w)) \in Nat
    BY <1>1, SentFacts, Zenon
  <2> QED
    BY <1>7, <2>1, OneLess, Zenon
<1>13. req[w].status # "invalid"
  <2>1. ~Nowhere(w)
    BY Zenon DEF Nowhere
  <2>2. req[w].status \notin {"invalid", "engine"}
    BY <1>1, <2>1, Zenon DEF Stage
  <2> QED
    BY <2>2, Zenon
<1>14. Len(req[w].targets) = Len(req[w].left) + c + Cardinality(Sent(w)')
  <2>1. Len(req[w].targets) = Len(req[w].left) + req[w].completed + Cardinality(Sent(w))
    BY <1>1, <1>5, <1>13, Zenon DEF Counts
  <2>2. Len(req[w].left) \in Nat
    BY <1>2
  <2>3. PICK x \in Nat, y \in Nat, z \in Nat :
           x = Len(req[w].left) /\ y = req[w].completed /\ z = Cardinality(Sent(w))
    BY <1>2, <1>12, <2>2, Zenon
  <2>4. x + y + z = x + (y + 1) + (z - 1)
    BY Regroup, Zenon
  <2>5. Len(req[w].targets) = x + y + z
    BY <2>1, <2>3, Zenon
  <2>6. c = y + 1 /\ Cardinality(Sent(w)') = z - 1
    BY <1>12, <2>3, Zenon
  <2>7. x + (y + 1) + (z - 1) = Len(req[w].left) + c + Cardinality(Sent(w)')
    BY <2>3, <2>6, Zenon
  <2> QED
    BY <2>4, <2>5, <2>7, Zenon
<1>15. IsInjective(req[w].left) /\ Range(req[w].left) \subseteq Range(req[w].targets)
  BY <1>1, Zenon DEF Counts
<1> QED
  BY <1>1, <1>3, <1>4, <1>5, <1>11, <1>13, <1>14, <1>15, StrongCounts, ZenonT(40)

(* EndSend. *)
LEMMA EndSendKeeps ==
    ASSUME ReplicationConstants, RInv, NEW s \in sends, NEW ok \in BOOLEAN, ok => s.answer = "ok",
           EndSend(s, ok), UNCHANGED <<views, polls, phases, held, queue>>
    PROVE  RInv'
<1>1. ReplicationTypeOK
  BY Zenon DEF RInv
<1>2. s \in Send
  BY <1>1, Types, Zenon
<1>3. PICK w \in Write : w = s.w
  BY <1>2 DEF Send
<1>4. /\ Counts(w) /\ SendsOf(w)
  BY Zenon DEF RInv, PerWrite
<1>5. /\ req[w].completed \in Nat /\ req[w].acked \in Nat /\ req[w].acked <= req[w].completed
      /\ req[w].left \in Seq(Node) /\ req[w].need \in Nat
      /\ req \in [Write -> Handler] /\ req[w] \in Handler
  BY <1>1, Types, HandlerFacts, SMTT(30)
<1>6. sends' = sends \ {s} /\ wire' = wire
  BY Zenon DEF EndSend
<1>7. CASE s.strong
  <2>1. PICK c : c = req[w].completed + 1
    BY Zenon
  <2>2. PICK a : a = req[w].acked + (IF ok THEN 1 ELSE 0)
    BY Zenon
  <2>3. c \in Nat /\ a \in Nat
    BY <1>5, <2>1, <2>2
  <2>4. Progressed(w, req[w].left, c, a)
    <3>1. PICK r : r = Completed(w, ok)
      BY Zenon
    <3>2. r = [req[w] EXCEPT !.completed = c, !.acked = a]
      BY <2>1, <2>2, <3>1, Zenon DEF Completed
    <3>3. r = [req[w] EXCEPT !.left = req[w].left, !.completed = c, !.acked = a]
      BY <1>5, <3>2, Zenon DEF Handler
    <3>4. req' = [req EXCEPT ![w] = r]
      BY <1>3, <1>7, <3>1, Zenon DEF EndSend
    <3> QED
      BY <1>1, <1>5, <2>3, <3>3, <3>4, Progresses, Zenon
  <2>5. Counts(w)' /\ a <= c
    BY <1>3, <1>6, <1>7, <2>1, <2>2, <2>4, EndCounts, Zenon
  <2> QED
    BY <1>3, <1>6, <2>4, <2>5, EndKeeps, Zenon
<1>8. CASE ~s.strong
  <2>1. req' = req
    BY <1>8, Zenon DEF EndSend
  <2>2. Progressed(w, req[w].left, req[w].completed, req[w].acked)
    BY <1>1, <2>1, NoProgress, Zenon
  <2>3. ~(req[w].need > 0)
    BY <1>3, <1>4, <1>8, Zenon DEF SendsOf
  <2>4. req[w].need = 0
    BY <1>5, <2>3
  <2>5. \A n \in Node : held[n] \subseteq held'[n]
    BY Zenon
  <2>6. IsInjective(req[w].left) /\ Range(req[w].left) \subseteq Range(req[w].targets)
    BY <1>4, Zenon DEF Counts
  <2>7. Counts(w)'
    BY <1>1, <1>4, <2>2, <2>4, <2>5, <2>6, AsyncCounts, Zenon
  <2> QED
    BY <1>3, <1>5, <1>6, <2>2, <2>7, EndKeeps, Zenon
<1> QED
  BY <1>7, <1>8, Zenon

(* A thread that goes on with another request. *)
LEMMA ThreadGoesOn ==
    ASSUME ReplicationTypeOK, Settled, IsFiniteSet(sends), NEW s \in sends, NEW u \in Send, u.w = s.w,
           ~s.strong, ~u.strong, sends' = (sends \ {s}) \cup {u},
           AckThreads \in Nat, Workers \in Nat, NEW n \in Node, ThreadBound(n)
    PROVE  ThreadBound(n)'
<1>1. sends' \subseteq Send
  BY Types, Zenon
<1>2. /\ StrongAt(n)' = {t \in sends' : t.strong /\ req[t.w].node = n}
      /\ AsyncAt(n)' = {t \in sends' : ~t.strong /\ req[t.w].node = n}
  BY <1>1, ThreadsOf, Zenon
<1>3. StrongAt(n)' = StrongAt(n)
  <2>1. StrongAt(n)' \subseteq StrongAt(n)
    BY <1>2, Zenon DEF StrongAt
  <2>2. StrongAt(n) \subseteq StrongAt(n)'
    BY <1>2, Zenon DEF StrongAt
  <2> QED
    BY <2>1, <2>2, Zenon
<1>4. Cardinality(StrongAt(n)) <= AckThreads /\ Cardinality(AsyncAt(n)) <= Workers
  BY Zenon DEF ThreadBound
<1>5. IsFiniteSet(AsyncAt(n)) /\ Cardinality(AsyncAt(n)) \in Nat
  <2>1. AsyncAt(n) \subseteq sends
    BY Zenon DEF AsyncAt
  <2> QED
    BY <2>1, FS_Subset, FS_CardinalityType, Zenon
<1>6. Cardinality(AsyncAt(n)') <= Workers
  <2>1. CASE req[s.w].node = n
    <3>1. PICK R : R = AsyncAt(n) \ {s}
      BY Zenon
    <3>2. s \in AsyncAt(n)
      BY <2>1, Zenon DEF AsyncAt
    <3>3. IsFiniteSet(R) /\ Cardinality(R) = Cardinality(AsyncAt(n)) - 1
      BY <1>5, <3>1, <3>2, OneLess, FS_RemoveElement, Zenon
    <3>4. AsyncAt(n)' \subseteq R \cup {u}
      BY <1>2, <3>1, Zenon DEF AsyncAt
    <3>5. IsFiniteSet(R \cup {u})
      BY <3>3, FS_AddElement, Zenon
    <3>6. Cardinality(R \cup {u}) = IF u \in R THEN Cardinality(R) ELSE Cardinality(R) + 1
      BY <3>3, FS_AddElement, Zenon
    <3>7. IsFiniteSet(AsyncAt(n)') /\ Cardinality(AsyncAt(n)') <= Cardinality(R \cup {u})
      BY <3>4, <3>5, FS_Subset, Zenon
    <3>8. Cardinality(AsyncAt(n)') \in Nat
      BY <3>7, FS_CardinalityType, Zenon
    <3> QED
      BY <1>4, <1>5, <3>3, <3>6, <3>7, <3>8, SMTT(30)
  <2>2. CASE req[s.w].node # n
    <3>1. AsyncAt(n)' \subseteq AsyncAt(n) /\ AsyncAt(n) \subseteq AsyncAt(n)'
      BY <1>2, <2>2, Zenon DEF AsyncAt
    <3>2. AsyncAt(n)' = AsyncAt(n)
      BY <3>1, Zenon
    <3> QED
      BY <1>4, <3>2, Zenon
  <2> QED
    BY <2>1, <2>2, Zenon
<1> QED
  BY <1>3, <1>4, <1>6, Zenon DEF ThreadBound

(* SendFails of a bulk transfer: the same thread tries gRPC. *)
LEMMA FallbackKeeps ==
    ASSUME ReplicationConstants, RInv, NEW s \in sends, s.leg = "bulk",
           sends' = (sends \ {s}) \cup {[s EXCEPT !.leg = "grpc", !.answer = "none"]},
           wire' = wire \cup {[w |-> s.w, to |-> s.to, leg |-> "grpc"]},
           UNCHANGED <<views, polls, phases, held, req, queue>>
    PROVE  RInv'
<1>1. ReplicationTypeOK /\ Bounded /\ IsFiniteSet(sends)
  BY Zenon DEF RInv
<1>2. s \in Send
  BY <1>1, Types, Zenon
<1>3. PICK w \in Write : w = s.w
  BY <1>2 DEF Send
<1>4. /\ Stage(w) /\ Counts(w) /\ SendsOf(w) /\ WireOf(w) /\ QueueOf(w) /\ InPlan(w)
  BY Zenon DEF RInv, PerWrite
<1>5. PICK u : u = [s EXCEPT !.leg = "grpc", !.answer = "none"]
  BY Zenon
<1>6. PICK m : m = [w |-> s.w, to |-> s.to, leg |-> "grpc"]
  BY Zenon
<1>7. /\ u \in Send /\ u.w = s.w /\ u.to = s.to /\ u.strong = s.strong /\ u.answer # "ok"
      /\ m \in Message /\ m.w = s.w /\ m.to = s.to
  BY <1>2, <1>5, <1>6, ZenonT(40) DEF Send, Message
<1>8. sends' = (sends \ {s}) \cup {u} /\ wire' = wire \cup {m}
  BY <1>5, <1>6, Zenon
<1>9. s.to \in Range(req[w].targets) /\ ~s.strong /\ ~u.strong /\ ~(req[w].need > 0)
  <2>1. s.leg # "grpc"
    OBVIOUS
  <2> QED
    BY <1>3, <1>4, <1>7, <2>1, Zenon DEF SendsOf
<1>10. req[w].need = 0
  BY <1>1, <1>9, Types, HandlerFacts, SMTT(30)
<1>11. ASSUME NEW v \in Write, v # w PROVE Untouched(v)
  <2>1. \A t : t.w = v => (t \in sends' <=> t \in sends)
    <3>1. \A t : t \in sends' <=> (t \in sends /\ t # s) \/ t = u
      BY <1>8, Zenon
    <3> QED
      BY <1>3, <1>7, <1>11, <3>1, Zenon
  <2>2. \A t : t.w = v /\ t \in wire' => t \in wire
    BY <1>3, <1>7, <1>8, <1>11, Zenon
  <2> QED
    BY <2>1, <2>2, Zenon DEF Untouched
<1>12. \A n \in Node : held[n] \subseteq held'[n]
  BY Zenon
<1>13. Progressed(w, req[w].left, req[w].completed, req[w].acked)
  BY <1>1, NoProgress, Zenon
<1>14. Stage(w)'
  <2>1. ~Nowhere(w)
    BY <1>3, Zenon DEF Nowhere
  <2> QED
    BY <1>4, <1>12, <1>13, <2>1, InFlight, ProgressStage, Zenon
<1>15. Counts(w)'
  <2>1. IsInjective(req[w].left) /\ Range(req[w].left) \subseteq Range(req[w].targets)
    BY <1>4, Zenon DEF Counts
  <2> QED
    BY <1>1, <1>4, <1>10, <1>12, <1>13, <2>1, AsyncCounts, Zenon
<1>16. SendsOf(w)'
  <2>1. ASSUME NEW t \in sends', t.w = w
        PROVE  t.to \in Range(req[w].targets) /\ ~t.strong /\ (t.answer = "ok" => w \in held[t.to])
    <3>1. CASE t = u
      BY <1>7, <1>9, <3>1, Zenon
    <3>2. CASE t \in sends
      BY <1>4, <1>9, <2>1, <3>2, Zenon DEF SendsOf
    <3> QED
      BY <1>8, <3>1, <3>2, Zenon
  <2> QED
    BY <1>9, <2>1, Zenon DEF SendsOf
<1>17. WireOf(w)'
  BY <1>4, <1>7, <1>8, <1>9, Zenon DEF WireOf
<1>18. QueueOf(w)' /\ InPlan(w)'
  BY <1>4, Zenon DEF QueueOf, InPlan
<1>19. PerWrite(w)'
  BY <1>14, <1>15, <1>16, <1>17, <1>18, Zenon DEF PerWrite
<1>20. ReplicationTypeOK'
  <2>1. /\ held' \in [Node -> SUBSET Write] /\ queue' \in [Node -> Seq(Task)]
        /\ req[w].acked <= req[w].completed
    BY <1>1, Types, Zenon
  <2>2. sends' \subseteq Send /\ wire' \subseteq Message
    BY <1>1, <1>7, <1>8, Types, Zenon
  <2> QED
    BY <1>1, <1>13, <2>1, <2>2, ProgressTypes, Zenon
<1>21. IsFiniteSet(sends')
  <2>1. IsFiniteSet(sends \ {s})
    BY <1>1, FS_RemoveElement, Zenon
  <2>2. PICK R : R = sends \ {s}
    BY Zenon
  <2>3. IsFiniteSet(R \cup {u})
    BY <2>1, <2>2, FS_AddElement, Zenon
  <2>4. sends' = R \cup {u}
    BY <1>8, <2>2, Zenon
  <2> QED
    BY <2>3, <2>4, Zenon
<1>22. Bounded'
  <2>1. Settled
    BY <1>13, ProgressSettled, Zenon
  <2>2. AckThreads \in Nat /\ Workers \in Nat
    BY Limits, Zenon
  <2>3. ASSUME NEW n \in Node PROVE QueueBound(n)' /\ ThreadBound(n)'
    <3>1. QueueBound(n) /\ ThreadBound(n)
      BY <1>1, BoundsApart, Zenon
    <3>2. QueueBound(n)'
      BY <1>1, <2>1, <3>1, QueueSame, Zenon
    <3>3. ThreadBound(n)'
      BY <1>1, <1>7, <1>8, <1>9, <2>1, <2>2, <3>1, ThreadGoesOn, Zenon
    <3> QED
      BY <3>2, <3>3
  <2> QED
    BY <2>3, BoundsApartNext, Zenon
<1> QED
  BY <1>11, <1>19, <1>20, <1>21, <1>22, Assemble, Zenon

(* SendReturns. *)
LEMMA SendReturnsKeeps ==
    ASSUME ReplicationConstants, RInv, NEW s \in sends, SendReturns(s)
    PROVE  RInv'
BY EndSendKeeps, Zenon DEF SendReturns

(* SendFails. *)
LEMMA SendFailsKeeps ==
    ASSUME ReplicationConstants, RInv, NEW s \in sends, SendFails(s)
    PROVE  RInv'
<1>1. UNCHANGED <<views, polls, phases, held, queue>>
  BY Zenon DEF SendFails
<1>2. CASE /\ s.leg = "bulk"
           /\ sends' = (sends \ {s}) \cup {[s EXCEPT !.leg = "grpc", !.answer = "none"]}
           /\ wire' = wire \cup {[w |-> s.w, to |-> s.to, leg |-> "grpc"]}
           /\ UNCHANGED req
  BY <1>1, <1>2, FallbackKeeps, Zenon
<1>3. CASE s.leg = "grpc" /\ EndSend(s, FALSE)
  BY <1>1, <1>3, EndSendKeeps, Zenon
<1> QED
  BY <1>2, <1>3, Zenon DEF SendFails

-----------------------------------------------------------------------------
(* The views and the stop of a node *)

(* Steps that concern no write. *)
LEMMA ElsewhereKeeps ==
    ASSUME RInv, UNCHANGED <<held, req, queue, sends, wire>>,
           views' \in [Node -> Views \cup {NoView}], polls' \in 0..MaxPolls,
           phases' \in [Node -> {"up", "closing", "draining", "acks", "down"}]
    PROVE  RInv'
<1>1. ReplicationTypeOK /\ Bounded /\ IsFiniteSet(sends) /\ \A v \in Write : PerWrite(v)
  BY Zenon DEF RInv
<1>2. ASSUME NEW v \in Write PROVE PerWrite(v)'
  <2>1. Untouched(v)
    BY Zenon DEF Untouched
  <2> QED
    BY <1>1, <2>1, UntouchedKeeps, Zenon
<1>3. ReplicationTypeOK'
  BY <1>1, Zenon DEF ReplicationTypeOK
<1>4. Bounded'
  <2>1. \A w \in Write : ~Nowhere(w) => req'[w].node = req[w].node /\ req'[w].big = req[w].big
    BY Zenon
  <2> QED
    BY <1>1, <2>1, BoundsSame, Zenon
<1> QED
  BY <1>1, <1>2, <1>3, <1>4, Zenon DEF RInv

(* Publish: another view concerns the requests to come only. *)
LEMMA PollKeeps ==
    ASSUME ReplicationConstants, RInv, NEW n \in Node, NEW v \in Views, Poll(n, v)
    PROVE  RInv'
<1>1. ReplicationTypeOK
  BY Zenon DEF RInv
<1>2. UNCHANGED <<held, req, queue, sends, wire>> /\ phases' = phases
  BY Zenon DEF Poll
<1>3. views' \in [Node -> Views \cup {NoView}]
  BY <1>1, Types, SMTT(30) DEF Poll
<1>4. polls' \in 0..MaxPolls
  BY <1>1, Types, SMTT(30) DEF Poll, ReplicationConstants
<1>5. phases' \in [Node -> {"up", "closing", "draining", "acks", "down"}]
  BY <1>1, <1>2, Types, Zenon
<1> QED
  BY <1>2, <1>3, <1>4, <1>5, ElsewhereKeeps, Zenon

(* main after the signal. *)
LEMMA StopKeeps ==
    ASSUME RInv, NEW n \in Node, Stop(n)
    PROVE  RInv'
<1>1. ReplicationTypeOK
  BY Zenon DEF RInv
<1>2. PICK p \in {"up", "closing", "draining", "acks", "down"} : SetPhase(n, p)
  BY DEF Stop
<1>3. UNCHANGED <<held, req, queue, sends, wire>> /\ views' = views /\ polls' = polls
  BY <1>2, Zenon DEF SetPhase
<1>4. phases' \in [Node -> {"up", "closing", "draining", "acks", "down"}]
  BY <1>1, <1>2, Types, SMTT(30) DEF SetPhase
<1>5. views' \in [Node -> Views \cup {NoView}] /\ polls' \in 0..MaxPolls
  BY <1>1, <1>3, Types, Zenon
<1> QED
  BY <1>3, <1>4, <1>5, ElsewhereKeeps, Zenon

-----------------------------------------------------------------------------
(* The theorems *)

(* Nothing has happened yet. *)
LEMMA InitRInv ==
    ASSUME ReplicationConstants, ReplicationInit
    PROVE  RInv
<1>1. /\ views = FirstView /\ polls = 0 /\ phases = [n \in Node |-> "up"] /\ held = [n \in Node |-> {}]
      /\ req = [w \in Write |-> NoRequest] /\ queue = [n \in Node |-> <<>>] /\ sends = {} /\ wire = {}
  BY Zenon DEF ReplicationInit
<1>2. NoRequest \in Handler
  BY DEF NoRequest, Handler
<1>3. NoRequest.acked <= NoRequest.completed
  BY DEF NoRequest
<1>4. /\ views \in [Node -> Views \cup {NoView}] /\ polls \in 0..MaxPolls
      /\ phases \in [Node -> {"up", "closing", "draining", "acks", "down"}]
  BY <1>1 DEF ReplicationConstants
<1>5. held \in [Node -> SUBSET Write] /\ queue \in [Node -> Seq(Task)] /\ sends \subseteq Send /\ wire \subseteq Message
  BY <1>1
<1>6. req \in [Write -> Handler] /\ \A w \in Write : req[w] = NoRequest
  BY <1>1, <1>2, Zenon
<1>7. ReplicationTypeOK
  BY <1>3, <1>4, <1>5, <1>6, Zenon DEF ReplicationTypeOK
<1>8. IsFiniteSet(sends)
  BY <1>1, FS_EmptySet, Zenon
<1>9. Bounded
  <2>1. MaxTasks \in Nat /\ MaxBytes \in Nat /\ AckThreads \in Nat /\ Workers \in Nat
    BY Limits, Zenon
  <2>2. ASSUME NEW n \in Node
        PROVE  /\ Len(queue[n]) = 0 /\ QueuedBytes(n) = 0
               /\ Cardinality(StrongAt(n)) = 0 /\ Cardinality(AsyncAt(n)) = 0
    <3>1. queue[n] = <<>> /\ DOMAIN queue[n] = {}
      BY <1>1
    <3>2. {i \in DOMAIN queue[n] : req[queue[n][i].w].big} = {} /\ StrongAt(n) = {} /\ AsyncAt(n) = {}
      BY <1>1, <3>1, Zenon DEF StrongAt, AsyncAt
    <3>3. Cardinality({}) = 0 /\ Len(<<>>) = 0
      BY FS_EmptySet
    <3> QED
      BY <3>1, <3>2, <3>3, SMTT(30) DEF QueuedBytes
  <2> QED
    BY <2>1, <2>2, SMTT(30) DEF Bounded
<1>10. ASSUME NEW w \in Write PROVE PerWrite(w)
  <2>1. req[w] = NoRequest
    BY <1>6
  <2>2. Nowhere(w) /\ Unstored(w)
    BY <1>1, SMTT(30) DEF Nowhere, Unstored
  <2>3. Stage(w)
    BY <2>1, <2>2, SMTT(30) DEF Stage, NoRequest
  <2>4. IsInjective(<<>>)
    BY SMTT(30) DEF IsInjective
  <2>5. Counts(w)
    BY <2>1, <2>4 DEF Counts, NoRequest, Range
  <2>6. SendsOf(w) /\ WireOf(w) /\ QueueOf(w)
    BY <2>2, Zenon DEF SendsOf, WireOf, QueueOf, Nowhere
  <2>7. InPlan(w)
    BY <2>2, Zenon DEF InPlan, Unstored
  <2> QED
    BY <2>3, <2>5, <2>6, <2>7, Zenon DEF PerWrite
<1> QED
  BY <1>7, <1>8, <1>9, <1>10, Zenon DEF RInv

(* Every step keeps the invariant. *)
LEMMA NextRInv ==
    ASSUME ReplicationConstants, RInv, [ReplicationNext]_replicationVars
    PROVE  RInv'
<1>1. CASE \E w \in Write : \E c \in Calls[w] : Receive(w, c)
  BY <1>1, ReceiveKeeps, Zenon
<1>2. ASSUME NEW w \in Write, Handle(w) PROVE RInv'
  <2>1. CASE StoreLocal(w)
    BY <2>1, StoreLocalKeeps, Zenon
  <2>2. CASE StoreFails(w)
    BY <2>2, StoreFailsKeeps, Zenon
  <2>3. CASE PlanChunked(w)
    BY <2>3, PlanChunkedKeeps, Zenon
  <2>4. CASE SubmitNext(w)
    BY <2>4, SubmitNextKeeps, Zenon
  <2>5. CASE AnswerAsync(w)
    BY <2>5, AnswerAsyncKeeps, Zenon
  <2>6. CASE LaunchNext(w)
    BY <2>6, LaunchNextKeeps, Zenon
  <2>7. CASE AllLaunched(w)
    BY <2>7, AllLaunchedKeeps, Zenon
  <2>8. CASE AnswerStrong(w)
    BY <2>8, AnswerStrongKeeps, Zenon
  <2> QED
    BY <1>2, <2>1, <2>2, <2>3, <2>4, <2>5, <2>6, <2>7, <2>8, Zenon DEF Handle
<1>3. CASE \E n \in Node : WorkerTake(n) \/ Stop(n)
  BY <1>3, WorkerTakeKeeps, StopKeeps, Zenon
<1>4. CASE \E m \in wire : PeerPut(m) \/ PeerFails(m)
  BY <1>4, PeerPutKeeps, PeerFailsKeeps, Zenon
<1>5. CASE \E s \in sends : SendEnds(s)
  BY <1>5, SendReturnsKeeps, SendFailsKeeps, Zenon DEF SendEnds
<1>6. CASE \E c \in Changes : Poll(c[1], c[2])
  <2>1. PICK c \in Changes : Poll(c[1], c[2])
    BY <1>6, Zenon
  <2>2. c[1] \in Node /\ c[2] \in Views
    BY DEF ReplicationConstants
  <2> QED
    BY <2>1, <2>2, PollKeeps, Zenon
<1>7. CASE UNCHANGED replicationVars
  <2>1. ReplicationTypeOK
    BY Zenon DEF RInv
  <2>2. /\ UNCHANGED <<held, req, queue, sends, wire>>
        /\ views' = views /\ polls' = polls /\ phases' = phases
    BY <1>7, Zenon DEF replicationVars
  <2>3. /\ views' \in [Node -> Views \cup {NoView}] /\ polls' \in 0..MaxPolls
        /\ phases' \in [Node -> {"up", "closing", "draining", "acks", "down"}]
    BY <2>1, <2>2, Types, Zenon
  <2> QED
    BY <2>2, <2>3, ElsewhereKeeps, Zenon
<1> QED
  BY <1>1, <1>2, <1>3, <1>4, <1>5, <1>6, <1>7, Zenon DEF ReplicationNext

(* The inductive invariant holds throughout. *)
THEOREM Invariance ==
    ASSUME ReplicationConstants
    PROVE  ReplicationSpec => []RInv
<1>1. ReplicationInit => RInv
  BY InitRInv, Zenon
<1>2. RInv /\ [ReplicationNext]_replicationVars => RInv'
  BY NextRInv, Zenon
<1> QED
  BY <1>1, <1>2, PTL DEF ReplicationSpec

(* What a client is told about its write is true: an ack is a replica that *)
(* stored it, OK with required acks means that many distinct replicas did, *)
(* and a refused or failed request left nothing behind.                    *)
THEOREM AnswersAreHonest ==
    ASSUME ReplicationConstants
    PROVE  ReplicationSpec => []AnswerHonest
<1>1. RInv => AnswerHonest
  <2> SUFFICES ASSUME RInv PROVE AnswerHonest
    BY Zenon
  <2>1. ASSUME NEW w \in Write
        PROVE  /\ req[w].acked <= Cardinality(Replicas(w))
               /\ req[w].status = "ok" => w \in held[req[w].node] /\ Cardinality(Replicas(w)) >= req[w].need
               /\ req[w].status = "deadline" => w \in held[req[w].node]
               /\ req[w].status \in {"invalid", "engine"} => \A n \in Node : w \notin held[n]
    <3>1. ReplicationTypeOK /\ Stage(w) /\ Counts(w)
      BY Zenon DEF RInv, PerWrite
    <3>2. req[w].acked <= Cardinality(Replicas(w)) /\ Cardinality(Replicas(w)) \in Nat
      BY AckedReplicas, Zenon
    <3>3. req[w].need \in Nat
      BY <3>1, Types, HandlerFacts, SMTT(30)
    <3>4. req[w].status = "ok" => req[w].need <= Cardinality(Replicas(w))
      BY <3>1, Zenon DEF Counts
    <3>5. req[w].status = "ok" => Cardinality(Replicas(w)) >= req[w].need
      BY <3>2, <3>3, <3>4, SMTT(30)
    <3>6. req[w].status \in {"ok", "deadline"} => w \in held[req[w].node]
      BY <3>1, Zenon DEF Stage
    <3>7. req[w].status \in {"invalid", "engine"} => Unstored(w)
      BY <3>1, Zenon DEF Stage
    <3> QED
      BY <3>2, <3>5, <3>6, <3>7, Zenon DEF Unstored
  <2> QED
    BY <2>1, Zenon DEF AnswerHonest, Replicas
<1> QED
  BY <1>1, Invariance, PTL

(* Each replica of a strong write is being sent to by one thread at most:  *)
(* the threads can be counted by their peers.                              *)
LEMMA OneThreadPerReplica ==
    ASSUME RInv, NEW w \in Write, req[w].need > 0
    PROVE  Cardinality({s \in sends : s.w = w}) = Cardinality(Sent(w))
<1>1. IsFiniteSet(sends) /\ SendsOf(w)
  BY Zenon DEF RInv, PerWrite
<1>2. PICK S : S = {s \in sends : s.w = w}
  BY Zenon
<1>3. IsFiniteSet(S)
  <2>1. S \subseteq sends
    BY <1>2, Zenon
  <2> QED
    BY <1>1, <2>1, FS_Subset, Zenon
<1>4. PICK f : f = [s \in S |-> s.to]
  BY Zenon
<1>5. f \in [S -> Sent(w)] /\ DOMAIN f = S /\ \A s \in S : f[s] = s.to
  BY <1>2, <1>4, Zenon DEF Sent
<1>6. \A n \in Sent(w) : \E s \in S : f[s] = n
  BY <1>2, <1>5, Zenon DEF Sent
<1>7. f \in Surjection(S, Sent(w))
  BY <1>5, <1>6, Zenon DEF Surjection
<1>8. f \in Injection(S, Sent(w))
  <2>1. ASSUME NEW s \in S, NEW t \in S, f[s] = f[t] PROVE s = t
    <3>1. s \in sends /\ t \in sends /\ s.w = w /\ t.w = w /\ s.to = t.to
      BY <1>2, <1>5, <2>1, Zenon
    <3> QED
      BY <1>1, <3>1, Zenon DEF SendsOf
  <2> QED
    BY <1>5, <2>1, Zenon DEF Injection, IsInjective
<1>9. Cardinality(Sent(w)) = Cardinality(S)
  BY <1>3, <1>7, <1>8, FS_Surjection, Zenon
<1> QED
  BY <1>2, <1>9, Zenon

(* The counters of a fan-out are what is in flight, the queue and the      *)
(* threads stay within their limits, and no write leaves its plan.         *)
THEOREM FanoutIsSafe ==
    ASSUME ReplicationConstants
    PROVE  ReplicationSpec => []FanoutSafe
<1>1. RInv => FanoutSafe
  <2> SUFFICES ASSUME RInv PROVE FanoutSafe
    BY Zenon
  <2>1. ASSUME NEW w \in Write, req[w].need > 0, req[w].status # "invalid"
        PROVE  /\ Len(req[w].targets) >= req[w].need
               /\ Len(req[w].targets) = Len(req[w].left) + req[w].completed
                                        + Cardinality({s \in sends : s.w = w})
    <3>1. Counts(w)
      BY Zenon DEF RInv, PerWrite
    <3>2. /\ Len(req[w].targets) >= req[w].need
          /\ Len(req[w].targets) = Len(req[w].left) + req[w].completed + Cardinality(Sent(w))
      BY <2>1, <3>1, Zenon DEF Counts
    <3>3. Cardinality({s \in sends : s.w = w}) = Cardinality(Sent(w))
      BY <2>1, OneThreadPerReplica, Zenon
    <3> QED
      BY <3>2, <3>3, Zenon
  <2>2. FanoutExact
    BY <2>1, Zenon DEF FanoutExact
  <2>3. StaysInPlan
    BY Zenon DEF RInv, PerWrite, InPlan, StaysInPlan
  <2>4. ReplicationTypeOK /\ Bounded
    BY Zenon DEF RInv
  <2> QED
    BY <2>2, <2>3, <2>4, Zenon DEF FanoutSafe
<1> QED
  BY <1>1, Invariance, PTL
=============================================================================
