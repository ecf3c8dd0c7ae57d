---------------------------- MODULE ClientProofs ----------------------------
(***************************************************************************)
(* For any nodes, shards, weights, callers, closers and churn: what the    *)
(* metadata service places is exact and moves only what it must, the Go    *)
(* SDK's topology is one that was published as a whole, its pool follows   *)
(* the topology, and a connection it dials has one holder until it is      *)
(* closed.                                                                 *)
(***************************************************************************)
EXTENDS Client, FiniteSetTheorems, TLAPS

(* Every topology the metadata service can publish. *)
Published == {Placement(w, members) : w \in Weights, members \in SUBSET Node}

RefreshRecord ==
    [pc : {"idle", "again", "shards", "install", "close", "done"}, nodes : Nat,
     tries : 0..MaxTries, next : Published \cup {None}, retired : SUBSET Conn]

CallerRecord ==
    [pc : {"idle", "lookup", "dial", "insert"}, todo : Seq(Node), conn : 0..MaxConns]

CloserRecord ==
    [pc : {"idle", "cancel", "join", "wait", "returned"}, conns : SUBSET Conn]

Types ==
    /\ weight \in Weights /\ started \in BOOLEAN
    /\ history \in Seq(Published) /\ history # <<>>
    /\ pool \in [DOMAIN pool -> Conn] /\ DOMAIN pool \subseteq Node
    /\ open \subseteq 1..made /\ made \in 0..MaxConns
    /\ closed \in BOOLEAN /\ cancelled \in BOOLEAN /\ closeDone \in BOOLEAN /\ endpoints \in BOOLEAN
    /\ refresh \in RefreshRecord
    /\ caller \in [Caller -> CallerRecord]
    /\ closer \in [Closer -> CloserRecord]

(* Before New returns there is no pool, no refresh and no call. *)
StartInv ==
    /\ started => Valid(topo) /\ \E i \in 1..Len(history) : topo = history[i]
    /\ ~started => DOMAIN pool = {} /\ refresh.pc = "idle"
    /\ \A c \in Caller : caller[c].pc # "idle" => started /\ caller[c].todo # <<>>
    /\ cancelled => started
    /\ \A k \in Closer : closer[k].pc # "idle" => started

(* What the refresh goroutine carries: the topology the nodes came from,   *)
(* how often it has tried, a whole topology to install, and what to close. *)
RefreshInv ==
    /\ refresh.nodes \in 1..Len(history)
    /\ refresh.pc \notin {"shards", "again"} => refresh.nodes = 1
    /\ refresh.pc = "idle" => refresh.tries = 0
    /\ refresh.pc = "again" => refresh.tries < MaxTries
    /\ refresh.pc = "install" => Valid(refresh.next) /\ \E i \in 1..Len(history) : refresh.next = history[i]
    /\ refresh.pc # "close" => refresh.retired = {}

Inserting(c) == caller[c].pc = "insert"

(* What anybody holds is open. *)
HeldOpen ==
    /\ ~closed => \A a \in DOMAIN pool : pool[a] \in open
    /\ \A c \in Caller : Inserting(c) => caller[c].conn \in open
    /\ \A k \in Closer : closer[k].conns \subseteq open
    /\ refresh.retired \subseteq open

(* No two hold the same connection; a closer holds some only after it has  *)
(* closed the pool.                                                        *)
HeldOnce ==
    /\ ~closed =>
          /\ \A a, b \in DOMAIN pool : pool[a] = pool[b] => a = b
          /\ \A a \in DOMAIN pool, c \in Caller : Inserting(c) => caller[c].conn # pool[a]
          /\ \A a \in DOMAIN pool : pool[a] \notin refresh.retired
          /\ \A k \in Closer : closer[k].conns = {}
    /\ \A c, d \in Caller : Inserting(c) /\ Inserting(d) /\ caller[c].conn = caller[d].conn => c = d
    /\ \A c \in Caller : Inserting(c) => caller[c].conn \notin refresh.retired
    /\ \A c \in Caller, k \in Closer : Inserting(c) => caller[c].conn \notin closer[k].conns
    /\ \A k, l \in Closer : k # l => closer[k].conns \cap closer[l].conns = {}
    /\ \A k \in Closer : closer[k].conns \cap refresh.retired = {}
    /\ \A k \in Closer : closer[k].pc \notin {"cancel", "join"} => closer[k].conns = {}

(* Somebody holds every open connection. *)
IsHeld(x) ==
    \/ ~closed /\ \E a \in DOMAIN pool : pool[a] = x
    \/ \E c \in Caller : Inserting(c) /\ caller[c].conn = x
    \/ \E k \in Closer : x \in closer[k].conns
    \/ x \in refresh.retired

AllHeld == \A x \in open : IsHeld(x)

HolderInv == HeldOpen /\ HeldOnce /\ AllHeld

IInv == Types /\ StartInv /\ RefreshInv /\ PoolOwned /\ HolderInv

-----------------------------------------------------------------------------
(* A nonempty set of numbers has a least one. *)
LEMMA LeastNumber ==
    ASSUME NEW T \in SUBSET Nat, T # {}
    PROVE  \E x \in T : \A y \in T : x <= y
<1> DEFINE less == {ss \in Nat \X Nat : ss[1] < ss[2]}
<1>1. IsWellFoundedOn(less, Nat)
  BY NatLessThanWellFounded DEF OpToRel
<1>2. \A x, y \in Nat : x < y => <<x, y>> \in less
  OBVIOUS
<1> HIDE DEF less
<1>3. PICK x \in T : \A y \in T : ~(<<y, x>> \in less)
  BY <1>1, WFMin, Zenon
<1>4. ASSUME NEW y \in T PROVE x <= y
  <2>1. x \in Nat /\ y \in Nat
    OBVIOUS
  <2>2. ~(y < x)
    BY <1>2, <1>3, <2>1, Zenon
  <2> QED
    BY <2>1, <2>2
<1> QED
  BY <1>4
-----------------------------------------------------------------------------
(* Placement *)

(* For one shard, ranking is a strict total order of the nodes: ties are   *)
(* broken by ID.                                                           *)
LEMMA RankOrder ==
    ASSUME NEW w \in Weights, NEW s \in Shard
    PROVE  /\ \A a, b \in Node : a # b => ranksBefore(w, s, a, b) \/ ranksBefore(w, s, b, a)
           /\ \A a, b \in Node : ~(ranksBefore(w, s, a, b) /\ ranksBefore(w, s, b, a))
           /\ \A a, b, c \in Node : ranksBefore(w, s, a, b) /\ ranksBefore(w, s, b, c) => ranksBefore(w, s, a, c)
<1>1. \A a \in Node : w[s][a] \in Nat /\ a \in Nat
  BY ClientAssumption, RouterAssumption
<1> QED
  BY <1>1 DEF ranksBefore

(* The best of a set of nodes. *)
IsBest(w, s, T, b) == b \in T /\ \A n \in T : n # b => ranksBefore(w, s, b, n)

(* The first nodes of T in rank order, at most k of them: whoever is not   *)
(* in the list ranks behind all of a full list.                            *)
Sorted(w, s, t) == \A i, j \in 1..Len(t) : i < j => ranksBefore(w, s, t[i], t[j])
Listed(t, n) == \E i \in 1..Len(t) : t[i] = n
Behind(w, s, k, t, n) == Len(t) = k /\ \A i \in 1..Len(t) : ranksBefore(w, s, t[i], n)
IsTop(w, s, k, T, t) ==
    /\ t \in Seq(T) /\ Len(t) <= k /\ Sorted(w, s, t)
    /\ \A n \in T : Listed(t, n) \/ Behind(w, s, k, t, n)

(* A bounded set of numbers has a greatest one. *)
LEMMA GreatestNumber ==
    ASSUME NEW m \in Nat, NEW T \in SUBSET (0..m), T # {}
    PROVE  Max(T) \in T /\ \A y \in T : y <= Max(T)
<1> DEFINE U == {m - x : x \in T}
<1>1. U \in SUBSET Nat /\ U # {}
  <2>1. \A x \in T : m - x \in Nat
    OBVIOUS
  <2> QED
    BY <2>1, Zenon
<1>2. PICK u \in U : \A v \in U : u <= v
  BY <1>1, LeastNumber, Zenon
<1>3. PICK x \in T : u = m - x
  BY <1>2
<1>4. ASSUME NEW y \in T PROVE x >= y
  <2>1. m - y \in U
    OBVIOUS
  <2>2. m - x <= m - y
    BY <1>2, <1>3, <2>1
  <2> QED
    BY <2>2
<1>5. Max(T) \in T /\ \A y \in T : Max(T) >= y
  BY <1>4, Zenon DEF Max
<1> QED
  BY <1>5

(* Among some finite sets there is one with the fewest elements. *)
LEMMA FewestElements ==
    ASSUME NEW F, F # {}, \A T \in F : IsFiniteSet(T)
    PROVE  \E T \in F : \A U \in F : Cardinality(T) <= Cardinality(U)
<1> DEFINE sizes == {Cardinality(T) : T \in F}
<1>1. sizes \in SUBSET Nat /\ sizes # {}
  BY FS_CardinalityType
<1>2. PICK m \in sizes : \A n \in sizes : m <= n
  BY <1>1, LeastNumber, Zenon
<1>3. PICK T \in F : m = Cardinality(T)
  BY <1>2
<1> QED
  BY <1>2, <1>3

(* Taking an element out of a finite set leaves one element fewer. *)
LEMMA OneFewer ==
    ASSUME NEW T, IsFiniteSet(T), NEW x \in T
    PROVE  IsFiniteSet(T \ {x}) /\ ~(Cardinality(T) <= Cardinality(T \ {x}))
<1>1. Cardinality(T) \in Nat
  BY FS_CardinalityType
<1>2. IsFiniteSet(T \ {x}) /\ Cardinality(T \ {x}) = Cardinality(T) - 1
  BY FS_RemoveElement
<1> QED
  BY <1>1, <1>2

(* The greatest of a finite set of numbers is one of them: a smallest set  *)
(* without a greatest number would have one but for one of its elements.   *)
LEMMA MaxOfFinite ==
    ASSUME NEW T \in SUBSET Nat, IsFiniteSet(T), T # {}
    PROVE  Max(T) \in T
<1> DEFINE Bounded(U) == \E m \in Nat : U \in SUBSET (0..m)
<1> DEFINE Wrong == {U \in SUBSET T : ~Bounded(U)}
<1>1. Wrong = {}
  <2> SUFFICES ASSUME Wrong # {} PROVE FALSE
    BY Zenon
  <2>1. \A U \in Wrong : IsFiniteSet(U)
    BY FS_Subset
  <2>2. PICK U \in Wrong : \A V \in Wrong : Cardinality(U) <= Cardinality(V)
    BY <2>1, FewestElements, Zenon
  <2>3. U # {}
    <3>1. {} \in SUBSET (0..0) /\ 0 \in Nat
      OBVIOUS
    <3> QED
      BY <2>2, <3>1, Zenon
  <2>4. PICK x \in U : x \in Nat
    BY <2>3
  <2>5. U \ {x} \notin Wrong /\ U \ {x} \in SUBSET T
    BY <2>1, <2>2, <2>4, OneFewer, Zenon
  <2>6. PICK m \in Nat : U \ {x} \in SUBSET (0..m)
    BY <2>5, Zenon
  <2>7. m + x \in Nat /\ U \in SUBSET (0..(m + x))
    BY <2>4, <2>6
  <2> QED
    BY <2>2, <2>7, Zenon
<1>2. PICK m \in Nat : T \in SUBSET (0..m)
  BY <1>1, Zenon
<1> QED
  BY <1>2, GreatestNumber

(* AssignShardOwners' insertion: where a node goes, and the longer list. *)
Joined(t, p, n) == SubSeq(t, 1, p) \o <<n>> \o SubSeq(t, p + 1, Len(t))
Position(w, s, t, n) == Max({0} \cup {i \in DOMAIN t : ~ranksBefore(w, s, n, t[i])})

(* The entries before the position rank before the new node, and those     *)
(* behind it rank behind.                                                  *)
LEMMA PositionFacts ==
    ASSUME NEW w \in Weights, NEW s \in Shard, NEW t \in Seq(Node), NEW n \in Node,
           Sorted(w, s, t), ~Listed(t, n)
    PROVE  /\ Position(w, s, t, n) \in 0..Len(t)
           /\ \A i \in 1..Position(w, s, t, n) : ranksBefore(w, s, t[i], n)
           /\ \A i \in (Position(w, s, t, n) + 1)..Len(t) : ranksBefore(w, s, n, t[i])
<1> DEFINE stay == {i \in DOMAIN t : ~ranksBefore(w, s, n, t[i])}
<1> DEFINE p == Position(w, s, t, n)
<1>0. Len(t) \in Nat /\ DOMAIN t = 1..Len(t) /\ \A i \in 1..Len(t) : t[i] \in Node
  OBVIOUS
<1>1. {0} \cup stay \in SUBSET (0..Len(t)) /\ {0} \cup stay # {}
  BY <1>0
<1>2. p \in {0} \cup stay /\ \A y \in {0} \cup stay : y <= p
  BY <1>0, <1>1, GreatestNumber DEF Position
<1>3. p \in 0..Len(t)
  BY <1>1, <1>2
<1>4. ASSUME NEW i \in (p + 1)..Len(t) PROVE ranksBefore(w, s, n, t[i])
  <2>1. i \in DOMAIN t /\ ~(i <= p)
    BY <1>0, <1>3
  <2>2. i \notin stay
    BY <1>2, <2>1
  <2> QED
    BY <2>1, <2>2
<1>5. ASSUME NEW i \in 1..p PROVE ranksBefore(w, s, t[i], n)
  <2>1. p \in stay /\ p \in 1..Len(t) /\ i \in 1..Len(t)
    BY <1>0, <1>2, <1>3
  <2>2. t[p] \in Node /\ t[i] \in Node /\ ~ranksBefore(w, s, n, t[p]) /\ t[p] # n
    BY <1>0, <2>1 DEF Listed
  <2>3. ranksBefore(w, s, t[p], n)
    BY <2>2, RankOrder
  <2>4. i = p \/ ranksBefore(w, s, t[i], t[p])
    BY <1>3, <2>1 DEF Sorted
  <2> QED
    BY <2>2, <2>3, <2>4, RankOrder
<1> QED
  BY <1>3, <1>4, <1>5

(* The longer list, entry by entry. *)
Longer(S, t, p, n, u) ==
    /\ u \in Seq(S) /\ Len(u) = Len(t) + 1
    /\ \A i \in 1..p : u[i] = t[i]
    /\ u[p + 1] = n
    /\ \A i \in (p + 2)..(Len(t) + 1) : u[i] = t[i - 1]

(* The insertion makes that list. *)
LEMMA JoinedFacts ==
    ASSUME NEW S, NEW t \in Seq(S), NEW n \in S, NEW p \in 0..Len(t)
    PROVE  Longer(S, t, p, n, Joined(t, p, n))
<1> DEFINE a == SubSeq(t, 1, p)
<1> DEFINE b == SubSeq(t, p + 1, Len(t))
<1>0. PICK m \in Nat : m = Len(t) /\ p \in 0..m
  OBVIOUS
<1>1. a \in Seq(S) /\ Len(a) = p /\ \A i \in 1..p : a[i] = t[i]
  BY <1>0
<1>2. b \in Seq(S) /\ Len(b) = m - p /\ \A i \in 1..(m - p) : b[i] = t[p + i]
  BY <1>0
<1> DEFINE c == a \o <<n>>
<1> HIDE DEF a, b
<1>3. c \in Seq(S) /\ Len(c) = p + 1 /\ (\A i \in 1..p : c[i] = t[i]) /\ c[p + 1] = n
  BY <1>0, <1>1
<1> DEFINE d == c \o b
<1> HIDE DEF c
<1>4. d \in Seq(S) /\ Len(d) = m + 1
  BY <1>0, <1>2, <1>3
<1>5. \A i \in 1..(p + 1) : d[i] = c[i]
  BY <1>0, <1>2, <1>3
<1>6. \A i \in (p + 2)..(m + 1) : d[i] = b[i - (p + 1)]
  BY <1>0, <1>2, <1>3
<1>7. \A i \in (p + 2)..(m + 1) : d[i] = t[i - 1]
  <2> SUFFICES ASSUME NEW i \in (p + 2)..(m + 1) PROVE d[i] = t[i - 1]
    OBVIOUS
  <2>1. i - (p + 1) \in 1..(m - p) /\ p + (i - (p + 1)) = i - 1
    BY <1>0
  <2> QED
    BY <1>2, <1>6, <2>1
<1>8. Joined(t, p, n) = d
  BY DEF Joined, a, b, c
<1> HIDE DEF d
<1>9. (\A i \in 1..p : d[i] = t[i]) /\ d[p + 1] = n
  BY <1>0, <1>3, <1>5
<1> QED
  BY <1>0, <1>4, <1>7, <1>8, <1>9 DEF Longer

(* Inserting into a sorted list keeps it sorted. *)
LEMMA JoinedSorted ==
    ASSUME NEW w \in Weights, NEW s \in Shard, NEW t \in Seq(Node), NEW n \in Node, NEW p \in 0..Len(t),
           Sorted(w, s, t),
           \A i \in 1..p : ranksBefore(w, s, t[i], n),
           \A i \in (p + 1)..Len(t) : ranksBefore(w, s, n, t[i])
    PROVE  Sorted(w, s, Joined(t, p, n))
<1>0. PICK m \in Nat : m = Len(t) /\ p \in 0..m
  OBVIOUS
<1>1. PICK u : u = Joined(t, p, n)
  OBVIOUS
<1>2. /\ Len(u) = m + 1
      /\ \A i \in 1..p : u[i] = t[i]
      /\ u[p + 1] = n
      /\ \A i \in (p + 2)..(m + 1) : u[i] = t[i - 1]
  <2>1. p \in 0..Len(t) /\ t \in Seq(Node)
    OBVIOUS
  <2>2. Longer(Node, t, p, n, u)
    BY <1>1, <2>1, JoinedFacts, Zenon
  <2> QED
    BY <1>0, <2>2 DEF Longer
<1> SUFFICES ASSUME NEW i \in 1..(m + 1), NEW j \in 1..(m + 1), i < j
             PROVE  ranksBefore(w, s, u[i], u[j])
  BY <1>1, <1>2 DEF Sorted
<1>3. CASE j \in 1..p
  <2>1. i \in 1..p /\ i \in 1..m /\ j \in 1..m
    BY <1>0, <1>3
  <2> QED
    BY <1>0, <1>2, <1>3, <2>1 DEF Sorted
<1>4. CASE j = p + 1
  <2>1. i \in 1..p
    BY <1>0, <1>4
  <2> QED
    BY <1>2, <1>4, <2>1
<1>5. CASE j \in (p + 2)..(m + 1)
  <2>1. u[j] = t[j - 1] /\ j - 1 \in (p + 1)..m /\ j - 1 \in 1..m
    BY <1>0, <1>2, <1>5
  <2>2. CASE i \in 1..p
    <3>1. i \in 1..m /\ i < j - 1 /\ u[i] = t[i]
      BY <1>0, <1>2, <1>5, <2>2
    <3> QED
      BY <1>0, <2>1, <3>1 DEF Sorted
  <2>3. CASE i = p + 1
    BY <1>0, <1>2, <2>1, <2>3
  <2>4. CASE i \in (p + 2)..(m + 1)
    <3>1. i - 1 \in 1..m /\ i - 1 < j - 1 /\ u[i] = t[i - 1]
      BY <1>0, <1>2, <2>4
    <3> QED
      BY <1>0, <2>1, <3>1 DEF Sorted
  <2> QED
    BY <1>0, <2>2, <2>3, <2>4
<1> QED
  BY <1>0, <1>3, <1>4, <1>5

(* One candidate of AssignShardOwners' loop: the list of the best of T     *)
(* becomes the list of the best of T and the candidate.                    *)
LEMMA InsertKeepsTop ==
    ASSUME NEW w \in Weights, NEW s \in Shard, NEW k \in Nat \ {0}, NEW T \in SUBSET Node,
           NEW t, IsTop(w, s, k, T, t), NEW n \in Node, n \notin T
    PROVE  IsTop(w, s, k, T \cup {n}, Insert(w, s, k, t, n))
<1> DEFINE p == Position(w, s, t, n)
<1> DEFINE S == T \cup {n}
<1>0. PICK m \in Nat : m = Len(t)
  BY DEF IsTop
<1>1. t \in Seq(Node) /\ t \in Seq(S) /\ Sorted(w, s, t) /\ m <= k /\ n \in S /\ S \in SUBSET Node
  BY <1>0 DEF IsTop
<1>2. \A i \in 1..m : t[i] \in T /\ t[i] \in Node
  BY <1>0 DEF IsTop
<1>3. ~Listed(t, n)
  BY <1>0, <1>2 DEF Listed
<1>4. /\ p \in 0..m
      /\ \A i \in 1..p : ranksBefore(w, s, t[i], n)
      /\ \A i \in (p + 1)..m : ranksBefore(w, s, n, t[i])
  BY <1>0, <1>1, <1>3, PositionFacts
<1> HIDE DEF p, S
<1>5. PICK all : all = Joined(t, p, n)
  OBVIOUS
<1>6. /\ all \in Seq(S) /\ Len(all) = m + 1
      /\ \A i \in 1..p : all[i] = t[i]
      /\ all[p + 1] = n
      /\ \A i \in (p + 2)..(m + 1) : all[i] = t[i - 1]
  <2>1. p \in 0..Len(t) /\ t \in Seq(S) /\ n \in S
    BY <1>0, <1>1, <1>4
  <2>2. Longer(S, t, p, n, all)
    BY <1>5, <2>1, JoinedFacts, Zenon
  <2> QED
    BY <1>0, <2>2 DEF Longer
<1>7. Sorted(w, s, all)
  BY <1>0, <1>1, <1>4, <1>5, JoinedSorted
<1>8. PICK l \in 1..(m + 1) : l = Min({k, m + 1}) /\ l <= k /\ (l = k \/ l = m + 1)
  <2>1. CASE k <= m + 1
    <3>1. Min({k, m + 1}) = k
      BY <2>1 DEF Min
    <3> QED
      BY <2>1, <3>1
  <2>2. CASE m + 1 <= k
    <3>1. Min({k, m + 1}) = m + 1
      BY <2>2 DEF Min
    <3> QED
      BY <2>2, <3>1
  <2> QED
    BY <2>1, <2>2
<1>80. l \in 1..(m + 1) /\ l <= k /\ (l = k \/ l = m + 1)
  BY <1>8
<1>9. PICK u : u = Insert(w, s, k, t, n)
  OBVIOUS
<1>10. u = SubSeq(all, 1, l)
  BY <1>5, <1>6, <1>8, <1>9 DEF Insert, Joined, Position, p
<1>11. u \in Seq(S) /\ Len(u) = l /\ \A i \in 1..l : u[i] = all[i]
  <2>1. l \in 1..Len(all) /\ all \in Seq(S)
    BY <1>6, <1>80
  <2> QED
    BY <1>10, <2>1
<1>12. Sorted(w, s, u)
  <2> SUFFICES ASSUME NEW i \in 1..l, NEW j \in 1..l, i < j PROVE ranksBefore(w, s, u[i], u[j])
    BY <1>11 DEF Sorted
  <2>1. i \in 1..(m + 1) /\ j \in 1..(m + 1) /\ u[i] = all[i] /\ u[j] = all[j]
    <3>1. i \in 1..(m + 1) /\ j \in 1..(m + 1)
      BY <1>80
    <3> QED
      BY <1>11, <3>1
  <2> QED
    BY <1>6, <1>7, <2>1 DEF Sorted
<1>13. ASSUME NEW i \in 1..(m + 1) PROVE Listed(u, all[i]) \/ Behind(w, s, k, u, all[i])
  <2>1. CASE i \in 1..l
    BY <1>11, <2>1 DEF Listed
  <2>2. CASE i \notin 1..l
    <3>1. l = k /\ \A j \in 1..l : j \in 1..(m + 1) /\ j < i
      BY <1>80, <2>2
    <3>2. \A j \in 1..l : ranksBefore(w, s, u[j], all[i])
      BY <1>6, <1>7, <1>11, <3>1 DEF Sorted
    <3> QED
      BY <1>11, <3>1, <3>2 DEF Behind
  <2> QED
    BY <2>1, <2>2
<1>14. ASSUME NEW x \in T, NEW i \in 1..m, t[i] = x PROVE \E j \in 1..(m + 1) : all[j] = x
  <2>1. CASE i \in 1..p
    BY <1>4, <1>6, <1>14, <2>1
  <2>2. CASE i \notin 1..p
    <3>1. i + 1 \in (p + 2)..(m + 1) /\ i + 1 \in 1..(m + 1) /\ (i + 1) - 1 = i
      BY <1>4, <2>2
    <3> QED
      BY <1>6, <1>14, <3>1
  <2> QED
    BY <2>1, <2>2
<1>15. ASSUME NEW x \in T, Behind(w, s, k, t, x) PROVE Behind(w, s, k, u, x)
  <2>1. m = k /\ \A i \in 1..m : ranksBefore(w, s, t[i], x)
    BY <1>0, <1>15 DEF Behind
  <2>2. l = k
    BY <1>80, <2>1
  <2>3. ASSUME NEW j \in 1..l PROVE ranksBefore(w, s, all[j], x)
    <3>1. CASE j \in 1..p
      <4>1. j \in 1..m
        BY <1>4, <3>1
      <4> QED
        BY <1>6, <2>1, <3>1, <4>1
    <3>2. CASE j = p + 1
      <4>1. p + 1 \in 1..m /\ p + 1 \in (p + 1)..m
        BY <1>4, <2>1, <2>2, <3>2
      <4>2. ranksBefore(w, s, n, t[p + 1]) /\ ranksBefore(w, s, t[p + 1], x) /\ t[p + 1] \in Node /\ x \in Node
        BY <1>2, <1>4, <2>1, <4>1
      <4> QED
        BY <1>6, <3>2, <4>2, RankOrder
    <3>3. CASE j \in (p + 2)..(m + 1)
      <4>1. j - 1 \in 1..m
        BY <1>4, <3>3
      <4> QED
        BY <1>6, <2>1, <3>3, <4>1
    <3> QED
      BY <1>4, <1>80, <3>1, <3>2, <3>3
  <2> QED
    BY <1>11, <2>2, <2>3 DEF Behind
<1>16. ASSUME NEW x \in S PROVE Listed(u, x) \/ Behind(w, s, k, u, x)
  <2>1. CASE x = n
    <3>1. p + 1 \in 1..(m + 1)
      BY <1>4
    <3> QED
      BY <1>6, <1>13, <2>1, <3>1
  <2>2. CASE x \in T /\ Listed(t, x)
    <3>1. PICK i \in 1..m : t[i] = x
      BY <1>0, <2>2 DEF Listed
    <3>2. PICK j \in 1..(m + 1) : all[j] = x
      BY <1>14, <2>2, <3>1
    <3> QED
      BY <1>13, <3>2
  <2>3. CASE x \in T /\ Behind(w, s, k, t, x)
    BY <1>15, <2>3
  <2> QED
    BY <2>1, <2>2, <2>3, Zenon DEF S, IsTop
<1> QED
  BY <1>8, <1>9, <1>11, <1>12, <1>16 DEF IsTop, S

(* A loop over nodes, as the function OverNodes defines it by: what it has *)
(* after the nodes of T, the greatest of them being the last.              *)
FoldStep(step, base, g, T) == IF T = {} THEN base ELSE step[<<g[T \ {Max(T)}], Max(T)>>]
LoopBody(step, V, M) == step \in [V \X M -> V]
Loops(step, base, V, M, g) ==
    g \in [SUBSET M -> V] /\ \A T \in SUBSET M : g[T] = FoldStep(step, base, g, T)

(* There is such a function for every loop body: otherwise there would be  *)
(* a least number of nodes up to which there is none.                      *)
LEMMA FoldExists ==
    ASSUME NEW M \in SUBSET Nat, IsFiniteSet(M), NEW V, NEW base \in V, NEW step, LoopBody(step, V, M)
    PROVE  \E g : Loops(step, base, V, M, g)
<1> DEFINE UpTo(g, n) == \A T \in SUBSET M : Cardinality(T) <= n => g[T] = FoldStep(step, base, g, T)
<1> DEFINE Wrong == {n \in Nat : ~\E g \in [SUBSET M -> V] : UpTo(g, n)}
<1>1. ASSUME NEW T \in SUBSET M PROVE IsFiniteSet(T) /\ Cardinality(T) \in Nat /\ Cardinality(T) <= Cardinality(M)
  BY FS_Subset, FS_CardinalityType
<1>2. ASSUME NEW T \in SUBSET M, T # {}
      PROVE  /\ Max(T) \in T /\ Max(T) \in M /\ T \ {Max(T)} \in SUBSET M
             /\ Cardinality(T \ {Max(T)}) = Cardinality(T) - 1
  <2>1. Max(T) \in T
    BY <1>1, <1>2, MaxOfFinite
  <2> QED
    BY <1>1, <2>1, FS_RemoveElement
<1>3. ASSUME NEW g \in [SUBSET M -> V], NEW T \in SUBSET M PROVE FoldStep(step, base, g, T) \in V
  <2>1. CASE T = {}
    BY <2>1 DEF FoldStep
  <2>2. CASE T # {}
    <3>1. g[T \ {Max(T)}] \in V /\ Max(T) \in M
      BY <1>2, <2>2
    <3>2. step[<<g[T \ {Max(T)}], Max(T)>>] \in V
      BY <3>1 DEF LoopBody
    <3> QED
      BY <2>2, <3>2 DEF FoldStep
  <2> QED
    BY <2>1, <2>2
<1>4. Wrong = {}
  <2> SUFFICES ASSUME Wrong # {} PROVE FALSE
    BY Zenon
  <2>1. PICK n \in Wrong : \A m \in Wrong : n <= m
    BY LeastNumber, Zenon
  <2>2. CASE n = 0
    <3> DEFINE start == [T \in SUBSET M |-> base]
    <3>1. ASSUME NEW T \in SUBSET M, Cardinality(T) <= 0 PROVE T = {}
      BY <1>1, <3>1, FS_EmptySet
    <3>2. UpTo(start, 0) /\ start \in [SUBSET M -> V]
      BY <3>1 DEF FoldStep
    <3> QED
      BY <2>1, <2>2, <3>2, Zenon
  <2>3. CASE n # 0
    <3>1. n - 1 \in Nat /\ n - 1 \notin Wrong /\ n \in Nat
      <4>1. n \in Nat /\ Wrong \subseteq Nat
        OBVIOUS
      <4> HIDE DEF Wrong
      <4> QED
        BY <2>1, <2>3, <4>1
    <3>2. PICK g \in [SUBSET M -> V] : UpTo(g, n - 1)
      BY <3>1, Zenon
    <3> DEFINE h == [T \in SUBSET M |-> FoldStep(step, base, g, T)]
    <3>3. h \in [SUBSET M -> V] /\ \A T \in SUBSET M : h[T] = FoldStep(step, base, g, T)
      BY <1>3, Zenon
    <3> HIDE DEF h
    <3>4. ASSUME NEW T \in SUBSET M, Cardinality(T) <= n PROVE h[T] = FoldStep(step, base, h, T)
      <4>1. CASE T = {}
        BY <3>3, <4>1, Zenon DEF FoldStep
      <4>2. CASE T # {}
        <5> DEFINE r == T \ {Max(T)}
        <5>1. r \in SUBSET M /\ Cardinality(r) <= n - 1
          BY <1>1, <1>2, <3>1, <3>4, <4>2
        <5>2. g[r] = h[r]
          BY <3>2, <3>3, <5>1, Zenon
        <5> QED
          BY <3>3, <4>2, <5>2, Zenon DEF FoldStep
      <4> QED
        BY <4>1, <4>2
    <3> QED
      BY <2>1, <3>3, <3>4, Zenon
  <2> QED
    BY <2>2, <2>3
<1>5. Cardinality(M) \in Nat
  BY FS_CardinalityType
<1>6. PICK g \in [SUBSET M -> V] : UpTo(g, Cardinality(M))
  BY <1>4, <1>5, Zenon
<1> QED
  BY <1>1, <1>6, Zenon DEF Loops

(* The two loops. *)
BestLoop(w, s, first, M, g) ==
    g = [T \in SUBSET M |-> IF T = {} THEN first ELSE Better(w, s, g[T \ {Max(T)}], Max(T))]
TopLoop(w, s, k, M, g) ==
    g = [T \in SUBSET M |-> IF T = {} THEN <<>> ELSE Insert(w, s, k, g[T \ {Max(T)}], Max(T))]

(* AssignShards of a shard is the end of its loop. *)
LEMMA BestIsLoop ==
    ASSUME NEW w, NEW s \in Shard, NEW members, members # {}
    PROVE  AssignShards(w, members)[s] =
               (CHOOSE g : BestLoop(w, s, Min(members), members \ {Min(members)}, g))[members \ {Min(members)}]
BY DEF AssignShards, OverNodes, MapThenFoldSet, BestLoop

(* AssignShardOwners of a shard is the end of its loop. *)
LEMMA TopIsLoop ==
    ASSUME NEW w, NEW s \in Shard, NEW members, members # {}
    PROVE  LET top == (CHOOSE g : TopLoop(w, s, Copies(members), members, g))[members]
           IN AssignShardOwners(w, members)[s] = [primary |-> Head(top), replicas |-> Tail(top)]
BY DEF AssignShardOwners, OverNodes, MapThenFoldSet, TopLoop

(* The loop of AssignShards ends with the best of all the nodes. *)
LEMMA BestFound ==
    ASSUME NEW w \in Weights, NEW s \in Shard, NEW members \in SUBSET Node, members # {}
    PROVE  IsBest(w, s, members, AssignShards(w, members)[s])
<1>0. /\ members \in SUBSET Nat /\ members \in SUBSET Node /\ IsFiniteSet(members)
  BY RouterAssumption, FS_Subset
<1>1. PICK first \in members : first = Min(members)
  <2>1. PICK x \in members : \A y \in members : x <= y
    BY <1>0, LeastNumber
  <2> QED
    BY <2>1, Zenon DEF Min
<1>2. PICK M \in SUBSET members : M = members \ {first} /\ IsFiniteSet(M)
  <2>1. members \ {first} \in SUBSET members
    OBVIOUS
  <2>2. IsFiniteSet(members \ {first})
    BY <1>0, <2>1, FS_Subset, Zenon
  <2> QED
    BY <2>1, <2>2, Zenon
<1> DEFINE step == [x \in members \X M |-> Better(w, s, x[1], x[2])]
<1>3. step \in [members \X M -> members]
  BY DEF Better
<1>4. PICK h \in [SUBSET M -> members] : \A T \in SUBSET M : h[T] = FoldStep(step, first, h, T)
  <2>1. M \in SUBSET Nat
    BY <1>0, <1>2
  <2>2. LoopBody(step, members, M)
    BY <1>3, Zenon DEF LoopBody
  <2> HIDE DEF step
  <2>3. \E h : Loops(step, first, members, M, h)
    BY <1>1, <1>2, <2>1, <2>2, FoldExists, Zenon
  <2> QED
    BY <2>3, Zenon DEF Loops
<1>5. \A T \in SUBSET M : T # {} => Max(T) \in T /\ T \ {Max(T)} \in SUBSET M /\ IsFiniteSet(T)
  BY <1>0, <1>2, FS_Subset, MaxOfFinite
<1>6. BestLoop(w, s, first, M, h)
  <2>1. ASSUME NEW T \in SUBSET M
        PROVE  h[T] = IF T = {} THEN first ELSE Better(w, s, h[T \ {Max(T)}], Max(T))
    <3>1. CASE T = {}
      BY <1>4, <3>1, Zenon DEF FoldStep
    <3>2. CASE T # {}
      <4>1. h[T \ {Max(T)}] \in members /\ Max(T) \in M
        BY <1>5, <3>2
      <4>2. step[<<h[T \ {Max(T)}], Max(T)>>] = Better(w, s, h[T \ {Max(T)}], Max(T))
        BY <4>1
      <4> HIDE DEF step
      <4> QED
        BY <1>4, <3>2, <4>2, Zenon DEF FoldStep
    <3> QED
      BY <3>1, <3>2
  <2> QED
    BY <2>1, Zenon DEF BestLoop
<1>7. PICK g : BestLoop(w, s, first, M, g) /\ AssignShards(w, members)[s] = g[M]
  BY <1>1, <1>2, <1>6, BestIsLoop, Zenon
<1> DEFINE Wrong == {T \in SUBSET M : ~IsBest(w, s, T \cup {first}, g[T])}
<1>8. Wrong = {}
  <2> SUFFICES ASSUME Wrong # {} PROVE FALSE
    BY Zenon
  <2>1. \A T \in Wrong : IsFiniteSet(T)
    BY <1>2, FS_Subset
  <2>2. PICK T \in Wrong : \A U \in Wrong : Cardinality(T) <= Cardinality(U)
    BY <2>1, FewestElements, Zenon
  <2>3. T \in SUBSET M /\ IsFiniteSet(T) /\ ~IsBest(w, s, T \cup {first}, g[T])
    BY <2>1, <2>2, Zenon
  <2>4. g[T] = IF T = {} THEN first ELSE Better(w, s, g[T \ {Max(T)}], Max(T))
    BY <1>7, <2>3, Zenon DEF BestLoop
  <2>5. CASE T = {}
    BY <2>3, <2>4, <2>5 DEF IsBest
  <2>6. CASE T # {}
    <3>1. PICK n \in T : n = Max(T)
      BY <1>5, <2>3, <2>6
    <3>2. PICK U \in SUBSET M : U = T \ {n}
      BY <2>3
    <3>3. IsBest(w, s, U \cup {first}, g[U])
      <4>1. ~(Cardinality(T) <= Cardinality(U))
        BY <2>3, <3>1, <3>2, OneFewer, Zenon
      <4> QED
        BY <2>2, <3>2, <4>1, Zenon
    <3>4. PICK b : b = g[U]
      OBVIOUS
    <3>5. g[T] = IF ranksBefore(w, s, n, b) THEN n ELSE b
      BY <2>4, <2>6, <3>1, <3>2, <3>4, Zenon DEF Better
    <3>6. n \in Node /\ b \in Node /\ U \cup {first} \in SUBSET Node /\ b # n /\ b \in U \cup {first}
      <4>1. b \in U \cup {first} /\ n # first /\ n \in members /\ first \in members /\ U \in SUBSET members
        BY <1>1, <1>2, <2>3, <3>1, <3>2, <3>3, <3>4 DEF IsBest
      <4>2. n \notin U
        BY <3>2
      <4> QED
        BY <1>0, <4>1, <4>2, Zenon
    <3>7. \A x \in U \cup {first} : x # b => ranksBefore(w, s, b, x)
      BY <3>3, <3>4, Zenon DEF IsBest
    <3>8. IsBest(w, s, T \cup {first}, g[T])
      <4>1. T \cup {first} = (U \cup {first}) \cup {n}
        BY <3>1, <3>2, Zenon
      <4>2. CASE ranksBefore(w, s, n, b)
        <5>1. \A x \in U \cup {first} : ranksBefore(w, s, n, x)
          BY <3>6, <3>7, <4>2, RankOrder
        <5> QED
          BY <3>5, <4>1, <4>2, <5>1, Zenon DEF IsBest
      <4>3. CASE ~ranksBefore(w, s, n, b)
        <5>1. ranksBefore(w, s, b, n)
          BY <3>6, <4>3, RankOrder
        <5> QED
          BY <3>5, <3>6, <3>7, <4>1, <4>3, <5>1, Zenon DEF IsBest
      <4> QED
        BY <4>2, <4>3
    <3> QED
      BY <2>3, <3>8
  <2> QED
    BY <2>5, <2>6
<1>9. M \notin Wrong /\ M \in SUBSET M /\ M \cup {first} = members
  BY <1>1, <1>2, <1>8
<1> QED
  BY <1>7, <1>9, Zenon

(* Inserting into any list of nodes gives a list of nodes. *)
LEMMA InsertTyped ==
    ASSUME NEW w, NEW s, NEW k \in Nat \ {0}, NEW t \in Seq(Node), NEW n \in Node
    PROVE  Insert(w, s, k, t, n) \in Seq(Node)
<1> DEFINE stay == {i \in DOMAIN t : ~ranksBefore(w, s, n, t[i])}
<1>1. Len(t) \in Nat /\ {0} \cup stay \in SUBSET (0..Len(t)) /\ {0} \cup stay # {}
  OBVIOUS
<1>2. PICK p \in 0..Len(t) : p = Position(w, s, t, n)
  <2>1. Max({0} \cup stay) \in {0} \cup stay
    BY <1>1, GreatestNumber
  <2> QED
    BY <1>1, <2>1 DEF Position
<1>3. PICK all \in Seq(Node) : all = Joined(t, p, n) /\ Len(all) = Len(t) + 1
  BY <1>2, JoinedFacts DEF Longer
<1>4. PICK l \in 1..Len(all) : l = Min({k, Len(all)})
  <2>1. PICK m \in Nat : m = Len(all) /\ m >= 1
    BY <1>1, <1>3
  <2>2. Min({k, m}) \in {k, m} /\ Min({k, m}) <= k /\ Min({k, m}) <= m
    <3>1. CASE k <= m
      <4>1. Min({k, m}) = k
        BY <2>1, <3>1 DEF Min
      <4> QED
        BY <3>1, <4>1
    <3>2. CASE m <= k
      <4>1. Min({k, m}) = m
        BY <2>1, <3>2 DEF Min
      <4> QED
        BY <3>2, <4>1
    <3> QED
      BY <2>1, <3>1, <3>2
  <2>3. Min({k, m}) \in 1..m
    BY <2>1, <2>2
  <2> QED
    BY <2>1, <2>3
<1>5. Insert(w, s, k, t, n) = SubSeq(all, 1, l)
  BY <1>2, <1>3, <1>4 DEF Insert, Joined, Position
<1>6. SubSeq(all, 1, l) \in Seq(Node)
  <2>1. all \in Seq(Node) /\ l \in 1..Len(all)
    OBVIOUS
  <2> QED
    BY <2>1
<1> QED
  BY <1>5, <1>6

(* How many copies of a shard there are. *)
LEMMA CopiesFacts ==
    ASSUME NEW members \in SUBSET Node, members # {}
    PROVE  /\ Copies(members) \in Nat \ {0} /\ Copies(members) <= Cardinality(members)
           /\ IsFiniteSet(members) /\ members \in SUBSET Nat
<1>1. IsFiniteSet(members) /\ members \in SUBSET Nat /\ Factor \in Nat
  BY RouterAssumption, FS_Subset
<1>2. PICK m \in Nat : m = Cardinality(members) /\ m # 0
  BY <1>1, FS_CardinalityType, FS_EmptySet
<1>3. Min({Factor + 1, m}) \in {Factor + 1, m} /\ Min({Factor + 1, m}) <= m
  <2>1. CASE Factor + 1 <= m
    <3>1. Min({Factor + 1, m}) = Factor + 1
      BY <1>1, <2>1 DEF Min
    <3> QED
      BY <2>1, <3>1
  <2>2. CASE m <= Factor + 1
    <3>1. Min({Factor + 1, m}) = m
      BY <1>1, <2>2 DEF Min
    <3> QED
      BY <3>1
  <2> QED
    BY <1>1, <2>1, <2>2
<1> QED
  BY <1>1, <1>2, <1>3 DEF Copies

(* A sorted list has no node twice. *)
LEMMA SortedInjective ==
    ASSUME NEW w \in Weights, NEW s \in Shard, NEW t \in Seq(Node), Sorted(w, s, t)
    PROVE  \A i, j \in 1..Len(t) : t[i] = t[j] => i = j
<1> SUFFICES ASSUME NEW i \in 1..Len(t), NEW j \in 1..Len(t), t[i] = t[j], i # j PROVE FALSE
  OBVIOUS
<1>1. t[i] \in Node /\ t[j] \in Node
  OBVIOUS
<1>2. i < j \/ j < i
  OBVIOUS
<1>3. ranksBefore(w, s, t[i], t[j]) \/ ranksBefore(w, s, t[j], t[i])
  BY <1>2 DEF Sorted
<1> QED
  BY <1>1, <1>3, RankOrder

(* The list of the best of all the nodes is full. *)
LEMMA TopIsFull ==
    ASSUME NEW w \in Weights, NEW s \in Shard, NEW members \in SUBSET Node, members # {},
           NEW k \in Nat, k <= Cardinality(members), NEW t, IsTop(w, s, k, members, t)
    PROVE  Len(t) = k
<1>1. t \in Seq(members) /\ t \in Seq(Node) /\ Len(t) \in Nat /\ Len(t) <= k /\ Sorted(w, s, t)
  BY DEF IsTop
<1>2. IsFiniteSet(members)
  BY CopiesFacts
<1> SUFFICES ASSUME Len(t) # k PROVE FALSE
  OBVIOUS
<1>3. \A n \in members : \E i \in 1..Len(t) : t[i] = n
  BY DEF IsTop, Listed, Behind
<1>4. t \in [1..Len(t) -> members] /\ t \in Surjection(1..Len(t), members)
  <2>1. t \in [1..Len(t) -> members]
    BY <1>1
  <2> QED
    BY <1>3, <2>1 DEF Surjection
<1>5. IsFiniteSet(1..Len(t)) /\ Cardinality(1..Len(t)) = Len(t)
  <2>1. PICK m \in Nat : m = Len(t)
    BY <1>1
  <2>2. IsFiniteSet(1..m) /\ Cardinality(1..m) = IF 1 > m THEN 0 ELSE m - 1 + 1
    BY FS_Interval
  <2> QED
    BY <2>1, <2>2
<1>6. Cardinality(members) <= Len(t)
  <2>1. Cardinality(members) <= Cardinality(1..Len(t))
    BY <1>4, <1>5, FS_Surjection, Zenon
  <2> QED
    BY <1>5, <2>1, Zenon
<1>7. Cardinality(members) \in Nat
  BY <1>2, FS_CardinalityType
<1> QED
  BY <1>1, <1>6, <1>7

(* The loop of AssignShardOwners ends with the best nodes in order. *)
LEMMA TopFound ==
    ASSUME NEW w \in Weights, NEW s \in Shard, NEW members \in SUBSET Node, members # {}
    PROVE  \E t : /\ IsTop(w, s, Copies(members), members, t)
                  /\ AssignShardOwners(w, members)[s] = [primary |-> Head(t), replicas |-> Tail(t)]
<1>0. PICK k \in Nat \ {0} : k = Copies(members) /\ members \in SUBSET Nat /\ IsFiniteSet(members)
  BY CopiesFacts
<1> DEFINE step == [x \in Seq(Node) \X members |-> Insert(w, s, k, x[1], x[2])]
<1>1. LoopBody(step, Seq(Node), members)
  <2>1. \A x \in Seq(Node) \X members : Insert(w, s, k, x[1], x[2]) \in Seq(Node)
    BY InsertTyped
  <2> QED
    BY <2>1, Zenon DEF LoopBody
<1>2. PICK h : Loops(step, <<>>, Seq(Node), members, h)
  <2>1. <<>> \in Seq(Node)
    OBVIOUS
  <2> HIDE DEF step
  <2> QED
    BY <1>0, <1>1, <2>1, FoldExists, Zenon
<1>3. \A T \in SUBSET members : T # {} => Max(T) \in T /\ T \ {Max(T)} \in SUBSET members /\ IsFiniteSet(T)
  BY <1>0, FS_Subset, MaxOfFinite
<1>4. TopLoop(w, s, k, members, h)
  <2>0. h \in [SUBSET members -> Seq(Node)] /\ \A T \in SUBSET members : h[T] = FoldStep(step, <<>>, h, T)
    BY <1>2, Zenon DEF Loops
  <2>1. ASSUME NEW T \in SUBSET members
        PROVE  h[T] = IF T = {} THEN <<>> ELSE Insert(w, s, k, h[T \ {Max(T)}], Max(T))
    <3>1. CASE T = {}
      BY <2>0, <3>1, Zenon DEF FoldStep
    <3>2. CASE T # {}
      <4>1. h[T \ {Max(T)}] \in Seq(Node) /\ Max(T) \in members
        BY <1>3, <2>0, <3>2
      <4>2. step[<<h[T \ {Max(T)}], Max(T)>>] = Insert(w, s, k, h[T \ {Max(T)}], Max(T))
        BY <4>1
      <4> HIDE DEF step
      <4> QED
        BY <2>0, <3>2, <4>2, Zenon DEF FoldStep
    <3> QED
      BY <3>1, <3>2
  <2> QED
    BY <2>0, <2>1, Zenon DEF TopLoop
<1>5. PICK g : /\ TopLoop(w, s, k, members, g)
               /\ AssignShardOwners(w, members)[s] = [primary |-> Head(g[members]), replicas |-> Tail(g[members])]
  <2>1. PICK g : g = CHOOSE f : TopLoop(w, s, k, members, f)
    OBVIOUS
  <2>2. TopLoop(w, s, k, members, g)
    BY <1>4, <2>1, Zenon
  <2> QED
    BY <1>0, <2>1, <2>2, TopIsLoop, Zenon
<1> DEFINE Wrong == {T \in SUBSET members : ~IsTop(w, s, k, T, g[T])}
<1>6. Wrong = {}
  <2> SUFFICES ASSUME Wrong # {} PROVE FALSE
    BY Zenon
  <2>1. \A T \in Wrong : IsFiniteSet(T)
    BY <1>0, FS_Subset
  <2>2. PICK T \in Wrong : \A U \in Wrong : Cardinality(T) <= Cardinality(U)
    BY <2>1, FewestElements, Zenon
  <2>3. T \in SUBSET members /\ IsFiniteSet(T) /\ ~IsTop(w, s, k, T, g[T])
    BY <2>1, <2>2, Zenon
  <2>4. g[T] = IF T = {} THEN <<>> ELSE Insert(w, s, k, g[T \ {Max(T)}], Max(T))
    BY <1>5, <2>3, Zenon DEF TopLoop
  <2>5. CASE T = {}
    <3>1. IsTop(w, s, k, {}, <<>>)
      BY <1>0 DEF IsTop, Sorted
    <3> QED
      BY <2>3, <2>4, <2>5, <3>1, Zenon
  <2>6. CASE T # {}
    <3>1. PICK n \in T : n = Max(T)
      BY <1>3, <2>3, <2>6
    <3>2. PICK U \in SUBSET members : U = T \ {n}
      BY <2>3
    <3>3. IsTop(w, s, k, U, g[U])
      <4>1. ~(Cardinality(T) <= Cardinality(U))
        BY <2>3, <3>1, <3>2, OneFewer, Zenon
      <4> QED
        BY <2>2, <3>2, <4>1, Zenon
    <3>4. n \in Node /\ n \notin U /\ U \in SUBSET Node /\ U \cup {n} = T
      BY <2>3, <3>1, <3>2
    <3>5. IsTop(w, s, k, U \cup {n}, Insert(w, s, k, g[U], n))
      BY <1>0, <3>3, <3>4, InsertKeepsTop, Zenon
    <3> QED
      BY <2>3, <2>4, <2>6, <3>1, <3>2, <3>4, <3>5, Zenon
  <2> QED
    BY <2>5, <2>6
<1>7. IsTop(w, s, k, members, g[members])
  BY <1>6, Zenon
<1> QED
  BY <1>0, <1>5, <1>7, Zenon

(* The owners of a shard, best first. *)
Ranked(w, s, members, t) ==
    /\ t \in Seq(members) /\ Len(t) = Copies(members) /\ IsTop(w, s, Copies(members), members, t)
    /\ AssignShardOwners(w, members)[s] = [primary |-> t[1], replicas |-> Tail(t)]
    /\ AssignShards(w, members)[s] = t[1]

(* AssignShards and AssignShardOwners agree on the primary. *)
LEMMA OwnersRanked ==
    ASSUME NEW w \in Weights, NEW s \in Shard, NEW members \in SUBSET Node, members # {}
    PROVE  \E t : Ranked(w, s, members, t)
<1>1. PICK t : /\ IsTop(w, s, Copies(members), members, t)
               /\ AssignShardOwners(w, members)[s] = [primary |-> Head(t), replicas |-> Tail(t)]
  BY TopFound, Zenon
<1>2. PICK k \in Nat \ {0} : k = Copies(members) /\ k <= Cardinality(members)
  BY CopiesFacts
<1>3. Len(t) = k
  BY <1>1, <1>2, TopIsFull
<1>4. t \in Seq(members) /\ Sorted(w, s, t) /\ \A n \in members : Listed(t, n) \/ Behind(w, s, k, t, n)
  BY <1>1, <1>2, Zenon DEF IsTop
<1>5. Head(t) = t[1] /\ 1 \in 1..Len(t) /\ t[1] \in members
  BY <1>2, <1>3, <1>4
<1>6. \A n \in members : n # t[1] => ranksBefore(w, s, t[1], n)
  <2> SUFFICES ASSUME NEW n \in members, n # t[1] PROVE ranksBefore(w, s, t[1], n)
    OBVIOUS
  <2>1. CASE Listed(t, n)
    <3>1. PICK i \in 1..Len(t) : t[i] = n
      BY <2>1 DEF Listed
    <3>2. 1 < i
      <4>1. i # 1
        BY <3>1
      <4> QED
        BY <1>2, <1>3, <4>1
    <3> QED
      BY <1>4, <1>5, <3>1, <3>2, Zenon DEF Sorted
  <2>2. CASE Behind(w, s, k, t, n)
    BY <1>5, <2>2, Zenon DEF Behind
  <2> QED
    BY <1>4, <2>1, <2>2
<1>7. AssignShards(w, members)[s] = t[1]
  <2>1. PICK b : b = AssignShards(w, members)[s] /\ IsBest(w, s, members, b)
    BY BestFound, Zenon
  <2>2. b \in members /\ \A n \in members : n # b => ranksBefore(w, s, b, n)
    BY <2>1, Zenon DEF IsBest
  <2>3. b \in Node /\ t[1] \in Node
    BY <1>5, <2>2
  <2>4. ~(ranksBefore(w, s, b, t[1]) /\ ranksBefore(w, s, t[1], b))
    BY <2>3, RankOrder, Zenon
  <2> QED
    BY <1>5, <1>6, <2>1, <2>2, <2>4, Zenon
<1> QED
  BY <1>1, <1>2, <1>3, <1>4, <1>5, <1>7, Zenon DEF Ranked

(* A primary ranks before every other node, an owner before every node     *)
(* that is not among the owners up to it.                                  *)
LEMMA RankedOrder ==
    ASSUME NEW w \in Weights, NEW s \in Shard, NEW members \in SUBSET Node, members # {},
           NEW t, Ranked(w, s, members, t), NEW j \in 1..Len(t),
           NEW n \in members \ {t[x] : x \in 1..j}
    PROVE  ranksBefore(w, s, t[j], n)
<1>1. t \in Seq(members) /\ Sorted(w, s, t) /\ (Listed(t, n) \/ Behind(w, s, Copies(members), t, n))
  BY Zenon DEF Ranked, IsTop
<1>2. CASE Listed(t, n)
  <2>1. PICK i \in 1..Len(t) : t[i] = n
    BY <1>2, Zenon DEF Listed
  <2>2. i \notin 1..j
    BY <2>1
  <2>3. j < i
    BY <1>1, <2>2
  <2> QED
    BY <1>1, <2>1, <2>3, Zenon DEF Sorted
<1>3. CASE Behind(w, s, Copies(members), t, n)
  BY <1>3, Zenon DEF Behind
<1> QED
  BY <1>1, <1>2, <1>3

(* placement never refuses: what it publishes for any membership. *)
LEMMA PlacementIs ==
    ASSUME NEW w \in Weights, NEW members \in SUBSET Node
    PROVE  Placement(w, members) =
               [nodes |-> members, shardMap |-> AssignShards(w, members),
                owners |-> AssignShardOwners(w, members), ok |-> TRUE]
<1>1. CASE members = {}
  <2>1. AssignShards(w, members) = <<>>
    BY <1>1 DEF AssignShards
  <2>2. DOMAIN AssignShards(w, members) = {}
    BY <2>1
  <2> QED
    BY <2>2 DEF Placement
<1>2. CASE members # {}
  <2>1. DOMAIN AssignShards(w, members) = Shard
    BY <1>2 DEF AssignShards
  <2>2. ASSUME NEW s \in Shard
        PROVE  AssignShardOwners(w, members)[s].primary = AssignShards(w, members)[s]
    <3>1. PICK t : Ranked(w, s, members, t)
      BY <1>2, OwnersRanked, Zenon
    <3>2. /\ AssignShardOwners(w, members)[s] = [primary |-> t[1], replicas |-> Tail(t)]
          /\ AssignShards(w, members)[s] = t[1]
      BY <3>1, Zenon DEF Ranked
    <3> QED
      BY <3>2
  <2> QED
    BY <2>1, <2>2, Zenon DEF Placement
<1> QED
  BY <1>1, <1>2

(* What a client's validation asks of the owners of one shard. *)
LEMMA RankedValid ==
    ASSUME NEW w \in Weights, NEW s \in Shard, NEW members \in SUBSET Node, members # {},
           NEW t, Ranked(w, s, members, t)
    PROVE  /\ t[1] \in members /\ Len(Tail(t)) <= Cardinality(members)
           /\ Range(Tail(t)) \subseteq members
           /\ <<t[1]>> \o Tail(t) = t /\ IsInjective(t)
<1>1. PICK k \in Nat \ {0} : k = Copies(members) /\ k <= Cardinality(members) /\ Cardinality(members) \in Nat
  <2>1. IsFiniteSet(members) /\ Copies(members) \in Nat \ {0} /\ Copies(members) <= Cardinality(members)
    BY CopiesFacts, Zenon
  <2>2. Cardinality(members) \in Nat
    BY <2>1, FS_CardinalityType, Zenon
  <2> QED
    BY <2>1, <2>2, Zenon
<1>2. t \in Seq(members) /\ Len(t) = k /\ Sorted(w, s, t)
  BY <1>1, Zenon DEF Ranked, IsTop
<1>3. t # <<>> /\ t[1] \in members
  BY <1>1, <1>2
<1>4. Tail(t) \in Seq(members) /\ Len(Tail(t)) = k - 1 /\ \A i \in 1..(k - 1) : Tail(t)[i] = t[i + 1]
  BY <1>1, <1>2, <1>3
<1>5. Range(Tail(t)) \subseteq members
  BY <1>4 DEF Range
<1>6. <<t[1]>> \o Tail(t) = t
  <2>1. PICK u : u = <<t[1]>> \o Tail(t)
    OBVIOUS
  <2>2. u \in Seq(members) /\ Len(u) = k
    BY <1>1, <1>3, <1>4, <2>1
  <2>3. \A i \in 1..k : u[i] = t[i]
    BY <1>1, <1>3, <1>4, <2>1
  <2>4. u = t
    BY <1>2, <2>2, <2>3
  <2> QED
    BY <2>1, <2>4
<1>7. IsInjective(t)
  <2>1. t \in Seq(Node) /\ DOMAIN t = 1..Len(t)
    BY <1>2
  <2> QED
    BY <1>2, <2>1, SortedInjective, Zenon DEF IsInjective
<1> QED
  BY <1>1, <1>3, <1>4, <1>5, <1>6, <1>7

-----------------------------------------------------------------------------
(* A sequence of the members in increasing order. *)
Sorts(ids, members) ==
    /\ ids \in [1..Cardinality(members) -> members]
    /\ \A i, j \in DOMAIN ids : i < j => ids[i] < ids[j]

(* Every finite set of IDs can be sorted (normalizeNodes): a smallest set  *)
(* that cannot be would become one that can by taking its least ID away.   *)
LEMMA SortExists ==
    ASSUME NEW members \in SUBSET Nat, IsFiniteSet(members)
    PROVE  \E ids : Sorts(ids, members)
<1> DEFINE Bad == {n \in Nat : \E m \in SUBSET Nat : IsFiniteSet(m) /\ Cardinality(m) = n /\ ~\E ids : Sorts(ids, m)}
<1>1. SUFFICES ASSUME Bad # {} PROVE FALSE
  BY FS_CardinalityType
<1>2. PICK n \in Bad : \A y \in Bad : n <= y
  BY <1>1, LeastNumber, Zenon
<1>3. PICK m \in SUBSET Nat : IsFiniteSet(m) /\ Cardinality(m) = n /\ ~\E ids : Sorts(ids, m)
  BY <1>2
<1>4. CASE m = {}
  <2>1. Sorts(<<>>, m)
    BY <1>4, FS_EmptySet DEF Sorts
  <2> QED
    BY <1>3, <2>1
<1>5. CASE m # {}
  <2>1. PICK least \in m : \A y \in m : least <= y
    BY <1>5, LeastNumber
  <2> DEFINE rest == m \ {least}
  <2>2. rest \in SUBSET Nat /\ IsFiniteSet(rest) /\ Cardinality(rest) = n - 1
    BY <1>3, <2>1, FS_RemoveElement
  <2>3. n - 1 \in Nat /\ n - 1 \notin Bad
    BY <1>2, <2>2, FS_CardinalityType
  <2>4. PICK ids : Sorts(ids, rest)
    BY <2>2, <2>3
  <2> DEFINE all == [i \in 1..n |-> IF i = 1 THEN least ELSE ids[i - 1]]
  <2>5. \A i \in 2..n : i - 1 \in 1..(n - 1) /\ ids[i - 1] \in rest
    <3> HIDE DEF rest
    <3>1. ids \in [1..(n - 1) -> rest]
      BY <2>2, <2>4 DEF Sorts
    <3> QED
      BY <1>2, <2>3, <3>1
  <2>6. all \in [1..n -> m]
    BY <1>2, <2>1, <2>5
  <2>7. \A i, j \in 1..n : i < j => all[i] < all[j]
    <3> SUFFICES ASSUME NEW i \in 1..n, NEW j \in 1..n, i < j PROVE all[i] < all[j]
      OBVIOUS
    <3>1. CASE i = 1
      <4>1. all[i] = least /\ all[j] = ids[j - 1] /\ ids[j - 1] \in rest
        BY <3>1, <2>5, <1>2
      <4>2. least \in Nat /\ ids[j - 1] \in Nat /\ least <= ids[j - 1] /\ least # ids[j - 1]
        BY <4>1, <2>1, Zenon
      <4> QED
        BY <4>1, <4>2
    <3>2. CASE i # 1
      <4>1. i \in 2..n /\ j \in 2..n /\ i - 1 < j - 1
        BY <3>2, <1>2
      <4>2. ids[i - 1] < ids[j - 1]
        BY <4>1, <2>5, <2>2, <2>4, Zenon DEF Sorts
      <4> QED
        BY <4>1, <4>2
    <3> QED
      BY <3>1, <3>2
  <2>8. Sorts(all, m)
    BY <1>3, <2>6, <2>7 DEF Sorts
  <2> QED
    BY <1>3, <2>8
<1> QED
  BY <1>4, <1>5

(* nodeAddresses lists as many addresses as there are. *)
LEMMA NodeIDsFacts ==
    ASSUME NEW members \in SUBSET Node, members # {}
    PROVE  NodeIDs(members) \in Seq(Node) /\ NodeIDs(members) # <<>>
<1>1. members \in SUBSET Nat /\ IsFiniteSet(members)
  BY RouterAssumption, FS_Subset, Zenon
<1>2. Sorts(NodeIDs(members), members)
  BY <1>1, SortExists DEF Sorts, NodeIDs
<1>3. Cardinality(members) \in Nat \ {0}
  BY <1>1, FS_CardinalityType, FS_EmptySet
<1> QED
  BY <1>2, <1>3 DEF Sorts

-----------------------------------------------------------------------------
(* A published topology is a record of nodes that are there. *)
LEMMA PublishedFacts ==
    ASSUME NEW t \in Published
    PROVE  t.nodes \subseteq Node /\ [t EXCEPT !.nodes = t.nodes] = t
<1>1. PICK w \in Weights, members \in SUBSET Node : t = Placement(w, members)
  BY DEF Published
<1>2. PICK m, o, r, b : t = [nodes |-> r, shardMap |-> m, owners |-> o, ok |-> b] /\ r \subseteq Node
  BY <1>1, ZenonT(40) DEF Placement, None
<1> QED
  BY <1>2

(* topology.validate: the primaries are nodes, and a topology with nodes   *)
(* has one for every shard.                                                *)
LEMMA ValidOwners ==
    ASSUME NEW t \in Published, Valid(t)
    PROVE  /\ Owning(t) \subseteq Node
           /\ t.nodes # {} => Owning(t) # {} /\ \A s \in Shard : t.shardMap[s] \in Node
<1>1. t.nodes \subseteq Node
  BY PublishedFacts
<1>2. CASE t.nodes = {}
  <2>1. t.shardMap = <<>>
    BY <1>2 DEF Valid
  <2> QED
    BY <1>2, <2>1 DEF Owning, Range
<1>3. CASE t.nodes # {}
  <2>1. DOMAIN t.shardMap = Shard /\ \A s \in Shard : t.shardMap[s] \in t.nodes
    BY <1>3, Zenon DEF Valid
  <2>2. PICK s \in Shard : TRUE
    BY RouterAssumption
  <2> QED
    BY <1>1, <2>1, <2>2 DEF Owning, Range
<1> QED
  BY <1>2, <1>3

(* The last topology is one of the published ones. *)
LEMMA LastPublished ==
    ASSUME history \in Seq(Published), history # <<>>
    PROVE  /\ Len(history) \in Nat \ {0} /\ Newest \in Published
           /\ \A i \in 1..Len(history) : history[i] \in Published
BY DEF Newest

(* What a caller is left with when its call is over. *)
LEMMA AfterCallFacts ==
    ASSUME NEW todo \in Seq(Node), NEW after \in AfterCall(todo)
    PROVE  /\ after \in CallerRecord /\ after.pc \in {"idle", "lookup"}
           /\ after.pc # "idle" => after.todo # <<>>
<1>1. <<>> \in Seq(Node) /\ 0 \in 0..MaxConns
  BY ClientAssumption
<1>2. CASE after = IdleCaller
  BY <1>1, <1>2 DEF IdleCaller, CallerRecord
<1>3. CASE Len(todo) > 1 /\ after = [pc |-> "lookup", todo |-> Tail(todo), conn |-> 0]
  <2>1. todo # <<>>
    BY <1>3
  <2>2. Tail(todo) \in Seq(Node) /\ Len(Tail(todo)) = Len(todo) - 1 /\ Len(todo) \in Nat
    BY <2>1
  <2>3. Tail(todo) # <<>>
    <3> DEFINE rest == Tail(todo)
    <3>1. Len(rest) > 0
      BY <1>3, <2>2
    <3> HIDE DEF rest
    <3>2. rest # <<>>
      BY <3>1
    <3> QED
      BY <3>2 DEF rest
  <2> HIDE DEF AfterCall
  <2> QED
    BY <1>1, <1>3, <2>2, <2>3 DEF CallerRecord
<1> QED
  BY <1>2, <1>3 DEF AfterCall

(* The goroutines at rest. *)
LEMMA IdleFacts ==
    /\ IdleRefresh \in RefreshRecord /\ IdleRefresh.pc = "idle" /\ IdleRefresh.nodes = 1
    /\ IdleRefresh.tries = 0 /\ IdleRefresh.retired = {}
    /\ IdleCaller \in CallerRecord /\ IdleCaller.pc = "idle"
    /\ IdleCloser \in CloserRecord /\ IdleCloser.pc = "idle" /\ IdleCloser.conns = {}
<1>1. <<>> \in Seq(Node) /\ 0 \in 0..MaxConns /\ 0 \in 0..MaxTries /\ 1 \in Nat
  BY ClientAssumption
<1> QED
  BY <1>1 DEF IdleRefresh, IdleCaller, IdleCloser, RefreshRecord, CallerRecord, CloserRecord

(* Nothing is dialled before New. *)
LEMMA InitInvariant == ASSUME Init PROVE IInv
<1>1. Types
  <2>1. Placement(weight, {}) \in Published
    BY DEF Init, Published
  <2>2. history \in Seq(Published) /\ history # <<>>
    BY <2>1 DEF Init
  <2>3. pool \in [DOMAIN pool -> Conn] /\ DOMAIN pool = {}
    BY DEF Init
  <2>4. caller \in [Caller -> CallerRecord] /\ closer \in [Closer -> CloserRecord] /\ refresh \in RefreshRecord
    BY IdleFacts DEF Init
  <2>5. open \subseteq 1..made /\ made \in 0..MaxConns
    BY ClientAssumption DEF Init
  <2> QED
    BY <2>2, <2>3, <2>4, <2>5, Zenon DEF Init, Types
<1>2. DOMAIN pool = {} /\ Len(history) = 1 /\ 1 \in 1..1
  BY DEF Init
<1>3. /\ refresh.pc = "idle" /\ refresh.nodes = 1 /\ refresh.tries = 0 /\ refresh.retired = {}
      /\ \A c \in Caller : caller[c].pc = "idle"
      /\ \A k \in Closer : closer[k].pc = "idle" /\ closer[k].conns = {}
  BY IdleFacts DEF Init
<1>4. StartInv /\ RefreshInv
  BY <1>2, <1>3 DEF Init, StartInv, RefreshInv
<1>5. PoolOwned
  BY <1>2 DEF PoolOwned
<1>6. HolderInv
  BY <1>2, <1>3 DEF Init, HolderInv, HeldOpen, HeldOnce, AllHeld, Inserting
<1> QED
  BY <1>1, <1>4, <1>5, <1>6 DEF IInv

(* A membership before there is a client. *)
LEMMA SettleInvariant ==
    ASSUME IInv, NEW members \in SUBSET Node, Settle(members)
    PROVE  IInv'
<1>1. history' \in Seq(Published) /\ history' # <<>> /\ Len(history') = 1
  BY DEF Settle, Published, IInv, Types
<1>2. refresh.pc = "idle" /\ refresh.nodes = 1
  BY DEF Settle, IInv, StartInv, RefreshInv
<1>3. UNCHANGED <<weight, started, topo, refresh, pool, closed, cancelled, closeDone, endpoints, open, made, caller, closer>>
      /\ ~started
  BY DEF Settle, ClientUnchanged
<1>4. Types'
  BY <1>1, <1>3 DEF IInv, Types
<1>5. StartInv' /\ RefreshInv'
  BY <1>1, <1>2, <1>3, SMTT(30), ZenonT(30) DEF IInv, StartInv, RefreshInv
<1>6. PoolOwned' /\ HolderInv'
  BY <1>3 DEF IInv, PoolOwned, HolderInv, HeldOpen, HeldOnce, AllHeld, IsHeld, Inserting
<1> QED
  BY <1>4, <1>5, <1>6 DEF IInv

(* New installs the last topology, which validate accepted. *)
LEMMA NewInvariant == ASSUME IInv, New PROVE IInv'
<1>1. UNCHANGED <<weight, history, pool, closed, cancelled, closeDone, endpoints, open, made, caller, closer>>
      /\ ~started /\ started' = TRUE /\ topo' = Newest /\ Valid(topo')
  BY DEF New, ClientUnchanged
<1>2. /\ refresh' \in RefreshRecord /\ refresh'.pc \in {"idle", "done"} /\ refresh'.nodes = 1
      /\ refresh'.tries = 0 /\ refresh'.retired = {}
  BY IdleFacts DEF New, RefreshRecord
<1>3. refresh.retired = {} /\ DOMAIN pool = {}
  BY <1>1 DEF IInv, StartInv, RefreshInv
<1>4. Len(history) \in 1..Len(history) /\ 1 \in 1..Len(history) /\ topo' = history[Len(history)]
  BY <1>1, LastPublished DEF IInv, Types, Newest
<1>5. Types'
  BY <1>1, <1>2 DEF IInv, Types
<1>6. StartInv' /\ RefreshInv'
  BY <1>1, <1>2, <1>4 DEF IInv, StartInv, RefreshInv
<1>7. PoolOwned' /\ HolderInv'
  BY <1>1, <1>2, <1>3, SMTT(30), ZenonT(30) DEF IInv, PoolOwned, HolderInv, HeldOpen, HeldOnce, AllHeld, IsHeld, Inserting
<1> QED
  BY <1>5, <1>6, <1>7 DEF IInv

(* A later topology leaves the earlier ones published. *)
LEMMA PublishInvariant ==
    ASSUME IInv, NEW n \in Churning, Publish(n)
    PROVE  IInv'
<1> DEFINE new == Placement(weight, SymDiff(Newest.nodes, {n}))
<1>1. new \in Published
  <2>1. Newest.nodes \subseteq Node
    BY LastPublished, PublishedFacts DEF IInv, Types
  <2>2. SymDiff(Newest.nodes, {n}) \in SUBSET Node
    BY <2>1, ClientAssumption DEF SymDiff
  <2>3. weight \in Weights
    BY DEF IInv, Types
  <2> QED
    BY <2>2, <2>3 DEF Published
<1>2. history' = Append(history, new)
      /\ UNCHANGED <<weight, started, topo, refresh, pool, closed, cancelled, closeDone, endpoints, open, made, caller, closer>>
  BY DEF Publish, ClientUnchanged
<1> HIDE DEF new
<1>3. /\ history' \in Seq(Published) /\ history' # <<>> /\ Len(history') = Len(history) + 1
      /\ \A i \in 1..Len(history) : history'[i] = history[i] /\ i \in 1..Len(history')
  BY <1>1, <1>2 DEF IInv, Types
<1>4. Types'
  BY <1>2, <1>3 DEF IInv, Types
<1>5. StartInv'
  <2>1. started' => \E i \in 1..Len(history') : topo' = history'[i]
    BY <1>2, <1>3 DEF IInv, StartInv
  <2> QED
    BY <1>2, <2>1 DEF IInv, StartInv
<1>6. RefreshInv'
  <2>1. refresh.pc = "install" => \E i \in 1..Len(history') : refresh.next = history'[i]
    BY <1>3 DEF IInv, RefreshInv
  <2> QED
    BY <1>2, <1>3, <2>1 DEF IInv, RefreshInv
<1>7. PoolOwned' /\ HolderInv'
  BY <1>2 DEF IInv, PoolOwned, HolderInv, HeldOpen, HeldOnce, AllHeld, IsHeld, Inserting
<1> QED
  BY <1>4, <1>5, <1>6, <1>7 DEF IInv

-----------------------------------------------------------------------------
(* A step of the refresh goroutine that holds no connection. *)
LEMMA RefreshOnly ==
    ASSUME IInv, started,
           refresh' \in RefreshRecord, RefreshInv', refresh'.retired = {}, refresh.retired = {},
           UNCHANGED <<weight, history, started, topo, pool, closed, cancelled, closeDone, endpoints,
                       open, made, caller, closer>>
    PROVE  IInv'
<1>1. Types'
  BY DEF IInv, Types
<1>2. StartInv' /\ PoolOwned'
  BY DEF IInv, StartInv, PoolOwned
<1>3. HolderInv'
  BY SMTT(30), ZenonT(30) DEF IInv, HolderInv, HeldOpen, HeldOnce, AllHeld, IsHeld, Inserting
<1> QED
  BY <1>1, <1>2, <1>3 DEF IInv

(* A goroutine that is not at rest belongs to a client. *)
LEMMA RefreshStarted == ASSUME IInv, refresh.pc # "idle" PROVE started
BY DEF IInv, StartInv

(* The fields of the refresh goroutine's record. *)
LEMMA RefreshFields ==
    ASSUME IInv
    PROVE  /\ refresh \in RefreshRecord /\ refresh.nodes \in 1..Len(history) /\ Len(history) \in Nat
           /\ refresh.tries \in 0..MaxTries /\ MaxTries \in Nat \ {0} /\ 1 \in 1..Len(history)
           /\ refresh.pc # "close" => refresh.retired = {}
BY LastPublished, ClientAssumption DEF IInv, Types, RefreshInv, RefreshRecord

(* FetchOnce: the first RPC. *)
LEMMA FetchNodesInvariant == ASSUME IInv, FetchNodes PROVE IInv'
<1>1. PICK i \in refresh.nodes..Len(history) :
          refresh' = [refresh EXCEPT !.pc = "shards", !.nodes = i, !.tries = @ + 1]
  BY Zenon DEF FetchNodes
<1> DEFINE tries == refresh.tries + 1
<1>2. tries \in 0..MaxTries
  BY RefreshFields DEF FetchNodes, IInv, RefreshInv
<1>3. refresh' = [refresh EXCEPT !.pc = "shards", !.nodes = i, !.tries = tries]
  BY <1>1
<1>4. i \in Nat /\ i \in 1..Len(history)
  BY RefreshFields
<1>5. refresh.retired = {} /\ started
  BY RefreshFields DEF FetchNodes
<1> HIDE DEF tries
<1>6. /\ refresh' \in RefreshRecord /\ refresh'.pc = "shards" /\ refresh'.nodes = i /\ refresh'.retired = {}
  BY <1>2, <1>3, <1>4, <1>5, RefreshFields, Zenon DEF RefreshRecord
<1>7. UNCHANGED <<weight, history, started, topo, pool, closed, cancelled, closeDone, endpoints, open, made, caller, closer>>
  BY DEF FetchNodes, RefreshUnchanged
<1>8. RefreshInv'
  BY <1>4, <1>6, <1>7 DEF RefreshInv
<1> QED
  BY <1>5, <1>6, <1>7, <1>8, RefreshOnly

(* Back to the ticker. *)
LEMMA GivesUp ==
    ASSUME IInv, started, refresh' = IdleRefresh, refresh.retired = {},
           UNCHANGED <<weight, history, started, topo, pool, closed, cancelled, closeDone, endpoints,
                       open, made, caller, closer>>
    PROVE  IInv'
<1>1. refresh' \in RefreshRecord /\ refresh'.retired = {}
  BY IdleFacts
<1>2. RefreshInv'
  BY IdleFacts, RefreshFields DEF RefreshInv
<1> QED
  BY <1>1, <1>2, RefreshOnly

(* FetchOnce: the second RPC, with another fingerprint. *)
LEMMA FetchIncoherentInvariant == ASSUME IInv, FetchIncoherent PROVE IInv'
<1>1. PICK j \in refresh.nodes..Len(history) :
          refresh' = IF TryAgain(refresh.tries) THEN [refresh EXCEPT !.pc = "again", !.nodes = j] ELSE IdleRefresh
  BY Zenon DEF FetchIncoherent
<1>2. started /\ refresh.retired = {}
  BY RefreshStarted, RefreshFields DEF FetchIncoherent
<1>3. UNCHANGED <<weight, history, started, topo, pool, closed, cancelled, closeDone, endpoints, open, made, caller, closer>>
  BY DEF FetchIncoherent, RefreshUnchanged
<1>4. CASE TryAgain(refresh.tries)
  <2>1. j \in Nat /\ j \in 1..Len(history)
    BY RefreshFields
  <2>2. /\ refresh' \in RefreshRecord /\ refresh'.pc = "again" /\ refresh'.nodes = j
        /\ refresh'.retired = {} /\ refresh'.tries = refresh.tries
    BY <1>1, <1>2, <1>4, <2>1, RefreshFields, Zenon DEF RefreshRecord
  <2>3. RefreshInv'
    BY <1>3, <1>4, <2>1, <2>2 DEF RefreshInv, TryAgain
  <2> QED
    BY <1>2, <1>3, <2>2, <2>3, RefreshOnly
<1>5. CASE ~TryAgain(refresh.tries)
  BY <1>1, <1>2, <1>3, <1>5, GivesUp
<1> QED
  BY <1>4, <1>5

(* FetchOnce: two answers with one fingerprint are one topology. *)
LEMMA FetchCoherentInvariant == ASSUME IInv, FetchCoherent PROVE IInv'
<1>1. PICK j \in refresh.nodes..Len(history) :
          /\ Coherent(refresh.nodes, j)
          /\ refresh' = IF Accepted(refresh.nodes, j)
                        THEN [IdleRefresh EXCEPT !.pc = "install", !.next = Response(refresh.nodes, j)]
                        ELSE IdleRefresh
  BY Zenon DEF FetchCoherent
<1>2. started /\ refresh.retired = {}
  BY RefreshStarted, RefreshFields DEF FetchCoherent
<1>3. UNCHANGED <<weight, history, started, topo, pool, closed, cancelled, closeDone, endpoints, open, made, caller, closer>>
  BY DEF FetchCoherent, RefreshUnchanged
<1>4. CASE Accepted(refresh.nodes, j)
  <2>1. j \in 1..Len(history) /\ history[j] \in Published
    BY RefreshFields, LastPublished DEF IInv, Types
  <2>2. history[refresh.nodes] = history[j]
    BY <1>1 DEF Coherent, Fingerprint
  <2>3. Response(refresh.nodes, j) = history[j]
    BY <2>1, <2>2, PublishedFacts DEF Response
  <2>4. Valid(history[j])
    BY <1>4, <2>3 DEF Accepted
  <2>5. refresh' = [IdleRefresh EXCEPT !.pc = "install", !.next = history[j]]
    BY <1>1, <1>4, <2>3
  <2>6. /\ refresh' \in RefreshRecord /\ refresh'.pc = "install" /\ refresh'.nodes = 1
        /\ refresh'.retired = {} /\ refresh'.next = history[j]
    BY <2>1, <2>5, IdleFacts, ZenonT(40) DEF RefreshRecord
  <2>7. RefreshInv'
    BY <1>3, <2>1, <2>4, <2>6, RefreshFields DEF RefreshInv
  <2> QED
    BY <1>2, <1>3, <2>6, <2>7, RefreshOnly
<1>5. CASE ~Accepted(refresh.nodes, j)
  BY <1>1, <1>2, <1>3, <1>5, GivesUp
<1> QED
  BY <1>4, <1>5

(* A fetch that fails, and the loop's end. *)
LEMMA FetchEndsInvariant == ASSUME IInv, FetchFails \/ RefreshExits PROVE IInv'
<1>1. UNCHANGED <<weight, history, started, topo, pool, closed, cancelled, closeDone, endpoints, open, made, caller, closer>>
  BY DEF FetchFails, RefreshExits, RefreshUnchanged
<1>2. refresh.retired = {}
  BY RefreshFields DEF FetchFails, RefreshExits
<1>3. CASE FetchFails
  <2>1. started
    BY <1>3, RefreshStarted DEF FetchFails
  <2> QED
    BY <1>1, <1>2, <1>3, <2>1, GivesUp DEF FetchFails
<1>4. CASE RefreshExits
  <2>1. started
    BY <1>4 DEF RefreshExits, IInv, StartInv
  <2>2. refresh' \in RefreshRecord /\ refresh'.pc = "done" /\ refresh'.nodes = 1 /\ refresh'.retired = {}
    BY <1>4, IdleFacts DEF RefreshExits, RefreshRecord
  <2>3. RefreshInv'
    BY <1>1, <2>2, RefreshFields DEF RefreshInv
  <2> QED
    BY <1>1, <1>2, <2>1, <2>2, <2>3, RefreshOnly
<1> QED
  BY <1>3, <1>4

(* Install: the retired connections pass from the pool to the goroutine. *)
LEMMA InstallInvariant == ASSUME IInv, Install PROVE IInv'
<1>1. started /\ refresh.pc = "install" /\ refresh.retired = {}
  BY RefreshStarted, RefreshFields DEF Install
<1>2. UNCHANGED <<weight, history, started, closed, cancelled, closeDone, endpoints, open, made, caller, closer>>
  BY DEF Install, RefreshUnchanged
<1>3. CASE closed
  BY <1>1, <1>2, <1>3, GivesUp DEF Install
<1>4. CASE ~closed
  <2> DEFINE out == Retire(refresh.next)
  <2>1. /\ topo' = refresh.next
        /\ pool' = [a \in DOMAIN pool \ out |-> pool[a]]
        /\ refresh' = [IdleRefresh EXCEPT !.pc = "close", !.retired = {pool[a] : a \in out}]
    BY <1>4 DEF Install
  <2>2. out = {a \in DOMAIN pool : a \notin Owning(refresh.next)}
    BY DEF Retire
  <2> HIDE DEF out
  <2>3. /\ DOMAIN pool' = DOMAIN pool \ out /\ \A a \in DOMAIN pool \ out : pool'[a] = pool[a]
        /\ pool \in [DOMAIN pool -> Conn] /\ DOMAIN pool \subseteq Node
        /\ pool' \in [DOMAIN pool' -> Conn]
    BY <2>1 DEF IInv, Types
  <2> DEFINE retired == {pool[a] : a \in out}
  <2>4. retired \subseteq Conn
    BY <2>2, <2>3
  <2>5. refresh' = [IdleRefresh EXCEPT !.pc = "close", !.retired = retired]
    BY <2>1
  <2>6. \A x : x \in retired <=> \E a \in out : pool[a] = x
    OBVIOUS
  <2> HIDE DEF retired
  <2>7. /\ refresh' \in RefreshRecord /\ refresh'.pc = "close" /\ refresh'.nodes = 1
        /\ refresh'.retired = retired
    BY <2>4, <2>5, IdleFacts, ZenonT(40) DEF RefreshRecord
  <2>8. Types'
    BY <1>2, <2>3, <2>7 DEF IInv, Types
  <2>9. StartInv'
    BY <1>1, <1>2, <2>1 DEF IInv, StartInv, RefreshInv
  <2>10. RefreshInv'
    BY <1>2, <2>7, RefreshFields DEF RefreshInv
  <2>11. PoolOwned'
    BY <2>1, <2>2, <2>3 DEF PoolOwned
  <2>12. HeldOpen'
    BY <1>2, <1>4, <2>2, <2>3, <2>6, <2>7 DEF IInv, HolderInv, HeldOpen, Inserting
  <2>13. HeldOnce'
    <3>1. HeldOnce /\ ~closed /\ closed' = closed /\ caller' = caller /\ closer' = closer
      BY <1>2, <1>4, Zenon DEF IInv, HolderInv
    <3>2. /\ \A a, b \in DOMAIN pool : pool[a] = pool[b] => a = b
          /\ \A a \in DOMAIN pool, c \in Caller : Inserting(c) => caller[c].conn # pool[a]
          /\ \A k \in Closer : closer[k].conns = {}
      BY <3>1, Zenon DEF HeldOnce
    <3>3. \A a \in DOMAIN pool' : a \in DOMAIN pool /\ a \notin out /\ pool'[a] = pool[a]
      BY <2>3, Zenon
    <3>4. \A a \in DOMAIN pool' : pool'[a] \notin retired
      <4> SUFFICES ASSUME NEW a \in DOMAIN pool', pool'[a] \in retired PROVE FALSE
        BY Zenon
      <4>1. PICK b \in out : pool[b] = pool'[a]
        BY <2>6, Zenon
      <4>2. b \in DOMAIN pool
        BY <2>2, Zenon
      <4>3. a \in DOMAIN pool /\ a \notin out /\ pool[b] = pool[a]
        BY <3>3, <4>1, Zenon
      <4> QED
        BY <3>2, <4>1, <4>2, <4>3, Zenon
    <3>5. \A c \in Caller : Inserting(c) => caller[c].conn \notin retired
      <4> SUFFICES ASSUME NEW c \in Caller, Inserting(c), caller[c].conn \in retired PROVE FALSE
        BY Zenon
      <4>1. PICK b \in out : pool[b] = caller[c].conn
        BY <2>6, Zenon
      <4>2. b \in DOMAIN pool
        BY <2>2, Zenon
      <4> QED
        BY <3>2, <4>1, <4>2, Zenon
    <3>6. \A k \in Closer : closer[k].conns \cap retired = {}
      BY <3>2, Zenon
    <3>7. /\ \A a, b \in DOMAIN pool' : pool'[a] = pool'[b] => a = b
          /\ \A a \in DOMAIN pool', c \in Caller : Inserting(c) => caller[c].conn # pool'[a]
      BY <3>2, <3>3, Zenon
    <3> QED
      BY <2>7, <3>1, <3>2, <3>4, <3>5, <3>6, <3>7, Zenon DEF HeldOnce, Inserting
  <2>14. AllHeld'
    <3> SUFFICES ASSUME NEW x \in open' PROVE IsHeld(x)'
      BY DEF AllHeld
    <3>1. IsHeld(x)
      BY <1>2 DEF IInv, HolderInv, AllHeld
    <3>2. CASE \E a \in DOMAIN pool : pool[a] = x
      BY <3>2, <1>2, <1>4, <2>2, <2>3, <2>6, <2>7 DEF IsHeld
    <3> QED
      BY <3>1, <3>2, <1>1, <1>2 DEF IsHeld, Inserting
  <2> QED
    BY <2>8, <2>9, <2>10, <2>11, <2>12, <2>13, <2>14 DEF IInv, HolderInv
<1> QED
  BY <1>3, <1>4

(* The retired connections are closed, once. *)
LEMMA CloseRetiredInvariant == ASSUME IInv, CloseRetired PROVE IInv'
<1>1. started /\ refresh.pc = "close"
  BY RefreshStarted DEF CloseRetired
<1>2. UNCHANGED <<weight, history, started, topo, pool, closed, cancelled, closeDone, endpoints, made, caller, closer>>
  BY DEF CloseRetired, RefreshUnchanged
<1>3. open' = open \ refresh.retired /\ refresh' = IdleRefresh
  BY DEF CloseRetired
<1>4. refresh' \in RefreshRecord /\ refresh'.pc = "idle" /\ refresh'.nodes = 1 /\ refresh'.tries = 0 /\ refresh'.retired = {}
  BY <1>3, IdleFacts
<1>5. Types'
  BY <1>2, <1>3, <1>4 DEF IInv, Types
<1>6. StartInv' /\ RefreshInv' /\ PoolOwned'
  BY <1>1, <1>2, <1>4, RefreshFields DEF IInv, StartInv, RefreshInv, PoolOwned
<1>7. HeldOpen'
  BY <1>2, <1>3, <1>4 DEF IInv, HolderInv, HeldOpen, HeldOnce, Inserting
<1>8. HeldOnce'
  BY <1>2, <1>4 DEF IInv, HolderInv, HeldOnce, Inserting
<1>9. AllHeld'
  BY <1>2, <1>3, <1>4 DEF IInv, HolderInv, AllHeld, IsHeld, Inserting
<1> QED
  BY <1>5, <1>6, <1>7, <1>8, <1>9 DEF IInv, HolderInv

-----------------------------------------------------------------------------
(* The fields of a caller's record. *)
LEMMA CallerFields ==
    ASSUME IInv, NEW c \in Caller
    PROVE  /\ caller \in [Caller -> CallerRecord] /\ caller[c] \in CallerRecord
           /\ caller[c].todo \in Seq(Node) /\ caller[c].conn \in 0..MaxConns
           /\ caller[c].pc # "idle" => started /\ caller[c].todo # <<>>
BY DEF IInv, Types, CallerRecord, StartInv

(* A step of a call that dials nothing and has nothing dialled. *)
LEMMA CallOnly ==
    ASSUME IInv, started, NEW c \in Caller, NEW new \in CallerRecord,
           caller' = [caller EXCEPT ![c] = new],
           caller[c].pc # "insert", new.pc # "insert", new.pc # "idle" => new.todo # <<>>,
           CallUnchanged, UNCHANGED <<pool, open, made>>
    PROVE  IInv'
<1>1. UNCHANGED <<weight, history, started, topo, closed, cancelled, closeDone, endpoints, refresh, closer, pool, open, made>>
  BY DEF CallUnchanged
<1>2. /\ caller \in [Caller -> CallerRecord] /\ caller' \in [Caller -> CallerRecord]
      /\ caller'[c] = new /\ \A d \in Caller \ {c} : caller'[d] = caller[d]
  BY DEF IInv, Types
<1>3. \A d \in Caller : Inserting(d)' <=> Inserting(d)
  BY <1>2 DEF Inserting
<1>4. \A d \in Caller : Inserting(d) => caller'[d] = caller[d]
  BY <1>2 DEF Inserting
<1>5. Types'
  BY <1>1, <1>2 DEF IInv, Types
<1>6. StartInv' /\ RefreshInv' /\ PoolOwned'
  BY <1>1, <1>2 DEF IInv, StartInv, RefreshInv, PoolOwned
<1>7. HeldOpen'
  BY <1>1, <1>3, <1>4, ZenonT(40) DEF IInv, HolderInv, HeldOpen
<1>8. HeldOnce'
  BY <1>1, <1>3, <1>4 DEF IInv, HolderInv, HeldOnce
<1>9. AllHeld'
  BY <1>1, <1>3, <1>4, Zenon DEF IInv, HolderInv, AllHeld, IsHeld
<1> QED
  BY <1>5, <1>6, <1>7, <1>8, <1>9 DEF IInv, HolderInv

(* clientForKey and nodeAddresses. *)
LEMMA RouteInvariant ==
    ASSUME IInv, NEW c \in Caller, RouteScan(c) \/ \E s \in Shard : RouteKey(c, s)
    PROVE  IInv'
<1>1. started /\ caller[c].pc = "idle" /\ CallUnchanged /\ UNCHANGED <<pool, open, made>> /\ topo.nodes # {}
  BY Zenon DEF RouteScan, RouteKey
<1>2. Valid(topo) /\ topo \in Published
  BY <1>1, LastPublished DEF IInv, Types, StartInv
<1>3. /\ Owning(topo) \in SUBSET Node /\ Owning(topo) # {}
      /\ \A s \in Shard : topo.shardMap[s] \in Node
  BY <1>1, <1>2, ValidOwners
<1>4. PICK todo \in Seq(Node) : /\ todo # <<>>
                                /\ caller' = [caller EXCEPT ![c] = [IdleCaller EXCEPT !.pc = "lookup", !.todo = todo]]
  <2>1. CASE RouteScan(c)
    BY <2>1, <1>3, NodeIDsFacts, ZenonT(40) DEF RouteScan
  <2>2. ASSUME NEW s \in Shard, RouteKey(c, s)
        PROVE  \E todo \in Seq(Node) :
                  /\ todo # <<>>
                  /\ caller' = [caller EXCEPT ![c] = [IdleCaller EXCEPT !.pc = "lookup", !.todo = todo]]
    <3>1. <<topo.shardMap[s]>> \in Seq(Node) /\ <<topo.shardMap[s]>> # <<>>
      BY <1>3
    <3> QED
      BY <2>2, <3>1, Zenon DEF RouteKey
  <2> QED
    BY <2>1, <2>2, ZenonT(40)
<1> DEFINE new == [IdleCaller EXCEPT !.pc = "lookup", !.todo = todo]
<1>5. new \in CallerRecord /\ new.pc = "lookup" /\ new.todo = todo
  BY IdleFacts, Zenon DEF CallerRecord
<1>6. caller' = [caller EXCEPT ![c] = new]
  BY <1>4
<1> HIDE DEF new
<1> QED
  BY <1>1, <1>4, <1>5, <1>6, CallOnly, Zenon

(* clientForAddress, first half, and a dial that fails. *)
LEMMA LookupInvariant ==
    ASSUME IInv, NEW c \in Caller, LookupFails(c) \/ LookupPooled(c) \/ LookupMisses(c) \/ DialFails(c)
    PROVE  IInv'
<1>1. /\ caller[c].pc \in {"lookup", "dial"} /\ CallUnchanged /\ UNCHANGED <<pool, open, made>>
  BY DEF LookupFails, LookupPooled, LookupMisses, DialFails
<1>2. /\ started /\ caller[c] \in CallerRecord /\ caller[c].todo \in Seq(Node) /\ caller[c].todo # <<>>
      /\ caller \in [Caller -> CallerRecord]
  BY <1>1, CallerFields
<1>3. PICK new \in CallerRecord :
          /\ caller' = [caller EXCEPT ![c] = new]
          /\ new.pc # "insert" /\ (new.pc # "idle" => new.todo # <<>>)
  <2>1. CASE LookupFails(c) \/ DialFails(c)
    BY <2>1, IdleFacts DEF LookupFails, DialFails
  <2>2. CASE LookupPooled(c)
    <3>1. PICK after \in AfterCall(caller[c].todo) : caller' = [caller EXCEPT ![c] = after]
      BY <2>2, Zenon DEF LookupPooled
    <3> QED
      BY <1>2, <3>1, AfterCallFacts, Zenon
  <2>3. CASE LookupMisses(c)
    <3> DEFINE next == [caller[c] EXCEPT !.pc = "dial"]
    <3>1. caller' = [caller EXCEPT ![c] = next]
      BY <1>2, <2>3 DEF LookupMisses
    <3>2. next \in CallerRecord /\ next.pc = "dial" /\ next.todo = caller[c].todo
      BY <1>2 DEF CallerRecord
    <3> HIDE DEF next
    <3> QED
      BY <1>2, <3>1, <3>2, Zenon
  <2> QED
    BY <2>1, <2>2, <2>3
<1> QED
  BY <1>1, <1>2, <1>3, CallOnly, ZenonT(40)

(* nodeConnFactory: a connection nobody has held before. *)
LEMMA DialInvariant == ASSUME IInv, NEW c \in Caller, Dial(c) PROVE IInv'
<1>1. UNCHANGED <<weight, history, started, topo, closed, cancelled, closeDone, endpoints, refresh, closer, pool>>
  BY DEF Dial, CallUnchanged
<1> DEFINE fresh == made + 1
<1>2. fresh \in 1..MaxConns /\ made' = fresh /\ open' = open \cup {fresh} /\ fresh \notin open
      /\ open' \subseteq 1..made' /\ made' \in 0..MaxConns
  BY ClientAssumption DEF Dial, IInv, Types
<1>3. caller' = [caller EXCEPT ![c].pc = "insert", ![c].conn = fresh]
  BY DEF Dial
<1> HIDE DEF fresh
<1> DEFINE new == [caller[c] EXCEPT !.pc = "insert", !.conn = fresh]
<1>4. /\ caller[c].pc = "dial" /\ caller \in [Caller -> CallerRecord] /\ caller[c] \in CallerRecord
      /\ started /\ caller[c].todo # <<>>
  BY CallerFields DEF Dial
<1>5. caller' = [caller EXCEPT ![c] = new]
  BY <1>3, <1>4, Zenon
<1>6. new \in CallerRecord /\ new.pc = "insert" /\ new.conn = fresh /\ new.todo = caller[c].todo
  BY <1>2, <1>4, ZenonT(40) DEF CallerRecord
<1> HIDE DEF new
<1>7. /\ caller' \in [Caller -> CallerRecord] /\ caller'[c] = new
      /\ \A d \in Caller \ {c} : caller'[d] = caller[d]
  BY <1>4, <1>5, <1>6
<1>8. /\ Inserting(c)' /\ ~Inserting(c) /\ \A d \in Caller \ {c} : Inserting(d)' <=> Inserting(d)
  BY <1>4, <1>6, <1>7 DEF Inserting
<1>9. Types'
  BY <1>1, <1>2, <1>7 DEF IInv, Types
<1>10. StartInv' /\ RefreshInv' /\ PoolOwned'
  BY <1>1, <1>4, <1>6, <1>7 DEF IInv, StartInv, RefreshInv, PoolOwned
<1>11. HeldOpen'
  BY <1>1, <1>2, <1>6, <1>7, <1>8 DEF IInv, HolderInv, HeldOpen
<1>12. HeldOnce'
  <2>1. HeldOpen /\ HeldOnce
    BY Zenon DEF IInv, HolderInv
  <2>2. /\ fresh \notin refresh.retired
        /\ (\A k \in Closer : fresh \notin closer[k].conns)
        /\ ~closed => \A a \in DOMAIN pool : fresh # pool[a]
    BY <1>2, <2>1, Zenon DEF HeldOpen
  <2>3. ASSUME NEW d \in Caller, Inserting(d)'
        PROVE  \/ d = c /\ caller'[d].conn = fresh
               \/ d # c /\ Inserting(d) /\ caller'[d].conn = caller[d].conn /\ caller[d].conn # fresh
    BY <1>2, <1>6, <1>7, <1>8, <2>1, <2>3, Zenon DEF HeldOpen
  <2>4. /\ ~closed' => \A a \in DOMAIN pool', d \in Caller : Inserting(d)' => caller'[d].conn # pool'[a]
        /\ \A d \in Caller : Inserting(d)' => caller'[d].conn \notin refresh'.retired
        /\ \A d \in Caller, k \in Closer : Inserting(d)' => caller'[d].conn \notin closer'[k].conns
    BY <1>1, <2>1, <2>2, <2>3, ZenonT(40) DEF HeldOnce
  <2>5. \A d, e \in Caller :
           Inserting(d)' /\ Inserting(e)' /\ caller'[d].conn = caller'[e].conn => d = e
    BY <2>1, <2>3, ZenonT(40) DEF HeldOnce
  <2> QED
    BY <1>1, <2>1, <2>4, <2>5, ZenonT(40) DEF HeldOnce
<1>13. AllHeld'
  <2> SUFFICES ASSUME NEW x \in open' PROVE IsHeld(x)'
    BY DEF AllHeld
  <2>1. CASE x = fresh
    BY <2>1, <1>6, <1>7, <1>8 DEF IsHeld
  <2>2. CASE x \in open
    BY <2>2, <1>1, <1>7, <1>8 DEF IInv, HolderInv, AllHeld, IsHeld
  <2> QED
    BY <2>1, <2>2, <1>2
<1> QED
  BY <1>9, <1>10, <1>11, <1>12, <1>13 DEF IInv, HolderInv

(* A caller that leaves the second half of clientForAddress. *)
LEMMA LeavesInsert ==
    ASSUME IInv, NEW c \in Caller, caller[c].pc = "insert",
           NEW new \in CallerRecord, new.pc \in {"idle", "lookup"},
           caller' = [caller EXCEPT ![c] = new]
    PROVE  /\ caller' \in [Caller -> CallerRecord] /\ caller'[c] = new
           /\ \A d \in Caller \ {c} : caller'[d] = caller[d]
           /\ Inserting(c) /\ ~Inserting(c)' /\ started /\ caller[c].todo # <<>>
           /\ \A d \in Caller \ {c} : Inserting(d)' <=> Inserting(d)
           /\ caller[c].conn \in open
<1>1. /\ caller' \in [Caller -> CallerRecord] /\ caller'[c] = new
      /\ \A d \in Caller \ {c} : caller'[d] = caller[d]
  BY CallerFields
<1>2. started /\ caller[c].todo # <<>>
  BY CallerFields
<1>3. caller[c].conn \in open
  BY DEF IInv, HolderInv, HeldOpen, Inserting
<1> QED
  BY <1>1, <1>2, <1>3 DEF Inserting

(* clientForAddress closes the connection it has dialled for nothing. *)
LEMMA InsertClosesInvariant ==
    ASSUME IInv, NEW c \in Caller, InsertRefused(c) \/ InsertReuses(c)
    PROVE  IInv'
<1>1. UNCHANGED <<weight, history, started, topo, closed, cancelled, closeDone, endpoints, refresh, closer, pool, made>>
      /\ caller[c].pc = "insert" /\ open' = open \ {caller[c].conn}
  BY DEF InsertRefused, InsertReuses, CallUnchanged
<1>2. PICK new \in CallerRecord :
          /\ caller' = [caller EXCEPT ![c] = new]
          /\ new.pc \in {"idle", "lookup"} /\ (new.pc # "idle" => new.todo # <<>>)
  <2>1. CASE InsertRefused(c)
    BY <2>1, IdleFacts, Zenon DEF InsertRefused
  <2>2. CASE InsertReuses(c)
    <3>1. PICK after \in AfterCall(caller[c].todo) : caller' = [caller EXCEPT ![c] = after]
      BY <2>2, Zenon DEF InsertReuses
    <3>2. caller[c].todo \in Seq(Node)
      BY CallerFields
    <3> QED
      BY <3>1, <3>2, AfterCallFacts, Zenon
  <2> QED
    BY <2>1, <2>2
<1>3. /\ caller' \in [Caller -> CallerRecord] /\ caller'[c] = new
      /\ \A d \in Caller \ {c} : caller'[d] = caller[d]
      /\ Inserting(c) /\ ~Inserting(c)' /\ started /\ caller[c].todo # <<>>
      /\ \A d \in Caller \ {c} : Inserting(d)' <=> Inserting(d)
      /\ caller[c].conn \in open
  BY <1>1, <1>2, LeavesInsert, Zenon
<1>4. Types'
  BY <1>1, <1>3 DEF IInv, Types
<1>5. StartInv' /\ RefreshInv' /\ PoolOwned'
  BY <1>1, <1>2, <1>3, ZenonT(40) DEF IInv, StartInv, RefreshInv, PoolOwned
<1>6. HeldOpen'
  BY <1>1, <1>3, ZenonT(40) DEF IInv, HolderInv, HeldOpen, HeldOnce
<1>7. HeldOnce'
  BY <1>1, <1>3 DEF IInv, HolderInv, HeldOnce
<1>8. AllHeld'
  BY <1>1, <1>3 DEF IInv, HolderInv, AllHeld, IsHeld
<1> QED
  BY <1>4, <1>5, <1>6, <1>7, <1>8 DEF IInv, HolderInv

(* clientForAddress pools the connection: the caller hands it over. *)
LEMMA InsertPoolsInvariant == ASSUME IInv, NEW c \in Caller, InsertPools(c) PROVE IInv'
<1> DEFINE addr == Head(caller[c].todo)
<1> DEFINE conn == caller[c].conn
<1>1. /\ UNCHANGED <<weight, history, started, topo, closed, cancelled, closeDone, endpoints, refresh, closer, open, made>>
      /\ caller[c].pc = "insert" /\ ~closed /\ addr \in Owning(topo) /\ addr \notin DOMAIN pool
      /\ pool' = [b \in DOMAIN pool \cup {addr} |-> IF b = addr THEN conn ELSE pool[b]]
  BY DEF InsertPools, CallUnchanged, MayPool, Free
<1>2. PICK new \in CallerRecord :
          /\ caller' = [caller EXCEPT ![c] = new]
          /\ new.pc \in {"idle", "lookup"} /\ (new.pc # "idle" => new.todo # <<>>)
  <2>1. PICK after \in AfterCall(caller[c].todo) : caller' = [caller EXCEPT ![c] = after]
    BY ZenonT(40) DEF InsertPools
  <2>2. caller[c].todo \in Seq(Node)
    BY CallerFields
  <2> QED
    BY <2>1, <2>2, AfterCallFacts, Zenon
<1>3. /\ caller' \in [Caller -> CallerRecord] /\ caller'[c] = new
      /\ \A d \in Caller \ {c} : caller'[d] = caller[d]
      /\ Inserting(c) /\ ~Inserting(c)' /\ started /\ caller[c].todo # <<>>
      /\ \A d \in Caller \ {c} : Inserting(d)' <=> Inserting(d)
      /\ conn \in open
  BY <1>1, <1>2, LeavesInsert, Zenon
<1>4. addr \in Node
  BY <1>1, <1>3, ValidOwners, LastPublished DEF IInv, Types, StartInv
<1>5. conn \in Conn
  <2>1. open \subseteq 1..made /\ made \in 0..MaxConns /\ MaxConns \in Nat
    BY ClientAssumption DEF IInv, Types
  <2>2. open \subseteq Conn
    BY <2>1 DEF Conn
  <2> QED
    BY <1>3, <2>2
<1> HIDE DEF addr
<1>6. \A d \in Caller \ {c} : Inserting(d) => caller[d].conn # conn
  BY <1>3, ZenonT(40) DEF IInv, HolderInv, HeldOnce
<1>7. conn \notin refresh.retired /\ \A k \in Closer : conn \notin closer[k].conns
  BY <1>3 DEF IInv, HolderInv, HeldOnce
<1>8. \A a \in DOMAIN pool : pool[a] # conn
  BY <1>1, <1>3, ZenonT(40) DEF IInv, HolderInv, HeldOnce
<1>9. \A x : IsHeld(x) <=> \/ \E a \in DOMAIN pool : pool[a] = x
                           \/ \E d \in Caller \ {c} : Inserting(d) /\ caller[d].conn = x
                           \/ x = conn
                           \/ \E k \in Closer : x \in closer[k].conns
                           \/ x \in refresh.retired
  BY <1>1, <1>3 DEF IsHeld
<1> HIDE DEF conn
<1>10. /\ DOMAIN pool' = DOMAIN pool \cup {addr} /\ pool'[addr] = conn
       /\ \A b \in DOMAIN pool : pool'[b] = pool[b]
       /\ pool' \in [DOMAIN pool' -> Conn] /\ DOMAIN pool' \subseteq Node
  BY <1>1, <1>4, <1>5 DEF IInv, Types
<1>11. Types'
  BY <1>1, <1>3, <1>10 DEF IInv, Types
<1>12. StartInv' /\ RefreshInv'
  BY <1>1, <1>2, <1>3, ZenonT(40) DEF IInv, StartInv, RefreshInv
<1>13. PoolOwned'
  BY <1>1, <1>10 DEF IInv, PoolOwned
<1>14. HeldOpen'
  BY <1>1, <1>3, <1>10, ZenonT(40) DEF IInv, HolderInv, HeldOpen
<1>15. HeldOnce'
  <2>1. HeldOnce /\ ~closed'
    BY <1>1, ZenonT(40) DEF IInv, HolderInv
  <2>2. \A a, b \in DOMAIN pool' : pool'[a] = pool'[b] => a = b
    BY <1>1, <1>8, <1>10, <2>1, ZenonT(40) DEF HeldOnce
  <2>3. \A a \in DOMAIN pool', d \in Caller : Inserting(d)' => caller'[d].conn # pool'[a]
    <3> SUFFICES ASSUME NEW a \in DOMAIN pool', NEW d \in Caller, Inserting(d)'
                 PROVE  caller'[d].conn # pool'[a]
      OBVIOUS
    <3>1. d # c /\ Inserting(d) /\ caller'[d] = caller[d] /\ caller[d].conn # conn
      BY <1>3, <1>6
    <3>2. CASE a = addr
      BY <3>1, <3>2, <1>10
    <3>3. CASE a # addr
      BY <1>1, <1>10, <2>1, <3>1, <3>3 DEF HeldOnce
    <3> QED
      BY <3>2, <3>3
  <2>4. \A a \in DOMAIN pool' : pool'[a] \notin refresh'.retired
    BY <1>1, <1>7, <1>10, <2>1 DEF HeldOnce
  <2>5. \A d, e \in Caller : Inserting(d)' /\ Inserting(e)' /\ caller'[d].conn = caller'[e].conn => d = e
    BY <1>1, <1>3, <2>1 DEF HeldOnce
  <2> QED
    BY <1>1, <1>3, <2>1, <2>2, <2>3, <2>4, <2>5, ZenonT(40) DEF HeldOnce
<1>16. AllHeld'
  BY <1>1, <1>3, <1>9, <1>10 DEF IInv, HolderInv, AllHeld, IsHeld
<1> QED
  BY <1>11, <1>12, <1>13, <1>14, <1>15, <1>16 DEF IInv, HolderInv

-----------------------------------------------------------------------------
(* The fields of a closer's record. *)
LEMMA CloserFields ==
    ASSUME IInv, NEW k \in Closer
    PROVE  /\ closer \in [Closer -> CloserRecord] /\ closer[k] \in CloserRecord
           /\ closer[k].conns \subseteq Conn
BY DEF IInv, Types, CloserRecord

(* Close: the first one takes the pool's connections. *)
LEMMA CloseBeginInvariant == ASSUME IInv, NEW k \in Closer, CloseBegin(k) PROVE IInv'
<1>1. UNCHANGED <<weight, history, started, topo, pool, made, refresh, caller, cancelled, closeDone, endpoints, open>>
      /\ started /\ closer[k].pc = "idle" /\ closed' = TRUE
  BY DEF CloseBegin, CloseUnchanged
<1> DEFINE taken == IF closed THEN {} ELSE Range(pool)
<1> DEFINE new == [pc |-> IF closed THEN "wait" ELSE "cancel", conns |-> taken]
<1>2. closer' = [closer EXCEPT ![k] = new]
  BY ZenonT(40) DEF CloseBegin
<1>3. \A x : x \in taken <=> ~closed /\ \E a \in DOMAIN pool : pool[a] = x
  BY DEF Range
<1>4. taken \subseteq Conn
  BY <1>3 DEF IInv, Types
<1>5. closer[k].conns = {}
  BY <1>1 DEF IInv, HolderInv, HeldOnce
<1> HIDE DEF taken
<1>6. new \in CloserRecord /\ new.pc # "idle" /\ new.conns = taken /\ (closed \/ new.pc = "cancel")
  BY <1>4 DEF CloserRecord
<1>7. closed => taken = {}
  BY <1>3
<1> HIDE DEF new
<1>8. /\ closer' \in [Closer -> CloserRecord] /\ closer'[k] = new
      /\ \A l \in Closer \ {k} : closer'[l] = closer[l]
  BY <1>2, <1>6, CloserFields
<1>9. Types'
  BY <1>1, <1>8 DEF IInv, Types
<1>10. StartInv' /\ RefreshInv' /\ PoolOwned'
  BY <1>1, <1>8, ZenonT(40) DEF IInv, StartInv, RefreshInv, PoolOwned
<1>11. HeldOpen'
  BY <1>1, <1>3, <1>6, <1>8, SMTT(30), ZenonT(30) DEF IInv, HolderInv, HeldOpen, Inserting
<1>12. HeldOnce'
  <2>1. HeldOnce
    BY DEF IInv, HolderInv
  <2>2. ~closed => \A l \in Closer : closer[l].conns = {}
    BY <2>1 DEF HeldOnce
  <2>3. \A c \in Caller : Inserting(c) => caller[c].conn \notin taken
    BY <1>3, <2>1, SMTT(30), ZenonT(30) DEF HeldOnce
  <2>4. taken \cap refresh.retired = {}
    BY <1>3, <2>1 DEF HeldOnce
  <2>5. \A l \in Closer \ {k} : closer[l].conns \cap taken = {}
    BY <1>7, <2>2
  <2>6. \A c \in Caller, l \in Closer : Inserting(c) => caller[c].conn \notin closer'[l].conns
    BY <1>6, <1>8, <2>1, <2>3 DEF HeldOnce
  <2>7. \A l, m \in Closer : l # m => closer'[l].conns \cap closer'[m].conns = {}
    <3> SUFFICES ASSUME NEW l \in Closer, NEW m \in Closer, l # m
                 PROVE  closer'[l].conns \cap closer'[m].conns = {}
      BY Zenon
    <3>1. CASE l # k /\ m # k
      <4>1. closer'[l] = closer[l] /\ closer'[m] = closer[m]
        BY <1>8, <3>1, Zenon
      <4> QED
        BY <2>1, <4>1, Zenon DEF HeldOnce
    <3>2. CASE l = k
      <4>1. closer'[l].conns = taken /\ closer'[m] = closer[m] /\ closer[m].conns \cap taken = {}
        BY <1>6, <1>8, <2>5, <3>2, Zenon
      <4> QED
        BY <4>1, Zenon
    <3>3. CASE m = k
      <4>1. closer'[m].conns = taken /\ closer'[l] = closer[l] /\ closer[l].conns \cap taken = {}
        BY <1>6, <1>8, <2>5, <3>3, Zenon
      <4> QED
        BY <4>1, Zenon
    <3> QED
      BY <3>1, <3>2, <3>3, Zenon
  <2>8. \A l \in Closer : closer'[l].conns \cap refresh.retired = {}
    BY <1>6, <1>8, <2>1, <2>4 DEF HeldOnce
  <2>9. \A l \in Closer : closer'[l].pc \notin {"cancel", "join"} => closer'[l].conns = {}
    BY <1>6, <1>7, <1>8, <2>1 DEF HeldOnce
  <2> QED
    BY <1>1, <2>1, <2>6, <2>7, <2>8, <2>9 DEF HeldOnce, Inserting
<1>13. AllHeld'
  <2> SUFFICES ASSUME NEW x \in open PROVE IsHeld(x)'
    BY <1>1 DEF AllHeld
  <2>1. IsHeld(x)
    BY DEF IInv, HolderInv, AllHeld
  <2> QED
    BY <2>1, <1>1, <1>3, <1>5, <1>6, <1>8 DEF IsHeld, Inserting
<1> QED
  BY <1>9, <1>10, <1>11, <1>12, <1>13 DEF IInv, HolderInv

(* Close goes on, or has waited for the first one: it keeps what it holds. *)
LEMMA CloseMovesInvariant ==
    ASSUME IInv, NEW k \in Closer, CloseCancel(k) \/ CloseWaits(k)
    PROVE  IInv'
<1>1. UNCHANGED <<weight, history, started, topo, pool, made, refresh, caller, closed, closeDone, endpoints, open>>
  BY DEF CloseCancel, CloseWaits, CloseUnchanged
<1>2. PICK pc \in {"join", "returned"} :
         closer' = [closer EXCEPT ![k].pc = pc] /\ (pc = "returned" => closer[k].pc = "wait")
  BY DEF CloseCancel, CloseWaits
<1>3. started /\ cancelled' \in BOOLEAN
  BY ZenonT(40) DEF CloseCancel, CloseWaits, IInv, Types, StartInv
<1>4. closer \in [Closer -> CloserRecord] /\ closer[k] \in CloserRecord
  BY CloserFields
<1> DEFINE new == [closer[k] EXCEPT !.pc = pc]
<1>5. closer' = [closer EXCEPT ![k] = new]
  BY <1>2, <1>4
<1>6. new \in CloserRecord /\ new.pc = pc /\ new.conns = closer[k].conns
  BY <1>4 DEF CloserRecord
<1>7. pc = "returned" => closer[k].conns = {}
  BY <1>2 DEF IInv, HolderInv, HeldOnce
<1> HIDE DEF new
<1>8. /\ closer' \in [Closer -> CloserRecord] /\ closer'[k] = new
      /\ \A l \in Closer \ {k} : closer'[l] = closer[l]
  BY <1>4, <1>5, <1>6
<1>9. \A l \in Closer : closer'[l].conns = closer[l].conns
  BY <1>6, <1>8
<1>10. \A l \in Closer : closer'[l].pc \notin {"cancel", "join"} => closer[l].conns = {}
  BY <1>6, <1>7, <1>8 DEF IInv, HolderInv, HeldOnce
<1>11. Types'
  BY <1>1, <1>3, <1>8 DEF IInv, Types
<1>12. StartInv' /\ RefreshInv' /\ PoolOwned'
  BY <1>1, <1>3, ZenonT(40) DEF IInv, StartInv, RefreshInv, PoolOwned
<1>13. HeldOpen'
  BY <1>1, <1>9 DEF IInv, HolderInv, HeldOpen, Inserting
<1>14. HeldOnce'
  BY <1>1, <1>9, <1>10 DEF IInv, HolderInv, HeldOnce, Inserting
<1>15. AllHeld'
  BY <1>1, <1>9 DEF IInv, HolderInv, AllHeld, IsHeld, Inserting
<1> QED
  BY <1>11, <1>12, <1>13, <1>14, <1>15 DEF IInv, HolderInv

(* Close closes what it has taken, once. *)
LEMMA CloseConnsInvariant == ASSUME IInv, NEW k \in Closer, CloseConns(k) PROVE IInv'
<1>1. UNCHANGED <<weight, history, started, topo, pool, made, refresh, caller, closed, cancelled>>
      /\ closer[k].pc = "join" /\ open' = open \ closer[k].conns /\ endpoints' = FALSE /\ closeDone' = TRUE
  BY DEF CloseConns, CloseUnchanged
<1> DEFINE new == [pc |-> "returned", conns |-> {}]
<1>2. closer' = [closer EXCEPT ![k] = new]
  BY DEF CloseConns
<1>3. new \in CloserRecord /\ new.pc = "returned" /\ new.conns = {}
  BY DEF CloserRecord
<1> HIDE DEF new
<1>4. /\ closer' \in [Closer -> CloserRecord] /\ closer'[k] = new
      /\ \A l \in Closer \ {k} : closer'[l] = closer[l]
  BY <1>2, <1>3, CloserFields
<1>5. started /\ (~closed => closer[k].conns = {})
  BY <1>1, ZenonT(40) DEF IInv, StartInv, HolderInv, HeldOnce
<1>6. Types'
  BY <1>1, <1>4, Zenon DEF IInv, Types
<1>7. StartInv' /\ RefreshInv' /\ PoolOwned'
  BY <1>1, <1>5, ZenonT(40) DEF IInv, StartInv, RefreshInv, PoolOwned
<1>8. HeldOpen'
  <2>1. HeldOpen /\ HeldOnce
    BY DEF IInv, HolderInv
  <2>2. closed' = closed /\ (~closed => open' = open)
    BY <1>1, <1>5
  <2>3. ~closed' => \A a \in DOMAIN pool' : pool'[a] \in open'
    <3>1. pool' = pool
      BY <1>1
    <3>2. ~closed => \A a \in DOMAIN pool : pool[a] \in open
      BY <2>1 DEF HeldOpen
    <3> QED
      BY <2>2, <3>1, <3>2
  <2>4. \A c \in Caller : Inserting(c)' => caller'[c].conn \in open'
    BY <1>1, <2>1 DEF HeldOpen, HeldOnce, Inserting
  <2>5. \A l \in Closer : closer'[l].conns \subseteq open'
    <3>1. ASSUME NEW l \in Closer, l # k PROVE closer'[l].conns \subseteq open'
      <4>1. closer[l].conns \subseteq open /\ closer[k].conns \cap closer[l].conns = {}
        BY <2>1, <3>1 DEF HeldOpen, HeldOnce
      <4> QED
        BY <1>1, <1>4, <3>1, <4>1
    <3> QED
      BY <1>3, <1>4, <3>1
  <2>6. refresh'.retired \subseteq open'
    <3>1. refresh.retired \subseteq open /\ closer[k].conns \cap refresh.retired = {}
      BY <2>1 DEF HeldOpen, HeldOnce
    <3> QED
      BY <1>1, <3>1
  <2> QED
    BY <2>3, <2>4, <2>5, <2>6 DEF HeldOpen
<1>9. HeldOnce'
  <2>1. HeldOnce
    BY DEF IInv, HolderInv
  <2>2. \A l \in Closer : closer'[l].conns \subseteq closer[l].conns
    BY <1>3, <1>4
  <2>3. \A l \in Closer : closer'[l].pc \notin {"cancel", "join"} => closer'[l].conns = {}
    BY <1>3, <1>4, <2>1 DEF HeldOnce
  <2>4. ~closed => \A l \in Closer : closer'[l].conns = {}
    BY <2>1, <2>2 DEF HeldOnce
  <2>5. \A l, m \in Closer : l # m => closer'[l].conns \cap closer'[m].conns = {}
    BY <2>1, <2>2 DEF HeldOnce
  <2>6. \A l \in Closer : closer'[l].conns \cap refresh.retired = {}
    BY <2>1, <2>2 DEF HeldOnce
  <2>7. \A c \in Caller, l \in Closer : Inserting(c) => caller[c].conn \notin closer'[l].conns
    BY <2>1, <2>2, SMTT(30), ZenonT(30) DEF HeldOnce
  <2> QED
    BY <1>1, <2>1, <2>3, <2>4, <2>5, <2>6, <2>7 DEF HeldOnce, Inserting
<1>10. AllHeld'
  BY <1>1, <1>4 DEF IInv, HolderInv, AllHeld, IsHeld, Inserting
<1> QED
  BY <1>6, <1>7, <1>8, <1>9, <1>10 DEF IInv, HolderInv

-----------------------------------------------------------------------------
(* Every step of the control plane, the goroutines and the callers. *)
LEMMA NextInvariant == ASSUME IInv, [Next]_vars PROVE IInv'
<1>1. CASE UNCHANGED vars
  <2>1. Types' /\ StartInv' /\ RefreshInv' /\ PoolOwned'
    BY <1>1 DEF vars, IInv, Types, StartInv, RefreshInv, PoolOwned
  <2>2. HeldOpen' /\ HeldOnce'
    BY <1>1 DEF vars, IInv, HolderInv, HeldOpen, HeldOnce, Inserting
  <2>3. AllHeld'
    BY <1>1 DEF vars, IInv, HolderInv, AllHeld, IsHeld, Inserting
  <2> QED
    BY <2>1, <2>2, <2>3 DEF IInv, HolderInv
<1>2. CASE (\E members \in SUBSET Node : Settle(members)) \/ New \/ \E n \in Churning : Publish(n)
  BY <1>2, SettleInvariant, NewInvariant, PublishInvariant
<1>3. CASE FetchNodes \/ RefreshStep
  BY <1>3, FetchNodesInvariant, FetchEndsInvariant, FetchIncoherentInvariant, FetchCoherentInvariant,
     InstallInvariant, CloseRetiredInvariant DEF RefreshStep
<1>4. ASSUME NEW c \in Caller, RouteScan(c) \/ CallStep(c) \/ \E s \in Shard : RouteKey(c, s)
      PROVE  IInv'
  BY <1>4, RouteInvariant, LookupInvariant, DialInvariant, InsertClosesInvariant, InsertPoolsInvariant DEF CallStep
<1>5. ASSUME NEW k \in Closer, CloseBegin(k) \/ CloseStep(k)
      PROVE  IInv'
  BY <1>5, CloseBeginInvariant, CloseMovesInvariant, CloseConnsInvariant DEF CloseStep
<1> QED
  BY <1>1, <1>2, <1>3, <1>4, <1>5 DEF Next

(* The invariant holds in every reachable state. *)
LEMMA Invariance == Spec => []IInv
<1>1. Init => IInv
  BY InitInvariant
<1>2. IInv /\ [Next]_vars => IInv'
  BY NextInvariant
<1> QED
  BY <1>1, <1>2, PTL DEF Spec

(* The pool of an open client holds connections only to nodes that own a   *)
(* shard, whatever is dialled without the lock while the topology changes. *)
THEOREM PoolIsSafe == Spec => []PoolSafe
<1>1. IInv => PoolSafe
  <2> SUFFICES ASSUME IInv PROVE TypeOK
    BY DEF PoolSafe, IInv
  <2>1. \A i \in 1..Len(history) : history[i].nodes \subseteq Node
    BY LastPublished, PublishedFacts DEF IInv, Types
  <2>2. Range(pool) \subseteq Conn
    BY DEF IInv, Types, Range
  <2>3. \A c \in Caller : caller[c] \in CallerRecord
    BY DEF IInv, Types
  <2>4. \A k \in Closer : closer[k] \in CloserRecord
    BY DEF IInv, Types
  <2>5. \A c \in Caller : caller[c].pc \in {"idle", "lookup", "dial", "insert"}
    BY <2>3 DEF CallerRecord
  <2>6. \A k \in Closer : closer[k].pc \in {"idle", "cancel", "join", "wait", "returned"}
    BY <2>4 DEF CloserRecord
  <2>7. /\ refresh.pc \in {"idle", "again", "shards", "install", "close", "done"}
        /\ refresh.tries \in 0..MaxTries /\ refresh.retired \subseteq Conn
    BY DEF IInv, Types, RefreshRecord
  <2> QED
    BY <2>1, <2>2, <2>5, <2>6, <2>7 DEF TypeOK, IInv, Types, StartInv
<1> QED
  BY <1>1, Invariance, PTL

(* The topology a client routes by was published as a whole, although its  *)
(* halves are fetched by two RPCs while the membership moves.              *)
THEOREM TopologyIsCoherent == Spec => []CoherentTopology
<1>1. IInv => CoherentTopology
  BY DEF IInv, StartInv, CoherentTopology
<1> QED
  BY <1>1, Invariance, PTL

(* A connection has one holder if it is open, and none if it is closed. *)
LEMMA HolderCount ==
    ASSUME IInv, NEW x
    PROVE  Cardinality(Holders(x)) = IF x \in open THEN 1 ELSE 0
<1>1. \A h \in Holders(x) :
          \/ \E a \in DOMAIN pool : h = <<"pool", a>> /\ ~closed /\ pool[a] = x
          \/ \E c \in Caller : h = <<"caller", c>> /\ Inserting(c) /\ caller[c].conn = x
          \/ \E k \in Closer : h = <<"closer", k>> /\ x \in closer[k].conns
          \/ h = <<"refresh">> /\ x \in refresh.retired
  BY DEF Holders, Inserting
<1>2. /\ ~closed => \A a \in DOMAIN pool : pool[a] = x => <<"pool", a>> \in Holders(x)
      /\ \A c \in Caller : Inserting(c) /\ caller[c].conn = x => <<"caller", c>> \in Holders(x)
      /\ \A k \in Closer : x \in closer[k].conns => <<"closer", k>> \in Holders(x)
      /\ x \in refresh.retired => <<"refresh">> \in Holders(x)
  BY DEF Holders, Inserting
<1>3. CASE x \notin open
  <2>1. Holders(x) = {}
    BY <1>1, <1>3 DEF IInv, HolderInv, HeldOpen
  <2> QED
    BY <1>3, <2>1, FS_EmptySet
<1>4. CASE x \in open
  <2>1. IsHeld(x) /\ HeldOnce
    BY <1>4 DEF IInv, HolderInv, AllHeld
  <2>2. \E h : Holders(x) = {h}
    <3>1. ASSUME NEW a \in DOMAIN pool, ~closed, pool[a] = x PROVE Holders(x) = {<<"pool", a>>}
      BY <1>1, <1>2, <2>1, <3>1 DEF HeldOnce
    <3>2. ASSUME NEW c \in Caller, Inserting(c), caller[c].conn = x PROVE Holders(x) = {<<"caller", c>>}
      BY <1>1, <1>2, <2>1, <3>2 DEF HeldOnce
    <3>3. ASSUME NEW k \in Closer, x \in closer[k].conns PROVE Holders(x) = {<<"closer", k>>}
      <4>1. closed /\ x \notin refresh.retired /\ \A l \in Closer \ {k} : x \notin closer[l].conns
        BY <2>1, <3>3 DEF HeldOnce
      <4>2. \A c \in Caller : ~(Inserting(c) /\ caller[c].conn = x)
        BY <2>1, <3>3 DEF HeldOnce
      <4> QED
        BY <1>1, <1>2, <3>3, <4>1, <4>2, SMTT(30), ZenonT(30)
    <3>4. ASSUME x \in refresh.retired PROVE Holders(x) = {<<"refresh">>}
      <4>1. /\ ~closed => \A a \in DOMAIN pool : pool[a] # x
            /\ \A k \in Closer : x \notin closer[k].conns
            /\ \A c \in Caller : ~(Inserting(c) /\ caller[c].conn = x)
        BY <2>1, <3>4 DEF HeldOnce
      <4> QED
        BY <1>1, <1>2, <3>4, <4>1
    <3> QED
      BY <2>1, <3>1, <3>2, <3>3, <3>4, ZenonT(40) DEF IsHeld
  <2> QED
    BY <1>4, <2>2, FS_Singleton, Zenon
<1> QED
  BY <1>3, <1>4

(* Every open connection has exactly one holder that will close it, and a  *)
(* closed one has none: no leak and no double close, whichever of the      *)
(* refresh, the calls and the closers overlap.                             *)
THEOREM HolderIsUnique == Spec => []OneHolder
<1>1. IInv => OneHolder
  BY HolderCount DEF OneHolder
<1> QED
  BY <1>1, Invariance, PTL

-----------------------------------------------------------------------------
(* The two fields of a shard's owners. *)
LEMMA OwnerFields ==
    ASSUME NEW a, NEW b, NEW x, x = [primary |-> a, replicas |-> b]
    PROVE  x.primary = a /\ x.replicas = b
OBVIOUS

(* What placement publishes passes the client's validation, and every      *)
(* shard is on the best nodes.                                             *)
LEMMA PlacementExact ==
    ASSUME weight \in Weights, NEW members \in SUBSET Node
    PROVE  ExactTopology(Placement(weight, members))
<1>1. PICK m, o : m = AssignShards(weight, members) /\ o = AssignShardOwners(weight, members)
  OBVIOUS
<1>2. PICK t : t = Placement(weight, members)
  OBVIOUS
<1>3. t.ok = TRUE /\ t.nodes = members /\ t.shardMap = m /\ t.owners = o
  <2>1. t = [nodes |-> members, shardMap |-> m, owners |-> o, ok |-> TRUE]
    BY <1>1, <1>2, PlacementIs, Zenon
  <2> QED
    BY <2>1
<1>4. CASE members = {}
  <2>1. m = <<>> /\ o = <<>>
    BY <1>1, <1>4, Zenon DEF AssignShards, AssignShardOwners
  <2> QED
    BY <1>2, <1>3, <1>4, <2>1, Zenon DEF ExactTopology, Valid
<1>5. CASE members # {}
  <2>1. DOMAIN m = Shard /\ DOMAIN o = Shard
    BY <1>1, <1>5 DEF AssignShards, AssignShardOwners
  <2>2. ASSUME NEW s \in Shard
        PROVE  /\ m[s] \in members /\ o[s].primary = m[s]
               /\ Len(o[s].replicas) <= Cardinality(members)
               /\ Range(o[s].replicas) \subseteq members
               /\ IsInjective(<<o[s].primary>> \o o[s].replicas)
               /\ Len(<<o[s].primary>> \o o[s].replicas) = Copies(members)
               /\ \A j \in 1..Len(<<o[s].primary>> \o o[s].replicas) :
                     \A n \in members \ {(<<o[s].primary>> \o o[s].replicas)[x] : x \in 1..j} :
                         ranksBefore(weight, s, (<<o[s].primary>> \o o[s].replicas)[j], n)
    <3>1. PICK q : Ranked(weight, s, members, q)
      BY <1>5, OwnersRanked, Zenon
    <3>2. o[s] = [primary |-> q[1], replicas |-> Tail(q)] /\ m[s] = q[1] /\ Len(q) = Copies(members)
      BY <1>1, <3>1, Zenon DEF Ranked
    <3>3. o[s].primary = q[1] /\ o[s].replicas = Tail(q)
      <4>1. PICK x : x = o[s]
        OBVIOUS
      <4>2. x.primary = q[1] /\ x.replicas = Tail(q)
        BY <3>2, <4>1, OwnerFields
      <4> QED
        BY <4>1, <4>2, Zenon
    <3>4. /\ q[1] \in members /\ Len(Tail(q)) <= Cardinality(members)
          /\ Range(Tail(q)) \subseteq members
          /\ <<q[1]>> \o Tail(q) = q /\ IsInjective(q)
      BY <1>5, <3>1, RankedValid, Zenon
    <3>5. \A j \in 1..Len(q) : \A n \in members \ {q[x] : x \in 1..j} : ranksBefore(weight, s, q[j], n)
      BY <1>5, <3>1, RankedOrder, Zenon
    <3>6. <<o[s].primary>> \o o[s].replicas = q
      BY <3>3, <3>4, Zenon
    <3> QED
      BY <3>2, <3>3, <3>4, <3>5, <3>6, Zenon
  <2>3. Valid(t)
    BY <1>3, <1>5, <2>1, <2>2, Zenon DEF Valid
  <2>4. \A s \in Shard :
           LET own == <<t.owners[s].primary>> \o t.owners[s].replicas IN
           /\ Len(own) = Min({Factor + 1, Cardinality(t.nodes)})
           /\ \A j \in 1..Len(own) :
                 \A n \in t.nodes \ {own[x] : x \in 1..j} : ranksBefore(weight, s, own[j], n)
    <3> SUFFICES ASSUME NEW s \in Shard
                 PROVE  LET own == <<t.owners[s].primary>> \o t.owners[s].replicas IN
                        /\ Len(own) = Min({Factor + 1, Cardinality(t.nodes)})
                        /\ \A j \in 1..Len(own) :
                              \A n \in t.nodes \ {own[x] : x \in 1..j} : ranksBefore(weight, s, own[j], n)
      BY Zenon
    <3>1. PICK q : q = <<o[s].primary>> \o o[s].replicas
      BY Zenon
    <3>2. /\ Len(q) = Copies(members)
          /\ \A j \in 1..Len(q) : \A n \in members \ {q[x] : x \in 1..j} : ranksBefore(weight, s, q[j], n)
      BY <2>2, <3>1, Zenon
    <3>3. q = <<t.owners[s].primary>> \o t.owners[s].replicas
      BY <1>3, <3>1, Zenon
    <3>4. Len(q) = Min({Factor + 1, Cardinality(t.nodes)})
      BY <1>3, <3>2, Zenon DEF Copies
    <3>5. \A j \in 1..Len(q) : \A n \in t.nodes \ {q[x] : x \in 1..j} : ranksBefore(weight, s, q[j], n)
      BY <1>3, <3>2, Zenon
    <3> QED
      BY <3>3, <3>4, <3>5, Zenon
  <2> QED
    BY <1>2, <2>3, <2>4, Zenon DEF ExactTopology
<1> QED
  BY <1>4, <1>5

(* A node both memberships share keeps its shards from the others they     *)
(* share.                                                                  *)
LEMMA NoNeedlessMove ==
    ASSUME NEW w \in Weights, NEW old \in SUBSET Node, NEW new \in SUBSET Node,
           NEW s \in Moved(Placement(w, old), Placement(w, new))
    PROVE  \/ Placement(w, old).shardMap[s] \notin Placement(w, new).nodes
           \/ Placement(w, new).shardMap[s] \notin Placement(w, old).nodes
<1>1. PICK p, q : p = Placement(w, old) /\ q = Placement(w, new)
  OBVIOUS
<1>2. p.nodes = old /\ p.shardMap = AssignShards(w, old)
  <2>1. p = [nodes |-> old, shardMap |-> AssignShards(w, old), owners |-> AssignShardOwners(w, old), ok |-> TRUE]
    BY <1>1, PlacementIs, Zenon
  <2> QED
    BY <2>1
<1>3. q.nodes = new /\ q.shardMap = AssignShards(w, new)
  <2>1. q = [nodes |-> new, shardMap |-> AssignShards(w, new), owners |-> AssignShardOwners(w, new), ok |-> TRUE]
    BY <1>1, PlacementIs, Zenon
  <2> QED
    BY <2>1
<1>4. s \in DOMAIN p.shardMap /\ s \in DOMAIN q.shardMap /\ p.shardMap[s] # q.shardMap[s]
  BY <1>1, Zenon DEF Moved
<1>5. old # {} /\ new # {} /\ s \in Shard
  <2>1. ASSUME NEW m, m = {} PROVE s \notin DOMAIN AssignShards(w, m)
    <3>1. AssignShards(w, m) = <<>>
      BY <2>1, Zenon DEF AssignShards
    <3> QED
      BY <3>1
  <2>2. old # {} /\ new # {}
    BY <1>2, <1>3, <1>4, <2>1, Zenon
  <2>3. DOMAIN AssignShards(w, old) = Shard
    BY <2>2, Zenon DEF AssignShards
  <2> QED
    BY <1>2, <1>4, <2>2, <2>3, Zenon
<1>6. PICK a : a = p.shardMap[s] /\ IsBest(w, s, old, a)
  BY <1>2, <1>5, BestFound, Zenon
<1>7. PICK b : b = q.shardMap[s] /\ IsBest(w, s, new, b)
  BY <1>3, <1>5, BestFound, Zenon
<1>8. a \in old /\ b \in new /\ a # b
  BY <1>4, <1>6, <1>7, Zenon DEF IsBest
<1>9. ~(a \in new /\ b \in old)
  <2> SUFFICES ASSUME a \in new, b \in old PROVE FALSE
    OBVIOUS
  <2>1. ranksBefore(w, s, a, b) /\ ranksBefore(w, s, b, a)
    BY <1>6, <1>7, <1>8, Zenon DEF IsBest
  <2>2. a \in Node /\ b \in Node
    BY <1>8
  <2> QED
    BY <1>5, <2>1, <2>2, RankOrder, Zenon
<1> QED
  BY <1>1, <1>2, <1>3, <1>6, <1>7, <1>9, Zenon

(* The topology the control plane serves is the placement of a membership. *)
Placing == \E members \in SUBSET Node : Newest = Placement(weight, members)

(* Only a command of the metadata log changes what is published. *)
LEMMA HistoryStep ==
    ASSUME IInv, [Next]_vars
    PROVE  /\ weight' = weight
           /\ history' # history => \E members \in SUBSET Node : Newest' = Placement(weight, members)
<1>1. CASE \E members \in SUBSET Node : Settle(members)
  <2>1. PICK members \in SUBSET Node : Settle(members)
    BY <1>1
  <2>2. weight' = weight /\ history' = <<Placement(weight, members)>>
    BY <2>1 DEF Settle
  <2>3. Newest' = Placement(weight, members)
    BY <2>2 DEF Newest
  <2> QED
    BY <2>2, <2>3
<1>2. CASE \E n \in Churning : Publish(n)
  <2>1. PICK n \in Churning : Publish(n)
    BY <1>2
  <2>2. PICK members : members = SymDiff(Newest.nodes, {n})
    OBVIOUS
  <2>3. members \in SUBSET Node
    <3>1. Newest.nodes \subseteq Node
      BY LastPublished, PublishedFacts DEF IInv, Types
    <3> QED
      BY <2>2, <3>1, ClientAssumption DEF SymDiff
  <2>4. weight' = weight /\ history' = Append(history, Placement(weight, members))
    BY <2>1, <2>2, Zenon DEF Publish
  <2>5. PICK p : p = Placement(weight, members)
    OBVIOUS
  <2>6. history \in Seq(Published) /\ p \in Published
    BY <2>3, <2>5 DEF IInv, Types, Published
  <2>7. Newest' = p
    BY <2>4, <2>5, <2>6 DEF Newest
  <2> QED
    BY <2>3, <2>4, <2>5, <2>7
<1>3. CASE New \/ UNCHANGED vars
  BY <1>3 DEF New, vars
<1>4. CASE FetchNodes \/ RefreshStep
  <2>1. RefreshUnchanged
    BY <1>4, Zenon DEF FetchNodes, RefreshStep, FetchIncoherent, FetchCoherent, FetchFails, RefreshExits,
                       Install, CloseRetired
  <2> QED
    BY <2>1 DEF RefreshUnchanged
<1>5. ASSUME NEW c \in Caller, RouteScan(c) \/ CallStep(c) \/ \E s \in Shard : RouteKey(c, s)
      PROVE  weight' = weight /\ history' = history
  <2>1. CallUnchanged
    BY <1>5, Zenon DEF RouteScan, CallStep, RouteKey, LookupFails, LookupPooled, LookupMisses, Dial, DialFails,
                       InsertRefused, InsertReuses, InsertPools
  <2> QED
    BY <2>1 DEF CallUnchanged
<1>6. ASSUME NEW k \in Closer, CloseBegin(k) \/ CloseStep(k)
      PROVE  weight' = weight /\ history' = history
  <2>1. CloseUnchanged
    BY <1>6, Zenon DEF CloseBegin, CloseStep, CloseCancel, CloseConns, CloseWaits
  <2> QED
    BY <2>1 DEF CloseUnchanged
<1> QED
  BY <1>1, <1>2, <1>3, <1>4, <1>5, <1>6, Zenon DEF Next

(* AssignShards and AssignShardOwners agree for any membership, weights    *)
(* and ties, so what the metadata service publishes is always exact; and a *)
(* change of membership never moves a shard between two nodes that are     *)
(* there before and after it.                                              *)
THEOREM PlacementIsExact == Spec => Placed
<1> DEFINE A == history' # history =>
                  LET old == Newest
                      new == Newest'
                  IN /\ ExactTopology(new)
                     /\ \A s \in Moved(old, new) :
                           old.shardMap[s] \notin new.nodes \/ new.shardMap[s] \notin old.nodes
<1>1. Init => Placing
  <2> SUFFICES ASSUME Init PROVE Newest = Placement(weight, {})
    BY DEF Placing
  <2> QED
    BY DEF Init, Newest
<1>2. IInv /\ Placing /\ [Next]_vars => Placing'
  <2> SUFFICES ASSUME IInv, Placing, [Next]_vars PROVE Placing'
    OBVIOUS
  <2>1. weight' = weight
    BY HistoryStep
  <2>2. CASE history' = history
    BY <2>1, <2>2 DEF Placing, Newest
  <2>3. CASE history' # history
    <3>1. PICK members \in SUBSET Node : Newest' = Placement(weight, members)
      BY <2>3, HistoryStep
    <3> QED
      BY <2>1, <3>1 DEF Placing
  <2> QED
    BY <2>2, <2>3
<1>3. IInv /\ Placing /\ [Next]_vars => [A]_vars
  <2> SUFFICES ASSUME IInv, Placing, [Next]_vars, history' # history
               PROVE  LET old == Newest
                          new == Newest'
                      IN /\ ExactTopology(new)
                         /\ \A s \in Moved(old, new) :
                               old.shardMap[s] \notin new.nodes \/ new.shardMap[s] \notin old.nodes
    OBVIOUS
  <2>1. weight \in Weights
    BY DEF IInv, Types
  <2>2. PICK before \in SUBSET Node : Newest = Placement(weight, before)
    BY DEF Placing
  <2>3. PICK after \in SUBSET Node : Newest' = Placement(weight, after)
    BY HistoryStep
  <2>4. ExactTopology(Newest')
    BY <2>1, <2>3, PlacementExact, Zenon
  <2>5. \A s \in Moved(Newest, Newest') :
           Newest.shardMap[s] \notin Newest'.nodes \/ Newest'.shardMap[s] \notin Newest.nodes
    BY <2>1, <2>2, <2>3, NoNeedlessMove, Zenon
  <2> QED
    BY <2>4, <2>5, Zenon
<1> QED
  BY <1>1, <1>2, <1>3, Invariance, PTL DEF Spec, Placed
=============================================================================
