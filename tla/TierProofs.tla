----------------------------- MODULE TierProofs -----------------------------
(***************************************************************************)
(* A shard of the engine keeps its index, LRU list, counters and spill     *)
(* directory in agreement, and implements a lossy cache, for any keys,     *)
(* values, hash function and budget.                                       *)
(***************************************************************************)
EXTENDS TierShard, FiniteSetTheorems, TLAPS

-----------------------------------------------------------------------------
(* Sums over finite sets: how a counter and a walk stay equal *)

(* A nonempty set of numbers has a least one. *)
LEMMA LeastNumber ==
    ASSUME NEW T \in SUBSET Nat, T # {}
    PROVE  \E x \in T : \A y \in T : x <= y
<1> DEFINE less == {ss \in Nat \X Nat : ss[1] < ss[2]}
<1>1. IsWellFoundedOn(less, Nat)
  BY NatLessThanWellFounded DEF OpToRel
<1>2. \A x, y \in Nat : x < y => <<x, y>> \in less
  OBVIOUS
<1> HIDE DEF less
<1>3. PICK x \in T : \A y \in T : ~(<<y, x>> \in less)
  BY <1>1, WFMin, Zenon
<1>4. ASSUME NEW y \in T PROVE x <= y
  <2>1. x \in Nat /\ y \in Nat /\ ~(y < x)
    BY <1>2, <1>3, Zenon
  <2> QED
    BY <2>1
<1> QED
  BY <1>4

(* Among some finite sets there is one with the fewest elements. *)
LEMMA SmallestSet ==
    ASSUME NEW F, F # {}, \A s \in F : IsFiniteSet(s)
    PROVE  \E s \in F : \A t \in F : Cardinality(s) <= Cardinality(t)
<1> DEFINE T == {Cardinality(s) : s \in F}
<1>1. T \in SUBSET Nat /\ T # {}
  BY FS_CardinalityType
<1>2. PICK n \in T : \A m \in T : n <= m
  BY <1>1, LeastNumber, Zenon
<1>3. PICK s \in F : n = Cardinality(s)
  BY <1>2
<1> QED
  BY <1>2, <1>3

(* SumFunctionOnSet adds the elements in the order CHOOSE picks them. *)
Pick(s) == CHOOSE x \in s : TRUE
SumStep(f, g, s) == IF s = {} THEN 0 ELSE f[Pick(s)] + g[s \ {Pick(s)}]
Sums(f, S, g) == g = [s \in SUBSET S |-> SumStep(f, g, s)]

(* What is picked is an element. *)
LEMMA Picked == ASSUME NEW s, s # {} PROVE Pick(s) \in s
BY DEF Pick

(* Taking an element out of a finite set leaves one element fewer. *)
LEMMA Smaller ==
    ASSUME NEW S, IsFiniteSet(S), NEW s \in SUBSET S, NEW x \in s
    PROVE  /\ IsFiniteSet(s) /\ s \ {x} \in SUBSET S /\ Cardinality(s) \in Nat
           /\ Cardinality(s \ {x}) = Cardinality(s) - 1 /\ Cardinality(s \ {x}) \in Nat
BY FS_Subset, FS_RemoveElement, FS_CardinalityType

(* There is a function with the sum of every subset. *)
LEMMA SumsExist ==
    ASSUME NEW S, IsFiniteSet(S), NEW f \in [S -> Nat]
    PROVE  \E g \in [SUBSET S -> Nat] : Sums(f, S, g)
<1> DEFINE UpTo(g, n) == \A s \in SUBSET S : Cardinality(s) <= n => g[s] = SumStep(f, g, s)
<1> DEFINE Wrong == {n \in Nat : ~\E g \in [SUBSET S -> Nat] : UpTo(g, n)}
<1>1. Wrong = {}
  <2> SUFFICES ASSUME Wrong # {} PROVE FALSE
    BY Zenon
  <2>1. PICK n \in Wrong : \A m \in Wrong : n <= m
    BY LeastNumber, Zenon
  <2>2. CASE n = 0
    <3> DEFINE zero == [s \in SUBSET S |-> 0]
    <3>1. ASSUME NEW s \in SUBSET S, Cardinality(s) <= 0 PROVE s = {}
      BY <3>1, FS_Subset, FS_CardinalityType, FS_EmptySet
    <3>2. UpTo(zero, 0) /\ zero \in [SUBSET S -> Nat]
      BY <3>1 DEF SumStep
    <3> QED
      BY <2>1, <2>2, <3>2, Zenon
  <2>3. CASE n # 0
    <3>1. n - 1 \in Nat /\ n - 1 \notin Wrong /\ n \in Nat
      <4>1. n \in Nat /\ Wrong \subseteq Nat
        OBVIOUS
      <4> HIDE DEF Wrong
      <4> QED
        BY <2>1, <2>3, <4>1
    <3>2. PICK g \in [SUBSET S -> Nat] : UpTo(g, n - 1)
      BY <3>1, Zenon
    <3> DEFINE h == [s \in SUBSET S |-> SumStep(f, g, s)]
    <3>3. ASSUME NEW s \in SUBSET S, s # {}
          PROVE  Pick(s) \in s /\ Pick(s) \in S /\ s \ {Pick(s)} \in SUBSET S
      BY <3>3, Picked
    <3>4. \A s \in SUBSET S : h[s] = SumStep(f, g, s) /\ SumStep(f, g, s) \in Nat
      BY <3>3 DEF SumStep
    <3>5. h \in [SUBSET S -> Nat]
      BY <3>4, Zenon
    <3> HIDE DEF h
    <3>6. ASSUME NEW s \in SUBSET S, Cardinality(s) <= n PROVE h[s] = SumStep(f, h, s)
      <4>1. CASE s = {}
        BY <3>4, <4>1, Zenon DEF SumStep
      <4>2. CASE s # {}
        <5> DEFINE r == s \ {Pick(s)}
        <5>1. r \in SUBSET S /\ Cardinality(r) <= n - 1
          BY <3>1, <3>3, <3>6, <4>2, Smaller
        <5>2. g[r] = SumStep(f, g, r)
          BY <3>2, <5>1
        <5>3. g[r] = h[r]
          BY <3>4, <5>1, <5>2
        <5> QED
          BY <3>4, <4>2, <5>3 DEF SumStep
      <4> QED
        BY <4>1, <4>2
    <3> QED
      BY <2>1, <3>5, <3>6, Zenon
  <2> QED
    BY <2>2, <2>3
<1>2. Cardinality(S) \in Nat /\ \A s \in SUBSET S : Cardinality(s) <= Cardinality(S)
  BY FS_Subset, FS_CardinalityType
<1>3. PICK g \in [SUBSET S -> Nat] : UpTo(g, Cardinality(S))
  BY <1>1, <1>2, Zenon
<1>4. \A s \in SUBSET S : g[s] = SumStep(f, g, s)
  BY <1>2, <1>3
<1> QED
  BY <1>4 DEF Sums

(* Sums of functions that agree on a set agree on its subsets. *)
LEMMA SumsEqual ==
    ASSUME NEW S, IsFiniteSet(S), NEW R \in SUBSET S, NEW f, NEW g, NEW h, NEW e,
           Sums(f, S, g), Sums(h, S, e), \A x \in R : f[x] = h[x]
    PROVE  \A s \in SUBSET R : g[s] = e[s]
<1> DEFINE Wrong == {s \in SUBSET R : g[s] # e[s]}
<1> SUFFICES ASSUME Wrong # {} PROVE FALSE
  OBVIOUS
<1>1. \A s \in Wrong : IsFiniteSet(s)
  BY FS_Subset
<1>2. PICK s \in Wrong : \A t \in Wrong : Cardinality(s) <= Cardinality(t)
  BY <1>1, SmallestSet, Zenon
<1>3. g[s] = SumStep(f, g, s) /\ e[s] = SumStep(h, e, s) /\ s \in SUBSET S
  BY <1>2 DEF Sums
<1>4. s # {}
  BY <1>2, <1>3 DEF SumStep
<1> DEFINE r == s \ {Pick(s)}
<1>5. r \in SUBSET R /\ Pick(s) \in R
  BY <1>4, <1>2, Picked
<1>6. r \notin Wrong
  BY <1>2, <1>3, <1>4, Picked, Smaller
<1>7. g[r] = e[r]
  BY <1>5, <1>6
<1> QED
  BY <1>2, <1>3, <1>4, <1>5, <1>7 DEF SumStep

(* SumFunction is that function at the whole set. *)
LEMMA SumIs ==
    ASSUME NEW S, IsFiniteSet(S), NEW f \in [S -> Nat], NEW g, Sums(f, S, g)
    PROVE  SumFunction(f) = g[S]
<1>1. ASSUME NEW h, Sums(f, S, h) PROVE h = g
  <2>1. \A s \in SUBSET S : h[s] = g[s]
    BY <1>1, SumsEqual
  <2> QED
    BY <1>1, <2>1, Zenon DEF Sums
<1>2. DOMAIN f = S
  OBVIOUS
<1>3. (CHOOSE h : Sums(f, S, h)) = g
  BY <1>1
<1>4. SumFunctionOnSet(f, S) = (CHOOSE h : Sums(f, S, h))[S]
  BY DEF SumFunctionOnSet, FoldFunctionOnSet, MapThenFoldSet, Sums, SumStep, Pick
<1> QED
  BY <1>2, <1>3, <1>4, Zenon DEF SumFunction

(* A sum is any one of its terms and the sum of the others. *)
LEMMA SumsTake ==
    ASSUME NEW S, IsFiniteSet(S), NEW f \in [S -> Nat], NEW g \in [SUBSET S -> Nat], Sums(f, S, g)
    PROVE  \A s \in SUBSET S : \A x \in s : g[s] = f[x] + g[s \ {x}]
<1> DEFINE Wrong == {s \in SUBSET S : \E x \in s : g[s] # f[x] + g[s \ {x}]}
<1> SUFFICES ASSUME Wrong # {} PROVE FALSE
  BY Zenon
<1>1. \A s \in Wrong : IsFiniteSet(s)
  BY FS_Subset
<1>2. PICK s \in Wrong : \A t \in Wrong : Cardinality(s) <= Cardinality(t)
  BY <1>1, SmallestSet, Zenon
<1>3. PICK x \in s : g[s] # f[x] + g[s \ {x}]
  BY <1>2
<1> DEFINE y == Pick(s)
<1>4. y \in s /\ s \in SUBSET S /\ g[s] = f[y] + g[s \ {y}]
  BY <1>2, <1>3, Picked, Zenon DEF Sums, SumStep
<1> HIDE DEF y
<1>5. x # y
  BY <1>3, <1>4, Zenon
<1>6. s \ {y} \notin Wrong /\ s \ {x} \notin Wrong
  <2>1. /\ Cardinality(s \ {y}) = Cardinality(s) - 1 /\ Cardinality(s \ {x}) = Cardinality(s) - 1
        /\ Cardinality(s) \in Nat
    BY <1>3, <1>4, Smaller, Zenon
  <2> HIDE DEF Wrong
  <2> QED
    BY <1>2, <2>1
<1>7. g[s \ {y}] = f[x] + g[(s \ {y}) \ {x}]
  BY <1>3, <1>4, <1>5, <1>6, Zenon
<1>8. g[s \ {x}] = f[y] + g[(s \ {x}) \ {y}]
  BY <1>3, <1>4, <1>5, <1>6, Zenon
<1>9. (s \ {y}) \ {x} = (s \ {x}) \ {y} /\ (s \ {x}) \ {y} \in SUBSET S
  BY <1>4
<1> DEFINE rest == g[(s \ {x}) \ {y}]
<1>10. rest \in Nat /\ f[x] \in Nat /\ f[y] \in Nat
  BY <1>3, <1>4, <1>9
<1>11. g[s] = f[y] + (f[x] + rest) /\ g[s \ {x}] = f[y] + rest
  BY <1>4, <1>7, <1>8, <1>9, Zenon
<1> HIDE DEF rest
<1> QED
  BY <1>3, <1>10, <1>11

(* A walk after one entry changed, and a walk over nothing. *)
LEMMA SumChange ==
    ASSUME NEW S, IsFiniteSet(S), NEW f \in [S -> Nat], NEW h \in [S -> Nat], NEW x \in S,
           \A y \in S \ {x} : f[y] = h[y]
    PROVE  /\ SumFunction(f) \in Nat /\ f[x] <= SumFunction(f)
           /\ SumFunction(h) = SumFunction(f) - f[x] + h[x]
<1>1. PICK g \in [SUBSET S -> Nat] : Sums(f, S, g)
  BY SumsExist, Zenon
<1>2. PICK e \in [SUBSET S -> Nat] : Sums(h, S, e)
  BY SumsExist, Zenon
<1> DEFINE R == S \ {x}
<1>3. g[R] = e[R] /\ g[R] \in Nat
  <2>1. R \in SUBSET S /\ R \in SUBSET R /\ \A y \in R : f[y] = h[y]
    OBVIOUS
  <2> HIDE DEF R
  <2>2. ASSUME NEW Q \in SUBSET S, \A y \in Q : f[y] = h[y]
        PROVE  \A s \in SUBSET Q : g[s] = e[s]
    BY <1>1, <1>2, <2>2, SumsEqual, SMTT(20), ZenonT(20)
  <2> QED
    BY <1>1, <2>1, <2>2
<1>4. g[S] = f[x] + g[R] /\ e[S] = h[x] + e[R]
  <2>1. S \in SUBSET S
    OBVIOUS
  <2> QED
    BY <1>1, <1>2, <2>1, SumsTake
<1>5. SumFunction(f) = g[S] /\ SumFunction(h) = e[S]
  BY <1>1, <1>2, SumIs
<1>6. f[x] \in Nat /\ h[x] \in Nat
  OBVIOUS
<1> QED
  BY <1>3, <1>4, <1>5, <1>6

(* A sum of zeros is zero. *)
LEMMA SumZero ==
    ASSUME NEW S, IsFiniteSet(S), NEW f \in [S -> Nat], \A x \in S : f[x] = 0
    PROVE  SumFunction(f) = 0
<1> DEFINE g == [s \in SUBSET S |-> 0]
<1>1. \A s \in SUBSET S : SumStep(f, g, s) = 0
  BY Picked DEF SumStep
<1>2. Sums(f, S, g)
  BY <1>1 DEF Sums
<1>3. g[S] = 0
  OBVIOUS
<1> QED
  BY <1>2, <1>3, SumIs

-----------------------------------------------------------------------------
(* The inductive invariant *)

Types ==
    /\ node \in [Keys -> Node \cup {None}] /\ lru \in Seq(Keys)
    /\ files \in [Names -> Content] /\ orphans \subseteq Names
    /\ nextId \in 1..(MaxId + 1) /\ protect \in Keys \cup {None}
    /\ reply \in (Keys \X Vals) \cup {<<>>}
    /\ wrote \in [Keys -> Vals \cup {None}]

(* A resident entry has its value, a spilled one a name of its own: an id  *)
(* handed out before, which no unlink has failed on.                       *)
EntryInv == \A k \in Keys :
    /\ Resident(k) => node[k].val \in Vals /\ node[k].len = Size[node[k].val]
    /\ Spilled(k) => node[k].id \in 1..(nextId - 1) /\ Name(k) \notin orphans

SpillUnique == \A j, k \in Keys : Spilled(j) /\ Spilled(k) /\ node[j].id = node[k].id => j = k

(* A call in progress has ids left for every entry it may evict. *)
Room == protect # None => nextId + Len(lru) <= MaxId + 1

IInv == Types /\ EntryInv /\ SpillUnique /\ LruExact /\ Accounting /\ Room /\ OverByOne /\ NoLeak

-----------------------------------------------------------------------------
(* The LRU list *)

(* The elements of a part of a sequence. *)
LEMMA PartFacts ==
    ASSUME NEW S, NEW s \in Seq(S), NEW n \in Nat, n = Len(s), NEW a \in 1..(n + 1), NEW b \in 0..n
    PROVE  /\ SubSeq(s, a, b) \in Seq(S)
           /\ Len(SubSeq(s, a, b)) = IF a <= b THEN b - a + 1 ELSE 0
           /\ \A j \in 1..(b - a + 1) : SubSeq(s, a, b)[j] = s[a + j - 1]
OBVIOUS

(* The elements of two sequences joined. *)
LEMMA JoinFacts ==
    ASSUME NEW S, NEW s \in Seq(S), NEW t \in Seq(S)
    PROVE  /\ s \o t \in Seq(S) /\ Len(s \o t) = Len(s) + Len(t)
           /\ \A j \in 1..Len(s) : (s \o t)[j] = s[j]
           /\ \A j \in (Len(s) + 1)..(Len(s) + Len(t)) : (s \o t)[j] = t[j - Len(s)]
<1>1. s \o t \in Seq(S) /\ Len(s \o t) = Len(s) + Len(t) /\ Len(s) \in Nat /\ Len(t) \in Nat
  OBVIOUS
<1>2. ASSUME NEW j \in 1..Len(s) PROVE (s \o t)[j] = s[j]
  OBVIOUS
<1>3. ASSUME NEW j \in (Len(s) + 1)..(Len(s) + Len(t)) PROVE (s \o t)[j] = t[j - Len(s)]
  BY <1>1
<1> QED
  BY <1>1, <1>2, <1>3

Without(s, i) == SubSeq(s, 1, i - 1) \o SubSeq(s, i + 1, Len(s))

(* A sequence without one of its elements. *)
LEMMA CutOut ==
    ASSUME NEW S, NEW s \in Seq(S), IsInjective(s), NEW i \in 1..Len(s)
    PROVE  /\ Without(s, i) \in Seq(S) /\ IsInjective(Without(s, i)) /\ Len(Without(s, i)) = Len(s) - 1
           /\ Range(Without(s, i)) = Range(s) \ {s[i]}
<1> DEFINE r == Without(s, i)
<1> DEFINE front == SubSeq(s, 1, i - 1)
<1> DEFINE back == SubSeq(s, i + 1, Len(s))
<1>0. PICK n \in Nat : n = Len(s)
  OBVIOUS
<1>1. DOMAIN s = 1..n /\ i \in 1..n /\ Len(s) = n
  BY <1>0
<1>2. front \in Seq(S) /\ Len(front) = i - 1 /\ \A j \in 1..(i - 1) : front[j] = s[j]
  <2>1. 1 \in 1..(n + 1) /\ i - 1 \in 0..n
    BY <1>1
  <2>2. /\ front \in Seq(S) /\ Len(front) = IF 1 <= i - 1 THEN (i - 1) - 1 + 1 ELSE 0
        /\ \A j \in 1..((i - 1) - 1 + 1) : front[j] = s[1 + j - 1]
    BY <1>0, <2>1, PartFacts
  <2> HIDE DEF front
  <2> QED
    BY <1>1, <2>2
<1>3. back \in Seq(S) /\ Len(back) = n - i /\ \A j \in 1..(n - i) : back[j] = s[i + j]
  <2>1. i + 1 \in 1..(n + 1) /\ n \in 0..n
    BY <1>1
  <2>2. /\ back \in Seq(S) /\ Len(back) = IF i + 1 <= n THEN n - (i + 1) + 1 ELSE 0
        /\ \A j \in 1..(n - (i + 1) + 1) : back[j] = s[(i + 1) + j - 1]
    BY <1>0, <2>1, PartFacts
  <2> HIDE DEF back
  <2>3. (IF i + 1 <= n THEN n - (i + 1) + 1 ELSE 0) = n - i /\ n - (i + 1) + 1 = n - i
    BY <1>1
  <2>4. \A j \in 1..(n - i) : (i + 1) + j - 1 = i + j
    BY <1>1
  <2> QED
    BY <2>2, <2>3, <2>4
<1>4. r = front \o back
  BY DEF Without
<1> HIDE DEF front, back, r
<1>5. /\ r \in Seq(S) /\ Len(r) = n - 1
      /\ \A j \in 1..(n - 1) : r[j] = IF j < i THEN s[j] ELSE s[j + 1]
  <2>1. /\ r \in Seq(S) /\ Len(r) = Len(front) + Len(back)
        /\ \A j \in 1..Len(front) : r[j] = front[j]
        /\ \A j \in (Len(front) + 1)..(Len(front) + Len(back)) : r[j] = back[j - Len(front)]
    BY <1>2, <1>3, <1>4, JoinFacts, ZenonT(40)
  <2>2. (i - 1) + (n - i) = n - 1 /\ (i - 1) + 1 = i
    BY <1>1
  <2>3. /\ Len(r) = n - 1
        /\ \A j \in 1..(i - 1) : r[j] = front[j]
        /\ \A j \in i..(n - 1) : r[j] = back[j - (i - 1)]
    BY <1>2, <1>3, <2>1, <2>2
  <2>4. ASSUME NEW j \in 1..(n - 1), j < i PROVE r[j] = s[j]
    <3>1. j \in 1..(i - 1)
      BY <1>1, <2>4
    <3> QED
      BY <1>2, <2>3, <3>1
  <2>5. ASSUME NEW j \in 1..(n - 1), ~(j < i) PROVE r[j] = s[j + 1]
    <3>1. j \in i..(n - 1) /\ j - (i - 1) \in 1..(n - i) /\ i + (j - (i - 1)) = j + 1
      BY <1>1, <2>5
    <3>2. r[j] = back[j - (i - 1)]
      BY <2>3, <3>1
    <3>3. back[j - (i - 1)] = s[i + (j - (i - 1))]
      BY <1>3, <3>1
    <3> QED
      BY <3>1, <3>2, <3>3
  <2> QED
    BY <2>1, <2>3, <2>4, <2>5, Zenon
<1> DEFINE From(j) == IF j < i THEN j ELSE j + 1
<1>6. \A j \in 1..(n - 1) : From(j) \in 1..n /\ From(j) # i /\ r[j] = s[From(j)]
  BY <1>1, <1>5
<1>7. \A j, l \in 1..(n - 1) : From(j) = From(l) => j = l
  BY <1>1
<1>8. \A m \in 1..n : m # i => \E j \in 1..(n - 1) : From(j) = m
  <2> SUFFICES ASSUME NEW m \in 1..n, m # i PROVE \E j \in 1..(n - 1) : From(j) = m
    BY Zenon
  <2>1. CASE m < i
    BY <1>1, <2>1
  <2>2. CASE ~(m < i)
    <3>1. m - 1 \in 1..(n - 1) /\ From(m - 1) = m
      BY <1>1, <2>2
    <3> QED
      BY <3>1
  <2> QED
    BY <2>1, <2>2
<1> HIDE DEF From
<1>9. DOMAIN r = 1..(n - 1)
  BY <1>5
<1>10. IsInjective(r)
  BY <1>1, <1>6, <1>7, <1>9 DEF IsInjective
<1>11. Range(r) = Range(s) \ {s[i]}
  <2>1. ASSUME NEW y \in Range(r) PROVE y \in Range(s) \ {s[i]}
    <3>1. PICK j \in 1..(n - 1) : y = r[j]
      BY <1>9 DEF Range
    <3>2. From(j) \in 1..n /\ From(j) # i /\ y = s[From(j)]
      BY <1>6, <3>1
    <3> QED
      BY <1>1, <3>2 DEF Range, IsInjective
  <2>2. ASSUME NEW y \in Range(s), y # s[i] PROVE y \in Range(r)
    <3>1. PICK m \in 1..n : y = s[m]
      BY <1>1 DEF Range
    <3>2. PICK j \in 1..(n - 1) : From(j) = m
      BY <1>8, <2>2, <3>1
    <3> QED
      BY <1>6, <1>9, <3>1, <3>2, Zenon DEF Range
  <2> QED
    BY <2>1, <2>2
<1> QED
  BY <1>0, <1>5, <1>10, <1>11 DEF r

(* lru_unlink takes one entry out and leaves the others in their order. *)
LEMMA UnlinkedFacts ==
    ASSUME lru \in Seq(Keys), IsInjective(lru), NEW k
    PROVE  /\ Unlinked(k) \in Seq(Keys) /\ IsInjective(Unlinked(k))
           /\ Range(Unlinked(k)) = Range(lru) \ {k}
           /\ k \in Range(lru) => Len(Unlinked(k)) = Len(lru) - 1
           /\ k \notin Range(lru) => Unlinked(k) = lru
<1>1. CASE k \notin Range(lru)
  BY <1>1 DEF Unlinked
<1>2. CASE k \in Range(lru)
  <2> DEFINE at == CHOOSE i \in DOMAIN lru : lru[i] = k
  <2>1. at \in 1..Len(lru) /\ lru[at] = k
    BY <1>2 DEF Range
  <2>2. Unlinked(k) = Without(lru, at)
    BY <1>2, Zenon DEF Unlinked, Without
  <2> HIDE DEF at
  <2>3. /\ Without(lru, at) \in Seq(Keys) /\ IsInjective(Without(lru, at)) /\ Len(Without(lru, at)) = Len(lru) - 1
        /\ Range(Without(lru, at)) = Range(lru) \ {lru[at]}
    BY <2>1, CutOut, SMTT(20), ZenonT(20)
  <2> QED
    BY <1>2, <2>1, <2>2, <2>3
<1> QED
  BY <1>1, <1>2

(* An entry that was used goes to the front. *)
LEMMA TouchedFacts ==
    ASSUME lru \in Seq(Keys), IsInjective(lru), NEW k \in Keys
    PROVE  /\ Touched(k) \in Seq(Keys) /\ IsInjective(Touched(k))
           /\ Range(Touched(k)) = Range(lru) \cup {k}
           /\ k \in Range(lru) => Len(Touched(k)) = Len(lru)
<1> DEFINE rest == Unlinked(k)
<1>1. /\ rest \in Seq(Keys) /\ IsInjective(rest) /\ Range(rest) = Range(lru) \ {k}
      /\ k \in Range(lru) => Len(rest) = Len(lru) - 1
  BY UnlinkedFacts
<1> HIDE DEF rest
<1> DEFINE all == <<k>> \o rest
<1>2. /\ all \in Seq(Keys) /\ Len(all) = Len(rest) + 1 /\ all[1] = k /\ DOMAIN all = 1..(Len(rest) + 1)
      /\ DOMAIN rest = 1..Len(rest) /\ Len(rest) \in Nat
      /\ \A i \in 1..Len(rest) : all[i + 1] = rest[i]
  BY <1>1
<1>3. Touched(k) = all
  BY DEF Touched, rest
<1> HIDE DEF all
<1>4. \A i \in 1..(Len(rest) + 1) : i = 1 \/ (i - 1 \in 1..Len(rest) /\ all[i] = rest[i - 1])
  BY <1>2
<1>5. \A i \in 1..Len(rest) : rest[i] # k
  BY <1>1, <1>2, Zenon DEF Range
<1>6. IsInjective(all)
  <2> SUFFICES ASSUME NEW i \in 1..(Len(rest) + 1), NEW j \in 1..(Len(rest) + 1), all[i] = all[j] PROVE i = j
    BY <1>2 DEF IsInjective
  <2>1. CASE i = 1 \/ j = 1
    BY <1>2, <1>4, <1>5, <2>1
  <2>2. CASE i # 1 /\ j # 1
    <3>1. i - 1 = j - 1
      BY <1>1, <1>2, <1>4, <2>2, SMTT(20), ZenonT(20) DEF IsInjective
    <3> QED
      BY <3>1
  <2> QED
    BY <2>1, <2>2
<1>7. Range(all) = Range(rest) \cup {k}
  <2>1. ASSUME NEW y \in Range(all) PROVE y \in Range(rest) \cup {k}
    <3>1. PICK i \in 1..(Len(rest) + 1) : y = all[i]
      BY <1>2 DEF Range
    <3> QED
      BY <1>2, <1>4, <3>1, Zenon DEF Range
  <2>2. k \in Range(all)
    BY <1>2 DEF Range
  <2>3. ASSUME NEW y \in Range(rest) PROVE y \in Range(all)
    <3>1. PICK i \in 1..Len(rest) : y = rest[i]
      BY <1>2 DEF Range
    <3>2. i + 1 \in 1..(Len(rest) + 1) /\ all[i + 1] = y
      BY <1>2, <3>1
    <3> QED
      BY <1>2, <3>2, SMTT(20), ZenonT(20) DEF Range
  <2> QED
    BY <2>1, <2>2, <2>3
<1>8. Len(lru) \in Nat
  OBVIOUS
<1> QED
  BY <1>1, <1>2, <1>3, <1>6, <1>7, <1>8

(* A list of different entries is as long as the set of them. *)
LEMMA LruLength ==
    ASSUME IsFiniteSet(Keys), NEW s \in Seq(Keys), IsInjective(s)
    PROVE  Len(s) \in Nat /\ Len(s) <= Cardinality(Keys) /\ Cardinality(Keys) \in Nat
<1> DEFINE R == Range(s)
<1>1. Len(s) \in Nat /\ DOMAIN s = 1..Len(s) /\ R \in SUBSET Keys
  BY DEF Range
<1>2. IsFiniteSet(R) /\ Cardinality(R) <= Cardinality(Keys) /\ Cardinality(Keys) \in Nat
  BY <1>1, FS_Subset, FS_CardinalityType
<1>3. s \in Bijection(1..Len(s), R)
  BY <1>1 DEF IsInjective, Bijection, Injection, Surjection, Range
<1>4. IsFiniteSet(1..Len(s)) /\ Cardinality(1..Len(s)) = Len(s)
  BY <1>1, FS_Interval, SMTT(20), ZenonT(20)
<1> HIDE DEF R
<1>5. Cardinality(R) = Len(s)
  BY <1>3, <1>4, FS_Bijection DEF ExistsBijection
<1> QED
  BY <1>1, <1>2, <1>5

-----------------------------------------------------------------------------
(* The counters *)

(* The counters follow a change of k's entry. *)
CountersFollow(k) ==
    /\ ram' = ram - RamOf(k) + RamOf(k)' /\ nvme' = nvme - NvmeOf(k) + NvmeOf(k)'
    /\ ramKeys' = ramKeys - One(Resident(k)) + One(Resident(k)')
    /\ nvmeKeys' = nvmeKeys - One(Spilled(k)) + One(Spilled(k)')
    /\ entries' = entries - One(Present(k)) + One(Present(k)')

(* How many elements a set has after k joined or left it. *)
LEMMA CountChange ==
    ASSUME NEW S, IsFiniteSet(S), NEW A \in SUBSET S, NEW B \in SUBSET S, NEW k \in S,
           \A j \in S \ {k} : j \in A <=> j \in B
    PROVE  /\ Cardinality(B) = Cardinality(A) - One(k \in A) + One(k \in B)
           /\ Cardinality(A) \in Nat /\ Cardinality(B) \in Nat
<1>1. IsFiniteSet(A) /\ IsFiniteSet(B) /\ Cardinality(A) \in Nat /\ Cardinality(B) \in Nat
  BY FS_Subset, FS_CardinalityType
<1> DEFINE C == A \ {k}
<1>2. IsFiniteSet(C) /\ Cardinality(C) \in Nat /\ Cardinality(C) = Cardinality(A) - One(k \in A)
  BY <1>1, FS_RemoveElement, FS_CardinalityType DEF One
<1>3. B = C \/ (B = C \cup {k} /\ k \notin C)
  OBVIOUS
<1>4. Cardinality(B) = Cardinality(C) + One(k \in B)
  <2>1. CASE k \in B
    <3>1. B = C \cup {k} /\ k \notin C
      BY <2>1
    <3> HIDE DEF C
    <3> QED
      BY <1>2, <2>1, <3>1, FS_AddElement, Zenon DEF One
  <2>2. CASE k \notin B
    <3>1. B = C
      BY <2>2
    <3> HIDE DEF C
    <3> QED
      BY <1>2, <2>2, <3>1 DEF One
  <2> QED
    BY <2>1, <2>2
<1> QED
  BY <1>1, <1>2, <1>4

(* An entry is in one tier. *)
LEMMA OneTier ==
    ASSUME NEW k
    PROVE  One(Present(k)) = One(Resident(k)) + One(Spilled(k))
BY DEF One, Resident, Spilled

(* A total of two counters is a counter. *)
LEMMA TotalNat == \A r, n \in Nat : r + n \in Nat
OBVIOUS

(* Two counters and their total, after one share each went out and in. *)
LEMMA TotalFollows ==
    ASSUME NEW r \in Nat, NEW n \in Nat, NEW a \in Nat, NEW b \in Nat, NEW c \in Nat, NEW d \in Nat
    PROVE  (r + n) - (a + b) + (c + d) = (r - a + c) + (n - b + d)
BY SMTT(20)

(* The counters match the index again after k's entry became x. *)
LEMMA AccountingFollows ==
    ASSUME TierConstants, Types, Accounting, NEW k \in Keys, NEW x \in Node \cup {None},
           node' = [node EXCEPT ![k] = x], CountersFollow(k)
    PROVE  /\ Accounting' /\ node' \in [Keys -> Node \cup {None}]
           /\ ram \in Nat /\ RamOf(k) \in Nat /\ RamOf(k) <= ram
           /\ ram' \in Nat /\ nvme' \in Nat /\ ramKeys' \in Nat /\ nvmeKeys' \in Nat /\ entries' \in Nat
<1>1. IsFiniteSet(Keys) /\ node' \in [Keys -> Node \cup {None}] /\ node \in [Keys -> Node \cup {None}]
  BY DEF TierConstants, Types
<1>2. \A j \in Keys \ {k} : node'[j] = node[j]
  BY <1>1
<1> DEFINE ramF == [j \in Keys |-> RamOf(j)]
<1> DEFINE nvmeF == [j \in Keys |-> NvmeOf(j)]
<1>3. ramF \in [Keys -> Nat] /\ nvmeF \in [Keys -> Nat]
  BY <1>1 DEF RamOf, NvmeOf, Resident, Spilled, Present, Node
<1>4. ramF' \in [Keys -> Nat] /\ nvmeF' \in [Keys -> Nat]
  BY <1>1 DEF RamOf, NvmeOf, Resident, Spilled, Present, Node
<1>5. /\ \A j \in Keys \ {k} : ramF[j] = ramF'[j] /\ nvmeF[j] = nvmeF'[j]
      /\ ramF[k] = RamOf(k) /\ ramF'[k] = RamOf(k)' /\ nvmeF[k] = NvmeOf(k) /\ nvmeF'[k] = NvmeOf(k)'
  BY <1>2 DEF RamOf, NvmeOf, Resident, Spilled, Present
<1>6. ram = SumFunction(ramF) /\ nvme = SumFunction(nvmeF)
  BY DEF Accounting
<1> HIDE DEF ramF, nvmeF
<1>7. /\ SumFunction(ramF) \in Nat /\ ramF[k] <= SumFunction(ramF)
      /\ SumFunction(ramF') = SumFunction(ramF) - ramF[k] + ramF'[k]
  BY <1>1, <1>3, <1>4, <1>5, SumChange
<1>8. /\ SumFunction(nvmeF) \in Nat /\ nvmeF[k] <= SumFunction(nvmeF)
      /\ SumFunction(nvmeF') = SumFunction(nvmeF) - nvmeF[k] + nvmeF'[k]
  BY <1>1, <1>3, <1>4, <1>5, SumChange
<1>9. RamOf(k) \in Nat /\ RamOf(k)' \in Nat /\ NvmeOf(k) \in Nat /\ NvmeOf(k)' \in Nat
  BY <1>3, <1>4, <1>5
<1>10. ram' = SumFunction(ramF') /\ nvme' = SumFunction(nvmeF') /\ ram' \in Nat /\ nvme' \in Nat
  BY <1>5, <1>6, <1>7, <1>8, <1>9, SMTT(20), ZenonT(20) DEF CountersFollow
<1> DEFINE R == {j \in Keys : Resident(j)}
<1> DEFINE S == {j \in Keys : Spilled(j)}
<1>11. /\ R \in SUBSET Keys /\ R' \in SUBSET Keys /\ S \in SUBSET Keys /\ S' \in SUBSET Keys
       /\ \A j \in Keys \ {k} : (j \in R <=> j \in R') /\ (j \in S <=> j \in S')
       /\ k \in R <=> Resident(k)
       /\ k \in R' <=> Resident(k)'
       /\ k \in S <=> Spilled(k)
       /\ k \in S' <=> Spilled(k)'
  BY <1>2 DEF Resident, Spilled, Present
<1>12. ramKeys = Cardinality(R) /\ nvmeKeys = Cardinality(S) /\ entries = ramKeys + nvmeKeys
  BY DEF Accounting
<1> HIDE DEF R, S
<1>13. /\ Cardinality(R') = Cardinality(R) - One(k \in R) + One(k \in R')
       /\ Cardinality(R) \in Nat /\ Cardinality(R') \in Nat
  BY <1>1, <1>11, CountChange
<1>14. /\ Cardinality(S') = Cardinality(S) - One(k \in S) + One(k \in S')
       /\ Cardinality(S) \in Nat /\ Cardinality(S') \in Nat
  BY <1>1, <1>11, CountChange, SMTT(20), ZenonT(20)
<1>15. ramKeys' = Cardinality(R') /\ nvmeKeys' = Cardinality(S')
  BY <1>11, <1>12, <1>13, <1>14 DEF CountersFollow, One
<1>16. One(Present(k)') = One(Resident(k)') + One(Spilled(k)')
  BY DEF One, Resident, Spilled, Present
<1>17. entries' = ramKeys' + nvmeKeys'
  <2>1. /\ One(Present(k)) \in Nat /\ One(Resident(k)) \in Nat /\ One(Spilled(k)) \in Nat
        /\ One(Resident(k)') \in Nat /\ One(Spilled(k)') \in Nat
    BY DEF One
  <2>2. ramKeys \in Nat /\ nvmeKeys \in Nat
    BY <1>12, <1>13, <1>14, Zenon
  <2>3. (ramKeys + nvmeKeys) - (One(Resident(k)) + One(Spilled(k))) + (One(Resident(k)') + One(Spilled(k)'))
          = (ramKeys - One(Resident(k)) + One(Resident(k)')) + (nvmeKeys - One(Spilled(k)) + One(Spilled(k)'))
    BY <2>1, <2>2, TotalFollows, SMTT(20)
  <2>4. /\ entries' = entries - One(Present(k)) + One(Present(k)')
        /\ ramKeys' = ramKeys - One(Resident(k)) + One(Resident(k)')
        /\ nvmeKeys' = nvmeKeys - One(Spilled(k)) + One(Spilled(k)')
    BY Zenon DEF CountersFollow
  <2>5. One(Present(k)) = One(Resident(k)) + One(Spilled(k)) /\ entries = ramKeys + nvmeKeys
    BY <1>12, OneTier, Zenon
  <2> QED
    BY <1>16, <2>3, <2>4, <2>5, ZenonT(20), SMTT(20)
<1>18. ram' = SumFunction([j \in Keys |-> RamOf(j)])' /\ nvme' = SumFunction([j \in Keys |-> NvmeOf(j)])'
  BY <1>10, Zenon DEF ramF, nvmeF
<1>19. ramKeys' = Cardinality({j \in Keys : Resident(j)})' /\ nvmeKeys' = Cardinality({j \in Keys : Spilled(j)})'
  BY <1>15, Zenon DEF R, S
<1>20. Accounting'
  BY <1>17, <1>18, <1>19, Zenon DEF Accounting
<1>21. ramKeys' \in Nat /\ nvmeKeys' \in Nat
  BY <1>13, <1>14, <1>15, Zenon
<1>22. entries' \in Nat
  BY <1>17, <1>21, TotalNat, Zenon
<1>23. ram \in Nat /\ RamOf(k) <= ram
  BY <1>5, <1>6, <1>7, Zenon
<1> QED
  BY <1>1, <1>9, <1>10, <1>20, <1>21, <1>22, <1>23, Zenon

-----------------------------------------------------------------------------
(* One entry changes *)

(* The index, the list and the counters after k's entry became x. *)
EntryStep(k, x) ==
    /\ node' = [node EXCEPT ![k] = x] /\ CountersFollow(k)
    /\ lru' = IF Resident(k)' THEN Touched(k) ELSE Unlinked(k)

(* They agree again, and the list has grown or shrunk with the entry.      *)
LEMMA EntryFollows ==
    ASSUME TierConstants, Types, LruExact, Accounting,
           NEW k \in Keys, NEW x \in Node \cup {None}, EntryStep(k, x)
    PROVE  /\ node' \in [Keys -> Node \cup {None}] /\ lru' \in Seq(Keys) /\ LruExact' /\ Accounting'
           /\ Len(lru) \in Nat /\ Len(lru') \in Nat /\ Len(lru') <= Cardinality(Keys)
           /\ Cardinality(Keys) \in Nat
           /\ ~Resident(k)' => Len(lru') = Len(lru) - One(Resident(k))
           /\ ram' \in Nat /\ nvme' \in Nat /\ ramKeys' \in Nat /\ nvmeKeys' \in Nat /\ entries' \in Nat
<1>1. /\ Accounting' /\ node' \in [Keys -> Node \cup {None}]
      /\ ram' \in Nat /\ nvme' \in Nat /\ ramKeys' \in Nat /\ nvmeKeys' \in Nat /\ entries' \in Nat
  BY AccountingFollows, Zenon DEF EntryStep
<1>2. lru \in Seq(Keys) /\ IsInjective(lru) /\ Range(lru) = {j \in Keys : Resident(j)}
  BY DEF Types, LruExact
<1>3. {j \in Keys : Resident(j)'} =
          IF Resident(k)' THEN Range(lru) \cup {k} ELSE Range(lru) \ {k}
  BY <1>2 DEF EntryStep, Resident, Present, Types
<1>4. k \in Range(lru) <=> Resident(k)
  BY <1>2
<1>5. /\ Unlinked(k) \in Seq(Keys) /\ IsInjective(Unlinked(k)) /\ Range(Unlinked(k)) = Range(lru) \ {k}
      /\ k \in Range(lru) => Len(Unlinked(k)) = Len(lru) - 1
      /\ k \notin Range(lru) => Unlinked(k) = lru
  BY <1>2, UnlinkedFacts
<1>6. Touched(k) \in Seq(Keys) /\ IsInjective(Touched(k)) /\ Range(Touched(k)) = Range(lru) \cup {k}
  BY <1>2, TouchedFacts
<1>7. lru' \in Seq(Keys) /\ IsInjective(lru') /\ Range(lru') = {j \in Keys : Resident(j)'}
  BY <1>3, <1>5, <1>6 DEF EntryStep
<1>8. Len(lru) \in Nat /\ Len(lru') \in Nat /\ Len(lru') <= Cardinality(Keys) /\ Cardinality(Keys) \in Nat
  BY <1>2, <1>7, LruLength DEF TierConstants
<1>9. ~Resident(k)' => Len(lru') = Len(lru) - One(Resident(k))
  BY <1>4, <1>5, <1>8 DEF EntryStep, One
<1> QED
  BY <1>1, <1>7, <1>8, <1>9 DEF LruExact

(* Without resident entries no bytes are resident. *)
LEMMA NothingResident ==
    ASSUME IsFiniteSet(Keys), NEW f, f = [k \in Keys |-> 0]
    PROVE  SumFunction(f) = 0
<1>1. f \in [Keys -> Nat] /\ \A k \in Keys : f[k] = 0
  OBVIOUS
<1> QED
  BY <1>1, SumZero

-----------------------------------------------------------------------------
(* The spill directory *)

(* Every other entry keeps its state and its file. *)
OthersKept(k) ==
    \A j \in Keys \ {k} :
        node'[j] = node[j] /\ (Spilled(j) => files'[Name(j)] = files[Name(j)])

(* Spilled entries have different names, which are names of files. *)
LEMMA NamesDiffer ==
    ASSUME TierConstants, Types, EntryInv, SpillUnique, NEW j \in Keys, NEW k \in Keys, Spilled(j), Spilled(k)
    PROVE  Name(j) \in Names /\ (Name(j) = Name(k) => j = k)
<1>1. node[j].id \in Ids
  BY DEF TierConstants, EntryInv, Types, Ids
<1> QED
  BY <1>1 DEF Name, Names, SpillUnique

(* An entry leaves the disk: its file goes with it or is an orphan.        *)
LEMMA Retired ==
    ASSUME TierConstants, Types, EntryInv, SpillUnique, NoLeak,
           NEW k \in Keys, NEW x \in Node \cup {None}, node' = [node EXCEPT ![k] = x],
           x # None => x.resident /\ x.val \in Vals /\ x.len = Size[x.val],
           RetireFile(k), nextId' \in {nextId, nextId + 1}
    PROVE  /\ files' \in [Names -> Content] /\ orphans' \subseteq Names
           /\ EntryInv' /\ SpillUnique' /\ NoLeak' /\ OthersKept(k)
<1>1. /\ node' \in [Keys -> Node \cup {None}] /\ files \in [Names -> Content] /\ orphans \subseteq Names
      /\ node'[k] = x /\ \A j \in Keys \ {k} : node'[j] = node[j]
  BY DEF Types
<1>2. ~Spilled(k)' /\ (Resident(k)' => node'[k].val \in Vals /\ node'[k].len = Size[node'[k].val])
  BY <1>1 DEF Spilled, Resident, Present
<1>3. \A j \in Keys \ {k} : /\ Spilled(j)' <=> Spilled(j)
                            /\ Resident(j)' <=> Resident(j)
                            /\ Name(j)' = Name(j)
  BY <1>1 DEF Spilled, Resident, Present, Name
<1>4. \A j \in Keys : Spilled(j) => /\ Name(j) \in Names /\ Name(j) \notin orphans /\ files[Name(j)] # None
                                    /\ Spilled(k) /\ Name(j) = Name(k) => j = k
  BY NamesDiffer DEF EntryInv, NoLeak, Occupied
<1>5. None \in Content /\ nextId \in Nat
  BY SMTT(20), ZenonT(20) DEF Content, Types, TierConstants
<1>6. SpillUnique'
  BY <1>1, <1>2, <1>3, SMTT(20), ZenonT(20) DEF SpillUnique
<1>7. \/ Spilled(k) /\ files' = [files EXCEPT ![Name(k)] = None] /\ orphans' = orphans
      \/ Spilled(k) /\ files' = files /\ orphans' = orphans \cup {Name(k)}
      \/ ~Spilled(k) /\ files' = files /\ orphans' = orphans
  BY DEF RetireFile, RemoveFile, disk
<1>8. files' \in [Names -> Content] /\ orphans' \subseteq Names
  BY <1>1, <1>4, <1>5, <1>7, SMTT(20), ZenonT(20)
<1>9. \A j \in Keys \ {k} : Spilled(j) => files'[Name(j)] = files[Name(j)] /\ Name(j) \notin orphans'
  BY <1>1, <1>4, <1>7, SMTT(20), ZenonT(20)
<1>10. EntryInv'
  <2> SUFFICES ASSUME NEW j \in Keys
               PROVE  /\ Resident(j)' => node'[j].val \in Vals /\ node'[j].len = Size[node'[j].val]
                      /\ Spilled(j)' => node'[j].id \in 1..(nextId' - 1) /\ Name(j)' \notin orphans'
    BY SMTT(20), ZenonT(20) DEF EntryInv
  <2>1. CASE j = k
    BY <1>2, <2>1, SMTT(20), ZenonT(20)
  <2>2. CASE j # k
    <3>1. Resident(j) => node[j].val \in Vals /\ node[j].len = Size[node[j].val]
      BY DEF EntryInv
    <3>2. Spilled(j) => node[j].id \in 1..(nextId - 1)
      BY DEF EntryInv
    <3>3. Spilled(j) => node[j].id \in 1..(nextId' - 1)
      BY <1>5, <3>2, SMTT(20), ZenonT(20)
    <3> QED
      BY <1>1, <1>3, <1>9, <2>2, <3>1, <3>3, SMTT(20), ZenonT(20)
  <2> QED
    BY <2>1, <2>2, SMTT(20), ZenonT(20)
<1>11. NoLeak'
  <2> DEFINE named == {Name(j) : j \in {j \in Keys : Spilled(j)}}
  <2>1. \A n \in Names : n \in named' <=> (n \in named /\ ~(Spilled(k) /\ n = Name(k)))
    BY <1>2, <1>3, <1>4, SMTT(20), ZenonT(20)
  <2>2. named \subseteq Names /\ named' \subseteq Names
    BY <1>2, <1>3, <1>4
  <2>3. Spilled(k) => Name(k) \in named /\ Name(k) \in Names /\ Name(k) \notin orphans
    BY <1>4
  <2>4. \A n \in Names : files[n] # None <=> n \in orphans \/ n \in named
    BY SMTT(20), ZenonT(20) DEF NoLeak, Occupied
  <2> HIDE DEF named
  <2>5. \A n \in Names : files'[n] # None <=> n \in orphans' \/ n \in named'
    BY <1>1, <1>7, <2>1, <2>3, <2>4
  <2> QED
    BY <1>8, <2>2, <2>5 DEF NoLeak, Occupied, named
<1> QED
  BY <1>1, <1>6, <1>8, <1>9, <1>10, <1>11 DEF OthersKept

-----------------------------------------------------------------------------
(* The invariant holds at first, and every step keeps it *)

(* What a step that changes an entry must re-establish. *)
Core ==
    /\ node \in [Keys -> Node \cup {None}] /\ lru \in Seq(Keys)
    /\ files \in [Names -> Content] /\ orphans \subseteq Names
    /\ EntryInv /\ SpillUnique /\ LruExact /\ Accounting /\ NoLeak

(* The counters are numbers. *)
LEMMA CountersAreNumbers ==
    ASSUME TierConstants, Types, Accounting
    PROVE  ram \in Nat /\ nvme \in Nat /\ ramKeys \in Nat /\ nvmeKeys \in Nat /\ entries \in Nat
<1> DEFINE ramF == [k \in Keys |-> RamOf(k)]
<1> DEFINE nvmeF == [k \in Keys |-> NvmeOf(k)]
<1>1. ramF \in [Keys -> Nat] /\ nvmeF \in [Keys -> Nat] /\ IsFiniteSet(Keys)
  BY DEF RamOf, NvmeOf, Resident, Spilled, Present, Node, Types, TierConstants
<1>2. ram = SumFunction(ramF) /\ nvme = SumFunction(nvmeF)
  BY DEF Accounting
<1> HIDE DEF ramF, nvmeF
<1>3. ASSUME NEW f \in [Keys -> Nat] PROVE SumFunction(f) \in Nat
  <2>1. PICK g \in [SUBSET Keys -> Nat] : Sums(f, Keys, g)
    BY <1>1, SumsExist, Zenon
  <2>2. SumFunction(f) = g[Keys]
    BY <1>1, <2>1, SumIs
  <2> QED
    BY <2>1, <2>2
<1>4. ram \in Nat /\ nvme \in Nat
  BY <1>1, <1>2, <1>3
<1>5. Cardinality({k \in Keys : Resident(k)}) \in Nat /\ Cardinality({k \in Keys : Spilled(k)}) \in Nat
  BY <1>1, FS_Subset, FS_CardinalityType
<1> QED
  BY <1>4, <1>5 DEF Accounting

(* An empty shard satisfies the invariant. *)
LEMMA InitIInv == ASSUME TierConstants, ShardInit PROVE IInv
<1>1. \A k \in Keys : ~Present(k) /\ ~Resident(k) /\ ~Spilled(k) /\ RamOf(k) = 0 /\ NvmeOf(k) = 0
  BY DEF ShardInit, Present, Resident, Spilled, RamOf, NvmeOf
<1>2. Types
  BY DEF ShardInit, Types, TierConstants, Content
<1>3. EntryInv /\ SpillUnique /\ Room /\ OverByOne
  BY <1>1 DEF ShardInit, EntryInv, SpillUnique, Room, OverByOne, TierConstants
<1>4. LruExact
  BY <1>1 DEF ShardInit, LruExact, IsInjective, Range
<1>5. NoLeak
  BY <1>1 DEF ShardInit, NoLeak, Occupied
<1>6. Accounting
  <2>1. /\ [k \in Keys |-> RamOf(k)] = [k \in Keys |-> 0] /\ [k \in Keys |-> NvmeOf(k)] = [k \in Keys |-> 0]
        /\ {k \in Keys : Resident(k)} = {} /\ {k \in Keys : Spilled(k)} = {}
    BY <1>1
  <2>2. SumFunction([k \in Keys |-> 0]) = 0
    BY NothingResident DEF TierConstants
  <2>3. Cardinality({}) = 0
    BY FS_EmptySet
  <2>4. SumFunction([k \in Keys |-> RamOf(k)]) = 0 /\ SumFunction([k \in Keys |-> NvmeOf(k)]) = 0
    BY <2>1, <2>2
  <2>5. Cardinality({k \in Keys : Resident(k)}) = 0 /\ Cardinality({k \in Keys : Spilled(k)}) = 0
    BY <2>1, <2>3
  <2>6. ram = 0 /\ nvme = 0 /\ ramKeys = 0 /\ nvmeKeys = 0 /\ entries = ramKeys + nvmeKeys
    BY DEF ShardInit
  <2> QED
    BY <2>4, <2>5, <2>6 DEF Accounting
<1> QED
  BY <1>2, <1>3, <1>4, <1>5, <1>6 DEF IInv

(* shard_drop_node, from whichever tier. *)
LEMMA DropKeeps ==
    ASSUME TierConstants, IInv, NEW k \in Keys, Present(k), Drop(k), nextId' \in {nextId, nextId + 1}
    PROVE  /\ Core' /\ OthersKept(k) /\ ~Present(k)'
           /\ Len(lru) \in Nat /\ Len(lru') \in Nat /\ Len(lru') = Len(lru) - One(Resident(k))
           /\ ram \in Nat /\ ram' \in Nat /\ ram' <= ram
<1> USE DEF IInv
<1>1. node' = [node EXCEPT ![k] = None] /\ node \in [Keys -> Node \cup {None}]
  BY DEF Drop, Types
<1>2. ~Present(k)' /\ ~Resident(k)' /\ ~Spilled(k)' /\ RamOf(k)' = 0 /\ NvmeOf(k)' = 0
  BY <1>1 DEF Present, Resident, Spilled, RamOf, NvmeOf
<1>3. /\ ram \in Nat /\ nvme \in Nat /\ ramKeys \in Nat /\ nvmeKeys \in Nat /\ entries \in Nat
      /\ RamOf(k) \in Nat /\ NvmeOf(k) \in Nat
  BY <1>1, CountersAreNumbers DEF RamOf, NvmeOf, Present, Resident, Spilled, Node
<1>4. CountersFollow(k)
  BY <1>2, <1>3 DEF Drop, CountersFollow, One
<1>5. EntryStep(k, None)
  BY <1>1, <1>2, <1>4 DEF EntryStep, Drop
<1>6. /\ node' \in [Keys -> Node \cup {None}] /\ lru' \in Seq(Keys) /\ LruExact' /\ Accounting'
      /\ Len(lru) \in Nat /\ Len(lru') \in Nat /\ Len(lru') = Len(lru) - One(Resident(k))
      /\ ram' \in Nat
  BY <1>2, <1>5, EntryFollows, SMTT(20), ZenonT(20)
<1>7. /\ files' \in [Names -> Content] /\ orphans' \subseteq Names
      /\ EntryInv' /\ SpillUnique' /\ NoLeak' /\ OthersKept(k)
  BY <1>1, Retired, Zenon DEF Drop
<1>8. ram' <= ram
  BY <1>3 DEF Drop
<1> QED
  BY <1>2, <1>3, <1>6, <1>7, <1>8, SMTT(20), ZenonT(20) DEF Core

(* A counter that grows by m, shrinks by m, or has m taken out and put     *)
(* back, written as old share out, new share in.                           *)
LEMMA Shares ==
    /\ \A c, m \in Nat : c - 0 + m = c + m /\ c - m + 0 = c - m
    /\ \A c \in Nat : c - 0 + 1 = c + 1 /\ c - 1 + 0 = c - 1 /\ c - 1 + 1 = c
BY SMTT(20)

(* A put links the new entry at the front and counts it in place of the    *)
(* old one.                                                                *)
LEMMA PutKeeps ==
    ASSUME TierConstants, IInv, NEW k \in Keys, NEW v \in Vals, Put(k, v)
    PROVE  IInv' /\ OthersKept(k)
<1> USE DEF IInv
<1> DEFINE x == [val |-> v, len |-> Size[v], resident |-> TRUE, id |-> 0]
<1>1. x \in Node /\ x # None /\ x.resident /\ x.val \in Vals /\ x.len = Size[x.val] /\ Size[v] \in Nat
  <2>1. Size[v] \in Nat /\ None \notin Node
    BY DEF TierConstants
  <2>2. x \in Node
    BY <2>1 DEF Node
  <2> QED
    BY <2>1, <2>2, ZenonT(40)
<1>2. node' = [node EXCEPT ![k] = x] /\ node \in [Keys -> Node \cup {None}] /\ node'[k] = x
  BY DEF Put, Types
<1>3. Present(k)' /\ Resident(k)' /\ ~Spilled(k)' /\ RamOf(k)' = Size[v] /\ NvmeOf(k)' = 0
  BY <1>1, <1>2 DEF Present, Resident, Spilled, RamOf, NvmeOf
<1> HIDE DEF x
<1>4. /\ ram \in Nat /\ nvme \in Nat /\ ramKeys \in Nat /\ nvmeKeys \in Nat /\ entries \in Nat
      /\ RamOf(k) \in Nat /\ NvmeOf(k) \in Nat
  BY <1>2, CountersAreNumbers, SMTT(20), ZenonT(20) DEF RamOf, NvmeOf, Present, Resident, Spilled, Node
<1>5. CountersFollow(k)
  <2>1. One(Resident(k)') = 1 /\ One(Spilled(k)') = 0 /\ One(Present(k)') = 1
    BY <1>3 DEF One
  <2>2. /\ One(Resident(k)) \in Nat /\ One(Spilled(k)) \in Nat /\ One(Present(k)) \in Nat
        /\ One(~Present(k)) = 1 - One(Present(k))
    BY SMTT(20), ZenonT(20) DEF One
  <2>3. /\ ram' = ram - RamOf(k) + Size[v] /\ nvme' = nvme - NvmeOf(k)
        /\ ramKeys' = ramKeys - One(Resident(k)) + 1 /\ nvmeKeys' = nvmeKeys - One(Spilled(k))
        /\ entries' = entries + One(~Present(k))
    BY DEF Put, RamAfterPut
  <2>4. ram' = ram - RamOf(k) + RamOf(k)'
    BY <1>3, <2>3, Zenon
  <2>5. nvme' = nvme - NvmeOf(k) + NvmeOf(k)'
    <3>1. nvme - NvmeOf(k) + 0 = nvme - NvmeOf(k)
      BY <1>4, Shares, ZenonT(20)
    <3> QED
      BY <1>3, <2>3, <3>1, Zenon
  <2>6. ramKeys' = ramKeys - One(Resident(k)) + One(Resident(k)')
    BY <2>1, <2>3
  <2>7. nvmeKeys' = nvmeKeys - One(Spilled(k)) + One(Spilled(k)')
    <3>1. nvmeKeys - One(Spilled(k)) + 0 = nvmeKeys - One(Spilled(k))
      BY <1>4, <2>2, Shares, ZenonT(20)
    <3> QED
      BY <2>1, <2>3, <3>1, Zenon
  <2>8. entries' = entries - One(Present(k)) + One(Present(k)')
    BY <1>4, <2>1, <2>2, <2>3, SMTT(20), ZenonT(20)
  <2> QED
    BY <2>4, <2>5, <2>6, <2>7, <2>8, Zenon DEF CountersFollow
<1>6. EntryStep(k, x)
  BY <1>2, <1>3, <1>5, Zenon DEF EntryStep, Put
<1>7. /\ node' \in [Keys -> Node \cup {None}] /\ lru' \in Seq(Keys) /\ LruExact' /\ Accounting'
      /\ Len(lru') \in Nat /\ Len(lru') <= Cardinality(Keys) /\ Cardinality(Keys) \in Nat
  BY <1>1, <1>6, EntryFollows
<1>8. /\ files' \in [Names -> Content] /\ orphans' \subseteq Names
      /\ EntryInv' /\ SpillUnique' /\ NoLeak' /\ OthersKept(k)
  BY <1>1, <1>2, Retired, ZenonT(40) DEF Put
<1>9. Types'
  BY <1>7, <1>8, Zenon DEF Types, Put
<1>10. Room'
  <2>1. nextId \in Nat /\ MaxId \in Nat
    BY DEF Types, TierConstants
  <2> QED
    BY <1>7, <2>1 DEF Put, IdsLeft, Room
<1>11. OverByOne'
  BY DEF Put, OverByOne, TierConstants
<1> QED
  BY <1>7, <1>8, <1>9, <1>10, <1>11

(* A step that leaves the index, the counters and the orphans alone keeps  *)
(* what is said of them.                                                   *)
LEMMA Untouched ==
    ASSUME IInv, UNCHANGED <<node, ram, nvme, ramKeys, nvmeKeys, entries, orphans, nextId>>
    PROVE  /\ EntryInv' /\ SpillUnique' /\ Accounting'
           /\ lru' = lru => LruExact'
           /\ files' = files => NoLeak'
<1>1. \A k \in Keys : /\ Present(k)' <=> Present(k)
                      /\ Resident(k)' <=> Resident(k)
                      /\ Spilled(k)' <=> Spilled(k)
                      /\ Name(k)' = Name(k)
  BY SMTT(20), ZenonT(20) DEF Present, Resident, Spilled, Name
<1>2. \A k \in Keys : RamOf(k)' = RamOf(k) /\ NvmeOf(k)' = NvmeOf(k)
  BY <1>1 DEF RamOf, NvmeOf
<1>3. /\ {k \in Keys : Resident(k)'} = {k \in Keys : Resident(k)}
      /\ {k \in Keys : Spilled(k)'} = {k \in Keys : Spilled(k)}
  BY <1>1, SMTT(20), ZenonT(20)
<1>4. EntryInv'
  BY <1>1 DEF IInv, EntryInv
<1>5. SpillUnique'
  BY <1>1 DEF IInv, SpillUnique
<1>6. Accounting'
  <2>1. /\ [k \in Keys |-> RamOf(k)'] = [k \in Keys |-> RamOf(k)]
        /\ [k \in Keys |-> NvmeOf(k)'] = [k \in Keys |-> NvmeOf(k)]
    BY <1>2
  <2> QED
    BY <1>3, <2>1, Zenon DEF IInv, Accounting
<1>7. lru' = lru => LruExact'
  BY <1>3 DEF IInv, LruExact
<1>8. files' = files => NoLeak'
  BY <1>1 DEF IInv, NoLeak, Occupied
<1> QED
  BY <1>4, <1>5, <1>6, <1>7, <1>8, SMTT(20), ZenonT(20)

(* What evict_one picks is resident, and one id is left for it. *)
LEMMA VictimFacts ==
    ASSUME TierConstants, IInv, protect # None, NEW k \in Victims
    PROVE  k \in Keys /\ Resident(k) /\ nextId \in Ids
<1>1. lru \in Seq(Keys) /\ Range(lru) = {j \in Keys : Resident(j)}
  BY DEF IInv, Types, LruExact
<1>2. PICK i \in DOMAIN lru : k = lru[i]
  BY <1>1 DEF Victims
<1>3. k \in Keys /\ Resident(k)
  BY <1>1, <1>2 DEF Range
<1>4. Len(lru) \in Nat /\ 1 <= Len(lru)
  BY <1>1, <1>2
<1>5. nextId \in Nat /\ 1 <= nextId /\ MaxId \in Nat /\ nextId + Len(lru) <= MaxId + 1
  BY DEF IInv, Types, Room, TierConstants
<1> QED
  BY <1>3, <1>4, <1>5 DEF Ids

(* The entry evict_one leaves in the index. *)
LEMMA SpillEntry ==
    ASSUME TierConstants, IInv, NEW k \in Keys, Resident(k), nextId \in Ids, EvictSpill(k)
    PROVE  \E x \in Node : /\ node' = [node EXCEPT ![k] = x] /\ node'[k] = x /\ x # None
                           /\ ~x.resident /\ x.id = nextId /\ x.len = node[k].len
<1>1. node \in [Keys -> Node \cup {None}] /\ node[k] \in Node /\ None \notin Node
  BY DEF IInv, Types, Resident, Present, TierConstants
<1> DEFINE x == [node[k] EXCEPT !.val = None, !.resident = FALSE, !.id = nextId]
<1>2. x \in Node
  BY <1>1, Zenon DEF Node
<1>3. ~x.resident /\ x.id = nextId /\ x.len = node[k].len
  BY <1>1 DEF Node
<1>4. node' = [node EXCEPT ![k] = x]
  BY <1>1, ZenonT(40) DEF EvictSpill
<1> HIDE DEF x
<1>5. node'[k] = x
  BY <1>1, <1>4
<1> QED
  BY <1>1, <1>2, <1>3, <1>4, <1>5, Zenon

(* An ID that was handed out is below the next one. *)
LEMMA IdTaken ==
    ASSUME TierConstants, NEW n \in Ids
    PROVE  n \in 1..((n + 1) - 1)
BY DEF Ids, TierConstants

(* evict_one writes the file of a resident entry and marks it spilled. *)
LEMMA SpillKeeps ==
    ASSUME TierConstants, IInv, NEW k \in Keys, Resident(k), nextId \in Ids, EvictSpill(k),
           nextId' = nextId + 1
    PROVE  /\ Core' /\ OthersKept(k)
           /\ Spilled(k)' /\ Name(k)' = <<Hash[k], nextId>> /\ node'[k].len = node[k].len
           /\ files'[<<Hash[k], nextId>>] = <<k, node[k].val>> /\ node[k].val \in Vals
           /\ Size[node[k].val] = node[k].len
           /\ Len(lru) \in Nat /\ Len(lru') \in Nat /\ Len(lru') = Len(lru) - 1
<1> USE DEF IInv
<1>1. PICK x \in Node : /\ node' = [node EXCEPT ![k] = x] /\ node'[k] = x /\ x # None
                        /\ ~x.resident /\ x.id = nextId /\ x.len = node[k].len
  BY SpillEntry
<1>2. /\ node \in [Keys -> Node \cup {None}] /\ files \in [Names -> Content] /\ orphans \subseteq Names
      /\ nextId \in Nat /\ None \notin Keys \X Vals
  BY DEF Types, Ids, TierConstants
<1>3. \A j \in Keys \ {k} : node'[j] = node[j]
  BY <1>1, <1>2, SMTT(20), ZenonT(20)
<1>4. /\ Present(k) /\ ~Spilled(k) /\ RamOf(k) = node[k].len /\ NvmeOf(k) = 0 /\ node[k].len \in Nat
      /\ node[k].val \in Vals /\ Size[node[k].val] = node[k].len
  BY <1>2, SMTT(20), ZenonT(20) DEF Resident, Present, Spilled, RamOf, NvmeOf, EntryInv, Node
<1>5. Present(k)' /\ ~Resident(k)' /\ Spilled(k)' /\ RamOf(k)' = 0 /\ NvmeOf(k)' = node[k].len
  BY <1>1, SMTT(20), ZenonT(20) DEF Resident, Present, Spilled, RamOf, NvmeOf
<1>6. CountersFollow(k)
  <2>1. /\ One(Resident(k)) = 1 /\ One(Spilled(k)) = 0 /\ One(Present(k)) = 1
        /\ One(Resident(k)') = 0 /\ One(Spilled(k)') = 1 /\ One(Present(k)') = 1
    BY <1>4, <1>5, Zenon DEF One
  <2>2. ram \in Nat /\ nvme \in Nat /\ ramKeys \in Nat /\ nvmeKeys \in Nat /\ entries \in Nat
    BY CountersAreNumbers
  <2>3. /\ ram' = ram - node[k].len /\ nvme' = nvme + node[k].len
        /\ ramKeys' = ramKeys - 1 /\ nvmeKeys' = nvmeKeys + 1 /\ entries' = entries
    BY SMTT(20), ZenonT(20) DEF EvictSpill
  <2>4. ram' = ram - RamOf(k) + RamOf(k)'
    <3>1. ram - node[k].len + 0 = ram - node[k].len
      BY <1>4, <2>2, Shares, ZenonT(20)
    <3> QED
      BY <1>4, <1>5, <2>3, <3>1, Zenon
  <2>5. nvme' = nvme - NvmeOf(k) + NvmeOf(k)'
    <3>1. nvme - 0 + node[k].len = nvme + node[k].len
      BY <1>4, <2>2, Shares, ZenonT(20)
    <3> QED
      BY <1>4, <1>5, <2>3, <3>1, Zenon
  <2>6. ramKeys' = ramKeys - One(Resident(k)) + One(Resident(k)')
    <3>1. ramKeys - 1 + 0 = ramKeys - 1
      BY <2>2, Shares, ZenonT(20)
    <3>2. One(Resident(k)) = 1 /\ One(Resident(k)') = 0
      BY <1>5, Zenon DEF One
    <3> QED
      BY <2>3, <3>1, <3>2, Zenon
  <2>7. nvmeKeys' = nvmeKeys - One(Spilled(k)) + One(Spilled(k)')
    <3>1. nvmeKeys - 0 + 1 = nvmeKeys + 1
      BY <2>2, Shares, ZenonT(20)
    <3> QED
      BY <2>1, <2>3, <3>1, Zenon
  <2>8. entries' = entries - One(Present(k)) + One(Present(k)')
    <3>1. entries - 1 + 1 = entries
      BY <2>2, Shares, ZenonT(20)
    <3> QED
      BY <2>1, <2>3, <3>1, Zenon
  <2> QED
    BY <2>4, <2>5, <2>6, <2>7, <2>8, Zenon DEF CountersFollow
<1>7. EntryStep(k, x)
  BY <1>1, <1>5, <1>6, Zenon DEF EntryStep, EvictSpill, LruAfterSpill
<1>8. /\ node' \in [Keys -> Node \cup {None}] /\ lru' \in Seq(Keys) /\ LruExact' /\ Accounting'
      /\ Len(lru) \in Nat /\ Len(lru') \in Nat /\ Len(lru') = Len(lru) - 1
  <2>1. One(Resident(k)) = 1
    BY DEF One
  <2> QED
    BY <1>5, <1>7, <2>1, EntryFollows, Zenon
<1> DEFINE n0 == <<Hash[k], nextId>>
<1>9. n0 \in Names /\ Name(k)' = n0
  BY <1>1 DEF Names, Name
<1>10. /\ files' = [files EXCEPT ![n0] = <<k, node[k].val>>] /\ orphans' = orphans \ {n0}
       /\ <<k, node[k].val>> \in Content /\ <<k, node[k].val>> # None
  BY <1>2, <1>4, SMTT(20), ZenonT(20) DEF EvictSpill, Content
<1>11. \A j \in Keys \ {k} : /\ Spilled(j)' <=> Spilled(j)
                             /\ Resident(j)' <=> Resident(j)
                             /\ Name(j)' = Name(j)
  BY <1>3, SMTT(20), ZenonT(20) DEF Spilled, Resident, Present, Name
<1>12. \A j \in Keys : Spilled(j) => /\ Name(j) # n0 /\ Name(j) \in Names /\ Name(j) \notin orphans
                                     /\ node[j].id < nextId /\ node[j].id \in 1..nextId
  <2> SUFFICES ASSUME NEW j \in Keys, Spilled(j)
               PROVE  /\ Name(j) # n0 /\ Name(j) \in Names /\ Name(j) \notin orphans
                      /\ node[j].id < nextId /\ node[j].id \in 1..nextId
    BY SMTT(20), ZenonT(20)
  <2>1. node[j].id \in 1..(nextId - 1) /\ Name(j) \notin orphans
    BY DEF EntryInv
  <2>2. node[j].id < nextId /\ node[j].id \in 1..nextId
    BY <1>2, <2>1
  <2>3. Name(j) # n0
    <3>1. node[j].id # nextId
      BY <1>2, <2>1
    <3> QED
      BY <3>1 DEF Name
  <2>4. Name(j) \in Names
    BY NamesDiffer, Zenon
  <2> QED
    BY <2>1, <2>2, <2>3, <2>4, Zenon
<1> HIDE DEF n0
<1>13. files' \in [Names -> Content] /\ orphans' \subseteq Names /\ files'[n0] = <<k, node[k].val>>
  BY <1>2, <1>9, <1>10, SMTT(20), ZenonT(20)
<1>14. OthersKept(k)
  BY <1>2, <1>3, <1>10, <1>12 DEF OthersKept
<1>15. SpillUnique'
  <2> SUFFICES ASSUME NEW i \in Keys, NEW j \in Keys, Spilled(i)', Spilled(j)', node'[i].id = node'[j].id
               PROVE  i = j
    BY SMTT(20), ZenonT(20) DEF SpillUnique
  <2>1. CASE i # k /\ j # k
    BY <1>3, <1>11, <2>1, SMTT(20), ZenonT(20) DEF SpillUnique
  <2>2. CASE i = k \/ j = k
    <3>1. ASSUME NEW h \in Keys, Spilled(h) PROVE node[h].id # nextId
      <4>1. node[h].id < nextId /\ node[h].id \in 1..nextId
        BY <1>12, <3>1, Zenon
      <4> QED
        BY <1>2, <4>1
    <3>2. \A h \in Keys \ {k} : Spilled(h)' => node'[h].id # nextId
      BY <1>3, <1>11, <3>1, Zenon
    <3>3. node'[k].id = nextId
      BY <1>1, Zenon
    <3> QED
      BY <2>2, <3>2, <3>3, Zenon
  <2> QED
    BY <2>1, <2>2, Zenon
<1>16. EntryInv'
  <2> SUFFICES ASSUME NEW j \in Keys
               PROVE  /\ Resident(j)' => node'[j].val \in Vals /\ node'[j].len = Size[node'[j].val]
                      /\ Spilled(j)' => node'[j].id \in 1..(nextId' - 1) /\ Name(j)' \notin orphans'
    BY SMTT(20), ZenonT(20) DEF EntryInv
  <2>1. CASE j = k
    <3>1. node'[k].id \in 1..(nextId' - 1)
      <4>1. nextId \in 1..((nextId + 1) - 1)
        BY IdTaken, Zenon
      <4> QED
        BY <1>1, <4>1, Zenon
    <3>2. ~Resident(k)'
      BY <1>5, Zenon
    <3>3. Name(k)' \notin orphans'
      <4>1. n0 \notin orphans'
        BY <1>10, Zenon
      <4> QED
        BY <1>9, <4>1, Zenon
    <3> QED
      BY <2>1, <3>1, <3>2, <3>3, Zenon
  <2>2. CASE j # k
    <3>1. Resident(j) => node[j].val \in Vals /\ node[j].len = Size[node[j].val]
      BY DEF EntryInv
    <3>2. nextId' - 1 = nextId
      BY <1>2, SMTT(20), ZenonT(20)
    <3> QED
      BY <1>3, <1>10, <1>11, <1>12, <2>2, <3>1, <3>2, SMTT(20), ZenonT(20)
  <2> QED
    BY <2>1, <2>2, SMTT(20), ZenonT(20)
<1>17. NoLeak'
  <2> DEFINE named == {Name(j) : j \in {j \in Keys : Spilled(j)}}
  <2>1. \A n \in Names : n \in named' <=> (n \in named \/ n = n0)
    BY <1>4, <1>5, <1>9, <1>11, SMTT(20), ZenonT(20)
  <2>2. named' \subseteq Names
    BY <1>4, <1>9, <1>11, <1>12
  <2>3. \A n \in Names : files[n] # None <=> n \in orphans \/ n \in named
    BY DEF NoLeak, Occupied
  <2> HIDE DEF named
  <2>4. \A n \in Names : files'[n] # None <=> n \in orphans' \/ n \in named'
    BY <1>2, <1>9, <1>10, <2>1, <2>3, SMTT(20), ZenonT(20)
  <2> QED
    BY <1>13, <2>2, <2>4, SMTT(20), ZenonT(20) DEF NoLeak, Occupied, named
<1> QED
  BY <1>4, <1>5, <1>8, <1>9, <1>13, <1>14, <1>15, <1>16, <1>17, <1>1, Zenon DEF Core, n0

(* An eviction takes one entry other than the protected one out of         *)
(* memory, with or without a file left behind.                             *)
LEMMA EvictKeeps == ASSUME TierConstants, IInv, Evict PROVE IInv'
<1>1. protect # None /\ nextId' = nextId + 1 /\ UNCHANGED <<protect, reply, wrote>>
  BY DEF Evict
<1>2. PICK k \in Victims : EvictSpill(k) \/ EvictDrop(k)
  BY DEF Evict
<1>3. k \in Keys /\ Resident(k) /\ nextId \in Ids
  BY <1>1, <1>2, VictimFacts
<1>4. Core' /\ Len(lru) \in Nat /\ Len(lru') \in Nat /\ Len(lru') = Len(lru) - 1
  <2>1. CASE EvictSpill(k)
    BY <1>1, <1>3, <2>1, SpillKeeps, Zenon
  <2>2. CASE EvictDrop(k)
    <3>1. Present(k) /\ Drop(k) /\ One(Resident(k)) = 1
      BY <1>3, <2>2 DEF Resident, EvictDrop, One
    <3> QED
      BY <1>1, <1>3, <3>1, DropKeeps, Zenon
  <2> QED
    BY <1>2, <2>1, <2>2, SMTT(20), ZenonT(20)
<1>5. nextId' \in 1..(MaxId + 1) /\ nextId \in Nat /\ MaxId \in Nat
  BY <1>1, <1>3, SMTT(20), ZenonT(20) DEF Ids, TierConstants
<1>6. Types'
  BY <1>1, <1>4, <1>5 DEF Core, Types, IInv
<1>7. Room'
  BY <1>1, <1>4, <1>5 DEF Room, IInv
<1> QED
  BY <1>1, <1>4, <1>6, <1>7 DEF Core, IInv, OverByOne

(* Without resident entries the shard is not over its budget. *)
LEMMA EmptyFits ==
    ASSUME TierConstants, IInv, lru = <<>>
    PROVE  ram = 0
<1>1. \A k \in Keys : RamOf(k) = 0
  BY DEF IInv, LruExact, Range, RamOf
<1>2. [k \in Keys |-> RamOf(k)] = [k \in Keys |-> 0]
  BY <1>1
<1>3. SumFunction([k \in Keys |-> 0]) = 0
  BY NothingResident DEF TierConstants
<1>4. ram = SumFunction([k \in Keys |-> RamOf(k)])
  BY DEF IInv, Accounting
<1> QED
  BY <1>2, <1>3, <1>4

(* The call that made room ends within the budget, or with a single        *)
(* entry.                                                                  *)
LEMMA UnlockKeeps == ASSUME TierConstants, IInv, Unlock PROVE IInv'
<1>1. UNCHANGED <<node, lru, ram, nvme, ramKeys, nvmeKeys, entries, files, orphans, nextId, reply, wrote>> /\ protect' = None
  BY DEF Unlock, counters, disk
<1>2. OverByOne'
  <2> SUFFICES ASSUME ram > Budget PROVE Len(lru) = 1
    BY <1>1, SMTT(20), ZenonT(20) DEF OverByOne
  <2>1. Victims = {} /\ Budget \in Nat /\ lru \in Seq(Keys)
    BY DEF Unlock, OverBudget, TierConstants, IInv, Types
  <2>2. lru # <<>>
    BY <2>1, EmptyFits
  <2>3. {Len(lru) - 1} \cap DOMAIN lru = {}
    BY <2>1, <2>2, ZenonT(40) DEF Victims
  <2>4. Len(lru) \in Nat /\ Len(lru) # 0 /\ DOMAIN lru = 1..Len(lru) /\ Len(lru) - 1 \notin DOMAIN lru
    BY <2>1, <2>2, <2>3
  <2> QED
    BY <2>4
<1>3. Types' /\ Room'
  BY <1>1 DEF IInv, Types, Room
<1>4. EntryInv' /\ SpillUnique' /\ LruExact' /\ Accounting' /\ NoLeak'
  BY <1>1, Untouched
<1> QED
  BY <1>2, <1>3, <1>4, SMTT(20), ZenonT(20) DEF IInv

(* A hit in memory only moves the entry to the front. *)
LEMMA GetResidentKeeps ==
    ASSUME TierConstants, IInv, NEW k \in Keys, GetResident(k) PROVE IInv'
<1>1. UNCHANGED <<node, ram, nvme, ramKeys, nvmeKeys, entries, files, orphans, nextId, protect, wrote>> /\ lru' = Touched(k)
  BY DEF GetResident, counters, disk
<1>2. protect = None /\ Resident(k) /\ node[k].val \in Vals
  BY SMTT(20), ZenonT(20) DEF GetResident, IInv, EntryInv
<1>3. lru \in Seq(Keys) /\ IsInjective(lru) /\ Range(lru) = {j \in Keys : Resident(j)} /\ k \in Range(lru)
  BY <1>2 DEF IInv, Types, LruExact
<1>4. /\ Touched(k) \in Seq(Keys) /\ IsInjective(Touched(k)) /\ Range(Touched(k)) = Range(lru)
      /\ Len(Touched(k)) = Len(lru)
  BY <1>3, TouchedFacts, SMTT(20), ZenonT(20)
<1>5. Types' /\ Room' /\ OverByOne'
  <2>1. reply' \in Keys \X Vals
    BY <1>2, SMTT(20), ZenonT(20) DEF GetResident
  <2> QED
    BY <1>1, <1>2, <1>4, <2>1, SMTT(20), ZenonT(20) DEF IInv, Types, Room, OverByOne
<1>6. LruExact'
  BY <1>1, <1>3, <1>4, SMTT(20), ZenonT(20) DEF LruExact, Resident, Present
<1>7. EntryInv' /\ SpillUnique' /\ Accounting' /\ NoLeak'
  BY <1>1, Untouched, SMTT(20), ZenonT(20)
<1> QED
  BY <1>5, <1>6, <1>7 DEF IInv

(* A file pk_tier_read accepts holds a value of the right length. *)
LEMMA ReadBackFacts ==
    ASSUME TierConstants, IInv, NEW k \in Keys, Spilled(k), ReadsBack(k)
    PROVE  files[Name(k)][2] \in Vals /\ Size[files[Name(k)][2]] = node[k].len
<1>1. Name(k) \in Names
  BY NamesDiffer DEF IInv
<1>2. files[Name(k)] \in Keys \X Vals
  BY <1>1 DEF IInv, Types, Content, ReadsBack
<1> QED
  BY <1>2 DEF ReadsBack

(* A peek changes nothing but the reply. *)
LEMMA PeekKeeps ==
    ASSUME TierConstants, IInv, NEW k \in Keys, Peek(k) PROVE IInv'
<1>1. UNCHANGED <<node, lru, ram, nvme, ramKeys, nvmeKeys, entries, files, orphans, nextId, protect, wrote>>
  BY ZenonT(20), SMTT(20) DEF Peek, counters, disk
<1>2. reply' \in Keys \X Vals
  <2>1. CASE Resident(k) /\ reply' = <<k, node[k].val>>
    <3>1. node[k].val \in Vals
      BY <2>1, Zenon DEF IInv, EntryInv
    <3> QED
      BY <2>1, <3>1
  <2>2. CASE Spilled(k) /\ ReadsBack(k) /\ reply' = <<k, files[Name(k)][2]>>
    <3>1. files[Name(k)][2] \in Vals
      BY <2>2, ReadBackFacts, Zenon
    <3> QED
      BY <2>2, <3>1
  <2> QED
    BY <2>1, <2>2, Zenon DEF Peek
<1>3. Types' /\ Room' /\ OverByOne'
  BY <1>1, <1>2 DEF IInv, Types, Room, OverByOne
<1>4. EntryInv' /\ SpillUnique' /\ LruExact' /\ Accounting' /\ NoLeak'
  BY <1>1, Untouched, SMTT(20), ZenonT(20)
<1> QED
  BY <1>3, <1>4, SMTT(20), ZenonT(20) DEF IInv

(* The entry a promotion leaves in the index. *)
LEMMA PromotedEntry ==
    ASSUME TierConstants, IInv, NEW k \in Keys, GetPromote(k)
    PROVE  \E x \in Node : /\ node' = [node EXCEPT ![k] = x] /\ node'[k] = x /\ x # None
                           /\ x.resident /\ x.val = files[Name(k)][2] /\ x.val \in Vals
                           /\ x.len = Size[x.val] /\ x.len = node[k].len
<1>1. /\ node \in [Keys -> Node \cup {None}] /\ node[k] \in Node /\ None \notin Node
      /\ Spilled(k) /\ ReadsBack(k)
  BY DEF IInv, Types, GetPromote, Spilled, Present, TierConstants
<1> DEFINE v == files[Name(k)][2]
<1>2. v \in Vals /\ Size[v] = node[k].len
  BY <1>1, ReadBackFacts
<1>3. node' = [node EXCEPT ![k].val = v, ![k].resident = TRUE, ![k].id = 0]
  BY DEF GetPromote
<1> HIDE DEF v
<1> DEFINE x == [node[k] EXCEPT !.val = v, !.resident = TRUE, !.id = 0]
<1>4. x \in Node
  BY <1>1, <1>2, Zenon DEF Node
<1>5. x.resident /\ x.val = v /\ x.len = node[k].len
  BY <1>1 DEF Node
<1>6. node' = [node EXCEPT ![k] = x]
  BY <1>1, <1>3, ZenonT(40)
<1> HIDE DEF x
<1>7. node'[k] = x
  BY <1>1, <1>6
<1> QED
  BY <1>1, <1>2, <1>4, <1>5, <1>6, <1>7, Zenon DEF v

(* A promotion brings the entry back and removes its file. *)
LEMMA PromoteKeeps ==
    ASSUME TierConstants, IInv, NEW k \in Keys, GetPromote(k)
    PROVE  IInv' /\ OthersKept(k)
<1> USE DEF IInv
<1>1. PICK x \in Node : /\ node' = [node EXCEPT ![k] = x] /\ node'[k] = x /\ x # None
                        /\ x.resident /\ x.val \in Vals /\ x.len = Size[x.val] /\ x.len = node[k].len
                        /\ x.val = files[Name(k)][2]
  BY PromotedEntry, SMTT(20), ZenonT(20)
<1>2. /\ node \in [Keys -> Node \cup {None}] /\ nextId \in Nat /\ MaxId \in Nat
  BY DEF Types, TierConstants
<1>3. /\ Present(k) /\ ~Resident(k) /\ Spilled(k) /\ RamOf(k) = 0 /\ NvmeOf(k) = node[k].len /\ node[k].len \in Nat
  BY <1>2, SMTT(20), ZenonT(20) DEF GetPromote, Resident, Present, Spilled, RamOf, NvmeOf, Node
<1>4. Present(k)' /\ Resident(k)' /\ ~Spilled(k)' /\ RamOf(k)' = node[k].len /\ NvmeOf(k)' = 0
  BY <1>1, SMTT(20), ZenonT(20) DEF Resident, Present, Spilled, RamOf, NvmeOf
<1>5. CountersFollow(k)
  <2>1. /\ One(Resident(k)) = 0 /\ One(Spilled(k)) = 1 /\ One(Present(k)) = 1
        /\ One(Resident(k)') = 1 /\ One(Spilled(k)') = 0 /\ One(Present(k)') = 1
    BY <1>3, <1>4 DEF One
  <2>2. ram \in Nat /\ nvme \in Nat /\ ramKeys \in Nat /\ nvmeKeys \in Nat /\ entries \in Nat
    BY CountersAreNumbers
  <2>3. /\ ram' = ram + node[k].len /\ nvme' = nvme - node[k].len
        /\ ramKeys' = ramKeys + 1 /\ nvmeKeys' = nvmeKeys - 1 /\ entries' = entries
    BY SMTT(20), ZenonT(20) DEF GetPromote, NvmeAfterPromote
  <2>4. ram' = ram - RamOf(k) + RamOf(k)'
    <3>1. ram - 0 + node[k].len = ram + node[k].len
      BY <1>3, <2>2, Shares, ZenonT(20)
    <3> QED
      BY <1>3, <1>4, <2>3, <3>1, Zenon
  <2>5. nvme' = nvme - NvmeOf(k) + NvmeOf(k)'
    <3>1. nvme - node[k].len + 0 = nvme - node[k].len
      BY <1>3, <2>2, Shares, ZenonT(20)
    <3> QED
      BY <1>3, <1>4, <2>3, <3>1, Zenon
  <2>6. ramKeys' = ramKeys - One(Resident(k)) + One(Resident(k)')
    <3>1. ramKeys - 0 + 1 = ramKeys + 1
      BY <2>2, Shares, ZenonT(20)
    <3> QED
      BY <2>1, <2>3, <3>1, Zenon
  <2>7. nvmeKeys' = nvmeKeys - One(Spilled(k)) + One(Spilled(k)')
    <3>1. nvmeKeys - 1 + 0 = nvmeKeys - 1
      BY <2>2, Shares, ZenonT(20)
    <3> QED
      BY <2>1, <2>3, <3>1, Zenon
  <2>8. entries' = entries - One(Present(k)) + One(Present(k)')
    <3>1. entries - 1 + 1 = entries
      BY <2>2, Shares, ZenonT(20)
    <3> QED
      BY <2>1, <2>3, <3>1, Zenon
  <2> QED
    BY <2>4, <2>5, <2>6, <2>7, <2>8, Zenon DEF CountersFollow
<1>6. EntryStep(k, x)
  BY <1>1, <1>4, <1>5, Zenon DEF EntryStep, GetPromote
<1>7. /\ node' \in [Keys -> Node \cup {None}] /\ lru' \in Seq(Keys) /\ LruExact' /\ Accounting'
      /\ Len(lru') \in Nat /\ Len(lru') <= Cardinality(Keys) /\ Cardinality(Keys) \in Nat
  BY <1>6, EntryFollows
<1>8. RetireFile(k) /\ nextId' = nextId
  BY <1>3 DEF GetPromote, RetireFile
<1>9. /\ files' \in [Names -> Content] /\ orphans' \subseteq Names
      /\ EntryInv' /\ SpillUnique' /\ NoLeak' /\ OthersKept(k)
  BY <1>1, <1>8, Retired, ZenonT(40)
<1>10. reply' \in Keys \X Vals
  BY <1>1 DEF GetPromote
<1>11. Types'
  BY <1>7, <1>9, <1>10 DEF Types, GetPromote
<1>12. Room'
  BY <1>2, <1>7 DEF GetPromote, IdsLeft, Room
<1>13. OverByOne'
  BY DEF GetPromote, OverByOne, TierConstants
<1> QED
  BY <1>7, <1>9, <1>11, <1>12, <1>13

(* A spilled entry that cannot be read is dropped as a whole. *)
LEMMA ReadFailsKeeps ==
    ASSUME TierConstants, IInv, NEW k \in Keys, ReadFails(k)
    PROVE  IInv' /\ OthersKept(k) /\ ~Present(k)'
<1>1. Present(k) /\ ~Resident(k) /\ Drop(k) /\ UNCHANGED <<nextId, protect, reply, wrote>>
  BY DEF ReadFails, Spilled, Resident
<1>2. /\ Core' /\ OthersKept(k) /\ ~Present(k)'
      /\ Len(lru) \in Nat /\ Len(lru') \in Nat /\ Len(lru') = Len(lru) - One(Resident(k))
      /\ ram \in Nat /\ ram' \in Nat /\ ram' <= ram
  BY <1>1, DropKeeps
<1>3. Len(lru') = Len(lru)
  BY <1>1, <1>2 DEF One
<1>4. Budget \in Nat
  BY SMTT(20), ZenonT(20) DEF TierConstants
<1>5. Types' /\ Room'
  BY <1>1, <1>2, <1>3, SMTT(20), ZenonT(20) DEF IInv, Core, Types, Room
<1>6. ram' > Budget => ram > Budget
  BY <1>2, <1>4
<1>7. OverByOne'
  BY <1>1, <1>3, <1>6 DEF IInv, OverByOne
<1> QED
  BY <1>2, <1>5, <1>7 DEF Core, IInv

(* The same of the next state. *)
LEMMA EmptyFitsNext ==
    ASSUME TierConstants, LruExact', Accounting', lru' = <<>>
    PROVE  ram' = 0
<1>1. \A k \in Keys : RamOf(k)' = 0
  BY DEF LruExact, Range, RamOf
<1>2. [k \in Keys |-> RamOf(k)'] = [k \in Keys |-> 0]
  BY <1>1
<1>3. SumFunction([k \in Keys |-> 0]) = 0
  BY NothingResident DEF TierConstants
<1>4. ram' = SumFunction([k \in Keys |-> RamOf(k)'])
  BY DEF Accounting
<1> QED
  BY <1>2, <1>3, <1>4

(* A delete drops the entry wherever it is. *)
LEMMA DelKeeps ==
    ASSUME TierConstants, IInv, NEW k \in Keys, Del(k)
    PROVE  IInv' /\ OthersKept(k) /\ ~Present(k)'
<1>1. Present(k) /\ Drop(k) /\ UNCHANGED <<nextId, protect>> /\ protect = None /\ reply' = <<>>
  BY DEF Del
<1>2. /\ Core' /\ OthersKept(k) /\ ~Present(k)'
      /\ Len(lru) \in Nat /\ Len(lru') \in Nat /\ Len(lru') = Len(lru) - One(Resident(k))
      /\ ram \in Nat /\ ram' \in Nat /\ ram' <= ram
  BY <1>1, DropKeeps
<1>3. Budget \in Nat /\ lru' \in Seq(Keys)
  BY <1>2 DEF TierConstants, Core
<1>4. OverByOne'
  <2> SUFFICES ASSUME ram' > Budget PROVE Len(lru') = 1
    BY DEF OverByOne
  <2>1. Len(lru) = 1
    BY <1>1, <1>2, <1>3 DEF IInv, OverByOne
  <2>2. CASE Resident(k)
    <3>1. Len(lru') = 0
      BY <1>2, <2>1, <2>2 DEF One
    <3>2. lru' = <<>>
      BY <1>3, <3>1
    <3>3. ram' = 0
      BY <1>2, <3>2, EmptyFitsNext DEF Core
    <3> QED
      BY <1>3, <3>3
  <2>3. CASE ~Resident(k)
    BY <1>2, <2>1, <2>3, SMTT(20), ZenonT(20) DEF One
  <2> QED
    BY <2>2, <2>3
<1>5. wrote' \in [Keys -> Vals \cup {None}]
  BY SMTT(20), ZenonT(20) DEF Del, IInv, Types
<1>6. Types' /\ Room'
  BY <1>1, <1>2, <1>5 DEF IInv, Core, Types, Room
<1> QED
  BY <1>2, <1>4, <1>6 DEF Core, IInv

(* A restart begins with an empty shard, and purges the files it finds. *)
LEMMA RestartKeeps == ASSUME TierConstants, IInv, Restart PROVE IInv'
<1>1. PICK kept \in SUBSET Occupied :
          /\ files' = [n \in Names |-> IF n \in kept THEN files[n] ELSE None]
          /\ orphans' = kept
  BY DEF Restart, Purge
<1>2. /\ node' = [k \in Keys |-> None] /\ lru' = <<>>
      /\ ram' = 0 /\ nvme' = 0 /\ ramKeys' = 0 /\ nvmeKeys' = 0 /\ entries' = 0
      /\ nextId' = 1 /\ protect' = None /\ wrote' = [k \in Keys |-> None] /\ reply' = <<>>
  BY DEF Restart
<1>3. \A k \in Keys : ~Present(k)' /\ ~Resident(k)' /\ ~Spilled(k)' /\ RamOf(k)' = 0 /\ NvmeOf(k)' = 0
  BY <1>2 DEF Present, Resident, Spilled, RamOf, NvmeOf
<1>4. files' \in [Names -> Content] /\ orphans' \subseteq Names
  BY <1>1 DEF IInv, Types, Content, Occupied
<1>5. Types'
  BY <1>2, <1>4, SMTT(20), ZenonT(20) DEF Types, TierConstants
<1>6. EntryInv' /\ SpillUnique' /\ Room' /\ OverByOne'
  BY <1>2, <1>3 DEF EntryInv, SpillUnique, Room, OverByOne, TierConstants
<1>7. LruExact'
  BY <1>2, <1>3 DEF LruExact, IsInjective, Range
<1>8. NoLeak'
  BY <1>1, <1>3 DEF NoLeak, Occupied
<1>9. Accounting'
  <2>1. /\ [k \in Keys |-> RamOf(k)'] = [k \in Keys |-> 0] /\ [k \in Keys |-> NvmeOf(k)'] = [k \in Keys |-> 0]
        /\ {k \in Keys : Resident(k)'} = {} /\ {k \in Keys : Spilled(k)'} = {}
    BY <1>3
  <2>2. SumFunction([k \in Keys |-> 0]) = 0
    BY NothingResident DEF TierConstants
  <2>3. Cardinality({}) = 0
    BY FS_EmptySet
  <2>4. SumFunction([k \in Keys |-> RamOf(k)']) = 0 /\ SumFunction([k \in Keys |-> NvmeOf(k)']) = 0
    BY <2>1, <2>2
  <2>5. Cardinality({k \in Keys : Resident(k)'}) = 0 /\ Cardinality({k \in Keys : Spilled(k)'}) = 0
    BY <2>1, <2>3, SMTT(20), ZenonT(20)
  <2>6. entries' = ramKeys' + nvmeKeys'
    BY <1>2
  <2> QED
    BY <1>2, <2>4, <2>5, <2>6 DEF Accounting
<1> QED
  BY <1>5, <1>6, <1>7, <1>8, <1>9, SMTT(20), ZenonT(20) DEF IInv

(* A file that rots changes no bookkeeping. *)
LEMMA DamageKeeps ==
    ASSUME TierConstants, IInv, NEW n \in Names, Damage(n) PROVE IInv'
<1>1. UNCHANGED <<node, lru, ram, nvme, ramKeys, nvmeKeys, entries, orphans, nextId, protect, reply, wrote>>
  BY SMTT(20), ZenonT(20) DEF Damage, counters
<1>2. files' = [files EXCEPT ![n] = Bad] /\ files[n] # None /\ files \in [Names -> Content] /\ Bad # None
  BY DEF Damage, IInv, Types, TierConstants
<1>3. files' \in [Names -> Content] /\ Occupied' = Occupied
  BY <1>2, SMTT(20), ZenonT(20) DEF Content, Occupied
<1>4. Types' /\ Room' /\ OverByOne'
  BY <1>1, <1>3 DEF IInv, Types, Room, OverByOne
<1>5. EntryInv' /\ SpillUnique' /\ LruExact' /\ Accounting'
  BY <1>1, Untouched, SMTT(20), ZenonT(20)
<1>6. NoLeak'
  BY <1>1, <1>3, ZenonT(40) DEF IInv, NoLeak, Spilled, Present, Name
<1> QED
  BY <1>4, <1>5, <1>6 DEF IInv

(* Every step of the shard keeps the invariant. *)
LEMMA NextKeeps == ASSUME TierConstants, IInv, [ShardNext]_shardVars PROVE IInv'
<1>1. ASSUME NEW k \in Keys, NEW v \in Vals, Put(k, v) PROVE IInv'
  BY <1>1, PutKeeps
<1>2. ASSUME NEW k \in Keys, GetResident(k) PROVE IInv'
  BY <1>2, GetResidentKeeps
<1>3. ASSUME NEW k \in Keys, GetPromote(k) PROVE IInv'
  BY <1>3, PromoteKeeps
<1>4. ASSUME NEW k \in Keys, Peek(k) PROVE IInv'
  BY <1>4, PeekKeeps
<1>5. ASSUME NEW k \in Keys, ReadFails(k) PROVE IInv'
  BY <1>5, ReadFailsKeeps
<1>6. ASSUME NEW k \in Keys, Del(k) PROVE IInv'
  BY <1>6, DelKeeps
<1>7. CASE Evict
  BY <1>7, EvictKeeps
<1>8. CASE Unlock
  BY <1>8, UnlockKeeps
<1>9. CASE Restart
  BY <1>9, RestartKeeps
<1>10. ASSUME NEW n \in Names, Damage(n) PROVE IInv'
  BY <1>10, DamageKeeps
<1>11. CASE UNCHANGED shardVars
  <2>1. UNCHANGED <<node, lru, ram, nvme, ramKeys, nvmeKeys, entries, files, orphans, nextId, protect, reply, wrote>>
    BY <1>11, SMTT(20), ZenonT(20) DEF shardVars, counters, disk
  <2>2. Types' /\ Room' /\ OverByOne'
    BY <2>1 DEF IInv, Types, Room, OverByOne
  <2>3. EntryInv' /\ SpillUnique' /\ LruExact' /\ Accounting' /\ NoLeak'
    BY <2>1, Untouched
  <2> QED
    BY <2>2, <2>3, SMTT(20), ZenonT(20) DEF IInv
<1> QED
  BY <1>1, <1>2, <1>3, <1>4, <1>5, <1>6, <1>7, <1>8, <1>9, <1>10, <1>11, SMTT(20), ZenonT(20) DEF ShardNext

(* The invariant, for every set of keys, sizes and budget. *)
LEMMA Invariance == ASSUME TierConstants PROVE ShardSpec => []IInv
<1>1. ShardInit => IInv
  BY InitIInv
<1>2. IInv /\ [ShardNext]_shardVars => IInv'
  BY NextKeeps
<1> QED
  BY <1>1, <1>2, PTL DEF ShardSpec

(* The index, the LRU list, the counters and the spill directory agree in  *)
(* every state a shard reaches, in the middle of an eviction loop and      *)
(* after failed reads, failed unlinks and restarts too; between calls the  *)
(* budget is exceeded by at most one resident value.                       *)
THEOREM ShardIsExact == ASSUME TierConstants PROVE ShardSpec => []ShardExact
<1>1. IInv => ShardExact
  BY CountersAreNumbers DEF IInv, ShardExact, ShardTypeOK, Types
<1> QED
  BY <1>1, Invariance, PTL

-----------------------------------------------------------------------------
(* The shard implements a lossy cache *)

(* What a read finds, as one function of the keys. *)
Shown == [k \in Keys |-> Visible(k)]

(* A step that touches one entry changes what a read finds for that key    *)
(* only.                                                                   *)
LEMMA OneShown ==
    ASSUME NEW k \in Keys, OthersKept(k)
    PROVE  Shown' = [Shown EXCEPT ![k] = Visible(k)']
<1>1. \A j \in Keys \ {k} : Visible(j)' = Visible(j)
  <2> SUFFICES ASSUME NEW j \in Keys \ {k} PROVE Visible(j)' = Visible(j)
    BY SMTT(20), ZenonT(20)
  <2>1. node'[j] = node[j] /\ (Spilled(j) => files'[Name(j)] = files[Name(j)])
    BY SMTT(20), ZenonT(20) DEF OthersKept
  <2>2. /\ Resident(j)' <=> Resident(j)
        /\ Spilled(j)' <=> Spilled(j)
        /\ Name(j)' = Name(j)
    BY <2>1, SMTT(20), ZenonT(20) DEF Resident, Spilled, Present, Name
  <2>3. Spilled(j) => (ReadsBack(j)' <=> ReadsBack(j))
    BY <2>1, <2>2, SMTT(20), ZenonT(20) DEF ReadsBack
  <2> QED
    BY <2>1, <2>2, <2>3, Zenon DEF Visible
<1> QED
  BY <1>1, ZenonT(40) DEF Shown

(* The steps of the cache, in terms of what a read finds. *)
LEMMA CacheSteps ==
    ASSUME NEW k \in Keys
    PROVE  /\ \A v \in Vals : Shown' = [Shown EXCEPT ![k] = v] /\ wrote' = [wrote EXCEPT ![k] = v]
                              /\ reply' = <<>> => Cache!Next
           /\ Shown' = [Shown EXCEPT ![k] = None] /\ wrote' = [wrote EXCEPT ![k] = None]
              /\ reply' = <<>> => Cache!Next
           /\ Shown' = [Shown EXCEPT ![k] = None] /\ wrote' = wrote /\ reply' = reply => Cache!Next
           /\ Shown[k] # None /\ reply' = <<k, Shown[k]>> /\ Shown' = Shown /\ wrote' = wrote
              => Cache!Next
<1>1. \A v \in Vals : Shown' = [Shown EXCEPT ![k] = v] /\ wrote' = [wrote EXCEPT ![k] = v]
                      /\ reply' = <<>> => Cache!Next
  BY Zenon DEF Cache!Next, Cache!Put, Shown
<1>2. Shown' = [Shown EXCEPT ![k] = None] /\ wrote' = [wrote EXCEPT ![k] = None]
      /\ reply' = <<>> => Cache!Next
  BY Zenon DEF Cache!Next, Cache!Delete, Shown
<1>3. Shown' = [Shown EXCEPT ![k] = None] /\ wrote' = wrote /\ reply' = reply => Cache!Next
  BY Zenon DEF Cache!Next, Cache!Lose, Shown
<1>4. Shown[k] # None /\ reply' = <<k, Shown[k]>> /\ Shown' = Shown /\ wrote' = wrote => Cache!Next
  BY DEF Cache!Next, Cache!Read, Shown
<1> QED
  BY <1>1, <1>2, <1>3, <1>4, SMTT(20), ZenonT(20)

(* A step that leaves what a read finds alone is a stutter of the cache. *)
LEMMA CacheStutters ==
    ASSUME Shown' = Shown, wrote' = wrote, reply' = reply
    PROVE  UNCHANGED Cache!vars
BY DEF Cache!vars, Shown

(* Nothing a call leaves alone changes what a read finds. *)
LEMMA SameShown == ASSUME UNCHANGED <<node, files>> PROVE Shown' = Shown
BY DEF Shown, Visible, Resident, Spilled, Present, ReadsBack, Name

(* A put writes the key in the cache. *)
LEMMA PutRefines ==
    ASSUME TierConstants, IInv, NEW k \in Keys, NEW v \in Vals, Put(k, v)
    PROVE  Cache!Next
<1>1. OthersKept(k)
  BY PutKeeps
<1>2. Visible(k)' = v
  <2>1. node'[k] = [val |-> v, len |-> Size[v], resident |-> TRUE, id |-> 0]
    BY DEF Put, IInv, Types
  <2>2. Size[v] \in Nat /\ None \notin Node
    BY SMTT(20), ZenonT(20) DEF TierConstants
  <2>3. node'[k] \in Node
    BY <2>1, <2>2 DEF Node
  <2>4. node'[k] # None
    BY <2>2, <2>3, SMTT(20), ZenonT(20)
  <2>5. node'[k].resident /\ node'[k].val = v
    BY <2>1
  <2> QED
    BY <2>4, <2>5 DEF Visible, Resident, Present
<1>3. Shown' = [Shown EXCEPT ![k] = v]
  BY <1>1, <1>2, OneShown
<1> QED
  BY <1>3, CacheSteps, ZenonT(40) DEF Put

(* shard_drop_node: a read finds nothing any more. *)
LEMMA GoneShown ==
    ASSUME NEW k \in Keys, OthersKept(k), ~Present(k)'
    PROVE  Shown' = [Shown EXCEPT ![k] = None]
<1>1. Visible(k)' = None
  BY DEF Visible, Resident, Spilled
<1> QED
  BY <1>1, OneShown, SMTT(20), ZenonT(20)

(* An eviction loses the key in the cache, or changes nothing a reader     *)
(* sees.                                                                   *)
LEMMA EvictRefines ==
    ASSUME TierConstants, IInv, Evict
    PROVE  Cache!Next \/ UNCHANGED Cache!vars
<1>1. protect # None /\ nextId' = nextId + 1 /\ UNCHANGED <<protect, reply, wrote>>
  BY DEF Evict
<1>2. PICK k \in Victims : EvictSpill(k) \/ EvictDrop(k)
  BY DEF Evict
<1>3. k \in Keys /\ Resident(k) /\ nextId \in Ids
  BY <1>1, <1>2, VictimFacts
<1>4. CASE EvictSpill(k)
  <2>1. /\ OthersKept(k) /\ Spilled(k)' /\ Name(k)' = <<Hash[k], nextId>> /\ node'[k].len = node[k].len
        /\ files'[<<Hash[k], nextId>>] = <<k, node[k].val>> /\ node[k].val \in Vals
        /\ Size[node[k].val] = node[k].len
    BY <1>1, <1>3, <1>4, SpillKeeps, ZenonT(40)
  <2>2. files'[Name(k)'] = <<k, node[k].val>> /\ <<k, node[k].val>> \notin {None, Bad}
    BY <1>3, <2>1, SMTT(20), ZenonT(20) DEF TierConstants
  <2>3. ReadsBack(k)'
    <3>1. <<k, node[k].val>>[1] = k /\ <<k, node[k].val>>[2] = node[k].val
      OBVIOUS
    <3> QED
      BY <2>1, <2>2, <3>1, ZenonT(20), SMTT(20) DEF ReadsBack
  <2>4. ~Resident(k)'
    BY <2>1, ZenonT(20), SMTT(20) DEF Resident, Spilled
  <2>5. Visible(k)' = node[k].val
    <3>1. files'[Name(k)'][2] = node[k].val
      BY <2>2
    <3> QED
      BY <2>1, <2>3, <2>4, <3>1, ZenonT(20), SMTT(20) DEF Visible
  <2>6. Visible(k) = node[k].val
    BY <1>3, SMTT(20), ZenonT(20) DEF Visible
  <2>7. Shown' = Shown
    BY <1>3, <2>1, <2>5, <2>6, OneShown, Zenon DEF Shown
  <2> QED
    BY <1>1, <2>7, CacheStutters, SMTT(20), ZenonT(20)
<1>5. CASE EvictDrop(k)
  <2>1. Present(k) /\ Drop(k)
    BY <1>3, <1>5 DEF Resident, EvictDrop
  <2>2. OthersKept(k) /\ ~Present(k)'
    BY <1>1, <1>3, <2>1, DropKeeps, SMTT(20), ZenonT(20)
  <2>3. Shown' = [Shown EXCEPT ![k] = None]
    BY <1>3, <2>2, GoneShown, SMTT(20), ZenonT(20)
  <2> QED
    BY <1>1, <1>3, <2>3, CacheSteps, Zenon
<1> QED
  BY <1>2, <1>4, <1>5, SMTT(20), ZenonT(20)

(* A hit in memory, or a peek, is a read of the cache. *)
LEMMA ReadRefines ==
    ASSUME TierConstants, IInv, NEW k \in Keys, GetResident(k) \/ Peek(k)
    PROVE  Cache!Next
<1>1. UNCHANGED <<node, files, wrote>>
  BY DEF GetResident, Peek, disk
<1>2. Shown' = Shown
  BY <1>1, SameShown, SMTT(20), ZenonT(20)
<1>3. \/ Resident(k) /\ reply' = <<k, node[k].val>>
      \/ Spilled(k) /\ ReadsBack(k) /\ reply' = <<k, files[Name(k)][2]>>
  BY ZenonT(40) DEF GetResident, Peek
<1>4. CASE Resident(k) /\ reply' = <<k, node[k].val>>
  <2>1. node[k].val \in Vals /\ None \notin Vals
    BY <1>4, SMTT(20), ZenonT(20) DEF IInv, EntryInv, TierConstants
  <2>2. Shown[k] = node[k].val
    BY <1>4, SMTT(20), ZenonT(20) DEF Shown, Visible
  <2> QED
    BY <1>1, <1>2, <1>4, <2>1, <2>2, CacheSteps, SMTT(20), ZenonT(20)
<1>5. CASE Spilled(k) /\ ReadsBack(k) /\ reply' = <<k, files[Name(k)][2]>>
  <2>1. files[Name(k)][2] \in Vals /\ None \notin Vals
    BY <1>5, ReadBackFacts, SMTT(20), ZenonT(20) DEF TierConstants
  <2>2. Shown[k] = files[Name(k)][2]
    BY <1>5, SMTT(20), ZenonT(20) DEF Shown, Visible, Spilled, Resident
  <2> QED
    BY <1>1, <1>2, <1>5, <2>1, <2>2, CacheSteps, SMTT(20), ZenonT(20)
<1> QED
  BY <1>3, <1>4, <1>5, SMTT(20), ZenonT(20)

(* A promotion is a read of the cache. *)
LEMMA PromoteRefines ==
    ASSUME TierConstants, IInv, NEW k \in Keys, GetPromote(k)
    PROVE  Cache!Next
<1>1. PICK x \in Node : /\ node'[k] = x /\ x # None /\ x.resident
                        /\ x.val = files[Name(k)][2] /\ x.val \in Vals
  BY PromotedEntry, SMTT(20), ZenonT(20)
<1>2. OthersKept(k) /\ wrote' = wrote /\ reply' = <<k, files[Name(k)][2]>>
  BY PromoteKeeps, ZenonT(40) DEF GetPromote
<1>3. Visible(k)' = files[Name(k)][2]
  BY <1>1 DEF Visible, Resident, Present
<1>4. Visible(k) = files[Name(k)][2] /\ Shown[k] = Visible(k)
  BY SMTT(20), ZenonT(20) DEF GetPromote, Visible, Spilled, Resident, Shown
<1>5. Shown' = Shown
  BY <1>2, <1>3, <1>4, OneShown, ZenonT(40) DEF Shown
<1>6. Shown[k] # None
  BY <1>1, <1>4 DEF TierConstants
<1> QED
  BY <1>2, <1>4, <1>5, <1>6, CacheSteps, SMTT(20), ZenonT(20)

(* A damaged file loses the entry it belongs to, if it belongs to one. *)
LEMMA DamageRefines ==
    ASSUME TierConstants, IInv, NEW n \in Names, Damage(n)
    PROVE  Cache!Next \/ UNCHANGED Cache!vars
<1>1. UNCHANGED <<node, reply, wrote>>
  BY DEF Damage
<1>2. files' = [files EXCEPT ![n] = Bad] /\ files \in [Names -> Content]
  BY DEF Damage, IInv, Types
<1>3. /\ node' = node
      /\ \A j \in Keys : /\ Resident(j)' <=> Resident(j)
                         /\ Spilled(j)' <=> Spilled(j)
                         /\ Name(j)' = Name(j)
  BY <1>1, SMTT(20), ZenonT(20) DEF Resident, Spilled, Present, Name
<1>4. CASE \E k \in Keys : Spilled(k) /\ Name(k) = n
  <2>1. PICK k \in Keys : Spilled(k) /\ Name(k) = n
    BY <1>4
  <2>2. \A j \in Keys \ {k} : Spilled(j) => Name(j) \in Names /\ Name(j) # n
    BY <2>1, NamesDiffer DEF IInv
  <2>3. OthersKept(k)
    BY <1>2, <1>3, <2>2 DEF OthersKept
  <2>4. files'[Name(k)'] = Bad /\ ~Resident(k)'
    BY <1>2, <1>3, <2>1 DEF Resident, Spilled
  <2>5. Visible(k)' = None
    BY <2>4, SMTT(20), ZenonT(20) DEF Visible, ReadsBack
  <2>6. Shown' = [Shown EXCEPT ![k] = None]
    BY <2>3, <2>5, OneShown, SMTT(20), ZenonT(20)
  <2> QED
    BY <1>1, <2>6, CacheSteps, ZenonT(40)
<1>5. CASE \A k \in Keys : Spilled(k) => Name(k) # n
  <2>1. \A j \in Keys : Visible(j)' = Visible(j)
    <3> SUFFICES ASSUME NEW j \in Keys PROVE Visible(j)' = Visible(j)
      OBVIOUS
    <3>1. Spilled(j) => files'[Name(j)] = files[Name(j)]
      BY <1>2, <1>5, NamesDiffer, SMTT(20), ZenonT(20) DEF IInv
    <3>2. Spilled(j) => (ReadsBack(j)' <=> ReadsBack(j))
      BY <1>3, <3>1 DEF ReadsBack
    <3> QED
      BY <1>3, <3>1, <3>2, ZenonT(40) DEF Visible
  <2>2. Shown' = Shown
    BY <2>1, SMTT(20), ZenonT(20) DEF Shown
  <2> QED
    BY <1>1, <2>2, CacheStutters, SMTT(20), ZenonT(20)
<1> QED
  BY <1>4, <1>5

(* Every step of the shard is a step of the cache or leaves it alone. *)
LEMMA NextRefines ==
    ASSUME TierConstants, IInv, [ShardNext]_shardVars
    PROVE  Cache!Next \/ UNCHANGED Cache!vars
<1>1. ASSUME NEW k \in Keys, NEW v \in Vals, Put(k, v) PROVE Cache!Next
  BY <1>1, PutRefines
<1>2. ASSUME NEW k \in Keys, GetResident(k) \/ Peek(k) PROVE Cache!Next
  BY <1>2, ReadRefines
<1>3. ASSUME NEW k \in Keys, GetPromote(k) PROVE Cache!Next
  BY <1>3, PromoteRefines, SMTT(20), ZenonT(20)
<1>4. ASSUME NEW k \in Keys, ReadFails(k) PROVE Cache!Next
  <2>1. OthersKept(k) /\ ~Present(k)' /\ UNCHANGED <<reply, wrote>>
    BY <1>4, ReadFailsKeeps, SMTT(20), ZenonT(20) DEF ReadFails
  <2> QED
    BY <2>1, GoneShown, CacheSteps, SMTT(20), ZenonT(20)
<1>5. ASSUME NEW k \in Keys, Del(k) PROVE Cache!Next
  <2>1. /\ OthersKept(k) /\ ~Present(k)'
        /\ wrote' = [wrote EXCEPT ![k] = None] /\ reply' = <<>>
    BY <1>5, DelKeeps, ZenonT(40) DEF Del
  <2> QED
    BY <2>1, GoneShown, CacheSteps, Zenon
<1>6. CASE Evict
  BY <1>6, EvictRefines
<1>7. CASE Unlock \/ UNCHANGED shardVars
  <2>1. UNCHANGED <<node, files, reply, wrote>>
    BY <1>7, SMTT(20), ZenonT(20) DEF Unlock, shardVars, disk
  <2> QED
    BY <2>1, SameShown, CacheStutters
<1>8. CASE Restart
  <2>1. \A k \in Keys : Visible(k)' = None
    BY <1>8 DEF Restart, Visible, Resident, Spilled, Present
  <2>2. Shown' = [k \in Keys |-> None]
    BY <2>1 DEF Shown
  <2> QED
    BY <1>8, <2>2, SMTT(20), ZenonT(20) DEF Restart, Cache!Next, Cache!Reset, Cache!Nothing, Shown
<1>9. ASSUME NEW n \in Names, Damage(n) PROVE Cache!Next \/ UNCHANGED Cache!vars
  BY <1>9, DamageRefines
<1> QED
  BY <1>1, <1>2, <1>3, <1>4, <1>5, <1>6, <1>7, <1>8, <1>9, SMTT(20), ZenonT(20) DEF ShardNext

(* A read answers with the value last put or with nothing: evictions,      *)
(* promotions, colliding file names, damaged files and restarts lose       *)
(* entries and never alter them or bring them back.                        *)
THEOREM ShardImplementsCache == ASSUME TierConstants PROVE ShardSpec => ImplementsLossyCache
<1>1. ShardInit => Cache!Init
  BY DEF ShardInit, Cache!Init, Cache!Nothing, Visible, Resident, Spilled, Present
<1>2. IInv /\ [ShardNext]_shardVars => [Cache!Next]_(Cache!vars)
  BY NextRefines
<1> QED
  BY <1>1, <1>2, Invariance, PTL DEF ShardSpec, ImplementsLossyCache, Cache!Spec
=============================================================================
