---------------------------- MODULE ServerProofs ----------------------------
(***************************************************************************)
(* The v1 process keeps what it acknowledged and shows only what is in its *)
(* log, for any workers, connections, keys, values and batch size; and     *)
(* when the clients of a key share a worker, memory settles to what a      *)
(* restart would rebuild.                                                  *)
(***************************************************************************)
EXTENDS Server, WellFoundedInduction, TLAPS

-----------------------------------------------------------------------------
(* What replay_record computes: the last record of a key wins *)

(* A nonempty set of numbers has a least one. *)
LEMMA LeastNumber ==
    ASSUME NEW T \in SUBSET Nat, T # {}
    PROVE  \E x \in T : \A y \in T : x <= y
<1> DEFINE less == {ss \in Nat \X Nat : ss[1] < ss[2]}
<1>1. IsWellFoundedOn(less, Nat)
  BY NatLessThanWellFounded DEF OpToRel
<1>2. \A x, y \in Nat : x < y => <<x, y>> \in less
  OBVIOUS
<1> HIDE DEF less
<1>3. PICK x \in T : \A y \in T : ~(<<y, x>> \in less)
  BY <1>1, WFMin, Zenon
<1>4. ASSUME NEW y \in T PROVE x <= y
  <2>1. x \in Nat /\ y \in Nat /\ ~(y < x)
    BY <1>2, <1>3, Zenon
  <2> QED
    BY <2>1
<1> QED
  BY <1>4

(* Record l is the last of the first n records of f with key k. *)
IsLast(f, n, k, l) == l \in 1..n /\ f[l].key = k /\ \A j \in (l + 1)..n : f[j].key # k

(* What a table holds for k after the first n records of f. *)
Latest(f, n, k) ==
    IF \E l : IsLast(f, n, k, l) THEN f[CHOOSE l : IsLast(f, n, k, l)].val ELSE Absent

(* A key with a record among the first n has a last one. *)
LEMMA LastExists ==
    ASSUME NEW f, NEW k, NEW n \in Nat, NEW i \in 1..n, f[i].key = k
    PROVE  \E l : IsLast(f, n, k, l)
<1> DEFINE back == {n - j : j \in {j \in 1..n : f[j].key = k}}
<1>1. back \in SUBSET Nat /\ back # {}
  OBVIOUS
<1>2. PICK x \in back : \A y \in back : x <= y
  BY <1>1, LeastNumber, Zenon
<1>3. PICK l \in 1..n : f[l].key = k /\ x = n - l
  BY <1>2
<1>4. ASSUME NEW j \in (l + 1)..n, f[j].key = k PROVE FALSE
  <2>1. j \in 1..n /\ n - j < n - l /\ n - j \in Nat /\ n - l \in Nat
    BY <1>4
  <2>2. n - j \in back
    BY <1>4, <2>1, Zenon
  <2>3. x <= n - j
    BY <1>2, <2>2, Zenon
  <2> QED
    BY <1>3, <2>1, <2>3
<1> QED
  BY <1>3, <1>4 DEF IsLast

(* It is the only one. *)
LEMMA LastUnique ==
    ASSUME NEW f, NEW k, NEW n \in Nat, NEW l, NEW m, IsLast(f, n, k, l), IsLast(f, n, k, m)
    PROVE  l = m
BY DEF IsLast

(* So the table holds its value. *)
LEMMA LatestIs ==
    ASSUME NEW f, NEW k, NEW n \in Nat, NEW l, IsLast(f, n, k, l)
    PROVE  Latest(f, n, k) = f[l].val
<1>1. IsLast(f, n, k, CHOOSE m : IsLast(f, n, k, m))
  BY Zenon
<1>2. (CHOOSE m : IsLast(f, n, k, m)) = l
  BY <1>1, LastUnique, Zenon
<1> QED
  BY <1>2, Zenon DEF Latest

(* Without a record of k, the table does not have it. *)
LEMMA LatestAbsent ==
    ASSUME NEW f, NEW k, NEW n \in Nat, \A i \in 1..n : f[i].key # k
    PROVE  Latest(f, n, k) = Absent
BY DEF Latest, IsLast

(* One more record sets its own key and leaves the others. *)
LEMMA LatestStep ==
    ASSUME NEW f, NEW k, NEW n \in Nat, n # 0
    PROVE  Latest(f, n, k) = IF f[n].key = k THEN f[n].val ELSE Latest(f, n - 1, k)
<1>1. CASE f[n].key = k
  <2>1. IsLast(f, n, k, n)
    BY <1>1 DEF IsLast
  <2> QED
    BY <1>1, <2>1, LatestIs
<1>2. CASE f[n].key # k /\ \E i \in 1..(n - 1) : f[i].key = k
  <2>1. n - 1 \in Nat
    OBVIOUS
  <2>2. PICK l : IsLast(f, n - 1, k, l)
    BY <1>2, <2>1, LastExists, Zenon
  <2>3. IsLast(f, n, k, l)
    BY <1>2, <2>2 DEF IsLast
  <2>4. Latest(f, n, k) = f[l].val
    BY <2>3, LatestIs, Zenon
  <2>5. Latest(f, n - 1, k) = f[l].val
    BY <2>1, <2>2, LatestIs, ZenonT(40)
  <2> QED
    BY <1>2, <2>4, <2>5, Zenon
<1>3. CASE f[n].key # k /\ \A i \in 1..(n - 1) : f[i].key # k
  <2>1. n - 1 \in Nat /\ \A i \in 1..n : f[i].key # k
    BY <1>3
  <2> QED
    BY <1>3, <2>1, LatestAbsent
<1> QED
  BY <1>1, <1>2, <1>3

(* The tables replay_record goes through. *)
Goes(f, g) == g = [n \in 0..Len(f) |-> IF n = 0 THEN Empty ELSE Apply(g[n - 1], f[n])]

(* Replaying a log gives every key its last record's value. *)
LEMMA ReplayIsLatest ==
    ASSUME NEW f \in Seq(Mutation)
    PROVE  Replay(f) = [k \in Keys |-> Latest(f, Len(f), k)]
<1> DEFINE w == [n \in 0..Len(f) |-> [k \in Keys |-> Latest(f, n, k)]]
<1>1. Len(f) \in Nat /\ \A n \in 1..Len(f) : f[n] \in Mutation
  OBVIOUS
<1>2. ASSUME NEW n \in 1..Len(f)
      PROVE  [k \in Keys |-> Latest(f, n, k)] = Apply([k \in Keys |-> Latest(f, n - 1, k)], f[n])
  <2>1. \A k \in Keys : Latest(f, n, k) = IF f[n].key = k THEN f[n].val ELSE Latest(f, n - 1, k)
    <3>1. n \in Nat /\ n # 0
      BY <1>1
    <3> QED
      BY <3>1, LatestStep
  <2>2. f[n].key \in Keys
    BY <1>1 DEF Mutation
  <2> QED
    BY <2>1, <2>2, Zenon DEF Apply
<1>3. \A k \in Keys : Latest(f, 0, k) = Absent
  BY LatestAbsent
<1>4. Goes(f, w)
  <2>1. ASSUME NEW n \in 0..Len(f) PROVE w[n] = IF n = 0 THEN Empty ELSE Apply(w[n - 1], f[n])
    <3>1. CASE n = 0
      BY <1>1, <1>3, <3>1 DEF Empty
    <3>2. CASE n # 0
      <4>1. n \in 1..Len(f) /\ n - 1 \in 0..Len(f)
        BY <1>1, <3>2
      <4> QED
        BY <1>2, <3>2, <4>1
    <3> QED
      BY <3>1, <3>2
  <2> QED
    BY <2>1, Zenon DEF Goes
<1> DEFINE after == CHOOSE g : Goes(f, g)
<1>5. Goes(f, after)
  BY <1>4
<1>6. Replay(f) = after[Len(f)]
  BY Zenon DEF Replay, Goes
<1> DEFINE Wrong == {n \in 0..Len(f) : after[n] # w[n]}
<1>7. Wrong = {}
  <2> SUFFICES ASSUME Wrong # {} PROVE FALSE
    BY Zenon
  <2>1. Wrong \in SUBSET Nat
    BY <1>1
  <2>2. PICK n \in Wrong : \A m \in Wrong : n <= m
    BY <2>1, LeastNumber, Zenon
  <2>3. n \in 0..Len(f) /\ after[n] # w[n]
    BY <2>2
  <2>4. /\ after[n] = IF n = 0 THEN Empty ELSE Apply(after[n - 1], f[n])
        /\ w[n] = IF n = 0 THEN Empty ELSE Apply(w[n - 1], f[n])
    <3> HIDE DEF w, after
    <3> QED
      BY <1>4, <1>5, <2>3, Zenon DEF Goes
  <2>5. n # 0 /\ after[n - 1] # w[n - 1]
    BY <2>3, <2>4, Zenon
  <2>6. n - 1 \in 0..Len(f) /\ ~(n <= n - 1)
    BY <1>1, <2>3, <2>5
  <2> QED
    BY <2>2, <2>5, <2>6, Zenon
<1>8. Len(f) \in 0..Len(f)
  BY <1>1
<1> HIDE DEF after
<1> QED
  BY <1>6, <1>7, <1>8, Zenon

(* A table results. *)
LEMMA ReplayType ==
    ASSUME NEW f \in Seq(Mutation)
    PROVE  Replay(f) \in [Keys -> Vals \cup {Absent}]
<1>1. Len(f) \in Nat /\ \A n \in 1..Len(f) : f[n].val \in Vals \cup {Absent}
  <2>1. Len(f) \in Nat /\ \A n \in 1..Len(f) : f[n] \in Mutation
    OBVIOUS
  <2>2. \A r \in Mutation : r.val \in Vals \cup {Absent}
    BY DEF Mutation
  <2> QED
    BY <2>1, <2>2, Zenon
<1>2. ASSUME NEW k \in Keys PROVE Latest(f, Len(f), k) \in Vals \cup {Absent}
  <2>1. CASE \E i \in 1..Len(f) : f[i].key = k
    <3> PICK i \in 1..Len(f) : f[i].key = k
      BY <2>1
    <3> PICK n \in Nat : n = Len(f)
      BY <1>1
    <3>1. PICK l : IsLast(f, n, k, l)
      BY LastExists, Zenon
    <3>2. l \in 1..n
      BY <3>1 DEF IsLast
    <3>3. Latest(f, n, k) = f[l].val
      BY <3>1, LatestIs, ZenonT(40)
    <3> QED
      BY <1>1, <3>2, <3>3, Zenon
  <2>2. CASE \A i \in 1..Len(f) : f[i].key # k
    BY <1>1, <2>2, LatestAbsent
  <2> QED
    BY <2>1, <2>2
<1> QED
  BY <1>2, ReplayIsLatest, Zenon

(* The last record of a key decides. *)
LEMMA ReplayLast ==
    ASSUME NEW f \in Seq(Mutation), NEW k \in Keys, NEW l, IsLast(f, Len(f), k, l)
    PROVE  Replay(f)[k] = f[l].val
<1>1. Len(f) \in Nat
  OBVIOUS
<1>2. Latest(f, Len(f), k) = f[l].val
  BY <1>1, LatestIs, Zenon
<1> QED
  BY <1>2, ReplayIsLatest, Zenon

(* A key without a record stays absent. *)
LEMMA ReplayNone ==
    ASSUME NEW f \in Seq(Mutation), NEW k \in Keys, \A i \in 1..Len(f) : f[i].key # k
    PROVE  Replay(f)[k] = Absent
<1>1. Len(f) \in Nat
  OBVIOUS
<1>2. Latest(f, Len(f), k) = Absent
  BY <1>1, LatestAbsent, Zenon
<1> QED
  BY <1>2, ReplayIsLatest, Zenon

(* Records of other keys appended to a log leave a key as it was. *)
LEMMA ReplayKeeps ==
    ASSUME NEW f \in Seq(Mutation), NEW h \in Seq(Mutation), Len(f) <= Len(h),
           \A i \in 1..Len(f) : h[i] = f[i],
           NEW k \in Keys, \A i \in (Len(f) + 1)..Len(h) : h[i].key # k
    PROVE  Replay(h)[k] = Replay(f)[k]
<1>1. Len(f) \in Nat /\ Len(h) \in Nat
  OBVIOUS
<1>2. CASE \E i \in 1..Len(f) : f[i].key = k
  <2>1. PICK l : IsLast(f, Len(f), k, l)
    <3> PICK i \in 1..Len(f) : f[i].key = k
      BY <1>2
    <3> QED
      BY <1>1, LastExists, Zenon
  <2>2. l \in 1..Len(f) /\ f[l].key = k /\ \A j \in (l + 1)..Len(f) : f[j].key # k
    BY <2>1, Zenon DEF IsLast
  <2>3. ASSUME NEW j \in (l + 1)..Len(h) PROVE h[j].key # k
    <3>1. CASE j \in (Len(f) + 1)..Len(h)
      BY <3>1, Zenon
    <3>2. CASE j \in (l + 1)..Len(f)
      <4>1. j \in 1..Len(f)
        BY <1>1, <2>2, <3>2
      <4> QED
        BY <2>2, <3>2, <4>1, Zenon
    <3> QED
      BY <1>1, <2>2, <3>1, <3>2
  <2>4. l \in 1..Len(h) /\ h[l] = f[l]
    BY <1>1, <2>2
  <2>5. IsLast(h, Len(h), k, l)
    BY <2>2, <2>3, <2>4, Zenon DEF IsLast
  <2>6. Replay(f)[k] = f[l].val /\ Replay(h)[k] = h[l].val
    BY <2>1, <2>5, ReplayLast, Zenon
  <2> QED
    BY <2>4, <2>6
<1>3. CASE \A i \in 1..Len(f) : f[i].key # k
  <2>1. ASSUME NEW i \in 1..Len(h) PROVE h[i].key # k
    <3>1. i \in 1..Len(f) \/ i \in (Len(f) + 1)..Len(h)
      BY <1>1
    <3> QED
      BY <1>3, <3>1
  <2>2. Replay(f)[k] = Absent /\ Replay(h)[k] = Absent
    BY <1>3, <2>1, ReplayNone, Zenon
  <2> QED
    BY <2>2
<1> QED
  BY <1>2, <1>3

(* A record decides the log that ends with it. *)
LEMMA ReplayUpTo ==
    ASSUME NEW f \in Seq(Mutation), NEW n \in 1..Len(f)
    PROVE  Replay(SubSeq(f, 1, n))[f[n].key] = f[n].val
<1> DEFINE h == SubSeq(f, 1, n)
<1>1. h \in Seq(Mutation) /\ Len(h) = n /\ h[n] = f[n] /\ n \in Nat /\ n # 0 /\ f[n] \in Mutation
  OBVIOUS
<1>3. f[n].key \in Keys
  BY <1>1 DEF Mutation
<1> HIDE DEF h
<1>2. IsLast(h, Len(h), f[n].key, n)
  BY <1>1, <1>3 DEF IsLast
<1>4. Replay(h)[f[n].key] = h[n].val
  BY <1>1, <1>2, <1>3, ReplayLast
<1> QED
  BY <1>1, <1>4 DEF h

(* Appending leaves the older versions of the log. *)
LEMMA PrefixKept ==
    ASSUME NEW f \in Seq(Mutation), NEW h \in Seq(Mutation), Len(f) <= Len(h),
           \A i \in 1..Len(f) : h[i] = f[i], NEW n \in 0..Len(f)
    PROVE  SubSeq(h, 1, n) = SubSeq(f, 1, n) /\ n \in 0..Len(h)
OBVIOUS

(* The newest version of the log is the log. *)
LEMMA WholeFile ==
    ASSUME NEW f \in Seq(Mutation)
    PROVE  SubSeq(f, 1, Len(f)) = f /\ Len(f) \in 0..Len(f)
OBVIOUS

-----------------------------------------------------------------------------
(* The inductive invariant *)

InBatch(c) == \E i \in DOMAIN completing : completing[i] = c
InInbox(c) == \E w \in Workers : \E i \in DOMAIN inbox[w] : inbox[w][i].conn = c

(* A connection waits in at most one place of the log's pipeline, once,    *)
(* and has a mutation pending while it does; its completion goes to its    *)
(* own worker.                                                             *)
QueuePlaced ==
    /\ \A i \in DOMAIN submissions :
          pending[submissions[i]] # Idle /\ ~InBatch(submissions[i]) /\ ~InInbox(submissions[i])
    /\ \A i, j \in DOMAIN submissions : submissions[i] = submissions[j] => i = j
BatchPlaced ==
    /\ \A i \in DOMAIN completing : pending[completing[i]] # Idle /\ ~InInbox(completing[i])
    /\ \A i, j \in DOMAIN completing : completing[i] = completing[j] => i = j
InboxPlaced ==
    \A w \in Workers :
        /\ \A i \in DOMAIN inbox[w] :
              pending[inbox[w][i].conn] # Idle /\ WorkerOf[inbox[w][i].conn] = w
        /\ \A i, j \in DOMAIN inbox[w] : inbox[w][i].conn = inbox[w][j].conn => i = j

(* A connection mutates only keys it writes. *)
Owned == \A c \in Conns : pending[c] # Idle => c \in Writers[pending[c].key]

(* No record is in the log that was not submitted. *)
Counted == Len(records) <= ops /\ (up => Len(records) + Len(submissions) <= ops)

(* The log reported c's mutation durable, and it is not yet applied. *)
Reported(c) ==
    \/ ~error /\ InBatch(c)
    \/ \E w \in Workers : \E i \in DOMAIN inbox[w] : inbox[w][i].conn = c /\ ~inbox[w][i].error

(* What was reported durable is in the file. *)
Logged == \A c \in Conns : Reported(c) => \E n \in DOMAIN records : records[n] = pending[c]

(* VisibleIsDurable, of a stopped process as well. *)
Visible == \A k \in Keys : \E n \in 0..Len(records) : table[k] = Replay(SubSeq(records, 1, n))[k]

(* A key with one writer: memory and log hold a value its client must      *)
(* expect, the pending one is such a value, and once it is reported        *)
(* durable the log ends with it.                                           *)
KeyKept(k, c) ==
    /\ Replay(records)[k] \in allowed[k] /\ table[k] \in allowed[k]
    /\ pending[c] # Idle /\ pending[c].key = k => pending[c].val \in allowed[k]
    /\ Reported(c) /\ pending[c].key = k => Replay(records)[k] = pending[c].val
Kept == \A k \in Keys, c \in Conns : Writers[k] = {c} => KeyKept(k, c)

(* Place i of the batch, or of the inbox of w, holds a durable record of k. *)
BatchHas(k, i) == i \in DOMAIN completing /\ ~error /\ pending[completing[i]].key = k
InboxHas(k, w, i) ==
    i \in DOMAIN inbox[w] /\ ~inbox[w][i].error /\ pending[inbox[w][i].conn].key = k

(* The log's value of a key is the last one on its way to the table, or    *)
(* the table's when none is.                                               *)
BatchTracks(k) ==
    \A i : BatchHas(k, i) /\ (\A j : BatchHas(k, j) => j <= i)
              => Replay(records)[k] = pending[completing[i]].val
InboxTracks(k) ==
    (\A j : ~BatchHas(k, j)) =>
        \A w \in Workers : \A i :
            InboxHas(k, w, i) /\ (\A j : InboxHas(k, w, j) => j <= i)
                => Replay(records)[k] = pending[inbox[w][i].conn].val
TableTracks(k) ==
    (\A j : ~BatchHas(k, j)) /\ (\A w \in Workers : \A i : ~InboxHas(k, w, i))
        => Replay(records)[k] = table[k]
Tracking(k) == BatchTracks(k) /\ InboxTracks(k) /\ TableTracks(k)
Tracks ==
    up /\ ~failed /\ ~unhealthy =>
        \A k \in Keys : Tracking(k)

(* The whole invariant but Tracks, which needs OneWorkerPerKey. *)
IInv ==
    /\ ServerTypeOK /\ QueuePlaced /\ BatchPlaced /\ InboxPlaced /\ Owned /\ Counted
    /\ Logged /\ Visible /\ Kept /\ (unhealthy => stop)

(* The type invariant, variable by variable. *)
LEMMA Types ==
    ASSUME ServerTypeOK
    PROVE  /\ up \in BOOLEAN /\ error \in BOOLEAN /\ failed \in BOOLEAN /\ stop \in BOOLEAN
           /\ unhealthy \in BOOLEAN /\ table \in [Keys -> Vals \cup {Absent}]
           /\ records \in Seq(Mutation) /\ Len(records) <= MaxOps /\ Len(records) \in Nat
           /\ pending \in [Conns -> Mutation \cup {Idle}]
           /\ submissions \in Seq(Conns) /\ Len(submissions) \in Nat /\ DOMAIN submissions = 1..Len(submissions)
           /\ completing \in Seq(Conns) /\ Len(completing) \in Nat /\ DOMAIN completing = 1..Len(completing)
           /\ inbox \in [Workers -> Seq(Report)]
           /\ allowed \in [Keys -> SUBSET (Vals \cup {Absent})]
           /\ ops \in Nat /\ ops <= MaxOps /\ kills \in Nat
<1>1. records \in Seq(Mutation) /\ submissions \in Seq(Conns) /\ completing \in Seq(Conns)
  BY DEF ServerTypeOK
<1>2. ops \in Nat /\ ops <= MaxOps /\ kills \in Nat
  BY DEF ServerTypeOK
<1>3. /\ Len(records) \in Nat /\ Len(submissions) \in Nat /\ Len(completing) \in Nat
      /\ DOMAIN submissions = 1..Len(submissions) /\ DOMAIN completing = 1..Len(completing)
  BY <1>1
<1>4. up \in BOOLEAN /\ error \in BOOLEAN /\ failed \in BOOLEAN /\ stop \in BOOLEAN /\ unhealthy \in BOOLEAN
  BY Zenon DEF ServerTypeOK
<1> QED
  BY <1>1, <1>2, <1>3, <1>4, Zenon DEF ServerTypeOK

(* A mutation and the key it is about. *)
LEMMA RecordFacts ==
    ASSUME NEW r \in Mutation
    PROVE  r.key \in Keys /\ r.val \in Vals \cup {Absent}
BY DEF Mutation

(* An inbox holds completions of connections. *)
LEMMA InboxFacts ==
    ASSUME ServerTypeOK, NEW w \in Workers
    PROVE  /\ inbox[w] \in Seq(Report) /\ Len(inbox[w]) \in Nat /\ DOMAIN inbox[w] = 1..Len(inbox[w])
           /\ \A i \in DOMAIN inbox[w] : /\ inbox[w][i] \in Report /\ inbox[w][i].conn \in Conns
                                         /\ inbox[w][i].error \in BOOLEAN
<1>1. inbox[w] \in Seq(Report)
  BY Types
<1>2. \A x \in Report : x.conn \in Conns /\ x.error \in BOOLEAN
  BY DEF Report
<1>3. /\ Len(inbox[w]) \in Nat /\ DOMAIN inbox[w] = 1..Len(inbox[w])
      /\ \A i \in DOMAIN inbox[w] : inbox[w][i] \in Report
  BY <1>1
<1> QED
  BY <1>1, <1>2, <1>3, Zenon

-----------------------------------------------------------------------------
(* Records are appended to the log *)

(* The records of the first m queued connections. *)
LEMMA Taken ==
    ASSUME ServerConstants, ServerTypeOK, QueuePlaced, Owned, NEW m \in 0..Len(submissions)
    PROVE  /\ Records(SubSeq(submissions, 1, m)) \in Seq(Mutation) /\ Len(Records(SubSeq(submissions, 1, m))) = m
           /\ \A i \in 1..m : /\ submissions[i] \in Conns /\ pending[submissions[i]] \in Mutation
                              /\ Records(SubSeq(submissions, 1, m))[i] = pending[submissions[i]]
                              /\ submissions[i] \in Writers[pending[submissions[i]].key]
<1>1. /\ submissions \in Seq(Conns) /\ Len(submissions) \in Nat /\ DOMAIN submissions = 1..Len(submissions) /\ m \in Nat
      /\ pending \in [Conns -> Mutation \cup {Idle}]
  BY Types
<1>2. Len(SubSeq(submissions, 1, m)) = m /\ \A i \in 1..m : SubSeq(submissions, 1, m)[i] = submissions[i]
  BY <1>1
<1>3. ASSUME NEW i \in 1..m
      PROVE  submissions[i] \in Conns /\ pending[submissions[i]] \in Mutation /\ submissions[i] \in Writers[pending[submissions[i]].key]
  <2>1. i \in DOMAIN submissions /\ submissions[i] \in Conns
    BY <1>1
  <2>2. pending[submissions[i]] # Idle
    BY <2>1, Zenon DEF QueuePlaced
  <2>3. pending[submissions[i]] \in Mutation
    BY <1>1, <2>1, <2>2
  <2> QED
    BY <2>1, <2>2, <2>3, Zenon DEF Owned
<1>4. Records(SubSeq(submissions, 1, m)) = [i \in 1..m |-> pending[submissions[i]]]
  BY <1>2 DEF Records
<1>5. [i \in 1..m |-> pending[submissions[i]]] \in Seq(Mutation)
  BY <1>1, <1>3
<1>6. Len([i \in 1..m |-> pending[submissions[i]]]) = m
  BY <1>1
<1> QED
  BY <1>3, <1>4, <1>5, <1>6

(* Log f is the file with the records of the first m of the queue after it. *)
Extends(f, m) ==
    /\ f \in Seq(Mutation) /\ Len(f) = Len(records) + m /\ DOMAIN f = 1..Len(f)
    /\ \A i \in 1..Len(records) : f[i] = records[i]
    /\ \A i \in 1..m : f[Len(records) + i] = pending[submissions[i]]

(* Appending the records of the first m of the queue is such a log. *)
LEMMA Appended ==
    ASSUME ServerConstants, ServerTypeOK, QueuePlaced, Owned, NEW m \in 0..Len(submissions), NEW f,
           f = records \o Records(SubSeq(submissions, 1, m))
    PROVE  Extends(f, m)
<1>1. PICK g : g = Records(SubSeq(submissions, 1, m))
  OBVIOUS
<1>2. g \in Seq(Mutation) /\ Len(g) = m /\ \A i \in 1..m : g[i] = pending[submissions[i]]
  BY <1>1, Taken, Zenon
<1>3. records \in Seq(Mutation) /\ f = records \o g /\ m \in Nat
  BY <1>1, Types
<1> DEFINE Joined(x, e, h) == /\ x \in Seq(Mutation) /\ Len(x) = Len(e) + Len(h) /\ DOMAIN x = 1..Len(x)
                              /\ \A i \in 1..Len(e) : x[i] = e[i]
                              /\ \A i \in 1..Len(h) : x[Len(e) + i] = h[i]
<1>4. \A e, h \in Seq(Mutation) : Joined(e \o h, e, h)
  OBVIOUS
<1> HIDE DEF Joined
<1>5. Joined(f, records, g)
  BY <1>2, <1>3, <1>4, Zenon
<1> QED
  BY <1>2, <1>5, Zenon DEF Extends, Joined

(* What a longer log keeps: the versions memory may show, the records it   *)
(* holds, and the keys that the new records are not about.                 *)
Grown(f, m) ==
    /\ \A k \in Keys : \E n \in 0..Len(f) : table[k] = Replay(SubSeq(f, 1, n))[k]
    /\ \A n \in DOMAIN records : n \in DOMAIN f /\ f[n] = records[n]
    /\ \A i \in 1..m : Len(records) + i \in DOMAIN f /\ f[Len(records) + i] = pending[submissions[i]]
    /\ \A k \in Keys : (\A i \in 1..m : pending[submissions[i]].key # k) => Replay(f)[k] = Replay(records)[k]
    /\ \A k \in Keys, i \in 1..m :
          pending[submissions[i]].key = k /\ (\A j \in (i + 1)..m : pending[submissions[j]].key # k)
              => Replay(f)[k] = pending[submissions[i]].val

(* A log with the queue's first records after it has grown so. *)
LEMMA FileGrows ==
    ASSUME ServerConstants, IInv, NEW m \in 0..Len(submissions), NEW f, Extends(f, m)
    PROVE  Grown(f, m)
<1>1. /\ f \in Seq(Mutation) /\ Len(f) = Len(records) + m /\ DOMAIN f = 1..Len(f)
      /\ \A i \in 1..Len(records) : f[i] = records[i]
      /\ \A i \in 1..m : f[Len(records) + i] = pending[submissions[i]]
  BY Zenon DEF Extends
<1>2. records \in Seq(Mutation) /\ Len(records) \in Nat /\ m \in Nat /\ DOMAIN records = 1..Len(records)
  BY Types DEF IInv
<1>3. Len(f) \in Nat /\ Len(records) <= Len(f)
  BY <1>1, <1>2
<1>4. ASSUME NEW k \in Keys PROVE \E n \in 0..Len(f) : table[k] = Replay(SubSeq(f, 1, n))[k]
  <2>1. PICK n \in 0..Len(records) : table[k] = Replay(SubSeq(records, 1, n))[k]
    BY Zenon DEF IInv, Visible
  <2>2. SubSeq(f, 1, n) = SubSeq(records, 1, n) /\ n \in 0..Len(f)
    BY <1>1, <1>2, <1>3, PrefixKept, Zenon
  <2> QED
    BY <2>1, <2>2, Zenon
<1>5. \A n \in DOMAIN records : n \in DOMAIN f /\ f[n] = records[n]
  BY <1>1, <1>2, <1>3
<1>6. \A i \in 1..m : Len(records) + i \in DOMAIN f /\ f[Len(records) + i] = pending[submissions[i]]
  BY <1>1, <1>2, <1>3
<1>7. ASSUME NEW k \in Keys, \A i \in 1..m : pending[submissions[i]].key # k
      PROVE  Replay(f)[k] = Replay(records)[k]
  <2>1. ASSUME NEW i \in (Len(records) + 1)..Len(f) PROVE f[i].key # k
    <3>1. i - Len(records) \in 1..m /\ Len(records) + (i - Len(records)) = i
      BY <1>1, <1>2
    <3>2. f[i] = pending[submissions[i - Len(records)]]
      BY <1>1, <3>1
    <3> QED
      BY <1>7, <3>1, <3>2, Zenon
  <2> QED
    BY <1>1, <1>2, <1>3, <2>1, ReplayKeeps, Zenon
<1>8. ASSUME NEW k \in Keys, NEW i \in 1..m, pending[submissions[i]].key = k,
             \A j \in (i + 1)..m : pending[submissions[j]].key # k
      PROVE  Replay(f)[k] = pending[submissions[i]].val
  <2>1. PICK l : l = Len(records) + i
    OBVIOUS
  <2>2. l \in 1..Len(f) /\ f[l] = pending[submissions[i]]
    BY <1>1, <1>2, <2>1
  <2>3. ASSUME NEW j \in (l + 1)..Len(f) PROVE f[j].key # k
    <3>1. /\ j - Len(records) \in (i + 1)..m /\ j - Len(records) \in 1..m
          /\ Len(records) + (j - Len(records)) = j
      BY <1>1, <1>2, <2>1
    <3>2. f[j] = pending[submissions[j - Len(records)]]
      BY <1>1, <3>1
    <3> QED
      BY <1>8, <3>1, <3>2, Zenon
  <2>4. IsLast(f, Len(f), k, l)
    BY <1>8, <2>2, <2>3 DEF IsLast
  <2>5. f \in Seq(Mutation)
    BY <1>1, Zenon
  <2>6. Replay(f)[k] = f[l].val
    BY <2>4, <2>5, ReplayLast, ZenonT(40)
  <2> QED
    BY <2>2, <2>6
<1> QED
  BY <1>4, <1>5, <1>6, <1>7, <1>8 DEF Grown

-----------------------------------------------------------------------------
(* The steps of the log's writer *)

(* What TakeBatch moves: the first n of the queue become the batch, and    *)
(* the records of the first m of them, all if the batch succeeds, are      *)
(* appended to the file.                                                   *)
LEMMA TakeBatchFacts ==
    ASSUME ServerConstants, IInv, CommitBatch
    PROVE  \E n \in 1..Len(submissions) : \E m \in 0..n :
              /\ completing' \in Seq(Conns) /\ DOMAIN completing' = 1..n /\ \A i \in 1..n : completing'[i] = submissions[i]
              /\ submissions' \in Seq(Conns) /\ DOMAIN submissions' = 1..(Len(submissions) - n) /\ Len(submissions') = Len(submissions) - n
              /\ \A i \in 1..(Len(submissions) - n) : submissions'[i] = submissions[n + i]
              /\ records' = records \o Records(SubSeq(submissions, 1, m))
              /\ error' \in BOOLEAN /\ failed' \in BOOLEAN
              /\ (~error' => m = n) /\ (~failed' => ~error' /\ ~failed)
<1>1. PICK n \in 1..WalBatchMax :
          /\ n <= Len(submissions)
          /\ completing' = SubSeq(submissions, 1, n) /\ submissions' = SubSeq(submissions, n + 1, Len(submissions))
          /\ \/ failed /\ error' = TRUE /\ UNCHANGED <<failed, records>>
             \/ ~failed /\ error' = FALSE /\ UNCHANGED failed /\ records' = records \o Records(completing')
             \/ /\ ~failed /\ error' = TRUE /\ failed' = TRUE
                /\ \E m \in 0..n : records' = records \o Records(SubSeq(submissions, 1, m))
  BY Zenon DEF CommitBatch
<1>2. submissions \in Seq(Conns) /\ Len(submissions) \in Nat /\ n \in Nat /\ records \in Seq(Mutation) /\ failed \in BOOLEAN
  BY Types DEF IInv, ServerConstants
<1>3. n \in 1..Len(submissions)
  BY <1>1, <1>2
<1>4. completing' \in Seq(Conns) /\ DOMAIN completing' = 1..n /\ \A i \in 1..n : completing'[i] = submissions[i]
  BY <1>1, <1>2, <1>3
<1>5. submissions' \in Seq(Conns) /\ DOMAIN submissions' = 1..(Len(submissions) - n) /\ Len(submissions') = Len(submissions) - n
  BY <1>1, <1>2, <1>3
<1>6. \A i \in 1..(Len(submissions) - n) : submissions'[i] = submissions[n + i]
  BY <1>1, <1>2, <1>3
<1>7. \E m \in 0..n : /\ records' = records \o Records(SubSeq(submissions, 1, m))
                      /\ error' \in BOOLEAN /\ failed' \in BOOLEAN
              /\ (~error' => m = n) /\ (~failed' => ~error' /\ ~failed)
  <2>1. CASE failed /\ error' = TRUE /\ UNCHANGED <<failed, records>>
    <3>1. 0 \in 0..n /\ 0 \in 0..Len(submissions)
      BY <1>2
    <3>2. Records(SubSeq(submissions, 1, 0)) \in Seq(Mutation) /\ Len(Records(SubSeq(submissions, 1, 0))) = 0
      BY <3>1, Taken DEF IInv
    <3>3. records \o Records(SubSeq(submissions, 1, 0)) = records
      <4>1. \A g \in Seq(Mutation) : Len(g) = 0 => records \o g = records
        BY <1>2
      <4> QED
        BY <3>2, <4>1, Zenon
    <3>4. error' \in BOOLEAN /\ failed' \in BOOLEAN /\ error' /\ failed'
      BY <1>2, <2>1
    <3>5. records' = records \o Records(SubSeq(submissions, 1, 0))
      BY <2>1, <3>3, Zenon
    <3> WITNESS 0 \in 0..n
    <3> QED
      BY <3>4, <3>5, Zenon
  <2>2. CASE ~failed /\ error' = FALSE /\ UNCHANGED failed /\ records' = records \o Records(completing')
    <3>1. n \in 0..n
      BY <1>2
    <3>2. records' = records \o Records(SubSeq(submissions, 1, n))
      BY <1>1, <2>2, Zenon
    <3>3. error' \in BOOLEAN /\ failed' \in BOOLEAN /\ ~error' /\ ~failed' /\ ~failed
      BY <1>2, <2>2, Zenon
    <3> WITNESS n \in 0..n
    <3> QED
      BY <3>2, <3>3, Zenon
  <2>3. CASE /\ ~failed /\ error' = TRUE /\ failed' = TRUE
             /\ \E m \in 0..n : records' = records \o Records(SubSeq(submissions, 1, m))
    BY <2>3, Zenon
  <2> QED
    BY <1>1, <2>1, <2>2, <2>3, Zenon
<1> QED
  BY <1>3, <1>4, <1>5, <1>6, <1>7, Zenon

(* TakeBatch keeps the invariant. *)
LEMMA TakeBatchKeeps ==
    ASSUME ServerConstants, IInv, CommitBatch
    PROVE  IInv'
<1>1. PICK n \in 1..Len(submissions) : \E m \in 0..n :
              /\ completing' \in Seq(Conns) /\ DOMAIN completing' = 1..n /\ \A i \in 1..n : completing'[i] = submissions[i]
              /\ submissions' \in Seq(Conns) /\ DOMAIN submissions' = 1..(Len(submissions) - n) /\ Len(submissions') = Len(submissions) - n
              /\ \A i \in 1..(Len(submissions) - n) : submissions'[i] = submissions[n + i]
              /\ records' = records \o Records(SubSeq(submissions, 1, m))
              /\ error' \in BOOLEAN /\ failed' \in BOOLEAN
              /\ (~error' => m = n) /\ (~failed' => ~error' /\ ~failed)
  BY TakeBatchFacts, Zenon
<1>2. PICK m \in 0..n : records' = records \o Records(SubSeq(submissions, 1, m)) /\ (~error' => m = n)
  BY <1>1, Zenon
<1>3. /\ completing' \in Seq(Conns) /\ DOMAIN completing' = 1..n /\ \A i \in 1..n : completing'[i] = submissions[i]
  BY <1>1, Zenon
<1>4. /\ submissions' \in Seq(Conns) /\ DOMAIN submissions' = 1..(Len(submissions) - n) /\ Len(submissions') = Len(submissions) - n
      /\ \A i \in 1..(Len(submissions) - n) : submissions'[i] = submissions[n + i]
  BY <1>1, Zenon
<1>5. error' \in BOOLEAN /\ failed' \in BOOLEAN
  BY <1>1, Zenon
<1>6. /\ up /\ completing = <<>> /\ up' = up /\ table' = table /\ pending' = pending /\ inbox' = inbox /\ stop' = stop
      /\ draining' = draining /\ unhealthy' = unhealthy /\ allowed' = allowed /\ ops' = ops /\ kills' = kills
  BY Zenon DEF CommitBatch
<1>7. /\ submissions \in Seq(Conns) /\ Len(submissions) \in Nat /\ DOMAIN submissions = 1..Len(submissions) /\ Len(records) \in Nat
      /\ n \in Nat /\ m \in Nat /\ m <= n /\ n <= Len(submissions) /\ m \in 0..Len(submissions)
      /\ ops \in Nat /\ ops <= MaxOps
  BY <1>2, Types DEF IInv
<1>8. Extends(records', m)
  BY <1>2, <1>7, Appended, Zenon DEF IInv
<1>9. /\ records' \in Seq(Mutation) /\ Len(records') = Len(records) + m
  BY <1>8, Zenon DEF Extends
<1>10. Grown(records', m)
  BY <1>7, <1>8, FileGrows, Zenon
<1>11. \A c : (InInbox(c)' <=> InInbox(c)) /\ (InBatch(c)' <=> \E i \in 1..n : submissions[i] = c)
  BY <1>3, <1>6, Zenon DEF InInbox, InBatch
<1>12. /\ \A i \in 1..Len(submissions) : pending[submissions[i]] # Idle /\ ~InInbox(submissions[i])
       /\ \A i, j \in 1..Len(submissions) : submissions[i] = submissions[j] => i = j
  BY <1>7, Zenon DEF IInv, QueuePlaced
<1>13. QueuePlaced'
  <2>1. ASSUME NEW i \in DOMAIN submissions'
        PROVE  n + i \in 1..Len(submissions) /\ submissions'[i] = submissions[n + i] /\ ~(n + i \in 1..n) /\ i \in Nat
    BY <1>4, <1>7
  <2>2. ASSUME NEW i \in DOMAIN submissions', NEW c, c = submissions'[i]
        PROVE  pending'[c] # Idle /\ ~InBatch(c)' /\ ~InInbox(c)'
    <3>1. PICK l : l = n + i
      OBVIOUS
    <3>2. l \in 1..Len(submissions) /\ c = submissions[l] /\ l \notin 1..n
      BY <2>1, <2>2, <3>1
    <3>3. ASSUME NEW j \in 1..n, submissions[j] = c PROVE FALSE
      <4>1. j \in 1..Len(submissions)
        BY <1>7
      <4> QED
        BY <1>12, <3>2, <3>3, <4>1, Zenon
    <3>4. pending[c] # Idle /\ ~InInbox(c)
      BY <1>12, <3>2, Zenon
    <3>5. pending'[c] # Idle
      BY <1>6, <3>4
    <3> QED
      BY <1>11, <3>3, <3>4, <3>5, Zenon
  <2>3. ASSUME NEW i \in DOMAIN submissions', NEW j \in DOMAIN submissions', submissions'[i] = submissions'[j] PROVE i = j
    <3>1. n + i = n + j
      BY <1>12, <2>1, <2>3, ZenonT(40)
    <3> QED
      BY <1>7, <2>1, <3>1
  <2> QED
    BY <2>2, <2>3, Zenon DEF QueuePlaced, InBatch, InInbox
<1>14. BatchPlaced'
  <2>1. \A i \in 1..n : i \in 1..Len(submissions)
    BY <1>7
  <2> QED
    BY <1>3, <1>6, <1>11, <1>12, <2>1, ZenonT(40) DEF BatchPlaced
<1>15. InboxPlaced' /\ Owned' /\ (unhealthy' => stop')
  BY <1>6, ZenonT(40) DEF IInv, InboxPlaced, Owned
<1>16. Counted'
  BY <1>4, <1>6, <1>7, <1>9 DEF IInv, Counted
<1>17. ServerTypeOK'
  <2>1. Len(records') <= MaxOps
    BY <1>7, <1>9, <1>16, <1>6 DEF Counted, ServerConstants
  <2> QED
    BY <1>3, <1>4, <1>5, <1>6, <1>9, <2>1 DEF IInv, ServerTypeOK
<1>18. Visible'
  BY <1>6, <1>10, Zenon DEF Visible, Grown
(* Who is reported now: the batch, if it succeeded, and who was. *)
<1>19. ASSUME NEW c \in Conns, Reported(c)'
       PROVE  \/ \E i \in 1..m : submissions[i] = c
              \/ Reported(c) /\ \A i \in 1..m : submissions[i] # c
  <2>1. CASE \E w \in Workers : \E i \in DOMAIN inbox[w] : inbox[w][i].conn = c /\ ~inbox[w][i].error
    <3>1. Reported(c) /\ InInbox(c)
      BY <2>1, Zenon DEF Reported, InInbox
    <3>2. \A i \in 1..m : i \in 1..Len(submissions)
      BY <1>7
    <3> QED
      BY <1>12, <3>1, <3>2, Zenon
  <2>2. CASE ~error' /\ InBatch(c)'
    BY <1>2, <1>11, <2>2, Zenon
  <2>3. \/ ~error' /\ InBatch(c)'
        \/ \E w \in Workers : \E i \in DOMAIN inbox'[w] : inbox'[w][i].conn = c /\ ~inbox'[w][i].error
    BY <1>19, Zenon DEF Reported
  <2>4. inbox' = inbox
    BY <1>6
  <2> QED
    BY <2>1, <2>2, <2>3, <2>4
<1>20. Logged'
  <2> SUFFICES ASSUME NEW c \in Conns, Reported(c)'
               PROVE  \E j \in DOMAIN records' : records'[j] = pending[c]
    BY <1>6, Zenon DEF Logged
  <2>1. CASE \E i \in 1..m : submissions[i] = c
    <3>1. PICK i \in 1..m : submissions[i] = c
      BY <2>1
    <3>2. Len(records) + i \in DOMAIN records' /\ records'[Len(records) + i] = pending[submissions[i]]
      BY <1>10, Zenon DEF Grown
    <3> QED
      BY <3>1, <3>2, Zenon
  <2>2. CASE Reported(c)
    <3>1. PICK j \in DOMAIN records : records[j] = pending[c]
      BY <2>2, Zenon DEF IInv, Logged
    <3> QED
      BY <1>10, <3>1, Zenon DEF Grown
  <2> QED
    BY <1>19, <2>1, <2>2, Zenon
<1>21. Kept'
  <2> SUFFICES ASSUME NEW k \in Keys, NEW c \in Conns, Writers[k] = {c} PROVE KeyKept(k, c)'
    BY Zenon DEF Kept
  <2>1. KeyKept(k, c)
    BY Zenon DEF IInv, Kept
  <2>2. ASSUME NEW i \in 1..m, pending[submissions[i]].key = k PROVE submissions[i] = c
    <3>1. submissions[i] \in Writers[pending[submissions[i]].key]
      BY <1>7, Taken, Zenon DEF IInv
    <3> QED
      BY <2>2, <3>1
  <2>3. CASE \E i \in 1..m : pending[submissions[i]].key = k
    <3>1. PICK i \in 1..m : pending[submissions[i]].key = k
      BY <2>3
    <3>2. submissions[i] = c /\ i \in 1..Len(submissions)
      BY <1>7, <2>2, <3>1
    <3>3. ASSUME NEW j \in (i + 1)..m, pending[submissions[j]].key = k PROVE FALSE
      <4>1. j \in 1..m /\ j \in 1..Len(submissions) /\ i # j
        BY <1>7
      <4> QED
        BY <1>12, <2>2, <3>2, <3>3, <4>1, Zenon
    <3>4. Replay(records')[k] = pending[c].val
      BY <1>10, <3>1, <3>2, <3>3, ZenonT(40) DEF Grown
    <3>5. pending[c] # Idle /\ pending[c].key = k
      BY <1>12, <3>1, <3>2, Zenon
    <3> QED
      BY <1>6, <2>1, <3>4, <3>5, Zenon DEF KeyKept
  <2>4. CASE \A i \in 1..m : pending[submissions[i]].key # k
    <3>1. Replay(records')[k] = Replay(records)[k]
      BY <1>10, <2>4, Zenon DEF Grown
    <3>2. Reported(c)' /\ pending[c].key = k => Reported(c)
      BY <1>19, <2>4, Zenon
    <3> QED
      BY <1>6, <2>1, <3>1, <3>2, Zenon DEF KeyKept
  <2> QED
    BY <2>3, <2>4, Zenon
<1> QED
  BY <1>13, <1>14, <1>15, <1>16, <1>17, <1>18, <1>20, <1>21, Zenon DEF IInv
-----------------------------------------------------------------------------
(* The steps of the workers *)

(* A connection with nothing pending is nowhere in the pipeline. *)
LEMMA IdleIsNowhere ==
    ASSUME IInv, NEW c \in Conns, pending[c] = Idle
    PROVE  (\A i \in DOMAIN submissions : submissions[i] # c) /\ ~InBatch(c) /\ ~InInbox(c) /\ ~Reported(c)
<1>1. (\A i \in DOMAIN submissions : submissions[i] # c) /\ ~InBatch(c) /\ ~InInbox(c)
  BY Zenon DEF IInv, QueuePlaced, BatchPlaced, InboxPlaced, InBatch, InInbox
<1> QED
  BY <1>1, Zenon DEF Reported, InInbox

(* Reports change only with the batch and the inboxes. *)
LEMMA SameReports ==
    ASSUME completing' = completing, error' = error, inbox' = inbox
    PROVE  \A c : (InBatch(c)' <=> InBatch(c)) /\ (InInbox(c)' <=> InInbox(c)) /\ (Reported(c)' <=> Reported(c))
<1>1. \A c : InBatch(c)' <=> InBatch(c)
  BY DEF InBatch
<1>2. \A c : InInbox(c)' <=> InInbox(c)
  BY Zenon DEF InInbox
<1>3. \A c : Reported(c)' <=> Reported(c)
  BY <1>1, Zenon DEF Reported
<1> QED
  BY <1>1, <1>2, <1>3, Zenon

(* What Submit changes: the queue is one longer, and c's mutation is       *)
(* pending and expected.                                                   *)
Submitted(c, r) ==
    /\ up /\ pending[c] = Idle /\ c \in Writers[r.key] /\ r # Idle
    /\ pending' \in [Conns -> Mutation \cup {Idle}] /\ pending'[c] = r
    /\ \A d \in Conns : d # c => pending'[d] = pending[d]
    /\ submissions' \in Seq(Conns) /\ Len(submissions') = Len(submissions) + 1 /\ DOMAIN submissions' = 1..(Len(submissions) + 1)
    /\ submissions'[Len(submissions) + 1] = c /\ \A i \in DOMAIN submissions : submissions'[i] = submissions[i]
    /\ allowed' \in [Keys -> SUBSET (Vals \cup {Absent})] /\ r.val \in allowed'[r.key]
    /\ \A k \in Keys : allowed[k] \subseteq allowed'[k]
    /\ ops' = ops + 1 /\ ops < MaxOps
    /\ up' = up /\ table' = table /\ records' = records /\ completing' = completing /\ error' = error /\ failed' = failed
    /\ inbox' = inbox /\ stop' = stop /\ draining' = draining /\ unhealthy' = unhealthy /\ kills' = kills

(* Submit does that. *)
LEMMA SubmitFacts ==
    ASSUME ServerConstants, IInv, NEW c \in Conns, NEW r \in Mutation, SubmitMutation(c, r)
    PROVE  Submitted(c, r)
<1>1. /\ submissions \in Seq(Conns) /\ pending \in [Conns -> Mutation \cup {Idle}] /\ r.key \in Keys
      /\ r.val \in Vals \cup {Absent} /\ allowed \in [Keys -> SUBSET (Vals \cup {Absent})]
  BY Types, RecordFacts DEF IInv
<1>2. /\ up /\ pending[c] = Idle /\ c \in Writers[r.key] /\ ops < MaxOps
      /\ pending' = [pending EXCEPT ![c] = r] /\ submissions' = Append(submissions, c)
      /\ allowed' = [allowed EXCEPT ![r.key] = @ \cup {r.val}] /\ ops' = ops + 1
      /\ up' = up /\ table' = table /\ records' = records /\ completing' = completing /\ error' = error /\ failed' = failed
      /\ inbox' = inbox /\ stop' = stop /\ draining' = draining /\ unhealthy' = unhealthy /\ kills' = kills
  BY Zenon DEF SubmitMutation
<1>3. /\ submissions' \in Seq(Conns) /\ Len(submissions') = Len(submissions) + 1 /\ DOMAIN submissions' = 1..(Len(submissions) + 1)
      /\ submissions'[Len(submissions) + 1] = c /\ \A i \in DOMAIN submissions : submissions'[i] = submissions[i]
  BY <1>1, <1>2
<1>4. /\ pending' \in [Conns -> Mutation \cup {Idle}] /\ pending'[c] = r
      /\ \A d \in Conns : d # c => pending'[d] = pending[d]
  BY <1>1, <1>2
<1>5. /\ allowed' \in [Keys -> SUBSET (Vals \cup {Absent})] /\ r.val \in allowed'[r.key]
      /\ \A k \in Keys : allowed[k] \subseteq allowed'[k]
  BY <1>1, <1>2
<1>6. r # Idle
  BY DEF ServerConstants
<1> QED
  BY <1>2, <1>3, <1>4, <1>5, <1>6, Zenon DEF Submitted

(* Submit keeps the invariant. *)
LEMMA SubmitKeeps ==
    ASSUME ServerConstants, IInv, NEW c \in Conns, NEW r \in Mutation, SubmitMutation(c, r)
    PROVE  IInv'
<1>1. Submitted(c, r)
  BY SubmitFacts, Zenon
<1>2. /\ submissions \in Seq(Conns) /\ Len(submissions) \in Nat /\ DOMAIN submissions = 1..Len(submissions) /\ Len(records) \in Nat
      /\ ops \in Nat /\ ops <= MaxOps /\ MaxOps \in Nat
  BY Types DEF IInv, ServerConstants
<1>3. (\A i \in DOMAIN submissions : submissions[i] # c) /\ ~InBatch(c) /\ ~InInbox(c) /\ ~Reported(c)
  BY <1>1, IdleIsNowhere, Zenon DEF Submitted
<1>4. \A d : (InBatch(d)' <=> InBatch(d)) /\ (InInbox(d)' <=> InInbox(d)) /\ (Reported(d)' <=> Reported(d))
  BY <1>1, SameReports, Zenon DEF Submitted
<1>5. ASSUME NEW i \in DOMAIN submissions'
      PROVE  \/ i \in DOMAIN submissions /\ submissions'[i] = submissions[i]
             \/ i = Len(submissions) + 1 /\ submissions'[i] = c
  <2>1. /\ DOMAIN submissions' = 1..(Len(submissions) + 1) /\ submissions'[Len(submissions) + 1] = c
        /\ \A j \in DOMAIN submissions : submissions'[j] = submissions[j]
    BY <1>1, Zenon DEF Submitted
  <2>2. i \in DOMAIN submissions \/ i = Len(submissions) + 1
    BY <1>2, <2>1
  <2> QED
    BY <2>1, <2>2, Zenon
<1>6. QueuePlaced'
  <2>1. ASSUME NEW i \in DOMAIN submissions', NEW d, d = submissions'[i]
        PROVE  pending'[d] # Idle /\ ~InBatch(d)' /\ ~InInbox(d)'
    <3>1. CASE i \in DOMAIN submissions /\ submissions'[i] = submissions[i]
      <4>1. d # c /\ d \in Conns
        BY <1>2, <1>3, <2>1, <3>1
      <4>2. pending'[d] = pending[d]
        BY <1>1, <4>1, Zenon DEF Submitted
      <4>3. pending[d] # Idle /\ ~InBatch(d) /\ ~InInbox(d)
        BY <2>1, <3>1, Zenon DEF IInv, QueuePlaced
      <4> QED
        BY <1>4, <4>2, <4>3, Zenon
    <3>2. CASE submissions'[i] = c
      BY <1>1, <1>3, <1>4, <2>1, <3>2, Zenon DEF Submitted
    <3> QED
      BY <1>5, <3>1, <3>2, Zenon
  <2>2. ASSUME NEW i \in DOMAIN submissions', NEW j \in DOMAIN submissions', submissions'[i] = submissions'[j] PROVE i = j
    <3>1. \A a, b \in DOMAIN submissions : submissions[a] = submissions[b] => a = b
      BY Zenon DEF IInv, QueuePlaced
    <3> QED
      BY <1>3, <1>5, <2>2, <3>1
  <2> QED
    BY <2>1, <2>2, Zenon DEF QueuePlaced, InBatch, InInbox
<1>7. \A d \in Conns : pending[d] # Idle => pending'[d] = pending[d] /\ d # c
  BY <1>1, Zenon DEF Submitted
<1>8. BatchPlaced'
  <2>1. ASSUME NEW i \in DOMAIN completing, NEW d, d = completing[i] PROVE pending'[d] # Idle /\ ~InInbox(d)'
    <3>1. d \in Conns
      BY <2>1, Types DEF IInv
    <3>2. pending[d] # Idle /\ ~InInbox(d)
      BY <2>1, Zenon DEF IInv, BatchPlaced
    <3> QED
      BY <1>4, <1>7, <3>1, <3>2, Zenon
  <2>2. completing' = completing /\ inbox' = inbox
    BY <1>1, Zenon DEF Submitted
  <2>3. \A i, j \in DOMAIN completing : completing[i] = completing[j] => i = j
    BY Zenon DEF IInv, BatchPlaced
  <2> QED
    BY <2>1, <2>2, <2>3 DEF BatchPlaced, InInbox
<1>9. InboxPlaced'
  <2>1. ASSUME NEW w \in Workers, NEW i \in DOMAIN inbox[w] PROVE pending'[inbox[w][i].conn] # Idle
    <3>1. inbox[w][i].conn \in Conns /\ pending[inbox[w][i].conn] # Idle
      BY InboxFacts, Zenon DEF IInv, InboxPlaced
    <3> QED
      BY <1>7, <3>1, Zenon
  <2>2. inbox' = inbox
    BY <1>1, Zenon DEF Submitted
  <2>3. \A w \in Workers :
            /\ \A i \in DOMAIN inbox[w] : WorkerOf[inbox[w][i].conn] = w
            /\ \A i, j \in DOMAIN inbox[w] : inbox[w][i].conn = inbox[w][j].conn => i = j
    BY Zenon DEF IInv, InboxPlaced
  <2> QED
    BY <2>1, <2>2, <2>3, Zenon DEF InboxPlaced
<1>10. Owned'
  BY <1>1, <1>7, Zenon DEF IInv, Owned, Submitted
<1>11. Counted'
  BY <1>1, <1>2, SMTT(30) DEF IInv, Counted, Submitted
<1>12. ServerTypeOK'
  BY <1>1, <1>2 DEF IInv, ServerTypeOK, Submitted
<1>13. Logged'
  <2> SUFFICES ASSUME NEW d \in Conns, Reported(d)' PROVE \E n \in DOMAIN records : records[n] = pending'[d]
    BY <1>1, Zenon DEF Logged, Submitted
  <2>1. Reported(d) /\ d # c
    BY <1>3, <1>4, Zenon
  <2> QED
    BY <1>1, <2>1, ZenonT(40) DEF IInv, Logged, Submitted
<1>14. Visible' /\ (unhealthy' => stop')
  BY <1>1, Zenon DEF IInv, Visible, Submitted
<1>15. Kept'
  <2> SUFFICES ASSUME NEW k \in Keys, NEW d \in Conns, Writers[k] = {d} PROVE KeyKept(k, d)'
    BY Zenon DEF Kept
  <2>1. KeyKept(k, d)
    BY Zenon DEF IInv, Kept
  <2>2. Replay(records')[k] \in allowed'[k] /\ table'[k] \in allowed'[k]
    BY <1>1, <2>1 DEF KeyKept, Submitted
  <2>3. pending'[d] # Idle /\ pending'[d].key = k => pending'[d].val \in allowed'[k]
    BY <1>1, <2>1 DEF KeyKept, Submitted
  <2>4. Reported(d)' => Reported(d) /\ pending'[d] = pending[d] /\ records' = records
    BY <1>1, <1>3, <1>4, Zenon DEF Submitted
  <2> QED
    BY <2>1, <2>2, <2>3, <2>4, Zenon DEF KeyKept
<1> QED
  BY <1>6, <1>8, <1>9, <1>10, <1>11, <1>12, <1>13, <1>14, <1>15, Zenon DEF IInv

(* What Complete changes: the first of the batch, h, becomes the last of   *)
(* its worker's inbox, with the batch's error.                             *)
Handed(h) ==
    /\ up /\ h \in Conns /\ 1 \in DOMAIN completing /\ completing[1] = h
    /\ completing' \in Seq(Conns) /\ DOMAIN completing' = 1..(Len(completing) - 1)
    /\ \A i \in DOMAIN completing' : i + 1 \in DOMAIN completing /\ completing'[i] = completing[i + 1]
    /\ inbox' \in [Workers -> Seq(Report)]
    /\ DOMAIN inbox'[WorkerOf[h]] = 1..(Len(inbox[WorkerOf[h]]) + 1)
    /\ \A w \in Workers : \A i \in DOMAIN inbox[w] : i \in DOMAIN inbox'[w] /\ inbox'[w][i] = inbox[w][i]
    /\ \A w \in Workers : \A i \in DOMAIN inbox'[w] :
          \/ i \in DOMAIN inbox[w]
          \/ /\ w = WorkerOf[h] /\ i = Len(inbox[w]) + 1
             /\ inbox'[w][i].conn = h /\ inbox'[w][i].error = error
    /\ up' = up /\ table' = table /\ records' = records /\ pending' = pending /\ submissions' = submissions /\ error' = error
    /\ failed' = failed /\ stop' = stop /\ draining' = draining /\ unhealthy' = unhealthy
    /\ allowed' = allowed /\ ops' = ops /\ kills' = kills

(* Complete does that to the head of the batch. *)
LEMMA CompleteFacts ==
    ASSUME ServerConstants, IInv, Complete
    PROVE  Handed(Head(completing))
<1>1. PICK h : h = Head(completing)
  OBVIOUS
<1>2. /\ up /\ completing # <<>> /\ completing' = Tail(completing)
      /\ inbox' = [inbox EXCEPT ![WorkerOf[h]] = Append(inbox[WorkerOf[h]], [conn |-> h, error |-> error])]
      /\ up' = up /\ table' = table /\ records' = records /\ pending' = pending /\ submissions' = submissions /\ error' = error
      /\ failed' = failed /\ stop' = stop /\ draining' = draining /\ unhealthy' = unhealthy
      /\ allowed' = allowed /\ ops' = ops /\ kills' = kills
  BY <1>1 DEF Complete
<1>3. completing \in Seq(Conns) /\ inbox \in [Workers -> Seq(Report)] /\ error \in BOOLEAN
  BY Types DEF IInv
<1>4. h \in Conns /\ 1 \in DOMAIN completing /\ completing[1] = h /\ WorkerOf[h] \in Workers
  BY <1>1, <1>2, <1>3 DEF ServerConstants
<1>5. /\ completing' \in Seq(Conns) /\ DOMAIN completing' = 1..(Len(completing) - 1)
      /\ \A i \in DOMAIN completing' : i + 1 \in DOMAIN completing /\ completing'[i] = completing[i + 1]
  BY <1>2, <1>3
<1>6. PICK e : e = [conn |-> h, error |-> error]
  BY Zenon
<1>7. e \in Report /\ e.conn = h /\ e.error = error
  BY <1>3, <1>4, <1>6 DEF Report
<1>8. PICK s : s = inbox[WorkerOf[h]]
  OBVIOUS
<1>9. s \in Seq(Report) /\ Len(s) \in Nat
  BY <1>3, <1>4, <1>8
<1>10. PICK t : t = Append(s, e)
  BY Zenon
<1>11. /\ t \in Seq(Report) /\ DOMAIN t = 1..(Len(s) + 1) /\ t[Len(s) + 1] = e /\ DOMAIN s = 1..Len(s)
       /\ \A i \in DOMAIN s : i \in DOMAIN t /\ t[i] = s[i]
       /\ \A i \in DOMAIN t : i \in DOMAIN s \/ i = Len(s) + 1
  BY <1>7, <1>9, <1>10
<1>12. /\ inbox' \in [Workers -> Seq(Report)] /\ inbox'[WorkerOf[h]] = t
       /\ \A w \in Workers : w # WorkerOf[h] => inbox'[w] = inbox[w]
  BY <1>2, <1>3, <1>4, <1>6, <1>8, <1>10, <1>11
<1>13. ASSUME NEW w \in Workers
       PROVE  /\ \A i \in DOMAIN inbox[w] : i \in DOMAIN inbox'[w] /\ inbox'[w][i] = inbox[w][i]
              /\ \A i \in DOMAIN inbox'[w] :
                    \/ i \in DOMAIN inbox[w]
                    \/ /\ w = WorkerOf[h] /\ i = Len(inbox[w]) + 1
                       /\ inbox'[w][i].conn = h /\ inbox'[w][i].error = error
  <2>1. CASE w # WorkerOf[h]
    BY <1>12, <2>1, Zenon
  <2>2. CASE w = WorkerOf[h]
    <3>1. inbox'[w] = t /\ inbox[w] = s
      BY <1>8, <1>12, <2>2, Zenon
    <3> QED
      BY <1>7, <1>11, <2>2, <3>1, Zenon
  <2> QED
    BY <2>1, <2>2, Zenon
<1>14. DOMAIN inbox'[WorkerOf[h]] = 1..(Len(inbox[WorkerOf[h]]) + 1)
  BY <1>8, <1>11, <1>12, Zenon
<1>15. Handed(h)
  BY <1>2, <1>4, <1>5, <1>12, <1>13, <1>14, Zenon DEF Handed
<1> QED
  BY <1>1, <1>15, Zenon

(* Complete keeps the invariant. *)
LEMMA CompleteKeeps ==
    ASSUME ServerConstants, IInv, Complete
    PROVE  IInv'
<1>1. PICK h : Handed(h)
  BY CompleteFacts, Zenon
<1>2. completing \in Seq(Conns) /\ Len(completing) \in Nat /\ DOMAIN completing = 1..Len(completing)
  BY Types DEF IInv
<1>3. h \in Conns /\ 1 \in DOMAIN completing /\ completing[1] = h /\ pending[h] # Idle /\ ~InInbox(h) /\ InBatch(h)
  <2>1. h \in Conns /\ 1 \in DOMAIN completing /\ completing[1] = h
    BY <1>1, Zenon DEF Handed
  <2> QED
    BY <2>1, Zenon DEF IInv, BatchPlaced, InBatch
<1>4. ASSUME NEW d, InInbox(d)' PROVE InInbox(d) \/ d = h
  <2> PICK w \in Workers : \E i \in DOMAIN inbox'[w] : inbox'[w][i].conn = d
    BY <1>4, Zenon DEF InInbox
  <2>1. PICK i \in DOMAIN inbox'[w] : inbox'[w][i].conn = d
    OBVIOUS
  <2>2. CASE i \in DOMAIN inbox[w]
    <3>1. inbox'[w][i] = inbox[w][i]
      BY <1>1, <2>2, Zenon DEF Handed
    <3> QED
      BY <2>1, <2>2, <3>1, Zenon DEF InInbox
  <2>3. CASE inbox'[w][i].conn = h
    BY <2>1, <2>3
  <2> QED
    BY <1>1, <2>2, <2>3, Zenon DEF Handed
<1>5. ASSUME NEW d, InBatch(d)' PROVE InBatch(d) /\ d # h
  <2>1. PICK i \in DOMAIN completing' : completing'[i] = d
    BY <1>5, Zenon DEF InBatch
  <2>2. i + 1 \in DOMAIN completing /\ completing[i + 1] = d
    BY <1>1, <2>1, Zenon DEF Handed
  <2>3. i \in Nat \ {0}
    BY <1>1, <1>2 DEF Handed
  <2>4. i + 1 # 1
    BY <2>3
  <2> QED
    BY <1>3, <2>2, <2>4, Zenon DEF IInv, BatchPlaced, InBatch
<1>6. ASSUME NEW d, Reported(d)' PROVE Reported(d)
  <2>1. CASE ~error' /\ InBatch(d)'
    BY <1>1, <1>5, <2>1, Zenon DEF Reported, Handed
  <2>2. CASE \E w \in Workers : \E i \in DOMAIN inbox'[w] : inbox'[w][i].conn = d /\ ~inbox'[w][i].error
    <3> PICK w \in Workers : \E i \in DOMAIN inbox'[w] : inbox'[w][i].conn = d /\ ~inbox'[w][i].error
      BY <2>2
    <3>1. PICK i \in DOMAIN inbox'[w] : inbox'[w][i].conn = d /\ ~inbox'[w][i].error
      OBVIOUS
    <3>2. CASE i \in DOMAIN inbox[w]
      <4>1. inbox'[w][i] = inbox[w][i]
        BY <1>1, <3>2, Zenon DEF Handed
      <4> QED
        BY <3>1, <3>2, <4>1, Zenon DEF Reported
    <3>3. CASE inbox'[w][i].conn = h /\ inbox'[w][i].error = error
      BY <1>3, <3>1, <3>3, Zenon DEF Reported
    <3> QED
      BY <1>1, <3>2, <3>3, Zenon DEF Handed
  <2> QED
    BY <1>6, <2>1, <2>2, Zenon DEF Reported
<1>7. QueuePlaced'
  <2>1. ASSUME NEW i \in DOMAIN submissions, NEW d, d = submissions[i] PROVE pending[d] # Idle /\ ~InBatch(d)' /\ ~InInbox(d)'
    <3>1. pending[d] # Idle /\ ~InBatch(d) /\ ~InInbox(d)
      BY <2>1, Zenon DEF IInv, QueuePlaced
    <3> QED
      BY <1>3, <1>4, <1>5, <3>1, Zenon
  <2>2. \A i, j \in DOMAIN submissions : submissions[i] = submissions[j] => i = j
    BY Zenon DEF IInv, QueuePlaced
  <2>3. submissions' = submissions /\ pending' = pending
    BY <1>1, Zenon DEF Handed
  <2> QED
    BY <2>1, <2>2, <2>3, Zenon DEF QueuePlaced, InBatch, InInbox
<1>8. BatchPlaced'
  <2>1. ASSUME NEW i \in DOMAIN completing', NEW d, d = completing'[i] PROVE pending'[d] # Idle /\ ~InInbox(d)'
    <3>1. InBatch(d)' /\ i + 1 \in DOMAIN completing /\ completing[i + 1] = d
      BY <1>1, <2>1, Zenon DEF InBatch, Handed
    <3>2. d # h
      BY <1>5, <3>1, Zenon
    <3>3. pending[d] # Idle /\ ~InInbox(d)
      BY <3>1, Zenon DEF IInv, BatchPlaced
    <3>4. pending'[d] # Idle
      BY <1>1, <3>3, Zenon DEF Handed
    <3> QED
      BY <1>4, <3>2, <3>3, <3>4, Zenon
  <2>2. ASSUME NEW i \in DOMAIN completing', NEW j \in DOMAIN completing', completing'[i] = completing'[j] PROVE i = j
    <3>1. /\ i + 1 \in DOMAIN completing /\ completing'[i] = completing[i + 1]
          /\ j + 1 \in DOMAIN completing /\ completing'[j] = completing[j + 1]
      BY <1>1, Zenon DEF Handed
    <3>2. i + 1 = j + 1
      BY <2>2, <3>1, Zenon DEF IInv, BatchPlaced
    <3>3. i \in Nat /\ j \in Nat
      BY <1>1, <1>2 DEF Handed
    <3> QED
      BY <3>2, <3>3
  <2> QED
    BY <2>1, <2>2, Zenon DEF BatchPlaced, InInbox
<1>9. InboxPlaced'
  <2>1. ASSUME NEW w \in Workers, NEW i \in DOMAIN inbox'[w]
        PROVE  pending'[inbox'[w][i].conn] # Idle /\ WorkerOf[inbox'[w][i].conn] = w
    <3>1. pending' = pending
      BY <1>1, Zenon DEF Handed
    <3>2. CASE i \in DOMAIN inbox[w]
      <4>1. inbox'[w][i] = inbox[w][i]
        BY <1>1, <3>2, Zenon DEF Handed
      <4>2. pending[inbox[w][i].conn] # Idle /\ WorkerOf[inbox[w][i].conn] = w
        BY <3>2, Zenon DEF IInv, InboxPlaced
      <4> QED
        BY <3>1, <4>1, <4>2
    <3>3. CASE w = WorkerOf[h] /\ inbox'[w][i].conn = h
      BY <1>3, <3>1, <3>3, Zenon
    <3> QED
      BY <1>1, <3>2, <3>3, Zenon DEF Handed
  <2>2. ASSUME NEW w \in Workers, NEW i \in DOMAIN inbox'[w], NEW j \in DOMAIN inbox'[w],
               inbox'[w][i].conn = inbox'[w][j].conn
        PROVE  i = j
    <3>1. \A l \in DOMAIN inbox[w] : inbox'[w][l] = inbox[w][l] /\ inbox[w][l].conn # h
      BY <1>1, <1>3, Zenon DEF Handed, InInbox
    <3>2. \A l \in DOMAIN inbox'[w] :
             \/ l \in DOMAIN inbox[w]
             \/ l = Len(inbox[w]) + 1 /\ inbox'[w][l].conn = h
      BY <1>1, Zenon DEF Handed
    <3>3. \A l, m \in DOMAIN inbox[w] : inbox[w][l].conn = inbox[w][m].conn => l = m
      BY Zenon DEF IInv, InboxPlaced
    <3> QED
      BY <2>2, <3>1, <3>2, <3>3
  <2> QED
    BY <2>1, <2>2, Zenon DEF InboxPlaced
<1>10. Owned' /\ Counted' /\ Visible' /\ (unhealthy' => stop')
  BY <1>1, ZenonT(40) DEF IInv, Owned, Counted, Visible, Handed
<1>11. ServerTypeOK'
  BY <1>1 DEF IInv, ServerTypeOK, Handed
<1>12. Logged'
  BY <1>1, <1>6, Zenon DEF IInv, Logged, Handed
<1>13. Kept'
  <2> SUFFICES ASSUME NEW k \in Keys, NEW d \in Conns, Writers[k] = {d} PROVE KeyKept(k, d)'
    BY Zenon DEF Kept
  <2>1. KeyKept(k, d)
    BY Zenon DEF IInv, Kept
  <2> QED
    BY <1>1, <1>6, <2>1, Zenon DEF KeyKept, Handed
<1> QED
  BY <1>7, <1>8, <1>9, <1>10, <1>11, <1>12, <1>13, Zenon DEF IInv

(* What ApplyOne changes: the first completion of w, e, leaves the inbox   *)
(* and its connection is idle again; if it was durable, its record is      *)
(* applied and perhaps acknowledged, or the process is unhealthy.          *)
Applied(w, e) ==
    /\ up /\ 1 \in DOMAIN inbox[w] /\ inbox[w][1] = e /\ e.conn \in Conns /\ e.error \in BOOLEAN
    /\ inbox' \in [Workers -> Seq(Report)] /\ DOMAIN inbox'[w] = 1..(Len(inbox[w]) - 1)
    /\ \A v \in Workers : v # w => inbox'[v] = inbox[v]
    /\ \A i \in DOMAIN inbox'[w] : i + 1 \in DOMAIN inbox[w] /\ inbox'[w][i] = inbox[w][i + 1]
    /\ pending[e.conn] \in Mutation
    /\ pending' \in [Conns -> Mutation \cup {Idle}] /\ pending'[e.conn] = Idle
    /\ \A c \in Conns : c # e.conn => pending'[c] = pending[c]
    /\ table' \in [Keys -> Vals \cup {Absent}] /\ allowed' \in [Keys -> SUBSET (Vals \cup {Absent})]
    /\ \A k \in Keys : k # pending[e.conn].key \/ e.error => table'[k] = table[k] /\ allowed'[k] = allowed[k]
    /\ ~e.error =>
          LET k == pending[e.conn].key
              v == pending[e.conn].val
          IN \/ /\ table'[k] = v /\ (allowed'[k] = allowed[k] \/ allowed'[k] = {v})
                /\ unhealthy' = unhealthy
             \/ /\ table'[k] = table[k] /\ allowed'[k] = allowed[k] /\ unhealthy'
    /\ stop' \in BOOLEAN /\ unhealthy' \in BOOLEAN /\ (unhealthy' => stop') /\ (unhealthy => unhealthy')
    /\ up' = up /\ records' = records /\ submissions' = submissions /\ completing' = completing /\ error' = error /\ failed' = failed
    /\ draining' = draining /\ ops' = ops /\ kills' = kills

(* ApplyOne does that to the head of the inbox. *)
LEMMA ApplyFacts ==
    ASSUME ServerConstants, IInv, NEW w \in Workers, ApplyOne(w)
    PROVE  Applied(w, Head(inbox[w]))
<1>1. PICK e : e = Head(inbox[w])
  OBVIOUS
<1>2. PICK r : r = pending[e.conn]
  BY SMTT(30)
<1>3. /\ up /\ inbox[w] # <<>>
      /\ \/ /\ ~e.error
            /\ \E applies \in BOOLEAN, replies \in {w \notin draining, FALSE} :
               /\ table' = IF applies THEN Apply(table, r) ELSE table
               /\ HealthAfter(applies)
               /\ allowed' = IF applies /\ replies THEN [allowed EXCEPT ![r.key] = {r.val}] ELSE allowed
         \/ /\ e.error /\ table' = table /\ stop' = stop /\ unhealthy' = unhealthy /\ allowed' = allowed
      /\ pending' = [pending EXCEPT ![e.conn] = Idle]
      /\ inbox' = [inbox EXCEPT ![w] = Tail(inbox[w])]
      /\ up' = up /\ records' = records /\ submissions' = submissions /\ completing' = completing /\ error' = error /\ failed' = failed
      /\ draining' = draining /\ ops' = ops /\ kills' = kills
  BY <1>1, <1>2, Zenon DEF ApplyOne, WasDurable
<1>4. /\ inbox \in [Workers -> Seq(Report)] /\ pending \in [Conns -> Mutation \cup {Idle}]
      /\ table \in [Keys -> Vals \cup {Absent}] /\ allowed \in [Keys -> SUBSET (Vals \cup {Absent})]
      /\ stop \in BOOLEAN /\ unhealthy \in BOOLEAN
  BY Types DEF IInv
<1>5. 1 \in DOMAIN inbox[w] /\ inbox[w][1] = e
  BY <1>1, <1>3, <1>4
<1>6. e.conn \in Conns /\ e.error \in BOOLEAN /\ pending[e.conn] # Idle
  <2>1. inbox[w][1].conn \in Conns /\ inbox[w][1].error \in BOOLEAN
    BY <1>5, InboxFacts, Zenon DEF IInv
  <2>2. pending[inbox[w][1].conn] # Idle
    BY <1>5, Zenon DEF IInv, InboxPlaced
  <2> QED
    BY <1>5, <2>1, <2>2
<1>7. /\ inbox' \in [Workers -> Seq(Report)] /\ DOMAIN inbox'[w] = 1..(Len(inbox[w]) - 1)
      /\ \A v \in Workers : v # w => inbox'[v] = inbox[v]
      /\ \A i \in DOMAIN inbox'[w] : i + 1 \in DOMAIN inbox[w] /\ inbox'[w][i] = inbox[w][i + 1]
  <2>1. PICK s : s = inbox[w]
    OBVIOUS
  <2>2. s \in Seq(Report) /\ s # <<>>
    BY <1>3, <1>4, <2>1
  <2>3. PICK t : t = Tail(s)
    BY Zenon
  <2>4. /\ t \in Seq(Report) /\ DOMAIN t = 1..(Len(s) - 1)
        /\ \A i \in DOMAIN t : i + 1 \in DOMAIN s /\ t[i] = s[i + 1]
    BY <2>2, <2>3
  <2>5. inbox' \in [Workers -> Seq(Report)] /\ inbox'[w] = t /\ \A v \in Workers : v # w => inbox'[v] = inbox[v]
    BY <1>3, <1>4, <2>1, <2>3, <2>4
  <2> QED
    BY <2>1, <2>4, <2>5, Zenon
<1>8. /\ pending' \in [Conns -> Mutation \cup {Idle}] /\ pending'[e.conn] = Idle
      /\ \A c \in Conns : c # e.conn => pending'[c] = pending[c]
  BY <1>3, <1>4, <1>6
<1>9. r \in Mutation /\ r.key \in Keys /\ r.val \in Vals \cup {Absent}
  BY <1>2, <1>4, <1>6, RecordFacts
<1>10. unhealthy => stop
  BY Zenon DEF IInv
<1> DEFINE Outcome ==
      /\ table' \in [Keys -> Vals \cup {Absent}] /\ allowed' \in [Keys -> SUBSET (Vals \cup {Absent})]
      /\ \A k \in Keys : k # r.key \/ e.error => table'[k] = table[k] /\ allowed'[k] = allowed[k]
      /\ ~e.error =>
            \/ /\ table'[r.key] = r.val /\ (allowed'[r.key] = allowed[r.key] \/ allowed'[r.key] = {r.val})
               /\ unhealthy' = unhealthy
            \/ /\ table'[r.key] = table[r.key] /\ allowed'[r.key] = allowed[r.key] /\ unhealthy'
      /\ stop' \in BOOLEAN /\ unhealthy' \in BOOLEAN /\ (unhealthy' => stop') /\ (unhealthy => unhealthy')
<1>11. Outcome
  <2>1. CASE e.error /\ table' = table /\ stop' = stop /\ unhealthy' = unhealthy /\ allowed' = allowed
    BY <1>4, <1>10, <2>1
  <2>2. CASE /\ ~e.error
             /\ \E applies \in BOOLEAN, replies \in {w \notin draining, FALSE} :
                /\ table' = IF applies THEN Apply(table, r) ELSE table
                /\ HealthAfter(applies)
                /\ allowed' = IF applies /\ replies THEN [allowed EXCEPT ![r.key] = {r.val}] ELSE allowed
    <3>1. PICK applies \in BOOLEAN, replies \in {w \notin draining, FALSE} :
                /\ table' = IF applies THEN Apply(table, r) ELSE table
                /\ HealthAfter(applies)
                /\ allowed' = IF applies /\ replies THEN [allowed EXCEPT ![r.key] = {r.val}] ELSE allowed
      BY <2>2, Zenon
    <3>2. allowed' = allowed \/ allowed' = [allowed EXCEPT ![r.key] = {r.val}]
      BY <3>1, Zenon
    <3>3. CASE applies
      <4>1. /\ table' = [table EXCEPT ![r.key] = r.val] /\ stop' = stop /\ unhealthy' = unhealthy
        BY <3>1, <3>3 DEF Apply, HealthAfter
      <4> QED
        BY <1>4, <1>9, <1>10, <2>2, <3>2, <4>1
    <3>4. CASE ~applies
      <4>1. table' = table /\ allowed' = allowed /\ stop' = TRUE /\ unhealthy' = TRUE
        BY <3>1, <3>4, Zenon DEF HealthAfter
      <4> QED
        BY <1>4, <2>2, <4>1, Zenon
    <3> QED
      BY <3>3, <3>4, Zenon
  <2> QED
    BY <1>3, <2>1, <2>2, Zenon
<1>12. Applied(w, e)
  BY <1>2, <1>3, <1>5, <1>6, <1>7, <1>8, <1>9, <1>11, Zenon DEF Applied
<1> QED
  BY <1>1, <1>12, Zenon

(* Place i of v's inbox held another connection's completion before. *)
Remains(v, i, w, e) ==
    \E j \in DOMAIN inbox[v] :
        /\ inbox'[v][i] = inbox[v][j] /\ inbox[v][j].conn # e.conn
        /\ j = IF v = w THEN i + 1 ELSE i

(* The completions ApplyOne leaves are of other connections. *)
LEMMA ApplyLeaves ==
    ASSUME ServerConstants, IInv, NEW w \in Workers, NEW e, Applied(w, e), NEW v \in Workers,
           NEW i \in DOMAIN inbox'[v]
    PROVE  Remains(v, i, w, e)
<1>1. WorkerOf[inbox[w][1].conn] = w /\ inbox[w][1] = e /\ 1 \in DOMAIN inbox[w]
  BY Zenon DEF Applied, IInv, InboxPlaced
<1>2. CASE v # w
  <2>1. inbox'[v] = inbox[v]
    BY <1>2, Zenon DEF Applied
  <2>2. i \in DOMAIN inbox[v] /\ inbox'[v][i] = inbox[v][i] /\ WorkerOf[inbox[v][i].conn] = v
    BY <2>1, Zenon DEF IInv, InboxPlaced
  <2>3. inbox[v][i].conn # e.conn
    BY <1>1, <1>2, <2>2
  <2> QED
    BY <1>2, <2>2, <2>3, Zenon DEF Remains
<1>3. CASE v = w
  <2>1. i + 1 \in DOMAIN inbox[w] /\ inbox'[w][i] = inbox[w][i + 1] /\ DOMAIN inbox'[w] = 1..(Len(inbox[w]) - 1)
    BY <1>3, Zenon DEF Applied
  <2>2. Len(inbox[w]) \in Nat
    BY InboxFacts, Zenon DEF IInv
  <2>3. i + 1 # 1
    BY <1>3, <2>1, <2>2
  <2>4. inbox[w][i + 1].conn # inbox[w][1].conn
    BY <1>1, <2>1, <2>3, Zenon DEF IInv, InboxPlaced
  <2> QED
    BY <1>1, <1>3, <2>1, <2>4, Zenon DEF Remains
<1> QED
  BY <1>2, <1>3, Zenon

(* ApplyOne keeps the invariant. *)
LEMMA ApplyOneKeeps ==
    ASSUME ServerConstants, IInv, NEW w \in Workers, ApplyOne(w)
    PROVE  IInv'
<1>1. PICK e : Applied(w, e)
  BY ApplyFacts, Zenon
<1>2. PICK c : c = e.conn
  OBVIOUS
<1>3. PICK r : r = pending[c]
  OBVIOUS
<1>4. c \in Conns /\ r \in Mutation /\ r # Idle /\ InInbox(c) /\ r.key \in Keys /\ (~e.error => Reported(c))
  <2>1. c \in Conns /\ r \in Mutation /\ 1 \in DOMAIN inbox[w] /\ inbox[w][1] = e
    BY <1>1, <1>2, <1>3, Zenon DEF Applied
  <2>2. r # Idle /\ r.key \in Keys
    BY <2>1, RecordFacts DEF ServerConstants
  <2> QED
    BY <1>2, <2>1, <2>2, Zenon DEF InInbox, Reported
<1>5. /\ \A d \in Conns : d # c => pending'[d] = pending[d]
      /\ pending'[c] = Idle /\ records' = records /\ submissions' = submissions /\ completing' = completing /\ error' = error
  BY <1>1, <1>2, Zenon DEF Applied
<1>6. ASSUME NEW v \in Workers, NEW i \in DOMAIN inbox'[v]
      PROVE  \E j \in DOMAIN inbox[v] :
                inbox'[v][i] = inbox[v][j] /\ inbox[v][j].conn # c /\ j = IF v = w THEN i + 1 ELSE i
  <2>1. Remains(v, i, w, e)
    BY <1>1, ApplyLeaves, Zenon
  <2> QED
    BY <1>2, <2>1 DEF Remains
<1>7. ASSUME NEW d, InInbox(d)' PROVE InInbox(d) /\ d # c
  <2>1. PICK v \in Workers : \E i \in DOMAIN inbox'[v] : inbox'[v][i].conn = d
    BY <1>7, Zenon DEF InInbox
  <2>2. PICK i \in DOMAIN inbox'[v] : inbox'[v][i].conn = d
    BY <2>1
  <2>3. PICK j \in DOMAIN inbox[v] : inbox'[v][i] = inbox[v][j] /\ inbox[v][j].conn # c
    BY <1>6, Zenon
  <2> QED
    BY <2>2, <2>3, Zenon DEF InInbox
<1>8. ASSUME NEW d, InBatch(d)' PROVE InBatch(d) /\ d # c
  <2>1. PICK i \in DOMAIN completing : completing[i] = d
    BY <1>5, <1>8, Zenon DEF InBatch
  <2> QED
    BY <1>4, <2>1, Zenon DEF IInv, BatchPlaced, InBatch
<1>9. ASSUME NEW d, Reported(d)' PROVE Reported(d) /\ d # c
  <2>1. CASE ~error' /\ InBatch(d)'
    BY <1>5, <1>8, <2>1, Zenon DEF Reported
  <2>2. CASE \E v \in Workers : \E i \in DOMAIN inbox'[v] : inbox'[v][i].conn = d /\ ~inbox'[v][i].error
    <3>1. PICK v \in Workers : \E i \in DOMAIN inbox'[v] : inbox'[v][i].conn = d /\ ~inbox'[v][i].error
      BY <2>2
    <3>2. PICK i \in DOMAIN inbox'[v] : inbox'[v][i].conn = d /\ ~inbox'[v][i].error
      BY <3>1
    <3>3. PICK j \in DOMAIN inbox[v] : inbox'[v][i] = inbox[v][j] /\ inbox[v][j].conn # c
      BY <1>6, Zenon
    <3> QED
      BY <3>2, <3>3, Zenon DEF Reported
  <2> QED
    BY <1>9, <2>1, <2>2, Zenon DEF Reported
<1>10. QueuePlaced'
  <2>1. ASSUME NEW i \in DOMAIN submissions, NEW d, d = submissions[i] PROVE pending'[d] # Idle /\ ~InBatch(d)' /\ ~InInbox(d)'
    <3>1. pending[d] # Idle /\ ~InBatch(d) /\ ~InInbox(d) /\ d # c
      BY <1>4, <2>1, Zenon DEF IInv, QueuePlaced
    <3>2. d \in Conns
      BY <2>1, Types DEF IInv
    <3>3. pending'[d] # Idle
      BY <1>5, <3>1, <3>2, Zenon
    <3> QED
      BY <1>7, <1>8, <3>1, <3>3, Zenon
  <2>2. \A i, j \in DOMAIN submissions : submissions[i] = submissions[j] => i = j
    BY Zenon DEF IInv, QueuePlaced
  <2>3. submissions' = submissions
    BY <1>5
  <2> QED
    BY <2>1, <2>2, <2>3, Zenon DEF QueuePlaced, InBatch, InInbox
<1>11. BatchPlaced'
  <2>1. ASSUME NEW i \in DOMAIN completing, NEW d, d = completing[i] PROVE pending'[d] # Idle /\ ~InInbox(d)'
    <3>1. pending[d] # Idle /\ ~InInbox(d) /\ d # c
      BY <1>4, <2>1, Zenon DEF IInv, BatchPlaced
    <3>2. d \in Conns
      BY <2>1, Types DEF IInv
    <3>3. pending'[d] # Idle
      BY <1>5, <3>1, <3>2, Zenon
    <3> QED
      BY <1>7, <3>1, <3>3, Zenon
  <2>2. \A i, j \in DOMAIN completing : completing[i] = completing[j] => i = j
    BY Zenon DEF IInv, BatchPlaced
  <2>3. completing' = completing
    BY <1>5
  <2> QED
    BY <2>1, <2>2, <2>3, Zenon DEF BatchPlaced, InInbox
<1>12. InboxPlaced'
  <2>1. ASSUME NEW v \in Workers, NEW i \in DOMAIN inbox'[v]
        PROVE  pending'[inbox'[v][i].conn] # Idle /\ WorkerOf[inbox'[v][i].conn] = v
    <3>1. PICK j \in DOMAIN inbox[v] : inbox'[v][i] = inbox[v][j] /\ inbox[v][j].conn # c
      BY <1>6, Zenon
    <3>2. pending[inbox[v][j].conn] # Idle /\ WorkerOf[inbox[v][j].conn] = v
      BY Zenon DEF IInv, InboxPlaced
    <3>3. inbox[v][j].conn \in Conns
      BY InboxFacts, Zenon DEF IInv
    <3>4. pending'[inbox[v][j].conn] # Idle
      BY <1>5, <3>1, <3>2, <3>3, Zenon
    <3> QED
      BY <3>1, <3>2, <3>4
  <2>2. ASSUME NEW v \in Workers, NEW i \in DOMAIN inbox'[v], NEW j \in DOMAIN inbox'[v],
               inbox'[v][i].conn = inbox'[v][j].conn
        PROVE  i = j
    <3>1. PICK a \in DOMAIN inbox[v] : inbox'[v][i] = inbox[v][a] /\ a = IF v = w THEN i + 1 ELSE i
      BY <1>6, Zenon
    <3>2. PICK b \in DOMAIN inbox[v] : inbox'[v][j] = inbox[v][b] /\ b = IF v = w THEN j + 1 ELSE j
      BY <1>6, Zenon
    <3>3. inbox[v][a].conn = inbox[v][b].conn
      BY <2>2, <3>1, <3>2
    <3>4. a = b
      BY <3>3, Zenon DEF IInv, InboxPlaced
    <3>5. CASE v # w
      BY <3>1, <3>2, <3>4, <3>5, Zenon
    <3>6. CASE v = w
      <4>1. Len(inbox[w]) \in Nat /\ DOMAIN inbox'[w] = 1..(Len(inbox[w]) - 1)
        BY <1>1, InboxFacts, Zenon DEF IInv, Applied
      <4> QED
        BY <3>1, <3>2, <3>4, <3>6, <4>1
    <3> QED
      BY <3>5, <3>6, Zenon
  <2> QED
    BY <2>1, <2>2, Zenon DEF InboxPlaced
<1>13. Owned'
  BY <1>5, Zenon DEF IInv, Owned
<1>14. Counted' /\ (unhealthy' => stop')
  BY <1>1, ZenonT(40) DEF IInv, Counted, Applied
<1>15. ServerTypeOK'
  BY <1>1 DEF IInv, ServerTypeOK, Applied
<1>16. Logged'
  <2> SUFFICES ASSUME NEW d \in Conns, Reported(d)' PROVE \E n \in DOMAIN records : records[n] = pending'[d]
    BY <1>5, Zenon DEF Logged
  <2>1. Reported(d) /\ d # c
    BY <1>9, Zenon
  <2> QED
    BY <1>5, <2>1, Zenon DEF IInv, Logged
<1>17. /\ \A k \in Keys : k # r.key \/ e.error => table'[k] = table[k] /\ allowed'[k] = allowed[k]
       /\ ~e.error =>
             \/ table'[r.key] = r.val /\ (allowed'[r.key] = allowed[r.key] \/ allowed'[r.key] = {r.val})
             \/ table'[r.key] = table[r.key] /\ allowed'[r.key] = allowed[r.key]
  BY <1>1, <1>2, <1>3, Zenon DEF Applied
<1>18. Visible'
  <2> SUFFICES ASSUME NEW k \in Keys PROVE \E n \in 0..Len(records) : table'[k] = Replay(SubSeq(records, 1, n))[k]
    BY <1>5, Zenon DEF Visible
  <2>1. CASE table'[k] = table[k]
    BY <2>1, Zenon DEF IInv, Visible
  <2>2. CASE k = r.key /\ ~e.error /\ table'[k] = r.val
    <3>1. PICK n \in DOMAIN records : records[n] = r
      BY <1>3, <1>4, <2>2, Zenon DEF IInv, Logged
    <3>2. records \in Seq(Mutation)
      BY Types DEF IInv
    <3>3. n \in 1..Len(records) /\ n \in 0..Len(records)
      BY <3>2
    <3>4. Replay(SubSeq(records, 1, n))[r.key] = r.val
      BY <3>1, <3>2, <3>3, ReplayUpTo, Zenon
    <3> QED
      BY <2>2, <3>3, <3>4, Zenon
  <2> QED
    BY <1>17, <2>1, <2>2, Zenon
<1>19. Kept'
  <2> SUFFICES ASSUME NEW k \in Keys, NEW d \in Conns, Writers[k] = {d} PROVE KeyKept(k, d)'
    BY Zenon DEF Kept
  <2>1. KeyKept(k, d)
    BY Zenon DEF IInv, Kept
  <2>2. r.key = k => c = d
    <3>1. c \in Writers[r.key]
      BY <1>3, <1>4, Zenon DEF IInv, Owned
    <3> QED
      BY <3>1
  <2>3. Reported(d)' => Reported(d) /\ d # c /\ pending'[d] = pending[d]
    BY <1>5, <1>9, Zenon
  <2>4. CASE table'[k] = table[k] /\ allowed'[k] = allowed[k]
    <3>1. pending'[d] # Idle => pending'[d] = pending[d]
      BY <1>5, Zenon
    <3> QED
      BY <1>5, <2>1, <2>3, <2>4, <3>1, Zenon DEF KeyKept
  <2>5. CASE k = r.key /\ ~e.error /\ table'[k] = r.val /\ (allowed'[k] = allowed[k] \/ allowed'[k] = {r.val})
    <3>1. d = c /\ Reported(c) /\ pending[c] = r
      BY <1>3, <1>4, <2>2, <2>5
    <3>2. Replay(records)[k] = r.val /\ r.val \in allowed[k]
      BY <1>4, <2>1, <2>5, <3>1, ZenonT(40) DEF KeyKept
    <3>3. r.val \in allowed'[k]
      BY <2>5, <3>2
    <3>4. pending'[d] = Idle /\ ~Reported(d)' /\ records' = records
      BY <1>5, <1>9, <3>1, Zenon
    <3> QED
      BY <2>5, <3>2, <3>3, <3>4, ZenonT(40) DEF KeyKept
  <2> QED
    BY <1>17, <2>4, <2>5, Zenon
<1> QED
  BY <1>10, <1>11, <1>12, <1>13, <1>14, <1>15, <1>16, <1>18, <1>19, Zenon DEF IInv

-----------------------------------------------------------------------------
(* The steps of the process *)

(* A step that leaves the pipeline, the log and memory alone keeps the     *)
(* invariant: Stop, BeginDraining, Exit and a Crash between two writes.    *)
LEMMA QuietKeeps ==
    ASSUME ServerConstants, IInv,
           UNCHANGED <<table, records, pending, submissions, completing, error, failed, inbox, allowed, ops>>,
           up' \in BOOLEAN, up' => up, stop' \in BOOLEAN, unhealthy' \in BOOLEAN, unhealthy' => stop',
           draining' \subseteq Workers, kills' \in 0..MaxKills
    PROVE  IInv'
<1>1. /\ table' = table /\ records' = records /\ pending' = pending /\ submissions' = submissions /\ completing' = completing
      /\ error' = error /\ failed' = failed /\ inbox' = inbox /\ allowed' = allowed /\ ops' = ops
  OBVIOUS
<1>2. ServerTypeOK'
  BY <1>1 DEF IInv, ServerTypeOK
<1>3. QueuePlaced'
  BY <1>1, Zenon DEF IInv, QueuePlaced, InBatch, InInbox
<1>4. BatchPlaced'
  BY <1>1, Zenon DEF IInv, BatchPlaced, InInbox
<1>5. InboxPlaced' /\ Owned' /\ Visible'
  <2>1. InboxPlaced'
    BY <1>1, ZenonT(40) DEF IInv, InboxPlaced
  <2>2. Owned' /\ Visible'
    BY <1>1, Zenon DEF IInv, Owned, Visible
  <2> QED
    BY <2>1, <2>2
<1>6. Counted'
  BY <1>1, up' => up DEF IInv, Counted
<1>7. \A c : Reported(c)' <=> Reported(c)
  BY <1>1, SameReports, Zenon
<1>8. Logged'
  BY <1>1, <1>7, Zenon DEF IInv, Logged
<1>9. Kept'
  BY <1>1, <1>7, ZenonT(40) DEF IInv, Kept, KeyKept
<1> QED
  BY <1>2, <1>3, <1>4, <1>5, <1>6, <1>8, <1>9, Zenon DEF IInv

(* Crash keeps the invariant: the records a write left in the file are of  *)
(* mutations not yet reported.                                             *)
LEMMA CrashKeeps ==
    ASSUME ServerConstants, IInv, Crash
    PROVE  IInv'
<1>1. /\ up /\ up' = FALSE /\ table' = table /\ pending' = pending /\ submissions' = submissions /\ completing' = completing
      /\ error' = error /\ failed' = failed /\ inbox' = inbox /\ stop' = stop /\ draining' = draining
      /\ unhealthy' = unhealthy /\ allowed' = allowed /\ ops' = ops
  BY Zenon DEF Crash, memory
<1>2. kills' \in 0..MaxKills
  BY Types DEF Crash, IInv, ServerConstants
<1>3. CASE records' = records
  <2>1. /\ stop' \in BOOLEAN /\ unhealthy' \in BOOLEAN /\ (unhealthy' => stop') /\ draining' \subseteq Workers
        /\ up' \in BOOLEAN /\ (up' => up)
    BY <1>1, Zenon DEF IInv, ServerTypeOK
  <2> QED
    BY <1>1, <1>2, <1>3, <2>1, QuietKeeps
<1>4. CASE /\ completing = <<>>
           /\ \E m \in 1..WalBatchMax : m <= Len(submissions) /\ records' = records \o Records(SubSeq(submissions, 1, m))
  <2>1. PICK m \in 1..WalBatchMax : m <= Len(submissions) /\ records' = records \o Records(SubSeq(submissions, 1, m))
    BY <1>4, SMTT(30)
  <2>2. /\ m \in 0..Len(submissions) /\ Len(records) \in Nat /\ Len(submissions) \in Nat /\ DOMAIN submissions = 1..Len(submissions)
        /\ ops \in Nat /\ ops <= MaxOps /\ m \in Nat
    BY <2>1, Types DEF IInv, ServerConstants
  <2>3. Extends(records', m)
    BY <2>1, <2>2, Appended, Zenon DEF IInv
  <2>4. Grown(records', m)
    BY <2>2, <2>3, FileGrows, Zenon
  <2>5. records' \in Seq(Mutation) /\ Len(records') = Len(records) + m
    BY <2>3, Zenon DEF Extends
  <2>6. Len(records') <= ops /\ Len(records') <= MaxOps
    BY <1>1, <2>1, <2>2, <2>5 DEF IInv, Counted, ServerConstants
  <2>7. Counted'
    BY <1>1, <2>6, Zenon DEF Counted
  <2>8. ServerTypeOK'
    BY <1>1, <1>2, <2>5, <2>6, Zenon DEF IInv, ServerTypeOK
  <2>9. QueuePlaced'
    BY <1>1, Zenon DEF IInv, QueuePlaced, InBatch, InInbox
  <2>10. BatchPlaced'
    BY <1>1, Zenon DEF IInv, BatchPlaced, InInbox
  <2>11. InboxPlaced' /\ Owned' /\ (unhealthy' => stop')
    BY <1>1, ZenonT(40) DEF IInv, InboxPlaced, Owned
  <2>12. Visible'
    BY <1>1, <2>4, Zenon DEF Visible, Grown
  <2>13. \A c : Reported(c)' <=> Reported(c)
    BY <1>1, SameReports, Zenon
  <2>14. Logged'
    <3> SUFFICES ASSUME NEW c \in Conns, Reported(c) PROVE \E n \in DOMAIN records' : records'[n] = pending[c]
      BY <1>1, <2>13, Zenon DEF Logged
    <3>1. PICK n \in DOMAIN records : records[n] = pending[c]
      BY Zenon DEF IInv, Logged
    <3> QED
      BY <2>4, <3>1, Zenon DEF Grown
  <2>15. Kept'
    <3> SUFFICES ASSUME NEW k \in Keys, NEW c \in Conns, Writers[k] = {c} PROVE KeyKept(k, c)'
      BY Zenon DEF Kept
    <3>1. KeyKept(k, c)
      BY Zenon DEF IInv, Kept
    <3>2. ASSUME NEW i \in 1..m, pending[submissions[i]].key = k
          PROVE  submissions[i] = c /\ pending[c] # Idle /\ ~Reported(c)
      <4>1. submissions[i] \in Writers[pending[submissions[i]].key]
        BY <2>2, Taken, Zenon DEF IInv
      <4>2. submissions[i] = c
        BY <3>2, <4>1
      <4>3. i \in DOMAIN submissions
        BY <2>2
      <4>4. pending[submissions[i]] # Idle /\ ~InBatch(submissions[i]) /\ ~InInbox(submissions[i])
        BY <4>3, Zenon DEF IInv, QueuePlaced
      <4> QED
        BY <4>2, <4>4, Zenon DEF Reported, InInbox
    <3>3. CASE \E i \in 1..m : pending[submissions[i]].key = k
      <4>1. PICK i \in 1..m : pending[submissions[i]].key = k
        BY <3>3
      <4>2. submissions[i] = c /\ pending[c] # Idle /\ ~Reported(c)
        BY <3>2, <4>1, Zenon
      <4>3. ASSUME NEW j \in (i + 1)..m, pending[submissions[j]].key = k PROVE FALSE
        <5>1. j \in 1..m /\ j \in DOMAIN submissions /\ i \in DOMAIN submissions /\ i # j
          BY <2>2
        <5> QED
          BY <3>2, <4>2, <4>3, <5>1, Zenon DEF IInv, QueuePlaced
      <4>4. Replay(records')[k] = pending[c].val
        BY <2>4, <4>1, <4>2, <4>3, ZenonT(40) DEF Grown
      <4> QED
        BY <1>1, <2>13, <3>1, <4>1, <4>2, <4>4, Zenon DEF KeyKept
    <3>4. CASE \A i \in 1..m : pending[submissions[i]].key # k
      <4>1. Replay(records')[k] = Replay(records)[k]
        BY <2>4, <3>4, Zenon DEF Grown
      <4> QED
        BY <1>1, <2>13, <3>1, <4>1, Zenon DEF KeyKept
    <3> QED
      BY <3>3, <3>4, Zenon
  <2> QED
    BY <2>7, <2>8, <2>9, <2>10, <2>11, <2>12, <2>14, <2>15, Zenon DEF IInv
<1> QED
  BY <1>3, <1>4, Zenon DEF Crash

(* Restart keeps the invariant: the table is the whole log, and nothing is *)
(* outstanding.                                                            *)
LEMMA RestartKeeps ==
    ASSUME ServerConstants, IInv, Restart
    PROVE  IInv'
<1>1. /\ table' = Replay(records) /\ pending' = NonePending /\ submissions' = <<>> /\ completing' = <<>>
      /\ error' = FALSE /\ failed' = FALSE /\ inbox' = NoCompletions /\ stop' = FALSE /\ draining' = {}
      /\ unhealthy' = FALSE /\ records' = records /\ allowed' = allowed /\ ops' = ops /\ kills' = kills /\ up' = TRUE
  BY Zenon DEF Restart, Recovered
<1>2. records \in Seq(Mutation) /\ Len(records) \in Nat /\ ops \in Nat
  BY Types DEF IInv
<1>3. /\ DOMAIN submissions' = {} /\ DOMAIN completing' = {} /\ Len(submissions') = 0
      /\ \A w \in Workers : DOMAIN inbox'[w] = {}
      /\ \A c \in Conns : pending'[c] = Idle
  BY <1>1 DEF NoCompletions, NonePending
<1>4. ServerTypeOK'
  <2>1. Replay(records) \in [Keys -> Vals \cup {Absent}]
    BY <1>2, ReplayType, Zenon
  <2>2. /\ pending' \in [Conns -> Mutation \cup {Idle}] /\ inbox' \in [Workers -> Seq(Report)]
        /\ submissions' \in Seq(Conns) /\ completing' \in Seq(Conns)
    BY <1>1 DEF NonePending, NoCompletions
  <2>3. /\ Len(records) <= MaxOps /\ allowed \in [Keys -> SUBSET (Vals \cup {Absent})] /\ ops \in 0..MaxOps
        /\ kills \in 0..MaxKills
    BY Zenon DEF IInv, ServerTypeOK
  <2>4. {up', error', failed', stop', unhealthy'} \subseteq BOOLEAN /\ draining' \subseteq Workers
    BY <1>1, Zenon
  <2> QED
    BY <1>1, <1>2, <2>1, <2>2, <2>3, <2>4, Zenon DEF ServerTypeOK
<1>5. QueuePlaced' /\ BatchPlaced' /\ InboxPlaced' /\ Owned'
  BY <1>3 DEF QueuePlaced, BatchPlaced, InboxPlaced, Owned
<1>6. Counted'
  BY <1>1, <1>2, <1>3 DEF IInv, Counted
<1>7. \A c : ~Reported(c)'
  BY <1>3 DEF Reported, InBatch
<1>8. Logged'
  BY <1>7, Zenon DEF Logged
<1>9. Visible'
  <2>1. Replay(SubSeq(records, 1, Len(records))) = Replay(records) /\ Len(records) \in 0..Len(records)
    BY <1>2, WholeFile, Zenon
  <2> SUFFICES ASSUME NEW k \in Keys PROVE \E n \in 0..Len(records) : Replay(records)[k] = Replay(SubSeq(records, 1, n))[k]
    BY <1>1, Zenon DEF Visible
  <2> QED
    BY <2>1, Zenon
<1>10. Kept'
  <2> SUFFICES ASSUME NEW k \in Keys, NEW c \in Conns, Writers[k] = {c} PROVE KeyKept(k, c)'
    BY Zenon DEF Kept
  <2>1. Replay(records)[k] \in allowed[k]
    BY Zenon DEF IInv, Kept, KeyKept
  <2> QED
    BY <1>1, <1>3, <1>7, <2>1, Zenon DEF KeyKept
<1> QED
  BY <1>1, <1>4, <1>5, <1>6, <1>8, <1>9, <1>10, Zenon DEF IInv

(* Initially the log is empty and nothing is outstanding. *)
LEMMA InitInv ==
    ASSUME ServerConstants, ServerInit
    PROVE  IInv
<1>1. /\ up = TRUE /\ table = Empty /\ records = <<>> /\ pending = NonePending /\ submissions = <<>> /\ completing = <<>>
      /\ error = FALSE /\ failed = FALSE /\ inbox = NoCompletions /\ stop = FALSE /\ draining = {}
      /\ unhealthy = FALSE /\ allowed = [k \in Keys |-> {Absent}] /\ ops = 0 /\ kills = 0
  BY Zenon DEF ServerInit
<1>2. records \in Seq(Mutation) /\ Len(records) = 0
  BY <1>1
<1>3. /\ DOMAIN submissions = {} /\ DOMAIN completing = {} /\ Len(submissions) = 0
      /\ \A w \in Workers : DOMAIN inbox[w] = {}
      /\ \A c \in Conns : pending[c] = Idle
  BY <1>1 DEF NoCompletions, NonePending
<1>4. ServerTypeOK
  <2>1. /\ pending \in [Conns -> Mutation \cup {Idle}] /\ inbox \in [Workers -> Seq(Report)]
        /\ submissions \in Seq(Conns) /\ completing \in Seq(Conns)
    BY <1>1 DEF NonePending, NoCompletions
  <2>2. table \in [Keys -> Vals \cup {Absent}] /\ allowed \in [Keys -> SUBSET (Vals \cup {Absent})]
    BY <1>1 DEF Empty
  <2>3. 0 <= MaxOps /\ 0 \in 0..MaxOps /\ 0 \in 0..MaxKills
    BY DEF ServerConstants
  <2>4. {up, error, failed, stop, unhealthy} \subseteq BOOLEAN /\ draining \subseteq Workers
    BY <1>1, Zenon
  <2> QED
    BY <1>1, <1>2, <2>1, <2>2, <2>3, <2>4, Zenon DEF ServerTypeOK
<1>5. QueuePlaced /\ BatchPlaced /\ InboxPlaced /\ Owned
  BY <1>3 DEF QueuePlaced, BatchPlaced, InboxPlaced, Owned
<1>6. Counted
  BY <1>1, <1>2, <1>3 DEF Counted
<1>7. \A c : ~Reported(c)
  BY <1>3 DEF Reported, InBatch
<1>8. Logged
  BY <1>7, Zenon DEF Logged
<1>9. ASSUME NEW k \in Keys PROVE Replay(records)[k] = Absent /\ table[k] = Absent /\ allowed[k] = {Absent}
  <2>1. \A i \in 1..Len(records) : records[i].key # k
    BY <1>2
  <2>2. Replay(records)[k] = Absent
    BY <1>2, <2>1, ReplayNone, Zenon
  <2> QED
    BY <1>1, <2>2 DEF Empty
<1>10. Visible
  <2>1. SubSeq(records, 1, Len(records)) = records /\ Len(records) \in 0..Len(records)
    BY <1>2, WholeFile, Zenon
  <2> SUFFICES ASSUME NEW k \in Keys PROVE \E n \in 0..Len(records) : table[k] = Replay(SubSeq(records, 1, n))[k]
    BY Zenon DEF Visible
  <2> QED
    BY <1>9, <2>1, Zenon
<1>11. Kept
  BY <1>3, <1>7, <1>9, Zenon DEF Kept, KeyKept
<1> QED
  BY <1>1, <1>4, <1>5, <1>6, <1>8, <1>10, <1>11, Zenon DEF IInv

-----------------------------------------------------------------------------
(* The invariant, and what does not depend on who writes a key *)

(* Every step keeps the invariant. *)
LEMMA NextKeeps ==
    ASSUME ServerConstants, IInv, [ServerNext]_serverVars
    PROVE  IInv'
<1>1. /\ up \in BOOLEAN /\ stop \in BOOLEAN /\ unhealthy \in BOOLEAN /\ (unhealthy => stop)
      /\ draining \subseteq Workers /\ kills \in 0..MaxKills
  BY Zenon DEF IInv, ServerTypeOK
<1>2. ASSUME NEW c \in Conns, NEW r \in Mutation, SubmitMutation(c, r) PROVE IInv'
  BY <1>2, SubmitKeeps, Zenon
<1>3. ASSUME NEW w \in Workers, ApplyOne(w) PROVE IInv'
  BY <1>3, ApplyOneKeeps, Zenon
<1>4. ASSUME NEW w \in Workers, BeginDraining(w) PROVE IInv'
  BY <1>1, <1>4, QuietKeeps DEF BeginDraining
<1>5. CASE StopServer
  BY <1>1, <1>5, QuietKeeps DEF StopServer
<1>6. CASE Exit
  BY <1>1, <1>6, QuietKeeps, Zenon DEF Exit, memory
<1>7. CASE UNCHANGED serverVars
  BY <1>1, <1>7, QuietKeeps DEF serverVars, memory
<1> QED
  BY <1>2, <1>3, <1>4, <1>5, <1>6, <1>7, TakeBatchKeeps, CompleteKeeps, CrashKeeps, RestartKeeps, Zenon DEF ServerNext

(* The server reaches only states of the invariant. *)
LEMMA Invariance ==
    ASSUME ServerConstants
    PROVE  ServerSpec => []IInv
<1>1. ServerInit => IInv
  BY InitInv
<1>2. IInv /\ [ServerNext]_serverVars => IInv'
  BY NextKeeps
<1> QED
  BY <1>1, <1>2, PTL DEF ServerSpec

(* AckedKept: whatever the processes do and wherever they crash, a key one *)
(* client writes reads as the last value reported OK to that client or as  *)
(* a later one whose outcome it was not told.                              *)
THEOREM AckedAreKept ==
    ASSUME ServerConstants
    PROVE  ServerSpec => []AckedKept
<1>1. IInv => AckedKept
  BY Zenon DEF IInv, Kept, KeyKept, AckedKept, Get
<1> QED
  BY <1>1, Invariance, PTL

-----------------------------------------------------------------------------
(* Memory follows the log, for keys with one worker *)

(* Tracking depends only on the log, the table and what is on its way from *)
(* one to the other.                                                       *)
LEMMA SameTracking ==
    ASSUME NEW k \in Keys, Tracking(k), completing' = completing, error' = error, inbox' = inbox, table' = table,
           records' = records, \A i \in DOMAIN completing : pending'[completing[i]] = pending[completing[i]],
           \A w \in Workers : \A i \in DOMAIN inbox[w] : pending'[inbox[w][i].conn] = pending[inbox[w][i].conn]
    PROVE  Tracking(k)'
<1>1. \A i : BatchHas(k, i)' <=> BatchHas(k, i)
  BY Zenon DEF BatchHas
<1>2. \A w \in Workers : \A i : InboxHas(k, w, i)' <=> InboxHas(k, w, i)
  BY Zenon DEF InboxHas
<1>3. BatchTracks(k)'
  <2> SUFFICES ASSUME NEW i, BatchHas(k, i)', \A j : BatchHas(k, j)' => j <= i
               PROVE  Replay(records)[k] = pending'[completing[i]].val
    BY Zenon DEF BatchTracks
  <2>1. BatchHas(k, i) /\ \A j : BatchHas(k, j) => j <= i
    BY <1>1, Zenon
  <2>2. i \in DOMAIN completing
    BY <2>1, Zenon DEF BatchHas
  <2>3. Replay(records)[k] = pending[completing[i]].val
    BY <2>1, Zenon DEF Tracking, BatchTracks
  <2> QED
    BY <2>2, <2>3, Zenon
<1>4. InboxTracks(k)'
  <2> SUFFICES ASSUME \A j : ~BatchHas(k, j)', NEW w \in Workers, NEW i, InboxHas(k, w, i)',
                      \A j : InboxHas(k, w, j)' => j <= i
               PROVE  Replay(records)[k] = pending'[inbox[w][i].conn].val
    BY Zenon DEF InboxTracks
  <2>1. (\A j : ~BatchHas(k, j)) /\ InboxHas(k, w, i) /\ (\A j : InboxHas(k, w, j) => j <= i)
    BY <1>1, <1>2, Zenon
  <2>2. i \in DOMAIN inbox[w]
    BY <2>1, Zenon DEF InboxHas
  <2>3. Replay(records)[k] = pending[inbox[w][i].conn].val
    BY <2>1, Zenon DEF Tracking, InboxTracks
  <2> QED
    BY <2>2, <2>3, Zenon
<1>5. TableTracks(k)'
  BY <1>1, <1>2, Zenon DEF Tracking, TableTracks
<1> QED
  BY <1>3, <1>4, <1>5, Zenon DEF Tracking

(* Submit: the new mutation is only queued. *)
LEMMA SubmitTracks ==
    ASSUME ServerConstants, IInv, NEW k \in Keys, Tracking(k),
           NEW c \in Conns, NEW r \in Mutation, SubmitMutation(c, r)
    PROVE  Tracking(k)'
<1>1. Submitted(c, r)
  BY SubmitFacts, Zenon
<1>2. ~InBatch(c) /\ ~InInbox(c)
  BY <1>1, IdleIsNowhere, Zenon DEF Submitted
<1>3. ASSUME NEW i \in DOMAIN completing PROVE pending'[completing[i]] = pending[completing[i]]
  <2>1. completing[i] \in Conns
    BY Types DEF IInv
  <2>2. completing[i] # c
    BY <1>2, Zenon DEF InBatch
  <2> QED
    BY <1>1, <2>1, <2>2, Zenon DEF Submitted
<1>4. ASSUME NEW w \in Workers, NEW i \in DOMAIN inbox[w]
      PROVE  pending'[inbox[w][i].conn] = pending[inbox[w][i].conn]
  <2>1. inbox[w][i].conn \in Conns
    BY InboxFacts, Zenon DEF IInv
  <2>2. inbox[w][i].conn # c
    BY <1>2, Zenon DEF InInbox
  <2> QED
    BY <1>1, <2>1, <2>2, Zenon DEF Submitted
<1>5. completing' = completing /\ error' = error /\ inbox' = inbox /\ table' = table /\ records' = records
  BY <1>1, Zenon DEF Submitted
<1> QED
  BY <1>3, <1>4, <1>5, SameTracking, Zenon

(* TakeBatch: the last record of k in the batch is the last in the log, or *)
(* there is none and the log's value of k stays.                           *)
LEMMA TakeBatchTracks ==
    ASSUME ServerConstants, IInv, NEW k \in Keys, ~failed => Tracking(k), CommitBatch, ~failed'
    PROVE  Tracking(k)'
<1>1. PICK n \in 1..Len(submissions) : \E m \in 0..n :
              /\ completing' \in Seq(Conns) /\ DOMAIN completing' = 1..n /\ \A i \in 1..n : completing'[i] = submissions[i]
              /\ submissions' \in Seq(Conns) /\ DOMAIN submissions' = 1..(Len(submissions) - n) /\ Len(submissions') = Len(submissions) - n
              /\ \A i \in 1..(Len(submissions) - n) : submissions'[i] = submissions[n + i]
              /\ records' = records \o Records(SubSeq(submissions, 1, m))
              /\ error' \in BOOLEAN /\ failed' \in BOOLEAN
              /\ (~error' => m = n) /\ (~failed' => ~error' /\ ~failed)
  BY TakeBatchFacts, Zenon
<1>2. /\ DOMAIN completing' = 1..n /\ \A i \in 1..n : completing'[i] = submissions[i]
      /\ records' = records \o Records(SubSeq(submissions, 1, n)) /\ ~error' /\ ~failed
  BY <1>1, Zenon
<1>3. completing = <<>> /\ inbox' = inbox /\ table' = table /\ pending' = pending
  BY Zenon DEF CommitBatch
<1>4. n \in 0..Len(submissions) /\ n \in Nat
  BY Types DEF IInv
<1>5. Grown(records', n)
  <2>1. Extends(records', n)
    BY <1>2, <1>4, Appended, Zenon DEF IInv
  <2> QED
    BY <1>4, <2>1, FileGrows, Zenon
<1>6. Tracking(k) /\ \A i : ~BatchHas(k, i)
  BY <1>2, <1>3 DEF BatchHas
<1>7. \A i : BatchHas(k, i)' <=> i \in 1..n /\ pending[submissions[i]].key = k
  BY <1>2, <1>3, Zenon DEF BatchHas
<1>8. \A w \in Workers : \A i : InboxHas(k, w, i)' <=> InboxHas(k, w, i)
  BY <1>3, Zenon DEF InboxHas
<1>9. BatchTracks(k)'
  <2> SUFFICES ASSUME NEW i, BatchHas(k, i)', \A j : BatchHas(k, j)' => j <= i
               PROVE  Replay(records')[k] = pending'[completing'[i]].val
    BY Zenon DEF BatchTracks
  <2>1. i \in 1..n /\ pending[submissions[i]].key = k
    BY <1>7, Zenon
  <2>2. ASSUME NEW j \in (i + 1)..n PROVE pending[submissions[j]].key # k
    <3>1. j \in 1..n /\ ~(j <= i)
      BY <1>4, <2>1
    <3> QED
      BY <1>7, <3>1, Zenon
  <2>3. Replay(records')[k] = pending[submissions[i]].val
    BY <1>5, <2>1, <2>2, ZenonT(40) DEF Grown
  <2> QED
    BY <1>2, <1>3, <2>1, <2>3, Zenon
<1>10. (\A j : ~BatchHas(k, j)') => Replay(records')[k] = Replay(records)[k]
  BY <1>5, <1>7, Zenon DEF Grown
<1>11. InboxTracks(k)'
  <2> SUFFICES ASSUME \A j : ~BatchHas(k, j)', NEW w \in Workers, NEW i, InboxHas(k, w, i)',
                      \A j : InboxHas(k, w, j)' => j <= i
               PROVE  Replay(records')[k] = pending'[inbox'[w][i].conn].val
    BY Zenon DEF InboxTracks
  <2>1. Replay(records)[k] = pending[inbox[w][i].conn].val
    BY <1>6, <1>8, Zenon DEF Tracking, InboxTracks
  <2> QED
    BY <1>3, <1>10, <2>1, Zenon
<1>12. TableTracks(k)'
  BY <1>3, <1>6, <1>8, <1>10, Zenon DEF Tracking, TableTracks
<1> QED
  BY <1>9, <1>11, <1>12, Zenon DEF Tracking

(* The durable mutations of a key that wait for their worker all wait for  *)
(* the one worker of that key.                                             *)
LEMMA OneInbox ==
    ASSUME ServerConstants, OneWorkerPerKey, IInv, NEW k \in Keys, NEW c \in Conns,
           pending[c] # Idle, pending[c].key = k, NEW w \in Workers, NEW i, InboxHas(k, w, i)
    PROVE  w = WorkerOf[c]
<1>1. i \in DOMAIN inbox[w] /\ pending[inbox[w][i].conn].key = k
  BY Zenon DEF InboxHas
<1>2. PICK d : d = inbox[w][i].conn
  OBVIOUS
<1>3. d \in Conns
  BY <1>1, <1>2, InboxFacts, Zenon DEF IInv
<1>4. pending[d] # Idle /\ WorkerOf[d] = w
  BY <1>1, <1>2, Zenon DEF IInv, InboxPlaced
<1>5. c \in Writers[k] /\ d \in Writers[k]
  BY <1>1, <1>2, <1>3, <1>4, Zenon DEF IInv, Owned
<1> QED
  BY <1>4, <1>5, Zenon DEF OneWorkerPerKey

(* Complete: what leaves the batch is the newest in its worker's inbox. *)
LEMMA CompleteTracks ==
    ASSUME ServerConstants, OneWorkerPerKey, IInv, NEW k \in Keys, Tracking(k), Complete
    PROVE  Tracking(k)'
<1>1. PICK h : Handed(h)
  BY CompleteFacts, Zenon
<1>2. /\ h \in Conns /\ 1 \in DOMAIN completing /\ completing[1] = h /\ DOMAIN completing' = 1..(Len(completing) - 1)
      /\ records' = records /\ table' = table /\ pending' = pending /\ error' = error
  BY <1>1, Zenon DEF Handed
<1>3. Len(completing) \in Nat /\ DOMAIN completing = 1..Len(completing)
  BY Types DEF IInv
<1>4. pending[h] # Idle
  BY <1>2, Zenon DEF IInv, BatchPlaced
<1>5. ASSUME NEW i, BatchHas(k, i)' PROVE i \in Nat /\ BatchHas(k, i + 1) /\ completing'[i] = completing[i + 1]
  <2>1. i \in DOMAIN completing' /\ ~error' /\ pending'[completing'[i]].key = k
    BY <1>5, Zenon DEF BatchHas
  <2>2. i + 1 \in DOMAIN completing /\ completing'[i] = completing[i + 1]
    BY <1>1, <2>1, Zenon DEF Handed
  <2>3. i \in Nat
    BY <1>2, <1>3, <2>1
  <2> QED
    BY <1>2, <2>1, <2>2, <2>3, Zenon DEF BatchHas
<1>6. ASSUME NEW i, BatchHas(k, i) PROVE i = 1 \/ (i \in Nat /\ BatchHas(k, i - 1)')
  <2>1. i \in DOMAIN completing /\ ~error /\ pending[completing[i]].key = k
    BY <1>6, Zenon DEF BatchHas
  <2>2. CASE i # 1
    <3>1. i - 1 \in DOMAIN completing' /\ (i - 1) + 1 = i /\ i \in Nat
      BY <1>2, <1>3, <2>1, <2>2
    <3>2. completing'[i - 1] = completing[(i - 1) + 1]
      BY <1>1, <3>1, Zenon DEF Handed
    <3>3. completing'[i - 1] = completing[i]
      BY <3>1, <3>2
    <3> QED
      BY <1>2, <2>1, <3>1, <3>3, ZenonT(40) DEF BatchHas
  <2> QED
    BY <2>2
<1>7. BatchTracks(k)'
  <2> SUFFICES ASSUME NEW i, BatchHas(k, i)', \A j : BatchHas(k, j)' => j <= i
               PROVE  Replay(records')[k] = pending'[completing'[i]].val
    BY Zenon DEF BatchTracks
  <2>1. i \in Nat /\ BatchHas(k, i + 1) /\ completing'[i] = completing[i + 1]
    BY <1>5, Zenon
  <2>2. ASSUME NEW j, BatchHas(k, j) PROVE j <= i + 1
    <3>1. CASE j = 1
      BY <2>1, <3>1
    <3>2. CASE j \in Nat /\ BatchHas(k, j - 1)'
      <4>1. j - 1 <= i
        BY <3>2, Zenon
      <4> QED
        BY <2>1, <3>2, <4>1
    <3> QED
      BY <1>6, <2>2, <3>1, <3>2, Zenon
  <2>3. Replay(records)[k] = pending[completing[i + 1]].val
    BY <2>1, <2>2, Zenon DEF Tracking, BatchTracks
  <2> QED
    BY <1>2, <2>1, <2>3, Zenon
(* The last of the batch to be about k. *)
<1>8. CASE BatchHas(k, 1) /\ \A j : ~BatchHas(k, j)'
  <2>1. ASSUME NEW j, BatchHas(k, j) PROVE j <= 1
    <3>1. j = 1
      BY <1>6, <1>8, <2>1, Zenon
    <3> QED
      BY <3>1
  <2>2. Replay(records)[k] = pending[h].val
    BY <1>2, <1>8, <2>1, ZenonT(40) DEF Tracking, BatchTracks
  <2>3. ~error /\ pending[h].key = k /\ WorkerOf[h] \in Workers
    BY <1>2, <1>8 DEF BatchHas, ServerConstants
  <2>4. PICK l : l = Len(inbox[WorkerOf[h]]) + 1
    OBVIOUS
  <2>5. /\ DOMAIN inbox'[WorkerOf[h]] = 1..l /\ l \in Nat /\ l \in 1..l
        /\ inbox'[WorkerOf[h]][l].conn = h /\ inbox'[WorkerOf[h]][l].error = error
    <3>1. DOMAIN inbox[WorkerOf[h]] = 1..Len(inbox[WorkerOf[h]]) /\ Len(inbox[WorkerOf[h]]) \in Nat
      BY <2>3, InboxFacts, Zenon DEF IInv
    <3>2. DOMAIN inbox'[WorkerOf[h]] = 1..l
      BY <1>1, <2>4, Zenon DEF Handed
    <3>3. l \in Nat /\ l \in 1..l /\ l \notin DOMAIN inbox[WorkerOf[h]]
      BY <2>4, <3>1
    <3> QED
      BY <1>1, <2>3, <3>2, <3>3, ZenonT(40) DEF Handed
  <2>6. InboxHas(k, WorkerOf[h], l)'
    BY <1>2, <2>3, <2>5 DEF InboxHas
  <2>7. InboxTracks(k)'
    <3> SUFFICES ASSUME NEW w \in Workers, NEW i, InboxHas(k, w, i)', \A j : InboxHas(k, w, j)' => j <= i
                 PROVE  Replay(records')[k] = pending'[inbox'[w][i].conn].val
      BY Zenon DEF InboxTracks
    <3>1. i \in DOMAIN inbox'[w] /\ ~inbox'[w][i].error /\ pending'[inbox'[w][i].conn].key = k
      BY Zenon DEF InboxHas
    <3>2. w = WorkerOf[h]
      <4>1. CASE i \in DOMAIN inbox[w]
        <5>1. inbox'[w][i] = inbox[w][i]
          BY <1>1, <4>1, ZenonT(40) DEF Handed
        <5>2. InboxHas(k, w, i)
          BY <1>2, <3>1, <4>1, <5>1, SMTT(30) DEF InboxHas
        <5> QED
          BY <1>2, <1>4, <2>3, <5>2, OneInbox, Zenon
      <4> QED
        BY <1>1, <3>1, <4>1, Zenon DEF Handed
    <3>3. i = l
      <4>1. l <= i
        BY <2>6, <3>2, Zenon
      <4> QED
        BY <2>5, <3>1, <3>2, <4>1
    <3> QED
      BY <1>2, <2>2, <2>5, <3>2, <3>3, Zenon
  <2>8. TableTracks(k)'
    BY <2>3, <2>6, Zenon DEF TableTracks
  <2> QED
    BY <1>7, <2>7, <2>8, Zenon DEF Tracking
<1>9. CASE ~BatchHas(k, 1) /\ \A j : ~BatchHas(k, j)'
  <2>1. \A j : ~BatchHas(k, j)
    BY <1>6, <1>9, Zenon
  <2>2. error \/ pending[h].key # k
    BY <1>2, <1>9, Zenon DEF BatchHas
  <2>3. ASSUME NEW w \in Workers, NEW i
        PROVE  /\ InboxHas(k, w, i)' <=> InboxHas(k, w, i)
               /\ InboxHas(k, w, i) => inbox'[w][i] = inbox[w][i]
    <3>1. CASE i \in DOMAIN inbox[w]
      <4>1. i \in DOMAIN inbox'[w] /\ inbox'[w][i] = inbox[w][i]
        BY <1>1, <3>1, ZenonT(40) DEF Handed
      <4> QED
        BY <1>2, <3>1, <4>1 DEF InboxHas
    <3>2. CASE i \notin DOMAIN inbox[w]
      <4>1. i \in DOMAIN inbox'[w] => inbox'[w][i].conn = h /\ inbox'[w][i].error = error
        BY <1>1, <3>2, ZenonT(40) DEF Handed
      <4> QED
        BY <1>2, <2>2, <3>2, <4>1 DEF InboxHas
    <3> QED
      BY <3>1, <3>2, ZenonT(40)
  <2>4. InboxTracks(k)'
    <3> SUFFICES ASSUME NEW w \in Workers, NEW i, InboxHas(k, w, i)', \A j : InboxHas(k, w, j)' => j <= i
                 PROVE  Replay(records')[k] = pending'[inbox'[w][i].conn].val
      BY Zenon DEF InboxTracks
    <3>1. InboxHas(k, w, i) /\ (\A j : InboxHas(k, w, j) => j <= i) /\ inbox'[w][i] = inbox[w][i]
      BY <2>3, Zenon
    <3>2. Replay(records)[k] = pending[inbox[w][i].conn].val
      BY <2>1, <3>1, Zenon DEF Tracking, InboxTracks
    <3> QED
      BY <1>2, <3>1, <3>2, Zenon
  <2>5. TableTracks(k)'
    BY <1>2, <2>1, <2>3, Zenon DEF Tracking, TableTracks
  <2> QED
    BY <1>7, <2>4, <2>5, Zenon DEF Tracking
<1>10. CASE \E j : BatchHas(k, j)'
  BY <1>7, <1>10, Zenon DEF Tracking, InboxTracks, TableTracks
<1> QED
  BY <1>8, <1>9, <1>10, Zenon

(* ApplyOne: the oldest of an inbox goes to the table. *)
LEMMA ApplyOneTracks ==
    ASSUME ServerConstants, IInv, NEW k \in Keys, Tracking(k),
           NEW w \in Workers, ApplyOne(w), ~unhealthy'
    PROVE  Tracking(k)'
<1>1. PICK e : Applied(w, e)
  BY ApplyFacts, Zenon
<1>2. PICK c : c = e.conn
  OBVIOUS
<1>3. /\ c \in Conns /\ 1 \in DOMAIN inbox[w] /\ inbox[w][1] = e /\ e.error \in BOOLEAN
      /\ completing' = completing /\ error' = error /\ records' = records /\ DOMAIN inbox'[w] = 1..(Len(inbox[w]) - 1)
  BY <1>1, <1>2, Zenon DEF Applied
<1>4. \A d \in Conns : d # c => pending'[d] = pending[d]
  BY <1>1, <1>2, Zenon DEF Applied
<1>5. /\ \A l \in Keys : l # pending[c].key \/ e.error => table'[l] = table[l]
      /\ ~e.error => table'[pending[c].key] = pending[c].val
  BY <1>1, <1>2, Zenon DEF Applied
<1>6. InInbox(c) /\ Len(inbox[w]) \in Nat /\ DOMAIN inbox[w] = 1..Len(inbox[w])
  <2>1. InInbox(c)
    BY <1>2, <1>3, Zenon DEF InInbox
  <2> QED
    BY <2>1, InboxFacts, Zenon DEF IInv
<1>7. \A i \in DOMAIN completing : pending'[completing[i]] = pending[completing[i]]
  <2> SUFFICES ASSUME NEW i \in DOMAIN completing PROVE pending'[completing[i]] = pending[completing[i]]
    OBVIOUS
  <2>1. completing[i] \in Conns
    BY Types DEF IInv
  <2>2. completing[i] # c
    BY <1>6, Zenon DEF IInv, BatchPlaced
  <2> QED
    BY <1>4, <2>1, <2>2, Zenon
<1>8. \A i : BatchHas(k, i)' <=> BatchHas(k, i)
  BY <1>3, <1>7, Zenon DEF BatchHas
<1>9. BatchTracks(k)'
  <2> SUFFICES ASSUME NEW i, BatchHas(k, i)', \A j : BatchHas(k, j)' => j <= i
               PROVE  Replay(records)[k] = pending'[completing[i]].val
    BY <1>3, Zenon DEF BatchTracks
  <2>1. BatchHas(k, i) /\ \A j : BatchHas(k, j) => j <= i
    BY <1>8, Zenon
  <2>2. i \in DOMAIN completing
    BY <2>1, Zenon DEF BatchHas
  <2>3. Replay(records)[k] = pending[completing[i]].val
    BY <2>1, ZenonT(40) DEF Tracking, BatchTracks
  <2> QED
    BY <1>7, <2>2, <2>3, Zenon
(* Where a completion of v's inbox was before. *)
<1> DEFINE Was(v, i) == IF v = w THEN i + 1 ELSE i
<1>10. ASSUME NEW v \in Workers, NEW i, InboxHas(k, v, i)'
       PROVE  /\ InboxHas(k, v, Was(v, i)) /\ i \in Nat
              /\ pending'[inbox'[v][i].conn] = pending[inbox[v][Was(v, i)].conn]
  <2>1. i \in DOMAIN inbox'[v] /\ ~inbox'[v][i].error /\ pending'[inbox'[v][i].conn].key = k
    BY <1>10, Zenon DEF InboxHas
  <2>2. Remains(v, i, w, e)
    BY <1>1, <2>1, ApplyLeaves, Zenon
  <2>3. PICK j \in DOMAIN inbox[v] : inbox'[v][i] = inbox[v][j] /\ inbox[v][j].conn # e.conn /\ j = Was(v, i)
    BY <2>2, Zenon DEF Remains
  <2>4. inbox[v][j].conn \in Conns
    BY InboxFacts, ZenonT(40) DEF IInv
  <2>5. pending'[inbox[v][j].conn] = pending[inbox[v][j].conn]
    BY <1>2, <1>4, <2>3, <2>4, SMTT(30)
  <2>6. InboxHas(k, v, j)
    BY <2>1, <2>3, <2>5 DEF InboxHas
  <2>7. i \in Nat
    <3>1. CASE v = w
      BY <1>3, <1>6, <2>1, <3>1, SMTT(30)
    <3>2. CASE v # w
      <4>1. Len(inbox[v]) \in Nat /\ DOMAIN inbox[v] = 1..Len(inbox[v])
        BY InboxFacts, ZenonT(40) DEF IInv
      <4>2. i = j
        BY <2>3, <3>2, Zenon
      <4>3. i \in 1..Len(inbox[v])
        BY <2>3, <4>1, <4>2, Zenon
      <4> QED
        BY <4>1, <4>3
    <3> QED
      BY <3>1, <3>2, Zenon
  <2> HIDE DEF Was
  <2>8. pending'[inbox'[v][i].conn] = pending[inbox[v][j].conn]
    BY <2>3, <2>5
  <2> QED
    BY <2>3, <2>6, <2>7, <2>8
<1>11. ASSUME NEW v \in Workers, NEW j, InboxHas(k, v, j)
       PROVE  (v = w /\ j = 1) \/ \E i : i \in Nat /\ InboxHas(k, v, i)' /\ j = Was(v, i)
  <2>1. j \in DOMAIN inbox[v] /\ ~inbox[v][j].error /\ pending[inbox[v][j].conn].key = k
    BY <1>11, Zenon DEF InboxHas
  <2>2. /\ Len(inbox[v]) \in Nat /\ DOMAIN inbox[v] = 1..Len(inbox[v]) /\ inbox[v][j].conn \in Conns
    BY <2>1, InboxFacts, Zenon DEF IInv
  <2>3. CASE v # w
    <3>1. inbox'[v] = inbox[v]
      BY <1>1, <2>3, Zenon DEF Applied
    <3>2. WorkerOf[inbox[v][j].conn] = v /\ WorkerOf[inbox[w][1].conn] = w
      BY <1>3, <2>1, ZenonT(40) DEF IInv, InboxPlaced
    <3>3. inbox[v][j].conn # c
      BY <1>2, <1>3, <2>3, <3>2
    <3>4. pending'[inbox[v][j].conn] = pending[inbox[v][j].conn]
      BY <1>4, <2>2, <3>3, ZenonT(40)
    <3>5. InboxHas(k, v, j)' /\ j \in Nat /\ j = Was(v, j)
      BY <2>1, <2>2, <2>3, <3>1, <3>4, SMTT(30) DEF InboxHas
    <3> QED
      BY <3>5
  <2>4. CASE v = w /\ j # 1
    <3>1. j - 1 \in DOMAIN inbox'[w] /\ (j - 1) + 1 = j /\ j - 1 \in Nat
      <4>1. PICK n \in Nat : n = Len(inbox[w]) /\ j \in 1..n /\ DOMAIN inbox'[w] = 1..(n - 1)
        BY <1>3, <2>1, <2>2, <2>4, Zenon
      <4>2. j - 1 \in 1..(n - 1) /\ (j - 1) + 1 = j /\ j - 1 \in Nat
        BY <2>4, <4>1
      <4> QED
        BY <4>1, <4>2, Zenon
    <3>2. inbox'[w][j - 1] = inbox[w][(j - 1) + 1]
      BY <1>1, <3>1, ZenonT(40) DEF Applied
    <3>3. inbox'[w][j - 1] = inbox[w][j]
      BY <3>1, <3>2
    <3>4. inbox[w][j].conn # inbox[w][1].conn
      BY <1>3, <2>1, <2>4, ZenonT(40) DEF IInv, InboxPlaced
    <3>5. pending'[inbox[w][j].conn] = pending[inbox[w][j].conn]
      BY <1>2, <1>3, <1>4, <2>2, <2>4, <3>4, SMTT(30)
    <3>6. InboxHas(k, w, j - 1)'
      BY <2>1, <2>4, <3>1, <3>3, <3>5 DEF InboxHas
    <3> QED
      BY <2>4, <3>1, <3>6, SMTT(30)
  <2> QED
    BY <2>3, <2>4
<1> HIDE DEF Was
<1>12. InboxTracks(k)'
  <2> SUFFICES ASSUME \A j : ~BatchHas(k, j)', NEW v \in Workers, NEW i, InboxHas(k, v, i)',
                      \A j : InboxHas(k, v, j)' => j <= i
               PROVE  Replay(records)[k] = pending'[inbox'[v][i].conn].val
    BY <1>3, Zenon DEF InboxTracks
  <2>1. /\ InboxHas(k, v, Was(v, i)) /\ i \in Nat
        /\ pending'[inbox'[v][i].conn] = pending[inbox[v][Was(v, i)].conn]
    BY <1>10, Zenon
  <2>2. ASSUME NEW j, InboxHas(k, v, j) PROVE j <= Was(v, i)
    <3>1. i \in Nat
      BY <2>1, Zenon
    <3>2. CASE v = w /\ j = 1
      BY <3>1, <3>2 DEF Was
    <3>3. CASE \E l : l \in Nat /\ InboxHas(k, v, l)' /\ j = Was(v, l)
      <4>1. PICK l : l \in Nat /\ InboxHas(k, v, l)' /\ j = Was(v, l)
        BY <3>3, Zenon
      <4>2. l <= i /\ l \in Nat /\ j = Was(v, l)
        BY <4>1, Zenon
      <4> QED
        BY <3>1, <4>2 DEF Was
    <3> QED
      BY <1>11, <2>2, <3>2, <3>3, ZenonT(40)
  <2>3. \A j : ~BatchHas(k, j)
    BY <1>8, Zenon
  <2>4. Replay(records)[k] = pending[inbox[v][Was(v, i)].conn].val
    BY <2>1, <2>2, <2>3, ZenonT(40) DEF Tracking, InboxTracks
  <2> QED
    BY <2>1, <2>4, Zenon
<1>13. TableTracks(k)'
  <2> SUFFICES ASSUME \A j : ~BatchHas(k, j)', \A v \in Workers : \A i : ~InboxHas(k, v, i)'
               PROVE  Replay(records)[k] = table'[k]
    BY <1>3, Zenon DEF TableTracks
  <2>1. \A j : ~BatchHas(k, j)
    BY <1>8, Zenon
  <2>2. ASSUME NEW v \in Workers, NEW j, InboxHas(k, v, j) PROVE v = w /\ j = 1
    BY <1>11, <2>2, ZenonT(40)
  <2>3. CASE InboxHas(k, w, 1)
    <3>1. \A j : InboxHas(k, w, j) => j <= 1
      <4> SUFFICES ASSUME NEW j, InboxHas(k, w, j) PROVE j <= 1
        OBVIOUS
      <4>1. j = 1
        BY <2>2, Zenon
      <4> QED
        BY <4>1
    <3>2. Replay(records)[k] = pending[inbox[w][1].conn].val
      BY <2>1, <2>3, <3>1, Zenon DEF Tracking, InboxTracks
    <3>3. ~e.error /\ pending[c].key = k
      BY <1>2, <1>3, <2>3, Zenon DEF InboxHas
    <3> QED
      BY <1>2, <1>3, <1>5, <3>2, <3>3
  <2>4. CASE ~InboxHas(k, w, 1)
    <3>1. \A v \in Workers : \A j : ~InboxHas(k, v, j)
      BY <2>2, <2>4, Zenon
    <3>2. Replay(records)[k] = table[k]
      BY <2>1, <3>1, Zenon DEF Tracking, TableTracks
    <3>3. k # pending[c].key \/ e.error
      BY <1>2, <1>3, <2>4, Zenon DEF InboxHas
    <3> QED
      BY <1>5, <3>2, <3>3, Zenon
  <2> QED
    BY <2>3, <2>4
<1> QED
  BY <1>9, <1>12, <1>13, Zenon DEF Tracking

(* Restart: memory is the log, and nothing is on its way to it. *)
LEMMA RestartTracks ==
    ASSUME ServerConstants, NEW k \in Keys, Restart
    PROVE  Tracking(k)'
<1>1. table' = Replay(records) /\ completing' = <<>> /\ inbox' = NoCompletions /\ records' = records
  BY Zenon DEF Restart, Recovered
<1>2. DOMAIN completing' = {} /\ \A w \in Workers : DOMAIN inbox'[w] = {}
  BY <1>1 DEF NoCompletions
<1>3. (\A i : ~BatchHas(k, i)') /\ \A w \in Workers : \A i : ~InboxHas(k, w, i)'
  BY <1>2 DEF BatchHas, InboxHas
<1> QED
  BY <1>1, <1>3, Zenon DEF Tracking, BatchTracks, InboxTracks, TableTracks

(* The same at the first start. *)
LEMMA InitTracks ==
    ASSUME ServerConstants, ServerInit
    PROVE  Tracks
<1> SUFFICES ASSUME NEW k \in Keys PROVE Tracking(k)
  BY Zenon DEF Tracks
<1>1. table = Empty /\ completing = <<>> /\ inbox = NoCompletions /\ records = <<>>
  BY Zenon DEF ServerInit
<1>2. DOMAIN completing = {} /\ \A w \in Workers : DOMAIN inbox[w] = {}
  BY <1>1 DEF NoCompletions
<1>3. (\A i : ~BatchHas(k, i)) /\ \A w \in Workers : \A i : ~InboxHas(k, w, i)
  BY <1>2 DEF BatchHas, InboxHas
<1>4. Replay(records)[k] = table[k]
  <2>1. records \in Seq(Mutation) /\ \A i \in 1..Len(records) : records[i].key # k
    BY <1>1
  <2>2. Replay(records)[k] = Absent
    BY <2>1, ReplayNone, Zenon
  <2> QED
    BY <1>1, <2>2 DEF Empty
<1> QED
  BY <1>3, <1>4, Zenon DEF Tracking, BatchTracks, InboxTracks, TableTracks

(* Every step keeps Tracks. *)
LEMMA NextTracks ==
    ASSUME ServerConstants, OneWorkerPerKey, IInv, Tracks, [ServerNext]_serverVars
    PROVE  Tracks'
<1> SUFFICES ASSUME NEW k \in Keys, up', ~failed', ~unhealthy' PROVE Tracking(k)'
  BY Zenon DEF Tracks
<1>1. up /\ ~failed /\ ~unhealthy => Tracking(k)
  BY Zenon DEF Tracks
<1>2. ASSUME UNCHANGED <<up, table, records, pending, completing, error, failed, inbox, unhealthy>> PROVE Tracking(k)'
  <2>1. /\ up' = up /\ failed' = failed /\ unhealthy' = unhealthy /\ table' = table /\ records' = records
        /\ pending' = pending /\ completing' = completing /\ error' = error /\ inbox' = inbox
    BY <1>2, Zenon
  <2>2. Tracking(k)
    BY <1>1, <2>1, Zenon
  <2> QED
    BY <2>1, <2>2, SameTracking, Zenon
<1>3. ASSUME NEW c \in Conns, NEW r \in Mutation, SubmitMutation(c, r) PROVE Tracking(k)'
  <2>1. Tracking(k)
    BY <1>1, <1>3 DEF SubmitMutation
  <2> QED
    BY <1>3, <2>1, SubmitTracks, Zenon
<1>4. CASE CommitBatch
  <2>1. ~failed => Tracking(k)
    BY <1>1, <1>4 DEF CommitBatch
  <2> QED
    BY <1>4, <2>1, TakeBatchTracks, Zenon
<1>5. CASE Complete
  <2>1. Tracking(k)
    BY <1>1, <1>5 DEF Complete
  <2> QED
    BY <1>5, <2>1, CompleteTracks, ZenonT(40)
<1>6. ASSUME NEW w \in Workers, ApplyOne(w) PROVE Tracking(k)'
  <2>1. PICK e : Applied(w, e)
    BY <1>6, ApplyFacts, Zenon
  <2>2. Tracking(k)
    BY <1>1, <2>1, Zenon DEF Applied
  <2> QED
    BY <1>6, <2>2, ApplyOneTracks, Zenon
<1>7. ASSUME NEW w \in Workers, BeginDraining(w) PROVE Tracking(k)'
  BY <1>2, <1>7 DEF BeginDraining
<1>8. CASE StopServer
  BY <1>2, <1>8 DEF StopServer
<1>9. CASE Exit
  BY <1>9 DEF Exit
<1>10. CASE Crash
  BY <1>10 DEF Crash
<1>11. CASE Restart
  BY <1>11, RestartTracks, Zenon
<1>12. CASE UNCHANGED serverVars
  BY <1>2, <1>12, Zenon DEF serverVars, memory
<1> QED
  BY <1>3, <1>4, <1>5, <1>6, <1>7, <1>8, <1>9, <1>10, <1>11, <1>12, ZenonT(40) DEF ServerNext

(* With one worker per key, memory follows the log. *)
LEMMA TracksInvariance ==
    ASSUME ServerConstants, OneWorkerPerKey
    PROVE  ServerSpec => [](IInv /\ Tracks)
<1>1. ServerInit => IInv /\ Tracks
  BY InitInv, InitTracks
<1>2. IInv /\ Tracks /\ [ServerNext]_serverVars => (IInv /\ Tracks)'
  BY NextKeeps, NextTracks
<1> QED
  BY <1>1, <1>2, PTL DEF ServerSpec

(* When no connection has a mutation pending, memory is what the log says. *)
LEMMA SettledIsLogged ==
    ASSUME ServerConstants, IInv, Tracks, Settled
    PROVE  table = Replay(records)
<1>1. ASSUME NEW c \in Conns PROVE ~InBatch(c) /\ ~InInbox(c)
  BY IdleIsNowhere, Zenon DEF Settled
<1>2. DOMAIN completing = {}
  <2>1. ASSUME NEW i \in DOMAIN completing PROVE FALSE
    <3>1. completing[i] \in Conns
      BY Types DEF IInv
    <3> QED
      BY <1>1, <3>1, Zenon DEF InBatch
  <2> QED
    BY <2>1, Zenon
<1>3. ASSUME NEW w \in Workers PROVE DOMAIN inbox[w] = {}
  <2>1. ASSUME NEW i \in DOMAIN inbox[w] PROVE FALSE
    <3>1. inbox[w][i].conn \in Conns
      BY InboxFacts, Zenon DEF IInv
    <3> QED
      BY <1>1, <3>1, Zenon DEF InInbox
  <2> QED
    BY <2>1
<1>4. ASSUME NEW k \in Keys PROVE table[k] = Replay(records)[k]
  <2>1. TableTracks(k)
    BY Zenon DEF Tracks, Tracking, Settled
  <2>2. (\A i : ~BatchHas(k, i)) /\ \A w \in Workers : \A i : ~InboxHas(k, w, i)
    BY <1>2, <1>3 DEF BatchHas, InboxHas
  <2> QED
    BY <2>1, <2>2, Zenon DEF TableTracks
<1>5. table \in [Keys -> Vals \cup {Absent}] /\ Replay(records) \in [Keys -> Vals \cup {Absent}]
  BY ReplayType, Types, Zenon DEF IInv
<1>6. \A f, g \in [Keys -> Vals \cup {Absent}] : (\A k \in Keys : f[k] = g[k]) => f = g
  OBVIOUS
<1> QED
  BY <1>4, <1>5, <1>6, Zenon

(* RamMatchesReplay: with one worker per key, the table of a healthy       *)
(* server with nothing outstanding is what a restart would rebuild.        *)
THEOREM RamIsReplay ==
    ASSUME ServerConstants, OneWorkerPerKey
    PROVE  ServerSpec => []RamMatchesReplay
<1>1. IInv /\ Tracks => RamMatchesReplay
  BY SettledIsLogged, Zenon DEF RamMatchesReplay
<1> QED
  BY <1>1, TracksInvariance, PTL

(* MemorySafe: what a GET can see of a key is a version of it in the log,  *)
(* and memory that has missed a durable record has told the workers to     *)
(* stop.                                                                   *)
THEOREM MemoryIsSafe ==
    ASSUME ServerConstants, OneWorkerPerKey
    PROVE  ServerSpec => []MemorySafe
<1>1. IInv => ServerTypeOK /\ VisibleIsDurable
  BY Zenon DEF IInv, Visible, VisibleIsDurable, Get
<1>2. ASSUME IInv, Tracks PROVE DivergenceStops
  <2>1. unhealthy \in BOOLEAN /\ (unhealthy => stop)
    BY <1>2, Types DEF IInv
  <2> QED
    BY <1>2, <2>1, SettledIsLogged, Zenon DEF DivergenceStops, Settled
<1>3. IInv /\ Tracks => MemorySafe
  BY <1>1, <1>2, Zenon DEF MemorySafe
<1> QED
  BY <1>3, TracksInvariance, PTL
=============================================================================
