--------------------------- MODULE HandoffProofs ---------------------------
(***************************************************************************)
(* The hand-off between the WAL writer and a worker keeps its books: every *)
(* pending request is in one hand, in submission order, the count a drain  *)
(* relies on is exact and no hand is on a freed connection, for any number *)
(* of connections.                                                         *)
(***************************************************************************)
EXTENDS Handoff, SequenceTheorems, FiniteSetTheorems, TLAPS

Types ==
    /\ sock \in [Conns -> {"free", "open", "shell"}]
    /\ pending \in SUBSET Conns /\ count \in Nat
    /\ pc \in {"wait", "socket", "drain", "clear", "detach", "apply", "exited"}
    /\ wpc \in {"idle", "cas", "exchange", "ring"}
    /\ draining \in BOOLEAN /\ ready \in BOOLEAN /\ stop \in BOOLEAN /\ stopfd \in BOOLEAN
    /\ signaled \in BOOLEAN /\ efd \in BOOLEAN
    /\ completed \in Seq(Conns) /\ wal \in Seq(Conns) /\ stack \in Seq(Conns) /\ order \in Seq(Conns)
    /\ cur \in Conns \cup {Nil} /\ loaded \in Conns \cup {Nil}
    /\ wpc = "cas" => cur \in Conns
    /\ pc # "apply" => completed = <<>>

(* The requests in submission order are the pending ones, each once. *)
Pending ==
    /\ \A i, j \in 1..Len(order) : order[i] = order[j] => i = j
    /\ \A c \in Conns : c \in pending <=> \E i \in 1..Len(order) : order[i] = c
    /\ Len(order) = Cardinality(pending) /\ count = Cardinality(pending)

(* A pending connection keeps its object. *)
Kept == \A c \in pending : sock[c] # "free"

IInv == Types /\ InHand = order /\ Pending /\ Kept

-----------------------------------------------------------------------------
(* The list the worker detaches is in completion order: what was pushed    *)
(* last comes last.                                                        *)
LEMMA ReverseTyped ==
    ASSUME NEW S, NEW s \in Seq(S)
    PROVE  /\ Reverse(s) \in Seq(S) /\ Len(Reverse(s)) = Len(s)
           /\ \A i \in 1..Len(s) : Reverse(s)[i] = s[Len(s) - i + 1]
BY DEF Reverse

(* A push at the top of the stack is an append to the detached list. *)
LEMMA ReversePush ==
    ASSUME NEW S, NEW s \in Seq(S), NEW x \in S
    PROVE  Reverse(<<x>> \o s) = Reverse(s) \o <<x>>
<1> DEFINE pushed == <<x>> \o s
<1>1. /\ pushed \in Seq(S) /\ Len(pushed) = Len(s) + 1 /\ pushed[1] = x
      /\ \A i \in 1..Len(s) : pushed[i + 1] = s[i]
  OBVIOUS
<1> HIDE DEF pushed
<1>2. /\ Reverse(pushed) \in Seq(S) /\ Len(Reverse(pushed)) = Len(s) + 1
      /\ \A i \in 1..(Len(s) + 1) : Reverse(pushed)[i] = pushed[Len(s) + 1 - i + 1]
  BY <1>1, ReverseTyped
<1> DEFINE rev == Reverse(s)
<1>3. rev \in Seq(S) /\ Len(rev) = Len(s) /\ \A i \in 1..Len(s) : rev[i] = s[Len(s) - i + 1]
  BY ReverseTyped
<1> HIDE DEF rev
<1> DEFINE both == rev \o <<x>>
<1>4. both \in Seq(S) /\ Len(both) = Len(s) + 1 /\ both[Len(s) + 1] = x /\ \A i \in 1..Len(s) : both[i] = rev[i]
  BY <1>3
<1> HIDE DEF both
<1>5. \A i \in 1..(Len(s) + 1) : Reverse(pushed)[i] = both[i]
  <2> SUFFICES ASSUME NEW i \in 1..(Len(s) + 1) PROVE Reverse(pushed)[i] = both[i]
    OBVIOUS
  <2>1. CASE i = Len(s) + 1
    BY <1>1, <1>2, <1>4, <2>1, SMTT(20), ZenonT(20)
  <2>2. CASE i # Len(s) + 1
    <3>1. i \in 1..Len(s) /\ Len(s) - i + 1 \in 1..Len(s) /\ Len(s) + 1 - i + 1 = (Len(s) - i + 1) + 1
      BY <2>2
    <3> QED
      BY <1>1, <1>2, <1>3, <1>4, <3>1, ZenonT(40)
  <2> QED
    BY <2>1, <2>2
<1>6. Reverse(pushed) = both
  BY <1>2, <1>4, <1>5, SeqEqual
<1> QED
  BY <1>6 DEF pushed, both, rev

(* Lists in a row, and taking the first of a list, which is the first of   *)
(* what begins with it.                                                    *)
LEMMA TailOfConcat ==
    ASSUME NEW S, NEW s \in Seq(S), NEW t \in Seq(S), s # <<>>
    PROVE  /\ s \o t # <<>> /\ Head(s \o t) = Head(s) /\ Tail(s) \o t = Tail(s \o t)
<1> DEFINE all == s \o t
<1>1. Len(s) \in Nat \ {0} /\ Len(t) \in Nat
  BY EmptySeq, LenProperties
<1>2. all \in Seq(S) /\ Len(all) = Len(s) + Len(t)
      /\ \A i \in 1..(Len(s) + Len(t)) : all[i] = IF i <= Len(s) THEN s[i] ELSE t[i - Len(s)]
  BY ConcatProperties
<1> HIDE DEF all
<1>3. all # <<>> /\ Head(all) = Head(s)
  BY <1>1, <1>2
<1> DEFINE rest == Tail(s)
<1>4. rest \in Seq(S) /\ Len(rest) = Len(s) - 1 /\ \A i \in 1..Len(rest) : rest[i] = s[i + 1]
  BY HeadTailProperties
<1> HIDE DEF rest
<1>5. rest \o t \in Seq(S) /\ Len(rest \o t) = Len(rest) + Len(t)
      /\ \A i \in 1..(Len(rest) + Len(t)) : (rest \o t)[i] = IF i <= Len(rest) THEN rest[i] ELSE t[i - Len(rest)]
  BY <1>4, ConcatProperties, ZenonT(40)
<1>6. Tail(all) \in Seq(S) /\ Len(Tail(all)) = Len(all) - 1 /\ \A i \in 1..Len(Tail(all)) : Tail(all)[i] = all[i + 1]
  BY <1>2, <1>3, HeadTailProperties
<1>7. Len(Tail(all)) = Len(rest \o t)
  BY <1>1, <1>2, <1>4, <1>5, <1>6
<1>8. ASSUME NEW i \in 1..Len(Tail(all)) PROVE Tail(all)[i] = (rest \o t)[i]
  BY <1>1, <1>2, <1>4, <1>5, <1>6, <1>7, <1>8
<1>9. rest \o t = Tail(all)
  BY <1>5, <1>6, <1>7, <1>8, SeqEqual, ZenonT(40)
<1> QED
  BY <1>3, <1>9 DEF all, rest

(* Removing the first element by its value. *)
LEMMA RemoveHead ==
    ASSUME NEW S, NEW s \in Seq(S), s # <<>>
    PROVE  RemoveFirst(s, Head(s)) = Tail(s)
<1>1. Len(s) \in Nat \ {0} /\ Head(s) = s[1] /\ 1 \in 1..Len(s)
  BY EmptySeq
<1> DEFINE I == {i \in 1..Len(s) : s[i] = Head(s)}
<1>2. I # {} /\ Min(I) = 1
  BY <1>1 DEF Min
<1>3. SelectInSeq(s, LAMBDA v : v = Head(s)) = 1
  BY <1>2 DEF SelectInSeq
<1>4. RemoveFirst(s, Head(s)) = RemoveAt(s, 1)
  BY <1>1, <1>3 DEF RemoveFirst
<1>5. RemoveAt(s, 1) = <<>> \o SubSeq(s, 2, Len(s))
  BY <1>1, SubSeqEmpty, SMTT(20), ZenonT(20) DEF RemoveAt
<1>6. Tail(s) = SubSeq(s, 2, Len(s)) /\ Tail(s) \in Seq(S)
  BY TailIsSubSeq, HeadTailProperties, SMTT(20), ZenonT(20)
<1> QED
  BY <1>4, <1>5, <1>6, ConcatEmptySeq, SMTT(20), ZenonT(20)

-----------------------------------------------------------------------------
(* The one request wal_complete is about to push. *)
InCallback == IF wpc = "cas" THEN <<cur>> ELSE <<>>

(* Everything in hand, part by part. *)
LEMMA InHandFacts ==
    ASSUME Types
    PROVE  /\ InHand = ((completed \o Reverse(stack)) \o InCallback) \o wal
           /\ Reverse(stack) \in Seq(Conns) /\ InCallback \in Seq(Conns)
           /\ completed \o Reverse(stack) \in Seq(Conns)
           /\ (completed \o Reverse(stack)) \o InCallback \in Seq(Conns)
           /\ InHand \in Seq(Conns)
<1>1. InHand = ((completed \o Reverse(stack)) \o InCallback) \o wal
  BY DEF InHand, InCallback
<1>2. Reverse(stack) \in Seq(Conns) /\ InCallback \in Seq(Conns)
  BY ReverseTyped DEF Types, InCallback
<1>3. completed \o Reverse(stack) \in Seq(Conns)
  BY <1>2, ConcatProperties, SMTT(20), ZenonT(20) DEF Types
<1>4. (completed \o Reverse(stack)) \o InCallback \in Seq(Conns)
  BY <1>2, <1>3, ConcatProperties, SMTT(20), ZenonT(20)
<1>5. ((completed \o Reverse(stack)) \o InCallback) \o wal \in Seq(Conns)
  BY <1>4, ConcatProperties, SMTT(20), ZenonT(20) DEF Types
<1> QED
  BY <1>1, <1>2, <1>3, <1>4, <1>5, SMTT(20), ZenonT(20)

(* The detached list can be taken off the front of what is in hand. *)
LEMMA Regroup ==
    ASSUME Types, NEW s \in Seq(Conns)
    PROVE  ((s \o Reverse(stack)) \o InCallback) \o wal = s \o ((Reverse(stack) \o InCallback) \o wal)
<1> DEFINE t == Reverse(stack)
<1> DEFINE u == InCallback
<1> DEFINE tu == t \o u
<1>1. t \in Seq(Conns) /\ u \in Seq(Conns) /\ wal \in Seq(Conns)
  BY InHandFacts DEF Types
<1> HIDE DEF t, u
<1>2. (s \o t) \o u = s \o tu
  BY <1>1, ConcatAssociative, SMTT(20), ZenonT(20)
<1>3. tu \in Seq(Conns)
  BY <1>1, ConcatProperties, SMTT(20), ZenonT(20)
<1> HIDE DEF tu
<1>4. ASSUME NEW w \in Seq(Conns) PROVE (s \o w) \o wal = s \o (w \o wal)
  BY <1>1, ConcatAssociative, SMTT(20), ZenonT(20)
<1> QED
  BY <1>2, <1>3, <1>4, SMTT(20), ZenonT(20) DEF t, u, tu

(* At the start nobody holds anything. *)
LEMMA InitInvariant == Init => IInv
<1> SUFFICES ASSUME Init PROVE IInv
  OBVIOUS
<1>1. Types
  <2>1. sock \in [Conns -> {"free", "open", "shell"}] /\ pending \in SUBSET Conns
    BY DEF Init
  <2>2. completed \in Seq(Conns) /\ wal \in Seq(Conns) /\ stack \in Seq(Conns) /\ order \in Seq(Conns)
    BY DEF Init
  <2> QED
    BY <2>1, <2>2, Zenon DEF Init, Types
<1>2. InHand = order
  BY DEF Init, InHand, Reverse
<1>3. Pending /\ Kept
  BY FS_EmptySet DEF Init, Pending, Kept
<1> QED
  BY <1>1, <1>2, <1>3 DEF IInv

(* A step that moves no request keeps the books. *)
LEMMA SameBooks ==
    ASSUME IInv, Types', UNCHANGED <<pending, count, order>>, InHand' = InHand,
           \A c \in pending : sock'[c] # "free"
    PROVE  IInv'
<1>1. Pending'
  BY DEF IInv, Pending
<1>2. Kept'
  BY DEF Kept
<1> QED
  BY <1>1, <1>2 DEF IInv

(* wal_complete takes the next request of the log. *)
LEMMA CompleteBeginInvariant == ASSUME IInv, CompleteBegin PROVE IInv'
<1>1. Types /\ wal # <<>> /\ wpc = "idle" /\ wal \in Seq(Conns)
  BY DEF IInv, Types, CompleteBegin
<1>2. Head(wal) \in Conns /\ Tail(wal) \in Seq(Conns) /\ Top(stack) \in Conns \cup {Nil}
  BY <1>1, HeadTailProperties DEF Types, Top
<1>3. Types'
  BY <1>1, <1>2, SMTT(20), ZenonT(20) DEF CompleteBegin, Types, workerVars, stopVars, sharedVars
<1> DEFINE before == completed \o Reverse(stack)
<1> DEFINE first == Head(wal)
<1> DEFINE rest == Tail(wal)
<1>4. before \in Seq(Conns) /\ <<first>> \in Seq(Conns) /\ <<>> \in Seq(Conns) /\ first \in Conns /\ rest \in Seq(Conns)
  BY <1>1, <1>2, InHandFacts, SMTT(20), ZenonT(20)
<1>5. InHand = (before \o <<>>) \o wal
  BY <1>1 DEF InHand
<1>6. InHand' = (before \o <<first>>) \o rest
  BY DEF InHand, CompleteBegin, workerVars, sharedVars
<1>7. wal = <<first>> \o rest
  BY <1>1, SMTT(20), ZenonT(20)
<1> HIDE DEF before, first, rest
<1>8. InHand' = InHand
  BY <1>1, <1>4, <1>5, <1>6, <1>7, ConcatEmptySeq, ConcatAssociative, SMTT(20), ZenonT(20)
<1> QED
  BY <1>3, <1>8, SameBooks, SMTT(20), ZenonT(20) DEF CompleteBegin, workerVars, sharedVars, IInv, Kept

(* The compare-exchange pushes the request or reloads the head. *)
LEMMA CompletePushInvariant == ASSUME IInv, CompletePush PROVE IInv'
<1>1. Types /\ wpc = "cas" /\ cur \in Conns /\ stack \in Seq(Conns) /\ completed \in Seq(Conns) /\ wal \in Seq(Conns)
      /\ UNCHANGED <<workerVars, stopVars, wal, cur, signaled, efd, order>>
  BY DEF IInv, Types, CompletePush
<1>2. CASE UNCHANGED <<stack, wpc>> /\ loaded' = Top(stack)
  <2>1. Top(stack) \in Conns \cup {Nil}
    BY <1>1, SMTT(20), ZenonT(20) DEF Top
  <2>2. Types' /\ InHand' = InHand
    BY <1>1, <1>2, <2>1, SMTT(20), ZenonT(20) DEF Types, InHand, workerVars, stopVars
  <2> QED
    BY <1>1, <2>2, SameBooks, SMTT(20), ZenonT(20) DEF IInv, Kept, workerVars
<1>3. CASE stack' = <<cur>> \o stack /\ wpc' = "exchange" /\ UNCHANGED loaded
  <2>1. Types'
    BY <1>1, <1>3, SMTT(20), ZenonT(20) DEF Types, workerVars, stopVars
  <2> DEFINE rev == Reverse(stack)
  <2>2. InHand = ((completed \o rev) \o <<cur>>) \o wal
    BY <1>1 DEF InHand
  <2>3. Reverse(stack') = rev \o <<cur>>
    BY <1>1, <1>3, ReversePush, SMTT(20), ZenonT(20)
  <2>4. InHand' = ((completed \o (rev \o <<cur>>)) \o <<>>) \o wal
    BY <1>1, <1>3, <2>3, ZenonT(40) DEF InHand, workerVars
  <2>5. rev \in Seq(Conns) /\ <<cur>> \in Seq(Conns)
    BY <1>1, ReverseTyped
  <2> HIDE DEF rev
  <2>6. completed \o (rev \o <<cur>>) = (completed \o rev) \o <<cur>>
    BY <1>1, <2>5, ConcatAssociative
  <2>7. (completed \o rev) \o <<cur>> \in Seq(Conns)
    BY <1>1, <2>5, ConcatProperties, SMTT(20), ZenonT(20)
  <2>8. InHand' = InHand
    BY <2>2, <2>4, <2>6, <2>7, ConcatEmptySeq, Zenon
  <2> QED
    BY <1>1, <2>1, <2>8, SameBooks, SMTT(20), ZenonT(20) DEF IInv, Kept, workerVars
<1> QED
  BY <1>2, <1>3, SMTT(20), ZenonT(20) DEF CompletePush

(* The flag, the eventfd and the stop request move no request. *)
LEMMA SignalsInvariant ==
    ASSUME IInv, CompleteExchange \/ CompleteRing \/ StopFlag \/ StopRing \/ DrainFd \/ ClearSignaled
    PROVE  IInv'
<1>1. UNCHANGED <<sock, pending, count, draining, ready, completed, wal, cur, loaded, stack, order>>
  BY DEF CompleteExchange, CompleteRing, StopFlag, StopRing, DrainFd, ClearSignaled, workerVars, writerVars, sharedVars
<1>2. /\ pc' \in {"wait", "socket", "drain", "clear", "detach", "apply", "exited"}
      /\ pc' = pc \/ pc \in {"drain", "clear"}
      /\ wpc' \in {"idle", "cas", "exchange", "ring"}
      /\ wpc' = "cas" <=> wpc = "cas"
      /\ stop' \in BOOLEAN /\ stopfd' \in BOOLEAN /\ signaled' \in BOOLEAN /\ efd' \in BOOLEAN
  <2>1. CASE CompleteExchange
    BY <2>1, SMTT(20), ZenonT(20) DEF CompleteExchange, workerVars, stopVars, IInv, Types
  <2>2. CASE CompleteRing \/ DrainFd \/ ClearSignaled
    BY <2>2, Zenon DEF CompleteRing, DrainFd, ClearSignaled, workerVars, stopVars, writerVars, IInv, Types
  <2>3. CASE StopFlag \/ StopRing
    BY <2>3, ZenonT(40) DEF StopFlag, StopRing, workerVars, writerVars, sharedVars, IInv, Types
  <2> QED
    BY <2>1, <2>2, <2>3, SMTT(20), ZenonT(20)
<1>3. Types'
  BY <1>1, <1>2 DEF IInv, Types
<1>4. InHand' = InHand
  BY <1>1, <1>2 DEF InHand
<1> QED
  BY <1>1, <1>3, <1>4, SameBooks DEF IInv, Kept

(* BeginDraining closes the sockets; a pending connection keeps its object. *)
LEMMA DrainingKeeps ==
    ASSUME IInv, BeginDraining \/ UNCHANGED <<draining, sock>>
    PROVE  /\ sock' \in [Conns -> {"free", "open", "shell"}] /\ draining' \in BOOLEAN
           /\ \A c \in pending : sock'[c] # "free"
BY Zenon DEF IInv, Types, Kept, BeginDraining, Drained

(* epoll_wait returns, or a round of socket events ends. *)
LEMMA WakeInvariant ==
    ASSUME IInv, WakeCompletion \/ WakeStop \/ WakeSocket \/ WakeFails \/ SocketsDone
    PROVE  IInv'
<1>1. /\ UNCHANGED <<pending, count, completed, writerVars, sharedVars, order>>
      /\ BeginDraining \/ UNCHANGED <<draining, sock>>
      /\ pc # "apply"
      /\ pc' \in {"drain", "wait", "socket"}
      /\ ready' \in BOOLEAN /\ stop' \in BOOLEAN /\ stopfd' \in BOOLEAN
  <2>1. ASSUME NEW b \in BOOLEAN, Wake(b)
        PROVE  /\ UNCHANGED <<pending, count, completed, writerVars, sharedVars, order, stopVars>>
               /\ BeginDraining \/ UNCHANGED <<draining, sock>>
               /\ pc = "wait" /\ pc' \in {"drain", "wait", "socket"} /\ ready' = b
    BY <2>1 DEF Wake
  <2>2. CASE WakeCompletion \/ WakeStop \/ WakeSocket
    BY <2>1, <2>2, ZenonT(40) DEF WakeCompletion, WakeStop, WakeSocket, stopVars, IInv, Types
  <2>3. CASE WakeFails
    BY <2>3 DEF WakeFails, IInv, Types
  <2>4. CASE SocketsDone
    BY <2>4 DEF SocketsDone, stopVars, IInv, Types
  <2> QED
    BY <2>2, <2>3, <2>4
<1>2. /\ sock' \in [Conns -> {"free", "open", "shell"}] /\ draining' \in BOOLEAN
      /\ \A c \in pending : sock'[c] # "free"
  BY <1>1, DrainingKeeps
<1>3. Types'
  BY <1>1, <1>2 DEF IInv, Types, writerVars, sharedVars
<1>4. InHand' = InHand
  BY <1>1 DEF InHand, writerVars, sharedVars
<1> QED
  BY <1>1, <1>2, <1>3, <1>4, SameBooks

(* A connection is accepted or loses its socket. *)
LEMMA SocketInvariant ==
    ASSUME IInv, NEW c \in Conns, Accept(c) \/ SocketClose(c)
    PROVE  IInv'
<1>1. UNCHANGED <<pending, count, draining, pc, ready, completed, stopVars, writerVars, sharedVars, order>>
  BY DEF Accept, SocketClose
<1>2. /\ sock' \in [Conns -> {"free", "open", "shell"}]
      /\ \A d \in pending : sock'[d] # "free"
  BY SMTT(20), ZenonT(20) DEF Accept, SocketClose, Drained, IInv, Types, Kept
<1>3. Types'
  BY <1>1, <1>2 DEF IInv, Types, stopVars, writerVars, sharedVars
<1>4. InHand' = InHand
  BY <1>1 DEF InHand, writerVars, sharedVars
<1> QED
  BY <1>1, <1>2, <1>3, <1>4, SameBooks, SMTT(20), ZenonT(20)

(* A request that was not pending is entered last. *)
LEMMA EnterRequest ==
    ASSUME NEW S, NEW s \in Seq(S), NEW x \in S,
           \A i, j \in 1..Len(s) : s[i] = s[j] => i = j,
           \A i \in 1..Len(s) : s[i] # x
    PROVE  /\ Append(s, x) \in Seq(S) /\ Len(Append(s, x)) = Len(s) + 1
           /\ \A i, j \in 1..(Len(s) + 1) : Append(s, x)[i] = Append(s, x)[j] => i = j
           /\ \A y : (\E i \in 1..(Len(s) + 1) : Append(s, x)[i] = y) <=> (y = x \/ \E i \in 1..Len(s) : s[i] = y)
<1>1. /\ Append(s, x) \in Seq(S) /\ Len(Append(s, x)) = Len(s) + 1 /\ Append(s, x)[Len(s) + 1] = x
      /\ \A i \in 1..Len(s) : Append(s, x)[i] = s[i] /\ Len(s) \in Nat
  BY AppendProperties, LenProperties, SMTT(20), ZenonT(20)
<1> DEFINE more == Append(s, x)
<1> HIDE DEF more
<1>2. /\ \A i, j \in 1..(Len(s) + 1) : more[i] = more[j] => i = j
      /\ \A y : (\E i \in 1..(Len(s) + 1) : more[i] = y) <=> (y = x \/ \E i \in 1..Len(s) : s[i] = y)
  <2>1. Len(s) \in Nat /\ more[Len(s) + 1] = x /\ \A i \in 1..Len(s) : more[i] = s[i]
    BY <1>1, LenProperties DEF more
  <2>2. \A i \in 1..(Len(s) + 1) : i \in 1..Len(s) \/ i = Len(s) + 1
    BY <2>1
  <2>3. \A i \in 1..Len(s) : i \in 1..(Len(s) + 1)
    BY <2>1
  <2>4. Len(s) + 1 \in 1..(Len(s) + 1)
    BY <2>1
  <2> QED
    BY <2>1, <2>2, <2>3, <2>4, SMTT(20), ZenonT(20)
<1> QED
  BY <1>1, <1>2, SMTT(20), ZenonT(20) DEF more

(* conn_process submits a mutation. *)
LEMMA SubmitInvariant == ASSUME IInv, NEW c \in Conns, SocketSubmit(c) PROVE IInv'
<1>1. /\ c \notin pending /\ sock[c] = "open" /\ pending' = pending \cup {c} /\ count' = count + 1
      /\ wal' = Append(wal, c) /\ order' = Append(order, c)
      /\ UNCHANGED <<sock, draining, pc, ready, completed, stopVars, cur, loaded, wpc, sharedVars>>
  BY DEF SocketSubmit
<1>2. Types /\ InHand = order /\ Pending /\ Kept
  BY DEF IInv
<1>3. Types'
  BY <1>1, <1>2, AppendProperties, SMTT(20), ZenonT(20) DEF Types, stopVars, sharedVars
<1>4. InHand' = Append(InHand, c)
  <2> DEFINE before == (completed \o Reverse(stack)) \o InCallback
  <2>1. before \in Seq(Conns) /\ InHand = before \o wal /\ wal \in Seq(Conns) /\ <<c>> \in Seq(Conns)
    BY <1>2, InHandFacts, SMTT(20), ZenonT(20) DEF Types
  <2>2. InHand' = before \o Append(wal, c)
    BY <1>1, SMTT(20), ZenonT(20) DEF InHand, InCallback, sharedVars
  <2> HIDE DEF before
  <2>3. Append(wal, c) = wal \o <<c>> /\ before \o wal \in Seq(Conns)
    BY <2>1, AppendIsConcat, ConcatProperties, SMTT(20), ZenonT(20)
  <2>4. Append(before \o wal, c) = (before \o wal) \o <<c>>
    BY <2>3, AppendIsConcat, SMTT(20), ZenonT(20)
  <2> QED
    BY <2>1, <2>2, <2>3, <2>4, ConcatAssociative, SMTT(20), ZenonT(20)
<1>5. \A i \in 1..Len(order) : order[i] # c
  BY <1>1, <1>2, SMTT(20), ZenonT(20) DEF Pending
<1>6. /\ Len(order') = Len(order) + 1
      /\ \A i, j \in 1..Len(order') : order'[i] = order'[j] => i = j
      /\ \A d : (\E i \in 1..Len(order') : order'[i] = d) <=> (d = c \/ \E i \in 1..Len(order) : order[i] = d)
  <2>1. order \in Seq(Conns) /\ \A i, j \in 1..Len(order) : order[i] = order[j] => i = j
    BY <1>2 DEF Types, Pending
  <2>2. /\ Len(Append(order, c)) = Len(order) + 1
        /\ \A i, j \in 1..(Len(order) + 1) : Append(order, c)[i] = Append(order, c)[j] => i = j
        /\ \A y : (\E i \in 1..(Len(order) + 1) : Append(order, c)[i] = y)
                     <=> (y = c \/ \E i \in 1..Len(order) : order[i] = y)
    BY <1>5, <2>1, EnterRequest, SMTT(20), ZenonT(20)
  <2> QED
    BY <1>1, <2>2, SMTT(20), ZenonT(20)
<1>7. Cardinality(pending') = Cardinality(pending) + 1
  BY <1>1, <1>2, HandoffAssumption, FS_Subset, FS_AddElement, SMTT(20), ZenonT(20) DEF Types
<1>8. Pending'
  BY <1>1, <1>2, <1>6, <1>7, SMTT(20), ZenonT(20) DEF Pending
<1>9. Kept'
  BY <1>1, <1>2, SMTT(20), ZenonT(20) DEF Kept
<1> QED
  BY <1>1, <1>2, <1>3, <1>4, <1>8, <1>9, SMTT(20), ZenonT(20) DEF IInv

(* process_wal_completions detaches the stack. *)
LEMMA DetachInvariant == ASSUME IInv, Detach PROVE IInv'
<1>1. /\ pc = "detach" /\ pc' = "apply" /\ completed' = Reverse(stack) /\ stack' = <<>>
      /\ UNCHANGED <<sock, pending, count, draining, ready, stopVars, writerVars, signaled, efd, order>>
  BY DEF Detach, Detached
<1>2. Types /\ completed = <<>>
  BY <1>1 DEF IInv, Types
<1> DEFINE rev == Reverse(stack)
<1>3. rev \in Seq(Conns)
  BY <1>2, InHandFacts, SMTT(20), ZenonT(20)
<1>4. Types'
  BY <1>1, <1>2, <1>3, SMTT(20), ZenonT(20) DEF Types, stopVars, writerVars
<1>5. InHand' = ((rev \o Reverse(<<>>)) \o InCallback) \o wal
  BY <1>1 DEF InHand, InCallback, writerVars
<1>6. InHand = ((<<>> \o rev) \o InCallback) \o wal
  BY <1>2 DEF InHand, InCallback
<1>7. Reverse(<<>>) = <<>>
  BY DEF Reverse
<1> HIDE DEF rev
<1>8. rev \o <<>> = rev /\ <<>> \o rev = rev
  BY <1>3, ConcatEmptySeq, SMTT(20), ZenonT(20)
<1> QED
  BY <1>1, <1>4, <1>5, <1>6, <1>7, <1>8, SameBooks, Zenon DEF IInv, Kept

(* The books without their first request. *)
LEMMA DropFirst ==
    ASSUME NEW S, NEW s \in Seq(S), s # <<>>,
           \A i, j \in 1..Len(s) : s[i] = s[j] => i = j
    PROVE  /\ Tail(s) \in Seq(S) /\ Len(Tail(s)) = Len(s) - 1
           /\ \A i, j \in 1..Len(Tail(s)) : Tail(s)[i] = Tail(s)[j] => i = j
           /\ \A y : (\E i \in 1..Len(Tail(s)) : Tail(s)[i] = y) <=> (y # Head(s) /\ \E i \in 1..Len(s) : s[i] = y)
<1> DEFINE rest == Tail(s)
<1>1. /\ rest \in Seq(S) /\ Len(rest) = Len(s) - 1 /\ \A i \in 1..Len(rest) : rest[i] = s[i + 1]
      /\ Len(s) \in Nat \ {0} /\ Head(s) = s[1]
  BY HeadTailProperties, EmptySeq
<1> HIDE DEF rest
<1>2. \A i \in 1..Len(rest) : i + 1 \in 1..Len(s) /\ i + 1 # 1
  BY <1>1
<1>3. \A i \in 1..Len(s) : i = 1 \/ (i - 1 \in 1..Len(rest) /\ (i - 1) + 1 = i)
  BY <1>1
<1>4. \A i, j \in 1..Len(rest) : rest[i] = rest[j] => i = j
  <2> SUFFICES ASSUME NEW i \in 1..Len(rest), NEW j \in 1..Len(rest), rest[i] = rest[j] PROVE i = j
    OBVIOUS
  <2>1. i + 1 = j + 1
    BY <1>1, <1>2, SMTT(20), ZenonT(20)
  <2> QED
    BY <2>1
<1>5. ASSUME NEW y PROVE (\E i \in 1..Len(rest) : rest[i] = y) <=> (y # Head(s) /\ \E i \in 1..Len(s) : s[i] = y)
  <2>1. ASSUME NEW i \in 1..Len(rest), rest[i] = y PROVE y # Head(s) /\ \E j \in 1..Len(s) : s[j] = y
    <3>1. s[i + 1] = y /\ i + 1 \in 1..Len(s) /\ i + 1 # 1 /\ 1 \in 1..Len(s)
      BY <1>1, <1>2, <2>1, SMTT(20), ZenonT(20)
    <3> QED
      BY <1>1, <3>1, SMTT(20), ZenonT(20)
  <2>2. ASSUME y # Head(s), NEW i \in 1..Len(s), s[i] = y PROVE \E j \in 1..Len(rest) : rest[j] = y
    <3>1. i # 1
      BY <1>1, <2>2, SMTT(20), ZenonT(20)
    <3>2. i - 1 \in 1..Len(rest) /\ rest[i - 1] = s[i]
      BY <1>1, <1>3, <3>1, SMTT(20), ZenonT(20)
    <3> QED
      BY <2>2, <3>2, SMTT(20), ZenonT(20)
  <2> QED
    BY <2>1, <2>2, SMTT(20), ZenonT(20)
<1> QED
  BY <1>1, <1>4, <1>5, ZenonT(40) DEF rest

(* A connection that submits again keeps its object. *)
LEMMA AfterApplyFacts ==
    ASSUME NEW c, NEW after \in AfterApply(c)
    PROVE  /\ after.sock \in {"free", "open", "shell"} /\ after.again \in BOOLEAN
           /\ after.again => after.sock # "free"
<1>1. CASE after = [sock |-> "free", again |-> FALSE]
  BY <1>1
<1>2. CASE after = [sock |-> "open", again |-> FALSE]
  BY <1>2
<1>3. CASE after = [sock |-> "open", again |-> TRUE]
  BY <1>3
<1>4. CASE after = [sock |-> "shell", again |-> TRUE]
  BY <1>4
<1> QED
  BY <1>1, <1>2, <1>3, <1>4, SMTT(20), ZenonT(20) DEF AfterApply

(* The worker handles the first completion of its list. *)
LEMMA ApplyOneInvariant == ASSUME IInv, ApplyOne PROVE IInv'
<1> DEFINE c == Head(completed)
<1> DEFINE rest == Tail(order)
<1>1. /\ pc = "apply" /\ completed # <<>> /\ completed' = Tail(completed)
      /\ UNCHANGED <<draining, pc, ready, cur, loaded, wpc, sharedVars>>
      /\ UNCHANGED stopVars \/ (stop' = TRUE /\ stopfd' = TRUE)
  BY DEF ApplyOne
<1>2. PICK after \in AfterApply(c) :
       /\ sock' = [sock EXCEPT ![c] = after.sock]
       /\ pending' = IF after.again THEN pending ELSE pending \ {c}
       /\ count' = IF after.again THEN OneFewer + 1 ELSE OneFewer
       /\ wal' = IF after.again THEN Append(wal, c) ELSE wal
       /\ order' = IF after.again THEN Append(RemoveFirst(order, c), c) ELSE RemoveFirst(order, c)
  BY ZenonT(40) DEF ApplyOne
<1>3. /\ after.sock \in {"free", "open", "shell"} /\ after.again \in BOOLEAN
      /\ after.again => after.sock # "free"
  BY AfterApplyFacts
<1>4. Types /\ InHand = order /\ Pending /\ Kept
  BY DEF IInv
<1>5. c \in Conns /\ Tail(completed) \in Seq(Conns)
  BY <1>1, <1>4, HeadTailProperties DEF Types
<1> DEFINE behind == (Reverse(stack) \o InCallback) \o wal
<1>6. behind \in Seq(Conns) /\ Reverse(stack) \o InCallback \in Seq(Conns)
  BY <1>4, InHandFacts, ConcatProperties DEF Types
<1>7. \A s \in Seq(Conns) : ((s \o Reverse(stack)) \o InCallback) \o wal = s \o behind
  BY <1>4, Regroup, SMTT(20), ZenonT(20)
<1>8. order = completed \o behind
  BY <1>4, <1>7, InHandFacts, Zenon DEF Types
<1>9. order # <<>> /\ Head(order) = c /\ rest = Tail(completed) \o behind /\ order \in Seq(Conns)
  BY <1>1, <1>4, <1>6, <1>8, TailOfConcat, SMTT(20), ZenonT(20) DEF Types
<1>10. RemoveFirst(order, c) = rest
  BY <1>9, RemoveHead, SMTT(20), ZenonT(20)
<1>11. InHand' = IF after.again THEN Append(rest, c) ELSE rest
  <2>1. InHand' = ((Tail(completed) \o Reverse(stack)) \o InCallback) \o wal'
    BY <1>1, SMTT(20), ZenonT(20) DEF InHand, InCallback, sharedVars
  <2>2. CASE ~after.again
    BY <1>2, <1>5, <1>7, <1>9, <2>1, <2>2, Zenon
  <2>3. CASE after.again
    <3> DEFINE before == (Tail(completed) \o Reverse(stack)) \o InCallback
    <3>1. before \in Seq(Conns) /\ wal \in Seq(Conns) /\ <<c>> \in Seq(Conns)
      BY <1>4, <1>5, InHandFacts, ConcatProperties, SMTT(20), ZenonT(20) DEF Types
    <3>2. before \o wal = rest
      BY <1>5, <1>7, <1>9, Zenon
    <3>3. InHand' = before \o Append(wal, c)
      BY <1>2, <2>1, <2>3, ZenonT(40)
    <3> HIDE DEF before, rest
    <3>4. Append(wal, c) = wal \o <<c>> /\ before \o wal \in Seq(Conns)
      BY <3>1, <1>5, AppendIsConcat, ConcatProperties
    <3>5. Append(before \o wal, c) = (before \o wal) \o <<c>>
      BY <3>4, <1>5, AppendIsConcat, SMTT(20), ZenonT(20)
    <3> QED
      BY <2>3, <3>1, <3>2, <3>3, <3>4, <3>5, ConcatAssociative, SMTT(20), ZenonT(20)
  <2> QED
    BY <1>3, <2>2, <2>3, SMTT(20), ZenonT(20)
<1> HIDE DEF behind
<1>12. /\ rest \in Seq(Conns) /\ Len(rest) = Len(order) - 1
       /\ \A i, j \in 1..Len(rest) : rest[i] = rest[j] => i = j
       /\ \A d : (\E i \in 1..Len(rest) : rest[i] = d) <=> (d # c /\ \E i \in 1..Len(order) : order[i] = d)
  <2>1. order \in Seq(Conns) /\ order # <<>> /\ \A i, j \in 1..Len(order) : order[i] = order[j] => i = j
    BY <1>4, <1>9, SMTT(20), ZenonT(20) DEF Pending
  <2>2. /\ Tail(order) \in Seq(Conns) /\ Len(Tail(order)) = Len(order) - 1
        /\ \A i, j \in 1..Len(Tail(order)) : Tail(order)[i] = Tail(order)[j] => i = j
        /\ \A y : (\E i \in 1..Len(Tail(order)) : Tail(order)[i] = y)
                     <=> (y # Head(order) /\ \E i \in 1..Len(order) : order[i] = y)
    BY <2>1, DropFirst, ZenonT(60)
  <2> QED
    BY <1>9, <2>2, ZenonT(40)
<1>13. c \in pending /\ IsFiniteSet(pending) /\ Cardinality(pending) \in Nat \ {0}
  <2>1. c = order[1] /\ 1 \in 1..Len(order)
    BY <1>9
  <2>2. IsFiniteSet(pending)
    BY <1>4, HandoffAssumption, FS_Subset DEF Types
  <2>3. c \in pending
    BY <1>4, <1>5, <2>1 DEF Pending
  <2> QED
    BY <2>2, <2>3, FS_CardinalityType, FS_EmptySet
<1>14. OneFewer = Cardinality(pending) - 1 /\ OneFewer \in Nat
  BY <1>4, <1>13 DEF OneFewer, Pending
<1> HIDE DEF c, rest
<1>15. sock' \in [Conns -> {"free", "open", "shell"}] /\ pending' \in SUBSET Conns /\ count' \in Nat
  BY <1>2, <1>3, <1>4, <1>5, <1>14 DEF Types
<1>16. CASE after.again
  <2>1. order' = Append(rest, c) /\ wal' = Append(wal, c) /\ pending' = pending /\ count' = count
    BY <1>2, <1>4, <1>10, <1>13, <1>14, <1>16, SMTT(20), ZenonT(20) DEF Pending
  <2>2. Types'
    BY <1>1, <1>4, <1>5, <1>12, <1>15, <2>1, AppendProperties, ZenonT(40) DEF Types, stopVars, sharedVars
  <2>3. /\ Len(order') = Len(order)
        /\ \A i, j \in 1..Len(order') : order'[i] = order'[j] => i = j
        /\ \A d : (\E i \in 1..Len(order') : order'[i] = d) <=> (d = c \/ \E i \in 1..Len(rest) : rest[i] = d)
    <3>1. \A i \in 1..Len(rest) : rest[i] # c
      BY <1>12, Zenon
    <3>2. /\ Len(Append(rest, c)) = Len(rest) + 1
          /\ \A i, j \in 1..(Len(rest) + 1) : Append(rest, c)[i] = Append(rest, c)[j] => i = j
          /\ \A y : (\E i \in 1..(Len(rest) + 1) : Append(rest, c)[i] = y)
                       <=> (y = c \/ \E i \in 1..Len(rest) : rest[i] = y)
      <4>1. rest \in Seq(Conns) /\ \A i, j \in 1..Len(rest) : rest[i] = rest[j] => i = j
        BY <1>12, SMTT(20), ZenonT(20)
      <4> QED
        BY <1>5, <3>1, <4>1, EnterRequest, SMTT(20), ZenonT(20)
    <3>3. Len(rest) + 1 = Len(order)
      BY <1>9, <1>12, SMTT(20), ZenonT(20)
    <3> QED
      BY <2>1, <3>2, <3>3
  <2>4. Pending'
    BY <1>4, <1>5, <1>12, <1>13, <2>1, <2>3, ZenonT(40) DEF Pending
  <2>5. Kept'
    BY <1>2, <1>3, <1>4, <1>16, <2>1 DEF Kept, Types
  <2> QED
    BY <1>11, <1>16, <2>1, <2>2, <2>4, <2>5, SMTT(20), ZenonT(20) DEF IInv
<1>17. CASE ~after.again
  <2>1. order' = rest /\ wal' = wal /\ pending' = pending \ {c} /\ count' = Cardinality(pending) - 1
    BY <1>2, <1>10, <1>14, <1>17, SMTT(20), ZenonT(20)
  <2>2. Types'
    BY <1>1, <1>4, <1>5, <1>12, <1>15, <2>1, ZenonT(40) DEF Types, stopVars, sharedVars
  <2>3. Cardinality(pending') = Cardinality(pending) - 1
    BY <1>13, <2>1, FS_RemoveElement
  <2>4. Pending'
    BY <1>4, <1>12, <2>1, <2>3, ZenonT(40) DEF Pending
  <2>5. Kept'
    BY <1>2, <1>4, <2>1, SMTT(20), ZenonT(20) DEF Kept, Types
  <2> QED
    BY <1>11, <1>17, <2>1, <2>2, <2>4, <2>5, SMTT(20), ZenonT(20) DEF IInv
<1> QED
  BY <1>3, <1>16, <1>17, SMTT(20), ZenonT(20)

(* The worker goes back to epoll_wait or leaves. *)
LEMMA RestInvariant ==
    ASSUME IInv, ApplyDone \/ Exit \/ UNCHANGED vars
    PROVE  IInv'
<1>1. /\ UNCHANGED <<sock, pending, count, draining, ready, completed, stopVars, writerVars, sharedVars, order>>
      /\ pc' \in {"wait", "exited", pc} /\ (pc' # "apply" => completed = <<>>)
  BY DEF ApplyDone, Exit, vars, workerVars, IInv, Types
<1>2. Types'
  BY <1>1 DEF IInv, Types, stopVars, writerVars, sharedVars
<1>3. InHand' = InHand
  BY <1>1, SMTT(20), ZenonT(20) DEF InHand, writerVars, sharedVars
<1> QED
  BY <1>1, <1>2, <1>3, SameBooks, SMTT(20), ZenonT(20) DEF IInv, Kept

(* Every step of the workers and the writer keeps the invariant. *)
LEMMA NextInvariant == ASSUME IInv, [Next]_vars PROVE IInv'
BY CompleteBeginInvariant, CompletePushInvariant, SignalsInvariant, WakeInvariant, SocketInvariant,
   SubmitInvariant, DetachInvariant, ApplyOneInvariant, RestInvariant, SMTT(20), ZenonT(20) DEF Next, WriterStep, WorkerStep, SocketEvent, Finished

(* The hand-off keeps its books in every reachable state: each pending     *)
(* request is in exactly one hand, in submission order, worker.            *)
(* pending_count is exact, and nothing refers to a freed connection.       *)
THEOREM OwnersAreExact == Spec => []OwnersExact
<1>1. Init => IInv
  BY InitInvariant
<1>2. IInv /\ [Next]_vars => IInv'
  BY NextInvariant, SMTT(20), ZenonT(20)
<1>3. IInv => OwnersExact
  <2> SUFFICES ASSUME IInv PROVE OwnersExact
    OBVIOUS
  <2>1. Types /\ InHand = order /\ Pending /\ Kept
    BY DEF IInv
  <2>2. Cardinality(pending) <= Cardinality(Conns) /\ Cardinality(Conns) \in Nat
    BY <2>1, HandoffAssumption, FS_Subset, FS_CardinalityType, SMTT(20), ZenonT(20) DEF Types
  <2>3. ToSet(order) = pending
    BY <2>1, SMTT(20), ZenonT(20) DEF ToSet, Types, Pending
  <2>4. TypeOK
    BY <2>1, <2>2 DEF TypeOK, Types, Pending
  <2> QED
    BY <2>1, <2>3, <2>4, SMTT(20), ZenonT(20) DEF OwnersExact, OneOwner, CountExact, NoDanglingConn, Pending, Kept
<1> QED
  BY <1>1, <1>2, <1>3, PTL DEF Spec
=============================================================================
