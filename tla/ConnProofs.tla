----------------------------- MODULE ConnProofs -----------------------------
(***************************************************************************)
(* Proofs about one connection of a v1 worker: for every script of         *)
(* requests, every size of the two buffers and of the socket's, and both   *)
(* builds, frames take effect once and in order, and the reply of a        *)
(* mutation in the log finds the room that was kept for it.                *)
(***************************************************************************)
EXTENDS Conn, TLAPS

(* The frames consumed are the ones that ran, and the one in the log, if   *)
(* there is one, is the last of them.                                      *)
InLog ==
    /\ ~waiting => Len(ran) = done
    /\ waiting => Len(ran) + 1 = done /\ submitted # <<>> /\ submitted[Len(submitted)] = done

(* Nothing went to the log that was not consumed. *)
SubmittedConsumed == \A i \in 1..Len(submitted) : submitted[i] <= done

IInv == ConnTypeOK /\ ReplyReserved /\ ProgramOrder /\ InLog /\ SubmittedConsumed

(* What the order of the frames is about. *)
Progress == <<script, done, waiting, ran, submitted>>

-----------------------------------------------------------------------------
(* The smaller of two numbers is one of them. *)
LEMMA SmallerIsLess ==
    ASSUME NEW m \in Nat, NEW n \in Nat
    PROVE  /\ Lesser(m, n) \in Nat
           /\ Lesser(m, n) <= m /\ Lesser(m, n) <= n
BY DEF Lesser

(* A step that consumes nothing and completes nothing keeps the order. *)
LEMMA OrderKept ==
    ASSUME ProgramOrder, InLog, SubmittedConsumed, UNCHANGED Progress
    PROVE  ProgramOrder' /\ InLog' /\ SubmittedConsumed'
<1>1. ran' = ran /\ submitted' = submitted /\ done' = done /\ waiting' = waiting
  BY DEF Progress
<1> QED
  BY <1>1 DEF ProgramOrder, InLog, SubmittedConsumed

(* conn_flush moves units from wbuf to the socket, as many as fit. *)
LEMMA FlushFits ==
    ASSUME KCap \in Nat, WCap \in Nat, tx \in 0..KCap,
           NEW n \in 0..WCap, FlushOf(n)
    PROVE  owed' \in 0..n /\ tx' \in 0..KCap
<1> DEFINE k == Lesser(n, KCap - tx)
<1>1. k \in Nat /\ k <= n /\ k <= KCap - tx
  BY SmallerIsLess
<1>2. owed' = n - k /\ tx' = tx + k
  BY DEF FlushOf
<1> QED
  BY <1>1, <1>2

(* The less is owed, the more room there is. *)
LEMMA RoomGrows ==
    ASSUME NEW cap \in Nat, NEW m \in 0..cap, NEW n \in 0..m, cap - m >= 1
    PROVE  cap - n >= 1
OBVIOUS

(* The frame at the front of rbuf is one of the script's. *)
LEMMA CurrentIsFrame ==
    ASSUME ConnConstants, ConnTypeOK, HasFrame
    PROVE  /\ Current \in Frame /\ done + 1 \in 1..Len(script)
           /\ Current.req \in 1..RCap /\ Current.req <= rhave /\ Current.reply \in 1..WCap
<1>1. script \in Seq(Frame) /\ done \in 0..Len(script) /\ Len(script) \in Nat
  BY DEF ConnConstants, ConnTypeOK
<1>2. done + 1 \in 1..Len(script)
  BY <1>1 DEF HasFrame
<1>3. Current \in Frame
  BY <1>1, <1>2 DEF Current
<1> QED
  BY <1>2, <1>3 DEF Frame, HasFrame, Current

-----------------------------------------------------------------------------
(* A connection that was just accepted satisfies the invariant. *)
LEMMA InitInvariant == ASSUME ConnConstants, ConnInit PROVE IInv
<1>1. ConnTypeOK
  <2>1. script \in Seq(Frame) /\ Len(script) \in Nat
    BY DEF ConnInit, ConnConstants
  <2>2. edge \in Builds /\ {waiting, stalled, wantR, wantW, queued, evIn} \subseteq BOOLEAN
    BY Zenon DEF ConnInit
  <2>3. rhave \in 0..RCap /\ owed \in 0..WCap /\ tx \in 0..KCap /\ done \in 0..Len(script)
    BY <2>1 DEF ConnInit, ConnConstants
  <2> QED
    BY <2>1, <2>2, <2>3 DEF ConnInit, ConnTypeOK
<1>2. ReplyReserved /\ ProgramOrder /\ InLog /\ SubmittedConsumed
  BY DEF ConnInit, ReplyReserved, ProgramOrder, InLog, SubmittedConsumed
<1> QED
  BY <1>1, <1>2 DEF IInv

(* The steps of the peer, of epoll and of the reading half of the worker   *)
(* leave wbuf and the frames alone.                                        *)
LEMMA QuietSteps ==
    ASSUME ConnConstants, IInv,
           ClientSend \/ ClientReceive \/ Event \/ InputEvent \/ Read \/ ProcessReturns \/ UpdateInterest
    PROVE  IInv'
<1> USE DEF IInv
<1>0. /\ RCap \in Nat \ {0} /\ WCap \in Nat \ {0} /\ KCap \in Nat \ {0}
  BY DEF ConnConstants
<1>1. UNCHANGED Progress /\ owed' = owed
  BY DEF ClientSend, ClientReceive, Event, InputEvent, Read, ProcessReturns, UpdateInterest, Progress, readVars, epollVars
<1>2. ConnTypeOK'
  <2>1. CASE ClientSend
    BY <2>1 DEF ClientSend, ConnTypeOK
  <2>2. CASE ClientReceive
    BY <1>0, <2>2 DEF ClientReceive, ConnTypeOK, readVars
  <2>3. CASE Event
    BY <2>3 DEF Event, ConnTypeOK, readVars
  <2>4. CASE InputEvent
    BY <2>4 DEF InputEvent, ConnTypeOK, readVars
  <2>5. CASE Read
    <3>1. rx' \in Nat /\ rhave' \in 0..RCap
      <4>1. CASE rhave < RCap /\ rx > 0
        <5>1. rx \in Nat /\ rhave \in 0..RCap /\ RCap - rhave \in Nat
          BY <1>0, <4>1 DEF ConnTypeOK
        <5>2. PICK n : n = Lesser(rx, RCap - rhave) /\ rx' = rx - n /\ rhave' = rhave + n
          BY <2>5, <4>1, <5>1 DEF Read
        <5>3. n \in Nat /\ n <= rx /\ n <= RCap - rhave
          BY <5>1, <5>2, SmallerIsLess
        <5> QED
          BY <1>0, <5>1, <5>2, <5>3
      <4>2. CASE ~(rhave < RCap /\ rx > 0)
        BY <2>5, <4>2 DEF Read, ConnTypeOK, readVars
      <4> QED
        BY <4>1, <4>2
    <3>2. stalled' \in BOOLEAN /\ pc' \in {"in", "process"} /\ back' \in {"read", "writable", "flush"}
      BY <2>5 DEF Read, ConnTypeOK, readVars
    <3> QED
      BY <2>5, <3>1, <3>2 DEF Read, ConnTypeOK, epollVars
  <2>6. CASE ProcessReturns
    BY <2>6 DEF ProcessReturns, ConnTypeOK, epollVars
  <2>7. CASE UpdateInterest
    BY <2>7 DEF UpdateInterest, ConnTypeOK, readVars, NeedRead, NeedWrite
  <2> QED
    BY <2>1, <2>2, <2>3, <2>4, <2>5, <2>6, <2>7
<1>3. ReplyReserved'
  BY <1>1 DEF ReplyReserved, Room, Progress
<1> QED
  BY <1>1, <1>2, <1>3, OrderKept

(* One turn of conn_process' loop consumes the next frame: it runs at      *)
(* once, or it is the one in the log.                                      *)
LEMMA ProcessFrameKeeps == ASSUME ConnConstants, IInv, ProcessFrame PROVE IInv'
<1> USE DEF IInv
<1>0. /\ RCap \in Nat \ {0} /\ WCap \in Nat \ {0} /\ KCap \in Nat \ {0}
  BY DEF ConnConstants
<1>1. ~waiting /\ HasFrame /\ Room >= RoomNeeded
  BY DEF ProcessFrame, Executes
<1>2. /\ Current.req \in 1..RCap /\ Current.req <= rhave /\ Current.reply \in 1..WCap
      /\ done + 1 \in 1..Len(script)
  BY <1>1, CurrentIsFrame
<1>3. /\ rhave \in 0..RCap /\ owed \in 0..WCap /\ done \in Nat /\ Len(script) \in Nat
      /\ ran \in Seq(1..Len(script)) /\ submitted \in Seq(1..Len(script))
  <2>1. script \in Seq(Frame)
    BY DEF ConnConstants, ConnTypeOK
  <2> QED
    BY <2>1 DEF ConnTypeOK
<1>4. done' = done + 1 /\ rhave' = rhave - Current.req
  BY DEF ProcessFrame, Consume
<1>5. UNCHANGED <<script, edge, sent, rx, stalled, tx, wantR, wantW, queued, evIn, pc, back>>
  BY DEF ProcessFrame, epollVars
<1>6. Len(ran) = done /\ \A i \in 1..Len(ran) : ran[i] = i
  BY <1>1 DEF InLog, ProgramOrder
<1>7. rhave' \in 0..RCap /\ done' \in 0..Len(script')
  BY <1>0, <1>2, <1>3, <1>4, <1>5
<1>8. ASSUME NEW k \in 1..WCap, owed + k <= WCap,
             owed' = owed + k, ran' = Append(ran, done + 1), UNCHANGED <<waiting, submitted>>
      PROVE  IInv'
  <2>1. owed' \in 0..WCap
    BY <1>0, <1>3, <1>8
  <2>2. ran' \in Seq(1..Len(script)) /\ Len(ran') = done + 1 /\ \A i \in 1..Len(ran') : ran'[i] = i
    BY <1>2, <1>3, <1>6, <1>8
  <2>3. ConnTypeOK'
    BY <1>3, <1>5, <1>7, <1>8, <2>1, <2>2 DEF ConnTypeOK
  <2>4. ReplyReserved' /\ InLog'
    BY <1>1, <1>4, <1>8, <2>2 DEF ReplyReserved, InLog
  <2>5. ProgramOrder'
    BY <1>8, <2>2 DEF ProgramOrder
  <2>6. SubmittedConsumed'
    <3> SUFFICES ASSUME NEW i \in 1..Len(submitted) PROVE submitted[i] <= done'
      BY <1>8 DEF SubmittedConsumed
    <3>1. submitted[i] <= done /\ submitted[i] \in Nat
      BY <1>3 DEF SubmittedConsumed
    <3> QED
      BY <1>3, <1>4, <3>1
  <2> QED
    BY <2>3, <2>4, <2>5, <2>6
<1>9. CASE Current.kind = "get" /\ owed' = owed + Current.reply /\ ran' = Append(ran, done + 1)
           /\ UNCHANGED <<waiting, submitted>>
  <2>1. owed + Current.reply <= WCap
    BY <1>0, <1>1, <1>2, <1>3, <1>9 DEF Room, RoomNeeded
  <2> QED
    BY <1>2, <1>8, <1>9, <2>1
<1>10. CASE Current.kind = "mutate" /\ owed' = owed + 1 /\ ran' = Append(ran, done + 1)
            /\ UNCHANGED <<waiting, submitted>>
  <2>1. owed + 1 <= WCap /\ 1 \in 1..WCap
    BY <1>0, <1>1, <1>3, <1>10 DEF Room, RoomNeeded
  <2> QED
    BY <1>8, <1>10, <2>1
<1>11. CASE Current.kind = "mutate" /\ waiting' = TRUE /\ submitted' = Append(submitted, done + 1)
            /\ UNCHANGED <<owed, ran>>
  <2>1. submitted' \in Seq(1..Len(script)) /\ Len(submitted') = Len(submitted) + 1
    BY <1>2, <1>3, <1>11
  <2>2. /\ \A i \in 1..Len(submitted) : submitted'[i] = submitted[i]
        /\ submitted'[Len(submitted) + 1] = done + 1
    <3>1. submitted' = Append(submitted, done + 1) /\ submitted \in Seq(1..Len(script))
      BY <1>3, <1>11
    <3> QED
      BY <1>2, <3>1
  <2>3. ConnTypeOK'
    BY <1>3, <1>5, <1>7, <1>11, <2>1 DEF ConnTypeOK
  <2>4. ReplyReserved'
    BY <1>0, <1>1, <1>3, <1>11 DEF ReplyReserved, Room, RoomNeeded
  <2>5. InLog'
    <3>1. Len(ran') + 1 = done' /\ waiting'
      BY <1>4, <1>6, <1>11
    <3>2. submitted' # <<>> /\ submitted'[Len(submitted')] = done'
      BY <1>3, <1>4, <2>1, <2>2
    <3> QED
      BY <3>1, <3>2 DEF InLog
  <2>6. SubmittedConsumed'
    <3> SUFFICES ASSUME NEW i \in 1..Len(submitted') PROVE submitted'[i] <= done'
      BY DEF SubmittedConsumed
    <3>1. Len(submitted) \in Nat
      BY <1>3
    <3>2. CASE i \in 1..Len(submitted)
      <4>1. submitted[i] <= done /\ submitted[i] \in Nat
        BY <1>3, <3>2 DEF SubmittedConsumed
      <4> QED
        BY <1>3, <1>4, <2>2, <3>2, <4>1
    <3>3. CASE i \notin 1..Len(submitted)
      BY <1>3, <1>4, <2>1, <2>2, <3>1, <3>3
    <3> QED
      BY <3>2, <3>3
  <2>7. ProgramOrder'
    <3>1. \A i, j \in 1..Len(submitted') : i < j => submitted'[i] < submitted'[j]
      <4> SUFFICES ASSUME NEW i \in 1..Len(submitted'), NEW j \in 1..Len(submitted'), i < j
                   PROVE  submitted'[i] < submitted'[j]
        OBVIOUS
      <4>0. PICK m \in Nat : m = Len(submitted)
        BY <1>3
      <4>1. i \in 1..m /\ j \in 1..(m + 1) /\ submitted'[i] = submitted[i]
        <5>1. i \in 1..(m + 1) /\ j \in 1..(m + 1)
          BY <2>1, <4>0
        <5>2. i \in 1..m
          BY <5>1
        <5> QED
          BY <2>2, <4>0, <5>1, <5>2
      <4>2. submitted[i] <= done /\ submitted[i] \in Nat
        BY <1>3, <4>0, <4>1 DEF SubmittedConsumed
      <4>3. CASE j \in 1..m
        BY <2>2, <4>0, <4>1, <4>3 DEF ProgramOrder
      <4>4. CASE j = m + 1
        BY <1>3, <2>2, <4>0, <4>1, <4>2, <4>4
      <4> QED
        BY <4>1, <4>3, <4>4
    <3> QED
      BY <1>6, <1>11, <3>1 DEF ProgramOrder
  <2> QED
    BY <2>3, <2>4, <2>5, <2>6, <2>7
<1> QED
  BY <1>9, <1>10, <1>11 DEF ProcessFrame

(* Writing to the socket only makes room. *)
LEMMA FlushKeeps == ASSUME ConnConstants, IInv, Writable \/ Flush PROVE IInv'
<1> USE DEF IInv
<1>0. /\ RCap \in Nat \ {0} /\ WCap \in Nat \ {0} /\ KCap \in Nat \ {0}
  BY DEF ConnConstants
<1>1. owed \in 0..WCap /\ tx \in 0..KCap /\ FlushOf(owed)
  BY DEF ConnTypeOK, Writable, Flush
<1>2. owed' \in 0..owed /\ tx' \in 0..KCap
  BY <1>0, <1>1, FlushFits
<1>3. UNCHANGED Progress
  BY DEF Writable, Flush, Progress
<1>4. ConnTypeOK'
  <2>1. owed' \in 0..WCap
    BY <1>0, <1>1, <1>2
  <2> QED
    BY <1>2, <2>1 DEF Writable, Flush, ConnTypeOK, readVars, epollVars
<1>5. ReplyReserved'
  <2>1. WCap - owed >= 1 => WCap - owed' >= 1
    BY <1>0, <1>1, <1>2, RoomGrows
  <2>2. waiting' = waiting
    BY <1>3 DEF Progress
  <2> QED
    BY <2>1, <2>2 DEF ReplyReserved, Room
<1> QED
  BY <1>3, <1>4, <1>5, OrderKept

(* A connection may be closed with a mutation in the log, whose room is    *)
(* then left as it is.                                                     *)
LEMMA CloseKeeps == ASSUME ConnConstants, IInv, CloseMalformed \/ Close PROVE IInv'
<1> USE DEF IInv
<1>0. /\ RCap \in Nat \ {0} /\ WCap \in Nat \ {0} /\ KCap \in Nat \ {0}
  BY DEF ConnConstants
<1>1. owed \in 0..WCap /\ tx \in 0..KCap
  BY DEF ConnTypeOK
<1>2. PICK n : n \in 0..WCap /\ CloseOwing(n)
  <2>1. CASE CloseMalformed
    <3>1. Lesser(Room, 1) \in Nat /\ Lesser(Room, 1) <= WCap - owed
      <4>1. Room \in Nat /\ Room = WCap - owed
        BY <1>0, <1>1 DEF Room
      <4> QED
        BY <4>1, SmallerIsLess
    <3>2. owed + Lesser(Room, 1) \in 0..WCap
      BY <1>0, <1>1, <3>1
    <3> QED
      BY <2>1, <3>2 DEF CloseMalformed
  <2>2. CASE Close
    BY <1>1, <2>2 DEF Close
  <2> QED
    BY <2>1, <2>2
<1>3. UNCHANGED Progress
  BY <1>2 DEF CloseOwing, Progress
<1>4. owed' \in 0..WCap /\ tx' \in 0..KCap /\ (waiting => owed' = owed)
  <2>1. CASE waiting
    BY <1>1, <1>2, <2>1 DEF CloseOwing
  <2>2. CASE ~waiting
    <3>1. FlushOf(n)
      BY <1>2, <2>2 DEF CloseOwing
    <3>2. owed' \in 0..n /\ tx' \in 0..KCap
      BY <1>0, <1>1, <1>2, <3>1, FlushFits
    <3> QED
      BY <1>0, <1>2, <2>2, <3>2
  <2> QED
    BY <2>1, <2>2
<1>5. ConnTypeOK'
  BY <1>2, <1>4 DEF CloseOwing, ConnTypeOK, readVars
<1>6. ReplyReserved'
  BY <1>3, <1>4 DEF ReplyReserved, Room, Progress
<1> QED
  BY <1>3, <1>5, <1>6, OrderKept

(* A completion runs the frame that is in the log, which is the next in    *)
(* order, and its reply fits.                                              *)
LEMMA CompletionKeeps == ASSUME ConnConstants, IInv, Completion PROVE IInv'
<1> USE DEF IInv
<1>0. /\ RCap \in Nat \ {0} /\ WCap \in Nat \ {0} /\ KCap \in Nat \ {0}
  BY DEF ConnConstants
<1>1. /\ owed \in 0..WCap /\ done \in Nat /\ Len(script) \in Nat /\ done \in 0..Len(script)
      /\ ran \in Seq(1..Len(script)) /\ submitted \in Seq(1..Len(script))
  <2>1. script \in Seq(Frame)
    BY DEF ConnConstants, ConnTypeOK
  <2> QED
    BY <2>1 DEF ConnTypeOK
<1>2. waiting /\ waiting' = FALSE
  BY DEF Completion
<1>3. Len(ran) + 1 = done /\ submitted[Len(submitted)] = done
  BY <1>2 DEF InLog
<1>4. ran' = Append(ran, done) /\ UNCHANGED <<script, done, submitted>>
  BY <1>3 DEF Completion
<1>5. owed' \in 0..WCap
  BY <1>0, <1>1 DEF Completion, Room
<1>6. ran' \in Seq(1..Len(script)) /\ Len(ran') = done
  <2>1. done \in 1..Len(script) /\ Len(ran) \in Nat
    BY <1>1, <1>3
  <2> QED
    BY <1>1, <1>3, <1>4, <2>1
<1>7. \A i \in 1..Len(ran') : ran'[i] = i
  <2> SUFFICES ASSUME NEW i \in 1..Len(ran') PROVE ran'[i] = i
    OBVIOUS
  <2>1. CASE i \in 1..Len(ran)
    BY <1>1, <1>3, <1>4, <2>1 DEF ProgramOrder
  <2>2. CASE i \notin 1..Len(ran)
    BY <1>1, <1>3, <1>4, <1>6, <2>2
  <2> QED
    BY <2>1, <2>2
<1>8. ConnTypeOK'
  <2>1. pc' \in {"process", "closed"} /\ back' \in {"read", "writable", "flush"}
    BY DEF Completion, ConnTypeOK
  <2>2. UNCHANGED <<script, edge, sent, rx, rhave, stalled, done, tx, wantR, wantW, queued, evIn, submitted>>
    BY DEF Completion, readVars, epollVars
  <2> QED
    BY <1>1, <1>2, <1>5, <1>6, <2>1, <2>2 DEF ConnTypeOK
<1>9. ProgramOrder'
  BY <1>4, <1>7 DEF ProgramOrder
<1>10. SubmittedConsumed' /\ InLog' /\ ReplyReserved'
  BY <1>2, <1>4, <1>6 DEF SubmittedConsumed, InLog, ReplyReserved
<1> QED
  BY <1>8, <1>9, <1>10

(* Every step keeps the invariant. *)
LEMMA NextInvariant == ASSUME ConnConstants, IInv, [ConnNext]_connVars PROVE IInv'
<1>1. CASE UNCHANGED connVars
  BY <1>1 DEF IInv, ConnTypeOK, ReplyReserved, Room, ProgramOrder, InLog, SubmittedConsumed, connVars, readVars, epollVars
<1>2. CASE ConnNext /\ ~Quiet
  BY <1>2, QuietSteps, ProcessFrameKeeps, FlushKeeps, CloseKeeps, CompletionKeeps DEF ConnNext, Worker
<1> QED
  BY <1>1, <1>2 DEF Quiet

(* The invariant, for every script, buffer size and build. *)
THEOREM Invariance == ASSUME ConnConstants PROVE ConnSpec => []IInv
<1>1. ConnInit => IInv
  BY InitInvariant
<1>2. IInv /\ [ConnNext]_connVars => IInv'
  BY NextInvariant
<1> QED
  BY <1>1, <1>2, PTL DEF ConnSpec

(* The buffers hold no more than they can, and a mutation in the log       *)
(* always has room for its reply, so that conn_queue_reply never has to    *)
(* close the connection of a durable mutation.                             *)
THEOREM BuffersAreSafe == ASSUME ConnConstants PROVE ConnSpec => []BuffersSafe
<1>1. IInv => BuffersSafe
  BY DEF IInv, BuffersSafe
<1> QED
  BY <1>1, Invariance, PTL

(* Frames run in the order they were sent, none skipped and none twice,    *)
(* and no mutation is given to the log twice or behind a later one.        *)
THEOREM FramesAreInOrder == ASSUME ConnConstants PROVE ConnSpec => []ProgramOrder
<1>1. IInv => ProgramOrder
  BY DEF IInv
<1> QED
  BY <1>1, Invariance, PTL
=============================================================================
