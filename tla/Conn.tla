-------------------------------- MODULE Conn --------------------------------
(***************************************************************************)
(* One client connection of a v1 worker (src/src/main.c): the read and the *)
(* write buffer, frame by frame execution with at most one mutation in the *)
(* log, backpressure, and the epoll interest set and readiness list that   *)
(* decide when the connection is looked at again.                          *)
(*                                                                         *)
(* Bytes are counted in units.  A reply header is one unit, a frame's      *)
(* request and reply lengths are whole numbers of units, and the unit      *)
(* counts below index the one byte stream of each direction.  wsent and    *)
(* wfill appear as their difference: both users compact before they give   *)
(* up for lack of room.                                                    *)
(***************************************************************************)
EXTENDS Integers, Sequences, FiniteSetsExt

CONSTANTS Scripts,        \* the request sequences the client may send
          RCap, WCap,     \* sizeof rbuf and wbuf
          KCap,           \* capacity of the socket's send buffer
          Builds          \* TRIGGER_FLAG = EPOLLET, in the builds considered

Frame == [kind : {"get", "mutate", "malformed"}, req : 1..RCap, reply : 1..WCap]

(* What the constants must be. *)
ConnConstants ==
    /\ Scripts \subseteq Seq(Frame)
    /\ {RCap, WCap, KCap} \subseteq Nat \ {0}
    /\ Builds \subseteq BOOLEAN

VARIABLES
    script,     \* what this client sends
    edge,       \* this build is edge-triggered
    sent,       \* units the client has sent
    rx,         \* units in the socket's receive buffer
    rhave,      \* conn_t.rhave
    done,       \* frames consumed from rbuf
    waiting,    \* conn_t.pending # NULL
    stalled,    \* conn_t.read_stalled
    owed,       \* conn_t.wfill - conn_t.wsent
    tx,         \* units in the socket's send buffer
    wantR,      \* conn_t.want_read
    wantW,      \* conn_t.want_write
    queued,     \* the socket is on the epoll ready list
    pc,         \* where the worker is with this connection
    back,       \* where conn_process returns to
    evIn,       \* the event being handled reports EPOLLIN
    ran,        \* history: frames executed, in order
    submitted   \* history: frames given to the WAL, in order

readVars == <<rx, rhave, stalled>>
epollVars == <<wantR, wantW, queued, evIn>>
connVars == <<script, edge, sent, readVars, done, waiting, owed, tx, epollVars, pc, back, ran, submitted>>

Lesser(m, n) == IF m < n THEN m ELSE n

(* Units of the first n frames. *)
Through(n) == MapThenSumSet(LAMBDA i : script[i].req, 1..n)

ConnInit ==
    /\ script \in Scripts /\ edge \in Builds
    /\ sent = 0 /\ rx = 0 /\ rhave = 0 /\ done = 0
    /\ waiting = FALSE /\ stalled = FALSE /\ owed = 0 /\ tx = 0
    /\ wantR = TRUE /\ wantW = FALSE /\ queued = FALSE
    /\ pc = "idle" /\ back = "flush" /\ evIn = FALSE
    /\ ran = <<>> /\ submitted = <<>>

-----------------------------------------------------------------------------
(* The peer and the kernel. *)

ClientSend ==
    /\ pc # "closed" /\ sent < Through(Len(script))
    /\ sent' = sent + 1 /\ rx' = rx + 1
    /\ queued' = (queued \/ wantR)
    /\ UNCHANGED <<script, edge, rhave, stalled, done, waiting, owed, tx, wantR, wantW, evIn>>
    /\ UNCHANGED <<pc, back, ran, submitted>>

ClientReceive ==
    /\ tx > 0
    /\ tx' = 0
    /\ queued' = (queued \/ wantW)
    /\ UNCHANGED <<script, edge, sent, readVars, done, waiting, owed, wantR, wantW, evIn>>
    /\ UNCHANGED <<pc, back, ran, submitted>>

(* epoll_wait reports what is ready of what the connection asked for; an   *)
(* edge-triggered entry then leaves the list.                              *)
Event ==
    /\ pc = "idle" /\ queued
    /\ LET in == wantR /\ rx > 0
           out == wantW /\ tx < KCap IN
       /\ queued' = (~edge /\ (in \/ out))
       /\ evIn' = in
       /\ pc' = IF out THEN "writable" ELSE IF in THEN "in" ELSE "idle"
    /\ UNCHANGED <<script, edge, sent, readVars, done, waiting, owed, tx, wantR, wantW, back, ran, submitted>>

-----------------------------------------------------------------------------
(* The worker. *)

(* conn_flush with n units owed: write until the buffer is empty or the    *)
(* socket is full.                                                         *)
FlushOf(n) ==
    LET k == Lesser(n, KCap - tx) IN owed' = n - k /\ tx' = tx + k

(* worker_main's EPOLLIN test, behind the EPOLLOUT one. *)
InputEvent ==
    /\ pc = "in"
    /\ pc' = IF evIn /\ ~waiting THEN "read" ELSE "flush"
    /\ evIn' = FALSE
    /\ UNCHANGED <<script, edge, sent, readVars, done, waiting, owed, tx, wantR, wantW, queued>>
    /\ UNCHANGED <<back, ran, submitted>>

(* conn_on_readable, up to the call of conn_process. *)
Read ==
    /\ pc = "read"
    /\ \/ /\ rhave = RCap
          /\ stalled' = TRUE /\ pc' = "in"
          /\ UNCHANGED <<rx, rhave, back>>
       \/ /\ rhave < RCap /\ rx = 0
          /\ pc' = "in"
          /\ UNCHANGED <<readVars, back>>
       \/ /\ rhave < RCap /\ rx > 0
          /\ LET n == Lesser(rx, RCap - rhave) IN rx' = rx - n /\ rhave' = rhave + n
          /\ pc' = "process" /\ back' = "read"
          /\ UNCHANGED stalled
    /\ UNCHANGED <<script, edge, sent, done, waiting, owed, tx, epollVars, ran, submitted>>

(* A complete frame is at the front of rbuf. *)
HasFrame == done < Len(script) /\ rhave >= script[done + 1].req
Current == script[done + 1]

Room == WCap - owed

(* Mutant: a mutation is submitted whether its reply will fit or not. *)
GetRoomOnly == IF Current.kind = "get" THEN Current.reply ELSE 0

(* What must be free in wbuf before the frame is executed: a whole GET     *)
(* reply, or the header of a mutation's.                                   *)
RoomNeeded == IF Current.kind = "get" THEN Current.reply ELSE 1

(* pk_request_decode answers PK_DECODE_ERROR. *)
Malformed == ~waiting /\ HasFrame /\ Current.kind = "malformed"

(* Mutant: a frame is executed beside the pending one. *)
ExecutesAnyway == HasFrame /\ Current.kind # "malformed" /\ Room >= RoomNeeded

Executes == ~waiting /\ HasFrame /\ Current.kind # "malformed" /\ Room >= RoomNeeded

Consume == done' = done + 1 /\ rhave' = rhave - Current.req

(* One turn of conn_process' loop.  A GET is answered; a mutation goes to  *)
(* the log, or is answered with an error when it cannot.                   *)
ProcessFrame ==
    /\ pc = "process" /\ Executes
    /\ Consume
    /\ \/ /\ Current.kind = "get"
          /\ owed' = owed + Current.reply /\ ran' = Append(ran, done + 1)
          /\ UNCHANGED <<waiting, submitted>>
       \/ /\ Current.kind = "mutate"
          /\ waiting' = TRUE /\ submitted' = Append(submitted, done + 1)
          /\ UNCHANGED <<owed, ran>>
       \/ /\ Current.kind = "mutate"
          /\ owed' = owed + 1 /\ ran' = Append(ran, done + 1)
          /\ UNCHANGED <<waiting, submitted>>
    /\ UNCHANGED <<script, edge, sent, rx, stalled, tx, epollVars, pc, back>>

(* conn_close drops the socket, after one flush if nothing is pending. *)
CloseOwing(n) ==
    /\ pc' = "closed" /\ wantR' = FALSE /\ wantW' = FALSE /\ queued' = FALSE
    /\ IF waiting THEN UNCHANGED <<owed, tx>> ELSE FlushOf(n)
    /\ UNCHANGED <<script, edge, sent, readVars, done, waiting, evIn, back, ran, submitted>>

(* A malformed frame is answered with an error if it fits. *)
CloseMalformed ==
    /\ pc = "process" /\ Malformed
    /\ CloseOwing(owed + Lesser(Room, 1))

(* A hang-up, or a read, write or epoll error. *)
Close ==
    /\ pc \in {"idle", "read", "writable", "flush", "interest"}
    /\ CloseOwing(owed)

(* conn_process returns: no whole frame, no room, or a pending mutation.   *)
(* Its caller reads on, resumes a stalled read, or goes on to flush.       *)
ProcessReturns ==
    /\ pc = "process" /\ ~Executes /\ ~Malformed
    /\ \/ /\ back = "read"
          /\ pc' = IF waiting \/ ~edge THEN "in" ELSE "read"
          /\ UNCHANGED stalled
       \/ /\ back = "writable"
          /\ IF ~waiting /\ stalled /\ rhave < RCap
             THEN stalled' = FALSE /\ pc' = "read"
             ELSE UNCHANGED stalled /\ pc' = "in"
       \/ /\ back = "flush"
          /\ pc' = "flush"
          /\ UNCHANGED stalled
    /\ UNCHANGED <<script, edge, sent, rx, rhave, done, waiting, owed, tx, epollVars, back, ran, submitted>>

(* conn_on_writable: flush, then conn_process. *)
Writable ==
    /\ pc = "writable" /\ pc' = "process" /\ back' = "writable"
    /\ FlushOf(owed)
    /\ UNCHANGED <<script, edge, sent, readVars, done, waiting, epollVars, ran, submitted>>

Flush ==
    /\ pc = "flush" /\ pc' = "interest"
    /\ FlushOf(owed)
    /\ UNCHANGED <<script, edge, sent, readVars, done, waiting, epollVars, back, ran, submitted>>

(* Mutant: EPOLLOUT is never asked for. *)
NeedsNoWrite == FALSE

NeedWrite == owed > 0

NeedRead == ~waiting

(* conn_update_interest: EPOLL_CTL_MOD looks at readiness again. *)
UpdateInterest ==
    /\ pc = "interest" /\ pc' = "idle"
    /\ wantR' = NeedRead /\ wantW' = NeedWrite
    /\ queued' = \/ queued
                 \/ /\ wantR' # wantR \/ wantW' # wantW
                    /\ (wantR' /\ rx > 0) \/ (wantW' /\ tx < KCap)
    /\ UNCHANGED <<script, edge, sent, readVars, done, waiting, owed, tx, evIn, back, ran, submitted>>

(* process_wal_completions for this connection: the reply goes into the    *)
(* room reserved for it, then the frames behind it are executed.  Without  *)
(* room the connection is closed.                                          *)
Completion ==
    /\ waiting /\ pc \in {"idle", "closed"}
    /\ waiting' = FALSE
    /\ ran' = Append(ran, submitted[Len(submitted)])
    /\ IF pc = "idle" /\ Room >= 1
       THEN owed' = owed + 1 /\ pc' = "process" /\ back' = "flush"
       ELSE pc' = "closed" /\ UNCHANGED <<owed, back>>
    /\ UNCHANGED <<script, edge, sent, readVars, done, tx, epollVars, submitted>>

-----------------------------------------------------------------------------
Worker == Event \/ InputEvent \/ Read \/ ProcessFrame \/ ProcessReturns \/ Writable \/ Flush \/ UpdateInterest

(* A client with nothing left to send or receive, or a closed connection. *)
Quiet ==
    /\ pc = "closed" \/ (sent = Through(Len(script)) /\ tx = 0)
    /\ UNCHANGED connVars

ConnNext == ClientSend \/ ClientReceive \/ Worker \/ Completion \/ CloseMalformed \/ Close \/ Quiet

ConnSpec == ConnInit /\ [][ConnNext]_connVars

(* The worker runs, the log completes (Wal!AllComplete), and the client    *)
(* keeps reading its replies.  It never owes a request or a hang-up.       *)
ConnFairSpec == ConnSpec /\ WF_connVars(Worker \/ CloseMalformed) /\ WF_connVars(Completion) /\ WF_connVars(ClientReceive)
-----------------------------------------------------------------------------
ConnTypeOK ==
    /\ script \in Scripts /\ edge \in Builds /\ sent \in Nat /\ rx \in Nat
    /\ rhave \in 0..RCap /\ owed \in 0..WCap /\ tx \in 0..KCap
    /\ done \in 0..Len(script)
    /\ {waiting, stalled, wantR, wantW, queued, evIn} \subseteq BOOLEAN
    /\ pc \in {"idle", "in", "read", "writable", "process", "flush", "interest", "closed"}
    /\ back \in {"read", "writable", "flush"}
    /\ {ran, submitted} \subseteq Seq(1..Len(script))

(* Program order: frames take effect one by one in the order they were     *)
(* sent, none twice and none skipped, though a mutation waits for the disk *)
(* and backpressure makes frames be decoded again.  No mutation goes to    *)
(* the log twice or behind a later one ("submitted exactly once").         *)
ProgramOrder ==
    /\ \A i \in 1..Len(ran) : ran[i] = i
    /\ \A i, j \in 1..Len(submitted) : i < j => submitted[i] < submitted[j]

(* The reply of the mutation in the log has its place in wbuf until it is  *)
(* queued, so a durable mutation never costs the client its connection.    *)
ReplyReserved == waiting => Room >= 1

(* The buffers never hold more than they can, nor miss the room they owe. *)
BuffersSafe == ConnTypeOK /\ ReplyReserved

(* Every queued reply reaches a client that keeps reading, and every byte  *)
(* the client sends is read, unless a frame is parked in rbuf: whatever    *)
(* edge was consumed while the connection was not interested in it.        *)
Parked == pc = "idle" /\ ~waiting /\ HasFrame
Flows ==
    /\ owed > 0 ~> (owed = 0 \/ pc = "closed")
    /\ rx > 0 ~> (rx = 0 \/ Parked \/ pc = "closed")

(* "if wbuf has no room, the request stays in rbuf and is re-decoded after *)
(* the socket drains": every whole frame the client sent is executed.      *)
AllExecuted ==
    \A i \in 1..3 :
        (i <= Len(script) /\ sent >= Through(i)) ~> (Len(ran) >= i \/ pc = "closed")
=============================================================================
