------------------------------ MODULE Transport ------------------------------
(***************************************************************************)
(* How a value crosses the wire: control/internal/transport on the caller's *)
(* side, and the Get, Put, GetChunked and PutChunked handlers of the node's *)
(* shim on the other.  Several callers work on one key of one node, whose   *)
(* engine may drop it at any time; any call may break at any frame.         *)
(*                                                                         *)
(* A value is the sequence of its bytes.  A frame is delivered in order or  *)
(* the stream breaks (gRPC), so sending and receiving one is one step.      *)
(***************************************************************************)
EXTENDS Integers, Sequences, FiniteSetsExt, Functions

CONSTANTS Writer,
          Values,           \* the values that are written
          UnaryValueLimit,  \* the longest value of a unary call
          ChunkSize,        \* ChunkSize of PutChunked, kChunkBytes of GetChunked
          NoValue

(* The bytes that occur in a value. *)
Byte == UNION {Range(v) : v \in Values}

(* What the constants must be: values are byte sequences, and a chunk      *)
(* carries at least one byte.                                              *)
TransportConstants ==
    /\ Values \subseteq Seq(Byte)
    /\ ChunkSize \in Nat \ {0} /\ UnaryValueLimit \in Nat

VARIABLES
    stored,  \* the engine's value for the key, or NoValue
    put,     \* put[w]: the call of writer w
    get,     \* the call of the reader
    during   \* what the key was at some moment of the reader's call

transportVars == <<stored, put, get, during>>

IdlePut == [pc |-> "idle", value |-> <<>>, acks |-> 0, sent |-> 0, buffer |-> <<>>, wrote |-> FALSE, acked |-> 0]
IdleGet == [pc |-> "idle", auto |-> FALSE, source |-> <<>>, received |-> 0, out |-> NoValue]

(* The engine's put: the key has the value from now on. *)
Store(v) == stored' = v /\ during' = during \cup {v}

---------------------------------------------------------------------------
(* Frames.                                                                 *)

TotalChunks(len) == IF len = 0 THEN 1 ELSE 1 + (len - 1) \div ChunkSize

Frame(value, i) ==
    [index |-> i, chunks |-> TotalChunks(Len(value)), length |-> Len(value),
     data |-> SubSeq(value, i * ChunkSize + 1, Min({(i + 1) * ChunkSize, Len(value)}))]

(* PutChunked, for a frame: in order, and not past the declared length. *)
Takes(p, frame) ==
    /\ frame.index = p.sent
    /\ Len(p.buffer) + Len(frame.data) <= frame.length
    /\ p.sent + 1 <= frame.chunks

(* PutChunked, at the end of the stream: all of it has come. *)
Complete(p) ==
    /\ p.sent > 0 /\ p.sent = TotalChunks(Len(p.value))
    /\ Len(p.buffer) = Len(p.value)

---------------------------------------------------------------------------
(* PutWithAck.                                                             *)

Fails(w) == put' = [put EXCEPT ![w] = [IdlePut EXCEPT !.pc = "error"]]

Chunked(value) == Len(value) > UnaryValueLimit

PutStart(w) ==
    /\ put[w].pc \in {"idle", "ok", "error"}
    /\ \E v \in Values, a \in {0, 1} :
          put' = [put EXCEPT ![w] = [IdlePut EXCEPT !.pc = "call", !.value = v, !.acks = a]]
    /\ UNCHANGED <<stored, get, during>>

(* The unary handler stores the value, and waits for the replicas the      *)
(* caller asks for; it may refuse, and the answer may be lost.             *)
PutUnary(w) ==
    /\ put[w].pc = "call" /\ ~Chunked(put[w].value)
    /\ \/ Fails(w) /\ UNCHANGED <<stored, during>>
       \/ Store(put[w].value) /\ Fails(w)
       \/ /\ Store(put[w].value)
          /\ put' = [put EXCEPT ![w].pc = "ok", ![w].wrote = TRUE, ![w].acked = put[w].acks]
    /\ UNCHANGED get

(* A stream carries no require_replica_acks: the call is refused. *)
MayStream(p) == Chunked(p.value) /\ p.acks = 0

PutRefused(w) ==
    /\ put[w].pc = "call" /\ Chunked(put[w].value) /\ ~MayStream(put[w])
    /\ Fails(w)
    /\ UNCHANGED <<stored, get, during>>

PutOpen(w) ==
    /\ put[w].pc = "call" /\ MayStream(put[w])
    /\ put' = [put EXCEPT ![w].pc = "stream"]
    /\ UNCHANGED <<stored, get, during>>

PutFrame(w) ==
    LET call == put[w]
        frame == Frame(call.value, call.sent)
    IN /\ call.pc = "stream" /\ call.sent < TotalChunks(Len(call.value))
       /\ IF Takes(call, frame)
          THEN put' = [put EXCEPT ![w].sent = @ + 1, ![w].buffer = @ \o frame.data]
          ELSE Fails(w)
       /\ UNCHANGED <<stored, get, during>>

(* The stream ends: the caller closed it, or it broke.  The handler cannot *)
(* tell, and judges by what has come.  The engine may refuse it, and the   *)
(* answer may be lost.                                                     *)
PutEnd(w) ==
    /\ put[w].pc = "stream"
    /\ \/ Fails(w) /\ UNCHANGED <<stored, during>>
       \/ /\ Complete(put[w]) /\ Store(put[w].buffer)
          /\ Fails(w) \/ put' = [put EXCEPT ![w].pc = "ok", ![w].wrote = TRUE]
    /\ UNCHANGED get

---------------------------------------------------------------------------
(* GetWithMode.                                                            *)

(* ReadAuto and ReadUnary start with the unary call, ReadChunked with the  *)
(* stream.                                                                 *)
GetStart ==
    /\ get.pc \in {"idle", "found", "miss", "failed"}
    /\ \E auto \in BOOLEAN, pc \in {"unary", "open"} : get' = [IdleGet EXCEPT !.pc = pc, !.auto = auto]
    /\ during' = {stored}
    /\ UNCHANGED <<stored, put>>

Ends(outcome, v) == get' = [IdleGet EXCEPT !.pc = outcome, !.out = v]
Got(v) == Ends("found", v)
GetFails == Ends("failed", NoValue)
Missed == Ends("miss", NoValue)

(* getUnary: the value or a miss; FailedPrecondition for one that is too   *)
(* long, which ReadAuto follows to the stream.                             *)
getUnary ==
    /\ get.pc = "unary"
    /\ \/ GetFails
       \/ stored = NoValue /\ Missed
       \/ stored # NoValue /\ ~Chunked(stored) /\ Got(stored)
       \/ /\ stored # NoValue /\ Chunked(stored)
          /\ IF get.auto THEN get' = [get EXCEPT !.pc = "open"] ELSE GetFails
    /\ UNCHANGED <<stored, put, during>>

(* GetChunked opens: the handler takes the value once and streams that. *)
GetOpen ==
    /\ get.pc = "open"
    /\ \/ GetFails
       \/ stored = NoValue /\ Missed
       \/ stored # NoValue /\ get' = [get EXCEPT !.pc = "stream", !.source = stored, !.out = <<>>]
    /\ UNCHANGED <<stored, put, during>>

(* Mutant: the handler reads the engine again for every frame. *)
ServedLive == IF stored = NoValue THEN get.source ELSE stored

(* What the handler streams from. *)
Served == get.source

(* getChunked, for a frame: the declared totals are those of the first     *)
(* frame, the index is the next, and the data fits.                        *)
getChunked ==
    LET frame == Frame(Served, get.received) IN
    /\ get.pc = "stream" /\ get.received < TotalChunks(Len(Served))
    /\ IF /\ frame.length = Len(get.source) /\ frame.chunks = TotalChunks(Len(get.source))
          /\ frame.index = get.received /\ Len(get.out) + Len(frame.data) <= frame.length
       THEN get' = [get EXCEPT !.received = @ + 1, !.out = @ \o frame.data]
       ELSE GetFails
    /\ UNCHANGED <<stored, put, during>>

(* getChunked, at the end: all chunks and all bytes, or an error. *)
GetEnd ==
    /\ get.pc = "stream"
    /\ \/ GetFails
       \/ /\ get.received = TotalChunks(Len(Served))
          /\ IF Len(get.out) = Len(get.source) THEN Got(get.out) ELSE GetFails
    /\ UNCHANGED <<stored, put, during>>

(* The engine drops the key. *)
Evict ==
    /\ stored # NoValue /\ stored' = NoValue /\ during' = during \cup {NoValue}
    /\ UNCHANGED <<put, get>>

TransportInit ==
    /\ stored = NoValue /\ during = {NoValue}
    /\ put = [w \in Writer |-> IdlePut] /\ get = IdleGet

PutStep(w) ==
    PutStart(w) \/ PutUnary(w) \/ PutRefused(w) \/ PutOpen(w) \/ PutFrame(w) \/ PutEnd(w)

TransportNext ==
    \/ \E w \in Writer : PutStep(w)
    \/ GetStart \/ getUnary \/ GetOpen \/ getChunked \/ GetEnd
    \/ Evict

TransportSpec == TransportInit /\ [][TransportNext]_transportVars

---------------------------------------------------------------------------
(* What crosses the wire is whole.  A read that finds a value returns one  *)
(* that the key had, byte for byte, at some moment of the call, whichever  *)
(* calls overwrote it between its frames; a miss was a miss.  A write that *)
(* returns ok was stored as it was given, by as many replicas as it asked  *)
(* for; and nothing but a whole written value is ever stored.              *)
WireExact ==
    /\ get.pc = "found" => get.out \in during
    /\ get.pc = "miss" => NoValue \in during
    /\ stored \in Values \cup {NoValue}
    /\ \A w \in Writer : put[w].pc = "ok" => put[w].wrote /\ put[w].acked >= put[w].acks
=============================================================================
