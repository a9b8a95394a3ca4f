----------------------------- MODULE EngineLink -----------------------------
(***************************************************************************)
(* One TCP connection between an engine and the gateway: GatewayConnection *)
(* at the engine (src/src/engine/gateway_connection.cpp), and at the       *)
(* gateway OngoingEngineHandshake (gateway/server.cpp) until the handshake *)
(* has come, EngineConnection (gateway/engine_connection.cpp) from then    *)
(* on. The two classes send, read and close with the same code.            *)
(*                                                                         *)
(* TCP is a stream: a read brings any number of the bytes sent. A byte is  *)
(* its message and its place in it; the last byte of a header holds        *)
(* payload_size. Either side may send at any time: the calls and answers   *)
(* of a server use any of its connections.                                 *)
(***************************************************************************)
EXTENDS Integers, Sequences, SequencesExt, FiniteSets

CONSTANTS
    HeaderSize,         \* sizeof(GatewayMessage)
    WriteBufferSize,    \* kDefaultBufferSize of the write buffers
    PayloadSizes,       \* [Ends -> payload sizes of the messages of that end]
    MaxMessages         \* [Ends -> Nat]: bound on the messages that end sends

ASSUME SizeAssumption == HeaderSize \in 1..WriteBufferSize

Ends == {"engine", "gateway"}
Peer(e) == IF e = "engine" THEN "gateway" ELSE "engine"

VARIABLES
    link_state,         \* [Ends -> state_]; "none" at the gateway before it accepted,
                        \* "handshake" while there is an OngoingEngineHandshake;
                        \* "aborted" at the engine when a DCHECK ended it
    link_writes,        \* [Ends -> requests of uv_write not called back]
    link_wire,          \* [Ends -> bytes the end sent that were not read]
    link_read_buffer,   \* [Ends -> read_buffer_]
    link_pool,          \* [Ends -> [available_buffers_, all]], the write buffers
    link_sent,          \* [Ends -> messages SendMessage sent]
    link_received       \* [Ends -> messages handed to the server, as bytes]

linkVars == <<link_state, link_writes, link_wire, link_read_buffer, link_pool, link_sent,
              link_received>>

LinkInit ==
    /\ link_state = [e \in Ends |-> IF e = "engine" THEN "kCreated" ELSE "none"]
    /\ link_writes = [e \in Ends |-> <<>>]
    /\ link_wire = [e \in Ends |-> <<>>]
    /\ link_read_buffer = [e \in Ends |-> <<>>]
    /\ link_pool = [e \in Ends |-> [available_buffers_ |-> <<>>, all |-> 0]]
    /\ link_sent = [e \in Ends |-> <<>>]
    /\ link_received = [e \in Ends |-> <<>>]

-----------------------------------------------------------------------------
(***************************************************************************)
(* Messages, buffers and writes.                                           *)
(***************************************************************************)

GatewayMessage(type, number, payload_size) ==
    [type |-> type, number |-> number, payload_size |-> payload_size]

Handshake == GatewayMessage("ENGINE_HANDSHAKE", 0, 0)

\* The bytes of a message and its payload.
Bytes(m) == [i \in 1..(HeaderSize + m.payload_size) |-> [msg |-> m, at |-> i]]

ConsumeFront(buffer, size) == SubSeq(buffer, size + 1, Len(buffer))

BufferGet(pool) ==
    LET grown == IF pool.available_buffers_ = <<>>
                 THEN [available_buffers_ |-> <<pool.all + 1>>, all |-> pool.all + 1]
                 ELSE pool
    IN  [base |-> Last(grown.available_buffers_),
         rest |-> [grown EXCEPT !.available_buffers_ = Front(@)]]

BufferReturn(pool, buf) == [pool EXCEPT !.available_buffers_ = Append(@, buf)]

WriteRequest(base, data) == [base |-> base, data |-> data, status |-> "pending"]

\* Turns of the loop of SendMessage: the bytes after pos, a buffer at a time.
SendLoop(m, pool) ==
    LET turn(acc, i) ==
            IF acc.pos >= Len(Bytes(m)) THEN acc
            ELSE LET buf == BufferGet(acc.pool)
                     size == IF Len(Bytes(m)) - acc.pos < WriteBufferSize
                             THEN Len(Bytes(m)) - acc.pos ELSE WriteBufferSize
                 IN  [pos |-> acc.pos + size, pool |-> buf.rest,
                      writes |-> Append(acc.writes,
                          WriteRequest(buf.base, SubSeq(Bytes(m), acc.pos + 1, acc.pos + size)))]
    IN  FoldLeft(turn, [pos |-> 0, pool |-> pool, writes |-> <<>>],
                 [i \in 1..Len(Bytes(m)) |-> i])

\* What is left of a read buffer after its whole messages, and those messages.
ProcessGatewayMessages(buffer) ==
    LET turn(acc, i) ==
            IF Len(acc.rest) < HeaderSize THEN acc
            ELSE LET full_size == HeaderSize + acc.rest[HeaderSize].msg.payload_size
                 IN  IF Len(acc.rest) < full_size THEN acc
                     ELSE [rest |-> ConsumeFront(acc.rest, full_size),
                           messages |-> Append(acc.messages, SubSeq(acc.rest, 1, full_size))]
    IN  FoldLeft(turn, [rest |-> buffer, messages |-> <<>>], buffer)

\* uv_write reports a failure when the peer is gone.
PeerIsGone(e) == link_state[Peer(e)] \in {"kClosed", "aborted"}

-----------------------------------------------------------------------------
(***************************************************************************)
(* Opening.                                                                *)
(***************************************************************************)

\* GatewayConnection::Start.
GatewayConnectionStart ==
    /\ link_state["engine"] = "kCreated"
    /\ link_state' = [link_state EXCEPT !["engine"] = "kHandshake"]
    /\ link_writes' = [link_writes EXCEPT !["engine"] =
                           Append(@, WriteRequest(0, Bytes(Handshake)))]
    /\ UNCHANGED <<link_wire, link_read_buffer, link_pool, link_sent, link_received>>

\* The gateway accepts the connection and waits for the handshake.
OnEngineConnection ==
    /\ link_state["gateway"] = "none"
    /\ link_state' = [link_state EXCEPT !["gateway"] = "handshake"]
    /\ UNCHANGED <<link_writes, link_wire, link_read_buffer, link_pool, link_sent,
                   link_received>>

\* Variant: what was read with the handshake is dropped.
RemainingDataDropped(data) == <<>>

\* Server::OnEngineHandshake: the rest of what was read goes to the new
\* EngineConnection.
RemainingData(data) == ConsumeFront(data, HeaderSize)

ReadHandshake ==
    /\ link_state["gateway"] = "handshake"
    /\ \E n \in 1..Len(link_wire["engine"]) :
          LET data == link_read_buffer["gateway"] \o SubSeq(link_wire["engine"], 1, n)
              whole == Len(data) >= HeaderSize
              good == data[1].msg.type = "ENGINE_HANDSHAKE"
          IN  /\ link_wire' = [link_wire EXCEPT !["engine"] = ConsumeFront(@, n)]
              /\ link_read_buffer' = [link_read_buffer EXCEPT !["gateway"] =
                                          IF whole THEN RemainingData(data) ELSE data]
              /\ link_state' = [link_state EXCEPT !["gateway"] =
                     IF ~whole THEN @ ELSE IF good THEN "kCreated" ELSE "kClosed"]
    /\ UNCHANGED <<link_writes, link_pool, link_sent, link_received>>

OnReadError ==
    /\ link_state["gateway"] = "handshake"
    /\ PeerIsGone("gateway")
    /\ link_state' = [link_state EXCEPT !["gateway"] = "kClosed"]
    /\ UNCHANGED <<link_writes, link_wire, link_read_buffer, link_pool, link_sent,
                   link_received>>

\* EngineConnection::Start.
EngineConnectionStart ==
    /\ link_state["gateway"] = "kCreated"
    /\ link_state' = [link_state EXCEPT !["gateway"] = "kRunning"]
    /\ LET read == ProcessGatewayMessages(link_read_buffer["gateway"])
       IN  /\ link_read_buffer' = [link_read_buffer EXCEPT !["gateway"] = read.rest]
           /\ link_received' = [link_received EXCEPT !["gateway"] = @ \o read.messages]
    /\ UNCHANGED <<link_writes, link_wire, link_pool, link_sent>>

-----------------------------------------------------------------------------
(***************************************************************************)
(* Sending, reading and closing, at either end.                            *)
(***************************************************************************)

SendMessage(e) ==
    /\ Len(link_sent[e]) < MaxMessages[e]
    /\ link_state[e] = "kRunning"       \* otherwise the message is dropped
    /\ \E payload_size \in PayloadSizes[e] :
          LET m == GatewayMessage("FUNC_CALL", Len(link_sent[e]) + 1, payload_size)
              sending == SendLoop(m, link_pool[e])
          IN  /\ link_writes' = [link_writes EXCEPT ![e] = @ \o sending.writes]
              /\ link_pool' = [link_pool EXCEPT ![e] = sending.pool]
              /\ link_sent' = [link_sent EXCEPT ![e] = Append(@, m)]
    /\ UNCHANGED <<link_state, link_wire, link_read_buffer, link_received>>

\* libuv and TCP take the writes in order.
LinkTransmit(e) ==
    \E i \in DOMAIN link_writes[e] :
        /\ link_writes[e][i].status = "pending"
        /\ \A j \in 1..(i - 1) : link_writes[e][j].status # "pending"
        /\ link_state[e] \in {"kHandshake", "kRunning"}
        /\ IF PeerIsGone(e)
           THEN /\ link_writes' = [link_writes EXCEPT ![e][i].status = "failed"]
                /\ UNCHANGED link_wire
           ELSE /\ link_writes' = [link_writes EXCEPT ![e][i].status = "ok"]
                /\ link_wire' = [link_wire EXCEPT ![e] = @ \o link_writes[e][i].data]
        /\ UNCHANGED <<link_state, link_read_buffer, link_pool, link_sent, link_received>>

\* The callback of GatewayConnection's first write.
HandshakeSent ==
    /\ link_state["engine"] = "kHandshake"
    /\ link_writes["engine"][1].status # "pending"
    /\ link_state' = [link_state EXCEPT !["engine"] =
           IF link_writes["engine"][1].status = "ok" THEN "kRunning" ELSE "kClosing"]
    /\ link_writes' = [link_writes EXCEPT !["engine"] = Tail(@)]
    /\ UNCHANGED <<link_wire, link_read_buffer, link_pool, link_sent, link_received>>

DataSent(e) ==
    /\ link_state[e] = "kRunning"
    /\ link_writes[e] # <<>>
    /\ link_writes[e][1].status # "pending"
    /\ link_pool' = [link_pool EXCEPT ![e] = BufferReturn(@, link_writes[e][1].base)]
    /\ link_writes' = [link_writes EXCEPT ![e] = Tail(@)]
    /\ link_state' = [link_state EXCEPT ![e] =
           IF link_writes[e][1].status = "ok" THEN @ ELSE "kClosing"]
    /\ UNCHANGED <<link_wire, link_read_buffer, link_sent, link_received>>

RecvData(e) ==
    /\ link_state[e] = "kRunning"
    /\ \E n \in 1..Len(link_wire[Peer(e)]) :
          LET read == ProcessGatewayMessages(
                          link_read_buffer[e] \o SubSeq(link_wire[Peer(e)], 1, n))
          IN  /\ link_wire' = [link_wire EXCEPT ![Peer(e)] = ConsumeFront(@, n)]
              /\ link_read_buffer' = [link_read_buffer EXCEPT ![e] = read.rest]
              /\ link_received' = [link_received EXCEPT ![e] = @ \o read.messages]
    /\ UNCHANGED <<link_state, link_writes, link_pool, link_sent>>

\* The end of the stream, or an error, closes this end too; a reset of the peer may
\* cost bytes that were on their way.
RecvEnd(e) ==
    /\ link_state[e] = "kRunning"
    /\ PeerIsGone(e)
    /\ link_state' = [link_state EXCEPT ![e] = "kClosing"]
    /\ UNCHANGED <<link_writes, link_wire, link_read_buffer, link_pool, link_sent,
                   link_received>>

\* ScheduleClose, called when the IO worker stops.
LinkScheduleClose(e) ==
    /\ link_state[e] \in {"kHandshake", "kRunning"}
    /\ link_state' = [link_state EXCEPT ![e] = "kClosing"]
    /\ UNCHANGED <<link_writes, link_wire, link_read_buffer, link_pool, link_sent,
                   link_received>>

\* The write buffers, in order; the handshake is written from the connection itself.
BuffersOf(writes) ==
    LET buffered == SelectSeq(writes, LAMBDA w : w.base # 0)
    IN  [i \in DOMAIN buffered |-> buffered[i].base]

\* Variant: only the buffers of writes that were sent come back.
ReturnedIfSent(pool, writes) ==
    FoldLeft(BufferReturn, pool,
             BuffersOf(SelectSeq(writes, LAMBDA w : w.status = "ok")))

\* uv_close calls back every write that is left, in order, and then Close.
Returned(pool, writes) == FoldLeft(BufferReturn, pool, BuffersOf(writes))

\* A handshake that was sent before ScheduleClose is called back after it:
\* HandshakeSent makes the connection kRunning and reads on a closing handle, which
\* fails, and Close finds it kRunning. Two DCHECKs end a debug build there; a release
\* build goes on, and both callbacks are one step of the loop, LinkClose.
HandshakeSentAfterClose ==
    /\ link_state["engine"] = "kClosing"
    /\ link_writes["engine"] # <<>>
    /\ link_writes["engine"][1].base = 0 /\ link_writes["engine"][1].status = "ok"
    /\ link_state' = [link_state EXCEPT !["engine"] = "aborted"]
    /\ UNCHANGED <<link_writes, link_wire, link_read_buffer, link_pool, link_sent,
                   link_received>>

LinkClose(e) ==
    /\ link_state[e] = "kClosing"
    /\ link_pool' = [link_pool EXCEPT ![e] = Returned(@, link_writes[e])]
    /\ link_writes' = [link_writes EXCEPT ![e] = <<>>]
    /\ link_state' = [link_state EXCEPT ![e] = "kClosed"]
    /\ UNCHANGED <<link_wire, link_read_buffer, link_sent, link_received>>

LinkNext ==
    \/ GatewayConnectionStart \/ OnEngineConnection \/ ReadHandshake \/ OnReadError
    \/ EngineConnectionStart \/ HandshakeSent \/ HandshakeSentAfterClose
    \/ \E e \in Ends : \/ SendMessage(e) \/ LinkTransmit(e) \/ DataSent(e) \/ RecvData(e)
                       \/ RecvEnd(e) \/ LinkScheduleClose(e) \/ LinkClose(e)

-----------------------------------------------------------------------------
(***************************************************************************)
(* Properties.                                                             *)
(***************************************************************************)

\* However TCP cuts the stream, each end hands its server exactly the messages the
\* other end sent, whole and in order, those that came with the handshake included;
\* and when all that was written has been read, none of them is still in a buffer
\* (SendMessage, ProcessGatewayMessages, OnEngineHandshake's remaining_data).
LinkMessagesWhole ==
    \A e \in Ends :
        /\ IsPrefix(link_received[e],
                    [i \in DOMAIN link_sent[Peer(e)] |-> Bytes(link_sent[Peer(e)][i])])
        /\ (/\ link_state[e] = "kRunning" /\ link_state[Peer(e)] = "kRunning"
            /\ link_wire[Peer(e)] = <<>>
            /\ \A i \in DOMAIN link_writes[Peer(e)] : link_writes[Peer(e)][i].status = "ok")
           => Len(link_received[e]) = Len(link_sent[Peer(e)])

\* A write buffer is in the pool or in one write that was not called back: no
\* message is written over one that libuv still reads, and a closed connection has
\* given all its buffers back to the IO worker's pool (DataSent, the writes uv_close
\* cancels included; utils/buffer_pool.h).
LinkBuffersHaveOneUser ==
    \A e \in Ends :
        LET buffers == link_pool[e].available_buffers_ \o BuffersOf(link_writes[e])
        IN  IsInjective(buffers) /\ ToSet(buffers) = 1..link_pool[e].all
=============================================================================
