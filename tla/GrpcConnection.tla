--------------------------- MODULE GrpcConnection ---------------------------
(***************************************************************************)
(* A gRPC connection of the gateway (src/src/gateway/grpc_connection.cpp): *)
(* its HTTP/2 streams, whose contexts come from a pool, the calls they     *)
(* make, and their responses. nghttp2 and libuv are external.              *)
(*                                                                         *)
(* The event loop runs one callback at a time. Two of them take several    *)
(* steps here: a read (in_read), which may bring frames of several         *)
(* streams, and nghttp2_session_mem_send (in_send), which hands DATA       *)
(* frames to H2SendData one by one and then returns one other frame. The   *)
(* server answers calls on other threads at any time. Bytes are counted in *)
(* units, Prefix of which stand for the 5 bytes before a gRPC message.     *)
(***************************************************************************)
EXTENDS Integers, Sequences, SequencesExt, TLC

CONSTANTS
    MaxStreams,         \* bound on the streams of a connection
    GrpcRequests,       \* [streams -> sets of [headers, compressed, declared, size, body]]
    ReplySizes,         \* sizes of the outputs of calls
    Prefix,             \* kGrpcLPMPrefixByteSize, in units
    SplitPrefix         \* may a read, or a flow-control window, end within the prefix?

VARIABLES
    grpc,               \* the connection, its nghttp2 session, the server's calls
    grpc_sent,          \* [streams -> the request sent, or NoRequest]
    grpc_received       \* [streams -> the frames the client got]

grpcVars == <<grpc, grpc_sent, grpc_received>>

Streams == 1..MaxStreams

NoRequest == [headers |-> <<>>, compressed |-> FALSE, declared |-> 0, size |-> 0,
              body |-> FALSE]

NoStream == [h2 |-> "idle", context |-> 0, recvd |-> 0,
             providing |-> FALSE, blocked |-> FALSE]

GrpcInit ==
    /\ grpc = [state_ |-> "kCreated", aborted |-> FALSE,
               in_read |-> FALSE, in_send |-> FALSE,
               streams |-> [s \in Streams |-> NoStream],
               outbound |-> <<>>,           \* frames nghttp2 has to send, DATA aside
               goaway |-> "no",
               contexts |-> <<>>, free_contexts |-> <<>>,    \* h2_stream_context_pool_
               func_call_contexts_ |-> <<>>, free_calls |-> <<>>,
               grpc_calls_ |-> [s \in Streams |-> 0],
               calls |-> {},                \* calls the server has not answered
               scheduled |-> <<>>,          \* OnFuncCallFinishedInternal on their way
               uv_write_for_mem_send_ongoing_ |-> FALSE,
               writes |-> <<>>]             \* uv_writes not yet called back
    /\ grpc_sent = [s \in Streams |-> NoRequest]
    /\ grpc_received = [s \in Streams |-> <<>>]

-----------------------------------------------------------------------------
(***************************************************************************)
(* Pools and contexts.                                                     *)
(***************************************************************************)

\* SimpleObjectPool::Get takes the object returned last, or makes one.
PoolGet(objs, free) == IF free = <<>> THEN Len(objs) + 1 ELSE Last(free)

PoolSet(objs, i, obj) == IF i > Len(objs) THEN Append(objs, obj) ELSE [objs EXCEPT ![i] = obj]

PoolRest(free) == IF free = <<>> THEN free ELSE Front(free)

FreshContext ==
    [state |-> "kCreated", stream_id |-> 0, method_name |-> "",
     first_data_chunk |-> TRUE, body_size |-> 0, body_buffer |-> <<>>,
     http_status |-> 200, grpc_status |-> "OK",
     response_body_buffer |-> <<>>, response_body_write_pos |-> 0,
     first_response_frame |-> TRUE]

\* Variant: first_response_frame stays as the stream before left it.
H2StreamContextInitStale(old, s) ==
    [FreshContext EXCEPT !.stream_id = s, !.first_response_frame = old.first_response_frame]

\* H2StreamContext::Init of a context that served another stream before.
H2StreamContextInit(old, s) == [FreshContext EXCEPT !.stream_id = s]

H2NewStreamContext(c, s) ==
    LET i == PoolGet(c.contexts, c.free_contexts)
        old == IF i > Len(c.contexts) THEN FreshContext ELSE c.contexts[i]
    IN  [c EXCEPT !.contexts = PoolSet(@, i, H2StreamContextInit(old, s)),
                  !.free_contexts = PoolRest(@), !.streams[s].context = i]

H2GetStreamContext(c, s) == c.contexts[c.streams[s].context]

-----------------------------------------------------------------------------
(***************************************************************************)
(* Closing, and the start of a mem_send.                                   *)
(***************************************************************************)

\* Server::DiscardFuncCall: the answer to come is dropped, unless a
\* thread of the server is already past its look at discarded_func_calls_.
DiscardFuncCall(c, i) ==
    [c EXCEPT !.calls = {k \in @ : k.ctx # i \/ k.phase # "running"}]

GrpcScheduleClose(c) ==
    IF c.state_ = "kClosing" THEN c
    ELSE LET pending == {s \in Streams : c.grpc_calls_[s] # 0}
             d == FoldLeft(LAMBDA acc, s : IF s \in pending
                                           THEN DiscardFuncCall(acc, c.grpc_calls_[s]) ELSE acc,
                           c, [s \in Streams |-> s])
         IN  [d EXCEPT !.state_ = "kClosing", !.grpc_calls_ = [s \in Streams |-> 0]]

Active(c) == {s \in Streams : c.streams[s].h2 \in {"open", "half"}}

H2SessionTerminated(c) ==
    c.goaway = "sent" \/ (c.goaway = "received" /\ Active(c) = {} /\ c.outbound = <<>>)

\* H2SendPendingDataIfNecessary, up to the call of mem_send.
H2SendPending(c) ==
    IF c.state_ # "kRunning" \/ c.uv_write_for_mem_send_ongoing_ THEN c
    ELSE IF H2SessionTerminated(c) THEN GrpcScheduleClose(c)
    ELSE [c EXCEPT !.in_send = TRUE]

-----------------------------------------------------------------------------
(***************************************************************************)
(* Calls and responses, as functions of the connection c.                  *)
(***************************************************************************)

Frame(kind, s, status, end) == [kind |-> kind, stream |-> s, status |-> status, end |-> end]

\* A response that is not 200 has neither body nor trailers.
H2SendResponse(c, s) ==
    LET context == H2GetStreamContext(c, s)
    IN  H2SendPending([c EXCEPT !.outbound =
            Append(@, Frame("headers", s, context.http_status, context.http_status # 200))])

\* OnFuncCallFinishedInternal.
GrpcCallFinishedInternal(c, s) ==
    IF c.grpc_calls_[s] = 0 THEN c
    ELSE LET call == c.func_call_contexts_[c.grpc_calls_[s]]
             i == c.streams[s].context
         IN  H2SendResponse(
               [c EXCEPT
                 !.contexts[i].state = "kSendResponse",
                 !.contexts[i].http_status = IF call.status = "kCreated" THEN 500 ELSE 200,
                 !.contexts[i].grpc_status =
                    CASE call.status = "kSuccess"  -> "OK"
                      [] call.status = "kNotFound" -> "NOT_FOUND"
                      [] OTHER                     -> "UNKNOWN",
                 !.contexts[i].response_body_buffer =
                    IF call.status = "kSuccess" THEN @ \o call.output ELSE @,
                 !.free_calls = Append(@, c.grpc_calls_[s]),
                 !.grpc_calls_[s] = 0], s)

\* OnNewGrpcCall. Server::OnNewGrpcFuncCall passes the call on, or
\* finishes it at once on this event loop, with status reply.
OnNewGrpcCall(c, s, reply) ==
    LET context == H2GetStreamContext(c, s)
        i == PoolGet(c.func_call_contexts_, c.free_calls)
        status == IF reply = "later" THEN "kCreated" ELSE reply
        d == [c EXCEPT
               !.func_call_contexts_ = PoolSet(@, i,
                   [status |-> status, method_name |-> context.method_name,
                    h2_stream_id |-> s, input |-> context.body_buffer, output |-> <<>>]),
               !.free_calls = PoolRest(@),
               !.grpc_calls_[s] = i]
    IN  IF reply = "later"
        THEN [d EXCEPT !.calls = @ \cup
                {[ctx |-> i, phase |-> "running", method_name |-> context.method_name,
                  stream |-> s, input |-> context.body_buffer]}]
        ELSE GrpcCallFinishedInternal(d, s)

\* The END_STREAM part of H2OnFrameRecv.
H2OnEndStream(c, s, reply) ==
    LET context == H2GetStreamContext(c, s)
        i == c.streams[s].context
        wrong == Len(context.body_buffer) # context.body_size
        d == [c EXCEPT !.streams[s].h2 = "half"]
    IN  IF wrong \/ context.state = "kError"
        THEN H2SendResponse([d EXCEPT !.contexts[i].http_status = IF wrong THEN 400 ELSE @,
                                      !.contexts[i].state = "kSendResponse"], s)
        ELSE OnNewGrpcCall([d EXCEPT !.contexts[i].state = "kProcessing"], s, reply)

\* Variant: the context of a discarded call goes back to the pool.
H2OnStreamCloseReturns(c, s) ==
    LET i == c.grpc_calls_[s]
        d == IF i = 0 THEN c
             ELSE [DiscardFuncCall(c, i) EXCEPT !.grpc_calls_[s] = 0,
                                                !.free_calls = Append(@, i)]
    IN  [d EXCEPT !.free_contexts = Append(@, c.streams[s].context),
                  !.streams[s] = [NoStream EXCEPT !.h2 = "closed"]]

\* H2OnStreamClose; nghttp2 has dropped the frames of the stream. The states it
\* writes into the context are gone with H2ReclaimStreamContext.
H2OnStreamClose(c, s) ==
    LET i == c.grpc_calls_[s]
        d == IF i = 0 THEN c ELSE [DiscardFuncCall(c, i) EXCEPT !.grpc_calls_[s] = 0]
    IN  [d EXCEPT !.free_contexts = Append(@, c.streams[s].context),
                  !.streams[s] = [NoStream EXCEPT !.h2 = "closed"]]

-----------------------------------------------------------------------------
(***************************************************************************)
(* A read. Each step is a frame, or the part of a DATA frame the read has; *)
(* nghttp2 calls back for each. The client starts its streams in order.    *)
(***************************************************************************)

Reading == /\ grpc.state_ = "kRunning" /\ ~grpc.aborted /\ ~grpc.in_send
           /\ grpc.goaway \in {"no", "received"}

InRead(c) == [c EXCEPT !.in_read = TRUE]

\* Headers with one good value, and those that are ignored. A :path is the
\* sequence of its parts.
HeaderValue == (":scheme" :> "http") @@ (":method" :> "POST")
               @@ ("content-type" :> "application/grpc") @@ ("te" :> "trailers")
               @@ ("grpc-encoding" :> "identity")

PseudoHeaders == {":scheme", ":method", ":path", ":authority", ":status"}

\* H2ValidateAndPopulateHeader; headers that are not standard are stored and not
\* looked at again.
HeaderIsValid(name, value) ==
    CASE name \in DOMAIN HeaderValue -> value = HeaderValue[name]
      [] name = ":path"              -> Len(value) = 2
      [] OTHER                       -> name \notin PseudoHeaders \/ name = ":authority"

H2OnHeader(context, header) ==
    IF context.state = "kError" THEN context
    ELSE IF ~HeaderIsValid(header[1], header[2])
    THEN [context EXCEPT !.http_status = 400, !.state = "kError"]
    ELSE IF header[1] = ":path" THEN [context EXCEPT !.method_name = header[2][2]]
    ELSE context

\* H2OnBeginHeaders, H2OnHeader for each header, and H2OnFrameRecv.
GrpcRecvHeaders(s, r, reply) ==
    /\ Reading /\ grpc.goaway = "no"
    /\ grpc.streams[s].h2 = "idle" /\ (s > 1 => grpc.streams[s - 1].h2 # "idle")
    /\ r.body => reply = "later"
    /\ LET c == H2NewStreamContext([grpc EXCEPT !.streams[s].h2 = "open"], s)
           i == c.streams[s].context
           d == [c EXCEPT !.contexts[i] =
                   FoldLeft(H2OnHeader, [@ EXCEPT !.state = "kRecvHeaders"], r.headers)]
       IN  grpc' = InRead(IF r.body THEN d ELSE H2OnEndStream(d, s, reply))
    /\ grpc_sent' = [grpc_sent EXCEPT ![s] = r]
    /\ UNCHANGED grpc_received

\* H2OnDataChunkRecv, with data the len units of the message of r from first on.
H2OnDataChunkRecv(c, s, r, first, len) ==
    LET context == H2GetStreamContext(c, s)
        i == c.streams[s].context
        units(from) == [j \in 1..first + len - from |-> <<s, from + j - 1 - Prefix>>]
    IN  IF context.state = "kError" THEN c
        ELSE IF ~context.first_data_chunk
        THEN [c EXCEPT !.contexts[i].body_buffer = @ \o units(first)]
        ELSE IF len < Prefix THEN [c EXCEPT !.aborted = TRUE]
        ELSE IF r.compressed
        THEN [c EXCEPT !.contexts[i].http_status = 400, !.contexts[i].state = "kError"]
        ELSE [c EXCEPT !.contexts[i].state = "kRecvRequestBody",
                       !.contexts[i].body_size = r.declared,
                       !.contexts[i].body_buffer = @ \o units(first + Prefix),
                       !.contexts[i].first_data_chunk = FALSE]

\* The last unit comes with END_STREAM.
GrpcRecvData(s, len, reply) ==
    /\ Reading
    /\ grpc.streams[s].h2 = "open"
    /\ LET r == grpc_sent[s]
           left == Prefix + r.size - grpc.streams[s].recvd
           c == H2OnDataChunkRecv(grpc, s, r, grpc.streams[s].recvd + 1, len)
           d == [c EXCEPT !.streams[s].recvd = @ + len]
       IN  /\ len <= left
           /\ SplitPrefix \/ grpc.streams[s].recvd > 0 \/ len >= Prefix
           /\ len < left => reply = "later"
           /\ grpc' = InRead(IF len < left \/ d.aborted THEN d ELSE H2OnEndStream(d, s, reply))
    /\ UNCHANGED <<grpc_sent, grpc_received>>

\* RST_STREAM.
GrpcRecvReset(s) ==
    /\ Reading
    /\ s \in Active(grpc)
    /\ grpc' = InRead(H2OnStreamClose(
                  [grpc EXCEPT !.outbound = SelectSeq(@, LAMBDA f : f.stream # s)], s))
    /\ UNCHANGED <<grpc_sent, grpc_received>>

\* WINDOW_UPDATE.
GrpcRecvWindowUpdate(s) ==
    /\ Reading
    /\ grpc.streams[s].blocked
    /\ grpc' = InRead([grpc EXCEPT !.streams[s].blocked = FALSE])
    /\ UNCHANGED <<grpc_sent, grpc_received>>

\* GOAWAY of the client, which starts no stream after it.
GrpcRecvGoaway ==
    /\ Reading /\ grpc.goaway = "no"
    /\ grpc' = InRead([grpc EXCEPT !.goaway = "received"])
    /\ UNCHANGED <<grpc_sent, grpc_received>>

\* A frame that breaks the protocol: nghttp2 answers GOAWAY and ignores the rest.
GrpcRecvBadFrame ==
    /\ Reading
    /\ grpc' = InRead([grpc EXCEPT !.goaway = "queued",
                                   !.outbound = Append(@, Frame("goaway", 0, 0, FALSE))])
    /\ UNCHANGED <<grpc_sent, grpc_received>>

\* The end of RecvData.
GrpcReadEnds ==
    /\ grpc.in_read /\ ~grpc.in_send /\ ~grpc.aborted
    /\ grpc' = H2SendPending([grpc EXCEPT !.in_read = FALSE])
    /\ UNCHANGED <<grpc_sent, grpc_received>>

\* Is the event loop between two callbacks?
Idle == ~grpc.in_read /\ ~grpc.in_send /\ ~grpc.aborted

\* RecvData at the end of the stream, on an error, or on a flood.
GrpcRecvEnd ==
    /\ grpc.state_ = "kRunning" /\ Idle
    /\ grpc' = GrpcScheduleClose(grpc)
    /\ UNCHANGED <<grpc_sent, grpc_received>>

-----------------------------------------------------------------------------
(***************************************************************************)
(* nghttp2_session_mem_send: other frames go before DATA.                  *)
(***************************************************************************)

Write(f, context, prefix, pos, len) ==
    [frame |-> f, context |-> context, prefix |-> prefix, pos |-> pos, len |-> len]

\* mem_send returns a frame and the connection writes it. END_STREAM, the second
\* one of the stream, closes it.
GrpcSendFrame ==
    /\ grpc.in_send /\ grpc.outbound # <<>>
    /\ LET f == Head(grpc.outbound)
           c == [grpc EXCEPT !.in_send = FALSE, !.outbound = Tail(@),
                             !.uv_write_for_mem_send_ongoing_ = TRUE,
                             !.writes = Append(@, Write(f, 0, -1, 0, 0))]
       IN  grpc' = CASE f.kind = "goaway" -> [c EXCEPT !.goaway = "sent"]
                     [] f.end -> H2OnStreamClose(c, f.stream)
                     [] f.kind = "headers" -> [c EXCEPT !.streams[f.stream].providing = TRUE]
                     [] OTHER -> c
    /\ UNCHANGED <<grpc_sent, grpc_received>>

\* What H2DataSourceRead finds left of the response.
Remaining(context) ==
    Len(context.response_body_buffer) - context.response_body_write_pos
        + IF context.first_response_frame THEN Prefix ELSE 0

CanSendData(c, s) == c.streams[s].providing /\ ~c.streams[s].blocked

\* H2DataSourceRead and H2SendData for a frame of len units, the flow control
\* window being used up then or not. The body is written by reference.
GrpcSendData(s, len, used_up) ==
    /\ grpc.in_send /\ grpc.outbound = <<>> /\ ~grpc.aborted
    /\ CanSendData(grpc, s)
    /\ LET i == grpc.streams[s].context
           context == grpc.contexts[i]
           first == context.first_response_frame
           n == IF first THEN len - Prefix ELSE len
       IN  /\ len <= Remaining(context)
           /\ SplitPrefix \/ ~first \/ len >= Prefix
           /\ grpc' = IF n < 0 THEN [grpc EXCEPT !.aborted = TRUE]
                ELSE [grpc EXCEPT
                 !.contexts[i].first_response_frame = FALSE,
                 !.contexts[i].response_body_write_pos = @ + n,
                 !.streams[s].blocked = used_up,
                 !.writes = Append(@, Write(Frame("data", s, 0, FALSE), i,
                                IF first THEN Len(context.response_body_buffer) ELSE -1,
                                context.response_body_write_pos, n))]
    /\ UNCHANGED <<grpc_sent, grpc_received>>

H2SendTrailers(c, s) ==
    [c EXCEPT !.outbound =
        Append(@, Frame("trailers", s, H2GetStreamContext(c, s).grpc_status, TRUE))]

\* H2DataSourceRead at the end of the response.
GrpcSendEof(s) ==
    /\ grpc.in_send /\ grpc.outbound = <<>> /\ ~grpc.aborted
    /\ CanSendData(grpc, s)
    /\ LET i == grpc.streams[s].context
       IN  /\ Remaining(grpc.contexts[i]) = 0
           /\ grpc' = [H2SendTrailers(grpc, s) EXCEPT !.contexts[i].state = "kFinished",
                                                      !.streams[s].providing = FALSE]
    /\ UNCHANGED <<grpc_sent, grpc_received>>

\* mem_send returns 0, or was not wanted.
GrpcSendNothing ==
    /\ grpc.in_send /\ grpc.outbound = <<>> /\ ~grpc.aborted
    /\ \A s \in Streams : ~CanSendData(grpc, s)
    /\ grpc' = [grpc EXCEPT !.in_send = FALSE]
    /\ UNCHANGED <<grpc_sent, grpc_received>>

-----------------------------------------------------------------------------
(***************************************************************************)
(* Other events.                                                           *)
(***************************************************************************)

H2SendSettingsFrame(c) ==
    H2SendPending([c EXCEPT !.outbound = Append(@, Frame("settings", 0, 0, FALSE))])

GrpcStart ==
    /\ grpc.state_ = "kCreated"
    /\ grpc' = H2SendSettingsFrame([grpc EXCEPT !.state_ = "kRunning"])
    /\ UNCHANGED <<grpc_sent, grpc_received>>

\* Server::OnRecvEngineMessage has the answer and, under mu_, finds the call not
\* discarded; after mu_ it fills the FuncCallContext and calls OnFuncCallFinished.
GrpcCallTaken(k) ==
    /\ k.phase = "running" /\ ~grpc.aborted
    /\ grpc' = [grpc EXCEPT !.calls = (@ \ {k}) \cup {[k EXCEPT !.phase = "finishing"]}]
    /\ UNCHANGED <<grpc_sent, grpc_received>>

GrpcOutput(method_name, input, size) == [j \in 1..size |-> <<method_name, input, j>>]

GrpcCallFinishes(k, status, size) ==
    /\ k.phase = "finishing" /\ ~grpc.aborted
    /\ grpc' = [grpc EXCEPT
          !.calls = @ \ {k},
          !.func_call_contexts_[k.ctx].status = status,
          !.func_call_contexts_[k.ctx].output =
              IF status = "kSuccess" THEN GrpcOutput(k.method_name, k.input, size) ELSE <<>>,
          !.scheduled = Append(@, grpc.func_call_contexts_[k.ctx].h2_stream_id)]
    /\ UNCHANGED <<grpc_sent, grpc_received>>

\* The IO worker runs what OnFuncCallFinished scheduled, unless the connection is gone.
GrpcRunScheduled ==
    /\ grpc.scheduled # <<>> /\ Idle
    /\ grpc' = LET c == [grpc EXCEPT !.scheduled = Tail(@)]
               IN  IF c.state_ = "kClosed" THEN c
                   ELSE GrpcCallFinishedInternal(c, Head(grpc.scheduled))
    /\ UNCHANGED <<grpc_sent, grpc_received>>

\* libuv (external) writes the oldest frame, reading the memory it was given now,
\* or fails; then DataWritten. uv_close cancels what was not written. own: does
\* that memory still belong to the stream?
Transmitted(w) ==
    LET s == w.frame.stream
        body == IF w.context = 0 THEN <<>> ELSE grpc.contexts[w.context].response_body_buffer
    IN  [frame |-> w.frame, prefix |-> w.prefix,
         own |-> w.context = 0 \/ grpc.contexts[w.context].stream_id = s,
         data |-> [j \in 1..w.len |-> IF w.pos + j <= Len(body) THEN body[w.pos + j] ELSE <<>>]]

\* Variant: only a frame of nghttp2's own queue lets it go on.
DataWrittenStays(c, w, ok) ==
    IF ~ok THEN GrpcScheduleClose(c)
    ELSE IF w.frame.kind = "data" THEN c
    ELSE LET d == [c EXCEPT !.uv_write_for_mem_send_ongoing_ = FALSE]
         IN  IF d.outbound = <<>> THEN d ELSE H2SendPending(d)

DataWritten(c, w, ok) ==
    IF ~ok THEN GrpcScheduleClose(c)
    ELSE IF w.frame.kind = "data" THEN c
    ELSE H2SendPending([c EXCEPT !.uv_write_for_mem_send_ongoing_ = FALSE])

GrpcDataWritten(ok) ==
    /\ grpc.writes # <<>> /\ Idle
    /\ ok => grpc.state_ = "kRunning"
    /\ LET w == Head(grpc.writes)
       IN  /\ grpc' = DataWritten([grpc EXCEPT !.writes = Tail(@)], w, ok)
           /\ grpc_received' = IF ok /\ w.frame.stream # 0
                THEN [grpc_received EXCEPT ![w.frame.stream] = Append(@, Transmitted(w))]
                ELSE grpc_received
    /\ UNCHANGED grpc_sent

GrpcClose ==
    /\ grpc.state_ = "kClosing" /\ grpc.writes = <<>> /\ Idle
    /\ grpc' = [grpc EXCEPT !.state_ = "kClosed"]
    /\ UNCHANGED <<grpc_sent, grpc_received>>

Reply == {"later", "kNotFound", "kNoNode"}

GrpcNext ==
    \/ GrpcStart \/ GrpcReadEnds \/ GrpcSendFrame \/ GrpcSendNothing
    \/ GrpcRunScheduled \/ GrpcClose
    \/ \E s \in Streams, len \in 1..Prefix + 2, used_up \in BOOLEAN : GrpcSendData(s, len, used_up)
    \/ \E s \in Streams : GrpcSendEof(s) \/ GrpcRecvWindowUpdate(s)
    \/ \E ok \in BOOLEAN : GrpcDataWritten(ok)
    \/ \E k \in grpc.calls : GrpcCallTaken(k)
    \/ \E k \in grpc.calls, status \in {"kSuccess", "kFailed", "kNotFound"}, size \in ReplySizes :
          GrpcCallFinishes(k, status, size)
    \/ \E s \in Streams, reply \in Reply :
          \E r \in GrpcRequests[s] : GrpcRecvHeaders(s, r, reply)
    \/ \E s \in Streams, len \in 1..Prefix + 2, reply \in Reply : GrpcRecvData(s, len, reply)
    \/ \E s \in Streams : GrpcRecvReset(s)
    \/ GrpcRecvGoaway \/ GrpcRecvBadFrame \/ GrpcRecvEnd

-----------------------------------------------------------------------------
(***************************************************************************)
(* Properties.                                                             *)
(***************************************************************************)

GoodHeaders(r) == \A j \in 1..Len(r.headers) : HeaderIsValid(r.headers[j][1], r.headers[j][2])

WellFormed(r) == GoodHeaders(r) /\ (r.body => ~r.compressed /\ r.declared = r.size)

MethodOf(r) == r.headers[CHOOSE j \in 1..Len(r.headers) : r.headers[j][1] = ":path"][2][2]

\* The outputs a call of stream s may have, and the frames of an answer.
OutputsOf(s) ==
    {GrpcOutput(MethodOf(grpc_sent[s]), [j \in 1..grpc_sent[s].size |-> <<s, j>>], size) : size \in ReplySizes}

Data(frames) == FlattenSeq([j \in 1..Len(frames) |-> frames[j].data])

\* frames are the beginning of an answer to the request of stream s.
BeginsAnswer(s, frames) ==
    LET body == SelectSeq(Tail(frames), LAMBDA f : f.frame.kind = "data")
        status == IF WellFormed(grpc_sent[s]) THEN 200 ELSE 400
    IN  /\ frames[1].frame = Frame("headers", s, status, status # 200)
        /\ \A j \in 2..Len(frames) :
              /\ frames[j].frame.kind = IF j <= Len(body) + 1 THEN "data" ELSE "trailers"
              /\ j > Len(body) + 1 => j = Len(frames)
        /\ \A j \in 1..Len(body) : (body[j].prefix # -1) = (j = 1)
        /\ body # <<>> =>
              \E out \in OutputsOf(s) \cup {<<>>} :
                 /\ body[1].prefix = Len(out)
                 /\ IsPrefix(Data(body), out)
                 /\ Last(frames).frame.kind = "trailers" =>
                       /\ Data(body) = out
                       /\ out # <<>> => Last(frames).frame.status = "OK"
        /\ Last(frames).frame.kind = "trailers" => body # <<>>

\* A client reads on each stream the answer to its own request and nothing else:
\* 400 for a request that is not well formed, or 200, one length-prefixed message
\* cut into DATA frames, in order and whole, and the status; however the streams,
\* the calls and the writes interleave, and however contexts are reused
\* (grpc_connection.cpp:359-457, 538-630). Left out are frames whose memory was
\* given to another stream before libuv wrote them: H2OnStreamClose returns the
\* context while writes from its response_body_buffer may be queued (:502, :627).
GrpcStreamsCarryTheirAnswer ==
    \A s \in Streams : LET frames == grpc_received[s] IN
        frames # <<>> /\ (\A j \in 1..Len(frames) : frames[j].own) => BeginsAnswer(s, frames)

\* What is reused has one user. No two open streams share
\* one, the pools hold none that is in use, and a call the server will answer
\* writes to the FuncCallContext of its own stream or to one nobody uses any more.
\* A stream's call is known to the server until its answer is on its way, and the
\* server is told when the stream or the connection goes away. nghttp2 may reuse the
\* memory of a frame when mem_send is called again: it never is while libuv still
\* has the frame to write (grpc_connection.cpp:127-140, 187-204, 245-280, 397-457,
\* 486-504).
GrpcMemoryHasOneUser ==
    LET free == ToSet(grpc.free_contexts) free_calls == ToSet(grpc.free_calls)
        used == {s \in Streams : grpc.grpc_calls_[s] # 0}
    IN  /\ \A s \in Active(grpc) : /\ grpc.streams[s].context \notin free
                                   /\ H2GetStreamContext(grpc, s).stream_id = s
        /\ \A s \in used :
              /\ s \in Active(grpc) /\ grpc.grpc_calls_[s] \notin free_calls
              /\ grpc.func_call_contexts_[grpc.grpc_calls_[s]].h2_stream_id = s
              /\ s \in ToSet(grpc.scheduled) \/ \E k \in grpc.calls : k.stream = s
        /\ \A k \in grpc.calls :
              /\ k.ctx \notin free_calls
              /\ grpc.func_call_contexts_[k.ctx].h2_stream_id = k.stream
              /\ k.phase = "running" => grpc.grpc_calls_[k.stream] = k.ctx
        /\ Len(SelectSeq(grpc.writes, LAMBDA w : w.frame.kind # "data"))
              <= IF grpc.in_send THEN 0 ELSE 1

\* No response is left behind: a stream whose request came whole has its call at
\* work or its response on the way, and when no callback is running and no frame of
\* mem_send is being written, nghttp2 has nothing it could send, for nobody would
\* ask it to. Every event that makes something sendable (a response, a window
\* update, the end of a write) is followed by a mem_send
\* (grpc_connection.cpp:142-204, 245-280, 359-384, 570-589).
GrpcNothingLeftBehind ==
    grpc.state_ = "kRunning" =>
        /\ \A s \in Streams : grpc.streams[s].h2 = "half" =>
              \/ grpc.grpc_calls_[s] # 0 \/ grpc.streams[s].providing
              \/ \E j \in 1..Len(grpc.outbound) : grpc.outbound[j].stream = s
        /\ Idle /\ (\A j \in 1..Len(grpc.writes) : grpc.writes[j].frame.kind = "data") =>
              grpc.outbound = <<>> /\ \A s \in Streams : ~CanSendData(grpc, s)

\* The 5 bytes before a gRPC message come in one DATA chunk, and go out in one DATA
\* frame: "CHECK(len >= kGrpcLPMPrefixByteSize)" (grpc_connection.cpp:549) and
\* "DCHECK_GE(length, kGrpcLPMPrefixByteSize)" (grpc_connection.cpp:595).
GrpcPrefixInOneChunk == ~grpc.aborted
=============================================================================
