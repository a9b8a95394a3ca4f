--------------------------- MODULE HttpConnection ---------------------------
(***************************************************************************)
(* An HTTP connection of the gateway (src/src/gateway/http_connection.cpp):*)
(* the callbacks of the HTTP parser, which sees a request in whatever      *)
(* pieces the socket delivers, the call handed to the server, and the      *)
(* response, written from memory the connection owns. Libuv and the HTTP   *)
(* parser are external; a request is a sequence of the tokens the parser   *)
(* turns into callbacks.                                                   *)
(*                                                                         *)
(* The connection is one record, so that a read is a fold of the callbacks *)
(* over the tokens it brought. The client waits for each response before   *)
(* it sends the next request: the code has one func_call_context_ and one  *)
(* response_write_req_, and stops reading, not parsing, during a call.     *)
(***************************************************************************)
EXTENDS Integers, Sequences, SequencesExt

CONSTANTS
    Requests,           \* the requests a client may send
    MaxRequests,        \* bound on the requests of one client
    FuncConfig          \* [function names -> [allow_http_get, qs_as_input]]

VARIABLES
    http,               \* the connection
    http_wire,          \* tokens the client sent and the connection did not read
    http_sent,          \* requests sent
    http_received       \* responses the client got

httpVars == <<http, http_wire, http_sent, http_received>>

NoContext == [status |-> "kCreated", func_name |-> "", input |-> <<>>, output |-> <<>>]

HttpInit ==
    /\ http = [state_ |-> "kCreated", reading |-> FALSE,
               http_errno |-> FALSE, method |-> "GET",
               header_field_value_flag_ |-> -1,
               url_buffer_ |-> <<>>, body_buffer_ |-> <<>>,
               header_field_buffer_ |-> <<>>, header_field_buffer_pos_ |-> 0,
               header_value_buffer_ |-> <<>>, header_value_buffer_pos_ |-> 0,
               func_call_context_ |-> NoContext,
               calls |-> <<>>,          \* calls the server has, all with func_call_context_
               scheduled |-> 0,         \* calls of OnFuncCallFinishedInternal on their way
               reply |-> "later",       \* how the server takes a call of this read
               response_header_ |-> [status |-> 0, length |-> 0],
               writes |-> <<>>]         \* uses of response_write_req_ not yet called back
    /\ http_wire = <<>>
    /\ http_sent = <<>>
    /\ http_received = <<>>

-----------------------------------------------------------------------------
(***************************************************************************)
(* Query strings. Characters are their codes.                              *)
(***************************************************************************)

Digit(ch) == 48 <= ch /\ ch <= 57
Letter(ch) == (65 <= ch /\ ch <= 90) \/ (97 <= ch /\ ch <= 122)

to_hex(ch) ==
    CASE Digit(ch)             -> ch - 48
      [] 65 <= ch /\ ch <= 70  -> ch - 65 + 10
      [] 97 <= ch /\ ch <= 102 -> ch - 97 + 10
      [] OTHER                 -> -1

\* One turn of the loop of ParseQueryStringPart at character i; skip is where
\* the loop goes on after a %XX.
QueryChar(data, p, i) ==
    LET ch == data[i]
        push(x) == IF p.in_value THEN [p EXCEPT !.value = Append(@, x)]
                   ELSE [p EXCEPT !.field = Append(@, x)]
        bad == [p EXCEPT !.ok = FALSE]
    IN  IF ~p.ok \/ i < p.skip THEN p
        ELSE CASE ch = 61 -> IF p.in_value THEN bad ELSE [p EXCEPT !.in_value = TRUE]
               [] Letter(ch) \/ Digit(ch) \/ ch \in {126, 45, 46, 95} -> push(ch)
               [] ch = 43 -> push(32)
               [] ch = 37 ->
                    IF i + 2 > Len(data) THEN bad
                    ELSE LET a == to_hex(data[i + 1])
                             b == to_hex(data[i + 2])
                         IN  IF a = -1 \/ b = -1 THEN bad
                             ELSE [push(a * 16 + b) EXCEPT !.skip = i + 3]
               [] OTHER -> bad

ParseQueryStringPart(data) ==
    LET p == FoldLeft(LAMBDA acc, i : QueryChar(data, acc, i),
                      [field |-> <<>>, value |-> <<>>, in_value |-> FALSE,
                       skip |-> 1, ok |-> TRUE],
                      [i \in 1..Len(data) |-> i])
    IN  [p EXCEPT !.ok = @ /\ p.in_value]

\* StrSplit(qs, '&', SkipEmpty).
SplitParts(qs) ==
    LET cut == FoldLeft(LAMBDA acc, ch : IF ch = 38 THEN Append(acc, <<>>)
                            ELSE [acc EXCEPT ![Len(acc)] = Append(@, ch)],
                        << <<>> >>, qs)
    IN  SelectSeq(cut, LAMBDA part : part # <<>>)

\* A JSON object is the set of its <<field, value>> pairs.
QueryStringToJSON(qs) ==
    FoldLeft(LAMBDA json, part :
                LET p == ParseQueryStringPart(part)
                IN  IF p.ok THEN {e \in json : e[1] # p.field} \cup {<<p.field, p.value>>}
                    ELSE json,
             {}, SplitParts(qs))

-----------------------------------------------------------------------------
(***************************************************************************)
(* The connection's methods, as functions of the connection c.             *)
(***************************************************************************)

ScheduleClose(c) ==
    IF c.state_ = "kClosing" THEN c
    ELSE [c EXCEPT !.state_ = "kClosing", !.reading = FALSE]

StartRecvData(c) == IF c.state_ # "kRunning" THEN c ELSE [c EXCEPT !.reading = TRUE]

StopRecvData(c) == IF c.state_ # "kRunning" THEN c ELSE [c EXCEPT !.reading = FALSE]

\* The body is passed by reference: it stays in func_call_context_.
SendHttpResponse(c, status, length) ==
    [c EXCEPT !.response_header_ = [status |-> status, length |-> length],
              !.writes = Append(@, [with_body |-> length > 0, state |-> "queued"])]

OnFuncCallFinishedInternal(c) ==
    IF c.state_ # "kRunning" THEN c
    ELSE CASE c.func_call_context_.status = "kSuccess" ->
                  SendHttpResponse(c, 200, Len(c.func_call_context_.output))
           [] c.func_call_context_.status = "kNotFound" -> SendHttpResponse(c, 404, 0)
           [] c.func_call_context_.status \in {"kNoNode", "kFailed"} ->
                  SendHttpResponse(c, 500, 0)
           [] OTHER -> ScheduleClose(c)

\* Server::OnNewFuncCallCommon and DispatchFuncCall: the call is with the server, or
\* it is finished at once, on this event loop, because no engine is connected
\* (kNoNode) or this IO worker has no connection to the one picked (kNotFound).
OnNewFuncCallCommon(c) ==
    IF c.reply = "later"
    THEN [c EXCEPT !.calls = Append(@, [func_name |-> c.func_call_context_.func_name,
                                        input |-> c.func_call_context_.input])]
    ELSE OnFuncCallFinishedInternal([c EXCEPT !.func_call_context_.status = c.reply])

OnNewHttpFuncCall(c) ==
    IF c.func_call_context_.func_name \in DOMAIN FuncConfig THEN OnNewFuncCallCommon(c)
    ELSE OnFuncCallFinishedInternal([c EXCEPT !.func_call_context_.status = "kNotFound"])

\* Variant: what the call before left stays.
FuncCallContextResetNot(context) == context

FuncCallContextReset(context) == NoContext

OnNewHttpRequest(c, path, qs) ==
    LET name == IF Len(path) = 2 THEN path[2] ELSE "" IN
    IF \/ c.method \notin {"GET", "POST"} \/ path[1] # "/function/"
       \/ name \notin DOMAIN FuncConfig
       \/ ~FuncConfig[name].allow_http_get /\ c.method = "GET"
    THEN SendHttpResponse(c, 404, 0)
    ELSE LET input == IF FuncConfig[name].qs_as_input THEN <<QueryStringToJSON(qs)>>
                      ELSE c.body_buffer_
         IN  OnNewHttpFuncCall([c EXCEPT !.func_call_context_ =
                 [FuncCallContextReset(@) EXCEPT !.func_name = name, !.input = input]])

-----------------------------------------------------------------------------
(***************************************************************************)
(* The callbacks of the parser.                                            *)
(***************************************************************************)

OnMessageBegin(c, t) ==
    [c EXCEPT !.method = t.data, !.header_field_value_flag_ = -1,
              !.header_field_buffer_ = <<>>, !.header_field_buffer_pos_ = 0,
              !.header_value_buffer_ = <<>>, !.header_value_buffer_pos_ = 0,
              !.url_buffer_ = <<>>]

OnUrl(c, t) == [c EXCEPT !.url_buffer_ = Append(@, t)]

\* A header is complete: the next one starts where the buffers end. The views put
\* into headers_ are left out: nothing reads them, and they point into buffers that
\* move when they grow.
OnNewHeader(c) ==
    [c EXCEPT !.header_field_buffer_pos_ = Len(c.header_field_buffer_),
              !.header_value_buffer_pos_ = Len(c.header_value_buffer_)]

OnHeaderField(c, t) ==
    LET d == IF c.header_field_value_flag_ = 1 THEN OnNewHeader(c) ELSE c
    IN  [d EXCEPT !.header_field_buffer_ = Append(@, t.data),
                  !.header_field_value_flag_ = 0]

OnHeaderValue(c, t) ==
    [c EXCEPT !.header_value_buffer_ = Append(@, t.data), !.header_field_value_flag_ = 1]

\* Variant: the body of the previous request is kept.
OnHeadersCompleteKeepsBody(c) ==
    IF c.header_field_value_flag_ = 1 THEN OnNewHeader(c) ELSE c

OnHeadersComplete(c) ==
    [IF c.header_field_value_flag_ = 1 THEN OnNewHeader(c) ELSE c
        EXCEPT !.body_buffer_ = <<>>]

OnBody(c, t) == [c EXCEPT !.body_buffer_ = Append(@, t.data)]

\* http_parser_parse_url finds a path in the URL; a URL may have none, and it may
\* have a query.
UrlParses(url) == url # <<>> /\ Head(url).cb = "path"

\* The pieces of the URL that belong to its path, or to its query.
UrlField(url, field) ==
    LET pieces == SelectSeq(url, LAMBDA t : t.cb = field)
    IN  [i \in 1..Len(pieces) |-> pieces[i].data]

OnMessageComplete(c) ==
    LET d == StopRecvData(c) IN
    IF ~UrlParses(d.url_buffer_) THEN ScheduleClose(d)
    ELSE OnNewHttpRequest(d, UrlField(d.url_buffer_, "path"),
                          FlattenSeq(UrlField(d.url_buffer_, "query")))

\* The callback of one token. Junk is what the parser rejects; the rest of the
\* read is not parsed then.
ParserCallback(c, t) ==
    IF c.http_errno THEN c
    ELSE CASE t.cb = "begin" -> OnMessageBegin(c, t)
           [] t.cb \in {"path", "query"} -> OnUrl(c, t)
           [] t.cb = "field" -> OnHeaderField(c, t)
           [] t.cb = "value" -> OnHeaderValue(c, t)
           [] t.cb = "headers_complete" -> OnHeadersComplete(c)
           [] t.cb = "body" -> OnBody(c, t)
           [] t.cb = "complete" -> OnMessageComplete(c)
           [] t.cb = "junk" -> [c EXCEPT !.http_errno = TRUE]

-----------------------------------------------------------------------------
(***************************************************************************)
(* The client (external). A request has a method, a URL, headers and a     *)
(* body; its query is a list of pairs, which the client encodes.           *)
(***************************************************************************)

Token(cb, data) == [cb |-> cb, data |-> data]

HexDigit(d, lower) == IF d < 10 THEN 48 + d ELSE d - 10 + (IF lower THEN 97 ELSE 65)

EncodeChar(ch, lower) ==
    IF Letter(ch) \/ Digit(ch) \/ ch \in {126, 45, 46, 95} THEN <<ch>>
    ELSE IF ch = 32 THEN <<43>>
    ELSE <<37, HexDigit(ch \div 16, lower), HexDigit(ch % 16, lower)>>

EncodeText(text, lower) == FlattenSeq([i \in 1..Len(text) |-> EncodeChar(text[i], lower)])

EncodeQuery(pairs) ==
    FlattenSeq([i \in 1..Len(pairs) |->
        (IF i = 1 THEN <<>> ELSE <<38>>) \o EncodeText(pairs[i][1], TRUE)
            \o <<61>> \o EncodeText(pairs[i][2], FALSE)])

WireOf(r) ==
    <<Token("begin", r.method)>>
    \o [i \in 1..Len(r.path) |-> Token("path", r.path[i])]
    \o (IF r.query = <<>> THEN <<>> ELSE <<Token("query", EncodeQuery(r.query))>>)
    \o FlattenSeq([i \in 1..Len(r.headers) |->
          [j \in 1..Len(r.headers[i][1]) |-> Token("field", r.headers[i][1][j])]
          \o [j \in 1..Len(r.headers[i][2]) |-> Token("value", r.headers[i][2][j])]])
    \o (IF r.junk THEN <<Token("junk", "")>> ELSE <<Token("headers_complete", "")>>)
    \o [i \in 1..Len(r.body) |-> Token("body", r.body[i])]
    \o <<Token("complete", "")>>

HttpClientSends(r) ==
    /\ http.state_ # "kCreated"
    /\ Len(http_sent) < MaxRequests /\ Len(http_sent) = Len(http_received)
    /\ \A i \in 1..Len(http_wire) : http_wire[i].cb # "eof"
    /\ http_sent' = Append(http_sent, r)
    /\ http_wire' = http_wire \o WireOf(r)
    /\ UNCHANGED <<http, http_received>>

HttpClientCloses ==
    /\ http.state_ # "kCreated"
    /\ \A i \in 1..Len(http_wire) : http_wire[i].cb # "eof"
    /\ http_wire' = Append(http_wire, Token("eof", ""))
    /\ UNCHANGED <<http, http_sent, http_received>>

-----------------------------------------------------------------------------
(***************************************************************************)
(* Events of the event loop.                                               *)
(***************************************************************************)

HttpStart ==
    /\ http.state_ = "kCreated"
    /\ http' = StartRecvData([http EXCEPT !.state_ = "kRunning"])
    /\ UNCHANGED <<http_wire, http_sent, http_received>>

\* RecvData: the read brings the next n tokens.
HttpRecvData(n, reply) ==
    /\ http.reading
    /\ LET read == SubSeq(http_wire, 1, n)
           c == [FoldLeft(ParserCallback, [http EXCEPT !.reply = reply], read)
                    EXCEPT !.reply = "later"]
       IN  /\ \A i \in 1..n : read[i].cb # "eof"
           /\ http' = IF c.http_errno THEN ScheduleClose(c) ELSE c
    /\ http_wire' = SubSeq(http_wire, n + 1, Len(http_wire))
    /\ UNCHANGED <<http_sent, http_received>>

\* RecvData at the end of the stream.
HttpRecvEnd ==
    /\ http.reading /\ http_wire # <<>> /\ Head(http_wire).cb = "eof"
    /\ http' = ScheduleClose(http)
    /\ UNCHANGED <<http_wire, http_sent, http_received>>

\* What a function returns.
Output(call) == <<call.func_name, call.input>>

\* The server finishes a call: it fills func_call_context_ and calls
\* OnFuncCallFinished, which schedules the rest on the connection's event loop. A
\* call that waited may still find no connection to its engine.
HttpCallFinishes(status) ==
    /\ http.calls # <<>>
    /\ http' = [http EXCEPT
          !.calls = Tail(@), !.scheduled = @ + 1,
          !.func_call_context_.status = status,
          !.func_call_context_.output = IF status = "kSuccess"
                                        THEN Append(@, Output(Head(http.calls))) ELSE @]
    /\ UNCHANGED <<http_wire, http_sent, http_received>>

\* A closed connection is not called any more.
HttpRunScheduled ==
    /\ http.scheduled > 0
    /\ http' = LET c == [http EXCEPT !.scheduled = @ - 1]
               IN  IF c.state_ = "kClosed" THEN c ELSE OnFuncCallFinishedInternal(c)
    /\ UNCHANGED <<http_wire, http_sent, http_received>>

\* libuv (external): the response reaches the client, or its write fails. uv_close
\* cancels what was not written.
HttpTransmit(ok) ==
    /\ http.writes # <<>> /\ Head(http.writes).state = "queued"
    /\ ok => http.state_ = "kRunning"
    /\ http' = [http EXCEPT !.writes[1].state = IF ok THEN "sent" ELSE "failed"]
    /\ http_received' = IF ok
          THEN Append(http_received,
                 [status |-> http.response_header_.status,
                  length |-> http.response_header_.length,
                  body |-> IF Head(http.writes).with_body
                           THEN http.func_call_context_.output ELSE <<>>])
          ELSE http_received
    /\ UNCHANGED <<http_wire, http_sent>>

HttpDataWritten ==
    /\ http.writes # <<>> /\ Head(http.writes).state # "queued"
    /\ http' = LET c == [http EXCEPT !.writes = Tail(@)]
               IN  IF Head(http.writes).state = "sent" THEN StartRecvData(c)
                   ELSE ScheduleClose(c)
    /\ UNCHANGED <<http_wire, http_sent, http_received>>

\* The callback of uv_close, after those of the writes it cancelled.
HttpClose ==
    /\ http.state_ = "kClosing" /\ http.writes = <<>>
    /\ http' = [http EXCEPT !.state_ = "kClosed"]
    /\ UNCHANGED <<http_wire, http_sent, http_received>>

HttpNext ==
    \/ HttpStart \/ HttpRecvEnd \/ HttpRunScheduled \/ HttpDataWritten \/ HttpClose
    \/ \E n \in 1..Len(http_wire), reply \in {"later", "kNoNode", "kNotFound"} :
          HttpRecvData(n, reply)
    \/ \E ok \in BOOLEAN : HttpTransmit(ok)
    \/ \E status \in {"kSuccess", "kFailed", "kNotFound"} : HttpCallFinishes(status)
    \/ \E r \in Requests : HttpClientSends(r)
    \/ HttpClientCloses

-----------------------------------------------------------------------------
(***************************************************************************)
(* Properties.                                                             *)
(***************************************************************************)

Accepted(r) ==
    /\ r.method \in {"GET", "POST"} /\ Len(r.path) = 2 /\ r.path[1] = "/function/"
    /\ r.path[2] \in DOMAIN FuncConfig
    /\ r.method = "GET" => FuncConfig[r.path[2]].allow_http_get

\* The pairs of a query, of which the last for a field counts.
Meaning(pairs) ==
    {pairs[i] : i \in {i \in 1..Len(pairs) :
        \A j \in i + 1..Len(pairs) : pairs[j][1] # pairs[i][1]}}

CallOf(r) == [func_name |-> r.path[2],
              input |-> IF FuncConfig[r.path[2]].qs_as_input THEN <<Meaning(r.query)>>
                        ELSE r.body]

\* What a client may read as the answer to r.
AnswersTo(r) ==
    IF r.junk \/ r.path = <<>> THEN {}
    ELSE IF ~Accepted(r) THEN {[status |-> 404, length |-> 0, body |-> <<>>]}
    ELSE {[status |-> 200, length |-> 1, body |-> <<Output(CallOf(r))>>],
          [status |-> 404, length |-> 0, body |-> <<>>],
          [status |-> 500, length |-> 0, body |-> <<>>]}

\* However a request is cut into reads and whatever the one before it left in
\* the buffers, the server gets the function and the input (the body, or the
\* decoded query) of that request, and gets a call only for a request that is
\* accepted (http_connection.cpp:129-165, 236-319).
HttpCallIsTheRequest ==
    http.calls # <<>> =>
        LET r == http_sent[Len(http_sent)]
        IN  ~r.junk /\ Accepted(r) /\ http.calls[1] = CallOf(r)

\* The i-th response is one to the i-th request, with the output of its own call,
\* although the bytes are taken from func_call_context_ and response_header_
\* when libuv gets to write them (http_connection.cpp:307, 328-382). For a client
\* that waits for its response those members and response_write_req_ serve one
\* request at a time: none is taken up while a call or a write of the one before
\* is in progress, although the client may have its response before DataWritten
\* runs (http_connection.cpp:71-78, 109-117, 252-253).
HttpAnswersInOrder ==
    /\ \A i \in 1..Len(http_received) :
          i <= Len(http_sent) /\ http_received[i] \in AnswersTo(http_sent[i])
    /\ Len(http.calls) + http.scheduled + Len(http.writes) <= 1

\* A connection that runs is never left with nothing to wake it: it reads, or a
\* call, its result or a write is on its way, after which reading is resumed; so
\* every request is answered or the connection is closed
\* (http_connection.cpp:60-78, 109-117, 252-274).
HttpNothingLeftBehind ==
    http.state_ = "kRunning" =>
        http.reading \/ http.calls # <<>> \/ http.scheduled > 0 \/ http.writes # <<>>
=============================================================================
