------------------------- MODULE MCGatewayPorts -------------------------
(***************************************************************************)
(* Instances of GatewayPorts.                                              *)
(***************************************************************************)
EXTENDS GatewayPorts

Request(method, path, query, headers, body) ==
    [method |-> method, path |-> path, query |-> query, headers |-> headers, body |-> body,
     junk |-> FALSE]

\* "f" takes the body of a POST, "q" the query string of a GET. The query of the
\* third request has a space, a character to be escaped, and a field given twice;
\* the URL of the last but one has no path.
MCRequests ==
    {Request("POST", <<"/function/", "f">>, <<>>, <<>>, <<"b1", "b2">>),
     Request("POST", <<"/function/", "f">>, <<>>,
             << <<<<"h", "1">>, <<"x">>>>, <<<<"h2">>, <<"y", "z">>>> >>, <<>>),
     Request("GET", <<"/function/", "q">>,
             << <<<<97>>, <<32, 47>>>>, <<<<98>>, <<49>>>>, <<<<97>>, <<61, 90>>>> >>, <<>>, <<>>),
     Request("GET", <<"/function/", "f">>, <<>>, <<>>, <<>>),
     Request("PUT", <<"/function/", "f">>, <<>>, <<>>, <<>>),
     Request("POST", <<"/function/", "g">>, <<>>, <<>>, <<>>),
     Request("POST", <<"/">>, <<>>, <<>>, <<>>),
     Request("POST", <<>>, <<>>, <<>>, <<>>),
     [Request("POST", <<"/function/", "f">>, <<>>, <<>>, <<>>) EXCEPT !.junk = TRUE]}

MCFuncConfig == [f |-> [allow_http_get |-> FALSE, qs_as_input |-> FALSE],
                 q |-> [allow_http_get |-> TRUE, qs_as_input |-> TRUE]]

GrpcHeaders(method) ==
    << <<":method", "POST">>, <<":scheme", "http">>, <<":path", <<"svc", method>>>>,
       <<"te", "trailers">>, <<"x-id", "7">> >>

GrpcRequest(headers, compressed, declared, size, body) ==
    [headers |-> headers, compressed |-> compressed, declared |-> declared, size |-> size,
     body |-> body]

\* A good request, a compressed one, one of another length than it says, one with
\* a bad path; and on the second stream one without a body.
MCGrpcRequests ==
    LET good == GrpcHeaders("m1")
    IN  << {GrpcRequest(good, FALSE, 1, 1, TRUE), GrpcRequest(good, TRUE, 1, 1, TRUE),
            GrpcRequest(good, FALSE, 0, 1, TRUE),
            GrpcRequest([good EXCEPT ![3] = <<":path", <<"svc">>>>], FALSE, 0, 0, FALSE)},
           {GrpcRequest(GrpcHeaders("m2"), FALSE, 0, 0, FALSE)} >>

\* Answers of a header alone, and of one that takes two write buffers.
MCPayloadSizes == [engine |-> {0, 2}, gateway |-> {2}]

MCMaxMessages == [engine |-> 2, gateway |-> 1]
=============================================================================
