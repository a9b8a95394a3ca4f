---------------------------- MODULE GatewayPorts ----------------------------
(***************************************************************************)
(* A connection to the gateway: HTTP, gRPC or of an engine, by the port it *)
(* came to. The kinds share the server and the IO workers and no state of  *)
(* their own.                                                              *)
(***************************************************************************)
EXTENDS HttpConnection, GrpcConnection, EngineLink

VARIABLE port           \* "http", "grpc" or "engine"

vars == <<port, httpVars, grpcVars, linkVars>>

Init == port \in {"http", "grpc", "engine"} /\ HttpInit /\ GrpcInit /\ LinkInit

HttpPort == port = "http" /\ HttpNext /\ UNCHANGED <<port, grpcVars, linkVars>>

GrpcPort == port = "grpc" /\ GrpcNext /\ UNCHANGED <<port, httpVars, linkVars>>

EnginePort == port = "engine" /\ LinkNext /\ UNCHANGED <<port, httpVars, grpcVars>>

Next == HttpPort \/ GrpcPort \/ EnginePort

Spec == Init /\ [][Next]_vars

\* No client is left waiting: on either port, what a connection has to do next is
\* always in the hands of something that will wake it (http_connection.cpp:60-78,
\* 109-117, 252-274; grpc_connection.cpp:142-204, 245-280, 359-384, 570-589).
NothingLeftBehind == HttpNothingLeftBehind /\ GrpcNothingLeftBehind
=============================================================================
