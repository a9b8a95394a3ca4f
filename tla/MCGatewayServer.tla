-------------------------- MODULE MCGatewayServer ---------------------------
(* Small instances of GatewayServer for TLC: an HTTP connection on one IO    *)
(* worker and a gRPC connection on another.                                *)
EXTENDS GatewayServer, TLC

CONSTANTS f1, f2, f3, http, grpc, w1, w2, n1, n2

MCConnOf == [f \in Calls |-> IF f = f1 THEN http ELSE grpc]
MCWorkerOf == [k \in Conns |-> IF k = http THEN w1 ELSE w2]

\* One engine that comes late or goes away, or two that stay.
MCDeployments ==
    {<<FALSE, "round_robin", {n1}>>} \cup
    ({TRUE} \X {"round_robin", "least_load", "random"} \X {{n1, n2}})
=============================================================================
