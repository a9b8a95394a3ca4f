--------------------------- MODULE GatewayServer ----------------------------
(***************************************************************************)
(* The gateway's Server (src/src/gateway/server.cpp): it takes function    *)
(* calls from HTTP and gRPC connections, bounds how many run at a time,    *)
(* spreads them over the engines (nodes), and hands the answers back.      *)
(*                                                                         *)
(* IO workers run in parallel. A handler takes mu_ for its bookkeeping and *)
(* sends and finishes calls after it released mu_; the tasks it still has  *)
(* to do are todo, and the other IO workers run between them. Clients      *)
(* close streams and connections, engines connect and go away, at any time.*)
(***************************************************************************)
EXTENDS Integers, Sequences, FiniteSets

CONSTANTS
    Calls, Conns, Nodes, Workers,
    NoNode,
    ConnOf,             \* [Calls -> Conns]: the connection a call arrives on
    WorkerOf,           \* [Conns -> Workers]: the IO worker of a client connection
    Grpc,               \* the gRPC connections; the others are HTTP
    MaxRunning,         \* --max_running_requests, per node; 0 is no limit
    Deployments         \* which values <<calm, lb, engines>> takes

ASSUME ConnAssumption ==
    /\ ConnOf \in [Calls -> Conns] /\ WorkerOf \in [Conns -> Workers]
    /\ Grpc \subseteq Conns
ASSUME NodeAssumption == NoNode \notin Nodes
ASSUME LimitAssumption == MaxRunning \in Nat
ASSUME DeploymentAssumption ==
    Deployments \subseteq
        BOOLEAN \X {"round_robin", "least_load", "random"} \X SUBSET Nodes
ASSUME FiniteAssumption == IsFiniteSet(Calls) /\ IsFiniteSet(Nodes)

VARIABLES
    \* Server, guarded by mu_
    connected_nodes,        \* never shrinks
    next_dispatch_node_idx, \* of the one function that is called
    inflight_requests,      \* inflight_requests_per_node_
    running_func_calls,     \* [Calls -> Nodes \cup {NoNode}]: the node it was sent to
    pending_func_calls,     \* a queue
    discarded_func_calls,
    connections,            \* keys of connections_
    \* the connections
    conn_state,             \* of HTTP and gRPC connections
    open_calls,             \* calls whose context their connection still keeps
    engine_conn,            \* [Workers \X Nodes -> state]
    \* the IO workers
    todo,                   \* [Workers -> Seq(tasks)], after mu_ was released
    scheduled,              \* finished calls, on their way to the loop of their worker
    \* the engines and the clients
    at_engine,              \* calls an engine has and did not answer
    fate,                   \* [Calls -> {"new", "accepted", "answered"}]
    calm,                   \* clients wait for the handshakes, and engines stay
    lb,                     \* the load balancer, set when the gateway starts
    engines                 \* the nodes on which an engine is started

serverVars == <<connected_nodes, next_dispatch_node_idx, inflight_requests,
                running_func_calls, pending_func_calls, discarded_func_calls>>
clientVars == <<connections, conn_state, open_calls, fate>>
settingVars == <<calm, lb, engines>>
vars == <<serverVars, clientVars, engine_conn, todo, scheduled, at_engine, settingVars>>

Running == {f \in Calls : running_func_calls[f] # NoNode}
MaxRunningRequests == MaxRunning * Len(connected_nodes)
Queued(f) == \E i \in 1..Len(pending_func_calls) : pending_func_calls[i] = f

Dispatch(f, n) == [do |-> "dispatch", call |-> f, node |-> n]
Finish(f) == [do |-> "finish", call |-> f, node |-> NoNode]
Tasks == [do : {"dispatch", "finish"}, call : Calls, node : Nodes \cup {NoNode}]

Init ==
    /\ connected_nodes = <<>>
    /\ next_dispatch_node_idx = 1
    /\ inflight_requests = [n \in Nodes |-> 0]
    /\ running_func_calls = [f \in Calls |-> NoNode]
    /\ pending_func_calls = <<>>
    /\ discarded_func_calls = {}
    /\ connections = {}
    /\ conn_state = [k \in Conns |-> "none"]
    /\ open_calls = {}
    /\ engine_conn = [wn \in Workers \X Nodes |-> "none"]
    /\ todo = [w \in Workers |-> <<>>]
    /\ scheduled = {}
    /\ at_engine = {}
    /\ fate = [f \in Calls |-> "new"]
    /\ \E d \in Deployments : calm = d[1] /\ lb = d[2] /\ engines = d[3]

-----------------------------------------------------------------------------
(***************************************************************************)
(* Connections come and go.                                                *)
(***************************************************************************)

\* OnEngineHandshake on the server's loop: the node counts as connected from
\* its first handshake on, before the connection reaches its IO worker.
OnEngineHandshake(w, n) ==
    /\ n \in engines
    /\ engine_conn[<<w, n>>] = "none"
    /\ engine_conn' = [engine_conn EXCEPT ![<<w, n>>] = "in_transit"]
    /\ connected_nodes' = IF \E i \in 1..Len(connected_nodes) : connected_nodes[i] = n
                          THEN connected_nodes ELSE Append(connected_nodes, n)
    /\ UNCHANGED <<next_dispatch_node_idx, inflight_requests, running_func_calls,
                   pending_func_calls, discarded_func_calls, clientVars, todo, scheduled,
                   at_engine, settingVars>>

\* The IO worker takes the engine connection over, or loses it: ScheduleClose
\* marks it, and only later does the IO worker forget it.
EngineConnectionSteps(w, n) ==
    /\ todo[w] = <<>>
    /\ \/ /\ engine_conn[<<w, n>>] = "in_transit"
          /\ engine_conn' = [engine_conn EXCEPT ![<<w, n>>] = "running"]
       \/ /\ engine_conn[<<w, n>>] = "running" /\ ~calm
          /\ engine_conn' = [engine_conn EXCEPT ![<<w, n>>] = "closing"]
       \/ /\ engine_conn[<<w, n>>] = "closing"
          /\ engine_conn' = [engine_conn EXCEPT ![<<w, n>>] = "closed"]
    /\ UNCHANGED <<serverVars, clientVars, todo, scheduled, at_engine, settingVars>>

\* A client connects: its IO worker may start the connection before the
\* server's loop has entered it into connections_.
ConnectionStarts(k) ==
    /\ conn_state[k] = "none"
    /\ conn_state' = [conn_state EXCEPT ![k] = "running"]
    /\ UNCHANGED <<serverVars, connections, open_calls, fate, engine_conn, todo, scheduled,
                   at_engine, settingVars>>

ConnectionEntered(k) ==
    /\ conn_state[k] \in {"running", "closing"} /\ k \notin connections
    /\ connections' = connections \cup {k}
    /\ UNCHANGED <<serverVars, conn_state, open_calls, fate, engine_conn, todo, scheduled,
                   at_engine, settingVars>>

OpenOn(k) == {f \in open_calls : ConnOf[f] = k}

\* ScheduleClose of a client connection. A gRPC connection discards the calls it
\* has open; an HTTP connection does not read, and so does not close, while
\* its call is open.
ScheduleClose(k) ==
    /\ conn_state[k] = "running"
    /\ todo[WorkerOf[k]] = <<>>
    /\ k \in Grpc \/ OpenOn(k) = {}
    /\ conn_state' = [conn_state EXCEPT ![k] = "closing"]
    /\ discarded_func_calls' = discarded_func_calls \cup OpenOn(k)
    /\ open_calls' = open_calls \ OpenOn(k)
    /\ UNCHANGED <<connected_nodes, next_dispatch_node_idx, inflight_requests,
                   running_func_calls, pending_func_calls, connections, fate, engine_conn,
                   todo, scheduled, at_engine, settingVars>>

\* OnConnectionClose, once the IO worker has returned the connection.
OnConnectionClose(k) ==
    /\ conn_state[k] = "closing" /\ k \in connections
    /\ conn_state' = [conn_state EXCEPT ![k] = "closed"]
    /\ connections' = connections \ {k}
    /\ UNCHANGED <<serverVars, open_calls, fate, engine_conn, todo, scheduled, at_engine,
                   settingVars>>

\* H2OnStreamClose for the stream of an open call, with DiscardFuncCall.
H2OnStreamClose(f) ==
    /\ f \in open_calls /\ ConnOf[f] \in Grpc
    /\ todo[WorkerOf[ConnOf[f]]] = <<>>
    /\ discarded_func_calls' = discarded_func_calls \cup {f}
    /\ open_calls' = open_calls \ {f}
    /\ UNCHANGED <<connected_nodes, next_dispatch_node_idx, inflight_requests,
                   running_func_calls, pending_func_calls, connections, conn_state, fate,
                   engine_conn, todo, scheduled, at_engine, settingVars>>

-----------------------------------------------------------------------------
(***************************************************************************)
(* The handlers, under mu_.                                                *)
(***************************************************************************)

\* Node i of the list is the first of those with the fewest calls in flight.
LeastLoaded(i, inflight) ==
    \A j \in 1..Len(connected_nodes) :
        LET mine == inflight[connected_nodes[i]]
            other == inflight[connected_nodes[j]]
        IN  IF j < i THEN mine < other ELSE mine <= other

\* Variant: the node's load is not raised.
PickNextNodeUncounted(n, inflight) ==
    /\ \E i \in 1..Len(connected_nodes) : n = connected_nodes[i]
    /\ UNCHANGED next_dispatch_node_idx
    /\ inflight_requests' = inflight

\* PickNextNode: node n is picked, given the loads the handler left.
PickNextNode(n, inflight) ==
    /\ \E i \in 1..Len(connected_nodes) :
        /\ n = connected_nodes[i]
        /\ lb = "round_robin" => i = next_dispatch_node_idx
        /\ lb = "least_load" => LeastLoaded(i, inflight)
        /\ next_dispatch_node_idx' = IF lb = "round_robin"
                                     THEN (i % Len(connected_nodes)) + 1
                                     ELSE next_dispatch_node_idx
    /\ inflight_requests' = [inflight EXCEPT ![n] = @ + 1]

\* A client's request: the connection opens the call and asks the server. HTTP
\* connections have one call at a time.
Arrives(f) ==
    LET k == ConnOf[f] IN
    /\ fate[f] = "new"
    /\ conn_state[k] = "running"
    /\ todo[WorkerOf[k]] = <<>>
    /\ k \in Grpc \/ OpenOn(k) = {}
    /\ calm => k \in connections /\ \A wn \in Workers \X engines : engine_conn[wn] = "running"

\* OnNewHttpFuncCall and OnNewGrpcFuncCall for a function that is not in the
\* configuration: answered at once.
OnUnknownFunction(f) ==
    /\ Arrives(f)
    /\ fate' = [fate EXCEPT ![f] = "answered"]
    /\ UNCHANGED <<serverVars, connections, conn_state, open_calls, engine_conn, todo,
                   scheduled, at_engine, settingVars>>

\* Variant: one call more than the limit.
HasRoomOffByOne(running) ==
    MaxRunning = 0 \/ Cardinality(running) <= MaxRunningRequests

\* Does the limit leave room for one more call?
HasRoom(running) ==
    MaxRunning = 0 \/ Cardinality(running) < MaxRunningRequests

\* OnNewFuncCallCommon.
OnNewFuncCall(f) ==
    LET w == WorkerOf[ConnOf[f]] IN
    /\ Arrives(f)
    /\ fate' = [fate EXCEPT ![f] = "accepted"]
    /\ open_calls' = open_calls \cup {f}
    /\ \/ /\ connected_nodes = <<>>
          /\ todo' = [todo EXCEPT ![w] = <<Finish(f)>>]
          /\ UNCHANGED <<next_dispatch_node_idx, inflight_requests, running_func_calls,
                         pending_func_calls>>
       \/ /\ connected_nodes # <<>> /\ ~HasRoom(Running)
          /\ pending_func_calls' = Append(pending_func_calls, f)
          /\ UNCHANGED <<next_dispatch_node_idx, inflight_requests, running_func_calls,
                         todo>>
       \/ /\ connected_nodes # <<>> /\ HasRoom(Running)
          /\ \E n \in Nodes :
                /\ PickNextNode(n, inflight_requests)
                /\ running_func_calls' = [running_func_calls EXCEPT ![f] = n]
                /\ todo' = [todo EXCEPT ![w] = <<Dispatch(f, n)>>]
          /\ UNCHANGED pending_func_calls
    /\ UNCHANGED <<connected_nodes, discarded_func_calls, connections, conn_state,
                   engine_conn, scheduled, at_engine, settingVars>>

\* A pending call that OnRecvEngineMessage skips: discarded, or its connection
\* is gone.
Abandoned(f) == f \in discarded_func_calls \/ ConnOf[f] \notin connections

\* Variant: any calls are skipped.
SkipsAny(n) == TRUE

\* The first n pending calls are skipped; the next one, if any, is taken.
Skips(n) ==
    /\ \A i \in 1..n : Abandoned(pending_func_calls[i])
    /\ n < Len(pending_func_calls) => ~Abandoned(pending_func_calls[n + 1])

\* OnRecvEngineMessage on worker w: node n answers call f.
OnRecvEngineMessage(w, n, f) ==
    /\ todo[w] = <<>>
    /\ engine_conn[<<w, n>>] = "running"
    /\ f \in at_engine /\ running_func_calls[f] = n
    /\ at_engine' = at_engine \ {f}
    /\ LET answer == IF Abandoned(f) THEN <<>> ELSE <<Finish(f)>>
           rest == [running_func_calls EXCEPT ![f] = NoNode]
           inflight == [inflight_requests EXCEPT ![n] = @ - 1]
       IN  \/ /\ ~HasRoom(Running \ {f})
              /\ running_func_calls' = rest
              /\ inflight_requests' = inflight
              /\ discarded_func_calls' = discarded_func_calls \ {f}
              /\ todo' = [todo EXCEPT ![w] = answer]
              /\ UNCHANGED <<pending_func_calls, next_dispatch_node_idx>>
           \/ /\ HasRoom(Running \ {f})
              /\ \E s \in 0..Len(pending_func_calls) :
                    /\ Skips(s)
                    /\ discarded_func_calls' = discarded_func_calls \
                          ({f} \cup {pending_func_calls[i] : i \in 1..s})
                    /\ pending_func_calls' =
                          SubSeq(pending_func_calls, s + 2, Len(pending_func_calls))
                    /\ \/ /\ s = Len(pending_func_calls)
                          /\ running_func_calls' = rest
                          /\ inflight_requests' = inflight
                          /\ todo' = [todo EXCEPT ![w] = answer]
                          /\ UNCHANGED next_dispatch_node_idx
                       \/ /\ s < Len(pending_func_calls)
                          /\ \E m \in Nodes :
                               LET g == pending_func_calls[s + 1] IN
                               /\ PickNextNode(m, inflight)
                               /\ running_func_calls' = [rest EXCEPT ![g] = m]
                               /\ todo' = [todo EXCEPT ![w] = Append(answer, Dispatch(g, m))]
    /\ UNCHANGED <<connected_nodes, clientVars, engine_conn, scheduled, settingVars>>

-----------------------------------------------------------------------------
(***************************************************************************)
(* The tasks of a handler, after mu_.                                      *)
(***************************************************************************)

Task(w) == Head(todo[w])

\* DispatchFuncCall with a connection: a connection that is closing drops the
\* message without a word.
DispatchSent(w) ==
    /\ todo[w] # <<>> /\ Task(w).do = "dispatch"
    /\ engine_conn[<<w, Task(w).node>>] \in {"running", "closing"}
    /\ at_engine' = IF engine_conn[<<w, Task(w).node>>] = "running"
                    THEN at_engine \cup {Task(w).call} ELSE at_engine
    /\ todo' = [todo EXCEPT ![w] = Tail(@)]
    /\ UNCHANGED <<serverVars, clientVars, engine_conn, scheduled, settingVars>>

\* Variant: the call keeps running.
DispatchUnconnectedRuns(w) ==
    /\ todo[w] # <<>> /\ Task(w).do = "dispatch"
    /\ engine_conn[<<w, Task(w).node>>] \notin {"running", "closing"}
    /\ todo' = [todo EXCEPT ![w] = <<Finish(Task(w).call)>> \o Tail(@)]
    /\ UNCHANGED <<serverVars, clientVars, engine_conn, scheduled, at_engine, settingVars>>

\* DispatchFuncCall without a connection of this IO worker to the node: the call
\* stops running and is finished. Neither the node's load nor the queue changes.
DispatchUnconnected(w) ==
    /\ todo[w] # <<>> /\ Task(w).do = "dispatch"
    /\ engine_conn[<<w, Task(w).node>>] \notin {"running", "closing"}
    /\ running_func_calls' = [running_func_calls EXCEPT ![Task(w).call] = NoNode]
    /\ todo' = [todo EXCEPT ![w] = <<Finish(Task(w).call)>> \o Tail(@)]
    /\ UNCHANGED <<connected_nodes, next_dispatch_node_idx, inflight_requests,
                   pending_func_calls, discarded_func_calls, clientVars, engine_conn,
                   scheduled, at_engine, settingVars>>

\* OnFuncCallFinishedInternal: a call its connection has forgotten is dropped.
Delivered(f) ==
    /\ fate' = IF f \in open_calls /\ conn_state[ConnOf[f]] = "running"
               THEN [fate EXCEPT ![f] = "answered"] ELSE fate
    /\ open_calls' = open_calls \ {f}

\* Variant: what another worker must run is lost.
FinishFuncCallLocal(w) ==
    /\ todo[w] # <<>> /\ Task(w).do = "finish"
    /\ todo' = [todo EXCEPT ![w] = Tail(@)]
    /\ IF WorkerOf[ConnOf[Task(w).call]] = w THEN Delivered(Task(w).call)
       ELSE UNCHANGED <<fate, open_calls>>
    /\ UNCHANGED <<serverVars, scheduled, connections, conn_state, engine_conn, at_engine,
                   settingVars>>

\* FinishFuncCall: ScheduleFunction runs at once on the connection's own worker.
FinishFuncCall(w) ==
    /\ todo[w] # <<>> /\ Task(w).do = "finish"
    /\ todo' = [todo EXCEPT ![w] = Tail(@)]
    /\ LET f == Task(w).call IN
       IF WorkerOf[ConnOf[f]] = w
       THEN Delivered(f) /\ UNCHANGED scheduled
       ELSE scheduled' = scheduled \cup {f} /\ UNCHANGED <<fate, open_calls>>
    /\ UNCHANGED <<serverVars, connections, conn_state, engine_conn, at_engine, settingVars>>

RunScheduledFunction(f) ==
    /\ f \in scheduled
    /\ todo[WorkerOf[ConnOf[f]]] = <<>>
    /\ scheduled' = scheduled \ {f}
    /\ Delivered(f)
    /\ UNCHANGED <<serverVars, connections, conn_state, engine_conn, todo, at_engine,
                   settingVars>>

Next ==
    \/ \E w \in Workers, n \in Nodes : OnEngineHandshake(w, n) \/ EngineConnectionSteps(w, n)
    \/ \E k \in Conns : \/ ConnectionStarts(k) \/ ConnectionEntered(k)
                        \/ ScheduleClose(k) \/ OnConnectionClose(k)
    \/ \E f \in Calls : \/ H2OnStreamClose(f) \/ OnUnknownFunction(f) \/ OnNewFuncCall(f)
                        \/ RunScheduledFunction(f)
    \/ \E w \in Workers, n \in Nodes, f \in Calls : OnRecvEngineMessage(w, n, f)
    \/ \E w \in Workers : DispatchSent(w) \/ DispatchUnconnected(w) \/ FinishFuncCall(w)

Spec == Init /\ [][Next]_vars

\* Event loops keep running, and engines answer what they got.
Fairness ==
    /\ \A w \in Workers : WF_vars(DispatchSent(w) \/ DispatchUnconnected(w) \/ FinishFuncCall(w))
    /\ \A f \in Calls : WF_vars(RunScheduledFunction(f))
    /\ \A f \in Calls : WF_vars(\E w \in Workers, n \in Nodes : OnRecvEngineMessage(w, n, f))

FairSpec == Spec /\ Fairness

-----------------------------------------------------------------------------
(***************************************************************************)
(* Properties.                                                             *)
(***************************************************************************)

\* The type of the server's maps, of the connections and of the IO workers.
TypeOK ==
    /\ connected_nodes \in Seq(Nodes)
    /\ next_dispatch_node_idx \in Nat \ {0}
    /\ inflight_requests \in [Nodes -> Nat]
    /\ running_func_calls \in [Calls -> Nodes \cup {NoNode}]
    /\ pending_func_calls \in Seq(Calls)
    /\ discarded_func_calls \subseteq Calls
    /\ connections \subseteq Conns
    /\ conn_state \in [Conns -> {"none", "running", "closing", "closed"}]
    /\ open_calls \subseteq Calls
    /\ engine_conn \in
          [Workers \X Nodes -> {"none", "in_transit", "running", "closing", "closed"}]
    /\ todo \in [Workers -> Seq(Tasks)]
    /\ scheduled \subseteq Calls
    /\ at_engine \subseteq Calls
    /\ fate \in [Calls -> {"new", "accepted", "answered"}]
    /\ <<calm, lb, engines>> \in Deployments

\* The gateway never runs more calls than it may (server.cpp:203, 326), also
\* while IO workers finish and start calls at the same time.
RunningBounded == MaxRunning > 0 => Cardinality(Running) <= MaxRunningRequests

Dispatching(f) == \E w \in Workers : \E i \in 1..Len(todo[w]) :
                     todo[w][i].do = "dispatch" /\ todo[w][i].call = f
Finishing(f) == \E w \in Workers : \E i \in 1..Len(todo[w]) :
                   todo[w][i].do = "finish" /\ todo[w][i].call = f

\* A call is in one place: it waits once, or it runs, and then one IO worker is
\* about to send it or one engine has it, or it is being finished
\* (server.cpp:201-224, 326-331, 369).
CallInOnePlace ==
    /\ \A f \in Calls : Queued(f) \/ f \in Running \/ Finishing(f) \/ f \in scheduled
            => fate[f] = "accepted"
    /\ \A f \in Running : ~Queued(f) /\ ~Finishing(f) /\ f \notin scheduled
    /\ \A f \in Calls : Queued(f) => ~Finishing(f) /\ f \notin scheduled
    /\ \A f \in Calls : Dispatching(f) \/ f \in at_engine => f \in Running
    /\ \A f \in at_engine : ~Dispatching(f)
    /\ \A f \in Calls : ~(Finishing(f) /\ f \in scheduled)
    /\ \A i, j \in 1..Len(pending_func_calls) :
            i # j => pending_func_calls[i] # pending_func_calls[j]

\* The load of a node is never less than the calls it runs, so that the counter
\* does not wrap below zero; it is exactly that while no dispatch failed, which
\* leaves the load raised (server.cpp:218, 291, 365-372).
InflightCovered ==
    \A n \in Nodes :
        LET mine == {f \in Calls : running_func_calls[f] = n}
        IN  /\ inflight_requests[n] >= Cardinality(mine)
            /\ calm => inflight_requests[n] = Cardinality(mine)

\* The queue is first in, first out, and only calls nobody waits for leave it
\* without running (server.cpp:204-216, 327).
QueueIsFIFO ==
    [][\E n \in 0..Len(pending_func_calls) :
          LET rest == SubSeq(pending_func_calls, n + 1, Len(pending_func_calls))
          IN  /\ \/ pending_func_calls' = rest
                 \/ n = 0 /\ \E f \in Calls : fate[f] = "new"
                                       /\ pending_func_calls' = Append(rest, f)
              /\ \A i \in 1..n : LET f == pending_func_calls[i]
                                 IN  \/ f \in Running' \/ f \notin open_calls
                                     \/ ConnOf[f] \notin connections]_vars

\* While engines stay connected, every call is answered, unless its client
\* closes the stream or the connection first.
EveryCallAnswered ==
    \A f \in Calls : calm /\ fate[f] = "accepted" ~> fate[f] = "answered" \/ f \notin open_calls
=============================================================================
