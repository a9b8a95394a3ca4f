------------------------------ MODULE FuncCalls ------------------------------
(***************************************************************************)
(* Function calls on one machine, from the gateway or from another         *)
(* function (src/src/engine/engine.cpp, message_connection.cpp,            *)
(* src/src/worker/worker_lib.cpp and the worker libraries). Messages pass  *)
(* between engine and workers through two FIFOs per worker. Large inputs   *)
(* and outputs are files in shared memory, and with                        *)
(* --use_fifo_for_nested_call the output of a nested call goes to the      *)
(* caller through a FIFO of its own, past the engine.                      *)
(*                                                                         *)
(* A handler of the engine is one action unless something it does can be   *)
(* seen from outside in between. Of the dispatcher (module Dispatcher) only *)
(* its queue and its busy workers are kept: which idle worker it picks,    *)
(* whether its limiter makes a call wait, and whether an internal call     *)
(* waited too long are left open.                                          *)
(***************************************************************************)
EXTENDS Integers, Sequences, FiniteSets, Functions

CONSTANTS
    Funcs, Workers, FuncOf,     \* [Workers -> Funcs]
    ExternalCalls, NestedCalls,
    Callee,                     \* [Calls -> Funcs]: func_id
    Caller,                     \* [NestedCalls -> Workers]: client_id
    NoCall,
    Libs,                       \* worker libraries: "v1" (C++), "event", "go"
    MayDiscard,                 \* max_relative_queueing_delay is not 0
    MayLoseGateway,             \* bound: does a connection to the gateway end
    MaxCrashes,                 \* bound: workers that die by themselves
    MaxFaults                   \* bound: dead workers and abandoned calls together

Calls == ExternalCalls \cup NestedCalls

ASSUME FuncAssumption == FuncOf \in [Workers -> Funcs] /\ Callee \in [Calls -> Funcs]
ASSUME CallAssumption ==
    /\ Caller \in [NestedCalls -> Workers]
    /\ ExternalCalls \cap NestedCalls = {} /\ NoCall \notin Calls
ASSUME LibAssumption == Libs \subseteq {"v1", "event", "go"}
ASSUME FlagAssumption ==
    /\ MayDiscard \in BOOLEAN /\ MayLoseGateway \in BOOLEAN
    /\ MaxCrashes \in Nat /\ MaxFaults \in Nat

VARIABLES
    \* flags and the workers' library, fixed in a behaviour
    use_fifo_for_nested_call, direct_write, lib,
    \* the engine
    engine_up, gateway_up,
    func_workers,           \* registered with the WorkerManager and a Dispatcher
    running_workers,        \* [Workers -> Calls \cup {NoCall}]
    pending_func_calls,     \* [Funcs -> Seq of dispatch messages]
    discarding,             \* [NestedCalls -> progress of a discarded call]
    inflight_external_requests,
    \* the connections
    conn,                   \* [Workers -> state_ of the MessageConnection]
    handshake_done,
    down,                   \* to the worker: pending_messages_, is SendPendingMessages
                            \* scheduled, and its input FIFO
    up,                     \* to the engine: its output FIFO
    \* the workers
    proc, current,
    waiting,                \* nested calls whose answer the worker waits for
    held,                   \* answered calls whose output region it still uses
    writing,                \* what it is about to write to the caller's FIFO
    \* files
    shm,                    \* regions: <<"input", c>> and <<"output", c>>
    output_fifo,            \* [NestedCalls -> the FIFO for the output]
    \* what became of a call: for its caller, and for the function
    result, outcome

flagVars == <<use_fifo_for_nested_call, direct_write, lib>>
dispatcherVars == <<func_workers, running_workers, pending_func_calls>>
engineVars == <<engine_up, gateway_up, dispatcherVars, discarding, inflight_external_requests>>
connVars == <<conn, handshake_done>>
workerVars == <<proc, current, waiting, held, writing>>
fileVars == <<shm, output_fifo>>
endVars == <<result, outcome>>
vars == <<flagVars, engineVars, connVars, down, up, workerVars, fileVars, endVars>>

Message(type, c, big) == [type |-> type, call |-> c, shm |-> big]

\* Every worker process has started and sent its handshake.
Init ==
    /\ use_fifo_for_nested_call \in BOOLEAN /\ direct_write \in BOOLEAN /\ lib \in Libs
    /\ engine_up = TRUE /\ gateway_up = TRUE
    /\ func_workers = {}
    /\ running_workers = [w \in Workers |-> NoCall]
    /\ pending_func_calls = [f \in Funcs |-> <<>>]
    /\ discarding = [g \in NestedCalls |-> "no"]
    /\ inflight_external_requests = 0
    /\ conn = [w \in Workers |-> "kCreated"] /\ handshake_done = {}
    /\ down = [w \in Workers |-> [pending |-> <<>>, scheduled |-> FALSE, fifo |-> <<>>]]
    /\ up = [w \in Workers |-> <<>>]
    /\ proc = [w \in Workers |-> "starting"]
    /\ current = [w \in Workers |-> NoCall]
    /\ waiting = [w \in Workers |-> {}]
    /\ held = [w \in Workers |-> {}]
    /\ writing = [w \in Workers |-> "nothing"]
    /\ shm = {}
    /\ output_fifo = [g \in NestedCalls |-> "none"]
    /\ result = [c \in Calls |-> "unused"]
    /\ outcome = [c \in Calls |-> "none"]

-----------------------------------------------------------------------------
(***************************************************************************)
(* The engine sends to workers and dispatches.                             *)
(***************************************************************************)

\* The descriptor is stored when the FIFOs are open. It is not reset at the
\* close: a write then fails and falls back to pending messages, as long as no
\* other file has got its number, which is left out here.
WritesDirectly(w) == direct_write /\ conn[w] = "kRunning"

\* Variant: nothing is scheduled to send the message.
WriteMessageUnscheduled(d, w, m) ==
    IF WritesDirectly(w) THEN [d EXCEPT ![w].fifo = Append(@, m)]
    ELSE [d EXCEPT ![w].pending = Append(@, m)]

\* MessageConnection::WriteMessage, as a function of what is under way. Inside
\* OnNewHandshake the IO worker runs SendPendingMessages at once, to no effect.
WriteMessage(d, w, m) ==
    IF WritesDirectly(w) THEN [d EXCEPT ![w].fifo = Append(@, m)]
    ELSE [d EXCEPT ![w].pending = Append(@, m),
                   ![w].scheduled = @ \/ conn[w] # "kCreated"]

\* SendPendingMessages of a running connection. Another one that is still
\* scheduled will find nothing to send.
AllSent(q) == [pending |-> <<>>, scheduled |-> FALSE, fifo |-> q.fifo \o q.pending]

\* A write to a FIFO that nobody reads raises SIGPIPE, which nothing handles.
SurvivesWrites(targets) == \A w \in targets : WritesDirectly(w) => proc[w] # "dead"

\* Dispatcher::OnNewFuncCall: an idle worker gets the call unless the limiter
\* makes it wait. With min_workers_ 0 its limit may be 0, and a call waits while
\* no worker of its function runs.
OnNewFuncCall(m) ==
    LET f == Callee[m.call]
        idle == {w \in func_workers : FuncOf[w] = f /\ running_workers[w] = NoCall}
    IN  \/ \E w \in idle :
             /\ running_workers' = [running_workers EXCEPT ![w] = m.call]
             /\ down' = WriteMessage(down, w, m)
             /\ engine_up' = SurvivesWrites({w})
             /\ UNCHANGED pending_func_calls
        \/ /\ pending_func_calls' = [pending_func_calls EXCEPT ![f] = Append(@, m)]
           /\ UNCHANGED <<running_workers, down, engine_up>>

\* Dispatcher::DispatchPendingFuncCall for worker w: the first k calls waited
\* too long. d and targets are what the handler sends besides.
DispatchPendingFuncCall(w, d, targets) ==
    LET f == FuncOf[w]
        q == pending_func_calls[f]
    IN  \E k \in 0 .. Len(q) :
          /\ \A i \in 1 .. k : MayDiscard /\ q[i].call \in NestedCalls
          /\ discarding' = [g \in NestedCalls |->
                                IF \E i \in 1 .. k : q[i].call = g THEN "queued"
                                ELSE discarding[g]]
          /\ pending_func_calls' = [pending_func_calls EXCEPT ![f] = SubSeq(q, k + 2, Len(q))]
          /\ \/ /\ k = Len(q)
                /\ running_workers' = [running_workers EXCEPT ![w] = NoCall]
                /\ down' = d
                /\ engine_up' = SurvivesWrites(targets)
             \/ /\ k < Len(q)
                /\ running_workers' = [running_workers EXCEPT ![w] = q[k + 1].call]
                /\ down' = WriteMessage(d, w, q[k + 1])
                /\ engine_up' = SurvivesWrites(targets \cup {w})

-----------------------------------------------------------------------------
(***************************************************************************)
(* Connections of function workers.                                        *)
(***************************************************************************)

\* WorkerManager::OnFuncWorkerConnected and that of the Dispatcher, for which the
\* worker is an idle one.
OnFuncWorkerConnected(w) ==
    /\ func_workers' = func_workers \cup {w}
    /\ DispatchPendingFuncCall(w, down, {})

\* WorkerManager::OnFuncWorkerDisconnected; the Dispatcher keeps the worker's call.
OnFuncWorkerDisconnected(w) ==
    /\ func_workers' = func_workers \ {w}
    /\ UNCHANGED <<running_workers, pending_func_calls>>

\* RecvHandshakeMessage up to the answer of OnNewHandshake: the worker is known
\* to the dispatcher, and may be sent a call, before its FIFOs are open.
OnNewHandshake(w) ==
    /\ engine_up
    /\ conn[w] = "kCreated"
    /\ conn' = [conn EXCEPT ![w] = "kHandshake"]
    /\ OnFuncWorkerConnected(w)
    /\ UNCHANGED <<flagVars, gateway_up, inflight_external_requests, handshake_done, up,
                   workerVars, fileVars, endVars>>

\* The rest of it: opens the FIFOs, answers, and sends what has been waiting.
RecvHandshakeMessage(w) ==
    /\ engine_up
    /\ conn[w] = "kHandshake" /\ proc[w] = "starting"
    /\ conn' = [conn EXCEPT ![w] = "kRunning"]
    /\ handshake_done' = handshake_done \cup {w}
    /\ down' = [down EXCEPT ![w] = AllSent(@)]
    /\ UNCHANGED <<flagVars, engineVars, up, workerVars, fileVars, endVars>>

\* The worker died before: its input FIFO has no reader. ScheduleClose then
\* closes out_fifo_handle_, which has not been initialised.
FifoOpenFails(w) ==
    /\ engine_up
    /\ conn[w] = "kHandshake" /\ proc[w] = "dead"
    /\ conn' = [conn EXCEPT ![w] = "kClosing"]
    /\ engine_up' \in BOOLEAN
    /\ UNCHANGED <<flagVars, gateway_up, dispatcherVars, discarding, inflight_external_requests,
                   handshake_done, down, up, workerVars, fileVars, endVars>>

\* SendPendingMessages, scheduled by WriteMessage on the connection's IO worker,
\* where RecvHandshakeMessage has come to its end.
SendPendingMessages(w) ==
    /\ engine_up
    /\ down[w].scheduled /\ conn[w] # "kHandshake"
    /\ \/ /\ conn[w] = "kRunning"
          /\ down' = [down EXCEPT ![w] = AllSent(@)]
          /\ engine_up' = (proc[w] # "dead")
       \/ /\ conn[w] # "kRunning"
          /\ down' = [down EXCEPT ![w].scheduled = FALSE]
          /\ UNCHANGED engine_up
    /\ UNCHANGED <<flagVars, gateway_up, dispatcherVars, discarding, inflight_external_requests,
                   connVars, up, workerVars, fileVars, endVars>>

\* The end of the worker's output FIFO: ScheduleClose.
ReadMessageEof(w) ==
    /\ engine_up
    /\ conn[w] = "kRunning" /\ proc[w] = "dead" /\ up[w] = <<>>
    /\ conn' = [conn EXCEPT ![w] = "kClosing"]
    /\ UNCHANGED <<flagVars, engineVars, handshake_done, down, up, workerVars, fileVars, endVars>>

\* Engine::OnConnectionClose: only a connection that finished its handshake is
\* taken from the WorkerManager and the Dispatcher.
OnConnectionClose(w) ==
    /\ engine_up
    /\ conn[w] = "kClosing"
    /\ conn' = [conn EXCEPT ![w] = "kClosed"]
    /\ IF w \in handshake_done THEN OnFuncWorkerDisconnected(w) ELSE UNCHANGED dispatcherVars
    /\ UNCHANGED <<flagVars, engine_up, gateway_up, discarding, inflight_external_requests,
                   handshake_done, down, up, workerVars, fileVars, endVars>>

-----------------------------------------------------------------------------
(***************************************************************************)
(* The engine's handlers for calls.                                        *)
(***************************************************************************)

\* A connection to the gateway ends; the engine does not connect again.
GatewayCloses ==
    /\ engine_up /\ gateway_up /\ MayLoseGateway
    /\ gateway_up' = FALSE
    /\ UNCHANGED <<flagVars, engine_up, dispatcherVars, discarding, inflight_external_requests,
                   connVars, down, up, workerVars, fileVars, endVars>>

\* A call fails without a run, or loses its output: the file for its input or
\* its output could not be created, or no dispatcher is found for it.
Faults == Cardinality({c \in Calls : outcome[c] = "abandoned"})
             + Cardinality({w \in Workers : proc[w] = "dead"})
MayAbandon == Faults < MaxFaults

OnExternalFuncCall(x, big) ==
    /\ engine_up /\ gateway_up
    /\ result[x] = "unused"
    /\ result' = [result EXCEPT ![x] = "open"]
    /\ inflight_external_requests' = inflight_external_requests + 1
    /\ shm' = IF big THEN shm \cup {<<"input", x>>} ELSE shm
    /\ OnNewFuncCall(Message("dispatch", x, big))
    /\ UNCHANGED <<flagVars, gateway_up, func_workers, discarding, connVars, up, workerVars,
                   output_fifo, outcome>>

\* OnExternalFuncCall returns early: ShmCreate fails for the input, or func_id is
\* not in the configuration. The gateway is told at once, on this connection.
OnExternalFuncCallFails(x) ==
    /\ engine_up /\ gateway_up
    /\ result[x] = "unused" /\ MayAbandon
    /\ result' = [result EXCEPT ![x] = "failed"]
    /\ outcome' = [outcome EXCEPT ![x] = "abandoned"]
    /\ UNCHANGED <<flagVars, engineVars, connVars, down, up, workerVars, fileVars>>

OnRecvInvokeFunc(w) ==
    /\ engine_up
    /\ conn[w] = "kRunning" /\ up[w] # <<>> /\ Head(up[w]).type = "invoke"
    /\ up' = [up EXCEPT ![w] = Tail(@)]
    /\ OnNewFuncCall([Head(up[w]) EXCEPT !.type = "dispatch"])
    /\ UNCHANGED <<flagVars, gateway_up, func_workers, discarding, inflight_external_requests,
                   connVars, workerVars, fileVars, endVars>>

\* What the gateway is told of an external call: ExternalFuncCallCompleted and
\* ExternalFuncCallFailed find a connection of their IO worker, or drop it.
Told(m) ==
    IF ~gateway_up THEN "lost"
    ELSE IF m.type = "complete" /\ (m.shm => <<"output", m.call>> \in shm) THEN "ok" ELSE "failed"

\* A worker is done with a call from the gateway.
OnRecvExternalDone(w) ==
    /\ engine_up
    /\ conn[w] = "kRunning" /\ up[w] # <<>>
    /\ Head(up[w]).type \in {"complete", "failed"} /\ Head(up[w]).call \in ExternalCalls
    /\ LET m == Head(up[w])
       IN  /\ shm' = shm \ {<<"input", m.call>>, <<"output", m.call>>}
           /\ result' = [result EXCEPT ![m.call] = Told(m)]
    /\ up' = [up EXCEPT ![w] = Tail(@)]
    /\ inflight_external_requests' = inflight_external_requests - 1
    /\ DispatchPendingFuncCall(w, down, {})
    /\ UNCHANGED <<flagVars, gateway_up, func_workers, connVars, workerVars, output_fifo,
                   outcome>>

\* Variant: hands every message on, whatever use_fifo_for_nested_call_ is.
OnRecvNestedDoneForwards(w) ==
    /\ engine_up
    /\ conn[w] = "kRunning" /\ up[w] # <<>>
    /\ Head(up[w]).type \in {"complete", "failed"} /\ Head(up[w]).call \in NestedCalls
    /\ up' = [up EXCEPT ![w] = Tail(@)]
    /\ LET m == Head(up[w])
           v == Caller[m.call]
       IN  /\ v \in func_workers
           /\ DispatchPendingFuncCall(w, WriteMessage(down, v, m), {v})
    /\ UNCHANGED <<flagVars, gateway_up, func_workers, inflight_external_requests, connVars,
                   workerVars, fileVars, endVars>>

\* A worker is done with a nested call. Without FIFOs the engine hands the
\* message on to the caller.
OnRecvNestedDone(w) ==
    /\ engine_up
    /\ conn[w] = "kRunning" /\ up[w] # <<>>
    /\ Head(up[w]).type \in {"complete", "failed"} /\ Head(up[w]).call \in NestedCalls
    /\ up' = [up EXCEPT ![w] = Tail(@)]
    /\ LET m == Head(up[w])
           v == Caller[m.call]
       IN  IF use_fifo_for_nested_call THEN DispatchPendingFuncCall(w, down, {})
           ELSE /\ v \in func_workers
                /\ DispatchPendingFuncCall(w, WriteMessage(down, v, m), {v})
    /\ UNCHANGED <<flagVars, gateway_up, func_workers, inflight_external_requests, connVars,
                   workerVars, fileVars, endVars>>

\* GetFuncWorker returns a null pointer for a caller that has disconnected.
GetFuncWorkerIsNull(w) ==
    /\ engine_up /\ ~use_fifo_for_nested_call
    /\ conn[w] = "kRunning" /\ up[w] # <<>>
    /\ Head(up[w]).type \in {"complete", "failed"} /\ Head(up[w]).call \in NestedCalls
    /\ Caller[Head(up[w]).call] \notin func_workers
    /\ engine_up' = FALSE
    /\ UNCHANGED <<flagVars, gateway_up, dispatcherVars, discarding, inflight_external_requests,
                   connVars, down, up, workerVars, fileVars, endVars>>

FifoCanBeOpened(g) == output_fifo[g] \notin {"none", "left"}

\* ProcessDiscardedFuncCallIfNecessary. The handler that discarded a call runs
\* it in the end, but the mutex is free in between. A caller that waits for a
\* message from the engine is not told.
ProcessDiscardedFuncCall(g) ==
    /\ engine_up
    /\ discarding[g] = "queued"
    /\ discarding' = [discarding EXCEPT ![g] =
           IF use_fifo_for_nested_call /\ FifoCanBeOpened(g) THEN "opened" ELSE "done"]
    /\ UNCHANGED <<flagVars, engine_up, gateway_up, dispatcherVars, inflight_external_requests,
                   connVars, down, up, workerVars, fileVars, endVars>>

\* The write of the failure to the FIFO, which the caller may have closed.
WriteDiscardedToFifo(g) ==
    /\ engine_up
    /\ discarding[g] = "opened"
    /\ discarding' = [discarding EXCEPT ![g] = "done"]
    /\ \/ /\ FifoCanBeOpened(g)
          /\ output_fifo' = [output_fifo EXCEPT ![g] = "failed"]
          /\ UNCHANGED engine_up
       \/ /\ ~FifoCanBeOpened(g)
          /\ engine_up' = FALSE
          /\ UNCHANGED output_fifo
    /\ UNCHANGED <<flagVars, gateway_up, dispatcherVars, inflight_external_requests, connVars,
                   down, up, workerVars, shm, endVars>>

-----------------------------------------------------------------------------
(***************************************************************************)
(* Function workers.                                                       *)
(***************************************************************************)

Sends(w, m) == up' = [up EXCEPT ![w] = Append(@, m)]

\* The engine's answer to the handshake arrives: the worker opens its output FIFO
\* and serves.
doHandshake(w) ==
    /\ engine_up /\ proc[w] = "starting" /\ conn[w] = "kRunning"
    /\ proc' = [proc EXCEPT ![w] = "idle"]
    /\ UNCHANGED <<flagVars, engineVars, connVars, down, up, current, waiting, held, writing,
                   fileVars, endVars>>

\* A large input is opened by the name of the call.
GetFuncCallInput(m) == m.shm => <<"input", m.call>> \in shm

\* ExecuteFunc: without its input a call fails at once, and nothing is written
\* to the FIFO for its output.
ExecuteFunc(w) ==
    /\ engine_up /\ proc[w] = "idle"
    /\ down[w].fifo # <<>> /\ Head(down[w].fifo).type = "dispatch"
    /\ down' = [down EXCEPT ![w].fifo = Tail(@)]
    /\ LET m == Head(down[w].fifo)
       IN  IF ~GetFuncCallInput(m)
           THEN /\ Sends(w, Message("failed", m.call, FALSE))
                /\ UNCHANGED <<proc, current>>
           ELSE /\ proc' = [proc EXCEPT ![w] = "executing"]
                /\ current' = [current EXCEPT ![w] = m.call]
                /\ UNCHANGED up
    /\ UNCHANGED <<flagVars, engineVars, connVars, waiting, held, writing, fileVars, endVars>>

\* PrepareNewFuncCall puts a large input into a region.
PrepareNewFuncCall(g, big) == shm' = IF big THEN shm \cup {<<"input", g>>} ELSE shm

\* The FIFO for the output is created and opened before the engine is told.
CreateOutputFifo(g) ==
    output_fifo' = IF use_fifo_for_nested_call THEN [output_fifo EXCEPT ![g] = "empty"]
                   ELSE output_fifo

\* InvokeFunc up to the message to the engine. Only WaitInvokeFunc of the C++
\* library allows one call at a time and no more.
InvokeFunc(w, g, big) ==
    /\ engine_up /\ proc[w] = "executing"
    /\ Caller[g] = w /\ result[g] = "unused"
    /\ lib = "v1" /\ ~use_fifo_for_nested_call => waiting[w] = {}
    /\ PrepareNewFuncCall(g, big)
    /\ CreateOutputFifo(g)
    /\ Sends(w, Message("invoke", g, big))
    /\ waiting' = [waiting EXCEPT ![w] = @ \cup {g}]
    /\ result' = [result EXCEPT ![g] = "open"]
    /\ UNCHANGED <<flagVars, engineVars, connVars, down, proc, current, held, writing, outcome>>

\* InvokeFunc returns false without a message: the input region or the FIFO
\* cannot be created. What was created is removed.
InvokeFuncFails(w, g) ==
    /\ engine_up /\ proc[w] = "executing"
    /\ Caller[g] = w /\ result[g] = "unused" /\ MayAbandon
    /\ result' = [result EXCEPT ![g] = "failed"]
    /\ outcome' = [outcome EXCEPT ![g] = "abandoned"]
    /\ UNCHANGED <<flagVars, engineVars, connVars, down, up, workerVars, fileVars>>

\* Variant: without EnableRemoveOnDestruction on the output region.
AnsweredKeepsOutput(w, g, r, big) ==
    /\ result' = [result EXCEPT ![g] =
                    IF r = "ok" /\ (big => <<"output", g>> \in shm) THEN "ok" ELSE "failed"]
    /\ waiting' = [waiting EXCEPT ![w] = @ \ {g}]
    /\ held' = held
    /\ shm' = shm \ {<<"input", g>>}

\* The answer to g reaches its caller w: r is "ok" or "failed", and big says
\* that the output is in a region. The input region is removed; the C++ library
\* keeps the output region until the function returns, the others remove it.
Answered(w, g, r, big) ==
    /\ result' = [result EXCEPT ![g] =
                    IF r = "ok" /\ (big => <<"output", g>> \in shm) THEN "ok" ELSE "failed"]
    /\ waiting' = [waiting EXCEPT ![w] = @ \ {g}]
    /\ held' = IF lib = "v1" /\ big THEN [held EXCEPT ![w] = @ \cup {g}] ELSE held
    /\ shm' = shm \ ({<<"input", g>>} \cup (IF lib # "v1" /\ big THEN {<<"output", g>>} ELSE {}))

AnswerOf(m) == IF m.type = "complete" THEN "ok" ELSE "failed"

\* WaitInvokeFunc takes the next message, whatever call it is about.
WaitInvokeFunc(w) ==
    /\ engine_up /\ proc[w] = "executing" /\ lib = "v1" /\ ~use_fifo_for_nested_call
    /\ down[w].fifo # <<>> /\ waiting[w] # {}
    /\ down' = [down EXCEPT ![w].fifo = Tail(@)]
    /\ \E g \in waiting[w] :
          Answered(w, g, AnswerOf(Head(down[w].fifo)), Head(down[w].fifo).shm)
    /\ UNCHANGED <<flagVars, engineVars, connVars, up, proc, current, writing, output_fifo,
                   outcome>>

\* The other libraries look the call up. Event-driven workers may have returned
\* from the function that made the call.
OnOutgoingFuncCallFinished(w) ==
    /\ engine_up /\ proc[w] \in {"idle", "executing", "writing"} /\ lib = "event"
    /\ down[w].fifo # <<>> /\ Head(down[w].fifo).type # "dispatch"
    /\ down' = [down EXCEPT ![w].fifo = Tail(@)]
    /\ LET m == Head(down[w].fifo)
       IN  IF m.call \in waiting[w] THEN Answered(w, m.call, AnswerOf(m), m.shm)
           ELSE UNCHANGED <<result, waiting, held, shm>>
    /\ UNCHANGED <<flagVars, engineVars, connVars, up, proc, current, writing, output_fifo,
                   outcome>>

RunReceivesAnswer(w) ==
    /\ engine_up /\ proc[w] \in {"idle", "executing", "writing"} /\ lib = "go"
    /\ down[w].fifo # <<>> /\ Head(down[w].fifo).type # "dispatch"
    /\ down' = [down EXCEPT ![w].fifo = Tail(@)]
    /\ LET m == Head(down[w].fifo)
       IN  IF m.call \in waiting[w] THEN Answered(w, m.call, AnswerOf(m), m.shm)
           ELSE UNCHANGED <<result, waiting, held, shm>>
    /\ UNCHANGED <<flagVars, engineVars, connVars, up, proc, current, writing, output_fifo,
                   outcome>>

\* Variant: a negative header is not looked at.
FifoGetFuncCallOutputUnchecked(w, g) ==
    /\ g \in waiting[w] /\ output_fifo[g] \in {"failed", "data", "region"}
    /\ Answered(w, g, "ok", output_fifo[g] = "region")

\* FifoGetFuncCallOutput: the header says whether the call failed, and whether
\* the output is in the FIFO or in a region.
FifoGetFuncCallOutput(w, g) ==
    /\ g \in waiting[w] /\ output_fifo[g] \in {"failed", "data", "region"}
    /\ Answered(w, g, IF output_fifo[g] = "failed" THEN "failed" ELSE "ok",
                output_fifo[g] = "region")

FifoWaitInvokeFunc(w, g) ==
    /\ engine_up /\ proc[w] = "executing" /\ lib = "v1"
    /\ FifoGetFuncCallOutput(w, g)
    /\ output_fifo' = [output_fifo EXCEPT ![g] = "none"]
    /\ UNCHANGED <<flagVars, engineVars, connVars, down, up, proc, current, writing, outcome>>

\* poll returns without data. The caller goes on, and the FIFO and the input
\* region are gone while the call still waits or runs.
FifoPollTimeout(w, g) ==
    /\ engine_up /\ proc[w] = "executing" /\ lib = "v1"
    /\ g \in waiting[w] /\ output_fifo[g] = "empty"
    /\ output_fifo' = [output_fifo EXCEPT ![g] = "none"]
    /\ shm' = shm \ {<<"input", g>>}
    /\ waiting' = [waiting EXCEPT ![w] = @ \ {g}]
    /\ result' = [result EXCEPT ![g] = "timeout"]
    /\ UNCHANGED <<flagVars, engineVars, connVars, down, up, proc, current, held, writing,
                   outcome>>

\* The event-driven library neither closes nor removes the FIFO.
OnOutputPipeReadable(w, g) ==
    /\ engine_up /\ proc[w] \in {"idle", "executing"} /\ lib = "event"
    /\ FifoGetFuncCallOutput(w, g)
    /\ output_fifo' = [output_fifo EXCEPT ![g] = "left"]
    /\ UNCHANGED <<flagVars, engineVars, connVars, down, up, proc, current, writing, outcome>>

newFuncCallCommonReads(w, g) ==
    /\ engine_up /\ proc[w] = "executing" /\ lib = "go"
    /\ FifoGetFuncCallOutput(w, g)
    /\ output_fifo' = [output_fifo EXCEPT ![g] = "none"]
    /\ UNCHANGED <<flagVars, engineVars, connVars, down, up, proc, current, writing, outcome>>

\* A C++ or Go function blocks in its nested calls; an event-driven one may
\* return before them.
FunctionReturns(w) == proc[w] = "executing" /\ (lib # "event" => waiting[w] = {})

\* The output regions the function used are dropped.
ReclaimInvokeFuncResources(w) == shm \ {<<"output", g>> : g \in held[w]}

Outcomes == {"ok", "failed", "abandoned"}

\* How the call ends: end is "ok" or "failed" as the function returned, or
\* "abandoned": it succeeded, and its large output found no room in a region.
Ends(end, big) == end = "abandoned" => big /\ MayAbandon

\* The function has returned, with its output in the message or in a region. If
\* ShmCreate fails, the message says that the call failed.
FuncCallFinished(w, end, big) ==
    /\ engine_up /\ FunctionReturns(w) /\ Ends(end, big)
    /\ current[w] \in NestedCalls => ~use_fifo_for_nested_call
    /\ LET c == current[w]
           kept == ReclaimInvokeFuncResources(w)
           region == end = "ok" /\ big
       IN  /\ outcome' = [outcome EXCEPT ![c] = end]
           /\ Sends(w, Message(IF end = "ok" THEN "complete" ELSE "failed", c, region))
           /\ shm' = IF region THEN kept \cup {<<"output", c>>} ELSE kept
    /\ held' = [held EXCEPT ![w] = {}]
    /\ proc' = [proc EXCEPT ![w] = "idle"]
    /\ current' = [current EXCEPT ![w] = NoCall]
    /\ UNCHANGED <<flagVars, engineVars, connVars, down, waiting, writing, output_fifo, result>>

\* FifoFuncCallFinished of a nested call, up to the opening of the FIFO. If that
\* fails, or ShmCreate after it, nothing is written to the FIFO: only the engine
\* is told.
FifoFuncCallFinished(w, end, big) ==
    /\ engine_up /\ FunctionReturns(w) /\ Ends(end, big)
    /\ current[w] \in NestedCalls /\ use_fifo_for_nested_call
    /\ end = "abandoned" => FifoCanBeOpened(current[w])
    /\ outcome' = [outcome EXCEPT ![current[w]] = end]
    /\ shm' = ReclaimInvokeFuncResources(w)
    /\ held' = [held EXCEPT ![w] = {}]
    /\ \/ /\ FifoCanBeOpened(current[w]) /\ end # "abandoned"
          /\ proc' = [proc EXCEPT ![w] = "writing"]
          /\ writing' = [writing EXCEPT ![w] =
                            IF end = "failed" THEN "failed" ELSE IF big THEN "region" ELSE "data"]
          /\ UNCHANGED <<current, up>>
       \/ /\ ~FifoCanBeOpened(current[w]) \/ end = "abandoned"
          /\ Sends(w, Message("failed", current[w], FALSE))
          /\ proc' = [proc EXCEPT ![w] = "idle"]
          /\ current' = [current EXCEPT ![w] = NoCall]
          /\ UNCHANGED writing
    /\ UNCHANGED <<flagVars, engineVars, connVars, down, waiting, output_fifo, result>>

\* The rest of WriteOutputToFifo: the region, then the write.
WriteOutputToFifo(w) ==
    /\ engine_up /\ proc[w] = "writing"
    /\ FifoCanBeOpened(current[w])
    /\ shm' = IF writing[w] = "region" THEN shm \cup {<<"output", current[w]>>} ELSE shm
    /\ output_fifo' = [output_fifo EXCEPT ![current[w]] = writing[w]]
    /\ Sends(w, Message(IF writing[w] = "failed" THEN "failed" ELSE "complete", current[w], FALSE))
    /\ proc' = [proc EXCEPT ![w] = "idle"]
    /\ current' = [current EXCEPT ![w] = NoCall]
    /\ writing' = [writing EXCEPT ![w] = "nothing"]
    /\ UNCHANGED <<flagVars, engineVars, connVars, down, waiting, held, endVars>>

\* The caller has closed the FIFO in between. SIGPIPE ends a C++ worker; where
\* the language's runtime ignores it, the write fails. The region stays behind.
WriteOutputFails(w) ==
    /\ engine_up /\ proc[w] = "writing"
    /\ ~FifoCanBeOpened(current[w])
    /\ shm' = IF writing[w] = "region" THEN shm \cup {<<"output", current[w]>>} ELSE shm
    /\ \/ /\ lib = "v1"
          /\ proc' = [proc EXCEPT ![w] = "dead"]
          /\ UNCHANGED up
       \/ /\ lib # "v1"
          /\ proc' = [proc EXCEPT ![w] = "idle"]
          /\ Sends(w, Message("failed", current[w], FALSE))
    /\ current' = [current EXCEPT ![w] = NoCall]
    /\ writing' = [writing EXCEPT ![w] = "nothing"]
    /\ UNCHANGED <<flagVars, engineVars, connVars, down, waiting, held, output_fifo, endVars>>

\* A worker process dies. Its files stay, its ends of FIFOs are closed.
Crash(w) ==
    /\ engine_up /\ proc[w] # "dead"
    /\ Cardinality({v \in Workers : proc[v] = "dead"}) < MaxCrashes /\ Faults < MaxFaults
    /\ proc' = [proc EXCEPT ![w] = "dead"]
    /\ current' = [current EXCEPT ![w] = NoCall]
    /\ waiting' = [waiting EXCEPT ![w] = {}]
    /\ held' = [held EXCEPT ![w] = {}]
    /\ writing' = [writing EXCEPT ![w] = "nothing"]
    /\ output_fifo' = [g \in NestedCalls |->
           IF g \in waiting[w] /\ use_fifo_for_nested_call THEN "left" ELSE output_fifo[g]]
    /\ UNCHANGED <<flagVars, engineVars, connVars, down, up, shm, endVars>>

-----------------------------------------------------------------------------
Next ==
    \/ \E w \in Workers : OnNewHandshake(w)
    \/ \E w \in Workers : RecvHandshakeMessage(w)
    \/ \E w \in Workers : FifoOpenFails(w)
    \/ \E w \in Workers : SendPendingMessages(w)
    \/ \E w \in Workers : ReadMessageEof(w)
    \/ \E w \in Workers : OnConnectionClose(w)
    \/ GatewayCloses
    \/ \E x \in ExternalCalls, big \in BOOLEAN : OnExternalFuncCall(x, big)
    \/ \E x \in ExternalCalls : OnExternalFuncCallFails(x)
    \/ \E w \in Workers : OnRecvInvokeFunc(w)
    \/ \E w \in Workers : OnRecvExternalDone(w)
    \/ \E w \in Workers : OnRecvNestedDone(w)
    \/ \E w \in Workers : GetFuncWorkerIsNull(w)
    \/ \E g \in NestedCalls : ProcessDiscardedFuncCall(g)
    \/ \E g \in NestedCalls : WriteDiscardedToFifo(g)
    \/ \E w \in Workers : doHandshake(w)
    \/ \E w \in Workers : ExecuteFunc(w)
    \/ \E w \in Workers, g \in NestedCalls, big \in BOOLEAN : InvokeFunc(w, g, big)
    \/ \E w \in Workers, g \in NestedCalls : InvokeFuncFails(w, g)
    \/ \E w \in Workers : WaitInvokeFunc(w)
    \/ \E w \in Workers : OnOutgoingFuncCallFinished(w)
    \/ \E w \in Workers : RunReceivesAnswer(w)
    \/ \E w \in Workers, g \in NestedCalls : FifoWaitInvokeFunc(w, g)
    \/ \E w \in Workers, g \in NestedCalls : FifoPollTimeout(w, g)
    \/ \E w \in Workers, g \in NestedCalls : OnOutputPipeReadable(w, g)
    \/ \E w \in Workers, g \in NestedCalls : newFuncCallCommonReads(w, g)
    \/ \E w \in Workers, end \in Outcomes, big \in BOOLEAN : FuncCallFinished(w, end, big)
    \/ \E w \in Workers, end \in Outcomes, big \in BOOLEAN : FifoFuncCallFinished(w, end, big)
    \/ \E w \in Workers : WriteOutputToFifo(w)
    \/ \E w \in Workers : WriteOutputFails(w)
    \/ \E w \in Workers : Crash(w)

Spec == Init /\ [][Next]_vars

\* The engine's loops run and workers go on. A function may call other
\* functions or not, but it returns.
Fairness ==
    /\ \A w \in Workers :
          /\ WF_vars(OnNewHandshake(w)) /\ WF_vars(RecvHandshakeMessage(w))
          /\ WF_vars(SendPendingMessages(w)) /\ WF_vars(doHandshake(w))
          /\ WF_vars(OnRecvInvokeFunc(w) \/ OnRecvExternalDone(w) \/ OnRecvNestedDone(w))
          /\ WF_vars(ExecuteFunc(w) \/ WaitInvokeFunc(w) \/ OnOutgoingFuncCallFinished(w)
                        \/ RunReceivesAnswer(w))
          /\ WF_vars(\E end \in Outcomes, big \in BOOLEAN :
                        FuncCallFinished(w, end, big) \/ FifoFuncCallFinished(w, end, big))
          /\ WF_vars(WriteOutputToFifo(w) \/ WriteOutputFails(w))
    /\ \A g \in NestedCalls :
          /\ WF_vars(ProcessDiscardedFuncCall(g) \/ WriteDiscardedToFifo(g))
          /\ \A w \in Workers : WF_vars(FifoWaitInvokeFunc(w, g) \/ OnOutputPipeReadable(w, g)
                                            \/ newFuncCallCommonReads(w, g))

FairSpec == Spec /\ Fairness

-----------------------------------------------------------------------------
(***************************************************************************)
(* Properties.                                                             *)
(***************************************************************************)

ToWorker(w) == Range(down[w].pending \o down[w].fifo)
InTransit == (UNION {ToWorker(w) \cup Range(up[w]) : w \in Workers})
                \cup (UNION {Range(pending_func_calls[f]) : f \in Funcs})

\* A live worker only gets messages that it expects: a call when it is free, or
\* an answer to a call it waits for; and a C++ worker never has more than one
\* message coming. WaitInvokeFunc takes the next message for its answer without
\* a look at the call id and LOG(FATAL)s on any other type, as MainServingLoop
\* does, and pending messages may be overtaken by direct writes.
MessagesAreExpected ==
    \A w \in Workers : engine_up /\ proc[w] # "dead" =>
        /\ \A m \in ToWorker(w) :
              IF m.type = "dispatch"
              THEN proc[w] \in {"starting", "idle"} /\ running_workers[w] = m.call
              ELSE m.call \in waiting[w] /\ ~use_fifo_for_nested_call
        /\ lib = "v1" => Len(down[w].pending) + Len(down[w].fifo) <= 1

\* What a caller is told is what became of the call: success only if the called
\* function succeeded on this call, and failure only if it failed, if it was
\* discarded, or if a file for its input or output could not be created; no
\* matter how answers, timeouts and deaths of workers cross. A file that has been
\* created can be opened.
AnswersAreTrue ==
    \A c \in Calls :
        /\ result[c] = "ok" => outcome[c] = "ok"
        /\ result[c] = "failed" => \/ outcome[c] \in {"failed", "abandoned"}
                                   \/ c \in NestedCalls /\ discarding[c] # "no"

\* Shared memory is there when it is needed and gone when it is not. A message
\* that refers to a region finds it: the input until the call was dispatched and
\* read, unless its caller timed out, and the output until it was taken
\* (GetFuncCallInput, FifoGetFuncCallOutput, WaitInvokeFunc and OnRecvMessage open
\* it by name). A region that exists has somebody who will remove it, unless a
\* worker died or the answer came after the timeout of its caller.
RegionsHaveOwner ==
    /\ \A m \in InTransit : m.shm =>
          IF m.type \in {"dispatch", "invoke"}
          THEN <<"input", m.call>> \in shm \/ result[m.call] = "timeout"
          ELSE <<"output", m.call>> \in shm
    /\ \A g \in NestedCalls : output_fifo[g] = "region" => <<"output", g>> \in shm
    /\ \A r \in shm :
          LET c == r[2]
          IN  \/ c \in ExternalCalls /\ result[c] = "open"
              \/ c \in NestedCalls /\ proc[Caller[c]] = "dead"
              \/ c \in NestedCalls /\ r[1] = "input" /\ c \in waiting[Caller[c]]
              \/ c \in NestedCalls /\ r[1] = "output"
                   /\ (c \in waiting[Caller[c]] \cup held[Caller[c]] \/ result[c] = "timeout")

\* The limiter has put off calls of a function that no worker runs: nothing will
\* take them from the queue before the next call comes.
PutOff(f) ==
    /\ pending_func_calls[f] # <<>>
    /\ \E w \in func_workers : FuncOf[w] = f
    /\ \A w \in Workers : FuncOf[w] = f => running_workers[w] = NoCall

\* Excuses: the engine or a worker has died; a nested call was discarded and its
\* caller waits for a message (the TODO in ProcessDiscardedFuncCallIfNecessary),
\* or found no region for its output and its caller waits at the FIFO, to which
\* WriteOutputToFifo then writes nothing; or the limit of a function is 0.
Excused ==
    \/ ~engine_up
    \/ \E w \in Workers : proc[w] = "dead"
    \/ ~use_fifo_for_nested_call /\ \E g \in NestedCalls : discarding[g] = "done"
    \/ \E g \in NestedCalls : output_fifo[g] = "empty" /\ outcome[g] = "abandoned"
    \/ \E f \in Funcs : PutOff(f)

\* A nested call returns to its caller, and an external one is reported to the
\* gateway, with whatever result: no message is stuck behind a handshake, no
\* answer misses a waiting caller, and a discarded call is reported through its
\* FIFO.
CallsReturn == \A c \in Calls : (result[c] = "open") ~> (result[c] # "open" \/ Excused)
=============================================================================
