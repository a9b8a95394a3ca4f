# A TLA+ model of nightcore

nightcore is a runtime for serverless functions. A *gateway* takes HTTP and
gRPC requests and spreads them over *engines*; an engine runs on a worker
machine and hands each function call to a *function worker*, a process that a
*launcher* started. Function workers call other functions through the engine
(nested calls). Engines, gateway and launchers are libuv event loops: a server
thread accepts connections, and several IO worker threads run them.

The directory holds TLA+ modules translated from the sources, TLC
configurations for small instances, and proofs for TLAPS. `PROJECT.json` lists
the parts of the system, the runs, which definition models which lines, what
is hard to test in the code, and what is proved.

    tlc -workers 2 -config MCDispatcher.cfg MCDispatcher
    tlapm DispatcherProofs.tla

## Parts of the system

| part | sources (`src/src/...`) | modelled by |
|---|---|---|
| Dispatcher, one per function | `engine/dispatcher` | `Dispatcher` |
| Tracer, WorkerManager | `engine/tracer`, `engine/worker_manager` | what the dispatcher needs of them in `Dispatcher`, workers that come and go in `FuncCalls` |
| Gateway server | `gateway/server`, `gateway/func_call_context.h` | `GatewayServer` |
| Client connections of the gateway | `gateway/http_connection`, `grpc_connection` | `HttpConnection`, `GrpcConnection` |
| Connection of engine and gateway | `engine/gateway_connection`, `gateway/engine_connection`, `OngoingEngineHandshake` of `gateway/server` | `EngineLink` |
| Shared-memory queue | `ipc/spsc_queue*`, `bin/bench_spsc_queue.cpp` | `SPSCQueue`, `BoundedQueue` |
| IO workers, server base | `server/*` | `IOWorker`; `ScheduleFunction` also in `GatewayServer`, write buffers in `EngineLink` |
| Engine, its connections to workers | `engine/engine`, `message_connection` | `FuncCalls` |
| Function workers, FIFOs and shared-memory regions | `worker/*`, `ipc/fifo`, `ipc/shm_region`, `src/worker/golang` | `FuncCalls` |
| Node.js and Python processes | `worker/event_driven_worker`, `src/worker/nodejs`, `src/worker/python` | `EventDrivenWorker` |
| Launcher, subprocesses | `launcher/*`, `common/subprocess`, `common/uv` | `Launcher` |
| Monitor, statistics, configuration, logging, benchmarks | `engine/monitor`, `common/stat.h`, `common/func_config`, `base/*`, `bin/*` | not modelled: I/O, logging or start-up only |

A request travels through the modules in this order: `HttpConnection` or
`GrpcConnection` makes a call of it, `GatewayServer` sends it to an engine
through `EngineLink`, `FuncCalls` (with `Dispatcher` for the choice of a worker)
runs it on a worker, which `Launcher` started, and the answer goes back the same
way. `IOWorker` carries the connections of both servers.

## Modules

### Dispatcher

State: the dispatcher's members under their own names without the trailing
underscore, the tracer's `func_call_infos` and `inflight_requests`, the
manager's `next_client_id` and whether a launcher is connected. `executing`,
`launching` and `fate` are the world outside: what each worker was sent and has
not answered, which worker processes are starting, and what became of a call.

Every handler is one action because it runs under `mu_`. The exception is the
pair `OnFuncCallCompleted` / `OnFuncCallFailed`, which update the tracer before
they take the mutex: `OnFuncCallCompleted(c, f)` or `OnFuncCallFailed(c, f)` is
the first part, `FinishLocked(f)` the second, and anything may happen between.

Averages, clocks and rates are abstracted: the concurrency estimates are any
number up to `MaxEstimate`, an internal call at the head of the queue may or may
not have waited too long, and the request interval elapses at some time. A
`CHECK` that ends the engine process (no client id left) is a step that does
not exist.

### GatewayServer

A handler of an IO worker does its bookkeeping under `mu_` (one action), then
sends and finishes calls after it released the mutex. These tasks are in
`todo[w]`, and the other IO workers run between them. `FinishFuncCall` on the
connection's own worker delivers at once; otherwise the call goes through
`scheduled`, as `ScheduleFunction` does. Engine connections are per IO worker
and node, and a node counts as connected from its first handshake on, before
any IO worker has the connection. A client connection can start on its IO
worker before the server thread has entered it into `connections_`.

A behaviour is for one deployment, a value of `<<calm, lb, engines>>`: whether
engines stay and clients only send once all connections are up, which load
balancer is set, and where engines are started. Where `calm` is false,
connections close and arrive at any time; liveness and the exact load are
stated for the other case.

### HttpConnection, GrpcConnection, EngineLink and GatewayPorts

The three kinds of connection the gateway has, below the level of
`GatewayServer`. They share no state, and `GatewayPorts` puts them together as
one connection whose `port` tells which kind it is.

`HttpConnection` is one record, the members of the class. A request is a
sequence of the tokens the HTTP parser (external) turns into callbacks, and a
read brings any number of them, so that URL, header names and values, query and
body are cut anywhere. The query string is decoded as the code does it. The
client waits for a response before it sends its next request. The server takes
a call, or finishes it at once when no engine is there for it. A pipelining
client would share `func_call_context_` and `response_write_req_` with the call
that runs, as reading stops during a call, and parsing does not; the model has
no such clients.

`GrpcConnection` has the streams with their contexts, the pools the contexts
come from, the calls at the server, and the write queue of libuv. nghttp2 is
external and seen through its callbacks: frames of several streams in one read,
`mem_send` that hands out DATA frames one by one and then one other frame, flow
control that lets any part of the data through. The server answers calls at any
time. Lengths are counted in units, `Prefix` of which stand for the 5 bytes
before a message. `SplitPrefix` says whether a read or a window may end inside
them; the code asserts that none does, and `finding_grpc_prefix` is the run
with `TRUE`. `grpc_received` notes for each frame whether its memory was still
that of its stream when libuv wrote it (see *Observations*).

`EngineLink` is one TCP connection between an engine and the gateway with both
classes, which send, read and close with the same code, and the
`OngoingEngineHandshake` before. Bytes are records that name their message and
place, a read brings any prefix of what was sent, and buffers of the write pool
are numbered. Writes are called back later, with success, or with an error when
the peer is gone or the handle was closed. An engine that closes the connection
while its handshake is being written gets the callback of that write afterwards
and starts to read on the closing handle; the assertions of a debug build end it
there (`HandshakeSentAfterClose`).

### Launcher

The two threads of the launcher, its connection to the engine, and its function
processes with their four pipes and handle scope. A callback of libuv is one
action. The engine sends bytes, which arrive in any pieces, or goes away; a
process reads its pipe, closes its standard streams, or dies; SIGINT may come
once. `kCppMode` has a process per worker, any other mode (`kGoMode` stands for
them) one process for all. A write to a process is called back later; the
process may be gone before its first one. What ends the launcher in the code
sets `aborted`: a FATAL, a null pointer, SIGPIPE, the failed assertion of
`WaitForFinish`, or the callback of a write that comes when
`HandleScope::CloseHandle` has replaced the data of its pipe. stdout and stderr of a
process are handled alike, and the first of them to end is called stdout.

### EventDrivenWorker

One process of a Node.js or Python function. `EventDrivenWorker` and its binding
are one record: the tables from descriptors and call ids to workers and calls,
the pool of `OutgoingFuncCallState`s, in Node.js the pool of `uv_poll_t`s, in
Python the readers of asyncio. The descriptors are numbers, the lowest free one
is used next, as the kernel does. User code runs inside callbacks (`frame`
names the state whose callback runs) and outside, makes nested calls, cancels
futures, and finishes calls once, twice or never. A nested call may be run by
another process or by a worker of the same one.

### SPSCQueue and BoundedQueue

`SPSCQueue` is the ring buffer at the grain of one access to shared memory per
step, for two processes, together with the benchmark's loop: the consumer asks
for a message, blocks on an eventfd if it declared itself asleep, and pops.
`BoundedQueue` is what `Push` and `Pop` promise: a FIFO queue whose failures are
justified at one instant of the call. `RefinesBoundedQueue` maps the cells from
head to tail to the abstract queue.

### IOWorker

One IO worker and the server's loop. A callback of either loop is one action;
the loops run in parallel and take their events in any order. The socket pair
is two queues of connections. `ServerBase::Stop` is two actions, because the IO
worker may see the stop event before the server has closed its end of the pipe.
`ScheduleFunction` from another thread is two actions, the load of `state_` and
the rest, which runs under the mutex of the queue.

Two steps have an undefined outcome in a release build, and the model lets the
process end there (`crashed`) or, where memory may still hold the old value, go
on: an end of file read by `NewConnection` before the stop event was handled
(`NewConnectionAtEof`), and the callback of a back transfer whose request lived
in a connection that the server has destroyed (`PipeWriteAfterFree`). A third
always ends the process: a connection handed back after the server's `Stop` has
closed its end of the pipe, where the write raises SIGPIPE
(`BackTransferAfterStop`). The liveness properties allow for this end, and the
second half of `StopCompletes` says when it is certain: if the IO worker still has
connections once the server's end is closed, no stop is orderly.

### FuncCalls

Calls on one machine, from the engine over the connection of a function worker
to the worker library and back. The flags `use_fifo_for_nested_call` and
`direct_write` and the library (`v1`, `event`, `go`) are chosen at the start of
a behaviour. The engine has its queues and busy workers, a connection its state
and the messages on their way (`down`: waiting in `pending_messages_`, or in the
FIFO; `up`), a worker its current call, the calls it waits for and the regions
it holds. `shm` and `output_fifo` are the files. `result` and `outcome` are
history: what the callee produced and what the caller was told.

* The dispatcher is reduced to a queue and the busy workers. Its limiter may refuse
  any call, also when no worker is busy: with `min_workers_` 0, the default, the
  limit can be 0. `Dispatcher` has the rest.
* A region or FIFO may fail to be created: for the input of an external call
  (`OnExternalFuncCallFails`) or of a nested one (`InvokeFuncFails`), where the
  caller is told at once, and for an output, where a success becomes a failure. A
  nested call in FIFO mode then gets no answer (`worker_lib.cpp:57-59`). `outcome` is
  `"abandoned"` for such a call. The last early return of `OnExternalFuncCall`
  (`engine.cpp:371-377`) is not taken: `Dispatcher::OnNewFuncCall` returns true on
  every path.
* `RecvHandshakeMessage` is two steps: the worker is known to the dispatcher
  before its FIFOs are open, so that calls can be sent to it in between.
* Writing to a FIFO without a reader raises SIGPIPE, which nothing in the
  repository handles: it ends the engine or a `v1` worker. The runtimes of the
  event-driven bindings and of Go ignore the signal and see the write fail.
* A missing worker in `GetFuncWorker` ends the engine, and the close of a FIFO
  handle that was never opened may (`FifoOpenFails`). The behaviour stops
  there, and no property excludes it.
* After a close, `pipe_for_write_fd_` keeps the number of a closed descriptor.
  The model has the failing write, not a number that is in use again.
* The mode in which workers talk over the engine's socket is not modelled.

The tables and pools inside an event-driven process are in `EventDrivenWorker`.

## Runs

| run | bounds | shows |
|---|---|---|
| `dispatcher` | 1 external and 2 internal calls, 3 client ids, at most 2 workers, disconnects, discards, limiter on or off | no worker or call lost or duplicated, maps inverse, FIFO, a call waits only while all workers are busy or `max_workers_` is reached, stale entries of disconnected workers counted (limiter off), inflight count explained |
| `dispatcher_fair` | the same calls, 3 client ids, no disconnects, `min_workers_` 1 | every accepted call ends |
| `finding_processing_time` | as `dispatcher` | processing-time average fed with dispatch delays |
| `spsc_queue` | 4 cells, 2 messages, sleeping never or after every 1, 2 or 3 messages | bounded FIFO queue, no cell shared, at most one wake-up, sleepers woken unless they sleep every time |
| `gateway` | 3 calls, an HTTP and a gRPC connection on two IO workers, limit 1 per node; one engine that comes late or goes away, or two that stay, with each load balancer | limit holds, calls in one place, loads cover running calls, FIFO, every call answered while engines stay |
| `gateway_ports` | 2 HTTP requests of 9 kinds, or 2 gRPC streams of 5 kinds, or 2 messages to the gateway and 1 to the engine, with a message longer than a write buffer | calls are what was asked, answers reach their request whole and in order, nothing is left unsent, pooled memory has one user, the link keeps messages whole |
| `finding_grpc_prefix` | 1 stream, reads and windows that end anywhere | the prefix of a gRPC message that is cut ends the process |
| `io_worker` | 2 connections of one type, 2 functions of different owners, 2 picks | connections in one place and alive there, pick lists right, queued functions handled for live owners, stopping ends, by SIGPIPE if connections are left |
| `func_calls` | a worker of each of two functions, 1 external and 2 nested calls, all libraries and flags, discards, timeouts, a gateway that leaves, 1 fault (`MaxFaults`): a crash or a file that cannot be created | messages arrive where they are expected, answers are the callee's, regions are removed by their owner |
| `func_calls_fair` | 2 external calls and 1 nested call, no crash, a gateway that stays, 1 file that cannot be created | every call returns to its caller, unless what `Excused` names happened |
| `launcher` | both modes, 2 workers, messages of 2 units and a payload of 1 | messages whole, workers started once, processes reported once when all is closed, a stop ends |
| `event_driven` | both bindings, with and without FIFOs, 2 workers, 1 external and 2 nested calls | events reach their owner, pooled objects have one user, nested calls answered once, one reply for a call |

Three calls are enough for one call to run, one to wait and one to arrive or be
given up; three client ids for a worker that is busy, one that went away and
one that replaces it. Two IO workers give the hand-over between event loops. A
ring of four cells wraps around while it is neither full nor empty. Two
requests, streams or nested calls are enough for the memory of one to be used
again by the other; a header of two units can be cut, a message of four takes
two write buffers of three, and reads can join the end of one message with the
start of the next. The proofs below lift the bounds for the properties they
state.

Fairness. `dispatcher_fair`: a launcher comes, the processes it starts connect,
workers answer, and a thread inside a handler goes on. `gateway`: IO
workers go on with their tasks and engines answer what they got.
`spsc_queue`: both processes keep running. `io_worker`: an event loop handles the
events it has, and a thread inside a call goes on. `func_calls_fair`: the
engine's loops run, worker processes go on, and functions return; timeouts,
crashes and the gateway's close are not assumed. `launcher`: both threads run,
the loop handles what is ready, a killed process dies and a living one reads its
pipe. `gateway_ports` and `event_driven` assume no fairness: what a client waits
for is stated as an invariant, that something is on its way which will wake the
connection or call. Nothing is assumed about clients or about when calls
arrive. Of the limiter, `dispatcher_fair` assumes `min_workers_` of at least 1:
with 0 the limit can be 0 while nothing runs, and a call that it refuses waits
until another one comes. `func_calls_fair` lets it refuse and excuses such calls
(`PutOff`). The other excuses of `CallsReturn` are a dead process, a nested call
discarded without a FIFO, and a nested call in FIFO mode whose output found no
region.

Deadlock is not checked in any run, since each system may rest: no more calls
arrive, the bound on client ids is reached, or the server has stopped.

## Findings

* `Dispatcher::OnFuncCallCompleted` passes dispatch delay and processing time
  to the tracer in the wrong order (`dispatcher.cpp:120-121`, `tracer.h:51-53`):
  run `finding_processing_time`.
* A read, or a flow-control window, that ends inside the 5 bytes before a gRPC
  message fails an assertion (`grpc_connection.cpp:549`, `:595`): run
  `finding_grpc_prefix`.

## Observations

Behaviour met while modelling that no run reports. The models follow the code;
where a property would fail because of it, the property's comment says what it
leaves out.

* `MayRequestNewFuncWorker` returns early when the minimum interval is *over*
  (`dispatcher.cpp:283-287`).
* `OnFuncWorkerDisconnected` leaves the entry of a busy worker in
  `running_workers_`, where nothing erases it. Each such entry takes one of
  `max_workers_` for good, and calls wait beside free workers
  (`dispatcher.cpp:84`, `:223`). `WorkConserving` counts these entries.
* A concurrency limit of 0 keeps a call waiting although every worker is idle
  (`dispatcher.cpp:31`, `:223`, `:264-275`).
* When no region can be created for the output of a nested call, `WriteOutputToFifo`
  returns before it writes, and the caller at the FIFO is not told
  (`worker_lib.cpp:57-59`).
* `SPSCQueue::Push` resets `wakeup_consumer_flag_` only if it sees the consumer
  awake, so that a consumer which sleeps after every message blocks for good in
  its second sleep (`spsc_queue-inl.h:68-77`, `bench_spsc_queue.cpp:59-64`);
  `SleeperWokenUnlessEveryTime` is the rest.
* `ServerBase::Stop` closes its end of the pipe right after it signalled the IO
  worker; connections open at that time cannot be written back, and the attempt
  ends the process by SIGPIPE (`server_base.cpp:111-114`, `io_worker.cpp:161`).
* `GatewayConnection::SendMessage` drops messages before the connection runs,
  and the IO worker may pick one in its handshake (`gateway_connection.cpp:69`).
  The write request of the handshake is not returned to its pool (`:143-155`).
* `H2OnStreamClose` returns a stream's context while a write from its
  `response_body_buffer` may be queued (`grpc_connection.cpp:502`, `:627`).
* `headers_` of an HTTP connection holds views into a buffer that moves when it
  grows (`http_connection.cpp:277-284`). Nothing reads it, and the model leaves it out.
* `HandshakeSent` does not look whether the connection was closed meanwhile
  (`gateway_connection.cpp:150-154`), and `SendMessageCallback` of a function process
  takes the pipe's data for the process after it was replaced (`uv.cpp:32`).
* `Launcher::Stop` calls `ScheduleClose` through the null pointer that a process
  which has exited left in its slot (`launcher.cpp:91`, `:197-199`). In the other
  modes the exit of the process is FATAL, during an orderly stop too. `Start`
  stores `kRunning` after the loop thread was started, and may overwrite
  `kStopped` (`launcher.cpp:60-61`, asserted in `WaitForFinish`).
* The Node.js binding never closes the output FIFOs of nested calls, and nobody
  removes their files (`event_driven_worker.cpp:317-341`). A nested call in FIFO
  mode whose input region is missing gets no answer (`:218-223`).
* In Python, a handler whose task is cancelled makes `done_callback` raise, and
  its call is never finished (`__init__.py:86-95`); in Node.js an unknown gRPC
  method has the same effect (`index.js:35-62`).

## Proofs

The proofs hold for every value of the constants that the modules' named
assumptions allow. In each of them the invariant is inductive only with more
than the properties; its conjuncts were checked with TLC before they were proved.

`DispatcherProofs` proves, for any set of calls, limits and flags,
`TypeOK`, `WorkerHeldOnce`, `AssignmentsAgree`, `CallInOnePlace`,
`OneCallAtATime`, `InflightAccounting`, `WorkConserving` and the action property
`QueueIsFIFO`. The assumptions are those of the module (`CallsAssumption`,
`BoundAssumption`, `FlagAssumption`). None of the invariants is inductive
alone: that a worker is held once needs that an id is connected once, and that
a finish frees the right worker needs that the maps are inverse. `IndInv` is
their conjunction with three more facts: a client id that has not
connected yet is nowhere (`FreshClients`), a call between the two halves of a
finish is still assigned to a connected worker (`FinishingOnWorker`), and only
connected workers execute, and only open calls (`ExecutingIsOpen`). The proof has
one lemma per action; `DispatchPendingFuncCall` and `DispatchFuncCall`, shared by
three handlers, have lemmas of their own over the maps they are given. The last
three properties follow in a second layer, from what each action does to the
queue, to the set of calls the tracer counts (`TracedCounted`) and to the set of
busy workers. What they need to know of cardinalities is one definition,
`Counts`, which their lemmas assume and `SetsCount` proves at the end. For
`WorkConserving` it proves `WaitsForReason`, the same in terms of `running_workers`,
which has the entries of busy workers and the stale ones.

`GatewayServerProofs` proves, for any finite sets of calls and nodes, any IO
workers, connections, limit and deployments, `TypeOK`, `RunningBounded`,
`CallInOnePlace`, `InflightCovered` and `QueueIsFIFO`. A handler leaves tasks behind when it
releases `mu_`, so the invariant has to say what they are: `OneTask`, a call is
in one task of one IO worker, and a task sends a call to the node that
`running_func_calls_` has for it; without it a call could be dispatched twice,
or its failed dispatch be charged to another node. `EnginesReady` is needed for
the exact load in calm deployments: once a call was taken, each IO worker has a
running connection to each engine, so that no dispatch fails. The lemmas are
about lists of tasks, about the queue, and about the cardinality of the calls of
a node when one is added or removed; one lemma per action puts them together.
They assume of finite sets only `FiniteCalls`, which `CallsAreFinite` proves.
`QueueIsFIFO` needs one more invariant, `DiscardedIsClosed`: a call that the
server was told to discard is no longer open, so that a call taken off the queue
without being run is one that nobody waits for.

`FuncCallsProofs` proves, for any workers, functions and calls, each of the three
worker libraries, both modes of nested calls, and whatever crashes,
`MessagesAreExpected`, `AnswersAreTrue` and `RegionsHaveOwner`, with any number of
files that cannot be created. The assumptions are
that each worker and each call has a function, each nested call has a caller, and
no call is both external and nested. The properties compare what is sent with what the
receiver does later, so the invariant follows each call through all of its places.
`QueueInv`, `UpInv` and `DownInv` say of each message in the engine's queue, from a
worker or to a worker what is true of its call, for instance that a call on its
way to a worker is the one the dispatcher has for it, has no outcome yet, and is
awaited by somebody; `MessagesDistinct`, that no two messages on one way are about
the same call; `WorkerInv`, that the call a worker executes is the one it was
given; `CallInv`, how a call's result, its output FIFO and its regions agree. Most
steps touch one call and one worker: the lemma `StepIInv` reduces the invariant to
what happens to the calls and workers that are touched, provided the others are
`Untouched` and not concerned. The development is four modules: the data facts, the
invariant, `StepIInv` and the steps that leave the calls alone (`FuncCallsLemmas`);
the engine's steps that take, dispatch and answer calls (`FuncCallsEngine`); the
workers' steps that connect, run, call, wait and die (`FuncCallsWorkers`); the steps
that answer a call, and the theorems (`FuncCallsProofs`).

`IOWorkerProofs` proves, for any connections, types and functions, `TypeOK`,
`ConnectionInOnePlace`, `PipeOutlivesConnections`, `PickListAgrees`, and the
action property `CalledForOwner`, the safety part of `QueuedFunctionsHandled`.
`Pipes` ties `connections_on_closing` to the set of connections being written
back, of which the code keeps only the count: the pipe is closed when the count
is zero, and that no connection is left then needs the equality. A connection
being written back is not also on its way to the worker, because it was accepted
once.

`SPSCQueueProofs` proves, for any ring of at least two cells and any messages,
`TypeOK`, `NoCellReadWhileWritten`, `OneWakeupPerSleep`, and that the ring
implements `BoundedQueue` (`RingIsBoundedQueue`). The invariant says what each
process knows: the producer's `p_current` is the tail and, once it decided to
store, the cell after it is not the head (`ProducerView`); the consumer's
`c_current` is the head and, once it decided to read, not the tail
(`ConsumerView`); a wake-up is outstanding only if the flag was set in the
current sleep (`WakeupView`).

Only model-checked: liveness, which is outside the prover's reach, and the modules
`HttpConnection`, `GrpcConnection`, `EngineLink`, `Launcher` and
`EventDrivenWorker`, whose reads are folds over sequences of bytes or callbacks:
what a fold computes for every input needs induction over data, which the installed
provers cannot do.

## Not modelled

* Workers that talk over the engine's socket instead of FIFOs, functions that
  call themselves (all workers of one may then wait for each other), and, at the
  engine, a descriptor number that is used again after a close.
* HTTP clients that send a request before the last response.
* Moving averages and rates: floating point is out of TLC's reach, and they enter
  as arbitrary estimates. `utils/bst.h` is used by no part of the runtime.
* The bit layout of call ids and messages, conversion of values between C++ and
  the language runtimes, and the growth of buffers.
* The parsing of configuration, command lines and environments, sockets and
  threads at start-up, `Monitor`, statistics, logging, and the benchmarks other
  than `bench_spsc_queue`.
