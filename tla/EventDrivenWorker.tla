-------------------------- MODULE EventDrivenWorker --------------------------
(***************************************************************************)
(* The process of a Node.js or a Python function: EventDrivenWorker        *)
(* (src/src/worker/event_driven_worker.cpp) under the event loop of its    *)
(* binding (worker/nodejs/engine.cpp, worker/python/). One thread runs     *)
(* several function workers: it reads their input FIFOs, the pipe of the   *)
(* launcher and, with --use_fifo_for_nested_call, one FIFO for the output  *)
(* of each nested call. Module FuncCalls has the engine's side and the     *)
(* shared memory; here are the tables, pools and descriptors.              *)
(*                                                                         *)
(* Calls are <<client_id, call_id>>, with client_id 0 for the gateway; the *)
(* handle given to user code is the call. What user code, the engine, the  *)
(* launcher and the kernel do is external. A synchronous Python handler    *)
(* behaves as one that finishes in the step after it started. Only an      *)
(* unknown callee and a failing system call make a nested call fail here.  *)
(***************************************************************************)
EXTENDS Integers, Sequences, SequencesExt, FiniteSets, Functions, TLC

CONSTANTS
    Bindings,           \* "node", "python"
    Clients,            \* 1..n: client ids of the process's workers
    ExternalCalls,      \* set of <<0, call_id>>
    MaxNested           \* bound on the nested calls of the process

ASSUME EventDrivenAssumption ==
    /\ Bindings \subseteq {"node", "python"} /\ MaxNested \in Nat
    /\ 1 \in Clients /\ Clients \subseteq Nat /\ \A c \in ExternalCalls : c[1] = 0

VARIABLES
    process,            \* the process, with the contents of the FIFOs
    engine              \* the engine and the launcher

vars == <<process, engine>>

NestedCalls == {<<client, n>> : client \in Clients, n \in 0 .. MaxNested - 1}

Calls == ExternalCalls \cup NestedCalls

message_pipe_fd_ == 3

NoFrame == 0

Init ==
    /\ \E binding \in Bindings, fifo \in BOOLEAN :
         /\ process =
              [binding |-> binding, aborted |-> "no", started |-> FALSE,
               \* EventDrivenWorker
               use_fifo_for_nested_call_ |-> FALSE,
               func_workers_ |-> <<>>, func_worker_by_input_fd_ |-> <<>>,
               incoming_func_calls_ |-> <<>>, outgoing_func_calls_ |-> <<>>,
               outgoing_func_call_by_output_pipe_fd_ |-> <<>>,
               outgoing_func_call_pool_ |-> [objs_ |-> 0, free_objs_ |-> <<>>],
               states |-> <<>>,             \* the OutgoingFuncCallState objects
               frame |-> NoFrame,           \* the one whose callback is running
               \* the binding
               outgoing_func_call_cbs_ |-> {}, cancelled |-> {},
               uv_poll_to_fds_ |-> <<>>, fd_to_uv_polls_ |-> <<>>,
               uv_poll_pool_ |-> [objs_ |-> 0, free_objs_ |-> <<>>], closing |-> {},
               watching_fds |-> {},
               \* open files, FIFOs
               files |-> message_pipe_fd_ :> <<"launcher", 0>>,
               output_fifo |-> [g \in NestedCalls |-> <<>>],
               input_pipe |-> [c \in Clients |-> <<>>],
               output_pipe |-> [c \in Clients |-> <<>>],
               message_pipe |-> <<>>,
               \* for the properties: what callees answered and callers were given
               answers |-> [c \in Calls |-> <<>>],
               given |-> [g \in NestedCalls |-> <<>>],
               contexts |-> {}]             \* calls whose handler was started
         /\ engine =
              [use_fifo_for_nested_call |-> fifo,
               clients |-> {1},             \* workers asked for
               running |-> [c \in Clients |-> <<>>],
               open |-> {},                 \* nested calls to be run
               dispatched |-> <<>>,         \* calls, and the worker they went to
               replies |-> [c \in Calls |-> <<>>]]

-----------------------------------------------------------------------------
(***************************************************************************)
(* Files, object pools and the watching of descriptors, as functions of    *)
(* the process p.                                                          *)
(***************************************************************************)

\* The kernel hands out the lowest free number.
LowestFd(p) ==
    CHOOSE fd \in message_pipe_fd_ .. message_pipe_fd_ + Cardinality(DOMAIN p.files) :
        /\ fd \notin DOMAIN p.files
        /\ \A e \in message_pipe_fd_ .. fd - 1 : e \in DOMAIN p.files

Opened(p, file) == [p EXCEPT !.files = (LowestFd(p) :> file) @@ @]

Without(f, x) == Restrict(f, DOMAIN f \ {x})

\* SimpleObjectPool: Get pops a free object, after it has made one if there is
\* none. Objects are numbers.
Filled(pool) ==
    IF pool.free_objs_ # <<>> THEN pool
    ELSE [objs_ |-> pool.objs_ + 1, free_objs_ |-> <<pool.objs_ + 1>>]

GetObj(pool) == Last(Filled(pool).free_objs_)

Get(pool) == [Filled(pool) EXCEPT !.free_objs_ = Front(@)]

Return(pool, obj) == [pool EXCEPT !.free_objs_ = Append(@, obj)]

\* Node.js.
AddWatchFdReadable(p, fd) ==
    LET uv_poll == GetObj(p.uv_poll_pool_)
    IN  [p EXCEPT !.uv_poll_pool_ = Get(@),
                  !.uv_poll_to_fds_ = (uv_poll :> fd) @@ @,
                  !.fd_to_uv_polls_ = (fd :> uv_poll) @@ @]

\* Variant: the poll goes back to the pool before libuv has closed it.
RemovePollAtOnce(p, uv_poll) ==
    [p EXCEPT !.uv_poll_to_fds_ = Without(@, uv_poll),
              !.fd_to_uv_polls_ = Without(@, p.uv_poll_to_fds_[uv_poll]),
              !.uv_poll_pool_ = Return(@, uv_poll),
              !.closing = @ \cup {uv_poll}]

RemovePoll(p, uv_poll) ==
    [p EXCEPT !.uv_poll_to_fds_ = Without(@, uv_poll),
              !.fd_to_uv_polls_ = Without(@, p.uv_poll_to_fds_[uv_poll]),
              !.closing = @ \cup {uv_poll}]

RemoveWatchFdReadable(p, fd) ==
    IF fd \in DOMAIN p.fd_to_uv_polls_ THEN RemovePoll(p, p.fd_to_uv_polls_[fd]) ELSE p

\* Python: the reader holds a file object, which closes the descriptor when the
\* last reference to it goes. _finished_fut needs an empty table: it never is.
watch_fd_readable_cb(p, fd) == [p EXCEPT !.watching_fds = @ \cup {fd}]

stop_watch_fd_cb(p, fd) == [p EXCEPT !.watching_fds = @ \ {fd}]

Watch(p, fd) ==
    IF p.binding = "node" THEN AddWatchFdReadable(p, fd) ELSE watch_fd_readable_cb(p, fd)

StopWatch(p, fd) ==
    IF p.binding = "node" THEN RemoveWatchFdReadable(p, fd) ELSE stop_watch_fd_cb(p, fd)

Watched(p) == IF p.binding = "node" THEN Range(p.uv_poll_to_fds_) ELSE p.watching_fds

-----------------------------------------------------------------------------
(***************************************************************************)
(* The methods of EventDrivenWorker.                                       *)
(***************************************************************************)

SendMessage(p, client, message) == [p EXCEPT !.output_pipe[client] = Append(@, message)]

\* NewFuncWorker, which waits for the engine's answer: the socket, the input FIFO
\* and the output FIFO are opened in this order.
NewFuncWorker(p, client) ==
    LET sock == Opened(p, <<"socket", client>>)
        in == Opened(sock, <<"input", client>>)
        out == Opened(in, <<"output", client>>)
        input_pipe_fd == LowestFd(sock)
        worker_state == [client_id |-> client, next_call_id |-> 0]
    IN  Watch([out EXCEPT
                  !.use_fifo_for_nested_call_ = @ \/ engine.use_fifo_for_nested_call,
                  !.func_workers_ = (client :> worker_state) @@ @,
                  !.func_worker_by_input_fd_ = (input_pipe_fd :> client) @@ @],
              input_pipe_fd)

\* GetAssociatedFuncWorkerState is not null.
HasFuncWorkerState(p, call) ==
    /\ call \in DOMAIN p.incoming_func_calls_
    /\ p.incoming_func_calls_[call] \in DOMAIN p.func_workers_

\* OnIncomingFuncCall of Node.js, on_incoming_func_call of Python: the handler is
\* called, or made a task, with a copy of the input and a Context.
OnIncomingFuncCall(p, call) == [p EXCEPT !.contexts = @ \cup {call}]

ExecuteFunc(p, client, call, has_input) ==
    IF ~has_input THEN SendMessage(p, client, <<"failed", call>>)
    ELSE OnIncomingFuncCall([p EXCEPT !.incoming_func_calls_ = (call :> client) @@ @], call)

\* FifoFuncCallFinished or FuncCallFinished: the output of a call from another
\* worker goes to its FIFO, or into the message.
OutputWritten(p, call, type) ==
    [p EXCEPT !.answers[call] = Append(@, type),
              !.output_fifo = IF p.use_fifo_for_nested_call_ /\ call[1] # 0
                              THEN [@ EXCEPT ![call] = Append(@, type)] ELSE @]

\* Variant: the call stays in incoming_func_calls_.
OnFuncExecutionFinishedStays(p, call, success) ==
    IF ~HasFuncWorkerState(p, call) THEN p
    ELSE LET client == p.incoming_func_calls_[call]
             type == IF success THEN "complete" ELSE "failed"
         IN  SendMessage(OutputWritten(p, call, type), client, <<type, call>>)

OnFuncExecutionFinished(p, call, success) ==
    IF ~HasFuncWorkerState(p, call) THEN p
    ELSE LET client == p.incoming_func_calls_[call]
             type == IF success THEN "complete" ELSE "failed"
         IN  SendMessage([OutputWritten(p, call, type)
                            EXCEPT !.incoming_func_calls_ = Without(@, call)],
                         client, <<type, call>>)

\* NewOutgoingFuncCallCommon, if the region and the FIFO can be made.
NewOutgoingFuncCallCommon(p, func_call, client) ==
    LET fifo == p.use_fifo_for_nested_call_
        fd == IF fifo THEN LowestFd(p) ELSE -1
        opened == IF fifo THEN Watch(Opened(p, <<"fifo", func_call>>), fd) ELSE p
        obj == GetObj(p.outgoing_func_call_pool_)
    IN  SendMessage(
          [opened EXCEPT
             !.outgoing_func_call_pool_ = Get(@),
             !.states = (obj :> [func_call |-> func_call, output_pipe_fd |-> fd]) @@ @,
             !.outgoing_func_calls_ = (func_call :> obj) @@ @,
             !.outgoing_func_call_by_output_pipe_fd_ = IF fifo THEN (fd :> obj) @@ @ ELSE @],
          client, <<"invoke", func_call>>)

\* NewOutgoingFuncCall and NewOutgoingGrpcCall, which differ in how the callee is
\* found, with the binding's own table of callbacks or futures. A failed call uses
\* up its call id.
NewOutgoingFuncCall(p, parent_call, known, made) ==
    IF ~known \/ ~HasFuncWorkerState(p, parent_call) THEN p
    ELSE LET client == p.incoming_func_calls_[parent_call]
             func_call == <<client, p.func_workers_[client].next_call_id>>
             n == [p EXCEPT !.func_workers_[client].next_call_id = @ + 1]
         IN  IF ~made THEN n
             ELSE [NewOutgoingFuncCallCommon(n, func_call, client)
                     EXCEPT !.outgoing_func_call_cbs_ = @ \cup {func_call}]

\* Node.js: asserts that the callback is known, and copies the output for it.
OnOutgoingFuncCallComplete(p, func_call, outcome) ==
    [p EXCEPT !.outgoing_func_call_cbs_ = @ \ {func_call},
              !.given[func_call] = Append(@, outcome)]

\* Python: a future that was cancelled raises an exception, which goes through
\* the worker to the event loop.
on_outgoing_func_call_complete(p, func_call, outcome) ==
    IF func_call \notin p.outgoing_func_call_cbs_ THEN p
    ELSE [p EXCEPT !.outgoing_func_call_cbs_ = @ \ {func_call},
                   !.given[func_call] = IF func_call \in p.cancelled THEN @
                                        ELSE Append(@, outcome)]

Completed(p, func_call, outcome) ==
    IF p.binding = "node" THEN OnOutgoingFuncCallComplete(p, func_call, outcome)
    ELSE on_outgoing_func_call_complete(p, func_call, outcome)

\* Variant: the descriptor stays in its table.
OnOutputPipeReadableStays(p, obj, read) ==
    LET s == p.states[obj]
        content == p.output_fifo[s.func_call]
        q == [StopWatch(p, s.output_pipe_fd) EXCEPT
                !.outgoing_func_calls_ = Without(@, s.func_call),
                !.output_fifo[s.func_call] = Tail(@), !.frame = obj]
    IN  Completed(q, s.func_call, IF read THEN Head(content) ELSE "failed")

\* OnOutputPipeReadable, up to the callback's return. FifoGetFuncCallOutput may
\* fail. The object is returned to its pool after the callback.
OnOutputPipeReadable(p, obj, read) ==
    LET s == p.states[obj]
        content == p.output_fifo[s.func_call]
        q == [StopWatch(p, s.output_pipe_fd) EXCEPT
                !.outgoing_func_calls_ = Without(@, s.func_call),
                !.outgoing_func_call_by_output_pipe_fd_ = Without(@, s.output_pipe_fd),
                !.output_fifo[s.func_call] = Tail(@), !.frame = obj]
    IN  Completed(q, s.func_call, IF read THEN Head(content) ELSE "failed")

\* OnOutgoingFuncCallFinished, up to the callback's return.
OnOutgoingFuncCallFinished(p, message, obj, read) ==
    LET g == p.states[obj].func_call
    IN  Completed(
            [p EXCEPT !.outgoing_func_calls_ = Without(@, g), !.frame = obj],
            g, IF read THEN message[1] ELSE "failed")

\* LOG(FATAL) for what the worker does not expect.
Fatal(p) == [p EXCEPT !.aborted = "fatal"]

\* Variant: an answer that comes after its worker's call has finished is dropped.
OnEnginePipeReadableParentOnly(p, client, found) ==
    LET message == Head(p.input_pipe[client])
        q == [p EXCEPT !.input_pipe[client] = Tail(@)]
        func_call == message[2]
    IN  IF message[1] = "dispatch" THEN ExecuteFunc(q, client, func_call, found)
        ELSE IF client \notin Range(p.incoming_func_calls_) THEN q
        ELSE OnOutgoingFuncCallFinished(q, message, p.outgoing_func_calls_[func_call], found)

\* OnEnginePipeReadable. found: the input or output region can be opened.
OnEnginePipeReadable(p, client, found) ==
    LET message == Head(p.input_pipe[client])
        q == [p EXCEPT !.input_pipe[client] = Tail(@)]
        func_call == message[2]
    IN  IF message[1] = "dispatch" THEN ExecuteFunc(q, client, func_call, found)
        ELSE IF p.use_fifo_for_nested_call_ THEN Fatal(q)
        ELSE IF func_call \notin DOMAIN p.outgoing_func_calls_ THEN q
        ELSE OnOutgoingFuncCallFinished(q, message, p.outgoing_func_calls_[func_call], found)

OnMessagePipeReadable(p) ==
    NewFuncWorker([p EXCEPT !.message_pipe = Tail(@)], Head(p.message_pipe))

OnFdReadable(p, fd, ok) ==
    IF fd = message_pipe_fd_ THEN OnMessagePipeReadable(p)
    ELSE IF fd \in DOMAIN p.func_worker_by_input_fd_
    THEN OnEnginePipeReadable(p, p.func_worker_by_input_fd_[fd], ok)
    ELSE IF fd \in DOMAIN p.outgoing_func_call_by_output_pipe_fd_
    THEN OnOutputPipeReadable(p, p.outgoing_func_call_by_output_pipe_fd_[fd], ok)
    ELSE Fatal(p)

-----------------------------------------------------------------------------
(***************************************************************************)
(* The event loop. While a callback runs, only user code does.             *)
(***************************************************************************)

Running == process.started /\ process.aborted = "no"

Idle == Running /\ process.frame = NoFrame

\* What can be read from an open file.
Readable(p, fd) ==
    LET file == p.files[fd]
    IN  CASE file[1] = "launcher" -> p.message_pipe # <<>>
          [] file[1] = "input" -> p.input_pipe[file[2]] # <<>>
          [] file[1] = "fifo" -> p.output_fifo[file[2]] # <<>>
          [] OTHER -> FALSE

\* EventDrivenWorker::Start, called by StartInternal or Engine.start.
Start ==
    /\ ~process.started
    /\ process' = NewFuncWorker(Watch([process EXCEPT !.started = TRUE], message_pipe_fd_), 1)
    /\ UNCHANGED engine

\* FdEvent of Node.js, func of add_watch_fd_readable.
FdEvent(fd, ok) ==
    /\ Idle
    /\ fd \in Watched(process) \cap DOMAIN process.files /\ Readable(process, fd)
    /\ process' = OnFdReadable(process, fd, ok)
    /\ UNCHANGED engine

\* The callback returns, and the object goes back to its pool. In Python the last
\* reference to the file goes with the reader, and its descriptor is closed. The
\* FIFO stays open in Node.js.
CallbackReturns ==
    /\ Running /\ process.frame # NoFrame
    /\ LET fd == process.states[process.frame].output_pipe_fd
       IN  process' = [process EXCEPT
               !.outgoing_func_call_pool_ = Return(@, process.frame),
               !.frame = NoFrame,
               !.files = IF process.binding = "python" /\ fd # -1 THEN Without(@, fd) ELSE @]
    /\ UNCHANGED engine

\* libuv has closed the poll.
PollClose(uv_poll) ==
    /\ Idle /\ uv_poll \in process.closing
    /\ process' = [process EXCEPT !.closing = @ \ {uv_poll},
                                  !.uv_poll_pool_ = Return(@, uv_poll)]
    /\ UNCHANGED engine

\* The end of a pipe makes RecvMessage fail, which aborts the process.
PeerGone ==
    /\ Idle
    /\ process' = [process EXCEPT !.aborted = "peer gone"]
    /\ UNCHANGED engine

-----------------------------------------------------------------------------
(***************************************************************************)
(* User code: in Node.js it also runs inside callbacks, in Python only as  *)
(* tasks of the event loop. It keeps its Context, and may use it late.     *)
(***************************************************************************)

UserRuns == Running /\ (process.binding = "python" => process.frame = NoFrame)

MayInvoke == FoldFunction(LAMBDA s, n : s.next_call_id + n, 0, process.func_workers_) < MaxNested

\* InvokeFunc and GrpcCall of Node.js.
InvokeFunc(call, known, made) ==
    /\ UserRuns /\ process.binding = "node" /\ call \in process.contexts /\ MayInvoke
    /\ process' = NewOutgoingFuncCall(process, call, known, made)
    /\ UNCHANGED engine

\* invoke_func and grpc_call of Python.
invoke_func(call, known, made) ==
    /\ UserRuns /\ process.binding = "python" /\ call \in process.contexts /\ MayInvoke
    /\ process' = NewOutgoingFuncCall(process, call, known, made)
    /\ UNCHANGED engine

\* Python: a future is cancelled, for instance by a timeout of user code.
CancelFuture(g) ==
    /\ UserRuns /\ process.binding = "python"
    /\ g \in process.outgoing_func_call_cbs_
    /\ process' = [process EXCEPT !.cancelled = @ \cup {g}]
    /\ UNCHANGED engine

\* Node.js: user code may call back more than once.
IncomingFuncCallFinished(call, success) ==
    /\ UserRuns /\ process.binding = "node" /\ call \in process.contexts
    /\ process' = OnFuncExecutionFinished(process, call, success)
    /\ UNCHANGED engine

\* Python: done_callback of the task, which ends once. After a task was cancelled
\* it raises an exception, and the call is never finished.
done_callback(call, success) ==
    /\ UserRuns /\ process.binding = "python" /\ call \in DOMAIN process.incoming_func_calls_
    /\ process' = OnFuncExecutionFinished(process, call, success)
    /\ UNCHANGED engine

-----------------------------------------------------------------------------
(***************************************************************************)
(* The engine and the launcher (external).                                 *)
(***************************************************************************)

LauncherAsks(client) ==
    /\ Running
    /\ client \in Clients \ engine.clients
    /\ process' = [process EXCEPT !.message_pipe = Append(@, client)]
    /\ engine' = [engine EXCEPT !.clients = @ \cup {client}]

\* A call for a worker of this process that has nothing to do.
EngineDispatches(client, call) ==
    /\ Running
    /\ client \in DOMAIN process.func_workers_ /\ engine.running[client] = <<>>
    /\ call \in (ExternalCalls \cup engine.open) \ DOMAIN engine.dispatched
    /\ process' = [process EXCEPT !.input_pipe[client] = Append(@, <<"dispatch", call>>)]
    /\ engine' = [engine EXCEPT !.running[client] = <<call>>,
                                !.dispatched = (call :> client) @@ @,
                                !.open = @ \ {call}]

\* The answer to a nested call reaches its caller: from the callee's FIFO, or from
\* the engine.
Answered(p, g, outcome) ==
    IF engine.use_fifo_for_nested_call THEN [p EXCEPT !.output_fifo[g] = Append(@, outcome)]
    ELSE [p EXCEPT !.input_pipe[g[1]] = Append(@, <<outcome, g>>)]

\* A message of a worker. The reply to a nested call is handed on, unless the
\* callee has already written it to the FIFO.
EngineReceives(client) ==
    /\ Running /\ process.output_pipe[client] # <<>>
    /\ LET message == Head(process.output_pipe[client])
           call == message[2]
           p == [process EXCEPT !.output_pipe[client] = Tail(@)]
       IN  IF message[1] = "invoke"
           THEN /\ process' = p
                /\ engine' = [engine EXCEPT !.open = @ \cup {call}]
           ELSE /\ process' = IF call[1] # 0 /\ ~engine.use_fifo_for_nested_call
                              THEN Answered(p, call, message[1]) ELSE p
                /\ engine' = [engine EXCEPT
                      !.running[client] = <<>>,
                      !.replies[call] = Append(@, client)]

\* A process elsewhere runs the nested call.
OthersAnswer(g, outcome) ==
    /\ Running /\ g \in engine.open
    /\ process' = [Answered(process, g, outcome) EXCEPT !.answers[g] = Append(@, outcome)]
    /\ engine' = [engine EXCEPT !.open = @ \ {g}]

-----------------------------------------------------------------------------
Fds == message_pipe_fd_ .. message_pipe_fd_ + Cardinality(DOMAIN process.files)

Next ==
    \/ Start
    \/ \E fd \in Fds, ok \in BOOLEAN : FdEvent(fd, ok)
    \/ CallbackReturns
    \/ \E uv_poll \in process.closing : PollClose(uv_poll)
    \/ PeerGone
    \/ \E call \in Calls, known, made \in BOOLEAN : InvokeFunc(call, known, made)
    \/ \E call \in Calls, known, made \in BOOLEAN : invoke_func(call, known, made)
    \/ \E g \in NestedCalls : CancelFuture(g)
    \/ \E call \in Calls, success \in BOOLEAN : IncomingFuncCallFinished(call, success)
    \/ \E call \in Calls, success \in BOOLEAN : done_callback(call, success)
    \/ \E client \in Clients : LauncherAsks(client)
    \/ \E client \in Clients, call \in Calls : EngineDispatches(client, call)
    \/ \E client \in Clients : EngineReceives(client)
    \/ \E g \in NestedCalls, outcome \in {"complete", "failed"} : OthersAnswer(g, outcome)

Spec == Init /\ [][Next]_vars

-----------------------------------------------------------------------------
(***************************************************************************)
(* Properties.                                                             *)
(***************************************************************************)

\* An event of a watched descriptor reaches the worker or the nested call whose
\* FIFO is open under that number, although Python closes FIFOs and the kernel
\* reuses their numbers: OnFdReadable never meets an unknown descriptor, nor a
\* message that the use of FIFOs excludes, and nothing that is waited for is
\* unwatched (event_driven_worker.cpp:72-82, 253-277, 303-305, 317-321).
FdsHaveTheirOwner ==
    LET p == process
        input == p.func_worker_by_input_fd_
        output == p.outgoing_func_call_by_output_pipe_fd_
    IN  /\ p.aborted # "fatal"
        /\ DOMAIN input \cap DOMAIN output = {}
        /\ p.started => Watched(p) = {message_pipe_fd_} \cup DOMAIN input \cup DOMAIN output
        /\ \A fd \in DOMAIN input : fd \in DOMAIN p.files /\ p.files[fd] = <<"input", input[fd]>>
        /\ \A fd \in DOMAIN output :
              fd \in DOMAIN p.files /\ p.files[fd] = <<"fifo", p.states[output[fd]].func_call>>

\* A pooled object has one user at a time, although callbacks start new calls
\* before the object of the finished one is returned, and libuv needs a poll until
\* it is closed: an OutgoingFuncCallState is free, of one outgoing call, or of the
\* callback that runs; a uv_poll_t is free, watching one descriptor, or closing
\* (event_driven_worker.cpp:270-277, 322-325, 346-349; engine.cpp:213-220, 297-326).
PooledObjectsHaveOneUser ==
    LET p == process
        free == p.outgoing_func_call_pool_.free_objs_
        used == Range(p.outgoing_func_calls_)
        polls == p.uv_poll_pool_.free_objs_
    IN  /\ IsInjective(free) /\ IsInjective(p.outgoing_func_calls_)
        /\ Range(free) \cap used = {} /\ p.frame \notin Range(free) \cup used
        /\ \A g \in DOMAIN p.outgoing_func_calls_ :
              p.states[p.outgoing_func_calls_[g]].func_call = g
        /\ IsInjective(polls) /\ IsInjective(p.uv_poll_to_fds_)
        /\ Range(polls) \cap (DOMAIN p.uv_poll_to_fds_ \cup p.closing) = {}
        /\ p.closing \cap DOMAIN p.uv_poll_to_fds_ = {}
        /\ \A uv_poll \in DOMAIN p.uv_poll_to_fds_ :
              p.fd_to_uv_polls_[p.uv_poll_to_fds_[uv_poll]] = uv_poll

\* The callback or future of a nested call ends once, with the answer of its own
\* call or with a failure, and an answer that has not arrived there is still under
\* way to a worker that knows the call: none is dropped as unknown
\* (event_driven_worker.cpp:296-341; engine.cpp:279-295; __init__.py:143-149).
NestedCallsAnswered ==
    \A g \in NestedCalls :
        LET answers == process.answers[g]
            given == process.given[g]
            pipes == process.input_pipe[g[1]] \o FlattenSeq(SetToSeq(Range(process.output_pipe)))
            travels == IF engine.use_fifo_for_nested_call THEN process.output_fifo[g] # <<>>
                       ELSE \E i \in DOMAIN pipes : pipes[i] = <<Head(answers), g>>
        IN  /\ Len(answers) <= 1 /\ Len(given) <= 1
            /\ given = <<"complete">> => answers = <<"complete">>
            /\ given # <<>> => g \notin DOMAIN process.outgoing_func_calls_
            /\ answers # <<>> =>
                  IF travels THEN g \in DOMAIN process.outgoing_func_calls_
                                  /\ g \in process.outgoing_func_call_cbs_
                  ELSE given # <<>> \/ g \in process.cancelled

\* The engine gets one reply for a call it dispatched, from the worker it gave the
\* call to, however often and late user code finishes it: a second reply would free
\* a worker that runs another call (event_driven_worker.cpp:84-112, 163-175).
RepliesOnce ==
    \A call \in Calls :
        /\ Len(engine.replies[call]) <= 1
        /\ \A client \in Range(engine.replies[call]) : engine.dispatched[call] = client
        /\ \A client \in Clients : \A i \in DOMAIN process.output_pipe[client] :
              LET message == process.output_pipe[client][i]
              IN  message[1] # "invoke" => engine.running[client] = <<message[2]>>
=============================================================================
