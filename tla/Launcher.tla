------------------------------ MODULE Launcher ------------------------------
(***************************************************************************)
(* The launcher of a function (src/src/launcher/, with Subprocess and      *)
(* HandleScope of src/src/common/): it shakes hands with the engine, cuts  *)
(* messages from the bytes it reads, starts a function process per worker  *)
(* (kCppMode) or one process that runs all workers (the other modes), and  *)
(* stops when the engine goes away or on SIGINT. The processes read their  *)
(* configuration and the ids of their workers from a pipe.                 *)
(*                                                                         *)
(* The main thread starts and joins the event loop thread, which does the  *)
(* rest: an action is one callback of libuv. The engine, the operating     *)
(* system and libuv are external. A message is MessageSize units long.     *)
(***************************************************************************)
EXTENDS Integers, Sequences, SequencesExt, FiniteSets

CONSTANTS
    Modes,              \* fprocess_mode_
    MessageSize,        \* sizeof(Message), in units
    PayloadSize,        \* size of the function configuration, in units
    MaxWorkers,         \* bound on the workers the engine asks for
    MaxReadable         \* bound on the units the engine is ahead of the launcher

ASSUME LauncherAssumption == MessageSize \in Nat \ {0} /\ PayloadSize \in Nat

VARIABLES
    launcher,           \* the launcher
    engine,             \* the engine's side: what it sent, what is unread
    started             \* client ids of the workers started, in order

vars == <<launcher, engine, started>>

Pipes == {"stdin", "stdout", "stderr", "msg"}

NoProcess == [state_ |-> "null", subprocess |-> "kClosed", handles_ |-> {},
              num_handles_on_closing_ |-> 0, reports |-> 0, alive |-> FALSE,
              killed |-> FALSE, inbox |-> <<>>,
              writes |-> <<>>]      \* results of uv_write that were not called back

Init ==
    /\ \E mode \in Modes, files \in BOOLEAN :       \* files: fprocess_output_dir_ is set
         launcher = [mode |-> mode, files |-> files, state_ |-> "kCreated",
                     main |-> "starting", loop |-> "running", aborted |-> FALSE,
                     stop_event_ |-> "open", stop_sent |-> FALSE,
                     conn |-> "kHandshake", io |-> "connect",
                     message_buffer_ |-> <<>>, handled |-> <<>>,
                     configured |-> FALSE, func_processes_ |-> <<>>]
    /\ engine = [sent |-> <<>>, wire |-> <<>>, creates |-> 0, closed |-> FALSE]
    /\ started = <<>>

-----------------------------------------------------------------------------
(***************************************************************************)
(* Function processes, as functions of a process p.                        *)
(***************************************************************************)

\* Subprocess::Start. With an output directory, stdout and stderr are files that
\* SetStandardFile opened, and have no pipe.
SubprocessStart(p, files) ==
    [p EXCEPT !.subprocess = "kRunning", !.alive = TRUE,
              !.handles_ = {"process"} \cup (IF files THEN {"stdin", "msg"} ELSE Pipes)]

\* HandleScope::CloseHandle.
CloseHandle(p, h) == [p EXCEPT !.handles_ = @ \ {h}, !.num_handles_on_closing_ = @ + 1]

ClosePipe(p, h) == IF h \in p.handles_ THEN CloseHandle(p, h) ELSE p

\* Subprocess::Kill. A signal to a process that has exited does nothing.
Kill(p) == IF p.subprocess = "kRunning" THEN [p EXCEPT !.killed = p.alive] ELSE p

\* FuncProcess::ScheduleClose.
ProcessScheduleClose(p) ==
    IF p.state_ \in {"kClosed", "kClosing"} THEN p ELSE Kill([p EXCEPT !.state_ = "kClosing"])

-----------------------------------------------------------------------------
(***************************************************************************)
(* The launcher's methods, as functions of the launcher l.                 *)
(***************************************************************************)

\* The launcher's process ends, with all its state.
Abort(l) == [l EXCEPT !.aborted = TRUE, !.main = "starting", !.loop = "ended",
                      !.state_ = "kCreated", !.stop_event_ = "closed",
                      !.stop_sent = FALSE, !.conn = "kClosed", !.io = "none",
                      !.message_buffer_ = <<>>, !.handled = <<>>, !.configured = FALSE,
                      !.func_processes_ = <<>>]

\* uv_async_send to a closed handle does nothing.
ScheduleStop(l) == [l EXCEPT !.stop_sent = @ \/ l.stop_event_ = "open"]

ConnScheduleClose(l) ==
    IF l.conn \in {"kHandshake", "kRunning"} THEN [l EXCEPT !.conn = "kClosing", !.io = "none"]
    ELSE l

\* uv_write of data to the i-th process, which is called back later. A write to a
\* process that is gone raises SIGPIPE, which nobody handles, or fails where the
\* launcher was started with SIGPIPE ignored.
WriteTo(l, i, data, write) ==
    IF l.func_processes_[i].alive
    THEN [l EXCEPT !.func_processes_[i].inbox = Append(@, data),
                   !.func_processes_[i].writes = Append(@, "ok")]
    ELSE IF write = "fails" THEN [l EXCEPT !.func_processes_[i].writes = Append(@, "failed")]
    ELSE Abort(l)

\* FuncProcess::SendMessage. A write to a pipe being closed is refused.
SendMessage(l, i, client_id, write) ==
    IF "msg" \notin l.func_processes_[i].handles_ THEN l
    ELSE WriteTo(l, i, <<"create", client_id>>, write)

\* FuncProcess::FuncProcess and FuncProcess::Start: the client id goes into the
\* environment, the configuration into the pipe; the process may be gone by then.
\* func_name(), for the names of the output files, needs the configuration.
StartProcess(l, client_id, write) ==
    IF l.files /\ ~l.configured THEN Abort(l)
    ELSE LET p == [SubprocessStart(NoProcess, l.files) EXCEPT
                      !.state_ = "kRunning", !.alive = write = "works"]
         IN  WriteTo([l EXCEPT !.func_processes_ = Append(@, p)],
                     Len(l.func_processes_) + 1, <<"config", client_id>>, write)

OnRecvMessage(l, message, write) ==
    LET client_id == message[1][2]
        d == [l EXCEPT !.handled = Append(@, message)]
    IN  IF l.aborted THEN l
        ELSE IF l.mode = "kCppMode" \/ l.func_processes_ = <<>>
             THEN StartProcess(d, client_id, write)
        ELSE SendMessage(d, 1, client_id, write)

\* OnRecvHandshakeResponse: func_config_ may fail to load.
OnRecvHandshakeResponse(l, response) ==
    IF response[1][2] = "bad" THEN ConnScheduleClose(l)
    ELSE [l EXCEPT !.configured = TRUE, !.conn = "kRunning", !.io = "messages"]

\* The k-th message of a buffer, and OnRecvMessage for the first n.
MessageAt(buffer, k) == SubSeq(buffer, (k - 1) * MessageSize + 1, k * MessageSize)

RecvMessages(l, buffer, n, write) ==
    FoldLeft(LAMBDA acc, k : OnRecvMessage(acc, MessageAt(buffer, k), write),
             l, [k \in 1..n |-> k])

From(s, n) == SubSeq(s, n + 1, Len(s))

\* ReadHandshakeResponse, with data the bytes of the read. Messages that came
\* with the response are handled even if it was refused.
ReadHandshakeResponse(l, data, write) ==
    LET buffer == l.message_buffer_ \o data
        expected == MessageSize + PayloadSize
        rest == From(buffer, expected)
        n == Len(rest) \div MessageSize
        d == OnRecvHandshakeResponse(
                [l EXCEPT !.handled = Append(@, SubSeq(buffer, 1, expected))],
                SubSeq(buffer, 1, MessageSize))
    IN  IF Len(buffer) < expected THEN [l EXCEPT !.message_buffer_ = buffer]
        ELSE [RecvMessages(d, rest, n, write) EXCEPT !.message_buffer_ = From(rest, n * MessageSize)]

\* Variant: what follows the last whole message is dropped.
ReadMessagesNoRest(l, data, write) ==
    LET buffer == l.message_buffer_ \o data
    IN  [RecvMessages(l, buffer, Len(buffer) \div MessageSize, write)
            EXCEPT !.message_buffer_ = <<>>]

\* Variant: a message that ends with the read is kept for the next one.
ReadMessagesLate(l, data, write) ==
    LET buffer == l.message_buffer_ \o data
        n == (Len(buffer) - 1) \div MessageSize
    IN  [RecvMessages(l, buffer, n, write) EXCEPT !.message_buffer_ = From(buffer, n * MessageSize)]

\* utils::ReadMessages, with the copies into the buffer and out of it.
ReadMessages(l, data, write) ==
    LET buffer == l.message_buffer_ \o data
        n == Len(buffer) \div MessageSize
    IN  [RecvMessages(l, buffer, n, write) EXCEPT !.message_buffer_ = From(buffer, n * MessageSize)]

\* OnFuncProcessExit for the i-th process.
OnFuncProcessExit(l, i) ==
    IF l.mode # "kCppMode" THEN Abort(l) ELSE [l EXCEPT !.func_processes_[i].state_ = "null"]

-----------------------------------------------------------------------------
(***************************************************************************)
(* The main thread.                                                        *)
(***************************************************************************)

\* The end of Launcher::Start: the event loop runs already.
MainStoresRunning ==
    /\ launcher.main = "starting" /\ ~launcher.aborted
    /\ launcher' = [launcher EXCEPT !.state_ = "kRunning", !.main = "joining"]
    /\ UNCHANGED <<engine, started>>

\* SignalHandlerToStopLauncher. It acts once; a signal that comes when a stop is on
\* its way or done would change nothing.
Sigint ==
    /\ launcher.main = "joining" /\ ~launcher.aborted
    /\ launcher.stop_event_ = "open" /\ ~launcher.stop_sent
    /\ launcher' = ScheduleStop(launcher)
    /\ UNCHANGED <<engine, started>>

\* WaitForFinish. A DCHECK ends a debug build if the state is not kStopped.
MainJoins ==
    /\ launcher.main = "joining" /\ launcher.loop = "ended" /\ ~launcher.aborted
    /\ \/ launcher' = [launcher EXCEPT !.main = "finished"]
       \/ launcher.state_ # "kStopped" /\ launcher' = Abort(launcher)
    /\ UNCHANGED <<engine, started>>

-----------------------------------------------------------------------------
(***************************************************************************)
(* The event loop.                                                         *)
(***************************************************************************)

Live == ~launcher.aborted

Connect(ok) ==
    /\ Live /\ launcher.conn = "kHandshake" /\ launcher.io = "connect"
    /\ launcher' = IF ok THEN [launcher EXCEPT !.io = "write"] ELSE ConnScheduleClose(launcher)
    /\ UNCHANGED <<engine, started>>

WriteHandshake(ok) ==
    /\ Live /\ launcher.conn = "kHandshake" /\ launcher.io = "write"
    /\ launcher' = IF ok THEN [launcher EXCEPT !.io = "handshake"]
                   ELSE ConnScheduleClose(launcher)
    /\ UNCHANGED <<engine, started>>

\* A read of n units.
ReadBytes(n, write) ==
    /\ Live /\ launcher.io \in {"handshake", "messages"}
    /\ n \in 1..Len(engine.wire)
    /\ LET data == SubSeq(engine.wire, 1, n)
       IN  launcher' = IF launcher.io = "handshake"
                       THEN ReadHandshakeResponse(launcher, data, write)
                       ELSE ReadMessages(launcher, data, write)
    /\ engine' = [engine EXCEPT !.wire = From(@, n)]
    /\ UNCHANGED started

\* A read error or the end of the stream.
ReadFails ==
    /\ Live /\ launcher.io \in {"handshake", "messages"}
    /\ engine.closed /\ engine.wire = <<>>
    /\ launcher' = ConnScheduleClose(launcher)
    /\ UNCHANGED <<engine, started>>

\* The callback of the connection's uv_close, and OnEngineConnectionClose.
ConnClose ==
    /\ Live /\ launcher.conn = "kClosing"
    /\ launcher' = ScheduleStop([launcher EXCEPT !.conn = "kClosed"])
    /\ engine' = [engine EXCEPT !.closed = TRUE]
    /\ UNCHANGED started

\* Variant: the stop goes on without the processes.
StopConnOnly ==
    /\ Live /\ launcher.stop_sent /\ launcher.stop_event_ = "open"
    /\ launcher' = [ConnScheduleClose(launcher) EXCEPT
                       !.stop_sent = FALSE, !.stop_event_ = "closed", !.state_ = "kStopping"]
    /\ UNCHANGED <<engine, started>>

\* Stop, the callback of stop_event_: it follows the pointer in each slot of
\* func_processes_. stop_event_ is closed by the first, so there is no second.
Stop ==
    /\ Live /\ launcher.stop_sent /\ launcher.stop_event_ = "open"
    /\ LET l == [launcher EXCEPT !.stop_sent = FALSE]
           slots == 1..Len(l.func_processes_)
       IN  launcher' =
             IF l.state_ = "kStopping" THEN l
             ELSE IF \E i \in slots : l.func_processes_[i].state_ = "null" THEN Abort(l)
             ELSE [ConnScheduleClose(l) EXCEPT
                     !.func_processes_ =
                         [i \in slots |-> ProcessScheduleClose(l.func_processes_[i])],
                     !.stop_event_ = "closed", !.state_ = "kStopping"]
    /\ UNCHANGED <<engine, started>>

\* EventLoopThreadMain: uv_run returns once no handle is left.
LoopEnds ==
    /\ Live /\ launcher.loop = "running"
    /\ launcher.stop_event_ = "closed" /\ launcher.conn = "kClosed"
    /\ \A i \in 1..Len(launcher.func_processes_) :
          LET p == launcher.func_processes_[i]
          IN  p.handles_ = {} /\ p.num_handles_on_closing_ = 0
    /\ launcher' = [launcher EXCEPT !.state_ = "kStopped", !.loop = "ended"]
    /\ UNCHANGED <<engine, started>>

\* ReadStdout, ReadStderr: the end of the stream. The two are handled alike; the one
\* that ends first is called stdout here.
ReadStdEof(i, h) ==
    /\ Live /\ h \in launcher.func_processes_[i].handles_ \cap {"stdout", "stderr"}
    /\ h = "stderr" => "stdout" \notin launcher.func_processes_[i].handles_
    /\ launcher' = [launcher EXCEPT !.func_processes_[i] = ClosePipe(@, h)]
    /\ UNCHANGED <<engine, started>>

\* ReadStdout, ReadStderr: an error, or more output than the limit.
ReadStdTooMuch(i) ==
    /\ Live /\ launcher.func_processes_[i].handles_ \cap {"stdout", "stderr"} # {}
    /\ launcher.func_processes_[i].alive
    /\ launcher' = [launcher EXCEPT !.func_processes_[i] = Kill(@)]
    /\ UNCHANGED <<engine, started>>

\* ProcessExit, the callback of uv_spawn.
ProcessExit(i) ==
    /\ Live /\ launcher.func_processes_[i].subprocess = "kRunning"
    /\ ~launcher.func_processes_[i].alive
    /\ LET p == launcher.func_processes_[i]
       IN  launcher' = [launcher EXCEPT !.func_processes_[i] =
              [p EXCEPT !.handles_ = {}, !.subprocess = "kExited",
                        !.num_handles_on_closing_ = @ + Cardinality(p.handles_)]]
    /\ UNCHANGED <<engine, started>>

\* Variant: handles that are still open are forgotten.
FinishesAny(p) == p.num_handles_on_closing_ = 0

\* When HandleScope calls back.
Finishes(p) == p.num_handles_on_closing_ = 0 /\ p.handles_ = {}

\* FuncProcess::OnSubprocessExit.
OnSubprocessExit(l, i) ==
    OnFuncProcessExit([l EXCEPT !.func_processes_[i].state_ = "kClosed"], i)

\* Subprocess::OnAllHandlesClosed.
OnAllHandlesClosed(l, i) ==
    OnSubprocessExit([l EXCEPT !.func_processes_[i].subprocess = "kClosed",
                               !.func_processes_[i].reports = @ + 1], i)

\* HandleScope::HandleClose for the handles of the i-th process that are closing: the
\* loop calls them all back at the end of a turn, and before that of the message pipe
\* the writes to it that were not called back. CloseHandle has made the HandleScope
\* the data of the pipe, which SendMessageCallback takes for the FuncProcess.
HandleClose(i) ==
    /\ Live /\ launcher.func_processes_[i].num_handles_on_closing_ > 0
    /\ LET l == [launcher EXCEPT !.func_processes_[i].num_handles_on_closing_ = 0]
           p == l.func_processes_[i]
       IN  launcher' = IF "msg" \notin p.handles_ /\ p.writes # <<>> THEN Abort(l)
                       ELSE IF Finishes(p) THEN OnAllHandlesClosed(l, i) ELSE l
    /\ UNCHANGED <<engine, started>>

\* SendMessageCallback.
SendMessageCallback(i) ==
    /\ Live /\ launcher.func_processes_[i].writes # <<>>
    /\ "msg" \in launcher.func_processes_[i].handles_
    /\ LET p == [launcher.func_processes_[i] EXCEPT !.writes = Tail(@)]
       IN  launcher' = [launcher EXCEPT !.func_processes_[i] =
              IF Head(launcher.func_processes_[i].writes) = "ok" THEN p
              ELSE ProcessScheduleClose(p)]
    /\ UNCHANGED <<engine, started>>

-----------------------------------------------------------------------------
(***************************************************************************)
(* The function process: Serve of worker/golang/lib.go, or the message     *)
(* pipe of EventDrivenWorker. It starts its first worker once it has the   *)
(* configuration, and one for each message. It may exit at any time.       *)
(***************************************************************************)

ProcessReads(i) ==
    /\ Live
    /\ LET p == launcher.func_processes_[i]
       IN  /\ p.alive /\ p.inbox # <<>>
           /\ started' = Append(started, Head(p.inbox)[2])
    /\ launcher' = [launcher EXCEPT !.func_processes_[i].inbox = Tail(@)]
    /\ UNCHANGED engine

ProcessDies(i) ==
    /\ Live /\ launcher.func_processes_[i].alive
    /\ launcher' = [launcher EXCEPT !.func_processes_[i].alive = FALSE,
                                    !.func_processes_[i].killed = FALSE,
                                    !.func_processes_[i].inbox = <<>>]
    /\ UNCHANGED <<engine, started>>

KilledProcessDies(i) == launcher.func_processes_[i].killed /\ ProcessDies(i)

-----------------------------------------------------------------------------
(***************************************************************************)
(* The engine (external): WorkerManager and MessageConnection.             *)
(***************************************************************************)

Units(message, size) == [k \in 1..size |-> message \o <<k>>]

EngineSends(units) ==
    [engine EXCEPT !.sent = @ \o units, !.wire = @ \o units]

EngineResponds(kind) ==
    /\ launcher.io = "handshake" /\ engine.sent = <<>> /\ ~engine.closed
    /\ engine' = EngineSends(Units(<<"response", kind>>, MessageSize + PayloadSize))
    /\ UNCHANGED <<launcher, started>>

EngineCreates ==
    /\ Live /\ engine.sent # <<>> /\ ~engine.closed
    /\ engine.creates < MaxWorkers /\ Len(engine.wire) < MaxReadable
    /\ engine' = [EngineSends(Units(<<"create", engine.creates + 1>>, MessageSize))
                    EXCEPT !.creates = @ + 1]
    /\ UNCHANGED <<launcher, started>>

EngineCloses ==
    /\ Live /\ ~engine.closed
    /\ engine' = [engine EXCEPT !.closed = TRUE]
    /\ UNCHANGED <<launcher, started>>

-----------------------------------------------------------------------------
Processes == 1..Len(launcher.func_processes_)

\* How a write that the read leads to ends, when that is open.
Writes == {"works", "sigpipe", "fails"}

Next ==
    \/ MainStoresRunning
    \/ Sigint
    \/ MainJoins
    \/ \E ok \in BOOLEAN : Connect(ok)
    \/ \E ok \in BOOLEAN : WriteHandshake(ok)
    \/ \E n \in 1..Len(engine.wire), write \in Writes : ReadBytes(n, write)
    \/ ReadFails
    \/ ConnClose
    \/ Stop
    \/ LoopEnds
    \/ \E i \in Processes, h \in {"stdout", "stderr"} : ReadStdEof(i, h)
    \/ \E i \in Processes : ReadStdTooMuch(i)
    \/ \E i \in Processes : ProcessExit(i)
    \/ \E i \in Processes : HandleClose(i)
    \/ \E i \in Processes : SendMessageCallback(i)
    \/ \E i \in Processes : ProcessReads(i)
    \/ \E i \in Processes : ProcessDies(i)
    \/ \E kind \in {"good", "bad"} : EngineResponds(kind)
    \/ EngineCreates
    \/ EngineCloses

\* The threads run; the event loop handles what is ready; a killed process dies; a
\* process that lives reads its pipe. No process need exit by itself, no signal
\* need come, and the engine need not send anything.
Fairness ==
    /\ WF_vars(MainStoresRunning \/ MainJoins \/ ReadFails \/ ConnClose \/ Stop \/ LoopEnds)
    /\ WF_vars(\E ok \in BOOLEAN : Connect(ok) \/ WriteHandshake(ok))
    /\ WF_vars(\E n \in 1..Len(engine.wire), write \in Writes : ReadBytes(n, write))
    /\ WF_vars(\E i \in Processes : \/ ProcessExit(i) \/ HandleClose(i) \/ SendMessageCallback(i)
                                    \/ KilledProcessDies(i) \/ ProcessReads(i))

Spec == Init /\ [][Next]_vars /\ Fairness

-----------------------------------------------------------------------------
(***************************************************************************)
(* Properties.                                                             *)
(***************************************************************************)

\* However the bytes of the engine are cut into reads, and although the response
\* and the first messages may come in one, each message is handled once, whole and
\* in order, and the rest is in message_buffer_ or unread: no byte is lost or
\* repeated where ReadHandshakeResponse hands message_buffer_ over to ReadMessages
\* (engine_connection.cpp:106-136, 153-174; appendable_buffer.h:117-135).
MessagesWhole ==
    ~launcher.aborted =>
        /\ FlattenSeq(launcher.handled) \o launcher.message_buffer_ \o engine.wire = engine.sent
        /\ Len(launcher.message_buffer_) < MessageSize + PayloadSize
        /\ launcher.io = "messages" => Len(launcher.message_buffer_) < MessageSize

\* A subprocess reports its end once, after its exit and after the last of its
\* handles is closed, in whatever order the pipes close (stdout and stderr may do
\* so long before): the FuncProcess that owns them is destroyed then
\* ("DCHECK(state_ == kExited)" of subprocess.cpp:169, uv.cpp:37-42).
ReportsWhenClosed ==
    \A i \in Processes :
        LET p == launcher.func_processes_[i]
        IN  /\ p.state_ \in {"kClosed", "null"} =>
                  p.handles_ = {} /\ p.num_handles_on_closing_ = 0 /\ ~p.alive
            /\ p.reports <= 1
            /\ p.subprocess = "kRunning" => "process" \in p.handles_ /\ "msg" \in p.handles_

\* Once the engine is gone or SIGINT came, the launcher kills its processes and
\* ends: the event loop runs out of handles, or the process aborts (Stop finds an
\* empty slot of an exited process, the one process of the other modes exits, a write
\* finds its process or its pipe gone, or a DCHECK of WaitForFinish fails)
\* (launcher.cpp:64-103, 191-202, func_process.cpp:120-132, uv.cpp:32).
LauncherStops ==
    (launcher.stop_sent \/ launcher.conn = "kClosing") ~>
        (launcher.main = "finished" \/ launcher.aborted)

\* The process of worker c, once there is one.
ProcessOf(c) ==
    LET i == IF launcher.mode = "kCppMode" THEN c ELSE 1
    IN  IF i \in Processes THEN launcher.func_processes_[i]
        ELSE [NoProcess EXCEPT !.alive = TRUE]

\* A worker is started at most once for each client id the engine asked for, and a
\* single process starts them in the order asked: the id of the first travels in
\* the environment, the others in messages. Each worker asked for is started, unless
\* its process dies, the engine goes away or the launcher stops (launcher.cpp:125-159,
\* func_process.cpp:26-93, lib.go:57-88).
WorkersStart ==
    /\ [](/\ \A j, k \in 1..Len(started) : j # k => started[j] # started[k]
          /\ \A j \in 1..Len(started) : started[j] \in 1..engine.creates
          /\ launcher.mode # "kCppMode" => \A j \in 1..Len(started) : started[j] = j)
    /\ \A c \in 1..MaxWorkers :
          engine.creates >= c ~>
              \/ c \in ToSet(started) \/ launcher.aborted
              \/ launcher.conn \in {"kClosing", "kClosed"} \/ ~ProcessOf(c).alive
=============================================================================
