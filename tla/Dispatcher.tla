----------------------------- MODULE Dispatcher -----------------------------
(***************************************************************************)
(* The engine's per-function Dispatcher (src/src/engine/dispatcher.cpp)    *)
(* with the parts of Tracer and WorkerManager it drives: which function    *)
(* worker runs which function call, which calls wait, and when a new       *)
(* worker is asked of the launcher.                                        *)
(*                                                                         *)
(* Every handler runs under the dispatcher's mu_ and is one action, except *)
(* OnFuncCallCompleted and OnFuncCallFailed: they update the tracer before *)
(* they take mu_, so each is two actions with the other threads between.   *)
(***************************************************************************)
EXTENDS Integers, Sequences, FiniteSets

CONSTANTS
    Calls,              \* FuncCall::full_call_id values; each is submitted once
    NoCall,             \* no call: not a key of a map
    External,           \* the calls with client_id = 0 (they come from a gateway)
    MaxClientId,        \* bound: protocol::kMaxClientId
    MinWorkers,         \* func_entry->min_workers, at least 0 (the -1 default of
                        \* the config is 0 here and PreLaunched for WorkerManager)
    MaxWorkers,         \* max_workers_
    PreLaunched,        \* workers WorkerManager asks for when a launcher connects
    MaxEstimate,        \* bound: largest concurrency estimate; also "no estimate"
    AlwaysRequest,      \* --always_request_worker_if_possible
    RequestInterval,    \* --min_worker_request_interval_ms > 0
    DelayDiscards,      \* --max_relative_queueing_delay > 0
    AllowDisconnect     \* do function workers and launchers go away?

Clients == 1..MaxClientId
NoClient == 0

ASSUME CallsAssumption == External \subseteq Calls /\ NoCall \notin Calls
ASSUME BoundAssumption ==
    /\ MaxClientId \in Nat /\ MinWorkers \in Nat /\ MaxWorkers \in Nat
    /\ PreLaunched \in Nat /\ MaxEstimate \in Nat
    /\ MinWorkers <= MaxWorkers
ASSUME FlagAssumption ==
    /\ AlwaysRequest \in BOOLEAN /\ RequestInterval \in BOOLEAN
    /\ DelayDiscards \in BOOLEAN /\ AllowDisconnect \in BOOLEAN

VARIABLES
    \* Dispatcher, guarded by mu_
    workers,            \* keys of workers_
    running_workers,    \* [Clients -> Calls \cup {NoCall}]
    idle_workers,       \* the vector, used as a stack
    requested_workers,  \* keys of requested_workers_
    last_request,       \* last_request_worker_timestamp_: "never", "within" the
                        \* request interval, or "elapsed" (the interval is over)
    pending_func_calls, \* the queue of calls that wait for a worker
    assigned_workers,   \* [Calls -> Clients \cup {NoClient}]
    \* Tracer
    func_call_infos,    \* [Calls -> {"none", "kReceived", "kDispatched"}]
    inflight_requests,  \* PerFuncStatistics::inflight_requests
    ema_samples,        \* the quantities added to processing_time_ema
    \* WorkerManager
    launcher,           \* is a launcher of this function connected?
    next_client_id,
    limiter_disabled,   \* --disable_concurrency_limiter, set when the engine starts
    \* the world around the dispatcher
    launching,          \* workers asked of the launcher that did not connect yet
    executing,          \* [Clients -> SUBSET Calls]: dispatched to the worker and
                        \* not answered by it
    finishing,          \* calls between the two halves of a finish handler
    fate                \* [Calls -> {"new", "open", "finished", "discarded"}]

dispatcherVars == <<workers, running_workers, idle_workers, requested_workers,
                    last_request, pending_func_calls, assigned_workers>>
tracerVars == <<func_call_infos, inflight_requests, ema_samples>>
managerVars == <<launcher, next_client_id, launching>>
vars == <<dispatcherVars, tracerVars, managerVars, limiter_disabled, executing,
          finishing, fate>>

Init ==
    /\ workers = {}
    /\ running_workers = [c \in Clients |-> NoCall]
    /\ idle_workers = <<>>
    /\ requested_workers = {}
    /\ last_request = "never"
    /\ pending_func_calls = <<>>
    /\ assigned_workers = [f \in Calls |-> NoClient]
    /\ func_call_infos = [f \in Calls |-> "none"]
    /\ inflight_requests = 0
    /\ ema_samples = {}
    /\ launcher = FALSE
    /\ next_client_id = 1
    /\ launching = {}
    /\ limiter_disabled \in BOOLEAN
    /\ executing = [c \in Clients |-> {}]
    /\ finishing = {}
    /\ fate = [f \in Calls |-> "new"]

-----------------------------------------------------------------------------
(***************************************************************************)
(* Helpers of the handlers. They take the maps they change as parameters   *)
(* when a handler has changed them before the call.                        *)
(***************************************************************************)

\* Tracer::OnFuncCallDispatched: an unknown call is left alone.
Dispatched(infos, f) ==
    IF infos[f] = "none" THEN infos ELSE [infos EXCEPT ![f] = "kDispatched"]

\* Dispatcher::DispatchFuncCall, with the message that reaches the worker.
DispatchFuncCall(c, f, run, asg, infos) ==
    /\ running_workers' = [run EXCEPT ![c] = f]
    /\ assigned_workers' = [asg EXCEPT ![f] = c]
    /\ func_call_infos' = Dispatched(infos, f)
    /\ executing' = [executing EXCEPT ![c] = @ \cup {f}]

\* A waiting call is given up only if it is internal and the flag allows it;
\* how long it waited and the average it is compared with are abstracted.
MayDiscard(f) == DelayDiscards /\ f \notin External

\* Variants of DispatchPendingFuncCall without discards: the call is not popped,
\* the newest call is taken, the worker goes to the stack whatever happened.
DispatchPendingNotPopped(c, run, asg) ==
    /\ UNCHANGED <<fate, idle_workers, pending_func_calls>>
    /\ pending_func_calls # <<>>
    /\ DispatchFuncCall(c, Head(pending_func_calls), run, asg, func_call_infos)

DispatchPendingNewestFirst(c, run, asg) ==
    /\ pending_func_calls # <<>>
    /\ DispatchFuncCall(c, pending_func_calls[Len(pending_func_calls)], run, asg,
                        func_call_infos)
    /\ pending_func_calls' =
         SubSeq(pending_func_calls, 1, Len(pending_func_calls) - 1)
    /\ UNCHANGED <<fate, idle_workers>>

DispatchPendingAlwaysIdle(c, run, asg) ==
    /\ pending_func_calls # <<>>
    /\ DispatchFuncCall(c, Head(pending_func_calls), run, asg, func_call_infos)
    /\ pending_func_calls' = Tail(pending_func_calls)
    /\ idle_workers' = Append(idle_workers, c)
    /\ UNCHANGED fate

\* Dispatcher::DispatchPendingFuncCall for the free worker c, and the push to
\* idle_workers_ its callers do when it returns false: the first n waiting
\* calls waited too long, and the next one, if any, goes to c.
DispatchPendingFuncCall(c, run, asg) ==
    \E n \in 0..Len(pending_func_calls) :
        LET gone == {pending_func_calls[i] : i \in 1..n}
            infos == [f \in Calls |-> IF f \in gone THEN "none"
                                                    ELSE func_call_infos[f]]
        IN  /\ \A f \in gone : MayDiscard(f)
            /\ fate' = [f \in Calls |-> IF f \in gone THEN "discarded" ELSE fate[f]]
            /\ \/ /\ n < Len(pending_func_calls)
                  /\ DispatchFuncCall(c, pending_func_calls[n + 1], run, asg, infos)
                  /\ pending_func_calls' =
                       SubSeq(pending_func_calls, n + 2, Len(pending_func_calls))
                  /\ UNCHANGED idle_workers
               \/ /\ n = Len(pending_func_calls)
                  /\ running_workers' = run
                  /\ assigned_workers' = asg
                  /\ func_call_infos' = infos
                  /\ UNCHANGED executing
                  /\ pending_func_calls' = <<>>
                  /\ idle_workers' = Append(idle_workers, c)

RunningSet == {c \in Clients : running_workers[c] # NoCall}

\* Variant: the limit is not raised to min_workers_.
ConcurrencyLimitUnclamped(estimate) ==
    IF limiter_disabled THEN MaxWorkers
    ELSE IF MaxWorkers < estimate THEN MaxWorkers ELSE estimate

\* Dispatcher::DetermineConcurrencyLimit, given the estimate of the averages.
DetermineConcurrencyLimit(estimate) ==
    IF limiter_disabled THEN MaxWorkers
    ELSE IF estimate < MinWorkers THEN MinWorkers
    ELSE IF MaxWorkers < estimate THEN MaxWorkers
    ELSE estimate

\* The conditions under which MayRequestNewFuncWorker reaches its request.
WantsNewFuncWorker(expected) ==
    LET total == Cardinality(workers) + Cardinality(requested_workers)
    IN  /\ total < MaxWorkers
        /\ ~(last_request # "never" /\ RequestInterval /\ last_request = "elapsed")
        /\ AlwaysRequest \/ total < expected

\* CHECK_LE of RequestNewFuncWorkerInternal, for n requests: the engine aborts
\* when it runs out of client ids, so that a step which needs more is no step.
ClientIdsLeft(n) == next_client_id + n <= MaxClientId + 1

\* Dispatcher::MayRequestNewFuncWorker, given the expected concurrency, with
\* WorkerManager::RequestNewFuncWorker, which fails if there is no launcher.
MayRequestNewFuncWorker(expected) ==
    IF WantsNewFuncWorker(expected) /\ launcher
    THEN /\ ClientIdsLeft(1)
         /\ requested_workers' = requested_workers \cup {next_client_id}
         /\ last_request' = "within"
         /\ launching' = launching \cup {next_client_id}
         /\ next_client_id' = next_client_id + 1
    ELSE UNCHANGED <<requested_workers, last_request, launching, next_client_id>>

\* A worker of the stack that PickIdleWorker accepts.
Usable(c) == c \in workers /\ running_workers[c] = NoCall

\* PickIdleWorker takes the topmost usable worker, at position k, and drops
\* the entries above it.
TopUsable(k) ==
    /\ Usable(idle_workers[k])
    /\ \A j \in (k + 1)..Len(idle_workers) : ~Usable(idle_workers[j])

NoneUsable == \A k \in 1..Len(idle_workers) : ~Usable(idle_workers[k])

-----------------------------------------------------------------------------
(***************************************************************************)
(* The handlers.                                                           *)
(***************************************************************************)

\* WorkerManager::OnLauncherConnected: one launcher per function, and the
\* first workers are asked for without an entry in requested_workers_.
OnLauncherConnected ==
    /\ ~launcher
    /\ ClientIdsLeft(PreLaunched)
    /\ launcher' = TRUE
    /\ launching' = launching \cup (next_client_id..(next_client_id + PreLaunched - 1))
    /\ next_client_id' = next_client_id + PreLaunched
    /\ UNCHANGED <<limiter_disabled, dispatcherVars, tracerVars, executing, finishing, fate>>

\* WorkerManager::OnLauncherDisconnected.
OnLauncherDisconnected ==
    /\ AllowDisconnect
    /\ launcher
    /\ launcher' = FALSE
    /\ UNCHANGED <<limiter_disabled, dispatcherVars, tracerVars, next_client_id, launching,
                   executing, finishing, fate>>

\* Variant: a new worker does not look at the queue.
OnFuncWorkerConnectedIdle(c) ==
    /\ c \in launching
    /\ launching' = launching \ {c}
    /\ workers' = workers \cup {c}
    /\ requested_workers' = requested_workers \ {c}
    /\ idle_workers' = Append(idle_workers, c)
    /\ UNCHANGED <<limiter_disabled, last_request, inflight_requests, ema_samples, launcher,
                   next_client_id, finishing, running_workers, assigned_workers,
                   pending_func_calls, func_call_infos, executing, fate>>

\* Dispatcher::OnFuncWorkerConnected.
OnFuncWorkerConnected(c) ==
    /\ c \in launching
    /\ launching' = launching \ {c}
    /\ workers' = workers \cup {c}
    /\ requested_workers' = requested_workers \ {c}
    /\ DispatchPendingFuncCall(c, running_workers, assigned_workers)
    /\ UNCHANGED <<limiter_disabled, last_request, inflight_requests, ema_samples, launcher,
                   next_client_id, finishing>>

\* Dispatcher::OnFuncWorkerDisconnected: only workers_ forgets the worker. The
\* handlers of its own messages ran on the event loop that closed it, so none
\* of them is half done.
OnFuncWorkerDisconnected(c) ==
    /\ AllowDisconnect
    /\ c \in workers
    /\ \A f \in finishing : assigned_workers[f] # c
    /\ workers' = workers \ {c}
    /\ executing' = [executing EXCEPT ![c] = {}]
    /\ UNCHANGED <<limiter_disabled, running_workers, idle_workers, requested_workers, last_request,
                   pending_func_calls, assigned_workers, tracerVars, managerVars,
                   finishing, fate>>

\* Dispatcher::OnNewFuncCall with Tracer::OnNewFuncCall and PickIdleWorker.
OnNewFuncCall(f) ==
    /\ fate[f] = "new"
    /\ fate' = [fate EXCEPT ![f] = "open"]
    /\ inflight_requests' = inflight_requests + 1
    /\ \E estimate, expected \in 0..MaxEstimate :
        LET received == [func_call_infos EXCEPT ![f] = "kReceived"]
            limit == DetermineConcurrencyLimit(estimate)
        IN  \/ /\ Cardinality(RunningSet) >= limit
               /\ pending_func_calls' = Append(pending_func_calls, f)
               /\ func_call_infos' = received
               /\ UNCHANGED <<running_workers, assigned_workers, executing,
                              idle_workers, requested_workers, last_request,
                              launching, next_client_id>>
            \/ /\ Cardinality(RunningSet) < limit
               /\ \E k \in 1..Len(idle_workers) :
                    /\ TopUsable(k)
                    /\ idle_workers' = SubSeq(idle_workers, 1, k - 1)
                    /\ DispatchFuncCall(idle_workers[k], f, running_workers,
                                        assigned_workers, received)
               /\ UNCHANGED <<pending_func_calls, requested_workers, last_request,
                              launching, next_client_id>>
            \/ /\ Cardinality(RunningSet) < limit
               /\ NoneUsable
               /\ idle_workers' = <<>>
               /\ MayRequestNewFuncWorker(expected)
               /\ pending_func_calls' = Append(pending_func_calls, f)
               /\ func_call_infos' = received
               /\ UNCHANGED <<running_workers, assigned_workers, executing>>
    /\ UNCHANGED <<limiter_disabled, workers, ema_samples, launcher, finishing>>

\* Variant: inflight_requests is not lowered.
TracerFinishedUncounted(c, f) ==
    /\ c \in workers
    /\ f \in executing[c]
    /\ executing' = [executing EXCEPT ![c] = @ \ {f}]
    /\ func_call_infos[f] # "none"
    /\ func_call_infos' = [func_call_infos EXCEPT ![f] = "none"]
    /\ finishing' = finishing \cup {f}
    /\ fate' = [fate EXCEPT ![f] = "finished"]
    /\ UNCHANGED <<limiter_disabled, dispatcherVars, managerVars, inflight_requests>>

\* The part of OnFuncCallCompleted and OnFuncCallFailed before mu_ is taken,
\* for an answer of worker c: the tracer closes the call and forgets it.
TracerFinished(c, f) ==
    /\ c \in workers
    /\ f \in executing[c]
    /\ executing' = [executing EXCEPT ![c] = @ \ {f}]
    /\ func_call_infos[f] # "none"
    /\ func_call_infos' = [func_call_infos EXCEPT ![f] = "none"]
    /\ inflight_requests' = IF inflight_requests > 0 THEN inflight_requests - 1 ELSE 0
    /\ finishing' = finishing \cup {f}
    /\ fate' = [fate EXCEPT ![f] = "finished"]
    /\ UNCHANGED <<limiter_disabled, dispatcherVars, managerVars>>

\* The arguments of Tracer::OnFuncCallCompleted, by what they measure: the first
\* one is the sample of processing_time_ema.
TracerCompleted(processing_time, dispatch_delay) ==
    ema_samples' = ema_samples \cup {processing_time}

OnFuncCallCompleted(c, f) ==
    /\ TracerFinished(c, f)
    /\ TracerCompleted("dispatch_delay", "processing_time")

OnFuncCallFailed(c, f) ==
    /\ TracerFinished(c, f)
    /\ UNCHANGED ema_samples

\* Variant: the finished call stays in assigned_workers_.
FinishLockedKeepsAssigned(f) ==
    /\ f \in finishing
    /\ finishing' = finishing \ {f}
    /\ assigned_workers[f] \in workers
    /\ DispatchPendingFuncCall(assigned_workers[f],
            [running_workers EXCEPT ![assigned_workers[f]] = NoCall], assigned_workers)
    /\ UNCHANGED <<limiter_disabled, workers, requested_workers, last_request,
                   inflight_requests, ema_samples, managerVars>>

\* The part under mu_, with FuncWorkerFinished when the worker is connected.
FinishLocked(f) ==
    /\ f \in finishing
    /\ finishing' = finishing \ {f}
    /\ LET c == assigned_workers[f]
           asg == [assigned_workers EXCEPT ![f] = NoClient]
       IN  IF c # NoClient /\ c \in workers
           THEN DispatchPendingFuncCall(c, [running_workers EXCEPT ![c] = NoCall],
                                        asg)
           ELSE /\ assigned_workers' = asg
                /\ UNCHANGED <<running_workers, func_call_infos, executing,
                               pending_func_calls, idle_workers, fate>>
    /\ UNCHANGED <<limiter_disabled, workers, requested_workers, last_request, inflight_requests,
                   ema_samples, managerVars>>

\* The request interval that began with the last request ends.
IntervalElapses ==
    /\ last_request = "within"
    /\ last_request' = "elapsed"
    /\ UNCHANGED <<limiter_disabled, workers, running_workers, idle_workers, requested_workers,
                   pending_func_calls, assigned_workers, tracerVars, managerVars,
                   executing, finishing, fate>>

Next ==
    \/ OnLauncherConnected
    \/ OnLauncherDisconnected
    \/ IntervalElapses
    \/ \E c \in Clients : OnFuncWorkerConnected(c) \/ OnFuncWorkerDisconnected(c)
    \/ \E f \in Calls : OnNewFuncCall(f) \/ FinishLocked(f)
    \/ \E c \in Clients, f \in Calls : OnFuncCallCompleted(c, f) \/ OnFuncCallFailed(c, f)

Spec == Init /\ [][Next]_vars

\* A launcher comes, the workers it is asked for start and connect, a worker
\* answers what it was given, and a thread inside a handler runs on.
Fairness ==
    /\ WF_vars(OnLauncherConnected)
    /\ \A c \in Clients : WF_vars(OnFuncWorkerConnected(c))
    /\ \A c \in Clients, f \in Calls :
           WF_vars(OnFuncCallCompleted(c, f) \/ OnFuncCallFailed(c, f))
    /\ \A f \in Calls : WF_vars(FinishLocked(f))

FairSpec == Spec /\ Fairness

-----------------------------------------------------------------------------
(***************************************************************************)
(* Properties.                                                             *)
(***************************************************************************)

\* The type of the dispatcher's maps, of the tracer and of the worker manager.
TypeOK ==
    /\ workers \subseteq Clients
    /\ running_workers \in [Clients -> Calls \cup {NoCall}]
    /\ idle_workers \in Seq(Clients)
    /\ requested_workers \subseteq Clients
    /\ last_request \in {"never", "within", "elapsed"}
    /\ pending_func_calls \in Seq(Calls)
    /\ assigned_workers \in [Calls -> Clients \cup {NoClient}]
    /\ func_call_infos \in [Calls -> {"none", "kReceived", "kDispatched"}]
    /\ inflight_requests \in Nat
    /\ ema_samples \subseteq {"processing_time", "dispatch_delay"}
    /\ launcher \in BOOLEAN
    /\ next_client_id \in 1..(MaxClientId + 1)
    /\ launching \subseteq Clients
    /\ limiter_disabled \in BOOLEAN
    /\ executing \in [Clients -> SUBSET Calls]
    /\ finishing \subseteq Calls
    /\ fate \in [Calls -> {"new", "open", "finished", "discarded"}]

Queued(f) == \E i \in 1..Len(pending_func_calls) : pending_func_calls[i] = f
Stacked(c) == \E i \in 1..Len(idle_workers) : idle_workers[i] = c

\* No worker is lost and none is handed out twice: a connected worker is either
\* in running_workers_ or in idle_workers_, never both, and the stack holds no
\* worker twice (dispatcher.cpp:72-74, 165-173, 226-231).
WorkerHeldOnce ==
    /\ \A c \in workers : (running_workers[c] # NoCall) # Stacked(c)
    /\ \A i, j \in 1..Len(idle_workers) : i # j => idle_workers[i] # idle_workers[j]

\* The two maps agree: a call is assigned to a worker exactly if that worker
\* runs it (dispatcher.cpp:137, 169, 214-215). A worker that is gone keeps
\* its last call, which stays assigned to it.
AssignmentsAgree ==
    \A f \in Calls, c \in Clients :
        assigned_workers[f] = c <=> running_workers[c] = f

\* Every call that was accepted and neither finished nor given up is in exactly
\* one place: once in the queue with a kReceived trace, or assigned with a
\* kDispatched trace. No other call is anywhere, except that a finished call
\* stays assigned until its handler has taken mu_ (dispatcher.cpp:120-137).
CallInOnePlace ==
    /\ \A f \in Calls : fate[f] = "open" =>
            IF Queued(f)
            THEN func_call_infos[f] = "kReceived" /\ assigned_workers[f] = NoClient
            ELSE func_call_infos[f] = "kDispatched" /\ assigned_workers[f] # NoClient
    /\ \A f \in Calls : fate[f] # "open" =>
            /\ ~Queued(f)
            /\ func_call_infos[f] = "none"
            /\ assigned_workers[f] # NoClient <=> f \in finishing
    /\ \A i, j \in 1..Len(pending_func_calls) :
            i # j => pending_func_calls[i] # pending_func_calls[j]

\* A worker is given one call at a time: what it has not answered is the call
\* the dispatcher believes it runs (DCHECKs of dispatcher.cpp:210-211, 167-168).
OneCallAtATime ==
    \A c \in Clients : executing[c] \subseteq {running_workers[c]}

\* The connected workers that run a call, and the entries of running_workers_ that
\* OnFuncWorkerDisconnected leaves behind for workers that are gone.
BusyWorkers == {c \in workers : running_workers[c] # NoCall}
StaleEntries == {c \in Clients \ workers : running_workers[c] # NoCall}

\* Calls wait for one of two reasons only: with the concurrency limiter off, a call
\* is in the queue only while every connected worker runs a call, or while the
\* workers that run one and the stale entries together are max_workers_. A stale
\* entry is never erased and counts against the limit for good, so that after a
\* disconnect a call may wait beside a free worker; without one it may do so only
\* when max_workers_ of the connected workers run (dispatcher.cpp:72, 84, 170,
\* 223-232).
WorkConserving ==
    limiter_disabled /\ pending_func_calls # <<>> =>
        \/ BusyWorkers = workers
        \/ Cardinality(BusyWorkers \cup StaleEntries) >= MaxWorkers

\* The calls a function has in flight, as the tracer counts them, are those it
\* still traces and those the dispatcher gave up: a discard forgets the trace
\* without lowering the counter, which therefore never runs below zero
\* (tracer.cpp:95, 184-188, 248-255, dispatcher.cpp:201-202).
InflightAccounting ==
    inflight_requests =
        Cardinality({f \in Calls : func_call_infos[f] # "none" \/ fate[f] = "discarded"})

\* The queue is first in, first out: a step takes calls from its front only,
\* and a call that comes goes to its back (dispatcher.cpp:108, 184-185).
QueueIsFIFO ==
    [][\E n \in 0..Len(pending_func_calls) :
          LET rest == SubSeq(pending_func_calls, n + 1, Len(pending_func_calls))
          IN  \/ pending_func_calls' = rest
              \/ n = 0 /\ \E f \in Calls : fate[f] = "new"
                                    /\ pending_func_calls' = Append(rest, f)]_vars

\* Every call is eventually finished or given up: the queue is drained by each
\* worker that connects or finishes, and the limit that keeps a call waiting
\* never falls below min_workers_ (dispatcher.cpp:72, 170, 223, 274).
EveryCallEnds ==
    \A f \in Calls : fate[f] = "open" ~> fate[f] \in {"finished", "discarded"}

\* The average of processing times is made of processing times: tracer.h:51-53
\* names the second parameter of OnFuncCallCompleted processing_time, and
\* dispatcher.cpp:120-121 passes what the worker reported.
ProcessingTimeSampled == ema_samples \subseteq {"processing_time"}
=============================================================================
