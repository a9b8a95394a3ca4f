------------------------------ MODULE IOWorker ------------------------------
(***************************************************************************)
(* A server's event loop and one of its IO workers                         *)
(* (src/src/server/server_base.cpp, io_worker.cpp). The server hands       *)
(* accepted connections to the IO worker through a socket pair, the IO     *)
(* worker runs them and hands them back, and the server destroys them.     *)
(* Other threads schedule functions on the IO worker's loop. ScheduleStop  *)
(* of the server ends it all.                                              *)
(*                                                                         *)
(* A callback of an event loop is one action. The loops run in parallel,   *)
(* and libuv promises no order among the events of one loop iteration.     *)
(***************************************************************************)
EXTENDS Integers, Sequences, FiniteSets

CONSTANTS
    Conns,
    Types, TypeOf,      \* [Conns -> Types]: ConnectionBase::type_; connections of a
                        \* negative type are never picked and are left out
    Functions, OwnerOf, \* [Functions -> Conns]: the owner of a scheduled function
    NoPick,             \* no entry in connections_for_pick_
    MaxPicks            \* bound: calls of PickConnection per type

ASSUME TypeAssumption == TypeOf \in [Conns -> Types] /\ OwnerOf \in [Functions -> Conns]
ASSUME PickAssumption == NoPick \notin Seq(Conns) /\ MaxPicks \in Nat
ASSUME FiniteAssumption == IsFiniteSet(Conns) /\ IsFiniteSet(Functions)

VARIABLES
    \* the server
    server_state,           \* "kRunning", "stop_sent" (inside Stop), "kStopping"
    registered,             \* connections the server keeps alive
    accepted,               \* connections there have been
    \* the socket pair
    server_end,             \* "open" or "closed"
    to_worker, to_server,   \* connection pointers on their way
    \* the IO worker
    state,
    connections,            \* connections_, and by type connections_by_type_
    connections_for_pick,   \* [Types -> Seq(Conns) \cup {NoPick}]
    connections_for_pick_rr,
    closing,                \* connections whose ScheduleClose was called
    connections_on_closing,
    writing,                \* connections whose back transfer has no callback yet
    worker_end,             \* pipe_to_server_: "open" or "closed"
    stop_event, run_fn_event,   \* uv_async_t handles: signalled?
    scheduled_functions,
    \* the threads that schedule functions
    fn,                     \* [Functions -> its state]
    crashed                 \* undefined behaviour ended the process

serverVars == <<server_state, registered, accepted>>
pipeVars == <<server_end, to_worker, to_server>>
pickVars == <<connections_for_pick, connections_for_pick_rr>>
connVars == <<connections, pickVars, closing, connections_on_closing, writing, worker_end>>
fnVars == <<run_fn_event, scheduled_functions, fn>>
vars == <<serverVars, pipeVars, state, connVars, stop_event, fnVars, crashed>>

Init ==
    /\ server_state = "kRunning" /\ registered = {} /\ accepted = {}
    /\ server_end = "open" /\ to_worker = <<>> /\ to_server = <<>>
    /\ state = "kRunning"
    /\ connections = {} /\ closing = {}
    /\ connections_for_pick = [t \in Types |-> NoPick]
    /\ connections_for_pick_rr = [t \in Types |-> 0]
    /\ connections_on_closing = 0 /\ writing = {}
    /\ worker_end = "open"
    /\ stop_event = FALSE /\ run_fn_event = FALSE
    /\ scheduled_functions = <<>>
    /\ fn = [f \in Functions |-> "new"]
    /\ crashed = FALSE

-----------------------------------------------------------------------------
(***************************************************************************)
(* The server's loop.                                                      *)
(***************************************************************************)

\* A listening callback: RegisterConnection, and the entry in the server's map.
RegisterConnection(c) ==
    /\ ~crashed /\ server_state = "kRunning"
    /\ c \notin accepted
    /\ accepted' = accepted \cup {c}
    /\ registered' = registered \cup {c}
    /\ to_worker' = Append(to_worker, c)
    /\ UNCHANGED <<server_state, server_end, to_server, state, connVars, stop_event, fnVars,
                   crashed>>

\* ReturnConnection: OnConnectionClose of the server drops its reference, and
\* with it the connection object.
ReturnConnection ==
    /\ ~crashed /\ server_state = "kRunning"
    /\ to_server # <<>>
    /\ registered' = registered \ {Head(to_server)}
    /\ to_server' = Tail(to_server)
    /\ UNCHANGED <<server_state, accepted, server_end, to_worker, state, connVars, stop_event,
                   fnVars, crashed>>

\* Stop signals the IO worker first and closes its end of the pipe then.
StopSendsEvent ==
    /\ ~crashed /\ server_state = "kRunning"
    /\ server_state' = "stop_sent"
    /\ stop_event' = TRUE
    /\ UNCHANGED <<registered, accepted, pipeVars, state, connVars, fnVars, crashed>>

StopClosesPipe ==
    /\ ~crashed /\ server_state = "stop_sent"
    /\ server_state' = "kStopping"
    /\ server_end' = "closed"
    /\ to_server' = <<>>
    /\ UNCHANGED <<registered, accepted, to_worker, state, connVars, stop_event, fnVars, crashed>>

-----------------------------------------------------------------------------
(***************************************************************************)
(* The IO worker's loop.                                                   *)
(***************************************************************************)

\* NewConnection. Its branch for kStopping is never taken: Stop ends the reads.
NewConnection ==
    /\ ~crashed /\ state = "kRunning"
    /\ to_worker # <<>>
    /\ LET c == Head(to_worker)
           t == TypeOf[c]
       IN  /\ to_worker' = Tail(to_worker)
           /\ connections' = connections \cup {c}
           /\ connections_for_pick' =
                IF connections_for_pick[t] = NoPick THEN connections_for_pick
                ELSE [connections_for_pick EXCEPT ![t] = Append(@, c)]
    /\ UNCHANGED <<serverVars, server_end, to_server, state, connections_for_pick_rr, closing,
                   connections_on_closing, writing, worker_end, stop_event, fnVars, crashed>>

\* The end of file that the server's Stop causes may be read before the stop
\* event is handled: NewConnection then takes a pointer from a buffer that holds
\* none.
NewConnectionAtEof ==
    /\ ~crashed /\ state = "kRunning"
    /\ server_end = "closed" /\ to_worker = <<>>
    /\ crashed' = TRUE
    /\ UNCHANGED <<serverVars, pipeVars, state, connVars, stop_event, fnVars>>

\* ScheduleClose of a connection, after an error or when its peer goes away.
ScheduleClose(c) ==
    /\ ~crashed /\ state \in {"kRunning", "kStopping"}
    /\ c \in connections \ closing
    /\ closing' = closing \cup {c}
    /\ UNCHANGED <<serverVars, pipeVars, state, connections, pickVars,
                   connections_on_closing, writing, worker_end, stop_event, fnVars, crashed>>

OfType(t) == {c \in connections : TypeOf[c] = t}

\* The sequences that list a set, once each: a hash set is read in any order.
Listings(S) == {s \in [1..Cardinality(S) -> S] : \A c \in S : \E i \in DOMAIN s : s[i] = c}

\* PickConnection: the list is built if there is none, and used in turn.
PickConnection(t) ==
    /\ ~crashed /\ state \in {"kRunning", "kStopping"}
    /\ OfType(t) # {}
    /\ connections_for_pick_rr[t] < MaxPicks
    /\ connections_for_pick_rr' = [connections_for_pick_rr EXCEPT ![t] = @ + 1]
    /\ \/ /\ connections_for_pick[t] = NoPick
          /\ \E s \in Listings(OfType(t)) :
                connections_for_pick' = [connections_for_pick EXCEPT ![t] = s]
       \/ /\ connections_for_pick[t] # NoPick
          /\ UNCHANGED connections_for_pick
    /\ UNCHANGED <<serverVars, pipeVars, state, connections, closing,
                   connections_on_closing, writing, worker_end, stop_event, fnVars, crashed>>

\* Variants of OnConnectionClose: the list keeps the connection; the map keeps it.
OnConnectionCloseKeepsPick(c) ==
    /\ ~crashed /\ c \in closing /\ server_end = "open"
    /\ connections' = connections \ {c}
    /\ closing' = closing \ {c}
    /\ connections_on_closing' = connections_on_closing + 1
    /\ writing' = writing \cup {c}
    /\ to_server' = Append(to_server, c)
    /\ UNCHANGED <<serverVars, server_end, to_worker, state, pickVars, worker_end,
                   stop_event, fnVars, crashed>>

OnConnectionCloseKeepsEntry(c) ==
    /\ ~crashed /\ c \in closing /\ server_end = "open"
    /\ closing' = closing \ {c}
    /\ connections_on_closing' = connections_on_closing + 1
    /\ writing' = writing \cup {c}
    /\ to_server' = Append(to_server, c)
    /\ UNCHANGED <<serverVars, server_end, to_worker, state, connections, pickVars,
                   worker_end, stop_event, fnVars, crashed>>

\* OnConnectionClose, called once the handles of the connection are closed.
\* uv_write writes at once, and calls PipeWrite in a later iteration.
OnConnectionClose(c) ==
    /\ ~crashed /\ c \in closing /\ server_end = "open"
    /\ connections' = connections \ {c}
    /\ closing' = closing \ {c}
    /\ connections_for_pick' = [connections_for_pick EXCEPT ![TypeOf[c]] = NoPick]
    /\ connections_on_closing' = connections_on_closing + 1
    /\ writing' = writing \cup {c}
    /\ to_server' = Append(to_server, c)
    /\ UNCHANGED <<serverVars, server_end, to_worker, state, connections_for_pick_rr,
                   worker_end, stop_event, fnVars, crashed>>

\* The server's Stop has closed the other end of the pipe before: the write raises
\* SIGPIPE, which nothing handles.
BackTransferAfterStop(c) ==
    /\ ~crashed /\ c \in closing /\ server_end = "closed"
    /\ crashed' = TRUE
    /\ UNCHANGED <<serverVars, pipeVars, state, connVars, stop_event, fnVars>>

\* PipeWrite: the last connection to go closes the pipe of a stopping worker.
PipeWrite(c) ==
    /\ ~crashed /\ c \in writing
    /\ writing' = writing \ {c}
    /\ connections_on_closing' = connections_on_closing - 1
    /\ worker_end' = IF state = "kStopping" /\ connections = {} /\ connections_on_closing' = 0
                     THEN "closed" ELSE worker_end
    /\ UNCHANGED <<serverVars, pipeVars, state, connections, pickVars, closing, stop_event,
                   fnVars, crashed>>

\* The request of a back transfer is a member of the connection: if the server
\* has destroyed the connection already, the callback reads freed memory.
PipeWriteAfterFree(c) ==
    /\ ~crashed /\ c \in writing /\ c \notin registered
    /\ crashed' = TRUE
    /\ UNCHANGED <<serverVars, pipeVars, state, connVars, stop_event, fnVars>>

\* Variants: connections on their way back are ignored; no connection is closed.
StopIgnoresReturns ==
    /\ ~crashed /\ stop_event /\ state = "kRunning"
    /\ stop_event' = FALSE
    /\ state' = "kStopping"
    /\ worker_end' = IF connections = {} THEN "closed" ELSE worker_end
    /\ closing' = connections
    /\ UNCHANGED <<serverVars, pipeVars, connections, pickVars, connections_on_closing,
                   writing, fnVars, crashed>>

StopClosesNothing ==
    /\ ~crashed /\ stop_event /\ state = "kRunning"
    /\ stop_event' = FALSE
    /\ state' = "kStopping"
    /\ worker_end' = IF connections = {} /\ connections_on_closing = 0
                     THEN "closed" ELSE worker_end
    /\ UNCHANGED <<serverVars, pipeVars, connections, pickVars, closing,
                   connections_on_closing, writing, fnVars, crashed>>

\* Stop of the IO worker. The reads end; what is still in the pipe is lost.
Stop ==
    /\ ~crashed /\ stop_event /\ state = "kRunning"
    /\ stop_event' = FALSE
    /\ state' = "kStopping"
    /\ worker_end' = IF connections = {} /\ connections_on_closing = 0
                     THEN "closed" ELSE worker_end
    /\ closing' = connections
    /\ UNCHANGED <<serverVars, pipeVars, connections, pickVars, connections_on_closing,
                   writing, fnVars, crashed>>

\* EventLoopThreadMain: uv_run returns once every handle is closed.
LoopEnds ==
    /\ ~crashed /\ state = "kStopping"
    /\ worker_end = "closed" /\ connections = {} /\ writing = {}
    /\ state' = "kStopped"
    /\ UNCHANGED <<serverVars, pipeVars, connVars, stop_event, fnVars, crashed>>

-----------------------------------------------------------------------------
(***************************************************************************)
(* Scheduled functions. The caller holds a reference to the owner, which    *)
(* the server has not destroyed.                                           *)
(***************************************************************************)

\* ScheduleFunction on the worker's own loop runs the function at once.
ScheduleFunctionWithinLoop(f) ==
    /\ ~crashed /\ fn[f] = "new" /\ OwnerOf[f] \in registered
    /\ state \in {"kRunning", "kStopping"}
    /\ fn' = [fn EXCEPT ![f] = IF state = "kRunning" THEN "called" ELSE "ignored"]
    /\ UNCHANGED <<serverVars, pipeVars, state, connVars, stop_event, run_fn_event,
                   scheduled_functions, crashed>>

\* On another thread the state is read first, and the function enqueued later.
ScheduleFunctionLoadsState(f) ==
    /\ ~crashed /\ fn[f] = "new" /\ OwnerOf[f] \in registered
    /\ fn' = [fn EXCEPT ![f] = IF state = "kRunning" THEN "scheduling" ELSE "ignored"]
    /\ UNCHANGED <<serverVars, pipeVars, state, connVars, stop_event, run_fn_event,
                   scheduled_functions, crashed>>

ScheduleFunctionEnqueues(f) ==
    /\ ~crashed /\ fn[f] = "scheduling"
    /\ fn' = [fn EXCEPT ![f] = "queued"]
    /\ scheduled_functions' = Append(scheduled_functions, f)
    /\ run_fn_event' = TRUE
    /\ UNCHANGED <<serverVars, pipeVars, state, connVars, stop_event, crashed>>

\* Variant: one function is run per event.
RunFirstScheduledFunction ==
    /\ ~crashed /\ run_fn_event /\ state = "kRunning"
    /\ run_fn_event' = FALSE
    /\ scheduled_functions # <<>>
    /\ scheduled_functions' = Tail(scheduled_functions)
    /\ fn' = [fn EXCEPT ![Head(scheduled_functions)] = "called"]
    /\ UNCHANGED <<serverVars, pipeVars, state, connVars, stop_event, crashed>>

\* RunScheduledFunctions: the functions whose owner is connected are called.
RunScheduledFunctions ==
    /\ ~crashed /\ run_fn_event /\ state = "kRunning"
    /\ run_fn_event' = FALSE
    /\ scheduled_functions' = <<>>
    /\ fn' = [f \in Functions |->
                IF \E i \in 1..Len(scheduled_functions) : scheduled_functions[i] = f
                THEN IF OwnerOf[f] \in connections THEN "called" ELSE "dropped"
                ELSE fn[f]]
    /\ UNCHANGED <<serverVars, pipeVars, state, connVars, stop_event, crashed>>

Next ==
    \/ ReturnConnection \/ StopSendsEvent \/ StopClosesPipe
    \/ NewConnection \/ NewConnectionAtEof \/ Stop \/ LoopEnds
    \/ RunScheduledFunctions
    \/ \E t \in Types : PickConnection(t)
    \/ \E c \in Conns : \/ RegisterConnection(c) \/ ScheduleClose(c) \/ OnConnectionClose(c)
                        \/ BackTransferAfterStop(c) \/ PipeWrite(c) \/ PipeWriteAfterFree(c)
    \/ \E f \in Functions : \/ ScheduleFunctionWithinLoop(f) \/ ScheduleFunctionLoadsState(f)
                            \/ ScheduleFunctionEnqueues(f)

Spec == Init /\ [][Next]_vars

\* Event loops handle the events they have, and threads inside a call run on.
\* Clients come and go, and the server is stopped, or not.
Fairness ==
    /\ WF_vars(StopClosesPipe) /\ WF_vars(ReturnConnection)
    /\ WF_vars(NewConnection) /\ WF_vars(Stop) /\ WF_vars(LoopEnds)
    /\ WF_vars(RunScheduledFunctions)
    /\ \A c \in Conns : /\ WF_vars(OnConnectionClose(c) \/ BackTransferAfterStop(c))
                        /\ WF_vars(PipeWrite(c))
    /\ \A f \in Functions : WF_vars(ScheduleFunctionEnqueues(f))

FairSpec == Spec /\ Fairness

-----------------------------------------------------------------------------
(***************************************************************************)
(* Properties.                                                             *)
(***************************************************************************)

\* The type of the server's, the pipe's and the IO worker's state.
TypeOK ==
    /\ server_state \in {"kRunning", "stop_sent", "kStopping"}
    /\ registered \subseteq Conns /\ accepted \subseteq Conns
    /\ server_end \in {"open", "closed"} /\ worker_end \in {"open", "closed"}
    /\ to_worker \in Seq(Conns) /\ to_server \in Seq(Conns)
    /\ state \in {"kRunning", "kStopping", "kStopped"}
    /\ connections \subseteq Conns /\ closing \subseteq connections
    /\ connections_for_pick \in [Types -> Seq(Conns) \cup {NoPick}]
    /\ connections_for_pick_rr \in [Types -> 0..MaxPicks]
    /\ connections_on_closing \in Nat /\ writing \subseteq Conns
    /\ stop_event \in BOOLEAN /\ run_fn_event \in BOOLEAN
    /\ scheduled_functions \in Seq(Functions)
    /\ fn \in [Functions -> {"new", "scheduling", "queued", "called", "dropped", "ignored"}]
    /\ crashed \in BOOLEAN

Holds(pipe, c) == \E i \in 1..Len(pipe) : pipe[i] = c

\* A connection is in one place, and the server keeps it alive there: in the
\* pipe to the worker, run by the worker, or in the pipe back; none is in a pipe
\* twice (server_base.cpp:89-102, io_worker.cpp:140-163, 197-221). The server
\* therefore destroys no connection that its IO worker still runs.
ConnectionInOnePlace ==
    /\ \A c \in Conns : Holds(to_worker, c) \/ c \in connections \/ Holds(to_server, c)
            => c \in registered
    /\ \A c \in Conns : Holds(to_worker, c) => c \notin connections /\ ~Holds(to_server, c)
    /\ \A c \in connections : ~Holds(to_server, c) /\ c \notin writing
    /\ \A i, j \in 1..Len(to_worker) : i # j => to_worker[i] # to_worker[j]
    /\ \A i, j \in 1..Len(to_server) : i # j => to_server[i] # to_server[j]

\* A list that PickConnection goes through holds the connections of its type,
\* once each, however connections come and go between two picks; in particular
\* DCHECK_EQ(connections_for_pick_[type].size(), n_conn) holds
\* (io_worker.cpp:106-118, 148-150, 209-211).
PickListAgrees ==
    \A t \in Types : connections_for_pick[t] # NoPick =>
        LET list == connections_for_pick[t]
        IN  /\ Len(list) = Cardinality(OfType(t))
            /\ \A c \in OfType(t) : Holds(list, c)

\* The worker closes its pipe only when every connection it ran has been written
\* back and has had its callback (io_worker.cpp:183-190, 226-232).
PipeOutlivesConnections ==
    worker_end = "closed" =>
        connections = {} /\ writing = {} /\ connections_on_closing = 0

\* A queued function that is called finds its owner alive and run by the worker.
CalledForOwner ==
    \A f \in Functions : fn[f] = "queued" /\ fn'[f] = "called" =>
        /\ OwnerOf[f] \in registered
        /\ ~Holds(to_server, OwnerOf[f]) /\ ~Holds(to_worker, OwnerOf[f])

\* A queued function is called or dropped, unless the worker is stopped: an
\* event that is signalled while the queue is taken is not lost
\* (io_worker.cpp:133-137, 236-257). It is called only if the IO worker runs its
\* owner then ("will not run the function if it is closed", io_worker.h:43-45),
\* whether or not it did when the function was scheduled.
QueuedFunctionsHandled ==
    /\ \A f \in Functions :
          fn[f] = "queued" ~> fn[f] \in {"called", "dropped"} \/ state # "kRunning" \/ crashed
    /\ [][CalledForOwner]_vars

\* Stopping ends: once the server's Stop has begun, the IO worker closes its
\* connections and its pipe and its loop returns, so that WaitForFinish does too
\* (io_worker.cpp:176-195, 226-232, server_base.cpp:104-119); or the process ends.
\* It does so by SIGPIPE when a connection is handed back after the server's Stop
\* has closed its end of the pipe, and a worker that still runs connections when it
\* gets there comes to no other end.
StopCompletes ==
    /\ server_state # "kRunning" ~> state = "kStopped" \/ crashed
    /\ server_end = "closed" /\ connections # {} ~> crashed
=============================================================================
