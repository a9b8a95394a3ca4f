--------------------------- MODULE IOWorkerProofs ---------------------------
(***************************************************************************)
(* Proofs about IOWorker, for any connections, types and functions. The    *)
(* invariant adds to the properties what ties the counter of connections   *)
(* on their way back to the set of them, and the closed pipe to the state. *)
(***************************************************************************)
EXTENDS IOWorker, FiniteSetTheorems, TLAPS

Pipes ==
    /\ connections_on_closing = Cardinality(writing)
    /\ \A c \in Conns : c \in writing => ~Holds(to_worker, c)
    /\ registered \subseteq accepted
    /\ writing \subseteq accepted
    /\ worker_end = "closed" => state # "kRunning"

IInv ==
    /\ TypeOK
    /\ ConnectionInOnePlace
    /\ PipeOutlivesConnections
    /\ Pipes

-----------------------------------------------------------------------------
(***************************************************************************)
(* What is in a pipe after a write and after a read.                       *)
(***************************************************************************)

\* A written pointer is in the pipe, and what was there stays.
LEMMA HoldsAppend ==
    ASSUME NEW s \in Seq(Conns), NEW c \in Conns, NEW d \in Conns
    PROVE  Holds(Append(s, c), d) <=> Holds(s, d) \/ c = d
  BY DEF Holds

\* Reading takes one occurrence of the first pointer and nothing else.
LEMMA HoldsTail ==
    ASSUME NEW s \in Seq(Conns), s # <<>>, NEW d \in Conns
    PROVE  /\ Head(s) \in Conns /\ Tail(s) \in Seq(Conns)
           /\ Holds(s, Head(s))
           /\ Holds(Tail(s), d) => Holds(s, d)
           /\ Holds(s, d) => d = Head(s) \/ Holds(Tail(s), d)
  <1>1. Head(s) = s[1] /\ Len(s) \in Nat /\ Len(s) >= 1 /\ Len(Tail(s)) = Len(s) - 1
    OBVIOUS
  <1>2. \A i \in 1..Len(Tail(s)) : Tail(s)[i] = s[i + 1]
    OBVIOUS
  <1>3. \A i \in 1..Len(s) : i # 1 => i - 1 \in 1..Len(Tail(s)) /\ Tail(s)[i - 1] = s[i]
    BY <1>1, <1>2
  <1>4. Holds(Tail(s), d) => Holds(s, d)
    BY <1>1, <1>2 DEF Holds
  <1>5. Holds(s, d) => d = Head(s) \/ Holds(Tail(s), d)
    BY <1>1, <1>3 DEF Holds
  <1> QED BY <1>1, <1>4, <1>5 DEF Holds

\* No pointer is in the pipe twice.
Once(s) == \A i, j \in 1..Len(s) : i # j => s[i] # s[j]

\* Writing a pointer that is not in the pipe keeps it that way.
LEMMA OnceAppend ==
    ASSUME NEW s \in Seq(Conns), NEW c \in Conns, Once(s), ~Holds(s, c)
    PROVE  Once(Append(s, c))
  BY DEF Holds, Once

\* Reading takes the only occurrence of a pointer.
LEMMA OnceTail ==
    ASSUME NEW s \in Seq(Conns), s # <<>>, Once(s)
    PROVE  Once(Tail(s)) /\ ~Holds(Tail(s), Head(s))
  <1>1. Head(s) = s[1] /\ Len(s) \in Nat /\ Len(s) >= 1 /\ Len(Tail(s)) = Len(s) - 1
    OBVIOUS
  <1>2. \A i \in 1..Len(Tail(s)) : Tail(s)[i] = s[i + 1]
    OBVIOUS
  <1> QED BY <1>1, <1>2 DEF Holds, Once

-----------------------------------------------------------------------------
(***************************************************************************)
(* The invariant.                                                          *)
(***************************************************************************)

\* The initial state, before any connection, satisfies the invariant.
LEMMA InitIInv == Init => IInv
  <1> SUFFICES ASSUME Init PROVE IInv
    OBVIOUS
  <1>1. Cardinality({}) = 0
    BY FS_EmptySet
  <1>2. TypeOK
    <2>1. connections_for_pick \in [Types -> Seq(Conns) \cup {NoPick}]
      BY DEF Init
    <2>2. connections_for_pick_rr \in [Types -> 0..MaxPicks]
      BY PickAssumption DEF Init
    <2>3. to_worker \in Seq(Conns) /\ to_server \in Seq(Conns)
      BY DEF Init
    <2>4. scheduled_functions \in Seq(Functions)
      BY DEF Init
    <2>5. fn \in [Functions -> {"new", "scheduling", "queued", "called", "dropped", "ignored"}]
      BY DEF Init
    <2>6. /\ server_state \in {"kRunning", "stop_sent", "kStopping"}
          /\ state \in {"kRunning", "kStopping", "kStopped"}
          /\ server_end \in {"open", "closed"} /\ worker_end \in {"open", "closed"}
          /\ registered \subseteq Conns /\ accepted \subseteq Conns /\ writing \subseteq Conns
          /\ connections \subseteq Conns /\ closing \subseteq connections
          /\ connections_on_closing \in Nat
      BY DEF Init
    <2>7. stop_event \in BOOLEAN /\ run_fn_event \in BOOLEAN /\ crashed \in BOOLEAN
      BY DEF Init
    <2> QED BY <2>1, <2>2, <2>3, <2>4, <2>5, <2>6, <2>7 DEF TypeOK
  <1>3. ConnectionInOnePlace
    BY DEF Init, ConnectionInOnePlace, Holds
  <1>4. PipeOutlivesConnections
    BY DEF Init, PipeOutlivesConnections
  <1>5. Pipes
    BY <1>1 DEF Init, Pipes, Holds
  <1> QED BY <1>2, <1>3, <1>4, <1>5 DEF IInv

\* The sets of connections are finite.
LEMMA Finite ==
    ASSUME TypeOK
    PROVE  /\ IsFiniteSet(writing) /\ IsFiniteSet(connections)
           /\ Cardinality(writing) \in Nat
  BY FiniteAssumption, FS_Subset, FS_CardinalityType DEF TypeOK

\* RegisterConnection puts a connection that never was anywhere into the pipe.
LEMMA RegisterConnectionIInv ==
    ASSUME IInv, NEW c \in Conns, RegisterConnection(c)
    PROVE  IInv'
  <1> USE DEF IInv
  <1>1. /\ to_worker \in Seq(Conns) /\ to_worker' = Append(to_worker, c)
        /\ registered' = registered \cup {c} /\ accepted' = accepted \cup {c}
        /\ UNCHANGED <<to_server, connections, writing, connections_on_closing, state,
                       worker_end>>
    BY DEF RegisterConnection, TypeOK, connVars
  <1>2. c \notin registered /\ c \notin writing
    BY DEF RegisterConnection, Pipes
  <1>3. \A d \in Conns : Holds(to_worker', d) <=> Holds(to_worker, d) \/ c = d
    BY <1>1, HoldsAppend
  <1>4. ~Holds(to_worker, c) /\ c \notin connections /\ ~Holds(to_server, c)
    BY <1>2 DEF ConnectionInOnePlace
  <1>5. Once(to_worker')
    BY <1>1, <1>4, OnceAppend DEF ConnectionInOnePlace, Once
  <1>6. TypeOK'
    BY <1>1 DEF RegisterConnection, TypeOK, connVars, pickVars, fnVars
  <1>7. ConnectionInOnePlace'
    BY <1>1, <1>3, <1>4, <1>5 DEF ConnectionInOnePlace, Once, Holds
  <1>8. PipeOutlivesConnections'
    BY <1>1 DEF PipeOutlivesConnections
  <1>9. Pipes'
    BY <1>1, <1>2, <1>3 DEF Pipes
  <1> QED BY <1>6, <1>7, <1>8, <1>9

\* ReturnConnection forgets a connection that is nowhere else.
LEMMA ReturnConnectionIInv ==
    ASSUME IInv, ReturnConnection
    PROVE  IInv'
  <1> USE DEF IInv
  <1> DEFINE c == Head(to_server)
  <1>1. /\ to_server \in Seq(Conns) /\ to_server # <<>> /\ to_server' = Tail(to_server)
        /\ registered' = registered \ {c}
        /\ UNCHANGED <<to_worker, accepted, connections, writing, connections_on_closing,
                       state, worker_end>>
    BY DEF ReturnConnection, TypeOK, connVars
  <1>2. c \in Conns /\ to_server' \in Seq(Conns) /\ Holds(to_server, c)
    BY <1>1, HoldsTail
  <1>3. \A d \in Conns : Holds(to_server', d) => Holds(to_server, d)
    BY <1>1, HoldsTail
  <1>4. Once(to_server') /\ ~Holds(to_server', c)
    BY <1>1, OnceTail DEF ConnectionInOnePlace, Once
  <1>5. ~Holds(to_worker, c) /\ c \notin connections
    BY <1>2 DEF ConnectionInOnePlace
  <1>6. TypeOK'
    BY <1>1, <1>2 DEF ReturnConnection, TypeOK, connVars, pickVars, fnVars
  <1>7. ConnectionInOnePlace'
    BY <1>1, <1>2, <1>3, <1>4, <1>5, <1>6 DEF ConnectionInOnePlace, Once, Holds, TypeOK
  <1>8. PipeOutlivesConnections'
    BY <1>1 DEF PipeOutlivesConnections
  <1>9. Pipes'
    BY <1>1 DEF Pipes, Holds
  <1> QED BY <1>6, <1>7, <1>8, <1>9

\* NewConnection moves a connection from the pipe to the worker.
LEMMA NewConnectionIInv ==
    ASSUME IInv, NewConnection
    PROVE  IInv'
  <1> USE DEF IInv
  <1> DEFINE c == Head(to_worker)
  <1>1. /\ to_worker \in Seq(Conns) /\ to_worker # <<>> /\ to_worker' = Tail(to_worker)
        /\ connections' = connections \cup {c}
        /\ state = "kRunning"
        /\ UNCHANGED <<to_server, registered, accepted, writing, connections_on_closing,
                       state, worker_end, closing>>
    BY DEF NewConnection, TypeOK, serverVars
  <1>2. c \in Conns /\ to_worker' \in Seq(Conns) /\ Holds(to_worker, c)
    BY <1>1, HoldsTail
  <1>3. \A d \in Conns : Holds(to_worker', d) => Holds(to_worker, d)
    BY <1>1, HoldsTail
  <1>4. Once(to_worker') /\ ~Holds(to_worker', c)
    BY <1>1, OnceTail DEF ConnectionInOnePlace, Once
  <1>5. c \in registered /\ ~Holds(to_server, c) /\ c \notin writing
    BY <1>2 DEF ConnectionInOnePlace, Pipes
  <1>6. TypeOK'
    <2>1. connections_for_pick' \in [Types -> Seq(Conns) \cup {NoPick}]
      <3>1. TypeOf[c] \in Types
        BY <1>2, TypeAssumption
      <3>2. CASE connections_for_pick[TypeOf[c]] = NoPick
        BY <3>2 DEF NewConnection, TypeOK
      <3>3. CASE connections_for_pick[TypeOf[c]] # NoPick
        <4>1. connections_for_pick[TypeOf[c]] \in Seq(Conns)
          BY <3>1, <3>3 DEF TypeOK
        <4>2. Append(connections_for_pick[TypeOf[c]], c) \in Seq(Conns)
          BY <4>1, <1>2
        <4> QED BY <3>1, <3>3, <4>2 DEF NewConnection, TypeOK
      <3> QED BY <3>2, <3>3
    <2> QED BY <1>1, <1>2, <2>1 DEF NewConnection, TypeOK, serverVars, fnVars
  <1>7. ConnectionInOnePlace'
    BY <1>1, <1>2, <1>3, <1>4, <1>5 DEF ConnectionInOnePlace, Once, Holds
  <1>8. PipeOutlivesConnections'
    BY <1>1 DEF PipeOutlivesConnections, Pipes
  <1>9. Pipes'
    BY <1>1, <1>3 DEF Pipes
  <1> QED BY <1>6, <1>7, <1>8, <1>9

\* OnConnectionClose moves a connection from the worker to the pipe back.
LEMMA OnConnectionCloseIInv ==
    ASSUME IInv, NEW c \in Conns, OnConnectionClose(c)
    PROVE  IInv'
  <1> USE DEF IInv
  <1>1. /\ c \in connections
        /\ to_server \in Seq(Conns)
        /\ to_server' = Append(to_server, c)
        /\ connections' = connections \ {c} /\ closing' = closing \ {c}
        /\ writing' = writing \cup {c}
        /\ connections_on_closing' = connections_on_closing + 1
        /\ UNCHANGED <<to_worker, registered, accepted, state, worker_end>>
    BY DEF OnConnectionClose, TypeOK, serverVars
  <1>2. c \in registered /\ ~Holds(to_server, c) /\ c \notin writing /\ ~Holds(to_worker, c)
    BY <1>1 DEF ConnectionInOnePlace
  <1>3. \A d \in Conns : Holds(to_server', d) => Holds(to_server, d) \/ c = d
    BY <1>1, HoldsAppend
  <1>4. Once(to_server')
    BY <1>1, <1>2, OnceAppend DEF ConnectionInOnePlace, Once
  <1>5. Cardinality(writing') = Cardinality(writing) + 1
    BY <1>1, <1>2, Finite, FS_AddElement
  <1>6. TypeOK'
    <2>1. to_server' \in Seq(Conns)
      BY <1>1
    <2>2. connections_for_pick' \in [Types -> Seq(Conns) \cup {NoPick}]
      BY TypeAssumption DEF OnConnectionClose, TypeOK
    <2> QED BY <1>1, <2>1, <2>2 DEF OnConnectionClose, TypeOK, serverVars, fnVars
  <1>7. ConnectionInOnePlace'
    <2>1. \A d \in Conns : Holds(to_worker', d) <=> Holds(to_worker, d)
      BY <1>1 DEF Holds
    <2> QED BY <1>1, <1>2, <1>3, <1>4, <2>1 DEF ConnectionInOnePlace, Once, TypeOK
  <1>8. PipeOutlivesConnections'
    BY <1>1 DEF PipeOutlivesConnections
  <1>9. Pipes'
    BY <1>1, <1>2, <1>5 DEF Pipes, Holds, ConnectionInOnePlace, TypeOK
  <1> QED BY <1>6, <1>7, <1>8, <1>9

\* PipeWrite: the count of connections on their way back is that of the set.
LEMMA PipeWriteIInv ==
    ASSUME IInv, NEW c \in Conns, PipeWrite(c)
    PROVE  IInv'
  <1> USE DEF IInv
  <1>1. /\ c \in writing /\ writing' = writing \ {c}
        /\ connections_on_closing' = connections_on_closing - 1
        /\ worker_end' = IF state = "kStopping" /\ connections = {}
                            /\ connections_on_closing' = 0 THEN "closed" ELSE worker_end
        /\ UNCHANGED <<to_worker, to_server, registered, accepted, state, connections>>
    BY DEF PipeWrite, serverVars, pipeVars
  <1>2. /\ Cardinality(writing') = Cardinality(writing) - 1
        /\ Cardinality(writing') \in Nat /\ IsFiniteSet(writing')
    BY <1>1, Finite, FS_RemoveElement, FS_CardinalityType
  <1>3. connections_on_closing' = Cardinality(writing')
    BY <1>1, <1>2 DEF Pipes
  <1>4. connections_on_closing' = 0 => writing' = {}
    BY <1>2, <1>3, FS_EmptySet
  <1>5. TypeOK'
    BY <1>1, <1>2, <1>3 DEF PipeWrite, TypeOK, serverVars, pipeVars, pickVars, fnVars
  <1>6. ConnectionInOnePlace'
    BY <1>1 DEF ConnectionInOnePlace, Holds
  <1>7. PipeOutlivesConnections'
    BY <1>1, <1>4 DEF PipeOutlivesConnections
  <1>8. Pipes'
    BY <1>1, <1>3 DEF Pipes, Holds
  <1> QED BY <1>5, <1>6, <1>7, <1>8

\* Stop closes the pipe only if nothing is open or on its way back.
LEMMA StopIInv ==
    ASSUME IInv, Stop
    PROVE  IInv'
  <1> USE DEF IInv
  <1>1. connections_on_closing = 0 => writing = {}
    BY Finite, FS_EmptySet DEF Pipes
  <1>2. TypeOK'
    BY DEF Stop, TypeOK, serverVars, pipeVars, pickVars, fnVars
  <1>3. ConnectionInOnePlace'
    BY DEF Stop, ConnectionInOnePlace, Holds, serverVars, pipeVars
  <1>4. PipeOutlivesConnections'
    BY <1>1 DEF Stop, PipeOutlivesConnections
  <1>5. Pipes'
    BY DEF Stop, Pipes, Holds, serverVars, pipeVars
  <1> QED BY <1>2, <1>3, <1>4, <1>5

\* Stop of the server closes its end of the pipe and loses what is in it.
LEMMA StopClosesPipeIInv ==
    ASSUME IInv, StopClosesPipe
    PROVE  IInv'
  <1> USE DEF IInv
  <1>1. TypeOK'
    BY DEF StopClosesPipe, TypeOK, connVars, pickVars, fnVars
  <1>2. ConnectionInOnePlace'
    BY DEF StopClosesPipe, ConnectionInOnePlace, Holds, connVars
  <1>3. PipeOutlivesConnections'
    BY DEF StopClosesPipe, PipeOutlivesConnections, connVars
  <1>4. Pipes'
    BY DEF StopClosesPipe, Pipes, Holds, connVars
  <1> QED BY <1>1, <1>2, <1>3, <1>4

\* The other steps move no connection.
LEMMA OtherStepsIInv ==
    ASSUME IInv, TypeOK', worker_end' = worker_end,
           UNCHANGED <<to_worker, to_server, registered, accepted, connections, writing,
                       connections_on_closing>>,
           state' = "kRunning" => state = "kRunning"
    PROVE  IInv'
  BY DEF IInv, ConnectionInOnePlace, PipeOutlivesConnections, Pipes, Holds

\* PickConnection lists connections.
LEMMA PickConnectionType ==
    ASSUME TypeOK, NEW t \in Types, PickConnection(t)
    PROVE  TypeOK'
  <1>1. connections_for_pick' \in [Types -> Seq(Conns) \cup {NoPick}]
    <2>1. ASSUME NEW s \in Listings(OfType(t)) PROVE s \in Seq(Conns)
      <3>1. IsFiniteSet(OfType(t)) /\ OfType(t) \subseteq Conns
        BY Finite, FS_Subset DEF OfType, TypeOK
      <3>2. Cardinality(OfType(t)) \in Nat
        BY <3>1, FS_CardinalityType
      <3> QED BY <3>1, <3>2 DEF Listings
    <2> QED BY <2>1 DEF PickConnection, TypeOK
  <1>2. connections_for_pick_rr' \in [Types -> 0..MaxPicks]
    BY PickAssumption DEF PickConnection, TypeOK
  <1> QED BY <1>1, <1>2 DEF PickConnection, TypeOK, serverVars, pipeVars, fnVars

\* Every step of the server, the IO worker and the scheduling threads preserves
\* the invariant.
LEMMA NextIInv == IInv /\ [Next]_vars => IInv'
  <1> SUFFICES ASSUME IInv, [Next]_vars PROVE IInv'
    OBVIOUS
  <1> USE DEF serverVars, pipeVars, connVars, pickVars, fnVars
  <1>0. TypeOK
    BY DEF IInv
  <1>1. CASE ReturnConnection
    BY <1>1, ReturnConnectionIInv
  <1>2. CASE StopSendsEvent
    BY <1>0, <1>2, OtherStepsIInv DEF StopSendsEvent, TypeOK
  <1>3. CASE StopClosesPipe
    BY <1>3, StopClosesPipeIInv
  <1>4. CASE NewConnection
    BY <1>4, NewConnectionIInv
  <1>5. CASE NewConnectionAtEof
    BY <1>0, <1>5, OtherStepsIInv DEF NewConnectionAtEof, TypeOK
  <1>6. CASE Stop
    BY <1>6, StopIInv
  <1>7. CASE LoopEnds
    BY <1>0, <1>7, OtherStepsIInv DEF LoopEnds, TypeOK
  <1>8. CASE RunScheduledFunctions
    <2>1. fn' \in [Functions -> {"new", "scheduling", "queued", "called", "dropped", "ignored"}]
      BY <1>0, <1>8 DEF RunScheduledFunctions, TypeOK
    <2>2. /\ server_state' = server_state /\ registered' = registered /\ accepted' = accepted
          /\ server_end' = server_end /\ to_worker' = to_worker /\ to_server' = to_server
          /\ state' = state /\ connections' = connections /\ closing' = closing
          /\ connections_for_pick' = connections_for_pick
          /\ connections_for_pick_rr' = connections_for_pick_rr
          /\ connections_on_closing' = connections_on_closing /\ writing' = writing
          /\ worker_end' = worker_end /\ stop_event' = stop_event /\ crashed' = crashed
      BY <1>8 DEF RunScheduledFunctions
    <2>3. run_fn_event' = FALSE /\ scheduled_functions' = <<>>
      BY <1>8 DEF RunScheduledFunctions
    <2>4. run_fn_event' \in BOOLEAN
      BY <2>3
    <2>5. scheduled_functions' \in Seq(Functions)
      BY <2>3
    <2>6. TypeOK'
      BY <1>0, <2>1, <2>2, <2>4, <2>5, Zenon DEF TypeOK
    <2> QED BY <2>2, <2>6, OtherStepsIInv
  <1>9. ASSUME NEW t \in Types, PickConnection(t) PROVE IInv'
    <2>1. TypeOK'
      BY <1>0, <1>9, PickConnectionType
    <2> QED BY <1>9, <2>1, OtherStepsIInv DEF PickConnection
  <1>10. ASSUME NEW c \in Conns, RegisterConnection(c) PROVE IInv'
    BY <1>10, RegisterConnectionIInv
  <1>11. ASSUME NEW c \in Conns, ScheduleClose(c) PROVE IInv'
    BY <1>0, <1>11, OtherStepsIInv DEF ScheduleClose, TypeOK
  <1>12. ASSUME NEW c \in Conns, OnConnectionClose(c) PROVE IInv'
    BY <1>12, OnConnectionCloseIInv
  <1>13. ASSUME NEW c \in Conns, PipeWrite(c) PROVE IInv'
    BY <1>13, PipeWriteIInv
  <1>14. ASSUME NEW c \in Conns, PipeWriteAfterFree(c) PROVE IInv'
    BY <1>0, <1>14, OtherStepsIInv DEF PipeWriteAfterFree, TypeOK
  <1>15. ASSUME NEW f \in Functions, ScheduleFunctionWithinLoop(f) PROVE IInv'
    BY <1>0, <1>15, OtherStepsIInv DEF ScheduleFunctionWithinLoop, TypeOK
  <1>16. ASSUME NEW f \in Functions, ScheduleFunctionLoadsState(f) PROVE IInv'
    BY <1>0, <1>16, OtherStepsIInv DEF ScheduleFunctionLoadsState, TypeOK
  <1>17. ASSUME NEW f \in Functions, ScheduleFunctionEnqueues(f) PROVE IInv'
    BY <1>0, <1>17, OtherStepsIInv DEF ScheduleFunctionEnqueues, TypeOK
  <1>18. ASSUME NEW c \in Conns, BackTransferAfterStop(c) PROVE IInv'
    BY <1>0, <1>18, OtherStepsIInv DEF BackTransferAfterStop, TypeOK
  <1>19. CASE UNCHANGED vars
    BY <1>0, <1>19, OtherStepsIInv DEF vars, TypeOK
  <1> QED
    BY <1>1, <1>2, <1>3, <1>4, <1>5, <1>6, <1>7, <1>8, <1>9, <1>10, <1>11, <1>12, <1>13,
       <1>14, <1>15, <1>16, <1>17, <1>18, <1>19 DEF Next

\* The invariant holds in every reachable state.
THEOREM IOWorkerInvariant == Spec => []IInv
  BY InitIInv, NextIInv, PTL DEF Spec

\* The state of the server, the pipe and the IO worker keeps its type, for any
\* connections, functions and bound on the picks.
THEOREM TypeCorrect == Spec => []TypeOK
  <1>1. IInv => TypeOK
    BY DEF IInv
  <1> QED BY <1>1, IOWorkerInvariant, PTL

\* A connection is in one place and alive there (RegisterConnection, NewConnection,
\* OnConnectionClose, ReturnConnection).
THEOREM OneOwner == Spec => []ConnectionInOnePlace
  <1>1. IInv => ConnectionInOnePlace
    BY DEF IInv
  <1> QED BY <1>1, IOWorkerInvariant, PTL

\* The pipe to the server is closed after the last connection is back (Stop,
\* PipeWrite).
THEOREM PipeClosedLast == Spec => []PipeOutlivesConnections
  <1>1. IInv => PipeOutlivesConnections
    BY DEF IInv
  <1> QED BY <1>1, IOWorkerInvariant, PTL

\* RunScheduledFunctions calls no function whose owner is on its way to or from
\* the worker, or destroyed.
THEOREM FunctionsFindTheirOwner == Spec => [][CalledForOwner]_vars
  <1>1. IInv /\ [Next]_vars => [CalledForOwner]_vars
    <2> SUFFICES ASSUME IInv, Next PROVE CalledForOwner
      BY DEF CalledForOwner
    <2> SUFFICES ASSUME NEW f \in Functions, fn[f] = "queued", fn'[f] = "called"
                 PROVE  /\ OwnerOf[f] \in registered
                        /\ ~Holds(to_server, OwnerOf[f]) /\ ~Holds(to_worker, OwnerOf[f])
      BY DEF CalledForOwner
    <2>1. fn \in [Functions -> {"new", "scheduling", "queued", "called", "dropped", "ignored"}]
      BY DEF IInv, TypeOK
    <2>2. fn' # fn
      BY <2>1
    <2>3. ASSUME NEW g \in Functions,
                 \/ ScheduleFunctionWithinLoop(g) \/ ScheduleFunctionLoadsState(g)
                 \/ ScheduleFunctionEnqueues(g)
          PROVE  FALSE
      BY <2>1, <2>3 DEF ScheduleFunctionWithinLoop, ScheduleFunctionLoadsState,
                        ScheduleFunctionEnqueues
    <2>4. RunScheduledFunctions
      BY <2>2, <2>3 DEF Next, ReturnConnection, StopSendsEvent, StopClosesPipe, NewConnection,
         NewConnectionAtEof, Stop, LoopEnds, PickConnection, RegisterConnection, ScheduleClose,
         OnConnectionClose, BackTransferAfterStop, PipeWrite, PipeWriteAfterFree, fnVars
    <2>5. OwnerOf[f] \in connections
      BY <2>1, <2>4 DEF RunScheduledFunctions
    <2> QED BY <2>5 DEF IInv, ConnectionInOnePlace, TypeOK
  <1> QED BY <1>1, IOWorkerInvariant, PTL DEF Spec

-----------------------------------------------------------------------------
(***************************************************************************)
(* The lists that PickConnection goes through.                             *)
(***************************************************************************)

\* A list of the connections of a type agrees with the set of them.
ListOf(list, S) == Len(list) = Cardinality(S) /\ \A c \in S : Holds(list, c)

\* NewConnection appends the connection to the list of its type, if there is one.
LEMMA NewConnectionPick ==
    ASSUME IInv, PickListAgrees, NewConnection
    PROVE  PickListAgrees'
  <1> DEFINE c == Head(to_worker)
  <1>1. /\ to_worker \in Seq(Conns) /\ to_worker # <<>> /\ connections \subseteq Conns
        /\ connections_for_pick \in [Types -> Seq(Conns) \cup {NoPick}]
    BY DEF NewConnection, IInv, TypeOK
  <1>2. c \in Conns /\ c \notin connections /\ TypeOf[c] \in Types
    <2>1. c \in Conns /\ Holds(to_worker, c)
      BY <1>1, HoldsTail
    <2> QED BY <2>1, TypeAssumption DEF IInv, ConnectionInOnePlace
  <1>3. /\ connections' = connections \cup {c}
        /\ connections_for_pick' =
             IF connections_for_pick[TypeOf[c]] = NoPick THEN connections_for_pick
             ELSE [connections_for_pick EXCEPT ![TypeOf[c]] = Append(@, c)]
    BY DEF NewConnection
  <1> SUFFICES ASSUME NEW t \in Types, connections_for_pick'[t] # NoPick
               PROVE  ListOf(connections_for_pick'[t], OfType(t)')
    BY DEF PickListAgrees, ListOf, Holds
  <1>4. CASE t # TypeOf[c]
    <2>1. connections_for_pick'[t] = connections_for_pick[t] /\ OfType(t)' = OfType(t)
      BY <1>1, <1>2, <1>3, <1>4 DEF OfType
    <2> QED BY <2>1 DEF PickListAgrees, ListOf
  <1>5. CASE t = TypeOf[c]
    <2> DEFINE list == connections_for_pick[t]
    <2>1. list # NoPick /\ list \in Seq(Conns) /\ connections_for_pick'[t] = Append(list, c)
      BY <1>1, <1>2, <1>3, <1>5
    <2>2. OfType(t)' = OfType(t) \cup {c} /\ c \notin OfType(t) /\ OfType(t) \subseteq Conns
      BY <1>1, <1>2, <1>3, <1>5 DEF OfType
    <2>3. IsFiniteSet(OfType(t))
      BY <2>2, FiniteAssumption, FS_Subset
    <2>4. Cardinality(OfType(t)') = Cardinality(OfType(t)) + 1
      BY <2>2, <2>3, FS_AddElement
    <2>5. Len(list) = Cardinality(OfType(t)) /\ \A d \in OfType(t) : Holds(list, d)
      BY <2>1 DEF PickListAgrees
    <2>6. Len(Append(list, c)) = Cardinality(OfType(t)')
      BY <2>1, <2>4, <2>5
    <2>7. \A d \in OfType(t)' : Holds(Append(list, c), d)
      BY <1>2, <2>1, <2>2, <2>5, HoldsAppend
    <2> QED BY <2>1, <2>6, <2>7 DEF ListOf
  <1> QED BY <1>4, <1>5

\* PickConnection builds a list of all connections of the type.
LEMMA PickConnectionPick ==
    ASSUME IInv, PickListAgrees, NEW u \in Types, PickConnection(u)
    PROVE  PickListAgrees'
  <1>1. /\ connections' = connections /\ connections \subseteq Conns
        /\ connections_for_pick \in [Types -> Seq(Conns) \cup {NoPick}]
    BY DEF PickConnection, IInv, TypeOK
  <1>2. \A t \in Types : OfType(t)' = OfType(t)
    BY <1>1 DEF OfType
  <1>3. CASE UNCHANGED connections_for_pick
    BY <1>2, <1>3 DEF PickListAgrees
  <1>4. ASSUME NEW s \in Listings(OfType(u)),
               connections_for_pick' = [connections_for_pick EXCEPT ![u] = s]
        PROVE  PickListAgrees'
    <2>1. IsFiniteSet(OfType(u)) /\ Cardinality(OfType(u)) \in Nat
      <3>1. OfType(u) \subseteq Conns
        BY <1>1 DEF OfType
      <3>2. IsFiniteSet(OfType(u))
        BY <3>1, FiniteAssumption, FS_Subset
      <3> QED BY <3>2, FS_CardinalityType
    <2>2. Len(s) = Cardinality(OfType(u)) /\ DOMAIN s = 1..Len(s)
      BY <2>1 DEF Listings
    <2>3. \A c \in OfType(u) : Holds(s, c)
      BY <2>2 DEF Listings, Holds
    <2>4. \A t \in Types : connections_for_pick'[t] =
                              IF t = u THEN s ELSE connections_for_pick[t]
      BY <1>1, <1>4
    <2> SUFFICES ASSUME NEW t \in Types, connections_for_pick'[t] # NoPick
                 PROVE  ListOf(connections_for_pick'[t], OfType(t)')
      BY DEF PickListAgrees, ListOf, Holds
    <2>5. CASE t = u
      BY <1>2, <2>2, <2>3, <2>4, <2>5 DEF ListOf
    <2>6. CASE t # u
      BY <1>2, <2>4, <2>6 DEF ListOf, PickListAgrees
    <2> QED BY <2>5, <2>6
  <1> QED BY <1>3, <1>4 DEF PickConnection

\* OnConnectionClose drops the list of the connection's type.
LEMMA OnConnectionClosePick ==
    ASSUME IInv, PickListAgrees, NEW c \in Conns, OnConnectionClose(c)
    PROVE  PickListAgrees'
  <1>1. /\ connections' = connections \ {c}
        /\ connections_for_pick' = [connections_for_pick EXCEPT ![TypeOf[c]] = NoPick]
        /\ connections_for_pick \in [Types -> Seq(Conns) \cup {NoPick}]
    BY DEF OnConnectionClose, IInv, TypeOK
  <1> SUFFICES ASSUME NEW t \in Types, connections_for_pick'[t] # NoPick
               PROVE  ListOf(connections_for_pick'[t], OfType(t)')
    BY DEF PickListAgrees, ListOf, Holds
  <1>2. t # TypeOf[c] /\ connections_for_pick'[t] = connections_for_pick[t]
    BY <1>1
  <1>3. OfType(t)' = OfType(t)
    BY <1>1, <1>2 DEF OfType
  <1> QED BY <1>2, <1>3 DEF PickListAgrees, ListOf

\* PickConnection goes through the connections of its type, once each, for any
\* connections and types (io_worker.cpp:106-118, 148-150, 209-211).
THEOREM PicksAmongAll == Spec => []PickListAgrees
  <1>1. Init => PickListAgrees
    BY DEF Init, PickListAgrees
  <1>2. IInv /\ PickListAgrees /\ [Next]_vars => PickListAgrees'
    <2> SUFFICES ASSUME IInv, PickListAgrees, [Next]_vars PROVE PickListAgrees'
      OBVIOUS
    <2>1. ASSUME UNCHANGED <<connections, connections_for_pick>> PROVE PickListAgrees'
      BY <2>1 DEF PickListAgrees, OfType
    <2>2. CASE NewConnection
      BY <2>2, NewConnectionPick
    <2>3. ASSUME NEW t \in Types, PickConnection(t) PROVE PickListAgrees'
      BY <2>3, PickConnectionPick
    <2>4. ASSUME NEW c \in Conns, OnConnectionClose(c) PROVE PickListAgrees'
      BY <2>4, OnConnectionClosePick
    <2>5. CASE UNCHANGED vars
      BY <2>1, <2>5 DEF vars, connVars, pickVars
    <2> QED
      BY <2>1, <2>2, <2>3, <2>4, <2>5 DEF Next, ReturnConnection, StopSendsEvent,
         StopClosesPipe, NewConnectionAtEof, Stop, LoopEnds, RunScheduledFunctions,
         RegisterConnection, ScheduleClose, BackTransferAfterStop, PipeWrite,
         PipeWriteAfterFree,
         ScheduleFunctionWithinLoop, ScheduleFunctionLoadsState, ScheduleFunctionEnqueues,
         connVars, pickVars
  <1> QED BY <1>1, <1>2, IOWorkerInvariant, PTL DEF Spec
=============================================================================
