-------------------------- MODULE FuncCallsEngine ---------------------------
(***************************************************************************)
(* The steps of the engine that take a call, dispatch one or answer one    *)
(* preserve the inductive invariant of FuncCallsLemmas.                    *)
(***************************************************************************)
EXTENDS FuncCallsLemmas

-----------------------------------------------------------------------------
(***************************************************************************)
(* Steps of the engine that take and dispatch calls.                       *)
(***************************************************************************)

\* A call that has not started: what is right of it when it is dispatched or
\* discarded.
LEMMA TakenCallOK ==
    ASSUME IInv, NEW c \in Calls, NotStarted(c), Awaited(c)',
           UNCHANGED <<use_fifo_for_nested_call, waiting, held, output_fifo>>,
           outcome'[c] = outcome[c], result'[c] = "open" \/ result'[c] = result[c],
           OutputThere(c)' => OutputThere(c), Owned(c)', Discarded(c)' => NotRunning(c)'
    PROVE  CallOK(c)'
  <1>1. CallOK(c) /\ outcome[c] = "none" /\ ~Discarded(c)
    BY Zenon DEF IInv, CallInv, NotStarted
  <1>2. result[c] \notin {"ok", "failed"} /\ ~OutputThere(c)
    BY <1>1, Zenon DEF CallOK, Failures
  <1>3. c \in NestedCalls => output_fifo[c] \notin Readable /\ c \notin held[Caller[c]]
    BY <1>1, <1>2, Zenon DEF CallOK, FifoOK, Readable
  <1>4. c \in NestedCalls => FifoOK(c)'
    BY <1>1, <1>3, Zenon DEF CallOK, FifoOK, Readable
  <1>5. result'[c] # "unused"
    BY Zenon DEF Awaited
  <1> QED BY <1>1, <1>2, <1>3, <1>4, <1>5, Zenon DEF CallOK

\* OnNewFuncCall for a new call.
LEMMA NewCallStep ==
    ASSUME IInv, NEW m \in Messages, m.type = "dispatch", OnNewFuncCall(m), NEW c, c = m.call,
           UNCHANGED <<flagVars, gateway_up, func_workers, discarding, connVars, workerVars, output_fifo,
                       outcome>>,
           inflight_external_requests' \in Int, CallTypes',
           NotStarted(c), NotQueued(c), Awaited(c)', m.shm => InputThere(c)',
           \A d \in Calls : d # c => /\ result'[d] = result[d]
                                     /\ <<"input", d>> \in shm' <=> <<"input", d>> \in shm
                                     /\ <<"output", d>> \in shm' <=> <<"output", d>> \in shm,
           result'[c] = "open" \/ result'[c] = result[c], OutputThere(c)' => OutputThere(c), Owned(c)',
           up' \in [Workers -> Seq(Messages)],
           \A v \in Workers : /\ DistinctCalls(up'[v]) /\ Up(v)' \subseteq Up(v)
                              /\ \A n \in Up(v)' : n.call # c
    PROVE  IInv'
  <1>1. UNCHANGED <<use_fifo_for_nested_call, direct_write, lib, conn, handshake_done, proc, current,
                    waiting, held, writing>>
    BY Zenon DEF flagVars, connVars, workerVars
  <1>2. c \in Calls /\ c # NoCall /\ Callee[c] \in Funcs
    BY FuncAssumption, CallAssumption, Zenon DEF Messages
  <1>3. /\ outcome[c] = "none" /\ ~Discarded(c) /\ NotRunning(c)
        /\ \A v \in Workers : \A n \in Down(v) : n.call # c
        /\ \A v \in Workers : current[v] # c
    BY <1>2, NotOnTheWay, Zenon DEF NotStarted
  <1>4. \A v \in Workers : Unconcerned(v, c)
    BY <1>3, Zenon DEF Unconcerned
  <1>5. EngineTypes /\ ConnTypes /\ MessageTypes /\ WorkerTypes
    BY Zenon DEF IInv, TypeOK
  <1>6. ConnTypes' /\ WorkerTypes'
    BY <1>1, <1>5, Zenon DEF ConnTypes, WorkerTypes
  <1>7. \A d \in Calls : Discarded(d)' <=> Discarded(d)
    BY Zenon DEF Discarded
  <1>8. CallOK(c)'
    BY <1>1, <1>2, <1>3, <1>7, TakenCallOK, Zenon
  <1>9. ASSUME \A d \in Calls : d # c /\ NotRunning(d) => NotRunning(d)'
        PROVE  \A d \in Calls : d # c => Kept(d) /\ CallOK(d)'
    <2>1. \A d \in Calls : d # c => Same(d)
      BY <1>1, <1>7, <1>9, Zenon DEF Same
    <2> QED BY <1>1, <2>1, CallsSame, Zenon
  <1>10. (\A v \in Workers : ConnOK(v) /\ LocalOK(v) /\ CurrentOK(v)) /\ MessagesDistinct
    BY Zenon DEF IInv, WorkerInv
  <1> DEFINE C == {c}
             f == Callee[c]
  <1>11. CASE /\ pending_func_calls' = [pending_func_calls EXCEPT ![f] = Append(@, m)]
              /\ UNCHANGED <<running_workers, down, engine_up>>
    <2>1. pending_func_calls \in [Funcs -> Seq(Messages)] /\ DistinctCalls(pending_func_calls[f])
      BY <1>2, <1>5, <1>10, Zenon DEF MessageTypes, MessagesDistinct
    <2>2. \A n \in Queue(f) : n.call # m.call
      BY <1>2, Zenon DEF NotQueued
    <2>3. /\ Append(pending_func_calls[f], m) \in Seq(Messages)
          /\ Range(Append(pending_func_calls[f], m)) = Queue(f) \cup {m}
          /\ DistinctCalls(Append(pending_func_calls[f], m))
      BY <1>2, <2>1, <2>2, Appended, Zenon DEF Queue
    <2> HIDE DEF f
    <2>4. /\ pending_func_calls' \in [Funcs -> Seq(Messages)]
          /\ Queue(f)' = Queue(f) \cup {m}
          /\ \A h \in Funcs : DistinctCalls(pending_func_calls'[h]) /\ (h # f => Queue(h)' = Queue(h))
      BY <1>2, <1>10, <1>11, <2>1, <2>3, Zenon DEF Queue, MessagesDistinct, f
    <2>5. EngineTypes' /\ MessageTypes'
      BY <1>1, <1>5, <1>11, <2>4, Zenon DEF EngineTypes, MessageTypes
    <2>6. TypeOK' /\ MessagesDistinct'
      BY <1>6, <1>10, <1>11, <2>4, <2>5, Zenon DEF TypeOK, MessagesDistinct
    <2>7. \A d \in Calls : NotRunning(d)' <=> NotRunning(d)
      BY <1>11, Zenon DEF NotRunning
    <2>8. QueuedOK(f, m)'
      BY <1>2, <1>3, <1>7, <2>7, Zenon DEF QueuedOK, NotStarted, f
    <2>9. \A h \in Funcs : \A n \in Queue(h)' : QueuedOK(h, n)' \/ (n \in Queue(h) /\ n.call \notin C)
      BY <2>4, <2>8 DEF NotQueued
    <2>10. \A d \in Calls : CallOK(d)' /\ (d \in C \/ (Kept(d) /\ (NotQueued(d) => NotQueued(d)')))
      BY <1>8, <1>9, <2>4, <2>7, Zenon DEF NotQueued
    <2>11. \A v \in Workers : ConnOK(v)'
      BY <1>1, <1>10, <1>11, Zenon DEF ConnOK
    <2>12. \A v \in Workers : Untouched(v) /\ \A d \in C : Unconcerned(v, d)
      BY <1>1, <1>4, <1>11, Zenon DEF Untouched, Down
    <2>13. \A v, w \in Workers : running_workers'[v] = running_workers'[w] /\ v # w
                                   => running_workers'[v] = NoCall
      BY <1>11, Zenon DEF IInv, WorkerInv
    <2>14. {} \in SUBSET Workers /\ \A v \in {} : UpOK(v)' /\ DownOK(v)' /\ LocalOK(v)' /\ CurrentOK(v)'
      BY Zenon
    <2>15. \A v \in Workers \ {} : Untouched(v) /\ \A d \in C : Unconcerned(v, d)
      BY <2>12, Zenon
    <2> HIDE DEF C
    <2> QED BY <1>1, <2>6, <2>9, <2>10, <2>11, <2>13, <2>14, <2>15, CallsStep, Zenon
  <1>12. ASSUME NEW w \in Workers, w \in func_workers, running_workers[w] = NoCall,
                running_workers' = [running_workers EXCEPT ![w] = c],
                down' = WriteMessage(down, w, m), engine_up' = SurvivesWrites({w}),
                UNCHANGED pending_func_calls
         PROVE  IInv'
    <2>1. /\ running_workers'[w] = c /\ \A v \in Workers : v # w => running_workers'[v] = running_workers[v]
          /\ running_workers' \in [Workers -> Calls \cup {NoCall}]
      BY <1>2, <1>5, <1>12, Zenon DEF EngineTypes
    <2>2. /\ down' \in [Workers -> Ways] /\ Down(w)' = Down(w) \cup {m} /\ DistinctOnTheWay(down'[w])
          /\ \A v \in Workers : v # w => down'[v] = down[v]
      <3>1. /\ down \in [Workers -> Ways] /\ DistinctOnTheWay(down[w])
            /\ \A n \in OnTheWay(down[w]) : n.call # m.call
        BY <1>3, <1>5, <1>10, Zenon DEF MessageTypes, MessagesDistinct, Down
      <3>2. /\ down' \in [Workers -> Ways] /\ \A v \in Workers : v # w => down'[v] = down[v]
            /\ OnTheWay(down'[w]) = OnTheWay(down[w]) \cup {m} /\ DistinctOnTheWay(down'[w])
        <4> DEFINE e == WriteMessage(down, w, m)
        <4>1. /\ e \in [Workers -> Ways] /\ \A v \in Workers : v # w => e[v] = down[v]
              /\ \A n : n \in OnTheWay(e[w]) <=> n \in OnTheWay(down[w]) \/ n = m
              /\ DistinctOnTheWay(e[w])
          BY <3>1, Written, Zenon
        <4> QED BY <1>12, <4>1, Zenon
      <3> QED BY <3>2, Zenon DEF Down
    <2>3. engine_up' \in BOOLEAN
      BY <1>12, Zenon DEF SurvivesWrites
    <2>4. EngineTypes' /\ MessageTypes'
      BY <1>1, <1>5, <1>12, <2>1, <2>2, <2>3, Zenon DEF EngineTypes, MessageTypes
    <2>5. TypeOK' /\ MessagesDistinct'
      BY <1>6, <1>10, <1>12, <2>2, <2>4, Zenon DEF TypeOK, MessagesDistinct
    <2>6. \A d \in Calls : d # c /\ NotRunning(d) => NotRunning(d)'
      BY <2>1, Zenon DEF NotRunning
    <2>7. \A d \in Calls : d # c => Kept(d) /\ CallOK(d)'
      BY <1>9, <2>6, Zenon
    <2>8. (\A h \in Funcs : Queue(h)' = Queue(h)) /\ \A d \in Calls : NotQueued(d)' <=> NotQueued(d)
      BY <1>12, Zenon DEF Queue, NotQueued
    <2>9. \A h \in Funcs : \A n \in Queue(h)' : n \in Queue(h) /\ n.call \notin C
      BY <2>8 DEF NotQueued
    <2>10. \A d \in Calls : CallOK(d)' /\ (d \in C \/ (Kept(d) /\ (NotQueued(d) => NotQueued(d)')))
      BY <1>8, <2>7, <2>8, Zenon
    <2>11. \A v \in Workers : ConnOK(v)'
      BY <1>1, <1>10, <1>12, <2>1 DEF ConnOK
    <2>12. \A v \in Workers \ {w} : Untouched(v) /\ \A d \in C : Unconcerned(v, d)
      BY <1>1, <1>4, <2>1, <2>2, Zenon DEF Untouched, Down
    <2>13. \A v, u \in Workers : running_workers'[v] = running_workers'[u] /\ v # u
                                   => running_workers'[v] = NoCall
      <3>1. /\ \A v \in Workers : running_workers[v] # c
            /\ \A v, u \in Workers : running_workers[v] = running_workers[u] /\ v # u
                                      => running_workers[v] = NoCall
        BY <1>3, Zenon DEF IInv, WorkerInv, NotRunning
      <3> QED BY <2>1, <3>1
    <2>14. current[w] = NoCall
      BY <1>10, <1>12, Zenon DEF CurrentOK
    <2>15. \A n \in Up(w)' : n \in Up(w) /\ InvokeOK(w, n) /\ n.type \notin Done
      <3> SUFFICES ASSUME NEW n \in Up(w) PROVE InvokeOK(w, n) /\ n.type \notin Done
        BY Zenon
      <3>1. n.call # NoCall /\ (InvokeOK(w, n) \/ DoneOK(w, n))
        BY NoCallIsNone, Zenon DEF IInv, UpInv
      <3>2. InvokeOK(w, n)
        BY <1>12, <3>1, Zenon DEF DoneOK
      <3> QED BY <3>2, Zenon DEF InvokeOK, Done
    <2>16. \A n \in Down(w) : AnswerOK(w, n)
      BY <1>12, NoCallIsNone, Zenon DEF IInv, DownInv, DispatchOK
    <2>17. UpOK(w)'
      BY <1>1, <2>7, <2>8, <2>15, NoCallIsNone, MessageKept DEF UpOK, InvokeOK
    <2>18. DispatchOK(w, m)'
      BY <1>1, <1>3, <2>1, <2>14, <2>15, Zenon DEF DispatchOK
    <2>19. DownOK(w)'
      BY <1>1, <1>3, <2>2, <2>7, <2>16, <2>18, NoCallIsNone, MessageKept, Zenon DEF DownOK
    <2>20. LocalOK(w)' /\ CurrentOK(w)'
      BY <1>1, <1>10, <2>14, Zenon DEF LocalOK, CurrentOK
    <2>21. {w} \in SUBSET Workers /\ \A v \in {w} : UpOK(v)' /\ DownOK(v)' /\ LocalOK(v)' /\ CurrentOK(v)'
      BY <2>17, <2>19, <2>20, Zenon
    <2> HIDE DEF C
    <2> QED BY <1>1, <2>5, <2>9, <2>10, <2>11, <2>12, <2>13, <2>21, CallsStep, Zenon
  <1>13. func_workers \subseteq Workers
    BY <1>5, Zenon DEF EngineTypes
  <1> QED BY <1>11, <1>12, <1>13, Zenon DEF OnNewFuncCall

LEMMA OnExternalFuncCallIInv ==
    ASSUME IInv, NEW x \in ExternalCalls, NEW big \in BOOLEAN, OnExternalFuncCall(x, big)
    PROVE  IInv'
  <1>1. x \in Calls /\ x \notin NestedCalls /\ result[x] = "unused"
    BY CallAssumption, Zenon DEF Calls, OnExternalFuncCall
  <1>2. CallTypes /\ EngineTypes /\ MessageTypes /\ MessagesDistinct /\ CallOK(x)
    BY <1>1, Zenon DEF IInv, TypeOK, CallInv
  <1>3. NotStarted(x) /\ ~Awaited(x)
    BY <1>1, <1>2, Zenon DEF CallOK, Awaited
  <1>4. NotQueued(x)
    BY <1>3, Zenon DEF IInv, QueueInv, QueuedOK, NotQueued
  <1>5. \A v \in Workers : \A n \in Up(v) : n.call # x
    BY <1>1, <1>3, NotOnTheWay DEF IInv, UpInv, InvokeOK, DoneOK, NotStarted, NotRunning
  <1>6. PICK m : m = Message("dispatch", x, big)
    BY Zenon
  <1>7. m \in Messages /\ m.type = "dispatch" /\ m.call = x /\ m.shm = big /\ OnNewFuncCall(m)
    BY <1>1, <1>6, Zenon DEF Message, Messages, OnExternalFuncCall
  <1>8. /\ UNCHANGED <<flagVars, gateway_up, func_workers, discarding, connVars, workerVars, output_fifo,
                       outcome>>
        /\ UNCHANGED up
        /\ result' = [result EXCEPT ![x] = "open"]
        /\ shm' = IF big THEN shm \cup {<<"input", x>>} ELSE shm
        /\ inflight_external_requests' = inflight_external_requests + 1
    BY Zenon DEF OnExternalFuncCall
  <1>9. result'[x] = "open" /\ (big => <<"input", x>> \in shm') /\ inflight_external_requests' \in Int
    BY <1>1, <1>2, <1>8 DEF CallTypes, EngineTypes
  <1>10. \A d \in Calls : d # x => /\ result'[d] = result[d]
                                   /\ <<"input", d>> \in shm' <=> <<"input", d>> \in shm
                                   /\ <<"output", d>> \in shm' <=> <<"output", d>> \in shm
    BY <1>1, <1>2, <1>8, Zenon DEF CallTypes
  <1>11. OutputThere(x)' => OutputThere(x)
    BY <1>8, Zenon DEF OutputThere
  <1>12. Awaited(x)' /\ (m.shm => InputThere(x)') /\ Owned(x)'
    BY <1>7, <1>9, Zenon DEF Awaited, InputThere, Owned
  <1>13. CallTypes'
    BY <1>1, <1>2, <1>8 DEF CallTypes
  <1>14. up' \in [Workers -> Seq(Messages)]
    BY <1>2, <1>8, Zenon DEF MessageTypes
  <1>15. \A v \in Workers : /\ DistinctCalls(up'[v]) /\ Up(v)' \subseteq Up(v)
                            /\ \A n \in Up(v)' : n.call # x
    BY <1>2, <1>5, <1>8, Zenon DEF MessagesDistinct, Up
  <1> QED BY <1>3, <1>4, <1>7, <1>8, <1>9, <1>10, <1>11, <1>12, <1>13, <1>14, <1>15,
             NewCallStep, Zenon

\* The engine takes the first message of a worker.
LEMMA EngineReads ==
    ASSUME IInv, NEW w \in Workers, up[w] # <<>>, up' = [up EXCEPT ![w] = Tail(@)]
    PROVE  /\ Head(up[w]) \in Messages /\ Head(up[w]) \in Up(w)
           /\ up' \in [Workers -> Seq(Messages)]
           /\ \A v \in Workers : DistinctCalls(up'[v]) /\ Up(v)' \subseteq Up(v)
           /\ \A n \in Up(w)' : n.call # Head(up[w]).call
  <1>1. up \in [Workers -> Seq(Messages)] /\ \A v \in Workers : DistinctCalls(up[v])
    BY Zenon DEF IInv, TypeOK, MessageTypes, MessagesDistinct
  <1> DEFINE q == up[w]
  <1>2. q \in Seq(Messages) /\ q # <<>> /\ DistinctCalls(q)
    BY <1>1, Zenon
  <1>3. /\ Head(q) \in Messages /\ Tail(q) \in Seq(Messages) /\ DistinctCalls(Tail(q))
        /\ Range(q) = Range(Tail(q)) \cup {Head(q)} /\ \A n \in Range(Tail(q)) : n.call # Head(q).call
    BY <1>2, Taken, Zenon
  <1>4. up'[w] = Tail(q) /\ \A v \in Workers : v # w => up'[v] = up[v]
    BY <1>1, Zenon
  <1>5. up' \in [Workers -> Seq(Messages)]
    BY <1>1, <1>3, Zenon
  <1> HIDE DEF q
  <1> QED BY <1>1, <1>3, <1>4, <1>5, Zenon DEF Up, q

LEMMA OnRecvInvokeFuncIInv ==
    ASSUME IInv, NEW w \in Workers, OnRecvInvokeFunc(w)
    PROVE  IInv'
  <1>1. up[w] # <<>> /\ Head(up[w]).type = "invoke" /\ up' = [up EXCEPT ![w] = Tail(@)]
    BY Zenon DEF OnRecvInvokeFunc
  <1>2. PICK h \in Messages : h = Head(up[w])
    BY <1>1, EngineReads, Zenon
  <1>3. /\ h \in Up(w) /\ up' \in [Workers -> Seq(Messages)]
        /\ \A v \in Workers : DistinctCalls(up'[v]) /\ Up(v)' \subseteq Up(v)
        /\ \A n \in Up(w)' : n.call # h.call
    BY <1>1, <1>2, EngineReads, Zenon
  <1>4. InvokeOK(w, h)
    BY <1>1, <1>2, <1>3, Zenon DEF IInv, UpInv, DoneOK, Done
  <1>5. PICK c \in Calls : c = h.call
    BY <1>2, Zenon DEF Messages
  <1>6. /\ c \in NestedCalls /\ Caller[c] = w /\ NotQueued(c) /\ NotStarted(c) /\ Awaited(c)
        /\ h.shm => InputThere(c)
    BY <1>4, <1>5, Zenon DEF InvokeOK
  <1>7. PICK m : m = [h EXCEPT !.type = "dispatch"]
    BY Zenon
  <1>8. m \in Messages /\ m.type = "dispatch" /\ m.call = c /\ m.shm = h.shm
    BY <1>2, <1>5, <1>7, Zenon DEF Messages
  <1>9. /\ OnNewFuncCall(m)
        /\ UNCHANGED <<flagVars, gateway_up, func_workers, discarding, inflight_external_requests, connVars,
                       workerVars, fileVars, endVars>>
    BY <1>2, <1>7, Zenon DEF OnRecvInvokeFunc
  <1>10. /\ UNCHANGED <<flagVars, gateway_up, func_workers, discarding, connVars, workerVars, output_fifo,
                        outcome>>
         /\ UNCHANGED <<shm, result, inflight_external_requests, proc, waiting, held>>
    BY <1>9, Zenon DEF fileVars, endVars, workerVars
  <1>11. CallTypes' /\ inflight_external_requests' \in Int
    BY <1>10, Zenon DEF IInv, TypeOK, CallTypes, EngineTypes
  <1>12. Awaited(c)' /\ (m.shm => InputThere(c)') /\ (OutputThere(c)' => OutputThere(c))
    BY <1>6, <1>8, <1>10, Zenon DEF Awaited, InputThere, OutputThere
  <1>13. Owned(c)'
    <2>1. Owned(c)
      BY Zenon DEF IInv, CallInv, CallOK
    <2> QED BY <1>10, <2>1, Zenon DEF Owned
  <1>14. \A v \in Workers : \A n \in Up(v)' : n.call # c
    BY <1>3, <1>5, <1>6, NotOnTheWay, Zenon
  <1> QED BY <1>3, <1>6, <1>8, <1>9, <1>10, <1>11, <1>12, <1>13, <1>14, NewCallStep, Zenon

\* A call that waits in the queue of function f is nowhere else.
LEMMA QueuedOnly ==
    ASSUME IInv, NEW f \in Funcs, NEW m \in Queue(f), NEW c, c = m.call
    PROVE  /\ m \in Messages /\ c \in Calls /\ QueuedOK(f, m) /\ NotStarted(c) /\ Awaited(c)
           /\ \A v \in Workers : /\ \A n \in Up(v) \cup Down(v) : n.call # c
                                 /\ current[v] # c /\ running_workers[v] # c
           /\ \A h \in Funcs : \A n \in Queue(h) : n.call = c => h = f
  <1>1. m \in Messages /\ c \in Calls /\ QueuedOK(f, m)
    BY MessagesTyped, Zenon DEF IInv, TypeOK, QueueInv, Messages
  <1>2. NotStarted(c) /\ Awaited(c) /\ Callee[c] = f /\ ~NotQueued(c)
    BY <1>1, Zenon DEF QueuedOK, NotQueued
  <1>3. \A v \in Workers : \A n \in Up(v) : n.call # c
    BY <1>1, <1>2, NotOnTheWay DEF IInv, UpInv, InvokeOK, DoneOK, NotStarted, NotRunning
  <1>4. \A v \in Workers : (\A n \in Down(v) : n.call # c) /\ current[v] # c /\ running_workers[v] # c
    BY <1>1, <1>2, NotOnTheWay DEF NotStarted, NotRunning
  <1>5. \A h \in Funcs : \A n \in Queue(h) : n.call = c => h = f
    BY <1>2 DEF IInv, QueueInv, QueuedOK
  <1> QED BY <1>1, <1>2, <1>3, <1>4, <1>5, Zenon

\* What DispatchPendingFuncCall takes from the queue: the calls in X are discarded,
\* and the message in T, if any, is sent to worker w, after what is in d.
Takes(w, d, X, T) ==
    /\ \A c \in X : \E m \in Queue(FuncOf[w]) : m.call = c
    /\ \A t \in T : t.call \notin X /\ running_workers'[w] = t.call /\ T = {t}
    /\ T = {} => running_workers'[w] = NoCall
    /\ \A v \in Workers : v # w => running_workers'[v] = running_workers[v]
    /\ \A n \in Queue(FuncOf[w])' :
          n \in Queue(FuncOf[w]) /\ n.call \notin X /\ \A t \in T : n.call # t.call
    /\ \A h \in Funcs : DistinctCalls(pending_func_calls'[h])
                          /\ (h # FuncOf[w] => Queue(h)' = Queue(h))
    /\ \A c \in Calls : Discarded(c)' <=> Discarded(c) \/ c \in X
    /\ OnTheWay(down'[w]) = OnTheWay(d[w]) \cup T
    /\ \A v \in Workers : v # w => down'[v] = d[v]
    /\ \A v \in Workers : DistinctOnTheWay(down'[v])
    /\ engine_up' \in BOOLEAN
    /\ running_workers' \in [Workers -> Calls \cup {NoCall}]
    /\ discarding' \in [NestedCalls -> {"no", "queued", "opened", "done"}]
    /\ pending_func_calls' \in [Funcs -> Seq(Messages)]
    /\ down' \in [Workers -> Ways]

LEMMA PendingTaken ==
    ASSUME IInv, NEW w \in Workers, NEW d \in [Workers -> Ways], NEW targets,
           DispatchPendingFuncCall(w, d, targets),
           \A v \in Workers : DistinctOnTheWay(d[v]),
           \A n \in OnTheWay(d[w]) : \A m \in Queue(FuncOf[w]) : n.call # m.call
    PROVE  \E X \in SUBSET NestedCalls : \E T \in SUBSET Queue(FuncOf[w]) : Takes(w, d, X, T)
  <1> DEFINE f == FuncOf[w]
             q == pending_func_calls[f]
  <1>1. f \in Funcs /\ f = FuncOf[w]
    BY FuncAssumption, Zenon
  <1>2. /\ pending_func_calls \in [Funcs -> Seq(Messages)]
        /\ running_workers \in [Workers -> Calls \cup {NoCall}]
        /\ discarding \in [NestedCalls -> {"no", "queued", "opened", "done"}]
        /\ \A h \in Funcs : DistinctCalls(pending_func_calls[h])
    BY Zenon DEF IInv, TypeOK, MessageTypes, EngineTypes, MessagesDistinct
  <1>3. q \in Seq(Messages) /\ q = pending_func_calls[f]
    BY <1>1, <1>2, Zenon
  <1>4. PICK k \in 0..Len(q) :
          /\ \A i \in 1..k : MayDiscard /\ q[i].call \in NestedCalls
          /\ discarding' = [g \in NestedCalls |->
                                IF \E i \in 1 .. k : q[i].call = g THEN "queued" ELSE discarding[g]]
          /\ pending_func_calls' = [pending_func_calls EXCEPT ![f] = SubSeq(q, k + 2, Len(q))]
          /\ \/ /\ k = Len(q)
                /\ running_workers' = [running_workers EXCEPT ![w] = NoCall]
                /\ down' = d
                /\ engine_up' = SurvivesWrites(targets)
             \/ /\ k < Len(q)
                /\ running_workers' = [running_workers EXCEPT ![w] = q[k + 1].call]
                /\ down' = WriteMessage(d, w, q[k + 1])
                /\ engine_up' = SurvivesWrites(targets \cup {w})
    BY Zenon DEF DispatchPendingFuncCall
  <1> HIDE DEF f, q
  <1>5. PICK r : r = SubSeq(q, k + 2, Len(q))
    BY Zenon
  <1>6. PICK X : X = {q[i].call : i \in 1..k}
    BY Zenon
  <1>7. DistinctCalls(q) /\ Queue(f) = Range(q)
    BY <1>1, <1>2, <1>3, Zenon DEF Queue
  <1>8. /\ r \in Seq(Messages) /\ DistinctCalls(r) /\ Range(r) \subseteq Range(q)
        /\ \A i \in 1..k : q[i] \in Range(q) /\ \A n \in Range(r) : n.call # q[i].call
        /\ k < Len(q) => /\ q[k + 1] \in Range(q)
                         /\ \A n \in Range(r) : n.call # q[k + 1].call
                         /\ \A i \in 1..k : q[i].call # q[k + 1].call
    <2>1. q \in Seq(Messages) /\ DistinctCalls(q) /\ k \in 0..Len(q)
      BY <1>3, <1>7, Zenon
    <2> QED BY <1>5, <2>1, Dropped, Zenon
  <1>9. /\ X \in SUBSET NestedCalls
        /\ \A c \in X : \E m \in Queue(f) : m.call = c
        /\ \A n \in Range(r) : n.call \notin X
        /\ k < Len(q) => q[k + 1].call \notin X
    <2>1. \A c \in X : \E i \in 1..k : c = q[i].call
      BY <1>6, Zenon
    <2>2. X \in SUBSET NestedCalls
      <3>1. \A i \in 1..k : q[i].call \in NestedCalls
        BY <1>4, Zenon
      <3> QED BY <2>1, <3>1, Zenon
    <2>3. \A c \in X : \E m \in Queue(f) : m.call = c
      BY <1>7, <1>8, <2>1, Zenon
    <2>4. ASSUME NEW n \in Range(r), n.call \in X PROVE FALSE
      <3>1. PICK i \in 1..k : n.call = q[i].call
        BY <2>1, <2>4, Zenon
      <3> QED BY <1>8, <3>1, Zenon
    <2>5. k < Len(q) => q[k + 1].call \notin X
      BY <1>8, <2>1, Zenon
    <2> QED BY <2>2, <2>3, <2>4, <2>5, Zenon
  <1>10. /\ pending_func_calls' \in [Funcs -> Seq(Messages)] /\ pending_func_calls'[f] = r
         /\ \A h \in Funcs : h # f => pending_func_calls'[h] = pending_func_calls[h]
    BY <1>1, <1>2, <1>3, <1>4, <1>5, <1>8, Zenon
  <1>11. Queue(f)' = Range(r) /\ \A h \in Funcs : DistinctCalls(pending_func_calls'[h])
                                                    /\ (h # f => Queue(h)' = Queue(h))
    BY <1>2, <1>8, <1>10, Zenon DEF Queue
  <1>12. \A g \in NestedCalls : discarding'[g] = IF g \in X THEN "queued" ELSE discarding[g]
    BY <1>4, <1>6, Zenon
  <1>13. \A c \in Calls : Discarded(c)' <=> Discarded(c) \/ c \in X
    BY <1>9, <1>12, Zenon DEF Discarded
  <1>14. discarding' \in [NestedCalls -> {"no", "queued", "opened", "done"}]
    BY <1>2, <1>4, Zenon
  <1>15. engine_up' \in BOOLEAN
    BY <1>4, Zenon DEF SurvivesWrites
  <1>16. CASE k = Len(q)
    <2>1. PICK T : T = {}
      BY Zenon
    <2>2. /\ running_workers' = [running_workers EXCEPT ![w] = NoCall] /\ down' = d
      BY <1>4, <1>16
    <2>3. /\ running_workers'[w] = NoCall /\ \A v \in Workers : v # w => running_workers'[v] = running_workers[v]
          /\ running_workers' \in [Workers -> Calls \cup {NoCall}]
      BY <1>2, <2>2, Zenon
    <2>4. /\ OnTheWay(down'[w]) = OnTheWay(d[w]) \cup T /\ down' \in [Workers -> Ways]
          /\ \A v \in Workers : DistinctOnTheWay(down'[v]) /\ down'[v] = d[v]
      BY <2>1, <2>2, Zenon
    <2>5. T \in SUBSET Queue(f) /\ T = {}
      BY <2>1, Zenon
    <2>6. \A n \in Queue(f)' : n \in Queue(f) /\ n.call \notin X
      BY <1>7, <1>8, <1>9, <1>11
    <2> QED BY <1>1, <1>9, <1>10, <1>11, <1>13, <1>14, <1>15, <2>3, <2>4, <2>5, <2>6 DEF Takes
  <1>17. CASE k < Len(q)
    <2>1. PICK t \in Range(q) : t = q[k + 1]
      BY <1>8, <1>17, Zenon
    <2>2. /\ running_workers' = [running_workers EXCEPT ![w] = t.call] /\ down' = WriteMessage(d, w, t)
      BY <1>4, <1>17, <2>1
    <2>3. t \in Messages /\ t \in Queue(f) /\ t.call \in Calls /\ t.call \notin X
      BY <1>1, <1>7, <1>9, <1>17, <2>1, QueuedOnly
    <2>4. /\ running_workers'[w] = t.call /\ \A v \in Workers : v # w => running_workers'[v] = running_workers[v]
          /\ running_workers' \in [Workers -> Calls \cup {NoCall}]
      BY <1>2, <2>2, <2>3, Zenon
    <2>5. DistinctOnTheWay(d[w]) /\ \A n \in OnTheWay(d[w]) : n.call # t.call
      BY <1>1, <2>3, Zenon
    <2>6. /\ down' \in [Workers -> Ways] /\ \A v \in Workers : v # w => down'[v] = d[v]
          /\ OnTheWay(down'[w]) = OnTheWay(d[w]) \cup {t} /\ DistinctOnTheWay(down'[w])
      <3> DEFINE e == WriteMessage(d, w, t)
      <3>1. /\ e \in [Workers -> Ways] /\ \A v \in Workers : v # w => e[v] = d[v]
            /\ OnTheWay(e[w]) = OnTheWay(d[w]) \cup {t} /\ DistinctOnTheWay(e[w])
        <4>1. t \in Messages
          BY <2>3, Zenon
        <4>2. /\ e \in [Workers -> Ways] /\ \A v \in Workers : v # w => e[v] = d[v]
              /\ \A n : n \in OnTheWay(e[w]) <=> n \in OnTheWay(d[w]) \/ n = t
              /\ DistinctOnTheWay(d[w]) /\ (\A n \in OnTheWay(d[w]) : n.call # t.call)
                   => DistinctOnTheWay(e[w])
          <5>1. e \in [Workers -> Ways]
            BY <4>1, Written, Zenon
          <5>2. \A v \in Workers : v # w => e[v] = d[v]
            BY <4>1, Written, Zenon
          <5>3. \A n : n \in OnTheWay(e[w]) <=> n \in OnTheWay(d[w]) \/ n = t
            BY <4>1, Written, Zenon
          <5>4. DistinctOnTheWay(d[w]) /\ (\A n \in OnTheWay(d[w]) : n.call # t.call)
                   => DistinctOnTheWay(e[w])
            BY <4>1, Written, Zenon
          <5> QED BY <5>1, <5>2, <5>3, <5>4, Zenon
        <4> HIDE DEF e
        <4> QED BY <2>5, <4>2, Zenon
      <3> QED BY <2>2, <3>1, Zenon
    <2>7. PICK T : T = {t}
      BY Zenon
    <2>8. /\ OnTheWay(down'[w]) = OnTheWay(d[w]) \cup T /\ down' \in [Workers -> Ways]
          /\ \A v \in Workers : DistinctOnTheWay(down'[v]) /\ (v # w => down'[v] = d[v])
      BY <2>6, <2>7, Zenon
    <2>9. /\ T \in SUBSET Queue(f)
          /\ \A s \in T : s.call \notin X /\ running_workers'[w] = s.call /\ T = {s}
      BY <2>3, <2>4, <2>7, Zenon
    <2>10. T # {}
      BY <2>7, Zenon
    <2>11. \A n \in Queue(f)' : n \in Queue(f) /\ n.call \notin X /\ \A s \in T : n.call # s.call
      BY <1>7, <1>8, <1>9, <1>11, <1>17, <2>1, <2>7
    <2>12. /\ \A c \in X : \E m \in Queue(f) : m.call = c
           /\ T = {} => running_workers'[w] = NoCall
           /\ \A v \in Workers : v # w => down'[v] = d[v]
           /\ \A v \in Workers : DistinctOnTheWay(down'[v])
      BY <1>9, <2>8, <2>10, Zenon
    <2>13. X \in SUBSET NestedCalls /\ T \in SUBSET Queue(FuncOf[w])
      BY <1>1, <1>9, <2>9, Zenon
    <2>14. Takes(w, d, X, T)
      BY <1>1, <1>10, <1>11, <1>13, <1>14, <1>15, <2>4, <2>8, <2>9, <2>11, <2>12 DEF Takes
    <2> QED BY <2>13, <2>14, Zenon
  <1>18. k = Len(q) \/ k < Len(q)
    BY <1>4, Zenon
  <1> QED BY <1>16, <1>17, <1>18, Zenon

\* The step changes the end of no call but b, which is right if b does not run.
OnlyEnds(b) ==
    /\ \A c \in Calls :
          c # b => /\ result'[c] = result[c]
                   /\ <<"input", c>> \in shm' <=> <<"input", c>> \in shm
                   /\ <<"output", c>> \in shm' <=> <<"output", c>> \in shm
    /\ b \in Calls /\ NotRunning(b)' /\ (Discarded(b)' <=> Discarded(b)) => CallOK(b)'

\* What is sent with d besides what is under way: the answer to b, if b does not run.
OnlyAnswers(d, b) ==
    /\ \A v \in Workers : \A n \in Down(v) : n.call # b
    /\ \A v \in Workers : DistinctOnTheWay(d[v])
    /\ \A v \in Workers : \A n \in OnTheWay(d[v]) :
          \/ n \in Down(v)
          \/ n.call = b /\ b \in Calls /\ (NotRunning(b)' => AnswerOK(v, n)')

\* The step leaves no message about b that a worker has sent.
OnlyTakes(b) ==
    /\ up' \in [Workers -> Seq(Messages)]
    /\ \A v \in Workers :
          DistinctCalls(up'[v]) /\ Up(v)' \subseteq Up(v) /\ \A n \in Up(v)' : n.call # b

\* The step changes no connection but that of w, which has begun its handshake.
OnlyConnects(w) ==
    /\ func_workers' \subseteq func_workers \cup {w} /\ ConnTypes'
    /\ \A v \in Workers : v # w => conn'[v] = conn[v]
    /\ conn'[w] # "kCreated" /\ (conn'[w] = "kHandshake" => proc[w] \in {"starting", "dead"})

\* DispatchPendingFuncCall for a worker that has just connected (b is NoCall) or is
\* done with call b, whose answer is in d.
LEMMA PendingStep ==
    ASSUME IInv, NEW w \in Workers, NEW b, running_workers[w] = b, current[w] = NoCall,
           NEW d \in [Workers -> Ways], NEW targets, DispatchPendingFuncCall(w, d, targets),
           UNCHANGED <<flagVars, gateway_up, workerVars, output_fifo, outcome>>,
           inflight_external_requests' \in Int, CallTypes',
           OnlyConnects(w), OnlyEnds(b), OnlyAnswers(d, b), OnlyTakes(b)
    PROVE  IInv'
  <1>ends. \A c \in Calls :
              c # b => /\ result'[c] = result[c]
                       /\ <<"input", c>> \in shm' <=> <<"input", c>> \in shm
                       /\ <<"output", c>> \in shm' <=> <<"output", c>> \in shm
    BY Zenon DEF OnlyEnds
  <1>down. (\A v \in Workers : DistinctOnTheWay(d[v])) /\ \A v \in Workers : \A n \in Down(v) : n.call # b
    BY Zenon DEF OnlyAnswers
  <1>sent. \A v \in Workers : \A n \in OnTheWay(d[v]) :
              \/ n \in Down(v)
              \/ n.call = b /\ b \in Calls /\ (NotRunning(b)' => AnswerOK(v, n)')
    BY Zenon DEF OnlyAnswers
  <1>up. \A v \in Workers :
            DistinctCalls(up'[v]) /\ Up(v)' \subseteq Up(v) /\ \A n \in Up(v)' : n.call # b
    BY Zenon DEF OnlyTakes
  <1>1. UNCHANGED <<use_fifo_for_nested_call, direct_write, lib, proc, current, waiting, held, writing>>
    BY Zenon DEF flagVars, workerVars
  <1> DEFINE f == FuncOf[w]
  <1>2. f \in Funcs
    BY FuncAssumption, Zenon
  <1>3. \A n \in OnTheWay(d[w]) : \A m \in Queue(f) : n.call # m.call
    BY <1>2, <1>sent, QueuedOnly, Zenon
  <1>4. PICK X \in SUBSET NestedCalls : \E T \in SUBSET Queue(f) : Takes(w, d, X, T)
    BY <1>3, <1>down, PendingTaken, Zenon
  <1>5. PICK T \in SUBSET Queue(f) : Takes(w, d, X, T)
    BY <1>4, Zenon
  <1>6. /\ \A c \in X : \E m \in Queue(f) : m.call = c
        /\ \A t \in T : t.call \notin X /\ running_workers'[w] = t.call /\ T = {t}
        /\ T = {} => running_workers'[w] = NoCall
        /\ \A v \in Workers : v # w => running_workers'[v] = running_workers[v]
    BY <1>5, Zenon DEF Takes
  <1>7. /\ \A n \in Queue(f)' : n \in Queue(f) /\ n.call \notin X /\ \A t \in T : n.call # t.call
        /\ \A h \in Funcs : DistinctCalls(pending_func_calls'[h]) /\ (h # f => Queue(h)' = Queue(h))
    BY <1>5, Zenon DEF Takes
  <1>8. \A c \in Calls : Discarded(c)' <=> Discarded(c) \/ c \in X
    BY <1>5, Zenon DEF Takes
  <1>9. /\ OnTheWay(down'[w]) = OnTheWay(d[w]) \cup T
        /\ \A v \in Workers : v # w => down'[v] = d[v]
        /\ \A v \in Workers : DistinctOnTheWay(down'[v])
    BY <1>5, Zenon DEF Takes
  <1> HIDE DEF f
  <1>10. PICK C : C = X \cup {t.call : t \in T} \cup {b}
    BY Zenon
  <1>11. ASSUME NEW c \in C, c # b
         PROVE  /\ c \in Calls /\ NotStarted(c) /\ Awaited(c)
                /\ \A v \in Workers : /\ \A n \in Up(v) \cup Down(v) : n.call # c
                                      /\ current[v] # c /\ running_workers[v] # c
                /\ \A h \in Funcs : \A n \in Queue(h) : n.call = c => h = f
    <2>1. PICK m \in Queue(f) : m.call = c
      BY <1>6, <1>10, <1>11, Zenon
    <2> QED BY <1>2, <2>1, QueuedOnly, Zenon
  <1>12. b \in Calls => /\ \A v \in Workers : v # w => running_workers[v] # b /\ current[v] # b
                        /\ NotQueued(b) /\ ~Discarded(b) /\ b # NoCall
    <2> SUFFICES ASSUME b \in Calls
                 PROVE  /\ \A v \in Workers : v # w => running_workers[v] # b /\ current[v] # b
                        /\ NotQueued(b) /\ ~Discarded(b) /\ b # NoCall
      BY Zenon
    <2>1. b # NoCall /\ \A v \in Workers : running_workers[v] = b => v = w
      BY CallAssumption, Zenon DEF IInv, WorkerInv
    <2>2. NotQueued(b) /\ ~Discarded(b) /\ \A v \in Workers : current[v] = b => v = w
      BY RunningOnly, Zenon
    <2> QED BY <2>1, <2>2, Zenon
  <1>13. \A m \in Queue(f) : m.call # b
    BY <1>2, QueuedOnly, Zenon
  <1>14. /\ \A c \in Calls : NotRunning(c) /\ (\A t \in T : t.call # c) => NotRunning(c)'
         /\ b \in Calls => NotRunning(b)' /\ b \notin X
    <2>1. running_workers'[w] = NoCall \/ \E t \in T : running_workers'[w] = t.call
      BY <1>6, Zenon
    <2>2. ASSUME NEW c \in Calls, \A v \in Workers : v # w => running_workers[v] # c, \A t \in T : t.call # c
          PROVE  NotRunning(c)'
      <3>1. c # NoCall
        BY CallAssumption, Zenon
      <3> QED BY <1>6, <2>1, <2>2, <3>1, Zenon DEF NotRunning
    <2>3. \A c \in Calls : NotRunning(c) /\ (\A t \in T : t.call # c) => NotRunning(c)'
      BY <2>2, Zenon DEF NotRunning
    <2> QED BY <1>6, <1>12, <1>13, <2>2, <2>3, Zenon
  <1>15. \A c \in Calls : c \notin C => Same(c)
    BY <1>1, <1>8, <1>10, <1>14, <1>ends, Zenon DEF Same
  <1>16. \A c \in Calls : c \notin C => Kept(c) /\ CallOK(c)'
    BY <1>1, <1>15, SameKept, Zenon DEF IInv, CallInv
  <1>17. ASSUME NEW c \in C, c # b
         PROVE  /\ CallOK(c)' /\ outcome'[c] = "none" /\ Awaited(c)'
                /\ InputThere(c) => InputThere(c)'
    <2>1. c \in Calls /\ NotStarted(c) /\ Awaited(c) /\ CallOK(c)
      BY <1>11, <1>17, Zenon DEF IInv, CallInv
    <2>2. /\ Awaited(c)' /\ (OutputThere(c)' => OutputThere(c)) /\ Owned(c)'
          /\ InputThere(c) => InputThere(c)'
      BY <1>1, <1>17, <1>ends, <2>1, Zenon DEF Awaited, OutputThere, InputThere, Owned, CallOK
    <2>3. Discarded(c)' => NotRunning(c)'
      <3>1. Discarded(c)' => c \in X
        BY <1>8, <2>1, Zenon DEF NotStarted
      <3>2. c \in X => \A t \in T : t.call # c
        BY <1>6, Zenon
      <3> QED BY <1>14, <2>1, <3>1, <3>2, Zenon DEF NotStarted
    <2>4. outcome'[c] = outcome[c] /\ outcome[c] = "none" /\ result'[c] = result[c]
      BY <1>17, <1>ends, <2>1, Zenon DEF NotStarted
    <2>5. CallOK(c)'
      BY <1>1, <2>1, <2>2, <2>3, <2>4, TakenCallOK, Zenon
    <2> QED BY <2>2, <2>4, <2>5, Zenon
  <1>18. b \in Calls => CallOK(b)'
    <2>1. b \in Calls => NotRunning(b)'
      BY <1>14, Zenon
    <2>2. b \in Calls => (Discarded(b)' <=> Discarded(b))
      BY <1>8, <1>14, Zenon
    <2> QED BY <2>1, <2>2, Zenon DEF OnlyEnds
  <1>19. \A h \in Funcs : \A n \in Queue(h)' : n \in Queue(h) /\ n.call \notin C
    <2> SUFFICES ASSUME NEW h \in Funcs, NEW n \in Queue(h)' PROVE n \in Queue(h) /\ n.call \notin C
      BY Zenon
    <2>1. n \in Queue(h)
      BY <1>7, Zenon
    <2>2. n.call # b
      <3>1. PICK c : c = n.call
        BY Zenon
      <3>2. running_workers[w] # c
        BY <2>1, <3>1, QueuedOnly, Zenon
      <3> QED BY <3>1, <3>2, Zenon
    <2>3. CASE h = f
      BY <1>7, <1>10, <2>1, <2>2, <2>3, Zenon
    <2>4. CASE h # f
      BY <1>11, <2>1, <2>2, <2>4, Zenon
    <2> QED BY <2>3, <2>4, Zenon
  <1>20. \A c \in Calls : /\ CallOK(c)'
                          /\ c \in C \/ (Kept(c) /\ (NotQueued(c) => NotQueued(c)'))
    BY <1>16, <1>17, <1>18, <1>19, Zenon DEF NotQueued
  <1>21. ASSUME NEW v \in Workers \ {w} PROVE Untouched(v) /\ \A c \in C : Unconcerned(v, c)
    <2>1. Untouched(v)
      <3>1. \A m \in Down(v)' : m \in Down(v) \/ AnswerOK(v, m)'
        BY <1>9, <1>14, <1>sent, Zenon DEF Down
      <3> QED BY <1>1, <1>6, <1>up, <3>1, Zenon DEF Untouched
    <2>2. Unconcerned(v, b)
      <3>1. current[v] = b => b = NoCall
        BY <1>12, Zenon DEF IInv, TypeOK, WorkerTypes
      <3> QED BY <1>down, <1>up, <3>1, Zenon DEF Unconcerned
    <2>3. \A c \in C : c # b => Unconcerned(v, c)
      BY <1>11, Zenon DEF Unconcerned
    <2> QED BY <2>1, <2>2, <2>3, Zenon
  <1>22. ASSUME NEW n \in Up(w) \cup Down(w), n.call # b
         PROVE  n.call \in Calls /\ Kept(n.call) /\ (NotQueued(n.call) => NotQueued(n.call)')
    <2>1. n.call \in Calls
      BY NoCallIsNone, Zenon
    <2>2. n.call \notin C
      BY <1>11, <1>22, Zenon
    <2> QED BY <1>20, <2>1, <2>2, Zenon
  <1>23. \A n \in Up(w)' : InvokeOK(w, n)' /\ n.type \notin Done
    <2> SUFFICES ASSUME NEW n \in Up(w)' PROVE InvokeOK(w, n)' /\ n.type \notin Done
      BY Zenon
    <2>1. n \in Up(w) /\ n.call # b
      BY <1>up, Zenon
    <2>2. InvokeOK(w, n)
      BY <2>1, Zenon DEF IInv, UpInv, DoneOK
    <2>3. Kept(n.call) /\ NotQueued(n.call)'
      BY <1>22, <2>1, <2>2, Zenon DEF InvokeOK
    <2>4. InvokeOK(w, n)'
      BY <1>1, <2>2, <2>3, MessageKept, Zenon
    <2> QED BY <2>2, <2>4, Zenon DEF InvokeOK, Done
  <1>24. DownOK(w)'
    <2> SUFFICES ASSUME NEW n \in Down(w)' PROVE (DispatchOK(w, n) \/ AnswerOK(w, n))'
      BY Zenon DEF DownOK
    <2>1. n \in OnTheWay(d[w]) \/ n \in T
      BY <1>9, Zenon DEF Down
    <2>2. CASE n \in Down(w)
      <3>1. AnswerOK(w, n)
        BY <1>down, <2>2, Zenon DEF IInv, DownInv, DispatchOK
      <3>2. Kept(n.call)
        BY <1>down, <1>22, <2>2, Zenon
      <3> QED BY <1>1, <3>1, <3>2, MessageKept, Zenon
    <2>3. CASE n.call = b /\ b \in Calls /\ (NotRunning(b)' => AnswerOK(w, n)')
      BY <1>14, <2>3, Zenon
    <2>4. CASE n \in T
      <3>1. PICK c : c = n.call
        BY Zenon
      <3>2. c \in C /\ c # b /\ QueuedOK(f, n) /\ running_workers'[w] = c
        <4>1. n \in Queue(f) /\ running_workers'[w] = c
          BY <1>6, <2>4, <3>1, Zenon
        <4>2. c \in C /\ c # b
          BY <1>10, <1>13, <2>4, <3>1, <4>1, Zenon
        <4>3. QueuedOK(f, n)
          BY <1>2, <4>1, Zenon DEF IInv, QueueInv
        <4> QED BY <4>1, <4>2, <4>3, Zenon
      <3>3. n.type = "dispatch" /\ (n.shm => InputThere(c))
        BY <3>1, <3>2, Zenon DEF QueuedOK
      <3>4. outcome'[c] = "none" /\ Awaited(c)' /\ (n.shm => InputThere(c)')
        BY <1>17, <3>2, <3>3, Zenon
      <3>5. current'[w] = NoCall
        BY <1>1, Zenon
      <3> QED BY <1>23, <3>1, <3>2, <3>3, <3>4, <3>5, Zenon DEF DispatchOK
    <2> QED BY <1>sent, <2>1, <2>2, <2>3, <2>4, Zenon
  <1>25. UpOK(w)' /\ LocalOK(w)' /\ CurrentOK(w)'
    <2>1. LocalOK(w)
      BY Zenon DEF IInv, WorkerInv
    <2> QED BY <1>1, <1>23, <2>1, Zenon DEF UpOK, LocalOK, CurrentOK
  <1>26. \A v, u \in Workers : running_workers'[v] = running_workers'[u] /\ v # u
                                 => running_workers'[v] = NoCall
    <2>1. \A v, u \in Workers : running_workers[v] = running_workers[u] /\ v # u
                                  => running_workers[v] = NoCall
      BY Zenon DEF IInv, WorkerInv
    <2>2. running_workers'[w] = NoCall \/ \A v \in Workers : running_workers[v] # running_workers'[w]
      <3> SUFFICES ASSUME running_workers'[w] # NoCall
                   PROVE  \A v \in Workers : running_workers[v] # running_workers'[w]
        BY Zenon
      <3>1. PICK t \in T : running_workers'[w] = t.call
        BY <1>6, Zenon
      <3>2. t.call \in C /\ t.call # b
        BY <1>10, <1>13, Zenon
      <3> QED BY <1>11, <3>1, <3>2, Zenon
    <2>3. \A v \in Workers : v # w => running_workers'[v] = running_workers[v]
      BY <1>6, Zenon
    <2>4. \A v \in Workers : v # w /\ running_workers'[v] = running_workers'[w]
                               => running_workers'[v] = NoCall
      BY <2>2, <2>3, Zenon
    <2>5. ASSUME NEW v \in Workers, NEW u \in Workers, v # u,
                 running_workers'[v] = running_workers'[u]
          PROVE  running_workers'[v] = NoCall
      <3>1. CASE v = w \/ u = w
        BY <2>4, <2>5, <3>1, Zenon
      <3>2. CASE v # w /\ u # w
        BY <2>1, <2>3, <2>5, <3>2, Zenon
      <3> QED BY <3>1, <3>2, Zenon
    <2> QED BY <2>5, Zenon
  <1>27. \A v \in Workers : ConnOK(v)'
    <2>1. \A v \in Workers : ConnOK(v)
      BY Zenon DEF IInv, WorkerInv
    <2>2. \A v \in Workers : v # w => ConnOK(v)'
      BY <1>1, <1>6, <2>1, Zenon DEF ConnOK, OnlyConnects
    <2>3. ConnOK(w)'
      BY <1>1, Zenon DEF ConnOK, OnlyConnects
    <2> QED BY <2>2, <2>3, Zenon
  <1>28. EngineTypes' /\ MessageTypes' /\ WorkerTypes'
    <2>1. EngineTypes /\ MessageTypes /\ WorkerTypes
      BY Zenon DEF IInv, TypeOK
    <2>2. EngineTypes'
      <3>1. /\ engine_up' \in BOOLEAN /\ running_workers' \in [Workers -> Calls \cup {NoCall}]
            /\ discarding' \in [NestedCalls -> {"no", "queued", "opened", "done"}]
        BY <1>5, Zenon DEF Takes
      <3> QED BY <1>1, <2>1, <3>1, Zenon DEF EngineTypes, OnlyConnects
    <2>3. MessageTypes'
      BY <1>5, Zenon DEF MessageTypes, Takes, OnlyTakes
    <2>4. WorkerTypes'
      BY <1>1, <2>1, Zenon DEF WorkerTypes
    <2> QED BY <2>2, <2>3, <2>4, Zenon
  <1>29. TypeOK' /\ MessagesDistinct'
    BY <1>7, <1>9, <1>28, <1>up, Zenon DEF TypeOK, MessagesDistinct, OnlyConnects
  <1>30. {w} \in SUBSET Workers /\ \A v \in {w} : UpOK(v)' /\ DownOK(v)' /\ LocalOK(v)' /\ CurrentOK(v)'
    BY <1>24, <1>25, Zenon
  <1> QED BY <1>1, <1>19, <1>20, <1>21, <1>26, <1>27, <1>29, <1>30, CallsStep, Zenon

LEMMA OnNewHandshakeIInv ==
    ASSUME IInv, NEW w \in Workers, OnNewHandshake(w)
    PROVE  IInv'
  <1>1. /\ conn[w] = "kCreated" /\ conn' = [conn EXCEPT ![w] = "kHandshake"]
        /\ func_workers' = func_workers \cup {w}
    BY Zenon DEF OnNewHandshake, OnFuncWorkerConnected
  <1>2. UNCHANGED <<flagVars, gateway_up, inflight_external_requests, handshake_done, up, workerVars,
                    fileVars, endVars>>
    BY Zenon DEF OnNewHandshake
  <1>3. /\ UNCHANGED <<flagVars, gateway_up, workerVars, output_fifo, outcome>>
        /\ UNCHANGED <<shm, result, inflight_external_requests, handshake_done, up>>
    BY <1>2, Zenon DEF fileVars, endVars
  <1>4. EngineTypes /\ ConnTypes /\ MessageTypes /\ CallTypes /\ MessagesDistinct /\ ConnOK(w) /\ LocalOK(w)
    BY Zenon DEF IInv, TypeOK, WorkerInv
  <1>5. PICK b : b = NoCall
    BY Zenon
  <1>6. running_workers[w] = b /\ current[w] = NoCall /\ proc[w] \in {"starting", "dead"}
    BY <1>1, <1>4, <1>5, Zenon DEF ConnOK, LocalOK
  <1>7. /\ \A v \in Workers : v # w => conn'[v] = conn[v]
        /\ conn'[w] = "kHandshake" /\ ConnTypes'
    BY <1>1, <1>3, <1>4, Zenon DEF ConnTypes
  <1>8. inflight_external_requests' \in Int /\ CallTypes'
    BY <1>3, <1>4, Zenon DEF EngineTypes, CallTypes
  <1>9. PICK d : d = down
    BY Zenon
  <1>10. PICK s : s = {}
    BY Zenon
  <1>11. DispatchPendingFuncCall(w, d, s)
    BY <1>9, <1>10, Zenon DEF OnNewHandshake, OnFuncWorkerConnected
  <1>12. /\ d \in [Workers -> Ways] /\ \A v \in Workers : DistinctOnTheWay(d[v])
         /\ \A v \in Workers : \A n \in OnTheWay(d[v]) : n \in Down(v)
    BY <1>4, <1>9, Zenon DEF MessageTypes, MessagesDistinct, Down
  <1>13. b \notin Calls /\ \A v \in Workers : \A n \in Up(v) \cup Down(v) : n.call # b
    BY <1>5, NoCallIsNone, Zenon
  <1>14. /\ up' \in [Workers -> Seq(Messages)]
         /\ \A v \in Workers : DistinctCalls(up'[v]) /\ Up(v)' \subseteq Up(v)
    BY <1>3, <1>4, Zenon DEF MessageTypes, MessagesDistinct, Up
  <1>15. \A v \in Workers : \A n \in Up(v)' : n.call # b
    BY <1>13, <1>14, Zenon
  <1>16. \A c \in Calls : c # b => /\ result'[c] = result[c]
                                   /\ <<"input", c>> \in shm' <=> <<"input", c>> \in shm
                                   /\ <<"output", c>> \in shm' <=> <<"output", c>> \in shm
    BY <1>3, Zenon
  <1>17. /\ func_workers' \subseteq func_workers \cup {w} /\ conn'[w] # "kCreated"
         /\ conn'[w] = "kHandshake" => proc[w] \in {"starting", "dead"}
    BY <1>1, <1>6, <1>7, Zenon
  <1>18. OnlyConnects(w) /\ OnlyEnds(b) /\ OnlyAnswers(d, b) /\ OnlyTakes(b)
    BY <1>7, <1>12, <1>13, <1>14, <1>15, <1>16, <1>17, Zenon
       DEF OnlyConnects, OnlyEnds, OnlyAnswers, OnlyTakes
  <1> QED BY <1>3, <1>6, <1>8, <1>11, <1>12, <1>18, PendingStep, Zenon

\* The engine takes a worker's message that it is done with a call.
LEMMA DoneRead ==
    ASSUME IInv, NEW w \in Workers, up[w] # <<>>, Head(up[w]).type \in {"complete", "failed"},
           up' = [up EXCEPT ![w] = Tail(@)], NEW m, m = Head(up[w]), NEW b, b = m.call
    PROVE  /\ m \in Messages /\ b \in Calls /\ DoneOK(w, m) /\ ~Discarded(b)
           /\ up' \in [Workers -> Seq(Messages)]
           /\ \A v \in Workers : /\ DistinctCalls(up'[v]) /\ Up(v)' \subseteq Up(v)
                                 /\ \A n \in Up(v)' : n.call # b
           /\ \A v \in Workers : \A n \in Down(v) : n.call # b
  <1>1. /\ m \in Messages /\ m \in Up(w) /\ up' \in [Workers -> Seq(Messages)]
        /\ \A v \in Workers : DistinctCalls(up'[v]) /\ Up(v)' \subseteq Up(v)
        /\ \A n \in Up(w)' : n.call # b
    BY EngineReads, Zenon
  <1>2. b \in Calls
    BY <1>1, Zenon DEF Messages
  <1>3. DoneOK(w, m) /\ m.type \in Done
    BY <1>1, Zenon DEF IInv, UpInv, InvokeOK, Done
  <1>4. running_workers[w] = b
    BY <1>3, Zenon DEF DoneOK
  <1>5. /\ \A v \in Workers : \A n \in Up(v) : n.call = b => v = w
        /\ \A v \in Workers : \A n \in Down(v) : n.call = b => v = w /\ n.type = "dispatch"
        /\ ~Discarded(b)
    BY <1>2, <1>4, RunningOnly
  <1>6. \A v \in Workers : \A n \in Down(v) : n.call # b
    <2> SUFFICES ASSUME NEW n \in Down(w), n.type = "dispatch" PROVE FALSE
      BY <1>5, Zenon
    <2>1. DispatchOK(w, n)
      BY Zenon DEF IInv, DownInv, AnswerOK, Done
    <2> QED BY <1>1, <1>3, <2>1, Zenon DEF DispatchOK
  <1> QED BY <1>1, <1>2, <1>3, <1>5, <1>6, Zenon

LEMMA OnRecvExternalDoneIInv ==
    ASSUME IInv, NEW w \in Workers, OnRecvExternalDone(w)
    PROVE  IInv'
  <1>1. PICK m : m = Head(up[w])
    BY Zenon
  <1>2. PICK b : b = m.call
    BY Zenon
  <1>3. /\ up[w] # <<>> /\ Head(up[w]).type \in {"complete", "failed"} /\ b \in ExternalCalls
        /\ up' = [up EXCEPT ![w] = Tail(@)]
        /\ conn[w] = "kRunning"
    BY <1>1, <1>2, Zenon DEF OnRecvExternalDone
  <1>4. /\ m \in Messages /\ b \in Calls /\ DoneOK(w, m) /\ ~Discarded(b)
        /\ up' \in [Workers -> Seq(Messages)]
        /\ \A v \in Workers : /\ DistinctCalls(up'[v]) /\ Up(v)' \subseteq Up(v)
                              /\ \A n \in Up(v)' : n.call # b
        /\ \A v \in Workers : \A n \in Down(v) : n.call # b
    BY <1>1, <1>2, <1>3, DoneRead, Zenon
  <1>5. /\ shm' = shm \ {<<"input", b>>, <<"output", b>>} /\ result' = [result EXCEPT ![b] = Told(m)]
        /\ inflight_external_requests' = inflight_external_requests - 1
    BY <1>1, <1>2, Zenon DEF OnRecvExternalDone
  <1>6. /\ UNCHANGED <<flagVars, gateway_up, workerVars, output_fifo, outcome>>
        /\ UNCHANGED <<func_workers, conn, handshake_done>>
    BY Zenon DEF OnRecvExternalDone, connVars
  <1>7. EngineTypes /\ ConnTypes /\ MessageTypes /\ CallTypes /\ MessagesDistinct /\ CallOK(b)
    BY <1>4, Zenon DEF IInv, TypeOK, CallInv
  <1>8. running_workers[w] = b /\ current[w] = NoCall /\ Reports(m)
    BY <1>2, <1>4, Zenon DEF DoneOK
  <1>9. /\ IF m.type = "complete" THEN outcome[b] = "ok" ELSE outcome[b] \in Failures
        /\ (m.shm <=> OutputThere(b))
    BY <1>2, <1>3, <1>8, Zenon DEF Reports, ByEngine
  <1>10. /\ Told(m) \in {"lost", "ok", "failed"}
         /\ Told(m) = "ok" => outcome[b] = "ok"
         /\ Told(m) = "failed" => outcome[b] \in Failures
    BY <1>1, <1>2, <1>3, <1>9, Zenon DEF Told, OutputThere
  <1>11. PICK r : r = Told(m)
    BY Zenon
  <1>12. result'[b] = r /\ \A c \in Calls : c # b => result'[c] = result[c]
    BY <1>4, <1>5, <1>7, <1>11, Zenon DEF CallTypes
  <1>13. <<"input", b>> \notin shm' /\ <<"output", b>> \notin shm'
    BY <1>5, Zenon
  <1>14. b \notin NestedCalls
    BY <1>3, CallAssumption, Zenon
  <1>15. NotRunning(b)' /\ (Discarded(b)' <=> Discarded(b)) => CallOK(b)'
    BY <1>4, <1>6, <1>10, <1>11, <1>12, <1>13, <1>14, Zenon
       DEF CallOK, Owned, OutputThere, NotStarted
  <1>16. \A c \in Calls : c # b => /\ result'[c] = result[c]
                                   /\ <<"input", c>> \in shm' <=> <<"input", c>> \in shm
                                   /\ <<"output", c>> \in shm' <=> <<"output", c>> \in shm
    BY <1>5, <1>12, Zenon
  <1>17. CallTypes'
    BY <1>5, <1>6, <1>7, <1>10, Zenon DEF CallTypes
  <1>18. ConnTypes' /\ inflight_external_requests' \in Int
    BY <1>5, <1>6, <1>7 DEF ConnTypes, EngineTypes
  <1>19. PICK d : d = down
    BY Zenon
  <1>20. PICK s : s = {}
    BY Zenon
  <1>21. DispatchPendingFuncCall(w, d, s)
    BY <1>19, <1>20, Zenon DEF OnRecvExternalDone
  <1>22. /\ d \in [Workers -> Ways] /\ \A v \in Workers : DistinctOnTheWay(d[v])
         /\ \A v \in Workers : \A n \in OnTheWay(d[v]) : n \in Down(v)
    BY <1>7, <1>19, Zenon DEF MessageTypes, MessagesDistinct, Down
  <1>23. /\ \A v \in Workers : v # w => conn'[v] = conn[v]
         /\ conn'[w] # "kCreated" /\ (conn'[w] = "kHandshake" => proc[w] \in {"starting", "dead"})
         /\ func_workers' \subseteq func_workers \cup {w}
    BY <1>3, <1>6, Zenon
  <1>24. OnlyConnects(w) /\ OnlyEnds(b) /\ OnlyAnswers(d, b) /\ OnlyTakes(b)
    BY <1>4, <1>15, <1>16, <1>18, <1>22, <1>23, Zenon
       DEF OnlyConnects, OnlyEnds, OnlyAnswers, OnlyTakes
  <1> QED BY <1>6, <1>8, <1>17, <1>18, <1>21, <1>22, <1>24, PendingStep, Zenon

LEMMA OnRecvNestedDoneIInv ==
    ASSUME IInv, NEW w \in Workers, OnRecvNestedDone(w)
    PROVE  IInv'
  <1>1. PICK m : m = Head(up[w])
    BY Zenon
  <1>2. PICK b : b = m.call
    BY Zenon
  <1>3. /\ up[w] # <<>> /\ Head(up[w]).type \in {"complete", "failed"} /\ b \in NestedCalls
        /\ up' = [up EXCEPT ![w] = Tail(@)]
        /\ conn[w] = "kRunning"
    BY <1>1, <1>2, Zenon DEF OnRecvNestedDone
  <1>4. /\ m \in Messages /\ b \in Calls /\ DoneOK(w, m) /\ ~Discarded(b)
        /\ up' \in [Workers -> Seq(Messages)]
        /\ \A v \in Workers : /\ DistinctCalls(up'[v]) /\ Up(v)' \subseteq Up(v)
                              /\ \A n \in Up(v)' : n.call # b
        /\ \A v \in Workers : \A n \in Down(v) : n.call # b
    BY <1>1, <1>2, <1>3, DoneRead, Zenon
  <1>5. UNCHANGED <<flagVars, gateway_up, func_workers, inflight_external_requests, connVars, workerVars,
                    fileVars, endVars>>
    BY Zenon DEF OnRecvNestedDone
  <1>6. /\ UNCHANGED <<flagVars, gateway_up, workerVars, output_fifo, outcome>>
        /\ UNCHANGED <<func_workers, conn, handshake_done, shm, result, inflight_external_requests>>
        /\ UNCHANGED <<use_fifo_for_nested_call, proc, waiting, held>>
    BY <1>5, Zenon DEF connVars, fileVars, endVars, flagVars, workerVars
  <1>7. EngineTypes /\ ConnTypes /\ MessageTypes /\ CallTypes /\ MessagesDistinct /\ CallOK(b)
    BY <1>4, Zenon DEF IInv, TypeOK, CallInv
  <1>8. running_workers[w] = b /\ current[w] = NoCall /\ Reports(m) /\ m.type \in Done
    BY <1>2, <1>4, Zenon DEF DoneOK
  <1>9. NotRunning(b)' /\ (Discarded(b)' <=> Discarded(b)) => CallOK(b)'
    <2> SUFFICES ASSUME NotRunning(b)', Discarded(b)' <=> Discarded(b) PROVE CallOK(b)'
      BY Zenon
    <2>1. Same(b)
      BY <1>6, Zenon DEF Same
    <2> QED BY <1>4, <1>6, <1>7, <2>1, SameKept, Zenon
  <1>10. \A c \in Calls : c # b => /\ result'[c] = result[c]
                                   /\ <<"input", c>> \in shm' <=> <<"input", c>> \in shm
                                   /\ <<"output", c>> \in shm' <=> <<"output", c>> \in shm
    BY <1>6, Zenon
  <1>11. CallTypes' /\ ConnTypes' /\ inflight_external_requests' \in Int
    BY <1>6, <1>7, Zenon DEF CallTypes, ConnTypes, EngineTypes
  <1>12. /\ \A v \in Workers : v # w => conn'[v] = conn[v]
         /\ conn'[w] # "kCreated" /\ (conn'[w] = "kHandshake" => proc[w] \in {"starting", "dead"})
         /\ func_workers' \subseteq func_workers \cup {w}
    BY <1>3, <1>6, Zenon
  <1>13. /\ down \in [Workers -> Ways] /\ \A v \in Workers : DistinctOnTheWay(down[v])
    BY <1>7, Zenon DEF MessageTypes, MessagesDistinct
  <1>14. OnlyConnects(w) /\ OnlyEnds(b) /\ OnlyTakes(b)
    BY <1>4, <1>9, <1>10, <1>11, <1>12, Zenon DEF OnlyConnects, OnlyEnds, OnlyTakes
  <1>15. CASE use_fifo_for_nested_call
    <2>1. PICK d : d = down
      BY Zenon
    <2>2. PICK s : s = {}
      BY Zenon
    <2>3. DispatchPendingFuncCall(w, d, s)
      BY <1>15, <2>1, <2>2, Zenon DEF OnRecvNestedDone
    <2>4. /\ d \in [Workers -> Ways] /\ \A v \in Workers : DistinctOnTheWay(d[v])
          /\ \A v \in Workers : \A n \in OnTheWay(d[v]) : n \in Down(v)
      BY <1>13, <2>1, Zenon DEF Down
    <2>5. OnlyAnswers(d, b)
      BY <1>4, <2>4, Zenon DEF OnlyAnswers
    <2> QED BY <1>6, <1>8, <1>11, <1>14, <2>3, <2>4, <2>5, PendingStep, Zenon
  <1>16. CASE ~use_fifo_for_nested_call
    <2>1. PICK u \in Workers : u = Caller[b]
      BY <1>3, CallAssumption, Zenon
    <2>2. PICK d : d = WriteMessage(down, u, m)
      BY Zenon
    <2>3. PICK s : s = {u}
      BY Zenon
    <2>4. DispatchPendingFuncCall(w, d, s)
      BY <1>1, <1>2, <1>16, <2>1, <2>2, <2>3, Zenon DEF OnRecvNestedDone
    <2>5. \A n \in OnTheWay(down[u]) : n.call # m.call
      BY <1>2, <1>4, Zenon DEF Down
    <2>6. /\ d \in [Workers -> Ways] /\ \A v \in Workers : v # u => d[v] = down[v]
          /\ \A n : n \in OnTheWay(d[u]) <=> n \in OnTheWay(down[u]) \/ n = m
          /\ DistinctOnTheWay(d[u])
      <3> DEFINE e == WriteMessage(down, u, m)
      <3>1. e \in [Workers -> Ways]
        BY <1>4, <1>13, Written, Zenon
      <3>2. \A v \in Workers : v # u => e[v] = down[v]
        BY <1>4, <1>13, Written, Zenon
      <3>3. \A n : n \in OnTheWay(e[u]) <=> n \in OnTheWay(down[u]) \/ n = m
        BY <1>4, <1>13, Written, Zenon
      <3>4. DistinctOnTheWay(down[u]) /\ (\A n \in OnTheWay(down[u]) : n.call # m.call)
               => DistinctOnTheWay(e[u])
        BY <1>4, <1>13, Written, Zenon
      <3> HIDE DEF e
      <3>5. d = e
        BY <2>2, Zenon DEF e
      <3> QED BY <1>13, <2>5, <3>1, <3>2, <3>3, <3>4, <3>5, Zenon
    <2>7. NotRunning(b)' => AnswerOK(u, m)'
      <3>1. /\ Awaited(b)
            /\ IF m.type = "complete" THEN outcome[b] = "ok" ELSE outcome[b] \in Failures
            /\ m.shm <=> OutputThere(b)
        BY <1>2, <1>8, <1>16 DEF Reports, ByEngine
      <3>2. Awaited(b)' /\ (OutputThere(b)' <=> OutputThere(b))
        BY <1>6, <3>1, Zenon DEF Awaited, OutputThere
      <3>3. Reports(m)'
        BY <1>2, <1>6, <1>16, <3>1, <3>2, Zenon DEF Reports, ByEngine
      <3> QED BY <1>2, <1>3, <1>6, <1>8, <1>16, <2>1, <3>3, Zenon DEF AnswerOK
    <2>8. /\ \A v \in Workers : DistinctOnTheWay(d[v])
          /\ \A v \in Workers : \A n \in OnTheWay(d[v]) :
                n \in Down(v) \/ (n.call = b /\ b \in Calls /\ (NotRunning(b)' => AnswerOK(v, n)'))
      BY <1>2, <1>4, <1>13, <2>6, <2>7, Zenon DEF Down
    <2>9. OnlyAnswers(d, b)
      BY <1>4, <2>8, Zenon DEF OnlyAnswers
    <2> QED BY <1>6, <1>8, <1>11, <1>14, <2>4, <2>6, <2>9, PendingStep, Zenon
  <1> QED BY <1>15, <1>16, Zenon

=============================================================================
