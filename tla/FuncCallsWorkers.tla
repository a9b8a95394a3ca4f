-------------------------- MODULE FuncCallsWorkers --------------------------
(***************************************************************************)
(* The steps of a worker that connects, runs a function, calls another one *)
(* and waits for it, or dies, preserve the inductive invariant of          *)
(* FuncCallsLemmas.                                                        *)
(***************************************************************************)
EXTENDS FuncCallsLemmas

-----------------------------------------------------------------------------
(***************************************************************************)
(* Steps of one worker.                                                    *)
(***************************************************************************)

\* The step is one of worker w.
StepOf(w) ==
    \A v \in Workers : v # w =>
        /\ up'[v] = up[v] /\ down'[v] = down[v] /\ current'[v] = current[v]
        /\ proc'[v] = proc[v] /\ writing'[v] = writing[v]
        /\ waiting'[v] = waiting[v] /\ held'[v] = held[v]

LEMMA WorkerStep ==
    ASSUME IInv, UNCHANGED <<flagVars, engineVars, connVars>>,
           NEW w \in Workers, NEW c, StepOf(w), MessageTypes', WorkerTypes', CallTypes',
           DistinctCalls(up'[w]), DistinctOnTheWay(down'[w]),
           proc[w] \notin {"starting", "dead"} \/ proc'[w] = "dead" \/ conn[w] = "kRunning",
           NotQueued(c), \A d \in Calls : CallOK(d)' /\ (d # c => Kept(d)),
           \A v \in Workers : v # w => Unconcerned(v, c),
           UpOK(w)', DownOK(w)', LocalOK(w)', CurrentOK(w)'
    PROVE  IInv'
  <1>1. UNCHANGED <<use_fifo_for_nested_call, direct_write, lib, engine_up, gateway_up, func_workers,
                    running_workers, pending_func_calls, discarding, inflight_external_requests,
                    conn, handshake_done>>
    BY Zenon DEF flagVars, engineVars, dispatcherVars, connVars
  <1>2. EngineTypes' /\ ConnTypes'
    BY <1>1, Zenon DEF IInv, TypeOK, EngineTypes, ConnTypes
  <1>3. TypeOK'
    BY <1>2, Zenon DEF TypeOK
  <1>4. MessagesDistinct'
    BY <1>1, Zenon DEF IInv, MessagesDistinct, StepOf
  <1>5. \A v \in Workers : ConnOK(v)'
    <2>1. \A v \in Workers : ConnOK(v)
      BY Zenon DEF IInv, WorkerInv
    <2> QED BY <1>1, <2>1, Zenon DEF ConnOK, StepOf
  <1>6. \A v \in Workers \ {w} : Untouched(v) /\ Unconcerned(v, c)
    BY <1>1, Zenon DEF StepOf, Untouched, Up, Down
  <1>7. {w} \in SUBSET Workers /\ \A v \in {w} : UpOK(v)' /\ DownOK(v)' /\ LocalOK(v)' /\ CurrentOK(v)'
    BY Zenon
  <1> QED BY <1>1, <1>3, <1>4, <1>5, <1>6, <1>7, StepIInv, Zenon

\* Worker w takes a message from its FIFO.
LEMMA WorkerReads ==
    ASSUME IInv, NEW w \in Workers, down[w].fifo # <<>>,
           down' = [down EXCEPT ![w].fifo = Tail(@)]
    PROVE  LET h == Head(down[w].fifo)
           IN  /\ h \in Messages /\ h \in Down(w) /\ Down(w)' \subseteq Down(w)
               /\ \A n \in Down(w)' : n.call # h.call
               /\ down' \in [Workers -> Ways] /\ DistinctOnTheWay(down'[w])
               /\ \A v \in Workers : v # w => down'[v] = down[v]
  <1> DEFINE e == [down[w] EXCEPT !.fifo = Tail(@)]
             h == Head(down[w].fifo)
  <1>1. down \in [Workers -> Ways] /\ down[w] \in Ways /\ DistinctOnTheWay(down[w])
    BY Zenon DEF IInv, TypeOK, MessageTypes, MessagesDistinct
  <1>2. /\ h \in Messages /\ e \in Ways /\ DistinctOnTheWay(e)
        /\ OnTheWay(down[w]) = OnTheWay(e) \cup {h}
        /\ \A n \in OnTheWay(e) : n.call # h.call
    BY <1>1, Read, Zenon
  <1>3. down' = [down EXCEPT ![w] = e]
    BY <1>1, Zenon
  <1> HIDE DEF e, h
  <1>4. down'[w] = e /\ down' \in [Workers -> Ways] /\ \A v \in Workers : v # w => down'[v] = down[v]
    BY <1>1, <1>2, <1>3, Zenon
  <1> QED BY <1>2, <1>4, Zenon DEF Down, h

\* Worker w writes a message to the engine.
LEMMA WorkerSends ==
    ASSUME IInv, NEW w \in Workers, NEW m \in Messages, Sends(w, m),
           \A n \in Up(w) : n.call # m.call
    PROVE  /\ up' \in [Workers -> Seq(Messages)] /\ DistinctCalls(up'[w])
           /\ Up(w)' = Up(w) \cup {m}
           /\ \A v \in Workers : v # w => up'[v] = up[v]
  <1>1. up \in [Workers -> Seq(Messages)] /\ up[w] \in Seq(Messages) /\ DistinctCalls(up[w])
    BY Zenon DEF IInv, TypeOK, MessageTypes, MessagesDistinct
  <1>2. /\ Append(up[w], m) \in Seq(Messages) /\ Range(Append(up[w], m)) = Range(up[w]) \cup {m}
        /\ DistinctCalls(Append(up[w], m))
    BY <1>1, Appended, Zenon DEF Up
  <1>3. /\ up' \in [Workers -> Seq(Messages)] /\ up'[w] = Append(up[w], m)
        /\ \A v \in Workers : v # w => up'[v] = up[v]
    BY <1>1, <1>2, Zenon DEF Sends
  <1> QED BY <1>2, <1>3, Zenon DEF Up

\* The messages from worker w, while it executes and while it does not.
LEMMA UpKept ==
    ASSUME IInv, NEW w \in Workers, NEW m \in Up(w), Kept(m.call),
           UNCHANGED <<use_fifo_for_nested_call, pending_func_calls, running_workers>>,
           current[w] # NoCall \/ current'[w] = NoCall \/ m.type = "invoke"
    PROVE  (InvokeOK(w, m) \/ DoneOK(w, m))'
  <1>1. InvokeOK(w, m) \/ DoneOK(w, m)
    BY Zenon DEF IInv, UpInv
  <1>2. CASE InvokeOK(w, m)
    <2>1. NotQueued(m.call)'
      BY <1>2, Zenon DEF InvokeOK, NotQueued, Queue
    <2> QED BY <1>2, <2>1, MessageKept, Zenon
  <1>3. CASE DoneOK(w, m)
    <2>1. running_workers'[w] = m.call /\ current'[w] = NoCall
      BY <1>3, Zenon DEF DoneOK, Done
    <2> QED BY <1>3, <2>1, MessageKept, Zenon
  <1> QED BY <1>1, <1>2, <1>3, Zenon

\* The answers on their way to worker w.
LEMMA DownKept ==
    ASSUME IInv, NEW w \in Workers, NEW m \in Down(w), Kept(m.call),
           UNCHANGED <<use_fifo_for_nested_call, running_workers>>,
           \/ m.type # "dispatch" \/ current[w] # NoCall
           \/ current'[w] = NoCall /\ Up(w)' \subseteq Up(w)
    PROVE  (DispatchOK(w, m) \/ AnswerOK(w, m))'
  <1>1. DispatchOK(w, m) \/ AnswerOK(w, m)
    BY Zenon DEF IInv, DownInv
  <1>2. CASE AnswerOK(w, m)
    BY <1>2, MessageKept, Zenon
  <1>3. CASE DispatchOK(w, m)
    <2>1. /\ running_workers'[w] = m.call /\ current'[w] = NoCall
          /\ \A n \in Up(w)' : n.type \notin Done
      BY <1>3, Zenon DEF DispatchOK
    <2> QED BY <1>3, <2>1, MessageKept, Zenon
  <1> QED BY <1>1, <1>2, <1>3, Zenon

\* A step of worker w that keeps what is right of all calls, and sends nothing.
LEMMA SilentStep ==
    ASSUME IInv, UNCHANGED <<flagVars, engineVars, connVars, up, down>>,
           NEW w \in Workers, StepOf(w), WorkerTypes', CallTypes',
           \A d \in Calls : Kept(d) /\ CallOK(d)',
           proc[w] \notin {"starting", "dead"} \/ proc'[w] = "dead" \/ conn[w] = "kRunning",
           \/ current'[w] = NoCall
           \/ current'[w] = current[w] /\ proc'[w] = proc[w] /\ writing'[w] = writing[w],
           LocalOK(w)'
    PROVE  IInv'
  <1>1. UNCHANGED <<use_fifo_for_nested_call, lib, running_workers, pending_func_calls, discarding>>
    BY Zenon DEF flagVars, engineVars, dispatcherVars
  <1>2. Up(w)' = Up(w) /\ Down(w)' = Down(w) /\ MessageTypes'
    BY <1>1, Zenon DEF Up, Down, IInv, TypeOK, MessageTypes
  <1>3. UpOK(w)' /\ DownOK(w)'
    BY <1>1, <1>2, NoCallIsNone, UpKept, DownKept, Zenon DEF UpOK, DownOK
  <1>4. CurrentOK(w)'
    <2>1. CASE current'[w] = NoCall
      BY <2>1, Zenon DEF CurrentOK
    <2>2. CASE current'[w] # NoCall
      <3>1. PICK c \in Calls : c = current[w]
        BY <2>2, Zenon DEF IInv, TypeOK, WorkerTypes
      <3>2. Kept(c) /\ CurrentOK(w)
        BY <3>1, Zenon DEF IInv, WorkerInv
      <3> QED BY <1>1, <2>2, <3>1, <3>2, Zenon DEF CurrentOK, Kept
    <2> QED BY <2>1, <2>2, Zenon
  <1>5. DistinctCalls(up'[w]) /\ DistinctOnTheWay(down'[w])
    BY Zenon DEF IInv, MessagesDistinct
  <1> QED BY <1>2, <1>3, <1>4, <1>5, NoCallIsNone, WorkerStep, Zenon

LEMMA DoHandshakeIInv ==
    ASSUME IInv, NEW w \in Workers, doHandshake(w)
    PROVE  IInv'
  <1>1. /\ UNCHANGED <<flagVars, engineVars, connVars, down, up, current, waiting, held, writing,
                       shm, output_fifo, result, outcome>>
        /\ proc' = [proc EXCEPT ![w] = "idle"] /\ proc[w] = "starting" /\ conn[w] = "kRunning"
    BY Zenon DEF doHandshake, fileVars, endVars
  <1>2. UNCHANGED <<use_fifo_for_nested_call, lib, running_workers, discarding>>
    BY <1>1, Zenon DEF flagVars, engineVars, dispatcherVars
  <1>3. WorkerTypes' /\ CallTypes' /\ StepOf(w)
    BY <1>1, <1>2, Zenon DEF IInv, TypeOK, WorkerTypes, CallTypes, StepOf
  <1>4. \A d \in Calls : Same(d)
    BY <1>1, <1>2, CallAssumption, Zenon
    DEF Same, NotRunning, Discarded, IInv, TypeOK, WorkerTypes
  <1>5. \A d \in Calls : Kept(d) /\ CallOK(d)'
    BY <1>2, <1>4, SameKept, Zenon DEF IInv, CallInv
  <1>6. LocalOK(w) /\ current[w] = NoCall /\ proc'[w] = "idle"
    BY <1>1, Zenon DEF IInv, WorkerInv, LocalOK, TypeOK, WorkerTypes
  <1>7. LocalOK(w)'
    BY <1>1, <1>2, <1>6, Zenon DEF LocalOK
  <1> QED BY <1>1, <1>3, <1>5, <1>6, <1>7, SilentStep, Zenon

LEMMA ExecuteFuncIInv ==
    ASSUME IInv, NEW w \in Workers, ExecuteFunc(w)
    PROVE  IInv'
  <1>0. PICK m \in Messages : m = Head(down[w].fifo)
    BY WorkerReads, Zenon DEF ExecuteFunc
  <1> DEFINE c == m.call
             n == Message("failed", c, FALSE)
  <1>1. /\ UNCHANGED <<flagVars, engineVars, connVars, waiting, held, writing, shm, output_fifo,
                       result, outcome>>
        /\ down[w].fifo # <<>> /\ down' = [down EXCEPT ![w].fifo = Tail(@)]
        /\ m.type = "dispatch" /\ proc[w] = "idle"
        /\ \/ ~GetFuncCallInput(m) /\ Sends(w, n) /\ UNCHANGED <<proc, current>>
           \/ /\ proc' = [proc EXCEPT ![w] = "executing"]
              /\ current' = [current EXCEPT ![w] = c]
              /\ UNCHANGED up
    BY <1>0, Zenon DEF ExecuteFunc, fileVars, endVars
  <1>2. UNCHANGED <<use_fifo_for_nested_call, lib, running_workers, pending_func_calls, discarding>>
    BY <1>1, Zenon DEF flagVars, engineVars, dispatcherVars
  <1>3. /\ m \in Messages /\ m \in Down(w) /\ Down(w)' \subseteq Down(w)
        /\ \A k \in Down(w)' : k.call # c
        /\ down' \in [Workers -> Ways] /\ DistinctOnTheWay(down'[w])
        /\ \A v \in Workers : v # w => down'[v] = down[v]
    BY <1>0, <1>1, WorkerReads, Zenon
  <1>4. DispatchOK(w, m) /\ c \in Calls /\ c # NoCall
    BY <1>1, <1>3, CallAssumption, Zenon DEF IInv, DownInv, AnswerOK, Done, Messages
  <1>5. /\ running_workers[w] = c /\ current[w] = NoCall /\ outcome[c] = "none" /\ Awaited(c)
        /\ \A k \in Up(w) : k.type \notin Done
        /\ m.shm => InputThere(c)
    BY <1>4, Zenon DEF DispatchOK
  <1>6. /\ \A v \in Workers : \A k \in Up(v) : k.call # c
        /\ ~Discarded(c)
    BY <1>4, <1>5, RunningOnly
  <1>7. \A k \in Down(w)' : k \in Down(w) /\ k.type # "dispatch"
    BY <1>3, <1>4, <1>5 DEF IInv, DownInv, DispatchOK, AnswerOK, Done
  <1>8. \A k \in Up(w) : k.type = "invoke"
    BY <1>5, Zenon DEF IInv, UpInv, InvokeOK, DoneOK
  <1>9. CallOK(c) /\ LocalOK(w)
    BY <1>4, Zenon DEF IInv, CallInv, WorkerInv
  <1>10. proc \in [Workers -> {"starting", "idle", "executing", "writing", "dead"}]
    BY Zenon DEF IInv, TypeOK, WorkerTypes
  <1>11. \A d \in Calls : Same(d)
    BY <1>1, <1>2, <1>10, CallAssumption, Zenon DEF Same, NotRunning, Discarded
  <1>12. \A d \in Calls : Kept(d) /\ CallOK(d)'
    BY <1>2, <1>11, SameKept, Zenon DEF IInv, CallInv
  <1>13. DownOK(w)'
    BY <1>2, <1>7, <1>12, NoCallIsNone, DownKept, Zenon DEF DownOK
  <1>14. CASE ~GetFuncCallInput(m) /\ Sends(w, n) /\ UNCHANGED <<proc, current>>
    <2>1. n \in Messages /\ n.call = c /\ n.type = "failed" /\ ~n.shm
      BY <1>4, Zenon DEF Message, Messages
    <2>2. /\ up' \in [Workers -> Seq(Messages)] /\ DistinctCalls(up'[w]) /\ Up(w)' = Up(w) \cup {n}
          /\ \A v \in Workers : v # w => up'[v] = up[v]
      BY <1>6, <1>14, <2>1, WorkerSends, Zenon
    <2>3. ~ByEngine(c) /\ ~ByEngine(c)'
      <3>1. result[c] = "timeout"
        BY <1>5, <1>14, Zenon DEF GetFuncCallInput, InputThere
      <3> QED BY <1>2, <1>9, <3>1, CallAssumption, Zenon DEF CallOK, ByEngine
    <2>4. DoneOK(w, n)'
      BY <1>2, <1>5, <1>14, <2>1, <2>3, Zenon DEF DoneOK, Reports, Done
    <2>5. \A k \in Up(w) : (InvokeOK(w, k) \/ DoneOK(w, k))'
      BY <1>2, <1>8, <1>12, NoCallIsNone, UpKept, Zenon
    <2>6. UpOK(w)'
      BY <2>2, <2>4, <2>5, Zenon DEF UpOK
    <2>7. MessageTypes' /\ WorkerTypes' /\ CallTypes' /\ StepOf(w)
      BY <1>1, <1>2, <1>3, <1>14, <2>2, Zenon
         DEF IInv, TypeOK, MessageTypes, WorkerTypes, CallTypes, StepOf
    <2>8. LocalOK(w)' /\ CurrentOK(w)'
      BY <1>1, <1>2, <1>5, <1>9, <1>14, Zenon DEF LocalOK, CurrentOK
    <2> QED BY <1>1, <1>3, <1>12, <1>13, <2>2, <2>6, <2>7, <2>8, NoCallIsNone, WorkerStep, Zenon
  <1>15. CASE /\ proc' = [proc EXCEPT ![w] = "executing"]
              /\ current' = [current EXCEPT ![w] = c]
              /\ UNCHANGED up
    <2>1. MessageTypes' /\ WorkerTypes' /\ CallTypes' /\ StepOf(w)
      BY <1>1, <1>2, <1>3, <1>4, <1>15, Zenon
      DEF IInv, TypeOK, MessageTypes, WorkerTypes, CallTypes, StepOf
    <2>2. proc'[w] = "executing" /\ current'[w] = c
      BY <1>15, Zenon DEF IInv, TypeOK, WorkerTypes
    <2>3. \A k \in Up(w) : (InvokeOK(w, k) \/ DoneOK(w, k))'
      BY <1>2, <1>8, <1>12, NoCallIsNone, UpKept, Zenon
    <2>4. UpOK(w)' /\ DistinctCalls(up'[w])
      BY <1>15, <2>3, Zenon DEF UpOK, Up, IInv, MessagesDistinct
    <2>5. LocalOK(w)'
      BY <1>1, <1>2, <1>4, <1>5, <1>9, <2>2, Zenon DEF LocalOK
    <2>6. CurrentOK(w)'
      <3>1. ~OutputThere(c)' /\ (c \in NestedCalls => output_fifo[c] \notin Readable)
        BY <1>1, <1>5, <1>6, <1>9, Zenon DEF CallOK, FifoOK, OutputThere, Readable
      <3>2. Awaited(c)'
        BY <1>4, <1>5, <1>12, Zenon DEF Kept
      <3> QED BY <1>1, <1>2, <1>5, <2>2, <3>1, <3>2, Zenon DEF CurrentOK
    <2> QED BY <1>1, <1>3, <1>12, <1>13, <2>1, <2>4, <2>5, <2>6, NoCallIsNone, WorkerStep, Zenon
  <1> QED BY <1>1, <1>14, <1>15, Zenon

LEMMA InvokeFuncIInv ==
    ASSUME IInv, NEW w \in Workers, NEW g \in NestedCalls, NEW big \in BOOLEAN, InvokeFunc(w, g, big)
    PROVE  IInv'
  <1> DEFINE n == Message("invoke", g, big)
  <1>1. /\ UNCHANGED <<flagVars, engineVars, connVars, down, proc, current, held, writing, outcome>>
        /\ proc[w] = "executing" /\ Caller[g] = w /\ result[g] = "unused"
        /\ lib = "v1" /\ ~use_fifo_for_nested_call => waiting[w] = {}
        /\ shm' = IF big THEN shm \cup {<<"input", g>>} ELSE shm
        /\ output_fifo' = IF use_fifo_for_nested_call THEN [output_fifo EXCEPT ![g] = "empty"]
                          ELSE output_fifo
        /\ Sends(w, n)
        /\ waiting' = [waiting EXCEPT ![w] = @ \cup {g}]
        /\ result' = [result EXCEPT ![g] = "open"]
    BY Zenon DEF InvokeFunc, PrepareNewFuncCall, CreateOutputFifo
  <1>2. UNCHANGED <<use_fifo_for_nested_call, lib, running_workers, pending_func_calls, discarding>>
    BY <1>1, Zenon DEF flagVars, engineVars, dispatcherVars
  <1>3. g \in Calls /\ g \notin ExternalCalls /\ g # NoCall /\ n \in Messages /\ n.call = g
    BY CallAssumption, Zenon DEF Calls, Message, Messages
  <1>4. CallOK(g) /\ NotStarted(g) /\ LocalOK(w) /\ CurrentOK(w)
    BY <1>1, <1>3, Zenon DEF IInv, CallInv, CallOK, WorkerInv
  <1>5. current[w] # NoCall
    BY <1>1, <1>4, Zenon DEF LocalOK
  <1>6. ~Awaited(g)
    BY <1>1, <1>3, Zenon DEF Awaited
  <1>7. /\ \A v \in Workers : \A m \in Up(v) \cup Down(v) : m.call # g
        /\ \A v \in Workers : current[v] # g
        /\ NotQueued(g)
    <2>1. \A v \in Workers : \A m \in Up(v) : m.call # g
      BY <1>3, <1>4, <1>6, NotOnTheWay DEF IInv, UpInv, InvokeOK, DoneOK, Done
    <2>2. NotQueued(g)
      BY <1>6, Zenon DEF IInv, QueueInv, QueuedOK, NotQueued
    <2> QED BY <1>3, <1>4, <2>1, <2>2, NotOnTheWay, Zenon
  <1>8. /\ up' \in [Workers -> Seq(Messages)] /\ DistinctCalls(up'[w]) /\ Up(w)' = Up(w) \cup {n}
        /\ \A v \in Workers : v # w => up'[v] = up[v]
    BY <1>1, <1>3, <1>7, WorkerSends
  <1>9. /\ waiting \in [Workers -> SUBSET NestedCalls]
        /\ result \in [Calls -> {"unused", "open", "ok", "failed", "timeout", "lost"}]
        /\ output_fifo \in [NestedCalls -> {"none", "empty", "failed", "data", "region", "left"}]
        /\ shm \subseteq {"input", "output"} \X Calls
    BY Zenon DEF IInv, TypeOK, WorkerTypes, CallTypes
  <1>10. \A d \in Calls : d # g => Same(d)
    BY <1>1, <1>2, <1>9, CallAssumption, Zenon DEF Same, NotRunning, Discarded
  <1>11. \A d \in Calls : d # g => Kept(d) /\ CallOK(d)'
    BY <1>2, <1>10, CallsSame, Zenon
  <1>12. result'[g] = "open" /\ g \in waiting'[w] /\ outcome'[g] = "none" /\ NotStarted(g)'
    BY <1>1, <1>2, <1>3, <1>4, <1>9, Zenon DEF NotStarted, Discarded, NotRunning
  <1>13. CallOK(g)'
    <2>1. ~OutputThere(g) /\ ~OutputThere(g)'
      BY <1>1, <1>4, Zenon DEF CallOK, NotStarted, OutputThere
    <2>2. Owned(g)'
      BY <1>1, <1>12, <2>1, Zenon DEF Owned, OutputThere
    <2>3. FifoOK(g)'
      <3>1. CASE use_fifo_for_nested_call
        <4>1. output_fifo'[g] = "empty"
          BY <1>1, <1>9, <3>1, Zenon
        <4> QED BY <1>2, <3>1, <4>1, Zenon DEF FifoOK, Readable
      <3>2. CASE ~use_fifo_for_nested_call
        <4>1. output_fifo'[g] = "none"
          BY <1>1, <1>4, <3>2, Zenon DEF CallOK, FifoOK
        <4> QED BY <4>1, Zenon DEF FifoOK, Readable
      <3> QED BY <3>1, <3>2, Zenon
    <2>4. g \notin held'[Caller[g]]
      BY <1>1, <1>4, Zenon DEF CallOK
    <2> QED BY <1>12, <2>1, <2>2, <2>3, <2>4, Zenon DEF CallOK, NotStarted
  <1>14. InvokeOK(w, n)'
    <2>1. NotQueued(g)'
      BY <1>2, <1>7, Zenon DEF NotQueued, Queue
    <2>2. Awaited(g)' /\ (big => InputThere(g)')
      BY <1>1, <1>3, <1>12, Zenon DEF Awaited, InputThere
    <2> QED BY <1>1, <1>12, <2>1, <2>2, Zenon DEF InvokeOK, Message
  <1>15. UpOK(w)'
    <2>1. \A m \in Up(w) : (InvokeOK(w, m) \/ DoneOK(w, m))'
      BY <1>2, <1>5, <1>7, <1>11, NoCallIsNone, UpKept, Zenon
    <2> QED BY <1>8, <1>14, <2>1, Zenon DEF UpOK
  <1>16. DownOK(w)'
    <2>1. Down(w)' = Down(w)
      BY <1>1, Zenon DEF Down
    <2> QED BY <1>2, <1>5, <1>7, <1>11, <2>1, NoCallIsNone, DownKept, Zenon DEF DownOK
  <1>17. LocalOK(w)'
    BY <1>1, <1>2, <1>4, <1>9, Zenon DEF LocalOK
  <1>18. CurrentOK(w)'
    <2>1. PICK c \in Calls : c = current[w] /\ c # g
      BY <1>5, <1>7, Zenon DEF IInv, TypeOK, WorkerTypes
    <2>2. Kept(c)
      BY <1>11, <2>1, Zenon
    <2> QED BY <1>1, <1>2, <1>4, <1>5, <2>1, <2>2, Zenon DEF CurrentOK, Kept
  <1>19. MessageTypes' /\ WorkerTypes' /\ CallTypes' /\ StepOf(w)
    BY <1>1, <1>2, <1>3, <1>8, <1>9 DEF IInv, TypeOK, MessageTypes, WorkerTypes, CallTypes, StepOf
  <1>20. DistinctOnTheWay(down'[w]) /\ \A v \in Workers : Unconcerned(v, g)
    BY <1>1, <1>7, Zenon DEF IInv, MessagesDistinct, Unconcerned
  <1>21. \A d \in Calls : CallOK(d)' /\ (d # g => Kept(d))
    BY <1>11, <1>13, Zenon
  <1> QED BY <1>1, <1>7, <1>8, <1>15, <1>16, <1>17, <1>18, <1>19, <1>20, <1>21, WorkerStep, Zenon

\* The answer to call g reaches its caller, and says what became of the call.
LEMMA AnswerStep ==
    ASSUME IInv, NEW w \in Workers, NEW g \in NestedCalls, NEW r \in {"ok", "failed"},
           NEW big \in BOOLEAN, Answered(w, g, r, big),
           UNCHANGED <<flagVars, engineVars, connVars, up, proc, current, writing, outcome>>,
           g \in waiting[w], proc[w] \notin {"starting", "dead"}, lib = "v1" => proc[w] = "executing",
           r = "ok" => outcome[g] = "ok", r = "failed" => outcome[g] \in Failures \/ Discarded(g),
           big <=> OutputThere(g), ~use_fifo_for_nested_call => NotRunning(g),
           output_fifo' \in [NestedCalls -> {"none", "empty", "failed", "data", "region", "left"}],
           \A d \in NestedCalls : d # g => output_fifo'[d] = output_fifo[d],
           output_fifo'[g] = "none" \/ (output_fifo'[g] = "left" /\ use_fifo_for_nested_call /\ lib # "v1"),
           down' \in [Workers -> Ways], DistinctOnTheWay(down'[w]),
           Down(w)' \subseteq Down(w), \A m \in Down(w)' : m.call # g,
           \A v \in Workers : v # w => down'[v] = down[v] /\ \A m \in Down(v) : m.call # g,
           NotQueued(g), \A v \in Workers : current[v] # g,
           \A v \in Workers : \A m \in Up(v) : m.call = g => m.type \in Done /\ use_fifo_for_nested_call
    PROVE  IInv'
  <1>1. /\ result' = [result EXCEPT ![g] = r]
        /\ waiting' = [waiting EXCEPT ![w] = @ \ {g}]
        /\ held' = IF lib = "v1" /\ big THEN [held EXCEPT ![w] = @ \cup {g}] ELSE held
        /\ shm' = shm \ ({<<"input", g>>} \cup (IF lib # "v1" /\ big THEN {<<"output", g>>} ELSE {}))
    BY Zenon DEF Answered, OutputThere
  <1>2. UNCHANGED <<use_fifo_for_nested_call, lib, running_workers, pending_func_calls, discarding>>
    BY Zenon DEF flagVars, engineVars, dispatcherVars
  <1>3. g \in Calls /\ g \notin ExternalCalls
    BY CallAssumption, Zenon DEF Calls
  <1>4. CallOK(g) /\ LocalOK(w) /\ CurrentOK(w) /\ Caller[g] = w
    BY <1>3, Zenon DEF IInv, CallInv, WorkerInv, LocalOK
  <1>5. /\ waiting \in [Workers -> SUBSET NestedCalls] /\ held \in [Workers -> SUBSET NestedCalls]
        /\ result \in [Calls -> {"unused", "open", "ok", "failed", "timeout", "lost"}]
        /\ shm \subseteq {"input", "output"} \X Calls
    BY Zenon DEF IInv, TypeOK, WorkerTypes, CallTypes
  <1>6. \A d \in Calls : d # g => Same(d)
    BY <1>1, <1>2, <1>5, CallAssumption, Zenon DEF Same, NotRunning, Discarded, Calls
  <1>7. \A d \in Calls : d # g => Kept(d) /\ CallOK(d)'
    BY <1>2, <1>6, CallsSame, Zenon
  <1>8. /\ result'[g] = r /\ g \notin waiting'[w] /\ <<"input", g>> \notin shm'
        /\ OutputThere(g)' => OutputThere(g) /\ g \in held'[w]
        /\ g \in held'[w] => g \in held[w] \/ lib = "v1"
        /\ NotRunning(g) => NotRunning(g)'
        /\ Discarded(g)' <=> Discarded(g)
    BY <1>1, <1>2, <1>3, <1>5, Zenon DEF OutputThere, NotRunning, Discarded
  <1>9. CallOK(g)'
    <2>1. Owned(g)'
      BY <1>4, <1>8, Zenon DEF Owned, OutputThere
    <2>2. FifoOK(g)'
      BY <1>2, Zenon DEF FifoOK, Readable
    <2>3. g \in held'[w] => output_fifo'[g] = "none"
      BY <1>4, <1>8, Zenon DEF CallOK
    <2> QED BY <1>2, <1>4, <1>8, <2>1, <2>2, <2>3, Zenon DEF CallOK
  <1>10. UpOK(w)'
    <2> SUFFICES ASSUME NEW m \in Up(w) PROVE (InvokeOK(w, m) \/ DoneOK(w, m))'
      BY Zenon DEF UpOK, Up
    <2>1. CASE m.call = g
      <3>1. m.type \in Done /\ use_fifo_for_nested_call
        BY <2>1, Zenon
      <3>2. DoneOK(w, m)
        BY <3>1, Zenon DEF IInv, UpInv, InvokeOK, Done
      <3> QED BY <1>2, <1>3, <2>1, <3>1, <3>2, Zenon DEF DoneOK, Reports, ByEngine
    <2>2. CASE m.call # g
      BY <1>2, <1>7, <2>2, NoCallIsNone, UpKept, Zenon
    <2> QED BY <2>1, <2>2, Zenon
  <1>11. DownOK(w)'
    <2>1. Up(w)' = Up(w) /\ current'[w] = current[w]
      BY Zenon DEF Up
    <2> QED BY <1>2, <1>7, <2>1, NoCallIsNone, DownKept, Zenon DEF DownOK
  <1>12. LocalOK(w)'
    BY <1>1, <1>2, <1>4, <1>5, Zenon DEF LocalOK
  <1>13. CurrentOK(w)'
    <2>1. CASE current[w] = NoCall
      BY <2>1, Zenon DEF CurrentOK
    <2>2. CASE current[w] # NoCall
      <3>1. PICK c \in Calls : c = current[w] /\ c # g
        BY <2>2 DEF IInv, TypeOK, WorkerTypes
      <3>2. Kept(c)
        BY <1>7, <3>1, Zenon
      <3> QED BY <1>2, <1>4, <2>2, <3>1, <3>2, Zenon DEF CurrentOK, Kept
    <2> QED BY <2>1, <2>2, Zenon
  <1>14. MessageTypes' /\ WorkerTypes' /\ CallTypes' /\ StepOf(w)
    BY <1>1, <1>2, <1>3, <1>5 DEF IInv, TypeOK, MessageTypes, WorkerTypes, CallTypes, StepOf
  <1>15. \A v \in Workers : v # w => Unconcerned(v, g)
    <2> SUFFICES ASSUME NEW v \in Workers, v # w, NEW m \in Up(v), m.call = g PROVE DoneOK(v, m)'
      BY Zenon DEF Unconcerned
    <2>1. m.type \in Done /\ use_fifo_for_nested_call
      BY Zenon
    <2>2. DoneOK(v, m)
      BY <2>1, Zenon DEF IInv, UpInv, InvokeOK, Done
    <2> QED BY <1>2, <1>3, <2>1, <2>2, Zenon DEF DoneOK, Reports, ByEngine
  <1>16. DistinctCalls(up'[w])
    BY Zenon DEF IInv, MessagesDistinct
  <1>17. \A d \in Calls : CallOK(d)' /\ (d # g => Kept(d))
    BY <1>7, <1>9, Zenon
  <1> QED BY <1>10, <1>11, <1>12, <1>13, <1>14, <1>15, <1>16, <1>17, WorkerStep, Zenon

\* A message with an answer is about a call that its receiver waits for.
LEMMA AnswerIsAwaited ==
    ASSUME IInv, NEW w \in Workers, NEW m \in Down(w), m.type # "dispatch", proc[w] # "dead"
    PROVE  m.call \in waiting[w] /\ ~use_fifo_for_nested_call
  <1>1. AnswerOK(w, m) /\ m.call \in NestedCalls
    BY AnswerOnly, Zenon
  <1>2. m.call \in Calls /\ m.call \notin ExternalCalls /\ ByEngine(m.call)
    BY <1>1, CallAssumption, Zenon DEF AnswerOK, ByEngine, Calls
  <1>3. Awaited(m.call) /\ ~use_fifo_for_nested_call /\ Caller[m.call] = w
    BY <1>1, <1>2, Zenon DEF AnswerOK, Reports
  <1>4. result[m.call] # "timeout"
    BY <1>2, <1>3, Zenon DEF IInv, CallInv, CallOK
  <1> QED BY <1>2, <1>3, <1>4, Zenon DEF Awaited

\* The answer comes in a message from the engine.
LEMMA MessageAnswerStep ==
    ASSUME IInv, NEW w \in Workers, NEW m \in Down(w), m.type # "dispatch",
           Down(w)' \subseteq Down(w), \A n \in Down(w)' : n.call # m.call,
           down' \in [Workers -> Ways], DistinctOnTheWay(down'[w]),
           \A v \in Workers : v # w => down'[v] = down[v],
           Answered(w, m.call, AnswerOf(m), m.shm),
           UNCHANGED <<flagVars, engineVars, connVars, up, proc, current, writing, output_fifo, outcome>>,
           proc[w] \notin {"starting", "dead"}, lib = "v1" => proc[w] = "executing"
    PROVE  IInv'
  <1>1. m \in Messages
    BY MessagesTyped, Zenon DEF IInv, TypeOK
  <1>2. m.call \in waiting[w] /\ ~use_fifo_for_nested_call
    BY AnswerIsAwaited, Zenon
  <1>3. /\ AnswerOK(w, m) /\ m.call \in NestedCalls
        /\ outcome[m.call] # "none" /\ NotQueued(m.call)
        /\ \A v \in Workers : \A n \in Up(v) : n.call # m.call
        /\ \A v \in Workers : \A n \in Down(v) : n.call = m.call => v = w /\ n.type # "dispatch"
        /\ \A v \in Workers : current[v] # m.call
    BY AnswerOnly, Zenon
  <1>4. /\ IF AnswerOf(m) = "ok" THEN outcome[m.call] = "ok" ELSE outcome[m.call] \in Failures
        /\ (m.shm <=> OutputThere(m.call)) /\ NotRunning(m.call)
        /\ AnswerOf(m) \in {"ok", "failed"} /\ m.shm \in BOOLEAN
    BY <1>1, <1>2, <1>3, Zenon DEF AnswerOK, Reports, ByEngine, AnswerOf, Messages
  <1>5. output_fifo[m.call] = "none"
    BY <1>2, <1>3, Zenon DEF IInv, CallInv, CallOK, FifoOK, Calls
  <1>6. output_fifo \in [NestedCalls -> {"none", "empty", "failed", "data", "region", "left"}]
    BY Zenon DEF IInv, TypeOK, CallTypes
  <1>7. PICK r \in {"ok", "failed"}, big \in BOOLEAN : r = AnswerOf(m) /\ big = m.shm
    BY <1>4, Zenon
  <1>8. PICK g \in NestedCalls : g = m.call
    BY <1>3, Zenon
  <1>9. Answered(w, g, r, big)
    BY <1>7, <1>8, Zenon
  <1>10. /\ r = "ok" => outcome[g] = "ok"
         /\ r = "failed" => outcome[g] \in Failures \/ Discarded(g)
         /\ big <=> OutputThere(g)
         /\ NotRunning(g) /\ NotQueued(g) /\ g \in waiting[w]
    BY <1>2, <1>3, <1>4, <1>7, <1>8, Zenon
  <1>11. /\ output_fifo' \in [NestedCalls -> {"none", "empty", "failed", "data", "region", "left"}]
         /\ \A d \in NestedCalls : d # g => output_fifo'[d] = output_fifo[d]
         /\ output_fifo'[g] = "none"
    BY <1>5, <1>6, <1>8, Zenon
  <1>12. /\ \A n \in Down(w)' : n.call # g
         /\ \A v \in Workers : v # w => down'[v] = down[v] /\ \A n \in Down(v) : n.call # g
         /\ \A v \in Workers : current[v] # g
         /\ \A v \in Workers : \A n \in Up(v) : n.call # g
    BY <1>3, <1>8, Zenon
  <1>13. UNCHANGED <<flagVars, engineVars, connVars, up, proc, current, writing, outcome>>
    BY Zenon
  <1> QED BY <1>9, <1>10, <1>11, <1>12, <1>13, AnswerStep

\* The answer is read from the call's FIFO, which is then closed.
LEMMA FifoAnswerStep ==
    ASSUME IInv, NEW w \in Workers, NEW g \in NestedCalls, FifoGetFuncCallOutput(w, g),
           UNCHANGED <<flagVars, engineVars, connVars, down, up, proc, current, writing, outcome>>,
           proc[w] \notin {"starting", "dead"}, lib = "v1" => proc[w] = "executing",
           NEW x, output_fifo' = [output_fifo EXCEPT ![g] = x], x = "none" \/ (x = "left" /\ lib # "v1")
    PROVE  IInv'
  <1>1. g \in Calls /\ g \notin ExternalCalls /\ g # NoCall
    BY CallAssumption, Zenon DEF Calls
  <1>r. PICK r \in {"ok", "failed"} : r = IF output_fifo[g] = "failed" THEN "failed" ELSE "ok"
    BY Zenon
  <1>b. PICK big \in BOOLEAN : big = (output_fifo[g] = "region")
    BY Zenon
  <1>2. g \in waiting[w] /\ output_fifo[g] \in Readable /\ Answered(w, g, r, big)
    BY <1>r, <1>b, Zenon DEF FifoGetFuncCallOutput, Readable
  <1>3. CallOK(g) /\ FifoOK(g)
    BY <1>1, Zenon DEF IInv, CallInv, CallOK
  <1>4. /\ use_fifo_for_nested_call /\ (big <=> OutputThere(g))
        /\ r = "ok" => outcome[g] = "ok"
        /\ r = "failed" => outcome[g] \in Failures \/ Discarded(g)
        /\ outcome[g] # "none" \/ Discarded(g)
    BY <1>2, <1>3, <1>r, <1>b, Zenon DEF FifoOK, Readable, Failures
  <1>5. /\ NotQueued(g)
        /\ \A v \in Workers : \A m \in Up(v) : m.call = g => m.type \in Done
        /\ \A v \in Workers : \A m \in Down(v) : m.call = g => m.type \in Done
    BY <1>1, <1>4, NotAboutToRun, Zenon
  <1>6. \A v \in Workers : \A m \in Down(v) : m.call # g
    BY <1>4, <1>5, Zenon DEF IInv, DownInv, DispatchOK, AnswerOK, Done
  <1>7. \A v \in Workers : current[v] # g
    BY <1>1, <1>2, Zenon DEF IInv, WorkerInv, CurrentOK
  <1>8. /\ output_fifo' \in [NestedCalls -> {"none", "empty", "failed", "data", "region", "left"}]
        /\ output_fifo'[g] = x /\ \A d \in NestedCalls : d # g => output_fifo'[d] = output_fifo[d]
    BY Zenon DEF IInv, TypeOK, CallTypes
  <1>9. /\ down' \in [Workers -> Ways] /\ DistinctOnTheWay(down'[w]) /\ Down(w)' = Down(w)
        /\ \A v \in Workers : down'[v] = down[v]
    BY Zenon DEF IInv, TypeOK, MessageTypes, MessagesDistinct, Down
  <1> QED BY <1>2, <1>4, <1>5, <1>6, <1>7, <1>8, <1>9, AnswerStep

LEMMA WaitInvokeFuncIInv ==
    ASSUME IInv, NEW w \in Workers, WaitInvokeFunc(w)
    PROVE  IInv'
  <1>1. PICK m \in Messages : m = Head(down[w].fifo)
    BY WorkerReads, Zenon DEF WaitInvokeFunc
  <1>2. PICK g \in waiting[w] : Answered(w, g, AnswerOf(m), m.shm)
    BY <1>1, Zenon DEF WaitInvokeFunc
  <1>3. /\ m \in Down(w) /\ Down(w)' \subseteq Down(w) /\ \A n \in Down(w)' : n.call # m.call
        /\ down' \in [Workers -> Ways] /\ DistinctOnTheWay(down'[w])
        /\ \A v \in Workers : v # w => down'[v] = down[v]
    BY <1>1, WorkerReads, Zenon DEF WaitInvokeFunc
  <1>4. /\ proc[w] = "executing" /\ lib = "v1" /\ ~use_fifo_for_nested_call /\ LocalOK(w)
        /\ UNCHANGED <<flagVars, engineVars, connVars, up, proc, current, writing, output_fifo, outcome>>
    BY Zenon DEF WaitInvokeFunc, IInv, WorkerInv
  <1>5. m.type # "dispatch"
    BY <1>3, <1>4, Zenon DEF IInv, DownInv, DispatchOK, AnswerOK, Done, LocalOK
  <1>6. m.call = g
    BY <1>3, <1>4, <1>5, AnswerIsAwaited, Zenon DEF LocalOK
  <1>7. Answered(w, m.call, AnswerOf(m), m.shm)
    BY <1>2, <1>6, Zenon
  <1> QED BY <1>3, <1>4, <1>5, <1>7, MessageAnswerStep, Zenon

LEMMA OnOutgoingFuncCallFinishedIInv ==
    ASSUME IInv, NEW w \in Workers, OnOutgoingFuncCallFinished(w) \/ RunReceivesAnswer(w)
    PROVE  IInv'
  <1>1. PICK m \in Messages : m = Head(down[w].fifo)
    BY WorkerReads, Zenon DEF OnOutgoingFuncCallFinished, RunReceivesAnswer
  <1>2. /\ m \in Down(w) /\ Down(w)' \subseteq Down(w) /\ \A n \in Down(w)' : n.call # m.call
        /\ down' \in [Workers -> Ways] /\ DistinctOnTheWay(down'[w])
        /\ \A v \in Workers : v # w => down'[v] = down[v]
    BY <1>1, WorkerReads, Zenon DEF OnOutgoingFuncCallFinished, RunReceivesAnswer
  <1>3. /\ m.type # "dispatch" /\ proc[w] \notin {"starting", "dead"} /\ lib # "v1"
        /\ UNCHANGED <<flagVars, engineVars, connVars, up, proc, current, writing, output_fifo, outcome>>
    BY <1>1, Zenon DEF OnOutgoingFuncCallFinished, RunReceivesAnswer
  <1>4. m.call \in waiting[w]
    BY <1>2, <1>3, AnswerIsAwaited, Zenon
  <1>5. Answered(w, m.call, AnswerOf(m), m.shm)
    BY <1>1, <1>4, Zenon DEF OnOutgoingFuncCallFinished, RunReceivesAnswer
  <1> QED BY <1>2, <1>3, <1>5, MessageAnswerStep, Zenon

LEMMA FifoWaitInvokeFuncIInv ==
    ASSUME IInv, NEW w \in Workers, NEW g \in NestedCalls,
           FifoWaitInvokeFunc(w, g) \/ OnOutputPipeReadable(w, g) \/ newFuncCallCommonReads(w, g)
    PROVE  IInv'
  BY FifoAnswerStep, Zenon DEF FifoWaitInvokeFunc, OnOutputPipeReadable, newFuncCallCommonReads

LEMMA FifoPollTimeoutIInv ==
    ASSUME IInv, NEW w \in Workers, NEW g \in NestedCalls, FifoPollTimeout(w, g)
    PROVE  IInv'
  <1>1. /\ UNCHANGED <<flagVars, engineVars, connVars, up, down, proc, current, held, writing, outcome>>
        /\ proc[w] = "executing" /\ g \in waiting[w] /\ output_fifo[g] = "empty"
        /\ output_fifo' = [output_fifo EXCEPT ![g] = "none"]
        /\ shm' = shm \ {<<"input", g>>}
        /\ waiting' = [waiting EXCEPT ![w] = @ \ {g}]
        /\ result' = [result EXCEPT ![g] = "timeout"]
    BY Zenon DEF FifoPollTimeout
  <1>2. UNCHANGED <<use_fifo_for_nested_call, lib, running_workers, discarding>>
    BY <1>1, Zenon DEF flagVars, engineVars, dispatcherVars
  <1>3. g \in Calls /\ g \notin ExternalCalls
    BY CallAssumption, Zenon DEF Calls
  <1>4. CallOK(g) /\ LocalOK(w) /\ Caller[g] = w
    BY <1>1, <1>3, Zenon DEF IInv, CallInv, WorkerInv, LocalOK
  <1>5. /\ waiting \in [Workers -> SUBSET NestedCalls]
        /\ result \in [Calls -> {"unused", "open", "ok", "failed", "timeout", "lost"}]
        /\ output_fifo \in [NestedCalls -> {"none", "empty", "failed", "data", "region", "left"}]
    BY Zenon DEF IInv, TypeOK, WorkerTypes, CallTypes
  <1>6. \A d \in Calls : d # g => Same(d)
    BY <1>1, <1>2, <1>5, CallAssumption, Zenon DEF Same, NotRunning, Discarded, Calls
  <1>7. \A d \in Calls : d # g => Kept(d) /\ CallOK(d)'
    BY <1>2, <1>6, CallsSame, Zenon
  <1>8. /\ result'[g] = "timeout" /\ g \notin waiting'[w] /\ <<"input", g>> \notin shm'
        /\ output_fifo'[g] = "none" /\ (OutputThere(g)' <=> OutputThere(g))
        /\ (NotRunning(g)' <=> NotRunning(g)) /\ (Discarded(g)' <=> Discarded(g))
    BY <1>1, <1>2, <1>3, <1>5, Zenon DEF OutputThere, NotRunning, Discarded
  <1>9. Kept(g)
    BY <1>1, <1>3, <1>8, Zenon DEF Kept, Awaited, InputThere, Readable
  <1>10. CallOK(g)'
    <2>1. Owned(g)' /\ FifoOK(g)'
      BY <1>3, <1>8, Zenon DEF Owned, FifoOK, Readable
    <2>2. g \notin held[w] /\ use_fifo_for_nested_call
      BY <1>1, <1>4, Zenon DEF CallOK, FifoOK
    <2> QED BY <1>1, <1>2, <1>4, <1>8, <2>1, <2>2, Zenon DEF CallOK
  <1>11. WorkerTypes' /\ CallTypes' /\ StepOf(w)
    BY <1>1, <1>2, <1>3, <1>5, Zenon DEF IInv, TypeOK, WorkerTypes, CallTypes, StepOf
  <1>12. LocalOK(w)'
    BY <1>1, <1>2, <1>4, <1>5, Zenon DEF LocalOK
  <1>13. \A d \in Calls : Kept(d) /\ CallOK(d)'
    BY <1>7, <1>9, <1>10, Zenon
  <1>14. /\ UNCHANGED <<flagVars, engineVars, connVars, up, down>>
         /\ proc[w] \notin {"starting", "dead"} /\ current'[w] = current[w] /\ proc'[w] = proc[w]
         /\ writing'[w] = writing[w]
    BY <1>1, Zenon
  <1> QED BY <1>11, <1>12, <1>13, <1>14, SilentStep, Zenon

LEMMA CrashIInv ==
    ASSUME IInv, NEW w \in Workers, Crash(w)
    PROVE  IInv'
  <1>1. /\ UNCHANGED <<flagVars, engineVars, connVars, up, down, shm, result, outcome>>
        /\ proc' = [proc EXCEPT ![w] = "dead"]
        /\ current' = [current EXCEPT ![w] = NoCall]
        /\ waiting' = [waiting EXCEPT ![w] = {}]
        /\ held' = [held EXCEPT ![w] = {}]
        /\ writing' = [writing EXCEPT ![w] = "nothing"]
        /\ output_fifo' = [g \in NestedCalls |->
               IF g \in waiting[w] /\ use_fifo_for_nested_call THEN "left" ELSE output_fifo[g]]
    BY Zenon DEF Crash, endVars
  <1>2. UNCHANGED <<use_fifo_for_nested_call, lib, running_workers, discarding>>
    BY <1>1, Zenon DEF flagVars, engineVars, dispatcherVars
  <1>3. WorkerTypes' /\ CallTypes' /\ StepOf(w)
    BY <1>1, <1>2 DEF IInv, TypeOK, WorkerTypes, CallTypes, StepOf
  <1>4. /\ proc'[w] = "dead" /\ current'[w] = NoCall /\ waiting'[w] = {} /\ held'[w] = {}
        /\ \A v \in Workers : v # w => /\ proc'[v] = proc[v] /\ waiting'[v] = waiting[v]
                                       /\ held'[v] = held[v]
    BY <1>1, Zenon DEF IInv, TypeOK, WorkerTypes
  <1>5. LocalOK(w) /\ LocalOK(w)'
    BY <1>4, Zenon DEF LocalOK, IInv, WorkerInv
  <1>6. ASSUME NEW d \in Calls PROVE Kept(d) /\ CallOK(d)'
    <2>1. /\ CallOK(d) /\ (d \in NestedCalls => Caller[d] \in Workers)
          /\ (OutputThere(d)' <=> OutputThere(d)) /\ (InputThere(d)' <=> InputThere(d))
          /\ (NotRunning(d)' <=> NotRunning(d)) /\ (Discarded(d)' <=> Discarded(d))
      BY <1>1, <1>2, CallAssumption, Zenon
      DEF IInv, CallInv, OutputThere, InputThere, NotRunning, Discarded
    <2>2. Awaited(d) => Awaited(d)'
      BY <1>1, <1>4, <2>1, Zenon DEF Awaited, Calls
    <2>3. d \in NestedCalls => \/ output_fifo'[d] = output_fifo[d]
                               \/ output_fifo'[d] = "left" /\ use_fifo_for_nested_call /\ Caller[d] = w
      BY <1>1, <1>5, Zenon DEF LocalOK
    <2>4. Kept(d)
      BY <1>1, <2>1, <2>2, <2>3, Zenon DEF Kept, Readable
    <2>5. Owned(d)'
      BY <1>1, <1>4, <2>1, Zenon DEF Owned, CallOK
    <2>6. d \in NestedCalls => FifoOK(d)'
      BY <1>1, <1>2, <2>1, <2>3, Zenon DEF CallOK, FifoOK, Readable
    <2>7. CallOK(d)'
      BY <1>1, <1>2, <1>4, <2>1, <2>3, <2>5, <2>6, Zenon DEF CallOK, NotStarted
    <2> QED BY <2>4, <2>7, Zenon
  <1>7. UNCHANGED <<flagVars, engineVars, connVars, up, down>>
    BY <1>1, Zenon
  <1> QED BY <1>3, <1>4, <1>5, <1>6, <1>7, SilentStep, Zenon

=============================================================================
