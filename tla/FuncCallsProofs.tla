-------------------------- MODULE FuncCallsProofs ---------------------------
(***************************************************************************)
(* Proofs about FuncCalls, for any workers, functions and calls: the       *)
(* answers that workers get are true, a worker gets the messages that it   *)
(* expects, and each region in shared memory has an owner.                 *)
(***************************************************************************)
EXTENDS FuncCallsEngine, FuncCallsWorkers

-----------------------------------------------------------------------------
(***************************************************************************)
(* Steps of a worker that answers the call it has run.                     *)
(***************************************************************************)

\* What is right of the call that worker w executes.
LEMMA CurrentCall ==
    ASSUME IInv, NEW w \in Workers, current[w] # NoCall
    PROVE  LET c == current[w]
           IN  /\ c \in Calls /\ running_workers[w] = c /\ Awaited(c) /\ ~OutputThere(c) /\ CallOK(c)
               /\ c \in NestedCalls => output_fifo[c] \notin Readable
               /\ NotQueued(c) /\ ~Discarded(c) /\ result[c] # "unused"
               /\ \A m \in Up(w) \cup Down(w) : m.call # c
               /\ \A v \in Workers : v # w => Unconcerned(v, c)
  <1>1. PICK c \in Calls : c = current[w]
    BY Zenon DEF IInv, TypeOK, WorkerTypes
  <1>2. /\ running_workers[w] = c /\ Awaited(c) /\ ~OutputThere(c) /\ CallOK(c)
        /\ c \in NestedCalls => output_fifo[c] \notin Readable
    BY <1>1, Zenon DEF IInv, WorkerInv, CurrentOK, CallInv
  <1>3. /\ \A v \in Workers : \A m \in Up(v) : m.call = c => v = w /\ m.type \in Done
        /\ \A v \in Workers : \A m \in Down(v) : m.call = c => v = w /\ m.type = "dispatch"
        /\ NotQueued(c) /\ ~Discarded(c) /\ result[c] # "unused"
        /\ \A v \in Workers : current[v] = c => v = w
    BY <1>2, RunningOnly, Zenon
  <1>4. \A m \in Up(w) : m.call # c
    BY <1>1, <1>3, Zenon DEF IInv, UpInv, InvokeOK, DoneOK, Done
  <1>5. \A m \in Down(w) : m.call # c
    BY <1>1, <1>3, Zenon DEF IInv, DownInv, DispatchOK, AnswerOK, Done
  <1>6. \A v \in Workers : v # w => Unconcerned(v, c)
    BY <1>3, Zenon DEF Unconcerned
  <1> QED BY <1>1, <1>2, <1>3, <1>4, <1>5, <1>6, Zenon

\* A step of worker w about the call that it executes.
LEMMA CurrentStep ==
    ASSUME IInv, UNCHANGED <<flagVars, engineVars, connVars, down, waiting>>,
           NEW w \in Workers, NEW c \in Calls, c = current[w], StepOf(w), WorkerTypes', CallTypes',
           \A d \in Calls : CallOK(d)' /\ (d # c => Kept(d)),
           up' \in [Workers -> Seq(Messages)], DistinctCalls(up'[w]),
           \A m \in Up(w)' : m \in Up(w) \/ DoneOK(w, m)',
           LocalOK(w)', CurrentOK(w)'
    PROVE  IInv'
  <1>1. UNCHANGED <<use_fifo_for_nested_call, lib, running_workers, pending_func_calls, discarding>>
    BY Zenon DEF flagVars, engineVars, dispatcherVars
  <1>2. current[w] # NoCall /\ proc[w] \notin {"starting", "dead"}
    BY CallAssumption, Zenon DEF IInv, WorkerInv, LocalOK
  <1>3. /\ NotQueued(c) /\ \A m \in Up(w) \cup Down(w) : m.call # c
        /\ \A v \in Workers : v # w => Unconcerned(v, c)
    BY <1>2, CurrentCall, Zenon
  <1>4. UpOK(w)'
    <2>1. \A m \in Up(w) : (InvokeOK(w, m) \/ DoneOK(w, m))'
      BY <1>1, <1>2, <1>3, NoCallIsNone, UpKept, Zenon
    <2> QED BY <2>1, Zenon DEF UpOK
  <1>5. DownOK(w)'
    <2>1. Down(w)' = Down(w)
      BY Zenon DEF Down
    <2> QED BY <1>1, <1>2, <1>3, <2>1, NoCallIsNone, DownKept, Zenon DEF DownOK
  <1>6. MessageTypes' /\ DistinctOnTheWay(down'[w])
    BY <1>1, Zenon DEF IInv, TypeOK, MessageTypes, MessagesDistinct
  <1> QED BY <1>2, <1>3, <1>4, <1>5, <1>6, WorkerStep, Zenon

\* ReclaimInvokeFuncResources: another call than c keeps its output region unless
\* worker w held it, and then nobody needs it any more.
LEMMA ReclaimKept ==
    ASSUME IInv, NEW w \in Workers, proc[w] # "dead", NEW d \in Calls,
           UNCHANGED <<use_fifo_for_nested_call, running_workers, discarding, waiting, output_fifo, result>>,
           outcome'[d] = outcome[d], held' = [held EXCEPT ![w] = {}],
           \A v \in Workers : proc[v] = "dead" => proc'[v] = "dead",
           <<"input", d>> \in shm' <=> <<"input", d>> \in shm,
           <<"output", d>> \in shm' <=> <<"output", d>> \in shm /\ d \notin held[w]
    PROVE  Kept(d) /\ CallOK(d)'
  <1>1. CallOK(d) /\ LocalOK(w) /\ held \in [Workers -> SUBSET NestedCalls]
    BY Zenon DEF IInv, CallInv, WorkerInv, TypeOK, WorkerTypes
  <1>2. (Discarded(d)' <=> Discarded(d)) /\ (NotRunning(d)' <=> NotRunning(d))
    BY Zenon DEF Discarded, NotRunning
  <1>3. d \in NestedCalls => Caller[d] \in Workers
    BY CallAssumption, Zenon
  <1>4. CASE d \in held[w]
    <2>1. d \in NestedCalls /\ d \notin ExternalCalls /\ Caller[d] = w /\ d \notin held'[w]
      BY <1>1, <1>4, CallAssumption, Zenon DEF LocalOK
    <2>2. result[d] \in {"ok", "failed"} /\ output_fifo[d] = "none" /\ d \notin waiting[w]
      BY <1>1, <1>4, <2>1, Zenon DEF CallOK
    <2>3. ~Awaited(d) /\ ~OutputThere(d)' /\ (InputThere(d)' <=> InputThere(d))
      BY <1>4, <2>1, <2>2, Zenon DEF Awaited, OutputThere, InputThere
    <2>4. Kept(d)
      BY <1>2, <2>2, <2>3, Zenon DEF Kept
    <2>5. Owned(d)' /\ FifoOK(d)'
      BY <1>1, <2>1, <2>2, <2>3, Zenon DEF CallOK, Owned, FifoOK, OutputThere, Readable
    <2>6. CallOK(d)'
      BY <1>1, <1>2, <2>1, <2>2, <2>3, <2>5, Zenon DEF CallOK
    <2> QED BY <2>4, <2>6, Zenon
  <1>5. CASE d \notin held[w]
    <2>1. d \in NestedCalls => (d \in held'[Caller[d]] <=> d \in held[Caller[d]])
      BY <1>1, <1>3, <1>5, Zenon
    <2>2. Same(d)
      BY <1>2, <1>3, <1>5, <2>1, Zenon DEF Same
    <2> QED BY <1>1, <2>2, SameKept, Zenon
  <1> QED BY <1>4, <1>5, Zenon

LEMMA FuncCallFinishedIInv ==
    ASSUME IInv, NEW w \in Workers, NEW end \in Outcomes, NEW big \in BOOLEAN,
           FuncCallFinished(w, end, big)
    PROVE  IInv'
  <1>1. proc[w] = "executing" /\ current[w] # NoCall /\ LocalOK(w) /\ CurrentOK(w)
    BY Zenon DEF FuncCallFinished, FunctionReturns, IInv, WorkerInv, LocalOK
  <1>2. PICK c \in Calls : c = current[w]
    BY <1>1, CurrentCall, Zenon
  <1>3. /\ running_workers[w] = c /\ Awaited(c) /\ ~OutputThere(c) /\ CallOK(c) /\ ~Discarded(c)
        /\ c \in NestedCalls => output_fifo[c] \notin Readable
        /\ result[c] # "unused" /\ outcome[c] = "none"
        /\ \A m \in Up(w) : m.call # c
    BY <1>1, <1>2, CurrentCall, Zenon DEF CurrentOK
  <1>4. PICK type \in Done, shmed \in BOOLEAN :
           /\ type = IF end = "ok" THEN "complete" ELSE "failed"
           /\ shmed = (end = "ok" /\ big)
    BY Zenon DEF Done
  <1> DEFINE n == Message(type, c, shmed)
  <1>5. /\ UNCHANGED <<flagVars, engineVars, connVars, down, waiting, writing, output_fifo, result>>
        /\ lib # "event" => waiting[w] = {}
        /\ c \in NestedCalls => ~use_fifo_for_nested_call
        /\ outcome' = [outcome EXCEPT ![c] = end] /\ Sends(w, n)
        /\ shm' = (shm \ {<<"output", g>> : g \in held[w]})
                     \cup (IF shmed THEN {<<"output", c>>} ELSE {})
        /\ held' = [held EXCEPT ![w] = {}]
        /\ proc' = [proc EXCEPT ![w] = "idle"]
        /\ current' = [current EXCEPT ![w] = NoCall]
    <2>1. Sends(w, n)
      BY <1>2, <1>4, Zenon DEF FuncCallFinished, Sends, Message
    <2> QED BY <1>2, <1>4, <2>1, Zenon
               DEF FuncCallFinished, FunctionReturns, ReclaimInvokeFuncResources
  <1>6. UNCHANGED <<use_fifo_for_nested_call, lib, running_workers, discarding>>
    BY <1>5, Zenon DEF flagVars, engineVars, dispatcherVars
  <1>7. n \in Messages /\ n.call = c /\ n.type = type /\ n.shm = shmed
    BY Zenon DEF Message, Messages, Done
  <1>8. /\ up' \in [Workers -> Seq(Messages)] /\ DistinctCalls(up'[w]) /\ Up(w)' = Up(w) \cup {n}
        /\ \A v \in Workers : v # w => up'[v] = up[v]
    BY <1>3, <1>5, <1>7, WorkerSends, Zenon
  <1>9. /\ proc \in [Workers -> {"starting", "idle", "executing", "writing", "dead"}]
        /\ current \in [Workers -> Calls \cup {NoCall}] /\ held \in [Workers -> SUBSET NestedCalls]
        /\ outcome \in [Calls -> {"none", "ok", "failed", "abandoned"}] /\ shm \subseteq {"input", "output"} \X Calls
    BY Zenon DEF IInv, TypeOK, WorkerTypes, CallTypes
  <1>10. WorkerTypes' /\ CallTypes' /\ StepOf(w)
    BY <1>5, <1>8, <1>9 DEF IInv, TypeOK, WorkerTypes, CallTypes, StepOf, Outcomes
  <1>11. \A v \in Workers : proc[v] = "dead" <=> proc'[v] = "dead"
    BY <1>1, <1>5, <1>9, Zenon
  <1>12. \A d \in Calls : /\ <<"input", d>> \in shm' <=> <<"input", d>> \in shm
                          /\ d # c => /\ outcome'[d] = outcome[d]
                                      /\ <<"output", d>> \in shm' <=> /\ <<"output", d>> \in shm
                                                                     /\ d \notin held[w]
    BY <1>5, <1>9, Zenon
  <1>13. \A d \in Calls : d # c => Kept(d) /\ CallOK(d)'
    BY <1>1, <1>5, <1>6, <1>11, <1>12, ReclaimKept, Zenon
  <1>14. /\ outcome'[c] = end /\ (OutputThere(c)' <=> shmed)
         /\ (Discarded(c)' <=> Discarded(c)) /\ (NotRunning(c)' <=> NotRunning(c))
         /\ Awaited(c)'
    <2>1. outcome'[c] = end /\ (OutputThere(c)' <=> shmed)
      BY <1>3, <1>5, <1>9, Zenon DEF OutputThere
    <2>2. Awaited(c)'
      BY <1>3, <1>5, <1>11, CallAssumption, Zenon DEF Awaited, Calls
    <2> QED BY <1>6, <2>1, <2>2, Zenon DEF Discarded, NotRunning
  <1>15. CallOK(c)'
    <2>1. result[c] \notin {"ok", "failed"}
      BY <1>3, Zenon DEF CallOK, Failures
    <2>2. Owned(c)'
      BY <1>3, <1>5, <1>11, <1>12, <1>14, CallAssumption, Zenon DEF CallOK, Owned, Awaited, Calls
    <2>3. c \in NestedCalls => FifoOK(c)'
      BY <1>3, <1>5, <1>6, Zenon DEF CallOK, FifoOK, Readable
    <2>4. c \in NestedCalls => c \notin held'[Caller[c]]
      BY <1>3, <1>5, <1>9, <2>1, CallAssumption, Zenon DEF CallOK
    <2> QED BY <1>3, <1>4, <1>5, <1>6, <1>14, <2>1, <2>2, <2>3, <2>4, Zenon DEF CallOK
  <1>16. DoneOK(w, n)'
    <2>1. current'[w] = NoCall
      BY <1>5, <1>9, Zenon
    <2>2. Reports(n)'
      BY <1>4, <1>7, <1>14, <1>5, <1>6, Zenon DEF Reports, ByEngine, Calls, Outcomes, Failures
    <2> QED BY <1>3, <1>6, <1>7, <2>1, <2>2, Zenon DEF DoneOK
  <1>17. LocalOK(w)' /\ CurrentOK(w)'
    BY <1>1, <1>5, <1>6, <1>9, Zenon DEF LocalOK, CurrentOK
  <1>18. \A d \in Calls : CallOK(d)' /\ (d # c => Kept(d))
    BY <1>13, <1>15, Zenon
  <1>19. UNCHANGED <<flagVars, engineVars, connVars, down, waiting>>
    BY <1>5, Zenon
  <1>20. \A m \in Up(w)' : m \in Up(w) \/ DoneOK(w, m)'
    BY <1>8, <1>16, Zenon
  <1> QED BY <1>2, <1>8, <1>10, <1>17, <1>18, <1>19, <1>20, CurrentStep, Zenon

LEMMA FifoFuncCallFinishedIInv ==
    ASSUME IInv, NEW w \in Workers, NEW end \in Outcomes, NEW big \in BOOLEAN,
           FifoFuncCallFinished(w, end, big)
    PROVE  IInv'
  <1>1. proc[w] = "executing" /\ current[w] # NoCall /\ LocalOK(w) /\ CurrentOK(w)
    BY Zenon DEF FifoFuncCallFinished, FunctionReturns, IInv, WorkerInv, LocalOK
  <1>2. PICK c \in NestedCalls : c = current[w]
    BY Zenon DEF FifoFuncCallFinished
  <1>3. /\ running_workers[w] = c /\ Awaited(c) /\ ~OutputThere(c) /\ CallOK(c) /\ ~Discarded(c)
        /\ output_fifo[c] \notin Readable
        /\ result[c] # "unused" /\ outcome[c] = "none"
        /\ \A m \in Up(w) : m.call # c
    BY <1>1, <1>2, CurrentCall, Zenon DEF CurrentOK
  <1>4. PICK out \in Readable :
           out = IF end = "failed" THEN "failed" ELSE IF big THEN "region" ELSE "data"
    BY Zenon DEF Readable
  <1> DEFINE n == Message("failed", c, FALSE)
  <1>5. /\ UNCHANGED <<flagVars, engineVars, connVars, down, waiting, output_fifo, result>>
        /\ lib # "event" => waiting[w] = {}
        /\ use_fifo_for_nested_call
        /\ outcome' = [outcome EXCEPT ![c] = end]
        /\ shm' = shm \ {<<"output", g>> : g \in held[w]}
        /\ held' = [held EXCEPT ![w] = {}]
        /\ \/ /\ proc' = [proc EXCEPT ![w] = "writing"] /\ end # "abandoned"
              /\ writing' = [writing EXCEPT ![w] = out]
              /\ UNCHANGED <<current, up>>
           \/ /\ proc' = [proc EXCEPT ![w] = "idle"] /\ Sends(w, n)
              /\ current' = [current EXCEPT ![w] = NoCall]
              /\ UNCHANGED writing
    BY <1>2, <1>4, Zenon DEF FifoFuncCallFinished, FunctionReturns, ReclaimInvokeFuncResources
  <1>6. UNCHANGED <<use_fifo_for_nested_call, lib, running_workers, discarding>>
    BY <1>5, Zenon DEF flagVars, engineVars, dispatcherVars
  <1>7. c \in Calls /\ c \notin ExternalCalls /\ n \in Messages /\ n.call = c /\ n.type \in Done /\ ~n.shm
    BY CallAssumption, Zenon DEF Message, Messages, Done, Calls
  <1>8. /\ proc \in [Workers -> {"starting", "idle", "executing", "writing", "dead"}]
        /\ current \in [Workers -> Calls \cup {NoCall}] /\ held \in [Workers -> SUBSET NestedCalls]
        /\ writing \in [Workers -> {"nothing", "failed", "data", "region"}]
        /\ outcome \in [Calls -> {"none", "ok", "failed", "abandoned"}] /\ shm \subseteq {"input", "output"} \X Calls
    BY Zenon DEF IInv, TypeOK, WorkerTypes, CallTypes
  <1>9. \A v \in Workers : proc[v] = "dead" <=> proc'[v] = "dead"
    BY <1>1, <1>5, <1>8, Zenon
  <1>10. \A d \in Calls : /\ <<"input", d>> \in shm' <=> <<"input", d>> \in shm
                          /\ <<"output", d>> \in shm' <=> <<"output", d>> \in shm /\ d \notin held[w]
                          /\ d # c => outcome'[d] = outcome[d]
    BY <1>5, <1>8
  <1>11. \A d \in Calls : d # c => Kept(d) /\ CallOK(d)'
    BY <1>1, <1>5, <1>6, <1>9, <1>10, ReclaimKept, Zenon
  <1>12. /\ outcome'[c] = end /\ ~OutputThere(c)' /\ Awaited(c)'
         /\ (Discarded(c)' <=> Discarded(c)) /\ (NotRunning(c)' <=> NotRunning(c))
    <2>1. outcome'[c] = end /\ ~OutputThere(c)'
      BY <1>3, <1>5, <1>7, <1>8, Zenon DEF OutputThere
    <2>2. Awaited(c)'
      BY <1>3, <1>5, <1>9, CallAssumption, Zenon DEF Awaited
    <2> QED BY <1>6, <2>1, <2>2, Zenon DEF Discarded, NotRunning
  <1>13. CallOK(c)'
    <2>1. result[c] \notin {"ok", "failed"}
      BY <1>3, Zenon DEF CallOK, Failures
    <2>2. Owned(c)'
      BY <1>3, <1>5, <1>7, <1>9, <1>10, <1>12, CallAssumption, Zenon
         DEF CallOK, Owned, OutputThere
    <2>3. FifoOK(c)'
      BY <1>3, <1>5, <1>6, Zenon DEF CallOK, FifoOK, Readable
    <2>4. c \notin held'[Caller[c]]
      BY <1>3, <1>5, <1>8, <2>1, CallAssumption, Zenon DEF CallOK
    <2> QED BY <1>3, <1>4, <1>5, <1>6, <1>12, <2>1, <2>2, <2>3, <2>4, Zenon DEF CallOK
  <1>14. \A d \in Calls : CallOK(d)' /\ (d # c => Kept(d))
    BY <1>11, <1>13, Zenon
  <1>15. UNCHANGED <<flagVars, engineVars, connVars, down, waiting>>
    BY <1>5, Zenon
  <1>16. CASE /\ proc' = [proc EXCEPT ![w] = "writing"] /\ end # "abandoned"
              /\ writing' = [writing EXCEPT ![w] = out]
              /\ UNCHANGED <<current, up>>
    <2>1. WorkerTypes' /\ CallTypes' /\ StepOf(w)
      BY <1>5, <1>8, <1>16 DEF IInv, TypeOK, WorkerTypes, CallTypes, StepOf, Readable, Outcomes
    <2>2. proc'[w] = "writing" /\ writing'[w] = out /\ current'[w] = c /\ held'[w] = {}
      BY <1>2, <1>5, <1>8, <1>16, Zenon
    <2>3. LocalOK(w)'
      BY <1>1, <1>2, <1>5, <1>6, <1>16, <2>2, Zenon DEF LocalOK
    <2>4. CurrentOK(w)'
      BY <1>3, <1>4, <1>5, <1>6, <1>12, <1>16, <2>2, Zenon DEF CurrentOK, Outcomes, Readable
    <2>5. /\ up' \in [Workers -> Seq(Messages)] /\ DistinctCalls(up'[w]) /\ Up(w)' = Up(w)
      BY <1>16, Zenon DEF IInv, TypeOK, MessageTypes, MessagesDistinct, Up
    <2> QED BY <1>2, <1>7, <1>14, <1>15, <2>1, <2>3, <2>4, <2>5, CurrentStep, Zenon
  <1>17. CASE /\ proc' = [proc EXCEPT ![w] = "idle"] /\ Sends(w, n)
              /\ current' = [current EXCEPT ![w] = NoCall]
              /\ UNCHANGED writing
    <2>1. /\ up' \in [Workers -> Seq(Messages)] /\ DistinctCalls(up'[w]) /\ Up(w)' = Up(w) \cup {n}
          /\ \A v \in Workers : v # w => up'[v] = up[v]
      BY <1>3, <1>7, <1>17, WorkerSends, Zenon
    <2>2. WorkerTypes' /\ CallTypes' /\ StepOf(w)
      BY <1>5, <1>8, <1>17, <2>1, Zenon DEF IInv, TypeOK, WorkerTypes, CallTypes, StepOf, Outcomes
    <2>3. proc'[w] = "idle" /\ current'[w] = NoCall /\ held'[w] = {}
      BY <1>5, <1>8, <1>17, Zenon
    <2>4. LocalOK(w)' /\ CurrentOK(w)'
      BY <1>1, <1>5, <1>6, <2>3, Zenon DEF LocalOK, CurrentOK
    <2>5. DoneOK(w, n)'
      BY <1>3, <1>5, <1>6, <1>7, <2>3, Zenon DEF DoneOK, Reports, ByEngine
    <2>6. \A m \in Up(w)' : m \in Up(w) \/ DoneOK(w, m)'
      BY <2>1, <2>5, Zenon
    <2> QED BY <1>2, <1>7, <1>14, <1>15, <2>1, <2>2, <2>4, <2>6, CurrentStep, Zenon
  <1> QED BY <1>5, <1>16, <1>17, Zenon

\* WriteOutputToFifo, whether the write succeeds or not.
LEMMA WriteOutputIInv ==
    ASSUME IInv, NEW w \in Workers, WriteOutputToFifo(w) \/ WriteOutputFails(w)
    PROVE  IInv'
  <1>1. proc[w] = "writing" /\ current[w] # NoCall /\ LocalOK(w) /\ CurrentOK(w)
    BY Zenon DEF WriteOutputToFifo, WriteOutputFails, IInv, WorkerInv, LocalOK
  <1>2. PICK c \in NestedCalls : c = current[w]
    BY <1>1, Zenon DEF CurrentOK
  <1>3. /\ running_workers[w] = c /\ Awaited(c) /\ ~OutputThere(c) /\ CallOK(c) /\ ~Discarded(c)
        /\ output_fifo[c] \notin Readable
        /\ result[c] # "unused" /\ \A m \in Up(w) : m.call # c
    BY <1>1, <1>2, CurrentCall, Zenon
  <1>4. PICK out \in Readable : out = writing[w]
    BY <1>1, Zenon DEF CurrentOK
  <1>5. use_fifo_for_nested_call /\ outcome[c] = IF out = "failed" THEN "failed" ELSE "ok"
    BY <1>1, <1>2, <1>4, Zenon DEF CurrentOK
  <1>6. PICK p \in {"idle", "dead"}, type \in Done :
           /\ proc' = [proc EXCEPT ![w] = p]
           /\ Sends(w, Message(type, c, FALSE)) \/ UNCHANGED up
    BY <1>2, Zenon DEF Done, WriteOutputToFifo, WriteOutputFails
  <1> DEFINE n == Message(type, c, FALSE)
  <1>7. /\ UNCHANGED <<flagVars, engineVars, connVars, down, waiting, held, result, outcome>>
        /\ shm' = shm \cup (IF out = "region" THEN {<<"output", c>>} ELSE {})
        /\ current' = [current EXCEPT ![w] = NoCall]
        /\ writing' = [writing EXCEPT ![w] = "nothing"]
        /\ \/ output_fifo' = [output_fifo EXCEPT ![c] = out] /\ output_fifo[c] # "none"
           \/ UNCHANGED output_fifo
    BY <1>2, <1>4, Zenon DEF WriteOutputToFifo, WriteOutputFails, FifoCanBeOpened, endVars
  <1>8. UNCHANGED <<use_fifo_for_nested_call, lib, running_workers, discarding>>
    BY <1>7, Zenon DEF flagVars, engineVars, dispatcherVars
  <1>9. c \in Calls /\ c \notin ExternalCalls /\ n \in Messages /\ n.call = c /\ n.type \in Done /\ ~n.shm
    BY CallAssumption, Zenon DEF Message, Messages, Done, Calls
  <1>10. /\ proc \in [Workers -> {"starting", "idle", "executing", "writing", "dead"}]
         /\ current \in [Workers -> Calls \cup {NoCall}]
         /\ writing \in [Workers -> {"nothing", "failed", "data", "region"}]
         /\ output_fifo \in [NestedCalls -> {"none", "empty", "failed", "data", "region", "left"}]
         /\ shm \subseteq {"input", "output"} \X Calls
    BY Zenon DEF IInv, TypeOK, WorkerTypes, CallTypes
  <1>11. proc'[w] = p /\ current'[w] = NoCall /\ \A v \in Workers : proc[v] = "dead" => proc'[v] = "dead"
    BY <1>1, <1>6, <1>7, <1>10, Zenon
  <1>12. \A d \in Calls : /\ <<"input", d>> \in shm' <=> <<"input", d>> \in shm
                          /\ d # c => (<<"output", d>> \in shm' <=> <<"output", d>> \in shm)
    BY <1>7, <1>10, Zenon
  <1>13. \A d \in Calls : d # c => Same(d)
    BY <1>7, <1>8, <1>10, <1>11, <1>12, CallAssumption, Zenon DEF Same, NotRunning, Discarded
  <1>14. \A d \in Calls : d # c => Kept(d) /\ CallOK(d)'
    BY <1>8, <1>13, CallsSame, Zenon
  <1>15. CallOK(c)'
    <2>1. /\ (OutputThere(c)' <=> out = "region")
          /\ (Discarded(c)' <=> Discarded(c)) /\ (NotRunning(c)' <=> NotRunning(c))
      BY <1>3, <1>7, <1>8, <1>9, <1>10, Zenon DEF OutputThere, Discarded, NotRunning
    <2>2. Owned(c)'
      BY <1>3, <1>7, <1>9, <1>11, <1>12, <2>1, CallAssumption, Zenon DEF CallOK, Owned, Awaited
    <2>3. \/ output_fifo'[c] = output_fifo[c]
          \/ output_fifo'[c] = out /\ output_fifo[c] # "none"
      BY <1>7, <1>10, Zenon
    <2>4. FifoOK(c)'
      BY <1>3, <1>5, <1>7, <1>8, <2>1, <2>3, Zenon DEF CallOK, FifoOK, Readable
    <2> QED BY <1>3, <1>5, <1>7, <1>8, <2>1, <2>2, <2>3, <2>4, Zenon DEF CallOK
  <1>16. \A d \in Calls : CallOK(d)' /\ (d # c => Kept(d))
    BY <1>14, <1>15, Zenon
  <1>17. /\ up' \in [Workers -> Seq(Messages)] /\ DistinctCalls(up'[w])
         /\ \A v \in Workers : v # w => up'[v] = up[v]
         /\ \A m \in Up(w)' : m \in Up(w) \/ m = n
    <2>1. CASE Sends(w, n)
      <3>1. \A m \in Up(w) : m.call # n.call
        BY <1>3, <1>9, Zenon
      <3> HIDE DEF n
      <3> QED BY <1>9, <2>1, <3>1, WorkerSends
    <2>2. CASE UNCHANGED up
      BY <2>2, Zenon DEF IInv, TypeOK, MessageTypes, MessagesDistinct, Up
    <2> QED BY <1>6, <2>1, <2>2, Zenon
  <1>18. WorkerTypes' /\ CallTypes' /\ StepOf(w)
    <2>1. WorkerTypes'
      BY <1>6, <1>7, <1>10, Zenon DEF IInv, TypeOK, WorkerTypes
    <2>2. output_fifo' \in [NestedCalls -> {"none", "empty", "failed", "data", "region", "left"}]
      BY <1>7, <1>10, Zenon DEF Readable
    <2>3. CallTypes'
      BY <1>7, <1>9, <1>10, <2>2 DEF IInv, TypeOK, CallTypes
    <2> QED BY <1>6, <1>7, <1>17, <2>1, <2>3 DEF StepOf, IInv, TypeOK, WorkerTypes
  <1>19. LocalOK(w)' /\ CurrentOK(w)'
    BY <1>1, <1>7, <1>8, <1>11, Zenon DEF LocalOK, CurrentOK
  <1>20. DoneOK(w, n)'
    BY <1>3, <1>5, <1>8, <1>9, <1>11, Zenon DEF DoneOK, Reports, ByEngine
  <1>21. UNCHANGED <<flagVars, engineVars, connVars, down, waiting>>
    BY <1>7, Zenon
  <1>22. \A m \in Up(w)' : m \in Up(w) \/ DoneOK(w, m)'
    BY <1>17, <1>20, Zenon
  <1> HIDE DEF n
  <1> QED BY <1>2, <1>9, <1>16, <1>17, <1>18, <1>19, <1>21, <1>22, CurrentStep, Zenon

\* A call that is given up before anybody is told of it.
LEMMA OnExternalFuncCallFailsIInv ==
    ASSUME IInv, NEW x \in ExternalCalls, OnExternalFuncCallFails(x) PROVE IInv'
  <1>1. x \in Calls
    BY Zenon DEF Calls
  <1> QED BY <1>1, AbandonedIInv, Zenon DEF OnExternalFuncCallFails

LEMMA InvokeFuncFailsIInv ==
    ASSUME IInv, NEW w \in Workers, NEW g \in NestedCalls, InvokeFuncFails(w, g) PROVE IInv'
  <1>1. g \in Calls
    BY Zenon DEF Calls
  <1> QED BY <1>1, AbandonedIInv, Zenon DEF InvokeFuncFails

-----------------------------------------------------------------------------
(***************************************************************************)
(* The theorems.                                                           *)
(***************************************************************************)

\* Nothing has connected and nothing is sent or called.
LEMMA InitIInv ==
    ASSUME Init PROVE IInv
  <1>1. <<>> \in Seq(Messages) /\ Range(<<>>) = {} /\ DistinctCalls(<<>>)
    BY DEF Range, DistinctCalls
  <1>2. EngineTypes /\ ConnTypes
    BY DEF Init, EngineTypes, ConnTypes
  <1>3. WorkerTypes /\ CallTypes
    BY Zenon DEF Init, WorkerTypes, CallTypes
  <1>4. \A w \in Workers : up[w] = <<>> /\ down[w] = [pending |-> <<>>, scheduled |-> FALSE, fifo |-> <<>>]
    BY Zenon DEF Init
  <1>5. \A f \in Funcs : pending_func_calls[f] = <<>>
    BY Zenon DEF Init
  <1>6. MessageTypes
    BY <1>1, Zenon DEF Init, MessageTypes, Ways
  <1>7. \A w \in Workers : Up(w) = {} /\ Down(w) = {} /\ DistinctOnTheWay(down[w])
    BY <1>1, <1>4 DEF Up, Down, OnTheWay, DistinctOnTheWay
  <1>8. \A f \in Funcs : Queue(f) = {}
    BY <1>1, <1>5, Zenon DEF Queue
  <1>9. MessagesDistinct /\ QueueInv /\ UpInv /\ DownInv
    BY <1>1, <1>4, <1>5, <1>7, <1>8, Zenon DEF MessagesDistinct, QueueInv, UpInv, DownInv
  <1>10. WorkerInv
    BY Zenon DEF Init, WorkerInv, ConnOK, LocalOK, CurrentOK
  <1>11. ASSUME NEW c \in Calls PROVE CallOK(c)
    <2>1. result[c] = "unused" /\ outcome[c] = "none" /\ c # NoCall /\ shm = {} /\ NotRunning(c) /\ ~Discarded(c)
      BY CallAssumption, Zenon DEF Init, NotRunning, Discarded
    <2>2. c \in NestedCalls => /\ output_fifo[c] = "none" /\ waiting[Caller[c]] = {} /\ held[Caller[c]] = {}
      BY CallAssumption, Zenon DEF Init
    <2> QED BY <2>1, <2>2, Zenon DEF CallOK, NotStarted, OutputThere, Owned, FifoOK, Readable
  <1> QED BY <1>2, <1>3, <1>6, <1>9, <1>10, <1>11, Zenon DEF IInv, TypeOK, CallInv

\* Every step of the engine, of a worker and of the gateway preserves the invariant.
LEMMA NextIInv ==
    ASSUME IInv, [Next]_vars PROVE IInv'
  <1>1. CASE UNCHANGED vars
    <2>1. UNCHANGED <<use_fifo_for_nested_call, direct_write, lib, engine_up, gateway_up, func_workers,
                      running_workers, pending_func_calls, discarding, inflight_external_requests>>
      BY <1>1, Zenon DEF vars, flagVars, engineVars, dispatcherVars
    <2>2. UNCHANGED <<conn, handshake_done, down, up, proc, current, waiting, held, writing, shm,
                      output_fifo, result, outcome>>
      BY <1>1, Zenon DEF vars, connVars, workerVars, fileVars, endVars
    <2>3. TypeOK' /\ MessagesDistinct'
      BY <2>1, <2>2
         DEF IInv, TypeOK, EngineTypes, ConnTypes, MessageTypes, WorkerTypes, CallTypes,
                        MessagesDistinct
    <2>4. \A c \in Calls : Same(c)
      BY <2>1, <2>2, Zenon DEF Same, Discarded, NotRunning
    <2>5. \A c \in Calls : Kept(c) /\ CallOK(c)'
      BY <2>1, <2>4, SameKept, Zenon DEF IInv, CallInv
    <2>6. \A v \in Workers : ConnOK(v)' /\ Untouched(v)
      BY <2>1, <2>2, Zenon DEF IInv, WorkerInv, ConnOK, Untouched, Up, Down
    <2>7. {} \in SUBSET Workers /\ NotQueued(NoCall) /\ \A v \in Workers : Unconcerned(v, NoCall)
      BY NoCallIsNone, Zenon
    <2> QED BY <2>1, <2>3, <2>5, <2>6, <2>7, StepIInv, Zenon
  <1>2. CASE Next
    BY <1>2, OnNewHandshakeIInv, QuietStepsIInv, OnExternalFuncCallIInv, OnRecvInvokeFuncIInv,
       OnRecvExternalDoneIInv, OnRecvNestedDoneIInv, WriteDiscardedToFifoIInv, DoHandshakeIInv,
       ExecuteFuncIInv, InvokeFuncIInv, WaitInvokeFuncIInv, OnOutgoingFuncCallFinishedIInv,
       FifoWaitInvokeFuncIInv, FifoPollTimeoutIInv, FuncCallFinishedIInv,
       FifoFuncCallFinishedIInv,
       OnExternalFuncCallFailsIInv, InvokeFuncFailsIInv, WriteOutputIInv, CrashIInv, Zenon DEF Next
  <1> QED BY <1>1, <1>2, Zenon

\* The inductive invariant: types; no two messages on one way about the same call;
\* and, for each message that is queued or sent, each worker and each call, what is
\* right of it at every point between the engine's dispatch and the caller's answer.
THEOREM Invariance == Spec => []IInv
  <1>1. Init => IInv
    BY InitIInv, Zenon
  <1>2. IInv /\ [Next]_vars => IInv'
    BY NextIInv, Zenon
  <1> QED BY <1>1, <1>2, PTL DEF Spec

\* Messages on their way to a worker that are all about the same call are at most one.
LEMMA AtMostOne ==
    ASSUME NEW d \in Ways, DistinctOnTheWay(d), \A m, n \in OnTheWay(d) : m.call = n.call
    PROVE  Len(d.pending) + Len(d.fifo) <= 1
  <1> DEFINE p == d.pending
             q == d.fifo
  <1>1. p \in Seq(Messages) /\ q \in Seq(Messages)
    BY Zenon DEF Ways
  <1>2. DistinctCalls(p) /\ DistinctCalls(q) /\ \A m \in Range(p), n \in Range(q) : m.call # n.call
    BY Zenon DEF DistinctOnTheWay
  <1>3. \A m, n \in Range(p) \cup Range(q) : m.call = n.call
    BY Zenon DEF OnTheWay
  <1> HIDE DEF p, q
  <1>4. /\ Len(p) \in Nat /\ Len(q) \in Nat /\ DOMAIN p = 1..Len(p) /\ DOMAIN q = 1..Len(q)
    BY <1>1
  <1>5. Len(p) <= 1
    <2> SUFFICES ASSUME 2 <= Len(p) PROVE FALSE
      BY <1>4
    <2>1. 1 \in 1..Len(p) /\ 2 \in 1..Len(p)
      BY <1>4
    <2>2. p[1] \in Range(p) /\ p[2] \in Range(p)
      BY <1>4, <2>1, Zenon DEF Range
    <2> QED BY <1>2, <1>3, <2>1, <2>2 DEF DistinctCalls
  <1>6. Len(q) <= 1
    <2> SUFFICES ASSUME 2 <= Len(q) PROVE FALSE
      BY <1>4
    <2>1. 1 \in 1..Len(q) /\ 2 \in 1..Len(q)
      BY <1>4
    <2>2. q[1] \in Range(q) /\ q[2] \in Range(q)
      BY <1>4, <2>1, Zenon DEF Range
    <2> QED BY <1>2, <1>3, <2>1, <2>2 DEF DistinctCalls
  <1>7. Len(p) = 0 \/ Len(q) = 0
    <2> SUFFICES ASSUME 1 <= Len(p), 1 <= Len(q) PROVE FALSE
      BY <1>4
    <2>1. 1 \in 1..Len(p) /\ 1 \in 1..Len(q)
      BY <1>4
    <2>2. p[1] \in Range(p) /\ q[1] \in Range(q)
      BY <1>4, <2>1, Zenon DEF Range
    <2> QED BY <1>2, <1>3, <2>2, Zenon
  <1>8. Len(p) + Len(q) <= 1
    BY <1>4, <1>5, <1>6, <1>7
  <1> QED BY <1>8, Zenon DEF p, q

\* What is in transit, in the terms of the invariant.
LEMMA InTransitIs ==
    ASSUME IInv
    PROVE  /\ \A w \in Workers : ToWorker(w) = Down(w)
           /\ \A m \in InTransit : \/ \E w \in Workers : m \in Down(w) \/ m \in Up(w)
                                   \/ \E f \in Funcs : m \in Queue(f)
  <1>1. ASSUME NEW w \in Workers PROVE ToWorker(w) = Down(w)
    <2>1. down[w].pending \in Seq(Messages) /\ down[w].fifo \in Seq(Messages)
      BY Zenon DEF IInv, TypeOK, MessageTypes, Ways
    <2>2. Range(down[w].pending \o down[w].fifo) = Range(down[w].pending) \cup Range(down[w].fifo)
      BY <2>1, Joined, Zenon
    <2> QED BY <2>2, Zenon DEF ToWorker, Down, OnTheWay
  <1>2. \A m \in InTransit : \/ \E w \in Workers : m \in ToWorker(w) \/ m \in Up(w)
                             \/ \E f \in Funcs : m \in Queue(f)
    BY Zenon DEF InTransit, Up, Queue
  <1> QED BY <1>1, <1>2, Zenon

\* A message to a live worker is right, so the worker expects it.
LEMMA IInvExpects ==
    ASSUME IInv PROVE MessagesAreExpected
  <1> SUFFICES ASSUME NEW w \in Workers, proc[w] # "dead"
               PROVE  /\ \A m \in Down(w) :
                            IF m.type = "dispatch"
                            THEN proc[w] \in {"starting", "idle"} /\ running_workers[w] = m.call
                            ELSE m.call \in waiting[w] /\ ~use_fifo_for_nested_call
                      /\ lib = "v1" => Len(down[w].pending) + Len(down[w].fifo) <= 1
    BY InTransitIs, Zenon DEF MessagesAreExpected
  <1>1. /\ LocalOK(w) /\ proc[w] \in {"starting", "idle", "executing", "writing", "dead"}
        /\ down[w] \in Ways /\ DistinctOnTheWay(down[w])
    BY Zenon DEF IInv, WorkerInv, TypeOK, WorkerTypes, MessageTypes, MessagesDistinct
  <1>2. ASSUME NEW m \in Down(w), m.type = "dispatch"
        PROVE  running_workers[w] = m.call /\ proc[w] \in {"starting", "idle"}
    <2>1. DispatchOK(w, m)
      BY <1>2, Zenon DEF IInv, DownInv, AnswerOK, Done
    <2> QED BY <1>1, <2>1, Zenon DEF DispatchOK, LocalOK
  <1>3. ASSUME NEW m \in Down(w), m.type # "dispatch"
        PROVE  m.call \in waiting[w] /\ ~use_fifo_for_nested_call
    BY <1>3, AnswerIsAwaited, Zenon
  <1>4. ASSUME lib = "v1" PROVE \A m, n \in Down(w) : m.call = n.call
    <2> SUFFICES ASSUME NEW m \in Down(w), NEW n \in Down(w) PROVE m.call = n.call
      BY Zenon
    <2>1. CASE m.type = "dispatch" /\ n.type = "dispatch"
      BY <1>2, <2>1, Zenon
    <2>2. CASE m.type # "dispatch" /\ n.type # "dispatch"
      BY <1>1, <1>3, <1>4, <2>2, Zenon DEF LocalOK
    <2>3. CASE m.type = "dispatch" /\ n.type # "dispatch"
      BY <1>1, <1>2, <1>3, <1>4, <2>3, Zenon DEF LocalOK
    <2>4. CASE m.type # "dispatch" /\ n.type = "dispatch"
      BY <1>1, <1>2, <1>3, <1>4, <2>4, Zenon DEF LocalOK
    <2> QED BY <2>1, <2>2, <2>3, <2>4, Zenon
  <1>5. lib = "v1" => Len(down[w].pending) + Len(down[w].fifo) <= 1
    BY <1>1, <1>4, AtMostOne, Zenon DEF Down
  <1> QED BY <1>2, <1>3, <1>5, Zenon

\* A message or a call that is right finds its regions, and a region is of a call that owns it.
LEMMA IInvOwners ==
    ASSUME IInv PROVE RegionsHaveOwner
  <1>1. ASSUME NEW m \in InTransit, m.shm
        PROVE  IF m.type \in {"dispatch", "invoke"} THEN InputThere(m.call) ELSE OutputThere(m.call)
    <2>1. CASE \E f \in Funcs : m \in Queue(f)
      BY <1>1, <2>1, Zenon DEF IInv, QueueInv, QueuedOK
    <2>2. CASE \E w \in Workers : m \in Up(w)
      <3>1. PICK w \in Workers : InvokeOK(w, m) \/ DoneOK(w, m)
        BY <2>2, Zenon DEF IInv, UpInv
      <3> QED BY <1>1, <3>1, Zenon DEF InvokeOK, DoneOK, Reports, Done
    <2>3. CASE \E w \in Workers : m \in Down(w)
      <3>1. PICK w \in Workers : DispatchOK(w, m) \/ AnswerOK(w, m)
        BY <2>3, Zenon DEF IInv, DownInv
      <3> QED BY <1>1, <3>1, Zenon DEF DispatchOK, AnswerOK, Reports, Done
    <2> QED BY <2>1, <2>2, <2>3, InTransitIs, Zenon
  <1>2. \A g \in NestedCalls : output_fifo[g] = "region" => <<"output", g>> \in shm
    BY Zenon DEF IInv, CallInv, CallOK, FifoOK, Readable, OutputThere, Calls
  <1>3. ASSUME NEW r \in shm
        PROVE  LET c == r[2]
               IN  \/ c \in ExternalCalls /\ result[c] = "open"
                   \/ c \in NestedCalls /\ proc[Caller[c]] = "dead"
                   \/ c \in NestedCalls /\ r[1] = "input" /\ c \in waiting[Caller[c]]
                   \/ c \in NestedCalls /\ r[1] = "output"
                        /\ (c \in waiting[Caller[c]] \cup held[Caller[c]] \/ result[c] = "timeout")
    <2>1. PICK k \in {"input", "output"}, c \in Calls : r = <<k, c>>
      BY DEF IInv, TypeOK, CallTypes
    <2>2. Owned(c) /\ r[1] = k /\ r[2] = c
      BY <2>1, Zenon DEF IInv, CallInv, CallOK
    <2> QED BY <2>1, <2>2, Zenon DEF Owned
  <1> QED BY <1>1, <1>2, <1>3, Zenon DEF RegionsHaveOwner, InputThere, OutputThere

\* What a call ended with is right of it, by the invariant.
LEMMA IInvTrue ==
    ASSUME IInv PROVE AnswersAreTrue
  BY Zenon DEF IInv, CallInv, CallOK, Discarded, Failures, AnswersAreTrue

\* For any number of workers, functions and calls, each of the three libraries, and
\* whatever crashes: a live worker gets a call only when it is free and an answer
\* only to a call it waits for, and a C++ worker never has two messages coming.
THEOREM Expected == Spec => []MessagesAreExpected
  <1>1. IInv => MessagesAreExpected
    BY IInvExpects, Zenon
  <1> QED BY <1>1, Invariance, PTL

\* A caller, and the gateway, is told of success only if the function that it called
\* succeeded, and of failure only if that failed, if the call was discarded, or if a
\* file for its input or its output could not be created.
THEOREM Truthful == Spec => []AnswersAreTrue
  <1>1. IInv => AnswersAreTrue
    BY IInvTrue, Zenon
  <1> QED BY <1>1, Invariance, PTL

\* A region of shared memory that a message or an output FIFO refers to exists. Each
\* region that exists belongs to a call that the gateway still waits for or that its
\* caller has not given back, unless the caller died or timed out.
THEOREM Owners == Spec => []RegionsHaveOwner
  <1>1. IInv => RegionsHaveOwner
    BY IInvOwners, Zenon
  <1> QED BY <1>1, Invariance, PTL

=============================================================================
