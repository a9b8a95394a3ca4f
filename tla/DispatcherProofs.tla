-------------------------- MODULE DispatcherProofs --------------------------
(***************************************************************************)
(* Proofs about Dispatcher: for every number of calls and workers and every *)
(* setting of the flags, no worker and no call is lost or held twice.      *)
(***************************************************************************)
EXTENDS Dispatcher, TLAPS

\* A call between the two halves of its finish handler is still assigned to a
\* connected worker, which has answered it.
FinishingOnWorker ==
    \A f \in finishing : fate[f] = "finished" /\ assigned_workers[f] \in workers

\* What a worker has not answered is an open call, and the worker is connected.
ExecutingIsOpen ==
    \A c \in Clients : \A f \in executing[c] : fate[f] = "open" /\ c \in workers

\* A client id that has not connected yet appears nowhere in the dispatcher.
FreshClients ==
    \A c \in Clients :
        /\ c \in launching \/ c >= next_client_id =>
              c \notin workers /\ ~Stacked(c) /\ running_workers[c] = NoCall
        /\ c \in launching => c < next_client_id

\* The inductive invariant.
IndInv ==
    /\ TypeOK
    /\ WorkerHeldOnce
    /\ AssignmentsAgree
    /\ CallInOnePlace
    /\ OneCallAtATime
    /\ FinishingOnWorker
    /\ ExecutingIsOpen
    /\ FreshClients

-----------------------------------------------------------------------------
(***************************************************************************)
(* The parts of the invariant as operators of the maps they are about, so  *)
(* that a helper's effect can be stated for the maps its caller prepared.  *)
(***************************************************************************)
InSeq(x, s) == \E i \in 1..Len(s) : s[i] = x
Distinct(s) == \A i, j \in 1..Len(s) : i # j => s[i] # s[j]

HeldOnce(W, run, stack) ==
    /\ \A c \in W : (run[c] # NoCall) # InSeq(c, stack)
    /\ Distinct(stack)
Agree(run, asg) == \A f \in Calls, c \in Clients : asg[f] = c <=> run[c] = f
InOnePlace(fates, infos, asg, queue, fin) ==
    /\ \A f \in Calls : fates[f] = "open" =>
            IF InSeq(f, queue)
            THEN infos[f] = "kReceived" /\ asg[f] = NoClient
            ELSE infos[f] = "kDispatched" /\ asg[f] # NoClient
    /\ \A f \in Calls : fates[f] # "open" =>
            /\ ~InSeq(f, queue)
            /\ infos[f] = "none"
            /\ asg[f] # NoClient <=> f \in fin
    /\ Distinct(queue)
OneAtATime(exe, run) == \A c \in Clients : exe[c] \subseteq {run[c]}
FinishingOn(fin, fates, asg, W) ==
    \A f \in fin : fates[f] = "finished" /\ asg[f] \in W
ExecutingOpen(exe, fates, W) ==
    \A c \in Clients : \A f \in exe[c] : fates[f] = "open" /\ c \in W

Maps == [Clients -> Calls \cup {NoCall}]
Assignments == [Calls -> Clients \cup {NoClient}]
Infos == [Calls -> {"none", "kReceived", "kDispatched"}]
Fates == [Calls -> {"new", "open", "finished", "discarded"}]

\* The operators say what the properties of Dispatcher say of its variables.
LEMMA PartsOfIndInv ==
    /\ WorkerHeldOnce <=> HeldOnce(workers, running_workers, idle_workers)
    /\ AssignmentsAgree <=> Agree(running_workers, assigned_workers)
    /\ CallInOnePlace <=> InOnePlace(fate, func_call_infos, assigned_workers,
                                     pending_func_calls, finishing)
    /\ OneCallAtATime <=> OneAtATime(executing, running_workers)
    /\ FinishingOnWorker <=> FinishingOn(finishing, fate, assigned_workers, workers)
    /\ ExecutingIsOpen <=> ExecutingOpen(executing, fate, workers)
<1>1. WorkerHeldOnce <=> HeldOnce(workers, running_workers, idle_workers)
  BY Zenon DEF WorkerHeldOnce, HeldOnce, InSeq, Distinct, Stacked
<1>2. CallInOnePlace <=> InOnePlace(fate, func_call_infos, assigned_workers,
                                    pending_func_calls, finishing)
  BY Zenon DEF CallInOnePlace, InOnePlace, InSeq, Distinct, Queued
<1> QED
  BY <1>1, <1>2, Zenon DEF AssignmentsAgree, Agree, OneCallAtATime, OneAtATime,
     FinishingOnWorker, FinishingOn, ExecutingIsOpen, ExecutingOpen

\* The same for the state after a step.
LEMMA PartsOfIndInvPrimed ==
    /\ WorkerHeldOnce' <=> HeldOnce(workers', running_workers', idle_workers')
    /\ AssignmentsAgree' <=> Agree(running_workers', assigned_workers')
    /\ CallInOnePlace' <=> InOnePlace(fate', func_call_infos', assigned_workers',
                                      pending_func_calls', finishing')
    /\ OneCallAtATime' <=> OneAtATime(executing', running_workers')
    /\ FinishingOnWorker' <=> FinishingOn(finishing', fate', assigned_workers', workers')
    /\ ExecutingIsOpen' <=> ExecutingOpen(executing', fate', workers')
<1>1. WorkerHeldOnce' <=> HeldOnce(workers', running_workers', idle_workers')
  BY Zenon DEF WorkerHeldOnce, HeldOnce, InSeq, Distinct, Stacked
<1>2. CallInOnePlace' <=> InOnePlace(fate', func_call_infos', assigned_workers',
                                     pending_func_calls', finishing')
  BY Zenon DEF CallInOnePlace, InOnePlace, InSeq, Distinct, Queued
<1> QED
  BY <1>1, <1>2, Zenon DEF AssignmentsAgree, Agree, OneCallAtATime, OneAtATime,
     FinishingOnWorker, FinishingOn, ExecutingIsOpen, ExecutingOpen

\* What is left of a sequence without its first m elements.
LEMMA SubSeqFacts ==
    ASSUME NEW S, NEW s \in Seq(S), NEW m \in 0..Len(s)
    PROVE  /\ SubSeq(s, m + 1, Len(s)) \in Seq(S)
           /\ Len(SubSeq(s, m + 1, Len(s))) = Len(s) - m
           /\ \A i \in 1..(Len(s) - m) : SubSeq(s, m + 1, Len(s))[i] = s[m + i]
  OBVIOUS

\* The prefix of a sequence of distinct elements that PickIdleWorker keeps.
LEMMA PrefixFacts ==
    ASSUME NEW S, NEW s \in Seq(S), NEW k \in 1..Len(s)
    PROVE  /\ SubSeq(s, 1, k - 1) \in Seq(S)
           /\ Len(SubSeq(s, 1, k - 1)) = k - 1
           /\ \A i \in 1..(k - 1) : SubSeq(s, 1, k - 1)[i] = s[i]
  OBVIOUS

\* Appending an element that is not in a sequence of distinct elements.
LEMMA AppendFacts ==
    ASSUME NEW S, NEW s \in Seq(S), NEW x \in S
    PROVE  /\ Append(s, x) \in Seq(S)
           /\ \A y : InSeq(y, Append(s, x)) <=> InSeq(y, s) \/ y = x
           /\ Distinct(s) /\ ~InSeq(x, s) => Distinct(Append(s, x))
<1>1. /\ Append(s, x) \in Seq(S)
      /\ Len(Append(s, x)) = Len(s) + 1
      /\ \A i \in 1..Len(s) : Append(s, x)[i] = s[i]
      /\ Append(s, x)[Len(s) + 1] = x
  OBVIOUS
<1>2. Len(s) \in Nat
  OBVIOUS
<1>3. \A y : InSeq(y, Append(s, x)) <=> InSeq(y, s) \/ y = x
  BY <1>1, <1>2 DEF InSeq
<1>4. Distinct(s) /\ ~InSeq(x, s) => Distinct(Append(s, x))
  BY <1>1, <1>2 DEF InSeq, Distinct
<1> QED
  BY <1>1, <1>3, <1>4, Zenon

\* Taking n elements and then one more from the front of a sequence of distinct
\* elements splits it into three disjoint parts.
LEMMA TakeFromFront ==
    ASSUME NEW S, NEW s \in Seq(S), Distinct(s), NEW n \in 0..(Len(s) - 1)
    PROVE  LET gone == {s[i] : i \in 1..n}
               rest == SubSeq(s, n + 2, Len(s))
           IN  /\ rest \in Seq(S)
               /\ Distinct(rest)
               /\ s[n + 1] \in S /\ s[n + 1] \notin gone /\ ~InSeq(s[n + 1], rest)
               /\ InSeq(s[n + 1], s)
               /\ \A y \in gone : InSeq(y, s) /\ ~InSeq(y, rest)
               /\ \A y : InSeq(y, s) => y \in gone \/ y = s[n + 1] \/ InSeq(y, rest)
               /\ \A y : InSeq(y, rest) => InSeq(y, s)
<1> DEFINE gone == {s[i] : i \in 1..n}
           rest == SubSeq(s, n + 2, Len(s))
<1>1. Len(s) \in Nat /\ n + 2 \in 1..(Len(s) + 1)
  OBVIOUS
<1>2. /\ rest \in Seq(S)
      /\ Len(rest) = Len(s) - n - 1
      /\ \A i \in 1..(Len(s) - n - 1) : rest[i] = s[(n + 1) + i]
  <2>1. n + 1 \in 0..Len(s) /\ n + 2 = (n + 1) + 1 /\ Len(s) - n - 1 = Len(s) - (n + 1)
    BY <1>1
  <2>2. PICK m \in 0..Len(s) : m = n + 1
    BY <2>1, Zenon
  <2>3. /\ SubSeq(s, m + 1, Len(s)) \in Seq(S)
        /\ Len(SubSeq(s, m + 1, Len(s))) = Len(s) - m
        /\ \A i \in 1..(Len(s) - m) : SubSeq(s, m + 1, Len(s))[i] = s[m + i]
    BY SubSeqFacts, Zenon
  <2>4. rest = SubSeq(s, m + 1, Len(s)) /\ Len(s) - n - 1 = Len(s) - m
    BY <2>1, <2>2, Zenon
  <2> HIDE DEF rest
  <2> QED
    BY <2>2, <2>3, <2>4, Zenon
<1> HIDE DEF rest
<1>3. ASSUME NEW i \in 1..Len(rest), NEW j \in 1..Len(rest), i # j
      PROVE  rest[i] # rest[j]
  <2>1. /\ (n + 1) + i \in 1..Len(s) /\ (n + 1) + j \in 1..Len(s)
        /\ (n + 1) + i # (n + 1) + j
    BY <1>1, <1>2, <1>3
  <2>2. rest[i] = s[(n + 1) + i] /\ rest[j] = s[(n + 1) + j]
    BY <1>2, Zenon
  <2> QED
    BY <2>1, <2>2, Zenon DEF Distinct
<1>a. \A y \in gone : \E i \in 1..n : y = s[i]
  BY Zenon
<1>b. ASSUME NEW y, InSeq(y, rest)
      PROVE  \E j \in (n + 2)..Len(s) : y = s[j]
  <2>1. PICK i \in 1..Len(rest) : rest[i] = y
    BY <1>b, Zenon DEF InSeq
  <2>2. rest[i] = s[n + 1 + i] /\ n + 1 + i \in (n + 2)..Len(s)
    BY <1>1, <1>2
  <2> QED
    BY <2>1, <2>2, Zenon
<1>4. s[n + 1] \in S /\ s[n + 1] \notin gone /\ ~InSeq(s[n + 1], rest)
  <2>1. n + 1 \in 1..Len(s)
    BY <1>1
  <2>2. s[n + 1] \notin gone
    BY <1>1, <1>a, <2>1 DEF Distinct
  <2>3. ~InSeq(s[n + 1], rest)
    BY <1>1, <1>b, <2>1 DEF Distinct
  <2> QED
    BY <2>1, <2>2, <2>3
<1>5. InSeq(s[n + 1], s)
  BY <1>1 DEF InSeq
<1>6. ASSUME NEW y \in gone
      PROVE  InSeq(y, s) /\ ~InSeq(y, rest)
  <2>1. PICK i \in 1..n : y = s[i]
    BY <1>a, Zenon
  <2>2. i \in 1..Len(s)
    BY <1>1
  <2>3. InSeq(y, s)
    BY <2>1, <2>2, Zenon DEF InSeq
  <2>4. ~InSeq(y, rest)
    BY <1>1, <1>b, <2>1, <2>2 DEF Distinct
  <2> QED
    BY <2>3, <2>4, Zenon
<1>7. ASSUME NEW y, InSeq(y, s), y \notin gone, y # s[n + 1]
      PROVE  InSeq(y, rest)
  <2>1. PICK i \in 1..Len(s) : s[i] = y
    BY <1>7, Zenon DEF InSeq
  <2>2. i > n + 1
    <3>1. i \notin 1..n
      BY <1>7, <2>1, Zenon
    <3> QED
      BY <1>1, <1>7, <2>1, <3>1
  <2>3. (i - n - 1) \in 1..Len(rest) /\ rest[i - n - 1] = s[i]
    BY <1>1, <1>2, <2>2
  <2> QED
    BY <2>1, <2>3, Zenon DEF InSeq
<1>8. ASSUME NEW y, InSeq(y, rest)
      PROVE  InSeq(y, s)
  <2>1. PICK j \in (n + 2)..Len(s) : y = s[j]
    BY <1>8, <1>b, Zenon
  <2>2. j \in 1..Len(s)
    BY <1>1
  <2> QED
    BY <2>1, <2>2, Zenon DEF InSeq
<1>9. Distinct(rest)
  BY <1>3, Zenon DEF Distinct
<1> QED
  BY <1>2, <1>9, <1>4, <1>5, <1>6, <1>7, <1>8, Zenon DEF rest

\* DispatchPendingFuncCall for a free worker c, which no map or stack mentions,
\* restores every part of the invariant for the set W of connected workers and
\* the set fin of calls inside a finish handler that its caller leaves.
LEMMA DispatchPendingKeeps ==
    ASSUME TypeOK, NEW W \in SUBSET Clients, NEW fin \in SUBSET Calls,
           NEW c \in W, NEW run \in Maps, NEW asg \in Assignments,
           HeldOnce(W \ {c}, run, idle_workers), ~InSeq(c, idle_workers),
           run[c] = NoCall, Agree(run, asg),
           InOnePlace(fate, func_call_infos, asg, pending_func_calls, fin),
           OneAtATime(executing, run),
           FinishingOn(fin, fate, asg, W),
           ExecutingOpen(executing, fate, W),
           DispatchPendingFuncCall(c, run, asg)
    PROVE  /\ running_workers' \in Maps
           /\ assigned_workers' \in Assignments
           /\ func_call_infos' \in Infos
           /\ executing' \in [Clients -> SUBSET Calls]
           /\ pending_func_calls' \in Seq(Calls)
           /\ idle_workers' \in Seq(Clients)
           /\ fate' \in Fates
           /\ HeldOnce(W, running_workers', idle_workers')
           /\ Agree(running_workers', assigned_workers')
           /\ InOnePlace(fate', func_call_infos', assigned_workers',
                         pending_func_calls', fin)
           /\ OneAtATime(executing', running_workers')
           /\ FinishingOn(fin, fate', assigned_workers', W)
           /\ ExecutingOpen(executing', fate', W)
           /\ \A d \in Clients \ {c} :
                 /\ running_workers'[d] = run[d]
                 /\ InSeq(d, idle_workers') <=> InSeq(d, idle_workers)
<1> DEFINE queue == pending_func_calls
           gone(n) == {queue[i] : i \in 1..n}
           infos(n) == [f \in Calls |-> IF f \in gone(n) THEN "none"
                                                     ELSE func_call_infos[f]]
<1>1. PICK n \in 0..Len(queue) :
        /\ fate' = [f \in Calls |-> IF f \in gone(n) THEN "discarded" ELSE fate[f]]
        /\ \/ /\ n < Len(queue)
              /\ DispatchFuncCall(c, queue[n + 1], run, asg, infos(n))
              /\ queue' = SubSeq(queue, n + 2, Len(queue))
              /\ UNCHANGED idle_workers
           \/ /\ n = Len(queue)
              /\ running_workers' = run
              /\ assigned_workers' = asg
              /\ func_call_infos' = infos(n)
              /\ UNCHANGED executing
              /\ queue' = <<>>
              /\ idle_workers' = Append(idle_workers, c)
  BY Zenon DEF DispatchPendingFuncCall
<1> DEFINE G == gone(n)
           I == infos(n)
<1>2. /\ queue \in Seq(Calls) /\ Len(queue) \in Nat /\ Distinct(queue)
      /\ idle_workers \in Seq(Clients) /\ executing \in [Clients -> SUBSET Calls]
      /\ func_call_infos \in Infos /\ fate \in Fates
      /\ c \in Clients /\ NoCall \notin Calls /\ NoClient \notin Clients
  BY CallsAssumption, BoundAssumption DEF TypeOK, InOnePlace, Infos, Fates, Clients, NoClient
<1>3. I \in Infos /\ fate' \in Fates
  BY <1>1, <1>2, Zenon DEF Infos, Fates
<1>4. \A g \in G : g \in Calls /\ InSeq(g, queue) /\ fate[g] = "open"
                   /\ func_call_infos[g] = "kReceived" /\ asg[g] = NoClient
                   /\ g \notin fin
  <2> TAKE g \in G
  <2>1. PICK i \in 1..n : g = queue[i]
    BY Zenon
  <2>2. i \in 1..Len(queue)
    BY <1>2
  <2>3. g \in Calls /\ InSeq(g, queue)
    BY <1>2, <2>1, <2>2 DEF InSeq
  <2>4. fate[g] = "open" /\ func_call_infos[g] = "kReceived" /\ asg[g] = NoClient
    BY <2>3, Zenon DEF InOnePlace
  <2> QED
    BY <2>3, <2>4, Zenon DEF FinishingOn
<1>5. /\ \A g \in Calls : g \in G => I[g] = "none" /\ fate'[g] = "discarded"
      /\ \A g \in Calls : g \notin G => I[g] = func_call_infos[g] /\ fate'[g] = fate[g]
  BY <1>1, Zenon
<1> HIDE DEF gone, infos, I, G
<1>6. CASE n < Len(queue)
  <2> DEFINE f == queue[n + 1]
             rest == SubSeq(queue, n + 2, Len(queue))
  <2>1. n \in 0..(Len(queue) - 1)
    BY <1>2, <1>6
  <2>2. /\ rest \in Seq(Calls) /\ Distinct(rest)
        /\ f \in Calls /\ f \notin G /\ ~InSeq(f, rest) /\ InSeq(f, queue)
        /\ \A y \in G : InSeq(y, queue) /\ ~InSeq(y, rest)
        /\ \A y : InSeq(y, queue) => y \in G \/ y = f \/ InSeq(y, rest)
        /\ \A y : InSeq(y, rest) => InSeq(y, queue)
    BY <1>2, <2>1, TakeFromFront, Zenon DEF G, gone
  <2>3. /\ DispatchFuncCall(c, f, run, asg, I)
        /\ queue' = rest
        /\ idle_workers' = idle_workers
    BY <1>1, <1>6 DEF I
  <2> HIDE DEF f, rest
  <2>4. fate[f] = "open" /\ asg[f] = NoClient /\ I[f] = "kReceived" /\ fate'[f] = "open"
    BY <1>5, <2>2, Zenon DEF InOnePlace
  <2>5. /\ running_workers' = [run EXCEPT ![c] = f]
        /\ assigned_workers' = [asg EXCEPT ![f] = c]
        /\ func_call_infos' = [I EXCEPT ![f] = "kDispatched"]
        /\ executing' = [executing EXCEPT ![c] = @ \cup {f}]
    BY <2>3, <2>4, Zenon DEF DispatchFuncCall, Dispatched
  <2>6. /\ running_workers' \in Maps /\ assigned_workers' \in Assignments
        /\ func_call_infos' \in Infos /\ executing' \in [Clients -> SUBSET Calls]
        /\ queue' \in Seq(Calls) /\ idle_workers' \in Seq(Clients)
    BY <1>2, <1>3, <2>2, <2>3, <2>5, Zenon DEF Maps, Assignments, Infos
  <2>7. /\ running_workers'[c] = f
        /\ \A d \in Clients \ {c} : running_workers'[d] = run[d]
        /\ assigned_workers'[f] = c
        /\ \A g \in Calls \ {f} : assigned_workers'[g] = asg[g]
    BY <1>2, <2>2, <2>5, Zenon DEF Maps, Assignments
  <2>8. HeldOnce(W, running_workers', idle_workers')
    BY <1>2, <2>2, <2>3, <2>7, Zenon DEF HeldOnce
  <2>9. Agree(running_workers', assigned_workers')
    <3>1. \A d \in Clients : run[d] # f
      BY <1>2, <2>2, <2>4 DEF Agree
    <3>2. \A g \in Calls : asg[g] # c
      BY <1>2 DEF Agree
    <3> SUFFICES ASSUME NEW g \in Calls, NEW d \in Clients
                 PROVE  assigned_workers'[g] = d <=> running_workers'[d] = g
      BY Zenon DEF Agree
    <3>3. CASE g = f
      BY <2>7, <3>1, <3>3, Zenon
    <3>4. CASE g # f
      <4>1. assigned_workers'[g] = asg[g]
        BY <2>7, <3>4, Zenon
      <4>2. CASE d = c
        BY <2>7, <3>2, <3>4, <4>1, <4>2, Zenon
      <4>3. CASE d # c
        BY <2>7, <4>1, <4>3 DEF Agree
      <4> QED
        BY <4>2, <4>3, Zenon
    <3> QED
      BY <3>3, <3>4, Zenon
  <2>10. InOnePlace(fate', func_call_infos', assigned_workers', queue', fin)
    <3>1. /\ func_call_infos'[f] = "kDispatched"
          /\ \A g \in Calls \ {f} : func_call_infos'[g] = I[g]
      BY <1>3, <2>2, <2>5, Zenon DEF Infos
    <3>2. ASSUME NEW g \in Calls, fate'[g] = "open"
          PROVE  IF InSeq(g, rest)
                 THEN func_call_infos'[g] = "kReceived" /\ assigned_workers'[g] = NoClient
                 ELSE func_call_infos'[g] = "kDispatched" /\ assigned_workers'[g] # NoClient
      <4>1. CASE g = f
        <5>1. ~InSeq(g, rest)
          BY <2>2, <4>1, Zenon
        <5>2. func_call_infos'[g] = "kDispatched"
          BY <3>1, <4>1, Zenon
        <5>3. assigned_workers'[g] # NoClient
          BY <1>2, <2>7, <4>1, Zenon
        <5> QED
          BY <5>1, <5>2, <5>3, Zenon
      <4>2. CASE g # f
        <5>1. g \notin G /\ fate[g] = "open" /\ func_call_infos'[g] = func_call_infos[g]
              /\ assigned_workers'[g] = asg[g]
          BY <1>5, <2>7, <3>1, <3>2, <4>2, Zenon
        <5>2. InSeq(g, rest) <=> InSeq(g, queue)
          BY <2>2, <4>2, <5>1, Zenon
        <5> QED
          BY <5>1, <5>2, Zenon DEF InOnePlace
      <4> QED
        BY <4>1, <4>2, Zenon
    <3>3. ASSUME NEW g \in Calls, fate'[g] # "open"
          PROVE  /\ ~InSeq(g, rest)
                 /\ func_call_infos'[g] = "none"
                 /\ assigned_workers'[g] # NoClient <=> g \in fin
      <4>1. g # f
        BY <2>4, <3>3, Zenon
      <4>a. func_call_infos'[g] = I[g] /\ assigned_workers'[g] = asg[g]
        BY <2>7, <3>1, <4>1, Zenon
      <4>2. CASE g \in G
        <5>1. ~InSeq(g, rest) /\ I[g] = "none"
          BY <1>5, <2>2, <4>2, Zenon
        <5>2. asg[g] = NoClient /\ g \notin fin
          BY <1>4, <4>2, Zenon
        <5> QED
          BY <4>a, <5>1, <5>2, Zenon
      <4>3. CASE g \notin G
        <5>1. I[g] = func_call_infos[g] /\ fate[g] # "open"
          BY <1>5, <3>3, <4>3, Zenon
        <5>2. /\ ~InSeq(g, queue) /\ func_call_infos[g] = "none"
              /\ asg[g] # NoClient <=> g \in fin
          BY <5>1, Zenon DEF InOnePlace
        <5>3. ~InSeq(g, rest)
          BY <2>2, <5>2, Zenon
        <5> QED
          BY <4>a, <5>1, <5>2, <5>3, Zenon
      <4> QED
        BY <4>2, <4>3, Zenon
    <3> QED
      BY <2>2, <2>3, <3>2, <3>3, Zenon DEF InOnePlace
  <2>11. OneAtATime(executing', running_workers')
    BY <1>2, <2>2, <2>5, <2>7 DEF OneAtATime
  <2>12. FinishingOn(fin, fate', assigned_workers', W)
    <3> SUFFICES ASSUME NEW g \in fin
                 PROVE  fate'[g] = "finished" /\ assigned_workers'[g] \in W
      BY Zenon DEF FinishingOn
    <3>1. g \in Calls /\ fate[g] = "finished" /\ asg[g] \in W
      BY Zenon DEF FinishingOn
    <3>2. g \notin G /\ g # f
      BY <1>4, <2>4, <3>1, Zenon
    <3>3. fate'[g] = fate[g] /\ assigned_workers'[g] = asg[g]
      BY <1>5, <2>7, <3>1, <3>2, Zenon
    <3> QED
      BY <3>1, <3>3, Zenon
  <2>13. ExecutingOpen(executing', fate', W)
    <3>1. ASSUME NEW d \in Clients, NEW g \in executing[d]
          PROVE  g \in Calls /\ fate'[g] = "open"
      <4>1. g \in Calls /\ run[d] = g /\ fate[g] = "open"
        BY <1>2, <3>1, Zenon DEF OneAtATime, ExecutingOpen
      <4>2. asg[g] = d
        BY <4>1, Zenon DEF Agree
      <4>3. g \notin G
        BY <1>2, <1>4, <4>2, Zenon
      <4> QED
        BY <1>5, <4>1, <4>3, Zenon
    <3>2. ASSUME NEW d \in Clients, NEW g \in executing'[d]
          PROVE  fate'[g] = "open" /\ d \in W
      <4>1. CASE d = c /\ g = f
        BY <2>4, <4>1, Zenon
      <4>2. CASE ~(d = c /\ g = f)
        <5>1. g \in executing[d]
          BY <1>2, <2>5, <3>2, <4>2, Zenon
        <5> QED
          BY <3>1, <5>1, Zenon DEF ExecutingOpen
      <4> QED
        BY <4>1, <4>2, Zenon
    <3> QED
      BY <3>2, Zenon DEF ExecutingOpen
  <2> QED
    BY <1>2, <1>3, <2>3, <2>6, <2>7, <2>8, <2>9, <2>10, <2>11, <2>12, <2>13, Zenon
<1>7. CASE n = Len(queue)
  <2>1. /\ running_workers' = run
        /\ assigned_workers' = asg
        /\ func_call_infos' = I
        /\ executing' = executing
        /\ queue' = <<>>
        /\ idle_workers' = Append(idle_workers, c)
    <3>1. ~(n < Len(queue))
      BY <1>2, <1>7
    <3> QED
      BY <1>1, <3>1, Zenon DEF I
  <2>2. \A y : InSeq(y, queue) => y \in G
    BY <1>2, <1>7, Zenon DEF InSeq, G, gone
  <2>3. queue' \in Seq(Calls) /\ Distinct(queue') /\ \A y : ~InSeq(y, queue')
    <3>1. queue' \in Seq(Calls) /\ 1..Len(queue') = {}
      BY <2>1
    <3>2. Distinct(queue')
      BY <3>1, Zenon DEF Distinct
    <3>3. \A y : ~InSeq(y, queue')
      BY <3>1, Zenon DEF InSeq
    <3> QED
      BY <3>1, <3>2, <3>3, Zenon
  <2>4. /\ idle_workers' \in Seq(Clients)
        /\ \A y : InSeq(y, idle_workers') <=> InSeq(y, idle_workers) \/ y = c
        /\ Distinct(idle_workers')
    BY <1>2, <2>1, AppendFacts, Zenon DEF HeldOnce
  <2>5. HeldOnce(W, running_workers', idle_workers')
    <3>1. ASSUME NEW d \in W
          PROVE  (run[d] # NoCall) # InSeq(d, idle_workers')
      <4>1. CASE d = c
        <5>1. InSeq(d, idle_workers') = TRUE
          BY <2>4, <4>1, Zenon DEF InSeq
        <5> QED
          BY <4>1, <5>1, Zenon
      <4>2. CASE d # c
        <5>1. InSeq(d, idle_workers') = InSeq(d, idle_workers)
          BY <2>4, <4>2, Zenon DEF InSeq
        <5> QED
          BY <4>2, <5>1, Zenon DEF HeldOnce
      <4> QED
        BY <4>1, <4>2, Zenon
    <3> QED
      BY <2>1, <2>4, <3>1, Zenon DEF HeldOnce
  <2>6. InOnePlace(fate', func_call_infos', assigned_workers', queue', fin)
    <3>1. ASSUME NEW g \in Calls, fate'[g] = "open"
          PROVE  func_call_infos'[g] = "kDispatched" /\ assigned_workers'[g] # NoClient
      BY <1>5, <2>1, <2>2, <3>1, Zenon DEF InOnePlace
    <3>2. ASSUME NEW g \in Calls, fate'[g] # "open"
          PROVE  /\ func_call_infos'[g] = "none"
                 /\ assigned_workers'[g] # NoClient <=> g \in fin
      <4>1. CASE g \in G
        BY <1>4, <1>5, <2>1, <4>1, Zenon
      <4>2. CASE g \notin G
        BY <1>5, <2>1, <3>2, <4>2, Zenon DEF InOnePlace
      <4> QED
        BY <4>1, <4>2, Zenon
    <3> QED
      BY <2>3, <3>1, <3>2, Zenon DEF InOnePlace
  <2>7. FinishingOn(fin, fate', assigned_workers', W)
    BY <1>4, <1>5, <2>1, Zenon DEF FinishingOn
  <2>8. ExecutingOpen(executing', fate', W)
    <3>1. ASSUME NEW d \in Clients, NEW g \in executing[d]
          PROVE  fate'[g] = "open" /\ d \in W
      <4>1. g \in Calls /\ run[d] = g /\ fate[g] = "open" /\ d \in W
        BY <1>2, <3>1, Zenon DEF OneAtATime, ExecutingOpen
      <4>2. asg[g] = d
        BY <4>1, Zenon DEF Agree
      <4>3. g \notin G
        BY <1>2, <1>4, <4>2, Zenon
      <4> QED
        BY <1>5, <4>1, <4>3, Zenon
    <3> QED
      BY <2>1, <3>1, Zenon DEF ExecutingOpen
  <2>9. /\ running_workers' \in Maps /\ assigned_workers' \in Assignments
        /\ func_call_infos' \in Infos /\ executing' \in [Clients -> SUBSET Calls]
        /\ Agree(running_workers', assigned_workers')
        /\ OneAtATime(executing', running_workers')
        /\ \A d \in Clients \ {c} : running_workers'[d] = run[d]
    BY <1>2, <1>3, <2>1, Zenon
  <2>10. \A d \in Clients \ {c} : InSeq(d, idle_workers') <=> InSeq(d, idle_workers)
    BY <2>4, Zenon
  <2> QED
    BY <1>3, <2>3, <2>4, <2>5, <2>6, <2>7, <2>8, <2>9, <2>10, Zenon
<1> QED
  BY <1>1, <1>6, <1>7, <1>2, Zenon

-----------------------------------------------------------------------------
(***************************************************************************)
(* Every handler keeps the invariant.                                      *)
(***************************************************************************)

\* Nothing has happened yet: all maps are empty.
LEMMA InitIndInv == Init => IndInv
<1> SUFFICES ASSUME Init PROVE IndInv
  BY Zenon
<1> USE CallsAssumption, BoundAssumption
<1>1. TypeOK
  <2>1. /\ running_workers \in [Clients -> Calls \cup {NoCall}]
        /\ assigned_workers \in [Calls -> Clients \cup {NoClient}]
        /\ func_call_infos \in [Calls -> {"none", "kReceived", "kDispatched"}]
        /\ executing \in [Clients -> SUBSET Calls]
        /\ fate \in [Calls -> {"new", "open", "finished", "discarded"}]
    BY Zenon DEF Init
  <2>2. launcher \in BOOLEAN /\ limiter_disabled \in BOOLEAN
    BY Zenon DEF Init
  <2>3. inflight_requests \in Nat /\ next_client_id \in 1..(MaxClientId + 1)
    BY DEF Init
  <2> QED
    BY <2>1, <2>2, <2>3 DEF Init, TypeOK
<1>2. WorkerHeldOnce
  <2>1. workers = {} /\ 1..Len(idle_workers) = {}
    BY DEF Init
  <2> QED
    BY <2>1, Zenon DEF WorkerHeldOnce
<1>6. AssignmentsAgree
  <2>1. \A f \in Calls, c \in Clients : assigned_workers[f] # c /\ running_workers[c] # f
    BY DEF Init, Clients, NoClient
  <2> QED
    BY <2>1, Zenon DEF AssignmentsAgree
<1>3. CallInOnePlace /\ OneCallAtATime
  BY DEF Init, CallInOnePlace, Queued, OneCallAtATime
<1>4. FinishingOnWorker /\ ExecutingIsOpen
  BY Zenon DEF Init, FinishingOnWorker, ExecutingIsOpen
<1>5. FreshClients
  BY DEF Init, FreshClients, Stacked
<1> QED
  BY <1>1, <1>2, <1>3, <1>4, <1>5, <1>6, Zenon DEF IndInv

\* A connecting worker, new to every map, is held once afterwards.
LEMMA ConnectedIndInv ==
    ASSUME IndInv, NEW c \in Clients, OnFuncWorkerConnected(c)
    PROVE  IndInv'
<1> USE DEF IndInv
<1>1. /\ c \in launching /\ launching' = launching \ {c}
      /\ workers' = workers \cup {c} /\ requested_workers' = requested_workers \ {c}
      /\ DispatchPendingFuncCall(c, running_workers, assigned_workers)
      /\ UNCHANGED <<limiter_disabled, last_request, inflight_requests, ema_samples,
                     launcher, next_client_id, finishing>>
  BY Zenon DEF OnFuncWorkerConnected
<1>2. c \notin workers /\ ~InSeq(c, idle_workers) /\ running_workers[c] = NoCall
  BY <1>1, Zenon DEF FreshClients, Stacked, InSeq
<1>3. /\ workers' \in SUBSET Clients /\ finishing \in SUBSET Calls
      /\ running_workers \in Maps /\ assigned_workers \in Assignments
      /\ workers' \ {c} = workers
  BY <1>1, <1>2, Zenon DEF TypeOK, Maps, Assignments
<1>4. /\ HeldOnce(workers' \ {c}, running_workers, idle_workers)
      /\ Agree(running_workers, assigned_workers)
      /\ InOnePlace(fate, func_call_infos, assigned_workers, pending_func_calls, finishing)
      /\ OneAtATime(executing, running_workers)
      /\ FinishingOn(finishing, fate, assigned_workers, workers')
      /\ ExecutingOpen(executing, fate, workers')
  <2>1. FinishingOn(finishing, fate, assigned_workers, workers')
    BY <1>1, PartsOfIndInv, Zenon DEF FinishingOn
  <2>2. ExecutingOpen(executing, fate, workers')
    BY <1>1, PartsOfIndInv, Zenon DEF ExecutingOpen
  <2> QED
    BY <1>3, <2>1, <2>2, PartsOfIndInv, Zenon
<1>5. c \in workers'
  BY <1>1, Zenon
<1> DEFINE After ==
       /\ running_workers' \in Maps
       /\ assigned_workers' \in Assignments
       /\ func_call_infos' \in Infos
       /\ executing' \in [Clients -> SUBSET Calls]
       /\ pending_func_calls' \in Seq(Calls)
       /\ idle_workers' \in Seq(Clients)
       /\ fate' \in Fates
       /\ HeldOnce(workers', running_workers', idle_workers')
       /\ Agree(running_workers', assigned_workers')
       /\ InOnePlace(fate', func_call_infos', assigned_workers',
                     pending_func_calls', finishing)
       /\ OneAtATime(executing', running_workers')
       /\ FinishingOn(finishing, fate', assigned_workers', workers')
       /\ ExecutingOpen(executing', fate', workers')
       /\ \A d \in Clients \ {c} :
             /\ running_workers'[d] = running_workers[d]
             /\ InSeq(d, idle_workers') <=> InSeq(d, idle_workers)
<1>6. After
  BY <1>1, <1>2, <1>3, <1>4, <1>5, DispatchPendingKeeps, Zenon
<1>7. TypeOK'
  BY <1>1, <1>3, <1>6, Zenon DEF TypeOK, Maps, Assignments, Infos, Fates
<1>8. FreshClients'
  <2>1. \A d \in Clients : Stacked(d) <=> InSeq(d, idle_workers)
    BY Zenon DEF Stacked, InSeq
  <2>2. \A d \in Clients : Stacked(d)' <=> InSeq(d, idle_workers')
    BY Zenon DEF Stacked, InSeq
  <2>3. ASSUME NEW d \in Clients
        PROVE  /\ d \in launching' \/ d >= next_client_id' =>
                     d \notin workers' /\ ~Stacked(d)' /\ running_workers'[d] = NoCall
               /\ d \in launching' => d < next_client_id'
    <3>1. c \in Int /\ next_client_id \in Int /\ c < next_client_id
      BY <1>1, BoundAssumption DEF TypeOK, Clients, FreshClients
    <3>2. CASE d = c
      BY <1>1, <3>1, <3>2
    <3>3. CASE d # c
      BY <1>1, <1>6, <2>1, <2>2, <3>3, Zenon DEF FreshClients
    <3> QED
      BY <3>2, <3>3, Zenon
  <2> QED
    BY <2>3, Zenon DEF FreshClients
<1> QED
  BY <1>1, <1>6, <1>7, <1>8, PartsOfIndInvPrimed, Zenon

\* The second half of a finish handler frees the worker of the call and passes
\* it on.
LEMMA FinishLockedIndInv ==
    ASSUME IndInv, NEW f \in Calls, FinishLocked(f)
    PROVE  IndInv'
<1> USE DEF IndInv
<1> DEFINE c == assigned_workers[f]
           run == [running_workers EXCEPT ![c] = NoCall]
           asg == [assigned_workers EXCEPT ![f] = NoClient]
           fin == finishing \ {f}
<1>1. f \in finishing /\ fate[f] = "finished" /\ c \in workers /\ c \in Clients /\ c # NoClient
  BY BoundAssumption DEF FinishLocked, FinishingOnWorker, TypeOK, Clients, NoClient
<1>2. /\ finishing' = fin
      /\ DispatchPendingFuncCall(c, run, asg)
      /\ UNCHANGED <<limiter_disabled, workers, requested_workers, last_request,
                     inflight_requests, ema_samples, launcher, next_client_id, launching>>
  BY <1>1, Zenon DEF FinishLocked, managerVars
<1>3. /\ running_workers[c] = f
      /\ run \in Maps /\ run[c] = NoCall
      /\ \A d \in Clients \ {c} : run[d] = running_workers[d]
      /\ asg \in Assignments /\ asg[f] = NoClient
      /\ \A g \in Calls \ {f} : asg[g] = assigned_workers[g]
  BY <1>1 DEF AssignmentsAgree, TypeOK, Maps, Assignments
<1>4. /\ workers \in SUBSET Clients /\ fin \in SUBSET Calls
      /\ NoCall \notin Calls /\ NoClient \notin Clients
  BY CallsAssumption, BoundAssumption DEF TypeOK, Clients, NoClient
<1> HIDE DEF c, run, asg, fin
<1>5. ~InSeq(c, idle_workers)
  BY <1>1, <1>3, <1>4, Zenon DEF WorkerHeldOnce, Stacked, InSeq
<1>6. HeldOnce(workers \ {c}, run, idle_workers)
  BY <1>1, <1>3, <1>4, PartsOfIndInv, Zenon DEF HeldOnce
<1>7. Agree(run, asg)
  <2> SUFFICES ASSUME NEW g \in Calls, NEW d \in Clients
               PROVE  asg[g] = d <=> run[d] = g
    BY Zenon DEF Agree
  <2>1. assigned_workers[g] = d <=> running_workers[d] = g
    BY Zenon DEF AssignmentsAgree
  <2>2. assigned_workers[f] = c
    BY Zenon DEF c
  <2>3. CASE g = f
    <3>1. asg[g] # d
      BY <1>3, <1>4, <2>3, Zenon
    <3>2. run[d] # g
      BY <1>3, <1>4, <2>1, <2>2, <2>3, Zenon
    <3> QED
      BY <3>1, <3>2, Zenon
  <2>4. CASE g # f
    <3>1. asg[g] = assigned_workers[g]
      BY <1>3, <2>4, Zenon
    <3>2. CASE d = c
      BY <1>3, <1>4, <2>1, <2>4, <3>1, <3>2, Zenon
    <3>3. CASE d # c
      BY <1>3, <2>1, <3>1, <3>3, Zenon
    <3> QED
      BY <3>2, <3>3, Zenon
  <2> QED
    BY <2>3, <2>4, Zenon
<1>8. InOnePlace(fate, func_call_infos, asg, pending_func_calls, fin)
  <2>1. InOnePlace(fate, func_call_infos, assigned_workers, pending_func_calls, finishing)
    BY PartsOfIndInv, Zenon
  <2>2. ASSUME NEW g \in Calls, fate[g] = "open"
        PROVE  asg[g] = assigned_workers[g]
    BY <1>1, <1>3, <2>2, Zenon
  <2>3. ASSUME NEW g \in Calls, fate[g] # "open"
        PROVE  asg[g] # NoClient <=> g \in fin
    <3>1. CASE g = f
      BY <1>3, <3>1, Zenon DEF fin
    <3>2. CASE g # f
      BY <1>3, <2>1, <2>3, <3>2, Zenon DEF InOnePlace, fin
    <3> QED
      BY <3>1, <3>2, Zenon
  <2> QED
    BY <2>1, <2>2, <2>3, Zenon DEF InOnePlace
<1>9. OneAtATime(executing, run)
  BY <1>1, <1>3 DEF OneCallAtATime, OneAtATime, ExecutingIsOpen
<1>10. FinishingOn(fin, fate, asg, workers)
  BY <1>3, Zenon DEF FinishingOnWorker, FinishingOn, fin, TypeOK
<1>11. ExecutingOpen(executing, fate, workers)
  BY PartsOfIndInv, Zenon
<1> DEFINE After ==
       /\ running_workers' \in Maps
       /\ assigned_workers' \in Assignments
       /\ func_call_infos' \in Infos
       /\ executing' \in [Clients -> SUBSET Calls]
       /\ pending_func_calls' \in Seq(Calls)
       /\ idle_workers' \in Seq(Clients)
       /\ fate' \in Fates
       /\ HeldOnce(workers, running_workers', idle_workers')
       /\ Agree(running_workers', assigned_workers')
       /\ InOnePlace(fate', func_call_infos', assigned_workers',
                     pending_func_calls', fin)
       /\ OneAtATime(executing', running_workers')
       /\ FinishingOn(fin, fate', assigned_workers', workers)
       /\ ExecutingOpen(executing', fate', workers)
       /\ \A d \in Clients \ {c} :
             /\ running_workers'[d] = run[d]
             /\ InSeq(d, idle_workers') <=> InSeq(d, idle_workers)
<1>12. After
  BY <1>1, <1>2, <1>3, <1>4, <1>5, <1>6, <1>7, <1>8, <1>9, <1>10, <1>11,
     DispatchPendingKeeps, Zenon
<1>13. TypeOK'
  BY <1>2, <1>4, <1>12, Zenon DEF TypeOK, Maps, Assignments, Infos, Fates
<1>14. FreshClients'
  <2>1. \A d \in Clients : (Stacked(d) <=> InSeq(d, idle_workers))
                           /\ (Stacked(d)' <=> InSeq(d, idle_workers'))
    BY Zenon DEF Stacked, InSeq
  <2>2. ASSUME NEW d \in Clients
        PROVE  /\ d \in launching' \/ d >= next_client_id' =>
                     d \notin workers' /\ ~Stacked(d)' /\ running_workers'[d] = NoCall
               /\ d \in launching' => d < next_client_id'
    <3>1. CASE d = c
      BY <1>1, <1>2, <3>1, Zenon DEF FreshClients
    <3>2. CASE d # c
      BY <1>2, <1>3, <1>12, <2>1, <3>2, Zenon DEF FreshClients
    <3> QED
      BY <3>1, <3>2, Zenon
  <2> QED
    BY <2>2, Zenon DEF FreshClients
<1> QED
  BY <1>2, <1>12, <1>13, <1>14, PartsOfIndInvPrimed, Zenon

\* A call that was never submitted is not in any map.
LEMMA NewCallIsAbsent ==
    ASSUME IndInv, NEW f \in Calls, fate[f] = "new"
    PROVE  /\ f \notin finishing
           /\ ~InSeq(f, pending_func_calls)
           /\ func_call_infos[f] = "none"
           /\ assigned_workers[f] = NoClient
           /\ \A c \in Clients : f \notin executing[c] /\ running_workers[c] # f
<1> USE DEF IndInv
<1>1. f \notin finishing
  BY Zenon DEF FinishingOnWorker
<1>2. ~InSeq(f, pending_func_calls) /\ func_call_infos[f] = "none"
      /\ assigned_workers[f] = NoClient
  BY <1>1, PartsOfIndInv, Zenon DEF InOnePlace
<1>3. \A c \in Clients : f \notin executing[c]
  BY Zenon DEF ExecutingIsOpen
<1>4. \A c \in Clients : running_workers[c] # f
  BY <1>2, BoundAssumption DEF AssignmentsAgree, Clients, NoClient
<1> QED
  BY <1>1, <1>2, <1>3, <1>4, Zenon

\* A new call that goes to the queue, where the stack kept all its connected
\* workers.
LEMMA QueuedCallIndInv ==
    ASSUME IndInv, NEW f \in Calls, fate[f] = "new",
           fate' = [fate EXCEPT ![f] = "open"],
           func_call_infos' = [func_call_infos EXCEPT ![f] = "kReceived"],
           pending_func_calls' = Append(pending_func_calls, f),
           HeldOnce(workers, running_workers, idle_workers'),
           UNCHANGED <<workers, running_workers, assigned_workers, executing, finishing>>
    PROVE  /\ WorkerHeldOnce' /\ AssignmentsAgree' /\ CallInOnePlace'
           /\ OneCallAtATime' /\ FinishingOnWorker' /\ ExecutingIsOpen'
           /\ pending_func_calls' \in Seq(Calls)
           /\ fate' \in Fates
           /\ func_call_infos' \in Infos
<1> USE DEF IndInv
<1>1. /\ f \notin finishing /\ ~InSeq(f, pending_func_calls)
      /\ assigned_workers[f] = NoClient /\ \A c \in Clients : f \notin executing[c]
  BY NewCallIsAbsent, Zenon
<1>2. /\ fate' \in Fates /\ fate'[f] = "open"
      /\ \A g \in Calls \ {f} : fate'[g] = fate[g]
      /\ func_call_infos' \in Infos /\ func_call_infos'[f] = "kReceived"
      /\ \A g \in Calls \ {f} : func_call_infos'[g] = func_call_infos[g]
  BY Zenon DEF TypeOK, Fates, Infos
<1>3. /\ pending_func_calls \in Seq(Calls)
      /\ Distinct(pending_func_calls)
      /\ finishing \subseteq Calls /\ executing \in [Clients -> SUBSET Calls]
  BY PartsOfIndInv, Zenon DEF TypeOK, InOnePlace
<1>4. /\ pending_func_calls' \in Seq(Calls)
      /\ Distinct(pending_func_calls')
      /\ \A y : InSeq(y, pending_func_calls') <=> InSeq(y, pending_func_calls) \/ y = f
  BY <1>1, <1>3, AppendFacts, Zenon
<1>5. InOnePlace(fate', func_call_infos', assigned_workers, pending_func_calls', finishing)
  <2>1. InOnePlace(fate, func_call_infos, assigned_workers, pending_func_calls, finishing)
    BY PartsOfIndInv, Zenon
  <2>2. ASSUME NEW g \in Calls, fate'[g] = "open"
        PROVE  IF InSeq(g, pending_func_calls')
               THEN func_call_infos'[g] = "kReceived" /\ assigned_workers[g] = NoClient
               ELSE func_call_infos'[g] = "kDispatched" /\ assigned_workers[g] # NoClient
    <3>1. CASE g = f
      BY <1>1, <1>2, <1>4, <3>1, Zenon
    <3>2. CASE g # f
      BY <1>2, <1>4, <2>1, <2>2, <3>2, Zenon DEF InOnePlace
    <3> QED
      BY <3>1, <3>2, Zenon
  <2>3. ASSUME NEW g \in Calls, fate'[g] # "open"
        PROVE  /\ ~InSeq(g, pending_func_calls')
               /\ func_call_infos'[g] = "none"
               /\ assigned_workers[g] # NoClient <=> g \in finishing
    BY <1>2, <1>4, <2>1, <2>3 DEF InOnePlace
  <2> QED
    BY <1>4, <2>2, <2>3, Zenon DEF InOnePlace
<1>6. FinishingOn(finishing, fate', assigned_workers, workers)
  BY <1>1, <1>2, <1>3, Zenon DEF FinishingOnWorker, FinishingOn
<1>7. ExecutingOpen(executing, fate', workers)
  <2> SUFFICES ASSUME NEW d \in Clients, NEW g \in executing[d]
               PROVE  fate'[g] = "open" /\ d \in workers
    BY Zenon DEF ExecutingOpen
  <2>1. fate[g] = "open" /\ d \in workers
    BY Zenon DEF ExecutingIsOpen
  <2>2. g \in Calls \ {f}
    BY <1>1, <1>3, Zenon
  <2> QED
    BY <1>2, <2>1, <2>2, Zenon
<1>8. Agree(running_workers, assigned_workers) /\ OneAtATime(executing, running_workers)
  BY PartsOfIndInv, Zenon
<1> QED
  BY <1>2, <1>4, <1>5, <1>6, <1>7, <1>8, PartsOfIndInvPrimed, Zenon

\* PickIdleWorker gives up when no stacked worker is usable: the stack held no
\* connected worker, so emptying it loses none.
LEMMA EmptiedStack ==
    ASSUME IndInv, NoneUsable
    PROVE  HeldOnce(workers, running_workers, <<>>)
<1> USE DEF IndInv
<1>1. \A c : ~InSeq(c, <<>>)
  BY DEF InSeq
<1>2. Distinct(<<>>)
  BY DEF Distinct
<1>3. ASSUME NEW c \in workers
      PROVE  running_workers[c] # NoCall
  <2>1. SUFFICES ASSUME running_workers[c] = NoCall PROVE FALSE
    BY Zenon
  <2>2. (running_workers[c] # NoCall) # InSeq(c, idle_workers)
    BY PartsOfIndInv, Zenon DEF HeldOnce
  <2>3. InSeq(c, idle_workers)
    BY <2>1, <2>2, Zenon DEF InSeq
  <2> QED
    BY <2>1, <2>3, Zenon DEF InSeq, NoneUsable, Usable
<1>4. ASSUME NEW c \in workers
      PROVE  (running_workers[c] # NoCall) # InSeq(c, <<>>)
  BY <1>1, <1>3, Zenon
<1> QED
  BY <1>2, <1>4, Zenon DEF HeldOnce

\* PickIdleWorker takes the topmost usable worker: the entries above it were
\* not connected, so dropping them loses no worker.
LEMMA PoppedStack ==
    ASSUME IndInv, NEW k \in 1..Len(idle_workers), TopUsable(k),
           NEW f \in Calls
    PROVE  LET c == idle_workers[k]
               rest == SubSeq(idle_workers, 1, k - 1)
           IN  /\ c \in workers /\ running_workers[c] = NoCall
               /\ rest \in Seq(Clients)
               /\ \A y : InSeq(y, rest) => InSeq(y, idle_workers)
               /\ HeldOnce(workers, [running_workers EXCEPT ![c] = f], rest)
<1> USE DEF IndInv
<1> DEFINE c == idle_workers[k]
           rest == SubSeq(idle_workers, 1, k - 1)
           run == [running_workers EXCEPT ![c] = f]
<1>1. c \in workers /\ running_workers[c] = NoCall
  BY Zenon DEF TopUsable, Usable
<1>2. /\ idle_workers \in Seq(Clients) /\ Len(idle_workers) \in Nat
      /\ workers \subseteq Clients /\ NoCall \notin Calls
      /\ Distinct(idle_workers)
  BY CallsAssumption, PartsOfIndInv DEF TypeOK, HeldOnce
<1>3. /\ rest \in Seq(Clients) /\ Len(rest) = k - 1
      /\ \A i \in 1..(k - 1) : rest[i] = idle_workers[i]
  BY <1>2, PrefixFacts, Zenon
<1>4. run[c] = f /\ \A d \in Clients \ {c} : run[d] = running_workers[d]
  BY <1>1, <1>2, Zenon DEF TypeOK
<1> HIDE DEF rest, run
<1>5. \A y : InSeq(y, rest) => InSeq(y, idle_workers)
  BY <1>2, <1>3 DEF InSeq
<1>6. ~InSeq(c, rest)
  BY <1>2, <1>3 DEF InSeq, Distinct
<1>7. Distinct(rest)
  <2> SUFFICES ASSUME NEW i \in 1..Len(rest), NEW j \in 1..Len(rest), i # j
               PROVE  rest[i] # rest[j]
    BY Zenon DEF Distinct
  <2>1. i \in 1..(k - 1) /\ j \in 1..(k - 1)
    BY <1>3, Zenon
  <2>2. i \in 1..Len(idle_workers) /\ j \in 1..Len(idle_workers)
    BY <1>2, <2>1
  <2>3. rest[i] = idle_workers[i] /\ rest[j] = idle_workers[j]
    BY <1>3, <2>1, Zenon
  <2> QED
    BY <1>2, <2>2, <2>3, Zenon DEF Distinct
<1>8. ASSUME NEW d \in workers, d # c, InSeq(d, idle_workers)
      PROVE  InSeq(d, rest)
  <2>1. PICK i \in 1..Len(idle_workers) : idle_workers[i] = d
    BY <1>8, Zenon DEF InSeq
  <2>2. running_workers[d] = NoCall
    BY <1>8, PartsOfIndInv, Zenon DEF HeldOnce
  <2>3. Usable(idle_workers[i]) /\ i # k
    BY <1>8, <2>1, <2>2, Zenon DEF Usable
  <2>4. i \notin (k + 1)..Len(idle_workers)
    BY <2>3, Zenon DEF TopUsable
  <2>5. i \in 1..(k - 1)
    BY <1>2, <2>3, <2>4
  <2> QED
    BY <1>3, <2>1, <2>5, Zenon DEF InSeq
<1>9. ASSUME NEW d \in workers
      PROVE  (run[d] # NoCall) # InSeq(d, rest)
  <2>1. CASE d = c
    <3>1. run[d] # NoCall
      BY <1>2, <1>4, <2>1, Zenon
    <3>2. ~InSeq(d, rest)
      BY <1>6, <2>1, Zenon
    <3> QED
      BY <3>1, <3>2, Zenon
  <2>2. CASE d # c
    <3>1. InSeq(d, rest) <=> InSeq(d, idle_workers)
      BY <1>5, <1>8, <2>2, Zenon
    <3>2. run[d] = running_workers[d]
      BY <1>2, <1>4, <2>2, Zenon
    <3>3. (running_workers[d] # NoCall) # InSeq(d, idle_workers)
      BY PartsOfIndInv, Zenon DEF HeldOnce
    <3> QED
      BY <3>1, <3>2, <3>3, Zenon DEF InSeq
  <2> QED
    BY <2>1, <2>2, Zenon
<1> QED
  BY <1>1, <1>3, <1>5, <1>7, <1>9, Zenon DEF HeldOnce, rest, run

\* A new call that goes straight to a connected free worker.
LEMMA DispatchedCallIndInv ==
    ASSUME IndInv, NEW f \in Calls, fate[f] = "new",
           fate' = [fate EXCEPT ![f] = "open"],
           NEW k \in 1..Len(idle_workers), TopUsable(k),
           idle_workers' = SubSeq(idle_workers, 1, k - 1),
           DispatchFuncCall(idle_workers[k], f, running_workers, assigned_workers,
                            [func_call_infos EXCEPT ![f] = "kReceived"]),
           UNCHANGED <<workers, pending_func_calls, finishing>>
    PROVE  /\ WorkerHeldOnce' /\ AssignmentsAgree' /\ CallInOnePlace'
           /\ OneCallAtATime' /\ FinishingOnWorker' /\ ExecutingIsOpen'
           /\ idle_workers' \in Seq(Clients)
           /\ fate' \in Fates
           /\ func_call_infos' \in Infos
           /\ running_workers' \in Maps
           /\ assigned_workers' \in Assignments
           /\ executing' \in [Clients -> SUBSET Calls]
           /\ \A d \in Clients \ workers :
                 /\ running_workers'[d] = running_workers[d]
                 /\ Stacked(d)' => Stacked(d)
<1> USE DEF IndInv
<1> DEFINE c == idle_workers[k]
<1>1. /\ f \notin finishing /\ ~InSeq(f, pending_func_calls)
      /\ assigned_workers[f] = NoClient
      /\ \A d \in Clients : f \notin executing[d] /\ running_workers[d] # f
  BY NewCallIsAbsent, Zenon
<1>2. /\ c \in workers /\ running_workers[c] = NoCall
      /\ idle_workers' \in Seq(Clients)
      /\ \A y : InSeq(y, idle_workers') => InSeq(y, idle_workers)
      /\ HeldOnce(workers, [running_workers EXCEPT ![c] = f], idle_workers')
  BY PoppedStack, Zenon
<1> HIDE DEF c
<1>3. /\ workers \subseteq Clients /\ c \in Clients /\ NoCall \notin Calls
      /\ NoClient \notin Clients
      /\ finishing \subseteq Calls /\ executing \in [Clients -> SUBSET Calls]
  <2>1. NoClient \notin Clients
    BY BoundAssumption DEF Clients, NoClient
  <2> QED
    BY <1>2, <2>1, CallsAssumption, Zenon DEF TypeOK
<1>4. /\ running_workers' = [running_workers EXCEPT ![c] = f]
      /\ assigned_workers' = [assigned_workers EXCEPT ![f] = c]
      /\ func_call_infos' = [func_call_infos EXCEPT ![f] = "kDispatched"]
      /\ executing' = [executing EXCEPT ![c] = @ \cup {f}]
  BY Zenon DEF DispatchFuncCall, Dispatched, TypeOK, c
<1>5. /\ running_workers' \in Maps /\ assigned_workers' \in Assignments
      /\ func_call_infos' \in Infos /\ executing' \in [Clients -> SUBSET Calls]
      /\ fate' \in Fates
  BY <1>3, <1>4, Zenon DEF TypeOK, Maps, Assignments, Infos, Fates
<1>6. /\ running_workers'[c] = f
      /\ \A d \in Clients \ {c} : running_workers'[d] = running_workers[d]
      /\ assigned_workers'[f] = c
      /\ \A g \in Calls \ {f} : assigned_workers'[g] = assigned_workers[g]
      /\ func_call_infos'[f] = "kDispatched"
      /\ \A g \in Calls \ {f} : func_call_infos'[g] = func_call_infos[g]
      /\ fate'[f] = "open"
      /\ \A g \in Calls \ {f} : fate'[g] = fate[g]
      /\ executing'[c] = executing[c] \cup {f}
      /\ \A d \in Clients \ {c} : executing'[d] = executing[d]
  BY <1>3, <1>4, Zenon DEF TypeOK
<1>7. Agree(running_workers', assigned_workers')
  <2> SUFFICES ASSUME NEW g \in Calls, NEW d \in Clients
               PROVE  assigned_workers'[g] = d <=> running_workers'[d] = g
    BY Zenon DEF Agree
  <2>1. assigned_workers[g] = d <=> running_workers[d] = g
    BY Zenon DEF AssignmentsAgree
  <2>2. CASE g = f
    <3>1. CASE d = c
      BY <1>6, <2>2, <3>1, Zenon
    <3>2. CASE d # c
      <4>1. assigned_workers'[g] # d
        BY <1>6, <2>2, <3>2, Zenon
      <4>2. running_workers'[d] # g
        BY <1>1, <1>6, <2>2, <3>2, Zenon
      <4> QED
        BY <4>1, <4>2, Zenon
    <3> QED
      BY <3>1, <3>2, Zenon
  <2>3. CASE g # f
    <3>1. assigned_workers'[g] = assigned_workers[g]
      BY <1>6, <2>3, Zenon
    <3>2. CASE d = c
      <4>1. running_workers'[d] # g
        BY <1>6, <2>3, <3>2, Zenon
      <4>2. running_workers[d] # g
        BY <1>2, <1>3, <3>2, Zenon
      <4> QED
        BY <2>1, <3>1, <4>1, <4>2, Zenon
    <3>3. CASE d # c
      BY <1>6, <2>1, <3>1, <3>3, Zenon
    <3> QED
      BY <3>2, <3>3, Zenon
  <2> QED
    BY <2>2, <2>3, Zenon
<1>8. InOnePlace(fate', func_call_infos', assigned_workers', pending_func_calls, finishing)
  <2>1. InOnePlace(fate, func_call_infos, assigned_workers, pending_func_calls, finishing)
    BY PartsOfIndInv, Zenon
  <2>2. ASSUME NEW g \in Calls, fate'[g] = "open"
        PROVE  IF InSeq(g, pending_func_calls)
               THEN func_call_infos'[g] = "kReceived" /\ assigned_workers'[g] = NoClient
               ELSE func_call_infos'[g] = "kDispatched" /\ assigned_workers'[g] # NoClient
    <3>1. CASE g = f
      <4>1. ~InSeq(g, pending_func_calls)
        BY <1>1, <3>1, Zenon
      <4>2. func_call_infos'[g] = "kDispatched" /\ assigned_workers'[g] = c
        BY <1>6, <3>1, Zenon
      <4> QED
        BY <1>3, <4>1, <4>2, Zenon
    <3>2. CASE g # f
      <4>1. /\ fate[g] = "open" /\ func_call_infos'[g] = func_call_infos[g]
            /\ assigned_workers'[g] = assigned_workers[g]
        BY <1>6, <2>2, <3>2, Zenon
      <4>2. IF InSeq(g, pending_func_calls)
            THEN func_call_infos[g] = "kReceived" /\ assigned_workers[g] = NoClient
            ELSE func_call_infos[g] = "kDispatched" /\ assigned_workers[g] # NoClient
        BY <2>1, <4>1, Zenon DEF InOnePlace
      <4> QED
        BY <4>1, <4>2, Zenon
    <3> QED
      BY <3>1, <3>2, Zenon
  <2>3. ASSUME NEW g \in Calls, fate'[g] # "open"
        PROVE  /\ ~InSeq(g, pending_func_calls)
               /\ func_call_infos'[g] = "none"
               /\ assigned_workers'[g] # NoClient <=> g \in finishing
    <3>1. g # f
      BY <1>6, <2>3, Zenon
    <3>2. /\ fate[g] # "open" /\ func_call_infos'[g] = func_call_infos[g]
          /\ assigned_workers'[g] = assigned_workers[g]
      BY <1>6, <2>3, <3>1, Zenon
    <3>3. /\ ~InSeq(g, pending_func_calls) /\ func_call_infos[g] = "none"
          /\ assigned_workers[g] # NoClient <=> g \in finishing
      BY <2>1, <3>2, Zenon DEF InOnePlace
    <3> QED
      BY <3>2, <3>3, Zenon
  <2> QED
    BY <2>1, <2>2, <2>3, Zenon DEF InOnePlace
<1>9. OneAtATime(executing', running_workers')
  <2> SUFFICES ASSUME NEW d \in Clients
               PROVE  executing'[d] \subseteq {running_workers'[d]}
    BY Zenon DEF OneAtATime
  <2>1. executing[d] \subseteq {running_workers[d]} /\ executing[d] \subseteq Calls
    BY <1>3, Zenon DEF OneCallAtATime
  <2>2. CASE d = c
    <3>1. executing[d] = {}
      BY <1>2, <1>3, <2>1, <2>2, Zenon
    <3> QED
      BY <1>6, <2>2, <3>1, Zenon
  <2>3. CASE d # c
    BY <1>6, <2>1, <2>3, Zenon
  <2> QED
    BY <2>2, <2>3, Zenon
<1>10. FinishingOn(finishing, fate', assigned_workers', workers)
  <2> SUFFICES ASSUME NEW g \in finishing
               PROVE  fate'[g] = "finished" /\ assigned_workers'[g] \in workers
    BY Zenon DEF FinishingOn
  <2>1. fate[g] = "finished" /\ assigned_workers[g] \in workers
    BY Zenon DEF FinishingOnWorker
  <2>2. g \in Calls \ {f}
    BY <1>1, <1>3, Zenon
  <2>3. fate'[g] = fate[g] /\ assigned_workers'[g] = assigned_workers[g]
    BY <1>6, <2>2, Zenon
  <2> QED
    BY <2>1, <2>3, Zenon
<1>11. ExecutingOpen(executing', fate', workers)
  <2> SUFFICES ASSUME NEW d \in Clients, NEW g \in executing'[d]
               PROVE  fate'[g] = "open" /\ d \in workers
    BY Zenon DEF ExecutingOpen
  <2>1. CASE d = c /\ g = f
    BY <1>2, <1>6, <2>1, Zenon
  <2>2. CASE ~(d = c /\ g = f)
    <3>1. g \in executing[d]
      BY <1>6, <2>2, Zenon
    <3>2. fate[g] = "open" /\ d \in workers
      BY <3>1, Zenon DEF ExecutingIsOpen
    <3>3. g \in Calls \ {f}
      BY <1>1, <1>3, <3>1, Zenon
    <3>4. fate'[g] = fate[g]
      BY <1>6, <3>3, Zenon
    <3> QED
      BY <3>2, <3>4, Zenon
  <2> QED
    BY <2>1, <2>2, Zenon
<1>12. \A d \in Clients : (Stacked(d) <=> InSeq(d, idle_workers))
                          /\ (Stacked(d)' <=> InSeq(d, idle_workers'))
  BY Zenon DEF Stacked, InSeq
<1> QED
  BY <1>2, <1>4, <1>5, <1>6, <1>7, <1>8, <1>9, <1>10, <1>11, <1>12,
     PartsOfIndInvPrimed, Zenon

\* A new call is dispatched or queued, and at most one more worker is asked for.
LEMMA NewFuncCallIndInv ==
    ASSUME IndInv, NEW f \in Calls, OnNewFuncCall(f)
    PROVE  IndInv'
<1> USE DEF IndInv
<1>1. /\ fate[f] = "new" /\ fate' = [fate EXCEPT ![f] = "open"]
      /\ inflight_requests' = inflight_requests + 1
      /\ UNCHANGED <<limiter_disabled, workers, ema_samples, launcher, finishing>>
  BY Zenon DEF OnNewFuncCall
<1> DEFINE received == [func_call_infos EXCEPT ![f] = "kReceived"]
           Full == /\ pending_func_calls' = Append(pending_func_calls, f)
                   /\ func_call_infos' = received
                   /\ UNCHANGED <<running_workers, assigned_workers, executing,
                                  idle_workers, requested_workers, last_request,
                                  launching, next_client_id>>
           Idle == /\ \E k \in 1..Len(idle_workers) :
                        /\ TopUsable(k)
                        /\ idle_workers' = SubSeq(idle_workers, 1, k - 1)
                        /\ DispatchFuncCall(idle_workers[k], f, running_workers,
                                            assigned_workers, received)
                   /\ UNCHANGED <<pending_func_calls, requested_workers, last_request,
                                  launching, next_client_id>>
           None == /\ NoneUsable
                   /\ idle_workers' = <<>>
                   /\ \E expected \in 0..MaxEstimate : MayRequestNewFuncWorker(expected)
                   /\ pending_func_calls' = Append(pending_func_calls, f)
                   /\ func_call_infos' = received
                   /\ UNCHANGED <<running_workers, assigned_workers, executing>>
<1>2. Full \/ Idle \/ None
  BY Zenon DEF OnNewFuncCall
<1>3. inflight_requests' \in Nat
  BY <1>1 DEF TypeOK
<1>4. CASE Full
  <2>1. HeldOnce(workers, running_workers, idle_workers')
    BY <1>4, PartsOfIndInv, Zenon
  <2>2. /\ WorkerHeldOnce' /\ AssignmentsAgree' /\ CallInOnePlace'
        /\ OneCallAtATime' /\ FinishingOnWorker' /\ ExecutingIsOpen'
        /\ pending_func_calls' \in Seq(Calls) /\ fate' \in Fates
        /\ func_call_infos' \in Infos
    BY <1>1, <1>4, <2>1, QueuedCallIndInv, Zenon
  <2>3. TypeOK'
    BY <1>1, <1>3, <1>4, <2>2, Zenon DEF TypeOK, Fates, Infos
  <2>4. FreshClients'
    BY <1>1, <1>4, Zenon DEF FreshClients, Stacked
  <2> QED
    BY <2>2, <2>3, <2>4, Zenon
<1>5. CASE Idle
  <2>1. PICK k \in 1..Len(idle_workers) :
           /\ TopUsable(k)
           /\ idle_workers' = SubSeq(idle_workers, 1, k - 1)
           /\ DispatchFuncCall(idle_workers[k], f, running_workers,
                               assigned_workers, received)
    BY <1>5, Zenon
  <2>2. /\ WorkerHeldOnce' /\ AssignmentsAgree' /\ CallInOnePlace'
        /\ OneCallAtATime' /\ FinishingOnWorker' /\ ExecutingIsOpen'
        /\ idle_workers' \in Seq(Clients) /\ fate' \in Fates
        /\ func_call_infos' \in Infos /\ running_workers' \in Maps
        /\ assigned_workers' \in Assignments
        /\ executing' \in [Clients -> SUBSET Calls]
        /\ \A d \in Clients \ workers :
              /\ running_workers'[d] = running_workers[d]
              /\ Stacked(d)' => Stacked(d)
    BY <1>1, <1>5, <2>1, DispatchedCallIndInv, Zenon
  <2>3. TypeOK'
    BY <1>1, <1>3, <1>5, <2>2, Zenon DEF TypeOK, Fates, Infos, Maps, Assignments
  <2>4. FreshClients'
    BY <1>1, <1>5, <2>2, Zenon DEF FreshClients
  <2> QED
    BY <2>2, <2>3, <2>4, Zenon
<1>6. CASE None
  <2>1. HeldOnce(workers, running_workers, idle_workers')
    BY <1>6, EmptiedStack, Zenon
  <2>2. /\ WorkerHeldOnce' /\ AssignmentsAgree' /\ CallInOnePlace'
        /\ OneCallAtATime' /\ FinishingOnWorker' /\ ExecutingIsOpen'
        /\ pending_func_calls' \in Seq(Calls) /\ fate' \in Fates
        /\ func_call_infos' \in Infos
    BY <1>1, <1>6, <2>1, QueuedCallIndInv, Zenon
  <2>3. PICK expected \in 0..MaxEstimate : MayRequestNewFuncWorker(expected)
    BY <1>6, Zenon
  <2>4. \A d \in Clients : ~Stacked(d)'
    BY <1>6 DEF Stacked
  <2>5. CASE WantsNewFuncWorker(expected) /\ launcher
    <3>1. /\ requested_workers' = requested_workers \cup {next_client_id}
          /\ last_request' = "within"
          /\ launching' = launching \cup {next_client_id}
          /\ next_client_id' = next_client_id + 1
          /\ next_client_id \in Int /\ next_client_id <= MaxClientId
          /\ next_client_id \in Clients
      BY <2>3, <2>5, BoundAssumption DEF MayRequestNewFuncWorker, ClientIdsLeft, TypeOK, Clients
    <3>2. next_client_id' \in 1..(MaxClientId + 1)
      BY <3>1, BoundAssumption DEF Clients
    <3>3. TypeOK'
      <4>1. /\ requested_workers' \subseteq Clients /\ launching' \subseteq Clients
            /\ last_request' \in {"never", "within", "elapsed"}
            /\ idle_workers' \in Seq(Clients)
        BY <1>6, <3>1 DEF TypeOK
      <4>2. UNCHANGED <<limiter_disabled, workers, ema_samples, launcher, finishing,
                        running_workers, assigned_workers, executing>>
        BY <1>1, <1>6, Zenon
      <4> QED
        BY <1>3, <2>2, <3>2, <4>1, <4>2, Zenon DEF TypeOK, Fates, Infos
    <3>4. FreshClients'
      <4>1. \A d \in Clients : d \in Int
        BY BoundAssumption DEF Clients
      <4> QED
        BY <1>1, <1>6, <2>4, <3>1, <4>1 DEF FreshClients
    <3> QED
      BY <2>2, <3>3, <3>4, Zenon
  <2>6. CASE ~(WantsNewFuncWorker(expected) /\ launcher)
    <3>1. UNCHANGED <<requested_workers, last_request, launching, next_client_id>>
      BY <2>3, <2>6, Zenon DEF MayRequestNewFuncWorker
    <3>2. TypeOK'
      <4>1. idle_workers' \in Seq(Clients)
        BY <1>6
      <4>2. UNCHANGED <<limiter_disabled, workers, ema_samples, launcher, finishing,
                        running_workers, assigned_workers, executing>>
        BY <1>1, <1>6, Zenon
      <4> QED
        BY <1>3, <2>2, <3>1, <4>1, <4>2, Zenon DEF TypeOK, Fates, Infos
    <3>3. FreshClients'
      BY <1>1, <1>6, <2>4, <3>1, Zenon DEF FreshClients
    <3> QED
      BY <2>2, <3>2, <3>3, Zenon
  <2> QED
    BY <2>5, <2>6, Zenon
<1> QED
  BY <1>2, <1>4, <1>5, <1>6, Zenon

\* A worker's answer is taken off the worker and closed by the tracer; the maps
\* of the dispatcher keep it until the second half of the handler.
LEMMA TracerFinishedIndInv ==
    ASSUME IndInv, NEW c \in Clients, NEW f \in Calls, TracerFinished(c, f),
           ema_samples' \subseteq {"processing_time", "dispatch_delay"}
    PROVE  IndInv'
<1> USE DEF IndInv
<1>1. /\ c \in workers /\ f \in executing[c]
      /\ executing' = [executing EXCEPT ![c] = @ \ {f}]
      /\ func_call_infos' = [func_call_infos EXCEPT ![f] = "none"]
      /\ inflight_requests' = IF inflight_requests > 0 THEN inflight_requests - 1 ELSE 0
      /\ finishing' = finishing \cup {f}
      /\ fate' = [fate EXCEPT ![f] = "finished"]
      /\ UNCHANGED <<limiter_disabled, workers, running_workers, idle_workers,
                     requested_workers, last_request, pending_func_calls,
                     assigned_workers, launcher, next_client_id, launching>>
  BY Zenon DEF TracerFinished, dispatcherVars, managerVars
<1>2. fate[f] = "open" /\ running_workers[c] = f /\ assigned_workers[f] = c
  <2>1. fate[f] = "open"
    BY <1>1, Zenon DEF ExecutingIsOpen
  <2>2. running_workers[c] = f
    BY <1>1, Zenon DEF OneCallAtATime
  <2> QED
    BY <2>1, <2>2, Zenon DEF AssignmentsAgree
<1>3. c # NoClient /\ NoCall \notin Calls
  BY BoundAssumption, CallsAssumption DEF Clients, NoClient
<1>4. ~Queued(f)
  BY <1>2, <1>3, Zenon DEF CallInOnePlace
<1>5. TypeOK'
  <2>1. inflight_requests' \in Nat
    <3>1. inflight_requests \in Nat
      BY Zenon DEF TypeOK
    <3> QED
      BY <1>1, <3>1
  <2>2. /\ executing' \in [Clients -> SUBSET Calls]
        /\ func_call_infos' \in [Calls -> {"none", "kReceived", "kDispatched"}]
        /\ fate' \in [Calls -> {"new", "open", "finished", "discarded"}]
        /\ finishing' \subseteq Calls
    BY <1>1, Zenon DEF TypeOK
  <2>3. UNCHANGED <<limiter_disabled, workers, running_workers, idle_workers,
                    requested_workers, last_request, pending_func_calls,
                    assigned_workers, launcher, next_client_id, launching>>
    BY <1>1, Zenon
  <2> QED
    BY <2>1, <2>2, <2>3, Zenon DEF TypeOK
<1>6. WorkerHeldOnce' /\ AssignmentsAgree' /\ FreshClients'
  <2>1. WorkerHeldOnce' /\ AssignmentsAgree'
    BY <1>1, PartsOfIndInv, PartsOfIndInvPrimed, Zenon
  <2>2. \A d \in Clients : Stacked(d)' <=> Stacked(d)
    BY <1>1, Zenon DEF Stacked
  <2>3. UNCHANGED <<workers, running_workers, launching, next_client_id>>
    BY <1>1, Zenon
  <2> QED
    BY <2>1, <2>2, <2>3, Zenon DEF FreshClients
<1>7. /\ fate'[f] = "finished" /\ \A g \in Calls \ {f} : fate'[g] = fate[g]
      /\ func_call_infos'[f] = "none"
      /\ \A g \in Calls \ {f} : func_call_infos'[g] = func_call_infos[g]
  BY <1>1, Zenon DEF TypeOK
<1>8. CallInOnePlace'
  <2>1. \A g \in Calls : Queued(g)' <=> Queued(g)
    BY <1>1, Zenon DEF Queued
  <2>2. ASSUME NEW g \in Calls, fate'[g] = "open"
        PROVE  IF Queued(g)'
               THEN func_call_infos'[g] = "kReceived" /\ assigned_workers'[g] = NoClient
               ELSE func_call_infos'[g] = "kDispatched" /\ assigned_workers'[g] # NoClient
    BY <1>1, <1>7, <2>1, <2>2, Zenon DEF CallInOnePlace
  <2>3. ASSUME NEW g \in Calls, fate'[g] # "open"
        PROVE  /\ ~Queued(g)'
               /\ func_call_infos'[g] = "none"
               /\ assigned_workers'[g] # NoClient <=> g \in finishing'
    <3>1. CASE g = f
      BY <1>1, <1>2, <1>3, <1>4, <1>7, <2>1, <3>1, Zenon
    <3>2. CASE g # f
      <4>1. fate[g] # "open" /\ func_call_infos'[g] = func_call_infos[g]
        BY <1>7, <2>3, <3>2, Zenon
      <4>2. /\ ~Queued(g) /\ func_call_infos[g] = "none"
            /\ assigned_workers[g] # NoClient <=> g \in finishing
        BY <4>1, Zenon DEF CallInOnePlace
      <4>3. assigned_workers'[g] = assigned_workers[g]
            /\ (g \in finishing' <=> g \in finishing)
        BY <1>1, <3>2, Zenon
      <4> QED
        BY <2>1, <4>1, <4>2, <4>3, Zenon
    <3> QED
      BY <3>1, <3>2, Zenon
  <2>4. \A i, j \in 1..Len(pending_func_calls') :
           i # j => pending_func_calls'[i] # pending_func_calls'[j]
    BY <1>1, Zenon DEF CallInOnePlace
  <2> QED
    BY <2>2, <2>3, <2>4, Zenon DEF CallInOnePlace
<1>9. OneCallAtATime'
  BY <1>1, Zenon DEF OneCallAtATime, TypeOK
<1>10. FinishingOnWorker'
  <2> SUFFICES ASSUME NEW g \in finishing'
               PROVE  fate'[g] = "finished" /\ assigned_workers'[g] \in workers'
    BY Zenon DEF FinishingOnWorker
  <2>1. workers' = workers /\ assigned_workers' = assigned_workers
    BY <1>1, Zenon
  <2>2. CASE g = f
    BY <1>1, <1>2, <1>7, <2>1, <2>2, Zenon
  <2>3. CASE g # f
    <3>1. g \in finishing /\ g \in Calls \ {f}
      BY <1>1, <2>3, Zenon DEF TypeOK
    <3>2. fate[g] = "finished" /\ assigned_workers[g] \in workers
      BY <3>1, Zenon DEF FinishingOnWorker
    <3> QED
      BY <1>7, <2>1, <3>1, <3>2, Zenon
  <2> QED
    BY <2>2, <2>3, Zenon
<1>11. ExecutingIsOpen'
  <2>1. ASSUME NEW d \in Clients, NEW g \in executing'[d]
        PROVE  g \in executing[d] /\ g # f /\ g \in Calls
    <3>1. g \in executing[d] /\ g \in Calls
      BY <1>1, <2>1, Zenon DEF TypeOK
    <3>2. d # c => g # f
      BY <1>2, <3>1 DEF OneCallAtATime, AssignmentsAgree
    <3>3. d = c => g # f
      BY <1>1, <2>1, Zenon DEF TypeOK
    <3> QED
      BY <3>1, <3>2, <3>3, Zenon
  <2> QED
    <3> SUFFICES ASSUME NEW d \in Clients, NEW g \in executing'[d]
                 PROVE  fate'[g] = "open" /\ d \in workers'
      BY Zenon DEF ExecutingIsOpen
    <3>1. g \in executing[d] /\ g \in Calls \ {f}
      BY <2>1, Zenon
    <3>2. fate[g] = "open" /\ d \in workers
      BY <3>1, Zenon DEF ExecutingIsOpen
    <3>3. fate'[g] = fate[g] /\ workers' = workers
      BY <1>1, <1>7, <3>1, Zenon
    <3> QED
      BY <3>2, <3>3, Zenon
<1> QED
  BY <1>5, <1>6, <1>8, <1>9, <1>10, <1>11, Zenon

\* A worker that goes away takes what it was executing with it; the dispatcher's
\* other maps keep their entries.
LEMMA DisconnectedIndInv ==
    ASSUME IndInv, NEW c \in Clients, OnFuncWorkerDisconnected(c)
    PROVE  IndInv'
<1> USE DEF IndInv
<1>1. /\ c \in workers /\ workers' = workers \ {c}
      /\ \A f \in finishing : assigned_workers[f] # c
      /\ executing' = [executing EXCEPT ![c] = {}]
      /\ UNCHANGED <<limiter_disabled, running_workers, idle_workers, requested_workers,
                     last_request, pending_func_calls, assigned_workers, func_call_infos,
                     inflight_requests, ema_samples, launcher, next_client_id, launching,
                     finishing, fate>>
  BY Zenon DEF OnFuncWorkerDisconnected, tracerVars, managerVars
<1>2. TypeOK'
  BY <1>1, Zenon DEF TypeOK
<1>3. AssignmentsAgree' /\ CallInOnePlace'
  BY <1>1, PartsOfIndInv, PartsOfIndInvPrimed, Zenon
<1>4. WorkerHeldOnce'
  BY <1>1, Zenon DEF WorkerHeldOnce, Stacked
<1>5. OneCallAtATime' /\ ExecutingIsOpen'
  BY <1>1, Zenon DEF OneCallAtATime, ExecutingIsOpen, TypeOK
<1>6. FinishingOnWorker' /\ FreshClients'
  BY <1>1, Zenon DEF FinishingOnWorker, FreshClients, Stacked
<1> QED
  BY <1>2, <1>3, <1>4, <1>5, <1>6, Zenon

\* The launcher's coming and going, and the passing of the request interval.
LEMMA LauncherIndInv ==
    ASSUME IndInv, OnLauncherConnected \/ OnLauncherDisconnected \/ IntervalElapses
    PROVE  IndInv'
<1> USE DEF IndInv
<1>1. UNCHANGED <<workers, running_workers, idle_workers, requested_workers,
                  pending_func_calls, assigned_workers, func_call_infos,
                  inflight_requests, ema_samples, limiter_disabled, executing,
                  finishing, fate>>
  BY Zenon DEF OnLauncherConnected, OnLauncherDisconnected, IntervalElapses,
         dispatcherVars, tracerVars
<1>2. WorkerHeldOnce' /\ AssignmentsAgree' /\ CallInOnePlace' /\ OneCallAtATime'
      /\ FinishingOnWorker' /\ ExecutingIsOpen'
  BY <1>1, PartsOfIndInv, PartsOfIndInvPrimed, Zenon
<1>3. \A c \in Clients : Stacked(c)' <=> Stacked(c)
  BY <1>1, Zenon DEF Stacked
<1>4. CASE OnLauncherConnected
  <2>1. /\ launcher' = TRUE /\ last_request' = last_request
        /\ next_client_id + PreLaunched <= MaxClientId + 1
        /\ launching' = launching \cup (next_client_id..(next_client_id + PreLaunched - 1))
        /\ next_client_id' = next_client_id + PreLaunched
    BY <1>4, Zenon DEF OnLauncherConnected, ClientIdsLeft, dispatcherVars
  <2>2. next_client_id \in Nat /\ next_client_id >= 1 /\ PreLaunched \in Nat
        /\ MaxClientId \in Nat
    BY BoundAssumption DEF TypeOK
  <2>3. next_client_id..(next_client_id + PreLaunched - 1) \subseteq Clients
    BY <2>1, <2>2 DEF Clients
  <2>4. next_client_id' \in 1..(MaxClientId + 1)
    BY <2>1, <2>2
  <2>5. TypeOK'
    BY <1>1, <2>1, <2>3, <2>4, Zenon DEF TypeOK
  <2>6. FreshClients'
    <3>1. ASSUME NEW c \in Clients
          PROVE  /\ c \in launching' \/ c >= next_client_id' =>
                       c \notin workers /\ ~Stacked(c) /\ running_workers[c] = NoCall
                 /\ c \in launching' => c < next_client_id'
      <4>1. c \in Int
        BY <2>2 DEF Clients
      <4>2. c \in launching' => c \in launching
                \/ (c >= next_client_id /\ c < next_client_id')
        BY <2>1, <2>2, <4>1
      <4>3. c >= next_client_id' => c >= next_client_id
        BY <2>1, <2>2, <4>1
      <4>4. c \in launching => c < next_client_id'
        BY <2>1, <2>2, <4>1 DEF FreshClients
      <4> QED
        BY <4>2, <4>3, <4>4, Zenon DEF FreshClients
    <3> QED
      BY <1>1, <1>3, <3>1, Zenon DEF FreshClients
  <2> QED
    BY <1>2, <2>5, <2>6, Zenon
<1>5. CASE OnLauncherDisconnected \/ IntervalElapses
  <2>1. /\ UNCHANGED <<next_client_id, launching>>
        /\ launcher' \in BOOLEAN
        /\ last_request' \in {"never", "within", "elapsed"}
    BY <1>5, Zenon
       DEF OnLauncherDisconnected, IntervalElapses, dispatcherVars, managerVars, TypeOK
  <2>2. TypeOK'
    BY <1>1, <2>1, Zenon DEF TypeOK
  <2>3. FreshClients'
    BY <1>1, <1>3, <2>1, Zenon DEF FreshClients
  <2> QED
    BY <1>2, <2>2, <2>3, Zenon
<1> QED
  BY <1>4, <1>5, Zenon

\* A step that changes nothing.
LEMMA StutterIndInv ==
    ASSUME IndInv, UNCHANGED vars
    PROVE  IndInv'
<1>1. UNCHANGED <<workers, running_workers, idle_workers, requested_workers,
                  last_request, pending_func_calls, assigned_workers, func_call_infos,
                  inflight_requests, ema_samples, launcher, next_client_id, launching,
                  limiter_disabled, executing, finishing, fate>>
  BY Zenon DEF vars, dispatcherVars, tracerVars, managerVars
<1>2. TypeOK' /\ FreshClients'
  BY <1>1, Zenon DEF IndInv, TypeOK, FreshClients, Stacked
<1> QED
  BY <1>1, <1>2, PartsOfIndInv, PartsOfIndInvPrimed, Zenon DEF IndInv

\* Every step keeps the invariant.
LEMMA NextIndInv == IndInv /\ [Next]_vars => IndInv'
<1> SUFFICES ASSUME IndInv, [Next]_vars PROVE IndInv'
  BY Zenon
<1>1. CASE OnLauncherConnected \/ OnLauncherDisconnected \/ IntervalElapses
  BY <1>1, LauncherIndInv, Zenon
<1>2. CASE \E c \in Clients : OnFuncWorkerConnected(c)
  BY <1>2, ConnectedIndInv, Zenon
<1>3. CASE \E c \in Clients : OnFuncWorkerDisconnected(c)
  BY <1>3, DisconnectedIndInv, Zenon
<1>4. CASE \E f \in Calls : OnNewFuncCall(f)
  BY <1>4, NewFuncCallIndInv, Zenon
<1>5. CASE \E f \in Calls : FinishLocked(f)
  BY <1>5, FinishLockedIndInv, Zenon
<1>6. ASSUME NEW c \in Clients, NEW f \in Calls,
             OnFuncCallCompleted(c, f) \/ OnFuncCallFailed(c, f)
      PROVE  IndInv'
  <2>1. TracerFinished(c, f)
    BY <1>6, Zenon DEF OnFuncCallCompleted, OnFuncCallFailed
  <2>2. ema_samples' \subseteq {"processing_time", "dispatch_delay"}
    BY <1>6, Zenon DEF OnFuncCallCompleted, OnFuncCallFailed, TracerCompleted, IndInv, TypeOK
  <2> QED
    BY <2>1, <2>2, TracerFinishedIndInv, Zenon
<1>7. CASE UNCHANGED vars
  BY <1>7, StutterIndInv, Zenon
<1> QED
  BY <1>1, <1>2, <1>3, <1>4, <1>5, <1>6, <1>7, Zenon DEF Next

-----------------------------------------------------------------------------
(***************************************************************************)
(* The theorems.                                                           *)
(***************************************************************************)

\* The inductive invariant holds in every reachable state of the dispatcher.
THEOREM DispatcherInvariant == Spec => []IndInv
  BY InitIndInv, NextIndInv, PTL DEF Spec

\* Type correctness of the dispatcher's maps (dispatcher.h), the tracer's and
\* the worker manager's.
THEOREM TypeCorrect == Spec => []TypeOK
<1>1. IndInv => TypeOK
  BY Zenon DEF IndInv
<1> QED
  BY <1>1, DispatcherInvariant, PTL

\* No worker is lost or handed out twice by OnFuncWorkerConnected,
\* PickIdleWorker and FuncWorkerFinished.
THEOREM NoWorkerLost == Spec => []WorkerHeldOnce
<1>1. IndInv => WorkerHeldOnce
  BY Zenon DEF IndInv
<1> QED
  BY <1>1, DispatcherInvariant, PTL

\* running_workers_ and assigned_workers_ are inverse to each other, although
\* each handler updates them in several places.
THEOREM MapsAreInverse == Spec => []AssignmentsAgree
<1>1. IndInv => AssignmentsAgree
  BY Zenon DEF IndInv
<1> QED
  BY <1>1, DispatcherInvariant, PTL

\* No call is lost: an open call waits once in the queue or is assigned.
THEOREM NoCallLost == Spec => []CallInOnePlace
<1>1. IndInv => CallInOnePlace
  BY Zenon DEF IndInv
<1> QED
  BY <1>1, DispatcherInvariant, PTL

\* A worker never has two unanswered calls, which the DCHECKs of
\* DispatchFuncCall and FuncWorkerFinished rely on.
THEOREM NeverTwoCalls == Spec => []OneCallAtATime
<1>1. IndInv => OneCallAtATime
  BY Zenon DEF IndInv
<1> QED
  BY <1>1, DispatcherInvariant, PTL
-----------------------------------------------------------------------------
(***************************************************************************)
(* The tracer's counter, the busy workers and the order of the queue.      *)
(***************************************************************************)

\* The calls the tracer counts.
Traced == {f \in Calls : func_call_infos[f] # "none" \/ fate[f] = "discarded"}

\* The counter is the number of those calls, of which there are finitely many.
TracedCounted == IsFiniteSet(Traced) /\ inflight_requests = Cardinality(Traced)

\* What DispatchPendingFuncCall does to the queue, to the tracer and to the worker:
\* calls leave the queue at its front, a discarded call is forgotten by the tracer
\* and not by the counter, and the worker gets a call unless the queue is empty.
LEMMA DispatchPendingEffect ==
    ASSUME TypeOK, CallInOnePlace, NEW c \in Clients, NEW run \in Maps, NEW asg,
           DispatchPendingFuncCall(c, run, asg)
    PROVE  /\ \E m \in 0..Len(pending_func_calls) :
                 pending_func_calls' = SubSeq(pending_func_calls, m + 1, Len(pending_func_calls))
           /\ Traced' = Traced
           /\ pending_func_calls' # <<>> =>
                 /\ running_workers'[c] # NoCall
                 /\ \A d \in Clients \ {c} : running_workers'[d] = run[d]
<1> DEFINE queue == pending_func_calls
           gone(n) == {queue[i] : i \in 1..n}
           infos(n) == [f \in Calls |-> IF f \in gone(n) THEN "none"
                                                     ELSE func_call_infos[f]]
<1>1. PICK n \in 0..Len(queue) :
        /\ fate' = [f \in Calls |-> IF f \in gone(n) THEN "discarded" ELSE fate[f]]
        /\ \/ /\ n < Len(queue)
              /\ DispatchFuncCall(c, queue[n + 1], run, asg, infos(n))
              /\ queue' = SubSeq(queue, n + 2, Len(queue))
           \/ /\ n = Len(queue)
              /\ func_call_infos' = infos(n)
              /\ queue' = <<>>
  BY Zenon DEF DispatchPendingFuncCall
<1> DEFINE G == gone(n)
           I == infos(n)
<1>2. queue \in Seq(Calls) /\ Len(queue) \in Nat /\ NoCall \notin Calls
  BY CallsAssumption DEF TypeOK
<1>3. \A g \in G : g \in Calls /\ func_call_infos[g] # "none"
  <2> TAKE g \in G
  <2>1. PICK i \in 1..n : g = queue[i]
    BY Zenon
  <2>2. i \in 1..Len(queue)
    BY <1>2
  <2>3. g \in Calls /\ Queued(g)
    BY <1>2, <2>1, <2>2 DEF Queued
  <2>4. fate[g] = "open" /\ func_call_infos[g] = "kReceived"
    BY <2>3, Zenon DEF CallInOnePlace
  <2> QED
    BY <2>3, <2>4, Zenon
<1>4. /\ \A g \in Calls : g \in G => I[g] = "none" /\ fate'[g] = "discarded"
      /\ \A g \in Calls : g \notin G => I[g] = func_call_infos[g] /\ fate'[g] = fate[g]
      /\ I \in Infos
  BY <1>1, <1>2, Zenon DEF TypeOK, Infos
<1> HIDE DEF gone, infos, I, G
<1>5. ASSUME NEW g \in Calls
      PROVE  (I[g] # "none" \/ fate'[g] = "discarded") <=>
             (func_call_infos[g] # "none" \/ fate[g] = "discarded")
  BY <1>3, <1>4, Zenon
<1>6. CASE n < Len(queue)
  <2> DEFINE f == queue[n + 1]
  <2>1. DispatchFuncCall(c, f, run, asg, I) /\ queue' = SubSeq(queue, n + 2, Len(queue))
    BY <1>1, <1>6 DEF I
  <2>2. f \in Calls /\ n + 1 \in 0..Len(queue) /\ (n + 1) + 1 = n + 2
    BY <1>2, <1>6
  <2> HIDE DEF f
  <2>3. /\ running_workers' = [run EXCEPT ![c] = f]
        /\ func_call_infos' = IF I[f] = "none" THEN I ELSE [I EXCEPT ![f] = "kDispatched"]
    BY <2>1, Zenon DEF DispatchFuncCall, Dispatched
  <2>4. \A g \in Calls : func_call_infos'[g] # "none" <=> I[g] # "none"
    BY <1>4, <2>2, <2>3, Zenon DEF Infos
  <2>5. Traced' = Traced
    BY <1>5, <2>4, Zenon DEF Traced
  <2>6. running_workers'[c] # NoCall /\ \A d \in Clients \ {c} : running_workers'[d] = run[d]
    BY <1>2, <2>2, <2>3, Zenon DEF Maps
  <2> QED
    BY <2>1, <2>2, <2>5, <2>6, Zenon
<1>7. CASE n = Len(queue)
  <2>1. func_call_infos' = I /\ queue' = <<>>
    <3>1. ~(n < Len(queue))
      BY <1>2, <1>7
    <3> QED
      BY <1>1, <3>1, Zenon DEF I
  <2>2. Traced' = Traced
    BY <1>5, <2>1, Zenon DEF Traced
  <2>3. queue' = SubSeq(queue, Len(queue) + 1, Len(queue)) /\ Len(queue) \in 0..Len(queue)
    BY <1>2, <2>1
  <2> QED
    BY <2>1, <2>2, <2>3, Zenon
<1> QED
  BY <1>2, <1>6, <1>7

-----------------------------------------------------------------------------
\* What a step may do to the queue.
LEMMA QueueStep ==
    ASSUME IndInv, [Next]_vars
    PROVE  \/ UNCHANGED pending_func_calls
           \/ \E m \in 0..Len(pending_func_calls) :
                 pending_func_calls' = SubSeq(pending_func_calls, m + 1, Len(pending_func_calls))
           \/ \E f \in Calls : /\ fate[f] = "new"
                               /\ pending_func_calls' = Append(pending_func_calls, f)
<1> USE DEF IndInv
<1>1. ASSUME NEW c \in Clients, OnFuncWorkerConnected(c)
      PROVE  \E m \in 0..Len(pending_func_calls) :
                 pending_func_calls' = SubSeq(pending_func_calls, m + 1, Len(pending_func_calls))
  <2>1. /\ DispatchPendingFuncCall(c, running_workers, assigned_workers)
        /\ running_workers \in Maps
    BY <1>1, Zenon DEF OnFuncWorkerConnected, TypeOK, Maps
  <2> QED
    BY <2>1, DispatchPendingEffect, Zenon
<1>2. ASSUME NEW f \in Calls, FinishLocked(f)
      PROVE  \/ UNCHANGED pending_func_calls
             \/ \E m \in 0..Len(pending_func_calls) :
                 pending_func_calls' = SubSeq(pending_func_calls, m + 1, Len(pending_func_calls))
  <2> DEFINE c == assigned_workers[f]
             run == [running_workers EXCEPT ![c] = NoCall]
             asg == [assigned_workers EXCEPT ![f] = NoClient]
  <2>1. c \in Clients \/ ~(c # NoClient /\ c \in workers)
    BY Zenon DEF TypeOK
  <2>2. /\ run \in Maps
        /\ \/ c \in Clients /\ DispatchPendingFuncCall(c, run, asg)
           \/ UNCHANGED pending_func_calls
    BY <1>2, <2>1, Zenon DEF FinishLocked, TypeOK, Maps
  <2> HIDE DEF c, run, asg
  <2> QED
    BY <2>2, DispatchPendingEffect, Zenon
<1>3. ASSUME NEW f \in Calls, OnNewFuncCall(f)
      PROVE  /\ fate[f] = "new"
             /\ \/ UNCHANGED pending_func_calls
                \/ pending_func_calls' = Append(pending_func_calls, f)
  BY <1>3, Zenon DEF OnNewFuncCall
<1>4. CASE OnLauncherConnected \/ OnLauncherDisconnected \/ IntervalElapses
  BY <1>4, Zenon DEF OnLauncherConnected, OnLauncherDisconnected, IntervalElapses, dispatcherVars
<1>5. ASSUME NEW c \in Clients, OnFuncWorkerDisconnected(c)
      PROVE  UNCHANGED pending_func_calls
  BY <1>5, Zenon DEF OnFuncWorkerDisconnected
<1>6. ASSUME NEW c \in Clients, NEW f \in Calls, TracerFinished(c, f)
      PROVE  UNCHANGED pending_func_calls
  BY <1>6, Zenon DEF TracerFinished, dispatcherVars
<1>7. CASE UNCHANGED vars
  BY <1>7, Zenon DEF vars, dispatcherVars
<1> QED
  BY <1>1, <1>2, <1>3, <1>4, <1>5, <1>6, <1>7, Zenon
     DEF Next, OnFuncCallCompleted, OnFuncCallFailed

\* pending_func_calls_ is first in, first out for every handler: push_back of a new
\* call and pop_front are all that is done to it.
THEOREM QueueOrder == Spec => QueueIsFIFO
<1> DEFINE Fifo == \E n \in 0..Len(pending_func_calls) :
              LET rest == SubSeq(pending_func_calls, n + 1, Len(pending_func_calls))
              IN  \/ pending_func_calls' = rest
                  \/ n = 0 /\ \E f \in Calls : fate[f] = "new"
                                        /\ pending_func_calls' = Append(rest, f)
<1>1. IndInv /\ [Next]_vars => [Fifo]_vars
  <2> SUFFICES ASSUME IndInv, [Next]_vars PROVE Fifo
    BY Zenon
  <2>1. /\ 0 \in 0..Len(pending_func_calls)
        /\ SubSeq(pending_func_calls, 0 + 1, Len(pending_func_calls)) = pending_func_calls
    BY DEF IndInv, TypeOK
  <2> QED
    BY <2>1, QueueStep, Zenon
<1> QED
  BY <1>1, DispatcherInvariant, PTL DEF Spec, QueueIsFIFO

-----------------------------------------------------------------------------
\* What the counts rest on: sets of calls grow and shrink by one, and a larger set
\* of clients, of which there are finitely many, has no fewer elements. SetsCount
\* below proves it.
Counts ==
    /\ IsFiniteSet({}) /\ Cardinality({}) = 0
    /\ \A S \in SUBSET Calls : IsFiniteSet(S) =>
          /\ Cardinality(S) \in Nat
          /\ \A f \in Calls \ S : /\ IsFiniteSet(S \cup {f})
                                 /\ Cardinality(S \cup {f}) = Cardinality(S) + 1
          /\ \A f \in S : /\ IsFiniteSet(S \ {f}) /\ Cardinality(S \ {f}) \in Nat
                         /\ Cardinality(S \ {f}) = Cardinality(S) - 1
    /\ \A S, W \in SUBSET Clients : S \subseteq W =>
          /\ Cardinality(S) \in Nat /\ Cardinality(W) \in Nat
          /\ Cardinality(S) <= Cardinality(W)

\* The states the tracer counts correctly: at first there is no call.
LEMMA InitTracedCounted == ASSUME Counts, Init PROVE TracedCounted
<1>1. Traced = {} /\ inflight_requests = 0
  BY Zenon DEF Init, Traced
<1> QED
  BY <1>1, Zenon DEF TracedCounted, Counts

\* A call that comes is one more, and one that a worker finished is one less.
LEMMA CountingTraced ==
    ASSUME Counts, IndInv, TracedCounted
    PROVE  /\ \A f \in Calls : OnNewFuncCall(f) => TracedCounted'
           /\ \A c \in Clients, f \in Calls : TracerFinished(c, f) => TracedCounted'
<1> USE DEF IndInv
<1>1. ASSUME NEW f \in Calls, OnNewFuncCall(f)
      PROVE  TracedCounted'
  <2>1. /\ fate[f] = "new" /\ fate' = [fate EXCEPT ![f] = "open"]
        /\ inflight_requests' = inflight_requests + 1
        /\ \/ func_call_infos' = [func_call_infos EXCEPT ![f] = "kReceived"]
           \/ func_call_infos' = Dispatched([func_call_infos EXCEPT ![f] = "kReceived"], f)
    BY <1>1, Zenon DEF OnNewFuncCall, DispatchFuncCall
  <2>2. func_call_infos[f] = "none"
    BY <2>1, Zenon DEF CallInOnePlace
  <2>3. /\ func_call_infos'[f] # "none" /\ fate'[f] = "open"
        /\ \A g \in Calls \ {f} : func_call_infos'[g] = func_call_infos[g] /\ fate'[g] = fate[g]
    BY <2>1, Zenon DEF Dispatched, TypeOK
  <2>4. f \notin Traced /\ Traced' = Traced \cup {f}
    BY <2>1, <2>2, <2>3, Zenon DEF Traced
  <2>5. Traced \in SUBSET Calls
    BY Zenon DEF Traced
  <2> QED
    BY <2>1, <2>4, <2>5, Zenon DEF TracedCounted, Counts
<1>2. ASSUME NEW c \in Clients, NEW f \in Calls, TracerFinished(c, f)
      PROVE  TracedCounted'
  <2>1. /\ f \in executing[c] /\ func_call_infos[f] # "none"
        /\ func_call_infos' = [func_call_infos EXCEPT ![f] = "none"]
        /\ fate' = [fate EXCEPT ![f] = "finished"]
        /\ inflight_requests' = IF inflight_requests > 0 THEN inflight_requests - 1 ELSE 0
    BY <1>2, Zenon DEF TracerFinished
  <2>2. /\ func_call_infos'[f] = "none" /\ fate'[f] = "finished"
        /\ \A g \in Calls \ {f} : func_call_infos'[g] = func_call_infos[g] /\ fate'[g] = fate[g]
    BY <2>1, Zenon DEF TypeOK
  <2>3. f \in Traced /\ Traced' = Traced \ {f}
    BY <2>1, <2>2, Zenon DEF Traced
  <2>4. /\ IsFiniteSet(Traced') /\ Cardinality(Traced') = Cardinality(Traced) - 1
        /\ Cardinality(Traced') \in Nat /\ Cardinality(Traced) \in Nat
    <3>1. Traced \in SUBSET Calls
      BY Zenon DEF Traced
    <3> QED
      BY <2>3, <3>1, Zenon DEF TracedCounted, Counts
  <2> QED
    BY <2>1, <2>4 DEF TracedCounted
<1> QED
  BY <1>1, <1>2, Zenon

\* Every other step counts the same calls.
LEMMA NextTracedCounted ==
    ASSUME Counts, IndInv, TracedCounted, [Next]_vars
    PROVE  TracedCounted'
<1> USE DEF IndInv
<1>1. ASSUME Traced' = Traced, inflight_requests' = inflight_requests
      PROVE  TracedCounted'
  BY <1>1, Zenon DEF TracedCounted
<1>2. CASE UNCHANGED <<func_call_infos, fate, inflight_requests>>
  BY <1>1, <1>2, Zenon DEF Traced
<1>3. ASSUME NEW c \in Clients, OnFuncWorkerConnected(c)
      PROVE  TracedCounted'
  <2>1. /\ DispatchPendingFuncCall(c, running_workers, assigned_workers)
        /\ inflight_requests' = inflight_requests /\ running_workers \in Maps
    BY <1>3, Zenon DEF OnFuncWorkerConnected, TypeOK, Maps
  <2> QED
    BY <1>1, <2>1, DispatchPendingEffect, Zenon
<1>4. ASSUME NEW f \in Calls, FinishLocked(f)
      PROVE  TracedCounted'
  <2> DEFINE c == assigned_workers[f]
             run == [running_workers EXCEPT ![c] = NoCall]
             asg == [assigned_workers EXCEPT ![f] = NoClient]
  <2>1. c \in Clients \/ ~(c # NoClient /\ c \in workers)
    BY Zenon DEF TypeOK
  <2>2. /\ run \in Maps /\ inflight_requests' = inflight_requests
        /\ \/ c \in Clients /\ DispatchPendingFuncCall(c, run, asg)
           \/ UNCHANGED <<func_call_infos, fate>>
    BY <1>4, <2>1, Zenon DEF FinishLocked, TypeOK, Maps
  <2> HIDE DEF c, run, asg
  <2> QED
    BY <1>1, <1>2, <2>2, DispatchPendingEffect, Zenon
<1>5. CASE OnLauncherConnected \/ OnLauncherDisconnected \/ IntervalElapses
  BY <1>2, <1>5, Zenon
     DEF OnLauncherConnected, OnLauncherDisconnected, IntervalElapses, tracerVars
<1>6. ASSUME NEW c \in Clients, OnFuncWorkerDisconnected(c)
      PROVE  TracedCounted'
  BY <1>2, <1>6, Zenon DEF OnFuncWorkerDisconnected, tracerVars
<1>7. CASE UNCHANGED vars
  BY <1>2, <1>7, Zenon DEF vars, tracerVars
<1> QED
  BY <1>3, <1>4, <1>5, <1>6, <1>7, CountingTraced, Zenon
     DEF Next, OnFuncCallCompleted, OnFuncCallFailed

-----------------------------------------------------------------------------
\* WorkConserving in terms of running_workers_, as PickIdleWorker reads it.
WaitsForReason ==
    limiter_disabled /\ pending_func_calls # <<>> =>
        \/ \A c \in workers : running_workers[c] # NoCall
        \/ Cardinality(RunningSet) >= MaxWorkers

\* While calls wait, a step that takes no call from a worker without giving it
\* another, and that gives one to every worker it adds, keeps the workers busy.
LEMMA StillBusy ==
    ASSUME Counts, TypeOK, TypeOK', WaitsForReason, limiter_disabled' = limiter_disabled,
           pending_func_calls' # <<>> =>
               /\ pending_func_calls # <<>>
               /\ \A d \in Clients : running_workers[d] # NoCall => running_workers'[d] # NoCall
               /\ \A d \in workers' \ workers : running_workers'[d] # NoCall
    PROVE  WaitsForReason'
<1> SUFFICES ASSUME limiter_disabled', pending_func_calls' # <<>>,
                    ~\A c \in workers' : running_workers'[c] # NoCall
             PROVE  Cardinality(RunningSet') >= MaxWorkers
  BY Zenon DEF WaitsForReason
<1>1. Cardinality(RunningSet) >= MaxWorkers
  BY Zenon DEF WaitsForReason, TypeOK
<1>2. RunningSet \subseteq RunningSet' /\ RunningSet' \subseteq Clients
  BY Zenon DEF RunningSet
<1>3. RunningSet \in SUBSET Clients /\ RunningSet' \in SUBSET Clients
  BY <1>2, Zenon
<1>4. /\ Cardinality(RunningSet) <= Cardinality(RunningSet')
      /\ Cardinality(RunningSet) \in Nat /\ Cardinality(RunningSet') \in Nat
  BY <1>2, <1>3, Zenon DEF Counts
<1> QED
  BY <1>1, <1>4, BoundAssumption

\* A call that is queued finds no free worker, or the limit reached.
LEMMA QueuedForAReason ==
    ASSUME Counts, IndInv, IndInv', WaitsForReason, NEW f \in Calls, OnNewFuncCall(f)
    PROVE  WaitsForReason'
<1> USE DEF IndInv
<1>1. workers' = workers /\ limiter_disabled' = limiter_disabled
  BY Zenon DEF OnNewFuncCall
<1> DEFINE Full == \E estimate \in 0..MaxEstimate :
                      /\ Cardinality(RunningSet) >= DetermineConcurrencyLimit(estimate)
                      /\ running_workers' = running_workers
           Idle == /\ \E c \in Clients : running_workers' = [running_workers EXCEPT ![c] = f]
                   /\ pending_func_calls' = pending_func_calls
           None == NoneUsable /\ running_workers' = running_workers
<1>2. Full \/ Idle \/ None
  <2>1. \A k \in 1..Len(idle_workers) : idle_workers[k] \in Clients
    BY DEF TypeOK
  <2> QED
    BY <2>1, Zenon DEF OnNewFuncCall, DispatchFuncCall
<1>3. CASE Full
  <2>1. limiter_disabled => Cardinality(RunningSet) >= MaxWorkers
    BY <1>3, Zenon DEF DetermineConcurrencyLimit
  <2>2. RunningSet' = RunningSet
    BY <1>3, Zenon DEF RunningSet
  <2> QED
    BY <1>1, <2>1, <2>2, Zenon DEF WaitsForReason
<1>4. CASE Idle
  <2>1. \A d \in Clients : running_workers[d] # NoCall => running_workers'[d] # NoCall
    BY <1>4, CallsAssumption DEF TypeOK
  <2> QED
    BY <1>1, <1>4, <2>1, StillBusy, Zenon
<1>5. CASE None
  <2>1. ASSUME NEW c \in workers, running_workers[c] = NoCall
        PROVE  FALSE
    <3>1. Stacked(c)
      BY <2>1, Zenon DEF WorkerHeldOnce, Stacked
    <3> QED
      BY <1>5, <2>1, <3>1, Zenon DEF Stacked, NoneUsable, Usable
  <2> QED
    BY <1>1, <1>5, <2>1, Zenon DEF WaitsForReason
<1> QED
  BY <1>2, <1>3, <1>4, <1>5, Zenon

\* Every step keeps the workers busy while calls wait.
LEMMA NextWaitsForReason ==
    ASSUME Counts, IndInv, IndInv', WaitsForReason, [Next]_vars
    PROVE  WaitsForReason'
<1> USE DEF IndInv
<1>1. CASE /\ UNCHANGED <<running_workers, pending_func_calls, limiter_disabled>>
           /\ workers' \subseteq workers
  BY <1>1, StillBusy, Zenon
<1>2. ASSUME NEW c \in Clients, OnFuncWorkerConnected(c)
      PROVE  WaitsForReason'
  <2>1. /\ DispatchPendingFuncCall(c, running_workers, assigned_workers)
        /\ limiter_disabled' = limiter_disabled /\ running_workers \in Maps
        /\ workers' = workers \cup {c}
    BY <1>2, Zenon DEF OnFuncWorkerConnected, TypeOK, Maps
  <2>2. /\ \E m \in 0..Len(pending_func_calls) :
              pending_func_calls' = SubSeq(pending_func_calls, m + 1, Len(pending_func_calls))
        /\ pending_func_calls' # <<>> =>
              /\ running_workers'[c] # NoCall
              /\ \A d \in Clients \ {c} : running_workers'[d] = running_workers[d]
    BY <2>1, DispatchPendingEffect, Zenon
  <2>3. pending_func_calls = <<>> => pending_func_calls' = <<>>
    BY <2>2
  <2> QED
    BY <2>1, <2>2, <2>3, StillBusy, Zenon
<1>3. ASSUME NEW f \in Calls, FinishLocked(f)
      PROVE  WaitsForReason'
  <2> DEFINE c == assigned_workers[f]
             run == [running_workers EXCEPT ![c] = NoCall]
             asg == [assigned_workers EXCEPT ![f] = NoClient]
  <2>1. c \in workers /\ c \in Clients /\ c # NoClient
    <3>1. f \in finishing
      BY <1>3, Zenon DEF FinishLocked
    <3>2. c \in workers /\ workers \subseteq Clients
      BY <3>1, Zenon DEF FinishingOnWorker, TypeOK
    <3> HIDE DEF c
    <3> QED
      BY <3>2, BoundAssumption DEF Clients, NoClient
  <2>2. /\ DispatchPendingFuncCall(c, run, asg)
        /\ limiter_disabled' = limiter_disabled /\ workers' = workers
    BY <1>3, <2>1, Zenon DEF FinishLocked
  <2>3. run \in Maps /\ \A d \in Clients \ {c} : run[d] = running_workers[d]
    BY <2>1, Zenon DEF TypeOK, Maps
  <2> HIDE DEF c, run, asg
  <2>4. /\ \E m \in 0..Len(pending_func_calls) :
              pending_func_calls' = SubSeq(pending_func_calls, m + 1, Len(pending_func_calls))
        /\ pending_func_calls' # <<>> =>
              /\ running_workers'[c] # NoCall
              /\ \A d \in Clients \ {c} : running_workers'[d] = run[d]
    BY <2>1, <2>2, <2>3, DispatchPendingEffect, Zenon
  <2>5. pending_func_calls = <<>> => pending_func_calls' = <<>>
    BY <2>4
  <2> QED
    BY <2>1, <2>2, <2>3, <2>4, <2>5, StillBusy, Zenon
<1>4. CASE OnLauncherConnected \/ OnLauncherDisconnected \/ IntervalElapses
  BY <1>1, <1>4, Zenon DEF OnLauncherConnected, OnLauncherDisconnected, IntervalElapses,
     dispatcherVars
<1>5. ASSUME NEW c \in Clients, OnFuncWorkerDisconnected(c)
      PROVE  WaitsForReason'
  <2>1. /\ UNCHANGED <<running_workers, pending_func_calls, limiter_disabled>>
        /\ workers' \subseteq workers
    BY <1>5, Zenon DEF OnFuncWorkerDisconnected
  <2> QED
    BY <1>1, <2>1, Zenon
<1>6. ASSUME NEW c \in Clients, NEW f \in Calls, TracerFinished(c, f)
      PROVE  WaitsForReason'
  BY <1>1, <1>6, Zenon DEF TracerFinished, dispatcherVars
<1>7. CASE UNCHANGED vars
  BY <1>1, <1>7, Zenon DEF vars, dispatcherVars
<1> QED
  BY <1>2, <1>3, <1>4, <1>5, <1>6, <1>7, QueuedForAReason, Zenon
     DEF Next, OnFuncCallCompleted, OnFuncCallFailed

-----------------------------------------------------------------------------
INSTANCE FiniteSetTheorems

\* Finite sets of calls and of clients are counted as the lemmas above take it.
LEMMA SetsCount == Counts
<1>1. IsFiniteSet({}) /\ Cardinality({}) = 0
  BY FS_EmptySet, Zenon
<1>2. ASSUME NEW S \in SUBSET Calls, IsFiniteSet(S)
      PROVE  /\ Cardinality(S) \in Nat
             /\ \A f \in Calls \ S : /\ IsFiniteSet(S \cup {f})
                                    /\ Cardinality(S \cup {f}) = Cardinality(S) + 1
             /\ \A f \in S : /\ IsFiniteSet(S \ {f}) /\ Cardinality(S \ {f}) \in Nat
                            /\ Cardinality(S \ {f}) = Cardinality(S) - 1
  <2>1. Cardinality(S) \in Nat
    BY <1>2, FS_CardinalityType, Zenon
  <2>2. ASSUME NEW f \in Calls \ S
        PROVE  IsFiniteSet(S \cup {f}) /\ Cardinality(S \cup {f}) = Cardinality(S) + 1
    BY <1>2, FS_AddElement, Zenon
  <2>3. ASSUME NEW f \in S
        PROVE  /\ IsFiniteSet(S \ {f}) /\ Cardinality(S \ {f}) \in Nat
               /\ Cardinality(S \ {f}) = Cardinality(S) - 1
    BY <1>2, FS_RemoveElement, FS_CardinalityType, Zenon
  <2> QED
    BY <2>1, <2>2, <2>3, Zenon
<1>3. ASSUME NEW S \in SUBSET Clients, NEW W \in SUBSET Clients, S \subseteq W
      PROVE  /\ Cardinality(S) \in Nat /\ Cardinality(W) \in Nat
             /\ Cardinality(S) <= Cardinality(W)
  <2>1. IsFiniteSet(Clients)
    BY FS_Interval, BoundAssumption DEF Clients
  <2>2. IsFiniteSet(W)
    BY <2>1, FS_Subset, Zenon
  <2>3. IsFiniteSet(S) /\ Cardinality(S) <= Cardinality(W)
    BY <1>3, <2>2, FS_Subset, Zenon
  <2> QED
    BY <2>2, <2>3, FS_CardinalityType, Zenon
<1> QED
  BY <1>1, <1>2, <1>3, Zenon DEF Counts

\* The tracer's counter is the number of calls it still traces or that were given
\* up, however handlers interleave: it is lowered once for each call that it was
\* raised for, and the "== 0" case of OnFuncCallCompleted never hides a mismatch.
THEOREM CounterIsExact == Spec => []InflightAccounting
<1>1. TracedCounted => InflightAccounting
  BY Zenon DEF TracedCounted, InflightAccounting, Traced
<1>2. Init => TracedCounted
  BY InitTracedCounted, SetsCount, Zenon
<1>3. IndInv /\ TracedCounted /\ [Next]_vars => TracedCounted'
  BY NextTracedCounted, SetsCount, Zenon
<1> QED
  BY <1>1, <1>2, <1>3, DispatcherInvariant, PTL DEF Spec

\* With the limiter off, a call waits only while every connected worker runs one or
\* the running workers and the stale entries of running_workers_ reach max_workers_:
\* OnFuncWorkerConnected and FuncWorkerFinished look at the queue before they make a
\* worker idle, and OnNewFuncCall looks at every entry of the stack before it queues.
THEOREM NoIdleWaiting == Spec => []WorkConserving
<1>1. Init => WaitsForReason
  BY Zenon DEF Init, WaitsForReason
<1>2. IndInv /\ IndInv' /\ WaitsForReason /\ [Next]_vars => WaitsForReason'
  BY NextWaitsForReason, SetsCount, Zenon
<1>3. IndInv /\ WaitsForReason => WorkConserving
  <2> SUFFICES ASSUME IndInv, WaitsForReason PROVE WorkConserving
    OBVIOUS
  <2>1. workers \subseteq Clients
    BY Zenon DEF IndInv, TypeOK
  <2>2. RunningSet = BusyWorkers \cup StaleEntries
    BY <2>1 DEF RunningSet, BusyWorkers, StaleEntries
  <2>3. (\A c \in workers : running_workers[c] # NoCall) => BusyWorkers = workers
    BY Zenon DEF BusyWorkers
  <2> QED BY <2>2, <2>3, Zenon DEF WaitsForReason, WorkConserving
<1> QED
  BY <1>1, <1>2, <1>3, DispatcherInvariant, PTL DEF Spec
=============================================================================
