------------------------ MODULE GatewayServerProofs -------------------------
(***************************************************************************)
(* Proofs about GatewayServer, for any calls, connections, IO workers,     *)
(* nodes, limit and deployments. The inductive invariant adds to the       *)
(* properties that a call is in one task of one IO worker, that a task     *)
(* sends a call to the node it runs on, and that engines are connected     *)
(* before calls are taken where they stay.                                 *)
(***************************************************************************)
EXTENDS GatewayServer, TLAPS

(***************************************************************************)
(* Facts about the data: the lists of tasks of the IO workers, the loads   *)
(* of the nodes and the queue of pending calls.                            *)
(***************************************************************************)

HasTask(q, do, f) == \E i \in 1..Len(q) : q[i].do = do /\ q[i].call = f
Mentions(q, f) == HasTask(q, "dispatch", f) \/ HasTask(q, "finish", f)
DistinctCalls(q) == \A i, j \in 1..Len(q) : i # j => q[i].call # q[j].call
SendsTo(q, running) ==
    \A i \in 1..Len(q) : q[i].do = "dispatch" => running[q[i].call] = q[i].node

OneTask ==
    /\ \A w \in Workers : DistinctCalls(todo[w]) /\ SendsTo(todo[w], running_func_calls)
    /\ \A v, w \in Workers, f \in Calls : Mentions(todo[v], f) /\ Mentions(todo[w], f) => v = w

EnginesReady ==
    /\ \A i \in 1..Len(connected_nodes) : connected_nodes[i] \in engines
    /\ \A f \in Running : running_func_calls[f] \in engines
    /\ calm /\ (\E f \in Calls : fate[f] # "new") =>
          \A w \in Workers, n \in engines : engine_conn[<<w, n>>] = "running"

IInv == TypeOK /\ CallInOnePlace /\ InflightCovered /\ OneTask /\ EnginesReady /\ RunningBounded

\* A step that leaves the tasks and the nodes of the calls alone keeps OneTask.
LEMMA OneTaskSame ==
    ASSUME OneTask, UNCHANGED <<todo, running_func_calls>>
    PROVE  OneTask'
  BY DEF OneTask, DistinctCalls, SendsTo, Mentions, HasTask

\* A step that leaves them and the queue alone leaves every call where it is.
LEMMA PlacesSame ==
    ASSUME UNCHANGED <<todo, running_func_calls, pending_func_calls>>
    PROVE  /\ Running' = Running
           /\ \A f : Queued(f)' <=> Queued(f)
           /\ \A f : (Dispatching(f)' <=> Dispatching(f)) /\ (Finishing(f)' <=> Finishing(f))
  BY Zenon DEF Queued, Running, Dispatching, Finishing

LEMMA CallInOnePlaceSame ==
    ASSUME CallInOnePlace, fate' = fate, scheduled' = scheduled, at_engine' = at_engine,
           UNCHANGED <<todo, running_func_calls, pending_func_calls>>
    PROVE  CallInOnePlace'
  BY PlacesSame, Zenon DEF CallInOnePlace

-----------------------------------------------------------------------------
(***************************************************************************)
(* Tasks of an IO worker.                                                  *)
(***************************************************************************)

\* What a list of one task holds.
LEMMA SingleTask ==
    ASSUME NEW t \in Tasks
    PROVE  /\ <<t>> \in Seq(Tasks) /\ DistinctCalls(<<t>>)
           /\ \A do, f : HasTask(<<t>>, do, f) <=> t.do = do /\ t.call = f
  <1>1. Len(<<t>>) = 1 /\ <<t>>[1] = t /\ <<t>> \in Seq(Tasks)
    OBVIOUS
  <1>2. 1..1 = {1}
    OBVIOUS
  <1>3. \A do, f : HasTask(<<t>>, do, f) <=> t.do = do /\ t.call = f
    BY <1>1, <1>2, Zenon DEF HasTask
  <1>4. DistinctCalls(<<t>>)
    BY <1>1, <1>2, Zenon DEF DistinctCalls
  <1> QED BY <1>1, <1>3, <1>4, Zenon

\* The tail of a list is the list without its first element.
LEMMA TailIsRest ==
    ASSUME NEW T, NEW q \in Seq(T), q # <<>>
    PROVE  /\ Tail(q) \in Seq(T)
           /\ \A i \in 1..Len(Tail(q)) : i + 1 \in 1..Len(q) /\ Tail(q)[i] = q[i + 1]
  OBVIOUS

\* A list from which the first task is taken no longer mentions its call.
LEMMA TaskTaken ==
    ASSUME NEW q \in Seq(Tasks), q # <<>>, DistinctCalls(q)
    PROVE  /\ Head(q) \in Tasks /\ Tail(q) \in Seq(Tasks)
           /\ HasTask(q, Head(q).do, Head(q).call)
           /\ DistinctCalls(Tail(q))
           /\ \A do : ~HasTask(Tail(q), do, Head(q).call)
           /\ \A do, f : HasTask(Tail(q), do, f) => HasTask(q, do, f)
           /\ \A do, f : HasTask(q, do, f) =>
                HasTask(Tail(q), do, f) \/ (do = Head(q).do /\ f = Head(q).call)
  <1>1. /\ Head(q) = q[1] /\ Len(q) \in Nat /\ Len(q) >= 1 /\ Len(Tail(q)) = Len(q) - 1
        /\ Head(q) \in Tasks /\ Tail(q) \in Seq(Tasks)
    OBVIOUS
  <1>2. \A i \in 1..Len(Tail(q)) : i + 1 \in 1..Len(q) /\ Tail(q)[i] = q[i + 1]
    BY <1>1
  <1>3. \A i \in 1..Len(q) : i # 1 => i - 1 \in 1..Len(Tail(q)) /\ Tail(q)[i - 1] = q[i]
    BY <1>1, <1>2
  <1>4. HasTask(q, Head(q).do, Head(q).call)
    BY <1>1 DEF HasTask
  <1>5. DistinctCalls(Tail(q))
    BY <1>1, <1>2 DEF DistinctCalls
  <1>6. \A do : ~HasTask(Tail(q), do, Head(q).call)
    BY <1>1, <1>2 DEF DistinctCalls, HasTask
  <1>7. \A do, f : HasTask(Tail(q), do, f) => HasTask(q, do, f)
    BY <1>2, Zenon DEF HasTask
  <1>8. \A do, f : HasTask(q, do, f) =>
                HasTask(Tail(q), do, f) \/ (do = Head(q).do /\ f = Head(q).call)
    <2> SUFFICES ASSUME NEW do, NEW f, HasTask(q, do, f)
                 PROVE  HasTask(Tail(q), do, f) \/ (do = Head(q).do /\ f = Head(q).call)
      BY Zenon
    <2>1. PICK i \in 1..Len(q) : q[i].do = do /\ q[i].call = f
      BY Zenon DEF HasTask
    <2>2. CASE i = 1
      BY <1>1, <2>1, <2>2, Zenon
    <2>3. CASE i # 1
      <3>1. /\ i - 1 \in 1..Len(Tail(q))
            /\ Tail(q)[i - 1].do = do /\ Tail(q)[i - 1].call = f
        BY <1>3, <2>1, <2>3, Zenon
      <3> QED BY <3>1, Zenon DEF HasTask
    <2> QED BY <2>2, <2>3, Zenon
  <1> QED BY <1>1, <1>4, <1>5, <1>6, <1>7, <1>8, Zenon

\* Putting a task about a new call first.
LEMMA TaskPutFirst ==
    ASSUME NEW q \in Seq(Tasks), NEW t \in Tasks, DistinctCalls(q), ~Mentions(q, t.call)
    PROVE  /\ <<t>> \o q \in Seq(Tasks)
           /\ DistinctCalls(<<t>> \o q)
           /\ \A do, f : HasTask(<<t>> \o q, do, f) <=>
                HasTask(q, do, f) \/ (do = t.do /\ f = t.call)
  <1> DEFINE p == <<t>> \o q
  <1>1. /\ p \in Seq(Tasks) /\ Len(p) = Len(q) + 1 /\ p[1] = t /\ Len(q) \in Nat
    OBVIOUS
  <1>2. \A i \in 1..Len(q) : p[i + 1] = q[i]
    OBVIOUS
  <1>3. \A i \in 1..Len(p) : i # 1 => i - 1 \in 1..Len(q) /\ p[i] = q[i - 1]
    <2> SUFFICES ASSUME NEW i \in 1..Len(p), i # 1
                 PROVE  i - 1 \in 1..Len(q) /\ p[i] = q[i - 1]
      BY Zenon
    <2>1. i - 1 \in 1..Len(q) /\ (i - 1) + 1 = i
      BY <1>1
    <2> QED BY <1>2, <2>1, Zenon
  <1>4. \A i \in 1..Len(q) : q[i].call # t.call
    <2> SUFFICES ASSUME NEW i \in 1..Len(q), q[i].call = t.call PROVE FALSE
      BY Zenon
    <2>1. q[i] \in Tasks
      OBVIOUS
    <2>2. q[i].do = "dispatch" \/ q[i].do = "finish"
      BY <2>1, Zenon DEF Tasks
    <2> QED BY <2>2, Zenon DEF Mentions, HasTask
  <1> HIDE DEF p
  <1>5. DistinctCalls(p)
    <2> SUFFICES ASSUME NEW i \in 1..Len(p), NEW j \in 1..Len(p), i # j
                 PROVE  p[i].call # p[j].call
      BY Zenon DEF DistinctCalls
    <2>1. CASE i = 1
      BY <1>1, <1>3, <1>4, <2>1, Zenon
    <2>2. CASE j = 1
      BY <1>1, <1>3, <1>4, <2>2, Zenon
    <2>3. CASE i # 1 /\ j # 1
      <3>1. i - 1 # j - 1
        OBVIOUS
      <3> QED BY <1>3, <2>3, <3>1, Zenon DEF DistinctCalls
    <2> QED BY <2>1, <2>2, <2>3, Zenon
  <1>6. \A do, f : HasTask(q, do, f) => HasTask(p, do, f)
    <2>1. \A i \in 1..Len(q) : i + 1 \in 1..Len(p)
      BY <1>1
    <2> QED BY <1>2, <2>1, Zenon DEF HasTask
  <1>7. HasTask(p, t.do, t.call)
    BY <1>1 DEF HasTask
  <1>8. \A do, f : HasTask(p, do, f) => HasTask(q, do, f) \/ (do = t.do /\ f = t.call)
    <2> SUFFICES ASSUME NEW do, NEW f, HasTask(p, do, f)
                 PROVE  HasTask(q, do, f) \/ (do = t.do /\ f = t.call)
      BY Zenon
    <2>1. PICK i \in 1..Len(p) : p[i].do = do /\ p[i].call = f
      BY Zenon DEF HasTask
    <2>2. CASE i = 1
      BY <1>1, <2>1, <2>2, Zenon
    <2>3. CASE i # 1
      <3>1. i - 1 \in 1..Len(q) /\ q[i - 1].do = do /\ q[i - 1].call = f
        BY <1>3, <2>1, <2>3, Zenon
      <3> QED BY <3>1, Zenon DEF HasTask
    <2> QED BY <2>2, <2>3, Zenon
  <1> QED BY <1>1, <1>5, <1>6, <1>7, <1>8, Zenon DEF p

\* Putting a task about a new call last.
LEMMA TaskPutLast ==
    ASSUME NEW q \in Seq(Tasks), NEW t \in Tasks, DistinctCalls(q), ~Mentions(q, t.call)
    PROVE  /\ Append(q, t) \in Seq(Tasks)
           /\ DistinctCalls(Append(q, t))
           /\ \A do, f : HasTask(Append(q, t), do, f) <=>
                HasTask(q, do, f) \/ (do = t.do /\ f = t.call)
           /\ \A r : SendsTo(q, r) /\ r[t.call] = t.node => SendsTo(Append(q, t), r)
  <1> DEFINE p == Append(q, t)
             k == Len(q) + 1
  <1>1. /\ p \in Seq(Tasks) /\ Len(q) \in Nat /\ Len(p) = k /\ p[k] = t
        /\ \A i \in 1..Len(q) : p[i] = q[i]
    OBVIOUS
  <1>2. /\ k \in 1..Len(p) /\ \A i \in 1..Len(q) : i \in 1..Len(p)
        /\ \A i \in 1..Len(p) : i # k => i \in 1..Len(q)
    BY <1>1
  <1>3. \A i \in 1..Len(q) : q[i].call # t.call
    <2> SUFFICES ASSUME NEW i \in 1..Len(q), q[i].call = t.call PROVE FALSE
      BY Zenon
    <2>1. q[i] \in Tasks
      OBVIOUS
    <2>2. q[i].do = "dispatch" \/ q[i].do = "finish"
      BY <2>1, Zenon DEF Tasks
    <2> QED BY <2>2, Zenon DEF Mentions, HasTask
  <1> HIDE DEF p, k
  <1>4. DistinctCalls(p)
    BY <1>1, <1>2, <1>3, Zenon DEF DistinctCalls
  <1>5. \A do, f : HasTask(p, do, f) <=> HasTask(q, do, f) \/ (do = t.do /\ f = t.call)
    <2>1. HasTask(p, t.do, t.call)
      BY <1>1, <1>2, Zenon DEF HasTask
    <2>2. \A do, f : HasTask(q, do, f) => HasTask(p, do, f)
      BY <1>1, <1>2, Zenon DEF HasTask
    <2>3. \A do, f : HasTask(p, do, f) => HasTask(q, do, f) \/ (do = t.do /\ f = t.call)
      BY <1>1, <1>2, Zenon DEF HasTask
    <2> QED BY <2>1, <2>2, <2>3, Zenon
  <1>6. \A r : SendsTo(q, r) /\ r[t.call] = t.node => SendsTo(p, r)
    BY <1>1, <1>2, Zenon DEF SendsTo
  <1> QED BY <1>1, <1>4, <1>5, <1>6, Zenon DEF p

\* A list that mentions only calls of which nothing changed still sends them to
\* their node.
LEMMA SendsToSame ==
    ASSUME NEW q \in Seq(Tasks), NEW r1, NEW r2, SendsTo(q, r1),
           \A f \in Calls : HasTask(q, "dispatch", f) => r2[f] = r1[f]
    PROVE  SendsTo(q, r2)
  <1> SUFFICES ASSUME NEW i \in 1..Len(q), q[i].do = "dispatch"
               PROVE  r2[q[i].call] = q[i].node
    BY Zenon DEF SendsTo
  <1>1. q[i] \in Tasks
    OBVIOUS
  <1>2. q[i].call \in Calls
    BY <1>1, Zenon DEF Tasks
  <1>3. HasTask(q, "dispatch", q[i].call)
    BY Zenon DEF HasTask
  <1>4. r1[q[i].call] = q[i].node
    BY Zenon DEF SendsTo
  <1> QED BY <1>2, <1>3, <1>4, Zenon

-----------------------------------------------------------------------------
(***************************************************************************)
(* Calls that run and the loads of the nodes.                              *)
(***************************************************************************)

On(r, n) == {f \in Calls : r[f] = n}
Runs(r) == {f \in Calls : r[f] # NoNode}
Loads == [Nodes -> Nat]
Places == [Calls -> Nodes \cup {NoNode}]
Covers(r, l, exact) ==
    \A n \in Nodes : /\ l[n] >= Cardinality(On(r, n))
                     /\ exact => l[n] = Cardinality(On(r, n))

Above(r, l) == \A n \in Nodes : l[n] >= Cardinality(On(r, n))

\* Sets of calls are finite. This is what the steps use of it; the lemmas that
\* need it assume it, and CallsAreFinite proves it at the end.
FiniteCalls ==
    \A S \in SUBSET Calls :
        /\ Cardinality(S) \in Nat
        /\ Cardinality(S) = 0 <=> S = {}
        /\ \A f \in Calls \ S : Cardinality(S \cup {f}) = Cardinality(S) + 1
        /\ \A f \in S : Cardinality(S \ {f}) = Cardinality(S) - 1

\* A call that starts to run on node m.
LEMMA Assigned ==
    ASSUME FiniteCalls, NEW r \in Places, NEW l \in Loads, NEW e, NEW f \in Calls, NEW m \in Nodes,
           r[f] = NoNode, Covers(r, l, e),
           NEW r2, \A g \in Calls : r2[g] = IF g = f THEN m ELSE r[g],
           NEW l2, \A n \in Nodes : l2[n] = IF n = m THEN l[n] + 1 ELSE l[n]
    PROVE  /\ Covers(r2, l2, e)
           /\ Runs(r2) = Runs(r) \cup {f}
           /\ Cardinality(Runs(r2)) = Cardinality(Runs(r)) + 1
  <1>2. \A g \in Calls : r2[g] = IF g = f THEN m ELSE r[g]
    BY Zenon
  <1>3. \A n \in Nodes : l2[n] = IF n = m THEN l[n] + 1 ELSE l[n]
    BY Zenon
  <1>4. \A n \in Nodes : On(r, n) \in SUBSET Calls /\ f \notin On(r, n)
    BY NodeAssumption, Zenon DEF On
  <1>5. Covers(r2, l2, e)
    <2> SUFFICES ASSUME NEW n \in Nodes
                 PROVE  /\ l2[n] >= Cardinality(On(r2, n))
                        /\ e => l2[n] = Cardinality(On(r2, n))
      BY Zenon DEF Covers
    <2>1. Cardinality(On(r, n)) \in Nat /\ l[n] \in Nat
      BY <1>4, Zenon DEF FiniteCalls, Loads
    <2>2. CASE n = m
      <3>1. On(r2, n) = On(r, n) \cup {f}
        BY <1>2, <2>2, Zenon DEF On
      <3>2. Cardinality(On(r2, n)) = Cardinality(On(r, n)) + 1
        BY <1>4, <3>1, Zenon DEF FiniteCalls
      <3> QED BY <1>3, <2>1, <2>2, <3>2 DEF Covers
    <2>3. CASE n # m
      <3>1. On(r2, n) = On(r, n)
        BY <1>2, <2>3, NodeAssumption, Zenon DEF On
      <3> QED BY <1>3, <2>3, <3>1, Zenon DEF Covers
    <2> QED BY <2>2, <2>3, Zenon
  <1>6. Runs(r2) = Runs(r) \cup {f} /\ f \notin Runs(r) /\ Runs(r) \in SUBSET Calls
    BY <1>2, NodeAssumption DEF Runs
  <1>7. Cardinality(Runs(r2)) = Cardinality(Runs(r)) + 1
    BY <1>6, Zenon DEF FiniteCalls
  <1> QED BY <1>5, <1>6, <1>7, Zenon

\* Call f, which runs on n in r, runs nowhere in r2, and the load of n is one
\* less in l2 than in l.
Stops(r, r2, l, l2, e, f, n) ==
    /\ r \in Places /\ l \in Loads /\ f \in Calls /\ n \in Nodes /\ r[f] = n /\ Covers(r, l, e)
    /\ \A g \in Calls : r2[g] = IF g = f THEN NoNode ELSE r[g]
    /\ \A k \in Nodes : l2[k] = IF k = n THEN l[k] - 1 ELSE l[k]

\* A call that stops running on node n; its load may be lowered or left raised.
LEMMA Released ==
    ASSUME FiniteCalls, NEW r, NEW r2, NEW l, NEW l2, NEW e, NEW f, NEW n,
           Stops(r, r2, l, l2, e, f, n)
    PROVE  /\ l[n] - 1 \in Nat
           /\ Covers(r2, l2, e)
           /\ Above(r2, l)
           /\ Runs(r2) = Runs(r) \ {f}
           /\ Cardinality(Runs(r2)) = Cardinality(Runs(r)) - 1
  <1>1. /\ r \in Places /\ l \in Loads /\ f \in Calls /\ n \in Nodes
        /\ r[f] = n /\ Covers(r, l, e)
    BY Zenon DEF Stops
  <1>2. \A g \in Calls : r2[g] = IF g = f THEN NoNode ELSE r[g]
    BY Zenon DEF Stops
  <1>3. \A k \in Nodes : l2[k] = IF k = n THEN l[k] - 1 ELSE l[k]
    BY Zenon DEF Stops
  <1>4. \A k \in Nodes : On(r, k) \in SUBSET Calls
    BY Zenon DEF On
  <1>5. f \in On(r, n)
    BY <1>1, Zenon DEF On
  <1>6. Cardinality(On(r, n)) \in Nat /\ Cardinality(On(r, n)) # 0
    BY <1>1, <1>4, <1>5, Zenon DEF FiniteCalls
  <1>7. l[n] \in Nat /\ l[n] >= Cardinality(On(r, n))
    BY <1>1, Zenon DEF Loads, Covers
  <1>8. l[n] - 1 \in Nat
    BY <1>6, <1>7
  <1>9. \A k \in Nodes : Cardinality(On(r2, k)) = IF k = n THEN Cardinality(On(r, k)) - 1
                                                           ELSE Cardinality(On(r, k))
    <2> SUFFICES ASSUME NEW k \in Nodes
                 PROVE  Cardinality(On(r2, k)) = IF k = n THEN Cardinality(On(r, k)) - 1
                                                 ELSE Cardinality(On(r, k))
      BY Zenon
    <2>1. CASE k = n
      <3>1. On(r2, k) = On(r, k) \ {f}
        BY <1>1, <1>2, <2>1, NodeAssumption, Zenon DEF On
      <3>2. Cardinality(On(r, n) \ {f}) = Cardinality(On(r, n)) - 1
        BY <1>1, <1>4, <1>5, Zenon DEF FiniteCalls
      <3> QED BY <2>1, <3>1, <3>2, Zenon
    <2>2. CASE k # n
      <3>1. On(r2, k) = On(r, k)
        BY <1>1, <1>2, <2>2, NodeAssumption, Zenon DEF On
      <3> QED BY <2>2, <3>1, Zenon
    <2> QED BY <2>1, <2>2, Zenon
  <1>10. \A k \in Nodes : l[k] \in Nat /\ Cardinality(On(r, k)) \in Nat
    BY <1>1, <1>4, Zenon DEF FiniteCalls, Loads
  <1>11. Covers(r2, l2, e)
    BY <1>1, <1>3, <1>9, <1>10 DEF Covers
  <1>12. Above(r2, l)
    BY <1>1, <1>9, <1>10 DEF Covers, Above
  <1>13. Runs(r2) = Runs(r) \ {f} /\ f \in Runs(r) /\ Runs(r) \in SUBSET Calls
    BY <1>1, <1>2, NodeAssumption, Zenon DEF Runs
  <1>14. Cardinality(Runs(r2)) = Cardinality(Runs(r)) - 1
    BY <1>13 DEF FiniteCalls
  <1> QED BY <1>8, <1>11, <1>12, <1>13, <1>14, Zenon

-----------------------------------------------------------------------------
(***************************************************************************)
(* The queue of pending calls.                                             *)
(***************************************************************************)

\* No call is in the queue twice.
DistinctQueue(p) == \A i, j \in 1..Len(p) : i # j => p[i] # p[j]
InQueue(p, f) == \E i \in 1..Len(p) : p[i] = f

\* A call that waits nowhere joins the queue.
LEMMA QueueJoined ==
    ASSUME NEW p \in Seq(Calls), NEW f \in Calls, DistinctQueue(p), ~InQueue(p, f)
    PROVE  /\ Append(p, f) \in Seq(Calls)
           /\ DistinctQueue(Append(p, f))
           /\ \A g : InQueue(Append(p, f), g) => InQueue(p, g) \/ g = f
  BY DEF DistinctQueue, InQueue

\* The first s calls are dropped and the next one is taken.
LEMMA QueueTaken ==
    ASSUME NEW p \in Seq(Calls), NEW s \in 0..Len(p), DistinctQueue(p)
    PROVE  LET rest == SubSeq(p, s + 2, Len(p))
           IN  /\ rest \in Seq(Calls)
               /\ DistinctQueue(rest)
               /\ \A g : InQueue(rest, g) => InQueue(p, g)
               /\ s < Len(p) => /\ p[s + 1] \in Calls
                                /\ InQueue(p, p[s + 1])
                                /\ ~InQueue(rest, p[s + 1])
  <1> DEFINE rest == SubSeq(p, s + 2, Len(p))
  <1>1. Len(p) \in Nat /\ s \in Int
    OBVIOUS
  <1>2. \A i \in (s + 2)..Len(p) : p[i] \in Calls
    BY <1>1
  <1>3. /\ rest \in Seq(Calls)
        /\ Len(rest) = IF s + 2 <= Len(p) THEN Len(p) - (s + 2) + 1 ELSE 0
        /\ \A i \in 1..(Len(p) - (s + 2) + 1) : rest[i] = p[s + 2 + i - 1]
    BY <1>1, <1>2
  <1> HIDE DEF rest
  <1>4. \A i \in 1..Len(rest) : s + 1 + i \in 1..Len(p) /\ rest[i] = p[s + 1 + i]
    <2> SUFFICES ASSUME NEW i \in 1..Len(rest)
                 PROVE  s + 1 + i \in 1..Len(p) /\ rest[i] = p[s + 1 + i]
      BY Zenon
    <2>1. /\ s + 1 + i \in 1..Len(p) /\ s + 2 + i - 1 = s + 1 + i
          /\ i \in 1..(Len(p) - (s + 2) + 1)
      BY <1>1, <1>3
    <2> QED BY <1>3, <2>1, Zenon
  <1>5. DistinctQueue(rest)
    <2> SUFFICES ASSUME NEW i \in 1..Len(rest), NEW j \in 1..Len(rest), i # j
                 PROVE  rest[i] # rest[j]
      BY Zenon DEF DistinctQueue
    <2>1. s + 1 + i # s + 1 + j
      BY <1>1
    <2> QED BY <1>4, <2>1, Zenon DEF DistinctQueue
  <1>6. \A g : InQueue(rest, g) => InQueue(p, g)
    BY <1>4, Zenon DEF InQueue
  <1>7. ASSUME s < Len(p)
        PROVE  p[s + 1] \in Calls /\ InQueue(p, p[s + 1]) /\ ~InQueue(rest, p[s + 1])
    <2>1. s + 1 \in 1..Len(p)
      BY <1>1, <1>7
    <2>2. \A i \in 1..Len(rest) : s + 1 + i # s + 1
      BY <1>1
    <2>3. ~InQueue(rest, p[s + 1])
      BY <1>4, <2>1, <2>2 DEF InQueue, DistinctQueue
    <2> QED BY <2>1, <2>3 DEF InQueue
  <1> QED BY <1>3, <1>5, <1>6, <1>7, Zenon DEF rest

-----------------------------------------------------------------------------
(***************************************************************************)
(* What one step of an IO worker does to the lists of tasks.               *)
(***************************************************************************)

\* The list of worker w becomes q.
LEMMA TodoReplaced ==
    ASSUME TypeOK, NEW w \in Workers, NEW q \in Seq(Tasks), todo' = [todo EXCEPT ![w] = q]
    PROVE  /\ todo' \in [Workers -> Seq(Tasks)]
           /\ todo'[w] = q
           /\ \A v \in Workers : v # w => todo'[v] = todo[v]
           /\ \A f : Dispatching(f)' <=>
                \/ HasTask(q, "dispatch", f)
                \/ \E v \in Workers : v # w /\ HasTask(todo[v], "dispatch", f)
           /\ \A f : Finishing(f)' <=>
                \/ HasTask(q, "finish", f)
                \/ \E v \in Workers : v # w /\ HasTask(todo[v], "finish", f)
  <1>1. todo' \in [Workers -> Seq(Tasks)] /\ todo'[w] = q
    BY Zenon DEF TypeOK
  <1>2. \A v \in Workers : v # w => todo'[v] = todo[v]
    BY Zenon DEF TypeOK
  <1>3. \A f : Dispatching(f)' <=> \E v \in Workers : HasTask(todo'[v], "dispatch", f)
    BY Zenon DEF Dispatching, HasTask
  <1>4. \A f : Finishing(f)' <=> \E v \in Workers : HasTask(todo'[v], "finish", f)
    BY Zenon DEF Finishing, HasTask
  <1>5. ASSUME NEW do, NEW f
        PROVE  (\E v \in Workers : HasTask(todo'[v], do, f)) <=>
                  \/ HasTask(q, do, f)
                  \/ \E v \in Workers : v # w /\ HasTask(todo[v], do, f)
    BY <1>1, <1>2, Zenon
  <1> QED BY <1>1, <1>2, <1>3, <1>4, <1>5, Zenon

\* A call is still in one task, which sends it to its node.
LEMMA OneTaskKept ==
    ASSUME TypeOK, OneTask, NEW w \in Workers, NEW q \in Seq(Tasks),
           todo' = [todo EXCEPT ![w] = q],
           DistinctCalls(q), SendsTo(q, running_func_calls'),
           \A v \in Workers, f \in Calls : v # w /\ Mentions(q, f) => ~Mentions(todo[v], f),
           \A v \in Workers, f \in Calls :
                v # w /\ HasTask(todo[v], "dispatch", f) =>
                    running_func_calls'[f] = running_func_calls[f]
    PROVE  OneTask'
  <1>1. /\ todo'[w] = q /\ \A v \in Workers : v # w => todo'[v] = todo[v]
        /\ todo \in [Workers -> Seq(Tasks)]
    BY TodoReplaced, Zenon DEF TypeOK
  <1>2. \A v \in Workers : DistinctCalls(todo'[v])
    BY <1>1, Zenon DEF OneTask
  <1>3. \A v \in Workers : SendsTo(todo'[v], running_func_calls')
    <2> SUFFICES ASSUME NEW v \in Workers, v # w
                 PROVE  SendsTo(todo[v], running_func_calls')
      BY <1>1, Zenon
    <2>1. todo[v] \in Seq(Tasks) /\ SendsTo(todo[v], running_func_calls)
      BY <1>1, Zenon DEF OneTask
    <2>2. \A f \in Calls : HasTask(todo[v], "dispatch", f) =>
              running_func_calls'[f] = running_func_calls[f]
      BY Zenon
    <2> QED BY <2>1, <2>2, SendsToSame, Zenon
  <1>4. \A u, v \in Workers, f \in Calls : Mentions(todo'[u], f) /\ Mentions(todo'[v], f) => u = v
    BY <1>1, Zenon DEF OneTask
  <1> QED
    BY <1>2, <1>3, <1>4, Zenon DEF OneTask, DistinctCalls, SendsTo, Mentions, HasTask

\* The invariant in terms of the lists, the loads and the queue.
LEMMA Views ==
    ASSUME IInv
    PROVE  /\ running_func_calls \in Places /\ inflight_requests \in Loads
           /\ Covers(running_func_calls, inflight_requests, calm)
           /\ Running = Runs(running_func_calls)
           /\ pending_func_calls \in Seq(Calls) /\ DistinctQueue(pending_func_calls)
           /\ \A f : Queued(f) <=> InQueue(pending_func_calls, f)
           /\ todo \in [Workers -> Seq(Tasks)]
           /\ \A f : Dispatching(f) <=> \E v \in Workers : HasTask(todo[v], "dispatch", f)
           /\ \A f : Finishing(f) <=> \E v \in Workers : HasTask(todo[v], "finish", f)
           /\ \A f : (\E v \in Workers : Mentions(todo[v], f)) <=> Dispatching(f) \/ Finishing(f)
           /\ engines \subseteq Nodes
  <1>1. running_func_calls \in Places /\ inflight_requests \in Loads
    BY Zenon DEF IInv, TypeOK, Places, Loads
  <1>2. Covers(running_func_calls, inflight_requests, calm)
    BY Zenon DEF IInv, InflightCovered, Covers, On
  <1>3. Running = Runs(running_func_calls)
    BY Zenon DEF Running, Runs
  <1>4. pending_func_calls \in Seq(Calls) /\ DistinctQueue(pending_func_calls)
    BY Zenon DEF IInv, TypeOK, CallInOnePlace, DistinctQueue
  <1>5. \A f : Queued(f) <=> InQueue(pending_func_calls, f)
    BY Zenon DEF Queued, InQueue
  <1>6. todo \in [Workers -> Seq(Tasks)]
    BY Zenon DEF IInv, TypeOK
  <1>7. \A f : Dispatching(f) <=> \E v \in Workers : HasTask(todo[v], "dispatch", f)
    BY Zenon DEF Dispatching, HasTask
  <1>8. \A f : Finishing(f) <=> \E v \in Workers : HasTask(todo[v], "finish", f)
    BY Zenon DEF Finishing, HasTask
  <1>9. \A f : (\E v \in Workers : Mentions(todo[v], f)) <=> Dispatching(f) \/ Finishing(f)
    BY <1>7, <1>8, Zenon DEF Mentions
  <1>10. engines \subseteq Nodes
    <2>1. <<calm, lb, engines>> \in
             BOOLEAN \X {"round_robin", "least_load", "random"} \X SUBSET Nodes
      BY DeploymentAssumption, Zenon DEF IInv, TypeOK
    <2> QED BY <2>1, Zenon
  <1> QED BY <1>1, <1>2, <1>3, <1>4, <1>5, <1>6, <1>7, <1>8, <1>9, <1>10, Zenon

\* And back.
LEMMA ViewsBack ==
    ASSUME Covers(running_func_calls, inflight_requests, calm)',
           (MaxRunning > 0 =>
              Cardinality(Runs(running_func_calls)) <= MaxRunning * Len(connected_nodes))'
    PROVE  InflightCovered' /\ RunningBounded'
  <1>1. InflightCovered'
    BY Zenon DEF InflightCovered, Covers, On
  <1>2. Running' = Runs(running_func_calls)'
    BY Zenon DEF Running, Runs
  <1> QED BY <1>1, <1>2, Zenon DEF RunningBounded, MaxRunningRequests

\* A handler leaves tasks q to an IO worker that had none.
LEMMA TasksAdded ==
    ASSUME IInv, NEW w \in Workers, todo[w] = <<>>, NEW q \in Seq(Tasks),
           todo' = [todo EXCEPT ![w] = q],
           DistinctCalls(q), SendsTo(q, running_func_calls'),
           \A f \in Calls : Mentions(q, f) => ~Dispatching(f) /\ ~Finishing(f),
           \A f \in Calls : Dispatching(f) => running_func_calls'[f] = running_func_calls[f]
    PROVE  /\ \A f : Dispatching(f)' <=> Dispatching(f) \/ HasTask(q, "dispatch", f)
           /\ \A f : Finishing(f)' <=> Finishing(f) \/ HasTask(q, "finish", f)
           /\ todo' \in [Workers -> Seq(Tasks)]
           /\ OneTask'
  <1>1. TypeOK /\ OneTask
    BY Zenon DEF IInv
  <1>2. \A do, f : ~HasTask(todo[w], do, f)
    BY DEF HasTask
  <1>3. \A f : Dispatching(f)' <=> Dispatching(f) \/ HasTask(q, "dispatch", f)
    BY <1>1, <1>2, TodoReplaced, Views, Zenon
  <1>4. \A f : Finishing(f)' <=> Finishing(f) \/ HasTask(q, "finish", f)
    BY <1>1, <1>2, TodoReplaced, Views, Zenon
  <1>5. \A v \in Workers, f \in Calls : v # w /\ Mentions(q, f) => ~Mentions(todo[v], f)
    BY Views, Zenon
  <1>6. \A v \in Workers, f \in Calls : v # w /\ HasTask(todo[v], "dispatch", f) =>
            running_func_calls'[f] = running_func_calls[f]
    BY Views, Zenon
  <1>7. OneTask'
    BY <1>1, <1>5, <1>6, OneTaskKept, Zenon
  <1> QED BY <1>1, <1>3, <1>4, <1>7, TodoReplaced, Zenon

\* An IO worker with tasks: what its first task says of the call.
LEMMA FirstTask ==
    ASSUME IInv, NEW w \in Workers, todo[w] # <<>>
    PROVE  /\ Task(w) \in Tasks /\ Task(w).call \in Calls
           /\ Tail(todo[w]) \in Seq(Tasks) /\ DistinctCalls(Tail(todo[w]))
           /\ \A do : ~HasTask(Tail(todo[w]), do, Task(w).call)
           /\ \A do, v : v \in Workers /\ v # w => ~HasTask(todo[v], do, Task(w).call)
           /\ \A do, f : HasTask(Tail(todo[w]), do, f) => HasTask(todo[w], do, f)
           /\ \A do, f : HasTask(todo[w], do, f) =>
                HasTask(Tail(todo[w]), do, f) \/ (do = Task(w).do /\ f = Task(w).call)
           /\ Task(w).do = "dispatch" =>
                Dispatching(Task(w).call) /\ running_func_calls[Task(w).call] = Task(w).node
           /\ Task(w).do = "finish" => Finishing(Task(w).call)
  <1>1. todo[w] \in Seq(Tasks) /\ DistinctCalls(todo[w]) /\ SendsTo(todo[w], running_func_calls)
    BY Zenon DEF IInv, TypeOK, OneTask
  <1>2. /\ Task(w) \in Tasks /\ HasTask(todo[w], Task(w).do, Task(w).call)
        /\ Tail(todo[w]) \in Seq(Tasks) /\ DistinctCalls(Tail(todo[w]))
        /\ \A do : ~HasTask(Tail(todo[w]), do, Task(w).call)
        /\ \A do, f : HasTask(Tail(todo[w]), do, f) => HasTask(todo[w], do, f)
        /\ \A do, f : HasTask(todo[w], do, f) =>
             HasTask(Tail(todo[w]), do, f) \/ (do = Task(w).do /\ f = Task(w).call)
    BY <1>1, TaskTaken, Zenon DEF Task
  <1>3. Task(w).call \in Calls /\ (Task(w).do = "dispatch" \/ Task(w).do = "finish")
    BY <1>2, Zenon DEF Tasks
  <1>4. ASSUME NEW v \in Workers, v # w PROVE ~Mentions(todo[v], Task(w).call)
    <2>1. Mentions(todo[w], Task(w).call)
      BY <1>2, <1>3, Zenon DEF Mentions
    <2> QED BY <1>3, <1>4, <2>1, Zenon DEF IInv, OneTask
  <1>5. ASSUME NEW do, NEW v \in Workers, HasTask(todo[v], do, Task(w).call)
        PROVE  Mentions(todo[v], Task(w).call)
    <2>1. PICK i \in 1..Len(todo[v]) : todo[v][i].do = do /\ todo[v][i].call = Task(w).call
      BY <1>5, Zenon DEF HasTask
    <2>2. todo[v][i] \in Tasks
      BY DEF IInv, TypeOK
    <2>3. do = "dispatch" \/ do = "finish"
      BY <2>1, <2>2, Zenon DEF Tasks
    <2> QED BY <1>5, <2>3, Zenon DEF Mentions
  <1>6. Task(w).do = "dispatch" => running_func_calls[Task(w).call] = Task(w).node
    <2>1. Len(todo[w]) >= 1 /\ Len(todo[w]) \in Nat /\ Task(w) = todo[w][1]
      BY <1>1 DEF Task
    <2> QED BY <1>1, <2>1 DEF SendsTo
  <1>7. /\ Task(w).do = "dispatch" => Dispatching(Task(w).call)
        /\ Task(w).do = "finish" => Finishing(Task(w).call)
    BY <1>2, Views, Zenon
  <1> QED BY <1>2, <1>3, <1>4, <1>5, <1>6, <1>7, Zenon

\* An IO worker has done its first task.
LEMMA TaskDone ==
    ASSUME IInv, NEW w \in Workers, todo[w] # <<>>,
           todo' = [todo EXCEPT ![w] = Tail(@)],
           running_func_calls' = running_func_calls
    PROVE  /\ \A f : Dispatching(f)' <=>
                Dispatching(f) /\ ~(Task(w).do = "dispatch" /\ f = Task(w).call)
           /\ \A f : Finishing(f)' <=>
                Finishing(f) /\ ~(Task(w).do = "finish" /\ f = Task(w).call)
           /\ todo' \in [Workers -> Seq(Tasks)]
           /\ OneTask'
  <1> DEFINE q == Tail(todo[w])
  <1>1. TypeOK /\ OneTask
    BY Zenon DEF IInv
  <1>2. q \in Seq(Tasks) /\ DistinctCalls(q) /\ todo' = [todo EXCEPT ![w] = q]
    BY FirstTask, Zenon
  <1> HIDE DEF q
  <1>3. \A f : Dispatching(f)' <=>
                Dispatching(f) /\ ~(Task(w).do = "dispatch" /\ f = Task(w).call)
    <2>1. \A f : Dispatching(f)' <=>
                \/ HasTask(q, "dispatch", f)
                \/ \E v \in Workers : v # w /\ HasTask(todo[v], "dispatch", f)
      BY <1>1, <1>2, TodoReplaced, Zenon
    <2>2. \A f : Dispatching(f) <=> \E v \in Workers : HasTask(todo[v], "dispatch", f)
      BY Views, Zenon
    <2>3. /\ ~HasTask(q, "dispatch", Task(w).call)
          /\ \A v \in Workers : v # w => ~HasTask(todo[v], "dispatch", Task(w).call)
          /\ \A f : HasTask(q, "dispatch", f) => HasTask(todo[w], "dispatch", f)
      BY FirstTask, Zenon DEF q
    <2>4. \A f : HasTask(todo[w], "dispatch", f) =>
                HasTask(q, "dispatch", f) \/ ("dispatch" = Task(w).do /\ f = Task(w).call)
      BY FirstTask, Zenon DEF q
    <2>5. \A f : Dispatching(f)' => Dispatching(f) /\ f # Task(w).call
      BY <2>1, <2>2, <2>3, Zenon
    <2>6. \A f : Dispatching(f) /\ ~(Task(w).do = "dispatch" /\ f = Task(w).call) => Dispatching(f)'
      BY <2>1, <2>2, <2>4, Zenon
    <2> QED BY <2>5, <2>6, Zenon
  <1>4. \A f : Finishing(f)' <=>
                Finishing(f) /\ ~(Task(w).do = "finish" /\ f = Task(w).call)
    <2>1. \A f : Finishing(f)' <=>
                \/ HasTask(q, "finish", f)
                \/ \E v \in Workers : v # w /\ HasTask(todo[v], "finish", f)
      BY <1>1, <1>2, TodoReplaced, Zenon
    <2>2. \A f : Finishing(f) <=> \E v \in Workers : HasTask(todo[v], "finish", f)
      BY Views, Zenon
    <2>3. /\ ~HasTask(q, "finish", Task(w).call)
          /\ \A v \in Workers : v # w => ~HasTask(todo[v], "finish", Task(w).call)
          /\ \A f : HasTask(q, "finish", f) => HasTask(todo[w], "finish", f)
      BY FirstTask, Zenon DEF q
    <2>4. \A f : HasTask(todo[w], "finish", f) =>
                HasTask(q, "finish", f) \/ ("finish" = Task(w).do /\ f = Task(w).call)
      BY FirstTask, Zenon DEF q
    <2>5. \A f : Finishing(f)' => Finishing(f) /\ f # Task(w).call
      BY <2>1, <2>2, <2>3, Zenon
    <2>6. \A f : Finishing(f) /\ ~(Task(w).do = "finish" /\ f = Task(w).call) => Finishing(f)'
      BY <2>1, <2>2, <2>4, Zenon
    <2> QED BY <2>5, <2>6, Zenon
  <1>5. SendsTo(q, running_func_calls')
    <2>1. todo[w] \in Seq(Tasks) /\ SendsTo(todo[w], running_func_calls)
      BY Zenon DEF IInv, TypeOK, OneTask
    <2>2. \A i \in 1..Len(q) : i + 1 \in 1..Len(todo[w]) /\ q[i] = todo[w][i + 1]
      BY <2>1, FirstTask, TailIsRest, Zenon DEF q
    <2> QED BY <2>1, <2>2, Zenon DEF SendsTo
  <1>6. \A v \in Workers, f \in Calls : v # w /\ Mentions(q, f) => ~Mentions(todo[v], f)
    <2>1. \A f : Mentions(q, f) => Mentions(todo[w], f)
      BY FirstTask, Zenon DEF Mentions, q
    <2> QED BY <2>1, Zenon DEF IInv, OneTask
  <1>7. OneTask'
    BY <1>1, <1>2, <1>5, <1>6, OneTaskKept, Zenon
  <1> QED BY <1>1, <1>2, <1>3, <1>4, <1>7, TodoReplaced, Zenon

\* PickNextNode picks a connected node and raises its load.
LEMMA PickFacts ==
    ASSUME IInv, NEW n \in Nodes, NEW l, PickNextNode(n, l)
    PROVE  /\ n \in engines
           /\ next_dispatch_node_idx' \in Nat \ {0}
           /\ inflight_requests' = [l EXCEPT ![n] = @ + 1]
  <1>1. PICK i \in 1..Len(connected_nodes) :
            /\ n = connected_nodes[i]
            /\ next_dispatch_node_idx' = IF lb = "round_robin"
                                         THEN (i % Len(connected_nodes)) + 1
                                         ELSE next_dispatch_node_idx
    BY Zenon DEF PickNextNode
  <1>2. Len(connected_nodes) \in Nat /\ Len(connected_nodes) > 0
    BY <1>1 DEF IInv, TypeOK
  <1>3. i % Len(connected_nodes) \in Nat
    BY <1>1, <1>2
  <1>4. next_dispatch_node_idx' \in Nat \ {0}
    BY <1>1, <1>3 DEF IInv, TypeOK
  <1> QED BY <1>1, <1>4, Zenon DEF PickNextNode, IInv, EnginesReady

-----------------------------------------------------------------------------
(***************************************************************************)
(* The invariant holds initially, and the steps of engines and clients     *)
(* preserve it.                                                            *)
(***************************************************************************)

\* The initial state satisfies the invariant.
LEMMA InitIInv == ASSUME FiniteCalls, Init PROVE IInv
  <1>1. TypeOK
    <2>1. connected_nodes \in Seq(Nodes) /\ pending_func_calls \in Seq(Calls)
      BY DEF Init
    <2>2. inflight_requests \in [Nodes -> Nat] /\ next_dispatch_node_idx \in Nat \ {0}
      BY DEF Init
    <2>3. running_func_calls \in [Calls -> Nodes \cup {NoNode}]
      BY Zenon DEF Init
    <2>4. todo \in [Workers -> Seq(Tasks)]
      BY DEF Init
    <2>5. /\ conn_state \in [Conns -> {"none", "running", "closing", "closed"}]
          /\ engine_conn \in
               [Workers \X Nodes -> {"none", "in_transit", "running", "closing", "closed"}]
          /\ fate \in [Calls -> {"new", "accepted", "answered"}]
      BY Zenon DEF Init
    <2>6. <<calm, lb, engines>> \in Deployments
      <3>1. PICK d \in Deployments : calm = d[1] /\ lb = d[2] /\ engines = d[3]
        BY Zenon DEF Init
      <3>2. d \in BOOLEAN \X {"round_robin", "least_load", "random"} \X SUBSET Nodes
        BY <3>1, DeploymentAssumption, Zenon
      <3>3. d = <<d[1], d[2], d[3]>>
        BY <3>2
      <3> QED BY <3>1, <3>3, Zenon
    <2> QED BY <2>1, <2>2, <2>3, <2>4, <2>5, <2>6, Zenon DEF Init, TypeOK
  <1>2. Running = {}
    BY Zenon DEF Init, Running
  <1>3. \A w \in Workers : todo[w] = <<>>
    BY Zenon DEF Init
  <1>4. CallInOnePlace
    BY <1>2, <1>3 DEF Init, CallInOnePlace, Queued, Dispatching, Finishing
  <1>5. \A n \in Nodes : {f \in Calls : running_func_calls[f] = n} = {}
    BY NodeAssumption, Zenon DEF Init
  <1>6. InflightCovered
    <2>1. \A n \in Nodes : inflight_requests[n] = 0
      BY Zenon DEF Init
    <2>2. \A n \in Nodes : Cardinality({f \in Calls : running_func_calls[f] = n}) = 0
      BY <1>5, Zenon DEF FiniteCalls
    <2> QED BY <2>1, <2>2 DEF InflightCovered
  <1>7. OneTask
    BY <1>3 DEF OneTask, DistinctCalls, SendsTo, Mentions, HasTask
  <1>8. EnginesReady
    BY <1>2 DEF Init, EnginesReady
  <1>9. RunningBounded
    <2>1. MaxRunning * 0 = 0 /\ Len(connected_nodes) = 0
      BY LimitAssumption DEF Init
    <2> QED BY <1>2, <2>1 DEF FiniteCalls, RunningBounded, MaxRunningRequests
  <1> QED BY <1>1, <1>4, <1>6, <1>7, <1>8, <1>9, Zenon DEF IInv

\* More connected nodes do not lower the limit.
LEMMA LimitGrows ==
    ASSUME NEW m \in Nat, NEW k \in Nat, m <= k
    PROVE  MaxRunning * m <= MaxRunning * k /\ MaxRunning * m \in Nat
  BY LimitAssumption

\* A step that moves no call.
LEMMA QuietIInv ==
    ASSUME FiniteCalls, IInv, TypeOK', EnginesReady',
           UNCHANGED <<inflight_requests, running_func_calls, pending_func_calls, todo,
                       scheduled, at_engine, fate, calm>>,
           Len(connected_nodes) <= Len(connected_nodes')
    PROVE  IInv'
  <1>1. CallInOnePlace'
    BY CallInOnePlaceSame, Zenon DEF IInv
  <1>2. InflightCovered'
    BY Zenon DEF IInv, InflightCovered
  <1>3. OneTask'
    BY OneTaskSame, Zenon DEF IInv
  <1>4. RunningBounded'
    <2>1. Len(connected_nodes) \in Nat /\ Len(connected_nodes') \in Nat
      BY DEF IInv, TypeOK
    <2>2. /\ MaxRunning * Len(connected_nodes) <= MaxRunning * Len(connected_nodes')
          /\ MaxRunning * Len(connected_nodes) \in Nat
          /\ MaxRunning * Len(connected_nodes') \in Nat
      BY <2>1, LimitGrows
    <2>3. Running' = Running /\ Running \in SUBSET Calls
      BY Zenon DEF Running
    <2>4. Cardinality(Running) \in Nat
      BY <2>3, Zenon DEF FiniteCalls
    <2> QED BY <2>2, <2>3, <2>4 DEF IInv, RunningBounded, MaxRunningRequests
  <1> QED BY <1>1, <1>2, <1>3, <1>4, Zenon DEF IInv

\* OnEngineHandshake: the node is connected, if it was not.
LEMMA OnEngineHandshakeIInv ==
    ASSUME FiniteCalls, IInv, NEW w \in Workers, NEW n \in Nodes, OnEngineHandshake(w, n)
    PROVE  IInv'
  <1>1. /\ connected_nodes \in Seq(Nodes)
        /\ connected_nodes' = connected_nodes \/ connected_nodes' = Append(connected_nodes, n)
        /\ n \in engines
        /\ UNCHANGED <<next_dispatch_node_idx, inflight_requests, running_func_calls,
                       pending_func_calls, discarded_func_calls, todo, scheduled, at_engine,
                       connections, conn_state, open_calls, fate, calm, lb, engines>>
    BY Zenon DEF OnEngineHandshake, IInv, TypeOK, clientVars, settingVars
  <1>2. connected_nodes' \in Seq(Nodes) /\ Len(connected_nodes) <= Len(connected_nodes')
    BY <1>1
  <1>3. \A i \in 1..Len(connected_nodes') : connected_nodes'[i] \in engines
    <2>1. \A i \in 1..Len(connected_nodes) : connected_nodes[i] \in engines
      BY Zenon DEF IInv, EnginesReady
    <2> QED BY <1>1, <2>1
  <1>4. /\ engine_conn' \in
             [Workers \X Nodes -> {"none", "in_transit", "running", "closing", "closed"}]
        /\ \A wn \in Workers \X Nodes : engine_conn[wn] = "running" => engine_conn'[wn] = "running"
    BY Zenon DEF OnEngineHandshake, IInv, TypeOK
  <1>5. TypeOK'
    BY <1>1, <1>2, <1>4, Zenon DEF IInv, TypeOK
  <1>6. EnginesReady'
    <2>1. engines \subseteq Nodes
      BY Views, Zenon
    <2> QED BY <1>1, <1>3, <1>4, <2>1, Zenon DEF IInv, EnginesReady, Running
  <1> QED BY <1>1, <1>2, <1>5, <1>6, QuietIInv, Zenon

\* EngineConnectionSteps: where engines stay, no connection closes.
LEMMA EngineConnectionStepsIInv ==
    ASSUME FiniteCalls, IInv, NEW w \in Workers, NEW n \in Nodes, EngineConnectionSteps(w, n)
    PROVE  IInv'
  <1>1. UNCHANGED <<serverVars, clientVars, todo, scheduled, at_engine, settingVars>>
    BY Zenon DEF EngineConnectionSteps
  <1>2. /\ engine_conn' \in
             [Workers \X Nodes -> {"none", "in_transit", "running", "closing", "closed"}]
        /\ calm => \A wn \in Workers \X Nodes :
                       engine_conn[wn] = "running" => engine_conn'[wn] = "running"
    BY Zenon DEF EngineConnectionSteps, IInv, TypeOK
  <1>3. TypeOK'
    BY <1>1, <1>2, Zenon DEF IInv, TypeOK, serverVars, clientVars, settingVars
  <1>4. EnginesReady'
    <2>1. engines \subseteq Nodes
      BY Views, Zenon
    <2> QED BY <1>1, <1>2, <2>1, Zenon DEF IInv, EnginesReady, Running, serverVars, clientVars,
               settingVars
  <1>5. Len(connected_nodes) <= Len(connected_nodes')
    BY <1>1 DEF IInv, TypeOK, serverVars
  <1> QED BY <1>1, <1>3, <1>4, <1>5, QuietIInv, Zenon DEF serverVars, clientVars, settingVars

\* The steps of the client connections discard calls and move none.
LEMMA ClientStepsIInv ==
    ASSUME FiniteCalls, IInv,
           \/ \E k \in Conns : \/ ConnectionStarts(k) \/ ConnectionEntered(k)
                               \/ ScheduleClose(k) \/ OnConnectionClose(k)
           \/ \E f \in Calls : H2OnStreamClose(f)
    PROVE  IInv'
  <1>1. UNCHANGED <<connected_nodes, next_dispatch_node_idx, inflight_requests,
                    running_func_calls, pending_func_calls, fate, engine_conn, todo,
                    scheduled, at_engine, settingVars>>
    BY Zenon DEF ConnectionStarts, ConnectionEntered, ScheduleClose, OnConnectionClose,
           H2OnStreamClose, serverVars
  <1>2. /\ connections' \subseteq Conns
        /\ discarded_func_calls' \subseteq Calls /\ open_calls' \subseteq Calls
    BY Zenon DEF IInv, TypeOK, ConnectionStarts, ConnectionEntered, ScheduleClose,
           OnConnectionClose, H2OnStreamClose, serverVars, OpenOn
  <1>3. conn_state' \in [Conns -> {"none", "running", "closing", "closed"}]
    <2>1. \/ conn_state' = conn_state
          \/ \E k \in Conns, new \in {"running", "closing", "closed"} :
                conn_state' = [conn_state EXCEPT ![k] = new]
      BY Zenon DEF ConnectionStarts, ConnectionEntered, ScheduleClose, OnConnectionClose,
             H2OnStreamClose
    <2>2. conn_state \in [Conns -> {"none", "running", "closing", "closed"}]
      BY Zenon DEF IInv, TypeOK
    <2> QED BY <2>1, <2>2, Zenon
  <1>4. TypeOK'
    BY <1>1, <1>2, <1>3, Zenon DEF IInv, TypeOK, settingVars
  <1>5. EnginesReady'
    BY <1>1, Zenon DEF IInv, EnginesReady, Running, settingVars
  <1>6. Len(connected_nodes) <= Len(connected_nodes')
    BY <1>1 DEF IInv, TypeOK
  <1> QED BY <1>1, <1>4, <1>5, <1>6, QuietIInv, Zenon DEF settingVars

\* A call that arrives is nowhere yet, and engines are ready for it.
LEMMA ArrivesFacts ==
    ASSUME IInv, NEW f \in Calls, Arrives(f)
    PROVE  /\ ~Queued(f) /\ f \notin Running /\ ~Dispatching(f) /\ ~Finishing(f)
           /\ f \notin scheduled /\ f \notin at_engine
           /\ calm => \A v \in Workers, n \in engines : engine_conn[<<v, n>>] = "running"
           /\ WorkerOf[ConnOf[f]] \in Workers /\ todo[WorkerOf[ConnOf[f]]] = <<>>
  <1>1. fate[f] # "accepted"
    BY Zenon DEF Arrives
  <1>2. ~Queued(f) /\ f \notin Running /\ ~Finishing(f) /\ f \notin scheduled
    BY <1>1, Zenon DEF IInv, CallInOnePlace, Running
  <1>3. ~Dispatching(f) /\ f \notin at_engine
    BY <1>2, Zenon DEF IInv, CallInOnePlace
  <1>4. calm => \A v \in Workers, n \in engines : engine_conn[<<v, n>>] = "running"
    BY Zenon DEF Arrives
  <1>5. WorkerOf[ConnOf[f]] \in Workers /\ todo[WorkerOf[ConnOf[f]]] = <<>>
    BY ConnAssumption, Zenon DEF Arrives
  <1> QED BY <1>2, <1>3, <1>4, <1>5, Zenon

\* OnUnknownFunction answers a call that is nowhere.
LEMMA OnUnknownFunctionIInv ==
    ASSUME IInv, NEW f \in Calls, OnUnknownFunction(f)
    PROVE  IInv'
  <1>1. /\ fate' = [fate EXCEPT ![f] = "answered"]
        /\ UNCHANGED <<serverVars, connections, conn_state, open_calls, engine_conn, todo,
                       scheduled, at_engine, settingVars>>
        /\ Arrives(f)
    BY Zenon DEF OnUnknownFunction
  <1>2. /\ ~Queued(f) /\ f \notin Running /\ ~Finishing(f) /\ f \notin scheduled
        /\ calm => \A v \in Workers, n \in engines : engine_conn[<<v, n>>] = "running"
    BY <1>1, ArrivesFacts, Zenon
  <1>3. fate' \in [Calls -> {"new", "accepted", "answered"}]
        /\ \A g \in Calls : g # f => fate'[g] = fate[g]
    BY <1>1, Zenon DEF IInv, TypeOK
  <1>4. TypeOK'
    BY <1>1, <1>3, Zenon DEF IInv, TypeOK, serverVars, settingVars
  <1>5. CallInOnePlace'
    <2>1. /\ \A g : (Queued(g)' <=> Queued(g)) /\ (Dispatching(g)' <=> Dispatching(g))
                    /\ (Finishing(g)' <=> Finishing(g))
          /\ Running' = Running /\ scheduled' = scheduled /\ at_engine' = at_engine
          /\ pending_func_calls' = pending_func_calls
      BY <1>1, PlacesSame, Zenon DEF serverVars
    <2>2. CallInOnePlace
      BY Zenon DEF IInv
    <2> QED BY <1>2, <1>3, <2>1, <2>2, Zenon DEF CallInOnePlace
  <1>6. InflightCovered'
    <2>1. UNCHANGED <<running_func_calls, inflight_requests, calm>>
      BY <1>1, Zenon DEF serverVars, settingVars
    <2>2. InflightCovered
      BY Zenon DEF IInv
    <2> QED BY <2>1, <2>2, Zenon DEF InflightCovered
  <1>7. OneTask'
    <2>1. UNCHANGED <<todo, running_func_calls>> /\ OneTask
      BY <1>1, Zenon DEF IInv, serverVars
    <2> QED BY <2>1, OneTaskSame, Zenon
  <1>8. EnginesReady'
    BY <1>1, <1>2, Zenon DEF IInv, EnginesReady, Running, serverVars, settingVars
  <1>9. RunningBounded'
    BY <1>1, Zenon DEF IInv, RunningBounded, Running, MaxRunningRequests, serverVars
  <1> QED BY <1>4, <1>5, <1>6, <1>7, <1>8, <1>9, Zenon DEF IInv

-----------------------------------------------------------------------------
(***************************************************************************)
(* The steps that take a new call, send it, finish it and run a scheduled  *)
(* function.                                                               *)
(***************************************************************************)

\* OnNewFuncCall: a new call is finished, waits, or runs.
LEMMA OnNewFuncCallIInv ==
    ASSUME FiniteCalls, IInv, NEW f \in Calls, OnNewFuncCall(f)
    PROVE  IInv'
  <1> DEFINE w == WorkerOf[ConnOf[f]]
  <1>1. /\ Arrives(f)
        /\ fate' = [fate EXCEPT ![f] = "accepted"] /\ open_calls' = open_calls \cup {f}
        /\ UNCHANGED <<connected_nodes, discarded_func_calls, connections, conn_state,
                       engine_conn, scheduled, at_engine, calm, lb, engines>>
    BY Zenon DEF OnNewFuncCall, settingVars
  <1>2. /\ ~Queued(f) /\ f \notin Running /\ ~Dispatching(f) /\ ~Finishing(f)
        /\ f \notin scheduled /\ f \notin at_engine
        /\ calm => \A v \in Workers, n \in engines : engine_conn[<<v, n>>] = "running"
        /\ w \in Workers /\ todo[w] = <<>>
    BY <1>1, ArrivesFacts, Zenon
  <1>3. /\ fate' \in [Calls -> {"new", "accepted", "answered"}]
        /\ fate'[f] = "accepted" /\ \A g \in Calls : g # f => fate'[g] = fate[g]
    BY <1>1, Zenon DEF IInv, TypeOK
  <1>4. TypeOK /\ CallInOnePlace /\ OneTask /\ EnginesReady
    BY Zenon DEF IInv
  <1>5. Finish(f) \in Tasks /\ Finish(f).do = "finish" /\ Finish(f).call = f
    BY Zenon DEF Finish, Tasks
  <1>6. /\ running_func_calls \in Places /\ running_func_calls[f] = NoNode
    BY <1>2, Views, Zenon DEF Running
  <1> HIDE DEF w
  <1>7. CASE /\ todo' = [todo EXCEPT ![w] = <<Finish(f)>>]
             /\ UNCHANGED <<next_dispatch_node_idx, inflight_requests, running_func_calls,
                            pending_func_calls>>
    <2> DEFINE q == <<Finish(f)>>
    <2>1. /\ q \in Seq(Tasks) /\ DistinctCalls(q)
          /\ \A do, g : HasTask(q, do, g) <=> do = "finish" /\ g = f
      BY <1>5, SingleTask, Zenon
    <2>2. SendsTo(q, running_func_calls')
      BY <1>5 DEF SendsTo
    <2> HIDE DEF q
    <2>3. \A g \in Calls : Mentions(q, g) => ~Dispatching(g) /\ ~Finishing(g)
      BY <1>2, <2>1, Zenon DEF Mentions
    <2>4. todo' = [todo EXCEPT ![w] = q]
      BY <1>7, Zenon DEF q
    <2>5. /\ \A g : Dispatching(g)' <=> Dispatching(g) \/ HasTask(q, "dispatch", g)
          /\ \A g : Finishing(g)' <=> Finishing(g) \/ HasTask(q, "finish", g)
          /\ todo' \in [Workers -> Seq(Tasks)]
          /\ OneTask'
      <3>1. \A g \in Calls : Dispatching(g) => running_func_calls'[g] = running_func_calls[g]
        BY <1>7, Zenon
      <3>2. q \in Seq(Tasks) /\ DistinctCalls(q) /\ w \in Workers /\ todo[w] = <<>>
        BY <1>2, <2>1, Zenon
      <3> QED BY <2>2, <2>3, <2>4, <3>1, <3>2, TasksAdded, Zenon
    <2>6. /\ \A g : Dispatching(g)' <=> Dispatching(g)
          /\ \A g : Finishing(g)' <=> Finishing(g) \/ g = f
      BY <2>1, <2>5
    <2>7. Running' = Running /\ \A g : Queued(g)' <=> Queued(g)
      BY <1>7, Zenon DEF Running, Queued
    <2>8. TypeOK'
      BY <1>1, <1>3, <1>4, <1>7, <2>5, Zenon DEF TypeOK
    <2>9. CallInOnePlace'
      <3>1. /\ scheduled' = scheduled /\ at_engine' = at_engine
            /\ pending_func_calls' = pending_func_calls
        BY <1>1, <1>7, Zenon
      <3> QED BY <1>2, <1>3, <1>4, <2>6, <2>7, <3>1 DEF CallInOnePlace
    <2>10. InflightCovered' /\ RunningBounded'
      BY <1>1, <1>7, <2>7, Zenon DEF IInv, InflightCovered, RunningBounded, MaxRunningRequests
    <2>11. EnginesReady'
      BY <1>1, <1>2, <1>4, <1>7, <2>7, Zenon DEF EnginesReady
    <2> QED BY <2>5, <2>8, <2>9, <2>10, <2>11, Zenon DEF IInv
  <1>8. CASE /\ pending_func_calls' = Append(pending_func_calls, f)
             /\ UNCHANGED <<next_dispatch_node_idx, inflight_requests, running_func_calls, todo>>
    <2>1. /\ pending_func_calls' \in Seq(Calls) /\ DistinctQueue(pending_func_calls')
          /\ \A g : InQueue(pending_func_calls', g) => InQueue(pending_func_calls, g) \/ g = f
      BY <1>2, <1>8, Views, QueueJoined, Zenon
    <2>2. \A g : Queued(g)' => Queued(g) \/ g = f
      <3>1. \A g : Queued(g)' <=> InQueue(pending_func_calls', g)
        BY Zenon DEF Queued, InQueue
      <3> QED BY <2>1, <3>1, Views, Zenon
    <2>3. /\ Running' = Running
          /\ \A g : (Dispatching(g)' <=> Dispatching(g)) /\ (Finishing(g)' <=> Finishing(g))
      BY <1>8, Zenon DEF Running, Dispatching, Finishing
    <2>4. TypeOK'
      BY <1>1, <1>3, <1>4, <1>8, <2>1, Zenon DEF TypeOK
    <2>5. CallInOnePlace'
      <3>1. scheduled' = scheduled /\ at_engine' = at_engine /\ CallInOnePlace
        BY <1>1, <1>4, Zenon
      <3> QED BY <1>2, <1>3, <2>1, <2>2, <2>3, <3>1, Zenon DEF CallInOnePlace, DistinctQueue
    <2>6. InflightCovered' /\ RunningBounded'
      BY <1>1, <1>8, <2>3, Zenon DEF IInv, InflightCovered, RunningBounded, MaxRunningRequests
    <2>7. EnginesReady'
      BY <1>1, <1>2, <1>4, <1>8, <2>3, Zenon DEF EnginesReady
    <2>8. OneTask'
      <3>1. UNCHANGED <<todo, running_func_calls>>
        BY <1>8, Zenon
      <3> QED BY <1>4, <3>1, OneTaskSame, Zenon
    <2> QED BY <2>4, <2>5, <2>6, <2>7, <2>8, Zenon DEF IInv
  <1>9. ASSUME HasRoom(Running), NEW n \in Nodes, PickNextNode(n, inflight_requests),
               running_func_calls' = [running_func_calls EXCEPT ![f] = n],
               todo' = [todo EXCEPT ![w] = <<Dispatch(f, n)>>],
               UNCHANGED pending_func_calls
        PROVE  IInv'
    <2> DEFINE q == <<Dispatch(f, n)>>
    <2>1. /\ Dispatch(f, n) \in Tasks /\ Dispatch(f, n).do = "dispatch"
          /\ Dispatch(f, n).call = f /\ Dispatch(f, n).node = n
      BY Zenon DEF Dispatch, Tasks
    <2>2. /\ q \in Seq(Tasks) /\ DistinctCalls(q)
          /\ \A do, g : HasTask(q, do, g) <=> do = "dispatch" /\ g = f
      BY <2>1, SingleTask, Zenon
    <2>3. \A g \in Calls : running_func_calls'[g] = IF g = f THEN n ELSE running_func_calls[g]
      BY <1>6, <1>9, Zenon DEF Places
    <2>4. SendsTo(q, running_func_calls')
      BY <2>1, <2>3 DEF SendsTo
    <2> HIDE DEF q
    <2>5. \A g \in Calls : Mentions(q, g) => ~Dispatching(g) /\ ~Finishing(g)
      BY <1>2, <2>2, Zenon DEF Mentions
    <2>6. todo' = [todo EXCEPT ![w] = q]
      BY <1>9, Zenon DEF q
    <2>7. \A g \in Calls : Dispatching(g) => running_func_calls'[g] = running_func_calls[g]
      BY <1>2, <2>3, Zenon
    <2>8. /\ \A g : Dispatching(g)' <=> Dispatching(g) \/ HasTask(q, "dispatch", g)
          /\ \A g : Finishing(g)' <=> Finishing(g) \/ HasTask(q, "finish", g)
          /\ todo' \in [Workers -> Seq(Tasks)]
          /\ OneTask'
      <3>1. q \in Seq(Tasks) /\ DistinctCalls(q) /\ w \in Workers /\ todo[w] = <<>>
        BY <1>2, <2>2, Zenon
      <3> QED BY <2>4, <2>5, <2>6, <2>7, <3>1, TasksAdded, Zenon
    <2>9. /\ \A g : Dispatching(g)' <=> Dispatching(g) \/ g = f
          /\ \A g : Finishing(g)' <=> Finishing(g)
      BY <2>2, <2>8
    <2>10. /\ n \in engines /\ next_dispatch_node_idx' \in Nat \ {0}
           /\ inflight_requests' = [inflight_requests EXCEPT ![n] = @ + 1]
      BY <1>9, PickFacts, Zenon
    <2>11. /\ running_func_calls' \in Places /\ inflight_requests' \in Loads
           /\ Covers(running_func_calls', inflight_requests', calm)
           /\ Runs(running_func_calls') = Runs(running_func_calls) \cup {f}
           /\ Cardinality(Runs(running_func_calls')) = Cardinality(Runs(running_func_calls)) + 1
      <3>1. /\ inflight_requests \in Loads
            /\ Covers(running_func_calls, inflight_requests, calm)
        BY Views, Zenon
      <3> DEFINE r == [running_func_calls EXCEPT ![f] = n]
                 l == [inflight_requests EXCEPT ![n] = @ + 1]
      <3>2. /\ r \in Places /\ l \in Loads /\ Covers(r, l, calm)
            /\ Runs(r) = Runs(running_func_calls) \cup {f}
            /\ Cardinality(Runs(r)) = Cardinality(Runs(running_func_calls)) + 1
        <4>1. r \in Places /\ \A g \in Calls : r[g] = IF g = f THEN n ELSE running_func_calls[g]
          BY <1>6, Zenon DEF Places
        <4>2. l \in Loads /\ \A k \in Nodes : l[k] = IF k = n THEN inflight_requests[k] + 1
                                                          ELSE inflight_requests[k]
          BY <3>1 DEF Loads
        <4> HIDE DEF r, l
        <4> QED BY <1>6, <3>1, <4>1, <4>2, Assigned
      <3>3. running_func_calls' = r /\ inflight_requests' = l
        BY <1>9, <2>10, Zenon
      <3> HIDE DEF r, l
      <3> QED BY <3>2, <3>3, Zenon
    <2>12. Running' = Running \cup {f} /\ Running = Runs(running_func_calls)
      BY <2>11, Views, Zenon DEF Running, Runs
    <2>13. \A g : Queued(g)' <=> Queued(g)
      BY <1>9, Zenon DEF Queued
    <2>14. TypeOK'
      <3>1. /\ running_func_calls' \in [Calls -> Nodes \cup {NoNode}]
            /\ inflight_requests' \in [Nodes -> Nat]
        BY <2>11, Zenon DEF Places, Loads
      <3>2. todo' \in [Workers -> Seq(Tasks)]
        BY <2>8, Zenon
      <3>3. next_dispatch_node_idx' \in Nat \ {0} /\ pending_func_calls' = pending_func_calls
        BY <1>9, <2>10, Zenon
      <3> QED BY <1>1, <1>3, <1>4, <3>1, <3>2, <3>3 DEF TypeOK
    <2>15. CallInOnePlace'
      <3>1. /\ scheduled' = scheduled /\ at_engine' = at_engine
            /\ pending_func_calls' = pending_func_calls
        BY <1>1, <1>9, Zenon
      <3>2. /\ ~Queued(f) /\ ~Finishing(f) /\ f \notin scheduled /\ f \notin at_engine
            /\ CallInOnePlace
        BY <1>2, <1>4, Zenon
      <3>3. /\ Running' = Running \cup {f}
            /\ \A g : (Finishing(g)' <=> Finishing(g)) /\ (Queued(g)' <=> Queued(g))
        BY <2>9, <2>12, <2>13, Zenon
      <3> QED BY <1>3, <2>9, <3>1, <3>2, <3>3 DEF CallInOnePlace
    <2>16. MaxRunning > 0 =>
             Cardinality(Runs(running_func_calls')) <= MaxRunning * Len(connected_nodes')
      <3>1. Cardinality(Running) \in Nat /\ Len(connected_nodes) \in Nat
        BY <1>4 DEF FiniteCalls, Running, TypeOK
      <3>2. MaxRunning * Len(connected_nodes) \in Nat
        BY <3>1, LimitGrows
      <3>3. MaxRunning > 0 => Cardinality(Running) < MaxRunning * Len(connected_nodes)
        BY <1>9 DEF HasRoom, MaxRunningRequests
      <3> QED BY <1>1, <2>11, <2>12, <3>1, <3>2, <3>3
    <2>17. InflightCovered' /\ RunningBounded'
      BY <1>1, <2>11, <2>16, ViewsBack, Zenon
    <2>18. EnginesReady'
      BY <1>1, <1>2, <1>4, <2>3, <2>10, <2>12, Zenon DEF EnginesReady, Running
    <2> QED BY <2>8, <2>14, <2>15, <2>17, <2>18, Zenon DEF IInv
  <1> QED BY <1>7, <1>8, <1>9, Zenon DEF OnNewFuncCall, w

\* DispatchSent: a call that runs goes to the engine, or is lost on the way.
LEMMA DispatchSentIInv ==
    ASSUME IInv, NEW w \in Workers, DispatchSent(w)
    PROVE  IInv'
  <1> DEFINE c == Task(w).call
  <1>1. /\ todo[w] # <<>> /\ Task(w).do = "dispatch"
        /\ todo' = [todo EXCEPT ![w] = Tail(@)]
        /\ at_engine' = at_engine \cup {c} \/ at_engine' = at_engine
        /\ UNCHANGED <<serverVars, clientVars, engine_conn, scheduled, settingVars>>
    BY Zenon DEF DispatchSent
  <1>2. c \in Calls /\ Dispatching(c)
    BY <1>1, FirstTask, Zenon
  <1>3. running_func_calls' = running_func_calls
    BY <1>1, Zenon DEF serverVars
  <1>4. /\ \A f : Dispatching(f)' <=> Dispatching(f) /\ ~(Task(w).do = "dispatch" /\ f = c)
        /\ \A f : Finishing(f)' <=> Finishing(f) /\ ~(Task(w).do = "finish" /\ f = c)
        /\ todo' \in [Workers -> Seq(Tasks)]
        /\ OneTask'
    BY <1>1, <1>3, TaskDone, Zenon
  <1>5. /\ \A f : Dispatching(f)' <=> Dispatching(f) /\ f # c
        /\ \A f : Finishing(f)' <=> Finishing(f)
    BY <1>1, <1>4, Zenon
  <1> HIDE DEF c
  <1>6. /\ Running' = Running /\ pending_func_calls' = pending_func_calls
        /\ scheduled' = scheduled /\ fate' = fate
        /\ \A f : Queued(f)' <=> Queued(f)
    BY <1>1, Zenon DEF Running, Queued, serverVars, clientVars
  <1>7. TypeOK'
    BY <1>1, <1>2, <1>4, Zenon DEF IInv, TypeOK, serverVars, clientVars, settingVars
  <1>8. CallInOnePlace'
    <2>1. CallInOnePlace /\ (at_engine' = at_engine \cup {c} \/ at_engine' = at_engine)
      BY <1>1, Zenon DEF IInv
    <2> QED BY <1>2, <1>5, <1>6, <2>1, Zenon DEF CallInOnePlace
  <1>9. InflightCovered' /\ RunningBounded'
    <2>1. /\ connected_nodes' = connected_nodes /\ inflight_requests' = inflight_requests
          /\ calm' = calm
      BY <1>1, Zenon DEF serverVars, settingVars
    <2> QED BY <1>3, <1>6, <2>1, Zenon
               DEF IInv, InflightCovered, RunningBounded, MaxRunningRequests
  <1>10. EnginesReady'
    BY <1>1, <1>6, Zenon DEF IInv, EnginesReady, serverVars, settingVars
  <1> QED BY <1>4, <1>7, <1>8, <1>9, <1>10, Zenon DEF IInv

\* A call that is delivered is open no more, and answered at most.
LEMMA DeliveredFacts ==
    ASSUME IInv, NEW f \in Calls, Delivered(f)
    PROVE  /\ fate' \in [Calls -> {"new", "accepted", "answered"}]
           /\ \A g \in Calls : g # f => fate'[g] = fate[g]
           /\ \A g \in Calls : fate'[g] # "new" => fate[g] # "new" \/ g = f
           /\ open_calls' \subseteq Calls
  BY Zenon DEF Delivered, IInv, TypeOK

\* FinishFuncCall: the answer is delivered, or goes to the connection's worker.
LEMMA FinishFuncCallIInv ==
    ASSUME IInv, NEW w \in Workers, FinishFuncCall(w)
    PROVE  IInv'
  <1> DEFINE c == Task(w).call
  <1>1. /\ todo[w] # <<>> /\ Task(w).do = "finish"
        /\ todo' = [todo EXCEPT ![w] = Tail(@)]
        /\ \/ Delivered(c) /\ UNCHANGED scheduled
           \/ scheduled' = scheduled \cup {c} /\ UNCHANGED <<fate, open_calls>>
        /\ UNCHANGED <<serverVars, connections, conn_state, engine_conn, at_engine, settingVars>>
    BY Zenon DEF FinishFuncCall
  <1>2. c \in Calls /\ Finishing(c)
    BY <1>1, FirstTask, Zenon
  <1>3. running_func_calls' = running_func_calls
    BY <1>1, Zenon DEF serverVars
  <1>4. /\ \A f : Dispatching(f)' <=> Dispatching(f) /\ ~(Task(w).do = "dispatch" /\ f = c)
        /\ \A f : Finishing(f)' <=> Finishing(f) /\ ~(Task(w).do = "finish" /\ f = c)
        /\ todo' \in [Workers -> Seq(Tasks)]
        /\ OneTask'
    BY <1>1, <1>3, TaskDone, Zenon
  <1>5. /\ \A f : Dispatching(f)' <=> Dispatching(f)
        /\ \A f : Finishing(f)' <=> Finishing(f) /\ f # c
    BY <1>1, <1>4, Zenon
  <1> HIDE DEF c
  <1>6. /\ Running' = Running /\ pending_func_calls' = pending_func_calls
        /\ at_engine' = at_engine
        /\ \A f : Queued(f)' <=> Queued(f)
    BY <1>1, Zenon DEF Running, Queued, serverVars
  <1>7. fate[c] = "accepted" /\ ~Queued(c) /\ c \notin Running /\ c \notin scheduled
    BY <1>2, Zenon DEF IInv, CallInOnePlace
  <1>8. /\ fate' \in [Calls -> {"new", "accepted", "answered"}]
        /\ \A g \in Calls : g # c => fate'[g] = fate[g]
        /\ open_calls' \subseteq Calls /\ scheduled' \subseteq Calls
        /\ scheduled' = scheduled \/ (scheduled' = scheduled \cup {c} /\ fate' = fate)
    BY <1>1, <1>2, DeliveredFacts, Zenon DEF IInv, TypeOK
  <1>9. TypeOK'
    BY <1>1, <1>4, <1>8, Zenon DEF IInv, TypeOK, serverVars, settingVars
  <1>10. CallInOnePlace'
    <2>1. CallInOnePlace
      BY Zenon DEF IInv
    <2>2. \A f \in Calls : f \in scheduled' => f \in scheduled \/ (f = c /\ fate' = fate)
      BY <1>8, Zenon
    <2>3. \A f \in Calls : Queued(f)' \/ f \in Running' \/ Finishing(f)' \/ f \in scheduled'
            => fate'[f] = "accepted"
      <3> SUFFICES ASSUME NEW f \in Calls,
                          Queued(f)' \/ f \in Running' \/ Finishing(f)' \/ f \in scheduled'
                   PROVE  fate'[f] = "accepted"
        BY Zenon
      <3>1. CASE f = c
        BY <1>5, <1>6, <1>7, <2>2, <3>1, Zenon
      <3>2. CASE f # c
        BY <1>5, <1>6, <1>8, <2>1, <2>2, <3>2, Zenon DEF CallInOnePlace
      <3> QED BY <3>1, <3>2, Zenon
    <2>4. /\ \A f \in Running' : ~Queued(f)' /\ ~Finishing(f)' /\ f \notin scheduled'
          /\ \A f \in Calls : Queued(f)' => ~Finishing(f)' /\ f \notin scheduled'
      <3>1. Running \in SUBSET Calls
        BY Zenon DEF Running
      <3>2. ASSUME NEW f \in Running' PROVE ~Queued(f)' /\ ~Finishing(f)' /\ f \notin scheduled'
        BY <1>5, <1>6, <1>7, <2>1, <2>2, <3>1, Zenon DEF CallInOnePlace
      <3>3. ASSUME NEW f \in Calls, Queued(f)' PROVE ~Finishing(f)' /\ f \notin scheduled'
        BY <1>5, <1>6, <1>7, <2>1, <2>2, <3>3, Zenon DEF CallInOnePlace
      <3> QED BY <3>2, <3>3, Zenon
    <2>5. /\ \A f \in Calls : Dispatching(f)' \/ f \in at_engine' => f \in Running'
          /\ \A f \in at_engine' : ~Dispatching(f)'
      BY <1>5, <1>6, <2>1, Zenon DEF CallInOnePlace
    <2>6. \A f \in Calls : ~(Finishing(f)' /\ f \in scheduled')
      BY <1>5, <2>1, <2>2, Zenon DEF CallInOnePlace
    <2>7. \A i, j \in 1..Len(pending_func_calls') :
             i # j => pending_func_calls'[i] # pending_func_calls'[j]
      BY <1>6, <2>1, Zenon DEF CallInOnePlace
    <2> QED BY <2>3, <2>4, <2>5, <2>6, <2>7, Zenon DEF CallInOnePlace
  <1>11. InflightCovered' /\ RunningBounded'
    BY <1>1, <1>6, Zenon
       DEF IInv, InflightCovered, RunningBounded, MaxRunningRequests, serverVars,
       settingVars
  <1>12. EnginesReady'
    BY <1>1, <1>2, <1>6, <1>7, Zenon DEF IInv, EnginesReady, serverVars, settingVars
  <1> QED BY <1>4, <1>9, <1>10, <1>11, <1>12, Zenon DEF IInv

\* RunScheduledFunction delivers an answer on the connection's worker.
LEMMA RunScheduledFunctionIInv ==
    ASSUME IInv, NEW c \in Calls, RunScheduledFunction(c)
    PROVE  IInv'
  <1>1. /\ c \in scheduled /\ scheduled' = scheduled \ {c} /\ Delivered(c)
        /\ UNCHANGED <<serverVars, connections, conn_state, engine_conn, todo, at_engine,
                       settingVars>>
    BY Zenon DEF RunScheduledFunction
  <1>2. fate[c] = "accepted" /\ ~Queued(c) /\ c \notin Running /\ ~Finishing(c)
    BY <1>1, Zenon DEF IInv, CallInOnePlace
  <1>3. /\ fate' \in [Calls -> {"new", "accepted", "answered"}]
        /\ \A g \in Calls : g # c => fate'[g] = fate[g]
        /\ open_calls' \subseteq Calls
    BY <1>1, DeliveredFacts, Zenon
  <1>4. /\ Running' = Running /\ pending_func_calls' = pending_func_calls
        /\ at_engine' = at_engine
        /\ \A f : Queued(f)' <=> Queued(f)
        /\ \A f : (Dispatching(f)' <=> Dispatching(f)) /\ (Finishing(f)' <=> Finishing(f))
    BY <1>1, PlacesSame, Zenon DEF serverVars
  <1>5. TypeOK'
    BY <1>1, <1>3, Zenon DEF IInv, TypeOK, serverVars, settingVars
  <1>6. CallInOnePlace'
    <2>1. CallInOnePlace /\ scheduled' = scheduled \ {c}
      BY <1>1, Zenon DEF IInv
    <2> QED BY <1>2, <1>3, <1>4, <2>1, Zenon DEF CallInOnePlace
  <1>7. InflightCovered' /\ RunningBounded'
    BY <1>1, <1>4, Zenon
       DEF IInv, InflightCovered, RunningBounded, MaxRunningRequests, serverVars,
       settingVars
  <1>8. EnginesReady'
    BY <1>1, <1>2, <1>4, Zenon DEF IInv, EnginesReady, serverVars, settingVars
  <1>9. OneTask'
    <2>1. UNCHANGED <<todo, running_func_calls>> /\ OneTask
      BY <1>1, Zenon DEF IInv, serverVars
    <2> QED BY <2>1, OneTaskSame, Zenon
  <1> QED BY <1>5, <1>6, <1>7, <1>8, <1>9, Zenon DEF IInv

\* DispatchUnconnected: a call that runs is finished instead. Where engines stay,
\* this does not happen, so that the loads remain exact there.
LEMMA DispatchUnconnectedIInv ==
    ASSUME FiniteCalls, IInv, NEW w \in Workers, DispatchUnconnected(w)
    PROVE  IInv'
  <1> DEFINE c == Task(w).call
             q == <<Finish(c)>> \o Tail(todo[w])
  <1>1. /\ todo[w] # <<>> /\ Task(w).do = "dispatch"
        /\ engine_conn[<<w, Task(w).node>>] # "running"
        /\ running_func_calls' = [running_func_calls EXCEPT ![c] = NoNode]
        /\ todo' = [todo EXCEPT ![w] = q]
        /\ UNCHANGED <<connected_nodes, next_dispatch_node_idx, inflight_requests,
                       pending_func_calls, discarded_func_calls, clientVars, engine_conn,
                       scheduled, at_engine, settingVars>>
    BY Zenon DEF DispatchUnconnected
  <1>2. /\ c \in Calls /\ Dispatching(c) /\ running_func_calls[c] = Task(w).node
        /\ Tail(todo[w]) \in Seq(Tasks) /\ DistinctCalls(Tail(todo[w]))
        /\ \A do : ~HasTask(Tail(todo[w]), do, c)
        /\ \A do, v : v \in Workers /\ v # w => ~HasTask(todo[v], do, c)
        /\ \A do, f : HasTask(Tail(todo[w]), do, f) => HasTask(todo[w], do, f)
        /\ \A do, f : HasTask(todo[w], do, f) =>
             HasTask(Tail(todo[w]), do, f) \/ (do = Task(w).do /\ f = c)
    BY <1>1, FirstTask, Zenon
  <1>3. Finish(c) \in Tasks /\ Finish(c).do = "finish" /\ Finish(c).call = c
    BY <1>2, Zenon DEF Finish, Tasks
  <1>4. /\ q \in Seq(Tasks) /\ DistinctCalls(q)
        /\ \A do, f : HasTask(q, do, f) <=>
             HasTask(Tail(todo[w]), do, f) \/ (do = "finish" /\ f = c)
    <2>1. /\ Tail(todo[w]) \in Seq(Tasks) /\ DistinctCalls(Tail(todo[w]))
          /\ ~Mentions(Tail(todo[w]), Finish(c).call)
      BY <1>2, <1>3, Zenon DEF Mentions
    <2> QED BY <1>3, <2>1, TaskPutFirst, Zenon
  <1> HIDE DEF c, q
  <1>5. TypeOK /\ CallInOnePlace /\ OneTask /\ EnginesReady
    BY Zenon DEF IInv
  <1>6. /\ connected_nodes' = connected_nodes
        /\ next_dispatch_node_idx' = next_dispatch_node_idx
        /\ inflight_requests' = inflight_requests
        /\ pending_func_calls' = pending_func_calls
        /\ discarded_func_calls' = discarded_func_calls
        /\ connections' = connections /\ conn_state' = conn_state
        /\ open_calls' = open_calls /\ fate' = fate
        /\ engine_conn' = engine_conn /\ scheduled' = scheduled /\ at_engine' = at_engine
        /\ calm' = calm /\ lb' = lb /\ engines' = engines
    BY <1>1, Zenon DEF clientVars, settingVars
  <1>7. /\ ~HasTask(Tail(todo[w]), "dispatch", c)
        /\ \A v \in Workers : v # w => ~HasTask(todo[v], "dispatch", c)
    BY <1>2, Zenon
  <1>8. HasTask(todo[w], "dispatch", c)
    <2>1. \E v \in Workers : HasTask(todo[v], "dispatch", c)
      BY <1>2, Views, Zenon
    <2> QED BY <1>7, <2>1, Zenon
  <1>9. /\ c \in Running /\ fate[c] = "accepted" /\ ~Queued(c) /\ c \notin scheduled
        /\ ~Finishing(c) /\ c \notin at_engine
    BY <1>2, <1>5, Zenon DEF CallInOnePlace
  <1>10. Task(w).node \in Nodes /\ Task(w).node \in engines
    BY <1>2, <1>5, <1>9, Zenon DEF EnginesReady, Running, TypeOK
  <1>11. ~calm
    BY <1>1, <1>2, <1>5, <1>9, <1>10, Zenon DEF EnginesReady
  <1>12. /\ \A f : Dispatching(f)' <=> Dispatching(f) /\ f # c
         /\ \A f : Finishing(f)' <=> Finishing(f) \/ f = c
         /\ todo' \in [Workers -> Seq(Tasks)]
    <2>1. /\ \A f : Dispatching(f)' <=>
                \/ HasTask(q, "dispatch", f)
                \/ \E v \in Workers : v # w /\ HasTask(todo[v], "dispatch", f)
          /\ \A f : Finishing(f)' <=>
                \/ HasTask(q, "finish", f)
                \/ \E v \in Workers : v # w /\ HasTask(todo[v], "finish", f)
          /\ todo' \in [Workers -> Seq(Tasks)]
      BY <1>1, <1>4, <1>5, TodoReplaced, Zenon
    <2>2. /\ \A f : Dispatching(f) <=> \E v \in Workers : HasTask(todo[v], "dispatch", f)
          /\ \A f : Finishing(f) <=> \E v \in Workers : HasTask(todo[v], "finish", f)
      BY Views, Zenon
    <2>3. \A f : HasTask(q, "dispatch", f) <=> HasTask(todo[w], "dispatch", f) /\ f # c
      BY <1>2, <1>4
    <2>4. \A f : HasTask(q, "finish", f) <=> HasTask(todo[w], "finish", f) \/ f = c
      BY <1>1, <1>2, <1>4, Zenon
    <2>5. \A f : Dispatching(f)' <=> Dispatching(f) /\ f # c
      BY <1>7, <2>1, <2>2, <2>3, Zenon
    <2>6. \A f : Finishing(f)' <=> Finishing(f) \/ f = c
      BY <2>1, <2>2, <2>4, Zenon
    <2> QED BY <2>1, <2>5, <2>6, Zenon
  <1>13. /\ running_func_calls \in Places /\ running_func_calls' \in Places
         /\ \A f \in Calls : running_func_calls'[f] =
                              IF f = c THEN NoNode ELSE running_func_calls[f]
    BY <1>1, <1>2, Views, Zenon DEF Places
  <1>14. OneTask'
    <2>1. SendsTo(q, running_func_calls')
      <3>1. SendsTo(Tail(todo[w]), running_func_calls)
        <4>1. todo[w] \in Seq(Tasks) /\ SendsTo(todo[w], running_func_calls)
          BY <1>5, Zenon DEF TypeOK, OneTask
        <4>2. \A i \in 1..Len(Tail(todo[w])) :
                 i + 1 \in 1..Len(todo[w]) /\ Tail(todo[w])[i] = todo[w][i + 1]
          BY <1>1, <4>1, TailIsRest, Zenon
        <4> QED BY <4>1, <4>2, Zenon DEF SendsTo
      <3>2. SendsTo(Tail(todo[w]), running_func_calls')
        <4>1. \A f \in Calls : HasTask(Tail(todo[w]), "dispatch", f) =>
                 running_func_calls'[f] = running_func_calls[f]
          BY <1>7, <1>13, Zenon
        <4> QED BY <1>2, <3>1, <4>1, SendsToSame, Zenon
      <3>3. \A i \in 1..Len(q) : q[i] = Finish(c) \/
               (i - 1 \in 1..Len(Tail(todo[w])) /\ q[i] = Tail(todo[w])[i - 1])
        BY <1>2, <1>3 DEF q
      <3> QED BY <1>3, <3>2, <3>3, Zenon DEF SendsTo
    <2>2. \A v \in Workers, f \in Calls : v # w /\ Mentions(q, f) => ~Mentions(todo[v], f)
      <3>1. \A f \in Calls : Mentions(q, f) => Mentions(todo[w], f)
        BY <1>2, <1>4, <1>8, Zenon DEF Mentions
      <3> QED BY <1>5, <3>1, Zenon DEF OneTask
    <2>3. \A v \in Workers, f \in Calls : v # w /\ HasTask(todo[v], "dispatch", f) =>
              running_func_calls'[f] = running_func_calls[f]
      BY <1>7, <1>13, Zenon
    <2> QED BY <1>1, <1>4, <1>5, <2>1, <2>2, <2>3, OneTaskKept, Zenon
  <1>15. /\ Above(running_func_calls', inflight_requests)
         /\ Runs(running_func_calls') = Runs(running_func_calls) \ {c}
         /\ Cardinality(Runs(running_func_calls')) = Cardinality(Runs(running_func_calls)) - 1
    <2> DEFINE n == Task(w).node
               l2 == [k \in Nodes |-> IF k = n THEN inflight_requests[k] - 1
                                     ELSE inflight_requests[k]]
    <2>1. \A k \in Nodes : l2[k] = IF k = n THEN inflight_requests[k] - 1
                                   ELSE inflight_requests[k]
      BY Zenon
    <2>2. c \in Calls /\ n \in Nodes /\ running_func_calls[c] = n
      BY <1>2, <1>10, Zenon
    <2> HIDE DEF l2, n
    <2>3. /\ running_func_calls \in Places /\ inflight_requests \in Loads
          /\ Covers(running_func_calls, inflight_requests, calm)
      BY Views, Zenon
    <2>4. Stops(running_func_calls, running_func_calls', inflight_requests, l2, calm, c, n)
      BY <1>13, <2>1, <2>2, <2>3, Zenon DEF Stops
    <2>5. /\ Covers(running_func_calls', l2, calm)
          /\ Above(running_func_calls', inflight_requests)
          /\ Runs(running_func_calls') = Runs(running_func_calls) \ {c}
          /\ Cardinality(Runs(running_func_calls')) = Cardinality(Runs(running_func_calls)) - 1
      BY <2>4, Released
    <2> QED BY <2>5, Zenon
  <1>16. Running' = Running \ {c} /\ Running = Runs(running_func_calls)
    BY <1>15, Views, Zenon DEF Running, Runs
  <1>17. TypeOK'
    <2>1. running_func_calls' \in [Calls -> Nodes \cup {NoNode}]
      BY <1>13, Zenon DEF Places
    <2>2. todo' \in [Workers -> Seq(Tasks)]
      BY <1>12, Zenon
    <2> QED BY <1>5, <1>6, <2>1, <2>2, Zenon DEF TypeOK
  <1>18. CallInOnePlace'
    <2>1. \A f : Queued(f)' <=> Queued(f)
      BY <1>6, Zenon DEF Queued
    <2>2. c \in Calls /\ Dispatching(c)
      BY <1>2, Zenon
    <2> QED BY <1>5, <1>9, <1>12, <1>16, <1>6, <2>1, <2>2, Zenon DEF CallInOnePlace
  <1>19. InflightCovered' /\ RunningBounded'
    <2>1. /\ calm' = calm /\ inflight_requests' = inflight_requests
          /\ connected_nodes' = connected_nodes
      BY <1>6, Zenon
    <2>2. Covers(running_func_calls', inflight_requests', calm')
      BY <1>11, <1>15, <2>1, Zenon DEF Covers, Above
    <2>3. Cardinality(Running) \in Nat /\ Len(connected_nodes) \in Nat
      BY <1>5 DEF FiniteCalls, Running, TypeOK
    <2>4. MaxRunning * Len(connected_nodes) \in Nat
      BY <2>3, LimitGrows
    <2>5. MaxRunning > 0 => Cardinality(Running) <= MaxRunning * Len(connected_nodes)
      BY Zenon DEF IInv, RunningBounded, MaxRunningRequests
    <2>6. MaxRunning > 0 =>
             Cardinality(Runs(running_func_calls')) <= MaxRunning * Len(connected_nodes')
      BY <1>15, <1>16, <2>1, <2>3, <2>4, <2>5
    <2> QED BY <2>2, <2>6, ViewsBack, Zenon
  <1>20. EnginesReady'
    BY <1>5, <1>11, <1>13, <1>16, <1>6, Zenon DEF EnginesReady, Running
  <1> QED BY <1>14, <1>17, <1>18, <1>19, <1>20, Zenon DEF IInv

-----------------------------------------------------------------------------
(***************************************************************************)
(* The answer of an engine, which frees a place and dispatches pending     *)
(* calls.                                                                  *)
(***************************************************************************)

\* The tasks that OnRecvEngineMessage leaves: the answer to f, if somebody waits
\* for it, and the dispatch of g, if a pending call is taken.
LEMMA AnswerTasks ==
    ASSUME NEW f \in Calls, NEW a, a = <<>> \/ a = <<Finish(f)>>
    PROVE  /\ a \in Seq(Tasks) /\ DistinctCalls(a)
           /\ \A do, h : HasTask(a, do, h) => do = "finish" /\ h = f
           /\ \A r : SendsTo(a, r)
  <1>1. Finish(f) \in Tasks /\ Finish(f).do = "finish" /\ Finish(f).call = f
    BY Zenon DEF Finish, Tasks
  <1>2. CASE a = <<>>
    BY <1>2 DEF DistinctCalls, HasTask, SendsTo
  <1>3. CASE a = <<Finish(f)>>
    <2>1. /\ a \in Seq(Tasks) /\ DistinctCalls(a)
          /\ \A do, h : HasTask(a, do, h) => do = "finish" /\ h = f
      BY <1>1, <1>3, SingleTask, Zenon
    <2>2. \A r : SendsTo(a, r)
      BY <1>1, <1>3 DEF SendsTo
    <2> QED BY <2>1, <2>2, Zenon
  <1> QED BY <1>2, <1>3, Zenon

\* The same with a dispatch behind the answer.
LEMMA AnswerAndDispatch ==
    ASSUME NEW f \in Calls, NEW a, a = <<>> \/ a = <<Finish(f)>>,
           NEW g \in Calls, g # f, NEW m \in Nodes, NEW r, r[g] = m
    PROVE  /\ Append(a, Dispatch(g, m)) \in Seq(Tasks)
           /\ DistinctCalls(Append(a, Dispatch(g, m)))
           /\ \A h : HasTask(Append(a, Dispatch(g, m)), "finish", h) => h = f
           /\ \A h : HasTask(Append(a, Dispatch(g, m)), "dispatch", h) <=> h = g
           /\ SendsTo(Append(a, Dispatch(g, m)), r)
  <1> DEFINE t == Dispatch(g, m)
             q == Append(a, t)
  <1>1. t \in Tasks /\ t.do = "dispatch" /\ t.call = g /\ t.node = m
    BY Zenon DEF Dispatch, Tasks
  <1>2. /\ a \in Seq(Tasks) /\ DistinctCalls(a) /\ SendsTo(a, r)
        /\ \A do, h : HasTask(a, do, h) => do = "finish" /\ h = f
    BY AnswerTasks, Zenon
  <1> HIDE DEF t
  <1>3. ~Mentions(a, t.call)
    BY <1>1, <1>2, Zenon DEF Mentions
  <1>4. /\ q \in Seq(Tasks) /\ DistinctCalls(q) /\ SendsTo(q, r)
        /\ \A do, h : HasTask(q, do, h) <=> HasTask(a, do, h) \/ (do = t.do /\ h = t.call)
    BY <1>1, <1>2, <1>3, TaskPutLast, Zenon
  <1> HIDE DEF q
  <1>5. \A h : HasTask(q, "finish", h) => h = f
    BY <1>1, <1>2, <1>4, Zenon
  <1>6. \A h : HasTask(q, "dispatch", h) <=> h = g
    BY <1>1, <1>2, <1>4, Zenon
  <1> QED BY <1>4, <1>5, <1>6, Zenon DEF q, t

\* OnRecvEngineMessage: the answered call stops running, and the first pending
\* call that somebody waits for may start.
LEMMA OnRecvEngineMessageIInv ==
    ASSUME FiniteCalls, IInv, NEW w \in Workers, NEW n \in Nodes, NEW f \in Calls,
           OnRecvEngineMessage(w, n, f)
    PROVE  IInv'
  <1> DEFINE answer == IF Abandoned(f) THEN <<>> ELSE <<Finish(f)>>
             rest == [running_func_calls EXCEPT ![f] = NoNode]
             inflight == [inflight_requests EXCEPT ![n] = @ - 1]
             p == pending_func_calls
  <1>1. /\ todo[w] = <<>> /\ f \in at_engine /\ running_func_calls[f] = n
        /\ at_engine' = at_engine \ {f}
        /\ UNCHANGED <<connected_nodes, clientVars, engine_conn, scheduled, settingVars>>
    BY Zenon DEF OnRecvEngineMessage
  <1>2. TypeOK /\ CallInOnePlace /\ OneTask /\ EnginesReady
    BY Zenon DEF IInv
  <1>3. /\ f \in Running /\ ~Dispatching(f) /\ ~Finishing(f) /\ ~Queued(f)
        /\ f \notin scheduled /\ fate[f] = "accepted"
    BY <1>1, <1>2, Zenon DEF CallInOnePlace
  <1>4. /\ answer = <<>> \/ answer = <<Finish(f)>>
    BY Zenon
  <1>5. /\ running_func_calls \in Places /\ inflight_requests \in Loads
        /\ Covers(running_func_calls, inflight_requests, calm)
        /\ Running = Runs(running_func_calls)
        /\ p \in Seq(Calls) /\ DistinctQueue(p)
        /\ \A g : Queued(g) <=> InQueue(p, g)
    BY Views, Zenon
  <1>6. /\ rest \in Places
        /\ \A g \in Calls : rest[g] = IF g = f THEN NoNode ELSE running_func_calls[g]
    BY <1>5, Zenon DEF Places
  <1>7. \A k \in Nodes : inflight[k] = IF k = n THEN inflight_requests[k] - 1
                                       ELSE inflight_requests[k]
    BY <1>5, Zenon DEF Loads
  <1>8. inflight_requests[n] - 1 \in Nat => inflight \in Loads
    BY <1>5, Zenon DEF Loads
  <1> HIDE DEF rest, inflight, answer, p
  <1>9. /\ inflight \in Loads /\ Covers(rest, inflight, calm)
        /\ Runs(rest) = Runs(running_func_calls) \ {f}
        /\ Cardinality(Runs(rest)) = Cardinality(Runs(running_func_calls)) - 1
    <2>1. /\ inflight_requests[n] - 1 \in Nat /\ Covers(rest, inflight, calm)
          /\ Runs(rest) = Runs(running_func_calls) \ {f}
          /\ Cardinality(Runs(rest)) = Cardinality(Runs(running_func_calls)) - 1
      <3>1. Stops(running_func_calls, rest, inflight_requests, inflight, calm, f, n)
        BY <1>1, <1>5, <1>6, <1>7, Zenon DEF Stops
      <3> QED BY <3>1, Released
    <2> QED BY <1>8, <2>1, Zenon
  <1>10. /\ Cardinality(Running) \in Nat /\ Cardinality(Runs(rest)) \in Nat
         /\ Len(connected_nodes) \in Nat /\ MaxRunning * Len(connected_nodes) \in Nat
    <2>1. Cardinality(Running) \in Nat /\ Cardinality(Runs(rest)) \in Nat
      BY Zenon DEF FiniteCalls, Running, Runs
    <2>2. Len(connected_nodes) \in Nat
      BY <1>2 DEF TypeOK
    <2> QED BY <2>1, <2>2, LimitGrows
  <1>11. \A g : Queued(g)' <=> InQueue(pending_func_calls', g)
    BY Zenon DEF Queued, InQueue
  <1>12. ASSUME running_func_calls' = rest, inflight_requests' = inflight,
                todo' = [todo EXCEPT ![w] = answer],
                discarded_func_calls' \subseteq Calls,
                UNCHANGED next_dispatch_node_idx,
                pending_func_calls' \in Seq(Calls), DistinctQueue(pending_func_calls'),
                \A g : InQueue(pending_func_calls', g) => InQueue(p, g)
         PROVE  IInv'
    <2>1. /\ answer \in Seq(Tasks) /\ DistinctCalls(answer)
          /\ SendsTo(answer, running_func_calls')
          /\ \A do, h : HasTask(answer, do, h) => do = "finish" /\ h = f
      BY <1>4, AnswerTasks, Zenon
    <2>2. \A g \in Calls : Mentions(answer, g) => ~Dispatching(g) /\ ~Finishing(g)
      BY <1>3, <2>1, Zenon DEF Mentions
    <2>3. \A g \in Calls : Dispatching(g) => running_func_calls'[g] = running_func_calls[g]
      BY <1>3, <1>6, <1>12, Zenon
    <2>4. /\ \A g : Dispatching(g)' <=> Dispatching(g) \/ HasTask(answer, "dispatch", g)
          /\ \A g : Finishing(g)' <=> Finishing(g) \/ HasTask(answer, "finish", g)
          /\ todo' \in [Workers -> Seq(Tasks)]
          /\ OneTask'
      BY <1>1, <1>12, <2>1, <2>2, <2>3, TasksAdded, Zenon
    <2>5. /\ \A g : Dispatching(g)' <=> Dispatching(g)
          /\ \A g : Finishing(g)' => Finishing(g) \/ g = f
      BY <2>1, <2>4, Zenon
    <2>6. \A g : Queued(g)' => Queued(g)
      BY <1>5, <1>11, <1>12, Zenon
    <2>7. Running' = Running \ {f}
      BY <1>5, <1>9, <1>12, Zenon DEF Running, Runs
    <2>8. TypeOK'
      <3>1. /\ running_func_calls' \in [Calls -> Nodes \cup {NoNode}]
            /\ inflight_requests' \in [Nodes -> Nat]
        BY <1>6, <1>9, <1>12, Zenon DEF Places, Loads
      <3>2. /\ discarded_func_calls' \subseteq Calls /\ pending_func_calls' \in Seq(Calls)
            /\ next_dispatch_node_idx' = next_dispatch_node_idx
        BY <1>12, Zenon
      <3> QED BY <1>1, <1>2, <2>4, <3>1, <3>2, Zenon DEF TypeOK, clientVars, settingVars
    <2>9. CallInOnePlace'
      <3>1. scheduled' = scheduled /\ fate' = fate
        BY <1>1, Zenon DEF clientVars
      <3> QED BY <1>1, <1>2, <1>3, <1>12, <2>5, <2>6, <2>7, <3>1, Zenon
              DEF CallInOnePlace, DistinctQueue
    <2>10. InflightCovered' /\ RunningBounded'
      <3>1. calm' = calm /\ connected_nodes' = connected_nodes
        BY <1>1, Zenon DEF settingVars
      <3>2. MaxRunning > 0 => Cardinality(Running) <= MaxRunning * Len(connected_nodes)
        BY Zenon DEF IInv, RunningBounded, MaxRunningRequests
      <3>3. MaxRunning > 0 =>
              Cardinality(Runs(running_func_calls')) <= MaxRunning * Len(connected_nodes')
        <4>1. Cardinality(Runs(running_func_calls')) = Cardinality(Running) - 1
          <5>1. running_func_calls' = rest
            BY <1>12, Zenon
          <5>2. /\ Cardinality(Runs(rest)) = Cardinality(Runs(running_func_calls)) - 1
                /\ Running = Runs(running_func_calls)
            BY <1>5, <1>9, Zenon
          <5> QED BY <5>1, <5>2, Zenon
        <4> QED BY <1>10, <3>1, <3>2, <4>1
      <3>4. Covers(running_func_calls', inflight_requests', calm')
        BY <1>9, <1>12, <3>1, Zenon
      <3> QED BY <3>3, <3>4, ViewsBack, Zenon
    <2>11. EnginesReady'
      BY <1>1, <1>2, <1>6, <1>12, <2>7, Zenon DEF EnginesReady, Running, clientVars, settingVars
    <2> QED BY <2>4, <2>8, <2>9, <2>10, <2>11, Zenon DEF IInv
  <1>13. ASSUME HasRoom(Running \ {f}), NEW g \in Calls, Queued(g),
                NEW m \in Nodes, PickNextNode(m, inflight),
                running_func_calls' = [rest EXCEPT ![g] = m],
                todo' = [todo EXCEPT ![w] = Append(answer, Dispatch(g, m))],
                discarded_func_calls' \subseteq Calls,
                pending_func_calls' \in Seq(Calls), DistinctQueue(pending_func_calls'),
                \A h : InQueue(pending_func_calls', h) => InQueue(p, h),
                ~InQueue(pending_func_calls', g)
         PROVE  IInv'
    <2> DEFINE q == Append(answer, Dispatch(g, m))
    <2>1. /\ g # f /\ g \notin Running /\ ~Dispatching(g) /\ ~Finishing(g)
          /\ g \notin scheduled /\ g \notin at_engine /\ fate[g] = "accepted"
      <3>1. /\ g # f /\ g \notin Running /\ ~Finishing(g) /\ g \notin scheduled
            /\ fate[g] = "accepted"
        BY <1>2, <1>3, <1>13, Zenon DEF CallInOnePlace
      <3> QED BY <1>2, <3>1, Zenon DEF CallInOnePlace
    <2>2. /\ rest[g] = NoNode /\ running_func_calls' \in Places
          /\ \A h \in Calls : running_func_calls'[h] =
                 IF h = g THEN m ELSE IF h = f THEN NoNode ELSE running_func_calls[h]
      BY <1>6, <1>13, <2>1, Zenon DEF Places, Running
    <2>3. /\ q \in Seq(Tasks) /\ DistinctCalls(q) /\ SendsTo(q, running_func_calls')
          /\ \A h : HasTask(q, "finish", h) => h = f
          /\ \A h : HasTask(q, "dispatch", h) <=> h = g
      <3>1. running_func_calls'[g] = m
        BY <2>2, Zenon
      <3> QED BY <1>4, <2>1, <3>1, AnswerAndDispatch
    <2>4. todo' = [todo EXCEPT ![w] = q]
      BY <1>13, Zenon
    <2> HIDE DEF q
    <2>5. \A h \in Calls : Mentions(q, h) => ~Dispatching(h) /\ ~Finishing(h)
      BY <1>3, <2>1, <2>3 DEF Mentions
    <2>6. \A h \in Calls : Dispatching(h) => running_func_calls'[h] = running_func_calls[h]
      BY <1>3, <2>1, <2>2, Zenon
    <2>7. /\ \A h : Dispatching(h)' <=> Dispatching(h) \/ HasTask(q, "dispatch", h)
          /\ \A h : Finishing(h)' <=> Finishing(h) \/ HasTask(q, "finish", h)
          /\ todo' \in [Workers -> Seq(Tasks)]
          /\ OneTask'
      BY <1>1, <2>3, <2>4, <2>5, <2>6, TasksAdded, Zenon
    <2>8. /\ \A h : Dispatching(h)' <=> Dispatching(h) \/ h = g
          /\ \A h : Finishing(h)' => Finishing(h) \/ h = f
      BY <2>3, <2>7, Zenon
    <2>9. \A h : Queued(h)' => Queued(h) /\ h # g
      BY <1>5, <1>11, <1>13, Zenon
    <2>10. /\ m \in engines /\ next_dispatch_node_idx' \in Nat \ {0}
           /\ inflight_requests' = [inflight EXCEPT ![m] = @ + 1]
      BY <1>13, PickFacts, Zenon
    <2>11. /\ inflight_requests' \in Loads
           /\ \A k \in Nodes : inflight_requests'[k] =
                                IF k = m THEN inflight[k] + 1 ELSE inflight[k]
      BY <1>9, <2>10 DEF Loads
    <2>12. \A h \in Calls : running_func_calls'[h] = IF h = g THEN m ELSE rest[h]
      BY <1>6, <2>2, Zenon
    <2>13. /\ Covers(running_func_calls', inflight_requests', calm)
           /\ Runs(running_func_calls') = Runs(rest) \cup {g}
           /\ Cardinality(Runs(running_func_calls')) = Cardinality(Runs(rest)) + 1
      <3>1. rest[g] = NoNode
        BY <2>2, Zenon
      <3> DEFINE r2 == running_func_calls'
                 l2 == inflight_requests'
      <3>2. /\ \A h \in Calls : r2[h] = IF h = g THEN m ELSE rest[h]
            /\ \A k \in Nodes : l2[k] = IF k = m THEN inflight[k] + 1 ELSE inflight[k]
        BY <2>11, <2>12, Zenon
      <3> HIDE DEF r2, l2
      <3>3. rest \in Places /\ inflight \in Loads /\ Covers(rest, inflight, calm)
        BY <1>6, <1>9, Zenon
      <3>4. /\ Covers(r2, l2, calm) /\ Runs(r2) = Runs(rest) \cup {g}
            /\ Cardinality(Runs(r2)) = Cardinality(Runs(rest)) + 1
        BY <3>1, <3>2, <3>3, Assigned
      <3> QED BY <3>4, Zenon DEF r2, l2
    <2>14. Running' = (Running \ {f}) \cup {g}
      BY <1>5, <1>9, <2>13, Zenon DEF Running, Runs
    <2>15. TypeOK'
      <3>1. /\ running_func_calls' \in [Calls -> Nodes \cup {NoNode}]
            /\ inflight_requests' \in [Nodes -> Nat]
        BY <2>2, <2>11, Zenon DEF Places, Loads
      <3>2. todo' \in [Workers -> Seq(Tasks)]
        BY <2>7, Zenon
      <3>3. /\ discarded_func_calls' \subseteq Calls /\ pending_func_calls' \in Seq(Calls)
            /\ next_dispatch_node_idx' \in Nat \ {0}
        BY <1>13, <2>10, Zenon
      <3> QED BY <1>1, <1>2, <3>1, <3>2, <3>3, Zenon DEF TypeOK, clientVars, settingVars
    <2>16. CallInOnePlace'
      <3>1. scheduled' = scheduled /\ fate' = fate /\ at_engine' = at_engine \ {f}
        BY <1>1, Zenon DEF clientVars
      <3>2. DistinctQueue(pending_func_calls')
        BY <1>13, Zenon
      <3> QED BY <1>2, <1>3, <2>1, <2>8, <2>9, <2>14, <3>1, <3>2, Zenon
              DEF CallInOnePlace, DistinctQueue
    <2>17. InflightCovered' /\ RunningBounded'
      <3>1. calm' = calm /\ connected_nodes' = connected_nodes
        BY <1>1, Zenon DEF settingVars
      <3>2. MaxRunning > 0 => Cardinality(Runs(rest)) < MaxRunning * Len(connected_nodes)
        BY <1>5, <1>9, <1>13 DEF HasRoom, MaxRunningRequests
      <3>3. MaxRunning > 0 =>
              Cardinality(Runs(running_func_calls')) <= MaxRunning * Len(connected_nodes')
        BY <1>10, <2>13, <3>1, <3>2
      <3>4. Covers(running_func_calls', inflight_requests', calm')
        BY <2>13, <3>1, Zenon
      <3> QED BY <3>3, <3>4, ViewsBack, Zenon
    <2>18. EnginesReady'
      BY <1>1, <1>2, <2>2, <2>10, <2>14, Zenon
         DEF EnginesReady, Running, clientVars, settingVars
    <2> QED BY <2>7, <2>15, <2>16, <2>17, <2>18, Zenon DEF IInv
  <1>14. CASE /\ running_func_calls' = rest /\ inflight_requests' = inflight
              /\ discarded_func_calls' = discarded_func_calls \ {f}
              /\ todo' = [todo EXCEPT ![w] = answer]
              /\ UNCHANGED <<pending_func_calls, next_dispatch_node_idx>>
    <2>1. discarded_func_calls' \subseteq Calls
      BY <1>2, <1>14, Zenon DEF TypeOK
    <2>2. /\ pending_func_calls' \in Seq(Calls) /\ DistinctQueue(pending_func_calls')
          /\ \A g : InQueue(pending_func_calls', g) => InQueue(p, g)
      BY <1>5, <1>14, Zenon DEF p
    <2> QED BY <1>12, <1>14, <2>1, <2>2, Zenon
  <1>15. ASSUME HasRoom(Running \ {f}), NEW s \in 0..Len(p),
                discarded_func_calls' = discarded_func_calls \ ({f} \cup {p[i] : i \in 1..s}),
                pending_func_calls' = SubSeq(p, s + 2, Len(p)),
                \/ /\ s = Len(p)
                   /\ running_func_calls' = rest /\ inflight_requests' = inflight
                   /\ todo' = [todo EXCEPT ![w] = answer]
                   /\ UNCHANGED next_dispatch_node_idx
                \/ /\ s < Len(p)
                   /\ \E m \in Nodes :
                        /\ PickNextNode(m, inflight)
                        /\ running_func_calls' = [rest EXCEPT ![p[s + 1]] = m]
                        /\ todo' = [todo EXCEPT ![w] = Append(answer, Dispatch(p[s + 1], m))]
         PROVE  IInv'
    <2>1. /\ discarded_func_calls' = discarded_func_calls \ ({f} \cup {p[i] : i \in 1..s})
          /\ pending_func_calls' = SubSeq(p, s + 2, Len(p)) /\ HasRoom(Running \ {f})
      BY <1>15, Zenon
    <2>2. discarded_func_calls' \subseteq Calls
      BY <1>2, <2>1, Zenon DEF TypeOK
    <2>3. /\ pending_func_calls' \in Seq(Calls) /\ DistinctQueue(pending_func_calls')
          /\ \A g : InQueue(pending_func_calls', g) => InQueue(p, g)
          /\ s < Len(p) => /\ p[s + 1] \in Calls /\ InQueue(p, p[s + 1])
                           /\ ~InQueue(pending_func_calls', p[s + 1])
      BY <1>5, <2>1, QueueTaken, Zenon
    <2>4. CASE s = Len(p)
      <3>1. /\ running_func_calls' = rest /\ inflight_requests' = inflight
            /\ todo' = [todo EXCEPT ![w] = answer]
            /\ UNCHANGED next_dispatch_node_idx
        BY <1>15, <2>4
      <3> QED BY <1>12, <2>2, <2>3, <3>1, Zenon
    <2>5. CASE s < Len(p)
      <3>1. PICK m \in Nodes :
               /\ PickNextNode(m, inflight)
               /\ running_func_calls' = [rest EXCEPT ![p[s + 1]] = m]
               /\ todo' = [todo EXCEPT ![w] = Append(answer, Dispatch(p[s + 1], m))]
        BY <1>15, <2>5
      <3> DEFINE g == p[s + 1]
      <3>2. g \in Calls /\ Queued(g) /\ ~InQueue(pending_func_calls', g)
        BY <1>5, <2>3, <2>5, Zenon
      <3>3. /\ running_func_calls' = [rest EXCEPT ![g] = m]
            /\ todo' = [todo EXCEPT ![w] = Append(answer, Dispatch(g, m))]
            /\ PickNextNode(m, inflight)
        BY <3>1, Zenon
      <3> HIDE DEF g
      <3> QED BY <1>13, <2>1, <2>2, <2>3, <3>2, <3>3, Zenon
    <2> QED BY <2>4, <2>5
  <1> QED BY <1>14, <1>15, Zenon DEF OnRecvEngineMessage, answer, rest, inflight, p

\* Every step of the server, its IO workers, clients and engines preserves the
\* invariant.
LEMMA NextIInv == ASSUME FiniteCalls, IInv, [Next]_vars PROVE IInv'
  <1>1. CASE UNCHANGED vars
    <2>1. TypeOK' /\ EnginesReady'
      BY <1>1, Zenon DEF vars, serverVars, clientVars, settingVars, IInv, TypeOK, EnginesReady,
         Running
    <2>2. Len(connected_nodes) <= Len(connected_nodes')
      BY <1>1 DEF vars, serverVars, IInv, TypeOK
    <2> QED BY <1>1, <2>1, <2>2, QuietIInv, Zenon DEF vars, serverVars, clientVars, settingVars
  <1>2. ASSUME NEW w \in Workers, NEW n \in Nodes,
               OnEngineHandshake(w, n) \/ EngineConnectionSteps(w, n)
        PROVE  IInv'
    BY <1>2, OnEngineHandshakeIInv, EngineConnectionStepsIInv, Zenon
  <1>3. ASSUME NEW k \in Conns, \/ ConnectionStarts(k) \/ ConnectionEntered(k)
                                \/ ScheduleClose(k) \/ OnConnectionClose(k)
        PROVE  IInv'
    BY <1>3, ClientStepsIInv, Zenon
  <1>4. ASSUME NEW f \in Calls, H2OnStreamClose(f) PROVE IInv'
    BY <1>4, ClientStepsIInv, Zenon
  <1>5. ASSUME NEW f \in Calls,
               OnUnknownFunction(f) \/ OnNewFuncCall(f) \/ RunScheduledFunction(f)
        PROVE  IInv'
    BY <1>5, OnUnknownFunctionIInv, OnNewFuncCallIInv, RunScheduledFunctionIInv, Zenon
  <1>6. ASSUME NEW w \in Workers, NEW n \in Nodes, NEW f \in Calls,
               OnRecvEngineMessage(w, n, f)
        PROVE  IInv'
    BY <1>6, OnRecvEngineMessageIInv, Zenon
  <1>7. ASSUME NEW w \in Workers,
               DispatchSent(w) \/ DispatchUnconnected(w) \/ FinishFuncCall(w)
        PROVE  IInv'
    BY <1>7, DispatchSentIInv, DispatchUnconnectedIInv, FinishFuncCallIInv, Zenon
  <1> QED BY <1>1, <1>2, <1>3, <1>4, <1>5, <1>6, <1>7, Zenon DEF Next

-----------------------------------------------------------------------------
(***************************************************************************)
(* The queue of pending calls. A call that is taken off it unrun is one    *)
(* the server was told to discard, and such a call is no longer open: the  *)
(* connection forgets a call where it discards it, and no call is opened   *)
(* twice.                                                                  *)
(***************************************************************************)

DiscardedIsClosed ==
    \A f \in Calls : /\ f \in discarded_func_calls => f \notin open_calls /\ fate[f] # "new"
                     /\ f \in open_calls => fate[f] # "new"

\* No step opens a discarded call, or discards a call and keeps it open
\* (grpc_connection.cpp:371-375, 548-551).
LEMMA NextDiscarded == TypeOK /\ DiscardedIsClosed /\ [Next]_vars => DiscardedIsClosed'
  <1> SUFFICES ASSUME TypeOK, DiscardedIsClosed, [Next]_vars
               PROVE  DiscardedIsClosed'
    BY Zenon
  <1>1. CASE UNCHANGED <<discarded_func_calls, open_calls, fate>>
    BY <1>1, Zenon DEF DiscardedIsClosed
  <1>2. ASSUME NEW f \in Calls, Delivered(f), UNCHANGED discarded_func_calls
        PROVE  DiscardedIsClosed'
    BY <1>2, Zenon DEF DiscardedIsClosed, Delivered, TypeOK
  <1>3. CASE UNCHANGED vars
    BY <1>1, <1>3, Zenon DEF vars, serverVars, clientVars
  <1>4. ASSUME NEW w \in Workers, NEW n \in Nodes,
               OnEngineHandshake(w, n) \/ EngineConnectionSteps(w, n)
        PROVE  DiscardedIsClosed'
    BY <1>1, <1>4, Zenon DEF OnEngineHandshake, EngineConnectionSteps, serverVars, clientVars
  <1>5. ASSUME NEW k \in Conns, \/ ConnectionStarts(k) \/ ConnectionEntered(k)
                                \/ OnConnectionClose(k)
        PROVE  DiscardedIsClosed'
    BY <1>1, <1>5, Zenon DEF ConnectionStarts, ConnectionEntered, OnConnectionClose, serverVars
  <1>6. ASSUME NEW k \in Conns, ScheduleClose(k) PROVE DiscardedIsClosed'
    BY <1>6, Zenon DEF ScheduleClose, DiscardedIsClosed, OpenOn
  <1>7. ASSUME NEW f \in Calls, H2OnStreamClose(f) PROVE DiscardedIsClosed'
    BY <1>7, Zenon DEF H2OnStreamClose, DiscardedIsClosed
  <1>8. ASSUME NEW f \in Calls, OnUnknownFunction(f) PROVE DiscardedIsClosed'
    BY <1>8, Zenon DEF OnUnknownFunction, DiscardedIsClosed, serverVars, TypeOK
  <1>9. ASSUME NEW f \in Calls, OnNewFuncCall(f) PROVE DiscardedIsClosed'
    <2>1. /\ fate[f] = "new" /\ fate' = [fate EXCEPT ![f] = "accepted"]
          /\ open_calls' = open_calls \cup {f} /\ discarded_func_calls' = discarded_func_calls
      BY <1>9, Zenon DEF OnNewFuncCall, Arrives
    <2> QED BY <2>1, Zenon DEF DiscardedIsClosed, TypeOK
  <1>10. ASSUME NEW f \in Calls, RunScheduledFunction(f) PROVE DiscardedIsClosed'
    BY <1>2, <1>10, Zenon DEF RunScheduledFunction, serverVars
  <1>11. ASSUME NEW w \in Workers, NEW n \in Nodes, NEW f \in Calls,
                OnRecvEngineMessage(w, n, f)
         PROVE  DiscardedIsClosed'
    <2>1. /\ discarded_func_calls' \subseteq discarded_func_calls
          /\ UNCHANGED <<open_calls, fate>>
      BY <1>11, Zenon DEF OnRecvEngineMessage, clientVars
    <2> QED BY <2>1, Zenon DEF DiscardedIsClosed
  <1>12. ASSUME NEW w \in Workers, DispatchSent(w) \/ DispatchUnconnected(w)
         PROVE  DiscardedIsClosed'
    BY <1>1, <1>12, Zenon DEF DispatchSent, DispatchUnconnected, serverVars, clientVars
  <1>13. ASSUME NEW w \in Workers, FinishFuncCall(w) PROVE DiscardedIsClosed'
    <2>1. Task(w).call \in Calls
      <3>1. todo[w] \in Seq(Tasks) /\ todo[w] # <<>>
        BY <1>13, Zenon DEF FinishFuncCall, TypeOK
      <3>2. Head(todo[w]) \in Tasks
        BY <3>1
      <3> QED BY <3>2, Zenon DEF Task, Tasks
    <2>2. UNCHANGED discarded_func_calls
      BY <1>13, Zenon DEF FinishFuncCall, serverVars
    <2>3. Delivered(Task(w).call) \/ UNCHANGED <<fate, open_calls>>
      BY <1>13, Zenon DEF FinishFuncCall
    <2> QED BY <1>1, <1>2, <2>1, <2>2, <2>3, Zenon
  <1> QED BY <1>3, <1>4, <1>5, <1>6, <1>7, <1>8, <1>9, <1>10, <1>11, <1>12, <1>13, Zenon
             DEF Next

\* What the queue may do in a step: QueueIsFIFO's action.
FifoStep ==
    \E n \in 0..Len(pending_func_calls) :
       LET rest == SubSeq(pending_func_calls, n + 1, Len(pending_func_calls))
       IN  /\ \/ pending_func_calls' = rest
              \/ n = 0 /\ \E f \in Calls : fate[f] = "new"
                                    /\ pending_func_calls' = Append(rest, f)
           /\ \A i \in 1..n : LET f == pending_func_calls[i]
                              IN  \/ f \in Running' \/ f \notin open_calls
                                  \/ ConnOf[f] \notin connections

\* A step that leaves the queue alone, or adds a new call at its end.
LEMMA QueueGrows ==
    ASSUME TypeOK,
           \/ UNCHANGED pending_func_calls
           \/ \E f \in Calls : /\ fate[f] = "new"
                               /\ pending_func_calls' = Append(pending_func_calls, f)
    PROVE  FifoStep
  <1>1. /\ pending_func_calls = SubSeq(pending_func_calls, 0 + 1, Len(pending_func_calls))
        /\ 0 \in 0..Len(pending_func_calls) /\ 1..0 = {}
    BY DEF TypeOK
  <1> QED BY <1>1, Zenon DEF FifoStep

\* The calls an answer takes off the queue are those it skips, from the front,
\* and the one it starts (server.cpp:204-216).
LEMMA QueueTakenInOrder ==
    ASSUME IInv, DiscardedIsClosed, NEW w \in Workers, NEW n \in Nodes, NEW f \in Calls,
           OnRecvEngineMessage(w, n, f)
    PROVE  FifoStep
  <1> DEFINE q == pending_func_calls
  <1>1. q \in Seq(Calls) /\ Len(q) \in Nat
    BY DEF IInv, TypeOK
  <1>2. CASE UNCHANGED pending_func_calls
    BY <1>2, QueueGrows, Zenon DEF IInv
  <1>3. ASSUME NEW s \in 0..Len(q), Skips(s), q' = SubSeq(q, s + 2, Len(q)),
               \/ s = Len(q)
               \/ s < Len(q) /\ \E m \in Nodes : running_func_calls' =
                    [[running_func_calls EXCEPT ![f] = NoNode] EXCEPT ![q[s + 1]] = m]
        PROVE  FifoStep
    <2>1. \A i \in 1..s : /\ q[i] \in Calls
                          /\ q[i] \notin open_calls \/ ConnOf[q[i]] \notin connections
      <3>1. \A i \in 1..s : q[i] \in Calls
        BY <1>1
      <3>2. \A i \in 1..s : q[i] \in discarded_func_calls \/ ConnOf[q[i]] \notin connections
        BY <1>3, Zenon DEF Skips, Abandoned
      <3> QED BY <3>1, <3>2, Zenon DEF DiscardedIsClosed
    <2>2. CASE s = Len(q)
      <3>1. q' = SubSeq(q, s + 1, Len(q))
        BY <1>1, <1>3, <2>2
      <3> QED BY <1>3, <2>1, <3>1, Zenon DEF FifoStep
    <2>3. CASE s < Len(q)
      <3>1. PICK m \in Nodes : running_func_calls' =
                    [[running_func_calls EXCEPT ![f] = NoNode] EXCEPT ![q[s + 1]] = m]
        BY <1>3, <2>3
      <3>2. q[s + 1] \in Calls /\ running_func_calls'[q[s + 1]] = m /\ m # NoNode
        BY <1>1, <2>3, <3>1, NodeAssumption DEF IInv, TypeOK
      <3>3. q[s + 1] \in Running'
        BY <3>2, Zenon DEF Running
      <3>4. s + 1 \in 0..Len(q) /\ q' = SubSeq(q, (s + 1) + 1, Len(q))
        BY <1>1, <1>3, <2>3
      <3>5. \A i \in 1..(s + 1) : \/ q[i] \in Running' \/ q[i] \notin open_calls
                                  \/ ConnOf[q[i]] \notin connections
        <4> SUFFICES ASSUME NEW i \in 1..(s + 1)
                     PROVE  \/ q[i] \in Running' \/ q[i] \notin open_calls
                            \/ ConnOf[q[i]] \notin connections
          BY Zenon
        <4>1. i \in 1..s \/ i = s + 1
          BY <1>1
        <4> QED BY <2>1, <3>3, <4>1, Zenon
      <3> QED BY <3>4, <3>5, Zenon DEF FifoStep
    <2> QED BY <1>3, <2>2, <2>3, Zenon
  <1>4. \/ UNCHANGED pending_func_calls
        \/ \E s \in 0..Len(q) :
              /\ Skips(s) /\ q' = SubSeq(q, s + 2, Len(q))
              /\ \/ s = Len(q)
                 \/ s < Len(q) /\ \E m \in Nodes : running_func_calls' =
                      [[running_func_calls EXCEPT ![f] = NoNode] EXCEPT ![q[s + 1]] = m]
    BY Zenon DEF OnRecvEngineMessage
  <1> QED BY <1>2, <1>3, <1>4, Zenon

\* Every step treats the queue as one.
LEMMA NextFifo == IInv /\ DiscardedIsClosed /\ [Next]_vars => [FifoStep]_vars
  <1> SUFFICES ASSUME IInv, DiscardedIsClosed, Next PROVE FifoStep
    BY Zenon
  <1>1. CASE UNCHANGED pending_func_calls
    BY <1>1, QueueGrows, Zenon DEF IInv
  <1>2. ASSUME NEW w \in Workers, NEW n \in Nodes,
               OnEngineHandshake(w, n) \/ EngineConnectionSteps(w, n)
        PROVE  FifoStep
    BY <1>1, <1>2, Zenon DEF OnEngineHandshake, EngineConnectionSteps, serverVars
  <1>3. ASSUME NEW k \in Conns, \/ ConnectionStarts(k) \/ ConnectionEntered(k)
                                \/ ScheduleClose(k) \/ OnConnectionClose(k)
        PROVE  FifoStep
    BY <1>1, <1>3, Zenon
       DEF ConnectionStarts, ConnectionEntered, ScheduleClose, OnConnectionClose,
       serverVars
  <1>4. ASSUME NEW f \in Calls,
               H2OnStreamClose(f) \/ OnUnknownFunction(f) \/ RunScheduledFunction(f)
        PROVE  FifoStep
    BY <1>1, <1>4, Zenon DEF H2OnStreamClose, OnUnknownFunction, RunScheduledFunction, serverVars
  <1>5. ASSUME NEW f \in Calls, OnNewFuncCall(f) PROVE FifoStep
    <2>1. /\ fate[f] = "new"
          /\ \/ UNCHANGED pending_func_calls
             \/ pending_func_calls' = Append(pending_func_calls, f)
      BY <1>5, Zenon DEF OnNewFuncCall, Arrives
    <2> QED BY <2>1, QueueGrows, Zenon DEF IInv
  <1>6. ASSUME NEW w \in Workers, NEW n \in Nodes, NEW f \in Calls,
               OnRecvEngineMessage(w, n, f)
        PROVE  FifoStep
    BY <1>6, QueueTakenInOrder, Zenon
  <1>7. ASSUME NEW w \in Workers,
               DispatchSent(w) \/ DispatchUnconnected(w) \/ FinishFuncCall(w)
        PROVE  FifoStep
    BY <1>1, <1>7, Zenon DEF DispatchSent, DispatchUnconnected, FinishFuncCall, serverVars
  <1> QED BY <1>2, <1>3, <1>4, <1>5, <1>6, <1>7, Zenon DEF Next

-----------------------------------------------------------------------------
(***************************************************************************)
(* The theorems.                                                           *)
(***************************************************************************)

INSTANCE FiniteSetTheorems

\* Sets of calls are finite, and their cardinality counts their elements.
LEMMA CallsAreFinite == FiniteCalls
  <1>1. ASSUME NEW S \in SUBSET Calls PROVE IsFiniteSet(S) /\ Cardinality(S) \in Nat
    BY FiniteAssumption, FS_Subset, FS_CardinalityType, Zenon
  <1>2. ASSUME NEW S \in SUBSET Calls PROVE Cardinality(S) = 0 <=> S = {}
    BY <1>1, FS_EmptySet, Zenon
  <1>3. ASSUME NEW S \in SUBSET Calls, NEW f \in Calls \ S
        PROVE  Cardinality(S \cup {f}) = Cardinality(S) + 1
    BY <1>1, FS_AddElement, Zenon
  <1>4. ASSUME NEW S \in SUBSET Calls, NEW f \in S
        PROVE  Cardinality(S \ {f}) = Cardinality(S) - 1
    BY <1>1, FS_RemoveElement, Zenon
  <1> QED BY <1>1, <1>2, <1>3, <1>4, Zenon DEF FiniteCalls

\* The invariant holds in every reachable state.
THEOREM GatewayInvariant == Spec => []IInv
  <1>1. Init => IInv
    BY CallsAreFinite, InitIInv, Zenon
  <1>2. IInv /\ [Next]_vars => IInv'
    BY CallsAreFinite, NextIInv, Zenon
  <1> QED BY <1>1, <1>2, PTL DEF Spec

\* The state of the server and its IO workers keeps its type, for any calls,
\* connections, nodes and limit.
THEOREM TypeCorrect == Spec => []TypeOK
  <1>1. IInv => TypeOK
    BY Zenon DEF IInv
  <1> QED BY <1>1, GatewayInvariant, PTL

\* The gateway runs at most MaxRunning calls per connected node, for any number
\* of IO workers (server.cpp:203, 326).
THEOREM LimitKept == Spec => []RunningBounded
  <1>1. IInv => RunningBounded
    BY Zenon DEF IInv
  <1> QED BY <1>1, GatewayInvariant, PTL

\* A call waits once, runs, or is finished: no IO worker sends or finishes a call
\* that another one has (server.cpp:201-224, 326-331, 369).
THEOREM OnePlace == Spec => []CallInOnePlace
  <1>1. IInv => CallInOnePlace
    BY Zenon DEF IInv
  <1> QED BY <1>1, GatewayInvariant, PTL

\* The load counter of a node never wraps below zero, and is exact where engines
\* stay connected (server.cpp:218, 291, 365-372).
THEOREM LoadsCover == Spec => []InflightCovered
  <1>1. IInv => InflightCovered
    BY Zenon DEF IInv
  <1> QED BY <1>1, GatewayInvariant, PTL

\* A discarded call is not open, in every reachable state.
LEMMA DiscardedStaysClosed == Spec => []DiscardedIsClosed
  <1>1. Init => DiscardedIsClosed
    BY Zenon DEF Init, DiscardedIsClosed
  <1> QED BY <1>1, NextDiscarded, TypeCorrect, PTL DEF Spec

\* The queue of pending calls is first in, first out, whatever the IO workers
\* interleave, and a call leaves it unrun only after its client left
\* (server.cpp:204-216, 327).
THEOREM QueueOrder == Spec => QueueIsFIFO
  <1>1. IInv /\ DiscardedIsClosed /\ [Next]_vars => [FifoStep]_vars
    BY NextFifo, Zenon
  <1>2. [][FifoStep]_vars => QueueIsFIFO
    BY PTL DEF QueueIsFIFO, FifoStep
  <1> QED BY <1>1, <1>2, GatewayInvariant, DiscardedStaysClosed, PTL DEF Spec

=============================================================================
