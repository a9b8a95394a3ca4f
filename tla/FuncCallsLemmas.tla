-------------------------- MODULE FuncCallsLemmas ---------------------------
(***************************************************************************)
(* The inductive invariant of FuncCallsProofs, and facts about the data of *)
(* FuncCalls: what the message queues hold.                                *)
(***************************************************************************)
EXTENDS FuncCalls, TLAPS

Messages == [type : {"invoke", "dispatch", "complete", "failed"}, call : Calls, shm : BOOLEAN]
Done == {"complete", "failed"}
Ways == [pending : Seq(Messages), scheduled : BOOLEAN, fifo : Seq(Messages)]

DistinctCalls(q) == \A i, j \in 1..Len(q) : i # j => q[i].call # q[j].call
OnTheWay(d) == Range(d.pending) \cup Range(d.fifo)
DistinctOnTheWay(d) ==
    /\ DistinctCalls(d.pending) /\ DistinctCalls(d.fifo)
    /\ \A m \in Range(d.pending), n \in Range(d.fifo) : m.call # n.call

-----------------------------------------------------------------------------
(***************************************************************************)
(* Queues of messages.                                                     *)
(***************************************************************************)

\* A message is put at the end.
LEMMA Appended ==
    ASSUME NEW q \in Seq(Messages), NEW m \in Messages
    PROVE  /\ Append(q, m) \in Seq(Messages) /\ Range(Append(q, m)) = Range(q) \cup {m}
           /\ DistinctCalls(q) /\ (\A n \in Range(q) : n.call # m.call)
                => DistinctCalls(Append(q, m))
  <1> DEFINE p == Append(q, m)
  <1>1. /\ p \in Seq(Messages) /\ Len(q) \in Nat /\ Len(p) = Len(q) + 1 /\ p[Len(q) + 1] = m
        /\ \A i \in 1..Len(q) : p[i] = q[i]
    OBVIOUS
  <1>2. /\ DOMAIN p = 1..(Len(q) + 1) /\ DOMAIN q = 1..Len(q)
    BY <1>1
  <1> HIDE DEF p
  <1>3. Range(p) = Range(q) \cup {m}
    <2>1. \A x \in Range(p) : x \in Range(q) \cup {m}
      BY <1>1, <1>2 DEF Range
    <2>2. \A x \in Range(q) \cup {m} : x \in Range(p)
      BY <1>1, <1>2 DEF Range
    <2> QED BY <2>1, <2>2, Zenon
  <1>4. ASSUME DistinctCalls(q), \A n \in Range(q) : n.call # m.call PROVE DistinctCalls(p)
    BY <1>1, <1>2, <1>4 DEF DistinctCalls, Range
  <1> QED BY <1>1, <1>3, <1>4, Zenon DEF p

\* The first message is taken.
LEMMA Taken ==
    ASSUME NEW q \in Seq(Messages), q # <<>>, DistinctCalls(q)
    PROVE  /\ Head(q) \in Messages /\ Tail(q) \in Seq(Messages) /\ DistinctCalls(Tail(q))
           /\ Range(q) = Range(Tail(q)) \cup {Head(q)}
           /\ \A n \in Range(Tail(q)) : n.call # Head(q).call
  <1> DEFINE p == Tail(q)
             h == Head(q)
  <1>1. /\ p \in Seq(Messages) /\ h \in Messages /\ h = q[1] /\ Len(q) \in Nat /\ Len(q) >= 1
        /\ Len(p) = Len(q) - 1
    OBVIOUS
  <1>2. \A i \in 1..Len(p) : i + 1 \in 1..Len(q) /\ p[i] = q[i + 1]
    BY <1>1
  <1>3. \A i \in 1..Len(q) : i # 1 => i - 1 \in 1..Len(p) /\ p[i - 1] = q[i]
    BY <1>1, <1>2
  <1>4. DOMAIN p = 1..Len(p) /\ DOMAIN q = 1..Len(q)
    BY <1>1
  <1> HIDE DEF p, h
  <1>5. ASSUME NEW x \in Range(q) PROVE x \in Range(p) \cup {h}
    <2>1. PICK i \in 1..Len(q) : x = q[i]
      BY <1>4, Zenon DEF Range
    <2>2. CASE i = 1
      BY <1>1, <2>1, <2>2, Zenon
    <2>3. CASE i # 1
      <3>1. i - 1 \in DOMAIN p /\ p[i - 1] = x
        BY <1>3, <1>4, <2>1, <2>3, Zenon
      <3> QED BY <3>1, Zenon DEF Range
    <2> QED BY <2>2, <2>3, Zenon
  <1>6. ASSUME NEW x \in Range(p) \cup {h} PROVE x \in Range(q)
    <2>1. CASE x = h
      <3>1. 1 \in 1..Len(q)
        BY <1>1
      <3> QED BY <1>1, <1>4, <2>1, <3>1, Zenon DEF Range
    <2>2. CASE x \in Range(p)
      <3>1. PICK i \in 1..Len(p) : x = p[i]
        BY <1>4, <2>2, Zenon DEF Range
      <3>2. i + 1 \in DOMAIN q /\ q[i + 1] = x
        BY <1>2, <1>4, <3>1, Zenon
      <3> QED BY <3>2, Zenon DEF Range
    <2> QED BY <2>1, <2>2, Zenon
  <1>7. DistinctCalls(p)
    <2> SUFFICES ASSUME NEW i \in 1..Len(p), NEW j \in 1..Len(p), i # j
                 PROVE  p[i].call # p[j].call
      BY Zenon DEF DistinctCalls
    <2>1. i + 1 # j + 1
      OBVIOUS
    <2>2. q[i + 1].call # q[j + 1].call
      BY <1>2, <2>1, Zenon DEF DistinctCalls
    <2> QED BY <1>2, <2>2, Zenon
  <1>8. ASSUME NEW n \in Range(p) PROVE n.call # h.call
    <2>1. PICK i \in 1..Len(p) : n = p[i]
      BY <1>4, Zenon DEF Range
    <2>2. 1 \in 1..Len(q) /\ i + 1 # 1
      BY <1>1, <2>1
    <2> QED BY <1>1, <1>2, <2>1, <2>2, Zenon DEF DistinctCalls
  <1>9. Range(q) = Range(p) \cup {h}
    BY <1>5, <1>6, Zenon
  <1> QED BY <1>1, <1>7, <1>8, <1>9, Zenon DEF p, h

\* One queue is put behind another.
LEMMA Joined ==
    ASSUME NEW p \in Seq(Messages), NEW q \in Seq(Messages)
    PROVE  /\ p \o q \in Seq(Messages) /\ Range(p \o q) = Range(p) \cup Range(q)
           /\ DistinctCalls(p) /\ DistinctCalls(q)
                /\ (\A m \in Range(q), n \in Range(p) : m.call # n.call)
                => DistinctCalls(p \o q)
  <1> DEFINE r == p \o q
  <1>1. /\ r \in Seq(Messages) /\ Len(p) \in Nat /\ Len(q) \in Nat /\ Len(r) = Len(p) + Len(q)
        /\ \A i \in 1..Len(p) : r[i] = p[i]
        /\ \A i \in 1..Len(q) : r[Len(p) + i] = q[i]
    OBVIOUS
  <1>2. \A i \in 1..Len(r) : \/ i \in 1..Len(p) /\ r[i] = p[i]
                             \/ i - Len(p) \in 1..Len(q) /\ r[i] = q[i - Len(p)]
    BY <1>1
  <1>3. DOMAIN p = 1..Len(p) /\ DOMAIN q = 1..Len(q) /\ DOMAIN r = 1..Len(r)
    BY <1>1
  <1> HIDE DEF r
  <1>4. \A x \in Range(r) : x \in Range(p) \cup Range(q)
    BY <1>1, <1>2, <1>3 DEF Range
  <1>5. \A i \in 1..Len(p) : r[i] \in Range(r)
    <2>1. \A i \in 1..Len(p) : i \in 1..Len(r)
      BY <1>1
    <2> QED BY <1>3, <2>1, Zenon DEF Range
  <1>6. \A i \in 1..Len(q) : r[Len(p) + i] \in Range(r)
    BY <1>1, <1>3 DEF Range
  <1>7. \A x \in Range(p) \cup Range(q) : x \in Range(r)
    BY <1>1, <1>3, <1>5, <1>6 DEF Range
  <1>8. Range(r) = Range(p) \cup Range(q)
    BY <1>4, <1>7, Zenon
  <1>9. ASSUME DistinctCalls(p), DistinctCalls(q),
               \A m \in Range(q), n \in Range(p) : m.call # n.call
        PROVE  DistinctCalls(r)
    <2> SUFFICES ASSUME NEW i \in 1..Len(r), NEW j \in 1..Len(r), i # j
                 PROVE  r[i].call # r[j].call
      BY Zenon DEF DistinctCalls
    <2>1. CASE i \in 1..Len(p) /\ j \in 1..Len(p)
      BY <1>1, <1>9, <2>1, Zenon DEF DistinctCalls
    <2>2. CASE i \notin 1..Len(p) /\ j \notin 1..Len(p)
      <3>1. /\ i - Len(p) \in 1..Len(q) /\ r[i] = q[i - Len(p)]
            /\ j - Len(p) \in 1..Len(q) /\ r[j] = q[j - Len(p)]
            /\ i - Len(p) # j - Len(p)
        BY <1>1, <1>2, <2>2
      <3> QED BY <1>9, <3>1, Zenon DEF DistinctCalls
    <2>3. CASE i \in 1..Len(p) /\ j \notin 1..Len(p)
      <3>1. r[i] \in Range(p) /\ r[j] \in Range(q)
        BY <1>1, <1>2, <1>3, <2>3, Zenon DEF Range
      <3> QED BY <1>9, <3>1, Zenon
    <2>4. CASE i \notin 1..Len(p) /\ j \in 1..Len(p)
      <3>1. r[j] \in Range(p) /\ r[i] \in Range(q)
        BY <1>1, <1>2, <1>3, <2>4, Zenon DEF Range
      <3> QED BY <1>9, <3>1, Zenon
    <2> QED BY <2>1, <2>2, <2>3, <2>4, Zenon
  <1> QED BY <1>1, <1>8, <1>9, Zenon DEF r

\* The first k messages are taken off, and the next one with them.
LEMMA Dropped ==
    ASSUME NEW q \in Seq(Messages), DistinctCalls(q), NEW k \in 0..Len(q)
    PROVE  LET r == SubSeq(q, k + 2, Len(q))
           IN  /\ r \in Seq(Messages) /\ DistinctCalls(r) /\ Range(r) \subseteq Range(q)
               /\ \A i \in 1..k : q[i] \in Range(q) /\ \A n \in Range(r) : n.call # q[i].call
               /\ k < Len(q) => /\ q[k + 1] \in Range(q)
                                /\ \A n \in Range(r) : n.call # q[k + 1].call
                                /\ \A i \in 1..k : q[i].call # q[k + 1].call
  <1> DEFINE r == SubSeq(q, k + 2, Len(q))
  <1>1. Len(q) \in Nat /\ DOMAIN q = 1..Len(q) /\ k \in Int /\ 0 <= k /\ k <= Len(q)
    OBVIOUS
  <1>2. \A i \in (k + 2)..Len(q) : q[i] \in Messages
    BY <1>1
  <1>3. /\ r \in Seq(Messages)
        /\ Len(r) = IF k + 2 <= Len(q) THEN Len(q) - (k + 2) + 1 ELSE 0
        /\ \A i \in 1..(Len(q) - (k + 2) + 1) : r[i] = q[k + 2 + i - 1]
    <2>1. r \in Seq(Messages)
      BY <1>1, <1>2
    <2>2. Len(r) = IF k + 2 <= Len(q) THEN Len(q) - (k + 2) + 1 ELSE 0
      BY <1>1
    <2>3. \A i \in 1..(Len(q) - (k + 2) + 1) : r[i] = q[k + 2 + i - 1]
      BY <1>1
    <2> QED BY <2>1, <2>2, <2>3, Zenon
  <1> HIDE DEF r
  <1>4. ASSUME NEW i \in 1..Len(r) PROVE k + 1 + i \in 1..Len(q) /\ r[i] = q[k + 1 + i]
    <2>1. Len(r) = Len(q) - (k + 2) + 1
      <3>1. Len(r) \in Nat /\ i >= 1 /\ i <= Len(r)
        BY <1>3
      <3>2. k + 2 <= Len(q)
        <4> SUFFICES ASSUME ~(k + 2 <= Len(q)) PROVE FALSE
          BY Zenon
        <4>1. Len(r) = 0
          BY <1>3, Zenon
        <4> QED BY <3>1, <4>1
      <3> QED BY <1>3, <3>2, Zenon
    <2>2. r[i] = q[k + 2 + i - 1]
      BY <1>3, <2>1, Zenon
    <2>3. k + 2 + i - 1 = k + 1 + i /\ k + 1 + i \in 1..Len(q)
      BY <1>1, <2>1
    <2> QED BY <2>2, <2>3, Zenon
  <1>5. DOMAIN r = 1..Len(r) /\ Len(r) \in Nat
    BY <1>3
  <1>6. DistinctCalls(r)
    <2> SUFFICES ASSUME NEW i \in 1..Len(r), NEW j \in 1..Len(r), i # j
                 PROVE  r[i].call # r[j].call
      BY Zenon DEF DistinctCalls
    <2>1. k + 1 + i # k + 1 + j
      BY <1>1
    <2> QED BY <1>4, <2>1 DEF DistinctCalls
  <1>7. Range(r) \subseteq Range(q)
    BY <1>1, <1>4, <1>5, Zenon DEF Range
  <1>8. ASSUME NEW i \in 1..Len(q), i <= k + 1
        PROVE  q[i] \in Range(q) /\ \A n \in Range(r) : n.call # q[i].call
    <2>1. q[i] \in Range(q)
      BY <1>1, Zenon DEF Range
    <2>2. \A j \in 1..Len(r) : k + 1 + j # i
      BY <1>1, <1>5, <1>8
    <2>3. \A j \in 1..Len(r) : r[j].call # q[i].call
      BY <1>4, <2>2 DEF DistinctCalls
    <2> QED BY <1>5, <2>1, <2>3, Zenon DEF Range
  <1>9. \A i \in 1..k : i \in 1..Len(q) /\ i <= k + 1 /\ i # k + 1
    BY <1>1
  <1>10. ASSUME k < Len(q)
         PROVE  k + 1 \in 1..Len(q) /\ \A i \in 1..k : q[i].call # q[k + 1].call
    <2>1. k + 1 \in 1..Len(q)
      BY <1>1, <1>10
    <2> QED BY <1>9, <2>1, Zenon DEF DistinctCalls
  <1>11. k + 1 <= k + 1
    BY <1>1
  <1> QED BY <1>3, <1>6, <1>7, <1>8, <1>9, <1>10, <1>11, Zenon DEF r

\* What is under way to a worker, after WriteMessage.
LEMMA Written ==
    ASSUME NEW d \in [Workers -> Ways], NEW w \in Workers, NEW m \in Messages
    PROVE  /\ WriteMessage(d, w, m) \in [Workers -> Ways]
           /\ \A v \in Workers : v # w => WriteMessage(d, w, m)[v] = d[v]
           /\ \A n : n \in OnTheWay(WriteMessage(d, w, m)[w]) <=> n \in OnTheWay(d[w]) \/ n = m
           /\ DistinctOnTheWay(d[w]) /\ (\A n \in OnTheWay(d[w]) : n.call # m.call)
                => DistinctOnTheWay(WriteMessage(d, w, m)[w])
  <1> DEFINE e == WriteMessage(d, w, m)
             p == d[w].pending
             q == d[w].fifo
  <1>1. /\ d[w] \in Ways /\ p \in Seq(Messages) /\ q \in Seq(Messages)
        /\ d[w].scheduled \in BOOLEAN
    BY Zenon DEF Ways
  <1>2. \E s \in BOOLEAN :
           \/ e = [d EXCEPT ![w] = [pending |-> p, scheduled |-> s, fifo |-> Append(q, m)]]
           \/ e = [d EXCEPT ![w] = [pending |-> Append(p, m), scheduled |-> s, fifo |-> q]]
    <2>1. CASE WritesDirectly(w)
      <3>1. e = [d EXCEPT ![w].fifo = Append(@, m)]
        BY <2>1, Zenon DEF WriteMessage
      <3>2. e = [d EXCEPT ![w] = [pending |-> p, scheduled |-> d[w].scheduled, fifo |-> Append(q, m)]]
        BY <1>1, <3>1, Zenon DEF Ways
      <3> QED BY <1>1, <3>2, Zenon
    <2>2. CASE ~WritesDirectly(w)
      <3> DEFINE s == d[w].scheduled \/ conn[w] # "kCreated"
      <3>1. e = [d EXCEPT ![w].pending = Append(@, m), ![w].scheduled = @ \/ conn[w] # "kCreated"]
        BY <2>2, Zenon DEF WriteMessage
      <3>2. s \in BOOLEAN
        BY <1>1, Zenon
      <3>3. e = [d EXCEPT ![w] = [pending |-> Append(p, m), scheduled |-> s, fifo |-> q]]
        BY <1>1, <3>1, Zenon DEF Ways
      <3> QED BY <3>2, <3>3, Zenon
    <2> QED BY <2>1, <2>2, Zenon
  <1> HIDE DEF e, p, q
  <1>3. /\ Append(p, m) \in Seq(Messages) /\ Range(Append(p, m)) = Range(p) \cup {m}
        /\ Append(q, m) \in Seq(Messages) /\ Range(Append(q, m)) = Range(q) \cup {m}
        /\ DistinctCalls(p) /\ (\A n \in Range(p) : n.call # m.call) => DistinctCalls(Append(p, m))
        /\ DistinctCalls(q) /\ (\A n \in Range(q) : n.call # m.call) => DistinctCalls(Append(q, m))
    BY <1>1, Appended, Zenon
  <1>4. PICK s \in BOOLEAN :
           \/ e = [d EXCEPT ![w] = [pending |-> p, scheduled |-> s, fifo |-> Append(q, m)]]
           \/ e = [d EXCEPT ![w] = [pending |-> Append(p, m), scheduled |-> s, fifo |-> q]]
    BY <1>2, Zenon
  <1>5. CASE e = [d EXCEPT ![w] = [pending |-> p, scheduled |-> s, fifo |-> Append(q, m)]]
    <2>1. /\ e[w].pending = p /\ e[w].fifo = Append(q, m) /\ e \in [Workers -> Ways]
          /\ \A v \in Workers : v # w => e[v] = d[v]
      BY <1>1, <1>3, <1>5, Zenon DEF Ways
    <2> QED BY <1>3, <2>1, Zenon DEF OnTheWay, DistinctOnTheWay, p, q, e
  <1>6. CASE e = [d EXCEPT ![w] = [pending |-> Append(p, m), scheduled |-> s, fifo |-> q]]
    <2>1. /\ e[w].pending = Append(p, m) /\ e[w].fifo = q /\ e \in [Workers -> Ways]
          /\ \A v \in Workers : v # w => e[v] = d[v]
      BY <1>1, <1>3, <1>6, Zenon DEF Ways
    <2> QED BY <1>3, <2>1, Zenon DEF OnTheWay, DistinctOnTheWay, p, q, e
  <1> QED BY <1>4, <1>5, <1>6, Zenon

\* The worker reads a message from its FIFO.
LEMMA Read ==
    ASSUME NEW d \in Ways, DistinctOnTheWay(d), d.fifo # <<>>
    PROVE  LET h == Head(d.fifo)
               e == [d EXCEPT !.fifo = Tail(@)]
           IN  /\ h \in Messages /\ e \in Ways /\ DistinctOnTheWay(e)
               /\ OnTheWay(d) = OnTheWay(e) \cup {h}
               /\ \A n \in OnTheWay(e) : n.call # h.call
  <1> DEFINE e == [d EXCEPT !.fifo = Tail(@)]
             h == Head(d.fifo)
  <1>1. d.pending \in Seq(Messages) /\ d.fifo \in Seq(Messages)
    BY Zenon DEF Ways
  <1>2. e.pending = d.pending /\ e.fifo = Tail(d.fifo) /\ (Tail(d.fifo) \in Seq(Messages) => e \in Ways)
    BY <1>1, Zenon DEF Ways
  <1> HIDE DEF e, h
  <1>3. /\ h \in Messages /\ e.fifo \in Seq(Messages) /\ DistinctCalls(e.fifo)
        /\ Range(d.fifo) = Range(e.fifo) \cup {h}
        /\ \A n \in Range(e.fifo) : n.call # h.call
    BY <1>1, <1>2, Taken DEF DistinctOnTheWay, h
  <1> QED BY <1>1, <1>2, <1>3, Zenon DEF OnTheWay, DistinctOnTheWay, e, h

\* SendPendingMessages moves the pending messages behind those in the FIFO.
LEMMA Sent ==
    ASSUME NEW d \in Ways
    PROVE  /\ AllSent(d) \in Ways /\ OnTheWay(AllSent(d)) = OnTheWay(d)
           /\ DistinctOnTheWay(d) => DistinctOnTheWay(AllSent(d))
  <1> DEFINE e == AllSent(d)
  <1>1. d.pending \in Seq(Messages) /\ d.fifo \in Seq(Messages)
    BY Zenon DEF Ways
  <1>2. e.pending = <<>> /\ e.fifo = d.fifo \o d.pending /\ e.scheduled = FALSE
    BY Zenon DEF AllSent
  <1>3. /\ e.fifo \in Seq(Messages) /\ Range(e.fifo) = Range(d.fifo) \cup Range(d.pending)
        /\ DistinctCalls(d.fifo) /\ DistinctCalls(d.pending)
             /\ (\A m \in Range(d.pending), n \in Range(d.fifo) : m.call # n.call)
             => DistinctCalls(e.fifo)
    BY <1>1, <1>2, Joined, Zenon
  <1>4. e \in Ways
    BY <1>1, <1>3 DEF Ways, AllSent
  <1>5. Range(e.pending) = {} /\ DistinctCalls(e.pending)
    BY <1>2 DEF Range, DistinctCalls
  <1> HIDE DEF e
  <1> QED BY <1>3, <1>4, <1>5, Zenon DEF OnTheWay, DistinctOnTheWay, e
-----------------------------------------------------------------------------
(***************************************************************************)
(* The invariant.                                                          *)
(***************************************************************************)

Up(w) == Range(up[w])
Down(w) == OnTheWay(down[w])
Queue(f) == Range(pending_func_calls[f])

EngineTypes ==
    /\ use_fifo_for_nested_call \in BOOLEAN /\ direct_write \in BOOLEAN /\ lib \in Libs
    /\ engine_up \in BOOLEAN /\ gateway_up \in BOOLEAN /\ inflight_external_requests \in Int
    /\ func_workers \subseteq Workers
    /\ running_workers \in [Workers -> Calls \cup {NoCall}]
    /\ discarding \in [NestedCalls -> {"no", "queued", "opened", "done"}]
ConnTypes ==
    /\ conn \in [Workers -> {"kCreated", "kHandshake", "kRunning", "kClosing", "kClosed"}]
    /\ handshake_done \subseteq Workers
MessageTypes ==
    /\ pending_func_calls \in [Funcs -> Seq(Messages)]
    /\ down \in [Workers -> Ways]
    /\ up \in [Workers -> Seq(Messages)]
WorkerTypes ==
    /\ proc \in [Workers -> {"starting", "idle", "executing", "writing", "dead"}]
    /\ current \in [Workers -> Calls \cup {NoCall}]
    /\ waiting \in [Workers -> SUBSET NestedCalls]
    /\ held \in [Workers -> SUBSET NestedCalls]
    /\ writing \in [Workers -> {"nothing", "failed", "data", "region"}]
CallTypes ==
    /\ shm \subseteq {"input", "output"} \X Calls
    /\ output_fifo \in [NestedCalls -> {"none", "empty", "failed", "data", "region", "left"}]
    /\ result \in [Calls -> {"unused", "open", "ok", "failed", "timeout", "lost"}]
    /\ outcome \in [Calls -> {"none", "ok", "failed", "abandoned"}]

\* The type of the engine's, the workers' and the files' state.
TypeOK == EngineTypes /\ ConnTypes /\ MessageTypes /\ WorkerTypes /\ CallTypes

\* No two messages of a queue are about the same call.
MessagesDistinct ==
    /\ \A f \in Funcs : DistinctCalls(pending_func_calls[f])
    /\ \A w \in Workers : DistinctCalls(up[w]) /\ DistinctOnTheWay(down[w])

NotRunning(c) == \A w \in Workers : running_workers[w] # c
Discarded(c) == c \in NestedCalls /\ discarding[c] # "no"
NotStarted(c) == outcome[c] = "none" /\ ~Discarded(c) /\ NotRunning(c)
NotQueued(c) == \A f \in Funcs : \A m \in Queue(f) : m.call # c
InputThere(c) == <<"input", c>> \in shm \/ result[c] = "timeout"
OutputThere(c) == <<"output", c>> \in shm
Readable == {"failed", "data", "region"}
Failures == {"failed", "abandoned"}

\* Somebody still waits for call c, unless its caller has died or timed out.
Awaited(c) ==
    IF c \in ExternalCalls THEN result[c] = "open"
    ELSE /\ result[c] # "unused"
         /\ \/ c \in waiting[Caller[c]] \/ proc[Caller[c]] = "dead" \/ result[c] = "timeout"

\* The answer to call c goes through the engine.
ByEngine(c) == c \in ExternalCalls \/ ~use_fifo_for_nested_call

\* What the message of a worker that is done with a call says is true.
Reports(m) ==
    IF ByEngine(m.call)
    THEN /\ Awaited(m.call)
         /\ IF m.type = "complete" THEN outcome[m.call] = "ok" ELSE outcome[m.call] \in Failures
         /\ m.shm <=> OutputThere(m.call)
    ELSE ~m.shm

QueuedOK(f, m) ==
    /\ m.type = "dispatch" /\ Callee[m.call] = f
    /\ NotStarted(m.call) /\ Awaited(m.call) /\ (m.shm => InputThere(m.call))
InvokeOK(w, m) ==
    /\ m.type = "invoke" /\ m.call \in NestedCalls /\ Caller[m.call] = w /\ NotQueued(m.call)
    /\ NotStarted(m.call) /\ Awaited(m.call) /\ (m.shm => InputThere(m.call))
DoneOK(w, m) ==
    /\ m.type \in Done /\ running_workers[w] = m.call /\ current[w] = NoCall
    /\ Reports(m)
DispatchOK(w, m) ==
    /\ m.type = "dispatch" /\ running_workers[w] = m.call /\ current[w] = NoCall
    /\ \A n \in Up(w) : n.type \notin Done
    /\ outcome[m.call] = "none" /\ Awaited(m.call) /\ (m.shm => InputThere(m.call))
AnswerOK(w, m) ==
    /\ m.type \in Done /\ m.call \in NestedCalls /\ Caller[m.call] = w
    /\ ~use_fifo_for_nested_call /\ NotRunning(m.call)
    /\ Reports(m)

\* What each message that is under way stands for.
QueueInv == \A f \in Funcs : \A m \in Queue(f) : QueuedOK(f, m)
UpInv == \A w \in Workers : \A m \in Up(w) : InvokeOK(w, m) \/ DoneOK(w, m)
DownInv == \A w \in Workers : \A m \in Down(w) : DispatchOK(w, m) \/ AnswerOK(w, m)

\* The call that worker w executes.
CurrentOK(w) ==
    current[w] # NoCall =>
        /\ running_workers[w] = current[w] /\ Awaited(current[w]) /\ ~OutputThere(current[w])
        /\ current[w] \in NestedCalls => output_fifo[current[w]] \notin Readable
        /\ proc[w] = "executing" => outcome[current[w]] = "none"
        /\ proc[w] = "writing" =>
              /\ use_fifo_for_nested_call /\ current[w] \in NestedCalls
              /\ writing[w] \in Readable
              /\ outcome[current[w]] = IF writing[w] = "failed" THEN "failed" ELSE "ok"

\* A worker that has not finished its handshake does not run.
ConnOK(w) ==
    /\ conn[w] = "kCreated" => w \notin func_workers /\ running_workers[w] = NoCall
    /\ conn[w] \in {"kCreated", "kHandshake"} => proc[w] \in {"starting", "dead"}

LocalOK(w) ==
    /\ proc[w] \in {"executing", "writing"} <=> current[w] # NoCall
    /\ lib # "event" /\ proc[w] # "executing" => waiting[w] = {}
    /\ lib = "v1" /\ ~use_fifo_for_nested_call => \A g, h \in waiting[w] : g = h
    /\ proc[w] # "executing" => held[w] = {}
    /\ \A g \in waiting[w] \cup held[w] : Caller[g] = w

WorkerInv ==
    /\ \A w \in Workers : ConnOK(w) /\ LocalOK(w) /\ CurrentOK(w)
    /\ \A v, w \in Workers : running_workers[v] = running_workers[w] /\ v # w
                               => running_workers[v] = NoCall

\* Each region has somebody who removes it.
Owned(c) ==
    /\ <<"input", c>> \in shm =>
          \/ c \in ExternalCalls /\ result[c] = "open"
          \/ c \in NestedCalls /\ (proc[Caller[c]] = "dead" \/ c \in waiting[Caller[c]])
    /\ <<"output", c>> \in shm =>
          \/ c \in ExternalCalls /\ result[c] = "open"
          \/ /\ c \in NestedCalls
             /\ \/ proc[Caller[c]] = "dead" \/ c \in waiting[Caller[c]] \cup held[Caller[c]]
                \/ result[c] = "timeout"

FifoOK(g) ==
    /\ output_fifo[g] # "none" => use_fifo_for_nested_call
    /\ output_fifo[g] \in {"data", "region"} => outcome[g] = "ok"
    /\ output_fifo[g] = "failed" => outcome[g] = "failed" \/ Discarded(g)
    /\ output_fifo[g] \in Readable => (output_fifo[g] = "region" <=> OutputThere(g))

CallOK(c) ==
    /\ result[c] = "unused" => NotStarted(c)
    /\ Discarded(c) => outcome[c] = "none" /\ NotRunning(c)
    /\ result[c] = "timeout" => c \in NestedCalls /\ use_fifo_for_nested_call
    /\ result[c] = "ok" => outcome[c] = "ok"
    /\ result[c] = "failed" => outcome[c] \in Failures \/ Discarded(c)
    /\ OutputThere(c) => outcome[c] = "ok"
    /\ Owned(c)
    /\ c \in NestedCalls =>
          /\ FifoOK(c)
          /\ c \in waiting[Caller[c]] => result[c] = "open"
          /\ c \in held[Caller[c]] => /\ result[c] \in {"ok", "failed"}
                                      /\ output_fifo[c] = "none"
                                      /\ ~use_fifo_for_nested_call => NotRunning(c)

CallInv == \A c \in Calls : CallOK(c)

IInv == /\ TypeOK /\ MessagesDistinct /\ QueueInv /\ UpInv /\ DownInv /\ WorkerInv /\ CallInv
-----------------------------------------------------------------------------
(***************************************************************************)
(* A call is in one place.                                                 *)
(***************************************************************************)

\* Two messages of a queue that are about the same call are the same.
LEMMA SameMessage ==
    ASSUME NEW q \in Seq(Messages), DistinctCalls(q), NEW m \in Range(q), NEW n \in Range(q),
           m.call = n.call
    PROVE  m = n
  <1>1. DOMAIN q = 1..Len(q)
    OBVIOUS
  <1>2. PICK i \in 1..Len(q) : m = q[i]
    BY <1>1, Zenon DEF Range
  <1>3. PICK j \in 1..Len(q) : n = q[j]
    BY <1>1, Zenon DEF Range
  <1> QED BY <1>2, <1>3, Zenon DEF DistinctCalls

\* The messages under way are messages.
LEMMA MessagesTyped ==
    ASSUME MessageTypes
    PROVE  /\ \A w \in Workers : Up(w) \subseteq Messages /\ Down(w) \subseteq Messages
           /\ \A f \in Funcs : Queue(f) \subseteq Messages
  <1>1. ASSUME NEW q \in Seq(Messages) PROVE Range(q) \subseteq Messages
    BY DEF Range
  <1>2. ASSUME NEW w \in Workers PROVE Up(w) \subseteq Messages
    BY <1>1, Zenon DEF MessageTypes, Up
  <1>3. ASSUME NEW w \in Workers PROVE Down(w) \subseteq Messages
    <2>1. down[w].pending \in Seq(Messages) /\ down[w].fifo \in Seq(Messages)
      BY Zenon DEF MessageTypes, Ways
    <2> QED BY <1>1, <2>1, Zenon DEF Down, OnTheWay
  <1>4. ASSUME NEW f \in Funcs PROVE Queue(f) \subseteq Messages
    BY <1>1, Zenon DEF MessageTypes, Queue
  <1> QED BY <1>2, <1>3, <1>4, Zenon

\* A call that a worker runs is nowhere else.
LEMMA RunningOnly ==
    ASSUME IInv, NEW w \in Workers, NEW c \in Calls, running_workers[w] = c
    PROVE  /\ \A v \in Workers : \A m \in Up(v) : m.call = c => v = w /\ m.type \in Done
           /\ \A v \in Workers : \A m \in Down(v) : m.call = c => v = w /\ m.type = "dispatch"
           /\ NotQueued(c) /\ ~Discarded(c) /\ result[c] # "unused"
           /\ \A v \in Workers : current[v] = c => v = w
  <1>1. /\ ~NotRunning(c) /\ c # NoCall /\ CallOK(c)
        /\ \A v \in Workers : running_workers[v] = c => v = w
    BY CallAssumption, Zenon DEF IInv, WorkerInv, CallInv, NotRunning
  <1>2. \A v \in Workers : \A m \in Up(v) : m.call = c => v = w /\ m.type \in Done
    BY <1>1, Zenon DEF IInv, UpInv, InvokeOK, DoneOK, NotStarted
  <1>3. \A v \in Workers : \A m \in Down(v) : m.call = c => v = w /\ m.type = "dispatch"
    BY <1>1, Zenon DEF IInv, DownInv, DispatchOK, AnswerOK
  <1>4. NotQueued(c)
    BY <1>1, Zenon DEF IInv, QueueInv, QueuedOK, NotStarted, NotQueued
  <1>5. ~Discarded(c) /\ result[c] # "unused"
    BY <1>1, Zenon DEF CallOK, NotStarted
  <1>6. \A v \in Workers : current[v] = c => v = w
    BY <1>1, Zenon DEF IInv, WorkerInv, CurrentOK
  <1> QED BY <1>2, <1>3, <1>4, <1>5, <1>6, Zenon

\* A call without an outcome that was not discarded and that no worker runs has no
\* message on its way to a worker.
LEMMA NotOnTheWay ==
    ASSUME IInv, NEW c \in Calls, NotStarted(c)
    PROVE  /\ \A v \in Workers : \A m \in Up(v) : m.call = c => m.type = "invoke" /\ v = Caller[c]
           /\ \A v \in Workers : \A m \in Down(v) : m.call # c
           /\ \A v \in Workers : current[v] # c
  <1>1. \A v \in Workers : \A m \in Up(v) : m.call = c => m.type = "invoke" /\ v = Caller[c]
    BY Zenon DEF IInv, UpInv, InvokeOK, DoneOK, NotStarted, NotRunning
  <1>2. ASSUME NEW v \in Workers, NEW m \in Down(v), m.call = c PROVE FALSE
    <2>1. AnswerOK(v, m)
      BY <1>2, Zenon DEF IInv, DownInv, DispatchOK, NotStarted, NotRunning
    <2>2. ByEngine(c) /\ Reports(m)
      BY <1>2, <2>1, Zenon DEF AnswerOK, ByEngine
    <2> QED BY <1>2, <2>2, Zenon DEF Reports, NotStarted, Failures
  <1>3. \A v \in Workers : current[v] # c
    BY CallAssumption, Zenon DEF IInv, WorkerInv, CurrentOK, NotStarted, NotRunning
  <1> QED BY <1>1, <1>2, <1>3, Zenon

\* A call that has an outcome, or was discarded, is not about to be run.
LEMMA NotAboutToRun ==
    ASSUME IInv, NEW c \in Calls, outcome[c] # "none" \/ Discarded(c)
    PROVE  /\ NotQueued(c)
           /\ \A v \in Workers : \A m \in Up(v) : m.call = c => m.type \in Done
           /\ \A v \in Workers : \A m \in Down(v) : m.call = c => m.type \in Done
  <1>1. ~NotStarted(c) /\ (Discarded(c) => NotRunning(c))
    BY Zenon DEF NotStarted, IInv, CallInv, CallOK
  <1>2. NotQueued(c)
    BY <1>1, Zenon DEF IInv, QueueInv, QueuedOK, NotQueued
  <1>3. \A v \in Workers : \A m \in Up(v) : m.call = c => m.type \in Done
    BY <1>1, Zenon DEF IInv, UpInv, InvokeOK, DoneOK
  <1>4. \A v \in Workers : \A m \in Down(v) : m.call = c => m.type \in Done
    BY <1>1, Zenon DEF IInv, DownInv, DispatchOK, AnswerOK, NotRunning
  <1> QED BY <1>2, <1>3, <1>4, Zenon

\* The answer to a call that the engine hands on is the only message about it.
LEMMA AnswerOnly ==
    ASSUME IInv, NEW w \in Workers, NEW m \in Down(w), m.type # "dispatch"
    PROVE  /\ AnswerOK(w, m) /\ m.call \in NestedCalls
           /\ outcome[m.call] # "none" /\ NotQueued(m.call)
           /\ \A v \in Workers : \A n \in Up(v) : n.call # m.call
           /\ \A v \in Workers : \A n \in Down(v) : n.call = m.call => v = w /\ n.type # "dispatch"
           /\ \A v \in Workers : current[v] # m.call
  <1>1. AnswerOK(w, m)
    BY Zenon DEF IInv, DownInv, DispatchOK
  <1>2. m.call \in NestedCalls /\ m.call \in Calls /\ NotRunning(m.call) /\ ByEngine(m.call)
    BY <1>1, Zenon DEF AnswerOK, ByEngine, Calls
  <1>3. outcome[m.call] # "none" /\ m.call # NoCall
    BY <1>1, <1>2, CallAssumption, Zenon DEF AnswerOK, Reports, Failures
  <1>4. /\ NotQueued(m.call)
        /\ \A v \in Workers : \A n \in Up(v) : n.call = m.call => n.type \in Done
        /\ \A v \in Workers : \A n \in Down(v) : n.call = m.call => n.type \in Done
    BY <1>2, <1>3, NotAboutToRun, Zenon
  <1>5. \A v \in Workers : \A n \in Up(v) : n.call # m.call
    BY <1>2, <1>4, Zenon DEF IInv, UpInv, InvokeOK, DoneOK, Done, NotRunning
  <1>6. \A v \in Workers : \A n \in Down(v) : n.call = m.call => v = w /\ n.type # "dispatch"
    BY <1>1, <1>4 DEF IInv, DownInv, DispatchOK, AnswerOK, Done
  <1>7. \A v \in Workers : current[v] # m.call
    BY <1>2, <1>3, Zenon DEF IInv, WorkerInv, CurrentOK, NotRunning
  <1> QED BY <1>1, <1>2, <1>3, <1>4, <1>5, <1>6, <1>7, Zenon
-----------------------------------------------------------------------------
(***************************************************************************)
(* What a step leaves as it was.                                           *)
(***************************************************************************)

\* The step does not touch call c.
Same(c) ==
    /\ outcome'[c] = outcome[c] /\ result'[c] = result[c]
    /\ (Discarded(c)' <=> Discarded(c)) /\ (NotRunning(c) => NotRunning(c)')
    /\ <<"input", c>> \in shm' <=> <<"input", c>> \in shm
    /\ <<"output", c>> \in shm' <=> <<"output", c>> \in shm
    /\ c \in NestedCalls =>
          /\ output_fifo'[c] = output_fifo[c]
          /\ c \in waiting'[Caller[c]] <=> c \in waiting[Caller[c]]
          /\ c \in held'[Caller[c]] <=> c \in held[Caller[c]]
          /\ proc[Caller[c]] = "dead" => proc'[Caller[c]] = "dead"

\* The messages about call c, and the worker that executes it, stay right.
Kept(c) ==
    /\ outcome'[c] = outcome[c]
    /\ (Discarded(c)' <=> Discarded(c)) /\ (NotRunning(c) => NotRunning(c)')
    /\ (Awaited(c) => Awaited(c)') /\ (InputThere(c) => InputThere(c)')
    /\ OutputThere(c)' => OutputThere(c)
    /\ ByEngine(c) /\ Awaited(c) /\ OutputThere(c) => OutputThere(c)'
    /\ c \in NestedCalls /\ output_fifo'[c] \in Readable => output_fifo[c] \in Readable

LEMMA SameKept ==
    ASSUME NEW c \in Calls, Same(c), UNCHANGED use_fifo_for_nested_call
    PROVE  Kept(c) /\ (CallOK(c) => CallOK(c)')
  <1>1. Awaited(c) => Awaited(c)'
    BY Zenon DEF Same, Awaited, Calls
  <1>2. (InputThere(c)' <=> InputThere(c)) /\ (OutputThere(c)' <=> OutputThere(c))
    BY Zenon DEF Same, InputThere, OutputThere
  <1>3. Kept(c)
    BY <1>1, <1>2, Zenon DEF Same, Kept
  <1>4. NotStarted(c) => NotStarted(c)'
    BY Zenon DEF Same, NotStarted
  <1>5. Owned(c) => Owned(c)'
    BY Zenon DEF Same, Owned
  <1>6. c \in NestedCalls => (FifoOK(c) => FifoOK(c)')
    BY <1>2, Zenon DEF Same, FifoOK
  <1>7. CallOK(c) => CallOK(c)'
    BY <1>2, <1>4, <1>5, <1>6, Zenon DEF Same, CallOK
  <1> QED BY <1>3, <1>7, Zenon

\* What a message says of a call stays true with the call.
LEMMA MessageKept ==
    ASSUME NEW w \in Workers, NEW m, Kept(m.call), UNCHANGED use_fifo_for_nested_call
    PROVE  /\ \A f : QueuedOK(f, m) => QueuedOK(f, m)'
           /\ InvokeOK(w, m) /\ NotQueued(m.call)' => InvokeOK(w, m)'
           /\ DoneOK(w, m) /\ running_workers'[w] = m.call /\ current'[w] = NoCall
                => DoneOK(w, m)'
           /\ DispatchOK(w, m) /\ running_workers'[w] = m.call /\ current'[w] = NoCall
                /\ (\A n \in Up(w)' : n.type \notin Done) => DispatchOK(w, m)'
           /\ AnswerOK(w, m) => AnswerOK(w, m)'
  <1>1. NotStarted(m.call) => NotStarted(m.call)'
    BY Zenon DEF Kept, NotStarted
  <1>2. Reports(m) => Reports(m)'
    BY Zenon DEF Kept, Reports, ByEngine
  <1>3. \A f : QueuedOK(f, m) => QueuedOK(f, m)'
    BY <1>1, Zenon DEF Kept, QueuedOK
  <1>4. InvokeOK(w, m) /\ NotQueued(m.call)' => InvokeOK(w, m)'
    BY <1>1, Zenon DEF Kept, InvokeOK
  <1>5. DoneOK(w, m) /\ running_workers'[w] = m.call /\ current'[w] = NoCall => DoneOK(w, m)'
    BY <1>2, Zenon DEF DoneOK
  <1>6. DispatchOK(w, m) /\ running_workers'[w] = m.call /\ current'[w] = NoCall
           /\ (\A n \in Up(w)' : n.type \notin Done) => DispatchOK(w, m)'
    BY Zenon DEF Kept, DispatchOK
  <1>7. AnswerOK(w, m) => AnswerOK(w, m)'
    BY <1>2, Zenon DEF Kept, AnswerOK
  <1> QED BY <1>3, <1>4, <1>5, <1>6, <1>7, Zenon

UpOK(w) == \A m \in Up(w) : InvokeOK(w, m) \/ DoneOK(w, m)
DownOK(w) == \A m \in Down(w) : DispatchOK(w, m) \/ AnswerOK(w, m)

\* The step leaves what worker v does as it was. It may take messages from it, and
\* send it answers.
Untouched(v) ==
    /\ Up(v)' \subseteq Up(v) /\ \A m \in Down(v)' : m \in Down(v) \/ AnswerOK(v, m)'
    /\ running_workers'[v] = running_workers[v] /\ current'[v] = current[v]
    /\ proc'[v] = proc[v] /\ writing'[v] = writing[v]
    /\ waiting'[v] = waiting[v] /\ held'[v] = held[v]

\* Worker v is not concerned when call c is touched.
Unconcerned(v, c) ==
    /\ current[v] = c => c = NoCall
    /\ \A m \in Down(v) : m.call # c
    /\ \A m \in Up(v) : m \in Up(v)' /\ m.call = c => DoneOK(v, m)'

\* A worker that the step does not touch.
LEMMA UntouchedOK ==
    ASSUME IInv, UNCHANGED <<use_fifo_for_nested_call, lib>>, NEW C,
           \A d \in Calls : d \in C \/ (Kept(d) /\ (NotQueued(d) => NotQueued(d)')),
           NEW v \in Workers, Untouched(v), \A c \in C : Unconcerned(v, c)
    PROVE  UpOK(v)' /\ DownOK(v)' /\ LocalOK(v)' /\ CurrentOK(v)'
  <1>1. \A m \in Up(v) \cup Down(v) : m.call \in Calls
    BY MessagesTyped, Zenon DEF IInv, TypeOK, Messages
  <1>2. UpOK(v) /\ DownOK(v) /\ LocalOK(v) /\ CurrentOK(v)
    BY Zenon DEF IInv, UpInv, DownInv, WorkerInv, UpOK, DownOK
  <1>3. UpOK(v)'
    <2> SUFFICES ASSUME NEW m \in Up(v)' PROVE (InvokeOK(v, m) \/ DoneOK(v, m))'
      BY Zenon DEF UpOK
    <2>1. m \in Up(v) /\ m.call \in Calls /\ (InvokeOK(v, m) \/ DoneOK(v, m))
      BY <1>1, <1>2, Zenon DEF Untouched, UpOK
    <2>2. CASE m.call \in C
      BY <2>1, <2>2, Zenon DEF Unconcerned
    <2>3. CASE m.call \notin C
      <3>1. Kept(m.call) /\ (NotQueued(m.call) => NotQueued(m.call)')
        BY <2>1, <2>3, Zenon
      <3>2. CASE InvokeOK(v, m)
        <4>1. NotQueued(m.call)'
          BY <3>1, <3>2, Zenon DEF InvokeOK
        <4> QED BY <3>1, <3>2, <4>1, MessageKept, Zenon
      <3>3. CASE DoneOK(v, m)
        <4>1. running_workers'[v] = m.call /\ current'[v] = NoCall
          BY <3>3, Zenon DEF Untouched, DoneOK
        <4> QED BY <3>1, <3>3, <4>1, MessageKept, Zenon
      <3> QED BY <2>1, <3>2, <3>3, Zenon
    <2> QED BY <2>2, <2>3, Zenon
  <1>4. DownOK(v)'
    <2> SUFFICES ASSUME NEW m \in Down(v)', ~AnswerOK(v, m)' PROVE DispatchOK(v, m)'
      BY Zenon DEF DownOK
    <2>1. m \in Down(v) /\ m.call \in Calls /\ (DispatchOK(v, m) \/ AnswerOK(v, m))
      BY <1>1, <1>2, Zenon DEF Untouched, DownOK
    <2>2. Kept(m.call)
      BY <2>1, Zenon DEF Unconcerned
    <2>3. CASE DispatchOK(v, m)
      <3>1. /\ running_workers'[v] = m.call /\ current'[v] = NoCall
            /\ \A n \in Up(v)' : n.type \notin Done
        BY <2>3, Zenon DEF Untouched, DispatchOK
      <3> QED BY <2>2, <2>3, <3>1, MessageKept, Zenon
    <2>4. CASE AnswerOK(v, m)
      BY <2>2, <2>4, MessageKept, Zenon
    <2> QED BY <2>1, <2>3, <2>4, Zenon
  <1>5. LocalOK(v)'
    BY <1>2, Zenon DEF LocalOK, Untouched
  <1>6. CurrentOK(v)'
    <2>1. CASE current[v] = NoCall
      BY <2>1, Zenon DEF CurrentOK, Untouched
    <2>2. CASE current[v] # NoCall
      <3>1. PICK d \in Calls : d = current[v] /\ d = current'[v]
        BY <2>2, Zenon DEF Untouched, IInv, TypeOK, WorkerTypes
      <3>2. Kept(d)
        BY <2>2, <3>1, Zenon DEF Unconcerned
      <3> QED BY <1>2, <2>2, <3>1, <3>2 DEF CurrentOK, Kept, Untouched
    <2> QED BY <2>1, <2>2, Zenon
  <1> QED BY <1>3, <1>4, <1>5, <1>6, Zenon

\* A step that touches the calls in C and, of the workers, those in W.
LEMMA CallsStep ==
    ASSUME IInv, UNCHANGED <<use_fifo_for_nested_call, lib>>, TypeOK', MessagesDistinct',
           NEW W \in SUBSET Workers, NEW C,
           \A d \in Calls : CallOK(d)' /\ (d \in C \/ (Kept(d) /\ (NotQueued(d) => NotQueued(d)'))),
           \A f \in Funcs : \A m \in Queue(f)' : QueuedOK(f, m)' \/ (m \in Queue(f) /\ m.call \notin C),
           \A v \in Workers : ConnOK(v)',
           \A v \in Workers \ W : Untouched(v) /\ \A c \in C : Unconcerned(v, c),
           \A v \in W : UpOK(v)' /\ DownOK(v)' /\ LocalOK(v)' /\ CurrentOK(v)',
           \A v, w \in Workers : running_workers'[v] = running_workers'[w] /\ v # w
                                   => running_workers'[v] = NoCall
    PROVE  IInv'
  <1>1. \A d \in Calls : d \in C \/ (Kept(d) /\ (NotQueued(d) => NotQueued(d)'))
    BY Zenon
  <1>2. \A v \in Workers : UpOK(v)' /\ DownOK(v)' /\ LocalOK(v)' /\ CurrentOK(v)'
    BY <1>1, UntouchedOK, Zenon
  <1>3. QueueInv'
    <2> SUFFICES ASSUME NEW f \in Funcs, NEW m \in Queue(f)', m \in Queue(f), m.call \notin C
                 PROVE  QueuedOK(f, m)'
      BY Zenon DEF QueueInv
    <2>1. m \in Messages /\ QueuedOK(f, m)
      BY MessagesTyped, Zenon DEF IInv, TypeOK, QueueInv
    <2>2. Kept(m.call)
      BY <2>1, Zenon DEF Messages
    <2> QED BY <2>1, <2>2, Zenon DEF QueuedOK, Kept, NotStarted
  <1>4. UpInv' /\ DownInv' /\ CallInv'
    BY <1>2, Zenon DEF UpInv, DownInv, CallInv, UpOK, DownOK
  <1>5. WorkerInv'
    BY <1>2, Zenon DEF WorkerInv
  <1> QED BY <1>3, <1>4, <1>5, Zenon DEF IInv

\* A step that touches no queue of a dispatcher, one call, and of the workers
\* those in W.
LEMMA StepIInv ==
    ASSUME IInv, UNCHANGED <<use_fifo_for_nested_call, lib, pending_func_calls>>,
           TypeOK', MessagesDistinct',
           NEW W \in SUBSET Workers, NEW c, NotQueued(c),
           \A d \in Calls : CallOK(d)' /\ (d # c => Kept(d)),
           \A v \in Workers : ConnOK(v)',
           \A v \in Workers \ W : Untouched(v) /\ Unconcerned(v, c),
           \A v \in W : UpOK(v)' /\ DownOK(v)' /\ LocalOK(v)' /\ CurrentOK(v)',
           UNCHANGED running_workers
    PROVE  IInv'
  <1> DEFINE C == {c}
  <1>1. (\A f \in Funcs : Queue(f)' = Queue(f)) /\ \A d : NotQueued(d)' <=> NotQueued(d)
    BY Zenon DEF Queue, NotQueued
  <1>2. \A d \in Calls : CallOK(d)' /\ (d \in C \/ (Kept(d) /\ (NotQueued(d) => NotQueued(d)')))
    BY <1>1, Zenon
  <1>3. \A v \in Workers \ W : Untouched(v) /\ \A d \in C : Unconcerned(v, d)
    BY Zenon
  <1>4. \A f \in Funcs : \A m \in Queue(f)' : m \in Queue(f) /\ m.call \notin C
    BY <1>1, Zenon DEF NotQueued
  <1>5. \A v, w \in Workers : running_workers'[v] = running_workers'[w] /\ v # w
                                => running_workers'[v] = NoCall
    BY Zenon DEF IInv, WorkerInv
  <1> HIDE DEF C
  <1> QED BY <1>2, <1>3, <1>4, <1>5, CallsStep, Zenon

\* NoCall is not a call, and no message is about it.
LEMMA NoCallIsNone ==
    ASSUME IInv
    PROVE  /\ NoCall \notin Calls /\ NotQueued(NoCall)
           /\ \A v \in Workers : \A m \in Up(v) \cup Down(v) : m.call \in Calls /\ m.call # NoCall
           /\ \A v \in Workers : Unconcerned(v, NoCall)
  <1>1. NoCall \notin Calls
    BY CallAssumption, Zenon
  <1>2. \A v \in Workers : \A m \in Up(v) \cup Down(v) : m.call \in Calls /\ m.call # NoCall
    BY <1>1, MessagesTyped, Zenon DEF IInv, TypeOK, Messages
  <1>3. NotQueued(NoCall)
    BY <1>1, MessagesTyped, Zenon DEF IInv, TypeOK, Messages, NotQueued
  <1>4. \A v \in Workers : Unconcerned(v, NoCall)
    BY <1>2, Zenon DEF Unconcerned
  <1> QED BY <1>1, <1>2, <1>3, <1>4, Zenon

\* A call that the step does not touch stays right.
LEMMA CallsSame ==
    ASSUME IInv, UNCHANGED use_fifo_for_nested_call, NEW c, \A d \in Calls : d # c => Same(d)
    PROVE  \A d \in Calls : d # c => Kept(d) /\ CallOK(d)'
  BY SameKept, Zenon DEF IInv, CallInv

-----------------------------------------------------------------------------
(***************************************************************************)
(* Steps of the engine that neither take nor dispatch a call.              *)
(***************************************************************************)

LEMMA EngineStep ==
    ASSUME IInv, UNCHANGED <<flagVars, running_workers, pending_func_calls, up, workerVars>>,
           EngineTypes', ConnTypes', CallTypes', down' \in [Workers -> Ways],
           \A v \in Workers : /\ OnTheWay(down'[v]) = OnTheWay(down[v])
                              /\ DistinctOnTheWay(down'[v]) /\ ConnOK(v)',
           NEW c, NotQueued(c), \A v \in Workers : Unconcerned(v, c),
           \A d \in Calls : CallOK(d)' /\ (d # c => Kept(d))
    PROVE  IInv'
  <1>1. UNCHANGED <<use_fifo_for_nested_call, lib, proc, current, waiting, held, writing>>
    BY Zenon DEF flagVars, workerVars
  <1>2. MessageTypes' /\ WorkerTypes'
    BY <1>1, Zenon DEF IInv, TypeOK, MessageTypes, WorkerTypes
  <1>3. TypeOK' /\ MessagesDistinct'
    BY <1>2, Zenon DEF TypeOK, IInv, MessagesDistinct
  <1>4. \A v \in Workers : Untouched(v)
    BY <1>1, Zenon DEF Untouched, Up, Down
  <1>5. {} \in SUBSET Workers /\ \A v \in Workers \ {} : Untouched(v) /\ Unconcerned(v, c)
    BY <1>4, Zenon
  <1>6. \A v \in {} : UpOK(v)' /\ DownOK(v)' /\ LocalOK(v)' /\ CurrentOK(v)'
    BY Zenon
  <1> QED BY <1>1, <1>3, <1>5, <1>6, StepIInv, Zenon

\* The step touches no call.
LEMMA QuietStep ==
    ASSUME IInv, UNCHANGED <<flagVars, running_workers, pending_func_calls, up, workerVars,
                             fileVars, endVars>>,
           EngineTypes', ConnTypes', down' \in [Workers -> Ways],
           \A v \in Workers : /\ OnTheWay(down'[v]) = OnTheWay(down[v])
                              /\ DistinctOnTheWay(down'[v]) /\ ConnOK(v)',
           \A g \in NestedCalls : discarding'[g] = "no" <=> discarding[g] = "no"
    PROVE  IInv'
  <1>1. UNCHANGED <<use_fifo_for_nested_call, lib, proc, current, waiting, held, shm, output_fifo,
                    result, outcome>>
    BY Zenon DEF flagVars, workerVars, fileVars, endVars
  <1>2. \A d \in Calls : Same(d)
    BY <1>1, Zenon DEF Same, Discarded, NotRunning
  <1>3. \A d \in Calls : Kept(d) /\ CallOK(d)'
    BY <1>1, <1>2, SameKept, Zenon DEF IInv, CallInv
  <1>4. CallTypes'
    BY <1>1, Zenon DEF IInv, TypeOK, CallTypes
  <1>5. UNCHANGED <<flagVars, running_workers, pending_func_calls, up, workerVars>>
    BY Zenon
  <1> QED BY <1>3, <1>4, <1>5, NoCallIsNone, EngineStep, Zenon

\* What is under way to the workers, if the engine sends nothing.
LEMMA DownSame ==
    ASSUME IInv, UNCHANGED down
    PROVE  /\ down' \in [Workers -> Ways]
           /\ \A v \in Workers : OnTheWay(down'[v]) = OnTheWay(down[v]) /\ DistinctOnTheWay(down'[v])
  BY Zenon DEF IInv, TypeOK, MessageTypes, MessagesDistinct

LEMMA DownSent ==
    ASSUME IInv, NEW w \in Workers, down' = [down EXCEPT ![w] = AllSent(@)]
    PROVE  /\ down' \in [Workers -> Ways]
           /\ \A v \in Workers : OnTheWay(down'[v]) = OnTheWay(down[v]) /\ DistinctOnTheWay(down'[v])
  <1>1. down \in [Workers -> Ways] /\ \A v \in Workers : down[v] \in Ways /\ DistinctOnTheWay(down[v])
    BY Zenon DEF IInv, TypeOK, MessageTypes, MessagesDistinct
  <1>2. /\ AllSent(down[w]) \in Ways /\ OnTheWay(AllSent(down[w])) = OnTheWay(down[w])
        /\ DistinctOnTheWay(AllSent(down[w]))
    BY <1>1, Sent, Zenon
  <1> QED BY <1>1, <1>2, Zenon

\* The state of worker w's connection changes.
LEMMA ConnStep ==
    ASSUME IInv, NEW w \in Workers, UNCHANGED <<running_workers, proc>>,
           NEW s \in {"kRunning", "kClosing", "kClosed"}, conn' = [conn EXCEPT ![w] = s],
           func_workers' \subseteq func_workers, handshake_done' \subseteq Workers
    PROVE  ConnTypes' /\ \A v \in Workers : ConnOK(v)'
  <1>1. ConnTypes'
    BY Zenon DEF IInv, TypeOK, ConnTypes
  <1>2. \A v \in Workers : conn'[v] = IF v = w THEN s ELSE conn[v]
    BY Zenon DEF IInv, TypeOK, ConnTypes
  <1>3. \A v \in Workers : ConnOK(v)
    BY Zenon DEF IInv, WorkerInv
  <1> QED BY <1>1, <1>2, <1>3, Zenon DEF ConnOK

LEMMA ConnSame ==
    ASSUME IInv, UNCHANGED <<connVars, func_workers, running_workers, proc>>
    PROVE  ConnTypes' /\ \A v \in Workers : ConnOK(v)'
  <1>1. UNCHANGED <<conn, handshake_done>>
    BY Zenon DEF connVars
  <1>2. \A v \in Workers : ConnOK(v)
    BY Zenon DEF IInv, WorkerInv
  <1> QED BY <1>1, <1>2, Zenon DEF IInv, TypeOK, ConnTypes, ConnOK

\* The steps by which a connection is set up, used and closed, and the engine's
\* other steps that touch no call.
LEMMA QuietStepsIInv ==
    ASSUME IInv,
           \/ \E w \in Workers : \/ RecvHandshakeMessage(w) \/ FifoOpenFails(w) \/ SendPendingMessages(w)
                                 \/ ReadMessageEof(w) \/ OnConnectionClose(w) \/ GetFuncWorkerIsNull(w)
           \/ GatewayCloses
           \/ \E g \in NestedCalls : ProcessDiscardedFuncCall(g)
    PROVE  IInv'
  <1>1. EngineTypes /\ ConnTypes /\ down \in [Workers -> Ways]
    BY Zenon DEF IInv, TypeOK, MessageTypes
  <1> USE DEF engineVars, dispatcherVars
  <1>2. ASSUME NEW w \in Workers, RecvHandshakeMessage(w) PROVE IInv'
    <2>1. /\ UNCHANGED <<flagVars, engineVars, up, workerVars, fileVars, endVars>>
          /\ conn' = [conn EXCEPT ![w] = "kRunning"] /\ handshake_done' = handshake_done \cup {w}
          /\ down' = [down EXCEPT ![w] = AllSent(@)]
      BY <1>2, Zenon DEF RecvHandshakeMessage
    <2>2. ConnTypes' /\ \A v \in Workers : ConnOK(v)'
      BY <1>1, <2>1, ConnStep, Zenon DEF workerVars, ConnTypes
    <2>3. EngineTypes'
      BY <1>1, <2>1, Zenon DEF EngineTypes, flagVars
    <2> QED BY <2>1, <2>2, <2>3, DownSent, QuietStep, Zenon
  <1>3. ASSUME NEW w \in Workers, FifoOpenFails(w) PROVE IInv'
    <2>1. /\ UNCHANGED <<flagVars, gateway_up, dispatcherVars, discarding, inflight_external_requests,
                         handshake_done, down, up, workerVars, fileVars, endVars>>
          /\ conn' = [conn EXCEPT ![w] = "kClosing"] /\ engine_up' \in BOOLEAN
      BY <1>3, Zenon DEF FifoOpenFails
    <2>2. ConnTypes' /\ \A v \in Workers : ConnOK(v)'
      BY <1>1, <2>1, ConnStep, Zenon DEF workerVars, ConnTypes
    <2>3. EngineTypes'
      BY <1>1, <2>1, Zenon DEF EngineTypes, flagVars
    <2> QED BY <2>1, <2>2, <2>3, DownSame, QuietStep, Zenon
  <1>4. ASSUME NEW w \in Workers, SendPendingMessages(w) PROVE IInv'
    <2>1. /\ UNCHANGED <<flagVars, gateway_up, dispatcherVars, discarding, inflight_external_requests,
                         connVars, up, workerVars, fileVars, endVars>>
          /\ engine_up' \in BOOLEAN
          /\ \/ down' = [down EXCEPT ![w] = AllSent(@)]
             \/ down' = [down EXCEPT ![w].scheduled = FALSE]
      BY <1>1, <1>4, Zenon DEF SendPendingMessages, EngineTypes
    <2>2. ConnTypes' /\ \A v \in Workers : ConnOK(v)'
      BY <2>1, ConnSame, Zenon DEF workerVars
    <2>3. EngineTypes'
      BY <1>1, <2>1, Zenon DEF EngineTypes, flagVars
    <2>4. /\ down' \in [Workers -> Ways]
          /\ \A v \in Workers : OnTheWay(down'[v]) = OnTheWay(down[v]) /\ DistinctOnTheWay(down'[v])
      <3>1. CASE down' = [down EXCEPT ![w] = AllSent(@)]
        BY <3>1, DownSent, Zenon
      <3>2. CASE down' = [down EXCEPT ![w].scheduled = FALSE]
        <4>1. \A v \in Workers : down[v] \in Ways /\ DistinctOnTheWay(down[v])
          BY <1>1, Zenon DEF IInv, MessagesDistinct
        <4>2. /\ down' \in [Workers -> Ways]
              /\ \A v \in Workers : down'[v].pending = down[v].pending /\ down'[v].fifo = down[v].fifo
          BY <1>1, <3>2, Zenon DEF Ways
        <4> QED BY <4>1, <4>2, Zenon DEF OnTheWay, DistinctOnTheWay
      <3> QED BY <2>1, <3>1, <3>2, Zenon
    <2> QED BY <2>1, <2>2, <2>3, <2>4, QuietStep, Zenon
  <1>5. ASSUME NEW w \in Workers, ReadMessageEof(w) PROVE IInv'
    <2>1. /\ UNCHANGED <<flagVars, engineVars, handshake_done, down, up, workerVars, fileVars, endVars>>
          /\ conn' = [conn EXCEPT ![w] = "kClosing"]
      BY <1>5, Zenon DEF ReadMessageEof
    <2>2. ConnTypes' /\ \A v \in Workers : ConnOK(v)'
      BY <1>1, <2>1, ConnStep, Zenon DEF workerVars, ConnTypes
    <2>3. EngineTypes'
      BY <1>1, <2>1, Zenon DEF EngineTypes, flagVars
    <2> QED BY <2>1, <2>2, <2>3, DownSame, QuietStep, Zenon
  <1>6. ASSUME NEW w \in Workers, OnConnectionClose(w) PROVE IInv'
    <2>1. /\ UNCHANGED <<flagVars, engine_up, gateway_up, running_workers, pending_func_calls, discarding,
                         inflight_external_requests, handshake_done, down, up, workerVars, fileVars,
                         endVars>>
          /\ conn' = [conn EXCEPT ![w] = "kClosed"] /\ func_workers' \subseteq func_workers
      BY <1>6, Zenon DEF OnConnectionClose, OnFuncWorkerDisconnected
    <2>2. ConnTypes' /\ \A v \in Workers : ConnOK(v)'
      BY <1>1, <2>1, ConnStep, Zenon DEF workerVars, ConnTypes
    <2>3. EngineTypes'
      BY <1>1, <2>1, Zenon DEF EngineTypes, flagVars
    <2> QED BY <2>1, <2>2, <2>3, DownSame, QuietStep, Zenon
  <1>7. ASSUME \/ \E w \in Workers : GetFuncWorkerIsNull(w)
               \/ GatewayCloses
               \/ \E g \in NestedCalls : ProcessDiscardedFuncCall(g)
        PROVE  IInv'
    <2>1. /\ UNCHANGED <<flagVars, dispatcherVars, inflight_external_requests, connVars, down, up,
                         workerVars, fileVars, endVars>>
          /\ engine_up' \in BOOLEAN /\ gateway_up' \in BOOLEAN
      BY <1>1, <1>7, Zenon
         DEF GetFuncWorkerIsNull, GatewayCloses, ProcessDiscardedFuncCall, EngineTypes
    <2>2. /\ discarding' \in [NestedCalls -> {"no", "queued", "opened", "done"}]
          /\ \A g \in NestedCalls : discarding'[g] = "no" <=> discarding[g] = "no"
      BY <1>1, <1>7, Zenon
         DEF GetFuncWorkerIsNull, GatewayCloses, ProcessDiscardedFuncCall, EngineTypes
    <2>3. EngineTypes'
      BY <1>1, <2>1, <2>2, Zenon DEF EngineTypes, flagVars
    <2>4. ConnTypes' /\ \A v \in Workers : ConnOK(v)'
      BY <2>1, ConnSame, Zenon DEF workerVars
    <2> QED BY <2>1, <2>2, <2>3, <2>4, DownSame, QuietStep, Zenon
  <1> QED BY <1>2, <1>3, <1>4, <1>5, <1>6, <1>7, Zenon

LEMMA WriteDiscardedToFifoIInv ==
    ASSUME IInv, NEW g \in NestedCalls, WriteDiscardedToFifo(g)
    PROVE  IInv'
  <1>1. /\ UNCHANGED <<flagVars, gateway_up, func_workers, running_workers, pending_func_calls,
                       inflight_external_requests, connVars, down, up, workerVars, shm, result, outcome>>
        /\ discarding[g] = "opened" /\ discarding' = [discarding EXCEPT ![g] = "done"]
        /\ engine_up' \in BOOLEAN
        /\ \/ output_fifo[g] # "none" /\ output_fifo' = [output_fifo EXCEPT ![g] = "failed"]
           \/ UNCHANGED output_fifo
    BY Zenon
       DEF WriteDiscardedToFifo, dispatcherVars, endVars, FifoCanBeOpened, IInv, TypeOK, EngineTypes
  <1>2. UNCHANGED <<use_fifo_for_nested_call, lib, proc, current, waiting, held, writing>>
    BY <1>1, Zenon DEF flagVars, workerVars
  <1>3. g \in Calls /\ g # NoCall /\ Discarded(g)
    BY <1>1, CallAssumption, Zenon DEF Calls, Discarded
  <1>4. CallOK(g) /\ NotRunning(g) /\ outcome[g] = "none" /\ FifoOK(g)
    BY <1>3, Zenon DEF IInv, CallInv, CallOK
  <1>5. /\ discarding \in [NestedCalls -> {"no", "queued", "opened", "done"}]
        /\ output_fifo \in [NestedCalls -> {"none", "empty", "failed", "data", "region", "left"}]
    BY Zenon DEF IInv, TypeOK, EngineTypes, CallTypes
  <1>6. \A d \in Calls : d # g => Same(d)
    BY <1>1, <1>2, <1>5, Zenon DEF Same, Discarded, NotRunning
  <1>7. \A d \in Calls : d # g => Kept(d) /\ CallOK(d)'
    BY <1>2, <1>6, CallsSame, Zenon
  <1>8. CallOK(g)'
    <2>1. /\ Discarded(g)' /\ NotRunning(g)' /\ ~OutputThere(g)'
          /\ \/ output_fifo'[g] = output_fifo[g]
             \/ output_fifo[g] # "none" /\ output_fifo'[g] = "failed"
      BY <1>1, <1>2, <1>4, <1>5, Zenon DEF Discarded, NotRunning, CallOK, OutputThere
    <2>2. Owned(g)'
      BY <1>1, <1>2, <1>4, Zenon DEF CallOK, Owned
    <2>3. FifoOK(g)'
      BY <1>1, <1>2, <1>4, <2>1, Zenon DEF FifoOK, Readable
    <2> QED BY <1>1, <1>2, <1>3, <1>4, <2>1, <2>2, <2>3, Zenon DEF CallOK, NotStarted
  <1>9. NotQueued(g) /\ \A v \in Workers : Unconcerned(v, g)
    <2>1. /\ NotQueued(g)
          /\ \A v \in Workers : \A m \in Up(v) : m.call = g => m.type \in Done
          /\ \A v \in Workers : \A m \in Down(v) : m.call = g => m.type \in Done
      BY <1>3, NotAboutToRun, Zenon
    <2>2. \A v \in Workers : \A m \in Up(v) : m.call # g
      BY <1>4, <2>1, Zenon DEF IInv, UpInv, InvokeOK, DoneOK, Done, NotRunning
    <2>3. \A v \in Workers : \A m \in Down(v) : m.call # g
      BY <1>4, <2>1, AnswerOnly, Zenon DEF Done
    <2>4. \A v \in Workers : current[v] # g
      BY <1>3, <1>4, Zenon DEF IInv, WorkerInv, CurrentOK, NotRunning
    <2> QED BY <2>1, <2>2, <2>3, <2>4, Zenon DEF Unconcerned
  <1>10. EngineTypes' /\ CallTypes'
    BY <1>1, <1>5, Zenon DEF IInv, TypeOK, EngineTypes, CallTypes, flagVars
  <1>11. ConnTypes' /\ \A v \in Workers : ConnOK(v)'
    BY <1>1, <1>2, ConnSame, Zenon
  <1>12. UNCHANGED <<flagVars, running_workers, pending_func_calls, up, workerVars>>
    BY <1>1, Zenon
  <1>13. \A d \in Calls : CallOK(d)' /\ (d # g => Kept(d))
    BY <1>7, <1>8, Zenon
  <1>14. UNCHANGED down
    BY <1>1, Zenon
  <1> QED BY <1>9, <1>10, <1>11, <1>12, <1>13, <1>14, DownSame, EngineStep, Zenon

\* A call that the engine or its caller gives up for want of a file, before any
\* message about it is sent.
LEMMA AbandonedIInv ==
    ASSUME IInv, NEW c \in Calls, result[c] = "unused",
           result' = [result EXCEPT ![c] = "failed"],
           outcome' = [outcome EXCEPT ![c] = "abandoned"],
           UNCHANGED <<flagVars, engineVars, connVars, down, up, workerVars, fileVars>>
    PROVE  IInv'
  <1>1. UNCHANGED <<use_fifo_for_nested_call, direct_write, lib, engine_up, gateway_up, func_workers,
                    running_workers, pending_func_calls, discarding, inflight_external_requests>>
    BY Zenon DEF flagVars, engineVars, dispatcherVars
  <1>2. UNCHANGED <<conn, handshake_done, proc, current, waiting, held, writing, shm, output_fifo>>
    BY Zenon DEF connVars, workerVars, fileVars
  <1>3. CallOK(c) /\ NotStarted(c) /\ outcome[c] = "none" /\ ~Discarded(c) /\ NotRunning(c)
    BY Zenon DEF IInv, CallInv, CallOK, NotStarted
  <1>4. /\ result \in [Calls -> {"unused", "open", "ok", "failed", "timeout", "lost"}]
        /\ outcome \in [Calls -> {"none", "ok", "failed", "abandoned"}]
    BY Zenon DEF IInv, TypeOK, CallTypes
  <1>5. /\ result'[c] = "failed" /\ outcome'[c] = "abandoned"
        /\ \A d \in Calls : d # c => result'[d] = result[d] /\ outcome'[d] = outcome[d]
    BY <1>4, Zenon
  <1>6. \A d \in Calls : d # c => Same(d)
    BY <1>1, <1>2, <1>5, Zenon DEF Same, Discarded, NotRunning
  <1>7. \A d \in Calls : d # c => Kept(d) /\ CallOK(d)'
    BY <1>1, <1>6, CallsSame, Zenon
  <1>8. ~Awaited(c)
    <2>1. c \in ExternalCalls => ~Awaited(c)
      BY Zenon DEF Awaited
    <2> QED BY <2>1, Zenon DEF Awaited
  <1>9. ~OutputThere(c) /\ (c \in NestedCalls => /\ c \notin waiting[Caller[c]]
                                                 /\ c \notin held[Caller[c]]
                                                 /\ output_fifo[c] \notin Readable)
    BY <1>3, Zenon DEF CallOK, FifoOK, Readable
  <1>10. CallOK(c)'
    <2>1. ~OutputThere(c)' /\ ~Discarded(c)'
      BY <1>1, <1>2, <1>3, <1>9, Zenon DEF OutputThere, Discarded
    <2>2. Owned(c)'
      BY <1>2, <1>3, <1>9, <2>1, Zenon DEF CallOK, Owned, OutputThere
    <2>3. c \in NestedCalls => FifoOK(c)'
      BY <1>1, <1>2, <1>3, <1>9, Zenon DEF CallOK, FifoOK, Readable
    <2> QED BY <1>1, <1>2, <1>3, <1>5, <1>9, <2>1, <2>2, <2>3, Zenon DEF CallOK, Failures
  <1>11. NotQueued(c) /\ \A v \in Workers : Unconcerned(v, c)
    <2>1. NotQueued(c)
      BY <1>8, Zenon DEF IInv, QueueInv, QueuedOK, NotQueued
    <2>2. /\ \A v \in Workers : \A m \in Up(v) : m.call = c => m.type = "invoke" /\ v = Caller[c]
          /\ \A v \in Workers : \A m \in Down(v) : m.call # c
          /\ \A v \in Workers : current[v] # c
      BY <1>3, NotOnTheWay, Zenon
    <2>3. \A v \in Workers : \A m \in Up(v) : m.call # c
      BY <1>8, <2>2, Zenon DEF IInv, UpInv, InvokeOK, DoneOK, Done
    <2> QED BY <2>1, <2>2, <2>3, Zenon DEF Unconcerned
  <1>12. EngineTypes' /\ CallTypes'
    BY <1>1, <1>2, <1>4, Zenon DEF IInv, TypeOK, EngineTypes, CallTypes
  <1>13. ConnTypes' /\ \A v \in Workers : ConnOK(v)'
    BY <1>1, <1>2, ConnSame, Zenon DEF connVars
  <1>14. \A d \in Calls : CallOK(d)' /\ (d # c => Kept(d))
    BY <1>7, <1>10, Zenon
  <1>15. UNCHANGED <<flagVars, running_workers, pending_func_calls, up, workerVars>>
    BY <1>1, Zenon
  <1> QED BY <1>11, <1>12, <1>13, <1>14, <1>15, DownSame, EngineStep, Zenon

=============================================================================
