-------------------------- MODULE SPSCQueueProofs ---------------------------
(***************************************************************************)
(* Proofs about SPSCQueue for every queue size of at least 2, every set of *)
(* messages and every sleeping habit: type correctness, no cell is read    *)
(* while it is written, and the ring buffer implements BoundedQueue.       *)
(***************************************************************************)
EXTENDS SPSCQueue, SequenceTheorems, TLAPS

\* What each process knows of the shared words between its steps. The producer
\* keeps its own tail and room for one message, because the consumer only moves
\* head away from tail's successor; the consumer keeps its own head and a message
\* to read, because the producer only moves tail away from head.
ProducerView ==
    /\ p_pc # "idle" => p_current = tail /\ p_message \in Messages
    /\ push_result = "full" => p_message \in Messages
    /\ p_pc = "load_head" => push_result = "none"
    /\ p_pc = "idle" => push_result # "none"
    /\ p_pc = "wake" => push_result = IF p_full THEN "full" ELSE "none"
    /\ p_pc = "wake" /\ ~p_full => Following(tail) # head
    /\ p_pc \in {"store_cell", "store_tail"} =>
            push_result = "none" /\ Following(tail) # head
    /\ p_pc = "store_tail" => cells[tail] = p_message

ConsumerView ==
    /\ c_pc \in {"load_tail", "read", "store_head"} =>
            c_current = head /\ pop_result = "none"
    /\ c_pc \notin {"load_tail", "read", "store_head"} => pop_result # "none"
    /\ c_pc \in {"read", "store_head"} => head # tail
    /\ c_pc = "store_head" => message = cells[head]

\* A consumer that sleeps gets one wake-up: while one is under way or unread it
\* stays asleep, and no Push calls for another until one has seen it awake.
WakeupView ==
    /\ slept => sleeping /\ c_pc \in {"ask", "wait"}
    /\ sleeping /\ ~slept => c_pc = "call" /\ wakeup_consumer_flag
    /\ p_pc = "wake" => slept /\ wakeup_consumer_flag /\ wakeups = 0
    /\ wakeups > 0 => slept /\ wakeup_consumer_flag /\ wakeups = 1

IndInv == TypeOK /\ ProducerView /\ ConsumerView /\ WakeupView

\* Following is the successor on the ring, and is injective.
LEMMA FollowingFacts ==
    ASSUME NEW i \in Cells, NEW j \in Cells
    PROVE  /\ Following(i) \in Cells
           /\ Following(i) # i
           /\ Following(i) = Following(j) => i = j
  BY SizeAssumption DEF Following, Cells

\* The layout BuildMemoryLayout makes satisfies the invariant.
LEMMA InitIndInv == Init => IndInv
<1> SUFFICES ASSUME Init PROVE IndInv
  OBVIOUS
<1>1. 0 \in Cells
  BY SizeAssumption DEF Cells
<1>2. TypeOK
  BY <1>1, Zenon DEF Init, TypeOK
<1>3. ProducerView /\ ConsumerView /\ WakeupView
  BY DEF Init, ProducerView, ConsumerView, WakeupView
<1> QED
  BY <1>2, <1>3 DEF IndInv

\* Every step keeps the types; a push writes a message.
LEMMA TypeStep == IndInv /\ [Next]_vars => TypeOK'
<1> SUFFICES ASSUME IndInv, [Next]_vars PROVE TypeOK'
  OBVIOUS
<1> USE DEF IndInv, TypeOK
<1>1. ASSUME NEW m \in Messages, PushLoadTail(m) PROVE TypeOK'
  BY <1>1 DEF PushLoadTail, shared, consumer, setting
<1>2. CASE PushLoadHead
  BY <1>2 DEF PushLoadHead, shared, consumer, setting
<1>3. CASE PushWakeup
  BY <1>3 DEF PushWakeup, shared, consumer, setting
<1>4. CASE PushStoreCell
  BY <1>4 DEF PushStoreCell, ProducerView, consumer, setting
<1>5. CASE PushStoreTail
  <2>1. asked' \in BOOLEAN
    BY <1>5, Zenon DEF PushStoreTail
  <2> QED
    BY <1>5, <2>1, FollowingFacts DEF PushStoreTail, consumer, setting
<1>6. CASE Ask
  <2>1. asked' \in BOOLEAN
    BY <1>6 DEF Ask
  <2> QED
    BY <1>6, <2>1 DEF Ask, shared, producer, setting
<1>7. CASE ReadEvent
  <2>1. slept' \in BOOLEAN
    BY <1>7, Zenon DEF ReadEvent
  <2> QED
    BY <1>7, <2>1 DEF ReadEvent, shared, producer, setting
<1>8. CASE PopLoadHead
  <2>1. sleeping' \in BOOLEAN
    BY <1>8, Zenon DEF PopLoadHead
  <2> QED
    BY <1>8, <2>1 DEF PopLoadHead, producer, setting
<1>9. CASE PopLoadTail
  BY <1>9 DEF PopLoadTail, shared, producer, setting
<1>10. CASE PopReadCell
  BY <1>10 DEF PopReadCell, shared, producer, setting
<1>11. CASE PopStoreHead
  <2>1. sleeping' \in BOOLEAN
    BY <1>11, Zenon DEF PopStoreHead
  <2> QED
    BY <1>11, <2>1, FollowingFacts DEF PopStoreHead, producer, setting
<1>12. CASE ConsumerEnterSleep
  BY <1>12 DEF ConsumerEnterSleep, producer, setting
<1>13. CASE UNCHANGED vars
  BY <1>13 DEF vars, shared, producer, consumer, setting
<1> QED
  BY <1>1, <1>2, <1>3, <1>4, <1>5, <1>6, <1>7, <1>8, <1>9, <1>10, <1>11, <1>12, <1>13
     DEF Next

\* The producer's view: only PopStoreHead changes a word it relies on.
LEMMA ProducerStep == IndInv /\ [Next]_vars => ProducerView'
<1> SUFFICES ASSUME IndInv, [Next]_vars PROVE ProducerView'
  OBVIOUS
<1> USE DEF IndInv
<1>1. ASSUME NEW m \in Messages, PushLoadTail(m) PROVE ProducerView'
  BY <1>1 DEF PushLoadTail, ProducerView, shared
<1>2. CASE PushLoadHead
  BY <1>2, Zenon DEF PushLoadHead, TypeOK, ProducerView, shared, Following
<1>3. CASE PushWakeup
  BY <1>3 DEF PushWakeup, TypeOK, ProducerView, shared, Following
<1>4. CASE PushStoreCell
  BY <1>4 DEF PushStoreCell, TypeOK, ProducerView, Following
<1>5. CASE PushStoreTail
  BY <1>5 DEF PushStoreTail, ProducerView
<1>6. CASE PopStoreHead
  <2>1. c_current = head /\ head # tail /\ head \in Cells /\ tail \in Cells
    BY <1>6 DEF PopStoreHead, ConsumerView, TypeOK
  <2>2. Following(tail) # Following(head)
    BY <2>1, FollowingFacts
  <2>3. /\ UNCHANGED <<tail, cells, p_pc, p_message, p_current, p_full, push_result>>
        /\ head' = Following(head)
    BY <1>6, <2>1 DEF PopStoreHead, producer
  <2> QED
    BY <2>2, <2>3 DEF ProducerView, Following
<1>7. CASE UNCHANGED <<head, tail, cells, producer>>
  BY <1>7 DEF ProducerView, producer, Following
<1>8. Ask \/ ReadEvent \/ PopLoadHead \/ PopLoadTail \/ PopReadCell \/ ConsumerEnterSleep
      \/ UNCHANGED vars => UNCHANGED <<head, tail, cells, producer>>
  BY DEF Ask, ReadEvent, PopLoadHead, PopLoadTail, PopReadCell, ConsumerEnterSleep, vars,
     shared
<1> QED
  BY <1>1, <1>2, <1>3, <1>4, <1>5, <1>6, <1>7, <1>8 DEF Next

\* The consumer's view: only the producer's two stores change a word it relies on.
LEMMA ConsumerStep == IndInv /\ [Next]_vars => ConsumerView'
<1> SUFFICES ASSUME IndInv, [Next]_vars PROVE ConsumerView'
  OBVIOUS
<1> USE DEF IndInv
<1>1. CASE PushStoreCell
  <2>1. p_current = tail /\ tail \in Cells /\ cells \in [Cells -> Messages \cup {NoMessage}]
    BY <1>1 DEF PushStoreCell, ProducerView, TypeOK
  <2>2. c_pc \in {"read", "store_head"} => cells'[head] = cells[head]
    BY <1>1, <2>1 DEF PushStoreCell, TypeOK, ConsumerView
  <2> QED
    BY <1>1, <2>2 DEF PushStoreCell, ConsumerView, consumer
<1>2. CASE PushStoreTail
  BY <1>2 DEF PushStoreTail, ProducerView, ConsumerView, consumer
<1>3. CASE Ask
  BY <1>3 DEF Ask, ConsumerView, shared
<1>4. CASE ReadEvent
  BY <1>4 DEF ReadEvent, ConsumerView, shared
<1>5. CASE PopLoadHead
  BY <1>5 DEF PopLoadHead, ConsumerView
<1>6. CASE PopLoadTail
  BY <1>6 DEF PopLoadTail, ConsumerView, shared
<1>7. CASE PopReadCell
  BY <1>7 DEF PopReadCell, ConsumerView, shared
<1>8. CASE PopStoreHead
  BY <1>8 DEF PopStoreHead, ConsumerView
<1>9. CASE ConsumerEnterSleep
  BY <1>9 DEF ConsumerEnterSleep, ConsumerView
<1>10. CASE UNCHANGED <<head, tail, cells, consumer>>
  BY <1>10 DEF ConsumerView, consumer
<1>11. (\E m \in Messages : PushLoadTail(m)) \/ PushLoadHead \/ PushWakeup
       \/ UNCHANGED vars => UNCHANGED <<head, tail, cells, consumer>>
  BY DEF PushLoadTail, PushLoadHead, PushWakeup, vars, shared
<1> QED
  BY <1>1, <1>2, <1>3, <1>4, <1>5, <1>6, <1>7, <1>8, <1>9, <1>10, <1>11 DEF Next

\* The sleeping protocol, one step at a time.
LEMMA WakeupStep == IndInv /\ [Next]_vars => WakeupView'
<1> SUFFICES ASSUME IndInv, [Next]_vars PROVE WakeupView'
  OBVIOUS
<1> USE DEF IndInv, WakeupView
<1>1. CASE PushLoadHead
  BY <1>1 DEF PushLoadHead, TypeOK, shared, consumer
<1>2. CASE PushWakeup
  BY <1>2 DEF PushWakeup, shared, consumer
<1>3. CASE Ask
  BY <1>3 DEF Ask, shared, producer
<1>4. CASE ReadEvent
  BY <1>4 DEF ReadEvent, TypeOK, shared, producer
<1>5. CASE PopLoadHead
  BY <1>5 DEF PopLoadHead, TypeOK, producer
<1>6. CASE PopLoadTail \/ PopReadCell
  BY <1>6 DEF PopLoadTail, PopReadCell, shared, producer
<1>7. CASE PopStoreHead
  BY <1>7 DEF PopStoreHead, producer
<1>8. CASE ConsumerEnterSleep
  BY <1>8 DEF ConsumerEnterSleep, TypeOK, producer
<1>9. CASE (\E m \in Messages : PushLoadTail(m)) \/ PushStoreCell \/ PushStoreTail
  BY <1>9 DEF PushLoadTail, PushStoreCell, PushStoreTail, shared, consumer
<1>10. CASE UNCHANGED vars
  BY <1>10 DEF vars, shared, producer, consumer
<1> QED
  BY <1>1, <1>2, <1>3, <1>4, <1>5, <1>6, <1>7, <1>8, <1>9, <1>10 DEF Next

\* The inductive invariant holds in every reachable state of the ring buffer.
THEOREM QueueInvariant == Spec => []IndInv
<1>1. IndInv /\ [Next]_vars => IndInv'
  BY TypeStep, ProducerStep, ConsumerStep, WakeupStep DEF IndInv
<1> QED
  BY InitIndInv, <1>1, PTL DEF Spec

\* Type correctness of the ring buffer; both indices stay inside the ring.
THEOREM TypeCorrect == Spec => []TypeOK
<1>1. IndInv => TypeOK
  BY DEF IndInv
<1> QED
  BY <1>1, QueueInvariant, PTL

\* Push never writes the cell that Pop reads (spsc_queue-inl.h:79, 112).
THEOREM CellsExclusive == Spec => []NoCellReadWhileWritten
<1>1. IndInv => NoCellReadWhileWritten
  BY DEF IndInv, ProducerView, ConsumerView, NoCellReadWhileWritten
<1> QED
  BY <1>1, QueueInvariant, PTL

\* At most one wake-up is unread in the eventfd (spsc_queue-inl.h:69-72).
THEOREM WakeupsDoNotPileUp == Spec => []OneWakeupPerSleep
<1>1. IndInv => OneWakeupPerSleep
  BY DEF IndInv, WakeupView, TypeOK, OneWakeupPerSleep
<1> QED
  BY <1>1, QueueInvariant, PTL

-----------------------------------------------------------------------------
(***************************************************************************)
(* The refinement. The contents of the ring between two indices, as a      *)
(* sequence, and how the three stores change it.                           *)
(***************************************************************************)

FilledOf(h, t) == IF t >= h THEN t - h ELSE t - h + QueueSize
AtOf(h, i) == IF h + i - 1 < QueueSize THEN h + i - 1 ELSE h + i - 1 - QueueSize
Ring(h, t, c) == [i \in 1..FilledOf(h, t) |-> c[AtOf(h, i)]]

Any == Messages \cup {NoMessage}

\* The mapped queue is the ring's contents, before and after a step.
LEMMA ContentsAreRing ==
    Contents = Ring(head, tail, cells) /\ Contents' = Ring(head', tail', cells')
  BY DEF Contents, Filled, At, Ring, FilledOf, AtOf

\* The ring is a sequence, empty if the indices meet and full if they would.
LEMMA RingFacts ==
    ASSUME NEW h \in Cells, NEW t \in Cells, NEW c \in [Cells -> Any]
    PROVE  /\ FilledOf(h, t) \in 0..(QueueSize - 1)
           /\ \A i \in 1..FilledOf(h, t) : AtOf(h, i) \in Cells
           /\ Ring(h, t, c) \in Seq(Any)
           /\ Len(Ring(h, t, c)) = FilledOf(h, t)
           /\ \A i \in 1..FilledOf(h, t) : Ring(h, t, c)[i] = c[AtOf(h, i)]
           /\ FilledOf(h, t) = 0 <=> h = t
           /\ FilledOf(h, t) = QueueSize - 1 <=> Following(t) = h
<1>1. FilledOf(h, t) \in 0..(QueueSize - 1)
  BY SizeAssumption DEF FilledOf, Cells
<1>2. \A i \in 1..FilledOf(h, t) : AtOf(h, i) \in Cells
  BY SizeAssumption DEF FilledOf, AtOf, Cells
<1>3. FilledOf(h, t) = 0 <=> h = t
  BY SizeAssumption DEF FilledOf, Cells
<1>4. FilledOf(h, t) = QueueSize - 1 <=> Following(t) = h
  BY SizeAssumption DEF FilledOf, Cells, Following
<1>5. Ring(h, t, c) \in [1..FilledOf(h, t) -> Any]
  BY <1>1, <1>2 DEF Ring
<1>6. Ring(h, t, c) \in Seq(Any)
  BY <1>1, <1>5, SizeAssumption, SeqDef
<1>7. Len(Ring(h, t, c)) = FilledOf(h, t)
  BY <1>1, <1>5, <1>6, SizeAssumption, LenProperties
<1>8. \A i \in 1..FilledOf(h, t) : Ring(h, t, c)[i] = c[AtOf(h, i)]
  BY DEF Ring
<1> QED
  BY <1>1, <1>2, <1>3, <1>4, <1>6, <1>7, <1>8

\* The cell at tail is outside the contents.
LEMMA RingWrite ==
    ASSUME NEW h \in Cells, NEW t \in Cells, NEW c \in [Cells -> Any], NEW m \in Any
    PROVE  Ring(h, t, [c EXCEPT ![t] = m]) = Ring(h, t, c)
<1> DEFINE d == [c EXCEPT ![t] = m]
<1>1. d \in [Cells -> Any] /\ \A i \in Cells \ {t} : d[i] = c[i]
  OBVIOUS
<1>2. \A i \in 1..FilledOf(h, t) : AtOf(h, i) # t
  BY SizeAssumption DEF FilledOf, AtOf, Cells
<1> HIDE DEF d
<1>3. \A i \in 1..FilledOf(h, t) : Ring(h, t, d)[i] = Ring(h, t, c)[i]
  <2> TAKE i \in 1..FilledOf(h, t)
  <2>1. AtOf(h, i) \in Cells
    BY RingFacts
  <2>2. c[AtOf(h, i)] = d[AtOf(h, i)]
    BY <1>1, <1>2, <2>1
  <2>3. Ring(h, t, d)[i] = d[AtOf(h, i)]
    BY DEF Ring
  <2>4. Ring(h, t, c)[i] = c[AtOf(h, i)]
    BY DEF Ring
  <2> QED
    BY <2>2, <2>3, <2>4
<1>4. Ring(h, t, d) = Ring(h, t, c)
  BY <1>1, <1>3, RingFacts, SeqEqual
<1> QED
  BY <1>4 DEF d

\* Moving tail appends the message of the old tail's cell.
LEMMA RingPush ==
    ASSUME NEW h \in Cells, NEW t \in Cells, NEW c \in [Cells -> Any], Following(t) # h
    PROVE  Ring(h, Following(t), c) = Append(Ring(h, t, c), c[t])
<1>1. Following(t) \in Cells
  BY FollowingFacts
<1>2. FilledOf(h, Following(t)) = FilledOf(h, t) + 1
  BY SizeAssumption DEF FilledOf, Cells, Following
<1>3. AtOf(h, FilledOf(h, t) + 1) = t
  BY SizeAssumption DEF FilledOf, AtOf, Cells
<1> DEFINE r == Ring(h, t, c)
           a == Append(r, c[t])
<1>4. r \in Seq(Any) /\ Len(r) = FilledOf(h, t) /\ c[t] \in Any /\ FilledOf(h, t) \in Nat
  BY RingFacts, SizeAssumption
<1>5. a \in Seq(Any) /\ Len(a) = FilledOf(h, t) + 1
  BY <1>4
<1>6. \A i \in 1..(FilledOf(h, t) + 1) : a[i] = IF i = FilledOf(h, t) + 1 THEN c[t] ELSE r[i]
  BY <1>4
<1>7. \A i \in 1..(FilledOf(h, t) + 1) : Ring(h, Following(t), c)[i] = a[i]
  <2> SUFFICES ASSUME NEW i \in 1..(FilledOf(h, t) + 1)
               PROVE  Ring(h, Following(t), c)[i] = a[i]
    BY Zenon
  <2>1. Ring(h, Following(t), c)[i] = c[AtOf(h, i)]
    BY <1>1, <1>2, RingFacts
  <2>2. CASE i = FilledOf(h, t) + 1
    BY <2>1, <2>2, <1>3, <1>6, Zenon
  <2>3. CASE i # FilledOf(h, t) + 1
    <3>1. i \in 1..FilledOf(h, t)
      BY <2>3, <1>4
    <3> QED
      BY <2>1, <2>3, <3>1, <1>6, RingFacts
  <2> QED
    BY <2>2, <2>3, Zenon
<1>8. /\ Ring(h, Following(t), c) \in Seq(Any)
      /\ Len(Ring(h, Following(t), c)) = FilledOf(h, t) + 1
  BY <1>1, <1>2, RingFacts
<1> HIDE DEF a
<1>9. Ring(h, Following(t), c) = a
  BY <1>5, <1>7, <1>8, SeqEqual
<1> QED
  BY <1>9 DEF a

\* Moving head removes the first message.
LEMMA RingPop ==
    ASSUME NEW h \in Cells, NEW t \in Cells, NEW c \in [Cells -> Any], h # t
    PROVE  /\ Ring(h, t, c) # <<>>
           /\ Head(Ring(h, t, c)) = c[h]
           /\ Ring(Following(h), t, c) = Tail(Ring(h, t, c))
<1> DEFINE r == Ring(h, t, c)
           s == Ring(Following(h), t, c)
<1>1. Following(h) \in Cells
  BY FollowingFacts
<1>2. FilledOf(h, t) = FilledOf(Following(h), t) + 1 /\ FilledOf(h, t) > 0
  BY SizeAssumption DEF FilledOf, Cells, Following
<1>3. \A i \in 1..FilledOf(Following(h), t) : AtOf(Following(h), i) = AtOf(h, i + 1)
  BY SizeAssumption DEF FilledOf, AtOf, Cells, Following
<1>4. AtOf(h, 1) = h
  BY SizeAssumption DEF AtOf, Cells
<1>5. r \in Seq(Any) /\ Len(r) = FilledOf(h, t) /\ FilledOf(h, t) \in Nat
  BY RingFacts, SizeAssumption
<1>6. r # <<>>
  BY <1>5, <1>2
<1>7. Head(r) = c[h]
  <2>1. Head(r) = r[1]
    BY <1>5, <1>6
  <2>2. r[1] = c[AtOf(h, 1)]
    BY <1>2, <1>5, RingFacts
  <2> QED
    BY <2>1, <2>2, <1>4
<1>8. s \in Seq(Any) /\ Len(s) = FilledOf(Following(h), t) /\ Len(s) \in Nat
  BY <1>1, RingFacts, SizeAssumption
<1>9. /\ Tail(r) \in Seq(Any) /\ Len(Tail(r)) = Len(s)
      /\ \A i \in 1..Len(s) : Tail(r)[i] = r[i + 1]
  BY <1>2, <1>5, <1>6, <1>8, HeadTailProperties
<1>10. \A i \in 1..Len(s) : s[i] = Tail(r)[i]
  <2> SUFFICES ASSUME NEW i \in 1..Len(s)
               PROVE  s[i] = Tail(r)[i]
    BY Zenon
  <2>1. s[i] = c[AtOf(Following(h), i)]
    BY <1>8, Zenon DEF Ring
  <2>2. i + 1 \in 1..FilledOf(h, t)
    BY <1>2, <1>8
  <2>3. r[i + 1] = c[AtOf(h, i + 1)]
    BY <2>2 DEF Ring
  <2> QED
    BY <2>1, <2>3, <1>3, <1>8, <1>9
<1> HIDE DEF r, s
<1>11. s = Tail(r)
  BY <1>8, <1>9, <1>10, SeqEqual
<1> QED
  BY <1>6, <1>7, <1>11 DEF r, s

\* A step that leaves the shared indices and cells alone leaves the contents alone.
LEMMA ContentsKept ==
    ASSUME UNCHANGED <<head, tail, cells>>
    PROVE  Contents' = Contents
  BY ContentsAreRing

\* The empty ring is the empty queue.
LEMMA InitRefines == Init => Queue!Init
<1> SUFFICES ASSUME Init PROVE Queue!Init
  OBVIOUS
<1>1. TypeOK
  BY InitIndInv DEF IndInv
<1>2. Contents \in Seq(Any) /\ Len(Contents) = 0
  BY <1>1, ContentsAreRing, RingFacts DEF Init, TypeOK, Any
<1>3. Contents = <<>>
  BY <1>2, EmptySeq
<1> QED
  BY <1>3 DEF Init, Queue!Init

\* Every step of the ring buffer is a step of the queue or changes nothing of it.
LEMMA NextRefines == IndInv /\ [Next]_vars => [Queue!Next]_(Queue!vars)
<1> SUFFICES ASSUME IndInv, [Next]_vars PROVE [Queue!Next]_(Queue!vars)
  OBVIOUS
<1> USE DEF IndInv, Queue!vars
<1>1. head \in Cells /\ tail \in Cells /\ cells \in [Cells -> Any]
  BY DEF TypeOK, Any
<1>2. /\ Len(Contents) = QueueSize - 1 <=> Following(tail) = head
      /\ Contents \in Seq(Any) /\ Len(Contents) \in 0..(QueueSize - 1)
      /\ Len(Contents) = 0 <=> head = tail
  BY <1>1, ContentsAreRing, RingFacts
<1>3. ASSUME NEW m \in Messages, PushLoadTail(m) PROVE Queue!CallPush
  <2>1. Contents' = Contents
    BY <1>3, ContentsKept DEF PushLoadTail, shared
  <2> QED
    BY <1>3, <2>1 DEF PushLoadTail, ProducerView, consumer, Queue!CallPush
<1>4. ASSUME PushLoadHead PROVE Queue!PushFails \/ UNCHANGED Queue!vars
  <2>1. Contents' = Contents
    BY <1>4, ContentsKept DEF PushLoadHead, shared
  <2>2. CASE Following(tail) = head
    <3>1. push_result = "none" /\ push_result' = "full"
      BY <1>4, <2>2, Zenon DEF PushLoadHead, ProducerView
    <3> QED
      BY <1>4, <2>1, <2>2, <3>1, <1>2 DEF PushLoadHead, consumer, Queue!PushFails
  <2>3. CASE Following(tail) # head
    <3>1. push_result' = push_result
      BY <1>4, <2>3, Zenon DEF PushLoadHead, ProducerView
    <3> QED
      BY <1>4, <2>1, <3>1 DEF PushLoadHead, consumer
  <2> QED
    BY <2>2, <2>3
<1>5. ASSUME PushStoreCell PROVE UNCHANGED Queue!vars
  <2>1. /\ p_current = tail /\ p_message \in Any
        /\ cells' = [cells EXCEPT ![tail] = p_message] /\ UNCHANGED <<head, tail>>
    BY <1>5 DEF PushStoreCell, ProducerView, TypeOK, Any
  <2>2. Contents' = Contents
    BY <1>1, <2>1, ContentsAreRing, RingWrite, Zenon
  <2> QED
    BY <1>5, <2>2 DEF PushStoreCell, consumer
<1>6. ASSUME PushStoreTail PROVE \E m \in Messages : Queue!Push(m)
  <2>1. /\ tail' = Following(tail) /\ UNCHANGED <<head, cells>>
        /\ Following(tail) # head /\ cells[tail] = p_message /\ p_message \in Messages
        /\ push_result = "none" /\ push_result' = "ok"
    BY <1>6 DEF PushStoreTail, ProducerView
  <2>2. Contents' = Append(Contents, p_message)
    BY <1>1, <2>1, ContentsAreRing, RingPush
  <2>3. Len(Contents) < QueueSize - 1
    BY <1>2, <2>1, SizeAssumption
  <2>4. Queue!Push(p_message)
    BY <1>6, <2>1, <2>2, <2>3 DEF PushStoreTail, consumer, Queue!Push
  <2> QED
    BY <2>1, <2>4
<1>7. ASSUME PopLoadHead PROVE Queue!CallPop
  <2>1. Contents' = Contents
    BY <1>7, ContentsKept DEF PopLoadHead
  <2> QED
    BY <1>7, <2>1 DEF PopLoadHead, ConsumerView, producer, Queue!CallPop
<1>8. ASSUME PopLoadTail PROVE Queue!PopFails \/ UNCHANGED Queue!vars
  <2>1. Contents' = Contents
    BY <1>8, ContentsKept DEF PopLoadTail, shared
  <2>2. CASE head = tail
    <3>1. pop_result = "none" /\ pop_result' = "empty"
      BY <1>8, <2>2 DEF PopLoadTail, ConsumerView
    <3>2. Contents = <<>>
      BY <1>2, <2>2, EmptySeq
    <3> QED
      BY <1>8, <2>1, <3>1, <3>2 DEF PopLoadTail, producer, Queue!PopFails
  <2>3. CASE head # tail
    <3>1. pop_result' = pop_result
      BY <1>8, <2>3 DEF PopLoadTail, ConsumerView
    <3> QED
      BY <1>8, <2>1, <3>1 DEF PopLoadTail, producer
  <2> QED
    BY <2>2, <2>3
<1>9. ASSUME PopStoreHead PROVE Queue!Pop
  <2>1. /\ head' = Following(head) /\ UNCHANGED <<tail, cells>> /\ head # tail
        /\ returned' = cells[head] /\ pop_result = "none" /\ pop_result' = "ok"
    BY <1>9 DEF PopStoreHead, ConsumerView
  <2>2. Contents # <<>> /\ Head(Contents) = cells[head] /\ Contents' = Tail(Contents)
    BY <1>1, <2>1, ContentsAreRing, RingPop
  <2> QED
    BY <1>9, <2>1, <2>2 DEF PopStoreHead, producer, Queue!Pop
<1>10. CASE PushWakeup \/ Ask \/ ReadEvent \/ PopReadCell \/ ConsumerEnterSleep
            \/ UNCHANGED vars
  <2>1. UNCHANGED <<head, tail, cells, push_result, pop_result, returned>>
    BY <1>10 DEF PushWakeup, Ask, ReadEvent, PopReadCell, ConsumerEnterSleep, vars, shared,
           producer, consumer
  <2> QED
    BY <2>1, ContentsKept
<1> QED
  BY <1>3, <1>4, <1>5, <1>6, <1>7, <1>8, <1>9, <1>10 DEF Next, Queue!Next

\* The ring buffer implements the bounded queue: Push and Pop are first in,
\* first out, and fail only on a full and on an empty queue (spsc_queue.h:26, 30).
THEOREM RingIsBoundedQueue == Spec => RefinesBoundedQueue
  BY QueueInvariant, InitRefines, NextRefines, PTL
     DEF Spec, RefinesBoundedQueue, Queue!Spec
=============================================================================
