----------------------------- MODULE SPSCQueue ------------------------------
(***************************************************************************)
(* The shared-memory ring buffer with one producer and one consumer, in    *)
(* two processes (src/src/ipc/spsc_queue-inl.h), and the way the benchmark *)
(* drives it (src/src/bin/bench_spsc_queue.cpp): the consumer asks for a   *)
(* message, pops it, and every sleep_every messages sets the sleep bit of  *)
(* head_ and blocks on an eventfd until the producer's wake-up function    *)
(* writes to it.                                                           *)
(*                                                                         *)
(* A step holds at most one access to memory that the other process also   *)
(* accesses. Tail and head are stored with release and loaded with acquire *)
(* ordering, and no step relies on two such words at once, so the          *)
(* interleavings below are all the executions.                             *)
(***************************************************************************)
EXTENDS Integers, Sequences

CONSTANTS
    Messages,
    NoMessage,
    QueueSize,      \* queue_size of Create
    SleepEvery      \* the values of --server_queue_sleep_every; 0 is never

ASSUME SizeAssumption == QueueSize \in Nat /\ QueueSize >= 2
ASSUME SleepAssumption == SleepEvery \subseteq Nat
ASSUME MessageAssumption == NoMessage \notin Messages

Cells == 0..(QueueSize - 1)

VARIABLES
    \* the shared memory
    head, sleeping,         \* head_ and its kConsumerSleepMask bit, one word
    tail,
    cells,
    \* the producer
    p_pc, p_message, p_current, p_full, wakeup_consumer_flag, push_result,
    \* the consumer
    c_pc, c_current, message, returned, pop_result, pops, slept,
    \* the benchmark around them
    wakeups,                \* writes to the eventfd that were not read
    asked,                  \* the consumer asked for a message that was not pushed
    streaming,              \* does the producer push without being asked?
    sleep_every

shared == <<head, sleeping, tail, cells>>
producer == <<p_pc, p_message, p_current, p_full, wakeup_consumer_flag, push_result>>
consumer == <<c_pc, c_current, message, returned, pop_result, pops, slept>>
setting == <<streaming, sleep_every>>
vars == <<shared, producer, consumer, wakeups, asked, setting>>

\* BuildMemoryLayout and the constructor.
Init ==
    /\ head = 0 /\ sleeping = FALSE /\ tail = 0
    /\ cells = [i \in Cells |-> NoMessage]
    /\ p_pc = "idle" /\ p_message = NoMessage /\ p_current = 0 /\ p_full = FALSE
    /\ wakeup_consumer_flag = FALSE /\ push_result = "ok"
    /\ c_pc = "ask" /\ c_current = 0 /\ message = NoMessage /\ returned = NoMessage
    /\ pop_result = "ok" /\ pops = 0 /\ slept = FALSE
    /\ wakeups = 0 /\ asked = FALSE
    /\ streaming \in BOOLEAN /\ sleep_every \in SleepEvery

\* The index after i, as Push and Pop compute it.
Following(i) == IF i + 1 = QueueSize THEN 0 ELSE i + 1

-----------------------------------------------------------------------------
\* A call of Push, up to the load of tail_, which only the producer writes. A
\* Push that failed is repeated with the same message.
PushLoadTail(m) ==
    /\ p_pc = "idle"
    /\ IF push_result = "full" THEN m = p_message ELSE streaming \/ asked
    /\ p_message' = m
    /\ p_current' = tail
    /\ push_result' = "none"
    /\ p_pc' = "load_head"
    /\ UNCHANGED <<shared, p_full, wakeup_consumer_flag, consumer, wakeups, asked, setting>>

\* Variant: the queue counts as full one message too late.
PushLoadHeadTooLate ==
    /\ p_pc = "load_head"
    /\ p_full' = FALSE
    /\ wakeup_consumer_flag' = sleeping
    /\ p_pc' = IF sleeping /\ ~wakeup_consumer_flag THEN "wake" ELSE "store_cell"
    /\ UNCHANGED <<shared, p_message, p_current, push_result, consumer, wakeups, asked,
                   setting>>

\* Variant: the flag is ignored, and every Push to a sleeping consumer wakes it.
PushLoadHeadWakesAgain ==
    /\ p_pc = "load_head"
    /\ p_full' = (Following(p_current) = head)
    /\ wakeup_consumer_flag' = sleeping
    /\ push_result' = IF p_full' THEN "full" ELSE push_result
    /\ p_pc' = IF sleeping THEN "wake" ELSE IF p_full' THEN "idle" ELSE "store_cell"
    /\ UNCHANGED <<shared, p_message, p_current, consumer, wakeups, asked, setting>>

\* Variant: the flag is never reset.
PushLoadHeadKeepsFlag ==
    /\ p_pc = "load_head"
    /\ p_full' = (Following(p_current) = head)
    /\ wakeup_consumer_flag' = (wakeup_consumer_flag \/ sleeping)
    /\ push_result' = IF p_full' THEN "full" ELSE push_result
    /\ p_pc' = IF sleeping /\ ~wakeup_consumer_flag THEN "wake"
               ELSE IF p_full' THEN "idle" ELSE "store_cell"
    /\ UNCHANGED <<shared, p_message, p_current, consumer, wakeups, asked, setting>>

\* The load of head_ with its sleep bit, and what Push decides from it.
PushLoadHead ==
    /\ p_pc = "load_head"
    /\ p_full' = (Following(p_current) = head)
    /\ wakeup_consumer_flag' = sleeping
    /\ push_result' = IF p_full' THEN "full" ELSE push_result
    /\ p_pc' = IF sleeping /\ ~wakeup_consumer_flag THEN "wake"
               ELSE IF p_full' THEN "idle" ELSE "store_cell"
    /\ UNCHANGED <<shared, p_message, p_current, consumer, wakeups, asked, setting>>

\* wakeup_consumer_fn_().
PushWakeup ==
    /\ p_pc = "wake"
    /\ wakeups' = wakeups + 1
    /\ p_pc' = IF p_full THEN "idle" ELSE "store_cell"
    /\ UNCHANGED <<shared, p_message, p_current, p_full, wakeup_consumer_flag, push_result,
                   consumer, asked, setting>>

PushStoreCell ==
    /\ p_pc = "store_cell"
    /\ cells' = [cells EXCEPT ![p_current] = p_message]
    /\ p_pc' = "store_tail"
    /\ UNCHANGED <<head, sleeping, tail, p_message, p_current, p_full,
                   wakeup_consumer_flag, push_result, consumer, wakeups, asked, setting>>

PushStoreTail ==
    /\ p_pc = "store_tail"
    /\ tail' = Following(p_current)
    /\ push_result' = "ok"
    /\ asked' = FALSE
    /\ p_pc' = "idle"
    /\ UNCHANGED <<head, sleeping, cells, p_message, p_current, p_full,
                   wakeup_consumer_flag, consumer, wakeups, setting>>

-----------------------------------------------------------------------------
\* The consumer asks the producer for the next message, through a queue of
\* its own, and blocks on the eventfd if it declared itself asleep.
Ask ==
    /\ c_pc = "ask"
    /\ asked' = TRUE
    /\ c_pc' = IF slept THEN "wait" ELSE "call"
    /\ UNCHANGED <<shared, producer, c_current, message, returned, pop_result, pops, slept,
                   wakeups, setting>>

\* eventfd_read returns once the counter is not 0, and resets it.
ReadEvent ==
    /\ c_pc = "wait"
    /\ wakeups > 0
    /\ wakeups' = 0
    /\ slept' = FALSE
    /\ c_pc' = "call"
    /\ UNCHANGED <<shared, producer, c_current, message, returned, pop_result, pops, asked,
                   setting>>

\* A call of Pop: the load of head_, which only the consumer writes, and the
\* fetch_xor that clears the sleep bit.
PopLoadHead ==
    /\ c_pc = "call"
    /\ c_current' = head
    /\ sleeping' = FALSE
    /\ pop_result' = "none"
    /\ c_pc' = "load_tail"
    /\ UNCHANGED <<head, tail, cells, producer, message, returned, pops, slept, wakeups,
                   asked, setting>>

\* The load of tail_: an empty queue ends the call, and the consumer retries.
PopLoadTail ==
    /\ c_pc = "load_tail"
    /\ pop_result' = IF c_current = tail THEN "empty" ELSE pop_result
    /\ c_pc' = IF c_current = tail THEN "call" ELSE "read"
    /\ UNCHANGED <<shared, producer, c_current, message, returned, pops, slept, wakeups,
                   asked, setting>>

PopReadCell ==
    /\ c_pc = "read"
    /\ message' = cells[c_current]
    /\ c_pc' = "store_head"
    /\ UNCHANGED <<shared, producer, c_current, returned, pop_result, pops, slept, wakeups,
                   asked, setting>>

\* The store of head_, the return, and the count of received messages.
PopStoreHead ==
    /\ c_pc = "store_head"
    /\ head' = Following(c_current)
    /\ sleeping' = FALSE
    /\ returned' = message
    /\ pop_result' = "ok"
    /\ pops' = IF pops + 1 >= sleep_every THEN 0 ELSE pops + 1
    /\ c_pc' = IF sleep_every > 0 /\ pops' = 0 THEN "sleep" ELSE "ask"
    /\ UNCHANGED <<tail, cells, producer, c_current, message, slept, wakeups, asked,
                   setting>>

ConsumerEnterSleep ==
    /\ c_pc = "sleep"
    /\ sleeping' = TRUE
    /\ slept' = TRUE
    /\ c_pc' = "ask"
    /\ UNCHANGED <<head, tail, cells, producer, c_current, message, returned, pop_result,
                   pops, wakeups, asked, setting>>

Next ==
    \/ \E m \in Messages : PushLoadTail(m)
    \/ PushLoadHead \/ PushWakeup \/ PushStoreCell \/ PushStoreTail
    \/ Ask \/ ReadEvent
    \/ PopLoadHead \/ PopLoadTail \/ PopReadCell \/ PopStoreHead
    \/ ConsumerEnterSleep

Spec == Init /\ [][Next]_vars

\* Both processes keep running, and an asked producer answers.
Fairness ==
    /\ WF_vars((\E m \in Messages : PushLoadTail(m)) \/ PushLoadHead \/ PushWakeup
               \/ PushStoreCell \/ PushStoreTail)
    /\ WF_vars(Ask \/ ReadEvent \/ PopLoadHead \/ PopLoadTail \/ PopReadCell
               \/ PopStoreHead \/ ConsumerEnterSleep)

FairSpec == Spec /\ Fairness

-----------------------------------------------------------------------------
\* The type of the shared words, of both processes' registers and of the eventfd.
TypeOK ==
    /\ head \in Cells /\ tail \in Cells /\ sleeping \in BOOLEAN
    /\ cells \in [Cells -> Messages \cup {NoMessage}]
    /\ p_pc \in {"idle", "load_head", "wake", "store_cell", "store_tail"}
    /\ p_message \in Messages \cup {NoMessage}
    /\ p_current \in Cells /\ p_full \in BOOLEAN
    /\ wakeup_consumer_flag \in BOOLEAN
    /\ push_result \in {"none", "ok", "full"}
    /\ c_pc \in {"ask", "wait", "call", "load_tail", "read", "store_head", "sleep"}
    /\ c_current \in Cells
    /\ message \in Messages \cup {NoMessage}
    /\ returned \in Messages \cup {NoMessage}
    /\ pop_result \in {"none", "ok", "empty"}
    /\ pops \in Nat /\ slept \in BOOLEAN
    /\ wakeups \in Nat /\ asked \in BOOLEAN
    /\ streaming \in BOOLEAN /\ sleep_every \in SleepEvery

\* The number of messages between head and tail, and the i-th of them.
Filled == IF tail >= head THEN tail - head ELSE tail - head + QueueSize
At(i) == IF head + i - 1 < QueueSize THEN head + i - 1 ELSE head + i - 1 - QueueSize
Contents == [i \in 1..Filled |-> cells[At(i)]]

\* A cell is never written while the consumer reads it, and so never before
\* its message was popped, although the two processes share no lock
\* (spsc_queue-inl.h:78-80, 104-113).
NoCellReadWhileWritten ==
    ~(p_pc = "store_cell" /\ c_pc = "read" /\ p_current = c_current)

Queue == INSTANCE BoundedQueue
            WITH queue <- Contents, popped <- returned, Capacity <- QueueSize - 1

\* The ring buffer is a bounded first-in, first-out queue of queue_size_ - 1
\* messages; Push returns false only if it was full and Pop only if it was
\* empty at some instant of the call ("Return false if queue is full",
\* "Return false if queue is empty", spsc_queue.h:26, 30).
RefinesBoundedQueue == Queue!Spec

\* Wake-ups do not pile up: the consumer finds one write in the eventfd, as
\* CHECK_EQ(event_value, kEventWakeupServerQueue) demands
\* (bench_spsc_queue.cpp:62), because wakeup_consumer_flag_ lets one Push per
\* sleep call the wake-up function (spsc_queue-inl.h:69-72).
OneWakeupPerSleep == wakeups <= 1

\* A consumer that blocks after it set the sleep bit is woken, if the producer
\* pushes when asked and saw the consumer awake since the sleep before, so that
\* wakeup_consumer_flag_ was reset (spsc_queue-inl.h:68-77).
SleeperWokenUnlessEveryTime ==
    ~streaming /\ sleep_every # 1 => (slept ~> ~slept)
=============================================================================
