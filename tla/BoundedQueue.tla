---------------------------- MODULE BoundedQueue ----------------------------
(***************************************************************************)
(* What SPSCQueue promises its two users (src/src/ipc/spsc_queue.h:21-30): *)
(* a first-in, first-out queue of at most Capacity messages, whose Push    *)
(* fails only if the queue is full and whose Pop fails only if it is empty *)
(* at one instant between the call and the return.                         *)
(***************************************************************************)
EXTENDS Integers, Sequences

CONSTANTS Messages, NoMessage, Capacity

VARIABLES
    queue,          \* the messages that were pushed and not popped
    push_result,    \* of the producer's current or last call:
                    \* "none" (not decided), "ok" or "full"
    pop_result,     \* of the consumer's: "none", "ok" or "empty"
    popped          \* the message of the last Pop that returned true

vars == <<queue, push_result, pop_result, popped>>

Init ==
    /\ queue = <<>>
    /\ push_result = "ok" /\ pop_result = "ok"
    /\ popped = NoMessage

CallPush ==
    /\ push_result # "none"
    /\ push_result' = "none"
    /\ UNCHANGED <<queue, pop_result, popped>>

Push(m) ==
    /\ push_result = "none"
    /\ Len(queue) < Capacity
    /\ queue' = Append(queue, m)
    /\ push_result' = "ok"
    /\ UNCHANGED <<pop_result, popped>>

PushFails ==
    /\ push_result = "none"
    /\ Len(queue) = Capacity
    /\ push_result' = "full"
    /\ UNCHANGED <<queue, pop_result, popped>>

CallPop ==
    /\ pop_result # "none"
    /\ pop_result' = "none"
    /\ UNCHANGED <<queue, push_result, popped>>

Pop ==
    /\ pop_result = "none"
    /\ queue # <<>>
    /\ popped' = Head(queue)
    /\ queue' = Tail(queue)
    /\ pop_result' = "ok"
    /\ UNCHANGED push_result

PopFails ==
    /\ pop_result = "none"
    /\ queue = <<>>
    /\ pop_result' = "empty"
    /\ UNCHANGED <<queue, push_result, popped>>

Next ==
    \/ CallPush
    \/ \E m \in Messages : Push(m)
    \/ PushFails
    \/ CallPop
    \/ Pop
    \/ PopFails

Spec == Init /\ [][Next]_vars
=============================================================================
