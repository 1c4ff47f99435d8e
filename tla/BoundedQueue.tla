----------------------------- MODULE BoundedQueue -----------------------------
(***************************************************************************)
(* What include/radar/thread_safe_queue.hpp promises its callers, with no  *)
(* lock, no condition variable and no notification: a called operation     *)
(* takes effect in one step, at some time after the call, and an operation *)
(* that waits takes effect only when what it waits for holds.  With        *)
(* fairness it also promises that an operation that could return for ever  *)
(* does return.                                                            *)
(***************************************************************************)
EXTENDS Integers, Sequences

CONSTANTS Threads, Calls, Capacity, Policy, AllocFails, MaxItems

Pushes == {"push", "tryPush"}
Pops == {"waitAndPop", "tryPop"}
Operations == Pushes \cup Pops \cup {"close", "waitUntilEmpty"}

VARIABLES queue, closed, droppedCount,
          calling,         \* the threads inside an operation
          op, item, ret,   \* of each thread: operation, item offered or received, result
          issued           \* number of items offered so far

vars == <<queue, closed, droppedCount, calling, op, item, ret, issued>>

Full == Len(queue) >= Capacity

Init == /\ queue = <<>> /\ closed = FALSE /\ droppedCount = 0
        /\ calling = {}
        /\ op = [t \in Threads |-> "none"]
        /\ item = [t \in Threads |-> 0]
        /\ ret = [t \in Threads |-> "none"]
        /\ issued = 0

Call(t, o) ==
    /\ t \notin calling
    /\ o \in Calls[t]
    /\ o \in Pushes => issued < MaxItems
    /\ issued' = IF o \in Pushes THEN issued + 1 ELSE issued
    /\ item' = [item EXCEPT ![t] = IF o \in Pushes THEN issued + 1 ELSE 0]
    /\ op' = [op EXCEPT ![t] = o]
    /\ ret' = [ret EXCEPT ![t] = "none"]
    /\ calling' = calling \cup {t}
    /\ UNCHANGED <<queue, closed, droppedCount>>

Return(t, result) ==
    /\ calling' = calling \ {t}
    /\ ret' = [ret EXCEPT ![t] = result]
    /\ UNCHANGED <<op, issued>>

\* close() and waitUntilEmpty() return nothing.
ReturnVoid(t) ==
    /\ calling' = calling \ {t}
    /\ UNCHANGED <<op, ret, issued>>

\* push() and tryPush(): false on a closed queue; on a full one wait, refuse
\* or evict, as the policy says.
Push(t) ==
    /\ t \in calling /\ op[t] \in Pushes
    /\ op[t] = "push" /\ Policy = "Block" => ~Full \/ closed
    /\ IF closed
       THEN Return(t, "false") /\ UNCHANGED <<queue, droppedCount>>
       ELSE /\ droppedCount' = IF Full THEN droppedCount + 1 ELSE droppedCount
            /\ IF Full /\ Policy # "DropOldest"
               THEN Return(t, "false") /\ UNCHANGED queue
               ELSE /\ Return(t, "true")
                    /\ queue' = Append(IF Full THEN Tail(queue) ELSE queue, item[t])
    /\ UNCHANGED <<closed, item>>

\* Out of memory, a push that would store throws instead; an eviction it needed
\* is not undone.
PushThrows(t) ==
    /\ AllocFails
    /\ t \in calling /\ op[t] \in Pushes
    /\ ~closed /\ (Full => Policy = "DropOldest")
    /\ droppedCount' = IF Full THEN droppedCount + 1 ELSE droppedCount
    /\ queue' = IF Full THEN Tail(queue) ELSE queue
    /\ Return(t, "threw")
    /\ UNCHANGED <<closed, item>>

\* waitAndPop() and tryPop(): the oldest item, or nullopt on an empty queue,
\* which waitAndPop() reports only when the queue is closed too.
Pop(t) ==
    /\ t \in calling /\ op[t] \in Pops
    /\ op[t] = "waitAndPop" => queue # <<>> \/ closed
    /\ IF queue = <<>>
       THEN Return(t, "nullopt") /\ UNCHANGED <<queue, item>>
       ELSE /\ Return(t, "item")
            /\ queue' = Tail(queue)
            /\ item' = [item EXCEPT ![t] = Head(queue)]
    /\ UNCHANGED <<closed, droppedCount>>

Close(t) ==
    /\ t \in calling /\ op[t] = "close"
    /\ closed' = TRUE
    /\ ReturnVoid(t)
    /\ UNCHANGED <<queue, droppedCount, item>>

WaitUntilEmpty(t) ==
    /\ t \in calling /\ op[t] = "waitUntilEmpty"
    /\ queue = <<>>
    /\ ReturnVoid(t)
    /\ UNCHANGED <<queue, closed, droppedCount, item>>

Perform(t) == Push(t) \/ PushThrows(t) \/ Pop(t) \/ Close(t) \/ WaitUntilEmpty(t)

Next == \E t \in Threads : Perform(t) \/ \E o \in Operations : Call(t, o)

Spec == Init /\ [][Next]_vars

FairSpec == Spec /\ \A t \in Threads : WF_vars(Perform(t))
=============================================================================
