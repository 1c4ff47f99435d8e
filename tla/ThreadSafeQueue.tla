--------------------------- MODULE ThreadSafeQueue ---------------------------
(***************************************************************************)
(* The bounded queue of include/radar/thread_safe_queue.hpp at the grain   *)
(* of its lock: a thread acquires mutex_, evaluates a wait predicate,      *)
(* blocks on not_empty_ or not_full_, runs the body of its operation and   *)
(* releases mutex_ in separate steps, and every notify call happens after  *)
(* the unlock, as it does in the code.                                     *)
(*                                                                         *)
(* The wait set of a condition variable is the set of threads blocked on   *)
(* it.  condition_variable_any releases the lock and joins the wait set in *)
(* one step, and may wake a thread for no reason.  The lock holder's       *)
(* changes between the end of a wait and the unlock form one step: mutex_  *)
(* guards everything they touch except the counter, which is only read     *)
(* outside it.                                                             *)
(***************************************************************************)
EXTENDS Integers, Sequences, FiniteSets

CONSTANTS Threads,     \* the threads that use the queue
          Calls,       \* the operations each of them may call
          Capacity,    \* capacity_
          Policy,      \* policy_
          AllocFails,  \* whether queue_.push() may throw std::bad_alloc
          MaxItems,    \* bound: items ever offered to push and tryPush
          MaxSpurious, \* bound: wakeups without a notification
          NoThread     \* the owner of a free mutex

Pushes == {"push", "tryPush"}
Pops == {"waitAndPop", "tryPop"}
Operations == Pushes \cup Pops \cup {"close", "waitUntilEmpty"}

\* enum class OverflowPolicy
OverflowPolicy == {"Block", "DropNewest", "DropOldest"}

ASSUME QueueAssumption ==
    /\ IsFiniteSet(Threads)
    /\ NoThread \notin Threads
    /\ Calls \in [Threads -> SUBSET Operations]
    /\ Capacity \in Nat \ {0}
    /\ Policy \in OverflowPolicy
    /\ AllocFails \in BOOLEAN
    /\ MaxItems \in Nat
    /\ MaxSpurious \in Nat

VARIABLES
    mutex,         \* the thread that holds mutex_, or NoThread
    queue,         \* queue_
    closed,        \* closed_
    droppedCount,  \* droppedCount_
    pc,            \* where each thread is
    op,            \* the operation it calls, or called last
    item,          \* the item it offers, or received last; 0 when there is none
    ret,           \* what its last operation returned
    issued,        \* number of items offered so far: items are 1, 2, 3, ...
    spurious,      \* number of spurious wakeups so far
    stored,        \* history: every item stored, in order
    removed,       \* history: every item taken off the front, in order
    evicted,       \* history: the removed items no caller received
    refused        \* history: the items turned away because the queue was full

members == <<queue, closed, droppedCount>>
history == <<stored, removed, evicted, refused>>
vars == <<mutex, members, pc, op, item, ret, issued, spurious, history>>

Items == 1..MaxItems

\* MUTANT of Full: > for >=.
FullOffByOne == Len(queue) > Capacity

\* full()
Full == Len(queue) >= Capacity

\* Only these operations wait: push() does under the Block policy alone.
Waits(t) == \/ op[t] \in {"waitAndPop", "waitUntilEmpty"}
            \/ op[t] = "push" /\ Policy = "Block"

\* MUTANT of WaitPredicate: push() stops waiting one slot too early.
WaitPredicateOffByOne(t) ==
    CASE op[t] = "push" -> Len(queue) <= Capacity \/ closed
      [] op[t] = "waitAndPop" -> queue # <<>> \/ closed
      [] OTHER -> queue = <<>>

\* The predicates of the three wait loops.
WaitPredicate(t) ==
    CASE op[t] = "push" -> ~Full \/ closed
      [] op[t] = "waitAndPop" -> queue # <<>> \/ closed
      [] OTHER -> queue = <<>>

\* The threads asleep on not_empty_ and on not_full_.
NotEmptyWaiters == {t \in Threads : pc[t] = "blocked" /\ op[t] = "waitAndPop"}
NotFullWaiters == {t \in Threads : pc[t] = "blocked" /\ op[t] \in {"push", "waitUntilEmpty"}}

Goto(t, label) == pc' = [pc EXCEPT ![t] = label]

\* t goes on to label and the threads of woken go for the lock.
GotoAndWake(t, label, woken) ==
    pc' = [u \in Threads |-> IF u = t THEN label
                             ELSE IF u \in woken THEN "lock" ELSE pc[u]]

\* MUTANT of LockIsFree: a woken waiter goes on without owning the lock.
LockIsNotTested == TRUE
LockIsFree == mutex = NoThread

Unlock == mutex' = NoThread

-----------------------------------------------------------------------------
Init == /\ mutex = NoThread
        /\ queue = <<>> /\ closed = FALSE /\ droppedCount = 0
        /\ pc = [t \in Threads |-> "idle"]
        /\ op = [t \in Threads |-> "none"]
        /\ item = [t \in Threads |-> 0]
        /\ ret = [t \in Threads |-> "none"]
        /\ issued = 0 /\ spurious = 0
        /\ stored = <<>> /\ removed = <<>> /\ evicted = {} /\ refused = {}

\* A client calls operation o; a push offers the next item.
Call(t, o) ==
    /\ pc[t] = "idle"
    /\ o \in Calls[t]
    /\ o \in Pushes => issued < MaxItems
    /\ issued' = IF o \in Pushes THEN issued + 1 ELSE issued
    /\ item' = [item EXCEPT ![t] = IF o \in Pushes THEN issued + 1 ELSE 0]
    /\ op' = [op EXCEPT ![t] = o]
    /\ ret' = [ret EXCEPT ![t] = "none"]
    /\ Goto(t, "lock")
    /\ UNCHANGED <<mutex, members, spurious, history>>

\* mutex_.lock(), on entry and again when a wait is woken.
Lock(t) ==
    /\ pc[t] = "lock"
    /\ LockIsFree
    /\ mutex' = t
    /\ Goto(t, IF Waits(t) THEN "check" ELSE "body")
    /\ UNCHANGED <<members, op, item, ret, issued, spurious, history>>

\* The condition of the loop inside wait(lock, predicate).
Check(t) ==
    /\ pc[t] = "check"
    /\ Goto(t, IF WaitPredicate(t) THEN "body" ELSE "sleep")
    /\ UNCHANGED <<mutex, members, op, item, ret, issued, spurious, history>>

\* wait(lock): release the lock and join the wait set.
Sleep(t) ==
    /\ pc[t] = "sleep"
    /\ Unlock
    /\ Goto(t, "blocked")
    /\ UNCHANGED <<members, op, item, ret, issued, spurious, history>>

SpuriousWakeup(t) ==
    /\ pc[t] = "blocked"
    /\ spurious < MaxSpurious
    /\ spurious' = spurious + 1
    /\ Goto(t, "lock")
    /\ UNCHANGED <<mutex, members, op, item, ret, issued, history>>

-----------------------------------------------------------------------------
\* The item may go in: closed_ is clear and, on a full queue, the policy evicts.
\* MUTANT of MayStore: closed_ is not tested.
MayStoreWhenClosed == Full => Policy = "DropOldest"
MayStore == ~closed /\ (Full => Policy = "DropOldest")

\* droppedCount_ counts what a full queue refuses, not what a closed one does.
CountRefusal == droppedCount' = IF closed THEN droppedCount ELSE droppedCount + 1

\* enqueueLocked(), the outcomes that store nothing.
Reject(t) ==
    /\ pc[t] = "body" /\ op[t] \in Pushes
    /\ ~MayStore
    /\ CountRefusal
    /\ refused' = IF closed THEN refused ELSE refused \cup {item[t]}
    /\ ret' = [ret EXCEPT ![t] = "false"]
    /\ Unlock
    /\ Goto(t, "idle")
    /\ UNCHANGED <<queue, closed, op, item, issued, spurious, stored, removed, evicted>>

\* What stays in front of a stored item: a full queue loses its oldest one.
\* MUTANT of Kept: the newest buffered item is evicted.
KeptWithoutNewest == IF Full THEN SubSeq(queue, 1, Len(queue) - 1) ELSE queue
Kept == IF Full THEN Tail(queue) ELSE queue

\* MUTANT of CountEviction: an eviction is not counted.
EvictionNotCounted == droppedCount' = droppedCount
CountEviction == droppedCount' = IF Full THEN droppedCount + 1 ELSE droppedCount

\* MUTANT of AfterStore: not_empty_ is notified only if the queue was empty.
AfterStoreIfEmpty == IF queue = <<>> THEN "notifyOne" ELSE "idle"
AfterStore == "notifyOne"

\* The first half of enqueueLocked(): a full queue loses its oldest item.
Evict(t) ==
    /\ pc[t] = "body" /\ op[t] \in Pushes
    /\ MayStore
    /\ CountEviction
    /\ removed' = IF Full THEN Append(removed, Head(queue)) ELSE removed
    /\ evicted' = IF Full THEN evicted \cup {Head(queue)} ELSE evicted

\* enqueueLocked(), storing the item up to the unlock.
Store(t) ==
    /\ Evict(t)
    /\ queue' = Append(Kept, item[t])
    /\ stored' = Append(stored, item[t])
    /\ ret' = [ret EXCEPT ![t] = "true"]
    /\ Unlock
    /\ Goto(t, AfterStore)
    /\ UNCHANGED <<closed, op, item, issued, spurious, refused>>

\* queue_.push() throws after the eviction: the lock is released as the exception
\* leaves, nothing is notified, and the evicted item stays evicted.
StoreThrows(t) ==
    /\ AllocFails
    /\ Evict(t)
    /\ queue' = Kept
    /\ ret' = [ret EXCEPT ![t] = "threw"]
    /\ Unlock
    /\ Goto(t, "idle")
    /\ UNCHANGED <<closed, op, item, issued, spurious, stored, refused>>

\* not_empty_.notify_one() at the end of enqueueLocked().
NotifyOne(t) ==
    /\ pc[t] = "notifyOne"
    /\ \/ NotEmptyWaiters = {} /\ Goto(t, "idle")
       \/ \E w \in NotEmptyWaiters : GotoAndWake(t, "idle", {w})
    /\ UNCHANGED <<mutex, members, op, item, ret, issued, spurious, history>>

\* waitAndPop() and tryPop() on an empty queue.
PopNothing(t) ==
    /\ pc[t] = "body" /\ op[t] \in Pops
    /\ queue = <<>>
    /\ ret' = [ret EXCEPT ![t] = "nullopt"]
    /\ Unlock
    /\ Goto(t, "idle")
    /\ UNCHANGED <<members, op, item, issued, spurious, history>>

\* What popLockedAndNotify() leaves in the queue.
\* MUTANT of Rest: the front is moved from but not popped.
RestWithMovedFrom == [queue EXCEPT ![1] = 0]
\* MUTANT of Rest: the front is copied out but not popped.
RestWithFront == queue
Rest == Tail(queue)

\* MUTANT of AfterPop: not_full_ is notified only if the queue was full.
AfterPopIfFull == IF Full THEN "notifyFull" ELSE "idle"
AfterPop == "notifyFull"

\* popLockedAndNotify() up to its unlock.
Pop(t) ==
    /\ pc[t] = "body" /\ op[t] \in Pops
    /\ queue # <<>>
    /\ item' = [item EXCEPT ![t] = Head(queue)]
    /\ queue' = Rest
    /\ removed' = Append(removed, Head(queue))
    /\ ret' = [ret EXCEPT ![t] = "item"]
    /\ Unlock
    /\ Goto(t, AfterPop)
    /\ UNCHANGED <<closed, droppedCount, op, issued, spurious, stored, evicted, refused>>

\* close() up to its unlock.
Close(t) ==
    /\ pc[t] = "body" /\ op[t] = "close"
    /\ closed' = TRUE
    /\ Unlock
    /\ Goto(t, "notifyEmpty")
    /\ UNCHANGED <<queue, droppedCount, op, item, ret, issued, spurious, history>>

\* waitUntilEmpty() returns.
Emptied(t) ==
    /\ pc[t] = "body" /\ op[t] = "waitUntilEmpty"
    /\ Unlock
    /\ Goto(t, "idle")
    /\ UNCHANGED <<members, op, item, ret, issued, spurious, history>>

\* The threads notify_all() may wake, given those asleep: all of them.
\* MUTANT of NotifyAll: notify_one() instead.
NotifyAnyOne(sleepers) == IF sleepers = {} THEN {{}} ELSE {{w} : w \in sleepers}
NotifyAll(sleepers) == {sleepers}

\* not_empty_.notify_all(), the first of the two in close().
NotifyEmpty(t) ==
    /\ pc[t] = "notifyEmpty"
    /\ \E woken \in NotifyAll(NotEmptyWaiters) : GotoAndWake(t, "notifyFull", woken)
    /\ UNCHANGED <<mutex, members, op, item, ret, issued, spurious, history>>

\* not_full_.notify_all(), at the end of close() and of popLockedAndNotify().
NotifyFull(t) ==
    /\ pc[t] = "notifyFull"
    /\ \E woken \in NotifyAll(NotFullWaiters) : GotoAndWake(t, "idle", woken)
    /\ UNCHANGED <<mutex, members, op, item, ret, issued, spurious, history>>

-----------------------------------------------------------------------------
\* What a thread does inside an operation once it is called.
Step(t) == \/ Lock(t) \/ Check(t) \/ Sleep(t)
           \/ Reject(t) \/ Store(t) \/ StoreThrows(t) \/ NotifyOne(t)
           \/ PopNothing(t) \/ Pop(t) \/ Emptied(t)
           \/ Close(t) \/ NotifyEmpty(t) \/ NotifyFull(t)

Next == \E t \in Threads :
            \/ \E o \in Operations : Call(t, o)
            \/ Step(t)
            \/ SpuriousWakeup(t)

Spec == Init /\ [][Next]_vars

\* A thread inside an operation is scheduled, and the mutex is not withheld
\* for ever from a thread that asks for it.
Fairness == \A t \in Threads : WF_vars(Step(t)) /\ SF_vars(Lock(t))

FairSpec == Spec /\ Fairness
-----------------------------------------------------------------------------
\* Every variable keeps its type; the lock, the labels and the items are the
\* ones the code can have.
TypeOK ==
    /\ mutex \in Threads \cup {NoThread}
    /\ queue \in Seq(Items) /\ closed \in BOOLEAN /\ droppedCount \in Nat
    /\ pc \in [Threads -> {"idle", "lock", "check", "sleep", "blocked", "body",
                           "notifyOne", "notifyEmpty", "notifyFull"}]
    /\ op \in [Threads -> Operations \cup {"none"}]
    /\ item \in [Threads -> Items \cup {0}]
    /\ ret \in [Threads -> {"none", "true", "false", "item", "nullopt", "threw"}]
    /\ issued \in 0..MaxItems /\ spurious \in 0..MaxSpurious
    /\ stored \in Seq(Items) /\ removed \in Seq(Items)
    /\ evicted \in SUBSET Items /\ refused \in SUBSET Items

\* mutex_ is held by exactly the thread between its acquisition and its release,
\* and what a wait loop last found still holds when the thread acts on it: an
\* ended wait finds its predicate true in the body, a thread about to sleep
\* finds it false.
LockDiscipline ==
    \A t \in Threads :
        /\ pc[t] \in {"check", "sleep", "body"} <=> mutex = t
        /\ pc[t] = "body" /\ Waits(t) => WaitPredicate(t)
        /\ pc[t] = "sleep" => ~WaitPredicate(t)

\* The queue never holds more than capacity_ items (push, tryPush and the
\* eviction of enqueueLocked), whatever pushes race for its last slot.
CapacityBound == Len(queue) <= Capacity

\* Items leave in the order they were stored, none disappears and none comes
\* out twice: what left the queue followed by what is in it is what was stored.
FifoConservation == stored = removed \o queue

\* droppedCount() is exactly the number of items the overflow policy discarded,
\* evictions and refusals alike; a push refused by a closed queue is no drop.
DropsCounted == droppedCount = Cardinality(evicted) + Cardinality(refused)

\* A blocking push() of a Block queue is never turned away for lack of space:
\* the slot it was woken for cannot be taken between the end of its wait and
\* enqueueLocked().  This is why the input queue's drop counter stays zero.
BlockingPushNeverDrops ==
    Policy = "Block" =>
        /\ evicted = {}
        /\ \A t \in Threads : op[t] = "push" => item[t] \notin refused

\* End-of-stream is final: once a waitAndPop() has returned nullopt the queue is
\* closed and empty and stays so, since enqueueLocked() stores nothing any more.
EndOfStreamIsFinal ==
    (\E t \in Threads : op[t] = "waitAndPop" /\ ret[t] = "nullopt") =>
        closed /\ queue = <<>>

\* The threads on their way to take an item: awake inside waitAndPop().
ActiveConsumers ==
    {t \in Threads : op[t] = "waitAndPop" /\ pc[t] \in {"lock", "check", "body"}}

\* The threads that owe not_empty_ a notify_one().
PendingNotifies == {t \in Threads : pc[t] = "notifyOne"}

\* No wakeup is lost on not_empty_, where enqueueLocked() notifies one waiter
\* only: while a consumer sleeps, every buffered item has a consumer already
\* awake or a notify_one() still to come, and a close has its notify_all() to come.
NoLostItemWakeup ==
    NotEmptyWaiters # {} =>
        /\ Len(queue) <= Cardinality(ActiveConsumers) + Cardinality(PendingNotifies)
        /\ closed => \E t \in Threads : pc[t] = "notifyEmpty"

\* No wakeup is lost on not_full_, which blocked producers and waitUntilEmpty()
\* share: if what a sleeper waits for holds, a notify_all() on not_full_ is due.
\* One case is excepted: on a queue of capacity one an eviction whose store then
\* throws empties the queue and notifies nobody.
NoLostSpaceWakeup ==
    (AllocFails => Capacity > 1) /\ (\E t \in NotFullWaiters : WaitPredicate(t)) =>
        \E t \in Threads :
            pc[t] = "notifyFull" \/ (closed /\ pc[t] = "notifyEmpty")
-----------------------------------------------------------------------------
\* A thread has taken effect, as its callers see it, once its body ran: the
\* notifications that follow change nothing they can observe.
Calling == {t \in Threads : pc[t] \in {"lock", "check", "sleep", "blocked", "body"}}

Promise == INSTANCE BoundedQueue WITH calling <- Calling

\* The queue implements the atomic queue of BoundedQueue: operations are
\* linearizable, with the critical section as the point where they take effect.
ImplementsBoundedQueue == Promise!Spec

\* It also implements its progress promise: an operation that could return for
\* ever does return, so no sleeper is left behind by the notifications.
ImplementsFairBoundedQueue == Promise!FairSpec
=============================================================================
