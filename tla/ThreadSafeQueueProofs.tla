------------------------ MODULE ThreadSafeQueueProofs ------------------------
(***************************************************************************)
(* Proofs about ThreadSafeQueue for every set of threads, capacity and     *)
(* policy: the order of items and the closing of the queue, the atomic     *)
(* queue of BoundedQueue that it implements, and what it drops:            *)
(* droppedCount_ counts it exactly, and a blocking push() of a Block queue *)
(* is never among it.                                                      *)
(***************************************************************************)
EXTENDS ThreadSafeQueue, SequenceTheorems, FiniteSetTheorems, TLAPS

\* Moving the front of q to the end of s leaves their concatenation alone.
LEMMA MoveFront ==
    ASSUME NEW S, NEW s \in Seq(S), NEW q \in Seq(S), q # <<>>
    PROVE  Append(s, Head(q)) \o Tail(q) = s \o q
<1>1. Head(q) \in S /\ Tail(q) \in Seq(S) /\ Len(Tail(q)) = Len(q) - 1
      /\ \A i \in 1..Len(Tail(q)) : Tail(q)[i] = q[i + 1]
  BY HeadTailProperties
<1>2. Append(s, Head(q)) \in Seq(S) /\ Len(Append(s, Head(q))) = Len(s) + 1
      /\ (\A i \in 1..Len(s) : Append(s, Head(q))[i] = s[i])
      /\ Append(s, Head(q))[Len(s) + 1] = Head(q)
  BY <1>1, AppendProperties
<1>3. Head(q) = q[1] /\ Len(q) \in Nat \ {0} /\ Len(s) \in Nat
  BY EmptySeq, LenProperties
<1> DEFINE l == Append(s, Head(q)) \o Tail(q)
           r == s \o q
<1>4. /\ l \in Seq(S) /\ r \in Seq(S) /\ Len(l) = Len(r)
  BY <1>1, <1>2, <1>3, ConcatProperties
<1>5. ASSUME NEW i \in 1..Len(l) PROVE l[i] = r[i]
  <2>1. Len(l) = Len(s) + Len(q) BY <1>1, <1>2, <1>3, ConcatProperties
  <2>2. l[i] = IF i <= Len(s) + 1 THEN Append(s, Head(q))[i] ELSE Tail(q)[i - (Len(s) + 1)]
    BY <1>1, <1>2, <1>3, <2>1, ConcatProperties
  <2>3. r[i] = IF i <= Len(s) THEN s[i] ELSE q[i - Len(s)]
    BY <1>3, <2>1, ConcatProperties
  <2> QED BY <1>1, <1>2, <1>3, <2>1, <2>2, <2>3
<1> QED BY <1>4, <1>5, SeqEqual

\* Appending to the second part of a concatenation appends to the whole.
LEMMA AppendRight ==
    ASSUME NEW S, NEW s \in Seq(S), NEW q \in Seq(S), NEW e \in S
    PROVE  s \o Append(q, e) = Append(s \o q, e)
<1>1. /\ Append(q, e) = q \o <<e>>
      /\ s \o q \in Seq(S)
      /\ <<e>> \in Seq(S)
  BY AppendIsConcat, ConcatProperties
<1>2. Append(s \o q, e) = (s \o q) \o <<e>>
  BY <1>1, AppendIsConcat
<1> QED BY <1>1, <1>2, ConcatAssociative

-----------------------------------------------------------------------------
\* What holds of a thread inside an operation: it knows which one, it carries
\* an item if it pushes, and it is in a wait loop only if its operation waits.
CallInv ==
    \A t \in Threads :
        /\ pc[t] \in {"lock", "check", "sleep", "blocked", "body"} =>
               /\ op[t] \in Operations
               /\ op[t] \in Pushes => item[t] \in Items
        /\ pc[t] \in {"check", "sleep", "blocked"} => Waits(t)

\* The inductive invariant.
QueueInv == TypeOK /\ LockDiscipline /\ CallInv /\ CapacityBound /\ FifoConservation

\* QueueInv holds of the queue the constructor builds.
LEMMA QueueInvInit == Init => QueueInv
<1> SUFFICES ASSUME Init PROVE QueueInv
  OBVIOUS
<1>1. TypeOK
  <2>1. <<>> \in Seq(Items)
    BY EmptySeq
  <2>2. 0 \in 0..MaxItems /\ 0 \in 0..MaxSpurious
    BY QueueAssumption
  <2> QED BY <2>1, <2>2 DEF Init, TypeOK
<1>2. LockDiscipline /\ CallInv
  BY QueueAssumption DEF Init, LockDiscipline, CallInv
<1>3. CapacityBound
  BY QueueAssumption, EmptySeq DEF Init, CapacityBound
<1>4. FifoConservation
  BY ConcatEmptySeq, EmptySeq DEF Init, FifoConservation
<1> QED BY <1>1, <1>2, <1>3, <1>4 DEF QueueInv

\* A step that leaves the queue, closed_ and the histories alone keeps the
\* facts that are about them only.
LEMMA DataUnchanged ==
    ASSUME CapacityBound, FifoConservation, UNCHANGED <<queue, stored, removed>>
    PROVE  CapacityBound' /\ FifoConservation'
BY DEF CapacityBound, FifoConservation

\* What the eviction of enqueueLocked() leaves: room for one more item, and the
\* evicted one at the end of what was removed.
LEMMA EvictKeeps ==
    ASSUME QueueInv, NEW t \in Threads, Evict(t)
    PROVE  /\ item[t] \in Items /\ Kept \in Seq(Items) /\ Len(Kept) < Capacity
           /\ removed' \in Seq(Items) /\ removed' \o Kept = removed \o queue
           /\ droppedCount' \in Nat /\ evicted' \in SUBSET Items
<1> USE QueueAssumption DEF QueueInv, Evict
<1>1. /\ item[t] \in Items
      /\ queue \in Seq(Items) /\ removed \in Seq(Items)
      /\ Full => queue # <<>> /\ Len(queue) = Capacity
      /\ Kept = IF Full THEN Tail(queue) ELSE queue
  BY EmptySeq, LenProperties DEF TypeOK, CallInv, Full, CapacityBound, Kept
<1>2. /\ Kept \in Seq(Items)
      /\ Len(Kept) < Capacity
      /\ removed' \in Seq(Items)
      /\ removed' \o Kept = removed \o queue
  <2>1. CASE Full
    BY <1>1, <2>1, HeadTailProperties, AppendProperties, MoveFront
  <2>2. CASE ~Full
    BY <1>1, <2>2, LenProperties DEF Full
  <2> QED BY <2>1, <2>2
<1>3. Full => Head(queue) \in Items
  BY <1>1, HeadTailProperties
<1>4. droppedCount' \in Nat
  BY DEF TypeOK, CountEviction
<1>5. evicted' \in SUBSET Items
  BY <1>3 DEF TypeOK
<1> QED BY ONLY <1>1, <1>2, <1>4, <1>5

\* Every step of every operation preserves QueueInv.
LEMMA QueueInvStep == QueueInv /\ [Next]_vars => QueueInv'
<1> SUFFICES ASSUME QueueInv, [Next]_vars PROVE QueueInv'
  OBVIOUS
<1> USE QueueAssumption DEF QueueInv
<1>1. ASSUME NEW t \in Threads, NEW o \in Operations, Call(t, o) PROVE QueueInv'
  <2> USE <1>1 DEF Call, Goto, members, history
  <2>1. TypeOK'
    BY DEF TypeOK, Items
  <2>2. LockDiscipline'
    BY DEF TypeOK, LockDiscipline, Waits, WaitPredicate, Full
  <2>3. CallInv'
    BY DEF TypeOK, CallInv, Waits, Items
  <2> QED BY <2>1, <2>2, <2>3, DataUnchanged
<1>2. ASSUME NEW t \in Threads, Lock(t) PROVE QueueInv'
  <2> USE <1>2 DEF Lock, Goto, members, history, LockIsFree
  <2>1. TypeOK'
    BY DEF TypeOK
  <2>2. LockDiscipline'
    BY DEF TypeOK, LockDiscipline, Waits, WaitPredicate, Full
  <2>3. CallInv'
    BY DEF TypeOK, CallInv, Waits
  <2> QED BY <2>1, <2>2, <2>3, DataUnchanged
<1>3. ASSUME NEW t \in Threads, Check(t) PROVE QueueInv'
  <2> USE <1>3 DEF Check, Goto, members, history
  <2>1. TypeOK'
    BY DEF TypeOK
  <2>2. LockDiscipline'
    BY DEF TypeOK, LockDiscipline, Waits, WaitPredicate, Full
  <2>3. CallInv'
    BY DEF TypeOK, CallInv, Waits
  <2> QED BY <2>1, <2>2, <2>3, DataUnchanged
<1>4. ASSUME NEW t \in Threads, Sleep(t) PROVE QueueInv'
  <2> USE <1>4 DEF Sleep, Goto, Unlock, members, history
  <2>1. TypeOK'
    BY DEF TypeOK
  <2>2. LockDiscipline'
    BY DEF TypeOK, LockDiscipline, Waits, WaitPredicate, Full
  <2>3. CallInv'
    BY DEF TypeOK, CallInv, Waits
  <2> QED BY <2>1, <2>2, <2>3, DataUnchanged
<1>5. ASSUME NEW t \in Threads, SpuriousWakeup(t) PROVE QueueInv'
  <2> USE <1>5 DEF SpuriousWakeup, Goto, members, history
  <2>1. TypeOK'
    BY DEF TypeOK
  <2>2. LockDiscipline'
    BY DEF TypeOK, LockDiscipline, Waits, WaitPredicate, Full
  <2>3. CallInv'
    BY DEF TypeOK, CallInv, Waits
  <2> QED BY <2>1, <2>2, <2>3, DataUnchanged
<1>6. ASSUME NEW t \in Threads, Reject(t) PROVE QueueInv'
  <2> USE <1>6 DEF Reject, CountRefusal, Goto, Unlock
  <2>1. TypeOK'
    BY DEF TypeOK, CallInv
  <2>2. LockDiscipline'
    BY DEF TypeOK, LockDiscipline, Waits, WaitPredicate, Full
  <2>3. CallInv'
    BY DEF TypeOK, CallInv, Waits
  <2> QED BY <2>1, <2>2, <2>3, DataUnchanged
<1>7. ASSUME NEW t \in Threads, Store(t) PROVE QueueInv'
  <2> USE <1>7 DEF Store, Goto, Unlock
  <2>1. /\ item[t] \in Items /\ Kept \in Seq(Items) /\ Len(Kept) < Capacity
        /\ removed' \in Seq(Items) /\ removed' \o Kept = removed \o queue
        /\ droppedCount' \in Nat /\ evicted' \in SUBSET Items
    BY EvictKeeps
  <2>2. queue' \in Seq(Items) /\ Len(queue') <= Capacity /\ stored' \in Seq(Items)
    BY <2>1, AppendProperties, LenProperties DEF TypeOK
  <2>3. TypeOK'
    BY <2>1, <2>2 DEF TypeOK, AfterStore
  <2>4. LockDiscipline'
    BY DEF TypeOK, LockDiscipline, Waits, WaitPredicate, AfterStore, Evict
  <2>5. CallInv'
    BY DEF TypeOK, CallInv, Waits, AfterStore, Evict
  <2>6. FifoConservation'
    <3>1. \A r \in Seq(Items), q \in Seq(Items), e \in Items :
              r \o Append(q, e) = Append(r \o q, e)
      BY AppendRight
    <3>2. removed' \o Append(Kept, item[t]) = Append(removed' \o Kept, item[t])
      BY ONLY <2>1, <3>1, Zenon
    <3> QED BY <2>1, <3>2, Zenon DEF FifoConservation
  <2> QED BY <2>2, <2>3, <2>4, <2>5, <2>6 DEF CapacityBound
<1>16. ASSUME NEW t \in Threads, StoreThrows(t) PROVE QueueInv'
  <2> USE <1>16 DEF StoreThrows, Goto, Unlock
  <2>1. /\ Kept \in Seq(Items) /\ Len(Kept) < Capacity
        /\ removed' \in Seq(Items) /\ removed' \o Kept = removed \o queue
        /\ droppedCount' \in Nat /\ evicted' \in SUBSET Items
    BY EvictKeeps
  <2>2. TypeOK'
    BY <2>1 DEF TypeOK
  <2>3. LockDiscipline'
    BY DEF TypeOK, LockDiscipline, Waits, WaitPredicate, Evict
  <2>4. CallInv'
    BY DEF TypeOK, CallInv, Waits, Evict
  <2>5. FifoConservation'
    BY <2>1, Zenon DEF FifoConservation
  <2>6. CapacityBound'
    BY <2>1, LenProperties DEF CapacityBound
  <2> QED BY <2>2, <2>3, <2>4, <2>5, <2>6
<1>8. ASSUME NEW t \in Threads, NotifyOne(t) PROVE QueueInv'
  <2> USE <1>8 DEF NotifyOne, Goto, GotoAndWake, NotEmptyWaiters, members, history
  <2>1. TypeOK'
    BY DEF TypeOK
  <2>2. LockDiscipline'
    BY DEF TypeOK, LockDiscipline, Waits, WaitPredicate, Full
  <2>3. CallInv'
    <3>1. \A u \in Threads : pc'[u] \in {pc[u], "idle"} \/ (pc[u] = "blocked" /\ pc'[u] = "lock")
      BY DEF TypeOK
    <3> QED BY <3>1 DEF CallInv, Waits
  <2> QED BY <2>1, <2>2, <2>3, DataUnchanged
<1>9. ASSUME NEW t \in Threads, PopNothing(t) PROVE QueueInv'
  <2> USE <1>9 DEF PopNothing, Goto, Unlock, members, history
  <2>1. TypeOK'
    BY DEF TypeOK
  <2>2. LockDiscipline'
    BY DEF TypeOK, LockDiscipline, Waits, WaitPredicate, Full
  <2>3. CallInv'
    BY DEF TypeOK, CallInv, Waits
  <2> QED BY <2>1, <2>2, <2>3, DataUnchanged
<1>10. ASSUME NEW t \in Threads, Pop(t) PROVE QueueInv'
  <2> USE <1>10 DEF Pop, AfterPop, Goto, Unlock
  <2>1. /\ Head(queue) \in Items /\ Rest \in Seq(Items)
        /\ Len(Rest) = Len(queue) - 1
        /\ removed' \in Seq(Items)
        /\ removed' \o Rest = removed \o queue
    <3>1. queue \in Seq(Items) /\ queue # <<>> /\ removed \in Seq(Items)
          /\ Rest = Tail(queue) /\ removed' = Append(removed, Head(queue))
      BY DEF TypeOK, Rest
    <3>2. Head(queue) \in Items /\ Tail(queue) \in Seq(Items) /\ Len(Tail(queue)) = Len(queue) - 1
      BY ONLY <3>1, HeadTailProperties
    <3>3. Append(removed, Head(queue)) \in Seq(Items)
      BY ONLY <3>1, <3>2, AppendProperties
    <3>4. Append(removed, Head(queue)) \o Tail(queue) = removed \o queue
      BY ONLY <3>1, MoveFront
    <3> QED BY ONLY <3>1, <3>2, <3>3, <3>4
  <2>2. TypeOK'
    BY <2>1 DEF TypeOK
  <2>3. LockDiscipline'
    BY DEF TypeOK, LockDiscipline, Waits, WaitPredicate
  <2>4. CallInv'
    BY DEF TypeOK, CallInv, Waits
  <2>5. CapacityBound' /\ FifoConservation'
    <3>1. Len(queue) \in Nat /\ Len(queue') = Len(queue) - 1
      BY <2>1, LenProperties DEF TypeOK
    <3>2. removed' \o queue' = removed \o queue /\ stored' = stored
      BY <2>1
    <3>3. CapacityBound'
      BY <3>1 DEF CapacityBound
    <3>4. FifoConservation'
      BY <3>2, Zenon DEF FifoConservation
    <3> QED BY <3>3, <3>4
  <2> QED BY <2>2, <2>3, <2>4, <2>5
<1>11. ASSUME NEW t \in Threads, Close(t) PROVE QueueInv'
  <2> USE <1>11 DEF Close, Goto, Unlock, members, history
  <2>1. TypeOK'
    BY DEF TypeOK
  <2>2. LockDiscipline'
    BY DEF TypeOK, LockDiscipline, Waits, WaitPredicate, Full
  <2>3. CallInv'
    BY DEF TypeOK, CallInv, Waits
  <2> QED BY <2>1, <2>2, <2>3, DataUnchanged
<1>12. ASSUME NEW t \in Threads, Emptied(t) PROVE QueueInv'
  <2> USE <1>12 DEF Emptied, Goto, Unlock, members, history
  <2>1. TypeOK'
    BY DEF TypeOK
  <2>2. LockDiscipline'
    BY DEF TypeOK, LockDiscipline, Waits, WaitPredicate, Full
  <2>3. CallInv'
    BY DEF TypeOK, CallInv, Waits
  <2> QED BY <2>1, <2>2, <2>3, DataUnchanged
<1>13. ASSUME NEW t \in Threads, NotifyEmpty(t) PROVE QueueInv'
  <2> USE <1>13 DEF NotifyEmpty, GotoAndWake, NotifyAll, NotEmptyWaiters, members, history
  <2>1. TypeOK'
    BY DEF TypeOK
  <2>2. LockDiscipline'
    BY DEF TypeOK, LockDiscipline, Waits, WaitPredicate, Full
  <2>3. CallInv'
    BY DEF TypeOK, CallInv, Waits
  <2> QED BY <2>1, <2>2, <2>3, DataUnchanged
<1>14. ASSUME NEW t \in Threads, NotifyFull(t) PROVE QueueInv'
  <2> USE <1>14 DEF NotifyFull, GotoAndWake, NotifyAll, NotFullWaiters, members, history
  <2>1. TypeOK'
    BY DEF TypeOK
  <2>2. LockDiscipline'
    BY DEF TypeOK, LockDiscipline, Waits, WaitPredicate, Full
  <2>3. CallInv'
    BY DEF TypeOK, CallInv, Waits
  <2> QED BY <2>1, <2>2, <2>3, DataUnchanged
<1>15. CASE UNCHANGED vars
  <2> USE <1>15 DEF vars, members, history
  <2>1. TypeOK'
    BY DEF TypeOK
  <2>2. LockDiscipline' /\ CallInv'
    BY DEF LockDiscipline, CallInv, Waits, WaitPredicate, Full
  <2> QED BY <2>1, <2>2, DataUnchanged
<1> QED
  BY <1>1, <1>2, <1>3, <1>4, <1>5, <1>6, <1>7, <1>8, <1>9, <1>10, <1>11, <1>12,
     <1>13, <1>14, <1>15, <1>16 DEF Next, Step

\* QueueInv holds in every state of every behaviour.
THEOREM QueueInvariant == Spec => []QueueInv
BY QueueInvInit, QueueInvStep, PTL DEF Spec

\* Type correctness of every reachable state.
THEOREM TypeCorrect == Spec => []TypeOK
BY QueueInvariant, PTL DEF QueueInv

\* mutex_ excludes, and what a wait loop found is still true when acted upon.
THEOREM LockDisciplineHolds == Spec => []LockDiscipline
BY QueueInvariant, PTL DEF QueueInv

\* However many threads push, the queue never exceeds capacity_.
THEOREM CapacityHolds == Spec => []CapacityBound
BY QueueInvariant, PTL DEF QueueInv

\* First in, first out; nothing is lost and nothing is delivered twice.
THEOREM FifoHolds == Spec => []FifoConservation
BY QueueInvariant, PTL DEF QueueInv

-----------------------------------------------------------------------------
\* End-of-stream: PopNothing ends a wait whose predicate held on an empty
\* queue, so closed_ is set, and MayStore keeps a closed queue from growing.
THEOREM EndOfStreamHolds == Spec => []EndOfStreamIsFinal
<1>1. Init => EndOfStreamIsFinal
  BY DEF Init, EndOfStreamIsFinal
<1>2. QueueInv /\ EndOfStreamIsFinal /\ [Next]_vars => EndOfStreamIsFinal'
  <2> SUFFICES ASSUME QueueInv, EndOfStreamIsFinal, [Next]_vars
               PROVE  EndOfStreamIsFinal'
    OBVIOUS
  <2> USE DEF QueueInv, TypeOK, EndOfStreamIsFinal
  <2>1. ASSUME NEW t \in Threads, NEW o \in Operations, Call(t, o)
        PROVE  EndOfStreamIsFinal'
    BY <2>1 DEF Call, members
  <2>2. ASSUME NEW t \in Threads,
               Lock(t) \/ Check(t) \/ Sleep(t) \/ SpuriousWakeup(t) \/ Emptied(t)
               \/ NotifyOne(t) \/ NotifyEmpty(t) \/ NotifyFull(t)
        PROVE  EndOfStreamIsFinal'
    BY <2>2 DEF Lock, Check, Sleep, SpuriousWakeup, Emptied, NotifyOne, NotifyEmpty,
                NotifyFull, members
  <2>3. ASSUME NEW t \in Threads, Reject(t) PROVE EndOfStreamIsFinal'
    BY <2>3 DEF Reject
  <2>4. ASSUME NEW t \in Threads, Store(t) PROVE EndOfStreamIsFinal'
    BY <2>4 DEF Store, Evict, MayStore
  <2>9. ASSUME NEW t \in Threads, StoreThrows(t) PROVE EndOfStreamIsFinal'
    BY <2>9 DEF StoreThrows, Evict, MayStore
  <2>5. ASSUME NEW t \in Threads, PopNothing(t) PROVE EndOfStreamIsFinal'
    BY <2>5 DEF PopNothing, members, LockDiscipline, Waits, WaitPredicate
  <2>6. ASSUME NEW t \in Threads, Pop(t) PROVE EndOfStreamIsFinal'
    BY <2>6 DEF Pop, AfterPop
  <2>7. ASSUME NEW t \in Threads, Close(t) PROVE EndOfStreamIsFinal'
    BY <2>7 DEF Close
  <2>8. CASE UNCHANGED vars
    BY <2>8 DEF vars, members
  <2> QED
    BY <2>1, <2>2, <2>3, <2>4, <2>5, <2>6, <2>7, <2>8, <2>9 DEF Next, Step
<1> QED BY <1>1, <1>2, QueueInvariant, PTL DEF Spec

-----------------------------------------------------------------------------
\* Lost wakeups on not_full_: a thread goes to sleep only while its predicate
\* is false, only Pop and Close make one true, and both owe a notify_all().
THEOREM SpaceWakeupHolds == Spec => []NoLostSpaceWakeup
<1> USE DEF NoLostSpaceWakeup, NotFullWaiters
<1>1. Init => NoLostSpaceWakeup
  BY DEF Init
<1>2. QueueInv /\ NoLostSpaceWakeup /\ [Next]_vars => NoLostSpaceWakeup'
  <2> SUFFICES ASSUME QueueInv, NoLostSpaceWakeup, [Next]_vars
               PROVE  NoLostSpaceWakeup'
    OBVIOUS
  <2> USE QueueAssumption DEF QueueInv, TypeOK
  <2>1. ASSUME NEW t \in Threads, NEW o \in Operations, Call(t, o)
        PROVE  NoLostSpaceWakeup'
    BY <2>1 DEF Call, Goto, members, WaitPredicate, Full
  <2>2. ASSUME NEW t \in Threads, Lock(t) PROVE NoLostSpaceWakeup'
    BY <2>2 DEF Lock, Goto, members, WaitPredicate, Full
  <2>3. ASSUME NEW t \in Threads, Check(t) PROVE NoLostSpaceWakeup'
    BY <2>3 DEF Check, Goto, members, WaitPredicate, Full
  <2>4. ASSUME NEW t \in Threads, Sleep(t) PROVE NoLostSpaceWakeup'
    BY <2>4 DEF Sleep, Goto, members, WaitPredicate, Full, LockDiscipline
  <2>5. ASSUME NEW t \in Threads, SpuriousWakeup(t) PROVE NoLostSpaceWakeup'
    BY <2>5 DEF SpuriousWakeup, Goto, members, WaitPredicate, Full
  <2>6. ASSUME NEW t \in Threads, Reject(t) PROVE NoLostSpaceWakeup'
    BY <2>6 DEF Reject, Goto, WaitPredicate, Full
  <2>7. ASSUME NEW t \in Threads, Store(t) PROVE NoLostSpaceWakeup'
    <3>1. queue' # <<>> /\ (~Full' => ~Full)
      <4>1. item[t] \in Items
        BY <2>7 DEF Store, Evict, CallInv
      <4>2. Kept \in Seq(Items) /\ Len(Kept) \in Nat /\ (Full => Len(Kept) = Len(queue) - 1)
        <5>1. CASE Full
          BY <5>1, HeadTailProperties, EmptySeq, LenProperties DEF Kept, Full
        <5>2. CASE ~Full
          BY <5>2, LenProperties DEF Kept
        <5> QED BY <5>1, <5>2
      <4>3. queue' # <<>> /\ Len(queue') = Len(Kept) + 1
        <5>1. queue' = Append(Kept, item[t])
          BY <2>7 DEF Store
        <5>2. /\ Append(Kept, item[t]) # <<>>
              /\ Len(Append(Kept, item[t])) = Len(Kept) + 1
          BY ONLY <4>1, <4>2, AppendProperties
        <5> QED BY ONLY <5>1, <5>2
      <4> QED BY <4>2, <4>3, LenProperties DEF Full
    <3>2. \A u \in Threads : u \in NotFullWaiters' => u \in NotFullWaiters
      BY <2>7 DEF Store, Goto, AfterStore
    <3>3. \A u \in Threads : u \in NotFullWaiters /\ WaitPredicate(u)' => WaitPredicate(u)
      BY <2>7, <3>1 DEF Store, WaitPredicate
    <3>4. \A u \in Threads : pc[u] \in {"notifyFull", "notifyEmpty"} => pc'[u] = pc[u]
      BY <2>7 DEF Store, Evict, Goto
    <3> QED BY <2>7, <3>2, <3>3, <3>4 DEF Store
  <2>16. ASSUME NEW t \in Threads, StoreThrows(t) PROVE NoLostSpaceWakeup'
    <3>1. CASE Capacity > 1
      <4>1. \A u \in Threads : u \in NotFullWaiters' => u \in NotFullWaiters
        BY <2>16 DEF StoreThrows, Goto
      <4>2. \A u \in Threads : u \in NotFullWaiters => op[u] = "waitUntilEmpty" \/ Policy = "Block"
        BY DEF CallInv, Waits
      <4>3. queue' = <<>> => queue = <<>>
        <5>1. CASE Full
          <6>1. queue # <<>> /\ Len(queue) > 1
            BY <3>1, <5>1, EmptySeq, LenProperties DEF Full
          <6>2. queue' = Tail(queue) /\ Len(Tail(queue)) = Len(queue) - 1
            BY <2>16, <5>1, <6>1, HeadTailProperties DEF StoreThrows, Kept
          <6>3. Len(Tail(queue)) # 0
            <7> DEFINE n == Len(queue)
            <7>1. n \in Nat /\ n > 1 /\ Len(Tail(queue)) = n - 1
              BY <6>1, <6>2, LenProperties
            <7> HIDE DEF n
            <7>2. n - 1 # 0
              BY ONLY <7>1
            <7> QED BY ONLY <7>1, <7>2
          <6>4. Len(<<>>) = 0
            BY ONLY EmptySeq
          <6> QED BY ONLY <6>2, <6>3, <6>4
        <5>2. CASE ~Full
          BY <2>16, <5>2 DEF StoreThrows, Kept
        <5> QED BY <5>1, <5>2
      <4>4. Policy = "Block" => queue' = queue
        BY <2>16 DEF StoreThrows, Evict, MayStore, Kept
      <4>5. \A u \in Threads : u \in NotFullWaiters /\ WaitPredicate(u)' => WaitPredicate(u)
        BY <2>16, <4>2, <4>3, <4>4 DEF StoreThrows, WaitPredicate, Full
      <4>6. \A u \in Threads : pc[u] \in {"notifyFull", "notifyEmpty"} => pc'[u] = pc[u]
        BY <2>16 DEF StoreThrows, Evict, Goto
      <4> QED BY <2>16, <4>1, <4>5, <4>6 DEF StoreThrows
    <3>2. CASE ~(Capacity > 1)
      BY <2>16, <3>2 DEF StoreThrows
    <3> QED BY <3>1, <3>2
  <2>8. ASSUME NEW t \in Threads, NotifyOne(t) PROVE NoLostSpaceWakeup'
    <3>1. \A u \in Threads : /\ pc'[u] = "blocked" => pc[u] = "blocked"
                             /\ pc[u] \in {"notifyFull", "notifyEmpty"} => pc'[u] = pc[u]
      BY <2>8 DEF NotifyOne, Goto, GotoAndWake, NotEmptyWaiters
    <3> QED BY <2>8, <3>1 DEF NotifyOne, members, WaitPredicate, Full
  <2>9. ASSUME NEW t \in Threads, PopNothing(t) PROVE NoLostSpaceWakeup'
    BY <2>9 DEF PopNothing, Goto, members, WaitPredicate, Full
  <2>10. ASSUME NEW t \in Threads, Pop(t) PROVE NoLostSpaceWakeup'
    BY <2>10 DEF Pop, AfterPop, Goto
  <2>11. ASSUME NEW t \in Threads, Close(t) PROVE NoLostSpaceWakeup'
    BY <2>11 DEF Close, Goto
  <2>12. ASSUME NEW t \in Threads, Emptied(t) PROVE NoLostSpaceWakeup'
    BY <2>12 DEF Emptied, Goto, members, WaitPredicate, Full
  <2>13. ASSUME NEW t \in Threads, NotifyEmpty(t) PROVE NoLostSpaceWakeup'
    BY <2>13 DEF NotifyEmpty, GotoAndWake, NotifyAll
  <2>14. ASSUME NEW t \in Threads, NotifyFull(t) PROVE NoLostSpaceWakeup'
    BY <2>14 DEF NotifyFull, GotoAndWake, NotifyAll, members
  <2>15. CASE UNCHANGED vars
    BY <2>15 DEF vars, members, WaitPredicate, Full
  <2> QED
    BY <2>1, <2>2, <2>3, <2>4, <2>5, <2>6, <2>7, <2>8, <2>9, <2>10, <2>11, <2>12,
       <2>13, <2>14, <2>15, <2>16 DEF Next, Step
<1> QED BY <1>1, <1>2, QueueInvariant, PTL DEF Spec

-----------------------------------------------------------------------------
\* Sets of threads are finite, and a larger one has no fewer members.
LEMMA ThreadSets ==
    ASSUME NEW A \in SUBSET Threads, NEW B \in SUBSET Threads
    PROVE  /\ IsFiniteSet(A) /\ Cardinality(A) \in Nat
           /\ A \subseteq B => Cardinality(A) <= Cardinality(B)
           /\ \A x \in Threads \ A : Cardinality(A \cup {x}) = Cardinality(A) + 1
           /\ \A x \in A : Cardinality(A \ {x}) = Cardinality(A) - 1
<1>1. IsFiniteSet(A) /\ IsFiniteSet(B)
  BY QueueAssumption, FS_Subset
<1> QED BY <1>1, FS_CardinalityType, FS_Subset, FS_AddElement, FS_RemoveElement

\* A step that takes no wakeup away and adds no sleeper and no item keeps the
\* invariant, if a close keeps the notification it owes.
LEMMA DueKept ==
    ASSUME TypeOK, NoLostItemWakeup,
           ActiveConsumers \subseteq ActiveConsumers',
           PendingNotifies \subseteq PendingNotifies',
           NotEmptyWaiters' \subseteq NotEmptyWaiters,
           queue' = queue, closed' = closed,
           \A t \in Threads : pc[t] = "notifyEmpty" => pc'[t] = "notifyEmpty"
    PROVE  NoLostItemWakeup'
<1>1. ActiveConsumers' \in SUBSET Threads /\ PendingNotifies' \in SUBSET Threads
      /\ ActiveConsumers \in SUBSET Threads /\ PendingNotifies \in SUBSET Threads
  BY DEF ActiveConsumers, PendingNotifies
<1>2. Cardinality(ActiveConsumers) <= Cardinality(ActiveConsumers')
      /\ Cardinality(PendingNotifies) <= Cardinality(PendingNotifies')
  BY <1>1, ThreadSets
<1>3. /\ Cardinality(ActiveConsumers) \in Nat /\ Cardinality(ActiveConsumers') \in Nat
      /\ Cardinality(PendingNotifies) \in Nat /\ Cardinality(PendingNotifies') \in Nat
  BY <1>1, ThreadSets
<1>4. Len(queue) \in Nat
  BY LenProperties DEF TypeOK
<1> QED BY <1>2, <1>3, <1>4 DEF NoLostItemWakeup

\* While the queue is empty and open nothing is owed to a sleeper; while it is
\* empty, only a close is.
LEMMA NothingDue ==
    ASSUME queue' = <<>>, closed' => \E t \in Threads : pc'[t] = "notifyEmpty"
    PROVE  NoLostItemWakeup'
<1>1. ActiveConsumers' \in SUBSET Threads /\ PendingNotifies' \in SUBSET Threads
  BY DEF ActiveConsumers, PendingNotifies
<1>2. Cardinality(ActiveConsumers') \in Nat /\ Cardinality(PendingNotifies') \in Nat
  BY <1>1, ThreadSets
<1>3. Len(queue') = 0
  BY EmptySeq
<1> QED BY <1>2, <1>3 DEF NoLostItemWakeup

\* Every step preserves NoLostItemWakeup, given QueueInv.
LEMMA ItemWakeupStep ==
    QueueInv /\ NoLostItemWakeup /\ [Next]_vars => NoLostItemWakeup'
<1> SUFFICES ASSUME QueueInv, NoLostItemWakeup, [Next]_vars
             PROVE  NoLostItemWakeup'
  OBVIOUS
<1> DEFINE A == ActiveConsumers
           P == PendingNotifies
           W == NotEmptyWaiters
           Sets == /\ A \subseteq A' /\ P \subseteq P' /\ W' \subseteq W
                   /\ \A u \in Threads : pc[u] = "notifyEmpty" => pc'[u] = "notifyEmpty"
<1> USE DEF QueueInv
<1>0. TypeOK /\ A \in SUBSET Threads /\ P \in SUBSET Threads
      /\ A' \in SUBSET Threads /\ P' \in SUBSET Threads
  BY DEF ActiveConsumers, PendingNotifies
<1>1. ASSUME NEW t \in Threads, NEW o \in Operations, Call(t, o)
      PROVE  NoLostItemWakeup'
  <2>1. Sets /\ queue' = queue /\ closed' = closed
    BY <1>1 DEF Call, Goto, members, ActiveConsumers, PendingNotifies, NotEmptyWaiters, TypeOK
  <2> QED BY <2>1, DueKept
<1>2. ASSUME NEW t \in Threads, Lock(t) PROVE NoLostItemWakeup'
  <2>1. Sets /\ queue' = queue /\ closed' = closed
    BY <1>2 DEF Lock, Goto, members, ActiveConsumers, PendingNotifies, NotEmptyWaiters, TypeOK
  <2> QED BY <2>1, DueKept
<1>3. ASSUME NEW t \in Threads, Check(t) PROVE NoLostItemWakeup'
  <2>1. CASE op[t] = "waitAndPop" /\ ~WaitPredicate(t)
    BY <1>3, <2>1, NothingDue DEF Check, members, WaitPredicate
  <2>2. CASE ~(op[t] = "waitAndPop" /\ ~WaitPredicate(t))
    <3>1. Sets /\ queue' = queue /\ closed' = closed
      BY <1>3, <2>2 DEF Check, Goto, members, ActiveConsumers, PendingNotifies,
                        NotEmptyWaiters, TypeOK
    <3> QED BY <3>1, DueKept
  <2> QED BY <2>1, <2>2
<1>4. ASSUME NEW t \in Threads, Sleep(t) PROVE NoLostItemWakeup'
  <2>1. CASE op[t] = "waitAndPop"
    BY <1>4, <2>1, NothingDue DEF Sleep, members, LockDiscipline, WaitPredicate
  <2>2. CASE op[t] # "waitAndPop"
    <3>1. Sets /\ queue' = queue /\ closed' = closed
      BY <1>4, <2>2 DEF Sleep, Goto, members, ActiveConsumers, PendingNotifies,
                        NotEmptyWaiters, TypeOK
    <3> QED BY <3>1, DueKept
  <2> QED BY <2>1, <2>2
<1>5. ASSUME NEW t \in Threads, SpuriousWakeup(t) PROVE NoLostItemWakeup'
  <2>1. Sets /\ queue' = queue /\ closed' = closed
    BY <1>5 DEF SpuriousWakeup, Goto, members, ActiveConsumers, PendingNotifies,
                NotEmptyWaiters, TypeOK
  <2> QED BY <2>1, DueKept
<1>6. ASSUME NEW t \in Threads, Reject(t) PROVE NoLostItemWakeup'
  <2>1. Sets /\ queue' = queue /\ closed' = closed
    BY <1>6 DEF Reject, Goto, ActiveConsumers, PendingNotifies, NotEmptyWaiters, TypeOK, Pushes
  <2> QED BY <2>1, DueKept
<1>7. ASSUME NEW t \in Threads, Store(t) PROVE NoLostItemWakeup'
  <2>1. /\ A' = A /\ P' = P \cup {t} /\ t \notin P /\ W' = W /\ ~closed'
    BY <1>7 DEF Store, Evict, Goto, AfterStore, MayStore, ActiveConsumers, PendingNotifies,
                NotEmptyWaiters, TypeOK, Pushes
  <2>2. Len(queue') <= Len(queue) + 1 /\ Len(queue) \in Nat /\ Len(queue') \in Nat
    <3>1. item[t] \in Items
      BY <1>7 DEF Store, Evict, CallInv
    <3>2. Kept \in Seq(Items) /\ Len(Kept) \in Nat /\ Len(Kept) <= Len(queue)
          /\ Len(queue) \in Nat
      <4>1. CASE Full
        BY <4>1, QueueAssumption, HeadTailProperties, EmptySeq, LenProperties
           DEF Kept, Full, TypeOK
      <4>2. CASE ~Full
        BY <4>2, LenProperties DEF Kept, TypeOK
      <4> QED BY <4>1, <4>2
    <3>3. queue' = Append(Kept, item[t])
      BY <1>7 DEF Store
    <3>4. Len(Append(Kept, item[t])) = Len(Kept) + 1
      BY ONLY <3>1, <3>2, AppendProperties
    <3> QED BY ONLY <3>2, <3>3, <3>4
  <2>3. Cardinality(P') = Cardinality(P) + 1 /\ Cardinality(P) \in Nat /\ Cardinality(A) \in Nat
    BY <1>0, <2>1, ThreadSets
  <2> QED BY <2>1, <2>2, <2>3 DEF NoLostItemWakeup
<1>16. ASSUME NEW t \in Threads, StoreThrows(t) PROVE NoLostItemWakeup'
  <2>1. /\ A' = A /\ P' = P /\ W' = W /\ ~closed'
    BY <1>16 DEF StoreThrows, Evict, Goto, MayStore, ActiveConsumers, PendingNotifies,
                 NotEmptyWaiters, TypeOK, Pushes
  <2>2. Len(queue') <= Len(queue) /\ Len(queue) \in Nat /\ Len(queue') \in Nat
    <3>1. CASE Full
      BY <1>16, <3>1, QueueAssumption, HeadTailProperties, EmptySeq, LenProperties
         DEF StoreThrows, Kept, Full, TypeOK
    <3>2. CASE ~Full
      BY <1>16, <3>2, LenProperties DEF StoreThrows, Kept, TypeOK
    <3> QED BY <3>1, <3>2
  <2>3. Cardinality(P) \in Nat /\ Cardinality(A) \in Nat
    BY <1>0, ThreadSets
  <2> QED BY <2>1, <2>2, <2>3 DEF NoLostItemWakeup
<1>8. ASSUME NEW t \in Threads, NotifyOne(t) PROVE NoLostItemWakeup'
  <2>1. CASE W = {} /\ Goto(t, "idle")
    BY <1>8, <2>1 DEF NotifyOne, Goto, NotEmptyWaiters, NoLostItemWakeup, TypeOK
  <2>2. ASSUME NEW w \in W, GotoAndWake(t, "idle", {w}) PROVE NoLostItemWakeup'
    <3>1. /\ w \in Threads /\ w \notin A /\ t \in P /\ t # w
          /\ A' = A \cup {w} /\ P' = P \ {t} /\ W' \subseteq W
          /\ queue' = queue /\ closed' = closed
          /\ \A u \in Threads : pc[u] = "notifyEmpty" => pc'[u] = "notifyEmpty"
      BY <1>8, <2>2 DEF NotifyOne, GotoAndWake, ActiveConsumers, PendingNotifies,
                        NotEmptyWaiters, TypeOK, members
    <3>2. /\ Cardinality(A') = Cardinality(A) + 1 /\ Cardinality(A) \in Nat
          /\ Cardinality(P') = Cardinality(P) - 1 /\ Cardinality(P) \in Nat
      BY <1>0, <3>1, ThreadSets
    <3>3. Len(queue) \in Nat
      BY LenProperties DEF TypeOK
    <3> QED BY <3>1, <3>2, <3>3 DEF NoLostItemWakeup
  <2> QED BY <1>8, <2>1, <2>2 DEF NotifyOne
<1>9. ASSUME NEW t \in Threads, PopNothing(t) PROVE NoLostItemWakeup'
  <2>1. W' = W /\ queue' = <<>> /\ closed' = closed
        /\ \A u \in Threads : pc[u] = "notifyEmpty" => pc'[u] = "notifyEmpty"
    BY <1>9 DEF PopNothing, Goto, members, NotEmptyWaiters, TypeOK
  <2>2. CASE W = {}
    BY <2>1, <2>2 DEF NoLostItemWakeup
  <2>3. CASE W # {}
    BY <2>1, <2>3, NothingDue DEF NoLostItemWakeup
  <2> QED BY <2>2, <2>3
<1>10. ASSUME NEW t \in Threads, Pop(t) PROVE NoLostItemWakeup'
  <2>1. /\ A' = A \ {t} /\ P' = P /\ W' = W /\ closed' = closed
        /\ \A u \in Threads : pc[u] = "notifyEmpty" => pc'[u] = "notifyEmpty"
    BY <1>10 DEF Pop, AfterPop, Goto, ActiveConsumers, PendingNotifies, NotEmptyWaiters, TypeOK
  <2>2. Len(queue') = Len(queue) - 1 /\ Len(queue) \in Nat
    BY <1>10, HeadTailProperties, LenProperties DEF Pop, AfterPop, Rest, TypeOK
  <2>3. /\ Cardinality(A') >= Cardinality(A) - 1 /\ Cardinality(A') \in Nat
        /\ Cardinality(A) \in Nat /\ Cardinality(P) \in Nat
    <3>1. CASE t \in A
      BY <1>0, <2>1, <3>1, ThreadSets
    <3>2. CASE t \notin A
      <4>1. A \ {t} = A
        BY <3>2
      <4> QED BY <1>0, <2>1, <4>1, ThreadSets
    <3> QED BY <3>1, <3>2
  <2> QED BY <2>1, <2>2, <2>3 DEF NoLostItemWakeup
<1>11. ASSUME NEW t \in Threads, Close(t) PROVE NoLostItemWakeup'
  <2>1. A' = A /\ P' = P /\ W' = W /\ queue' = queue /\ pc'[t] = "notifyEmpty"
    BY <1>11 DEF Close, Goto, ActiveConsumers, PendingNotifies, NotEmptyWaiters, TypeOK
  <2> QED BY <2>1 DEF NoLostItemWakeup
<1>12. ASSUME NEW t \in Threads, Emptied(t) PROVE NoLostItemWakeup'
  <2>1. Sets /\ queue' = queue /\ closed' = closed
    BY <1>12 DEF Emptied, Goto, members, ActiveConsumers, PendingNotifies,
                 NotEmptyWaiters, TypeOK
  <2> QED BY <2>1, DueKept
<1>13. ASSUME NEW t \in Threads, NotifyEmpty(t) PROVE NoLostItemWakeup'
  <2>1. W' = {}
    BY <1>13 DEF NotifyEmpty, GotoAndWake, NotifyAll, NotEmptyWaiters
  <2> QED BY <2>1 DEF NoLostItemWakeup
<1>14. ASSUME NEW t \in Threads, NotifyFull(t) PROVE NoLostItemWakeup'
  <2>1. Sets /\ queue' = queue /\ closed' = closed
    BY <1>14 DEF NotifyFull, GotoAndWake, NotifyAll, NotFullWaiters, members,
                 ActiveConsumers, PendingNotifies, NotEmptyWaiters, TypeOK
  <2> QED BY <2>1, DueKept
<1>15. CASE UNCHANGED vars
  <2>1. A' = A /\ P' = P /\ W' = W /\ UNCHANGED <<queue, closed, pc>>
    BY <1>15 DEF vars, members, ActiveConsumers, PendingNotifies, NotEmptyWaiters
  <2> QED BY <2>1 DEF NoLostItemWakeup
<1> QED
  BY <1>1, <1>2, <1>3, <1>4, <1>5, <1>6, <1>7, <1>8, <1>9, <1>10, <1>11, <1>12,
     <1>13, <1>14, <1>15, <1>16 DEF Next, Step

\* Lost wakeups on not_empty_: one notify_one() per stored item is enough,
\* because a consumer sleeps only on an empty queue, so from then on every item
\* brings its own wakeup, and a woken consumer leaves only with an item or
\* after finding the queue empty.
THEOREM ItemWakeupHolds == Spec => []NoLostItemWakeup
<1>1. Init => NoLostItemWakeup
  BY DEF Init, NoLostItemWakeup, NotEmptyWaiters
<1> QED BY <1>1, ItemWakeupStep, QueueInvariant, PTL DEF Spec

-----------------------------------------------------------------------------
\* An operation takes effect in its critical section: the body of a critical
\* section is a step of the atomic queue, everything else leaves it alone.
LEMMA RefinementStep ==
    QueueInv /\ [Next]_vars => [Promise!Next]_(Promise!vars)
<1> SUFFICES ASSUME QueueInv, [Next]_vars
             PROVE  Promise!Next \/ UNCHANGED Promise!vars
  OBVIOUS
<1> USE QueueAssumption DEF QueueInv, TypeOK, Promise!vars, members, history
<1>1. ASSUME NEW t \in Threads, NEW o \in Operations, Call(t, o)
      PROVE  Promise!Call(t, o)
  <2>1. t \notin Calling /\ Calling' = Calling \cup {t}
    BY <1>1 DEF Call, Goto, Calling
  <2> QED BY <1>1, <2>1 DEF Call, Promise!Call, Promise!Pushes, Pushes
<1>2. ASSUME NEW t \in Threads,
             Lock(t) \/ Check(t) \/ Sleep(t) \/ SpuriousWakeup(t)
      PROVE  UNCHANGED Promise!vars
  <2>1. Calling' = Calling
    BY <1>2 DEF Lock, Check, Sleep, SpuriousWakeup, Goto, Calling
  <2> QED BY <1>2, <2>1 DEF Lock, Check, Sleep, SpuriousWakeup
<1>3. ASSUME NEW t \in Threads,
             NotifyOne(t) \/ NotifyEmpty(t) \/ NotifyFull(t)
      PROVE  UNCHANGED Promise!vars
  <2>1. Calling' = Calling
    <3>1. CASE NotifyOne(t)
      BY <3>1 DEF NotifyOne, Goto, GotoAndWake, NotEmptyWaiters, Calling
    <3>2. CASE NotifyEmpty(t)
      BY <3>2 DEF NotifyEmpty, NotifyAll, GotoAndWake, NotEmptyWaiters, Calling
    <3>3. CASE NotifyFull(t)
      BY <3>3 DEF NotifyFull, NotifyAll, GotoAndWake, NotFullWaiters, Calling
    <3> QED BY <1>3, <3>1, <3>2, <3>3
  <2> QED BY <1>3, <2>1 DEF NotifyOne, NotifyEmpty, NotifyFull
<1>4. ASSUME NEW t \in Threads, NEW label, pc[t] = "body", Goto(t, label),
             label \in {"idle", "notifyOne", "notifyEmpty", "notifyFull"}
      PROVE  t \in Calling /\ Calling' = Calling \ {t}
  BY <1>4 DEF Goto, Calling
<1>5. ASSUME NEW t \in Threads, Reject(t) PROVE Promise!Push(t)
  <2>1. t \in Calling /\ Calling' = Calling \ {t}
    BY <1>4, <1>5 DEF Reject
  <2>2. op[t] = "push" /\ Policy = "Block" => ~Full \/ closed
    BY <1>5 DEF Reject, LockDiscipline, Waits, WaitPredicate
  <2> QED BY <1>5, <2>1, <2>2 DEF Reject, MayStore, CountRefusal, Promise!Push,
          Promise!Return, Promise!Full, Full, Pushes, Promise!Pushes
<1>6. ASSUME NEW t \in Threads, Store(t) PROVE Promise!Push(t)
  <2>1. t \in Calling /\ Calling' = Calling \ {t}
    BY <1>4, <1>6 DEF Store, Evict, AfterStore
  <2>2. op[t] = "push" /\ Policy = "Block" => ~Full \/ closed
    BY <1>6 DEF Store, Evict, LockDiscipline, Waits, WaitPredicate
  <2> QED BY <1>6, <2>1, <2>2 DEF Store, Evict, MayStore, CountEviction, Kept, Promise!Push,
          Promise!Return, Promise!Full, Full, Pushes, Promise!Pushes
<1>12. ASSUME NEW t \in Threads, StoreThrows(t) PROVE Promise!PushThrows(t)
  <2>1. t \in Calling /\ Calling' = Calling \ {t}
    BY <1>4, <1>12 DEF StoreThrows, Evict
  <2> QED BY <1>12, <2>1 DEF StoreThrows, Evict, MayStore, CountEviction, Kept,
          Promise!PushThrows, Promise!Return, Promise!Full, Full, Pushes, Promise!Pushes
<1>7. ASSUME NEW t \in Threads, PopNothing(t) \/ Pop(t) PROVE Promise!Pop(t)
  <2>1. t \in Calling /\ Calling' = Calling \ {t}
    BY <1>4, <1>7 DEF PopNothing, Pop, AfterPop
  <2>2. op[t] = "waitAndPop" => queue # <<>> \/ closed
    BY <1>7 DEF PopNothing, Pop, AfterPop, LockDiscipline, Waits, WaitPredicate
  <2> QED BY <1>7, <2>1, <2>2 DEF PopNothing, Pop, AfterPop, Rest, Promise!Pop, Promise!Return,
          Pops, Promise!Pops
<1>8. ASSUME NEW t \in Threads, Close(t) PROVE Promise!Close(t)
  <2>1. t \in Calling /\ Calling' = Calling \ {t}
    BY <1>4, <1>8 DEF Close
  <2> QED BY <1>8, <2>1 DEF Close, Promise!Close, Promise!ReturnVoid
<1>9. ASSUME NEW t \in Threads, Emptied(t) PROVE Promise!WaitUntilEmpty(t)
  <2>1. t \in Calling /\ Calling' = Calling \ {t}
    BY <1>4, <1>9 DEF Emptied
  <2>2. queue = <<>>
    BY <1>9 DEF Emptied, LockDiscipline, Waits, WaitPredicate
  <2> QED BY <1>9, <2>1, <2>2 DEF Emptied, Promise!WaitUntilEmpty, Promise!ReturnVoid
<1>10. CASE UNCHANGED vars
  <2>1. Calling' = Calling
    BY <1>10 DEF vars, Calling
  <2> QED BY <1>10, <2>1 DEF vars
<1>11. Operations = Promise!Operations
  BY DEF Operations, Promise!Operations, Pushes, Pops, Promise!Pushes, Promise!Pops
<1> QED
  BY <1>1, <1>2, <1>3, <1>5, <1>6, <1>7, <1>8, <1>9, <1>10, <1>11, <1>12
     DEF Next, Step, Promise!Next, Promise!Perform

\* Every behaviour of the lock-level queue is one of the atomic queue.
THEOREM QueueImplementsPromise == Spec => ImplementsBoundedQueue
<1>1. Init => Promise!Init
  BY DEF Init, Promise!Init, Calling
<1> QED
  BY <1>1, RefinementStep, QueueInvariant, PTL DEF Spec, ImplementsBoundedQueue, Promise!Spec

-----------------------------------------------------------------------------
\* The threads whose push or tryPush has not taken effect yet.
Offering(t) == op[t] \in Pushes /\ pc[t] \in {"lock", "check", "sleep", "blocked", "body"}

\* Items are offered once: no two threads offer the same one, an item still
\* offered was neither stored nor refused, and no item was stored twice.
OfferInv ==
    /\ \A t \in Threads : op[t] \in Pushes => item[t] \in 1..issued
    /\ \A t, u \in Threads : t # u /\ op[t] \in Pushes /\ op[u] \in Pushes => item[t] # item[u]
    /\ \A t \in Threads : Offering(t) => item[t] \notin refused
    /\ refused \subseteq 1..issued

StoreInv ==
    /\ \A i \in 1..Len(stored) : stored[i] \in 1..issued
    /\ \A t \in Threads : Offering(t) => \A i \in 1..Len(stored) : stored[i] # item[t]
    /\ \A i, j \in 1..Len(stored) : i # j => stored[i] # stored[j]
    /\ \A e \in evicted : \E i \in 1..Len(removed) : removed[i] = e

\* The steps inside an operation other than the bodies of push and pop leave
\* the items, the histories and the counter alone, and start no offer.
LEMMA QuietStep ==
    ASSUME QueueInv, NEW t \in Threads,
           \/ Lock(t) \/ Check(t) \/ Sleep(t) \/ SpuriousWakeup(t) \/ NotifyOne(t)
           \/ PopNothing(t) \/ Emptied(t) \/ Close(t) \/ NotifyEmpty(t) \/ NotifyFull(t)
    PROVE  /\ UNCHANGED <<op, item, issued, stored, removed, evicted, refused, droppedCount>>
           /\ \A u \in Threads : Offering(u)' => Offering(u)
<1> USE DEF QueueInv, TypeOK, members, history, Offering, Pushes, Pops
<1>1. CASE Lock(t) \/ Check(t) \/ Sleep(t) \/ SpuriousWakeup(t)
  BY <1>1 DEF Lock, Check, Sleep, SpuriousWakeup, Goto
<1>2. CASE PopNothing(t) \/ Emptied(t) \/ Close(t)
  BY <1>2 DEF PopNothing, Emptied, Close, Goto
<1>3. CASE NotifyOne(t) \/ NotifyEmpty(t) \/ NotifyFull(t)
  BY <1>3 DEF NotifyOne, NotifyEmpty, NotifyFull, NotifyAll, Goto, GotoAndWake,
              NotEmptyWaiters, NotFullWaiters
<1> QED BY <1>1, <1>2, <1>3

\* A body that stores, refuses or throws ends the offer of its thread.
LEMMA OfferEnds ==
    ASSUME QueueInv, NEW t \in Threads, Reject(t) \/ Store(t) \/ StoreThrows(t)
    PROVE  /\ Offering(t) /\ ~Offering(t)' /\ UNCHANGED <<op, item, issued>>
           /\ \A u \in Threads : Offering(u)' => Offering(u)
<1> USE DEF QueueInv, TypeOK, Offering, Goto
<1>1. CASE Reject(t)
  BY <1>1 DEF Reject
<1>2. CASE Store(t)
  BY <1>2 DEF Store, Evict, AfterStore
<1>3. CASE StoreThrows(t)
  BY <1>3 DEF StoreThrows, Evict
<1> QED BY <1>1, <1>2, <1>3

\* Every step preserves OfferInv.
LEMMA OfferStep == QueueInv /\ OfferInv /\ [Next]_vars => OfferInv'
<1> SUFFICES ASSUME QueueInv, OfferInv, [Next]_vars PROVE OfferInv'
  OBVIOUS
<1> USE DEF OfferInv
<1>1. ASSUME NEW t \in Threads, NEW o \in Operations, Call(t, o) PROVE OfferInv'
  <2>1. /\ issued \in Nat /\ issued' \in Nat /\ issued' >= issued
        /\ \A u \in Threads : u # t => op'[u] = op[u] /\ item'[u] = item[u] /\ pc'[u] = pc[u]
        /\ op'[t] = o /\ refused' = refused
        /\ o \in Pushes => issued' = issued + 1 /\ item'[t] = issued + 1
    BY <1>1, QueueAssumption DEF Call, Goto, QueueInv, TypeOK, history
  <2>2. ASSUME NEW u \in Threads, op'[u] \in Pushes PROVE item'[u] \in 1..issued'
    <3>1. CASE u = t
      BY <2>1, <2>2, <3>1
    <3>2. CASE u # t
      <4>1. item[u] \in 1..issued /\ item'[u] = item[u]
        BY <2>1, <2>2, <3>2
      <4> QED BY <2>1, <4>1
    <3> QED BY <3>1, <3>2
  <2>3. ASSUME NEW u \in Threads, NEW v \in Threads, u # v, op'[u] \in Pushes, op'[v] \in Pushes
        PROVE  item'[u] # item'[v]
    <3>1. \A x \in Threads \ {t} : op'[x] \in Pushes => item'[x] = item[x] /\ item[x] <= issued
      BY <2>1
    <3>2. CASE u # t /\ v # t
      BY <2>1, <2>3, <3>2
    <3>3. CASE u = t \/ v = t
      BY <2>1, <2>3, <3>1, <3>3
    <3> QED BY <3>2, <3>3
  <2>4. refused' \subseteq 1..issued'
    BY <2>1
  <2>5. ASSUME NEW u \in Threads, Offering(u)' PROVE item'[u] \notin refused'
    <3>1. CASE u = t
      <4>1. item'[t] = issued + 1
        BY <2>1, <2>5, <3>1 DEF Offering
      <4> QED BY <2>1, <3>1, <4>1
    <3>2. CASE u # t
      BY <2>1, <2>5, <3>2 DEF Offering
    <3> QED BY <3>1, <3>2
  <2> QED BY <2>2, <2>3, <2>4, <2>5
<1>2. ASSUME NEW t \in Threads, Reject(t) PROVE OfferInv'
  <2>1. refused' \subseteq refused \cup {item[t]}
    BY <1>2 DEF Reject
  <2> QED BY <1>2, <2>1, OfferEnds DEF Offering
<1>3. ASSUME NEW t \in Threads, Store(t) \/ StoreThrows(t) PROVE OfferInv'
  <2>1. refused' = refused
    BY <1>3 DEF Store, StoreThrows
  <2> QED BY <1>3, <2>1, OfferEnds DEF Offering
<1>4. ASSUME NEW t \in Threads, Pop(t) PROVE OfferInv'
  <2>1. /\ UNCHANGED <<op, issued, refused>> /\ op[t] \notin Pushes
        /\ \A u \in Threads : u # t => item'[u] = item[u] /\ pc'[u] = pc[u]
    BY <1>4 DEF Pop, Goto, QueueInv, TypeOK, Pushes, Pops
  <2> QED BY <2>1 DEF Offering
<1>5. ASSUME NEW t \in Threads,
             \/ Lock(t) \/ Check(t) \/ Sleep(t) \/ SpuriousWakeup(t) \/ NotifyOne(t)
             \/ PopNothing(t) \/ Emptied(t) \/ Close(t) \/ NotifyEmpty(t) \/ NotifyFull(t)
      PROVE  OfferInv'
  <2>1. /\ UNCHANGED <<op, item, issued, refused>>
        /\ \A u \in Threads : Offering(u)' => Offering(u)
    BY <1>5, QuietStep
  <2> QED BY <2>1
<1>6. CASE UNCHANGED vars
  BY <1>6 DEF vars, history, Offering
<1> QED BY <1>1, <1>2, <1>3, <1>4, <1>5, <1>6 DEF Next, Step

\* OfferInv holds throughout.
LEMMA OfferInvariant == Spec => []OfferInv
<1>1. Init => OfferInv
  BY DEF Init, OfferInv, Offering, Pushes
<1> QED BY <1>1, OfferStep, QueueInvariant, PTL DEF Spec

-----------------------------------------------------------------------------
\* A blocking push() never loses its item for lack of space: its wait has ended
\* with a free slot or a closed queue, and the lock it holds keeps that so.
THEOREM BlockingPushHolds == Spec => []BlockingPushNeverDrops
<1>1. Init => BlockingPushNeverDrops
  BY DEF Init, BlockingPushNeverDrops
<1>2. QueueInv /\ OfferInv /\ BlockingPushNeverDrops /\ [Next]_vars => BlockingPushNeverDrops'
  <2> SUFFICES ASSUME QueueInv, OfferInv, BlockingPushNeverDrops, [Next]_vars, Policy = "Block"
               PROVE  BlockingPushNeverDrops'
    BY DEF BlockingPushNeverDrops
  <2> USE DEF BlockingPushNeverDrops
  <2>1. ASSUME NEW t \in Threads, NEW o \in Operations, Call(t, o)
        PROVE  BlockingPushNeverDrops'
    <3>1. /\ evicted' = evicted /\ refused' = refused /\ op'[t] = o
          /\ \A u \in Threads : u # t => op'[u] = op[u] /\ item'[u] = item[u]
          /\ o = "push" => item'[t] = issued + 1
      BY <2>1 DEF Call, QueueInv, TypeOK, history, Pushes
    <3>2. issued + 1 \notin refused
      BY QueueAssumption DEF OfferInv, QueueInv, TypeOK
    <3> QED BY <3>1, <3>2
  <2>2. ASSUME NEW t \in Threads, Reject(t) PROVE BlockingPushNeverDrops'
    <3>1. UNCHANGED <<op, item, evicted>> /\ refused' \subseteq refused \cup {item[t]}
      BY <2>2 DEF Reject
    <3>2. op[t] = "push" => refused' = refused
      BY <2>2 DEF Reject, MayStore, QueueInv, LockDiscipline, Waits, WaitPredicate
    <3>3. op[t] # "push" => \A u \in Threads : op[u] = "push" => item[u] # item[t]
      BY <2>2 DEF Reject, OfferInv, Pushes
    <3> QED BY <3>1, <3>2, <3>3
  <2>3. ASSUME NEW t \in Threads, Store(t) \/ StoreThrows(t) PROVE BlockingPushNeverDrops'
    <3>1. UNCHANGED <<op, item, refused>> /\ Evict(t)
      BY <2>3 DEF Store, StoreThrows
    <3>2. evicted' = evicted
      BY <3>1 DEF Evict, MayStore
    <3> QED BY <3>1, <3>2
  <2>4. ASSUME NEW t \in Threads, Pop(t) PROVE BlockingPushNeverDrops'
    <3>1. /\ UNCHANGED <<op, evicted, refused>> /\ op[t] # "push"
          /\ \A u \in Threads : u # t => item'[u] = item[u]
      BY <2>4 DEF Pop, QueueInv, TypeOK, Pops
    <3> QED BY <3>1
  <2>5. ASSUME NEW t \in Threads,
               \/ Lock(t) \/ Check(t) \/ Sleep(t) \/ SpuriousWakeup(t) \/ NotifyOne(t)
               \/ PopNothing(t) \/ Emptied(t) \/ Close(t) \/ NotifyEmpty(t) \/ NotifyFull(t)
        PROVE  BlockingPushNeverDrops'
    <3>1. UNCHANGED <<op, item, evicted, refused>>
      BY <2>5, QuietStep
    <3> QED BY <3>1
  <2>6. CASE UNCHANGED vars
    BY <2>6 DEF vars, history
  <2> QED BY <2>1, <2>2, <2>3, <2>4, <2>5, <2>6 DEF Next, Step
<1> QED BY <1>1, <1>2, QueueInvariant, OfferInvariant, PTL DEF Spec

-----------------------------------------------------------------------------
\* What left the queue and what is at its front, by position in stored.
LEMMA Positions ==
    ASSUME QueueInv
    PROVE  /\ Len(removed) \in Nat /\ Len(stored) \in Nat
           /\ \A i \in 1..Len(removed) : i \in 1..Len(stored) /\ removed[i] = stored[i]
           /\ queue # <<>> => /\ Len(removed) + 1 \in 1..Len(stored)
                             /\ Head(queue) = stored[Len(removed) + 1]
<1>1. stored = removed \o queue /\ removed \in Seq(Items) /\ queue \in Seq(Items)
  BY DEF QueueInv, TypeOK, FifoConservation
<1> QED BY ONLY <1>1, SMT

\* An item about to be evicted was not evicted before.
LEMMA HeadNotEvicted ==
    ASSUME QueueInv, StoreInv, queue # <<>>
    PROVE  Head(queue) \notin evicted
<1> SUFFICES ASSUME Head(queue) \in evicted PROVE FALSE
  OBVIOUS
<1>1. PICK i \in 1..Len(removed) : removed[i] = Head(queue)
  BY DEF StoreInv
<1>2. i # Len(removed) + 1
  BY <1>1, Positions
<1> QED BY <1>1, <1>2, Positions DEF StoreInv

\* Appending keeps what a sequence holds and adds the new element.
LEMMA AppendHas ==
    ASSUME NEW S, NEW s \in Seq(S), NEW x \in S
    PROVE  /\ Len(Append(s, x)) = Len(s) + 1 /\ Len(s) \in Nat
           /\ \A i \in 1..Len(s) : Append(s, x)[i] = s[i]
           /\ Append(s, x)[Len(s) + 1] = x
OBVIOUS

\* Every step preserves StoreInv.
LEMMA StoreStep == QueueInv /\ OfferInv /\ StoreInv /\ [Next]_vars => StoreInv'
<1> SUFFICES ASSUME QueueInv, OfferInv, StoreInv, [Next]_vars PROVE StoreInv'
  OBVIOUS
<1>t. /\ stored \in Seq(Items) /\ removed \in Seq(Items) /\ issued \in Nat
      /\ queue # <<>> => Head(queue) \in Items
  BY QueueAssumption DEF QueueInv, TypeOK
<1>1. ASSUME NEW t \in Threads, NEW o \in Operations, Call(t, o) PROVE StoreInv'
  <2>1. /\ issued' \in Nat /\ issued' >= issued
        /\ \A u \in Threads : u # t => op'[u] = op[u] /\ item'[u] = item[u] /\ pc'[u] = pc[u]
        /\ op'[t] = o /\ UNCHANGED <<stored, removed, evicted>>
        /\ o \in Pushes => item'[t] = issued + 1
    BY <1>1, QueueAssumption DEF Call, Goto, QueueInv, TypeOK, history
  <2>2. \A i \in 1..Len(stored) : stored[i] \in 1..issued
    BY DEF StoreInv
  <2>3. \A i \in 1..Len(stored') : stored'[i] \in 1..issued'
    BY <2>1, <2>2, <1>t
  <2>4. ASSUME NEW u \in Threads, Offering(u)', NEW i \in 1..Len(stored') PROVE stored'[i] # item'[u]
    <3>1. CASE u = t
      <4>1. item'[t] = issued + 1
        BY <2>1, <2>4, <3>1 DEF Offering
      <4> QED BY <2>1, <2>2, <2>4, <3>1, <4>1, <1>t
    <3>2. CASE u # t
      BY <2>1, <2>4, <3>2 DEF Offering, StoreInv
    <3> QED BY <3>1, <3>2
  <2> QED BY <2>1, <2>3, <2>4 DEF StoreInv
<1>2. ASSUME NEW t \in Threads, Reject(t) PROVE StoreInv'
  <2>1. UNCHANGED <<stored, removed, evicted>>
    BY <1>2 DEF Reject
  <2> QED BY <1>2, <2>1, OfferEnds DEF StoreInv
<1>3. ASSUME NEW t \in Threads, Evict(t)
      PROVE  \A e \in evicted' : \E i \in 1..Len(removed') : removed'[i] = e
  <2>1. CASE Full
    <3>1. queue # <<>>
      BY <2>1, QueueAssumption DEF Full
    <3>2. removed' = Append(removed, Head(queue)) /\ evicted' = evicted \cup {Head(queue)}
      BY <1>3, <2>1 DEF Evict
    <3>3. /\ Len(removed') = Len(removed) + 1 /\ Len(removed) \in Nat
          /\ \A i \in 1..Len(removed) : removed'[i] = removed[i]
          /\ removed'[Len(removed) + 1] = Head(queue)
      BY <3>1, <3>2, <1>t, AppendHas
    <3>4. \A e \in evicted : \E i \in 1..Len(removed) : removed[i] = e
      BY DEF StoreInv
    <3> QED BY ONLY <3>2, <3>3, <3>4
  <2>2. CASE ~Full
    BY <1>3, <2>2 DEF Evict, StoreInv
  <2> QED BY <2>1, <2>2
<1>4. ASSUME NEW t \in Threads, Store(t) PROVE StoreInv'
  <2>1. Evict(t) /\ stored' = Append(stored, item[t])
    BY <1>4 DEF Store
  <2>2. /\ Offering(t) /\ ~Offering(t)' /\ UNCHANGED <<op, item, issued>>
        /\ \A u \in Threads : Offering(u)' => Offering(u)
    BY <1>4, OfferEnds
  <2>3. item[t] \in Items /\ item[t] \in 1..issued
    BY <2>2 DEF Offering, QueueInv, CallInv, OfferInv
  <2>4. /\ Len(stored') = Len(stored) + 1 /\ Len(stored) \in Nat
        /\ \A i \in 1..Len(stored) : stored'[i] = stored[i]
        /\ stored'[Len(stored) + 1] = item[t]
    BY <2>1, <2>3, <1>t, AppendHas
  <2>5. \A i \in 1..Len(stored') : i \in 1..Len(stored) \/ i = Len(stored) + 1
    BY <2>4
  <2>6. \A i \in 1..Len(stored') : stored'[i] \in 1..issued'
    BY <2>2, <2>3, <2>4, <2>5 DEF StoreInv
  <2>7. \A u \in Threads : Offering(u)' => \A i \in 1..Len(stored') : stored'[i] # item'[u]
    BY <2>2, <2>4, <2>5 DEF StoreInv, OfferInv, Offering
  <2>8. \A i, j \in 1..Len(stored') : i # j => stored'[i] # stored'[j]
    BY <2>2, <2>4, <2>5 DEF StoreInv
  <2> QED BY <2>1, <1>3, <2>6, <2>7, <2>8 DEF StoreInv
<1>5. ASSUME NEW t \in Threads, StoreThrows(t) PROVE StoreInv'
  <2>1. Evict(t) /\ stored' = stored
    BY <1>5 DEF StoreThrows
  <2> QED BY <1>3, <1>5, <2>1, OfferEnds DEF StoreInv
<1>6. ASSUME NEW t \in Threads, Pop(t) PROVE StoreInv'
  <2>1. /\ UNCHANGED <<op, issued, stored, evicted>> /\ op[t] \notin Pushes
        /\ \A u \in Threads : u # t => item'[u] = item[u] /\ pc'[u] = pc[u]
        /\ queue # <<>> /\ removed' = Append(removed, Head(queue))
    BY <1>6 DEF Pop, Goto, QueueInv, TypeOK, Pushes, Pops
  <2>2. /\ Len(removed') = Len(removed) + 1 /\ Len(removed) \in Nat
        /\ \A i \in 1..Len(removed) : removed'[i] = removed[i]
    BY <2>1, <1>t, AppendHas
  <2>3. \A i \in 1..Len(removed) : i \in 1..Len(removed')
    BY <2>2
  <2> QED BY <2>1, <2>2, <2>3 DEF StoreInv, Offering
<1>7. ASSUME NEW t \in Threads,
             \/ Lock(t) \/ Check(t) \/ Sleep(t) \/ SpuriousWakeup(t) \/ NotifyOne(t)
             \/ PopNothing(t) \/ Emptied(t) \/ Close(t) \/ NotifyEmpty(t) \/ NotifyFull(t)
      PROVE  StoreInv'
  <2>1. /\ UNCHANGED <<op, item, issued, stored, removed, evicted>>
        /\ \A u \in Threads : Offering(u)' => Offering(u)
    BY <1>7, QuietStep
  <2> QED BY <2>1 DEF StoreInv
<1>8. CASE UNCHANGED vars
  BY <1>8 DEF vars, history, Offering, StoreInv
<1> QED BY <1>1, <1>2, <1>4, <1>5, <1>6, <1>7, <1>8 DEF Next, Step

\* StoreInv holds throughout.
LEMMA StoreInvariant == Spec => []StoreInv
<1>1. Init => StoreInv
  BY DEF Init, StoreInv, Offering
<1> QED BY <1>1, StoreStep, QueueInvariant, OfferInvariant, PTL DEF Spec

-----------------------------------------------------------------------------
\* droppedCount_ is the number of items evicted or refused: each counted drop
\* discards an item that was not discarded before, and every other step leaves
\* the counter and both sets alone, a throwing store included.
THEOREM DropsCountedHolds == Spec => []DropsCounted
<1>1. Init => DropsCounted
  BY FS_EmptySet DEF Init, DropsCounted
<1>2. QueueInv /\ OfferInv /\ StoreInv /\ DropsCounted /\ [Next]_vars => DropsCounted'
  <2> SUFFICES ASSUME QueueInv, OfferInv, StoreInv, DropsCounted, [Next]_vars
               PROVE  DropsCounted'
    OBVIOUS
  <2>f. /\ IsFiniteSet(evicted) /\ IsFiniteSet(refused)
        /\ Cardinality(evicted) \in Nat /\ Cardinality(refused) \in Nat
    <3>1. IsFiniteSet(Items)
      BY FS_Interval, QueueAssumption DEF Items
    <3>2. IsFiniteSet(evicted) /\ IsFiniteSet(refused)
      BY <3>1, FS_Subset DEF QueueInv, TypeOK
    <3> QED BY <3>2, FS_CardinalityType
  <2>1. ASSUME NEW t \in Threads, Reject(t) PROVE DropsCounted'
    <3>1. evicted' = evicted
      BY <2>1 DEF Reject
    <3>2. CASE closed
      BY <2>1, <3>1, <3>2 DEF Reject, CountRefusal, DropsCounted
    <3>3. CASE ~closed
      <4>1. droppedCount' = droppedCount + 1 /\ refused' = refused \cup {item[t]}
        BY <2>1, <3>3 DEF Reject, CountRefusal
      <4>2. item[t] \notin refused
        BY <2>1, OfferEnds DEF OfferInv
      <4>3. Cardinality(refused \cup {item[t]}) = Cardinality(refused) + 1
        BY <4>2, <2>f, FS_AddElement
      <4> QED BY <3>1, <4>1, <4>3, <2>f DEF DropsCounted
    <3> QED BY <3>2, <3>3
  <2>2. ASSUME NEW t \in Threads, Store(t) \/ StoreThrows(t) PROVE DropsCounted'
    <3>1. Evict(t) /\ refused' = refused
      BY <2>2 DEF Store, StoreThrows
    <3>2. CASE ~Full
      BY <3>1, <3>2 DEF Evict, CountEviction, DropsCounted
    <3>3. CASE Full
      <4>1. droppedCount' = droppedCount + 1 /\ evicted' = evicted \cup {Head(queue)}
        BY <3>1, <3>3 DEF Evict, CountEviction
      <4>2. queue # <<>>
        BY <3>3, QueueAssumption DEF Full
      <4>3. Cardinality(evicted \cup {Head(queue)}) = Cardinality(evicted) + 1
        BY <4>2, <2>f, HeadNotEvicted, FS_AddElement
      <4> QED BY <3>1, <4>1, <4>3, <2>f DEF DropsCounted
    <3> QED BY <3>2, <3>3
  <2>3. ASSUME NEW t \in Threads, Pop(t) PROVE DropsCounted'
    BY <2>3 DEF Pop, DropsCounted
  <2>4. ASSUME NEW t \in Threads, NEW o \in Operations, Call(t, o) PROVE DropsCounted'
    BY <2>4 DEF Call, members, history, DropsCounted
  <2>5. ASSUME NEW t \in Threads,
               \/ Lock(t) \/ Check(t) \/ Sleep(t) \/ SpuriousWakeup(t) \/ NotifyOne(t)
               \/ PopNothing(t) \/ Emptied(t) \/ Close(t) \/ NotifyEmpty(t) \/ NotifyFull(t)
        PROVE  DropsCounted'
    <3>1. UNCHANGED <<evicted, refused, droppedCount>>
      BY <2>5, QuietStep
    <3> QED BY <3>1 DEF DropsCounted
  <2>6. CASE UNCHANGED vars
    BY <2>6 DEF vars, members, history, DropsCounted
  <2> QED BY <2>1, <2>2, <2>3, <2>4, <2>5, <2>6 DEF Next, Step
<1> QED BY <1>1, <1>2, QueueInvariant, OfferInvariant, StoreInvariant, PTL DEF Spec
=============================================================================
