--------------------------- MODULE RealtimeProofs ---------------------------
(***************************************************************************)
(* The realtime configuration and the inheritance of priorities, for any   *)
(* threads, priorities and number of processors, and the pages that the    *)
(* prefault reaches, for any size of a page and of the blocks.             *)
(***************************************************************************)
EXTENDS RealtimeScheduling, NumberTheorems

\* How far the constructor is says which of its calls failed and what it made.
ConstructionInv ==
    /\ construction \in {"attrInit", "setProtocol", "mutexInit"} => failed = {} /\ ~exists
    /\ construction \in {"mutexInit", "attrDestroy"} => protocol = "inherit"
    /\ construction = "attrDestroy" => failed \subseteq {"mutexInit"} /\ (exists <=> failed = {})
    /\ ConstructorLeavesNothing

\* Memory is locked after the construction, and threads start after that.
StartInv ==
    /\ memory.done => construction = "built"
    /\ \A t \in Threads : pc[t] # "entry" => memory.done
    /\ \A t \in Threads : pc[t] = "entry" => scheduling[t] = 0 /\ t \notin warned
    /\ WarningsAreTruthful

\* The inductive invariant.
RealtimeInv == TypeOK /\ ConstructionInv /\ StartInv

\* It holds initially.
LEMMA RealtimeInvInit == Init => RealtimeInv
<1> SUFFICES ASSUME Init PROVE RealtimeInv
  OBVIOUS
<1> USE DEF Init, RealtimeInit, PiMutexInit
<1>1. memory.done = FALSE /\ memory.locked = FALSE
  OBVIOUS
<1>2. TypeOK
  <2>1. waiting = {t \in Threads : pc[t] = "wait"}
    OBVIOUS
  <2>2. \A t \in Threads : pc[t] = "hold" <=> owner = t
    BY PiMutexAssumption
  <2>3. /\ pc \in [Threads -> {"entry", "work", "asleep", "wait", "hold", "ended"}]
        /\ scheduling \in [Threads -> 0..99]
    OBVIOUS
  <2>4. memory.done \in BOOLEAN /\ memory.locked \in BOOLEAN
    BY ONLY <1>1
  <2> QED BY <2>1, <2>2, <2>3, <2>4 DEF TypeOK
<1>3. ConstructionInv
  BY DEF ConstructionInv, ConstructorLeavesNothing
<1>4. StartInv
  BY <1>1 DEF StartInv, WarningsAreTruthful
<1> QED BY <1>2, <1>3, <1>4 DEF RealtimeInv

\* Every call of the constructor preserves it.
LEMMA ConstructKeeps == ASSUME RealtimeInv, ConstructMutex PROVE RealtimeInv'
<1>1. /\ UNCHANGED <<config, memory, scheduling, warned, pc, owner, waiting>>
      /\ construction # "built"
  BY DEF ConstructMutex, Construct, AttrInit, SetProtocol, MutexInit, AttrDestroy, lockVars
<1>2. StartInv'
  BY <1>1 DEF RealtimeInv, StartInv, WarningsAreTruthful
<1>3. TypeOK' /\ ConstructionInv'
  <2> USE DEF RealtimeInv, TypeOK, ConstructionInv, ConstructorLeavesNothing, Returns
  <2>1. CASE AttrInit
    BY <1>1, <2>1 DEF AttrInit
  <2>2. CASE SetProtocol
    BY <1>1, <2>2 DEF SetProtocol, ProtocolSet
  <2>3. CASE MutexInit
    BY <1>1, <2>3 DEF MutexInit
  <2>4. CASE AttrDestroy
    BY <1>1, <2>4 DEF AttrDestroy, KeepsMutex
  <2> QED BY <2>1, <2>2, <2>3, <2>4 DEF ConstructMutex, Construct
<1> QED BY <1>2, <1>3 DEF RealtimeInv

\* The process-wide stage preserves it.
LEMMA LockMemoryKeeps == ASSUME RealtimeInv, LockMemory PROVE RealtimeInv'
<1>1. /\ UNCHANGED <<config, scheduling, constructorVars, lockVars, pc>>
      /\ construction = "built" /\ ~memory.done
  BY DEF LockMemory, LockProcessMemory, EndMemoryStage
<1>2. /\ memory'.done = TRUE /\ memory'.locked \in BOOLEAN
      /\ warned' = IF config.lockMemory /\ ~memory'.locked THEN warned \cup {"process"} ELSE warned
  <2> USE DEF EndMemoryStage, Report, Ok, Applied, Skipped, Failure
  <2>1. CASE ~config.lockMemory /\ EndMemoryStage(Skipped, {}, {})
    BY <2>1
  <2>2. CASE config.lockMemory /\ EndMemoryStage(Failure("mlockall"), {}, {})
    BY <2>2
  <2>3. ASSUME NEW S, NEW H, config.lockMemory, EndMemoryStage(Applied, S, H)
        PROVE  /\ memory'.done = TRUE /\ memory'.locked = TRUE
               /\ warned' = warned
    BY <2>3
  <2> QED BY <2>1, <2>2, <2>3 DEF LockMemory, LockProcessMemory
<1>3. TypeOK'
  BY <1>1, <1>2 DEF RealtimeInv, TypeOK, constructorVars, lockVars
<1>4. ConstructionInv'
  BY <1>1 DEF RealtimeInv, ConstructionInv, ConstructorLeavesNothing, constructorVars
<1>5. StartInv'
  BY <1>1, <1>2, RealtimeAssumption
     DEF RealtimeInv, StartInv, WarningsAreTruthful, constructorVars
<1> QED BY <1>3, <1>4, <1>5 DEF RealtimeInv

\* A thread's own configuration preserves it.
LEMMA EnterKeeps == ASSUME RealtimeInv, NEW t \in Threads, Enter(t) PROVE RealtimeInv'
<1>1. /\ UNCHANGED <<config, memory, constructorVars, lockVars>>
      /\ pc[t] = "entry" /\ memory.done /\ pc' = [pc EXCEPT ![t] = "work"]
  BY DEF Enter, ConfigureCurrentThread, Goto
<1>2. /\ scheduling' \in [Threads -> 0..99]
      /\ \A u \in Threads : u # t => scheduling'[u] = scheduling[u]
      /\ warned' \in {warned, warned \cup {t}}
      /\ t \notin Pinned => (t \in warned' <=> config.enabled /\ scheduling'[t] = 0)
  <2>1. /\ scheduling \in [Threads -> 0..99] /\ scheduling[t] = 0 /\ t \notin warned
        /\ Priority[t] \in 0..99 /\ Priority[t] # 0
    <3>1. Priority[t] \in 1..99
      BY RealtimeAssumption
    <3>2. scheduling \in [Threads -> 0..99] /\ scheduling[t] = 0 /\ t \notin warned
      BY <1>1 DEF RealtimeInv, TypeOK, StartInv
    <3> QED BY <3>1, <3>2
  <2> USE <2>1 DEF Report, Ok, Applied, Skipped, Failure
  <2>2. CASE ~config.enabled /\ Report(t, Skipped) /\ UNCHANGED scheduling
    BY <2>2
  <2>3. CASE config.enabled /\ Report(t, Failure("pthread_setschedparam")) /\ UNCHANGED scheduling
    BY <2>3
  <2>4. CASE /\ config.enabled /\ scheduling' = [scheduling EXCEPT ![t] = Priority[t]]
             /\ \/ Report(t, Applied)
                \/ t \in Pinned /\ Report(t, Failure("pthread_setaffinity_np"))
    BY <2>4
  <2> QED BY <2>2, <2>3, <2>4 DEF Enter, ConfigureCurrentThread
<1>3. TypeOK'
  <2>1. /\ waiting' = {u \in Threads : pc'[u] = "wait"}
        /\ \A u \in Threads : pc'[u] = "hold" <=> owner' = u
        /\ pc' \in [Threads -> {"entry", "work", "asleep", "wait", "hold", "ended"}]
    BY <1>1 DEF RealtimeInv, TypeOK, lockVars
  <2>2. memory'.done \in BOOLEAN /\ memory'.locked \in BOOLEAN
    BY <1>1 DEF RealtimeInv, TypeOK
  <2>3. warned' \subseteq Threads \cup {"process"}
    BY <1>2 DEF RealtimeInv, TypeOK
  <2> QED BY <1>1, <1>2, <2>1, <2>2, <2>3 DEF RealtimeInv, TypeOK, constructorVars, lockVars
<1>4. ConstructionInv'
  BY <1>1 DEF RealtimeInv, ConstructionInv, ConstructorLeavesNothing, constructorVars
<1>5. StartInv'
  BY <1>1, <1>2, RealtimeAssumption
     DEF RealtimeInv, TypeOK, StartInv, WarningsAreTruthful, constructorVars
<1> QED BY <1>3, <1>4, <1>5 DEF RealtimeInv

\* So do the steps of threads already configured, which use the mutex or sleep.
LEMMA ConfiguredKeeps ==
    ASSUME RealtimeInv, NEW t \in Threads,
           Sleep(t) \/ Wake(t) \/ Acquire(t) \/ Release(t)
    PROVE  RealtimeInv'
<1>1. UNCHANGED <<config, memory, scheduling, warned, constructorVars>>
  BY DEF Sleep, Wake, Acquire, Release, Lock, TryLock, LockThrows, Unlock
<1>2. TypeOK'
  <2> USE <1>1 DEF RealtimeInv, TypeOK, constructorVars, lockVars
  <2>1. CASE Sleep(t) \/ Wake(t)
    BY <2>1 DEF Sleep, Wake, Goto
  <2>2. CASE Acquire(t)
    BY <2>2, PiMutexAssumption DEF Acquire, Lock, TryLock, LockThrows, Goto
  <2>3. CASE Release(t)
    BY <2>3, PiMutexAssumption DEF Release, Unlock, MostUrgent
  <2> QED BY <2>1, <2>2, <2>3
<1>3. \A u \in Threads : pc'[u] = "entry" <=> pc[u] = "entry"
  <2>1. CASE Sleep(t) \/ Wake(t) \/ Acquire(t)
    BY <2>1 DEF Sleep, Wake, Acquire, Goto, RealtimeInv, TypeOK
  <2>2. CASE Release(t)
    <3>1. owner' \in waiting \cup {NoThread}
      BY <2>2 DEF Release, Unlock, MostUrgent
    <3>2. \A u \in waiting : pc[u] = "wait"
      BY DEF RealtimeInv, TypeOK
    <3> QED BY <2>2, <3>1, <3>2, PiMutexAssumption DEF Release
  <2> QED BY <2>1, <2>2
<1>4. ConstructionInv' /\ StartInv'
  BY <1>1, <1>3 DEF RealtimeInv, ConstructionInv, ConstructorLeavesNothing, StartInv,
                    WarningsAreTruthful, constructorVars
<1> QED BY <1>2, <1>4 DEF RealtimeInv

\* The invariant holds throughout: the constructor, the process-wide stage and the
\* threads' entries happen in this order, and the labels agree with the mutex.
THEOREM RealtimeInvariant == Spec => []RealtimeInv
<1>1. RealtimeInv /\ [Next]_vars => RealtimeInv'
  <2> SUFFICES ASSUME RealtimeInv, [Next]_vars PROVE RealtimeInv'
    OBVIOUS
  <2>1. CASE UNCHANGED vars
    BY <2>1 DEF vars, constructorVars, lockVars, RealtimeInv, TypeOK, ConstructionInv,
                ConstructorLeavesNothing, StartInv, WarningsAreTruthful
  <2> QED BY <2>1, ConstructKeeps, LockMemoryKeeps, EnterKeeps, ConfiguredKeeps DEF Next, Step
<1> QED BY <1>1, RealtimeInvInit, PTL DEF Spec

\* The types of the state, and the agreement of the labels with the mutex.
THEOREM RealtimeTypes == Spec => []TypeOK
BY RealtimeInvariant, PTL DEF RealtimeInv

\* PiMutex's constructor builds an inheriting mutex or leaves nothing.
THEOREM ConstructorHolds == Spec => []ConstructorLeavesNothing
<1>1. RealtimeInv => ConstructorLeavesNothing
  BY DEF RealtimeInv, ConstructionInv
<1> QED BY <1>1, RealtimeInvariant, PTL

\* The warnings of both stages report exactly the settings that did not take.
THEOREM WarningsHold == Spec => []WarningsAreTruthful
<1>1. RealtimeInv => WarningsAreTruthful
  BY DEF RealtimeInv, StartInv
<1> QED BY <1>1, RealtimeInvariant, PTL

\* While a thread waits for the mutex, whoever is ahead of the owner is also
\* ahead of every thread less urgent than the waiter.
LEMMA OwnerAhead ==
    ASSUME RealtimeInv, NEW h \in waiting, NEW t \in Threads,
           t # owner, scheduling[t] < scheduling[h]
    PROVE  owner \in Threads /\ Runnable(owner) /\ Ahead(owner) \subseteq Ahead(t)
<1>1. /\ owner \in Threads /\ pc[owner] = "hold" /\ h \in Threads /\ pc[h] = "wait"
      /\ scheduling \in [Threads -> 0..99]
  BY DEF RealtimeInv, TypeOK
<1>2. protocol = "inherit"
  BY <1>1 DEF RealtimeInv, StartInv, ConstructionInv, ConstructorLeavesNothing
<1>3. scheduling[h] \in Priorities(owner) /\ Priorities(t) = {scheduling[t]}
  BY <1>2 DEF Priorities
<1>4. \A u \in Threads : Priorities(u) \subseteq 0..99
  BY <1>1 DEF Priorities, RealtimeInv, TypeOK
<1>5. ASSUME NEW u \in Threads, Above(u, owner) PROVE Above(u, t)
  <2>1. PICK p \in Priorities(u) : \A q \in Priorities(owner) : p > q
    BY <1>5 DEF Above
  <2>2. p \in 0..99 /\ scheduling[h] \in 0..99 /\ scheduling[t] \in 0..99
    BY <1>1, <1>4, <2>1
  <2>3. p > scheduling[h]
    BY <1>3, <2>1
  <2>4. p > scheduling[t]
    BY ONLY <2>2, <2>3, scheduling[t] < scheduling[h]
  <2> QED BY <1>3, <2>1, <2>4 DEF Above
<1> QED BY <1>1, <1>5 DEF Runnable, Ahead

\* Priority inversion is bounded, whatever the number of processors: the owner of
\* the mutex is at least as urgent as each waiter, so it runs before every less
\* urgent thread.
THEOREM InversionBoundedHolds == Spec => []InversionBounded
<1>1. RealtimeInv => InversionBounded
  <2> SUFFICES ASSUME RealtimeInv, NEW h \in waiting, NEW t \in Threads,
                      t # owner, scheduling[t] < scheduling[h], OnCpu(t)
               PROVE  OnCpu(owner)
    BY DEF InversionBounded
  <2>1. owner \in Threads /\ Runnable(owner) /\ Ahead(owner) \subseteq Ahead(t)
    BY OwnerAhead
  <2>2. IsFiniteSet(Ahead(t))
    BY RealtimeAssumption, FS_Subset DEF Ahead
  <2>3. /\ Cardinality(Ahead(owner)) \in Nat /\ Cardinality(Ahead(t)) \in Nat
        /\ Cardinality(Ahead(owner)) <= Cardinality(Ahead(t))
    BY <2>1, <2>2, FS_Subset, FS_CardinalityType
  <2>4. Cardinality(Ahead(t)) < Cpus
    BY DEF OnCpu
  <2> QED BY <2>1, <2>3, <2>4, SchedulingAssumption DEF OnCpu
<1> QED BY <1>1, RealtimeInvariant, PTL

-----------------------------------------------------------------------------
\* The page of the byte at offset o is that of a byte a loop writes to, or that of
\* the last byte.
Reached(start, bytes, page, o) ==
    \E t \in Strides(bytes, page) \cup {bytes - 1} :
        t \in Nat /\ (start + t) \div Page = (start + o) \div Page

\* So it is for every byte of a block: if the loop misses the page with the write
\* before the byte, then the write after it or the last byte is on that page.
LEMMA PageReached ==
    ASSUME NEW start \in 0..(Page - 1), NEW bytes \in Nat \ {0}, NEW page \in PageSizes,
           NEW o \in 0..(bytes - 1)
    PROVE  Reached(start, bytes, page, o)
<1> DEFINE g == (start + o) \div Page
           f == (start + o) % Page
           q == o \div page
           r == o % page
           m == q * page
           n == (q + 1) * page
<1>1. Page \in Nat \ {0} /\ page \in Nat \ {0} /\ page <= Page
  BY RealtimeAssumption DEF PageSizes
<1>2. start \in Nat /\ o \in Nat /\ o \in Int /\ start + o \in Int /\ o <= bytes - 1 /\ bytes - 1 \in Nat
  BY <1>1
<1>3. start + o = g * Page + f /\ g \in Int /\ f \in 0..(Page - 1)
  BY ONLY <1>1, <1>2, DivMod
<1>4. o = q * page + r /\ q \in Int /\ r \in 0..(page - 1)
  BY ONLY <1>1, <1>2, DivMod
<1> HIDE DEF g, f, q, r
<1>5. m \in Int /\ n \in Int /\ o = m + r /\ n = m + page
  BY <1>1, <1>4
<1>6. m % page = 0 /\ n % page = 0
  <2>1. m = q * page + 0 /\ n = (q + 1) * page + 0 /\ q + 1 \in Int /\ 0 \in 0..(page - 1)
    BY <1>1, <1>4
  <2> HIDE DEF m, n
  <2>2. m % page = 0
    BY ONLY <1>1, <1>4, <1>5, <2>1, DivModUnique
  <2>3. n % page = 0
    BY ONLY <1>1, <1>5, <2>1, DivModUnique
  <2> QED BY <2>2, <2>3
<1>7. m >= 0
  <2>1. ASSUME q < 0 PROVE FALSE
    <3>1. PICK d \in Nat : q = -1 - d
      <4>1. -1 - q \in Nat /\ q = -1 - (-1 - q)
        BY <1>4, <2>1
      <4> QED BY <4>1
    <3>2. q * page = -page - d * page /\ d * page >= 0
      BY <1>1, <3>1
    <3> QED BY <1>1, <1>2, <1>4, <3>2
  <2>2. q \in Nat
    BY <1>4, <2>1
  <2> QED BY <1>1, <2>2
<1> HIDE DEF m, n
<1>8. ASSUME NEW t \in Nat, NEW d \in 0..(Page - 1), start + t = g * Page + d
      PROVE  (start + t) \div Page = g
  <2>1. start + t \in Int
    BY <1>2
  <2> DEFINE z == start + t
  <2> HIDE DEF z
  <2>2. z \in Int /\ z = g * Page + d
    BY <1>8, <2>1 DEF z
  <2>3. z \div Page = g
    BY ONLY <1>1, <1>3, <2>2, DivModUnique, d \in 0..(Page - 1)
  <2> QED BY <2>3 DEF z
<1>9. CASE r <= f
  <2>1. m \in Strides(bytes, page) /\ m \in Nat
    BY <1>1, <1>2, <1>4, <1>5, <1>6, <1>7 DEF Strides
  <2>2. start + m = g * Page + (f - r) /\ f - r \in 0..(Page - 1)
    BY <1>1, <1>2, <1>3, <1>4, <1>5, <1>9
  <2>3. (start + m) \div Page = g
    BY <1>8, <2>1, <2>2
  <2> QED BY <2>1, <2>3 DEF g, Reached
<1>10. CASE f < r /\ n <= bytes - 1
  <2>1. n \in Strides(bytes, page) /\ n \in Nat
    BY <1>1, <1>2, <1>5, <1>6, <1>7, <1>10 DEF Strides
  <2>2. start + n = g * Page + (f + (page - r)) /\ f + (page - r) \in 0..(Page - 1)
    BY <1>1, <1>2, <1>3, <1>4, <1>5, <1>10
  <2>3. (start + n) \div Page = g
    BY <1>8, <2>1, <2>2
  <2> QED BY <2>1, <2>3 DEF g, Reached
<1>11. CASE f < r /\ bytes - 1 < n
  <2> DEFINE e == (bytes - 1) - o
  <2>1. start + (bytes - 1) = g * Page + (f + e) /\ f + e \in 0..(Page - 1)
    BY <1>1, <1>2, <1>3, <1>4, <1>5, <1>11
  <2>2. (start + (bytes - 1)) \div Page = g
    BY <1>2, <1>8, <2>1
  <2> QED BY <1>2, <2>2 DEF g, Reached
<1>12. r <= f \/ (f < r /\ n <= bytes - 1) \/ (f < r /\ bytes - 1 < n)
  BY <1>2, <1>3, <1>4, <1>5
<1> QED BY <1>9, <1>10, <1>11, <1>12

\* prefaultStack() writes to its last byte as well, so it misses no page;
\* prefaultHeap() does not, and misses the page of the last byte at most.
LEMMA PagesMissed ==
    ASSUME NEW start \in 0..(Page - 1), NEW page \in PageSizes
    PROVE  /\ Missed(start, StackBytes, StackTouched(page)) = {}
           /\ Missed(start, HeapBytes, HeapTouched(page)) \subseteq {0}
<1>1. Page \in Nat \ {0} /\ StackBytes \in Nat \ {0} /\ HeapBytes \in Nat \ {0} /\ start \in Nat
  BY RealtimeAssumption
<1>2. ASSUME NEW p \in PagesOf(start, 0..(StackBytes - 1))
      PROVE  p \in PagesOf(start, StackTouched(page))
  <2>1. PICK o \in 0..(StackBytes - 1) : p = (start + o) \div Page
    BY DEF PagesOf
  <2>2. Reached(start, StackBytes, page, o)
    BY <1>1, PageReached
  <2>3. PICK t \in Strides(StackBytes, page) \cup {StackBytes - 1} :
            t \in Nat /\ (start + t) \div Page = (start + o) \div Page
    BY <2>2 DEF Reached
  <2> QED BY <2>1, <2>3 DEF PagesOf, StackTouched
<1>3. ASSUME NEW p \in PagesOf(start, 0..(HeapBytes - 1)), p \notin PagesOf(start, HeapTouched(page))
      PROVE  (start + HeapBytes - 1) \div Page - p = 0
  <2>1. PICK o \in 0..(HeapBytes - 1) : p = (start + o) \div Page
    BY DEF PagesOf
  <2>2. Reached(start, HeapBytes, page, o)
    BY <1>1, PageReached
  <2>3. PICK t \in Strides(HeapBytes, page) \cup {HeapBytes - 1} :
            t \in Nat /\ (start + t) \div Page = (start + o) \div Page
    BY <2>2 DEF Reached
  <2>4. t = HeapBytes - 1
    BY <1>3, <2>1, <2>3 DEF PagesOf, HeapTouched
  <2>5. start + t = start + HeapBytes - 1 /\ start + t \in Int
    BY <1>1, <2>4
  <2>6. (start + t) \div Page \in Int
    BY ONLY <1>1, <2>5, DivMod
  <2> QED BY <2>1, <2>3, <2>5, <2>6
<1> QED BY <1>2, <1>3 DEF Missed

\* The prefault reaches every page of the stack block and all but the last of the
\* heap block, for any sizes, wherever the blocks lie in their first page, with the
\* true page size and with a smaller one assumed when sysconf() fails.
THEOREM PrefaultHolds == Spec => []PrefaultReachesPages
<1>1. Init => PrefaultReachesPages
  BY DEF Init, RealtimeInit, PrefaultReachesPages
<1>2. PrefaultReachesPages /\ [Next]_vars => PrefaultReachesPages'
  <2> SUFFICES ASSUME PrefaultReachesPages, [Next]_vars PROVE PrefaultReachesPages'
    OBVIOUS
  <2>1. CASE LockMemory
    <3>1. ASSUME NEW result, EndMemoryStage(result, {}, {}) PROVE PrefaultReachesPages'
      BY <3>1 DEF EndMemoryStage, PrefaultReachesPages
    <3>2. ASSUME NEW page \in PageSizes, NEW stack \in 0..(Page - 1), NEW heap \in 0..(Page - 1),
                 NEW allocated \in BOOLEAN,
                 EndMemoryStage(Applied, Missed(stack, StackBytes, StackTouched(page)),
                     IF allocated THEN Missed(heap, HeapBytes, HeapTouched(page)) ELSE {})
          PROVE  PrefaultReachesPages'
      BY <3>2, PagesMissed DEF EndMemoryStage, PrefaultReachesPages
    <3> QED BY <2>1, <3>1, <3>2 DEF LockMemory, LockProcessMemory
  <2>2. CASE ~LockMemory
    <3>1. memory' = memory
      BY <2>2 DEF Next, Step, vars, ConstructMutex, Enter, ConfigureCurrentThread, Sleep, Wake,
                  Acquire, Release
    <3> QED BY <3>1 DEF PrefaultReachesPages
  <2> QED BY <2>1, <2>2
<1> QED BY <1>1, <1>2, PTL DEF Spec
=============================================================================
