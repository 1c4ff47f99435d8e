------------------------- MODULE RealtimeScheduling -------------------------
(***************************************************************************)
(* The pipeline's threads of different priorities, the mutex of a queue    *)
(* they share, and the kernel's choice of which of them run: what the      *)
(* two-stage realtime configuration and priority inheritance are for.      *)
(* A thread configures itself, then works, sleeps (a wait on a condition   *)
(* variable or for a deadline) and uses the queue's lock, inside which it  *)
(* never sleeps.  The kernel preempts at any time.                         *)
(***************************************************************************)
EXTENDS PiMutex

CONSTANTS Users,  \* the threads that use the queue
          Cpus    \* the number of processors

ASSUME SchedulingAssumption == Users \subseteq Threads /\ Cpus \in Nat \ {0}

VARIABLE pc  \* what each thread is doing

vars == <<config, memory, scheduling, warned, constructorVars, lockVars, pc>>

-----------------------------------------------------------------------------
\* The kernel.  A thread runs if it can and fewer than Cpus others that can are
\* more urgent; the owner of a PTHREAD_PRIO_INHERIT mutex is as urgent as the
\* most urgent of its waiters.
Runnable(t) == pc[t] \in {"entry", "work", "hold"}

Priorities(t) ==
    {scheduling[t]} \cup
    (IF owner = t /\ protocol = "inherit" THEN {scheduling[h] : h \in waiting} ELSE {})

\* u is more urgent than t.
Above(u, t) == \E p \in Priorities(u) : \A q \in Priorities(t) : p > q

\* The runnable threads more urgent than t, and those t is not more urgent than.
Ahead(t) == {u \in Threads : Runnable(u) /\ Above(u, t)}
Rivals(t) == {u \in Threads \ {t} : Runnable(u) /\ ~Above(t, u)}

\* t may be running, and t is running however ties are resolved.
OnCpu(t) == Runnable(t) /\ Cardinality(Ahead(t)) < Cpus
SurelyOnCpu(t) == Runnable(t) /\ Cardinality(Rivals(t)) < Cpus

-----------------------------------------------------------------------------
Init == RealtimeInit /\ PiMutexInit /\ pc = [t \in Threads |-> "entry"]

\* The members of Application, the queue and its mutex among them, are built
\* before run(), and run() locks memory before it starts the threads.
ConstructMutex == Construct /\ UNCHANGED <<config, memory, scheduling, warned, pc>>

LockMemory ==
    /\ construction = "built"
    /\ LockProcessMemory
    /\ UNCHANGED <<constructorVars, lockVars, pc>>

Goto(t, label) == pc' = [pc EXCEPT ![t] = label]

\* The entry of produceLoop(), workerLoop(), scanLoop() and drainLoop().
Enter(t) ==
    /\ pc[t] = "entry" /\ memory.done
    /\ ConfigureCurrentThread(t)
    /\ Goto(t, "work")
    /\ UNCHANGED <<constructorVars, lockVars>>

\* A thread outside the queue's lock goes to sleep, and is woken.
Sleep(t) ==
    /\ pc[t] = "work"
    /\ Goto(t, "asleep")
    /\ UNCHANGED <<config, memory, scheduling, warned, constructorVars, lockVars>>

Wake(t) ==
    /\ pc[t] = "asleep"
    /\ Goto(t, "work")
    /\ UNCHANGED <<config, memory, scheduling, warned, constructorVars, lockVars>>

\* A user of the queue locks its mutex, or tries to; if that throws, the
\* exception boundary of its loop ends the thread.
Acquire(t) ==
    /\ pc[t] = "work" /\ t \in Users
    /\ \/ Lock(t) /\ Goto(t, IF owner = NoThread THEN "hold" ELSE "wait")
       \/ TryLock(t) /\ Goto(t, IF owner = NoThread THEN "hold" ELSE "work")
       \/ LockThrows /\ Goto(t, "ended")
    /\ UNCHANGED <<config, memory, scheduling, warned>>

\* The lock's holder unlocks it; a waiter handed the mutex goes on holding it.
Release(t) ==
    /\ pc[t] = "hold"
    /\ Unlock(t)
    /\ pc' = [u \in Threads |-> IF u = t THEN "work" ELSE IF u = owner' THEN "hold" ELSE pc[u]]
    /\ UNCHANGED <<config, memory, scheduling, warned>>

\* What a thread does while it runs.
Step(t) == Enter(t) \/ Sleep(t) \/ Acquire(t) \/ Release(t)

Next ==
    \/ ConstructMutex
    \/ LockMemory
    \/ \E t \in Threads : Wake(t) \/ (OnCpu(t) /\ Step(t))

Spec == Init /\ [][Next]_vars

\* A thread that is given the processor again and again gets on with its code;
\* the processor itself goes to whom the priorities say.
Fairness == \A t \in Threads : SF_vars(SurelyOnCpu(t) /\ Step(t))

FairSpec == Spec /\ Fairness
-----------------------------------------------------------------------------
\* Every variable keeps its type, and the labels agree with the mutex: its owner
\* is the one thread that holds it and its waiters are the ones that wait.
TypeOK ==
    /\ config \in [enabled : BOOLEAN, lockMemory : BOOLEAN]
    /\ memory.done \in BOOLEAN /\ memory.locked \in BOOLEAN
    /\ scheduling \in [Threads -> 0..99]
    /\ warned \subseteq Threads \cup {"process"}
    /\ construction \in {"attrInit", "setProtocol", "mutexInit", "attrDestroy", "built", "threw"}
    /\ failed \subseteq {"attrInit", "setProtocol", "mutexInit", "attrDestroy"}
    /\ attributes \in BOOLEAN /\ exists \in BOOLEAN /\ protocol \in {"none", "inherit"}
    /\ pc \in [Threads -> {"entry", "work", "asleep", "wait", "hold", "ended"}]
    /\ owner \in Threads \cup {NoThread}
    /\ waiting = {t \in Threads : pc[t] = "wait"}
    /\ \A t \in Threads : pc[t] = "hold" <=> owner = t
    /\ waiting # {} => owner # NoThread

\* The constructor of PiMutex either builds a mutex that inherits priorities or
\* throws and leaves nothing behind; only a failed pthread_mutexattr_destroy()
\* can leave the attributes.
ConstructorLeavesNothing ==
    /\ construction = "built" => exists /\ protocol = "inherit" /\ ~attributes /\ failed = {}
    /\ construction = "threw" => /\ ~exists /\ failed # {}
                                 /\ attributes => "attrDestroy" \in failed

\* The prefault writes to every page of the stack block wherever it lies and
\* whatever pageSize() returned, and misses at most the last page of the heap block.
PrefaultReachesPages == memory.stackMissed = {} /\ memory.heapMissed \subseteq {0}

\* The warnings of the two stages tell the truth, if no CPU was asked for: a
\* thread past its entry was reported exactly if realtime is enabled and it runs
\* at default scheduling all the same, and the process if memory should be locked
\* and is not.  A setting skipped on purpose is not reported.
WarningsAreTruthful ==
    /\ \A t \in Threads \ Pinned :
          t \in warned <=> pc[t] # "entry" /\ config.enabled /\ scheduling[t] = 0
    /\ "process" \in warned <=> memory.done /\ config.lockMemory /\ ~memory.locked

\* Priority inversion is bounded: while h waits for the queue's mutex, a less
\* urgent thread other than its owner runs only if the owner runs too, so h waits
\* for the owner's critical section and never for the code of a thread below it.
InversionBounded ==
    \A h \in waiting, t \in Threads :
        t # owner /\ scheduling[t] < scheduling[h] /\ OnCpu(t) => OnCpu(owner)

\* The most urgent user of the queue gets the mutex it waits for, whatever the
\* threads below it do and although threads above it that do not use the queue
\* may preempt the owner: they go back to sleep.
UrgentThreadServed ==
    \A h \in Threads :
        (h \in waiting /\ \A u \in Users \ {h} : Priority[u] < scheduling[h]) ~> owner = h
=============================================================================
