--------------------------- MODULE RealtimeManager ---------------------------
(***************************************************************************)
(* RealtimeManager's two stages and the warnings that report them: the     *)
(* process-wide one locks and prefaults memory before any thread starts,   *)
(* the per-thread one is run by each thread on entry.  Both are best       *)
(* effort: a system call that fails is reported and the program goes on.   *)
(* An errno is abstracted away; the call that failed is kept.              *)
(***************************************************************************)
EXTENDS Integers, FiniteSets

CONSTANTS Threads,      \* the threads that call configureCurrentThread()
          Priority,     \* the priority each of them asks for
          Pinned,       \* those that also ask for a CPU
          Page,         \* bytes in a page of memory
          DefaultPage,  \* the page size assumed when sysconf() fails
          StackBytes,   \* kBytes of prefaultStack()
          HeapBytes     \* kBytes of prefaultHeap()

ASSUME RealtimeAssumption ==
    /\ IsFiniteSet(Threads) /\ "process" \notin Threads
    /\ Priority \in [Threads -> 1..99]
    /\ Pinned \subseteq Threads
    /\ {Page, DefaultPage, StackBytes, HeapBytes} \subseteq Nat \ {0}
    /\ DefaultPage <= Page

VARIABLES
    config,      \* Config::Realtime: enabled and lockMemory
    memory,      \* the process-wide stage: done, locked, and the pages missed
    scheduling,  \* the SCHED_FIFO priority of each thread, 0 at default scheduling
    warned       \* the roles a warning was printed for

RealtimeInit ==
    /\ config \in [enabled : BOOLEAN, lockMemory : BOOLEAN]
    /\ memory = [done |-> FALSE, locked |-> FALSE, stackMissed |-> {}, heapMissed |-> {}]
    /\ scheduling = [t \in Threads |-> 0]
    /\ warned = {}

\* struct RealtimeResult and the three ways to make one.
Applied == [applied |-> TRUE, failedCall |-> "none"]
Skipped == [applied |-> FALSE, failedCall |-> "none"]
Failure(call) == [applied |-> FALSE, failedCall |-> call]

\* ok()
\* MUTANT of Ok: a setting skipped on purpose counts as a failure.
OkIfApplied(result) == result.applied
Ok(result) == result.failedCall = "none"

\* reportRealtimeDegradation(), and the warning of Application::run().
Report(role, result) == warned' = IF Ok(result) THEN warned ELSE warned \cup {role}

-----------------------------------------------------------------------------
\* What pageSize() may return.
PageSizes == {Page, DefaultPage}

\* The offsets the prefault loops write to, page bytes apart.
Strides(bytes, page) == {offset \in 0..(bytes - 1) : offset % page = 0}

\* The pages that hold the bytes at the given offsets of a block that starts
\* start bytes into a page.
PagesOf(start, offsets) == {(start + offset) \div Page : offset \in offsets}

\* MUTANT of StackTouched: the last byte is not written.
StackTouchedByStride(page) == Strides(StackBytes, page)
\* prefaultStack()
StackTouched(page) == Strides(StackBytes, page) \cup {StackBytes - 1}

\* prefaultHeap()
HeapTouched(page) == Strides(HeapBytes, page)

\* The pages of a block that the writes at touched miss, counted from its last.
Missed(start, bytes, touched) ==
    {(start + bytes - 1) \div Page - p :
        p \in PagesOf(start, 0..(bytes - 1)) \ PagesOf(start, touched)}

\* The stage ends with result.
EndMemoryStage(result, stackMissed, heapMissed) ==
    /\ memory' = [done |-> TRUE, locked |-> result.applied,
                  stackMissed |-> stackMissed, heapMissed |-> heapMissed]
    /\ Report("process", result)
    /\ UNCHANGED <<config, scheduling>>

\* lockProcessMemory(), called once by Application::run().  The two blocks lie
\* anywhere in memory, and malloc() may find no room for the second.
LockProcessMemory ==
    /\ ~memory.done
    /\ \/ ~config.lockMemory /\ EndMemoryStage(Skipped, {}, {})
       \/ config.lockMemory /\ EndMemoryStage(Failure("mlockall"), {}, {})
       \/ /\ config.lockMemory
          /\ \E page \in PageSizes, stack, heap \in 0..(Page - 1), allocated \in BOOLEAN :
                EndMemoryStage(Applied,
                    Missed(stack, StackBytes, StackTouched(page)),
                    IF allocated THEN Missed(heap, HeapBytes, HeapTouched(page)) ELSE {})

\* configureCurrentThread() and the report of its caller, at the entry of every
\* thread: pthread_setschedparam() first, then pthread_setaffinity_np().
ConfigureCurrentThread(t) ==
    /\ \/ ~config.enabled /\ Report(t, Skipped) /\ UNCHANGED scheduling
       \/ config.enabled /\ Report(t, Failure("pthread_setschedparam")) /\ UNCHANGED scheduling
       \/ /\ config.enabled
          /\ scheduling' = [scheduling EXCEPT ![t] = Priority[t]]
          /\ \/ Report(t, Applied)
             \/ t \in Pinned /\ Report(t, Failure("pthread_setaffinity_np"))
    /\ UNCHANGED <<config, memory>>
=============================================================================
