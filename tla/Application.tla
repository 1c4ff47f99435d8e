----------------------------- MODULE Application -----------------------------
(***************************************************************************)
(* The pipeline of src/application.cpp: the main thread starts the logger, *)
(* the watchdog, the DSP workers and the producer, waits for a reason to   *)
(* stop, and runs the ordered drain of shutdown().  Each thread follows    *)
(* its loop: src/radar_producer.cpp, src/thread_pool.cpp, src/logger.cpp   *)
(* and src/watchdog.cpp, with the catch (...) that ends it.                *)
(*                                                                         *)
(* The two queues are the atomic queues of module BoundedQueue, which      *)
(* module ThreadSafeQueue implements, and ShutdownToken is the flag that   *)
(* module ShutdownToken shows its waits follow.  Time is abstracted: a     *)
(* timed wait ends at any moment, and a heartbeat that is Running may be   *)
(* older than the liveness timeout at any moment.                          *)
(*                                                                         *)
(* Signals are 1, 2, 3, ... in the order of their push; the log record of  *)
(* a signal has its number, and the k-th stall report is -k.               *)
(***************************************************************************)
EXTENDS Integers, Sequences, FiniteSets

CONSTANTS WorkerCount,     \* pool().workerCount
          InputCapacity,   \* queues().inputCapacity
          OutputCapacity,  \* queues().outputCapacity
          Escalate,        \* watchdog().escalateToShutdown
          MaxSignals,      \* bound: periods the producer goes through
          MaxStalls,       \* bound: stalls the watchdog finds
          MaxFaults        \* bound: exceptions thrown, on any thread

ASSUME ApplicationAssumption ==
    /\ {WorkerCount, InputCapacity, OutputCapacity} \subseteq Nat \ {0}
    /\ Escalate \in BOOLEAN
    /\ {MaxSignals, MaxStalls, MaxFaults} \subseteq Nat

Workers == 1..WorkerCount

\* The heartbeats in the order of their registration.
ProducerBeat == 0
LoggerBeat == WorkerCount + 1
Heartbeats == ProducerBeat..LoggerBeat

VARIABLES
    shutdownRequested, \* the flag of shutdownToken_
    signalPending,     \* SIGINT or SIGTERM is queued on the signalfd
    inputQueue,        \* inputQueue_: its items, and whether it is closed
    outputQueue,       \* outputQueue_: the same, and its droppedCount
    main, failing,     \* where run() is; whether it is to rethrow
    producer,          \* where produceLoop() is
    worker, hand,      \* where each workerLoop() is; the signal or count it holds
    logger, record,    \* where drainLoop() is; the record it holds
    watchdog,          \* where scanLoop() is
    next, stall,       \* the scan: next heartbeat to visit, stallDetected
    running,           \* the heartbeats whose state is Running
    metrics,           \* the counters of metrics_
    faults,            \* exceptions thrown so far
    history            \* signals pushed; records written, evicted, rejected

mainVars == <<main, failing>>
workerVars == <<worker, hand>>
loggerVars == <<logger, record>>
watchdogVars == <<watchdog, next, stall>>
vars == <<shutdownRequested, signalPending, inputQueue, outputQueue, mainVars, producer,
          workerVars, loggerVars, watchdogVars, running, metrics, faults, history>>

\* A thread that was never started, left its loop, or left it by an exception.
Ended == {"none", "done", "died"}

\* MUTANT of ShutdownOrder: the output queue is closed before the pool is joined.
OutputClosedEarly == <<"requestShutdown", "closeInput", "joinProducer", "closeOutput",
                       "joinPool", "joinLogger", "joinWatchdog">>

\* MUTANT of ShutdownOrder: the watchdog is not joined.
WatchdogNotJoined == <<"requestShutdown", "closeInput", "joinProducer", "joinPool",
                       "closeOutput", "joinLogger">>

\* The statements of shutdown(), in order.
ShutdownOrder == <<"requestShutdown", "closeInput", "joinProducer", "joinPool",
                   "closeOutput", "joinLogger", "joinWatchdog">>

\* Where main goes after a statement of shutdown(): the next one, or the end of run().
AfterShutdownStep(step) ==
    LET i == CHOOSE i \in DOMAIN ShutdownOrder : ShutdownOrder[i] = step
    IN  IF i < Len(ShutdownOrder) THEN ShutdownOrder[i + 1]
        ELSE IF failing THEN "failed" ELSE "exited"

Init ==
    /\ shutdownRequested = FALSE /\ signalPending = FALSE
    /\ inputQueue = [items |-> <<>>, closed |-> FALSE]
    /\ outputQueue = [items |-> <<>>, closed |-> FALSE, dropped |-> 0]
    /\ main = "startLogger" /\ failing = FALSE
    /\ producer = "none" /\ logger = "none" /\ record = 0
    /\ worker = [w \in Workers |-> "none"] /\ hand = [w \in Workers |-> 0]
    /\ watchdog = "none" /\ next = 0 /\ stall = FALSE
    /\ running = {}
    /\ metrics = [produced |-> 0, processed |-> 0, logDrops |-> 0, stalls |-> 0, exceptions |-> 0]
    /\ faults = 0
    /\ history = [pushed |-> 0, written |-> {}, evicted |-> {}, rejected |-> {}]

\* The event counters of Metrics, and its gauge of dropped records.
Record(counter) == metrics' = [metrics EXCEPT ![counter] = @ + 1]
SetLogDrops(drops) == metrics' = [metrics EXCEPT !.logDrops = drops]

-----------------------------------------------------------------------------
(* The main thread: run(), startThreads(), waitForShutdown() and shutdown(). *)

StartLogger ==
    /\ main = "startLogger" /\ main' = "startWatchdog"
    /\ logger' = "pop"
    /\ UNCHANGED <<failing, producer, workerVars, record, watchdogVars>>

StartWatchdog ==
    /\ main = "startWatchdog" /\ main' = "startPool"
    /\ watchdog' = "wait"
    /\ UNCHANGED <<failing, producer, workerVars, loggerVars, next, stall>>

\* ThreadPool::start(), one worker at a time, in order.
StartWorker(w) ==
    /\ main = "startPool"
    /\ \A v \in Workers : worker[v] = "none" <=> v >= w
    /\ worker' = [worker EXCEPT ![w] = "pop"]
    /\ main' = IF w = WorkerCount THEN "startProducer" ELSE main
    /\ UNCHANGED <<failing, producer, hand, loggerVars, watchdogVars>>

StartProducer ==
    /\ main = "startProducer" /\ main' = "wait"
    /\ producer' = "top"
    /\ UNCHANGED <<failing, workerVars, loggerVars, watchdogVars>>

Start == /\ StartLogger \/ StartWatchdog \/ StartProducer \/ \E w \in Workers : StartWorker(w)
         /\ UNCHANGED <<shutdownRequested, signalPending, inputQueue, outputQueue, running,
                        metrics, faults, history>>

\* A start() throws: the outer catch runs the teardown, and run() rethrows.
StartFails ==
    /\ main \in {"startLogger", "startWatchdog", "startPool", "startProducer"}
    /\ faults < MaxFaults /\ faults' = faults + 1
    /\ failing' = TRUE
    /\ main' = ShutdownOrder[1]
    /\ UNCHANGED <<shutdownRequested, signalPending, inputQueue, outputQueue, producer,
                   workerVars, loggerVars, watchdogVars, running, metrics, history>>

\* waitForShutdown() finds the token set, or ppoll() reports a signal, which it
\* consumes and turns into a request.
EndWait ==
    /\ main = "wait"
    /\ \/ shutdownRequested /\ UNCHANGED <<shutdownRequested, signalPending>>
       \/ signalPending /\ signalPending' = FALSE /\ shutdownRequested' = TRUE
    /\ main' = ShutdownOrder[1]
    /\ UNCHANGED <<failing, inputQueue, outputQueue, producer, workerVars, loggerVars,
                   watchdogVars, running, metrics, faults, history>>

\* ppoll() or read() fails: a RadarException asks for the shutdown, any other
\* exception goes to the outer catch and run() rethrows it.
WaitFails ==
    /\ main = "wait"
    /\ faults < MaxFaults /\ faults' = faults + 1
    /\ \/ shutdownRequested' = TRUE /\ UNCHANGED failing
       \/ failing' = TRUE /\ UNCHANGED shutdownRequested
    /\ main' = ShutdownOrder[1]
    /\ UNCHANGED <<signalPending, inputQueue, outputQueue, producer, workerVars, loggerVars,
                   watchdogVars, running, metrics, history>>

\* The thread a join waits for; ManagedThread::join() of one never started returns.
Joined(step) ==
    CASE step = "joinProducer" -> producer \in Ended
      [] step = "joinPool" -> \A w \in Workers : worker[w] \in Ended
      [] step = "joinLogger" -> logger \in Ended
      [] step = "joinWatchdog" -> watchdog \in Ended
      [] OTHER -> TRUE

\* One statement of shutdown().
Shutdown ==
    /\ \E i \in DOMAIN ShutdownOrder : main = ShutdownOrder[i]
    /\ Joined(main)
    /\ main' = AfterShutdownStep(main)
    /\ shutdownRequested' = (shutdownRequested \/ main = "requestShutdown")
    /\ inputQueue' = [inputQueue EXCEPT !.closed = @ \/ main = "closeInput"]
    /\ outputQueue' = [outputQueue EXCEPT !.closed = @ \/ main = "closeOutput"]
    /\ UNCHANGED <<signalPending, failing, producer, workerVars, loggerVars, watchdogVars,
                   running, metrics, faults, history>>

\* SIGINT or SIGTERM arrives: at any time, and again during the drain.
Signal ==
    /\ ~signalPending /\ signalPending' = TRUE
    /\ main \notin {"exited", "failed"}
    /\ UNCHANGED <<shutdownRequested, inputQueue, outputQueue, mainVars, producer, workerVars,
                   loggerVars, watchdogVars, running, metrics, faults, history>>

-----------------------------------------------------------------------------
(* The producer. *)

\* The loop condition, and markRunning().
ProducerTop ==
    /\ producer = "top"
    /\ IF shutdownRequested THEN producer' = "done" /\ UNCHANGED running
       ELSE producer' = "push" /\ running' = running \cup {ProducerBeat}
    /\ UNCHANGED <<inputQueue, metrics, history>>

\* inputQueue_.push(): waits for space, returns false on a closed queue.
ProducerPush ==
    /\ producer = "push"
    /\ inputQueue.closed \/ Len(inputQueue.items) < InputCapacity
    /\ IF inputQueue.closed
       THEN producer' = "done" /\ UNCHANGED <<inputQueue, history>>
       ELSE /\ producer' = "record"
            /\ inputQueue' = [inputQueue EXCEPT !.items = Append(@, history.pushed + 1)]
            /\ history' = [history EXCEPT !.pushed = @ + 1]
    /\ UNCHANGED <<running, metrics>>

\* recordSignalProduced(), then a missed deadline or markWaiting().
ProducerRecord ==
    /\ producer = "record"
    /\ Record("produced")
    /\ \/ history.pushed < MaxSignals /\ producer' = "top" /\ UNCHANGED running
       \/ producer' = "wait" /\ running' = running \ {ProducerBeat}
    /\ UNCHANGED <<inputQueue, history>>

\* waitFor(remaining): shutdown is requested, or the period is over.
ProducerWait ==
    /\ producer = "wait"
    /\ shutdownRequested \/ history.pushed < MaxSignals
    /\ producer' = IF shutdownRequested THEN "done" ELSE "top"
    /\ UNCHANGED <<inputQueue, running, metrics, history>>

ProducerStep ==
    /\ ProducerTop \/ ProducerPush \/ ProducerRecord \/ ProducerWait
    /\ UNCHANGED <<shutdownRequested, signalPending, outputQueue, mainVars, workerVars,
                   loggerVars, watchdogVars, faults>>

-----------------------------------------------------------------------------
(* The DSP workers. *)

\* MUTANT of EndOfInput: a closed queue ends the loop although items are left.
EndOfInputOnClose == inputQueue.closed
\* waitAndPop() returns nullopt.
EndOfInput == inputQueue.closed /\ inputQueue.items = <<>>

\* MUTANT of Evicts: one record more than the capacity is kept.
EvictsOffByOne == Len(outputQueue.items) > OutputCapacity
Evicts == Len(outputQueue.items) >= OutputCapacity

\* outputQueue_.push(r): never blocks, evicts the oldest record of a full queue.
OutputPush(r) ==
    IF outputQueue.closed
    THEN history' = [history EXCEPT !.rejected = @ \cup {r}] /\ UNCHANGED outputQueue
    ELSE IF Evicts
    THEN /\ outputQueue' = [outputQueue EXCEPT !.items = Append(Tail(@), r), !.dropped = @ + 1]
         /\ history' = [history EXCEPT !.evicted = @ \cup {Head(outputQueue.items)}]
    ELSE outputQueue' = [outputQueue EXCEPT !.items = Append(@, r)] /\ UNCHANGED history

\* waitAndPop(), which ends the loop or hands over a signal; markRunning().
WorkerPop(w) ==
    /\ worker[w] = "pop"
    /\ \/ /\ EndOfInput
          /\ worker' = [worker EXCEPT ![w] = "done"]
          /\ UNCHANGED <<inputQueue, hand, running>>
       \/ /\ ~EndOfInput /\ inputQueue.items # <<>>
          /\ worker' = [worker EXCEPT ![w] = "process"]
          /\ hand' = [hand EXCEPT ![w] = Head(inputQueue.items)]
          /\ inputQueue' = [inputQueue EXCEPT !.items = Tail(@)]
          /\ running' = running \cup {w}
    /\ UNCHANGED <<outputQueue, metrics, history>>

\* process() and recordSignalProcessed().
WorkerProcess(w) ==
    /\ worker[w] = "process"
    /\ worker' = [worker EXCEPT ![w] = "push"]
    /\ Record("processed")
    /\ UNCHANGED <<inputQueue, outputQueue, hand, running, history>>

WorkerPush(w) ==
    /\ worker[w] = "push"
    /\ worker' = [worker EXCEPT ![w] = "readDrops"]
    /\ OutputPush(hand[w])
    /\ UNCHANGED <<inputQueue, hand, running, metrics>>

\* outputQueue_.droppedCount() is read here and stored by the next step.
WorkerReadDrops(w) ==
    /\ worker[w] = "readDrops"
    /\ worker' = [worker EXCEPT ![w] = "setDrops"]
    /\ hand' = [hand EXCEPT ![w] = outputQueue.dropped]
    /\ UNCHANGED <<inputQueue, outputQueue, running, metrics, history>>

\* setLogDrops(), and markWaiting() at the top of the loop.
WorkerSetDrops(w) ==
    /\ worker[w] = "setDrops"
    /\ worker' = [worker EXCEPT ![w] = "pop"]
    /\ SetLogDrops(hand[w])
    /\ hand' = [hand EXCEPT ![w] = 0]
    /\ running' = running \ {w}
    /\ UNCHANGED <<inputQueue, outputQueue, history>>

WorkerStep(w) ==
    /\ WorkerPop(w) \/ WorkerProcess(w) \/ WorkerPush(w) \/ WorkerReadDrops(w) \/ WorkerSetDrops(w)
    /\ UNCHANGED <<shutdownRequested, signalPending, mainVars, producer, loggerVars,
                   watchdogVars, faults>>

-----------------------------------------------------------------------------
(* The logger. *)

\* MUTANT of EndOfOutput: a closed queue ends the loop although records are left.
EndOfOutputOnClose == outputQueue.closed
EndOfOutput == outputQueue.closed /\ outputQueue.items = <<>>

\* waitAndPop(), which ends the loop (the sinks are then flushed) or hands over
\* a record; markRunning().
LoggerPop ==
    /\ logger = "pop"
    /\ \/ EndOfOutput /\ logger' = "done" /\ UNCHANGED <<record, outputQueue, running>>
       \/ /\ ~EndOfOutput /\ outputQueue.items # <<>>
          /\ logger' = "write"
          /\ record' = Head(outputQueue.items)
          /\ outputQueue' = [outputQueue EXCEPT !.items = Tail(@)]
          /\ running' = running \cup {LoggerBeat}
    /\ UNCHANGED history

\* Every sink writes the line; markWaiting() at the top of the loop.
LoggerWrite ==
    /\ logger = "write" /\ logger' = "pop"
    /\ record' = 0
    /\ history' = [history EXCEPT !.written = @ \cup {record}]
    /\ running' = running \ {LoggerBeat}
    /\ UNCHANGED outputQueue

LoggerStep ==
    /\ LoggerPop \/ LoggerWrite
    /\ UNCHANGED <<shutdownRequested, signalPending, inputQueue, mainVars, producer,
                   workerVars, watchdogVars, metrics, faults>>

-----------------------------------------------------------------------------
(* The watchdog. *)

\* MUTANT of AfterScanWait: the result of waitFor() is not looked at.
AlwaysScan == "scan"
AfterScanWait == IF shutdownRequested THEN "done" ELSE "scan"

\* waitFor(scanInterval): shutdown is requested, or a scan begins.
WatchdogWait ==
    /\ watchdog = "wait"
    /\ watchdog' = AfterScanWait
    /\ next' = 0 /\ stall' = FALSE
    /\ UNCHANGED <<shutdownRequested, outputQueue, metrics, history>>

\* The scan comes to a heartbeat that is Running and too old, having found the
\* ones before it fresh or waiting, and counts the stall.
WatchdogFind ==
    /\ watchdog = "scan"
    /\ metrics.stalls < MaxStalls
    /\ \E h \in running : h >= next /\ next' = h + 1
    /\ watchdog' = "report" /\ stall' = TRUE
    /\ Record("stalls")
    /\ UNCHANGED <<shutdownRequested, outputQueue, history>>

\* reportStall() pushes its record.
WatchdogReport ==
    /\ watchdog = "report" /\ watchdog' = "scan"
    /\ OutputPush(-metrics.stalls)
    /\ UNCHANGED <<shutdownRequested, next, stall, metrics>>

\* MUTANT of EscalateStall: a stall never asks for a shutdown.
NoEscalation == UNCHANGED shutdownRequested
EscalateStall == shutdownRequested' = (shutdownRequested \/ (stall /\ Escalate))

\* The scan found no further stall, and escalates if it is configured to.
WatchdogEnd ==
    /\ watchdog = "scan" /\ watchdog' = "wait"
    /\ EscalateStall
    /\ next' = 0 /\ stall' = FALSE
    /\ UNCHANGED <<outputQueue, metrics, history>>

WatchdogStep ==
    /\ WatchdogWait \/ WatchdogFind \/ WatchdogReport \/ WatchdogEnd
    /\ UNCHANGED <<signalPending, inputQueue, mainVars, producer, workerVars, loggerVars,
                   running, faults>>

-----------------------------------------------------------------------------
\* MUTANT of Catch: the exception boundary does not ask for a shutdown.
CatchOnly == /\ Record("exceptions")
             /\ UNCHANGED shutdownRequested

\* The catch (...) around every thread's loop.
Catch == /\ Record("exceptions")
         /\ shutdownRequested' = TRUE

\* A thread throws, wherever it is in its loop: what it held is lost, and its
\* heartbeat stays as it was.
Throw ==
    /\ faults < MaxFaults /\ faults' = faults + 1
    /\ Catch
    /\ \/ producer \notin Ended /\ producer' = "died" /\ UNCHANGED <<worker, logger, watchdog>>
       \/ \E w \in Workers : /\ worker[w] \notin Ended /\ worker' = [worker EXCEPT ![w] = "died"]
                             /\ UNCHANGED <<producer, logger, watchdog>>
       \/ logger \notin Ended /\ logger' = "died" /\ UNCHANGED <<producer, worker, watchdog>>
       \/ watchdog \notin Ended /\ watchdog' = "died" /\ UNCHANGED <<producer, worker, logger>>
    /\ UNCHANGED <<signalPending, inputQueue, outputQueue, mainVars, hand, record, next, stall,
                   running, history>>

Exited == main \in {"exited", "failed"}

\* run() has returned or rethrown, and the process ends.
Terminated == Exited /\ UNCHANGED vars

MainStep == Start \/ EndWait \/ Shutdown

Next == \/ MainStep \/ ProducerStep \/ (\E w \in Workers : WorkerStep(w))
        \/ LoggerStep \/ WatchdogStep
        \/ Signal \/ StartFails \/ WaitFails \/ Throw
        \/ Terminated

Spec == Init /\ [][Next]_vars

\* Every thread is scheduled, and a timed wait comes to its end.  Signals and
\* failures need never come.
FairSpec == /\ Spec
            /\ WF_vars(MainStep) /\ WF_vars(ProducerStep)
            /\ \A w \in Workers : WF_vars(WorkerStep(w))
            /\ WF_vars(LoggerStep) /\ WF_vars(WatchdogStep)
-----------------------------------------------------------------------------
Records == (-MaxStalls)..(MaxSignals + 1)

\* Every variable keeps its type, and both queues keep within their capacity.
TypeOK ==
    /\ {shutdownRequested, signalPending, failing, stall} \subseteq BOOLEAN
    /\ inputQueue \in [items : Seq(Records), closed : BOOLEAN]
    /\ outputQueue \in [items : Seq(Records), closed : BOOLEAN, dropped : Nat]
    /\ Len(inputQueue.items) <= InputCapacity /\ Len(outputQueue.items) <= OutputCapacity
    /\ main \in {"startLogger", "startWatchdog", "startPool", "startProducer", "wait",
                 "requestShutdown", "closeInput", "joinProducer", "joinPool", "closeOutput",
                 "joinLogger", "joinWatchdog", "exited", "failed"}
    /\ producer \in Ended \cup {"top", "push", "record", "wait"}
    /\ worker \in [Workers -> Ended \cup {"pop", "process", "push", "readDrops", "setDrops"}]
    /\ hand \in [Workers -> Nat]
    /\ logger \in Ended \cup {"pop", "write"} /\ record \in Records
    /\ watchdog \in Ended \cup {"wait", "scan", "report"}
    /\ next \in Nat /\ running \in SUBSET Heartbeats
    /\ metrics \in [produced : Nat, processed : Nat, logDrops : Nat, stalls : Nat, exceptions : Nat]
    /\ faults \in 0..MaxFaults
    /\ history \in [pushed : Nat, written : SUBSET Records, evicted : SUBSET Records,
                    rejected : SUBSET Records]

\* The ordered drain of shutdown() loses nothing: when run() is over and no
\* thread threw, every signal the producer pushed was counted as produced, was
\* processed, and its record was written by the logger or evicted by overflow.
DrainLosesNothing ==
    Exited /\ metrics.exceptions = 0 =>
        /\ metrics.produced = history.pushed /\ metrics.processed = history.pushed
        /\ inputQueue.items = <<>> /\ outputQueue.items = <<>>
        /\ 1..history.pushed \subseteq history.written \cup history.evicted

\* An exception (D7) costs one signal at most, as long as one worker is left to
\* drain the input queue: the others pick up what the dead one would have taken.
LossBoundedByExceptions ==
    Exited /\ (\E w \in Workers : worker[w] = "done") =>
        history.pushed - metrics.processed <= metrics.exceptions

\* shutdown() closes the output queue only when no DSP worker is left to push:
\* no signal's record is ever refused by a closed queue, whatever throws.
DspRecordsNeverRejected == history.rejected \cap 1..history.pushed = {}

\* No thread outlives run(), on the normal path, on the rollback of a failed
\* start and after exceptions.
NoThreadOutlivesRun ==
    Exited => /\ {producer, logger, watchdog} \subseteq Ended
              /\ \A w \in Workers : worker[w] \in Ended

\* What is left to do: no thread takes more steps than this before it ends, if
\* shutdown is requested, those that others take for it included.
ProducerWork ==
    CASE producer = "push" -> 11 [] producer = "record" -> 3
      [] producer = "top" -> 2 [] producer = "wait" -> 1 [] OTHER -> 0
WorkerWork(w) ==
    CASE worker[w] = "process" -> 7 [] worker[w] = "push" -> 6
      [] worker[w] = "readDrops" -> 3 [] worker[w] = "setDrops" -> 2
      [] worker[w] = "pop" -> 1 [] OTHER -> 0
PoolWork == Cardinality({step \in Workers \X (1..7) : step[2] <= WorkerWork(step[1])})
LoggerWork == CASE logger = "write" -> 2 [] logger = "pop" -> 1 [] OTHER -> 0
WatchdogWork ==
    CASE watchdog = "scan" -> 4 * (LoggerBeat + 1 - next) + 2
      [] watchdog = "report" -> 4 * (LoggerBeat + 1 - next) + 5
      [] watchdog = "wait" -> 1 [] OTHER -> 0
MainWork ==
    CASE main = "closeInput" -> 6 [] main = "joinProducer" -> 5 [] main = "joinPool" -> 4
      [] main = "closeOutput" -> 3 [] main = "joinLogger" -> 2 [] main = "joinWatchdog" -> 1
      [] OTHER -> 0
WorkLeft ==
    7 * Len(inputQueue.items) + 2 * Len(outputQueue.items) + (IF signalPending THEN 0 ELSE 1)
    + MainWork + ProducerWork + LoggerWork + WatchdogWork + PoolWork

\* shutdown() has set the token and has not returned yet.
Draining == main \in {"closeInput", "joinProducer", "joinPool", "closeOutput", "joinLogger",
                      "joinWatchdog"}

\* The drain of shutdown() cannot go on for ever: whatever the threads do, each
\* step lowers the work left, which the capacities and the number of workers bound.
\* No loop goes round once more than it has items, and the scan under way is the last.
DrainTerminates ==
    [][Draining => /\ WorkLeft' \in 0..(WorkLeft - 1)
                   /\ WorkLeft <= 7 * InputCapacity + 2 * OutputCapacity + 11 * WorkerCount + 33]_vars

\* Whatever asks for the shutdown (a signal, an exception on any thread, a
\* stall that escalates, a failed start), run() ends: every join returns,
\* also that of a producer blocked on a full queue whose workers are dead.
ShutdownCompletes ==
    (\/ shutdownRequested \/ signalPending \/ failing
     \/ metrics.exceptions > 0 \/ (Escalate /\ metrics.stalls > 0)) ~> Exited

\* ARCHITECTURE.md:79, "Dropped items are always counted in Metrics": the
\* summary shows every eviction of the output queue.  The code mirrors the
\* count with a read and a store that other pushes may come between.
LogDropsReported == main = "exited" => metrics.logDrops = outputQueue.dropped

\* docs/diagrams.md:118: once the output queue is closed "no further pushes are
\* possible".  The watchdog, still inside a scan, may push.
NoPushAfterOutputClose == history.rejected = {}
=============================================================================
