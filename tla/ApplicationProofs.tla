-------------------------- MODULE ApplicationProofs --------------------------
(***************************************************************************)
(* The pipeline and its ordered drain, for any number of workers, any      *)
(* capacities and any number of signals, stalls and exceptions.            *)
(***************************************************************************)
EXTENDS Application, SequenceTheorems, FiniteSetTheorems, TLAPS

\* The statement that follows each one of shutdown().
LEMMA ShutdownSteps ==
    /\ ShutdownOrder[1] = "requestShutdown"
    /\ \A step : (\E i \in DOMAIN ShutdownOrder : step = ShutdownOrder[i]) <=>
          step \in {"requestShutdown", "closeInput", "joinProducer", "joinPool", "closeOutput",
                    "joinLogger", "joinWatchdog"}
    /\ AfterShutdownStep("requestShutdown") = "closeInput"
    /\ AfterShutdownStep("closeInput") = "joinProducer"
    /\ AfterShutdownStep("joinProducer") = "joinPool"
    /\ AfterShutdownStep("joinPool") = "closeOutput"
    /\ AfterShutdownStep("closeOutput") = "joinLogger"
    /\ AfterShutdownStep("joinLogger") = "joinWatchdog"
    /\ AfterShutdownStep("joinWatchdog") \in {"exited", "failed"}
<1>1. DOMAIN ShutdownOrder = 1..7 /\ Len(ShutdownOrder) = 7
  BY DEF ShutdownOrder
<1>2. /\ ShutdownOrder[1] = "requestShutdown" /\ ShutdownOrder[2] = "closeInput"
      /\ ShutdownOrder[3] = "joinProducer" /\ ShutdownOrder[4] = "joinPool"
      /\ ShutdownOrder[5] = "closeOutput" /\ ShutdownOrder[6] = "joinLogger"
      /\ ShutdownOrder[7] = "joinWatchdog"
  BY DEF ShutdownOrder
<1>3. \A i \in 1..7 : i = 1 \/ i = 2 \/ i = 3 \/ i = 4 \/ i = 5 \/ i = 6 \/ i = 7
  OBVIOUS
<1>4. \A i, j \in 1..7 : ShutdownOrder[i] = ShutdownOrder[j] => i = j
  BY <1>2, <1>3
<1>5. ASSUME NEW j \in 1..7
      PROVE  (CHOOSE i \in DOMAIN ShutdownOrder : ShutdownOrder[i] = ShutdownOrder[j]) = j
  BY <1>1, <1>4
<1>6. ASSUME NEW j \in 1..7
      PROVE  AfterShutdownStep(ShutdownOrder[j]) =
                 IF j < 7 THEN ShutdownOrder[j + 1] ELSE IF failing THEN "failed" ELSE "exited"
  <2> DEFINE k == CHOOSE i \in DOMAIN ShutdownOrder : ShutdownOrder[i] = ShutdownOrder[j]
  <2>1. AfterShutdownStep(ShutdownOrder[j]) =
            IF k < Len(ShutdownOrder) THEN ShutdownOrder[k + 1]
            ELSE IF failing THEN "failed" ELSE "exited"
    BY DEF AfterShutdownStep
  <2>2. k = j
    BY <1>5
  <2> HIDE DEF k
  <2> QED BY <2>1, <2>2, <1>1
<1>7. /\ AfterShutdownStep("requestShutdown") = "closeInput"
      /\ AfterShutdownStep("closeInput") = "joinProducer"
      /\ AfterShutdownStep("joinProducer") = "joinPool"
  BY <1>2, <1>6
<1>8. /\ AfterShutdownStep("joinPool") = "closeOutput"
      /\ AfterShutdownStep("closeOutput") = "joinLogger"
      /\ AfterShutdownStep("joinLogger") = "joinWatchdog"
      /\ AfterShutdownStep("joinWatchdog") \in {"exited", "failed"}
  BY <1>2, <1>6
<1>9. \A step : (\E i \in DOMAIN ShutdownOrder : step = ShutdownOrder[i]) <=>
          step \in {"requestShutdown", "closeInput", "joinProducer", "joinPool", "closeOutput",
                    "joinLogger", "joinWatchdog"}
  BY <1>1, <1>2, <1>3
<1> QED BY <1>2, <1>7, <1>8, <1>9

-----------------------------------------------------------------------------
\* The types in parts, with what bounds the numbers.
FlagTypes == /\ shutdownRequested \in BOOLEAN /\ signalPending \in BOOLEAN
             /\ failing \in BOOLEAN /\ stall \in BOOLEAN

ThreadTypes ==
    /\ main \in {"startLogger", "startWatchdog", "startPool", "startProducer", "wait",
                 "requestShutdown", "closeInput", "joinProducer", "joinPool", "closeOutput",
                 "joinLogger", "joinWatchdog", "exited", "failed"}
    /\ producer \in Ended \cup {"top", "push", "record", "wait"}
    /\ worker \in [Workers -> Ended \cup {"pop", "process", "push", "readDrops", "setDrops"}]
    /\ logger \in Ended \cup {"pop", "write"}
    /\ watchdog \in Ended \cup {"wait", "scan", "report"}

QueueTypes ==
    /\ inputQueue \in [items : Seq(Records), closed : BOOLEAN]
    /\ outputQueue \in [items : Seq(Records), closed : BOOLEAN, dropped : Nat]
    /\ Len(inputQueue.items) <= InputCapacity /\ Len(outputQueue.items) <= OutputCapacity

DataTypes ==
    /\ hand \in [Workers -> Nat] /\ record \in Records /\ next \in Nat
    /\ running \in SUBSET Heartbeats /\ faults \in 0..MaxFaults
    /\ metrics \in [produced : Nat, processed : Nat, logDrops : Nat, stalls : Nat, exceptions : Nat]
    /\ history \in [pushed : Nat, written : SUBSET Records, evicted : SUBSET Records,
                    rejected : SUBSET Records]

\* Signals are numbered up to pushed, in the input queue and in the hands of the
\* workers, and the bounds on signals and stalls are kept.
Numbers ==
    /\ history.pushed <= MaxSignals + 1 /\ metrics.stalls <= MaxStalls
    /\ producer \in {"top", "push"} => history.pushed <= MaxSignals
    /\ producer = "none" => history.pushed = 0
    /\ main \in {"startLogger", "startWatchdog", "startPool", "startProducer"} => producer = "none"
    /\ \A i \in 1..Len(inputQueue.items) : inputQueue.items[i] \in 1..history.pushed
    /\ \A w \in Workers : worker[w] \in {"process", "push"} => hand[w] \in 1..history.pushed

TypeInv == FlagTypes /\ ThreadTypes /\ QueueTypes /\ DataTypes /\ Numbers

\* Together they are TypeOK.
LEMMA TypeParts == TypeInv => TypeOK
BY DEF TypeInv, TypeOK, FlagTypes, ThreadTypes, QueueTypes, DataTypes

\* The types hold initially.
LEMMA TypeInvInit == Init => TypeInv
<1> SUFFICES ASSUME Init PROVE TypeInv
  OBVIOUS
<1> USE ApplicationAssumption DEF Init
<1>1. FlagTypes
  BY DEF FlagTypes
<1>2. ThreadTypes
  BY DEF ThreadTypes, Ended
<1>3. QueueTypes
  BY DEF QueueTypes
<1>4. DataTypes
  BY DEF DataTypes, Records
<1>5. Numbers
  BY DEF Numbers
<1> QED BY <1>1, <1>2, <1>3, <1>4, <1>5 DEF TypeInv

\* Every step is one of these.
LEMMA NextCases ==
    ASSUME [Next]_vars
    PROVE  \/ Start \/ StartFails \/ EndWait \/ WaitFails \/ Shutdown \/ Signal
           \/ ProducerStep \/ (\E w \in Workers : WorkerStep(w)) \/ LoggerStep \/ WatchdogStep
           \/ Throw \/ UNCHANGED vars
BY DEF Next, MainStep, Terminated

\* The flags keep their type.
LEMMA FlagStep == ASSUME TypeInv, [Next]_vars PROVE FlagTypes'
<1> USE DEF TypeInv, FlagTypes, mainVars, watchdogVars
<1>1. CASE Start
  BY <1>1 DEF Start, StartLogger, StartWatchdog, StartWorker, StartProducer
<1>2. CASE StartFails \/ EndWait \/ WaitFails \/ Shutdown \/ Signal
  BY <1>2 DEF StartFails, EndWait, WaitFails, Shutdown, Signal
<1>3. CASE ProducerStep \/ LoggerStep \/ Throw
  BY <1>3 DEF ProducerStep, LoggerStep, Throw, Catch
<1>4. CASE \E w \in Workers : WorkerStep(w)
  BY <1>4 DEF WorkerStep
<1>5. CASE WatchdogStep
  BY <1>5 DEF WatchdogStep, WatchdogWait, WatchdogFind, WatchdogReport, WatchdogEnd, EscalateStall
<1>6. CASE UNCHANGED vars
  BY <1>6 DEF vars
<1> QED BY <1>1, <1>2, <1>3, <1>4, <1>5, <1>6, NextCases

\* Every thread is somewhere in its loop.
LEMMA ThreadStep == ASSUME TypeInv, [Next]_vars PROVE ThreadTypes'
<1> USE DEF TypeInv, ThreadTypes, Ended, mainVars, loggerVars, workerVars, watchdogVars
<1>1. CASE Start
  BY <1>1 DEF Start, StartLogger, StartWatchdog, StartWorker, StartProducer
<1>2. CASE StartFails \/ EndWait \/ WaitFails \/ Signal
  BY <1>2, ShutdownSteps DEF StartFails, EndWait, WaitFails, Signal
<1>3. CASE Shutdown
  BY <1>3, ShutdownSteps DEF Shutdown
<1>4. CASE ProducerStep
  BY <1>4 DEF ProducerStep, ProducerTop, ProducerPush, ProducerRecord, ProducerWait
<1>5. ASSUME NEW w \in Workers, WorkerStep(w) PROVE ThreadTypes'
  BY <1>5 DEF WorkerStep, WorkerPop, WorkerProcess, WorkerPush, WorkerReadDrops, WorkerSetDrops
<1>6. CASE LoggerStep
  BY <1>6 DEF LoggerStep, LoggerPop, LoggerWrite
<1>7. CASE WatchdogStep
  BY <1>7 DEF WatchdogStep, WatchdogWait, AfterScanWait, WatchdogFind, WatchdogReport, WatchdogEnd
<1>8. CASE Throw
  BY <1>8 DEF Throw
<1>9. CASE UNCHANGED vars
  BY <1>9 DEF vars
<1> QED BY <1>1, <1>2, <1>3, <1>4, <1>5, <1>6, <1>7, <1>8, <1>9, NextCases

\* What outputQueue_.push() does to the types, whatever it pushes.
LEMMA OutputPushTypes ==
    ASSUME TypeInv, NEW r \in Records, OutputPush(r)
    PROVE  /\ outputQueue' \in [items : Seq(Records), closed : BOOLEAN, dropped : Nat]
           /\ Len(outputQueue'.items) <= OutputCapacity
           /\ outputQueue'.closed = outputQueue.closed
           /\ history' \in [pushed : Nat, written : SUBSET Records, evicted : SUBSET Records,
                            rejected : SUBSET Records]
           /\ history'.pushed = history.pushed
<1> DEFINE Histories == [pushed : Nat, written : SUBSET Records, evicted : SUBSET Records,
                         rejected : SUBSET Records]
           Outputs == [items : Seq(Records), closed : BOOLEAN, dropped : Nat]
<1>1. /\ history \in Histories /\ outputQueue \in Outputs /\ OutputCapacity \in Nat \ {0}
      /\ Len(outputQueue.items) <= OutputCapacity
  BY ApplicationAssumption DEF TypeInv, QueueTypes, DataTypes
<1>2. CASE outputQueue.closed
  <2>1. outputQueue' = outputQueue /\ history' = [history EXCEPT !.rejected = @ \cup {r}]
    BY <1>2 DEF OutputPush
  <2>2. history.rejected \cup {r} \in SUBSET Records
    BY <1>1
  <2>3. history' \in Histories /\ history'.pushed = history.pushed
    BY <1>1, <2>1, <2>2
  <2> QED BY <1>1, <2>1, <2>3
<1>3. CASE ~outputQueue.closed /\ Evicts
  <2> DEFINE items == outputQueue.items
  <2>1. items \in Seq(Records) /\ items # <<>>
    BY <1>1, <1>3 DEF Evicts
  <2>2. /\ Head(items) \in Records /\ Append(Tail(items), r) \in Seq(Records)
        /\ Len(Append(Tail(items), r)) = Len(items)
    <3> HIDE DEF items
    <3> QED BY <2>1
  <2>3. /\ outputQueue' = [outputQueue EXCEPT !.items = Append(Tail(items), r), !.dropped = @ + 1]
        /\ history' = [history EXCEPT !.evicted = @ \cup {Head(items)}]
    BY <1>3 DEF OutputPush
  <2>4. history.evicted \cup {Head(items)} \in SUBSET Records
    BY <1>1, <2>2
  <2>5. history' \in Histories /\ history'.pushed = history.pushed
    BY <1>1, <2>3, <2>4
  <2>6. /\ outputQueue' \in Outputs /\ Len(outputQueue'.items) <= OutputCapacity
        /\ outputQueue'.closed = outputQueue.closed
    <3>1. Append(Tail(items), r) \in Seq(Records) /\ outputQueue.dropped + 1 \in Nat
      BY <1>1, <2>2
    <3> DEFINE kept == Append(Tail(items), r)
    <3>2. Len(kept) <= OutputCapacity
      BY <1>1, <2>2
    <3> HIDE DEF items, kept
    <3>3. kept \in Seq(Records) /\ outputQueue' = [outputQueue EXCEPT !.items = kept, !.dropped = @ + 1]
      BY <3>1, <2>3 DEF kept
    <3> QED BY <1>1, <3>1, <3>2, <3>3
  <2> QED BY <2>5, <2>6
<1>4. CASE ~outputQueue.closed /\ ~Evicts
  <2>1. /\ history' = history
        /\ outputQueue' = [outputQueue EXCEPT !.items = Append(@, r)]
    BY <1>4 DEF OutputPush
  <2>2. /\ Append(outputQueue.items, r) \in Seq(Records)
        /\ Len(Append(outputQueue.items, r)) <= OutputCapacity
    BY <1>1, <1>4 DEF Evicts
  <2> QED BY <1>1, <2>1, <2>2
<1> QED BY <1>2, <1>3, <1>4

\* What the threads push to the output queue are records.
LEMMA PushedRecords ==
    ASSUME TypeInv
    PROVE  /\ -metrics.stalls \in Records
           /\ \A w \in Workers : worker[w] = "push" => hand[w] \in Records
           /\ 1..history.pushed \subseteq Records
<1>1. /\ MaxStalls \in Nat /\ MaxSignals \in Nat
      /\ metrics.stalls \in Nat /\ metrics.stalls <= MaxStalls
      /\ history.pushed \in Nat /\ history.pushed <= MaxSignals + 1
  BY ApplicationAssumption DEF TypeInv, DataTypes, Numbers
<1>2. -metrics.stalls \in Records /\ 1..history.pushed \subseteq Records
  BY ONLY <1>1 DEF Records
<1>3. \A w \in Workers : worker[w] = "push" => hand[w] \in 1..history.pushed
  BY DEF TypeInv, Numbers
<1> QED BY ONLY <1>2, <1>3

\* The queues keep their types and stay within their capacities.
LEMMA QueueStep == ASSUME TypeInv, [Next]_vars PROVE QueueTypes'
<1> DEFINE Inputs == [items : Seq(Records), closed : BOOLEAN]
           Outputs == [items : Seq(Records), closed : BOOLEAN, dropped : Nat]
<1>q. /\ inputQueue \in Inputs /\ outputQueue \in Outputs
      /\ Len(inputQueue.items) <= InputCapacity /\ Len(outputQueue.items) <= OutputCapacity
  BY DEF TypeInv, QueueTypes
<1>1. CASE UNCHANGED <<inputQueue, outputQueue>>
  BY <1>1, <1>q DEF QueueTypes
<1>2. CASE Start \/ StartFails \/ EndWait \/ WaitFails \/ Signal \/ Throw
  BY <1>1, <1>2 DEF Start, StartFails, EndWait, WaitFails, Signal, Throw
<1>3. CASE Shutdown
  <2>1. /\ inputQueue' = [inputQueue EXCEPT !.closed = @ \/ main = "closeInput"]
        /\ outputQueue' = [outputQueue EXCEPT !.closed = @ \/ main = "closeOutput"]
    BY <1>3 DEF Shutdown
  <2> QED BY <1>q, <2>1 DEF QueueTypes
<1>4. CASE ProducerStep
  <2>1. outputQueue' = outputQueue
    BY <1>4 DEF ProducerStep
  <2>2. \/ inputQueue' = inputQueue
        \/ /\ Len(inputQueue.items) < InputCapacity
           /\ inputQueue' = [inputQueue EXCEPT !.items = Append(@, history.pushed + 1)]
           /\ history.pushed + 1 \in Records
    <3>1. CASE ProducerPush
      <4>1. /\ history.pushed \in Nat /\ history.pushed <= MaxSignals /\ MaxSignals \in Nat
            /\ MaxStalls \in Nat
        BY <3>1, ApplicationAssumption DEF ProducerPush, TypeInv, Numbers, DataTypes
      <4>2. history.pushed + 1 \in Records
        BY ONLY <4>1 DEF Records
      <4> QED BY <3>1, <4>2 DEF ProducerPush
    <3>2. CASE ProducerTop \/ ProducerRecord \/ ProducerWait
      BY <3>2 DEF ProducerTop, ProducerRecord, ProducerWait
    <3> QED BY <1>4, <3>1, <3>2 DEF ProducerStep
  <2>3. CASE Len(inputQueue.items) < InputCapacity /\ history.pushed + 1 \in Records
    <3> DEFINE items == Append(inputQueue.items, history.pushed + 1)
    <3>1. items \in Seq(Records) /\ Len(items) <= InputCapacity
      BY <1>q, <2>3, ApplicationAssumption
    <3> HIDE DEF items
    <3>2. inputQueue' = inputQueue \/ inputQueue' = [inputQueue EXCEPT !.items = items]
      BY <2>2 DEF items
    <3> QED BY <1>1, <1>q, <2>1, <3>1, <3>2 DEF QueueTypes
  <2> QED BY <1>1, <2>1, <2>2, <2>3
<1>5. ASSUME NEW w \in Workers, WorkerStep(w) PROVE QueueTypes'
  <2>1. CASE WorkerPop(w)
    <3>1. /\ outputQueue' = outputQueue
          /\ \/ inputQueue' = inputQueue
             \/ /\ inputQueue.items # <<>>
                /\ inputQueue' = [inputQueue EXCEPT !.items = Tail(@)]
      BY <2>1 DEF WorkerPop
    <3>2. inputQueue.items # <<>> => /\ Tail(inputQueue.items) \in Seq(Records)
                                     /\ Len(Tail(inputQueue.items)) <= InputCapacity
      BY <1>q, ApplicationAssumption
    <3> QED BY <1>1, <1>q, <3>1, <3>2 DEF QueueTypes
  <2>2. CASE WorkerPush(w)
    <3>1. OutputPush(hand[w]) /\ hand[w] \in Records /\ inputQueue' = inputQueue
      BY <2>2, PushedRecords DEF WorkerPush
    <3> QED BY <1>q, <3>1, OutputPushTypes DEF QueueTypes
  <2>3. CASE WorkerProcess(w) \/ WorkerReadDrops(w) \/ WorkerSetDrops(w)
    BY <1>1, <2>3 DEF WorkerProcess, WorkerReadDrops, WorkerSetDrops
  <2> QED BY <1>5, <2>1, <2>2, <2>3 DEF WorkerStep
<1>6. CASE LoggerStep
  <2>1. /\ inputQueue' = inputQueue
        /\ \/ outputQueue' = outputQueue
           \/ /\ outputQueue.items # <<>>
              /\ outputQueue' = [outputQueue EXCEPT !.items = Tail(@)]
    BY <1>6 DEF LoggerStep, LoggerPop, LoggerWrite
  <2>2. outputQueue.items # <<>> => /\ Tail(outputQueue.items) \in Seq(Records)
                                    /\ Len(Tail(outputQueue.items)) <= OutputCapacity
    BY <1>q, ApplicationAssumption
  <2> QED BY <1>1, <1>q, <2>1, <2>2 DEF QueueTypes
<1>7. CASE WatchdogStep
  <2>1. /\ inputQueue' = inputQueue
        /\ outputQueue' = outputQueue \/ OutputPush(-metrics.stalls)
    BY <1>7 DEF WatchdogStep, WatchdogWait, WatchdogFind, WatchdogReport, WatchdogEnd
  <2> QED BY <1>1, <1>q, <2>1, PushedRecords, OutputPushTypes DEF QueueTypes
<1>8. CASE UNCHANGED vars
  BY <1>1, <1>8 DEF vars
<1> QED BY <1>2, <1>3, <1>4, <1>5, <1>6, <1>7, <1>8, NextCases

\* The front of the input queue is a signal.
LEMMA FrontIsSignal ==
    ASSUME TypeInv, inputQueue.items # <<>>
    PROVE  Head(inputQueue.items) \in 1..history.pushed /\ Head(inputQueue.items) \in Nat
<1> DEFINE items == inputQueue.items
<1>1. /\ items \in Seq(Records) /\ history.pushed \in Nat
      /\ \A i \in 1..Len(items) : items[i] \in 1..history.pushed
  BY DEF TypeInv, QueueTypes, DataTypes, Numbers
<1>2. Head(items) = items[1] /\ 1 \in 1..Len(items)
  <2> HIDE DEF items
  <2>1. items # <<>>
    BY DEF items
  <2> QED BY <1>1, <2>1
<1> QED BY <1>1, <1>2

\* Counting an event keeps the counters' types.
LEMMA RecordTypes ==
    ASSUME TypeInv, NEW c \in {"produced", "processed", "stalls", "exceptions"}, Record(c)
    PROVE  /\ metrics' \in [produced : Nat, processed : Nat, logDrops : Nat, stalls : Nat,
                            exceptions : Nat]
           /\ metrics'[c] = metrics[c] + 1
           /\ \A d \in {"produced", "processed", "stalls", "exceptions"} \ {c} :
                 metrics'[d] = metrics[d]
BY DEF TypeInv, DataTypes, Record

\* The items the threads hold, the counters and the histories keep their types.
LEMMA DataStep == ASSUME TypeInv, [Next]_vars PROVE DataTypes'
<1> USE ApplicationAssumption DEF TypeInv, DataTypes, loggerVars, workerVars, watchdogVars
<1>1. CASE Start
  BY <1>1 DEF Start, StartLogger, StartWatchdog, StartWorker, StartProducer
<1>2. CASE StartFails \/ EndWait \/ WaitFails \/ Shutdown \/ Signal
  BY <1>2 DEF StartFails, EndWait, WaitFails, Shutdown, Signal
<1>3. CASE ProducerStep
  <2>0. UNCHANGED <<hand, record, next, faults>>
    BY <1>3 DEF ProducerStep
  <2>1. CASE ProducerTop \/ ProducerWait
    <3>1. ProducerBeat \in Heartbeats
      BY DEF Heartbeats, ProducerBeat, LoggerBeat
    <3>2. running' \in SUBSET Heartbeats /\ UNCHANGED <<metrics, history>>
      BY <2>1, <3>1 DEF ProducerTop, ProducerWait
    <3> QED BY <2>0, <3>2
  <2>2. CASE ProducerPush
    <3>1. /\ UNCHANGED <<running, metrics>>
          /\ history' = history \/ history' = [history EXCEPT !.pushed = @ + 1]
      BY <2>2 DEF ProducerPush
    <3> QED BY <2>0, <3>1
  <2>3. CASE ProducerRecord
    <3>1. /\ Record("produced") /\ running' \subseteq running /\ UNCHANGED history
      BY <2>3 DEF ProducerRecord
    <3> QED BY <2>0, <3>1, RecordTypes
  <2> QED BY <1>3, <2>1, <2>2, <2>3 DEF ProducerStep
<1>4. ASSUME NEW w \in Workers, WorkerStep(w) PROVE DataTypes'
  <2>0. UNCHANGED <<record, next, faults>>
    BY <1>4 DEF WorkerStep
  <2>1. CASE WorkerPop(w)
    <3>1. inputQueue.items # <<>> => Head(inputQueue.items) \in Nat
      BY FrontIsSignal
    <3>2. w \in Heartbeats
      BY DEF Workers, Heartbeats, ProducerBeat, LoggerBeat
    <3>3. hand' \in [Workers -> Nat]
      BY <2>1, <3>1 DEF WorkerPop
    <3>4. running' \in SUBSET Heartbeats /\ UNCHANGED <<metrics, history>>
      BY <2>1, <3>2 DEF WorkerPop
    <3> QED BY <2>0, <3>3, <3>4
  <2>2. CASE WorkerProcess(w)
    BY <2>0, <2>2, RecordTypes DEF WorkerProcess
  <2>3. CASE WorkerPush(w)
    <3>1. OutputPush(hand[w]) /\ hand[w] \in Records /\ UNCHANGED <<hand, running, metrics>>
      BY <2>3, PushedRecords DEF WorkerPush
    <3>2. history' \in [pushed : Nat, written : SUBSET Records, evicted : SUBSET Records,
                        rejected : SUBSET Records]
      BY <3>1, OutputPushTypes
    <3> QED BY <2>0, <3>1, <3>2
  <2>4. CASE WorkerReadDrops(w)
    <3>1. outputQueue.dropped \in Nat
      BY DEF QueueTypes
    <3> QED BY <2>0, <2>4, <3>1 DEF WorkerReadDrops
  <2>5. CASE WorkerSetDrops(w)
    BY <2>0, <2>5 DEF WorkerSetDrops, SetLogDrops
  <2> QED BY <1>4, <2>1, <2>2, <2>3, <2>4, <2>5 DEF WorkerStep
<1>5. CASE LoggerStep
  <2>1. UNCHANGED <<hand, next, faults, metrics>>
    BY <1>5 DEF LoggerStep
  <2>2. CASE LoggerPop
    <3>1. outputQueue.items # <<>> => Head(outputQueue.items) \in Records
      <4> DEFINE items == outputQueue.items
      <4>1. items \in Seq(Records)
        BY DEF QueueTypes
      <4> HIDE DEF items
      <4>2. items # <<>> => Head(items) \in Records
        BY ONLY <4>1
      <4> QED BY ONLY <4>2 DEF items
    <3>2. LoggerBeat \in Heartbeats
      BY DEF Heartbeats, ProducerBeat, LoggerBeat
    <3> QED BY <2>1, <2>2, <3>1, <3>2 DEF LoggerPop
  <2>3. CASE LoggerWrite
    <3>1. record' \in Records /\ running' \in SUBSET Heartbeats
      BY <2>3 DEF LoggerWrite, Records
    <3>2. /\ history' = [history EXCEPT !.written = @ \cup {record}]
          /\ history.written \cup {record} \in SUBSET Records
      BY <2>3 DEF LoggerWrite
    <3> QED BY <2>1, <3>1, <3>2
  <2> QED BY <1>5, <2>2, <2>3 DEF LoggerStep
<1>6. CASE WatchdogStep
  <2>1. UNCHANGED <<hand, record, running, faults>>
    BY <1>6 DEF WatchdogStep
  <2>2. CASE WatchdogWait \/ WatchdogEnd
    BY <2>1, <2>2 DEF WatchdogWait, WatchdogEnd
  <2>3. CASE WatchdogFind
    <3>1. Record("stalls") /\ next' \in Nat /\ UNCHANGED history
      BY <2>3 DEF WatchdogFind, Heartbeats, ProducerBeat, LoggerBeat
    <3> QED BY <2>1, <3>1, RecordTypes
  <2>4. CASE WatchdogReport
    <3>1. OutputPush(-metrics.stalls) /\ -metrics.stalls \in Records /\ UNCHANGED <<next, metrics>>
      BY <2>4, PushedRecords DEF WatchdogReport
    <3>2. history' \in [pushed : Nat, written : SUBSET Records, evicted : SUBSET Records,
                        rejected : SUBSET Records]
      BY <3>1, OutputPushTypes
    <3> QED BY <2>1, <3>1, <3>2
  <2> QED BY <1>6, <2>2, <2>3, <2>4 DEF WatchdogStep
<1>7. CASE Throw
  <2>1. Record("exceptions") /\ UNCHANGED <<hand, record, next, running, history>>
    BY <1>7 DEF Throw, Catch
  <2>2. faults' \in 0..MaxFaults
    BY <1>7 DEF Throw
  <2> QED BY <2>1, <2>2, RecordTypes
<1>8. CASE UNCHANGED vars
  BY <1>8 DEF vars
<1> QED BY <1>1, <1>2, <1>3, <1>4, <1>5, <1>6, <1>7, <1>8, NextCases

\* The statements main goes through before and after the start of the threads.
LEMMA ShutdownAdvances ==
    ASSUME StartFails \/ EndWait \/ WaitFails \/ Shutdown
    PROVE  /\ main' \notin {"startLogger", "startWatchdog", "startPool", "startProducer"}
           /\ UNCHANGED <<producer, worker, hand, logger, record, watchdog, metrics, history>>
BY ShutdownSteps DEF StartFails, EndWait, WaitFails, Shutdown, workerVars, loggerVars, watchdogVars

\* What a step of the producer does to the input queue and the number of signals.
LEMMA ProducerEffect ==
    ASSUME TypeInv, ProducerStep
    PROVE  /\ producer \notin Ended /\ producer' # "none"
           /\ UNCHANGED <<main, failing, worker, hand, logger, record, watchdog, outputQueue,
                          shutdownRequested, faults>>
           /\ inputQueue'.closed = inputQueue.closed
           /\ \/ /\ UNCHANGED <<inputQueue, history>>
                 /\ producer' \in {"top", "push"} => history.pushed <= MaxSignals
                 /\ producer' # "record"
                 /\ IF producer = "record" THEN Record("produced") ELSE UNCHANGED metrics
              \/ /\ producer = "push" /\ producer' = "record" /\ ~inputQueue.closed
                 /\ Len(inputQueue.items) < InputCapacity
                 /\ inputQueue'.items = Append(inputQueue.items, history.pushed + 1)
                 /\ history' = [history EXCEPT !.pushed = history.pushed + 1]
                 /\ UNCHANGED metrics
<1>0. /\ UNCHANGED <<main, failing, worker, hand, logger, record, watchdog, outputQueue,
                    shutdownRequested, faults>>
      /\ producer \notin Ended
  BY DEF ProducerStep, ProducerTop, ProducerPush, ProducerRecord, ProducerWait, mainVars,
         workerVars, loggerVars, watchdogVars, Ended
<1>1. CASE ProducerTop
  BY <1>0, <1>1 DEF ProducerTop, TypeInv, Numbers
<1>2. CASE ProducerPush
  <2>1. inputQueue \in [items : Seq(Records), closed : BOOLEAN]
    BY DEF TypeInv, QueueTypes
  <2> QED BY <1>0, <1>2, <2>1 DEF ProducerPush
<1>3. CASE ProducerRecord
  <2>1. MaxSignals \in Nat /\ history.pushed \in Nat
    BY ApplicationAssumption DEF TypeInv, DataTypes
  <2> QED BY <1>0, <1>3, <2>1 DEF ProducerRecord
<1>4. CASE ProducerWait
  <2>1. MaxSignals \in Nat /\ history.pushed \in Nat
    BY ApplicationAssumption DEF TypeInv, DataTypes
  <2> QED BY <1>0, <1>4, <2>1 DEF ProducerWait
<1> QED BY <1>1, <1>2, <1>3, <1>4 DEF ProducerStep

\* The numbers keep their bounds.
LEMMA NumberStep == ASSUME TypeInv, [Next]_vars PROVE Numbers'
<1> DEFINE n == history.pushed
<1>t. /\ n \in Nat /\ MaxSignals \in Nat /\ MaxStalls \in Nat /\ metrics.stalls \in Nat
      /\ worker \in [Workers -> Ended \cup {"pop", "process", "push", "readDrops", "setDrops"}]
      /\ hand \in [Workers -> Nat]
  BY ApplicationAssumption DEF TypeInv, DataTypes, ThreadTypes
<1>n. Numbers
  BY DEF TypeInv
<1>1. CASE Start
  <2>1. UNCHANGED <<inputQueue, metrics, history, hand>>
    BY <1>1 DEF Start, StartLogger, StartWatchdog, StartWorker, StartProducer, workerVars
  <2>2. /\ \A w \in Workers : worker'[w] \in {worker[w], "pop"}
        /\ \/ producer' = producer /\ main \in {"startLogger", "startWatchdog", "startPool"}
           \/ producer = "none" /\ producer' = "top" /\ main' = "wait"
    BY <1>1, <1>t, <1>n DEF Start, StartLogger, StartWatchdog, StartWorker, StartProducer, workerVars,
                      Numbers
  <2> QED BY <1>t, <1>n, <2>1, <2>2 DEF Numbers
<1>2. CASE StartFails \/ EndWait \/ WaitFails
  BY <1>n, <1>2, ShutdownAdvances DEF Numbers, StartFails, EndWait, WaitFails
<1>3. CASE Shutdown
  <2>1. inputQueue'.items = inputQueue.items
    BY <1>3 DEF Shutdown, TypeInv, QueueTypes
  <2> QED BY <1>n, <1>3, <2>1, ShutdownAdvances DEF Numbers
<1>4. CASE Signal
  BY <1>n, <1>4 DEF Signal, Numbers, mainVars, workerVars
<1>5. CASE ProducerStep
  <2>1. UNCHANGED <<main, worker, hand>> /\ producer # "none" /\ producer' # "none"
    BY <1>5, ProducerEffect DEF Ended
  <2>2. metrics'.stalls = metrics.stalls
    BY <1>5, ProducerEffect, RecordTypes
  <2>3. CASE /\ UNCHANGED <<inputQueue, history>>
             /\ producer' \in {"top", "push"} => history.pushed <= MaxSignals
    BY <1>n, <2>1, <2>2, <2>3 DEF Numbers
  <2>4. CASE /\ producer = "push" /\ producer' = "record"
             /\ inputQueue'.items = Append(inputQueue.items, n + 1)
             /\ history' = [history EXCEPT !.pushed = n + 1]
    <3>1. history'.pushed = n + 1 /\ n <= MaxSignals
      BY <1>n, <2>4 DEF TypeInv, DataTypes, Numbers
    <3>2. inputQueue.items \in Seq(Records) /\ n + 1 \in Records
      BY <1>t, <3>1 DEF TypeInv, QueueTypes, Records
    <3>3. /\ Len(inputQueue'.items) = Len(inputQueue.items) + 1 /\ Len(inputQueue.items) \in Nat
          /\ \A i \in 1..Len(inputQueue.items) : inputQueue'.items[i] = inputQueue.items[i]
          /\ inputQueue'.items[Len(inputQueue.items) + 1] = n + 1
      BY <2>4, <3>2
    <3>4. \A i \in 1..Len(inputQueue'.items) : inputQueue'.items[i] \in 1..(n + 1)
      <4>1. \A i \in 1..Len(inputQueue.items) : inputQueue.items[i] \in 1..n
        BY <1>n DEF Numbers
      <4>2. n \in Nat
        BY <1>t
      <4> HIDE DEF n
      <4>3. \A i \in 1..(Len(inputQueue.items) + 1) :
                i \in 1..Len(inputQueue.items) \/ i = Len(inputQueue.items) + 1
        BY <3>3
      <4>4. \A x \in 1..n : x \in 1..(n + 1)
        BY <4>2
      <4>5. n + 1 \in 1..(n + 1)
        BY <4>2
      <4>6. \A i \in 1..Len(inputQueue.items) : inputQueue'.items[i] \in 1..(n + 1)
        BY ONLY <3>3, <4>1, <4>4
      <4>7. inputQueue'.items[Len(inputQueue.items) + 1] \in 1..(n + 1)
        BY ONLY <3>3, <4>5 DEF n
      <4> QED BY ONLY <3>3, <4>3, <4>6, <4>7
    <3>5. \A w \in Workers : worker'[w] \in {"process", "push"} => hand'[w] \in 1..(n + 1)
      BY <1>n, <1>t, <2>1 DEF Numbers
    <3>6. history'.pushed <= MaxSignals + 1 /\ metrics'.stalls <= MaxStalls
      BY <1>n, <1>t, <2>1, <2>2, <2>4, <3>1 DEF Numbers
    <3>7. /\ producer' \notin {"top", "push", "none"}
          /\ main' \notin {"startLogger", "startWatchdog", "startPool", "startProducer"}
      BY <1>n, <2>1, <2>4 DEF Numbers
    <3> QED BY ONLY <3>1, <3>4, <3>5, <3>6, <3>7 DEF Numbers
  <2> QED BY <1>5, <2>3, <2>4, ProducerEffect
<1>6. ASSUME NEW w \in Workers, WorkerStep(w) PROVE Numbers'
  <2>0. UNCHANGED <<main, producer>>
    BY <1>6 DEF WorkerStep, mainVars
  <2>1. CASE WorkerPop(w)
    <3>1. UNCHANGED <<metrics, history>>
      BY <2>1 DEF WorkerPop
    <3>2. inputQueue \in [items : Seq(Records), closed : BOOLEAN]
      BY DEF TypeInv, QueueTypes
    <3>3. \A i \in 1..Len(inputQueue'.items) : inputQueue'.items[i] \in 1..n
      <4>1. CASE inputQueue' = inputQueue
        BY <1>n, <4>1 DEF Numbers
      <4>2. CASE inputQueue.items # <<>> /\ inputQueue' = [inputQueue EXCEPT !.items = Tail(@)]
        <5> DEFINE items == inputQueue.items
        <5>1. /\ items \in Seq(Records) /\ items # <<>>
              /\ \A i \in 1..Len(items) : items[i] \in 1..n
          BY <1>n, <3>2, <4>2 DEF Numbers
        <5>2. \A i \in 1..Len(Tail(items)) : i + 1 \in 1..Len(items) /\ Tail(items)[i] = items[i + 1]
          <6> HIDE DEF items
          <6> QED BY <5>1
        <5> QED BY <3>2, <4>2, <5>1, <5>2
      <4> QED BY <2>1, <4>1, <4>2 DEF WorkerPop
    <3>4. \A v \in Workers : worker'[v] \in {"process", "push"} => hand'[v] \in 1..n
      BY <1>n, <1>t, <2>1, FrontIsSignal DEF WorkerPop, Numbers, Ended
    <3> QED BY <1>n, <2>0, <3>1, <3>3, <3>4 DEF Numbers
  <2>2. CASE WorkerProcess(w)
    <3>1. metrics'.stalls = metrics.stalls
      BY <2>2, RecordTypes DEF WorkerProcess
    <3> QED BY <1>n, <1>t, <2>0, <2>2, <3>1 DEF WorkerProcess, Numbers
  <2>3. CASE WorkerPush(w)
    <3>1. history'.pushed = n
      BY <2>3, PushedRecords, OutputPushTypes DEF WorkerPush
    <3> QED BY <1>n, <1>t, <2>0, <2>3, <3>1 DEF WorkerPush, Numbers
  <2>4. CASE WorkerReadDrops(w)
    BY <1>n, <1>t, <2>0, <2>4 DEF WorkerReadDrops, Numbers
  <2>5. CASE WorkerSetDrops(w)
    <3>1. metrics'.stalls = metrics.stalls
      BY <2>5 DEF WorkerSetDrops, SetLogDrops, TypeInv, DataTypes
    <3> QED BY <1>n, <1>t, <2>0, <2>5, <3>1 DEF WorkerSetDrops, Numbers
  <2> QED BY <1>6, <2>1, <2>2, <2>3, <2>4, <2>5 DEF WorkerStep
<1>7. CASE LoggerStep
  <2>1. /\ UNCHANGED <<main, producer, worker, hand, inputQueue, metrics>>
        /\ history'.pushed = n
    BY <1>7 DEF LoggerStep, LoggerPop, LoggerWrite, mainVars, workerVars, TypeInv, DataTypes
  <2> QED BY <1>n, <2>1 DEF Numbers
<1>8. CASE WatchdogStep
  <2>1. UNCHANGED <<main, producer, worker, hand, inputQueue>>
    BY <1>8 DEF WatchdogStep, mainVars, workerVars
  <2>2. CASE WatchdogFind
    <3>1. metrics'.stalls <= MaxStalls /\ UNCHANGED history
      BY <1>t, <2>2, RecordTypes DEF WatchdogFind
    <3> QED BY <1>n, <2>1, <3>1 DEF Numbers
  <2>3. CASE WatchdogReport
    <3>1. history'.pushed = n /\ UNCHANGED metrics
      BY <2>3, PushedRecords, OutputPushTypes DEF WatchdogReport
    <3> QED BY <1>n, <2>1, <3>1 DEF Numbers
  <2>4. CASE WatchdogWait \/ WatchdogEnd
    BY <1>n, <2>1, <2>4 DEF Numbers, WatchdogWait, WatchdogEnd
  <2> QED BY <1>8, <2>2, <2>3, <2>4 DEF WatchdogStep
<1>9. CASE Throw
  <2>1. /\ UNCHANGED <<main, hand, inputQueue, history>> /\ producer' \in {producer, "died"}
        /\ producer = "none" => producer' = "none"
        /\ \A w \in Workers : worker'[w] \in {worker[w], "died"}
    BY <1>9, <1>t DEF Throw, mainVars, Ended
  <2>2. metrics'.stalls = metrics.stalls
    BY <1>9, RecordTypes DEF Throw, Catch
  <2> QED BY <1>n, <2>1, <2>2 DEF Numbers
<1>10. CASE UNCHANGED vars
  BY <1>n, <1>10 DEF vars, mainVars, workerVars, Numbers
<1> QED BY <1>1, <1>2, <1>3, <1>4, <1>5, <1>6, <1>7, <1>8, <1>9, <1>10, NextCases

\* The types hold throughout, with the bounds that the numbers keep.
LEMMA TypeInvariant == Spec => []TypeInv
<1>1. TypeInv /\ [Next]_vars => TypeInv'
  BY FlagStep, ThreadStep, QueueStep, DataStep, NumberStep DEF TypeInv
<1> QED BY <1>1, TypeInvInit, PTL DEF Spec

\* Type correctness: every variable of the pipeline keeps its type and both
\* queues stay within their capacities.
THEOREM ApplicationTypes == Spec => []TypeOK
BY TypeInvariant, TypeParts, PTL

-----------------------------------------------------------------------------
\* What is past when main has come to a statement of shutdown(): the queues it
\* closed and the threads it joined.  Only stall records are ever rejected.
OrderInv ==
    /\ inputQueue.closed <=> main \in {"joinProducer", "joinPool", "closeOutput", "joinLogger",
                                       "joinWatchdog", "exited", "failed"}
    /\ outputQueue.closed <=> main \in {"joinLogger", "joinWatchdog", "exited", "failed"}
    /\ main \in {"joinPool", "closeOutput", "joinLogger", "joinWatchdog", "exited", "failed"} =>
           producer \in Ended
    /\ main \in {"closeOutput", "joinLogger", "joinWatchdog", "exited", "failed"} =>
           \A w \in Workers : worker[w] \in Ended
    /\ main \in {"joinWatchdog", "exited", "failed"} => logger \in Ended
    /\ main \in {"exited", "failed"} => watchdog \in Ended
    /\ \A r \in history.rejected : r <= 0

\* The steps of threads other than main leave main and the closing of the queues
\* alone, and a thread that ended stays so.
LEMMA OthersKeepOrder ==
    ASSUME TypeInv,
           \/ ProducerStep \/ (\E w \in Workers : WorkerStep(w)) \/ LoggerStep \/ WatchdogStep
           \/ Throw \/ Signal
    PROVE  /\ UNCHANGED <<main, failing>>
           /\ inputQueue'.closed = inputQueue.closed /\ outputQueue'.closed = outputQueue.closed
           /\ producer \in Ended => producer' \in Ended
           /\ \A w \in Workers : worker[w] \in Ended => worker'[w] \in Ended
           /\ logger \in Ended => logger' \in Ended
           /\ watchdog \in Ended => watchdog' \in Ended
<1>t. /\ inputQueue \in [items : Seq(Records), closed : BOOLEAN]
      /\ outputQueue \in [items : Seq(Records), closed : BOOLEAN, dropped : Nat]
      /\ worker \in [Workers -> Ended \cup {"pop", "process", "push", "readDrops", "setDrops"}]
  BY DEF TypeInv, QueueTypes, ThreadTypes
<1>1. CASE ProducerStep
  BY <1>1, ProducerEffect
<1>2. ASSUME NEW v \in Workers, WorkerStep(v)
      PROVE  /\ UNCHANGED <<main, failing, producer, logger, watchdog>>
             /\ inputQueue'.closed = inputQueue.closed /\ outputQueue'.closed = outputQueue.closed
             /\ \A w \in Workers : worker[w] \in Ended => worker'[w] \in Ended
  <2>1. UNCHANGED <<main, failing, producer, logger, watchdog>>
    BY <1>2 DEF WorkerStep, mainVars, loggerVars, watchdogVars
  <2>2. inputQueue'.closed = inputQueue.closed
    BY <1>2, <1>t DEF WorkerStep, WorkerPop, WorkerProcess, WorkerPush, WorkerReadDrops, WorkerSetDrops
  <2>3. outputQueue'.closed = outputQueue.closed
    <3>1. outputQueue' = outputQueue \/ (OutputPush(hand[v]) /\ worker[v] = "push")
      BY <1>2 DEF WorkerStep, WorkerPop, WorkerProcess, WorkerPush, WorkerReadDrops, WorkerSetDrops
    <3> QED BY <3>1, PushedRecords, OutputPushTypes
  <2>4. \A w \in Workers : worker[w] \in Ended => worker'[w] \in Ended
    BY <1>2, <1>t DEF WorkerStep, WorkerPop, WorkerProcess, WorkerPush, WorkerReadDrops,
                      WorkerSetDrops, Ended
  <2> QED BY <2>1, <2>2, <2>3, <2>4
<1>3. CASE LoggerStep
  <2>1. UNCHANGED <<main, failing, producer, worker, watchdog, inputQueue>> /\ logger \notin Ended
    BY <1>3 DEF LoggerStep, LoggerPop, LoggerWrite, mainVars, workerVars, watchdogVars, Ended
  <2>2. outputQueue'.closed = outputQueue.closed
    BY <1>3, <1>t DEF LoggerStep, LoggerPop, LoggerWrite
  <2> QED BY <2>1, <2>2
<1>4. CASE WatchdogStep
  <2>1. UNCHANGED <<main, failing, producer, worker, logger, inputQueue>> /\ watchdog \notin Ended
    BY <1>4 DEF WatchdogStep, WatchdogWait, WatchdogFind, WatchdogReport, WatchdogEnd, mainVars,
                workerVars, loggerVars, Ended
  <2>2. outputQueue' = outputQueue \/ OutputPush(-metrics.stalls)
    BY <1>4 DEF WatchdogStep, WatchdogWait, WatchdogFind, WatchdogReport, WatchdogEnd
  <2> QED BY <2>1, <2>2, PushedRecords, OutputPushTypes
<1>5. CASE Throw
  BY <1>5, <1>t DEF Throw, mainVars, Ended
<1>6. CASE Signal
  BY <1>6 DEF Signal, mainVars, workerVars, loggerVars, watchdogVars
<1> QED BY <1>1, <1>2, <1>3, <1>4, <1>5, <1>6

\* A record that is rejected is a stall's.
LEMMA RejectedStep ==
    ASSUME TypeInv, OrderInv, [Next]_vars
    PROVE  \A r \in history'.rejected : r <= 0
<1>h. /\ history \in [pushed : Nat, written : SUBSET Records, evicted : SUBSET Records,
                      rejected : SUBSET Records]
      /\ metrics.stalls \in Nat
  BY DEF TypeInv, DataTypes
<1>1. CASE history'.rejected = history.rejected
  BY <1>1 DEF OrderInv
<1>2. CASE Start \/ StartFails \/ EndWait \/ WaitFails \/ Shutdown \/ Signal \/ Throw \/ UNCHANGED vars
  BY <1>1, <1>2 DEF Start, StartFails, EndWait, WaitFails, Shutdown, Signal, Throw, vars
<1>3. CASE ProducerStep
  <2>1. history' = history \/ history' = [history EXCEPT !.pushed = history.pushed + 1]
    BY <1>3, ProducerEffect
  <2> QED BY <1>h, <1>1, <2>1
<1>4. ASSUME NEW w \in Workers, WorkerStep(w) PROVE history'.rejected = history.rejected
  <2>1. CASE WorkerPush(w)
    <3>1. ~outputQueue.closed
      BY <2>1 DEF WorkerPush, OrderInv, Ended
    <3> QED BY <1>h, <2>1, <3>1 DEF WorkerPush, OutputPush
  <2> QED BY <1>4, <2>1 DEF WorkerStep, WorkerPop, WorkerProcess, WorkerReadDrops, WorkerSetDrops
<1>5. CASE LoggerStep
  BY <1>h, <1>1, <1>5 DEF LoggerStep, LoggerPop, LoggerWrite
<1>6. CASE WatchdogStep
  <2>1. history' = history \/ OutputPush(-metrics.stalls)
    BY <1>6 DEF WatchdogStep, WatchdogWait, WatchdogFind, WatchdogReport, WatchdogEnd
  <2>2. history'.rejected \in {history.rejected, history.rejected \cup {-metrics.stalls}}
    BY <1>h, <2>1 DEF OutputPush
  <2>3. -metrics.stalls <= 0
    BY <1>h
  <2> QED BY <2>2, <2>3 DEF OrderInv
<1> QED BY <1>1, <1>2, <1>3, <1>4, <1>5, <1>6, NextCases

\* Every step preserves OrderInv.
LEMMA OrderStep == TypeInv /\ OrderInv /\ [Next]_vars => OrderInv'
<1> SUFFICES ASSUME TypeInv, OrderInv, [Next]_vars PROVE OrderInv'
  OBVIOUS
<1>r. \A r \in history'.rejected : r <= 0
  BY RejectedStep
<1>t. /\ inputQueue \in [items : Seq(Records), closed : BOOLEAN]
      /\ outputQueue \in [items : Seq(Records), closed : BOOLEAN, dropped : Nat]
  BY DEF TypeInv, QueueTypes
<1>1. CASE Start \/ StartFails \/ EndWait \/ WaitFails
  <2>1. UNCHANGED <<inputQueue, outputQueue>>
    BY <1>1 DEF Start, StartFails, EndWait, WaitFails
  <2>2. /\ main \in {"startLogger", "startWatchdog", "startPool", "startProducer", "wait"}
        /\ main' \in {"startWatchdog", "startPool", "startProducer", "wait", "requestShutdown"}
    BY <1>1, ShutdownSteps DEF Start, StartLogger, StartWatchdog, StartWorker, StartProducer,
                               StartFails, EndWait, WaitFails
  <2> QED BY <1>r, <2>1, <2>2 DEF OrderInv
<1>2. CASE Shutdown
  <2>1. /\ UNCHANGED <<producer, worker, logger, watchdog>> /\ Joined(main)
        /\ main' = AfterShutdownStep(main)
        /\ main \in {"requestShutdown", "closeInput", "joinProducer", "joinPool", "closeOutput",
                     "joinLogger", "joinWatchdog"}
    BY <1>2, ShutdownSteps DEF Shutdown, workerVars, loggerVars, watchdogVars
  <2>2. /\ inputQueue'.closed <=> (inputQueue.closed \/ main = "closeInput")
        /\ outputQueue'.closed <=> (outputQueue.closed \/ main = "closeOutput")
    BY <1>2, <1>t DEF Shutdown
  <2> QED BY <1>r, <2>1, <2>2, ShutdownSteps DEF OrderInv, Joined
<1>3. CASE \/ ProducerStep \/ (\E w \in Workers : WorkerStep(w)) \/ LoggerStep \/ WatchdogStep
           \/ Throw \/ Signal
  BY <1>r, <1>3, OthersKeepOrder DEF OrderInv
<1>4. CASE UNCHANGED vars
  BY <1>4 DEF vars, mainVars, workerVars, loggerVars, watchdogVars, OrderInv
<1> QED BY <1>1, <1>2, <1>3, <1>4, NextCases

\* The order of the drain holds throughout.
LEMMA OrderInvariant == Spec => []OrderInv
<1>1. Init => OrderInv
  BY DEF Init, OrderInv, Ended
<1> QED BY <1>1, OrderStep, TypeInvariant, PTL DEF Spec

\* run() ends only when all its threads have: each join precedes the end.
THEOREM NoThreadOutlivesHolds == Spec => []NoThreadOutlivesRun
<1>1. OrderInv => NoThreadOutlivesRun
  BY DEF OrderInv, NoThreadOutlivesRun, Exited
<1> QED BY <1>1, OrderInvariant, PTL

\* The output queue is closed when no worker is left to push to it, so no
\* signal's record is refused.
THEOREM NeverRejectedHolds == Spec => []DspRecordsNeverRejected
<1>1. TypeInv /\ OrderInv => DspRecordsNeverRejected
  BY DEF TypeInv, DataTypes, OrderInv, DspRecordsNeverRejected
<1> QED BY <1>1, TypeInvariant, OrderInvariant, PTL

-----------------------------------------------------------------------------
\* The workers with an unprocessed signal in their hands.
Processing == {w \in Workers : worker[w] = "process"}

\* A signal pushed is queued, in the hands of a worker or processed, except for
\* one per exception; and a worker that left its loop left the queue empty.
Lost == history.pushed - metrics.processed - Len(inputQueue.items) - Cardinality(Processing)

LossInv ==
    /\ Lost \in 0..metrics.exceptions
    /\ \A w \in Workers : worker[w] = "done" => inputQueue.closed /\ inputQueue.items = <<>>

\* The numbers Lost is made of.
LEMMA LostNumbers ==
    ASSUME TypeInv
    PROVE  /\ IsFiniteSet(Processing) /\ Cardinality(Processing) \in Nat
           /\ history.pushed \in Nat /\ metrics.processed \in Nat /\ metrics.exceptions \in Nat
           /\ Len(inputQueue.items) \in Nat
<1>1. IsFiniteSet(Workers)
  BY FS_Interval, ApplicationAssumption DEF Workers
<1>2. IsFiniteSet(Processing)
  BY <1>1, FS_Subset DEF Processing
<1> QED BY <1>2, FS_CardinalityType DEF TypeInv, DataTypes, QueueTypes

\* Lost and what it is made of, as integers.
LEMMA LostIs ==
    ASSUME TypeInv
    PROVE  /\ Lost = history.pushed - metrics.processed - Len(inputQueue.items)
                    - Cardinality(Processing)
           /\ history.pushed \in Int /\ metrics.processed \in Int
           /\ Len(inputQueue.items) \in Int /\ Cardinality(Processing) \in Int
BY LostNumbers DEF Lost

\* A worker's step leaves Lost alone: it moves one signal on, or none.
LEMMA WorkerLoses ==
    ASSUME TypeInv, LossInv, NEW w \in Workers, WorkerStep(w)
    PROVE  LossInv'
<1>t. /\ worker \in [Workers -> Ended \cup {"pop", "process", "push", "readDrops", "setDrops"}]
      /\ inputQueue \in [items : Seq(Records), closed : BOOLEAN]
  BY DEF TypeInv, ThreadTypes, QueueTypes
<1>1. CASE WorkerPop(w) /\ EndOfInput
  <2>1. UNCHANGED <<inputQueue, metrics, history>> /\ worker' = [worker EXCEPT ![w] = "done"]
        /\ worker[w] = "pop"
    BY <1>1 DEF WorkerPop
  <2>2. Processing' = Processing
    BY <1>t, <2>1 DEF Processing
  <2> QED BY <1>1, <1>t, <2>1, <2>2 DEF LossInv, Lost, EndOfInput
<1>2. CASE WorkerPop(w) /\ ~EndOfInput
  <2>1. /\ worker[w] = "pop" /\ worker' = [worker EXCEPT ![w] = "process"]
        /\ inputQueue.items # <<>> /\ inputQueue' = [inputQueue EXCEPT !.items = Tail(@)]
        /\ UNCHANGED <<metrics, history>>
    BY <1>2 DEF WorkerPop
  <2>2. Processing' = Processing \cup {w} /\ w \notin Processing
    BY <1>t, <2>1 DEF Processing
  <2>3. Cardinality(Processing') = Cardinality(Processing) + 1
    BY <2>2, LostNumbers, FS_AddElement
  <2>4. inputQueue'.items = Tail(inputQueue.items) /\ inputQueue'.closed = inputQueue.closed
    BY <1>t, <2>1
  <2>5. Len(inputQueue'.items) = Len(inputQueue.items) - 1
    BY <1>t, <2>1, <2>4
  <2>6. Lost' = Lost
    <3> DEFINE a == history.pushed
               b == metrics.processed
               c == Len(inputQueue.items)
               d == Cardinality(Processing)
    <3>1. Lost' = a - b - (c - 1) - (d + 1)
      BY <2>1, <2>3, <2>5 DEF Lost
    <3>2. Lost = a - b - c - d /\ a \in Int /\ b \in Int /\ c \in Int /\ d \in Int
      BY LostIs
    <3> HIDE DEF a, b, c, d
    <3>3. a - b - (c - 1) - (d + 1) = a - b - c - d
      BY ONLY <3>2
    <3> QED BY ONLY <3>1, <3>2, <3>3
  <2>7. \A v \in Workers : worker'[v] # "done"
    BY <1>t, <2>1 DEF LossInv
  <2> QED BY <2>1, <2>6, <2>7 DEF LossInv
<1>3. CASE WorkerProcess(w)
  <2>1. /\ worker[w] = "process" /\ worker' = [worker EXCEPT ![w] = "push"]
        /\ Record("processed") /\ UNCHANGED <<inputQueue, history>>
    BY <1>3 DEF WorkerProcess
  <2>2. metrics'.processed = metrics.processed + 1 /\ metrics'.exceptions = metrics.exceptions
    BY <2>1, RecordTypes
  <2>3. Processing' = Processing \ {w} /\ w \in Processing
    BY <1>t, <2>1 DEF Processing
  <2>4. Cardinality(Processing') = Cardinality(Processing) - 1
    BY <2>3, LostNumbers, FS_RemoveElement
  <2>5. Lost' = Lost
    <3> DEFINE a == history.pushed
               b == metrics.processed
               c == Len(inputQueue.items)
               d == Cardinality(Processing)
    <3>1. Lost' = a - (b + 1) - c - (d - 1)
      BY <2>1, <2>2, <2>4 DEF Lost
    <3>2. Lost = a - b - c - d /\ a \in Int /\ b \in Int /\ c \in Int /\ d \in Int
      BY LostIs
    <3> HIDE DEF a, b, c, d
    <3>3. a - (b + 1) - c - (d - 1) = a - b - c - d
      BY ONLY <3>2
    <3> QED BY ONLY <3>1, <3>2, <3>3
  <2>6. \A v \in Workers : worker'[v] = "done" => worker[v] = "done"
    BY <1>t, <2>1
  <2> QED BY <2>1, <2>2, <2>5, <2>6 DEF LossInv
<1>4. CASE WorkerPush(w) \/ WorkerReadDrops(w) \/ WorkerSetDrops(w)
  <2>1. /\ inputQueue' = inputQueue /\ history'.pushed = history.pushed
        /\ metrics'.processed = metrics.processed /\ metrics'.exceptions = metrics.exceptions
    <3>1. CASE WorkerPush(w)
      BY <3>1, PushedRecords, OutputPushTypes DEF WorkerPush
    <3>2. CASE WorkerReadDrops(w)
      BY <3>2 DEF WorkerReadDrops
    <3>3. CASE WorkerSetDrops(w)
      BY <3>3 DEF WorkerSetDrops, SetLogDrops, TypeInv, DataTypes
    <3> QED BY <1>4, <3>1, <3>2, <3>3
  <2>2. /\ Processing' = Processing
        /\ \A v \in Workers : worker'[v] = "done" => worker[v] = "done"
    BY <1>4, <1>t DEF WorkerPush, WorkerReadDrops, WorkerSetDrops, Processing
  <2> QED BY <2>1, <2>2 DEF LossInv, Lost
<1> QED BY <1>1, <1>2, <1>3, <1>4 DEF WorkerStep

\* Every step preserves LossInv.
LEMMA LossStep == TypeInv /\ LossInv /\ [Next]_vars => LossInv'
<1> SUFFICES ASSUME TypeInv, LossInv, [Next]_vars PROVE LossInv'
  OBVIOUS
<1>t. /\ worker \in [Workers -> Ended \cup {"pop", "process", "push", "readDrops", "setDrops"}]
      /\ inputQueue \in [items : Seq(Records), closed : BOOLEAN]
  BY DEF TypeInv, ThreadTypes, QueueTypes
<1>1. CASE Start
  <2>1. UNCHANGED <<inputQueue, metrics, history>>
    BY <1>1 DEF Start
  <2>2. /\ Processing' = Processing
        /\ \A v \in Workers : worker'[v] = "done" => worker[v] = "done"
    <3>1. ASSUME NEW w \in Workers, StartWorker(w)
          PROVE  worker[w] = "none" /\ worker' = [worker EXCEPT ![w] = "pop"]
      BY <3>1 DEF StartWorker, Workers
    <3>2. CASE worker' = worker
      BY <3>2 DEF Processing
    <3> QED BY <1>1, <1>t, <3>1, <3>2
            DEF Start, StartLogger, StartWatchdog, StartProducer, workerVars, Processing
  <2> QED BY <2>1, <2>2 DEF LossInv, Lost
<1>2. CASE StartFails \/ EndWait \/ WaitFails \/ Shutdown
  <2>1. UNCHANGED <<worker, metrics, history>>
    BY <1>2, ShutdownAdvances
  <2>2. inputQueue'.items = inputQueue.items /\ (inputQueue.closed => inputQueue'.closed)
    BY <1>2, <1>t DEF StartFails, EndWait, WaitFails, Shutdown
  <2> QED BY <2>1, <2>2 DEF LossInv, Lost, Processing
<1>3. CASE ProducerStep
  <2>1. /\ worker' = worker /\ Processing' = Processing
    BY <1>3, ProducerEffect DEF Processing
  <2>2. metrics'.processed = metrics.processed /\ metrics'.exceptions = metrics.exceptions
    BY <1>3, ProducerEffect, RecordTypes
  <2>3. CASE UNCHANGED <<inputQueue, history>>
    BY <2>1, <2>2, <2>3 DEF LossInv, Lost
  <2>4. CASE /\ ~inputQueue.closed
             /\ inputQueue'.items = Append(inputQueue.items, history.pushed + 1)
             /\ history' = [history EXCEPT !.pushed = history.pushed + 1]
    <3>1. history'.pushed = history.pushed + 1
      BY <2>4 DEF TypeInv, DataTypes
    <3>2. Len(inputQueue'.items) = Len(inputQueue.items) + 1
      BY <1>t, <2>4
    <3>3. Lost' = Lost
      <4> DEFINE a == history.pushed
                 b == metrics.processed
                 c == Len(inputQueue.items)
                 d == Cardinality(Processing)
      <4>1. Lost' = (a + 1) - b - (c + 1) - d
        BY <2>1, <2>2, <3>1, <3>2 DEF Lost
      <4>2. Lost = a - b - c - d /\ a \in Int /\ b \in Int /\ c \in Int /\ d \in Int
        BY LostIs
      <4> HIDE DEF a, b, c, d
      <4>3. (a + 1) - b - (c + 1) - d = a - b - c - d
        BY ONLY <4>2
      <4> QED BY ONLY <4>1, <4>2, <4>3
    <3> QED BY <2>1, <2>2, <2>4, <3>3 DEF LossInv
  <2> QED BY <1>3, <2>3, <2>4, ProducerEffect
<1>4. CASE \E w \in Workers : WorkerStep(w)
  BY <1>4, WorkerLoses
<1>5. CASE LoggerStep \/ Signal
  <2>1. UNCHANGED <<worker, inputQueue, metrics>> /\ history'.pushed = history.pushed
    BY <1>5 DEF LoggerStep, LoggerPop, LoggerWrite, Signal, workerVars, TypeInv, DataTypes
  <2> QED BY <2>1 DEF LossInv, Lost, Processing
<1>6. CASE WatchdogStep
  <2>1. UNCHANGED <<worker, inputQueue>>
    BY <1>6 DEF WatchdogStep, workerVars
  <2>2. metrics'.processed = metrics.processed /\ metrics'.exceptions = metrics.exceptions
    BY <1>6, RecordTypes DEF WatchdogStep, WatchdogWait, WatchdogFind, WatchdogReport, WatchdogEnd
  <2>3. history'.pushed = history.pushed
    BY <1>6, PushedRecords, OutputPushTypes
       DEF WatchdogStep, WatchdogWait, WatchdogFind, WatchdogReport, WatchdogEnd
  <2> QED BY <2>1, <2>2, <2>3 DEF LossInv, Lost, Processing
<1>7. CASE Throw
  <2>1. UNCHANGED <<inputQueue, history>>
    BY <1>7 DEF Throw
  <2>2. metrics'.processed = metrics.processed /\ metrics'.exceptions = metrics.exceptions + 1
    BY <1>7, RecordTypes DEF Throw, Catch
  <2>3. \/ worker' = worker
        \/ \E w \in Workers : worker' = [worker EXCEPT ![w] = "died"]
    BY <1>7 DEF Throw
  <2>4. /\ \A v \in Workers : worker'[v] = "done" => worker[v] = "done"
        /\ \/ Processing' = Processing
           \/ \E w \in Processing : Processing' = Processing \ {w}
    BY <1>t, <2>3 DEF Processing
  <2>5. /\ Cardinality(Processing') \in Nat
        /\ \/ Cardinality(Processing') = Cardinality(Processing)
           \/ Cardinality(Processing') = Cardinality(Processing) - 1
    <3>1. CASE Processing' = Processing
      BY <3>1, LostNumbers
    <3>2. ASSUME NEW w \in Processing, Processing' = Processing \ {w}
          PROVE  /\ Cardinality(Processing') = Cardinality(Processing) - 1
                 /\ Cardinality(Processing') \in Nat
      BY <3>2, LostNumbers, FS_RemoveElement, FS_CardinalityType
    <3> QED BY <2>4, <3>1, <3>2
  <2>6. Lost' \in {Lost, Lost + 1}
    <3>1. CASE Cardinality(Processing') = Cardinality(Processing)
      BY <2>1, <2>2, <3>1 DEF Lost
    <3>2. CASE Cardinality(Processing') = Cardinality(Processing) - 1
      <4> DEFINE a == history.pushed
                 b == metrics.processed
                 c == Len(inputQueue.items)
                 d == Cardinality(Processing)
      <4>1. Lost' = a - b - c - (d - 1)
        BY <2>1, <2>2, <3>2 DEF Lost
      <4>2. Lost = a - b - c - d /\ a \in Int /\ b \in Int /\ c \in Int /\ d \in Int
        BY LostIs
      <4> HIDE DEF a, b, c, d
      <4>3. a - b - c - (d - 1) = (a - b - c - d) + 1
        BY ONLY <4>2
      <4> QED BY ONLY <4>1, <4>2, <4>3
    <3> QED BY <2>5, <3>1, <3>2
  <2>7. Lost' \in 0..metrics'.exceptions
    BY <2>2, <2>6, LostNumbers DEF LossInv
  <2> QED BY <2>1, <2>4, <2>7 DEF LossInv
<1>8. CASE UNCHANGED vars
  BY <1>8 DEF vars, workerVars, LossInv, Lost, Processing
<1> QED BY <1>1, <1>2, <1>3, <1>4, <1>5, <1>6, <1>7, <1>8, NextCases

\* The account of the signals holds throughout.
LEMMA LossInvariant == Spec => []LossInv
<1>1. Init => LossInv
  <2> SUFFICES ASSUME Init PROVE LossInv
    OBVIOUS
  <2>1. Processing = {} /\ inputQueue.items = <<>> /\ history.pushed = 0
        /\ metrics.processed = 0 /\ metrics.exceptions = 0
    BY DEF Init, Processing
  <2>2. Lost = 0
    BY <2>1, FS_EmptySet DEF Lost
  <2> QED BY <2>1, <2>2 DEF LossInv, Init
<1> QED BY <1>1, LossStep, TypeInvariant, PTL DEF Spec

\* When run() is over no worker holds a signal, and a worker that left its loop
\* normally saw the input queue empty: what is missing was lost to exceptions.
THEOREM LossBoundedHolds == Spec => []LossBoundedByExceptions
<1>1. TypeInv /\ OrderInv /\ LossInv => LossBoundedByExceptions
  <2> SUFFICES ASSUME TypeInv, OrderInv, LossInv, Exited, NEW w \in Workers, worker[w] = "done"
               PROVE  history.pushed - metrics.processed <= metrics.exceptions
    BY DEF LossBoundedByExceptions
  <2>1. Processing = {}
    BY DEF Processing, OrderInv, Exited, Ended
  <2>2. Cardinality(Processing) = 0 /\ Len(inputQueue.items) = 0
    BY <2>1, FS_EmptySet DEF LossInv
  <2> QED BY <2>2, LostNumbers DEF LossInv, Lost
<1> QED BY <1>1, TypeInvariant, OrderInvariant, LossInvariant, PTL

-----------------------------------------------------------------------------
\* The threads start in the order of startThreads(), and a logger that left its
\* loop, or never began it, has nothing in its queue.
StartedInv ==
    /\ main \in {"startWatchdog", "startPool", "startProducer", "wait"} => logger # "none"
    /\ main = "startProducer" \/ producer # "none" => \A w \in Workers : worker[w] # "none"
    /\ logger = "none" => /\ \A w \in Workers : worker[w] = "none"
                         /\ watchdog = "none" /\ outputQueue.items = <<>>
    /\ logger = "done" => outputQueue.closed /\ outputQueue.items = <<>>

\* Every step preserves StartedInv: a closed output queue takes nothing more.
LEMMA StartedStep == TypeInv /\ StartedInv /\ [Next]_vars => StartedInv'
<1> SUFFICES ASSUME TypeInv, StartedInv, [Next]_vars PROVE StartedInv'
  OBVIOUS
<1>t. /\ worker \in [Workers -> Ended \cup {"pop", "process", "push", "readDrops", "setDrops"}]
      /\ outputQueue \in [items : Seq(Records), closed : BOOLEAN, dropped : Nat]
      /\ WorkerCount \in Nat \ {0} /\ Workers = 1..WorkerCount
  BY ApplicationAssumption DEF TypeInv, ThreadTypes, QueueTypes, Workers
<1>1. CASE Start
  <2>0. outputQueue' = outputQueue
    BY <1>1 DEF Start
  <2>1. CASE StartLogger
    BY <2>0, <2>1 DEF StartLogger, StartedInv, workerVars, watchdogVars
  <2>2. CASE StartWatchdog
    BY <2>0, <2>2 DEF StartWatchdog, StartedInv, workerVars, loggerVars
  <2>3. ASSUME NEW w \in Workers, StartWorker(w) PROVE StartedInv'
    <3>1. /\ main = "startPool" /\ main' \in {"startPool", "startProducer"}
          /\ main' = "startProducer" => w = WorkerCount
          /\ \A v \in Workers : worker[v] = "none" <=> v >= w
          /\ worker' = [worker EXCEPT ![w] = "pop"] /\ UNCHANGED <<producer, logger, watchdog>>
      BY <2>3 DEF StartWorker, loggerVars, watchdogVars
    <3>2. \A v \in Workers : worker[v] # "none" => worker'[v] # "none"
      BY <1>t, <3>1
    <3>3. w = WorkerCount => \A v \in Workers : worker'[v] # "none"
      BY <1>t, <3>1
    <3> QED BY <2>0, <3>1, <3>2, <3>3 DEF StartedInv
  <2>4. CASE StartProducer
    BY <2>0, <2>4 DEF StartProducer, StartedInv, workerVars, loggerVars, watchdogVars
  <2> QED BY <1>1, <2>1, <2>2, <2>3, <2>4 DEF Start
<1>2. CASE StartFails \/ EndWait \/ WaitFails \/ Shutdown
  <2>1. /\ UNCHANGED <<producer, worker, logger, watchdog>>
        /\ main' \notin {"startWatchdog", "startPool", "startProducer", "wait"}
    BY <1>2, ShutdownAdvances, ShutdownSteps DEF StartFails, EndWait, WaitFails, Shutdown
  <2>2. outputQueue'.items = outputQueue.items /\ (outputQueue.closed => outputQueue'.closed)
    BY <1>2, <1>t DEF StartFails, EndWait, WaitFails, Shutdown
  <2> QED BY <2>1, <2>2 DEF StartedInv
<1>3. CASE ProducerStep
  <2>1. /\ UNCHANGED <<main, worker, logger, watchdog, outputQueue>> /\ producer # "none"
    BY <1>3, ProducerEffect DEF Ended
  <2> QED BY <2>1 DEF StartedInv
<1>4. ASSUME NEW w \in Workers, WorkerStep(w) PROVE StartedInv'
  <2>1. /\ UNCHANGED <<main, producer, logger, watchdog>> /\ worker[w] # "none"
        /\ \A v \in Workers : worker[v] # "none" => worker'[v] # "none"
    BY <1>4, <1>t DEF WorkerStep, WorkerPop, WorkerProcess, WorkerPush, WorkerReadDrops,
                      WorkerSetDrops, mainVars, loggerVars, watchdogVars
  <2>2. outputQueue.closed => outputQueue' = outputQueue
    BY <1>4 DEF WorkerStep, WorkerPop, WorkerProcess, WorkerPush, WorkerReadDrops,
                WorkerSetDrops, OutputPush
  <2> QED BY <2>1, <2>2 DEF StartedInv
<1>5. CASE LoggerStep
  <2>1. /\ UNCHANGED <<main, producer, worker, watchdog>> /\ logger # "none" /\ logger' # "none"
        /\ logger' = "done" => EndOfOutput /\ outputQueue' = outputQueue
    BY <1>5 DEF LoggerStep, LoggerPop, LoggerWrite, mainVars, workerVars, watchdogVars
  <2> QED BY <2>1 DEF StartedInv, EndOfOutput
<1>6. CASE WatchdogStep
  <2>1. /\ UNCHANGED <<main, producer, worker, logger>> /\ watchdog # "none"
    BY <1>6 DEF WatchdogStep, WatchdogWait, WatchdogFind, WatchdogReport, WatchdogEnd, mainVars,
                workerVars, loggerVars
  <2>2. outputQueue.closed => outputQueue' = outputQueue
    BY <1>6 DEF WatchdogStep, WatchdogWait, WatchdogFind, WatchdogReport, WatchdogEnd, OutputPush
  <2> QED BY <2>1, <2>2 DEF StartedInv
<1>7. CASE Throw
  <2>1. /\ UNCHANGED <<main, outputQueue>>
        /\ producer' # "none" <=> producer # "none"
        /\ logger' = "none" <=> logger = "none"
        /\ logger' = "done" => logger = "done"
        /\ watchdog' = "none" <=> watchdog = "none"
        /\ \A v \in Workers : worker'[v] = "none" <=> worker[v] = "none"
    BY <1>7, <1>t DEF Throw, mainVars, Ended
  <2> QED BY <2>1 DEF StartedInv
<1>8. CASE Signal \/ UNCHANGED vars
  BY <1>8 DEF Signal, vars, mainVars, workerVars, loggerVars, watchdogVars, StartedInv
<1> QED BY <1>1, <1>2, <1>3, <1>4, <1>5, <1>6, <1>7, <1>8, NextCases

\* StartedInv holds throughout.
LEMMA StartedInvariant == Spec => []StartedInv
<1>1. Init => StartedInv
  BY DEF Init, StartedInv
<1> QED BY <1>1, StartedStep, TypeInvariant, PTL DEF Spec

-----------------------------------------------------------------------------
\* k is an element of the sequence s.
In(k, s) == \E i \in 1..Len(s) : s[i] = k

\* Where the record of signal k may be: still a signal in the input queue or with
\* a worker, in the output queue, with the logger, written or evicted.
Somewhere(k) ==
    \/ In(k, inputQueue.items)
    \/ \E w \in Workers : worker[w] \in {"process", "push"} /\ hand[w] = k
    \/ In(k, outputQueue.items)
    \/ logger = "write" /\ record = k
    \/ k \in history.written \cup history.evicted

\* As long as nothing threw, no thread died, every push is counted or about to
\* be, and the record of every signal is somewhere.
CleanInv ==
    metrics.exceptions = 0 =>
        /\ "died" \notin {producer, logger} /\ \A w \in Workers : worker[w] # "died"
        /\ history.pushed = metrics.produced + (IF producer = "record" THEN 1 ELSE 0)
        /\ \A k \in 1..history.pushed : Somewhere(k)

\* Elements under Append and Tail.
LEMMA InAppend ==
    ASSUME NEW S, NEW s \in Seq(S), NEW x \in S
    PROVE  In(x, Append(s, x)) /\ \A k : In(k, s) => In(k, Append(s, x))
<1>1. /\ Len(Append(s, x)) = Len(s) + 1 /\ Len(s) \in Nat /\ Append(s, x)[Len(s) + 1] = x
      /\ \A i \in 1..Len(s) : Append(s, x)[i] = s[i]
  OBVIOUS
<1>2. Len(s) + 1 \in 1..(Len(s) + 1) /\ \A i \in 1..Len(s) : i \in 1..(Len(s) + 1)
  BY <1>1
<1> QED BY <1>1, <1>2 DEF In

LEMMA InTail ==
    ASSUME NEW S, NEW s \in Seq(S), s # <<>>
    PROVE  /\ Head(s) \in S /\ Tail(s) \in Seq(S)
           /\ \A k : In(k, s) => k = Head(s) \/ In(k, Tail(s))
<1>1. /\ Head(s) = s[1] /\ Len(Tail(s)) = Len(s) - 1 /\ Len(s) \in Nat
      /\ \A i \in 1..(Len(s) - 1) : Tail(s)[i] = s[i + 1]
  OBVIOUS
<1>2. ASSUME NEW k, NEW i \in 1..Len(s), s[i] = k PROVE k = Head(s) \/ In(k, Tail(s))
  <2>1. CASE i = 1
    BY <1>1, <1>2, <2>1
  <2>2. CASE i # 1
    <3>1. i - 1 \in 1..(Len(s) - 1) /\ (i - 1) + 1 = i
      BY <1>1, <2>2
    <3>2. Tail(s)[i - 1] = k
      BY <1>1, <1>2, <3>1
    <3> QED BY <1>1, <3>1, <3>2 DEF In
  <2> QED BY <2>1, <2>2
<1>3. Head(s) \in S /\ Tail(s) \in Seq(S)
  OBVIOUS
<1> QED BY <1>2, <1>3 DEF In

\* A push to the open output queue stores its record, and what it had is still
\* there or evicted.
LEMMA OutputPushKeeps ==
    ASSUME TypeInv, NEW r \in Records, OutputPush(r)
    PROVE  /\ ~outputQueue.closed => In(r, outputQueue'.items)
           /\ \A k : In(k, outputQueue.items) => In(k, outputQueue'.items) \/ k \in history'.evicted
           /\ history.evicted \subseteq history'.evicted /\ history'.written = history.written
<1>t. /\ outputQueue \in [items : Seq(Records), closed : BOOLEAN, dropped : Nat]
      /\ history \in [pushed : Nat, written : SUBSET Records, evicted : SUBSET Records,
                      rejected : SUBSET Records]
      /\ OutputCapacity \in Nat \ {0}
  BY ApplicationAssumption DEF TypeInv, QueueTypes, DataTypes
<1>1. CASE outputQueue.closed
  BY <1>1, <1>t DEF OutputPush
<1>2. CASE ~outputQueue.closed /\ Evicts
  <2> DEFINE items == outputQueue.items
  <2>1. items \in Seq(Records) /\ items # <<>>
    BY <1>t, <1>2 DEF Evicts
  <2>2. outputQueue'.items = Append(Tail(items), r)
    BY <1>2, <1>t DEF OutputPush
  <2>3. history'.evicted = history.evicted \cup {Head(items)} /\ history'.written = history.written
    BY <1>2, <1>t DEF OutputPush
  <2> HIDE DEF items
  <2>4. /\ Tail(items) \in Seq(Records)
        /\ \A k : In(k, items) => k = Head(items) \/ In(k, Tail(items))
    BY <2>1, InTail
  <2>5. /\ In(r, Append(Tail(items), r))
        /\ \A k : In(k, Tail(items)) => In(k, Append(Tail(items), r))
    BY <2>4, InAppend
  <2> QED BY <2>2, <2>3, <2>4, <2>5 DEF items
<1>3. CASE ~outputQueue.closed /\ ~Evicts
  <2>1. outputQueue'.items = Append(outputQueue.items, r) /\ history' = history
    BY <1>3, <1>t DEF OutputPush
  <2>2. outputQueue.items \in Seq(Records)
    BY <1>t
  <2> QED BY <2>1, <2>2, InAppend
<1> QED BY <1>1, <1>2, <1>3

\* A worker's step keeps track of every record.
LEMMA WorkerKeeps ==
    ASSUME TypeInv, OrderInv, NEW w \in Workers, WorkerStep(w), NEW k \in 1..history.pushed,
           Somewhere(k)
    PROVE  Somewhere(k)'
<1>t. /\ worker \in [Workers -> Ended \cup {"pop", "process", "push", "readDrops", "setDrops"}]
      /\ inputQueue \in [items : Seq(Records), closed : BOOLEAN] /\ hand \in [Workers -> Nat]
  BY DEF TypeInv, ThreadTypes, QueueTypes, DataTypes
<1>l. UNCHANGED <<logger, record>>
  BY DEF WorkerStep, loggerVars
<1>1. CASE WorkerPop(w) /\ EndOfInput
  <2>1. /\ UNCHANGED <<inputQueue, outputQueue, hand, history>>
        /\ worker[w] = "pop" /\ worker' = [worker EXCEPT ![w] = "done"]
    BY <1>1 DEF WorkerPop
  <2>2. \A v \in Workers : worker[v] \in {"process", "push"} => worker'[v] = worker[v]
    BY <1>t, <2>1
  <2> QED BY <1>l, <2>1, <2>2 DEF Somewhere
<1>2. CASE WorkerPop(w) /\ ~EndOfInput
  <2> DEFINE items == inputQueue.items
  <2>1. /\ UNCHANGED <<outputQueue, history>> /\ worker[w] = "pop" /\ items # <<>>
        /\ worker' = [worker EXCEPT ![w] = "process"] /\ hand' = [hand EXCEPT ![w] = Head(items)]
        /\ inputQueue' = [inputQueue EXCEPT !.items = Tail(@)]
    BY <1>2 DEF WorkerPop
  <2>2. \A v \in Workers :
           worker[v] \in {"process", "push"} => worker'[v] = worker[v] /\ hand'[v] = hand[v]
    BY <1>t, <2>1
  <2>3. worker'[w] = "process" /\ hand'[w] = Head(items) /\ inputQueue'.items = Tail(items)
    BY <1>t, <2>1
  <2>4. items \in Seq(Records)
    BY <1>t
  <2>5. In(k, items) => k = Head(items) \/ In(k, Tail(items))
    <3> HIDE DEF items
    <3> QED BY <2>1, <2>4, InTail
  <2> QED BY <1>l, <2>1, <2>2, <2>3, <2>5 DEF Somewhere
<1>3. CASE WorkerProcess(w)
  <2>1. /\ UNCHANGED <<inputQueue, outputQueue, hand, history>>
        /\ worker[w] = "process" /\ worker' = [worker EXCEPT ![w] = "push"]
    BY <1>3 DEF WorkerProcess
  <2>2. \A v \in Workers :
           worker[v] \in {"process", "push"} => worker'[v] \in {"process", "push"}
    BY <1>t, <2>1
  <2> QED BY <1>l, <2>1, <2>2 DEF Somewhere
<1>4. CASE WorkerPush(w)
  <2>1. /\ UNCHANGED <<inputQueue, hand>> /\ OutputPush(hand[w])
        /\ worker[w] = "push" /\ worker' = [worker EXCEPT ![w] = "readDrops"]
    BY <1>4 DEF WorkerPush
  <2>2. \A v \in Workers \ {w} : worker'[v] = worker[v]
    BY <1>t, <2>1
  <2>3. ~outputQueue.closed
    BY <2>1 DEF OrderInv, Ended
  <2>4. hand[w] \in Records
    BY <2>1, PushedRecords
  <2>5. /\ In(hand[w], outputQueue'.items)
        /\ In(k, outputQueue.items) => In(k, outputQueue'.items) \/ k \in history'.evicted
        /\ history.evicted \subseteq history'.evicted /\ history'.written = history.written
    BY <2>1, <2>3, <2>4, OutputPushKeeps
  <2> QED BY <1>l, <2>1, <2>2, <2>5 DEF Somewhere
<1>5. CASE WorkerReadDrops(w) \/ WorkerSetDrops(w)
  <2>1. /\ UNCHANGED <<inputQueue, outputQueue, history>>
        /\ worker[w] \in {"readDrops", "setDrops"}
        /\ \E p, n : worker' = [worker EXCEPT ![w] = p] /\ hand' = [hand EXCEPT ![w] = n]
    BY <1>5 DEF WorkerReadDrops, WorkerSetDrops
  <2>2. \A v \in Workers :
           worker[v] \in {"process", "push"} => worker'[v] = worker[v] /\ hand'[v] = hand[v]
    BY <1>t, <2>1
  <2> QED BY <1>l, <2>1, <2>2 DEF Somewhere
<1> QED BY <1>1, <1>2, <1>3, <1>4, <1>5 DEF WorkerStep

\* So do the logger's and the watchdog's.
LEMMA LoggerKeeps ==
    ASSUME TypeInv, LoggerStep, NEW k \in 1..history.pushed, Somewhere(k)
    PROVE  Somewhere(k)'
<1>t. /\ outputQueue \in [items : Seq(Records), closed : BOOLEAN, dropped : Nat]
      /\ history \in [pushed : Nat, written : SUBSET Records, evicted : SUBSET Records,
                      rejected : SUBSET Records]
  BY DEF TypeInv, QueueTypes, DataTypes
<1>u. UNCHANGED <<inputQueue, worker, hand>>
  BY DEF LoggerStep, workerVars
<1>1. CASE LoggerPop /\ EndOfOutput
  BY <1>1, <1>u DEF LoggerPop, Somewhere
<1>2. CASE LoggerPop /\ ~EndOfOutput
  <2> DEFINE items == outputQueue.items
  <2>1. /\ history' = history /\ logger = "pop" /\ logger' = "write" /\ items # <<>>
        /\ record' = Head(items) /\ outputQueue' = [outputQueue EXCEPT !.items = Tail(@)]
    BY <1>2 DEF LoggerPop
  <2>2. items \in Seq(Records) /\ outputQueue'.items = Tail(items)
    BY <1>t, <2>1
  <2>3. In(k, items) => k = Head(items) \/ In(k, Tail(items))
    <3> HIDE DEF items
    <3> QED BY <2>1, <2>2, InTail
  <2> QED BY <1>u, <2>1, <2>2, <2>3 DEF Somewhere
<1>3. CASE LoggerWrite
  <2>1. /\ outputQueue' = outputQueue
        /\ history'.written = history.written \cup {record} /\ history'.evicted = history.evicted
    BY <1>3, <1>t DEF LoggerWrite
  <2> QED BY <1>u, <2>1 DEF Somewhere
<1> QED BY <1>1, <1>2, <1>3 DEF LoggerStep

LEMMA WatchdogKeeps ==
    ASSUME TypeInv, WatchdogStep, NEW k \in 1..history.pushed, Somewhere(k)
    PROVE  Somewhere(k)'
<1>u. UNCHANGED <<inputQueue, worker, hand, logger, record>>
  BY DEF WatchdogStep, workerVars, loggerVars
<1>1. CASE WatchdogReport
  <2>1. /\ In(k, outputQueue.items) => In(k, outputQueue'.items) \/ k \in history'.evicted
        /\ history.evicted \subseteq history'.evicted /\ history'.written = history.written
    BY <1>1, PushedRecords, OutputPushKeeps DEF WatchdogReport
  <2> QED BY <1>u, <2>1 DEF Somewhere
<1>2. CASE ~WatchdogReport
  <2>1. UNCHANGED <<outputQueue, history>>
    BY <1>2 DEF WatchdogStep, WatchdogWait, WatchdogFind, WatchdogEnd
  <2> QED BY <1>u, <2>1 DEF Somewhere
<1> QED BY <1>1, <1>2

\* The producer's step puts a new signal at the back of the input queue, or none.
LEMMA ProducerKeeps ==
    ASSUME TypeInv, ProducerStep, \A k \in 1..history.pushed : Somewhere(k)
    PROVE  \A k \in 1..history'.pushed : Somewhere(k)'
<1>u. UNCHANGED <<worker, hand, logger, record, outputQueue>>
  BY ProducerEffect
<1>1. CASE UNCHANGED <<inputQueue, history>>
  BY <1>1, <1>u DEF Somewhere
<1>2. CASE /\ producer = "push"
           /\ inputQueue'.items = Append(inputQueue.items, history.pushed + 1)
           /\ history' = [history EXCEPT !.pushed = history.pushed + 1]
  <2> DEFINE items == inputQueue.items
             n == history.pushed
  <2>1. /\ history'.pushed = n + 1 /\ history'.written = history.written
        /\ history'.evicted = history.evicted /\ n \in Nat
    BY <1>2 DEF TypeInv, DataTypes
  <2>2. n + 1 \in Records /\ items \in Seq(Records)
    <3>1. n <= MaxSignals /\ MaxSignals \in Nat /\ MaxStalls \in Nat
      BY <1>2, ApplicationAssumption DEF TypeInv, Numbers
    <3> QED BY <2>1, <3>1 DEF Records, TypeInv, QueueTypes
  <2>3. In(n + 1, Append(items, n + 1)) /\ \A k : In(k, items) => In(k, Append(items, n + 1))
    <3> HIDE DEF items, n
    <3> QED BY <2>2, InAppend
  <2>4. \A k \in 1..(n + 1) : k \in 1..n \/ k = n + 1
    BY <2>1
  <2>5. inputQueue'.items = Append(items, n + 1)
    BY <1>2
  <2>6. \A k \in 1..n : Somewhere(k)
    OBVIOUS
  <2>7. \A k \in 1..n : Somewhere(k)'
    <3> HIDE DEF n
    <3> QED BY <1>u, <2>1, <2>3, <2>5, <2>6 DEF Somewhere
  <2>8. ASSUME NEW k, k = n + 1 PROVE Somewhere(k)'
    <3> HIDE DEF n
    <3> QED BY <2>3, <2>5, <2>8 DEF Somewhere
  <2> QED BY <2>1, <2>4, <2>7, <2>8
<1> QED BY <1>1, <1>2, ProducerEffect

\* Every step that is no exception keeps every thread alive.
LEMMA AliveStep ==
    ASSUME TypeInv, [Next]_vars, ~Throw,
           "died" \notin {producer, logger}, \A w \in Workers : worker[w] # "died"
    PROVE  "died" \notin {producer', logger'} /\ \A w \in Workers : worker'[w] # "died"
<1>t. worker \in [Workers -> Ended \cup {"pop", "process", "push", "readDrops", "setDrops"}]
  BY DEF TypeInv, ThreadTypes
<1> USE DEF mainVars, workerVars, loggerVars, watchdogVars
<1>1. CASE Start
  BY <1>1, <1>t DEF Start, StartLogger, StartWatchdog, StartWorker, StartProducer
<1>2. CASE StartFails \/ EndWait \/ WaitFails \/ Shutdown
  BY <1>2, ShutdownAdvances
<1>3. CASE Signal \/ WatchdogStep \/ UNCHANGED vars
  BY <1>3 DEF Signal, WatchdogStep, vars
<1>4. CASE ProducerStep
  BY <1>4 DEF ProducerStep, ProducerTop, ProducerPush, ProducerRecord, ProducerWait
<1>5. CASE LoggerStep
  BY <1>5 DEF LoggerStep, LoggerPop, LoggerWrite
<1>6. ASSUME NEW w \in Workers, WorkerStep(w)
      PROVE  "died" \notin {producer', logger'} /\ \A v \in Workers : worker'[v] # "died"
  BY <1>6, <1>t DEF WorkerStep, WorkerPop, WorkerProcess, WorkerPush, WorkerReadDrops, WorkerSetDrops
<1> QED BY <1>1, <1>2, <1>3, <1>4, <1>5, <1>6, NextCases

\* What the steps of the other threads leave to the producer: its place in the
\* loop, its count and the number of its signals.
LEMMA OthersKeepCount ==
    ASSUME TypeInv, [Next]_vars, ~Throw, ~ProducerStep
    PROVE  /\ metrics'.produced = metrics.produced /\ metrics'.exceptions = metrics.exceptions
           /\ history'.pushed = history.pushed
           /\ (producer' = "record") = (producer = "record")
<1>1. CASE Start
  BY <1>1 DEF Start, StartLogger, StartWatchdog, StartWorker, StartProducer, TypeInv, Numbers
<1>2. CASE StartFails \/ EndWait \/ WaitFails \/ Shutdown
  BY <1>2, ShutdownAdvances
<1>3. CASE Signal \/ UNCHANGED vars
  BY <1>3 DEF Signal, vars
<1>4. CASE WatchdogStep
  <2>1. producer' = producer
    BY <1>4 DEF WatchdogStep
  <2>2. metrics'.produced = metrics.produced /\ metrics'.exceptions = metrics.exceptions
    BY <1>4, RecordTypes DEF WatchdogStep, WatchdogWait, WatchdogFind, WatchdogReport, WatchdogEnd
  <2>3. history'.pushed = history.pushed
    BY <1>4, PushedRecords, OutputPushTypes
       DEF WatchdogStep, WatchdogWait, WatchdogFind, WatchdogReport, WatchdogEnd
  <2> QED BY <2>1, <2>2, <2>3
<1>5. CASE LoggerStep
  BY <1>5 DEF LoggerStep, LoggerPop, LoggerWrite, TypeInv, DataTypes
<1>6. ASSUME NEW w \in Workers, WorkerStep(w)
      PROVE  /\ metrics'.produced = metrics.produced /\ metrics'.exceptions = metrics.exceptions
             /\ history'.pushed = history.pushed /\ producer' = producer
  <2>1. producer' = producer
    BY <1>6 DEF WorkerStep
  <2>2. CASE WorkerPop(w) \/ WorkerReadDrops(w)
    BY <2>1, <2>2 DEF WorkerPop, WorkerReadDrops
  <2>3. CASE WorkerProcess(w)
    BY <2>1, <2>3, RecordTypes DEF WorkerProcess
  <2>4. CASE WorkerPush(w)
    BY <2>1, <2>4, PushedRecords, OutputPushTypes DEF WorkerPush
  <2>5. CASE WorkerSetDrops(w)
    BY <2>1, <2>5 DEF WorkerSetDrops, SetLogDrops, TypeInv, DataTypes
  <2> QED BY <1>6, <2>2, <2>3, <2>4, <2>5 DEF WorkerStep
<1> QED BY <1>1, <1>2, <1>3, <1>4, <1>5, <1>6, NextCases

\* Every step preserves CleanInv.
LEMMA CleanStep == TypeInv /\ OrderInv /\ CleanInv /\ [Next]_vars => CleanInv'
<1> SUFFICES ASSUME TypeInv, OrderInv, CleanInv, [Next]_vars, metrics'.exceptions = 0
             PROVE  CleanInv'
  BY DEF CleanInv
<1>1. ~Throw
  <2>1. ASSUME Throw PROVE metrics'.exceptions = metrics.exceptions + 1
    BY <2>1, RecordTypes DEF Throw, Catch
  <2>2. metrics.exceptions \in Nat
    BY DEF TypeInv, DataTypes
  <2> QED BY <2>1, <2>2
<1>2. metrics.exceptions = 0
  <2>1. CASE ProducerStep
    BY <2>1, ProducerEffect, RecordTypes
  <2> QED BY <1>1, <2>1, OthersKeepCount
<1>3. "died" \notin {producer', logger'} /\ \A w \in Workers : worker'[w] # "died"
  BY <1>1, <1>2, AliveStep DEF CleanInv
<1>4. CASE ProducerStep
  <2>1. \A k \in 1..history'.pushed : Somewhere(k)'
    BY <1>2, <1>4, ProducerKeeps DEF CleanInv
  <2>2. history'.pushed = metrics'.produced + (IF producer' = "record" THEN 1 ELSE 0)
    <3>1. /\ history.pushed = metrics.produced + (IF producer = "record" THEN 1 ELSE 0)
          /\ history.pushed \in Nat /\ metrics.produced \in Nat
      BY <1>2 DEF CleanInv, TypeInv, DataTypes
    <3>2. CASE producer = "record"
      <4>1. metrics'.produced = metrics.produced + 1 /\ history' = history /\ producer' # "record"
        BY <1>4, <3>2, ProducerEffect, RecordTypes
      <4> QED BY <3>1, <3>2, <4>1
    <3>3. CASE producer # "record"
      <4>1. /\ metrics' = metrics
            /\ \/ history' = history /\ producer' # "record"
               \/ history'.pushed = history.pushed + 1 /\ producer' = "record"
        BY <1>4, <3>3, ProducerEffect DEF TypeInv, DataTypes
      <4> QED BY <3>1, <3>3, <4>1
    <3> QED BY <3>2, <3>3
  <2> QED BY <1>3, <2>1, <2>2 DEF CleanInv
<1>5. CASE ~ProducerStep
  <2>1. /\ history'.pushed = history.pushed
        /\ history'.pushed = metrics'.produced + (IF producer' = "record" THEN 1 ELSE 0)
    BY <1>1, <1>2, <1>5, OthersKeepCount DEF CleanInv
  <2>2. ASSUME NEW k \in 1..history.pushed PROVE Somewhere(k)'
    <3>1. Somewhere(k)
      BY <1>2 DEF CleanInv
    <3>2. CASE Start
      <4>1. history.pushed = 0
        BY <3>2 DEF Start, StartLogger, StartWatchdog, StartWorker, StartProducer, TypeInv, Numbers
      <4> QED BY <4>1
    <3>3. CASE StartFails \/ EndWait \/ WaitFails \/ Shutdown
      <4>1. inputQueue'.items = inputQueue.items /\ outputQueue'.items = outputQueue.items
        BY <3>3 DEF StartFails, EndWait, WaitFails, Shutdown, TypeInv, QueueTypes
      <4> QED BY <3>1, <3>3, <4>1, ShutdownAdvances DEF Somewhere
    <3>4. CASE Signal \/ UNCHANGED vars
      BY <3>1, <3>4 DEF Signal, vars, workerVars, loggerVars, Somewhere
    <3> QED BY <1>1, <1>5, <3>1, <3>2, <3>3, <3>4, NextCases, WorkerKeeps, LoggerKeeps, WatchdogKeeps
  <2> QED BY <1>3, <2>1, <2>2 DEF CleanInv
<1> QED BY <1>4, <1>5

\* CleanInv holds throughout.
LEMMA CleanInvariant == Spec => []CleanInv
<1>1. ASSUME Init PROVE CleanInv
  <2>1. /\ history.pushed = 0 /\ metrics.produced = 0
        /\ producer = "none" /\ logger = "none" /\ \A w \in Workers : worker[w] = "none"
    BY <1>1 DEF Init
  <2>2. 1..history.pushed = {}
    BY <2>1
  <2> QED BY <2>1, <2>2 DEF CleanInv
<1> QED BY <1>1, CleanStep, TypeInvariant, OrderInvariant, PTL DEF Spec

\* The ordered drain loses nothing, whatever the capacities and the number of
\* workers: with no exception the threads that were started left their loops
\* normally, which empties both queues, so the record of every signal that was
\* pushed is written or was evicted.
THEOREM DrainHolds == Spec => []DrainLosesNothing
<1>1. TypeInv /\ OrderInv /\ LossInv /\ StartedInv /\ CleanInv => DrainLosesNothing
  <2> SUFFICES ASSUME TypeInv, OrderInv, LossInv, StartedInv, CleanInv, Exited,
                      metrics.exceptions = 0
               PROVE  /\ metrics.produced = history.pushed /\ metrics.processed = history.pushed
                      /\ inputQueue.items = <<>> /\ outputQueue.items = <<>>
                      /\ 1..history.pushed \subseteq history.written \cup history.evicted
    BY DEF DrainLosesNothing
  <2>t. /\ history.pushed \in Nat /\ metrics.produced \in Nat /\ metrics.processed \in Nat
        /\ inputQueue.items \in Seq(Records) /\ WorkerCount \in Nat \ {0}
    BY ApplicationAssumption DEF TypeInv, DataTypes, QueueTypes
  <2>1. /\ producer \in {"none", "done"} /\ logger \in {"none", "done"}
        /\ \A w \in Workers : worker[w] \in {"none", "done"}
    BY DEF Exited, OrderInv, CleanInv, Ended
  <2>2. metrics.produced = history.pushed
    BY <2>t, <2>1 DEF CleanInv
  <2>3. outputQueue.items = <<>>
    BY <2>1 DEF StartedInv
  <2>4. Cardinality(Processing) = 0
    <3>1. Processing = {}
      BY <2>1 DEF Processing
    <3> QED BY <3>1, FS_EmptySet
  <2>5. Lost = 0
    BY DEF LossInv
  <2>6. history.pushed - metrics.processed - Len(inputQueue.items) = 0
    BY <2>4, <2>5, LostIs
  <2>7. inputQueue.items = <<>>
    <3>1. CASE \E w \in Workers : worker[w] = "done"
      BY <3>1 DEF LossInv
    <3>2. CASE \A w \in Workers : worker[w] = "none"
      <4>1. 1 \in Workers
        BY <2>t DEF Workers
      <4>2. history.pushed = 0
        BY <3>2, <4>1 DEF StartedInv, TypeInv, Numbers
      <4>3. Len(inputQueue.items) \in Nat
        BY <2>t
      <4>4. Len(inputQueue.items) = 0
        BY ONLY <2>t, <2>6, <4>2, <4>3
      <4> DEFINE items == inputQueue.items
      <4>5. items \in Seq(Records) /\ Len(items) = 0
        BY <2>t, <4>4
      <4> HIDE DEF items
      <4>6. items = <<>>
        BY <4>5
      <4> QED BY <4>6 DEF items
    <3> QED BY <2>1, <3>1, <3>2
  <2>8. metrics.processed = history.pushed
    <3>1. Len(inputQueue.items) = 0
      BY <2>7
    <3> QED BY ONLY <2>t, <2>6, <3>1
  <2>9. ASSUME NEW k \in 1..history.pushed PROVE k \in history.written \cup history.evicted
    <3>1. Somewhere(k)
      BY DEF CleanInv
    <3>2. ~In(k, <<>>)
      BY DEF In
    <3> QED BY <2>1, <2>3, <2>7, <3>1, <3>2 DEF Somewhere
  <2> QED BY <2>2, <2>3, <2>7, <2>8, <2>9
<1> QED BY <1>1, TypeInvariant, OrderInvariant, LossInvariant, StartedInvariant, CleanInvariant, PTL

-----------------------------------------------------------------------------
\* Once the drain has begun the token is set, and it stays so.  A scan is at most
\* one past the last heartbeat.
DrainInv ==
    /\ Draining \/ Exited => shutdownRequested
    /\ next <= LoggerBeat + 1

\* Every step preserves DrainInv.
LEMMA DrainStep == TypeInv /\ DrainInv /\ [Next]_vars => DrainInv'
<1> SUFFICES ASSUME TypeInv, DrainInv, [Next]_vars PROVE DrainInv'
  OBVIOUS
<1>t. WorkerCount \in Nat /\ LoggerBeat \in Nat /\ next \in Nat /\ running \subseteq 0..LoggerBeat
  BY ApplicationAssumption DEF TypeInv, DataTypes, LoggerBeat, Heartbeats, ProducerBeat
<1>1. CASE Start \/ StartFails \/ EndWait \/ WaitFails
  <2>1. next' = next /\ main' \in {"startWatchdog", "startPool", "startProducer", "wait", "requestShutdown"}
    BY <1>1, ShutdownSteps DEF Start, StartLogger, StartWatchdog, StartWorker, StartProducer,
                               StartFails, EndWait, WaitFails, watchdogVars
  <2> QED BY <2>1 DEF DrainInv, Draining, Exited
<1>2. CASE Shutdown
  <2>1. /\ main \in {"requestShutdown", "closeInput", "joinProducer", "joinPool", "closeOutput",
                     "joinLogger", "joinWatchdog"}
        /\ next' = next /\ shutdownRequested' = (shutdownRequested \/ main = "requestShutdown")
    BY <1>2, ShutdownSteps DEF Shutdown, watchdogVars
  <2> QED BY <2>1 DEF DrainInv, Draining
<1>3. CASE \/ ProducerStep \/ (\E w \in Workers : WorkerStep(w)) \/ LoggerStep \/ Signal
  BY <1>3 DEF ProducerStep, WorkerStep, LoggerStep, Signal, mainVars, watchdogVars, DrainInv, Draining, Exited
<1>4. CASE WatchdogStep
  <2>1. main' = main /\ (shutdownRequested => shutdownRequested')
    <3>1. main' = main
      BY <1>4 DEF WatchdogStep, mainVars
    <3>2. shutdownRequested' = shutdownRequested \/ EscalateStall
      BY <1>4 DEF WatchdogStep, WatchdogWait, WatchdogFind, WatchdogReport, WatchdogEnd
    <3>3. EscalateStall => (shutdownRequested => shutdownRequested')
      BY Zenon DEF EscalateStall
    <3> QED BY <3>1, <3>2, <3>3
  <2>2. next' \in {0, next} \/ \E h \in running : next' = h + 1
    BY <1>4 DEF WatchdogStep, WatchdogWait, WatchdogFind, WatchdogReport, WatchdogEnd
  <2>3. next' <= LoggerBeat + 1
    BY <1>t, <2>2 DEF DrainInv
  <2> QED BY <2>1, <2>3 DEF DrainInv, Draining, Exited
<1>5. CASE Throw
  BY <1>5 DEF Throw, Catch, mainVars, DrainInv
<1>6. CASE UNCHANGED vars
  BY <1>6 DEF vars, mainVars, watchdogVars, DrainInv, Draining, Exited
<1> QED BY <1>1, <1>2, <1>3, <1>4, <1>5, <1>6, NextCases

\* DrainInv holds throughout.
LEMMA DrainInvariant == Spec => []DrainInv
<1>1. Init => DrainInv
  BY ApplicationAssumption DEF Init, DrainInv, Draining, Exited, LoggerBeat
<1> QED BY <1>1, DrainStep, TypeInvariant, PTL DEF Spec

\* The steps left to the workers.
PoolSteps == {step \in Workers \X (1..7) : step[2] <= WorkerWork(step[1])}

\* As many steps as their number.
LEMMA UpTo ==
    ASSUME NEW n \in Nat
    PROVE  IsFiniteSet(1..n) /\ Cardinality(1..n) = n
<1>1. 1 \in Int /\ n \in Int
  OBVIOUS
<1> QED BY <1>1, FS_Interval

\* Each worker has at most seven steps to do.
LEMMA PoolFacts ==
    /\ \A w \in Workers : WorkerWork(w) \in 0..7
    /\ IsFiniteSet(Workers \X (1..7)) /\ IsFiniteSet(PoolSteps)
    /\ PoolWork \in 0..(7 * WorkerCount)
<1>1. IsFiniteSet(Workers) /\ Cardinality(Workers) = WorkerCount /\ WorkerCount \in Nat
  BY ApplicationAssumption, FS_Interval DEF Workers
<1>2. \A w \in Workers : WorkerWork(w) \in 0..7
  BY DEF WorkerWork
<1>3. IsFiniteSet(1..7) /\ Cardinality(1..7) = 7
  <2>1. 7 \in Nat
    OBVIOUS
  <2> QED BY ONLY <2>1, UpTo
<1>4. IsFiniteSet(Workers \X (1..7)) /\ Cardinality(Workers \X (1..7)) = WorkerCount * 7
  BY <1>1, <1>3, FS_Product
<1>5. PoolSteps \subseteq Workers \X (1..7)
  BY DEF PoolSteps
<1>6. /\ IsFiniteSet(PoolSteps) /\ Cardinality(PoolSteps) \in Nat
      /\ Cardinality(PoolSteps) <= Cardinality(Workers \X (1..7))
  BY <1>4, <1>5, FS_Subset, FS_CardinalityType
<1>7. PoolWork = Cardinality(PoolSteps)
  BY DEF PoolWork, PoolSteps
<1> QED BY <1>1, <1>2, <1>4, <1>6, <1>7

\* The parts of WorkLeft and their bounds.
LEMMA WorkFacts ==
    ASSUME TypeInv, DrainInv
    PROVE  /\ Len(inputQueue.items) \in 0..InputCapacity /\ Len(outputQueue.items) \in 0..OutputCapacity
           /\ MainWork \in 0..6 /\ ProducerWork \in 0..11 /\ LoggerWork \in 0..2
           /\ WatchdogWork \in 0..(4 * WorkerCount + 13)
           /\ PoolWork \in 0..(7 * WorkerCount)
<1>1. Len(inputQueue.items) \in 0..InputCapacity /\ Len(outputQueue.items) \in 0..OutputCapacity
  BY ApplicationAssumption DEF TypeInv, QueueTypes
<1>2. MainWork \in 0..6 /\ ProducerWork \in 0..11 /\ LoggerWork \in 0..2
  BY DEF MainWork, ProducerWork, LoggerWork
<1>3. WatchdogWork \in 0..(4 * WorkerCount + 13)
  <2>1. WorkerCount \in Nat /\ LoggerBeat = WorkerCount + 1 /\ next \in Nat /\ next <= LoggerBeat + 1
    BY ApplicationAssumption DEF TypeInv, DataTypes, DrainInv, LoggerBeat
  <2> QED BY <2>1 DEF WatchdogWork
<1> QED BY <1>1, <1>2, <1>3, PoolFacts

\* What the pool has to do is what one worker has and what the others have.
LEMMA PoolSplit ==
    ASSUME NEW w \in Workers, NEW u \in 0..7, NEW S, NEW R, IsFiniteSet(S), R \subseteq S,
           S = R \cup ({w} \X (1..u)), \A step \in R : step[1] # w
    PROVE  Cardinality(S) = Cardinality(R) + u /\ Cardinality(R) \in Nat
<1> DEFINE Own == {w} \X (1..u)
<1>1. IsFiniteSet(1..u) /\ Cardinality(1..u) = u
  BY UpTo
<1>2. IsFiniteSet({w}) /\ Cardinality({w}) = 1
  BY FS_Singleton
<1>3. IsFiniteSet(Own) /\ Cardinality(Own) = Cardinality({w}) * Cardinality(1..u)
  BY ONLY <1>1, <1>2, FS_Product
<1>4. Cardinality(Own) = u
  BY <1>1, <1>2, <1>3
<1>5. R \cap Own = {}
  OBVIOUS
<1>6. IsFiniteSet(R) /\ Cardinality(R) \in Nat
  BY FS_Subset, FS_CardinalityType
<1> HIDE DEF Own
<1>7. Cardinality(R \cup Own) = Cardinality(R) + Cardinality(Own) - Cardinality({})
  BY <1>3, <1>5, <1>6, FS_Union
<1>8. Cardinality({}) = 0
  BY FS_EmptySet
<1> QED BY <1>4, <1>6, <1>7, <1>8 DEF Own

\* The work of the pool changes as that of the one worker that takes a step does.
LEMMA PoolChange ==
    ASSUME NEW w \in Workers, \A v \in Workers \ {w} : worker'[v] = worker[v]
    PROVE  PoolWork' = PoolWork - WorkerWork(w) + WorkerWork(w)'
<1> DEFINE R == {step \in Workers \X (1..7) : step[1] # w /\ step[2] <= WorkerWork(step[1])}
           u == WorkerWork(w)
           u1 == WorkerWork(w)'
<1>1. u \in 0..7 /\ u1 \in 0..7
  BY DEF WorkerWork
<1>2. PoolSteps = R \cup ({w} \X (1..u)) /\ IsFiniteSet(PoolSteps) /\ R \subseteq PoolSteps
  BY <1>1, PoolFacts DEF PoolSteps
<1>3. PoolSteps' = R \cup ({w} \X (1..u1)) /\ R \subseteq PoolSteps'
  <2>1. Workers' = Workers
    BY DEF Workers
  <2>2. \A v \in Workers \ {w} : WorkerWork(v)' = WorkerWork(v)
    BY DEF WorkerWork
  <2>3. PoolSteps' = {step \in Workers \X (1..7) : step[2] <= WorkerWork(step[1])'}
    BY <2>1 DEF PoolSteps
  <2> QED BY <1>1, <2>2, <2>3
<1>4. IsFiniteSet(PoolSteps')
  <2>1. IsFiniteSet({w} \X (1..u1))
    <3> HIDE DEF u1
    <3>1. IsFiniteSet({w})
      BY FS_Singleton
    <3>2. IsFiniteSet(1..u1)
      BY <1>1, UpTo
    <3> QED BY ONLY <3>1, <3>2, FS_Product
  <2>2. IsFiniteSet(R)
    BY <1>2, FS_Subset
  <2> QED BY <1>3, <2>1, <2>2, FS_Union
<1>5. \A step \in R : step[1] # w
  OBVIOUS
<1>6. PoolWork = Cardinality(PoolSteps) /\ PoolWork' = Cardinality(PoolSteps')
  BY DEF PoolWork, PoolSteps
<1> HIDE DEF R, u, u1
<1>7. Cardinality(PoolSteps) = Cardinality(R) + u /\ Cardinality(R) \in Nat
  BY <1>1, <1>2, <1>5, PoolSplit
<1>8. Cardinality(PoolSteps') = Cardinality(R) + u1
  BY <1>1, <1>3, <1>4, <1>5, PoolSplit
<1>9. PoolWork' = PoolWork - u + u1
  BY <1>1, <1>6, <1>7, <1>8
<1> QED BY <1>9 DEF u, u1

\* It does not change when no worker moves.
LEMMA PoolKept == ASSUME worker' = worker PROVE PoolWork' = PoolWork
BY DEF PoolWork, WorkerWork, Workers

\* A push adds at most one record to the output queue.
LEMMA OutputPushAdds ==
    ASSUME TypeInv, NEW r \in Records, OutputPush(r)
    PROVE  Len(outputQueue'.items) <= Len(outputQueue.items) + 1
<1>1. outputQueue \in [items : Seq(Records), closed : BOOLEAN, dropped : Nat]
  BY DEF TypeInv, QueueTypes
<1>2. CASE outputQueue' = outputQueue
  BY <1>1, <1>2
<1>3. CASE /\ Evicts
           /\ outputQueue' = [outputQueue EXCEPT !.items = Append(Tail(@), r), !.dropped = @ + 1]
  <2>1. outputQueue.items # <<>>
    BY <1>1, <1>3, ApplicationAssumption DEF Evicts
  <2>2. Tail(outputQueue.items) \in Seq(Records) /\ Len(Tail(outputQueue.items)) = Len(outputQueue.items) - 1
    BY <1>1, <2>1
  <2>3. outputQueue'.items = Append(Tail(outputQueue.items), r)
    BY <1>1, <1>3
  <2> QED BY <1>1, <2>2, <2>3
<1>4. CASE outputQueue' = [outputQueue EXCEPT !.items = Append(@, r)]
  BY <1>1, <1>4
<1> QED BY <1>2, <1>3, <1>4 DEF OutputPush

\* Whether a signal may still come.
SignalWork == IF signalPending THEN 0 ELSE 1

\* A step of main.
LEMMA ShutdownWorks ==
    ASSUME TypeInv, DrainInv, Draining, Shutdown
    PROVE  /\ Len(inputQueue'.items) = Len(inputQueue.items)
           /\ Len(outputQueue'.items) = Len(outputQueue.items)
           /\ SignalWork' = SignalWork /\ ProducerWork' = ProducerWork /\ LoggerWork' = LoggerWork
           /\ WatchdogWork' = WatchdogWork /\ PoolWork' = PoolWork
           /\ MainWork' < MainWork
<1>1. /\ inputQueue \in [items : Seq(Records), closed : BOOLEAN]
      /\ outputQueue \in [items : Seq(Records), closed : BOOLEAN, dropped : Nat]
  BY DEF TypeInv, QueueTypes
<1>2. inputQueue'.items = inputQueue.items /\ outputQueue'.items = outputQueue.items
  BY <1>1 DEF Shutdown
<1>3. UNCHANGED <<signalPending, producer, worker, logger, watchdog, next>>
  BY DEF Shutdown, workerVars, loggerVars, watchdogVars
<1>4. MainWork' < MainWork
  <2>1. main' = AfterShutdownStep(main)
    BY DEF Shutdown
  <2> QED BY <2>1, ShutdownSteps DEF Draining, MainWork
<1> QED BY <1>2, <1>3, <1>4, PoolKept DEF SignalWork, ProducerWork, LoggerWork, WatchdogWork, LoggerBeat

\* A step of the producer: it pushes one more signal at most.
LEMMA ProducerWorks ==
    ASSUME TypeInv, DrainInv, Draining, ProducerStep
    PROVE  /\ Len(outputQueue'.items) = Len(outputQueue.items)
           /\ SignalWork' = SignalWork /\ MainWork' = MainWork /\ LoggerWork' = LoggerWork
           /\ WatchdogWork' = WatchdogWork /\ PoolWork' = PoolWork
           /\ 7 * Len(inputQueue'.items) + ProducerWork' < 7 * Len(inputQueue.items) + ProducerWork
<1>1. inputQueue \in [items : Seq(Records), closed : BOOLEAN] /\ shutdownRequested
  BY DEF TypeInv, QueueTypes, DrainInv
<1>2. UNCHANGED <<signalPending, outputQueue, main, worker, logger, watchdog, next>>
  BY DEF ProducerStep, mainVars, workerVars, loggerVars, watchdogVars
<1>3. 7 * Len(inputQueue'.items) + ProducerWork' < 7 * Len(inputQueue.items) + ProducerWork
  <2>1. CASE ProducerTop
    BY <1>1, <2>1 DEF ProducerTop, ProducerWork
  <2>2. CASE ProducerPush
    <3>1. CASE inputQueue.closed
      BY <1>1, <2>2, <3>1 DEF ProducerPush, ProducerWork
    <3>2. CASE ~inputQueue.closed
      <4>1. inputQueue'.items = Append(inputQueue.items, history.pushed + 1)
        BY <1>1, <2>2, <3>2 DEF ProducerPush
      <4>2. Len(inputQueue'.items) = Len(inputQueue.items) + 1 /\ Len(inputQueue.items) \in Nat
        BY <1>1, <4>1
      <4>3. ProducerWork = 11 /\ ProducerWork' = 3
        BY <2>2, <3>2 DEF ProducerPush, ProducerWork
      <4> QED BY <4>2, <4>3
    <3> QED BY <3>1, <3>2
  <2>3. CASE ProducerRecord
    BY <1>1, <2>3 DEF ProducerRecord, ProducerWork
  <2>4. CASE ProducerWait
    BY <1>1, <2>4 DEF ProducerWait, ProducerWork
  <2> QED BY <2>1, <2>2, <2>3, <2>4 DEF ProducerStep
<1> QED BY <1>2, <1>3, PoolKept DEF SignalWork, MainWork, LoggerWork, WatchdogWork, LoggerBeat

\* A step of a worker: it takes a signal, and adds at most one record.
LEMMA WorkerWorks ==
    ASSUME TypeInv, DrainInv, Draining, NEW w \in Workers, WorkerStep(w)
    PROVE  /\ SignalWork' = SignalWork /\ MainWork' = MainWork /\ ProducerWork' = ProducerWork
           /\ LoggerWork' = LoggerWork /\ WatchdogWork' = WatchdogWork
           /\ 7 * Len(inputQueue'.items) + 2 * Len(outputQueue'.items) + PoolWork'
                < 7 * Len(inputQueue.items) + 2 * Len(outputQueue.items) + PoolWork
<1>1. /\ inputQueue \in [items : Seq(Records), closed : BOOLEAN]
      /\ outputQueue \in [items : Seq(Records), closed : BOOLEAN, dropped : Nat]
      /\ worker \in [Workers -> Ended \cup {"pop", "process", "push", "readDrops", "setDrops"}]
  BY DEF TypeInv, QueueTypes, ThreadTypes
<1>2. UNCHANGED <<signalPending, main, producer, logger, watchdog, next>>
  BY DEF WorkerStep, mainVars, loggerVars, watchdogVars
<1>3. \A v \in Workers \ {w} : worker'[v] = worker[v]
  BY <1>1 DEF WorkerStep, WorkerPop, WorkerProcess, WorkerPush, WorkerReadDrops, WorkerSetDrops
<1> DEFINE a == Len(inputQueue.items)
           a1 == Len(inputQueue'.items)
           b == Len(outputQueue.items)
           b1 == Len(outputQueue'.items)
           u == WorkerWork(w)
           u1 == WorkerWork(w)'
<1>4. a \in Nat /\ b \in Nat /\ u \in Int /\ u1 \in Int
  BY <1>1 DEF WorkerWork
<1>5. \/ a1 = a /\ b1 = b /\ u1 < u
      \/ a1 = a - 1 /\ b1 = b /\ u = 1 /\ u1 = 7
      \/ a1 = a /\ b1 \in Nat /\ b1 <= b + 1 /\ u = 6 /\ u1 = 3
  <2>1. CASE WorkerPop(w)
    <3>1. b1 = b /\ worker[w] = "pop"
      BY <2>1 DEF WorkerPop
    <3>2. CASE inputQueue' = inputQueue /\ worker'[w] = "done"
      BY <3>1, <3>2 DEF WorkerWork
    <3>3. CASE /\ inputQueue.items # <<>> /\ worker'[w] = "process"
               /\ inputQueue'.items = Tail(inputQueue.items)
      <4>1. a1 = a - 1
        BY <1>1, <3>3
      <4>2. u = 1 /\ u1 = 7
        BY <3>1, <3>3 DEF WorkerWork
      <4> QED BY <3>1, <4>1, <4>2
    <3> QED BY <1>1, <2>1, <3>2, <3>3 DEF WorkerPop
  <2>2. CASE WorkerPush(w)
    <3>1. a1 = a /\ u = 6 /\ u1 = 3
      BY <1>1, <2>2 DEF WorkerPush, WorkerWork
    <3>2. hand[w] \in Records /\ OutputPush(hand[w])
      BY <2>2, PushedRecords DEF WorkerPush
    <3>3. b1 <= b + 1
      BY <3>2, OutputPushAdds
    <3>4. b1 \in Nat
      BY <3>2, OutputPushTypes
    <3> QED BY <3>1, <3>3, <3>4
  <2>3. CASE WorkerProcess(w) \/ WorkerReadDrops(w) \/ WorkerSetDrops(w)
    <3>1. inputQueue' = inputQueue /\ outputQueue' = outputQueue
      BY <2>3 DEF WorkerProcess, WorkerReadDrops, WorkerSetDrops
    <3>2. u1 < u
      BY <1>1, <2>3 DEF WorkerProcess, WorkerReadDrops, WorkerSetDrops, WorkerWork
    <3> QED BY <3>1, <3>2
  <2> QED BY <2>1, <2>2, <2>3 DEF WorkerStep
<1>6. PoolWork' = PoolWork - u + u1 /\ PoolWork \in Int
  BY <1>3, PoolChange, PoolFacts
<1>7. 7 * a1 + 2 * b1 + PoolWork' < 7 * a + 2 * b + PoolWork
  <2> HIDE DEF a, a1, b, b1, u, u1
  <2> QED BY <1>4, <1>5, <1>6
<1> QED BY <1>2, <1>7 DEF SignalWork, MainWork, ProducerWork, LoggerWork, WatchdogWork, LoggerBeat

\* A step of the logger: it takes a record.
LEMMA LoggerWorks ==
    ASSUME TypeInv, DrainInv, Draining, LoggerStep
    PROVE  /\ Len(inputQueue'.items) = Len(inputQueue.items)
           /\ SignalWork' = SignalWork /\ MainWork' = MainWork /\ ProducerWork' = ProducerWork
           /\ WatchdogWork' = WatchdogWork /\ PoolWork' = PoolWork
           /\ 2 * Len(outputQueue'.items) + LoggerWork' < 2 * Len(outputQueue.items) + LoggerWork
<1>1. outputQueue \in [items : Seq(Records), closed : BOOLEAN, dropped : Nat]
  BY DEF TypeInv, QueueTypes
<1>2. UNCHANGED <<signalPending, inputQueue, main, producer, worker, watchdog, next>>
  BY DEF LoggerStep, mainVars, workerVars, watchdogVars
<1> DEFINE b == Len(outputQueue.items)
           b1 == Len(outputQueue'.items)
<1>3. b \in Nat
  BY <1>1
<1>4. \/ b1 = b /\ LoggerWork = 1 /\ LoggerWork' = 0
      \/ b1 = b - 1 /\ LoggerWork = 1 /\ LoggerWork' = 2
      \/ b1 = b /\ LoggerWork = 2 /\ LoggerWork' = 1
  <2>1. CASE LoggerPop
    <3>1. LoggerWork = 1
      BY <2>1 DEF LoggerPop, LoggerWork
    <3>2. CASE logger' = "done" /\ outputQueue' = outputQueue
      BY <3>1, <3>2 DEF LoggerWork
    <3>3. CASE /\ outputQueue.items # <<>> /\ logger' = "write"
               /\ outputQueue'.items = Tail(outputQueue.items)
      <4>1. b1 = b - 1
        BY <1>1, <3>3
      <4>2. LoggerWork' = 2
        BY <3>3 DEF LoggerWork
      <4> QED BY <3>1, <4>1, <4>2
    <3> QED BY <1>1, <2>1, <3>2, <3>3 DEF LoggerPop
  <2>2. CASE LoggerWrite
    BY <2>2 DEF LoggerWrite, LoggerWork
  <2> QED BY <2>1, <2>2 DEF LoggerStep
<1>5. 2 * b1 + LoggerWork' < 2 * b + LoggerWork
  <2> HIDE DEF b, b1
  <2> QED BY <1>3, <1>4
<1> QED BY <1>2, <1>5, PoolKept DEF SignalWork, MainWork, ProducerWork, WatchdogWork, LoggerBeat

\* A step of the watchdog: it gets on with its scan, and begins no other.
LEMMA WatchdogWorks ==
    ASSUME TypeInv, DrainInv, DrainInv', Draining, WatchdogStep
    PROVE  /\ Len(inputQueue'.items) = Len(inputQueue.items)
           /\ SignalWork' = SignalWork /\ MainWork' = MainWork /\ ProducerWork' = ProducerWork
           /\ LoggerWork' = LoggerWork /\ PoolWork' = PoolWork
           /\ 2 * Len(outputQueue'.items) + WatchdogWork' < 2 * Len(outputQueue.items) + WatchdogWork
<1>1. /\ outputQueue \in [items : Seq(Records), closed : BOOLEAN, dropped : Nat]
      /\ shutdownRequested /\ next \in Nat /\ running \subseteq Nat
      /\ next <= LoggerBeat + 1 /\ next' <= LoggerBeat + 1 /\ LoggerBeat' = LoggerBeat
      /\ LoggerBeat \in Nat
  <2>1. /\ outputQueue \in [items : Seq(Records), closed : BOOLEAN, dropped : Nat]
        /\ shutdownRequested /\ next \in Nat
    BY DEF TypeInv, QueueTypes, DataTypes, DrainInv
  <2>2. LoggerBeat' = LoggerBeat /\ LoggerBeat \in Nat
    BY ApplicationAssumption DEF LoggerBeat
  <2>3. running \subseteq Nat
    BY <2>2 DEF TypeInv, DataTypes, Heartbeats, ProducerBeat
  <2> QED BY <2>1, <2>2, <2>3 DEF DrainInv
<1>2. UNCHANGED <<signalPending, inputQueue, main, producer, worker, logger>>
  BY DEF WatchdogStep, mainVars, workerVars, loggerVars
<1> DEFINE b == Len(outputQueue.items)
           b1 == Len(outputQueue'.items)
           d == LoggerBeat + 1 - next
           d1 == LoggerBeat + 1 - next'
<1>3. b \in Nat
  BY <1>1
<1>4. \/ b1 = b /\ WatchdogWork = 1 /\ WatchdogWork' = 0
      \/ b1 = b /\ d \in Int /\ d1 \in Int /\ d1 < d /\ WatchdogWork = 4 * d + 2 /\ WatchdogWork' = 4 * d1 + 5
      \/ b1 = b /\ d \in Nat /\ WatchdogWork = 4 * d + 2 /\ WatchdogWork' = 1
      \/ b1 \in Nat /\ b1 <= b + 1 /\ d \in Int /\ WatchdogWork = 4 * d + 5 /\ WatchdogWork' = 4 * d + 2
  <2>1. CASE WatchdogWait
    BY <1>1, <2>1 DEF WatchdogWait, AfterScanWait, WatchdogWork
  <2>2. CASE WatchdogFind
    <3>1. PICK h \in running : h >= next /\ next' = h + 1
      BY <2>2 DEF WatchdogFind
    <3>2. d \in Int /\ d1 \in Int /\ d1 < d
      BY <1>1, <3>1
    <3>3. WatchdogWork = 4 * d + 2 /\ WatchdogWork' = 4 * d1 + 5
      BY <1>1, <2>2 DEF WatchdogFind, WatchdogWork
    <3>4. b1 = b
      BY <2>2 DEF WatchdogFind
    <3> QED BY <3>2, <3>3, <3>4
  <2>3. CASE WatchdogReport
    <3>1. OutputPush(-metrics.stalls) /\ -metrics.stalls \in Records
      BY <2>3, PushedRecords DEF WatchdogReport
    <3>2. b1 <= b + 1
      BY <3>1, OutputPushAdds
    <3>3. b1 \in Nat
      BY <3>1, OutputPushTypes
    <3>4. WatchdogWork = 4 * d + 5 /\ WatchdogWork' = 4 * d + 2
      BY <1>1, <2>3 DEF WatchdogReport, WatchdogWork
    <3>5. d \in Int
      BY <1>1
    <3> QED BY <3>2, <3>3, <3>4, <3>5
  <2>4. CASE WatchdogEnd
    <3>1. WatchdogWork = 4 * d + 2 /\ WatchdogWork' = 1
      BY <2>4 DEF WatchdogEnd, WatchdogWork
    <3>2. d \in Nat
      BY <1>1
    <3>3. b1 = b
      BY <2>4 DEF WatchdogEnd
    <3> QED BY <3>1, <3>2, <3>3
  <2> QED BY <2>1, <2>2, <2>3, <2>4 DEF WatchdogStep
<1>5. 2 * b1 + WatchdogWork' < 2 * b + WatchdogWork
  <2> HIDE DEF b, b1, d, d1
  <2> QED BY <1>3, <1>4
<1> QED BY <1>2, <1>5, PoolKept DEF SignalWork, MainWork, ProducerWork, LoggerWork

\* An exception leaves a thread nothing to do.
LEMMA ThrowWorks ==
    ASSUME TypeInv, DrainInv, Draining, Throw
    PROVE  /\ inputQueue' = inputQueue /\ outputQueue' = outputQueue
           /\ SignalWork' = SignalWork /\ MainWork' = MainWork
           /\ \/ /\ ProducerWork' < ProducerWork
                 /\ LoggerWork' = LoggerWork /\ WatchdogWork' = WatchdogWork /\ PoolWork' = PoolWork
              \/ /\ LoggerWork' < LoggerWork
                 /\ ProducerWork' = ProducerWork /\ WatchdogWork' = WatchdogWork /\ PoolWork' = PoolWork
              \/ /\ WatchdogWork' < WatchdogWork
                 /\ ProducerWork' = ProducerWork /\ LoggerWork' = LoggerWork /\ PoolWork' = PoolWork
              \/ /\ PoolWork' < PoolWork
                 /\ ProducerWork' = ProducerWork /\ LoggerWork' = LoggerWork /\ WatchdogWork' = WatchdogWork
<1>1. /\ producer \in Ended \cup {"top", "push", "record", "wait"}
      /\ worker \in [Workers -> Ended \cup {"pop", "process", "push", "readDrops", "setDrops"}]
      /\ logger \in Ended \cup {"pop", "write"} /\ watchdog \in Ended \cup {"wait", "scan", "report"}
      /\ next \in Nat /\ next <= LoggerBeat + 1 /\ LoggerBeat \in Nat
  BY ApplicationAssumption DEF TypeInv, ThreadTypes, DataTypes, DrainInv, LoggerBeat
<1>2. UNCHANGED <<signalPending, inputQueue, outputQueue, main, next>>
  BY DEF Throw, mainVars
<1>3. CASE producer \notin Ended /\ producer' = "died" /\ UNCHANGED <<worker, logger, watchdog>>
  <2>1. ProducerWork' < ProducerWork
    BY <1>1, <1>3 DEF ProducerWork, Ended
  <2> QED BY <1>2, <1>3, <2>1, PoolKept DEF SignalWork, MainWork, LoggerWork, WatchdogWork, LoggerBeat
<1>4. CASE logger \notin Ended /\ logger' = "died" /\ UNCHANGED <<producer, worker, watchdog>>
  <2>1. LoggerWork' < LoggerWork
    BY <1>1, <1>4 DEF LoggerWork, Ended
  <2> QED BY <1>2, <1>4, <2>1, PoolKept DEF SignalWork, MainWork, ProducerWork, WatchdogWork, LoggerBeat
<1>5. CASE watchdog \notin Ended /\ watchdog' = "died" /\ UNCHANGED <<producer, worker, logger>>
  <2>1. WatchdogWork' < WatchdogWork
    BY <1>1, <1>5 DEF WatchdogWork, Ended
  <2> QED BY <1>2, <1>5, <2>1, PoolKept DEF SignalWork, MainWork, ProducerWork, LoggerWork
<1>6. ASSUME NEW w \in Workers, worker[w] \notin Ended, worker' = [worker EXCEPT ![w] = "died"],
             UNCHANGED <<producer, logger, watchdog>>
      PROVE  /\ PoolWork' < PoolWork
             /\ ProducerWork' = ProducerWork /\ LoggerWork' = LoggerWork /\ WatchdogWork' = WatchdogWork
  <2>1. PoolWork' = PoolWork - WorkerWork(w) + WorkerWork(w)' /\ PoolWork \in Int
    BY <1>1, <1>6, PoolChange, PoolFacts
  <2>2. WorkerWork(w) \in Int /\ WorkerWork(w)' = 0 /\ WorkerWork(w) > 0
    BY <1>1, <1>6 DEF WorkerWork, Ended
  <2>3. PoolWork' < PoolWork
    BY <2>1, <2>2
  <2> QED BY <1>2, <1>6, <2>3 DEF ProducerWork, LoggerWork, WatchdogWork, LoggerBeat
<1>7. SignalWork' = SignalWork /\ MainWork' = MainWork
  BY <1>2 DEF SignalWork, MainWork
<1> QED BY <1>2, <1>3, <1>4, <1>5, <1>6, <1>7 DEF Throw

\* In the drain every step lowers the work left, which is bounded.
LEMMA WorkFalls ==
    ASSUME TypeInv, TypeInv', DrainInv, DrainInv', Draining, [Next]_vars, vars' # vars
    PROVE  /\ WorkLeft' \in 0..(WorkLeft - 1)
           /\ WorkLeft <= 7 * InputCapacity + 2 * OutputCapacity + 11 * WorkerCount + 33
<1> DEFINE a == Len(inputQueue.items)
           a1 == Len(inputQueue'.items)
           b == Len(outputQueue.items)
           b1 == Len(outputQueue'.items)
<1>1. /\ a \in 0..InputCapacity /\ b \in 0..OutputCapacity
      /\ MainWork \in 0..6 /\ ProducerWork \in 0..11 /\ LoggerWork \in 0..2
      /\ WatchdogWork \in 0..(4 * WorkerCount + 13) /\ PoolWork \in 0..(7 * WorkerCount)
  BY WorkFacts
<1>2. a1 \in Nat /\ b1 \in Nat /\ InputCapacity \in Nat /\ OutputCapacity \in Nat /\ WorkerCount \in Nat
  BY ApplicationAssumption DEF TypeInv, QueueTypes
<1>3. MainWork' \in Nat /\ ProducerWork' \in Nat /\ LoggerWork' \in Nat
  BY DEF MainWork, ProducerWork, LoggerWork
<1>4. WatchdogWork' \in Nat
  <2>1. LoggerBeat' \in Nat /\ next' \in Nat /\ next' <= LoggerBeat' + 1
    BY ApplicationAssumption DEF TypeInv, DataTypes, DrainInv, LoggerBeat
  <2> QED BY <2>1 DEF WatchdogWork
<1>5. PoolWork' \in Nat
  <2>1. IsFiniteSet(Workers \X (1..7))
    BY PoolFacts
  <2>2. PoolSteps' \subseteq Workers \X (1..7)
    BY DEF PoolSteps, Workers
  <2>3. Cardinality(PoolSteps') \in Nat
    BY <2>1, <2>2, FS_Subset, FS_CardinalityType
  <2> QED BY <2>3 DEF PoolWork, PoolSteps
<1>6. SignalWork \in 0..1 /\ SignalWork' \in Nat
  BY DEF SignalWork
<1>7. /\ WorkLeft = 7 * a + 2 * b + SignalWork + MainWork + ProducerWork + LoggerWork
                    + WatchdogWork + PoolWork
      /\ WorkLeft' = 7 * a1 + 2 * b1 + SignalWork' + MainWork' + ProducerWork' + LoggerWork'
                     + WatchdogWork' + PoolWork'
  BY DEF WorkLeft, PoolWork, SignalWork
<1> DEFINE s == SignalWork
           s1 == SignalWork'
           m == MainWork
           m1 == MainWork'
           p == ProducerWork
           p1 == ProducerWork'
           l == LoggerWork
           l1 == LoggerWork'
           d == WatchdogWork
           d1 == WatchdogWork'
           u == PoolWork
           u1 == PoolWork'
<1>n. /\ a \in 0..InputCapacity /\ b \in 0..OutputCapacity /\ s \in 0..1 /\ m \in 0..6
      /\ p \in 0..11 /\ l \in 0..2 /\ d \in 0..(4 * WorkerCount + 13) /\ u \in 0..(7 * WorkerCount)
      /\ a1 \in Nat /\ b1 \in Nat /\ s1 \in Nat /\ m1 \in Nat /\ p1 \in Nat /\ l1 \in Nat
      /\ d1 \in Nat /\ u1 \in Nat
      /\ WorkLeft = 7 * a + 2 * b + s + m + p + l + d + u
      /\ WorkLeft' = 7 * a1 + 2 * b1 + s1 + m1 + p1 + l1 + d1 + u1
  BY <1>1, <1>2, <1>3, <1>4, <1>5, <1>6, <1>7
<1>8. WorkLeft' < WorkLeft
  <2>1. CASE Start \/ StartFails \/ EndWait \/ WaitFails
    BY <2>1 DEF Start, StartLogger, StartWatchdog, StartWorker, StartProducer, StartFails, EndWait,
                WaitFails, Draining
  <2>2. CASE Shutdown
    <3>1. /\ a1 = a /\ b1 = b /\ m1 < m
          /\ s1 = s /\ p1 = p /\ l1 = l
          /\ d1 = d /\ u1 = u
      BY <2>2, ShutdownWorks
    <3> HIDE DEF a, a1, b, b1, s, s1, m, m1, p, p1, l, l1, d, d1, u, u1
    <3> QED BY <1>n, <3>1
  <2>3. CASE Signal
    <3>1. UNCHANGED <<inputQueue, outputQueue, main, producer, worker, logger, watchdog, next>>
      BY <2>3 DEF Signal, mainVars, workerVars, loggerVars, watchdogVars
    <3>2. /\ a1 = a /\ b1 = b /\ m1 = m
          /\ p1 = p /\ l1 = l
          /\ d1 = d /\ u1 = u
      BY <3>1, PoolKept DEF MainWork, ProducerWork, LoggerWork, WatchdogWork, LoggerBeat
    <3>3. s1 < s
      BY <2>3 DEF Signal, SignalWork
    <3> HIDE DEF a, a1, b, b1, s, s1, m, m1, p, p1, l, l1, d, d1, u, u1
    <3> QED BY <1>n, <3>2, <3>3
  <2>4. CASE ProducerStep
    <3>1. /\ b1 = b /\ s1 = s /\ m1 = m /\ l1 = l
          /\ d1 = d /\ u1 = u
          /\ 7 * a1 + p1 < 7 * a + p
      BY <2>4, ProducerWorks
    <3> HIDE DEF a, a1, b, b1, s, s1, m, m1, p, p1, l, l1, d, d1, u, u1
    <3> QED BY <1>n, <3>1
  <2>5. ASSUME NEW w \in Workers, WorkerStep(w) PROVE WorkLeft' < WorkLeft
    <3>1. /\ s1 = s /\ m1 = m /\ p1 = p
          /\ l1 = l /\ d1 = d
          /\ 7 * a1 + 2 * b1 + u1 < 7 * a + 2 * b + u
      BY <2>5, WorkerWorks
    <3> HIDE DEF a, a1, b, b1, s, s1, m, m1, p, p1, l, l1, d, d1, u, u1
    <3> QED BY <1>n, <3>1
  <2>6. CASE LoggerStep
    <3>1. /\ a1 = a /\ s1 = s /\ m1 = m /\ p1 = p
          /\ d1 = d /\ u1 = u
          /\ 2 * b1 + l1 < 2 * b + l
      BY <2>6, LoggerWorks
    <3> HIDE DEF a, a1, b, b1, s, s1, m, m1, p, p1, l, l1, d, d1, u, u1
    <3> QED BY <1>n, <3>1
  <2>7. CASE WatchdogStep
    <3>1. /\ a1 = a /\ s1 = s /\ m1 = m /\ p1 = p
          /\ l1 = l /\ u1 = u
          /\ 2 * b1 + d1 < 2 * b + d
      BY <2>7, WatchdogWorks
    <3> HIDE DEF a, a1, b, b1, s, s1, m, m1, p, p1, l, l1, d, d1, u, u1
    <3> QED BY <1>n, <3>1
  <2>8. CASE Throw
    <3>1. a1 = a /\ b1 = b /\ s1 = s /\ m1 = m
      BY <2>8, ThrowWorks
    <3>2. /\ p1 <= p /\ l1 <= l
          /\ d1 <= d /\ u1 <= u
          /\ \/ p1 < p \/ l1 < l
             \/ d1 < d \/ u1 < u
      BY <1>1, <1>3, <1>4, <1>5, <2>8, ThrowWorks
    <3> HIDE DEF a, a1, b, b1, s, s1, m, m1, p, p1, l, l1, d, d1, u, u1
    <3> QED BY <1>n, <3>1, <3>2
  <2> QED BY <2>1, <2>2, <2>3, <2>4, <2>5, <2>6, <2>7, <2>8, NextCases
<1> HIDE DEF a, a1, b, b1, s, s1, m, m1, p, p1, l, l1, d, d1, u, u1
<1> QED BY <1>n, <1>8, <1>2

\* The drain of shutdown() is over after a number of steps that the capacities and
\* the number of workers bound, whatever the threads do and whichever of them throw.
THEOREM DrainTerminatesHolds == Spec => DrainTerminates
<1>1. TypeInv /\ TypeInv' /\ DrainInv /\ DrainInv' /\ [Next]_vars =>
          [Draining => /\ WorkLeft' \in 0..(WorkLeft - 1)
                       /\ WorkLeft <= 7 * InputCapacity + 2 * OutputCapacity + 11 * WorkerCount + 33]_vars
  BY WorkFalls
<1> QED BY <1>1, TypeInvariant, DrainInvariant, PTL DEF Spec, DrainTerminates

\* The thread that a join of shutdown() waits for is not itself in a wait for
\* something that need not come: an item, space, or the token.
NoJoinBlocks ==
    /\ main = "joinProducer" => /\ producer = "push" => inputQueue.closed
                                /\ producer = "wait" => shutdownRequested
    /\ main = "joinPool" => \A w \in Workers : worker[w] = "pop" => inputQueue.closed
    /\ main = "joinLogger" => (logger = "pop" => outputQueue.closed)
    /\ main = "joinWatchdog" => (watchdog = "wait" => shutdownRequested)

\* Each join comes after what releases its thread: no thread that shutdown() waits
\* for is blocked on a queue, at its end or full, or on the token.  So some thread
\* can take a step until run() is over, and DrainTerminates says that they cannot
\* take steps for ever.
THEOREM NoJoinBlocksHolds == Spec => []NoJoinBlocks
<1>1. OrderInv /\ DrainInv => NoJoinBlocks
  BY DEF OrderInv, DrainInv, Draining, NoJoinBlocks
<1> QED BY <1>1, OrderInvariant, DrainInvariant, PTL
=============================================================================
