# RadarRT-DSP: TLA+ specifications and proofs

A verification development for the radar pipeline in `src/`: TLA+ models of its
concurrent core, TLC runs on small instances, and TLAPS proofs for every value
of the constants. `PROJECT.json` indexes components, runs, mutants, the
definition-to-source map, findings, hazards and theorems.

## The system

A producer thread samples a signal every period and pushes it into a bounded
*input queue* (policy Block). A pool of DSP workers pops signals, processes them
and pushes one log record each into an *output queue* (policy DropOldest). A
logger pops records and writes them to its sinks. A watchdog scans the
heartbeats of the other threads and pushes a record for each stall. The main
thread starts everything, waits for SIGINT/SIGTERM or a set shutdown token, and
runs an ordered drain.

| Part | State | Operations | Interacts with |
|---|---|---|---|
| ThreadSafeQueue | items, closed flag, drop counter, lock, two condition variables | push, tryPush, waitAndPop, tryPop, close, waitUntilEmpty | every thread |
| ShutdownToken | flag, lock, condition variable | requestShutdown, waitFor, shutdownRequested | every thread |
| Heartbeat, registry | timestamp and state atomics | markRunning, markWaiting, forEach | workers, producer, logger, watchdog |
| RadarProducer | next deadline | produceLoop | input queue, token, clock |
| ThreadPool | one loop per worker | workerLoop, start, join | both queues, metrics |
| Logger | record in hand | drainLoop | output queue, sinks |
| Watchdog | scan position | scanLoop, scanOnce, reportStall | heartbeats, output queue, token |
| SignalHandler | signalfd | waitForShutdown | token |
| Application | stopped flag | run, startThreads, shutdown | all of them |
| SignalProcessor | none | process: NoiseFilter, FFT, TargetDetection | called by the workers |
| Metrics | counters and gauges | record..., set... | all of them |
| RealtimeManager | none of its own: memory locks, scheduling of threads | lockProcessMemory, configureCurrentThread | main thread, entry of every thread |
| PiMutex | a priority-inheriting pthread mutex | constructor, lock, try_lock, unlock | the queues |

The hard parts are the wakeups of the two condition variables, the close/drain
protocol, lock-free heartbeat reads, deadlines after a slow push, exceptions on
any thread, a start that fails half-way, joins of threads that may be blocked,
and threads of four priorities that share a lock. `PROJECT.json` lists them as hazards, each at its line.

## Modules

- **ThreadSafeQueue** models the queue at the grain of its lock. `pc[t]` says
  where a thread is: going for the lock, evaluating a wait predicate, about to
  sleep, blocked, in the body, or owing a notification. Lock, predicate, sleep,
  body and each notify call are separate steps. Since the mutex guards all that
  the body touches except the counter, the body up to the unlock is one step.
  Spurious wakeups are steps. With `AllocFails` the allocation inside a push may
  throw after the eviction (`StoreThrows`). It then notifies nobody, so on a queue
  of capacity one a `waitUntilEmpty()` may sleep on although the queue is empty:
  NoLostSpaceWakeup excepts this case. By default the program's queues are larger, and
  none of its threads calls `waitUntilEmpty()`. `stored`, `removed`, `evicted`, `refused` are history.
- **BoundedQueue** is what the queue promises: each operation takes effect in one
  step. ThreadSafeQueue implements it with `calling` mapped to the threads whose
  body has not run yet.
- **ShutdownToken** models `requestShutdown()` and the timed `waitFor()` at the
  same grain, with timeouts and spurious wakeups. The locked block of
  `requestShutdown()` is one step, the notification another.
- **Watchdog** models heartbeats and a scan with a clock: sampling the clock,
  the two stores of `markRunning()` and the two loads of the scan are separate
  steps. All accesses are release/acquire, and the properties need only that
  order, so steps act on the latest values.
- **RadarProducer** models the deadline arithmetic with a clock that advances
  between any two steps; a push or wait may take any time. A missed deadline is
  realigned to now (`radar_producer.cpp:69`), so the sentence of
  `ARCHITECTURE.md:436`, "each deadline is the previous one plus the period, never
  `now + period`", holds between misses only; NoDrift and NoBurst say what holds
  without and with them.
- **SignalProcessor** models `process()`: filter, in-place FFT and detector, one
  step per loop iteration of the first two. Arithmetic is exact. A filtered sample
  is the average of two or three samples and is kept in sixths, so that it is an
  integer too. With
  z = exp(-2 pi i / N) the numbers the FFT computes from integers are integer
  combinations of powers of z, kept as their coefficients. Powers of two are the
  numbers without an odd divisor but 1, and `Bit` is the test `j & bit`. Magnitudes are
  abstracted to levels that are zero for zero only.
- **Application** composes the threads. Queues are atomic, as in BoundedQueue,
  and the token is a flag. Time is abstracted: a timed wait may end at any
  moment, and a Running heartbeat may be too old at any moment. A timeout or
  EINTR of `ppoll` is a stuttering step. Any thread may throw anywhere in its
  loop (`Throw`), and any `start()` may fail (`StartFails`).

- **RealtimeManager** models both stages of the realtime configuration, each
  system call of which may fail, the pages the prefault loops reach, and the
  warnings. An errno is abstracted to the call that failed. No thread of the
  program asks for a CPU today; the path that does is modelled with `Pinned`.
- **PiMutex** extends it with the constructor, call by call, and the lock. A
  `lock()` or `try_lock()` may throw (`LockThrows`), which ends the thread. The
  pthread mutex is external: on release it goes to its most urgent waiter.
- **RealtimeScheduling** composes the two with the threads and with the kernel
  (external): on `Cpus` processors a thread may run when fewer than `Cpus`
  runnable ones are more urgent, and the owner of the mutex inherits the priority
  of its waiters. Threads work, sleep and use the queue's lock; the kernel
  preempts at any step. Construction precedes the memory stage, which precedes
  the threads, as in `Application`.

`MC*` modules and `.cfg` files are the instances for TLC. Definitions marked
MUTANT are faulty variants used to confirm that a property can fail.

## Runs

| Run | Instance | Shows |
|---|---|---|
| queue_block | 2 push, 2 waitAndPop, 1 close/waitUntilEmpty; capacity 2, 4 items, 1 spurious wakeup | order, capacity, final end-of-stream, no lost wakeup |
| queue_drop_oldest | 3 threads, all operations, allocations that fail; capacity 2, 3 items | drops are counted exactly; implements BoundedQueue |
| queue_progress | as queue_block, capacity 1, 2 items, fair | operations that can return do return |
| token | 3 threads, fair | no lost request; results are truthful; sleepers are released |
| watchdog | 2 heartbeats, timeout 1, time to 4 | no false and no missed stall |
| producer | period 3, time to 14 | no drift without a miss, no burst, bounded wait |
| realtime | 4 threads at the priorities of `config.hpp`, 1 processor, 3 of them share the mutex; pages of 4 bytes, blocks of 2 and 4 pages at any offset; fair | truthful warnings, complete construction, bounded inversion, the urgent thread is served |
| signal | 16 samples, every unit impulse and three constants | the FFT is the DFT; permutation, filter edges, detection of a pure tone |
| app_drain | 2 workers, capacities 1, 2 signals, 1 stall, 1 fault | the drain loses nothing but what an exception held; all threads joined |
| app_liveness | 1 worker, capacities 1, 2 signals, 1 stall, 1 fault, escalation, fair | run() ends whatever asked for it; the drain has a bounded number of steps |
| app_log_drops, app_late_push | see Findings | documented claims that the code does not meet |

Bounds: capacity 1 or 2 with more items than slots makes queues fill, block,
evict and empty. Two producers and two consumers are what wakeups can be lost
between. Two workers are enough for the drop-count race and for one to outlive
another. In the realtime run the producer preempts from above, the watchdog from
between the DSP worker and the logger, which is what an inversion needs; one
processor is the hardest case, and the proof covers any number. A thread in that
run stands for all DSP workers, whose priority is the same. In app_liveness the
death of the one worker leaves the producer blocked on a full queue.
Time bounds leave room for several periods, or several scans, with misses.
DropNewest is covered by the proofs only. In Application the producer stops
offering signals after `MaxSignals` and then only waits for the shutdown.

The filter and the FFT are linear, so the impulses stand for all signals of 16
samples; the code has 256, and the proofs cover every power of two and every
signal.

Deadlock checking is off in the queue runs, where threads may rest blocked when
the items are used up or nobody closes the queue, and in the producer run, where
loop and clock both end, in the signal run, where `process()` returns, and in the
realtime run, where the program ends when a constructor throws. It is on
elsewhere.

Fairness: each thread inside an operation is scheduled (weak fairness), which a
running operating system provides. In the queue and the token a thread that asks
for a mutex which is free again and again obtains it (strong fairness of Lock).
POSIX promises no such thing for a mutex in general: it is an assumption about
the scheduler. In Application weak fairness of a thread also means that its
timed waits end, as timeouts do, and that a called `process()` or sink write
returns. In RealtimeScheduling a thread that is surely on a processor again and
again, whoever wins ties, gets on with its code (strong fairness: other threads
may preempt it in between). Who gets the processor follows from the priorities
alone, so a starved thread stays starved. It also means that a thread that does
not use the queue goes back to sleep: the producer's work is assumed to fit in
its period. Signals, faults and calls of operations are never assumed to happen.

## Findings

Each is a sentence of the documentation that a run refutes.

- `ARCHITECTURE.md:79`, "Dropped items are always counted in `Metrics`":
  `thread_pool.cpp:82` reads and stores the total in two steps, so two workers
  can leave the smaller one.
- `docs/diagrams.md:118`, "no further pushes are possible": a scan under way may
  push its stall record after the output queue was closed (`watchdog.cpp:98`).

## Proofs

Each proof shows that an inductive invariant holds initially and is preserved by
every action, and derives the properties from it.

- **ThreadSafeQueueProofs**, for any finite set of threads, any capacity and
  policy (`QueueAssumption`). `QueueInv` joins TypeOK, LockDiscipline, CapacityBound and
  FifoConservation with `CallInv`: a thread inside an operation knows which, and
  only waiting operations are in wait loops. Without it a body could act on an
  operation it never called. NoLostSpaceWakeup and NoLostItemWakeup are each
  inductive relative to QueueInv; the latter counts awake consumers and pending
  notifications, using the cardinality theorems.
  The refinement: every step of the lock-level queue is a step of BoundedQueue
  or leaves it alone, under QueueInv. BlockingPushNeverDrops and DropsCounted hold
  for every policy and with allocations that fail. `OfferInv` says that no two
  threads offer the same item and that an item still offered was not refused;
  `StoreInv` adds that it was not stored either, that no item is stored twice,
  and that an evicted one was removed. So an eviction or a refusal adds a new
  element to its set when it adds one to the counter.
- **ShutdownTokenProofs**, for any threads: `TokenInv` adds that a thread about
  to sleep saw the flag clear, and that a call made after the request neither
  blocks nor times out.
- **WatchdogProofs**, for any number of heartbeats and any timeout: `ScanInv`
  adds that a timestamp never falls behind the beat its state shows (the store
  order), and that every overdue heartbeat already visited is reported.
- **RadarProducerProofs**, for any period: `DeadlineInv` adds that the deadline
  is start + samples * period + slip, and how far ahead of the clock it may be.
- **RealtimeProofs**, for any threads, priorities and number of processors:
  `RealtimeInv` adds how far the constructor's calls have come and that nothing
  is configured before construction and the memory stage are over. With it
  InversionBounded follows from inheritance: the owner has a priority at least
  that of every waiter, so a thread below a waiter is behind the owner.
  PrefaultReachesPages is proved for any page size, block sizes and alignment:
  a stride of at most a page leaves no page between two writes untouched, and the
  last byte of the stack block is written as well.
- **NumberTheorems** holds what RealtimeProofs and SignalProcessorProofs need and
  the library does not state: uniqueness of quotient and remainder, powers of two by
  their divisors, sums of a function over a finite set, extremes of a finite set,
  and induction over the numbers in the form "a nonempty set of numbers has a
  least member".
- **SignalProcessorProofs**, for every power of two N, every set of signals and
  every set of magnitudes. `ProcessorInv` joins TypeOK with
  - `LoopInv`: which values the loop variables have in each stage; the exponent
    of w is k times that of wLen;
  - `FilterInv`: the samples filtered so far lie between their taps; `CountOfTaps`
    shows that there are two or three, so that sixths are exact;
  - `DataInv`: in the permutation, PermutationReversesBits; in the butterflies,
    what every cell of the buffer holds (`Value`). At length l, cell c holds value
    c mod l of the transform of every (N / l)-th sample, from sample
    Reversal(c) mod (N / l) on. The cells whose butterfly is done (`Done`) are at
    length len, the others at len / 2;
  - `DetectionInv`: spectrum and detection agree with the transform.

  Three lemmas carry the weight. `CarryStep`: the carry of the inner loop, from the
  top bit down, adds one to the index read in reversed bits. `ReversalUnique`:
  binary digits determine a number, so Reversal, defined by a CHOOSE, is what the
  loop counts. `Combine`: two values of the transform over a residue class are the
  sum and the difference of a value over each of its two halves, the second
  rotated, which is one butterfly. At length 1 a value is one sample
  (`PartOfOne`), at length N it is one of the transform (`PartOfAll`).
- **ApplicationProofs**, for any number of workers, any capacities and any number
  of signals, stalls and faults. `TypeInv` adds to the types that what is in the
  input queue and in the workers' hands are signals that were pushed. `OrderInv`
  says, for each statement of `shutdown()`, which queues are closed and which
  threads have ended; it gives NoThreadOutlivesRun and DspRecordsNeverRejected.
  `LossInv` counts: signals pushed less those processed, queued and being
  processed are at most the exceptions. `StartedInv` records the start order and
  that a logger that left its loop left an empty queue. `CleanInv` says that
  without an exception the record of every signal is somewhere: queued, in a
  thread's hands, written or evicted. Together they give DrainLosesNothing.
  DrainTerminates is proved with a ranking: `WorkLeft` weighs the items of both
  queues and how far each thread is from its end. From the moment `shutdown()` has
  set the token every step of every thread lowers it, and it starts at no more than
  7 * InputCapacity + 2 * OutputCapacity + 11 * WorkerCount + 33. `DrainInv` is what
  that needs: while draining the token is set, so the producer does not pace
  another signal and the watchdog does not begin another scan; and a scan under way
  has at most the registered heartbeats left. NoJoinBlocks says
  that each join comes after what releases its thread. That is the part of
  ShutdownCompletes from the token on, short of the fairness that makes an enabled
  thread run.

Only model-checked: liveness (ImplementsFairBoundedQueue,
RequestReleasesSleepers, UrgentThreadServed, ShutdownCompletes), which is out of
the prover's reach. Every invariant of a passing run, DrainTerminates and the
refinement are proved. The inductive invariants are stated in the modules of proofs; no run checks
them as a whole.

## Not modelled

- Floating point: SignalProcessor says nothing of rounding to a float, nor of the values of
  magnitudes beyond being zero or equal.
- Sinks, line formatting, configuration values, random samples: output and data.
- Depth and latency gauges (documented as approximate), and `inputDrops`, which
  mirrors a counter that BlockingPushNeverDrops shows to stay zero.
- A failing `pthread_mutex_unlock`, which indicates misuse and whose result is
  discarded, and a queue operation whose lock fails: PiMutex models the throw, the
  queue does not, and `close()`, which is noexcept, would end the process. The
  destructors. `std::condition_variable_any` has an internal mutex of
  its own, without priority inheritance, and so has `ShutdownToken` a plain
  `std::mutex`: RealtimeScheduling speaks of the queue's `PiMutex` only.
- The signal mask, the signalfd and the throws of the `SignalHandler` constructor.
  A second signal during the drain stays pending and is never read.
- `reportUnhandledException()` and the wording of warnings: they print.
- `HeartbeatRegistry` registration and the construction of `Application`, which
  happen on one thread before any other exists; the moves of `ManagedThread`.
- In Application an exception leaves the queues as they are. A push that evicts
  and then throws is modelled in the queue only; it would cost one more record,
  which droppedCount_ counts.
- That Application's atomic queues may be replaced by the lock-level ones rests
  on the refinement; the composition itself is not checked.
