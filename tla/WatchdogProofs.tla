--------------------------- MODULE WatchdogProofs ---------------------------
(***************************************************************************)
(* Proofs about Watchdog, for any number of heartbeats, any timeout and    *)
(* any bound on time.                                                      *)
(***************************************************************************)
EXTENDS Watchdog, TLAPS

\* The timestamp of a heartbeat never falls behind the beat its state shows,
\* because markRunning() stores the timestamp first; what the scan saw is older.
BeatInv ==
    \A w \in Workers :
        /\ beat[w] <= timestamp[w] /\ seen[w] <= timestamp[w]
        /\ worker[w] = "first" => timestamp[w] <= sampled[w]
        /\ worker[w] = "second" => timestamp[w] = sampled[w]

\* The scan reports only heartbeats before next, and every overdue one of them.
JudgeInv ==
    /\ watchdog # "wait" => \A w \in reported : w < next
    /\ \A w \in overdue :
          /\ state[w] = "Running" /\ now - timestamp[w] > Timeout
          /\ watchdog = "wait" \/ w < next => w \in reported

\* The inductive invariant.
ScanInv == TypeOK /\ BeatInv /\ JudgeInv /\ NoFalseStall

\* ScanInv holds before the first beat and the first scan.
LEMMA ScanInvInit == Init => ScanInv
BY WatchdogAssumption DEF Init, ScanInv, TypeOK, BeatInv, JudgeInv, NoFalseStall, Workers

\* Every step of a worker, of the scan and of the clock preserves ScanInv.
LEMMA ScanInvStep == ScanInv /\ [Next]_vars => ScanInv'
<1> SUFFICES ASSUME ScanInv, [Next]_vars PROVE ScanInv'
  OBVIOUS
<1> USE WatchdogAssumption DEF ScanInv, TypeOK, NoFalseStall, Workers
<1> USE DEF BeatInv, JudgeInv
<1>1. CASE Tick
  <2> USE <1>1 DEF Tick, beats, scan
  <2>1. clock \in Int /\ clock' = clock + 1 /\ clock' \in 0..MaxTime /\ 0..clock \subseteq 0..clock'
    OBVIOUS
  <2>2. /\ timestamp' \in [Workers -> 0..clock'] /\ sampled' \in [Workers -> 0..clock']
        /\ beat' \in [Workers -> 0..clock'] /\ seen' \in [Workers -> 0..clock']
    BY <2>1
  <2>3. TypeOK'
    BY <2>1, <2>2
  <2>4. BeatInv' /\ JudgeInv' /\ NoFalseStall'
    OBVIOUS
  <2>q. QED
    BY <2>3, <2>4
<1>2. ASSUME NEW w \in Workers, WorkerStep(w) PROVE ScanInv'
  <2>1. CASE MarkRunning(w)
    <3> USE <1>2, <2>1 DEF WorkerStep, MarkRunning, Sample, scan
    <3>0. clock \in 0..clock
      OBVIOUS
    <3>1. TypeOK'
      BY <3>0
    <3>2. BeatInv'
      OBVIOUS
    <3>3. JudgeInv' /\ NoFalseStall'
      OBVIOUS
    <3>q. QED
      BY <3>1, <3>2, <3>3
  <2>2. CASE Publish(w)
    <3> USE <1>2, <2>2 DEF WorkerStep, Publish, Store, StoreTimestamp, StoreRunning, scan
    <3>1. TypeOK'
      <4>1. /\ timestamp' \in [Workers -> 0..clock] /\ beat' \in [Workers -> 0..clock]
            /\ state' \in [Workers -> {"Running", "WaitingForInput"}]
        <5>1. CASE worker[w] = "first"
          BY ONLY <2>2, <5>1, w \in Workers, TypeOK
             DEF Publish, Store, StoreTimestamp, TypeOK
        <5>2. CASE worker[w] # "first"
          BY ONLY <2>2, <5>2, w \in Workers, TypeOK
             DEF Publish, Store, StoreRunning, TypeOK
        <5>q. QED
          BY ONLY <5>1, <5>2
      <4>2. worker' \in [Workers -> {"out", "first", "second"}]
        BY ONLY <2>2, w \in Workers, TypeOK DEF Publish, TypeOK
      <4>3. /\ UNCHANGED <<clock, sampled, watchdog, now, next, reported, seen>>
            /\ overdue' \in SUBSET Workers
        BY ONLY <1>2, <2>2, TypeOK DEF WorkerStep, Publish, scan, TypeOK
      <4>q. QED
        BY ONLY <4>1, <4>2, <4>3, TypeOK DEF TypeOK
    <3>2. BeatInv'
      <4>0. \A v \in Workers : {timestamp[v], sampled[v], beat[v], seen[v]} \subseteq Int
        OBVIOUS
      <4>1. \A v \in Workers : v # w =>
               /\ timestamp'[v] = timestamp[v] /\ beat'[v] = beat[v]
               /\ worker'[v] = worker[v]
        OBVIOUS
      <4>2. UNCHANGED <<sampled, seen>>
        OBVIOUS
      <4>3. \/ /\ worker[w] = "first" /\ worker'[w] = "second"
               /\ timestamp'[w] = sampled[w] /\ beat'[w] = beat[w]
            \/ /\ worker[w] = "second" /\ worker'[w] = "out"
               /\ timestamp'[w] = timestamp[w] /\ beat'[w] = sampled[w]
        OBVIOUS
      <4>4. BeatInv
        OBVIOUS
      <4>q. QED
        BY ONLY <4>0, <4>1, <4>2, <4>3, <4>4, w \in Workers DEF BeatInv
    <3>3. \A v \in overdue' : /\ v \in overdue /\ v # w
                             /\ state'[v] = state[v] /\ timestamp'[v] = timestamp[v]
      OBVIOUS
    <3>4. UNCHANGED <<watchdog, now, next, reported, seen>>
      OBVIOUS
    <3>5. JudgeInv' /\ NoFalseStall'
      BY ONLY <3>3, <3>4, ScanInv DEF ScanInv, JudgeInv, NoFalseStall
    <3>q. QED
      BY <3>1, <3>2, <3>5
  <2>3. CASE MarkWaiting(w)
    BY <1>2, <2>3 DEF WorkerStep, MarkWaiting, scan
  <2>q. QED
    BY <1>2, <2>1, <2>2, <2>3 DEF WorkerStep
<1>3. CASE ScanStep
  <2>1. CASE BeginScan
    <3> USE <1>3, <2>1 DEF ScanStep, BeginScan, beats
    <3>1. TypeOK'
      <4>1. /\ UNCHANGED <<clock, timestamp, state, worker, sampled, beat, seen>>
            /\ watchdog' = "state" /\ now' = clock /\ next' = 1
            /\ reported' = {} /\ overdue' \subseteq Workers
        BY ONLY <1>3, <2>1 DEF ScanStep, BeginScan, beats
      <4>2. clock \in 0..clock /\ 1 \in 1..(WorkerCount + 1) /\ 1 \in Workers
        BY ONLY TypeOK, WatchdogAssumption DEF TypeOK, WatchdogAssumption, Workers
      <4>q. QED
        BY ONLY <4>1, <4>2, TypeOK DEF TypeOK
    <3>2. BeatInv'
      OBVIOUS
    <3>3. JudgeInv' /\ NoFalseStall'
      OBVIOUS
    <3>q. QED
      BY <3>1, <3>2, <3>3
  <2>2. CASE ReadState
    <3> USE <1>3, <2>2 DEF ScanStep, ReadState, Visit, beats
    <3>0. /\ next \in Workers /\ next \in Int /\ WorkerCount \in Int
          /\ \A v \in Workers : v \in Int /\ v <= WorkerCount
      OBVIOUS
    <3>a. \/ watchdog' = "timestamp" /\ next' = next
          \/ watchdog' = "state" /\ next' = next + 1 /\ next < WorkerCount
          \/ watchdog' = "wait" /\ next' = next + 1 /\ ~(next < WorkerCount)
      OBVIOUS
    <3>b. next' \in 1..(WorkerCount + 1) /\ (watchdog' # "wait" => next' \in Workers)
      BY ONLY <3>0, <3>a DEF Workers
    <3>1. TypeOK'
      BY <3>a, <3>b
    <3>2. BeatInv'
      OBVIOUS
    <3>3. \A v \in reported : v < next' /\ v # next
      <4>1. \A v \in reported : v \in Workers /\ v < next
        OBVIOUS
      <4>q. QED
        BY ONLY <4>1, <3>0, <3>a
    <3>4. \A v \in overdue : v \in Workers /\ v < next => v \in reported
      OBVIOUS
    <3>5. \A v \in overdue : watchdog' = "wait" \/ v < next' => v < next
      <4>1. watchdog' # "timestamp" => next \notin overdue
        OBVIOUS
      <4>2. overdue \subseteq Workers
        OBVIOUS
      <4>q. QED
        BY ONLY <4>1, <4>2, <3>0, <3>a
    <3>6. JudgeInv'
      <4>1. \A v \in overdue : state'[v] = "Running" /\ now' - timestamp'[v] > Timeout
        OBVIOUS
      <4>2. UNCHANGED <<overdue, reported>> /\ overdue \subseteq Workers
        OBVIOUS
      <4>q. QED
        BY ONLY <3>3, <3>4, <3>5, <4>1, <4>2 DEF JudgeInv
    <3>7. NoFalseStall'
      BY <3>3
    <3>q. QED
      BY <3>1, <3>2, <3>6, <3>7
  <2>3. CASE ReadTimestamp
    <3> USE <1>3, <2>3 DEF ScanStep, ReadTimestamp, Visit, beats
    <3>0. /\ next \in Workers /\ next \in Int /\ WorkerCount \in Int
          /\ \A v \in Workers : v \in Int /\ v <= WorkerCount
      OBVIOUS
    <3>a. /\ next' = next + 1
          /\ \/ watchdog' = "state" /\ next < WorkerCount
             \/ watchdog' = "wait" /\ ~(next < WorkerCount)
      OBVIOUS
    <3>b. next' \in 1..(WorkerCount + 1) /\ (watchdog' # "wait" => next' \in Workers)
      BY ONLY <3>0, <3>a DEF Workers
    <3>1. TypeOK'
      BY <3>0, <3>a, <3>b
    <3>2. BeatInv'
      OBVIOUS
    <3>3. now - timestamp[next] > Timeout => now - seen[next] > Timeout
      <4>1. /\ now \in Int /\ timestamp[next] \in Int /\ seen[next] \in Int
            /\ Timeout \in Int
        BY ONLY <3>0, TypeOK, WatchdogAssumption DEF TypeOK, WatchdogAssumption
      <4>2. seen[next] <= timestamp[next]
        BY ONLY <3>0, BeatInv DEF BeatInv
      <4>q. QED
        BY ONLY <4>1, <4>2
    <3>4. NoFalseStall'
      BY <3>3
    <3>5. next \in overdue => next \in reported'
      OBVIOUS
    <3>6. \A v \in reported' : v < next'
      <4>1. \A v \in reported' : v \in Workers /\ (v < next \/ v = next)
        BY <3>0
      <4>q. QED
        BY ONLY <4>1, <3>0, <3>a
    <3>7. \A v \in overdue : watchdog' = "wait" \/ v < next' => v < next \/ v = next
      <4>1. overdue \subseteq Workers
        OBVIOUS
      <4>q. QED
        BY ONLY <4>1, <3>0, <3>a
    <3>8. \A v \in overdue : v < next => v \in reported'
      OBVIOUS
    <3>9. JudgeInv'
      <4>1. \A v \in overdue : state'[v] = "Running" /\ now' - timestamp'[v] > Timeout
        OBVIOUS
      <4>2. UNCHANGED overdue
        OBVIOUS
      <4>q. QED
        BY ONLY <3>5, <3>6, <3>7, <3>8, <4>1, <4>2 DEF JudgeInv
    <3>q. QED
      BY <3>1, <3>2, <3>4, <3>9
  <2>q. QED
    BY <1>3, <2>1, <2>2, <2>3 DEF ScanStep
<1>4. CASE UNCHANGED vars
  BY <1>4 DEF vars, beats, scan
<1>q. QED
  BY <1>1, <1>2, <1>3, <1>4 DEF Next

\* ScanInv holds in every state of every behaviour.
THEOREM ScanInvariant == Spec => []ScanInv
BY ScanInvInit, ScanInvStep, PTL DEF Spec

\* The heartbeats and the scan keep their types.
THEOREM WatchdogTypes == Spec => []TypeOK
<1>1. ScanInv => TypeOK
  BY DEF ScanInv
<1>q. QED
  BY <1>1, ScanInvariant, PTL

\* scanOnce() reports no worker whose visible beat is within the timeout.
THEOREM NoFalseStallHolds == Spec => []NoFalseStall
<1>1. ScanInv => NoFalseStall
  BY DEF ScanInv
<1>q. QED
  BY <1>1, ScanInvariant, PTL

\* scanOnce() reports every worker that is stalled throughout the scan.
THEOREM NoMissedStallHolds == Spec => []NoMissedStall
<1>1. ScanInv => NoMissedStall
  BY DEF ScanInv, JudgeInv, NoMissedStall
<1>q. QED
  BY <1>1, ScanInvariant, PTL
=============================================================================
