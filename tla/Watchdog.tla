------------------------------ MODULE Watchdog ------------------------------
(***************************************************************************)
(* The heartbeats of include/radar/heartbeat.hpp and the scan of           *)
(* src/watchdog.cpp, with time.  A worker's markRunning() samples the      *)
(* clock, stores the timestamp and stores the state in three steps; the    *)
(* watchdog samples the clock once per scan and reads the state and then   *)
(* the timestamp of each heartbeat in two steps.  The stores are releases  *)
(* and the loads acquires, so each step acts on the latest values.  The    *)
(* clock advances between any two steps.                                   *)
(***************************************************************************)
EXTENDS Integers

CONSTANTS WorkerCount, \* registered heartbeats
          Timeout,     \* watchdog().livenessTimeout
          MaxTime      \* bound: the clock stops here

ASSUME WatchdogAssumption ==
    WorkerCount \in Nat \ {0} /\ Timeout \in Nat /\ MaxTime \in Nat

Workers == 1..WorkerCount

VARIABLES
    clock,       \* the monotonic clock
    timestamp,   \* timestamp_ of each heartbeat
    state,       \* state_ of each heartbeat
    worker,      \* where each worker is: outside its heartbeat, or at a store
    sampled,     \* the time its markRunning() was called with
    watchdog,    \* where scanOnce() is
    now, next,   \* the scan's now; the heartbeat it visits
    reported,    \* the stalls this scan, or the last one, reported
    beat,        \* history: the time of the markRunning() that state_ shows
    seen,        \* history: beat when the scan read state_
    overdue      \* history: stalled when the scan began, and not a step since

beats == <<timestamp, state, worker, sampled, beat>>
scan == <<watchdog, now, next, reported, seen>>
vars == <<clock, beats, scan, overdue>>

Init == /\ clock = 0
        /\ timestamp = [w \in Workers |-> 0]
        /\ state = [w \in Workers |-> "WaitingForInput"]
        /\ worker = [w \in Workers |-> "out"]
        /\ sampled = [w \in Workers |-> 0] /\ beat = [w \in Workers |-> 0]
        /\ watchdog = "wait" /\ now = 0 /\ next = 1
        /\ reported = {} /\ seen = [w \in Workers |-> 0] /\ overdue = {}

Tick == clock < MaxTime /\ clock' = clock + 1 /\ UNCHANGED <<beats, scan, overdue>>

\* MUTANT of Sample: the next deadline is published instead of the present.
SampleAhead == clock + 1
\* clock_.now()
Sample == clock

\* markRunning(clock_.now()) is called.
MarkRunning(w) ==
    /\ worker[w] = "out"
    /\ sampled' = [sampled EXCEPT ![w] = Sample]
    /\ worker' = [worker EXCEPT ![w] = "first"]
    /\ UNCHANGED <<timestamp, state, beat>>

StoreTimestamp(w) == /\ timestamp' = [timestamp EXCEPT ![w] = sampled[w]]
                     /\ UNCHANGED <<state, beat>>

StoreRunning(w) == /\ state' = [state EXCEPT ![w] = "Running"]
                   /\ beat' = [beat EXCEPT ![w] = sampled[w]]
                   /\ UNCHANGED timestamp

\* MUTANT of Store: the state is published before the timestamp.
StoreSwapped(w) == IF worker[w] = "first" THEN StoreRunning(w) ELSE StoreTimestamp(w)
\* The two stores of markRunning(), in their order.
Store(w) == IF worker[w] = "first" THEN StoreTimestamp(w) ELSE StoreRunning(w)

Publish(w) ==
    /\ worker[w] # "out"
    /\ Store(w)
    /\ worker' = [worker EXCEPT ![w] = IF @ = "first" THEN "second" ELSE "out"]
    /\ UNCHANGED sampled

MarkWaiting(w) ==
    /\ worker[w] = "out"
    /\ state' = [state EXCEPT ![w] = "WaitingForInput"]
    /\ UNCHANGED <<timestamp, worker, sampled, beat>>

WorkerStep(w) == /\ MarkRunning(w) \/ Publish(w) \/ MarkWaiting(w)
                 /\ overdue' = overdue \ {w}
                 /\ UNCHANGED <<clock, scan>>

-----------------------------------------------------------------------------
\* scanOnce() samples the clock.
BeginScan ==
    /\ watchdog = "wait" /\ watchdog' = "state"
    /\ now' = clock /\ next' = 1 /\ reported' = {}
    /\ overdue' = {w \in Workers : state[w] = "Running" /\ clock - timestamp[w] > Timeout}
    /\ UNCHANGED seen

\* MUTANT of Visit: the loop of forEach() stops one heartbeat short.
VisitShort == IF next < WorkerCount - 1 THEN "state" ELSE "wait"
\* The visit is over: the next heartbeat, or the end of the scan.
Visit == IF next < WorkerCount THEN "state" ELSE "wait"

\* The state is read: only Running goes on to the timestamp.
ReadState ==
    /\ watchdog = "state"
    /\ seen' = [seen EXCEPT ![next] = beat[next]]
    /\ IF state[next] = "Running"
       THEN watchdog' = "timestamp" /\ UNCHANGED next
       ELSE watchdog' = Visit /\ next' = next + 1
    /\ UNCHANGED <<now, reported, overdue>>

\* The timestamp is read and the age judged; a stall is reported.
ReadTimestamp ==
    /\ watchdog = "timestamp"
    /\ reported' = IF now - timestamp[next] > Timeout THEN reported \cup {next} ELSE reported
    /\ watchdog' = Visit /\ next' = next + 1
    /\ UNCHANGED <<now, seen, overdue>>

ScanStep == (BeginScan \/ ReadState \/ ReadTimestamp) /\ UNCHANGED <<clock, beats>>

Next == Tick \/ ScanStep \/ \E w \in Workers : WorkerStep(w)

Spec == Init /\ [][Next]_vars
-----------------------------------------------------------------------------
\* Every variable keeps its type; no published time lies in the future.
TypeOK ==
    /\ clock \in 0..MaxTime
    /\ timestamp \in [Workers -> 0..clock] /\ sampled \in [Workers -> 0..clock]
    /\ beat \in [Workers -> 0..clock] /\ seen \in [Workers -> 0..clock]
    /\ state \in [Workers -> {"Running", "WaitingForInput"}]
    /\ worker \in [Workers -> {"out", "first", "second"}]
    /\ watchdog \in {"wait", "state", "timestamp"}
    /\ now \in 0..clock /\ next \in 1..(WorkerCount + 1)
    /\ watchdog # "wait" => next \in Workers
    /\ reported \in SUBSET Workers /\ overdue \in SUBSET Workers

\* No false stall: whatever beats and waits come between the reads of a scan, a
\* reported worker was Running when its state was read, on a markRunning() older
\* than the timeout.  A fresh Running is never paired with a stale timestamp.
NoFalseStall == \A w \in reported : now - seen[w] > Timeout

\* No missed stall: a worker that is stalled when a scan begins, and does not
\* move until it ends, is reported by it.
NoMissedStall == watchdog = "wait" => overdue \subseteq reported
=============================================================================
