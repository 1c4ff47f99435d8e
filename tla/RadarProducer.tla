---------------------------- MODULE RadarProducer ----------------------------
(***************************************************************************)
(* The timing of produceLoop() in src/radar_producer.cpp: the deadline     *)
(* arithmetic, with a clock that advances between any two steps.  A push   *)
(* may take arbitrarily long (the input queue blocks), and the timed wait  *)
(* ends at its deadline or any time later.                                 *)
(***************************************************************************)
EXTENDS Integers

CONSTANTS Period,    \* producer().samplePeriod
          MaxTime    \* bound: the clock stops here

ASSUME ProducerAssumption == Period \in Nat \ {0} /\ MaxTime \in Nat

VARIABLES clock, nextDeadline,
          pc,         \* where produceLoop() is
          wakeup,     \* remaining, and once the wait is entered the time it may end
          misses,     \* metrics: deadlineMisses
          samples,    \* metrics: signalsProduced
          start,      \* history: the clock when the loop was entered
          slipped     \* history: by how much realignments moved the deadlines

vars == <<clock, nextDeadline, pc, wakeup, misses, samples, start, slipped>>

Init == /\ clock = 0 /\ nextDeadline = 0 /\ pc = "enter" /\ wakeup = 0
        /\ misses = 0 /\ samples = 0 /\ start = 0 /\ slipped = 0

Tick == /\ clock < MaxTime /\ clock' = clock + 1
        /\ UNCHANGED <<nextDeadline, pc, wakeup, misses, samples, start, slipped>>

Enter == /\ pc = "enter" /\ pc' = "push"
         /\ nextDeadline' = clock /\ start' = clock
         /\ UNCHANGED <<clock, wakeup, misses, samples, slipped>>

\* The loop condition or push() ends the loop: shutdown is under way.
Stop == /\ pc \in {"push", "wait"} /\ pc' = "done"
        /\ UNCHANGED <<clock, nextDeadline, wakeup, misses, samples, start, slipped>>

\* MUTANT of Advance: now + period.
AdvanceFromNow == clock + Period
\* nextDeadline += period
Advance == nextDeadline + Period

\* push() returned true: the sample is counted and the deadline advanced.
Push == /\ pc = "push" /\ pc' = "deadline"
        /\ samples' = samples + 1
        /\ nextDeadline' = Advance
        /\ UNCHANGED <<clock, wakeup, misses, start, slipped>>

\* MUTANT of Realigned: the missed deadline is kept, and the next ones come in a burst.
KeepMissed == nextDeadline
\* MUTANT of Realigned: a whole period is skipped.
RealignAhead == clock + Period
\* nextDeadline = now
Realigned == clock

\* MUTANT of Missed: the last tick before the deadline is too late.
MissedEarly == nextDeadline - clock <= 1
\* remaining <= 0
Missed == nextDeadline - clock <= 0

\* A missed deadline: count the miss, realign and go on at once.
Miss == /\ pc = "deadline" /\ pc' = "push"
        /\ Missed
        /\ misses' = misses + 1
        /\ slipped' = slipped + (clock - nextDeadline)
        /\ nextDeadline' = Realigned
        /\ UNCHANGED <<clock, wakeup, samples, start>>

\* waitFor(remaining) is called: remaining is counted from the sampled now.
Wait == /\ pc = "deadline" /\ pc' = "entering"
        /\ ~Missed
        /\ wakeup' = nextDeadline - clock
        /\ UNCHANGED <<clock, nextDeadline, misses, samples, start, slipped>>

\* wait_for() adds the duration to the time at which it is entered.
EnterWait == /\ pc = "entering" /\ pc' = "wait"
             /\ wakeup' = clock + wakeup
             /\ UNCHANGED <<clock, nextDeadline, misses, samples, start, slipped>>

Timeout == /\ pc = "wait" /\ pc' = "push"
           /\ clock >= wakeup
           /\ UNCHANGED <<clock, nextDeadline, wakeup, misses, samples, start, slipped>>

Next == Tick \/ Enter \/ Stop \/ Push \/ Miss \/ Wait \/ EnterWait \/ Timeout

Spec == Init /\ [][Next]_vars
-----------------------------------------------------------------------------
\* Every variable keeps its type.
TypeOK == /\ {nextDeadline, wakeup, misses, samples, start, slipped} \subseteq Nat
          /\ clock \in 0..MaxTime
          /\ pc \in {"enter", "push", "deadline", "entering", "wait", "done"}

\* Period error does not accumulate: however late the waits end and the pushes
\* return, without a miss the k-th deadline is k periods after the start.
NoDrift == misses = 0 /\ pc # "enter" => nextDeadline = start + samples * Period

\* No burst: the time lost in a miss is never made up by samples in quick
\* succession.  After the first sample there is at most one per elapsed period,
\* not counting the time by which misses moved the deadlines.
NoBurst == pc = "deadline" => samples * Period + slipped <= (clock - start) + Period

\* A wait is never longer than a period, counted from when it is entered.
WaitWithinPeriod == pc = "entering" => wakeup \in 1..Period
=============================================================================
