------------------------- MODULE RadarProducerProofs -------------------------
(***************************************************************************)
(* Proofs about RadarProducer, for any period and any bound on time.       *)
(***************************************************************************)
EXTENDS RadarProducer, TLAPS

\* The inductive invariant: the deadline is the start, a period for each sample
\* and what the misses added; and it is never more than a period ahead of the
\* clock when a sample has just been taken, because no wait ends before it.
DeadlineInv ==
    /\ TypeOK
    /\ pc = "enter" => samples = 0 /\ slipped = 0 /\ misses = 0
    /\ pc # "enter" => nextDeadline = start + samples * Period + slipped
    /\ pc = "push" => nextDeadline <= clock
    /\ pc = "deadline" => nextDeadline <= clock + Period
    /\ pc = "entering" => wakeup \in 1..Period /\ nextDeadline <= clock + wakeup
    /\ pc = "wait" => nextDeadline <= wakeup
    /\ misses = 0 => slipped = 0

\* DeadlineInv holds before the loop is entered.
LEMMA DeadlineInvInit == Init => DeadlineInv
BY ProducerAssumption DEF Init, DeadlineInv, TypeOK

\* Every step of produceLoop() and of the clock preserves DeadlineInv.
LEMMA DeadlineInvStep == DeadlineInv /\ [Next]_vars => DeadlineInv'
<1> SUFFICES ASSUME DeadlineInv, [Next]_vars PROVE DeadlineInv'
  OBVIOUS
<1> USE ProducerAssumption DEF DeadlineInv, TypeOK
<1>1. CASE Tick
  BY <1>1 DEF Tick
<1>2. CASE Enter
  <2>1. 0 * Period = 0
    OBVIOUS
  <2>q. QED
    BY <1>2, <2>1 DEF Enter
<1>3. CASE Stop
  BY <1>3 DEF Stop
<1>4. CASE Push
  <2>1. (samples + 1) * Period = samples * Period + Period
    OBVIOUS
  <2>q. QED
    BY <1>4, <2>1 DEF Push, Advance
<1>5. CASE Miss
  BY <1>5 DEF Miss, Missed, Realigned
<1>6. CASE Wait
  BY <1>6 DEF Wait, Missed
<1>7. CASE EnterWait
  BY <1>7 DEF EnterWait
<1>8. CASE Timeout
  BY <1>8 DEF Timeout
<1>9. CASE UNCHANGED vars
  BY <1>9 DEF vars
<1>q. QED
  BY <1>1, <1>2, <1>3, <1>4, <1>5, <1>6, <1>7, <1>8, <1>9 DEF Next

\* DeadlineInv holds in every state of every behaviour.
THEOREM DeadlineInvariant == Spec => []DeadlineInv
BY DeadlineInvInit, DeadlineInvStep, PTL DEF Spec

\* The deadline, the wait and the counters of produceLoop() keep their types.
THEOREM ProducerTypes == Spec => []TypeOK
<1>1. DeadlineInv => TypeOK
  BY DEF DeadlineInv
<1>q. QED
  BY <1>1, DeadlineInvariant, PTL

\* Without a miss the deadlines of produceLoop() stay on the grid of its start.
THEOREM NoDriftHolds == Spec => []NoDrift
<1>1. DeadlineInv => NoDrift
  BY ProducerAssumption DEF DeadlineInv, TypeOK, NoDrift
<1>q. QED
  BY <1>1, DeadlineInvariant, PTL

\* produceLoop() never makes up for lost time with a burst of samples.
THEOREM NoBurstHolds == Spec => []NoBurst
<1>1. DeadlineInv => NoBurst
  BY ProducerAssumption DEF DeadlineInv, TypeOK, NoBurst
<1>q. QED
  BY <1>1, DeadlineInvariant, PTL

\* No wait of produceLoop() is longer than a period.
THEOREM WaitWithinPeriodHolds == Spec => []WaitWithinPeriod
<1>1. DeadlineInv => WaitWithinPeriod
  BY DEF DeadlineInv, WaitWithinPeriod
<1>q. QED
  BY <1>1, DeadlineInvariant, PTL
=============================================================================
