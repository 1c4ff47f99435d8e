------------------------- MODULE ShutdownTokenProofs -------------------------
(***************************************************************************)
(* Proofs about ShutdownToken, for any set of threads.                     *)
(***************************************************************************)
EXTENDS ShutdownToken, TLAPS

\* The inductive invariant: the type invariant with its lock discipline, the
\* two properties, and what a thread on its way through waitFor() knows.  One
\* that called it after the request neither times out nor blocks.
TokenInv ==
    /\ TypeOK
    /\ NoLostWakeup
    /\ WaitForIsTruthful
    /\ \A t \in Threads : pc[t] = "sleep" => ~requested
    /\ \A t \in Threads :
          t \in early => requested /\ (pc[t] \in {"lock", "check"} => t \notin expired)
                         /\ pc[t] \notin {"sleep", "blocked"}

\* TokenInv holds when no thread has called anything.
LEMMA TokenInvInit == Init => TokenInv
BY TokenAssumption DEF Init, TokenInv, TypeOK, NoLostWakeup, WaitForIsTruthful

\* Every step of requestShutdown() and of waitFor() preserves TokenInv.
LEMMA TokenInvStep == TokenInv /\ [Next]_vars => TokenInv'
<1> SUFFICES ASSUME TokenInv, [Next]_vars PROVE TokenInv'
  OBVIOUS
<1> USE TokenAssumption DEF TokenInv, TypeOK, NoLostWakeup, WaitForIsTruthful, Goto
<1>1. ASSUME NEW t \in Threads, Request(t) PROVE TokenInv'
  BY <1>1 DEF Request, LockToRequest
<1>2. ASSUME NEW t \in Threads, Notify(t) PROVE TokenInv'
  BY <1>2 DEF Notify
<1>3. ASSUME NEW t \in Threads, WaitFor(t) PROVE TokenInv'
  BY <1>3 DEF WaitFor
<1>4. ASSUME NEW t \in Threads, Lock(t) PROVE TokenInv'
  BY <1>4 DEF Lock, LockToWait
<1>5. ASSUME NEW t \in Threads, Return(t) PROVE TokenInv'
  BY <1>5 DEF Return, Result, WaitEnds
<1>6. ASSUME NEW t \in Threads, Check(t) PROVE TokenInv'
  BY <1>6 DEF Check, WaitEnds
<1>7. ASSUME NEW t \in Threads, Sleep(t) PROVE TokenInv'
  BY <1>7 DEF Sleep
<1>8. ASSUME NEW t \in Threads, Timeout(t) PROVE TokenInv'
  BY <1>8 DEF Timeout
<1>9. ASSUME NEW t \in Threads, Wake(t) PROVE TokenInv'
  BY <1>9 DEF Wake
<1>10. CASE UNCHANGED vars
  BY <1>10 DEF vars
<1>q. QED
  BY <1>1, <1>2, <1>3, <1>4, <1>5, <1>6, <1>7, <1>8, <1>9, <1>10 DEF Next, Step

\* TokenInv holds in every state of every behaviour.
THEOREM TokenInvariant == Spec => []TokenInv
BY TokenInvInit, TokenInvStep, PTL DEF Spec

\* The token, its waiters and their results keep their types.
THEOREM TokenTypes == Spec => []TypeOK
<1>1. TokenInv => TypeOK
  BY DEF TokenInv
<1>q. QED
  BY <1>1, TokenInvariant, PTL

\* requestShutdown() loses no wakeup: the flag is set under the lock that a
\* waiter holds from its last look at the flag until it blocks.
THEOREM NoLostWakeupHolds == Spec => []NoLostWakeup
<1>1. TokenInv => NoLostWakeup
  BY DEF TokenInv
<1>q. QED
  BY <1>1, TokenInvariant, PTL

\* waitFor() tells a request from a timeout and from a stray wakeup.
THEOREM WaitForHolds == Spec => []WaitForIsTruthful
<1>1. TokenInv => WaitForIsTruthful
  BY DEF TokenInv
<1>q. QED
  BY <1>1, TokenInvariant, PTL
=============================================================================
