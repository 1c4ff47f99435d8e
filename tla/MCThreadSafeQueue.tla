-------------------------- MODULE MCThreadSafeQueue --------------------------
(***************************************************************************)
(* Instances of ThreadSafeQueue for TLC.                                   *)
(***************************************************************************)
EXTENDS ThreadSafeQueue, TLC

CONSTANTS p1, p2, c1, c2, m

\* Two pushing threads, two popping threads and one that closes the queue and
\* waits for it to empty, as the tests' main thread does.
MixedThreads == {p1, p2, c1, c2, m}
MixedCalls ==
    [t \in MixedThreads |->
        CASE t \in {p1, p2} -> {"push"}
          [] t \in {c1, c2} -> {"waitAndPop"}
          [] OTHER -> {"close", "waitUntilEmpty"}]

\* Three threads, each free to call every operation.
FreeThreads == {p1, c1, m}
FreeCalls == [t \in FreeThreads |-> Operations]

\* Swapping threads with the same calls changes nothing.
MixedSymmetry == Permutations({p1, p2}) \cup Permutations({c1, c2})
FreeSymmetry == Permutations(FreeThreads)
=============================================================================
