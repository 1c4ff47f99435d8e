---------------------------- MODULE ShutdownToken ----------------------------
(***************************************************************************)
(* src/shutdown_token.cpp and waitFor() of include/radar/shutdown_token.hpp *)
(* at the grain of the lock: the flag is set under mutex_, the             *)
(* notification follows the unlock, and the timed wait re-evaluates its    *)
(* predicate whenever it is woken, and once more when its time is over.    *)
(* Every thread may request the shutdown or wait, any number of times.     *)
(***************************************************************************)
EXTENDS Naturals

CONSTANTS Threads, NoThread

ASSUME TokenAssumption == NoThread \notin Threads

VARIABLES mutex,     \* the thread that holds mutex_, or NoThread
          requested, \* requested_
          pc,        \* where each thread is
          expired,   \* the threads whose timeout has elapsed
          early,     \* history: the threads that called waitFor() after the request
          ret        \* what each thread's last waitFor() returned

vars == <<mutex, requested, pc, expired, early, ret>>

Goto(t, label) == pc' = [pc EXCEPT ![t] = label]

Init == /\ mutex = NoThread /\ requested = FALSE
        /\ pc = [t \in Threads |-> "idle"]
        /\ expired = {} /\ early = {}
        /\ ret = [t \in Threads |-> "none"]

\* MUTANT of LockToRequest: the flag is stored without the lock.
RequestUnlocked == TRUE
LockToRequest == mutex = NoThread

\* requestShutdown(): the locked block, then notify_all().
Request(t) ==
    /\ pc[t] = "idle"
    /\ LockToRequest
    /\ requested' = TRUE
    /\ Goto(t, "notify")
    /\ UNCHANGED <<mutex, expired, early, ret>>

Notify(t) ==
    /\ pc[t] = "notify"
    /\ pc' = [u \in Threads |-> IF u = t THEN "idle"
                                ELSE IF pc[u] = "blocked" THEN "lock" ELSE pc[u]]
    /\ UNCHANGED <<mutex, requested, expired, early, ret>>

WaitFor(t) ==
    /\ pc[t] = "idle"
    /\ Goto(t, "lock")
    /\ expired' = expired \ {t}
    /\ early' = IF requested THEN early \cup {t} ELSE early
    /\ ret' = [ret EXCEPT ![t] = "none"]
    /\ UNCHANGED <<mutex, requested>>

\* MUTANT of LockToWait: a woken waiter does not take the lock again.
WaitUnlocked == TRUE
LockToWait == mutex = NoThread

\* The lock, on entry and again when the wait ends.
Lock(t) ==
    /\ pc[t] = "lock"
    /\ LockToWait
    /\ mutex' = t
    /\ Goto(t, "check")
    /\ UNCHANGED <<requested, expired, early, ret>>

\* MUTANT of Result: a wait that timed out does not look at the flag again.
ResultOfTimeout(t) == IF t \in expired THEN "false" ELSE "true"
\* What waitFor() returns: the predicate's value.
Result(t) == IF requested THEN "true" ELSE "false"

\* MUTANT of WaitEnds: any wakeup ends the wait, as without a predicate.
AnyWakeupEnds(t) == TRUE
\* The predicate holds, or the time is over.
WaitEnds(t) == requested \/ t \in expired

\* The wait is over: return the predicate's value and unlock.
Return(t) ==
    /\ pc[t] = "check"
    /\ WaitEnds(t)
    /\ ret' = [ret EXCEPT ![t] = Result(t)]
    /\ mutex' = NoThread
    /\ Goto(t, "idle")
    /\ UNCHANGED <<requested, expired, early>>

\* The predicate is false: the thread is about to block.
Check(t) ==
    /\ pc[t] = "check"
    /\ ~WaitEnds(t)
    /\ Goto(t, "sleep")
    /\ UNCHANGED <<mutex, requested, expired, early, ret>>

Sleep(t) ==
    /\ pc[t] = "sleep"
    /\ mutex' = NoThread
    /\ Goto(t, "blocked")
    /\ UNCHANGED <<requested, expired, early, ret>>

\* The timeout elapses while the thread is blocked.
Timeout(t) ==
    /\ pc[t] = "blocked"
    /\ expired' = expired \cup {t}
    /\ Goto(t, "lock")
    /\ UNCHANGED <<mutex, requested, early, ret>>

\* A spurious wakeup.
Wake(t) ==
    /\ pc[t] = "blocked"
    /\ Goto(t, "lock")
    /\ UNCHANGED <<mutex, requested, expired, early, ret>>

Step(t) == Notify(t) \/ Lock(t) \/ Return(t) \/ Check(t) \/ Sleep(t)

Next == \E t \in Threads : Request(t) \/ WaitFor(t) \/ Timeout(t) \/ Wake(t) \/ Step(t)

Spec == Init /\ [][Next]_vars

\* A thread inside an operation is scheduled and obtains the lock in the end; no
\* thread need ever call one, and no timeout need ever elapse.
FairSpec == Spec /\ \A t \in Threads : WF_vars(Step(t)) /\ SF_vars(Lock(t))
-----------------------------------------------------------------------------
\* Every variable keeps its type, and mutex_ is held by the thread evaluating
\* the predicate or about to block, and by no other.
TypeOK ==
    /\ mutex \in Threads \cup {NoThread} /\ requested \in BOOLEAN
    /\ pc \in [Threads -> {"idle", "notify", "lock", "check", "sleep", "blocked"}]
    /\ expired \in SUBSET Threads /\ early \in SUBSET Threads
    /\ ret \in [Threads -> {"none", "true", "false"}]
    /\ \A t \in Threads : pc[t] \in {"check", "sleep"} <=> mutex = t

\* No wakeup is lost: once the flag is set, a thread blocks in waitFor() only
\* while the notify_all() that will release it is still to come.
NoLostWakeup ==
    requested /\ (\E t \in Threads : pc[t] \in {"sleep", "blocked"}) =>
        \E t \in Threads : pc[t] = "notify"

\* waitFor() never mistakes a request or a stray wakeup for a timeout: true means
\* requested; false means that the timeout elapsed, and that the call was not
\* made after the request.
WaitForIsTruthful ==
    \A t \in Threads : /\ ret[t] = "true" => requested
                       /\ ret[t] = "false" => t \in expired \ early

\* A request releases every sleeper without waiting for its timeout: a thread
\* inside waitFor() when shutdown is requested leaves it, and it returns true.
RequestReleasesSleepers ==
    \A t \in Threads :
        (requested /\ pc[t] \in {"lock", "check", "sleep", "blocked"}) ~>
            (pc[t] = "idle" /\ ret[t] = "true")
=============================================================================
