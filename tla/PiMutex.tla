------------------------------- MODULE PiMutex -------------------------------
(***************************************************************************)
(* PiMutex: its constructor call by call, each of which may fail, and      *)
(* lock(), try_lock() and unlock() of the mutex it built.  The pthread     *)
(* mutex hands itself to the most urgent of its waiters when it is         *)
(* released.                                                               *)
(***************************************************************************)
EXTENDS RealtimeManager

CONSTANT NoThread  \* the owner of a free mutex

ASSUME PiMutexAssumption == NoThread \notin Threads

VARIABLES
    construction,  \* the constructor's next call, then "built" or "threw"
    failed,        \* the constructor's calls that failed
    attributes,    \* whether the attribute object exists
    protocol,      \* its protocol, and that of the mutex made from it
    exists,        \* whether mutex_ is initialized
    owner,         \* the thread that holds mutex_
    waiting        \* the threads blocked in pthread_mutex_lock()

constructorVars == <<construction, failed, attributes, protocol, exists>>
lockVars == <<owner, waiting>>

PiMutexInit ==
    /\ construction = "attrInit" /\ failed = {} /\ attributes = FALSE
    /\ protocol = "none" /\ exists = FALSE
    /\ owner = NoThread /\ waiting = {}

\* A pthread call of the constructor that fails is remembered.
Returns(call, success) == failed' = IF success THEN failed ELSE failed \cup {call}

AttrInit ==
    /\ construction = "attrInit"
    /\ \E success \in BOOLEAN :
          /\ Returns("attrInit", success)
          /\ attributes' = success
          /\ construction' = IF success THEN "setProtocol" ELSE "threw"
    /\ UNCHANGED <<protocol, exists, lockVars>>

\* The protocol a successful pthread_mutexattr_setprotocol() leaves.
\* MUTANT of ProtocolSet: the default protocol.
ProtocolUnset == "none"
ProtocolSet == "inherit"

\* Where it fails the attributes are destroyed, whatever that call returns.
SetProtocol ==
    /\ construction = "setProtocol"
    /\ \/ /\ Returns("setProtocol", TRUE)
          /\ protocol' = ProtocolSet
          /\ construction' = "mutexInit"
          /\ UNCHANGED attributes
       \/ /\ \E destroyed \in BOOLEAN :
                /\ failed' = failed \cup {"setProtocol"}
                                    \cup (IF destroyed THEN {} ELSE {"attrDestroy"})
                /\ attributes' = ~destroyed
          /\ construction' = "threw"
          /\ UNCHANGED protocol
    /\ UNCHANGED <<exists, lockVars>>

MutexInit ==
    /\ construction = "mutexInit"
    /\ \E success \in BOOLEAN : Returns("mutexInit", success) /\ exists' = success
    /\ construction' = "attrDestroy"
    /\ UNCHANGED <<attributes, protocol, lockVars>>

\* MUTANT of KeepsMutex: the mutex is not destroyed when the constructor throws.
KeepsMutexAlways(destroyed) == exists
\* A failed pthread_mutexattr_destroy() takes the new mutex with it.
KeepsMutex(destroyed) == exists /\ destroyed

\* The attributes are destroyed first, and both results looked at then.
AttrDestroy ==
    /\ construction = "attrDestroy"
    /\ \E destroyed \in BOOLEAN :
          /\ Returns("attrDestroy", destroyed)
          /\ attributes' = ~destroyed
          /\ exists' = KeepsMutex(destroyed)
          /\ construction' = IF exists /\ destroyed THEN "built" ELSE "threw"
    /\ UNCHANGED <<protocol, lockVars>>

Construct == AttrInit \/ SetProtocol \/ MutexInit \/ AttrDestroy

-----------------------------------------------------------------------------
\* lock(): the mutex is taken, or the caller joins its waiters.
Lock(t) ==
    /\ \/ owner = NoThread /\ owner' = t /\ UNCHANGED waiting
       \/ owner # NoThread /\ waiting' = waiting \cup {t} /\ UNCHANGED owner
    /\ UNCHANGED constructorVars

\* try_lock(): EBUSY is its false.
\* MUTANT of TryLock: EBUSY is taken for success.
TryLockTakesBusy(t) == owner' = t /\ UNCHANGED <<constructorVars, waiting>>
TryLock(t) ==
    /\ owner' = IF owner = NoThread THEN t ELSE owner
    /\ UNCHANGED <<constructorVars, waiting>>

\* lock() or try_lock() throws: the pthread call returned an error other than EBUSY.
LockThrows == UNCHANGED <<constructorVars, lockVars>>

\* The waiters pthread_mutex_unlock() may hand the mutex to.
MostUrgent == {h \in waiting : \A u \in waiting : scheduling[u] <= scheduling[h]}

\* unlock()
Unlock(t) ==
    /\ owner = t
    /\ \/ waiting = {} /\ owner' = NoThread /\ UNCHANGED waiting
       \/ \E h \in MostUrgent : owner' = h /\ waiting' = waiting \ {h}
    /\ UNCHANGED constructorVars
=============================================================================
