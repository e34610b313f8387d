------------------------------- MODULE Mutex -------------------------------
(***************************************************************************)
(* PTP::Mutex (ptp/mutex.cpp): a mutex that its owner may take again.  The *)
(* kernel object (PTHREAD_RECURSIVE_MUTEX_INITIALIZER_NP, or CreateMutex)  *)
(* is an owner and the number of Unlocks the owner still owes.             *)
(***************************************************************************)
EXTENDS Naturals

CONSTANTS
    Threads,  \* the threads of the process
    None      \* no thread; also the NULL pointer of the modules above

ASSUME ThreadsAssumption == None \notin Threads

VARIABLES
    owner,    \* the thread that holds m_mutex, or None
    depth     \* how many Locks of the owner have not been undone

mutexVars == <<owner, depth>>

MutexTypeOK ==
    /\ owner \in Threads \cup {None}
    /\ depth \in Nat

MutexInit ==
    /\ owner = None
    /\ depth = 0

----------------------------------------------------------------------------
\* Mutant: a mutex that is not recursive blocks its own owner.
MutexFreeNotRecursive(t) == owner = None

MutexFree(t) == owner \in {None, t}

\* Mutant: locking again is not counted.
MutexLockUncounted(t) ==
    /\ MutexFree(t)
    /\ owner' = t
    /\ UNCHANGED depth

MutexLock(t) ==
    /\ MutexFree(t)
    /\ owner' = t
    /\ depth' = depth + 1

MutexUnlock(t) ==
    /\ owner' = IF depth = 1 THEN None ELSE owner
    /\ depth' = depth - 1

============================================================================
