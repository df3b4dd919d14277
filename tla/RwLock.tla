-------------------------------- MODULE RwLock --------------------------------
(***************************************************************************)
(* A reader/writer lock (threads/rwlock.cpp) over SharedFirstMutex         *)
(* (common/shared_first_mutex.h): a flag, a count and one condition        *)
(* variable.  The rwlock keeps its owner and the thread its rdlock_count   *)
(* outside that mutex, and Unlock decides from the owner which side to     *)
(* release.  Threads unlock only what they hold.                           *)
(***************************************************************************)
EXTENDS Integers, FiniteSets

CONSTANTS
    Threads, NoThread,
    MaxReads,           \* bound on the read locks a thread nests
    Deadlines          \* whether waits may have a deadline: a subset of BOOLEAN

RwLockAssumption ==
    /\ IsFiniteSet(Threads) /\ NoThread \notin Threads
    /\ MaxReads \in Nat \ {0}
    /\ Deadlines \subseteq BOOLEAN

VARIABLES
    readers, writer_active,     \* SharedFirstMutex
    owner,                      \* PthreadRwlock
    rdlock_count,               \* Pthread
    pc, timed,                  \* the call a thread is in
    reads, writes               \* the locks a thread's calls gave it

mutexVars == <<readers, writer_active>>
heldVars == <<reads, writes>>
vars == <<mutexVars, owner, rdlock_count, pc, timed, heldVars>>

Steps == {"run", "rdlock", "rdsleep", "wrlock", "wrsleep", "own", "unlock", "unlock_shared"}

TypeOK ==
    /\ readers \in Nat
    /\ writer_active \in BOOLEAN
    /\ owner \in Threads \cup {NoThread}
    /\ rdlock_count \in [Threads -> Nat]
    /\ pc \in [Threads -> Steps]
    /\ timed \in [Threads -> BOOLEAN]
    /\ reads \in [Threads -> 0 .. MaxReads]
    /\ writes \in [Threads -> BOOLEAN]

Init ==
    /\ readers = 0
    /\ writer_active = FALSE
    /\ owner = NoThread
    /\ rdlock_count = [t \in Threads |-> 0]
    /\ pc = [t \in Threads |-> "run"]
    /\ timed = [t \in Threads |-> FALSE]
    /\ reads = [t \in Threads |-> 0]
    /\ writes = [t \in Threads |-> FALSE]

Goto(t, step) == pc' = [pc EXCEPT ![t] = step]

\* cv.notify_all() by t, which goes on to the given step.
NotifyAll(t, step) ==
    pc' = [u \in Threads |-> CASE u = t -> step
                               [] u # t /\ pc[u] = "rdsleep" -> "rdlock"
                               [] u # t /\ pc[u] = "wrsleep" -> "wrlock"
                               [] OTHER -> pc[u]]

-------------------------------------------------------------------------------
(* Rdlock, tryrdlock *)

\* What lock_shared waits for.
SharedFree == ~writer_active

\* A shared lock is there: try_lock_shared, lock_shared or try_lock_shared_until.
Rdlock(t) ==
    /\ pc[t] \in {"run", "rdlock"}
    /\ reads[t] < MaxReads
    /\ SharedFree
    /\ readers' = readers + 1
    /\ rdlock_count' = [rdlock_count EXCEPT ![t] = @ + 1]
    /\ reads' = [reads EXCEPT ![t] = @ + 1]
    /\ Goto(t, "run")
    /\ timed' = [timed EXCEPT ![t] = FALSE]
    /\ UNCHANGED <<writer_active, owner, writes>>

\* try_lock_shared failed: the call goes on to wait.
RdlockBusy(t, withTimeout) ==
    /\ pc[t] = "run"
    /\ reads[t] < MaxReads
    /\ ~SharedFree
    /\ Goto(t, "rdlock")
    /\ timed' = [timed EXCEPT ![t] = withTimeout]
    /\ UNCHANGED <<mutexVars, owner, rdlock_count, heldVars>>

RdlockSleep(t) ==
    /\ pc[t] = "rdlock"
    /\ ~SharedFree
    /\ Goto(t, "rdsleep")
    /\ UNCHANGED <<mutexVars, owner, rdlock_count, timed, heldVars>>

-------------------------------------------------------------------------------
(* Wrlock, trywrlock *)

\* Mutant: the readers are not looked at.
ExclusiveFreeOfWriters == ~writer_active

\* What lock waits for.
ExclusiveFree == ~writer_active /\ readers = 0

Wrlock(t) ==
    /\ pc[t] \in {"run", "wrlock"}
    /\ ExclusiveFree
    /\ writer_active' = TRUE
    /\ Goto(t, "own")
    /\ timed' = [timed EXCEPT ![t] = FALSE]
    /\ UNCHANGED <<readers, owner, rdlock_count, heldVars>>

Own(t) ==
    /\ pc[t] = "own"
    /\ owner' = t
    /\ writes' = [writes EXCEPT ![t] = TRUE]
    /\ Goto(t, "run")
    /\ UNCHANGED <<mutexVars, rdlock_count, timed, reads>>

WrlockBusy(t, withTimeout) ==
    /\ pc[t] = "run"
    /\ ~ExclusiveFree
    /\ Goto(t, "wrlock")
    /\ timed' = [timed EXCEPT ![t] = withTimeout]
    /\ UNCHANGED <<mutexVars, owner, rdlock_count, heldVars>>

WrlockSleep(t) ==
    /\ pc[t] = "wrlock"
    /\ ~ExclusiveFree
    /\ Goto(t, "wrsleep")
    /\ UNCHANGED <<mutexVars, owner, rdlock_count, timed, heldVars>>

\* The deadline passes: one more look at the condition, and ETIMEDOUT if it fails.
TimeOut(t) ==
    /\ timed[t]
    /\ \/ pc[t] = "rdsleep" /\ Goto(t, IF SharedFree THEN "rdlock" ELSE "run")
       \/ pc[t] = "wrsleep" /\ Goto(t, IF ExclusiveFree THEN "wrlock" ELSE "run")
    /\ timed' = [timed EXCEPT ![t] = FALSE]
    /\ UNCHANGED <<mutexVars, owner, rdlock_count, heldVars>>

-------------------------------------------------------------------------------
(* posix_pthread_rwlock_unlock *)

\* The owner decides which side is released.
UnlockBegin(t) ==
    /\ pc[t] = "run"
    /\ reads[t] > 0 \/ writes[t]
    /\ IF owner = t
       THEN /\ owner' = NoThread
            /\ writes' = [writes EXCEPT ![t] = FALSE]
            /\ Goto(t, "unlock")
            /\ UNCHANGED <<rdlock_count, reads>>
       ELSE /\ rdlock_count' = IF owner = NoThread THEN [rdlock_count EXCEPT ![t] = @ - 1]
                               ELSE rdlock_count
            /\ reads' = [reads EXCEPT ![t] = @ - 1]
            /\ Goto(t, "unlock_shared")
            /\ UNCHANGED <<owner, writes>>
    /\ UNCHANGED <<mutexVars, timed>>

\* Mutant: nobody is notified.
UnlockSilently(t) ==
    /\ pc[t] = "unlock"
    /\ writer_active' = FALSE
    /\ Goto(t, "run")
    /\ UNCHANGED <<readers, owner, rdlock_count, timed, heldVars>>

Unlock(t) ==
    /\ pc[t] = "unlock"
    /\ writer_active' = FALSE
    /\ NotifyAll(t, "run")
    /\ UNCHANGED <<readers, owner, rdlock_count, timed, heldVars>>

\* The last reader wakes the waiters.
UnlockShared(t) ==
    /\ pc[t] = "unlock_shared"
    /\ readers' = readers - 1
    /\ IF readers - 1 = 0 THEN NotifyAll(t, "run") ELSE Goto(t, "run")
    /\ UNCHANGED <<writer_active, owner, rdlock_count, timed, heldVars>>

-------------------------------------------------------------------------------
\* What a thread does by itself once it is in a call.
Continue(t) ==
    \/ pc[t] = "rdlock" /\ Rdlock(t)
    \/ pc[t] = "wrlock" /\ Wrlock(t)
    \/ RdlockSleep(t) \/ WrlockSleep(t) \/ Own(t) \/ Unlock(t) \/ UnlockShared(t)

Next ==
    \E t \in Threads :
        \/ Continue(t) \/ Rdlock(t) \/ Wrlock(t) \/ TimeOut(t) \/ UnlockBegin(t)
        \/ \E withTimeout \in Deadlines : RdlockBusy(t, withTimeout) \/ WrlockBusy(t, withTimeout)

Spec == Init /\ [][Next]_vars

\* Threads in a call are scheduled and locks are given back.
Fairness == \A t \in Threads : WF_vars(Continue(t)) /\ WF_vars(UnlockBegin(t))

FairSpec == Spec /\ Fairness

-------------------------------------------------------------------------------
\* The thread that has the lock to itself, from the moment the mutex is taken.
Writers == {t \in Threads : writes[t] \/ pc[t] \in {"own", "unlock"}}

\* The share a thread has in the count of readers.
Shares(t) == reads[t] + (IF pc[t] = "unlock_shared" THEN 1 ELSE 0)

\* The read locks there are: the first, second ... of each thread.
ReadLocks == {l \in Threads \X (1 .. MaxReads + 1) : l[2] <= Shares(l[1])}

\* A writer is alone: no other writer and no reader, itself included.
Exclusion ==
    /\ \A t, u \in Writers : t = u
    /\ Writers # {} => \A u \in Threads : Shares(u) = 0

\* rdlock_count is the number of read locks a thread holds, and the mutex counts the
\* same locks, although the three are written in different steps.  The owner is the
\* thread that has the write lock, so unlock releases the side its caller holds.
CountsMatch ==
    /\ TypeOK
    /\ \A t \in Threads : owner = t <=> writes[t]
    /\ \A t \in Threads : rdlock_count[t] = reads[t]
    /\ readers = Cardinality(ReadLocks)

\* "reader has priority over writer": a reader sleeps only while a writer has the
\* lock, and a writer only while somebody has it; no sleeper has missed its wake-up.
SleepersHaveReason ==
    \A t \in Threads :
        /\ pc[t] = "rdsleep" => writer_active
        /\ pc[t] = "wrsleep" => writer_active \/ readers > 0

\* What Rdlock, Wrlock and unlock keep between the threads that call them.
LocksSafe == Exclusion /\ CountsMatch /\ SleepersHaveReason

\* Nothing refuses a thread that waits for what it holds itself: there is no EDEADLK here.
WaitsForItself(t) ==
    \/ pc[t] = "rdsleep" /\ writes[t]
    \/ pc[t] = "wrsleep" /\ (writes[t] \/ reads[t] > 0)

\* A sleeping reader is woken, the writer it waits for gives the lock back and tells it,
\* unless a thread waits for itself.  (Writers have no such promise: readers that
\* overlap keep them waiting.)
SleepingReaderWakes ==
    \A t \in Threads :
        pc[t] = "rdsleep" ~> (pc[t] # "rdsleep" \/ \E u \in Threads : WaitsForItself(u))
===============================================================================
